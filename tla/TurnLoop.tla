------------------------------ MODULE TurnLoop ------------------------------
(***************************************************************************)
(* The tool loop of one turn, run_turn of src/src/engine.rs.  Each round   *)
(* sends the messages so far upstream and reads an answer that may call    *)
(* tools.  Tools the client offered are handed to it and end the turn; web *)
(* search and image analysis are run here and answered in the next round;  *)
(* a call of a tool nobody offered discards the batch it came in and costs *)
(* a repair round.  The client may leave, or the turn be killed, at every  *)
(* wait.  How an answer is streamed is the matter of ToolStream.           *)
(***************************************************************************)
EXTENDS Integers, Sequences, SequencesExt, Picks

CONSTANTS CanSearch,      \* a Brave key is configured
          Vision,         \* the image agent is active for the turn
          SearchRounds,   \* max_web_search_rounds, 0 for unlimited
          SearchCeiling,  \* WEB_SEARCH_ROUNDS_HARD_CEILING
          ImageCeiling,   \* IMAGE_ANALYSIS_ROUNDS_HARD_CEILING
          RepairCeiling,  \* UNKNOWN_TOOL_REPAIR_CEILING
          MaxCalls        \* bound on the tool calls of one answer

ASSUME TurnLoopAssumption ==
    /\ CanSearch \in BOOLEAN /\ Vision \in BOOLEAN
    /\ SearchRounds \in Nat
    /\ SearchCeiling \in Nat \ {0} /\ ImageCeiling \in Nat \ {0}
    /\ RepairCeiling \in Nat
    /\ MaxCalls \in Nat \ {0}

VARIABLES pc,         \* where the turn waits
          messages,   \* current_messages: what the upstream is sent
          requests,   \* upstream_request_index
          rounds,     \* the three independent round counters
          repairing,  \* pending_repair
          choice,     \* current_tool_choice
          answer,     \* the finalized answer of the round
          next,       \* the call of the answer that is handled next
          public,     \* what the turn added to public_history
          output,     \* response_output
          wire,       \* the output items whose "done" the client was sent
          counts,     \* unknown_tool_call_counts, of this turn
          replay      \* what the replay store was given

vars == <<pc, messages, requests, rounds, repairing, choice, answer, next,
          public, output, wire, counts, replay>>

\* The kinds of call: a client's tool, the two server tools, and a name that
\* is not in the registry.  The image tool is offered iff its agent is active.
Kinds == {"client", "search", "unknown"} \cup (IF Vision THEN {"image"} ELSE {})

\* A call is known by the request it answers and its place in the answer.
Call == [id : Nat \X Nat, kind : Kinds]

IsServerTool(c) == (c.kind = "search" /\ CanSearch) \/ c.kind = "image"

IsRejected(c) == c.kind = "unknown"

Tainted == \E c \in ToSet(answer.calls) : IsRejected(c)
HasServerTool == \E c \in ToSet(answer.calls) : IsServerTool(c)
HasClientTool == \E c \in ToSet(answer.calls) : ~IsServerTool(c)
HasKind(kind) == \E c \in ToSet(answer.calls) : c.kind = kind

\* Chat messages: an assistant's names the calls it makes, a tool's the call
\* it answers.
Assistant(calls) == [role |-> "assistant", ids |-> [k \in DOMAIN calls |-> calls[k].id]]
Result(call) == [role |-> "tool", ids |-> <<call.id>>]
Results(calls) == [k \in DOMAIN calls |-> Result(calls[k])]
Asked == [role |-> "user", ids |-> <<>>]
Note == [role |-> "system", ids |-> <<>>]

NoAnswer == [text |-> FALSE, calls |-> <<>>]
NoRecord == [visible |-> <<>>, internal |-> <<>>]

Text == [id |-> <<requests, 0>>, kind |-> "message"]

Init ==
    /\ pc = "sending"
    /\ messages = <<Asked>>
    /\ requests = 0
    /\ rounds = [search |-> 0, image |-> 0, repair |-> 0]
    /\ repairing = FALSE
    /\ choice \in {"forced", "auto"}
    /\ answer = NoAnswer
    /\ next = 1
    /\ public = <<>>
    /\ output = <<>>
    /\ wire = <<>>
    /\ counts = [repaired |-> 0, exhausted |-> 0]
    /\ replay = NoRecord

Goto(from, to) == pc = from /\ pc' = to

Ended == {"completed", "failed", "exhausted", "cancelled"}

-----------------------------------------------------------------------------
(* One request to the upstream and the answer it streams.                  *)

Send ==
    /\ Goto("sending", "streaming")
    /\ requests' = requests + 1
    /\ UNCHANGED <<messages, rounds, repairing, choice, answer, next, public,
                   output, wire, counts, replay>>

\* The batch of calls of these kinds, numbered in order.
Batch(kinds) ==
    [k \in DOMAIN kinds |-> [id |-> <<requests, k>>, kind |-> kinds[k]]]

\* StreamState::finalize.  Calls are resolved in the order of their index.
Finalize ==
    /\ Goto("streaming", "answered")
    /\ \E text \in BOOLEAN, n \in 0..MaxCalls : \E kinds \in [1..n -> Kinds] :
          answer' = [text |-> text, calls |-> Batch(kinds)]
    /\ next' = 1
    /\ UNCHANGED <<messages, requests, rounds, repairing, choice, public,
                   output, wire, counts, replay>>

\* The upstream fails, breaks off, or calls an offered tool with arguments
\* that do not parse.
AnswerFails ==
    /\ Goto("streaming", "failed")
    /\ UNCHANGED <<messages, requests, rounds, repairing, choice, answer, next,
                   public, output, wire, counts, replay>>

\* emit_completed_public_items, and the assistant's message of the round.
EmitItems ==
    /\ Goto("answered", "emitted")
    /\ LET items == IF answer.text THEN <<Text>> ELSE <<>>
       IN  /\ public' = public \o items
           /\ output' = output \o items
           /\ wire' = wire \o items
    /\ messages' = IF answer = NoAnswer THEN messages
                   ELSE Append(messages, Assistant(answer.calls))
    /\ UNCHANGED <<requests, rounds, repairing, choice, answer, next, counts, replay>>

-----------------------------------------------------------------------------
(* A call that was not offered taints the whole batch.                     *)

RejectedAt == {k \in DOMAIN answer.calls : IsRejected(answer.calls[k])}
Valid == Picked(answer.calls, DOMAIN answer.calls \ RejectedAt)
Rejected == Picked(answer.calls, RejectedAt)

Again(more, asking) ==
    /\ Goto("emitted", "sending")
    /\ Tainted
    /\ rounds.repair < RepairCeiling
    /\ rounds' = [rounds EXCEPT !.repair = @ + 1]
    /\ repairing' = TRUE
    /\ messages' = messages \o more
    /\ choice' = asking
    /\ UNCHANGED <<requests, answer, next, public, output, wire, counts, replay>>

RepairAnswersRejected == Again(Append(Results(Rejected), Note), "auto")

\* Every call of the batch gets a result that says it was not run, the model
\* is told the tools it has, and it may answer as it likes.
Repair == Again(Results(Valid) \o Results(Rejected) \o <<Note>>, "auto")

Exhaust ==
    /\ Goto("emitted", "exhausted")
    /\ Tainted
    /\ rounds.repair >= RepairCeiling
    /\ counts' = [counts EXCEPT !.exhausted = @ + 1]
    /\ UNCHANGED <<messages, requests, rounds, repairing, choice, answer, next,
                   public, output, wire, replay>>

Untainted(still) ==
    /\ Goto("emitted", IF answer.calls = <<>> THEN "completing" ELSE "calling")
    /\ ~Tainted
    /\ counts' = [counts EXCEPT !.repaired = IF repairing THEN @ + 1 ELSE @]
    /\ repairing' = still
    /\ UNCHANGED <<messages, requests, rounds, choice, answer, next, public,
                   output, wire, replay>>

\* The round is clean: a repair that was pending has worked.
Clean == Untainted(FALSE)

-----------------------------------------------------------------------------
(* handle_tool_calls.                                                      *)

Calling == pc = "calling" /\ next <= Len(answer.calls)

Current == answer.calls[next]

Handle(records, item, result) ==
    /\ Calling
    /\ public' = IF records THEN public \o item ELSE public
    /\ output' = output \o item
    /\ wire' = wire \o item
    /\ messages' = messages \o result
    /\ next' = next + 1
    /\ UNCHANGED <<pc, requests, rounds, repairing, choice, answer, counts, replay>>

MixedBatch ==
    /\ Goto("calling", "failed")
    /\ HasServerTool /\ HasClientTool
    /\ UNCHANGED <<messages, requests, rounds, repairing, choice, answer, next,
                   public, output, wire, counts, replay>>

HandOffUnrecorded == Calling /\ ~HasServerTool /\ Handle(FALSE, <<Current>>, <<>>)

\* The call is shown and recorded as it was shown.
HandOff == Calling /\ ~HasServerTool /\ Handle(TRUE, <<Current>>, <<>>)

\* The client is shown the search; its result, a failure or a timeout is what
\* the model is told.
RunSearch ==
    /\ Calling /\ ~HasClientTool
    /\ Current.kind = "search"
    /\ Handle(TRUE, <<Current>>, <<Result(Current)>>)

\* The model called the search without a query.
SearchFails ==
    /\ Goto("calling", "failed")
    /\ Calling /\ ~HasClientTool
    /\ Current.kind = "search"
    /\ UNCHANGED <<messages, requests, rounds, repairing, choice, answer, next,
                   public, output, wire, counts, replay>>

RunImageShown ==
    /\ Calling /\ ~HasClientTool
    /\ Current.kind = "image"
    /\ Handle(TRUE, <<Current>>, <<Result(Current)>>)

\* Image analysis is never shown.
RunImage ==
    /\ Calling /\ ~HasClientTool
    /\ Current.kind = "image"
    /\ Handle(TRUE, <<>>, <<Result(Current)>>)

SearchLimit ==
    IF SearchRounds > 0 /\ SearchRounds < SearchCeiling
    THEN SearchRounds ELSE SearchCeiling

SearchSpentStrict == HasKind("search") /\ rounds.search + 1 > SearchLimit

SearchSpent == HasKind("search") /\ rounds.search + 1 >= SearchLimit

ImageSpent == HasKind("image") /\ rounds.image + 1 >= ImageCeiling

\* The client has its calls, and the turn is over.
HandedOff ==
    /\ Goto("calling", "completing")
    /\ next > Len(answer.calls)
    /\ HasClientTool
    /\ UNCHANGED <<messages, requests, rounds, repairing, choice, answer, next,
                   public, output, wire, counts, replay>>

\* The model gets the results, unless it has called these tools too often.
ServerToolsRan ==
    /\ Goto("calling", IF SearchSpent \/ ImageSpent THEN "failed" ELSE "sending")
    /\ next > Len(answer.calls)
    /\ ~HasClientTool
    /\ rounds' = [rounds EXCEPT
          !.search = IF HasKind("search") THEN @ + 1 ELSE @,
          !.image = IF HasKind("image") /\ ~SearchSpent THEN @ + 1 ELSE @]
    /\ choice' = IF SearchSpent \/ ImageSpent THEN choice ELSE "auto"
    /\ UNCHANGED <<messages, requests, repairing, answer, next, public, output,
                   wire, counts, replay>>

-----------------------------------------------------------------------------
(* The end of the turn.                                                    *)

\* request.store.
Store ==
    /\ Goto("completing", "finishing")
    /\ replay' \in {NoRecord, [visible |-> public, internal |-> messages]}
    /\ UNCHANGED <<messages, requests, rounds, repairing, choice, answer, next,
                   public, output, wire, counts>>

Complete ==
    /\ Goto("finishing", "completed")
    /\ UNCHANGED <<messages, requests, rounds, repairing, choice, answer, next,
                   public, output, wire, counts, replay>>

\* The client hangs up or the turn is killed.
Cancel ==
    /\ pc \notin Ended
    /\ pc' = "cancelled"
    /\ UNCHANGED <<messages, requests, rounds, repairing, choice, answer, next,
                   public, output, wire, counts, replay>>

\* A turn that has ended takes no more steps.
Over == pc \in Ended /\ UNCHANGED vars

Next ==
    \/ Send \/ Finalize \/ AnswerFails \/ EmitItems
    \/ Repair \/ Exhaust \/ Clean
    \/ MixedBatch \/ HandOff \/ RunSearch \/ SearchFails \/ RunImage
    \/ HandedOff \/ ServerToolsRan
    \/ Store \/ Complete \/ Cancel \/ Over

Spec == Init /\ [][Next]_vars

-----------------------------------------------------------------------------
(* Properties.                                                             *)

Message == [role : {"user", "system", "assistant", "tool"}, ids : Seq(Nat \X Nat)]

Item == [id : Nat \X Nat, kind : Kinds \cup {"message"}]

\* Every variable has its type, and an answer's calls are numbered in order.
TypeOK ==
    /\ pc \in {"sending", "streaming", "answered", "emitted", "calling",
               "completing", "finishing"} \cup Ended
    /\ messages \in Seq(Message)
    /\ requests \in Nat
    /\ rounds \in [search : Nat, image : Nat, repair : Nat]
    /\ repairing \in BOOLEAN
    /\ choice \in {"forced", "auto"}
    /\ answer \in [text : BOOLEAN, calls : Seq(Call)]
    /\ next \in Nat
    /\ public \in Seq(Item) /\ output \in Seq(Item) /\ wire \in Seq(Item)
    /\ counts \in [repaired : Nat, exhausted : Nat]
    /\ replay \in [visible : Seq(Item), internal : Seq(Message)]

\* The n messages after place i are results, one for each of the calls ids.
AnsweredAt(ms, i, ids) ==
    /\ i + Len(ids) <= Len(ms)
    /\ \A k \in 1..Len(ids) : ms[i + k].role = "tool"
    /\ {ms[i + k].ids[1] : k \in 1..Len(ids)} = ToSet(ids)

\* The upstream is never sent a call without its one result, nor a result
\* without its call, whatever mixture of repair and server-tool rounds came
\* before (engine.rs: "so the chat history stays well-formed").
EveryCallIsAnswered ==
    pc \in {"sending", "streaming"} =>
        /\ \A i \in DOMAIN messages :
              messages[i].role = "assistant" => AnsweredAt(messages, i, messages[i].ids)
        /\ \A i \in DOMAIN messages : messages[i].role = "tool" =>
              \E j \in 1..(i - 1) : /\ messages[j].role = "assistant"
                                    /\ i - j <= Len(messages[j].ids)

MaxRequests == RepairCeiling + SearchLimit + ImageCeiling - 1

\* A model that never stops calling tools is stopped: every mixture of
\* unoffered, search and image calls ends within the sum of the three ceilings.
LoopIsBounded ==
    /\ requests <= MaxRequests
    /\ pc = "sending" => requests < MaxRequests

\* The client is shown messages, its own tools and searches.  Nothing of a
\* batch with an unoffered call is handed off, and no image call surfaces.
NothingInternalSurfaces ==
    /\ \A i \in DOMAIN wire : wire[i].kind \in {"message", "client", "search"}
    /\ Tainted => \A i \in DOMAIN wire : wire[i].kind = "message" \/ wire[i].id[1] < requests
    /\ \A i \in DOMAIN wire : wire[i].kind = "client" => wire[i].id[1] = requests

\* A forced tool choice is for the first request only.
ForcedOnce == pc = "streaming" /\ requests > 1 => choice = "auto"

OpenCalls(ms) ==
    (UNION {ToSet(ms[i].ids) : i \in {i \in DOMAIN ms : ms[i].role = "assistant"}})
        \ (UNION {ToSet(ms[i].ids) : i \in {i \in DOMAIN ms : ms[i].role = "tool"}})

\* The completed response, the public history and the items the client was
\* sent agree, and the history that a later turn will replay leaves open
\* exactly the calls this client was handed.
ReplayTellsWhatTheClientSaw ==
    /\ pc \in {"completing", "finishing", "completed"} =>
          output = wire /\ public = wire
    /\ replay # NoRecord =>
          /\ replay.visible = wire
          /\ OpenCalls(replay.internal) =
                {wire[i].id : i \in {i \in DOMAIN wire :
                    wire[i].kind # "message"
                    /\ ~\E j \in DOMAIN messages :
                          messages[j] = Result(wire[i])}}

\* A turn counts one "exhausted" iff it ended so, and a completed turn counts
\* a repair iff it needed one, never more often than it repaired.
RepairsAreCounted ==
    /\ counts.exhausted = (IF pc = "exhausted" THEN 1 ELSE 0)
    /\ counts.repaired <= rounds.repair
    /\ pc = "completed" => (counts.repaired > 0 <=> rounds.repair > 0)
=============================================================================
