------------------------------- MODULE Egress -------------------------------
(***************************************************************************)
(* What a streaming client is told of a turn.  run_turn (src/src/engine.rs) *)
(* emits one canonical stream of Responses events over the rounds of the   *)
(* turn; a /v1/messages client gets it through AnthropicStreamConverter    *)
(* (src/src/adapters/responses_to_anthropic), which allows one open        *)
(* content block at a time, a /v1/chat/completions client through          *)
(* ChatCompletionStreamConverter (src/src/adapters/chat_completions.rs),   *)
(* which has no blocks and addresses calls by index.                       *)
(*                                                                         *)
(* A delta is known by its number among the deltas of its kind, or among   *)
(* the fragments of its call.  Events both converters ignore (parts,       *)
(* refusals, items of reasoning and searches) are left out.                *)
(***************************************************************************)
EXTENDS Integers, Sequences, FiniteSets, Picks

CONSTANTS
    TurnCalls,          \* the calls a turn may make, by the index of their answer
    MaxRounds,      \* bound on the answers of the turn
    MaxPieces,   \* bound on the fragments of a call
    MaxDeltas       \* bound on the text and reasoning deltas of the turn

ASSUME EgressAssumption ==
    /\ TurnCalls \subseteq Nat \ {0}     \* 0 is NoCall
    /\ IsFiniteSet(TurnCalls)
    /\ {MaxRounds, MaxPieces, MaxDeltas} \subseteq Nat

VARIABLES
    surface,    \* the route the request came by
    tool,       \* the tool of each call
    engine,     \* where run_turn is
    told,       \* what run_turn has emitted
    anthropic,  \* AnthropicStreamConverter and the message its client has
    chat        \* ChatCompletionStreamConverter and what its client has

egressVars == <<surface, tool, engine, told, anthropic, chat>>

UpTo(n) == [k \in 1..n |-> k]

\* The blocks, or the calls of a chat message, that are of this call.
PlacesOf(entries, call) == {k \in DOMAIN entries : entries[k].call = call}

-----------------------------------------------------------------------------
(* AnthropicStreamConverter: a block is opened at the end of the message,  *)
(* so next_block_index is the message's length. *)

NewMessage ==
    [started |-> FALSE, open |-> FALSE, over |-> FALSE, blocks |-> <<>>,
     emitted |-> {}, closed |-> {}, ends |-> <<>>,
     buffer |-> <<>>, signature |-> FALSE, content |-> FALSE, tools |-> FALSE]

NoCall == 0

Block(kind, call, named, pieces) ==
    [kind |-> kind, call |-> call, named |-> named, pieces |-> pieces,
     signed |-> FALSE, open |-> FALSE]

LastBlock(m) == m.blocks[Len(m.blocks)]
IsOpen(m, kind, call) ==
    m.open /\ LastBlock(m).kind = kind /\ LastBlock(m).call = call

\* close_open_block: a tool block's call is remembered.
Close(m) ==
    IF ~m.open THEN m
    ELSE [m EXCEPT !.open = FALSE,
                   !.blocks[Len(m.blocks)].open = FALSE,
                   !.closed = @ \cup ({LastBlock(m).call} \ {NoCall})]

Open(m, block) ==
    [m EXCEPT !.open = TRUE, !.blocks = Append(@, [block EXCEPT !.open = TRUE])]

Add(m, pieces) ==
    [m EXCEPT !.blocks[Len(m.blocks)].pieces = @ \o pieces]

\* A thinking block is opened, signed and closed at once.
FlushThinking(m) ==
    IF m.buffer = <<>> /\ ~m.signature THEN m
    ELSE [Close(m) EXCEPT
             !.blocks = Append(@, [Block("thinking", NoCall, TRUE, m.buffer)
                                      EXCEPT !.signed = TRUE]),
             !.buffer = <<>>, !.signature = FALSE]

\* flush_reasoning_terminal: an answer of nothing but unsigned reasoning that
\* ended cleanly is shown as text.
FlushTerminal(m, clean) ==
    IF clean /\ ~m.content /\ ~m.tools /\ ~m.signature /\ m.buffer # <<>>
    THEN [Close(m) EXCEPT !.blocks = Append(@, Block("promoted", NoCall, TRUE, m.buffer)),
                          !.buffer = <<>>, !.content = TRUE]
    ELSE FlushThinking(m)

StartText(m) ==
    Open([Close(FlushThinking(m)) EXCEPT !.content = TRUE],
         Block("text", NoCall, TRUE, <<>>))

ToolBlock(m, e) ==
    IF IsOpen(m, "tool_use", e.call) THEN m
    ELSE Open(Close([FlushThinking(m) EXCEPT !.content = TRUE]),
              Block("tool_use", e.call, e.named, <<>>))

TextDelta(m, e) ==
    Add(IF IsOpen(m, "text", NoCall) THEN m ELSE StartText(m), <<e.n>>)

\* Reasoning after content is dropped.
ReasoningDelta(m, e) ==
    IF m.content THEN m ELSE [m EXCEPT !.buffer = Append(@, e.n)]

SignatureDelta(m) == IF m.content THEN m ELSE [m EXCEPT !.signature = TRUE]

\* is_hidden_server_tool sees the name the event carries, if any.
HiddenByName(e) == e.named /\ e.tool = "search"

ArgumentsDelta(m, e) ==
    IF e.call \in m.emitted \cup m.closed \/ HiddenByName(e) THEN m
    ELSE Add(ToolBlock([m EXCEPT !.tools = TRUE], e), <<e.n>>)

\* A call whose block is closed already is only marked.
Whole(m, e) ==
    LET done == [m EXCEPT !.emitted = @ \cup {e.call}]
    IN  IF e.call \in m.emitted \cup m.closed THEN done
        ELSE Close(Add(ToolBlock(done, e), e.pieces))

ArgumentsDone(m, e) ==
    IF IsOpen(m, "tool_use", e.call) /\ e.call \notin m.emitted \cup m.closed
    THEN [Close(m) EXCEPT !.tools = TRUE, !.emitted = @ \cup {e.call}]
    ELSE Whole([m EXCEPT !.tools = TRUE], e)

ItemDone(m, e) == Whole([Close(m) EXCEPT !.tools = TRUE], e)

SearchIsContent(m) ==
    LET c == [Close(FlushThinking(m)) EXCEPT !.content = TRUE]
    IN  [c EXCEPT !.blocks = @ \o <<Block("server_tool_use", NoCall, TRUE, <<>>),
                                    Block("web_search_tool_result", NoCall, TRUE, <<>>)>>]

\* Both blocks are opened and closed at once, and are not content.
WebSearchResults(m) ==
    LET c == Close(FlushThinking(m))
    IN  [c EXCEPT !.blocks = @ \o <<Block("server_tool_use", NoCall, TRUE, <<>>),
                                    Block("web_search_tool_result", NoCall, TRUE, <<>>)>>]

\* A call makes the reason, whatever the upstream's was.
StopReason(m, reason) ==
    CASE reason = "length" -> "max_tokens"
      [] m.tools           -> "tool_use"
      [] OTHER             -> "end_turn"

Finish(m, reason) ==
    [Close(m) EXCEPT !.over = TRUE, !.ends = @ \o <<StopReason(m, reason), "message_stop">>]

Completed(m, e) == Finish(FlushTerminal(m, e.reason = "stop"), e.reason)

FailedStaysOpen(m) == [m EXCEPT !.ends = Append(@, "error")]

\* An error ends the stream where it is, open block or not.
Failed(m) == [m EXCEPT !.over = TRUE, !.ends = Append(@, "error")]

Convert(m, e) ==
    LET s == [m EXCEPT !.started = TRUE]
    IN  CASE e.t = "created"        -> s
          [] e.t = "message added"  -> StartText(s)
          [] e.t = "message done"   -> IF IsOpen(m, "text", NoCall) THEN Close(m) ELSE m
          [] e.t = "text"           -> TextDelta(s, e)
          [] e.t = "reasoning"      -> ReasoningDelta(s, e)
          [] e.t = "signature"      -> SignatureDelta(s)
          [] e.t = "arguments"      -> ArgumentsDelta(s, e)
          [] e.t = "arguments done" -> ArgumentsDone(s, e)
          [] e.t = "call done"      -> ItemDone(m, e)
          [] e.t = "search results" -> WebSearchResults(s)
          [] e.t = "completed"      -> Completed(m, e)
          [] e.t = "failed"         -> Failed(m)

\* finalize, once the stream is exhausted.
Terminate(m) ==
    IF m.over THEN m ELSE Finish(FlushThinking([m EXCEPT !.started = TRUE]), "none")

-----------------------------------------------------------------------------
(* ChatCompletionStreamConverter; the client adds what a chunk carries to  *)
(* the call of its index. *)

NewChat == [text |-> <<>>, reasoning |-> <<>>, calls |-> <<>>, ends |-> <<>>]

Registered(m, call) == PlacesOf(m.calls, call) # {}
IndexOfCall(m, call) == CHOOSE k \in PlacesOf(m.calls, call) : TRUE

Register(m, call) ==
    IF Registered(m, call) THEN m
    ELSE [m EXCEPT !.calls = Append(@, [call |-> call, named |-> FALSE, pieces |-> <<>>])]

\* The chunk has the name if it is known and was not sent before.
PushChunk(m, e, pieces) ==
    LET i == IndexOfCall(m, e.call)
    IN  [m EXCEPT !.calls[i].named = @ \/ e.named, !.calls[i].pieces = @ \o pieces]

\* emit_tool_call: of a call that was streamed, only a name that is missing.
EmitToolCall(m, e) ==
    IF Registered(m, e.call) THEN PushChunk(m, e, <<>>)
    ELSE PushChunk(Register(m, e.call), e, e.pieces)

FinishReason(m, reason) ==
    CASE reason = "length"  -> "length"
      [] m.calls # <<>>     -> "tool_calls"
      [] OTHER              -> "stop"

ConvertChat(m, e) ==
    CASE e.t = "text"      -> [m EXCEPT !.text = Append(@, e.n)]
      [] e.t = "reasoning" -> [m EXCEPT !.reasoning = Append(@, e.n)]
      [] e.t = "arguments" -> PushChunk(Register(m, e.call), e, <<e.n>>)
      [] e.t \in {"arguments done", "call done"} -> EmitToolCall(m, e)
      [] e.t = "completed" -> [m EXCEPT !.ends = @ \o <<FinishReason(m, e.reason), "[DONE]">>]
      [] e.t = "failed"    -> [m EXCEPT !.ends = @ \o <<"error", "[DONE]">>]
      [] OTHER             -> m

-----------------------------------------------------------------------------
(* The stream. *)

Take(by, m, e) == IF by = "anthropic" THEN Convert(m, e) ELSE ConvertChat(m, e)

\* What each number of events makes of a message.
After(by, m, events) ==
    LET after[n \in 0..Len(events)] == IF n = 0 THEN m ELSE Take(by, after[n - 1], events[n])
    IN  after

Deliver(events) ==
    IF surface = "anthropic"
    THEN anthropic' = After(surface, anthropic, events)[Len(events)] /\ UNCHANGED chat
    ELSE chat' = After(surface, chat, events)[Len(events)] /\ UNCHANGED anthropic

At(here, next) ==
    /\ engine.at = here
    /\ engine' = next
    /\ UNCHANGED <<surface, tool>>

EngineAt(to) == [engine EXCEPT !.at = to]

Deltas == told.text + told.reasoning

Created ==
    /\ At("start", EngineAt("streaming"))
    /\ Deliver(<<[t |-> "created"]>>)
    /\ UNCHANGED told

\* Reasoning is early until the turn's text, or a call the client may see.
Reason ==
    /\ At("streaming", [engine EXCEPT !.reasoned = TRUE])
    /\ Deltas < MaxDeltas
    /\ Deliver(<<[t |-> "reasoning", n |-> told.reasoning + 1]>>)
    /\ told' = [told EXCEPT !.reasoning = @ + 1,
                            !.early = IF told.begun THEN @ ELSE Append(@, told.reasoning + 1)]

Sign ==
    /\ At("streaming", engine)
    /\ engine.reasoned
    /\ Deliver(<<[t |-> "signature"]>>)
    /\ UNCHANGED told

\* The first text of an answer adds its message item.
Speak ==
    /\ At("streaming", [engine EXCEPT !.spoke = TRUE])
    /\ Deltas < MaxDeltas
    /\ LET delta == [t |-> "text", n |-> told.text + 1]
       IN  Deliver(IF engine.spoke THEN <<delta>> ELSE <<[t |-> "message added"], delta>>)
    /\ told' = [told EXCEPT !.text = @ + 1, !.begun = TRUE, !.last = NoCall]

\* The call is one of this answer.
Mine(c) == told.round[c] \in {0, engine.round}

ArgumentEvent(c, n, named) ==
    [t |-> "arguments", call |-> c, tool |-> tool[c], named |-> named, n |-> n]

\* What the gate lets through of a call: the fragments it held, which have no
\* name, when the name has come, and the fragment that came with the name.
LetThrough(c, held, trailing) ==
    LET from  == told.sent[c]
        count == held + trailing
    IN  /\ Mine(c)
        /\ count > 0 /\ from + count <= MaxPieces
        /\ held > 0 => from = 0
        /\ Deliver([k \in 1..count |-> ArgumentEvent(c, from + k, k > held)])
        /\ told' = [told EXCEPT
               !.round[c] = engine.round,
               !.sent[c] = @ + count,
               !.begun = @ \/ held > 0 \/ tool[c] # "search",
               !.crossed = IF from > 0 /\ told.last # c THEN @ \cup {c} ELSE @,
               !.last = c]

StreamCall(c, held) == At("streaming", engine) /\ LetThrough(c, held, 1)

\* A call that has a name and no arguments emits nothing.
NameCall(c) ==
    /\ At("streaming", engine)
    /\ told.round[c] = 0
    /\ told' = [told EXCEPT !.round[c] = engine.round]
    /\ Deliver(<<>>)

\* The calls of the answer, and its batch: the calls in the order of their index.
OfRound == {c \in TurnCalls : told.round[c] = engine.round}
BatchOfRound == Picked([c \in TurnCalls |-> c], OfRound)

Quiet(from, to) ==
    /\ At(from, EngineAt(to))
    /\ UNCHANGED <<told, anthropic, chat>>

\* The answer ends; calls of its batch may have their arguments in the gate.
AnswerEnds == Quiet("streaming", "flushing")

FlushHeld(c, held) ==
    /\ At("flushing", engine)
    /\ told.round[c] = engine.round /\ told.sent[c] = 0
    /\ LetThrough(c, held, 0)

\* emit_completed_public_items.
EmitPublicItems(to) ==
    /\ At("flushing", [engine EXCEPT !.at = to, !.todo = BatchOfRound])
    /\ Deliver(IF engine.spoke THEN <<[t |-> "message done"]>> ELSE <<>>)
    /\ UNCHANGED told

Searches == {c \in TurnCalls : tool[c] = "search"}

\* A batch is discarded, all of it run, or all of it handed off.
ResolveAnswer ==
    \/ engine.round < MaxRounds /\ OfRound # {} /\ EmitPublicItems("again")
    \/ OfRound = {} /\ EmitPublicItems("completing")
    \/ OfRound # {} /\ OfRound \subseteq Searches /\ EmitPublicItems("searching")
    \/ OfRound # {} /\ OfRound \cap Searches = {} /\ EmitPublicItems("handing off")

\* A call's arguments are done, then its item.
HandOffCall ==
    LET c    == Head(engine.todo)
        done == [t |-> "arguments done", call |-> c, tool |-> tool[c], named |-> TRUE,
                 pieces |-> UpTo(told.sent[c])]
    IN  /\ engine.todo # <<>>
        /\ At("handing off", [engine EXCEPT !.todo = Tail(@)])
        /\ Deliver(<<done, [done EXCEPT !.t = "call done"]>>)
        /\ told' = [told EXCEPT !.handed = @ \cup {c}, !.begun = TRUE]

SearchEnds ==
    /\ engine.todo # <<>>
    /\ At("searching", [engine EXCEPT !.todo = Tail(@)])
    /\ Deliver(<<[t |-> "search results"]>>)
    /\ UNCHANGED told

\* The results are answered; a search loop that has used up its rounds fails.
Answered ==
    /\ engine.todo = <<>>
    /\ \/ Quiet("handing off", "completing")
       \/ engine.round < MaxRounds /\ Quiet("searching", "again")

NextAnswer ==
    /\ At("again", [engine EXCEPT !.at = "streaming", !.round = @ + 1,
                                  !.spoke = FALSE, !.reasoned = FALSE])
    /\ UNCHANGED <<told, anthropic, chat>>

Reasons == {"stop", "length", "other"}

CompleteTurn(reason) ==
    /\ At("completing", EngineAt("ended"))
    /\ Deliver(<<[t |-> "completed", reason |-> reason]>>)
    /\ told' = [told EXCEPT !.reason = reason]

Fail ==
    /\ At(engine.at, EngineAt("ended"))
    /\ engine.at \notin {"ended", "exhausted"}
    /\ Deliver(<<[t |-> "failed"]>>)
    /\ UNCHANGED told

\* The task is gone without a word.
Vanish == engine.at \notin {"ended", "exhausted"} /\ Quiet(engine.at, "ended")

\* stream_anthropic_response: finalize after the last event.
Exhausted ==
    /\ At("ended", EngineAt("exhausted"))
    /\ anthropic' = IF surface = "anthropic" THEN Terminate(anthropic) ELSE anthropic
    /\ UNCHANGED <<told, chat>>

Told == engine.at = "exhausted" /\ UNCHANGED egressVars

\* A web_search of a chat request is a client's function.
EgressInit ==
    /\ surface \in {"anthropic", "chat"}
    /\ tool \in [TurnCalls -> IF surface = "chat" THEN {"client"} ELSE {"client", "search"}]
    /\ engine = [at |-> "start", round |-> 1, spoke |-> FALSE, reasoned |-> FALSE,
                 todo |-> <<>>]
    /\ told = [text |-> 0, reasoning |-> 0, early |-> <<>>, begun |-> FALSE,
               round |-> [c \in TurnCalls |-> 0], sent |-> [c \in TurnCalls |-> 0],
               last |-> NoCall, crossed |-> {}, handed |-> {}, reason |-> "none"]
    /\ anthropic = NewMessage
    /\ chat = NewChat

EgressNext ==
    \/ Created \/ Reason \/ Sign \/ Speak
    \/ \E c \in TurnCalls : NameCall(c)
    \/ \E c \in TurnCalls, held \in 0..MaxPieces : StreamCall(c, held) \/ FlushHeld(c, held)
    \/ AnswerEnds \/ ResolveAnswer \/ HandOffCall \/ SearchEnds \/ Answered \/ NextAnswer
    \/ \E reason \in Reasons : CompleteTurn(reason)
    \/ Fail \/ Vanish \/ Exhausted \/ Told

EgressSpec == EgressInit /\ [][EgressNext]_egressVars

-----------------------------------------------------------------------------
(* Properties. *)

HasEnd(m, e) == \E k \in DOMAIN m.ends : m.ends[k] = e
HasBlock(m, kind) == \E k \in DOMAIN m.blocks : m.blocks[k].kind = kind

\* What a block, and what the first n blocks, show in these kinds.
PieceOf(b, kinds) == IF b.kind \in kinds THEN b.pieces ELSE <<>>

Shown(blocks, kinds) ==
    LET shown[n \in 0..Len(blocks)] ==
            IF n = 0 THEN <<>> ELSE shown[n - 1] \o PieceOf(blocks[n], kinds)
    IN  shown

PiecesOf(m, kinds) == Shown(m.blocks, kinds)[Len(m.blocks)]

\* A stream ends once, by a stop with no block open or by an error, a stream
\* that is exhausted has ended, only the last block is open, and thinking is
\* signed.
BlocksAreClosed ==
    LET m == anthropic
    IN  /\ \/ m.ends = <<>>
           \/ m.ends = <<"error">>
           \/ Len(m.ends) = 2 /\ m.ends[2] = "message_stop" /\ ~m.open
        /\ surface = "anthropic" /\ engine.at = "exhausted" => m.ends # <<>>
        /\ \A k \in DOMAIN m.blocks :
              /\ m.blocks[k].open => m.open /\ k = Len(m.blocks)
              /\ m.blocks[k].kind = "thinking" => m.blocks[k].signed

\* A client that was handed calls is told to run them, unless the answer was
\* cut by its length, and is never told so without a call to run.
StopTellsOfCalls ==
    /\ told.handed # {} /\ told.reason # "length" =>
          /\ HasEnd(anthropic, "message_stop") => HasEnd(anthropic, "tool_use")
          /\ HasEnd(chat, "[DONE]") => HasEnd(chat, "tool_calls") \/ HasEnd(chat, "error")
    /\ HasEnd(anthropic, "tool_use") => HasBlock(anthropic, "tool_use")
    /\ HasEnd(chat, "tool_calls") => chat.calls # <<>>

\* The shape check_shapes (conformance.rs) asserts of single surfaces, for
\* every mixture of text, reasoning, calls and searches.
StreamConforms == BlocksAreClosed /\ StopTellsOfCalls

TextArrivesWhole ==
    IF surface = "chat"
    THEN chat.text = UpTo(told.text) /\ chat.reasoning = UpTo(told.reasoning)
    ELSE /\ PiecesOf(anthropic, {"text"}) = UpTo(told.text)
         /\ PiecesOf(anthropic, {"thinking", "promoted"})
               \o (IF HasEnd(anthropic, "message_stop") THEN <<>> ELSE anthropic.buffer)
            = told.early

\* An Anthropic client gets a call's arguments complete only if nothing else was
\* streamed among its fragments: a block that was closed is not opened again.
CallsArriveWhole ==
    \A c \in told.handed :
        LET entries == IF surface = "chat" THEN chat.calls ELSE anthropic.blocks
        IN  \E k \in DOMAIN entries :
                /\ PlacesOf(entries, c) = {k}
                /\ surface = "chat" => entries[k].named
                /\ \E n \in 0..told.sent[c] :
                      /\ entries[k].pieces = UpTo(n)
                      /\ surface = "chat" \/ c \notin told.crossed => n = told.sent[c]

\* Every text delta reaches the client once and in order, whichever blocks
\* come between, and so does all reasoning up to the first content, over
\* searches and rounds, as thinking or, at a clean end, as the answer; and a
\* call that is handed off is one call to the client with all its arguments.
NothingSaidIsLost == TextArrivesWhole /\ CallsArriveWhole

\* What the converter says of its name test (mod.rs: "Opening a client
\* tool_use block here would leak it, flip the turn to tool_use"): nothing of
\* a search is shown as a client's call.
SearchIsSwallowed ==
    \A k \in DOMAIN anthropic.blocks :
        anthropic.blocks[k].kind = "tool_use" => tool[anthropic.blocks[k].call] # "search"
=============================================================================
