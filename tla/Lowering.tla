------------------------------ MODULE Lowering ------------------------------
(***************************************************************************)
(* What becomes of a conversation on its way to the upstream: the client's *)
(* history in the format of its route is converted to response items       *)
(* (adapters/chat_completions.rs, adapters/anthropic_to_responses.rs),     *)
(* those are lowered to chat messages (adapters/responses_to_chat.rs),     *)
(* perhaps behind the messages of an earlier turn that the replay store    *)
(* kept, a profile's policy may rename, drop or merge messages by role,    *)
(* and the rounds of the turn add messages of their own.                   *)
(*                                                                         *)
(* What is said is a number: the how-manieth piece of the conversation it  *)
(* is, 0 for what only the gateway and the upstream see, and Tag for a tag *)
(* the policy puts around a text.  No text is empty.                       *)
(***************************************************************************)
EXTENDS Integers, Sequences
LOCAL INSTANCE SequencesExt
LOCAL INSTANCE FiniteSetsExt

CONSTANTS Surfaces,      \* the routes: "chat", "anthropic", "responses"
          RolePolicies,  \* RolesConfig: [merge, rules], rules by role
          NoPolicy,      \* a profile without roles
          Shapes,        \* the kinds of the pieces of an assistant's answer
          OtherShapes,   \* and of answers that other gateways may have given
          MaxSaid,       \* bound on the pieces of the conversation
          MaxAdded       \* bound on the rounds a turn adds

VARIABLES surface,      \* the route of the conversation
          roles,        \* the role policy of its model
          instructed,   \* the request has instructions
          transcript,   \* the client's history: messages of pieces
          reply,        \* the pieces of the turn's answer so far
          underway,     \* a turn is under way
          messages,     \* current_messages: what the upstream is sent
          base,         \* replay_prefix_len
          kept,         \* the replay record: its messages, the history it is of
          added         \* rounds added in this turn

loweringVars == <<surface, roles, instructed, transcript, reply, underway,
                  messages, base, kept, added>>

-----------------------------------------------------------------------------
(* The client's history.                                                   *)

Turn(role, pieces) == [role |-> role, pieces |-> pieces]

SaidSoFar ==
    FoldLeft(LAMBDA n, t : n + Len(t.pieces), Len(reply), transcript)

Pieces(kinds) ==
    [i \in DOMAIN kinds |->
        [kind |-> kinds[i], said |-> SaidSoFar + i, to |-> 0]]

OpenCalls ==
    IF transcript = <<>> \/ Last(transcript).role # "assistant" THEN <<>>
    ELSE SelectSeq(Last(transcript).pieces, LAMBDA p : p.kind = "call")

\* The answers to the open calls, by their place; those in shown are images.
ResultsFor(shown) ==
    [i \in DOMAIN OpenCalls |->
        [kind |-> IF i \in shown THEN "image" ELSE "result",
         said |-> SaidSoFar + i, to |-> OpenCalls[i].said]]

-----------------------------------------------------------------------------
(* Response items.                                                         *)

Item(kind, role, said, to) ==
    [kind |-> kind, role |-> role, said |-> said, to |-> to]
Said(role, said) == Item("message", role, said, 0)
Output(to, said) == Item("output", "tool", said, to)
Plain(p) ==
    IF p.kind = "result" THEN Output(p.to, <<p.said>>)
    ELSE Item(p.kind, "assistant", <<p.said>>, 0)

SaidIn(pieces) == [i \in DOMAIN pieces |-> pieces[i].said]
OfKind(turn, kind) == SelectSeq(turn.pieces, LAMBDA p : p.kind = kind)
Each(pieces) == [i \in DOMAIN pieces |-> Plain(pieces[i])]

\* convert_message of Chat Completions: an assistant's message is always
\* there, even empty.
FromChat(turn) ==
    LET text == <<Said(turn.role, SaidIn(OfKind(turn, "text")))>>
    IN  IF turn.role = "tool" THEN Each(turn.pieces)
        ELSE IF turn.role = "assistant"
        THEN Each(OfKind(turn, "think")) \o text \o Each(OfKind(turn, "call"))
        ELSE text

\* convert_message of Anthropic: text is held until another block comes.
BlockItems(p) ==
    CASE p.kind = "image" -> <<Output(p.to, <<0>>), Said("user", <<p.said>>)>>
      [] p.kind = "search" ->
            <<[Plain(p) EXCEPT !.kind = "call"], Output(p.said, <<0>>)>>
      [] OTHER -> <<Plain(p)>>

FromAnthropic(turn) ==
    LET Flushed(s) ==
            IF s.held = <<>> THEN s.items ELSE Append(s.items, Said(turn.role, s.held))
        Block(s, p) ==
            IF p.kind = "text" THEN [s EXCEPT !.held = Append(@, p.said)]
            ELSE [items |-> Flushed(s) \o BlockItems(p), held |-> <<>>]
    IN  Flushed(FoldLeft(Block, [items |-> <<>>, held |-> <<>>], turn.pieces))

\* A Responses client sends items.
FromResponses(turn) ==
    [i \in DOMAIN turn.pieces |->
        IF turn.pieces[i].kind = "text" THEN Said(turn.role, <<turn.pieces[i].said>>)
        ELSE Plain(turn.pieces[i])]

Converted(turn) ==
    CASE surface = "chat" -> FromChat(turn)
      [] surface = "anthropic" -> FromAnthropic(turn)
      [] surface = "responses" -> FromResponses(turn)

-----------------------------------------------------------------------------
(* Chat messages.                                                          *)

Msg(role, content) ==
    [role |-> role, content |-> content, reasoning |-> <<>>, calls |-> <<>>, to |-> 0]
Thought(reasoning) == [Msg("assistant", <<>>) EXCEPT !.reasoning = reasoning]
ToolMsg(to, content) == [Msg("tool", content) EXCEPT !.to = to]

\* flush_pending_reasoning.
FlushReasoning(s) ==
    IF s.pending = <<>> THEN s
    ELSE [messages |-> Append(s.messages, Thought(s.pending)), pending |-> <<>>]

CallStandsAlone(s, call) ==
    [messages |-> Append(s.messages, [Thought(s.pending) EXCEPT !.calls = <<call>>]),
     pending |-> <<>>]

\* append_tool_call: the calls of an assistant's message go with it, unless
\* reasoning came in between.
AppendToolCall(s, call) ==
    LET last == Len(s.messages)
    IN  IF last > 0 /\ s.messages[last].role = "assistant" /\ s.pending = <<>>
        THEN [s EXCEPT !.messages[last].calls = Append(@, call)]
        ELSE CallStandsAlone(s, call)

EndsAssistantTurn(item) ==
    item.kind = "output" \/ (item.kind = "message" /\ item.role # "assistant")

\* normalize_chat_role, without a policy.
ChatRole(role) == IF roles = NoPolicy /\ role = "developer" THEN "system" ELSE role

LowerItem(before, item) ==
    LET s == IF EndsAssistantTurn(item) THEN FlushReasoning(before) ELSE before
        said == item.said[1]
    IN  CASE item.kind = "message" ->
               [messages |-> Append(s.messages, [Msg(ChatRole(item.role), item.said)
                                                 EXCEPT !.reasoning = s.pending]),
                pending |-> <<>>]
          [] item.kind = "think" -> [s EXCEPT !.pending = Append(@, said)]
          [] item.kind = "call" -> AppendToolCall(s, said)
          [] item.kind = "output" ->
               [s EXCEPT !.messages = Append(@, ToolMsg(item.to, item.said))]
          [] item.kind = "search" ->
               [AppendToolCall(s, said) EXCEPT !.messages = Append(@, ToolMsg(said, <<0>>))]

\* hoist_system_messages: the system messages at the start become one.
HoistSystem(all) ==
    LET n == Max({k \in 0..Len(all) : \A i \in 1..k : all[i].role = "system"})
        content == FlattenSeq([i \in 1..n |-> all[i].content])
    IN  IF n = 0 THEN all
        ELSE <<Msg("system", content)>> \o SubSeq(all, n + 1, Len(all))

-----------------------------------------------------------------------------
(* The role policy.                                                        *)

Rule(when, action, target, tagged) ==
    [when |-> when, action |-> action, target |-> target, tagged |-> tagged]
Rejects == Rule("always", "reject", "", FALSE)
Accepts == Rule("always", "accept", "", FALSE)

\* The first rule that fits, failing closed.
RuleFor(role, leading) ==
    LET rules == IF role \in DOMAIN roles.rules THEN roles.rules[role] ELSE <<>>
        fits == {k \in DOMAIN rules :
                    rules[k].when \in {"always", IF leading THEN "leading" ELSE "inline"}}
    IN  IF fits = {} THEN Rejects ELSE rules[Min(fits)]

Tag == -1

\* wrap_role_tag: a message without content is not wrapped.
Wrapped(content) == IF content = <<>> THEN content ELSE <<Tag>> \o content

Shaped(message, rule) ==
    [message EXCEPT !.role = IF rule.action = "rewrite" THEN rule.target ELSE @,
                    !.content = IF rule.tagged THEN Wrapped(@) ELSE @]

\* assign_roles of a part of the history, whose first message is the leading
\* one iff leads; shape_tail_message of what a round adds.
Permitted(part, leads) ==
    roles # NoPolicy =>
    \A i \in DOMAIN part : RuleFor(part[i].role, leads /\ i = 1).action # "reject"

Assigned(part, leads) ==
    IF roles = NoPolicy THEN part
    ELSE FlattenSeq([i \in DOMAIN part |->
            LET rule == RuleFor(part[i].role, leads /\ i = 1)
            IN  IF rule.action = "drop" THEN <<>> ELSE <<Shaped(part[i], rule)>>])

\* merge_adjacent_role_runs: nothing but the content is left of what is merged.
Merged(part) ==
    LET Fold(before, m) ==
            IF m.role \notin roles.merge THEN Append(before, m)
            ELSE IF before # <<>> /\ Last(before).role = m.role
            THEN [before EXCEPT ![Len(before)].content = @ \o m.content]
            ELSE Append(before, Msg(m.role, m.content))
    IN  IF roles = NoPolicy THEN part ELSE FoldLeft(Fold, <<>>, part)

ShapedAgain(all, n) ==
    SubSeq(all, 1, n) \o Merged(Assigned(SubSeq(all, n + 1, Len(all)), n = 0))

\* Before a send: only roles of the new part are merged, and none is shaped.
MergedTail(all, n) == SubSeq(all, 1, n) \o Merged(SubSeq(all, n + 1, Len(all)))

-----------------------------------------------------------------------------
(* A turn.                                                                 *)

Lowered(baseline, turns) ==
    LET input == FlattenSeq([i \in DOMAIN turns |-> Converted(turns[i])])
        start == IF baseline = <<>> /\ instructed THEN <<Msg("system", <<0>>)>>
                 ELSE baseline
    IN  FlushReasoning(FoldLeft(LowerItem, [messages |-> start, pending |-> <<>>],
                                input)).messages

\* lower_request: the policy's "leading" message is the first of what is new.
SendHistory(resumes) ==
    LET baseline == IF resumes THEN kept.messages ELSE <<>>
        turns == SubSeq(transcript, (IF resumes THEN kept.turns ELSE 0) + 1, Len(transcript))
        all == Lowered(baseline, turns)
        new == SubSeq(all, Len(baseline) + 1, Len(all))
    IN  /\ ~underway /\ transcript # <<>> /\ Last(transcript).role # "assistant"
        /\ resumes => kept.turns > 0
        /\ Permitted(new, TRUE)
        /\ messages' = IF roles = NoPolicy THEN HoistSystem(all)
                       ELSE SubSeq(all, 1, Len(baseline)) \o Merged(Assigned(new, TRUE))
        /\ base' = Len(baseline)
        /\ underway' = TRUE /\ reply' = <<>> /\ added' = 0
        /\ UNCHANGED <<surface, roles, instructed, transcript, kept>>

\* push_shaped of what the round adds, and the merge before the next send.
AddRound(new) ==
    /\ underway /\ added < MaxAdded
    /\ Permitted(new, FALSE)
    /\ messages' = MergedTail(messages \o Assigned(new, FALSE), base)
    /\ added' = added + 1
    /\ UNCHANGED <<surface, roles, instructed, transcript, underway, base, kept>>

CallOf(call) == [Thought(<<>>) EXCEPT !.calls = <<call>>]

\* A repair round tells the model why its calls were turned down.
AddRepair ==
    /\ AddRound(<<CallOf(0), ToolMsg(0, <<0>>), Msg("system", <<0>>)>>)
    /\ UNCHANGED reply

\* An image analysis never shows, nor does a search to a chat client.
AddHiddenTool ==
    AddRound(<<CallOf(0), ToolMsg(0, <<0>>)>>) /\ UNCHANGED reply

AddSearch ==
    LET search == Pieces(<<"search">>)
    IN  /\ surface # "chat" /\ SaidSoFar < MaxSaid
        /\ reply' = reply \o search
        /\ AddRound(<<CallOf(search[1].said), ToolMsg(search[1].said, <<0>>)>>)

\* What the turn held goes with it.
EndTurn ==
    /\ underway' = FALSE /\ reply' = <<>>
    /\ messages' = <<>> /\ base' = 0 /\ added' = 0

\* The last answer of the turn: finalize orders it.  Only a Responses request
\* is stored.
AnswerTurn(kinds) ==
    LET pieces == Pieces(kinds)
        turn == Turn("assistant", pieces)
        answer == [Msg("assistant", SaidIn(OfKind(turn, "text")))
                   EXCEPT !.reasoning = SaidIn(OfKind(turn, "think")),
                          !.calls = SaidIn(OfKind(turn, "call"))]
    IN  /\ underway /\ SaidSoFar + Len(kinds) <= MaxSaid
        /\ Permitted(<<answer>>, FALSE)
        /\ transcript' = Append(transcript, Turn("assistant", reply \o pieces))
        /\ kept' = IF surface # "responses" THEN kept
                   ELSE [messages |-> messages \o Assigned(<<answer>>, FALSE),
                         turns |-> Len(transcript')]
        /\ EndTurn
        /\ UNCHANGED <<surface, roles, instructed>>

GiveUpTurn ==
    underway /\ EndTurn /\ UNCHANGED <<surface, roles, instructed, transcript, kept>>

-----------------------------------------------------------------------------
(* The client: it answers all calls before it says anything else.          *)

ClientAdds(turns) ==
    /\ ~underway
    /\ transcript' = transcript \o turns
    /\ UNCHANGED <<surface, roles, instructed, reply, underway, messages, base, kept, added>>
    /\ SaidSoFar' <= MaxSaid

ClientSpeaks(role) ==
    OpenCalls = <<>> /\ ClientAdds(<<Turn(role, Pieces(<<"text">>))>>)

\* An answer that was given before the conversation came here.
ClientRecalls(kinds) ==
    /\ kept.turns = 0 /\ transcript # <<>> /\ Last(transcript).role # "assistant"
    /\ surface = "chat" => kinds \in Shapes
    /\ ClientAdds(<<Turn("assistant", Pieces(kinds))>>)

ClientReturns(shown) ==
    /\ OpenCalls # <<>>
    /\ shown # {} => surface = "anthropic"
    /\ LET results == ResultsFor(shown)
       IN  ClientAdds(IF surface = "chat"
                      THEN [i \in DOMAIN results |-> Turn("tool", <<results[i]>>)]
                      ELSE <<Turn("user", results)>>)

LoweringInit ==
    /\ surface \in Surfaces /\ roles \in RolePolicies
    /\ instructed \in BOOLEAN /\ (surface = "chat" => ~instructed)
    /\ transcript = <<>> /\ reply = <<>> /\ underway = FALSE
    /\ messages = <<>> /\ base = 0 /\ added = 0
    /\ kept = [messages |-> <<>>, turns |-> 0]

LoweringNext ==
    \/ \E role \in {"user", "system", "developer"} : ClientSpeaks(role)
    \/ \E kinds \in Shapes \cup OtherShapes : ClientRecalls(kinds)
    \/ \E shown \in SUBSET DOMAIN OpenCalls : ClientReturns(shown)
    \/ \E resumes \in BOOLEAN : SendHistory(resumes)
    \/ AddRepair \/ AddHiddenTool \/ AddSearch \/ GiveUpTurn
    \/ \E kinds \in Shapes : AnswerTurn(kinds)

LoweringSpec == LoweringInit /\ [][LoweringNext]_loweringVars

-----------------------------------------------------------------------------
(* Properties.                                                             *)

Dropped(role) ==
    roles # NoPolicy /\ \A leading \in BOOLEAN : RuleFor(role, leading).action = "drop"

Silenced ==
    UNION {{turn.pieces[i].said : i \in DOMAIN turn.pieces} :
              turn \in {t \in Range(transcript) : Dropped(t.role)}}

Tells(message) == message.reasoning \o message.content \o message.calls

\* Whatever the route and the policy, whether or not the turn resumes another
\* and whatever rounds it adds: the upstream is told each piece of the history
\* that the policy does not drop, once and in its place.
ToldInOrder ==
    underway =>
        SelectSeq(FlattenSeq([i \in DOMAIN messages |-> Tells(messages[i])]),
                  LAMBDA said : said > 0)
        = SelectSeq([i \in 1..SaidSoFar |-> i], LAMBDA said : said \notin Silenced)

\* What a turn resumes is sent as it was kept, in every round (engine.rs
\* 2246-2249: "the replayed prefix stays byte-identical").
BaseIsKept == underway => SubSeq(messages, 1, base) = SubSeq(kept.messages, 1, base)

\* No text is wrapped twice, in however many rounds and turns it is sent
\* (assign_roles: "runs exactly once per message").
WrappedOnce ==
    \A i \in DOMAIN messages : \A k \in 2..Len(messages[i].content) :
        messages[i].content[k - 1] = Tag => messages[i].content[k] # Tag

HistoryArrives == ToldInOrder /\ BaseIsKept /\ WrappedOnce

\* A client that makes its calls last in a message and returns no image but
\* as the last result of a batch.
Orderly ==
    \A t \in Range(transcript) : \A i, j \in DOMAIN t.pieces :
        i < j => /\ t.pieces[i].kind = "call" => t.pieces[j].kind = "call"
                 /\ t.pieces[i].kind # "image"

\* For such a client, where the policy keeps tool messages, each message with
\* calls is followed by an answer to every one of them before any other
\* message, and nothing else is an answer.
AnswersFollowCalls ==
    LET Answers(i) == {k \in i + 1..Len(messages) :
                          \A j \in i + 1..k : messages[j].role = "tool"}
    IN  underway /\ Orderly /\ (roles # NoPolicy => RuleFor("tool", FALSE) = Accepts) =>
          /\ \A i \in DOMAIN messages : messages[i].calls # <<>> =>
                Range(messages[i].calls) = {messages[k].to : k \in Answers(i)}
          /\ \A k \in DOMAIN messages : messages[k].role = "tool" =>
                \E i \in 1..k - 1 : messages[i].calls # <<>> /\ k \in Answers(i)

\* A policy that lets no message after the first be a system message.
SystemFirst ==
    roles # NoPolicy /\
    \A role \in DOMAIN roles.rules :
        Shaped(Msg(role, <<>>), RuleFor(role, FALSE)).role # "system"

\* Under such a policy the upstream of a turn that tells its history afresh
\* sees no later system message, in any round.
SystemLeads ==
    underway /\ SystemFirst /\ base = 0 =>
        \A i \in DOMAIN messages : messages[i].role = "system" => i = 1

\* What the upstream is sent is what its template expects (engine.rs
\* 2784-2785: "each replayed tool_call gets a matching tool result"; 2811:
\* "exactly one leading system message").
RequestIsWellFormed == AnswersFollowCalls /\ SystemLeads
=============================================================================
