----------------------------- MODULE ToolStream -----------------------------
(***************************************************************************)
(* The tool calls of one upstream answer while they stream: StreamState of *)
(* src/src/adapters/chat_to_responses.rs collects each call, and the gate  *)
(* of src/src/tool_delta_gate.rs decides which argument fragments the      *)
(* client sees.  An upstream may send arguments before the tool's name, so *)
(* the gate holds them until it is known whether the client may see them.  *)
(* Two calls of an answer have different ids and a call has one name,      *)
(* which the upstream may repeat.                                          *)
(***************************************************************************)
EXTENDS Integers, Sequences, SequencesExt, FiniteSets, Functions

CONSTANTS Calls,        \* the indices of the calls an answer may hold
          PerCall,      \* MAX_PENDING_TOOL_DELTA_BYTES_PER_CALL
          Total,        \* MAX_PENDING_TOOL_DELTA_BYTES_TOTAL
          Sizes,        \* the sizes of a fragment
          MaxFragments  \* bound on the fragments of one call

ASSUME ToolStreamAssumption ==
    /\ Calls \subseteq Nat /\ IsFiniteSet(Calls)
    /\ PerCall \in Nat /\ Total \in Nat
    /\ Sizes \subseteq Nat \ {0}
    /\ MaxFragments \in Nat

VARIABLES phase,    \* streaming, flushing, or how the answer ended
          kind,     \* the tool the upstream calls
          named,    \* whether the call's name has come
          args,     \* the sizes of the call's fragments so far
          buffer,   \* the fragments the gate holds
          bytes,    \* PendingDeltas.bytes of the call
          pool,     \* pending_buffer_bytes
          sent      \* the fragments the client was sent

streamVars == <<phase, kind, named, args, buffer, bytes, pool, sent>>

ToolKinds == {"client", "search", "image", "unknown"}

\* is_hidden_tool_name.
Hidden(c) == kind[c] \in {"image", "unknown"}

\* Fragments are known by their place among the fragments of their call.
Fragment == [call : Calls, at : Nat]

Pieces(c, places) == [k \in DOMAIN places |-> [call |-> c, at |-> places[k]]]

StreamInit ==
    /\ phase = "streaming"
    /\ kind \in [Calls -> ToolKinds]
    /\ named = [c \in Calls |-> FALSE]
    /\ args = [c \in Calls |-> <<>>]
    /\ buffer = [c \in Calls |-> <<>>]
    /\ bytes = [c \in Calls |-> 0]
    /\ pool = 0
    /\ sent = <<>>

-----------------------------------------------------------------------------
(* The gate.                                                               *)

Place(c) == Len(args[c]) + 1

Overflows(c, size) == bytes[c] + size > PerCall \/ pool + size > Total

Hold(c, size) ==
    /\ buffer' = [buffer EXCEPT ![c] = Append(@, Place(c))]
    /\ bytes' = [bytes EXCEPT ![c] = @ + size]
    /\ pool' = pool + size
    /\ UNCHANGED sent

\* The call's entry leaves the map, and its bytes leave the pool.
TakeOut(c) ==
    /\ buffer' = [buffer EXCEPT ![c] = <<>>]
    /\ bytes' = [bytes EXCEPT ![c] = 0]
    /\ pool' = IF bytes[c] > pool THEN 0 ELSE pool - bytes[c]

DropFlushesHeld(c) == TakeOut(c) /\ sent' = sent \o Pieces(c, buffer[c])

Drop(c) == TakeOut(c) /\ UNCHANGED sent

ForwardLast(c) == TakeOut(c) /\ sent' = sent \o Pieces(c, <<Place(c)>>)

\* What was held goes first, then the fragment that made the name known.
Forward(c) == TakeOut(c) /\ sent' = sent \o Pieces(c, Append(buffer[c], Place(c)))

-----------------------------------------------------------------------------
(* The stream.                                                             *)

\* The upstream repeats or gives no arguments: at most the name is news.
NameOnly(c) ==
    /\ phase = "streaming"
    /\ named' = [named EXCEPT ![c] = TRUE]
    /\ UNCHANGED <<phase, kind, args, buffer, bytes, pool, sent>>

\* A fragment of arguments comes, alone or with the name.
Arguments(c, withName, size) ==
    /\ phase = "streaming"
    /\ Len(args[c]) < MaxFragments
    /\ named' = [named EXCEPT ![c] = @ \/ withName]
    /\ args' = [args EXCEPT ![c] = Append(@, size)]
    /\ UNCHANGED kind
    /\ \/ /\ ~named'[c] /\ ~Overflows(c, size)
          /\ Hold(c, size) /\ UNCHANGED phase
       \/ /\ ~named'[c] /\ Overflows(c, size)
          /\ phase' = "failed" /\ UNCHANGED <<buffer, bytes, pool, sent>>
       \/ named'[c] /\ Hidden(c) /\ Drop(c) /\ UNCHANGED phase
       \/ named'[c] /\ ~Hidden(c) /\ Forward(c) /\ UNCHANGED phase

End(to) ==
    /\ phase' = to
    /\ UNCHANGED <<kind, named, args, buffer, bytes, pool, sent>>

\* The upstream breaks off, the client leaves, or the turn is killed.
Breaks == phase \in {"streaming", "flushing"} /\ End("failed")

Seen == {c \in Calls : named[c] \/ args[c] # <<>>}

Nameless == phase = "streaming" /\ (\E c \in Seen : ~named[c]) /\ End("failed")

\* The arguments of an offered tool are not what the tool takes.
Malformed ==
    /\ phase = "streaming"
    /\ \E c \in Seen : kind[c] # "unknown" /\ args[c] # <<>>
    /\ End("failed")

RejectedCalls == {c \in Seen : kind[c] = "unknown"}

WholeAnswer == phase = "streaming" /\ \A c \in Seen : named[c]

\* One unoffered call discards the batch, and the gate with all it holds.
TaintedAnswer == WholeAnswer /\ RejectedCalls # {} /\ End("tainted")

CleanAnswer == WholeAnswer /\ RejectedCalls = {} /\ End("flushing")

Waiting == {c \in Seen : kind[c] # "image" /\ buffer[c] # <<>>}

\* flush_pending_client_tool, for the calls in the order of their index.
Flush ==
    /\ phase = "flushing"
    /\ \E c \in Waiting :
          /\ \A other \in Waiting : c <= other
          /\ TakeOut(c) /\ sent' = sent \o Pieces(c, buffer[c])
    /\ UNCHANGED <<phase, kind, named, args>>

Resolve == phase = "flushing" /\ Waiting = {} /\ End("resolved")

AnswerOver == phase \in {"failed", "tainted", "resolved"} /\ UNCHANGED streamVars

StreamNext ==
    \/ \E c \in Calls : NameOnly(c)
    \/ \E c \in Calls, withName \in BOOLEAN, size \in Sizes :
          Arguments(c, withName, size)
    \/ Breaks \/ Nameless \/ Malformed \/ TaintedAnswer \/ CleanAnswer
    \/ Flush \/ Resolve \/ AnswerOver

StreamSpec == StreamInit /\ [][StreamNext]_streamVars

-----------------------------------------------------------------------------
(* Properties.                                                             *)

\* Every variable has its type, and the counters stay within their caps.
StreamTypeOK ==
    /\ phase \in {"streaming", "flushing", "failed", "tainted", "resolved"}
    /\ kind \in [Calls -> ToolKinds]
    /\ named \in [Calls -> BOOLEAN]
    /\ args \in [Calls -> Seq(Sizes)]
    /\ buffer \in [Calls -> Seq(Nat)]
    /\ bytes \in [Calls -> 0..PerCall]
    /\ pool \in 0..Total
    /\ sent \in Seq(Fragment)

\* Where the fragments of c are among those that were sent.
SentOf(c) == {k \in DOMAIN sent : sent[k].call = c}

\* Whenever the name comes, before, among or after the arguments, no fragment
\* of an image call or of a tool that was not offered reaches the client
\* (tool_delta_gate.rs: "The client never sees it").
HiddenStaysHidden == \A k \in DOMAIN sent : ~Hidden(sent[k].call)

\* The client gets a visible call's fragments in the order they came and
\* without a gap, and by the end of the answer all of them.
VisibleIsComplete ==
    \A c \in Calls :
        /\ \A k \in SentOf(c) : sent[k].at = Cardinality({j \in SentOf(c) : j <= k})
        /\ phase = "resolved" /\ ~Hidden(c) => Cardinality(SentOf(c)) = Len(args[c])

\* A tainted batch is discarded whole and nothing of it is streamed to the
\* client (engine.rs: "The whole batch is discarded - no tool is handed off -
\* so a name-only valid tool's buffered deltas must be dropped too, not
\* streamed to the client").
DiscardedStaysHidden == phase = "tainted" => sent = <<>>
=============================================================================
