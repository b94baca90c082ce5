------------------------------- MODULE MCTurn -------------------------------
(* Instances for TLC of the parts of a turn, each a whole of its own: what  *)
(* it resumes and may look at, the loop that sends requests until an answer *)
(* needs no more tools, the limiting of one answer's frames, the collecting *)
(* and gating of its tool calls, and the telling of the whole to a client.  *)
(* A behaviour is one of them.                                             *)
EXTENDS TurnLoop, SseGuard, ToolStream, Egress, MCConversation, TLC

VARIABLE stage

Alike == Permutations(Images)

TurnInit ==
    /\ Init /\ SseInit /\ StreamInit /\ EgressInit /\ TalkInit
    /\ stage \in {"history", "loop", "frames", "answer", "client"}
    /\ stage # "history" => policy = "placeholder"
    /\ stage # "loop" => choice = "auto"
    /\ stage # "answer" => \A c \in Calls : kind[c] = "client"
    /\ stage # "client" => surface = "chat"

TurnNext ==
    \/ stage = "loop" /\ Next /\ UNCHANGED <<sseVars, streamVars, egressVars, talkVars>>
    \/ stage = "frames" /\ SseNext /\ UNCHANGED <<vars, streamVars, egressVars, talkVars>>
    \/ stage = "answer" /\ StreamNext /\ UNCHANGED <<vars, sseVars, egressVars, talkVars>>
    \/ stage = "client" /\ EgressNext /\ UNCHANGED <<vars, sseVars, streamVars, talkVars>>
    \/ stage = "history" /\ TalkNext /\ UNCHANGED <<vars, sseVars, streamVars, egressVars>>

turnVars == <<vars, sseVars, streamVars, egressVars, talkVars, stage>>

TurnSpec == TurnInit /\ [][TurnNext /\ UNCHANGED stage]_turnVars
=============================================================================
