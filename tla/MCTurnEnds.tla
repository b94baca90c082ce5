----------------------------- MODULE MCTurnEnds -----------------------------
(* Instances for TLC of the two things that have to come to an end whatever *)
(* happens to the turn: the flow that the dashboard kills, and the capture  *)
(* of the turn's bodies.  Each is a whole of its own; a behaviour is one of *)
(* them.                                                                   *)
EXTENDS TurnCapture

CONSTANTS Flows, Cap, Quota, Ttl, MaxClock, MaxSeq, MaxRounds

VARIABLES store, clock, claim, l0, pc, task, rounds, ending, hub, killed,
          metrics, part

Flow == INSTANCE FlowLifecycle

flowVars == <<store, clock, claim, l0, pc, task, rounds, ending, hub, killed, metrics>>
endVars == <<vars, flowVars, part>>

EndsInit == Init /\ Flow!Init /\ part \in {"flow", "capture"}

FlowRuns(A) == part = "flow" /\ A /\ UNCHANGED <<vars, part>>
CaptureRuns(A) == part = "capture" /\ A /\ UNCHANGED <<flowVars, part>>

\* The fairness of each part, for the behaviours of that part.
EndsFairness ==
    /\ \A f \in Flows : WF_endVars(FlowRuns(Flow!TaskStep(f)))
    /\ \A n \in Sections : WF_endVars(CaptureRuns(Writer(n)))
    /\ WF_endVars(CaptureRuns(Middleware))
    /\ WF_endVars(CaptureRuns(Body))
    /\ WF_endVars(CaptureRuns(Engine))
    /\ WF_endVars(CaptureRuns(Assembly))

EndsNext ==
    \/ part = "flow" /\ Flow!Next /\ UNCHANGED <<vars, part>>
    \/ part = "capture" /\ Next /\ UNCHANGED <<flowVars, part>>

EndsSpec == EndsInit /\ [][EndsNext]_endVars /\ EndsFairness

\* A killed flow's task notices its token and gives it up (FlowLifecycle).
KilledEnds == Flow!KilledEnds

\* In the behaviours of the capture, every captured turn is evicted, whichever
\* side ends first and however: the barrier never waits for a report that
\* nobody will make (TurnCapture).
CaptureIsEvicted == part = "capture" => EveryTurnIsEvicted
=============================================================================
