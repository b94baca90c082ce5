--------------------------- MODULE MCOperatorView ---------------------------
(* Instances for TLC of the two things an operator looks at: the published  *)
(* health of the providers, and the dashboard's page.  Each is a whole of   *)
(* its own; a behaviour is one of the one or one of the other.              *)
EXTENDS ProviderHealth, DashboardFeed

CONSTANTS a, b

VARIABLE view

viewVars == <<allvars, feedVars, view>>

ViewInit == HInit /\ FeedInit /\ view \in {"health", "feed"}

ViewNext ==
    \/ view = "health" /\ HNext /\ UNCHANGED <<feedVars, view>>
    \/ view = "feed" /\ FeedNext /\ UNCHANGED <<allvars, view>>

\* The fairness of each view, for the behaviours of that view.
HealthRuns(A) == view = "health" /\ A /\ UNCHANGED <<feedVars, view>>
FeedRuns(A) == view = "feed" /\ A /\ UNCHANGED <<allvars, view>>

ViewFairness ==
    /\ WF_viewVars(HealthRuns(HTick))
    /\ WF_viewVars(HealthRuns(CopyStates))
    /\ WF_viewVars(HealthRuns(Publish))
    /\ \A id \in Ids : WF_viewVars(FeedRuns(Broadcast(id)))
    /\ SF_viewVars(FeedRuns(ReceiveUpdate)) /\ SF_viewVars(FeedRuns(Lag))
    /\ WF_viewVars(FeedRuns(TickSends))
    /\ SF_viewVars(FeedRuns(TickReads)) /\ SF_viewVars(FeedRuns(TopologyTick))

ViewSpec == ViewInit /\ [][ViewNext]_viewVars /\ ViewFairness
=============================================================================
