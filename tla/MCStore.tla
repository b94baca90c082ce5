------------------------------ MODULE MCStore ------------------------------
(* Instances for TLC of the bounded stores the dashboards read: the flow    *)
(* store under any sequence of calls, the flow store with the metrics and   *)
(* their snapshots, and the monitor hub with a debug page; and of the       *)
(* capture's files, which outlive them.  A behaviour is one of the four.    *)
EXTENDS MetricsLayer, DebugFeed, CaptureFiles, TLC

VARIABLE part

storeVars == <<metricsVars, debugVars, fileVars, part>>

Init ==
    /\ MetricsInit /\ DebugInit /\ FilesInit
    /\ part \in {"flows", "metrics", "hub", "files"}

Next ==
    \/ /\ part = "flows" /\ StoreNext
       /\ UNCHANGED <<turnVars, slots, cutVars, debugVars, fileVars>>
    \/ part = "metrics" /\ MetricsNext /\ UNCHANGED <<debugVars, fileVars>>
    \/ part = "hub" /\ DebugNext /\ UNCHANGED <<metricsVars, fileVars>>
    \/ part = "files" /\ FilesNext /\ UNCHANGED <<metricsVars, debugVars>>

Spec == Init /\ [][Next /\ UNCHANGED part]_storeVars

\* The names of each part may be exchanged.  As a behaviour is one part, they are
\* exchanged in all parts at once: two names of a flow, the ids and the turns.
Exchanges(S) == {p \in Permutations(S) : Cardinality({n \in S : p[n] # n}) = 2}
Interchangeable ==
    {p @@ q @@ r : p \in Exchanges(Flows), q \in Exchanges(Ids), r \in Exchanges(CapturedTurns)}

Text(t, cs) == [t |-> t, delta |-> cs]
MCInputs ==
    {[t |-> "request_started"], [t |-> "completed"], [t |-> "failed"], [t |-> "detected"],
     [t |-> "usage", usage |-> 1], [t |-> "upstream_request", preview |-> 2],
     [t |-> "response_item", preview |-> 1],
     Text("output", <<":", "b">>), Text("output", <<"b">>), Text("output", <<"n", "d">>),
     Text("output", <<"d", ":">>),
     Text("reasoning", <<"g">>), Text("refusal", <<"r">>), Text("phase", <<"p">>),
     [t |-> "arguments", call |-> "c1", delta |-> <<"a">>]}
=============================================================================
