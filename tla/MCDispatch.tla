----------------------------- MODULE MCDispatch -----------------------------
(* Instances for TLC of the three parts of sending a request: the messages  *)
(* the upstream gets, the routing client that finds the upstream of a model, *)
(* and the failover chain of one upstream.  Each is a whole of its own, so a *)
(* behaviour is one of them.                                                *)
EXTENDS Failover, MCRouting, MCLowering, TLC

VARIABLE part

DispatchInit ==
    /\ Init /\ RoutingInit /\ LoweringInit
    /\ part \in {"messages", "routing", "chain"}
    /\ part # "routing" => offers = [p \in Upstreams |-> CHOOSE a \in Offers[p] : TRUE]
    /\ part # "messages" => surface = "chat" /\ roles = NoPolicy
    \* A client's own items, the resumed turns and the instructions are those of
    \* the Responses route; the others are taken under two policies.
    /\ surface # "responses" => roles \in {NoPolicy, Qwen}
    /\ part = "messages" /\ surface # "chat" /\ roles = NoPolicy => instructed
DispatchNext ==
    \/ part = "messages" /\ LoweringNext /\ UNCHANGED <<vars, routingVars>>
    \/ part = "routing" /\ RoutingNext /\ UNCHANGED <<vars, loweringVars>>
    \/ part = "chain" /\ Next /\ UNCHANGED <<routingVars, loweringVars>>
DispatchSpec ==
    DispatchInit
    /\ [][DispatchNext /\ UNCHANGED part]_<<vars, routingVars, loweringVars, part>>

Interchangeable == Permutations(Inbound)
=============================================================================
