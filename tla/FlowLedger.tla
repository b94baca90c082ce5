----------------------------- MODULE FlowLedger -----------------------------
(***************************************************************************)
(* What the dashboard and the metrics are promised about flows: a flow is  *)
(* shown open, then under one terminal status that never changes, and once *)
(* it has left the list it does not come back; one flow changes at a time, *)
(* although a change may push out others; and a turn is counted once,      *)
(* whether or not its flow is still listed.                                *)
(***************************************************************************)
EXTENDS Naturals

CONSTANTS Flows

VARIABLES shown,     \* flow -> what the list says of it
          counted    \* flows whose turn is in the metrics

lvars == <<shown, counted>>

Terminal == {"Completed", "Failed", "Cancelled"}

Moves == ({"unseen"} \X {"Open"}) \cup ({"Open"} \X Terminal)
             \cup (({"unseen", "Open"} \cup Terminal) \X {"evicted"})

Init ==
    /\ shown = [f \in Flows |-> "unseen"]
    /\ counted = {}

Show ==
    /\ \E new \in [Flows -> {"unseen", "Open", "evicted"} \cup Terminal] :
          /\ \A f \in Flows : new[f] = shown[f] \/ <<shown[f], new[f]>> \in Moves
          /\ \A f, g \in Flows :
                {new[f], new[g]} \cap {"evicted"} = {}
                    => f = g \/ new[f] = shown[f] \/ new[g] = shown[g]
          /\ shown' = new
    /\ UNCHANGED counted

Count(f) ==
    /\ shown[f] \in Terminal \cup {"evicted"}
    /\ f \notin counted
    /\ counted' = counted \cup {f}
    /\ UNCHANGED shown

Next == Show \/ \E f \in Flows : Count(f)

Spec == Init /\ [][Next]_lvars
=============================================================================
