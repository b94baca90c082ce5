---------------------------- MODULE TurnService ----------------------------
(***************************************************************************)
(* What the failover client promises to the turns that use it, without     *)
(* providers failing, cooling down or being retried: each dispatch round   *)
(* is served by one provider from its first chunk to its end, a round that *)
(* has been served is never taken over by another provider, the turn is    *)
(* attributed to the first provider that served it, and a turn that is     *)
(* over stays over.                                                        *)
(***************************************************************************)
EXTENDS Naturals

CONSTANTS Turns, Providers

VARIABLES phase,    \* turn -> where it stands
          server,   \* turn -> the provider whose chunks it is reading, or 0
          tagged    \* turn -> the provider it is attributed to, or 0

svars == <<phase, server, tagged>>

Init ==
    /\ phase = [t \in Turns |-> "idle"]
    /\ server = [t \in Turns |-> 0]
    /\ tagged = [t \in Turns |-> 0]

\* A dispatch round begins.
Seek(t) ==
    /\ phase[t] = "idle"
    /\ phase' = [phase EXCEPT ![t] = "seeking"]
    /\ UNCHANGED <<server, tagged>>

\* The first chunk of the round has arrived from p.
Serve(t, p) ==
    /\ phase[t] = "seeking"
    /\ phase' = [phase EXCEPT ![t] = "serving"]
    /\ server' = [server EXCEPT ![t] = p]
    /\ tagged' = [tagged EXCEPT ![t] = IF @ = 0 THEN p ELSE @]

Leave(t, to) ==
    /\ phase' = [phase EXCEPT ![t] = to]
    /\ server' = [server EXCEPT ![t] = 0]
    /\ UNCHANGED tagged

\* The stream of the round is over.
End(t) == phase[t] = "serving" /\ \E to \in {"idle", "done"} : Leave(t, to)

\* No provider could serve the round, or the one that did broke off.
Fail(t) == phase[t] \in {"idle", "seeking", "serving"} /\ Leave(t, "failed")

Cancel(t) == phase[t] \in {"idle", "seeking", "serving"} /\ Leave(t, "cancelled")

Next == \E t \in Turns : \/ Seek(t) \/ End(t) \/ Fail(t) \/ Cancel(t)
                         \/ \E p \in Providers : Serve(t, p)

Spec == Init /\ [][Next]_svars
=============================================================================
