--------------------------- MODULE ProviderHealth ---------------------------
(***************************************************************************)
(* The provider-health snapshot of the failover chain: a reader copies the *)
(* cooldown deadlines and last errors under the "states" lock, lets go of  *)
(* it, then reads the clock and each provider's failure streak and swaps   *)
(* in the next published vector.  One task publishes for the life of the   *)
(* process, on a tick of a second or at the next cooldown deadline.        *)
(***************************************************************************)
EXTENDS Failover

CONSTANT DownThreshold   \* DOWN_THRESHOLD

ASSUME HealthAssumption == DownThreshold \in Nat \ {0}

VARIABLES reading,   \* has the publisher copied the states and not published
          copied,    \* its copy of the windows, running down meanwhile
          copiedErr, \* its copy of last_error
          health     \* the published vector

hvars == <<reading, copied, copiedErr, health>>
allvars == <<vars, hvars>>

HInit ==
    /\ Init
    /\ reading = FALSE
    /\ copied = [p \in Provider |-> 0]
    /\ copiedErr = [p \in Provider |-> FALSE]
    /\ health = [p \in Provider |->
                   [status |-> "healthy", failures |-> 0, error |-> FALSE]]

WakesOnTraffic == \E f \in Request : pc[f] \notin Finished

\* The publisher loop sleeps to the next tick or cooldown deadline, traffic or
\* no traffic.
Wakes == TRUE

CopyWindows(w) ==
    /\ ~reading
    /\ Wakes
    /\ reading' = TRUE
    /\ copied' = w
    /\ copiedErr' = lastError
    /\ UNCHANGED <<vars, health>>

\* One short lock hold.
CopyStates == CopyWindows(window)

Status(p) ==
    CASE copied[p] = 0 -> "healthy"
      [] copied[p] > 0 /\ streak[p] >= DownThreshold -> "down"
      [] OTHER -> "cooling"

LatestError(p) == lastError[p]

CopiedError(p) == copiedErr[p]

\* The streak is read here, after the lock was let go.
Publish ==
    /\ reading
    /\ reading' = FALSE
    /\ health' = [p \in Provider |->
         [status |-> Status(p), failures |-> streak[p], error |-> CopiedError(p)]]
    /\ copied' = [p \in Provider |-> 0]
    /\ copiedErr' = [p \in Provider |-> FALSE]
    /\ UNCHANGED vars

\* The copied deadlines are compared with the clock of the later read.
HTick == Tick /\ copied' = [p \in Provider |-> Sooner(copied[p])]
              /\ UNCHANGED <<reading, copiedErr, health>>

HNext ==
    \/ \E f \in Chats : ChatStep(f) /\ UNCHANGED hvars
    \/ \E f \in Proxies : ProxyStep(f) /\ UNCHANGED hvars
    \/ \E f \in Request : RequestStep(f) /\ UNCHANGED hvars
    \/ HTick
    \/ CopyStates
    \/ Publish

\* The clock runs and the publisher task is never starved; nothing is assumed
\* of upstreams or clients.
HSpec == /\ HInit /\ [][HNext]_allvars
         /\ WF_allvars(HTick) /\ WF_allvars(CopyStates) /\ WF_allvars(Publish)

-----------------------------------------------------------------------------

\* An entry shown as cooling or down says why: the deadline and the last error
\* come from one lock hold, so no success between the two reads of the
\* snapshot can show a cooldown without its error.
UnhealthyHasError ==
    \A p \in Provider : health[p].status # "healthy" => health[p].error

\* Once traffic has stopped, the published vector comes to show every provider
\* as healthy and stays so: an idle cooldown that elapses is published with no
\* request to trigger it.
IdleTurnsHealthy ==
    (<>[] \A f \in Request : pc[f] \in Finished)
        => <>[] \A p \in Provider : health[p].status = "healthy"
=============================================================================
