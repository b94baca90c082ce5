--------------------------- MODULE FlowLifecycle ---------------------------
(***************************************************************************)
(* The life of an instrumented flow: log_api_call of src/src/http.rs opens *)
(* the record and holds the L0 guard, stream_responses_with_api_call_id    *)
(* of src/src/engine.rs claims it with the L1 guard, a spawned task runs   *)
(* the turn, and whichever guard owns the claim finalizes the record.      *)
(* Flows run concurrently, each lock hold is one step, and any flow can be *)
(* evicted by the others, killed through the AbortHub, or left by its      *)
(* client.  The store's operations are those of FlowStore.                 *)
(***************************************************************************)
EXTENDS FlowStore

CONSTANTS MaxRounds    \* bound on the dispatch rounds of one turn

ASSUME LifecycleAssumption == MaxRounds \in Nat \ {0}

VARIABLES claim,     \* flow -> the record's atomic claim
          l0,        \* flow -> the middleware guard
          pc,        \* flow -> where its handler or its task stands
          task,      \* flows whose turn was handed to a spawned task
          rounds,    \* flow -> dispatch rounds that reached the leaf
          ending,    \* flow -> how its turn ended
          hub,       \* AbortHub.handles
          killed,    \* flows whose abort token is cancelled
          metrics    \* flow -> the terminals recorded for it

turn == <<pc, task, rounds, ending>>
vars == <<store, clock, claim, l0, turn, hub, killed, metrics>>

Terminal == Statuses \ {"Open"}

\* "explicit" tells guard.finalize, which is followed by the metrics, from
\* the guard's Drop; the serving token holds an attempt trace and, of a failed
\* turn, the upstream's error body.
Ending == [status : Statuses, explicit : BOOLEAN,
           attempts : BOOLEAN, body : BOOLEAN]

NotEnded == [status |-> "Open", explicit |-> FALSE,
             attempts |-> FALSE, body |-> FALSE]

Init ==
    /\ store = EmptyStore
    /\ clock = 1
    /\ claim = [f \in Flows |-> "OpenL0"]
    /\ l0 = [f \in Flows |-> "none"]
    /\ pc = [f \in Flows |-> "idle"]
    /\ task = {}
    /\ rounds = [f \in Flows |-> 0]
    /\ ending = [f \in Flows |-> NotEnded]
    /\ hub = {}
    /\ killed = {}
    /\ metrics = [f \in Flows |-> <<>>]

Known(f) == f \in DOMAIN store.recs

Goto(f, from, to) == pc[f] \in from /\ pc' = [pc EXCEPT ![f] = to]

\* A step of f's turn that calls one operation of the store.
Calls(s) == store' = s /\ UNCHANGED <<clock, claim, l0, hub, killed, metrics>>

\* A step that leaves the store and the metrics alone.
Silent == UNCHANGED <<store, clock, metrics>>

-----------------------------------------------------------------------------
(* The request, in the middleware and in the handler.                      *)

Arrive(f) ==
    /\ Goto(f, {"idle"}, "opened")
    /\ Calls(Open(store, f))
    /\ UNCHANGED <<task, rounds, ending>>

\* middleware_guard: none when the record is already evicted.
GuardL0(f) ==
    /\ Goto(f, {"opened"}, "handler")
    /\ l0' = [l0 EXCEPT ![f] = IF Known(f) THEN "held" ELSE "none"]
    /\ Silent
    /\ UNCHANGED <<claim, task, rounds, ending, hub, killed>>

\* An extractor rejects the request, or the client leaves.
Reject(f) ==
    /\ Goto(f, {"handler"}, "left")
    /\ Silent
    /\ UNCHANGED <<claim, l0, task, rounds, ending, hub, killed>>

\* engine_guard's lookup.  Without a record the turn runs uninstrumented:
\* nothing it does later finds a record or a token.
LookUp(f) ==
    /\ Goto(f, {"handler"}, IF Known(f) THEN "claiming" ELSE "left")
    /\ Silent
    /\ UNCHANGED <<claim, l0, task, rounds, ending, hub, killed>>

\* The CAS winner registers its abort token.
ClaimL1(f) ==
    /\ Goto(f, {"claiming"}, IF claim[f] = "OpenL0" THEN "prep" ELSE "left")
    /\ claim' = [claim EXCEPT ![f] = IF @ = "OpenL0" THEN "ClaimedL1" ELSE @]
    /\ hub' = IF claim[f] = "OpenL0" THEN hub \cup {f} ELSE hub
    /\ Silent
    /\ UNCHANGED <<l0, task, rounds, ending, killed>>

Normalize(f) ==
    /\ Goto(f, {"prep"}, "lowered")
    /\ Calls(SetNormalized(store, f))
    /\ UNCHANGED <<task, rounds, ending>>

\* The routing decision is stamped and the turn is spawned without a wait.
Spawn(f) ==
    /\ Goto(f, {"lowered"}, "spawned")
    /\ Calls(StampPhase(store, f, "routing"))
    /\ task' = task \cup {f}
    /\ UNCHANGED <<rounds, ending>>

\* The turn ends: from here guard.finalize runs.
Ends(f, from, e) ==
    /\ Goto(f, from, "ended")
    /\ ending' = [ending EXCEPT ![f] = e]
    /\ Silent
    /\ UNCHANGED <<claim, l0, task, rounds, hub, killed>>

Tokenless(status, explicit) ==
    [NotEnded EXCEPT !.status = status, !.explicit = explicit]

\* finalize_pre_spawn_err.
PrepFails(f) == Ends(f, {"prep", "lowered"}, Tokenless("Failed", TRUE))

\* The client leaves during one of the waits before the spawn: the handler's
\* future is dropped and with it the guard.
Hangup(f) == Ends(f, {"prep", "lowered"}, Tokenless("Cancelled", FALSE))

-----------------------------------------------------------------------------
(* The spawned turn.                                                       *)

Bind(f) ==
    /\ Goto(f, {"spawned"}, "running")
    /\ Calls(Link(store, f))
    /\ UNCHANGED <<task, rounds, ending>>

\* The leaf client captures the request it sends.
Dispatch(f) ==
    /\ rounds[f] < MaxRounds
    /\ Goto(f, {"running", "settled"}, "streaming")
    /\ Calls(SetUpstream(store, f))
    /\ rounds' = [rounds EXCEPT ![f] = @ + 1]
    /\ UNCHANGED <<task, ending>>

ContentDelta(f) ==
    /\ Goto(f, {"streaming"}, "speaking")
    /\ Calls(StampPhase(store, f, "content"))
    /\ UNCHANGED <<task, rounds, ending>>

Usage(f) ==
    /\ Goto(f, {"streaming", "speaking"}, "settled")
    /\ Calls(RecordUsage(store, f))
    /\ UNCHANGED <<task, rounds, ending>>

\* The terminal event is sent and stream_end is stamped.
Complete(f) ==
    /\ Goto(f, {"settled"}, "ended")
    /\ Calls(StampPhase(store, f, "end"))
    /\ ending' = [ending EXCEPT ![f] =
                     [status |-> "Completed", explicit |-> TRUE,
                      attempts |-> TRUE, body |-> FALSE]]
    /\ UNCHANGED <<task, rounds>>

Running == {"running", "streaming", "speaking", "settled"}

\* A trace needs a round, and an error body the attempt it came from.
Endings(f, status, explicit) ==
    {e \in Ending :
        /\ e.status = status /\ e.explicit = explicit
        /\ e.attempts => rounds[f] > 0
        /\ e.body => e.attempts /\ status = "Failed"}

TurnFails(f) == \E e \in Endings(f, "Failed", TRUE) : Ends(f, Running, e)

\* run_turn unwinds and the guard is dropped.
TurnPanics(f) == \E e \in Endings(f, "Cancelled", FALSE) : Ends(f, Running, e)

ClientLeaves(f) == \E e \in Endings(f, "Cancelled", TRUE) : Ends(f, Running, e)

StopDeaf(f) == f \in killed /\ f \notin hub /\ ClientLeaves(f)

\* The turn notices at one of its waits that its token is cancelled.
Stop(f) == f \in killed /\ ClientLeaves(f)

-----------------------------------------------------------------------------
(* TelemetryGuard::finalize and what follows it.                           *)

WinClaim(f) ==
    /\ Goto(f, {"ended"}, IF claim[f] = "ClaimedL1" THEN "finalizing" ELSE "gone")
    /\ claim' = [claim EXCEPT ![f] = IF @ = "ClaimedL1" THEN "Finalized" ELSE @]
    /\ Silent
    /\ UNCHANGED <<l0, task, rounds, ending, hub, killed>>

FinalizeRecord(f) ==
    /\ Goto(f, {"finalizing"}, "tracing")
    /\ Calls(Finalize(store, f, ending[f].status))
    /\ UNCHANGED <<task, rounds, ending>>

CommitAttempts(f) ==
    /\ Goto(f, {"tracing"}, "staging")
    /\ Calls(IF ending[f].attempts THEN RecordAttempts(store, f) ELSE store)
    /\ UNCHANGED <<task, rounds, ending>>

CommitBody(f) ==
    /\ Goto(f, {"staging"}, "removing")
    /\ Calls(IF ending[f].body THEN SetUpstreamResponse(store, f) ELSE store)
    /\ UNCHANGED <<task, rounds, ending>>

UnregisterIfKnown(f) ==
    /\ Goto(f, {"removing"}, IF ending[f].explicit THEN "counting" ELSE "gone")
    /\ hub' = IF Known(f) THEN hub \ {f} ELSE hub
    /\ Silent
    /\ UNCHANGED <<claim, l0, task, rounds, ending, killed>>

Unregister(f) ==
    /\ Goto(f, {"removing"}, IF ending[f].explicit THEN "counting" ELSE "gone")
    /\ hub' = hub \ {f}
    /\ Silent
    /\ UNCHANGED <<claim, l0, task, rounds, ending, killed>>

CountFromRecord(f) ==
    /\ Goto(f, {"counting"}, "gone")
    /\ metrics' = [metrics EXCEPT ![f] =
                      IF Known(f) THEN Append(@, store.recs[f].status) ELSE @]
    /\ UNCHANGED <<store, clock, claim, l0, task, rounds, ending, hub, killed>>

\* record_terminal_metrics, from the guard's own copy.
CountTerminal(f) ==
    /\ Goto(f, {"counting"}, "gone")
    /\ metrics' = [metrics EXCEPT ![f] = Append(@, ending[f].status)]
    /\ UNCHANGED <<store, clock, claim, l0, task, rounds, ending, hub, killed>>

-----------------------------------------------------------------------------
(* The middleware guard's Drop, once the handler is through.               *)

HandlerIsThrough(f) == f \in task \/ pc[f] \in {"left", "gone"}

DropL0Unchecked(f) ==
    /\ l0[f] = "held"
    /\ HandlerIsThrough(f)
    /\ l0' = [l0 EXCEPT ![f] = "dropping"]
    /\ claim' = [claim EXCEPT ![f] = "Finalized"]
    /\ Silent
    /\ UNCHANGED <<turn, hub, killed>>

DropL0Inert(f) ==
    /\ l0[f] = "held"
    /\ HandlerIsThrough(f)
    /\ l0' = [l0 EXCEPT ![f] = "gone"]
    /\ Silent
    /\ UNCHANGED <<claim, turn, hub, killed>>

DropL0(f) ==
    /\ l0[f] = "held"
    /\ HandlerIsThrough(f)
    /\ l0' = [l0 EXCEPT ![f] = IF claim[f] = "OpenL0" THEN "dropping" ELSE "gone"]
    /\ claim' = [claim EXCEPT ![f] = IF @ = "OpenL0" THEN "Finalized" ELSE @]
    /\ Silent
    /\ UNCHANGED <<turn, hub, killed>>

FinalizeL0(f) ==
    /\ l0[f] = "dropping"
    /\ l0' = [l0 EXCEPT ![f] = "gone"]
    /\ store' = Finalize(store, f, "Failed")
    /\ UNCHANGED <<clock, claim, turn, hub, killed, metrics>>

-----------------------------------------------------------------------------
(* The dashboard and the clock.                                            *)

\* AbortHub::abort; a flow without a token is a 404 and changes nothing.
Kill(f) ==
    /\ f \in hub
    /\ killed' = killed \cup {f}
    /\ Silent
    /\ UNCHANGED <<claim, l0, turn, hub>>

\* list and detail prune before they read.
Look ==
    /\ Calls(Prune(store))
    /\ UNCHANGED turn

\* The wall clock is stepped, forwards or backwards.
Step ==
    /\ clock' \in 1..MaxClock
    /\ UNCHANGED <<store, claim, l0, turn, hub, killed, metrics>>

-----------------------------------------------------------------------------

Ready(f) ==
    \/ Arrive(f) \/ GuardL0(f) \/ Reject(f) \/ LookUp(f) \/ ClaimL1(f)
    \/ Normalize(f) \/ Spawn(f) \/ PrepFails(f) \/ Hangup(f)

\* What the task does without waiting for anyone else.
TaskStep(f) ==
    \/ Bind(f) \/ Stop(f)
    \/ WinClaim(f) \/ FinalizeRecord(f) \/ CommitAttempts(f)
    \/ CommitBody(f) \/ Unregister(f) \/ CountTerminal(f)

Streams(f) ==
    \/ Dispatch(f) \/ ContentDelta(f) \/ Usage(f) \/ Complete(f)
    \/ TurnFails(f) \/ TurnPanics(f) \/ ClientLeaves(f)

Next ==
    \/ \E f \in Flows : \/ Ready(f) \/ TaskStep(f) \/ Streams(f)
                        \/ DropL0(f) \/ FinalizeL0(f) \/ Kill(f)
    \/ Look
    \/ Step

Spec == Init /\ [][Next]_vars

\* A spawned task is scheduled, and each of its waits selects on the token.
FairSpec == Spec /\ \A f \in Flows : WF_vars(TaskStep(f))

-----------------------------------------------------------------------------
(* Properties.                                                             *)

Guarded == {"prep", "lowered", "spawned", "ended", "finalizing", "tracing",
            "staging", "removing"} \cup Running

\* A record is never left Open by a request that is over: whichever way the
\* request ended, one of its two guards has finalized the record or is about
\* to (dashboard_flow.rs: "no orphan stuck Open").
NoRecordStuckOpen ==
    \A f \in Flows :
        /\ pc[f] \in {"left", "gone"}
        /\ l0[f] \in {"none", "gone"}
        /\ Known(f)
        => store.recs[f].status # "Open"

\* The AbortHub holds a token for exactly the flows whose L1 guard still owns
\* them: no finished flow leaks one, evicted or not, and every turn that can
\* still be killed can be found.
HubHoldsLiveGuards == hub = {f \in Flows : pc[f] \in Guarded}

\* A turn is counted at most once, an explicitly finalized turn is counted even
\* if its record was evicted meanwhile, and a record that is still listed shows
\* the status that was counted.
CountedOnce ==
    \A f \in Flows :
        /\ Len(metrics[f]) <= 1
        /\ pc[f] = "gone" /\ ending[f].explicit
              => metrics[f] = <<ending[f].status>>
        /\ metrics[f] # <<>> /\ Known(f)
              => store.recs[f].status = metrics[f][1]

\* A spawned turn that was killed gives up its token (run_turn's selects).
KilledEnds ==
    \A f \in Flows : f \in killed /\ f \in task ~> f \notin hub

\* The list and the metrics keep FlowLedger's promises.
Ledger == INSTANCE FlowLedger WITH
    shown <- [f \in Flows |-> IF Known(f) THEN store.recs[f].status
                              ELSE IF pc[f] = "idle" THEN "unseen" ELSE "evicted"],
    counted <- {f \in Flows : metrics[f] # <<>>}

ImplementsLedger == Ledger!Spec
=============================================================================
