---------------------------- MODULE MetricsLayer ----------------------------
(***************************************************************************)
(* MetricsLayer of src/src/metrics.rs: the windows of recent terminals,    *)
(* each a ring of one-second slots, and the ring of snapshots by which the *)
(* dashboard travels in time.  A turn's terminal is first written to the   *)
(* flow store and then counted here, under another lock and in a second    *)
(* read before that lock is taken; the snapshot task holds both locks for  *)
(* an instant and cuts through the two stores and the published topology.  *)
(*                                                                         *)
(* A slot's counts, tokens and latencies are kept under one key per turn   *)
(* and are written together: a slot is the set of turns counted in it.     *)
(***************************************************************************)
EXTENDS FlowStore
LOCAL INSTANCE FiniteSetsExt

CONSTANTS Windows,   \* the lengths of the rings, in seconds
          Millis,    \* units of the clock in a second
          CutCap,    \* SNAPSHOT_RING_SLOTS
          CutQuota,  \* quota_bytes of the snapshot ring
          MaxTime,   \* bound on the clock
          MaxTurns,  \* bound on the turns opened
          MaxCuts    \* bound on the snapshots taken

ASSUME MetricsAssumption ==
    /\ IsFiniteSet(Windows) /\ Windows \subseteq Nat \ {0}
    /\ {Millis, CutCap, MaxTime} \subseteq Nat \ {0}
    /\ {CutQuota, MaxTurns, MaxCuts} \subseteq Nat

VARIABLES progress,   \* flow -> where its turn is
          sampled,    \* flow -> the second its terminal is counted in
          slots,      \* window -> its ring; metrics_seq is the number of
                      \* turns whose progress is "counted"
          stage,      \* how far the snapshot task is with its cut
          cut,        \* the cut it is making
          cuts,       \* the snapshot ring, oldest first: stamps and sizes
          moments     \* stamps of all cuts ever pushed

turnVars == <<progress, sampled>>
cutVars  == <<stage, cut, cuts, moments>>
metricsVars == <<store, clock, turnVars, slots, cutVars>>

Second(t) == t \div Millis

NoCut == [rows |-> <<>>, told |-> {}, read |-> 0, taken |-> 0, view |-> <<>>]

\* The snapshot task holds the flow store's lock from the listing to the
\* stamp, and the metrics' lock from before the stamp to the push.
UnlockedWhenListed == stage # "nested"
FlowsUnlocked == stage \notin {"listed", "nested"}
MetricsUnlocked == stage \notin {"nested", "stamped", "viewed"}

AllCounted == {f \in Flows : progress[f] = "counted"}

-----------------------------------------------------------------------------
(* The windows.                                                            *)

\* slot_mut: a slot that stands for another second is emptied first.
KeptSlot(slot, second) == [slot EXCEPT !.second = second]
SlotFor(slot, second) ==
    IF slot.second = second THEN slot ELSE [second |-> second, of |-> {}]

Entered(slot, f, second) == [SlotFor(slot, second) EXCEPT !.of = @ \cup {f}]

Counted(w, ring, f, second) == [ring EXCEPT ![second % w] = Entered(@, f, second)]

InWindow(w, now) == Minus(now, w - 1)..now

\* aggregate: slots of an earlier lap are passed over.
Aggregate(w, ring, now) ==
    UNION {ring[i].of : i \in {j \in DOMAIN ring : ring[j].second \in InWindow(w, now)}}

-----------------------------------------------------------------------------
(* The snapshot ring.                                                      *)

\* approx_bytes: the rows, and the keys of the windows.
CutBytes(c) ==
    1 + Cardinality(DOMAIN c.rows) + MapThenSumSet(LAMBDA w : Cardinality(c.view[w]), Windows)

RetainedBytes(cs) == MapThenSumSet(LAMBDA i : cs[i].bytes, DOMAIN cs)

\* push: the oldest cuts go until the rest fits, the newest always stays.
Fits(cs) == Len(cs) <= CutCap /\ (RetainedBytes(cs) <= CutQuota \/ Len(cs) = 1)

Newest(cs, k) == SubSeq(cs, Len(cs) - k + 1, Len(cs))

Pushed(cs, c) ==
    LET all == Append(cs, c)
        kept == {k \in 1..Len(all) : Fits(Newest(all, k))}
    IN  Newest(all, Max(kept))

StrictlyEarly(c, time) == c.taken < time
Early(c, time) == c.taken <= time

\* snapshot_at: the index of the cut to show for a time, 0 for none.  A binary
\* search by halves that remembers the last cut it found early enough.
SnapshotAt(cs, time) ==
    LET n == Len(cs)
        find[at \in [lo : 0..n, hi : 0..n, best : 0..n]] ==
            LET mid == at.lo + (at.hi - at.lo) \div 2
            IN  IF at.lo >= at.hi THEN at.best
                ELSE IF Early(cs[mid + 1], time)
                     THEN find[[at EXCEPT !.lo = mid + 1, !.best = mid + 1]]
                     ELSE find[[at EXCEPT !.hi = mid]]
    IN  find[[lo |-> 0, hi |-> n, best |-> 0]]

-----------------------------------------------------------------------------
(* The turns.                                                              *)

TurnGoes(f, from, to) == progress[f] = from /\ progress' = [progress EXCEPT ![f] = to]

OpenTurn(f) ==
    /\ FlowsUnlocked
    /\ Cardinality({g \in Flows : progress[g] # "new"}) < MaxTurns
    /\ TurnGoes(f, "new", "open")
    /\ store' = Open(store, f)
    /\ UNCHANGED <<clock, sampled, slots, cutVars>>

\* The guard's finalize, from which the metrics follow.
FinalizeTurn(f) ==
    /\ FlowsUnlocked
    /\ TurnGoes(f, "open", "over")
    /\ store' = Finalize(store, f, "Completed")
    /\ UNCHANGED <<clock, sampled, slots, cutVars>>

\* The guard is dropped: the record is finalized and nothing is counted.
DropTurn(f) ==
    /\ FlowsUnlocked
    /\ TurnGoes(f, "open", "dropped")
    /\ store' = Finalize(store, f, "Cancelled")
    /\ UNCHANGED <<clock, sampled, slots, cutVars>>

\* record_terminal reads the second, then waits for the lock.
SampleSecond(f) ==
    /\ TurnGoes(f, "over", "waiting")
    /\ sampled' = [sampled EXCEPT ![f] = Second(clock)]
    /\ UNCHANGED <<store, clock, slots, cutVars>>

RecordTerminal(f) ==
    /\ MetricsUnlocked
    /\ TurnGoes(f, "waiting", "counted")
    /\ slots' = [w \in Windows |-> Counted(w, slots[w], f, sampled[f])]
    /\ UNCHANGED <<store, clock, sampled, cutVars>>

-----------------------------------------------------------------------------
(* The snapshot task and the clock.                                        *)

\* with_summaries_under_lock, some time after the last cut.
ListFlows ==
    /\ stage = "idle"
    /\ Cardinality(moments) < MaxCuts
    /\ \A m \in moments : m < clock
    /\ stage' = "listed"
    /\ store' = Prune(store)
    /\ cut' = [NoCut EXCEPT !.rows =
                  [f \in DOMAIN store'.recs |-> [status |-> store'.recs[f].status,
                                                 started |-> store'.recs[f].started]]]
    /\ UNCHANGED <<clock, turnVars, slots, cuts, moments>>

\* The metrics' lock is nested; the cursors and the topology, which no lock
\* holds still, are read.
NestMetrics ==
    /\ stage = "listed"
    /\ stage' = "nested"
    /\ cut' = [cut EXCEPT !.told = AllCounted, !.read = clock]
    /\ UNCHANGED <<store, clock, turnVars, slots, cuts, moments>>

\* The clock is read last; the flow store's lock is released.
StampCut ==
    /\ stage = "nested"
    /\ stage' = "stamped"
    /\ cut' = [cut EXCEPT !.taken = clock]
    /\ UNCHANGED <<store, clock, turnVars, slots, cuts, moments>>

\* Under the metrics' lock alone.
ViewMetrics ==
    /\ stage = "stamped"
    /\ stage' = "viewed"
    /\ cut' = [cut EXCEPT !.view =
                  [w \in Windows |-> Aggregate(w, slots[w], Second(cut.taken))]]
    /\ UNCHANGED <<store, clock, turnVars, slots, cuts, moments>>

PushCut ==
    /\ stage = "viewed"
    /\ stage' = "idle"
    /\ cuts' = Pushed(cuts, [taken |-> cut.taken, bytes |-> CutBytes(cut)])
    /\ moments' = moments \cup {cut.taken}
    /\ cut' = NoCut
    /\ UNCHANGED <<store, clock, turnVars, slots>>

\* No turn waits for the lock while a whole ring goes round.
Advance ==
    /\ clock < MaxTime
    /\ \A f \in Flows, w \in Windows :
          progress[f] = "waiting" => Second(clock + 1) < sampled[f] + w
    /\ clock' = clock + 1
    /\ UNCHANGED <<store, turnVars, slots, cutVars>>

MetricsInit ==
    /\ StoreInit
    /\ progress = [f \in Flows |-> "new"]
    /\ sampled = [f \in Flows |-> 0]
    /\ slots = [w \in Windows |-> [i \in 0..(w - 1) |-> [second |-> 0, of |-> {}]]]
    /\ stage = "idle"
    /\ cut = NoCut
    /\ cuts = <<>>
    /\ moments = {}

MetricsNext ==
    \/ \E f \in Flows :
          \/ OpenTurn(f) \/ FinalizeTurn(f) \/ DropTurn(f)
          \/ SampleSecond(f) \/ RecordTerminal(f)
    \/ ListFlows \/ NestMetrics \/ StampCut \/ ViewMetrics \/ PushCut
    \/ Advance

MetricsSpec == MetricsInit /\ [][MetricsNext]_metricsVars

-----------------------------------------------------------------------------
(* Properties.                                                             *)

\* A snapshot is one instant: its windows hold the turns its cursor covers and
\* no others, none of these is still open among its rows, and nothing in it is
\* later than its stamp (metrics.rs: "no gap in which a writer could mutate
\* both stores and produce a torn cut", "no field is ever newer than the stamp").
CutIsOneInstant ==
    stage = "viewed" =>
        /\ \A w \in Windows :
              cut.view[w] = {f \in cut.told : sampled[f] \in InWindow(w, Second(cut.taken))}
        /\ \A f \in cut.told \cap DOMAIN cut.rows : cut.rows[f].status # "Open"
        /\ \A f \in cut.told : sampled[f] <= Second(cut.taken)
        /\ \A f \in DOMAIN cut.rows : cut.rows[f].started <= cut.taken
        /\ cut.read <= cut.taken

\* At any time each window is told the turns counted in its last seconds and
\* no others, though the slots of older laps are only emptied when they are
\* written again (metrics.rs, slot_mut and aggregate).
WindowShowsRecent ==
    \A w \in Windows :
        Aggregate(w, slots[w], Second(clock)) =
            {f \in AllCounted : sampled[f] \in InWindow(w, Second(clock))}

\* Who asks for a time is shown the last cut taken until then, unless it was
\* given up, and then every cut left is later; what is left are the newest
\* cuts, within the ring's limits (metrics.rs, SnapshotRing).
HistoryIsKept ==
    /\ cuts = <<>> \/ Fits(cuts)
    /\ \A time \in 0..MaxTime :
          LET i == SnapshotAt(cuts, time)
              before == {m \in moments : m <= time}
          IN  IF i # 0
              THEN /\ cuts[i].taken = Max(before)
                   /\ i = Len(cuts) \/ cuts[i + 1].taken > time
              ELSE \A j \in DOMAIN cuts : cuts[j].taken > time
=============================================================================
