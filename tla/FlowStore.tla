----------------------------- MODULE FlowStore -----------------------------
(***************************************************************************)
(* DashboardFlowStore of src/src/dashboard_flow.rs: the per-flow records   *)
(* kept for the dashboard, their order, the response-id index and the      *)
(* running byte total, all behind one lock.  Every operation prunes the    *)
(* records whose time is up, changes one record, and evicts.  The          *)
(* operations are functions from a store to a store; FlowLifecycle says    *)
(* who calls them and when.                                                *)
(*                                                                         *)
(* A body is one unit of bytes, and so are a record's metadata and its     *)
(* attempt trace: what records hold together is a set of such parts.  A    *)
(* flow's response id is written as the flow itself: the engine mints one  *)
(* per flow.                                                               *)
(***************************************************************************)
EXTENDS Picks, Functions
LOCAL INSTANCE FiniteSetsExt

CONSTANTS Flows,      \* api_call_ids
          Cap,        \* FLOW_CAP
          Quota,      \* summary_quota_bytes
          Ttl,        \* FLOW_TTL_MS
          MaxClock,   \* bound on the wall clock, which starts at 1
          MaxSeq      \* bound on the seq of StoreNext

ASSUME StoreAssumption ==
    /\ IsFiniteSet(Flows)
    /\ Cap \in Nat \ {0}
    /\ Quota \in Nat
    /\ Ttl \in Nat
    /\ MaxClock \in Nat \ {0}
    /\ MaxSeq \in Nat

VARIABLES store,   \* DashboardFlowState
          clock    \* the wall clock, in milliseconds since the epoch

Statuses == {"Open", "Completed", "Failed", "Cancelled"}
Bodies   == {"inbound", "normalized", "upstream", "response"}
Phases   == <<"ingress", "normalization", "routing", "content", "end", "finalize">>
Phase    == {Phases[i] : i \in 1..Len(Phases)}

\* A phase time of 0 is None.
Record == [status : Statuses, bodies : SUBSET Bodies, linked : BOOLEAN,
           attempts : BOOLEAN, started : 1..MaxClock, seq : Nat,
           phases : [Phase -> 0..MaxClock]]

Minus(a, b) == IF a > b THEN a - b ELSE 0

Parts(r) == {"summary"} \cup r.bodies \cup (IF r.attempts THEN {"attempts"} ELSE {})

Bytes(r) == Cardinality(Parts(r))

Total(recs, ids) == Cardinality(UNION {{f} \X Parts(recs[f]) : f \in ids})

EmptyStore ==
    [recs |-> <<>>, order |-> <<>>, links |-> {}, bytes |-> 0, seq |-> 0]

-----------------------------------------------------------------------------
(* Removal and eviction.                                                   *)

Without(order, gone) == Picked(order, {k \in DOMAIN order : order[k] \notin gone})

RemoveKeepsLinks(s, gone) ==
    [recs  |-> Restrict(s.recs, DOMAIN s.recs \ gone),
     order |-> Without(s.order, gone),
     links |-> s.links,
     bytes |-> Minus(s.bytes, Total(s.recs, gone)),
     seq   |-> s.seq + Cardinality(gone)]

\* remove, for each record of the set.
Remove(s, gone) ==
    IF gone = {} THEN s
    ELSE [RemoveKeepsLinks(s, gone) EXCEPT !.links = @ \ gone]

\* prune_expired: the wall clock against the record's start.
Prune(s) ==
    Remove(s, {f \in DOMAIN s.recs : s.recs[f].started < Minus(clock, Ttl)})

Oldest(s, k) == {s.order[i] : i \in 1..k}

\* The fewest oldest records that satisfy Enough, or all of them.
Fewest(s, Enough(_)) ==
    CHOOSE k \in 0..Len(s.order) :
        /\ Enough(k) \/ k = Len(s.order)
        /\ \A j \in 0..(k - 1) : ~Enough(j)

Stripped(recs, ids) ==
    [f \in DOMAIN recs |-> IF f \in ids THEN [recs[f] EXCEPT !.bodies = {}]
                                         ELSE recs[f]]

BodyBytes(recs, ids) == Cardinality(UNION {{f} \X recs[f].bodies : f \in ids})

Strip(s, ids) ==
    [s EXCEPT !.recs = Stripped(@, ids), !.bytes = Minus(@, BodyBytes(s.recs, ids))]

\* enforce_summary_quota, phase 1: the oldest bodies go first.
BodiesToShed(s) == Fewest(s, LAMBDA k : Strip(s, Oldest(s, k)).bytes <= Quota)
ShedBodies(s) == Strip(s, Oldest(s, BodiesToShed(s)))

\* Phase 2: without bodies, whole records go.
RecordsToEvict(s) == Fewest(s, LAMBDA k : Remove(s, Oldest(s, k)).bytes <= Quota)
EvictRecords(s) == Remove(s, Oldest(s, RecordsToEvict(s)))

EnforceQuota(s) == IF s.bytes <= Quota THEN s ELSE EvictRecords(ShedBodies(s))

EnforceCaps(s) == EnforceQuota(Remove(s, Oldest(s, Minus(Len(s.order), Cap))))

-----------------------------------------------------------------------------
(* Insertion and update.                                                   *)

\* COW replacement of f's record by r, stamped with the bumped seq.
Put(s, f, r) ==
    [s EXCEPT !.recs = [@ EXCEPT ![f] = [r EXCEPT !.seq = s.seq + 1]],
              !.bytes = Minus(@, Bytes(s.recs[f])) + Bytes(r),
              !.seq = @ + 1]

\* update, for an id that is an api_call_id: unknown ids are ignored.
Update(s, f, Edit(_)) ==
    IF f \in DOMAIN s.recs THEN Put(s, f, Edit(s.recs[f])) ELSE s

\* PhaseTimings: first write wins, clamped up to the latest phase recorded.
Stamp(r, phase) ==
    IF r.phases[phase] # 0 THEN r
    ELSE [r EXCEPT !.phases[phase] =
             Max({clock} \cup {r.phases[p] : p \in Phase})]

Open(s, f) ==
    LET p == Prune(s)
        r == [status |-> "Open", bodies |-> {"inbound"}, linked |-> FALSE,
              attempts |-> FALSE, started |-> clock, seq |-> p.seq + 1,
              phases |-> [x \in Phase |-> IF x = "ingress" THEN clock ELSE 0]]
    IN  EnforceCaps([p EXCEPT !.recs = [x \in DOMAIN @ \cup {f} |->
                                           IF x = f THEN r ELSE @[x]],
                              !.order = Append(@, f),
                              !.bytes = @ + Bytes(r),
                              !.seq = @ + 1])

\* First link wins; an unknown flow leaves no index entry behind.
Link(s, f) ==
    LET p == Prune(s)
    IN  IF f \in DOMAIN p.recs /\ ~p.recs[f].linked
        THEN EnforceCaps(Update([p EXCEPT !.links = @ \cup {f}], f,
                                LAMBDA r : [r EXCEPT !.linked = TRUE]))
        ELSE p

AddBody(s, f, b) ==
    Update(Prune(s), f, LAMBDA r : [r EXCEPT !.bodies = @ \cup {b}])

SetNormalized(s, f) ==
    EnforceCaps(Update(Prune(s), f, LAMBDA r :
        Stamp([r EXCEPT !.bodies = @ \cup {"normalized"}], "normalization")))

\* The leaf knows the flow by its response id only.
SetUpstream(s, f) ==
    IF f \in Prune(s).links THEN EnforceCaps(AddBody(s, f, "upstream"))
                            ELSE EnforceCaps(Prune(s))

SetUpstreamResponse(s, f) == EnforceCaps(AddBody(s, f, "response"))

\* record_usage leaves the sizes as they are.
RecordUsage(s, f) == Update(Prune(s), f, LAMBDA r : r)

\* routing_decision, first_content_delta and stream_end.
StampPhase(s, f, phase) == Update(Prune(s), f, LAMBDA r : Stamp(r, phase))

RecordAttempts(s, f) ==
    EnforceCaps(Update(Prune(s), f, LAMBDA r : [r EXCEPT !.attempts = TRUE]))

Finalize(s, f, status) ==
    EnforceCaps(Update(Prune(s), f, LAMBDA r :
        Stamp([r EXCEPT !.status = status], "finalize")))

-----------------------------------------------------------------------------
(* The store under any sequence of calls.  A flow whose record is gone      *)
(* lends its name to a later one.                                          *)

StoreInit == store = EmptyStore /\ clock = 1

Opened(f) == f \notin DOMAIN store.recs /\ store' = Open(store, f)

Linked(f) == store' = Link(store, f)

\* The engine reaches the phases of a flow in their order.
InOrder(f, phase) ==
    f \in DOMAIN store.recs =>
        \A i, j \in 1..Len(Phases) :
            Phases[i] = phase /\ i < j => store.recs[f].phases[Phases[j]] = 0

Captured(f) ==
    \/ InOrder(f, "normalization") /\ store' = SetNormalized(store, f)
    \/ store' = SetUpstream(store, f)
    \/ store' = SetUpstreamResponse(store, f)

Measured(f) ==
    \/ store' = RecordUsage(store, f)
    \/ store' = RecordAttempts(store, f)
    \/ InOrder(f, "content") /\ store' = StampPhase(store, f, "content")

Finalized(f) == store' = Finalize(store, f, "Completed")

Listed == store' = Prune(store)

StepClock == clock' \in 1..MaxClock /\ UNCHANGED store

StoreNext ==
    \/ /\ store.seq < MaxSeq
       /\ \/ \E f \in Flows : \/ Opened(f) \/ Linked(f) \/ Captured(f)
                              \/ Measured(f) \/ Finalized(f)
          \/ Listed
       /\ UNCHANGED clock
    \/ StepClock

StoreSpec == StoreInit /\ [][StoreNext]_<<store, clock>>

-----------------------------------------------------------------------------
(* What holds of a store whenever its lock is free.                        *)

\* The order, the index and the records describe the same flows: an evicted
\* or expired flow leaves nothing behind, and a linked flow can be found by
\* its response id for as long as its record lives.
Lockstep ==
    /\ Len(store.order) = Cardinality(DOMAIN store.recs)
    /\ {store.order[i] : i \in 1..Len(store.order)} = DOMAIN store.recs
    /\ store.links = {f \in DOMAIN store.recs : store.recs[f].linked}

\* The running byte total is the sum of what the records hold, and neither it
\* nor the number of records is ever seen above its limit.
Bounded ==
    /\ store.bytes = Total(store.recs, DOMAIN store.recs)
    /\ store.bytes <= Quota
    /\ Len(store.order) <= Cap

\* The recorded phases of a flow never decrease along the pipeline, even when
\* the wall clock steps back between two of them.
PhasesMonotone ==
    \A f \in DOMAIN store.recs : \A i, j \in 1..Len(Phases) :
        LET t == store.recs[f].phases
        IN  i < j /\ t[Phases[j]] # 0 => t[Phases[i]] <= t[Phases[j]]

\* Whatever the calls and however often they evict, expire or shed bodies in
\* between, the store's parts agree, its limits hold and no phase of a flow
\* comes before an earlier one (dashboard_flow.rs: every operation leaves the
\* store so before it gives up the lock).
StoreIsSound == Lockstep /\ Bounded /\ PhasesMonotone
=============================================================================
