------------------------------ MODULE FlowProofs ------------------------------
(***************************************************************************)
(* What TLAPS proves of the flow store and of the life of a flow.          *)
(*                                                                         *)
(* The operations of FlowStore, for any store of any size and any limits:  *)
(* every operation only removes records, sheds bodies and changes what it  *)
(* is told to, and keeps order, index, byte total and phases in agreement. *)
(* These lemmas are about stores as values; the proofs below and           *)
(* MetricsProofs use them for the steps that call the operations.          *)
(*                                                                         *)
(* FlowLifecycle, for any number of concurrent flows and any limits of the *)
(* store: one guard finalizes a flow, the AbortHub holds the tokens of     *)
(* live guards, a turn is counted once, and the whole implements           *)
(* FlowLedger.                                                             *)
(***************************************************************************)
EXTENDS FlowLifecycle, PicksProofs
LOCAL INSTANCE FiniteSetsExt

-----------------------------------------------------------------------------
(* The operations of the flow store, as far as status and start go.        *)

\* s and r are records with these fields.
StoreShape(s) ==
    s \in [recs : {s.recs}, order : {s.order}, links : {s.links}, bytes : {s.bytes}, seq : {s.seq}]
RecordShape(r) ==
    r \in [status : {r.status}, bodies : {r.bodies}, linked : {r.linked},
         attempts : {r.attempts}, started : {r.started}, seq : {r.seq}, phases : {r.phases}]

Proper(s) == StoreShape(s) /\ \A f \in DOMAIN s.recs : RecordShape(s.recs[f])

\* t holds records of s, at most without their bodies.
Within(t, s) ==
    /\ StoreShape(t)
    /\ DOMAIN t.recs \subseteq DOMAIN s.recs
    /\ \A f \in DOMAIN t.recs : /\ t.recs[f].status = s.recs[f].status
                                /\ t.recs[f].started = s.recs[f].started
                                /\ RecordShape(t.recs[f])

\* Shedding bodies touches no other field of the store.
LEMMA StripShape ==
    ASSUME NEW s, NEW ids, StoreShape(s)
    PROVE  StoreShape(Strip(s, ids)) /\ Strip(s, ids).recs = Stripped(s.recs, ids)
  BY DEF StoreShape, Strip

\* A record without bodies is otherwise the same.
LEMMA EmptyBodies ==
    ASSUME NEW r, RecordShape(r)
    PROVE /\ RecordShape([r EXCEPT !.bodies = {}])
          /\ [r EXCEPT !.bodies = {}].status = r.status
          /\ [r EXCEPT !.bodies = {}].started = r.started
  BY DEF RecordShape

\* Shedding bodies keeps every record.
LEMMA StripWithin ==
    ASSUME NEW s, NEW ids, Proper(s)
    PROVE Within(Strip(s, ids), s)
<1>1. StoreShape(Strip(s, ids)) /\ Strip(s, ids).recs = Stripped(s.recs, ids)
  BY StripShape DEF Proper
<1>2. ASSUME NEW f \in DOMAIN s.recs
      PROVE  /\ Stripped(s.recs, ids)[f].status = s.recs[f].status
             /\ Stripped(s.recs, ids)[f].started = s.recs[f].started
             /\ RecordShape(Stripped(s.recs, ids)[f])
  BY EmptyBodies DEF Stripped, Proper
<1>3. DOMAIN Stripped(s.recs, ids) = DOMAIN s.recs
  BY DEF Stripped
<1> QED
  BY <1>1, <1>2, <1>3 DEF Within

\* Removal leaves records as they are.
LEMMA RemoveWithin ==
    ASSUME NEW s, NEW gone, Proper(s)
    PROVE Within(Remove(s, gone), s)
<1>1. /\ StoreShape(RemoveKeepsLinks(s, gone))
      /\ RemoveKeepsLinks(s, gone).recs = [f \in DOMAIN s.recs \ gone |-> s.recs[f]]
  BY DEF RemoveKeepsLinks, Restrict, StoreShape
<1>2. ASSUME NEW t, StoreShape(t)
      PROVE /\ StoreShape([t EXCEPT !.links = @ \ gone])
            /\ [t EXCEPT !.links = @ \ gone].recs = t.recs
  BY <1>2 DEF StoreShape
<1>3. CASE gone = {}
  BY <1>3 DEF Remove, Within, Proper
<1>4. CASE gone # {}
  <2>1. /\ StoreShape(Remove(s, gone))
        /\ Remove(s, gone).recs = [f \in DOMAIN s.recs \ gone |-> s.recs[f]]
    BY <1>1, <1>2, <1>4 DEF Remove
  <2> QED
    BY <2>1 DEF Within, Proper
<1> QED
  BY <1>3, <1>4

\* Evictions compose.
LEMMA WithinTrans ==
    ASSUME NEW s, NEW t, NEW u, Within(t, s), Within(u, t)
    PROVE  Within(u, s)
  BY DEF Within

\* What eviction leaves is a store.
LEMMA WithinProper ==
    ASSUME NEW s, NEW t, Within(t, s)
    PROVE  Proper(t)
  BY DEF Within, Proper

\* No eviction is an eviction.
LEMMA SelfWithin ==
    ASSUME NEW s, Proper(s)
    PROVE  Within(s, s)
  BY DEF Within, Proper

\* Expiry only removes.
LEMMA PruneWithin ==
    ASSUME NEW s, Proper(s)
    PROVE  Within(Prune(s), s)
  BY RemoveWithin DEF Prune

\* The cap and the quota only remove and shed.
LEMMA EnforceCapsWithin ==
    ASSUME NEW s, Proper(s)
    PROVE  Within(EnforceCaps(s), s)
<1> DEFINE r == Remove(s, Oldest(s, Minus(Len(s.order), Cap)))
           b == ShedBodies(r)
<1>1. Within(r, s)
  BY RemoveWithin
<1>2. Within(b, r)
  BY <1>1, WithinProper, StripWithin DEF ShedBodies
<1>3. Within(EvictRecords(b), b)
  BY <1>2, WithinProper, RemoveWithin DEF EvictRecords
<1>4. Within(EvictRecords(b), s)
  BY <1>1, <1>2, <1>3, WithinTrans
<1> QED
  BY <1>1, <1>4 DEF EnforceCaps, EnforceQuota

\* A phase stamp changes neither status nor start.
LEMMA StampShape ==
    ASSUME NEW r, NEW phase, RecordShape(r)
    PROVE  /\ RecordShape(Stamp(r, phase))
           /\ Stamp(r, phase).status = r.status
           /\ Stamp(r, phase).started = r.started
  BY DEF Stamp, RecordShape

\* Replacing a record changes that record only.
LEMMA PutShape ==
    ASSUME NEW s, NEW f \in DOMAIN s.recs, NEW r, Proper(s), RecordShape(r)
    PROVE  /\ Proper(Put(s, f, r))
           /\ DOMAIN Put(s, f, r).recs = DOMAIN s.recs
           /\ Put(s, f, r).recs[f].status = r.status
           /\ Put(s, f, r).recs[f].started = r.started
           /\ \A g \in DOMAIN s.recs : g # f => Put(s, f, r).recs[g] = s.recs[g]
<1>1. /\ StoreShape(Put(s, f, r))
      /\ Put(s, f, r).recs = [s.recs EXCEPT ![f] = [r EXCEPT !.seq = s.seq + 1]]
  BY DEF Put, Proper, StoreShape
<1>2. /\ RecordShape([r EXCEPT !.seq = s.seq + 1])
      /\ [r EXCEPT !.seq = s.seq + 1].status = r.status
      /\ [r EXCEPT !.seq = s.seq + 1].started = r.started
  BY DEF RecordShape
<1> QED
  BY <1>1, <1>2 DEF Proper

\* finalize gives its record the status and changes no other.
LEMMA FinalizeShape ==
    ASSUME NEW s, NEW f, NEW status, Proper(s)
    PROVE  LET t == Finalize(s, f, status)
           IN  /\ Proper(t)
               /\ DOMAIN t.recs \subseteq DOMAIN s.recs
               /\ \A g \in DOMAIN t.recs :
                     /\ t.recs[g].started = s.recs[g].started
                     /\ t.recs[g].status = IF g = f THEN status ELSE s.recs[g].status
<1> DEFINE p == Prune(s)
           r == Stamp([p.recs[f] EXCEPT !.status = status], "finalize")
           u == IF f \in DOMAIN p.recs THEN Put(p, f, r) ELSE p
<1>1. Within(p, s) /\ Proper(p)
  BY PruneWithin, WithinProper
<1>2. ASSUME f \in DOMAIN p.recs
      PROVE  RecordShape(r) /\ r.status = status /\ r.started = p.recs[f].started
  <2>1. /\ RecordShape([p.recs[f] EXCEPT !.status = status])
        /\ [p.recs[f] EXCEPT !.status = status].status = status
        /\ [p.recs[f] EXCEPT !.status = status].started = p.recs[f].started
    <3>1. RecordShape(p.recs[f])
      BY <1>1, <1>2 DEF Proper
    <3> HIDE DEF p
    <3> QED
      BY <3>1 DEF RecordShape
  <2> QED
    BY <2>1, StampShape
<1>3. /\ Proper(u)
      /\ DOMAIN u.recs \subseteq DOMAIN p.recs
      /\ \A g \in DOMAIN u.recs :
            /\ u.recs[g].started = p.recs[g].started
            /\ u.recs[g].status = IF g = f THEN status ELSE p.recs[g].status
  <2> HIDE DEF p, r
  <2>1. CASE f \in DOMAIN p.recs
    BY <1>1, <1>2, <2>1, PutShape
  <2>2. CASE f \notin DOMAIN p.recs
    BY <1>1, <2>2
  <2> QED
    BY <2>1, <2>2
<1>4. Finalize(s, f, status) = EnforceCaps(u)
  BY DEF Finalize, Update
<1>5. Within(EnforceCaps(u), u)
  BY <1>3, EnforceCapsWithin
<1> HIDE DEF p, u
<1> QED
  BY <1>1, <1>3, <1>4, <1>5, WithinProper DEF Within

\* open adds a record that starts now.
LEMMA OpenShape ==
    ASSUME NEW s, NEW f, Proper(s)
    PROVE  LET t == Open(s, f)
           IN  /\ Proper(t)
               /\ DOMAIN t.recs \subseteq DOMAIN s.recs \cup {f}
               /\ \A g \in DOMAIN t.recs :
                     IF g = f THEN t.recs[g].started = clock /\ t.recs[g].status = "Open"
                     ELSE /\ t.recs[g].started = s.recs[g].started
                          /\ t.recs[g].status = s.recs[g].status
<1> DEFINE p == Prune(s)
           r == [status |-> "Open", bodies |-> {"inbound"}, linked |-> FALSE,
                 attempts |-> FALSE, started |-> clock, seq |-> p.seq + 1,
                 phases |-> [x \in Phase |-> IF x = "ingress" THEN clock ELSE 0]]
           u == [p EXCEPT !.recs = [x \in DOMAIN @ \cup {f} |-> IF x = f THEN r ELSE @[x]],
                          !.order = Append(@, f),
                          !.bytes = @ + Bytes(r),
                          !.seq = @ + 1]
<1>1. Within(p, s) /\ Proper(p)
  BY PruneWithin, WithinProper
<1>2. RecordShape(r) /\ r.started = clock /\ r.status = "Open"
  BY DEF RecordShape
<1>3. Open(s, f) = EnforceCaps(u)
  BY DEF Open
<1>4. /\ StoreShape(u)
      /\ u.recs = [x \in DOMAIN p.recs \cup {f} |-> IF x = f THEN r ELSE p.recs[x]]
  <2> HIDE DEF p, r
  <2> QED
    BY <1>1 DEF Proper, StoreShape
<1> HIDE DEF p, r, u
<1>5. Proper(u)
  BY <1>1, <1>2, <1>4 DEF Proper
<1> DEFINE t == EnforceCaps(u)
<1>6. Within(t, u) /\ Proper(t)
  BY <1>5, EnforceCapsWithin, WithinProper
<1> HIDE DEF t
<1>7. DOMAIN t.recs \subseteq DOMAIN s.recs \cup {f}
  BY <1>1, <1>4, <1>6 DEF Within
<1>8. ASSUME NEW g \in DOMAIN t.recs, g = f
      PROVE  t.recs[g].started = clock /\ t.recs[g].status = "Open"
  BY <1>2, <1>4, <1>6, <1>8 DEF Within
<1>9. ASSUME NEW g \in DOMAIN t.recs, g # f
      PROVE  t.recs[g].started = s.recs[g].started /\ t.recs[g].status = s.recs[g].status
  <2>1. g \in DOMAIN p.recs /\ u.recs[g] = p.recs[g]
    BY <1>4, <1>6, <1>9 DEF Within
  <2> QED
    BY <1>1, <1>6, <2>1 DEF Within
<1> QED
  BY <1>3, <1>6, <1>7, <1>8, <1>9 DEF t

-----------------------------------------------------------------------------
(* The operations that change neither status nor start.                    *)

\* Bodies, the link and the trace are fields of their own.
LEMMA FieldsShape ==
    ASSUME NEW r, NEW x, RecordShape(r)
    PROVE  \A q \in {[r EXCEPT !.bodies = x], [r EXCEPT !.linked = x],
                      [r EXCEPT !.attempts = x]} :
              RecordShape(q) /\ q.status = r.status /\ q.started = r.started
  BY DEF RecordShape

\* update with an edit that keeps status and start.
LEMMA EditWithin ==
    ASSUME NEW s, NEW f, NEW r, Proper(s),
           f \in DOMAIN s.recs =>
               /\ RecordShape(r)
               /\ r.status = s.recs[f].status
               /\ r.started = s.recs[f].started
    PROVE  Within(IF f \in DOMAIN s.recs THEN Put(s, f, r) ELSE s, s)
<1>1. CASE f \in DOMAIN s.recs
  BY <1>1, PutShape DEF Within, Proper
<1>2. CASE f \notin DOMAIN s.recs
  BY <1>2, SelfWithin
<1> QED
  BY <1>1, <1>2

\* The cap and the quota after an edit after expiry.
LEMMA EvictedWithin ==
    ASSUME NEW s, NEW t, Proper(s), Within(t, Prune(s))
    PROVE  Within(t, s) /\ Within(EnforceCaps(t), s)
<1>1. Within(t, s)
  BY PruneWithin, WithinTrans
<1>2. Within(EnforceCaps(t), t)
  BY WithinProper, EnforceCapsWithin
<1> QED
  BY <1>1, <1>2, WithinTrans

\* link, without its index entry.
LEMMA LinkWithin ==
    ASSUME NEW s, NEW f, Proper(s)
    PROVE  Within(Link(s, f), s)
<1> DEFINE p == Prune(s)
           q == [p EXCEPT !.links = @ \cup {f}]
           r == [q.recs[f] EXCEPT !.linked = TRUE]
           u == IF f \in DOMAIN q.recs THEN Put(q, f, r) ELSE q
<1>1. Within(p, s) /\ Proper(p)
  BY PruneWithin, WithinProper
<1>2. Link(s, f) = IF f \in DOMAIN p.recs /\ ~p.recs[f].linked THEN EnforceCaps(u) ELSE p
  BY DEF Link, Update
<1>3. StoreShape(q) /\ q.recs = p.recs
  <2> HIDE DEF p
  <2> QED
    BY <1>1 DEF Proper, StoreShape
<1>4. Proper(q) /\ Within(q, p)
  BY <1>1, <1>3 DEF Proper, Within
<1>5. f \in DOMAIN q.recs =>
          RecordShape(r) /\ r.status = q.recs[f].status /\ r.started = q.recs[f].started
  BY <1>4, FieldsShape DEF Proper
<1>6. Within(u, q)
  BY <1>4, <1>5, EditWithin
<1> HIDE DEF p, q, u
<1>7. Within(EnforceCaps(u), u)
  BY <1>6, WithinProper, EnforceCapsWithin
<1> QED
  BY <1>1, <1>2, <1>4, <1>6, <1>7, WithinTrans

\* A phase stamp.
LEMMA StampPhaseWithin ==
    ASSUME NEW s, NEW f, NEW phase, Proper(s)
    PROVE  Within(StampPhase(s, f, phase), s)
<1> DEFINE p == Prune(s)
           r == Stamp(p.recs[f], phase)
<1>1. Proper(p)
  BY PruneWithin, WithinProper
<1>2. f \in DOMAIN p.recs =>
          RecordShape(r) /\ r.status = p.recs[f].status /\ r.started = p.recs[f].started
  BY <1>1, StampShape DEF Proper
<1>3. Within(IF f \in DOMAIN p.recs THEN Put(p, f, r) ELSE p, p)
  BY <1>1, <1>2, EditWithin
<1> QED
  BY <1>3, EvictedWithin DEF StampPhase, Update

\* The normalized request's body, with its stamp.
LEMMA SetNormalizedWithin ==
    ASSUME NEW s, NEW f, Proper(s)
    PROVE  Within(SetNormalized(s, f), s)
<1> DEFINE p == Prune(s)
           b == [p.recs[f] EXCEPT !.bodies = @ \cup {"normalized"}]
           r == Stamp(b, "normalization")
<1>1. Proper(p)
  BY PruneWithin, WithinProper
<1>2. f \in DOMAIN p.recs =>
          RecordShape(b) /\ b.status = p.recs[f].status /\ b.started = p.recs[f].started
  BY <1>1, FieldsShape DEF Proper
<1>3. f \in DOMAIN p.recs =>
          RecordShape(r) /\ r.status = p.recs[f].status /\ r.started = p.recs[f].started
  <2> HIDE DEF b, p
  <2> QED
    BY <1>2, StampShape
<1>4. Within(IF f \in DOMAIN p.recs THEN Put(p, f, r) ELSE p, p)
  BY <1>1, <1>3, EditWithin
<1> QED
  BY <1>4, EvictedWithin DEF SetNormalized, Update

\* Any other body.
LEMMA AddBodyWithin ==
    ASSUME NEW s, NEW f, NEW b, Proper(s)
    PROVE  Within(AddBody(s, f, b), Prune(s))
<1> DEFINE p == Prune(s)
           r == [p.recs[f] EXCEPT !.bodies = @ \cup {b}]
<1>1. Proper(p)
  BY PruneWithin, WithinProper
<1>2. f \in DOMAIN p.recs =>
          RecordShape(r) /\ r.status = p.recs[f].status /\ r.started = p.recs[f].started
  BY <1>1, FieldsShape DEF Proper
<1>3. Within(IF f \in DOMAIN p.recs THEN Put(p, f, r) ELSE p, p)
  BY <1>1, <1>2, EditWithin
<1> QED
  BY <1>3 DEF AddBody, Update

\* The leaf's request and the upstream's error body.
LEMMA SetUpstreamWithin ==
    ASSUME NEW s, NEW f, Proper(s)
    PROVE  Within(SetUpstream(s, f), s) /\ Within(SetUpstreamResponse(s, f), s)
<1>1. Within(Prune(s), Prune(s))
  BY PruneWithin, WithinProper, SelfWithin
<1> QED
  BY <1>1, AddBodyWithin, EvictedWithin DEF SetUpstream, SetUpstreamResponse

\* Usage and the attempt trace.
LEMMA MeasureWithin ==
    ASSUME NEW s, NEW f, Proper(s)
    PROVE  Within(RecordUsage(s, f), s) /\ Within(RecordAttempts(s, f), s)
<1> DEFINE p == Prune(s)
           r == [p.recs[f] EXCEPT !.attempts = TRUE]
<1>1. Proper(p)
  BY PruneWithin, WithinProper
<1>2. f \in DOMAIN p.recs =>
          RecordShape(r) /\ r.status = p.recs[f].status /\ r.started = p.recs[f].started
  BY <1>1, FieldsShape DEF Proper
<1>3. Within(IF f \in DOMAIN p.recs THEN Put(p, f, r) ELSE p, p)
  BY <1>1, <1>2, EditWithin
<1>4. Within(IF f \in DOMAIN p.recs THEN Put(p, f, p.recs[f]) ELSE p, p)
  BY <1>1, EditWithin DEF Proper
<1> QED
  BY <1>3, <1>4, EvictedWithin DEF RecordUsage, RecordAttempts, Update

-----------------------------------------------------------------------------
(* What records hold together.                                             *)

Held(recs, ids) == UNION {{f} \X Parts(recs[f]) : f \in ids}
HeldBodies(recs, ids) == UNION {{f} \X recs[f].bodies : f \in ids}

\* Disjoint sets are counted together.
LEMMA CountedApart ==
    ASSUME NEW A, NEW B, IsFiniteSet(A), IsFiniteSet(B), A \cap B = {}
    PROVE  Cardinality(A \cup B) = Cardinality(A) + Cardinality(B)
<1>1. Cardinality(A) \in Nat /\ Cardinality(B) \in Nat
  BY FS_CardinalityType
<1>2. Cardinality(A \cap B) = 0
  BY FS_EmptySet
<1>3. Cardinality(A \cup B) = Cardinality(A) + Cardinality(B) - Cardinality(A \cap B)
  BY ONLY IsFiniteSet(A), IsFiniteSet(B), FS_Union
<1> QED
  BY ONLY <1>1, <1>2, <1>3

LEMMA PartsAreFinite ==
    /\ IsFiniteSet(Bodies \cup {"summary", "attempts"})
    /\ \A r : r.bodies \subseteq Bodies =>
          Parts(r) \in SUBSET (Bodies \cup {"summary", "attempts"})
<1>1. IsFiniteSet(Bodies)
  <2>1. Bodies = (({"inbound"} \cup {"normalized"}) \cup {"upstream"}) \cup {"response"}
    BY DEF Bodies
  <2> QED
    BY ONLY <2>1, FS_Singleton, FS_Union
<1>2. IsFiniteSet(Bodies \cup {"summary", "attempts"})
  <2>1. Bodies \cup {"summary", "attempts"} = (Bodies \cup {"summary"}) \cup {"attempts"}
    OBVIOUS
  <2> QED
    BY <1>1, <2>1, FS_Singleton, FS_Union
<1> QED
  BY <1>2 DEF Parts

\* There are finitely many parts.
LEMMA HeldIsFinite ==
    ASSUME NEW recs, NEW ids, ids \subseteq Flows,
           \A f \in ids : recs[f].bodies \subseteq Bodies
    PROVE  /\ IsFiniteSet(Held(recs, ids)) /\ IsFiniteSet(HeldBodies(recs, ids))
           /\ Total(recs, ids) \in Nat /\ BodyBytes(recs, ids) \in Nat
<1> DEFINE all == Bodies \cup {"summary", "attempts"}
<1>2. IsFiniteSet(all)
  BY PartsAreFinite
<1>3. IsFiniteSet(Flows \X all)
  BY <1>2, FS_Product, StoreAssumption
<1>4. \A f \in ids : Parts(recs[f]) \subseteq all
  BY PartsAreFinite
<1> HIDE DEF all
<1>5. Held(recs, ids) \in SUBSET (Flows \X all)
  BY <1>4 DEF Held
<1>6. IsFiniteSet(Held(recs, ids))
  BY <1>3, <1>5, FS_Subset
<1>7. HeldBodies(recs, ids) \in SUBSET (Flows \X all)
  BY DEF HeldBodies, all
<1>8. IsFiniteSet(HeldBodies(recs, ids))
  BY <1>3, <1>7, FS_Subset
<1>9. Total(recs, ids) \in Nat
  BY <1>6, FS_CardinalityType DEF Total, Held
<1>10. BodyBytes(recs, ids) \in Nat
  BY <1>8, FS_CardinalityType DEF BodyBytes, HeldBodies
<1> QED
  BY <1>6, <1>8, <1>9, <1>10

\* What two groups of flows hold.
LEMMA TotalSplits ==
    ASSUME NEW recs, NEW a, NEW b, a \subseteq Flows, b \subseteq Flows, a \cap b = {},
           \A f \in a \cup b : recs[f].bodies \subseteq Bodies
    PROVE  Total(recs, a \cup b) = Total(recs, a) + Total(recs, b)
<1>1. IsFiniteSet(Held(recs, a)) /\ IsFiniteSet(Held(recs, b))
  BY HeldIsFinite
<1>2. Held(recs, a \cup b) = Held(recs, a) \cup Held(recs, b)
  BY DEF Held
<1>3. Held(recs, a) \cap Held(recs, b) = {}
  BY DEF Held
<1>4. Cardinality(Held(recs, a) \cup Held(recs, b))
          = Cardinality(Held(recs, a)) + Cardinality(Held(recs, b))
  BY <1>1, <1>3, CountedApart
<1> QED
  BY ONLY <1>2, <1>4 DEF Total, Held

\* Only the parts count.
LEMMA TotalIsOfParts ==
    ASSUME NEW recs, NEW others, NEW ids,
           \A f \in ids : Parts(recs[f]) = Parts(others[f])
    PROVE  Total(recs, ids) = Total(others, ids)
<1>1. {{f} \X Parts(recs[f]) : f \in ids} = {{f} \X Parts(others[f]) : f \in ids}
  OBVIOUS
<1> QED
  BY <1>1 DEF Total

LEMMA TotalOfOne ==
    ASSUME NEW recs, NEW f \in Flows, recs[f].bodies \subseteq Bodies
    PROVE  Total(recs, {f}) = Bytes(recs[f]) /\ Bytes(recs[f]) \in Nat
<1> DEFINE P == Parts(recs[f])
<1>1. Held(recs, {f}) = {f} \X P
  BY DEF Held
<1>2. IsFiniteSet(Held(recs, {f})) /\ Total(recs, {f}) \in Nat
  BY HeldIsFinite
<1>4. IsFiniteSet(P)
  BY PartsAreFinite, FS_Subset
<1>5. IsFiniteSet({f}) /\ Cardinality({f}) = 1
  BY FS_Singleton
<1>6. Cardinality(P) \in Nat
  BY <1>4, FS_CardinalityType
<1>7. Cardinality({f} \X P) = 1 * Cardinality(P)
  BY <1>4, <1>5, FS_Product
<1>8. Total(recs, {f}) = Cardinality({f} \X P)
  BY <1>1 DEF Total, Held
<1> QED
  BY <1>6, <1>7, <1>8 DEF Bytes

LEMMA TotalOfNone ==
    ASSUME NEW recs
    PROVE  Total(recs, {}) = 0
<1>1. UNION {{f} \X Parts(recs[f]) : f \in {}} = {}
  OBVIOUS
<1> QED
  BY <1>1, FS_EmptySet DEF Total

\* Shedding bodies takes their bytes and nothing else.
LEMMA StrippedTotal ==
    ASSUME NEW recs, NEW ids, DOMAIN recs \subseteq Flows, ids \subseteq DOMAIN recs,
           \A f \in DOMAIN recs : recs[f] \in Record
    PROVE  Total(recs, DOMAIN recs)
              = Total(Stripped(recs, ids), DOMAIN recs) + BodyBytes(recs, ids)
<1> DEFINE D == DOMAIN recs
           left == Stripped(recs, ids)
<1>1. \A f \in D : recs[f].bodies \subseteq Bodies
  BY DEF Record
<1>2. \A f \in D : left[f].bodies = IF f \in ids THEN {} ELSE recs[f].bodies
  BY DEF Stripped, Record
<1>3. \A f \in D : left[f].attempts = recs[f].attempts
  BY DEF Stripped, Record
<1>4. \A f \in D : Parts(recs[f])
          = Parts(left[f]) \cup (IF f \in ids THEN recs[f].bodies ELSE {})
  BY <1>2, <1>3 DEF Parts
<1>5. \A f \in ids : Parts(left[f]) \cap recs[f].bodies = {}
  BY <1>1, <1>2 DEF Parts, Bodies
<1>6. \A f \in D : left[f].bodies \subseteq Bodies
  BY <1>1, <1>2
<1> HIDE DEF left
<1>7. IsFiniteSet(Held(left, D))
  BY <1>6, HeldIsFinite
<1>8. IsFiniteSet(HeldBodies(recs, ids))
  <2>1. ids \subseteq Flows /\ \A f \in ids : recs[f].bodies \subseteq Bodies
    BY <1>1
  <2> QED
    BY <2>1, HeldIsFinite
<1>9. Held(recs, D) = Held(left, D) \cup HeldBodies(recs, ids)
  <2>1. ASSUME NEW x \in Held(recs, D)
        PROVE  x \in Held(left, D) \cup HeldBodies(recs, ids)
    <3>1. PICK f \in D : x \in {f} \X Parts(recs[f])
      BY DEF Held
    <3>2. x \in {f} \X Parts(left[f]) \/ (f \in ids /\ x \in {f} \X recs[f].bodies)
      BY <1>4, <3>1
    <3> QED
      BY <3>2 DEF Held, HeldBodies
  <2>2. ASSUME NEW x \in Held(left, D)
        PROVE  x \in Held(recs, D)
    BY <1>4 DEF Held
  <2>3. ASSUME NEW x \in HeldBodies(recs, ids)
        PROVE  x \in Held(recs, D)
    BY <1>4 DEF Held, HeldBodies
  <2> QED
    BY <2>1, <2>2, <2>3
<1>10. Held(left, D) \cap HeldBodies(recs, ids) = {}
  BY <1>5 DEF Held, HeldBodies
<1>11. Cardinality(Held(left, D) \cup HeldBodies(recs, ids))
          = Cardinality(Held(left, D)) + Cardinality(HeldBodies(recs, ids))
  BY <1>7, <1>8, <1>10, CountedApart
<1> QED
  BY ONLY <1>9, <1>11 DEF Total, BodyBytes, Held, HeldBodies, left

-----------------------------------------------------------------------------
(* Stores whose parts agree.                                               *)

\* A store of the right kind.
Made(s) ==
    /\ StoreShape(s) /\ s.seq \in Nat
    /\ s.recs \in [DOMAIN s.recs -> Record] /\ DOMAIN s.recs \subseteq Flows
    /\ s.order \in Seq(Flows)

\* Each of its flows is in the order once.
Aligned(s) ==
    /\ Len(s.order) = Cardinality(DOMAIN s.recs)
    /\ {s.order[i] : i \in 1..Len(s.order)} = DOMAIN s.recs

InPhase(r) ==
    \A i, j \in 1..Len(Phases) :
        i < j /\ r.phases[Phases[j]] # 0 => r.phases[Phases[i]] <= r.phases[Phases[j]]

Indexed(s) == s.links = {f \in DOMAIN s.recs : s.recs[f].linked}

\* What holds within an operation: all but the index and the limits.
Agrees(s) ==
    /\ Made(s)
    /\ Aligned(s)
    /\ s.bytes = Total(s.recs, DOMAIN s.recs)
    /\ \A f \in DOMAIN s.recs : InPhase(s.recs[f])

Limited(s) == s.bytes <= Quota /\ Len(s.order) <= Cap

\* So many places, so many flows.
LEMMA PlacesAreFlows ==
    ASSUME NEW s, Made(s), Aligned(s), NEW K \in SUBSET (1..Len(s.order))
    PROVE  /\ IsFiniteSet(K)
           /\ Cardinality({s.order[k] : k \in K}) = Cardinality(K)
           /\ \A i, j \in 1..Len(s.order) : s.order[i] = s.order[j] => i = j
<1> DEFINE n == Len(s.order)
           D == DOMAIN s.recs
           order == s.order
           G == {order[k] : k \in K}
           g == [k \in K |-> order[k]]
<1>1. n \in Nat /\ order \in [1..n -> Flows]
  BY DEF Made
<1>2. \A d \in D : \E k \in 1..n : order[k] = d
  BY DEF Aligned
<1>3. \A k \in 1..n : order[k] \in D
  BY DEF Aligned
<1>4. Cardinality(D) = n
  BY DEF Aligned
<1> HIDE DEF n, D, order
<1>5. order \in Surjection(1..n, D)
  BY <1>1, <1>2, <1>3 DEF Surjection
<1>6. IsFiniteSet(1..n) /\ Cardinality(1..n) = n
  BY <1>1, FS_Interval
<1>7. order \in Injection(1..n, D)
  <2>1. Cardinality(1..n) = Cardinality(D)
    BY <1>4, <1>6
  <2> QED
    BY ONLY <1>5, <1>6, <2>1, FS_SurjSameCardinalityImpliesInj
<1>8. \A i, j \in 1..n : order[i] = order[j] => i = j
  BY <1>7 DEF Injection, IsInjective
<1>9. IsFiniteSet(K) /\ K \subseteq 1..n
  BY <1>6, FS_Subset DEF n
<1>10. g \in Surjection(K, G)
  BY DEF Surjection
<1>11. g \in [K -> G] /\ \A i, j \in K : g[i] = g[j] => i = j
  BY <1>8, <1>9
<1> HIDE DEF g, G
<1>12. g \in Injection(K, G)
  BY <1>11 DEF Injection, IsInjective
<1>13. Cardinality(G) = Cardinality(K)
  BY ONLY <1>9, <1>10, <1>12, FS_Surjection
<1> QED
  BY <1>8, <1>9, <1>13 DEF G, n, order

\* What removal leaves of the order.
LEMMA WithoutFacts ==
    ASSUME NEW s, Made(s), Aligned(s), NEW gone
    PROVE  LET order == Without(s.order, gone)
           IN  /\ order \in Seq(Flows)
               /\ Len(order) = Cardinality(DOMAIN s.recs \ gone)
               /\ {order[i] : i \in 1..Len(order)} = DOMAIN s.recs \ gone
<1> DEFINE n == Len(s.order)
           K == {k \in DOMAIN s.order : s.order[k] \notin gone}
           left == {s.order[k] : k \in K}
           order == Picked(s.order, K)
<1>1. n \in Nat /\ DOMAIN s.order = 1..n
  BY DEF Made
<1>2. K \in SUBSET (1..n) /\ K \in SUBSET Nat
  BY <1>1
<1>3. left = DOMAIN s.recs \ gone
  BY <1>1 DEF Aligned
<1> HIDE DEF K
<1>4. IsFiniteSet(K) /\ Cardinality(left) = Cardinality(K)
  BY <1>2, PlacesAreFlows
<1>5. order \in Seq(left) /\ Len(order) = Cardinality(K)
  BY <1>2, <1>4, PickedFacts
<1>6. {order[i] : i \in 1..Cardinality(K)} = left
  BY <1>2, <1>4, PickedRange
<1>7. left \subseteq Flows
  BY <1>3 DEF Made
<1> HIDE DEF order, left
<1>8. order \in Seq(Flows)
  BY <1>5, <1>7, SeqsGrow
<1>9. Without(s.order, gone) = order
  BY DEF Without, order, K
<1> QED
  BY <1>3, <1>4, <1>5, <1>6, <1>8, <1>9

\* Removal keeps what it leaves in agreement.
LEMMA RemoveAgrees ==
    ASSUME NEW s, Agrees(s), NEW gone, gone \subseteq DOMAIN s.recs
    PROVE  LET t == Remove(s, gone)
           IN  /\ Agrees(t)
               /\ t.recs = [f \in DOMAIN s.recs \ gone |-> s.recs[f]]
               /\ t.links = s.links \ gone
<1> DEFINE D == DOMAIN s.recs
           t == Remove(s, gone)
           u == RemoveKeepsLinks(s, gone)
           recs == [f \in D \ gone |-> s.recs[f]]
<1>1. CASE gone = {}
  <2>1. s.recs = [f \in D |-> s.recs[f]]
    BY DEF Agrees, Made
  <2> QED
    BY <1>1, <2>1 DEF Remove
<1>2. CASE gone # {}
  <2>1. /\ StoreShape(u)
        /\ u.recs = recs /\ u.order = Without(s.order, gone) /\ u.links = s.links
        /\ u.bytes = Minus(s.bytes, Total(s.recs, gone))
        /\ u.seq = s.seq + Cardinality(gone)
    <3>1. Restrict(s.recs, D \ gone) = recs
      BY DEF Restrict
    <3> DEFINE order == Without(s.order, gone)
               bytes == Minus(s.bytes, Total(s.recs, gone))
               seq   == s.seq + Cardinality(gone)
    <3>2. u = [recs |-> recs, order |-> order, links |-> s.links, bytes |-> bytes, seq |-> seq]
      BY <3>1 DEF RemoveKeepsLinks
    <3> HIDE DEF u, recs, order, bytes, seq
    <3>3. /\ StoreShape(u)
          /\ u.recs = recs /\ u.order = order /\ u.links = s.links
          /\ u.bytes = bytes /\ u.seq = seq
      BY ONLY <3>2 DEF StoreShape
    <3> QED
      BY <3>3 DEF order, bytes, seq
  <2>2. t = [u EXCEPT !.links = @ \ gone]
    BY <1>2 DEF Remove
  <2> HIDE DEF u, t
  <2>3. /\ StoreShape(t)
        /\ t.recs = recs /\ t.order = Without(s.order, gone) /\ t.links = s.links \ gone
        /\ t.bytes = Minus(s.bytes, Total(s.recs, gone))
        /\ t.seq = s.seq + Cardinality(gone)
    BY <2>1, <2>2 DEF StoreShape
  <2>4. Made(s) /\ Aligned(s)
    BY DEF Agrees
  <2>5. D \subseteq Flows /\ gone \subseteq Flows /\ \A f \in D : s.recs[f] \in Record
    BY <2>4 DEF Made
  <2>6. t.seq \in Nat
    <3>1. Cardinality(gone) \in Nat
      BY <2>5, StoreAssumption, FS_Subset, FS_CardinalityType
    <3>2. s.seq \in Nat
      BY <2>4 DEF Made
    <3> QED
      BY <2>3, <3>1, <3>2
  <2>7. DOMAIN t.recs = D \ gone
    BY <2>3
  <2>8. t.recs \in [DOMAIN t.recs -> Record]
    <3>1. recs \in [D \ gone -> Record]
      BY <2>5
    <3> QED
      BY <2>3, <2>7, <3>1
  <2>9. t.order \in Seq(Flows) /\ Aligned(t)
    <3> DEFINE order == Without(s.order, gone)
    <3>1. /\ order \in Seq(Flows) /\ Len(order) = Cardinality(D \ gone)
          /\ {order[i] : i \in 1..Len(order)} = D \ gone
      BY <2>4, WithoutFacts
    <3>2. t.order = order
      BY <2>3
    <3> HIDE DEF order, D
    <3> QED
      BY ONLY <2>7, <3>1, <3>2 DEF Aligned
  <2>10. Made(t)
    BY <2>3, <2>5, <2>6, <2>7, <2>8, <2>9 DEF Made
  <2>11. t.bytes = Total(t.recs, DOMAIN t.recs)
    <3>1. \A f \in D : s.recs[f].bodies \subseteq Bodies
      BY <2>5 DEF Record
    <3>2. D = (D \ gone) \cup gone
      OBVIOUS
    <3>3. Total(s.recs, D) = Total(s.recs, D \ gone) + Total(s.recs, gone)
      <4>1. Total(s.recs, (D \ gone) \cup gone) = Total(s.recs, D \ gone) + Total(s.recs, gone)
        <5> DEFINE a == D \ gone
        <5>1. a \subseteq Flows /\ a \cap gone = {} /\ \A f \in a \cup gone : s.recs[f].bodies \subseteq Bodies
          BY <2>5, <3>1
        <5> HIDE DEF a
        <5>2. Total(s.recs, a \cup gone) = Total(s.recs, a) + Total(s.recs, gone)
          BY <2>5, <5>1, TotalSplits
        <5> QED
          BY <5>2 DEF a
      <4> QED
        BY <3>2, <4>1
    <3>4. Total(s.recs, D \ gone) \in Nat
      <4> DEFINE a == D \ gone
      <4>1. a \subseteq Flows /\ \A f \in a : s.recs[f].bodies \subseteq Bodies
        BY <2>5, <3>1
      <4> HIDE DEF a
      <4>2. Total(s.recs, a) \in Nat
        BY <4>1, HeldIsFinite
      <4> QED
        BY <4>2 DEF a
    <3>5. Total(s.recs, gone) \in Nat
      BY <2>5, <3>1, HeldIsFinite
    <3>6. Total(recs, D \ gone) = Total(s.recs, D \ gone)
      <4>1. \A f \in D \ gone : Parts(recs[f]) = Parts(s.recs[f])
        OBVIOUS
      <4> HIDE DEF recs
      <4> QED
        BY <4>1, TotalIsOfParts
    <3>7. s.bytes = Total(s.recs, D)
      BY DEF Agrees
    <3> HIDE DEF D, recs
    <3> QED
      BY <2>3, <2>7, <3>3, <3>4, <3>5, <3>6, <3>7 DEF Minus
  <2>12. \A f \in DOMAIN t.recs : InPhase(t.recs[f])
    <3>1. \A f \in D \ gone : t.recs[f] = s.recs[f]
      BY <2>3
    <3> QED
      BY <2>7, <3>1 DEF Agrees
  <2>13. Agrees(t)
    BY <2>9, <2>10, <2>11, <2>12 DEF Agrees
  <2> QED
    BY <2>3, <2>13 DEF t
<1> QED
  BY <1>1, <1>2

\* Shedding bodies keeps a store in agreement.
LEMMA StripAgrees ==
    ASSUME NEW s, Agrees(s), NEW ids, ids \subseteq DOMAIN s.recs
    PROVE  LET t == Strip(s, ids)
           IN  /\ Agrees(t)
               /\ t.order = s.order /\ t.links = s.links
               /\ DOMAIN t.recs = DOMAIN s.recs
               /\ \A f \in DOMAIN s.recs : t.recs[f].linked = s.recs[f].linked
<1> DEFINE D == DOMAIN s.recs
           t == Strip(s, ids)
           recs == Stripped(s.recs, ids)
<1>1. Made(s) /\ Aligned(s) /\ s.bytes = Total(s.recs, D) /\ \A f \in D : InPhase(s.recs[f])
  BY DEF Agrees
<1>2. D \subseteq Flows /\ \A f \in D : s.recs[f] \in Record
  BY <1>1 DEF Made
<1>3. /\ StoreShape(t)
      /\ t.recs = recs /\ t.order = s.order /\ t.links = s.links /\ t.seq = s.seq
      /\ t.bytes = Minus(s.bytes, BodyBytes(s.recs, ids))
  <2>1. StoreShape(s)
    BY <1>1 DEF Made
  <2> DEFINE b == BodyBytes(s.recs, ids)
             m == Minus(s.bytes, b)
  <2>2. t = [[s EXCEPT !.recs = recs] EXCEPT !.bytes = m]
    BY <2>1 DEF Strip, StoreShape
  <2> HIDE DEF t, recs, m
  <2>3. /\ StoreShape(t)
        /\ t.recs = recs /\ t.order = s.order /\ t.links = s.links /\ t.seq = s.seq
        /\ t.bytes = m
    BY <2>1, <2>2 DEF StoreShape
  <2> QED
    BY <2>3 DEF m
<1>4. DOMAIN recs = D /\ DOMAIN t.recs = D
  BY <1>3 DEF Stripped
<1>5. ASSUME NEW f \in D
      PROVE  /\ recs[f] \in Record /\ InPhase(recs[f])
             /\ recs[f].linked = s.recs[f].linked
  <2> DEFINE r == s.recs[f]
  <2>1. recs[f] = IF f \in ids THEN [r EXCEPT !.bodies = {}] ELSE r
    BY DEF Stripped
  <2>2. r \in Record /\ InPhase(r)
    BY <1>1, <1>2
  <2> HIDE DEF r
  <2>3. [r EXCEPT !.bodies = {}] \in Record
    BY <2>2 DEF Record
  <2>4. /\ [r EXCEPT !.bodies = {}].linked = r.linked
        /\ [r EXCEPT !.bodies = {}].phases = r.phases
    BY <2>2 DEF Record
  <2>5. InPhase([r EXCEPT !.bodies = {}])
    BY <2>2, <2>4 DEF InPhase
  <2> QED
    BY <2>1, <2>2, <2>3, <2>4, <2>5 DEF r
<1>6. recs \in [D -> Record]
  <2>1. recs = [f \in D |-> recs[f]]
    BY DEF Stripped
  <2> HIDE DEF recs
  <2> QED
    BY <1>5, <2>1
<1>7. Made(t)
  BY <1>1, <1>2, <1>3, <1>4, <1>6 DEF Made
<1>8. Aligned(t)
  BY <1>1, <1>3, <1>4 DEF Aligned
<1>9. t.bytes = Total(t.recs, DOMAIN t.recs)
  <2>1. Total(s.recs, D) = Total(recs, D) + BodyBytes(s.recs, ids)
    BY <1>2, StrippedTotal
  <2>2. \A f \in D : recs[f].bodies \subseteq Bodies
    BY <1>5 DEF Record
  <2> HIDE DEF D, recs
  <2>3. Total(recs, D) \in Nat
    BY <1>2, <2>2, HeldIsFinite
  <2>4. BodyBytes(s.recs, ids) \in Nat
    <3>1. ids \subseteq Flows /\ \A f \in ids : s.recs[f].bodies \subseteq Bodies
      BY <1>2 DEF Record, D
    <3> QED
      BY <3>1, HeldIsFinite
  <2> QED
    BY <1>1, <1>3, <1>4, <2>1, <2>3, <2>4 DEF Minus
<1>10. Agrees(t)
  BY <1>3, <1>4, <1>5, <1>7, <1>8, <1>9 DEF Agrees
<1> QED
  BY <1>3, <1>4, <1>5, <1>10

\* All of the oldest flows are all flows.
LEMMA OldestAreFlows ==
    ASSUME NEW s, Made(s), Aligned(s), NEW k \in 0..Len(s.order)
    PROVE  /\ Oldest(s, k) \subseteq DOMAIN s.recs
           /\ Cardinality(Oldest(s, k)) = k
           /\ k = Len(s.order) => Oldest(s, k) = DOMAIN s.recs
<1>1. Len(s.order) \in Nat
  BY DEF Made
<1>2. 1..k \in SUBSET (1..Len(s.order))
  BY <1>1
<1>3. Cardinality(1..k) = k
  <2>1. k \in Nat
    BY <1>1
  <2> QED
    BY <2>1, FS_Interval
<1>4. Cardinality({s.order[i] : i \in 1..k}) = Cardinality(1..k)
  BY <1>2, PlacesAreFlows
<1> QED
  BY <1>2, <1>3, <1>4 DEF Oldest, Aligned

\* The quota: bodies are shed and records evicted until it holds.
LEMMA QuotaHolds ==
    ASSUME NEW s, Agrees(s), Indexed(s)
    PROVE  LET t == EnforceQuota(s)
           IN  /\ Agrees(t) /\ Indexed(t) /\ t.bytes <= Quota
               /\ DOMAIN t.recs \subseteq DOMAIN s.recs
<1> DEFINE n == Len(s.order)
           shed == {k \in 0..n : Strip(s, Oldest(s, k)).bytes <= Quota}
           k == BodiesToShed(s)
           t == ShedBodies(s)
<1>1. n \in Nat /\ Made(s) /\ Aligned(s)
  BY DEF Agrees, Made
<1>2. k \in 0..n
  <2>1. \E j \in 0..n : (j \in shed \/ j = n) /\ \A i \in 0..(j - 1) : i \notin shed
    <3> HIDE DEF shed
    <3> QED
      BY <1>1, LeastOrAll
  <2>2. \A j \in 0..n : \A i \in 0..(j - 1) : i \in 0..n
    BY <1>1
  <2>3. \E j \in 0..n : /\ Strip(s, Oldest(s, j)).bytes <= Quota \/ j = n
                        /\ \A i \in 0..(j - 1) : ~(Strip(s, Oldest(s, i)).bytes <= Quota)
    BY <2>1, <2>2
  <2> QED
    BY <2>3 DEF BodiesToShed, Fewest
<1> HIDE DEF k
<1>3. Oldest(s, k) \subseteq DOMAIN s.recs
  BY <1>1, <1>2, OldestAreFlows
<1>4. /\ Agrees(t) /\ t.order = s.order /\ t.links = s.links
      /\ DOMAIN t.recs = DOMAIN s.recs
      /\ \A f \in DOMAIN s.recs : t.recs[f].linked = s.recs[f].linked
  BY <1>3, StripAgrees DEF ShedBodies, k
<1>5. Indexed(t)
  BY <1>4 DEF Indexed
<1> HIDE DEF t
<1> DEFINE gone == {j \in 0..n : Remove(t, Oldest(t, j)).bytes <= Quota}
           e == RecordsToEvict(t)
           u == EvictRecords(t)
<1>6. e \in 0..n /\ (Remove(t, Oldest(t, e)).bytes <= Quota \/ e = n)
  <2>1. \E j \in 0..n : (j \in gone \/ j = n) /\ \A i \in 0..(j - 1) : i \notin gone
    <3> HIDE DEF gone
    <3> QED
      BY <1>1, LeastOrAll
  <2>2. \A j \in 0..n : \A i \in 0..(j - 1) : i \in 0..n
    BY <1>1
  <2>3. \E j \in 0..n : /\ Remove(t, Oldest(t, j)).bytes <= Quota \/ j = n
                        /\ \A i \in 0..(j - 1) : ~(Remove(t, Oldest(t, i)).bytes <= Quota)
    BY <2>1, <2>2
  <2>4. n = Len(t.order)
    BY <1>4
  <2> QED
    BY <2>3, <2>4 DEF RecordsToEvict, Fewest
<1> HIDE DEF e
<1>7. Made(t) /\ Aligned(t) /\ e \in 0..Len(t.order)
  BY <1>4, <1>6 DEF Agrees
<1>8. /\ Oldest(t, e) \subseteq DOMAIN t.recs
      /\ e = n => Oldest(t, e) = DOMAIN t.recs
  BY <1>4, <1>7, OldestAreFlows
<1>9. u = Remove(t, Oldest(t, e))
  BY DEF EvictRecords, e
<1>10. /\ Agrees(u)
       /\ u.recs = [f \in DOMAIN t.recs \ Oldest(t, e) |-> t.recs[f]]
       /\ u.links = t.links \ Oldest(t, e)
  <2> DEFINE old == Oldest(t, e)
  <2>1. Agrees(t) /\ old \subseteq DOMAIN t.recs
    BY <1>4, <1>8
  <2> HIDE DEF old, u
  <2>2. /\ Agrees(Remove(t, old))
        /\ Remove(t, old).recs = [f \in DOMAIN t.recs \ old |-> t.recs[f]]
        /\ Remove(t, old).links = t.links \ old
    BY <2>1, RemoveAgrees
  <2> QED
    BY <1>9, <2>2 DEF old
<1> HIDE DEF u
<1>11. Indexed(u)
  BY <1>5, <1>10 DEF Indexed
<1>12. u.bytes <= Quota
  <2>1. CASE e = n
    <3>1. DOMAIN u.recs = {}
      BY <1>8, <1>10, <2>1
    <3>2. u.bytes = 0
      BY <1>10, <3>1, TotalOfNone DEF Agrees
    <3> QED
      BY <3>2, StoreAssumption
  <2> QED
    BY <1>6, <1>9, <2>1
<1>13. DOMAIN u.recs \subseteq DOMAIN s.recs
  BY <1>4, <1>10
<1> QED
  BY <1>10, <1>11, <1>12, <1>13 DEF EnforceQuota, u, t

\* The caps: a store whose parts agree is within its limits afterwards.
LEMMA CapsHold ==
    ASSUME NEW s, Agrees(s), Indexed(s)
    PROVE  LET t == EnforceCaps(s)
           IN  Agrees(t) /\ Indexed(t) /\ Limited(t)
<1> DEFINE n == Len(s.order)
           D == DOMAIN s.recs
           k == Minus(n, Cap)
           r == Remove(s, Oldest(s, k))
           t == EnforceQuota(r)
<1>1. n \in Nat /\ Made(s) /\ Aligned(s) /\ Cap \in Nat
  BY StoreAssumption DEF Agrees, Made
<1>2. k \in 0..n /\ n - k <= Cap
  <2> HIDE DEF n
  <2> QED
    BY <1>1 DEF Minus
<1> HIDE DEF k
<1>3. Oldest(s, k) \subseteq D /\ Cardinality(Oldest(s, k)) = k
  BY <1>1, <1>2, OldestAreFlows
<1>4. /\ Agrees(r)
      /\ r.recs = [f \in D \ Oldest(s, k) |-> s.recs[f]]
      /\ r.links = s.links \ Oldest(s, k)
  BY <1>3, RemoveAgrees
<1> HIDE DEF r
<1>5. Indexed(r)
  BY <1>4 DEF Indexed
<1>6. Agrees(t) /\ Indexed(t) /\ t.bytes <= Quota /\ DOMAIN t.recs \subseteq DOMAIN r.recs
  BY <1>4, <1>5, QuotaHolds
<1> HIDE DEF t
<1>7. IsFiniteSet(D) /\ Cardinality(D) = n
  BY <1>1, StoreAssumption, FS_Subset DEF Made, Aligned
<1>8. Cardinality(D \ Oldest(s, k)) = n - k
  <2>1. D \cap Oldest(s, k) = Oldest(s, k)
    BY <1>3
  <2> HIDE DEF D, n
  <2>2. Cardinality(D \ Oldest(s, k)) = Cardinality(D) - Cardinality(D \cap Oldest(s, k))
    BY ONLY <1>7, FS_Difference
  <2> QED
    BY <1>3, <1>7, <2>1, <2>2
<1>9. Len(t.order) <= Cap
  <2>1. DOMAIN r.recs = D \ Oldest(s, k)
    BY <1>4
  <2>2. IsFiniteSet(DOMAIN r.recs)
    BY <1>7, <2>1, FS_Subset
  <2>3. Cardinality(DOMAIN t.recs) <= n - k
    <3>1. Cardinality(DOMAIN t.recs) <= Cardinality(DOMAIN r.recs)
      BY <1>6, <2>2, FS_Subset
    <3> QED
      BY <1>8, <2>1, <3>1
  <2>4. Len(t.order) = Cardinality(DOMAIN t.recs) /\ Len(t.order) \in Nat
    BY <1>6 DEF Agrees, Aligned, Made
  <2> HIDE DEF n
  <2> QED
    BY <1>1, <1>2, <2>3, <2>4
<1>10. EnforceCaps(s) = t
  BY DEF EnforceCaps, t, r, k
<1> QED
  BY <1>6, <1>9, <1>10 DEF Limited

-----------------------------------------------------------------------------
(* The operations keep the parts of a store in agreement.                  *)

\* What holds of a store whenever its lock is free.
Sound(s) == Agrees(s) /\ Indexed(s) /\ Limited(s)

\* Expiry.
LEMMA PruneSound ==
    ASSUME NEW s, Sound(s)
    PROVE  /\ Sound(Prune(s))
           /\ \A f \in DOMAIN Prune(s).recs : /\ f \in DOMAIN s.recs
                                              /\ Prune(s).recs[f] = s.recs[f]
<1> DEFINE D == DOMAIN s.recs
           gone == {f \in D : s.recs[f].started < Minus(clock, Ttl)}
           t == Prune(s)
<1>1. t = Remove(s, gone) /\ gone \subseteq D /\ Agrees(s)
  BY DEF Prune, Sound
<1> HIDE DEF gone, t
<1>2. Agrees(t) /\ t.recs = [f \in D \ gone |-> s.recs[f]] /\ t.links = s.links \ gone
  BY <1>1, RemoveAgrees
<1>3. Indexed(t)
  BY <1>2 DEF Indexed, Sound
<1>4. t.bytes <= Quota
  <2>1. DOMAIN t.recs = D \ gone
    BY <1>2
  <2>2. \A f \in D : s.recs[f].bodies \subseteq Bodies
    BY <1>1 DEF Agrees, Made, Record
  <2>3. D \subseteq Flows
    BY <1>1 DEF Agrees, Made
  <2> DEFINE left == D \ gone
  <2>4. left \subseteq Flows /\ left \cap gone = {} /\ D = left \cup gone /\ gone \subseteq Flows
    BY <1>1, <2>3
  <2>5. /\ \A f \in left \cup gone : s.recs[f].bodies \subseteq Bodies
        /\ \A f \in left : s.recs[f].bodies \subseteq Bodies
        /\ \A f \in gone : s.recs[f].bodies \subseteq Bodies
    BY <2>2, <2>4
  <2>6. \A f \in left : Parts(t.recs[f]) = Parts(s.recs[f])
    BY <1>2
  <2> HIDE DEF left, D
  <2>7. Total(s.recs, left \cup gone) = Total(s.recs, left) + Total(s.recs, gone)
    BY <2>4, <2>5, TotalSplits
  <2>8. Total(s.recs, left) \in Nat
    BY <2>4, <2>5, HeldIsFinite
  <2>9. Total(s.recs, gone) \in Nat
    BY <2>4, <2>5, HeldIsFinite
  <2>10. Total(t.recs, left) = Total(s.recs, left)
    BY <2>6, TotalIsOfParts
  <2>11. t.bytes = Total(t.recs, left)
    BY <1>2, <2>1 DEF Agrees, left
  <2>12. s.bytes = Total(s.recs, left \cup gone)
    BY <1>1, <2>4 DEF Agrees, D
  <2>13. s.bytes <= Quota /\ Quota \in Nat
    BY StoreAssumption DEF Sound, Limited
  <2> QED
    BY ONLY <2>7, <2>8, <2>9, <2>10, <2>11, <2>12, <2>13
<1>5. Len(t.order) <= Cap
  <2>1. Made(s) /\ Aligned(s) /\ Made(t) /\ Aligned(t) /\ Len(s.order) <= Cap /\ Cap \in Nat
    BY <1>1, <1>2, StoreAssumption DEF Agrees, Sound, Limited
  <2>2. IsFiniteSet(D)
    BY <2>1, StoreAssumption, FS_Subset DEF Made
  <2>3. DOMAIN t.recs \subseteq D
    BY <1>2
  <2>4. Cardinality(DOMAIN t.recs) <= Cardinality(D)
    BY <2>2, <2>3, FS_Subset
  <2>5. Len(t.order) \in Nat /\ Len(s.order) \in Nat
    BY <2>1 DEF Made
  <2> QED
    BY <2>1, <2>4, <2>5 DEF Aligned
<1>6. \A f \in DOMAIN t.recs : f \in D /\ t.recs[f] = s.recs[f]
  BY <1>2
<1> QED
  BY <1>2, <1>3, <1>4, <1>5, <1>6 DEF Sound, Limited, t

\* Replacing a record.
LEMMA PutAgrees ==
    ASSUME NEW s, Agrees(s), NEW f \in DOMAIN s.recs,
           NEW r, r \in Record, InPhase(r)
    PROVE  LET t == Put(s, f, r)
           IN  /\ Agrees(t)
               /\ t.links = s.links /\ t.order = s.order
               /\ DOMAIN t.recs = DOMAIN s.recs
               /\ t.recs[f].linked = r.linked
               /\ \A g \in DOMAIN s.recs : g # f => t.recs[g] = s.recs[g]
               /\ t.bytes = Minus(s.bytes, Bytes(s.recs[f])) + Bytes(r)
<1> DEFINE D == DOMAIN s.recs
           t == Put(s, f, r)
           q == [r EXCEPT !.seq = s.seq + 1]
           recs == [s.recs EXCEPT ![f] = q]
           left == D \ {f}
<1>1. Made(s) /\ Aligned(s) /\ s.bytes = Total(s.recs, D) /\ \A g \in D : InPhase(s.recs[g])
  BY DEF Agrees
<1>2. D \subseteq Flows /\ \A g \in D : s.recs[g] \in Record
  BY <1>1 DEF Made
<1>3. s.seq \in Nat /\ s.seq + 1 \in Nat
  BY <1>1 DEF Made
<1>4. q \in Record
  <2> DEFINE m == s.seq + 1
  <2>1. m \in Nat
    BY <1>3
  <2> HIDE DEF m
  <2>2. [r EXCEPT !.seq = m] \in Record
    BY <2>1 DEF Record
  <2> QED
    BY <2>2 DEF m
<1>5. q.linked = r.linked /\ q.phases = r.phases /\ q.bodies = r.bodies /\ q.attempts = r.attempts
  BY DEF Record
<1>6. InPhase(q) /\ Parts(q) = Parts(r) /\ Bytes(q) = Bytes(r)
  BY <1>5 DEF InPhase, Parts, Bytes
<1>7. /\ StoreShape(t)
      /\ t.recs = recs /\ t.order = s.order /\ t.links = s.links /\ t.seq = s.seq + 1
      /\ t.bytes = Minus(s.bytes, Bytes(s.recs[f])) + Bytes(r)
  <2>1. StoreShape(s)
    BY <1>1 DEF Made
  <2> DEFINE m == Minus(s.bytes, Bytes(s.recs[f])) + Bytes(r)
             n == s.seq + 1
  <2>2. t = [[[s EXCEPT !.recs = recs] EXCEPT !.bytes = m] EXCEPT !.seq = n]
    BY <2>1 DEF Put, StoreShape
  <2> HIDE DEF t, recs, m, n
  <2>3. /\ StoreShape(t)
        /\ t.recs = recs /\ t.order = s.order /\ t.links = s.links /\ t.seq = n
        /\ t.bytes = m
    BY <2>1, <2>2 DEF StoreShape
  <2> QED
    BY <2>3 DEF m, n
<1> HIDE DEF q
<1>8. recs \in [D -> Record]
  <2>1. s.recs \in [D -> Record]
    BY <1>1 DEF Made
  <2> QED
    BY <1>4, <2>1
<1>9. DOMAIN recs = D /\ recs[f] = q /\ \A g \in D : g # f => recs[g] = s.recs[g]
  <2>1. s.recs \in [D -> Record]
    BY <1>1 DEF Made
  <2> QED
    BY <2>1
<1> HIDE DEF recs, t
<1>10. Made(t)
  BY <1>1, <1>2, <1>3, <1>7, <1>8, <1>9 DEF Made
<1>11. Aligned(t)
  BY <1>1, <1>7, <1>9 DEF Aligned
<1>12. t.bytes = Total(recs, D)
  <2>1. /\ \A g \in D : s.recs[g].bodies \subseteq Bodies
        /\ \A g \in D : recs[g].bodies \subseteq Bodies
    BY <1>2, <1>8 DEF Record
  <2>2. left \subseteq Flows /\ {f} \subseteq Flows /\ left \cap {f} = {} /\ D = left \cup {f}
    BY <1>2
  <2>3. /\ \A g \in left \cup {f} : s.recs[g].bodies \subseteq Bodies
        /\ \A g \in left \cup {f} : recs[g].bodies \subseteq Bodies
        /\ \A g \in left : s.recs[g].bodies \subseteq Bodies
    BY <2>1
  <2>4. \A g \in left : Parts(recs[g]) = Parts(s.recs[g])
    BY <1>9
  <2> HIDE DEF left, D
  <2>5. Total(s.recs, left \cup {f}) = Total(s.recs, left) + Total(s.recs, {f})
    BY <2>2, <2>3, TotalSplits
  <2>6. Total(recs, left \cup {f}) = Total(recs, left) + Total(recs, {f})
    BY <2>2, <2>3, TotalSplits
  <2>7. Total(recs, left) = Total(s.recs, left)
    BY <2>4, TotalIsOfParts
  <2>8. Total(s.recs, left) \in Nat
    BY <2>2, <2>3, HeldIsFinite
  <2>9. f \in Flows /\ s.recs[f].bodies \subseteq Bodies /\ recs[f].bodies \subseteq Bodies
    BY <2>2, <2>3
  <2>10. Total(s.recs, {f}) = Bytes(s.recs[f]) /\ Bytes(s.recs[f]) \in Nat
    BY <2>9, TotalOfOne
  <2>11. Total(recs, {f}) = Bytes(r)
    BY <1>6, <1>9, <2>9, TotalOfOne
  <2>12. s.bytes = Total(s.recs, left \cup {f})
    BY <1>1, <2>2 DEF D
  <2>13. t.bytes = Minus(s.bytes, Bytes(s.recs[f])) + Bytes(r)
    BY <1>7
  <2>14. t.bytes = Total(recs, left \cup {f})
    BY ONLY <2>5, <2>6, <2>7, <2>8, <2>10, <2>11, <2>12, <2>13 DEF Minus
  <2> QED
    BY <2>2, <2>14
<1>13. \A g \in DOMAIN t.recs : InPhase(t.recs[g])
  BY <1>1, <1>6, <1>7, <1>9
<1>14. Agrees(t)
  BY <1>7, <1>9, <1>10, <1>11, <1>12, <1>13 DEF Agrees
<1> QED
  BY <1>5, <1>7, <1>9, <1>14 DEF t

\* update, with an edit that keeps the record's link.
LEMMA UpdateAgrees ==
    ASSUME NEW s, Agrees(s), Indexed(s), NEW f, NEW r,
           f \in DOMAIN s.recs =>
               r \in Record /\ InPhase(r) /\ r.linked = s.recs[f].linked
    PROVE  LET t == IF f \in DOMAIN s.recs THEN Put(s, f, r) ELSE s
           IN  /\ Agrees(t) /\ Indexed(t)
               /\ Limited(s) /\ (f \in DOMAIN s.recs => Parts(r) = Parts(s.recs[f]))
                     => Limited(t)
<1>1. CASE f \notin DOMAIN s.recs
  BY <1>1
<1>2. CASE f \in DOMAIN s.recs
  <2> DEFINE t == Put(s, f, r)
  <2>1. /\ Agrees(t)
        /\ t.links = s.links /\ t.order = s.order
        /\ DOMAIN t.recs = DOMAIN s.recs
        /\ t.recs[f].linked = r.linked
        /\ \A g \in DOMAIN s.recs : g # f => t.recs[g] = s.recs[g]
        /\ t.bytes = Minus(s.bytes, Bytes(s.recs[f])) + Bytes(r)
    BY <1>2, PutAgrees
  <2> HIDE DEF t
  <2>2. Indexed(t)
    <3>1. \A g \in DOMAIN s.recs : t.recs[g].linked = s.recs[g].linked
      BY <1>2, <2>1
    <3> QED
      BY <2>1, <3>1 DEF Indexed
  <2>3. ASSUME Limited(s), Parts(r) = Parts(s.recs[f])
        PROVE  Limited(t)
    <3>1. Bytes(r) = Bytes(s.recs[f])
      BY <2>3 DEF Bytes
    <3> DEFINE D == DOMAIN s.recs
               left == D \ {f}
    <3>2. \A g \in D : s.recs[g].bodies \subseteq Bodies
      BY DEF Agrees, Made, Record
    <3>3. D \subseteq Flows
      BY DEF Agrees, Made
    <3>4. left \subseteq Flows /\ {f} \subseteq Flows /\ left \cap {f} = {} /\ D = left \cup {f}
      BY <1>2, <3>3
    <3>5. /\ \A g \in left \cup {f} : s.recs[g].bodies \subseteq Bodies
          /\ \A g \in left : s.recs[g].bodies \subseteq Bodies
      BY <1>2, <3>2
    <3>6. s.bytes = Total(s.recs, D)
      BY DEF Agrees
    <3> HIDE DEF left, D
    <3>7. Total(s.recs, left \cup {f}) = Total(s.recs, left) + Total(s.recs, {f})
      BY <3>4, <3>5, TotalSplits
    <3>8. Total(s.recs, left) \in Nat
      BY <3>4, <3>5, HeldIsFinite
    <3>9. f \in Flows /\ s.recs[f].bodies \subseteq Bodies
      BY <3>4, <3>5
    <3>10. Total(s.recs, {f}) = Bytes(s.recs[f]) /\ Bytes(s.recs[f]) \in Nat
      BY <3>9, TotalOfOne
    <3>11. t.bytes = s.bytes
      BY ONLY <2>1, <3>1, <3>4, <3>6, <3>7, <3>8, <3>10 DEF Minus
    <3> QED
      BY <2>1, <2>3, <3>11 DEF Limited
  <2> QED
    BY <1>2, <2>1, <2>2, <2>3 DEF t
<1> QED
  BY <1>1, <1>2

\* The fields that an operation sets.
LEMMA FieldsAgree ==
    ASSUME NEW r, r \in Record, InPhase(r)
    PROVE  /\ \A b \in Bodies : LET q == [r EXCEPT !.bodies = @ \cup {b}]
                                IN  q \in Record /\ InPhase(q) /\ q.linked = r.linked /\ q.phases = r.phases
           /\ LET q == [r EXCEPT !.attempts = TRUE]
              IN  q \in Record /\ InPhase(q) /\ q.linked = r.linked
           /\ LET q == [r EXCEPT !.linked = TRUE]
              IN  q \in Record /\ InPhase(q) /\ q.linked
           /\ \A x \in Statuses : LET q == [r EXCEPT !.status = x]
                                  IN  q \in Record /\ InPhase(q) /\ q.linked = r.linked /\ q.phases = r.phases
<1>1. ASSUME NEW b \in Bodies
      PROVE  LET q == [r EXCEPT !.bodies = @ \cup {b}]
             IN  q \in Record /\ InPhase(q) /\ q.linked = r.linked /\ q.phases = r.phases
  <2> DEFINE new == r.bodies \cup {b}
             q == [r EXCEPT !.bodies = new]
  <2>1. new \in SUBSET Bodies
    BY DEF Record
  <2> HIDE DEF new
  <2>2. q \in Record /\ q.linked = r.linked /\ q.phases = r.phases
    BY <2>1 DEF Record
  <2>3. InPhase(q)
    BY <2>2 DEF InPhase
  <2>4. [r EXCEPT !.bodies = @ \cup {b}] = q
    BY DEF new
  <2> QED
    BY <2>2, <2>3, <2>4
<1>2. LET q == [r EXCEPT !.attempts = TRUE]
      IN  q \in Record /\ InPhase(q) /\ q.linked = r.linked
  <2> DEFINE q == [r EXCEPT !.attempts = TRUE]
  <2>1. q \in Record /\ q.linked = r.linked /\ q.phases = r.phases
    BY DEF Record
  <2> HIDE DEF q
  <2>2. InPhase(q)
    BY <2>1 DEF InPhase
  <2> QED
    BY <2>1, <2>2 DEF q
<1>3. LET q == [r EXCEPT !.linked = TRUE]
      IN  q \in Record /\ InPhase(q) /\ q.linked
  <2> DEFINE q == [r EXCEPT !.linked = TRUE]
  <2>1. q \in Record /\ q.linked /\ q.phases = r.phases
    BY DEF Record
  <2> HIDE DEF q
  <2>2. InPhase(q)
    BY <2>1 DEF InPhase
  <2> QED
    BY <2>1, <2>2 DEF q
<1>4. ASSUME NEW x \in Statuses
      PROVE  LET q == [r EXCEPT !.status = x]
             IN  q \in Record /\ InPhase(q) /\ q.linked = r.linked /\ q.phases = r.phases
  <2> DEFINE q == [r EXCEPT !.status = x]
  <2>1. q \in Record /\ q.linked = r.linked /\ q.phases = r.phases
    BY DEF Record
  <2> HIDE DEF q
  <2>2. InPhase(q)
    BY <2>1 DEF InPhase
  <2> QED
    BY <2>1, <2>2 DEF q
<1> QED
  BY <1>1, <1>2, <1>3, <1>4

\* A stamp comes after all that were set, so if no later phase has one yet the
\* phases stay in order.
LEMMA StampAgrees ==
    ASSUME NEW r, r \in Record, InPhase(r), clock \in 1..MaxClock,
           NEW n \in 1..Len(Phases),
           \A j \in 1..Len(Phases) : n < j => r.phases[Phases[j]] = 0
    PROVE  LET q == Stamp(r, Phases[n])
           IN  q \in Record /\ InPhase(q) /\ q.linked = r.linked /\ Parts(q) = Parts(r)
<1> DEFINE phase == Phases[n]
           T == {clock} \cup {r.phases[p] : p \in Phase}
           x == Max(T)
           q == Stamp(r, phase)
<1>1. CASE r.phases[phase] # 0
  BY <1>1 DEF Stamp
<1>2. CASE r.phases[phase] = 0
  <2>1. MaxClock \in Nat /\ r.phases \in [Phase -> 0..MaxClock]
    BY StoreAssumption DEF Record
  <2>2. T \in SUBSET (0..MaxClock) /\ T # {}
    BY <2>1
  <2>3. x \in T /\ \A y \in T : y <= x
    <3> HIDE DEF T
    <3>1. \E m \in T : \A y \in T : y <= m
      BY <2>1, <2>2, GreatestOf
    <3>2. \E m \in T : \A y \in T : m >= y
      <4>1. T \subseteq Int
        BY <2>1, <2>2
      <4> QED
        BY <3>1, <4>1
    <3>3. x \in T /\ \A y \in T : x >= y
      BY <3>2 DEF Max
    <3> HIDE DEF x
    <3>4. \A y \in T : y \in Int
      BY <2>1, <2>2
    <3> QED
      BY <3>3, <3>4
  <2>4. x \in 0..MaxClock /\ \A p \in Phase : r.phases[p] <= x
    <3>1. \A p \in Phase : r.phases[p] \in T
      OBVIOUS
    <3> HIDE DEF T, x
    <3> QED
      BY <2>2, <2>3, <3>1
  <2>5. q = [r EXCEPT !.phases[phase] = x]
    BY <1>2 DEF Stamp
  <2> HIDE DEF x, T
  <2> DEFINE phases == [r.phases EXCEPT ![phase] = x]
  <2>6. q = [r EXCEPT !.phases = phases]
    BY <2>5 DEF Record
  <2>7. phases \in [Phase -> 0..MaxClock]
    BY <2>1, <2>4
  <2>8. \A p \in Phase : phases[p] = IF p = phase THEN x ELSE r.phases[p]
    BY <2>1
  <2> HIDE DEF q, phases
  <2>9. q \in Record /\ q.linked = r.linked /\ q.phases = phases
        /\ q.bodies = r.bodies /\ q.attempts = r.attempts
    BY <2>6, <2>7 DEF Record
  <2>10. InPhase(q)
    <3> SUFFICES ASSUME NEW i \in 1..Len(Phases), NEW j \in 1..Len(Phases), i < j,
                        phases[Phases[j]] # 0
                 PROVE  phases[Phases[i]] <= phases[Phases[j]]
      BY <2>9 DEF InPhase
    <3>1. Phases[i] \in Phase /\ Phases[j] \in Phase
      BY DEF Phase
    <3>2. \A k \in 1..Len(Phases) : Phases[k] = phase <=> k = n
      BY DEF Phases
    <3>3. CASE j = n
      <4>1. phases[Phases[j]] = x /\ phases[Phases[i]] = r.phases[Phases[i]]
        BY <2>8, <3>1, <3>2, <3>3
      <4> QED
        BY <2>4, <3>1, <4>1
    <3>4. CASE j # n /\ i = n
      <4>1. r.phases[Phases[j]] = 0
        BY <3>4
      <4> QED
        BY <2>8, <3>1, <3>2, <3>4, <4>1
    <3>5. CASE j # n /\ i # n
      <4>1. phases[Phases[j]] = r.phases[Phases[j]] /\ phases[Phases[i]] = r.phases[Phases[i]]
        BY <2>8, <3>1, <3>2, <3>5
      <4> QED
        BY <4>1 DEF InPhase
    <3> QED
      BY <3>3, <3>4, <3>5
  <2> QED
    BY <2>9, <2>10 DEF q, Parts
<1> QED
  BY <1>1, <1>2

\* Each operation, of a flow whose phases are reached in their order.
LEMMA OperationsAreSound ==
    ASSUME NEW s, Sound(s), clock \in 1..MaxClock, NEW f
    PROVE  /\ Sound(Link(s, f))
           /\ Sound(SetUpstream(s, f))
           /\ Sound(SetUpstreamResponse(s, f))
           /\ Sound(RecordUsage(s, f))
           /\ Sound(RecordAttempts(s, f))
           /\ Sound(Finalize(s, f, "Completed"))
<1> DEFINE p == Prune(s)
           of(r) == IF f \in DOMAIN p.recs THEN Put(p, f, r) ELSE p
<1>1. Sound(p) /\ Agrees(p) /\ Indexed(p)
  BY PruneSound DEF Sound
<1>2. \A g \in DOMAIN p.recs : p.recs[g] \in Record /\ InPhase(p.recs[g])
  BY <1>1 DEF Agrees, Made
<1> HIDE DEF p
<1>3. Sound(Link(s, f))
  <2>1. CASE ~(f \in DOMAIN p.recs /\ ~p.recs[f].linked)
    BY <1>1, <2>1 DEF Link, p
  <2>2. CASE f \in DOMAIN p.recs /\ ~p.recs[f].linked
    <3> DEFINE q == [p EXCEPT !.links = @ \cup {f}]
               r == [q.recs[f] EXCEPT !.linked = TRUE]
               t == Put(q, f, r)
    <3>1. StoreShape(p)
      BY <1>1 DEF Agrees, Made
    <3>2. /\ StoreShape(q) /\ q.recs = p.recs /\ q.order = p.order
          /\ q.bytes = p.bytes /\ q.seq = p.seq /\ q.links = p.links \cup {f}
      BY <3>1 DEF StoreShape
    <3>3. Link(s, f) = EnforceCaps(IF f \in DOMAIN q.recs THEN Put(q, f, r) ELSE q)
      BY <2>2 DEF Link, Update, p
    <3> HIDE DEF q
    <3>4. Agrees(q)
      BY <1>1, <3>2 DEF Agrees, Made, Aligned
    <3>5. r \in Record /\ InPhase(r) /\ r.linked = TRUE
      <4>1. q.recs[f] \in Record /\ InPhase(q.recs[f])
        BY <1>2, <2>2, <3>2
      <4> QED
        BY <4>1, FieldsAgree
    <3> HIDE DEF r
    <3>6. f \in DOMAIN q.recs
      BY <2>2, <3>2
    <3>7. /\ Agrees(t)
          /\ t.links = q.links /\ t.order = q.order
          /\ DOMAIN t.recs = DOMAIN q.recs
          /\ t.recs[f].linked = r.linked
          /\ \A g \in DOMAIN q.recs : g # f => t.recs[g] = q.recs[g]
          /\ t.bytes = Minus(q.bytes, Bytes(q.recs[f])) + Bytes(r)
      BY ONLY <3>4, <3>5, <3>6, PutAgrees
    <3> HIDE DEF t
    <3>8. Indexed(t)
      <4>1. \A g \in DOMAIN p.recs : t.recs[g].linked <=> (g = f \/ p.recs[g].linked)
        BY <3>2, <3>5, <3>7
      <4> QED
        BY <1>1, <2>2, <3>2, <3>7, <4>1 DEF Indexed
    <3>9. Link(s, f) = EnforceCaps(t)
      BY <3>3, <3>6 DEF t
    <3> QED
      BY <3>7, <3>8, <3>9, CapsHold DEF Sound
  <2> QED
    BY <2>1, <2>2
<1>4. ASSUME NEW b \in Bodies
      PROVE  Agrees(AddBody(s, f, b)) /\ Indexed(AddBody(s, f, b))
  <2> DEFINE r == [p.recs[f] EXCEPT !.bodies = @ \cup {b}]
  <2>1. f \in DOMAIN p.recs => r \in Record /\ InPhase(r) /\ r.linked = p.recs[f].linked
    BY <1>2, FieldsAgree
  <2>2. AddBody(s, f, b) = of(r)
    BY DEF AddBody, Update, p
  <2> HIDE DEF r
  <2> QED
    BY <1>1, <2>1, <2>2, UpdateAgrees
<1>5. Sound(SetUpstream(s, f))
  <2>1. "upstream" \in Bodies
    BY DEF Bodies
  <2>2. Agrees(AddBody(s, f, "upstream")) /\ Indexed(AddBody(s, f, "upstream"))
    BY <1>4, <2>1
  <2> QED
    BY <1>1, <2>2, CapsHold DEF SetUpstream, Sound, p
<1>6. Sound(SetUpstreamResponse(s, f))
  <2>1. "response" \in Bodies
    BY DEF Bodies
  <2>2. Agrees(AddBody(s, f, "response")) /\ Indexed(AddBody(s, f, "response"))
    BY <1>4, <2>1
  <2> QED
    BY <2>2, CapsHold DEF SetUpstreamResponse, Sound
<1>7. Sound(RecordUsage(s, f))
  <2>1. RecordUsage(s, f) = of(p.recs[f])
    BY DEF RecordUsage, Update, p
  <2>2. f \in DOMAIN p.recs =>
            p.recs[f] \in Record /\ InPhase(p.recs[f]) /\ p.recs[f].linked = p.recs[f].linked
    BY <1>2
  <2>3. Limited(p)
    BY <1>1 DEF Sound
  <2> DEFINE r == p.recs[f]
             t == of(r)
  <2>4. Agrees(t) /\ Indexed(t) /\ Limited(t)
    BY <1>1, <2>2, <2>3, UpdateAgrees
  <2> QED
    BY <2>1, <2>4 DEF Sound
<1>8. Sound(RecordAttempts(s, f))
  <2> DEFINE r == [p.recs[f] EXCEPT !.attempts = TRUE]
             t == of(r)
  <2>1. f \in DOMAIN p.recs => r \in Record /\ InPhase(r) /\ r.linked = p.recs[f].linked
    BY <1>2, FieldsAgree
  <2>2. RecordAttempts(s, f) = EnforceCaps(t)
    BY DEF RecordAttempts, Update, p
  <2> HIDE DEF r
  <2>3. Agrees(t) /\ Indexed(t)
    BY <1>1, <2>1, UpdateAgrees
  <2> HIDE DEF t
  <2> QED
    BY <2>2, <2>3, CapsHold DEF Sound
<1>9. Sound(Finalize(s, f, "Completed"))
  <2> DEFINE q == [p.recs[f] EXCEPT !.status = "Completed"]
             r == Stamp(q, "finalize")
             t == of(r)
  <2>1. f \in DOMAIN p.recs => q \in Record /\ InPhase(q) /\ q.linked = p.recs[f].linked
    <3>1. "Completed" \in Statuses
      BY DEF Statuses
    <3> QED
      BY <1>2, <3>1, FieldsAgree
  <2>2. Finalize(s, f, "Completed") = EnforceCaps(t)
    BY DEF Finalize, Update, p
  <2> HIDE DEF q
  <2>3. f \in DOMAIN p.recs => r \in Record /\ InPhase(r) /\ r.linked = q.linked
    <3>1. Len(Phases) = 6 /\ Phases[6] = "finalize"
      BY DEF Phases
    <3>2. 6 \in 1..Len(Phases) /\ \A j \in 1..Len(Phases) : ~(6 < j)
      BY <3>1
    <3>3. f \in DOMAIN p.recs =>
              LET u == Stamp(q, Phases[6])
              IN  u \in Record /\ InPhase(u) /\ u.linked = q.linked
      BY <2>1, <3>2, StampAgrees
    <3> QED
      BY <3>1, <3>3
  <2> HIDE DEF r
  <2>4. Agrees(t) /\ Indexed(t)
    BY <1>1, <2>1, <2>3, UpdateAgrees
  <2> HIDE DEF t
  <2> QED
    BY <2>2, <2>4, CapsHold DEF Sound
<1> QED
  BY <1>3, <1>5, <1>6, <1>7, <1>8, <1>9

\* The operations that stamp a phase in the middle.
LEMMA StampsAreSound ==
    ASSUME NEW s, Sound(s), clock \in 1..MaxClock, NEW f, NEW n \in 1..Len(Phases),
           f \in DOMAIN s.recs =>
               \A j \in 1..Len(Phases) : n < j => s.recs[f].phases[Phases[j]] = 0
    PROVE  /\ Sound(StampPhase(s, f, Phases[n]))
           /\ Phases[n] = "normalization" => Sound(SetNormalized(s, f))
<1> DEFINE p == Prune(s)
           of(r) == IF f \in DOMAIN p.recs THEN Put(p, f, r) ELSE p
           phase == Phases[n]
<1>1. /\ Sound(p) /\ Agrees(p) /\ Indexed(p)
      /\ \A g \in DOMAIN p.recs : g \in DOMAIN s.recs /\ p.recs[g] = s.recs[g]
  BY PruneSound DEF Sound
<1>2. \A g \in DOMAIN p.recs : p.recs[g] \in Record /\ InPhase(p.recs[g])
  BY <1>1 DEF Agrees, Made
<1>3. f \in DOMAIN p.recs =>
          \A j \in 1..Len(Phases) : n < j => p.recs[f].phases[Phases[j]] = 0
  BY <1>1
<1> HIDE DEF p
<1>4. Sound(StampPhase(s, f, phase))
  <2> DEFINE r == Stamp(p.recs[f], phase)
             t == of(r)
  <2>1. f \in DOMAIN p.recs =>
            /\ r \in Record /\ InPhase(r) /\ r.linked = p.recs[f].linked
            /\ Parts(r) = Parts(p.recs[f])
    BY <1>2, <1>3, StampAgrees
  <2>2. StampPhase(s, f, phase) = t
    BY DEF StampPhase, Update, p
  <2>3. Limited(p)
    BY <1>1 DEF Sound
  <2> HIDE DEF r
  <2>4. Agrees(t) /\ Indexed(t) /\ Limited(t)
    BY <1>1, <2>1, <2>3, UpdateAgrees
  <2> QED
    BY <2>2, <2>4 DEF Sound
<1>5. ASSUME phase = "normalization"
      PROVE  Sound(SetNormalized(s, f))
  <2> DEFINE q == [p.recs[f] EXCEPT !.bodies = @ \cup {"normalized"}]
             r == Stamp(q, phase)
             t == of(r)
  <2>1. f \in DOMAIN p.recs =>
            /\ q \in Record /\ InPhase(q) /\ q.linked = p.recs[f].linked
            /\ q.phases = p.recs[f].phases
    <3>1. "normalized" \in Bodies
      BY DEF Bodies
    <3> QED
      BY <1>2, <3>1, FieldsAgree
  <2>2. SetNormalized(s, f) = EnforceCaps(t)
    BY <1>5 DEF SetNormalized, Update, p
  <2> HIDE DEF q
  <2>3. f \in DOMAIN p.recs => r \in Record /\ InPhase(r) /\ r.linked = q.linked
    BY <1>3, <2>1, StampAgrees
  <2> HIDE DEF r
  <2>4. Agrees(t) /\ Indexed(t)
    BY <1>1, <2>1, <2>3, UpdateAgrees
  <2> HIDE DEF t
  <2> QED
    BY <2>2, <2>4, CapsHold DEF Sound
<1> QED
  BY <1>4, <1>5

\* A new flow.
LEMMA OpenIsSound ==
    ASSUME NEW s, Sound(s), clock \in 1..MaxClock, NEW f \in Flows, f \notin DOMAIN s.recs
    PROVE  Sound(Open(s, f))
<1> DEFINE p == Prune(s)
           D == DOMAIN p.recs
           r == [status |-> "Open", bodies |-> {"inbound"}, linked |-> FALSE,
                 attempts |-> FALSE, started |-> clock, seq |-> p.seq + 1,
                 phases |-> [x \in Phase |-> IF x = "ingress" THEN clock ELSE 0]]
           recs == [x \in D \cup {f} |-> IF x = f THEN r ELSE p.recs[x]]
           t == [p EXCEPT !.recs = [x \in DOMAIN @ \cup {f} |-> IF x = f THEN r ELSE @[x]],
                          !.order = Append(@, f),
                          !.bytes = @ + Bytes(r),
                          !.seq = @ + 1]
<1>1. /\ Sound(p) /\ Agrees(p) /\ Indexed(p)
      /\ \A g \in D : g \in DOMAIN s.recs
  BY PruneSound DEF Sound
<1>2. f \notin D
  BY <1>1
<1>3. Open(s, f) = EnforceCaps(t)
  BY DEF Open
<1> HIDE DEF p
<1>4. Made(p) /\ Aligned(p) /\ p.bytes = Total(p.recs, D) /\ \A g \in D : InPhase(p.recs[g])
  BY <1>1 DEF Agrees
<1>5. D \subseteq Flows /\ (\A g \in D : p.recs[g] \in Record) /\ p.seq \in Nat
  BY <1>4 DEF Made
<1>6. r \in Record /\ r.linked = FALSE /\ InPhase(r)
  <2> DEFINE phases == [x \in Phase |-> IF x = "ingress" THEN clock ELSE 0]
             n == p.seq + 1
  <2>1. phases \in [Phase -> 0..MaxClock]
    BY StoreAssumption
  <2>2. n \in Nat
    BY <1>5
  <2>3. \A i, j \in 1..Len(Phases) : i < j => Phases[j] \in Phase /\ Phases[j] # "ingress"
    BY DEF Phase, Phases
  <2>4. \A i, j \in 1..Len(Phases) : i < j => phases[Phases[j]] = 0
    BY <2>3
  <2> HIDE DEF phases, n
  <2>5. r = [status |-> "Open", bodies |-> {"inbound"}, linked |-> FALSE,
             attempts |-> FALSE, started |-> clock, seq |-> n, phases |-> phases]
    BY DEF phases, n
  <2> HIDE DEF r
  <2>6. r \in Record
    BY <2>1, <2>2, <2>5 DEF Record, Statuses, Bodies
  <2>7. r.linked = FALSE /\ r.phases = phases
    BY <2>5
  <2>8. InPhase(r)
    BY <2>4, <2>7 DEF InPhase
  <2> QED
    BY <2>6, <2>7, <2>8
<1>7. /\ StoreShape(t)
      /\ t.recs = recs /\ t.order = Append(p.order, f) /\ t.links = p.links
      /\ t.seq = p.seq + 1 /\ t.bytes = p.bytes + Bytes(r)
  <2>1. StoreShape(p)
    BY <1>4 DEF Made
  <2> DEFINE m == p.bytes + Bytes(r)
             n == p.seq + 1
             o == Append(p.order, f)
  <2>2. t = [[[[p EXCEPT !.recs = recs] EXCEPT !.order = o] EXCEPT !.bytes = m] EXCEPT !.seq = n]
    <3> HIDE DEF r
    <3> QED
      BY <2>1 DEF StoreShape
  <2> HIDE DEF t, recs, m, n, o
  <2>3. /\ StoreShape(t)
        /\ t.recs = recs /\ t.order = o /\ t.links = p.links /\ t.seq = n
        /\ t.bytes = m
    BY <2>1, <2>2 DEF StoreShape
  <2> QED
    BY <2>3 DEF m, n, o
<1> HIDE DEF t, r
<1>8. /\ DOMAIN recs = D \cup {f} /\ recs[f] = r
      /\ \A g \in D : recs[g] = p.recs[g]
  BY <1>2
<1>9. recs \in [D \cup {f} -> Record]
  <2>1. \A g \in D \cup {f} : recs[g] \in Record
    BY <1>5, <1>6, <1>8
  <2>2. recs = [g \in D \cup {f} |-> recs[g]]
    OBVIOUS
  <2> HIDE DEF recs
  <2> QED
    BY <2>1, <2>2
<1> HIDE DEF recs
<1>10. Made(t)
  <2>1. t.order \in Seq(Flows)
    BY <1>4, <1>7 DEF Made
  <2>2. t.seq \in Nat
    BY <1>5, <1>7
  <2> HIDE DEF D
  <2>3. DOMAIN t.recs = D \cup {f} /\ t.recs \in [D \cup {f} -> Record]
    BY <1>7, <1>8, <1>9
  <2> QED
    BY <1>5, <1>7, <2>1, <2>2, <2>3 DEF Made
<1>11. Aligned(t)
  <2>1. p.order \in Seq(Flows) /\ Len(p.order) = Cardinality(D)
        /\ {p.order[i] : i \in 1..Len(p.order)} = D
    BY <1>4 DEF Made, Aligned
  <2>2. IsFiniteSet(D)
    BY <1>5, StoreAssumption, FS_Subset
  <2>3. Cardinality(D \cup {f}) = Cardinality(D) + 1
    BY <1>2, <2>2, FS_AddElement
  <2>4. Len(t.order) = Len(p.order) + 1
    BY <1>7, <2>1
  <2>5. {t.order[i] : i \in 1..Len(t.order)} = D \cup {f}
    <3>0. Len(p.order) \in Nat
      BY <2>1
    <3> DEFINE n == Len(p.order)
    <3>1. \A i \in 1..n : t.order[i] = p.order[i]
      BY <1>7, <2>1
    <3>2. t.order[n + 1] = f
      BY <1>7, <2>1
    <3>3. \A i \in 1..(n + 1) : i \in 1..n \/ i = n + 1
      BY <3>0
    <3>4. \A d \in D : \E i \in 1..n : p.order[i] = d
      BY <2>1
    <3>5. \A i \in 1..n : p.order[i] \in D /\ i \in 1..(n + 1)
      BY <2>1, <3>0
    <3>6. n + 1 \in 1..(n + 1)
      BY <3>0
    <3> HIDE DEF n, D
    <3>7. {t.order[i] : i \in 1..(n + 1)} = D \cup {f}
      BY ONLY <3>1, <3>2, <3>3, <3>4, <3>5, <3>6
    <3> QED
      BY <2>4, <3>7 DEF n
  <2>6. DOMAIN t.recs = D \cup {f}
    BY <1>7, <1>8
  <2> HIDE DEF D
  <2> QED
    BY <2>1, <2>3, <2>4, <2>5, <2>6 DEF Aligned
<1>12. t.bytes = Total(t.recs, DOMAIN t.recs)
  <2>1. \A g \in D \cup {f} : recs[g].bodies \subseteq Bodies
    BY <1>9 DEF Record
  <2>2. \A g \in D : Parts(recs[g]) = Parts(p.recs[g])
    BY <1>8
  <2>3. \A g \in D : recs[g].bodies \subseteq Bodies
    BY <2>1
  <2>4. D \cap {f} = {} /\ {f} \subseteq Flows
    BY <1>2
  <2> HIDE DEF D
  <2>5. Total(recs, D \cup {f}) = Total(recs, D) + Total(recs, {f})
    BY <1>5, <2>1, <2>4, TotalSplits
  <2>6. Total(recs, D) = Total(p.recs, D)
    BY <2>2, TotalIsOfParts
  <2>7. recs[f].bodies \subseteq Bodies
    BY <2>1
  <2>8. Total(recs, {f}) = Bytes(r)
    BY <1>8, <2>7, TotalOfOne
  <2>9. DOMAIN t.recs = D \cup {f}
    BY <1>7, <1>8
  <2> QED
    BY <1>4, <1>7, <2>5, <2>6, <2>8, <2>9
<1>13. \A g \in DOMAIN t.recs : InPhase(t.recs[g])
  BY <1>4, <1>6, <1>7, <1>8
<1>14. Agrees(t)
  BY <1>10, <1>11, <1>12, <1>13 DEF Agrees
<1>15. Indexed(t)
  <2>1. \A g \in DOMAIN t.recs : t.recs[g].linked <=> g \in D /\ p.recs[g].linked
    BY <1>2, <1>6, <1>7, <1>8
  <2>2. DOMAIN t.recs = D \cup {f}
    BY <1>7, <1>8
  <2> QED
    BY <1>1, <1>7, <2>1, <2>2 DEF Indexed
<1> QED
  BY <1>3, <1>14, <1>15, CapsHold DEF Sound

\* The store under any sequence of calls.
StoreInv == clock \in 1..MaxClock /\ Sound(store)

LEMMA StoreStarts == StoreInit => StoreInv
<1> SUFFICES ASSUME StoreInit
             PROVE  clock \in 1..MaxClock /\ Sound(store)
  BY DEF StoreInv
<1>1. clock \in 1..MaxClock
  BY StoreAssumption DEF StoreInit
<1>2. /\ store = EmptyStore /\ store.recs = <<>> /\ store.order = <<>> /\ store.links = {}
      /\ store.bytes = 0 /\ store.seq = 0 /\ StoreShape(store)
  BY DEF StoreInit, EmptyStore, StoreShape
<1>3. DOMAIN store.recs = {} /\ Len(store.order) = 0
  BY <1>2
<1>4. store.recs \in [{} -> Record]
  BY <1>2
<1>5. Made(store)
  BY <1>2, <1>3, <1>4 DEF Made
<1>6. Aligned(store)
  BY <1>2, <1>3, FS_EmptySet DEF Aligned
<1>7. Agrees(store)
  BY <1>2, <1>3, <1>5, <1>6, TotalOfNone DEF Agrees
<1>8. Indexed(store)
  BY <1>2, <1>3 DEF Indexed
<1>9. Limited(store)
  BY <1>2, <1>3, StoreAssumption DEF Limited
<1> QED
  BY <1>1, <1>7, <1>8, <1>9 DEF Sound

LEMMA StoreSteps == StoreInv /\ [StoreNext]_<<store, clock>> => StoreInv'
<1> SUFFICES ASSUME clock \in 1..MaxClock, Sound(store), [StoreNext]_<<store, clock>>
             PROVE  clock' \in 1..MaxClock /\ Sound(store)'
  BY DEF StoreInv
<1>1. clock' \in 1..MaxClock
  BY DEF StoreNext, StepClock
<1>2. ASSUME NEW f \in Flows, Opened(f)
      PROVE  Sound(store')
  BY <1>2, OpenIsSound DEF Opened
<1>3. ASSUME NEW f \in Flows, Linked(f)
      PROVE  Sound(store')
  BY <1>3, OperationsAreSound DEF Linked
<1>4. ASSUME NEW f \in Flows, NEW n \in 1..Len(Phases), InOrder(f, Phases[n])
      PROVE  /\ Sound(StampPhase(store, f, Phases[n]))
             /\ Phases[n] = "normalization" => Sound(SetNormalized(store, f))
  <2>1. f \in DOMAIN store.recs =>
            \A j \in 1..Len(Phases) : n < j => store.recs[f].phases[Phases[j]] = 0
    BY <1>4 DEF InOrder
  <2> QED
    BY <2>1, StampsAreSound
<1>5. /\ 2 \in 1..Len(Phases) /\ Phases[2] = "normalization"
      /\ 4 \in 1..Len(Phases) /\ Phases[4] = "content"
  BY DEF Phases
<1>6. ASSUME NEW f \in Flows, Captured(f)
      PROVE  Sound(store')
  <2>1. CASE InOrder(f, "normalization") /\ store' = SetNormalized(store, f)
    <3>1. InOrder(f, Phases[2])
      BY <1>5, <2>1
    <3> QED
      BY <1>4, <1>5, <2>1, <3>1
  <2>2. CASE store' = SetUpstream(store, f) \/ store' = SetUpstreamResponse(store, f)
    BY <2>2, OperationsAreSound
  <2> QED
    BY <1>6, <2>1, <2>2 DEF Captured
<1>7. ASSUME NEW f \in Flows, Measured(f)
      PROVE  Sound(store')
  <2>1. CASE InOrder(f, "content") /\ store' = StampPhase(store, f, "content")
    <3>1. InOrder(f, Phases[4])
      BY <1>5, <2>1
    <3>2. Sound(StampPhase(store, f, Phases[4]))
      BY <1>4, <1>5, <3>1
    <3> QED
      BY <1>5, <2>1, <3>2
  <2>2. CASE store' = RecordUsage(store, f) \/ store' = RecordAttempts(store, f)
    BY <2>2, OperationsAreSound
  <2> QED
    BY <1>7, <2>1, <2>2 DEF Measured
<1>8. ASSUME NEW f \in Flows, Finalized(f)
      PROVE  Sound(store')
  BY <1>8, OperationsAreSound DEF Finalized
<1>9. ASSUME Listed
      PROVE  Sound(store')
  BY <1>9, PruneSound DEF Listed
<1>10. ASSUME UNCHANGED store
       PROVE  Sound(store')
  BY <1>10
<1>11. Sound(store')
  BY <1>2, <1>3, <1>6, <1>7, <1>8, <1>9, <1>10 DEF StoreNext, StepClock
<1>12. Sound(store)' <=> Sound(store')
  BY DEF Sound, Agrees, Made, Aligned, Indexed, Limited, StoreShape
<1> QED
  BY <1>1, <1>11, <1>12

\* Whatever the calls, order, index and records agree, the byte total is what
\* the records hold, both limits hold, and phases are in order
\* (dashboard_flow.rs: every operation, for any cap, quota and expiry).
THEOREM StoreKept == StoreSpec => []StoreIsSound
<1>1. StoreInv => StoreIsSound
  BY DEF StoreInv, Sound, Agrees, Made, Aligned, Indexed, Limited, InPhase,
         StoreIsSound, Lockstep, Bounded, PhasesMonotone
<1> QED
  BY <1>1, StoreStarts, StoreSteps, PTL DEF StoreSpec

-----------------------------------------------------------------------------
(* The life of a flow.                                                     *)

\* The handler before it may claim, the turn while its guard owns the claim,
\* and what the owner does after it gave the claim up.
Unclaimed == {"idle", "opened", "handler", "claiming"}
Claimed == {"prep", "lowered", "spawned", "ended"} \cup Running
Written == {"tracing", "staging", "removing", "counting", "gone"}

Types ==
    /\ Proper(store) /\ DOMAIN store.recs \subseteq Flows
    /\ claim \in [Flows -> {"OpenL0", "ClaimedL1", "Finalized"}]
    /\ l0 \in [Flows -> {"none", "held", "dropping", "gone"}]
    /\ pc \in [Flows -> Unclaimed \cup Claimed \cup Written \cup {"left", "finalizing"}]
    /\ task \subseteq Flows
    /\ ending \in [Flows -> Ending]
    /\ metrics \in [Flows -> Seq(Terminal)]

\* Who owns the claim: one of the two guards at most, and only a guard that is
\* still to run.
Owned(f) ==
    /\ pc[f] \in Unclaimed => claim[f] = "OpenL0"
    /\ pc[f] \in Claimed <=> claim[f] = "ClaimedL1"
    /\ claim[f] = "OpenL0" => pc[f] \in Unclaimed \cup {"left"}
    /\ pc[f] \in {"idle", "opened"} => l0[f] = "none"
    /\ pc[f] \in Unclaimed => l0[f] \in {"none", "held"}
    /\ pc[f] = "left" /\ l0[f] = "held" => claim[f] = "OpenL0"
    /\ l0[f] = "dropping" => pc[f] = "left" /\ claim[f] = "Finalized"
    /\ f \in task => pc[f] \notin Unclaimed \cup {"left"}

\* What the record says while there is one: it is terminal once its finalizer
\* has written, in the status that its turn ended in.
Told(f) ==
    /\ pc[f] \in Written \cup {"ended", "finalizing"} => ending[f].status \in Terminal
    /\ Known(f) =>
          /\ pc[f] # "idle"
          /\ l0[f] = "none" => pc[f] = "opened"
          /\ store.recs[f].status =
                IF pc[f] \in Written THEN ending[f].status
                ELSE IF pc[f] = "left" /\ l0[f] = "gone" THEN "Failed"
                ELSE "Open"

\* The terminals counted so far.
Counts(f) ==
    /\ pc[f] = "counting" => ending[f].explicit
    /\ metrics[f] = IF pc[f] = "gone" /\ ending[f].explicit
                    THEN <<ending[f].status>> ELSE <<>>

FlowInv ==
    /\ Types
    /\ \A f \in Flows : Owned(f) /\ Told(f) /\ Counts(f)
    /\ HubHoldsLiveGuards
-----------------------------------------------------------------------------
(* Steps.                                                                  *)

\* Nothing about flow g changes but what the store sheds.
Unmoved(g) ==
    /\ UNCHANGED <<claim[g], l0[g], pc[g], ending[g], metrics[g]>>
    /\ (g \in task)' <=> g \in task
    /\ Known(g)' => Known(g) /\ store'.recs[g].status = store.recs[g].status

\* What is said of a flow survives the steps of others.
LEMMA OthersKeep ==
    ASSUME NEW g \in Flows, Owned(g), Told(g), Counts(g), Unmoved(g)
    PROVE  Owned(g)' /\ Told(g)' /\ Counts(g)'
<1>1. Owned(g)'
  BY DEF Owned, Unmoved
<1>2. Told(g)'
  BY DEF Told, Unmoved, Known
<1>3. Counts(g)'
  BY DEF Counts, Unmoved
<1> QED
  BY <1>1, <1>2, <1>3

\* A step of one flow keeps the invariant if it keeps what is said of that flow.
LEMMA OneMoves ==
    ASSUME FlowInv, NEW f \in Flows, Types',
           \A g \in Flows \ {f} : Unmoved(g) /\ (g \in hub' <=> g \in hub),
           Owned(f)', Told(f)', Counts(f)',
           hub' \subseteq Flows, f \in hub' <=> pc'[f] \in Guarded
    PROVE  FlowInv'
<1>1. \A g \in Flows \ {f} : Owned(g)' /\ Told(g)' /\ Counts(g)'
  BY OthersKeep DEF FlowInv
<1>2. HubHoldsLiveGuards'
  BY DEF FlowInv, HubHoldsLiveGuards, Unmoved
<1> QED
  BY <1>1, <1>2 DEF FlowInv

\* The calls between the spawn and the end of a turn.
LEMMA CallsOnlyShed ==
    ASSUME Proper(store), NEW f \in Flows,
           \/ Normalize(f) \/ Spawn(f) \/ Bind(f) \/ Dispatch(f) \/ ContentDelta(f)
           \/ Usage(f) \/ Complete(f) \/ CommitAttempts(f) \/ CommitBody(f)
    PROVE  Within(store', store)
<1>1. CASE Normalize(f)
  BY <1>1, SetNormalizedWithin DEF Normalize, Calls
<1>2. CASE Spawn(f) \/ ContentDelta(f) \/ Complete(f)
  BY <1>2, StampPhaseWithin DEF Spawn, ContentDelta, Complete, Calls
<1>3. CASE Bind(f)
  BY <1>3, LinkWithin DEF Bind, Calls
<1>4. CASE Dispatch(f)
  BY <1>4, SetUpstreamWithin DEF Dispatch, Calls
<1>5. CASE Usage(f) \/ CommitAttempts(f)
  BY <1>5, MeasureWithin, SelfWithin DEF Usage, CommitAttempts, Calls
<1>6. CASE CommitBody(f)
  BY <1>6, SetUpstreamWithin, SelfWithin DEF CommitBody, Calls
<1> QED
  BY <1>1, <1>2, <1>3, <1>4, <1>5, <1>6

\* They keep the invariant.
LEMMA CallStep ==
    ASSUME FlowInv, NEW f \in Flows,
           \/ Normalize(f) \/ Spawn(f) \/ Bind(f) \/ Dispatch(f) \/ ContentDelta(f)
           \/ Usage(f) \/ Complete(f) \/ CommitAttempts(f) \/ CommitBody(f)
    PROVE  FlowInv'
<1>1. Within(store', store) /\ Proper(store')
  BY CallsOnlyShed, WithinProper DEF FlowInv, Types
<1>2. UNCHANGED <<claim, l0, hub, metrics>>
  BY DEF Normalize, Spawn, Bind, Dispatch, ContentDelta, Usage, Complete, CommitAttempts,
         CommitBody, Calls
<1>3. pc' \in [Flows -> Unclaimed \cup Claimed \cup Written \cup {"left", "finalizing"}]
  BY DEF FlowInv, Types, Goto, Normalize, Spawn, Bind, Dispatch, ContentDelta, Usage,
     Complete, CommitAttempts, CommitBody, Claimed, Running, Written
<1>4. ending' \in [Flows -> Ending] /\ task' \subseteq Flows
  <2>1. CASE Complete(f)
    <3>1. [status |-> "Completed", explicit |-> TRUE, attempts |-> TRUE, body |-> FALSE] \in Ending
      BY DEF Ending, Statuses
    <3> QED
      BY <2>1, <3>1 DEF FlowInv, Types, Complete
  <2>2. CASE ~Complete(f)
    BY <2>2 DEF FlowInv, Types, Normalize, Spawn, Bind, Dispatch, ContentDelta, Usage,
       CommitAttempts, CommitBody
  <2> QED
    BY <2>1, <2>2
<1>5. Types'
  BY <1>1, <1>2, <1>3, <1>4 DEF FlowInv, Types, Within
<1>6. \A g \in Flows \ {f} : Unmoved(g) /\ (g \in hub' <=> g \in hub)
  BY <1>1, <1>2 DEF FlowInv, Types, Within, Goto, Normalize, Spawn, Bind, Dispatch,
     ContentDelta, Usage, Complete, CommitAttempts, CommitBody, Unmoved, Known
<1>7. Owned(f)'
  BY <1>2 DEF FlowInv, Types, Owned, Goto, Normalize, Spawn, Bind, Dispatch,
     ContentDelta, Usage, Complete, CommitAttempts, CommitBody, Claimed, Running, Unclaimed
<1>8. Told(f)'
  BY <1>1, <1>2 DEF FlowInv, Types, Told, Known, Within, Goto, Normalize, Spawn, Bind, Dispatch,
     ContentDelta, Usage, Complete, CommitAttempts, CommitBody, Written, Running, Terminal, Statuses
<1>9. Counts(f)'
  BY <1>2 DEF FlowInv, Types, Counts, Goto, Normalize, Spawn, Bind, Dispatch,
     ContentDelta, Usage, Complete, CommitAttempts, CommitBody, Running
<1>10. hub' \subseteq Flows /\ (f \in hub' <=> pc'[f] \in Guarded)
  BY <1>2 DEF FlowInv, Types, HubHoldsLiveGuards, Guarded, Goto, Normalize, Spawn, Bind, Dispatch,
     ContentDelta, Usage, Complete, CommitAttempts, CommitBody, Running
<1> QED
  BY <1>5, <1>6, <1>7, <1>8, <1>9, <1>10, OneMoves
\* The handler's own steps, up to the claim.
LEMMA HandlerStep ==
    ASSUME FlowInv, NEW f \in Flows,
           GuardL0(f) \/ Reject(f) \/ LookUp(f) \/ ClaimL1(f)
    PROVE  FlowInv'
<1>1. UNCHANGED <<store, task, ending, metrics>>
  BY DEF GuardL0, Reject, LookUp, ClaimL1, Silent
<1>2. Types'
  BY <1>1 DEF FlowInv, Types, Goto, GuardL0, Reject, LookUp, ClaimL1, Unclaimed, Claimed
<1>3. \A g \in Flows \ {f} : Unmoved(g) /\ (g \in hub' <=> g \in hub)
  BY <1>1 DEF FlowInv, Types, Unmoved, Known, Goto, GuardL0, Reject, LookUp, ClaimL1
<1>4. Owned(f)'
  BY <1>1 DEF FlowInv, Types, Owned, Goto, GuardL0, Reject, LookUp, ClaimL1, Unclaimed,
     Claimed, Running
<1>5. Told(f)'
  BY <1>1 DEF FlowInv, Types, Told, Owned, Known, Goto, GuardL0, Reject, LookUp, ClaimL1, Written,
     Unclaimed, Claimed
<1>6. Counts(f)'
  BY <1>1 DEF FlowInv, Types, Counts, Goto, GuardL0, Reject, LookUp, ClaimL1
<1>7. hub' \subseteq Flows /\ (f \in hub' <=> pc'[f] \in Guarded)
  BY DEF FlowInv, Types, HubHoldsLiveGuards, Guarded, Goto, GuardL0, Reject, LookUp, ClaimL1,
     Running
<1> QED
  BY <1>2, <1>3, <1>4, <1>5, <1>6, <1>7, OneMoves

\* A turn that ends, whichever way.
LEMMA EndStep ==
    ASSUME FlowInv, NEW f \in Flows, NEW e \in Ending, e.status \in Terminal,
           Ends(f, {"prep", "lowered"}, e) \/ Ends(f, Running, e)
    PROVE  FlowInv'
<1>1. UNCHANGED <<store, claim, l0, task, hub, metrics>>
  BY DEF Ends, Silent
<1>2. pc[f] \in Claimed /\ pc[f] # "ended" /\ pc' = [pc EXCEPT ![f] = "ended"]
  BY DEF Ends, Goto, Claimed, Running
<1>3. ending' = [ending EXCEPT ![f] = e]
  BY DEF Ends
<1>4. Types'
  BY <1>1, <1>2, <1>3 DEF FlowInv, Types, Claimed
<1>5. \A g \in Flows \ {f} : Unmoved(g) /\ (g \in hub' <=> g \in hub)
  BY <1>1, <1>2, <1>3 DEF FlowInv, Types, Unmoved, Known
<1>6. Owned(f)'
  BY <1>1, <1>2 DEF FlowInv, Types, Owned, Unclaimed, Claimed, Running
<1>7. Told(f)'
  BY <1>1, <1>2, <1>3 DEF FlowInv, Types, Told, Known, Written, Claimed, Running
<1>8. Counts(f)'
  BY <1>1, <1>2 DEF FlowInv, Types, Counts, Claimed, Running
<1>9. hub' \subseteq Flows /\ (f \in hub' <=> pc'[f] \in Guarded)
  BY <1>1, <1>2 DEF FlowInv, Types, HubHoldsLiveGuards, Guarded, Claimed, Running
<1> QED
  BY <1>4, <1>5, <1>6, <1>7, <1>8, <1>9, OneMoves

\* The owner takes the claim, takes the token out and counts the terminal.
LEMMA GuardStep ==
    ASSUME FlowInv, NEW f \in Flows, WinClaim(f) \/ Unregister(f) \/ CountTerminal(f)
    PROVE  FlowInv'
<1>1. UNCHANGED <<store, l0, task, ending>>
  BY DEF WinClaim, Unregister, CountTerminal, Silent
<1>2. metrics' \in [Flows -> Seq(Terminal)]
  <2>1. CASE CountTerminal(f)
    <3>1. ending[f].status \in Terminal /\ metrics[f] \in Seq(Terminal)
      BY <2>1 DEF FlowInv, Types, Told, Written, Goto, CountTerminal
    <3>2. Append(metrics[f], ending[f].status) \in Seq(Terminal)
      BY <3>1
    <3> QED
      BY <2>1, <3>2 DEF FlowInv, Types, CountTerminal
  <2>2. CASE WinClaim(f) \/ Unregister(f)
    BY <2>2 DEF FlowInv, Types, WinClaim, Unregister, Silent
  <2> QED
    BY <2>1, <2>2
<1>3. Types'
  BY <1>1, <1>2 DEF FlowInv, Types, Goto, WinClaim, Unregister, CountTerminal, Silent, Written
<1>4. \A g \in Flows \ {f} : Unmoved(g) /\ (g \in hub' <=> g \in hub)
  BY <1>1 DEF FlowInv, Types, Unmoved, Known, Goto, WinClaim, Unregister, CountTerminal, Silent
<1>5. Owned(f)'
  BY <1>1 DEF FlowInv, Types, Owned, Goto, WinClaim, Unregister, CountTerminal, Unclaimed,
     Claimed, Running
<1>6. Told(f)'
  BY <1>1 DEF FlowInv, Types, Told, Owned, Known, Goto, WinClaim, Unregister, CountTerminal,
     Written, Claimed
<1>7. Counts(f)'
  <2>1. Counts(f) /\ Owned(f)
    BY DEF FlowInv
  <2>2. CASE WinClaim(f)
    <3>1. pc'[f] = "finalizing" /\ metrics'[f] = metrics[f] /\ pc[f] = "ended"
      BY <2>1, <2>2 DEF FlowInv, Types, Owned, Claimed, Goto, WinClaim, Silent
    <3> QED
      BY <2>1, <3>1 DEF Counts
  <2>3. CASE Unregister(f)
    <3>1. /\ pc'[f] = IF ending[f].explicit THEN "counting" ELSE "gone"
          /\ metrics'[f] = metrics[f] /\ pc[f] = "removing" /\ ending' = ending
      BY <2>3 DEF FlowInv, Types, Goto, Unregister, Silent
    <3> QED
      BY <2>1, <3>1 DEF Counts
  <2>4. CASE CountTerminal(f)
    <3>1. /\ pc'[f] = "gone" /\ pc[f] = "counting" /\ ending' = ending
          /\ metrics'[f] = Append(metrics[f], ending[f].status)
      BY <2>4 DEF FlowInv, Types, Goto, CountTerminal
    <3>2. Append(<<>>, ending[f].status) = <<ending[f].status>>
      OBVIOUS
    <3> QED
      BY <2>1, <3>1, <3>2 DEF Counts
  <2> QED
    BY <2>2, <2>3, <2>4
<1>8. hub' \subseteq Flows /\ (f \in hub' <=> pc'[f] \in Guarded)
  BY DEF FlowInv, Types, HubHoldsLiveGuards, Guarded, Owned, Claimed, Goto, WinClaim, Unregister,
     CountTerminal, Running
<1> QED
  BY <1>3, <1>4, <1>5, <1>6, <1>7, <1>8, OneMoves
\* A request opens its record, which may be evicted by its own opening.
LEMMA ArriveStep ==
    ASSUME FlowInv, NEW f \in Flows, Arrive(f)
    PROVE  FlowInv'
<1>1. UNCHANGED <<claim, l0, task, ending, hub, metrics>>
  BY DEF Arrive, Calls
<1>2. pc[f] = "idle" /\ pc' = [pc EXCEPT ![f] = "opened"]
  BY DEF Arrive, Goto
<1>3. /\ Proper(store')
      /\ DOMAIN store'.recs \subseteq DOMAIN store.recs \cup {f}
      /\ \A g \in DOMAIN store'.recs : store'.recs[g].status =
            IF g = f THEN "Open" ELSE store.recs[g].status
  BY OpenShape DEF FlowInv, Types, Arrive, Calls
<1>4. Types'
  BY <1>1, <1>2, <1>3 DEF FlowInv, Types, Unclaimed
<1>5. \A g \in Flows \ {f} : Unmoved(g) /\ (g \in hub' <=> g \in hub)
  BY <1>1, <1>2, <1>3 DEF FlowInv, Types, Unmoved, Known
<1>6. Owned(f)'
  BY <1>1, <1>2 DEF FlowInv, Types, Owned, Unclaimed, Claimed, Running
<1>7. Told(f)'
  BY <1>1, <1>2, <1>3 DEF FlowInv, Types, Told, Known, Written
<1>8. Counts(f)'
  BY <1>1, <1>2 DEF FlowInv, Types, Counts
<1>9. hub' \subseteq Flows /\ (f \in hub' <=> pc'[f] \in Guarded)
  BY <1>1, <1>2 DEF FlowInv, Types, HubHoldsLiveGuards, Guarded, Running
<1> QED
  BY <1>4, <1>5, <1>6, <1>7, <1>8, <1>9, OneMoves

\* The owner of the claim writes the terminal status.
LEMMA WriteStep ==
    ASSUME FlowInv, NEW f \in Flows, FinalizeRecord(f) \/ FinalizeL0(f)
    PROVE  FlowInv'
<1> DEFINE status == IF pc[f] = "left" THEN "Failed" ELSE ending[f].status
<1>1. UNCHANGED <<claim, task, ending, hub, metrics>>
  BY DEF FinalizeRecord, FinalizeL0, Calls, turn
<1>2. \/ /\ pc[f] = "finalizing" /\ pc' = [pc EXCEPT ![f] = "tracing"] /\ l0' = l0
      \/ /\ pc[f] = "left" /\ pc' = pc
         /\ l0[f] = "dropping" /\ l0' = [l0 EXCEPT ![f] = "gone"]
  BY DEF FlowInv, Owned, FinalizeRecord, FinalizeL0, Calls, Goto, turn
<1>3. store' = Finalize(store, f, status)
  BY <1>2 DEF FlowInv, Owned, FinalizeRecord, FinalizeL0, Calls, Goto
<1>4. /\ Proper(store')
      /\ DOMAIN store'.recs \subseteq DOMAIN store.recs
      /\ \A g \in DOMAIN store'.recs : store'.recs[g].status =
            IF g = f THEN status ELSE store.recs[g].status
  <2> HIDE DEF status
  <2> QED
    BY <1>3, FinalizeShape DEF FlowInv, Types
<1>5. Types'
  BY <1>1, <1>2, <1>4 DEF FlowInv, Types, Written
<1>6. \A g \in Flows \ {f} : Unmoved(g) /\ (g \in hub' <=> g \in hub)
  BY <1>1, <1>2, <1>4 DEF FlowInv, Types, Unmoved, Known
<1>7. Owned(f)'
  BY <1>1, <1>2 DEF FlowInv, Types, Owned, Unclaimed, Claimed, Running
<1>8. Told(f)'
  BY <1>1, <1>2, <1>4 DEF FlowInv, Types, Told, Known, Written
<1>9. Counts(f)'
  BY <1>1, <1>2 DEF FlowInv, Types, Counts
<1>10. hub' \subseteq Flows /\ (f \in hub' <=> pc'[f] \in Guarded)
  BY <1>1, <1>2 DEF FlowInv, Types, HubHoldsLiveGuards, Guarded, Running
<1> QED
  BY <1>5, <1>6, <1>7, <1>8, <1>9, <1>10, OneMoves

\* The middleware guard drops: it takes the claim only if nobody did.
LEMMA DropStep ==
    ASSUME FlowInv, NEW f \in Flows, DropL0(f)
    PROVE  FlowInv'
<1>1. UNCHANGED <<store, pc, task, ending, hub, metrics>>
  BY DEF DropL0, Silent, turn
<1>2. /\ l0[f] = "held" /\ (f \in task \/ pc[f] \in {"left", "gone"})
      /\ l0' = [l0 EXCEPT ![f] = IF claim[f] = "OpenL0" THEN "dropping" ELSE "gone"]
      /\ claim' = [claim EXCEPT ![f] = IF @ = "OpenL0" THEN "Finalized" ELSE @]
  BY DEF DropL0, HandlerIsThrough
<1>3. Types'
  BY <1>1, <1>2 DEF FlowInv, Types
<1>4. \A g \in Flows \ {f} : Unmoved(g) /\ (g \in hub' <=> g \in hub)
  BY <1>1, <1>2 DEF FlowInv, Types, Unmoved, Known
<1>5. Owned(f)'
  BY <1>1, <1>2 DEF FlowInv, Types, Owned, Unclaimed, Claimed, Running
<1>6. Told(f)'
  BY <1>1, <1>2 DEF FlowInv, Types, Told, Owned, Known, Written, Unclaimed
<1>7. Counts(f)'
  BY <1>1 DEF FlowInv, Types, Counts
<1>8. hub' \subseteq Flows /\ (f \in hub' <=> pc'[f] \in Guarded)
  BY <1>1 DEF FlowInv, HubHoldsLiveGuards, Guarded, Running
<1> QED
  BY <1>3, <1>4, <1>5, <1>6, <1>7, <1>8, OneMoves

\* A kill, a look and the clock concern no flow's guards.
LEMMA OutsideStep ==
    ASSUME FlowInv, (\E f \in Flows : Kill(f)) \/ Look \/ Step \/ UNCHANGED vars
    PROVE  FlowInv'
<1>1. UNCHANGED <<claim, l0, pc, task, ending, hub, metrics>>
  BY DEF Kill, Look, Step, vars, turn, Calls, Silent
<1>2. Within(store', store) /\ Proper(store')
  BY PruneWithin, SelfWithin, WithinProper DEF FlowInv, Types, Kill, Look, Step, vars, Calls, Silent
<1>3. Types' /\ HubHoldsLiveGuards'
  BY <1>1, <1>2 DEF FlowInv, Types, HubHoldsLiveGuards, Within
<1>4. \A g \in Flows : Unmoved(g)
  BY <1>1, <1>2 DEF Unmoved, Known, Within
<1> QED
  BY <1>3, <1>4, OthersKeep DEF FlowInv

-----------------------------------------------------------------------------
(* Theorems.                                                               *)

\* Nothing has arrived yet.
LEMMA FlowStarts == Init => FlowInv
<1> SUFFICES ASSUME Init
             PROVE  FlowInv
  OBVIOUS
<1>1. Proper(store) /\ DOMAIN store.recs = {}
  BY DEF Init, EmptyStore, Proper, StoreShape
<1>2. NotEnded \in Ending
  BY DEF NotEnded, Ending, Statuses
<1>3. Types
  BY <1>1, <1>2 DEF Init, Types, Unclaimed
<1>4. \A f \in Flows : Owned(f) /\ Told(f) /\ Counts(f)
  BY <1>1 DEF Init, Owned, Told, Counts, Known, Unclaimed, Claimed, Running, Written
<1>5. HubHoldsLiveGuards
  BY DEF Init, HubHoldsLiveGuards, Guarded, Running
<1> QED
  BY <1>3, <1>4, <1>5 DEF FlowInv

\* Every step keeps the invariant.
LEMMA FlowSteps == FlowInv /\ [Next]_vars => FlowInv'
<1> SUFFICES ASSUME FlowInv, [Next]_vars
             PROVE  FlowInv'
  OBVIOUS
<1>1. ASSUME NEW f \in Flows, Ready(f)
      PROVE  FlowInv'
  <2>1. CASE PrepFails(f) \/ Hangup(f)
    <3>1. ASSUME NEW status \in {"Failed", "Cancelled"}, NEW explicit \in BOOLEAN
          PROVE  Tokenless(status, explicit) \in Ending
                 /\ Tokenless(status, explicit).status \in Terminal
      BY DEF Tokenless, NotEnded, Ending, Statuses, Terminal
    <3> QED
      BY <2>1, <3>1, EndStep DEF PrepFails, Hangup
  <2> QED
    BY <1>1, <2>1, ArriveStep, HandlerStep, CallStep DEF Ready
<1>2. ASSUME NEW f \in Flows, ClientLeaves(f) \/ TurnFails(f) \/ TurnPanics(f)
      PROVE  FlowInv'
  <2>1. PICK e \in Ending : e.status \in Terminal /\ Ends(f, Running, e)
    BY <1>2 DEF ClientLeaves, TurnFails, TurnPanics, Endings, Terminal, Statuses
  <2> QED
    BY <2>1, EndStep
<1>3. ASSUME NEW f \in Flows, TaskStep(f) \/ Streams(f)
      PROVE  FlowInv'
  BY <1>2, <1>3, CallStep, GuardStep, WriteStep DEF TaskStep, Streams, Stop
<1> QED
  BY <1>1, <1>3, DropStep, WriteStep, OutsideStep DEF Next

\* Every reachable state keeps the invariant: one guard owns the claim, it
\* writes the record and nobody else does, and what it wrote stays.
THEOREM FlowKept == Spec => []FlowInv
<1>1. FlowInv /\ [Next]_vars => FlowInv'
  BY FlowSteps
<1> QED
  BY FlowStarts, <1>1, PTL DEF Spec

\* No request that is over leaves its record Open, however it ended, whatever
\* else ran, and whatever the store evicted.
THEOREM RecordsClose == Spec => []NoRecordStuckOpen
<1>1. FlowInv => NoRecordStuckOpen
  BY DEF FlowInv, Types, Told, Known, Written, Terminal, NoRecordStuckOpen
<1> QED
  BY FlowKept, <1>1, PTL

\* The AbortHub holds the tokens of the flows that can still be stopped, and
\* no other.
THEOREM TokensAreLive == Spec => []HubHoldsLiveGuards
<1>1. FlowInv => HubHoldsLiveGuards
  BY DEF FlowInv
<1> QED
  BY FlowKept, <1>1, PTL

\* A turn is counted once, as the record tells it.
THEOREM TurnsCountOnce == Spec => []CountedOnce
<1>1. ASSUME FlowInv
      PROVE  CountedOnce
  <2> SUFFICES ASSUME NEW f \in Flows
               PROVE  /\ Len(metrics[f]) <= 1
                      /\ pc[f] = "gone" /\ ending[f].explicit
                            => metrics[f] = <<ending[f].status>>
                      /\ metrics[f] # <<>> /\ Known(f)
                            => store.recs[f].status = metrics[f][1]
    BY DEF CountedOnce
  <2>1. Counts(f) /\ Told(f)
    BY <1>1 DEF FlowInv
  <2>2. CASE metrics[f] = <<>>
    BY <2>1, <2>2 DEF Counts
  <2>3. CASE metrics[f] # <<>>
    <3>1. pc[f] = "gone" /\ ending[f].explicit /\ metrics[f] = <<ending[f].status>>
      BY <2>1, <2>3 DEF Counts
    <3>2. Len(<<ending[f].status>>) = 1 /\ <<ending[f].status>>[1] = ending[f].status
      OBVIOUS
    <3> QED
      BY <2>1, <3>1, <3>2 DEF Told, Written
  <2> QED
    BY <2>2, <2>3
<1> QED
  BY FlowKept, <1>1, PTL
-----------------------------------------------------------------------------
(* FlowLedger is implemented.                                              *)

\* What the list says of a flow, as Ledger is told.
Sight(f) == IF Known(f) THEN store.recs[f].status
            ELSE IF pc[f] = "idle" THEN "unseen" ELSE "evicted"

Sights == {"unseen", "Open", "evicted"} \cup Terminal

\* A flow is unseen, listed under a status, or evicted.
LEMMA SightType ==
    ASSUME FlowInv
    PROVE  \A g \in Flows : Sight(g) \in Sights
  BY DEF FlowInv, Told, Known, Sight, Sights, Terminal, Statuses

\* The list shows no more of the flows that a step does not concern, and may
\* show less.
LEMMA OthersShed ==
    ASSUME FlowInv, NEW g \in Flows, Unmoved(g)
    PROVE  \/ Sight(g)' = Sight(g)
           \/ Sight(g)' = "evicted" /\ Sight(g) \in {"Open"} \cup Terminal
  BY DEF FlowInv, Told, Known, Unmoved, Sight, Terminal, Statuses

\* A step that concerns one flow, moves it as the ledger allows and counts
\* nothing is a step of the list.
LEMMA StepShows ==
    ASSUME FlowInv, NEW f \in Flows, metrics' = metrics,
           \A g \in Flows \ {f} : Unmoved(g),
           \/ Sight(f)' = Sight(f)
           \/ <<Sight(f), Sight(f)'>> \in Ledger!Moves
    PROVE  Ledger!Show
<1> DEFINE old == [g \in Flows |-> Sight(g)]
           new == [g \in Flows |-> Sight(g)']
<1>1. new \in [Flows -> Sights]
  <2>1. Sight(f)' \in Sights
    BY SightType DEF Sights, Ledger!Moves, Ledger!Terminal, Terminal, Statuses
  <2>2. \A g \in Flows \ {f} : Sight(g)' \in Sights
    BY SightType, OthersShed DEF Sights
  <2> QED
    BY <2>1, <2>2
<1>2. ASSUME NEW g \in Flows
      PROVE  new[g] = old[g] \/ <<old[g], new[g]>> \in Ledger!Moves
  <2>1. CASE g = f
    BY <2>1
  <2>2. CASE g # f
    BY <2>2, OthersShed DEF Ledger!Moves, Ledger!Terminal, Terminal, Statuses
  <2> QED
    BY <2>1, <2>2
<1>3. ASSUME NEW g \in Flows, g # f, new[g] # "evicted"
      PROVE  new[g] = old[g]
  BY <1>3, OthersShed
<1>4. \A g, h \in Flows : {new[g], new[h]} \cap {"evicted"} = {}
          => g = h \/ new[g] = old[g] \/ new[h] = old[h]
  <2> HIDE DEF old, new
  <2> QED
    BY <1>3
<1>5. {g \in Flows : metrics[g] # <<>>}' = {g \in Flows : metrics[g] # <<>>}
  OBVIOUS
<1>6. /\ old = [g \in Flows |-> IF Known(g) THEN store.recs[g].status
                                ELSE IF pc[g] = "idle" THEN "unseen" ELSE "evicted"]
      /\ new = [g \in Flows |-> IF Known(g) THEN store.recs[g].status
                                ELSE IF pc[g] = "idle" THEN "unseen" ELSE "evicted"]'
  BY DEF Sight
<1> HIDE DEF old, new
<1> QED
  BY <1>1, <1>2, <1>4, <1>5, <1>6 DEF Ledger!Show, Ledger!Terminal, Sights, Terminal, Statuses

\* A step that leaves the list's statuses alone.
LEMMA ShedShows ==
    ASSUME FlowInv, NEW f \in Flows, metrics' = metrics,
           \A g \in Flows \ {f} : Unmoved(g),
           Known(f)' => Known(f) /\ store'.recs[f].status = store.recs[f].status,
           pc[f] # "idle", pc'[f] # "idle"
    PROVE  Ledger!Show
<1>1. \/ Sight(f)' = Sight(f)
      \/ Sight(f)' = "evicted" /\ Sight(f) \in {"Open"} \cup Terminal
  BY DEF FlowInv, Told, Known, Sight, Terminal, Statuses
<1>2. Sight(f)' = Sight(f) \/ <<Sight(f), Sight(f)'>> \in Ledger!Moves
  BY <1>1 DEF Ledger!Moves, Ledger!Terminal, Terminal, Statuses
<1> QED
  BY <1>2, StepShows
\* A step of one flow that writes no status and counts nothing.
LEMMA QuietShows ==
    ASSUME FlowInv, NEW f \in Flows,
           \/ GuardL0(f) \/ Reject(f) \/ LookUp(f) \/ ClaimL1(f) \/ WinClaim(f)
           \/ Unregister(f) \/ DropL0(f) \/ Kill(f)
           \/ Normalize(f) \/ Spawn(f) \/ Bind(f) \/ Dispatch(f) \/ ContentDelta(f)
           \/ Usage(f) \/ Complete(f) \/ CommitAttempts(f) \/ CommitBody(f)
           \/ \E from \in {{"prep", "lowered"}, Running}, e \in Ending : Ends(f, from, e)
    PROVE  Ledger!Show
<1>1. /\ \A g \in Flows \ {f} : Unmoved(g)
      /\ metrics' = metrics
      /\ Known(f)' => Known(f) /\ store'.recs[f].status = store.recs[f].status
      /\ pc[f] = "idle" <=> pc'[f] = "idle"
  <2>1. CASE \/ GuardL0(f) \/ Reject(f) \/ LookUp(f) \/ ClaimL1(f) \/ WinClaim(f)
             \/ Unregister(f)
    BY <2>1 DEF FlowInv, Types, Unmoved, Known, Goto, GuardL0, Reject, LookUp, ClaimL1,
       WinClaim, Unregister, Silent
  <2>2. CASE DropL0(f) \/ Kill(f)
    BY <2>2 DEF FlowInv, Types, Unmoved, Known, DropL0, Kill, Silent, turn
  <2>3. CASE \/ Normalize(f) \/ Spawn(f) \/ Bind(f) \/ Dispatch(f) \/ ContentDelta(f)
             \/ Usage(f) \/ Complete(f) \/ CommitAttempts(f) \/ CommitBody(f)
    <3>1. Within(store', store)
      BY <2>3, CallsOnlyShed DEF FlowInv, Types
    <3> QED
      BY <2>3, <3>1 DEF FlowInv, Types, Within, Unmoved, Known, Goto, Calls, Normalize, Spawn, Bind,
         Dispatch, ContentDelta, Usage, Complete, CommitAttempts, CommitBody, Running
  <2>4. CASE \E from \in {{"prep", "lowered"}, Running}, e \in Ending : Ends(f, from, e)
    BY <2>4 DEF FlowInv, Types, Unmoved, Known, Goto, Ends, Silent, Running
  <2> QED
    BY <2>1, <2>2, <2>3, <2>4
<1>2. CASE pc[f] = "idle"
  <2>1. ~Known(f) /\ Sight(f)' = Sight(f)
    BY <1>1, <1>2 DEF FlowInv, Told, Sight
  <2> QED
    BY <1>1, <2>1, StepShows
<1>3. CASE pc[f] # "idle"
  BY <1>1, <1>3, ShedShows
<1> QED
  BY <1>2, <1>3

\* A flow is listed when it arrives, and leaves "Open" when it is finalized:
\* until then nobody else has written a status.
LEMMA WritesShow ==
    ASSUME FlowInv, NEW f \in Flows, Arrive(f) \/ FinalizeRecord(f) \/ FinalizeL0(f)
    PROVE  Ledger!Show
<1>1. CASE Arrive(f)
  <2>1. /\ UNCHANGED <<claim, l0, task, ending, metrics>>
        /\ pc[f] = "idle" /\ pc' = [pc EXCEPT ![f] = "opened"]
    BY <1>1 DEF Arrive, Calls, Goto
  <2>2. /\ DOMAIN store'.recs \subseteq DOMAIN store.recs \cup {f}
        /\ \A g \in DOMAIN store'.recs : store'.recs[g].status =
              IF g = f THEN "Open" ELSE store.recs[g].status
    BY <1>1, OpenShape DEF FlowInv, Types, Arrive, Calls
  <2>3. \A g \in Flows \ {f} : Unmoved(g)
    BY <2>1, <2>2 DEF FlowInv, Types, Unmoved, Known
  <2>4. Sight(f) = "unseen" /\ Sight(f)' \in {"Open", "evicted"}
    BY <2>1, <2>2 DEF FlowInv, Types, Told, Known, Sight
  <2>5. <<Sight(f), Sight(f)'>> \in Ledger!Moves
    BY <2>4 DEF Ledger!Moves
  <2> QED
    BY <2>1, <2>3, <2>5, StepShows
<1>2. CASE FinalizeRecord(f) \/ FinalizeL0(f)
  <2> DEFINE status == IF pc[f] = "left" THEN "Failed" ELSE ending[f].status
  <2>1. UNCHANGED <<claim, task, ending, metrics>>
    BY <1>2 DEF FinalizeRecord, FinalizeL0, Calls, turn
  <2>2. \/ /\ pc[f] = "finalizing" /\ pc' = [pc EXCEPT ![f] = "tracing"] /\ l0' = l0
        \/ /\ pc[f] = "left" /\ pc' = pc
           /\ l0[f] = "dropping" /\ l0' = [l0 EXCEPT ![f] = "gone"]
    BY <1>2 DEF FlowInv, Owned, FinalizeRecord, FinalizeL0, Calls, Goto, turn
  <2>3. store' = Finalize(store, f, status)
    BY <1>2, <2>2 DEF FlowInv, Owned, FinalizeRecord, FinalizeL0, Calls, Goto
  <2>4. status \in Terminal
    BY <2>2 DEF FlowInv, Told, Terminal, Statuses
  <2> HIDE DEF status
  <2>5. /\ DOMAIN store'.recs \subseteq DOMAIN store.recs
        /\ \A g \in DOMAIN store'.recs : store'.recs[g].status =
              IF g = f THEN status ELSE store.recs[g].status
    BY <2>3, FinalizeShape DEF FlowInv, Types
  <2>6. \A g \in Flows \ {f} : Unmoved(g)
    BY <2>1, <2>2, <2>5 DEF FlowInv, Types, Unmoved, Known
  <2>7. CASE Known(f)
    <3>1. Sight(f) = "Open" /\ Sight(f)' \in Terminal \cup {"evicted"}
      BY <2>2, <2>4, <2>5, <2>7 DEF FlowInv, Types, Told, Known, Sight, Written
    <3>2. <<Sight(f), Sight(f)'>> \in Ledger!Moves
      BY <3>1 DEF Ledger!Moves, Ledger!Terminal, Terminal, Statuses
    <3> QED
      BY <2>1, <2>6, <3>2, StepShows
  <2>8. CASE ~Known(f)
    <3>1. Sight(f)' = Sight(f)
      BY <2>2, <2>5, <2>8 DEF FlowInv, Types, Known, Sight
    <3> QED
      BY <2>1, <2>6, <3>1, StepShows
  <2> QED
    BY <2>7, <2>8
<1> QED
  BY <1>1, <1>2

\* The one step that counts.
LEMMA CountsOnce ==
    ASSUME FlowInv, NEW f \in Flows, CountTerminal(f)
    PROVE  Ledger!Count(f)
<1>1. /\ UNCHANGED <<store, claim, l0, ending>>
      /\ pc[f] = "counting" /\ pc' = [pc EXCEPT ![f] = "gone"]
      /\ metrics' = [metrics EXCEPT ![f] = Append(@, ending[f].status)]
  BY DEF CountTerminal, Goto
<1>2. Sight(f) \in Terminal \cup {"evicted"}
  BY <1>1 DEF FlowInv, Told, Sight, Written
<1>3. metrics[f] = <<>> /\ metrics'[f] # <<>>
  BY <1>1 DEF FlowInv, Types, Counts
<1>4. {g \in Flows : metrics[g] # <<>>}' = {g \in Flows : metrics[g] # <<>>} \cup {f}
  BY <1>1, <1>3 DEF FlowInv, Types
<1>5. \A g \in Flows : pc'[g] = "idle" <=> pc[g] = "idle"
  BY <1>1 DEF FlowInv, Types
<1>6. [g \in Flows |-> IF Known(g) THEN store.recs[g].status
                       ELSE IF pc[g] = "idle" THEN "unseen" ELSE "evicted"]'
      = [g \in Flows |-> IF Known(g) THEN store.recs[g].status
                         ELSE IF pc[g] = "idle" THEN "unseen" ELSE "evicted"]
  BY <1>1, <1>5 DEF Known
<1> QED
  BY <1>2, <1>3, <1>4, <1>6 DEF Ledger!Count, Ledger!Terminal, Sight, Terminal, Statuses

\* A look or a step of the clock.
LEMMA OutsideShows ==
    ASSUME FlowInv, Look \/ Step \/ UNCHANGED vars
    PROVE  [Ledger!Next]_(Ledger!lvars)
<1>1. UNCHANGED <<claim, l0, pc, task, ending, metrics>>
  BY DEF Look, Step, vars, turn, Calls
<1>2. Within(store', store)
  BY PruneWithin, SelfWithin DEF FlowInv, Types, Look, Step, vars, Calls
<1>3. \A g \in Flows : Unmoved(g)
  BY <1>1, <1>2 DEF Unmoved, Known, Within
<1>4. ASSUME NEW f \in Flows
      PROVE  Ledger!Show
  <2>1. Sight(f)' = Sight(f) \/ <<Sight(f), Sight(f)'>> \in Ledger!Moves
    BY <1>3, OthersShed DEF Ledger!Moves, Ledger!Terminal, Terminal, Statuses
  <2> QED
    BY <1>1, <1>3, <2>1, StepShows
<1>5. CASE Flows = {}
  BY <1>1, <1>5 DEF Ledger!lvars
<1> QED
  BY <1>4, <1>5 DEF Ledger!Next

\* The list and the metrics keep the ledger's promises, whatever is evicted,
\* killed, dropped or left in whatever order.
THEOREM LedgerIsKept == Spec => ImplementsLedger
<1>1. Init => Ledger!Init
  BY DEF Init, Ledger!Init, EmptyStore, Known
<1>2. ASSUME FlowInv, [Next]_vars
      PROVE  [Ledger!Next]_(Ledger!lvars)
  <2>1. ASSUME NEW f \in Flows, Ready(f) \/ TaskStep(f) \/ Streams(f)
                                \/ DropL0(f) \/ FinalizeL0(f) \/ Kill(f)
        PROVE  Ledger!Next
    <3>1. CASE \E from \in {{"prep", "lowered"}, Running}, e \in Ending : Ends(f, from, e)
      BY <1>2, <3>1, QuietShows DEF Ledger!Next
    <3>2. CASE PrepFails(f) \/ Hangup(f)
      <4>1. \A status \in Statuses, explicit \in BOOLEAN : Tokenless(status, explicit) \in Ending
        BY DEF Tokenless, NotEnded, Ending, Statuses
      <4> QED
        BY <3>1, <3>2, <4>1 DEF PrepFails, Hangup, Statuses
    <3>3. CASE ClientLeaves(f) \/ TurnFails(f) \/ TurnPanics(f)
      BY <3>1, <3>3 DEF ClientLeaves, TurnFails, TurnPanics, Endings
    <3>4. CASE CountTerminal(f)
      BY <1>2, <3>4, CountsOnce DEF Ledger!Next
    <3>5. CASE Arrive(f) \/ FinalizeRecord(f) \/ FinalizeL0(f)
      BY <1>2, <3>5, WritesShow DEF Ledger!Next
    <3> QED
      BY <1>2, <2>1, <3>2, <3>3, <3>4, <3>5, QuietShows
         DEF Ready, TaskStep, Streams, Stop, Ledger!Next
  <2> QED
    BY <1>2, <2>1, OutsideShows DEF Next
<1> QED
  BY FlowKept, <1>1, <1>2, PTL DEF Spec, ImplementsLedger, Ledger!Spec

==============================================================================
