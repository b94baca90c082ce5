---------------------------- MODULE MetricsProofs ----------------------------
(***************************************************************************)
(* Proofs about MetricsLayer, for any flows, any window lengths, any unit  *)
(* of the clock and any limits: the windows tell the turns of their last   *)
(* seconds, a snapshot is one instant of the flow store and the metrics,   *)
(* and the ring of snapshots answers every time.  The invariant has four   *)
(* parts: the turns and their seconds (Times), the slots of the rings      *)
(* (Rings), the records of the flow store (Records) and the snapshot under *)
(* way (Cuts); the ring of snapshots has one of its own (History).         *)
(***************************************************************************)
EXTENDS MetricsLayer, FlowProofs, Integers
LOCAL INSTANCE FiniteSetsExt

USE MetricsAssumption DEF MetricsAssumption

-----------------------------------------------------------------------------
(* Arithmetic of the rings.                                                *)

\* A later moment is in no earlier second.
LEMMA DivMono ==
    ASSUME NEW m \in Nat \ {0}, NEW a \in Nat, NEW b \in Nat, a <= b
    PROVE  a \div m <= b \div m
  OBVIOUS

\* A moment is in some second.
LEMMA DivNat ==
    ASSUME NEW m \in Nat \ {0}, NEW a \in Nat
    PROVE  a \div m \in Nat
  OBVIOUS

\* Multiples of w are at least w apart.
LEMMA Mul ==
    ASSUME NEW w \in Nat \ {0}, NEW k \in Int, NEW l \in Int, k < l
    PROVE  w * k + w <= w * l
  OBVIOUS

\* Two seconds of one slot are the same or at least a lap apart.
LEMMA Congruent ==
    ASSUME NEW w \in Nat \ {0}, NEW a \in Nat, NEW b \in Nat,
           a % w = b % w, a < b + w, a # b
    PROVE  a + w <= b
<1>1. a = w * (a \div w) + (a % w) /\ b = w * (b \div w) + (b % w)
  OBVIOUS
<1>2. a \div w \in Int /\ b \div w \in Int /\ a % w \in 0..(w-1)
  OBVIOUS
<1>3. ~(a \div w > b \div w)
  BY <1>1, <1>2, Mul
<1>4. a \div w # b \div w
  BY <1>1, <1>2
<1>5. w * (a \div w) + w <= w * (b \div w)
  BY <1>2, <1>3, <1>4, Mul
<1>6. w * (a \div w) \in Int /\ w * (b \div w) \in Int
  BY <1>2
<1> QED
  BY <1>1, <1>2, <1>5, <1>6

-----------------------------------------------------------------------------
(* The turns and the rings.                                                *)

Stages == {"new", "open", "over", "dropped", "waiting", "counted"}

\* A turn's terminal is counted in a second that has come, and before it is
\* counted no ring has gone round.
Times ==
    /\ clock \in Nat
    /\ progress \in [Flows -> Stages]
    /\ sampled \in [Flows -> Nat]
    /\ \A f \in Flows : progress[f] \in {"waiting", "counted"} => sampled[f] <= Second(clock)
    /\ \A f \in Flows, w \in Windows : progress[f] = "waiting" => Second(clock) < sampled[f] + w

Ring(w) == [0..(w - 1) -> [second : Nat, of : SUBSET Flows]]

\* A slot holds the turns counted in its second, all of them, and a turn that
\* is no longer in its slot was pushed out by a later lap.
Rings ==
    /\ slots = [w \in Windows |-> slots[w]]
    /\ \A w \in Windows :
          /\ slots[w] \in Ring(w)
          /\ \A i \in 0..(w - 1) :
                /\ slots[w][i].of =
                      {f \in AllCounted : sampled[f] % w = i /\ sampled[f] = slots[w][i].second}
                /\ slots[w][i].second <= Second(clock)
          /\ \A f \in AllCounted :
                LET second == slots[w][sampled[f] % w].second
                IN  second = sampled[f] \/ second >= sampled[f] + w

\* The clock goes forward, and so do the seconds.
LEMMA ClockSteps ==
    ASSUME Times, [MetricsNext]_metricsVars
    PROVE  clock' \in Nat /\ clock <= clock' /\ Second(clock) <= Second(clock')
           /\ Second(clock) \in Nat /\ Second(clock') \in Nat
<1>1. clock' = clock \/ clock' = clock + 1
  BY DEF MetricsNext, metricsVars, OpenTurn, FinalizeTurn, DropTurn, SampleSecond,
         RecordTerminal, ListFlows, NestMetrics, StampCut, ViewMetrics, PushCut, Advance
<1>2. clock \in Nat /\ clock' \in Nat /\ clock <= clock'
  BY <1>1 DEF Times
<1> QED
  BY <1>2, DivMono, DivNat DEF Second

\* The second that a terminal reads is the present one.
LEMMA SampleStep ==
    ASSUME Times, NEW f \in Flows, SampleSecond(f)
    PROVE  Times'
<1>1. /\ Second(clock) \in Nat
      /\ clock' = clock
      /\ progress[f] = "over"
      /\ progress' = [progress EXCEPT ![f] = "waiting"]
      /\ sampled' = [sampled EXCEPT ![f] = Second(clock)]
  BY DivNat DEF SampleSecond, TurnGoes, Times, Second
<1>2. Windows \subseteq Nat \ {0}
  OBVIOUS
<1> QED
  BY <1>1, <1>2 DEF Times, Stages, Second

\* Every step preserves Times.
LEMMA TimesStep ==
    ASSUME Times, [MetricsNext]_metricsVars
    PROVE  Times'
<1>1. ASSUME NEW f \in Flows, OpenTurn(f) \/ FinalizeTurn(f) \/ DropTurn(f) \/ RecordTerminal(f)
      PROVE  Times'
  BY <1>1 DEF Times, Stages, OpenTurn, FinalizeTurn, DropTurn, RecordTerminal, TurnGoes, Second
<1>2. CASE Advance
  <2>1. /\ clock' = clock + 1 /\ UNCHANGED <<progress, sampled>>
        /\ \A f \in Flows, w \in Windows :
              progress[f] = "waiting" => Second(clock + 1) < sampled[f] + w
    BY <1>2 DEF Advance, turnVars
  <2>2. Second(clock) \in Nat /\ Second(clock') \in Nat /\ Second(clock) <= Second(clock')
    BY ClockSteps
  <2> QED
    BY <2>1, <2>2 DEF Times, Second
<1>3. CASE ListFlows \/ NestMetrics \/ StampCut \/ ViewMetrics \/ PushCut \/ UNCHANGED metricsVars
  BY <1>3 DEF Times, Second, ListFlows, NestMetrics, StampCut, ViewMetrics, PushCut,
              metricsVars, turnVars
<1> QED
  BY <1>1, <1>2, <1>3, SampleStep DEF MetricsNext

\* Counting a turn empties a slot only of turns at least a lap older.
LEMMA RecordStep ==
    ASSUME Times, Rings, NEW f \in Flows, RecordTerminal(f)
    PROVE  Rings'
<1> DEFINE t == sampled[f]
           now == Second(clock)
<1>1. /\ clock' = clock /\ sampled' = sampled
      /\ AllCounted' = AllCounted \cup {f} /\ f \notin AllCounted
      /\ slots' = [w \in Windows |-> Counted(w, slots[w], f, t)]
      /\ t \in Nat /\ t <= now /\ \A w \in Windows : now < t + w
  BY DEF RecordTerminal, TurnGoes, Times, AllCounted
<1>2. now \in Nat
  BY DivNat DEF Second, Times
<1>3. ASSUME NEW w \in Windows
      PROVE  /\ slots'[w] \in Ring(w)
             /\ \A i \in 0..(w - 1) :
                   /\ slots'[w][i].of =
                         {g \in AllCounted' : sampled[g] % w = i /\ sampled[g] = slots'[w][i].second}
                   /\ slots'[w][i].second <= now
             /\ \A g \in AllCounted' :
                   \/ slots'[w][sampled[g] % w].second = sampled[g]
                   \/ slots'[w][sampled[g] % w].second >= sampled[g] + w
  <2> DEFINE i == t % w
             old == slots[w][i]
             new == Entered(old, f, t)
  <2>1. i \in 0..(w - 1) /\ w \in Nat \ {0}
    BY <1>1
  <2>2. /\ slots[w] \in Ring(w)
        /\ old \in [second : Nat, of : SUBSET Flows]
        /\ old.of = {g \in AllCounted : sampled[g] % w = i /\ sampled[g] = old.second}
        /\ old.second <= now
    BY <2>1 DEF Rings, Ring
  <2>3. slots'[w] = [slots[w] EXCEPT ![i] = new]
    BY <1>1 DEF Counted
  <2>4. /\ new \in [second : Nat, of : SUBSET Flows]
        /\ new.second = t
        /\ new.of = {f} \cup (IF old.second = t THEN old.of ELSE {})
    BY <1>1, <2>2 DEF Entered, SlotFor
  <2>5. \A g \in AllCounted : g \in Flows /\ sampled[g] \in Nat /\ sampled[g] <= now
    BY DEF Times, AllCounted
  <2>6. ASSUME NEW g \in AllCounted, sampled[g] = t
        PROVE  old.second = t
    BY <1>1, <1>2, <2>1, <2>2, <2>6 DEF Rings
  <2>7. new.of = {g \in AllCounted' : sampled[g] % w = i /\ sampled[g] = t}
    <3> HIDE DEF old, new
    <3> QED
      BY <1>1, <2>2, <2>4, <2>6 DEF i
  <2>8. ASSUME NEW g \in AllCounted, sampled[g] % w = i, sampled[g] # t
        PROVE  t >= sampled[g] + w
    <3>1. sampled[g] < t + w
      BY <1>1, <1>2, <2>1, <2>5
    <3> QED
      BY <1>1, <2>1, <2>5, <2>8, <3>1, Congruent
  <2>9. slots'[w][i] = new /\ \A j \in 0..(w - 1) : j # i => slots'[w][j] = slots[w][j]
    BY <2>1, <2>2, <2>3 DEF Ring
  <2> HIDE DEF old, new
  <2>10. slots'[w] \in Ring(w)
    BY <2>1, <2>2, <2>3, <2>4 DEF Ring
  <2>11. ASSUME NEW j \in 0..(w - 1)
         PROVE  /\ slots'[w][j].of =
                      {g \in AllCounted' : sampled[g] % w = j /\ sampled[g] = slots'[w][j].second}
                /\ slots'[w][j].second <= now
    <3>1. CASE j = i
      BY <1>1, <2>4, <2>7, <2>9, <3>1
    <3>2. CASE j # i
      <4>1. /\ slots[w][j].of =
                  {g \in AllCounted : sampled[g] % w = j /\ sampled[g] = slots[w][j].second}
            /\ slots[w][j].second <= now
        BY DEF Rings
      <4> QED
        BY <1>1, <2>9, <3>2, <4>1 DEF i
    <3> QED
      BY <3>1, <3>2
  <2>12. ASSUME NEW g \in AllCounted'
         PROVE  \/ slots'[w][sampled[g] % w].second = sampled[g]
                \/ slots'[w][sampled[g] % w].second >= sampled[g] + w
    <3>1. CASE sampled[g] % w = i
      BY <1>1, <2>4, <2>8, <2>9, <2>12, <3>1
    <3>2. CASE sampled[g] % w # i
      <4>1. g \in AllCounted
        BY <1>1, <2>12, <3>2
      <4>2. sampled[g] % w \in 0..(w - 1)
        BY <2>1, <2>5, <4>1
      <4> QED
        BY <2>9, <3>2, <4>1, <4>2 DEF Rings
    <3> QED
      BY <3>1, <3>2
  <2> QED
    BY <2>10, <2>11, <2>12
<1>4. slots' = [w \in Windows |-> slots'[w]]
  BY <1>1
<1>5. Second(clock)' = now
  BY <1>1 DEF Second
<1> QED
  BY <1>1, <1>3, <1>4, <1>5 DEF Rings

\* Every step preserves Rings.
LEMMA RingsStep ==
    ASSUME Times, Rings, [MetricsNext]_metricsVars
    PROVE  Rings'
<1>1. Second(clock) \in Nat /\ Second(clock)' \in Nat /\ Second(clock) <= Second(clock)'
  BY ClockSteps DEF Second
<1>2. CASE \E f \in Flows : RecordTerminal(f)
  BY <1>2, RecordStep
<1>3. CASE ~(\E f \in Flows : RecordTerminal(f))
  <2>1. slots' = slots
    BY <1>3 DEF MetricsNext, metricsVars, OpenTurn, FinalizeTurn, DropTurn, SampleSecond,
               ListFlows, NestMetrics, StampCut, ViewMetrics, PushCut, Advance
  <2>2. AllCounted' = AllCounted /\ \A f \in AllCounted : sampled'[f] = sampled[f]
    BY <1>3 DEF MetricsNext, metricsVars, OpenTurn, FinalizeTurn, DropTurn, SampleSecond,
                ListFlows, NestMetrics, StampCut, ViewMetrics, PushCut, Advance,
                turnVars, TurnGoes, Times, Stages, AllCounted
  <2>3. \A w \in Windows : \A i \in 0..(w - 1) : slots[w][i].second <= Second(clock)'
    BY <1>1 DEF Rings, Ring
  <2> QED
    BY <2>1, <2>2, <2>3 DEF Rings
<1> QED
  BY <1>2, <1>3

\* A ring that is at no later second than now tells the turns of the window
\* that ends now.
LEMMA AggregateExact ==
    ASSUME Times, Rings, NEW w \in Windows, NEW now \in Nat,
           \A i \in 0..(w - 1) : slots[w][i].second <= now
    PROVE  Aggregate(w, slots[w], now) = {f \in AllCounted : sampled[f] \in InWindow(w, now)}
<1>1. w \in Nat \ {0} /\ slots[w] \in Ring(w)
  BY DEF Rings
<1>2. ASSUME NEW f \in Aggregate(w, slots[w], now)
      PROVE  f \in AllCounted /\ sampled[f] \in InWindow(w, now)
  BY <1>1, <1>2 DEF Aggregate, Ring, Rings
<1>3. ASSUME NEW f \in AllCounted, sampled[f] \in InWindow(w, now)
      PROVE  f \in Aggregate(w, slots[w], now)
  <2> DEFINE i == sampled[f] % w
  <2>1. sampled[f] \in Nat /\ i \in 0..(w - 1)
    BY <1>1 DEF Times, AllCounted
  <2>2. slots[w][i].second \in Nat /\ slots[w][i].second <= now
    BY <1>1, <2>1 DEF Ring
  <2>3. now < sampled[f] + w
    BY <1>1, <1>3, <2>1 DEF InWindow, Minus
  <2>4. slots[w][i].second = sampled[f]
    BY <1>1, <2>1, <2>2, <2>3 DEF Rings
  <2>5. f \in slots[w][i].of
    BY <2>1, <2>4 DEF Rings
  <2> QED
    BY <1>1, <1>3, <2>1, <2>4, <2>5 DEF Aggregate, Ring
<1> QED
  BY <1>2, <1>3

-----------------------------------------------------------------------------
(* The records.                                                            *)

\* A record that says Open belongs to a turn that is under way.
Records ==
    /\ Proper(store)
    /\ \A f \in DOMAIN store.recs :
          /\ f \in Flows
          /\ store.recs[f].started \in Nat
          /\ store.recs[f].started <= clock
          /\ store.recs[f].status = "Open" => progress[f] = "open"

\* The steps of a turn preserve Records.
LEMMA TurnsKeepRecords ==
    ASSUME Times, Records, NEW f \in Flows,
           OpenTurn(f) \/ FinalizeTurn(f) \/ DropTurn(f) \/ SampleSecond(f) \/ RecordTerminal(f)
    PROVE  Records'
<1>1. CASE OpenTurn(f)
  <2>1. /\ store' = Open(store, f) /\ clock' = clock
        /\ progress[f] = "new" /\ progress' = [progress EXCEPT ![f] = "open"]
    BY <1>1 DEF OpenTurn, TurnGoes
  <2>2. /\ Proper(Open(store, f))
        /\ DOMAIN Open(store, f).recs \subseteq DOMAIN store.recs \cup {f}
        /\ \A g \in DOMAIN Open(store, f).recs :
              IF g = f THEN Open(store, f).recs[g].started = clock
              ELSE /\ Open(store, f).recs[g].started = store.recs[g].started
                   /\ Open(store, f).recs[g].status = store.recs[g].status
    BY OpenShape DEF Records
  <2> QED
    BY <2>1, <2>2 DEF Records, Times
<1>2. ASSUME NEW status, status # "Open", NEW to, store' = Finalize(store, f, status),
             clock' = clock, progress' = [progress EXCEPT ![f] = to]
      PROVE  Records'
  <2>1. /\ Proper(Finalize(store, f, status))
        /\ DOMAIN Finalize(store, f, status).recs \subseteq DOMAIN store.recs
        /\ \A g \in DOMAIN Finalize(store, f, status).recs :
              /\ Finalize(store, f, status).recs[g].started = store.recs[g].started
              /\ Finalize(store, f, status).recs[g].status =
                    IF g = f THEN status ELSE store.recs[g].status
    BY FinalizeShape DEF Records
  <2> QED
    BY <1>2, <2>1 DEF Records, Times
<1>3. CASE FinalizeTurn(f) \/ DropTurn(f)
  BY <1>2, <1>3 DEF FinalizeTurn, DropTurn, TurnGoes
<1>4. CASE SampleSecond(f) \/ RecordTerminal(f)
  <2>1. /\ store' = store /\ clock' = clock
        /\ progress[f] # "open"
        /\ \A g \in Flows : g # f => progress'[g] = progress[g]
    BY <1>4 DEF SampleSecond, RecordTerminal, TurnGoes, Times
  <2> QED
    BY <2>1 DEF Records
<1> QED
  BY <1>1, <1>3, <1>4

\* Every step preserves Records.
LEMMA RecordsStep ==
    ASSUME Times, Records, [MetricsNext]_metricsVars
    PROVE  Records'
<1>1. ASSUME NEW f \in Flows,
             OpenTurn(f) \/ FinalizeTurn(f) \/ DropTurn(f) \/ SampleSecond(f) \/ RecordTerminal(f)
      PROVE  Records'
  BY <1>1, TurnsKeepRecords
<1>2. CASE ListFlows
  <2>1. store' = Prune(store) /\ UNCHANGED <<clock, progress>>
    BY <1>2 DEF ListFlows, turnVars
  <2>2. Within(Prune(store), store) /\ Proper(Prune(store))
    BY PruneWithin, WithinProper DEF Records
  <2> QED
    BY <2>1, <2>2 DEF Records, Within
<1>3. CASE NestMetrics \/ StampCut \/ ViewMetrics \/ PushCut \/ Advance \/ UNCHANGED metricsVars
  <2>1. UNCHANGED <<store, progress>>
    BY <1>3 DEF NestMetrics, StampCut, ViewMetrics, PushCut, Advance, metricsVars, turnVars
  <2>2. clock' \in Nat /\ clock <= clock' /\ clock \in Nat
    BY ClockSteps DEF Times
  <2> QED
    BY <2>1, <2>2 DEF Records
<1> QED
  BY <1>1, <1>2, <1>3 DEF MetricsNext

-----------------------------------------------------------------------------
(* The snapshot under way.                                                 *)

CutShape(c) ==
    c \in [rows : {c.rows}, told : {c.told}, read : {c.read}, taken : {c.taken}, view : {c.view}]

\* While the flow store is locked: no row is from the future, and an open row
\* is still open.
RowsEarly ==
    \A f \in DOMAIN cut.rows : cut.rows[f].started \in Nat /\ cut.rows[f].started <= clock

Frozen ==
    \A f \in DOMAIN cut.rows :
        cut.rows[f].status = "Open" => f \in Flows /\ progress[f] = "open"

\* While the metrics are locked: the cut covers the turns counted, which are
\* over in its rows, and nothing in rows or rings is later than its reading.
Tallied ==
    /\ cut.told = AllCounted
    /\ cut.read \in Nat /\ cut.read <= clock
    /\ \A f \in DOMAIN cut.rows : cut.rows[f].started \in Nat /\ cut.rows[f].started <= cut.read
    /\ \A f \in cut.told \cap DOMAIN cut.rows : cut.rows[f].status # "Open"
    /\ \A f \in cut.told : sampled[f] <= Second(cut.read)
    /\ \A w \in Windows : \A i \in 0..(w - 1) : slots[w][i].second <= Second(cut.read)

Stamped == cut.taken \in Nat /\ cut.read <= cut.taken

Viewed ==
    \A w \in Windows :
        cut.view[w] = {f \in cut.told : sampled[f] \in InWindow(w, Second(cut.taken))}

\* What has been established at each stage.
Cuts ==
    /\ stage \in {"idle", "listed", "nested", "stamped", "viewed"}
    /\ CutShape(cut)
    /\ stage = "listed" => RowsEarly
    /\ stage \in {"listed", "nested"} => Frozen
    /\ stage \in {"nested", "stamped", "viewed"} => Tallied
    /\ stage \in {"stamped", "viewed"} => Stamped
    /\ stage = "viewed" => Viewed

\* The rows are listed under the flow store's lock.
LEMMA ListKeepsCuts ==
    ASSUME Times, Records, Cuts, ListFlows
    PROVE  Cuts'
<1> DEFINE rows == [f \in DOMAIN store'.recs |-> [status |-> store'.recs[f].status,
                                                  started |-> store'.recs[f].started]]
<1>1. /\ stage' = "listed" /\ clock' = clock /\ progress' = progress
      /\ cut' = [NoCut EXCEPT !.rows = rows]
  BY DEF ListFlows, turnVars
<1>2. Records'
  BY RecordsStep DEF MetricsNext
<1> HIDE DEF rows
<1>3. CutShape(cut') /\ cut'.rows = rows
  BY <1>1 DEF CutShape, NoCut
<1>4. RowsEarly' /\ Frozen'
  BY <1>1, <1>2, <1>3 DEF RowsEarly, Frozen, Records, rows
<1> QED
  BY <1>1, <1>3, <1>4 DEF Cuts

\* The metrics are locked inside it: no turn of an open row has been counted.
LEMMA NestKeepsCuts ==
    ASSUME Times, Rings, Cuts, NestMetrics
    PROVE  Cuts'
<1>1. /\ stage = "listed" /\ stage' = "nested"
      /\ cut' = [cut EXCEPT !.told = AllCounted, !.read = clock]
      /\ UNCHANGED <<clock, progress, sampled, slots>>
  BY DEF NestMetrics, turnVars
<1>2. CutShape(cut') /\ cut'.rows = cut.rows /\ cut'.told = AllCounted /\ cut'.read = clock
  BY <1>1 DEF CutShape, Cuts
<1>3. RowsEarly /\ Frozen /\ AllCounted' = AllCounted
  BY <1>1 DEF Cuts, AllCounted
<1>4. Frozen'
  BY <1>1, <1>2, <1>3 DEF Frozen
<1>5. Tallied'
  <2>1. \A f \in AllCounted : f \in Flows /\ progress[f] = "counted" /\ sampled[f] <= Second(clock)
    BY DEF AllCounted, Times
  <2>2. \A w \in Windows : \A i \in 0..(w - 1) : slots[w][i].second <= Second(clock)
    BY DEF Rings
  <2>3. cut'.read \in Nat /\ cut'.read <= clock'
    BY <1>1, <1>2 DEF Times
  <2>4. \A f \in cut'.told : sampled'[f] <= Second(cut'.read)
    BY <1>1, <1>2, <2>1
  <2>5. \A w \in Windows : \A i \in 0..(w - 1) : slots'[w][i].second <= Second(cut'.read)
    BY <1>1, <1>2, <2>2
  <2>6. \A f \in DOMAIN cut'.rows :
            cut'.rows[f].started \in Nat /\ cut'.rows[f].started <= cut'.read
    BY <1>2, <1>3 DEF RowsEarly
  <2>7. \A f \in cut'.told \cap DOMAIN cut'.rows : cut'.rows[f].status # "Open"
    BY <1>2, <1>3, <2>1 DEF Frozen
  <2> QED
    BY <1>2, <1>3, <2>3, <2>4, <2>5, <2>6, <2>7 DEF Tallied, Second
<1> QED
  BY <1>1, <1>2, <1>4, <1>5 DEF Cuts

\* The clock is read after everything else.
LEMMA StampKeepsCuts ==
    ASSUME Times, Cuts, StampCut
    PROVE  Cuts'
<1>1. /\ stage = "nested" /\ stage' = "stamped"
      /\ cut' = [cut EXCEPT !.taken = clock]
      /\ UNCHANGED <<clock, progress, sampled, slots>>
  BY DEF StampCut, turnVars
<1>2. /\ CutShape(cut') /\ cut'.rows = cut.rows /\ cut'.told = cut.told
      /\ cut'.read = cut.read /\ cut'.taken = clock
  BY <1>1 DEF CutShape, Cuts
<1>3. Tallied /\ AllCounted' = AllCounted
  BY <1>1 DEF Cuts, AllCounted
<1>4. Tallied'
  BY <1>1, <1>2, <1>3 DEF Tallied, Second
<1>5. Stamped'
  BY <1>2, <1>3 DEF Tallied, Stamped, Times
<1> QED
  BY <1>1, <1>2, <1>4, <1>5 DEF Cuts

\* The windows are computed from rings that have not moved since.
LEMMA ViewKeepsCuts ==
    ASSUME Times, Rings, Cuts, ViewMetrics
    PROVE  Cuts'
<1>1. /\ stage = "stamped" /\ stage' = "viewed"
      /\ cut' = [cut EXCEPT !.view =
                    [w \in Windows |-> Aggregate(w, slots[w], Second(cut.taken))]]
      /\ UNCHANGED <<clock, progress, sampled, slots>>
  BY DEF ViewMetrics, turnVars
<1>2. /\ CutShape(cut') /\ cut'.rows = cut.rows /\ cut'.told = cut.told
      /\ cut'.read = cut.read /\ cut'.taken = cut.taken
      /\ cut'.view = [w \in Windows |-> Aggregate(w, slots[w], Second(cut.taken))]
  BY <1>1 DEF CutShape, Cuts
<1>3. Tallied /\ Stamped /\ AllCounted' = AllCounted
  BY <1>1 DEF Cuts, AllCounted
<1>4. Tallied' /\ Stamped'
  BY <1>1, <1>2, <1>3 DEF Tallied, Stamped, Second
<1>5. Second(cut.read) \in Nat /\ Second(cut.taken) \in Nat /\ Second(cut.read) <= Second(cut.taken)
  BY <1>3, DivNat, DivMono DEF Tallied, Stamped, Second
<1>6. ASSUME NEW w \in Windows
      PROVE  Aggregate(w, slots[w], Second(cut.taken)) =
                {f \in cut.told : sampled[f] \in InWindow(w, Second(cut.taken))}
  <2>1. \A i \in 0..(w - 1) : slots[w][i].second \in Nat
    BY DEF Rings, Ring
  <2>2. \A i \in 0..(w - 1) : slots[w][i].second <= Second(cut.taken)
    BY <1>3, <1>5, <2>1 DEF Tallied
  <2> QED
    BY <1>3, <1>5, <2>2, AggregateExact DEF Tallied
<1>7. Viewed'
  BY <1>1, <1>2, <1>6 DEF Viewed, InWindow, Minus, Second
<1> QED
  BY <1>1, <1>2, <1>4, <1>7 DEF Cuts

\* What the snapshot task has read is not touched by the turns or the clock.
LEMMA OthersKeepCuts ==
    ASSUME Times, Rings, Cuts, [MetricsNext]_metricsVars, UNCHANGED <<stage, cut>>
    PROVE  Cuts'
<1>1. clock' \in Nat /\ clock <= clock' /\ clock \in Nat
  BY ClockSteps DEF Times
<1>2. ASSUME NEW f \in Flows, progress'[f] # progress[f], progress[f] = "open"
      PROVE  FlowsUnlocked
  BY <1>2 DEF MetricsNext, metricsVars, turnVars, OpenTurn, FinalizeTurn, DropTurn,
              SampleSecond, RecordTerminal, ListFlows, NestMetrics, StampCut, ViewMetrics,
              PushCut, Advance, TurnGoes, Times
<1>3. ASSUME stage \in {"nested", "stamped", "viewed"}
      PROVE  /\ slots' = slots
             /\ AllCounted' = AllCounted
             /\ \A f \in AllCounted : sampled'[f] = sampled[f]
  <2>1. \A f \in Flows : ~RecordTerminal(f)
    BY <1>3 DEF RecordTerminal, MetricsUnlocked
  <2>2. slots' = slots
    BY <2>1 DEF MetricsNext, metricsVars, OpenTurn, FinalizeTurn, DropTurn, SampleSecond,
               ListFlows, NestMetrics, StampCut, ViewMetrics, PushCut, Advance
  <2>3. AllCounted' = AllCounted /\ \A f \in AllCounted : sampled'[f] = sampled[f]
    BY <2>1 DEF MetricsNext, metricsVars, OpenTurn, FinalizeTurn, DropTurn, SampleSecond,
                ListFlows, NestMetrics, StampCut, ViewMetrics, PushCut, Advance,
                turnVars, TurnGoes, Times, Stages, AllCounted
  <2> QED
    BY <2>2, <2>3
<1>4. RowsEarly => RowsEarly'
  BY <1>1 DEF RowsEarly
<1>5. stage \in {"listed", "nested"} /\ Frozen => Frozen'
  BY <1>2 DEF Frozen, FlowsUnlocked
<1>6. stage \in {"nested", "stamped", "viewed"} /\ Tallied => Tallied'
  BY <1>1, <1>3 DEF Tallied, Second
<1>7. Stamped => Stamped'
  BY DEF Stamped
<1>8. stage = "viewed" /\ Tallied /\ Viewed => Viewed'
  BY <1>3 DEF Viewed, InWindow, Minus, Second, Tallied
<1> QED
  BY <1>4, <1>5, <1>6, <1>7, <1>8 DEF Cuts, CutShape

\* Every step preserves Cuts.
LEMMA CutsStep ==
    ASSUME Times, Rings, Records, Cuts, [MetricsNext]_metricsVars
    PROVE  Cuts'
<1>1. CASE PushCut
  <2>1. stage' = "idle" /\ cut' = NoCut
    BY <1>1 DEF PushCut
  <2> QED
    BY <2>1 DEF Cuts, CutShape, NoCut
<1>2. CASE (\E f \in Flows : OpenTurn(f) \/ FinalizeTurn(f) \/ DropTurn(f) \/ SampleSecond(f)
               \/ RecordTerminal(f)) \/ Advance \/ UNCHANGED metricsVars
  <2>1. UNCHANGED <<stage, cut>>
    BY <1>2 DEF metricsVars, cutVars, OpenTurn, FinalizeTurn, DropTurn, SampleSecond,
               RecordTerminal, Advance
  <2> QED
    BY <2>1, OthersKeepCuts
<1> QED
  BY <1>1, <1>2, ListKeepsCuts, NestKeepsCuts, StampKeepsCuts, ViewKeepsCuts DEF MetricsNext

-----------------------------------------------------------------------------
(* The search of the snapshot ring.                                        *)

\* Where the loop of snapshot_at can be.
Places(n) == [lo : 0..n, hi : 0..n, best : 0..n]

\* What the loop of SnapshotAt does at a place, by what find says of others.
Halves(find, cs, time, at) ==
    LET mid == at.lo + (at.hi - at.lo) \div 2
    IN  IF at.lo >= at.hi THEN at.best
        ELSE IF Early(cs[mid + 1], time)
             THEN find[[at EXCEPT !.lo = mid + 1, !.best = mid + 1]]
             ELSE find[[at EXCEPT !.hi = mid]]

LEMMA SearchIs ==
    ASSUME NEW cs, NEW time
    PROVE  SnapshotAt(cs, time) =
              (CHOOSE find : find = [at \in Places(Len(cs)) |-> Halves(find, cs, time, at)])
                  [[lo |-> 0, hi |-> Len(cs), best |-> 0]]
BY Zenon DEF SnapshotAt, Halves, Places

\* Where the loop goes on, it goes on closer.
LEMMA HalvesAreCloser ==
    ASSUME NEW n \in Nat, NEW at \in Places(n), at.lo < at.hi
    PROVE  LET mid == at.lo + (at.hi - at.lo) \div 2
           IN  /\ mid \in 0..(n - 1)
               /\ at.lo <= mid /\ mid < at.hi
               /\ [at EXCEPT !.lo = mid + 1, !.best = mid + 1] \in Places(n)
               /\ [at EXCEPT !.lo = mid + 1, !.best = mid + 1]
                     = [lo |-> mid + 1, hi |-> at.hi, best |-> mid + 1]
               /\ [at EXCEPT !.hi = mid] \in Places(n)
               /\ [at EXCEPT !.hi = mid] = [lo |-> at.lo, hi |-> mid, best |-> at.best]
<1> DEFINE lo == at.lo
           hi == at.hi
           mid == lo + (hi - lo) \div 2
<1>1. lo \in 0..n /\ hi \in 0..n /\ at.best \in 0..n /\ lo < hi
  BY DEF Places
<1>2. at = [lo |-> lo, hi |-> hi, best |-> at.best]
  BY DEF Places
<1>3. mid \in Int /\ lo <= mid /\ mid < hi
  <2> HIDE DEF lo, hi
  <2> DEFINE d == hi - lo
  <2>1. d \in Nat /\ d > 0
    BY <1>1
  <2> HIDE DEF d
  <2>2. d \div 2 \in Nat /\ d \div 2 < d
    BY <2>1
  <2>3. d = hi - lo /\ mid = lo + d \div 2
    BY DEF d
  <2> HIDE DEF mid
  <2> DEFINE h == d \div 2
  <2>4. h \in Nat /\ h < d /\ mid = lo + h
    BY <2>2, <2>3
  <2> HIDE DEF h
  <2> QED
    BY <1>1, <2>3, <2>4
<1> HIDE DEF mid, lo, hi
<1>4. mid \in 0..(n - 1) /\ mid + 1 \in 0..n /\ mid \in 0..n
  BY <1>1, <1>3
<1>5. /\ [at EXCEPT !.lo = mid + 1, !.best = mid + 1] = [lo |-> mid + 1, hi |-> hi, best |-> mid + 1]
      /\ [at EXCEPT !.hi = mid] = [lo |-> lo, hi |-> mid, best |-> at.best]
  <2> DEFINE next == mid + 1
             up == [at EXCEPT !.lo = next, !.best = next]
             down == [at EXCEPT !.hi = mid]
  <2> HIDE DEF next
  <2>1. up = [lo |-> next, hi |-> at.hi, best |-> next]
    <3> DEFINE v == [at EXCEPT !.lo = next]
    <3>1. v = [lo |-> next, hi |-> at.hi, best |-> at.best]
      BY DEF Places
    <3>2. up = [v EXCEPT !.best = next]
      BY DEF Places
    <3> HIDE DEF v, up
    <3> QED
      BY <3>1, <3>2
  <2>2. down = [lo |-> at.lo, hi |-> mid, best |-> at.best]
    BY DEF Places
  <2> QED
    BY <2>1, <2>2 DEF next, lo, hi
<1>6. /\ [lo |-> mid + 1, hi |-> hi, best |-> mid + 1] \in Places(n)
      /\ [lo |-> lo, hi |-> mid, best |-> at.best] \in Places(n)
  BY <1>1, <1>4 DEF Places
<1> QED
  BY <1>1, <1>3, <1>4, <1>5, <1>6 DEF mid, lo, hi

\* There is a function that the loop computes, on ever wider places.
Narrow(n, d) == {at \in Places(n) : at.hi - at.lo <= d}

LEMMA SearchExists ==
    ASSUME NEW cs, NEW time, NEW n \in Nat
    PROVE  \E find : find = [at \in Places(n) |-> Halves(find, cs, time, at)]
<1> DEFINE Of(f, d) == f = [at \in Narrow(n, d) |-> Halves(f, cs, time, at)]
           T == {d \in Nat : \E f : Of(f, d)}
<1>1. 0 \in T
  <2> DEFINE f == [at \in Narrow(n, 0) |-> at.best]
  <2>1. ASSUME NEW at \in Narrow(n, 0), NEW g
        PROVE  Halves(g, cs, time, at) = at.best
    <3>1. at.lo \in Int /\ at.hi \in Int /\ at.hi - at.lo <= 0
      BY DEF Narrow, Places
    <3>2. at.lo >= at.hi
      BY <3>1
    <3> QED
      BY <3>2 DEF Halves
  <2>2. Of(f, 0)
    BY <2>1
  <2> HIDE DEF f, Of
  <2> QED
    BY <2>2
<1>2. ASSUME NEW d \in T
      PROVE  d + 1 \in T
  <2>1. PICK f : Of(f, d)
    OBVIOUS
  <2> DEFINE g == [at \in Narrow(n, d + 1) |-> Halves(f, cs, time, at)]
  <2>2. d \in Nat
    OBVIOUS
  <2>3. \A at \in Narrow(n, d) : at \in Narrow(n, d + 1)
    BY <2>2 DEF Narrow, Places
  <2>4. \A at \in Narrow(n, d) : g[at] = f[at]
    BY <2>1, <2>3
  <2>5. ASSUME NEW at \in Narrow(n, d + 1)
        PROVE  Halves(g, cs, time, at) = Halves(f, cs, time, at)
    <3>1. at \in Places(n) /\ at.hi - at.lo <= d + 1
      BY DEF Narrow
    <3>2. at.lo \in 0..n /\ at.hi \in 0..n
      BY <3>1 DEF Places
    <3> HIDE DEF g, T
    <3>3. CASE at.lo >= at.hi
      BY <3>3 DEF Halves
    <3>4. CASE at.lo < at.hi
      <4> DEFINE mid == at.lo + (at.hi - at.lo) \div 2
                 up == [at EXCEPT !.lo = mid + 1, !.best = mid + 1]
                 down == [at EXCEPT !.hi = mid]
      <4>1. /\ mid \in 0..(n - 1) /\ at.lo <= mid /\ mid < at.hi
            /\ up \in Places(n) /\ up = [lo |-> mid + 1, hi |-> at.hi, best |-> mid + 1]
            /\ down \in Places(n) /\ down = [lo |-> at.lo, hi |-> mid, best |-> at.best]
        BY <3>1, <3>4, HalvesAreCloser
      <4>2. ~(at.lo >= at.hi)
        BY <3>2, <3>4
      <4>3. /\ Halves(g, cs, time, at) = IF Early(cs[mid + 1], time) THEN g[up] ELSE g[down]
            /\ Halves(f, cs, time, at) = IF Early(cs[mid + 1], time) THEN f[up] ELSE f[down]
        BY <4>2 DEF Halves
      <4> HIDE DEF up, down, mid
      <4>4. up.hi - up.lo <= d /\ down.hi - down.lo <= d
        <5>1. up.hi = at.hi /\ up.lo = mid + 1 /\ down.hi = mid /\ down.lo = at.lo
          BY <4>1
        <5> QED
          BY <2>2, <3>1, <3>2, <4>1, <5>1
      <4>5. up \in Narrow(n, d) /\ down \in Narrow(n, d)
        BY <4>1, <4>4 DEF Narrow
      <4> QED
        BY <2>4, <4>3, <4>5
    <3> QED
      BY <3>2, <3>3, <3>4
  <2>6. Of(g, d + 1)
    BY <2>5
  <2> HIDE DEF g, Of
  <2>7. \E h : Of(h, d + 1)
    BY <2>6
  <2> QED
    BY <2>2, <2>7
<1> HIDE DEF T
<1>3. T \in SUBSET Nat
  BY DEF T
<1>4. T = Nat
  BY <1>1, <1>2, <1>3, NatSets
<1>5. PICK f : Of(f, n)
  BY <1>4 DEF T
<1>6. Narrow(n, n) = Places(n)
  <2>1. \A at \in Places(n) : at.lo \in 0..n /\ at.hi \in 0..n
    BY DEF Places
  <2>2. \A at \in Places(n) : at.hi - at.lo <= n
    BY <2>1
  <2> QED
    BY <2>2 DEF Narrow
<1>7. f = [at \in Places(n) |-> Halves(f, cs, time, at)]
  BY <1>5, <1>6
<1> QED
  BY <1>7

\* Of cuts in their order, the search finds the last that is early enough.
LEMMA SearchFinds ==
    ASSUME NEW cs, NEW time, NEW n \in Nat, n = Len(cs),
           \A j, k \in 1..n : j < k /\ Early(cs[k], time) => Early(cs[j], time)
    PROVE  /\ SnapshotAt(cs, time) \in 0..n
           /\ \A j \in 1..n : Early(cs[j], time) <=> j <= SnapshotAt(cs, time)
<1> DEFINE find == CHOOSE f : f = [at \in Places(n) |-> Halves(f, cs, time, at)]
           right(r) == r \in 0..n /\ \A j \in 1..n : Early(cs[j], time) <=> j <= r
           good(at) == /\ at.best = at.lo /\ at.lo <= at.hi
                       /\ \A j \in 1..n : j <= at.lo => Early(cs[j], time)
                       /\ \A j \in 1..n : at.hi < j => ~Early(cs[j], time)
           T == {d \in Nat : \A at \in Narrow(n, d) : good(at) => right(find[at])}
<1>1. find = [at \in Places(n) |-> Halves(find, cs, time, at)]
  BY SearchExists
<1> HIDE DEF find
<1>2. \A at \in Places(n) : find[at] = Halves(find, cs, time, at)
  BY <1>1
<1>3. ASSUME NEW at \in Places(n), good(at), at.lo >= at.hi
      PROVE  right(find[at])
  <2>1. find[at] = at.best
    BY <1>2, <1>3 DEF Halves
  <2>2. at.lo \in 0..n /\ at.hi \in 0..n
    BY DEF Places
  <2>3. find[at] = at.lo /\ at.lo = at.hi
    BY <1>3, <2>1, <2>2
  <2>4. ASSUME NEW j \in 1..n
        PROVE  Early(cs[j], time) <=> j <= at.lo
    <3>1. j <= at.lo \/ at.hi < j
      BY <2>2, <2>3
    <3>2. at.hi < j => ~(j <= at.lo)
      BY <2>2, <2>3
    <3> QED
      BY <1>3, <3>1, <3>2
  <2> QED
    BY <2>2, <2>3, <2>4
<1>4. 0 \in T
  <2>1. ASSUME NEW at \in Narrow(n, 0)
        PROVE  at \in Places(n) /\ at.lo >= at.hi
    BY DEF Narrow, Places
  <2> HIDE DEF good, right
  <2> QED
    BY <1>3, <2>1
<1>5. ASSUME NEW d \in T
      PROVE  d + 1 \in T
  <2>1. d \in Nat /\ \A at \in Narrow(n, d) : good(at) => right(find[at])
    OBVIOUS
  <2>2. ASSUME NEW at \in Narrow(n, d + 1), good(at)
        PROVE  right(find[at])
    <3>1. at \in Places(n) /\ at.hi - at.lo <= d + 1
      BY DEF Narrow
    <3>2. at.lo \in 0..n /\ at.hi \in 0..n
      BY <3>1 DEF Places
    <3>3. CASE at.lo >= at.hi
      BY <1>3, <2>2, <3>1, <3>3
    <3>4. CASE at.lo < at.hi
      <4> DEFINE mid == at.lo + (at.hi - at.lo) \div 2
                 up == [at EXCEPT !.lo = mid + 1, !.best = mid + 1]
                 down == [at EXCEPT !.hi = mid]
      <4>1. /\ mid \in 0..(n - 1) /\ at.lo <= mid /\ mid < at.hi
            /\ up \in Places(n) /\ up = [lo |-> mid + 1, hi |-> at.hi, best |-> mid + 1]
            /\ down \in Places(n) /\ down = [lo |-> at.lo, hi |-> mid, best |-> at.best]
        BY <3>1, <3>4, HalvesAreCloser
      <4>2. ~(at.lo >= at.hi)
        BY <3>2, <3>4
      <4>3. find[at] = IF Early(cs[mid + 1], time) THEN find[up] ELSE find[down]
        BY <1>2, <3>1, <4>2 DEF Halves
      <4> HIDE DEF up, down, mid
      <4>4. /\ up.hi = at.hi /\ up.lo = mid + 1 /\ up.best = mid + 1
            /\ down.hi = mid /\ down.lo = at.lo /\ down.best = at.best
        BY <4>1
      <4>5. up \in Narrow(n, d) /\ down \in Narrow(n, d)
        <5>1. up.hi - up.lo <= d /\ down.hi - down.lo <= d
          BY <2>1, <3>1, <3>2, <4>1, <4>4
        <5> QED
          BY <4>1, <5>1 DEF Narrow
      <4>6. CASE Early(cs[mid + 1], time)
        <5>1. \A j \in 1..n : j <= mid + 1 => Early(cs[j], time)
          <6> SUFFICES ASSUME NEW j \in 1..n, j <= mid + 1
                       PROVE  Early(cs[j], time)
            OBVIOUS
          <6>1. mid + 1 \in 1..n
            BY <4>1
          <6>2. j \in Nat /\ mid \in Int
            BY <4>1
          <6>3. j = mid + 1 \/ j < mid + 1
            BY ONLY <6>2, j <= mid + 1
          <6> QED
            BY <4>6, <6>1, <6>3
        <5>2. good(up)
          <6>1. up.lo <= up.hi
            BY <3>2, <4>1, <4>4
          <6> QED
            BY <2>2, <4>4, <5>1, <6>1
        <5> HIDE DEF good, right
        <5> QED
          BY <2>1, <4>3, <4>5, <4>6, <5>2
      <4>7. CASE ~Early(cs[mid + 1], time)
        <5>1. \A j \in 1..n : mid < j => ~Early(cs[j], time)
          <6> SUFFICES ASSUME NEW j \in 1..n, mid < j
                       PROVE  ~Early(cs[j], time)
            OBVIOUS
          <6>1. mid + 1 \in 1..n
            BY <4>1
          <6>2. j = mid + 1 \/ mid + 1 < j
            BY <4>1
          <6> QED
            BY <4>7, <6>1, <6>2
        <5>2. good(down)
          BY <2>2, <4>1, <4>4, <5>1
        <5> HIDE DEF good, right
        <5> QED
          BY <2>1, <4>3, <4>5, <4>7, <5>2
      <4> QED
        BY <4>6, <4>7
    <3> QED
      BY <3>2, <3>3, <3>4
  <2> HIDE DEF good, right
  <2> QED
    BY <2>1, <2>2
<1> HIDE DEF T
<1>6. n \in T
  <2>1. T \in SUBSET Nat
    BY DEF T
  <2>2. T = Nat
    BY <1>4, <1>5, <2>1, NatSets
  <2> QED
    BY <2>2
<1> DEFINE at == [lo |-> 0, hi |-> n, best |-> 0]
<1>7. at \in Narrow(n, n)
  BY DEF Narrow, Places
<1>8. good(at)
  OBVIOUS
<1>9. right(find[at])
  <2> HIDE DEF at, good, right
  <2> QED
    BY <1>6, <1>7, <1>8 DEF T
<1>10. SnapshotAt(cs, time) = find[at]
  BY SearchIs DEF find
<1> QED
  BY <1>9, <1>10

-----------------------------------------------------------------------------
(* The theorems.                                                           *)

MetricsInv == Times /\ Rings /\ Records /\ Cuts

\* The invariant holds at the start.
LEMMA InvInit == MetricsInit => MetricsInv
<1> SUFFICES ASSUME MetricsInit PROVE MetricsInv
  OBVIOUS
<1>1. 0 \div Millis = 0 /\ 1 \div Millis \in Nat
  OBVIOUS
<1>2. Times
  BY <1>1 DEF MetricsInit, StoreInit, Times, Stages
<1>3. AllCounted = {}
  BY DEF MetricsInit, AllCounted
<1>4. Rings
  BY <1>1, <1>3 DEF MetricsInit, StoreInit, Rings, Ring, Second
<1>5. Records
  BY DEF MetricsInit, StoreInit, EmptyStore, Records, Proper, StoreShape
<1>6. Cuts
  BY DEF MetricsInit, NoCut, Cuts, CutShape
<1> QED
  BY <1>2, <1>4, <1>5, <1>6 DEF MetricsInv

\* Every step preserves the invariant.
LEMMA InvNext == MetricsInv /\ [MetricsNext]_metricsVars => MetricsInv'
  BY TimesStep, RingsStep, RecordsStep, CutsStep DEF MetricsInv

\* The invariant holds throughout.
THEOREM MetricsInvariant == MetricsSpec => []MetricsInv
  BY InvInit, InvNext, PTL DEF MetricsSpec

\* Rings that are right show the last seconds.
LEMMA InvShowsRecent == MetricsInv => WindowShowsRecent
<1> SUFFICES ASSUME MetricsInv PROVE WindowShowsRecent
  OBVIOUS
<1>1. Second(clock) \in Nat
  BY DivNat DEF MetricsInv, Times, Second
<1>2. \A w \in Windows : \A i \in 0..(w - 1) : slots[w][i].second <= Second(clock)
  BY DEF MetricsInv, Rings
<1> QED
  BY <1>1, <1>2, AggregateExact DEF MetricsInv, WindowShowsRecent

\* At any time each window tells the turns counted in its last seconds and no
\* others (slot_mut and aggregate of metrics.rs).
THEOREM WindowsRight == MetricsSpec => []WindowShowsRecent
  BY MetricsInvariant, InvShowsRecent, PTL

\* A cut that is right is one instant.
LEMMA InvCutsOnce == MetricsInv => CutIsOneInstant
<1> SUFFICES ASSUME MetricsInv, stage = "viewed" PROVE CutIsOneInstant
  BY DEF CutIsOneInstant
<1>1. Tallied /\ Stamped /\ Viewed
  BY DEF MetricsInv, Cuts
<1>2. Second(cut.read) \in Nat /\ Second(cut.taken) \in Nat /\ Second(cut.read) <= Second(cut.taken)
  BY <1>1, DivNat, DivMono DEF Tallied, Stamped, Second
<1>3. \A f \in cut.told : sampled[f] \in Nat /\ sampled[f] <= Second(cut.taken)
  BY <1>1, <1>2 DEF Tallied, AllCounted, MetricsInv, Times
<1>4. \A f \in DOMAIN cut.rows : cut.rows[f].started <= cut.taken
  BY <1>1 DEF Tallied, Stamped
<1> QED
  BY <1>1, <1>3, <1>4 DEF CutIsOneInstant, Tallied, Stamped, Viewed

\* A snapshot is one instant of the flow store and the metrics, and nothing in
\* it is later than its stamp (snapshot_with of metrics.rs).
THEOREM CutsRight == MetricsSpec => []CutIsOneInstant
  BY MetricsInvariant, InvCutsOnce, PTL

-----------------------------------------------------------------------------
(* The snapshot ring.                                                      *)

\* The ring holds the newest of all cuts, in the order of their stamps, and the
\* next one is later than all of them.
History ==
    /\ \E S : cuts \in Seq(S)
    /\ moments \subseteq Nat
    /\ cuts = <<>> \/ Fits(cuts)
    /\ \A j \in 1..Len(cuts) : cuts[j].taken \in moments
    /\ \A j, k \in 1..Len(cuts) : j < k => cuts[j].taken < cuts[k].taken
    /\ \A m \in moments : \/ \E j \in 1..Len(cuts) : cuts[j].taken = m
                          \/ Len(cuts) > 0 /\ m < cuts[1].taken
    /\ stage \in {"listed", "nested"} => \A m \in moments : m < clock
    /\ stage \in {"stamped", "viewed"} =>
          cut.taken \in Nat /\ \A m \in moments : m < cut.taken

\* r holds the k newest of cs and c.
HoldsNewest(r, cs, c, k) ==
    /\ Len(r) = k
    /\ \E R : r \in Seq(R)
    /\ Fits(r)
    /\ \A j \in 1..k : r[j] = Append(cs, c)[(Len(cs) + 1) - k + j]

\* What is left after a push: the newest, the new one among them.
LEMMA PushedIsNewest ==
    ASSUME NEW S, NEW cs \in Seq(S), NEW c
    PROVE  \E k \in 1..(Len(cs) + 1) : HoldsNewest(Pushed(cs, c), cs, c, k)
<1> DEFINE all == Append(cs, c)
           n == Len(cs) + 1
           kept == {k \in 1..Len(all) : Fits(Newest(all, k))}
           k == Max(kept)
           new == Newest(all, k)
<1>1. n \in Nat /\ n > 0 /\ Len(cs) \in Nat
  OBVIOUS
<1>2. all \in Seq(S \cup {c}) /\ Len(all) = n
  <2>1. cs \in Seq(S \cup {c})
    BY SeqsGrow
  <2> QED
    BY <2>1
<1> HIDE DEF all
<1>3. ASSUME NEW i \in 1..n
      PROVE  /\ Newest(all, i) \in Seq(S \cup {c}) /\ Len(Newest(all, i)) = i
             /\ \A j \in 1..i : Newest(all, i)[j] = all[n - i + j]
  <2> DEFINE a == n - i + 1
  <2>1. a \in 1..n /\ Newest(all, i) = SubSeq(all, a, n)
    BY <1>1, <1>2 DEF Newest
  <2>2. SubSeq(all, a, n) = [j \in 1..(n - a + 1) |-> all[a + j - 1]]
    <3> HIDE DEF a, n
    <3> QED
      BY <1>1, <1>2, <2>1
  <2>3. n - a + 1 = i /\ \A j \in 1..i : a + j - 1 = n - i + j
    BY <1>1
  <2>4. \A j \in 1..i : a + j - 1 \in 1..Len(all)
    BY <1>1, <1>2
  <2> HIDE DEF a, n
  <2>5. Newest(all, i) = [j \in 1..i |-> all[a + j - 1]]
    BY <2>1, <2>2, <2>3
  <2>6. \A j \in 1..i : all[a + j - 1] \in S \cup {c}
    BY <1>2, <2>4
  <2>7. i \in Nat
    BY <1>1
  <2> HIDE DEF Newest
  <2>8. Newest(all, i) \in [1..i -> S \cup {c}]
    BY <2>5, <2>6
  <2>9. Newest(all, i) \in Seq(S \cup {c}) /\ Len(Newest(all, i)) = i
    BY <2>7, <2>8
  <2> QED
    BY <2>3, <2>5, <2>9
<1>4. 1 \in kept
  <2>1. 1 \in 1..n
    BY <1>1
  <2>2. Len(Newest(all, 1)) = 1
    BY <1>3, <2>1
  <2>3. CutCap \in Nat \ {0}
    BY MetricsAssumption
  <2>4. 1 <= CutCap
    BY <2>3
  <2>5. Fits(Newest(all, 1))
    BY <2>2, <2>4 DEF Fits
  <2> QED
    BY <1>2, <2>1, <2>5
<1>5. kept \in SUBSET (0..n) /\ kept # {}
  BY <1>2, <1>4
<1>6. k \in kept
  <2> HIDE DEF kept, n
  <2>1. \E m \in kept : \A y \in kept : y <= m
    BY <1>1, <1>5, GreatestOf
  <2>2. \E m \in kept : \A y \in kept : m >= y
    <3>1. kept \subseteq Int
      BY <1>1, <1>5
    <3> QED
      BY <2>1, <3>1
  <2> QED
    BY <2>2 DEF Max
<1> HIDE DEF k
<1>7. k \in 1..n /\ Fits(new)
  BY <1>2, <1>6
<1>8. Pushed(cs, c) = new
  BY DEF Pushed, new, k, kept, all
<1>9. /\ new \in Seq(S \cup {c}) /\ Len(new) = k
      /\ \A j \in 1..k : new[j] = all[n - k + j]
  BY <1>3, <1>7
<1>10. k \in 1..(Len(cs) + 1)
  BY <1>7
<1>11. \E R : Pushed(cs, c) \in Seq(R)
  BY <1>8, <1>9
<1>12. Fits(Pushed(cs, c)) /\ Len(Pushed(cs, c)) = k
  BY <1>7, <1>8, <1>9
<1> HIDE DEF new, n, kept
<1>13. \A j \in 1..k : Pushed(cs, c)[j] = all[n - k + j]
  BY <1>8, <1>9
<1>14. all = Append(cs, c) /\ n = Len(cs) + 1
  BY DEF all, n
<1>15. \A j \in 1..k : n - k + j = (Len(cs) + 1) - k + j
  BY <1>1, <1>10, <1>14
<1>16. \A j \in 1..k : Pushed(cs, c)[j] = Append(cs, c)[(Len(cs) + 1) - k + j]
  BY ONLY <1>13, <1>14, <1>15
<1> QED
  BY ONLY <1>10, <1>11, <1>12, <1>16 DEF HoldsNewest

\* A push keeps the newest.
LEMMA PushKeepsHistory ==
    ASSUME History, PushCut
    PROVE  History'
<1> DEFINE c == [taken |-> cut.taken, bytes |-> CutBytes(cut)]
           n == Len(cuts) + 1
           all == Append(cuts, c)
<1>1. /\ cuts' = Pushed(cuts, c) /\ moments' = moments \cup {cut.taken} /\ stage' = "idle"
      /\ stage = "viewed"
  BY DEF PushCut
<1>2. c.taken = cut.taken
  OBVIOUS
<1>3. cut.taken \in Nat /\ (\A m \in moments : m < cut.taken) /\ moments \subseteq Nat
  BY <1>1 DEF History
<1>4. PICK S : cuts \in Seq(S)
  BY DEF History
<1> HIDE DEF c
<1>5. PICK k \in 1..n :
          /\ Len(cuts') = k /\ (\E R : cuts' \in Seq(R)) /\ Fits(cuts')
          /\ \A j \in 1..k : cuts'[j] = all[n - k + j]
  <2>1. \E k \in 1..(Len(cuts) + 1) : HoldsNewest(Pushed(cuts, c), cuts, c, k)
    BY <1>4, PushedIsNewest
  <2> QED
    BY <1>1, <2>1 DEF HoldsNewest
<1>6. Len(cuts) \in Nat /\ n \in Nat
  BY <1>4
<1>7. (\A j \in 1..Len(cuts) : all[j] = cuts[j]) /\ all[n] = c
  BY <1>4
<1> HIDE DEF all
<1> DEFINE d == n - k
<1>8. /\ d \in 0..Len(cuts) /\ d + k = n /\ k \in Nat /\ k > 0
      /\ \A j \in 1..k : cuts'[j] = all[d + j]
  BY <1>5, <1>6
<1>9. \A j \in 1..n : j \in 1..Len(cuts) \/ j = n
  BY <1>6
<1>10. \A j \in 1..Len(cuts) : cuts[j].taken \in moments
  BY DEF History
<1>11. \A j \in 1..n : all[j].taken \in moments'
  BY <1>1, <1>2, <1>7, <1>9, <1>10
<1>12. \A i, j \in 1..n : i < j => all[i].taken < all[j].taken
  <2> SUFFICES ASSUME NEW i \in 1..n, NEW j \in 1..n, i < j
               PROVE  all[i].taken < all[j].taken
    OBVIOUS
  <2>1. i \in 1..Len(cuts)
    BY <1>6
  <2>2. CASE j = n
    BY <1>2, <1>3, <1>7, <1>10, <2>1, <2>2
  <2>3. CASE j \in 1..Len(cuts)
    BY <1>7, <2>1, <2>3 DEF History
  <2> QED
    BY <1>9, <2>2, <2>3
<1> HIDE DEF n
<1>13. \A j \in 1..k : d + j \in 1..n
  BY <1>6, <1>8
<1> HIDE DEF d
<1>14. \A j \in 1..Len(cuts') : cuts'[j].taken \in moments'
  BY <1>5, <1>8, <1>11, <1>13
<1>15. \A i, j \in 1..Len(cuts') : i < j => cuts'[i].taken < cuts'[j].taken
  <2> SUFFICES ASSUME NEW i \in 1..k, NEW j \in 1..k, i < j
               PROVE  cuts'[i].taken < cuts'[j].taken
    BY <1>5
  <2>1. d + i \in 1..n /\ d + j \in 1..n /\ d + i < d + j
    BY <1>8, <1>13
  <2>2. all[d + i].taken < all[d + j].taken
    BY <1>12, <2>1
  <2> QED
    BY <1>8, <2>2
<1>16. ASSUME NEW m \in moments'
       PROVE  \/ \E j \in 1..Len(cuts') : cuts'[j].taken = m
              \/ Len(cuts') > 0 /\ m < cuts'[1].taken
  <2>1. ASSUME NEW i \in 1..n, all[i].taken = m
        PROVE  \/ \E j \in 1..k : cuts'[j].taken = m
               \/ m < cuts'[1].taken
    <3>1. 1 \in 1..k /\ d + 1 \in 1..n /\ cuts'[1] = all[d + 1]
      BY <1>8, <1>13
    <3>2. CASE i < d + 1
      BY <1>12, <2>1, <3>1, <3>2
    <3>3. CASE ~(i < d + 1)
      <4> DEFINE j == i - d
      <4>1. j \in 1..k /\ d + j = i
        BY <1>6, <1>8, <3>3
      <4> HIDE DEF j
      <4>2. cuts'[j] = all[i]
        BY <1>8, <4>1
      <4> QED
        BY <2>1, <4>1, <4>2
    <3> QED
      BY <3>2, <3>3
  <2>2. ASSUME NEW i \in 1..n, all[i].taken = m
        PROVE  \/ \E j \in 1..Len(cuts') : cuts'[j].taken = m
               \/ Len(cuts') > 0 /\ m < cuts'[1].taken
    BY <1>5, <1>8, <2>1, <2>2
  <2>3. CASE m = cut.taken
    <3>1. n \in 1..n /\ all[n].taken = m
      BY <1>2, <1>6, <1>7, <1>8, <2>3
    <3> QED
      BY <2>2, <3>1
  <2>4. CASE m \in moments
    <3>1. \/ \E j \in 1..Len(cuts) : cuts[j].taken = m
          \/ Len(cuts) > 0 /\ m < cuts[1].taken
      BY <2>4 DEF History
    <3>2. CASE \E j \in 1..Len(cuts) : cuts[j].taken = m
      <4>1. PICK j \in 1..Len(cuts) : cuts[j].taken = m
        BY <3>2
      <4>2. j \in 1..n /\ all[j].taken = m
        BY <1>6, <1>7, <4>1 DEF n
      <4> QED
        BY <2>2, <4>2
    <3>3. CASE Len(cuts) > 0 /\ m < cuts[1].taken
      <4>1. 1 \in 1..k /\ d + 1 \in 1..n /\ cuts'[1] = all[d + 1]
        BY <1>8, <1>13
      <4>2. 1 \in 1..Len(cuts) /\ 1 \in 1..n /\ all[1] = cuts[1]
        BY <1>6, <1>7, <3>3 DEF n
      <4>3. 1 = d + 1 \/ 1 < d + 1
        BY <1>8
      <4>4. all[1].taken <= all[d + 1].taken /\ all[1].taken \in Nat /\ all[d + 1].taken \in Nat
        <5>1. moments' \subseteq Nat
          BY <1>1, <1>3
        <5>2. all[1].taken \in Nat /\ all[d + 1].taken \in Nat
          BY <1>11, <4>1, <4>2, <5>1
        <5> QED
          BY <1>12, <4>1, <4>2, <4>3, <5>2
      <4>5. m \in Nat
        BY <1>3, <2>4
      <4>6. m < cuts'[1].taken
        BY <3>3, <4>1, <4>2, <4>4, <4>5
      <4> QED
        BY <1>5, <1>8, <4>6
    <3> QED
      BY <3>1, <3>2, <3>3
  <2> QED
    BY <1>1, <2>3, <2>4
<1>17. moments' \subseteq Nat
  BY <1>1, <1>3
<1>18. stage' = "idle"
  BY <1>1
<1>19. (\E R : cuts' \in Seq(R)) /\ Fits(cuts')
  BY <1>5
<1>20. Fits(cuts') <=> Fits(cuts)'
  OBVIOUS
<1> QED
  BY <1>14, <1>15, <1>16, <1>17, <1>18, <1>19, <1>20 DEF History

LEMMA HistoryStep ==
    ASSUME MetricsInv, History, [MetricsNext]_metricsVars
    PROVE  History'
<1>1. clock' \in Nat /\ clock <= clock' /\ clock \in Nat
  BY ClockSteps DEF MetricsInv, Times
<1>2. CASE PushCut
  BY <1>2, PushKeepsHistory
<1>3. CASE UNCHANGED <<cuts, moments, stage, cut>>
  <2>1. Fits(cuts)' <=> Fits(cuts)
    BY <1>3
  <2>2. stage \in {"listed", "nested"} => \A m \in moments : m < clock'
    <3>1. moments \subseteq Nat
      BY DEF History
    <3> QED
      BY <1>1, <3>1 DEF History
  <2> QED
    BY <1>3, <2>1, <2>2 DEF History
<1>4. ASSUME UNCHANGED <<cuts, moments>>, clock' = clock,
             \/ ListFlows \/ NestMetrics \/ StampCut \/ ViewMetrics
      PROVE  History'
  <2>1. Fits(cuts)' <=> Fits(cuts)
    BY <1>4
  <2>2. stage' \in {"listed", "nested"} => \A m \in moments : m < clock
    BY <1>4 DEF ListFlows, NestMetrics, StampCut, ViewMetrics, History
  <2>3. stage' \in {"stamped", "viewed"} =>
            cut'.taken \in Nat /\ \A m \in moments : m < cut'.taken
    <3>1. CASE ListFlows \/ NestMetrics
      BY <3>1 DEF ListFlows, NestMetrics
    <3>2. CASE StampCut
      <4>1. cut'.taken = clock
        BY <3>2 DEF StampCut, MetricsInv, Cuts, CutShape
      <4> QED
        BY <1>1, <3>2, <4>1 DEF StampCut, History
    <3>3. CASE ViewMetrics
      <4>1. cut'.taken = cut.taken
        BY <3>3 DEF ViewMetrics, MetricsInv, Cuts, CutShape
      <4> QED
        BY <3>3, <4>1 DEF ViewMetrics, History
    <3> QED
      BY <1>4, <3>1, <3>2, <3>3
  <2> QED
    BY <1>4, <2>1, <2>2, <2>3 DEF History
<1>5. CASE ListFlows \/ NestMetrics \/ StampCut \/ ViewMetrics
  BY <1>4, <1>5 DEF ListFlows, NestMetrics, StampCut, ViewMetrics
<1>6. CASE \E f \in Flows : OpenTurn(f) \/ FinalizeTurn(f) \/ DropTurn(f) \/ SampleSecond(f) \/ RecordTerminal(f)
  BY <1>3, <1>6 DEF OpenTurn, FinalizeTurn, DropTurn, SampleSecond, RecordTerminal, cutVars
<1>7. CASE Advance
  BY <1>3, <1>7 DEF Advance, cutVars
<1>8. CASE UNCHANGED metricsVars
  BY <1>3, <1>8 DEF metricsVars, cutVars
<1> QED
  BY <1>2, <1>5, <1>6, <1>7, <1>8 DEF MetricsNext

\* A ring in order answers every time.
LEMMA HistoryShows == History => HistoryIsKept
<1> SUFFICES ASSUME History, NEW time \in 0..MaxTime
             PROVE  LET i == SnapshotAt(cuts, time)
                        before == {m \in moments : m <= time}
                    IN  IF i # 0
                        THEN /\ cuts[i].taken = Max(before)
                             /\ i = Len(cuts) \/ cuts[i + 1].taken > time
                        ELSE \A j \in DOMAIN cuts : cuts[j].taken > time
  BY DEF History, HistoryIsKept
<1> DEFINE n == Len(cuts)
           i == SnapshotAt(cuts, time)
           before == {m \in moments : m <= time}
<1>1. n \in Nat /\ DOMAIN cuts = 1..n /\ time \in Nat
  BY DEF History
<1>2. /\ \A j \in 1..n : cuts[j].taken \in Nat /\ cuts[j].taken \in moments
      /\ \A j, k \in 1..n : j < k => cuts[j].taken < cuts[k].taken
  BY DEF History
<1>3. \A j, k \in 1..n : j < k /\ Early(cuts[k], time) => Early(cuts[j], time)
  BY <1>1, <1>2 DEF Early
<1>4. i \in 0..n /\ \A j \in 1..n : Early(cuts[j], time) <=> j <= i
  <2> HIDE DEF i
  <2>1. n = Len(cuts)
    OBVIOUS
  <2> HIDE DEF n
  <2> QED
    BY <1>1, <1>3, <2>1, SearchFinds DEF i
<1> HIDE DEF i, n
<1>5. ASSUME i = 0
      PROVE  \A j \in DOMAIN cuts : cuts[j].taken > time
  <2>1. \A j \in 1..n : ~Early(cuts[j], time)
    BY <1>1, <1>4, <1>5
  <2> QED
    BY <1>1, <1>2, <2>1 DEF Early
<1>6. ASSUME i # 0
      PROVE  /\ cuts[i].taken = Max(before)
             /\ i = n \/ cuts[i + 1].taken > time
  <2>1. i \in 1..n
    BY <1>1, <1>4, <1>6
  <2> DEFINE x == cuts[i].taken
  <2>2. x \in before
    BY <1>1, <1>2, <1>4, <2>1 DEF Early
  <2>3. ASSUME NEW m \in before
        PROVE  x >= m
    <3>1. m \in moments /\ m <= time /\ m \in Nat
      BY DEF History
    <3>2. CASE \E j \in 1..n : cuts[j].taken = m
      <4>1. PICK j \in 1..n : cuts[j].taken = m
        BY <3>2
      <4>2. j <= i
        BY <1>4, <3>1, <4>1 DEF Early
      <4>3. j = i \/ j < i
        BY <1>1, <2>1, <4>2
      <4> QED
        BY <1>2, <2>1, <4>1, <4>3
    <3>3. CASE n > 0 /\ m < cuts[1].taken
      <4>1. 1 \in 1..n /\ (i = 1 \/ 1 < i)
        BY <1>1, <2>1
      <4>2. cuts[1].taken <= x
        BY <1>2, <2>1, <4>1
      <4>3. cuts[1].taken \in Nat /\ x \in Nat
        BY <1>2, <2>1, <4>1
      <4> QED
        BY <3>1, <3>3, <4>2, <4>3
    <3> QED
      BY <3>1, <3>2, <3>3 DEF History, n
  <2>4. before \subseteq Nat
    BY DEF History
  <2> HIDE DEF x, before
  <2>5. x = Max(before)
    <3>1. Max(before) \in before /\ \A m \in before : Max(before) >= m
      BY <2>2, <2>3 DEF Max
    <3>2. Max(before) >= x /\ x >= Max(before) /\ x \in Nat /\ Max(before) \in Nat
      BY <2>2, <2>3, <2>4, <3>1
    <3> HIDE DEF Max
    <3> QED
      BY <3>2
  <2>6. i = n \/ cuts[i + 1].taken > time
    <3>1. CASE i # n
      <4>1. i + 1 \in 1..n /\ ~(i + 1 <= i)
        BY <1>1, <2>1, <3>1
      <4>2. ~Early(cuts[i + 1], time)
        BY <1>4, <4>1
      <4> QED
        BY <1>1, <1>2, <4>1, <4>2 DEF Early
    <3> QED
      BY <3>1
  <2> QED
    BY <2>5, <2>6 DEF x
<1> QED
  BY <1>5, <1>6 DEF i, n

\* Who asks for a time is shown the last cut taken until then, unless it was
\* given up (SnapshotRing of metrics.rs), for any capacity and quota.
THEOREM TimesAreAnswered == MetricsSpec => []HistoryIsKept
<1>1. MetricsInit => History
  BY DEF MetricsInit, History
<1>2. MetricsInv /\ History /\ [MetricsNext]_metricsVars => History'
  BY HistoryStep
<1> QED
  BY <1>1, <1>2, MetricsInvariant, HistoryShows, PTL DEF MetricsSpec

=============================================================================
