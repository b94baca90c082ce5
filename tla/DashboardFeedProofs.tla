------------------------- MODULE DashboardFeedProofs -------------------------
(***************************************************************************)
(* Proofs about DashboardFeed, for any responses, channel and number of    *)
(* sockets: a page whose updates were sent in the order of their numbers   *)
(* hears every one of them, and shows every turn that failed.              *)
(***************************************************************************)
EXTENDS DashboardFeed, TLAPS

Update == [sequence : Nat, tells : SUBSET Ids]

Places == {"new", "opened", "running", "returned", "finalized", "recorded", "over"}
Statuses == {None, "open"} \cup Terminal

\* What the numbers of the updates depend on.
FeedTypes ==
    /\ hubSequence \in Nat
    /\ unsent \in [Ids -> Update]
    /\ turn \in [Ids -> Places] /\ status \in [Ids -> Statuses]
    /\ queue \in Seq(Update) /\ overtaken \in BOOLEAN
    /\ local \in [last : Nat, counted : {local.counted}, active : {local.active},
                  version : {local.version}, emitted : {local.emitted},
                  lagged : BOOLEAN, tick : {local.tick}]
    /\ page \in [rows : [Ids -> Statuses], counted : {page.counted},
                 active : {page.active}, version : {page.version}]
    /\ Live => cursor \in [flow : Nat, monitor : Nat, metrics : {cursor.metrics},
                           topology : {cursor.topology}]

AfterRead == socket \notin {"off", "subscribed"}

\* Updates are numbered once, and no number is above the hub's.
Numbered ==
    /\ \A id \in Ids : unsent[id] = NoUpdate \/ unsent[id].sequence \in 1..hubSequence
    /\ \A id, o \in Ids :
          id # o /\ unsent[id].sequence # 0 => unsent[id].sequence # unsent[o].sequence
    /\ \A i \in DOMAIN queue : queue[i].sequence \in 1..hubSequence
    /\ local.last <= hubSequence

\* What the snapshot does not cover comes in the order of its numbers.
InTurn ==
    /\ \A i, j \in DOMAIN queue :
          i < j /\ queue[i].sequence > local.last => queue[i].sequence < queue[j].sequence
    /\ \A i \in DOMAIN queue, id \in Ids :
          queue[i].sequence > local.last /\ unsent[id].sequence # 0 =>
              queue[i].sequence < unsent[id].sequence

\* The page's cursors are behind all that is yet to come.
CursorsBehind ==
    /\ local.last <= cursor.flow /\ cursor.flow <= cursor.monitor
    /\ cursor.monitor <= hubSequence
    /\ \A i \in DOMAIN queue :
          queue[i].sequence > local.last => queue[i].sequence > cursor.monitor
    /\ \A id \in Ids :
          unsent[id].sequence > local.last => unsent[id].sequence > cursor.monitor

\* An update the snapshot does not cover is heard, waits or is yet to be sent.
NoneMissing ==
    \A n \in (local.last + 1)..hubSequence :
        \/ Live /\ n \in heard
        \/ \E i \in DOMAIN queue : queue[i].sequence = n
        \/ \E id \in Ids : unsent[id].sequence = n

HeardIsNews == heard \subseteq (local.last + 1)..hubSequence

\* Who failed is shown so, or an update that tells of it is to come.
Told ==
    \A id \in Ids : turn[id] = "over" /\ status[id] = "failed" =>
        \/ page.rows[id] = "failed"
        \/ id \in unsent[id].tells /\ unsent[id].sequence > local.last
        \/ \E i \in DOMAIN queue : id \in queue[i].tells /\ queue[i].sequence > local.last

FeedInv ==
    /\ FeedTypes
    /\ Numbered
    /\ AfterRead /\ ~overtaken => InTurn
    /\ Live /\ ~overtaken => CursorsBehind
    /\ Live => HeardIsNews
    /\ AfterRead /\ ~overtaken /\ ~local.lagged => NoneMissing
    /\ Live /\ ~overtaken /\ ~local.lagged => Told

-----------------------------------------------------------------------------
(* Steps that only some of the parts see. *)

\* A step of a turn goes from a place to a place, whatever else it does.
LEMMA TurnSteps ==
    ASSUME NEW id \in Ids, TurnNext(id)
    PROVE  \E from, to : to \in Places /\ TurnStep(id, from, to)
<1>1. \/ TurnStep(id, "new", "opened") \/ TurnStep(id, "opened", "over")
      \/ TurnStep(id, "opened", "running") \/ TurnStep(id, "running", "returned")
      \/ TurnStep(id, "returned", "finalized") \/ TurnStep(id, "running", "finalized")
      \/ TurnStep(id, "finalized", IF status[id] = "completed" THEN "over" ELSE "recorded")
      \/ TurnStep(id, "recorded", "over")
  BY DEF TurnNext, OpenFlow, Abandon, StartTurn, TellCompleted, FinalizeCompleted,
         FinalizeFailed, RecordTerminal, TellFailed
<1>2. /\ {"opened", "over", "running", "returned", "finalized", "recorded"} \subseteq Places
      /\ (IF status[id] = "completed" THEN "over" ELSE "recorded") \in Places
  BY DEF Places
<1> QED
  BY <1>1, <1>2, Zenon

\* A step of a turn leaves the socket and the page alone.
LEMMA TurnsLeaveThePage ==
    ASSUME FeedTypes, NEW id \in Ids, TurnNext(id)
    PROVE  /\ UNCHANGED <<socket, local, queue, page, cursor, heard, overtaken>>
           /\ turn' \in [Ids -> Places]
           /\ \A d \in Ids : d # id => turn'[d] = turn[d]
           /\ unsent[id] = NoUpdate
<1>1. PICK from, to : to \in Places /\ TurnStep(id, from, to)
  BY TurnSteps
<1>2. UNCHANGED <<socket, local, queue, page, cursor, heard, overtaken>>
  BY <1>1 DEF TurnStep, socketVars, pageVars
<1>3. turn' = [turn EXCEPT ![id] = to] /\ unsent[id] = NoUpdate
  BY <1>1 DEF TurnStep
<1>4. turn \in [Ids -> Places]
  BY DEF FeedTypes
<1> QED
  BY <1>1, <1>2, <1>3, <1>4

\* A step of a turn emits no event, or one of its own.
LEMMA TurnsEmit ==
    ASSUME NEW id \in Ids, TurnNext(id)
    PROVE  \/ UNCHANGED hubVars
           \/ Emit(id, {})
           \/ Emit(id, {id})
BY DEF TurnNext, OpenFlow, Abandon, StartTurn, TellCompleted, FinalizeCompleted,
       FinalizeFailed, RecordTerminal, TellFailed

\* The record of a turn is written by its own steps.
LEMMA TurnsWriteTheirRecord ==
    ASSUME FeedTypes, NEW id \in Ids, TurnNext(id)
    PROVE  /\ status' \in [Ids -> Statuses]
           /\ \A d \in Ids : d # id => status'[d] = status[d]
<1>1. \/ status' = status \/ Finalize(id, "open") \/ Finalize(id, "cancelled")
      \/ Finalize(id, "completed") \/ Finalize(id, "failed")
  BY DEF TurnNext, OpenFlow, Abandon, StartTurn, TellCompleted, FinalizeCompleted,
         FinalizeFailed, RecordTerminal, TellFailed
<1>2. status \in [Ids -> Statuses]
  BY DEF FeedTypes
<1> QED
  BY <1>1, <1>2 DEF Finalize, Statuses, Terminal

\* A turn that is over and failed now, and was not before, has emitted Failed.
LEMMA FailuresAreTold ==
    ASSUME FeedTypes, NEW id \in Ids, TurnNext(id), turn'[id] = "over", status'[id] = "failed"
    PROVE  Emit(id, {id})
<1>1. /\ turn \in [Ids -> Places] /\ status \in [Ids -> Statuses]
  BY DEF FeedTypes
<1>2. CASE OpenFlow(id)
  BY <1>1, <1>2 DEF OpenFlow, TurnStep
<1>3. CASE Abandon(id)
  BY <1>1, <1>3 DEF Abandon, Finalize
<1>4. CASE StartTurn(id)
  BY <1>1, <1>4 DEF StartTurn, TurnStep
<1>5. CASE TellCompleted(id)
  BY <1>1, <1>5 DEF TellCompleted, TurnStep
<1>6. CASE FinalizeCompleted(id)
  BY <1>1, <1>6 DEF FinalizeCompleted, TurnStep
<1>7. CASE FinalizeFailed(id)
  BY <1>1, <1>7 DEF FinalizeFailed, TurnStep
<1>8. CASE RecordTerminal(id)
  <2>1. status'[id] = status[id]
    BY <1>8 DEF RecordTerminal
  <2>2. status[id] # "completed"
    BY <2>1
  <2>3. turn'[id] = "recorded"
    BY <1>1, <1>8, <2>2 DEF RecordTerminal, TurnStep
  <2> QED
    BY <2>3
<1>9. CASE TellFailed(id)
  BY <1>9 DEF TellFailed
<1> QED
  BY <1>2, <1>3, <1>4, <1>5, <1>6, <1>7, <1>8, <1>9 DEF TurnNext

\* An update that is numbered now comes after all that were.
LEMMA TurnsNumber ==
    ASSUME FeedTypes, NEW id \in Ids, TurnNext(id)
    PROVE  /\ hubSequence' \in Nat /\ hubSequence <= hubSequence'
           /\ unsent' \in [Ids -> Update]
           /\ \A d \in Ids : d # id => unsent'[d] = unsent[d]
           /\ \/ unsent'[id] = NoUpdate /\ hubSequence' = hubSequence
              \/ unsent'[id].sequence = hubSequence + 1 /\ hubSequence' = hubSequence + 1
           /\ Emit(id, {id}) => id \in unsent'[id].tells /\ unsent'[id].sequence = hubSequence + 1
<1>1. /\ hubSequence \in Nat /\ unsent \in [Ids -> Update]
  BY DEF FeedTypes
<1>2. unsent[id] = NoUpdate
  BY TurnsLeaveThePage
<1>3. ASSUME NEW tells \in SUBSET Ids, Emit(id, tells)
      PROVE  /\ hubSequence' = hubSequence + 1
             /\ unsent' \in [Ids -> Update]
             /\ \A d \in Ids : d # id => unsent'[d] = unsent[d]
             /\ unsent'[id] = [sequence |-> hubSequence + 1, tells |-> tells]
  <2>1. /\ hubSequence' = hubSequence + 1
        /\ unsent' = [unsent EXCEPT ![id] = [sequence |-> hubSequence + 1, tells |-> tells]]
    BY <1>3 DEF Emit
  <2>2. [sequence |-> hubSequence + 1, tells |-> tells] \in Update
    BY <1>1 DEF Update
  <2> QED
    BY <1>1, <2>1, <2>2
<1>4. CASE UNCHANGED hubVars
  <2>1. hubSequence' = hubSequence /\ unsent' = unsent
    BY <1>4 DEF hubVars
  <2>2. ~Emit(id, {id})
    BY <1>1, <2>1 DEF Emit
  <2> QED
    BY <1>1, <1>2, <2>1, <2>2
<1>5. CASE Emit(id, {})
  <2> {} \in SUBSET Ids
    OBVIOUS
  <2>1. Emit(id, {id}) => unsent'[id] = [sequence |-> hubSequence + 1, tells |-> {id}]
    BY <1>3
  <2>2. unsent'[id] = [sequence |-> hubSequence + 1, tells |-> {}]
    BY <1>3, <1>5
  <2>3. ~Emit(id, {id})
    <3>1. [sequence |-> hubSequence + 1, tells |-> {}].tells = {}
      OBVIOUS
    <3>2. [sequence |-> hubSequence + 1, tells |-> {id}].tells = {id}
      OBVIOUS
    <3> QED
      BY <2>1, <2>2, <3>1, <3>2
  <2>4. [sequence |-> hubSequence + 1, tells |-> {}].sequence = hubSequence + 1
    OBVIOUS
  <2>5. hubSequence' \in Nat /\ hubSequence <= hubSequence' /\ hubSequence' = hubSequence + 1
    BY <1>1, <1>5 DEF Emit
  <2>6. unsent' \in [Ids -> Update] /\ \A d \in Ids : d # id => unsent'[d] = unsent[d]
    BY <1>3, <1>5
  <2> QED
    BY <2>2, <2>3, <2>4, <2>5, <2>6
<1>6. CASE Emit(id, {id})
  <2> {id} \in SUBSET Ids
    OBVIOUS
  <2>1. unsent'[id] = [sequence |-> hubSequence + 1, tells |-> {id}]
    BY <1>3, <1>6
  <2>4. /\ [sequence |-> hubSequence + 1, tells |-> {id}].sequence = hubSequence + 1
        /\ id \in [sequence |-> hubSequence + 1, tells |-> {id}].tells
    OBVIOUS
  <2>5. hubSequence' \in Nat /\ hubSequence <= hubSequence' /\ hubSequence' = hubSequence + 1
    BY <1>1, <1>6 DEF Emit
  <2>6. unsent' \in [Ids -> Update] /\ \A d \in Ids : d # id => unsent'[d] = unsent[d]
    BY <1>3, <1>6
  <2> QED
    BY <2>1, <2>4, <2>5, <2>6
<1> QED
  BY <1>4, <1>5, <1>6, TurnsEmit

\* A turn's step keeps the invariant.
LEMMA TurnsKeep ==
    ASSUME FeedInv, NEW id \in Ids, TurnNext(id)
    PROVE  FeedInv'
<1>1. /\ socket' = socket /\ local' = local /\ queue' = queue /\ page' = page
      /\ cursor' = cursor /\ heard' = heard /\ overtaken' = overtaken
      /\ turn' \in [Ids -> Places] /\ unsent[id] = NoUpdate
      /\ \A d \in Ids : d # id => turn'[d] = turn[d]
  BY TurnsLeaveThePage DEF FeedInv
<1>2. /\ hubSequence' \in Nat /\ hubSequence <= hubSequence'
      /\ unsent' \in [Ids -> Update]
      /\ \A d \in Ids : d # id => unsent'[d] = unsent[d]
      /\ \/ unsent'[id] = NoUpdate /\ hubSequence' = hubSequence
         \/ unsent'[id].sequence = hubSequence + 1 /\ hubSequence' = hubSequence + 1
      /\ Emit(id, {id}) => id \in unsent'[id].tells /\ unsent'[id].sequence = hubSequence + 1
  BY TurnsNumber DEF FeedInv
<1>3. /\ status' \in [Ids -> Statuses]
      /\ \A d \in Ids : d # id => status'[d] = status[d]
  BY TurnsWriteTheirRecord DEF FeedInv
<1>4. /\ FeedTypes /\ Numbered
  BY DEF FeedInv
<1>5. /\ hubSequence \in Nat /\ local.last \in Nat /\ local.last <= hubSequence
      /\ \A d \in Ids : unsent[d].sequence \in Nat /\ unsent'[d].sequence \in Nat
      /\ \A d \in Ids : unsent[d] = NoUpdate \/ unsent[d].sequence \in 1..hubSequence
      /\ \A i \in DOMAIN queue : queue[i] \in Update /\ queue[i].sequence \in 1..hubSequence
      /\ NoUpdate.sequence = 0
  <2>1. hubSequence \in Nat /\ unsent \in [Ids -> Update] /\ queue \in Seq(Update)
    BY <1>4 DEF FeedTypes
  <2>2. local.last \in Nat /\ local.last <= hubSequence
    BY <1>4 DEF FeedTypes, Numbered
  <2>3. \A d \in Ids : unsent[d].sequence \in Nat /\ unsent'[d].sequence \in Nat
    BY <1>2, <2>1 DEF Update
  <2>4. \A i \in DOMAIN queue : queue[i] \in Update
    BY <2>1
  <2> QED
    BY <1>4, <2>1, <2>2, <2>3, <2>4 DEF Numbered, NoUpdate
<1>6. \/ unsent'[id] = NoUpdate /\ unsent'[id].sequence = 0 /\ hubSequence' = hubSequence
      \/ unsent'[id].sequence = hubSequence + 1 /\ hubSequence' = hubSequence + 1
  BY <1>2, <1>5
<1>7. FeedTypes'
  BY <1>1, <1>2, <1>3, <1>4 DEF FeedTypes, Live
<1>8. Numbered'
  <2>1. \A d \in Ids : unsent'[d] = NoUpdate \/ unsent'[d].sequence \in 1..hubSequence'
    BY <1>2, <1>5, <1>6
  <2>2. \A d, o \in Ids :
            d # o /\ unsent'[d].sequence # 0 => unsent'[d].sequence # unsent'[o].sequence
    BY <1>2, <1>4, <1>5, <1>6 DEF Numbered
  <2>3. \A i \in DOMAIN queue' : queue'[i].sequence \in 1..hubSequence'
    BY <1>1, <1>2, <1>5
  <2> QED
    BY <1>1, <1>2, <1>5, <2>1, <2>2, <2>3 DEF Numbered
<1>9. AfterRead' /\ ~overtaken' => InTurn'
  BY <1>1, <1>2, <1>5, <1>6 DEF FeedInv, InTurn, AfterRead
<1>10. Live' /\ ~overtaken' => CursorsBehind'
  <2> SUFFICES ASSUME Live, CursorsBehind
               PROVE  CursorsBehind'
    BY <1>1 DEF FeedInv, Live
  <2>1. cursor.monitor \in Nat
    BY <1>4 DEF FeedTypes
  <2>2. cursor.monitor <= hubSequence
    BY DEF CursorsBehind
  <2> QED
    BY <1>1, <1>2, <1>5, <1>6, <2>1, <2>2 DEF CursorsBehind
<1>11. Live' => HeardIsNews'
  BY <1>1, <1>2, <1>5 DEF FeedInv, HeardIsNews, Live
<1>12. AfterRead' /\ ~overtaken' /\ ~local'.lagged => NoneMissing'
  <2> SUFFICES ASSUME NoneMissing, NEW n \in (local.last + 1)..hubSequence'
               PROVE  \/ Live /\ n \in heard
                      \/ \E i \in DOMAIN queue : queue[i].sequence = n
                      \/ \E d \in Ids : unsent'[d].sequence = n
    BY <1>1 DEF FeedInv, AfterRead, NoneMissing, Live
  <2>1. CASE n \in (local.last + 1)..hubSequence
    BY <1>2, <1>1, <1>5, <2>1 DEF NoneMissing
  <2>2. CASE n = hubSequence + 1
    BY <1>5, <1>6, <2>2
  <2> QED
    BY <1>5, <1>6, <2>1, <2>2
<1>13. Live' /\ ~overtaken' /\ ~local'.lagged => Told'
  <2> SUFFICES ASSUME Told, NEW d \in Ids, turn'[d] = "over", status'[d] = "failed"
               PROVE  \/ page.rows[d] = "failed"
                      \/ d \in unsent'[d].tells /\ unsent'[d].sequence > local.last
                      \/ \E i \in DOMAIN queue :
                            d \in queue[i].tells /\ queue[i].sequence > local.last
    BY <1>1 DEF FeedInv, Told, Live
  <2>1. CASE d = id
    <3>1. Emit(id, {id})
      BY <2>1, FailuresAreTold DEF FeedInv
    <3> QED
      BY <1>2, <1>5, <2>1, <3>1
  <2>2. CASE d # id
    BY <1>1, <1>2, <1>3, <2>2 DEF Told
  <2> QED
    BY <2>1, <2>2
<1> QED
  BY <1>7, <1>8, <1>9, <1>10, <1>11, <1>12, <1>13 DEF FeedInv

\* The queue takes an update at its end, and may lose its first.
LEMMA QueueTakes ==
    ASSUME NEW q \in Seq(Update), NEW u \in Update, NEW k \in {0, 1}, k <= Len(q),
           NEW taken, k = 0 => taken = Append(q, u), k = 1 => taken = Append(Tail(q), u)
    PROVE  /\ taken \in Seq(Update)
           /\ \A i \in DOMAIN taken :
                 \/ i \in 1..(Len(q) - k) /\ i + k \in DOMAIN q /\ taken[i] = q[i + k]
                 \/ i = Len(q) - k + 1 /\ taken[i] = u
           /\ Len(q) - k + 1 \in DOMAIN taken /\ taken[Len(q) - k + 1] = u
           /\ k = 0 => \A i \in DOMAIN q : i \in DOMAIN taken /\ taken[i] = q[i]
<1>1. CASE k = 0
  BY <1>1
<1>2. CASE k = 1
  <2>1. q # <<>> /\ Len(q) \in Nat
    BY <1>2
  <2>2. Tail(q) \in Seq(Update) /\ Len(Tail(q)) = Len(q) - 1
    BY <2>1
  <2>3. \A i \in 1..(Len(q) - 1) : Tail(q)[i] = q[i + 1]
    BY <2>1
  <2>4. taken \in Seq(Update) /\ Len(taken) = Len(q)
    BY <1>2, <2>1, <2>2
  <2>5. \A i \in 1..(Len(q) - 1) : taken[i] = Tail(q)[i]
    BY <1>2, <2>1, <2>2
  <2>6. taken[Len(q)] = u
    BY <1>2, <2>1, <2>2
  <2> QED
    BY <1>2, <2>1, <2>3, <2>4, <2>5, <2>6
<1> QED
  BY <1>1, <1>2

\* An update that is broadcast after all of smaller numbers joins the queue in
\* its turn; one that falls out of a full queue leaves the socket lagged.
LEMMA BroadcastKeeps ==
    ASSUME FeedInv, DashboardFeedAssumption, NEW id \in Ids, Broadcast(id)
    PROVE  FeedInv'
<1> DEFINE u == unsent[id]
           k == IF Listens /\ Len(queue) >= ChannelCap THEN 1 ELSE 0
<1>1. /\ hubSequence \in Nat /\ unsent \in [Ids -> Update] /\ queue \in Seq(Update)
      /\ local.last \in Nat /\ local.last <= hubSequence
      /\ \A d \in Ids : unsent[d] = NoUpdate \/ unsent[d].sequence \in 1..hubSequence
      /\ \A d, o \in Ids :
            d # o /\ unsent[d].sequence # 0 => unsent[d].sequence # unsent[o].sequence
      /\ \A i \in DOMAIN queue : queue[i].sequence \in 1..hubSequence
  <2>1. FeedTypes /\ Numbered
    BY DEF FeedInv
  <2>2. local.last \in Nat
    BY <2>1 DEF FeedTypes
  <2> QED
    BY <2>1, <2>2 DEF FeedTypes, Numbered
<1>2. /\ u # NoUpdate /\ u \in Update /\ u.sequence \in 1..hubSequence
      /\ unsent' = [unsent EXCEPT ![id] = NoUpdate]
      /\ hubSequence' = hubSequence /\ turn' = turn /\ status' = status
      /\ socket' = socket /\ page' = page /\ cursor' = cursor /\ heard' = heard
  BY <1>1 DEF Broadcast, storeVars, pageVars
<1>3. /\ overtaken' = (socket # "off" /\ (overtaken \/
            \E o \in Ids : unsent[o].sequence \in 1..(u.sequence - 1)))
      /\ local' = IF Listens /\ Len(queue) >= ChannelCap
                  THEN [local EXCEPT !.lagged = TRUE] ELSE local
      /\ queue' = CASE ~Listens -> queue
                    [] Listens /\ Len(queue) >= ChannelCap -> Append(Tail(queue), u)
                    [] OTHER -> Append(queue, u)
  BY DEF Broadcast
<1>9. overtaken' \in BOOLEAN
  BY <1>3
<1>4. NoUpdate \in Update /\ NoUpdate.sequence = 0
  BY DEF NoUpdate, Update
<1>5. /\ unsent' \in [Ids -> Update] /\ unsent'[id].sequence = 0
      /\ unsent'[id] = NoUpdate
      /\ \A d \in Ids : d # id => unsent'[d] = unsent[d]
      /\ \A d \in Ids : unsent[d].sequence \in Nat /\ unsent'[d].sequence \in Nat
  <2>1. /\ unsent' \in [Ids -> Update] /\ unsent'[id] = NoUpdate
        /\ \A d \in Ids : d # id => unsent'[d] = unsent[d]
    BY <1>1, <1>2, <1>4
  <2> QED
    BY <1>1, <1>4, <2>1 DEF Update
<1>6. /\ local'.last = local.last
      /\ ~local'.lagged => ~local.lagged
      /\ ~local'.lagged /\ Listens => k = 0
      /\ local' \in [last : Nat, counted : {local'.counted}, active : {local'.active},
                     version : {local'.version}, emitted : {local'.emitted},
                     lagged : BOOLEAN, tick : {local'.tick}]
  <2>1. local \in [last : Nat, counted : {local.counted}, active : {local.active},
                   version : {local.version}, emitted : {local.emitted},
                   lagged : BOOLEAN, tick : {local.tick}]
    BY DEF FeedInv, FeedTypes
  <2>2. CASE Listens /\ Len(queue) >= ChannelCap
    BY <1>3, <2>1, <2>2
  <2>3. CASE ~(Listens /\ Len(queue) >= ChannelCap)
    BY <1>3, <2>1, <2>3
  <2> QED
    BY <2>2, <2>3
<1>7. CASE ~Listens
  <2>1. socket = "off"
    BY <1>7 DEF Listens
  <2>0. queue' = queue
    BY <1>3, <1>7
  <2>2. FeedTypes'
    BY <1>1, <1>2, <1>5, <1>6, <1>9, <2>0 DEF FeedInv, FeedTypes, Live
  <2>3. Numbered'
    <3>1. \A d, o \in Ids :
             d # o /\ unsent'[d].sequence # 0 => unsent'[d].sequence # unsent'[o].sequence
      BY <1>1, <1>5
    <3> QED
      BY <1>1, <1>2, <1>5, <1>6, <2>0, <3>1 DEF Numbered
  <2> QED
    BY <1>2, <2>1, <2>2, <2>3 DEF FeedInv, AfterRead, Live
<1>8. CASE Listens
  <2>1. /\ k \in {0, 1} /\ k <= Len(queue)
        /\ k = 0 => queue' = Append(queue, u)
        /\ k = 1 => queue' = Append(Tail(queue), u)
    BY <1>1, <1>3, <1>8 DEF DashboardFeedAssumption
  <2> DEFINE n == Len(queue) - k + 1
  <2>2. /\ queue' \in Seq(Update)
        /\ \A i \in DOMAIN queue' :
              \/ i \in 1..(Len(queue) - k) /\ i + k \in DOMAIN queue
                 /\ queue'[i] = queue[i + k]
              \/ i = n /\ queue'[i] = u
        /\ n \in DOMAIN queue' /\ queue'[n] = u
        /\ k = 0 => \A i \in DOMAIN queue : i \in DOMAIN queue' /\ queue'[i] = queue[i]
    <3> HIDE DEF u, k
    <3> QED
      BY <1>1, <1>2, <2>1, QueueTakes
  <2>3. Len(queue) \in Nat /\ DOMAIN queue = 1..Len(queue) /\ k \in {0, 1}
    BY <1>1, <2>1
  <2>4. socket # "off" /\ socket' = socket
    BY <1>2, <1>8 DEF Listens
  <2>5. ~overtaken' => /\ ~overtaken
                       /\ \A o \in Ids : ~(unsent[o].sequence \in 1..(u.sequence - 1))
    BY <1>3, <2>4
  <2> HIDE DEF u, k, n
  <2>6. FeedTypes'
    BY <1>2, <1>5, <1>6, <1>9, <2>2 DEF FeedInv, FeedTypes, Live
  <2>7. Numbered'
    <3>1. \A d, o \in Ids :
             d # o /\ unsent'[d].sequence # 0 => unsent'[d].sequence # unsent'[o].sequence
      BY <1>1, <1>5
    <3>2. \A i \in DOMAIN queue' : queue'[i].sequence \in 1..hubSequence
      BY <1>1, <1>2, <2>2
    <3> QED
      BY <1>1, <1>2, <1>5, <1>6, <3>1, <3>2 DEF Numbered
  <2>8. ASSUME ~overtaken'
        PROVE  \A o \in Ids : o # id /\ unsent[o].sequence # 0 =>
                   u.sequence < unsent[o].sequence
    <3> SUFFICES ASSUME NEW o \in Ids, o # id, unsent[o].sequence # 0
                 PROVE  u.sequence < unsent[o].sequence
      OBVIOUS
    <3>1. unsent[o].sequence # u.sequence
      BY <1>1 DEF u
    <3>2. unsent[o].sequence \in Nat /\ u.sequence \in Nat /\ u.sequence # 0
      BY <1>1, <1>2, <1>5
    <3> QED
      BY <2>5, <2>8, <3>1, <3>2
  <2>9. AfterRead' /\ ~overtaken' => InTurn'
    <3> SUFFICES ASSUME InTurn, ~overtaken'
                 PROVE  InTurn'
      BY <2>4, <2>5 DEF FeedInv, AfterRead
    <3>1. ASSUME NEW i \in DOMAIN queue, queue[i].sequence > local.last
          PROVE  queue[i].sequence < u.sequence
      BY <1>2, <3>1 DEF InTurn, u
    <3>2. ASSUME NEW i \in DOMAIN queue', NEW j \in DOMAIN queue', i < j,
                 queue'[i].sequence > local.last
          PROVE  queue'[i].sequence < queue'[j].sequence
      <4>1. /\ i \in 1..(Len(queue) - k) /\ i + k \in DOMAIN queue
            /\ queue'[i] = queue[i + k]
        BY <2>2, <2>3, <3>2 DEF n
      <4>2. CASE j = n /\ queue'[j] = u
        BY <3>1, <3>2, <4>1, <4>2
      <4>3. CASE j + k \in DOMAIN queue /\ queue'[j] = queue[j + k]
        <5>1. i + k < j + k
          BY <2>2, <2>3, <3>2, <4>1
        <5> QED
          BY <3>2, <4>1, <4>3, <5>1 DEF InTurn
      <4> QED
        BY <2>2, <4>2, <4>3
    <3>3. ASSUME NEW i \in DOMAIN queue', NEW o \in Ids,
                 queue'[i].sequence > local.last, unsent'[o].sequence # 0
          PROVE  queue'[i].sequence < unsent'[o].sequence
      <4>1. o # id /\ unsent'[o] = unsent[o]
        BY <1>5, <3>3
      <4>2. CASE queue'[i] = u
        BY <2>8, <3>3, <4>1, <4>2
      <4>3. CASE i + k \in DOMAIN queue /\ queue'[i] = queue[i + k]
        BY <3>3, <4>1, <4>3 DEF InTurn
      <4> QED
        BY <2>2, <4>2, <4>3
    <3> QED
      BY <1>6, <3>2, <3>3 DEF InTurn
  <2>10. Live' /\ ~overtaken' => CursorsBehind'
    <3> SUFFICES ASSUME CursorsBehind, Live
                 PROVE  CursorsBehind'
      BY <2>4, <2>5 DEF FeedInv, Live
    <3>1. \A i \in DOMAIN queue' :
             queue'[i].sequence > local.last => queue'[i].sequence > cursor.monitor
      BY <2>2 DEF CursorsBehind, u
    <3>2. \A d \in Ids : unsent'[d].sequence > local.last =>
             unsent'[d].sequence > cursor.monitor
      BY <1>1, <1>5 DEF CursorsBehind
    <3> QED
      BY <1>2, <1>6, <3>1, <3>2 DEF CursorsBehind
  <2>11. Live' => HeardIsNews'
    BY <1>2, <1>6 DEF FeedInv, Live, HeardIsNews
  <2>12. AfterRead' /\ ~overtaken' /\ ~local'.lagged => NoneMissing'
    <3> SUFFICES ASSUME NoneMissing, k = 0, NEW m \in (local.last + 1)..hubSequence
                 PROVE  \/ Live /\ m \in heard
                        \/ \E i \in DOMAIN queue' : queue'[i].sequence = m
                        \/ \E d \in Ids : unsent'[d].sequence = m
      BY <1>2, <1>6, <1>8, <2>4, <2>5 DEF FeedInv, AfterRead, NoneMissing, Live
    <3>1. CASE Live /\ m \in heard
      BY <3>1
    <3>2. ASSUME NEW i \in DOMAIN queue, queue[i].sequence = m
          PROVE  \E j \in DOMAIN queue' : queue'[j].sequence = m
      BY <2>2, <3>2
    <3>3. ASSUME NEW d \in Ids, unsent[d].sequence = m
          PROVE  \/ \E i \in DOMAIN queue' : queue'[i].sequence = m
                 \/ \E o \in Ids : unsent'[o].sequence = m
      <4>1. CASE d = id
        BY <2>2, <3>3, <4>1 DEF u
      <4>2. CASE d # id
        BY <1>5, <3>3, <4>2
      <4> QED
        BY <4>1, <4>2
    <3> QED
      BY <3>1, <3>2, <3>3 DEF NoneMissing
  <2>13. Live' /\ ~overtaken' /\ ~local'.lagged => Told'
    <3> SUFFICES ASSUME Told, k = 0,
                        NEW d \in Ids, turn[d] = "over", status[d] = "failed"
                 PROVE  \/ page.rows[d] = "failed"
                        \/ d \in unsent'[d].tells /\ unsent'[d].sequence > local.last
                        \/ \E i \in DOMAIN queue' :
                              d \in queue'[i].tells /\ queue'[i].sequence > local.last
      BY <1>2, <1>6, <1>8, <2>4, <2>5 DEF FeedInv, Told, Live
    <3>1. CASE page.rows[d] = "failed"
      BY <3>1
    <3>2. CASE d \in unsent[d].tells /\ unsent[d].sequence > local.last
      <4>1. CASE d = id
        BY <2>2, <3>2, <4>1 DEF u
      <4>2. CASE d # id
        BY <1>5, <3>2, <4>2
      <4> QED
        BY <4>1, <4>2
    <3>3. ASSUME NEW i \in DOMAIN queue,
                 d \in queue[i].tells /\ queue[i].sequence > local.last
          PROVE  \E j \in DOMAIN queue' :
                    d \in queue'[j].tells /\ queue'[j].sequence > local.last
      BY <2>2, <3>3
    <3> QED
      BY <3>1, <3>2, <3>3 DEF Told
  <2> QED
    BY <2>6, <2>7, <2>9, <2>10, <2>11, <2>12, <2>13 DEF FeedInv
<1> QED
  BY <1>7, <1>8

LocalShape(read) ==
    read \in [last : Nat, counted : {read.counted}, active : {read.active},
              version : {read.version}, emitted : {read.emitted},
              lagged : BOOLEAN, tick : {read.tick}]
PageShape(p) ==
    p \in [rows : [Ids -> Statuses], counted : {p.counted}, active : {p.active},
           version : {p.version}]
CursorShape(c) ==
    c \in [flow : Nat, monitor : Nat, metrics : {c.metrics}, topology : {c.topology}]

LEMMA Shapes ==
    ASSUME FeedTypes
    PROVE  /\ LocalShape(local) /\ PageShape(page)
           /\ Live => CursorShape(cursor)
           /\ local.last \in Nat /\ local.lagged \in BOOLEAN
           /\ page.rows \in [Ids -> Statuses]
           /\ Live => cursor.flow \in Nat /\ cursor.monitor \in Nat
BY DEF FeedTypes, LocalShape, PageShape, CursorShape

\* What touches neither the hub's updates nor the turns, and neither the number
\* read nor the cursors of the two domains, keeps the invariant.
LEMMA AsideKeeps ==
    ASSUME FeedInv,
           hubSequence' = hubSequence, unsent' = unsent, turn' = turn, status' = status,
           queue' = queue, heard' = heard, overtaken' = overtaken,
           LocalShape(local'), local'.last = local.last, local'.lagged = local.lagged,
           PageShape(page'), page'.rows = page.rows,
           Live => CursorShape(cursor') /\ cursor'.flow = cursor.flow
                                        /\ cursor'.monitor = cursor.monitor,
           AfterRead' => AfterRead, Live' <=> Live
    PROVE  FeedInv'
<1>1. FeedTypes'
  BY DEF FeedInv, FeedTypes, LocalShape, PageShape, CursorShape
<1>2. Numbered'
  BY DEF FeedInv, Numbered
<1>3. AfterRead' /\ ~overtaken' => InTurn'
  BY DEF FeedInv, InTurn
<1>4. Live' /\ ~overtaken' => CursorsBehind'
  BY DEF FeedInv, CursorsBehind
<1>5. Live' => HeardIsNews'
  BY DEF FeedInv, HeardIsNews
<1>6. AfterRead' /\ ~overtaken' /\ ~local'.lagged => NoneMissing'
  <2> SUFFICES ASSUME NoneMissing
               PROVE  NoneMissing'
    BY DEF FeedInv
  <2> QED
    BY DEF NoneMissing
<1>7. Live' /\ ~overtaken' /\ ~local'.lagged => Told'
  BY DEF FeedInv, Told
<1> QED
  BY <1>1, <1>2, <1>3, <1>4, <1>5, <1>6, <1>7 DEF FeedInv

LEMMA PublishKeeps ==
    ASSUME FeedInv, PublishTopology
    PROVE  FeedInv'
<1>1. /\ hubSequence' = hubSequence /\ unsent' = unsent /\ turn' = turn
      /\ status' = status /\ queue' = queue /\ heard' = heard /\ overtaken' = overtaken
      /\ local' = local /\ page' = page /\ cursor' = cursor /\ socket' = socket
  BY DEF PublishTopology, hubVars, socketVars, pageVars
<1>2. LocalShape(local) /\ PageShape(page) /\ (Live => CursorShape(cursor))
  BY Shapes DEF FeedInv
<1> QED
  BY <1>1, <1>2, AsideKeeps DEF AfterRead, Live

\* Subscribing, and reading the metrics, the open flows and the topology, before
\* the snapshot or at a tick.
LEMMA ReadsKeep ==
    ASSUME FeedInv,
           Subscribe \/ ReadMetrics \/ ReadActive \/ ReadTopology \/ TickReads
    PROVE  FeedInv'
<1>1. LocalShape(local) /\ PageShape(page) /\ (Live => CursorShape(cursor))
  BY Shapes DEF FeedInv
<1>2. /\ hubSequence' = hubSequence /\ unsent' = unsent /\ turn' = turn
      /\ status' = status /\ queue' = queue /\ heard' = heard
      /\ page' = page /\ cursor' = cursor
  BY DEF Subscribe, ReadMetrics, ReadActive, ReadTopology, TickReads, Reads, SocketStep,
         hubVars, storeVars, pageVars
<1>3. overtaken' = overtaken
  <2>1. overtaken \in BOOLEAN
    BY DEF FeedInv, FeedTypes
  <2> QED
    BY <2>1 DEF Subscribe, ReadMetrics, ReadActive, ReadTopology, TickReads, Reads, SocketStep
<1>4. LocalShape(local') /\ local'.last = local.last /\ local'.lagged = local.lagged
  BY <1>1 DEF Subscribe, ReadMetrics, ReadActive, ReadTopology, TickReads, Reads, LocalShape
<1>5. (AfterRead' => AfterRead) /\ (Live' <=> Live)
  BY DEF Subscribe, ReadMetrics, ReadActive, ReadTopology, TickReads, Reads, SocketStep,
         AfterRead, Live
<1> QED
  BY <1>1, <1>2, <1>3, <1>4, <1>5, AsideKeeps

\* A tick that sends the metrics or the topology.
LEMMA TicksKeep ==
    ASSUME FeedInv, TickSends \/ TopologyTick
    PROVE  FeedInv'
<1>1. LocalShape(local) /\ PageShape(page) /\ (Live => CursorShape(cursor)) /\ Live
  BY Shapes DEF FeedInv, TickSends, TopologyTick, SocketStep, Live
<1>2. /\ hubSequence' = hubSequence /\ unsent' = unsent /\ turn' = turn
      /\ status' = status /\ queue' = queue /\ heard' = heard
  BY DEF TickSends, TopologyTick, SocketStep, hubVars, storeVars
<1>3. overtaken' = overtaken
  <2>1. overtaken \in BOOLEAN
    BY DEF FeedInv, FeedTypes
  <2> QED
    BY <2>1 DEF TickSends, TopologyTick, SocketStep
<1>4. LocalShape(local') /\ local'.last = local.last /\ local'.lagged = local.lagged
  BY <1>1 DEF TickSends, TopologyTick, LocalShape
<1>5. PageShape(page') /\ page'.rows = page.rows
  BY <1>1 DEF TickSends, TopologyTick, PageShape
<1>6. CursorShape(cursor') /\ cursor'.flow = cursor.flow /\ cursor'.monitor = cursor.monitor
  BY <1>1 DEF TickSends, TopologyTick, CursorShape
<1>7. (AfterRead' => AfterRead) /\ (Live' <=> Live)
  BY DEF TickSends, TopologyTick, SocketStep, AfterRead, Live
<1> QED
  BY <1>2, <1>3, <1>4, <1>5, <1>6, <1>7, AsideKeeps

\* The number is read: the snapshot covers all that was numbered, and what was
\* overtaken before does not matter.
LEMMA ReadTranscriptKeeps ==
    ASSUME FeedInv, ReadTranscript
    PROVE  FeedInv'
<1>1. /\ LocalShape(local) /\ PageShape(page) /\ hubSequence \in Nat
      /\ queue \in Seq(Update) /\ Numbered
  BY Shapes DEF FeedInv, FeedTypes
<1>2. /\ hubSequence' = hubSequence /\ unsent' = unsent /\ turn' = turn
      /\ status' = status /\ queue' = queue /\ heard' = heard /\ page' = page
      /\ overtaken' = FALSE /\ ~Live'
      /\ local' = [local EXCEPT !.last = hubSequence]
  BY DEF ReadTranscript, SocketStep, hubVars, storeVars, pageVars, Live
<1>3. LocalShape(local') /\ local'.last = hubSequence
  BY <1>1, <1>2 DEF LocalShape
<1>4. FeedTypes'
  BY <1>1, <1>2, <1>3 DEF FeedInv, FeedTypes, LocalShape, PageShape
<1>5. Numbered'
  BY <1>1, <1>2, <1>3 DEF Numbered
<1>6. \A i \in DOMAIN queue : ~(queue[i].sequence > hubSequence)
  BY <1>1 DEF Numbered
<1>7. InTurn'
  BY <1>2, <1>3, <1>6 DEF InTurn
<1>8. NoneMissing'
  BY <1>1, <1>2, <1>3 DEF NoneMissing
<1> QED
  BY <1>2, <1>4, <1>5, <1>7, <1>8 DEF FeedInv

\* The snapshot shows every record as it is, and sets both cursors to the number.
LEMMA SnapshotKeeps ==
    ASSUME FeedInv, SendInitial
    PROVE  FeedInv'
<1>1. /\ LocalShape(local) /\ PageShape(page) /\ hubSequence \in Nat
      /\ local.last \in Nat /\ local.last <= hubSequence
      /\ queue \in Seq(Update) /\ Numbered /\ status \in [Ids -> Statuses]
      /\ overtaken \in BOOLEAN
  BY Shapes DEF FeedInv, FeedTypes, Numbered
<1>2. /\ hubSequence' = hubSequence /\ unsent' = unsent /\ turn' = turn
      /\ status' = status /\ queue' = queue /\ local' = local
      /\ socket = "topology" /\ heard' = {}
      /\ page' = [rows |-> status, counted |-> local.counted, active |-> local.active,
                  version |-> local.version]
      /\ cursor' = [flow |-> local.last, monitor |-> local.last,
                    metrics |-> local.counted, topology |-> local.version]
  BY DEF SendInitial, InstallSnapshot, SocketStep, hubVars, storeVars
<1>3. overtaken' = overtaken
  BY <1>1 DEF SendInitial, SocketStep
<1>4. AfterRead /\ ~Live
  BY <1>2 DEF AfterRead, Live
<1>5. /\ PageShape(page') /\ page'.rows = status
      /\ CursorShape(cursor') /\ cursor'.flow = local.last /\ cursor'.monitor = local.last
  BY <1>1, <1>2 DEF PageShape, CursorShape
<1>6. FeedTypes'
  BY <1>1, <1>2, <1>3, <1>5 DEF FeedInv, FeedTypes, PageShape, CursorShape
<1>7. Numbered'
  BY <1>1, <1>2 DEF Numbered
<1>8. ~overtaken' => InTurn'
  BY <1>2, <1>3, <1>4 DEF FeedInv, InTurn
<1>9. CursorsBehind'
  BY <1>1, <1>2, <1>5 DEF CursorsBehind
<1>10. HeardIsNews'
  BY <1>2 DEF HeardIsNews
<1>11. ~overtaken' /\ ~local'.lagged => NoneMissing'
  <2> SUFFICES ASSUME NoneMissing
               PROVE  NoneMissing'
    BY <1>2, <1>3, <1>4 DEF FeedInv
  <2> QED
    BY <1>2, <1>4 DEF NoneMissing
<1>12. Told'
  BY <1>2, <1>5 DEF Told
<1> QED
  BY <1>6, <1>7, <1>8, <1>9, <1>10, <1>11, <1>12 DEF FeedInv

\* Closed, the socket has nothing that could be missed.
LEMMA ClosedKeeps ==
    ASSUME FeedInv, Closed
    PROVE  FeedInv'
<1>1. /\ PageShape(page) /\ hubSequence \in Nat /\ Numbered
  BY Shapes DEF FeedInv, FeedTypes
<1>2. /\ hubSequence' = hubSequence /\ unsent' = unsent /\ turn' = turn
      /\ status' = status /\ page' = page /\ queue' = <<>> /\ local' = NothingRead
      /\ overtaken' = FALSE /\ ~Live' /\ ~AfterRead'
  BY DEF Closed, hubVars, storeVars, Live, AfterRead
<1>3. LocalShape(NothingRead) /\ NothingRead.last = 0
  BY DEF NothingRead, LocalShape
<1>4. FeedTypes'
  <2>1. LocalShape(local')
    BY <1>2, <1>3
  <2>0. <<>> \in Seq(Update)
    OBVIOUS
  <2>2. queue' \in Seq(Update) /\ overtaken' \in BOOLEAN
    BY <1>2, <2>0
  <2> QED
    BY <1>1, <1>2, <2>1, <2>2 DEF FeedInv, FeedTypes, LocalShape, PageShape
<1>5. Numbered'
  BY <1>1, <1>2, <1>3 DEF Numbered
<1> QED
  BY <1>2, <1>4, <1>5 DEF FeedInv

\* An update received is shown and heard, unless the snapshot covers it.
LEMMA ReceiveKeeps ==
    ASSUME FeedInv, ReceiveUpdate
    PROVE  FeedInv'
<1> DEFINE u == Head(queue)
           live == u.sequence > local.last
           flow == live /\ u.tells # {}
<1>1. /\ FeedTypes /\ Numbered /\ LocalShape(local) /\ PageShape(page)
      /\ hubSequence \in Nat /\ queue \in Seq(Update) /\ local.last \in Nat
      /\ page.rows \in [Ids -> Statuses] /\ overtaken \in BOOLEAN
      /\ \A i \in DOMAIN queue : queue[i].sequence \in 1..hubSequence
  BY Shapes DEF FeedInv, FeedTypes, Numbered
<1>2. /\ hubSequence' = hubSequence /\ unsent' = unsent /\ turn' = turn
      /\ status' = status /\ local' = local /\ socket = "live" /\ socket' = "live"
      /\ queue # <<>> /\ ~local.lagged /\ queue' = Tail(queue)
  BY DEF ReceiveUpdate, SocketStep, hubVars, storeVars
<1>3. overtaken' = overtaken
  BY <1>1 DEF ReceiveUpdate, SocketStep
<1>4. /\ page' = IF flow /\ Fresh("flow", u.sequence)
                 THEN [page EXCEPT !.rows =
                          [id \in Ids |-> IF id \in u.tells THEN status[id] ELSE @[id]]]
                 ELSE page
      /\ cursor' = [cursor EXCEPT
             !.flow = IF flow /\ u.sequence > @ THEN u.sequence ELSE @,
             !.monitor = IF live /\ u.sequence > @ THEN u.sequence ELSE @]
      /\ heard' = IF live /\ Fresh("monitor", u.sequence)
                  THEN heard \cup {u.sequence} ELSE heard
  BY DEF ReceiveUpdate
<1>5. Live /\ Live' /\ AfterRead
  BY <1>2 DEF Live, AfterRead
<1>6. CursorShape(cursor) /\ cursor.flow \in Nat /\ cursor.monitor \in Nat
  BY <1>5, Shapes DEF FeedInv
<1>7. /\ 1 \in DOMAIN queue /\ u = queue[1] /\ u \in Update
      /\ u.sequence \in 1..hubSequence
      /\ queue' \in Seq(Update)
      /\ \A i \in DOMAIN queue' : i \in Nat /\ i + 1 \in DOMAIN queue /\ 1 < i + 1
                                  /\ queue'[i] = queue[i + 1]
      /\ \A i \in DOMAIN queue : i = 1 \/ (i - 1 \in DOMAIN queue' /\ queue'[i - 1] = queue[i])
  <2>1. Len(queue) \in Nat /\ Len(queue) # 0
    BY <1>1, <1>2
  <2>2. queue' \in Seq(Update) /\ Len(queue') = Len(queue) - 1
    BY <1>1, <1>2, <2>1
  <2>3. \A i \in 1..(Len(queue) - 1) : queue'[i] = queue[i + 1]
    BY <1>1, <1>2, <2>1
  <2>4. 1 \in DOMAIN queue /\ u = queue[1]
    BY <1>1, <1>2, <2>1
  <2>5. u \in Update /\ u.sequence \in 1..hubSequence
    BY <1>1, <2>4
  <2> QED
    BY <1>1, <2>1, <2>2, <2>3, <2>4, <2>5
<1> HIDE DEF u
<1>8. /\ cursor'.flow = IF flow /\ u.sequence > cursor.flow THEN u.sequence ELSE cursor.flow
      /\ cursor'.monitor = IF live /\ u.sequence > cursor.monitor
                           THEN u.sequence ELSE cursor.monitor
      /\ CursorShape(cursor')
  <2>1. u.sequence \in Nat
    BY <1>7
  <2> HIDE DEF live, flow
  <2> QED
    BY <1>4, <1>6, <2>1 DEF CursorShape
<1>9. /\ PageShape(page')
      /\ \A d \in Ids : page'.rows[d] = page.rows[d] \/ page'.rows[d] = status[d]
      /\ flow /\ u.sequence > cursor.flow =>
            \A d \in Ids : d \in u.tells => page'.rows[d] = status[d]
  <2>1. status \in [Ids -> Statuses]
    BY <1>1 DEF FeedTypes
  <2>2. CASE flow /\ Fresh("flow", u.sequence)
    <3> DEFINE rows == [d \in Ids |-> IF d \in u.tells THEN status[d] ELSE page.rows[d]]
    <3>1. rows \in [Ids -> Statuses]
      BY <1>1, <2>1
    <3>2. page' = [page EXCEPT !.rows = rows]
      BY <1>4, <2>2
    <3>3. PageShape(page') /\ page'.rows = rows
      <4> HIDE DEF rows
      <4> QED
        BY <1>1, <3>1, <3>2 DEF PageShape
    <3> QED
      BY <3>3
  <2>3. CASE ~(flow /\ Fresh("flow", u.sequence))
    BY <1>1, <1>4, <2>3 DEF Fresh
  <2> QED
    BY <2>2, <2>3
<1>10. FeedTypes'
  BY <1>1, <1>2, <1>3, <1>7, <1>8, <1>9 DEF FeedTypes, LocalShape, PageShape, CursorShape
<1>11. Numbered'
  BY <1>1, <1>2, <1>7 DEF Numbered
<1>12. ~overtaken => InTurn /\ CursorsBehind /\ NoneMissing /\ Told
  BY <1>2, <1>5 DEF FeedInv
<1>13. ~overtaken => /\ live => u.sequence > cursor.monitor
                     /\ live => u.sequence > cursor.flow
  <2>1. ~overtaken /\ live => u.sequence > cursor.monitor
    BY <1>7, <1>12 DEF CursorsBehind
  <2> QED
    BY <1>6, <1>7, <1>12, <2>1 DEF CursorsBehind
<1>14. ~overtaken => InTurn'
  BY <1>2, <1>7, <1>12 DEF InTurn
<1>15. ~overtaken => CursorsBehind'
  <2> SUFFICES ASSUME ~overtaken
               PROVE  CursorsBehind'
    OBVIOUS
  <2>1. /\ local.last <= cursor'.flow /\ cursor'.flow <= cursor'.monitor
        /\ cursor'.monitor <= hubSequence
    BY <1>1, <1>6, <1>7, <1>8, <1>12, <1>13 DEF CursorsBehind
  <2>2. \A i \in DOMAIN queue' :
           queue'[i].sequence > local.last => queue'[i].sequence > cursor'.monitor
    BY <1>7, <1>8, <1>12 DEF CursorsBehind, InTurn
  <2>3. \A d \in Ids : unsent[d].sequence > local.last => unsent[d].sequence > cursor'.monitor
    <3> SUFFICES ASSUME NEW d \in Ids, unsent[d].sequence > local.last
                 PROVE  unsent[d].sequence > cursor'.monitor
      OBVIOUS
    <3>1. unsent[d].sequence \in Nat
      BY <1>1 DEF FeedTypes, Update
    <3>2. unsent[d].sequence # 0
      BY <1>1, <3>1
    <3>3. unsent[d].sequence > cursor.monitor
      BY <1>12 DEF CursorsBehind
    <3>4. live => unsent[d].sequence > u.sequence
      BY <1>7, <1>12, <3>2 DEF InTurn
    <3> QED
      BY <1>8, <3>3, <3>4
  <2> QED
    BY <1>2, <2>1, <2>2, <2>3 DEF CursorsBehind
<1>16. heard \subseteq heard' /\ heard' \subseteq heard \cup {u.sequence}
  BY <1>4
<1>17. HeardIsNews'
  BY <1>1, <1>2, <1>4, <1>5, <1>7 DEF FeedInv, HeardIsNews
<1>18. ~overtaken => NoneMissing'
  <2> SUFFICES ASSUME ~overtaken, NEW n \in (local.last + 1)..hubSequence
               PROVE  \/ n \in heard'
                      \/ \E i \in DOMAIN queue' : queue'[i].sequence = n
                      \/ \E d \in Ids : unsent[d].sequence = n
    BY <1>2, <1>5 DEF NoneMissing
  <2>1. ASSUME NEW i \in DOMAIN queue, queue[i].sequence = n
        PROVE  n \in heard' \/ \E j \in DOMAIN queue' : queue'[j].sequence = n
    <3>1. CASE i = 1
      <4>1. live /\ u.sequence = n
        BY <1>1, <1>7, <2>1, <3>1
      <4> QED
        BY <1>4, <1>13, <4>1 DEF Fresh
    <3>2. CASE i # 1
      BY <1>7, <2>1, <3>2
    <3> QED
      BY <3>1, <3>2
  <2> QED
    BY <1>12, <1>16, <2>1 DEF NoneMissing
<1>19. ~overtaken => Told'
  <2> SUFFICES ASSUME ~overtaken, NEW d \in Ids, turn[d] = "over", status[d] = "failed"
               PROVE  \/ page'.rows[d] = "failed"
                      \/ d \in unsent[d].tells /\ unsent[d].sequence > local.last
                      \/ \E i \in DOMAIN queue' :
                            d \in queue'[i].tells /\ queue'[i].sequence > local.last
    BY <1>2 DEF Told
  <2>1. CASE page.rows[d] = "failed"
    BY <1>9, <2>1
  <2>2. ASSUME NEW i \in DOMAIN queue,
               d \in queue[i].tells, queue[i].sequence > local.last
        PROVE  \/ page'.rows[d] = "failed"
               \/ \E j \in DOMAIN queue' :
                     d \in queue'[j].tells /\ queue'[j].sequence > local.last
    <3>1. CASE i = 1
      <4>1. live /\ d \in u.tells
        BY <1>7, <2>2, <3>1
      <4> QED
        BY <1>9, <1>13, <4>1
    <3>2. CASE i # 1
      BY <1>7, <2>2, <3>2
    <3> QED
      BY <3>1, <3>2
  <2> QED
    BY <1>12, <2>1, <2>2 DEF Told
<1> QED
  BY <1>3, <1>10, <1>11, <1>14, <1>15, <1>17, <1>18, <1>19 DEF FeedInv

-----------------------------------------------------------------------------
(* The page hears every update and shows every failure. *)

LEMMA FeedStarts ==
    ASSUME FeedInit
    PROVE  FeedInv
<1>1. LocalShape(NothingRead) /\ NothingRead.last = 0
  BY DEF NothingRead, LocalShape
<1>2. NoUpdate \in Update /\ NoUpdate.sequence = 0
  BY DEF NoUpdate, Update
<1>3. ~Live /\ ~AfterRead
  BY DEF FeedInit, Live, AfterRead
<1>4. FeedTypes
  <2>1. LocalShape(local)
    BY <1>1 DEF FeedInit
  <2>2. turn \in [Ids -> Places] /\ status \in [Ids -> Statuses]
    BY DEF FeedInit, Places, Statuses
  <2>3. PageShape(page)
    BY DEF FeedInit, PageShape, Statuses
  <2>4. queue \in Seq(Update)
    BY DEF FeedInit
  <2>5. unsent \in [Ids -> Update] /\ hubSequence \in Nat /\ overtaken \in BOOLEAN
    BY <1>2 DEF FeedInit
  <2> QED
    BY <1>3, <2>1, <2>2, <2>3, <2>4, <2>5 DEF FeedTypes, LocalShape, PageShape
<1>5. Numbered
  BY <1>1, <1>2 DEF FeedInit, Numbered
<1> QED
  BY <1>3, <1>4, <1>5 DEF FeedInv

\* Every step keeps it, a stutter too.
LEMMA FeedKeeps ==
    ASSUME FeedInv, DashboardFeedAssumption, [FeedNext]_feedVars
    PROVE  FeedInv'
<1>1. ASSUME NEW id \in Ids, TurnNext(id)
      PROVE  FeedInv'
  BY <1>1, TurnsKeep
<1>2. ASSUME NEW id \in Ids, Broadcast(id)
      PROVE  FeedInv'
  BY <1>2, BroadcastKeeps
<1>3. CASE SetUp
  BY <1>3, ReadsKeep, ReadTranscriptKeeps, SnapshotKeeps DEF SetUp
<1>4. CASE Serve
  <2>1. CASE Lag
    BY <2>1, ClosedKeeps DEF Lag
  <2> QED
    BY <1>4, <2>1, ReadsKeep, ReceiveKeeps, TicksKeep DEF Serve
<1>5. CASE CloseSocket
  BY <1>5, ClosedKeeps DEF CloseSocket
<1>6. CASE UNCHANGED feedVars
  <2>1. /\ hubSequence' = hubSequence /\ unsent' = unsent /\ turn' = turn
        /\ status' = status /\ queue' = queue /\ heard' = heard /\ overtaken' = overtaken
        /\ local' = local /\ page' = page /\ cursor' = cursor /\ socket' = socket
    BY <1>6 DEF feedVars, hubVars, storeVars, socketVars, pageVars
  <2>2. LocalShape(local) /\ PageShape(page) /\ (Live => CursorShape(cursor))
    BY Shapes DEF FeedInv
  <2> QED
    BY <2>1, <2>2, AsideKeeps DEF AfterRead, Live
<1> QED
  BY <1>1, <1>2, <1>3, <1>4, <1>5, <1>6, PublishKeeps DEF FeedNext

\* With an empty queue and nothing left to send, all that is not missing was heard.
LEMMA QuietHeard ==
    ASSUME FeedInv
    PROVE  PageHearsEverything /\ FailuresAreShown
<1>1. FeedTypes /\ NoUpdate.sequence = 0 /\ NoUpdate.tells = {}
  BY DEF FeedInv, NoUpdate
<1> SUFFICES ASSUME Quiet, ~overtaken
             PROVE  /\ Complete
                    /\ \A id \in Ids : turn[id] = "over" /\ status[id] = "failed" =>
                          page.rows[id] = "failed"
  BY DEF PageHearsEverything, FailuresAreShown
<1>2. /\ Live /\ queue = <<>> /\ ~local.lagged
      /\ \A id \in Ids : unsent[id].sequence = 0 /\ unsent[id].tells = {}
  BY <1>1 DEF Quiet
<1>3. AfterRead /\ NoneMissing /\ Told /\ HeardIsNews /\ local.last \in Nat
  BY <1>1, <1>2, Shapes DEF FeedInv, Live, AfterRead
<1>4. DOMAIN queue = {}
  BY <1>2
<1>5. Complete
  <2>1. ASSUME NEW n \in (local.last + 1)..hubSequence
        PROVE  n \in heard
    <3>1. n # 0
      BY <1>3
    <3> QED
      BY <1>2, <1>3, <1>4, <3>1 DEF NoneMissing
  <2> QED
    BY <1>3, <2>1 DEF Complete, HeardIsNews
<1> QED
  BY <1>2, <1>3, <1>4, <1>5 DEF Told

\* A page whose socket was not overtaken since its snapshot hears, once it has
\* caught up, exactly the updates the snapshot did not cover: none falls between
\* the subscription and the read of the number, none is shown twice, and none is
\* dropped by the cursor, however many turns emit and sockets come and go.
THEOREM PageMissesNothing == FeedSpec => []PageHearsEverything
<1>1. FeedInit => FeedInv
  BY FeedStarts
<1>2. FeedInv /\ [FeedNext]_feedVars => FeedInv'
  BY FeedKeeps, DashboardFeedAssumption
<1>3. FeedInv => PageHearsEverything
  BY QuietHeard
<1> QED
  BY <1>1, <1>2, <1>3, PTL DEF FeedSpec

\* A turn that failed after it began is shown as failed by such a page: its
\* record is final before its last event is numbered.
THEOREM FailuresReachThePage == FeedSpec => []FailuresAreShown
<1>1. FeedInit => FeedInv
  BY FeedStarts
<1>2. FeedInv /\ [FeedNext]_feedVars => FeedInv'
  BY FeedKeeps, DashboardFeedAssumption
<1>3. FeedInv => FailuresAreShown
  BY QuietHeard
<1> QED
  BY <1>1, <1>2, <1>3, PTL DEF FeedSpec

=============================================================================
