------------------------- MODULE ConversationProofs -------------------------
(***************************************************************************)
(* Proofs about the two ends of a conversation.  Of Conversation, for any  *)
(* clients, images, answers, names and limits: what an upstream is told of *)
(* a history, and which images a turn looks at.  The invariant says of     *)
(* every turn how its telling follows its input and its session its        *)
(* images, and of every record that it tells exactly the items it stands   *)
(* for.  Of Egress, for any calls and bounds: what a client is told of a   *)
(* turn.  Its invariant says what the message of either converter's client *)
(* is of what run_turn has emitted so far.                                 *)
(***************************************************************************)
EXTENDS Conversation, Egress, PicksProofs, SequenceTheorems

-----------------------------------------------------------------------------
(* What is told. *)

\* An answer, what a client holds, what the engine makes of it, what an
\* upstream is told.
Sayings == {Said(a) : a \in Answers}
Items == Questions \cup Sayings
Inputs == Items \cup {Numbered(n) : n \in Nat} \cup {Omitted}
Looks == {Look(n, i) : n \in Nat, i \in Images \cup {NoImage}}
Tellings == Inputs \cup Looks

\* Only a look is a look, and only an image is one.
LEMMA KindsApart ==
    /\ \A m \in Inputs : m.is # "look"
    /\ \A m \in Looks : m.is = "look" /\ ~Raw(m)
    /\ \A m \in Sayings : m.is = "said" /\ ~Raw(m)
    /\ \A m \in Inputs : ByUrl(m) => m.of \in Images
    /\ ~Raw(Omitted)
<1>1. ASSUME NEW m \in Inputs
      PROVE  m.is # "look" /\ (ByUrl(m) => m.of \in Images)
  <2>1. CASE m = Words \/ m = Omitted
    BY <2>1 DEF Words, Omitted, ByUrl, Raw
  <2>2. CASE \E i \in Images, how \in Ways : m = Image(i, how)
    BY <2>2 DEF Image, ByUrl, Raw
  <2>3. CASE \E a \in Answers : m = Said(a)
    BY <2>3 DEF Said, ByUrl, Raw
  <2>4. CASE \E n \in Nat : m = Numbered(n)
    BY <2>4 DEF Numbered, ByUrl, Raw
  <2> QED
    BY <2>1, <2>2, <2>3, <2>4 DEF Inputs, Items, Questions, Sayings
<1>2. ASSUME NEW m \in Looks
      PROVE  m.is = "look" /\ ~Raw(m)
  BY DEF Looks, Look, Raw
<1>3. ASSUME NEW m \in Sayings
      PROVE  m.is = "said" /\ ~Raw(m)
  BY DEF Sayings, Said, Raw
<1>4. ~Raw(Omitted)
  BY DEF Omitted, Raw
<1> QED
  BY <1>1, <1>2, <1>3, <1>4

\* The history in what is told grows with it, but for the looks.
LEMMA HistoryGrows ==
    ASSUME NEW s \in Seq(Tellings), NEW m \in Tellings
    PROVE  HistoryIn(Append(s, m)) =
              IF m.is = "look" THEN HistoryIn(s) ELSE Append(HistoryIn(s), m)
<1> DEFINE n == Len(s)
           t == Append(s, m)
           places == {k \in DOMAIN s : s[k].is # "look"}
           more == {k \in DOMAIN t : t[k].is # "look"}
<1>1. n \in Nat /\ DOMAIN s = 1..n
  OBVIOUS
<1>2. DOMAIN t = 1..(n + 1) /\ (\A k \in 1..n : t[k] = s[k]) /\ t[n + 1] = m
  OBVIOUS
<1> HIDE DEF t, n
<1>3. places \in SUBSET (1..n)
  BY <1>1
<1>4. more = IF m.is = "look" THEN places ELSE places \cup {n + 1}
  <2>1. \A k \in 1..(n + 1) : k \in 1..n \/ k = n + 1
    BY <1>1
  <2>2. \A k \in 1..n : k \in 1..(n + 1) /\ k # n + 1
    BY <1>1
  <2>3. n + 1 \in 1..(n + 1)
    BY <1>1
  <2> QED
    BY <1>1, <1>2, <2>1, <2>2, <2>3
<1> HIDE DEF places, more
<1>5. /\ Picked(t, places) = Picked(s, places)
      /\ Picked(t, places \cup {n + 1}) = Append(Picked(s, places), t[n + 1])
  BY <1>1, <1>2, <1>3, PickedGrows
<1>6. HistoryIn(s) = Picked(s, places) /\ HistoryIn(t) = Picked(t, more)
  BY DEF HistoryIn, places, more
<1> QED
  BY <1>2, <1>4, <1>5, <1>6 DEF t

\* What is no look is in the history, and nothing else is.
LEMMA HistoryHolds ==
    ASSUME NEW s \in Seq(Tellings)
    PROVE  /\ HistoryIn(s) \in Seq(Tellings)
           /\ \A k \in DOMAIN s : s[k].is # "look" =>
                 \E n \in DOMAIN HistoryIn(s) : HistoryIn(s)[n] = s[k]
<1> DEFINE places == {k \in DOMAIN s : s[k].is # "look"}
           h == HistoryIn(s)
<1>1. IsFiniteSet(places) /\ places \in SUBSET Nat
  <2>1. IsFiniteSet(1..Len(s))
    BY FS_Interval
  <2>2. places \in SUBSET (1..Len(s))
    OBVIOUS
  <2> QED
    BY <2>1, <2>2, FS_Subset
<1>2. h = Picked(s, places)
  BY DEF HistoryIn
<1>3. {s[k] : k \in places} \subseteq Tellings
  OBVIOUS
<1> HIDE DEF places, h
<1>4. /\ h \in Seq({s[k] : k \in places}) /\ Len(h) = Cardinality(places)
      /\ \A k \in places : \E n \in 1..Cardinality(places) : h[n] = s[k]
  <2>1. h \in Seq({s[k] : k \in places})
    BY <1>1, <1>2, PickedFacts
  <2>2. Len(h) = Cardinality(places)
    BY <1>1, <1>2, PickedFacts
  <2>3. \A k \in places : \E n \in 1..Cardinality(places) : Picked(s, places)[n] = s[k]
    <3>1. {Picked(s, places)[n] : n \in 1..Cardinality(places)} = {s[k] : k \in places}
      BY <1>1, PickedRange
    <3> QED
      BY <3>1
  <2> QED
    BY <1>2, <2>1, <2>2, <2>3
<1>5. h \in Seq(Tellings)
  BY <1>3, <1>4, SeqsGrow
<1>6. DOMAIN h = 1..Len(h)
  BY <1>5
<1> QED
  BY <1>4, <1>5, <1>6 DEF places, h

\* After what a record tells of the first items, the rest of the input makes
\* the telling whole.
LEMMA TailIsTold ==
    ASSUME NEW input \in Seq(Inputs), NEW tale \in Seq(Tellings), NEW n \in 0..Len(input),
           HistoryIn(tale) = SubSeq(input, 1, n)
    PROVE  /\ tale \o SubSeq(input, n + 1, Len(input)) \in Seq(Tellings)
           /\ HistoryIn(tale \o SubSeq(input, n + 1, Len(input))) = input
<1> DEFINE l == Len(input)
           upto(d) == tale \o SubSeq(input, n + 1, n + d)
           T == {d \in Nat : n + d <= l =>
                    upto(d) \in Seq(Tellings) /\ HistoryIn(upto(d)) = SubSeq(input, 1, n + d)}
<1>1. l \in Nat /\ n \in 0..l /\ input \in Seq(Tellings) /\ \A k \in 1..l : input[k] \in Inputs
  BY SeqsGrow DEF Tellings
<1> HIDE DEF l
<1>2. 0 \in T
  <2>1. SubSeq(input, n + 1, n + 0) = <<>>
    BY <1>1, SubSeqEmpty
  <2>2. tale \o <<>> = tale
    BY ConcatEmptySeq
  <2>3. n + 0 = n
    BY <1>1
  <2> QED
    BY <2>1, <2>2, <2>3
<1>3. ASSUME NEW d \in T
      PROVE  d + 1 \in T
  <2> SUFFICES ASSUME n + (d + 1) <= l
               PROVE  /\ upto(d + 1) \in Seq(Tellings)
                      /\ HistoryIn(upto(d + 1)) = SubSeq(input, 1, n + (d + 1))
    OBVIOUS
  <2>1. d \in Nat /\ n \in Nat /\ n + d <= l
    BY <1>1
  <2>2. upto(d) \in Seq(Tellings) /\ HistoryIn(upto(d)) = SubSeq(input, 1, n + d)
    BY <2>1
  <2> DEFINE e == n + (d + 1)
             x == input[e]
             tail == SubSeq(input, n + 1, n + d)
  <2>3. e \in 1..l /\ e - 1 = n + d /\ n + 1 \in 1..e /\ n + 1 \in 1..l /\ 1 \in 1..l
    BY <1>1, <2>1
  <2>4. x \in Inputs /\ x \in Tellings
    BY <1>1, <2>3 DEF Tellings
  <2>5. tail \in Seq(Tellings)
    <3>1. \A i \in (n + 1)..(n + d) : i \in 1..l
      BY <1>1, <2>1
    <3>2. \A i \in (n + 1)..(n + d) : input[i] \in Tellings
      BY <1>1, <3>1 DEF Tellings
    <3>3. n + 1 \in Int /\ n + d \in Int
      BY <2>1
    <3> QED
      BY <3>2, <3>3, SubSeqProperties
  <2> HIDE DEF x, e, T
  <2>6. SubSeq(input, n + 1, e) = tail \o <<x>>
    <3>1. n + 1 \in 1..Len(input) /\ e \in (n + 1)..Len(input)
      BY <2>1, <2>3 DEF l
    <3> QED
      BY <1>1, <2>3, <3>1, SubSeqRecursiveSecond DEF x
  <2>7. SubSeq(input, 1, e) = SubSeq(input, 1, n + d) \o <<x>>
    <3>1. 1 \in 1..Len(input) /\ e \in 1..Len(input)
      BY <2>3 DEF l
    <3> QED
      BY <1>1, <2>3, <3>1, SubSeqRecursiveSecond DEF x
  <2>8. upto(d + 1) = upto(d) \o <<x>>
    <3>1. upto(d + 1) = tale \o (tail \o <<x>>)
      BY <2>6 DEF e
    <3>2. <<x>> \in Seq(Tellings)
      BY <2>4
    <3> HIDE DEF tail
    <3>3. tale \o (tail \o <<x>>) = (tale \o tail) \o <<x>>
      BY <2>5, <3>2, ConcatAssociative
    <3> QED
      BY <3>1, <3>3 DEF tail
  <2> HIDE DEF upto
  <2>9. upto(d + 1) = Append(upto(d), x) /\ upto(d + 1) \in Seq(Tellings)
    <3>1. Append(upto(d), x) = upto(d) \o <<x>>
      BY <2>2, <2>4, AppendIsConcat
    <3> QED
      BY <2>2, <2>4, <2>8, <3>1, AppendProperties
  <2>10. HistoryIn(upto(d + 1)) = Append(HistoryIn(upto(d)), x)
    BY <2>2, <2>4, <2>9, HistoryGrows, KindsApart
  <2>11. SubSeq(input, 1, n + d) \in Seq(Tellings)
    BY <2>2, HistoryHolds
  <2>12. Append(SubSeq(input, 1, n + d), x) = SubSeq(input, 1, n + d) \o <<x>>
    BY <2>4, <2>11, AppendIsConcat
  <2> QED
    BY <2>2, <2>7, <2>9, <2>10, <2>12 DEF e
<1>4. T = Nat
  <2>1. T \in SUBSET Nat
    OBVIOUS
  <2> HIDE DEF T
  <2> QED
    BY <1>2, <1>3, <2>1, NatSets
<1>5. l - n \in Nat /\ n + (l - n) = l
  BY <1>1
<1>6. upto(l - n) \in Seq(Tellings) /\ HistoryIn(upto(l - n)) = SubSeq(input, 1, l)
  BY <1>4, <1>5
<1>7. SubSeq(input, 1, l) = input
  BY SubSeqFull DEF l
<1> QED
  BY <1>5, <1>6, <1>7 DEF l

-----------------------------------------------------------------------------
(* The invariant. *)

Turns == [pc : {"asked", "prepared", "running", "recorded"}, model : Models,
          native : BOOLEAN, asked : Seq(Items), input : Seq(Inputs), agent : BOOLEAN,
          store : BOOLEAN, told : Seq(Tellings), base : Nat, looks : Nat]
Records == [key : Models \X BOOLEAN \X Seq(Inputs), told : Seq(Tellings),
            by : Clients, asked : Models]

TalkTypes ==
    /\ talk \in [Clients -> Seq(Items)]
    /\ ask \in [Clients -> Turns \cup {NoTurn}]
    /\ cache = [c \in Clients |-> cache[c]]
    /\ records \in Seq(Records)

\* The image that is kept under a number is the image of the request that bears
\* it.
BearsNumber(items, n, i) == n \in 1..Len(UrlImages(items)) /\ i = UrlImages(items)[n].of

\* A telling follows the input; once it is recorded it ends with the answer.
Follows(t) ==
    /\ t.pc = "running" => HistoryIn(t.told) = t.input
    /\ t.pc = "recorded" =>
          \E s \in Seq(Tellings), m \in Sayings : t.told = Append(s, m) /\ HistoryIn(s) = t.input

LooksRight(t) ==
    \A k \in DOMAIN t.told :
        k > t.base /\ t.told[k].is = "look" /\ t.told[k].of # NoImage =>
            BearsNumber(t.asked, t.told[k].n, t.told[k].of)

\* A turn that asks a backend without vision has no image in its input, and a
\* turn with the image agent has the session of its own images.
TurnHolds(t, held) ==
    /\ t.pc = "asked" => t.agent = FALSE
    /\ t.pc \in {"prepared", "running", "recorded"} /\ ~t.native =>
          \A k \in DOMAIN t.input : ~Raw(t.input[k])
    /\ Follows(t)
    /\ t.pc \in {"running", "recorded"} => LooksRight(t)
    /\ t.pc \in {"prepared", "running", "recorded"} /\ t.agent =>
          \A n \in DOMAIN held : BearsNumber(t.asked, n, held[n])

\* A record tells the items it stands for.
RecordHolds(r) == HistoryIn(r.told) = r.key[3]

TalkInv ==
    /\ TalkTypes
    /\ \A c \in Clients : TurnHolds(ask[c], cache[c])
    /\ \A k \in 1..Len(records) : RecordHolds(records[k])

\* An idle client has nothing to hold.
LEMMA NoTurnHolds == ASSUME NEW held PROVE TurnHolds(NoTurn, held)
BY DEF TurnHolds, Follows, NoTurn

LEMMA TalkStarts == TalkInit => TalkInv
<1> SUFFICES ASSUME TalkInit PROVE TalkInv
  OBVIOUS
<1>1. /\ talk = [c \in Clients |-> <<>>] /\ ask = [c \in Clients |-> NoTurn]
      /\ cache = [c \in Clients |-> <<>>] /\ records = <<>>
  BY DEF TalkInit
<1>2. TalkTypes
  BY <1>1 DEF TalkTypes
<1>3. \A c \in Clients : TurnHolds(ask[c], cache[c])
  BY <1>1, NoTurnHolds
<1>4. \A k \in 1..Len(records) : RecordHolds(records[k])
  BY <1>1
<1> QED
  BY <1>2, <1>3, <1>4 DEF TalkInv

\* One client's turn moves on, and a record may be added.
LEMMA OneTurnMoves ==
    ASSUME TalkInv, NEW c \in Clients, NEW t \in Turns \cup {NoTurn}, NEW held,
           ask' = [ask EXCEPT ![c] = t], cache' = [cache EXCEPT ![c] = held],
           talk' \in [Clients -> Seq(Items)], TurnHolds(t, held),
           records' \in Seq(Records), \A k \in 1..Len(records') : RecordHolds(records'[k])
    PROVE  TalkInv'
<1>1. ask \in [Clients -> Turns \cup {NoTurn}] /\ cache = [d \in Clients |-> cache[d]]
  BY DEF TalkInv, TalkTypes
<1>2. ask' \in [Clients -> Turns \cup {NoTurn}] /\ cache' = [d \in Clients |-> cache'[d]]
  BY <1>1
<1>3. TalkTypes'
  BY <1>2 DEF TalkTypes
<1>4. \A d \in Clients : TurnHolds(ask'[d], cache'[d])
  <2>1. \A d \in Clients : TurnHolds(ask[d], cache[d])
    BY DEF TalkInv
  <2>2. \A d \in Clients : d # c => ask'[d] = ask[d] /\ cache'[d] = cache[d]
    BY <1>1
  <2>3. ask'[c] = t /\ cache'[c] = held
    BY <1>1
  <2> QED
    BY <2>1, <2>2, <2>3
<1> QED
  BY <1>3, <1>4 DEF TalkInv

\* Its session may be left as it is.
LEMMA OneTurnMovesOn ==
    ASSUME TalkInv, NEW c \in Clients, NEW t \in Turns \cup {NoTurn},
           ask' = [ask EXCEPT ![c] = t], UNCHANGED <<talk, cache, records>>,
           TurnHolds(t, cache[c])
    PROVE  TalkInv'
<1>1. cache = [d \in Clients |-> cache[d]] /\ talk \in [Clients -> Seq(Items)]
      /\ records \in Seq(Records)
  BY DEF TalkInv, TalkTypes
<1>2. cache' = [cache EXCEPT ![c] = cache[c]]
  BY <1>1
<1>3. \A k \in 1..Len(records') : RecordHolds(records'[k])
  BY DEF TalkInv
<1>4. talk' \in [Clients -> Seq(Items)] /\ records' \in Seq(Records)
  BY <1>1
<1> QED
  BY <1>2, <1>3, <1>4, OneTurnMoves

-----------------------------------------------------------------------------
(* The images of a request. *)

\* The images that are numbered are images of the request.
LEMMA NumberedAre ==
    ASSUME NEW items \in Seq(Inputs)
    PROVE  /\ UrlImages(items) \in Seq(Inputs)
           /\ \A n \in 1..Len(UrlImages(items)) : UrlImages(items)[n].of \in Images
<1> DEFINE places == {k \in DOMAIN items : ByUrl(items[k])}
           u == UrlImages(items)
<1>1. IsFiniteSet(places) /\ places \in SUBSET Nat
  <2>1. IsFiniteSet(1..Len(items))
    BY FS_Interval
  <2>2. places \in SUBSET (1..Len(items))
    OBVIOUS
  <2> QED
    BY <2>1, <2>2, FS_Subset
<1>2. u = Picked(items, places)
  BY DEF UrlImages
<1>3. \A k \in places : items[k] \in Inputs /\ items[k].of \in Images
  <2>1. \A k \in places : items[k] \in Inputs /\ ByUrl(items[k])
    OBVIOUS
  <2> QED
    BY <2>1, KindsApart
<1> HIDE DEF places, u
<1>4. u \in Seq({items[k] : k \in places}) /\ Len(u) = Cardinality(places)
  BY <1>1, <1>2, PickedFacts
<1>5. \A n \in 1..Len(u) : \E k \in places : u[n] = items[k]
  <2>1. {Picked(items, places)[n] : n \in 1..Cardinality(places)} = {items[k] : k \in places}
    BY <1>1, PickedRange
  <2> QED
    BY <1>2, <1>4, <2>1
<1>6. u \in Seq(Inputs)
  <2>1. {items[k] : k \in places} \subseteq Inputs
    BY <1>3
  <2> QED
    BY <1>4, <2>1, SeqsGrow
<1> QED
  BY <1>3, <1>5, <1>6 DEF u

\* Numbers take the place of images.
LEMMA StripIs ==
    ASSUME NEW items \in Seq(Inputs)
    PROVE  Strip(items) \in Seq(Inputs)
<1> DEFINE n == Len(items)
           s == Strip(items)
           number(k) == Len(UrlImages(SubSeq(items, 1, k)))
<1>1. n \in Nat /\ DOMAIN items = 1..n /\ \A k \in 1..n : items[k] \in Inputs
  OBVIOUS
<1>2. ASSUME NEW k \in 1..n
      PROVE  number(k) \in Nat
  <2>1. SubSeq(items, 1, k) \in Seq(Inputs)
    <3>1. \A i \in 1..k : items[i] \in Inputs
      BY <1>1
    <3> HIDE DEF n
    <3>2. k \in Int
      BY <1>1
    <3> QED
      BY <3>1, <3>2, SubSeqProperties
  <2>2. UrlImages(SubSeq(items, 1, k)) \in Seq(Inputs)
    BY <2>1, NumberedAre
  <2> HIDE DEF UrlImages
  <2> QED
    BY <2>2
<1> HIDE DEF number, n
<1>3. s = [k \in 1..n |-> IF ByUrl(items[k]) THEN Numbered(number(k)) ELSE items[k]]
  BY <1>1 DEF Strip, number
<1> HIDE DEF s
<1>4. \A k \in 1..n : s[k] \in Inputs
  BY <1>1, <1>2, <1>3 DEF Inputs
<1>5. s \in [1..n -> Inputs]
  BY <1>3, <1>4
<1> QED
  BY <1>1, <1>5 DEF s

\* A session keeps images under their numbers.
LEMMA StoredRight ==
    ASSUME NEW items \in Seq(Items)
    PROVE  \A n \in DOMAIN Stored(items) : BearsNumber(items, n, Stored(items)[n])
<1> DEFINE u == UrlImages(items)
           kept == {k \in DOMAIN u : k > Len(u) - CacheSize}
<1>1. u \in Seq(Inputs)
  <2>1. items \in Seq(Inputs)
    BY SeqsGrow DEF Inputs
  <2> QED
    BY <2>1, NumberedAre
<1>2. Stored(items) = [n \in kept |-> u[n].of]
  BY DEF Stored
<1>3. \A n \in kept : n \in 1..Len(u)
  <2> HIDE DEF u
  <2> QED
    BY <1>1
<1> HIDE DEF u, kept
<1>4. DOMAIN Stored(items) = kept /\ \A n \in kept : Stored(items)[n] = u[n].of
  BY <1>2
<1> QED
  BY <1>3, <1>4 DEF BearsNumber, u

\* What the residual-image pass leaves of a turn.
LEMMA SweptIs ==
    ASSUME NEW t \in Turns
    PROVE  \/ Swept(t) = NoTurn
           \/ /\ Swept(t) \in Turns /\ Swept(t).pc = "prepared"
              /\ Swept(t).agent = t.agent /\ Swept(t).asked = t.asked
              /\ \A k \in DOMAIN Swept(t).input : ~Raw(Swept(t).input[k])
<1> DEFINE left == {k \in DOMAIN t.input : Residual(t.input[k])}
           b == t.store /\ left = {}
           i == [k \in DOMAIN t.input |-> IF k \in left THEN Omitted ELSE t.input[k]]
           r == [t EXCEPT !.pc = "prepared", !.store = b, !.input = i]
<1>1. Swept(t) = NoTurn \/ Swept(t) = r
  BY DEF Swept
<1>2. t.input \in Seq(Inputs) /\ t.store \in BOOLEAN
  BY DEF Turns
<1>3. b \in BOOLEAN
  OBVIOUS
<1>4. Omitted \in Inputs
  BY DEF Inputs
<1>5. /\ i \in Seq(Inputs) /\ DOMAIN i = DOMAIN t.input
      /\ \A k \in DOMAIN i : ~Raw(i[k])
  <2> HIDE DEF left
  <2>1. Len(t.input) \in Nat /\ DOMAIN t.input = 1..Len(t.input) /\ \A k \in 1..Len(t.input) : t.input[k] \in Inputs
    BY <1>2
  <2>2. i \in [1..Len(t.input) -> Inputs]
    BY <1>4, <2>1
  <2>3. i \in Seq(Inputs)
    BY <2>1, <2>2
  <2>4. \A k \in DOMAIN t.input : k \notin left => ~Raw(t.input[k])
    BY DEF left, Residual
  <2> QED
    BY <2>3, <2>4, KindsApart
<1> HIDE DEF b, i, left
<1>6. r \in Turns /\ r.pc = "prepared" /\ r.agent = t.agent /\ r.asked = t.asked /\ r.input = i
  BY <1>3, <1>5 DEF Turns
<1> HIDE DEF r
<1> QED
  BY <1>1, <1>5, <1>6

-----------------------------------------------------------------------------
(* The actions. *)

LEMMA AskKeeps == ASSUME TalkInv, NEW c \in Clients, Ask(c) PROVE TalkInv'
<1>1. PICK q \in Questions, m \in Models :
         ask' = [ask EXCEPT ![c] =
            [pc |-> "asked", model |-> m, native |-> FALSE,
             asked |-> Append(talk[c], q), input |-> Append(talk[c], q),
             agent |-> FALSE, store |-> TRUE, told |-> <<>>, base |-> 0, looks |-> 0]]
  BY DEF Ask
<1> DEFINE asked == Append(talk[c], q)
           t == [pc |-> "asked", model |-> m, native |-> FALSE, asked |-> asked,
                 input |-> asked, agent |-> FALSE, store |-> TRUE, told |-> <<>>,
                 base |-> 0, looks |-> 0]
<1>2. asked \in Seq(Items)
  BY DEF TalkInv, TalkTypes, Items
<1> HIDE DEF asked
<1>3. asked \in Seq(Inputs)
  BY <1>2, SeqsGrow DEF Inputs
<1>4. t \in Turns
  BY <1>2, <1>3 DEF Turns
<1>5. TurnHolds(t, cache[c])
  BY DEF TurnHolds, Follows
<1>6. ask' = [ask EXCEPT ![c] = t]
  BY <1>1 DEF asked
<1> HIDE DEF t
<1>7. UNCHANGED <<talk, cache, records>>
  BY DEF Ask
<1> QED
  BY <1>4, <1>5, <1>6, <1>7, OneTurnMovesOn

\* A client that waits has a turn.
LEMMA TurnOf ==
    ASSUME TalkInv, NEW c \in Clients, ask[c].pc # "idle"
    PROVE  ask[c] \in Turns /\ TurnHolds(ask[c], cache[c])
BY DEF TalkInv, TalkTypes, NoTurn

LEMMA PassThroughKeeps == ASSUME TalkInv, NEW c \in Clients, PassThrough(c) PROVE TalkInv'
<1> DEFINE t == [ask[c] EXCEPT !.pc = "prepared", !.native = TRUE]
<1>1. ask[c].pc = "asked" /\ UNCHANGED <<talk, cache, records>>
  BY DEF PassThrough
<1>2. ask[c] \in Turns /\ TurnHolds(ask[c], cache[c])
  BY <1>1, TurnOf
<1>3. ask' = [ask EXCEPT ![c] = t]
  BY <1>2 DEF PassThrough, TalkInv, TalkTypes
<1>4. t \in Turns /\ t.pc = "prepared" /\ t.native = TRUE
  BY <1>2 DEF Turns
<1>5. TurnHolds(t, cache[c])
  <2>1. t.agent = FALSE
    BY <1>1, <1>2 DEF TurnHolds, Turns
  <2> HIDE DEF t
  <2> QED
    BY <1>4, <2>1 DEF TurnHolds, Follows
<1> HIDE DEF t
<1> QED
  BY <1>1, <1>3, <1>4, <1>5, OneTurnMovesOn

\* What the residual-image pass leaves holds, with or without the session.
LEMMA SweptHolds ==
    ASSUME NEW t \in Turns, NEW held,
           t.agent => \A n \in DOMAIN held : BearsNumber(t.asked, n, held[n])
    PROVE  Swept(t) \in Turns \cup {NoTurn} /\ TurnHolds(Swept(t), held)
<1>1. CASE Swept(t) = NoTurn
  BY <1>1, NoTurnHolds
<1>2. CASE /\ Swept(t) \in Turns /\ Swept(t).pc = "prepared"
           /\ Swept(t).agent = t.agent /\ Swept(t).asked = t.asked
           /\ \A k \in DOMAIN Swept(t).input : ~Raw(Swept(t).input[k])
  BY <1>2 DEF TurnHolds, Follows
<1> QED
  BY <1>1, <1>2, SweptIs

LEMMA WithoutAgentKeeps == ASSUME TalkInv, NEW c \in Clients, WithoutAgent(c) PROVE TalkInv'
<1>1. /\ ask[c].pc = "asked" /\ UNCHANGED <<talk, cache, records>>
      /\ ask' = [ask EXCEPT ![c] = Swept(ask[c])]
  BY DEF WithoutAgent
<1>2. ask[c] \in Turns /\ ask[c].agent = FALSE
  BY <1>1, TurnOf DEF TurnHolds
<1>3. Swept(ask[c]) \in Turns \cup {NoTurn} /\ TurnHolds(Swept(ask[c]), cache[c])
  BY <1>2, SweptHolds
<1> QED
  BY <1>1, <1>3, OneTurnMovesOn

LEMMA ActivateKeeps == ASSUME TalkInv, NEW c \in Clients, ActivateImageAgent(c) PROVE TalkInv'
<1> DEFINE t == [ask[c] EXCEPT !.agent = TRUE, !.input = Strip(ask[c].input)]
           held == Stored(ask[c].asked)
<1>1. /\ ask[c].pc = "asked" /\ UNCHANGED <<talk, records>>
      /\ cache' = [cache EXCEPT ![c] = held]
      /\ ask' = [ask EXCEPT ![c] = Swept(t)]
  BY DEF ActivateImageAgent, Session
<1>2. ask[c] \in Turns /\ ask[c].asked \in Seq(Items) /\ ask[c].input \in Seq(Inputs)
  BY <1>1, TurnOf DEF Turns
<1>3. Strip(ask[c].input) \in Seq(Inputs)
  BY <1>2, StripIs
<1>4. t \in Turns /\ t.asked = ask[c].asked /\ t.agent = TRUE
  BY <1>2, <1>3 DEF Turns
<1>5. \A n \in DOMAIN held : BearsNumber(t.asked, n, held[n])
  BY <1>2, <1>4, StoredRight
<1> HIDE DEF t, held
<1>6. Swept(t) \in Turns \cup {NoTurn} /\ TurnHolds(Swept(t), held)
  BY <1>4, <1>5, SweptHolds
<1>7. talk' \in [Clients -> Seq(Items)] /\ records' \in Seq(Records)
      /\ \A k \in 1..Len(records') : RecordHolds(records'[k])
  BY <1>1 DEF TalkInv, TalkTypes
<1> QED
  BY <1>1, <1>6, <1>7, OneTurnMoves

LEMMA ExpiresKeeps == ASSUME TalkInv, NEW c \in Clients, Expires(c) PROVE TalkInv'
<1>1. PICK n \in DOMAIN cache[c] :
         cache' = [cache EXCEPT ![c] = [k \in DOMAIN cache[c] \ {n} |-> cache[c][k]]]
  BY DEF Expires
<1> DEFINE held == [k \in DOMAIN cache[c] \ {n} |-> cache[c][k]]
<1>2. ask[c].pc = "running" /\ UNCHANGED <<talk, ask, records>>
  BY DEF Expires
<1>3. ask[c] \in Turns /\ TurnHolds(ask[c], cache[c])
  BY <1>2, TurnOf
<1>4. TurnHolds(ask[c], held)
  BY <1>3 DEF TurnHolds
<1> HIDE DEF held
<1>5. ask' = [ask EXCEPT ![c] = ask[c]]
  BY <1>2 DEF TalkInv, TalkTypes
<1>6. talk' \in [Clients -> Seq(Items)] /\ records' \in Seq(Records)
      /\ \A k \in 1..Len(records') : RecordHolds(records'[k])
  BY <1>2 DEF TalkInv, TalkTypes
<1>7. cache' = [cache EXCEPT ![c] = held]
  BY <1>1 DEF held
<1> QED
  BY <1>3, <1>4, <1>5, <1>6, <1>7, OneTurnMoves

\* A record that is found has the key it was looked up by.
LEMMA RecordIsThere ==
    ASSUME NEW key, records \in Seq(Records), RecordAt(key) # 0
    PROVE  RecordAt(key) \in 1..Len(records) /\ records[RecordAt(key)].key = key
<1> DEFINE at == {i \in 1..Len(records) : records[i].key = key}
<1>1. RecordAt(key) = IF at # {} THEN Min(at) ELSE 0
  BY DEF RecordAt, SelectInSeq
<1>2. at # {} /\ at \in SUBSET Nat
  BY <1>1
<1>3. PICK n \in at : \A m \in at : n <= m
  <2> HIDE DEF at
  <2> QED
    BY <1>2, LeastOf
<1>4. Min(at) \in at
  <2> HIDE DEF at
  <2> QED
    BY <1>3 DEF Min
<1> QED
  BY <1>1, <1>2, <1>4

\* The longest known beginning is one that is known, or none.
LEMMA LongestIs ==
    ASSUME NEW t, t.input \in Seq(Inputs)
    PROVE  /\ LongestPrefix(t) \in 0..Len(t.input)
           /\ LongestPrefix(t) # 0 =>
                 RecordAt(Key(t.model, t.agent, SubSeq(t.input, 1, LongestPrefix(t)))) # 0
<1> DEFINE l == Len(t.input)
           known == {n \in DOMAIN t.input :
                        RecordAt(Key(t.model, t.agent, SubSeq(t.input, 1, n))) # 0}
           all == {0} \cup known
<1>1. l \in Nat /\ DOMAIN t.input = 1..l
  OBVIOUS
<1>2. all \in SUBSET (0..l) /\ all # {}
  BY <1>1
<1>3. LongestPrefix(t) = Max(all)
  BY DEF LongestPrefix
<1> HIDE DEF all
<1>4. PICK x \in all : \A y \in all : y <= x
  BY <1>1, <1>2, GreatestOf
<1>5. \A y \in all : x >= y
  BY <1>1, <1>2, <1>4
<1>6. Max(all) \in all
  BY <1>5 DEF Max
<1> QED
  BY <1>2, <1>3, <1>6 DEF all

\* Who was told nothing has no history.
LEMMA NothingTold == HistoryIn(<<>>) = <<>>
<1>1. {k \in DOMAIN <<>> : <<>>[k].is # "look"} = {}
  OBVIOUS
<1>2. Cardinality({}) = 0
  BY FS_EmptySet
<1>3. Picked(<<>>, {}) = <<>>
  BY <1>2 DEF Picked
<1> QED
  BY <1>1, <1>3 DEF HistoryIn

LEMMA LookUpKeeps == ASSUME TalkInv, NEW c \in Clients, LookUp(c) PROVE TalkInv'
<1> DEFINE t == ask[c]
           n == IF t.store THEN LongestPrefix(t) ELSE 0
           at == RecordAt(Key(t.model, t.agent, SubSeq(t.input, 1, n)))
           tale == IF n = 0 THEN <<>> ELSE records[at].told
           whole == tale \o SubSeq(t.input, n + 1, Len(t.input))
           new == [t EXCEPT !.pc = "running", !.base = Len(tale), !.told = whole]
<1>1. /\ t.pc = "prepared" /\ UNCHANGED <<talk, cache, records>>
      /\ ask' = [ask EXCEPT ![c] = new]
  BY DEF LookUp, Resumed
<1>2. t \in Turns /\ TurnHolds(t, cache[c])
  BY <1>1, TurnOf
<1>3. t.input \in Seq(Inputs)
  BY <1>2 DEF Turns
<1>4. n \in 0..Len(t.input) /\ (n # 0 => at # 0)
  <2>1. Len(t.input) \in Nat
    BY <1>3
  <2> QED
    BY <1>3, <2>1, LongestIs
<1>5. records \in Seq(Records) /\ \A k \in 1..Len(records) : RecordHolds(records[k])
  BY DEF TalkInv, TalkTypes
<1> HIDE DEF t, n
<1>6. tale \in Seq(Tellings) /\ HistoryIn(tale) = SubSeq(t.input, 1, n)
  <2>1. CASE n = 0
    <3>1. SubSeq(t.input, 1, n) = <<>>
      BY <2>1, SubSeqEmpty
    <3>2. tale = <<>>
      BY <2>1
    <3> HIDE DEF tale
    <3> QED
      <4>1. tale \in Seq(Tellings)
        BY <3>2
      <4>2. HistoryIn(tale) = <<>>
        BY <3>2, NothingTold
      <4> QED
        BY <3>1, <4>1, <4>2
  <2>2. CASE n # 0
    <3>1. at \in 1..Len(records) /\ records[at].key = Key(t.model, t.agent, SubSeq(t.input, 1, n))
      BY <1>4, <1>5, <2>2, RecordIsThere
    <3> HIDE DEF at
    <3>2. records[at] \in Records /\ RecordHolds(records[at])
      BY <1>5, <3>1
    <3>3. records[at].told \in Seq(Tellings)
      BY <3>2 DEF Records
    <3> DEFINE s == SubSeq(t.input, 1, n)
    <3>4. HistoryIn(records[at].told) = s
      <4> HIDE DEF s
      <4>1. records[at].key = Key(t.model, t.agent, s)
        BY <3>1 DEF s
      <4>2. Key(t.model, t.agent, s)[3] = s
        BY DEF Key
      <4> QED
        BY <3>2, <4>1, <4>2 DEF RecordHolds
    <3> QED
      BY <2>2, <3>3, <3>4
  <2> QED
    BY <2>1, <2>2
<1> HIDE DEF tale
<1>7. whole \in Seq(Tellings) /\ HistoryIn(whole) = t.input
  BY <1>3, <1>4, <1>6, TailIsTold
<1>8. ASSUME NEW k \in DOMAIN whole, k > Len(tale)
      PROVE  whole[k].is # "look"
  <2> DEFINE tail == SubSeq(t.input, n + 1, Len(t.input))
  <2>1. Len(t.input) \in Nat /\ n \in Nat /\ \A i \in 1..Len(t.input) : t.input[i] \in Inputs
    BY <1>3, <1>4
  <2>2. tail \in Seq(Inputs)
    <3>1. \A i \in (n + 1)..Len(t.input) : t.input[i] \in Inputs
      BY <2>1
    <3>2. n + 1 \in Int /\ Len(t.input) \in Int
      BY <2>1
    <3> QED
      BY <3>1, <3>2, SubSeqProperties
  <2> HIDE DEF tail
  <2>3. whole = tale \o tail
    BY DEF tail
  <2> HIDE DEF whole
  <2>4. tail \in Seq(Tellings)
    BY <2>2, SeqsGrow DEF Tellings
  <2>5. Len(whole) = Len(tale) + Len(tail) /\ Len(tale) \in Nat /\ Len(tail) \in Nat
    BY <1>6, <2>3, <2>4, ConcatProperties
  <2>6. k \in 1..(Len(tale) + Len(tail)) /\ ~(k <= Len(tale))
    BY <1>6, <1>7, <1>8, <2>5
  <2>7. whole[k] = tail[k - Len(tale)]
    BY <1>6, <2>3, <2>4, <2>6, ConcatProperties
  <2>8. k - Len(tale) \in 1..Len(tail)
    BY <2>5, <2>6
  <2>9. tail[k - Len(tale)] \in Inputs
    BY <2>2, <2>8
  <2> QED
    BY <2>7, <2>9, KindsApart
<1> HIDE DEF whole
<1>9. /\ new \in Turns /\ new.pc = "running" /\ new.native = t.native /\ new.agent = t.agent
      /\ new.input = t.input /\ new.asked = t.asked /\ new.told = whole /\ new.base = Len(tale)
  <2>1. Len(tale) \in Nat
    BY <1>6
  <2> QED
    BY <1>2, <1>7, <2>1 DEF Turns
<1> HIDE DEF new
<1>10. LooksRight(new)
  BY <1>8, <1>9 DEF LooksRight
<1>11. TurnHolds(new, cache[c])
  BY <1>1, <1>2, <1>7, <1>9, <1>10 DEF TurnHolds, Follows
<1> QED
  BY <1>1, <1>9, <1>11, OneTurnMovesOn

LEMMA AnalyzeKeeps == ASSUME TalkInv, NEW c \in Clients, Analyze(c) PROVE TalkInv'
<1> DEFINE t == ask[c]
<1>1. PICK n \in DOMAIN t.asked :
         \E i \in {NoImage} \cup {cache[c][k] : k \in DOMAIN cache[c] \cap {n}} :
            ask' = [ask EXCEPT ![c] = [t EXCEPT !.looks = @ + 1, !.told = Append(@, Look(n, i))]]
  BY DEF Analyze
<1>a. PICK i \in {NoImage} \cup {cache[c][k] : k \in DOMAIN cache[c] \cap {n}} :
         ask' = [ask EXCEPT ![c] = [t EXCEPT !.looks = @ + 1, !.told = Append(@, Look(n, i))]]
  BY <1>1
<1> DEFINE tale == Append(t.told, Look(n, i))
           looks == t.looks + 1
           new == [t EXCEPT !.looks = looks, !.told = tale]
<1>2. t.pc = "running" /\ t.agent /\ UNCHANGED <<talk, cache, records>> /\ ask' = [ask EXCEPT ![c] = new]
  BY <1>a DEF Analyze
<1>3. t \in Turns /\ TurnHolds(t, cache[c])
  BY <1>2, TurnOf
<1>4. t.asked \in Seq(Items) /\ t.told \in Seq(Tellings) /\ t.looks \in Nat
  BY <1>3 DEF Turns
<1>5. i = NoImage \/ BearsNumber(t.asked, n, i)
  BY <1>2, <1>3 DEF TurnHolds
<1>6. n \in Nat /\ i \in Images \cup {NoImage}
  <2>1. n \in Nat
    BY <1>4
  <2>2. t.asked \in Seq(Inputs)
    BY <1>4, SeqsGrow DEF Inputs
  <2> QED
    BY <1>5, <2>1, <2>2, NumberedAre DEF BearsNumber
<1>7. Look(n, i) \in Looks /\ Look(n, i) \in Tellings
  BY <1>6 DEF Looks, Tellings
<1>8. /\ Look(n, i).is = "look" /\ Look(n, i).n = n /\ Look(n, i).of = i
  BY DEF Look
<1>9. /\ tale \in Seq(Tellings) /\ Len(tale) = Len(t.told) + 1
      /\ \A k \in 1..Len(t.told) : tale[k] = t.told[k]
      /\ tale[Len(t.told) + 1] = Look(n, i)
  BY <1>4, <1>7, AppendProperties
<1>10. HistoryIn(tale) = HistoryIn(t.told)
  BY <1>4, <1>7, <1>8, HistoryGrows
<1> HIDE DEF tale, t
<1>11. /\ new \in Turns /\ new.pc = "running" /\ new.native = t.native /\ new.agent = t.agent
       /\ new.input = t.input /\ new.asked = t.asked /\ new.told = tale /\ new.base = t.base
  <2>1. t \in Turns /\ t.pc = "running" /\ tale \in Seq(Tellings)
    BY <1>2, <1>3, <1>9
  <2>2. looks \in Nat
    BY <1>4
  <2> HIDE DEF looks
  <2> QED
    BY <2>1, <2>2 DEF Turns
<1> HIDE DEF new
<1>12. LooksRight(new)
  <2>1. LooksRight(t)
    BY <1>2, <1>3 DEF TurnHolds
  <2>2. ASSUME NEW k \in DOMAIN tale
        PROVE  k \in DOMAIN t.told \/ tale[k] = Look(n, i)
    <3>1. k \in 1..(Len(t.told) + 1) /\ Len(t.told) \in Nat /\ DOMAIN t.told = 1..Len(t.told)
      BY <1>4, <1>9
    <3>2. k = Len(t.told) + 1 \/ k \in 1..Len(t.told)
      BY <3>1
    <3> QED
      BY <1>9, <3>1, <3>2
  <2>3. \A k \in DOMAIN t.told : tale[k] = t.told[k]
    BY <1>4, <1>9
  <2> QED
    BY <1>5, <1>8, <1>11, <2>1, <2>2, <2>3 DEF LooksRight
<1>13. TurnHolds(new, cache[c])
  BY <1>2, <1>3, <1>10, <1>11, <1>12 DEF TurnHolds, Follows
<1> QED
  BY <1>2, <1>11, <1>13, OneTurnMovesOn

\* Inserting a record that tells what it stands for.
LEMMA InsertKeeps ==
    ASSUME TalkInv, NEW r \in Records, RecordHolds(r), Insert(r)
    PROVE  records' \in Seq(Records) /\ \A k \in 1..Len(records') : RecordHolds(records'[k])
<1> DEFINE at == RecordAt(r.key)
           n == Len(records)
           full == MaxEntries > 0 /\ n >= MaxEntries
           kept == IF full THEN Tail(records) ELSE records
<1>1. records \in Seq(Records) /\ n \in Nat /\ \A k \in 1..n : RecordHolds(records[k])
  BY DEF TalkInv, TalkTypes
<1>2. records' = IF at # 0 THEN [records EXCEPT ![at] = r] ELSE Append(kept, r)
  BY DEF Insert
<1>3. CASE at # 0
  <2>1. at \in 1..n
    BY <1>1, <1>3, RecordIsThere
  <2> HIDE DEF at
  <2>2. records' = [records EXCEPT ![at] = r]
    BY <1>2, <1>3
  <2>3. records' \in Seq(Records) /\ Len(records') = n
    BY <1>1, <2>1, <2>2, ExceptSeq
  <2>4. \A k \in 1..n : records'[k] = IF k = at THEN r ELSE records[k]
    BY <1>1, <2>1, <2>2
  <2> QED
    BY <1>1, <2>3, <2>4
<1>4. CASE at = 0
  <2>1. kept \in Seq(Records) /\ \A k \in 1..Len(kept) : RecordHolds(kept[k])
    <3>1. CASE full
      <4>1. records # <<>>
        <5>1. MaxEntries \in Nat
          BY ConversationAssumption
        <5> QED
          BY <3>1, <5>1
      <4>2. /\ Tail(records) \in Seq(Records) /\ Len(Tail(records)) = n - 1
            /\ \A k \in 1..Len(Tail(records)) : Tail(records)[k] = records[k + 1]
        BY <1>1, <4>1, HeadTailProperties
      <4>3. \A k \in 1..(n - 1) : k + 1 \in 1..n
        BY <1>1
      <4> QED
        BY <1>1, <3>1, <4>2, <4>3
    <3>2. CASE ~full
      BY <1>1, <3>2
    <3> QED
      BY <3>1, <3>2
  <2> HIDE DEF kept, at
  <2>2. records' = Append(kept, r)
    BY <1>2, <1>4
  <2>3. /\ records' \in Seq(Records) /\ Len(records') = Len(kept) + 1
        /\ \A k \in 1..Len(kept) : records'[k] = kept[k]
        /\ records'[Len(kept) + 1] = r
    BY <2>1, <2>2, AppendProperties
  <2>4. \A k \in 1..(Len(kept) + 1) : k \in 1..Len(kept) \/ k = Len(kept) + 1
    BY <2>1
  <2> QED
    BY <2>1, <2>3, <2>4
<1> QED
  BY <1>3, <1>4

LEMMA AnswerKeeps == ASSUME TalkInv, NEW c \in Clients, Answer(c) PROVE TalkInv'
<1> DEFINE t == ask[c]
<1>1. PICK a \in Answers :
         /\ ask' = [ask EXCEPT ![c] = [t EXCEPT !.pc = "recorded", !.told = Append(@, Said(a))]]
         /\ IF t.store
            THEN Insert([key |-> Key(Served[t.model], t.agent, Append(t.input, Said(a))),
                         told |-> Append(t.told, Said(a)), by |-> c, asked |-> t.model])
            ELSE UNCHANGED records
  BY DEF Answer
<1> DEFINE m == Said(a)
           tale == Append(t.told, m)
           new == [t EXCEPT !.pc = "recorded", !.told = tale]
           key == Key(Served[t.model], t.agent, Append(t.input, m))
           r == [key |-> key, told |-> tale, by |-> c, asked |-> t.model]
<1>2. t.pc = "running" /\ UNCHANGED <<talk, cache>> /\ ask' = [ask EXCEPT ![c] = new]
  BY <1>1 DEF Answer
<1>3. t \in Turns /\ TurnHolds(t, cache[c])
  BY <1>2, TurnOf
<1>4. /\ t.input \in Seq(Inputs) /\ t.told \in Seq(Tellings)
      /\ t.model \in Models /\ t.agent \in BOOLEAN
  BY <1>3 DEF Turns
<1>5. m \in Sayings /\ m \in Inputs /\ m \in Tellings
  BY DEF Sayings, Items, Inputs, Tellings
<1>6. m.is = "said" /\ m.is # "look"
  BY <1>5, KindsApart
<1> HIDE DEF m
<1>7. /\ tale \in Seq(Tellings) /\ Len(tale) = Len(t.told) + 1
      /\ \A k \in 1..Len(t.told) : tale[k] = t.told[k]
      /\ tale[Len(t.told) + 1] = m
  BY <1>4, <1>5, AppendProperties
<1>8. HistoryIn(t.told) = t.input
  BY <1>2, <1>3 DEF TurnHolds, Follows
<1>9. HistoryIn(tale) = Append(t.input, m)
  BY <1>4, <1>5, <1>6, <1>8, HistoryGrows
<1>10. tale = Append(t.told, m)
  OBVIOUS
<1> HIDE DEF tale
<1>11. records' \in Seq(Records) /\ \A k \in 1..Len(records') : RecordHolds(records'[k])
  <2>1. CASE t.store
    <3>1. Insert(r)
      BY <1>1, <2>1 DEF tale, m
    <3>2. Append(t.input, m) \in Seq(Inputs)
      BY <1>4, <1>5, AppendProperties
    <3> DEFINE items == Append(t.input, m)
    <3>3. Served[t.model] \in Models
      BY <1>4, ConversationAssumption
    <3> HIDE DEF items
    <3>4. Key(Served[t.model], t.agent, items) \in Models \X BOOLEAN \X Seq(Inputs)
          /\ Key(Served[t.model], t.agent, items)[3] = items
      BY <1>4, <3>2, <3>3 DEF Key, items
    <3>5. key = Key(Served[t.model], t.agent, items)
      BY DEF items
    <3> HIDE DEF key
    <3>6. r \in Records /\ r.told = tale /\ r.key = key
      BY <1>4, <1>7, <3>4, <3>5 DEF Records
    <3> HIDE DEF r
    <3>7. RecordHolds(r)
      BY <1>9, <3>4, <3>5, <3>6 DEF RecordHolds, items
    <3> QED
      BY <3>1, <3>6, <3>7, InsertKeeps
  <2>2. CASE ~t.store
    BY <1>1, <2>2 DEF TalkInv, TalkTypes
  <2> QED
    BY <2>1, <2>2
<1> HIDE DEF t
<1>12. /\ new \in Turns /\ new.pc = "recorded" /\ new.native = t.native /\ new.agent = t.agent
       /\ new.input = t.input /\ new.asked = t.asked /\ new.told = tale /\ new.base = t.base
  BY <1>3, <1>7 DEF Turns
<1> HIDE DEF new
<1>13. LooksRight(new)
  <2>1. LooksRight(t)
    BY <1>2, <1>3 DEF TurnHolds
  <2>2. ASSUME NEW k \in DOMAIN tale, tale[k].is = "look"
        PROVE  k \in DOMAIN t.told
    <3>1. k \in 1..(Len(t.told) + 1) /\ Len(t.told) \in Nat /\ DOMAIN t.told = 1..Len(t.told)
      BY <1>4, <1>7
    <3>2. k # Len(t.told) + 1
      BY <1>6, <1>7, <2>2
    <3> QED
      BY <3>1, <3>2
  <2>3. \A k \in DOMAIN t.told : tale[k] = t.told[k]
    BY <1>4, <1>7
  <2> QED
    BY <1>12, <2>1, <2>2, <2>3 DEF LooksRight
<1>14. Follows(new)
  BY <1>4, <1>5, <1>8, <1>10, <1>12 DEF Follows
<1>15. TurnHolds(new, cache[c])
  BY <1>2, <1>3, <1>12, <1>13, <1>14 DEF TurnHolds
<1>16. /\ cache' = [cache EXCEPT ![c] = cache[c]]
       /\ talk' \in [Clients -> Seq(Items)]
  BY <1>2 DEF TalkInv, TalkTypes
<1> QED
  BY <1>2, <1>11, <1>12, <1>15, <1>16, OneTurnMoves

\* A turn that is over leaves its records.
LEMMA EndKeeps ==
    ASSUME TalkInv, NEW c \in Clients, TurnEnds(c), talk' \in [Clients -> Seq(Items)]
    PROVE  TalkInv'
<1>1. /\ ask' = [ask EXCEPT ![c] = NoTurn] /\ cache' = [cache EXCEPT ![c] = <<>>]
      /\ records' = records
  BY DEF TurnEnds
<1>2. records' \in Seq(Records) /\ \A k \in 1..Len(records') : RecordHolds(records'[k])
  BY <1>1 DEF TalkInv, TalkTypes
<1>3. TurnHolds(NoTurn, <<>>)
  BY NoTurnHolds
<1> QED
  BY <1>1, <1>2, <1>3, OneTurnMoves

LEMMA TellAnswerKeeps == ASSUME TalkInv, NEW c \in Clients, TellAnswer(c) PROVE TalkInv'
<1> DEFINE t == ask[c]
<1>1. /\ t.pc = "recorded" /\ TurnEnds(c)
      /\ talk' = [talk EXCEPT ![c] = Append(t.asked, Last(t.told))]
  BY DEF TellAnswer
<1>2. t \in Turns /\ TurnHolds(t, cache[c])
  BY <1>1, TurnOf
<1>3. PICK s \in Seq(Tellings), m \in Sayings : t.told = Append(s, m)
  BY <1>1, <1>2 DEF TurnHolds, Follows
<1>4. Last(t.told) = m
  BY <1>3 DEF Last
<1>5. t.asked \in Seq(Items) /\ m \in Items
  BY <1>2 DEF Turns, Items
<1>6. Append(t.asked, Last(t.told)) \in Seq(Items)
  BY <1>4, <1>5
<1>7. talk' \in [Clients -> Seq(Items)]
  BY <1>1, <1>6 DEF TalkInv, TalkTypes
<1> QED
  BY <1>1, <1>7, EndKeeps

LEMMA TalkStep == TalkInv /\ [TalkNext]_talkVars => TalkInv'
<1> SUFFICES ASSUME TalkInv, [TalkNext]_talkVars PROVE TalkInv'
  OBVIOUS
<1>1. CASE UNCHANGED talkVars
  BY <1>1 DEF talkVars, TalkInv, TalkTypes
<1>2. ASSUME NEW c \in Clients, GiveUp(c)
      PROVE  TalkInv'
  <2>1. TurnEnds(c) /\ talk' \in [Clients -> Seq(Items)]
    BY <1>2 DEF GiveUp, TalkInv, TalkTypes
  <2> QED
    BY <2>1, EndKeeps
<1>3. CASE \E c \in Clients :
              \/ Ask(c) \/ PassThrough(c) \/ WithoutAgent(c) \/ ActivateImageAgent(c)
              \/ Expires(c) \/ LookUp(c)
              \/ Analyze(c) \/ Answer(c) \/ TellAnswer(c) \/ GiveUp(c)
  BY <1>2, <1>3, AskKeeps, PassThroughKeeps, WithoutAgentKeeps, ActivateKeeps, ExpiresKeeps,
     LookUpKeeps, AnalyzeKeeps, AnswerKeeps, TellAnswerKeeps
<1> QED
  BY <1>1, <1>3 DEF TalkNext, TalkIsOver

-----------------------------------------------------------------------------
(* The theorems. *)

\* The invariant holds.
THEOREM TalkInvariant == TalkSpec => []TalkInv
BY TalkStarts, TalkStep, PTL DEF TalkSpec

LEMMA UnderwayTurn ==
    ASSUME TalkInv, NEW c \in Clients, Underway(c)
    PROVE  /\ ask[c] \in Turns /\ TurnHolds(ask[c], cache[c])
           /\ ask[c].pc \in {"running", "recorded"}
BY TurnOf DEF Underway

\* What a telling holds is of the input, or a look, or the answer.
LEMMA ToldIsInput ==
    ASSUME NEW t \in Turns, Follows(t), t.pc \in {"running", "recorded"}, NEW k \in DOMAIN t.told
    PROVE  \/ t.told[k] \in Looks \/ t.told[k] \in Sayings
           \/ \E n \in DOMAIN t.input : t.told[k] = t.input[n]
<1>1. t.told \in Seq(Tellings) /\ t.told[k] \in Tellings
  BY DEF Turns
<1>2. ASSUME NEW s \in Seq(Tellings), HistoryIn(s) = t.input, NEW j \in DOMAIN s
      PROVE  s[j] \in Looks \/ \E n \in DOMAIN t.input : s[j] = t.input[n]
  <2>1. CASE s[j].is = "look"
    <3>1. s[j] \in Tellings
      OBVIOUS
    <3> QED
      BY <2>1, <3>1, KindsApart DEF Tellings
  <2>2. CASE s[j].is # "look"
    BY <1>2, <2>2, HistoryHolds
  <2> QED
    BY <2>1, <2>2
<1>3. CASE t.pc = "running"
  BY <1>1, <1>2, <1>3 DEF Follows
<1>4. CASE t.pc = "recorded"
  <2>1. PICK s \in Seq(Tellings), m \in Sayings : t.told = Append(s, m) /\ HistoryIn(s) = t.input
    BY <1>4 DEF Follows
  <2>2. k \in 1..(Len(s) + 1) /\ Len(s) \in Nat
    BY <2>1
  <2>3. CASE k \in 1..Len(s)
    <3>1. t.told[k] = s[k] /\ k \in DOMAIN s
      BY <2>1, <2>3
    <3> QED
      BY <1>2, <2>1, <3>1
  <2>4. CASE k = Len(s) + 1
    BY <2>1, <2>4
  <2> QED
    BY <2>2, <2>3, <2>4
<1> QED
  BY <1>3, <1>4

\* No image reaches a backend that reads text only: not in what a client sends,
\* not in what a record of another turn resumes (engine.rs, the residual-image
\* pass; replay.rs), for any clients, images and limits.
THEOREM TextReadersSeeText == TalkSpec => []NoImageReachesText
<1>1. TalkInv => NoImageReachesText
  <2> SUFFICES ASSUME TalkInv, NEW c \in Clients, Underway(c), ~ask[c].native,
                      NEW k \in DOMAIN ask[c].told
               PROVE  ~Raw(ask[c].told[k])
    BY DEF NoImageReachesText
  <2> DEFINE t == ask[c]
  <2>1. t \in Turns /\ TurnHolds(t, cache[c]) /\ t.pc \in {"running", "recorded"}
    BY UnderwayTurn
  <2>2. \A n \in DOMAIN t.input : ~Raw(t.input[n])
    BY <2>1 DEF TurnHolds
  <2>3. Follows(t)
    BY <2>1 DEF TurnHolds
  <2>4. \/ t.told[k] \in Looks \/ t.told[k] \in Sayings
        \/ \E n \in DOMAIN t.input : t.told[k] = t.input[n]
    BY <2>1, <2>3, ToldIsInput
  <2> QED
    BY <2>2, <2>4, KindsApart
<1> QED
  BY <1>1, TalkInvariant, PTL

\* Whatever number a model asks for, the image that is looked at is the one of
\* its own request that bears the number (vision/cache.rs, run_image_analysis of
\* engine.rs), for any size of the cache.
THEOREM LooksStayAtHome == TalkSpec => []LooksAtOwnImages
<1>1. TalkInv => LooksAtOwnImages
  <2> SUFFICES ASSUME TalkInv, NEW c \in Clients, Underway(c), NEW k \in DOMAIN ask[c].told,
                      k > ask[c].base, ask[c].told[k].is = "look", ask[c].told[k].of # NoImage
               PROVE  /\ ask[c].told[k].n <= Len(UrlImages(ask[c].asked))
                      /\ ask[c].told[k].of = UrlImages(ask[c].asked)[ask[c].told[k].n].of
    BY DEF LooksAtOwnImages
  <2>1. /\ ask[c] \in Turns /\ TurnHolds(ask[c], cache[c])
        /\ ask[c].pc \in {"running", "recorded"}
    BY UnderwayTurn
  <2>2. LooksRight(ask[c])
    BY <2>1 DEF TurnHolds
  <2>3. BearsNumber(ask[c].asked, ask[c].told[k].n, ask[c].told[k].of)
    BY <2>2 DEF LooksRight
  <2> QED
    BY <2>3 DEF BearsNumber
<1> QED
  BY <1>1, TalkInvariant, PTL

\* An upstream is told a client's whole history once and in order, resumed from
\* a record or not (longest_prefix_match of replay.rs), for any histories and any
\* number of records.
THEOREM HistoryToldWhole == TalkSpec => []HistoryIsToldOnce
<1>1. TalkInv => HistoryIsToldOnce
  <2> SUFFICES ASSUME TalkInv, NEW c \in Clients, Underway(c)
               PROVE  IF ask[c].pc = "running" THEN HistoryIn(ask[c].told) = ask[c].input
                      ELSE Front(HistoryIn(ask[c].told)) = ask[c].input
    BY DEF HistoryIsToldOnce
  <2> DEFINE t == ask[c]
  <2>1. t \in Turns /\ TurnHolds(t, cache[c]) /\ t.pc \in {"running", "recorded"}
    BY UnderwayTurn
  <2>2. Follows(t) /\ t.input \in Seq(Inputs)
    BY <2>1 DEF TurnHolds, Turns
  <2>3. CASE t.pc = "running"
    BY <2>2, <2>3 DEF Follows
  <2>4. CASE t.pc = "recorded"
    <3>1. PICK s \in Seq(Tellings), m \in Sayings : t.told = Append(s, m) /\ HistoryIn(s) = t.input
      BY <2>2, <2>4 DEF Follows
    <3>2. m \in Tellings /\ m \in Inputs /\ m.is # "look"
      BY KindsApart DEF Tellings, Inputs, Items
    <3>3. HistoryIn(t.told) = Append(t.input, m)
      BY <3>1, <3>2, HistoryGrows
    <3>4. Front(Append(t.input, m)) = t.input
      <4> DEFINE i == t.input
                 l == Len(i)
      <4>1. i \in Seq(Inputs) /\ l \in Nat
        BY <2>2
      <4> HIDE DEF i
      <4>2. Append(i, m) = i \o <<m>> /\ Len(Append(i, m)) = l + 1
        BY <3>2, <4>1, AppendIsConcat, AppendProperties
      <4>3. Front(Append(i, m)) = SubSeq(i \o <<m>>, 1, l)
        BY <4>1, <4>2 DEF Front
      <4>4. CASE l = 0
        <5>1. SubSeq(i \o <<m>>, 1, l) = <<>>
          BY <4>4, SubSeqEmpty
        <5>2. i = <<>>
          BY <4>1, <4>4
        <5> QED
          BY <4>3, <5>1, <5>2 DEF i
      <4>5. CASE l # 0
        <5>1. 1 \in 1..Len(i) /\ l \in 1..Len(i) /\ <<m>> \in Seq(Inputs)
          BY <3>2, <4>1, <4>5
        <5>2. SubSeq(i \o <<m>>, 1, l) = SubSeq(i, 1, l)
          BY <4>1, <5>1, SubSeqOfConcat1
        <5>3. SubSeq(i, 1, l) = i
          BY <4>1, SubSeqFull
        <5> QED
          BY <4>3, <5>2, <5>3 DEF i
      <4> QED
        BY <4>4, <4>5
    <3> QED
      BY <2>4, <3>3, <3>4
  <2> QED
    BY <2>1, <2>3, <2>4
<1> QED
  BY <1>1, TalkInvariant, PTL

-----------------------------------------------------------------------------
(* What a client is told of a turn.  The first part is about a message: the *)
(* shape every handler of AnthropicStreamConverter leaves it in.            *)

Kinds == {"text", "tool_use", "thinking", "promoted", "server_tool_use",
          "web_search_tool_result"}

Endings == {"error", "max_tokens", "tool_use", "end_turn", "message_stop",
            "length", "tool_calls", "stop", "[DONE]"}

BlockSet ==
    [kind : Kinds, call : TurnCalls \cup {NoCall}, named : BOOLEAN, pieces : Seq(Nat),
     signed : BOOLEAN, open : BOOLEAN]

MessageSet ==
    [started : BOOLEAN, open : BOOLEAN, over : BOOLEAN, blocks : Seq(BlockSet),
     emitted : SUBSET TurnCalls, closed : SUBSET TurnCalls, ends : Seq(Endings),
     buffer : Seq(Nat), signature : BOOLEAN, content : BOOLEAN, tools : BOOLEAN]

\* A block of a message: only the last may be open; a call has one block, which
\* is the client's content and is open until the call is closed.
BlockFits(m, k) ==
    LET b == m.blocks[k]
    IN  /\ b.open <=> m.open /\ k = Len(m.blocks)
        /\ b.open => b.kind \in {"text", "tool_use"}
        /\ b.kind = "thinking" => b.signed
        /\ b.kind \in {"text", "tool_use"} => m.content
        /\ b.call # NoCall <=> b.kind = "tool_use"
        /\ b.call # NoCall => (b.call \in m.closed <=> ~b.open)
        /\ \A j \in DOMAIN m.blocks :
              b.call # NoCall /\ m.blocks[j].call = b.call => j = k

Shape(m) ==
    /\ m.open => m.blocks # <<>>
    /\ \A k \in DOMAIN m.blocks : BlockFits(m, k)
    /\ \A c \in m.closed : \E k \in DOMAIN m.blocks : m.blocks[k].call = c

\* The calls that are marked, and the reason to stop, have blocks.
Backed(m) ==
    /\ \A c \in m.emitted : \E k \in DOMAIN m.blocks : m.blocks[k].call = c
    /\ m.tools => \E k \in DOMAIN m.blocks : m.blocks[k].call # NoCall

Texts(m) == PiecesOf(m, {"text"})
Thoughts(m) == PiecesOf(m, {"thinking", "promoted"}) \o m.buffer

\* What the client has of the call of n fragments: all of it while its block is
\* open, and a beginning of it after that if others came between.
CallTold(m, c, n, crossed) ==
    /\ \A k \in DOMAIN m.blocks : m.blocks[k].call = c =>
          \E i \in 0..n :
             /\ m.blocks[k].pieces = UpTo(i)
             /\ ~crossed \/ m.blocks[k].open => i = n
    /\ (\A k \in DOMAIN m.blocks : m.blocks[k].call # c) => n = 0

EndsWell(m, reason) ==
    \/ m.ends = <<>> /\ ~m.over /\ reason = "none"
    \/ m.ends = <<"error">> /\ m.over
    \/ /\ m.ends = <<StopReason(m, reason), "message_stop">>
       /\ ~m.open /\ m.over /\ m.buffer = <<>>

ChatCallSet == [call : TurnCalls, named : BOOLEAN, pieces : Seq(Nat)]

ChatSet ==
    [text : Seq(Nat), reasoning : Seq(Nat), calls : Seq(ChatCallSet), ends : Seq(Endings)]

\* One call to the client of each call, with all of its fragments so far, and
\* with its name once it was handed off.
CallsArrive(m, sent, handed) ==
    /\ \A j, k \in DOMAIN m.calls : m.calls[j].call = m.calls[k].call => j = k
    /\ \A k \in DOMAIN m.calls :
          /\ m.calls[k].pieces = UpTo(sent[m.calls[k].call])
          /\ m.calls[k].call \in handed => m.calls[k].named
    /\ \A c \in TurnCalls : sent[c] > 0 \/ c \in handed => Registered(m, c)

Stages == {"start", "streaming", "flushing", "again", "completing", "searching",
           "handing off", "ended", "exhausted"}

EngineSet ==
    [at : Stages, round : Nat \ {0}, spoke : BOOLEAN, reasoned : BOOLEAN, todo : Seq(TurnCalls)]

ToldSet ==
    [text : Nat, reasoning : Nat, early : Seq(Nat), begun : BOOLEAN,
     round : [TurnCalls -> Nat], sent : [TurnCalls -> Nat], last : TurnCalls \cup {NoCall},
     crossed : SUBSET TurnCalls, handed : SUBSET TurnCalls, reason : Reasons \cup {"none"}]

Over == engine.at \in {"ended", "exhausted"}

\* What run_turn knows of its calls.
CallsKnown ==
    /\ \A c \in TurnCalls : told.round[c] <= engine.round /\ (told.round[c] = 0 => told.sent[c] = 0)
    /\ told.handed \cap Searches = {}
    /\ told.handed # {} => told.begun /\ engine.at \in {"handing off", "completing", "ended", "exhausted"}
    /\ engine.at = "handing off" => \A k \in DOMAIN engine.todo : engine.todo[k] \notin Searches
    /\ engine.at = "start" => \A c \in TurnCalls : told.sent[c] = 0
    /\ ~Over => told.reason = "none"

\* A block of a call that is being streamed alone stays open.
StaysOpen(c) ==
    /\ engine.at \in {"streaming", "flushing"}
    /\ told.last = c /\ c \notin told.crossed
    /\ told.round[c] = engine.round /\ told.sent[c] > 0
    => IsOpen(anthropic, "tool_use", c)

ClientKnows(c) ==
    /\ CallTold(anthropic, c, told.sent[c], c \in told.crossed)
    /\ told.sent[c] = 0 /\ c \notin told.handed =>
          \A k \in DOMAIN anthropic.blocks : anthropic.blocks[k].call # c
    /\ StaysOpen(c)

AnthropicKnows ==
    /\ chat = NewChat
    /\ Shape(anthropic) /\ Backed(anthropic)
    /\ Texts(anthropic) = UpTo(told.text)
    /\ Thoughts(anthropic) = told.early
    /\ ~Over => (told.begun <=> anthropic.content)
    /\ anthropic.emitted = told.handed
    /\ told.handed # {} => anthropic.tools
    /\ \A c \in TurnCalls \ Searches : ClientKnows(c)
    /\ EndsWell(anthropic, told.reason)
    /\ ~Over => anthropic.ends = <<>>
    /\ engine.at = "exhausted" => anthropic.ends # <<>>

ChatKnows ==
    /\ anthropic = NewMessage
    /\ Searches = {}
    /\ chat.text = UpTo(told.text)
    /\ chat.reasoning = UpTo(told.reasoning)
    /\ CallsArrive(chat, told.sent, told.handed)
    /\ \/ chat.ends = <<>>
       \/ chat.ends = <<"error", "[DONE]">> /\ Over
       \/ chat.ends = <<FinishReason(chat, told.reason), "[DONE]">> /\ Over

EngineInv ==
    /\ surface \in {"anthropic", "chat"}
    /\ tool \in [TurnCalls -> {"client", "search"}]
    /\ engine \in EngineSet /\ told \in ToldSet
    /\ CallsKnown

AnthropicInv == anthropic \in MessageSet /\ AnthropicKnows
ChatInv == chat \in ChatSet /\ ChatKnows

EgressInv ==
    /\ EngineInv
    /\ surface = "anthropic" => AnthropicInv
    /\ surface = "chat" => ChatInv

-----------------------------------------------------------------------------
(* The two loops. *)

\* A function that shows the first n blocks as it showed one less.
Shows(f, blocks, kinds, n) ==
    f = [i \in 0..n |-> IF i = 0 THEN <<>> ELSE f[i - 1] \o PieceOf(blocks[i], kinds)]

\* What is shown of any number of blocks.
LEMMA ShowsExists ==
    ASSUME NEW blocks, NEW kinds, NEW n \in Nat
    PROVE  \E f : Shows(f, blocks, kinds, n)
<1> DEFINE T == {m \in Nat : \E f : Shows(f, blocks, kinds, m)}
<1>1. 0 \in T
  <2>1. Shows([i \in 0..0 |-> <<>>], blocks, kinds, 0)
    BY DEF Shows
  <2> QED
    BY <2>1
<1>2. ASSUME NEW m \in T
      PROVE  m + 1 \in T
  <2>1. m \in Nat /\ \E f : Shows(f, blocks, kinds, m)
    OBVIOUS
  <2>2. PICK f : Shows(f, blocks, kinds, m)
    BY <2>1
  <2> HIDE DEF T
  <2> DEFINE g == [i \in 0..(m + 1) |-> IF i = 0 THEN <<>> ELSE f[i - 1] \o PieceOf(blocks[i], kinds)]
  <2>3. \A i \in 0..m : f[i] = IF i = 0 THEN <<>> ELSE f[i - 1] \o PieceOf(blocks[i], kinds)
    BY <2>1, <2>2 DEF Shows
  <2>4. \A i \in 0..m : i \in 0..(m + 1)
    BY <2>1
  <2>5. \A i \in 0..m : g[i] = f[i]
    BY <2>3, <2>4
  <2>6. \A i \in 0..(m + 1) : i # 0 => i - 1 \in 0..m
    BY <2>1
  <2>7. \A i \in 0..(m + 1) : i # 0 => g[i - 1] = f[i - 1]
    BY <2>5, <2>6
  <2>8. g = [i \in 0..(m + 1) |-> IF i = 0 THEN <<>> ELSE g[i - 1] \o PieceOf(blocks[i], kinds)]
    BY <2>7
  <2>9. Shows(g, blocks, kinds, m + 1)
    BY ONLY <2>8 DEF Shows
  <2> HIDE DEF g
  <2>10. \E h : Shows(h, blocks, kinds, m + 1)
    BY <2>9
  <2> QED
    BY <2>1, <2>10 DEF T
<1> HIDE DEF T
<1>3. T \in SUBSET Nat
  BY DEF T
<1>4. T = Nat
  BY <1>1, <1>2, <1>3, NatSets
<1> QED
  BY <1>4 DEF T

\* The blocks are shown one after the other.
LEMMA ShownIs ==
    ASSUME NEW blocks, NEW kinds, Len(blocks) \in Nat
    PROVE  /\ Shown(blocks, kinds)[0] = <<>>
           /\ \A n \in 1..Len(blocks) :
                 Shown(blocks, kinds)[n] = Shown(blocks, kinds)[n - 1] \o PieceOf(blocks[n], kinds)
<1> DEFINE f == CHOOSE g : Shows(g, blocks, kinds, Len(blocks))
<1>1. Shown(blocks, kinds) = f
  BY Zenon DEF Shown, Shows
<1>2. Shows(f, blocks, kinds, Len(blocks))
  BY ShowsExists
<1> HIDE DEF f
<1>3. \A i \in 0..Len(blocks) : f[i] = IF i = 0 THEN <<>> ELSE f[i - 1] \o PieceOf(blocks[i], kinds)
  BY <1>2 DEF Shows
<1>4. f[0] = <<>>
  BY <1>3
<1>5. ASSUME NEW n \in 1..Len(blocks)
      PROVE  f[n] = f[n - 1] \o PieceOf(blocks[n], kinds)
  <2>1. n \in 0..Len(blocks) /\ n # 0
    OBVIOUS
  <2> QED
    BY <1>3, <2>1, Zenon
<1> QED
  BY <1>1, <1>4, <1>5

\* The next block is shown next.
LEMMA NextIsShown ==
    ASSUME NEW blocks, NEW kinds, Len(blocks) \in Nat, NEW n \in 1..Len(blocks)
    PROVE  Shown(blocks, kinds)[n] = Shown(blocks, kinds)[n - 1] \o PieceOf(blocks[n], kinds)
BY ShownIs

\* Nothing is shown of no block.
LEMMA NoneIsShown ==
    ASSUME NEW blocks, NEW kinds, Len(blocks) \in Nat
    PROVE  Shown(blocks, kinds)[0] = <<>>
BY ShownIs

\* A function that has taken the first n events after one less.
Takes(f, by, m, events, n) ==
    f = [i \in 0..n |-> IF i = 0 THEN m ELSE Take(by, f[i - 1], events[i])]

\* What any number of events makes of a message.
LEMMA TakesExists ==
    ASSUME NEW by, NEW m, NEW events, NEW n \in Nat
    PROVE  \E f : Takes(f, by, m, events, n)
<1> DEFINE T == {k \in Nat : \E f : Takes(f, by, m, events, k)}
<1>1. 0 \in T
  <2>1. Takes([i \in 0..0 |-> m], by, m, events, 0)
    BY DEF Takes
  <2> QED
    BY <2>1
<1>2. ASSUME NEW k \in T
      PROVE  k + 1 \in T
  <2>1. k \in Nat /\ \E f : Takes(f, by, m, events, k)
    OBVIOUS
  <2>2. PICK f : Takes(f, by, m, events, k)
    BY <2>1
  <2> HIDE DEF T
  <2> DEFINE g == [i \in 0..(k + 1) |-> IF i = 0 THEN m ELSE Take(by, f[i - 1], events[i])]
  <2>3. \A i \in 0..k : f[i] = IF i = 0 THEN m ELSE Take(by, f[i - 1], events[i])
    BY <2>1, <2>2 DEF Takes
  <2>4. \A i \in 0..k : i \in 0..(k + 1)
    BY <2>1
  <2>5. \A i \in 0..k : g[i] = f[i]
    BY <2>3, <2>4
  <2>6. \A i \in 0..(k + 1) : i # 0 => i - 1 \in 0..k
    BY <2>1
  <2>7. \A i \in 0..(k + 1) : i # 0 => g[i - 1] = f[i - 1]
    BY <2>5, <2>6
  <2>8. g = [i \in 0..(k + 1) |-> IF i = 0 THEN m ELSE Take(by, g[i - 1], events[i])]
    BY <2>7
  <2>9. Takes(g, by, m, events, k + 1)
    BY ONLY <2>8 DEF Takes
  <2> HIDE DEF g
  <2>10. \E h : Takes(h, by, m, events, k + 1)
    BY <2>9
  <2> QED
    BY <2>1, <2>10 DEF T
<1> HIDE DEF T
<1>3. T \in SUBSET Nat
  BY DEF T
<1>4. T = Nat
  BY <1>1, <1>2, <1>3, NatSets
<1> QED
  BY <1>4 DEF T

\* The events are taken one after the other.
LEMMA AfterIs ==
    ASSUME NEW by, NEW m, NEW events, Len(events) \in Nat
    PROVE  /\ After(by, m, events)[0] = m
           /\ \A n \in 1..Len(events) :
                 After(by, m, events)[n] = Take(by, After(by, m, events)[n - 1], events[n])
<1> DEFINE f == CHOOSE g : Takes(g, by, m, events, Len(events))
<1>1. After(by, m, events) = f
  BY Zenon DEF After, Takes
<1>2. Takes(f, by, m, events, Len(events))
  BY TakesExists
<1> HIDE DEF f
<1>3. \A i \in 0..Len(events) : f[i] = IF i = 0 THEN m ELSE Take(by, f[i - 1], events[i])
  BY <1>2 DEF Takes
<1> QED
  BY <1>1, <1>3

-----------------------------------------------------------------------------
(* What is shown of blocks. *)

\* Concatenation is associative.
LEMMA NumbersAssociate ==
    ASSUME NEW a \in Seq(Nat), NEW b \in Seq(Nat), NEW c \in Seq(Nat)
    PROVE  (a \o b) \o c = a \o (b \o c)
<1> DEFINE left  == (a \o b) \o c
           right == a \o (b \o c)
<1>1. left \in Seq(Nat) /\ right \in Seq(Nat)
  OBVIOUS
<1>2. Len(left) = Len(right)
  OBVIOUS
<1>3. \A i \in 1..Len(left) : left[i] = right[i]
  OBVIOUS
<1> QED
  BY <1>1, <1>2, <1>3, SeqEqual, Zenon

\* A block shows a sequence.
LEMMA PieceIsSeq ==
    ASSUME NEW b \in BlockSet, NEW kinds
    PROVE  PieceOf(b, kinds) \in Seq(Nat)
BY DEF PieceOf, BlockSet

\* Blocks are shown as a sequence.
LEMMA ShownIsSeq ==
    ASSUME NEW blocks \in Seq(BlockSet), NEW kinds, NEW n \in 0..Len(blocks)
    PROVE  Shown(blocks, kinds)[n] \in Seq(Nat)
<1> DEFINE T == {k \in Nat : k <= Len(blocks) => Shown(blocks, kinds)[k] \in Seq(Nat)}
<1>0. Len(blocks) \in Nat
  OBVIOUS
<1>1. 0 \in T
  <2>1. Shown(blocks, kinds)[0] = <<>> /\ <<>> \in Seq(Nat)
    BY <1>0, NoneIsShown
  <2>2. Shown(blocks, kinds)[0] \in Seq(Nat)
    BY <2>1, Zenon
  <2> QED
    BY <2>2
<1>2. ASSUME NEW k \in T
      PROVE  k + 1 \in T
  <2> SUFFICES ASSUME k + 1 <= Len(blocks)
               PROVE  Shown(blocks, kinds)[k + 1] \in Seq(Nat)
    OBVIOUS
  <2>1. k \in Nat /\ k + 1 \in 1..Len(blocks) /\ (k + 1) - 1 = k
    BY <1>0
  <2>2. Shown(blocks, kinds)[k] \in Seq(Nat)
    BY <1>0, <2>1
  <2>3. blocks[k + 1] \in BlockSet
    BY <2>1
  <2>4. PieceOf(blocks[k + 1], kinds) \in Seq(Nat)
    BY <2>3, PieceIsSeq
  <2>5. Shown(blocks, kinds)[k + 1] = Shown(blocks, kinds)[k] \o PieceOf(blocks[k + 1], kinds)
    <3> HIDE DEF T
    <3>1. Shown(blocks, kinds)[k + 1] =
             Shown(blocks, kinds)[(k + 1) - 1] \o PieceOf(blocks[k + 1], kinds)
      BY <1>0, <2>1, NextIsShown
    <3> QED
      BY <2>1, <3>1
  <2> HIDE DEF T
  <2> QED
    BY <2>2, <2>4, <2>5
<1> HIDE DEF T
<1>3. T \in SUBSET Nat
  BY DEF T
<1>4. T = Nat
  BY <1>1, <1>2, <1>3, NatSets
<1> QED
  BY <1>0, <1>4 DEF T

\* Blocks that begin alike are shown alike.
LEMMA ShownAlike ==
    ASSUME NEW a, NEW b, NEW kinds, Len(a) \in Nat, Len(b) \in Nat,
           NEW n \in 0..Len(a), n <= Len(b),
           \A k \in 1..n : a[k].kind = b[k].kind /\ a[k].pieces = b[k].pieces
    PROVE  Shown(a, kinds)[n] = Shown(b, kinds)[n]
<1> DEFINE T == {k \in Nat : k <= n => Shown(a, kinds)[k] = Shown(b, kinds)[k]}
<1>1. 0 \in T
  <2>1. Shown(a, kinds)[0] = <<>> /\ Shown(b, kinds)[0] = <<>>
    BY NoneIsShown
  <2> QED
    BY <2>1
<1>2. ASSUME NEW k \in T
      PROVE  k + 1 \in T
  <2> SUFFICES ASSUME k + 1 <= n
               PROVE  Shown(a, kinds)[k + 1] = Shown(b, kinds)[k + 1]
    OBVIOUS
  <2>1. /\ k \in Nat /\ k + 1 \in 1..Len(a) /\ k + 1 \in 1..Len(b)
        /\ k + 1 \in 1..n /\ (k + 1) - 1 = k
    OBVIOUS
  <2>2. Shown(a, kinds)[k] = Shown(b, kinds)[k]
    BY <2>1
  <2> HIDE DEF T
  <2>3. PieceOf(a[k + 1], kinds) = PieceOf(b[k + 1], kinds)
    BY <2>1 DEF PieceOf
  <2>4. Shown(a, kinds)[k + 1] = Shown(a, kinds)[k] \o PieceOf(a[k + 1], kinds)
    <3>1. Shown(a, kinds)[k + 1] = Shown(a, kinds)[(k + 1) - 1] \o PieceOf(a[k + 1], kinds)
      BY <2>1, NextIsShown
    <3> QED
      BY <2>1, <3>1
  <2>5. Shown(b, kinds)[k + 1] = Shown(b, kinds)[k] \o PieceOf(b[k + 1], kinds)
    <3>1. Shown(b, kinds)[k + 1] = Shown(b, kinds)[(k + 1) - 1] \o PieceOf(b[k + 1], kinds)
      BY <2>1, NextIsShown
    <3> QED
      BY <2>1, <3>1
  <2> QED
    BY <2>2, <2>3, <2>4, <2>5
<1> HIDE DEF T
<1>3. T \in SUBSET Nat
  BY DEF T
<1>4. T = Nat
  BY <1>1, <1>2, <1>3, NatSets
<1> QED
  BY <1>4 DEF T

\* The last block is shown last.
LEMMA LastIsShown ==
    ASSUME NEW blocks, NEW kinds, Len(blocks) \in Nat \ {0}
    PROVE  Shown(blocks, kinds)[Len(blocks)] =
              Shown(blocks, kinds)[Len(blocks) - 1] \o PieceOf(blocks[Len(blocks)], kinds)
<1>1. Len(blocks) \in Nat /\ Len(blocks) \in 1..Len(blocks)
  OBVIOUS
<1> QED
  BY <1>1, NextIsShown, Zenon

\* Texts and thoughts are sequences.
LEMMA PiecesAreSeq ==
    ASSUME NEW m \in MessageSet, NEW kinds
    PROVE  PiecesOf(m, kinds) \in Seq(Nat)
<1>1. m.blocks \in Seq(BlockSet) /\ Len(m.blocks) \in 0..Len(m.blocks)
  BY DEF MessageSet
<1> QED
  BY <1>1, ShownIsSeq DEF PiecesOf

\* Messages whose blocks are of the same kinds and pieces show the same.
LEMMA SamePieces ==
    ASSUME NEW m \in MessageSet, NEW w \in MessageSet, NEW kinds,
           Len(w.blocks) = Len(m.blocks),
           \A k \in DOMAIN m.blocks :
              w.blocks[k].kind = m.blocks[k].kind /\ w.blocks[k].pieces = m.blocks[k].pieces
    PROVE  PiecesOf(w, kinds) = PiecesOf(m, kinds)
<1>1. /\ m.blocks \in Seq(BlockSet) /\ w.blocks \in Seq(BlockSet)
      /\ Len(m.blocks) \in Nat /\ DOMAIN m.blocks = 1..Len(m.blocks)
  BY DEF MessageSet
<1>2. Len(m.blocks) \in 0..Len(m.blocks)
  BY <1>1
<1> QED
  BY <1>1, <1>2, ShownAlike DEF PiecesOf

\* A block more is shown at the end.
LEMMA MorePieces ==
    ASSUME NEW m \in MessageSet, NEW w \in MessageSet, NEW kinds, NEW b \in BlockSet,
           w.blocks = Append(m.blocks, b)
    PROVE  PiecesOf(w, kinds) = PiecesOf(m, kinds) \o PieceOf(b, kinds)
<1> DEFINE N == Len(m.blocks)
<1>1. m.blocks \in Seq(BlockSet) /\ N \in Nat
  BY DEF MessageSet
<1>2. Len(w.blocks) = N + 1 /\ w.blocks[N + 1] = b /\ \A k \in 1..N : w.blocks[k] = m.blocks[k]
  BY <1>1
<1> HIDE DEF N
<1>3. Shown(w.blocks, kinds)[N] = Shown(m.blocks, kinds)[N]
  <2> DEFINE old == m.blocks
             new == w.blocks
  <2>1. Len(old) \in Nat /\ Len(new) \in Nat /\ N \in 0..Len(new) /\ N <= Len(old)
    BY <1>1, <1>2 DEF N
  <2>2. \A k \in 1..N : new[k].kind = old[k].kind /\ new[k].pieces = old[k].pieces
    BY <1>2
  <2> HIDE DEF old, new
  <2>3. Shown(new, kinds)[N] = Shown(old, kinds)[N]
    BY <2>1, <2>2, ShownAlike
  <2> QED
    BY <2>3 DEF old, new
<1>4. Shown(w.blocks, kinds)[N + 1] = Shown(w.blocks, kinds)[N] \o PieceOf(b, kinds)
  <2>1. Len(w.blocks) \in Nat \ {0} /\ Len(w.blocks) - 1 = N
    BY <1>1, <1>2
  <2> QED
    BY <1>2, <2>1, LastIsShown
<1> QED
  BY <1>2, <1>3, <1>4 DEF PiecesOf, N

\* More pieces in the last block are shown at the end.
LEMMA LongerPieces ==
    ASSUME NEW m \in MessageSet, NEW w \in MessageSet, NEW kinds, NEW more \in Seq(Nat),
           m.blocks # <<>>, Len(w.blocks) = Len(m.blocks),
           \A k \in DOMAIN m.blocks :
              /\ w.blocks[k].kind = m.blocks[k].kind
              /\ w.blocks[k].pieces =
                    IF k = Len(m.blocks) THEN m.blocks[k].pieces \o more ELSE m.blocks[k].pieces
    PROVE  PiecesOf(w, kinds) =
              IF LastBlock(m).kind \in kinds THEN PiecesOf(m, kinds) \o more ELSE PiecesOf(m, kinds)
<1> DEFINE N == Len(m.blocks)
           before == Shown(m.blocks, kinds)[N - 1]
<1>1. m.blocks \in Seq(BlockSet) /\ N \in Nat \ {0} /\ DOMAIN m.blocks = 1..N
  BY DEF MessageSet
<1>2. Len(w.blocks) = N /\ LastBlock(m) = m.blocks[N] /\ m.blocks[N] \in BlockSet
  BY <1>1 DEF LastBlock
<1>3. before \in Seq(Nat)
  <2>1. N - 1 \in 0..Len(m.blocks)
    BY <1>1
  <2> HIDE DEF N
  <2> QED
    BY <1>1, <2>1, ShownIsSeq
<1>4. PiecesOf(m, kinds) = before \o PieceOf(m.blocks[N], kinds)
  BY <1>1, LastIsShown DEF PiecesOf
<1>5. PiecesOf(w, kinds) = Shown(w.blocks, kinds)[N - 1] \o PieceOf(w.blocks[N], kinds)
  BY <1>1, <1>2, LastIsShown DEF PiecesOf
<1>6. Shown(w.blocks, kinds)[N - 1] = before
  <2> DEFINE old == m.blocks
             new == w.blocks
             n   == N - 1
  <2>1. Len(old) \in Nat /\ Len(new) \in Nat /\ n \in 0..Len(new) /\ n <= Len(old)
    BY <1>1, <1>2
  <2>2. \A k \in 1..n : new[k].kind = old[k].kind /\ new[k].pieces = old[k].pieces
    BY <1>1
  <2> HIDE DEF old, new, n, N
  <2>3. Shown(new, kinds)[n] = Shown(old, kinds)[n]
    BY ONLY <2>1, <2>2, ShownAlike
  <2> QED
    BY <2>3 DEF old, new, n
<1>7. N \in DOMAIN m.blocks
  BY <1>1
<1>8. /\ w.blocks[N].kind = m.blocks[N].kind
      /\ w.blocks[N].pieces = m.blocks[N].pieces \o more
  BY <1>7
<1>9. m.blocks[N].pieces \in Seq(Nat)
  BY <1>2 DEF BlockSet
<1> HIDE DEF N, before
<1>10. CASE LastBlock(m).kind \in kinds
  <2>1. /\ PieceOf(m.blocks[N], kinds) = m.blocks[N].pieces
        /\ PieceOf(w.blocks[N], kinds) = m.blocks[N].pieces \o more
    BY <1>2, <1>8, <1>10 DEF PieceOf
  <2>2. before \o (m.blocks[N].pieces \o more) = (before \o m.blocks[N].pieces) \o more
    BY <1>3, <1>9, NumbersAssociate
  <2> QED
    BY <1>4, <1>5, <1>6, <1>10, <2>1, <2>2
<1>11. CASE LastBlock(m).kind \notin kinds
  <2>1. PieceOf(m.blocks[N], kinds) = <<>> /\ PieceOf(w.blocks[N], kinds) = <<>>
    BY <1>2, <1>8, <1>11 DEF PieceOf
  <2> QED
    BY <1>4, <1>5, <1>6, <1>11, <2>1
<1> QED
  BY <1>10, <1>11

-----------------------------------------------------------------------------
(* What the handlers leave of a message. *)

\* A fresh message.
LEMMA NewMessageFits ==
    /\ NewMessage \in MessageSet /\ Shape(NewMessage)
    /\ Texts(NewMessage) = <<>> /\ Thoughts(NewMessage) = <<>>
<1>1. NewMessage \in MessageSet
  BY DEF NewMessage, MessageSet
<1>2. Shape(NewMessage)
  BY DEF NewMessage, Shape
<1>3. ASSUME NEW kinds
      PROVE  PiecesOf(NewMessage, kinds) = <<>>
  <2>1. NewMessage.blocks = <<>> /\ Len(<<>>) = 0
    BY DEF NewMessage
  <2>2. Shown(<<>>, kinds)[0] = <<>>
    BY <2>1, NoneIsShown
  <2> QED
    BY <2>1, <2>2 DEF PiecesOf
<1>4. NewMessage.buffer = <<>> /\ <<>> \o <<>> = <<>>
  BY DEF NewMessage
<1> QED
  BY <1>1, <1>2, <1>3, <1>4 DEF Texts, Thoughts

\* A message has finitely many blocks.
LEMMA BlocksAre ==
    ASSUME NEW m \in MessageSet
    PROVE  /\ m.blocks \in Seq(BlockSet) /\ Len(m.blocks) \in Nat
           /\ DOMAIN m.blocks = 1..Len(m.blocks)
           /\ \A k \in DOMAIN m.blocks : m.blocks[k] \in BlockSet
           /\ m.open \in BOOLEAN /\ m.content \in BOOLEAN /\ m.tools \in BOOLEAN
           /\ m.buffer \in Seq(Nat)
BY DEF MessageSet

\* close_open_block.
LEMMA CloseIs ==
    ASSUME NEW m \in MessageSet, Shape(m)
    PROVE  /\ Close(m) \in MessageSet
           /\ ~Close(m).open
           /\ Len(Close(m).blocks) = Len(m.blocks)
           /\ \A k \in DOMAIN m.blocks :
                 Close(m).blocks[k] = [m.blocks[k] EXCEPT !.open = FALSE]
           /\ \A c : c \in Close(m).closed <=>
                     c \in m.closed \/ (m.open /\ c = LastBlock(m).call /\ c # NoCall)
           /\ Close(m).emitted = m.emitted /\ Close(m).ends = m.ends
           /\ Close(m).over = m.over /\ Close(m).tools = m.tools
           /\ Close(m).content = m.content /\ Close(m).buffer = m.buffer
           /\ Close(m).signature = m.signature
<1> DEFINE N == Len(m.blocks)
<1>0. /\ m.blocks \in Seq(BlockSet) /\ N \in Nat /\ DOMAIN m.blocks = 1..N
      /\ \A k \in DOMAIN m.blocks : m.blocks[k] \in BlockSet
  BY BlocksAre
<1>1. CASE ~m.open
  <2>1. Close(m) = m
    BY <1>1 DEF Close
  <2>2. ASSUME NEW k \in DOMAIN m.blocks
        PROVE  m.blocks[k] = [m.blocks[k] EXCEPT !.open = FALSE]
    <3>1. m.blocks[k] \in BlockSet /\ m.blocks[k].open = FALSE
      BY <1>0, <1>1 DEF Shape, BlockFits, BlockSet
    <3> QED
      BY <3>1 DEF BlockSet
  <2> QED
    BY <1>1, <2>1, <2>2
<1>2. CASE m.open
  <2> DEFINE last == m.blocks[N]
             shut == [last EXCEPT !.open = FALSE]
             blocks == [m.blocks EXCEPT ![N] = shut]
             closed == m.closed \cup ({last.call} \ {NoCall})
  <2>1. N \in 1..N /\ last \in BlockSet
    BY <1>0, <1>2 DEF Shape
  <2>2. shut \in BlockSet
    BY <2>1 DEF BlockSet
  <2>3. blocks \in Seq(BlockSet) /\ Len(blocks) = N /\ DOMAIN blocks = 1..N
    BY <1>0, <2>1, <2>2
  <2>4. closed \in SUBSET TurnCalls
    BY <2>1 DEF MessageSet, BlockSet
  <2>5. Close(m) = [m EXCEPT !.open = FALSE, !.blocks = blocks, !.closed = closed]
    BY <1>2 DEF Close, LastBlock
  <2>6. ASSUME NEW k \in DOMAIN m.blocks
        PROVE  blocks[k] = [m.blocks[k] EXCEPT !.open = FALSE]
    <3>1. CASE k = N
      BY <1>0, <3>1
    <3>2. CASE k # N
      <4>1. blocks[k] = m.blocks[k] /\ m.blocks[k].open = FALSE
        BY <1>0, <3>2 DEF Shape, BlockFits, BlockSet
      <4>2. m.blocks[k] \in BlockSet
        BY <1>0
      <4> QED
        BY <4>1, <4>2 DEF BlockSet
    <3> QED
      BY <3>1, <3>2
  <2>7. \A c : c \in closed <=> c \in m.closed \/ (c = last.call /\ c # NoCall)
    OBVIOUS
  <2>8. LastBlock(m) = last
    BY DEF LastBlock
  <2> HIDE DEF blocks, closed, shut, last
  <2>9. /\ Close(m) \in MessageSet
        /\ Close(m).open = FALSE /\ Close(m).blocks = blocks /\ Close(m).closed = closed
    BY <2>3, <2>4, <2>5 DEF MessageSet
  <2>10. /\ Close(m).emitted = m.emitted /\ Close(m).ends = m.ends
         /\ Close(m).over = m.over /\ Close(m).tools = m.tools
         /\ Close(m).content = m.content /\ Close(m).buffer = m.buffer
         /\ Close(m).signature = m.signature
    BY <2>5 DEF MessageSet
  <2> QED
    BY <1>2, <2>3, <2>6, <2>7, <2>8, <2>9, <2>10
<1> QED
  BY <1>1, <1>2

\* What a handler leaves as it was: all that was told, and every call but one.
CallsKept(m, w, but) ==
    /\ \A k \in DOMAIN m.blocks :
          /\ k \in DOMAIN w.blocks
          /\ w.blocks[k].call = m.blocks[k].call
          /\ m.blocks[k].call \notin {NoCall, but} =>
                /\ w.blocks[k].pieces = m.blocks[k].pieces
                /\ w.blocks[k].open => m.blocks[k].open
    /\ \A k \in DOMAIN w.blocks : k \in DOMAIN m.blocks \/ w.blocks[k].call \in {NoCall, but}

Keeps(m, w, but) ==
    /\ w \in MessageSet /\ Shape(w)
    /\ w.emitted = m.emitted /\ w.ends = m.ends /\ w.over = m.over
    /\ m.content => w.content
    /\ w.tools = m.tools
    /\ Texts(w) = Texts(m) /\ Thoughts(w) = Thoughts(m)
    /\ CallsKept(m, w, but)

\* A closed message has the shape of an open one and tells the same.
LEMMA CloseKeeps ==
    ASSUME NEW m \in MessageSet, Shape(m)
    PROVE  Keeps(m, Close(m), NoCall) /\ ~Close(m).open
<1> DEFINE w == Close(m)
           N == Len(m.blocks)
<1>0. /\ m.blocks \in Seq(BlockSet) /\ N \in Nat /\ DOMAIN m.blocks = 1..N
      /\ \A k \in DOMAIN m.blocks : m.blocks[k] \in BlockSet
  BY BlocksAre
<1>1. w \in MessageSet /\ ~w.open /\ Len(w.blocks) = N
  BY CloseIs
<1>2. DOMAIN w.blocks = 1..N
  BY <1>1, BlocksAre
<1>3. \A k \in 1..N : w.blocks[k] = [m.blocks[k] EXCEPT !.open = FALSE]
  BY <1>0, CloseIs
<1>4. \A c : c \in w.closed <=> c \in m.closed \/ (m.open /\ c = LastBlock(m).call /\ c # NoCall)
  BY CloseIs
<1>5. /\ w.emitted = m.emitted /\ w.ends = m.ends /\ w.over = m.over /\ w.tools = m.tools
      /\ w.content = m.content /\ w.buffer = m.buffer
  BY CloseIs
<1>6. \A k \in 1..N :
         /\ w.blocks[k].open = FALSE
         /\ w.blocks[k].kind = m.blocks[k].kind /\ w.blocks[k].call = m.blocks[k].call
         /\ w.blocks[k].pieces = m.blocks[k].pieces /\ w.blocks[k].signed = m.blocks[k].signed
  BY <1>0, <1>3 DEF BlockSet
<1>7. LastBlock(m) = m.blocks[N]
  BY DEF LastBlock
<1> HIDE DEF w, N
<1>8. Shape(w)
  <2>1. ASSUME NEW k \in 1..N
        PROVE  BlockFits(w, k)
    <3>0. BlockFits(m, k)
      BY <1>0 DEF Shape
    <3>1. w.blocks[k].call # NoCall => w.blocks[k].call \in w.closed
      <4>1. CASE m.blocks[k].open
        <5>1. k = N /\ m.open
          BY <3>0, <4>1 DEF BlockFits, N
        <5> QED
          BY <1>4, <1>6, <1>7, <5>1
      <4>2. CASE ~m.blocks[k].open
        <5>1. m.blocks[k].call # NoCall => m.blocks[k].call \in m.closed
          BY <3>0, <4>2 DEF BlockFits
        <5> QED
          BY <1>4, <1>6, <5>1
      <4> QED
        BY <4>1, <4>2
    <3> QED
      BY <1>0, <1>1, <1>2, <1>5, <1>6, <3>0, <3>1 DEF BlockFits
  <2>2. ASSUME NEW c \in w.closed
        PROVE  \E k \in DOMAIN w.blocks : w.blocks[k].call = c
    <3>1. CASE c \in m.closed
      <4>1. PICK k \in 1..N : m.blocks[k].call = c
        BY <1>0, <3>1 DEF Shape
      <4> QED
        BY <1>2, <1>6, <4>1
    <3>2. CASE m.open /\ c = LastBlock(m).call
      <4>1. N \in 1..N
        BY <1>0, <3>2 DEF Shape, N
      <4> QED
        BY <1>2, <1>6, <1>7, <3>2, <4>1
    <3> QED
      BY <1>4, <1>5, <3>1, <3>2
  <2> QED
    BY <1>1, <1>2, <2>1, <2>2 DEF Shape
<1>9. Texts(w) = Texts(m) /\ Thoughts(w) = Thoughts(m)
  <2>1. ASSUME NEW kinds
        PROVE  PiecesOf(w, kinds) = PiecesOf(m, kinds)
    <3>1. /\ Len(w.blocks) = Len(m.blocks)
          /\ \A k \in DOMAIN m.blocks :
                w.blocks[k].kind = m.blocks[k].kind /\ w.blocks[k].pieces = m.blocks[k].pieces
      BY <1>0, <1>1, <1>6 DEF N
    <3> QED
      BY <1>1, <3>1, SamePieces
  <2> QED
    BY <1>5, <2>1 DEF Texts, Thoughts
<1>10. CallsKept(m, w, NoCall)
  BY <1>0, <1>2, <1>6 DEF CallsKept
<1>11. Keeps(m, w, NoCall)
  BY <1>1, <1>5, <1>8, <1>9, <1>10 DEF Keeps
<1> QED
  BY <1>1, <1>11 DEF w

\* One handler after another.
LEMMA KeepsOn ==
    ASSUME NEW m, NEW v, NEW w, NEW one, NEW but, one \in {NoCall, but},
           Keeps(m, v, one), Keeps(v, w, but)
    PROVE  Keeps(m, w, but)
<1>1. CallsKept(m, w, but)
  <2>1. ASSUME NEW k \in DOMAIN m.blocks
        PROVE  /\ k \in DOMAIN w.blocks
               /\ w.blocks[k].call = m.blocks[k].call
               /\ m.blocks[k].call \notin {NoCall, but} =>
                     /\ w.blocks[k].pieces = m.blocks[k].pieces
                     /\ w.blocks[k].open => m.blocks[k].open
    <3>1. /\ k \in DOMAIN v.blocks
          /\ v.blocks[k].call = m.blocks[k].call
          /\ m.blocks[k].call \notin {NoCall, one} =>
                /\ v.blocks[k].pieces = m.blocks[k].pieces
                /\ v.blocks[k].open => m.blocks[k].open
      BY DEF Keeps, CallsKept
    <3>2. /\ k \in DOMAIN w.blocks
          /\ w.blocks[k].call = v.blocks[k].call
          /\ v.blocks[k].call \notin {NoCall, but} =>
                /\ w.blocks[k].pieces = v.blocks[k].pieces
                /\ w.blocks[k].open => v.blocks[k].open
      BY <3>1 DEF Keeps, CallsKept
    <3> QED
      BY <3>1, <3>2
  <2>2. ASSUME NEW k \in DOMAIN w.blocks
        PROVE  k \in DOMAIN m.blocks \/ w.blocks[k].call \in {NoCall, but}
    <3>1. k \in DOMAIN v.blocks \/ w.blocks[k].call \in {NoCall, but}
      BY DEF Keeps, CallsKept
    <3>2. CASE k \in DOMAIN v.blocks
      <4>1. w.blocks[k].call = v.blocks[k].call
        BY <3>2 DEF Keeps, CallsKept
      <4>2. k \in DOMAIN m.blocks \/ v.blocks[k].call \in {NoCall, one}
        BY <3>2 DEF Keeps, CallsKept
      <4> QED
        BY <4>1, <4>2
    <3> QED
      BY <3>1, <3>2
  <2> QED
    BY <2>1, <2>2 DEF CallsKept
<1> QED
  BY <1>1 DEF Keeps

\* Nothing changes.
LEMMA KeepsItself ==
    ASSUME NEW m \in MessageSet, Shape(m), NEW but
    PROVE  Keeps(m, m, but)
BY DEF Keeps, CallsKept

\* A block that may be put at the end of a message with no block open.
MayFollow(m, b) ==
    /\ b.kind = "thinking" => b.signed
    /\ b.open => b.kind \in {"text", "tool_use"}
    /\ b.call # NoCall <=> b.kind = "tool_use"
    /\ b.call # NoCall => b.open /\ \A k \in DOMAIN m.blocks : m.blocks[k].call # b.call

\* A block is put at the end.
LEMMA BlockFollows ==
    ASSUME NEW m \in MessageSet, Shape(m), ~m.open, NEW b \in BlockSet, MayFollow(m, b),
           NEW w \in MessageSet, w.blocks = Append(m.blocks, b), w.open = b.open,
           b.kind \in {"text", "tool_use"} => w.content,
           b.call # NoCall => b.call \notin m.closed,
           w.closed = m.closed, m.content => w.content
    PROVE  /\ Shape(w)
           /\ CallsKept(m, w, b.call)
           /\ Len(w.blocks) = Len(m.blocks) + 1 /\ LastBlock(w) = b
           /\ \A kinds : PiecesOf(w, kinds) = PiecesOf(m, kinds) \o PieceOf(b, kinds)
<1> DEFINE N == Len(m.blocks)
<1>0. /\ m.blocks \in Seq(BlockSet) /\ N \in Nat /\ DOMAIN m.blocks = 1..N
      /\ \A k \in DOMAIN m.blocks : m.blocks[k] \in BlockSet
  BY BlocksAre
<1>1. /\ Len(w.blocks) = N + 1 /\ DOMAIN w.blocks = 1..(N + 1)
      /\ w.blocks[N + 1] = b /\ \A k \in 1..N : w.blocks[k] = m.blocks[k]
  BY <1>0
<1>2. LastBlock(w) = b
  BY <1>1 DEF LastBlock
<1>3. \A kinds : PiecesOf(w, kinds) = PiecesOf(m, kinds) \o PieceOf(b, kinds)
  BY MorePieces
<1> HIDE DEF N
<1>4. \A k \in 1..N : BlockFits(m, k) /\ ~m.blocks[k].open
  <2>1. \A k \in 1..N : BlockFits(m, k) /\ m.blocks[k] \in BlockSet
    BY <1>0 DEF Shape
  <2> QED
    BY <2>1 DEF BlockFits
<1>5. CallsKept(m, w, b.call)
  BY <1>0, <1>1 DEF CallsKept
<1>6. ASSUME NEW k \in 1..(N + 1)
      PROVE  BlockFits(w, k)
  <2>1. CASE k = N + 1
    <3>1. b.open \in BOOLEAN /\ w.open \in BOOLEAN /\ w.content \in BOOLEAN
      BY DEF BlockSet, MessageSet
    <3>2. b.call # NoCall => \A j \in 1..(N + 1) : w.blocks[j].call = b.call => j = N + 1
      <4> SUFFICES ASSUME b.call # NoCall, NEW j \in 1..(N + 1), j # N + 1
                   PROVE  w.blocks[j].call # b.call
        OBVIOUS
      <4>1. j \in 1..N
        BY <1>0
      <4>2. w.blocks[j] = m.blocks[j]
        BY <1>1, <4>1
      <4> QED
        BY <1>0, <4>1, <4>2 DEF MayFollow
    <3> QED
      BY <1>0, <1>1, <2>1, <3>1, <3>2 DEF MayFollow, BlockFits
  <2>2. CASE k # N + 1
    <3>1. k \in 1..N /\ k # N + 1
      BY <1>0, <2>2
    <3>2. w.blocks[k] = m.blocks[k] /\ BlockFits(m, k) /\ ~m.blocks[k].open
      BY <1>1, <1>4, <3>1
    <3>3. m.blocks[k].call # NoCall =>
             \A j \in 1..(N + 1) : w.blocks[j].call = m.blocks[k].call => j = k
      <4> SUFFICES ASSUME m.blocks[k].call # NoCall, NEW j \in 1..(N + 1),
                          w.blocks[j].call = m.blocks[k].call
                   PROVE  j = k
        OBVIOUS
      <4>1. b.call # m.blocks[k].call
        BY <1>0, <3>1 DEF MayFollow
      <4>2. j \in 1..N /\ m.blocks[j].call = m.blocks[k].call
        BY <1>0, <1>1, <4>1
      <4> QED
        BY <1>0, <3>2, <4>2 DEF BlockFits
    <3> QED
      BY <1>0, <1>1, <3>1, <3>2, <3>3 DEF BlockFits
  <2> QED
    BY <2>1, <2>2
<1>7. ASSUME NEW c \in w.closed
      PROVE  \E k \in DOMAIN w.blocks : w.blocks[k].call = c
  <2>1. PICK k \in 1..N : m.blocks[k].call = c
    BY <1>0 DEF Shape
  <2> QED
    BY <1>0, <1>1, <2>1
<1>9. Shape(w)
  <2>1. w.blocks # <<>>
    <3>1. Len(<<>>) = 0
      OBVIOUS
    <3>2. Len(w.blocks) # 0
      BY <1>0, <1>1
    <3> QED
      BY <3>1, <3>2, Zenon
  <2> QED
    BY <1>1, <1>6, <1>7, <2>1 DEF Shape
<1> QED
  BY <1>1, <1>2, <1>3, <1>5, <1>9 DEF N

\* Nothing is added to a sequence by nothing.
LEMMA NumbersAndNone ==
    ASSUME NEW a \in Seq(Nat)
    PROVE  a \o <<>> = a /\ <<>> \o a = a
OBVIOUS

\* What is marked goes on having a block.
LEMMA KeepsBacked ==
    ASSUME NEW m, NEW w, NEW but, Keeps(m, w, but), Backed(m)
    PROVE  Backed(w)
<1>1. ASSUME NEW c \in w.emitted
      PROVE  \E k \in DOMAIN w.blocks : w.blocks[k].call = c
  <2>1. PICK k \in DOMAIN m.blocks : m.blocks[k].call = c
    BY DEF Backed, Keeps
  <2> QED
    BY <2>1 DEF Keeps, CallsKept
<1>2. ASSUME w.tools
      PROVE  \E k \in DOMAIN w.blocks : w.blocks[k].call # NoCall
  <2>1. PICK k \in DOMAIN m.blocks : m.blocks[k].call # NoCall
    BY <1>2 DEF Backed, Keeps
  <2> QED
    BY <2>1 DEF Keeps, CallsKept
<1> QED
  BY <1>1, <1>2 DEF Backed

\* Only marks change.
LEMMA MarksFit ==
    ASSUME NEW m \in MessageSet, Shape(m), NEW w \in MessageSet, NEW but,
           w.blocks = m.blocks, w.open = m.open, w.closed = m.closed, w.buffer = m.buffer,
           m.content => w.content
    PROVE  /\ Shape(w) /\ CallsKept(m, w, but)
           /\ Texts(w) = Texts(m) /\ Thoughts(w) = Thoughts(m)
<1>1. Shape(w)
  <2>1. ASSUME NEW k \in DOMAIN m.blocks
        PROVE  BlockFits(w, k)
    <3>1. BlockFits(m, k)
      BY DEF Shape
    <3> QED
      BY <3>1 DEF BlockFits
  <2> QED
    BY <2>1 DEF Shape
<1>2. CallsKept(m, w, but)
  BY DEF CallsKept
<1>3. Texts(w) = Texts(m) /\ Thoughts(w) = Thoughts(m)
  BY DEF Texts, Thoughts, PiecesOf
<1> QED
  BY <1>1, <1>2, <1>3

\* What else a message is.
Rest(m) == <<m.closed, m.emitted, m.ends, m.over, m.tools>>

\* What was buffered is shown.
LEMMA ReasoningIsShown ==
    ASSUME NEW m \in MessageSet, Shape(m), ~m.open, NEW b \in BlockSet,
           b.kind = "promoted" \/ (b.kind = "thinking" /\ b.signed),
           b.call = NoCall, b.open = FALSE, b.pieces = m.buffer,
           NEW w \in MessageSet, w.blocks = Append(m.blocks, b), w.open = m.open,
           w.buffer = <<>>, Rest(w) = Rest(m), m.content => w.content
    PROVE  Keeps(m, w, NoCall)
<1>1. MayFollow(m, b) /\ w.open = b.open
  <2>1. w.open \in BOOLEAN
    BY DEF MessageSet
  <2> QED
    BY <2>1 DEF MayFollow
<1>2. /\ w.closed = m.closed /\ w.emitted = m.emitted /\ w.ends = m.ends
      /\ w.over = m.over /\ w.tools = m.tools
  BY DEF Rest
<1>3. /\ Shape(w) /\ CallsKept(m, w, b.call)
      /\ \A kinds : PiecesOf(w, kinds) = PiecesOf(m, kinds) \o PieceOf(b, kinds)
  BY <1>1, <1>2, BlockFollows
<1>4. PieceOf(b, {"text"}) = <<>> /\ PieceOf(b, {"thinking", "promoted"}) = m.buffer
  BY DEF PieceOf
<1>5. Texts(w) = Texts(m)
  <2>1. PiecesOf(m, {"text"}) \in Seq(Nat)
    BY PiecesAreSeq
  <2>2. PiecesOf(w, {"text"}) = PiecesOf(m, {"text"}) \o <<>>
    BY <1>3, <1>4
  <2> QED
    BY <2>1, <2>2, NumbersAndNone DEF Texts
<1>6. Thoughts(w) = Thoughts(m)
  <2> DEFINE before == PiecesOf(m, {"thinking", "promoted"})
             now == PiecesOf(w, {"thinking", "promoted"})
  <2>1. now \in Seq(Nat)
    BY PiecesAreSeq
  <2>2. now = before \o m.buffer
    BY <1>3, <1>4
  <2>3. Thoughts(w) = now \o <<>> /\ Thoughts(m) = before \o m.buffer
    BY DEF Thoughts
  <2> HIDE DEF before, now
  <2>4. now \o <<>> = now
    BY <2>1, NumbersAndNone
  <2> QED
    BY <2>2, <2>3, <2>4
<1> QED
  BY <1>2, <1>3, <1>5, <1>6 DEF Keeps

\* flush_reasoning_as_thinking: what is buffered is shown, and no call changes.
LEMMA FlushKeeps ==
    ASSUME NEW m \in MessageSet, Shape(m)
    PROVE  /\ Keeps(m, FlushThinking(m), NoCall)
           /\ FlushThinking(m).buffer = <<>>
           /\ FlushThinking(m).content = m.content
<1>1. CASE m.buffer = <<>> /\ ~m.signature
  <2>1. FlushThinking(m) = m
    BY <1>1 DEF FlushThinking
  <2> QED
    BY <1>1, <2>1, KeepsItself
<1>2. CASE ~(m.buffer = <<>> /\ ~m.signature)
  <2> DEFINE c == Close(m)
             b == [Block("thinking", NoCall, TRUE, m.buffer) EXCEPT !.signed = TRUE]
             blocks == Append(c.blocks, b)
             w == [c EXCEPT !.blocks = blocks, !.buffer = <<>>, !.signature = FALSE]
  <2>1. FlushThinking(m) = w
    BY <1>2 DEF FlushThinking
  <2>2. Keeps(m, c, NoCall) /\ ~c.open
    BY CloseKeeps
  <2>3. c \in MessageSet /\ Shape(c)
    BY <2>2 DEF Keeps
  <2>4. c.buffer = m.buffer /\ c.content = m.content
    BY CloseIs
  <2>5. /\ b \in BlockSet /\ b.kind = "thinking" /\ b.signed
        /\ b.call = NoCall /\ b.open = FALSE /\ b.pieces = m.buffer
    <3>1. m.buffer \in Seq(Nat)
      BY BlocksAre
    <3> QED
      BY <3>1 DEF Block, BlockSet, Kinds
  <2>6. c.blocks \in Seq(BlockSet)
    BY <2>3, BlocksAre
  <2> HIDE DEF b, c
  <2>7. blocks \in Seq(BlockSet) /\ <<>> \in Seq(Nat)
    BY <2>5, <2>6
  <2>8. blocks = Append(c.blocks, b)
    OBVIOUS
  <2> HIDE DEF blocks
  <2>9. w \in MessageSet /\ w.blocks = blocks /\ w.buffer = <<>>
    BY <2>3, <2>7 DEF MessageSet
  <2>10. w.open = c.open /\ w.content = c.content /\ Rest(w) = Rest(c)
    BY <2>3 DEF MessageSet, Rest
  <2> HIDE DEF w
  <2>11. Keeps(c, w, NoCall)
    BY <2>2, <2>3, <2>4, <2>5, <2>8, <2>9, <2>10, ReasoningIsShown
  <2>12. Keeps(m, w, NoCall)
    BY <2>2, <2>11, KeepsOn
  <2> QED
    BY <2>1, <2>4, <2>9, <2>10, <2>12
<1> QED
  BY <1>1, <1>2

\* flush_reasoning_terminal: so is it when it is shown as the answer.
LEMMA FlushTerminalKeeps ==
    ASSUME NEW m \in MessageSet, Shape(m), NEW clean
    PROVE  /\ Keeps(m, FlushTerminal(m, clean), NoCall)
           /\ FlushTerminal(m, clean).buffer = <<>>
<1> DEFINE alone == clean /\ ~m.content /\ ~m.tools /\ ~m.signature /\ m.buffer # <<>>
<1>1. CASE ~alone
  <2>1. FlushTerminal(m, clean) = FlushThinking(m)
    BY <1>1 DEF FlushTerminal
  <2> QED
    BY <2>1, FlushKeeps
<1>2. CASE alone
  <2> DEFINE c == Close(m)
             b == Block("promoted", NoCall, TRUE, m.buffer)
             blocks == Append(c.blocks, b)
             w == [c EXCEPT !.blocks = blocks, !.buffer = <<>>, !.content = TRUE]
  <2>1. FlushTerminal(m, clean) = w
    BY <1>2 DEF FlushTerminal
  <2>2. Keeps(m, c, NoCall) /\ ~c.open
    BY CloseKeeps
  <2>3. c \in MessageSet /\ Shape(c)
    BY <2>2 DEF Keeps
  <2>4. c.buffer = m.buffer
    BY CloseIs
  <2>5. /\ b \in BlockSet /\ b.kind = "promoted"
        /\ b.call = NoCall /\ b.open = FALSE /\ b.pieces = m.buffer
    <3>1. m.buffer \in Seq(Nat)
      BY BlocksAre
    <3> QED
      BY <3>1 DEF Block, BlockSet, Kinds
  <2>6. c.blocks \in Seq(BlockSet)
    BY <2>3, BlocksAre
  <2> HIDE DEF b, c
  <2>7. blocks \in Seq(BlockSet) /\ <<>> \in Seq(Nat)
    BY <2>5, <2>6
  <2>8. blocks = Append(c.blocks, b)
    OBVIOUS
  <2> HIDE DEF blocks
  <2>9. w \in MessageSet /\ w.blocks = blocks /\ w.buffer = <<>> /\ (c.content => w.content)
    BY <2>3, <2>7 DEF MessageSet
  <2>10. w.open = c.open /\ Rest(w) = Rest(c)
    BY <2>3 DEF MessageSet, Rest
  <2> HIDE DEF w
  <2>11. Keeps(c, w, NoCall)
    <3>1. b.kind = "promoted" \/ (b.kind = "thinking" /\ b.signed)
      BY <2>5
    <3> QED
      BY ONLY <2>2, <2>3, <2>4, <2>5, <2>8, <2>9, <2>10, <3>1, ReasoningIsShown
  <2>12. Keeps(m, w, NoCall)
    BY <2>2, <2>11, KeepsOn
  <2> QED
    BY <2>1, <2>9, <2>12
<1> QED
  BY <1>1, <1>2

\* A call that is neither closed nor open has no block.
LEMMA NoBlockYet ==
    ASSUME NEW m \in MessageSet, Shape(m), NEW c \in TurnCalls, c \notin m.closed,
           ~IsOpen(m, "tool_use", c)
    PROVE  \A k \in DOMAIN m.blocks : m.blocks[k].call # c
<1>1. c # NoCall
  BY EgressAssumption DEF NoCall
<1> SUFFICES ASSUME NEW k \in DOMAIN m.blocks, m.blocks[k].call = c
             PROVE  FALSE
  OBVIOUS
<1>2. BlockFits(m, k)
  BY DEF Shape
<1>3. m.blocks[k].open /\ m.blocks[k].kind = "tool_use"
  BY <1>1, <1>2 DEF BlockFits
<1>4. m.open /\ k = Len(m.blocks)
  BY <1>2, <1>3 DEF BlockFits
<1> QED
  BY <1>3, <1>4 DEF IsOpen, LastBlock

\* What has no block has none later, as long as other calls are at it.
LEMMA NoBlockStill ==
    ASSUME NEW m, NEW w, Keeps(m, w, NoCall), NEW c \in TurnCalls,
           \A k \in DOMAIN m.blocks : m.blocks[k].call # c
    PROVE  (\A k \in DOMAIN w.blocks : w.blocks[k].call # c) /\ c \notin w.closed
<1>1. c # NoCall
  BY EgressAssumption DEF NoCall
<1>2. \A k \in DOMAIN w.blocks : w.blocks[k].call # c
  BY <1>1 DEF Keeps, CallsKept
<1> QED
  BY <1>2 DEF Keeps, Shape

\* start_text_block, and the opening in ensure_tool_block.
LEMMA OpenKeeps ==
    ASSUME NEW m \in MessageSet, Shape(m), ~m.open, m.content, NEW block \in BlockSet,
           block.kind \in {"text", "tool_use"}, block.pieces = <<>>,
           block.call # NoCall <=> block.kind = "tool_use",
           block.call # NoCall =>
              block.call \notin m.closed /\ \A k \in DOMAIN m.blocks : m.blocks[k].call # block.call
    PROVE  /\ Keeps(m, Open(m, block), block.call)
           /\ IsOpen(Open(m, block), block.kind, block.call)
           /\ LastBlock(Open(m, block)).pieces = <<>>
           /\ Open(m, block).buffer = m.buffer
<1> DEFINE b == [block EXCEPT !.open = TRUE]
           blocks == Append(m.blocks, b)
           w == [m EXCEPT !.open = TRUE, !.blocks = blocks]
<1>1. Open(m, block) = w
  BY DEF Open
<1>2. /\ b \in BlockSet /\ b.kind = block.kind /\ b.call = block.call
      /\ b.pieces = <<>> /\ b.open = TRUE
  BY DEF BlockSet
<1> HIDE DEF b
<1>3. m.blocks \in Seq(BlockSet)
  BY BlocksAre
<1>4. blocks \in Seq(BlockSet) /\ blocks = Append(m.blocks, b)
  BY <1>2, <1>3
<1> HIDE DEF blocks
<1>5. w \in MessageSet /\ w.blocks = blocks /\ w.open = TRUE
  BY <1>4 DEF MessageSet
<1>6. Rest(w) = Rest(m) /\ w.content = m.content /\ w.buffer = m.buffer
  BY DEF MessageSet, Rest
<1> HIDE DEF w
<1>7. MayFollow(m, b)
  BY <1>2 DEF MayFollow
<1>8. /\ w.closed = m.closed /\ w.emitted = m.emitted /\ w.ends = m.ends
      /\ w.over = m.over /\ w.tools = m.tools
  BY <1>6 DEF Rest
<1>9. b.call # NoCall => b.call \notin m.closed
  BY <1>2
<1>10. /\ Shape(w) /\ CallsKept(m, w, b.call)
       /\ LastBlock(w) = b
       /\ \A kinds : PiecesOf(w, kinds) = PiecesOf(m, kinds) \o PieceOf(b, kinds)
  <2>1. w.open = b.open /\ (b.kind \in {"text", "tool_use"} => w.content)
    BY <1>2, <1>5, <1>6
  <2> QED
    BY <1>2, <1>4, <1>5, <1>6, <1>7, <1>8, <1>9, <2>1, BlockFollows
<1>11. ASSUME NEW kinds
       PROVE  PiecesOf(w, kinds) = PiecesOf(m, kinds)
  <2>1. PieceOf(b, kinds) = <<>>
    BY <1>2 DEF PieceOf
  <2>2. PiecesOf(m, kinds) \in Seq(Nat)
    BY PiecesAreSeq
  <2>3. PiecesOf(w, kinds) = PiecesOf(m, kinds) \o <<>>
    BY <1>10, <2>1
  <2> QED
    BY <2>2, <2>3, NumbersAndNone
<1>12. Texts(w) = Texts(m) /\ Thoughts(w) = Thoughts(m)
  BY <1>6, <1>11 DEF Texts, Thoughts
<1>13. Keeps(m, w, block.call)
  BY <1>2, <1>5, <1>6, <1>8, <1>10, <1>12 DEF Keeps
<1>14. IsOpen(w, block.kind, block.call)
  BY <1>2, <1>5, <1>10 DEF IsOpen
<1> QED
  BY <1>1, <1>2, <1>6, <1>10, <1>13, <1>14

\* Content is marked.
LEMMA ContentKeeps ==
    ASSUME NEW m \in MessageSet, Shape(m)
    PROVE  LET w == [m EXCEPT !.content = TRUE]
           IN  Keeps(m, w, NoCall) /\ w.content = TRUE /\ w.open = m.open /\ w.buffer = m.buffer
<1> DEFINE w == [m EXCEPT !.content = TRUE]
<1>1. w \in MessageSet /\ w.content = TRUE
  BY DEF MessageSet
<1>2. w.blocks = m.blocks /\ w.open = m.open /\ w.buffer = m.buffer /\ Rest(w) = Rest(m)
  BY DEF MessageSet, Rest
<1> HIDE DEF w
<1>3. /\ w.closed = m.closed /\ w.emitted = m.emitted /\ w.ends = m.ends
      /\ w.over = m.over /\ w.tools = m.tools
  BY <1>2 DEF Rest
<1>4. /\ Shape(w) /\ CallsKept(m, w, NoCall)
      /\ Texts(w) = Texts(m) /\ Thoughts(w) = Thoughts(m)
  BY <1>1, <1>2, <1>3, MarksFit
<1>5. Keeps(m, w, NoCall)
  BY <1>1, <1>3, <1>4 DEF Keeps
<1> QED
  BY <1>1, <1>2, <1>5 DEF w

\* handle_item_added of a message.
LEMMA StartTextKeeps ==
    ASSUME NEW m \in MessageSet, Shape(m)
    PROVE  /\ Keeps(m, StartText(m), NoCall) /\ StartText(m).content = TRUE
           /\ IsOpen(StartText(m), "text", NoCall)
<1> DEFINE f == FlushThinking(m)
           c == Close(f)
           d == [c EXCEPT !.content = TRUE]
           b == Block("text", NoCall, TRUE, <<>>)
           w == Open(d, b)
<1>1. StartText(m) = w
  BY DEF StartText
<1>2. Keeps(m, f, NoCall)
  BY FlushKeeps
<1>3. f \in MessageSet /\ Shape(f)
  BY <1>2 DEF Keeps
<1> HIDE DEF f
<1>4. Keeps(f, c, NoCall) /\ ~c.open
  BY <1>3, CloseKeeps
<1>5. c \in MessageSet /\ Shape(c)
  BY <1>4 DEF Keeps
<1> HIDE DEF c
<1>6. Keeps(c, d, NoCall) /\ d.content = TRUE /\ d.open = c.open
  BY <1>5, ContentKeeps
<1>7. d \in MessageSet /\ Shape(d)
  BY <1>6 DEF Keeps
<1> HIDE DEF d
<1>8. b \in BlockSet /\ b.kind = "text" /\ b.call = NoCall /\ b.pieces = <<>>
  BY DEF Block, BlockSet, Kinds
<1> HIDE DEF b
<1>9. Keeps(d, w, NoCall) /\ IsOpen(w, "text", NoCall)
  BY <1>4, <1>6, <1>7, <1>8, OpenKeeps
<1>10. Keeps(m, w, NoCall)
  BY <1>2, <1>4, <1>6, <1>9, KeepsOn
<1>11. w.content = TRUE
  BY <1>6, <1>9 DEF Keeps, MessageSet
<1> QED
  BY <1>1, <1>9, <1>10, <1>11

\* ensure_tool_block, of a call whose block is open or not there yet.
LEMMA ToolBlockKeeps ==
    ASSUME NEW m \in MessageSet, Shape(m), NEW e, e.call \in TurnCalls, e.named \in BOOLEAN,
           e.call \notin m.closed
    PROVE  /\ Keeps(m, ToolBlock(m, e), e.call)
           /\ IsOpen(ToolBlock(m, e), "tool_use", e.call)
           /\ LastBlock(ToolBlock(m, e)).pieces =
                 IF IsOpen(m, "tool_use", e.call) THEN LastBlock(m).pieces ELSE <<>>
<1>1. CASE IsOpen(m, "tool_use", e.call)
  <2>1. ToolBlock(m, e) = m
    BY <1>1 DEF ToolBlock
  <2> QED
    BY <1>1, <2>1, KeepsItself
<1>2. CASE ~IsOpen(m, "tool_use", e.call)
  <2> DEFINE f == FlushThinking(m)
             d == [f EXCEPT !.content = TRUE]
             c == Close(d)
             b == Block("tool_use", e.call, e.named, <<>>)
             w == Open(c, b)
  <2>1. ToolBlock(m, e) = w
    BY <1>2 DEF ToolBlock
  <2>2. Keeps(m, f, NoCall)
    BY FlushKeeps
  <2>3. f \in MessageSet /\ Shape(f)
    BY <2>2 DEF Keeps
  <2> HIDE DEF f
  <2>4. Keeps(f, d, NoCall) /\ d.content = TRUE
    BY <2>3, ContentKeeps
  <2>5. d \in MessageSet /\ Shape(d)
    BY <2>4 DEF Keeps
  <2> HIDE DEF d
  <2>6. Keeps(d, c, NoCall) /\ ~c.open
    BY <2>5, CloseKeeps
  <2>7. c \in MessageSet /\ Shape(c) /\ c.content
    BY <2>4, <2>6 DEF Keeps
  <2> HIDE DEF c
  <2>8. Keeps(m, c, NoCall)
    BY <2>2, <2>4, <2>6, KeepsOn
  <2>9. (\A k \in DOMAIN c.blocks : c.blocks[k].call # e.call) /\ e.call \notin c.closed
    BY <1>2, <2>8, NoBlockYet, NoBlockStill
  <2>10. e.call # NoCall
    BY EgressAssumption DEF NoCall
  <2>11. /\ b \in BlockSet /\ b.kind = "tool_use" /\ b.call = e.call /\ b.pieces = <<>>
    BY DEF Block, BlockSet, Kinds
  <2> HIDE DEF b
  <2>12. /\ Keeps(c, w, e.call) /\ IsOpen(w, "tool_use", e.call)
         /\ LastBlock(w).pieces = <<>>
    BY <2>6, <2>7, <2>9, <2>10, <2>11, OpenKeeps
  <2>13. Keeps(m, w, e.call)
    BY <2>8, <2>12, KeepsOn
  <2> QED
    BY <1>2, <2>1, <2>12, <2>13
<1> QED
  BY <1>1, <1>2

\* The pieces of a delta are added to the block that is open.
LEMMA AddTells ==
    ASSUME NEW m \in MessageSet, Shape(m), m.open, NEW more \in Seq(Nat)
    PROVE  LET w == Add(m, more)
           IN  /\ w \in MessageSet /\ Shape(w)
               /\ CallsKept(m, w, LastBlock(m).call)
               /\ Rest(w) = Rest(m) /\ w.content = m.content /\ w.buffer = m.buffer
               /\ w.open = m.open
               /\ LastBlock(w).kind = LastBlock(m).kind /\ LastBlock(w).call = LastBlock(m).call
               /\ LastBlock(w).pieces = LastBlock(m).pieces \o more
               /\ Thoughts(w) = Thoughts(m)
               /\ Texts(w) = IF LastBlock(m).kind = "text" THEN Texts(m) \o more ELSE Texts(m)
<1> DEFINE N == Len(m.blocks)
           last == m.blocks[N]
           pieces == last.pieces \o more
           longer == [last EXCEPT !.pieces = pieces]
           blocks == [m.blocks EXCEPT ![N] = longer]
           w == [m EXCEPT !.blocks = blocks]
<1>0. /\ m.blocks \in Seq(BlockSet) /\ N \in Nat /\ DOMAIN m.blocks = 1..N
      /\ \A k \in DOMAIN m.blocks : m.blocks[k] \in BlockSet
  BY BlocksAre
<1>1. Add(m, more) = w
  BY DEF Add
<1>2. N \in 1..N /\ last \in BlockSet /\ LastBlock(m) = last
  BY <1>0 DEF Shape, LastBlock
<1>3. pieces \in Seq(Nat)
  <2>1. last.pieces \in Seq(Nat)
    BY <1>2 DEF BlockSet
  <2> QED
    BY <2>1
<1> HIDE DEF pieces
<1>4. /\ longer \in BlockSet /\ longer.kind = last.kind /\ longer.call = last.call
      /\ longer.pieces = pieces /\ longer.open = last.open /\ longer.signed = last.signed
  BY <1>2, <1>3 DEF BlockSet
<1> HIDE DEF longer
<1>5. /\ blocks \in Seq(BlockSet) /\ Len(blocks) = N /\ DOMAIN blocks = 1..N
      /\ \A k \in 1..N : blocks[k] = IF k = N THEN longer ELSE m.blocks[k]
  BY <1>0, <1>2, <1>4
<1> HIDE DEF blocks
<1>6. w \in MessageSet /\ w.blocks = blocks
  BY <1>5 DEF MessageSet
<1>7. /\ Rest(w) = Rest(m) /\ w.content = m.content /\ w.buffer = m.buffer /\ w.open = m.open
  BY DEF MessageSet, Rest
<1> HIDE DEF w
<1>8. \A k \in 1..N :
         /\ w.blocks[k].kind = m.blocks[k].kind /\ w.blocks[k].call = m.blocks[k].call
         /\ w.blocks[k].open = m.blocks[k].open /\ w.blocks[k].signed = m.blocks[k].signed
         /\ w.blocks[k].pieces = IF k = N THEN last.pieces \o more ELSE m.blocks[k].pieces
  BY <1>4, <1>5, <1>6 DEF pieces
<1>9. LastBlock(w) = longer
  BY <1>2, <1>5, <1>6 DEF LastBlock
<1>10. w.closed = m.closed
  BY <1>7 DEF Rest
<1>11. Len(w.blocks) = N /\ DOMAIN w.blocks = 1..N
  BY <1>5, <1>6
<1>12. Shape(w)
  <2>1. ASSUME NEW k \in 1..N
        PROVE  BlockFits(w, k)
    <3>1. BlockFits(m, k)
      BY <1>0 DEF Shape
    <3>2. /\ w.blocks[k].open <=> w.open /\ k = Len(w.blocks)
          /\ w.blocks[k].open => w.blocks[k].kind \in {"text", "tool_use"}
          /\ w.blocks[k].kind = "thinking" => w.blocks[k].signed
          /\ w.blocks[k].kind \in {"text", "tool_use"} => w.content
          /\ w.blocks[k].call # NoCall <=> w.blocks[k].kind = "tool_use"
          /\ w.blocks[k].call # NoCall => (w.blocks[k].call \in w.closed <=> ~w.blocks[k].open)
      <4> HIDE DEF N, last
      <4> QED
        BY <1>7, <1>8, <1>10, <1>11, <3>1 DEF BlockFits, N
    <3>3. \A j \in 1..N : w.blocks[k].call # NoCall /\ w.blocks[j].call = w.blocks[k].call => j = k
      <4> HIDE DEF last
      <4> QED
        BY <1>0, <1>8, <3>1 DEF BlockFits
    <3> QED
      BY <1>11, <3>2, <3>3 DEF BlockFits
  <2>2. ASSUME NEW c \in w.closed
        PROVE  \E k \in 1..N : w.blocks[k].call = c
    <3>1. PICK k \in 1..N : m.blocks[k].call = c
      BY <1>0, <1>10 DEF Shape
    <3> QED
      BY <1>8, <3>1
  <2>3. w.blocks # <<>>
    <3>1. Len(<<>>) = 0
      OBVIOUS
    <3>2. Len(w.blocks) # 0
      BY <1>2, <1>11
    <3> QED
      BY <3>1, <3>2, Zenon
  <2> QED
    BY <1>11, <2>1, <2>2, <2>3 DEF Shape
<1>13. CallsKept(m, w, LastBlock(m).call)
  <2>1. ASSUME NEW k \in 1..N, m.blocks[k].call # last.call
        PROVE  w.blocks[k].pieces = m.blocks[k].pieces
    <3>1. k # N
      BY <2>1
    <3> QED
      BY <1>8, <3>1
  <2> HIDE DEF N, last
  <2> QED
    BY <1>0, <1>2, <1>8, <1>11, <2>1 DEF CallsKept
<1>14. \A kinds : PiecesOf(w, kinds) =
          IF LastBlock(m).kind \in kinds THEN PiecesOf(m, kinds) \o more ELSE PiecesOf(m, kinds)
  <2> TAKE kinds
  <2>1. m.blocks # <<>>
    BY DEF Shape
  <2>2. /\ Len(w.blocks) = Len(m.blocks)
        /\ \A k \in DOMAIN m.blocks :
              /\ w.blocks[k].kind = m.blocks[k].kind
              /\ w.blocks[k].pieces =
                    IF k = Len(m.blocks) THEN m.blocks[k].pieces \o more ELSE m.blocks[k].pieces
    BY <1>0, <1>8, <1>11
  <2> QED
    BY <1>6, <2>1, <2>2, LongerPieces
<1>15. LastBlock(m).kind \in {"text", "tool_use"}
  <2>1. BlockFits(m, N)
    BY <1>0, <1>2 DEF Shape
  <2> QED
    BY <1>2, <2>1 DEF BlockFits
<1>16. Thoughts(w) = Thoughts(m)
  <2>1. PiecesOf(w, {"thinking", "promoted"}) = PiecesOf(m, {"thinking", "promoted"})
    BY <1>14, <1>15
  <2> QED
    BY <1>7, <2>1 DEF Thoughts
<1>17. Texts(w) = IF LastBlock(m).kind = "text" THEN Texts(m) \o more ELSE Texts(m)
  BY <1>14 DEF Texts
<1>18. LastBlock(w).pieces = last.pieces \o more
  BY <1>4, <1>9 DEF pieces
<1> QED
  BY <1>1, <1>2, <1>4, <1>6, <1>7, <1>9, <1>12, <1>13, <1>16, <1>17, <1>18

-----------------------------------------------------------------------------
(* What the events make of a message. *)

\* A message that tells and marks the same.
Same(m, w) ==
    /\ w \in MessageSet
    /\ w.blocks = m.blocks /\ w.open = m.open /\ w.content = m.content /\ w.buffer = m.buffer
    /\ Rest(w) = Rest(m)

\* Such a message has the shape.
LEMMA SameKeeps ==
    ASSUME NEW m \in MessageSet, Shape(m), NEW w, Same(m, w), NEW but
    PROVE  Keeps(m, w, but)
<1>1. /\ w \in MessageSet /\ w.blocks = m.blocks /\ w.open = m.open
      /\ w.content = m.content /\ w.buffer = m.buffer
      /\ w.closed = m.closed /\ w.emitted = m.emitted /\ w.ends = m.ends
      /\ w.over = m.over /\ w.tools = m.tools
  BY DEF Same, Rest
<1>2. /\ Shape(w) /\ CallsKept(m, w, but)
      /\ Texts(w) = Texts(m) /\ Thoughts(w) = Thoughts(m)
  BY <1>1, MarksFit
<1> QED
  BY <1>1, <1>2 DEF Keeps

\* The first event starts the message.
Started(m) == [m EXCEPT !.started = TRUE]

\* A message that is started is as it was.
LEMMA StartedIs ==
    ASSUME NEW m \in MessageSet
    PROVE  Same(m, Started(m))
BY DEF Started, Same, MessageSet, Rest

\* handle_reasoning_delta: reasoning before any content is buffered.
LEMMA ReasoningTells ==
    ASSUME NEW m \in MessageSet, Shape(m), NEW e, e.t = "reasoning", e.n \in Nat
    PROVE  LET w == Convert(m, e)
           IN  /\ w \in MessageSet /\ Shape(w) /\ Rest(w) = Rest(m) /\ w.content = m.content
               /\ w.blocks = m.blocks /\ w.open = m.open
               /\ CallsKept(m, w, NoCall)
               /\ Texts(w) = Texts(m)
               /\ Thoughts(w) = IF m.content THEN Thoughts(m) ELSE Thoughts(m) \o <<e.n>>
<1> DEFINE s == Started(m)
           w == ReasoningDelta(s, e)
           one == <<e.n>>
<1>1. Convert(m, e) = w
  BY DEF Convert, Started
<1>2. Same(m, s) /\ s \in MessageSet
  BY StartedIs DEF Same
<1>3. Shape(s) /\ Texts(s) = Texts(m) /\ Thoughts(s) = Thoughts(m)
  BY <1>2, SameKeeps DEF Keeps
<1> HIDE DEF s
<1>4. CASE m.content
  <2>1. w = s
    BY <1>2, <1>4 DEF ReasoningDelta, Same
  <2>2. CallsKept(m, s, NoCall)
    BY <1>2, SameKeeps DEF Keeps
  <2> QED
    BY <1>1, <1>2, <1>3, <1>4, <2>1, <2>2 DEF Same
<1>5. CASE ~m.content
  <2> DEFINE buffer == s.buffer \o one
  <2>1. s.buffer \in Seq(Nat) /\ one \in Seq(Nat)
    BY <1>2, BlocksAre
  <2>2. buffer \in Seq(Nat) /\ Append(s.buffer, e.n) = buffer
    BY <2>1
  <2> HIDE DEF one
  <2>3. w = [s EXCEPT !.buffer = buffer]
    BY <1>2, <1>5, <2>2 DEF ReasoningDelta, Same
  <2> HIDE DEF w, buffer
  <2>4. w \in MessageSet /\ w.buffer = buffer
    BY <1>2, <2>2, <2>3 DEF MessageSet
  <2>5. /\ w.blocks = s.blocks /\ w.open = s.open /\ w.content = s.content /\ Rest(w) = Rest(s)
    BY <1>2, <2>3 DEF MessageSet, Rest
  <2>6. w.closed = s.closed
    BY <2>5 DEF Rest
  <2>7. Shape(w) /\ CallsKept(s, w, NoCall)
    <3>1. ASSUME NEW k \in DOMAIN s.blocks
          PROVE  BlockFits(w, k)
      <4>1. BlockFits(s, k)
        BY <1>3 DEF Shape
      <4> QED
        BY <2>5, <2>6, <4>1 DEF BlockFits
    <3>2. Shape(w)
      BY <1>3, <2>5, <2>6, <3>1 DEF Shape
    <3>3. CallsKept(s, w, NoCall)
      BY <2>5 DEF CallsKept
    <3> QED
      BY <3>2, <3>3
  <2>8. Texts(w) = Texts(s)
    BY <2>5 DEF Texts, PiecesOf
  <2>9. Thoughts(w) = Thoughts(s) \o one
    <3> DEFINE before == PiecesOf(s, {"thinking", "promoted"})
    <3>1. before \in Seq(Nat)
      BY <1>2, PiecesAreSeq
    <3>2. PiecesOf(w, {"thinking", "promoted"}) = before
      BY <2>5 DEF PiecesOf
    <3>3. Thoughts(w) = before \o buffer /\ Thoughts(s) = before \o s.buffer
      BY <2>4, <3>2 DEF Thoughts
    <3> HIDE DEF before
    <3>4. (before \o s.buffer) \o one = before \o (s.buffer \o one)
      BY <2>1, <3>1, NumbersAssociate
    <3> QED
      BY <3>3, <3>4 DEF buffer
  <2>10. CallsKept(m, w, NoCall)
    BY <1>2, <2>7 DEF CallsKept, Same
  <2> QED
    BY <1>1, <1>2, <1>3, <1>5, <2>4, <2>5, <2>7, <2>8, <2>9, <2>10 DEF one, Same
<1> QED
  BY <1>4, <1>5

\* handle_reasoning_signature_delta.
LEMMA SignatureTells ==
    ASSUME NEW m \in MessageSet, NEW e, e.t = "signature"
    PROVE  Same(m, Convert(m, e))
<1> DEFINE s == Started(m)
<1>1. Convert(m, e) = SignatureDelta(s)
  BY DEF Convert, Started
<1>2. Same(m, s) /\ s \in MessageSet
  BY StartedIs DEF Same
<1> HIDE DEF s
<1>3. Same(s, SignatureDelta(s))
  BY <1>2 DEF SignatureDelta, Same, MessageSet, Rest
<1> QED
  BY <1>1, <1>2, <1>3 DEF Same

\* handle_text_delta: text is added to the open text block, or to a new one.
LEMMA TextTells ==
    ASSUME NEW m \in MessageSet, Shape(m), NEW e, e.t = "text", e.n \in Nat
    PROVE  LET w == Convert(m, e)
           IN  /\ w \in MessageSet /\ Shape(w) /\ CallsKept(m, w, NoCall)
               /\ w.emitted = m.emitted /\ w.ends = m.ends /\ w.over = m.over
               /\ w.tools = m.tools /\ w.content = TRUE
               /\ Texts(w) = Texts(m) \o <<e.n>> /\ Thoughts(w) = Thoughts(m)
<1> DEFINE s == Started(m)
           t == IF IsOpen(s, "text", NoCall) THEN s ELSE StartText(s)
           one == <<e.n>>
           w == Add(t, one)
<1>1. Convert(m, e) = w
  BY DEF Convert, Started, TextDelta
<1>2. s \in MessageSet /\ Shape(s) /\ Keeps(m, s, NoCall)
  BY StartedIs, SameKeeps DEF Keeps
<1> HIDE DEF s
<1>3. Keeps(s, t, NoCall) /\ IsOpen(t, "text", NoCall)
  BY <1>2, KeepsItself, StartTextKeeps
<1>4. t \in MessageSet /\ Shape(t) /\ Keeps(m, t, NoCall)
  BY <1>2, <1>3, KeepsOn DEF Keeps
<1> HIDE DEF t
<1>5. t.open /\ LastBlock(t).kind = "text" /\ LastBlock(t).call = NoCall
  BY <1>3 DEF IsOpen
<1>6. one \in Seq(Nat)
  OBVIOUS
<1> HIDE DEF one
<1>7. /\ w \in MessageSet /\ Shape(w) /\ CallsKept(t, w, NoCall)
      /\ Rest(w) = Rest(t) /\ w.content = t.content
      /\ Thoughts(w) = Thoughts(t) /\ Texts(w) = Texts(t) \o one
  BY <1>4, <1>5, <1>6, AddTells
<1>8. t.content = TRUE
  <2>1. t.blocks # <<>> /\ t.blocks \in Seq(BlockSet) /\ t.content \in BOOLEAN
    BY <1>4, <1>5, BlocksAre DEF Shape
  <2>2. Len(t.blocks) \in DOMAIN t.blocks
    BY <2>1
  <2>3. BlockFits(t, Len(t.blocks))
    BY <1>4, <2>2 DEF Shape
  <2> QED
    BY <1>5, <2>1, <2>3 DEF BlockFits, LastBlock
<1>9. CallsKept(m, w, NoCall)
  BY <1>4, <1>7 DEF CallsKept, Keeps
<1> QED
  BY <1>1, <1>4, <1>7, <1>8, <1>9 DEF Keeps, Rest, one

\* The open block is content.
LEMMA OpenIsContent ==
    ASSUME NEW m \in MessageSet, Shape(m), m.open
    PROVE  m.content = TRUE
<1>1. m.blocks # <<>> /\ m.blocks \in Seq(BlockSet) /\ m.content \in BOOLEAN
  BY BlocksAre DEF Shape
<1>2. Len(m.blocks) \in DOMAIN m.blocks
  BY <1>1
<1>3. BlockFits(m, Len(m.blocks))
  BY <1>2 DEF Shape
<1> QED
  BY <1>1, <1>3 DEF BlockFits

\* A fragment the converter does not show: its call is closed, or its name is a
\* hidden tool's.
Swallowed(m, e) == e.call \in m.emitted \cup m.closed \/ HiddenByName(e)

\* handle_function_call_arguments_delta.
LEMMA ArgumentsTell ==
    ASSUME NEW m \in MessageSet, Shape(m), NEW e, e.t = "arguments",
           e.call \in TurnCalls, e.n \in Nat, e.named \in BOOLEAN
    PROVE  LET w == Convert(m, e)
           IN  /\ Swallowed(m, e) => Same(m, w)
               /\ ~Swallowed(m, e) =>
                     /\ w \in MessageSet /\ Shape(w) /\ CallsKept(m, w, e.call)
                     /\ w.emitted = m.emitted /\ w.ends = m.ends /\ w.over = m.over
                     /\ w.content = TRUE /\ w.tools = TRUE
                     /\ Texts(w) = Texts(m) /\ Thoughts(w) = Thoughts(m)
                     /\ IsOpen(w, "tool_use", e.call)
                     /\ LastBlock(w).pieces =
                           (IF IsOpen(m, "tool_use", e.call) THEN LastBlock(m).pieces ELSE <<>>)
                              \o <<e.n>>
<1> DEFINE s == Started(m)
           u == [s EXCEPT !.tools = TRUE]
           t == ToolBlock(u, e)
           one == <<e.n>>
           w == Add(t, one)
<1>1. Convert(m, e) = IF Swallowed(s, e) THEN s ELSE w
  BY DEF Convert, Started, ArgumentsDelta, Swallowed
<1>2. Same(m, s) /\ s \in MessageSet /\ Shape(s) /\ Keeps(m, s, NoCall)
  BY StartedIs, SameKeeps DEF Keeps
<1>3. Swallowed(s, e) <=> Swallowed(m, e)
  BY <1>2 DEF Swallowed, Same, Rest
<1> HIDE DEF s
<1>4. CASE Swallowed(m, e)
  BY <1>1, <1>2, <1>3, <1>4
<1>5. CASE ~Swallowed(m, e)
  <2>1. /\ u \in MessageSet /\ u.blocks = s.blocks /\ u.open = s.open /\ u.closed = s.closed
        /\ u.buffer = s.buffer /\ u.content = s.content /\ u.tools = TRUE
        /\ u.emitted = s.emitted /\ u.ends = s.ends /\ u.over = s.over
    BY <1>2 DEF MessageSet
  <2> HIDE DEF u
  <2>2. /\ Shape(u) /\ CallsKept(s, u, e.call)
        /\ Texts(u) = Texts(s) /\ Thoughts(u) = Thoughts(s)
    BY <1>2, <2>1, MarksFit
  <2>3. e.call \notin u.closed
    BY <1>2, <1>5, <2>1 DEF Swallowed, Same, Rest
  <2>4. /\ IsOpen(u, "tool_use", e.call) <=> IsOpen(m, "tool_use", e.call)
        /\ LastBlock(u) = LastBlock(m)
    BY <1>2, <2>1 DEF IsOpen, LastBlock, Same
  <2>5. /\ Keeps(u, t, e.call) /\ IsOpen(t, "tool_use", e.call)
        /\ LastBlock(t).pieces =
              IF IsOpen(u, "tool_use", e.call) THEN LastBlock(u).pieces ELSE <<>>
    BY <2>1, <2>2, <2>3, ToolBlockKeeps
  <2>6. t \in MessageSet /\ Shape(t)
    BY <2>5 DEF Keeps
  <2> HIDE DEF t
  <2>7. t.open /\ LastBlock(t).kind = "tool_use" /\ LastBlock(t).call = e.call
    BY <2>5 DEF IsOpen
  <2>8. one \in Seq(Nat)
    OBVIOUS
  <2> HIDE DEF one
  <2>9. /\ w \in MessageSet /\ Shape(w) /\ CallsKept(t, w, e.call)
        /\ Rest(w) = Rest(t) /\ w.content = t.content /\ w.open = t.open
        /\ LastBlock(w).kind = LastBlock(t).kind /\ LastBlock(w).call = LastBlock(t).call
        /\ LastBlock(w).pieces = LastBlock(t).pieces \o one
        /\ Thoughts(w) = Thoughts(t) /\ Texts(w) = Texts(t)
    BY <2>6, <2>7, <2>8, AddTells
  <2> HIDE DEF w
  <2>10. w.content = TRUE
    BY <2>6, <2>7, <2>9, OpenIsContent
  <2>11. IsOpen(w, "tool_use", e.call)
    BY <2>7, <2>9 DEF IsOpen
  <2>12. CallsKept(m, w, e.call)
    <3>1. CallsKept(m, u, e.call)
      BY <1>2, <2>2 DEF CallsKept, Same
    <3>2. CallsKept(m, t, e.call)
      BY <2>5, <3>1 DEF CallsKept, Keeps
    <3> QED
      BY <2>9, <3>2 DEF CallsKept
  <2>13. /\ w.emitted = m.emitted /\ w.ends = m.ends /\ w.over = m.over /\ w.tools = TRUE
    BY <1>2, <2>1, <2>5, <2>9 DEF Keeps, Rest, Same
  <2>14. Texts(w) = Texts(m) /\ Thoughts(w) = Thoughts(m)
    BY <1>2, <2>2, <2>5, <2>9 DEF Keeps
  <2>15. LastBlock(w).pieces =
            (IF IsOpen(m, "tool_use", e.call) THEN LastBlock(m).pieces ELSE <<>>) \o one
    BY <2>4, <2>5, <2>9
  <2>16. Convert(m, e) = w
    BY <1>1, <1>3, <1>5
  <2> QED
    BY <1>5, <2>9, <2>10, <2>11, <2>12, <2>13, <2>14, <2>15, <2>16 DEF one
<1> QED
  BY <1>4, <1>5

\* handle_item_added of a message.
LEMMA MessageAddedTells ==
    ASSUME NEW m \in MessageSet, Shape(m), NEW e, e.t = "message added"
    PROVE  Keeps(m, Convert(m, e), NoCall)
<1> DEFINE s == Started(m)
<1>1. Convert(m, e) = StartText(s)
  BY DEF Convert, Started
<1>2. s \in MessageSet /\ Shape(s) /\ Keeps(m, s, NoCall)
  BY StartedIs, SameKeeps DEF Keeps
<1> HIDE DEF s
<1> QED
  BY <1>1, <1>2, StartTextKeeps, KeepsOn

\* handle_item_done of a message closes its block.
LEMMA MessageDoneTells ==
    ASSUME NEW m \in MessageSet, Shape(m), NEW e, e.t = "message done"
    PROVE  Keeps(m, Convert(m, e), NoCall) /\ Convert(m, e).content = m.content
<1>1. Convert(m, e) = IF IsOpen(m, "text", NoCall) THEN Close(m) ELSE m
  BY DEF Convert
<1>2. Keeps(m, Close(m), NoCall) /\ Close(m).content = m.content
  BY CloseKeeps, CloseIs
<1> QED
  BY <1>1, <1>2, KeepsItself

\* A block of a search has nothing of the turn's.
LEMMA SilentBlock ==
    ASSUME NEW m \in MessageSet, Shape(m), ~m.open, NEW b \in BlockSet,
           b.kind \notin {"text", "tool_use", "thinking"}, b.call = NoCall, ~b.open,
           b.pieces = <<>>,
           NEW w \in MessageSet, w.blocks = Append(m.blocks, b), w.open = m.open,
           w.buffer = m.buffer, Rest(w) = Rest(m), w.content = m.content
    PROVE  Keeps(m, w, NoCall)
<1>1. MayFollow(m, b) /\ w.open = b.open
  <2>1. w.open \in BOOLEAN /\ b.open \in BOOLEAN
    BY DEF MessageSet, BlockSet
  <2> QED
    BY <2>1 DEF MayFollow
<1>2. /\ w.closed = m.closed /\ w.emitted = m.emitted /\ w.ends = m.ends
      /\ w.over = m.over /\ w.tools = m.tools
  BY DEF Rest
<1>3. /\ Shape(w) /\ CallsKept(m, w, b.call)
      /\ \A kinds : PiecesOf(w, kinds) = PiecesOf(m, kinds) \o PieceOf(b, kinds)
  BY <1>1, <1>2, BlockFollows
<1>4. ASSUME NEW kinds
      PROVE  PiecesOf(w, kinds) = PiecesOf(m, kinds)
  <2>1. PieceOf(b, kinds) = <<>>
    BY DEF PieceOf
  <2>2. PiecesOf(m, kinds) \in Seq(Nat)
    BY PiecesAreSeq
  <2>3. PiecesOf(w, kinds) = PiecesOf(m, kinds) \o <<>>
    BY <1>3, <2>1
  <2> QED
    BY <2>2, <2>3, NumbersAndNone
<1>5. Texts(w) = Texts(m) /\ Thoughts(w) = Thoughts(m)
  BY <1>4 DEF Texts, Thoughts
<1> QED
  BY <1>2, <1>3, <1>5 DEF Keeps

\* A block with nothing in it.
LEMMA EmptyBlock ==
    ASSUME NEW kind \in Kinds, NEW call \in TurnCalls \cup {NoCall}, NEW named \in BOOLEAN
    PROVE  LET b == Block(kind, call, named, <<>>)
           IN  /\ b \in BlockSet /\ b.kind = kind /\ b.call = call /\ b.pieces = <<>>
               /\ b.open = FALSE
BY DEF Block, BlockSet

\* Two blocks, one after the other.
LEMMA TwoAreAppended ==
    ASSUME NEW S, NEW s \in Seq(S), NEW a \in S, NEW b \in S
    PROVE  /\ Append(s, a) \in Seq(S) /\ Append(Append(s, a), b) \in Seq(S)
           /\ s \o <<a, b>> = Append(Append(s, a), b)
OBVIOUS

\* handle_web_search_results: two blocks that are no content.
LEMMA SearchResultsTell ==
    ASSUME NEW m \in MessageSet, Shape(m), NEW e, e.t = "search results"
    PROVE  Keeps(m, Convert(m, e), NoCall) /\ Convert(m, e).content = m.content
<1> DEFINE s == Started(m)
           f == FlushThinking(s)
           c == Close(f)
           a == Block("server_tool_use", NoCall, TRUE, <<>>)
           b == Block("web_search_tool_result", NoCall, TRUE, <<>>)
           mid == Append(c.blocks, a)
           v == [c EXCEPT !.blocks = mid]
           blocks == Append(mid, b)
           w == [c EXCEPT !.blocks = blocks]
<1>2. Same(m, s) /\ s \in MessageSet /\ Shape(s) /\ Keeps(m, s, NoCall)
  BY StartedIs, SameKeeps DEF Keeps
<1>3. Keeps(s, f, NoCall) /\ f.content = s.content
  BY <1>2, FlushKeeps
<1>4. f \in MessageSet /\ Shape(f)
  BY <1>3 DEF Keeps
<1>5. Keeps(f, c, NoCall) /\ ~c.open /\ c.content = f.content
  BY <1>4, CloseKeeps, CloseIs
<1>6. c \in MessageSet /\ Shape(c) /\ c.blocks \in Seq(BlockSet)
  BY <1>5, BlocksAre DEF Keeps
<1>16. WebSearchResults(s) = [c EXCEPT !.blocks = c.blocks \o <<a, b>>]
  BY DEF WebSearchResults
<1> HIDE DEF s, f, c, v, w
<1>7. /\ a \in BlockSet /\ a.kind = "server_tool_use" /\ a.call = NoCall /\ a.pieces = <<>>
      /\ a.open = FALSE
  BY EmptyBlock DEF Kinds
<1>8. /\ b \in BlockSet /\ b.kind = "web_search_tool_result" /\ b.call = NoCall
      /\ b.pieces = <<>> /\ b.open = FALSE
  BY EmptyBlock DEF Kinds
<1> HIDE DEF a, b
<1>17. mid \in Seq(BlockSet) /\ blocks \in Seq(BlockSet) /\ c.blocks \o <<a, b>> = blocks
  BY ONLY <1>6, <1>7, <1>8, TwoAreAppended
<1>1. Convert(m, e) = w
  <2>1. Convert(m, e) = WebSearchResults(s)
    BY DEF Convert, Started, s
  <2> HIDE DEF blocks
  <2> QED
    BY <1>16, <1>17, <2>1 DEF w
<1>9. mid = Append(c.blocks, a) /\ blocks = Append(mid, b)
  OBVIOUS
<1> HIDE DEF mid, blocks
<1>10. v \in MessageSet /\ v.blocks = mid /\ w \in MessageSet /\ w.blocks = blocks
  BY <1>6, <1>17 DEF MessageSet, v, w
<1>11. /\ v.open = c.open /\ v.content = c.content /\ v.buffer = c.buffer /\ Rest(v) = Rest(c)
       /\ w.open = v.open /\ w.content = v.content /\ w.buffer = v.buffer /\ Rest(w) = Rest(v)
  BY <1>6 DEF MessageSet, Rest, v, w
<1>12. Keeps(c, v, NoCall)
  BY <1>5, <1>6, <1>7, <1>9, <1>10, <1>11, SilentBlock
<1>13. Keeps(v, w, NoCall)
  <2>1. Shape(v) /\ ~v.open
    BY <1>5, <1>11, <1>12 DEF Keeps
  <2> QED
    BY <1>8, <1>9, <1>10, <1>11, <2>1, SilentBlock
<1>14. Keeps(m, w, NoCall)
  BY <1>2, <1>3, <1>5, <1>12, <1>13, KeepsOn
<1>15. w.content = m.content
  BY <1>2, <1>3, <1>5, <1>11 DEF Same
<1> QED
  BY <1>1, <1>14, <1>15

\* What ends a stream that had not ended, and tells no more of the calls.
Ends(m, w) ==
    /\ w \in MessageSet /\ Shape(w) /\ CallsKept(m, w, NoCall)
    /\ w.emitted = m.emitted /\ w.tools = m.tools /\ w.over = TRUE
    /\ Texts(w) = Texts(m) /\ Thoughts(w) = Thoughts(m)

\* The stop of a message that has no reasoning left to show.
LEMMA FinishTells ==
    ASSUME NEW m \in MessageSet, Shape(m), m.buffer = <<>>, m.ends = <<>>, NEW reason
    PROVE  LET w == Finish(m, reason)
           IN  /\ Ends(m, w) /\ ~w.open /\ w.buffer = <<>>
               /\ w.ends = <<StopReason(w, reason), "message_stop">>
<1> DEFINE c == Close(m)
           last == <<StopReason(m, reason), "message_stop">>
           ends == m.ends \o last
           w == Finish(m, reason)
<1>1. w = [c EXCEPT !.over = TRUE, !.ends = ends]
  <2>1. c.ends = m.ends
    BY CloseIs
  <2> HIDE DEF c, last
  <2> QED
    BY <2>1 DEF Finish, c, last
<1>2. Keeps(m, c, NoCall) /\ ~c.open /\ c.buffer = <<>>
  BY CloseKeeps, CloseIs
<1>3. c \in MessageSet /\ Shape(c) /\ c.tools = m.tools
  BY <1>2 DEF Keeps
<1> HIDE DEF c
<1>4. last \in Seq(Endings) /\ ends = last
  <2> DEFINE why == StopReason(m, reason)
  <2>1. why \in Endings /\ "message_stop" \in Endings
    BY DEF StopReason, Endings
  <2>2. last = <<why, "message_stop">>
    OBVIOUS
  <2> HIDE DEF why, last
  <2>3. last \in Seq(Endings)
    BY <2>1, <2>2
  <2> QED
    BY <2>3
<1>5. StopReason(w, reason) = StopReason(m, reason)
  BY <1>1, <1>3 DEF StopReason, MessageSet
<1> HIDE DEF w, ends
<1>6. /\ w \in MessageSet /\ w.over = TRUE /\ w.ends = ends
  <2> HIDE DEF last
  <2> QED
    BY <1>1, <1>3, <1>4 DEF MessageSet
<1>7. /\ w.blocks = c.blocks /\ w.open = c.open /\ w.closed = c.closed /\ w.buffer = c.buffer
      /\ w.content = c.content /\ w.emitted = c.emitted /\ w.tools = c.tools
  BY <1>1, <1>3 DEF MessageSet
<1>8. /\ Shape(w) /\ CallsKept(c, w, NoCall)
      /\ Texts(w) = Texts(c) /\ Thoughts(w) = Thoughts(c)
  BY <1>3, <1>6, <1>7, MarksFit
<1>9. CallsKept(m, w, NoCall)
  BY <1>2, <1>7 DEF Keeps, CallsKept
<1>10. Ends(m, w)
  BY <1>2, <1>3, <1>6, <1>7, <1>8, <1>9 DEF Ends, Keeps
<1>11. w.ends = <<StopReason(w, reason), "message_stop">>
  BY <1>4, <1>5, <1>6 DEF last
<1> QED
  BY <1>2, <1>7, <1>10, <1>11 DEF w

\* One handler, then the end.
LEMMA KeepsThenEnds ==
    ASSUME NEW m, NEW v, NEW w, Keeps(m, v, NoCall), Ends(v, w)
    PROVE  Ends(m, w)
<1>1. CallsKept(m, w, NoCall)
  BY DEF Keeps, Ends, CallsKept
<1> QED
  BY <1>1 DEF Keeps, Ends

\* handle_completed.
LEMMA CompletedTells ==
    ASSUME NEW m \in MessageSet, Shape(m), m.ends = <<>>, NEW e, e.t = "completed"
    PROVE  LET w == Convert(m, e)
           IN  /\ Ends(m, w) /\ ~w.open /\ w.buffer = <<>>
               /\ w.ends = <<StopReason(w, e.reason), "message_stop">>
<1> DEFINE f == FlushTerminal(m, e.reason = "stop")
           w == Convert(m, e)
<1>1. w = Finish(f, e.reason)
  BY DEF Convert, Completed
<1>2. Keeps(m, f, NoCall) /\ f.buffer = <<>>
  BY FlushTerminalKeeps
<1> HIDE DEF f, w
<1>3. f \in MessageSet /\ Shape(f) /\ f.ends = <<>>
  BY <1>2 DEF Keeps
<1>4. /\ Ends(f, w) /\ ~w.open /\ w.buffer = <<>>
      /\ w.ends = <<StopReason(w, e.reason), "message_stop">>
  BY <1>1, <1>2, <1>3, FinishTells
<1> QED
  BY <1>2, <1>4, KeepsThenEnds DEF w

\* finalize of a stream that had not ended.
LEMMA TerminateTells ==
    ASSUME NEW m \in MessageSet, Shape(m), m.ends = <<>>, m.over = FALSE
    PROVE  LET w == Terminate(m)
           IN  /\ Ends(m, w) /\ ~w.open /\ w.buffer = <<>>
               /\ w.ends = <<StopReason(w, "none"), "message_stop">>
<1> DEFINE s == Started(m)
           f == FlushThinking(s)
           w == Terminate(m)
<1>1. w = Finish(f, "none")
  BY DEF Terminate, Started
<1>2. s \in MessageSet /\ Shape(s) /\ Keeps(m, s, NoCall)
  BY StartedIs, SameKeeps DEF Keeps
<1> HIDE DEF s, w
<1>3. Keeps(s, f, NoCall) /\ f.buffer = <<>>
  BY <1>2, FlushKeeps
<1> HIDE DEF f
<1>4. Keeps(m, f, NoCall)
  BY <1>2, <1>3, KeepsOn
<1>5. f \in MessageSet /\ Shape(f) /\ f.ends = <<>>
  BY <1>4 DEF Keeps
<1>6. /\ Ends(f, w) /\ ~w.open /\ w.buffer = <<>>
      /\ w.ends = <<StopReason(w, "none"), "message_stop">>
  BY <1>1, <1>3, <1>5, FinishTells
<1> QED
  BY <1>4, <1>6, KeepsThenEnds DEF w

\* handle_failed.
LEMMA FailedTells ==
    ASSUME NEW m \in MessageSet, Shape(m), m.ends = <<>>, NEW e, e.t = "failed"
    PROVE  LET w == Convert(m, e)
           IN  Ends(m, w) /\ w.ends = <<"error">>
<1> DEFINE ends == Append(m.ends, "error")
           w == Convert(m, e)
<1>1. w = [m EXCEPT !.over = TRUE, !.ends = ends]
  BY DEF Convert, Failed
<1>2. ends \in Seq(Endings) /\ ends = <<"error">>
  BY DEF Endings
<1> HIDE DEF w, ends
<1>3. w \in MessageSet /\ w.over = TRUE /\ w.ends = ends
  BY <1>1, <1>2 DEF MessageSet
<1>4. /\ w.blocks = m.blocks /\ w.open = m.open /\ w.closed = m.closed /\ w.buffer = m.buffer
      /\ w.content = m.content /\ w.emitted = m.emitted /\ w.tools = m.tools
  BY <1>1 DEF MessageSet
<1>5. /\ Shape(w) /\ CallsKept(m, w, NoCall)
      /\ Texts(w) = Texts(m) /\ Thoughts(w) = Thoughts(m)
  BY <1>3, <1>4, MarksFit
<1> QED
  BY <1>2, <1>3, <1>4, <1>5 DEF Ends, w

\* A call with a block is content.
LEMMA CallIsContent ==
    ASSUME NEW m \in MessageSet, Shape(m), NEW k \in DOMAIN m.blocks,
           m.blocks[k].call # NoCall
    PROVE  m.content = TRUE /\ m.blocks[k].kind = "tool_use"
<1>1. BlockFits(m, k) /\ m.content \in BOOLEAN
  BY BlocksAre DEF Shape
<1> QED
  BY <1>1 DEF BlockFits

\* A call that is closed or open has a block.
LEMMA HasBlockYet ==
    ASSUME NEW m \in MessageSet, Shape(m), NEW c,
           c \in m.closed \/ IsOpen(m, "tool_use", c)
    PROVE  \E k \in DOMAIN m.blocks : m.blocks[k].call = c
<1>1. CASE c \in m.closed
  BY <1>1 DEF Shape
<1>2. CASE IsOpen(m, "tool_use", c)
  <2>1. m.blocks # <<>> /\ m.blocks \in Seq(BlockSet)
    BY <1>2, BlocksAre DEF Shape, IsOpen
  <2>2. Len(m.blocks) \in DOMAIN m.blocks
    BY <2>1
  <2> QED
    BY <1>2, <2>2 DEF IsOpen, LastBlock
<1> QED
  BY <1>1, <1>2

\* What the end of a call leaves of a message: the call is marked, has a block,
\* and if it had one already nothing more is told of it.
HandedOff(m, w, c, pieces) ==
    /\ w \in MessageSet /\ Shape(w) /\ w.tools = TRUE
    /\ w.emitted = m.emitted \cup {c} /\ w.ends = m.ends /\ w.over = m.over
    /\ Texts(w) = Texts(m) /\ Thoughts(w) = Thoughts(m)
    /\ \E k \in DOMAIN w.blocks : w.blocks[k].call = c
    /\ IF \E k \in DOMAIN m.blocks : m.blocks[k].call = c
       THEN CallsKept(m, w, NoCall)
       ELSE /\ CallsKept(m, w, c)
            /\ \A k \in DOMAIN w.blocks : w.blocks[k].call = c => w.blocks[k].pieces = pieces

\* Only the marks of a call that has a block.
LEMMA MarkedHandsOff ==
    ASSUME NEW m \in MessageSet, Shape(m), NEW v, Keeps(m, v, NoCall), NEW c \in TurnCalls,
           NEW pieces, \E k \in DOMAIN m.blocks : m.blocks[k].call = c,
           NEW w, w = [v EXCEPT !.tools = TRUE, !.emitted = @ \cup {c}]
    PROVE  HandedOff(m, w, c, pieces)
<1>1. v \in MessageSet /\ Shape(v)
  BY DEF Keeps
<1>2. /\ w \in MessageSet /\ w.tools = TRUE /\ w.emitted = v.emitted \cup {c}
  BY <1>1 DEF MessageSet
<1>3. /\ w.blocks = v.blocks /\ w.open = v.open /\ w.closed = v.closed /\ w.buffer = v.buffer
      /\ w.content = v.content /\ w.ends = v.ends /\ w.over = v.over
  BY <1>1 DEF MessageSet
<1>4. /\ Shape(w) /\ CallsKept(v, w, NoCall)
      /\ Texts(w) = Texts(v) /\ Thoughts(w) = Thoughts(v)
  BY <1>1, <1>2, <1>3, MarksFit
<1>5. CallsKept(m, w, NoCall)
  BY <1>3 DEF Keeps, CallsKept
<1>6. \E k \in DOMAIN w.blocks : w.blocks[k].call = c
  BY <1>3 DEF Keeps, CallsKept
<1> QED
  BY <1>2, <1>3, <1>4, <1>5, <1>6 DEF Keeps, HandedOff

\* emit_whole_tool_block, of a call that has no block and of one that has.
LEMMA WholeTells ==
    ASSUME NEW m \in MessageSet, Shape(m), Backed(m), NEW e, e.call \in TurnCalls,
           e.named \in BOOLEAN, e.pieces \in Seq(Nat), ~IsOpen(m, "tool_use", e.call)
    PROVE  HandedOff(m, Whole([m EXCEPT !.tools = TRUE], e), e.call, e.pieces)
<1> DEFINE c == e.call
           u == [m EXCEPT !.tools = TRUE]
           done == [u EXCEPT !.emitted = @ \cup {c}]
           w == Whole(u, e)
<1>1. u.emitted = m.emitted /\ u.closed = m.closed
  BY DEF MessageSet
<1>2. CASE c \in m.emitted \cup m.closed
  <2>1. w = done
    BY <1>1, <1>2 DEF Whole
  <2>2. done = [m EXCEPT !.tools = TRUE, !.emitted = @ \cup {c}]
    BY DEF MessageSet
  <2>3. \E k \in DOMAIN m.blocks : m.blocks[k].call = c
    BY <1>2, HasBlockYet DEF Backed
  <2>4. Keeps(m, m, NoCall)
    BY KeepsItself
  <2> QED
    BY <2>1, <2>2, <2>3, <2>4, MarkedHandsOff
<1>3. CASE c \notin m.emitted \cup m.closed
  <2> DEFINE t == ToolBlock(done, e)
             a == Add(t, e.pieces)
  <2>1. w = Close(a)
    BY <1>1, <1>3 DEF Whole
  <2>2. /\ done \in MessageSet /\ done.tools = TRUE /\ done.emitted = m.emitted \cup {c}
    BY DEF MessageSet
  <2>3. /\ done.blocks = m.blocks /\ done.open = m.open /\ done.closed = m.closed
        /\ done.buffer = m.buffer /\ done.content = m.content /\ done.ends = m.ends
        /\ done.over = m.over
    BY DEF MessageSet
  <2> HIDE DEF done, w, u
  <2>4. /\ Shape(done) /\ CallsKept(m, done, NoCall)
        /\ Texts(done) = Texts(m) /\ Thoughts(done) = Thoughts(m)
    BY <2>2, <2>3, MarksFit
  <2>5. ~IsOpen(done, "tool_use", c) /\ c \notin done.closed
    BY <1>3, <2>3 DEF IsOpen, LastBlock
  <2>6. /\ Keeps(done, t, c) /\ IsOpen(t, "tool_use", c) /\ LastBlock(t).pieces = <<>>
    BY <2>2, <2>4, <2>5, ToolBlockKeeps
  <2>7. t \in MessageSet /\ Shape(t)
    BY <2>6 DEF Keeps
  <2> HIDE DEF t
  <2>8. t.open /\ LastBlock(t).kind = "tool_use" /\ LastBlock(t).call = c
    BY <2>6 DEF IsOpen
  <2>9. /\ a \in MessageSet /\ Shape(a) /\ CallsKept(t, a, c)
        /\ Rest(a) = Rest(t) /\ a.open = t.open
        /\ LastBlock(a).kind = LastBlock(t).kind /\ LastBlock(a).call = LastBlock(t).call
        /\ LastBlock(a).pieces = LastBlock(t).pieces \o e.pieces
        /\ Thoughts(a) = Thoughts(t) /\ Texts(a) = Texts(t)
    BY <2>7, <2>8, AddTells
  <2> HIDE DEF a
  <2>10. Keeps(a, Close(a), NoCall)
    BY <2>9, CloseKeeps
  <2>11. IsOpen(a, "tool_use", c)
    BY <2>8, <2>9 DEF IsOpen
  <2>12. PICK k \in DOMAIN a.blocks : a.blocks[k].call = c
    BY <2>9, <2>11, HasBlockYet
  <2>13. k = Len(a.blocks) /\ a.blocks[k].pieces = e.pieces
    <3>1. c # NoCall
      BY EgressAssumption DEF NoCall
    <3>2. BlockFits(a, k)
      BY <2>9 DEF Shape
    <3>3. Len(a.blocks) \in DOMAIN a.blocks
      <4>1. a.blocks # <<>> /\ a.blocks \in Seq(BlockSet)
        BY <2>8, <2>9, BlocksAre DEF Shape
      <4> QED
        BY <4>1
    <3>4. a.blocks[Len(a.blocks)].call = c
      BY <2>8, <2>9 DEF LastBlock
    <3>5. k = Len(a.blocks)
      BY <2>12, <3>1, <3>2, <3>3, <3>4 DEF BlockFits
    <3>6. a.blocks[k].pieces = <<>> \o e.pieces
      BY <2>6, <2>9, <3>5 DEF LastBlock
    <3> QED
      BY <3>5, <3>6, NumbersAndNone
  <2>14. \A j \in DOMAIN a.blocks : a.blocks[j].call = c => j = k
    <3>1. c # NoCall
      BY EgressAssumption DEF NoCall
    <3>2. BlockFits(a, k)
      BY <2>9 DEF Shape
    <3> QED
      BY <2>12, <3>1, <3>2 DEF BlockFits
  <2>15. ~\E j \in DOMAIN m.blocks : m.blocks[j].call = c
    BY <1>3, NoBlockYet
  <2>16. /\ k \in DOMAIN w.blocks /\ w.blocks[k].call = c
         /\ \A j \in DOMAIN w.blocks : w.blocks[j].call = c => w.blocks[j].pieces = e.pieces
    <3>1. c # NoCall
      BY EgressAssumption DEF NoCall
    <3>2. k \in DOMAIN w.blocks /\ w.blocks[k].call = c
      BY <2>1, <2>10, <2>12 DEF Keeps, CallsKept
    <3>3. ASSUME NEW j \in DOMAIN w.blocks, w.blocks[j].call = c
          PROVE  w.blocks[j].pieces = e.pieces
      <4>1. j \in DOMAIN a.blocks
        BY <2>1, <2>10, <3>1, <3>3 DEF Keeps, CallsKept
      <4>2. a.blocks[j].call = c /\ w.blocks[j].pieces = a.blocks[j].pieces
        BY <2>1, <2>10, <3>1, <3>3, <4>1 DEF Keeps, CallsKept
      <4> QED
        BY <2>13, <2>14, <4>1, <4>2
    <3> QED
      BY <3>2, <3>3
  <2>17. CallsKept(m, w, c)
    <3>1. CallsKept(m, t, c)
      BY <2>3, <2>6 DEF CallsKept, Keeps
    <3>2. CallsKept(m, a, c)
      BY <2>9, <3>1 DEF CallsKept
    <3> QED
      BY <2>1, <2>10, <3>2 DEF CallsKept, Keeps
  <2>18. /\ w \in MessageSet /\ Shape(w) /\ w.tools = TRUE
         /\ w.emitted = m.emitted \cup {c} /\ w.ends = m.ends /\ w.over = m.over
    BY <2>1, <2>2, <2>3, <2>6, <2>9, <2>10 DEF Keeps, Rest
  <2>19. Texts(w) = Texts(m) /\ Thoughts(w) = Thoughts(m)
    BY <2>1, <2>4, <2>6, <2>9, <2>10 DEF Keeps
  <2>20. HandedOff(m, w, c, e.pieces)
    BY <2>15, <2>16, <2>17, <2>18, <2>19 DEF HandedOff
  <2> QED
    BY <2>20 DEF w, u
<1> QED
  BY <1>2, <1>3

\* handle_function_call_arguments_done.
LEMMA ArgumentsDoneTells ==
    ASSUME NEW m \in MessageSet, Shape(m), Backed(m), NEW e, e.t = "arguments done",
           e.call \in TurnCalls, e.named \in BOOLEAN, e.pieces \in Seq(Nat)
    PROVE  HandedOff(m, Convert(m, e), e.call, e.pieces)
<1> DEFINE c == e.call
           s == Started(m)
           w == Convert(m, e)
<1>1. w = ArgumentsDone(s, e)
  BY DEF Convert, Started
<1>2. Same(m, s) /\ s \in MessageSet /\ Shape(s) /\ Keeps(m, s, NoCall)
  BY StartedIs, SameKeeps DEF Keeps
<1>3. Backed(s)
  BY <1>2, KeepsBacked
<1>4. /\ s.blocks = m.blocks /\ s.emitted = m.emitted /\ s.ends = m.ends /\ s.over = m.over
      /\ Texts(s) = Texts(m) /\ Thoughts(s) = Thoughts(m)
  BY <1>2 DEF Same, Rest, Keeps
<1> HIDE DEF s, w
<1>5. HandedOff(s, w, c, e.pieces)
  <2>1. CASE IsOpen(s, "tool_use", c) /\ c \notin s.emitted \cup s.closed
    <3> DEFINE v == Close(s)
    <3>1. w = [v EXCEPT !.tools = TRUE, !.emitted = @ \cup {c}]
      BY <1>1, <2>1 DEF ArgumentsDone
    <3>2. Keeps(s, v, NoCall)
      BY <1>2, CloseKeeps
    <3>3. \E k \in DOMAIN s.blocks : s.blocks[k].call = c
      BY <1>2, <2>1, HasBlockYet
    <3> HIDE DEF v
    <3> QED
      BY <1>2, <3>1, <3>2, <3>3, MarkedHandsOff
  <2>2. CASE ~(IsOpen(s, "tool_use", c) /\ c \notin s.emitted \cup s.closed)
    <3> DEFINE u == [s EXCEPT !.tools = TRUE]
    <3>1. w = Whole(u, e)
      BY <1>1, <2>2 DEF ArgumentsDone
    <3>2. CASE ~IsOpen(s, "tool_use", c)
      BY <1>2, <1>3, <3>1, <3>2, WholeTells
    <3>3. CASE IsOpen(s, "tool_use", c)
      <4>1. c \in s.emitted \cup s.closed
        BY <2>2, <3>3
      <4>2. u.emitted = s.emitted /\ u.closed = s.closed
        BY <1>2 DEF MessageSet
      <4>3. w = [u EXCEPT !.emitted = @ \cup {c}]
        BY <3>1, <4>1, <4>2 DEF Whole
      <4>4. w = [s EXCEPT !.tools = TRUE, !.emitted = @ \cup {c}]
        BY <1>2, <4>3 DEF MessageSet
      <4>5. \E k \in DOMAIN s.blocks : s.blocks[k].call = c
        BY <1>2, <3>3, HasBlockYet
      <4>6. Keeps(s, s, NoCall)
        BY <1>2, KeepsItself
      <4> QED
        BY <1>2, <4>4, <4>5, <4>6, MarkedHandsOff
    <3> QED
      BY <3>2, <3>3
  <2> QED
    BY <2>1, <2>2
<1>6. CallsKept(s, w, NoCall) => CallsKept(m, w, NoCall)
  BY <1>4 DEF CallsKept
<1>7. CallsKept(s, w, c) => CallsKept(m, w, c)
  BY <1>4 DEF CallsKept
<1>8. HandedOff(m, w, c, e.pieces)
  BY <1>4, <1>5, <1>6, <1>7 DEF HandedOff
<1> QED
  BY <1>8 DEF w

\* handle_item_done of a call that is marked.
LEMMA CallDoneTells ==
    ASSUME NEW m \in MessageSet, Shape(m), Backed(m), NEW e, e.t = "call done",
           e.call \in m.emitted, m.tools = TRUE
    PROVE  LET w == Convert(m, e)
           IN  Keeps(m, w, NoCall) /\ ~w.open
<1> DEFINE v == Close(m)
           u == [v EXCEPT !.tools = TRUE]
           done == [u EXCEPT !.emitted = @ \cup {e.call}]
<1>1. Keeps(m, v, NoCall) /\ ~v.open
  BY CloseKeeps
<1>2. v \in MessageSet /\ v.emitted = m.emitted /\ v.tools = TRUE
  BY <1>1 DEF Keeps
<1>3. Convert(m, e) = Whole(u, e)
  BY DEF Convert, ItemDone
<1> HIDE DEF v
<1>4. u.emitted = m.emitted
  BY <1>2 DEF MessageSet
<1>5. Whole(u, e) = done
  BY <1>4 DEF Whole
<1>6. done = v
  BY <1>2, <1>4 DEF MessageSet
<1> QED
  BY <1>1, <1>3, <1>5, <1>6

\* The marks of a call that was handed off have blocks.
LEMMA HandedOffIsBacked ==
    ASSUME NEW m, NEW w, NEW c \in TurnCalls, NEW pieces, Backed(m), HandedOff(m, w, c, pieces)
    PROVE  Backed(w)
<1>1. CallsKept(m, w, NoCall) \/ CallsKept(m, w, c)
  BY DEF HandedOff
<1>2. ASSUME NEW d \in w.emitted
      PROVE  \E k \in DOMAIN w.blocks : w.blocks[k].call = d
  <2>1. CASE d = c
    BY <2>1 DEF HandedOff
  <2>2. CASE d # c
    <3>1. d \in m.emitted
      BY <2>2 DEF HandedOff
    <3>2. PICK k \in DOMAIN m.blocks : m.blocks[k].call = d
      BY <3>1 DEF Backed
    <3> QED
      BY <1>1, <3>2 DEF CallsKept
  <2> QED
    BY <2>1, <2>2
<1>3. \E k \in DOMAIN w.blocks : w.blocks[k].call # NoCall
  BY EgressAssumption DEF HandedOff, NoCall
<1> QED
  BY <1>2, <1>3 DEF Backed

\* The events of a call that ends.
LEMMA EndOfCallTells ==
    ASSUME NEW m \in MessageSet, Shape(m), Backed(m), NEW e, NEW i, e.t = "arguments done",
           e.call \in TurnCalls, e.named \in BOOLEAN, e.pieces \in Seq(Nat),
           i.t = "call done", i.call = e.call
    PROVE  LET w == Convert(Convert(m, e), i)
           IN  HandedOff(m, w, e.call, e.pieces) /\ Backed(w)
<1> DEFINE c == e.call
           v == Convert(m, e)
           w == Convert(v, i)
<1>1. HandedOff(m, v, c, e.pieces)
  BY ArgumentsDoneTells
<1>2. Backed(v)
  BY <1>1, HandedOffIsBacked
<1> HIDE DEF v
<1>3. v \in MessageSet /\ Shape(v) /\ c \in v.emitted /\ v.tools = TRUE
  BY <1>1 DEF HandedOff
<1>4. Keeps(v, w, NoCall)
  BY <1>2, <1>3, CallDoneTells
<1> HIDE DEF w
<1>5. Backed(w)
  BY <1>2, <1>4, KeepsBacked
<1>6. c # NoCall
  BY EgressAssumption DEF NoCall
<1>7. \E k \in DOMAIN w.blocks : w.blocks[k].call = c
  BY <1>1, <1>4 DEF HandedOff, Keeps, CallsKept
<1>8. CASE \E k \in DOMAIN m.blocks : m.blocks[k].call = c
  <2>1. CallsKept(m, v, NoCall)
    BY <1>1, <1>8 DEF HandedOff
  <2>2. CallsKept(m, w, NoCall)
    BY <1>4, <2>1 DEF Keeps, CallsKept
  <2>3. HandedOff(m, w, c, e.pieces)
    BY <1>1, <1>4, <1>7, <1>8, <2>2 DEF HandedOff, Keeps
  <2> QED
    BY <1>5, <2>3 DEF w, v
<1>9. CASE ~\E k \in DOMAIN m.blocks : m.blocks[k].call = c
  <2>1. /\ CallsKept(m, v, c)
        /\ \A k \in DOMAIN v.blocks : v.blocks[k].call = c => v.blocks[k].pieces = e.pieces
    BY <1>1, <1>9 DEF HandedOff
  <2>2. CallsKept(m, w, c)
    BY <1>4, <2>1 DEF Keeps, CallsKept
  <2>3. ASSUME NEW k \in DOMAIN w.blocks, w.blocks[k].call = c
        PROVE  w.blocks[k].pieces = e.pieces
    <3>1. k \in DOMAIN v.blocks
      BY <1>4, <1>6, <2>3 DEF Keeps, CallsKept
    <3>2. v.blocks[k].call = c /\ w.blocks[k].pieces = v.blocks[k].pieces
      BY <1>4, <1>6, <2>3, <3>1 DEF Keeps, CallsKept
    <3> QED
      BY <2>1, <3>1, <3>2
  <2>4. HandedOff(m, w, c, e.pieces)
    BY <1>1, <1>4, <1>7, <1>9, <2>2, <2>3 DEF HandedOff, Keeps
  <2> QED
    BY <1>5, <2>4 DEF w, v
<1> QED
  BY <1>8, <1>9

\* The counted sequences.
LEMMA UpToIs ==
    ASSUME NEW n \in Nat
    PROVE  /\ UpTo(n) \in Seq(Nat) /\ Len(UpTo(n)) = n /\ UpTo(0) = <<>>
           /\ UpTo(n) \o <<n + 1>> = UpTo(n + 1)
BY DEF UpTo

\* What the first n of these fragments of the call leave of a message, when it
\* had the first of its fragments and `shown' says whether any is shown.
Streamed(m, w, c, shown, n) ==
    /\ w \in MessageSet /\ Shape(w) /\ Backed(w) /\ CallsKept(m, w, c)
    /\ w.emitted = m.emitted /\ w.ends = m.ends /\ w.over = m.over
    /\ Texts(w) = Texts(m) /\ Thoughts(w) = Thoughts(m)
    /\ IF shown /\ n > 0
       THEN IsOpen(w, "tool_use", c) /\ w.tools = TRUE
       ELSE Same(m, w)

\* A call whose fragments are shown goes on being neither marked nor closed.
LEMMA StreamedIsOpen ==
    ASSUME NEW m \in MessageSet, NEW c \in TurnCalls, NEW shown \in BOOLEAN, NEW n \in Nat,
           shown, c \notin m.emitted \cup m.closed, NEW v, Streamed(m, v, c, shown, n)
    PROVE  c \notin v.emitted \cup v.closed
<1>1. v \in MessageSet /\ Shape(v)
  BY DEF Streamed
<1>2. c # NoCall
  BY EgressAssumption DEF NoCall
<1>3. c \notin v.closed
  <2>1. CASE n > 0
    <3>1. IsOpen(v, "tool_use", c)
      BY <2>1 DEF Streamed
    <3>2. Len(v.blocks) \in DOMAIN v.blocks
      <4>1. v.blocks # <<>> /\ v.blocks \in Seq(BlockSet)
        BY <1>1, <3>1, BlocksAre DEF Shape, IsOpen
      <4> QED
        BY <4>1
    <3>3. BlockFits(v, Len(v.blocks))
      BY <1>1, <3>2 DEF Shape
    <3> QED
      BY <1>2, <3>1, <3>3 DEF BlockFits, IsOpen, LastBlock
  <2>2. CASE n = 0
    BY <2>2 DEF Streamed, Same, Rest
  <2> QED
    BY <2>1, <2>2
<1> QED
  BY <1>3 DEF Streamed

\* One fragment more, of a call that goes on being shown or not.
LEMMA OneMoreStreams ==
    ASSUME NEW m \in MessageSet, NEW c \in TurnCalls, NEW shown \in BOOLEAN, NEW n \in Nat,
           shown => c \notin m.emitted \cup m.closed,
           NEW v, Streamed(m, v, c, shown, n),
           NEW e, e.t = "arguments", e.call = c, e.n \in Nat, e.named \in BOOLEAN,
           ~shown => c \in m.emitted \cup m.closed \/ HiddenByName(e),
           shown /\ HiddenByName(e) => n > 0
    PROVE  Streamed(m, Convert(v, e), c, shown, n + 1)
<1> DEFINE w == Convert(v, e)
<1>1. v \in MessageSet /\ Shape(v)
  BY DEF Streamed
<1>2. /\ Swallowed(v, e) => Same(v, w)
      /\ ~Swallowed(v, e) =>
            /\ w \in MessageSet /\ Shape(w) /\ CallsKept(v, w, c)
            /\ w.emitted = v.emitted /\ w.ends = v.ends /\ w.over = v.over
            /\ w.content = TRUE /\ w.tools = TRUE
            /\ Texts(w) = Texts(v) /\ Thoughts(w) = Thoughts(v)
            /\ IsOpen(w, "tool_use", c)
  BY <1>1, ArgumentsTell
<1> HIDE DEF w
<1>3. ASSUME Same(v, w)
      PROVE  /\ Keeps(v, w, c) /\ Backed(w)
             /\ IsOpen(w, "tool_use", c) <=> IsOpen(v, "tool_use", c)
             /\ w.tools = v.tools
  <2>1. Keeps(v, w, c)
    BY <1>1, <1>3, SameKeeps
  <2>2. Backed(w)
    BY <2>1, KeepsBacked DEF Streamed
  <2> QED
    BY <1>3, <2>1, <2>2 DEF IsOpen, LastBlock, Same, Rest
<1>4. c # NoCall
  BY EgressAssumption DEF NoCall
<1>5. shown => c \notin v.emitted \cup v.closed
  BY StreamedIsOpen
<1>6. CASE ~shown
  <2>1. Same(m, v)
    BY <1>6 DEF Streamed
  <2>2. Swallowed(v, e)
    BY <1>6, <2>1 DEF Swallowed, Same, Rest
  <2>3. Same(m, w)
    BY <1>2, <2>1, <2>2 DEF Same
  <2>4. Keeps(v, w, c) /\ Backed(w)
    BY <1>2, <1>3, <2>2
  <2>5. CallsKept(m, w, c)
    BY <2>4 DEF Streamed, Keeps, CallsKept
  <2> QED
    BY <1>6, <2>3, <2>4, <2>5 DEF Streamed, Keeps, w
<1>7. CASE shown /\ HiddenByName(e)
  <2>1. Swallowed(v, e) /\ n > 0
    BY <1>7 DEF Swallowed
  <2>2. Keeps(v, w, c) /\ Backed(w) /\ IsOpen(w, "tool_use", c) /\ w.tools = TRUE
    BY <1>2, <1>3, <1>7, <2>1 DEF Streamed
  <2>3. CallsKept(m, w, c)
    BY <2>2 DEF Streamed, Keeps, CallsKept
  <2>4. n + 1 > 0
    OBVIOUS
  <2>5. Streamed(m, w, c, shown, n + 1)
    BY <1>7, <2>2, <2>3, <2>4 DEF Streamed, Keeps
  <2> QED
    BY <1>7, <2>5 DEF w
<1>8. CASE shown /\ ~HiddenByName(e)
  <2>1. ~Swallowed(v, e)
    BY <1>5, <1>8 DEF Swallowed
  <2>2. /\ w \in MessageSet /\ Shape(w) /\ CallsKept(v, w, c)
        /\ w.emitted = v.emitted /\ w.ends = v.ends /\ w.over = v.over
        /\ w.tools = TRUE
        /\ Texts(w) = Texts(v) /\ Thoughts(w) = Thoughts(v)
        /\ IsOpen(w, "tool_use", c)
    BY <1>2, <2>1
  <2>3. CallsKept(m, w, c)
    BY <2>2 DEF Streamed, CallsKept
  <2>4. Backed(w)
    <3>1. PICK k \in DOMAIN w.blocks : w.blocks[k].call = c
      BY <2>2, HasBlockYet
    <3>2. ASSUME NEW d \in w.emitted
          PROVE  \E j \in DOMAIN w.blocks : w.blocks[j].call = d
      <4>1. PICK j \in DOMAIN v.blocks : v.blocks[j].call = d
        BY <2>2, <3>2 DEF Streamed, Backed
      <4> QED
        BY <2>2, <4>1 DEF CallsKept
    <3> QED
      BY <1>4, <3>1, <3>2 DEF Backed
  <2>5. n + 1 > 0
    OBVIOUS
  <2>6. Streamed(m, w, c, shown, n + 1)
    BY <1>8, <2>2, <2>3, <2>4, <2>5 DEF Streamed
  <2> QED
    BY <1>2, <1>8, <2>1, <2>6 DEF w
<1> QED
  BY <1>6, <1>7, <1>8

\* The fragments of the call in the block that is open.
InOpenBlock(m, c) == IF IsOpen(m, "tool_use", c) THEN LastBlock(m).pieces ELSE <<>>

\* A fragment that is shown is the last of its block.
LEMMA OneMoreIsShown ==
    ASSUME NEW v \in MessageSet, Shape(v), NEW c \in TurnCalls,
           c \notin v.emitted \cup v.closed,
           NEW e, e.t = "arguments", e.call = c, e.n \in Nat, e.named \in BOOLEAN,
           ~HiddenByName(e)
    PROVE  LastBlock(Convert(v, e)).pieces = InOpenBlock(v, c) \o <<e.n>>
<1>1. ~Swallowed(v, e)
  BY DEF Swallowed
<1> QED
  BY <1>1, ArgumentsTell DEF InOpenBlock

\* The events of the fragments from one on, of which the first have no name.
Gated(events, c, from, held, count) ==
    /\ Len(events) = count
    /\ \A k \in 1..count : events[k] = ArgumentEvent(c, from + k, k > held)

\* What the gate lets through of a call, fragment by fragment.
LEMMA LetThroughStreams ==
    ASSUME NEW m \in MessageSet, Shape(m), Backed(m), NEW c \in TurnCalls,
           NEW from \in Nat, NEW held \in Nat, NEW count \in Nat, NEW events,
           Gated(events, c, from, held, count),
           NEW shown \in BOOLEAN,
           shown <=> c \notin m.emitted \cup m.closed /\ (tool[c] = "search" => held > 0),
           shown /\ tool[c] # "search" => InOpenBlock(m, c) = UpTo(from)
    PROVE  \A n \in 0..count :
              /\ Streamed(m, After("anthropic", m, events)[n], c, shown, n)
              /\ shown /\ tool[c] # "search" /\ n > 0 =>
                    LastBlock(After("anthropic", m, events)[n]).pieces = UpTo(from + n)
<1> DEFINE f == After("anthropic", m, events)
           Good(n) == /\ Streamed(m, f[n], c, shown, n)
                      /\ shown /\ tool[c] # "search" /\ n > 0 =>
                            LastBlock(f[n]).pieces = UpTo(from + n)
           T == {n \in Nat : n <= count => Good(n)}
<1> /\ Len(events) = count
    /\ \A k \in 1..count : events[k] = ArgumentEvent(c, from + k, k > held)
  BY DEF Gated
<1>1. f[0] = m /\ \A n \in 1..count : f[n] = Convert(f[n - 1], events[n])
  <2>1. /\ After("anthropic", m, events)[0] = m
        /\ \A n \in 1..count : After("anthropic", m, events)[n] =
              Take("anthropic", After("anthropic", m, events)[n - 1], events[n])
    BY AfterIs
  <2> QED
    BY <2>1 DEF Take
<1> HIDE DEF f
<1>3. Good(0)
  <2>1. Same(m, m)
    BY DEF Same
  <2>2. CallsKept(m, m, c)
    BY DEF CallsKept
  <2> QED
    BY <1>1, <2>1, <2>2 DEF Streamed
<1>4. ASSUME NEW n \in Nat, n + 1 <= count, Good(n)
      PROVE  Good(n + 1)
  <2> DEFINE v == f[n]
             e == events[n + 1]
             w == Convert(v, e)
  <2>1. n + 1 \in 1..count /\ (n + 1) - 1 = n
    BY <1>4
  <2>2. f[n + 1] = w
    BY <1>1, <2>1
  <2>3. e = ArgumentEvent(c, from + (n + 1), n + 1 > held)
    BY <2>1
  <2> HIDE DEF e
  <2>4. /\ e.t = "arguments" /\ e.call = c /\ e.n = from + (n + 1) /\ e.n \in Nat
        /\ e.named = (n + 1 > held) /\ e.named \in BOOLEAN /\ e.tool = tool[c]
    BY <2>3 DEF ArgumentEvent
  <2>5. HiddenByName(e) <=> n + 1 > held /\ tool[c] = "search"
    BY <2>4 DEF HiddenByName
  <2>6. Streamed(m, v, c, shown, n)
    BY <1>4
  <2>7. ~shown => c \in m.emitted \cup m.closed \/ HiddenByName(e)
    <3>1. ~(held > 0) => n + 1 > held
      OBVIOUS
    <3> QED
      BY <2>5, <3>1, Zenon
  <2>8. shown /\ HiddenByName(e) => n > 0
    <3>1. n + 1 > held /\ held > 0 => n > 0
      OBVIOUS
    <3> QED
      BY <2>5, <3>1, Zenon
  <2>9. shown => c \notin m.emitted \cup m.closed
    OBVIOUS
  <2> HIDE DEF v
  <2>10. /\ Streamed(m, w, c, shown, n + 1)
         /\ shown /\ ~HiddenByName(e) =>
               LastBlock(w).pieces = InOpenBlock(v, c) \o <<e.n>>
    <3>1. e.t = "arguments" /\ e.call = c /\ e.n \in Nat /\ e.named \in BOOLEAN
      BY <2>4
    <3> HIDE DEF Good, T
    <3>2. Streamed(m, Convert(v, e), c, shown, n + 1)
      BY <2>6, <2>7, <2>8, <2>9, <3>1, OneMoreStreams, ZenonT(30)
    <3>3. ASSUME shown, ~HiddenByName(e)
          PROVE  LastBlock(Convert(v, e)).pieces = InOpenBlock(v, c) \o <<e.n>>
      <4>1. v \in MessageSet /\ Shape(v)
        BY <2>6 DEF Streamed
      <4>2. c \notin v.emitted \cup v.closed
        BY <2>6, <2>9, <3>3, StreamedIsOpen
      <4> QED
        BY <3>1, <3>3, <4>1, <4>2, OneMoreIsShown
    <3> QED
      BY <3>2, <3>3
  <2>11. ASSUME shown, tool[c] # "search"
         PROVE  LastBlock(w).pieces = UpTo(from + (n + 1))
    <3> DEFINE had == InOpenBlock(v, c)
    <3>1. had = UpTo(from + n)
      <4>1. CASE n = 0
        <5>1. v = m /\ from + n = from
          BY <1>1, <4>1 DEF v
        <5> QED
          BY <2>11, <5>1
      <4>2. CASE n > 0
        <5>1. IsOpen(v, "tool_use", c)
          BY <2>6, <2>11, <4>2 DEF Streamed
        <5>2. LastBlock(v).pieces = UpTo(from + n)
          BY <1>4, <2>11, <4>2 DEF v
        <5> QED
          BY <5>1, <5>2 DEF InOpenBlock
      <4> QED
        BY <4>1, <4>2
    <3>2. LastBlock(w).pieces = had \o <<e.n>>
      BY <2>5, <2>10, <2>11
    <3>3. from + n \in Nat /\ e.n = (from + n) + 1 /\ (from + n) + 1 = from + (n + 1)
      BY <2>4
    <3> HIDE DEF had, w
    <3>4. UpTo(from + n) \o <<(from + n) + 1>> = UpTo((from + n) + 1)
      BY <3>3, UpToIs
    <3> QED
      BY <3>1, <3>2, <3>3, <3>4
  <2> QED
    BY <2>2, <2>10, <2>11
<1> HIDE DEF Good
<1>5. 0 \in T
  BY <1>3
<1>6. ASSUME NEW n \in T
      PROVE  n + 1 \in T
  <2>1. n \in Nat /\ (n <= count => Good(n))
    OBVIOUS
  <2>2. n + 1 <= count => n <= count
    BY <2>1
  <2>3. n + 1 <= count => Good(n + 1)
    BY <1>4, <2>1, <2>2
  <2> QED
    BY <2>1, <2>3
<1> HIDE DEF T
<1>7. T \in SUBSET Nat
  BY DEF T
<1>8. T = Nat
  BY <1>5, <1>6, <1>7, NatSets
<1>9. \A n \in 0..count : Good(n)
  BY <1>8 DEF T
<1> QED
  BY <1>9 DEF Good, f

-----------------------------------------------------------------------------
(* What the events make of a chat client's message.                        *)

\* The calls of such a message, with one more fragment or name.
LEMMA CallsAre ==
    ASSUME NEW m \in ChatSet
    PROVE  /\ m.calls \in Seq(ChatCallSet)
           /\ Len(m.calls) \in Nat /\ DOMAIN m.calls = 1..Len(m.calls)
           /\ \A k \in DOMAIN m.calls :
                 m.calls[k] \in ChatCallSet
BY DEF ChatSet

\* The calls before this one are as they were.
OthersStay(m, w, c) ==
    /\ \A k \in DOMAIN m.calls :
          /\ k \in DOMAIN w.calls /\ w.calls[k].call = m.calls[k].call
          /\ m.calls[k].call # c => w.calls[k] = m.calls[k]
    /\ \A k \in DOMAIN w.calls : k \in DOMAIN m.calls \/ w.calls[k].call = c

\* What a chunk of the call leaves: one entry of the call, with more in it.
Pushed(m, w, c, had, more, named) ==
    /\ w \in ChatSet /\ w.text = m.text /\ w.reasoning = m.reasoning /\ w.ends = m.ends
    /\ OthersStay(m, w, c)
    /\ \E k \in DOMAIN w.calls :
          /\ w.calls[k].call = c /\ w.calls[k].pieces = had \o more
          /\ named => w.calls[k].named
          /\ \A j \in DOMAIN w.calls : w.calls[j].call = c => j = k
          /\ \A j \in DOMAIN m.calls : m.calls[j].call = c /\ m.calls[j].named => w.calls[k].named

\* get_or_create_tool_call.
LEMMA RegisterIs ==
    ASSUME NEW m \in ChatSet, NEW c \in TurnCalls, ~Registered(m, c)
    PROVE  LET w == Register(m, c)
           IN  /\ w \in ChatSet /\ w.text = m.text /\ w.reasoning = m.reasoning
               /\ w.ends = m.ends /\ OthersStay(m, w, c)
               /\ \E k \in DOMAIN w.calls :
                     /\ w.calls[k].call = c /\ w.calls[k].pieces = <<>>
                     /\ \A j \in DOMAIN w.calls : w.calls[j].call = c => j = k
<1> DEFINE b == [call |-> c, named |-> FALSE, pieces |-> <<>>]
           calls == Append(m.calls, b)
           w == [m EXCEPT !.calls = calls]
           N == Len(m.calls)
<1>1. Register(m, c) = w
  BY DEF Register
<1>2. m.calls \in Seq(ChatCallSet) /\ N \in Nat /\ DOMAIN m.calls = 1..N
  BY CallsAre
<1>3. \A k \in DOMAIN m.calls : m.calls[k].call # c
  BY DEF Registered, PlacesOf
<1>4. b \in ChatCallSet /\ b.call = c /\ b.pieces = <<>>
  BY DEF ChatCallSet
<1> HIDE DEF b
<1>5. /\ calls \in Seq(ChatCallSet) /\ DOMAIN calls = 1..(N + 1) /\ calls[N + 1] = b
      /\ \A k \in 1..N : calls[k] = m.calls[k]
  BY <1>2, <1>4
<1> HIDE DEF calls
<1>6. /\ w \in ChatSet /\ w.calls = calls /\ w.text = m.text /\ w.reasoning = m.reasoning
      /\ w.ends = m.ends
  BY <1>5 DEF ChatSet
<1> HIDE DEF w
<1>7. OthersStay(m, w, c)
  <2>1. \A k \in 1..(N + 1) : k \in 1..N \/ k = N + 1
    BY <1>2
  <2>2. \A k \in 1..N : k \in 1..(N + 1)
    BY <1>2
  <2> QED
    BY <1>2, <1>4, <1>5, <1>6, <2>1, <2>2 DEF OthersStay
<1>8. /\ N + 1 \in DOMAIN w.calls /\ w.calls[N + 1].call = c /\ w.calls[N + 1].pieces = <<>>
  BY <1>2, <1>4, <1>5, <1>6
<1>9. \A j \in DOMAIN w.calls : w.calls[j].call = c => j = N + 1
  <2>1. \A j \in 1..(N + 1) : j \in 1..N \/ j = N + 1
    BY <1>2
  <2> QED
    BY <1>2, <1>3, <1>5, <1>6, <2>1
<1> QED
  BY <1>1, <1>6, <1>7, <1>8, <1>9

\* push_tool_call_chunk.
LEMMA PushIs ==
    ASSUME NEW m \in ChatSet, NEW e, e.call \in TurnCalls, e.named \in BOOLEAN,
           NEW more \in Seq(Nat), Registered(m, e.call),
           \A j, k \in DOMAIN m.calls : m.calls[j].call = m.calls[k].call => j = k
    PROVE  LET w == PushChunk(m, e, more)
               i == IndexOfCall(m, e.call)
           IN  /\ i \in DOMAIN m.calls /\ m.calls[i].call = e.call
               /\ Pushed(m, w, e.call, m.calls[i].pieces, more, e.named)
<1> DEFINE c == e.call
           i == IndexOfCall(m, c)
           b == m.calls[i]
           pieces == b.pieces \o more
           d == [b EXCEPT !.named = @ \/ e.named, !.pieces = pieces]
           calls == [m.calls EXCEPT ![i] = d]
           w == PushChunk(m, e, more)
           N == Len(m.calls)
<1>1. m.calls \in Seq(ChatCallSet) /\ N \in Nat /\ DOMAIN m.calls = 1..N
  BY CallsAre
<1>2. i \in DOMAIN m.calls /\ b.call = c
  BY DEF Registered, IndexOfCall, PlacesOf
<1>3. b \in ChatCallSet
  BY <1>1, <1>2
<1>4. w = [m EXCEPT !.calls = calls]
  <2> DEFINE q == [m.calls EXCEPT ![i].named = @ \/ e.named, ![i].pieces = @ \o more]
  <2>1. w = [m EXCEPT !.calls[i].named = @ \/ e.named, !.calls[i].pieces = @ \o more]
    BY DEF PushChunk
  <2>2. w = [m EXCEPT !.calls = q]
    BY <1>2, <2>1 DEF ChatSet
  <2>3. q = calls
    BY <1>1, <1>2, <1>3 DEF ChatCallSet
  <2> QED
    BY <2>2, <2>3
<1> HIDE DEF w, i
<1>5. pieces \in Seq(Nat)
  BY <1>3 DEF ChatCallSet
<1>6. /\ d \in ChatCallSet /\ d.call = c /\ d.pieces = pieces
      /\ b.named => d.named
      /\ e.named => d.named
  <2> HIDE DEF b, pieces
  <2> QED
    BY <1>2, <1>3, <1>5 DEF ChatCallSet
<1> HIDE DEF d
<1>7. /\ calls \in Seq(ChatCallSet) /\ DOMAIN calls = 1..N /\ calls[i] = d
      /\ \A k \in 1..N : k # i => calls[k] = m.calls[k]
  BY <1>1, <1>2, <1>6
<1> HIDE DEF calls
<1>8. /\ w \in ChatSet /\ w.calls = calls /\ w.text = m.text /\ w.reasoning = m.reasoning
      /\ w.ends = m.ends
  BY <1>4, <1>7 DEF ChatSet
<1>9. \A j \in 1..N : m.calls[j].call = c => j = i
  BY <1>1, <1>2
<1>10. OthersStay(m, w, c)
  <2>1. ASSUME NEW k \in 1..N
        PROVE  /\ w.calls[k].call = m.calls[k].call
               /\ m.calls[k].call # c => w.calls[k] = m.calls[k]
    <3>1. CASE k = i
      BY <1>2, <1>6, <1>7, <1>8, <3>1
    <3>2. CASE k # i
      BY <1>7, <1>8, <3>2
    <3> QED
      BY <3>1, <3>2
  <2> QED
    BY <1>1, <1>7, <1>8, <2>1 DEF OthersStay
<1>11. /\ i \in DOMAIN w.calls /\ w.calls[i].call = c /\ w.calls[i].pieces = b.pieces \o more
       /\ e.named => w.calls[i].named
  BY <1>1, <1>2, <1>6, <1>7, <1>8
<1>12. \A j \in DOMAIN w.calls : w.calls[j].call = c => j = i
  <2>1. ASSUME NEW j \in 1..N, w.calls[j].call = c
        PROVE  j = i
    <3>1. m.calls[j].call = c
      BY <1>1, <1>10, <2>1 DEF OthersStay
    <3> QED
      BY <1>9, <3>1
  <2> QED
    BY <1>7, <1>8, <2>1
<1>13. \A j \in DOMAIN m.calls : m.calls[j].call = c /\ m.calls[j].named => w.calls[i].named
  BY <1>1, <1>6, <1>7, <1>8, <1>9
<1>14. Pushed(m, w, c, b.pieces, more, e.named)
  BY <1>8, <1>10, <1>11, <1>12, <1>13 DEF Pushed
<1> QED
  BY <1>2, <1>14 DEF w, i

\* A chunk goes to the entry of its call, which it opens if there is none.
LEMMA ChunkIsPushed ==
    ASSUME NEW m \in ChatSet, NEW sent \in [TurnCalls -> Nat], NEW handed,
           CallsArrive(m, sent, handed), NEW e, e.call \in TurnCalls, e.named \in BOOLEAN,
           NEW more \in Seq(Nat)
    PROVE  Pushed(m, PushChunk(Register(m, e.call), e, more), e.call, UpTo(sent[e.call]),
                  more, e.named)
<1> DEFINE c == e.call
           u == Register(m, c)
           w == PushChunk(u, e, more)
<1>1. CASE Registered(m, c)
  <2> DEFINE i == IndexOfCall(m, c)
  <2>1. u = m
    BY <1>1 DEF Register
  <2>2. \A j, k \in DOMAIN m.calls : m.calls[j].call = m.calls[k].call => j = k
    BY DEF CallsArrive
  <2>3. /\ i \in DOMAIN m.calls /\ m.calls[i].call = c
        /\ Pushed(m, PushChunk(m, e, more), c, m.calls[i].pieces, more, e.named)
    BY <1>1, <2>2, PushIs
  <2> HIDE DEF i
  <2>4. m.calls[i].pieces = UpTo(sent[c])
    BY <2>3 DEF CallsArrive
  <2> QED
    BY <2>1, <2>3, <2>4
<1>2. CASE ~Registered(m, c)
  <2> DEFINE i == IndexOfCall(u, c)
  <2>1. /\ u \in ChatSet /\ u.text = m.text /\ u.reasoning = m.reasoning
        /\ u.ends = m.ends /\ OthersStay(m, u, c)
        /\ \E k \in DOMAIN u.calls :
              /\ u.calls[k].call = c /\ u.calls[k].pieces = <<>>
              /\ \A j \in DOMAIN u.calls : u.calls[j].call = c => j = k
    BY <1>2, RegisterIs
  <2>2. sent[c] = 0 /\ UpTo(sent[c]) = <<>>
    <3>1. sent[c] = 0
      BY <1>2 DEF CallsArrive
    <3> QED
      BY <3>1, UpToIs
  <2>3. \A j \in DOMAIN m.calls : m.calls[j].call # c
    BY <1>2 DEF Registered, PlacesOf
  <2> HIDE DEF u
  <2>4. PICK k \in DOMAIN u.calls :
              /\ u.calls[k].call = c /\ u.calls[k].pieces = <<>>
              /\ \A j \in DOMAIN u.calls : u.calls[j].call = c => j = k
    BY <2>1
  <2>5. Registered(u, c)
    BY <2>4 DEF Registered, PlacesOf
  <2>6. ASSUME NEW j \in DOMAIN u.calls, NEW l \in DOMAIN u.calls,
               u.calls[j].call = u.calls[l].call
        PROVE  j = l
    <3>1. CASE u.calls[j].call = c
      BY <2>4, <2>6, <3>1
    <3>2. CASE u.calls[j].call # c
      <4>1. j \in DOMAIN m.calls /\ l \in DOMAIN m.calls
        BY <2>1, <2>6, <3>2 DEF OthersStay
      <4>2. m.calls[j].call = m.calls[l].call
        BY <2>1, <2>6, <4>1 DEF OthersStay
      <4> QED
        BY <4>1, <4>2 DEF CallsArrive
    <3> QED
      BY <3>1, <3>2
  <2>7. /\ i \in DOMAIN u.calls /\ u.calls[i].call = c
        /\ Pushed(u, w, c, u.calls[i].pieces, more, e.named)
    BY <2>1, <2>5, <2>6, PushIs
  <2> HIDE DEF i, w
  <2>8. u.calls[i].pieces = <<>>
    BY <2>4, <2>7
  <2>9. OthersStay(u, w, c)
    BY <2>7 DEF Pushed
  <2>10. OthersStay(m, w, c)
    BY <2>1, <2>9 DEF OthersStay
  <2>11. PICK l \in DOMAIN w.calls :
            /\ w.calls[l].call = c /\ w.calls[l].pieces = <<>> \o more
            /\ e.named => w.calls[l].named
            /\ \A j \in DOMAIN w.calls : w.calls[j].call = c => j = l
    BY <2>7, <2>8 DEF Pushed
  <2>12. Pushed(m, w, c, <<>>, more, e.named)
    BY <2>1, <2>3, <2>7, <2>10, <2>11 DEF Pushed
  <2> QED
    BY <2>2, <2>12 DEF w, u
<1> QED
  BY <1>1, <1>2

\* What is sent of the call, and what is handed off, after such a chunk.
Advances(c, sent, handed, now, done, more, named) ==
    /\ UpTo(sent[c]) \o more = UpTo(now[c])
    /\ \A d \in TurnCalls : d # c => now[d] = sent[d] /\ (d \in done <=> d \in handed)
    /\ c \in done => named \/ c \in handed

\* The calls have arrived as far as they were sent.
LEMMA PushedArrives ==
    ASSUME NEW m \in ChatSet, NEW c \in TurnCalls, NEW sent, NEW handed,
           NEW now, NEW done, NEW more, NEW named \in BOOLEAN, NEW w,
           CallsArrive(m, sent, handed), Pushed(m, w, c, UpTo(sent[c]), more, named),
           Advances(c, sent, handed, now, done, more, named)
    PROVE  /\ w \in ChatSet /\ w.text = m.text /\ w.reasoning = m.reasoning /\ w.ends = m.ends
           /\ CallsArrive(w, now, done)
<1>1. PICK k \in DOMAIN w.calls :
         /\ w.calls[k].call = c /\ w.calls[k].pieces = UpTo(sent[c]) \o more
         /\ named => w.calls[k].named
         /\ \A j \in DOMAIN w.calls : w.calls[j].call = c => j = k
         /\ \A j \in DOMAIN m.calls : m.calls[j].call = c /\ m.calls[j].named => w.calls[k].named
  BY DEF Pushed
<1>2. OthersStay(m, w, c) /\ w \in ChatSet
  BY DEF Pushed
<1>3. ASSUME NEW j \in DOMAIN w.calls, w.calls[j].call # c
      PROVE  j \in DOMAIN m.calls /\ w.calls[j] = m.calls[j]
  BY <1>2, <1>3 DEF OthersStay
<1>4. \A j \in DOMAIN w.calls : w.calls[j].call \in TurnCalls
  BY <1>2, CallsAre DEF ChatCallSet
<1>5. ASSUME NEW j \in DOMAIN w.calls, NEW l \in DOMAIN w.calls,
             w.calls[j].call = w.calls[l].call
      PROVE  j = l
  <2>1. CASE w.calls[j].call = c
    BY <1>1, <1>5, <2>1
  <2>2. CASE w.calls[j].call # c
    BY <1>3, <1>5, <2>2 DEF CallsArrive
  <2> QED
    BY <2>1, <2>2
<1>6. ASSUME NEW j \in DOMAIN w.calls
      PROVE  /\ w.calls[j].pieces = UpTo(now[w.calls[j].call])
             /\ w.calls[j].call \in done => w.calls[j].named
  <2>1. CASE w.calls[j].call = c
    <3>1. j = k
      BY <1>1, <2>1
    <3>2. c \in done => w.calls[k].named
      <4>1. ASSUME c \in handed
            PROVE  w.calls[k].named
        <5>1. Registered(m, c)
          BY <4>1 DEF CallsArrive
        <5>2. PICK l \in DOMAIN m.calls : m.calls[l].call = c
          BY <5>1 DEF Registered, PlacesOf
        <5>3. m.calls[l].named
          BY <4>1, <5>2 DEF CallsArrive
        <5> QED
          BY <1>1, <5>2, <5>3
      <4> QED
        BY <1>1, <4>1 DEF Advances
    <3> QED
      BY <1>1, <3>1, <3>2 DEF Advances
  <2>2. CASE w.calls[j].call # c
    <3>1. j \in DOMAIN m.calls /\ w.calls[j] = m.calls[j]
      BY <1>3, <2>2
    <3>2. /\ m.calls[j].pieces = UpTo(sent[m.calls[j].call])
          /\ m.calls[j].call \in handed => m.calls[j].named
      BY <3>1 DEF CallsArrive
    <3> QED
      BY <1>4, <2>2, <3>1, <3>2 DEF Advances
  <2> QED
    BY <2>1, <2>2
<1>7. ASSUME NEW d \in TurnCalls, now[d] > 0 \/ d \in done
      PROVE  Registered(w, d)
  <2>1. CASE d = c
    BY <1>1, <2>1 DEF Registered, PlacesOf
  <2>2. CASE d # c
    <3>1. Registered(m, d)
      BY <1>7, <2>2 DEF CallsArrive, Advances
    <3>2. PICK l \in DOMAIN m.calls : m.calls[l].call = d
      BY <3>1 DEF Registered, PlacesOf
    <3>3. l \in DOMAIN w.calls /\ w.calls[l].call = d
      BY <1>2, <3>2 DEF OthersStay
    <3> QED
      BY <3>3 DEF Registered, PlacesOf
  <2> QED
    BY <2>1, <2>2
<1>8. CallsArrive(w, now, done)
  BY <1>5, <1>6, <1>7 DEF CallsArrive
<1> QED
  BY <1>8 DEF Pushed

\* What a chat client's message was before the calls of this event.
SameText(m, w) ==
    w \in ChatSet /\ w.text = m.text /\ w.reasoning = m.reasoning /\ w.ends = m.ends

\* One more fragment of a call.
LEMMA FragmentArrives ==
    ASSUME NEW m \in ChatSet, NEW sent, sent \in [TurnCalls -> Nat], NEW handed,
           CallsArrive(m, sent, handed), NEW e, e.t = "arguments", e.call \in TurnCalls,
           e.n = sent[e.call] + 1, e.named \in BOOLEAN
    PROVE  /\ SameText(m, ConvertChat(m, e))
           /\ CallsArrive(ConvertChat(m, e), [sent EXCEPT ![e.call] = @ + 1], handed)
<1> DEFINE c == e.call
           one == <<e.n>>
           now == [sent EXCEPT ![c] = @ + 1]
           w == PushChunk(Register(m, c), e, one)
<1>1. ConvertChat(m, e) = w
  BY DEF ConvertChat
<1>2. sent[c] \in Nat /\ e.n \in Nat /\ one \in Seq(Nat)
  <2>1. sent[c] \in Nat
    OBVIOUS
  <2> QED
    BY <2>1
<1>3. UpTo(sent[c]) \o one = UpTo(now[c])
  <2>1. now[c] = sent[c] + 1
    OBVIOUS
  <2> QED
    BY <1>2, <2>1, UpToIs
<1> HIDE DEF one, w
<1>4. Pushed(m, w, c, UpTo(sent[c]), one, e.named)
  BY <1>2, ChunkIsPushed DEF w
<1>5. \A d \in TurnCalls : d # c => now[d] = sent[d] /\ (d \in handed <=> d \in handed)
  OBVIOUS
<1>6. c \in handed => e.named \/ c \in handed
  OBVIOUS
<1> HIDE DEF now
<1>7. /\ w \in ChatSet /\ w.text = m.text /\ w.reasoning = m.reasoning /\ w.ends = m.ends
      /\ CallsArrive(w, now, handed)
  <2>1. m \in ChatSet /\ c \in TurnCalls /\ CallsArrive(m, sent, handed) /\ e.named \in BOOLEAN
    OBVIOUS
  <2>2. Advances(c, sent, handed, now, handed, one, e.named)
    BY <1>3, <1>5, <1>6, Zenon DEF Advances
  <2> HIDE DEF c
  <2> QED
    BY ONLY <1>4, <2>1, <2>2, PushedArrives
<1> QED
  BY <1>1, <1>7 DEF SameText, now

\* An event that ends a call of n fragments.
EndOfCall(e, c, n) ==
    e.t \in {"arguments done", "call done"} /\ e.call = c /\ e.named = TRUE /\ e.pieces = UpTo(n)

\* A call that ends, by its arguments or by its item.
LEMMA EndOfCallArrives ==
    ASSUME NEW m \in ChatSet, NEW sent, sent \in [TurnCalls -> Nat], NEW handed,
           CallsArrive(m, sent, handed), NEW c \in TurnCalls, NEW e, EndOfCall(e, c, sent[c])
    PROVE  /\ SameText(m, ConvertChat(m, e))
           /\ CallsArrive(ConvertChat(m, e), sent, handed \cup {c})
<1> /\ e.t \in {"arguments done", "call done"} /\ e.call = c /\ e.named = TRUE
    /\ e.pieces = UpTo(sent[c])
  BY DEF EndOfCall
<1> DEFINE w == PushChunk(Register(m, c), e, <<>>)
           done == handed \cup {c}
<1>1. ConvertChat(m, e) = EmitToolCall(m, e)
  BY DEF ConvertChat
<1>2. EmitToolCall(m, e) = w
  <2>1. CASE Registered(m, c)
    BY <2>1 DEF EmitToolCall, Register
  <2>2. CASE ~Registered(m, c)
    <3>1. sent[c] = 0
      <4>1. sent[c] \in Nat /\ c \in TurnCalls
        OBVIOUS
      <4>2. ~(sent[c] > 0)
        BY <2>2, <4>1, Zenon DEF CallsArrive
      <4> QED
        BY ONLY <4>1, <4>2
    <3>2. e.pieces = <<>>
      BY <3>1, UpToIs
    <3> QED
      BY <2>2, <3>2 DEF EmitToolCall
  <2> QED
    BY <2>1, <2>2
<1> HIDE DEF w
<1>3. Pushed(m, w, c, UpTo(sent[c]), <<>>, e.named)
  <2>1. <<>> \in Seq(Nat) /\ TRUE \in BOOLEAN
    BY ONLY TRUE
  <2> QED
    BY <2>1, ChunkIsPushed DEF w
<1>4. UpTo(sent[c]) \o <<>> = UpTo(sent[c])
  <2>1. UpTo(sent[c]) \in Seq(Nat)
    BY UpToIs
  <2> QED
    BY <2>1, NumbersAndNone
<1>5. \A d \in TurnCalls : d # c => sent[d] = sent[d] /\ (d \in done <=> d \in handed)
  OBVIOUS
<1>6. c \in done => e.named \/ c \in handed
  OBVIOUS
<1> HIDE DEF done
<1>7. /\ w \in ChatSet /\ w.text = m.text /\ w.reasoning = m.reasoning /\ w.ends = m.ends
      /\ CallsArrive(w, sent, done)
  <2>1. m \in ChatSet /\ c \in TurnCalls /\ CallsArrive(m, sent, handed) /\ e.named \in BOOLEAN
    OBVIOUS
  <2>2. Advances(c, sent, handed, sent, done, <<>>, e.named)
    BY <1>4, <1>5, <1>6, Zenon DEF Advances
  <2> QED
    BY ONLY <1>3, <2>1, <2>2, PushedArrives
<1> QED
  BY <1>1, <1>2, <1>7 DEF SameText, done

\* What the gate lets through of a call, fragment by fragment.
LEMMA LetThroughArrives ==
    ASSUME NEW m \in ChatSet, NEW sent, sent \in [TurnCalls -> Nat], NEW handed,
           CallsArrive(m, sent, handed), NEW c \in TurnCalls,
           NEW held \in Nat, NEW count \in Nat, NEW events,
           Gated(events, c, sent[c], held, count)
    PROVE  LET w == After("chat", m, events)[count]
           IN  SameText(m, w) /\ CallsArrive(w, [sent EXCEPT ![c] = @ + count], handed)
<1> DEFINE f == After("chat", m, events)
           Now(n) == [sent EXCEPT ![c] = @ + n]
           Good(n) == SameText(m, f[n]) /\ CallsArrive(f[n], Now(n), handed)
           T == {n \in Nat : n <= count => Good(n)}
<1> /\ Len(events) = count
    /\ \A k \in 1..count : events[k] = ArgumentEvent(c, sent[c] + k, k > held)
  BY DEF Gated
<1>1. f[0] = m /\ \A n \in 1..count : f[n] = ConvertChat(f[n - 1], events[n])
  <2>1. /\ After("chat", m, events)[0] = m
        /\ \A n \in 1..count : After("chat", m, events)[n] =
              Take("chat", After("chat", m, events)[n - 1], events[n])
    <3>1. count \in Nat /\ Len(events) = count
      OBVIOUS
    <3> QED
      BY ONLY <3>1, AfterIs
  <2> QED
    BY <2>1 DEF Take
<1> HIDE DEF f
<1>2. sent[c] \in Nat
  OBVIOUS
<1>3. Good(0)
  <2>1. Now(0) = sent
    BY <1>2
  <2>2. SameText(m, m)
    BY DEF SameText
  <2> QED
    BY <1>1, <2>1, <2>2
<1>4. ASSUME NEW n \in Nat, n + 1 <= count, Good(n)
      PROVE  Good(n + 1)
  <2> DEFINE v == f[n]
             e == events[n + 1]
             now == Now(n)
  <2>1. n + 1 \in 1..count /\ (n + 1) - 1 = n
    BY <1>4
  <2>2. f[n + 1] = ConvertChat(v, e)
    BY <1>1, <2>1
  <2>3. e = ArgumentEvent(c, sent[c] + (n + 1), n + 1 > held)
    BY <2>1
  <2>4. now \in [TurnCalls -> Nat] /\ now[c] = sent[c] + n
    BY <1>2
  <2>5. Now(n + 1) = [now EXCEPT ![c] = @ + 1]
    BY <1>2
  <2>6. v \in ChatSet /\ CallsArrive(v, now, handed) /\ SameText(m, v)
    BY <1>4 DEF SameText
  <2> HIDE DEF v, e, now, Now
  <2>7. e.t = "arguments" /\ e.call = c /\ e.n = now[c] + 1 /\ e.named \in BOOLEAN
    BY <1>2, <2>3, <2>4 DEF ArgumentEvent
  <2>8. /\ SameText(v, ConvertChat(v, e))
        /\ CallsArrive(ConvertChat(v, e), [now EXCEPT ![e.call] = @ + 1], handed)
    BY <2>4, <2>6, <2>7, FragmentArrives
  <2> QED
    BY <2>2, <2>5, <2>6, <2>7, <2>8 DEF SameText
<1> HIDE DEF Good
<1>5. 0 \in T
  BY <1>3
<1>6. ASSUME NEW n \in T
      PROVE  n + 1 \in T
  <2>1. n \in Nat /\ (n <= count => Good(n))
    OBVIOUS
  <2>2. n + 1 <= count => n <= count
    BY <2>1
  <2>3. n + 1 <= count => Good(n + 1)
    BY <1>4, <2>1, <2>2
  <2> QED
    BY <2>1, <2>3
<1> HIDE DEF T
<1>7. T \in SUBSET Nat
  BY DEF T
<1>8. T = Nat
  BY <1>5, <1>6, <1>7, NatSets
<1>9. Good(count)
  BY <1>8 DEF T
<1> QED
  BY <1>9 DEF Good, f

-----------------------------------------------------------------------------
(* What run_turn knows.  Each action keeps it, whatever the converters do.  *)

\* The batch of an answer is of its calls.
LEMMA BatchIsOfRound ==
    ASSUME told \in ToldSet
    PROVE  /\ BatchOfRound \in Seq(TurnCalls)
           /\ \A k \in DOMAIN BatchOfRound : BatchOfRound[k] \in OfRound
<1> DEFINE s == [c \in TurnCalls |-> c]
<1>1. OfRound \in SUBSET Nat /\ IsFiniteSet(OfRound) /\ OfRound \subseteq TurnCalls
  <2>1. OfRound \subseteq TurnCalls
    BY DEF OfRound
  <2> QED
    BY <2>1, EgressAssumption, FS_Subset
<1>2. \A k \in OfRound : s[k] = k
  BY <1>1
<1>3. {s[k] : k \in OfRound} = OfRound
  BY <1>2
<1> HIDE DEF s
<1>4. Picked(s, OfRound) \in Seq({s[k] : k \in OfRound})
  BY <1>1, PickedFacts
<1>5. BatchOfRound \in Seq(OfRound)
  BY <1>3, <1>4 DEF BatchOfRound, s
<1>6. ASSUME NEW S, NEW q \in Seq(S), NEW R, S \subseteq R
      PROVE  q \in Seq(R) /\ \A k \in DOMAIN q : q[k] \in S
  BY <1>6
<1> QED
  BY <1>1, <1>5, <1>6

\* The answer goes on and nothing is told of calls.
LEMMA EngineGoesOn ==
    ASSUME EngineInv, ~Over, engine' \in EngineSet, told' \in ToldSet,
           UNCHANGED <<surface, tool>>,
           told'.round = told.round, told'.sent = told.sent, told'.handed = told.handed,
           told.begun => told'.begun,
           engine'.round >= engine.round,
           told'.handed # {} => engine'.at \in {"handing off", "completing", "ended", "exhausted"},
           engine'.at = "handing off" =>
              \A k \in DOMAIN engine'.todo : engine'.todo[k] \notin Searches,
           engine'.at = "start" => engine.at = "start",
           ~Over' => told'.reason = told.reason
    PROVE  EngineInv'
<1>1. Searches' = Searches
  BY DEF Searches
<1>2. ASSUME NEW c \in TurnCalls
      PROVE  /\ told'.round[c] <= engine'.round
             /\ told'.round[c] = 0 => told'.sent[c] = 0
  <2>1. told.round[c] <= engine.round /\ (told.round[c] = 0 => told.sent[c] = 0)
    BY DEF EngineInv, CallsKnown
  <2>2. told.round[c] \in Nat /\ engine.round \in Nat /\ engine'.round \in Nat
    BY DEF EngineInv, EngineSet, ToldSet
  <2>3. told'.round[c] = told.round[c] /\ told'.sent[c] = told.sent[c] /\ engine'.round >= engine.round
    OBVIOUS
  <2> QED
    BY ONLY <2>1, <2>2, <2>3
<1>3. CallsKnown'
  BY <1>1, <1>2 DEF EngineInv, CallsKnown
<1> QED
  BY <1>3 DEF EngineInv

\* A call of the answer is known by its name.
LEMMA NameKnows ==
    ASSUME EngineInv, NEW c \in TurnCalls, NameCall(c)
    PROVE  EngineInv'
<1> DEFINE round == [told.round EXCEPT ![c] = engine.round]
<1>0. engine \in EngineSet /\ told \in ToldSet
  BY DEF EngineInv
<1>1. /\ engine.at = "streaming" /\ UNCHANGED <<surface, tool, engine>>
      /\ told' = [told EXCEPT !.round = round]
      /\ told.round[c] = 0
  BY <1>0 DEF NameCall, At, ToldSet
<1>2. round \in [TurnCalls -> Nat] /\ engine.round \in Nat \ {0}
  BY <1>0 DEF ToldSet, EngineSet
<1>3. \A d \in TurnCalls : round[d] = IF d = c THEN engine.round ELSE told.round[d]
  BY <1>0 DEF ToldSet
<1> HIDE DEF round
<1>4. /\ told' \in ToldSet /\ told'.round = round /\ told'.sent = told.sent
      /\ told'.handed = told.handed /\ told'.begun = told.begun /\ told'.reason = told.reason
  BY <1>0, <1>1, <1>2 DEF ToldSet
<1>5. Searches' = Searches
  BY <1>1 DEF Searches
<1>6. ASSUME NEW d \in TurnCalls
      PROVE  round[d] <= engine.round /\ (round[d] = 0 => told.sent[d] = 0)
  <2>1. told.round[d] <= engine.round /\ (told.round[d] = 0 => told.sent[d] = 0)
    BY DEF EngineInv, CallsKnown
  <2> QED
    BY <1>2, <1>3, <2>1
<1>7. CallsKnown'
  BY <1>1, <1>4, <1>5, <1>6 DEF EngineInv, CallsKnown, Over
<1> QED
  BY <1>1, <1>4, <1>7 DEF EngineInv

\* What is sent of a call is of this answer.
LEMMA StreamKnows ==
    ASSUME EngineInv, NEW c \in TurnCalls, NEW held \in 0..MaxPieces,
           StreamCall(c, held) \/ FlushHeld(c, held)
    PROVE  EngineInv'
<1>0. engine \in EngineSet /\ told \in ToldSet
  BY DEF EngineInv
<1>1. PICK trailing \in {0, 1} : LetThrough(c, held, trailing)
  BY DEF StreamCall, FlushHeld
<1>2. engine.at \in {"streaming", "flushing"} /\ UNCHANGED <<surface, tool, engine>>
  BY DEF StreamCall, FlushHeld, At
<1> DEFINE count == held + trailing
           round == [told.round EXCEPT ![c] = engine.round]
           sent == [told.sent EXCEPT ![c] = @ + count]
           crossed == IF told.sent[c] > 0 /\ told.last # c THEN told.crossed \cup {c} ELSE told.crossed
           begun == told.begun \/ held > 0 \/ tool[c] # "search"
<1>3. told' = [told EXCEPT !.round = round, !.sent = sent, !.begun = begun,
                           !.crossed = crossed, !.last = c]
  BY <1>0, <1>1 DEF LetThrough, ToldSet
<1>4. round \in [TurnCalls -> Nat] /\ engine.round \in Nat \ {0} /\ held \in Nat /\ count \in Nat
  BY <1>0, EgressAssumption DEF ToldSet, EngineSet
<1>5. sent \in [TurnCalls -> Nat]
  BY <1>0, <1>4 DEF ToldSet
<1>6. crossed \in SUBSET TurnCalls /\ begun \in BOOLEAN
  BY <1>0 DEF ToldSet
<1>7. \A d \in TurnCalls : d # c => round[d] = told.round[d] /\ sent[d] = told.sent[d]
  BY <1>0 DEF ToldSet
<1>8. round[c] = engine.round
  BY <1>0 DEF ToldSet
<1> HIDE DEF round, sent, crossed, begun
<1>9. /\ told' \in ToldSet /\ told'.round = round /\ told'.sent = sent
      /\ told'.handed = told.handed /\ told'.reason = told.reason
  BY <1>0, <1>3, <1>4, <1>5, <1>6 DEF ToldSet
<1>10. Searches' = Searches
  BY <1>2 DEF Searches
<1>11. ASSUME NEW d \in TurnCalls
       PROVE  round[d] <= engine.round /\ (round[d] = 0 => sent[d] = 0)
  <2>1. told.round[d] <= engine.round /\ (told.round[d] = 0 => told.sent[d] = 0)
    BY DEF EngineInv, CallsKnown
  <2> QED
    BY <1>4, <1>7, <1>8, <2>1
<1>12. told.handed = {}
  BY <1>2 DEF EngineInv, CallsKnown
<1>13. CallsKnown'
  BY <1>2, <1>9, <1>10, <1>11, <1>12 DEF EngineInv, CallsKnown, Over
<1> QED
  BY <1>2, <1>9, <1>13 DEF EngineInv

\* The first of a sequence and the rest are of it.
LEMMA BothParts ==
    ASSUME NEW S, NEW s \in Seq(S), s # <<>>
    PROVE  /\ Head(s) \in S /\ Tail(s) \in Seq(S)
           /\ \E j \in DOMAIN s : Head(s) = s[j]
           /\ \A k \in DOMAIN Tail(s) : \E j \in DOMAIN s : Tail(s)[k] = s[j]
<1>1. Len(s) \in Nat /\ Len(s) > 0 /\ DOMAIN s = 1..Len(s)
  OBVIOUS
<1>2. 1 \in DOMAIN s /\ Head(s) = s[1] /\ Head(s) \in S
  BY <1>1
<1>3. Tail(s) \in Seq(S) /\ DOMAIN Tail(s) = 1..(Len(s) - 1)
  BY <1>1
<1>4. \A k \in 1..(Len(s) - 1) : k + 1 \in DOMAIN s /\ Tail(s)[k] = s[k + 1]
  BY <1>1
<1> QED
  BY <1>2, <1>3, <1>4

\* A call that is handed off is a client's.
LEMMA HandOffKnows ==
    ASSUME EngineInv, HandOffCall
    PROVE  /\ EngineInv' /\ Head(engine.todo) \in TurnCalls \ Searches
           /\ engine.at = "handing off" /\ engine' = [engine EXCEPT !.todo = Tail(@)]
           /\ engine'.at = "handing off" /\ UNCHANGED <<surface, tool>>
           /\ told'.sent = told.sent /\ told'.handed = told.handed \cup {Head(engine.todo)}
           /\ told'.begun = TRUE /\ told'.crossed = told.crossed
           /\ told'.text = told.text /\ told'.reasoning = told.reasoning
           /\ told'.early = told.early /\ told'.reason = told.reason
<1> DEFINE todo == engine.todo
           c == Head(todo)
           tail == Tail(todo)
           handed == told.handed \cup {c}
<1>0. engine \in EngineSet /\ told \in ToldSet
  BY DEF EngineInv
<1>1. /\ engine.at = "handing off" /\ engine' = [engine EXCEPT !.todo = tail]
      /\ todo # <<>> /\ UNCHANGED <<surface, tool>>
      /\ told' = [told EXCEPT !.handed = handed, !.begun = TRUE]
  BY DEF HandOffCall, At
<1>2. todo \in Seq(TurnCalls) /\ \A k \in DOMAIN todo : todo[k] \notin Searches
  BY <1>0, <1>1 DEF EngineInv, CallsKnown, EngineSet
<1> HIDE DEF todo
<1>3. /\ c \in TurnCalls \ Searches /\ tail \in Seq(TurnCalls)
      /\ \A k \in DOMAIN tail : tail[k] \notin Searches
  <2>1. todo # <<>>
    BY <1>1
  <2>2. /\ c \in TurnCalls /\ tail \in Seq(TurnCalls)
        /\ \E j \in DOMAIN todo : c = todo[j]
        /\ \A k \in DOMAIN tail : \E j \in DOMAIN todo : tail[k] = todo[j]
    BY <1>2, <2>1, BothParts
  <2> HIDE DEF c, tail
  <2> QED
    BY <1>2, <2>2
<1> HIDE DEF c, tail
<1>4. handed \in SUBSET TurnCalls
  BY <1>0, <1>3 DEF ToldSet
<1> HIDE DEF handed
<1>5. /\ engine' \in EngineSet /\ engine'.at = "handing off" /\ engine'.round = engine.round
      /\ engine'.todo = tail
  BY <1>0, <1>1, <1>3 DEF EngineSet
<1>6. /\ told' \in ToldSet /\ told'.handed = handed /\ told'.begun = TRUE
  BY <1>0, <1>1, <1>4 DEF ToldSet
<1>7. /\ told'.round = told.round /\ told'.sent = told.sent /\ told'.reason = told.reason
      /\ told'.crossed = told.crossed /\ told'.text = told.text
      /\ told'.reasoning = told.reasoning /\ told'.early = told.early
  BY <1>0, <1>1 DEF ToldSet
<1>8. Searches' = Searches
  BY <1>1 DEF Searches
<1>9. handed \cap Searches = {}
  BY <1>3 DEF handed, EngineInv, CallsKnown
<1>10. CallsKnown'
  <2>1. ASSUME NEW d \in TurnCalls
        PROVE  told'.round[d] <= engine'.round /\ (told'.round[d] = 0 => told'.sent[d] = 0)
    BY <1>5, <1>7 DEF EngineInv, CallsKnown
  <2>2. \A k \in DOMAIN engine'.todo : engine'.todo[k] \notin Searches'
    BY <1>3, <1>5, <1>8
  <2>3. told'.handed \cap Searches' = {}
    BY <1>6, <1>8, <1>9
  <2>4. told'.reason = "none"
    BY <1>1, <1>7 DEF EngineInv, CallsKnown, Over
  <2> QED
    BY <1>5, <1>6, <2>1, <2>2, <2>3, <2>4 DEF CallsKnown
<1>11. EngineInv'
  BY <1>1, <1>5, <1>6, <1>10 DEF EngineInv
<1> QED
  BY <1>1, <1>3, <1>5, <1>6, <1>7, <1>11 DEF c, handed, tail, todo

\* Which step leaves run_turn where.
LEMMA EngineSteps ==
    ASSUME EngineInv, [EgressNext]_egressVars
    PROVE  EngineInv'
<1>0. engine \in EngineSet /\ told \in ToldSet
  BY DEF EngineInv
<1>1. ASSUME NEW here, NEW next, At(here, next)
      PROVE  engine.at = here /\ engine' = next /\ UNCHANGED <<surface, tool>>
  BY <1>1 DEF At
<1>2. ASSUME NEW to \in Stages
      PROVE  /\ EngineAt(to) \in EngineSet /\ EngineAt(to).at = to
             /\ EngineAt(to).round = engine.round /\ EngineAt(to).todo = engine.todo
  BY <1>0, <1>2 DEF EngineAt, EngineSet
<1>3. engine.round \in Nat \ {0} /\ engine.round >= engine.round
  BY <1>0 DEF EngineSet
<1>4. told.handed # {} => engine.at \in {"handing off", "completing", "ended", "exhausted"}
  BY DEF EngineInv, CallsKnown
<1>5. CASE Created
  <2>1. engine.at = "start" /\ engine' = EngineAt("streaming")
        /\ UNCHANGED <<surface, tool, told>>
    BY <1>5, <1>1 DEF Created
  <2>2. engine' \in EngineSet /\ engine'.at = "streaming" /\ engine'.round = engine.round
    BY <1>2, <2>1 DEF Stages
  <2>3. told.handed = {}
    BY <1>4, <2>1
  <2> QED
    BY <1>0, <1>3, <2>1, <2>2, <2>3, EngineGoesOn DEF Over
<1>6. CASE Reason
  <2> DEFINE next == told.reasoning + 1
             more == Append(told.early, next)
             early == IF told.begun THEN told.early ELSE more
  <2>1. /\ engine.at = "streaming" /\ engine' = [engine EXCEPT !.reasoned = TRUE]
        /\ UNCHANGED <<surface, tool>>
        /\ told' = [told EXCEPT !.reasoning = next, !.early = early]
    BY <1>0, <1>6 DEF Reason, At, ToldSet
  <2>2. next \in Nat /\ early \in Seq(Nat)
    <3>1. told.early \in Seq(Nat) /\ told.reasoning \in Nat
      BY <1>0 DEF ToldSet
    <3> QED
      BY ONLY <3>1
  <2> HIDE DEF early, next
  <2>3. engine' \in EngineSet /\ engine'.at = "streaming" /\ engine'.round = engine.round
    BY <1>0, <2>1 DEF EngineSet
  <2>4. /\ told' \in ToldSet /\ told'.round = told.round /\ told'.sent = told.sent
        /\ told'.handed = told.handed /\ told'.begun = told.begun /\ told'.reason = told.reason
    BY <1>0, <2>1, <2>2 DEF ToldSet
  <2>5. told.handed = {}
    BY <1>4, <2>1
  <2> QED
    BY <1>3, <2>1, <2>3, <2>4, <2>5, EngineGoesOn DEF Over
<1>7. CASE Sign
  <2>1. engine.at = "streaming" /\ UNCHANGED <<surface, tool, engine, told>>
    BY <1>7, <1>1 DEF Sign
  <2>2. told.handed = {}
    BY <1>4, <2>1
  <2> QED
    BY <1>0, <1>3, <2>1, <2>2, EngineGoesOn DEF Over
<1>8. CASE Speak
  <2> DEFINE next == told.text + 1
  <2>1. /\ engine.at = "streaming" /\ engine' = [engine EXCEPT !.spoke = TRUE]
        /\ UNCHANGED <<surface, tool>>
        /\ told' = [told EXCEPT !.text = next, !.begun = TRUE, !.last = NoCall]
    BY <1>0, <1>8 DEF Speak, At, ToldSet
  <2>5. next \in Nat
    BY <1>0 DEF ToldSet
  <2> HIDE DEF next
  <2>2. engine' \in EngineSet /\ engine'.at = "streaming" /\ engine'.round = engine.round
    BY <1>0, <2>1 DEF EngineSet
  <2>3. /\ told' \in ToldSet /\ told'.round = told.round /\ told'.sent = told.sent
        /\ told'.handed = told.handed /\ told'.begun = TRUE /\ told'.reason = told.reason
    BY <1>0, <2>1, <2>5 DEF ToldSet
  <2>4. told.handed = {}
    BY <1>4, <2>1
  <2> QED
    BY <1>3, <2>1, <2>2, <2>3, <2>4, EngineGoesOn DEF Over
<1>9. ASSUME NEW from \in Stages, NEW to \in Stages, Quiet(from, to),
             from \notin {"ended", "exhausted"}, to \notin {"start", "handing off"},
             told.handed # {} => to \in {"completing", "ended", "exhausted"}
      PROVE  EngineInv'
  <2>1. engine.at = from /\ engine' = EngineAt(to) /\ UNCHANGED <<surface, tool, told>>
    BY <1>9, <1>1 DEF Quiet
  <2>2. engine' \in EngineSet /\ engine'.at = to /\ engine'.round = engine.round
    BY <1>2, <2>1
  <2> QED
    BY <1>0, <1>3, <1>9, <2>1, <2>2, EngineGoesOn DEF Over
<1>10. CASE AnswerEnds
  <2>1. engine.at = "streaming"
    BY <1>10, <1>1 DEF AnswerEnds, Quiet
  <2> QED
    BY <1>4, <1>9, <1>10, <2>1 DEF AnswerEnds, Stages
<1>11. CASE Answered
  <2>1. Quiet("handing off", "completing") \/ Quiet("searching", "again")
    BY <1>11 DEF Answered
  <2>2. CASE Quiet("handing off", "completing")
    BY <1>9, <2>2 DEF Stages
  <2>3. CASE Quiet("searching", "again")
    <3>1. engine.at = "searching"
      BY <2>3, <1>1 DEF Quiet
    <3> QED
      BY <1>4, <1>9, <2>3, <3>1 DEF Stages
  <2> QED
    BY <2>1, <2>2, <2>3
<1>12. CASE Vanish
  <2>1. engine.at \notin {"ended", "exhausted"} /\ Quiet(engine.at, "ended")
    BY <1>12 DEF Vanish
  <2>2. engine.at \in Stages /\ "ended" \in Stages
    BY <1>0 DEF EngineSet, Stages
  <2> QED
    BY <1>9, <2>1, <2>2
<1>13. ASSUME NEW to \in Stages, EmitPublicItems(to),
              to \in {"again", "completing", "searching"} \/ (to = "handing off" /\ OfRound \cap Searches = {})
       PROVE  EngineInv'
  <2> DEFINE batch == BatchOfRound
  <2>1. /\ engine.at = "flushing" /\ engine' = [engine EXCEPT !.at = to, !.todo = batch]
        /\ UNCHANGED <<surface, tool, told>>
    BY <1>13 DEF EmitPublicItems, At
  <2>2. batch \in Seq(TurnCalls) /\ \A k \in DOMAIN batch : batch[k] \in OfRound
    BY <1>0, BatchIsOfRound
  <2> HIDE DEF batch
  <2>3. /\ engine' \in EngineSet /\ engine'.at = to /\ engine'.round = engine.round
        /\ engine'.todo = batch
    BY <1>0, <2>1, <2>2 DEF EngineSet
  <2>4. told.handed = {}
    BY <1>4, <2>1
  <2>5. to = "handing off" => \A k \in DOMAIN batch : batch[k] \notin Searches
    BY <1>13, <2>2
  <2>6. to \notin {"start", "ended", "exhausted"} /\ ~Over /\ ~Over'
    BY <1>13, <2>1, <2>3 DEF Over
  <2> QED
    BY <1>0, <1>3, <2>1, <2>3, <2>4, <2>5, <2>6, EngineGoesOn
<1>14. CASE ResolveAnswer
  BY <1>13, <1>14 DEF ResolveAnswer, Stages
<1>15. CASE SearchEnds
  <2>1. /\ engine.at = "searching" /\ engine' = [engine EXCEPT !.todo = Tail(@)]
        /\ engine.todo # <<>> /\ UNCHANGED <<surface, tool, told>>
    BY <1>15 DEF SearchEnds, At
  <2>2. Tail(engine.todo) \in Seq(TurnCalls)
    BY <1>0, <2>1 DEF EngineSet
  <2>3. engine' \in EngineSet /\ engine'.at = "searching" /\ engine'.round = engine.round
    BY <1>0, <2>1, <2>2 DEF EngineSet
  <2>4. told.handed = {}
    BY <1>4, <2>1
  <2> QED
    BY <1>0, <1>3, <2>1, <2>3, <2>4, EngineGoesOn DEF Over
<1>16. CASE NextAnswer
  <2> DEFINE next == engine.round + 1
  <2>1. /\ engine.at = "again"
        /\ engine' = [engine EXCEPT !.at = "streaming", !.round = next,
                                    !.spoke = FALSE, !.reasoned = FALSE]
        /\ UNCHANGED <<surface, tool, told>>
    BY <1>0, <1>16 DEF NextAnswer, At, EngineSet
  <2>4. next \in Nat \ {0} /\ next >= engine.round
    BY <1>3
  <2> HIDE DEF next
  <2>2. engine' \in EngineSet /\ engine'.at = "streaming" /\ engine'.round = next
    BY <1>0, <2>1, <2>4 DEF EngineSet, Stages
  <2>3. told.handed = {} /\ engine'.round >= engine.round
    BY <1>4, <2>1, <2>2, <2>4
  <2> QED
    BY <1>0, <2>1, <2>2, <2>3, EngineGoesOn DEF Over
<1>17. CASE Fail
  <2>1. /\ engine' = EngineAt("ended") /\ UNCHANGED <<surface, tool, told>>
        /\ engine.at \notin {"ended", "exhausted"}
    BY <1>17 DEF Fail, At
  <2>2. engine' \in EngineSet /\ engine'.at = "ended" /\ engine'.round = engine.round
    BY <1>2, <2>1 DEF Stages
  <2> QED
    BY <1>0, <1>3, <2>1, <2>2, EngineGoesOn DEF Over
<1>18. CASE \E reason \in Reasons : CompleteTurn(reason)
  <2>1. PICK reason \in Reasons : CompleteTurn(reason)
    BY <1>18
  <2>2. /\ engine.at = "completing" /\ engine' = EngineAt("ended") /\ UNCHANGED <<surface, tool>>
        /\ told' = [told EXCEPT !.reason = reason]
    BY <2>1 DEF CompleteTurn, At
  <2>3. engine' \in EngineSet /\ engine'.at = "ended" /\ engine'.round = engine.round
    BY <1>2, <2>2 DEF Stages
  <2>4. /\ told' \in ToldSet /\ told'.round = told.round /\ told'.sent = told.sent
        /\ told'.handed = told.handed /\ told'.begun = told.begun
    BY <1>0, <2>2 DEF ToldSet
  <2> QED
    BY <1>3, <2>2, <2>3, <2>4, EngineGoesOn DEF Over
<1>19. CASE Exhausted
  <2>1. /\ engine.at = "ended" /\ engine' = EngineAt("exhausted") /\ UNCHANGED <<surface, tool, told>>
    BY <1>19 DEF Exhausted, At
  <2>2. engine' \in EngineSet /\ engine'.at = "exhausted" /\ engine'.round = engine.round
    BY <1>2, <2>1 DEF Stages
  <2>3. Searches' = Searches
    BY <2>1 DEF Searches
  <2> QED
    BY <2>1, <2>2, <2>3 DEF EngineInv, CallsKnown, Over
<1>20. CASE UNCHANGED egressVars
  BY <1>20 DEF egressVars, EngineInv, CallsKnown, Over, Searches
<1>21. CASE Told
  BY <1>20, <1>21 DEF Told
<1>22. CASE HandOffCall
  BY <1>22, HandOffKnows
<1>23. ASSUME NEW c \in TurnCalls, NameCall(c)
       PROVE  EngineInv'
  BY <1>23, NameKnows
<1>24. ASSUME NEW c \in TurnCalls, NEW held \in 0..MaxPieces, StreamCall(c, held) \/ FlushHeld(c, held)
       PROVE  EngineInv'
  BY <1>24, StreamKnows
<1> QED
  BY <1>5, <1>6, <1>7, <1>8, <1>10, <1>11, <1>12, <1>14, <1>15, <1>16, <1>17, <1>18, <1>19,
     <1>20, <1>21, <1>22, <1>23, <1>24 DEF EgressNext

-----------------------------------------------------------------------------
(* The converters at the steps of run_turn.                                 *)

\* No event leaves both messages as they were.
LEMMA NothingDelivered ==
    ASSUME Deliver(<<>>)
    PROVE  UNCHANGED <<anthropic, chat>>
<1>1. Len(<<>>) = 0
  OBVIOUS
<1>2. \A by, m : After(by, m, <<>>)[0] = m
  BY <1>1, AfterIs
<1> QED
  BY <1>1, <1>2 DEF Deliver

\* One event is converted for the surface of the request.
LEMMA OneDelivered ==
    ASSUME NEW e, Deliver(<<e>>)
    PROVE  IF surface = "anthropic"
           THEN anthropic' = Convert(anthropic, e) /\ UNCHANGED chat
           ELSE chat' = ConvertChat(chat, e) /\ UNCHANGED anthropic
<1> DEFINE events == <<e>>
<1>1. Len(events) = 1 /\ events[1] = e
  OBVIOUS
<1> HIDE DEF events
<1>2. ASSUME NEW by, NEW m
      PROVE  After(by, m, events)[1] = Take(by, m, e)
  <2>1. /\ After(by, m, events)[0] = m
        /\ \A n \in 1..Len(events) :
              After(by, m, events)[n] = Take(by, After(by, m, events)[n - 1], events[n])
    BY <1>1, AfterIs
  <2>2. 1 \in 1..Len(events) /\ 1 - 1 = 0
    BY <1>1
  <2> QED
    BY <1>1, <2>1, <2>2
<1>3. Deliver(events)
  BY DEF events
<1>4. CASE surface = "anthropic"
  BY <1>1, <1>2, <1>3, <1>4 DEF Deliver, Take
<1>5. CASE surface # "anthropic"
  BY <1>1, <1>2, <1>3, <1>5 DEF Deliver, Take
<1> QED
  BY <1>4, <1>5

\* Two events are converted one after the other.
LEMMA TwoDelivered ==
    ASSUME NEW d, NEW e, Deliver(<<d, e>>)
    PROVE  IF surface = "anthropic"
           THEN anthropic' = Convert(Convert(anthropic, d), e) /\ UNCHANGED chat
           ELSE chat' = ConvertChat(ConvertChat(chat, d), e) /\ UNCHANGED anthropic
<1> DEFINE events == <<d, e>>
<1>1. Len(events) = 2 /\ events[1] = d /\ events[2] = e
  OBVIOUS
<1> HIDE DEF events
<1>2. ASSUME NEW by, NEW m
      PROVE  After(by, m, events)[2] = Take(by, Take(by, m, d), e)
  <2>1. /\ After(by, m, events)[0] = m
        /\ \A n \in 1..Len(events) :
              After(by, m, events)[n] = Take(by, After(by, m, events)[n - 1], events[n])
    BY <1>1, AfterIs
  <2>2. 1 \in 1..Len(events) /\ 1 - 1 = 0 /\ 2 \in 1..Len(events) /\ 2 - 1 = 1
    BY <1>1
  <2>3. After(by, m, events)[1] = Take(by, m, d)
    BY <1>1, <2>1, <2>2
  <2> QED
    BY <1>1, <2>1, <2>2, <2>3
<1>3. Deliver(events)
  BY DEF events
<1>4. CASE surface = "anthropic"
  BY <1>1, <1>2, <1>3, <1>4 DEF Deliver, Take
<1>5. CASE surface # "anthropic"
  BY <1>1, <1>2, <1>3, <1>5 DEF Deliver, Take
<1> QED
  BY <1>4, <1>5

\* What a reasoning delta is told as.
LEMMA ReasonIs ==
    ASSUME EngineInv, Reason
    PROVE  /\ engine.at = "streaming" /\ engine'.at = "streaming" /\ engine'.round = engine.round
           /\ UNCHANGED <<surface, tool>> /\ told.reasoning \in Nat
           /\ Deliver(<<[t |-> "reasoning", n |-> told.reasoning + 1]>>)
           /\ told'.reasoning = told.reasoning + 1
           /\ told'.early = IF told.begun THEN told.early ELSE Append(told.early, told.reasoning + 1)
           /\ told'.text = told.text /\ told'.begun = told.begun /\ told'.round = told.round
           /\ told'.sent = told.sent /\ told'.last = told.last /\ told'.crossed = told.crossed
           /\ told'.handed = told.handed /\ told'.reason = told.reason
<1> DEFINE next == told.reasoning + 1
           early == IF told.begun THEN told.early ELSE Append(told.early, next)
<1>1. engine \in EngineSet /\ told \in ToldSet
  BY DEF EngineInv
<1>2. /\ engine.at = "streaming" /\ engine' = [engine EXCEPT !.reasoned = TRUE]
      /\ UNCHANGED <<surface, tool>>
      /\ Deliver(<<[t |-> "reasoning", n |-> next]>>)
      /\ told' = [told EXCEPT !.reasoning = next, !.early = early]
  BY <1>1 DEF Reason, At, ToldSet
<1>3. told.reasoning \in Nat
  BY <1>1 DEF ToldSet
<1> HIDE DEF next, early
<1>4. engine'.at = "streaming" /\ engine'.round = engine.round
  BY <1>1, <1>2 DEF EngineSet
<1>5. told'.reasoning = next /\ told'.early = early
  BY <1>1, <1>2 DEF ToldSet
<1>6. /\ told'.text = told.text /\ told'.begun = told.begun /\ told'.round = told.round
      /\ told'.sent = told.sent /\ told'.last = told.last /\ told'.crossed = told.crossed
      /\ told'.handed = told.handed /\ told'.reason = told.reason
  BY <1>1, <1>2 DEF ToldSet
<1> QED
  BY <1>2, <1>3, <1>4, <1>5, <1>6 DEF next, early

\* What a text delta is told as.
LEMMA SpeakIs ==
    ASSUME EngineInv, Speak
    PROVE  /\ engine.at = "streaming" /\ engine'.at = "streaming" /\ engine'.round = engine.round
           /\ UNCHANGED <<surface, tool>> /\ told.text \in Nat
           /\ \/ Deliver(<<[t |-> "text", n |-> told.text + 1]>>)
              \/ Deliver(<<[t |-> "message added"], [t |-> "text", n |-> told.text + 1]>>)
           /\ told'.text = told.text + 1 /\ told'.begun = TRUE /\ told'.last = NoCall
           /\ told'.reasoning = told.reasoning /\ told'.early = told.early
           /\ told'.round = told.round /\ told'.sent = told.sent /\ told'.crossed = told.crossed
           /\ told'.handed = told.handed /\ told'.reason = told.reason
<1> DEFINE next == told.text + 1
<1>1. engine \in EngineSet /\ told \in ToldSet
  BY DEF EngineInv
<1>2. /\ engine.at = "streaming" /\ engine' = [engine EXCEPT !.spoke = TRUE]
      /\ UNCHANGED <<surface, tool>>
      /\ told' = [told EXCEPT !.text = next, !.begun = TRUE, !.last = NoCall]
  BY <1>1 DEF Speak, At, ToldSet
<1>3. told.text \in Nat
  BY <1>1 DEF ToldSet
<1>4. \/ Deliver(<<[t |-> "text", n |-> next]>>)
      \/ Deliver(<<[t |-> "message added"], [t |-> "text", n |-> next]>>)
  BY DEF Speak
<1> HIDE DEF next
<1>5. engine'.at = "streaming" /\ engine'.round = engine.round
  BY <1>1, <1>2 DEF EngineSet
<1>6. told'.text = next /\ told'.begun = TRUE /\ told'.last = NoCall
  BY <1>1, <1>2 DEF ToldSet
<1>7. /\ told'.reasoning = told.reasoning /\ told'.early = told.early
      /\ told'.round = told.round /\ told'.sent = told.sent /\ told'.crossed = told.crossed
      /\ told'.handed = told.handed /\ told'.reason = told.reason
  BY <1>1, <1>2 DEF ToldSet
<1> QED
  BY <1>2, <1>3, <1>4, <1>5, <1>6, <1>7 DEF next

\* One more of the counted sequence.
LEMMA UpToGrows ==
    ASSUME NEW n \in Nat
    PROVE  Append(UpTo(n), n + 1) = UpTo(n + 1)
BY DEF UpTo

\* What a chat client knows of the turn goes on.
LEMMA ChatGoesOn ==
    ASSUME ChatInv, UNCHANGED <<anthropic, tool>>, chat' \in ChatSet,
           chat'.text = UpTo(told'.text), chat'.reasoning = UpTo(told'.reasoning),
           CallsArrive(chat', told'.sent, told'.handed),
           \/ chat'.ends = <<>>
           \/ chat'.ends = <<"error", "[DONE]">> /\ Over'
           \/ chat'.ends = <<FinishReason(chat', told'.reason), "[DONE]">> /\ Over'
    PROVE  ChatInv'
<1>1. Searches' = Searches
  BY DEF Searches
<1> QED
  BY <1>1 DEF ChatInv, ChatKnows, CallsArrive, FinishReason, Registered, PlacesOf, UpTo

\* What the gate lets through, and what is known of it.
Let(c, held, count) ==
    /\ Deliver([k \in 1..count |-> ArgumentEvent(c, told.sent[c] + k, k > held)])
    /\ Mine(c) /\ (held > 0 => told.sent[c] = 0)
    /\ told'.sent = [told.sent EXCEPT ![c] = @ + count]
    /\ told'.round = [told.round EXCEPT ![c] = engine.round]
    /\ told'.begun <=> told.begun \/ held > 0 \/ tool[c] # "search"
    /\ told'.crossed = IF told.sent[c] > 0 /\ told.last # c THEN told.crossed \cup {c}
                       ELSE told.crossed
    /\ told'.last = c
    /\ told'.text = told.text /\ told'.reasoning = told.reasoning /\ told'.early = told.early
    /\ told'.handed = told.handed /\ told'.reason = told.reason

\* A call that is streamed, or flushed, is let through by the gate.
LEMMA StreamIs ==
    ASSUME EngineInv, NEW c \in TurnCalls, NEW held \in 0..MaxPieces,
           StreamCall(c, held) \/ FlushHeld(c, held)
    PROVE  /\ engine.at \in {"streaming", "flushing"} /\ UNCHANGED <<surface, tool, engine>>
           /\ held \in Nat /\ told.sent \in [TurnCalls -> Nat]
           /\ \E count \in Nat \ {0} : Let(c, held, count)
<1>0. engine \in EngineSet /\ told \in ToldSet /\ told.sent \in [TurnCalls -> Nat]
  BY DEF EngineInv, ToldSet
<1>1. PICK trailing \in {0, 1} : LetThrough(c, held, trailing)
  BY DEF StreamCall, FlushHeld
<1>2. engine.at \in {"streaming", "flushing"} /\ UNCHANGED <<surface, tool, engine>>
  BY DEF StreamCall, FlushHeld, At
<1> DEFINE count == held + trailing
           round == [told.round EXCEPT ![c] = engine.round]
           sent == [told.sent EXCEPT ![c] = @ + count]
           crossed == IF told.sent[c] > 0 /\ told.last # c THEN told.crossed \cup {c} ELSE told.crossed
           begun == told.begun \/ held > 0 \/ tool[c] # "search"
<1>3. told' = [told EXCEPT !.round = round, !.sent = sent, !.begun = begun,
                           !.crossed = crossed, !.last = c]
  BY <1>0, <1>1 DEF LetThrough, ToldSet
<1>4. /\ Deliver([k \in 1..count |-> ArgumentEvent(c, told.sent[c] + k, k > held)])
      /\ Mine(c) /\ (held > 0 => told.sent[c] = 0) /\ count > 0
  BY <1>1 DEF LetThrough
<1>5. held \in Nat /\ count \in Nat \ {0}
  BY <1>4, EgressAssumption
<1> HIDE DEF round, sent, crossed, begun, count
<1>6. /\ told'.round = round /\ told'.sent = sent /\ (told'.begun <=> begun)
      /\ told'.crossed = crossed /\ told'.last = c
  BY <1>0, <1>3 DEF ToldSet
<1>7. /\ told'.text = told.text /\ told'.reasoning = told.reasoning /\ told'.early = told.early
      /\ told'.handed = told.handed /\ told'.reason = told.reason
  BY <1>0, <1>3 DEF ToldSet
<1>8. Let(c, held, count)
  BY <1>4, <1>6, <1>7 DEF Let, round, sent, crossed, begun
<1> QED
  BY <1>0, <1>2, <1>5, <1>8

\* An event that is nothing to a chat client.
LEMMA NothingToChat ==
    ASSUME surface = "chat", NEW e, Deliver(<<e>>),
           e.t \in {"created", "signature", "message done", "search results"}
    PROVE  UNCHANGED <<anthropic, chat>>
<1>1. chat' = ConvertChat(chat, e) /\ UNCHANGED anthropic
  BY OneDelivered
<1>2. ConvertChat(chat, e) = chat
  BY DEF ConvertChat
<1> QED
  BY <1>1, <1>2

\* A message that is added is nothing to a chat client.
LEMMA AddedIsNothing ==
    ASSUME NEW m, NEW e, e.t = "message added"
    PROVE  ConvertChat(m, e) = m
BY DEF ConvertChat

\* What a chat client has once its stream has ended.
LEMMA ChatEnds ==
    ASSUME EngineInv, ChatInv, surface = "chat", ~Over, Over', UNCHANGED tool,
           NEW e, Deliver(<<e>>), NEW ends \in Seq(Endings),
           ConvertChat(chat, e) = [chat EXCEPT !.ends = @ \o ends],
           told'.text = told.text, told'.reasoning = told.reasoning,
           told'.sent = told.sent, told'.handed = told.handed,
           ends \in {<<"error", "[DONE]">>, <<FinishReason(chat, told'.reason), "[DONE]">>}
    PROVE  ChatInv'
<1>1. /\ chat \in ChatSet /\ chat.text = UpTo(told.text) /\ chat.reasoning = UpTo(told.reasoning)
      /\ CallsArrive(chat, told.sent, told.handed)
  BY DEF ChatInv, ChatKnows
<1> DEFINE all == chat.ends \o ends
<1>2. all = ends
  <2>1. chat.ends = <<>>
    BY DEF ChatInv, ChatKnows
  <2>2. <<>> \o ends = ends
    OBVIOUS
  <2> QED
    BY <2>1, <2>2
<1>3. chat' = [chat EXCEPT !.ends = all] /\ UNCHANGED anthropic
  BY <1>1, OneDelivered DEF ChatSet
<1> HIDE DEF all
<1>4. /\ chat' \in ChatSet /\ chat'.ends = ends /\ chat'.text = chat.text
      /\ chat'.reasoning = chat.reasoning /\ chat'.calls = chat.calls
  BY <1>1, <1>2, <1>3 DEF ChatSet
<1>5. CallsArrive(chat', told'.sent, told'.handed)
  BY <1>1, <1>4 DEF CallsArrive, Registered, PlacesOf
<1>6. FinishReason(chat', told'.reason) = FinishReason(chat, told'.reason)
  BY <1>4 DEF FinishReason
<1> QED
  BY <1>1, <1>3, <1>4, <1>5, <1>6, ChatGoesOn

\* What a chat client has at every step.
LEMMA ChatSteps ==
    ASSUME EngineInv, ChatInv, surface = "chat", [EgressNext]_egressVars
    PROVE  ChatInv'
<1>0. /\ told \in ToldSet /\ engine \in EngineSet /\ chat \in ChatSet
      /\ told.sent \in [TurnCalls -> Nat]
  BY DEF EngineInv, ChatInv, ToldSet
<1>1. /\ chat.text = UpTo(told.text) /\ chat.reasoning = UpTo(told.reasoning)
      /\ CallsArrive(chat, told.sent, told.handed)
  BY DEF ChatInv, ChatKnows
<1>2. ASSUME ~Over
      PROVE  chat.ends = <<>>
  BY <1>2 DEF ChatInv, ChatKnows
<1>3. ASSUME UNCHANGED <<anthropic, chat, tool>>, ~Over, told'.text = told.text,
             told'.reasoning = told.reasoning, told'.sent = told.sent,
             told'.handed = told.handed
      PROVE  ChatInv'
  BY <1>0, <1>1, <1>2, <1>3, ChatGoesOn
<1>6. CASE Created
  <2>1. ~Over /\ UNCHANGED <<tool, told>> /\ Deliver(<<[t |-> "created"]>>)
    BY <1>6 DEF Created, At, Over
  <2> DEFINE e == [t |-> "created"]
  <2>2. e.t = "created" /\ Deliver(<<e>>)
    BY <2>1
  <2> HIDE DEF e
  <2>3. UNCHANGED <<anthropic, chat>>
    BY <2>2, NothingToChat
  <2> QED
    BY <1>3, <2>1, <2>3
<1>7. CASE Sign
  <2>1. ~Over /\ UNCHANGED <<tool, told>> /\ Deliver(<<[t |-> "signature"]>>)
    BY <1>7 DEF Sign, At, Over
  <2> DEFINE e == [t |-> "signature"]
  <2>2. e.t = "signature" /\ Deliver(<<e>>)
    BY <2>1
  <2> HIDE DEF e
  <2>3. UNCHANGED <<anthropic, chat>>
    BY <2>2, NothingToChat
  <2> QED
    BY <1>3, <2>1, <2>3
<1>8. CASE SearchEnds
  <2>1. ~Over /\ UNCHANGED <<tool, told>> /\ Deliver(<<[t |-> "search results"]>>)
    BY <1>8 DEF SearchEnds, At, Over
  <2> DEFINE e == [t |-> "search results"]
  <2>2. e.t = "search results" /\ Deliver(<<e>>)
    BY <2>1
  <2> HIDE DEF e
  <2>3. UNCHANGED <<anthropic, chat>>
    BY <2>2, NothingToChat
  <2> QED
    BY <1>3, <2>1, <2>3
<1>9. ASSUME NEW to, EmitPublicItems(to)
      PROVE  ChatInv'
  <2> DEFINE e == [t |-> "message done"]
  <2>1. ~Over /\ UNCHANGED <<tool, told>> /\ (Deliver(<<e>>) \/ Deliver(<<>>))
    BY <1>9 DEF EmitPublicItems, At, Over
  <2>2. e.t = "message done"
    OBVIOUS
  <2> HIDE DEF e
  <2>3. UNCHANGED <<anthropic, chat>>
    <3>1. CASE Deliver(<<e>>)
      BY <2>2, <3>1, NothingToChat
    <3>2. CASE Deliver(<<>>)
      BY <3>2, NothingDelivered
    <3> QED
      BY <2>1, <3>1, <3>2
  <2> QED
    BY <1>3, <2>1, <2>3
<1>10. CASE ResolveAnswer
  BY <1>9, <1>10 DEF ResolveAnswer
<1>11. CASE Reason
  <2> DEFINE e == [t |-> "reasoning", n |-> told.reasoning + 1]
             w == [chat EXCEPT !.reasoning = Append(@, e.n)]
             reasoning == Append(chat.reasoning, told.reasoning + 1)
  <2>1. /\ engine.at = "streaming" /\ UNCHANGED tool /\ told.reasoning \in Nat
        /\ Deliver(<<e>>) /\ told'.reasoning = told.reasoning + 1
        /\ told'.text = told.text /\ told'.sent = told.sent /\ told'.handed = told.handed
    BY <1>11, ReasonIs
  <2>2. chat' = ConvertChat(chat, e) /\ UNCHANGED anthropic
    BY <2>1, OneDelivered
  <2>3. ConvertChat(chat, e) = [chat EXCEPT !.reasoning = reasoning]
    BY <1>0 DEF ConvertChat, ChatSet
  <2>4. reasoning = UpTo(told.reasoning + 1) /\ reasoning \in Seq(Nat)
    <3>1. told.reasoning + 1 \in Nat
      BY <2>1
    <3>2. UpTo(told.reasoning + 1) \in Seq(Nat)
      BY <3>1, UpToIs
    <3>3. Append(UpTo(told.reasoning), told.reasoning + 1) = UpTo(told.reasoning + 1)
      BY <2>1, UpToGrows
    <3> QED
      BY <1>1, <3>2, <3>3
  <2> HIDE DEF e, reasoning
  <2>5. /\ chat' \in ChatSet /\ chat'.reasoning = reasoning /\ chat'.text = chat.text
        /\ chat'.calls = chat.calls /\ chat'.ends = chat.ends
    BY <1>0, <2>2, <2>3, <2>4 DEF ChatSet
  <2>6. CallsArrive(chat', told'.sent, told'.handed)
    BY <1>1, <2>1, <2>5 DEF CallsArrive, Registered, PlacesOf
  <2>7. chat'.ends = <<>>
    BY <1>2, <2>1, <2>5 DEF Over
  <2> QED
    BY <1>1, <2>1, <2>2, <2>4, <2>5, <2>6, <2>7, ChatGoesOn
<1>12. CASE Speak
  <2> DEFINE d == [t |-> "message added"]
             e == [t |-> "text", n |-> told.text + 1]
             text == Append(chat.text, told.text + 1)
  <2>1. /\ engine.at = "streaming" /\ UNCHANGED tool /\ told.text \in Nat
        /\ Deliver(<<e>>) \/ Deliver(<<d, e>>)
        /\ told'.text = told.text + 1
        /\ told'.reasoning = told.reasoning /\ told'.sent = told.sent /\ told'.handed = told.handed
    BY <1>12, SpeakIs
  <2>2. d.t = "message added"
    OBVIOUS
  <2>3. ConvertChat(chat, e) = [chat EXCEPT !.text = text]
    BY <1>0 DEF ConvertChat, ChatSet
  <2>4. text = UpTo(told.text + 1) /\ text \in Seq(Nat)
    <3>1. told.text + 1 \in Nat
      BY <1>0 DEF ToldSet
    <3>2. UpTo(told.text + 1) \in Seq(Nat)
      BY <3>1, UpToIs
    <3>3. Append(UpTo(told.text), told.text + 1) = UpTo(told.text + 1)
      BY <2>1, UpToGrows
    <3> QED
      BY <1>1, <3>2, <3>3
  <2> HIDE DEF d, e, text
  <2>5. chat' = ConvertChat(chat, e) /\ UNCHANGED anthropic
    <3>1. CASE Deliver(<<e>>)
      BY <3>1, OneDelivered
    <3>2. CASE Deliver(<<d, e>>)
      <4>1. chat' = ConvertChat(ConvertChat(chat, d), e) /\ UNCHANGED anthropic
        BY <3>2, TwoDelivered
      <4>2. ConvertChat(chat, d) = chat
        BY <2>2, AddedIsNothing
      <4> QED
        BY <4>1, <4>2
    <3> QED
      BY <2>1, <3>1, <3>2
  <2>6. /\ chat' \in ChatSet /\ chat'.text = text /\ chat'.reasoning = chat.reasoning
        /\ chat'.calls = chat.calls /\ chat'.ends = chat.ends
    BY <1>0, <2>3, <2>4, <2>5 DEF ChatSet
  <2>7. CallsArrive(chat', told'.sent, told'.handed)
    BY <1>1, <2>1, <2>6 DEF CallsArrive, Registered, PlacesOf
  <2>8. chat'.ends = <<>>
    BY <1>2, <2>1, <2>6 DEF Over
  <2> QED
    BY <1>1, <2>1, <2>4, <2>5, <2>6, <2>7, <2>8, ChatGoesOn
<1>13. ASSUME NEW c \in TurnCalls, NameCall(c)
       PROVE  ChatInv'
  <2>1. /\ ~Over /\ UNCHANGED tool /\ UNCHANGED <<anthropic, chat>>
        /\ told' = [told EXCEPT !.round[c] = engine.round]
    BY <1>13, NothingDelivered DEF NameCall, At, Over
  <2>2. /\ told'.text = told.text /\ told'.reasoning = told.reasoning
        /\ told'.sent = told.sent /\ told'.handed = told.handed
    BY <1>0, <2>1 DEF ToldSet
  <2> QED
    BY <1>3, <2>1, <2>2
<1>14. ASSUME NEW c \in TurnCalls, NEW held \in 0..MaxPieces, StreamCall(c, held) \/ FlushHeld(c, held)
       PROVE  ChatInv'
  <2>1. /\ engine.at \in {"streaming", "flushing"} /\ UNCHANGED <<surface, tool, engine>>
        /\ held \in Nat /\ \E count \in Nat \ {0} : Let(c, held, count)
    BY <1>14, StreamIs
  <2>2. PICK count \in Nat \ {0} : Let(c, held, count)
    BY <2>1
  <2> DEFINE events == [k \in 1..count |-> ArgumentEvent(c, told.sent[c] + k, k > held)]
             now == [told.sent EXCEPT ![c] = @ + count]
  <2>3. /\ Deliver(events) /\ told'.sent = now /\ told'.handed = told.handed
        /\ told'.text = told.text /\ told'.reasoning = told.reasoning
    BY <2>2 DEF Let
  <2>4. Len(events) = count /\ \A k \in 1..count : events[k] = ArgumentEvent(c, told.sent[c] + k, k > held)
    OBVIOUS
  <2> HIDE DEF events, now
  <2>5. chat' = After("chat", chat, events)[count] /\ UNCHANGED anthropic
    BY <2>3, <2>4 DEF Deliver
  <2>6. SameText(chat, chat') /\ CallsArrive(chat', now, told.handed)
    <3>1. Gated(events, c, told.sent[c], held, count)
      BY <2>4 DEF Gated
    <3>2. held \in Nat /\ count \in Nat
      BY <2>1
    <3> DEFINE w == After("chat", chat, events)[count]
    <3>3. SameText(chat, w) /\ CallsArrive(w, [told.sent EXCEPT ![c] = @ + count], told.handed)
      BY <1>0, <1>1, <3>1, <3>2, LetThroughArrives
    <3>4. CallsArrive(w, now, told.handed)
      BY <3>3 DEF now
    <3> HIDE DEF w
    <3>5. chat' = w
      BY <2>5 DEF w
    <3> QED
      BY <3>3, <3>4, <3>5
  <2>7. ~Over
    BY <2>1 DEF Over
  <2> QED
    BY <1>1, <1>2, <2>1, <2>3, <2>5, <2>6, <2>7, ChatGoesOn DEF SameText
<1>15. CASE HandOffCall
  <2> DEFINE c == Head(engine.todo)
             e == [t |-> "arguments done", call |-> c, tool |-> tool[c], named |-> TRUE,
                   pieces |-> UpTo(told.sent[c])]
             i == [e EXCEPT !.t = "call done"]
             v == ConvertChat(chat, e)
  <2>1. /\ c \in TurnCalls /\ engine.at = "handing off" /\ UNCHANGED <<surface, tool>>
        /\ told'.sent = told.sent /\ told'.handed = told.handed \cup {c}
        /\ told'.text = told.text /\ told'.reasoning = told.reasoning
    BY <1>15, HandOffKnows
  <2>2. Deliver(<<e, i>>)
    BY <1>15 DEF HandOffCall
  <2>3. e.t = "arguments done" /\ e.call = c /\ e.named = TRUE /\ e.pieces = UpTo(told.sent[c])
    OBVIOUS
  <2>4. i.t = "call done" /\ i.call = c /\ i.named = TRUE /\ i.pieces = UpTo(told.sent[c])
    OBVIOUS
  <2> HIDE DEF c, e, i
  <2>5. chat' = ConvertChat(v, i) /\ UNCHANGED anthropic
    BY <2>2, TwoDelivered
  <2>6. SameText(chat, v) /\ CallsArrive(v, told.sent, told.handed \cup {c})
    <3> DEFINE sent == told.sent
               handed == told.handed
    <3>1. /\ chat \in ChatSet /\ sent \in [TurnCalls -> Nat] /\ CallsArrive(chat, sent, handed)
          /\ e.t \in {"arguments done", "call done"} /\ e.call \in TurnCalls
          /\ e.pieces = UpTo(sent[e.call]) /\ e.named = TRUE
      BY <1>0, <1>1, <2>1, <2>3
    <3> HIDE DEF sent, handed
    <3>2. EndOfCall(e, c, sent[c])
      BY <3>1, <2>3, <2>4 DEF EndOfCall
    <3>3. SameText(chat, ConvertChat(chat, e)) /\ CallsArrive(ConvertChat(chat, e), sent, handed \cup {c})
      BY <2>1, <3>1, <3>2, EndOfCallArrives
    <3> QED
      BY <3>3 DEF sent, handed
  <2> HIDE DEF v
  <2>7. SameText(v, chat') /\ CallsArrive(chat', told.sent, (told.handed \cup {c}) \cup {c})
    <3> DEFINE sent == told.sent
               handed == told.handed \cup {c}
    <3>1. /\ v \in ChatSet /\ sent \in [TurnCalls -> Nat] /\ CallsArrive(v, sent, handed)
          /\ i.t \in {"arguments done", "call done"} /\ i.call \in TurnCalls
          /\ i.pieces = UpTo(sent[i.call]) /\ i.named = TRUE
      BY <1>0, <2>1, <2>4, <2>6 DEF SameText
    <3> HIDE DEF sent, handed
    <3>2. EndOfCall(i, c, sent[c])
      BY <3>1, <2>3, <2>4 DEF EndOfCall
    <3>3. SameText(v, ConvertChat(v, i)) /\ CallsArrive(ConvertChat(v, i), sent, handed \cup {c})
      BY <2>1, <3>1, <3>2, EndOfCallArrives
    <3> QED
      BY <2>5, <3>3 DEF sent, handed
  <2>8. (told.handed \cup {c}) \cup {c} = told.handed \cup {c}
    OBVIOUS
  <2>9. ~Over
    BY <2>1 DEF Over
  <2> QED
    BY <1>1, <1>2, <2>1, <2>5, <2>6, <2>7, <2>8, <2>9, ChatGoesOn DEF SameText
<1>16. ASSUME NEW from, NEW to, Quiet(from, to), from \notin {"ended", "exhausted"}
       PROVE  ChatInv'
  <2>1. ~Over /\ UNCHANGED <<anthropic, chat, tool, told>>
    BY <1>16 DEF Quiet, At, Over
  <2> QED
    BY <1>3, <2>1
<1>17. CASE AnswerEnds \/ Answered
  BY <1>16, <1>17 DEF AnswerEnds, Answered
<1>18. CASE NextAnswer
  <2>1. ~Over /\ UNCHANGED <<anthropic, chat, tool, told>>
    BY <1>18 DEF NextAnswer, At, Over
  <2> QED
    BY <1>3, <2>1
<1>19. CASE Vanish
  BY <1>16, <1>19 DEF Vanish
<1>21. CASE \E reason \in Reasons : CompleteTurn(reason)
  <2>1. PICK reason \in Reasons : CompleteTurn(reason)
    BY <1>21
  <2> DEFINE e == [t |-> "completed", reason |-> reason]
             last == FinishReason(chat, reason)
             ends == <<last, "[DONE]">>
  <2>2. /\ engine.at = "completing" /\ engine' = EngineAt("ended") /\ UNCHANGED tool
        /\ Deliver(<<e>>) /\ told' = [told EXCEPT !.reason = reason]
    BY <2>1 DEF CompleteTurn, At
  <2>3. e.t = "completed" /\ e.reason = reason
    OBVIOUS
  <2>4. ends \in Seq(Endings)
    <3>1. last \in Endings /\ "[DONE]" \in Endings
      BY DEF FinishReason, Endings
    <3> QED
      BY <3>1
  <2> HIDE DEF e
  <2>5. ConvertChat(chat, e) = [chat EXCEPT !.ends = @ \o ends]
    BY <2>3 DEF ConvertChat
  <2>6. /\ told'.text = told.text /\ told'.reasoning = told.reasoning
        /\ told'.sent = told.sent /\ told'.handed = told.handed /\ told'.reason = reason
    BY <1>0, <2>2 DEF ToldSet
  <2>7. ~Over /\ Over'
    BY <1>0, <2>2 DEF Over, EngineAt, EngineSet
  <2>8. ends = <<FinishReason(chat, told'.reason), "[DONE]">>
    BY <2>6
  <2> HIDE DEF last, ends
  <2> QED
    BY <2>2, <2>4, <2>5, <2>6, <2>7, <2>8, ChatEnds
<1>22. CASE Fail
  <2> DEFINE e == [t |-> "failed"]
             ends == <<"error", "[DONE]">>
  <2>1. /\ ~Over /\ engine' = EngineAt("ended") /\ UNCHANGED <<tool, told>> /\ Deliver(<<e>>)
    BY <1>22 DEF Fail, At, Over
  <2>2. e.t = "failed"
    OBVIOUS
  <2> HIDE DEF e
  <2>3. ConvertChat(chat, e) = [chat EXCEPT !.ends = @ \o ends]
    BY <2>2 DEF ConvertChat
  <2>4. ends \in Seq(Endings) /\ ends = <<"error", "[DONE]">>
    BY DEF Endings
  <2>5. Over'
    BY <1>0, <2>1 DEF Over, EngineAt, EngineSet
  <2>6. /\ told'.text = told.text /\ told'.reasoning = told.reasoning
        /\ told'.sent = told.sent /\ told'.handed = told.handed
    BY <2>1
  <2> HIDE DEF ends
  <2> QED
    BY <2>1, <2>3, <2>4, <2>5, <2>6, ChatEnds
<1>23. CASE Exhausted
  <2>1. /\ engine.at = "ended" /\ engine' = EngineAt("exhausted")
        /\ UNCHANGED <<anthropic, chat, tool, told>>
    BY <1>23 DEF Exhausted, At
  <2>2. Over'
    BY <1>0, <2>1 DEF Over, EngineAt, EngineSet
  <2>3. \/ chat.ends = <<>> \/ chat.ends = <<"error", "[DONE]">>
        \/ chat.ends = <<FinishReason(chat, told.reason), "[DONE]">>
    BY DEF ChatInv, ChatKnows
  <2> QED
    BY <1>0, <1>1, <2>1, <2>2, <2>3, ChatGoesOn
<1>24. CASE UNCHANGED egressVars
  <2>1. UNCHANGED <<anthropic, chat, tool, told, engine>>
    BY <1>24 DEF egressVars
  <2>2. \/ chat.ends = <<>> \/ (chat.ends = <<"error", "[DONE]">> /\ Over)
        \/ (chat.ends = <<FinishReason(chat, told.reason), "[DONE]">> /\ Over)
    BY DEF ChatInv, ChatKnows
  <2>3. Over' <=> Over
    BY <2>1 DEF Over
  <2> QED
    BY <1>0, <1>1, <2>1, <2>2, <2>3, ChatGoesOn
<1> QED
  BY <1>6, <1>7, <1>8, <1>10, <1>11, <1>12, <1>13, <1>14, <1>15, <1>17, <1>18, <1>19, <1>21,
     <1>22, <1>23, <1>24 DEF EgressNext, Told

\* What the client has of a call that is not touched.
LEMMA CallToldKept ==
    ASSUME NEW m, NEW w, NEW but, CallsKept(m, w, but), NEW d, d \notin {NoCall, but},
           NEW n, NEW x, CallTold(m, d, n, x)
    PROVE  CallTold(w, d, n, x)
<1>1. ASSUME NEW k \in DOMAIN w.blocks, w.blocks[k].call = d
      PROVE  \E i \in 0..n :
                /\ w.blocks[k].pieces = UpTo(i)
                /\ ~x \/ w.blocks[k].open => i = n
  <2>1. k \in DOMAIN m.blocks
    BY <1>1 DEF CallsKept
  <2>2. /\ m.blocks[k].call = d /\ w.blocks[k].pieces = m.blocks[k].pieces
        /\ w.blocks[k].open => m.blocks[k].open
    BY <1>1, <2>1 DEF CallsKept
  <2>3. PICK i \in 0..n : m.blocks[k].pieces = UpTo(i) /\ (~x \/ m.blocks[k].open => i = n)
    BY <2>1, <2>2 DEF CallTold
  <2> QED
    BY <2>2, <2>3
<1>2. ASSUME \A k \in DOMAIN w.blocks : w.blocks[k].call # d
      PROVE  n = 0
  <2>1. \A k \in DOMAIN m.blocks : m.blocks[k].call # d
    BY <1>2 DEF CallsKept
  <2> QED
    BY <2>1 DEF CallTold
<1> QED
  BY <1>1, <1>2 DEF CallTold

\* A stream that has no end is not over.
LEMMA NotEnded ==
    ASSUME NEW m, NEW reason, EndsWell(m, reason), m.ends = <<>>
    PROVE  ~m.over /\ reason = "none"
<1>1. \A a, b : <<>> # <<a>> /\ <<>> # <<a, b>>
  OBVIOUS
<1> QED
  BY <1>1 DEF EndsWell

\* What an Anthropic client knows of the turn goes on.
LEMMA TellsOn ==
    ASSUME EngineInv, AnthropicInv, UNCHANGED <<chat, tool>>,
           told'.sent = told.sent, told'.crossed = told.crossed, told'.handed = told.handed,
           anthropic' \in MessageSet, Shape(anthropic'), Backed(anthropic'),
           CallsKept(anthropic, anthropic', NoCall),
           Texts(anthropic') = UpTo(told'.text), Thoughts(anthropic') = told'.early,
           ~Over' => (told'.begun <=> anthropic'.content),
           anthropic'.emitted = anthropic.emitted,
           told.handed # {} => anthropic'.tools,
           \A c \in TurnCalls \ Searches : StaysOpen(c)',
           EndsWell(anthropic', told'.reason), ~Over' => anthropic'.ends = <<>>,
           engine'.at = "exhausted" => anthropic'.ends # <<>>
    PROVE  AnthropicInv'
<1>1. Searches' = Searches
  BY DEF Searches
<1>2. AnthropicKnows
  BY DEF AnthropicInv
<1>3. ASSUME NEW c \in TurnCalls \ Searches
      PROVE  ClientKnows(c)'
  <2>1. ClientKnows(c)
    BY <1>2 DEF AnthropicKnows
  <2>2. c # NoCall
    BY EgressAssumption DEF NoCall
  <2>3. CallTold(anthropic', c, told.sent[c], c \in told.crossed)
    BY <2>1, <2>2, CallToldKept DEF ClientKnows
  <2>4. told.sent[c] = 0 /\ c \notin told.handed =>
           \A k \in DOMAIN anthropic'.blocks : anthropic'.blocks[k].call # c
    BY <2>1, <2>2 DEF ClientKnows, CallsKept
  <2>5. CallTold(anthropic', c, told'.sent[c], c \in told'.crossed)
    BY <2>3
  <2>6. StaysOpen(c)'
    OBVIOUS
  <2> QED
    BY <2>4, <2>5, <2>6 DEF ClientKnows, CallTold, UpTo
<1>4. /\ chat' = NewChat /\ anthropic'.emitted = told'.handed
      /\ told'.handed # {} => anthropic'.tools
  BY <1>2 DEF AnthropicKnows
<1>5. (\A c \in TurnCalls \ Searches : ClientKnows(c))'
  BY <1>1, <1>3
<1>6. (Shape(anthropic) /\ Backed(anthropic))'
  BY DEF Shape, BlockFits, Backed
<1>7. (Texts(anthropic) = UpTo(told.text) /\ Thoughts(anthropic) = told.early)'
  BY DEF Texts, Thoughts, PiecesOf, Shown, PieceOf, UpTo
<1>8. EndsWell(anthropic, told.reason)'
  BY DEF EndsWell, StopReason
<1> HIDE DEF Over
<1> QED
  BY <1>4, <1>5, <1>6, <1>7, <1>8 DEF AnthropicInv, AnthropicKnows, NewChat

\* What a step that changes nothing a client is told of leaves it with.
LEMMA KeepsTelling ==
    ASSUME EngineInv, AnthropicInv, ~Over, Keeps(anthropic, anthropic', NoCall),
           anthropic'.content = anthropic.content, UNCHANGED <<chat, tool>>,
           told'.text = told.text, told'.early = told.early, told'.begun = told.begun,
           told'.sent = told.sent, told'.crossed = told.crossed, told'.handed = told.handed,
           told'.reason = told.reason, engine'.at # "exhausted",
           \A c \in TurnCalls \ Searches : StaysOpen(c)'
    PROVE  AnthropicInv'
<1>1. AnthropicKnows
  BY DEF AnthropicInv
<1>2. /\ anthropic' \in MessageSet /\ Shape(anthropic') /\ CallsKept(anthropic, anthropic', NoCall)
      /\ anthropic'.emitted = anthropic.emitted /\ anthropic'.ends = anthropic.ends
      /\ anthropic'.over = anthropic.over /\ anthropic'.tools = anthropic.tools
      /\ Texts(anthropic') = Texts(anthropic) /\ Thoughts(anthropic') = Thoughts(anthropic)
  BY DEF Keeps
<1>3. Backed(anthropic')
  BY <1>1, KeepsBacked DEF AnthropicKnows
<1>4. anthropic'.ends = <<>> /\ EndsWell(anthropic', told'.reason)
  <2>1. anthropic.ends = <<>> /\ EndsWell(anthropic, told.reason)
    BY <1>1 DEF AnthropicKnows
  <2>2. ~anthropic.over /\ told.reason = "none"
    BY <2>1, NotEnded
  <2> QED
    BY <1>2, <2>1, <2>2 DEF EndsWell
<1>5. /\ Texts(anthropic') = UpTo(told'.text) /\ Thoughts(anthropic') = told'.early
      /\ told'.begun <=> anthropic'.content
      /\ told.handed # {} => anthropic'.tools
  BY <1>1, <1>2 DEF AnthropicKnows
<1> QED
  BY <1>2, <1>3, <1>4, <1>5, TellsOn

\* A block that stays open while its answer does.
LEMMA StillOpen ==
    ASSUME AnthropicInv, engine.at \in {"streaming", "flushing"},
           engine'.round = engine.round, UNCHANGED <<tool>>,
           told'.round = told.round, told'.sent = told.sent, told'.last = told.last,
           told'.crossed = told.crossed,
           anthropic'.blocks = anthropic.blocks, anthropic'.open = anthropic.open
    PROVE  \A c \in TurnCalls \ Searches : StaysOpen(c)'
<1> TAKE c \in TurnCalls \ Searches
<1>1. StaysOpen(c)
  BY DEF AnthropicInv, AnthropicKnows, ClientKnows
<1> QED
  BY <1>1 DEF StaysOpen, IsOpen, LastBlock

\* No block needs to stay open outside an answer.
LEMMA NoneStaysOpen ==
    ASSUME engine'.at \notin {"streaming", "flushing"}
    PROVE  \A c : StaysOpen(c)'
BY DEF StaysOpen

\* What a client knows once its stream has ended.
LEMMA EndTells ==
    ASSUME EngineInv, AnthropicInv, Ends(anthropic, anthropic'), Over', UNCHANGED <<chat, tool>>,
           told'.text = told.text, told'.early = told.early, told'.sent = told.sent,
           told'.crossed = told.crossed, told'.handed = told.handed,
           EndsWell(anthropic', told'.reason), anthropic'.ends # <<>>
    PROVE  AnthropicInv'
<1>1. AnthropicKnows
  BY DEF AnthropicInv
<1>2. /\ anthropic' \in MessageSet /\ Shape(anthropic') /\ CallsKept(anthropic, anthropic', NoCall)
      /\ anthropic'.emitted = anthropic.emitted /\ anthropic'.tools = anthropic.tools
      /\ Texts(anthropic') = Texts(anthropic) /\ Thoughts(anthropic') = Thoughts(anthropic)
  BY DEF Ends
<1>3. Backed(anthropic')
  <2>1. Backed(anthropic)
    BY <1>1 DEF AnthropicKnows
  <2> QED
    BY <1>2, <2>1 DEF Backed, CallsKept
<1>4. \A c \in TurnCalls \ Searches : StaysOpen(c)'
  BY NoneStaysOpen DEF Over
<1>5. /\ Texts(anthropic') = UpTo(told'.text) /\ Thoughts(anthropic') = told'.early
      /\ told.handed # {} => anthropic'.tools
  BY <1>1, <1>2 DEF AnthropicKnows
<1> QED
  BY <1>2, <1>3, <1>4, <1>5, TellsOn

\* What the client has of a call whose block is the open one.
LEMMA OpenIsTold ==
    ASSUME NEW w \in MessageSet, Shape(w), NEW c \in TurnCalls, IsOpen(w, "tool_use", c),
           NEW n \in Nat, LastBlock(w).pieces = UpTo(n), NEW x
    PROVE  CallTold(w, c, n, x)
<1>1. w.blocks # <<>> /\ Len(w.blocks) \in Nat /\ DOMAIN w.blocks = 1..Len(w.blocks)
  BY BlocksAre DEF IsOpen, Shape
<1>2. Len(w.blocks) \in DOMAIN w.blocks
  <2>1. w.blocks \in Seq(BlockSet)
    BY BlocksAre
  <2> QED
    BY ONLY <1>1, <2>1
<1>3. c # NoCall
  BY EgressAssumption DEF NoCall
<1>4. w.blocks[Len(w.blocks)].call = c /\ w.blocks[Len(w.blocks)].pieces = UpTo(n)
  BY DEF IsOpen, LastBlock
<1>5. ASSUME NEW k \in DOMAIN w.blocks, w.blocks[k].call = c
      PROVE  k = Len(w.blocks)
  BY <1>2, <1>3, <1>4, <1>5 DEF Shape, BlockFits
<1>6. n \in 0..n
  OBVIOUS
<1> QED
  BY <1>2, <1>4, <1>5, <1>6 DEF CallTold

\* What the client has of a call that has more fragments than its closed block.
LEMMA ClosedIsTold ==
    ASSUME NEW m \in MessageSet, Shape(m), NEW c \in m.closed, NEW n \in Nat, NEW x,
           CallTold(m, c, n, x), NEW w, w.blocks = m.blocks, NEW more \in Nat
    PROVE  CallTold(w, c, n + more, TRUE)
<1>1. c # NoCall
  BY EgressAssumption DEF NoCall, MessageSet
<1>2. PICK k \in DOMAIN m.blocks : m.blocks[k].call = c
  BY DEF Shape
<1>3. ASSUME NEW j \in DOMAIN m.blocks, m.blocks[j].call = c
      PROVE  ~m.blocks[j].open /\ \E i \in 0..(n + more) : m.blocks[j].pieces = UpTo(i)
  <2>1. m.blocks[j].call \in m.closed <=> ~m.blocks[j].open
    BY <1>1, <1>3 DEF Shape, BlockFits
  <2>2. PICK i \in 0..n : m.blocks[j].pieces = UpTo(i)
    BY <1>3 DEF CallTold
  <2>3. i \in 0..(n + more)
    OBVIOUS
  <2> QED
    BY <1>3, <2>1, <2>2, <2>3
<1>4. ASSUME NEW j \in DOMAIN w.blocks, w.blocks[j].call = c
      PROVE  \E i \in 0..(n + more) :
                w.blocks[j].pieces = UpTo(i) /\ (~TRUE \/ w.blocks[j].open => i = n + more)
  BY <1>3, <1>4
<1> QED
  BY <1>2, <1>4 DEF CallTold

\* The open block of a call that is the client's has all its fragments.
LEMMA OpenHasAll ==
    ASSUME NEW m \in MessageSet, Shape(m), NEW c \in TurnCalls, c \notin m.closed,
           NEW n \in Nat, NEW x, CallTold(m, c, n, x)
    PROVE  InOpenBlock(m, c) = UpTo(n)
<1>1. CASE IsOpen(m, "tool_use", c)
  <2>1. m.blocks # <<>> /\ m.blocks \in Seq(BlockSet) /\ DOMAIN m.blocks = 1..Len(m.blocks)
    BY <1>1, BlocksAre DEF IsOpen, Shape
  <2>2. Len(m.blocks) \in DOMAIN m.blocks
    BY ONLY <2>1
  <2>3. m.blocks[Len(m.blocks)].call = c /\ m.open
    BY <1>1 DEF IsOpen, LastBlock
  <2>4. m.blocks[Len(m.blocks)].open
    BY <2>2, <2>3 DEF Shape, BlockFits
  <2>5. m.blocks[Len(m.blocks)].pieces = UpTo(n)
    BY <2>2, <2>3, <2>4 DEF CallTold
  <2> QED
    BY <1>1, <2>5 DEF InOpenBlock, LastBlock
<1>2. CASE ~IsOpen(m, "tool_use", c)
  <2>1. \A k \in DOMAIN m.blocks : m.blocks[k].call # c
    BY <1>2, NoBlockYet
  <2>2. n = 0
    BY <2>1 DEF CallTold
  <2> QED
    BY <1>2, <2>2, UpToIs DEF InOpenBlock
<1> QED
  BY <1>1, <1>2

\* A call whose block was closed before this fragment was crossed by others.
LEMMA ClosedIsCrossed ==
    ASSUME EngineInv, AnthropicInv, engine.at \in {"streaming", "flushing"},
           NEW c \in TurnCalls \ Searches, NEW held, NEW count, Let(c, held, count),
           c \in anthropic.closed
    PROVE  c \in told'.crossed
<1>1. anthropic \in MessageSet /\ Shape(anthropic) /\ ClientKnows(c)
  BY DEF AnthropicInv, AnthropicKnows
<1>2. told.handed = {} /\ (told.round[c] = 0 => told.sent[c] = 0) /\ told.sent[c] \in Nat
  BY DEF EngineInv, CallsKnown, ToldSet
<1>3. PICK k \in DOMAIN anthropic.blocks : anthropic.blocks[k].call = c
  BY <1>1 DEF Shape
<1>4. told.sent[c] > 0
  BY <1>1, <1>2, <1>3 DEF ClientKnows
<1>5. told.round[c] = engine.round
  BY <1>2, <1>4 DEF Let, Mine
<1>6. ASSUME told.last = c, c \notin told.crossed
      PROVE  FALSE
  <2>1. IsOpen(anthropic, "tool_use", c)
    BY <1>1, <1>4, <1>5, <1>6 DEF ClientKnows, StaysOpen
  <2>2. c # NoCall
    BY EgressAssumption DEF NoCall
  <2>3. /\ anthropic.blocks # <<>> /\ anthropic.blocks \in Seq(BlockSet)
        /\ DOMAIN anthropic.blocks = 1..Len(anthropic.blocks)
    BY <1>1, <2>1, BlocksAre DEF IsOpen, Shape
  <2>4. Len(anthropic.blocks) \in DOMAIN anthropic.blocks
    BY ONLY <2>3
  <2>5. BlockFits(anthropic, Len(anthropic.blocks))
    BY <1>1, <2>4 DEF Shape
  <2> QED
    BY <2>1, <2>2, <2>5 DEF BlockFits, IsOpen, LastBlock
<1> QED
  BY <1>4, <1>6 DEF Let

\* What an Anthropic client knows of what the gate lets through.
LEMMA LetTells ==
    ASSUME EngineInv, AnthropicInv, surface = "anthropic",
           engine.at \in {"streaming", "flushing"}, UNCHANGED <<surface, tool, engine>>,
           NEW c \in TurnCalls, NEW held \in Nat, NEW count \in Nat \ {0}, Let(c, held, count)
    PROVE  AnthropicInv'
<1> DEFINE m == anthropic
           w == anthropic'
           from == told.sent[c]
           client == c \notin Searches
           shown == c \notin m.emitted \cup m.closed /\ (tool[c] = "search" => held > 0)
           events == [k \in 1..count |-> ArgumentEvent(c, from + k, k > held)]
<1>1. /\ m \in MessageSet /\ Shape(m) /\ Backed(m) /\ chat = NewChat
      /\ Texts(m) = UpTo(told.text) /\ Thoughts(m) = told.early
      /\ m.emitted = told.handed /\ EndsWell(m, told.reason)
      /\ \A d \in TurnCalls \ Searches : ClientKnows(d)
  BY DEF AnthropicInv, AnthropicKnows
<1>2. ~Over /\ ~Over' /\ engine'.at # "exhausted"
  BY DEF Over
<1>3. m.ends = <<>> /\ (told.begun <=> m.content)
  BY <1>2 DEF AnthropicInv, AnthropicKnows
<1>4. told.handed = {} /\ from \in Nat /\ told.sent \in [TurnCalls -> Nat]
  BY DEF EngineInv, CallsKnown, ToldSet
<1>5. client <=> tool[c] # "search"
  BY DEF Searches
<1>6. /\ Deliver(events) /\ told'.sent = [told.sent EXCEPT ![c] = @ + count]
      /\ told'.begun <=> told.begun \/ held > 0 \/ tool[c] # "search"
      /\ told'.crossed = IF from > 0 /\ told.last # c THEN told.crossed \cup {c} ELSE told.crossed
      /\ told'.last = c /\ told'.text = told.text /\ told'.early = told.early
      /\ told'.handed = told.handed /\ told'.reason = told.reason
  BY DEF Let
<1>7. Gated(events, c, from, held, count)
  BY DEF Gated
<1> HIDE DEF events, client
<1>8. w = After("anthropic", m, events)[count] /\ chat' = chat
  BY <1>6, <1>7 DEF Deliver, Gated
<1>9. shown /\ tool[c] # "search" => InOpenBlock(m, c) = UpTo(from)
  <2>1. client => CallTold(m, c, from, c \in told.crossed)
    BY <1>1 DEF ClientKnows, client
  <2> QED
    BY <1>1, <1>4, <1>5, <2>1, OpenHasAll
<1>10. /\ Streamed(m, w, c, shown, count)
       /\ shown /\ tool[c] # "search" => LastBlock(w).pieces = UpTo(from + count)
  <2>1. shown \in BOOLEAN /\ (shown <=> c \notin m.emitted \cup m.closed /\ (tool[c] = "search" => held > 0))
    OBVIOUS
  <2> HIDE DEF shown
  <2>2. count \in 0..count /\ count > 0 /\ count \in Nat
    OBVIOUS
  <2>3. \A n \in 0..count :
           /\ Streamed(m, After("anthropic", m, events)[n], c, shown, n)
           /\ shown /\ tool[c] # "search" /\ n > 0 =>
                 LastBlock(After("anthropic", m, events)[n]).pieces = UpTo(from + n)
    BY <1>1, <1>4, <1>7, <1>9, <2>1, <2>2, LetThroughStreams
  <2> QED
    BY <1>8, <2>2, <2>3
<1>11. /\ w \in MessageSet /\ Shape(w) /\ Backed(w) /\ CallsKept(m, w, c)
       /\ w.emitted = m.emitted /\ w.ends = m.ends /\ w.over = m.over
       /\ Texts(w) = Texts(m) /\ Thoughts(w) = Thoughts(m)
  BY <1>10 DEF Streamed
<1>12. shown => IsOpen(w, "tool_use", c) /\ w.content = TRUE
  <2>1. shown => IsOpen(w, "tool_use", c) /\ w.open
    BY <1>10 DEF Streamed, IsOpen
  <2> QED
    BY <1>11, <2>1, OpenIsContent
<1>13. ~shown => w.blocks = m.blocks /\ w.content = m.content
  BY <1>10 DEF Streamed, Same
<1>14. c \in m.closed => m.content = TRUE
  <2>1. ASSUME c \in m.closed
        PROVE  m.content = TRUE
    <3>1. PICK k \in DOMAIN m.blocks : m.blocks[k].call = c
      BY <1>1, <2>1 DEF Shape
    <3>2. c # NoCall
      BY EgressAssumption DEF NoCall
    <3> QED
      BY <1>1, <3>1, <3>2, CallIsContent
  <2> QED
    BY <2>1
<1>15. told'.begun <=> w.content
  <2>1. CASE shown
    BY <1>4, <1>6, <1>12, <2>1
  <2>2. CASE ~shown
    <3>1. c \in m.closed \/ (tool[c] = "search" /\ ~(held > 0))
      BY <1>1, <1>4, <2>2
    <3> QED
      BY <1>3, <1>6, <1>13, <1>14, <2>2, <3>1
  <2> QED
    BY <2>1, <2>2
<1>16. ASSUME NEW d \in TurnCalls \ Searches
       PROVE  ClientKnows(d)'
  <2>1. ClientKnows(d) /\ d # NoCall
    BY <1>1, EgressAssumption DEF NoCall
  <2>2. CASE d # c
    <3>1. told'.sent[d] = told.sent[d] /\ (d \in told'.crossed <=> d \in told.crossed)
      BY <1>4, <1>6, <2>2
    <3>2. CallTold(w, d, told.sent[d], d \in told.crossed)
      BY <1>11, <2>1, <2>2, CallToldKept DEF ClientKnows
    <3>3. told.sent[d] = 0 /\ d \notin told.handed => \A k \in DOMAIN w.blocks : w.blocks[k].call # d
      BY <1>11, <2>1, <2>2 DEF ClientKnows, CallsKept
    <3>4. StaysOpen(d)'
      BY <1>6, <2>2 DEF StaysOpen
    <3>5. told'.sent[d] = told.sent[d] /\ (d \in told'.crossed) = (d \in told.crossed)
          /\ told'.handed = told.handed
      BY <1>6, <3>1
    <3>6. CallTold(w, d, told'.sent[d], d \in told'.crossed)
      BY ONLY <3>2, <3>5
    <3>7. told'.sent[d] = 0 /\ d \notin told'.handed => \A k \in DOMAIN w.blocks : w.blocks[k].call # d
      BY ONLY <3>3, <3>5
    <3> QED
      BY <3>4, <3>6, <3>7 DEF ClientKnows, CallTold, UpTo
  <2>3. CASE d = c
    <3>1. client /\ CallTold(m, c, from, c \in told.crossed)
      BY <2>1, <2>3 DEF ClientKnows, client
    <3>2. told'.sent[c] = from + count /\ told'.sent[c] # 0
      BY <1>4, <1>6
    <3>3. CASE shown
      <4>1. LastBlock(w).pieces = UpTo(from + count) /\ IsOpen(w, "tool_use", c)
        BY <1>5, <1>10, <1>12, <3>1, <3>3
      <4>2. from + count \in Nat
        BY <1>4
      <4>3. CallTold(w, c, from + count, c \in told'.crossed)
        BY <1>11, <4>1, <4>2, OpenIsTold
      <4>4. StaysOpen(c)'
        BY <4>1 DEF StaysOpen, IsOpen, LastBlock
      <4> QED
        BY <2>3, <3>2, <4>3, <4>4 DEF ClientKnows, CallTold, UpTo
    <3>4. CASE ~shown
      <4>1. c \in m.closed
        BY <1>1, <1>4, <1>5, <3>1, <3>4
      <4>2. c \in told'.crossed
        BY <2>3, <4>1, ClosedIsCrossed
      <4>3. CallTold(w, c, from + count, TRUE)
        BY <1>1, <1>4, <1>13, <3>1, <3>4, <4>1, ClosedIsTold
      <4>4. StaysOpen(c)'
        BY <4>2 DEF StaysOpen
      <4> QED
        BY <2>3, <3>2, <4>2, <4>3, <4>4 DEF ClientKnows, CallTold, UpTo
    <3> QED
      BY <3>3, <3>4
  <2> QED
    BY <2>2, <2>3
<1>17. Searches' = Searches
  BY DEF Searches
<1>18. (\A d \in TurnCalls \ Searches : ClientKnows(d))'
  BY <1>16, <1>17
<1>19. (Shape(anthropic) /\ Backed(anthropic))'
  BY <1>11 DEF Shape, BlockFits, Backed
<1>20. (Texts(anthropic) = UpTo(told.text) /\ Thoughts(anthropic) = told.early)'
  <2>1. Texts(w) = UpTo(told'.text) /\ Thoughts(w) = told'.early
    BY <1>1, <1>6, <1>11
  <2> QED
    BY <2>1 DEF Texts, Thoughts, PiecesOf, Shown, PieceOf, UpTo
<1>21. EndsWell(anthropic, told.reason)'
  <2>1. ~m.over /\ told.reason = "none"
    BY <1>1, <1>3, NotEnded
  <2> QED
    BY <1>3, <1>6, <1>11, <2>1 DEF EndsWell
<1>22. /\ chat' = NewChat /\ w.emitted = told'.handed /\ told'.handed = {} /\ w.ends = <<>>
       /\ w \in MessageSet
  BY <1>1, <1>3, <1>4, <1>6, <1>8, <1>11
<1> HIDE DEF w, shown
<1> QED
  BY <1>2, <1>15, <1>18, <1>19, <1>20, <1>21, <1>22 DEF AnthropicInv, AnthropicKnows, NewChat, w

\* What an Anthropic client knows of a call that is handed off.
LEMMA HandOffTells ==
    ASSUME EngineInv, AnthropicInv, surface = "anthropic", HandOffCall
    PROVE  AnthropicInv'
<1> DEFINE m == anthropic
           w == anthropic'
           c == Head(engine.todo)
           n == told.sent[c]
           e == [t |-> "arguments done", call |-> c, tool |-> tool[c], named |-> TRUE,
                 pieces |-> UpTo(n)]
           i == [e EXCEPT !.t = "call done"]
<1>1. /\ m \in MessageSet /\ Shape(m) /\ Backed(m) /\ chat = NewChat
      /\ Texts(m) = UpTo(told.text) /\ Thoughts(m) = told.early
      /\ m.emitted = told.handed /\ EndsWell(m, told.reason)
      /\ \A d \in TurnCalls \ Searches : ClientKnows(d)
  BY DEF AnthropicInv, AnthropicKnows
<1>2. /\ c \in TurnCalls \ Searches /\ engine.at = "handing off" /\ engine'.at = "handing off"
      /\ UNCHANGED <<surface, tool>>
      /\ told'.sent = told.sent /\ told'.handed = told.handed \cup {c}
      /\ told'.begun = TRUE /\ told'.crossed = told.crossed
      /\ told'.text = told.text /\ told'.early = told.early /\ told'.reason = told.reason
  BY HandOffKnows
<1>3. n \in Nat
  BY <1>2 DEF EngineInv, ToldSet
<1>4. Deliver(<<e, i>>)
  BY DEF HandOffCall
<1>5. /\ e.t = "arguments done" /\ e.call = c /\ e.named \in BOOLEAN /\ e.pieces = UpTo(n)
      /\ i.t = "call done" /\ i.call = c
  OBVIOUS
<1> HIDE DEF c, e, i
<1>6. w = Convert(Convert(m, e), i) /\ chat' = chat
  BY <1>4, TwoDelivered
<1>7. HandedOff(m, w, c, UpTo(n)) /\ Backed(w)
  <2>1. e.call \in TurnCalls /\ e.pieces \in Seq(Nat) /\ i.call = e.call
    BY <1>2, <1>3, <1>5, UpToIs
  <2> HIDE DEF n, m, w
  <2>2. LET v == Convert(Convert(m, e), i)
        IN  HandedOff(m, v, e.call, e.pieces) /\ Backed(v)
    BY <1>1, <1>5, <2>1, EndOfCallTells
  <2> QED
    BY <1>5, <1>6, <2>2
<1>8. /\ w \in MessageSet /\ Shape(w) /\ w.tools = TRUE
      /\ w.emitted = m.emitted \cup {c} /\ w.ends = m.ends /\ w.over = m.over
      /\ Texts(w) = Texts(m) /\ Thoughts(w) = Thoughts(m)
      /\ \E k \in DOMAIN w.blocks : w.blocks[k].call = c
  BY <1>7 DEF HandedOff
<1>9. c # NoCall
  BY <1>2, EgressAssumption DEF NoCall
<1>10. w.content = TRUE
  BY <1>8, <1>9, CallIsContent
<1>11. ~Over /\ ~Over' /\ engine'.at # "exhausted"
  BY <1>2 DEF Over
<1>12. m.ends = <<>>
  BY <1>11 DEF AnthropicInv, AnthropicKnows
<1>13. ASSUME NEW d \in TurnCalls \ Searches
       PROVE  ClientKnows(d)'
  <2> DEFINE x == d \in told.crossed
  <2>1. d # NoCall /\ CallTold(m, d, told.sent[d], x)
        /\ (told.sent[d] = 0 /\ d \notin told.handed => \A k \in DOMAIN m.blocks : m.blocks[k].call # d)
    BY <1>1, EgressAssumption DEF NoCall, ClientKnows
  <2> HIDE DEF x
  <2>2. CASE (\E k \in DOMAIN m.blocks : m.blocks[k].call = c) \/ d # c
    <3>1. PICK but \in {NoCall, c} : CallsKept(m, w, but) /\ d \notin {NoCall, but}
      BY <1>7, <2>1, <2>2 DEF HandedOff
    <3>2. CallTold(w, d, told.sent[d], x)
      BY <2>1, <3>1, CallToldKept
    <3>3. told.sent[d] = 0 /\ d \notin told'.handed => \A k \in DOMAIN w.blocks : w.blocks[k].call # d
      BY <1>2, <2>1, <3>1 DEF CallsKept
    <3>4. StaysOpen(d)'
      BY <1>2 DEF StaysOpen
    <3>5. told'.sent[d] = told.sent[d] /\ (d \in told'.crossed) = x
      BY <1>2 DEF x
    <3>6. CallTold(w, d, told'.sent[d], d \in told'.crossed)
      BY <3>2, <3>5
    <3>7. told'.sent[d] = 0 /\ d \notin told'.handed => \A k \in DOMAIN w.blocks : w.blocks[k].call # d
      BY <3>3, <3>5
    <3> QED
      BY <3>4, <3>6, <3>7 DEF ClientKnows, CallTold, UpTo
  <2>3. CASE ~(\E k \in DOMAIN m.blocks : m.blocks[k].call = c) /\ d = c
    <3>1. n = 0
      BY <2>1, <2>3 DEF CallTold
    <3>2. \A k \in DOMAIN w.blocks : w.blocks[k].call = c => w.blocks[k].pieces = UpTo(0)
      BY <1>7, <2>3, <3>1 DEF HandedOff
    <3>3. CallTold(w, c, 0, x)
      BY <3>2 DEF CallTold
    <3>4. StaysOpen(d)'
      BY <1>2 DEF StaysOpen
    <3>5. told'.sent[d] = 0 /\ d \in told'.handed /\ (d \in told'.crossed) = x
      BY <1>2, <2>3, <3>1 DEF x
    <3>6. CallTold(w, d, told'.sent[d], d \in told'.crossed)
      BY <2>3, <3>3, <3>5
    <3> QED
      BY <3>4, <3>5, <3>6 DEF ClientKnows, CallTold, UpTo
  <2> QED
    BY <2>2, <2>3
<1>14. Searches' = Searches
  BY <1>2 DEF Searches
<1>15. (\A d \in TurnCalls \ Searches : ClientKnows(d))'
  BY <1>13, <1>14
<1>16. (Shape(anthropic) /\ Backed(anthropic))'
  BY <1>7, <1>8 DEF Shape, BlockFits, Backed
<1>17. (Texts(anthropic) = UpTo(told.text) /\ Thoughts(anthropic) = told.early)'
  <2>1. Texts(w) = UpTo(told'.text) /\ Thoughts(w) = told'.early
    BY <1>1, <1>2, <1>8
  <2> QED
    BY <2>1 DEF Texts, Thoughts, PiecesOf, Shown, PieceOf, UpTo
<1>18. EndsWell(anthropic, told.reason)'
  <2>1. ~m.over /\ told.reason = "none"
    BY <1>1, <1>12, NotEnded
  <2> QED
    BY <1>2, <1>8, <1>12, <2>1 DEF EndsWell
<1>19. /\ chat' = NewChat /\ w.emitted = told'.handed /\ w.ends = <<>>
       /\ w \in MessageSet /\ w.tools = TRUE /\ w.content = TRUE /\ told'.begun = TRUE
  BY <1>1, <1>2, <1>6, <1>8, <1>10, <1>12
<1> HIDE DEF w
<1> QED
  BY <1>11, <1>15, <1>16, <1>17, <1>18, <1>19 DEF AnthropicInv, AnthropicKnows, NewChat, w

\* What an Anthropic client knows of reasoning.
LEMMA ReasonTells ==
    ASSUME EngineInv, AnthropicInv, surface = "anthropic", Reason
    PROVE  AnthropicInv'
<1> DEFINE next == told.reasoning + 1
           e == [t |-> "reasoning", n |-> next]
<1>1. /\ engine.at = "streaming" /\ engine'.at = "streaming" /\ engine'.round = engine.round
      /\ UNCHANGED <<surface, tool>> /\ told.reasoning \in Nat /\ Deliver(<<e>>)
      /\ told'.early = IF told.begun THEN told.early ELSE Append(told.early, next)
      /\ told'.text = told.text /\ told'.begun = told.begun /\ told'.round = told.round
      /\ told'.sent = told.sent /\ told'.last = told.last /\ told'.crossed = told.crossed
      /\ told'.handed = told.handed /\ told'.reason = told.reason
  BY ReasonIs
<1>2. AnthropicKnows /\ anthropic \in MessageSet /\ Shape(anthropic) /\ Backed(anthropic)
      /\ EndsWell(anthropic, told.reason)
  BY DEF AnthropicInv, AnthropicKnows
<1>3. e.t = "reasoning" /\ e.n = next /\ next \in Nat
  BY <1>1
<1> HIDE DEF next, e
<1>4. anthropic' = Convert(anthropic, e) /\ chat' = chat
  BY <1>1, OneDelivered
<1>5. /\ anthropic' \in MessageSet /\ Shape(anthropic') /\ Rest(anthropic') = Rest(anthropic)
      /\ anthropic'.content = anthropic.content
      /\ anthropic'.blocks = anthropic.blocks /\ anthropic'.open = anthropic.open
      /\ CallsKept(anthropic, anthropic', NoCall)
      /\ Texts(anthropic') = Texts(anthropic)
      /\ Thoughts(anthropic') = IF anthropic.content THEN Thoughts(anthropic)
                                ELSE Thoughts(anthropic) \o <<next>>
  BY <1>2, <1>3, <1>4, ReasoningTells
<1>6. /\ anthropic'.emitted = anthropic.emitted /\ anthropic'.ends = anthropic.ends
      /\ anthropic'.over = anthropic.over /\ anthropic'.tools = anthropic.tools
  BY <1>5 DEF Rest
<1>7. ~Over /\ ~Over' /\ engine'.at # "exhausted"
  BY <1>1 DEF Over
<1>8. anthropic.ends = <<>> /\ (told.begun <=> anthropic.content)
      /\ Texts(anthropic) = UpTo(told.text) /\ Thoughts(anthropic) = told.early
      /\ (told.handed # {} => anthropic.tools)
  BY <1>2, <1>7 DEF AnthropicKnows
<1>9. Thoughts(anthropic') = told'.early
  <2>1. told.early \in Seq(Nat)
    BY DEF EngineInv, ToldSet
  <2>2. Append(told.early, next) = told.early \o <<next>>
    BY ONLY <1>3, <2>1
  <2> QED
    BY <1>1, <1>5, <1>8, <2>2
<1>10. Backed(anthropic')
  BY <1>2, <1>5, <1>6 DEF Backed
<1>11. EndsWell(anthropic', told'.reason) /\ anthropic'.ends = <<>>
  <2>1. ~anthropic.over /\ told.reason = "none"
    BY <1>2, <1>8, NotEnded
  <2> QED
    BY <1>1, <1>6, <1>8, <2>1 DEF EndsWell
<1>12. \A c \in TurnCalls \ Searches : StaysOpen(c)'
  BY <1>1, <1>5, StillOpen
<1>13. Texts(anthropic') = UpTo(told'.text) /\ (told'.begun <=> anthropic'.content)
       /\ (told.handed # {} => anthropic'.tools)
  BY <1>1, <1>5, <1>6, <1>8
<1> QED
  BY <1>1, <1>4, <1>5, <1>6, <1>7, <1>9, <1>10, <1>11, <1>12, <1>13, TellsOn

\* What an Anthropic client knows of text.
LEMMA SpeakTells ==
    ASSUME EngineInv, AnthropicInv, surface = "anthropic", Speak
    PROVE  AnthropicInv'
<1> DEFINE next == told.text + 1
           d == [t |-> "message added"]
           e == [t |-> "text", n |-> next]
<1>1. /\ engine.at = "streaming" /\ engine'.at = "streaming" /\ engine'.round = engine.round
      /\ UNCHANGED <<surface, tool>> /\ told.text \in Nat
      /\ (Deliver(<<e>>) \/ Deliver(<<d, e>>))
      /\ told'.text = next /\ told'.begun = TRUE /\ told'.last = NoCall
      /\ told'.early = told.early /\ told'.sent = told.sent /\ told'.crossed = told.crossed
      /\ told'.handed = told.handed /\ told'.reason = told.reason
  BY SpeakIs
<1>2. AnthropicKnows /\ anthropic \in MessageSet /\ Shape(anthropic) /\ Backed(anthropic)
      /\ EndsWell(anthropic, told.reason)
  BY DEF AnthropicInv, AnthropicKnows
<1>3. e.t = "text" /\ e.n = next /\ next \in Nat /\ d.t = "message added"
  <2>1. told.text \in Nat
    BY <1>1
  <2> QED
    BY ONLY <2>1
<1>4. UpTo(told.text) \o <<next>> = UpTo(next)
  BY <1>1, UpToIs
<1> HIDE DEF next, d, e
<1>5. PICK v : Keeps(anthropic, v, NoCall) /\ anthropic' = Convert(v, e) /\ chat' = chat
  <2>1. CASE Deliver(<<e>>)
    <3>1. Keeps(anthropic, anthropic, NoCall)
      BY <1>2, KeepsItself
    <3>2. anthropic' = Convert(anthropic, e) /\ chat' = chat
      BY <2>1, OneDelivered
    <3> QED
      BY <3>1, <3>2
  <2>2. CASE Deliver(<<d, e>>)
    <3>1. Keeps(anthropic, Convert(anthropic, d), NoCall)
      BY <1>2, <1>3, MessageAddedTells
    <3>2. anthropic' = Convert(Convert(anthropic, d), e) /\ chat' = chat
      BY <2>2, TwoDelivered
    <3> QED
      BY <3>1, <3>2
  <2> QED
    BY <1>1, <2>1, <2>2
<1>6. /\ v \in MessageSet /\ Shape(v) /\ v.emitted = anthropic.emitted /\ v.ends = anthropic.ends
      /\ v.over = anthropic.over /\ v.tools = anthropic.tools
      /\ Texts(v) = Texts(anthropic) /\ Thoughts(v) = Thoughts(anthropic)
      /\ CallsKept(anthropic, v, NoCall)
  BY <1>5 DEF Keeps
<1>7. /\ anthropic' \in MessageSet /\ Shape(anthropic') /\ CallsKept(v, anthropic', NoCall)
      /\ anthropic'.emitted = v.emitted /\ anthropic'.ends = v.ends
      /\ anthropic'.over = v.over /\ anthropic'.tools = v.tools /\ anthropic'.content = TRUE
      /\ Texts(anthropic') = Texts(v) \o <<next>> /\ Thoughts(anthropic') = Thoughts(v)
  <2>1. Convert(v, e) \in MessageSet /\ Shape(Convert(v, e)) /\ CallsKept(v, Convert(v, e), NoCall)
    BY <1>3, <1>6, TextTells
  <2>2. LET w == Convert(v, e)
        IN  /\ w.emitted = v.emitted /\ w.ends = v.ends /\ w.over = v.over
            /\ w.tools = v.tools /\ w.content = TRUE
            /\ Texts(w) = Texts(v) \o <<next>> /\ Thoughts(w) = Thoughts(v)
    BY <1>3, <1>6, TextTells
  <2> QED
    BY <1>5, <2>1, <2>2
<1>8. CallsKept(anthropic, anthropic', NoCall)
  BY <1>6, <1>7 DEF CallsKept
<1>9. Backed(anthropic')
  <2>1. anthropic'.emitted = anthropic.emitted /\ anthropic'.tools = anthropic.tools
    BY <1>6, <1>7
  <2> QED
    BY <1>2, <1>8, <2>1 DEF Backed, CallsKept
<1>10. ~Over /\ ~Over' /\ engine'.at # "exhausted"
  BY <1>1 DEF Over
<1>11. anthropic.ends = <<>> /\ Texts(anthropic) = UpTo(told.text)
       /\ Thoughts(anthropic) = told.early /\ (told.handed # {} => anthropic.tools)
  BY <1>2, <1>10 DEF AnthropicKnows
<1>12. EndsWell(anthropic', told'.reason) /\ anthropic'.ends = <<>>
  <2>1. ~anthropic.over /\ told.reason = "none"
    BY <1>2, <1>11, NotEnded
  <2> QED
    BY <1>1, <1>6, <1>7, <1>11, <2>1 DEF EndsWell
<1>13. \A c \in TurnCalls \ Searches : StaysOpen(c)'
  <2> TAKE c \in TurnCalls \ Searches
  <2>1. c # NoCall
    BY EgressAssumption DEF NoCall
  <2> QED
    BY <1>1, <2>1 DEF StaysOpen
<1>14. Texts(anthropic') = UpTo(told'.text) /\ Thoughts(anthropic') = told'.early
       /\ (told'.begun <=> anthropic'.content) /\ (told.handed # {} => anthropic'.tools)
       /\ anthropic'.emitted = anthropic.emitted
  BY <1>1, <1>4, <1>6, <1>7, <1>11
<1> QED
  BY <1>1, <1>5, <1>7, <1>8, <1>9, <1>10, <1>12, <1>13, <1>14, TellsOn

\* What an Anthropic client knows at every step.
LEMMA AnthropicSteps ==
    ASSUME EngineInv, AnthropicInv, surface = "anthropic", [EgressNext]_egressVars
    PROVE  AnthropicInv'
<1>0. /\ engine \in EngineSet /\ told \in ToldSet /\ AnthropicKnows
      /\ anthropic \in MessageSet /\ Shape(anthropic) /\ Backed(anthropic)
      /\ EndsWell(anthropic, told.reason)
      /\ \A c \in TurnCalls : told.round[c] <= engine.round /\ (told.round[c] = 0 => told.sent[c] = 0)
  BY DEF EngineInv, AnthropicInv, AnthropicKnows, CallsKnown
<1>1. ASSUME ~Over
      PROVE  anthropic.ends = <<>>
  BY <1>0, <1>1 DEF AnthropicKnows
<1>2. ASSUME ~Over, Same(anthropic, anthropic'), UNCHANGED <<chat, tool, told>>,
             engine'.at # "exhausted", \A c \in TurnCalls \ Searches : StaysOpen(c)'
      PROVE  AnthropicInv'
  <2>1. Keeps(anthropic, anthropic', NoCall)
    BY <1>0, <1>2, SameKeeps
  <2>2. anthropic'.content = anthropic.content
    BY <1>2 DEF Same
  <2> QED
    BY <1>2, <2>1, <2>2, KeepsTelling
<1>3. ASSUME ~Over, Keeps(anthropic, anthropic', NoCall), anthropic'.content = anthropic.content,
             UNCHANGED <<chat, tool, told>>, engine'.at \notin {"streaming", "flushing", "exhausted"}
      PROVE  AnthropicInv'
  <2>1. \A c \in TurnCalls \ Searches : StaysOpen(c)'
    BY <1>3, NoneStaysOpen
  <2> QED
    BY <1>3, <2>1, KeepsTelling
<1>4. Same(anthropic, anthropic) /\ Keeps(anthropic, anthropic, NoCall)
  BY <1>0, KeepsItself DEF Same
<1>5. ASSUME NEW to
      PROVE  EngineAt(to).at = to /\ EngineAt(to).round = engine.round
  BY <1>0, <1>5 DEF EngineAt, EngineSet
<1>6. CASE Created
  <2> DEFINE e == [t |-> "created"]
  <2>1. /\ engine.at = "start" /\ engine' = EngineAt("streaming") /\ UNCHANGED <<tool, told>>
        /\ Deliver(<<e>>)
    BY <1>6 DEF Created, At
  <2>2. e.t = "created"
    OBVIOUS
  <2> HIDE DEF e
  <2>3. anthropic' = Convert(anthropic, e) /\ chat' = chat
    BY <2>1, OneDelivered
  <2>4. anthropic' = Started(anthropic)
    BY <2>2, <2>3 DEF Convert, Started
  <2>5. Same(anthropic, anthropic')
    BY <1>0, <2>4, StartedIs
  <2>6. \A c \in TurnCalls : told.sent[c] = 0
    BY <2>1 DEF EngineInv, CallsKnown
  <2>7. \A c \in TurnCalls \ Searches : StaysOpen(c)'
    BY <2>1, <2>6 DEF StaysOpen
  <2>8. ~Over /\ engine'.at # "exhausted"
    BY <1>5, <2>1 DEF Over
  <2> QED
    BY <1>2, <2>1, <2>3, <2>5, <2>7, <2>8
<1>7. CASE Sign
  <2> DEFINE e == [t |-> "signature"]
  <2>1. engine.at = "streaming" /\ UNCHANGED <<engine, tool, told>> /\ Deliver(<<e>>)
    BY <1>7 DEF Sign, At
  <2>2. e.t = "signature"
    OBVIOUS
  <2> HIDE DEF e
  <2>3. anthropic' = Convert(anthropic, e) /\ chat' = chat
    BY <2>1, OneDelivered
  <2>4. Same(anthropic, anthropic')
    BY <1>0, <2>2, <2>3, SignatureTells
  <2>5. anthropic'.blocks = anthropic.blocks /\ anthropic'.open = anthropic.open
    BY <2>4 DEF Same
  <2>6. \A c \in TurnCalls \ Searches : StaysOpen(c)'
    BY <2>1, <2>5, StillOpen
  <2>7. ~Over /\ engine'.at # "exhausted"
    BY <2>1 DEF Over
  <2> QED
    BY <1>2, <2>1, <2>3, <2>4, <2>6, <2>7
<1>8. ASSUME NEW c \in TurnCalls, NameCall(c)
      PROVE  AnthropicInv'
  <2> DEFINE round == [told.round EXCEPT ![c] = engine.round]
  <2>1. /\ engine.at = "streaming" /\ UNCHANGED <<engine, tool, anthropic, chat>>
        /\ told.round[c] = 0 /\ told' = [told EXCEPT !.round = round]
    BY <1>0, <1>8, NothingDelivered DEF NameCall, At, ToldSet
  <2>2. told.round \in [TurnCalls -> Nat]
    BY <1>0 DEF ToldSet
  <2>3. \A d \in TurnCalls : d # c => round[d] = told.round[d]
    BY <2>2
  <2> HIDE DEF round
  <2>4. /\ told'.text = told.text /\ told'.early = told.early /\ told'.begun = told.begun
        /\ told'.sent = told.sent /\ told'.crossed = told.crossed /\ told'.handed = told.handed
        /\ told'.reason = told.reason /\ told'.last = told.last /\ told'.round = round
    BY <1>0, <2>1 DEF ToldSet
  <2>5. \A d \in TurnCalls \ Searches : StaysOpen(d)'
    <3> TAKE d \in TurnCalls \ Searches
    <3>1. StaysOpen(d)
      BY <1>0 DEF AnthropicKnows, ClientKnows
    <3>2. d = c => told'.sent[d] = 0
      BY <1>0, <2>1, <2>4
    <3>3. d # c => told'.round[d] = told.round[d]
      BY <2>3, <2>4
    <3> QED
      BY <2>1, <2>4, <3>1, <3>2, <3>3 DEF StaysOpen, IsOpen, LastBlock
  <2>6. ~Over /\ engine'.at # "exhausted"
    BY <2>1 DEF Over
  <2> QED
    BY <1>4, <2>1, <2>4, <2>5, <2>6, KeepsTelling
<1>9. CASE AnswerEnds
  <2>1. /\ engine.at = "streaming" /\ engine' = EngineAt("flushing")
        /\ UNCHANGED <<tool, told, anthropic, chat>>
    BY <1>9 DEF AnswerEnds, Quiet, At
  <2>2. ~Over /\ engine'.at # "exhausted" /\ engine'.round = engine.round
    BY <1>5, <2>1 DEF Over
  <2>3. \A c \in TurnCalls \ Searches : StaysOpen(c)'
    BY <2>1, <2>2, StillOpen
  <2> QED
    BY <1>2, <1>4, <2>1, <2>2, <2>3
<1>10. CASE NextAnswer
  <2> DEFINE next == engine.round + 1
  <2>1. /\ engine.at = "again" /\ UNCHANGED <<tool, told, anthropic, chat>>
        /\ engine' = [engine EXCEPT !.at = "streaming", !.round = next,
                                    !.spoke = FALSE, !.reasoned = FALSE]
    BY <1>0, <1>10 DEF NextAnswer, At, EngineSet
  <2>2. engine.round \in Nat /\ told.round \in [TurnCalls -> Nat]
    BY <1>0 DEF EngineSet, ToldSet
  <2>3. \A c \in TurnCalls : told.round[c] # next
    BY <1>0, <2>2
  <2> HIDE DEF next
  <2>4. engine'.at = "streaming" /\ engine'.round = next
    BY <1>0, <2>1 DEF EngineSet
  <2>5. \A c \in TurnCalls \ Searches : StaysOpen(c)'
    BY <2>1, <2>3, <2>4 DEF StaysOpen
  <2>6. ~Over /\ engine'.at # "exhausted"
    BY <2>1, <2>4 DEF Over
  <2> QED
    BY <1>2, <1>4, <2>1, <2>5, <2>6
<1>11. ASSUME NEW to \in {"again", "completing", "searching", "handing off"}, EmitPublicItems(to)
       PROVE  AnthropicInv'
  <2> DEFINE e == [t |-> "message done"]
  <2>1. /\ engine.at = "flushing" /\ engine' = [engine EXCEPT !.at = to, !.todo = BatchOfRound]
        /\ UNCHANGED <<tool, told>> /\ (Deliver(<<e>>) \/ Deliver(<<>>))
    BY <1>11 DEF EmitPublicItems, At
  <2>2. e.t = "message done"
    OBVIOUS
  <2> HIDE DEF e
  <2>3. Keeps(anthropic, anthropic', NoCall) /\ anthropic'.content = anthropic.content /\ chat' = chat
    <3>1. CASE Deliver(<<e>>)
      <4>1. anthropic' = Convert(anthropic, e) /\ chat' = chat
        BY <3>1, OneDelivered
      <4> QED
        BY <1>0, <2>2, <4>1, MessageDoneTells
    <3>2. CASE Deliver(<<>>)
      BY <1>4, <3>2, NothingDelivered
    <3> QED
      BY <2>1, <3>1, <3>2
  <2>4. engine'.at = to
    BY <1>0, <2>1 DEF EngineSet
  <2>5. ~Over /\ engine'.at \notin {"streaming", "flushing", "exhausted"}
    BY <1>11, <2>1, <2>4 DEF Over
  <2> QED
    BY <1>3, <2>1, <2>3, <2>5
<1>12. CASE ResolveAnswer
  BY <1>11, <1>12 DEF ResolveAnswer
<1>13. CASE SearchEnds
  <2> DEFINE e == [t |-> "search results"]
  <2>1. /\ engine.at = "searching" /\ engine' = [engine EXCEPT !.todo = Tail(@)]
        /\ UNCHANGED <<tool, told>> /\ Deliver(<<e>>)
    BY <1>13 DEF SearchEnds, At
  <2>2. e.t = "search results"
    OBVIOUS
  <2> HIDE DEF e
  <2>3. anthropic' = Convert(anthropic, e) /\ chat' = chat
    BY <2>1, OneDelivered
  <2>4. Keeps(anthropic, anthropic', NoCall) /\ anthropic'.content = anthropic.content
    BY <1>0, <2>2, <2>3, SearchResultsTell
  <2>5. engine'.at = "searching"
    BY <1>0, <2>1 DEF EngineSet
  <2>6. ~Over /\ engine'.at \notin {"streaming", "flushing", "exhausted"}
    BY <2>1, <2>5 DEF Over
  <2> QED
    BY <1>3, <2>1, <2>3, <2>4, <2>6
<1>14. ASSUME NEW from, NEW to \in {"completing", "again", "ended"}, Quiet(from, to), ~Over
       PROVE  AnthropicInv'
  <2>1. engine' = EngineAt(to) /\ UNCHANGED <<tool, told, anthropic, chat>>
    BY <1>14 DEF Quiet, At
  <2>2. engine'.at \notin {"streaming", "flushing", "exhausted"}
    BY <1>5, <1>14, <2>1
  <2> QED
    BY <1>3, <1>4, <1>14, <2>1, <2>2
<1>15. CASE Answered
  <2>1. Quiet("handing off", "completing") \/ Quiet("searching", "again")
    BY <1>15 DEF Answered
  <2>2. ~Over
    BY <2>1 DEF Quiet, At, Over
  <2> QED
    BY <1>14, <2>1, <2>2
<1>16. CASE Vanish
  BY <1>14, <1>16 DEF Vanish, Over
<1>17. CASE \E reason \in Reasons : CompleteTurn(reason)
  <2>1. PICK reason \in Reasons : CompleteTurn(reason)
    BY <1>17
  <2> DEFINE e == [t |-> "completed", reason |-> reason]
  <2>2. /\ engine.at = "completing" /\ engine' = EngineAt("ended") /\ UNCHANGED tool
        /\ Deliver(<<e>>) /\ told' = [told EXCEPT !.reason = reason]
    BY <2>1 DEF CompleteTurn, At
  <2>3. e.t = "completed" /\ e.reason = reason
    OBVIOUS
  <2> HIDE DEF e
  <2>4. anthropic' = Convert(anthropic, e) /\ chat' = chat
    BY <2>2, OneDelivered
  <2>5. ~Over /\ Over'
    BY <1>5, <2>2 DEF Over
  <2>6. /\ Ends(anthropic, anthropic') /\ ~anthropic'.open /\ anthropic'.buffer = <<>>
        /\ anthropic'.ends = <<StopReason(anthropic', reason), "message_stop">>
    BY <1>0, <1>1, <2>3, <2>4, <2>5, CompletedTells
  <2>7. /\ told'.text = told.text /\ told'.early = told.early /\ told'.sent = told.sent
        /\ told'.crossed = told.crossed /\ told'.handed = told.handed /\ told'.reason = reason
    BY <1>0, <2>2 DEF ToldSet
  <2>8. EndsWell(anthropic', told'.reason)
    BY <2>6, <2>7 DEF EndsWell, Ends
  <2>9. anthropic'.ends # <<>>
    <3>1. \A a, b : <<a, b>> # <<>>
      OBVIOUS
    <3> QED
      BY <2>6, <3>1
  <2> QED
    BY <2>2, <2>4, <2>5, <2>6, <2>7, <2>8, <2>9, EndTells
<1>18. CASE Fail
  <2> DEFINE e == [t |-> "failed"]
  <2>1. ~Over /\ engine' = EngineAt("ended") /\ UNCHANGED <<tool, told>> /\ Deliver(<<e>>)
    BY <1>18 DEF Fail, At, Over
  <2>2. e.t = "failed"
    OBVIOUS
  <2> HIDE DEF e
  <2>3. anthropic' = Convert(anthropic, e) /\ chat' = chat
    BY <2>1, OneDelivered
  <2>4. Ends(anthropic, anthropic') /\ anthropic'.ends = <<"error">>
    BY <1>0, <1>1, <2>1, <2>2, <2>3, FailedTells
  <2>5. Over'
    BY <1>5, <2>1 DEF Over
  <2>6. EndsWell(anthropic', told'.reason)
    BY <2>4 DEF EndsWell, Ends
  <2>7. anthropic'.ends # <<>>
    <3>1. \A a : <<a>> # <<>>
      OBVIOUS
    <3> QED
      BY <2>4, <3>1
  <2> QED
    BY <2>1, <2>3, <2>4, <2>5, <2>6, <2>7, EndTells
<1>19. CASE Exhausted
  <2>1. /\ engine' = EngineAt("exhausted") /\ UNCHANGED <<tool, told, chat>>
        /\ anthropic' = Terminate(anthropic)
    BY <1>19 DEF Exhausted, At
  <2>2. Over'
    BY <1>5, <2>1 DEF Over
  <2>3. Ends(anthropic, anthropic') /\ EndsWell(anthropic', told'.reason) /\ anthropic'.ends # <<>>
    <3>1. CASE anthropic.over
      <4>1. anthropic' = anthropic
        BY <2>1, <3>1 DEF Terminate
      <4>2. anthropic.over = TRUE
        BY <1>0, <3>1 DEF MessageSet
      <4>3. Ends(anthropic, anthropic)
        BY <1>4, <4>2 DEF Ends, Keeps
      <4>4. anthropic.ends # <<>>
        BY <1>0, <3>1, NotEnded
      <4> QED
        BY <1>0, <2>1, <4>1, <4>3, <4>4
    <3>2. CASE ~anthropic.over
      <4>1. anthropic.over = FALSE
        BY <1>0, <3>2 DEF MessageSet
      <4>2. anthropic.ends = <<>> /\ told.reason = "none"
        BY <1>0, <3>2 DEF EndsWell
      <4>3. /\ Ends(anthropic, anthropic') /\ ~anthropic'.open /\ anthropic'.buffer = <<>>
            /\ anthropic'.ends = <<StopReason(anthropic', "none"), "message_stop">>
        BY <1>0, <2>1, <4>1, <4>2, TerminateTells
      <4>4. EndsWell(anthropic', told'.reason)
        BY <2>1, <4>2, <4>3 DEF EndsWell, Ends
      <4>5. \A a, b : <<a, b>> # <<>>
        OBVIOUS
      <4> QED
        BY <4>3, <4>4, <4>5
    <3> QED
      BY <3>1, <3>2
  <2> QED
    BY <2>1, <2>2, <2>3, EndTells
<1>20. CASE UNCHANGED egressVars
  <2>1. UNCHANGED <<anthropic, chat, tool, told, engine>>
    BY <1>20 DEF egressVars
  <2>2. \A c \in TurnCalls \ Searches : StaysOpen(c)'
    BY <2>1, StillOpen, NoneStaysOpen
  <2>3. CallsKept(anthropic, anthropic, NoCall)
    BY <1>4 DEF Keeps
  <2>4. Over' <=> Over
    BY <2>1 DEF Over
  <2>5. /\ Texts(anthropic) = UpTo(told.text) /\ Thoughts(anthropic) = told.early
        /\ ~Over => (told.begun <=> anthropic.content)
        /\ told.handed # {} => anthropic.tools
        /\ ~Over => anthropic.ends = <<>>
        /\ engine.at = "exhausted" => anthropic.ends # <<>>
    BY <1>0 DEF AnthropicKnows
  <2> QED
    BY <1>0, <2>1, <2>2, <2>3, <2>4, <2>5, TellsOn
<1>21. CASE Told
  BY <1>20, <1>21 DEF Told
<1>22. ASSUME NEW c \in TurnCalls, NEW held \in 0..MaxPieces, StreamCall(c, held) \/ FlushHeld(c, held)
       PROVE  AnthropicInv'
  <2>1. /\ engine.at \in {"streaming", "flushing"} /\ UNCHANGED <<surface, tool, engine>>
        /\ held \in Nat /\ \E count \in Nat \ {0} : Let(c, held, count)
    BY <1>22, StreamIs
  <2>2. PICK count \in Nat \ {0} : Let(c, held, count)
    BY <2>1
  <2> QED
    BY <2>1, <2>2, LetTells
<1> QED
  BY <1>6, <1>7, <1>8, <1>9, <1>10, <1>12, <1>13, <1>15, <1>16, <1>17, <1>18, <1>19, <1>20,
     <1>21, <1>22, ReasonTells, SpeakTells, HandOffTells DEF EgressNext

-----------------------------------------------------------------------------
(* The stream.                                                              *)

\* Nothing was told at first.
LEMMA EgressInitHolds ==
    ASSUME EgressInit
    PROVE  EgressInv
<1>1. /\ surface \in {"anthropic", "chat"} /\ tool \in [TurnCalls -> {"client", "search"}]
      /\ surface = "chat" => \A c \in TurnCalls : tool[c] = "client"
  BY DEF EgressInit
<1>2. /\ engine.at = "start" /\ engine.round = 1 /\ engine.todo = <<>> /\ engine \in EngineSet
  <2>1. <<>> \in Seq(TurnCalls)
    OBVIOUS
  <2> QED
    BY <2>1 DEF EgressInit, EngineSet, Stages
<1>3. /\ told.text = 0 /\ told.reasoning = 0 /\ told.early = <<>> /\ told.begun = FALSE
      /\ told.handed = {} /\ told.reason = "none"
      /\ \A c \in TurnCalls : told.round[c] = 0 /\ told.sent[c] = 0
  BY DEF EgressInit
<1>4. told \in ToldSet
  <2>1. <<>> \in Seq(Nat)
    OBVIOUS
  <2>2. [c \in TurnCalls |-> 0] \in [TurnCalls -> Nat]
    OBVIOUS
  <2> QED
    BY <2>1, <2>2 DEF EgressInit, ToldSet, NoCall
<1>5. anthropic = NewMessage /\ chat = NewChat
  BY DEF EgressInit
<1>6. EngineInv
  BY <1>1, <1>2, <1>3, <1>4 DEF EngineInv, CallsKnown, Over
<1>7. UpTo(0) = <<>>
  BY UpToIs
<1>8. CASE surface = "anthropic"
  <2>1. /\ anthropic \in MessageSet /\ Shape(anthropic)
        /\ Texts(anthropic) = <<>> /\ Thoughts(anthropic) = <<>>
    BY <1>5, NewMessageFits
  <2>2. /\ anthropic.blocks = <<>> /\ anthropic.emitted = {} /\ anthropic.tools = FALSE
        /\ anthropic.ends = <<>> /\ anthropic.over = FALSE /\ anthropic.content = FALSE
    BY <1>5 DEF NewMessage
  <2>3. DOMAIN anthropic.blocks = {}
    BY <2>2
  <2>4. Backed(anthropic) /\ EndsWell(anthropic, told.reason)
    BY <1>3, <2>2 DEF Backed, EndsWell
  <2>5. \A c \in TurnCalls \ Searches : ClientKnows(c)
    BY <1>2, <1>3, <2>3 DEF ClientKnows, CallTold, StaysOpen
  <2>6. AnthropicInv
    BY <1>2, <1>3, <1>5, <1>7, <2>1, <2>2, <2>4, <2>5 DEF AnthropicInv, AnthropicKnows
  <2> QED
    BY <1>6, <1>8, <2>6 DEF EgressInv
<1>9. CASE surface = "chat"
  <2>1. /\ chat.text = <<>> /\ chat.reasoning = <<>> /\ chat.calls = <<>> /\ chat.ends = <<>>
    BY <1>5 DEF NewChat
  <2>2. chat \in ChatSet
    <3>1. <<>> \in Seq(Nat) /\ <<>> \in Seq(ChatCallSet) /\ <<>> \in Seq(Endings)
      BY ONLY TRUE
    <3> QED
      BY <1>5, <3>1 DEF NewChat, ChatSet
  <2>3. CallsArrive(chat, told.sent, told.handed)
    BY <1>3, <2>1 DEF CallsArrive
  <2>4. Searches = {}
    BY <1>1, <1>9 DEF Searches
  <2>5. ChatInv
    BY <1>3, <1>5, <1>7, <2>1, <2>2, <2>3, <2>4 DEF ChatInv, ChatKnows
  <2> QED
    BY <1>6, <1>9, <2>5 DEF EgressInv
<1> QED
  BY <1>1, <1>8, <1>9

\* What is known stays known.
LEMMA EgressSteps ==
    ASSUME EgressInv, [EgressNext]_egressVars
    PROVE  EgressInv'
<1>1. EngineInv'
  BY EngineSteps DEF EgressInv
<1>2. surface' = surface
  <2>1. ASSUME NEW from, NEW to, Quiet(from, to)
        PROVE  surface' = surface
    BY <2>1 DEF Quiet, At
  <2>2. AnswerEnds \/ Answered \/ Vanish => surface' = surface
    BY <2>1 DEF AnswerEnds, Answered, Vanish
  <2>3. ASSUME NEW to, EmitPublicItems(to)
        PROVE  surface' = surface
    BY <2>3 DEF EmitPublicItems, At
  <2>4. ResolveAnswer => surface' = surface
    BY <2>3 DEF ResolveAnswer
  <2>5. Created \/ Reason \/ Sign \/ Speak \/ HandOffCall \/ SearchEnds \/ NextAnswer
           \/ Fail \/ Exhausted => surface' = surface
    BY DEF Created, Reason, Sign, Speak, HandOffCall, SearchEnds, NextAnswer, Fail, Exhausted, At
  <2>6. ASSUME NEW c, NEW held, NameCall(c) \/ StreamCall(c, held) \/ FlushHeld(c, held)
        PROVE  surface' = surface
    BY <2>6 DEF NameCall, StreamCall, FlushHeld, At
  <2>7. ASSUME NEW reason, CompleteTurn(reason)
        PROVE  surface' = surface
    BY <2>7 DEF CompleteTurn, At
  <2>8. Told \/ UNCHANGED egressVars => surface' = surface
    BY DEF Told, egressVars
  <2> QED
    BY <2>2, <2>4, <2>5, <2>6, <2>7, <2>8 DEF EgressNext
<1>3. surface = "anthropic" => AnthropicInv'
  BY AnthropicSteps DEF EgressInv
<1>4. surface = "chat" => ChatInv'
  BY ChatSteps DEF EgressInv
<1> QED
  BY <1>1, <1>2, <1>3, <1>4 DEF EgressInv

\* What the ends of a stream can be.
LEMMA EndsAre ==
    ASSUME NEW m, NEW a, NEW b, NEW e
    PROVE  /\ m.ends = <<>> => ~HasEnd(m, e)
           /\ m.ends = <<a>> => (HasEnd(m, e) <=> e = a)
           /\ m.ends = <<a, b>> => (HasEnd(m, e) <=> e = a \/ e = b)
<1>1. m.ends = <<>> => ~HasEnd(m, e)
  BY DEF HasEnd
<1>2. m.ends = <<a>> => (HasEnd(m, e) <=> e = a)
  <2>1. ASSUME m.ends = <<a>>
        PROVE  HasEnd(m, e) <=> e = a
    <3>1. DOMAIN m.ends = {1} /\ m.ends[1] = a
      BY <2>1
    <3> QED
      BY <3>1 DEF HasEnd
  <2> QED
    BY <2>1
<1>3. m.ends = <<a, b>> => (HasEnd(m, e) <=> e = a \/ e = b)
  <2>1. ASSUME m.ends = <<a, b>>
        PROVE  HasEnd(m, e) <=> e = a \/ e = b
    <3>1. DOMAIN m.ends = {1, 2} /\ m.ends[1] = a /\ m.ends[2] = b
      BY <2>1
    <3> QED
      BY <3>1 DEF HasEnd
  <2> QED
    BY <2>1
<1> QED
  BY <1>1, <1>2, <1>3

\* What the client knows implies the shape of its stream.
LEMMA StreamIsConform ==
    ASSUME EgressInv
    PROVE  StreamConforms
<1>0. NewMessage.ends = <<>> /\ NewMessage.blocks = <<>> /\ NewChat.ends = <<>>
  BY DEF NewMessage, NewChat
<1>1. CASE surface = "anthropic"
  <2> DEFINE m == anthropic
  <2>1. /\ Shape(m) /\ Backed(m) /\ EndsWell(m, told.reason) /\ chat = NewChat
        /\ m \in MessageSet
        /\ told.handed # {} => m.tools
        /\ engine.at = "exhausted" => m.ends # <<>>
    BY <1>1 DEF EgressInv, AnthropicInv, AnthropicKnows
  <2>2. ~HasEnd(chat, "[DONE]") /\ ~HasEnd(chat, "tool_calls")
    BY <1>0, <2>1, EndsAre
  <2>3. \/ m.ends = <<>>
        \/ m.ends = <<"error">>
        \/ Len(m.ends) = 2 /\ m.ends[2] = "message_stop" /\ ~m.open
    <3>1. CASE m.ends = <<StopReason(m, told.reason), "message_stop">> /\ ~m.open
      BY <3>1
    <3> QED
      BY <2>1, <3>1 DEF EndsWell
  <2>4. BlocksAreClosed
    BY <2>1, <2>3 DEF BlocksAreClosed, Shape, BlockFits
  <2>5. HasEnd(m, "message_stop") => m.ends = <<StopReason(m, told.reason), "message_stop">>
    BY <2>1, EndsAre DEF EndsWell
  <2>6. HasEnd(m, "tool_use") => m.ends = <<StopReason(m, told.reason), "message_stop">>
    BY <2>1, EndsAre DEF EndsWell
  <2>7. told.handed # {} /\ told.reason # "length" /\ HasEnd(m, "message_stop") => HasEnd(m, "tool_use")
    <3>1. ASSUME told.handed # {}, told.reason # "length", HasEnd(m, "message_stop")
          PROVE  HasEnd(m, "tool_use")
      <4>1. StopReason(m, told.reason) = "tool_use"
        BY <2>1, <3>1 DEF StopReason
      <4> QED
        BY <2>5, <3>1, <4>1, EndsAre
    <3> QED
      BY <3>1
  <2>8. HasEnd(m, "tool_use") => HasBlock(m, "tool_use")
    <3>1. ASSUME HasEnd(m, "tool_use")
          PROVE  HasBlock(m, "tool_use")
      <4>1. StopReason(m, told.reason) = "tool_use"
        BY <2>6, <3>1, EndsAre
      <4>2. m.tools
        BY <4>1 DEF StopReason
      <4>3. PICK k \in DOMAIN m.blocks : m.blocks[k].call # NoCall
        BY <2>1, <4>2 DEF Backed
      <4> QED
        BY <2>1, <4>3, CallIsContent DEF HasBlock
    <3> QED
      BY <3>1
  <2>9. StopTellsOfCalls
    BY <2>2, <2>7, <2>8 DEF StopTellsOfCalls
  <2> QED
    BY <2>4, <2>9 DEF StreamConforms
<1>2. CASE surface = "chat"
  <2>1. /\ anthropic = NewMessage /\ CallsArrive(chat, told.sent, told.handed)
        /\ \/ chat.ends = <<>>
           \/ chat.ends = <<"error", "[DONE]">>
           \/ chat.ends = <<FinishReason(chat, told.reason), "[DONE]">>
    BY <1>2 DEF EgressInv, ChatInv, ChatKnows
  <2>2. ~HasEnd(anthropic, "message_stop") /\ ~HasEnd(anthropic, "tool_use")
    BY <1>0, <2>1, EndsAre
  <2>3. DOMAIN anthropic.blocks = {} /\ anthropic.ends = <<>>
    BY <1>0, <2>1
  <2>4. BlocksAreClosed
    BY <1>2, <2>3 DEF BlocksAreClosed
  <2>5. told.handed # {} => chat.calls # <<>>
    <3>1. told.handed \subseteq TurnCalls
      BY DEF EgressInv, EngineInv, ToldSet
    <3>2. told.handed # {} => \E k \in DOMAIN chat.calls : TRUE
      BY <2>1, <3>1 DEF CallsArrive, Registered, PlacesOf
    <3>3. DOMAIN <<>> = {}
      OBVIOUS
    <3> QED
      BY <3>2, <3>3
  <2>6. told.handed # {} /\ told.reason # "length" /\ HasEnd(chat, "[DONE]") =>
           HasEnd(chat, "tool_calls") \/ HasEnd(chat, "error")
    <3>1. ASSUME told.handed # {}, told.reason # "length", HasEnd(chat, "[DONE]")
          PROVE  HasEnd(chat, "tool_calls") \/ HasEnd(chat, "error")
      <4>1. FinishReason(chat, told.reason) = "tool_calls"
        BY <2>5, <3>1 DEF FinishReason
      <4>2. CASE chat.ends = <<>>
        BY <3>1, <4>2, EndsAre
      <4>3. CASE chat.ends = <<"error", "[DONE]">>
        BY <4>3, EndsAre
      <4>4. CASE chat.ends = <<FinishReason(chat, told.reason), "[DONE]">>
        BY <4>1, <4>4, EndsAre
      <4> QED
        BY <2>1, <4>2, <4>3, <4>4
    <3> QED
      BY <3>1
  <2>7. HasEnd(chat, "tool_calls") => chat.calls # <<>>
    <3>1. ASSUME HasEnd(chat, "tool_calls")
          PROVE  chat.calls # <<>>
      <4>1. FinishReason(chat, told.reason) = "tool_calls"
        <5>1. CASE chat.ends = <<>>
          BY <3>1, <5>1, EndsAre
        <5>2. CASE chat.ends = <<"error", "[DONE]">>
          BY <3>1, <5>2, EndsAre
        <5>3. CASE chat.ends = <<FinishReason(chat, told.reason), "[DONE]">>
          BY <3>1, <5>3, EndsAre
        <5> QED
          BY <2>1, <5>1, <5>2, <5>3
      <4> QED
        BY <4>1 DEF FinishReason
    <3> QED
      BY <3>1
  <2>8. StopTellsOfCalls
    BY <2>2, <2>6, <2>7 DEF StopTellsOfCalls
  <2> QED
    BY <2>4, <2>8 DEF StreamConforms
<1> QED
  BY <1>1, <1>2 DEF EgressInv, EngineInv

\* What the client knows implies that nothing that was said is lost.
LEMMA NothingIsLost ==
    ASSUME EgressInv
    PROVE  NothingSaidIsLost
<1>0. told.handed \subseteq TurnCalls /\ told.sent \in [TurnCalls -> Nat]
      /\ told.handed \cap Searches = {}
  BY DEF EgressInv, EngineInv, ToldSet, CallsKnown
<1>1. CASE surface = "anthropic"
  <2> DEFINE m == anthropic
             thoughts == PiecesOf(m, {"thinking", "promoted"})
  <2>1. /\ Shape(m) /\ Backed(m) /\ EndsWell(m, told.reason) /\ m.emitted = told.handed
        /\ Texts(m) = UpTo(told.text) /\ Thoughts(m) = told.early
        /\ \A c \in TurnCalls \ Searches : ClientKnows(c)
    BY <1>1 DEF EgressInv, AnthropicInv, AnthropicKnows
  <2>2. PiecesOf(m, {"text"}) = UpTo(told.text) /\ thoughts \o m.buffer = told.early
    BY <2>1 DEF Texts, Thoughts
  <2>3. HasEnd(m, "message_stop") => m.buffer = <<>>
    <3>1. ASSUME HasEnd(m, "message_stop")
          PROVE  m.buffer = <<>>
      <4>1. m.ends # <<>> /\ m.ends # <<"error">>
        BY <3>1, EndsAre
      <4> QED
        BY <2>1, <4>1 DEF EndsWell
    <3> QED
      BY <3>1
  <2> HIDE DEF thoughts
  <2>4. thoughts \o (IF HasEnd(m, "message_stop") THEN <<>> ELSE m.buffer) = told.early
    BY <2>2, <2>3
  <2>5. TextArrivesWhole
    BY <1>1, <2>2, <2>4 DEF TextArrivesWhole, thoughts
  <2>6. ASSUME NEW c \in told.handed
        PROVE  \E k \in DOMAIN m.blocks :
                  /\ PlacesOf(m.blocks, c) = {k}
                  /\ \E n \in 0..told.sent[c] :
                        /\ m.blocks[k].pieces = UpTo(n)
                        /\ c \notin told.crossed => n = told.sent[c]
    <3>1. c \in TurnCalls \ Searches /\ c # NoCall
      BY <1>0, EgressAssumption DEF NoCall
    <3>2. PICK k \in DOMAIN m.blocks : m.blocks[k].call = c
      BY <2>1 DEF Backed
    <3>3. \A j \in DOMAIN m.blocks : m.blocks[j].call = c => j = k
      BY <2>1, <3>1, <3>2 DEF Shape, BlockFits
    <3>4. PlacesOf(m.blocks, c) = {k}
      BY <3>2, <3>3 DEF PlacesOf
    <3>5. CallTold(m, c, told.sent[c], c \in told.crossed)
      BY <2>1, <3>1 DEF ClientKnows
    <3>6. \E n \in 0..told.sent[c] :
             m.blocks[k].pieces = UpTo(n) /\ (c \notin told.crossed => n = told.sent[c])
      BY <3>2, <3>5 DEF CallTold
    <3> QED
      BY <3>4, <3>6
  <2>7. CallsArriveWhole
    BY <1>1, <2>6 DEF CallsArriveWhole
  <2> QED
    BY <2>5, <2>7 DEF NothingSaidIsLost
<1>2. CASE surface = "chat"
  <2>1. /\ chat.text = UpTo(told.text) /\ chat.reasoning = UpTo(told.reasoning)
        /\ CallsArrive(chat, told.sent, told.handed)
    BY <1>2 DEF EgressInv, ChatInv, ChatKnows
  <2>2. ASSUME NEW c \in told.handed
        PROVE  \E k \in DOMAIN chat.calls :
                  /\ PlacesOf(chat.calls, c) = {k} /\ chat.calls[k].named
                  /\ \E n \in 0..told.sent[c] :
                        chat.calls[k].pieces = UpTo(n) /\ n = told.sent[c]
    <3>1. PICK k \in DOMAIN chat.calls : chat.calls[k].call = c
      BY <1>0, <2>1 DEF CallsArrive, Registered, PlacesOf
    <3>2. PlacesOf(chat.calls, c) = {k}
      BY <2>1, <3>1 DEF CallsArrive, PlacesOf
    <3>3. chat.calls[k].named /\ chat.calls[k].pieces = UpTo(told.sent[c])
      BY <2>1, <3>1 DEF CallsArrive
    <3>4. told.sent[c] \in 0..told.sent[c]
      BY <1>0
    <3> QED
      BY <3>2, <3>3, <3>4
  <2>3. CallsArriveWhole
    BY <1>2, <2>2 DEF CallsArriveWhole
  <2> QED
    BY <1>2, <2>1, <2>3 DEF NothingSaidIsLost, TextArrivesWhole
<1> QED
  BY <1>1, <1>2 DEF EgressInv, EngineInv

\* Whatever mixture of text, reasoning, calls and searches run_turn emits over
\* its rounds, each converter's client has at every step what was said so far:
\* this is the induction the two theorems below rest on.
THEOREM EgressInvariant == EgressSpec => []EgressInv
<1>1. EgressInit => EgressInv
  BY EgressInitHolds
<1>2. EgressInv /\ [EgressNext]_egressVars => EgressInv'
  BY EgressSteps
<1> QED
  BY <1>1, <1>2, PTL DEF EgressSpec

\* A stream ends once, by a stop with no block open or by an error, only the
\* last block is open, thinking is signed, and the stop tells of calls exactly
\* when there are some to run.
THEOREM StreamConformsHolds == EgressSpec => []StreamConforms
<1>1. EgressInv => StreamConforms
  BY StreamIsConform
<1> QED
  BY <1>1, EgressInvariant, PTL

\* Every text delta reaches the client once and in order, reasoning up to the
\* first content too, and a call that is handed off is one call to the client,
\* with all its arguments unless others were streamed among them.
THEOREM NothingSaidIsLostHolds == EgressSpec => []NothingSaidIsLost
<1>1. EgressInv => NothingSaidIsLost
  BY NothingIsLost
<1> QED
  BY <1>1, EgressInvariant, PTL

=============================================================================
