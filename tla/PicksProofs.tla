----------------------------- MODULE PicksProofs -----------------------------
(***************************************************************************)
(* Lemmas about sequences that are filtered and joined, and induction over *)
(* a set of numbers.                                                       *)
(***************************************************************************)
EXTENDS Picks, TLAPS, FiniteSetTheorems, WellFoundedInduction

\* Induction, for a set of numbers.
LEMMA NatSets ==
    ASSUME NEW T \in SUBSET Nat, 0 \in T, \A n \in T : n + 1 \in T
    PROVE  T = Nat
<1> DEFINE U == Nat \ T
<1>1. ASSUME U # {}
      PROVE  FALSE
  <2>1. IsWellFoundedOn({ss \in Nat \X Nat : ss[1] < ss[2]}, Nat)
    BY NatLessThanWellFounded DEF OpToRel
  <2>2. PICK x \in U : \A y \in U : ~(<<y, x>> \in {ss \in Nat \X Nat : ss[1] < ss[2]})
    BY <1>1, <2>1, WFMin
  <2>3. x # 0 /\ x \in Nat /\ x \notin T /\ x - 1 \in Nat /\ x - 1 < x
    BY <2>2
  <2>4. x - 1 \in T
    BY <2>2, <2>3
  <2> QED
    BY <2>3, <2>4
<1> QED
  BY <1>1

\* A set of numbers has a least one.
LEMMA LeastOf ==
    ASSUME NEW T \in SUBSET Nat, T # {}
    PROVE  \E n \in T : \A m \in T : n <= m
<1>1. IsWellFoundedOn({ss \in Nat \X Nat : ss[1] < ss[2]}, Nat)
  BY NatLessThanWellFounded DEF OpToRel
<1>2. PICK x \in T : \A y \in T : ~(<<y, x>> \in {ss \in Nat \X Nat : ss[1] < ss[2]})
  BY <1>1, WFMin
<1>3. ASSUME NEW y \in T
      PROVE  x <= y
  <2>1. ~(<<y, x>> \in {ss \in Nat \X Nat : ss[1] < ss[2]})
    BY <1>2
  <2>2. x \in Nat /\ y \in Nat
    OBVIOUS
  <2> QED
    BY <2>1, <2>2
<1> QED
  BY <1>3

\* The fewest that are enough: so many, or all.
LEMMA LeastOrAll ==
    ASSUME NEW n \in Nat, NEW enough
    PROVE  \E k \in 0..n : (k \in enough \/ k = n) /\ \A j \in 0..(k - 1) : j \notin enough
<1> DEFINE T == {k \in 0..n : k \in enough \/ k = n}
<1>1. T \in SUBSET Nat /\ n \in T
  OBVIOUS
<1>2. PICK k \in T : \A m \in T : k <= m
  BY <1>1, LeastOf
<1>3. ASSUME NEW j \in 0..(k - 1)
      PROVE  j \notin enough
  BY <1>2
<1> QED
  BY <1>2, <1>3

\* A set of numbers up to n has a greatest one.
LEMMA GreatestOf ==
    ASSUME NEW n \in Nat, NEW T \in SUBSET (0..n), T # {}
    PROVE  \E x \in T : \A y \in T : y <= x
<1> DEFINE above == {m \in 0..n : \A y \in T : y <= m}
<1>1. n \in above /\ above \in SUBSET Nat
  OBVIOUS
<1>2. PICK x \in above : \A m \in above : x <= m
  BY <1>1, LeastOf
<1>3. x \in T
  <2>1. CASE x = 0
    <3>1. PICK y \in T : TRUE
      OBVIOUS
    <3>2. y = 0
      BY <1>2, <2>1
    <3> QED
      BY <2>1, <3>2
  <2>2. CASE x # 0
    <3>1. x \in Nat /\ x - 1 \in 0..n /\ ~(x <= x - 1)
      BY <1>2, <2>2
    <3>2. x - 1 \notin above
      BY <1>2, <3>1
    <3>3. PICK y \in T : ~(y <= x - 1)
      BY <3>1, <3>2
    <3>4. y <= x /\ y \in Nat
      BY <1>2
    <3>5. y = x
      BY <3>1, <3>3, <3>4
    <3> QED
      BY <3>5
  <2> QED
    BY <2>1, <2>2
<1> QED
  BY <1>2, <1>3

\* A function on 1..n is a sequence.
LEMMA FunctionIsSeq ==
    ASSUME NEW n \in Nat, NEW f, f = [k \in 1..n |-> f[k]]
    PROVE  f \in Seq({f[k] : k \in 1..n}) /\ Len(f) = n
OBVIOUS

LEMMA SeqsGrow ==
    ASSUME NEW S, NEW T, NEW s \in Seq(S), S \subseteq T
    PROVE  s \in Seq(T)
<1>1. Len(s) \in Nat /\ s \in [1..Len(s) -> S]
  OBVIOUS
<1>2. s \in [1..Len(s) -> T]
  BY <1>1
<1> QED
  BY <1>1, <1>2

LEMMA ConcatenationIsSeq ==
    ASSUME NEW S, NEW T, NEW s \in Seq(S), NEW t \in Seq(T)
    PROVE  s \o t \in Seq(S \cup T)
<1>1. s \in Seq(S \cup T)
  BY SeqsGrow
<1>2. t \in Seq(S \cup T)
  BY SeqsGrow
<1> QED
  BY <1>1, <1>2

\* What is picked is a sequence; the first place of all is picked first.
LEMMA PickedIsSeq ==
    ASSUME NEW s, NEW places, IsFiniteSet(places)
    PROVE  /\ Picked(s, places) \in Seq({Picked(s, places)[n] : n \in 1..Cardinality(places)})
           /\ Len(Picked(s, places)) = Cardinality(places)
<1>1. Cardinality(places) \in Nat
  BY FS_CardinalityType
<1>2. Picked(s, places) = [n \in 1..Cardinality(places) |-> Picked(s, places)[n]]
  BY DEF Picked
<1> HIDE DEF Picked
<1> QED
  BY <1>1, <1>2

LEMMA FirstsAreFinite ==
    ASSUME NEW s, NEW n \in Nat, DOMAIN s = 1..n
    PROVE  IsFiniteSet(Firsts(s)) /\ Firsts(s) \subseteq 1..n
<1>1. IsFiniteSet(1..n)
  BY FS_Interval
<1>2. Firsts(s) \in SUBSET (1..n)
  BY DEF Firsts
<1> QED
  BY <1>1, <1>2, FS_Subset

LEMMA PickedBegins ==
    ASSUME NEW s, NEW n \in Nat, n > 0, DOMAIN s = 1..n
    PROVE  /\ Cardinality(Firsts(s)) \in Nat \ {0}
           /\ Picked(s, Firsts(s))[1] = s[1]
<1> DEFINE upto(k) == {j \in Firsts(s) : j <= k}
<1>1. IsFiniteSet(Firsts(s)) /\ Firsts(s) \subseteq 1..n
  BY FirstsAreFinite
<1>2. 1 \in Firsts(s)
  BY DEF Firsts
<1>3. Cardinality(Firsts(s)) \in Nat \ {0}
  BY <1>1, <1>2, FS_CardinalityType, FS_EmptySet
<1>4. Cardinality(upto(1)) = 1
  <2>1. upto(1) = {1}
    BY <1>1, <1>2
  <2> QED
    BY <2>1, FS_Singleton
<1>5. ASSUME NEW k \in Firsts(s), Cardinality(upto(k)) = 1
      PROVE  k = 1
  <2>1. IsFiniteSet(upto(k))
    BY <1>1, FS_Subset
  <2>2. PICK x : upto(k) = {x}
    BY <1>5, <2>1, FS_Singleton
  <2>3. 1 \in upto(k) /\ k \in upto(k)
    BY <1>1, <1>2
  <2> QED
    BY <2>2, <2>3
<1>6. (CHOOSE k \in Firsts(s) : Cardinality({j \in Firsts(s) : j <= k}) = 1) = 1
  BY <1>2, <1>4, <1>5
<1>7. 1 \in 1..Cardinality(Firsts(s))
  BY <1>3
<1> QED
  BY <1>3, <1>6, <1>7 DEF Picked

\* Each place is picked once: its entry is where as many places come up to it.
LEMMA PickedPlaces ==
    ASSUME NEW s, NEW places \in SUBSET Nat, IsFiniteSet(places)
    PROVE  /\ Cardinality(places) \in Nat
           /\ \A k \in places :
                 /\ Cardinality({j \in places : j <= k}) \in 1..Cardinality(places)
                 /\ Picked(s, places)[Cardinality({j \in places : j <= k})] = s[k]
           /\ \A n \in 1..Cardinality(places) :
                 \E k \in places : Cardinality({j \in places : j <= k}) = n
<1> DEFINE upto(k) == {j \in places : j <= k}
           C == Cardinality(places)
           rank == [k \in places |-> Cardinality(upto(k))]
<1>1. C \in Nat
  BY FS_CardinalityType
<1>2. \A k \in places : /\ IsFiniteSet(upto(k)) /\ Cardinality(upto(k)) \in Nat
                        /\ Cardinality(upto(k)) <= C
  <2> TAKE k \in places
  <2>1. IsFiniteSet(upto(k)) /\ Cardinality(upto(k)) <= C
    BY FS_Subset
  <2> QED
    BY <2>1, FS_CardinalityType
<1>3. \A k \in places : Cardinality(upto(k)) # 0
  <2> TAKE k \in places
  <2>1. k \in upto(k)
    OBVIOUS
  <2> QED
    BY <1>2, <2>1, FS_EmptySet
<1>4. \A j, k \in places : j < k => Cardinality(upto(j)) # Cardinality(upto(k))
  <2> SUFFICES ASSUME NEW j \in places, NEW k \in places, j < k,
                      Cardinality(upto(j)) = Cardinality(upto(k))
               PROVE  FALSE
    OBVIOUS
  <2>1. \A i \in upto(j) : i \in upto(k)
    <3>1. \A i \in places : i \in Nat
      OBVIOUS
    <3> QED
      BY <3>1
  <2>2. upto(j) = upto(k)
    <3> HIDE DEF upto
    <3> QED
      BY <1>2, <2>1, FS_Subset
  <2>3. k \in upto(k) /\ k \notin upto(j)
    OBVIOUS
  <2> QED
    BY <2>2, <2>3
<1>5. rank \in [places -> 1..C]
  <2> HIDE DEF upto, C
  <2> QED
    BY <1>1, <1>2, <1>3
<1>6. \A j, k \in places : rank[j] = rank[k] => j = k
  BY <1>4
<1>7. rank \in Injection(places, 1..C)
  <2> HIDE DEF rank
  <2> QED
    BY <1>5, <1>6 DEF Injection, IsInjective
<1>8. IsFiniteSet(1..C) /\ Cardinality(1..C) = C
  BY <1>1, FS_Interval
<1>9. rank \in Surjection(places, 1..C)
  <2> HIDE DEF rank
  <2> QED
    BY <1>7, <1>8, FS_Injection
<1>10. \A n \in 1..C : \E k \in places : rank[k] = n
  <2> HIDE DEF rank
  <2> QED
    BY <1>9 DEF Surjection
<1> DEFINE place(n) == CHOOSE k \in places : Cardinality(upto(k)) = n
<1>11. \A n \in 1..C : place(n) \in places /\ rank[place(n)] = n
  BY <1>10
<1>12. \A k \in places : place(rank[k]) = k
  BY <1>5, <1>6, <1>11
<1>13. \A n \in 1..C : Picked(s, places)[n] = s[place(n)]
  BY DEF Picked
<1> HIDE DEF rank, place, upto
<1>14. \A k \in places : rank[k] \in 1..C /\ Picked(s, places)[rank[k]] = s[k]
  BY <1>5, <1>12, <1>13
<1>15. \A k \in places : rank[k] = Cardinality(upto(k))
  BY DEF rank
<1> QED
  BY ONLY <1>1, <1>10, <1>14, <1>15 DEF C, upto

\* What is picked are the entries at the places.
LEMMA PickedRange ==
    ASSUME NEW s, NEW places \in SUBSET Nat, IsFiniteSet(places)
    PROVE  {Picked(s, places)[n] : n \in 1..Cardinality(places)} = {s[k] : k \in places}
<1> DEFINE C == Cardinality(places)
           upto(k) == {j \in places : j <= k}
<1>1. /\ \A k \in places : Cardinality(upto(k)) \in 1..C /\ Picked(s, places)[Cardinality(upto(k))] = s[k]
      /\ \A n \in 1..C : \E k \in places : Cardinality(upto(k)) = n
  BY PickedPlaces
<1> HIDE DEF upto, C
<1>2. {Picked(s, places)[n] : n \in 1..C} \subseteq {s[k] : k \in places}
  <2>1. \A n \in 1..C : \E k \in places : Picked(s, places)[n] = s[k]
    BY <1>1
  <2> QED
    BY <2>1
<1>3. {s[k] : k \in places} \subseteq {Picked(s, places)[n] : n \in 1..C}
  BY <1>1
<1> QED
  BY ONLY <1>2, <1>3 DEF C

\* A sequence with one entry more, as a function.
IsLonger(r, s, x, n) ==
    /\ r = [i \in 1..(n + 1) |-> r[i]]
    /\ \A i \in 1..n : r[i] = s[i]
    /\ r[n + 1] = x

LEMMA AppendedIs ==
    ASSUME NEW S, NEW s \in Seq(S), NEW x, NEW n \in Nat, Len(s) = n
    PROVE  IsLonger(Append(s, x), s, x, n)
<1>1. s \in Seq(S \cup {x})
  BY SeqsGrow
<1>2. Append(s, x) \in Seq(S \cup {x}) /\ Len(Append(s, x)) = n + 1
  BY <1>1
<1>3. Append(s, x) = [i \in 1..(n + 1) |-> Append(s, x)[i]]
  <2> DEFINE r == Append(s, x)
             T == S \cup {x}
  <2>1. r \in Seq(T) /\ Len(r) = n + 1
    BY <1>2
  <2> HIDE DEF r, T
  <2>2. r = [i \in 1..(n + 1) |-> r[i]]
    BY <2>1
  <2> QED
    BY <2>2 DEF r
<1>4. \A i \in 1..n : Append(s, x)[i] = s[i]
  BY <1>1
<1>5. Append(s, x)[n + 1] = x
  BY <1>1
<1> QED
  BY <1>3, <1>4, <1>5 DEF IsLonger

\* One more entry, picked or not.
LEMMA PickedGrows ==
    ASSUME NEW n \in Nat, NEW s, NEW t, NEW places \in SUBSET (1..n),
           \A k \in 1..n : t[k] = s[k]
    PROVE  /\ Picked(t, places) = Picked(s, places)
           /\ Picked(t, places \cup {n + 1}) = Append(Picked(s, places), t[n + 1])
<1> DEFINE more == places \cup {n + 1}
           C == Cardinality(places)
           upto(k) == {j \in places : j <= k}
           uptoMore(k) == {j \in more : j <= k}
<1>1. /\ IsFiniteSet(places) /\ places \in SUBSET Nat
      /\ IsFiniteSet(more) /\ more \in SUBSET Nat /\ Cardinality(more) = C + 1
  <2>1. IsFiniteSet(1..n)
    BY FS_Interval
  <2>2. IsFiniteSet(places)
    BY <2>1, FS_Subset
  <2>3. n + 1 \notin places
    OBVIOUS
  <2> QED
    BY <2>2, <2>3, FS_AddElement
<1>2. C \in Nat
  BY <1>1, FS_CardinalityType
<1>3. /\ \A k \in places : Cardinality(upto(k)) \in 1..C /\ Picked(s, places)[Cardinality(upto(k))] = s[k]
      /\ \A i \in 1..C : \E k \in places : Cardinality(upto(k)) = i
  BY <1>1, PickedPlaces
<1>4. \A k \in places : Picked(t, places)[Cardinality(upto(k))] = t[k]
  BY <1>1, PickedPlaces
<1>5. \A k \in more : Picked(t, more)[Cardinality(uptoMore(k))] = t[k]
  <2> HIDE DEF more
  <2> QED
    BY <1>1, PickedPlaces DEF uptoMore
<1>6. \A k \in places : uptoMore(k) = upto(k)
  OBVIOUS
<1>7. Cardinality(uptoMore(n + 1)) = C + 1
  <2>1. \A j \in more : j <= n + 1
    OBVIOUS
  <2>2. uptoMore(n + 1) = more
    BY <2>1
  <2> QED
    BY <1>1, <2>2
<1>8. /\ Picked(s, places) = [i \in 1..C |-> Picked(s, places)[i]]
      /\ Picked(t, places) = [i \in 1..C |-> Picked(t, places)[i]]
      /\ Picked(t, more) = [i \in 1..(C + 1) |-> Picked(t, more)[i]]
  BY <1>1 DEF Picked
<1> HIDE DEF upto, uptoMore, C
<1>9. \A i \in 1..C : Picked(t, places)[i] = Picked(s, places)[i] /\ Picked(t, more)[i] = Picked(s, places)[i]
  <2> SUFFICES ASSUME NEW i \in 1..C
               PROVE  Picked(t, places)[i] = Picked(s, places)[i] /\ Picked(t, more)[i] = Picked(s, places)[i]
    OBVIOUS
  <2>1. PICK k \in places : Cardinality(upto(k)) = i
    BY <1>3
  <2>2. Cardinality(uptoMore(k)) = i /\ k \in more /\ t[k] = s[k]
    BY <1>6, <2>1
  <2> QED
    BY <1>3, <1>4, <1>5, <2>1, <2>2
<1>10. Picked(t, more)[C + 1] = t[n + 1]
  BY <1>5, <1>7
<1> HIDE DEF more
<1>11. Picked(t, places) = Picked(s, places)
  BY <1>8, <1>9
<1>12. Picked(t, more) = Append(Picked(s, places), t[n + 1])
  <2> DEFINE p == Picked(s, places)
             q == Picked(t, more)
  <2>1. p = [i \in 1..C |-> p[i]] /\ q = [i \in 1..(C + 1) |-> q[i]]
    BY <1>8
  <2>2. (\A i \in 1..C : q[i] = p[i]) /\ q[C + 1] = t[n + 1]
    BY <1>9, <1>10
  <2> HIDE DEF p, q
  <2>3. p \in Seq({p[i] : i \in 1..C}) /\ Len(p) = C
    BY <1>2, <2>1, FunctionIsSeq
  <2>4. \A i \in 1..(C + 1) : i = C + 1 \/ i \in 1..C
    BY <1>2
  <2> DEFINE x == t[n + 1]
  <2> HIDE DEF x
  <2> DEFINE r == Append(p, x)
             S == {p[i] : i \in 1..C}
  <2>5. /\ r = [i \in 1..(C + 1) |-> r[i]]
        /\ \A i \in 1..C : r[i] = p[i]
        /\ r[C + 1] = x
    <3>1. p \in Seq(S) /\ Len(p) = C
      BY <2>3
    <3> HIDE DEF S
    <3>2. IsLonger(r, p, x, C)
      BY <1>2, <3>1, AppendedIs
    <3> HIDE DEF r
    <3> QED
      BY <3>2 DEF IsLonger
  <2> HIDE DEF r
  <2>6. \A i \in 1..(C + 1) : q[i] = r[i]
    BY <2>2, <2>4, <2>5 DEF x
  <2>7. q = r
    BY ONLY <2>1, <2>5, <2>6
  <2> QED
    BY ONLY <2>7 DEF p, q, r, x
<1> QED
  BY <1>11, <1>12 DEF more

\* So a sequence of the entries there, as long as there are places.
LEMMA PickedFacts ==
    ASSUME NEW s, NEW places, places \in SUBSET Nat, IsFiniteSet(places)
    PROVE  /\ Picked(s, places) \in Seq({s[k] : k \in places})
           /\ Len(Picked(s, places)) = Cardinality(places)
           /\ \A n \in 1..Cardinality(places) : \E k \in places : Picked(s, places)[n] = s[k]
           /\ \A k \in places : \E n \in 1..Cardinality(places) : Picked(s, places)[n] = s[k]
<1> DEFINE picked == Picked(s, places)
<1>1. /\ picked \in Seq({picked[n] : n \in 1..Cardinality(places)})
      /\ Len(picked) = Cardinality(places)
  BY PickedIsSeq
<1>2. {picked[n] : n \in 1..Cardinality(places)} = {s[k] : k \in places}
  BY PickedRange
<1> HIDE DEF picked
<1>3. picked \in Seq({s[k] : k \in places})
  BY <1>1, <1>2
<1>4. \A n \in 1..Cardinality(places) : \E k \in places : picked[n] = s[k]
  BY <1>2
<1>5. \A k \in places : \E n \in 1..Cardinality(places) : picked[n] = s[k]
  BY <1>2
<1> QED
  BY <1>1, <1>3, <1>4, <1>5 DEF picked
=============================================================================
