----------------------------- MODULE TurnProofs -----------------------------
(***************************************************************************)
(* Proofs about the parts of a turn.  About TurnLoop, for all ceilings and *)
(* any number of calls in an answer: a turn's requests are bounded, a      *)
(* forced choice is used once, the repair counters tell how the turn went, *)
(* every call is answered, and what is replayed is what the client saw.    *)
(* About ToolStream, for any calls, fragment sizes and caps: what the      *)
(* client may not see never reaches it.  About SseGuard, for any cap,      *)
(* answer and way to cut it into chunks: its verdict is the answer's own.  *)
(***************************************************************************)
EXTENDS TurnLoop, ToolStream, SseGuard, PicksProofs, SequenceTheorems

Pcs == {"sending", "streaming", "answered", "emitted", "calling",
        "completing", "finishing"} \cup Ended

\* What the control of the loop depends on.
LoopTypes ==
    /\ pc \in Pcs
    /\ requests \in Nat
    /\ rounds \in [search : Nat, image : Nat, repair : Nat]
    /\ repairing \in BOOLEAN
    /\ choice \in {"forced", "auto"}
    /\ answer \in [text : BOOLEAN, calls : Seq(Call)]
    /\ next \in Nat
    /\ counts \in [repaired : Nat, exhausted : Nat]

\* Every request but the first was asked for by a round that counted.
RequestsPaid ==
    /\ pc # "failed" =>
          /\ rounds.search < SearchLimit
          /\ rounds.image < ImageCeiling
          /\ rounds.repair <= RepairCeiling
          /\ requests <= (IF pc = "sending" THEN 0 ELSE 1)
                            + rounds.repair + rounds.search + rounds.image
    /\ pc = "calling" => answer.calls # <<>>

BoundInv == LoopTypes /\ RequestsPaid /\ LoopIsBounded

ChoiceInv ==
    /\ LoopTypes
    /\ requests > 1 \/ (pc = "sending" /\ requests > 0) => choice = "auto"

\* Every repair is counted or still pending, and none is pending once a clean
\* answer is handled.
RepairInv ==
    /\ LoopTypes
    /\ counts.exhausted = (IF pc = "exhausted" THEN 1 ELSE 0)
    /\ counts.repaired + (IF repairing THEN 1 ELSE 0) <= rounds.repair
    /\ rounds.repair > 0 => counts.repaired > 0 \/ repairing
    /\ pc \in {"calling", "completing", "finishing", "completed"} => ~repairing

-----------------------------------------------------------------------------

\* A batch of answers is a sequence of calls.
LEMMA CallsAreCalls ==
    ASSUME LoopTypes, NEW n \in Nat, NEW kinds \in [1..n -> Kinds]
    PROVE  Batch(kinds) \in Seq(Call)
<1>1. DOMAIN kinds = 1..n
  OBVIOUS
<1>2. \A k \in 1..n : <<requests, k>> \in Nat \X Nat
  BY DEF LoopTypes
<1>3. \A k \in 1..n : [id |-> <<requests, k>>, kind |-> kinds[k]] \in Call
  BY <1>2 DEF Call
<1>4. Batch(kinds) \in [1..n -> Call]
  BY <1>1, <1>3 DEF Batch
<1> QED
  BY <1>4

\* At least one search is allowed.
LEMMA LimitIsPositive == SearchLimit \in Nat /\ SearchLimit > 0
BY TurnLoopAssumption DEF SearchLimit

\* Counters that are bumped stay counters.
LEMMA CountersTyped ==
    /\ \A c \in [repaired : Nat, exhausted : Nat] : \A n \in Nat :
          /\ [c EXCEPT !.repaired = n] \in [repaired : Nat, exhausted : Nat]
          /\ [c EXCEPT !.exhausted = n] \in [repaired : Nat, exhausted : Nat]
          /\ c.repaired + 1 \in Nat /\ c.exhausted + 1 \in Nat
    /\ \A r \in [search : Nat, image : Nat, repair : Nat] : \A n \in Nat :
          /\ [r EXCEPT !.repair = n] \in [search : Nat, image : Nat, repair : Nat]
          /\ r.repair + 1 \in Nat
OBVIOUS

\* The control state keeps its types.
LEMMA TypesStep == LoopTypes /\ [Next]_vars => LoopTypes'
<1> SUFFICES ASSUME LoopTypes, [Next]_vars PROVE LoopTypes'
  OBVIOUS
<1> USE DEF LoopTypes, Pcs, Ended
<1>1. CASE Send
  BY <1>1 DEF Send, Goto
<1>2. CASE Finalize
  <2>1. PICK text \in BOOLEAN, n \in 0..MaxCalls : \E kinds \in [1..n -> Kinds] :
           answer' = [text |-> text, calls |-> Batch(kinds)]
    BY <1>2 DEF Finalize
  <2>2. PICK kinds \in [1..n -> Kinds] :
           answer' = [text |-> text, calls |-> Batch(kinds)]
    BY <2>1
  <2>3. n \in Nat
    BY TurnLoopAssumption
  <2>4. Batch(kinds) \in Seq(Call)
    BY <2>3, CallsAreCalls DEF LoopTypes
  <2> QED
    BY <1>2, <2>2, <2>4 DEF Finalize, Goto
<1>3. CASE AnswerFails \/ EmitItems
  BY <1>3 DEF AnswerFails, EmitItems, Goto
<1>4. CASE Repair
  <2>1. rounds' = [rounds EXCEPT !.repair = rounds.repair + 1]
    BY <1>4 DEF Repair, Again
  <2> HIDE DEF LoopTypes, Pcs, Ended
  <2>a. rounds \in [search : Nat, image : Nat, repair : Nat]
    BY DEF LoopTypes
  <2>2. rounds' \in [search : Nat, image : Nat, repair : Nat]
    BY <2>1, <2>a, CountersTyped
  <2>3. pc' = "sending" /\ choice' = "auto" /\ repairing' = TRUE
    BY <1>4 DEF Repair, Again, Goto
  <2>4. UNCHANGED <<requests, answer, next, counts>>
    BY <1>4 DEF Repair, Again
  <2> QED
    BY <2>2, <2>3, <2>4 DEF LoopTypes, Pcs
<1>41. CASE Exhaust
  <2>1. counts' = [counts EXCEPT !.exhausted = counts.exhausted + 1]
    BY <1>41 DEF Exhaust
  <2> HIDE DEF LoopTypes, Pcs, Ended
  <2>a. counts \in [repaired : Nat, exhausted : Nat]
    BY DEF LoopTypes
  <2>2. counts' \in [repaired : Nat, exhausted : Nat]
    BY <2>1, <2>a, CountersTyped
  <2>3. pc' = "exhausted"
    BY <1>41 DEF Exhaust, Goto
  <2>4. UNCHANGED <<requests, rounds, repairing, choice, answer, next>>
    BY <1>41 DEF Exhaust
  <2> QED
    BY <2>2, <2>3, <2>4 DEF LoopTypes, Pcs, Ended
<1>42. CASE Clean
  <2>1. counts' = [counts EXCEPT !.repaired =
                      IF repairing THEN counts.repaired + 1 ELSE counts.repaired]
    BY <1>42 DEF Clean, Untainted
  <2> HIDE DEF LoopTypes, Pcs, Ended
  <2>a. /\ counts \in [repaired : Nat, exhausted : Nat]
        /\ counts.repaired \in Nat
    BY DEF LoopTypes
  <2>b. PICK n \in Nat : counts' = [counts EXCEPT !.repaired = n]
    BY <2>1, <2>a, CountersTyped
  <2>2. counts' \in [repaired : Nat, exhausted : Nat]
    BY <2>a, <2>b, CountersTyped
  <2>3. pc' \in {"completing", "calling"} /\ repairing' = FALSE
    BY <1>42 DEF Clean, Untainted, Goto
  <2>4. UNCHANGED <<requests, rounds, choice, answer, next>>
    BY <1>42 DEF Clean, Untainted
  <2> QED
    BY <2>2, <2>3, <2>4 DEF LoopTypes, Pcs
<1>5. CASE MixedBatch \/ SearchFails \/ HandedOff
  BY <1>5 DEF MixedBatch, SearchFails, HandedOff, Goto
<1>6. CASE HandOff \/ RunSearch \/ RunImage
  <2>1. /\ next' = next + 1
        /\ UNCHANGED <<pc, requests, rounds, repairing, choice, answer, counts>>
    BY <1>6 DEF HandOff, RunSearch, RunImage, Handle
  <2> QED
    BY <2>1
<1>7. CASE ServerToolsRan
  <2> DEFINE searches == IF HasKind("search") THEN rounds.search + 1 ELSE rounds.search
             images == IF HasKind("image") /\ ~SearchSpent
                       THEN rounds.image + 1 ELSE rounds.image
  <2>a. searches \in Nat /\ images \in Nat
    OBVIOUS
  <2>1. rounds' = [rounds EXCEPT !.search = searches, !.image = images]
    BY <1>7 DEF ServerToolsRan
  <2> HIDE DEF searches, images
  <2>2. rounds' \in [search : Nat, image : Nat, repair : Nat]
    BY <2>a, <2>1
  <2>3. choice' \in {"forced", "auto"} /\ pc' \in {"failed", "sending"}
    BY <1>7 DEF ServerToolsRan, Goto
  <2>4. UNCHANGED <<requests, repairing, answer, next, counts>>
    BY <1>7 DEF ServerToolsRan
  <2> QED
    BY <2>2, <2>3, <2>4
<1>8. CASE Store \/ Complete \/ Cancel
  BY <1>8 DEF Store, Complete, Cancel, Goto
<1>9. CASE Over \/ UNCHANGED vars
  BY <1>9 DEF Over, vars
<1> QED
  BY <1>1, <1>2, <1>3, <1>4, <1>41, <1>42, <1>5, <1>6, <1>7, <1>8, <1>9 DEF Next

\* A turn begins well typed.
LEMMA TypesInit == Init => LoopTypes
<1>1. NoAnswer \in [text : BOOLEAN, calls : Seq(Call)]
  BY DEF NoAnswer
<1>2. Init => pc \in Pcs
  BY DEF Init, Pcs
<1>a. Init => requests \in Nat /\ next \in Nat /\ choice \in {"forced", "auto"}
  BY DEF Init
<1>b. Init => repairing \in BOOLEAN
  BY Zenon DEF Init
<1>3. Init => /\ rounds \in [search : Nat, image : Nat, repair : Nat]
              /\ counts \in [repaired : Nat, exhausted : Nat]
  BY DEF Init
<1>4. Init => answer = NoAnswer
  BY DEF Init
<1> QED
  BY <1>1, <1>2, <1>a, <1>b, <1>3, <1>4 DEF LoopTypes

-----------------------------------------------------------------------------
\* A batch of server tools has a search or an image call.
LEMMA ServerToolsCount ==
    ASSUME LoopTypes, answer.calls # <<>>, ~HasClientTool
    PROVE  HasKind("search") \/ HasKind("image")
<1>1. answer.calls \in Seq(Call) /\ 1 \in DOMAIN answer.calls
  BY DEF LoopTypes
<1>2. answer.calls[1] \in ToSet(answer.calls)
  BY <1>1 DEF ToSet
<1>3. IsServerTool(answer.calls[1])
  BY <1>2 DEF HasClientTool
<1> QED
  BY <1>2, <1>3 DEF IsServerTool, HasKind

\* Every step pays for its request.
LEMMA BoundStep == BoundInv /\ [Next]_vars => BoundInv'
<1> SUFFICES ASSUME BoundInv, [Next]_vars PROVE BoundInv'
  OBVIOUS
<1> USE TurnLoopAssumption, LimitIsPositive DEF RequestsPaid, LoopIsBounded, MaxRequests
<1>a. LoopTypes /\ LoopTypes' /\ RequestsPaid /\ LoopIsBounded
  BY TypesStep DEF BoundInv
<1>b. SearchLimit' = SearchLimit
  BY DEF SearchLimit
<1> USE <1>a, <1>b DEF LoopTypes
<1>1. CASE Send
  BY <1>1 DEF Send, Goto, BoundInv
<1>2. CASE Finalize
  BY <1>2 DEF Finalize, Goto, BoundInv
<1>3. CASE AnswerFails \/ EmitItems
  BY <1>3 DEF AnswerFails, EmitItems, Goto, BoundInv
<1>4. CASE Repair
  <2> HIDE DEF LoopTypes, RequestsPaid, LoopIsBounded, MaxRequests
  <2>1. rounds' = [rounds EXCEPT !.repair = rounds.repair + 1]
    BY <1>4 DEF Repair, Again
  <2>a. rounds \in [search : Nat, image : Nat, repair : Nat] /\ requests \in Nat
    BY DEF LoopTypes
  <2>2. /\ rounds'.repair = rounds.repair + 1
        /\ rounds'.search = rounds.search /\ rounds'.image = rounds.image
    BY <2>1, <2>a
  <2>3. /\ pc = "emitted" /\ pc' = "sending" /\ requests' = requests
        /\ rounds.repair < RepairCeiling
    BY <1>4 DEF Repair, Again, Goto
  <2>4. /\ rounds.search < SearchLimit /\ rounds.image < ImageCeiling
        /\ requests <= 1 + rounds.repair + rounds.search + rounds.image
    BY <2>3 DEF RequestsPaid
  <2>5. RequestsPaid'
    BY <2>2, <2>3, <2>4, <2>a DEF RequestsPaid
  <2>6. requests < MaxRequests
    BY <2>2, <2>3, <2>4, <2>a DEF MaxRequests
  <2>7. LoopIsBounded'
    BY <2>3, <2>6, <2>a DEF LoopIsBounded, MaxRequests
  <2> QED
    BY <2>5, <2>7 DEF BoundInv
<1>5. CASE Exhaust \/ Clean
  BY <1>5 DEF Exhaust, Clean, Untainted, Goto, BoundInv
<1>6. CASE MixedBatch \/ SearchFails \/ HandedOff
  BY <1>6 DEF MixedBatch, SearchFails, HandedOff, Goto, BoundInv
<1>7. CASE HandOff \/ RunSearch \/ RunImage
  BY <1>7 DEF HandOff, RunSearch, RunImage, Handle, BoundInv
<1>8. CASE ServerToolsRan
  <2>1. pc = "calling" /\ ~HasClientTool
    BY <1>8 DEF ServerToolsRan, Goto
  <2>2. HasKind("search") \/ HasKind("image")
    BY <2>1, ServerToolsCount
  <2>3. CASE SearchSpent \/ ImageSpent
    BY <1>8, <2>3 DEF ServerToolsRan, Goto, BoundInv
  <2>4. CASE ~SearchSpent /\ ~ImageSpent
    <3> HIDE DEF LoopTypes, RequestsPaid, LoopIsBounded, MaxRequests
    <3> DEFINE searches == IF HasKind("search") THEN rounds.search + 1 ELSE rounds.search
               images == IF HasKind("image") THEN rounds.image + 1 ELSE rounds.image
    <3>n. /\ rounds \in [search : Nat, image : Nat, repair : Nat]
          /\ requests \in Nat
          /\ rounds.search \in Nat /\ rounds.image \in Nat /\ rounds.repair \in Nat
      BY DEF LoopTypes
    <3>r. /\ rounds.search < SearchLimit /\ rounds.image < ImageCeiling
          /\ rounds.repair <= RepairCeiling
          /\ requests <= 1 + rounds.repair + rounds.search + rounds.image
      BY <2>1 DEF RequestsPaid
    <3>1. /\ HasKind("search") => rounds.search + 1 < SearchLimit
          /\ HasKind("image") => rounds.image + 1 < ImageCeiling
      BY <2>4, <3>n DEF SearchSpent, ImageSpent
    <3>a. pc' = "sending" /\ requests' = requests
      BY <1>8, <2>4 DEF ServerToolsRan, Goto
    <3>b. rounds' = [rounds EXCEPT !.search = searches, !.image = images]
      BY <1>8, <2>4 DEF ServerToolsRan
    <3>c. /\ searches \in {rounds.search, rounds.search + 1}
          /\ HasKind("search") => searches = rounds.search + 1
          /\ images \in {rounds.image, rounds.image + 1}
          /\ HasKind("image") => images = rounds.image + 1
      OBVIOUS
    <3>d. searches < SearchLimit /\ images < ImageCeiling
      BY <3>1, <3>r
    <3> HIDE DEF searches, images
    <3>3. /\ searches \in Nat /\ images \in Nat
          /\ searches < SearchLimit /\ images < ImageCeiling
          /\ searches + images >= rounds.search + rounds.image + 1
      BY <2>2, <3>c, <3>d, <3>n
    <3>2. /\ rounds'.search = searches /\ rounds'.image = images
          /\ rounds'.repair = rounds.repair
      BY <3>b, <3>n
    <3>5. requests' <= rounds'.repair + rounds'.search + rounds'.image
      BY <3>a, <3>n, <3>r, <3>2, <3>3
    <3>6. RequestsPaid'
      BY <3>a, <3>n, <3>r, <3>2, <3>3, <3>5 DEF RequestsPaid
    <3>m. MaxRequests = RepairCeiling + SearchLimit + ImageCeiling - 1 /\ MaxRequests' = MaxRequests
      BY DEF MaxRequests
    <3>e. requests <= rounds.repair + searches + images
      BY <3>a, <3>2, <3>5
    <3>7. requests' < MaxRequests'
      BY <3>n, <3>a, <3>e, <3>m, <3>r, <3>3
    <3>8. LoopIsBounded'
      BY <3>7, <3>n, <3>a DEF LoopIsBounded, MaxRequests
    <3> QED
      BY <3>6, <3>8 DEF BoundInv
  <2> QED
    BY <2>3, <2>4
<1>9. CASE Store \/ Complete
  BY <1>9 DEF Store, Complete, Goto, BoundInv
<1>91. CASE Cancel
  <2>1. pc # "failed" /\ pc' = "cancelled" /\ UNCHANGED <<requests, rounds>>
    BY <1>91 DEF Cancel, Ended
  <2> HIDE DEF LoopTypes, RequestsPaid, LoopIsBounded, MaxRequests
  <2>n. /\ requests \in Nat /\ rounds.search \in Nat /\ rounds.image \in Nat
        /\ rounds.repair \in Nat
    BY DEF LoopTypes
  <2>2. RequestsPaid'
    BY <2>1, <2>n DEF RequestsPaid
  <2>3. LoopIsBounded'
    BY <2>1, <2>n DEF LoopIsBounded, MaxRequests
  <2> QED
    BY <2>2, <2>3 DEF BoundInv
<1>10. CASE Over \/ UNCHANGED vars
  BY <1>10 DEF Over, vars, BoundInv
<1> QED
  BY <1>1, <1>2, <1>3, <1>4, <1>5, <1>6, <1>7, <1>8, <1>9, <1>91, <1>10 DEF Next

\* However a model mixes unoffered calls, searches and image calls, the turn
\* sends no more requests than its three ceilings allow together.
THEOREM TurnIsBounded == Spec => []LoopIsBounded
<1>1. Init => BoundInv
  BY TypesInit, TurnLoopAssumption, LimitIsPositive
     DEF Init, BoundInv, RequestsPaid, LoopIsBounded, MaxRequests
<1>2. BoundInv => LoopIsBounded
  BY DEF BoundInv
<1> QED
  BY <1>1, <1>2, BoundStep, PTL DEF Spec

-----------------------------------------------------------------------------
\* The choice the client forced goes out with the first request only.
THEOREM ForcedChoiceOnce == Spec => []ForcedOnce
<1>1. Init => ChoiceInv
  BY TypesInit DEF Init, ChoiceInv
<1>2. ChoiceInv /\ [Next]_vars => ChoiceInv'
  <2> SUFFICES ASSUME ChoiceInv, [Next]_vars PROVE ChoiceInv'
    OBVIOUS
  <2>a. LoopTypes /\ LoopTypes'
    BY TypesStep DEF ChoiceInv
  <2>b. requests \in Nat
    BY <2>a DEF LoopTypes
  <2> USE <2>a, <2>b DEF ChoiceInv
  <2>1. CASE Send
    BY <2>1 DEF Send, Goto
  <2>2. CASE Finalize \/ AnswerFails \/ EmitItems
    BY <2>2 DEF Finalize, AnswerFails, EmitItems, Goto
  <2>3. CASE Repair \/ Exhaust \/ Clean
    BY <2>3 DEF Repair, Again, Exhaust, Clean, Untainted, Goto
  <2>4. CASE MixedBatch \/ SearchFails \/ HandedOff \/ ServerToolsRan
    BY <2>4 DEF MixedBatch, SearchFails, HandedOff, ServerToolsRan, Goto
  <2>5. CASE HandOff \/ RunSearch \/ RunImage
    BY <2>5 DEF HandOff, RunSearch, RunImage, Handle
  <2>6. CASE Store \/ Complete \/ Cancel
    BY <2>6 DEF Store, Complete, Cancel, Goto
  <2>7. CASE Over \/ UNCHANGED vars
    BY <2>7 DEF Over, vars
  <2> QED
    BY <2>1, <2>2, <2>3, <2>4, <2>5, <2>6, <2>7 DEF Next
<1>3. ChoiceInv => ForcedOnce
  BY DEF ChoiceInv, ForcedOnce
<1> QED
  BY <1>1, <1>2, <1>3, PTL DEF Spec

-----------------------------------------------------------------------------
\* A turn is counted as exhausted iff it ended so, and a completed turn as
\* repaired iff it went through a repair round.
THEOREM RepairCountsHold == Spec => []RepairsAreCounted
<1>1. Init => RepairInv
  BY TypesInit DEF Init, RepairInv
<1>2. RepairInv /\ [Next]_vars => RepairInv'
  <2> SUFFICES ASSUME RepairInv, [Next]_vars PROVE RepairInv'
    OBVIOUS
  <2>a. LoopTypes /\ LoopTypes'
    BY TypesStep DEF RepairInv
  <2> USE <2>a DEF RepairInv, LoopTypes
  <2>1. CASE Send
    BY <2>1 DEF Send, Goto
  <2>2. CASE Finalize \/ AnswerFails \/ EmitItems
    BY <2>2 DEF Finalize, AnswerFails, EmitItems, Goto
  <2>3. CASE Repair
    BY <2>3 DEF Repair, Again, Goto
  <2>4. CASE Exhaust
    BY <2>4 DEF Exhaust, Goto
  <2>5. CASE Clean
    BY <2>5 DEF Clean, Untainted, Goto
  <2>6. CASE MixedBatch \/ SearchFails \/ HandedOff
    BY <2>6 DEF MixedBatch, SearchFails, HandedOff, Goto
  <2>7. CASE ServerToolsRan
    BY <2>7 DEF ServerToolsRan, Goto
  <2>8. CASE HandOff \/ RunSearch \/ RunImage
    BY <2>8 DEF HandOff, RunSearch, RunImage, Handle
  <2>9. CASE Store \/ Complete \/ Cancel
    BY <2>9 DEF Store, Complete, Cancel, Goto, Ended
  <2>10. CASE Over \/ UNCHANGED vars
    BY <2>10 DEF Over, vars
  <2> QED
    BY <2>1, <2>2, <2>3, <2>4, <2>5, <2>6, <2>7, <2>8, <2>9, <2>10 DEF Next
<1>3. RepairInv => RepairsAreCounted
  BY DEF RepairInv, RepairsAreCounted, LoopTypes
<1> QED
  BY <1>1, <1>2, <1>3, PTL DEF Spec

-----------------------------------------------------------------------------
\* Where an item that is not a message may be: client calls are shown last.
Shown(item) ==
    item.kind # "message" =>
        /\ item.kind \in {"client", "search"}
        /\ item.id[1] <= requests
        /\ pc \in {"streaming", "answered", "emitted"} => item.id[1] < requests
        /\ Tainted => item.id[1] < requests
        /\ item.kind = "client" =>
              /\ item.id[1] = requests
              /\ pc \notin {"sending", "streaming", "answered", "emitted"}
              /\ pc = "calling" => HasClientTool

SurfaceInv ==
    /\ LoopTypes
    /\ next >= 1
    /\ wire \in Seq(Item)
    /\ pc \in {"answered", "emitted", "calling"} =>
          \A k \in DOMAIN answer.calls : answer.calls[k].id[1] = requests
    /\ pc \in {"calling", "completing", "finishing", "completed"} => ~Tainted
    /\ \A i \in DOMAIN wire : Shown(wire[i])

\* An item put at the end of a sequence.
LEMMA OneMoreItem ==
    ASSUME NEW s \in Seq(Item), NEW x \in Item
    PROVE  /\ s \o <<x>> \in Seq(Item)
           /\ \A i \in DOMAIN (s \o <<x>>) :
                 (s \o <<x>>)[i] = x \/ (i \in DOMAIN s /\ (s \o <<x>>)[i] = s[i])
OBVIOUS

\* The call being made is one of the answer's, of a known kind.
LEMMA CurrentIsCall ==
    ASSUME SurfaceInv, Calling
    PROVE  /\ Current \in ToSet(answer.calls)
           /\ Current \in Call /\ Current \in Item
           /\ Current.kind \in Kinds
           /\ Current.id[1] = requests
           /\ Current.kind # "unknown"
<1>1. answer.calls \in Seq(Call) /\ next \in DOMAIN answer.calls /\ pc = "calling"
  BY DEF SurfaceInv, LoopTypes, Calling
<1>2. Current \in ToSet(answer.calls) /\ Current \in Call
  BY <1>1 DEF ToSet, Current
<1>3. Current \in Item /\ Current.kind \in Kinds
  BY <1>2 DEF Item, Call
<1>4. Current.id[1] = requests
  BY <1>1 DEF SurfaceInv, Current
<1>5. ~IsRejected(Current)
  BY <1>1, <1>2 DEF SurfaceInv, Tainted
<1> QED
  BY <1>2, <1>3, <1>4, <1>5 DEF IsRejected

\* Every step that leaves the answer and the request alone.
LEMMA SameAnswer ==
    ASSUME UNCHANGED <<answer, requests>>
    PROVE  /\ Tainted' <=> Tainted
           /\ HasClientTool' <=> HasClientTool
           /\ HasServerTool' <=> HasServerTool
BY DEF Tainted, HasClientTool, HasServerTool, IsServerTool, IsRejected

\* A call that is handled is shown as the last item, or not at all.
LEMMA HandledStep ==
    ASSUME SurfaceInv, LoopTypes', HandOff \/ RunSearch \/ RunImage
    PROVE  SurfaceInv'
<1>1. /\ Calling /\ pc = "calling" /\ pc' = "calling"
      /\ UNCHANGED <<answer, requests>> /\ next' = next + 1
  BY DEF HandOff, RunSearch, RunImage, Handle, Calling
<1>2. /\ Tainted' <=> Tainted
      /\ HasClientTool' <=> HasClientTool
      /\ ~Tainted /\ next \in Nat /\ next >= 1
  BY <1>1, SameAnswer DEF SurfaceInv, LoopTypes
<1>3. /\ next' >= 1
      /\ \A k \in DOMAIN answer'.calls : answer'.calls[k].id[1] = requests'
  BY <1>1, <1>2 DEF SurfaceInv
<1>4. \A item \in Item : Shown(item) => Shown(item)'
  BY <1>1, <1>2 DEF Shown
<1>5. CASE RunImage
  <2>1. wire' = wire \o <<>>
    BY <1>5 DEF RunImage, Handle
  <2>2. wire' = wire
    BY <2>1 DEF SurfaceInv
  <2>3. (\A i \in DOMAIN wire : Shown(wire[i]))'
    <3>1. \A i \in DOMAIN wire : wire[i] \in Item /\ Shown(wire[i])
      BY DEF SurfaceInv
    <3>2. TAKE i \in DOMAIN wire'
    <3>3. PICK x \in Item : x = wire[i] /\ Shown(x)
      BY <2>2, <3>1
    <3>4. Shown(x)'
      BY <1>4, <3>3
    <3> QED
      BY <2>2, <3>3, <3>4 DEF Shown
  <2> QED
    BY <1>1, <1>2, <1>3, <2>2, <2>3 DEF SurfaceInv
<1>6. CASE HandOff \/ RunSearch
  <2>1. PICK x \in Item : x = Current
    BY <1>1, CurrentIsCall
  <2>2. wire' = wire \o <<x>>
    BY <1>6, <2>1 DEF HandOff, RunSearch, Handle
  <2>3. /\ x.id[1] = requests /\ x \in ToSet(answer.calls)
        /\ x.kind \in Kinds /\ x.kind # "unknown"
    BY <1>1, <2>1, CurrentIsCall
  <2>4. x.kind = "search" \/ (x.kind = "client" /\ HasClientTool)
    <3>1. CASE RunSearch
      BY <2>1, <3>1 DEF RunSearch
    <3>2. CASE HandOff
      <4>1. ~IsServerTool(x)
        BY <2>3, <3>2 DEF HandOff, HasServerTool
      <4>2. HasClientTool
        BY <2>3, <4>1 DEF HasClientTool
      <4>3. x.kind \in {"client", "search", "image"}
        BY <2>3 DEF Kinds
      <4>4. x.kind # "image"
        BY <4>1 DEF IsServerTool
      <4> QED
        BY <4>2, <4>3, <4>4
    <3> QED
      BY <1>6, <3>1, <3>2
  <2>5. requests \in Nat
    BY DEF SurfaceInv, LoopTypes
  <2>6. Shown(x)'
    BY <1>1, <1>2, <2>3, <2>4, <2>5 DEF Shown
  <2>7. /\ wire' \in Seq(Item)
        /\ \A i \in DOMAIN wire' :
              wire'[i] = x \/ (i \in DOMAIN wire /\ wire'[i] = wire[i])
    BY <2>2, OneMoreItem DEF SurfaceInv
  <2>8. (\A i \in DOMAIN wire : Shown(wire[i]))'
    <3>1. \A i \in DOMAIN wire : wire[i] \in Item /\ Shown(wire[i])
      BY DEF SurfaceInv
    <3>2. TAKE i \in DOMAIN wire'
    <3>3. PICK y \in Item : y = wire'[i] /\ (y = x \/ Shown(y))
      BY <2>7, <3>1
    <3>4. Shown(y)'
      BY <1>4, <2>6, <3>3
    <3> QED
      BY <3>3, <3>4 DEF Shown
  <2> QED
    BY <1>1, <1>2, <1>3, <2>7, <2>8 DEF SurfaceInv
<1> QED
  BY <1>5, <1>6

\* The round's text is the only item that can come before its calls.
LEMMA EmittedStep ==
    ASSUME SurfaceInv, LoopTypes', EmitItems
    PROVE  SurfaceInv'
<1>1. /\ pc = "answered" /\ pc' = "emitted" /\ next' = next
      /\ UNCHANGED <<answer, requests>>
  BY DEF EmitItems, Goto
<1>2. requests \in Nat /\ next \in Nat
  BY DEF SurfaceInv, LoopTypes
<1>3. Tainted' <=> Tainted
  BY <1>1, SameAnswer
<1>a. <<requests, 0>> \in Nat \X Nat
  BY <1>2
<1>b. Text \in Item /\ Text.kind = "message"
  BY <1>a DEF Text, Item
<1>4. PICK x \in Item : x = Text /\ x.kind = "message"
  BY <1>b
<1>5. wire' = wire \/ wire' = wire \o <<x>>
  <2>1. wire' = wire \o (IF answer.text THEN <<x>> ELSE <<>>)
    BY <1>4 DEF EmitItems
  <2> QED
    BY <2>1 DEF SurfaceInv
<1>6. /\ wire' \in Seq(Item)
      /\ \A i \in DOMAIN wire' :
            wire'[i] = x \/ (i \in DOMAIN wire /\ wire'[i] = wire[i])
  <2>1. CASE wire' = wire
    BY <2>1 DEF SurfaceInv
  <2>2. CASE wire' = wire \o <<x>>
    BY <2>2, OneMoreItem DEF SurfaceInv
  <2> QED
    BY <1>5, <2>1, <2>2
<1>7. \A y \in Item : Shown(y) => Shown(y)'
  BY <1>1, <1>3 DEF Shown
<1>8. (\A i \in DOMAIN wire : Shown(wire[i]))'
  <2>1. \A i \in DOMAIN wire : wire[i] \in Item /\ Shown(wire[i])
    BY DEF SurfaceInv
  <2>2. TAKE i \in DOMAIN wire'
  <2>3. PICK y \in Item : y = wire'[i] /\ (y = x \/ Shown(y))
    BY <1>6, <2>1
  <2>4. Shown(y)'
    BY <1>4, <1>7, <2>3 DEF Shown
  <2> QED
    BY <2>3, <2>4 DEF Shown
<1> QED
  BY <1>1, <1>2, <1>6, <1>8 DEF SurfaceInv

\* Every other step shows nothing.
LEMMA SilentStep ==
    ASSUME SurfaceInv, LoopTypes', UNCHANGED wire, next' >= 1,
           pc' \in {"answered", "emitted", "calling"} =>
              \A k \in DOMAIN answer'.calls : answer'.calls[k].id[1] = requests',
           pc' \in {"calling", "completing", "finishing", "completed"} => ~Tainted',
           \A x \in Item : Shown(x) => Shown(x)'
    PROVE  SurfaceInv'
<1>1. (\A i \in DOMAIN wire : Shown(wire[i]))'
  <2>1. \A i \in DOMAIN wire : wire[i] \in Item /\ Shown(wire[i])
    BY DEF SurfaceInv
  <2>2. TAKE i \in DOMAIN wire'
  <2>3. PICK y \in Item : y = wire'[i] /\ Shown(y)
    BY <2>1
  <2>4. Shown(y)'
    BY <2>3
  <2> QED
    BY <2>3, <2>4 DEF Shown
<1> QED
  BY <1>1 DEF SurfaceInv

\* No step shows or calls what it may not.
LEMMA SurfaceStep == SurfaceInv /\ [Next]_vars => SurfaceInv'
<1> SUFFICES ASSUME SurfaceInv, [Next]_vars PROVE SurfaceInv'
  OBVIOUS
<1>a. LoopTypes' /\ requests \in Nat /\ next \in Nat /\ next >= 1
  BY TypesStep DEF SurfaceInv, LoopTypes
<1>b. \A x \in Item : x.id[1] \in Nat
  BY DEF Item
<1>1. CASE Send
  <2>1. /\ pc = "sending" /\ pc' = "streaming" /\ requests' = requests + 1
        /\ UNCHANGED <<answer, next, wire>>
    BY <1>1 DEF Send, Goto
  <2>2. \A x \in Item : Shown(x) => Shown(x)'
    BY <1>a, <1>b, <2>1 DEF Shown
  <2> QED
    BY <1>a, <2>1, <2>2, SilentStep
<1>2. CASE Finalize
  <2>1. /\ pc = "streaming" /\ pc' = "answered" /\ next' = 1
        /\ UNCHANGED <<requests, wire>>
    BY <1>2 DEF Finalize, Goto
  <2>2. \A k \in DOMAIN answer'.calls : answer'.calls[k].id[1] = requests'
    BY <1>2, <2>1 DEF Finalize, Batch
  <2>3. \A x \in Item : Shown(x) => Shown(x)'
    BY <1>a, <1>b, <2>1 DEF Shown
  <2> QED
    BY <1>a, <2>1, <2>2, <2>3, SilentStep
<1>3. CASE EmitItems
  BY <1>3, <1>a, EmittedStep
<1>4. CASE HandOff \/ RunSearch \/ RunImage
  BY <1>4, <1>a, HandledStep
<1>5. CASE Repair \/ Exhaust \/ Clean
  <2>1. /\ pc = "emitted" /\ UNCHANGED <<requests, answer, next, wire>>
        /\ pc' \in {"sending", "exhausted", "completing", "calling"}
        /\ pc' \in {"completing", "calling"} => ~Tainted
    BY <1>5 DEF Repair, Again, Exhaust, Clean, Untainted, Goto
  <2>2. /\ Tainted' <=> Tainted
        /\ HasClientTool' <=> HasClientTool
    BY <2>1, SameAnswer
  <2>3. \A x \in Item : Shown(x) => Shown(x)'
    BY <2>1, <2>2 DEF Shown
  <2>4. \A k \in DOMAIN answer'.calls : answer'.calls[k].id[1] = requests'
    BY <2>1 DEF SurfaceInv
  <2> QED
    BY <1>a, <2>1, <2>2, <2>3, <2>4, SilentStep
<1>6. CASE AnswerFails \/ MixedBatch \/ SearchFails \/ Cancel
  <2>1. /\ pc' \in {"failed", "cancelled"}
        /\ UNCHANGED <<requests, answer, next, wire>>
    BY <1>6 DEF AnswerFails, MixedBatch, SearchFails, Cancel, Goto
  <2>2. Tainted' <=> Tainted
    BY <2>1, SameAnswer
  <2>3. \A x \in Item : Shown(x) => Shown(x)'
    BY <2>1, <2>2 DEF Shown
  <2> QED
    BY <1>a, <2>1, <2>3, SilentStep
<1>7. CASE HandedOff \/ ServerToolsRan
  <2>1. /\ pc = "calling" /\ UNCHANGED <<requests, answer, next, wire>>
        /\ pc' \in {"completing", "failed", "sending"}
        /\ pc' = "sending" => ~HasClientTool
    BY <1>7 DEF HandedOff, ServerToolsRan, Goto
  <2>2. ~Tainted /\ ~Tainted'
    BY <2>1, SameAnswer DEF SurfaceInv
  <2>3. \A x \in Item : Shown(x) => Shown(x)'
    BY <2>1, <2>2 DEF Shown
  <2> QED
    BY <1>a, <2>1, <2>2, <2>3, SilentStep
<1>8. CASE Store \/ Complete
  <2>1. /\ pc \in {"completing", "finishing"} /\ pc' \in {"finishing", "completed"}
        /\ UNCHANGED <<requests, answer, next, wire>>
    BY <1>8 DEF Store, Complete, Goto
  <2>2. ~Tainted /\ ~Tainted'
    BY <2>1, SameAnswer DEF SurfaceInv
  <2>3. \A x \in Item : Shown(x) => Shown(x)'
    BY <2>1, <2>2 DEF Shown
  <2> QED
    BY <1>a, <2>1, <2>2, <2>3, SilentStep
<1>9. CASE Over \/ UNCHANGED vars
  <2>1. UNCHANGED <<pc, requests, answer, next, wire>>
    BY <1>9 DEF Over, vars
  <2>2. /\ Tainted' <=> Tainted
        /\ HasClientTool' <=> HasClientTool
    BY <2>1, SameAnswer
  <2>3. \A x \in Item : Shown(x) => Shown(x)'
    BY <2>1, <2>2 DEF Shown
  <2>4. /\ pc' \in {"answered", "emitted", "calling"} =>
              \A k \in DOMAIN answer'.calls : answer'.calls[k].id[1] = requests'
        /\ pc' \in {"calling", "completing", "finishing", "completed"} => ~Tainted'
    BY <2>1, <2>2 DEF SurfaceInv
  <2> QED
    BY <1>a, <2>1, <2>3, <2>4, SilentStep
<1> QED
  BY <1>1, <1>2, <1>3, <1>4, <1>5, <1>6, <1>7, <1>8, <1>9 DEF Next

\* No image call and no part of a discarded batch is shown to the client, and
\* the calls it is handed are those of the turn's last answer.
THEOREM InternalsStayInside == Spec => []NothingInternalSurfaces
<1>1. Init => SurfaceInv
  <2> SUFFICES ASSUME Init PROVE SurfaceInv
    OBVIOUS
  <2>1. LoopTypes
    BY TypesInit
  <2>2. wire = <<>> /\ next = 1 /\ pc = "sending"
    BY DEF Init
  <2> QED
    BY <2>1, <2>2 DEF SurfaceInv
<1>2. SurfaceInv => NothingInternalSurfaces
  <2> SUFFICES ASSUME SurfaceInv PROVE NothingInternalSurfaces
    OBVIOUS
  <2>1. \A i \in DOMAIN wire : wire[i] \in Item /\ Shown(wire[i])
    BY DEF SurfaceInv
  <2> QED
    BY <2>1 DEF NothingInternalSurfaces, Shown
<1> QED
  BY <1>1, <1>2, SurfaceStep, PTL DEF Spec

-----------------------------------------------------------------------------
(* Every call is answered.                                                 *)

\* A history that may be sent upstream.
WellFormed(ms) ==
    /\ \A i \in DOMAIN ms : ms[i].role = "assistant" => AnsweredAt(ms, i, ms[i].ids)
    /\ \A i \in DOMAIN ms : ms[i].role = "tool" =>
          \E j \in 1..(i - 1) : ms[j].role = "assistant" /\ i - j <= Len(ms[j].ids)

\* What was answered stays answered when messages are added.
LEMMA AnsweredStays ==
    ASSUME NEW ms \in Seq(Message), NEW more \in Seq(Message), NEW i \in DOMAIN ms,
           AnsweredAt(ms, i, ms[i].ids)
    PROVE  AnsweredAt(ms \o more, i, (ms \o more)[i].ids)
<1> DEFINE all == ms \o more
           ids == ms[i].ids
<1>1. /\ all \in Seq(Message) /\ Len(all) = Len(ms) + Len(more)
      /\ \A k \in 1..Len(ms) : all[k] = ms[k]
  BY ConcatProperties
<1> HIDE DEF all
<1>2. Len(ids) \in Nat /\ i \in 1..Len(ms) /\ all[i] = ms[i]
  <2>1. ms[i] \in Message
    OBVIOUS
  <2>2. ids \in Seq(Nat \X Nat)
    BY <2>1 DEF Message
  <2> QED
    BY <1>1, <2>2
<1>3. /\ i + Len(ids) <= Len(ms)
      /\ \A k \in 1..Len(ids) : ms[i + k].role = "tool"
      /\ {ms[i + k].ids[1] : k \in 1..Len(ids)} = ToSet(ids)
  BY DEF AnsweredAt
<1> HIDE DEF ids
<1>4. \A k \in 1..Len(ids) : all[i + k] = ms[i + k]
  <2>1. \A k \in 1..Len(ids) : i + k \in 1..Len(ms)
    BY <1>2, <1>3
  <2> QED
    BY <1>1, <2>1
<1>5. {all[i + k].ids[1] : k \in 1..Len(ids)} = {ms[i + k].ids[1] : k \in 1..Len(ids)}
  BY <1>4
<1>6. i + Len(ids) <= Len(all)
  BY <1>1, <1>2, <1>3
<1>7. AnsweredAt(all, i, ids)
  BY <1>3, <1>4, <1>5, <1>6 DEF AnsweredAt
<1> QED
  BY <1>2, <1>7 DEF all, ids

\* What the model is told besides leaves the history well formed.
LEMMA NotesAreFine ==
    ASSUME NEW ms \in Seq(Message), WellFormed(ms), NEW x \in Message,
           x.role \notin {"assistant", "tool"}
    PROVE  WellFormed(ms \o <<x>>) /\ ms \o <<x>> \in Seq(Message)
<1> DEFINE all == ms \o <<x>>
<1>1. <<x>> \in Seq(Message) /\ Len(<<x>>) = 1
  OBVIOUS
<1>2. /\ all \in Seq(Message) /\ Len(all) = Len(ms) + 1
      /\ \A k \in 1..Len(ms) : all[k] = ms[k]
      /\ all[Len(ms) + 1] = x
  BY <1>1, ConcatProperties
<1>3. \A i \in DOMAIN all : all[i].role \in {"assistant", "tool"} =>
          i \in 1..Len(ms) /\ i \in DOMAIN ms /\ all[i] = ms[i]
  BY <1>2
<1>4. ASSUME NEW i \in DOMAIN all, all[i].role = "assistant"
      PROVE  AnsweredAt(all, i, all[i].ids)
  <2>1. i \in DOMAIN ms /\ all[i] = ms[i]
    BY <1>3, <1>4
  <2> QED
    BY <1>1, <1>4, <2>1, AnsweredStays DEF WellFormed
<1>5. ASSUME NEW i \in DOMAIN all, all[i].role = "tool"
      PROVE  \E j \in 1..(i - 1) : all[j].role = "assistant" /\ i - j <= Len(all[j].ids)
  <2>1. i \in 1..Len(ms) /\ i \in DOMAIN ms /\ all[i] = ms[i]
    BY <1>3, <1>5
  <2>2. PICK j \in 1..(i - 1) : ms[j].role = "assistant" /\ i - j <= Len(ms[j].ids)
    BY <1>5, <2>1 DEF WellFormed
  <2>3. all[j] = ms[j]
    BY <1>2, <2>1
  <2> QED
    BY <2>2, <2>3
<1> QED
  BY <1>2, <1>4, <1>5 DEF WellFormed

\* A batch of calls with as many results, one for each of them.
LEMMA ExchangesAreFine ==
    ASSUME NEW ms \in Seq(Message), WellFormed(ms), NEW calls \in Seq(Call),
           NEW results \in Seq(Message), Len(results) = Len(calls),
           \A k \in DOMAIN results : results[k].role = "tool",
           {results[k].ids[1] : k \in DOMAIN results} = {calls[k].id : k \in DOMAIN calls}
    PROVE  /\ Assistant(calls) \in Message
           /\ WellFormed((ms \o <<Assistant(calls)>>) \o results)
           /\ (ms \o <<Assistant(calls)>>) \o results \in Seq(Message)
<1> DEFINE asking == Assistant(calls)
           upto == ms \o <<asking>>
           all == upto \o results
           n == Len(ms)
           ids == [k \in DOMAIN calls |-> calls[k].id]
<1>1. /\ ids \in Seq(Nat \X Nat) /\ Len(ids) = Len(calls)
      /\ ToSet(ids) = {calls[k].id : k \in DOMAIN calls}
  <2>1. \A k \in DOMAIN calls : calls[k].id \in Nat \X Nat
    <3>1. \A k \in DOMAIN calls : calls[k] \in Call
      OBVIOUS
    <3> QED
      BY <3>1 DEF Call
  <2>2. Len(calls) \in Nat /\ DOMAIN calls = 1..Len(calls)
    OBVIOUS
  <2> QED
    BY <2>1, <2>2 DEF ToSet
<1>2. asking \in Message /\ asking.role = "assistant" /\ asking.ids = ids
  BY <1>1 DEF Assistant, Message
<1> HIDE DEF asking, ids
<1>3. n \in Nat /\ Len(results) \in Nat /\ DOMAIN results = 1..Len(results)
  OBVIOUS
<1>4. /\ upto \in Seq(Message) /\ Len(upto) = n + 1
      /\ \A k \in 1..n : upto[k] = ms[k]
      /\ upto[n + 1] = asking
  <2>1. <<asking>> \in Seq(Message) /\ Len(<<asking>>) = 1
    BY <1>2
  <2> QED
    BY <1>3, <2>1, ConcatProperties
<1>5. /\ all \in Seq(Message) /\ Len(all) = n + 1 + Len(results)
      /\ \A k \in 1..(n + 1) : all[k] = upto[k]
      /\ \A k \in 1..Len(results) : all[n + 1 + k] = results[k]
  <2> HIDE DEF upto
  <2>1. /\ all \in Seq(Message) /\ Len(all) = Len(upto) + Len(results)
        /\ \A k \in 1..(Len(upto) + Len(results)) :
              all[k] = IF k <= Len(upto) THEN upto[k] ELSE results[k - Len(upto)]
    <3>1. upto \in Seq(Message)
      BY <1>4
    <3> QED
      BY <3>1, ConcatProperties
  <2> HIDE DEF all
  <2>2. \A k \in 1..(n + 1) : all[k] = upto[k]
    BY <1>3, <1>4, <2>1
  <2>3. \A k \in 1..Len(results) : all[n + 1 + k] = results[k]
    <3>1. \A k \in 1..Len(results) : n + 1 + k \in 1..(n + 1 + Len(results))
              /\ ~(n + 1 + k <= n + 1) /\ (n + 1 + k) - (n + 1) = k
      BY <1>3
    <3> QED
      BY <1>4, <2>1, <3>1
  <2> QED
    BY <1>4, <2>1, <2>2, <2>3
<1> HIDE DEF all, upto
<1>6. AnsweredAt(all, n + 1, ids)
  <2>1. \A k \in 1..Len(ids) : all[n + 1 + k] = results[k]
    BY <1>1, <1>5
  <2>2. {all[n + 1 + k].ids[1] : k \in 1..Len(ids)} = ToSet(ids)
    <3>1. {all[n + 1 + k].ids[1] : k \in 1..Len(ids)} = {results[k].ids[1] : k \in DOMAIN results}
      <4>1. 1..Len(ids) = DOMAIN results
        BY <1>1, <1>3
      <4>2. \A k \in 1..Len(ids) : all[n + 1 + k].ids[1] = results[k].ids[1]
        BY <2>1
      <4>3. {all[n + 1 + k].ids[1] : k \in 1..Len(ids)} = {results[k].ids[1] : k \in 1..Len(ids)}
        BY <4>2
      <4> QED
        BY <4>1, <4>3
    <3> QED
      BY <1>1, <3>1
  <2>3. n + 1 + Len(ids) <= Len(all)
    BY <1>1, <1>3, <1>5
  <2> QED
    BY <1>1, <1>3, <2>1, <2>2, <2>3 DEF AnsweredAt
<1>7. ASSUME NEW i \in DOMAIN all, all[i].role = "assistant"
      PROVE  AnsweredAt(all, i, all[i].ids)
  <2>0. i \in 1..(n + 1 + Len(results))
    BY <1>5
  <2>1. CASE i = n + 1
    <3>1. n + 1 \in 1..(n + 1)
      BY <1>3
    <3>2. all[i].ids = ids
      BY <1>2, <1>4, <1>5, <2>1, <3>1
    <3> QED
      BY <1>6, <2>1, <3>2
  <2>2. CASE i \in 1..n
    <3>1. i \in DOMAIN ms /\ upto[i] = ms[i] /\ all[i] = ms[i] /\ i \in DOMAIN upto
      BY <1>3, <1>4, <1>5, <2>2
    <3>2. AnsweredAt(ms, i, ms[i].ids)
      BY <1>7, <3>1 DEF WellFormed
    <3>3. <<asking>> \in Seq(Message)
      BY <1>2
    <3>4. AnsweredAt(upto, i, upto[i].ids)
      BY <3>1, <3>2, <3>3, AnsweredStays DEF upto
    <3> QED
      BY <1>4, <3>1, <3>4, AnsweredStays DEF all
  <2>3. CASE i > n + 1
    <3>1. i - (n + 1) \in 1..Len(results) /\ all[i] = results[i - (n + 1)]
      BY <1>3, <1>5, <2>0, <2>3
    <3> QED
      BY <1>3, <1>7, <3>1
  <2> QED
    BY <1>3, <2>0, <2>1, <2>2, <2>3
<1>8. ASSUME NEW i \in DOMAIN all, all[i].role = "tool"
      PROVE  \E j \in 1..(i - 1) : all[j].role = "assistant" /\ i - j <= Len(all[j].ids)
  <2>0. i \in 1..(n + 1 + Len(results))
    BY <1>5
  <2>1. CASE i \in 1..n
    <3>1. i \in DOMAIN ms /\ all[i] = ms[i]
      BY <1>3, <1>4, <1>5, <2>1
    <3>2. PICK j \in 1..(i - 1) : ms[j].role = "assistant" /\ i - j <= Len(ms[j].ids)
      BY <1>8, <3>1 DEF WellFormed
    <3>3. j \in 1..n /\ j \in 1..(n + 1)
      BY <1>3, <2>1
    <3>4. all[j] = ms[j]
      BY <1>4, <1>5, <3>3
    <3> QED
      BY <3>2, <3>4
  <2>2. CASE i = n + 1
    BY <1>2, <1>3, <1>4, <1>5, <1>8, <2>2
  <2>3. CASE i > n + 1
    <3>1. all[n + 1] = asking /\ n + 1 \in 1..(i - 1) /\ i - (n + 1) <= Len(ids)
      BY <1>1, <1>3, <1>4, <1>5, <2>0, <2>3
    <3> QED
      BY <1>2, <3>1
  <2> QED
    BY <1>3, <2>0, <2>1, <2>2, <2>3
<1>9. WellFormed(all)
  BY <1>7, <1>8 DEF WellFormed
<1> QED
  BY <1>2, <1>5, <1>9 DEF asking, all, upto

\* The results of a batch answer its calls, in their order.
LEMMA ResultsAreResults ==
    ASSUME NEW calls \in Seq(Call)
    PROVE  /\ Results(calls) \in Seq(Message) /\ Len(Results(calls)) = Len(calls)
           /\ \A k \in 1..Len(calls) : /\ Results(calls)[k].role = "tool"
                                       /\ Results(calls)[k].ids[1] = calls[k].id
                                       /\ Results(calls)[k].ids = <<calls[k].id>>
<1>1. Len(calls) \in Nat /\ DOMAIN calls = 1..Len(calls)
  OBVIOUS
<1>2. \A c \in Call : /\ Result(c) \in Message /\ Result(c).role = "tool"
                      /\ Result(c).ids[1] = c.id /\ Result(c).ids = <<c.id>>
  BY DEF Call, Message, Result
<1>3. \A k \in 1..Len(calls) : calls[k] \in Call
  OBVIOUS
<1>4. Results(calls) = [k \in 1..Len(calls) |-> Result(calls[k])]
  BY <1>1 DEF Results
<1>5. \A k \in 1..Len(calls) : Results(calls)[k] \in Message
  BY <1>2, <1>3, <1>4
<1>6. Results(calls) \in [1..Len(calls) -> Message]
  BY <1>4, <1>5
<1> QED
  BY <1>1, <1>2, <1>3, <1>4, <1>6

\* Calls that are picked by their places.
LEMMA PickedCalls ==
    ASSUME NEW calls \in Seq(Call), NEW places, places \in SUBSET (1..Len(calls))
    PROVE  /\ Picked(calls, places) \in Seq(Call)
           /\ Len(Picked(calls, places)) = Cardinality(places)
           /\ {Picked(calls, places)[n] : n \in 1..Cardinality(places)} = {calls[k] : k \in places}
<1> DEFINE there == {calls[k] : k \in places}
<1>1. Len(calls) \in Nat /\ places \in SUBSET Nat
  OBVIOUS
<1>2. IsFiniteSet(places)
  <2>1. IsFiniteSet(1..Len(calls))
    BY <1>1, FS_Interval
  <2> QED
    BY <2>1, FS_Subset
<1>3. there \subseteq Call
  OBVIOUS
<1>4. Picked(calls, places) \in Seq(there)
  BY <1>1, <1>2, PickedFacts
<1>5. Len(Picked(calls, places)) = Cardinality(places)
  BY <1>1, <1>2, PickedFacts
<1>6. {Picked(calls, places)[n] : n \in 1..Cardinality(places)} = there
  BY <1>1, <1>2, PickedRange
<1> HIDE DEF there
<1>7. Picked(calls, places) \in Seq(Call)
  BY <1>3, <1>4, SeqsGrow
<1> QED
  BY <1>5, <1>6, <1>7 DEF there

\* A batch is the calls that were offered and those that were not.
LEMMA BatchSplits ==
    ASSUME LoopTypes
    PROVE  /\ Valid \in Seq(Call) /\ Rejected \in Seq(Call)
           /\ Len(Valid) + Len(Rejected) = Len(answer.calls)
           /\ \A n \in 1..Len(Valid) :
                 \E k \in DOMAIN answer.calls : Valid[n] = answer.calls[k]
           /\ \A n \in 1..Len(Rejected) :
                 \E k \in DOMAIN answer.calls : Rejected[n] = answer.calls[k]
           /\ \A k \in DOMAIN answer.calls :
                 \/ \E n \in 1..Len(Valid) : Valid[n] = answer.calls[k]
                 \/ \E n \in 1..Len(Rejected) : Rejected[n] = answer.calls[k]
<1> DEFINE calls == answer.calls
           all == DOMAIN calls
           left == all \ RejectedAt
<1>1. calls \in Seq(Call) /\ Len(calls) \in Nat /\ all = 1..Len(calls)
  BY DEF LoopTypes
<1>2. RejectedAt \subseteq all
  BY DEF RejectedAt
<1>3. IsFiniteSet(all) /\ Cardinality(all) = Len(calls)
  BY <1>1, FS_Interval
<1>4. IsFiniteSet(RejectedAt) /\ IsFiniteSet(left)
  BY <1>2, <1>3, FS_Subset
<1>5. Cardinality(left) + Cardinality(RejectedAt) = Len(calls)
  <2>1. left \cap RejectedAt = {} /\ left \cup RejectedAt = all
    BY <1>2
  <2>2. Cardinality(left) \in Nat /\ Cardinality(RejectedAt) \in Nat
    BY <1>4, FS_CardinalityType
  <2>3. Cardinality(left \cup RejectedAt)
           = Cardinality(left) + Cardinality(RejectedAt) - Cardinality(left \cap RejectedAt)
    BY <1>4, FS_Union
  <2>4. Cardinality(left \cap RejectedAt) = 0 /\ Cardinality(left \cup RejectedAt) = Len(calls)
    BY <1>3, <2>1, FS_EmptySet
  <2> HIDE DEF left, calls
  <2> QED
    BY <2>2, <2>3, <2>4
<1>6. /\ Valid \in Seq(Call) /\ Len(Valid) = Cardinality(left)
      /\ \A n \in 1..Len(Valid) : \E k \in left : Valid[n] = calls[k]
      /\ \A k \in left : \E n \in 1..Len(Valid) : Valid[n] = calls[k]
  <2>1. left \in SUBSET (1..Len(calls)) /\ Valid = Picked(calls, left)
    BY <1>1 DEF Valid
  <2> HIDE DEF left, calls, all
  <2>2. Picked(calls, left) \in Seq(Call)
    BY <1>1, <2>1, PickedCalls
  <2>3. Len(Picked(calls, left)) = Cardinality(left)
    BY <1>1, <2>1, PickedCalls
  <2>4. {Picked(calls, left)[n] : n \in 1..Cardinality(left)} = {calls[k] : k \in left}
    BY <1>1, <2>1, PickedCalls
  <2>5. \A n \in 1..Len(Valid) : \E k \in left : Valid[n] = calls[k]
    BY <2>1, <2>3, <2>4
  <2>6. \A k \in left : \E n \in 1..Len(Valid) : Valid[n] = calls[k]
    BY <2>1, <2>3, <2>4
  <2> QED
    BY <2>1, <2>2, <2>3, <2>5, <2>6
<1>7. /\ Rejected \in Seq(Call) /\ Len(Rejected) = Cardinality(RejectedAt)
      /\ \A n \in 1..Len(Rejected) : \E k \in RejectedAt : Rejected[n] = calls[k]
      /\ \A k \in RejectedAt : \E n \in 1..Len(Rejected) : Rejected[n] = calls[k]
  <2>1. RejectedAt \in SUBSET (1..Len(calls)) /\ Rejected = Picked(calls, RejectedAt)
    BY <1>1, <1>2 DEF Rejected
  <2> HIDE DEF left, calls, all
  <2>2. Picked(calls, RejectedAt) \in Seq(Call)
    BY <1>1, <2>1, PickedCalls
  <2>3. Len(Picked(calls, RejectedAt)) = Cardinality(RejectedAt)
    BY <1>1, <2>1, PickedCalls
  <2>4. {Picked(calls, RejectedAt)[n] : n \in 1..Cardinality(RejectedAt)} = {calls[k] : k \in RejectedAt}
    BY <1>1, <2>1, PickedCalls
  <2>5. \A n \in 1..Len(Rejected) : \E k \in RejectedAt : Rejected[n] = calls[k]
    BY <2>1, <2>3, <2>4
  <2>6. \A k \in RejectedAt : \E n \in 1..Len(Rejected) : Rejected[n] = calls[k]
    BY <2>1, <2>3, <2>4
  <2> QED
    BY <2>1, <2>2, <2>3, <2>5, <2>6
<1>11. \A k \in all : k \in left \/ k \in RejectedAt
  OBVIOUS
<1> QED
  BY <1>2, <1>5, <1>6, <1>7, <1>11

\* Offered or not, every call of a discarded batch gets its result.
LEMMA RepairsAnswerAll ==
    ASSUME LoopTypes
    PROVE  LET results == Results(Valid) \o Results(Rejected)
           IN  /\ results \in Seq(Message) /\ Len(results) = Len(answer.calls)
               /\ \A k \in DOMAIN results : results[k].role = "tool"
               /\ \A k \in DOMAIN results : results[k].ids = <<results[k].ids[1]>>
               /\ {results[k].ids[1] : k \in DOMAIN results}
                     = {answer.calls[k].id : k \in DOMAIN answer.calls}
<1> DEFINE results == Results(Valid) \o Results(Rejected)
           v == Results(Valid)
           r == Results(Rejected)
<1>1. /\ Valid \in Seq(Call) /\ Rejected \in Seq(Call)
      /\ Len(Valid) + Len(Rejected) = Len(answer.calls)
      /\ \A n \in 1..Len(Valid) :
            \E k \in DOMAIN answer.calls : Valid[n] = answer.calls[k]
      /\ \A n \in 1..Len(Rejected) :
            \E k \in DOMAIN answer.calls : Rejected[n] = answer.calls[k]
      /\ \A k \in DOMAIN answer.calls :
            \/ \E n \in 1..Len(Valid) : Valid[n] = answer.calls[k]
            \/ \E n \in 1..Len(Rejected) : Rejected[n] = answer.calls[k]
  BY BatchSplits
<1>2. /\ v \in Seq(Message) /\ Len(v) = Len(Valid)
      /\ \A k \in 1..Len(Valid) : v[k].role = "tool" /\ v[k].ids[1] = Valid[k].id
      /\ \A k \in 1..Len(Valid) : v[k].ids = <<Valid[k].id>>
  BY <1>1, ResultsAreResults
<1>3. /\ r \in Seq(Message) /\ Len(r) = Len(Rejected)
      /\ \A k \in 1..Len(Rejected) : r[k].role = "tool" /\ r[k].ids[1] = Rejected[k].id
      /\ \A k \in 1..Len(Rejected) : r[k].ids = <<Rejected[k].id>>
  BY <1>1, ResultsAreResults
<1>4. Len(Valid) \in Nat /\ Len(Rejected) \in Nat
  BY <1>1
<1> HIDE DEF v, r
<1>5. /\ v \o r \in Seq(Message) /\ Len(v \o r) = Len(v) + Len(r)
      /\ \A k \in 1..(Len(v) + Len(r)) :
            (v \o r)[k] = IF k <= Len(v) THEN v[k] ELSE r[k - Len(v)]
  <2>1. v \in Seq(Message) /\ r \in Seq(Message)
    BY <1>2, <1>3
  <2> QED
    BY <2>1, ConcatProperties
<1>6. results = v \o r
  BY DEF v, r
<1> HIDE DEF results
<1>7. /\ results \in Seq(Message) /\ Len(results) = Len(answer.calls)
      /\ DOMAIN results = 1..(Len(Valid) + Len(Rejected))
  BY <1>1, <1>2, <1>3, <1>4, <1>5, <1>6
<1>8. \A k \in 1..Len(Valid) : k \in DOMAIN results /\ results[k] = v[k]
  BY <1>2, <1>3, <1>4, <1>5, <1>6, <1>7
<1>9. \A k \in 1..Len(Rejected) :
          /\ Len(Valid) + k \in DOMAIN results
          /\ results[Len(Valid) + k] = r[k]
  <2>1. \A k \in 1..Len(Rejected) :
            /\ Len(Valid) + k \in 1..(Len(Valid) + Len(Rejected))
            /\ ~(Len(Valid) + k <= Len(Valid)) /\ (Len(Valid) + k) - Len(Valid) = k
    BY <1>4
  <2> QED
    BY <1>2, <1>3, <1>5, <1>6, <1>7, <2>1
<1>10. \A k \in DOMAIN results :
          \/ k \in 1..Len(Valid)
          \/ \E m \in 1..Len(Rejected) : k = Len(Valid) + m
  <2> TAKE k \in DOMAIN results
  <2>1. k \in 1..Len(Valid) \/ k - Len(Valid) \in 1..Len(Rejected)
    BY <1>4, <1>7
  <2>2. k = Len(Valid) + (k - Len(Valid))
    BY <1>4, <1>7
  <2> QED
    BY <2>1, <2>2
<1>11. \A k \in DOMAIN results : results[k].role = "tool"
  <2> TAKE k \in DOMAIN results
  <2>1. CASE k \in 1..Len(Valid)
    BY <1>2, <1>8, <2>1
  <2>2. ASSUME NEW n \in 1..Len(Rejected), k = Len(Valid) + n
        PROVE  results[k].role = "tool"
    BY <1>3, <1>9, <2>2
  <2> QED
    BY <1>10, <2>1, <2>2
<1>12. ASSUME NEW k \in DOMAIN results
       PROVE  \E m \in DOMAIN answer.calls : results[k].ids[1] = answer.calls[m].id
  <2>1. CASE k \in 1..Len(Valid)
    <3>1. PICK m \in DOMAIN answer.calls : Valid[k] = answer.calls[m]
      BY <1>1, <2>1
    <3> QED
      BY <1>2, <1>8, <2>1, <3>1
  <2>2. ASSUME NEW n \in 1..Len(Rejected), k = Len(Valid) + n
        PROVE  \E m \in DOMAIN answer.calls : results[k].ids[1] = answer.calls[m].id
    <3>1. PICK m \in DOMAIN answer.calls : Rejected[n] = answer.calls[m]
      BY <1>1
    <3> QED
      BY <1>3, <1>9, <2>2, <3>1
  <2> QED
    BY <1>10, <2>1, <2>2
<1>13. ASSUME NEW m \in DOMAIN answer.calls
       PROVE  \E k \in DOMAIN results : results[k].ids[1] = answer.calls[m].id
  <2>1. \/ \E k \in 1..Len(Valid) : Valid[k] = answer.calls[m]
        \/ \E k \in 1..Len(Rejected) : Rejected[k] = answer.calls[m]
    BY <1>1
  <2>2. ASSUME NEW k \in 1..Len(Valid), Valid[k] = answer.calls[m]
        PROVE  \E i \in DOMAIN results : results[i].ids[1] = answer.calls[m].id
    <3>1. k \in DOMAIN results /\ results[k].ids[1] = answer.calls[m].id
      BY <1>2, <1>8, <2>2
    <3> QED
      BY <3>1
  <2>3. ASSUME NEW k \in 1..Len(Rejected), Rejected[k] = answer.calls[m]
        PROVE  \E i \in DOMAIN results : results[i].ids[1] = answer.calls[m].id
    <3>1. /\ Len(Valid) + k \in DOMAIN results
          /\ results[Len(Valid) + k].ids[1] = answer.calls[m].id
      BY <1>3, <1>9, <2>3
    <3> QED
      BY <3>1
  <2> QED
    BY <2>1, <2>2, <2>3
<1>14. {results[k].ids[1] : k \in DOMAIN results}
          = {answer.calls[k].id : k \in DOMAIN answer.calls}
  BY <1>12, <1>13
<1>15. \A k \in DOMAIN results : results[k].ids = <<results[k].ids[1]>>
  <2> TAKE k \in DOMAIN results
  <2>1. CASE k \in 1..Len(Valid)
    BY <1>2, <1>8, <2>1
  <2>2. ASSUME NEW n \in 1..Len(Rejected), k = Len(Valid) + n
        PROVE  results[k].ids = <<results[k].ids[1]>>
    BY <1>3, <1>9, <2>2
  <2> QED
    BY <1>10, <2>1, <2>2
<1> QED
  BY <1>7, <1>11, <1>14, <1>15 DEF results

\* The history is well formed, and what was put to it since is a batch with the
\* results that it has so far.
AnswersInv ==
    /\ LoopTypes
    /\ messages \in Seq(Message)
    /\ next >= 1
    /\ pc \in {"sending", "streaming", "answered"} => WellFormed(messages)
    /\ pc \in {"answered", "emitted"} => next = 1
    /\ pc = "emitted" /\ answer.calls # <<>> =>
          \E base \in Seq(Message) :
              WellFormed(base) /\ messages = base \o <<Assistant(answer.calls)>>
    /\ pc = "calling" /\ ~HasClientTool =>
          /\ next \in 1..(Len(answer.calls) + 1)
          /\ \E base \in Seq(Message), told \in Seq(Message) :
                /\ WellFormed(base)
                /\ messages = (base \o <<Assistant(answer.calls)>>) \o told
                /\ Len(told) = next - 1
                /\ \A k \in 1..(next - 1) : told[k] = Result(answer.calls[k])

\* The model's answer becomes a message.
LEMMA AskingIsMessage ==
    ASSUME LoopTypes
    PROVE  Assistant(answer.calls) \in Message
<1> DEFINE calls == answer.calls
<1>1. calls \in Seq(Call) /\ Len(calls) \in Nat /\ DOMAIN calls = 1..Len(calls)
  BY DEF LoopTypes
<1> HIDE DEF calls
<1>2. \A k \in 1..Len(calls) : calls[k] \in Call
  BY <1>1
<1>3. \A k \in 1..Len(calls) : calls[k].id \in Nat \X Nat
  BY <1>2 DEF Call
<1>4. [k \in 1..Len(calls) |-> calls[k].id] \in Seq(Nat \X Nat)
  BY <1>1, <1>3
<1> QED
  BY <1>1, <1>4 DEF Assistant, Message, calls

\* At the start nothing waits for an answer.
LEMMA AnswersInit == Init => AnswersInv
<1> SUFFICES ASSUME Init
             PROVE  AnswersInv
  OBVIOUS
<1>1. LoopTypes
  BY TypesInit
<1>2. pc = "sending" /\ messages = <<Asked>> /\ next = 1
  BY DEF Init
<1>3. Asked \in Message /\ Asked.role = "user"
  BY DEF Asked, Message
<1>4. /\ messages \in Seq(Message) /\ DOMAIN messages = 1..1
      /\ messages[1] = Asked
  BY <1>2, <1>3
<1>5. WellFormed(messages)
  BY <1>3, <1>4 DEF WellFormed
<1> QED
  BY <1>1, <1>2, <1>4, <1>5 DEF AnswersInv

\* An answer's calls are asked for at the end of the history.
LEMMA AnswersEmit ==
    ASSUME AnswersInv, LoopTypes', EmitItems
    PROVE  AnswersInv'
<1>1. /\ pc = "answered" /\ pc' = "emitted" /\ UNCHANGED <<answer, next>>
      /\ messages' = IF answer = NoAnswer THEN messages
                     ELSE Append(messages, Assistant(answer.calls))
  BY DEF EmitItems, Goto
<1>2. messages \in Seq(Message) /\ WellFormed(messages) /\ next = 1
  BY <1>1 DEF AnswersInv
<1>3. Assistant(answer.calls) \in Message
  BY AskingIsMessage DEF AnswersInv
<1>4. messages' \in Seq(Message)
  BY <1>1, <1>2, <1>3
<1>5. answer.calls # <<>> => messages' = messages \o <<Assistant(answer.calls)>>
  <2>1. answer.calls # <<>> => answer # NoAnswer
    BY DEF NoAnswer
  <2> QED
    BY <1>1, <1>2, <1>3, <2>1, AppendIsConcat
<1> QED
  BY <1>1, <1>2, <1>4, <1>5 DEF AnswersInv

\* A discarded batch is answered as a whole.
LEMMA AnswersRepair ==
    ASSUME AnswersInv, LoopTypes', Repair
    PROVE  AnswersInv'
<1> DEFINE results == Results(Valid) \o Results(Rejected)
<1>1. /\ pc = "emitted" /\ pc' = "sending" /\ Tainted /\ UNCHANGED next
      /\ messages' = messages \o (results \o <<Note>>)
  BY DEF Repair, Again, Goto
<1>2. answer.calls # <<>>
  BY <1>1 DEF Tainted, ToSet
<1>3. PICK base \in Seq(Message) :
          WellFormed(base) /\ messages = base \o <<Assistant(answer.calls)>>
  BY <1>1, <1>2 DEF AnswersInv
<1>4. /\ results \in Seq(Message) /\ Len(results) = Len(answer.calls)
      /\ \A k \in DOMAIN results : results[k].role = "tool"
      /\ {results[k].ids[1] : k \in DOMAIN results}
            = {answer.calls[k].id : k \in DOMAIN answer.calls}
  BY RepairsAnswerAll DEF AnswersInv
<1> HIDE DEF results
<1>5. WellFormed(messages \o results) /\ messages \o results \in Seq(Message)
  <2>1. answer.calls \in Seq(Call)
    BY DEF AnswersInv, LoopTypes
  <2> QED
    BY <1>3, <1>4, <2>1, ExchangesAreFine
<1>6. Note \in Message /\ Note.role = "system"
  BY DEF Note, Message
<1>7. messages' = (messages \o results) \o <<Note>>
  <2>1. messages \in Seq(Message) /\ <<Note>> \in Seq(Message)
    BY <1>6 DEF AnswersInv
  <2> QED
    BY <1>1, <1>4, <2>1, ConcatAssociative
<1>8. WellFormed(messages') /\ messages' \in Seq(Message)
  BY <1>5, <1>6, <1>7, NotesAreFine
<1> QED
  BY <1>1, <1>8 DEF AnswersInv

\* A clean batch begins without results.
LEMMA AnswersClean ==
    ASSUME AnswersInv, LoopTypes', Clean
    PROVE  AnswersInv'
<1>1. /\ pc = "emitted" /\ UNCHANGED <<messages, answer, next>>
      /\ pc' = (IF answer.calls = <<>> THEN "completing" ELSE "calling")
  BY DEF Clean, Untainted, Goto
<1>2. messages \in Seq(Message) /\ next = 1
  BY <1>1 DEF AnswersInv
<1>3. CASE answer.calls = <<>>
  BY <1>1, <1>2, <1>3 DEF AnswersInv
<1>4. CASE answer.calls # <<>>
  <2>1. PICK base \in Seq(Message) :
            WellFormed(base) /\ messages = base \o <<Assistant(answer.calls)>>
    BY <1>1, <1>4 DEF AnswersInv
  <2>2. messages = messages \o <<>> /\ <<>> \in Seq(Message) /\ Len(<<>>) = 0
    BY <1>2
  <2>3. Len(answer.calls) \in Nat
    BY DEF AnswersInv, LoopTypes
  <2>4. /\ next' \in 1..(Len(answer'.calls) + 1)
        /\ WellFormed(base)
        /\ messages' = (base \o <<Assistant(answer'.calls)>>) \o <<>>
        /\ Len(<<>>) = next' - 1
        /\ \A k \in 1..(next' - 1) : <<>>[k] = Result(answer'.calls[k])
    BY <1>1, <1>2, <2>1, <2>2, <2>3
  <2>5. pc' = "calling"
    BY <1>1, <1>4
  <2> QED
    BY <1>1, <1>2, <2>2, <2>4, <2>5 DEF AnswersInv
<1> QED
  BY <1>3, <1>4

\* A server tool that is run adds its result.
LEMMA AnswersRun ==
    ASSUME AnswersInv, LoopTypes', RunSearch \/ RunImage
    PROVE  AnswersInv'
<1>1. /\ pc = "calling" /\ pc' = "calling" /\ next <= Len(answer.calls) /\ ~HasClientTool
      /\ UNCHANGED answer /\ next' = next + 1
      /\ messages' = messages \o <<Result(answer.calls[next])>>
  BY DEF RunSearch, RunImage, Handle, Calling, Current
<1>2. PICK base \in Seq(Message), told \in Seq(Message) :
          /\ WellFormed(base)
          /\ messages = (base \o <<Assistant(answer.calls)>>) \o told
          /\ Len(told) = next - 1
          /\ \A k \in 1..(next - 1) : told[k] = Result(answer.calls[k])
  BY <1>1 DEF AnswersInv
<1> DEFINE one == Result(answer.calls[next])
           more == told \o <<one>>
<1>3. /\ next \in Nat /\ next >= 1 /\ Len(answer.calls) \in Nat
      /\ messages \in Seq(Message)
  BY <1>1 DEF AnswersInv, LoopTypes
<1>4. answer.calls[next] \in Call
  <2>1. answer.calls \in Seq(Call)
    BY DEF AnswersInv, LoopTypes
  <2> QED
    BY <1>1, <1>3, <2>1
<1>5. one \in Message
  BY <1>4 DEF Result, Call, Message
<1> HIDE DEF one
<1>6. <<one>> \in Seq(Message) /\ Len(<<one>>) = 1 /\ <<one>>[1] = one
  BY <1>5
<1>7. /\ more \in Seq(Message) /\ Len(more) = next
      /\ \A k \in 1..(next - 1) : more[k] = told[k]
      /\ more[next] = one
  BY <1>2, <1>3, <1>6, ConcatProperties
<1>8. \A k \in 1..next : more[k] = Result(answer.calls[k])
  <2> TAKE k \in 1..next
  <2>1. k \in 1..(next - 1) \/ k = next
    BY <1>3
  <2> QED
    BY <1>2, <1>7, <2>1 DEF one
<1>9. base \o <<Assistant(answer.calls)>> \in Seq(Message)
  BY AskingIsMessage DEF AnswersInv
<1>10. messages' = (base \o <<Assistant(answer.calls)>>) \o more
  BY <1>1, <1>2, <1>6, <1>9, ConcatAssociative DEF one
<1>11. messages' \in Seq(Message)
  BY <1>1, <1>3, <1>6 DEF one
<1> HIDE DEF more
<1>12. /\ next' \in 1..(Len(answer'.calls) + 1)
       /\ WellFormed(base)
       /\ messages' = (base \o <<Assistant(answer'.calls)>>) \o more
       /\ Len(more) = next' - 1
       /\ \A k \in 1..(next' - 1) : more[k] = Result(answer'.calls[k])
       /\ next' >= 1
  <2>1. answer' = answer /\ next' - 1 = next /\ next' \in 1..(Len(answer.calls) + 1)
    BY <1>1, <1>3
  <2>2. \A k \in 1..(next' - 1) : more[k] = Result(answer'.calls[k])
    BY <1>8, <2>1
  <2>3. Len(more) = next' - 1 /\ next' >= 1 /\ next' \in 1..(Len(answer'.calls) + 1)
    BY <1>7, <2>1
  <2>4. messages' = (base \o <<Assistant(answer'.calls)>>) \o more
    BY <1>10, <2>1
  <2> QED
    BY <1>2, <2>2, <2>3, <2>4
<1> QED
  BY <1>1, <1>7, <1>11, <1>12 DEF AnswersInv

\* Once all have run, the history is well formed again.
LEMMA AnswersRan ==
    ASSUME AnswersInv, LoopTypes', ServerToolsRan
    PROVE  AnswersInv'
<1>1. /\ pc = "calling" /\ pc' \in {"failed", "sending"} /\ ~HasClientTool
      /\ next > Len(answer.calls) /\ UNCHANGED <<messages, next>>
  BY DEF ServerToolsRan, Goto
<1>2. PICK base \in Seq(Message), told \in Seq(Message) :
          /\ WellFormed(base)
          /\ messages = (base \o <<Assistant(answer.calls)>>) \o told
          /\ Len(told) = next - 1
          /\ \A k \in 1..(next - 1) : told[k] = Result(answer.calls[k])
  BY <1>1 DEF AnswersInv
<1> DEFINE calls == answer.calls
<1>3. calls \in Seq(Call) /\ Len(calls) \in Nat /\ DOMAIN calls = 1..Len(calls)
  BY DEF AnswersInv, LoopTypes
<1>4. next = Len(calls) + 1
  <2>1. next \in 1..(Len(calls) + 1)
    BY <1>1 DEF AnswersInv
  <2> HIDE DEF calls
  <2>2. next > Len(calls)
    BY <1>1 DEF calls
  <2> QED
    BY <1>3, <2>1, <2>2
<1> HIDE DEF calls
<1>5. Len(told) = Len(calls) /\ DOMAIN told = 1..Len(calls)
  BY <1>2, <1>3, <1>4
<1>6. \A k \in 1..Len(calls) : told[k].role = "tool" /\ told[k].ids[1] = calls[k].id
  <2>1. 1..(next - 1) = 1..Len(calls)
    BY <1>3, <1>4
  <2>2. \A k \in 1..Len(calls) : told[k] = Result(calls[k])
    BY <1>2, <2>1 DEF calls
  <2>3. \A c : Result(c).role = "tool" /\ Result(c).ids[1] = c.id
    BY DEF Result
  <2> QED
    BY <2>2, <2>3
<1>7. {told[k].ids[1] : k \in DOMAIN told} = {calls[k].id : k \in DOMAIN calls}
  <2>1. {told[k].ids[1] : k \in 1..Len(calls)} = {calls[k].id : k \in 1..Len(calls)}
    BY <1>6
  <2> QED
    BY <1>3, <1>5, <2>1
<1>8. WellFormed((base \o <<Assistant(calls)>>) \o told)
  BY <1>2, <1>3, <1>5, <1>6, <1>7, ExchangesAreFine
<1>9. WellFormed(messages')
  BY <1>1, <1>2, <1>8 DEF calls
<1> QED
  BY <1>1, <1>9 DEF AnswersInv

\* A call that is handed off is one of a batch for the client.
LEMMA HandOffIsForClients ==
    ASSUME LoopTypes, next >= 1, HandOff
    PROVE  HasClientTool
<1>1. /\ next <= Len(answer.calls) /\ ~HasServerTool
      /\ next \in Nat /\ answer.calls \in Seq(Call)
  BY DEF HandOff, LoopTypes, Calling
<1>2. answer.calls[next] \in ToSet(answer.calls)
  BY <1>1 DEF ToSet
<1> QED
  BY <1>1, <1>2 DEF HasServerTool, HasClientTool

\* Every step answers what it asks, or leaves it to the batch under way.
LEMMA AnswersStep == AnswersInv /\ [Next]_vars => AnswersInv'
<1> SUFFICES ASSUME AnswersInv, [Next]_vars
             PROVE  AnswersInv'
  OBVIOUS
<1>0. LoopTypes /\ LoopTypes' /\ next >= 1 /\ messages \in Seq(Message)
  BY TypesStep DEF AnswersInv
<1>1. CASE Send
  BY <1>0, <1>1 DEF Send, Goto, AnswersInv
<1>2. CASE Finalize
  BY <1>0, <1>2 DEF Finalize, Goto, AnswersInv
<1>3. CASE EmitItems
  BY <1>0, <1>3, AnswersEmit
<1>4. CASE Repair
  BY <1>0, <1>4, AnswersRepair
<1>5. CASE Clean
  BY <1>0, <1>5, AnswersClean
<1>6. CASE RunSearch \/ RunImage
  BY <1>0, <1>6, AnswersRun
<1>7. CASE HandOff
  <2>1. HasClientTool /\ HasClientTool'
    <3>1. UNCHANGED <<answer, requests>>
      BY <1>7 DEF HandOff, Handle
    <3> QED
      BY <1>0, <1>7, <3>1, HandOffIsForClients, SameAnswer
  <2>2. pc = "calling" /\ pc' = "calling" /\ next' = next + 1 /\ messages' = messages \o <<>>
    BY <1>7 DEF HandOff, Handle, Calling
  <2>3. messages' = messages /\ next' >= 1
    BY <1>0, <2>2 DEF LoopTypes
  <2> QED
    BY <1>0, <2>1, <2>2, <2>3 DEF AnswersInv
<1>8. CASE ServerToolsRan
  BY <1>0, <1>8, AnswersRan
<1>9. CASE AnswerFails \/ Exhaust \/ MixedBatch \/ SearchFails \/ HandedOff
           \/ Store \/ Complete \/ Cancel
  <2>1. /\ pc' \in {"failed", "exhausted", "completing", "finishing", "completed", "cancelled"}
        /\ UNCHANGED <<messages, next>>
    BY <1>9 DEF AnswerFails, Exhaust, MixedBatch, SearchFails, HandedOff, Store, Complete,
                Cancel, Goto
  <2> QED
    BY <1>0, <2>1 DEF AnswersInv
<1>10. CASE Over \/ UNCHANGED vars
  <2>1. UNCHANGED <<pc, messages, next, answer, requests>>
    BY <1>10 DEF Over, vars
  <2>2. HasClientTool' <=> HasClientTool
    BY <2>1, SameAnswer
  <2> QED
    BY <1>0, <2>1, <2>2 DEF AnswersInv
<1> QED
  BY <1>1, <1>2, <1>3, <1>4, <1>5, <1>6, <1>7, <1>8, <1>9, <1>10 DEF Next

\* Whatever mixture of repairs and server tools came before, the upstream is
\* sent a history in which every call has its one result after it, and every
\* result its call before it.
THEOREM CallsAreAnswered == Spec => []EveryCallIsAnswered
<1>1. Init => AnswersInv
  BY AnswersInit
<1>2. AnswersInv => EveryCallIsAnswered
  BY DEF AnswersInv, WellFormed, EveryCallIsAnswered
<1> QED
  BY <1>1, <1>2, AnswersStep, PTL DEF Spec

-----------------------------------------------------------------------------
(* What is replayed is what the client saw.                                *)

\* The calls that messages of a role name, and the calls among output items.
IdsOf(ms, role) ==
    UNION {ToSet(ms[i].ids) : i \in {i \in DOMAIN ms : ms[i].role = role}}

Shows(items) == {items[i].id : i \in {i \in DOMAIN items : items[i].kind # "message"}}

Asks == IdsOf(messages, "assistant")
Tells == IdsOf(messages, "tool")
BatchIds == {answer.calls[k].id : k \in DOMAIN answer.calls}
HandledIds == {answer.calls[k].id : k \in 1..(next - 1)}

\* The calls left open are those the client was shown and nobody answered.
Settled == Asks \ Tells = Shows(wire) \ Tells

\* Where each call stands between the history, the batch and the client.
ReplayInv ==
    /\ LoopTypes
    /\ messages \in Seq(Message)
    /\ wire \in Seq(Item) /\ output = wire /\ public = wire
    /\ \A i \in DOMAIN messages :
          messages[i].role = "tool" => messages[i].ids = <<messages[i].ids[1]>>
    /\ pc \in {"sending", "streaming", "answered"} => Asks \cup Shows(wire) \subseteq Tells
    /\ pc \in {"answered", "emitted"} => next = 1
    /\ pc \in {"emitted", "calling"} =>
          Asks \subseteq Tells \cup BatchIds /\ BatchIds \subseteq Asks
    /\ pc = "emitted" => Shows(wire) \subseteq Tells
    /\ pc = "calling" => next \in 1..(Len(answer.calls) + 1)
    /\ pc = "calling" /\ HasServerTool /\ HasClientTool => next = 1
    /\ pc = "calling" /\ ~HasServerTool =>
          HandledIds \subseteq Shows(wire) /\ Shows(wire) \subseteq Tells \cup BatchIds
    /\ pc = "calling" /\ ~HasClientTool => HandledIds \cup Shows(wire) \subseteq Tells
    /\ pc \in {"completing", "finishing", "completed"} => Settled
    /\ replay # NoRecord =>
          /\ pc \in {"finishing", "completed", "cancelled"}
          /\ replay = [visible |-> wire, internal |-> messages]
          /\ Settled

\* The ids of messages that are added are added.
LEMMA IdsGrow ==
    ASSUME NEW ms \in Seq(Message), NEW more \in Seq(Message), NEW role
    PROVE  IdsOf(ms \o more, role) = IdsOf(ms, role) \cup IdsOf(more, role)
<1> DEFINE all == ms \o more
<1>1. /\ Len(ms) \in Nat /\ DOMAIN ms = 1..Len(ms)
      /\ Len(more) \in Nat /\ DOMAIN more = 1..Len(more)
  OBVIOUS
<1>2. /\ all \in Seq(Message) /\ DOMAIN all = 1..(Len(ms) + Len(more))
      /\ \A k \in 1..(Len(ms) + Len(more)) :
            all[k] = IF k <= Len(ms) THEN ms[k] ELSE more[k - Len(ms)]
  BY <1>1, ConcatProperties
<1> HIDE DEF all
<1>3. \A x, seq : x \in IdsOf(seq, role) <=>
          \E i \in DOMAIN seq : seq[i].role = role /\ x \in ToSet(seq[i].ids)
  BY DEF IdsOf
<1>4. \A k \in DOMAIN ms : k \in DOMAIN all /\ all[k] = ms[k]
  BY <1>1, <1>2
<1>5. \A k \in DOMAIN more : Len(ms) + k \in DOMAIN all /\ all[Len(ms) + k] = more[k]
  <2> TAKE k \in DOMAIN more
  <2>1. /\ Len(ms) + k \in 1..(Len(ms) + Len(more))
        /\ ~(Len(ms) + k <= Len(ms)) /\ (Len(ms) + k) - Len(ms) = k
    BY <1>1
  <2> QED
    BY <1>2, <2>1
<1>6. \A k \in DOMAIN all :
          (k \in DOMAIN ms /\ all[k] = ms[k]) \/ \E m \in DOMAIN more : all[k] = more[m]
  <2> TAKE k \in DOMAIN all
  <2>1. k \in 1..Len(ms) \/ k - Len(ms) \in 1..Len(more)
    BY <1>1, <1>2
  <2>2. k \notin 1..Len(ms) => ~(k <= Len(ms))
    BY <1>1, <1>2
  <2> QED
    BY <1>1, <1>2, <2>1, <2>2
<1>7. \A x : x \in IdsOf(all, role) <=> x \in IdsOf(ms, role) \/ x \in IdsOf(more, role)
  <2> TAKE x
  <2>1. x \in IdsOf(ms, role) => x \in IdsOf(all, role)
    BY <1>3, <1>4
  <2>2. x \in IdsOf(more, role) => x \in IdsOf(all, role)
    BY <1>3, <1>5
  <2>3. x \in IdsOf(all, role) => x \in IdsOf(ms, role) \/ x \in IdsOf(more, role)
    BY <1>3, <1>6
  <2> QED
    BY <2>1, <2>2, <2>3
<1> QED
  BY <1>7 DEF all

\* The calls of items that are added are added.
LEMMA ShowsGrow ==
    ASSUME NEW items \in Seq(Item), NEW more \in Seq(Item)
    PROVE  Shows(items \o more) = Shows(items) \cup Shows(more)
<1> DEFINE all == items \o more
<1>1. /\ Len(items) \in Nat /\ DOMAIN items = 1..Len(items)
      /\ Len(more) \in Nat /\ DOMAIN more = 1..Len(more)
  OBVIOUS
<1>2. /\ all \in Seq(Item) /\ DOMAIN all = 1..(Len(items) + Len(more))
      /\ \A k \in 1..(Len(items) + Len(more)) :
            all[k] = IF k <= Len(items) THEN items[k] ELSE more[k - Len(items)]
  BY <1>1, ConcatProperties
<1> HIDE DEF all
<1>3. \A x, seq : x \in Shows(seq) <=>
          \E i \in DOMAIN seq : seq[i].kind # "message" /\ x = seq[i].id
  BY DEF Shows
<1>4. \A k \in DOMAIN items : k \in DOMAIN all /\ all[k] = items[k]
  BY <1>1, <1>2
<1>5. \A k \in DOMAIN more : Len(items) + k \in DOMAIN all /\ all[Len(items) + k] = more[k]
  <2> TAKE k \in DOMAIN more
  <2>1. /\ Len(items) + k \in 1..(Len(items) + Len(more))
        /\ ~(Len(items) + k <= Len(items)) /\ (Len(items) + k) - Len(items) = k
    BY <1>1
  <2> QED
    BY <1>2, <2>1
<1>6. \A k \in DOMAIN all :
          (k \in DOMAIN items /\ all[k] = items[k]) \/ \E m \in DOMAIN more : all[k] = more[m]
  <2> TAKE k \in DOMAIN all
  <2>1. k \in 1..Len(items) \/ k - Len(items) \in 1..Len(more)
    BY <1>1, <1>2
  <2>2. k \notin 1..Len(items) => ~(k <= Len(items))
    BY <1>1, <1>2
  <2> QED
    BY <1>1, <1>2, <2>1, <2>2
<1>7. \A x : x \in Shows(all) <=> x \in Shows(items) \/ x \in Shows(more)
  <2> TAKE x
  <2>1. x \in Shows(items) => x \in Shows(all)
    BY <1>3, <1>4
  <2>2. x \in Shows(more) => x \in Shows(all)
    BY <1>3, <1>5
  <2>3. x \in Shows(all) => x \in Shows(items) \/ x \in Shows(more)
    BY <1>3, <1>6
  <2> QED
    BY <2>1, <2>2, <2>3
<1> QED
  BY <1>7 DEF all

\* Results name the calls they answer, and ask for none.
LEMMA ResultsTell ==
    ASSUME NEW results \in Seq(Message),
           \A k \in DOMAIN results : results[k].role = "tool",
           \A k \in DOMAIN results : results[k].ids = <<results[k].ids[1]>>
    PROVE  /\ IdsOf(results, "assistant") = {}
           /\ IdsOf(results, "tool") = {results[k].ids[1] : k \in DOMAIN results}
<1>1. \A x : ToSet(<<x>>) = {x}
  BY DEF ToSet
<1>2. \A k \in DOMAIN results : ToSet(results[k].ids) = {results[k].ids[1]}
  BY <1>1
<1>3. \A x : x \in IdsOf(results, "tool") <=> \E k \in DOMAIN results : x = results[k].ids[1]
  <2>1. \A x : x \in IdsOf(results, "tool") <=>
            \E k \in DOMAIN results : results[k].role = "tool" /\ x \in ToSet(results[k].ids)
    BY DEF IdsOf
  <2>2. \A x : \A k \in DOMAIN results :
            x \in ToSet(results[k].ids) <=> x = results[k].ids[1]
    BY <1>2
  <2> QED
    BY ONLY <2>1, <2>2, \A k \in DOMAIN results : results[k].role = "tool"
<1> QED
  BY <1>3 DEF IdsOf

\* The assistant's message asks for its calls, and answers none.
LEMMA AssistantAsks ==
    ASSUME LoopTypes
    PROVE  /\ IdsOf(<<Assistant(answer.calls)>>, "assistant") = BatchIds
           /\ IdsOf(<<Assistant(answer.calls)>>, "tool") = {}
<1> DEFINE asking == Assistant(answer.calls)
           one == <<asking>>
<1>1. asking.role = "assistant" /\ asking.ids = [k \in DOMAIN answer.calls |-> answer.calls[k].id]
  BY DEF Assistant
<1>2. ToSet(asking.ids) = BatchIds
  BY <1>1 DEF ToSet, BatchIds
<1> HIDE DEF asking
<1>3. DOMAIN one = {1} /\ one[1] = asking
  OBVIOUS
<1> HIDE DEF one
<1>4. {i \in DOMAIN one : one[i].role = "assistant"} = {1}
      /\ {i \in DOMAIN one : one[i].role = "tool"} = {}
  BY <1>1, <1>3
<1> QED
  BY <1>2, <1>3, <1>4 DEF IdsOf, one, asking

\* A text shows no call.
LEMMA NoneShown ==
    ASSUME NEW items, items = <<>> \/ items = <<Text>>
    PROVE  Shows(items) = {}
  BY DEF Shows, Text

\* A call shows itself.
LEMMA CallShown ==
    ASSUME NEW c \in Call
    PROVE  <<c>> \in Seq(Item) /\ Shows(<<c>>) = {c.id}
<1>1. c \in Item /\ c.kind # "message"
  BY DEF Call, Item, Kinds
<1>2. DOMAIN <<c>> = {1} /\ <<c>>[1] = c
  OBVIOUS
<1> QED
  BY <1>1, <1>2 DEF Shows

\* At the start the three records are empty.
LEMMA ReplayInit == Init => ReplayInv
<1> SUFFICES ASSUME Init
             PROVE  ReplayInv
  OBVIOUS
<1>1. LoopTypes
  BY TypesInit
<1>2. /\ pc = "sending" /\ messages = <<Asked>> /\ replay = NoRecord
      /\ wire = <<>> /\ output = <<>> /\ public = <<>>
  BY DEF Init
<1>3. Asked \in Message /\ Asked.role = "user"
  BY DEF Asked, Message
<1>4. messages \in Seq(Message) /\ DOMAIN messages = 1..1 /\ messages[1].role = "user"
  BY <1>2, <1>3
<1>5. {i \in DOMAIN messages : messages[i].role = "assistant"} = {}
  BY <1>4
<1>6. Asks = {}
  BY <1>5 DEF Asks, IdsOf
<1>7. Shows(wire) = {}
  BY <1>2, NoneShown
<1>8. wire \in Seq(Item)
  BY <1>2
<1> QED
  BY <1>1, <1>2, <1>4, <1>6, <1>7, <1>8 DEF ReplayInv

\* More of the history leaves its results single.
LEMMA SingleResults ==
    ASSUME NEW ms \in Seq(Message), NEW more \in Seq(Message),
           \A i \in DOMAIN ms : ms[i].role = "tool" => ms[i].ids = <<ms[i].ids[1]>>,
           \A i \in DOMAIN more : more[i].role = "tool" => more[i].ids = <<more[i].ids[1]>>
    PROVE  \A i \in DOMAIN (ms \o more) :
              (ms \o more)[i].role = "tool" => (ms \o more)[i].ids = <<(ms \o more)[i].ids[1]>>
<1> DEFINE all == ms \o more
<1>1. /\ Len(ms) \in Nat /\ DOMAIN ms = 1..Len(ms)
      /\ Len(more) \in Nat /\ DOMAIN more = 1..Len(more)
  OBVIOUS
<1>2. /\ DOMAIN all = 1..(Len(ms) + Len(more))
      /\ \A k \in 1..(Len(ms) + Len(more)) :
            all[k] = IF k <= Len(ms) THEN ms[k] ELSE more[k - Len(ms)]
  BY <1>1, ConcatProperties
<1> HIDE DEF all
<1>3. ASSUME NEW i \in DOMAIN all, all[i].role = "tool"
      PROVE  all[i].ids = <<all[i].ids[1]>>
  <2>1. CASE i <= Len(ms)
    <3>1. i \in DOMAIN ms /\ all[i] = ms[i]
      BY <1>1, <1>2, <2>1
    <3> QED
      BY <1>3, <3>1
  <2>2. CASE ~(i <= Len(ms))
    <3>1. i - Len(ms) \in DOMAIN more /\ all[i] = more[i - Len(ms)]
      BY <1>1, <1>2, <2>2
    <3> QED
      BY <1>3, <3>1
  <2> QED
    BY <2>1, <2>2
<1> QED
  BY <1>3 DEF all

\* The assistant's message is shown as it is recorded.
LEMMA ReplayEmit ==
    ASSUME ReplayInv, LoopTypes', EmitItems
    PROVE  ReplayInv'
<1> DEFINE items == IF answer.text THEN <<Text>> ELSE <<>>
           asking == Assistant(answer.calls)
<1>1. /\ pc = "answered" /\ pc' = "emitted" /\ UNCHANGED <<answer, next, replay>>
      /\ public' = public \o items /\ output' = output \o items /\ wire' = wire \o items
      /\ messages' = IF answer = NoAnswer THEN messages ELSE Append(messages, asking)
  BY DEF EmitItems, Goto
<1>2. /\ messages \in Seq(Message) /\ next = 1 /\ replay = NoRecord
      /\ wire \in Seq(Item) /\ output = wire /\ public = wire
      /\ Asks \cup Shows(wire) \subseteq Tells
      /\ \A i \in DOMAIN messages :
            messages[i].role = "tool" => messages[i].ids = <<messages[i].ids[1]>>
  BY <1>1 DEF ReplayInv
<1>3. items \in Seq(Item) /\ Shows(items) = {}
  <2>1. Text \in Item
    BY DEF Text, Item, ReplayInv, LoopTypes
  <2>2. <<Text>> \in Seq(Item) /\ <<>> \in Seq(Item)
    BY <2>1
  <2> QED
    BY <2>2, NoneShown
<1> HIDE DEF items
<1>4. /\ wire' \in Seq(Item) /\ output' = wire' /\ public' = wire'
      /\ Shows(wire') = Shows(wire)
  <2>1. Shows(wire \o items) = Shows(wire) \cup Shows(items)
    BY <1>2, <1>3, ShowsGrow
  <2> QED
    BY <1>1, <1>2, <1>3, <2>1
<1>5. /\ messages' \in Seq(Message)
      /\ Asks' = Asks \cup BatchIds /\ Tells' = Tells
      /\ \A i \in DOMAIN messages' :
            messages'[i].role = "tool" => messages'[i].ids = <<messages'[i].ids[1]>>
  <2>1. CASE answer = NoAnswer
    <3>1. BatchIds = {}
      BY <2>1 DEF BatchIds, NoAnswer
    <3> QED
      BY <1>1, <1>2, <2>1, <3>1 DEF Asks, Tells
  <2>2. CASE answer # NoAnswer
    <3>1. asking \in Message /\ asking.role = "assistant"
      BY AskingIsMessage DEF ReplayInv, Assistant
    <3>2. IdsOf(<<asking>>, "assistant") = BatchIds /\ IdsOf(<<asking>>, "tool") = {}
      BY AssistantAsks DEF ReplayInv
    <3> HIDE DEF asking
    <3>3. <<asking>> \in Seq(Message) /\ messages' = messages \o <<asking>>
      BY <1>1, <1>2, <2>2, <3>1, AppendIsConcat
    <3>4. /\ IdsOf(messages', "assistant") = Asks \cup BatchIds
          /\ IdsOf(messages', "tool") = Tells
      <4>1. IdsOf(messages \o <<asking>>, "assistant")
               = IdsOf(messages, "assistant") \cup IdsOf(<<asking>>, "assistant")
        BY <1>2, <3>3, IdsGrow
      <4>2. IdsOf(messages \o <<asking>>, "tool")
               = IdsOf(messages, "tool") \cup IdsOf(<<asking>>, "tool")
        BY <1>2, <3>3, IdsGrow
      <4> QED
        BY <3>2, <3>3, <4>1, <4>2 DEF Asks, Tells
    <3>5. \A i \in DOMAIN <<asking>> : <<asking>>[i].role # "tool"
      BY <3>1
    <3>6. \A i \in DOMAIN messages' :
              messages'[i].role = "tool" => messages'[i].ids = <<messages'[i].ids[1]>>
      BY <1>2, <3>3, <3>5, SingleResults
    <3> QED
      BY <1>2, <3>3, <3>4, <3>6 DEF Asks, Tells
  <2> QED
    BY <2>1, <2>2
<1>6. BatchIds' = BatchIds
  BY <1>1 DEF BatchIds
<1>7. Shows(wire)' \subseteq Tells' /\ Asks' \subseteq Tells' \cup BatchIds' /\ BatchIds' \subseteq Asks'
  BY <1>2, <1>4, <1>5, <1>6
<1> QED
  BY <1>1, <1>2, <1>4, <1>5, <1>7 DEF ReplayInv

\* A discarded batch is answered, and none of it was shown.
LEMMA ReplayRepair ==
    ASSUME ReplayInv, LoopTypes', Repair
    PROVE  ReplayInv'
<1> DEFINE results == Results(Valid) \o Results(Rejected)
           told == messages \o results
<1>1. /\ pc = "emitted" /\ pc' = "sending"
      /\ UNCHANGED <<answer, next, replay, public, output, wire>>
      /\ messages' = messages \o (results \o <<Note>>)
  BY DEF Repair, Again, Goto
<1>2. /\ messages \in Seq(Message) /\ next = 1 /\ replay = NoRecord
      /\ wire \in Seq(Item) /\ output = wire /\ public = wire
      /\ Shows(wire) \subseteq Tells /\ Asks \subseteq Tells \cup BatchIds
      /\ \A i \in DOMAIN messages :
            messages[i].role = "tool" => messages[i].ids = <<messages[i].ids[1]>>
  BY <1>1 DEF ReplayInv
<1>3. /\ results \in Seq(Message)
      /\ \A k \in DOMAIN results : results[k].role = "tool"
      /\ \A k \in DOMAIN results : results[k].ids = <<results[k].ids[1]>>
      /\ {results[k].ids[1] : k \in DOMAIN results} = BatchIds
  BY RepairsAnswerAll DEF ReplayInv, BatchIds
<1> HIDE DEF results
<1>4. IdsOf(results, "assistant") = {} /\ IdsOf(results, "tool") = BatchIds
  BY <1>3, ResultsTell
<1>5. <<Note>> \in Seq(Message) /\ \A i \in DOMAIN <<Note>> : <<Note>>[i].role = "system"
  BY DEF Note, Message
<1>6. /\ told \in Seq(Message)
      /\ IdsOf(told, "assistant") = Asks /\ IdsOf(told, "tool") = Tells \cup BatchIds
      /\ \A i \in DOMAIN told : told[i].role = "tool" => told[i].ids = <<told[i].ids[1]>>
  <2>1. told \in Seq(Message)
    BY <1>2, <1>3
  <2>2. IdsOf(told, "assistant") = Asks /\ IdsOf(told, "tool") = Tells \cup BatchIds
    <3>1. IdsOf(told, "assistant") = IdsOf(messages, "assistant") \cup IdsOf(results, "assistant")
      BY <1>2, <1>3, IdsGrow
    <3>2. IdsOf(told, "tool") = IdsOf(messages, "tool") \cup IdsOf(results, "tool")
      BY <1>2, <1>3, IdsGrow
    <3> QED
      BY <1>4, <3>1, <3>2 DEF Asks, Tells
  <2>3. \A i \in DOMAIN told : told[i].role = "tool" => told[i].ids = <<told[i].ids[1]>>
    BY <1>2, <1>3, SingleResults
  <2> QED
    BY <2>1, <2>2, <2>3
<1>7. messages' = told \o <<Note>>
  BY <1>1, <1>2, <1>3, <1>5, ConcatAssociative
<1> HIDE DEF told
<1>8. IdsOf(<<Note>>, "assistant") = {} /\ IdsOf(<<Note>>, "tool") = {}
  BY <1>5 DEF IdsOf
<1>9. /\ messages' \in Seq(Message)
      /\ Asks' = Asks /\ Tells' = Tells \cup BatchIds
      /\ \A i \in DOMAIN messages' :
            messages'[i].role = "tool" => messages'[i].ids = <<messages'[i].ids[1]>>
  <2>1. messages' \in Seq(Message)
    BY <1>5, <1>6, <1>7
  <2>2. IdsOf(messages', "assistant") = Asks /\ IdsOf(messages', "tool") = Tells \cup BatchIds
    <3>1. IdsOf(told \o <<Note>>, "assistant") = IdsOf(told, "assistant") \cup IdsOf(<<Note>>, "assistant")
      BY <1>5, <1>6, IdsGrow
    <3>2. IdsOf(told \o <<Note>>, "tool") = IdsOf(told, "tool") \cup IdsOf(<<Note>>, "tool")
      BY <1>5, <1>6, IdsGrow
    <3> QED
      BY <1>6, <1>7, <1>8, <3>1, <3>2
  <2>3. \A i \in DOMAIN messages' :
            messages'[i].role = "tool" => messages'[i].ids = <<messages'[i].ids[1]>>
    BY <1>5, <1>6, <1>7, SingleResults
  <2> QED
    BY <2>1, <2>2, <2>3 DEF Asks, Tells
<1>10. Asks' \cup Shows(wire)' \subseteq Tells'
  BY <1>1, <1>2, <1>9
<1> QED
  BY <1>1, <1>2, <1>9, <1>10 DEF ReplayInv

\* A clean batch is begun, or the turn has its answer.
LEMMA ReplayClean ==
    ASSUME ReplayInv, LoopTypes', Clean
    PROVE  ReplayInv'
<1>1. /\ pc = "emitted" /\ pc' = (IF answer.calls = <<>> THEN "completing" ELSE "calling")
      /\ UNCHANGED <<messages, answer, next, public, output, wire, replay, requests>>
  BY DEF Clean, Untainted, Goto
<1>2. /\ messages \in Seq(Message) /\ next = 1 /\ replay = NoRecord
      /\ wire \in Seq(Item) /\ output = wire /\ public = wire
      /\ Shows(wire) \subseteq Tells /\ Asks \subseteq Tells \cup BatchIds /\ BatchIds \subseteq Asks
      /\ \A i \in DOMAIN messages :
            messages[i].role = "tool" => messages[i].ids = <<messages[i].ids[1]>>
  BY <1>1 DEF ReplayInv
<1>3. Asks' = Asks /\ Tells' = Tells /\ BatchIds' = BatchIds /\ Shows(wire)' = Shows(wire)
  BY <1>1 DEF Asks, Tells, BatchIds
<1>4. HandledIds' = {}
  BY <1>1, <1>2 DEF HandledIds
<1>5. next' \in 1..(Len(answer.calls) + 1)
  <2>1. Len(answer.calls) \in Nat
    BY DEF ReplayInv, LoopTypes
  <2> QED
    BY <1>1, <1>2, <2>1
<1>6. CASE answer.calls = <<>>
  <2>1. BatchIds = {}
    BY <1>6 DEF BatchIds
  <2>2. Settled'
    BY <1>2, <1>3, <2>1 DEF Settled
  <2> QED
    BY <1>1, <1>2, <1>6, <2>2 DEF ReplayInv
<1>7. CASE answer.calls # <<>>
  <2>1. HandledIds' \cup Shows(wire)' \subseteq Tells'
    BY <1>2, <1>3, <1>4
  <2>2. HandledIds' \subseteq Shows(wire)' /\ Shows(wire)' \subseteq Tells' \cup BatchIds'
    BY <1>2, <1>3, <1>4
  <2> QED
    BY <1>1, <1>2, <1>3, <1>5, <1>7, <2>1, <2>2 DEF ReplayInv
<1> QED
  BY <1>6, <1>7

\* One more call of the batch is handled.
LEMMA OneMoreHandled ==
    ASSUME LoopTypes, pc = "calling", next \in 1..(Len(answer.calls) + 1), Calling,
           next' = next + 1, UNCHANGED answer
    PROVE  /\ Current \in Call /\ Current.id \in BatchIds
           /\ HandledIds' = HandledIds \cup {Current.id}
           /\ next' \in 1..(Len(answer'.calls) + 1)
<1>1. /\ answer.calls \in Seq(Call) /\ Len(answer.calls) \in Nat
      /\ DOMAIN answer.calls = 1..Len(answer.calls)
      /\ next \in Nat /\ next >= 1 /\ next <= Len(answer.calls)
  BY DEF LoopTypes, Calling
<1>2. next \in DOMAIN answer.calls
  BY <1>1
<1>3. Current \in Call /\ Current.id \in BatchIds
  BY <1>1, <1>2 DEF Current, BatchIds
<1>4. \A k : k \in 1..(next' - 1) <=> k \in 1..(next - 1) \/ k = next
  BY <1>1
<1>5. HandledIds' = {answer.calls[k].id : k \in 1..(next' - 1)}
  BY DEF HandledIds
<1>6. \A x : x \in HandledIds' <=> x \in HandledIds \/ x = Current.id
  BY <1>4, <1>5 DEF HandledIds, Current
<1>7. next' \in 1..(Len(answer'.calls) + 1)
  BY <1>1
<1> QED
  BY <1>3, <1>6, <1>7

\* A call that is handed off is shown.
LEMMA ReplayHandOff ==
    ASSUME ReplayInv, LoopTypes', HandOff
    PROVE  ReplayInv'
<1> DEFINE item == <<Current>>
<1>1. /\ pc = "calling" /\ pc' = "calling" /\ Calling /\ ~HasServerTool
      /\ next' = next + 1 /\ UNCHANGED <<answer, replay, requests>>
      /\ public' = public \o item /\ output' = output \o item /\ wire' = wire \o item
      /\ messages' = messages \o <<>>
  BY DEF HandOff, Handle, Calling
<1>2. /\ messages \in Seq(Message) /\ replay = NoRecord
      /\ wire \in Seq(Item) /\ output = wire /\ public = wire
      /\ next \in 1..(Len(answer.calls) + 1)
      /\ Asks \subseteq Tells \cup BatchIds /\ BatchIds \subseteq Asks
      /\ HandledIds \subseteq Shows(wire) /\ Shows(wire) \subseteq Tells \cup BatchIds
      /\ \A i \in DOMAIN messages :
            messages[i].role = "tool" => messages[i].ids = <<messages[i].ids[1]>>
  BY <1>1 DEF ReplayInv
<1>3. /\ Current \in Call /\ Current.id \in BatchIds
      /\ HandledIds' = HandledIds \cup {Current.id}
      /\ next' \in 1..(Len(answer'.calls) + 1)
  BY <1>1, <1>2, OneMoreHandled DEF ReplayInv
<1>4. item \in Seq(Item) /\ Shows(item) = {Current.id}
  BY <1>3, CallShown
<1> HIDE DEF item
<1>5. /\ wire' \in Seq(Item) /\ output' = wire' /\ public' = wire'
      /\ Shows(wire') = Shows(wire) \cup {Current.id}
  <2>1. Shows(wire \o item) = Shows(wire) \cup Shows(item)
    BY <1>2, <1>4, ShowsGrow
  <2> QED
    BY <1>1, <1>2, <1>4, <2>1
<1>6. messages' = messages
  BY <1>1, <1>2
<1>7. Asks' = Asks /\ Tells' = Tells /\ BatchIds' = BatchIds
  BY <1>1, <1>6 DEF Asks, Tells, BatchIds
<1>8. HasClientTool' /\ ~HasServerTool'
  <2>1. next >= 1
    BY <1>2
  <2> QED
    BY <1>1, <2>1, HandOffIsForClients, SameAnswer DEF ReplayInv
<1>9. /\ Asks' \subseteq Tells' \cup BatchIds' /\ BatchIds' \subseteq Asks'
      /\ HandledIds' \subseteq Shows(wire)' /\ Shows(wire)' \subseteq Tells' \cup BatchIds'
  BY <1>2, <1>3, <1>5, <1>7
<1> QED
  BY <1>1, <1>2, <1>3, <1>5, <1>6, <1>8, <1>9 DEF ReplayInv

\* A server tool that is run is answered, and a search is shown besides.
LEMMA ReplayRun ==
    ASSUME ReplayInv, LoopTypes', RunSearch \/ RunImage
    PROVE  ReplayInv'
<1> DEFINE one == Result(Current)
           told == <<one>>
<1>1. PICK shown \in {<<>>, <<Current>>} :
          /\ pc = "calling" /\ pc' = "calling" /\ Calling /\ ~HasClientTool
          /\ next' = next + 1 /\ UNCHANGED <<answer, replay, requests>>
          /\ public' = public \o shown /\ output' = output \o shown /\ wire' = wire \o shown
          /\ messages' = messages \o told
  BY DEF RunSearch, RunImage, Handle, Calling
<1>2. /\ messages \in Seq(Message) /\ replay = NoRecord
      /\ wire \in Seq(Item) /\ output = wire /\ public = wire
      /\ next \in 1..(Len(answer.calls) + 1)
      /\ Asks \subseteq Tells \cup BatchIds /\ BatchIds \subseteq Asks
      /\ HandledIds \cup Shows(wire) \subseteq Tells
      /\ \A i \in DOMAIN messages :
            messages[i].role = "tool" => messages[i].ids = <<messages[i].ids[1]>>
  BY <1>1 DEF ReplayInv
<1>3. /\ Current \in Call /\ Current.id \in BatchIds
      /\ HandledIds' = HandledIds \cup {Current.id}
      /\ next' \in 1..(Len(answer'.calls) + 1)
  BY <1>1, <1>2, OneMoreHandled DEF ReplayInv
<1>4. shown \in Seq(Item) /\ Shows(shown) \subseteq {Current.id}
  <2>1. CASE shown = <<>>
    BY <2>1, NoneShown
  <2>2. CASE shown = <<Current>>
    BY <1>3, <2>2, CallShown
  <2> QED
    BY <2>1, <2>2
<1>5. /\ wire' \in Seq(Item) /\ output' = wire' /\ public' = wire'
      /\ Shows(wire') \subseteq Shows(wire) \cup {Current.id}
  <2>1. Shows(wire \o shown) = Shows(wire) \cup Shows(shown)
    BY <1>2, <1>4, ShowsGrow
  <2>2. wire \o shown \in Seq(Item)
    BY <1>2, <1>4
  <2> QED
    BY <1>1, <1>2, <1>4, <2>1, <2>2
<1>6. one \in Message /\ one.role = "tool" /\ one.ids = <<Current.id>> /\ one.ids[1] = Current.id
  BY <1>3 DEF Result, Call, Message
<1> HIDE DEF one
<1>7. told \in Seq(Message) /\ DOMAIN told = {1} /\ told[1] = one
  BY <1>6
<1> HIDE DEF told
<1>8. /\ \A k \in DOMAIN told : told[k].role = "tool"
      /\ \A k \in DOMAIN told : told[k].ids = <<told[k].ids[1]>>
      /\ {told[k].ids[1] : k \in DOMAIN told} = {Current.id}
  BY <1>6, <1>7
<1>9. IdsOf(told, "assistant") = {} /\ IdsOf(told, "tool") = {Current.id}
  BY <1>7, <1>8, ResultsTell
<1>10. Asks' = Asks /\ Tells' = Tells \cup {Current.id} /\ BatchIds' = BatchIds
  <2>1. IdsOf(messages \o told, "assistant") = IdsOf(messages, "assistant") \cup IdsOf(told, "assistant")
    BY <1>2, <1>7, IdsGrow
  <2>2. IdsOf(messages \o told, "tool") = IdsOf(messages, "tool") \cup IdsOf(told, "tool")
    BY <1>2, <1>7, IdsGrow
  <2> QED
    BY <1>1, <1>9, <2>1, <2>2 DEF Asks, Tells, BatchIds
<1>11. /\ messages' \in Seq(Message)
       /\ \A i \in DOMAIN messages' :
             messages'[i].role = "tool" => messages'[i].ids = <<messages'[i].ids[1]>>
  <2>1. messages \o told \in Seq(Message)
    BY <1>2, <1>7
  <2>2. \A i \in DOMAIN (messages \o told) :
            (messages \o told)[i].role = "tool" =>
                (messages \o told)[i].ids = <<(messages \o told)[i].ids[1]>>
    BY <1>2, <1>7, <1>8, SingleResults
  <2> QED
    BY <1>1, <2>1, <2>2
<1>12. HasServerTool' /\ ~HasClientTool'
  <2>1. Current \in ToSet(answer.calls)
    BY <1>1, <1>2 DEF Calling, Current, ToSet, ReplayInv, LoopTypes
  <2>2. HasServerTool
    BY <1>1, <2>1 DEF HasClientTool, HasServerTool
  <2> QED
    BY <1>1, <2>2, SameAnswer
<1>13. /\ Asks' \subseteq Tells' \cup BatchIds' /\ BatchIds' \subseteq Asks'
       /\ HandledIds' \cup Shows(wire)' \subseteq Tells'
  BY <1>2, <1>3, <1>5, <1>10
<1> QED
  BY <1>1, <1>2, <1>3, <1>5, <1>11, <1>12, <1>13 DEF ReplayInv

\* All were handed off: the client has every call that is open.
LEMMA ReplayHandedOff ==
    ASSUME ReplayInv, LoopTypes', HandedOff
    PROVE  ReplayInv'
<1>1. /\ pc = "calling" /\ pc' = "completing" /\ HasClientTool /\ next > Len(answer.calls)
      /\ UNCHANGED <<messages, answer, next, public, output, wire, replay>>
  BY DEF HandedOff, Goto
<1>2. /\ messages \in Seq(Message) /\ replay = NoRecord
      /\ wire \in Seq(Item) /\ output = wire /\ public = wire
      /\ next \in 1..(Len(answer.calls) + 1)
      /\ Asks \subseteq Tells \cup BatchIds /\ BatchIds \subseteq Asks
      /\ \A i \in DOMAIN messages :
            messages[i].role = "tool" => messages[i].ids = <<messages[i].ids[1]>>
  BY <1>1 DEF ReplayInv
<1>3. /\ answer.calls \in Seq(Call) /\ Len(answer.calls) \in Nat
      /\ DOMAIN answer.calls = 1..Len(answer.calls)
  BY DEF ReplayInv, LoopTypes
<1>4. next - 1 = Len(answer.calls)
  BY <1>1, <1>2, <1>3
<1>5. ~HasServerTool
  <2>1. DOMAIN answer.calls # {}
    BY <1>1 DEF HasClientTool, ToSet
  <2>2. next # 1
    BY <1>3, <1>4, <2>1
  <2> QED
    BY <1>1, <2>2 DEF ReplayInv
<1>6. HandledIds = BatchIds
  BY <1>3, <1>4 DEF HandledIds, BatchIds
<1>7. BatchIds \subseteq Shows(wire) /\ Shows(wire) \subseteq Tells \cup BatchIds
  BY <1>1, <1>5, <1>6 DEF ReplayInv
<1>8. Settled'
  <2>1. Asks \ Tells = Shows(wire) \ Tells
    BY <1>2, <1>7
  <2> QED
    BY <1>1, <2>1 DEF Settled, Asks, Tells
<1> QED
  BY <1>1, <1>2, <1>8 DEF ReplayInv

\* All have run: every call has its result.
LEMMA ReplayRan ==
    ASSUME ReplayInv, LoopTypes', ServerToolsRan
    PROVE  ReplayInv'
<1>1. /\ pc = "calling" /\ pc' \in {"failed", "sending"} /\ ~HasClientTool
      /\ next > Len(answer.calls)
      /\ UNCHANGED <<messages, answer, next, public, output, wire, replay>>
  BY DEF ServerToolsRan, Goto
<1>2. /\ messages \in Seq(Message) /\ replay = NoRecord
      /\ wire \in Seq(Item) /\ output = wire /\ public = wire
      /\ next \in 1..(Len(answer.calls) + 1)
      /\ Asks \subseteq Tells \cup BatchIds
      /\ HandledIds \cup Shows(wire) \subseteq Tells
      /\ \A i \in DOMAIN messages :
            messages[i].role = "tool" => messages[i].ids = <<messages[i].ids[1]>>
  BY <1>1 DEF ReplayInv
<1>3. /\ answer.calls \in Seq(Call) /\ Len(answer.calls) \in Nat
      /\ DOMAIN answer.calls = 1..Len(answer.calls)
  BY DEF ReplayInv, LoopTypes
<1>4. next - 1 = Len(answer.calls)
  BY <1>1, <1>2, <1>3
<1>5. HandledIds = BatchIds
  BY <1>3, <1>4 DEF HandledIds, BatchIds
<1>6. Asks \cup Shows(wire) \subseteq Tells
  BY <1>2, <1>5
<1>7. Asks' \cup Shows(wire)' \subseteq Tells'
  BY <1>1, <1>6 DEF Asks, Tells
<1> QED
  BY <1>1, <1>2, <1>7 DEF ReplayInv

\* Every step writes the three records alike.
LEMMA ReplayStep == ReplayInv /\ [Next]_vars => ReplayInv'
<1> SUFFICES ASSUME ReplayInv, [Next]_vars
             PROVE  ReplayInv'
  OBVIOUS
<1>0. LoopTypes /\ LoopTypes'
  BY TypesStep DEF ReplayInv
<1>1. CASE Send
  <2>1. /\ pc = "sending" /\ pc' = "streaming"
        /\ UNCHANGED <<messages, answer, next, public, output, wire, replay>>
    BY <1>1 DEF Send, Goto
  <2> QED
    BY <1>0, <2>1 DEF ReplayInv, Asks, Tells
<1>2. CASE Finalize
  <2>1. /\ pc = "streaming" /\ pc' = "answered" /\ next' = 1
        /\ UNCHANGED <<messages, public, output, wire, replay>>
    BY <1>2 DEF Finalize, Goto
  <2> QED
    BY <1>0, <2>1 DEF ReplayInv, Asks, Tells
<1>3. CASE EmitItems
  BY <1>0, <1>3, ReplayEmit
<1>4. CASE Repair
  BY <1>0, <1>4, ReplayRepair
<1>5. CASE Clean
  BY <1>0, <1>5, ReplayClean
<1>6. CASE HandOff
  BY <1>0, <1>6, ReplayHandOff
<1>7. CASE RunSearch \/ RunImage
  BY <1>0, <1>7, ReplayRun
<1>8. CASE HandedOff
  BY <1>0, <1>8, ReplayHandedOff
<1>9. CASE ServerToolsRan
  BY <1>0, <1>9, ReplayRan
<1>10. CASE Store
  <2>1. /\ pc = "completing" /\ pc' = "finishing"
        /\ replay' = NoRecord \/ replay' = [visible |-> public, internal |-> messages]
        /\ UNCHANGED <<messages, answer, next, public, output, wire>>
    BY <1>10 DEF Store, Goto
  <2>2. Settled /\ (Settled' <=> Settled)
    BY <2>1 DEF ReplayInv, Settled, Asks, Tells
  <2> QED
    BY <1>0, <2>1, <2>2 DEF ReplayInv
<1>11. CASE Complete
  <2>1. /\ pc = "finishing" /\ pc' = "completed"
        /\ UNCHANGED <<messages, answer, next, public, output, wire, replay>>
    BY <1>11 DEF Complete, Goto
  <2>2. Settled /\ (Settled' <=> Settled)
    BY <2>1 DEF ReplayInv, Settled, Asks, Tells
  <2> QED
    BY <1>0, <2>1, <2>2 DEF ReplayInv
<1>12. CASE AnswerFails \/ Exhaust \/ MixedBatch \/ SearchFails
  <2>1. /\ pc \in {"streaming", "emitted", "calling"} /\ pc' \in {"failed", "exhausted"}
        /\ UNCHANGED <<messages, answer, next, public, output, wire, replay>>
    BY <1>12 DEF AnswerFails, Exhaust, MixedBatch, SearchFails, Goto
  <2> QED
    BY <1>0, <2>1 DEF ReplayInv
<1>13. CASE Cancel
  <2>1. /\ pc' = "cancelled"
        /\ UNCHANGED <<messages, answer, next, public, output, wire, replay>>
    BY <1>13 DEF Cancel
  <2>2. Settled' <=> Settled
    BY <2>1 DEF Settled, Asks, Tells
  <2> QED
    BY <1>0, <2>1, <2>2 DEF ReplayInv
<1>14. CASE Over \/ UNCHANGED vars
  <2>1. UNCHANGED <<pc, messages, answer, next, public, output, wire, replay, requests>>
    BY <1>14 DEF Over, vars
  <2>2. /\ Settled' <=> Settled
        /\ UNCHANGED <<Asks, Tells, BatchIds, HandledIds>>
    BY <2>1 DEF Settled, Asks, Tells, BatchIds, HandledIds
  <2>3. (HasClientTool' <=> HasClientTool) /\ (HasServerTool' <=> HasServerTool)
    BY <2>1, SameAnswer
  <2> QED
    BY <1>0, <2>1, <2>2, <2>3 DEF ReplayInv
<1> QED
  BY <1>1, <1>2, <1>3, <1>4, <1>5, <1>6, <1>7, <1>8, <1>9, <1>10, <1>11, <1>12, <1>13, <1>14
     DEF Next

\* The completed response, the public history and what the client was sent are
\* one, and the history a later turn replays leaves open exactly the calls this
\* client was handed.
THEOREM ReplayIsWhatWasSeen == Spec => []ReplayTellsWhatTheClientSaw
<1>1. Init => ReplayInv
  BY ReplayInit
<1>2. ReplayInv => ReplayTellsWhatTheClientSaw
  <2> SUFFICES ASSUME ReplayInv
               PROVE  ReplayTellsWhatTheClientSaw
    OBVIOUS
  <2>1. output = wire /\ public = wire /\ wire \in Seq(Item) /\ messages \in Seq(Message)
    BY DEF ReplayInv
  <2>2. ASSUME replay # NoRecord
        PROVE  replay.visible = wire /\ replay.internal = messages /\ Settled
    BY <2>2 DEF ReplayInv
  <2>3. \A m \in Message : \A c : m = Result(c) <=> m.role = "tool" /\ m.ids = <<c.id>>
    <3>1. \A m \in Message : m = [role |-> m.role, ids |-> m.ids]
      BY DEF Message
    <3> QED
      BY <3>1 DEF Result
  <2>4. \A x : x \in Tells <=>
            \E j \in DOMAIN messages : messages[j].role = "tool" /\ messages[j].ids = <<x>>
    <3>1. \A j \in DOMAIN messages : messages[j].role = "tool" =>
              messages[j].ids = <<messages[j].ids[1]>>
      BY DEF ReplayInv
    <3>2. \A y : ToSet(<<y>>) = {y}
      BY DEF ToSet
    <3>3. \A j \in DOMAIN messages : messages[j].role = "tool" =>
              \A x : x \in ToSet(messages[j].ids) <=> messages[j].ids = <<x>>
      <4> SUFFICES ASSUME NEW j \in DOMAIN messages, messages[j].role = "tool", NEW x
                   PROVE  x \in ToSet(messages[j].ids) <=> messages[j].ids = <<x>>
        OBVIOUS
      <4>1. PICK y : messages[j].ids = <<y>>
        BY <3>1
      <4>2. <<y>> = <<x>> <=> x = y
        OBVIOUS
      <4> QED
        BY <3>2, <4>1, <4>2
    <3>4. \A x : x \in Tells <=> \E j \in DOMAIN messages :
              messages[j].role = "tool" /\ x \in ToSet(messages[j].ids)
      BY DEF Tells, IdsOf
    <3> QED
      BY <3>3, <3>4
  <2>5. \A c : (\E j \in DOMAIN messages : messages[j] = Result(c)) <=> c.id \in Tells
    <3>1. \A j \in DOMAIN messages : messages[j] \in Message
      BY <2>1
    <3> QED
      BY <2>3, <2>4, <3>1
  <2> DEFINE handed == {wire[i].id : i \in {i \in DOMAIN wire :
                           wire[i].kind # "message"
                           /\ ~\E j \in DOMAIN messages : messages[j] = Result(wire[i])}}
  <2>6. handed = Shows(wire) \ Tells
    BY <2>5 DEF Shows
  <2>7. OpenCalls(messages) = Asks \ Tells
    BY DEF OpenCalls, Asks, Tells, IdsOf
  <2> HIDE DEF handed
  <2>8. replay # NoRecord => OpenCalls(replay.internal) = handed
    BY <2>2, <2>6, <2>7 DEF Settled
  <2> QED
    BY <2>1, <2>2, <2>8 DEF ReplayTellsWhatTheClientSaw, handed
<1> QED
  BY <1>1, <1>2, ReplayStep, PTL DEF Spec

-----------------------------------------------------------------------------
(* The gate of one answer's tool calls.                                    *)

\* The gate holds places, and only what may be seen was sent.
GateInv ==
    /\ buffer \in [Calls -> Seq(Nat)]
    /\ args \in [Calls -> Seq(Sizes)]
    /\ sent \in Seq(Fragment)
    /\ HiddenStaysHidden
    /\ phase = "flushing" => RejectedCalls = {}

\* A call is cut into fragments of its own.
LEMMA PiecesArePieces ==
    ASSUME NEW c \in Calls, NEW places \in Seq(Nat)
    PROVE  /\ Pieces(c, places) \in Seq(Fragment)
           /\ \A k \in DOMAIN Pieces(c, places) : Pieces(c, places)[k].call = c
<1>1. DOMAIN places = 1..Len(places) /\ Len(places) \in Nat
  OBVIOUS
<1>2. \A k \in 1..Len(places) : [call |-> c, at |-> places[k]] \in Fragment
  BY DEF Fragment
<1>3. Pieces(c, places) \in [1..Len(places) -> Fragment]
  BY <1>1, <1>2 DEF Pieces
<1>4. Pieces(c, places) \in Seq(Fragment)
  BY <1>1, <1>3
<1> QED
  BY <1>4 DEF Pieces

\* More fragments of a call the client may see hide nothing from it and show
\* it nothing hidden.
LEMMA VisiblePieces ==
    ASSUME sent \in Seq(Fragment), HiddenStaysHidden,
           NEW c \in Calls, ~Hidden(c), NEW places \in Seq(Nat),
           sent' = sent \o Pieces(c, places), kind' = kind
    PROVE  sent' \in Seq(Fragment) /\ HiddenStaysHidden'
<1> DEFINE pieces == Pieces(c, places)
<1>1. /\ pieces \in Seq(Fragment)
      /\ \A k \in DOMAIN pieces : pieces[k].call = c
  BY PiecesArePieces
<1> HIDE DEF pieces
<1>2. sent' = sent \o pieces
  BY DEF pieces
<1>3. sent' \in Seq(Fragment)
  BY <1>1, <1>2
<1>4. ASSUME NEW k \in DOMAIN sent'
      PROVE  ~Hidden(sent'[k].call)
  <2>1. CASE k \in DOMAIN sent
    <3>1. sent'[k] = sent[k]
      BY <1>1, <1>2, <2>1
    <3> QED
      BY <2>1, <3>1 DEF HiddenStaysHidden
  <2>2. CASE k \notin DOMAIN sent
    <3>1. /\ k - Len(sent) \in DOMAIN pieces
          /\ sent'[k] = pieces[k - Len(sent)]
      BY <1>1, <1>2, <2>2
    <3>2. sent'[k].call = c
      BY <1>1, <3>1
    <3> QED
      BY <3>2
  <2> QED
    BY <2>1, <2>2
<1> QED
  BY <1>3, <1>4 DEF HiddenStaysHidden, Hidden

-----------------------------------------------------------------------------

\* No step of the stream lets a hidden call through.
LEMMA GateStep == GateInv /\ [StreamNext]_streamVars => GateInv'
<1> SUFFICES ASSUME GateInv, [StreamNext]_streamVars PROVE GateInv'
  OBVIOUS
<1>1. CASE \E c \in Calls : NameOnly(c)
  BY <1>1 DEF NameOnly, GateInv, HiddenStaysHidden, Hidden
<1>2. ASSUME NEW c \in Calls, NEW withName \in BOOLEAN, NEW size \in Sizes,
             Arguments(c, withName, size)
      PROVE  GateInv'
  <2>1. /\ phase = "streaming" /\ kind' = kind
        /\ phase' \in {"streaming", "failed"}
        /\ args' = [args EXCEPT ![c] = Append(args[c], size)]
    BY <1>2 DEF Arguments
  <2>2. args' \in [Calls -> Seq(Sizes)] /\ Place(c) \in Nat
    BY <2>1 DEF GateInv, Place
  <2>3. CASE Hold(c, size)
    BY <2>1, <2>2, <2>3 DEF Hold, GateInv, HiddenStaysHidden, Hidden
  <2>4. CASE UNCHANGED <<buffer, bytes, pool, sent>>
    BY <2>1, <2>2, <2>4 DEF GateInv, HiddenStaysHidden, Hidden
  <2>5. CASE Drop(c)
    BY <2>1, <2>2, <2>5 DEF Drop, TakeOut, GateInv, HiddenStaysHidden, Hidden
  <2>6. CASE ~Hidden(c) /\ Forward(c)
    <3>1. Append(buffer[c], Place(c)) \in Seq(Nat)
      BY <2>2 DEF GateInv
    <3>2. sent' = sent \o Pieces(c, Append(buffer[c], Place(c)))
      BY <2>6 DEF Forward
    <3>3. sent' \in Seq(Fragment) /\ HiddenStaysHidden'
      BY <2>1, <2>6, <3>1, <3>2, VisiblePieces DEF GateInv
    <3>4. buffer' \in [Calls -> Seq(Nat)]
      BY <2>6 DEF Forward, TakeOut, GateInv
    <3> QED
      BY <2>1, <2>2, <3>3, <3>4 DEF GateInv
  <2> QED
    BY <1>2, <2>3, <2>4, <2>5, <2>6 DEF Arguments
<1>3. CASE Breaks \/ Nameless \/ Malformed \/ TaintedAnswer \/ Resolve
  BY <1>3 DEF Breaks, Nameless, Malformed, TaintedAnswer, Resolve, End, GateInv,
              HiddenStaysHidden, Hidden
<1>4. CASE CleanAnswer
  BY <1>4 DEF CleanAnswer, End, GateInv, HiddenStaysHidden, Hidden, RejectedCalls, Seen
<1>5. CASE Flush
  <2>1. PICK c \in Waiting : TakeOut(c) /\ sent' = sent \o Pieces(c, buffer[c])
    BY <1>5 DEF Flush
  <2>2. UNCHANGED <<phase, kind, named, args>> /\ phase = "flushing"
    BY <1>5 DEF Flush
  <2>3. c \in Calls /\ c \in Seen /\ kind[c] # "image"
    BY DEF Waiting, Seen
  <2>4. ~Hidden(c)
    BY <2>2, <2>3 DEF GateInv, RejectedCalls, Hidden
  <2>5. sent' \in Seq(Fragment) /\ HiddenStaysHidden'
    BY <2>1, <2>2, <2>3, <2>4, VisiblePieces DEF GateInv
  <2>6. buffer' \in [Calls -> Seq(Nat)]
    BY <2>1, <2>3 DEF TakeOut, GateInv
  <2> QED
    BY <2>2, <2>5, <2>6 DEF GateInv, RejectedCalls, Seen
<1>6. CASE AnswerOver \/ UNCHANGED streamVars
  BY <1>6 DEF AnswerOver, streamVars, GateInv, HiddenStaysHidden, Hidden, RejectedCalls, Seen
<1> QED
  BY <1>1, <1>2, <1>3, <1>4, <1>5, <1>6 DEF StreamNext

\* However names and arguments interleave, no fragment of an image call or of
\* a tool that was not offered reaches the client.
THEOREM HiddenNeverSent == StreamSpec => []HiddenStaysHidden
<1>1. StreamInit => GateInv
  BY DEF StreamInit, GateInv, HiddenStaysHidden
<1>2. GateInv => HiddenStaysHidden
  BY DEF GateInv
<1> QED
  BY <1>1, <1>2, GateStep, PTL DEF StreamSpec

-----------------------------------------------------------------------------
(* What the client sees of a call is whole.                                *)

SoFar(c) == Cardinality(SentOf(c))

\* The n-th fragment of c that was sent is its fragment n.
InOrder(c) == \A k \in SentOf(c) : sent[k].at = Cardinality({j \in SentOf(c) : j <= k})

\* The gate holds the fragments of a visible call that are yet to be sent.
WholeInv ==
    /\ GateInv
    /\ \A c \in Calls : InOrder(c)
    /\ phase \in {"streaming", "flushing"} =>
          \A c \in Calls : ~Hidden(c) =>
              /\ SoFar(c) + Len(buffer[c]) = Len(args[c])
              /\ \A i \in 1..Len(buffer[c]) : buffer[c][i] = SoFar(c) + i
    /\ phase = "resolved" => \A c \in Calls : ~Hidden(c) => SoFar(c) = Len(args[c])

\* The next fragments of a call follow those that were sent.
LEMMA PiecesFollow ==
    ASSUME sent \in Seq(Fragment), NEW c \in Calls, NEW places \in Seq(Nat),
           sent' = sent \o Pieces(c, places),
           \A d \in Calls : InOrder(d),
           \A i \in 1..Len(places) : places[i] = SoFar(c) + i
    PROVE  /\ \A d \in Calls : InOrder(d)'
           /\ SoFar(c)' = SoFar(c) + Len(places)
           /\ \A d \in Calls : d # c => SoFar(d)' = SoFar(d)
           /\ SoFar(c) \in Nat
<1> DEFINE pieces == Pieces(c, places)
           n == Len(sent)
           m == Len(places)
           P == SentOf(c)
<1>1. /\ pieces \in Seq(Fragment) /\ Len(pieces) = m
      /\ \A i \in 1..m : pieces[i].call = c /\ pieces[i].at = places[i]
      /\ n \in Nat /\ m \in Nat /\ DOMAIN sent = 1..n
  <2>1. DOMAIN places = 1..m /\ m \in Nat
    OBVIOUS
  <2>2. pieces = [k \in 1..m |-> [call |-> c, at |-> places[k]]]
    BY <2>1 DEF Pieces
  <2>3. pieces \in Seq(Fragment)
    BY PiecesArePieces
  <2> HIDE DEF pieces
  <2> QED
    BY <2>1, <2>2, <2>3
<1> HIDE DEF pieces
<1>2. /\ DOMAIN sent' = 1..(n + m)
      /\ \A k \in 1..n : sent'[k] = sent[k]
      /\ \A i \in 1..m : sent'[n + i] = pieces[i]
  <2>1. sent' = sent \o pieces
    BY DEF pieces
  <2>2. /\ sent \o pieces \in Seq(Fragment) /\ Len(sent \o pieces) = n + m
        /\ \A k \in 1..(n + m) :
              (sent \o pieces)[k] = IF k <= n THEN sent[k] ELSE pieces[k - n]
    <3>0. pieces \in Seq(Fragment)
      BY <1>1
    <3>1. /\ sent \o pieces \in Seq(Fragment)
          /\ Len(sent \o pieces) = Len(sent) + Len(pieces)
          /\ \A k \in 1..(Len(sent) + Len(pieces)) :
                (sent \o pieces)[k] = IF k <= Len(sent) THEN sent[k] ELSE pieces[k - Len(sent)]
      BY <3>0, ConcatProperties
    <3> QED
      BY <1>1, <3>1
  <2> HIDE DEF n, m
  <2>3. \A k \in 1..n : k \in 1..(n + m) /\ k <= n
    BY <1>1
  <2>4. \A i \in 1..m : n + i \in 1..(n + m) /\ ~(n + i <= n) /\ (n + i) - n = i
    BY <1>1
  <2>5. DOMAIN sent' = 1..(n + m)
    BY <2>1, <2>2
  <2> QED
    BY <2>1, <2>2, <2>3, <2>4, <2>5
<1> HIDE DEF n, m
<1>3. \A d \in Calls : d # c => SentOf(d)' = SentOf(d)
  <2> SUFFICES ASSUME NEW d \in Calls, d # c
               PROVE  SentOf(d)' = SentOf(d)
    OBVIOUS
  <2>1. \A k \in 1..(n + m) : k \in 1..n \/ \E i \in 1..m : k = n + i
    <3> TAKE k \in 1..(n + m)
    <3>1. k \in 1..n \/ k - n \in 1..m
      BY <1>1
    <3>2. k = n + (k - n)
      BY <1>1
    <3> QED
      BY <3>1, <3>2
  <2>2. \A k \in 1..(n + m) : sent'[k].call = d <=> k \in 1..n /\ sent[k].call = d
    <3> TAKE k \in 1..(n + m)
    <3>1. CASE k \in 1..n
      BY <1>2, <3>1
    <3>2. ASSUME NEW i \in 1..m, k = n + i
          PROVE  sent'[k].call = c /\ k \notin 1..n
      <4>1. sent'[n + i] = pieces[i] /\ pieces[i].call = c
        BY <1>1, <1>2
      <4>2. n + i \notin 1..n
        BY <1>1
      <4> QED
        BY <3>2, <4>1, <4>2
    <3> QED
      BY <2>1, <3>1, <3>2
  <2>3. 1..n \subseteq 1..(n + m)
    BY <1>1
  <2>4. SentOf(d)' = {k \in 1..(n + m) : sent'[k].call = d}
    BY <1>2 DEF SentOf
  <2>5. SentOf(d) = {k \in 1..n : sent[k].call = d}
    BY <1>1 DEF SentOf
  <2> QED
    BY <2>2, <2>3, <2>4, <2>5
<1>4. SentOf(c)' = P \cup (n + 1)..(n + m)
  <2>1. \A k \in (n + 1)..(n + m) : k \in 1..(n + m) /\ k \notin 1..n /\ sent'[k].call = c
    <3> TAKE k \in (n + 1)..(n + m)
    <3>1. k - n \in 1..m /\ k = n + (k - n)
      BY <1>1
    <3> QED
      BY <1>1, <1>2, <3>1
  <2>2. \A k \in 1..(n + m) : k \in 1..n \/ k \in (n + 1)..(n + m)
    BY <1>1
  <2>3. \A k \in 1..n : k \in 1..(n + m) /\ sent'[k] = sent[k]
    BY <1>1, <1>2
  <2>4. SentOf(c)' = {k \in 1..(n + m) : sent'[k].call = c}
    BY <1>2 DEF SentOf
  <2>5. P = {k \in 1..n : sent[k].call = c}
    BY <1>1 DEF SentOf
  <2> HIDE DEF P
  <2> QED
    BY <2>1, <2>2, <2>3, <2>4, <2>5
<1>5. P \subseteq 1..n /\ IsFiniteSet(P) /\ Cardinality(P) \in Nat
  <2>1. P \subseteq 1..n
    BY <1>1 DEF SentOf
  <2>2. IsFiniteSet(1..n)
    BY <1>1, FS_Interval
  <2>3. IsFiniteSet(P)
    BY <2>1, <2>2, FS_Subset
  <2> QED
    BY <2>1, <2>3, FS_CardinalityType
<1> HIDE DEF P
<1>6. ASSUME NEW i \in 0..m
      PROVE  Cardinality(P \cup (n + 1)..(n + i)) = Cardinality(P) + i
  <2> DEFINE new == (n + 1)..(n + i)
  <2>1. IsFiniteSet(new) /\ Cardinality(new) = i
    BY <1>1, FS_Interval
  <2>2. P \cap new = {}
    BY <1>1, <1>5
  <2>3. Cardinality(P \cap new) = 0
    BY <2>2, FS_EmptySet
  <2> HIDE DEF new
  <2>4. Cardinality(P \cup new) = Cardinality(P) + Cardinality(new) - Cardinality(P \cap new)
    BY <1>5, <2>1, FS_Union
  <2>5. Cardinality(P \cup new) = Cardinality(P) + i
    BY <1>1, <1>5, <2>1, <2>3, <2>4
  <2> QED
    BY <2>5 DEF new
<1>7. SoFar(c)' = SoFar(c) + m
  <2>1. m \in 0..m
    BY <1>1
  <2>2. Cardinality(SentOf(c)') = Cardinality(P) + m
    BY <1>4, <1>6, <2>1
  <2> QED
    BY <2>2 DEF SoFar, P
<1>8. \A d \in Calls : d # c => SoFar(d)' = SoFar(d)
  BY <1>3 DEF SoFar
<1>9. \A d \in Calls : d # c => InOrder(d)'
  <2> SUFFICES ASSUME NEW d \in Calls, d # c, NEW k \in SentOf(d)
               PROVE  sent'[k].at = Cardinality({j \in SentOf(d) : j <= k})
    BY <1>3 DEF InOrder
  <2>1. k \in 1..n
    BY <1>1 DEF SentOf
  <2>2. sent'[k] = sent[k]
    BY <1>2, <2>1
  <2>3. sent[k].at = Cardinality({j \in SentOf(d) : j <= k})
    BY DEF InOrder
  <2> QED
    BY <2>2, <2>3
<1>10. ASSUME NEW k \in SentOf(c)'
       PROVE  sent'[k].at = Cardinality({j \in SentOf(c)' : j <= k})
  <2>1. CASE k \in P
    <3>1. \A j \in (n + 1)..(n + m) : ~(j <= k)
      BY <1>1, <1>5, <2>1
    <3>2. {j \in SentOf(c)' : j <= k} = {j \in P : j <= k}
      BY <1>4, <3>1
    <3>3. sent'[k] = sent[k]
      BY <1>2, <1>5, <2>1
    <3>4. sent[k].at = Cardinality({j \in P : j <= k})
      BY <2>1 DEF InOrder, P
    <3> QED
      BY <3>2, <3>3, <3>4
  <2>2. CASE k \in (n + 1)..(n + m)
    <3> DEFINE i == k - n
    <3>1. i \in 1..m /\ i \in 0..m /\ k = n + i
      BY <1>1, <2>2
    <3> HIDE DEF i
    <3>2. \A j \in (n + 1)..(n + m) : j <= k <=> j \in (n + 1)..(n + i)
      BY <1>1, <3>1
    <3>3. \A j \in (n + 1)..(n + i) : j \in (n + 1)..(n + m)
      BY <1>1, <3>1
    <3>4. \A j \in P : j <= k
      BY <1>1, <1>5, <3>1
    <3>5. {j \in SentOf(c)' : j <= k} = P \cup (n + 1)..(n + i)
      BY <1>4, <3>2, <3>3, <3>4
    <3>6. Cardinality({j \in SentOf(c)' : j <= k}) = Cardinality(P) + i
      BY <1>6, <3>1, <3>5
    <3>7. sent'[k].at = places[i]
      BY <1>1, <1>2, <3>1
    <3>8. places[i] = Cardinality(P) + i
      BY <3>1 DEF SoFar, P, m
    <3> QED
      BY <3>6, <3>7, <3>8
  <2> QED
    BY <1>4, <2>1, <2>2
<1>11. InOrder(c)'
  BY <1>10 DEF InOrder
<1>12. SoFar(c) \in Nat
  BY <1>5 DEF SoFar, P
<1> QED
  BY <1>7, <1>8, <1>9, <1>11, <1>12 DEF m

\* How much of a call was sent is a number.
LEMMA SoFarIsNat ==
    ASSUME sent \in Seq(Fragment), NEW c \in Calls
    PROVE  SoFar(c) \in Nat
<1>1. SentOf(c) \subseteq 1..Len(sent) /\ Len(sent) \in Nat
  BY DEF SentOf
<1>2. IsFiniteSet(1..Len(sent))
  BY <1>1, FS_Interval
<1>3. IsFiniteSet(SentOf(c))
  BY <1>1, <1>2, FS_Subset
<1> QED
  BY <1>3, FS_CardinalityType DEF SoFar

\* A step that sends nothing keeps what was sent of each call.
LEMMA NothingSent ==
    ASSUME UNCHANGED sent
    PROVE  \A c \in Calls : (InOrder(c)' <=> InOrder(c)) /\ SoFar(c)' = SoFar(c)
<1>1. \A c \in Calls : SentOf(c)' = SentOf(c)
  BY DEF SentOf
<1> QED
  BY <1>1 DEF InOrder, SoFar

\* A fragment of a call that comes while the answer streams.
LEMMA WholeArguments ==
    ASSUME WholeInv, GateInv', NEW c \in Calls, NEW withName \in BOOLEAN, NEW size \in Sizes,
           Arguments(c, withName, size)
    PROVE  WholeInv'
<1>1. /\ phase = "streaming" /\ kind' = kind /\ args \in [Calls -> Seq(Sizes)]
      /\ args' = [args EXCEPT ![c] = Append(args[c], size)]
      /\ buffer \in [Calls -> Seq(Nat)] /\ sent \in Seq(Fragment)
      /\ \A d \in Calls : InOrder(d)
      /\ \A d \in Calls : ~Hidden(d) =>
            /\ SoFar(d) + Len(buffer[d]) = Len(args[d])
            /\ \A i \in 1..Len(buffer[d]) : buffer[d][i] = SoFar(d) + i
  BY DEF Arguments, WholeInv, GateInv
<1>2. \A d \in Calls : Hidden(d)' <=> Hidden(d)
  BY <1>1 DEF Hidden
<1>3. /\ Place(c) = Len(args[c]) + 1 /\ Len(args[c]) \in Nat /\ Len(buffer[c]) \in Nat
      /\ Place(c) \in Nat /\ buffer[c] \in Seq(Nat)
      /\ Len(args'[c]) = Place(c)
      /\ \A d \in Calls : d # c => args'[d] = args[d]
  BY <1>1 DEF Place
<1> DEFINE more == Append(buffer[c], Place(c))
<1>4. /\ more \in Seq(Nat) /\ Len(more) = Len(buffer[c]) + 1
      /\ more[Len(buffer[c]) + 1] = Place(c)
      /\ \A i \in 1..Len(buffer[c]) : more[i] = buffer[c][i]
  BY <1>3
<1> HIDE DEF more
<1>5. \A i \in 1..Len(more) : i \in 1..Len(buffer[c]) \/ i = Len(buffer[c]) + 1
  BY <1>3, <1>4
<1>6. SoFar(c) \in Nat /\ (~Hidden(c) => (SoFar(c) + Len(buffer[c])) + 1 = Place(c))
  <2>1. SoFar(c) \in Nat
    BY <1>1, SoFarIsNat
  <2>2. ~Hidden(c) => SoFar(c) + Len(buffer[c]) = Len(args[c])
    BY <1>1
  <2> QED
    BY <1>3, <2>1, <2>2
<1>7. ~Hidden(c) => \A i \in 1..Len(more) : more[i] = SoFar(c) + i
  <2> SUFFICES ASSUME ~Hidden(c), NEW i \in 1..Len(more)
               PROVE  more[i] = SoFar(c) + i
    OBVIOUS
  <2>1. CASE i \in 1..Len(buffer[c])
    BY <1>1, <1>4, <2>1
  <2>2. CASE i = Len(buffer[c]) + 1
    <3>1. more[i] = (SoFar(c) + Len(buffer[c])) + 1
      BY <1>4, <1>6, <2>2
    <3> QED
      BY <1>3, <1>6, <2>2, <3>1
  <2> QED
    BY <1>5, <2>1, <2>2
<1>8. CASE UNCHANGED sent /\ phase' = "failed"
  <2>1. \A d \in Calls : InOrder(d)'
    BY <1>1, <1>8, NothingSent
  <2> QED
    BY <1>8, <2>1 DEF WholeInv
<1>9. CASE Hold(c, size) /\ UNCHANGED phase
  <2>1. /\ \A d \in Calls : InOrder(d)'
        /\ \A d \in Calls : SoFar(d)' = SoFar(d)
    <3>1. UNCHANGED sent
      BY <1>9 DEF Hold
    <3> QED
      BY <1>1, <3>1, NothingSent
  <2>2. buffer'[c] = more /\ \A d \in Calls : d # c => buffer'[d] = buffer[d]
    BY <1>1, <1>9 DEF Hold, more
  <2>3. \A d \in Calls : ~Hidden(d) =>
            /\ SoFar(d) + Len(buffer'[d]) = Len(args'[d])
            /\ \A i \in 1..Len(buffer'[d]) : buffer'[d][i] = SoFar(d) + i
    <3> SUFFICES ASSUME NEW d \in Calls, ~Hidden(d)
                 PROVE  /\ SoFar(d) + Len(buffer'[d]) = Len(args'[d])
                        /\ \A i \in 1..Len(buffer'[d]) : buffer'[d][i] = SoFar(d) + i
      OBVIOUS
    <3>1. CASE d = c
      <4>1. SoFar(c) + Len(more) = Place(c)
        <5>1. Len(more) = Len(buffer[c]) + 1 /\ (SoFar(c) + Len(buffer[c])) + 1 = Place(c)
          BY <1>4, <1>6, <3>1
        <5> QED
          BY <1>3, <1>6, <5>1
      <4> QED
        BY <1>3, <1>7, <2>2, <3>1, <4>1
    <3>2. CASE d # c
      BY <1>1, <1>3, <2>2, <3>2
    <3> QED
      BY <3>1, <3>2
  <2>4. \A d \in Calls : ~Hidden(d)' =>
            /\ SoFar(d)' + Len(buffer[d])' = Len(args[d])'
            /\ \A i \in 1..Len(buffer[d])' : buffer[d][i]' = SoFar(d)' + i
    BY <1>2, <2>1, <2>3
  <2> QED
    BY <1>1, <1>9, <2>1, <2>4 DEF WholeInv
<1>10. CASE Hidden(c) /\ Drop(c) /\ UNCHANGED phase
  <2>1. /\ \A d \in Calls : InOrder(d)'
        /\ \A d \in Calls : SoFar(d)' = SoFar(d)
    <3>1. UNCHANGED sent
      BY <1>10 DEF Drop
    <3> QED
      BY <1>1, <3>1, NothingSent
  <2>2. \A d \in Calls : d # c => buffer'[d] = buffer[d]
    BY <1>1, <1>10 DEF Drop, TakeOut
  <2>3. \A d \in Calls : ~Hidden(d)' => d # c
    BY <1>2, <1>10
  <2>4. \A d \in Calls : ~Hidden(d)' =>
            /\ SoFar(d)' + Len(buffer[d])' = Len(args[d])'
            /\ \A i \in 1..Len(buffer[d])' : buffer[d][i]' = SoFar(d)' + i
    BY <1>1, <1>2, <1>3, <2>1, <2>2, <2>3
  <2> QED
    BY <1>1, <1>10, <2>1, <2>4 DEF WholeInv
<1>11. CASE ~Hidden(c) /\ Forward(c) /\ UNCHANGED phase
  <2>1. sent' = sent \o Pieces(c, more)
    BY <1>11 DEF Forward, more
  <2>2. /\ \A d \in Calls : InOrder(d)'
        /\ SoFar(c)' = SoFar(c) + Len(more)
        /\ \A d \in Calls : d # c => SoFar(d)' = SoFar(d)
    BY <1>1, <1>4, <1>7, <1>11, <2>1, PiecesFollow
  <2>3. buffer'[c] = <<>> /\ \A d \in Calls : d # c => buffer'[d] = buffer[d]
    BY <1>1, <1>11 DEF Forward, TakeOut
  <2>4. ASSUME NEW d \in Calls, ~Hidden(d)
        PROVE  /\ SoFar(d)' + Len(buffer'[d]) = Len(args'[d])
               /\ \A i \in 1..Len(buffer'[d]) : buffer'[d][i] = SoFar(d)' + i
    <3>1. CASE d = c
      <4>1. SoFar(c)' = Place(c)
        <5>1. Len(more) = Len(buffer[c]) + 1 /\ (SoFar(c) + Len(buffer[c])) + 1 = Place(c)
          BY <1>4, <1>6, <1>11
        <5>2. SoFar(c)' = SoFar(c) + Len(more)
          BY <2>2
        <5> QED
          BY <1>3, <1>6, <5>1, <5>2
      <4>2. Len(buffer'[c]) = 0
        BY <2>3
      <4>3. SoFar(c)' + Len(buffer'[c]) = Len(args'[c])
        BY <1>3, <4>1, <4>2
      <4>4. \A i \in 1..Len(buffer'[c]) : FALSE
        BY <4>2
      <4> QED
        BY <3>1, <4>3, <4>4
    <3>2. CASE d # c
      BY <1>1, <1>3, <2>2, <2>3, <2>4, <3>2
    <3> QED
      BY <3>1, <3>2
  <2>5. \A d \in Calls : ~Hidden(d)' =>
            /\ SoFar(d)' + Len(buffer[d])' = Len(args[d])'
            /\ \A i \in 1..Len(buffer[d])' : buffer[d][i]' = SoFar(d)' + i
    BY <1>2, <2>4
  <2> QED
    BY <1>1, <1>11, <2>2, <2>5 DEF WholeInv
<1> QED
  BY <1>8, <1>9, <1>10, <1>11 DEF Arguments

\* The held fragments of a call go once the whole answer is known.
LEMMA WholeFlush ==
    ASSUME WholeInv, GateInv', Flush
    PROVE  WholeInv'
<1>1. PICK c \in Waiting : TakeOut(c) /\ sent' = sent \o Pieces(c, buffer[c])
  BY DEF Flush
<1>2. UNCHANGED <<phase, kind, named, args>> /\ phase = "flushing"
  BY DEF Flush
<1>3. c \in Calls /\ ~Hidden(c)
  <2>1. c \in Calls /\ c \in Seen /\ kind[c] # "image"
    BY DEF Waiting, Seen
  <2> QED
    BY <1>2, <2>1 DEF WholeInv, GateInv, RejectedCalls, Hidden
<1>4. /\ args \in [Calls -> Seq(Sizes)]
      /\ buffer \in [Calls -> Seq(Nat)] /\ sent \in Seq(Fragment)
      /\ \A d \in Calls : InOrder(d)
      /\ \A d \in Calls : ~Hidden(d) =>
            /\ SoFar(d) + Len(buffer[d]) = Len(args[d])
            /\ \A i \in 1..Len(buffer[d]) : buffer[d][i] = SoFar(d) + i
  BY <1>2 DEF WholeInv, GateInv
<1>5. buffer[c] \in Seq(Nat)
  BY <1>3, <1>4
<1>6. /\ \A d \in Calls : InOrder(d)'
      /\ SoFar(c)' = SoFar(c) + Len(buffer[c])
      /\ \A d \in Calls : d # c => SoFar(d)' = SoFar(d)
  BY <1>1, <1>3, <1>4, <1>5, PiecesFollow
<1>7. buffer'[c] = <<>> /\ \A d \in Calls : d # c => buffer'[d] = buffer[d]
  BY <1>1, <1>3, <1>4 DEF TakeOut
<1>8. ASSUME NEW d \in Calls, ~Hidden(d)
      PROVE  /\ SoFar(d)' + Len(buffer'[d]) = Len(args'[d])
             /\ \A i \in 1..Len(buffer'[d]) : buffer'[d][i] = SoFar(d)' + i
  <2>1. CASE d = c
    <3>1. SoFar(c)' = Len(args[c]) /\ Len(args[c]) \in Nat
      BY <1>3, <1>4, <1>6
    <3>2. Len(buffer'[c]) = 0
      BY <1>7
    <3>3. SoFar(c)' + Len(buffer'[c]) = Len(args'[c])
      BY <1>2, <3>1, <3>2
    <3>4. \A i \in 1..Len(buffer'[c]) : FALSE
      BY <3>2
    <3> QED
      BY <2>1, <3>3, <3>4
  <2>2. CASE d # c
    BY <1>2, <1>4, <1>6, <1>7, <1>8, <2>2
  <2> QED
    BY <2>1, <2>2
<1>9. \A d \in Calls : ~Hidden(d)' =>
          /\ SoFar(d)' + Len(buffer[d])' = Len(args[d])'
          /\ \A i \in 1..Len(buffer[d])' : buffer[d][i]' = SoFar(d)' + i
  BY <1>2, <1>8 DEF Hidden
<1> QED
  BY <1>2, <1>6, <1>9 DEF WholeInv

\* Every step of the stream keeps the fragments whole.
LEMMA WholeStep == WholeInv /\ [StreamNext]_streamVars => WholeInv'
<1> SUFFICES ASSUME WholeInv, [StreamNext]_streamVars PROVE WholeInv'
  OBVIOUS
<1>0. GateInv /\ GateInv'
  BY GateStep DEF WholeInv
<1>1. ASSUME UNCHANGED <<kind, args, buffer, sent>>
      PROVE  /\ \A d \in Calls : InOrder(d)' <=> InOrder(d)
             /\ \A d \in Calls : SoFar(d)' = SoFar(d)
             /\ \A d \in Calls : Hidden(d)' <=> Hidden(d)
  BY <1>1, NothingSent DEF Hidden
<1>2. CASE \E c \in Calls : NameOnly(c)
  <2>1. UNCHANGED <<phase, kind, args, buffer, sent>>
    BY <1>2 DEF NameOnly
  <2> QED
    BY <1>0, <1>1, <2>1 DEF WholeInv
<1>3. ASSUME NEW c \in Calls, NEW withName \in BOOLEAN, NEW size \in Sizes,
             Arguments(c, withName, size)
      PROVE  WholeInv'
  BY <1>0, <1>3, WholeArguments
<1>4. CASE Breaks \/ Nameless \/ Malformed \/ TaintedAnswer
  <2>1. UNCHANGED <<kind, args, buffer, sent>> /\ phase' \in {"failed", "tainted"}
    BY <1>4 DEF Breaks, Nameless, Malformed, TaintedAnswer, End
  <2> QED
    BY <1>0, <1>1, <2>1 DEF WholeInv
<1>5. CASE CleanAnswer
  <2>1. /\ UNCHANGED <<kind, args, buffer, sent>>
        /\ phase = "streaming" /\ phase' = "flushing"
    BY <1>5 DEF CleanAnswer, WholeAnswer, End
  <2> QED
    BY <1>0, <1>1, <2>1 DEF WholeInv
<1>6. CASE Flush
  BY <1>0, <1>6, WholeFlush
<1>7. CASE Resolve
  <2>1. /\ UNCHANGED <<kind, args, buffer, sent>>
        /\ phase = "flushing" /\ phase' = "resolved" /\ Waiting = {}
    BY <1>7 DEF Resolve, End
  <2>2. ASSUME NEW d \in Calls, ~Hidden(d)
        PROVE  SoFar(d) = Len(args[d])
    <3>1. SoFar(d) + Len(buffer[d]) = Len(args[d])
      BY <2>1, <2>2 DEF WholeInv
    <3>2. buffer[d] \in Seq(Nat) /\ args[d] \in Seq(Sizes)
      BY <1>0 DEF GateInv
    <3>3. SoFar(d) \in Nat
      BY <1>0, SoFarIsNat DEF GateInv
    <3>4. buffer[d] # <<>> => args[d] # <<>>
      <4> SUFFICES ASSUME buffer[d] # <<>>, args[d] = <<>>
                   PROVE  FALSE
        OBVIOUS
      <4>1. Len(buffer[d]) \in Nat /\ Len(buffer[d]) # 0
        BY <3>2
      <4>2. Len(args[d]) = 0
        OBVIOUS
      <4> QED
        BY <3>1, <3>3, <4>1, <4>2
    <3>5. buffer[d] # <<>> => d \in Waiting
      BY <2>2, <3>4 DEF Waiting, Seen, Hidden
    <3>6. buffer[d] = <<>>
      BY <2>1, <3>5
    <3>7. Len(buffer[d]) = 0
      BY <3>6
    <3> QED
      BY <3>1, <3>3, <3>7
  <2>3. \A d \in Calls : ~Hidden(d)' => SoFar(d)' = Len(args[d])'
    BY <1>1, <2>1, <2>2
  <2>4. \A d \in Calls : InOrder(d)'
    BY <1>1, <2>1 DEF WholeInv
  <2> QED
    BY <1>0, <2>1, <2>3, <2>4 DEF WholeInv
<1>8. CASE AnswerOver \/ UNCHANGED streamVars
  <2>1. UNCHANGED <<phase, kind, args, buffer, sent>>
    BY <1>8 DEF AnswerOver, streamVars
  <2> QED
    BY <1>0, <1>1, <2>1 DEF WholeInv
<1> QED
  BY <1>2, <1>3, <1>4, <1>5, <1>6, <1>7, <1>8 DEF StreamNext

\* However the gate held and let go of them, the fragments of a visible call
\* reach the client in the order they came, without a gap, and in the end all.
THEOREM VisibleIsWhole == StreamSpec => []VisibleIsComplete
<1>1. StreamInit => WholeInv
  <2> SUFFICES ASSUME StreamInit
               PROVE  WholeInv
    OBVIOUS
  <2>1. GateInv
    BY DEF StreamInit, GateInv, HiddenStaysHidden
  <2>2. \A c \in Calls : SentOf(c) = {}
    BY DEF StreamInit, SentOf
  <2>3. \A c \in Calls : SoFar(c) = 0
    BY <2>2, FS_EmptySet DEF SoFar
  <2>4. \A c \in Calls : Len(buffer[c]) = 0 /\ Len(args[c]) = 0
    BY DEF StreamInit
  <2>5. \A c \in Calls : InOrder(c)
    BY <2>2 DEF InOrder
  <2>6. phase = "streaming"
    BY DEF StreamInit
  <2>7. \A c \in Calls : /\ SoFar(c) + Len(buffer[c]) = Len(args[c])
                         /\ \A i \in 1..Len(buffer[c]) : buffer[c][i] = SoFar(c) + i
    BY <2>3, <2>4
  <2> QED
    BY <2>1, <2>5, <2>6, <2>7 DEF WholeInv
<1>2. WholeInv => VisibleIsComplete
  BY DEF WholeInv, VisibleIsComplete, InOrder, SoFar
<1> QED
  BY <1>1, <1>2, WholeStep, PTL DEF StreamSpec

-----------------------------------------------------------------------------
(* The SSE guard.  A byte counts (Plain) unless it belongs to a blank line,*)
(* and Blank, the definition by the whole answer, agrees with what is seen *)
(* in its neighbourhood (BlankIs).  The guard's state tells of the answer  *)
(* so far where the frame it is in begins and what it holds back (Kept), or*)
(* that no continuation can mend it (Doomed).  The loop over the frames is *)
(* a recursive function: FramesExist says that it is defined, FramesJudged *)
(* what it returns, both by induction on the bytes that are left.          *)

\* The bytes.
Letters == {"r", "n", "x"}

\* A byte of a line end.
Eol(s, i) == Byte(s, i) \in {"r", "n"}

\* A line end that touches neither another one nor the start.
Lone(s, i) ==
    \/ /\ Byte(s, i) = "r" /\ Byte(s, i - 1) = "x"
       /\ ~Eol(s, i + 1) \/ (Byte(s, i + 1) = "n" /\ ~Eol(s, i + 2))
    \/ /\ Byte(s, i) = "n" /\ ~Eol(s, i + 1)
       /\ Byte(s, i - 1) = "x" \/ (Byte(s, i - 1) = "r" /\ Byte(s, i - 2) = "x")

\* A byte that counts.
Plain(s, i) == Byte(s, i) = "x" \/ Lone(s, i)

\* The place q ends a blank line, whatever follows what is known.
Done(s, q, atEof) ==
    \/ q = 0
    \/ /\ q \in 1..Len(s) /\ Eol(s, q)
       /\ Byte(s, q) = "r" => Byte(s, q + 1) # "n" /\ (atEof \/ q < Len(s))
       /\ IF Byte(s, q) = "n" /\ Byte(s, q - 1) = "r"
          THEN Byte(s, q - 2) # "x" ELSE Byte(s, q - 1) # "x"

\* No frame up to place m is too long.
Short(s, m) == \A i \in 1..(m - FrameCap) : \E k \in i..(i + FrameCap) : ~Plain(s, k)

\* A frame begins behind f and goes on at q.
InFrame(s, f, q, atEof) ==
    /\ f \in 0..q /\ q <= Len(s)
    /\ Done(s, f, atEof) /\ Byte(s, f + 1) = "x" /\ Short(s, f)
    /\ q - f <= FrameCap
    /\ q > f => Byte(s, q) = "x" /\ \A k \in (f + 1)..q : Plain(s, k)

\* What is held back behind q may be part of a blank line.
Held(s, q) ==
    \E more \in Continuations :
        \A k \in (q + 1)..(Len(s) + Len(more)) : ~Plain(s \o more, k)

\* The guard has judged what comes up to place q and holds back the rest.
Kept(s, g, q) ==
    /\ q \in 0..Len(s) /\ Len(s) - q <= 3
    /\ g.carry = SubSeq(s, q + 1, Len(s))
    /\ g.inRun \in BOOLEAN
    /\ g.inRun => /\ g.since = 0 /\ Done(s, q, FALSE) /\ Short(s, q)
                  /\ q = Len(s) \/ (q + 1 = Len(s) /\ Byte(s, q + 1) = "r")
    /\ ~g.inRun => /\ \E f \in 0..(q - 1) : InFrame(s, f, q, FALSE) /\ g.since = q - f
                   /\ Held(s, q)

\* Whatever follows, a frame is too long.
Doomed(s) ==
    \E i \in 1..Len(s), q \in 1..Len(s) :
        /\ i + FrameCap <= q /\ Byte(s, q) = "x"
        /\ \A k \in i..(i + FrameCap) : Plain(s, k)

\* What the verdict says of the bytes so far.
Judged(s, g, atEof) ==
    IF atEof THEN g.over <=> ~Short(s, Len(s))
    ELSE IF g.over THEN Doomed(s) ELSE \E q \in 0..Len(s) : Kept(s, g, q)

\* What holds of the guard at each step: the inductive invariant.
SseInv ==
    /\ arrived \in Seq(Letters) /\ passed \in 0..Len(arrived)
    /\ guard.over \in BOOLEAN
    /\ ended = "no" => Judged(arrived, guard, FALSE)
    /\ ended = "no" /\ ~guard.over => passed = Len(arrived)
    /\ ended = "eof" => Judged(arrived, guard, TRUE)
    /\ ~TooLong(SubSeq(arrived, 1, passed), FrameCap + 3)
-----------------------------------------------------------------------------
(* Bytes.                                                                  *)

\* A place in the answer holds a letter, any other place none.
LEMMA ByteIs ==
    ASSUME NEW s \in Seq(Letters)
    PROVE  \A i \in Int :
              \/ i \in 1..Len(s) /\ Byte(s, i) = s[i] /\ Byte(s, i) \in Letters
              \/ i \notin 1..Len(s) /\ Byte(s, i) = "none"
  BY DEF Byte

\* The bytes of blank lines, by the letters around them.
LEMMA BlankIs ==
    ASSUME NEW s \in Seq(Letters), NEW i \in 1..Len(s)
    PROVE  i \in Blank(s) <=> ~Plain(s, i)
<1> DEFINE ends == EolStarts(s)
           behind(j) == IF s[j] = "r" /\ Byte(s, j + 1) = "n" THEN j + 2 ELSE j + 1
           touches(j) == j = 1 \/ behind(j) \in ends \/ \E k \in ends : j = behind(k)
<1>1. Len(s) \in Nat /\ DOMAIN s = 1..Len(s)
  OBVIOUS
<1>2. \A j \in Int : j \in ends <=>
        Byte(s, j) = "r" \/ (Byte(s, j) = "n" /\ Byte(s, j - 1) # "r")
  BY <1>1, ByteIs DEF EolStarts
<1>3. \A j \in ends : j \in 1..Len(s) /\ s[j] = Byte(s, j)
  BY <1>1, ByteIs DEF EolStarts
<1>4. i \in Blank(s) <=> \E j \in ends : touches(j) /\ i \in EolBytes(s, j)
  BY DEF Blank
<1> HIDE DEF ends
<1>5. \A j \in ends : behind(j) = IF Byte(s, j) = "r" /\ Byte(s, j + 1) = "n" THEN j + 2 ELSE j + 1
  BY <1>3
<1>6. \A j \in ends : i \in EolBytes(s, j) <=>
        i = j \/ (i = j + 1 /\ Byte(s, j) = "r" /\ Byte(s, j + 1) = "n")
  BY <1>3 DEF EolBytes
<1> HIDE DEF behind
<1>7. \A j \in ends : touches(j) <=> j = 1 \/ Eol(s, behind(j)) \/ Eol(s, j - 1)
  <2> TAKE j \in ends
  <2>1. j \in Int /\ j - 1 \in Int /\ j - 2 \in Int /\ j + 1 \in Int /\ j + 2 \in Int
    BY <1>3
  <2>2. behind(j) \in ends <=> Eol(s, behind(j))
    BY <1>2, <1>5, <2>1 DEF Eol
  <2>3. ASSUME NEW k \in ends, j = behind(k)
        PROVE  Eol(s, j - 1)
    BY <1>2, <1>3, <1>5, <2>1, <2>3 DEF Eol
  <2>4. ASSUME Eol(s, j - 1)
        PROVE  \E k \in ends : j = behind(k)
    <3>1. CASE j - 1 \in ends
      BY <1>2, <1>5, <2>1, <3>1
    <3>2. CASE j - 1 \notin ends
      <4>1. Byte(s, j - 1) = "n" /\ Byte(s, j - 2) = "r"
        BY <1>2, <2>1, <2>4, <3>2 DEF Eol
      <4>2. j - 2 \in ends
        BY <1>2, <2>1, <4>1
      <4>3. behind(j - 2) = j
        BY <1>5, <2>1, <4>1, <4>2
      <4> QED
        BY <4>2, <4>3
    <3> QED
      BY <3>1, <3>2
  <2> QED
    BY <2>2, <2>3, <2>4
<1> HIDE DEF touches
<1>8. \A j \in Int : j = 1 => Byte(s, j - 1) = "none"
  BY <1>1, ByteIs
<1>9. \A j \in 2..Len(s) : Byte(s, j - 1) \in Letters
  BY <1>1, ByteIs
<1>10. Byte(s, i) \in Letters /\ i \in Int /\ i >= 1 /\ i <= Len(s)
  BY <1>1, ByteIs
<1>11. CASE Byte(s, i) = "x"
  <2>1. ASSUME NEW j \in ends, i \in EolBytes(s, j)
        PROVE  FALSE
    BY <1>2, <1>3, <1>6, <1>11, <2>1
  <2> QED
    BY <1>4, <1>11, <2>1 DEF Plain
<1>12. CASE Byte(s, i) = "r"
  <2>1. i \in ends
    BY <1>2, <1>10, <1>12
  <2>2. \A j \in ends : i \in EolBytes(s, j) <=> i = j
    BY <1>3, <1>6, <1>12
  <2>3. i \in Blank(s) <=> i = 1 \/ Eol(s, behind(i)) \/ Eol(s, i - 1)
    BY <1>4, <1>7, <2>1, <2>2
  <2>4. i # 1 /\ ~Eol(s, i - 1) <=> Byte(s, i - 1) = "x"
    BY <1>8, <1>9, <1>10 DEF Eol, Letters
  <2>5. ~Eol(s, behind(i)) <=>
           ~Eol(s, i + 1) \/ (Byte(s, i + 1) = "n" /\ ~Eol(s, i + 2))
    BY <1>5, <1>12, <2>1 DEF Eol
  <2> QED
    BY <1>12, <2>3, <2>4, <2>5 DEF Plain, Lone
<1>13. CASE Byte(s, i) = "n" /\ Byte(s, i - 1) = "r"
  <2>1. i - 1 \in ends /\ i \notin ends /\ i - 1 \in Int /\ (i - 1) + 1 = i /\ (i - 1) - 1 = i - 2
        /\ (i - 1) + 2 = i + 1
    BY <1>2, <1>10, <1>13
  <2>2. \A j \in ends : i \in EolBytes(s, j) <=> j = i - 1
    BY <1>3, <1>6, <1>13, <2>1
  <2>3. i \in Blank(s) <=> i - 1 = 1 \/ Eol(s, behind(i - 1)) \/ Eol(s, (i - 1) - 1)
    BY <1>4, <1>7, <2>1, <2>2
  <2>4. i - 1 # 1 /\ ~Eol(s, i - 2) <=> Byte(s, i - 2) = "x"
    BY <1>3, <1>8, <1>9, <2>1 DEF Eol, Letters
  <2>5. behind(i - 1) = i + 1
    BY <1>5, <1>13, <2>1
  <2> QED
    BY <1>13, <2>1, <2>3, <2>4, <2>5 DEF Plain, Lone
<1>14. CASE Byte(s, i) = "n" /\ Byte(s, i - 1) # "r"
  <2>1. i \in ends
    BY <1>2, <1>10, <1>14
  <2>2. \A j \in ends : i \in EolBytes(s, j) <=> i = j
    BY <1>3, <1>6, <1>14
  <2>3. i \in Blank(s) <=> i = 1 \/ Eol(s, behind(i)) \/ Eol(s, i - 1)
    BY <1>4, <1>7, <2>1, <2>2
  <2>4. i # 1 /\ ~Eol(s, i - 1) <=> Byte(s, i - 1) = "x"
    BY <1>8, <1>9, <1>10 DEF Eol, Letters
  <2>5. behind(i) = i + 1
    BY <1>5, <1>14, <2>1
  <2> QED
    BY <1>14, <2>3, <2>4, <2>5 DEF Plain, Lone
<1> QED
  BY <1>10, <1>11, <1>12, <1>13, <1>14 DEF Letters

\* A frame that is too long, by the bytes that count.
LEMMA TooLongIs ==
    ASSUME NEW s \in Seq(Letters), NEW limit \in Nat
    PROVE  TooLong(s, limit) <=>
              \E i \in 1..(Len(s) - limit) : \A k \in i..(i + limit) : Plain(s, k)
<1>1. Len(s) \in Nat
  OBVIOUS
<1>2. ASSUME NEW i \in 1..(Len(s) - limit)
      PROVE  i..(i + limit) \cap Blank(s) = {} <=> \A k \in i..(i + limit) : Plain(s, k)
  <2>1. \A k \in i..(i + limit) : k \in 1..Len(s)
    BY <1>1
  <2>2. \A k \in i..(i + limit) : k \in Blank(s) <=> ~Plain(s, k)
    BY <2>1, BlankIs
  <2> QED
    BY <2>2
<1> QED
  BY <1>2 DEF TooLong

\* Frames are short iff none is too long.
LEMMA ShortIs ==
    ASSUME NEW s \in Seq(Letters)
    PROVE  Short(s, Len(s)) <=> ~TooLong(s, FrameCap)
BY TooLongIs, SseAssumption DEF Short

\* What eol_token_at finds.
LEMMA EolAtIs ==
    ASSUME NEW s \in Seq(Letters), NEW i \in Nat \ {0}, NEW atEof \in BOOLEAN
    PROVE  /\ EolAt(s, i, atEof) \in {0, 1, 2}
           /\ EolAt(s, i, atEof) = 2 <=> Byte(s, i) = "r" /\ Byte(s, i + 1) = "n"
           /\ EolAt(s, i, atEof) = 1 <=>
                 \/ Byte(s, i) = "n"
                 \/ Byte(s, i) = "r" /\ Byte(s, i + 1) # "n" /\ (i < Len(s) \/ atEof)
BY DEF EolAt

\* A blank line is two line ends.
LEMMA BlankLineIs ==
    ASSUME NEW s \in Seq(Letters), NEW i \in Nat \ {0}, NEW atEof \in BOOLEAN
    PROVE  LET one == EolAt(s, i, atEof)
           IN  /\ BlankLine(s, i, atEof) # 0 <=> one # 0 /\ EolAt(s, i + one, atEof) # 0
               /\ one # 0 /\ EolAt(s, i + one, atEof) # 0 =>
                     BlankLine(s, i, atEof) = one + EolAt(s, i + one, atEof)
<1> DEFINE one == EolAt(s, i, atEof)
           two == EolAt(s, i + one, atEof)
<1>1. one \in {0, 1, 2}
  BY EolAtIs
<1>2. i + one \in Nat \ {0}
  BY <1>1
<1>3. two \in {0, 1, 2}
  BY <1>2, EolAtIs
<1>4. BlankLine(s, i, atEof) = IF one = 0 \/ two = 0 THEN 0 ELSE one + two
  BY DEF BlankLine
<1> HIDE DEF one, two
<1> QED
  BY <1>1, <1>3, <1>4 DEF one, two

\* What is behind a blank line does not count.
LEMMA DoneIsBlank ==
    ASSUME NEW s \in Seq(Letters), NEW q \in Nat \ {0}, NEW atEof, Done(s, q, atEof)
    PROVE  ~Plain(s, q)
BY DEF Done, Plain, Lone, Eol

\* What follows does not change the bytes so far.
LEMMA ByteStays ==
    ASSUME NEW s \in Seq(Letters), NEW more \in Seq(Letters)
    PROVE  /\ s \o more \in Seq(Letters) /\ Len(s \o more) = Len(s) + Len(more)
           /\ \A i \in Int : i <= Len(s) => Byte(s \o more, i) = Byte(s, i)
<1> DEFINE t == s \o more
<1>1. /\ t \in Seq(Letters) /\ Len(t) = Len(s) + Len(more)
      /\ Len(s) \in Nat /\ Len(more) \in Nat
      /\ \A i \in 1..Len(s) : t[i] = s[i]
  OBVIOUS
<1> HIDE DEF t
<1>2. ASSUME NEW i \in Int, i <= Len(s)
      PROVE  Byte(t, i) = Byte(s, i)
  <2>1. CASE i >= 1
    <3>1. i \in 1..Len(t) /\ i \in 1..Len(s)
      BY <1>1, <1>2, <2>1
    <3>2. Byte(t, i) = t[i] /\ Byte(s, i) = s[i]
      BY <1>1, <3>1 DEF Byte
    <3> QED
      BY <1>1, <3>1, <3>2
  <2>2. CASE i < 1
    BY <1>1, <2>2, ByteIs
  <2> QED
    BY <2>1, <2>2
<1> QED
  BY <1>1, <1>2 DEF t

\* What follows does not undo a blank line.
LEMMA DoneStays ==
    ASSUME NEW s \in Seq(Letters), NEW more \in Seq(Letters), NEW q \in Nat, NEW atEof \in BOOLEAN,
           Done(s, q, FALSE)
    PROVE  Done(s \o more, q, atEof)
<1>1. /\ s \o more \in Seq(Letters) /\ Len(s \o more) = Len(s) + Len(more)
      /\ Len(s) \in Nat /\ Len(more) \in Nat
  BY ByteStays
<1>2. \A i \in Int : i <= Len(s) => Byte(s \o more, i) = Byte(s, i)
  BY ByteStays
<1> QED
  BY <1>1, <1>2 DEF Done, Eol

\* Nor does it change what counts.
LEMMA PlainStays ==
    ASSUME NEW s \in Seq(Letters), NEW more \in Seq(Letters), NEW q \in Nat, q <= Len(s),
           Byte(s, q) = "x" \/ Done(s, q, FALSE)
    PROVE  \A k \in 1..q : Plain(s \o more, k) <=> Plain(s, k)
<1> TAKE k \in 1..q
<1>1. /\ s \o more \in Seq(Letters) /\ Len(s \o more) = Len(s) + Len(more)
      /\ Len(s) \in Nat /\ Len(more) \in Nat
  BY ByteStays
<1>2. \A i \in Int : i <= Len(s) => Byte(s \o more, i) = Byte(s, i)
  BY ByteStays
<1>3. \A i \in Int : i > Len(s) => Byte(s, i) = "none"
  BY ByteIs
<1>4. k \in Int /\ k >= 1 /\ k <= q
  OBVIOUS
<1>5. CASE k = q
  <2>1. CASE Byte(s, q) = "x"
    BY <1>2, <1>4, <1>5, <2>1 DEF Plain
  <2>2. CASE Done(s, q, FALSE)
    <3>1. Done(s \o more, q, FALSE)
      BY <2>2, DoneStays
    <3>2. q \in Nat \ {0}
      BY <1>4, <1>5
    <3>3. ~Plain(s, q)
      BY <2>2, <3>2, DoneIsBlank
    <3>4. ~Plain(s \o more, q)
      BY <1>1, <3>1, <3>2, DoneIsBlank
    <3> QED
      BY <1>5, <3>3, <3>4
  <2> QED
    BY <2>1, <2>2
<1>6. CASE k + 1 = q
  BY <1>1, <1>2, <1>3, <1>4, <1>6 DEF Plain, Lone, Done, Eol
<1>7. CASE k + 2 <= q
  BY <1>2, <1>4, <1>7 DEF Plain, Lone, Eol
<1> QED
  BY <1>4, <1>5, <1>6, <1>7

\* What follows does not change which frames were short.
LEMMA ShortStays ==
    ASSUME NEW s \in Seq(Letters), NEW more \in Seq(Letters), NEW q \in Nat, q <= Len(s),
           Byte(s, q) = "x" \/ Done(s, q, FALSE)
    PROVE  Short(s \o more, q) <=> Short(s, q)
<1>1. \A k \in 1..q : Plain(s \o more, k) <=> Plain(s, k)
  BY PlainStays
<1>2. FrameCap \in Nat
  BY SseAssumption
<1>3. \A i \in 1..(q - FrameCap) : \A k \in i..(i + FrameCap) : k \in 1..q
  BY <1>2
<1> QED
  BY <1>1, <1>3 DEF Short

\* A frame that is short, and what does not count behind it.
LEMMA ShortOn ==
    ASSUME NEW s \in Seq(Letters), NEW atEof \in BOOLEAN, NEW f \in Nat, NEW e \in Nat, NEW m \in Nat,
           f <= e, e <= m, e - f <= FrameCap, Done(s, f, atEof), Short(s, f),
           \A k \in (e + 1)..m : ~Plain(s, k)
    PROVE  Short(s, m)
<1> SUFFICES ASSUME NEW i \in 1..(m - FrameCap)
             PROVE  \E k \in i..(i + FrameCap) : ~Plain(s, k)
  BY DEF Short
<1>1. FrameCap \in Nat /\ i \in Nat /\ i >= 1 /\ i + FrameCap <= m
  BY SseAssumption
<1>2. CASE i + FrameCap <= f
  BY <1>1, <1>2 DEF Short
<1>3. CASE i <= f /\ f < i + FrameCap
  <2>1. ~Plain(s, f)
    BY <1>1, <1>3, DoneIsBlank
  <2> QED
    BY <1>1, <1>3, <2>1
<1>4. CASE i > f
  <2>1. i + FrameCap \in (e + 1)..m /\ i + FrameCap \in i..(i + FrameCap)
    BY <1>1, <1>4
  <2>2. ~Plain(s, i + FrameCap)
    BY <2>1
  <2> QED
    BY <2>1, <2>2
<1> QED
  BY <1>1, <1>2, <1>3, <1>4

-----------------------------------------------------------------------------
(* Line ends, by their places in the answer.                               *)

\* The buffer that begins behind place q reads as the answer does there.
LEMMA BufferBytes ==
    ASSUME NEW s \in Seq(Letters), NEW q \in 0..Len(s), NEW b, b = SubSeq(s, q + 1, Len(s))
    PROVE  /\ b \in Seq(Letters) /\ Len(b) = Len(s) - q
           /\ \A i \in Nat \ {0} : Byte(b, i) = Byte(s, q + i)
<1>1. /\ Len(s) \in Nat /\ q \in Nat /\ q <= Len(s)
      /\ b \in Seq(Letters) /\ Len(b) = Len(s) - q
      /\ \A i \in 1..Len(b) : b[i] = s[q + i]
  OBVIOUS
<1>2. ASSUME NEW i \in Nat \ {0}
      PROVE  Byte(b, i) = Byte(s, q + i)
  <2>1. CASE i <= Len(b)
    <3>1. i \in 1..Len(b) /\ q + i \in 1..Len(s)
      BY <1>1, <2>1
    <3>2. Byte(b, i) = b[i] /\ Byte(s, q + i) = s[q + i]
      BY <1>1, <3>1 DEF Byte
    <3> QED
      BY <1>1, <3>1, <3>2
  <2>2. CASE i > Len(b)
    <3>1. i \notin 1..Len(b) /\ q + i \notin 1..Len(s)
      BY <1>1, <2>2
    <3> QED
      BY <1>1, <3>1 DEF Byte
  <2> QED
    BY <1>1, <2>1, <2>2
<1> QED
  BY <1>1, <1>2

\* Nor are its line ends others.
LEMMA BufferReads ==
    ASSUME NEW s \in Seq(Letters), NEW q \in 0..Len(s), NEW b, b = SubSeq(s, q + 1, Len(s)),
           NEW atEof \in BOOLEAN
    PROVE  /\ \A i \in Nat \ {0} : EolAt(b, i, atEof) = EolAt(s, q + i, atEof)
           /\ \A i \in Nat \ {0} : BlankLine(b, i, atEof) = BlankLine(s, q + i, atEof)
<1>1. /\ Len(s) \in Nat /\ q \in Nat /\ q <= Len(s)
      /\ b \in Seq(Letters) /\ Len(b) = Len(s) - q
  OBVIOUS
<1>2. \A i \in Nat \ {0} : Byte(b, i) = Byte(s, q + i)
  BY BufferBytes
<1>3. ASSUME NEW i \in Nat \ {0}
      PROVE  EolAt(b, i, atEof) = EolAt(s, q + i, atEof)
  <2>1. Byte(b, i) = Byte(s, q + i) /\ Byte(b, i + 1) = Byte(s, q + (i + 1))
    BY <1>2
  <2>2. q + (i + 1) = (q + i) + 1 /\ (i < Len(b) <=> q + i < Len(s))
    BY <1>1
  <2> QED
    BY <2>1, <2>2 DEF EolAt
<1>4. ASSUME NEW i \in Nat \ {0}
      PROVE  BlankLine(b, i, atEof) = BlankLine(s, q + i, atEof)
  <2> DEFINE one == EolAt(s, q + i, atEof)
  <2>1. q + i \in Nat \ {0}
    BY <1>1
  <2>2. one \in {0, 1, 2}
    BY <2>1, EolAtIs
  <2>3. EolAt(b, i, atEof) = one
    BY <1>3
  <2>4. EolAt(b, i + one, atEof) = EolAt(s, q + (i + one), atEof)
    BY <1>3, <2>2
  <2>5. q + (i + one) = (q + i) + one
    BY <1>1, <2>2
  <2> QED
    BY <2>3, <2>4, <2>5 DEF BlankLine
<1> QED
  BY <1>3, <1>4

\* A run of line ends behind a blank line.
LEMMA RunIs ==
    ASSUME NEW s \in Seq(Letters), NEW a \in 0..Len(s), NEW atEof \in BOOLEAN, Done(s, a, atEof),
           NEW z \in (a + 1)..(Len(s) + 1), EolAt(s, z, atEof) = 0,
           \A k \in (a + 1)..(z - 1) : EolAt(s, k, atEof) # 0
    PROVE  /\ Done(s, z - 1, atEof)
           /\ \A k \in (a + 1)..(z - 1) : ~Plain(s, k)
           /\ \/ Byte(s, z) = "x" \/ z = Len(s) + 1
              \/ ~atEof /\ z = Len(s) /\ Byte(s, z) = "r"
<1>1. Len(s) \in Nat /\ a \in Nat /\ a <= Len(s) /\ z \in Nat /\ a < z /\ z <= Len(s) + 1
  OBVIOUS
<1>2. \A k \in Int : a < k /\ k < z =>
         /\ Eol(s, k)
         /\ Byte(s, k) = "r" => Byte(s, k + 1) = "n" \/ k < Len(s) \/ atEof
  <2> SUFFICES ASSUME NEW k \in Int, a < k, k < z
               PROVE  /\ Eol(s, k)
                      /\ Byte(s, k) = "r" => Byte(s, k + 1) = "n" \/ k < Len(s) \/ atEof
    OBVIOUS
  <2>1. k \in Nat \ {0} /\ EolAt(s, k, atEof) # 0
    BY <1>1
  <2> QED
    BY <2>1 DEF EolAt, Eol
<1>3. ~(Byte(s, z) = "n") /\ (Byte(s, z) = "r" => ~(z < Len(s)) /\ ~atEof)
  BY <1>1, EolAtIs
<1>4. a = 0 \/ (Eol(s, a) /\ (Byte(s, a) = "r" => Byte(s, a + 1) # "n"))
  BY DEF Done
<1>5. a = 0 => Byte(s, a) = "none"
  BY ByteIs
<1>6. Byte(s, a) # "x"
  BY <1>4, <1>5 DEF Eol
<1>7. \A k \in Int : a <= k /\ k < z => Byte(s, k) # "x"
  BY <1>2, <1>6 DEF Eol
<1>8. Done(s, z - 1, atEof)
  <2>1. CASE z - 1 = a
    BY <2>1
  <2>2. CASE z - 1 # a
    <3>1. z - 1 \in Int /\ a < z - 1 /\ z - 1 < z /\ z - 2 \in Int /\ z - 3 \in Int
          /\ (z - 1) + 1 = z /\ (z - 1) - 1 = z - 2 /\ (z - 1) - 2 = z - 3 /\ a <= z - 2
          /\ z - 1 \in 1..Len(s) /\ z - 2 < z /\ z - 3 < z
      BY <1>1, <2>2
    <3>2. Eol(s, z - 1) /\ (Byte(s, z - 1) = "r" => Byte(s, z) # "n" /\ (atEof \/ z - 1 < Len(s)))
      BY <1>2, <1>3, <3>1
    <3>3. Byte(s, z - 2) # "x"
      BY <1>7, <3>1
    <3>4. Byte(s, z - 1) = "n" /\ Byte(s, z - 2) = "r" => Byte(s, z - 3) # "x"
      <4>1. CASE z - 2 = a
        <5>1. a + 1 = z - 1
          BY <3>1, <4>1
        <5> QED
          BY <1>4, <1>5, <4>1, <5>1
      <4>2. CASE z - 2 # a
        BY <1>7, <3>1, <4>2
      <4> QED
        BY <4>1, <4>2
    <3> QED
      BY <3>1, <3>2, <3>3, <3>4 DEF Done
  <2> QED
    BY <2>1, <2>2
<1>9. ASSUME NEW k \in (a + 1)..(z - 1)
      PROVE  ~Plain(s, k)
  <2>1. k \in Int /\ a < k /\ k < z /\ a <= k - 1 /\ k - 1 < z /\ k - 1 \in Int /\ k - 2 \in Int
        /\ k - 2 < z
    BY <1>1
  <2>2. Byte(s, k) # "x" /\ Byte(s, k - 1) # "x"
    BY <1>7, <2>1
  <2>3. Byte(s, k) = "n" /\ Byte(s, k - 1) = "r" => Byte(s, k - 2) # "x"
    <3>1. CASE k - 1 = a
      <4>1. a + 1 = k
        BY <2>1, <3>1
      <4> QED
        BY <1>4, <1>5, <3>1, <4>1
    <3>2. CASE k - 1 # a
      BY <1>7, <2>1, <3>2
    <3> QED
      BY <3>1, <3>2
  <2> QED
    BY <2>2, <2>3 DEF Plain, Lone
<1>10. \/ Byte(s, z) = "x" \/ z = Len(s) + 1
       \/ ~atEof /\ z = Len(s) /\ Byte(s, z) = "r"
  <2>1. CASE z <= Len(s)
    <3>1. Byte(s, z) \in Letters
      BY <1>1, <2>1, ByteIs
    <3> QED
      BY <1>1, <1>3, <2>1, <3>1 DEF Letters
  <2> QED
    BY <1>1, <2>1
<1> QED
  BY <1>8, <1>9, <1>10

\* A blank line.
LEMMA BlankLineEnds ==
    ASSUME NEW s \in Seq(Letters), NEW i \in 1..Len(s), NEW atEof \in BOOLEAN,
           NEW l, l = BlankLine(s, i, atEof), l # 0
    PROVE  /\ l \in 2..4 /\ i + l - 1 <= Len(s)
           /\ Eol(s, i)
           /\ Done(s, i + l - 1, atEof)
           /\ \A k \in i..(i + l - 1) : ~Plain(s, k)
<1> DEFINE one == EolAt(s, i, atEof)
           j == i + one
           two == EolAt(s, j, atEof)
<1>1. i \in Nat \ {0} /\ i <= Len(s) /\ Len(s) \in Nat
  OBVIOUS
<1>2. one # 0 /\ two # 0 /\ l = one + two
  BY <1>1, BlankLineIs
<1>3. one \in {1, 2} /\ (one = 2 <=> Byte(s, i) = "r" /\ Byte(s, i + 1) = "n")
      /\ (one = 1 => Byte(s, i) = "n" \/ (Byte(s, i) = "r" /\ Byte(s, i + 1) # "n"))
  BY <1>1, <1>2, EolAtIs
<1> HIDE DEF one
<1>4. j \in Nat \ {0}
  BY <1>1, <1>3
<1>5. two \in {1, 2} /\ (two = 2 <=> Byte(s, j) = "r" /\ Byte(s, j + 1) = "n")
      /\ (two = 1 => \/ Byte(s, j) = "n"
                     \/ Byte(s, j) = "r" /\ Byte(s, j + 1) # "n" /\ (j < Len(s) \/ atEof))
  <2> HIDE DEF j
  <2> QED
    BY <1>2, <1>4, EolAtIs
<1> HIDE DEF two
<1>6. \A k \in Int : Byte(s, k) # "none" => k \in 1..Len(s)
  BY ByteIs
<1>7. CASE one = 1
  <2>1. j = i + 1
    BY <1>7
  <2>2. CASE two = 1
    <3>1. l = 2 /\ i + l - 1 = i + 1 /\ i + 1 \in Int /\ \A k \in i..(i + l - 1) : k = i \/ k = i + 1
      BY <1>1, <1>2, <1>7, <2>2
    <3>2. (i + 1) - 1 = i /\ (i + 1) + 1 = i + 2 /\ (i + 1) - 2 = i - 1
      BY <1>1
    <3>3. Eol(s, i) /\ Eol(s, i + 1) /\ (Byte(s, i) = "r" => Byte(s, i + 1) # "n")
          /\ (Byte(s, i + 1) = "r" => Byte(s, i + 2) # "n" /\ (i + 1 < Len(s) \/ atEof))
      BY <1>3, <1>5, <1>7, <2>1, <2>2, <3>2 DEF Eol
    <3>4. i + 1 \in 1..Len(s)
      BY <1>6, <3>1, <3>3 DEF Eol
    <3>5. Done(s, i + 1, atEof)
      BY <3>2, <3>3, <3>4 DEF Done, Eol
    <3>6. ~Plain(s, i) /\ ~Plain(s, i + 1)
      BY <3>2, <3>3 DEF Plain, Lone, Eol
    <3> QED
      BY <3>1, <3>3, <3>4, <3>5, <3>6
  <2>3. CASE two = 2
    <3>1. l = 3 /\ i + l - 1 = i + 2 /\ i + 2 \in Int /\ i + 1 \in Int
          /\ \A k \in i..(i + l - 1) : k = i \/ k = i + 1 \/ k = i + 2
      BY <1>1, <1>2, <1>7, <2>3
    <3>2. (i + 1) - 1 = i /\ (i + 1) + 1 = i + 2 /\ (i + 2) - 1 = i + 1 /\ (i + 2) - 2 = i
      BY <1>1
    <3>3. Eol(s, i) /\ Byte(s, i + 1) = "r" /\ Byte(s, i + 2) = "n"
      BY <1>3, <1>5, <1>7, <2>1, <2>3, <3>2 DEF Eol
    <3>4. i + 2 \in 1..Len(s)
      BY <1>6, <3>1, <3>3
    <3>5. Done(s, i + 2, atEof)
      BY <3>2, <3>3, <3>4 DEF Done, Eol
    <3>6. ~Plain(s, i) /\ ~Plain(s, i + 1) /\ ~Plain(s, i + 2)
      BY <3>2, <3>3 DEF Plain, Lone, Eol
    <3> QED
      BY <3>1, <3>3, <3>4, <3>5, <3>6
  <2> QED
    BY <1>5, <2>2, <2>3
<1>8. CASE one = 2
  <2>1. j = i + 2 /\ Byte(s, i) = "r" /\ Byte(s, i + 1) = "n"
    BY <1>3, <1>8
  <2>2. CASE two = 1
    <3>1. l = 3 /\ i + l - 1 = i + 2 /\ i + 2 \in Int /\ i + 1 \in Int
          /\ \A k \in i..(i + l - 1) : k = i \/ k = i + 1 \/ k = i + 2
      BY <1>1, <1>2, <1>8, <2>2
    <3>2. (i + 1) - 1 = i /\ (i + 1) + 1 = i + 2 /\ (i + 2) - 1 = i + 1 /\ (i + 2) - 2 = i
          /\ (i + 2) + 1 = i + 3
      BY <1>1
    <3>3. Eol(s, i + 2)
          /\ (Byte(s, i + 2) = "r" => Byte(s, i + 3) # "n" /\ (i + 2 < Len(s) \/ atEof))
      BY <1>5, <2>1, <2>2, <3>2 DEF Eol
    <3>4. i + 2 \in 1..Len(s)
      BY <1>6, <3>1, <3>3 DEF Eol
    <3>5. Done(s, i + 2, atEof)
      BY <2>1, <3>2, <3>3, <3>4 DEF Done, Eol
    <3>6. ~Plain(s, i) /\ ~Plain(s, i + 1) /\ ~Plain(s, i + 2)
      BY <2>1, <3>2, <3>3 DEF Plain, Lone, Eol
    <3>7. Eol(s, i)
      BY <2>1 DEF Eol
    <3> QED
      BY <3>1, <3>4, <3>5, <3>6, <3>7
  <2>3. CASE two = 2
    <3>1. l = 4 /\ i + l - 1 = i + 3 /\ i + 2 \in Int /\ i + 1 \in Int /\ i + 3 \in Int
          /\ \A k \in i..(i + l - 1) : k = i \/ k = i + 1 \/ k = i + 2 \/ k = i + 3
      BY <1>1, <1>2, <1>8, <2>3
    <3>2. (i + 1) - 1 = i /\ (i + 1) + 1 = i + 2 /\ (i + 2) - 1 = i + 1 /\ (i + 2) - 2 = i
          /\ (i + 2) + 1 = i + 3 /\ (i + 3) - 1 = i + 2 /\ (i + 3) - 2 = i + 1
      BY <1>1
    <3>3. Byte(s, i + 2) = "r" /\ Byte(s, i + 3) = "n"
      BY <1>5, <2>1, <2>3, <3>2
    <3>4. i + 3 \in 1..Len(s)
      BY <1>6, <3>1, <3>3
    <3>5. Done(s, i + 3, atEof)
      BY <2>1, <3>2, <3>3, <3>4 DEF Done, Eol
    <3>6. ~Plain(s, i) /\ ~Plain(s, i + 1) /\ ~Plain(s, i + 2) /\ ~Plain(s, i + 3)
      BY <2>1, <3>2, <3>3 DEF Plain, Lone, Eol
    <3>7. Eol(s, i)
      BY <2>1 DEF Eol
    <3> QED
      BY <3>1, <3>4, <3>5, <3>6, <3>7
  <2> QED
    BY <1>5, <2>2, <2>3
<1> QED
  BY <1>3, <1>7, <1>8

\* A frame in which no line is blank counts as a whole.
LEMMA FrameCounts ==
    ASSUME NEW s \in Seq(Letters), NEW atEof \in BOOLEAN, NEW a \in Nat, NEW f \in Nat,
           InFrame(s, f, a, atEof), NEW e \in a..Len(s),
           Byte(s, e) = "x" \/ (atEof /\ e = Len(s)),
           \A k \in (a + 1)..e : BlankLine(s, k, atEof) = 0
    PROVE  \A k \in (a + 1)..e : Plain(s, k)
<1>1. Len(s) \in Nat /\ e \in Nat /\ a <= e /\ e <= Len(s)
  OBVIOUS
<1>2. IF a > f THEN Byte(s, a) = "x" ELSE Byte(s, a + 1) = "x"
  BY DEF InFrame
<1>3. \A k \in Int : a < k /\ k <= e => Byte(s, k) \in Letters
  BY <1>1, ByteIs
<1>4. \A k \in Int : Byte(s, k) # "none" => 1 <= k /\ k <= Len(s)
  BY <1>1, ByteIs
<1>5. \A k \in Int : Byte(s, k) = "none" \/ Byte(s, k) \in Letters
  BY ByteIs
\* A line end of the frame is complete, and what follows it is in the frame.
<1>6. \A k \in Int : a < k /\ k <= e /\ Eol(s, k) =>
          /\ EolAt(s, k, atEof) # 0
          /\ Eol(s, k + 1) => k + 1 <= e
  <2> SUFFICES ASSUME NEW k \in Int, a < k, k <= e, Eol(s, k)
               PROVE  EolAt(s, k, atEof) # 0 /\ (Eol(s, k + 1) => k + 1 <= e)
    OBVIOUS
  <2>1. k < e \/ (atEof /\ e = Len(s))
    BY <1>1 DEF Eol
  <2>2. k < Len(s) \/ atEof
    BY <1>1, <2>1
  <2>3. EolAt(s, k, atEof) # 0
    BY <2>2 DEF EolAt, Eol
  <2>4. Eol(s, k + 1) => k + 1 <= Len(s)
    BY <1>4 DEF Eol
  <2> QED
    BY <1>1, <2>1, <2>3, <2>4
<1>7. \A k \in Int : a < k /\ k <= e /\ EolAt(s, k, atEof) # 0 =>
          EolAt(s, k + EolAt(s, k, atEof), atEof) = 0
  <2> SUFFICES ASSUME NEW k \in Int, a < k, k <= e, EolAt(s, k, atEof) # 0
               PROVE  EolAt(s, k + EolAt(s, k, atEof), atEof) = 0
    OBVIOUS
  <2>1. k \in Nat \ {0} /\ k \in (a + 1)..e
    BY <1>1
  <2> QED
    BY <2>1, BlankLineIs
<1>8. \A k \in Int : a < k /\ k <= e =>
          (EolAt(s, k, atEof) = 2 <=> Byte(s, k) = "r" /\ Byte(s, k + 1) = "n")
          /\ EolAt(s, k, atEof) \in {0, 1, 2}
  BY EolAtIs
\* A line end begins behind a letter.
<1>9. \A k \in Int : a < k /\ k <= e /\ (Byte(s, k) = "r" \/ (Byte(s, k) = "n" /\ Byte(s, k - 1) # "r")) =>
          Byte(s, k - 1) = "x"
  <2> SUFFICES ASSUME NEW k \in Int, a < k, k <= e,
                      Byte(s, k) = "r" \/ (Byte(s, k) = "n" /\ Byte(s, k - 1) # "r"),
                      Byte(s, k - 1) # "x"
               PROVE  FALSE
    OBVIOUS
  <2>1. k - 1 \in Int /\ k - 1 <= e /\ (k - 1) + 1 = k /\ a <= k - 1
    BY <1>1
  <2>2. a < k - 1
    BY <1>2, <2>1
  <2>3. Eol(s, k - 1) /\ Eol(s, k)
    BY <1>3, <2>1, <2>2 DEF Eol, Letters
  <2>4. EolAt(s, k - 1, atEof) # 0 /\ EolAt(s, k, atEof) # 0
    BY <1>6, <2>1, <2>2, <2>3
  <2>5. EolAt(s, k - 1, atEof) = 1
    BY <1>8, <2>1, <2>2, <2>4
  <2> QED
    BY <1>7, <2>1, <2>2, <2>4, <2>5
<1> SUFFICES ASSUME NEW k \in (a + 1)..e
             PROVE  Plain(s, k)
  OBVIOUS
<1>10. /\ k \in Int /\ a < k /\ k <= e /\ k - 1 \in Int /\ k + 1 \in Int /\ k + 2 \in Int /\ a < k + 1
       /\ a < k + 2 /\ (k + 1) - 1 = k /\ (k - 1) + 1 = k /\ (k - 1) + 2 = k + 1 /\ (k + 1) + 1 = k + 2
       /\ (k - 1) - 1 = k - 2 /\ k - 1 <= e
  BY <1>1
<1>11. CASE Byte(s, k) = "x"
  BY <1>11 DEF Plain
<1>12. CASE Byte(s, k) = "r"
  <2>1. Byte(s, k - 1) = "x" /\ EolAt(s, k, atEof) # 0 /\ Eol(s, k)
    BY <1>6, <1>9, <1>10, <1>12 DEF Eol
  <2>2. CASE Byte(s, k + 1) = "n"
    <3>1. k + 1 <= e /\ EolAt(s, k, atEof) = 2
      BY <1>6, <1>8, <1>10, <1>12, <2>1, <2>2 DEF Eol
    <3>2. ASSUME Eol(s, k + 2)
          PROVE  FALSE
      <4>1. k + 2 <= e
        BY <1>6, <1>10, <2>2, <3>1, <3>2 DEF Eol
      <4>2. EolAt(s, k + 2, atEof) # 0
        BY <1>6, <1>10, <3>2, <4>1
      <4> QED
        BY <1>7, <1>10, <3>1, <4>2
    <3> QED
      BY <1>12, <2>1, <2>2, <3>2 DEF Plain, Lone
  <2>3. CASE Byte(s, k + 1) # "n"
    <3>1. ASSUME Eol(s, k + 1)
          PROVE  FALSE
      <4>1. k + 1 <= e /\ Byte(s, k + 1) = "r"
        BY <1>6, <1>10, <2>1, <2>3, <3>1 DEF Eol
      <4> QED
        BY <1>9, <1>10, <1>12, <4>1
    <3> QED
      BY <1>12, <2>1, <3>1 DEF Plain, Lone
  <2> QED
    BY <2>2, <2>3
<1>13. CASE Byte(s, k) = "n" /\ Byte(s, k - 1) # "r"
  <2>1. Byte(s, k - 1) = "x" /\ Eol(s, k)
    BY <1>9, <1>10, <1>13 DEF Eol
  <2>2. ASSUME Eol(s, k + 1)
        PROVE  FALSE
    <3>1. k + 1 <= e
      BY <1>6, <1>10, <2>1, <2>2
    <3>2. Byte(s, (k + 1) - 1) # "r" /\ Byte(s, (k + 1) - 1) # "x"
      BY <1>10, <1>13
    <3> QED
      BY <1>9, <1>10, <2>2, <3>1, <3>2 DEF Eol
  <2> QED
    BY <1>13, <2>1, <2>2 DEF Plain, Lone
<1>14. CASE Byte(s, k) = "n" /\ Byte(s, k - 1) = "r"
  <2>1. a < k - 1
    <3>1. CASE k - 1 = a
      BY <1>2, <1>10, <1>14, <3>1
    <3> QED
      BY <1>10, <3>1
  <2>2. Byte(s, k - 2) = "x" /\ Eol(s, k - 1) /\ Eol(s, k)
    BY <1>9, <1>10, <1>14, <2>1 DEF Eol
  <2>3. EolAt(s, k - 1, atEof) = 2
    BY <1>8, <1>10, <1>14, <2>1
  <2>4. ASSUME Eol(s, k + 1)
        PROVE  FALSE
    <3>1. k + 1 <= e
      BY <1>6, <1>10, <2>2, <2>4
    <3>2. EolAt(s, k + 1, atEof) # 0
      BY <1>6, <1>10, <2>4, <3>1
    <3> QED
      BY <1>7, <1>10, <2>1, <2>3, <3>2
  <2> QED
    BY <1>14, <2>2, <2>4 DEF Plain, Lone
<1> QED
  BY <1>3, <1>10, <1>11, <1>12, <1>13, <1>14 DEF Letters

\* What is held back, by the last bytes.
LEMMA PrefixIs ==
    ASSUME NEW t \in Seq(Letters)
    PROVE  LET n == Len(t)
           IN  PrefixSuffixLen(t) =
                  IF n >= 3 /\ t[n - 2] = "r" /\ t[n - 1] = "n" /\ t[n] = "r" THEN 3
                  ELSE IF n >= 2 /\ (\/ t[n - 1] = "r" /\ t[n] = "n"
                                     \/ t[n - 1] = "n" /\ t[n] = "r"
                                     \/ t[n - 1] = "r" /\ t[n] = "r") THEN 2
                  ELSE IF n >= 1 /\ t[n] \in {"r", "n"} THEN 1 ELSE 0
<1> DEFINE n == Len(t)
           last(k) == SubSeq(t, n - k + 1, n)
<1>1. n \in Nat
  OBVIOUS
<1>2. ASSUME n >= 3
      PROVE  last(3) = <<t[n - 2], t[n - 1], t[n]>>
  <2> DEFINE u == SubSeq(t, n - 2, n)
  <2>1. n - 3 + 1 = n - 2
    BY <1>1
  <2>2. u \in Seq(Letters) /\ Len(u) = 3 /\ \A i \in 1..3 : u[i] = t[(n - 2) + i - 1]
    BY <1>1, <1>2
  <2>3. u[1] = t[n - 2] /\ u[2] = t[n - 1] /\ u[3] = t[n]
    BY <1>1, <2>2
  <2> HIDE DEF u
  <2>4. u = <<u[1], u[2], u[3]>>
    BY <2>2
  <2> QED
    BY <2>1, <2>3, <2>4 DEF u
<1>3. ASSUME n >= 2
      PROVE  last(2) = <<t[n - 1], t[n]>>
  <2> DEFINE u == SubSeq(t, n - 1, n)
  <2>1. n - 2 + 1 = n - 1
    BY <1>1
  <2>2. u \in Seq(Letters) /\ Len(u) = 2 /\ \A i \in 1..2 : u[i] = t[(n - 1) + i - 1]
    BY <1>1, <1>3
  <2>3. u[1] = t[n - 1] /\ u[2] = t[n]
    BY <1>1, <2>2
  <2> HIDE DEF u
  <2>4. u = <<u[1], u[2]>>
    BY <2>2
  <2> QED
    BY <2>1, <2>3, <2>4 DEF u
<1>4. ASSUME n >= 1
      PROVE  last(1) = <<t[n]>>
  <2> DEFINE u == SubSeq(t, n, n)
  <2>1. n - 1 + 1 = n
    BY <1>1
  <2>2. u \in Seq(Letters) /\ Len(u) = 1 /\ u[1] = t[n]
    BY <1>1, <1>4
  <2> HIDE DEF u
  <2>3. u = <<u[1]>>
    BY <2>2
  <2> QED
    BY <2>1, <2>2, <2>3 DEF u
<1>5. \A x, y, z : <<x, y, z>> = <<"r", "n", "r">> <=> x = "r" /\ y = "n" /\ z = "r"
  OBVIOUS
<1>6. \A x, y : <<x, y>> \in {<<"r", "n">>, <<"n", "r">>, <<"r", "r">>} <=>
         (x = "r" /\ y = "n") \/ (x = "n" /\ y = "r") \/ (x = "r" /\ y = "r")
  OBVIOUS
<1>7. \A x : <<x>> \in {<<"r">>, <<"n">>} <=> x \in {"r", "n"}
  OBVIOUS
<1>8. PrefixSuffixLen(t) =
         IF n >= 3 /\ last(3) = <<"r", "n", "r">> THEN 3
         ELSE IF n >= 2 /\ last(2) \in {<<"r", "n">>, <<"n", "r">>, <<"r", "r">>} THEN 2
         ELSE IF n >= 1 /\ last(1) \in {<<"r">>, <<"n">>} THEN 1 ELSE 0
  BY DEF PrefixSuffixLen
<1> HIDE DEF last
<1> QED
  BY <1>1, <1>2, <1>3, <1>4, <1>5, <1>6, <1>7, <1>8

\* What is not held back counts, and what is may yet be blank.
LEMMA HoldsBack ==
    ASSUME NEW s \in Seq(Letters), NEW a \in Nat, NEW f \in Nat, InFrame(s, f, a, FALSE),
           NEW t, t = SubSeq(s, a + 1, Len(s)),
           \A k \in (a + 1)..Len(s) : BlankLine(s, k, FALSE) = 0
    PROVE  LET p == PrefixSuffixLen(t)
           IN  /\ p \in 0..3 /\ p <= Len(s) - a /\ Len(s) - p > f
               /\ Byte(s, Len(s) - p) = "x" /\ Held(s, Len(s) - p)
<1> DEFINE p == PrefixSuffixLen(t)
           N == Len(s)
<1>1. N \in Nat /\ a \in 0..N /\ f <= a /\ a \in Int /\ f \in Int
  BY DEF InFrame
<1>2. IF a > f THEN Byte(s, a) = "x" ELSE a = f /\ Byte(s, a + 1) = "x"
  BY <1>1 DEF InFrame
<1>3. t \in Seq(Letters) /\ Len(t) = N - a
  BY <1>1, BufferBytes
<1>4. \A i \in Nat \ {0} : Byte(t, i) = Byte(s, a + i)
  BY <1>1, BufferBytes
<1>5. \A i \in 1..(N - a) : t[i] = Byte(s, a + i)
  BY <1>3, <1>4 DEF Byte
<1> HIDE DEF N
<1>6. ASSUME N - a >= 1 PROVE t[N - a] = Byte(s, N)
  <2>1. N - a \in 1..(N - a) /\ a + (N - a) = N
    BY <1>1, <1>6
  <2> QED
    BY <1>5, <2>1
<1>7. ASSUME N - a >= 2 PROVE t[(N - a) - 1] = Byte(s, N - 1)
  <2>1. (N - a) - 1 \in 1..(N - a) /\ a + ((N - a) - 1) = N - 1
    BY <1>1, <1>7
  <2> QED
    BY <1>5, <2>1
<1>8. ASSUME N - a >= 3 PROVE t[(N - a) - 2] = Byte(s, N - 2)
  <2>1. (N - a) - 2 \in 1..(N - a) /\ a + ((N - a) - 2) = N - 2
    BY <1>1, <1>8
  <2> QED
    BY <1>5, <2>1
<1>9. p = IF N - a >= 3 /\ Byte(s, N - 2) = "r" /\ Byte(s, N - 1) = "n" /\ Byte(s, N) = "r" THEN 3
          ELSE IF N - a >= 2 /\ (\/ Byte(s, N - 1) = "r" /\ Byte(s, N) = "n"
                                 \/ Byte(s, N - 1) = "n" /\ Byte(s, N) = "r"
                                 \/ Byte(s, N - 1) = "r" /\ Byte(s, N) = "r") THEN 2
          ELSE IF N - a >= 1 /\ Byte(s, N) \in {"r", "n"} THEN 1 ELSE 0
  <2>1. p = IF Len(t) >= 3 /\ t[Len(t) - 2] = "r" /\ t[Len(t) - 1] = "n" /\ t[Len(t)] = "r" THEN 3
            ELSE IF Len(t) >= 2 /\ (\/ t[Len(t) - 1] = "r" /\ t[Len(t)] = "n"
                                    \/ t[Len(t) - 1] = "n" /\ t[Len(t)] = "r"
                                    \/ t[Len(t) - 1] = "r" /\ t[Len(t)] = "r") THEN 2
            ELSE IF Len(t) >= 1 /\ t[Len(t)] \in {"r", "n"} THEN 1 ELSE 0
    BY <1>3, PrefixIs
  <2> HIDE DEF p, N
  <2> QED
    BY <1>1, <1>3, <1>6, <1>7, <1>8, <2>1
<1> HIDE DEF p
<1>10. p \in 0..3 /\ p <= N - a
  BY <1>1, <1>9
\* The byte before them.
<1> DEFINE e == N - p
<1>11. e \in Int /\ a <= e /\ e <= N /\ e = N - p
  BY <1>1, <1>10
<1> HIDE DEF e
<1>0. N = Len(s)
  BY DEF N
<1>12. \A k \in Int : a < k /\ k <= N => Byte(s, k) \in Letters
  BY <1>0, <1>1, ByteIs
<1> DEFINE at(k) == EolAt(s, k, FALSE)
<1>13. \A k \in Int : a < k /\ k <= N /\ at(k) # 0 =>
           at(k + at(k)) = 0
  <2> SUFFICES ASSUME NEW k \in Int, a < k, k <= N, at(k) # 0
               PROVE  at(k + at(k)) = 0
    OBVIOUS
  <2>1. k \in Nat \ {0} /\ k \in (a + 1)..N
    BY <1>1
  <2>2. BlankLine(s, k, FALSE) = 0
    BY <1>0, <2>1
  <2> QED
    BY <2>1, <2>2, BlankLineIs
<1>14. \A k \in Int : a < k /\ k <= N =>
          /\ at(k) = 2 <=> Byte(s, k) = "r" /\ Byte(s, k + 1) = "n"
          /\ at(k) = 1 <=>
                Byte(s, k) = "n" \/ (Byte(s, k) = "r" /\ Byte(s, k + 1) # "n" /\ k < N)
          /\ at(k) \in {0, 1, 2}
  <2> TAKE k \in Int
  <2> HAVE a < k /\ k <= N
  <2>1. k \in Nat \ {0}
    BY <1>1
  <2>2. FALSE \in BOOLEAN
    OBVIOUS
  <2> QED
    BY <1>0, <2>1, <2>2, EolAtIs
<1> HIDE DEF at
<1>15. Byte(s, e) = "x" /\ e > f
  <2>1. CASE e = a
    <3>1. p = N - a
      BY <1>1, <1>10, <1>11, <2>1
    <3>2. CASE a > f
      BY <1>2, <2>1, <3>2
    <3>3. CASE ~(a > f)
      <4>1. Byte(s, a + 1) = "x" /\ a = f
        BY <1>2, <3>3
      <4>2. a + 1 <= N
        BY <1>0, <1>1, <4>1, ByteIs
      <4>3. a + 1 = N \/ a + 1 = N - 1 \/ a + 1 = N - 2
        BY <1>1, <1>10, <3>1, <4>2
      <4> QED
        BY <1>1, <1>9, <3>1, <4>1, <4>2, <4>3
    <3> QED
      BY <3>2, <3>3
  <2>2. CASE e > a
    <3>1. Byte(s, e) \in Letters /\ e > f /\ e + 1 \in Int /\ e + 2 \in Int
      BY <1>1, <1>11, <1>12, <2>2
    <3>2. ASSUME Eol(s, e)
          PROVE  FALSE
      <4>1. p # 0 /\ e + p = N /\ e < N /\ a < e + 1 /\ a < e /\ N - a >= p + 1
            /\ e + 1 <= N
        BY <1>1, <1>9, <1>10, <1>11, <2>2, <3>2 DEF Eol
      <4>2. at(e) = 1 => at(e + 1) = 0
        <5> HAVE at(e) = 1
        <5>1. e \in Int /\ a < e /\ e <= N /\ at(e) # 0
          BY <1>1, <1>11, <4>1
        <5>2. at(e + at(e)) = 0
          BY ONLY <1>13, <5>1
        <5> QED
          BY <5>2
      <4>3. at(e) = 1 <=>
               Byte(s, e) = "n" \/ (Byte(s, e) = "r" /\ Byte(s, e + 1) # "n")
        BY <1>11, <1>14, <4>1
      <4>4. at(e + 1) = 0 =>
               Byte(s, e + 1) # "n" /\ (Byte(s, e + 1) = "r" => e + 1 = N /\ Byte(s, e + 2) # "n")
        <5> DEFINE m == e + 1
        <5>1. m \in Int /\ a < m /\ m <= N /\ m + 1 = e + 2 /\ (~(m < N) => m = N)
          BY <1>1, <1>11, <4>1
        <5> HIDE DEF m
        <5>2. at(m) = 0 =>
                 /\ ~(Byte(s, m) = "r" /\ Byte(s, m + 1) = "n")
                 /\ ~(Byte(s, m) = "n" \/ (Byte(s, m) = "r" /\ Byte(s, m + 1) # "n" /\ m < N))
          BY ONLY <1>14, <5>1
        <5> QED
          BY <5>1, <5>2 DEF m
      <4>5. CASE p = 1
        <5>1. e = N - 1 /\ e + 1 = N
          BY <1>1, <1>11, <4>5
        <5>2. N - a >= 2 /\ Byte(s, N) \in {"r", "n"} /\ Byte(s, N - 1) \in {"r", "n"}
          BY <1>1, <1>9, <3>2, <4>1, <4>5, <5>1 DEF Eol
        <5>3. Byte(s, e) = "n" /\ Byte(s, e + 1) = "n"
          BY <1>1, <1>9, <4>5, <5>1, <5>2
        <5> QED
          BY <4>2, <4>3, <4>4, <5>3
      <4>6. CASE p = 2
        <5>1. e = N - 2 /\ e + 1 = N - 1 /\ e + 2 = N
          BY <1>1, <1>11, <4>6
        <5>2. N - a >= 3 /\ Byte(s, N - 2) \in {"r", "n"}
              /\ \/ Byte(s, N - 1) = "r" /\ Byte(s, N) = "n"
                 \/ Byte(s, N - 1) = "n" /\ Byte(s, N) = "r"
                 \/ Byte(s, N - 1) = "r" /\ Byte(s, N) = "r"
          BY <1>1, <1>9, <3>2, <4>1, <4>6, <5>1 DEF Eol
        <5>3. CASE Byte(s, N - 1) = "n"
          <6>1. Byte(s, e) = "n" /\ Byte(s, e + 1) = "n"
            BY <1>9, <4>6, <5>1, <5>2, <5>3
          <6> QED
            BY <4>2, <4>3, <4>4, <6>1
        <5>4. CASE Byte(s, N - 1) = "r"
          <6>1. Byte(s, e + 1) = "r" /\ e + 1 # N /\ Byte(s, e) \in {"r", "n"}
            BY <1>1, <5>1, <5>2, <5>4
          <6> QED
            BY <4>2, <4>3, <4>4, <6>1
        <5> QED
          BY <5>2, <5>3, <5>4
      <4>7. CASE p = 3
        <5>1. e = N - 3 /\ e + 1 = N - 2 /\ e + 2 = N - 1
          BY <1>1, <1>11, <4>7
        <5>2. Byte(s, e + 1) = "r" /\ e + 1 # N /\ Byte(s, e) \in {"r", "n"}
          BY <1>1, <1>9, <3>2, <4>1, <4>7, <5>1 DEF Eol
        <5> QED
          BY <4>2, <4>3, <4>4, <5>2
      <4> QED
        BY <1>10, <4>1, <4>5, <4>6, <4>7
    <3> QED
      BY <3>1, <3>2 DEF Eol, Letters
  <2> QED
    BY <1>11, <2>1, <2>2
<1>16. Held(s, e)
  <2>1. CASE p = 0
    <3>1. <<>> \in Continuations /\ Len(<<>>) = 0
      BY DEF Continuations, AtMost
    <3>2. \A k \in (e + 1)..(N + Len(<<>>)) : ~Plain(s \o <<>>, k)
      BY <1>0, <1>1, <1>11, <2>1
    <3> QED
      BY <1>0, <3>1, <3>2 DEF Held
  <2>2. CASE p # 0
    <3> DEFINE more == <<"r">>
               u == s \o more
    <3>1. more \in Continuations /\ Len(more) = 1 /\ more \in Seq(Letters)
      <4>1. more \in [1..1 -> Letters] /\ 1 \in 0..3
        BY DEF Letters
      <4> QED
        BY <4>1 DEF Continuations, AtMost, Letters
    <3>2. /\ u \in Seq(Letters) /\ Len(u) = N + 1 /\ u[N + 1] = "r"
      BY <1>0, <1>1, <3>1
    <3>3. \A i \in Int : i <= N => Byte(u, i) = Byte(s, i)
      BY <1>0, <3>1, ByteStays
    <3> HIDE DEF u, more
    <3>4. Byte(u, N + 1) = "r"
      BY <1>1, <3>2 DEF Byte
    <3>5. \A k \in (e + 1)..(N + 1) : k = N + 1 \/ k = N \/ (k = N - 1 /\ p >= 2) \/ (k = N - 2 /\ p = 3)
      BY <1>1, <1>10, <1>11
    <3>6. Byte(s, N) \in {"r", "n"} /\ (p >= 2 => Byte(s, N - 1) \in {"r", "n"})
          /\ (p >= 2 => (Byte(s, N - 1) = "n" => Byte(s, N) = "r"))
          /\ (p = 3 => Byte(s, N - 2) = "r" /\ Byte(s, N - 1) = "n")
      BY <1>1, <1>9, <2>2
    <3>7. Byte(u, N) = Byte(s, N) /\ Byte(u, N - 1) = Byte(s, N - 1) /\ Byte(u, N - 2) = Byte(s, N - 2)
          /\ (N - 1) + 1 = N /\ (N - 1) + 2 = N + 1 /\ (N - 2) + 1 = N - 1 /\ (N - 2) + 2 = N
          /\ (N + 1) - 1 = N
      BY <1>1, <3>3
    <3>8. ~Plain(u, N + 1)
      BY <3>4, <3>6, <3>7 DEF Plain, Lone
    <3>9. ~Plain(u, N)
      BY <3>4, <3>6, <3>7 DEF Plain, Lone, Eol
    <3>10. p >= 2 => ~Plain(u, N - 1)
      BY <3>4, <3>6, <3>7 DEF Plain, Lone, Eol
    <3>11. p = 3 => ~Plain(u, N - 2)
      BY <1>10, <3>4, <3>6, <3>7 DEF Plain, Lone, Eol
    <3>12. \A k \in (e + 1)..(N + Len(more)) : ~Plain(s \o more, k)
      BY <3>1, <3>5, <3>8, <3>9, <3>10, <3>11 DEF u
    <3> QED
      BY <1>0, <3>1, <3>12 DEF Held
  <2> QED
    BY <2>1, <2>2
<1> QED
  BY <1>0, <1>1, <1>10, <1>11, <1>15, <1>16 DEF p

\* The end of a run of line ends.
LEMMA RunEndIs ==
    ASSUME NEW b \in Seq(Letters), NEW atEof \in BOOLEAN, NEW i \in 1..(Len(b) + 1)
    PROVE  /\ RunEnd(b, i, atEof) \in i..(Len(b) + 1)
           /\ EolAt(b, RunEnd(b, i, atEof), atEof) = 0
           /\ \A k \in i..(RunEnd(b, i, atEof) - 1) : EolAt(b, k, atEof) # 0
<1> DEFINE T == {k \in i..(Len(b) + 1) : EolAt(b, k, atEof) = 0}
<1>1. Len(b) \in Nat /\ i \in Nat \ {0} /\ i <= Len(b) + 1
  OBVIOUS
<1>2. EolAt(b, Len(b) + 1, atEof) = 0
  <2>1. Byte(b, Len(b) + 1) = "none"
    BY <1>1, ByteIs
  <2> QED
    BY <2>1 DEF EolAt
<1>3. T \in SUBSET Nat /\ T # {}
  BY <1>1, <1>2
<1>4. \E x \in T : \A y \in T : x <= y
  BY <1>3, LeastOf
<1> HIDE DEF T
<1>5. Min(T) \in T /\ \A y \in T : Min(T) <= y
  BY <1>4 DEF Min
<1>6. RunEnd(b, i, atEof) = Min(T)
  BY DEF RunEnd, T
<1>7. ASSUME NEW k \in i..(Min(T) - 1)
      PROVE  EolAt(b, k, atEof) # 0
  <2>1. Min(T) \in i..(Len(b) + 1)
    BY <1>5 DEF T
  <2>2. k \notin T /\ k \in i..(Len(b) + 1)
    BY <1>1, <1>5, <2>1
  <2> QED
    BY <2>2 DEF T
<1>8. Min(T) \in i..(Len(b) + 1) /\ EolAt(b, Min(T), atEof) = 0
  BY <1>5 DEF T
<1> QED
  BY <1>6, <1>7, <1>8

\* The first blank line of a buffer from a place on, and the run behind it.
LEMMA FirstBlankIs ==
    ASSUME NEW b \in Seq(Letters), NEW atEof \in BOOLEAN, NEW start \in 1..(Len(b) + 1),
           NEW blanks, blanks = Boundaries(b, start, atEof), blanks # {},
           NEW first, first = Min(blanks), NEW l, l = BlankLine(b, first, atEof),
           NEW beyond, beyond = RunEnd(b, first + l, atEof)
    PROVE  /\ first \in start..Len(b) /\ l # 0
           /\ \A k \in start..(first - 1) : BlankLine(b, k, atEof) = 0
           /\ l \in 2..4 /\ beyond \in (first + l)..(Len(b) + 1) /\ EolAt(b, beyond, atEof) = 0
           /\ \A k \in (first + l)..(beyond - 1) : EolAt(b, k, atEof) # 0
<1>1. Len(b) \in Nat /\ start \in Nat \ {0} /\ start <= Len(b) + 1
  OBVIOUS
<1>2. blanks \in SUBSET Nat
  BY <1>1 DEF Boundaries
<1>3. \E x \in blanks : \A y \in blanks : x <= y
  BY <1>2, LeastOf
<1>4. first \in blanks /\ \A y \in blanks : first <= y
  BY <1>3 DEF Min
<1>5. first \in start..Len(b) /\ l # 0
  BY <1>4 DEF Boundaries
<1>6. ASSUME NEW k \in start..(first - 1)
      PROVE  BlankLine(b, k, atEof) = 0
  <2>1. k \notin blanks /\ k \in start..Len(b)
    BY <1>1, <1>4, <1>5
  <2> QED
    BY <2>1 DEF Boundaries
<1>7. first \in 1..Len(b)
  BY <1>1, <1>5
<1>8. l \in 2..4 /\ first + l - 1 <= Len(b)
  BY <1>5, <1>7, BlankLineEnds
<1>9. first + l \in 1..(Len(b) + 1)
  BY <1>1, <1>5, <1>8
<1> QED
  BY <1>5, <1>6, <1>8, <1>9, RunEndIs

\* The tail of a sequence.
LEMMA TailReads ==
    ASSUME NEW s \in Seq(Letters), NEW q \in 0..Len(s)
    PROVE  LET t == SubSeq(s, q + 1, Len(s))
           IN  t \in Seq(Letters) /\ Len(t) = Len(s) - q /\ \A i \in 1..(Len(s) - q) : t[i] = s[q + i]
OBVIOUS

\* The tail of a tail.
LEMMA TailOfTail ==
    ASSUME NEW s \in Seq(Letters), NEW p \in 0..Len(s), NEW b, b = SubSeq(s, p + 1, Len(s)),
           NEW n \in 1..(Len(b) + 1)
    PROVE  SubSeq(b, n, Len(b)) = SubSeq(s, p + n, Len(s))
<1> DEFINE t == SubSeq(b, n, Len(b))
           u == SubSeq(s, p + n, Len(s))
<1>1. b \in Seq(Letters) /\ Len(b) = Len(s) - p /\ Len(s) \in Nat /\ p \in Nat /\ p <= Len(s)
      /\ \A i \in 1..Len(b) : b[i] = s[p + i]
  OBVIOUS
<1>2. n \in Nat /\ n >= 1 /\ n <= Len(b) + 1
  BY <1>1
<1>3. t \in Seq(Letters) /\ Len(t) = Len(b) - n + 1 /\ \A i \in 1..Len(t) : t[i] = b[n + i - 1]
  BY <1>1, <1>2
<1>4. u \in Seq(Letters) /\ Len(u) = Len(s) - (p + n) + 1 /\ \A i \in 1..Len(u) : u[i] = s[p + n + i - 1]
  BY <1>1, <1>2
<1> HIDE DEF t, u
<1>5. Len(t) = Len(u)
  BY <1>1, <1>2, <1>3, <1>4
<1>6. ASSUME NEW i \in 1..Len(t)
      PROVE  t[i] = u[i]
  <2>1. t[i] = b[n + i - 1] /\ n + i - 1 \in 1..Len(b) /\ p + (n + i - 1) = p + n + i - 1
    BY <1>1, <1>2, <1>3
  <2>2. b[n + i - 1] = s[p + (n + i - 1)]
    BY <1>1, <2>1
  <2>3. u[i] = s[p + n + i - 1]
    BY <1>4, <1>5
  <2> QED
    BY <2>1, <2>2, <2>3
<1>7. t = u
  <2>1. t \in Seq(Letters) /\ u \in Seq(Letters)
    BY <1>3, <1>4
  <2> QED
    BY ONLY <1>5, <1>6, <2>1, SeqEqual
<1> QED
  BY <1>7 DEF t, u

\* One turn of the loop of scan_frames_since_boundary: f is the function it calls.
Turn(f, b, begin, since, atEof, start) ==
    LET blanks  == Boundaries(b, start, atEof)
        first   == Min(blanks)
        beyond    == RunEnd(b, first + BlankLine(b, first, atEof), atEof)
        charged == IF start = begin THEN since ELSE 0
    IN  IF blanks = {} THEN OpenFrame(b, start, charged, atEof)
        ELSE IF charged + (first - start) > FrameCap THEN TooMuch
        ELSE IF Byte(b, beyond) = "x" THEN f[beyond]
        ELSE InRun(SubSeq(b, beyond, Len(b)))

\* The loop is the function that calls itself.
LEMMA FramesAre ==
    ASSUME NEW b, NEW begin, NEW since, NEW atEof
    PROVE  Frames(b, begin, since, atEof) =
              (CHOOSE f : f = [start \in 1..(Len(b) + 1) |-> Turn(f, b, begin, since, atEof, start)])[begin]
BY DEF Frames, Turn

\* Some function calls itself as the loop goes on.
Unrolls(b, begin, since, atEof) ==
    \E f : f = [start \in 1..(Len(b) + 1) |-> Turn(f, b, begin, since, atEof, start)]

\* The loop comes to an end.
LEMMA FramesExist ==
    ASSUME NEW b \in Seq(Letters), NEW begin, NEW since, NEW atEof \in BOOLEAN
    PROVE  Unrolls(b, begin, since, atEof)
<1> DEFINE N == Len(b) + 1
           Go(f, start) == Turn(f, b, begin, since, atEof, start)
           Near(d) == {start \in 1..N : N - start <= d}
           Of(f, d) == f = [start \in Near(d) |-> Go(f, start)]
           T == {d \in Nat : \E f : Of(f, d)}
\* A turn looks further ahead only.
<1>1. ASSUME NEW f, NEW g, NEW start \in 1..N, \A k \in (start + 1)..N : f[k] = g[k]
      PROVE  Go(f, start) = Go(g, start)
  <2> DEFINE blanks == Boundaries(b, start, atEof)
             first == Min(blanks)
             beyond == RunEnd(b, first + BlankLine(b, first, atEof), atEof)
  <2>1. CASE blanks = {}
    BY <2>1 DEF Turn
  <2>2. CASE blanks # {}
    <3>1. beyond \in (start + 1)..N
      <4> DEFINE l == BlankLine(b, first, atEof)
      <4>1. Len(b) \in Nat /\ start \in 1..(Len(b) + 1)
        OBVIOUS
      <4>2. /\ first \in start..Len(b) /\ l \in 2..4
            /\ beyond \in (first + l)..(Len(b) + 1)
        <5> HIDE DEF N, Go, Near, Of, T
        <5> QED
          BY <2>2, <4>1, FirstBlankIs
      <4> HIDE DEF first, beyond, l
      <4> QED
        BY <4>1, <4>2
    <3>2. f[beyond] = g[beyond]
      <4> HIDE DEF beyond
      <4> QED
        BY <1>1, <3>1
    <3> QED
      BY <3>2 DEF Turn
  <2> QED
    BY <2>1, <2>2
<1> HIDE DEF Go
<1>2. N \in Nat
  OBVIOUS
<1> HIDE DEF N
<1>3. 0 \in T
  <2> DEFINE f == [start \in Near(0) |-> Go(<<>>, start)]
  <2>1. ASSUME NEW start \in Near(0)
        PROVE  Go(f, start) = Go(<<>>, start)
    <3>1. start \in 1..N /\ \A k \in (start + 1)..N : f[k] = <<>>[k]
      BY <1>2
    <3> HIDE DEF f
    <3> QED
      BY <1>1, <3>1
  <2>2. Of(f, 0)
    BY <2>1
  <2> HIDE DEF f, Of
  <2> QED
    BY <2>2
<1>4. ASSUME NEW d \in T
      PROVE  d + 1 \in T
  <2>1. PICK f : Of(f, d)
    OBVIOUS
  <2> DEFINE g == [start \in Near(d + 1) |-> Go(f, start)]
  <2>2. d \in Nat
    OBVIOUS
  <2>3. \A start \in Near(d) : start \in Near(d + 1)
    BY <1>2, <2>2
  <2>4. \A start \in Near(d) : g[start] = f[start]
    BY <2>1, <2>3
  <2>5. ASSUME NEW start \in Near(d + 1)
        PROVE  Go(g, start) = Go(f, start)
    <3>1. start \in 1..N /\ N - start <= d + 1
      OBVIOUS
    <3>2. ASSUME NEW k \in (start + 1)..N
          PROVE  g[k] = f[k]
      <4>1. k \in Near(d)
        BY <1>2, <2>2, <3>1
      <4> HIDE DEF g, Near
      <4> QED
        BY <2>4, <4>1
    <3> HIDE DEF g
    <3> QED
      BY <1>1, <3>1, <3>2
  <2>6. Of(g, d + 1)
    BY <2>5
  <2> HIDE DEF g, Of
  <2>7. \E h : Of(h, d + 1)
    BY <2>6
  <2> QED
    BY <2>2, <2>7
<1> HIDE DEF T
<1>5. T \in SUBSET Nat
  BY DEF T
<1>6. T = Nat
  BY <1>3, <1>4, <1>5, NatSets
<1>7. PICK f : Of(f, N)
  BY <1>2, <1>6 DEF T
<1>8. Near(N) = 1..N
  BY <1>2
<1>9. f = [start \in 1..N |-> Go(f, start)]
  BY <1>7, <1>8
<1> QED
  BY <1>9 DEF N, Go, Unrolls

\* The guard, and what it has to say.
Verdict(s, g, atEof) == g.over \in BOOLEAN /\ Judged(s, g, atEof)

\* A run of blank lines that goes on to the end, or may.
LEMMA RunJudged ==
    ASSUME NEW s \in Seq(Letters), NEW atEof \in BOOLEAN, NEW z \in 1..(Len(s) + 1),
           Done(s, z - 1, atEof), Short(s, z - 1),
           z = Len(s) + 1 \/ (~atEof /\ z = Len(s) /\ Byte(s, z) = "r")
    PROVE  Verdict(s, InRun(SubSeq(s, z, Len(s))), atEof)
<1> DEFINE g == InRun(SubSeq(s, z, Len(s)))
<1>1. Len(s) \in Nat /\ z \in Nat /\ z >= 1 /\ z <= Len(s) + 1 /\ (z - 1) + 1 = z
  OBVIOUS
<1>2. g.over = FALSE /\ g.since = 0 /\ g.inRun = TRUE /\ g.carry = SubSeq(s, z, Len(s))
  BY DEF InRun
<1> HIDE DEF g
<1>3. CASE atEof
  <2>1. Short(s, Len(s))
    BY <1>1, <1>3
  <2> QED
    BY <1>2, <1>3, <2>1 DEF Judged, Verdict, g
<1>4. CASE ~atEof
  <2>1. atEof = FALSE
    BY <1>4
  <2>2. z - 1 \in 0..Len(s) /\ Len(s) - (z - 1) <= 3
    BY <1>1
  <2>3. z - 1 = Len(s) \/ ((z - 1) + 1 = Len(s) /\ Byte(s, (z - 1) + 1) = "r")
    BY <1>1, <1>4
  <2>4. Kept(s, g, z - 1)
    BY <1>1, <1>2, <2>1, <2>2, <2>3 DEF Kept
  <2> QED
    BY <1>2, <1>4, <2>2, <2>4 DEF Judged, Verdict, g
<1> QED
  BY <1>3, <1>4

\* A frame that is too long.
LEMMA TooMuchJudged ==
    ASSUME NEW s \in Seq(Letters), NEW atEof \in BOOLEAN, NEW f \in Nat, NEW e \in 0..Len(s),
           e - f > FrameCap, \A k \in (f + 1)..e : Plain(s, k), atEof \/ Byte(s, e) = "x"
    PROVE  Verdict(s, TooMuch, atEof)
<1>1. TooMuch.over = TRUE
  BY DEF TooMuch, NewGuard
<1>2. FrameCap \in Nat /\ Len(s) \in Nat /\ e \in Nat
  BY SseAssumption
<1>3. /\ f + 1 \in 1..(Len(s) - FrameCap) /\ f + 1 \in 1..Len(s) /\ e \in 1..Len(s)
      /\ (f + 1) + FrameCap <= e
  BY <1>2
<1>4. \A k \in (f + 1)..((f + 1) + FrameCap) : Plain(s, k)
  BY <1>2, <1>3
<1>5. ~Short(s, Len(s))
  BY <1>3, <1>4 DEF Short
<1>6. ~atEof => Doomed(s)
  BY <1>3, <1>4 DEF Doomed
<1> QED
  BY <1>1, <1>5, <1>6 DEF Judged, Verdict

\* The frame that is open at the end of the buffer.
LEMMA OpenFrameJudged ==
    ASSUME NEW s \in Seq(Letters), NEW atEof \in BOOLEAN, NEW p \in 0..Len(s),
           NEW b, b = SubSeq(s, p + 1, Len(s)),
           NEW start \in 1..(Len(b) + 1), NEW f \in Nat, NEW a, a = p + start - 1,
           InFrame(s, f, a, atEof),
           \A k \in (a + 1)..Len(s) : BlankLine(s, k, atEof) = 0
    PROVE  Verdict(s, OpenFrame(b, start, a - f, atEof), atEof)
<1> DEFINE tail == SubSeq(b, start, Len(b))
           held == IF atEof THEN 0 ELSE PrefixSuffixLen(tail)
           e == Len(s) - held
           N == Len(s)
<1>1. /\ N \in Nat /\ p \in Nat /\ p <= N /\ b \in Seq(Letters) /\ Len(b) = N - p
      /\ start \in Nat /\ start >= 1 /\ start <= Len(b) + 1 /\ a \in Nat /\ a <= N /\ a + 1 = p + start
      /\ FrameCap \in Nat
  BY SseAssumption
<1>2. f <= a /\ Done(s, f, atEof) /\ Short(s, f)
  BY <1>1 DEF InFrame
<1>3. tail = SubSeq(s, a + 1, N)
  <2>1. SubSeq(b, start, Len(b)) = SubSeq(s, p + start, Len(s))
    BY TailOfTail
  <2> QED
    BY <1>1, <2>1
<1>4. tail \in Seq(Letters) /\ Len(tail) = N - a
  BY <1>1, <1>3
<1>5. held \in 0..3 /\ a <= e /\ e \in 0..N /\ (~atEof => e > f /\ Byte(s, e) = "x" /\ Held(s, e))
  <2>1. CASE atEof
    BY <1>1, <2>1
  <2>2. CASE ~atEof
    <3>1. InFrame(s, f, a, FALSE) /\ \A k \in (a + 1)..Len(s) : BlankLine(s, k, FALSE) = 0
      BY <2>2
    <3>2. tail = SubSeq(s, a + 1, Len(s))
      BY <1>3
    <3> DEFINE q == PrefixSuffixLen(tail)
    <3>3. /\ q \in 0..3 /\ q <= Len(s) - a /\ Len(s) - q > f
          /\ Byte(s, Len(s) - q) = "x" /\ Held(s, Len(s) - q)
      <4> HIDE DEF tail, held, e, N
      <4> QED
        BY <1>1, <3>1, <3>2, HoldsBack
    <3> HIDE DEF q
    <3>4. held = q
      BY <2>2 DEF q
    <3> HIDE DEF held
    <3> QED
      BY <1>1, <2>2, <3>3, <3>4
  <2> QED
    BY <2>1, <2>2
<1>6. OpenFrame(b, start, a - f, atEof) =
         IF (a - f) + (Len(tail) - held) > FrameCap THEN TooMuch
         ELSE [since |-> (a - f) + (Len(tail) - held),
               carry |-> SubSeq(tail, (Len(tail) - held) + 1, Len(tail)),
               inRun |-> FALSE, over |-> FALSE]
  BY DEF OpenFrame
<1>7. e = N - held /\ (atEof => e = N)
  BY <1>1
<1> HIDE DEF tail, held, e
<1>8. (a - f) + (Len(tail) - held) = e - f
  BY <1>1, <1>2, <1>4, <1>5, <1>7
<1>9. \A k \in (a + 1)..e : Plain(s, k)
  <2>1. e \in a..Len(s)
    BY <1>1, <1>5
  <2>2. Byte(s, e) = "x" \/ (atEof /\ e = Len(s))
    BY <1>5, <1>7
  <2>3. \A k \in (a + 1)..e : BlankLine(s, k, atEof) = 0
    BY <1>1, <1>5
  <2> QED
    BY <1>1, <2>1, <2>2, <2>3, FrameCounts
<1>10. \A k \in (f + 1)..a : Plain(s, k)
  BY <1>1, <1>2 DEF InFrame
<1>11. \A k \in (f + 1)..e : Plain(s, k)
  BY <1>1, <1>2, <1>5, <1>9, <1>10
<1>12. CASE e - f > FrameCap
  <2>1. OpenFrame(b, start, a - f, atEof) = TooMuch
    BY <1>6, <1>8, <1>12
  <2>2. atEof \/ Byte(s, e) = "x"
    BY <1>5
  <2>3. Verdict(s, TooMuch, atEof)
    BY <1>5, <1>11, <1>12, <2>2, TooMuchJudged
  <2> QED
    BY <2>1, <2>3
<1>13. CASE ~(e - f > FrameCap)
  <2> DEFINE g == [since |-> e - f, carry |-> SubSeq(tail, (Len(tail) - held) + 1, Len(tail)),
                   inRun |-> FALSE, over |-> FALSE]
  <2>1. OpenFrame(b, start, a - f, atEof) = g
    BY <1>6, <1>8, <1>13
  <2>2. g.over = FALSE /\ g.inRun = FALSE /\ g.since = e - f
        /\ g.carry = SubSeq(tail, (Len(tail) - held) + 1, Len(tail))
    OBVIOUS
  <2> HIDE DEF g
  <2>3. e \in Nat /\ f <= e /\ e <= N /\ e - f <= FrameCap
    BY <1>1, <1>2, <1>5, <1>13
  <2>4. CASE atEof
    <3>1. e = Len(s)
      BY <1>7, <2>4
    <3>2. Short(s, e)
      <4>1. \A k \in (e + 1)..e : ~Plain(s, k)
        BY <2>3
      <4> QED
        BY <1>2, <2>3, <4>1, ShortOn
    <3> QED
      BY <2>1, <2>2, <2>4, <3>1, <3>2 DEF Judged, Verdict
  <2>5. CASE ~atEof
    <3>1. g.carry = SubSeq(s, e + 1, Len(s))
      <4> DEFINE n == (Len(tail) - held) + 1
      <4>1. n \in 1..(Len(tail) + 1) /\ a + n = e + 1 /\ a \in 0..Len(s)
        BY <1>1, <1>4, <1>5, <1>7
      <4>2. tail = SubSeq(s, a + 1, Len(s))
        BY <1>3
      <4> HIDE DEF n
      <4>3. SubSeq(tail, n, Len(tail)) = SubSeq(s, a + n, Len(s))
        BY <4>1, <4>2, TailOfTail
      <4> QED
        BY <2>2, <4>1, <4>3 DEF n
    <3>2. InFrame(s, f, e, FALSE)
      <4>1. Byte(s, f + 1) = "x"
        BY <1>1 DEF InFrame
      <4>2. f \in 0..e
        BY <2>3
      <4>3. atEof = FALSE
        BY <2>5
      <4> QED
        BY <1>2, <1>5, <1>11, <2>3, <2>5, <4>1, <4>2, <4>3 DEF InFrame
    <3>3. e \in 0..Len(s) /\ Len(s) - e <= 3 /\ f \in 0..(e - 1)
      BY <1>1, <1>2, <1>5, <1>7, <2>5
    <3>4. Held(s, e)
      BY <1>5, <2>5
    <3>5. Kept(s, g, e)
      BY <2>2, <3>1, <3>2, <3>3, <3>4 DEF Kept
    <3> QED
      BY <2>1, <2>2, <2>5, <3>3, <3>5 DEF Judged, Verdict
  <2> QED
    BY <2>4, <2>5
<1> QED
  BY <1>12, <1>13

\* The byte before the first blank line of a frame belongs to the frame's last line.
LEMMA BeforeBlank ==
    ASSUME NEW s \in Seq(Letters), NEW atEof \in BOOLEAN, NEW a \in Nat, NEW f \in Nat,
           InFrame(s, f, a, atEof),
           NEW w \in (a + 1)..Len(s), BlankLine(s, w, atEof) # 0,
           \A k \in (a + 1)..(w - 1) : BlankLine(s, k, atEof) = 0
    PROVE  Byte(s, w - 1) = "x"
<1> DEFINE at(k) == EolAt(s, k, atEof)
           N == Len(s)
<1>1. N \in Nat /\ w \in Nat /\ a < w /\ w <= N /\ f <= a
  BY DEF InFrame
<1>2. IF a > f THEN Byte(s, a) = "x" ELSE Byte(s, a + 1) = "x"
  BY DEF InFrame
<1>3. Eol(s, w)
  BY <1>1, BlankLineEnds
<1>4. CASE w - 1 = a
  <2>1. a + 1 = w
    BY <1>1, <1>4
  <2>2. Byte(s, a + 1) # "x"
    BY <1>3, <2>1 DEF Eol
  <2> QED
    BY <1>2, <1>4, <2>2
<1>5. CASE w - 1 # a
  <2> SUFFICES ASSUME Byte(s, w - 1) # "x"
               PROVE  FALSE
    OBVIOUS
  <2> DEFINE m == w - 1
  <2>1. m \in Nat \ {0} /\ m \in (a + 1)..(w - 1) /\ m + 1 = w /\ m \in 1..N /\ m < N /\ m + 2 = w + 1
    BY <1>1, <1>5
  <2>2. Byte(s, m) \in Letters
    BY <2>1, ByteIs
  <2>3. Eol(s, m)
    BY <2>2 DEF Eol, Letters
  <2>4. BlankLine(s, m, atEof) = 0
    BY <2>1
  <2> HIDE DEF m, N
  <2>5. at(m) # 0 => at(m + at(m)) = 0
    BY <2>1, <2>4, BlankLineIs
  <2>6. at(w) # 0 /\ at(w + at(w)) # 0
    BY <1>1, BlankLineIs
  <2>7. /\ at(m) \in {0, 1, 2}
        /\ at(m) = 2 <=> Byte(s, m) = "r" /\ Byte(s, m + 1) = "n"
        /\ at(m) = 1 <=> Byte(s, m) = "n" \/ (Byte(s, m) = "r" /\ Byte(s, m + 1) # "n" /\ (m < N \/ atEof))
    <3>1. m \in Nat \ {0}
      BY <2>1
    <3> QED
      BY <3>1, EolAtIs DEF N
  <2>8. /\ at(w) = 2 <=> Byte(s, w) = "r" /\ Byte(s, w + 1) = "n"
        /\ at(w) \in {0, 1, 2}
    <3>1. w \in Nat \ {0}
      BY <1>1
    <3> QED
      BY <3>1, EolAtIs
  <2> HIDE DEF at
  <2>9. CASE at(m) = 2
    <3>1. Byte(s, w) = "n"
      BY <2>1, <2>7, <2>9
    <3>2. at(w) = 1
      BY <2>6, <2>8, <3>1
    <3>3. at(w + 1) = 0
      BY <2>1, <2>5, <2>9
    <3> QED
      BY <2>6, <3>2, <3>3
  <2>10. CASE at(m) # 2
    <3>1. at(m) = 1
      BY <2>1, <2>3, <2>7, <2>10 DEF Eol
    <3>2. at(w) = 0
      BY <2>1, <2>5, <3>1
    <3> QED
      BY <2>6, <3>2
  <2> QED
    BY <2>9, <2>10
<1> QED
  BY <1>4, <1>5

\* What follows a frame: it was too long, or a blank line and what comes behind it.
LEMMA FrameEnds ==
    ASSUME NEW s \in Seq(Letters), NEW atEof \in BOOLEAN, NEW a \in Nat, NEW f \in Nat,
           InFrame(s, f, a, atEof),
           NEW w \in (a + 1)..Len(s), NEW l, l = BlankLine(s, w, atEof), l # 0,
           \A k \in (a + 1)..(w - 1) : BlankLine(s, k, atEof) = 0,
           NEW z \in (w + l)..(Len(s) + 1), EolAt(s, z, atEof) = 0,
           \A k \in (w + l)..(z - 1) : EolAt(s, k, atEof) # 0
    PROVE  IF w - 1 - f > FrameCap THEN Verdict(s, TooMuch, atEof)
           ELSE /\ Done(s, z - 1, atEof) /\ Short(s, z - 1)
                /\ \/ Byte(s, z) = "x" \/ z = Len(s) + 1
                   \/ ~atEof /\ z = Len(s) /\ Byte(s, z) = "r"
<1> DEFINE e == w - 1
           m == w + l - 1
<1>1. Len(s) \in Nat /\ w \in 1..Len(s) /\ a < w /\ f <= a /\ FrameCap \in Nat
  BY SseAssumption DEF InFrame
<1>2. Done(s, f, atEof) /\ Short(s, f) /\ \A k \in (f + 1)..a : Plain(s, k)
  BY <1>1 DEF InFrame
<1>3. Byte(s, e) = "x"
  BY <1>1, BeforeBlank
<1>4. /\ e \in a..Len(s) /\ f <= e /\ e \in Nat /\ e \in 0..Len(s)
      /\ \A k \in (a + 1)..e : BlankLine(s, k, atEof) = 0
  BY <1>1
<1>5. \A k \in (a + 1)..e : Plain(s, k)
  <2> HIDE DEF e
  <2> QED
    BY <1>3, <1>4, FrameCounts
<1>6. \A k \in (f + 1)..e : Plain(s, k)
  <2> HIDE DEF e
  <2> QED
    BY <1>1, <1>2, <1>4, <1>5
<1>7. /\ l \in 2..4 /\ m <= Len(s) /\ Done(s, m, atEof)
      /\ \A k \in w..m : ~Plain(s, k)
  BY <1>1, BlankLineEnds
<1>8. m \in 0..Len(s) /\ m + 1 = w + l /\ w <= m
  BY <1>1, <1>7
<1>9. /\ Done(s, z - 1, atEof)
      /\ \A k \in (m + 1)..(z - 1) : ~Plain(s, k)
      /\ \/ Byte(s, z) = "x" \/ z = Len(s) + 1
         \/ ~atEof /\ z = Len(s) /\ Byte(s, z) = "r"
  <2>1. z \in (m + 1)..(Len(s) + 1) /\ \A k \in (m + 1)..(z - 1) : EolAt(s, k, atEof) # 0
    BY <1>8
  <2> HIDE DEF m
  <2> QED
    BY <1>7, <1>8, <2>1, RunIs
<1>10. CASE e - f > FrameCap
  <2>1. Verdict(s, TooMuch, atEof)
    <3> HIDE DEF e
    <3> QED
      BY <1>3, <1>4, <1>6, <1>10, TooMuchJudged
  <2> QED
    BY <1>10, <2>1
<1>11. CASE ~(e - f > FrameCap)
  <2>1. z - 1 \in Nat /\ e <= z - 1 /\ e - f <= FrameCap
    BY <1>1, <1>4, <1>7, <1>8, <1>11
  <2>2. ASSUME NEW k \in (e + 1)..(z - 1)
        PROVE  ~Plain(s, k)
    <3>1. k \in Int /\ w <= k /\ k <= z - 1
      BY <1>1, <2>1
    <3>2. CASE k <= m
      BY <1>1, <1>7, <1>8, <3>1, <3>2
    <3>3. CASE k > m
      BY <1>8, <1>9, <2>1, <3>1, <3>3
    <3> QED
      BY <1>8, <3>1, <3>2, <3>3
  <2>3. Short(s, z - 1)
    <3> HIDE DEF e, m
    <3> QED
      BY <1>2, <1>4, <2>1, <2>2, ShortOn
  <2> QED
    BY <1>9, <1>11, <2>3
<1> QED
  BY <1>10, <1>11

\* One turn judges what it should, if the turns ahead do.
LEMMA TurnJudged ==
    ASSUME NEW s \in Seq(Letters), NEW atEof \in BOOLEAN, NEW p \in 0..Len(s),
           NEW b, b = SubSeq(s, p + 1, Len(s)), NEW frame, NEW begin \in 1..(Len(b) + 1),
           NEW since,
           NEW start \in begin..(Len(b) + 1), NEW f \in Nat, InFrame(s, f, p + start - 1, atEof),
           (IF start = begin THEN since ELSE 0) = p + start - 1 - f,
           \A k \in (start + 1)..(Len(b) + 1) :
               InFrame(s, p + k - 1, p + k - 1, atEof) => Verdict(s, frame[k], atEof)
    PROVE  Verdict(s, Turn(frame, b, begin, since, atEof, start), atEof)
<1> DEFINE a == p + start - 1
           blanks == Boundaries(b, start, atEof)
           charged == IF start = begin THEN since ELSE 0
<1>1. /\ Len(s) \in Nat /\ p \in Nat /\ p <= Len(s) /\ start \in Nat /\ start >= 1 /\ start <= Len(b) + 1
      /\ b \in Seq(Letters) /\ Len(b) = Len(s) - p /\ FrameCap \in Nat /\ begin \in Nat
      /\ start \in 1..(Len(b) + 1) /\ begin <= start
  BY SseAssumption
<1>2. a \in Nat /\ a <= Len(s) /\ a + 1 = p + start /\ charged = a - f /\ a \in 0..Len(s)
  BY <1>1
<1>3. \A i \in Nat \ {0} : BlankLine(b, i, atEof) = BlankLine(s, p + i, atEof)
  BY BufferReads
<1>4. \A i \in Nat \ {0} : EolAt(b, i, atEof) = EolAt(s, p + i, atEof)
  BY BufferReads
<1>5. CASE blanks = {}
  <2>1. ASSUME NEW k \in (a + 1)..Len(s)
        PROVE  BlankLine(s, k, atEof) = 0
    <3> DEFINE i == k - p
    <3>1. i \in start..Len(b) /\ i \in Nat \ {0} /\ p + i = k
      BY <1>1, <1>2
    <3> HIDE DEF i
    <3>2. BlankLine(b, i, atEof) = 0
      BY <1>5, <3>1 DEF Boundaries
    <3> QED
      BY <1>3, <3>1, <3>2
  <2>2. Turn(frame, b, begin, since, atEof, start) = OpenFrame(b, start, charged, atEof)
    BY <1>5 DEF Turn
  <2>3. Verdict(s, OpenFrame(b, start, a - f, atEof), atEof)
    <3>1. a = p + start - 1
      OBVIOUS
    <3>2. InFrame(s, f, a, atEof)
      OBVIOUS
    <3> HIDE DEF a, blanks, charged
    <3> QED
      BY <1>1, <2>1, <3>1, <3>2, OpenFrameJudged
  <2> QED
    BY <1>2, <2>2, <2>3
<1>6. CASE blanks # {}
  <2> DEFINE first == Min(blanks)
             l == BlankLine(b, first, atEof)
             beyond == RunEnd(b, first + l, atEof)
             w == p + first
             z == p + beyond
  <2>1. /\ first \in start..Len(b) /\ l # 0
        /\ \A k \in start..(first - 1) : BlankLine(b, k, atEof) = 0
        /\ l \in 2..4 /\ beyond \in (first + l)..(Len(b) + 1) /\ EolAt(b, beyond, atEof) = 0
        /\ \A k \in (first + l)..(beyond - 1) : EolAt(b, k, atEof) # 0
    <3>1. /\ b \in Seq(Letters) /\ atEof \in BOOLEAN /\ start \in 1..(Len(b) + 1)
          /\ blanks = Boundaries(b, start, atEof) /\ blanks # {}
          /\ first = Min(blanks) /\ l = BlankLine(b, first, atEof)
          /\ beyond = RunEnd(b, first + l, atEof)
      BY <1>1, <1>6
    <3> HIDE DEF first, l, beyond, blanks
    <3> QED
      BY ONLY <3>1, FirstBlankIs
  <2>2. Turn(frame, b, begin, since, atEof, start) =
           IF charged + (first - start) > FrameCap THEN TooMuch
           ELSE IF Byte(b, beyond) = "x" THEN frame[beyond]
           ELSE InRun(SubSeq(b, beyond, Len(b)))
    BY <1>6 DEF Turn
  <2> HIDE DEF first, l, beyond, blanks
  <2>3. first \in Nat \ {0} /\ beyond \in Nat \ {0} /\ first + l \in Nat \ {0} /\ start <= first
    BY <1>1, <2>1
  <2>4. l = BlankLine(s, w, atEof)
    BY <1>3, <2>3 DEF l
  <2>5. w \in (a + 1)..Len(s) /\ z \in (w + l)..(Len(s) + 1)
    BY <1>1, <1>2, <2>1
  <2>6. ASSUME NEW k \in (a + 1)..(w - 1)
        PROVE  BlankLine(s, k, atEof) = 0
    <3> DEFINE i == k - p
    <3>1. i \in start..(first - 1) /\ i \in Nat \ {0} /\ p + i = k
      BY <1>1, <1>2, <2>3
    <3> HIDE DEF i
    <3> QED
      BY <1>3, <2>1, <3>1
  <2>7. EolAt(s, z, atEof) = 0
    BY <1>4, <2>1, <2>3
  <2>8. ASSUME NEW k \in (w + l)..(z - 1)
        PROVE  EolAt(s, k, atEof) # 0
    <3> DEFINE i == k - p
    <3>1. i \in (first + l)..(beyond - 1) /\ i \in Nat \ {0} /\ p + i = k
      BY <1>1, <2>1, <2>3
    <3> HIDE DEF i
    <3> QED
      BY <1>4, <2>1, <3>1
  <2>9. IF w - 1 - f > FrameCap THEN Verdict(s, TooMuch, atEof)
        ELSE /\ Done(s, z - 1, atEof) /\ Short(s, z - 1)
             /\ \/ Byte(s, z) = "x" \/ z = Len(s) + 1
                \/ ~atEof /\ z = Len(s) /\ Byte(s, z) = "r"
    <3>1. InFrame(s, f, a, atEof) /\ s \in Seq(Letters) /\ atEof \in BOOLEAN /\ f \in Nat
      OBVIOUS
    <3>2. a \in Nat /\ l # 0
      BY <1>2, <2>1
    <3> HIDE DEF w, z, a
    <3> QED
      BY ONLY <2>4, <2>5, <2>6, <2>7, <2>8, <3>1, <3>2, FrameEnds
  <2>10. charged + (first - start) = w - 1 - f
    BY <1>1, <1>2, <2>3
  <2>11. Byte(b, beyond) = Byte(s, z)
    BY <2>3, BufferBytes
  <2>12. CASE w - 1 - f > FrameCap
    BY <2>2, <2>9, <2>10, <2>12
  <2>13. CASE ~(w - 1 - f > FrameCap) /\ Byte(s, z) = "x"
    <3>1. Turn(frame, b, begin, since, atEof, start) = frame[beyond]
      BY <2>2, <2>10, <2>11, <2>13
    <3>2. beyond \in (start + 1)..(Len(b) + 1) /\ p + beyond - 1 = z - 1 /\ z - 1 \in Nat /\ z - 1 <= Len(s)
          /\ (z - 1) + 1 = z
      BY <1>1, <2>1, <2>3
    <3>3. InFrame(s, z - 1, z - 1, atEof)
      <4>1. Done(s, z - 1, atEof) /\ Short(s, z - 1) /\ Byte(s, (z - 1) + 1) = "x"
        BY <2>9, <2>13, <3>2
      <4> DEFINE y == z - 1
      <4>2. y \in Nat /\ y <= Len(s)
        BY <3>2
      <4>3. Done(s, y, atEof) /\ Short(s, y) /\ Byte(s, y + 1) = "x"
        BY <4>1
      <4> HIDE DEF y
      <4>4. InFrame(s, y, y, atEof)
        BY <1>1, <4>2, <4>3 DEF InFrame
      <4> QED
        BY <4>4 DEF y
    <3> QED
      BY <3>1, <3>2, <3>3
  <2>14. CASE ~(w - 1 - f > FrameCap) /\ Byte(s, z) # "x"
    <3>1. Turn(frame, b, begin, since, atEof, start) = InRun(SubSeq(b, beyond, Len(b)))
      BY <2>2, <2>10, <2>11, <2>14
    <3>2. SubSeq(b, beyond, Len(b)) = SubSeq(s, z, Len(s))
      <4>1. beyond \in 1..(Len(b) + 1)
        BY <2>1, <2>3
      <4> QED
        BY <4>1, TailOfTail
    <3>3. z \in 1..(Len(s) + 1)
      BY <1>1, <2>1, <2>3
    <3>4. Verdict(s, InRun(SubSeq(s, z, Len(s))), atEof)
      <4> HIDE DEF z, w
      <4> QED
        BY <2>9, <2>14, <3>3, RunJudged
    <3> QED
      BY <3>1, <3>2, <3>4
  <2> QED
    BY <2>12, <2>13, <2>14
<1> QED
  BY <1>5, <1>6

\* So the loop does.
LEMMA FramesJudged ==
    ASSUME NEW s \in Seq(Letters), NEW atEof \in BOOLEAN, NEW p \in 0..Len(s),
           NEW b, b = SubSeq(s, p + 1, Len(s)), NEW begin \in 1..(Len(b) + 1),
           NEW f \in Nat, InFrame(s, f, p + begin - 1, atEof)
    PROVE  Verdict(s, Frames(b, begin, p + begin - 1 - f, atEof), atEof)
<1> DEFINE since == p + begin - 1 - f
           N == Len(b) + 1
           frame == CHOOSE h : h = [start \in 1..(Len(b) + 1) |-> Turn(h, b, begin, since, atEof, start)]
           right(k) == InFrame(s, p + k - 1, p + k - 1, atEof) => Verdict(s, frame[k], atEof)
           T == {d \in Nat : \A k \in (begin + 1)..N : N - k <= d => right(k)}
<1>1. b \in Seq(Letters) /\ N \in Nat /\ p \in Nat /\ begin \in Nat /\ begin >= 1 /\ begin <= N
  OBVIOUS
<1>2. frame = [start \in 1..(Len(b) + 1) |-> Turn(frame, b, begin, since, atEof, start)]
  <2> HIDE DEF since
  <2>1. \E h : h = [start \in 1..(Len(b) + 1) |-> Turn(h, b, begin, since, atEof, start)]
    <3>1. Unrolls(b, begin, since, atEof)
      BY <1>1, FramesExist
    <3> QED
      BY <3>1 DEF Unrolls
  <2> QED
    BY <2>1
<1>3. Frames(b, begin, since, atEof) = frame[begin]
  BY FramesAre
<1> HIDE DEF frame
<1>4. \A k \in 1..N : frame[k] = Turn(frame, b, begin, since, atEof, k)
  BY <1>2
<1>5. ASSUME NEW k \in (begin + 1)..N, \A j \in (k + 1)..N : right(j)
      PROVE  right(k)
  <2> HAVE InFrame(s, p + k - 1, p + k - 1, atEof)
  <2> DEFINE y == p + k - 1
  <2>1. k \in begin..(Len(b) + 1) /\ k # begin /\ k \in 1..N /\ y \in Nat /\ p + k - 1 - y = 0
    BY <1>1
  <2>2. (IF k = begin THEN since ELSE 0) = p + k - 1 - y
    BY <2>1
  <2>3. InFrame(s, y, p + k - 1, atEof)
    OBVIOUS
  <2>4. \A j \in (k + 1)..(Len(b) + 1) :
           InFrame(s, p + j - 1, p + j - 1, atEof) => Verdict(s, frame[j], atEof)
    BY <1>5
  <2> HIDE DEF y, since, right, N, T
  <2>5. Verdict(s, Turn(frame, b, begin, since, atEof, k), atEof)
    BY <2>1, <2>2, <2>3, <2>4, TurnJudged
  <2> QED
    BY <1>4, <2>1, <2>5
<1> HIDE DEF right, N
<1>6. 0 \in T
  <2>1. ASSUME NEW k \in (begin + 1)..N, N - k <= 0
        PROVE  right(k)
    <3>1. \A j \in (k + 1)..N : right(j)
      BY <1>1, <2>1
    <3> QED
      BY <1>5, <3>1
  <2> QED
    BY <2>1
<1>7. ASSUME NEW d \in T
      PROVE  d + 1 \in T
  <2>1. d \in Nat /\ \A k \in (begin + 1)..N : N - k <= d => right(k)
    OBVIOUS
  <2>2. ASSUME NEW k \in (begin + 1)..N, N - k <= d + 1
        PROVE  right(k)
    <3>1. \A j \in (k + 1)..N : j \in (begin + 1)..N /\ N - j <= d
      BY <1>1, <2>1, <2>2
    <3>2. \A j \in (k + 1)..N : right(j)
      BY <2>1, <3>1
    <3> QED
      BY <1>5, <3>2
  <2> QED
    BY <2>1, <2>2
<1> HIDE DEF T
<1>8. T = Nat
  <2>1. T \in SUBSET Nat
    BY DEF T
  <2> QED
    BY <1>6, <1>7, <2>1, NatSets
<1>9. ASSUME NEW k \in (begin + 1)..N
      PROVE  right(k)
  <2>1. N \in T /\ N - k <= N
    BY <1>1, <1>8
  <2> QED
    BY <2>1 DEF T
<1>10. Verdict(s, Turn(frame, b, begin, since, atEof, begin), atEof)
  <2>1. \A j \in (begin + 1)..(Len(b) + 1) :
           InFrame(s, p + j - 1, p + j - 1, atEof) => Verdict(s, frame[j], atEof)
    BY <1>9 DEF right, N
  <2>2. (IF begin = begin THEN since ELSE 0) = p + begin - 1 - f /\ begin \in begin..(Len(b) + 1)
    BY <1>1 DEF N
  <2> HIDE DEF since
  <2> QED
    BY <2>1, <2>2, TurnJudged
<1> QED
  BY <1>1, <1>3, <1>4, <1>10

\* A frame that goes on behind a run of blank lines, or does not.
LEMMA FramesBehindRun ==
    ASSUME NEW s \in Seq(Letters), NEW atEof \in BOOLEAN, NEW p \in 0..Len(s),
           NEW b, b = SubSeq(s, p + 1, Len(s)), Done(s, p, atEof), Short(s, p)
    PROVE  LET begin == RunEnd(b, 1, atEof)
           IN  Verdict(s, IF Byte(b, begin) # "x" THEN InRun(SubSeq(b, begin, Len(b)))
                          ELSE Frames(b, begin, 0, atEof), atEof)
<1> DEFINE begin == RunEnd(b, 1, atEof)
           z == p + begin
<1>1. /\ Len(s) \in Nat /\ p \in Nat /\ p <= Len(s) /\ b \in Seq(Letters) /\ Len(b) = Len(s) - p
      /\ 1 \in 1..(Len(b) + 1) /\ FrameCap \in Nat
  BY SseAssumption
<1>2. /\ begin \in 1..(Len(b) + 1) /\ EolAt(b, begin, atEof) = 0
      /\ \A k \in 1..(begin - 1) : EolAt(b, k, atEof) # 0
  BY <1>1, RunEndIs
<1> HIDE DEF begin
<1>3. /\ begin \in Nat \ {0} /\ z \in (p + 1)..(Len(s) + 1) /\ z - 1 \in Nat /\ z \in 1..(Len(s) + 1)
      /\ z - 1 <= Len(s) /\ p <= z - 1 /\ (z - 1) + 1 = z
  BY <1>1, <1>2
<1>4. \A i \in Nat \ {0} : EolAt(b, i, atEof) = EolAt(s, p + i, atEof)
  BY BufferReads
<1>5. EolAt(s, z, atEof) = 0
  BY <1>2, <1>3, <1>4
<1>6. ASSUME NEW k \in (p + 1)..(z - 1)
      PROVE  EolAt(s, k, atEof) # 0
  <2> DEFINE i == k - p
  <2>1. i \in 1..(begin - 1) /\ i \in Nat \ {0} /\ p + i = k
    BY <1>1, <1>3
  <2> HIDE DEF i
  <2> QED
    BY <1>2, <1>4, <2>1
<1>7. Byte(b, begin) = Byte(s, z)
  BY <1>3, BufferBytes
<1>8. SubSeq(b, begin, Len(b)) = SubSeq(s, z, Len(s))
  BY <1>2, TailOfTail
<1> HIDE DEF z
<1>9. /\ Done(s, z - 1, atEof)
      /\ \A k \in (p + 1)..(z - 1) : ~Plain(s, k)
      /\ \/ Byte(s, z) = "x" \/ z = Len(s) + 1
         \/ ~atEof /\ z = Len(s) /\ Byte(s, z) = "r"
  BY <1>3, <1>5, <1>6, RunIs
<1>10. Short(s, z - 1)
  <2>1. p <= p /\ p - p <= FrameCap
    BY <1>1
  <2> QED
    BY <1>1, <1>3, <1>9, <2>1, ShortOn
<1>11. CASE Byte(s, z) # "x"
  <2>1. Verdict(s, InRun(SubSeq(s, z, Len(s))), atEof)
    BY <1>3, <1>9, <1>10, <1>11, RunJudged
  <2> QED
    BY <1>7, <1>8, <1>11, <2>1 DEF begin
<1>12. CASE Byte(s, z) = "x"
  <2> DEFINE f == p + begin - 1
  <2>1. f = z - 1 /\ f \in Nat /\ f <= Len(s) /\ f + 1 = z /\ p + begin - 1 - f = 0
    BY <1>1, <1>3 DEF z
  <2> HIDE DEF f
  <2>2. Done(s, f, atEof) /\ Short(s, f) /\ Byte(s, f + 1) = "x"
    BY <1>9, <1>10, <1>12, <2>1
  <2>3. InFrame(s, f, f, atEof)
    BY <1>1, <2>1, <2>2 DEF InFrame
  <2>4. InFrame(s, f, p + begin - 1, atEof)
    BY <2>3 DEF f
  <2>5. Verdict(s, Frames(b, begin, p + begin - 1 - f, atEof), atEof)
    BY <1>2, <2>1, <2>4, FramesJudged
  <2>6. Verdict(s, Frames(b, begin, 0, atEof), atEof)
    BY <2>1, <2>5
  <2> QED
    BY <1>7, <1>12, <2>6 DEF begin
<1> QED
  BY <1>11, <1>12

\* A frame that is under way when more arrives.
LEMMA FrameStays ==
    ASSUME NEW s \in Seq(Letters), NEW more \in Seq(Letters), NEW atEof \in BOOLEAN,
           NEW f \in Nat, NEW q \in Nat, f < q, InFrame(s, f, q, FALSE)
    PROVE  InFrame(s \o more, f, q, atEof)
<1> DEFINE u == s \o more
<1>1. u \in Seq(Letters) /\ Len(u) = Len(s) + Len(more) /\ Len(s) \in Nat /\ Len(more) \in Nat
  BY ByteStays
<1>2. \A i \in Int : i <= Len(s) => Byte(u, i) = Byte(s, i)
  BY ByteStays
<1>3. /\ f \in 0..q /\ q <= Len(s) /\ Done(s, f, FALSE) /\ Byte(s, f + 1) = "x" /\ Short(s, f)
      /\ q - f <= FrameCap /\ Byte(s, q) = "x" /\ \A k \in (f + 1)..q : Plain(s, k)
  BY DEF InFrame
<1>4. Done(u, f, atEof)
  BY <1>3, DoneStays
<1>5. Short(u, f)
  <2>1. f <= Len(s)
    BY <1>1, <1>3
  <2> QED
    BY <1>3, <2>1, ShortStays
<1>6. \A k \in (f + 1)..q : Plain(u, k)
  <2>1. \A k \in 1..q : Plain(u, k) <=> Plain(s, k)
    BY <1>3, PlainStays
  <2> QED
    BY <1>3, <2>1
<1>7. Byte(u, q) = "x" /\ Byte(u, f + 1) = "x" /\ q <= Len(u)
  BY <1>1, <1>2, <1>3
<1> HIDE DEF u
<1>8. InFrame(u, f, q, atEof)
  BY <1>3, <1>4, <1>5, <1>6, <1>7 DEF InFrame
<1> QED
  BY <1>8 DEF u

\* A chunk is judged as what it adds to the answer.
LEMMA ScanJudged ==
    ASSUME NEW s \in Seq(Letters), NEW chunk \in Seq(Letters), NEW atEof \in BOOLEAN,
           NEW g, NEW q \in 0..Len(s), Kept(s, g, q)
    PROVE  Verdict(s \o chunk, Scan(g, chunk, atEof), atEof)
<1> DEFINE u == s \o chunk
           b == g.carry \o chunk
<1>1. u \in Seq(Letters) /\ Len(u) = Len(s) + Len(chunk) /\ Len(s) \in Nat /\ Len(chunk) \in Nat
  BY ByteStays
<1>2. q \in Nat /\ q <= Len(s) /\ q \in 0..Len(u)
  BY <1>1
<1>3. g.carry = SubSeq(s, q + 1, Len(s)) /\ g.inRun \in BOOLEAN
  BY DEF Kept
<1>4. b = SubSeq(u, q + 1, Len(u))
  <2> DEFINE c == SubSeq(s, q + 1, Len(s))
             t == SubSeq(u, q + 1, Len(u))
  <2>1. c \in Seq(Letters) /\ Len(c) = Len(s) - q /\ \A i \in 1..(Len(s) - q) : c[i] = s[q + i]
    BY <1>2
  <2>2. t \in Seq(Letters) /\ Len(t) = Len(u) - q /\ \A i \in 1..(Len(u) - q) : t[i] = u[q + i]
    <3> HIDE DEF u
    <3> QED
      BY <1>1, <1>2, TailReads
  <2> HIDE DEF c, t
  <2>3. /\ c \o chunk \in Seq(Letters) /\ Len(c \o chunk) = Len(c) + Len(chunk)
        /\ \A i \in 1..Len(c) + Len(chunk) :
              (c \o chunk)[i] = IF i <= Len(c) THEN c[i] ELSE chunk[i - Len(c)]
    BY <2>1, ConcatProperties
  <2>4. \A i \in 1..Len(s) + Len(chunk) : u[i] = IF i <= Len(s) THEN s[i] ELSE chunk[i - Len(s)]
    BY ConcatProperties
  <2> DEFINE v == c \o chunk
  <2>5. v \in Seq(Letters) /\ Len(v) = Len(t)
    BY <1>1, <1>2, <2>1, <2>2, <2>3
  <2>6. ASSUME NEW i \in 1..Len(v)
        PROVE  v[i] = t[i]
    <3>1. i \in 1..(Len(u) - q) /\ q + i \in 1..Len(s) + Len(chunk) /\ i \in 1..Len(c) + Len(chunk)
      BY <1>1, <1>2, <2>1, <2>2, <2>5
    <3>2. t[i] = u[q + i]
      BY <2>2, <3>1
    <3>3. CASE i <= Len(c)
      <4>1. q + i <= Len(s) /\ i \in 1..(Len(s) - q)
        BY <1>2, <2>1, <3>1, <3>3
      <4> QED
        BY <2>1, <2>3, <2>4, <3>1, <3>2, <3>3, <4>1
    <3>4. CASE ~(i <= Len(c))
      <4>1. ~(q + i <= Len(s)) /\ q + i - Len(s) = i - Len(c)
        BY <1>2, <2>1, <3>1, <3>4
      <4> QED
        BY <2>3, <2>4, <3>1, <3>2, <3>4, <4>1
    <3> QED
      BY <3>3, <3>4
  <2> HIDE DEF v
  <2>7. v = t
    BY ONLY <2>2, <2>5, <2>6, SeqEqual
  <2>8. b = v
    BY <1>3 DEF c, v
  <2> QED
    BY <2>7, <2>8 DEF t
<1>5. Scan(g, chunk, atEof) =
         IF g.inRun /\ Byte(b, IF g.inRun THEN RunEnd(b, 1, atEof) ELSE 1) # "x"
         THEN InRun(SubSeq(b, IF g.inRun THEN RunEnd(b, 1, atEof) ELSE 1, Len(b)))
         ELSE Frames(b, IF g.inRun THEN RunEnd(b, 1, atEof) ELSE 1, g.since, atEof)
  BY DEF Scan
<1>6. CASE g.inRun
  <2>1. g.since = 0 /\ Done(s, q, FALSE) /\ Short(s, q)
    BY <1>6 DEF Kept
  <2>2. Done(u, q, atEof) /\ Short(u, q)
    BY <1>2, <2>1, DoneStays, ShortStays
  <2>3. Scan(g, chunk, atEof) =
           IF Byte(b, RunEnd(b, 1, atEof)) # "x" THEN InRun(SubSeq(b, RunEnd(b, 1, atEof), Len(b)))
           ELSE Frames(b, RunEnd(b, 1, atEof), 0, atEof)
    BY <1>5, <1>6, <2>1
  <2> HIDE DEF u, b
  <2>4. Verdict(u, IF Byte(b, RunEnd(b, 1, atEof)) # "x" THEN InRun(SubSeq(b, RunEnd(b, 1, atEof), Len(b)))
                   ELSE Frames(b, RunEnd(b, 1, atEof), 0, atEof), atEof)
    BY <1>1, <1>2, <1>4, <2>2, FramesBehindRun
  <2>5. Verdict(u, Scan(g, chunk, atEof), atEof)
    BY <2>3, <2>4
  <2> QED
    BY <2>5 DEF u
<1>7. CASE ~g.inRun
  <2>1. PICK f \in 0..(q - 1) : InFrame(s, f, q, FALSE) /\ g.since = q - f
    BY <1>7 DEF Kept
  <2>2. f \in Nat /\ f < q
    BY <1>2
  <2>3. InFrame(u, f, q, atEof)
    BY <1>2, <2>1, <2>2, FrameStays
  <2>4. Scan(g, chunk, atEof) = Frames(b, 1, g.since, atEof)
    BY <1>3, <1>5, <1>7
  <2> HIDE DEF u, b
  <2>5. 1 \in 1..(Len(b) + 1) /\ q + 1 - 1 = q
    BY <1>1, <1>2, <1>4
  <2>6. Verdict(u, Frames(b, 1, q + 1 - 1 - f, atEof), atEof)
    <3>1. InFrame(u, f, q + 1 - 1, atEof)
      BY <2>3, <2>5
    <3> QED
      BY <1>1, <1>2, <1>4, <2>2, <2>5, <3>1, FramesJudged
  <2>7. Verdict(u, Scan(g, chunk, atEof), atEof)
    BY <2>1, <2>4, <2>5, <2>6
  <2> QED
    BY <2>7 DEF u
<1> QED
  BY <1>3, <1>6, <1>7

\* A chunk is a sequence of bytes.
LEMMA ChunkIs ==
    ASSUME NEW n \in Nat, NEW word \in AtMost(n)
    PROVE  word \in Seq(Letters)
<1>1. PICK k \in 0..n : word \in [1..k -> Letters]
  BY DEF AtMost, Letters
<1> QED
  BY <1>1

\* What dooms an answer dooms every longer one.
LEMMA DoomedStays ==
    ASSUME NEW s \in Seq(Letters), NEW more \in Seq(Letters), Doomed(s)
    PROVE  TooLong(s \o more, FrameCap)
<1>1. PICK i \in 1..Len(s) : \E q \in 1..Len(s) :
          /\ i + FrameCap <= q /\ Byte(s, q) = "x"
          /\ \A k \in i..(i + FrameCap) : Plain(s, k)
  BY DEF Doomed
<1>2. PICK q \in 1..Len(s) :
          /\ i + FrameCap <= q /\ Byte(s, q) = "x"
          /\ \A k \in i..(i + FrameCap) : Plain(s, k)
  BY <1>1
<1>3. s \o more \in Seq(Letters) /\ Len(s \o more) = Len(s) + Len(more)
      /\ Len(s) \in Nat /\ Len(more) \in Nat /\ FrameCap \in Nat
  BY ByteStays, SseAssumption
<1>4. \A k \in 1..q : Plain(s \o more, k) <=> Plain(s, k)
  <2>1. q \in Nat /\ q <= Len(s)
    BY <1>3
  <2> QED
    BY <1>2, <2>1, PlainStays
<1>5. \A k \in i..(i + FrameCap) : Plain(s \o more, k)
  BY <1>2, <1>3, <1>4
<1>6. i \in 1..(Len(s \o more) - FrameCap)
  BY <1>2, <1>3
<1> QED
  BY <1>3, <1>5, <1>6, TooLongIs

\* An answer that is kept may end well.
LEMMA KeptMayEndWell ==
    ASSUME NEW s \in Seq(Letters), NEW g, NEW q \in 0..Len(s), Kept(s, g, q)
    PROVE  \E more \in Continuations : ~TooLong(s \o more, FrameCap)
<1>1. Len(s) \in Nat /\ q \in Nat /\ q <= Len(s) /\ FrameCap \in Nat /\ g.inRun \in BOOLEAN
  BY SseAssumption DEF Kept
<1>2. \A more \in Continuations : more \in Seq(Letters)
  BY ChunkIs DEF Continuations
<1>3. CASE g.inRun
  <2>1. /\ Done(s, q, FALSE) /\ Short(s, q)
        /\ q = Len(s) \/ (q + 1 = Len(s) /\ Byte(s, q + 1) = "r")
    BY <1>3 DEF Kept
  <2>2. Byte(s, q) # "x"
    <3>1. Byte(s, 0) = "none"
      BY <1>1, ByteIs
    <3> QED
      BY <2>1, <3>1 DEF Done, Eol
  <2>3. ASSUME NEW k \in (q + 1)..Len(s)
        PROVE  ~Plain(s, k)
    <3>1. k = q + 1 /\ Byte(s, k) = "r" /\ k - 1 = q
      BY <1>1, <2>1
    <3> QED
      BY <2>2, <3>1 DEF Plain, Lone
  <2>4. Short(s, Len(s))
    <3>1. q <= q /\ q - q <= FrameCap
      BY <1>1
    <3> QED
      BY <1>1, <2>1, <2>3, <3>1, ShortOn
  <2>5. <<>> \in Continuations
    BY DEF Continuations, AtMost
  <2>6. s \o <<>> = s
    OBVIOUS
  <2>7. ~TooLong(s \o <<>>, FrameCap)
    BY <2>4, <2>6, ShortIs
  <2> QED
    BY <2>5, <2>7
<1>4. CASE ~g.inRun
  <2>1. PICK f \in 0..(q - 1) : InFrame(s, f, q, FALSE)
    BY <1>4 DEF Kept
  <2>2. Held(s, q)
    BY <1>4 DEF Kept
  <2>3. PICK more \in Continuations : \A k \in (q + 1)..(Len(s) + Len(more)) : ~Plain(s \o more, k)
    BY <2>2 DEF Held
  <2> DEFINE u == s \o more
  <2>4. more \in Seq(Letters)
    BY <1>2
  <2>5. u \in Seq(Letters) /\ Len(u) = Len(s) + Len(more) /\ Len(more) \in Nat
    BY <2>4, ByteStays
  <2>6. f \in Nat /\ f < q
    BY <1>1
  <2>7. InFrame(u, f, q, FALSE)
    BY <1>1, <2>1, <2>4, <2>6, FrameStays
  <2>8. Done(u, f, FALSE) /\ Short(u, f) /\ q - f <= FrameCap
    BY <2>7 DEF InFrame
  <2>9. \A k \in (q + 1)..Len(u) : ~Plain(u, k)
    BY <2>3, <2>5
  <2> HIDE DEF u
  <2>10. Short(u, Len(u))
    <3>1. f <= q /\ q <= Len(u) /\ Len(u) \in Nat
      BY <1>1, <2>5, <2>6
    <3> QED
      BY <1>1, <2>5, <2>6, <2>8, <2>9, <3>1, ShortOn
  <2>11. ~TooLong(u, FrameCap)
    BY <2>5, <2>10, ShortIs
  <2> QED
    BY <2>11 DEF u
<1> QED
  BY <1>1, <1>3, <1>4

\* The parser is handed no more of a frame than the cap and three bytes.
LEMMA KeptIsShort ==
    ASSUME NEW s \in Seq(Letters), NEW g, NEW q \in 0..Len(s), Kept(s, g, q)
    PROVE  ~TooLong(s, FrameCap + 3)
<1>1. /\ Len(s) \in Nat /\ q \in Nat /\ q <= Len(s) /\ Len(s) - q <= 3
      /\ FrameCap \in Nat /\ FrameCap + 3 \in Nat
      /\ g.inRun \in BOOLEAN
  BY SseAssumption DEF Kept
<1>2. Short(s, q)
  <2>1. CASE g.inRun
    BY <2>1 DEF Kept
  <2>2. CASE ~g.inRun
    <3>1. PICK f \in 0..(q - 1) : InFrame(s, f, q, FALSE)
      BY <2>2 DEF Kept
    <3>2. f \in Nat /\ f <= q
      BY <1>1
    <3>4. Done(s, f, FALSE) /\ Short(s, f) /\ q - f <= FrameCap
      BY <3>1 DEF InFrame
    <3>3. q <= q /\ \A k \in (q + 1)..q : ~Plain(s, k)
      BY <1>1
    <3> QED
      BY <1>1, <3>2, <3>3, <3>4, ShortOn
  <2> QED
    BY <1>1, <2>1, <2>2
<1>3. ASSUME NEW i \in 1..(Len(s) - (FrameCap + 3)), \A k \in i..(i + (FrameCap + 3)) : Plain(s, k)
      PROVE  FALSE
  <2>1. i \in 1..(q - FrameCap) /\ \A k \in i..(i + FrameCap) : k \in i..(i + (FrameCap + 3))
    BY <1>1
  <2> QED
    BY <1>2, <1>3, <2>1 DEF Short
<1> QED
  BY <1>1, <1>3, TooLongIs

\* The guard's verdict is the one a look at the whole answer gives, however it
\* is cut into chunks (SseFrameGuard of sse_guard/mod.rs).
THEOREM VerdictHolds == SseSpec => []VerdictIsTheAnswers
<1>1. SseInit => SseInv
  <2> SUFFICES ASSUME SseInit
               PROVE  SseInv
    OBVIOUS
  <2>1. arrived = <<>> /\ guard = NewGuard /\ passed = 0 /\ ended = "no" /\ FrameCap \in Nat
    BY SseAssumption DEF SseInit
  <2>2. /\ NewGuard.since = 0 /\ NewGuard.carry = <<>> /\ NewGuard.inRun = TRUE /\ NewGuard.over = FALSE
    BY DEF NewGuard
  <2>3. <<>> \in Seq(Letters) /\ Len(<<>>) = 0 /\ SubSeq(<<>>, 1, 0) = <<>>
    OBVIOUS
  <2>4. Kept(<<>>, NewGuard, 0)
    <3>1. Done(<<>>, 0, FALSE) /\ Short(<<>>, 0)
      BY <2>1 DEF Done, Short
    <3>2. SubSeq(<<>>, 0 + 1, Len(<<>>)) = <<>>
      OBVIOUS
    <3>3. 0 \in 0..Len(<<>>) /\ Len(<<>>) - 0 <= 3 /\ 0 = Len(<<>>)
      BY <2>3
    <3>4. NewGuard.carry = SubSeq(<<>>, 0 + 1, Len(<<>>))
      BY <2>2, <3>2
    <3> QED
      BY ONLY <2>2, <3>1, <3>3, <3>4 DEF Kept
  <2>5. Judged(<<>>, NewGuard, FALSE)
    BY <2>2, <2>3, <2>4 DEF Judged
  <2>6. ~TooLong(<<>>, FrameCap + 3)
    BY <2>1, <2>3 DEF TooLong
  <2> QED
    <3>1. arrived \in Seq(Letters) /\ passed \in 0..Len(arrived) /\ passed = Len(arrived)
      BY <2>1, <2>3
    <3>2. guard.over \in BOOLEAN /\ Judged(arrived, guard, FALSE)
      BY <2>1, <2>2, <2>5
    <3>3. ~TooLong(SubSeq(arrived, 1, passed), FrameCap + 3)
      BY <2>1, <2>3, <2>6
    <3>4. ended # "eof"
      BY <2>1
    <3> QED
      BY ONLY <3>1, <3>2, <3>3, <3>4 DEF SseInv
<1>2. SseInv /\ [SseNext]_sseVars => SseInv'
  <2> SUFFICES ASSUME SseInv, [SseNext]_sseVars
               PROVE  SseInv'
    OBVIOUS
  <2>1. /\ arrived \in Seq(Letters) /\ passed \in 0..Len(arrived)
        /\ guard.over \in BOOLEAN /\ Len(arrived) \in Nat
    BY DEF SseInv
  <2>2. ASSUME ended = "no", ~guard.over, NEW chunk \in Seq(Letters), NEW atEof \in BOOLEAN
        PROVE  Verdict(arrived \o chunk, Scan(guard, chunk, atEof), atEof)
    <3>1. PICK q \in 0..Len(arrived) : Kept(arrived, guard, q)
      BY <2>2 DEF SseInv, Judged
    <3> QED
      BY <2>1, <3>1, ScanJudged
  <2>3. ASSUME NEW chunk \in Chunks, ChunkArrives(chunk)
        PROVE  SseInv'
    <3> DEFINE u == arrived \o chunk
               h == Scan(guard, chunk, FALSE)
    <3>1. chunk \in Seq(Letters)
      BY SseAssumption, ChunkIs DEF Chunks
    <3>2. ended = "no" /\ ~guard.over /\ arrived' = u /\ guard' = h
          /\ passed' = (IF h.over THEN passed ELSE Len(u)) /\ ended' = "no"
      BY <2>3 DEF ChunkArrives
    <3>3. h.over \in BOOLEAN /\ Judged(u, h, FALSE)
      BY <2>2, <3>1, <3>2 DEF Verdict
    <3>4. u \in Seq(Letters) /\ Len(u) = Len(arrived) + Len(chunk) /\ Len(chunk) \in Nat
      BY <2>1, <3>1, ByteStays
    <3>5. passed = Len(arrived) /\ ~TooLong(SubSeq(arrived, 1, passed), FrameCap + 3)
      BY <3>2 DEF SseInv
    <3>6. CASE h.over
      <4>1. SubSeq(u, 1, passed) = arrived
        <5>1. SubSeq(arrived \o chunk, 1, Len(arrived)) = arrived
          BY <2>1, <3>1
        <5> QED
          BY <3>5, <5>1
      <4>2. SubSeq(arrived, 1, passed) = arrived
        BY <2>1, <3>5
      <4> HIDE DEF u, h
      <4>3. ~TooLong(SubSeq(u, 1, passed), FrameCap + 3)
        BY <3>5, <4>1, <4>2
      <4>4. arrived' \in Seq(Letters) /\ passed' \in 0..Len(arrived')
        BY <2>1, <3>2, <3>4, <3>6
      <4>5. guard'.over /\ guard'.over \in BOOLEAN /\ Judged(arrived', guard', FALSE) /\ ended' # "eof"
        BY <3>2, <3>3, <3>6
      <4>6. ~TooLong(SubSeq(arrived', 1, passed'), FrameCap + 3)
        BY <3>2, <3>6, <4>3
      <4> QED
        BY ONLY <4>4, <4>5, <4>6 DEF SseInv
    <3>7. CASE ~h.over
      <4> HIDE DEF u, h
      <4>1. SubSeq(u, 1, Len(u)) = u
        BY <3>4
      <4>2. PICK q \in 0..Len(u) : Kept(u, h, q)
        BY <3>3, <3>7 DEF Judged
      <4>3. ~TooLong(u, FrameCap + 3)
        BY <3>4, <4>2, KeptIsShort
      <4>4. Len(u) \in 0..Len(u)
        BY <2>1, <3>4
      <4> QED
        BY <3>2, <3>3, <3>4, <3>7, <4>1, <4>3, <4>4 DEF SseInv
    <3> QED
      BY <3>3, <3>6, <3>7
  <2>4. CASE UpstreamEnds
    <3> DEFINE h == Scan(guard, <<>>, TRUE)
    <3>1. /\ ended = "no" /\ ~guard.over
          /\ ended' = "eof" /\ guard' = h /\ arrived' = arrived /\ passed' = passed
      BY <2>4 DEF UpstreamEnds
    <3>2. <<>> \in Seq(Letters) /\ arrived \o <<>> = arrived
      BY <2>1
    <3>3. h.over \in BOOLEAN /\ Judged(arrived, h, TRUE)
      BY <2>2, <3>1, <3>2 DEF Verdict
    <3> HIDE DEF h
    <3> QED
      BY <2>1, <3>1, <3>3 DEF SseInv
  <2>5. CASE ReadFails
    BY <2>5 DEF ReadFails, SseInv
  <2>6. CASE UNCHANGED sseVars
    BY <2>6 DEF sseVars, SseInv
  <2> QED
    BY <2>3, <2>4, <2>5, <2>6 DEF SseNext, ReadingIsOver
<1>3. SseInv => VerdictIsTheAnswers
  <2> SUFFICES ASSUME SseInv
               PROVE  VerdictIsTheAnswers
    OBVIOUS
  <2>1. arrived \in Seq(Letters) /\ guard.over \in BOOLEAN
    BY DEF SseInv
  <2>2. ended = "eof" => (guard.over <=> TooLong(arrived, FrameCap))
    BY <2>1, ShortIs DEF SseInv, Judged
  <2>3. ASSUME ended = "no"
        PROVE  guard.over <=> \A more \in Continuations : TooLong(arrived \o more, FrameCap)
    <3>1. Judged(arrived, guard, FALSE)
      BY <2>3 DEF SseInv
    <3>2. CASE guard.over
      <4>1. Doomed(arrived)
        BY <3>1, <3>2 DEF Judged
      <4>2. ASSUME NEW more \in Continuations
            PROVE  TooLong(arrived \o more, FrameCap)
        <5>1. more \in Seq(Letters)
          BY ChunkIs DEF Continuations
        <5> QED
          BY <2>1, <4>1, <5>1, DoomedStays
      <4> QED
        BY <3>2, <4>2
    <3>3. CASE ~guard.over
      <4>1. PICK q \in 0..Len(arrived) : Kept(arrived, guard, q)
        BY <3>1, <3>3 DEF Judged
      <4>2. \E more \in Continuations : ~TooLong(arrived \o more, FrameCap)
        BY <2>1, <4>1, KeptMayEndWell
      <4> QED
        BY <3>3, <4>2
    <3> QED
      BY <2>1, <3>2, <3>3
  <2>4. ~TooLong(SubSeq(arrived, 1, passed), FrameCap + 3)
    BY DEF SseInv
  <2> QED
    BY <2>2, <2>3, <2>4 DEF VerdictIsTheAnswers
<1> QED
  BY <1>1, <1>2, <1>3, PTL DEF SseSpec
=============================================================================
