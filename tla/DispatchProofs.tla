--------------------------- MODULE DispatchProofs ---------------------------
(***************************************************************************)
(* Proofs about a request's way to an upstream: about Failover and its     *)
(* providers' health, for every chain, cooldown and set of requests, and   *)
(* about ModelRouting, for any upstreams, chains, routes, names and        *)
(* requests: the two ladders lead to the same target, and who serves was   *)
(* judged.                                                                 *)
(***************************************************************************)
EXTENDS ProviderHealth, ModelRouting, PicksProofs

-----------------------------------------------------------------------------
(* Failover. *)

\* Where the control state of a request leaves its other variables: an attempt
\* has a provider and a round, only chats stream and only proxies proxy, and
\* only some errors are marked.
Located ==
    \A f \in Request :
        /\ pc[f] = "ready" => round[f] < MaxRounds
        /\ pc[f] \notin {"ready", "cancelled", "failed"} => round[f] >= 1
        /\ pc[f] \in {"sent", "retry", "prefetch", "streaming", "breaking"} =>
               f \in Chats
        /\ pc[f] = "proxying" => f \in Proxies
        /\ pc[f] \in {"sent", "retry", "prefetch", "streaming", "proxying",
                      "failing", "breaking"} =>
               cur[f] \in Provider
        /\ pc[f] = "failing" => err[f] \in {SendError, HttpErr} \cup StreamFaults

TypeInv == TypeOK /\ Located

-----------------------------------------------------------------------------
(* The parts of a step.                                                    *)

LEMMA ErrorTypes ==
    /\ NoError \in Errors \cup {NoError}
    /\ SendError \in Errors /\ HttpErr \in Errors
    /\ RejectedErr \in Errors /\ OverflowErr \in Errors
    /\ StreamFaults \subseteq Errors
  BY DEF Errors

LEMMA PoolUnchanged == ASSUME PoolOK, UNCHANGED pool PROVE PoolOK'
  BY DEF PoolOK, pool

LEMMA TokenUnchanged == ASSUME TokenOK, UNCHANGED token PROVE TokenOK'
  BY DEF TokenOK, token

LEMMA MarkFailureTypes ==
  ASSUME PoolOK, NEW p \in Provider, NEW d \in 0..Cooldown, MarkFailure(p, d)
  PROVE  PoolOK'
  <1>1. window' \in [Provider -> 0..Cooldown]
    BY DEF PoolOK, MarkFailure, Penalize
  <1>2. lastError' \in [Provider -> BOOLEAN]
    BY DEF PoolOK, MarkFailure, Penalize
  <1>3. served' \in [Provider -> Nat]
    BY DEF PoolOK, MarkFailure, Penalize
  <1>4. failovers' \in [Provider -> Nat]
    BY DEF PoolOK, MarkFailure, Penalize
  <1>5. streak' \in [Provider -> Nat]
    BY DEF PoolOK, MarkFailure, Penalize
  <1>6. QED
    BY <1>1, <1>2, <1>3, <1>4, <1>5 DEF PoolOK

LEMMA MarkSuccessTypes ==
  ASSUME PoolOK, NEW p \in Provider, MarkSuccess(p)
  PROVE  PoolOK'
  <1>1. window' \in [Provider -> 0..Cooldown]
    BY FailoverAssumption DEF PoolOK, MarkSuccess, Succeed
  <1>2. lastError' \in [Provider -> BOOLEAN]
    BY DEF PoolOK, MarkSuccess, Succeed
  <1>3. served' \in [Provider -> Nat]
    BY DEF PoolOK, MarkSuccess, Succeed
  <1>4. failovers' \in [Provider -> Nat]
    BY DEF PoolOK, MarkSuccess, Succeed
  <1>5. streak' \in [Provider -> Nat]
    BY DEF PoolOK, MarkSuccess, Succeed
  <1>6. QED
    BY <1>1, <1>2, <1>3, <1>4, <1>5 DEF PoolOK

\* Recording an attempt of a located request appends a well-typed entry.
LEMMA RecordTypes ==
  ASSUME TypeInv, NEW f \in Chats, NEW e \in Errors \cup {NoError},
         NEW h \in BOOLEAN, Record(f, e, h),
         pc[f] \in {"sent", "retry", "prefetch", "failing"}
  PROVE  attempts' \in [Chats -> Seq(Attempt)]
  <1>1. cur[f] \in Provider /\ round[f] \in 1..MaxRounds
    BY FailoverAssumption DEF TypeInv, TypeOK, TaskOK, Located, Request
  <1> DEFINE a == [round |-> round[f], provider |-> cur[f],
                   error |-> e, headers |-> h]
  <1>2. a \in Attempt
    BY <1>1 DEF Attempt
  <1>3. attempts \in [Chats -> Seq(Attempt)]
    BY DEF TypeInv, TypeOK, TokenOK
  <1>4. Append(attempts[f], a) \in Seq(Attempt)
    BY <1>2, <1>3
  <1>5. attempts' = [attempts EXCEPT ![f] = Append(@, a)]
    BY DEF Record
  <1> HIDE DEF a
  <1>6. QED
    BY <1>3, <1>4, <1>5

-----------------------------------------------------------------------------
(* Types.                                                                  *)

LEMMA TypeInvInit == ASSUME Init PROVE TypeInv
  <1>1. PoolOK
    BY FailoverAssumption DEF Init, PoolOK
  <1>2. TaskOK
    BY FailoverAssumption DEF Init, TaskOK, PCs, Awaiting
  <1>3. TokenOK
    BY FailoverAssumption DEF Init, TokenOK
  <1>4. Located
    BY FailoverAssumption DEF Init, Located
  <1>5. QED
    BY <1>1, <1>2, <1>3, <1>4 DEF TypeInv, TypeOK

LEMMA TypeInvNext == ASSUME TypeInv, Next PROVE TypeInv'
  <1> USE FailoverAssumption
      DEF PCs, Awaiting, Finished, GoTo, pool, token, Request
  <1>0. PoolOK /\ TaskOK /\ TokenOK /\ Located
    BY DEF TypeInv, TypeOK
  <1>1. ASSUME NEW f \in Request, NEW scope \in Scopes, BeginRound(f, scope)
        PROVE  TypeInv'
    <2>1. PoolOK'
      BY <1>0, <1>1, PoolUnchanged DEF BeginRound
    <2>2. TaskOK' /\ Located'
      BY <1>0, <1>1 DEF BeginRound, TaskOK, Located, Scopes
    <2>3. TokenOK'
      BY <1>0, <1>1, TokenUnchanged DEF BeginRound
    <2>4. QED
      BY <2>1, <2>2, <2>3 DEF TypeInv, TypeOK
  <1>2. ASSUME NEW f \in Request, NEW scope \in Scopes, AllCooling(f, scope)
        PROVE  TypeInv'
    <2>1. PoolOK'
      BY <1>0, <1>2, PoolUnchanged DEF AllCooling
    <2>2. TaskOK' /\ Located'
      BY <1>0, <1>2 DEF AllCooling, TaskOK, Located
    <2>3. TokenOK'
      BY <1>0, <1>2, TokenUnchanged DEF AllCooling
    <2>4. QED
      BY <2>1, <2>2, <2>3 DEF TypeInv, TypeOK
  <1>3. ASSUME NEW f \in Request, ProvidersExhausted(f)
        PROVE  TypeInv'
    <2>1. PoolOK'
      BY <1>0, <1>3, PoolUnchanged DEF ProvidersExhausted
    <2>2. TaskOK' /\ Located'
      BY <1>0, <1>3 DEF ProvidersExhausted, TaskOK, Located
    <2>3. TokenOK'
      BY <1>0, <1>3, TokenUnchanged DEF ProvidersExhausted
    <2>4. QED
      BY <2>1, <2>2, <2>3 DEF TypeInv, TypeOK
  <1>4. ASSUME NEW f \in Request, Cancel(f)
        PROVE  TypeInv'
    <2>1. PoolOK'
      BY <1>0, <1>4, PoolUnchanged DEF Cancel
    <2>2. TaskOK' /\ Located'
      BY <1>0, <1>4 DEF Cancel, TaskOK, Located
    <2>3. TokenOK'
      BY <1>0, <1>4, TokenUnchanged DEF Cancel
    <2>4. QED
      BY <2>1, <2>2, <2>3 DEF TypeInv, TypeOK
  <1>5. ASSUME NEW f \in Chats, NEW p \in Provider, Dispatch(f, p)
        PROVE  TypeInv'
    <2>1. PoolOK'
      BY <1>0, <1>5, PoolUnchanged DEF Dispatch, Send, TakeNext
    <2>2. TaskOK' /\ Located'
      BY <1>0, <1>5 DEF Dispatch, Send, TakeNext, TaskOK, Located, Provider
    <2>3. TokenOK'
      BY <1>0, <1>5 DEF Dispatch, Send, TakeNext, TokenOK, Provider
    <2>4. QED
      BY <2>1, <2>2, <2>3 DEF TypeInv, TypeOK
  <1>6. ASSUME NEW f \in Proxies, NEW p \in Provider, DispatchProxy(f, p)
        PROVE  TypeInv'
    <2>1. PoolOK'
      BY <1>0, <1>6, PoolUnchanged DEF DispatchProxy, TakeNext
    <2>2. TaskOK' /\ Located'
      BY <1>0, <1>6 DEF DispatchProxy, TakeNext, TaskOK, Located, Provider
    <2>3. TokenOK'
      BY <1>0, <1>6, TokenUnchanged DEF DispatchProxy, TakeNext
    <2>4. QED
      BY <2>1, <2>2, <2>3 DEF TypeInv, TypeOK
  <1>7. ASSUME NEW f \in Chats, SendFails(f)
        PROVE  TypeInv'
    <2>1. PoolOK'
      BY <1>0, <1>7, PoolUnchanged DEF SendFails, Fail
    <2>2. TaskOK' /\ Located'
      BY <1>0, <1>7, ErrorTypes DEF SendFails, Fail, TaskOK, Located
    <2>3. TokenOK'
      BY <1>0, <1>7, TokenUnchanged DEF SendFails, Fail
    <2>4. QED
      BY <2>1, <2>2, <2>3 DEF TypeInv, TypeOK
  <1>8. ASSUME NEW f \in Chats, HeadersSucceed(f)
        PROVE  TypeInv'
    <2>1. PoolOK'
      BY <1>0, <1>8, PoolUnchanged DEF HeadersSucceed
    <2>2. TaskOK' /\ Located'
      BY <1>0, <1>8 DEF HeadersSucceed, TaskOK, Located
    <2>3. TokenOK'
      BY <1>0, <1>8 DEF HeadersSucceed, TokenOK
    <2>4. QED
      BY <2>1, <2>2, <2>3 DEF TypeInv, TypeOK
  <1>9. ASSUME NEW f \in Chats, ContextOverflow(f)
        PROVE  TypeInv'
    <2>1. PoolOK'
      BY <1>0, <1>9, PoolUnchanged DEF ContextOverflow
    <2>2. TaskOK' /\ Located'
      BY <1>0, <1>9 DEF ContextOverflow, TaskOK, Located
    <2>3. TokenOK'
      BY <1>0, <1>9 DEF ContextOverflow, TokenOK
    <2>4. QED
      BY <2>1, <2>2, <2>3 DEF TypeInv, TypeOK
  <1>10. ASSUME NEW f \in Chats, HttpFails(f)
        PROVE  TypeInv'
    <2>1. PoolOK'
      BY <1>0, <1>10, PoolUnchanged DEF HttpFails, Fail
    <2>2. TaskOK' /\ Located'
      BY <1>0, <1>10, ErrorTypes DEF HttpFails, Fail, TaskOK, Located
    <2>3. TokenOK'
      BY <1>0, <1>10 DEF HttpFails, Fail, TokenOK
    <2>4. QED
      BY <2>1, <2>2, <2>3 DEF TypeInv, TypeOK
  <1>11. ASSUME NEW f \in Chats, RequestRejected(f)
        PROVE  TypeInv'
    <2>1. PoolOK'
      BY <1>0, <1>11, PoolUnchanged DEF RequestRejected, Turned
    <2>2. TaskOK' /\ Located'
      BY <1>0, <1>11 DEF RequestRejected, Turned, TaskOK, Located
    <2>3. TokenOK'
      BY <1>0, <1>11, RecordTypes, ErrorTypes DEF RequestRejected, Turned, TypeInv, TypeOK, TokenOK
    <2>4. QED
      BY <2>1, <2>2, <2>3 DEF TypeInv, TypeOK
  <1>12. ASSUME NEW f \in Chats, OverflowPersists(f)
        PROVE  TypeInv'
    <2>1. PoolOK'
      BY <1>0, <1>12, PoolUnchanged DEF OverflowPersists, Turned
    <2>2. TaskOK' /\ Located'
      BY <1>0, <1>12 DEF OverflowPersists, Turned, TaskOK, Located
    <2>3. TokenOK'
      BY <1>0, <1>12, RecordTypes, ErrorTypes DEF OverflowPersists, Turned, TypeInv, TypeOK, TokenOK
    <2>4. QED
      BY <2>1, <2>2, <2>3 DEF TypeInv, TypeOK
  <1>13. ASSUME NEW f \in Chats, FirstChunk(f)
        PROVE  TypeInv'
    <2>1. PoolOK'
      BY <1>0, <1>13, MarkSuccessTypes DEF FirstChunk, ServeRound, Located
    <2>2. TaskOK' /\ Located'
      BY <1>0, <1>13 DEF FirstChunk, ServeRound, TaskOK, Located
    <2>3. TokenOK'
      <3>a. pc[f] = "prefetch" /\ Record(f, NoError, headerByte[f])
        BY <1>13 DEF FirstChunk, ServeRound
      <3>b. headerByte[f] \in BOOLEAN
        BY <1>0 DEF TokenOK
      <3>1. attempts' \in [Chats -> Seq(Attempt)]
        BY <3>a, <3>b, RecordTypes, ErrorTypes
      <3>2. cur[f] \in 0..N
        BY <1>0 DEF TaskOK
      <3>3. provider' \in [Chats -> 0..N]
        BY <1>0, <1>13, <3>2 DEF FirstChunk, ServeRound, TokenOK
      <3>4. QED
        BY <1>0, <1>13, <3>1, <3>3 DEF FirstChunk, ServeRound, TokenOK
    <2>4. QED
      BY <2>1, <2>2, <2>3 DEF TypeInv, TypeOK
  <1>14. ASSUME NEW f \in Chats, NEW e \in StreamFaults, PrefetchFails(f, e)
        PROVE  TypeInv'
    <2>1. PoolOK'
      BY <1>0, <1>14, PoolUnchanged DEF PrefetchFails, Fail
    <2>2. TaskOK' /\ Located'
      BY <1>0, <1>14, ErrorTypes DEF PrefetchFails, Fail, TaskOK, Located
    <2>3. TokenOK'
      BY <1>0, <1>14, TokenUnchanged DEF PrefetchFails, Fail
    <2>4. QED
      BY <2>1, <2>2, <2>3 DEF TypeInv, TypeOK
  <1>15. ASSUME NEW f \in Request, AttemptFailed(f)
        PROVE  TypeInv'
    <2>1. PoolOK'
      BY <1>0, <1>15, MarkFailureTypes DEF AttemptFailed, Mark, Located, TaskOK
    <2>2. TaskOK' /\ Located'
      BY <1>0, <1>15 DEF AttemptFailed, Mark, TaskOK, Located
    <2>3. TokenOK'
      <3>1. CASE f \in Chats
        <4>1. err[f] \in Errors \cup {NoError} /\ headerByte[f] \in BOOLEAN
          BY <1>0, <3>1 DEF TokenOK, TaskOK
        <4>2. Record(f, err[f], headerByte[f])
          BY <1>15, <3>1 DEF AttemptFailed
        <4>3. attempts' \in [Chats -> Seq(Attempt)]
          BY <1>15, <3>1, <4>1, <4>2, RecordTypes DEF AttemptFailed
        <4>4. QED
          BY <1>0, <1>15, <4>3 DEF AttemptFailed, TokenOK
      <3>2. CASE f \notin Chats
        BY <1>0, <1>15, <3>2 DEF AttemptFailed, TokenOK
      <3>3. QED
        BY <3>1, <3>2
    <2>4. QED
      BY <2>1, <2>2, <2>3 DEF TypeInv, TypeOK
  <1>16. ASSUME NEW f \in Chats, NEW to \in {"ready", "done"}, StreamEnds(f, to)
        PROVE  TypeInv'
    <2>1. PoolOK'
      BY <1>0, <1>16, PoolUnchanged DEF StreamEnds
    <2>2. TaskOK' /\ Located'
      BY <1>0, <1>16 DEF StreamEnds, TaskOK, Located
    <2>3. TokenOK'
      BY <1>0, <1>16, TokenUnchanged DEF StreamEnds
    <2>4. QED
      BY <2>1, <2>2, <2>3 DEF TypeInv, TypeOK
  <1>17. ASSUME NEW f \in Chats, NEW e \in StreamFaults, StreamFails(f, e)
        PROVE  TypeInv'
    <2>1. PoolOK'
      BY <1>0, <1>17, PoolUnchanged DEF StreamFails, Fail
    <2>2. TaskOK' /\ Located'
      BY <1>0, <1>17, ErrorTypes DEF StreamFails, Fail, TaskOK, Located
    <2>3. TokenOK'
      BY <1>0, <1>17, TokenUnchanged DEF StreamFails, Fail
    <2>4. QED
      BY <2>1, <2>2, <2>3 DEF TypeInv, TypeOK
  <1>18. ASSUME NEW f \in Chats, StreamFailed(f)
        PROVE  TypeInv'
    <2>1. PoolOK'
      BY <1>0, <1>18, MarkFailureTypes DEF StreamFailed, BreakOff, Mark, Located, TaskOK
    <2>2. TaskOK' /\ Located'
      BY <1>0, <1>18 DEF StreamFailed, BreakOff, Mark, TaskOK, Located
    <2>3. TokenOK'
      BY <1>0, <1>18, TokenUnchanged DEF StreamFailed, BreakOff
    <2>4. QED
      BY <2>1, <2>2, <2>3 DEF TypeInv, TypeOK
  <1>19. ASSUME NEW f \in Proxies, ProxyAnswers(f)
        PROVE  TypeInv'
    <2>1. PoolOK'
      BY <1>0, <1>19, PoolUnchanged DEF ProxyAnswers, ProxyEnds
    <2>2. TaskOK' /\ Located'
      BY <1>0, <1>19 DEF ProxyAnswers, ProxyEnds, TaskOK, Located
    <2>3. TokenOK'
      BY <1>0, <1>19, TokenUnchanged DEF ProxyAnswers, ProxyEnds
    <2>4. QED
      BY <2>1, <2>2, <2>3 DEF TypeInv, TypeOK
  <1>20. ASSUME NEW f \in Proxies, NEW e \in {SendError, HttpErr}, ProxyFails(f, e)
        PROVE  TypeInv'
    <2>1. PoolOK'
      BY <1>0, <1>20, PoolUnchanged DEF ProxyFails, Fail
    <2>2. TaskOK' /\ Located'
      BY <1>0, <1>20, ErrorTypes DEF ProxyFails, Fail, TaskOK, Located
    <2>3. TokenOK'
      BY <1>0, <1>20, TokenUnchanged DEF ProxyFails, Fail
    <2>4. QED
      BY <2>1, <2>2, <2>3 DEF TypeInv, TypeOK
  <1>21. CASE Tick
    <2>1. PoolOK'
      BY <1>0, <1>21 DEF Tick, Sooner, PoolOK
    <2>2. TaskOK' /\ Located'
      BY <1>0, <1>21 DEF Tick, Sooner, TaskOK, Located
    <2>3. TokenOK'
      BY <1>0, <1>21, TokenUnchanged DEF Tick
    <2>4. QED
      BY <2>1, <2>2, <2>3 DEF TypeInv, TypeOK
  <1>22. QED
    BY <1>1, <1>2, <1>3, <1>4, <1>5, <1>6, <1>7, <1>8, <1>9, <1>10, <1>11, <1>12, <1>13, <1>14, <1>15, <1>16, <1>17, <1>18, <1>19, <1>20, <1>21
       DEF Next, ChatStep, ProxyStep, RequestStep

\* A step that changes nothing keeps the types.
LEMMA TypeInvStutters == ASSUME TypeInv, UNCHANGED vars PROVE TypeInv'
  BY DEF TypeInv, TypeOK, PoolOK, TaskOK, TokenOK, Located, vars, pool, task, token

\* Every variable has its type in every reachable state.
THEOREM TypesCorrect == Spec => []TypeInv
  <1>1. Init => TypeInv
    BY TypeInvInit
  <1>2. TypeInv /\ [Next]_vars => TypeInv'
    BY TypeInvStutters, TypeInvNext
  <1>3. QED
    BY <1>1, <1>2, PTL DEF Spec

-----------------------------------------------------------------------------
(* The pool.                                                               *)

\* What a step may do to the providers: nothing, one mark, or a tick.
LEMMA PoolSteps ==
  ASSUME TypeInv, Next
  PROVE  \/ UNCHANGED pool
         \/ \E p \in Provider : MarkSuccess(p)
         \/ \E p \in Provider : \E d \in 0..Cooldown : MarkFailure(p, d)
         \/ Tick
  <1>0. TaskOK /\ Located
    BY DEF TypeInv, TypeOK
  <1>1. ASSUME NEW f \in Chats, FirstChunk(f)
        PROVE  \E p \in Provider : MarkSuccess(p)
    BY <1>0, <1>1 DEF FirstChunk, ServeRound, Located, Request
  <1>2. ASSUME NEW f \in Request, Mark(f), pc[f] \in {"failing", "breaking"}
        PROVE  \E p \in Provider : \E d \in 0..Cooldown : MarkFailure(p, d)
    BY <1>0, <1>2 DEF Mark, Located, TaskOK
  <1>3. ASSUME NEW f \in Request, AttemptFailed(f)
        PROVE  \E p \in Provider : \E d \in 0..Cooldown : MarkFailure(p, d)
    BY <1>2, <1>3 DEF AttemptFailed
  <1>4. ASSUME NEW f \in Chats, StreamFailed(f)
        PROVE  \E p \in Provider : \E d \in 0..Cooldown : MarkFailure(p, d)
    BY <1>2, <1>4 DEF StreamFailed, BreakOff, Request
  <1>5. ASSUME NEW f \in Chats, ChatStep(f), ~FirstChunk(f), ~StreamFailed(f)
        PROVE  UNCHANGED pool
    BY <1>5 DEF ChatStep, SendFails, HeadersSucceed, ContextOverflow, HttpFails,
                RequestRejected, OverflowPersists, Dispatch, Send, TakeNext,
                PrefetchFails, StreamFails, StreamEnds, Fail
  <1>6. ASSUME NEW f \in Proxies, ProxyStep(f)
        PROVE  UNCHANGED pool
    BY <1>6 DEF ProxyStep, ProxyAnswers, ProxyEnds, DispatchProxy, TakeNext,
                ProxyFails, Fail
  <1>7. ASSUME NEW f \in Request, RequestStep(f), ~AttemptFailed(f)
        PROVE  UNCHANGED pool
    BY <1>7 DEF RequestStep, BeginRound, AllCooling, ProvidersExhausted, Cancel
  <1>8. QED
    BY <1>1, <1>3, <1>4, <1>5, <1>6, <1>7 DEF Next

LEMMA CoolingNext ==
  ASSUME TypeInv, CoolingHasCause, Next
  PROVE  CoolingHasCause'
  <1>0. PoolOK
    BY DEF TypeInv, TypeOK
  <1>1. CASE UNCHANGED pool
    BY <1>1 DEF pool, CoolingHasCause
  <1>2. ASSUME NEW p \in Provider, MarkSuccess(p)
        PROVE  CoolingHasCause'
    BY <1>0, <1>2 DEF MarkSuccess, Succeed, PoolOK, CoolingHasCause
  <1>3. ASSUME NEW p \in Provider, NEW d \in 0..Cooldown, MarkFailure(p, d)
        PROVE  CoolingHasCause'
    BY <1>0, <1>3 DEF MarkFailure, Penalize, PoolOK, CoolingHasCause
  <1>4. CASE Tick
    BY <1>0, <1>4, FailoverAssumption DEF Tick, Sooner, PoolOK, CoolingHasCause
  <1>5. QED
    BY <1>1, <1>2, <1>3, <1>4, PoolSteps

\* A step that changes nothing keeps the causes.
LEMMA CoolingStutters == ASSUME CoolingHasCause, UNCHANGED vars PROVE CoolingHasCause'
  BY DEF CoolingHasCause, vars, pool

\* Whatever the interleaving of requests, marks and ticks, the window, the last
\* error and the counters of a provider agree.
THEOREM CoolingExplained == Spec => []CoolingHasCause
  <1>1. Init => CoolingHasCause
    BY DEF Init, CoolingHasCause
  <1>2. TypeInv /\ CoolingHasCause /\ [Next]_vars => CoolingHasCause'
    BY CoolingStutters, CoolingNext
  <1>3. QED
    BY <1>1, <1>2, TypesCorrect, PTL DEF Spec

\* The classes of the errors that are marked tell them from a rejection.
LEMMA MarkedClasses ==
  ASSUME NEW e \in {SendError, HttpErr} \cup StreamFaults
  PROVE  e.class \notin {"HttpStatus", "Terminal"} \/ e.disposition = "Failover"
  BY DEF StreamFaults, SendError, HttpErr, TimeoutErr, StreamErr, EnvelopeErr, Error

\* A request that a provider turns down, in whatever state the chain is, costs
\* no provider anything.
THEOREM RejectionsAreFree == Spec => RejectionLeavesPoolAlone
  <1> DEFINE Rejected(f) == /\ attempts'[f] # attempts[f]
                            /\ LastError(f)'.class \in {"HttpStatus", "Terminal"}
                            /\ LastError(f)'.disposition # "Failover"
  <1>1. ASSUME TypeInv, Next, NEW f \in Chats, Rejected(f)
        PROVE  UNCHANGED pool
    <2>0. /\ attempts \in [Chats -> Seq(Attempt)]
          /\ Located
      BY <1>1 DEF TypeInv, TypeOK, TokenOK
    <2>1. ASSUME NEW g \in Chats, NEW e, NEW h, Record(g, e, h)
          PROVE  g = f /\ LastError(f)' = e
      <3> DEFINE a == [round |-> round[g], provider |-> cur[g],
                       error |-> e, headers |-> h]
      <3>1. g = f
        BY <1>1, <2>0, <2>1 DEF Record
      <3>2. attempts'[f] = Append(attempts[f], a)
        BY <2>0, <2>1, <3>1 DEF Record
      <3>3. a.error = e
        OBVIOUS
      <3> HIDE DEF a
      <3>4. attempts[f] \in Seq(Attempt)
        BY <2>0
      <3>5. attempts'[f][Len(attempts'[f])] = a
        BY <3>2, <3>4
      <3>6. QED
        BY <3>1, <3>3, <3>5 DEF LastError
    <2>2. ASSUME NEW g \in Chats, FirstChunk(g)
          PROVE  FALSE
      BY <1>1, <2>1, <2>2 DEF FirstChunk, ServeRound, NoError, Error
    <2>3. ASSUME NEW g \in Request, AttemptFailed(g)
          PROVE  FALSE
      <3>1. g \in Chats /\ Record(g, err[g], headerByte[g])
        BY <1>1, <2>3 DEF AttemptFailed
      <3>2. err[g] \in {SendError, HttpErr} \cup StreamFaults
        BY <2>0, <2>3 DEF AttemptFailed, Located
      <3>3. QED
        BY <1>1, <2>1, <3>1, <3>2, MarkedClasses
    <2>4. ASSUME NEW g \in Chats, RequestRejected(g) \/ OverflowPersists(g)
          PROVE  UNCHANGED pool
      BY <2>4 DEF RequestRejected, OverflowPersists
    <2>5. ASSUME NEW g \in Chats, ChatStep(g)
          PROVE  UNCHANGED pool \/ attempts' = attempts
      BY <2>2, <2>4, <2>5
         DEF ChatStep, SendFails, HeadersSucceed, ContextOverflow, HttpFails,
             Dispatch, Send, TakeNext, PrefetchFails, StreamFails, StreamEnds,
             StreamFailed, BreakOff, Fail, token
    <2>6. ASSUME NEW g \in Proxies, ProxyStep(g)
          PROVE  attempts' = attempts
      BY <2>6 DEF ProxyStep, ProxyAnswers, ProxyEnds, DispatchProxy, TakeNext,
                  ProxyFails, Fail, token
    <2>7. ASSUME NEW g \in Request, RequestStep(g)
          PROVE  attempts' = attempts
      BY <2>3, <2>7 DEF RequestStep, BeginRound, AllCooling, ProvidersExhausted,
                        Cancel, token
    <2>8. CASE Tick
      BY <1>1, <2>8 DEF Tick, token
    <2>9. QED
      BY <1>1, <2>5, <2>6, <2>7, <2>8 DEF Next
  <1>2. TypeInv /\ [Next]_vars => [\A f \in Chats : Rejected(f) => UNCHANGED pool]_vars
    BY <1>1
  <1>3. QED
    BY <1>2, TypesCorrect, PTL DEF Spec, RejectionLeavesPoolAlone
-----------------------------------------------------------------------------
(* What a turn's token says when the turn is over.                         *)

\* Everything a step of one request may change of that request's own, as far
\* as the token invariants look.
Local(f) == <<pc[f], plan[f], cur[f], round[f], err[f],
              provider[f], pending[f], attempts[f]>>

\* The steps of the request f.
Moves(f) ==
    \/ f \in Chats /\ ChatStep(f)
    \/ f \in Proxies /\ ProxyStep(f)
    \/ f \in Request /\ RequestStep(f)

LEMMA NextMoves == Next <=> Tick \/ \E f \in Request : Moves(f)
  BY DEF Next, Moves, Request

\* One function entry is changed at a time.
LEMMA Frame ==
  ASSUME TypeInv, NEW f \in Request, Moves(f), NEW g \in Chats, g # f
  PROVE  UNCHANGED Local(g)
  <1>0. TaskOK /\ TokenOK
    BY DEF TypeInv, TypeOK
  <1> USE DEF Request, GoTo, Local
  <1>1. ASSUME f \in Chats, NEW p \in Provider, Dispatch(f, p)
        PROVE  UNCHANGED Local(g)
    BY <1>0, <1>1 DEF Dispatch, Send, TakeNext, TaskOK, TokenOK
  <1>2. ASSUME f \in Chats,
               SendFails(f) \/ HeadersSucceed(f) \/ ContextOverflow(f) \/ HttpFails(f)
        PROVE  UNCHANGED Local(g)
    BY <1>0, <1>2 DEF SendFails, HeadersSucceed, ContextOverflow, HttpFails, Fail,
                      TaskOK, TokenOK, token
  <1>3. ASSUME f \in Chats, RequestRejected(f) \/ OverflowPersists(f)
        PROVE  UNCHANGED Local(g)
    BY <1>0, <1>3 DEF RequestRejected, OverflowPersists, Turned, Record,
                      TaskOK, TokenOK
  <1>4. ASSUME f \in Chats, FirstChunk(f)
        PROVE  UNCHANGED Local(g)
    BY <1>0, <1>4 DEF FirstChunk, ServeRound, Record, TaskOK, TokenOK
  <1>5. ASSUME f \in Chats, NEW e \in StreamFaults,
               PrefetchFails(f, e) \/ StreamFails(f, e)
        PROVE  UNCHANGED Local(g)
    BY <1>0, <1>5 DEF PrefetchFails, StreamFails, Fail, TaskOK, TokenOK, token
  <1>6. ASSUME f \in Chats, StreamFailed(f) \/ \E to \in {"ready", "done"} : StreamEnds(f, to)
        PROVE  UNCHANGED Local(g)
    BY <1>0, <1>6 DEF StreamFailed, BreakOff, Mark, StreamEnds, TaskOK, TokenOK, token
  <1>7. ASSUME f \in Proxies, ProxyStep(f)
        PROVE  UNCHANGED Local(g)
    BY <1>0, <1>7 DEF ProxyStep, ProxyAnswers, ProxyEnds, DispatchProxy, TakeNext,
                      ProxyFails, Fail, TaskOK, TokenOK, token
  <1>8. ASSUME NEW scope \in Scopes, BeginRound(f, scope) \/ AllCooling(f, scope)
        PROVE  UNCHANGED Local(g)
    BY <1>0, <1>8 DEF BeginRound, AllCooling, TaskOK, TokenOK, token
  <1>9. ASSUME ProvidersExhausted(f) \/ Cancel(f)
        PROVE  UNCHANGED Local(g)
    BY <1>0, <1>9 DEF ProvidersExhausted, Cancel, TaskOK, TokenOK, token
  <1>10. ASSUME AttemptFailed(f)
         PROVE  UNCHANGED Local(g)
    BY <1>0, <1>10 DEF AttemptFailed, Mark, Record, TaskOK, TokenOK
  <1>11. QED
    BY <1>1, <1>2, <1>3, <1>4, <1>5, <1>6, <1>7, <1>8, <1>9, <1>10
       DEF Moves, ChatStep, RequestStep

LEMMA TickFrame == ASSUME TypeInv, Tick, NEW g \in Chats PROVE UNCHANGED Local(g)
  BY DEF Tick, token, Local

\* Recording adds one entry at the end of one trace.
LEMMA Recorded ==
  ASSUME TypeInv, NEW f \in Chats, NEW e, NEW h, Record(f, e, h)
  PROVE  LET a == [round |-> round[f], provider |-> cur[f],
                   error |-> e, headers |-> h]
         IN  /\ Len(attempts[f]) \in Nat
             /\ Len(attempts'[f]) = Len(attempts[f]) + 1
             /\ attempts'[f][Len(attempts[f]) + 1] = a
             /\ \A i \in 1..Len(attempts[f]) : attempts'[f][i] = attempts[f][i]
             /\ attempts'[f] # <<>>
  <1> DEFINE a == [round |-> round[f], provider |-> cur[f],
                   error |-> e, headers |-> h]
  <1>1. attempts \in [Chats -> Seq(Attempt)]
    BY DEF TypeInv, TypeOK, TokenOK
  <1>2. attempts'[f] = Append(attempts[f], a)
    BY <1>1 DEF Record
  <1>3. attempts[f] \in Seq(Attempt)
    BY <1>1
  <1> HIDE DEF a
  <1>4. /\ Len(attempts[f]) \in Nat
        /\ Len(attempts'[f]) = Len(attempts[f]) + 1
        /\ attempts'[f][Len(attempts[f]) + 1] = a
        /\ \A i \in 1..Len(attempts[f]) : attempts'[f][i] = attempts[f][i]
    BY <1>2, <1>3
  <1>5. attempts'[f] # <<>>
    BY <1>4
  <1>6. QED
    BY <1>4, <1>5 DEF a

-----------------------------------------------------------------------------
(* The staged body.                                                        *)

EndsWithBody(f) ==
    ResponseCapture /\ attempts[f] # <<>> /\ HasHttpBody(LastError(f))

\* A body is staged only between a failure that has one and the next attempt;
\* a round that is served, or about to begin, follows no such failure.
Body(f) ==
    /\ pc[f] \notin {"failing", "next", "failed"} => ~pending[f]
    /\ pc[f] = "failing" =>
           (pending[f] <=> ResponseCapture /\ HasHttpBody(err[f]))
    /\ pc[f] \in {"next", "failed"} => (pending[f] <=> EndsWithBody(f))
    /\ pc[f] \in {"ready", "streaming", "breaking"} => ~EndsWithBody(f)

BodyInv == \A f \in Chats : Body(f)

LEMMA HttpBodies ==
    /\ ~HasHttpBody(NoError) /\ ~HasHttpBody(SendError)
    /\ \A e \in StreamFaults : ~HasHttpBody(e)
    /\ HasHttpBody(HttpErr) /\ HasHttpBody(RejectedErr) /\ HasHttpBody(OverflowErr)
  BY DEF HasHttpBody, StreamFaults, NoError, SendError, TimeoutErr, StreamErr,
         EnvelopeErr, HttpErr, RejectedErr, OverflowErr, Error

LEMMA RecordedBody ==
  ASSUME TypeInv, NEW f \in Chats, NEW e, NEW h, Record(f, e, h)
  PROVE  EndsWithBody(f)' <=> ResponseCapture /\ HasHttpBody(e)
  <1> DEFINE n == Len(attempts[f]) + 1
  <1>1. /\ attempts'[f] # <<>>
        /\ Len(attempts'[f]) = n
        /\ attempts'[f][n] = [round |-> round[f], provider |-> cur[f],
                             error |-> e, headers |-> h]
    BY Recorded
  <1>2. attempts'[f][n].error = e
    BY <1>1
  <1>3. LastError(f)' = e
    BY <1>1, <1>2 DEF LastError
  <1>4. QED
    BY <1>1, <1>3 DEF EndsWithBody, HasHttpBody

LEMMA SameBody ==
  ASSUME NEW f \in Chats, UNCHANGED Local(f)
  PROVE  /\ EndsWithBody(f)' <=> EndsWithBody(f)
         /\ Body(f) => Body(f)'
  BY DEF Local, Body, EndsWithBody, LastError, HasHttpBody

LEMMA BodyMoves ==
  ASSUME TypeInv, NEW f \in Chats, Body(f), Moves(f)
  PROVE  Body(f)'
  <1>0. TaskOK /\ TokenOK /\ f \in Request
    BY DEF TypeInv, TypeOK, Request
  <1> USE <1>0, HttpBodies DEF GoTo
  <1> DEFINE SameTrace == attempts'[f] = attempts[f]
  <1>00. SameTrace => (EndsWithBody(f)' <=> EndsWithBody(f))
    BY DEF EndsWithBody, LastError, HasHttpBody
  <1>1. ASSUME NEW p \in Provider, Dispatch(f, p)
        PROVE  Body(f)'
    BY <1>1 DEF Dispatch, Send, TakeNext, TaskOK, TokenOK, Body
  <1>2. CASE SendFails(f)
    BY <1>2 DEF SendFails, Fail, TaskOK, TokenOK, Body, token
  <1>3. CASE HeadersSucceed(f) \/ ContextOverflow(f)
    BY <1>3 DEF HeadersSucceed, ContextOverflow, TaskOK, Body
  <1>4. CASE HttpFails(f)
    BY <1>4, FailoverAssumption DEF HttpFails, Fail, TaskOK, TokenOK, Body
  <1>5. CASE RequestRejected(f)
    BY <1>5, RecordedBody, FailoverAssumption
       DEF RequestRejected, Turned, TaskOK, TokenOK, Body
  <1>6. CASE OverflowPersists(f)
    BY <1>6, RecordedBody, FailoverAssumption
       DEF OverflowPersists, Turned, TaskOK, TokenOK, Body
  <1>7. CASE FirstChunk(f)
    BY <1>7, RecordedBody DEF FirstChunk, ServeRound, TaskOK, TokenOK, Body
  <1>8. ASSUME NEW e \in StreamFaults, PrefetchFails(f, e)
        PROVE  Body(f)'
    BY <1>8 DEF PrefetchFails, Fail, TaskOK, TokenOK, Body, token
  <1>9. ASSUME NEW e \in StreamFaults, StreamFails(f, e)
        PROVE  Body(f)'
    BY <1>9, <1>00 DEF StreamFails, Fail, TaskOK, TokenOK, Body, token
  <1>10. ASSUME NEW to \in {"ready", "done"}, StreamEnds(f, to)
         PROVE  Body(f)'
    BY <1>10, <1>00 DEF StreamEnds, TaskOK, TokenOK, Body, token
  <1>11. CASE StreamFailed(f)
    BY <1>11, <1>00 DEF StreamFailed, BreakOff, Mark, TaskOK, TokenOK, Body, token
  <1>12. ASSUME NEW scope \in Scopes, BeginRound(f, scope) \/ AllCooling(f, scope)
         PROVE  Body(f)'
    BY <1>12, <1>00 DEF BeginRound, AllCooling, TaskOK, TokenOK, Body, token
  <1>13. CASE ProvidersExhausted(f)
    BY <1>13, <1>00 DEF ProvidersExhausted, TaskOK, TokenOK, Body, token
  <1>14. CASE Cancel(f)
    BY <1>14, <1>00 DEF Cancel, TaskOK, TokenOK, Body, token, Awaiting
  <1>15. CASE AttemptFailed(f)
    BY <1>15, RecordedBody DEF AttemptFailed, Mark, TaskOK, TokenOK, Body
  <1>16. f \notin Proxies
    BY FailoverAssumption
  <1>17. QED
    BY <1>1, <1>2, <1>3, <1>4, <1>5, <1>6, <1>7, <1>8, <1>9, <1>10,
       <1>11, <1>12, <1>13, <1>14, <1>15, <1>16
       DEF Moves, ChatStep, RequestStep

LEMMA BodyInvNext ==
  ASSUME TypeInv, BodyInv, Next
  PROVE  BodyInv'
  <1>1. CASE Tick
    BY <1>1, TickFrame, SameBody DEF BodyInv
  <1>2. ASSUME NEW f \in Request, Moves(f), NEW g \in Chats
        PROVE  Body(g)'
    <2>1. CASE g = f
      BY <1>2, <2>1, BodyMoves DEF BodyInv
    <2>2. CASE g # f
      BY <1>2, <2>2, Frame, SameBody DEF BodyInv
    <2>3. QED
      BY <2>1, <2>2
  <1>3. QED
    BY <1>1, <1>2, NextMoves DEF BodyInv

LEMMA BodyInvImplies == ASSUME TypeInv, BodyInv PROVE CommittedBodyIsFinal
  BY DEF TypeInv, TypeOK, TokenOK, BodyInv, Body, EndsWithBody, CommittedBodyIsFinal,
         Finished

\* The body committed for a turn belongs to its last attempt, whichever
\* providers failed before and whatever other requests did meanwhile.
THEOREM BodyCommitted == Spec => []CommittedBodyIsFinal
  <1>1. Init => BodyInv
    BY DEF Init, BodyInv, Body, EndsWithBody, Request
  <1>2. TypeInv /\ BodyInv /\ [Next]_vars => BodyInv'
    <2>1. ASSUME BodyInv, UNCHANGED vars PROVE BodyInv'
      BY <2>1 DEF BodyInv, Body, EndsWithBody, LastError, HasHttpBody,
                  vars, task, token
    <2>2. QED
      BY <2>1, BodyInvNext
  <1>3. TypeInv /\ BodyInv => CommittedBodyIsFinal
    BY BodyInvImplies
  <1>4. QED
    BY <1>1, <1>2, <1>3, TypesCorrect, PTL DEF Spec

-----------------------------------------------------------------------------
(* The attempt trace.                                                      *)

Attempting == {"sent", "retry", "prefetch", "failing"}

LastAttempt(f) == attempts[f][Len(attempts[f])]

\* The attempt under way, if it is recorded, may follow the last one.
MayFollow(f, a) ==
    \/ a.round < round[f] /\ Served(a)
    \/ /\ a.round = round[f]
       /\ GoesOn(a.error)
       /\ pc[f] = "next" => \A q \in plan[f] : a.provider < q
       /\ pc[f] \in Attempting => a.provider < cur[f]

Walk(f) ==
    /\ \A i \in 1..(Len(attempts[f]) - 1) :
           Follows(attempts[f][i], attempts[f][i + 1])
    /\ pc[f] \in Attempting => \A q \in plan[f] : cur[f] < q
    /\ pc[f] = "failing" => GoesOn(err[f])
    /\ attempts[f] # <<>> =>
           /\ LastAttempt(f).round <= round[f]
           /\ pc[f] \in {"ready", "streaming", "breaking"} => Served(LastAttempt(f))
           /\ pc[f] = "next" \/ pc[f] \in Attempting => MayFollow(f, LastAttempt(f))

WalkInv == \A f \in Chats : Walk(f)

LEMMA Dispositions ==
    /\ GoesOn(SendError) /\ GoesOn(HttpErr) /\ GoesOn(RejectedErr)
    /\ \A e \in StreamFaults : GoesOn(e)
  BY DEF GoesOn, StreamFaults, SendError, TimeoutErr, StreamErr, EnvelopeErr,
         HttpErr, RejectedErr, Error

LEMMA LastTypes ==
  ASSUME TypeInv, NEW f \in Chats
  PROVE  /\ Len(attempts[f]) \in Nat
         /\ attempts[f] = <<>> <=> Len(attempts[f]) = 0
         /\ attempts[f] # <<>> => LastAttempt(f) \in Attempt
  <1>1. attempts[f] \in Seq(Attempt)
    BY DEF TypeInv, TypeOK, TokenOK
  <1>2. QED
    BY <1>1 DEF LastAttempt

\* A recorded attempt extends the walk.
LEMMA RecordedWalk ==
  ASSUME TypeInv, NEW f \in Chats, Walk(f), NEW e, NEW h, Record(f, e, h),
         pc[f] \in Attempting
  PROVE  /\ \A i \in 1..(Len(attempts'[f]) - 1) :
                Follows(attempts'[f][i], attempts'[f][i + 1])
         /\ attempts'[f] # <<>>
         /\ LastAttempt(f)'.round = round[f]
         /\ LastAttempt(f)'.provider = cur[f]
         /\ LastAttempt(f)'.error = e
  <1> DEFINE n == Len(attempts[f])
             b == [round |-> round[f], provider |-> cur[f],
                   error |-> e, headers |-> h]
  <1>1. /\ n \in Nat
        /\ Len(attempts'[f]) = n + 1
        /\ attempts'[f][n + 1] = b
        /\ \A i \in 1..n : attempts'[f][i] = attempts[f][i]
        /\ attempts'[f] # <<>>
    BY Recorded
  <1>2. b.round = round[f] /\ b.provider = cur[f] /\ b.error = e
    OBVIOUS
  <1> HIDE DEF n, b
  <1>3. ASSUME n # 0 PROVE Follows(attempts[f][n], b)
    <2>1. attempts[f] # <<>> /\ LastAttempt(f) = attempts[f][n]
      BY <1>3, LastTypes DEF n, LastAttempt
    <2>2. MayFollow(f, attempts[f][n])
      BY <2>1 DEF Walk
    <2>3. QED
      BY <1>2, <2>2 DEF MayFollow, Follows, Attempting
  <1>4. ASSUME NEW i \in 1..n
        PROVE  Follows(attempts'[f][i], attempts'[f][i + 1])
    <2>1. CASE i = n
      BY <1>1, <1>3, <1>4, <2>1
    <2>2. CASE i # n
      <3>1. i \in 1..(n - 1) /\ i + 1 \in 1..n
        BY <1>1, <2>2
      <3>2. Follows(attempts[f][i], attempts[f][i + 1])
        BY <3>1 DEF Walk, n
      <3>3. QED
        BY <1>1, <3>1, <3>2
    <2>3. QED
      BY <2>1, <2>2
  <1>5. Len(attempts'[f]) - 1 = n
    BY <1>1
  <1>6. LastAttempt(f)' = b
    BY <1>1 DEF LastAttempt
  <1>7. QED
    BY <1>1, <1>2, <1>4, <1>5, <1>6

LEMMA SameWalk == ASSUME NEW f \in Chats, Walk(f), UNCHANGED Local(f) PROVE Walk(f)'
  BY DEF Local, Walk, LastAttempt, MayFollow, Served, GoesOn, Attempting, Follows

\* What of the walk does not depend on where the request stands.
LEMMA SameTrace ==
  ASSUME NEW f \in Chats, Walk(f), attempts'[f] = attempts[f]
  PROVE  /\ \A i \in 1..(Len(attempts'[f]) - 1) :
                Follows(attempts'[f][i], attempts'[f][i + 1])
         /\ LastAttempt(f)' = LastAttempt(f)
  BY DEF Walk, LastAttempt

LEMMA WalkMoves ==
  ASSUME TypeInv, NEW f \in Chats, Walk(f), Moves(f)
  PROVE  Walk(f)'
  <1>0. TaskOK /\ TokenOK /\ f \in Request /\ Located
    BY DEF TypeInv, TypeOK, Request
  <1>00. attempts[f] # <<>> => LastAttempt(f).round \in Nat /\ round[f] \in Nat
    BY <1>0, LastTypes, FailoverAssumption DEF Attempt, TaskOK
  <1> USE <1>0, Dispositions DEF GoTo, Attempting
  <1>1. ASSUME NEW p \in Provider, Dispatch(f, p)
        PROVE  Walk(f)'
    <2>1. /\ pc[f] = "next" /\ pc'[f] = "sent"
          /\ p \in plan[f] /\ \A q \in plan[f] : p <= q
          /\ plan'[f] = plan[f] \ {p} /\ cur'[f] = p
          /\ round'[f] = round[f] /\ attempts'[f] = attempts[f]
      BY <1>1 DEF Dispatch, Send, TakeNext, TaskOK
    <2>2. \A q \in plan'[f] : cur'[f] < q
      BY <2>1 DEF TaskOK, Provider
    <2>3. attempts[f] # <<>> => MayFollow(f, LastAttempt(f))'
      BY <2>1, SameTrace DEF Walk, MayFollow, Served
    <2>4. QED
      BY <2>1, <2>2, <2>3, SameTrace DEF Walk
  <1>2. CASE SendFails(f) \/ HeadersSucceed(f) \/ ContextOverflow(f) \/ HttpFails(f)
    <2>1. /\ pc[f] \in Attempting /\ pc'[f] \in Attempting
          /\ plan'[f] = plan[f] /\ cur'[f] = cur[f] /\ round'[f] = round[f]
          /\ attempts'[f] = attempts[f]
          /\ pc'[f] = "failing" => GoesOn(err'[f])
      BY <1>2 DEF SendFails, HeadersSucceed, ContextOverflow, HttpFails, Fail,
                  TaskOK, token
    <2>2. QED
      BY <2>1, SameTrace DEF Walk, MayFollow, Served
  <1>3. ASSUME NEW e \in StreamFaults, PrefetchFails(f, e)
        PROVE  Walk(f)'
    <2>1. /\ pc[f] \in Attempting /\ pc'[f] = "failing"
          /\ plan'[f] = plan[f] /\ cur'[f] = cur[f] /\ round'[f] = round[f]
          /\ attempts'[f] = attempts[f]
          /\ GoesOn(err'[f])
      BY <1>3 DEF PrefetchFails, Fail, TaskOK, token
    <2>2. QED
      BY <2>1, SameTrace DEF Walk, MayFollow, Served
  <1>4. ASSUME NEW e, NEW h, Record(f, e, h), pc[f] \in Attempting,
               UNCHANGED <<plan, cur, round>>, e = NoError \/ GoesOn(e),
               pc'[f] \in {"next", "streaming"},
               pc'[f] = "next" => GoesOn(e), pc'[f] = "streaming" => e = NoError
        PROVE  Walk(f)'
    <2>1. MayFollow(f, LastAttempt(f))' \/ pc'[f] = "streaming"
      BY <1>4, RecordedWalk DEF MayFollow, Walk
    <2>2. pc'[f] = "streaming" => Served(LastAttempt(f)')
      BY <1>4, RecordedWalk DEF Served
    <2>3. LastAttempt(f)'.round <= round'[f]
      BY <1>4, RecordedWalk, FailoverAssumption DEF TaskOK
    <2>4. QED
      BY <1>4, <2>1, <2>2, <2>3, RecordedWalk DEF Walk
  <1>5. CASE RequestRejected(f)
    BY <1>4, <1>5 DEF RequestRejected, Turned, TaskOK
  <1>6. CASE OverflowPersists(f)
    <2>1. pc'[f] = "failed" /\ round' = round /\ pc[f] \in Attempting
      BY <1>6 DEF OverflowPersists, Turned, TaskOK
    <2>2. PICK e, h : Record(f, e, h)
      BY <1>6 DEF OverflowPersists, Turned
    <2>3. LastAttempt(f)'.round <= round'[f]
      BY <2>1, <2>2, RecordedWalk, FailoverAssumption DEF TaskOK
    <2>4. QED
      BY <2>1, <2>2, <2>3, RecordedWalk DEF Walk
  <1>7. CASE FirstChunk(f)
    BY <1>4, <1>7 DEF FirstChunk, ServeRound, TaskOK
  <1>8. CASE AttemptFailed(f)
    BY <1>4, <1>8 DEF AttemptFailed, Mark, TaskOK, Walk
  <1>9. CASE \/ StreamFailed(f) \/ \E e \in StreamFaults : StreamFails(f, e)
             \/ \E to \in {"ready", "done"} : StreamEnds(f, to)
             \/ Cancel(f) \/ ProvidersExhausted(f)
             \/ \E scope \in Scopes : AllCooling(f, scope)
    <2>1. /\ attempts'[f] = attempts[f] /\ round'[f] = round[f]
          /\ \/ pc'[f] \in Finished
             \/ pc[f] = "streaming" /\ pc'[f] \in {"ready", "breaking"}
      BY <1>9 DEF StreamFailed, BreakOff, Mark, StreamFails, StreamEnds, Fail,
                  Cancel, ProvidersExhausted, AllCooling, TaskOK, token, Finished
    <2>2. QED
      BY <2>1, SameTrace DEF Walk, Finished, Served
  <1>10. ASSUME NEW scope \in Scopes, BeginRound(f, scope)
         PROVE  Walk(f)'
    <2>1. /\ pc[f] = "ready" /\ pc'[f] = "next"
          /\ round'[f] = round[f] + 1 /\ attempts'[f] = attempts[f]
      BY <1>10 DEF BeginRound, TaskOK, token
    <2>2. attempts[f] # <<>> => MayFollow(f, LastAttempt(f))'
      BY <2>1, <1>00, SameTrace DEF Walk, MayFollow, Served
    <2>3. QED
      BY <2>1, <2>2, <1>00, SameTrace DEF Walk
  <1>11. f \notin Proxies
    BY FailoverAssumption
  <1>12. QED
    BY <1>1, <1>2, <1>3, <1>5, <1>6, <1>7, <1>8, <1>9, <1>10, <1>11
       DEF Moves, ChatStep, RequestStep

LEMMA WalkInvNext ==
  ASSUME TypeInv, WalkInv, Next
  PROVE  WalkInv'
  <1>1. CASE Tick
    BY <1>1, TickFrame, SameWalk DEF WalkInv
  <1>2. ASSUME NEW f \in Request, Moves(f), NEW g \in Chats
        PROVE  Walk(g)'
    <2>1. CASE g = f
      BY <1>2, <2>1, WalkMoves DEF WalkInv
    <2>2. CASE g # f
      BY <1>2, <2>2, Frame, SameWalk DEF WalkInv
    <2>3. QED
      BY <2>1, <2>2
  <1>3. QED
    BY <1>1, <1>2, NextMoves DEF WalkInv

\* Every trace of every turn, over any chain and any number of rounds, is a
\* failover story.
THEOREM TracesOrdered == Spec => []TraceIsOrdered
  <1>1. Init => WalkInv
    BY DEF Init, WalkInv, Walk, Attempting, Request
  <1>2. TypeInv /\ WalkInv /\ [Next]_vars => WalkInv'
    <2>1. ASSUME WalkInv, UNCHANGED vars PROVE WalkInv'
      BY <2>1, SameWalk DEF WalkInv, Local, vars, task, token
    <2>2. QED
      BY <2>1, WalkInvNext
  <1>3. WalkInv => TraceIsOrdered
    BY DEF WalkInv, Walk, TraceIsOrdered
  <1>4. QED
    BY <1>1, <1>2, <1>3, TypesCorrect, PTL DEF Spec
-----------------------------------------------------------------------------
(* TurnService is implemented.                                             *)

Serving(f) == IF Phase(f) = "serving" THEN cur[f] ELSE 0

\* The abstract state, as ImplementsService maps it.
phases  == [f \in Chats |-> Phase(f)]
servers == [f \in Chats |-> Serving(f)]

\* A turn whose own variables stay is the same turn to its client.
LEMMA SameTurn ==
  ASSUME NEW f, UNCHANGED Local(f)
  PROVE  Phase(f)' = Phase(f) /\ Serving(f)' = Serving(f) /\ provider'[f] = provider[f]
  BY DEF Local, Phase, Serving

LEMMA Phases ==
  ASSUME TypeInv, NEW f \in Chats
  PROVE  /\ pc[f] = "ready" => Phase(f) = "idle"
         /\ pc[f] \in {"streaming", "breaking"} => Phase(f) = "serving"
         /\ pc[f] \in Finished => Phase(f) = pc[f]
         /\ pc[f] \in {"next", "sent", "retry", "prefetch", "failing"} =>
                Phase(f) = "seeking"
         /\ pc[f] # "proxying"
  <1>1. f \in Request /\ f \notin Proxies
    BY FailoverAssumption DEF Request
  <1>2. QED
    BY <1>1 DEF TypeInv, Located, Phase, Finished

\* What one step of a turn is to its client.
Stays(f) == Phase(f)' = Phase(f) /\ Serving(f)' = Serving(f) /\ provider'[f] = provider[f]
Seeks(f) ==
    /\ Phase(f) = "idle" /\ Phase(f)' = "seeking"
    /\ Serving(f)' = Serving(f) /\ provider'[f] = provider[f]
Serves(f, p) ==
    /\ Phase(f) = "seeking" /\ Phase(f)' = "serving" /\ Serving(f)' = p
    /\ provider'[f] = IF provider[f] = 0 THEN p ELSE provider[f]
Leaves(f, from, to) ==
    /\ Phase(f) \in from /\ Phase(f)' = to
    /\ Serving(f)' = 0 /\ provider'[f] = provider[f]

LEMMA MoveIsClientStep ==
  ASSUME TypeInv, TypeInv', NEW f \in Chats, Moves(f)
  PROVE  \/ Stays(f) \/ Seeks(f)
         \/ \E p \in Provider : Serves(f, p)
         \/ \E to \in {"idle", "done"} : Leaves(f, {"serving"}, to)
         \/ \E to \in {"failed", "cancelled"} :
                Leaves(f, {"idle", "seeking", "serving"}, to)
  <1>0. TaskOK /\ TokenOK /\ f \in Request /\ Located
    BY DEF TypeInv, TypeOK, Request
  <1>00. /\ pc'[f] = "ready" => Phase(f)' = "idle"
         /\ pc'[f] \in {"streaming", "breaking"} => Phase(f)' = "serving"
         /\ pc'[f] \in Finished => Phase(f)' = pc'[f]
         /\ pc'[f] \in {"next", "sent", "retry", "prefetch", "failing"} =>
                Phase(f)' = "seeking"
    BY DEF Phase, Finished
  <1> USE <1>0, <1>00, Phases DEF GoTo, Serving, TaskOK, token
  <1>1. ASSUME NEW p \in Provider, Dispatch(f, p)
        PROVE  Stays(f)
    BY <1>1 DEF Dispatch, Send, TakeNext, Stays
  <1>2. CASE SendFails(f) \/ HeadersSucceed(f) \/ ContextOverflow(f) \/ HttpFails(f)
    BY <1>2 DEF SendFails, HeadersSucceed, ContextOverflow, HttpFails, Fail, Stays
  <1>3. CASE RequestRejected(f) \/ AttemptFailed(f)
    BY <1>3 DEF RequestRejected, Turned, AttemptFailed, Mark, Stays
  <1>4. ASSUME NEW e \in StreamFaults, PrefetchFails(f, e) \/ StreamFails(f, e)
        PROVE  Stays(f)
    BY <1>4 DEF PrefetchFails, StreamFails, Fail, Stays
  <1>5. CASE OverflowPersists(f)
    BY <1>5 DEF OverflowPersists, Turned, Leaves, Finished
  <1>6. CASE FirstChunk(f)
    <2>1. cur[f] \in Provider
      BY <1>6 DEF FirstChunk, ServeRound, Located
    <2>2. Serves(f, cur[f])
      BY <1>6 DEF FirstChunk, ServeRound, Serves, TokenOK
    <2>3. QED
      BY <2>1, <2>2
  <1>7. CASE StreamFailed(f)
    BY <1>7 DEF StreamFailed, BreakOff, Mark, Leaves, Finished
  <1>8. ASSUME NEW to \in {"ready", "done"}, StreamEnds(f, to)
        PROVE  \E q \in {"idle", "done"} : Leaves(f, {"serving"}, q)
    BY <1>8 DEF StreamEnds, Leaves, Finished
  <1>9. ASSUME NEW scope \in Scopes, BeginRound(f, scope)
        PROVE  Seeks(f)
    BY <1>9 DEF BeginRound, Seeks
  <1>10. ASSUME NEW scope \in Scopes, AllCooling(f, scope)
         PROVE  Leaves(f, {"idle", "seeking", "serving"}, "failed")
    BY <1>10 DEF AllCooling, Leaves, Finished
  <1>11. CASE ProvidersExhausted(f)
    BY <1>11 DEF ProvidersExhausted, Leaves, Finished
  <1>12. CASE Cancel(f)
    BY <1>12 DEF Cancel, Leaves, Finished, Awaiting
  <1>13. f \notin Proxies
    BY FailoverAssumption
  <1>14. QED
    BY <1>1, <1>2, <1>3, <1>4, <1>5, <1>6, <1>7, <1>8, <1>9, <1>10,
       <1>11, <1>12, <1>13 DEF Moves, ChatStep, RequestStep

\* A client step of one turn, with every other turn as it was, is a step of
\* the service.
LEMMA ClientStepIsServiceStep ==
  ASSUME TypeInv, TypeInv', NEW f \in Chats, Moves(f)
  PROVE  [Service!Next]_<<phases, servers, provider>>
  <1>0. \A g \in Chats : g # f => Stays(g)
    BY Frame, SameTurn DEF Stays, Request
  <1>1. provider \in [Chats -> 0..N] /\ provider' \in [Chats -> 0..N]
    BY DEF TypeInv, TypeOK, TokenOK
  <1>2. /\ phases' = [phases EXCEPT ![f] = Phase(f)']
        /\ servers' = [servers EXCEPT ![f] = Serving(f)']
        /\ provider' = [provider EXCEPT ![f] = provider'[f]]
    BY <1>0, <1>1 DEF Stays, phases, servers
  <1>3. phases[f] = Phase(f) /\ servers[f] = Serving(f)
    BY DEF phases, servers
  <1>4. CASE Stays(f)
    BY <1>1, <1>2, <1>3, <1>4 DEF Stays, phases, servers
  <1>5. CASE Seeks(f)
    <2>1. servers' = servers /\ provider' = provider
      BY <1>1, <1>2, <1>3, <1>5 DEF Seeks, servers
    <2>2. Service!Seek(f)
      BY <1>2, <1>3, <1>5, <2>1 DEF Seeks, Service!Seek, phases, servers, Serving
    <2>3. QED
      BY <2>2 DEF Service!Next
  <1>6. ASSUME NEW p \in Provider, Serves(f, p)
        PROVE  Service!Next
    <2>1. Service!Serve(f, p)
      BY <1>2, <1>3, <1>6 DEF Serves, Service!Serve, phases, servers, Serving
    <2>2. QED
      BY <2>1 DEF Service!Next
  <1>7. ASSUME NEW from, NEW to, Leaves(f, from, to)
        PROVE  Service!Leave(f, to)
    <2>1. provider' = provider
      BY <1>1, <1>2, <1>7 DEF Leaves
    <2>2. QED
      BY <1>2, <1>7, <2>1 DEF Leaves, Service!Leave, phases, servers, Serving
  <1>8. ASSUME NEW to \in {"idle", "done"}, Leaves(f, {"serving"}, to)
        PROVE  Service!Next
    BY <1>3, <1>7, <1>8 DEF Leaves, Service!Next, Service!End, phases
  <1>9. ASSUME NEW to \in {"failed", "cancelled"},
               Leaves(f, {"idle", "seeking", "serving"}, to)
        PROVE  Service!Next
    BY <1>3, <1>7, <1>9
       DEF Leaves, Service!Next, Service!Fail, Service!Cancel, phases
  <1>10. QED
    BY <1>4, <1>5, <1>6, <1>8, <1>9, MoveIsClientStep

\* The steps of other requests and of time change no turn.
LEMMA QuietStep ==
  ASSUME TypeInv, \A g \in Chats : UNCHANGED Local(g), provider' \in [Chats -> 0..N]
  PROVE  UNCHANGED <<phases, servers, provider>>
  <1>1. \A g \in Chats : Stays(g)
    BY SameTurn DEF Stays
  <1>2. phases' = phases /\ servers' = servers
    BY <1>1 DEF Stays, phases, servers
  <1>3. provider' = provider
    BY <1>1 DEF Stays, TypeInv, TypeOK, TokenOK
  <1>4. QED
    BY <1>2, <1>3

\* Failover, cooldowns and concurrent requests are invisible in what a turn is
\* promised: TurnService.
THEOREM FailoverImplementsService == Spec => ImplementsService
  <1>1. Init => Service!Init
    <2> SUFFICES ASSUME Init PROVE Service!Init
      OBVIOUS
    <2>1. \A f \in Chats : pc[f] = "ready"
      BY DEF Init, Request
    <2>2. \A f \in Chats : Phase(f) = "idle"
      BY <2>1, TypeInvInit, Phases
    <2>3. QED
      BY <2>2 DEF Init, Service!Init
  <1>2. TypeInv /\ TypeInv' /\ [Next]_vars => [Service!Next]_<<phases, servers, provider>>
    <2> SUFFICES ASSUME TypeInv, TypeInv', [Next]_vars
                 PROVE  [Service!Next]_<<phases, servers, provider>>
      OBVIOUS
    <2>0. provider' \in [Chats -> 0..N]
      BY DEF TypeInv, TypeOK, TokenOK
    <2>1. CASE UNCHANGED vars
      BY <2>0, <2>1, QuietStep DEF vars, task, token, Local
    <2>2. CASE Tick
      BY <2>0, <2>2, QuietStep, TickFrame
    <2>3. ASSUME NEW f \in Chats, Moves(f)
          PROVE  [Service!Next]_<<phases, servers, provider>>
      BY <2>3, ClientStepIsServiceStep
    <2>4. ASSUME NEW f \in Request, Moves(f), f \notin Chats
          PROVE  UNCHANGED <<phases, servers, provider>>
      BY <2>0, <2>4, Frame, QuietStep
    <2>5. QED
      BY <2>1, <2>2, <2>3, <2>4, NextMoves
  <1>3. TypeInv /\ TypeInv' /\ [Next]_vars => [Service!Next]_Service!svars
    BY <1>2 DEF Service!svars, phases, servers, Serving
  <1>4. QED
    BY <1>1, <1>3, TypesCorrect, PTL DEF Spec, ImplementsService, Service!Spec

-----------------------------------------------------------------------------
(* The published health.                                                   *)

\* A step of the system is a step of the chain or leaves the chain alone.
LEMMA HealthSteps == [HNext]_allvars => [Next]_vars
  BY DEF HNext, HTick, CopyStates, CopyWindows, Publish, Next, allvars

\* The copy the publisher works on is of one lock hold.
HealthInv ==
    /\ TypeInv /\ CoolingHasCause
    /\ copied \in [Provider -> Nat] /\ copiedErr \in [Provider -> BOOLEAN]
    /\ \A p \in Provider : copied[p] > 0 => copiedErr[p]
    /\ UnhealthyHasError

\* A window that runs down keeps its error.
LEMMA HealthNext ==
    ASSUME HealthInv, TypeInv', CoolingHasCause', [HNext]_allvars
    PROVE  HealthInv'
  <1>1. CASE HTick
    BY <1>1 DEF HTick, Sooner, HealthInv, UnhealthyHasError
  <1>2. CASE CopyStates
    BY <1>2 DEF CopyStates, CopyWindows, HealthInv, UnhealthyHasError, TypeInv, TypeOK, PoolOK,
                CoolingHasCause
  <1>3. CASE Publish
    <2>1. ASSUME NEW p \in Provider, Status(p) # "healthy"
          PROVE  copiedErr[p]
      BY <2>1 DEF Status, HealthInv
    <2>2. UnhealthyHasError'
      BY <1>3, <2>1 DEF Publish, UnhealthyHasError, CopiedError
    <2> QED
      BY <1>3, <2>2 DEF Publish, HealthInv
  <1>4. CASE UNCHANGED hvars
    BY <1>4 DEF hvars, HealthInv, UnhealthyHasError
  <1> QED
    BY <1>1, <1>2, <1>3, <1>4 DEF HNext, allvars

\* However requests mark a provider between the publisher's two reads, what it
\* shows as cooling or down it shows with the error.
THEOREM HealthExplained == HSpec => []UnhealthyHasError
  <1>1. HInit => HealthInv
    BY TypeInvInit DEF HInit, Init, HealthInv, UnhealthyHasError, CoolingHasCause
  <1>2. TypeInv /\ [Next]_vars => TypeInv'
    BY TypeInvNext, TypeInvStutters
  <1>3. TypeInv /\ CoolingHasCause /\ [Next]_vars => CoolingHasCause'
    BY CoolingNext, CoolingStutters
  <1>4. HealthInv /\ [HNext]_allvars => HealthInv'
    BY <1>2, <1>3, HealthSteps, HealthNext DEF HealthInv
  <1>5. HealthInv => UnhealthyHasError
    BY DEF HealthInv
  <1> QED
    BY <1>1, <1>4, <1>5, PTL DEF HSpec

-----------------------------------------------------------------------------
(* Flattened sequences.                                                    *)

\* f is the recursive function of FlattenSeq, on 1..m.
Flattens(f, seqs, m) ==
    f = [i \in 1..m |-> IF i = 1 THEN seqs[i] ELSE f[i - 1] \o seqs[i]]

\* There is one for every m.
LEMMA FlattensExists ==
    ASSUME NEW seqs, NEW n \in Nat
    PROVE  \E f : Flattens(f, seqs, n)
<1> DEFINE T == {m \in Nat : \E f : Flattens(f, seqs, m)}
<1>1. 0 \in T
  <2>1. Flattens([i \in 1..0 |-> seqs[i]], seqs, 0)
    BY DEF Flattens
  <2> QED
    BY <2>1
<1>2. ASSUME NEW m \in T
      PROVE  m + 1 \in T
  <2>1. PICK f : Flattens(f, seqs, m)
    OBVIOUS
  <2> DEFINE g == [i \in 1..(m + 1) |-> IF i = 1 THEN seqs[i] ELSE f[i - 1] \o seqs[i]]
  <2>0. m \in Nat
    OBVIOUS
  <2>9. \A i \in 1..m : f[i] = IF i = 1 THEN seqs[i] ELSE f[i - 1] \o seqs[i]
    BY <2>1 DEF Flattens
  <2>10. \A i \in 1..m : i \in 1..(m + 1)
    BY <2>0
  <2>2. \A i \in 1..m : g[i] = f[i]
    BY <2>9, <2>10
  <2>3. \A i \in 1..(m + 1) : i # 1 => i - 1 \in 1..m
    OBVIOUS
  <2>4. \A i \in 1..(m + 1) : i # 1 => g[i - 1] = f[i - 1]
    BY <2>2, <2>3
  <2>5. g = [i \in 1..(m + 1) |-> IF i = 1 THEN seqs[i] ELSE g[i - 1] \o seqs[i]]
    BY <2>4
  <2>6. Flattens(g, seqs, m + 1)
    BY ONLY <2>5 DEF Flattens
  <2> HIDE DEF g
  <2>7. \E h : Flattens(h, seqs, m + 1)
    BY <2>6
  <2> QED
    BY <2>7
<1> HIDE DEF T
<1>3. T \in SUBSET Nat
  BY DEF T
<1>4. T = Nat
  BY <1>1, <1>2, <1>3, NatSets
<1>5. n \in T
  BY <1>4
<1> QED
  BY <1>5 DEF T

\* What it computes of sequences is a sequence.
LEMMA FlattensSeq ==
    ASSUME NEW S, NEW n \in Nat, NEW seqs \in Seq(Seq(S)), n = Len(seqs), n > 0,
           NEW f, Flattens(f, seqs, n)
    PROVE  f[n] \in Seq(S)
<1> DEFINE V == {m \in Nat : m + 1 \in 1..n => f[m + 1] \in Seq(S)}
<1>1. \A i \in 1..n : seqs[i] \in Seq(S)
  OBVIOUS
<1>0. \A i \in 1..n : f[i] = IF i = 1 THEN seqs[i] ELSE f[i - 1] \o seqs[i]
  BY DEF Flattens
<1>2. 0 \in V
  BY <1>0, <1>1
<1>3. ASSUME NEW m \in V
      PROVE  m + 1 \in V
  <2> SUFFICES ASSUME m + 2 \in 1..n
               PROVE  f[m + 2] \in Seq(S)
    OBVIOUS
  <2>0. m \in Nat /\ m + 2 # 1 /\ (m + 2) - 1 = m + 1 /\ m + 1 \in 1..n
    OBVIOUS
  <2>1. f[m + 2] = f[m + 1] \o seqs[m + 2]
    BY <1>0, <2>0
  <2>2. f[m + 1] \in Seq(S)
    BY <1>3, <2>0
  <2> QED
    BY <1>1, <2>1, <2>2
<1> HIDE DEF V
<1>4. V = Nat
  <2>1. V \in SUBSET Nat
    BY DEF V
  <2> QED
    BY <1>2, <1>3, <2>1, NatSets
<1>5. n - 1 \in V
  BY <1>4
<1> QED
  BY <1>5 DEF V

\* Sequences are flattened to a sequence.
LEMMA FlattenIsSeq ==
    ASSUME NEW S, NEW seqs \in Seq(Seq(S))
    PROVE  FlattenSeq(seqs) \in Seq(S)
<1>1. CASE Len(seqs) = 0
  BY <1>1 DEF FlattenSeq
<1>2. CASE Len(seqs) # 0
  <2> DEFINE f == CHOOSE g : g = [i \in 1..Len(seqs) |-> IF i = 1 THEN seqs[i] ELSE g[i - 1] \o seqs[i]]
  <2>1. FlattenSeq(seqs) = f[Len(seqs)]
    BY <1>2, Zenon DEF FlattenSeq
  <2>2. \E g : Flattens(g, seqs, Len(seqs))
    <3>1. Len(seqs) \in Nat
      OBVIOUS
    <3> QED
      BY <3>1, FlattensExists
  <2>3. Flattens(f, seqs, Len(seqs))
    BY <2>2 DEF Flattens
  <2> HIDE DEF f
  <2>4. f[Len(seqs)] \in Seq(S)
    BY <1>2, <2>3, FlattensSeq
  <2> QED
    BY <2>1, <2>4
<1> QED
  BY <1>1, <1>2

-----------------------------------------------------------------------------
(* Catalogs.                                                               *)

Answer == [state : {"listed", "down", "garbled"}, ids : Seq(Names)]

\* A catalog's ids begin with the model of its first candidate.
CatalogOK(found) ==
    /\ \E S : found.all \in Seq(S)
    /\ \E S : found.ids \in Seq(S)
    /\ found.all = <<>> => found.ids = <<>>
    /\ found.all # <<>> => found.ids # <<>> /\ Head(found.ids) = Head(found.all).model

LEMMA CandidatesAreSeq ==
    ASSUME NEW p \in Upstreams, NEW answer \in Answer
    PROVE  \E S : CandidatesOf(p, answer) \in Seq(S)
<1> DEFINE listed  == PrimaryModels(p, answer)
           models  == [k \in DOMAIN listed |-> [provider |-> p, model |-> listed[k], only |-> 0]]
           aliases == [k \in DOMAIN Chains[p] |->
                          [provider |-> p, model |-> Chains[p][k].exposed, only |-> k]]
           all     == models \o aliases
           ids     == [k \in DOMAIN all |-> all[k].model]
           places  == {k \in Firsts(ids) : ids[k] # NoModel}
<1>1. \E n \in Nat : DOMAIN listed = 1..n
  <2>1. CASE answer = Garbled
    <3>1. DOMAIN listed = 1..0
      BY <2>1 DEF PrimaryModels
    <3> QED
      BY <3>1
  <2>2. CASE answer # Garbled /\ Chains[p][1].rewrite # NoModel
    <3>1. DOMAIN listed = 1..1
      BY <2>2 DEF PrimaryModels
    <3> QED
      BY <3>1
  <2>3. CASE answer # Garbled /\ Chains[p][1].rewrite = NoModel
    BY <2>3 DEF PrimaryModels, Answer
  <2> QED
    BY <2>1, <2>2, <2>3
<1>2. \E n \in Nat : DOMAIN Chains[p] = 1..n
  BY RoutingAssumption DEF Upstreams
<1>3. \E n \in Nat : DOMAIN all = 1..n
  <2>1. \E S : models \in Seq(S)
    BY <1>1, FunctionIsSeq
  <2>2. \E S : aliases \in Seq(S)
    BY <1>2, FunctionIsSeq
  <2> HIDE DEF models, aliases
  <2>3. \E S : all \in Seq(S)
    BY <2>1, <2>2, ConcatenationIsSeq
  <2> HIDE DEF all
  <2> QED
    BY <2>3
<1>4. PICK n \in Nat : DOMAIN all = 1..n
  BY <1>3
<1> HIDE DEF all
<1>5. DOMAIN ids = 1..n
  BY <1>4
<1> HIDE DEF ids
<1>6. IsFiniteSet(Firsts(ids))
  BY <1>5, FirstsAreFinite
<1>7. IsFiniteSet(places)
  BY <1>6, FS_Subset
<1> HIDE DEF places
<1>8. \E S : Picked(all, places) \in Seq(S)
  BY <1>7, PickedIsSeq
<1>9. CandidatesOf(p, answer) = Picked(all, places)
  BY DEF CandidatesOf, all, ids, places
<1> QED
  BY <1>8, <1>9

LEMMA CatalogsAreOK ==
    ASSUME NEW answers \in Seq(Answer), Len(answers) <= Len(Chains)
    PROVE  CatalogOK(CatalogOf(answers))
<1> DEFINE of(p) == CandidatesOf(p, answers[p])
           lists == [p \in DOMAIN answers |-> of(p)]
           E    == UNION {{of(p)[n] : n \in DOMAIN of(p)} : p \in DOMAIN answers}
           all  == FlattenSeq(lists)
           ids  == [k \in DOMAIN all |-> all[k].model]
<1>1. ASSUME NEW p \in DOMAIN answers
      PROVE  of(p) \in Seq(E)
  <2>1. p \in Upstreams /\ answers[p] \in Answer
    BY RoutingAssumption DEF Upstreams
  <2>2. PICK S : of(p) \in Seq(S)
    BY <2>1, CandidatesAreSeq
  <2> HIDE DEF of
  <2>3. \A n \in 1..Len(of(p)) : of(p)[n] \in E
    BY <2>2
  <2> HIDE DEF E
  <2> QED
    BY <2>2, <2>3
<1>2. lists \in Seq(Seq(E))
  <2> HIDE DEF of, E
  <2>1. Len(answers) \in Nat /\ DOMAIN answers = 1..Len(answers)
    OBVIOUS
  <2> QED
    BY <1>1, <2>1
<1> HIDE DEF E, lists
<1>3. all \in Seq(E)
  BY <1>2, FlattenIsSeq
<1>4. CatalogOf(answers) = [ok |-> all # <<>> \/ Routes # <<>>, all |-> all,
                            ids |-> Picked(ids, Firsts(ids))]
  BY DEF CatalogOf, lists
<1> HIDE DEF all
<1>5. Len(all) \in Nat /\ DOMAIN all = 1..Len(all) /\ DOMAIN ids = 1..Len(all)
  BY <1>3
<1> HIDE DEF ids
<1>6. IsFiniteSet(Firsts(ids)) /\ Firsts(ids) \subseteq 1..Len(all)
  BY <1>5, FirstsAreFinite
<1>7. \E S : Picked(ids, Firsts(ids)) \in Seq(S)
  BY <1>6, PickedIsSeq
<1>8. CASE all = <<>>
  <2>1. Firsts(ids) = {}
    BY <1>6, <1>8
  <2>2. Picked(ids, Firsts(ids)) = <<>>
    <3>1. Len(Picked(ids, Firsts(ids))) = 0
      BY <1>6, <2>1, PickedIsSeq, FS_EmptySet
    <3> QED
      BY <1>7, <3>1
  <2> QED
    BY <1>3, <1>4, <1>8, <2>2 DEF CatalogOK
<1>9. CASE all # <<>>
  <2>1. Len(all) > 0
    BY <1>3, <1>9
  <2>2. /\ Cardinality(Firsts(ids)) \in Nat \ {0}
        /\ Picked(ids, Firsts(ids))[1] = ids[1]
    BY <1>5, <2>1, PickedBegins
  <2>3. ids[1] = all[1].model
    BY <1>5, <2>1 DEF ids
  <2>4. Len(Picked(ids, Firsts(ids))) # 0
    BY <1>6, <2>2, PickedIsSeq
  <2>5. Picked(ids, Firsts(ids)) # <<>>
    BY <2>4
  <2>6. Head(Picked(ids, Firsts(ids))) = Head(all).model
    BY <1>3, <1>7, <1>9, <2>2, <2>3, <2>5
  <2> QED
    BY <1>3, <1>4, <1>7, <1>9, <2>5, <2>6 DEF CatalogOK
<1> QED
  BY <1>8, <1>9

\* In a catalog like that, the first id is the first candidate's.
LEMMA FirstIsHead ==
    ASSUME NEW found, CatalogOK(found), found.all # <<>>
    PROVE  FirstOf(found.all, Head(found.ids)) = Head(found.all)
<1> DEFINE I == {i \in 1..Len(found.all) : found.all[i].model = Head(found.ids)}
<1>1. PICK S : found.all \in Seq(S)
  BY DEF CatalogOK
<1>2. 1 \in I
  BY <1>1 DEF CatalogOK
<1>3. (CHOOSE x \in I : \A y \in I : x <= y) = 1
  BY <1>1, <1>2
<1>4. SelectInSeq(found.all, LAMBDA c : c.model = Head(found.ids)) = 1
  BY <1>2, <1>3 DEF SelectInSeq, Min
<1> QED
  BY <1>1, <1>4 DEF FirstOf

\* The ladders agree on such a catalog, for any name.
LEMMA SameTarget ==
    ASSUME NEW found, CatalogOK(found), NEW name
    PROVE  Resolve(found, Normalize(found.ids, name).model) = Resolve(found, name)
<1> DEFINE alike == Alike(found.ids, name)
<1>1. CASE name \in ToSet(found.ids) \/ MatchRoute(name) # 0
  BY <1>1 DEF Normalize, Named
<1>2. CASE ~(name \in ToSet(found.ids) \/ MatchRoute(name) # 0) /\ Cardinality(alike) = 1
  <2> DEFINE id == CHOOSE x \in alike : TRUE
  <2>1. \E x : x \in alike
    <3>1. alike # {}
      BY <1>2, FS_EmptySet
    <3> QED
      BY <3>1
  <2>2. id \in ToSet(found.ids)
    BY <2>1 DEF Alike
  <2>3. Normalize(found.ids, name).model = id
    BY <1>2 DEF Normalize, Named
  <2> HIDE DEF id
  <2>4. Resolve(found, id) = FirstOf(found.all, id)
    BY <2>2 DEF Resolve
  <2>5. Resolve(found, name) = FirstOf(found.all, id)
    BY <1>2 DEF Resolve, id
  <2> QED
    BY <2>3, <2>4, <2>5
<1>3. CASE /\ ~(name \in ToSet(found.ids) \/ MatchRoute(name) # 0)
           /\ Cardinality(alike) # 1 /\ found.ids # <<>>
  <2>1. found.all # <<>>
    BY <1>3 DEF CatalogOK
  <2>2. Normalize(found.ids, name).model = Head(found.ids)
    BY <1>3 DEF Normalize, Named
  <2>3. Head(found.ids) \in ToSet(found.ids)
    BY <1>3 DEF CatalogOK, ToSet
  <2>4. Resolve(found, Head(found.ids)) = FirstOf(found.all, Head(found.ids))
    BY <2>3 DEF Resolve
  <2>5. Resolve(found, name) = Head(found.all)
    BY <1>3, <2>1 DEF Resolve
  <2> QED
    BY <2>1, <2>2, <2>4, <2>5, FirstIsHead
<1>4. CASE /\ ~(name \in ToSet(found.ids) \/ MatchRoute(name) # 0)
           /\ Cardinality(alike) # 1 /\ found.ids = <<>>
  BY <1>4 DEF Normalize, Named
<1> QED
  BY <1>1, <1>2, <1>3, <1>4

-----------------------------------------------------------------------------
(* The catalog in use is one that a refresh made.                          *)

CatalogInv ==
    /\ offers \in [Upstreams -> Answer]
    /\ refresh \in [by : Inbound \cup {Nobody}, answers : Seq(Answer), since : Nat]
    /\ Len(refresh.answers) <= Len(Chains)
    /\ CatalogOK(catalog.found)
    /\ changes \in Nat

LEMMA CatalogInit == RoutingInit => CatalogInv
<1> SUFFICES ASSUME RoutingInit
             PROVE  CatalogInv
  OBVIOUS
<1>1. offers \in [Upstreams -> Answer]
  <2>1. \A p \in Upstreams : Offers[p] \subseteq Answer
    BY RoutingAssumption DEF Answer
  <2>2. offers \in [Upstreams -> UNION {Offers[p] : p \in Upstreams}]
    BY DEF RoutingInit
  <2> QED
    BY <2>1, <2>2
<1>2. CatalogOK(catalog.found)
  <2>1. catalog.found = NoCatalog
    BY DEF RoutingInit
  <2>2. <<>> \in Seq({})
    OBVIOUS
  <2> QED
    BY <2>1, <2>2 DEF NoCatalog, CatalogOK
<1>3. refresh \in [by : Inbound \cup {Nobody}, answers : Seq(Answer), since : Nat] /\ Len(refresh.answers) = 0
  BY DEF RoutingInit, Idle
<1>4. Len(Chains) \in Nat /\ changes \in Nat
  BY RoutingAssumption DEF RoutingInit
<1> QED
  BY <1>1, <1>2, <1>3, <1>4 DEF CatalogInv

LEMMA CatalogSteps ==
    ASSUME CatalogInv, RoutingNext
    PROVE  CatalogInv'
<1>0. Len(Chains) \in Nat /\ Len(refresh.answers) \in Nat
  BY RoutingAssumption DEF CatalogInv
<1>1. ASSUME NEW r \in Inbound, RoutingStep(r)
      PROVE  CatalogInv'
  <2>1. CASE \E kind \in {"turn", "raw"}, name \in Asked : AskFor(r, kind, name)
    BY <2>1 DEF AskFor, CatalogInv
  <2>2. CASE NameFromCache(r) \/ TakeNames(r) \/ AnswerOver(r)
    BY <2>2 DEF NameFromCache, TakeNames, AnswerOver, CatalogInv
  <2>3. CASE LoadCached(r)
    BY <2>3 DEF LoadCached, CatalogInv
  <2>4. CASE StartRefresh(r)
    BY <1>0, <2>4 DEF StartRefresh, CatalogInv
  <2>5. CASE Hear(r)
    <3>1. Len(refresh.answers) + 1 \in Upstreams
      BY <1>0, <2>5, RoutingAssumption DEF Hear, Upstreams
    <3>2. offers[Len(refresh.answers) + 1] \in Answer
      BY <3>1 DEF CatalogInv
    <3>3. refresh' = [refresh EXCEPT !.answers = Append(@, offers[Len(@) + 1])]
      BY <2>5 DEF Hear
    <3>4. /\ refresh' \in [by : Inbound \cup {Nobody}, answers : Seq(Answer), since : Nat]
          /\ Len(refresh'.answers) = Len(refresh.answers) + 1
      <4> DEFINE heard == Append(refresh.answers, offers[Len(refresh.answers) + 1])
      <4>1. refresh \in [by : Inbound \cup {Nobody}, answers : Seq(Answer), since : Nat]
        BY DEF CatalogInv
      <4>2. refresh.answers \in Seq(Answer)
        BY <4>1
      <4>3. heard \in Seq(Answer) /\ Len(heard) = Len(refresh.answers) + 1
        BY <3>2, <4>2
      <4>4. refresh' = [refresh EXCEPT !.answers = heard]
        BY <3>3
      <4> HIDE DEF heard
      <4> QED
        BY ONLY <4>1, <4>3, <4>4
    <3> QED
      BY <1>0, <2>5, <3>4 DEF Hear, CatalogInv
  <2>6. CASE FinishRefresh(r)
    <3>1. CatalogOK(CatalogOf(refresh.answers))
      BY <1>0, <2>6, CatalogsAreOK DEF FinishRefresh, CatalogInv
    <3>2. CatalogOK(catalog'.found)
      BY <2>6, <3>1 DEF FinishRefresh, Ending, CatalogInv
    <3> QED
      BY <1>0, <2>6, <3>2 DEF FinishRefresh, Ending, Idle, CatalogInv
  <2>7. CASE HangUp(r)
    BY <1>0, <2>7 DEF HangUp, Idle, CatalogInv
  <2> QED
    BY <1>1, <2>1, <2>2, <2>3, <2>4, <2>5, <2>6, <2>7 DEF RoutingStep
<1>2. CASE TimePasses
  BY <1>2 DEF TimePasses, Older, CatalogInv
<1>3. ASSUME NEW p \in Upstreams, OfferChanges(p)
      PROVE  CatalogInv'
  <2>1. Offers[p] \subseteq Answer
    BY RoutingAssumption DEF Answer
  <2> QED
    BY <1>3, <2>1 DEF OfferChanges, CatalogInv
<1> QED
  BY <1>1, <1>2, <1>3 DEF RoutingNext

LEMMA CatalogStutters ==
    ASSUME CatalogInv, UNCHANGED routingVars
    PROVE  CatalogInv'
BY DEF CatalogInv, routingVars

LEMMA CatalogKept == RoutingSpec => []CatalogInv
<1>1. RoutingInit => CatalogInv
  BY CatalogInit
<1>2. CatalogInv /\ [RoutingNext]_routingVars => CatalogInv'
  BY CatalogSteps, CatalogStutters
<1> QED
  BY <1>1, <1>2, PTL DEF RoutingSpec

\* The engine's ladder and the routing client's agree on whatever catalog a
\* refresh can have made of the upstreams' answers.
THEOREM LaddersMatch == RoutingSpec => []LaddersAgree
<1>1. CatalogInv => LaddersAgree
  BY SameTarget DEF CatalogInv, LaddersAgree
<1> QED
  BY <1>1, CatalogKept, PTL

-----------------------------------------------------------------------------
(* A turn's answers come from its plan.                                    *)

\* What a refresh finds if nothing changes while it asks.
Now == CatalogOf(offers)

Late == {"budgeting", "routing", "streaming"}

Shaped(t) ==
    t \in [kind : {t.kind}, name : {t.name}, at : {t.at}, model : {t.model},
           genuine : {t.genuine}, plan : {t.plan}, since : {t.since}, raw : {t.raw},
           landed : {t.landed}, rounds : {t.rounds}]

\* What holds of a request when the upstreams offer what is found, after n
\* changes: if none of them came after its plan was asked for, the plan is that
\* of what is found.
TurnOK(t, found, n) ==
    /\ Shaped(t)
    /\ t.since \in Nat /\ t.since <= n
    /\ t.kind = "turn" =>
          /\ t.at \notin Late => t.landed = {}
          /\ t.at \in Late /\ t.since = n =>
                t.plan = PlanFor(found, t.model) /\ t.landed \subseteq ToSet(t.plan)

TurnsInv ==
    /\ inbound = [r \in Inbound |-> inbound[r]]
    /\ \A r \in Inbound : TurnOK(inbound[r], Now, changes)

\* A catalog asked for at since is not older than any plan; if nothing changed
\* after that, it is what the upstreams offer.
Current(found, since) ==
    /\ since \in Nat /\ since <= changes
    /\ since = changes => found = Now
    /\ \A r \in Inbound : inbound[r].since <= since

\* Whoever refreshes the catalog has heard of every upstream so far what it
\* offers, if nothing changed after the refresh began.
Refreshing ==
    /\ ~Fresh(catalog)
    /\ refresh.since <= changes
    /\ refresh.since = changes =>
          \A p \in 1..Len(refresh.answers) : refresh.answers[p] = offers[p]
    /\ \A r \in Inbound : inbound[r].since <= refresh.since

SinceInv ==
    /\ changes \in Nat
    /\ catalog = [age |-> catalog.age, found |-> catalog.found, since |-> catalog.since]
    /\ refresh.by # Nobody => Refreshing
    /\ Fresh(catalog) => Current(catalog.found, catalog.since)

\* Whoever serves a target was planned for it.
LEMMA ServersPlanned ==
    ASSUME NEW found, NEW name, found.ok, Resolve(found, name) # NoTarget
    PROVE  Servers(Resolve(found, name)) \subseteq ToSet(PlanFor(found, name))
<1> DEFINE target == Resolve(found, name)
           shown == PlanFor(found, name)
<1>1. CASE target.provider = 0
  <2>1. shown = <<target.model>> /\ Servers(target) = {target.model}
    BY <1>1 DEF PlanFor, Servers
  <2> QED
    BY <2>1 DEF ToSet
<1>2. CASE target.provider # 0 /\ target.only # 0
  <2> DEFINE alone == EffectiveModel(target.provider, target.only, target.model)
  <2>1. shown = <<alone>>
    BY <1>2 DEF PlanFor
  <2>2. Servers(target) = {alone}
    BY <1>2 DEF Servers, Tried, SentTo, EffectiveModel
  <2> QED
    BY <2>1, <2>2 DEF ToSet
<1>3. CASE target.provider # 0 /\ target.only = 0
  <2>1. shown = ChainPlan(target.provider, target.model)
    BY <1>3 DEF PlanFor
  <2>2. Servers(target) =
            {SentTo(target.provider, k, target.model) : k \in DOMAIN Chains[target.provider]}
    BY <1>3 DEF Servers, Tried
  <2> HIDE DEF target, shown
  <2>3. ASSUME NEW k \in DOMAIN Chains[target.provider]
        PROVE  SentTo(target.provider, k, target.model) \in ToSet(shown)
    BY <2>1 DEF ChainPlan, SentTo, EffectiveModel, ToSet
  <2>4. Servers(target) \subseteq ToSet(shown)
    BY <2>2, <2>3
  <2> QED
    BY <2>4 DEF target, shown
<1> QED
  BY <1>1, <1>2, <1>3

LEMMA MoveKeeps ==
    ASSUME TurnsInv, NEW r \in Inbound, NEW to, TurnOK(to, Now, changes), Move(r, to),
           UNCHANGED <<offers, changes>>
    PROVE  TurnsInv' /\ \A s \in Inbound : inbound'[s] = IF s = r THEN to ELSE inbound[s]
<1>1. \A s \in Inbound : inbound'[s] = IF s = r THEN to ELSE inbound[s]
  BY DEF TurnsInv, Move
<1>2. Now' = Now
  BY DEF Now
<1> QED
  BY <1>1, <1>2 DEF TurnsInv, Move

LEMMA LeftIsOK ==
    ASSUME NEW found, NEW n \in Nat
    PROVE  /\ TurnOK(Left, found, n) /\ TurnOK(Away, found, n)
           /\ Left.since = 0 /\ Away.since = 0
<1>1. Shaped(Left) /\ Left.kind = "raw" /\ Left.since = 0
  BY DEF Shaped, Left, Away, NewTurn
<1>2. Shaped(Away) /\ Away.kind = "raw" /\ Away.since = 0
  BY DEF Shaped, Away, NewTurn
<1> QED
  BY <1>1, <1>2 DEF TurnOK

LEMMA NamingKeeps ==
    ASSUME NEW t, NEW offered, NEW n, TurnOK(t, offered, n), t.at \in {"naming", "listing"},
           NEW named, NEW genuine
    PROVE  TurnOK([t EXCEPT !.at = "gating", !.model = named, !.genuine = genuine], offered, n)
<1> DEFINE to == [t EXCEPT !.at = "gating", !.model = named, !.genuine = genuine]
<1>1. Shaped(to) /\ to.at = "gating" /\ to.kind = t.kind /\ to.since = t.since
      /\ to.landed = t.landed
  BY DEF TurnOK, Shaped
<1> HIDE DEF to
<1>2. TurnOK(to, offered, n)
  BY <1>1 DEF TurnOK, Late
<1> QED
  BY <1>2 DEF to

\* Every end of a load by such a catalog keeps the turns so, and none of them
\* has a plan by a newer one.
LEMMA LoadsKeep ==
    ASSUME TurnsInv, changes \in Nat, NEW r \in Inbound, NEW found, NEW since,
           Current(found, since), LoadEnds(r, found, since), UNCHANGED <<offers, changes>>
    PROVE  TurnsInv' /\ \A s \in Inbound : inbound'[s].since <= since
<1> DEFINE t == inbound[r]
<1>0. TurnOK(t, Now, changes) /\ t.since \in Nat /\ t.since <= since
  BY DEF TurnsInv, TurnOK, Current
<1>m. ASSUME NEW to, TurnOK(to, Now, changes), to.since <= since, Move(r, to)
      PROVE  TurnsInv' /\ \A s \in Inbound : inbound'[s].since <= since
  <2>1. TurnsInv' /\ \A s \in Inbound : inbound'[s] = IF s = r THEN to ELSE inbound[s]
    BY <1>m, MoveKeeps
  <2> QED
    BY <1>m, <2>1 DEF Current
<1>1. CASE ListingEnds(r, found)
  <2>1. PICK named, genuine :
            Move(r, [t EXCEPT !.at = "gating", !.model = named, !.genuine = genuine])
    BY <1>1 DEF ListingEnds
  <2> DEFINE to == [t EXCEPT !.at = "gating", !.model = named, !.genuine = genuine]
  <2>2. TurnOK(to, Now, changes)
    BY <1>0, <1>1, NamingKeeps DEF ListingEnds, At
  <2>4. to.since = t.since
    BY <1>0 DEF TurnOK, Shaped
  <2>3. Move(r, to)
    BY <2>1
  <2> HIDE DEF to
  <2> QED
    BY <1>0, <1>m, <2>2, <2>3, <2>4
<1>2. CASE GatingEnds(r, found, since)
  <2> DEFINE shown == PlanFor(found, t.model)
             raw  == IsNative(t.name, t.genuine, shown)
             to   == [t EXCEPT !.at = "budgeting", !.plan = shown, !.since = since, !.raw = raw]
  <2>1. Move(r, to)
    BY <1>2 DEF GatingEnds
  <2> HIDE DEF raw
  <2>2. t.at = "gating"
    BY <1>2 DEF GatingEnds, At
  <2>3. Shaped(to) /\ to.at = "budgeting" /\ to.kind = t.kind /\ to.landed = t.landed
        /\ to.plan = PlanFor(found, to.model) /\ to.since = since
    <3> HIDE DEF shown
    <3>1. Shaped(to) /\ to.at = "budgeting" /\ to.kind = t.kind /\ to.landed = t.landed
          /\ to.plan = shown /\ to.since = since /\ to.model = t.model
      BY <1>0 DEF TurnOK, Shaped
    <3> HIDE DEF to
    <3> QED
      BY <3>1 DEF shown
  <2> HIDE DEF to
  <2>4. TurnOK(to, Now, changes)
    BY <1>0, <2>2, <2>3 DEF TurnOK, Current, Late
  <2>5. to.since <= since
    BY <2>3 DEF Current
  <2> QED
    BY <1>m, <2>1, <2>4, <2>5
<1>3. CASE BudgetingEnds(r)
  <2> DEFINE to == [t EXCEPT !.at = "routing"]
  <2>1. t.at = "budgeting" /\ Move(r, to)
    BY <1>3 DEF BudgetingEnds, At
  <2>2. TurnOK(to, Now, changes) /\ to.since = t.since
    BY <1>0, <2>1 DEF TurnOK, Shaped, Late
  <2> HIDE DEF to
  <2> QED
    BY <1>0, <1>m, <2>1, <2>2
<1>4. CASE RoutingEnds(r, found)
  <2> DEFINE target == Resolve(found, t.model)
  <2>1. CASE found.ok /\ target # NoTarget
    <3>1. PICK backend \in Servers(target) :
              Move(r, [t EXCEPT !.at = "streaming", !.landed = @ \cup {backend},
                                !.rounds = @ + 1])
      BY <1>4, <2>1 DEF RoutingEnds, Routed
    <3> DEFINE to == [t EXCEPT !.at = "streaming", !.landed = @ \cup {backend},
                               !.rounds = @ + 1]
    <3>2. t.at = "routing"
      BY <1>4 DEF RoutingEnds, At
    <3>3. Shaped(to) /\ to.at = "streaming" /\ to.kind = t.kind /\ to.since = t.since
          /\ to.landed = t.landed \cup {backend} /\ to.plan = t.plan /\ to.model = t.model
      BY <1>0 DEF TurnOK, Shaped
    <3>4. backend \in ToSet(PlanFor(found, t.model))
      BY <2>1, <3>1, ServersPlanned
    <3>5. Move(r, to)
      BY <3>1
    <3> HIDE DEF to, target
    <3>6. t.since = changes => found = Now
      BY <1>0 DEF Current
    <3>7. TurnOK(to, Now, changes)
      BY <1>0, <3>2, <3>3, <3>4, <3>6 DEF TurnOK, Late
    <3> QED
      BY <1>0, <1>m, <3>3, <3>5, <3>7
  <2>2. CASE ~(found.ok /\ target # NoTarget)
    <3>1. Move(r, Left)
      BY <1>4, <2>2 DEF RoutingEnds
    <3>2. Left.since <= since
      BY <1>0, LeftIsOK DEF Current
    <3> QED
      BY <1>m, <3>1, <3>2, LeftIsOK
  <2> QED
    BY <2>1, <2>2
<1> QED
  BY <1>1, <1>2, <1>3, <1>4 DEF LoadEnds

LEMMA SinceInit == RoutingInit => TurnsInv /\ SinceInv
<1> SUFFICES ASSUME RoutingInit
             PROVE  TurnsInv /\ SinceInv
  OBVIOUS
<1>1. changes = 0 /\ refresh.by = Nobody /\ inbound = [r \in Inbound |-> Away]
      /\ catalog = [age |-> CatalogTtl, found |-> NoCatalog, since |-> 0]
  BY DEF RoutingInit, Idle
<1>2. ~Fresh(catalog)
  BY <1>1, RoutingAssumption DEF Fresh
<1>3. TurnsInv
  BY <1>1, LeftIsOK DEF TurnsInv
<1> QED
  BY <1>1, <1>2, <1>3 DEF SinceInv

\* A request's own steps leave the catalog and the refresh, and give it no newer
\* plan.
LEMMA OwnStepsKeep ==
    ASSUME TurnsInv, SinceInv, NEW r \in Inbound, NEW to, TurnOK(to, Now, changes),
           to.since = 0 \/ to.since = inbound[r].since, Move(r, to), refresh.since \in Nat,
           UNCHANGED <<offers, changes, catalog>>,
           refresh' = refresh \/ refresh'.by = Nobody
    PROVE  TurnsInv' /\ SinceInv'
<1>1. TurnsInv' /\ \A s \in Inbound : inbound'[s] = IF s = r THEN to ELSE inbound[s]
  BY MoveKeeps
<1>2. \A s \in Inbound : inbound[s].since \in Nat
  BY DEF TurnsInv, TurnOK
<1>3. Now' = Now
  BY DEF Now
<1>4. ASSUME NEW n \in Nat, \A s \in Inbound : inbound[s].since <= n
      PROVE  \A s \in Inbound : inbound'[s].since <= n
  BY <1>1, <1>2, <1>4
<1>5. Fresh(catalog) => Current(catalog.found, catalog.since)'
  BY <1>3, <1>4 DEF SinceInv, Current
<1>6. refresh.by # Nobody /\ refresh' = refresh => Refreshing'
  <2> SUFFICES ASSUME refresh.by # Nobody, refresh' = refresh
               PROVE  Refreshing'
    OBVIOUS
  <2>1. Refreshing
    BY DEF SinceInv
  <2>2. \A s \in Inbound : inbound'[s].since <= refresh.since
    BY <1>4, <2>1 DEF Refreshing
  <2> QED
    BY <2>1, <2>2 DEF Refreshing, Fresh
<1> QED
  BY <1>1, <1>5, <1>6 DEF SinceInv, Fresh

LEMMA SinceSteps ==
    ASSUME CatalogInv, TurnsInv, SinceInv, RoutingNext
    PROVE  TurnsInv' /\ SinceInv'
<1>0. changes \in Nat /\ Len(Chains) \in Nat /\ Len(refresh.answers) \in Nat
      /\ refresh.since \in Nat
  BY RoutingAssumption DEF CatalogInv, SinceInv
<1>1. ASSUME NEW r \in Inbound, RoutingStep(r)
      PROVE  TurnsInv' /\ SinceInv'
  <2> DEFINE t == inbound[r]
  <2>0. TurnOK(t, Now, changes)
    BY DEF TurnsInv
  <2>1. ASSUME NEW kind, NEW name, AskFor(r, kind, name)
        PROVE  TurnsInv' /\ SinceInv'
    <3>1. TurnOK(NewTurn(kind, name), Now, changes) /\ NewTurn(kind, name).since = 0
      BY <1>0 DEF NewTurn, TurnOK, Shaped, Late
    <3> QED
      BY <1>0, <2>1, <3>1, OwnStepsKeep DEF AskFor
  <2>2. CASE NameFromCache(r)
    <3>1. PICK named, genuine :
              Move(r, [t EXCEPT !.at = "gating", !.model = named, !.genuine = genuine])
      BY <2>2 DEF NameFromCache
    <3> DEFINE to == [t EXCEPT !.at = "gating", !.model = named, !.genuine = genuine]
    <3>2. TurnOK(to, Now, changes)
      BY <2>0, <2>2, NamingKeeps DEF NameFromCache, At
    <3>4. to.since = t.since
      BY <2>0 DEF TurnOK, Shaped
    <3>3. Move(r, to)
      BY <3>1
    <3> HIDE DEF to
    <3> QED
      BY <1>0, <2>2, <3>2, <3>3, <3>4, OwnStepsKeep DEF NameFromCache
  <2>3. CASE TakeNames(r)
    <3> DEFINE to == [t EXCEPT !.at = "listing"]
    <3>1. Move(r, to) /\ t.at = "naming"
      BY <2>3 DEF TakeNames, At
    <3>2. TurnOK(to, Now, changes) /\ to.since = t.since
      BY <2>0, <3>1 DEF TurnOK, Shaped, Late
    <3> HIDE DEF to
    <3> QED
      BY <1>0, <2>3, <3>1, <3>2, OwnStepsKeep DEF TakeNames
  <2>4. CASE LoadCached(r)
    <3>1. Fresh(catalog) /\ Current(catalog.found, catalog.since)
      BY <2>4 DEF LoadCached, SinceInv
    <3>2. TurnsInv' /\ \A s \in Inbound : inbound'[s].since <= catalog.since
      BY <1>0, <2>4, <3>1, LoadsKeep DEF LoadCached
    <3>3. refresh'.by = Nobody /\ UNCHANGED <<offers, changes, catalog>>
      BY <2>4 DEF LoadCached, Idle
    <3>4. Current(catalog.found, catalog.since)'
      BY <3>1, <3>2, <3>3 DEF Current, Now
    <3> QED
      BY <3>2, <3>3, <3>4 DEF SinceInv
  <2>5. CASE StartRefresh(r)
    <3>1. UNCHANGED <<offers, changes, catalog, inbound>> /\ ~Fresh(catalog)
          /\ refresh'.since = changes /\ refresh'.answers = <<>>
      BY <2>5 DEF StartRefresh
    <3>2. \A s \in Inbound : inbound[s].since <= changes
      BY DEF TurnsInv, TurnOK
    <3>3. Refreshing'
      BY <1>0, <3>1, <3>2 DEF Refreshing, Fresh
    <3>4. ~Fresh(catalog)'
      BY <3>1 DEF Fresh
    <3> QED
      BY <3>1, <3>3, <3>4 DEF SinceInv, TurnsInv, Now
  <2>6. CASE Hear(r)
    <3> DEFINE k == Len(refresh.answers) + 1
    <3>1. UNCHANGED <<offers, changes, catalog, inbound>> /\ refresh.by = r
      BY <2>6 DEF Hear
    <3>2. Refreshing
      BY <3>1, RoutingAssumption DEF SinceInv
    <3>3. /\ refresh'.since = refresh.since
          /\ Len(refresh'.answers) = k
          /\ \A p \in 1..k : refresh'.answers[p] =
                IF p = k THEN offers[k] ELSE refresh.answers[p]
      <4> DEFINE heard == Append(refresh.answers, offers[k])
      <4>1. refresh \in [by : Inbound \cup {Nobody}, answers : Seq(Answer), since : Nat]
        BY DEF CatalogInv
      <4>2. refresh' = [refresh EXCEPT !.answers = heard]
        BY <2>6 DEF Hear
      <4>3. Len(heard) = k /\ \A p \in 1..k : heard[p] =
                IF p = k THEN offers[k] ELSE refresh.answers[p]
        <5>1. refresh.answers \in Seq(Answer)
          BY <4>1
        <5> QED
          BY <5>1
      <4> HIDE DEF heard, k
      <4> QED
        BY ONLY <4>1, <4>2, <4>3
    <3>4. Refreshing'
      <4>1. refresh.since = changes =>
                \A p \in 1..k : refresh'.answers[p] = offers[p]
        BY <1>0, <3>2, <3>3 DEF Refreshing
      <4> HIDE DEF k
      <4> QED
        BY <3>1, <3>2, <3>3, <4>1 DEF Refreshing, Fresh
    <3>5. ~Fresh(catalog)'
      BY <3>1, <3>2 DEF Refreshing, Fresh
    <3> QED
      BY <3>1, <3>4, <3>5 DEF SinceInv, TurnsInv, Now
  <2>7. CASE FinishRefresh(r)
    <3> DEFINE found == CatalogOf(refresh.answers)
               since == refresh.since
    <3>1. refresh.by = r /\ UNCHANGED <<offers, changes>> /\ refresh'.by = Nobody
          /\ LoadEnds(r, found, since)
      BY <2>7 DEF FinishRefresh, Ending, Idle
    <3>2. Refreshing
      BY <3>1, RoutingAssumption DEF SinceInv
    <3>3. since = changes => found = Now
      <4> SUFFICES ASSUME since = changes
                   PROVE  refresh.answers = offers
        BY DEF Now
      <4>1. refresh.answers \in Seq(Answer) /\ Len(refresh.answers) = Len(Chains)
        BY <2>7 DEF CatalogInv, FinishRefresh
      <4>2. offers \in [1..Len(Chains) -> Answer]
        BY RoutingAssumption DEF CatalogInv, Upstreams
      <4>3. \A p \in 1..Len(Chains) : refresh.answers[p] = offers[p]
        BY <3>2, <4>1 DEF Refreshing
      <4> QED
        BY <1>0, <4>1, <4>2, <4>3
    <3>4. Current(found, since)
      BY <1>0, <3>2, <3>3 DEF Refreshing, Current
    <3>5. catalog' = IF found.ok THEN [age |-> 0, found |-> found, since |-> since]
                     ELSE catalog
      BY <2>7 DEF FinishRefresh, Ending
    <3> HIDE DEF found
    <3>6. TurnsInv' /\ \A s \in Inbound : inbound'[s].since <= since
      BY <1>0, <3>1, <3>4, LoadsKeep
    <3>7. CASE found.ok
      <4>1. catalog' = [age |-> 0, found |-> found, since |-> since]
        BY <3>5, <3>7
      <4>2. Current(catalog.found, catalog.since)'
        BY <3>1, <3>4, <3>6, <4>1 DEF Current, Now
      <4> QED
        BY <1>0, <3>1, <3>6, <4>1, <4>2 DEF SinceInv
    <3>8. CASE ~found.ok
      <4>1. catalog' = catalog /\ ~Fresh(catalog)'
        BY <3>2, <3>5, <3>8 DEF Refreshing, Fresh
      <4> QED
        BY <1>0, <3>1, <3>6, <4>1 DEF SinceInv
    <3> QED
      BY <3>7, <3>8
  <2>8. CASE AnswerOver(r)
    <3> DEFINE to == [t EXCEPT !.at = "routing"]
    <3>1. t.at = "streaming" => TurnOK(to, Now, changes) /\ to.since = t.since
      BY <2>0 DEF TurnOK, Shaped, Late
    <3>2. t.at = "streaming" /\ (Move(r, to) \/ Move(r, Left))
          /\ UNCHANGED <<offers, changes, catalog, refresh>>
      BY <2>8 DEF AnswerOver, At
    <3> HIDE DEF to
    <3> QED
      BY <1>0, <3>1, <3>2, LeftIsOK, OwnStepsKeep
  <2>9. CASE HangUp(r)
    <3>1. Move(r, Left) /\ UNCHANGED <<offers, changes, catalog>>
          /\ (refresh' = refresh \/ refresh'.by = Nobody)
      BY <2>9 DEF HangUp, Idle
    <3> QED
      BY <1>0, <3>1, LeftIsOK, OwnStepsKeep
  <2> QED
    BY <1>1, <2>1, <2>2, <2>3, <2>4, <2>5, <2>6, <2>7, <2>8, <2>9 DEF RoutingStep
<1>2. CASE TimePasses
  <2>1. UNCHANGED <<offers, changes, refresh, inbound>>
        /\ catalog' = IF Fresh(catalog) THEN [catalog EXCEPT !.age = @ + 1] ELSE catalog
    BY <1>2 DEF TimePasses, Older
  <2>2. catalog'.found = catalog.found /\ catalog'.since = catalog.since
        /\ catalog' = [age |-> catalog'.age, found |-> catalog.found, since |-> catalog.since]
    BY <2>1 DEF SinceInv
  <2>3. Fresh(catalog)' => Fresh(catalog)
    BY <2>1 DEF Fresh
  <2>4. TurnsInv'
    BY <2>1 DEF TurnsInv, Now
  <2>5. refresh.by # Nobody => Refreshing'
    BY <2>1, <2>3 DEF SinceInv, Refreshing
  <2>6. Fresh(catalog)' => Current(catalog.found, catalog.since)'
    BY <2>1, <2>2, <2>3 DEF SinceInv, Current, Now
  <2> QED
    BY <1>0, <2>1, <2>2, <2>4, <2>5, <2>6 DEF SinceInv
<1>3. ASSUME NEW p \in Upstreams, OfferChanges(p)
      PROVE  TurnsInv' /\ SinceInv'
  <2>1. changes' = changes + 1 /\ UNCHANGED <<catalog, refresh, inbound>>
    BY <1>3 DEF OfferChanges
  <2>2. \A r \in Inbound : TurnOK(inbound[r], Now', changes')
    BY <1>0, <2>1 DEF TurnsInv, TurnOK
  <2>3. TurnsInv'
    BY <2>1, <2>2 DEF TurnsInv
  <2>4. refresh.by # Nobody => Refreshing'
    BY <1>0, <2>1 DEF SinceInv, Refreshing, Fresh
  <2>5. Fresh(catalog) => Current(catalog.found, catalog.since)'
    BY <1>0, <2>1 DEF SinceInv, Current
  <2> QED
    BY <1>0, <2>1, <2>3, <2>4, <2>5 DEF SinceInv, Fresh
<1> QED
  BY <1>1, <1>2, <1>3 DEF RoutingNext

LEMMA SinceStutters ==
    ASSUME TurnsInv, SinceInv, UNCHANGED routingVars
    PROVE  TurnsInv' /\ SinceInv'
BY DEF TurnsInv, SinceInv, Refreshing, Current, Fresh, Now, routingVars

\* Whoever serves a turn was planned for it while the upstreams offer what they
\* offered when the plan's catalog was asked for, whatever became of the catalog
\* in between: the plan and every dispatch are of the same answers.
THEOREM ServersAreJudged == RoutingSpec => []ServerWasJudged
<1>1. RoutingInit => TurnsInv /\ SinceInv
  BY SinceInit
<1>2. CatalogInv /\ (TurnsInv /\ SinceInv) /\ [RoutingNext]_routingVars
          => (TurnsInv /\ SinceInv)'
  BY SinceSteps, SinceStutters
<1>3. TurnsInv => ServerWasJudged
  <2> SUFFICES ASSUME TurnsInv, NEW r \in Inbound,
                      inbound[r].kind = "turn", inbound[r].since = changes
               PROVE  inbound[r].landed \subseteq ToSet(inbound[r].plan)
    BY DEF ServerWasJudged
  <2>1. TurnOK(inbound[r], Now, changes)
    BY DEF TurnsInv
  <2> QED
    BY <2>1 DEF TurnOK
<1> QED
  BY <1>1, <1>2, <1>3, CatalogKept, PTL DEF RoutingSpec

=============================================================================
