------------------------------ MODULE Failover ------------------------------
(***************************************************************************)
(* FailoverUpstreamClient of src/src/upstream.rs: concurrent client turns  *)
(* and raw-completions requests walk one ordered chain of providers.  A    *)
(* failed provider is put in a cooldown window shared by all requests, the *)
(* first provider that yields a chunk serves the round, and every attempt  *)
(* is written to the turn's ServingToken.                                  *)
(*                                                                         *)
(* Time is kept as remaining windows: a deadline "now + cooldown" is the   *)
(* number Cooldown, and Tick lowers every pending deadline by one, so a    *)
(* deadline lies in the future iff its window is positive.  A chat turn is *)
(* a sequence of at most MaxRounds dispatch rounds over one token, because *)
(* the engine dispatches again after each batch of server-side tools.      *)
(***************************************************************************)
EXTENDS Naturals, Sequences, FiniteSets

CONSTANTS Chats,            \* chat turns, each with a ServingToken
          Proxies,          \* raw /v1/completions requests: no token
          N,                \* length of the provider chain, tried from 1 to N
          Cooldown,         \* upstream_failure_cooldown in ticks, 0 turns it off
          MaxRounds,        \* bound on the dispatch rounds of one chat turn
          ResponseCapture   \* is_response_capture_enabled of the flow store

ASSUME FailoverAssumption ==
    /\ Chats \cap Proxies = {}
    /\ N \in Nat \ {0}
    /\ Cooldown \in Nat
    /\ MaxRounds \in Nat \ {0}
    /\ ResponseCapture \in BOOLEAN

VARIABLES window,      \* provider -> remaining cooling_until window, 0 for None
          lastError,   \* provider -> is last_error set
          served,      \* provider -> served_count
          failovers,   \* provider -> failover_count
          streak,      \* provider -> consecutive_failures
          pc,          \* request -> where its task is suspended
          plan,        \* request -> providers of its snapshot still to try
          cur,         \* request -> provider of the current attempt, 0 for none
          round,       \* request -> dispatch rounds begun
          due,         \* request -> window computed for a failure not yet marked
          err,         \* request -> error of the current attempt
          provider,    \* chat -> ServingInfo.provider, 0 for None
          model,       \* chat -> provider whose on-wire model is model_served
          headerByte,  \* chat -> is attempt_header_byte_ms stamped
          pending,     \* chat -> is pending_response_body staged
          attempts     \* chat -> ServingInfo.attempts

pool  == <<window, lastError, served, failovers, streak>>
task  == <<pc, plan, cur, round, due, err>>
token == <<provider, model, headerByte, pending, attempts>>
vars  == <<pool, task, token>>

Provider == 1..N
Request  == Chats \cup Proxies

-----------------------------------------------------------------------------
(* Errors of an upstream attempt: the failover disposition the leaf client *)
(* gives it and the class classify_attempt_error records.                  *)

Error(d, c) == [disposition |-> d, class |-> c]

NoError     == Error("none", "none")
SendError   == Error("Failover", "Connect")
TimeoutErr  == Error("Failover", "Timeout")
StreamErr   == Error("Failover", "Stream")
HttpErr     == Error("Failover", "HttpStatus")
RejectedErr == Error("FailoverNoCooldown", "HttpStatus")
OverflowErr == Error("Terminal", "Terminal")
EnvelopeErr == Error("FailoverNoCooldown", "Stream")

\* What can end a response whose headers were a success: the stream is over,
\* no chunk within request_timeout, a broken frame, or an error envelope that
\* the upstream puts in the event stream.
StreamFaults == {TimeoutErr, StreamErr, EnvelopeErr}
Errors == {SendError, HttpErr, RejectedErr, OverflowErr} \cup StreamFaults

\* One entry of the attempt trace; "round" is the dispatch round it belongs to.
Attempt == [round : 1..MaxRounds, provider : Provider,
            error : Errors \cup {NoError}, headers : BOOLEAN]

Served(a) == a.error = NoError
HasHttpBody(e) == e.class \in {"HttpStatus", "Terminal"}

Finished == {"done", "failed", "cancelled"}
\* Suspended at an await, where the client's hang-up or a kill drops the task.
Awaiting == {"ready", "sent", "retry", "prefetch", "streaming", "proxying"}
PCs == {"next", "failing", "breaking"} \cup Awaiting \cup Finished

-----------------------------------------------------------------------------
(* Provider state, under the "states" lock.                                *)

ProviderIsAvailable(p) == window[p] = 0

Succeed(p, w) ==
    /\ window' = [window EXCEPT ![p] = w]
    /\ lastError' = [lastError EXCEPT ![p] = FALSE]
    /\ served' = [served EXCEPT ![p] = @ + 1]
    /\ streak' = [streak EXCEPT ![p] = 0]
    /\ UNCHANGED failovers

MarkSuccessKeepsWindow(p) == Succeed(p, window[p])

MarkSuccess(p) == Succeed(p, 0)

Penalize(p, w) ==
    /\ window' = [window EXCEPT ![p] = w]
    /\ lastError' = [lastError EXCEPT ![p] = TRUE]
    /\ failovers' = [failovers EXCEPT ![p] = @ + 1]
    /\ streak' = [streak EXCEPT ![p] = @ + 1]
    /\ UNCHANGED served

\* The deadline is computed before the lock is taken, so it may have run down
\* to d by the time it is written, and it replaces whatever deadline is there.
MarkFailure(p, d) == Penalize(p, d)

-----------------------------------------------------------------------------
(* Steps of one request.                                                   *)

GoTo(f, to) == pc' = [pc EXCEPT ![f] = to]

Record(f, e, headers) ==
    attempts' = [attempts EXCEPT ![f] =
        Append(@, [round |-> round[f], provider |-> cur[f],
                   error |-> e, headers |-> headers])]

Init ==
    /\ window = [p \in Provider |-> 0]
    /\ lastError = [p \in Provider |-> FALSE]
    /\ served = [p \in Provider |-> 0]
    /\ failovers = [p \in Provider |-> 0]
    /\ streak = [p \in Provider |-> 0]
    /\ pc = [f \in Request |-> "ready"]
    /\ plan = [f \in Request |-> {}]
    /\ cur = [f \in Request |-> 0]
    /\ round = [f \in Request |-> 0]
    /\ due = [f \in Request |-> 0]
    /\ err = [f \in Request |-> NoError]
    /\ provider = [f \in Chats |-> 0]
    /\ model = [f \in Chats |-> 0]
    /\ headerByte = [f \in Chats |-> FALSE]
    /\ pending = [f \in Chats |-> FALSE]
    /\ attempts = [f \in Chats |-> <<>>]

\* What a request may be offered: the whole chain, or the one provider the
\* catalog resolved its model to (the "_from_provider" entry points).
Scopes == {Provider} \cup {{p} : p \in Provider}

\* available_provider_indices: read once, under the lock, then walked while
\* other requests go on changing the windows.
BeginRound(f, scope) ==
    /\ pc[f] = "ready"
    /\ plan' = [plan EXCEPT ![f] = {p \in scope : ProviderIsAvailable(p)}]
    /\ plan'[f] # {}
    /\ round' = [round EXCEPT ![f] = @ + 1]
    /\ GoTo(f, "next")
    /\ UNCHANGED <<pool, cur, due, err, token>>

\* Every provider in scope is cooling: cooldown_error, without an attempt.
AllCooling(f, scope) ==
    /\ pc[f] = "ready"
    /\ \A p \in scope : ~ProviderIsAvailable(p)
    /\ GoTo(f, "failed")
    /\ UNCHANGED <<pool, plan, cur, round, due, err, token>>

TakeNext(f, p) ==
    /\ pc[f] = "next"
    /\ p \in plan[f]
    /\ \A q \in plan[f] : p <= q
    /\ plan' = [plan EXCEPT ![f] = @ \ {p}]
    /\ cur' = [cur EXCEPT ![f] = p]
    /\ UNCHANGED <<pool, round, due, err>>

Send(f, p, body) ==
    /\ f \in Chats
    /\ TakeNext(f, p)
    /\ headerByte' = [headerByte EXCEPT ![f] = FALSE]
    /\ pending' = [pending EXCEPT ![f] = body]
    /\ model' = [model EXCEPT ![f] = p]
    /\ GoTo(f, "sent")
    /\ UNCHANGED <<provider, attempts>>

DispatchKeepsBody(f, p) == Send(f, p, pending[f])

\* Arm the header slot, drop the body an earlier attempt staged, finalize the
\* on-wire model, and send.
Dispatch(f, p) == Send(f, p, FALSE)

DispatchProxy(f, p) ==
    /\ f \in Proxies
    /\ TakeNext(f, p)
    /\ GoTo(f, "proxying")
    /\ UNCHANGED token

\* The snapshot is used up: last_error is returned.
ProvidersExhausted(f) ==
    /\ pc[f] = "next"
    /\ plan[f] = {}
    /\ GoTo(f, "failed")
    /\ UNCHANGED <<pool, plan, cur, round, due, err, token>>

\* A failure that will be marked: the deadline is taken now, the lock later.
Fail(f, e, to) ==
    /\ err' = [err EXCEPT ![f] = e]
    /\ due' = [due EXCEPT ![f] = Cooldown]
    /\ GoTo(f, to)
    /\ UNCHANGED <<pool, plan, cur, round>>

-----------------------------------------------------------------------------
(* The leaf client's dispatch: one send, and after a context overflow one  *)
(* more with a smaller completion budget.                                  *)

\* No response headers: a connect or transport error.
SendFails(f) ==
    /\ pc[f] \in {"sent", "retry"}
    /\ Fail(f, SendError, "failing")
    /\ UNCHANGED token

HeadersSucceed(f) ==
    /\ pc[f] \in {"sent", "retry"}
    /\ headerByte' = [headerByte EXCEPT ![f] = TRUE]
    /\ GoTo(f, "prefetch")
    /\ UNCHANGED <<pool, plan, cur, round, due, err,
                   provider, model, pending, attempts>>

\* The body says the context window overflowed: shrink and send once more.
ContextOverflow(f) ==
    /\ pc[f] = "sent"
    /\ headerByte' = [headerByte EXCEPT ![f] = TRUE]
    /\ GoTo(f, "retry")
    /\ UNCHANGED <<pool, plan, cur, round, due, err,
                   provider, model, pending, attempts>>

\* Any other status outside 2xx and {400, 413, 415, 422}: stage the body.
HttpFails(f) ==
    /\ pc[f] \in {"sent", "retry"}
    /\ headerByte' = [headerByte EXCEPT ![f] = TRUE]
    /\ pending' = [pending EXCEPT ![f] = ResponseCapture]
    /\ Fail(f, HttpErr, "failing")
    /\ UNCHANGED <<provider, model, attempts>>

\* A status the loop records without marking the provider.
Turned(f, from, e, to) ==
    /\ pc[f] \in from
    /\ headerByte' = [headerByte EXCEPT ![f] = TRUE]
    /\ pending' = [pending EXCEPT ![f] = ResponseCapture]
    /\ Record(f, e, TRUE)
    /\ GoTo(f, to)
    /\ UNCHANGED <<plan, cur, round, due, err, provider, model>>

\* A request-intrinsic 4xx: FailoverNoCooldown, on to the next provider.
RequestRejected(f) ==
    Turned(f, {"sent", "retry"}, RejectedErr, "next") /\ UNCHANGED pool

OverflowGoesOn(f) ==
    Turned(f, {"retry"}, OverflowErr, "next") /\ UNCHANGED pool

\* The shrunk request overflows too: Terminal, no other provider is tried.
OverflowPersists(f) ==
    Turned(f, {"retry"}, OverflowErr, "failed") /\ UNCHANGED pool

-----------------------------------------------------------------------------
(* The response stream.                                                    *)

ServeRound(f, tag) ==
    /\ pc[f] = "prefetch"
    /\ MarkSuccess(cur[f])
    /\ provider' = [provider EXCEPT ![f] = tag]
    /\ pending' = [pending EXCEPT ![f] = FALSE]
    /\ Record(f, NoError, headerByte[f])
    /\ GoTo(f, "streaming")
    /\ UNCHANGED <<plan, cur, round, due, err, model, headerByte>>

\* mark_provider_success, then the token: first served provider wins.
FirstChunk(f) == ServeRound(f, IF provider[f] = 0 THEN cur[f] ELSE provider[f])

\* A fault before the first chunk is a failed attempt.  The disposition of an
\* error envelope is not consulted: mark_failure runs for every fault.
PrefetchFails(f, e) ==
    /\ pc[f] = "prefetch"
    /\ e \in StreamFaults
    /\ Fail(f, e, "failing")
    /\ UNCHANGED token

\* The lock is taken and the failure of the current attempt marked.
Mark(f) ==
    /\ MarkFailure(cur[f], due[f])
    /\ due' = [due EXCEPT ![f] = 0]
    /\ err' = [err EXCEPT ![f] = NoError]

\* mark_failure, record_attempt, and on to the next provider.
AttemptFailed(f) ==
    /\ pc[f] = "failing"
    /\ Mark(f)
    /\ IF f \in Chats THEN Record(f, err[f], headerByte[f])
                       ELSE UNCHANGED attempts
    /\ GoTo(f, "next")
    /\ UNCHANGED <<plan, cur, round, provider, model, headerByte, pending>>

\* The stream is over; the turn ends, or the engine dispatches again after
\* running the server-side tools the model called.
StreamEnds(f, to) ==
    /\ pc[f] = "streaming"
    /\ to \in {"done"} \cup (IF round[f] < MaxRounds THEN {"ready"} ELSE {})
    /\ GoTo(f, to)
    /\ UNCHANGED <<pool, plan, cur, round, due, err, token>>

\* A fault after the first chunk marks the provider and ends the turn.
StreamFails(f, e) ==
    /\ pc[f] = "streaming"
    /\ e \in StreamFaults
    /\ Fail(f, e, "breaking")
    /\ UNCHANGED token

BreakOff(f, to) ==
    /\ pc[f] = "breaking"
    /\ Mark(f)
    /\ GoTo(f, to)
    /\ UNCHANGED <<plan, cur, round, token>>

StreamFailsOver(f) == BreakOff(f, "next")

StreamFailed(f) == BreakOff(f, "failed")

-----------------------------------------------------------------------------
(* Raw completions: a status outside 5xx, 408 and 429 is the answer, and a *)
(* good answer marks nothing.                                              *)

ProxyEnds(f) ==
    /\ pc[f] = "proxying"
    /\ GoTo(f, "done")
    /\ UNCHANGED <<plan, cur, round, due, err, token>>

ProxyAnswers(f) == ProxyEnds(f) /\ UNCHANGED pool

ProxyFails(f, e) ==
    /\ pc[f] = "proxying"
    /\ e \in {SendError, HttpErr}
    /\ Fail(f, e, "failing")
    /\ UNCHANGED token

\* The client hangs up or an operator kills the flow: the task is dropped at
\* its await, and the attempt under way is never recorded.
Cancel(f) ==
    /\ pc[f] \in Awaiting
    /\ GoTo(f, "cancelled")
    /\ UNCHANGED <<pool, plan, cur, round, due, err, token>>

Sooner(d) == IF d > 0 THEN d - 1 ELSE 0

Tick ==
    /\ \/ \E p \in Provider : window[p] > 0
       \/ \E f \in Request : due[f] > 0
    /\ window' = [p \in Provider |-> Sooner(window[p])]
    /\ due' = [f \in Request |-> Sooner(due[f])]
    /\ UNCHANGED <<lastError, served, failovers, streak,
                   pc, plan, cur, round, err, token>>

-----------------------------------------------------------------------------

ChatStep(f) ==
    \/ SendFails(f) \/ HeadersSucceed(f) \/ ContextOverflow(f)
    \/ HttpFails(f) \/ RequestRejected(f) \/ OverflowPersists(f)
    \/ FirstChunk(f) \/ StreamFailed(f)
    \/ \E p \in Provider : Dispatch(f, p)
    \/ \E e \in StreamFaults : PrefetchFails(f, e) \/ StreamFails(f, e)
    \/ \E to \in {"ready", "done"} : StreamEnds(f, to)

ProxyStep(f) ==
    \/ ProxyAnswers(f)
    \/ \E p \in Provider : DispatchProxy(f, p)
    \/ \E e \in {SendError, HttpErr} : ProxyFails(f, e)

RequestStep(f) ==
    \/ \E scope \in Scopes : BeginRound(f, scope) \/ AllCooling(f, scope)
    \/ ProvidersExhausted(f)
    \/ AttemptFailed(f)
    \/ Cancel(f)

Next ==
    \/ \E f \in Chats : ChatStep(f)
    \/ \E f \in Proxies : ProxyStep(f)
    \/ \E f \in Request : RequestStep(f)
    \/ Tick

Spec == Init /\ [][Next]_vars

-----------------------------------------------------------------------------
(* Properties.                                                             *)

PoolOK ==
    /\ window \in [Provider -> 0..Cooldown]
    /\ lastError \in [Provider -> BOOLEAN]
    /\ served \in [Provider -> Nat]
    /\ failovers \in [Provider -> Nat]
    /\ streak \in [Provider -> Nat]

TaskOK ==
    /\ pc \in [Request -> PCs]
    /\ plan \in [Request -> SUBSET Provider]
    /\ cur \in [Request -> 0..N]
    /\ round \in [Request -> 0..MaxRounds]
    /\ due \in [Request -> 0..Cooldown]
    /\ err \in [Request -> Errors \cup {NoError}]

TokenOK ==
    /\ provider \in [Chats -> 0..N]
    /\ model \in [Chats -> 0..N]
    /\ headerByte \in [Chats -> BOOLEAN]
    /\ pending \in [Chats -> BOOLEAN]
    /\ attempts \in [Chats -> Seq(Attempt)]

\* Every variable has its type.
TypeOK == PoolOK /\ TaskOK /\ TokenOK

\* The cooldown window, last_error and the failure counters are read as one
\* story by provider_health and cooldown_error: whatever the order in which
\* requests finish and take the lock, a provider inside a window has a failure
\* streak, a streak has an error, and no streak outgrows the failover total.
CoolingHasCause ==
    \A p \in Provider :
        /\ window[p] > 0 => streak[p] > 0
        /\ lastError[p] <=> streak[p] > 0
        /\ streak[p] <= failovers[p]

LastError(f) == attempts[f][Len(attempts[f])].error

\* What the telemetry guard commits as the turn's upstream_response is the
\* final outcome's: a body is staged at the end of a turn iff the turn failed
\* and its last attempt was answered with an HTTP error body.  An earlier
\* provider's body never outlives a later attempt that had none.
CommittedBodyIsFinal ==
    \A f \in Chats : pc[f] \in Finished =>
        (pending[f] <=> /\ ResponseCapture
                        /\ pc[f] = "failed"
                        /\ attempts[f] # <<>>
                        /\ HasHttpBody(LastError(f)))

GoesOn(e) == e.disposition \in {"Failover", "FailoverNoCooldown"}

Follows(a, b) ==
    \/ a.round = b.round /\ a.provider < b.provider /\ GoesOn(a.error)
    \/ a.round < b.round /\ Served(a)

\* The attempt trace tells the failover story: within a round the chain is
\* walked forwards over failures that allow it, and a new round begins only
\* after a served attempt.  Nothing follows a terminal error.
TraceIsOrdered ==
    \A f \in Chats : \A i \in 1..(Len(attempts[f]) - 1) :
        Follows(attempts[f][i], attempts[f][i + 1])

\* A provider that turned a request down is not penalized: the step that
\* records a rejected or overflowing request leaves every provider's cooldown
\* and counters alone.
RejectionLeavesPoolAlone ==
    [][\A f \in Chats :
         /\ attempts'[f] # attempts[f]
         /\ LastError(f)'.class \in {"HttpStatus", "Terminal"}
         /\ LastError(f)'.disposition # "Failover"
         => UNCHANGED pool]_vars

\* error.rs: a provider whose error is FailoverNoCooldown "remains healthy and
\* must not enter cooldown", whatever carried the error.
NoCooldownNeverCools ==
    [][\A f \in Request : \A p \in Provider :
         /\ err[f].disposition = "FailoverNoCooldown"
         /\ err'[f] = NoError
         /\ cur[f] = p
         => window'[p] <= window[p]]_vars

\* The chat turns as their clients see them.
Phase(f) ==
    CASE pc[f] = "ready" -> "idle"
      [] pc[f] \in {"streaming", "breaking"} -> "serving"
      [] pc[f] \in Finished -> pc[f]
      [] OTHER -> "seeking"

Service == INSTANCE TurnService WITH
    Turns     <- Chats,
    Providers <- Provider,
    phase     <- [f \in Chats |-> Phase(f)],
    server    <- [f \in Chats |-> IF Phase(f) = "serving" THEN cur[f] ELSE 0],
    tagged    <- provider

\* The failover client implements the service: failover happens only before
\* the first chunk of a round, and never changes who serves or is credited.
ImplementsService == Service!Spec

=============================================================================
