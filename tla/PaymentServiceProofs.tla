------------------------ MODULE PaymentServiceProofs ------------------------
(***************************************************************************)
(* PaymentService drives the breaker only through its own operations, so   *)
(* what is proved of CircuitBreaker holds of it, retries and all.          *)
(***************************************************************************)
EXTENDS PaymentService, TLAPS

Breaker == INSTANCE CircuitBreakerProofs

(* Every step of the service is a step of the breaker or leaves it alone.   *)
LEMMA StepSimulation == [Next]_vars => [CB!Next]_(CB!vars)
<1> SUFFICES ASSUME [Next]_vars PROVE [CB!Next]_(CB!vars)
  OBVIOUS
<1>1. ASSUME NEW c \in Calls, Process(c) \/ FailFast(c) PROVE CB!Next
  BY <1>1 DEF Process, FailFast, CB!Next, CB!Arrive
<1>2. ASSUME NEW c \in Calls, Answer(c) PROVE [CB!Next]_(CB!vars)
  <2>1. CASE AttemptRetried(c)
    BY <2>1 DEF AttemptRetried, guard, CB!vars, CB!breaker, CB!history
  <2>2. CASE AttemptOk(c) \/ AttemptsExhausted(c) \/ AttemptUnparseable(c)
    BY <2>2 DEF AttemptOk, AttemptsExhausted, AttemptUnparseable, CB!Next, CB!Finish
  <2> QED BY <1>2, <2>1, <2>2 DEF Answer
<1>3. ASSUME NEW c \in Calls, BackoffOver(c) PROVE UNCHANGED CB!vars
  BY <1>3 DEF BackoffOver, guard, CB!vars, CB!breaker, CB!history
<1>4. ASSUME NEW c \in Calls, Return(c) PROVE CB!Next
  BY <1>4 DEF Return, CB!Next
<1>5. CASE Tick
  BY <1>5 DEF Tick, CB!Next
<1>6. CASE UNCHANGED vars
  BY <1>6 DEF vars, guard, CB!vars, CB!breaker, CB!history
<1> QED BY <1>1, <1>2, <1>3, <1>4, <1>5, <1>6 DEF Next

(* The service implements the breaker (its safety part; the fairness half   *)
(* of ImplementsBreaker is model-checked).                                  *)
THEOREM Refinement == Spec => CB!Spec
<1>1. Init => CB!Init
  BY DEF Init
<1> QED BY <1>1, StepSimulation, PTL DEF Spec, CB!Spec

(* The two instances name the same breaker.                                 *)
LEMMA SameBreaker ==
    /\ CB!Init => Breaker!Init
    /\ [CB!Next]_(CB!vars) => [Breaker!Next]_(Breaker!vars)
    /\ Breaker!TypeOK => CB!TypeOK
    /\ Breaker!TripsOnConsecutiveFailures => CB!TripsOnConsecutiveFailures
<1>1. CB!Init => Breaker!Init
  BY DEF CB!Init, Breaker!Init
<1>2. UNCHANGED CB!vars => UNCHANGED Breaker!vars
  BY DEF CB!vars, CB!breaker, CB!history, Breaker!vars, Breaker!breaker, Breaker!history
<1>3. CB!Next => Breaker!Next
  <2>1. ASSUME NEW c \in Calls
        PROVE  CB!Arrive(c) => Breaker!Arrive(c)
    BY DEF CB!Arrive, CB!Admit, CB!Reject, CB!MayRetry, CB!breaker, CB!history,
       Breaker!Arrive, Breaker!Admit, Breaker!Reject, Breaker!MayRetry,
       Breaker!breaker, Breaker!history
  <2>2. ASSUME NEW c \in Calls
        PROVE  CB!Finish(c) => Breaker!Finish(c)
    BY DEF CB!Finish, CB!Succeed, CB!Fail, CB!InFlight, CB!OnSuccess, CB!OnFailure,
       CB!Open, CB!Capped, CB!breaker,
       Breaker!Finish, Breaker!Succeed, Breaker!Fail, Breaker!InFlight,
       Breaker!OnSuccess, Breaker!OnFailure, Breaker!Open, Breaker!Capped, Breaker!breaker
  <2>3. ASSUME NEW c \in Calls
        PROVE  CB!Return(c) => Breaker!Return(c)
    BY DEF CB!Return, CB!breaker, CB!history,
       Breaker!Return, Breaker!breaker, Breaker!history
  <2>4. CB!Tick => Breaker!Tick
    BY DEF CB!Tick, CB!Capped, Breaker!Tick, Breaker!Capped
  <2> QED BY <2>1, <2>2, <2>3, <2>4 DEF CB!Next, Breaker!Next
<1>4. Breaker!TypeOK => CB!TypeOK
  BY DEF CB!TypeOK, CB!CircuitState, CB!CallStatus,
     Breaker!TypeOK, Breaker!CircuitState, Breaker!CallStatus
<1>5. Breaker!TripsOnConsecutiveFailures => CB!TripsOnConsecutiveFailures
  BY DEF CB!TripsOnConsecutiveFailures, Breaker!TripsOnConsecutiveFailures
<1> QED BY <1>1, <1>2, <1>3, <1>4, <1>5

(* So what is proved of the breaker holds of the service, whatever the      *)
(* provider answers: it trips on consecutive failed CALLS, however many     *)
(* attempts each of them made, and its counter and clock stay in type.      *)
THEOREM BreakerSafety == Spec => [](CB!TypeOK /\ CB!TripsOnConsecutiveFailures)
<1>1. CB!Spec => Breaker!Spec
  BY SameBreaker, PTL DEF CB!Spec, Breaker!Spec
<1> QED
  BY <1>1, Refinement, SameBreaker, Breaker!TypeCorrect, Breaker!Trips,
     BreakerAssumption, PTL

(* The retry state stays in type: no call makes more than MaxRetries        *)
(* attempts, and the coroutine of a call is alive exactly while the breaker *)
(* has the call in flight.                                                  *)
RetryInv ==
    /\ attempt \in [Calls -> 0..MaxRetries]
    /\ phase \in [Calls -> {"none", "post", "sleep"}]
    /\ AttemptsOnlyInFlight
    /\ \A c \in Calls : call[c] = "idle" => attempt[c] = 0
    /\ \A c \in Calls : phase[c] = "sleep" => attempt[c] < MaxRetries

(* The initial state is in the invariant.                                   *)
LEMMA InitRetryInv == Init => RetryInv
  BY MaxRetriesAssumption DEF Init, RetryInv, AttemptsOnlyInFlight, CB!Init, CB!InFlight

(* Every step keeps it.                                                     *)
LEMMA NextRetryInv == CB!TypeOK /\ RetryInv /\ [Next]_vars => RetryInv'
<1> SUFFICES ASSUME CB!TypeOK, RetryInv, [Next]_vars PROVE RetryInv'
  OBVIOUS
<1> USE MaxRetriesAssumption DEF RetryInv, AttemptsOnlyInFlight, CB!InFlight
<1>0. call \in [Calls -> CB!CallStatus]
  BY DEF CB!TypeOK
<1>1. ASSUME NEW c \in Calls, Process(c) PROVE RetryInv'
  BY <1>0, <1>1 DEF Process, StartAttempt, CB!Admit
<1>2. ASSUME NEW c \in Calls, FailFast(c) PROVE RetryInv'
  BY <1>0, <1>2 DEF FailFast, CB!Reject, retry
<1>3. ASSUME NEW c \in Calls, AttemptRetried(c) PROVE RetryInv'
  BY <1>0, <1>3 DEF AttemptRetried, MayStillRetry, guard
<1>4. ASSUME NEW c \in Calls, CB!Finish(c), EndAttempts(c) PROVE RetryInv'
  BY <1>0, <1>4 DEF EndAttempts, CB!Finish, CB!Succeed, CB!Fail
<1>5. ASSUME NEW c \in Calls, BackoffOver(c) PROVE RetryInv'
  BY <1>0, <1>5 DEF BackoffOver, StartAttempt, guard
<1>6. ASSUME NEW c \in Calls, Return(c) PROVE RetryInv'
  BY <1>0, <1>6 DEF Return, CB!Return
<1>7. CASE Tick
  BY <1>7 DEF Tick, CB!Tick, retry
<1>8. CASE UNCHANGED vars
  BY <1>8 DEF vars, guard, retry
<1> QED
  BY <1>1, <1>2, <1>3, <1>4, <1>5, <1>6, <1>7, <1>8 DEF Next, Answer, AttemptOk,
     AttemptsExhausted, AttemptUnparseable, CB!Finish

(* Type correctness of the composition.                                     *)
THEOREM TypeCorrect == Spec => []TypeOK
<1>1. RetryInv /\ CB!TypeOK => TypeOK
  BY DEF RetryInv, TypeOK
<1>2. [](CB!TypeOK) /\ Spec => []RetryInv
  BY InitRetryInv, NextRetryInv, PTL DEF Spec
<1> QED BY <1>1, <1>2, BreakerSafety, PTL

(* No attempt outlives its call: a rejected or finished call never reaches  *)
(* the provider again.                                                      *)
THEOREM NoStrayAttempt == Spec => []AttemptsOnlyInFlight
<1>1. RetryInv => AttemptsOnlyInFlight
  BY DEF RetryInv
<1>2. [](CB!TypeOK) /\ Spec => []RetryInv
  BY InitRetryInv, NextRetryInv, PTL DEF Spec
<1> QED BY <1>1, <1>2, BreakerSafety, PTL
=============================================================================
