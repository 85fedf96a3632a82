--------------------------- MODULE PaymentService ---------------------------
(***************************************************************************)
(* PaymentService.process (src/src/infrastructure/services/               *)
(* payment_service.py): one breaker-guarded call that POSTs the order's   *)
(* value up to MaxRetries times.  The breaker is CircuitBreaker itself;    *)
(* what this module adds is the coroutine the breaker awaits: tenacity     *)
(* retries transport errors and non-2xx replies after a backoff, and       *)
(* nothing else.  A reply whose body is not JSON makes response.json()     *)
(* raise ValueError, whatever its status, and ends the coroutine at once.  *)
(*                                                                         *)
(* The provider is the environment: any attempt may meet any answer.       *)
(***************************************************************************)
EXTENDS Naturals

CONSTANTS Calls, FailureThreshold, RecoveryTimeout, None,
    MaxRetries          \* MAX_RETRIES, the attempts of one call

ASSUME MaxRetriesAssumption == MaxRetries \in Nat \ {0}

VARIABLES state, failure_count, elapsed, call, streak, since_probe,
    attempt,    \* tenacity's attempt_number; 0 before the first POST
    phase       \* "post" while the POST is awaited, "sleep" between attempts

CB == INSTANCE CircuitBreaker

ASSUME BreakerAssumption ==
    CB!ThresholdAssumption /\ CB!TimeoutAssumption /\ CB!NoneAssumption

guard == <<state, failure_count, elapsed, call, streak, since_probe>>
retry == <<attempt, phase>>
vars == <<guard, retry>>

TypeOK ==
    /\ CB!TypeOK
    /\ attempt \in [Calls -> 0..MaxRetries]
    /\ phase \in [Calls -> {"none", "post", "sleep"}]

Init ==
    /\ CB!Init
    /\ attempt = [c \in Calls |-> 0]
    /\ phase = [c \in Calls |-> "none"]

-----------------------------------------------------------------------------
\* Mutants: the forms a plausible slip would give the definitions below.

UncountedAttempt(c) == phase' = [phase EXCEPT ![c] = "post"] /\ UNCHANGED attempt

-----------------------------------------------------------------------------
(* A coroutine the breaker lets through starts its first attempt.           *)
StartAttempt(c) ==
    /\ attempt' = [attempt EXCEPT ![c] = @ + 1]
    /\ phase' = [phase EXCEPT ![c] = "post"]

(* The coroutine ends: no POST and no backoff of it is left behind.         *)
EndAttempts(c) ==
    /\ phase' = [phase EXCEPT ![c] = "none"]
    /\ UNCHANGED attempt

(* stop_after_attempt(MAX_RETRIES).                                         *)
MayStillRetry(c) == attempt[c] < MaxRetries

Process(c) == CB!Admit(c) /\ StartAttempt(c)

(* The breaker closes the coroutine: it never runs.                         *)
FailFast(c) == CB!Reject(c) /\ UNCHANGED retry

(* A 2xx reply with a JSON body.                                            *)
AttemptOk(c) ==
    /\ phase[c] = "post"
    /\ CB!Succeed(c)
    /\ EndAttempts(c)

(* httpx.RequestError or a non-2xx reply, with an attempt left: back off.   *)
AttemptRetried(c) ==
    /\ phase[c] = "post"
    /\ MayStillRetry(c)
    /\ phase' = [phase EXCEPT ![c] = "sleep"]
    /\ UNCHANGED <<guard, attempt>>

(* The same on the last attempt: reraise.                                   *)
AttemptsExhausted(c) ==
    /\ phase[c] = "post"
    /\ ~MayStillRetry(c)
    /\ CB!Fail(c)
    /\ EndAttempts(c)

(* The body does not parse: an exception the retry does not cover.          *)
AttemptUnparseable(c) ==
    /\ phase[c] = "post"
    /\ CB!Fail(c)
    /\ EndAttempts(c)

BackoffOver(c) ==
    /\ phase[c] = "sleep"
    /\ StartAttempt(c)
    /\ UNCHANGED guard

(* `process` hands the result to the use case, every failure of it as a     *)
(* PaymentFailedError.                                                      *)
Return(c) ==
    /\ CB!Return(c)
    /\ attempt' = [attempt EXCEPT ![c] = 0]
    /\ UNCHANGED phase

Tick == CB!Tick /\ UNCHANGED retry

Answer(c) == AttemptOk(c) \/ AttemptRetried(c) \/ AttemptsExhausted(c) \/ AttemptUnparseable(c)

Next ==
    \/ \E c \in Calls : Process(c) \/ FailFast(c) \/ Answer(c) \/ BackoffOver(c) \/ Return(c)
    \/ Tick

Spec == Init /\ [][Next]_vars

(* An HTTP request ends within its 10 s timeouts, a backoff within 10 s.    *)
Fairness ==
    /\ WF_vars(Tick)
    /\ \A c \in Calls :
        WF_vars(Answer(c)) /\ WF_vars(BackoffOver(c)) /\ WF_vars(Return(c))

FairSpec == Spec /\ Fairness

-----------------------------------------------------------------------------
(* A POST or a backoff is under way exactly for the calls the breaker has   *)
(* in flight: a rejected or finished call never reaches the provider again. *)
AttemptsOnlyInFlight == \A c \in Calls : CB!InFlight(c) <=> phase[c] # "none"

(* The service implements the breaker's specification, its fairness         *)
(* included: bounded retries are what make a guarded call end.              *)
ImplementsBreaker == CB!FairSpec
=============================================================================
