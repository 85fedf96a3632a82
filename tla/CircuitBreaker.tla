--------------------------- MODULE CircuitBreaker ---------------------------
(***************************************************************************)
(* The asyncio circuit breaker that guards every call to the payment      *)
(* provider (src/src/infrastructure/services/circuit_breaker.py).         *)
(*                                                                         *)
(* `call` reads and changes the breaker under an asyncio lock, awaits the *)
(* guarded coroutine WITHOUT the lock, then books the outcome under the   *)
(* lock again.  No locked section awaits anything, so each is one atomic  *)
(* step and the lock is never contended; between the two sections any     *)
(* number of other calls may run, and that interleaving is the model.     *)
(*                                                                         *)
(* time.monotonic() is a tick counter.  Only its distance from            *)
(* `_opened_at` matters, and only up to the recovery timeout, so the      *)
(* module keeps that distance, saturated there.                           *)
(***************************************************************************)
EXTENDS Naturals

CONSTANTS
    Calls,              \* the concurrent callers of `call`
    FailureThreshold,   \* failure_threshold: 5 in the settings
    RecoveryTimeout,    \* recovery_timeout in ticks: 30 seconds in the settings
    None                \* Python's None

ASSUME ThresholdAssumption == FailureThreshold \in Nat \ {0}
ASSUME TimeoutAssumption == RecoveryTimeout \in Nat
ASSUME NoneAssumption == None \notin Nat

VARIABLES
    state,          \* _state
    failure_count,  \* _failure_count
    elapsed,        \* time.monotonic() - _opened_at; None while _opened_at is
    call,           \* where each caller is in `call`
    streak,         \* history: failed calls since a call last succeeded
    since_probe     \* history: ticks since the breaker last went half-open

breaker == <<state, failure_count, elapsed>>
history == <<streak, since_probe>>
vars == <<breaker, call, history>>

CircuitState == {"CLOSED", "OPEN", "HALF_OPEN"}

\* "probing" is an in-flight call that was let through while the breaker was
\* not CLOSED; "ok", "failed" and "rejected" are results not yet taken.
CallStatus == {"idle", "running", "probing", "ok", "failed", "rejected"}

InFlight(c) == call[c] \in {"running", "probing"}

Capped(n, cap) == IF n < cap THEN n + 1 ELSE cap

TypeOK ==
    /\ state \in CircuitState
    /\ failure_count \in 0..FailureThreshold
    /\ elapsed \in (0..RecoveryTimeout) \union {None}
    /\ call \in [Calls -> CallStatus]
    /\ streak \in 0..FailureThreshold
    /\ since_probe \in 0..RecoveryTimeout

Init ==
    /\ state = "CLOSED"
    /\ failure_count = 0
    /\ elapsed = None
    /\ call = [c \in Calls |-> "idle"]
    /\ streak = 0
    /\ since_probe = RecoveryTimeout

-----------------------------------------------------------------------------
\* Mutants: the forms a plausible slip would give the definitions below.

KeepsCount == state' = "CLOSED" /\ elapsed' = None /\ UNCHANGED failure_count

KeepsState == failure_count' = 0 /\ UNCHANGED <<state, elapsed>>

OpensWithoutRestart ==
    /\ state' = "OPEN"
    /\ elapsed' = IF elapsed = None THEN 0 ELSE elapsed

CountsOnlyWhenClosed ==
    /\ failure_count' = IF state = "CLOSED" THEN failure_count + 1 ELSE failure_count
    /\ IF state = "CLOSED" /\ failure_count + 1 >= FailureThreshold
       THEN state' = "OPEN" /\ elapsed' = 0
       ELSE UNCHANGED <<state, elapsed>>

-----------------------------------------------------------------------------
(* The first locked section of `call`: an OPEN breaker whose recovery       *)
(* timeout has passed becomes HALF_OPEN and lets the caller through; one   *)
(* that is still waiting closes the coroutine and raises; every other      *)
(* breaker, HALF_OPEN included, lets the caller through as it is.           *)
MayRetry == state = "OPEN" => elapsed >= RecoveryTimeout

Admit(c) ==
    /\ call[c] = "idle"
    /\ MayRetry
    /\ IF state = "OPEN" THEN state' = "HALF_OPEN" /\ since_probe' = 0
                         ELSE UNCHANGED <<state, since_probe>>
    /\ call' = [call EXCEPT ![c] = IF state = "CLOSED" THEN "running" ELSE "probing"]
    /\ UNCHANGED <<failure_count, elapsed, streak>>

Reject(c) ==
    /\ call[c] = "idle"
    /\ ~MayRetry
    /\ call' = [call EXCEPT ![c] = "rejected"]
    /\ UNCHANGED <<breaker, history>>

(* `_on_success`: closes the breaker whatever state it is in. *)
OnSuccess ==
    /\ state' = "CLOSED"
    /\ failure_count' = 0
    /\ elapsed' = None

(* `_state = OPEN` and `_opened_at = time.monotonic()`. *)
Open ==
    /\ state' = "OPEN"
    /\ elapsed' = 0

(* `_on_failure`: a HALF_OPEN breaker opens again, a CLOSED one counts and  *)
(* opens at the threshold, an OPEN one ignores the failure.                 *)
OnFailure ==
    \/ /\ state = "HALF_OPEN"
       /\ Open
       /\ UNCHANGED failure_count
    \/ /\ state = "CLOSED"
       /\ failure_count' = failure_count + 1
       /\ IF failure_count + 1 >= FailureThreshold THEN Open
                                                  ELSE UNCHANGED <<state, elapsed>>
    \/ /\ state = "OPEN"
       /\ UNCHANGED breaker

(* The guarded coroutine returns. *)
Succeed(c) ==
    /\ InFlight(c)
    /\ OnSuccess
    /\ call' = [call EXCEPT ![c] = "ok"]
    /\ streak' = 0
    /\ UNCHANGED since_probe

(* The guarded coroutine raises an Exception. *)
Fail(c) ==
    /\ InFlight(c)
    /\ OnFailure
    /\ call' = [call EXCEPT ![c] = "failed"]
    /\ streak' = Capped(streak, FailureThreshold)
    /\ UNCHANGED since_probe

(* The caller takes the result; it may call again later. *)
Return(c) ==
    /\ call[c] \in {"ok", "failed", "rejected"}
    /\ call' = [call EXCEPT ![c] = "idle"]
    /\ UNCHANGED <<breaker, history>>

Tick ==
    /\ elapsed' = IF elapsed = None THEN None ELSE Capped(elapsed, RecoveryTimeout)
    /\ since_probe' = Capped(since_probe, RecoveryTimeout)
    /\ UNCHANGED <<state, failure_count, call, streak>>

Arrive(c) == Admit(c) \/ Reject(c)
Finish(c) == Succeed(c) \/ Fail(c)

Next ==
    \/ \E c \in Calls : Arrive(c) \/ Finish(c) \/ Return(c)
    \/ Tick

Spec == Init /\ [][Next]_vars

(* Time passes, a request ends within its HTTP timeouts, and its caller     *)
(* takes the result.  Nothing obliges a caller to call.                     *)
Fairness ==
    /\ WF_vars(Tick)
    /\ \A c \in Calls : WF_vars(Finish(c)) /\ WF_vars(Return(c))

FairSpec == Spec /\ Fairness

-----------------------------------------------------------------------------
(* The breaker is CLOSED exactly while fewer than FailureThreshold calls    *)
(* have failed since one last succeeded: "after %d consecutive failures"    *)
(* of _on_failure, counted over calls that overlap and finish out of order. *)
TripsOnConsecutiveFailures ==
    /\ state = "CLOSED" <=> streak < FailureThreshold
    /\ failure_count = streak

(* `_opened_at` is set exactly when the breaker is not CLOSED, so `call`    *)
(* never subtracts None, and a breaker that closes forgets when it opened.  *)
OpenedAtIffNotClosed == elapsed = None <=> state = "CLOSED"

(* A HALF_OPEN breaker always has a probe in flight: it is never left       *)
(* waiting for the verdict of a call that has already ended.                *)
HalfOpenHasProbe == state = "HALF_OPEN" => \E c \in Calls : call[c] = "probing"

(* Two rounds of probing are at least a recovery timeout apart, however     *)
(* late calls reopen or close the breaker in between.                       *)
ProbeSpacing ==
    [][state = "OPEN" /\ state' = "HALF_OPEN" => since_probe = RecoveryTimeout]_vars

(* When calls stop failing and callers keep coming, the breaker closes for  *)
(* good: no sequence of trips leaves it failing fast forever.               *)
Recovers ==
    /\ <>[][~\E c \in Calls : Fail(c)]_vars
    /\ []<><<\E c \in Calls : Arrive(c)>>_vars
    => <>[](state = "CLOSED")
=============================================================================
