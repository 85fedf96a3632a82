------------------------ MODULE CircuitBreakerProofs ------------------------
(***************************************************************************)
(* The safety properties of CircuitBreaker, proved for any set of callers, *)
(* any positive threshold and any recovery timeout.                        *)
(***************************************************************************)
EXTENDS CircuitBreaker, TLAPS

(* What ProbeSpacing needs to be inductive: an OPEN breaker has not been    *)
(* open for longer than the time since it last went half-open, so waiting   *)
(* out the timeout from `_opened_at` is waiting it out from that probe too. *)
OpenSinceProbe == state = "OPEN" => elapsed <= since_probe

IInv ==
    /\ TypeOK
    /\ TripsOnConsecutiveFailures
    /\ OpenedAtIffNotClosed
    /\ HalfOpenHasProbe
    /\ OpenSinceProbe

(* A capped increment stays within its cap and never falls behind another  *)
(* counter that ticks with it.                                              *)
LEMMA CappedFacts ==
    ASSUME NEW cap \in Nat, NEW m \in 0..cap, NEW n \in 0..cap
    PROVE  /\ Capped(n, cap) \in 0..cap
           /\ m <= n => Capped(m, cap) <= Capped(n, cap)
  BY DEF Capped

(* The initial state is in the invariant.                                   *)
LEMMA InitIInv == Init => IInv
  BY ThresholdAssumption, TimeoutAssumption, NoneAssumption
  DEF Init, IInv, TypeOK, CircuitState, CallStatus, TripsOnConsecutiveFailures,
      OpenedAtIffNotClosed, HalfOpenHasProbe, OpenSinceProbe

(* Every step keeps the invariant, so it survives any interleaving of the   *)
(* two locked sections of `call`.                                           *)
LEMMA NextIInv == IInv /\ [Next]_vars => IInv'
<1> SUFFICES ASSUME IInv, [Next]_vars PROVE IInv'
  OBVIOUS
<1> USE ThresholdAssumption, TimeoutAssumption, NoneAssumption
<1>1. ASSUME NEW c \in Calls, Admit(c) PROVE IInv'
  <2> USE <1>1
  <2>1. TypeOK'
    BY DEF IInv, TypeOK, Admit, CircuitState, CallStatus
  <2>2. TripsOnConsecutiveFailures'
    BY DEF IInv, TypeOK, TripsOnConsecutiveFailures, Admit, CircuitState
  <2>3. OpenedAtIffNotClosed'
    BY DEF IInv, OpenedAtIffNotClosed, Admit
  <2>4. HalfOpenHasProbe'
    <3>1. CASE state = "CLOSED"
      BY <3>1 DEF HalfOpenHasProbe, Admit
    <3>2. CASE state # "CLOSED"
      <4>1. call'[c] = "probing"
        BY <3>2 DEF IInv, TypeOK, Admit
      <4> QED BY <4>1 DEF HalfOpenHasProbe
    <3> QED BY <3>1, <3>2
  <2>5. OpenSinceProbe'
    BY DEF IInv, OpenSinceProbe, Admit
  <2> QED BY <2>1, <2>2, <2>3, <2>4, <2>5 DEF IInv
<1>2. ASSUME NEW c \in Calls, Reject(c) PROVE IInv'
  <2> USE <1>2
  <2>1. TypeOK'
    BY DEF IInv, TypeOK, Reject, CallStatus, breaker, history
  <2>2. HalfOpenHasProbe'
    BY DEF Reject, MayRetry, HalfOpenHasProbe, breaker
  <2> QED
    BY <2>1, <2>2 DEF IInv, Reject, TripsOnConsecutiveFailures,
       OpenedAtIffNotClosed, OpenSinceProbe, breaker, history
<1>3. ASSUME NEW c \in Calls, Succeed(c) PROVE IInv'
  BY <1>3 DEF IInv, TypeOK, Succeed, OnSuccess, CircuitState, CallStatus,
     TripsOnConsecutiveFailures, OpenedAtIffNotClosed, HalfOpenHasProbe, OpenSinceProbe
<1>4. ASSUME NEW c \in Calls, Fail(c) PROVE IInv'
  <2> USE <1>4
  <2>1. CASE state = "HALF_OPEN"
    <3>1. state' = "OPEN" /\ elapsed' = 0 /\ UNCHANGED failure_count
      BY <2>1 DEF Fail, OnFailure, Open
    <3>2. streak = FailureThreshold /\ streak' = FailureThreshold
      BY <2>1 DEF IInv, TypeOK, TripsOnConsecutiveFailures, Fail, Capped
    <3> QED
      BY <3>1, <3>2 DEF IInv, TypeOK, Fail, CircuitState, CallStatus,
         TripsOnConsecutiveFailures, OpenedAtIffNotClosed, HalfOpenHasProbe, OpenSinceProbe
  <2>2. CASE state = "CLOSED"
    <3>1. streak' = streak + 1 /\ failure_count' = streak'
      BY <2>2 DEF IInv, TypeOK, TripsOnConsecutiveFailures, Fail, OnFailure, Capped
    <3>2. CASE streak + 1 >= FailureThreshold
      <4>1. state' = "OPEN" /\ elapsed' = 0
        BY <2>2, <3>2 DEF IInv, TripsOnConsecutiveFailures, Fail, OnFailure, Open
      <4> QED
        BY <2>2, <3>1, <3>2, <4>1 DEF IInv, TypeOK, Fail, CircuitState, CallStatus,
           TripsOnConsecutiveFailures, OpenedAtIffNotClosed, HalfOpenHasProbe, OpenSinceProbe
    <3>3. CASE ~(streak + 1 >= FailureThreshold)
      <4>1. UNCHANGED <<state, elapsed>>
        BY <2>2, <3>3 DEF IInv, TripsOnConsecutiveFailures, Fail, OnFailure
      <4> QED
        BY <2>2, <3>1, <3>3, <4>1 DEF IInv, TypeOK, Fail, CircuitState, CallStatus,
           TripsOnConsecutiveFailures, OpenedAtIffNotClosed, HalfOpenHasProbe, OpenSinceProbe
    <3> QED BY <3>2, <3>3
  <2>3. CASE state = "OPEN"
    <3>1. UNCHANGED breaker /\ streak' = streak
      BY <2>3 DEF IInv, TypeOK, TripsOnConsecutiveFailures, Fail, OnFailure, Capped
    <3> QED
      BY <2>3, <3>1 DEF IInv, TypeOK, Fail, CircuitState, CallStatus, breaker,
         TripsOnConsecutiveFailures, OpenedAtIffNotClosed, HalfOpenHasProbe, OpenSinceProbe
  <2> QED BY <2>1, <2>2, <2>3 DEF IInv, TypeOK, CircuitState
<1>5. ASSUME NEW c \in Calls, Return(c) PROVE IInv'
  <2> USE <1>5
  <2>1. TypeOK'
    BY DEF IInv, TypeOK, Return, CallStatus, breaker, history
  <2>2. \A d \in Calls : call[d] = "probing" => call'[d] = "probing"
    BY DEF IInv, TypeOK, Return
  <2> QED
    BY <2>1, <2>2 DEF IInv, Return, TripsOnConsecutiveFailures, HalfOpenHasProbe,
       OpenedAtIffNotClosed, OpenSinceProbe, breaker, history
<1>6. ASSUME Tick PROVE IInv'
  <2> USE <1>6
  <2>1. TypeOK'
    BY CappedFacts DEF IInv, TypeOK, Tick
  <2>2. OpenedAtIffNotClosed'
    BY CappedFacts DEF IInv, TypeOK, Tick, OpenedAtIffNotClosed
  <2>3. OpenSinceProbe'
    BY CappedFacts DEF IInv, TypeOK, Tick, OpenedAtIffNotClosed, OpenSinceProbe
  <2> QED
    BY <2>1, <2>2, <2>3 DEF IInv, Tick, TripsOnConsecutiveFailures, HalfOpenHasProbe
<1>7. CASE UNCHANGED vars
  BY <1>7 DEF IInv, vars, breaker, history, TypeOK, TripsOnConsecutiveFailures,
     OpenedAtIffNotClosed, HalfOpenHasProbe, OpenSinceProbe
<1> QED
  BY <1>1, <1>2, <1>3, <1>4, <1>5, <1>6, <1>7 DEF Next, Arrive, Finish

(* The invariant holds in every reachable state of the breaker.             *)
THEOREM Invariance == Spec => []IInv
<1> QED BY InitIInv, NextIInv, PTL DEF Spec

(* Type correctness: the counter never passes the threshold and the clock   *)
(* is a tick count or None.                                                 *)
THEOREM TypeCorrect == Spec => []TypeOK
<1>1. IInv => TypeOK
  BY DEF IInv
<1> QED BY <1>1, Invariance, PTL

(* The breaker is CLOSED exactly while fewer than FailureThreshold calls    *)
(* have failed in a row, whatever order overlapping calls end in.           *)
THEOREM Trips == Spec => []TripsOnConsecutiveFailures
<1>1. IInv => TripsOnConsecutiveFailures
  BY DEF IInv
<1> QED BY <1>1, Invariance, PTL

(* `call` never reads a None `_opened_at` of an OPEN breaker.               *)
THEOREM OpenedAtIsSet == Spec => []OpenedAtIffNotClosed
<1>1. IInv => OpenedAtIffNotClosed
  BY DEF IInv
<1> QED BY <1>1, Invariance, PTL

(* A HALF_OPEN breaker always has a probe in flight.                        *)
THEOREM ProbeInFlight == Spec => []HalfOpenHasProbe
<1>1. IInv => HalfOpenHasProbe
  BY DEF IInv
<1> QED BY <1>1, Invariance, PTL

(* Rounds of probing are a full recovery timeout apart.                     *)
THEOREM ProbesAreSpaced == Spec => ProbeSpacing
<1>1. IInv /\ [Next]_vars =>
        [state = "OPEN" /\ state' = "HALF_OPEN" => since_probe = RecoveryTimeout]_vars
  <2> SUFFICES ASSUME IInv, Next, state = "OPEN", state' = "HALF_OPEN"
               PROVE  since_probe = RecoveryTimeout
    BY DEF vars, breaker
  <2>1. PICK c \in Calls : Admit(c)
    BY DEF Next, Arrive, Finish, Reject, Succeed, Fail, Return, Tick, OnSuccess,
       OnFailure, Open, breaker
  <2>2. elapsed >= RecoveryTimeout
    BY <2>1 DEF Admit, MayRetry
  <2>3. elapsed <= since_probe /\ elapsed \in 0..RecoveryTimeout /\ since_probe \in 0..RecoveryTimeout
    BY DEF IInv, TypeOK, OpenSinceProbe, OpenedAtIffNotClosed
  <2> QED BY <2>2, <2>3, TimeoutAssumption
<1> QED BY <1>1, Invariance, PTL DEF Spec, ProbeSpacing
=============================================================================
