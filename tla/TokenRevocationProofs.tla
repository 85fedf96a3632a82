------------------------ MODULE TokenRevocationProofs ------------------------
(***************************************************************************)
(* The safety properties of TokenRevocation, proved for any requests and   *)
(* tokens, any lifetime, any bound on the clock, and with every fault.      *)
(***************************************************************************)
EXTENDS TokenRevocation, TLAPS

(* What is known of a request by the place it is at.  One that came after   *)
(* the sign-out of its token and passed the denylist all the same did so    *)
(* past the token's expiry.                                                 *)
Known(r) ==
    /\ pc[r] = "idle" => token[r] = None /\ reply[r] = None /\ r \notin too_late
    /\ pc[r] # "idle" => token[r] \in Tokens /\ exp[token[r]] # None
    /\ r \in too_late => token[r] \in signed_out
    /\ r \in too_late /\ pc[r] = "revoke" => Purgeable(token[r])
    /\ reply[r] # None => pc[r] = "sent"
    /\ reply[r] = 204 => token[r] \in signed_out

IInv ==
    /\ TypeOK
    /\ \A r \in Requests : Known(r)
    /\ DenylistHolds
    /\ LateRequestsRefused
    /\ OneSignOut

(* The initial state is in the invariant.                                   *)
LEMMA InitIInv == Init => IInv
<1> SUFFICES ASSUME Init PROVE IInv
  OBVIOUS
<1>1. TypeOK
  <2>1. now \in 0..MaxTime /\ faults \in 0..MaxFaults
    BY TimeAssumption DEF Init
  <2>2. fraction \in BOOLEAN
    BY Zenon DEF Init
  <2>3. /\ exp \in [Tokens -> Nat \union {None}]
        /\ pc \in [Requests -> Underway \union {"idle", "sent", "lost"}]
        /\ token \in [Requests -> Tokens \union {None}]
        /\ endpoint \in [Requests -> {"sign_out", "other"}]
        /\ reply \in [Requests -> {200, 204, 401, 500} \union {None}]
    BY DEF Init
  <2>4. /\ revoked_tokens \subseteq signed_out
        /\ signed_out \subseteq {t \in Tokens : exp[t] # None}
        /\ loop \in {"sleep", "keys", "tokens"} /\ too_late \subseteq Requests
    BY DEF Init
  <2> QED BY <2>1, <2>2, <2>3, <2>4 DEF TypeOK
<1>0. /\ 204 # None
      /\ \A r \in Requests : pc[r] = "idle" /\ token[r] = None /\ reply[r] = None
      /\ too_late = {} /\ signed_out = {}
  <2>1. 204 # None
    BY NoneAssumption
  <2> QED BY <2>1 DEF Init
<1>2. \A r \in Requests : Known(r)
  BY <1>0 DEF Known
<1>3. DenylistHolds /\ LateRequestsRefused
  BY DEF Init, DenylistHolds, LateRequestsRefused
<1>5. OneSignOut
  BY <1>0 DEF OneSignOut
<1> QED BY <1>1, <1>2, <1>3, <1>5 DEF IInv

(* A step of one request that leaves the tokens and the denylist alone.     *)
LEMMA RequestStep ==
    ASSUME IInv, NEW r \in Requests, pc[r] \in {"guard", "check", "revoke"},
           UNCHANGED <<clock, exp, revoked_tokens, signed_out, request, purge>>,
           \/ \E code \in {401, 500} : Send(r, code)
           \/ \E place \in {"check", "revoke"} :
                /\ Goto(r, place)
                /\ place = "revoke" /\ r \in too_late => Purgeable(token[r])
           \/ Send(r, 200) /\ (r \in too_late => Purgeable(token[r]))
    PROVE  IInv'
<1> USE NoneAssumption
<1>1. TypeOK'
  BY DEF IInv, TypeOK, clock, request, purge, Send, Goto, Underway
<1>2. \A s \in Requests : Known(s)'
  BY DEF IInv, TypeOK, Known, Purgeable, clock, request, Send, Goto
<1>3. DenylistHolds'
  BY DEF IInv, DenylistHolds, Purgeable, clock
<1>4. LateRequestsRefused'
  BY DEF IInv, TypeOK, LateRequestsRefused, Purgeable, clock, request, Send, Goto
<1>5. OneSignOut'
  BY DEF IInv, TypeOK, OneSignOut, Purgeable, clock, request, Send, Goto
<1> QED BY <1>1, <1>2, <1>3, <1>4, <1>5 DEF IInv

(* Every step keeps the invariant.                                          *)
LEMMA NextIInv == IInv /\ [Next]_vars => IInv'
<1> SUFFICES ASSUME IInv, [Next]_vars PROVE IInv'
  OBVIOUS
<1> USE NoneAssumption
<1>1. ASSUME NEW t \in Tokens, SignIn(t) PROVE IInv'
  <2>0. /\ exp[t] = None
        /\ exp' = [exp EXCEPT ![t] = now + Lifetime]
        /\ now + Lifetime \in Nat
        /\ UNCHANGED <<now, fraction, revoked_tokens, pc, token, endpoint, too_late,
                       reply, loop, faults, signed_out>>
    BY <1>1, TimeAssumption DEF SignIn, Issue, Expiry, clock, request, purge, IInv, TypeOK
  <2>1. \A u \in Tokens : exp[u] # None => exp'[u] = exp[u]
    BY <2>0 DEF IInv, TypeOK
  <2>2. TypeOK'
    BY <2>0, <2>1 DEF IInv, TypeOK
  <2>3. \A r \in Requests : Known(r)'
    BY <2>0, <2>1 DEF IInv, Known, Purgeable
  <2>4. DenylistHolds'
    BY <2>0, <2>1 DEF IInv, TypeOK, DenylistHolds, Purgeable
  <2>5. LateRequestsRefused' /\ OneSignOut'
    BY <2>0, <2>1 DEF IInv, TypeOK, Known, LateRequestsRefused, OneSignOut, Purgeable
  <2> QED BY <2>2, <2>3, <2>4, <2>5 DEF IInv
<1>2. ASSUME NEW r \in Requests, Receive(r) PROVE IInv'
  <2>0. PICK t \in Tokens, e \in {"sign_out", "other"} :
          /\ exp[t] # None
          /\ token' = [token EXCEPT ![r] = t]
          /\ endpoint' = [endpoint EXCEPT ![r] = e]
          /\ too_late' = IF t \in signed_out THEN too_late \union {r} ELSE too_late
          /\ Goto(r, "guard") \/ Send(r, 401)
    BY <1>2 DEF Receive
  <2>1. /\ pc[r] = "idle" /\ reply[r] = None /\ r \notin too_late
        /\ UNCHANGED <<now, fraction, exp, revoked_tokens, loop, faults, signed_out>>
    BY <1>2 DEF Receive, clock, purge, IInv, Known
  <2>2. TypeOK'
    BY <2>0, <2>1 DEF IInv, TypeOK, Send, Goto, Underway
  <2>3. \A s \in Requests : Known(s)'
    <3>1. ASSUME NEW s \in Requests, s # r PROVE Known(s)'
      BY <2>0, <2>1, <3>1 DEF IInv, TypeOK, Known, Purgeable, Send, Goto
    <3>2. Known(r)'
      BY <2>0, <2>1 DEF IInv, TypeOK, Known, Send, Goto
    <3> QED BY <3>1, <3>2
  <2>4. DenylistHolds'
    BY <2>1 DEF IInv, DenylistHolds, Purgeable
  <2>5. LateRequestsRefused'
    BY <2>0, <2>1 DEF IInv, TypeOK, LateRequestsRefused, Purgeable, Send, Goto
  <2>6. OneSignOut'
    BY <2>0, <2>1 DEF IInv, TypeOK, OneSignOut, Purgeable, Send, Goto
  <2> QED BY <2>2, <2>3, <2>4, <2>5, <2>6 DEF IInv
<1>3. ASSUME NEW r \in Requests, Guard(r) \/ DbError(r) PROVE IInv'
  BY <1>3, RequestStep DEF Guard, DbError
<1>4. ASSUME NEW r \in Requests, Check(r) PROVE IInv'
  <2>1. token[r] \notin revoked_tokens /\ r \in too_late => Purgeable(token[r])
    BY DEF IInv, Known, DenylistHolds
  <2> QED BY <1>4, <2>1, RequestStep DEF Check, Denied
<1>5. ASSUME NEW r \in Requests, Revoke(r) PROVE IInv'
  <2>0. /\ pc[r] = "revoke" /\ token[r] \in Tokens /\ exp[token[r]] # None
        /\ UNCHANGED <<now, fraction, exp, token, endpoint, too_late, loop, faults>>
    BY <1>5 DEF Revoke, clock, request, purge, IInv, Known
  <2>1. CASE token[r] \in revoked_tokens
    BY <1>5, <2>1, RequestStep DEF Revoke, Denied
  <2>2. CASE token[r] \notin revoked_tokens
    <3>0. /\ Send(r, 204)
          /\ revoked_tokens' = revoked_tokens \union {token[r]}
          /\ signed_out' = signed_out \union {token[r]}
      BY <1>5, <2>2 DEF Revoke, Denied, Insert
    <3>1. TypeOK'
      BY <2>0, <3>0 DEF IInv, TypeOK, Send
    <3>2. \A s \in Requests : Known(s)'
      BY <2>0, <3>0 DEF IInv, TypeOK, Known, Purgeable, Send
    <3>3. DenylistHolds'
      BY <2>0, <3>0 DEF IInv, DenylistHolds, Purgeable
    <3>4. LateRequestsRefused'
      BY <2>0, <3>0 DEF IInv, TypeOK, Known, LateRequestsRefused, Purgeable, Send
    <3>5. ASSUME NEW s \in Requests, s # r, reply[s] = 204, token[s] = token[r]
          PROVE  Purgeable(token[r])
      BY <2>2, <3>5 DEF IInv, Known, DenylistHolds
    <3>6. OneSignOut'
      BY <2>0, <3>0, <3>5 DEF IInv, TypeOK, OneSignOut, Purgeable, Send
    <3> QED BY <3>1, <3>2, <3>3, <3>4, <3>6 DEF IInv
  <2> QED BY <2>1, <2>2
<1>6. CASE PurgeTokens
  <2>0. /\ loop' = "sleep" /\ revoked_tokens' = {t \in revoked_tokens : ~Purgeable(t)}
        /\ UNCHANGED <<now, fraction, exp, pc, token, endpoint, too_late, reply, faults, signed_out>>
    BY <1>6 DEF PurgeTokens, clock, request
  <2>1. TypeOK' /\ \A r \in Requests : Known(r)'
    BY <2>0 DEF IInv, TypeOK, Known, Purgeable
  <2>2. DenylistHolds' /\ LateRequestsRefused' /\ OneSignOut'
    BY <2>0 DEF IInv, DenylistHolds, LateRequestsRefused, OneSignOut, Purgeable
  <2> QED BY <2>1, <2>2 DEF IInv
<1>7. ASSUME UNCHANGED <<clock, exp, revoked_tokens, request, reply, signed_out>>,
             loop' \in {"sleep", "keys", "tokens"}, faults' \in 0..MaxFaults,
             \/ UNCHANGED pc
             \/ pc' = [r \in Requests |-> IF pc[r] \in Underway THEN "lost" ELSE pc[r]]
      PROVE  IInv'
  <2>1. TypeOK'
    BY <1>7 DEF IInv, TypeOK, clock, request
  <2>2. \A r \in Requests : Known(r)'
    BY <1>7 DEF IInv, TypeOK, Known, Purgeable, clock, request, Underway
  <2>3. DenylistHolds' /\ LateRequestsRefused' /\ OneSignOut'
    BY <1>7 DEF IInv, DenylistHolds, LateRequestsRefused, OneSignOut, Purgeable, clock, request
  <2> QED BY <2>1, <2>2, <2>3 DEF IInv
<1>8. CASE Wake \/ PurgeKeys \/ PurgeError \/ Crash
  <2>1. faults \in 0..MaxFaults /\ (faults < MaxFaults => faults + 1 \in 0..MaxFaults)
    BY TimeAssumption DEF IInv, TypeOK
  <2> QED BY <1>7, <1>8, <2>1 DEF Wake, PurgeKeys, PurgeError, Crash
<1>9. CASE Tick
  <2>0. /\ UNCHANGED <<exp, revoked_tokens, pc, token, endpoint, too_late, reply, loop, faults, signed_out>>
        /\ now \in 0..MaxTime /\ now' \in 0..MaxTime
        /\ \/ ~fraction /\ fraction' = TRUE /\ now' = now
           \/ fraction' = FALSE /\ now' = now + 1
    BY <1>9, TimeAssumption DEF Tick, request, purge, IInv, TypeOK
  <2>1. \A t \in Tokens : exp[t] # None /\ Purgeable(t) => Purgeable(t)'
    BY <2>0 DEF IInv, TypeOK, Purgeable
  <2>2. TypeOK'
    BY <2>0 DEF IInv, TypeOK
  <2>3. \A r \in Requests : Known(r)'
    BY <2>0, <2>1 DEF IInv, Known
  <2>4. DenylistHolds'
    BY <2>0, <2>1 DEF IInv, TypeOK, DenylistHolds
  <2>5. LateRequestsRefused' /\ OneSignOut'
    BY <2>0, <2>1 DEF IInv, TypeOK, Known, LateRequestsRefused, OneSignOut
  <2> QED BY <2>2, <2>3, <2>4, <2>5 DEF IInv
<1>10. CASE UNCHANGED vars
  BY <1>7, <1>10 DEF vars, purge, IInv, TypeOK
<1> QED
  BY <1>1, <1>2, <1>3, <1>4, <1>5, <1>6, <1>8, <1>9, <1>10 DEF Next, Handle, Purge

(* The invariant holds in every reachable state.                            *)
THEOREM Invariance == Spec => []IInv
<1> QED BY InitIInv, NextIInv, PTL DEF Spec

(* Type correctness.                                                        *)
THEOREM TypeCorrect == Spec => []TypeOK
<1>1. IInv => TypeOK
  BY DEF IInv
<1> QED BY <1>1, Invariance, PTL

(* The row of a token that was signed out stays until the token's expiry.   *)
THEOREM DenylistIsKept == Spec => []DenylistHolds
<1>1. IInv => DenylistHolds
  BY DEF IInv
<1> QED BY <1>1, Invariance, PTL

(* A request that comes after the sign-out of its token is refused until    *)
(* the instant of the token's expiry has passed.                            *)
THEOREM SignOutIsFinal == Spec => []LateRequestsRefused
<1>1. IInv => LateRequestsRefused
  BY DEF IInv
<1> QED BY <1>1, Invariance, PTL

(* Of overlapping sign-outs of a token at most one is told 204.             *)
THEOREM SignOutOnce == Spec => []OneSignOut
<1>1. IInv => OneSignOut
  BY DEF IInv
<1> QED BY <1>1, Invariance, PTL
=============================================================================
