--------------------------- MODULE TokenRevocation ---------------------------
(***************************************************************************)
(* Tokens, the guard of every protected route, sign-out and the purge loop *)
(* (src/src/infrastructure/auth/jwt.py, api/dependencies.py,               *)
(* api/middleware/role_middleware.py, api/routes/auth_routes.py,           *)
(* database/repositories/revoked_token_repository.py,                      *)
(* tasks/purge_expired.py).                                                *)
(*                                                                         *)
(* A request is decoded twice, by the middleware and by the guard, before  *)
(* the guard awaits the denylist and the handler awaits its INSERT; time,  *)
(* other requests and the purge go on in between.  The clock has two       *)
(* instants per second: the library that decodes a token compares whole    *)
(* seconds, the purge compares the fraction as well.                        *)
(***************************************************************************)
EXTENDS Naturals

CONSTANTS
    Requests,       \* the requests of a run that carry a token
    Tokens,         \* the jtis that are issued
    Lifetime,       \* jwt_expiration_minutes, in seconds
    MaxTime,        \* bound: the clock stops here, past the last expiry
    Faults,         \* which faults occur: a subset of {"db", "crash"}
    MaxFaults,      \* bound: faults in a run
    None

ASSUME TimeAssumption == Lifetime \in Nat /\ MaxTime \in Nat /\ MaxFaults \in Nat
ASSUME FaultsAssumption == Faults \subseteq {"db", "crash"}
ASSUME NoneAssumption == None \notin Nat /\ None \notin Tokens

VARIABLES
    now,            \* the clock, in whole seconds
    fraction,       \* is it past the second?
    exp,            \* per token, its exp claim; None before it is issued
    revoked_tokens, \* the denylist: the jtis that have a row
    pc,             \* per request, where its handling is
    token,          \* per request, the token it carries
    endpoint,       \* per request, "sign_out" or any "other" protected route
    reply,          \* per request, the status code of the response
    loop,           \* the await the purge loop is at
    faults,         \* faults so far
    signed_out,     \* history: the tokens a sign-out has put in the denylist
    too_late        \* history: the requests that came after that

clock == <<now, fraction>>
request == <<token, endpoint, too_late>>
purge == <<loop, faults>>
vars == <<clock, exp, revoked_tokens, pc, request, reply, purge, signed_out>>

Underway == {"guard", "check", "revoke"}

TypeOK ==
    /\ now \in 0..MaxTime /\ fraction \in BOOLEAN
    /\ exp \in [Tokens -> Nat \union {None}]
    /\ revoked_tokens \subseteq signed_out
    /\ signed_out \subseteq {t \in Tokens : exp[t] # None}
    /\ pc \in [Requests -> Underway \union {"idle", "sent", "lost"}]
    /\ token \in [Requests -> Tokens \union {None}]
    /\ endpoint \in [Requests -> {"sign_out", "other"}]
    /\ reply \in [Requests -> {200, 204, 401, 500} \union {None}]
    /\ loop \in {"sleep", "keys", "tokens"}
    /\ faults \in 0..MaxFaults
    /\ too_late \subseteq Requests

Init ==
    /\ now = 0 /\ fraction = FALSE
    /\ exp = [t \in Tokens |-> None]
    /\ revoked_tokens = {}
    /\ pc = [r \in Requests |-> "idle"]
    /\ token = [r \in Requests |-> None]
    /\ endpoint = [r \in Requests |-> "other"]
    /\ reply = [r \in Requests |-> None]
    /\ loop = "sleep" /\ faults = 0
    /\ signed_out = {}
    /\ too_late = {}

-----------------------------------------------------------------------------
Goto(r, place) == pc' = [pc EXCEPT ![r] = place] /\ UNCHANGED reply

Send(r, code) ==
    /\ pc' = [pc EXCEPT ![r] = "sent"]
    /\ reply' = [reply EXCEPT ![r] = code]

\* Mutants: the forms a plausible slip would give the definitions below.

PurgesOnTheSecond ==
    /\ loop = "tokens"
    /\ revoked_tokens' = {t \in revoked_tokens : exp[t] > now}
    /\ loop' = "sleep"
    /\ UNCHANGED <<clock, exp, pc, request, reply, faults, signed_out>>

AdmitsUnchecked(r) ==
    /\ pc[r] = "check"
    /\ IF endpoint[r] = "sign_out" THEN Goto(r, "revoke") ELSE Send(r, 200)
    /\ UNCHANGED <<clock, exp, revoked_tokens, request, purge, signed_out>>

IgnoresConflict(r) ==
    /\ pc[r] = "revoke"
    /\ revoked_tokens' = revoked_tokens \union {token[r]}
    /\ signed_out' = signed_out \union {token[r]}
    /\ Send(r, 204)
    /\ UNCHANGED <<clock, exp, request, purge>>

KeysOnly ==
    /\ loop = "keys"
    /\ loop' = "sleep"
    /\ UNCHANGED <<clock, exp, revoked_tokens, pc, request, reply, faults, signed_out>>

-----------------------------------------------------------------------------
(* create_access_token: the exp claim drops the fraction of the second.     *)
Expiry == now + Lifetime

(* SignIn.execute, for a user with the right password: a new jti.  (The     *)
(* bound keeps the expiry within the time of a run.)                        *)
Issue(t) ==
    /\ exp[t] = None /\ Expiry < MaxTime
    /\ exp' = [exp EXCEPT ![t] = Expiry]

(* The sign-in handler; a failed sign-in changes nothing.                   *)
SignIn(t) ==
    /\ Issue(t)
    /\ UNCHANGED <<clock, revoked_tokens, pc, request, reply, purge, signed_out>>

(* jwt.decode rejects a token in the seconds after its exp claim.           *)
Decodes(t) == exp[t] >= now

(* A request arrives; RoleMiddleware decodes its token.                     *)
Receive(r) ==
    /\ pc[r] = "idle"
    /\ \E t \in Tokens, e \in {"sign_out", "other"} :
        /\ exp[t] # None
        /\ token' = [token EXCEPT ![r] = t]
        /\ endpoint' = [endpoint EXCEPT ![r] = e]
        /\ too_late' = IF t \in signed_out THEN too_late \union {r} ELSE too_late
        /\ IF Decodes(t) THEN Goto(r, "guard") ELSE Send(r, 401)
    /\ UNCHANGED <<clock, exp, revoked_tokens, purge, signed_out>>

(* get_current_user decodes it again.                                       *)
Guard(r) ==
    /\ pc[r] = "guard"
    /\ IF Decodes(token[r]) THEN Goto(r, "check") ELSE Send(r, 401)
    /\ UNCHANGED <<clock, exp, revoked_tokens, request, purge, signed_out>>

(* is_revoked: has the jti a row?                                           *)
Denied(t) == t \in revoked_tokens

(* `await revoked_repo.is_revoked(...)`; a request it lets pass reaches its *)
(* handler.                                                                 *)
Check(r) ==
    /\ pc[r] = "check"
    /\ IF Denied(token[r]) THEN Send(r, 401)
       ELSE IF endpoint[r] = "sign_out" THEN Goto(r, "revoke") ELSE Send(r, 200)
    /\ UNCHANGED <<clock, exp, revoked_tokens, request, purge, signed_out>>

(* revoke: a plain INSERT; jti is the primary key.                          *)
Insert(t) ==
    /\ revoked_tokens' = revoked_tokens \union {t}
    /\ signed_out' = signed_out \union {t}

(* sign_out: nothing catches the IntegrityError of a second INSERT.         *)
Revoke(r) ==
    /\ pc[r] = "revoke"
    /\ IF Denied(token[r]) THEN Send(r, 500) /\ UNCHANGED <<revoked_tokens, signed_out>>
                           ELSE Send(r, 204) /\ Insert(token[r])
    /\ UNCHANGED <<clock, exp, request, purge>>

(* A statement of a handler raises; nothing of it is kept.                  *)
DbError(r) ==
    /\ "db" \in Faults
    /\ pc[r] \in {"check", "revoke"}
    /\ Send(r, 500)
    /\ UNCHANGED <<clock, exp, revoked_tokens, request, purge, signed_out>>

-----------------------------------------------------------------------------
(* `expires_at < now`: the row is a whole second, the clock is not.         *)
Purgeable(t) == exp[t] < now \/ (exp[t] = now /\ fraction)

(* purge_loop: sleep, delete the expired idempotency keys, then the rows of *)
(* expired tokens.  An exception of either ends the round, not the loop.    *)
Wake ==
    /\ loop = "sleep"
    /\ loop' = "keys"
    /\ UNCHANGED <<clock, exp, revoked_tokens, pc, request, reply, faults, signed_out>>

PurgeKeys ==
    /\ loop = "keys"
    /\ loop' = "tokens"
    /\ UNCHANGED <<clock, exp, revoked_tokens, pc, request, reply, faults, signed_out>>

PurgeTokens ==
    /\ loop = "tokens"
    /\ revoked_tokens' = {t \in revoked_tokens : ~Purgeable(t)}
    /\ loop' = "sleep"
    /\ UNCHANGED <<clock, exp, pc, request, reply, faults, signed_out>>

PurgeError ==
    /\ "db" \in Faults /\ faults < MaxFaults
    /\ loop \in {"keys", "tokens"}
    /\ loop' = "sleep"
    /\ faults' = faults + 1
    /\ UNCHANGED <<clock, exp, revoked_tokens, pc, request, reply, signed_out>>

(* The process dies and is started again: requests are lost, the rows stay, *)
(* and the loop begins with its sleep.  A shutdown that cancels the loop is *)
(* the same step.                                                           *)
Crash ==
    /\ "crash" \in Faults /\ faults < MaxFaults
    /\ pc' = [r \in Requests |-> IF pc[r] \in Underway THEN "lost" ELSE pc[r]]
    /\ loop' = "sleep"
    /\ faults' = faults + 1
    /\ UNCHANGED <<clock, exp, revoked_tokens, request, reply, signed_out>>

Tick ==
    /\ \/ ~fraction /\ fraction' = TRUE /\ UNCHANGED now
       \/ fraction /\ now < MaxTime /\ fraction' = FALSE /\ now' = now + 1
    /\ UNCHANGED <<exp, revoked_tokens, pc, request, reply, purge, signed_out>>

Handle(r) == Guard(r) \/ Check(r) \/ Revoke(r)
Purge == Wake \/ PurgeKeys \/ PurgeTokens

Next ==
    \/ \E t \in Tokens : SignIn(t)
    \/ \E r \in Requests : Receive(r) \/ Handle(r) \/ DbError(r)
    \/ Purge \/ PurgeError \/ Crash \/ Tick

Spec == Init /\ [][Next]_vars

(* The clock runs, and the purge loop goes round.                           *)
Fairness == WF_vars(Tick) /\ WF_vars(Purge)

FairSpec == Spec /\ Fairness

-----------------------------------------------------------------------------
(* A token that was signed out stays in the denylist until the instant of   *)
(* its expiry has passed: no purge, crash or second sign-out takes its row  *)
(* away while it could still be used.                                       *)
DenylistHolds == \A t \in signed_out : Purgeable(t) \/ t \in revoked_tokens

(* A request that came after the sign-out of its token is let in, if at     *)
(* all, only past the instant of the token's expiry: there the row may be   *)
(* gone although the token was decoded in time.                             *)
LateRequestsRefused ==
    \A r \in too_late : reply[r] \in {200, 204} => Purgeable(token[r])

(* Overlapping sign-outs of one token: one of them is told 204.             *)
OneSignOut ==
    \A r, s \in Requests :
        r # s /\ reply[r] = 204 /\ reply[s] = 204 /\ token[r] = token[s]
            => Purgeable(token[r])

(* The denylist does not grow for ever: each row goes in the end, also when *)
(* rounds of the purge fail.                                                *)
DeniedRowsGo == \A t \in Tokens : t \in revoked_tokens ~> t \notin revoked_tokens
=============================================================================
