-------------------------- MODULE UserRegistration --------------------------
(***************************************************************************)
(* POST /users/: the create_user handler (src/src/infrastructure/api/      *)
(* routes/user_routes.py) with the CreateUser use case and the user        *)
(* repository, composed with POST /orders/ of OrderCreation: both          *)
(* endpoints look their key up, and save their reply, in one table.        *)
(*                                                                         *)
(* As there, one action per await, and a POST may stop between any two.  A *)
(* user is named by the POST that made it (its uuid4): the POSTs are what  *)
(* OrderCreation knows as Others.                                          *)
(***************************************************************************)
EXTENDS OrderCreation

CONSTANT Emails

VARIABLES
    user_pc,    \* per POST /users/, the await its handler is at
    user_key,   \* per POST /users/, its Idempotency-Key or None
    email,      \* per POST /users/, the email it registers
    user_reply, \* per POST /users/, the response sent
    users       \* the rows of the users table

registration == <<user_pc, user_key, email, user_reply, users>>
system == <<vars, registration>>

UserReplies == [status : Status \union {409}, id : Requests \union Others \union {None}]

ASSUME EmailsAssumption == None \notin Emails \union UserReplies

UserAwaiting == {"get", "insert", "save"}

UserTypeOK ==
    /\ user_pc \in [Others -> UserAwaiting \union {"idle", "sent", "lost"}]
    /\ user_key \in [Others -> Keys \union {None, TooLong}]
    /\ email \in [Others -> Emails \union {None}]
    /\ user_reply \in [Others -> UserReplies \union {None}]
    /\ users \subseteq Others

UserInit ==
    /\ user_pc = [p \in Others |-> "idle"]
    /\ user_key = [p \in Others |-> None]
    /\ email = [p \in Others |-> None]
    /\ user_reply = [p \in Others |-> None]
    /\ users = {}

-----------------------------------------------------------------------------
UserGoto(p, await) == user_pc' = [user_pc EXCEPT ![p] = await] /\ UNCHANGED user_reply

UserSend(p, response) ==
    /\ user_pc' = [user_pc EXCEPT ![p] = "sent"]
    /\ user_reply' = [user_reply EXCEPT ![p] = response]

\* Mutants: the forms a plausible slip would give the definitions below.

SavesFirst(p) ==
    /\ user_pc[p] = "get"
    /\ UserGoto(p, "insert")
    /\ IF Conflicts(user_key[p]) THEN UNCHANGED vars ELSE OtherSave(user_key[p])
    /\ UNCHANGED <<user_key, email, users>>

CatchesAnyConflict(p) ==
    /\ user_pc[p] = "save"
    /\ IF Conflicts(user_key[p])
       THEN UserSend(p, Refusal(409)) /\ UNCHANGED vars
       ELSE /\ UserSend(p, Created(p)) /\ Save(user_key[p], Created(p))
            /\ UNCHANGED <<pc, key, reply, charges, orders, purged, overlapped>>
    /\ UNCHANGED <<user_key, email, users>>

ReplacesRow(p) ==
    /\ user_pc[p] = "save"
    /\ UserSend(p, Created(p))
    /\ Save(user_key[p], Created(p))
    /\ UNCHANGED <<pc, key, reply, charges, orders, purged, overlapped>>
    /\ UNCHANGED <<user_key, email, users>>

KeepsNewReply(p) ==
    /\ user_pc[p] = "save"
    /\ UserSend(p, Created(p))
    /\ IF Conflicts(user_key[p]) THEN UNCHANGED vars ELSE
        /\ Save(user_key[p], Created(p))
        /\ UNCHANGED <<pc, key, reply, charges, orders, purged, overlapped>>
    /\ UNCHANGED <<user_key, email, users>>

-----------------------------------------------------------------------------
(* A POST /users/ arrives; the key may be one of a POST /orders/.           *)
ReceiveUser(p) ==
    /\ user_pc[p] = "idle"
    /\ \E k \in Keys \union {None, TooLong}, e \in Emails :
        /\ user_key' = [user_key EXCEPT ![p] = k]
        /\ email' = [email EXCEPT ![p] = e]
        /\ CASE k = TooLong -> UserSend(p, Refusal(400))
             [] k = None    -> UserGoto(p, "insert")
             [] OTHER       -> UserGoto(p, "get")
    /\ UNCHANGED <<vars, users>>

(* A hit is the response, whichever endpoint saved it.                      *)
LookupUser(p) ==
    /\ user_pc[p] = "get"
    /\ IF Get(user_key[p]) # None THEN UserSend(p, Get(user_key[p]))
                                  ELSE UserGoto(p, "insert")
    /\ UNCHANGED <<vars, user_key, email, users>>

(* UserRepository.create: the unique index on the email decides, and its    *)
(* IntegrityError is the DuplicateEmailError.                               *)
Registered(e) == \E q \in users : email[q] = e

InsertUser(p) ==
    /\ user_pc[p] = "insert"
    /\ IF Registered(email[p])
       THEN UserSend(p, Refusal(409)) /\ UNCHANGED users
       ELSE /\ users' = users \union {p}
            /\ IF user_key[p] = None THEN UserSend(p, Created(p)) ELSE UserGoto(p, "save")
    /\ UNCHANGED <<vars, user_key, email>>

(* `await idempotency_repo.save(...)`, outside the try: a conflict is a 500. *)
SaveUser(p) ==
    /\ user_pc[p] = "save"
    /\ IF Conflicts(user_key[p])
       THEN UserSend(p, Refusal(500)) /\ UNCHANGED vars
       ELSE /\ UserSend(p, Created(p)) /\ Save(user_key[p], Created(p))
            /\ UNCHANGED <<pc, key, reply, charges, orders, purged, overlapped>>
    /\ UNCHANGED <<user_key, email, users>>

(* A statement raises; nothing of it is kept.                               *)
UserDbError(p) ==
    /\ "db" \in Faults
    /\ user_pc[p] \in UserAwaiting
    /\ UserSend(p, Refusal(500))
    /\ UNCHANGED <<vars, user_key, email, users>>

(* The process dies with the handlers of both endpoints.                    *)
LoseUsers ==
    /\ user_pc' = [p \in Others |-> IF user_pc[p] \in UserAwaiting THEN "lost" ELSE user_pc[p]]
    /\ UNCHANGED <<user_key, email, user_reply, users>>

CrashAll ==
    /\ "crash" \in Faults
    /\ \/ Crash
       \/ /\ \A r \in Requests : pc[r] \notin Awaiting
          /\ \E p \in Others : user_pc[p] \in UserAwaiting
          /\ UNCHANGED vars
    /\ LoseUsers

HandleUser(p) == LookupUser(p) \/ InsertUser(p) \/ SaveUser(p)

SystemNext ==
    \/ \E p \in Others : ReceiveUser(p) \/ HandleUser(p) \/ UserDbError(p)
    \/ \E r \in Requests : (Receive(r) \/ Handle(r) \/ DbError(r)) /\ UNCHANGED registration
    \/ (Purge \/ Tick) /\ UNCHANGED registration
    \/ CrashAll

SystemInit == Init /\ UserInit

System == SystemInit /\ [][SystemNext]_system

-----------------------------------------------------------------------------
(* The composition is a behaviour of OrderCreation, whose Others are these  *)
(* registrations: what is proved there holds beside POST /users/.           *)
ImplementsOrderCreation == Spec

(* A client told 409 or 400 has not registered, and one told 409 was kept   *)
(* out by another user of that email: no overlap, fault or key saved by     *)
(* the other endpoint turns a registration that happened into a refusal.    *)
RefusedIsNotRegistered ==
    \A p \in Others : user_reply[p] # None =>
        /\ user_reply[p].status \in {400, 409} => p \notin users
        /\ user_reply[p].status = 409 => Registered(email[p])

(* A cached reply is of a row that exists, of the endpoint and the key that *)
(* saved it, and so is every 201 of either endpoint.                        *)
NamesRow(k, response) ==
    response.status = 201 =>
        \/ response.id \in orders /\ key[response.id] = k
        \/ response.id \in users /\ user_key[response.id] = k

RepliesNameRows ==
    /\ \A k \in Keys : Present(k) => NamesRow(k, idempotency_keys[k].reply)
    /\ \A r \in Requests : reply[r] # None => NamesRow(key[r], reply[r])
    /\ \A p \in Others : user_reply[p] # None => NamesRow(user_key[p], user_reply[p])

(* All clients told 201 for one key are told of the same thing, also when   *)
(* the key was sent to both endpoints: an order or a user, not one of each. *)
OneAcknowledgedReply ==
    \A r \in Requests, p \in Others :
        /\ key[r] = user_key[p] /\ key[r] \in Keys \ purged
        /\ reply[r] # None /\ user_reply[p] # None
        /\ reply[r].status = 201 /\ user_reply[p].status = 201
        => reply[r] = user_reply[p]
=============================================================================
