---------------------------- MODULE OrderCreation ----------------------------
(***************************************************************************)
(* POST /orders/: the create_order handler (src/src/infrastructure/api/    *)
(* routes/order_routes.py) with the CreateOrder use case, the order        *)
(* repository's `create` and the idempotency store.                        *)
(*                                                                         *)
(* The handler awaits the database and the payment provider, and other     *)
(* handlers run at every await: one action per await, with `pc` naming the *)
(* await a request is at.  No transaction spans two of them, so a request  *)
(* may stop between any two: by an error of the database (a 500), or with  *)
(* the process.  An order is named by the request that made it (its uuid4).*)
(* The provider is the environment: a payment that fails may have been     *)
(* taken, and each of its attempts may be.                                 *)
(***************************************************************************)
EXTENDS Naturals, FiniteSets

CONSTANTS
    Requests,       \* the POSTs of a run, each handled once
    Keys, TTL, MaxAge, None,
    TooLong,        \* a key of more than 128 characters
    MaxRetries,     \* attempts of one payment
    Others,         \* what other endpoints that save in the same table create
    Faults          \* which faults occur: a subset of {"db", "crash"}

ASSUME RetriesAssumption == MaxRetries \in Nat \ {0}
ASSUME AgeAssumption == TTL \in Nat /\ MaxAge \in Nat
ASSUME EnvironmentAssumption == Faults \subseteq {"db", "crash"}

VARIABLES
    pc,                 \* per request, the await its handler is at
    key,                \* per request, its Idempotency-Key or None
    reply,              \* per request, the response sent
    charges,            \* per request, how many payments the provider took
    orders,             \* the rows of the orders table
    idempotency_keys,
    purged,             \* history: the keys whose row the purge has deleted
    overlapped          \* history: the keys sent again while a POST of them ran

vars == <<pc, key, reply, charges, orders, idempotency_keys, purged, overlapped>>

Status == {201, 400, 422, 500, 502}

\* The status of a response and the id in its body.
Replies == [status : Status, id : Requests \union Others \union {None}]

INSTANCE IdempotencyStore

ASSUME NoneAssumption ==
    /\ None \notin Requests \union Others \union Keys \union Replies \union Rows
    /\ Requests \intersect Others = {}
    /\ TooLong \notin Keys \union {None}

Created(o) == [status |-> 201, id |-> o]
Refusal(s) == [status |-> s, id |-> None]

Awaiting == {"get", "products", "payment", "insert", "save"}
Ended(r) == pc[r] \in {"idle", "sent", "lost"}

TypeOK ==
    /\ pc \in [Requests -> Awaiting \union {"idle", "sent", "lost"}]
    /\ key \in [Requests -> Keys \union {None, TooLong}]
    /\ reply \in [Requests -> Replies \union {None}]
    /\ charges \in [Requests -> 0..MaxRetries]
    /\ orders \subseteq Requests
    /\ StoreTypeOK
    /\ purged \subseteq Keys
    /\ overlapped \subseteq Keys

Init ==
    /\ pc = [r \in Requests |-> "idle"]
    /\ key = [r \in Requests |-> None]
    /\ reply = [r \in Requests |-> None]
    /\ charges = [r \in Requests |-> 0]
    /\ orders = {}
    /\ StoreInit
    /\ purged = {}
    /\ overlapped = {}

-----------------------------------------------------------------------------
Goto(r, await) == pc' = [pc EXCEPT ![r] = await] /\ UNCHANGED reply

Send(r, response) ==
    /\ pc' = [pc EXCEPT ![r] = "sent"]
    /\ reply' = [reply EXCEPT ![r] = response]

\* Mutants: the forms a plausible slip would give the definitions below.

SwallowsFailure(r) ==
    /\ pc[r] = "payment"
    /\ \E n \in 0..MaxRetries : charges' = [charges EXCEPT ![r] = n]
    /\ Goto(r, "insert")
    /\ UNCHANGED <<key, orders, idempotency_keys, purged, overlapped>>

InsertsBeforePayment(r) ==
    /\ pc[r] = "payment"
    /\ \E n \in 0..MaxRetries : charges' = [charges EXCEPT ![r] = n]
    /\ orders' = orders \union {r}
    /\ Send(r, Refusal(502))
    /\ UNCHANGED <<key, idempotency_keys, purged, overlapped>>

SwallowsConflict(r) ==
    /\ pc[r] = "save"
    /\ Send(r, Created(r))
    /\ IF Conflicts(key[r]) THEN UNCHANGED idempotency_keys
                            ELSE Save(key[r], Created(r))
    /\ UNCHANGED <<key, charges, orders, purged, overlapped>>

SkipsSave(r) ==
    /\ pc[r] = "save"
    /\ Send(r, Created(r))
    /\ UNCHANGED <<key, charges, orders, idempotency_keys, purged, overlapped>>

Upserts(r) ==
    /\ pc[r] = "save"
    /\ Send(r, Created(r))
    /\ Save(key[r], Created(r))
    /\ UNCHANGED <<key, charges, orders, purged, overlapped>>

-----------------------------------------------------------------------------
(* A POST arrives, perhaps while another POST of its key is handled.        *)
Running(k) == \E s \in Requests : key[s] = k /\ ~Ended(s)

Receive(r) ==
    /\ pc[r] = "idle"
    /\ \E k \in Keys \union {None, TooLong} :
        /\ key' = [key EXCEPT ![r] = k]
        /\ overlapped' = overlapped \union {j \in Keys : j = k /\ Running(k)}
        /\ CASE k = TooLong -> Send(r, Refusal(400))
             [] k = None    -> Goto(r, "products")
             [] OTHER       -> Goto(r, "get")
    /\ UNCHANGED <<charges, orders, idempotency_keys, purged>>

(* `cached = await idempotency_repo.get(...)`: a hit is the response.       *)
Lookup(r) ==
    /\ pc[r] = "get"
    /\ IF Get(key[r]) # None THEN Send(r, Get(key[r])) ELSE Goto(r, "products")
    /\ UNCHANGED <<key, charges, orders, idempotency_keys, purged, overlapped>>

(* get_by_ids finds as many products as the body names ...                  *)
ProductsFound(r) ==
    /\ pc[r] = "products"
    /\ Goto(r, "payment")
    /\ UNCHANGED <<key, charges, orders, idempotency_keys, purged, overlapped>>

(* ... or fewer, also when the body names one twice: InvalidProductError.   *)
ProductsMissing(r) ==
    /\ pc[r] = "products"
    /\ Send(r, Refusal(422))
    /\ UNCHANGED <<key, charges, orders, idempotency_keys, purged, overlapped>>

(* PaymentService.process returns: its last attempt was taken.              *)
PaymentTaken(r) ==
    /\ pc[r] = "payment"
    /\ \E n \in 1..MaxRetries : charges' = [charges EXCEPT ![r] = n]
    /\ Goto(r, "insert")
    /\ UNCHANGED <<key, orders, idempotency_keys, purged, overlapped>>

(* PaymentFailedError; the provider may have taken payments whose replies   *)
(* were lost.                                                               *)
PaymentFails(r) ==
    /\ pc[r] = "payment"
    /\ \E n \in 0..MaxRetries : charges' = [charges EXCEPT ![r] = n]
    /\ Send(r, Refusal(502))
    /\ UNCHANGED <<key, orders, idempotency_keys, purged, overlapped>>

(* OrderRepository.create, one transaction; without a key the handler then  *)
(* answers.                                                                 *)
InsertOrder(r) ==
    /\ pc[r] = "insert"
    /\ orders' = orders \union {r}
    /\ IF key[r] = None THEN Send(r, Created(r)) ELSE Goto(r, "save")
    /\ UNCHANGED <<key, charges, idempotency_keys, purged, overlapped>>

(* `await idempotency_repo.save(...)`; nothing catches its IntegrityError.  *)
SaveReply(r) ==
    /\ pc[r] = "save"
    /\ IF Conflicts(key[r])
       THEN Send(r, Refusal(500)) /\ UNCHANGED idempotency_keys
       ELSE Send(r, Created(r)) /\ Save(key[r], Created(r))
    /\ UNCHANGED <<key, charges, orders, purged, overlapped>>

(* A statement raises (a locked database, say); nothing of it is kept.      *)
DbError(r) ==
    /\ "db" \in Faults
    /\ pc[r] \in Awaiting \ {"payment"}
    /\ Send(r, Refusal(500))
    /\ UNCHANGED <<key, charges, orders, idempotency_keys, purged, overlapped>>

(* The process dies with every handler in it and is started again; the      *)
(* database keeps what was committed, and the provider what it took from a  *)
(* payment that was under way.  To die after the last statement and before  *)
(* the response is that statement's step: whether the client got the        *)
(* response is not modelled.                                                *)
Crash ==
    /\ "crash" \in Faults
    /\ \E r \in Requests : pc[r] \in Awaiting
    /\ pc' = [r \in Requests |-> IF pc[r] \in Awaiting THEN "lost" ELSE pc[r]]
    /\ \E n \in [Requests -> 0..MaxRetries] :
        charges' = [r \in Requests |-> IF pc[r] = "payment" THEN n[r] ELSE charges[r]]
    /\ UNCHANGED <<key, reply, orders, idempotency_keys, purged, overlapped>>

Purge ==
    /\ DeleteExpired
    /\ purged' = purged \union {k \in Keys : Expired(k)}
    /\ UNCHANGED <<pc, key, reply, charges, orders, overlapped>>

(* Another endpoint saves its reply: POST /users/ uses the same table.      *)
OtherSave(k) ==
    /\ ~Conflicts(k)
    /\ \E o \in Others : Save(k, Created(o))
    /\ UNCHANGED <<pc, key, reply, charges, orders, purged, overlapped>>

Tick == GrowOld /\ UNCHANGED <<pc, key, reply, charges, orders, purged, overlapped>>

Handle(r) ==
    \/ Lookup(r) \/ ProductsFound(r) \/ ProductsMissing(r)
    \/ PaymentTaken(r) \/ PaymentFails(r) \/ InsertOrder(r) \/ SaveReply(r)

Next ==
    \/ \E r \in Requests : Receive(r) \/ Handle(r) \/ DbError(r)
    \/ \E k \in Keys : OtherSave(k)
    \/ Crash \/ Purge \/ Tick

Spec == Init /\ [][Next]_vars

-----------------------------------------------------------------------------
(* No order without a payment, at whatever await a handler stops.           *)
OrdersArePaid == \A o \in orders : charges[o] > 0

(* A 201, sent or cached, names a stored order, and one that was made for   *)
(* that very key: a crash or an error between the INSERT and the save never *)
(* leaves a reply for an order that does not exist.  The one exception is a *)
(* reply another endpoint saved.                                            *)
NamesStoredOrder(k, response) ==
    response.status = 201 /\ response.id \notin Others =>
        response.id \in orders /\ key[response.id] = k

RepliesNameOrders ==
    /\ \A r \in Requests : reply[r] # None => NamesStoredOrder(key[r], reply[r])
    /\ \A k \in Keys : Present(k) =>
        /\ idempotency_keys[k].reply.status = 201
        /\ NamesStoredOrder(k, idempotency_keys[k].reply)

(* A refused POST (400, 422, 502) leaves no order behind, and one refused   *)
(* before payment was never charged.                                        *)
RefusalLeavesNoOrder ==
    \A r \in Requests : reply[r] # None =>
        /\ reply[r].status \in {400, 422, 502} => r \notin orders
        /\ reply[r].status \in {400, 422} => charges[r] = 0

(* The row of a key is never replaced and never goes before it expires:     *)
(* overlapping POSTs, other endpoints and the purge leave the first reply   *)
(* in place.                                                                *)
LiveRowStays ==
    [][\A k \in Keys : Present(k) /\ ~Expired(k) =>
        /\ idempotency_keys'[k] # None
        /\ idempotency_keys'[k].reply = idempotency_keys[k].reply]_vars

(* Two clients told 201 for one key are told of the same order, even when   *)
(* their POSTs overlap, the process crashes or the database fails, as long  *)
(* as the purge has not freed the key for another order.                    *)
OneAcknowledgedOrder ==
    \A r, s \in Requests :
        /\ key[r] = key[s] /\ key[r] \in Keys \ purged
        /\ reply[r] # None /\ reply[s] # None
        /\ reply[r].status = 201 /\ reply[s].status = 201
        => reply[r].id = reply[s].id

(* What a key promises ends when its POSTs overlap, when a fault strikes    *)
(* one of them, when its row expires and when another endpoint takes it.    *)
Failed(r) == pc[r] = "lost" \/ (reply[r] # None /\ reply[r].status = 500)

Void ==
    overlapped \union purged
        \union {k \in Keys : Expired(k) \/ \E r \in Requests : key[r] = k /\ Failed(r)}
        \union {k \in Keys : Present(k) /\ idempotency_keys[k].reply.id \in Others}

OfKey(k, S) == IF k \in Void THEN {} ELSE {r \in S : key[r] = k}

Made(k) == OfKey(k, orders)
Charged(k) == OfKey(k, {r \in Requests : charges[r] > 0})
Told(k) == {reply[r].id : r \in
    OfKey(k, {r \in Requests : reply[r] # None /\ reply[r].status = 201})}

Promise == INSTANCE OncePerKey WITH
    Orders <- Requests,
    void <- Void,
    made <- [k \in Keys |-> Made(k)],
    charged <- [k \in Keys |-> Charged(k)],
    acknowledged <- [k \in Keys |-> Told(k)]

(* Until then a key makes one order and is charged for nothing after it,    *)
(* whatever happens to the POSTs of other keys: the handler implements      *)
(* OncePerKey.                                                              *)
ImplementsOncePerKey == Promise!Spec

(* "Sending the same key on a repeated request returns the original cached  *)
(* response without re-processing" (src/README.md).                         *)
OneOrderPerKey ==
    \A k \in Keys : Cardinality({o \in orders : key[o] = k}) <= 1

(* "Keys [...] expire after 24 hours" (src/README.md); entries older than    *)
(* that are "treated as expired and ignored on lookup"                      *)
(* (src/TECHNICAL_DESIGN.md).  So with no fault and no overlap an expired   *)
(* key is a fresh key, and the POST that uses it does not fail.             *)
ExpiredKeyIsFresh ==
    \A r \in Requests :
        reply[r] # None /\ key[r] \notin overlapped => reply[r].status # 500
=============================================================================
