-------------------------- MODULE IdempotencyStore --------------------------
(***************************************************************************)
(* The idempotency_keys table and its repository                          *)
(* (src/src/infrastructure/database/repositories/                          *)
(* idempotency_repository.py).  A row keeps the reply a POST gave and when *)
(* it was saved; here its age in ticks, saturated at MaxAge.  Each         *)
(* operation is one SQL statement, hence one atomic step.                   *)
(***************************************************************************)
EXTENDS Naturals

CONSTANTS
    Keys,       \* the Idempotency-Key values in use
    Replies,    \* what a row may cache
    TTL,        \* IDEMPOTENCY_TTL in ticks: 24 hours
    MaxAge,     \* bound: no row is watched past this age
    None

VARIABLE idempotency_keys   \* per key, its row or None

Rows == [reply : Replies, age : 0..MaxAge]

StoreTypeOK == idempotency_keys \in [Keys -> Rows \union {None}]

StoreInit == idempotency_keys = [k \in Keys |-> None]

Present(k) == idempotency_keys[k] # None

(* `created_at < now - IDEMPOTENCY_TTL`, in `get` and in `delete_expired`.  *)
Expired(k) == Present(k) /\ idempotency_keys[k].age > TTL

(* `get`: an expired row counts as no row, but stays in the table.          *)
Get(k) == IF Present(k) /\ ~Expired(k) THEN idempotency_keys[k].reply ELSE None

(* `save`: a plain INSERT; `key` is the primary key, so it conflicts with   *)
(* any row of that key, an expired one included.                            *)
Conflicts(k) == Present(k)

Save(k, reply) ==
    idempotency_keys' = [idempotency_keys EXCEPT ![k] = [reply |-> reply, age |-> 0]]

(* `delete_expired`, from the hourly purge loop.                            *)
DeleteExpired ==
    /\ \E k \in Keys : Expired(k)
    /\ idempotency_keys' =
        [k \in Keys |-> IF Expired(k) THEN None ELSE idempotency_keys[k]]

(* Time passes.                                                             *)
Grow(row) ==
    IF row # None /\ row.age < MaxAge THEN [row EXCEPT !.age = @ + 1] ELSE row

GrowOld == idempotency_keys' = [k \in Keys |-> Grow(idempotency_keys[k])]
=============================================================================
