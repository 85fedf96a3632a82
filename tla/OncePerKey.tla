----------------------------- MODULE OncePerKey -----------------------------
(***************************************************************************)
(* What an Idempotency-Key promises the client of POST /orders/: a key     *)
(* makes at most one order; once it has, no POST of that key is charged    *)
(* again, and every 201 for it names that order.  The promise of a key can *)
(* become void, which leaves those of the other keys as they are.          *)
(***************************************************************************)
CONSTANTS Keys, Orders

VARIABLES
    void,           \* the keys that promise nothing any more
    made,           \* per key, the orders it made
    charged,        \* per key, the POSTs of it that were charged
    acknowledged    \* per key, the orders its 201s named

promised == <<made, charged, acknowledged>>
vars == <<void, promised>>

Init ==
    /\ void = {}
    /\ made = [k \in Keys |-> {}]
    /\ charged = [k \in Keys |-> {}]
    /\ acknowledged = [k \in Keys |-> {}]

Charge(k) ==
    /\ made[k] = {}
    /\ \E o \in Orders : charged' = [charged EXCEPT ![k] = @ \union {o}]
    /\ UNCHANGED <<void, made, acknowledged>>

Make(k) ==
    /\ made[k] = {}
    /\ \E o \in charged[k] : made' = [made EXCEPT ![k] = {o}]
    /\ UNCHANGED <<void, charged, acknowledged>>

Acknowledge(k) ==
    /\ made[k] # {}
    /\ acknowledged' = [acknowledged EXCEPT ![k] = made[k]]
    /\ UNCHANGED <<void, made, charged>>

Forget(of, K) == [k \in Keys |-> IF k \in K THEN {} ELSE of[k]]

BecomeVoid(K) ==
    /\ void' = void \union K
    /\ made' = Forget(made, K)
    /\ charged' = Forget(charged, K)
    /\ acknowledged' = Forget(acknowledged, K)

Next ==
    \/ \E k \in Keys \ void : Charge(k) \/ Make(k) \/ Acknowledge(k)
    \/ \E K \in SUBSET (Keys \ void) : BecomeVoid(K)

Spec == Init /\ [][Next]_vars
=============================================================================
