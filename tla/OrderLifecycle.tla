--------------------------- MODULE OrderLifecycle ---------------------------
(***************************************************************************)
(* What the status of an order promises: it advances one step at a time to *)
(* the last one, and every step is announced, once and in order, before    *)
(* the next one is taken.  The promise of an order can become void, which  *)
(* leaves those of the other orders as they are.                           *)
(***************************************************************************)
EXTENDS Naturals

CONSTANTS Orders, Last

VARIABLES
    void,       \* the orders that promise nothing any more
    status,     \* per order, its status
    told        \* per order, how many statuses have been announced

vars == <<void, status, told>>

Init ==
    /\ void = {}
    /\ status = [o \in Orders |-> 0]
    /\ told = [o \in Orders |-> 0]

Advance(o) ==
    /\ told[o] = status[o] /\ status[o] < Last
    /\ status' = [status EXCEPT ![o] = @ + 1]
    /\ UNCHANGED <<void, told>>

Announce(o) ==
    /\ told[o] < status[o]
    /\ told' = [told EXCEPT ![o] = @ + 1]
    /\ UNCHANGED <<void, status>>

Forget(of, O) == [o \in Orders |-> IF o \in O THEN 0 ELSE of[o]]

BecomeVoid(O) ==
    /\ void' = void \union O
    /\ status' = Forget(status, O)
    /\ told' = Forget(told, O)

Next ==
    \/ \E o \in Orders \ void : Advance(o) \/ Announce(o)
    \/ \E O \in SUBSET (Orders \ void) : BecomeVoid(O)

Spec == Init /\ [][Next]_vars
=============================================================================
