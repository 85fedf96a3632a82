----------------------------- MODULE OrderStatus -----------------------------
(***************************************************************************)
(* PATCH /orders/{id}/status: the update_order_status handler with the     *)
(* UpdateOrderStatus use case (src/src/use_cases/order/                    *)
(* update_order_status.py), the order repository's read and unconditional  *)
(* UPDATE, and the XADD of RedisNotificationService.notify.                *)
(*                                                                         *)
(* The four awaits (read, UPDATE, re-read, XADD) are four actions; other   *)
(* handlers run in between, and the process may die or a call may raise    *)
(* at any of them.  The statuses WAITING, PREPARATION, READY, DELIVERED    *)
(* are 0..3, in the order of _TRANSITIONS.                                 *)
(***************************************************************************)
EXTENDS Naturals, FiniteSets

CONSTANTS
    Updates,        \* the PATCHes of a run, each handled once
    Orders,         \* the orders that exist
    NoOrder,        \* an id that names no order
    None,
    Faults          \* which faults occur: a subset of {"db", "redis", "crash"}

ASSUME UpdatesAssumption == IsFiniteSet(Updates)
ASSUME NoOrderAssumption == NoOrder \notin Orders
ASSUME EnvironmentAssumption == Faults \subseteq {"db", "redis", "crash"}

VARIABLES
    pc,         \* per PATCH, the await its handler is at
    order,      \* per PATCH, the order it names
    new_status, \* per PATCH, the status it asks for
    reply,      \* per PATCH, the status code of the response
    status,     \* per order, the status column
    announced,  \* per order and status, the entries in the notifications stream
    reached,    \* history: per order, the statuses it has had
    written,    \* history: per order and status, the UPDATEs that were made
    overlapped  \* history: the orders patched while a PATCH of them ran

request == <<order, new_status>>
Codes == {200, 404, 422, 500}

ASSUME NoneAssumption == None \notin Orders \union {NoOrder} \union Codes

vars == <<pc, request, reply, status, announced, reached, written, overlapped>>

Status == 0..3
WAITING == 0
DELIVERED == 3

Awaiting == {"read", "write", "reread", "notify"}
Ended(u) == pc[u] \in {"idle", "sent", "lost"}

TypeOK ==
    /\ pc \in [Updates -> Awaiting \union {"idle", "sent", "lost"}]
    /\ order \in [Updates -> Orders \union {NoOrder, None}]
    /\ new_status \in [Updates -> Status]
    /\ reply \in [Updates -> Codes \union {None}]
    /\ status \in [Orders -> Status]
    /\ announced \in [Orders -> [Status -> Nat]]
    /\ reached \in [Orders -> SUBSET Status]
    /\ written \in [Orders -> [Status -> Nat]]
    /\ overlapped \subseteq Orders

Init ==
    /\ pc = [u \in Updates |-> "idle"]
    /\ order = [u \in Updates |-> None]
    /\ new_status = [u \in Updates |-> WAITING]
    /\ reply = [u \in Updates |-> None]
    /\ status = [o \in Orders |-> WAITING]
    /\ announced = [o \in Orders |-> [s \in Status |-> 0]]
    /\ reached = [o \in Orders |-> {WAITING}]
    /\ written = [o \in Orders |-> [s \in Status |-> 0]]
    /\ overlapped = {}

-----------------------------------------------------------------------------
Goto(u, await) == pc' = [pc EXCEPT ![u] = await] /\ UNCHANGED reply

Send(u, code) ==
    /\ pc' = [pc EXCEPT ![u] = "sent"]
    /\ reply' = [reply EXCEPT ![u] = code]

Announce(u) ==
    announced' = [announced EXCEPT ![order[u]][new_status[u]] = @ + 1]

\* Mutants: the forms a plausible slip would give the definitions below.

AnyStepForward(from, to) == to > from

AnnouncesFirst(u) ==
    /\ pc[u] = "read"
    /\ order[u] \in Orders
    /\ new_status[u] = status[order[u]] + 1
    /\ Announce(u)
    /\ Goto(u, "write")
    /\ UNCHANGED <<request, status, reached, written, overlapped>>

SkipsNotify(u) ==
    /\ pc[u] = "reread"
    /\ Send(u, 200)
    /\ UNCHANGED <<request, status, announced, reached, written, overlapped>>

-----------------------------------------------------------------------------
(* A PATCH arrives, perhaps while another PATCH of its order is handled; a  *)
(* manager sent it, and its status is one of the four.                      *)
Receive(u) ==
    /\ pc[u] = "idle"
    /\ \E o \in Orders \union {NoOrder}, s \in Status :
        /\ order' = [order EXCEPT ![u] = o]
        /\ new_status' = [new_status EXCEPT ![u] = s]
        /\ overlapped' = overlapped \union
               {p \in Orders : p = o /\ \E v \in Updates : order[v] = p /\ ~Ended(v)}
    /\ Goto(u, "read")
    /\ UNCHANGED <<status, announced, reached, written>>

(* `_TRANSITIONS.get(existing.status) == new_status`.                       *)
Follows(from, to) == from < DELIVERED /\ to = from + 1

(* get_by_id, and the check of what it read.                                *)
Read(u) ==
    /\ pc[u] = "read"
    /\ \/ order[u] = NoOrder /\ Send(u, 404)
       \/ order[u] \in Orders /\ ~Follows(status[order[u]], new_status[u]) /\ Send(u, 422)
       \/ order[u] \in Orders /\ Follows(status[order[u]], new_status[u]) /\ Goto(u, "write")
    /\ UNCHANGED <<request, status, announced, reached, written, overlapped>>

(* The UPDATE, WHERE id only: it does not look at the status it replaces.   *)
Write(u) ==
    /\ pc[u] = "write"
    /\ status' = [status EXCEPT ![order[u]] = new_status[u]]
    /\ reached' = [reached EXCEPT ![order[u]] = @ \union {new_status[u]}]
    /\ written' = [written EXCEPT ![order[u]][new_status[u]] = @ + 1]
    /\ Goto(u, "reread")
    /\ UNCHANGED <<request, announced, overlapped>>

(* update_status reads the order it returns.                                *)
Reread(u) ==
    /\ pc[u] = "reread"
    /\ Goto(u, "notify")
    /\ UNCHANGED <<request, status, announced, reached, written, overlapped>>

(* notify: XADD of the status that was asked for.                           *)
Notify(u) ==
    /\ pc[u] = "notify"
    /\ Announce(u)
    /\ Send(u, 200)
    /\ UNCHANGED <<request, status, reached, written, overlapped>>

(* A statement raises; nothing of it is kept.                               *)
DbError(u) ==
    /\ "db" \in Faults
    /\ pc[u] \in {"read", "write", "reread"}
    /\ Send(u, 500)
    /\ UNCHANGED <<request, status, announced, reached, written, overlapped>>

(* XADD raises, with or without the entry in the stream.                    *)
RedisError(u) ==
    /\ "redis" \in Faults
    /\ pc[u] = "notify"
    /\ Announce(u) \/ UNCHANGED announced
    /\ Send(u, 500)
    /\ UNCHANGED <<request, status, reached, written, overlapped>>

(* The process dies with every handler in it and is started again.  To die   *)
(* after the XADD and before the response is Notify: whether the client got *)
(* the response is not modelled.                                            *)
Crash ==
    /\ "crash" \in Faults
    /\ \E u \in Updates : ~Ended(u)
    /\ pc' = [u \in Updates |-> IF Ended(u) THEN pc[u] ELSE "lost"]
    /\ UNCHANGED <<request, reply, status, announced, reached, written, overlapped>>

Handle(u) == Read(u) \/ Write(u) \/ Reread(u) \/ Notify(u)

\* The PATCHes of a run have all ended.
Done == (\A u \in Updates : pc[u] \in {"sent", "lost"}) /\ UNCHANGED vars

Next ==
    \/ \E u \in Updates : Receive(u) \/ Handle(u) \/ DbError(u) \/ RedisError(u)
    \/ Crash
    \/ Done

Spec == Init /\ [][Next]_vars

-----------------------------------------------------------------------------
(* No status is ever reached before every earlier one was, even when stale  *)
(* handlers write over each other.                                          *)
NoneSkipped ==
    \A o \in Orders :
        /\ status[o] \in reached[o]
        /\ \A s \in reached[o] : 0..s \subseteq reached[o]

(* A notification follows an UPDATE that really happened, and each UPDATE   *)
(* is announced at most once; the handlers that have written and not yet    *)
(* announced are accounted for.                                             *)
ToAnnounce(o, s) ==
    {u \in Updates : pc[u] \in {"reread", "notify"} /\ order[u] = o /\ new_status[u] = s}

AnnouncedIsWritten ==
    \A o \in Orders, s \in Status :
        announced[o][s] + Cardinality(ToAnnounce(o, s)) <= written[o][s]

(* What an order promises ends when PATCHes of it overlap and when a fault  *)
(* strikes one of them.                                                     *)
Failed(u) == pc[u] = "lost" \/ reply[u] = 500

Void == overlapped \union {o \in Orders : \E u \in Updates : order[u] = o /\ Failed(u)}

Announced(o) == announced[o][1] + announced[o][2] + announced[o][3]

Lifecycle == INSTANCE OrderLifecycle WITH
    Last <- DELIVERED,
    void <- Void,
    status <- [o \in Orders |-> IF o \in Void THEN 0 ELSE status[o]],
    told <- [o \in Orders |-> IF o \in Void THEN 0 ELSE Announced(o)]

(* Until then an order advances one step at a time and each step is         *)
(* announced, once, before the next is taken, whatever happens to other     *)
(* orders: the handler implements OrderLifecycle.                           *)
ImplementsLifecycle == Lifecycle!Spec

(* "There is no way to skip steps or move backwards"                        *)
(* (src/TECHNICAL_DESIGN.md): the status of an order never decreases.       *)
ForwardOnly == [][\A o \in Orders : status'[o] >= status[o]]_vars
=============================================================================
