------------------------- MODULE NotificationWorker -------------------------
(***************************************************************************)
(* The background notification worker (src/src/infrastructure/tasks/       *)
(* notification_worker.py) and the part of Redis it relies on: a stream    *)
(* that only grows, and one consumer group with its last-delivered id and  *)
(* its pending entries list (PEL), each entry with its idle time.          *)
(*                                                                         *)
(* Entries are numbered in the order of their XADDs.  Both XAUTOCLAIM and  *)
(* XREADGROUP return entries in id order, so a batch is a set whose next   *)
(* entry is its least.  Every worker runs under the one CONSUMER_NAME, so  *)
(* a second process shares the PEL with the first.                          *)
(*                                                                         *)
(* A fault is a Redis call that raises (Redis may have executed it), a     *)
(* crash of a worker's process, or Redis being away when a worker starts.  *)
(***************************************************************************)
EXTENDS Naturals, FiniteSets

CONSTANTS
    Workers,        \* the processes that run a notification_worker
    MaxMessages,    \* bound: entries added in a run
    BatchSize,      \* count=10
    MaxRetries,     \* MAX_RETRIES
    IdleLimit,      \* CLAIM_IDLE_MS in ticks
    Faults,         \* which faults occur: a subset of FaultKinds
    MaxFaults,      \* bound: faults in a run
    None

FaultKinds == {"redis", "crash", "startup"}
Messages == 1..MaxMessages

ASSUME BoundsAssumption ==
    /\ MaxMessages \in Nat /\ MaxFaults \in Nat
    /\ BatchSize \in Nat \ {0} /\ MaxRetries \in Nat \ {0} /\ IdleLimit \in Nat
ASSUME FaultsAssumption == Faults \subseteq FaultKinds
ASSUME NoneAssumption == None \notin Nat

VARIABLES
    added,          \* how many entries the stream has
    last_id,        \* the group's last-delivered id
    idle,           \* per entry, its idle time in the PEL; None when not in it
    pc,             \* per worker, the await it is at
    batch,          \* per worker, the entries of its batch still to deliver
    next,           \* per worker, the await after the batch
    attempt,        \* per worker, `attempt` of _deliver
    confirmed,      \* history: per entry, how many POSTs got a 2xx
    exhausted,      \* history: the entries given up after MaxRetries attempts
    faults          \* faults so far

redis == <<added, last_id, idle>>
worker == <<pc, batch, next, attempt>>
history == <<confirmed, exhausted>>
vars == <<redis, worker, history, faults>>

TypeOK ==
    /\ added \in 0..MaxMessages
    /\ last_id \in 0..added
    /\ idle \in [Messages -> (0..IdleLimit) \union {None}]
    /\ pc \in [Workers -> {"start", "claim", "read", "post", "ack", "dead"}]
    /\ batch \in [Workers -> SUBSET (1..last_id)]
    /\ next \in [Workers -> {"claim", "read"}]
    /\ attempt \in [Workers -> 1..MaxRetries]
    /\ confirmed \in [Messages -> Nat]
    /\ exhausted \subseteq Messages
    /\ faults \in 0..MaxFaults

Init ==
    /\ added = 0 /\ last_id = 0
    /\ idle = [m \in Messages |-> None]
    /\ pc = [w \in Workers |-> "start"]
    /\ batch = [w \in Workers |-> {}]
    /\ next = [w \in Workers |-> "claim"]
    /\ attempt = [w \in Workers |-> 1]
    /\ confirmed = [m \in Messages |-> 0]
    /\ exhausted = {}
    /\ faults = 0

Pending(m) == idle[m] # None
Settled(m) == m <= last_id /\ ~Pending(m)

FirstOf(S) == {m \in S : Cardinality({n \in S : n < m}) < BatchSize}

\* The last entry a read returns: BatchSize new ones, or what there is.
ReadUpTo == IF last_id + BatchSize < added THEN last_id + BatchSize ELSE added
Unread == (last_id + 1)..ReadUpTo

-----------------------------------------------------------------------------
\* Mutants: the forms a plausible slip would give the definitions below.

AcksFailure(w) ==
    /\ pc[w] = "post"
    /\ pc' = [pc EXCEPT ![w] = "ack"]
    /\ UNCHANGED <<redis, batch, next, attempt, history, faults>>

NeverIdle == {}

LatestFirst(w) == CHOOSE m \in batch[w] : \A n \in batch[w] : n <= m

ReadWithoutPending(S) ==
    /\ last_id' = ReadUpTo
    /\ UNCHANGED <<added, idle>>

ForgetsToAck(m) == UNCHANGED <<added, last_id, idle>>

-----------------------------------------------------------------------------
\* The entry being delivered.
Current(w) == CHOOSE m \in batch[w] : \A n \in batch[w] : m <= n

Idle == {m \in Messages : Pending(m) /\ idle[m] >= IdleLimit}

(* What Redis does for XAUTOCLAIM, XREADGROUP ">" and XACK.                 *)
ClaimEffect(S) ==
    /\ idle' = [m \in Messages |-> IF m \in S THEN 0 ELSE idle[m]]
    /\ UNCHANGED <<added, last_id>>

ReadEffect(S) ==
    /\ idle' = [m \in Messages |-> IF m \in S THEN 0 ELSE idle[m]]
    /\ last_id' = ReadUpTo
    /\ UNCHANGED added

AckEffect(m) ==
    /\ idle' = [idle EXCEPT ![m] = None]
    /\ UNCHANGED <<added, last_id>>

(* A worker takes up a batch, or goes on when it is empty.                  *)
TakeBatch(w, S, after) ==
    /\ batch' = [batch EXCEPT ![w] = S]
    /\ next' = [next EXCEPT ![w] = after]
    /\ attempt' = [attempt EXCEPT ![w] = 1]
    /\ pc' = [pc EXCEPT ![w] = IF S = {} THEN after ELSE "post"]

-----------------------------------------------------------------------------
(* RedisNotificationService.notify: XADD.                                   *)
Publish ==
    /\ added < MaxMessages
    /\ added' = added + 1
    /\ UNCHANGED <<last_id, idle, worker, history, faults>>

(* XGROUP CREATE with id "0" and MKSTREAM, or BUSYGROUP: either way the     *)
(* group exists and has delivered nothing it does not remember.             *)
Start(w) ==
    /\ pc[w] = "start"
    /\ pc' = [pc EXCEPT ![w] = "claim"]
    /\ UNCHANGED <<redis, batch, next, attempt, history, faults>>

Claim(w) ==
    /\ pc[w] = "claim"
    /\ ClaimEffect(FirstOf(Idle))
    /\ TakeBatch(w, FirstOf(Idle), "read")
    /\ UNCHANGED <<history, faults>>

(* XREADGROUP ">"; with nothing new it returns empty after five seconds.    *)
Read(w) ==
    /\ pc[w] = "read"
    /\ ReadEffect(Unread)
    /\ TakeBatch(w, Unread, "claim")
    /\ UNCHANGED <<history, faults>>

(* The POST of `_deliver` is answered 2xx.                                  *)
Delivered(w) ==
    /\ pc[w] = "post"
    /\ confirmed' = [confirmed EXCEPT ![Current(w)] = @ + 1]
    /\ pc' = [pc EXCEPT ![w] = "ack"]
    /\ UNCHANGED <<redis, batch, next, attempt, exhausted, faults>>

MayStillRetry(w) == attempt[w] < MaxRetries

(* It is answered otherwise or raises RequestError: sleep and try again.    *)
AttemptFails(w) ==
    /\ pc[w] = "post"
    /\ MayStillRetry(w)
    /\ attempt' = [attempt EXCEPT ![w] = @ + 1]
    /\ UNCHANGED <<redis, pc, batch, next, history, faults>>

(* The last attempt fails: acknowledge "to prevent requeue".                *)
GiveUp(w) ==
    /\ pc[w] = "post"
    /\ ~MayStillRetry(w)
    /\ exhausted' = exhausted \union {Current(w)}
    /\ pc' = [pc EXCEPT ![w] = "ack"]
    /\ UNCHANGED <<redis, batch, next, attempt, confirmed, faults>>

Ack(w) ==
    /\ pc[w] = "ack"
    /\ AckEffect(Current(w))
    /\ TakeBatch(w, batch[w] \ {Current(w)}, next[w])
    /\ UNCHANGED <<history, faults>>

(* A Redis call raises after or without taking effect: the exception ends   *)
(* _process_batch, the rest of the batch stays in the PEL, and the loop     *)
(* starts over.                                                             *)
RedisError(w) ==
    /\ "redis" \in Faults /\ faults < MaxFaults
    /\ \/ pc[w] = "claim" /\ ClaimEffect(FirstOf(Idle))
       \/ pc[w] = "read" /\ ReadEffect(Unread)
       \/ pc[w] = "ack" /\ AckEffect(Current(w))
       \/ pc[w] \in {"claim", "read", "ack"} /\ UNCHANGED redis
    /\ TakeBatch(w, {}, "claim")
    /\ faults' = faults + 1
    /\ UNCHANGED history

(* The process dies, or its lifespan ends and cancels the task at an await, *)
(* and is started again; Redis keeps the PEL.                               *)
Crash(w) ==
    /\ "crash" \in Faults /\ faults < MaxFaults
    /\ batch' = [batch EXCEPT ![w] = {}]
    /\ pc' = [pc EXCEPT ![w] = "start"]
    /\ faults' = faults + 1
    /\ UNCHANGED <<redis, next, attempt, history>>

(* XGROUP CREATE raises something other than BUSYGROUP: the task ends, and  *)
(* the process lives on without it.                                         *)
StartFails(w) ==
    /\ "startup" \in Faults /\ faults < MaxFaults
    /\ pc[w] = "start"
    /\ pc' = [pc EXCEPT ![w] = "dead"]
    /\ faults' = faults + 1
    /\ UNCHANGED <<redis, batch, next, attempt, history>>

Tick ==
    /\ idle' = [m \in Messages |->
                IF Pending(m) /\ idle[m] < IdleLimit THEN idle[m] + 1 ELSE idle[m]]
    /\ UNCHANGED <<added, last_id, worker, history, faults>>

Run(w) ==
    \/ Start(w) \/ Claim(w) \/ Read(w)
    \/ Delivered(w) \/ AttemptFails(w) \/ GiveUp(w) \/ Ack(w)

Next ==
    \/ \E w \in Workers : Run(w) \/ RedisError(w) \/ Crash(w) \/ StartFails(w)
    \/ Publish \/ Tick

Spec == Init /\ [][Next]_vars

(* A worker that runs goes on: every await of it ends.                      *)
Fairness == WF_vars(Tick) /\ \A w \in Workers : WF_vars(Run(w))

FairSpec == Spec /\ Fairness

-----------------------------------------------------------------------------
(* An entry the group no longer holds was answered 2xx or given up after    *)
(* MaxRetries attempts, however many workers share it.                      *)
NoneLost == \A m \in Messages : Settled(m) => confirmed[m] > 0 \/ m \in exhausted

(* A lone worker only ever delivers entries that are still pending, so what *)
(* it holds in memory never disagrees with the PEL.                         *)
BatchIsPending == \A w \in Workers : \A m \in batch[w] : Pending(m)

(* Each duplicate delivery costs a fault: without one an entry is confirmed *)
(* at most once, whatever the timing of claims and reads.                   *)
DuplicatesCostFaults == \A m \in Messages : confirmed[m] <= 1 + faults

(* Without faults a lone worker settles the entries in stream order.        *)
InOrder ==
    faults = 0 =>
        \A m \in Messages : Settled(m) => \A n \in 1..m : Settled(n)

(* Every entry is settled in the end, whatever crashed or failed before, as *)
(* long as a worker's task is running.                                      *)
SettledWhileRunning ==
    \A m \in Messages : m <= added ~> Settled(m) \/ \A w \in Workers : pc[w] = "dead"

(* "A notification can be lost only if all retry attempts are exhausted -   *)
(* not on the first failure or on a process crash"                          *)
(* (src/TECHNICAL_DESIGN.md): every entry is settled in the end.            *)
EventuallySettled == \A m \in Messages : m <= added ~> Settled(m)
=============================================================================
