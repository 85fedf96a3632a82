---------------------- MODULE NotificationWorkerProofs ----------------------
(***************************************************************************)
(* No notification is lost, proved for any number of worker processes      *)
(* sharing the consumer name, entries, batch size, attempts, idle limit     *)
(* and faults; and what a worker can rely on while no other shares its     *)
(* name: its batch agrees with the pending list, a duplicate costs a       *)
(* fault, and without faults the entries are settled in stream order.      *)
(***************************************************************************)
EXTENDS NotificationWorker, WellFoundedInduction, TLAPS

(* A non-empty set of naturals has a least element.                         *)
LEMMA LeastExists ==
    ASSUME NEW S, S \subseteq Nat, S # {}
    PROVE  \E x \in S : \A y \in S : x <= y
<1>1. PICK x \in S : \A y \in S : ~(<<y, x>> \in OpToRel(<, Nat))
  BY WFMin, NatLessThanWellFounded
<1>2. ASSUME NEW y \in S PROVE x <= y
  <2>1. x \in Nat /\ y \in Nat
    OBVIOUS
  <2>2. ~(y < x)
    BY <1>1, <2>1 DEF OpToRel
  <2> QED BY <2>1, <2>2
<1> QED BY <1>2

(* What NoneLost needs to be inductive: only read entries are pending, and  *)
(* a worker about to acknowledge an entry has confirmed it or exhausted it. *)
Dealt(m) == confirmed[m] > 0 \/ m \in exhausted

Progress(w) ==
    /\ pc[w] \in {"post", "ack"} => batch[w] # {}
    /\ pc[w] = "ack" => Dealt(Current(w))

IInv ==
    /\ TypeOK
    /\ \A m \in Messages : Pending(m) => m <= last_id
    /\ NoneLost
    /\ \A w \in Workers : Progress(w)

(* The entry a worker delivers is one of its batch.                         *)
LEMMA CurrentInBatch ==
    ASSUME TypeOK, NEW w \in Workers, batch[w] # {}
    PROVE  Current(w) \in batch[w] /\ Current(w) \in Messages
<1>1. batch[w] \subseteq Nat /\ batch[w] \subseteq Messages
  BY BoundsAssumption DEF TypeOK, Messages
<1>2. \E m \in batch[w] : \A n \in batch[w] : m <= n
  BY <1>1, LeastExists
<1> QED BY <1>1, <1>2 DEF Current

(* What a read takes is new, and leaves no gap behind it.                   *)
LEMMA ReadFacts ==
    ASSUME TypeOK
    PROVE  /\ ReadUpTo \in last_id..added
           /\ Unread \subseteq 1..ReadUpTo
           /\ Unread \subseteq Messages
           /\ \A m \in Messages : m <= ReadUpTo => m <= last_id \/ m \in Unread
  BY BoundsAssumption DEF TypeOK, ReadUpTo, Unread, Messages

(* The shared part of every step that changes Redis and starts or drops a   *)
(* batch: worker w ends up at the head of batch S or without one.           *)
LEMMA TakeBatchFacts ==
    ASSUME TypeOK, NEW w \in Workers, NEW S, NEW after \in {"claim", "read"},
           TakeBatch(w, S, after), S \subseteq 1..last_id', last_id <= last_id', last_id' \in 0..added
    PROVE  /\ pc' \in [Workers -> {"start", "claim", "read", "post", "ack", "dead"}]
           /\ batch' \in [Workers -> SUBSET (1..last_id')]
           /\ next' \in [Workers -> {"claim", "read"}]
           /\ attempt' \in [Workers -> 1..MaxRetries]
           /\ batch'[w] = S /\ pc'[w] = (IF S = {} THEN after ELSE "post")
           /\ \A v \in Workers \ {w} : pc'[v] = pc[v] /\ batch'[v] = batch[v]
<1>1. \A v \in Workers : batch[v] \subseteq 1..last_id'
  BY DEF TypeOK
<1> QED BY <1>1, BoundsAssumption DEF TypeOK, TakeBatch

(* The initial state is in the invariant.                                   *)
LEMMA InitIInv == Init => IInv
  BY BoundsAssumption, NoneAssumption
  DEF Init, IInv, TypeOK, Pending, NoneLost, Settled, Progress, Messages

(* A step by w that leaves what is confirmed and exhausted alone, puts w at *)
(* no acknowledgement, and settles nothing that was not dealt with.         *)
LEMMA TakeBatchKeepsIInv ==
    ASSUME IInv, NEW w \in Workers, NEW S, NEW after \in {"claim", "read"},
           TakeBatch(w, S, after), S \subseteq 1..last_id',
           last_id <= last_id', last_id' \in 0..added, UNCHANGED <<added, history>>,
           faults' \in 0..MaxFaults,
           idle' \in [Messages -> (0..IdleLimit) \union {None}],
           \A m \in Messages : Pending(m)' => m <= last_id',
           \A m \in Messages : Settled(m)' => Settled(m) \/ Dealt(m)
    PROVE  IInv'
<1>0. TypeOK
  BY DEF IInv
<1>1. TypeOK'
  BY <1>0, TakeBatchFacts DEF TypeOK, history
<1>2. NoneLost'
  BY DEF IInv, NoneLost, Dealt, history
<1>3. \A v \in Workers : Progress(v)'
  <2>0. /\ pc' \in [Workers -> {"start", "claim", "read", "post", "ack", "dead"}]
        /\ batch'[w] = S /\ pc'[w] = (IF S = {} THEN after ELSE "post")
        /\ \A v \in Workers \ {w} : pc'[v] = pc[v] /\ batch'[v] = batch[v]
    BY <1>0, TakeBatchFacts
  <2> SUFFICES ASSUME NEW v \in Workers PROVE Progress(v)'
    OBVIOUS
  <2>1. CASE v = w
    BY <2>0, <2>1 DEF Progress
  <2>2. CASE v # w
    <3>1. pc'[v] = pc[v] /\ batch'[v] = batch[v]
      BY <2>0, <2>2
    <3>2. Current(v)' = Current(v)
      BY <3>1 DEF Current
    <3> QED BY <3>1, <3>2 DEF IInv, Progress, Dealt, history
  <2> QED BY <2>1, <2>2
<1> QED BY <1>1, <1>2, <1>3 DEF IInv

(* What the three Redis calls do to the entries.                            *)
LEMMA ClaimFacts ==
    ASSUME IInv, ClaimEffect(FirstOf(Idle))
    PROVE  /\ UNCHANGED <<added, last_id>>
           /\ FirstOf(Idle) \subseteq 1..last_id
           /\ idle' \in [Messages -> (0..IdleLimit) \union {None}]
           /\ \A m \in Messages : Pending(m)' <=> Pending(m)
<1>1. FirstOf(Idle) \subseteq Idle
  BY DEF FirstOf
<1>2. \A m \in Idle : m \in Messages /\ Pending(m) /\ m <= last_id /\ m \in 1..last_id
  BY BoundsAssumption DEF Idle, IInv, TypeOK, Messages
<1> QED
  BY <1>1, <1>2, BoundsAssumption, NoneAssumption DEF ClaimEffect, IInv, TypeOK, Pending

(* A read settles nothing: what it passes becomes pending.                  *)
LEMMA ReadEffectFacts ==
    ASSUME IInv, ReadEffect(Unread)
    PROVE  /\ UNCHANGED added /\ last_id' = ReadUpTo
           /\ idle' \in [Messages -> (0..IdleLimit) \union {None}]
           /\ \A m \in Messages : Pending(m)' => m <= last_id'
           /\ \A m \in Messages : Settled(m)' => Settled(m)
<1>1. TypeOK
  BY DEF IInv
<1> QED
  BY <1>1, ReadFacts, BoundsAssumption, NoneAssumption
  DEF ReadEffect, IInv, TypeOK, Pending, Settled, Messages

(* An acknowledgement settles its entry alone.                              *)
LEMMA AckFacts ==
    ASSUME IInv, NEW m \in Messages, AckEffect(m)
    PROVE  /\ UNCHANGED <<added, last_id>>
           /\ idle' \in [Messages -> (0..IdleLimit) \union {None}]
           /\ \A n \in Messages : Pending(n)' => Pending(n)
           /\ \A n \in Messages : Settled(n)' => Settled(n) \/ n = m
  BY DEF AckEffect, IInv, TypeOK, Pending, Settled

(* Every step keeps the invariant.                                          *)
LEMMA NextIInv == IInv /\ [Next]_vars => IInv'
<1> SUFFICES ASSUME IInv, [Next]_vars PROVE IInv'
  OBVIOUS
<1>0. TypeOK /\ last_id \in 0..added /\ added \in Nat /\ faults \in 0..MaxFaults
  BY BoundsAssumption DEF IInv, TypeOK
<1>a. ASSUME NEW w \in Workers, pc[w] = "ack"
      PROVE  /\ Current(w) \in Messages /\ Current(w) \in batch[w]
             /\ Dealt(Current(w))
  BY <1>0, <1>a, CurrentInBatch DEF IInv, Progress
<1>1. ASSUME NEW w \in Workers, Start(w) \/ Crash(w) \/ StartFails(w) PROVE IInv'
  <2>1. /\ UNCHANGED <<redis, history, next, attempt>>
        /\ faults' \in 0..MaxFaults
        /\ pc'[w] \in {"claim", "start", "dead"}
        /\ pc' \in [Workers -> {"start", "claim", "read", "post", "ack", "dead"}]
        /\ batch' \in [Workers -> SUBSET (1..last_id)]
        /\ \A v \in Workers \ {w} : pc'[v] = pc[v] /\ batch'[v] = batch[v]
    BY <1>0, <1>1, BoundsAssumption DEF Start, Crash, StartFails, TypeOK
  <2>2. TypeOK'
    BY <1>0, <2>1 DEF TypeOK, redis, history
  <2>3. \A v \in Workers : Progress(v)'
    <3> SUFFICES ASSUME NEW v \in Workers PROVE Progress(v)'
      OBVIOUS
    <3>1. CASE v = w
      BY <2>1, <3>1 DEF Progress
    <3>2. CASE v # w
      <4>1. pc'[v] = pc[v] /\ batch'[v] = batch[v]
        BY <2>1, <3>2
      <4>2. Current(v)' = Current(v)
        BY <4>1 DEF Current
      <4> QED BY <2>1, <4>1, <4>2 DEF IInv, Progress, Dealt, history
    <3> QED BY <3>1, <3>2
  <2> QED
    BY <2>1, <2>2, <2>3 DEF IInv, NoneLost, Pending, Settled, redis, history
<1>2. ASSUME NEW w \in Workers, Claim(w) PROVE IInv'
  <2>1. ClaimEffect(FirstOf(Idle)) /\ TakeBatch(w, FirstOf(Idle), "read") /\ UNCHANGED <<history, faults>>
    BY <1>2 DEF Claim
  <2> QED
    BY <1>0, <2>1, ClaimFacts, TakeBatchKeepsIInv DEF IInv, Settled
<1>3. ASSUME NEW w \in Workers, Read(w) PROVE IInv'
  <2>1. ReadEffect(Unread) /\ TakeBatch(w, Unread, "claim") /\ UNCHANGED <<history, faults>>
    BY <1>3 DEF Read
  <2>2. Unread \subseteq 1..last_id' /\ last_id <= last_id' /\ last_id' \in 0..added
    BY <1>0, <2>1, ReadFacts, ReadEffectFacts
  <2> QED
    BY <1>0, <2>1, <2>2, ReadEffectFacts, TakeBatchKeepsIInv
<1>4. ASSUME NEW w \in Workers, Ack(w) PROVE IInv'
  <2> DEFINE m == Current(w)
             S == batch[w] \ {m}
  <2>1. /\ pc[w] = "ack" /\ AckEffect(m) /\ TakeBatch(w, S, next[w])
        /\ UNCHANGED <<history, faults>>
    BY <1>4 DEF Ack
  <2>2. m \in Messages /\ Dealt(m)
    BY <1>a, <2>1
  <2>3. S \subseteq 1..last_id /\ next[w] \in {"claim", "read"}
    BY <1>0 DEF TypeOK
  <2> HIDE DEF m, S
  <2>4. /\ UNCHANGED <<added, last_id>>
        /\ idle' \in [Messages -> (0..IdleLimit) \union {None}]
        /\ \A n \in Messages : Pending(n)' => Pending(n)
        /\ \A n \in Messages : Settled(n)' => Settled(n) \/ n = m
    BY <2>1, <2>2, AckFacts
  <2>5. \A n \in Messages : Pending(n)' => n <= last_id'
    BY <2>4 DEF IInv
  <2>6. \A n \in Messages : Settled(n)' => Settled(n) \/ Dealt(n)
    BY <2>2, <2>4
  <2>7. PICK T \in SUBSET (1..last_id), after \in {"claim", "read"} : T = S /\ after = next[w]
    BY <2>3
  <2>8. TakeBatch(w, T, after)
    BY <2>1, <2>7 DEF TakeBatch
  <2>9. /\ T \subseteq 1..last_id' /\ last_id <= last_id'
        /\ last_id' \in 0..added /\ faults' \in 0..MaxFaults
    BY <1>0, <2>1, <2>3, <2>4, <2>7
  <2> QED
    BY <2>1, <2>4, <2>5, <2>6, <2>8, <2>9, TakeBatchKeepsIInv
<1>5. ASSUME NEW w \in Workers, RedisError(w) PROVE IInv'
  <2>1. TakeBatch(w, {}, "claim") /\ UNCHANGED history /\ faults' \in 0..MaxFaults
    BY <1>0, <1>5, BoundsAssumption DEF RedisError
  <2>2. CASE ClaimEffect(FirstOf(Idle))
    BY <1>0, <2>1, <2>2, ClaimFacts, TakeBatchKeepsIInv DEF IInv, Settled
  <2>3. CASE ReadEffect(Unread)
    <3>1. last_id <= last_id' /\ last_id' \in 0..added
      BY <1>0, <2>3, ReadFacts, ReadEffectFacts
    <3> QED BY <1>0, <2>1, <2>3, <3>1, ReadEffectFacts, TakeBatchKeepsIInv
  <2>4. CASE pc[w] = "ack" /\ AckEffect(Current(w))
    <3>1. Current(w) \in Messages /\ Dealt(Current(w))
      BY <1>a, <2>4
    <3>2. /\ UNCHANGED <<added, last_id>>
          /\ idle' \in [Messages -> (0..IdleLimit) \union {None}]
          /\ \A n \in Messages : Pending(n)' => Pending(n)
          /\ \A n \in Messages : Settled(n)' => Settled(n) \/ n = Current(w)
      BY <2>4, <3>1, AckFacts
    <3> QED BY <1>0, <2>1, <3>1, <3>2, TakeBatchKeepsIInv DEF IInv
  <2>5. CASE UNCHANGED redis
    BY <1>0, <2>1, <2>5, TakeBatchKeepsIInv DEF redis, IInv, TypeOK, Pending, Settled
  <2> QED BY <1>5, <2>2, <2>3, <2>4, <2>5 DEF RedisError
<1>6. ASSUME NEW w \in Workers, Delivered(w) \/ AttemptFails(w) \/ GiveUp(w) PROVE IInv'
  <2>1. pc[w] = "post" /\ Current(w) \in Messages
    BY <1>0, <1>6, CurrentInBatch DEF Delivered, AttemptFails, GiveUp, IInv, Progress
  <2>2. UNCHANGED <<redis, batch, next, faults>> /\ \A v \in Workers : Current(v)' = Current(v)
    BY <1>6 DEF Delivered, AttemptFails, GiveUp, Current
  <2>3. \A m \in Messages : Dealt(m) => Dealt(m)'
    BY <1>0, <1>6, <2>1 DEF Delivered, AttemptFails, GiveUp, Dealt, TypeOK, history
  <2>4. TypeOK'
    BY <1>0, <1>6, <2>1, BoundsAssumption
    DEF Delivered, AttemptFails, GiveUp, MayStillRetry, TypeOK, redis, history
  <2>5. \A v \in Workers : Progress(v)'
    <3>1. pc'[w] = "ack" => Dealt(Current(w))'
      BY <1>0, <1>6, <2>1, <2>2 DEF Delivered, AttemptFails, GiveUp, Dealt, TypeOK
    <3>2. \A v \in Workers \ {w} : pc'[v] = pc[v]
      BY <1>0, <1>6 DEF Delivered, AttemptFails, GiveUp, TypeOK
    <3>3. \A v \in Workers \ {w} : pc[v] = "ack" => Current(v) \in Messages
      BY <1>a
    <3> QED BY <1>0, <2>1, <2>2, <2>3, <3>1, <3>2, <3>3 DEF IInv, Progress
  <2> QED
    BY <2>2, <2>3, <2>4, <2>5 DEF IInv, NoneLost, Dealt, Pending, Settled, redis
<1>7. CASE Publish
  <2>1. added' = added + 1 /\ added < MaxMessages /\ UNCHANGED <<last_id, idle, worker, history, faults>>
    BY <1>7 DEF Publish
  <2>2. TypeOK'
    BY <1>0, <2>1, BoundsAssumption DEF TypeOK, worker, history
  <2> QED
    BY <2>1, <2>2 DEF IInv, NoneLost, Pending, Settled, Progress, Dealt, Current, worker, history
<1>8. CASE Tick
  <2>1. UNCHANGED <<added, last_id, worker, history, faults>>
    BY <1>8 DEF Tick
  <2>2. /\ idle' \in [Messages -> (0..IdleLimit) \union {None}]
        /\ \A m \in Messages : Pending(m)' <=> Pending(m)
    BY <1>0, <1>8, BoundsAssumption, NoneAssumption DEF Tick, TypeOK, Pending
  <2>3. TypeOK'
    BY <1>0, <2>1, <2>2 DEF TypeOK, worker, history
  <2> QED
    BY <2>1, <2>2, <2>3 DEF IInv, NoneLost, Settled, Progress, Dealt, Current, worker, history
<1>9. CASE UNCHANGED vars
  BY <1>9 DEF vars, redis, worker, history, IInv, TypeOK, NoneLost, Pending, Settled,
     Progress, Dealt, Current
<1> QED
  BY <1>1, <1>2, <1>3, <1>4, <1>5, <1>6, <1>7, <1>8, <1>9 DEF Next, Run

(* The invariant holds in every reachable state.                            *)
THEOREM Invariance == Spec => []IInv
<1> QED BY InitIInv, NextIInv, PTL DEF Spec

(* Type correctness.                                                        *)
THEOREM TypeCorrect == Spec => []TypeOK
<1>1. IInv => TypeOK
  BY DEF IInv
<1> QED BY <1>1, Invariance, PTL

(* An entry leaves the group only delivered or exhausted, through crashes,  *)
(* Redis errors and workers that claim from each other.                     *)
THEOREM NothingLost == Spec => []NoneLost
<1>1. IInv => NoneLost
  BY DEF IInv
<1> QED BY <1>1, Invariance, PTL

(* What settles stays settled, and nobody takes it up again.                *)
SettledStays(m) ==
    Settled(m) => Settled(m)' /\ \A w \in Workers : m \in batch'[w] => m \in batch[w]

(* A batch a worker takes keeps that when it holds nothing settled but what *)
(* the worker held already, and the group takes nothing settled back.       *)
LEMMA TakeBatchSettles ==
    ASSUME TypeOK, NEW w \in Workers, NEW S, NEW after, TakeBatch(w, S, after),
           NEW m \in Messages, last_id <= last_id', last_id' \in Nat,
           Settled(m) => ~Pending(m)' /\ (m \in S => m \in batch[w])
    PROVE  SettledStays(m)
<1>1. batch'[w] = S /\ \A v \in Workers \ {w} : batch'[v] = batch[v]
  BY DEF TypeOK, TakeBatch
<1>2. last_id \in Nat /\ m \in Nat
  BY BoundsAssumption DEF TypeOK, Messages
<1> QED BY <1>1, <1>2 DEF SettledStays, Settled

(* Redis hands out pending entries and entries it has not handed out yet.   *)
LEMMA HandedOut ==
    ASSUME TypeOK, NEW m \in Messages, Settled(m)
    PROVE  /\ m \notin FirstOf(Idle) /\ m \notin Unread
           /\ ClaimEffect(FirstOf(Idle)) => ~Pending(m)'
           /\ ReadEffect(Unread) => ~Pending(m)'
           /\ \A n \in Messages : AckEffect(n) => ~Pending(m)'
<1>1. m \notin FirstOf(Idle)
  BY DEF FirstOf, Idle, Settled
<1>2. m \notin Unread
  BY BoundsAssumption DEF Unread, Settled, TypeOK, Messages
<1> QED
  BY <1>1, <1>2 DEF ClaimEffect, ReadEffect, AckEffect, Pending, Settled, TypeOK

(* A settled entry is never pending again, and after it was settled no      *)
(* worker takes it into a batch: however many workers share the group, and  *)
(* through crashes, errors and restarts, the POSTs of an entry that come    *)
(* after its XACK are those of workers that had claimed it before.          *)
THEOREM SettledForGood == Spec => [][\A m \in Messages : SettledStays(m)]_vars
<1>1. ASSUME IInv, [Next]_vars PROVE [\A m \in Messages : SettledStays(m)]_vars
  <2> SUFFICES ASSUME NEW m \in Messages PROVE SettledStays(m)
    OBVIOUS
  <2>0. /\ TypeOK /\ last_id \in Nat /\ last_id <= last_id
        /\ ReadUpTo \in Nat /\ last_id <= ReadUpTo
    BY <1>1, ReadFacts, BoundsAssumption DEF IInv, TypeOK
  <2>1. ASSUME UNCHANGED <<last_id, idle, batch>> PROVE SettledStays(m)
    BY <2>1 DEF SettledStays, Settled, Pending
  <2>2. ASSUME NEW w \in Workers,
               Start(w) \/ Delivered(w) \/ AttemptFails(w) \/ GiveUp(w) \/ StartFails(w)
        PROVE  SettledStays(m)
    BY <2>1, <2>2 DEF Start, Delivered, AttemptFails, GiveUp, StartFails, redis
  <2>3. ASSUME NEW w \in Workers, Crash(w) PROVE SettledStays(m)
    <3>1. UNCHANGED <<last_id, idle>> /\ batch' = [batch EXCEPT ![w] = {}]
      BY <2>3 DEF Crash, redis
    <3> QED BY <2>0, <3>1 DEF SettledStays, Settled, Pending, TypeOK
  <2>4. ASSUME NEW w \in Workers, Claim(w) PROVE SettledStays(m)
    <3>1. ClaimEffect(FirstOf(Idle)) /\ TakeBatch(w, FirstOf(Idle), "read")
      BY <2>4 DEF Claim
    <3>2. last_id' = last_id
      BY <3>1 DEF ClaimEffect
    <3> QED BY <2>0, <3>1, <3>2, HandedOut, TakeBatchSettles
  <2>5. ASSUME NEW w \in Workers, Read(w) PROVE SettledStays(m)
    <3>1. ReadEffect(Unread) /\ TakeBatch(w, Unread, "claim")
      BY <2>5 DEF Read
    <3>2. last_id' = ReadUpTo
      BY <3>1 DEF ReadEffect
    <3> QED BY <2>0, <3>1, <3>2, HandedOut, TakeBatchSettles
  <2>a. ASSUME NEW w \in Workers, pc[w] = "ack" PROVE Current(w) \in Messages
    BY <1>1, <2>a, CurrentInBatch DEF IInv, Progress
  <2>6. ASSUME NEW w \in Workers, Ack(w) PROVE SettledStays(m)
    <3>1. /\ AckEffect(Current(w)) /\ Current(w) \in Messages
          /\ TakeBatch(w, batch[w] \ {Current(w)}, next[w])
      BY <2>a, <2>6 DEF Ack
    <3>2. last_id' = last_id
      BY <3>1 DEF AckEffect
    <3>3. m \in batch[w] \ {Current(w)} => m \in batch[w]
      OBVIOUS
    <3> QED BY <2>0, <3>1, <3>2, <3>3, HandedOut, TakeBatchSettles
  <2>7. ASSUME NEW w \in Workers, RedisError(w) PROVE SettledStays(m)
    <3>1. TakeBatch(w, {}, "claim")
      BY <2>7 DEF RedisError
    <3>2. \/ ClaimEffect(FirstOf(Idle))
          \/ ReadEffect(Unread)
          \/ Current(w) \in Messages /\ AckEffect(Current(w))
          \/ UNCHANGED redis
      BY <2>a, <2>7 DEF RedisError
    <3>3. last_id' \in {last_id, ReadUpTo}
      BY <3>2 DEF ClaimEffect, ReadEffect, AckEffect, redis
    <3>4. Settled(m) => ~Pending(m)'
      <4>1. CASE UNCHANGED redis
        BY <4>1 DEF redis, Settled, Pending
      <4> QED BY <2>0, <3>2, <4>1, HandedOut
    <3> QED BY <2>0, <3>1, <3>3, <3>4, TakeBatchSettles
  <2>8. CASE Publish \/ Tick
    <3>1. UNCHANGED <<last_id, batch>>
      BY <2>8 DEF Publish, Tick, worker
    <3>2. ~Pending(m) => ~Pending(m)'
      BY <2>0, <2>8 DEF Publish, Tick, Pending, TypeOK
    <3> QED BY <3>1, <3>2 DEF SettledStays, Settled
  <2>9. CASE UNCHANGED vars
    BY <2>1, <2>9 DEF vars, redis, worker
  <2> QED
    BY <1>1, <2>2, <2>3, <2>4, <2>5, <2>6, <2>7, <2>8, <2>9 DEF Next, Run
<1>2. IInv /\ [Next]_vars => [\A m \in Messages : SettledStays(m)]_vars
  BY <1>1
<1> QED BY <1>2, Invariance, PTL DEF Spec

-----------------------------------------------------------------------------
(* From here on, no two processes share the consumer name.                  *)
Lone == \A v, w \in Workers : v = w

AtAck(m) == \E w \in Workers : pc[w] = "ack" /\ Current(w) = m

(* A worker holds a batch only while it delivers it.                        *)
BatchWhileDelivering ==
    \A w \in Workers : pc[w] \notin {"post", "ack"} => batch[w] = {}

(* An entry that may still be delivered was confirmed at most once per      *)
(* fault; at its acknowledgement, once more.                                *)
Counted ==
    \A m \in Messages :
        /\ m > last_id => confirmed[m] = 0
        /\ Pending(m) /\ ~AtAck(m) => confirmed[m] <= faults

(* Without faults nothing is pending but what the worker holds.             *)
Held ==
    faults = 0 => \A m \in Messages : Pending(m) => \E w \in Workers : m \in batch[w]

LoneInv ==
    /\ BatchWhileDelivering
    /\ BatchIsPending
    /\ Counted
    /\ DuplicatesCostFaults
    /\ Held
    /\ InOrder

(* The initial state is in the invariant.                                   *)
LEMMA InitLoneInv == Init => LoneInv
  BY BoundsAssumption DEF Init, LoneInv, BatchWhileDelivering, BatchIsPending, Counted,
     DuplicatesCostFaults, Held, InOrder, Pending, Settled, Messages

(* The entry being delivered is the oldest of its batch.                    *)
LEMMA CurrentIsLeast ==
    ASSUME TypeOK, NEW w \in Workers, batch[w] # {}
    PROVE  \A n \in batch[w] : Current(w) <= n
<1>1. batch[w] \subseteq Nat
  BY BoundsAssumption DEF TypeOK
<1>2. \E m \in batch[w] : \A n \in batch[w] : m <= n
  BY <1>1, LeastExists
<1> QED BY <1>2 DEF Current

(* A step that takes up batch S keeps the invariant when S is pending after *)
(* it, nothing old becomes pending, an entry at its acknowledgement is paid *)
(* for by a fault or settled, and, without faults, S is all that is pending *)
(* and what is settled is a prefix of the stream.                           *)
LEMMA TakeBatchKeepsLoneInv ==
    ASSUME Lone, TypeOK, TypeOK', LoneInv, NEW w \in Workers, NEW S, NEW after \in {"claim", "read"},
           TakeBatch(w, S, after), UNCHANGED history,
           last_id <= last_id', faults <= faults',
           \A m \in S : m \in Messages => Pending(m)',
           \A m \in Messages : Pending(m)' => Pending(m) \/ m > last_id,
           \A m \in Messages : Pending(m)' /\ AtAck(m) => faults' > faults,
           faults' = 0 => \A m \in Messages : Pending(m)' => m \in S,
           faults' = 0 => \A m \in Messages : Settled(m)' => \A n \in 1..m : Settled(n)'
    PROVE  LoneInv'
<1>1. /\ batch'[w] = S /\ pc'[w] = (IF S = {} THEN after ELSE "post")
      /\ \A v \in Workers : v = w
  BY DEF Lone, TypeOK, TakeBatch
<1>2. \A v \in Workers : batch'[v] \subseteq Messages
  BY BoundsAssumption DEF TypeOK, Messages
<1>3. BatchWhileDelivering'
  BY <1>1 DEF BatchWhileDelivering
<1>4. BatchIsPending'
  BY <1>1, <1>2 DEF BatchIsPending
<1>5. faults \in Nat /\ faults' \in Nat /\ last_id \in Nat /\ last_id' \in Nat
      /\ confirmed \in [Messages -> Nat] /\ confirmed' = confirmed /\ Messages \subseteq Nat
  BY BoundsAssumption DEF TypeOK, history, Messages
<1>6. Counted'
  <2> SUFFICES ASSUME NEW m \in Messages
               PROVE  /\ m > last_id' => confirmed'[m] = 0
                      /\ Pending(m)' /\ ~AtAck(m)' => confirmed'[m] <= faults'
    BY DEF Counted
  <2>1. m > last_id' => confirmed'[m] = 0
    BY <1>5 DEF LoneInv, Counted
  <2>2. ASSUME Pending(m)' PROVE confirmed'[m] <= faults'
    <3>1. CASE m > last_id
      BY <1>5, <3>1 DEF LoneInv, Counted
    <3>2. CASE Pending(m) /\ ~AtAck(m)
      BY <1>5, <3>2 DEF LoneInv, Counted
    <3>3. CASE AtAck(m)
      BY <1>5, <2>2, <3>3 DEF LoneInv, DuplicatesCostFaults
    <3> QED BY <2>2, <3>1, <3>2, <3>3
  <2> QED BY <2>1, <2>2
<1>7. DuplicatesCostFaults'
  BY <1>5 DEF LoneInv, DuplicatesCostFaults
<1>8. Held'
  BY <1>1 DEF Held
<1>9. InOrder'
  BY DEF InOrder
<1> QED BY <1>3, <1>4, <1>6, <1>7, <1>8, <1>9 DEF LoneInv

(* Claiming and reading by a worker without a batch, and acknowledging the  *)
(* oldest entry of a batch.                                                 *)
LEMMA ClaimIsSafe ==
    ASSUME IInv, ClaimEffect(FirstOf(Idle))
    PROVE  /\ \A m \in FirstOf(Idle) : m \in Messages /\ Pending(m) /\ Pending(m)'
           /\ \A m \in Messages : (Pending(m)' <=> Pending(m)) /\ (Settled(m)' <=> Settled(m))
           /\ UNCHANGED last_id
<1>1. FirstOf(Idle) \subseteq Idle
  BY DEF FirstOf
<1>2. \A m \in Idle : m \in Messages /\ Pending(m)
  BY DEF Idle
<1> QED BY <1>1, <1>2, ClaimFacts DEF Settled

(* What a read makes pending is new.                                        *)
LEMMA ReadIsSafe ==
    ASSUME IInv, ReadEffect(Unread)
    PROVE  /\ \A m \in Unread : m \in Messages /\ Pending(m)'
           /\ \A m \in Messages : Pending(m)' => Pending(m) \/ (m > last_id /\ m \in Unread)
           /\ \A m \in Messages : Settled(m)' <=> Settled(m)
           /\ last_id <= last_id'
<1>1. TypeOK
  BY DEF IInv
<1> QED
  BY <1>1, ReadFacts, BoundsAssumption, NoneAssumption
  DEF ReadEffect, IInv, TypeOK, Pending, Settled, Messages, Unread, ReadUpTo

(* Acknowledging changes one entry.                                         *)
LEMMA AckIsSafe ==
    ASSUME IInv, NEW m \in Messages, AckEffect(m)
    PROVE  /\ \A n \in Messages : Pending(n)' <=> Pending(n) /\ n # m
           /\ \A n \in Messages : Settled(n)' <=> Settled(n) \/ (n = m /\ m <= last_id)
           /\ UNCHANGED last_id
  BY DEF AckEffect, IInv, TypeOK, Pending, Settled

(* A worker that starts, crashes or stays away drops its batch.             *)
LEMMA DropKeepsLoneInv ==
    ASSUME Lone, IInv, TypeOK', LoneInv, NEW w \in Workers,
           Start(w) \/ Crash(w) \/ StartFails(w)
    PROVE  LoneInv'
<1>0. TypeOK /\ BatchWhileDelivering
  BY DEF IInv, LoneInv
<1>1. /\ UNCHANGED <<redis, history>> /\ faults <= faults'
      /\ pc'[w] \notin {"post", "ack"} /\ batch'[w] = {}
      /\ \A v \in Workers : v = w
  BY <1>0, BoundsAssumption
  DEF Start, Crash, StartFails, TypeOK, Lone, BatchWhileDelivering
<1>2. /\ faults \in Nat /\ faults' \in Nat
      /\ confirmed \in [Messages -> Nat] /\ confirmed' = confirmed
      /\ \A m \in Messages : Pending(m)' <=> Pending(m)
      /\ \A m \in Messages : Settled(m)' <=> Settled(m)
      /\ last_id' = last_id
  BY <1>0, <1>1, BoundsAssumption DEF TypeOK, redis, history, Pending, Settled
<1>3. \A m \in Messages : AtAck(m) => faults' > faults
  BY <1>0, <1>1, <1>2 DEF AtAck, Start, Crash, StartFails
<1>4. BatchWhileDelivering' /\ BatchIsPending'
  BY <1>1 DEF BatchWhileDelivering, BatchIsPending
<1>5. Counted'
  <2> SUFFICES ASSUME NEW m \in Messages
               PROVE  /\ m > last_id' => confirmed'[m] = 0
                      /\ Pending(m)' /\ ~AtAck(m)' => confirmed'[m] <= faults'
    BY DEF Counted
  <2>1. CASE AtAck(m)
    BY <1>1, <1>2, <1>3, <2>1 DEF LoneInv, Counted, DuplicatesCostFaults
  <2>2. CASE ~AtAck(m)
    BY <1>1, <1>2, <2>2 DEF LoneInv, Counted
  <2> QED BY <2>1, <2>2
<1>6. DuplicatesCostFaults'
  BY <1>1, <1>2 DEF LoneInv, DuplicatesCostFaults
<1>7. Held'
  <2> SUFFICES ASSUME faults' = 0, NEW m \in Messages, Pending(m)'
               PROVE  FALSE
    BY DEF Held
  <2>1. faults = 0 /\ Start(w)
    BY <1>1, <1>2 DEF Crash, StartFails
  <2>2. batch[w] = {}
    BY <1>0, <2>1 DEF Start, BatchWhileDelivering
  <2> QED BY <1>1, <1>2, <2>1, <2>2 DEF LoneInv, Held
<1>8. InOrder'
  <2>1. \A m \in Messages : 1..m \subseteq Messages
    BY BoundsAssumption DEF Messages
  <2> QED BY <1>1, <1>2, <2>1 DEF LoneInv, InOrder
<1> QED BY <1>4, <1>5, <1>6, <1>7, <1>8 DEF LoneInv

(* A POST that ends adds at most one confirmation to an entry that is       *)
(* pending and not yet at its acknowledgement.                              *)
LEMMA PostKeepsLoneInv ==
    ASSUME Lone, IInv, TypeOK', LoneInv, NEW w \in Workers,
           Delivered(w) \/ AttemptFails(w) \/ GiveUp(w)
    PROVE  LoneInv'
<1>0. TypeOK /\ \A v \in Workers : v = w
  BY DEF IInv, Lone
<1>1. pc[w] = "post" /\ Current(w) \in batch[w] /\ Current(w) \in Messages
  BY <1>0, CurrentInBatch DEF Delivered, AttemptFails, GiveUp, IInv, Progress
<1>2. /\ UNCHANGED <<redis, batch, next, faults>> /\ Current(w)' = Current(w)
      /\ pc'[w] \in {"post", "ack"}
  BY <1>0, <1>1 DEF Delivered, AttemptFails, GiveUp, Current, TypeOK
<1>3. /\ faults \in Nat /\ confirmed \in [Messages -> Nat] /\ last_id \in Nat
      /\ Pending(Current(w)) /\ Current(w) <= last_id
  BY <1>0, <1>1, BoundsAssumption DEF TypeOK, LoneInv, BatchIsPending, IInv
<1>4. \A m \in Messages : ~AtAck(m)
  BY <1>0, <1>1 DEF AtAck
<1>5. /\ \A m \in Messages \ {Current(w)} : confirmed'[m] = confirmed[m]
      /\ \/ confirmed'[Current(w)] = confirmed[Current(w)]
         \/ /\ confirmed'[Current(w)] = confirmed[Current(w)] + 1
            /\ pc'[w] = "ack"
  BY <1>0, <1>1, <1>3 DEF Delivered, AttemptFails, GiveUp, history, TypeOK
<1>6. BatchWhileDelivering' /\ BatchIsPending'
  BY <1>0, <1>2 DEF LoneInv, BatchWhileDelivering, BatchIsPending, Pending, redis
<1>7. confirmed[Current(w)] <= faults
  BY <1>1, <1>3, <1>4 DEF LoneInv, Counted
<1>8. Counted'
  <2> SUFFICES ASSUME NEW m \in Messages
               PROVE  /\ m > last_id' => confirmed'[m] = 0
                      /\ Pending(m)' /\ ~AtAck(m)' => confirmed'[m] <= faults'
    BY DEF Counted
  <2>1. faults' = faults /\ last_id' = last_id /\ (Pending(m)' <=> Pending(m))
    BY <1>2 DEF redis, Pending
  <2>2. CASE m = Current(w)
    <3>1. pc'[w] = "ack" => AtAck(m)'
      BY <1>2, <2>2 DEF AtAck
    <3>2. ~(m > last_id)
      BY <1>3, <2>2 DEF Messages
    <3> QED BY <1>5, <1>7, <2>1, <2>2, <3>1, <3>2
  <2>3. CASE m # Current(w)
    BY <1>4, <1>5, <2>1, <2>3 DEF LoneInv, Counted
  <2> QED BY <2>2, <2>3
<1>9. DuplicatesCostFaults'
  <2>1. \A m \in Messages : confirmed[m] \in Nat /\ confirmed[m] <= 1 + faults
    BY <1>3 DEF LoneInv, DuplicatesCostFaults
  <2>2. faults' = faults
    BY <1>2
  <2> QED BY <1>1, <1>3, <1>5, <1>7, <2>1, <2>2 DEF DuplicatesCostFaults
<1>10. Held' /\ InOrder'
  BY <1>2 DEF LoneInv, Held, InOrder, Pending, Settled, redis
<1> QED BY <1>6, <1>8, <1>9, <1>10 DEF LoneInv

(* Without faults, a worker that holds no batch has nothing pending.        *)
LEMMA NothingPending ==
    ASSUME Lone, LoneInv, NEW w \in Workers, pc[w] \in {"claim", "read"}, faults = 0
    PROVE  \A m \in Messages : ~Pending(m)
  BY DEF Lone, LoneInv, BatchWhileDelivering, Held

(* Without faults, acknowledging the oldest entry of a batch settles the    *)
(* entry that follows the settled ones.                                     *)
LEMMA AckInOrder ==
    ASSUME Lone, IInv, LoneInv, NEW w \in Workers, batch[w] # {}, faults = 0,
           AckEffect(Current(w))
    PROVE  \A m \in Messages : Settled(m)' => \A n \in 1..m : Settled(n)'
<1> DEFINE c == Current(w)
<1>0. TypeOK
  BY DEF IInv
<1>1. c \in batch[w] /\ c \in Messages /\ \A n \in batch[w] : c <= n
  BY <1>0, CurrentInBatch, CurrentIsLeast
<1>2. /\ \A n \in Messages : Settled(n)' <=> Settled(n) \/ (n = c /\ c <= last_id)
      /\ Pending(c)
  BY <1>1, AckIsSafe DEF LoneInv, BatchIsPending
<1>3. c <= last_id /\ last_id \in Nat
  BY <1>0, <1>1, <1>2, BoundsAssumption DEF IInv, TypeOK
<1>4. \A n \in Messages : Pending(n) => c <= n
  BY <1>1 DEF Lone, LoneInv, Held
<1>5. \A m \in Messages : \A n \in 1..m : n \in Messages /\ n <= m
  BY BoundsAssumption DEF Messages
<1>6. \A m \in Messages : Settled(m) => \A n \in 1..m : Settled(n)
  BY DEF LoneInv, InOrder
<1>7. \A n \in 1..c : n = c \/ Settled(n)
  <2> SUFFICES ASSUME NEW n \in 1..c, n # c PROVE Settled(n)
    OBVIOUS
  <2>1. n \in Messages /\ c \in Nat /\ n \in Nat /\ n < c
    BY <1>1, <1>5, BoundsAssumption DEF Messages
  <2>2. ~Pending(n)
    BY <1>4, <2>1
  <2> QED BY <1>3, <2>1, <2>2 DEF Settled
<1> HIDE DEF c
<1> QED BY <1>1, <1>2, <1>3, <1>5, <1>6, <1>7

(* Every step of a lone worker keeps the invariant.                         *)
LEMMA NextLoneInv ==
    ASSUME Lone
    PROVE  IInv /\ IInv' /\ LoneInv /\ [Next]_vars => LoneInv'
<1> SUFFICES ASSUME IInv, IInv', LoneInv, [Next]_vars PROVE LoneInv'
  OBVIOUS
<1>0. /\ TypeOK /\ TypeOK' /\ last_id \in Nat /\ faults \in Nat /\ faults' \in Nat
      /\ \A m \in Messages : m \in Nat /\ 1..m \subseteq Messages
  BY BoundsAssumption DEF IInv, TypeOK, Messages
<1>1. /\ faults = 0 => \A m \in Messages : Settled(m) => \A n \in 1..m : Settled(n)
      /\ \A w \in Workers : \A m \in batch[w] : m \in Messages /\ Pending(m)
  BY <1>0, BoundsAssumption DEF LoneInv, InOrder, BatchIsPending, TypeOK, Messages
<1>2. \A w \in Workers : pc[w] # "ack" => \A m \in Messages : ~AtAck(m)
  BY DEF Lone, AtAck
<1>3. ASSUME NEW w \in Workers, Claim(w) PROVE LoneInv'
  <2>1. /\ pc[w] = "claim" /\ ClaimEffect(FirstOf(Idle))
        /\ TakeBatch(w, FirstOf(Idle), "read") /\ UNCHANGED <<history, faults>>
    BY <1>3 DEF Claim
  <2>2. faults = 0 => \A m \in Messages : ~Pending(m)
    BY <2>1, NothingPending
  <2>3. faults' = 0 => \A m \in Messages : Settled(m)' => \A n \in 1..m : Settled(n)'
    BY <1>0, <1>1, <2>1, ClaimIsSafe
  <2> QED
    BY <1>0, <1>2, <2>1, <2>2, <2>3, ClaimIsSafe, TakeBatchKeepsLoneInv
<1>4. ASSUME NEW w \in Workers, Read(w) PROVE LoneInv'
  <2>1. /\ pc[w] = "read" /\ ReadEffect(Unread)
        /\ TakeBatch(w, Unread, "claim") /\ UNCHANGED <<history, faults>>
    BY <1>4 DEF Read
  <2>2. faults = 0 => \A m \in Messages : ~Pending(m)
    BY <2>1, NothingPending
  <2>3. faults' = 0 => \A m \in Messages : Settled(m)' => \A n \in 1..m : Settled(n)'
    BY <1>0, <1>1, <2>1, ReadIsSafe
  <2>4. faults' = 0 => \A m \in Messages : Pending(m)' => m \in Unread
    BY <2>1, <2>2, ReadIsSafe
  <2> QED
    BY <1>0, <1>2, <2>1, <2>3, <2>4, ReadIsSafe, TakeBatchKeepsLoneInv
<1>5. ASSUME NEW w \in Workers, Ack(w) PROVE LoneInv'
  <2> DEFINE c == Current(w)
             S == batch[w] \ {c}
  <2>1. /\ pc[w] = "ack" /\ AckEffect(c) /\ TakeBatch(w, S, next[w])
        /\ UNCHANGED <<history, faults>>
    BY <1>5 DEF Ack
  <2>2. batch[w] # {} /\ c \in Messages
    BY <1>0, <2>1, CurrentInBatch DEF IInv, Progress
  <2>3. /\ \A n \in Messages : Pending(n)' <=> Pending(n) /\ n # c
        /\ UNCHANGED last_id
    BY <2>1, <2>2, AckIsSafe
  <2>4. \A m \in Messages : AtAck(m) => m = c
    BY DEF Lone, AtAck
  <2>5. faults' = 0 => \A m \in Messages : Settled(m)' => \A n \in 1..m : Settled(n)'
    BY <2>1, <2>2, AckInOrder
  <2>6. faults' = 0 => \A m \in Messages : Pending(m)' => m \in S
    BY <2>1, <2>3 DEF Lone, LoneInv, Held
  <2>7. \A m \in S : m \in Messages => Pending(m)'
    BY <1>1, <2>3
  <2>8. \A m \in Messages : Pending(m)' => Pending(m) /\ ~AtAck(m)
    BY <2>3, <2>4
  <2>9. next[w] \in {"claim", "read"}
    BY <1>0 DEF TypeOK
  <2>10. PICK after \in {"claim", "read"} : after = next[w]
    BY <2>9
  <2>11. TakeBatch(w, S, after) /\ last_id <= last_id' /\ faults <= faults'
    BY <1>0, <2>1, <2>3, <2>10
  <2> HIDE DEF c, S
  <2> QED
    BY <1>0, <2>1, <2>5, <2>6, <2>7, <2>8, <2>11, TakeBatchKeepsLoneInv
<1>6. ASSUME NEW w \in Workers, RedisError(w) PROVE LoneInv'
  <2>1. TakeBatch(w, {}, "claim") /\ UNCHANGED history /\ faults' = faults + 1
    BY <1>6 DEF RedisError
  <2>2. faults' > faults /\ faults' # 0 /\ faults <= faults'
    BY <1>0, <2>1
  <2>3. /\ \A m \in Messages : Pending(m)' => Pending(m) \/ m > last_id
        /\ last_id <= last_id'
    <3>1. CASE ClaimEffect(FirstOf(Idle))
      BY <1>0, <3>1, ClaimIsSafe
    <3>2. CASE ReadEffect(Unread)
      BY <1>0, <3>2, ReadIsSafe
    <3>3. CASE pc[w] = "ack" /\ AckEffect(Current(w))
      <4>1. Current(w) \in Messages
        BY <1>0, <3>3, CurrentInBatch DEF IInv, Progress
      <4> QED BY <1>0, <3>3, <4>1, AckIsSafe
    <3>4. CASE UNCHANGED redis
      BY <1>0, <3>4 DEF redis, Pending
    <3> QED BY <1>6, <3>1, <3>2, <3>3, <3>4 DEF RedisError
  <2> QED
    BY <1>0, <2>1, <2>2, <2>3, TakeBatchKeepsLoneInv
<1>7. ASSUME NEW w \in Workers, Start(w) \/ Crash(w) \/ StartFails(w) PROVE LoneInv'
  BY <1>0, <1>7, DropKeepsLoneInv
<1>8. ASSUME NEW w \in Workers, Delivered(w) \/ AttemptFails(w) \/ GiveUp(w) PROVE LoneInv'
  BY <1>0, <1>8, PostKeepsLoneInv
<1>9. CASE Publish
  BY <1>9 DEF Publish, LoneInv, BatchWhileDelivering, BatchIsPending, Counted, AtAck,
     DuplicatesCostFaults, Held, InOrder, Pending, Settled, Current, worker, history
<1>10. CASE Tick
  <2>1. /\ UNCHANGED <<added, last_id, worker, history, faults>>
        /\ \A m \in Messages : (Pending(m)' <=> Pending(m)) /\ (Settled(m)' <=> Settled(m))
    BY <1>0, <1>10, BoundsAssumption, NoneAssumption DEF Tick, TypeOK, Pending, Settled
  <2>2. \A m \in Messages : AtAck(m)' <=> AtAck(m)
    BY <2>1 DEF AtAck, Current, worker
  <2>3. BatchWhileDelivering' /\ BatchIsPending'
    BY <1>1, <2>1 DEF LoneInv, BatchWhileDelivering, BatchIsPending, worker
  <2>4. Counted' /\ DuplicatesCostFaults' /\ Held'
    BY <2>1, <2>2 DEF LoneInv, Counted, DuplicatesCostFaults, Held, worker, history
  <2>5. InOrder'
    BY <1>0, <1>1, <2>1 DEF InOrder
  <2> QED BY <2>3, <2>4, <2>5 DEF LoneInv
<1>11. CASE UNCHANGED vars
  BY <1>11 DEF vars, redis, worker, history, LoneInv, BatchWhileDelivering, BatchIsPending,
     Counted, AtAck, DuplicatesCostFaults, Held, InOrder, Pending, Settled, Current
<1> QED
  BY <1>3, <1>4, <1>5, <1>6, <1>7, <1>8, <1>9, <1>10, <1>11 DEF Next, Run

(* The invariant holds in every reachable state of a lone worker.           *)
THEOREM LoneInvariance == ASSUME Lone PROVE Spec => []LoneInv
<1>1. IInv /\ IInv' /\ LoneInv /\ [Next]_vars => LoneInv'
  BY NextLoneInv
<1> QED BY <1>1, InitLoneInv, Invariance, PTL DEF Spec

(* What a lone worker holds in memory is pending, through its crashes and   *)
(* the errors of Redis.                                                     *)
THEOREM BatchAgrees == ASSUME Lone PROVE Spec => []BatchIsPending
<1>1. LoneInv => BatchIsPending
  BY DEF LoneInv
<1> QED BY <1>1, LoneInvariance, PTL

(* An entry is confirmed at most once more than there were faults.          *)
THEOREM DuplicatesArePaid == ASSUME Lone PROVE Spec => []DuplicatesCostFaults
<1>1. LoneInv => DuplicatesCostFaults
  BY DEF LoneInv
<1> QED BY <1>1, LoneInvariance, PTL

(* Without faults the entries are settled in the order of the stream.       *)
THEOREM SettledInOrder == ASSUME Lone PROVE Spec => []InOrder
<1>1. LoneInv => InOrder
  BY DEF LoneInv
<1> QED BY <1>1, LoneInvariance, PTL
=============================================================================
