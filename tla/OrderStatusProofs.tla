-------------------------- MODULE OrderStatusProofs --------------------------
(***************************************************************************)
(* The safety properties of OrderStatus, proved for any finite number of   *)
(* overlapping PATCHes of any number of orders, with every fault.           *)
(***************************************************************************)
EXTENDS OrderStatus, FiniteSetTheorems, TLAPS

(* A handler that has passed the check writes a status whose predecessor    *)
(* the order has had, whatever other handlers wrote since.                  *)
Checked(u) ==
    pc[u] \in {"write", "reread", "notify"} =>
        /\ order[u] \in Orders
        /\ new_status[u] \in 1..DELIVERED
        /\ new_status[u] - 1 \in reached[order[u]]

IInv ==
    /\ TypeOK
    /\ \A u \in Updates : Checked(u)
    /\ NoneSkipped
    /\ AnnouncedIsWritten

(* The PATCHes that still have to announce are finitely many.               *)
LEMMA ToAnnounceFinite ==
    \A o, s : IsFiniteSet(ToAnnounce(o, s)) /\ Cardinality(ToAnnounce(o, s)) \in Nat
<1> SUFFICES ASSUME NEW o, NEW s
             PROVE  IsFiniteSet(ToAnnounce(o, s)) /\ Cardinality(ToAnnounce(o, s)) \in Nat
  OBVIOUS
<1>1. ToAnnounce(o, s) \in SUBSET Updates
  BY DEF ToAnnounce
<1> QED BY <1>1, UpdatesAssumption, FS_Subset, FS_CardinalityType

(* A step that announces nothing, writes nothing and starts no announcer    *)
(* keeps the account of announcements.                                      *)
LEMMA QuietStep ==
    ASSUME AnnouncedIsWritten, TypeOK, UNCHANGED <<announced, written>>,
           \A u \in Updates : pc'[u] \in {"reread", "notify"} =>
               /\ pc[u] \in {"reread", "notify"}
               /\ order'[u] = order[u] /\ new_status'[u] = new_status[u]
    PROVE  AnnouncedIsWritten'
<1> SUFFICES ASSUME NEW o \in Orders, NEW s \in Status
             PROVE  announced[o][s] + Cardinality(ToAnnounce(o, s)') <= written[o][s]
  BY DEF AnnouncedIsWritten
<1>1. ToAnnounce(o, s)' \in SUBSET ToAnnounce(o, s)
  BY DEF ToAnnounce
<1>2. /\ Cardinality(ToAnnounce(o, s)') \in Nat
      /\ Cardinality(ToAnnounce(o, s)') <= Cardinality(ToAnnounce(o, s))
  BY <1>1, ToAnnounceFinite, FS_Subset, FS_CardinalityType
<1>3. announced[o][s] + Cardinality(ToAnnounce(o, s)) <= written[o][s]
  BY DEF AnnouncedIsWritten
<1>4. announced[o][s] \in Nat /\ written[o][s] \in Nat
  BY DEF TypeOK
<1> QED BY <1>2, <1>3, <1>4, ToAnnounceFinite

(* An UPDATE is one more to announce, and an announcement one less.         *)
LEMMA WriteStep ==
    ASSUME AnnouncedIsWritten, TypeOK, NEW u \in Updates, Checked(u), Write(u)
    PROVE  AnnouncedIsWritten'
<1> SUFFICES ASSUME NEW o \in Orders, NEW s \in Status
             PROVE  announced'[o][s] + Cardinality(ToAnnounce(o, s)') <= written'[o][s]
  BY DEF AnnouncedIsWritten
<1>0. /\ order[u] \in Orders /\ new_status[u] \in Status
      /\ announced[o][s] \in Nat /\ written[o][s] \in Nat
      /\ announced[o][s] + Cardinality(ToAnnounce(o, s)) <= written[o][s]
  BY DEF Write, Checked, TypeOK, AnnouncedIsWritten
<1>1. CASE o = order[u] /\ s = new_status[u]
  <2>1. /\ ToAnnounce(o, s)' = ToAnnounce(o, s) \union {u}
        /\ u \notin ToAnnounce(o, s)
    BY <1>1 DEF Write, Goto, request, ToAnnounce, TypeOK
  <2>2. Cardinality(ToAnnounce(o, s)') = Cardinality(ToAnnounce(o, s)) + 1
    BY <2>1, ToAnnounceFinite, FS_AddElement
  <2>3. written'[o][s] = written[o][s] + 1 /\ announced'[o][s] = announced[o][s]
    BY <1>0, <1>1 DEF Write, TypeOK
  <2> QED BY <1>0, <2>2, <2>3, ToAnnounceFinite
<1>2. CASE ~(o = order[u] /\ s = new_status[u])
  <2>1. ToAnnounce(o, s)' = ToAnnounce(o, s)
    BY <1>2 DEF Write, Goto, request, ToAnnounce, TypeOK
  <2>2. written'[o][s] = written[o][s] /\ announced'[o][s] = announced[o][s]
    BY <1>0, <1>2 DEF Write, TypeOK
  <2> QED BY <1>0, <2>1, <2>2
<1> QED BY <1>1, <1>2

(* A handler that announces moves from the ones that still have to.         *)
LEMMA AnnounceStep ==
    ASSUME AnnouncedIsWritten, TypeOK, NEW u \in Updates, Checked(u),
           pc[u] = "notify", Announce(u), NEW code, Send(u, code),
           UNCHANGED <<order, new_status, written>>
    PROVE  AnnouncedIsWritten'
<1> SUFFICES ASSUME NEW o \in Orders, NEW s \in Status
             PROVE  announced'[o][s] + Cardinality(ToAnnounce(o, s)') <= written'[o][s]
  BY DEF AnnouncedIsWritten
<1>0. /\ order[u] \in Orders /\ new_status[u] \in Status
      /\ announced[o][s] \in Nat /\ written[o][s] \in Nat /\ written'[o][s] = written[o][s]
      /\ announced[o][s] + Cardinality(ToAnnounce(o, s)) <= written[o][s]
  BY DEF Checked, TypeOK, AnnouncedIsWritten
<1>1. CASE o = order[u] /\ s = new_status[u]
  <2>1. /\ ToAnnounce(o, s)' = ToAnnounce(o, s) \ {u}
        /\ u \in ToAnnounce(o, s)
    BY <1>1 DEF Send, ToAnnounce, TypeOK
  <2>2. Cardinality(ToAnnounce(o, s)') = Cardinality(ToAnnounce(o, s)) - 1
    BY <2>1, ToAnnounceFinite, FS_RemoveElement
  <2>3. announced'[o][s] = announced[o][s] + 1
    BY <1>0, <1>1 DEF Announce, TypeOK
  <2> QED BY <1>0, <2>2, <2>3, ToAnnounceFinite
<1>2. CASE ~(o = order[u] /\ s = new_status[u])
  <2>1. ToAnnounce(o, s)' = ToAnnounce(o, s)
    BY <1>2 DEF Send, ToAnnounce, TypeOK
  <2>2. announced'[o][s] = announced[o][s]
    BY <1>0, <1>2 DEF Announce, TypeOK
  <2> QED BY <1>0, <2>1, <2>2
<1> QED BY <1>1, <1>2

(* The initial state is in the invariant: nothing is written or announced.  *)
LEMMA InitIInv == Init => IInv
<1> SUFFICES ASSUME Init PROVE IInv
  OBVIOUS
<1>1. TypeOK /\ (\A u \in Updates : Checked(u)) /\ NoneSkipped
  BY DEF Init, TypeOK, Checked, NoneSkipped, Status, WAITING
<1>2. \A o \in Orders, s \in Status : ToAnnounce(o, s) = {}
  BY DEF Init, ToAnnounce
<1>3. \A o \in Orders, s \in Status : announced[o][s] = 0 /\ written[o][s] = 0
  BY DEF Init
<1>4. \A o \in Orders, s \in Status : Cardinality(ToAnnounce(o, s)) = 0
  BY <1>2, FS_EmptySet
<1>5. AnnouncedIsWritten
  BY <1>3, <1>4 DEF AnnouncedIsWritten
<1> QED BY <1>1, <1>5 DEF IInv

(* Every step keeps the invariant.                                          *)
LEMMA NextIInv == IInv /\ [Next]_vars => IInv'
<1> SUFFICES ASSUME IInv, [Next]_vars PROVE IInv'
  OBVIOUS
<1>0. TypeOK /\ AnnouncedIsWritten /\ NoneSkipped /\ \A u \in Updates : Checked(u)
  BY DEF IInv
<1>1. ASSUME NEW u \in Updates, Receive(u) PROVE IInv'
  <2>0. /\ pc' = [pc EXCEPT ![u] = "read"] /\ pc[u] = "idle"
        /\ \E o \in Orders \union {NoOrder}, s \in Status :
             order' = [order EXCEPT ![u] = o] /\ new_status' = [new_status EXCEPT ![u] = s]
        /\ UNCHANGED <<reply, status, announced, reached, written>>
    BY <1>1 DEF Receive, Goto
  <2>a. overlapped' \subseteq Orders
    BY <1>0, <1>1 DEF Receive, TypeOK
  <2>1. TypeOK'
    BY <1>0, <2>0, <2>a DEF TypeOK, Awaiting
  <2>2. \A v \in Updates : Checked(v)'
    BY <1>0, <2>0 DEF TypeOK, Checked
  <2>3. AnnouncedIsWritten'
    BY <1>0, <2>0, QuietStep DEF TypeOK
  <2> QED BY <1>0, <2>0, <2>1, <2>2, <2>3 DEF IInv, NoneSkipped
<1>2. ASSUME NEW u \in Updates, Read(u) PROVE IInv'
  <2>0. /\ pc[u] = "read" /\ UNCHANGED <<order, new_status, status, announced, reached, written, overlapped>>
        /\ \/ \E code \in {404, 422} : Send(u, code)
           \/ Goto(u, "write") /\ order[u] \in Orders /\ Follows(status[order[u]], new_status[u])
    BY <1>2 DEF Read, request
  <2>1. TypeOK'
    <3>1. CASE \E code \in {404, 422} : Send(u, code)
      BY <1>0, <2>0, <3>1 DEF TypeOK, Send, Codes
    <3>2. CASE Goto(u, "write")
      BY <1>0, <2>0, <3>2 DEF TypeOK, Goto, Awaiting
    <3> QED BY <2>0, <3>1, <3>2
  <2>2. \A v \in Updates : Checked(v)'
    <3>1. CASE \E code \in {404, 422} : Send(u, code)
      BY <1>0, <2>0, <3>1 DEF TypeOK, Checked, Send, Codes
    <3>2. CASE Goto(u, "write") /\ order[u] \in Orders /\ Follows(status[order[u]], new_status[u])
      <4>1. new_status[u] \in 1..DELIVERED /\ new_status[u] - 1 = status[order[u]]
        BY <1>0, <3>2 DEF TypeOK, Follows, Status, DELIVERED
      <4>2. status[order[u]] \in reached[order[u]]
        BY <1>0, <3>2 DEF NoneSkipped
      <4> QED BY <1>0, <2>0, <3>2, <4>1, <4>2 DEF TypeOK, Checked, Goto
    <3> QED BY <2>0, <3>1, <3>2
  <2>3. AnnouncedIsWritten'
    BY <1>0, <2>0, QuietStep DEF TypeOK, Send, Goto
  <2> QED BY <1>0, <2>0, <2>1, <2>2, <2>3 DEF IInv, NoneSkipped
<1>3. ASSUME NEW u \in Updates, Write(u) PROVE IInv'
  <2> DEFINE o == order[u]
             n == new_status[u]
  <2>0. /\ pc[u] = "write" /\ pc' = [pc EXCEPT ![u] = "reread"]
        /\ UNCHANGED <<order, new_status, reply, announced, overlapped>>
        /\ status' = [status EXCEPT ![o] = n]
        /\ reached' = [reached EXCEPT ![o] = @ \union {n}]
        /\ written' = [written EXCEPT ![o][n] = @ + 1]
    BY <1>3 DEF Write, Goto, request
  <2>1. o \in Orders /\ n \in 1..DELIVERED /\ n \in Status /\ n - 1 \in reached[o]
    BY <1>0, <2>0 DEF Checked, Status, DELIVERED
  <2> HIDE DEF o, n
  <2>2. TypeOK'
    BY <1>0, <2>0, <2>1 DEF TypeOK, Awaiting
  <2>3. \A p \in Orders : reached[p] \subseteq reached'[p]
    BY <1>0, <2>0, <2>1 DEF TypeOK
  <2>4. \A v \in Updates : Checked(v)'
    BY <1>0, <2>0, <2>3 DEF TypeOK, Checked
  <2>5. NoneSkipped'
    <3>1. reached'[o] = reached[o] \union {n} /\ status'[o] = n
      BY <1>0, <2>0, <2>1 DEF TypeOK
    <3>2. 0..n \subseteq reached'[o]
      <4>1. 0..(n - 1) \subseteq reached[o]
        BY <1>0, <2>1 DEF NoneSkipped
      <4> QED BY <2>1, <3>1, <4>1 DEF DELIVERED
    <3>3. \A p \in Orders \ {o} : reached'[p] = reached[p] /\ status'[p] = status[p]
      BY <1>0, <2>0 DEF TypeOK
    <3>4. \A p \in Orders : status'[p] \in reached'[p] /\ \A s \in reached'[p] : 0..s \subseteq reached'[p]
      BY <1>0, <3>1, <3>2, <3>3 DEF NoneSkipped
    <3> QED BY <3>4 DEF NoneSkipped
  <2>6. AnnouncedIsWritten'
    BY <1>0, <1>3, WriteStep
  <2> QED BY <2>2, <2>4, <2>5, <2>6 DEF IInv
<1>4. ASSUME NEW u \in Updates, Reread(u) PROVE IInv'
  <2>0. /\ pc[u] = "reread" /\ pc' = [pc EXCEPT ![u] = "notify"]
        /\ UNCHANGED <<order, new_status, reply, status, announced, reached, written, overlapped>>
    BY <1>4 DEF Reread, Goto, request
  <2>1. TypeOK'
    BY <1>0, <2>0 DEF TypeOK, Awaiting
  <2>2. \A v \in Updates : Checked(v)'
    BY <1>0, <2>0 DEF TypeOK, Checked
  <2>3. AnnouncedIsWritten'
    BY <1>0, <2>0, QuietStep DEF TypeOK
  <2> QED BY <1>0, <2>0, <2>1, <2>2, <2>3 DEF IInv, NoneSkipped
<1>5. ASSUME NEW u \in Updates, Notify(u) \/ RedisError(u) PROVE IInv'
  <2>0. /\ pc[u] = "notify" /\ UNCHANGED <<order, new_status, status, reached, written, overlapped>>
        /\ Announce(u) \/ UNCHANGED announced
    BY <1>5 DEF Notify, RedisError, request
  <2>1. PICK code \in {200, 500} : Send(u, code)
    BY <1>5 DEF Notify, RedisError
  <2>2. TypeOK'
    <3>1. announced' \in [Orders -> [Status -> Nat]]
      <4>1. CASE UNCHANGED announced
        BY <1>0, <4>1 DEF TypeOK
      <4>2. CASE Announce(u)
        <5>1. order[u] \in Orders /\ new_status[u] \in Status
          BY <1>0, <2>0 DEF TypeOK, Checked
        <5>2. announced[order[u]] \in [Status -> Nat] /\ announced[order[u]][new_status[u]] \in Nat
          BY <1>0, <5>1 DEF TypeOK
        <5>3. [announced[order[u]] EXCEPT ![new_status[u]] = @ + 1] \in [Status -> Nat]
          BY <5>1, <5>2
        <5> QED BY <1>0, <4>2, <5>3 DEF TypeOK, Announce
      <4> QED BY <2>0, <4>1, <4>2
    <3> QED BY <1>0, <2>0, <2>1, <3>1 DEF TypeOK, Send, Codes
  <2>3. \A v \in Updates : Checked(v)'
    BY <1>0, <2>0, <2>1 DEF TypeOK, Checked, Send, Codes
  <2>4. AnnouncedIsWritten'
    <3>1. CASE Announce(u)
      BY <1>0, <2>0, <2>1, <3>1, AnnounceStep
    <3>2. CASE UNCHANGED announced
      BY <1>0, <2>0, <2>1, <3>2, QuietStep DEF TypeOK, Send, Codes
    <3> QED BY <2>0, <3>1, <3>2
  <2> QED BY <1>0, <2>0, <2>2, <2>3, <2>4 DEF IInv, NoneSkipped
<1>6. ASSUME NEW u \in Updates, DbError(u) PROVE IInv'
  <2>0. Send(u, 500) /\ UNCHANGED <<order, new_status, status, announced, reached, written, overlapped>>
    BY <1>6 DEF DbError, request
  <2>1. TypeOK'
    BY <1>0, <2>0 DEF TypeOK, Send, Codes
  <2>2. \A v \in Updates : Checked(v)'
    BY <1>0, <2>0 DEF TypeOK, Checked, Send, Codes
  <2>3. AnnouncedIsWritten'
    BY <1>0, <2>0, QuietStep DEF TypeOK, Send, Codes
  <2> QED BY <1>0, <2>0, <2>1, <2>2, <2>3 DEF IInv, NoneSkipped
<1>7. CASE Crash
  <2>0. /\ pc' = [u \in Updates |-> IF Ended(u) THEN pc[u] ELSE "lost"]
        /\ UNCHANGED <<order, new_status, reply, status, announced, reached, written, overlapped>>
    BY <1>7 DEF Crash, request
  <2>1. TypeOK'
    BY <1>0, <2>0 DEF TypeOK
  <2>2. \A v \in Updates : Checked(v)'
    BY <1>0, <2>0 DEF TypeOK, Checked
  <2>3. AnnouncedIsWritten'
    BY <1>0, <2>0, QuietStep DEF TypeOK
  <2> QED BY <1>0, <2>0, <2>1, <2>2, <2>3 DEF IInv, NoneSkipped
<1>8. CASE UNCHANGED vars
  <2>1. AnnouncedIsWritten'
    BY <1>0, <1>8, QuietStep DEF vars, request
  <2> QED
    BY <1>0, <1>8, <2>1 DEF vars, request, IInv, TypeOK, Checked, NoneSkipped
<1> QED
  BY <1>1, <1>2, <1>3, <1>4, <1>5, <1>6, <1>7, <1>8 DEF Next, Handle, Done

(* The invariant holds in every reachable state.                            *)
THEOREM Invariance == Spec => []IInv
<1> QED BY InitIInv, NextIInv, PTL DEF Spec

(* Type correctness.                                                        *)
THEOREM TypeCorrect == Spec => []TypeOK
<1>1. IInv => TypeOK
  BY DEF IInv
<1> QED BY <1>1, Invariance, PTL

(* Stale handlers may move an order back, but never past a status it has    *)
(* not had.                                                                 *)
THEOREM NothingSkipped == Spec => []NoneSkipped
<1>1. IInv => NoneSkipped
  BY DEF IInv
<1> QED BY <1>1, Invariance, PTL

(* Announcements never outnumber the UPDATEs they announce.                 *)
THEOREM AnnouncementsAreWrites == Spec => []AnnouncedIsWritten
<1>1. IInv => AnnouncedIsWritten
  BY DEF IInv
<1> QED BY <1>1, Invariance, PTL

-----------------------------------------------------------------------------
(* A handler has sent nothing before it ended.                              *)
Fresh == \A u \in Updates : pc[u] # "sent" => reply[u] = None

(* An order whose PATCHes have not overlapped has at most one under way.    *)
OneAtATime ==
    \A u, v \in Updates :
        /\ order[u] = order[v] /\ order[u] \in Orders \ overlapped
        /\ ~Ended(u) /\ ~Ended(v)
        => u = v

(* While an order keeps its promise, what it announced is what it has been, *)
(* but for the one status its handler is about to announce.                 *)
InStep ==
    \A o \in Orders \ Void :
        /\ \A u \in Updates : order[u] = o =>
            /\ pc[u] = "write" =>
                status[o] = Announced(o) /\ new_status[u] = status[o] + 1
            /\ pc[u] \in {"reread", "notify"} =>
                status[o] = Announced(o) + 1 /\ new_status[u] = status[o]
        /\ (\A u \in Updates : order[u] = o => pc[u] \notin {"reread", "notify"}) =>
                status[o] = Announced(o)

LifecycleInv == IInv /\ Fresh /\ OneAtATime /\ InStep

(* The initial state is in the invariant of the lifecycle.                  *)
LEMMA LifecycleInit == Init => LifecycleInv
<1> SUFFICES ASSUME Init PROVE LifecycleInv
  OBVIOUS
<1>1. Fresh /\ OneAtATime
  BY DEF Init, Fresh, OneAtATime, Ended
<1>2. InStep
  <2>1. \A o \in Orders : status[o] = 0 /\ Announced(o) = 0
    BY DEF Init, Announced, Status, WAITING
  <2> QED BY <2>1 DEF Init, InStep
<1> QED BY <1>1, <1>2, InitIInv DEF LifecycleInv

(* What is void stays void.                                                 *)
LEMMA VoidStays == TypeOK /\ Fresh /\ [Next]_vars => Void \subseteq Void'
<1> SUFFICES ASSUME TypeOK, Fresh, [Next]_vars
             PROVE  Void \subseteq Void'
  OBVIOUS
<1>a. overlapped \subseteq overlapped'
  BY DEF Next, Handle, Receive, Read, Write, Reread, Notify, DbError, RedisError,
         Crash, Done, vars
<1> SUFFICES ASSUME NEW u \in Updates, Failed(u)
             PROVE  Failed(u)' /\ order'[u] = order[u]
  BY <1>a DEF Void
<1>0. pc[u] \in {"sent", "lost"} /\ (pc[u] = "sent" => reply[u] = 500)
  BY NoneAssumption DEF Fresh, Failed, TypeOK, Codes
<1>1. ASSUME NEW v \in Updates, Receive(v) PROVE Failed(u)' /\ order'[u] = order[u]
  BY <1>0, <1>1 DEF Receive, Goto, TypeOK, Failed
<1>2. ASSUME NEW v \in Updates, Handle(v) \/ DbError(v) \/ RedisError(v)
      PROVE  Failed(u)' /\ order'[u] = order[u]
  BY <1>0, <1>2 DEF Handle, Read, Write, Reread, Notify, DbError, RedisError,
                    Goto, Send, TypeOK, Failed, request
<1>3. CASE Crash
  BY <1>0, <1>3 DEF Crash, TypeOK, Failed, Ended, request
<1>4. CASE UNCHANGED vars
  BY <1>0, <1>4 DEF vars, Failed, request
<1> QED BY <1>1, <1>2, <1>3, <1>4 DEF Next, Done

(* Every step keeps each part of it.                                        *)
LEMMA FreshNext == TypeOK /\ Fresh /\ [Next]_vars => Fresh'
<1> SUFFICES ASSUME TypeOK, Fresh, [Next]_vars PROVE Fresh'
  OBVIOUS
<1>1. ASSUME NEW v \in Updates, Receive(v) PROVE Fresh'
  BY <1>1 DEF Receive, Goto, TypeOK, Fresh
<1>2. ASSUME NEW v \in Updates, Handle(v) \/ DbError(v) \/ RedisError(v) PROVE Fresh'
  BY <1>2 DEF Handle, Read, Write, Reread, Notify, DbError, RedisError,
              Goto, Send, TypeOK, Fresh
<1>3. CASE Crash
  BY <1>3 DEF Crash, TypeOK, Fresh, Ended
<1>4. CASE UNCHANGED vars
  BY <1>4 DEF vars, Fresh
<1> QED BY <1>1, <1>2, <1>3, <1>4 DEF Next, Done

(* An order whose PATCHes never overlapped has one handler.                 *)
LEMMA OneAtATimeNext == TypeOK /\ OneAtATime /\ [Next]_vars => OneAtATime'
<1> SUFFICES ASSUME TypeOK, OneAtATime, [Next]_vars PROVE OneAtATime'
  OBVIOUS
<1>1. ASSUME NEW w \in Updates, Receive(w) PROVE OneAtATime'
  <2> SUFFICES ASSUME NEW u \in Updates, NEW v \in Updates,
                      order'[u] = order'[v], order'[u] \in Orders \ overlapped',
                      ~Ended(u)', ~Ended(v)', u # v
               PROVE  FALSE
    BY DEF OneAtATime
  <2>1. /\ pc' = [pc EXCEPT ![w] = "read"] /\ pc[w] = "idle"
        /\ \E o \in Orders \union {NoOrder} :
             /\ order' = [order EXCEPT ![w] = o]
             /\ overlapped' = overlapped \union
                  {p \in Orders : p = o /\ \E x \in Updates : order[x] = p /\ ~Ended(x)}
    BY <1>1 DEF Receive, Goto
  <2>2. CASE u # w /\ v # w
    BY <2>1, <2>2 DEF TypeOK, OneAtATime, Ended
  <2>3. CASE u = w
    BY <2>1, <2>3 DEF TypeOK, Ended
  <2>4. CASE v = w
    BY <2>1, <2>4 DEF TypeOK, Ended
  <2> QED BY <2>2, <2>3, <2>4
<1>2. ASSUME UNCHANGED <<order, overlapped>>,
             \A u \in Updates : Ended(u) => Ended(u)'
      PROVE  OneAtATime'
  BY <1>2 DEF OneAtATime
<1>3. ASSUME NEW w \in Updates, Handle(w) \/ DbError(w) \/ RedisError(w) PROVE OneAtATime'
  <2>1. UNCHANGED <<order, overlapped>> /\ ~Ended(w)
        /\ \A u \in Updates \ {w} : pc'[u] = pc[u]
    BY <1>3 DEF Handle, Read, Write, Reread, Notify, DbError, RedisError,
                Goto, Send, TypeOK, request, Ended
  <2> QED BY <1>2, <2>1 DEF Ended
<1>4. CASE Crash
  BY <1>2, <1>4 DEF Crash, Ended, request
<1>5. CASE UNCHANGED vars
  BY <1>2, <1>5 DEF vars, Ended, request
<1> QED BY <1>1, <1>3, <1>4, <1>5 DEF Next, Done

(* A step that writes and announces nothing and starts no writer keeps the  *)
(* account of an order that keeps its promise.                              *)
LEMMA InStepQuiet ==
    ASSUME InStep, Void \subseteq Void', UNCHANGED <<status, announced>>,
           \A u \in Updates :
             /\ pc'[u] = "write" =>
                  pc[u] = "write" /\ order'[u] = order[u] /\ new_status'[u] = new_status[u]
             /\ pc'[u] \in {"reread", "notify"} =>
                  /\ pc[u] \in {"reread", "notify"}
                  /\ order'[u] = order[u] /\ new_status'[u] = new_status[u]
             /\ pc[u] \in {"reread", "notify"} =>
                  \/ order[u] \in Void'
                  \/ pc'[u] \in {"reread", "notify"} /\ order'[u] = order[u]
    PROVE  InStep'
<1> SUFFICES ASSUME NEW o \in Orders \ Void'
             PROVE  /\ \A u \in Updates : order'[u] = o =>
                        /\ pc'[u] = "write" =>
                            status'[o] = Announced(o)' /\ new_status'[u] = status'[o] + 1
                        /\ pc'[u] \in {"reread", "notify"} =>
                            status'[o] = Announced(o)' + 1 /\ new_status'[u] = status'[o]
                    /\ (\A u \in Updates : order'[u] = o => pc'[u] \notin {"reread", "notify"}) =>
                            status'[o] = Announced(o)'
  BY DEF InStep
<1>1. o \in Orders \ Void /\ status'[o] = status[o] /\ Announced(o)' = Announced(o)
  BY DEF Announced
<1>2. (\A u \in Updates : order'[u] = o => pc'[u] \notin {"reread", "notify"}) =>
         \A u \in Updates : order[u] = o => pc[u] \notin {"reread", "notify"}
  OBVIOUS
<1>3. ASSUME NEW u \in Updates, order'[u] = o
      PROVE  /\ pc'[u] = "write" =>
                  status'[o] = Announced(o)' /\ new_status'[u] = status'[o] + 1
             /\ pc'[u] \in {"reread", "notify"} =>
                  status'[o] = Announced(o)' + 1 /\ new_status'[u] = status'[o]
  BY <1>1, <1>3 DEF InStep
<1> QED BY <1>1, <1>2, <1>3 DEF InStep

(* Announcing a status counts one more for its order and for no other.      *)
LEMMA AnnounceCounts ==
    ASSUME TypeOK, NEW u \in Updates, order[u] \in Orders, new_status[u] \in 1..DELIVERED,
           Announce(u)
    PROVE  \A o \in Orders :
               Announced(o)' = Announced(o) + (IF o = order[u] THEN 1 ELSE 0)
<1> SUFFICES ASSUME NEW o \in Orders
             PROVE  Announced(o)' = Announced(o) + (IF o = order[u] THEN 1 ELSE 0)
  OBVIOUS
<1>1. /\ announced[o] \in [Status -> Nat] /\ new_status[u] \in {1, 2, 3}
      /\ \A s \in Status : announced'[o][s] =
             announced[o][s] + IF o = order[u] /\ s = new_status[u] THEN 1 ELSE 0
  BY DEF TypeOK, Announce, DELIVERED
<1>2. announced[o][1] \in Nat /\ announced[o][2] \in Nat /\ announced[o][3] \in Nat
  BY <1>1 DEF Status
<1> QED BY <1>1, <1>2 DEF Announced, Status

(* Announcements follow the status as far as that handler is.               *)
LEMMA InStepNext ==
    IInv /\ IInv' /\ OneAtATime /\ InStep /\ Void \subseteq Void' /\ [Next]_vars => InStep'
<1> SUFFICES ASSUME IInv, IInv', OneAtATime, InStep, Void \subseteq Void', [Next]_vars
             PROVE  InStep'
  OBVIOUS
<1>0. TypeOK /\ TypeOK' /\ \A u \in Updates : Checked(u)
  BY DEF IInv
<1>1. ASSUME NEW u \in Updates, Receive(u) PROVE InStep'
  BY <1>0, <1>1, InStepQuiet DEF Receive, Goto, TypeOK
<1>2. ASSUME NEW u \in Updates, Read(u) PROVE InStep'
  <2>0. /\ pc[u] = "read" /\ UNCHANGED <<order, new_status, status, announced>>
        /\ \A v \in Updates \ {u} : pc'[v] = pc[v]
        /\ \/ pc'[u] = "sent"
           \/ pc'[u] = "write" /\ order[u] \in Orders /\ Follows(status[order[u]], new_status[u])
    BY <1>0, <1>2 DEF Read, Send, Goto, TypeOK, request
  <2>1. CASE pc'[u] = "sent"
    BY <2>0, <2>1, InStepQuiet
  <2>2. CASE pc'[u] = "write"
    <3> SUFFICES ASSUME NEW o \in Orders \ Void'
                 PROVE  /\ \A v \in Updates : order'[v] = o =>
                            /\ pc'[v] = "write" =>
                                status'[o] = Announced(o)' /\ new_status'[v] = status'[o] + 1
                            /\ pc'[v] \in {"reread", "notify"} =>
                                status'[o] = Announced(o)' + 1 /\ new_status'[v] = status'[o]
                        /\ (\A v \in Updates : order'[v] = o => pc'[v] \notin {"reread", "notify"}) =>
                                status'[o] = Announced(o)'
      BY DEF InStep
    <3>1. o \in Orders \ Void /\ status'[o] = status[o] /\ Announced(o)' = Announced(o)
      BY <2>0 DEF Announced
    <3>2. CASE o = order[u]
      <4>1. o \in Orders \ overlapped
        BY <3>1 DEF Void
      <4>2. \A v \in Updates \ {u} : order[v] = o => Ended(v)
        BY <2>0, <3>2, <4>1 DEF OneAtATime, Ended
      <4>3. status[o] = Announced(o)
        BY <2>0, <3>1, <4>2 DEF InStep, Ended
      <4>4. new_status[u] = status[o] + 1
        BY <2>0, <2>2, <3>2 DEF Follows
      <4> QED BY <2>0, <2>2, <3>1, <4>2, <4>3, <4>4 DEF Ended
    <3>3. CASE o # order[u]
      BY <2>0, <3>1, <3>3 DEF InStep
    <3> QED BY <3>2, <3>3
  <2> QED BY <2>0, <2>1, <2>2
<1>3. ASSUME NEW u \in Updates, Write(u) PROVE InStep'
  <2>0. /\ pc[u] = "write" /\ pc'[u] = "reread" /\ UNCHANGED <<order, new_status, announced>>
        /\ \A v \in Updates \ {u} : pc'[v] = pc[v]
        /\ order[u] \in Orders /\ status'[order[u]] = new_status[u]
        /\ \A o \in Orders \ {order[u]} : status'[o] = status[o]
    BY <1>0, <1>3 DEF Write, Goto, TypeOK, request, Checked
  <2> SUFFICES ASSUME NEW o \in Orders \ Void'
               PROVE  /\ \A v \in Updates : order'[v] = o =>
                          /\ pc'[v] = "write" =>
                              status'[o] = Announced(o)' /\ new_status'[v] = status'[o] + 1
                          /\ pc'[v] \in {"reread", "notify"} =>
                              status'[o] = Announced(o)' + 1 /\ new_status'[v] = status'[o]
                      /\ (\A v \in Updates : order'[v] = o => pc'[v] \notin {"reread", "notify"}) =>
                              status'[o] = Announced(o)'
    BY DEF InStep
  <2>1. o \in Orders \ Void /\ Announced(o)' = Announced(o)
    BY <2>0 DEF Announced
  <2>2. CASE o = order[u]
    <3>1. o \in Orders \ overlapped
      BY <2>1 DEF Void
    <3>2. \A v \in Updates \ {u} : order[v] = o => Ended(v)
      BY <2>0, <2>2, <3>1 DEF OneAtATime, Ended
    <3>3. status[o] = Announced(o) /\ new_status[u] = status[o] + 1
      BY <2>0, <2>1, <2>2 DEF InStep
    <3> QED BY <2>0, <2>1, <2>2, <3>2, <3>3 DEF Ended
  <2>3. CASE o # order[u]
    BY <2>0, <2>1, <2>3 DEF InStep
  <2> QED BY <2>2, <2>3
<1>4. ASSUME NEW u \in Updates, Reread(u) PROVE InStep'
  <2>1. /\ pc[u] = "reread" /\ pc'[u] = "notify"
        /\ UNCHANGED <<order, new_status, status, announced>>
        /\ \A v \in Updates \ {u} : pc'[v] = pc[v]
    BY <1>0, <1>4 DEF Reread, Goto, TypeOK, request
  <2> QED BY <2>1, InStepQuiet
<1>5. ASSUME NEW u \in Updates, Notify(u) \/ RedisError(u) PROVE InStep'
  <2>0. /\ pc[u] = "notify" /\ pc'[u] = "sent" /\ UNCHANGED <<order, new_status, status>>
        /\ \A v \in Updates \ {u} : pc'[v] = pc[v]
        /\ order[u] \in Orders /\ new_status[u] \in 1..DELIVERED
        /\ Announce(u) \/ UNCHANGED announced
    BY <1>0, <1>5 DEF Notify, RedisError, Send, TypeOK, request, Checked
  <2>1. order[u] \in Void' \/ Announce(u)
    BY <1>0, <1>5, <2>0 DEF Notify, RedisError, Send, TypeOK, Void, Failed
  <2>2. CASE UNCHANGED announced /\ order[u] \in Void'
    BY <2>0, <2>2, InStepQuiet
  <2>3. CASE Announce(u)
    <3> SUFFICES ASSUME NEW o \in Orders \ Void'
                 PROVE  /\ \A v \in Updates : order'[v] = o =>
                            /\ pc'[v] = "write" =>
                                status'[o] = Announced(o)' /\ new_status'[v] = status'[o] + 1
                            /\ pc'[v] \in {"reread", "notify"} =>
                                status'[o] = Announced(o)' + 1 /\ new_status'[v] = status'[o]
                        /\ (\A v \in Updates : order'[v] = o => pc'[v] \notin {"reread", "notify"}) =>
                                status'[o] = Announced(o)'
      BY DEF InStep
    <3>1. o \in Orders \ Void /\ status'[o] = status[o]
      BY <2>0
    <3>2. CASE o = order[u]
      <4>1. o \in Orders \ overlapped
        BY <3>1 DEF Void
      <4>2. \A v \in Updates \ {u} : order[v] = o => Ended(v)
        BY <2>0, <3>2, <4>1 DEF OneAtATime, Ended
      <4>3. status[o] = Announced(o) + 1
        BY <2>0, <3>1, <3>2 DEF InStep
      <4>4. Announced(o)' = Announced(o) + 1
        BY <1>0, <2>0, <2>3, <3>2, AnnounceCounts
      <4> QED BY <2>0, <3>1, <4>2, <4>3, <4>4 DEF Ended
    <3>3. CASE o # order[u]
      <4>1. Announced(o) \in Nat
        BY <1>0, <3>1 DEF Announced, TypeOK, Status
      <4>2. Announced(o)' = Announced(o)
        BY <1>0, <2>0, <2>3, <3>3, <4>1, AnnounceCounts
      <4> QED BY <2>0, <3>1, <3>3, <4>2 DEF InStep
    <3> QED BY <3>2, <3>3
  <2> QED BY <2>0, <2>1, <2>2, <2>3
<1>6. ASSUME NEW u \in Updates, DbError(u) PROVE InStep'
  <2>1. /\ pc[u] # "notify" /\ pc'[u] = "sent" /\ reply'[u] = 500
        /\ UNCHANGED <<order, new_status, status, announced>>
        /\ \A v \in Updates \ {u} : pc'[v] = pc[v]
    BY <1>0, <1>6 DEF DbError, Send, TypeOK, request
  <2>2. pc[u] = "reread" => order[u] \in Void'
    BY <1>0, <2>1 DEF Checked, Void, Failed
  <2> QED BY <2>1, <2>2, InStepQuiet
<1>7. CASE Crash
  <2>1. /\ UNCHANGED <<order, new_status, status, announced>>
        /\ \A v \in Updates : pc'[v] = IF Ended(v) THEN pc[v] ELSE "lost"
    BY <1>7 DEF Crash, request
  <2>2. \A v \in Updates : pc[v] \in {"reread", "notify"} => order[v] \in Void'
    BY <1>0, <2>1 DEF Checked, Void, Failed, Ended
  <2> QED BY <2>1, <2>2, InStepQuiet DEF Ended
<1>8. CASE UNCHANGED vars
  BY <1>8, InStepQuiet DEF vars, request
<1> QED
  BY <1>1, <1>2, <1>3, <1>4, <1>5, <1>6, <1>7, <1>8 DEF Next, Handle, Done

(* Every step keeps the invariant of the lifecycle.                         *)
LEMMA LifecycleNext == LifecycleInv /\ [Next]_vars => LifecycleInv'
<1> SUFFICES ASSUME LifecycleInv, [Next]_vars PROVE LifecycleInv'
  OBVIOUS
<1>1. TypeOK
  BY DEF LifecycleInv, IInv
<1> QED
  BY <1>1, NextIInv, FreshNext, OneAtATimeNext, VoidStays, InStepNext DEF LifecycleInv

(* A step that leaves alone the orders that keep their promise is, above,   *)
(* the end of the promises of others, or nothing.                           *)
LEMMA MaskedStep ==
    ASSUME Void \subseteq Void', TypeOK',
           \A o \in Orders \ Void' : status'[o] = status[o] /\ Announced(o)' = Announced(o)
    PROVE  Lifecycle!Next
<1>a. PICK O : O = Void' \ Void
  OBVIOUS
<1>1. O \in SUBSET (Orders \ Void) /\ Void' = Void \union O
  BY <1>a DEF TypeOK, Void
<1>2. \A o \in Orders :
        /\ (IF o \in Void' THEN 0 ELSE status'[o])
              = IF o \in O THEN 0 ELSE IF o \in Void THEN 0 ELSE status[o]
        /\ (IF o \in Void' THEN 0 ELSE Announced(o)')
              = IF o \in O THEN 0 ELSE IF o \in Void THEN 0 ELSE Announced(o)
  BY <1>a
<1>3. Lifecycle!BecomeVoid(O)
  BY <1>1, <1>2 DEF Lifecycle!BecomeVoid, Lifecycle!Forget
<1> QED BY <1>1, <1>3 DEF Lifecycle!Next

(* Every step takes one of the lifecycle, or none.                          *)
LEMMA LifecycleStep ==
    LifecycleInv /\ LifecycleInv' /\ [Next]_vars => [Lifecycle!Next]_Lifecycle!vars
<1> SUFFICES ASSUME LifecycleInv, LifecycleInv', [Next]_vars
             PROVE  [Lifecycle!Next]_Lifecycle!vars
  OBVIOUS
<1>0. /\ TypeOK /\ TypeOK' /\ InStep /\ Void \subseteq Void'
      /\ \A u \in Updates : Checked(u)
  BY VoidStays DEF LifecycleInv, IInv
<1>1. ASSUME UNCHANGED <<status, announced>> PROVE Lifecycle!Next
  BY <1>0, <1>1, MaskedStep DEF Announced
<1>2. ASSUME NEW u \in Updates, Receive(u) \/ Read(u) \/ Reread(u) \/ DbError(u)
      PROVE  Lifecycle!Next
  BY <1>1, <1>2 DEF Receive, Read, Reread, DbError
<1>3. ASSUME NEW u \in Updates, Write(u) PROVE Lifecycle!Next
  <2>1. /\ pc[u] = "write" /\ pc'[u] = "reread"
        /\ UNCHANGED <<order, reply, announced, overlapped>>
        /\ \A v \in Updates \ {u} : pc'[v] = pc[v]
        /\ order[u] \in Orders /\ new_status[u] \in 1..DELIVERED
        /\ status' = [status EXCEPT ![order[u]] = new_status[u]]
    BY <1>0, <1>3 DEF Write, Goto, TypeOK, request, Checked
  <2>2. CASE order[u] \in Void
    BY <1>0, <2>1, <2>2, MaskedStep DEF TypeOK, Announced
  <2>3. CASE order[u] \notin Void
    <3>1. PICK o \in Orders : o = order[u]
      BY <2>1
    <3>2. Void' = Void
      BY <2>1 DEF Void, Failed
    <3>3. status[o] = Announced(o) /\ new_status[u] = status[o] + 1
      BY <1>0, <2>1, <2>3, <3>1 DEF InStep
    <3>4. status[o] < DELIVERED
      <4>1. status[o] \in 0..3
        BY <1>0 DEF TypeOK, Status
      <4>2. status[o] + 1 \in 1..DELIVERED
        BY <2>1, <3>3
      <4> QED BY <4>1, <4>2 DEF DELIVERED
    <3>5. /\ status'[o] = status[o] + 1
          /\ \A p \in Orders \ {o} : status'[p] = status[p]
          /\ \A p \in Orders : Announced(p)' = Announced(p)
      BY <1>0, <2>1, <3>1, <3>3 DEF TypeOK, Announced
    <3>6. Lifecycle!Advance(o)
      BY <2>3, <3>1, <3>2, <3>3, <3>4, <3>5 DEF Lifecycle!Advance
    <3> QED BY <2>3, <3>1, <3>6 DEF Lifecycle!Next
  <2> QED BY <2>2, <2>3
<1>4. ASSUME NEW u \in Updates, Notify(u) \/ RedisError(u) PROVE Lifecycle!Next
  <2>1. /\ pc[u] = "notify" /\ pc'[u] = "sent"
        /\ UNCHANGED <<order, status, overlapped>>
        /\ \A v \in Updates \ {u} : pc'[v] = pc[v] /\ reply'[v] = reply[v]
        /\ order[u] \in Orders /\ new_status[u] \in 1..DELIVERED
        /\ \/ UNCHANGED announced
           \/ Announce(u) /\ reply'[u] = 500
           \/ Announce(u) /\ reply'[u] = 200
    BY <1>0, <1>4 DEF Notify, RedisError, Send, TypeOK, request, Checked
  <2>2. CASE UNCHANGED announced
    BY <1>1, <2>1, <2>2
  <2>3. ASSUME Announce(u), order[u] \in Void' PROVE Lifecycle!Next
    <3>1. \A o \in Orders \ {order[u]} : Announced(o)' = Announced(o)
      <4>1. \A o \in Orders : Announced(o) \in Nat
        BY <1>0 DEF Announced, TypeOK, Status
      <4> QED BY <1>0, <2>1, <2>3, <4>1, AnnounceCounts
    <3> QED BY <1>0, <2>1, <2>3, <3>1, MaskedStep
  <2>4. CASE Announce(u) /\ reply'[u] = 500
    BY <2>1, <2>3, <2>4 DEF Void, Failed
  <2>5. CASE Announce(u) /\ reply'[u] = 200 /\ order[u] \notin Void'
    <3>1. PICK o \in Orders : o = order[u]
      BY <2>1
    <3>2. Void' = Void
      <4>1. \A v \in Updates \ {u} : Failed(v)' = Failed(v)
        BY <2>1 DEF Failed
      <4>2. ~Failed(u)'
        BY <2>1, <2>5 DEF Failed
      <4> QED BY <1>0, <2>1, <4>1, <4>2 DEF Void
    <3>3. status[o] = Announced(o) + 1 /\ Announced(o) \in Nat
      BY <1>0, <2>1, <2>5, <3>1, <3>2 DEF InStep, Announced, TypeOK, Status
    <3>4. /\ Announced(o)' = Announced(o) + 1
          /\ \A p \in Orders \ {o} : Announced(p)' = Announced(p)
      <4>1. \A p \in Orders : Announced(p) \in Nat
        BY <1>0 DEF Announced, TypeOK, Status
      <4> QED BY <1>0, <2>1, <2>5, <3>1, <4>1, AnnounceCounts
    <3>5. Lifecycle!Announce(o)
      BY <2>1, <2>5, <3>1, <3>2, <3>3, <3>4 DEF Lifecycle!Announce
    <3> QED BY <2>5, <3>1, <3>2, <3>5 DEF Lifecycle!Next
  <2> QED BY <2>1, <2>2, <2>3, <2>4, <2>5
<1>5. CASE Crash
  BY <1>1, <1>5 DEF Crash
<1>6. CASE UNCHANGED vars
  BY <1>1, <1>6 DEF vars
<1> QED BY <1>2, <1>3, <1>4, <1>5, <1>6 DEF Next, Handle, Done

(* The handler implements OrderLifecycle: until PATCHes of an order overlap *)
(* or a fault strikes one, it advances one announced step at a time, for    *)
(* any number of orders and PATCHes and whatever befalls other orders.      *)
THEOREM LifecycleIsKept == Spec => ImplementsLifecycle
<1>1. Init => Lifecycle!Init
  <2>1. ASSUME Init PROVE Void = {}
    BY <2>1, NoneAssumption DEF Init, Void, Failed
  <2>2. ASSUME Init PROVE \A o \in Orders : status[o] = 0 /\ Announced(o) = 0
    BY <2>2 DEF Init, Announced, Status, WAITING
  <2> QED BY <2>1, <2>2 DEF Init, Lifecycle!Init
<1>2. Spec => []LifecycleInv
  BY LifecycleInit, LifecycleNext, PTL DEF Spec
<1> QED
  BY <1>1, <1>2, LifecycleStep, PTL DEF Spec, ImplementsLifecycle, Lifecycle!Spec

-----------------------------------------------------------------------------
(* What an order whose PATCHes never overlapped keeps whatever faults       *)
(* strike them: it has had the statuses up to its own, each by one UPDATE,  *)
(* and a handler past the check is about to write the next.                 *)
UpTo(s) == [t \in Status |-> IF t \in 1..s THEN 1 ELSE 0]

Steady(o) ==
    /\ reached[o] = 0..status[o]
    /\ written[o] = UpTo(status[o])
    /\ \A u \in Updates :
        order[u] = o /\ pc[u] = "write" => new_status[u] = status[o] + 1

AloneInv == TypeOK /\ OneAtATime /\ \A o \in Orders \ overlapped : Steady(o)

(* The initial state is in it.                                              *)
LEMMA AloneInit == Init => AloneInv
<1> SUFFICES ASSUME Init PROVE AloneInv
  OBVIOUS
<1>1. TypeOK /\ OneAtATime
  BY InitIInv, LifecycleInit DEF IInv, LifecycleInv
<1>2. ASSUME NEW o \in Orders PROVE Steady(o)
  <2>1. status[o] = 0 /\ reached[o] = {0} /\ 0..0 = {0} /\ 1..0 = {}
    BY DEF Init, WAITING
  <2>2. written[o] = UpTo(0)
    BY <2>1 DEF Init, UpTo
  <2> QED BY <2>1, <2>2 DEF Init, Steady
<1> QED BY <1>1, <1>2 DEF AloneInv

(* A step that writes nothing and starts no writer leaves an order as it is. *)
LEMMA SteadyQuiet ==
    ASSUME NEW o \in Orders, Steady(o),
           UNCHANGED <<status, reached, written>>,
           \A u \in Updates : order'[u] = o /\ pc'[u] = "write" =>
               order[u] = o /\ pc[u] = "write" /\ new_status'[u] = new_status[u]
    PROVE  Steady(o)'
BY DEF Steady

(* An UPDATE takes the one order it is made for to its next status.         *)
LEMMA SteadyWrite ==
    ASSUME AloneInv, NEW u \in Updates, Write(u), \A v \in Updates : Checked(v)
    PROVE  \A o \in Orders \ overlapped :
               /\ Steady(o)'
               /\ status'[o] \in {status[o], status[o] + 1}
<1> SUFFICES ASSUME NEW o \in Orders \ overlapped
             PROVE  Steady(o)' /\ status'[o] \in {status[o], status[o] + 1}
  OBVIOUS
<1>1. /\ TypeOK /\ OneAtATime /\ Steady(o)
      /\ pc[u] = "write" /\ pc' = [pc EXCEPT ![u] = "reread"]
      /\ UNCHANGED <<order, new_status>>
      /\ order[u] \in Orders /\ new_status[u] \in 1..DELIVERED
  BY DEF AloneInv, Write, Goto, request, Checked
<1>2. CASE order[u] # o
  <2>1. status'[o] = status[o] /\ reached'[o] = reached[o] /\ written'[o] = written[o]
    BY <1>1, <1>2 DEF Write, TypeOK
  <2> QED BY <1>1, <2>1 DEF Steady, TypeOK
<1>3. CASE order[u] = o
  <2>1. PICK s \in Status : s = status[o]
    BY <1>1 DEF TypeOK
  <2>2. new_status[u] = s + 1 /\ reached[o] = 0..s /\ written[o] = UpTo(s)
    BY <1>1, <1>3, <2>1 DEF Steady
  <2>3. s \in 0..3 /\ s + 1 \in Status
    BY <1>1, <2>2 DEF Status, DELIVERED
  <2>4. status'[o] = s + 1
    BY <1>1, <1>3, <2>2 DEF Write, TypeOK
  <2>5. reached'[o] = 0..(s + 1)
    <3>1. reached'[o] = (0..s) \union {s + 1}
      BY <1>1, <1>3, <2>2 DEF Write, TypeOK
    <3> QED BY <2>3, <3>1
  <2>6. written'[o] = UpTo(s + 1)
    <3>1. written'[o] = [UpTo(s) EXCEPT ![s + 1] = @ + 1]
      BY <1>1, <1>3, <2>2 DEF Write, TypeOK
    <3>2. [UpTo(s) EXCEPT ![s + 1] = @ + 1] = UpTo(s + 1)
      BY <2>3 DEF UpTo, Status
    <3> QED BY <3>1, <3>2
  <2>7. \A v \in Updates : order[v] = o => pc'[v] # "write"
    <3> SUFFICES ASSUME NEW v \in Updates, order[v] = o, pc[v] = "write", v # u
                 PROVE  FALSE
      BY <1>1 DEF TypeOK
    <3>1. ~Ended(u) /\ ~Ended(v)
      BY <1>1 DEF Ended
    <3> QED BY <1>1, <1>3, <3>1 DEF OneAtATime
  <2> QED BY <1>1, <2>1, <2>4, <2>5, <2>6, <2>7 DEF Steady
<1> QED BY <1>2, <1>3

(* Every step keeps it, and takes such an order at most to its next status. *)
LEMMA AloneStep ==
    AloneInv /\ IInv /\ OneAtATime' /\ TypeOK' /\ [Next]_vars =>
        /\ AloneInv'
        /\ \A o \in Orders \ overlapped : status'[o] \in {status[o], status[o] + 1}
<1> SUFFICES ASSUME AloneInv, IInv, OneAtATime', TypeOK', [Next]_vars
             PROVE  /\ AloneInv'
                    /\ \A o \in Orders \ overlapped :
                           status'[o] \in {status[o], status[o] + 1}
  OBVIOUS
<1>a. overlapped \subseteq overlapped'
  BY DEF Next, Handle, Receive, Read, Write, Reread, Notify, DbError, RedisError,
         Crash, Done, vars
<1> SUFFICES \A o \in Orders \ overlapped :
                 Steady(o)' /\ status'[o] \in {status[o], status[o] + 1}
  BY <1>a DEF AloneInv
<1> TAKE o \in Orders \ overlapped
<1>0. TypeOK /\ Steady(o) /\ \A v \in Updates : Checked(v)
  BY DEF AloneInv, IInv
<1>1. ASSUME NEW u \in Updates, Receive(u) PROVE Steady(o)' /\ status' = status
  BY <1>0, <1>1, SteadyQuiet DEF Receive, Goto, TypeOK
<1>2. ASSUME NEW u \in Updates, Read(u) PROVE Steady(o)' /\ status' = status
  <2>1. /\ pc[u] = "read"
        /\ UNCHANGED <<order, new_status, status, reached, written>>
        /\ \A v \in Updates \ {u} : pc'[v] = pc[v]
        /\ \/ pc'[u] = "sent"
           \/ pc'[u] = "write" /\ new_status[u] = status[order[u]] + 1
    BY <1>0, <1>2 DEF Read, Send, Goto, TypeOK, request, Follows
  <2> QED BY <1>0, <2>1 DEF Steady
<1>3. ASSUME NEW u \in Updates, Write(u)
      PROVE  Steady(o)' /\ status'[o] \in {status[o], status[o] + 1}
  BY <1>0, <1>3, SteadyWrite
<1>4. ASSUME NEW u \in Updates, Reread(u) \/ Notify(u) \/ DbError(u) \/ RedisError(u)
      PROVE  Steady(o)' /\ status' = status
  <2>1. /\ UNCHANGED <<order, new_status, status, reached, written>>
        /\ \A v \in Updates \ {u} : pc'[v] = pc[v]
        /\ pc'[u] \in {"notify", "sent"}
    BY <1>0, <1>4 DEF Reread, Notify, DbError, RedisError, Send, Goto, TypeOK, request
  <2>2. \A v \in Updates : pc'[v] = "write" => pc[v] = "write"
    BY <2>1
  <2> QED BY <1>0, <2>1, <2>2, SteadyQuiet
<1>5. CASE Crash
  <2>1. /\ UNCHANGED <<order, new_status, status, reached, written>>
        /\ \A v \in Updates : pc'[v] = "write" => pc[v] = "write"
    BY <1>0, <1>5 DEF Crash, TypeOK, request
  <2> QED BY <1>0, <2>1, SteadyQuiet
<1>6. CASE UNCHANGED vars
  BY <1>0, <1>6, SteadyQuiet DEF vars, request
<1>7. status[o] \in {status[o], status[o] + 1}
  OBVIOUS
<1> QED BY <1>1, <1>2, <1>3, <1>4, <1>5, <1>6, <1>7 DEF Next, Handle, Done, vars

LEMMA AloneInvariance == Spec => [](AloneInv /\ IInv)
<1>1. AloneInv /\ IInv /\ [Next]_vars => AloneInv' /\ IInv'
  <2> SUFFICES ASSUME AloneInv, IInv, [Next]_vars PROVE AloneInv' /\ IInv'
    OBVIOUS
  <2>1. IInv' /\ TypeOK' /\ OneAtATime'
    BY NextIInv, OneAtATimeNext DEF IInv, AloneInv
  <2> QED BY <2>1, AloneStep
<1> QED BY <1>1, AloneInit, InitIInv, PTL DEF Spec

(* An overlap of PATCHes is the only way back: the status of an order whose *)
(* PATCHes never overlapped stays or takes one step forward, also when      *)
(* calls of the database or of Redis raise and when the process dies in     *)
(* between.                                                                 *)
THEOREM OnlyOverlapGoesBack ==
    Spec => [][\A o \in Orders \ overlapped :
                  status'[o] \in {status[o], status[o] + 1}]_vars
<1>1. AloneInv /\ IInv /\ AloneInv' /\ [Next]_vars =>
        [\A o \in Orders \ overlapped :
            status'[o] \in {status[o], status[o] + 1}]_vars
  BY AloneStep DEF AloneInv
<1> QED BY <1>1, AloneInvariance, PTL DEF Spec

(* An overlap is also the only way to announce a status twice: no fault and *)
(* no repeated PATCH does.                                                  *)
THEOREM OnlyOverlapRepeats ==
    Spec => [](\A o \in Orders \ overlapped, s \in Status :
                  announced[o][s] <= IF s \in 1..status[o] THEN 1 ELSE 0)
<1>1. AloneInv /\ IInv =>
        \A o \in Orders \ overlapped, s \in Status :
            announced[o][s] <= IF s \in 1..status[o] THEN 1 ELSE 0
  <2> SUFFICES ASSUME AloneInv, IInv, NEW o \in Orders \ overlapped, NEW s \in Status
               PROVE  announced[o][s] <= IF s \in 1..status[o] THEN 1 ELSE 0
    OBVIOUS
  <2>1. written[o][s] = IF s \in 1..status[o] THEN 1 ELSE 0
    BY DEF AloneInv, Steady, UpTo
  <2>2. announced[o][s] \in Nat /\ written[o][s] \in Nat
    BY DEF IInv, TypeOK
  <2>3. announced[o][s] + Cardinality(ToAnnounce(o, s)) <= written[o][s]
    BY DEF IInv, AnnouncedIsWritten
  <2> QED BY <2>1, <2>2, <2>3, ToAnnounceFinite
<1> QED BY <1>1, AloneInvariance, PTL
=============================================================================
