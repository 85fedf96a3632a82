------------------------ MODULE OrdersAndUsersProofs ------------------------
(***************************************************************************)
(* The safety properties of OrderCreation, proved for any number of        *)
(* requests and keys, any lifetime of a row, any number of payment         *)
(* attempts, POSTs that overlap or not, other endpoints that save in the   *)
(* same table, and with every fault; and then of POST /orders/ and POST    *)
(* /users/ together: the composition is a behaviour of OrderCreation, so   *)
(* those theorems hold beside POST /users/, and what UserRegistration says *)
(* of replies and rows holds as well.                                      *)
(***************************************************************************)
EXTENDS UserRegistration, FiniteSetTheorems, TLAPS

(* What a handler has done by the await it is at.                           *)
Progress(r) ==
    /\ reply[r] # None <=> pc[r] = "sent"
    /\ pc[r] \in {"idle", "get", "products", "payment"} => charges[r] = 0
    /\ pc[r] \in {"idle", "get", "products", "payment", "insert"} => r \notin orders
    /\ pc[r] \in {"insert", "save"} => charges[r] > 0
    /\ pc[r] = "save" => r \in orders
    /\ pc[r] \in {"get", "save"} => key[r] \in Keys
    /\ pc[r] \in {"products", "payment", "insert"} => key[r] # TooLong
    /\ pc[r] = "idle" => key[r] = None

IInv ==
    /\ TypeOK
    /\ \A r \in Requests : Progress(r)
    /\ OrdersArePaid
    /\ RepliesNameOrders
    /\ RefusalLeavesNoOrder

(* What the responses of the handler look like.                             *)
LEMMA ReplyFacts ==
    /\ None \notin Replies
    /\ \A s \in Status : Refusal(s) \in Replies /\ Refusal(s).status = s
    /\ \A o \in Requests : /\ Created(o) \in Replies
                           /\ Created(o).status = 201
                           /\ Created(o).id = o
    /\ \A o \in Others : Created(o) \in Replies /\ Created(o).status = 201 /\ Created(o).id = o
  BY NoneAssumption DEF Replies, Refusal, Created, Status

(* What the store's operations leave in the table.                          *)
LEMMA SaveFacts ==
    ASSUME StoreTypeOK, NEW k \in Keys, NEW a \in Replies, Save(k, a)
    PROVE  /\ StoreTypeOK'
           /\ idempotency_keys'[k] # None /\ idempotency_keys'[k].reply = a
           /\ \A j \in Keys \ {k} : idempotency_keys'[j] = idempotency_keys[j]
<1>1. [reply |-> a, age |-> 0] \in Rows
  BY AgeAssumption DEF Rows
<1>2. idempotency_keys'[k] = [reply |-> a, age |-> 0]
  BY DEF Save, StoreTypeOK
<1> QED BY <1>1, <1>2, NoneAssumption DEF Save, StoreTypeOK

(* The purge takes expired rows only.                                       *)
LEMMA DeleteFacts ==
    ASSUME StoreTypeOK, DeleteExpired
    PROVE  /\ StoreTypeOK'
           /\ \A k \in Keys : \/ idempotency_keys'[k] = idempotency_keys[k]
                              \/ Expired(k) /\ idempotency_keys'[k] = None
  BY DEF DeleteExpired, StoreTypeOK

(* Time changes no row but its age.                                         *)
LEMMA GrowFacts ==
    ASSUME StoreTypeOK, GrowOld
    PROVE  /\ StoreTypeOK'
           /\ \A k \in Keys :
                /\ idempotency_keys[k] = None => idempotency_keys'[k] = None
                /\ idempotency_keys[k] # None =>
                    /\ idempotency_keys'[k] # None
                    /\ idempotency_keys'[k].reply = idempotency_keys[k].reply
<1>1. ASSUME NEW row \in Rows
      PROVE  Grow(row) \in Rows /\ Grow(row).reply = row.reply
  BY AgeAssumption, NoneAssumption DEF Rows, Grow
<1>2. Grow(None) = None
  BY DEF Grow
<1> QED BY <1>1, <1>2, NoneAssumption DEF GrowOld, StoreTypeOK

(* The initial state is in the invariant.                                   *)
LEMMA InitIInv == Init => IInv
  BY RetriesAssumption, NoneAssumption
  DEF Init, IInv, TypeOK, StoreInit, StoreTypeOK, Progress, OrdersArePaid,
      RepliesNameOrders, RefusalLeavesNoOrder, Present

(* Every step keeps the invariant.                                          *)
LEMMA NextIInv == IInv /\ [Next]_vars => IInv'
<1> SUFFICES ASSUME IInv, [Next]_vars PROVE IInv'
  OBVIOUS
<1> USE RetriesAssumption, NoneAssumption, ReplyFacts
<1>1. ASSUME NEW r \in Requests, Receive(r) PROVE IInv'
  <2> USE <1>1
  <2>0. PICK k \in Keys \union {None, TooLong} :
          /\ key' = [key EXCEPT ![r] = k]
          /\ CASE k = TooLong -> Send(r, Refusal(400))
               [] k = None    -> Goto(r, "products")
               [] OTHER       -> Goto(r, "get")
    BY DEF Receive
  <2>1. /\ pc[r] = "idle" /\ r \notin orders /\ charges[r] = 0 /\ reply[r] = None
        /\ UNCHANGED <<charges, orders, idempotency_keys, purged>>
    BY DEF Receive, IInv, Progress
  <2>7. overlapped' \subseteq Keys
    BY DEF Receive, IInv, TypeOK
  <2>2. TypeOK'
    BY <2>0, <2>1, <2>7 DEF IInv, TypeOK, StoreTypeOK, Send, Goto, Awaiting, Status
  <2>3. \A s \in Requests : Progress(s)'
    BY <2>0, <2>1 DEF IInv, TypeOK, Progress, Send, Goto, Awaiting, Status
  <2>4. OrdersArePaid'
    BY <2>1 DEF IInv, OrdersArePaid
  <2>5. RepliesNameOrders'
    <3>1. \A o \in orders : key'[o] = key[o]
      BY <2>0, <2>1 DEF IInv, TypeOK
    <3>2. \A s \in Requests : reply'[s] # None => NamesStoredOrder(key[s], reply'[s])
      BY <2>0, <2>1 DEF IInv, TypeOK, RepliesNameOrders, NamesStoredOrder, Send, Goto, Status
    <3>3. \A s \in Requests : reply'[s] # None => NamesStoredOrder(key'[s], reply'[s])
      BY <2>0, <2>1, <3>2 DEF IInv, TypeOK, NamesStoredOrder, Send, Goto, Status
    <3>4. \A s \in Requests : reply'[s] # None => NamesStoredOrder(key[s], reply[s])'
      BY <2>1, <3>1, <3>3 DEF NamesStoredOrder
    <3> QED
      BY <2>1, <3>1, <3>4 DEF IInv, RepliesNameOrders, NamesStoredOrder, Present
  <2>6. RefusalLeavesNoOrder'
    BY <2>0, <2>1 DEF IInv, TypeOK, RefusalLeavesNoOrder, Send, Goto, Status
  <2> QED BY <2>2, <2>3, <2>4, <2>5, <2>6 DEF IInv
<1>2. ASSUME NEW r \in Requests, Lookup(r) PROVE IInv'
  <2> USE <1>2
  <2>1. CASE Get(key[r]) # None
    <3> DEFINE k == key[r]
    <3>0. /\ k \in Keys /\ Present(k)
          /\ Get(k) = idempotency_keys[k].reply
          /\ idempotency_keys[k] \in Rows
      BY <2>1 DEF Lookup, IInv, TypeOK, StoreTypeOK, Progress, Get, Present
    <3>1. /\ Get(k) \in Replies /\ Get(k).status = 201
          /\ NamesStoredOrder(k, Get(k))
      BY <3>0 DEF IInv, RepliesNameOrders, Rows
    <3>2. /\ pc' = [pc EXCEPT ![r] = "sent"]
          /\ reply' = [reply EXCEPT ![r] = Get(k)]
          /\ UNCHANGED <<key, charges, orders, idempotency_keys, purged, overlapped>>
          /\ pc[r] = "get"
      BY <2>1 DEF Lookup, Send
    <3> HIDE DEF k
    <3>3. TypeOK'
      BY <3>1, <3>2 DEF IInv, TypeOK, StoreTypeOK
    <3>4. \A s \in Requests : Progress(s)'
      BY <3>1, <3>2 DEF IInv, TypeOK, Progress
    <3>5. OrdersArePaid' /\ RefusalLeavesNoOrder'
      BY <3>1, <3>2 DEF IInv, TypeOK, OrdersArePaid, RefusalLeavesNoOrder
    <3>6. RepliesNameOrders'
      BY <3>1, <3>2 DEF IInv, TypeOK, RepliesNameOrders, NamesStoredOrder, Present, k
    <3> QED BY <3>3, <3>4, <3>5, <3>6 DEF IInv
  <2>2. CASE Get(key[r]) = None
    BY <2>2 DEF Lookup, Goto, IInv, TypeOK, StoreTypeOK, Progress, Awaiting,
       OrdersArePaid, RepliesNameOrders, NamesStoredOrder, Present, RefusalLeavesNoOrder
  <2> QED BY <2>1, <2>2
<1>3. ASSUME NEW r \in Requests, ProductsFound(r) \/ ProductsMissing(r) PROVE IInv'
  <2> USE <1>3 DEF ProductsFound, ProductsMissing
  <2>1. TypeOK'
    BY DEF IInv, TypeOK, StoreTypeOK, Send, Goto, Awaiting, Status
  <2>2. \A s \in Requests : Progress(s)'
    BY DEF IInv, TypeOK, Progress, Send, Goto, Status
  <2>3. OrdersArePaid'
    BY DEF IInv, OrdersArePaid
  <2>4. RepliesNameOrders'
    BY DEF IInv, TypeOK, RepliesNameOrders, NamesStoredOrder, Present, Send, Goto, Status
  <2>5. RefusalLeavesNoOrder'
    BY DEF IInv, TypeOK, RefusalLeavesNoOrder, Progress, Send, Goto, Status
  <2> QED BY <2>1, <2>2, <2>3, <2>4, <2>5 DEF IInv
<1>4. ASSUME NEW r \in Requests, PaymentTaken(r) PROVE IInv'
  <2> USE <1>4 DEF PaymentTaken
  <2>1. TypeOK'
    BY DEF IInv, TypeOK, StoreTypeOK, Goto, Awaiting
  <2>2. \A s \in Requests : Progress(s)'
    BY DEF IInv, TypeOK, Progress, Goto
  <2>3. OrdersArePaid'
    BY DEF IInv, TypeOK, OrdersArePaid
  <2>4. RepliesNameOrders'
    BY DEF IInv, TypeOK, RepliesNameOrders, NamesStoredOrder, Present, Goto
  <2>5. RefusalLeavesNoOrder'
    BY DEF IInv, TypeOK, RefusalLeavesNoOrder, Progress, Goto
  <2> QED BY <2>1, <2>2, <2>3, <2>4, <2>5 DEF IInv
<1>5. ASSUME NEW r \in Requests, PaymentFails(r) PROVE IInv'
  <2> USE <1>5 DEF PaymentFails
  <2>1. TypeOK'
    BY DEF IInv, TypeOK, StoreTypeOK, Send, Awaiting, Status
  <2>2. \A s \in Requests : Progress(s)'
    BY DEF IInv, TypeOK, Progress, Send, Status
  <2>3. OrdersArePaid'
    BY DEF IInv, TypeOK, OrdersArePaid, Progress
  <2>4. RepliesNameOrders'
    BY DEF IInv, TypeOK, RepliesNameOrders, NamesStoredOrder, Present, Send, Status
  <2>5. RefusalLeavesNoOrder'
    BY DEF IInv, TypeOK, RefusalLeavesNoOrder, Progress, Send, Status
  <2> QED BY <2>1, <2>2, <2>3, <2>4, <2>5 DEF IInv
<1>6. ASSUME NEW r \in Requests, InsertOrder(r) PROVE IInv'
  <2>0. /\ pc[r] = "insert" /\ charges[r] > 0 /\ reply[r] = None
        /\ orders' = orders \union {r}
        /\ UNCHANGED <<key, charges, idempotency_keys, purged, overlapped>>
        /\ TypeOK
    BY <1>6 DEF InsertOrder, IInv, Progress
  <2>1. CASE key[r] = None
    <3>1. pc' = [pc EXCEPT ![r] = "sent"] /\ reply' = [reply EXCEPT ![r] = Created(r)]
      BY <1>6, <2>1 DEF InsertOrder, Send
    <3>2. TypeOK'
      BY <2>0, <3>1 DEF TypeOK, StoreTypeOK
    <3>3. \A s \in Requests : Progress(s)'
      BY <2>0, <3>1 DEF IInv, TypeOK, Progress
    <3>4. OrdersArePaid'
      BY <2>0 DEF IInv, OrdersArePaid
    <3>5. RepliesNameOrders'
      BY <2>0, <3>1 DEF IInv, TypeOK, RepliesNameOrders, NamesStoredOrder, Present
    <3>6. RefusalLeavesNoOrder'
      BY <2>0, <3>1 DEF IInv, TypeOK, RefusalLeavesNoOrder
    <3> QED BY <3>2, <3>3, <3>4, <3>5, <3>6 DEF IInv
  <2>2. CASE key[r] # None
    <3>0. key[r] \in Keys
      BY <2>0, <2>2 DEF IInv, TypeOK, Progress
    <3>1. pc' = [pc EXCEPT ![r] = "save"] /\ UNCHANGED reply
      BY <1>6, <2>2 DEF InsertOrder, Goto
    <3>2. TypeOK'
      BY <2>0, <3>1 DEF TypeOK, StoreTypeOK, Awaiting
    <3>3. \A s \in Requests : Progress(s)'
      BY <2>0, <3>0, <3>1 DEF IInv, TypeOK, Progress
    <3>4. OrdersArePaid'
      BY <2>0 DEF IInv, OrdersArePaid
    <3>5. RepliesNameOrders'
      BY <2>0, <3>1 DEF IInv, RepliesNameOrders, NamesStoredOrder, Present
    <3>6. RefusalLeavesNoOrder'
      BY <2>0, <3>1 DEF IInv, RefusalLeavesNoOrder
    <3> QED BY <3>2, <3>3, <3>4, <3>5, <3>6 DEF IInv
  <2> QED BY <2>1, <2>2
<1>7. ASSUME NEW r \in Requests, SaveReply(r) PROVE IInv'
  <2> USE <1>7
  <2>0. /\ pc[r] = "save" /\ r \in orders /\ key[r] \in Keys /\ StoreTypeOK
        /\ UNCHANGED <<key, charges, orders, purged, overlapped>>
    BY DEF SaveReply, IInv, TypeOK, Progress
  <2>1. CASE Conflicts(key[r])
    <3> USE <2>1 DEF SaveReply
    <3>1. TypeOK'
      BY DEF IInv, TypeOK, StoreTypeOK, Send, Status
    <3>2. \A s \in Requests : Progress(s)'
      BY DEF IInv, TypeOK, Progress, Send, Status
    <3>3. RepliesNameOrders'
      BY DEF IInv, TypeOK, RepliesNameOrders, NamesStoredOrder, Present, Send, Status
    <3>4. OrdersArePaid' /\ RefusalLeavesNoOrder'
      BY DEF IInv, TypeOK, OrdersArePaid, RefusalLeavesNoOrder, Send, Status
    <3> QED BY <3>1, <3>2, <3>3, <3>4 DEF IInv
  <2>2. CASE ~Conflicts(key[r])
    <3>0. Send(r, Created(r)) /\ Save(key[r], Created(r))
      BY <2>2 DEF SaveReply
    <3>1. /\ StoreTypeOK'
          /\ idempotency_keys'[key[r]].reply = Created(r)
          /\ \A j \in Keys \ {key[r]} : idempotency_keys'[j] = idempotency_keys[j]
      BY <2>0, <3>0, SaveFacts
    <3>2. TypeOK'
      BY <2>0, <3>0, <3>1 DEF IInv, TypeOK, Send
    <3>3. \A s \in Requests : Progress(s)'
      BY <2>0, <3>0 DEF IInv, TypeOK, Progress, Send
    <3>4. RepliesNameOrders'
      BY <2>0, <3>0, <3>1 DEF IInv, TypeOK, RepliesNameOrders, NamesStoredOrder, Present, Send
    <3>5. OrdersArePaid' /\ RefusalLeavesNoOrder'
      BY <2>0, <3>0 DEF IInv, TypeOK, OrdersArePaid, RefusalLeavesNoOrder, Send
    <3> QED BY <3>2, <3>3, <3>4, <3>5 DEF IInv
  <2> QED BY <2>1, <2>2
<1>8. ASSUME NEW r \in Requests, DbError(r) PROVE IInv'
  <2> USE <1>8 DEF DbError
  <2>1. TypeOK'
    BY DEF IInv, TypeOK, StoreTypeOK, Send, Status
  <2>2. \A s \in Requests : Progress(s)'
    BY DEF IInv, TypeOK, Progress, Send, Awaiting, Status
  <2>3. OrdersArePaid' /\ RefusalLeavesNoOrder'
    BY DEF IInv, TypeOK, OrdersArePaid, RefusalLeavesNoOrder, Send, Status
  <2>4. RepliesNameOrders'
    BY DEF IInv, TypeOK, RepliesNameOrders, NamesStoredOrder, Present, Send, Status
  <2> QED BY <2>1, <2>2, <2>3, <2>4 DEF IInv
<1>9. CASE Crash
  <2> USE <1>9 DEF Crash
  <2>1. TypeOK'
    BY DEF IInv, TypeOK, StoreTypeOK
  <2>2. \A s \in Requests : Progress(s)'
    BY DEF IInv, TypeOK, Progress, Awaiting
  <2>3. OrdersArePaid' /\ RefusalLeavesNoOrder'
    BY DEF IInv, TypeOK, OrdersArePaid, RefusalLeavesNoOrder, Progress, Awaiting
  <2>4. RepliesNameOrders'
    BY DEF IInv, RepliesNameOrders, NamesStoredOrder, Present
  <2> QED BY <2>1, <2>2, <2>3, <2>4 DEF IInv
<1>10. ASSUME UNCHANGED <<pc, key, reply, charges, orders, overlapped>>, StoreTypeOK',
              purged' \subseteq Keys,
              \A k \in Keys : idempotency_keys'[k] # None =>
                /\ idempotency_keys[k] # None
                /\ idempotency_keys'[k].reply = idempotency_keys[k].reply
       PROVE  IInv'
  BY <1>10 DEF IInv, TypeOK, Progress, OrdersArePaid, RepliesNameOrders,
     NamesStoredOrder, Present, RefusalLeavesNoOrder
<1>11. CASE Purge
  BY <1>10, <1>11, DeleteFacts DEF Purge, IInv, TypeOK
<1>12. CASE Tick
  BY <1>10, <1>12, GrowFacts DEF Tick, IInv, TypeOK
<1>13. CASE UNCHANGED vars
  BY <1>10, <1>13 DEF vars, IInv, TypeOK, StoreTypeOK
<1>14. ASSUME NEW k \in Keys, OtherSave(k) PROVE IInv'
  <2>1. PICK o \in Others : Save(k, Created(o))
    BY <1>14 DEF OtherSave
  <2>2. /\ StoreTypeOK'
        /\ idempotency_keys'[k].reply = Created(o)
        /\ \A j \in Keys \ {k} : idempotency_keys'[j] = idempotency_keys[j]
    BY <2>1, SaveFacts DEF IInv, TypeOK
  <2>3. UNCHANGED <<pc, key, reply, charges, orders, purged, overlapped>>
    BY <1>14 DEF OtherSave
  <2> QED
    BY <2>2, <2>3 DEF IInv, TypeOK, Progress, OrdersArePaid, RepliesNameOrders,
       NamesStoredOrder, Present, RefusalLeavesNoOrder
<1> QED
  BY <1>1, <1>2, <1>3, <1>4, <1>5, <1>6, <1>7, <1>8, <1>9, <1>11, <1>12, <1>13, <1>14
  DEF Next, Handle

(* The invariant holds in every reachable state.                            *)
THEOREM Invariance == Spec => []IInv
<1> QED BY InitIInv, NextIInv, PTL DEF Spec

(* Type correctness.                                                        *)
THEOREM TypeCorrect == Spec => []TypeOK
<1>1. IInv => TypeOK
  BY DEF IInv
<1> QED BY <1>1, Invariance, PTL

(* No order without a payment, wherever a handler or the process stops.     *)
THEOREM Paid == Spec => []OrdersArePaid
<1>1. IInv => OrdersArePaid
  BY DEF IInv
<1> QED BY <1>1, Invariance, PTL

(* Every 201, sent or cached, names an order that is stored and was made    *)
(* for the key it answers.                                                  *)
THEOREM RepliesAreDurable == Spec => []RepliesNameOrders
<1>1. IInv => RepliesNameOrders
  BY DEF IInv
<1> QED BY <1>1, Invariance, PTL

(* A refused POST leaves no order and one refused early was never charged.  *)
THEOREM RefusalIsClean == Spec => []RefusalLeavesNoOrder
<1>1. IInv => RefusalLeavesNoOrder
  BY DEF IInv
<1> QED BY <1>1, Invariance, PTL

(* The row of a key keeps its reply until it expires.                       *)
THEOREM RowsStay == Spec => LiveRowStays
<1>1. IInv /\ [Next]_vars =>
        [\A k \in Keys : Present(k) /\ ~Expired(k) =>
            /\ idempotency_keys'[k] # None
            /\ idempotency_keys'[k].reply = idempotency_keys[k].reply]_vars
  <2> SUFFICES ASSUME IInv, Next, NEW k \in Keys, Present(k), ~Expired(k)
               PROVE  /\ idempotency_keys'[k] # None
                      /\ idempotency_keys'[k].reply = idempotency_keys[k].reply
    BY DEF vars
  <2>0. StoreTypeOK
    BY DEF IInv, TypeOK
  <2>1. ASSUME NEW r \in Requests, SaveReply(r)
        PROVE  idempotency_keys'[k] = idempotency_keys[k]
    <3>1. key[r] \in Keys
      BY <2>1 DEF SaveReply, IInv, Progress
    <3>2. ASSUME ~Conflicts(key[r]) PROVE key[r] # k
      BY <3>2 DEF Conflicts
    <3>3. Created(r) \in Replies
      BY ReplyFacts
    <3> QED BY <2>0, <2>1, <3>1, <3>2, <3>3, SaveFacts DEF SaveReply
  <2>2. CASE Purge
    BY <2>0, <2>2, DeleteFacts DEF Purge, Present
  <2>3. CASE Tick
    BY <2>0, <2>3, GrowFacts DEF Tick, Present
  <2>4. ASSUME NEW r \in Requests,
               Receive(r) \/ Lookup(r) \/ ProductsFound(r) \/ ProductsMissing(r)
               \/ PaymentTaken(r) \/ PaymentFails(r) \/ InsertOrder(r) \/ DbError(r)
        PROVE  UNCHANGED idempotency_keys
    BY <2>4 DEF Receive, Lookup, ProductsFound, ProductsMissing, PaymentTaken,
       PaymentFails, InsertOrder, DbError
  <2>5. CASE Crash
    BY <2>5 DEF Crash, Present
  <2>6. ASSUME NEW j \in Keys, OtherSave(j)
        PROVE  idempotency_keys'[k] = idempotency_keys[k]
    <3>1. j # k
      BY <2>6 DEF OtherSave, Conflicts
    <3> QED BY <2>0, <2>6, <3>1, ReplyFacts, SaveFacts DEF OtherSave
  <2> QED
    BY <2>1, <2>2, <2>3, <2>4, <2>5, <2>6 DEF Next, Handle, Present
<1> QED BY <1>1, Invariance, PTL DEF Spec, LiveRowStays

(* Until the purge takes its row, a 201 for a key agrees with that row.     *)
AgreesWithRow ==
    \A r \in Requests :
        key[r] \in Keys \ purged /\ reply[r] # None /\ reply[r].status = 201 =>
            Present(key[r]) /\ idempotency_keys[key[r]].reply.id = reply[r].id

(* A 201 agrees with the row of its key, until the purge takes the row.     *)
LEMMA RowAgreement == Spec => []AgreesWithRow
<1>1. Init => AgreesWithRow
  BY DEF Init, AgreesWithRow
<1>2. IInv /\ AgreesWithRow /\ [Next]_vars => AgreesWithRow'
  <2> SUFFICES ASSUME IInv, AgreesWithRow, [Next]_vars PROVE AgreesWithRow'
    OBVIOUS
  <2>0. StoreTypeOK /\ TypeOK
    BY DEF IInv, TypeOK
  <2>2. ASSUME \A k \in Keys : Present(k) =>
                 /\ idempotency_keys'[k] # None
                 /\ idempotency_keys'[k].reply = idempotency_keys[k].reply,
               purged' = purged,
               \A r \in Requests : key'[r] \in Keys /\ reply'[r] # None /\ reply'[r].status = 201 =>
                 \/ key'[r] = key[r] /\ reply'[r] = reply[r]
                 \/ /\ idempotency_keys'[key'[r]] # None
                    /\ idempotency_keys'[key'[r]].reply.id = reply'[r].id
        PROVE  AgreesWithRow'
    BY <2>2 DEF AgreesWithRow, Present
  <2>3. ASSUME NEW r \in Requests, Receive(r) PROVE AgreesWithRow'
    <3>1. PICK k : /\ key' = [key EXCEPT ![r] = k]
                   /\ UNCHANGED reply \/ reply' = [reply EXCEPT ![r] = Refusal(400)]
      BY <2>3 DEF Receive, Send, Goto
    <3>2. pc[r] = "idle" /\ reply[r] = None /\ UNCHANGED <<idempotency_keys, purged>>
      BY <2>3 DEF Receive, IInv, Progress
    <3>3. Refusal(400).status # 201
      BY DEF Refusal
    <3> QED BY <2>0, <3>1, <3>2, <3>3 DEF TypeOK, AgreesWithRow, Present
  <2>4. ASSUME NEW r \in Requests, Lookup(r) PROVE AgreesWithRow'
    BY <2>0, <2>4 DEF Lookup, TypeOK, AgreesWithRow, Present, Get, Send, Goto, IInv, Progress
  <2>5. ASSUME NEW r \in Requests,
               ProductsFound(r) \/ ProductsMissing(r) \/ PaymentTaken(r) \/ PaymentFails(r) \/ DbError(r)
        PROVE  AgreesWithRow'
    <3>1. /\ UNCHANGED <<key, idempotency_keys, purged, overlapped>>
          /\ UNCHANGED reply \/ \E s \in {422, 500, 502} : reply' = [reply EXCEPT ![r] = Refusal(s)]
      BY <2>5 DEF ProductsFound, ProductsMissing, PaymentTaken, PaymentFails, DbError, Send, Goto
    <3>2. \A s \in {422, 500, 502} : Refusal(s).status # 201
      BY DEF Refusal
    <3> QED BY <2>0, <3>1, <3>2 DEF TypeOK, AgreesWithRow, Present
  <2>6. ASSUME NEW r \in Requests, InsertOrder(r) PROVE AgreesWithRow'
    BY <2>0, <2>6, NoneAssumption DEF InsertOrder, TypeOK, AgreesWithRow, Present, Send, Goto
  <2>7. ASSUME NEW r \in Requests, SaveReply(r) PROVE AgreesWithRow'
    <3>1. key[r] \in Keys /\ UNCHANGED <<key, purged>>
      BY <2>7 DEF SaveReply, IInv, Progress
    <3>2. CASE Conflicts(key[r])
      BY <2>0, <2>7, <3>2 DEF SaveReply, Refusal, TypeOK, AgreesWithRow, Present, Send
    <3>3. CASE ~Conflicts(key[r])
      <4>1. /\ reply' = [reply EXCEPT ![r] = Created(r)]
            /\ Save(key[r], Created(r))
        BY <2>7, <3>3 DEF SaveReply, Send
      <4>2. /\ idempotency_keys'[key[r]] # None
            /\ idempotency_keys'[key[r]].reply = Created(r)
            /\ \A j \in Keys \ {key[r]} : idempotency_keys'[j] = idempotency_keys[j]
        BY <2>0, <3>1, <4>1, ReplyFacts, SaveFacts
      <4> QED
        BY <2>0, <3>1, <3>3, <4>1, <4>2 DEF TypeOK, AgreesWithRow, Present, Conflicts
    <3> QED BY <3>2, <3>3
  <2>8. CASE Crash
    BY <2>8 DEF Crash, AgreesWithRow, Present
  <2>9. CASE Purge
    <3>1. \A k \in Keys \ purged' : ~Expired(k) /\ idempotency_keys'[k] = idempotency_keys[k]
      BY <2>0, <2>9, DeleteFacts DEF Purge
    <3> QED BY <2>9, <3>1 DEF Purge, AgreesWithRow, Present
  <2>10. CASE Tick
    BY <2>0, <2>2, <2>10, GrowFacts DEF Tick, Present
  <2>11. CASE UNCHANGED vars
    BY <2>11 DEF vars, AgreesWithRow, Present
  <2>12. ASSUME NEW k \in Keys, OtherSave(k) PROVE AgreesWithRow'
    <3>1. /\ ~Present(k) /\ UNCHANGED <<key, reply, purged>>
          /\ \A j \in Keys \ {k} : idempotency_keys'[j] = idempotency_keys[j]
      BY <2>0, <2>12, ReplyFacts, SaveFacts DEF OtherSave, Conflicts
    <3> QED BY <3>1 DEF AgreesWithRow, Present
  <2> QED
    BY <2>3, <2>4, <2>5, <2>6, <2>7, <2>8, <2>9, <2>10, <2>11, <2>12 DEF Next, Handle
<1> QED BY <1>1, <1>2, Invariance, PTL DEF Spec

(* Until the purge frees a key all the 201s of it name one order, whatever  *)
(* overlaps, fails or crashes: the primary key decides.                     *)
THEOREM SameKeySameOrder == Spec => []OneAcknowledgedOrder
<1>1. AgreesWithRow => OneAcknowledgedOrder
  BY DEF AgreesWithRow, OneAcknowledgedOrder
<1> QED BY <1>1, RowAgreement, PTL

(* A POST that was told of its own order has paid for it, and one that was  *)
(* told of another's has not paid.                                          *)
PaysItsOwn(r) ==
    reply[r] # None /\ reply[r].status = 201 => (charges[r] > 0 <=> reply[r].id = r)

(* A step that leaves the payments and the response of a POST alone, or     *)
(* gives it a response other than 201, keeps that.                          *)
LEMMA OthersReplies ==
    ASSUME NEW r \in Requests, PaysItsOwn(r),
           \/ reply'[r] = reply[r] /\ (charges'[r] = charges[r] \/ reply[r] = None)
           \/ reply'[r] # None => reply'[r].status # 201
    PROVE  PaysItsOwn(r)'
BY DEF PaysItsOwn

(* The two statements that send a 201 of the POST's own.                     *)
LEMMA OwnReplies ==
    ASSUME IInv, NEW r \in Requests, InsertOrder(r) \/ SaveReply(r)
    PROVE  /\ charges' = charges /\ charges[r] > 0
           /\ \A s \in Requests \ {r} : reply'[s] = reply[s]
           /\ \/ reply'[r] = reply[r] /\ reply[r] = None
              \/ reply'[r] = Created(r)
              \/ reply'[r] = Refusal(500)
<1>1. reply[r] = None /\ charges[r] > 0 /\ reply \in [Requests -> Replies \union {None}]
  BY DEF IInv, TypeOK, Progress, InsertOrder, SaveReply
<1> QED BY <1>1 DEF InsertOrder, SaveReply, Send, Goto

(* The one that sends a 201 of somebody else's: it took no money.            *)
LEMMA CachedReplies ==
    ASSUME IInv, NEW r \in Requests, Lookup(r)
    PROVE  /\ charges' = charges /\ charges[r] = 0
           /\ \A s \in Requests \ {r} : reply'[s] = reply[s]
           /\ \/ reply'[r] = reply[r] /\ reply[r] = None
              \/ reply'[r] # None /\ (reply'[r].status = 201 => reply'[r].id # r)
<1>1. /\ reply[r] = None /\ charges[r] = 0 /\ r \notin orders /\ key[r] \in Keys
      /\ reply \in [Requests -> Replies \union {None}]
  BY DEF IInv, TypeOK, Progress, Lookup
<1>2. charges' = charges /\ \A s \in Requests \ {r} : reply'[s] = reply[s]
  BY <1>1 DEF Lookup, Send, Goto
<1>3. \/ reply'[r] = reply[r]
      \/ Get(key[r]) # None /\ reply'[r] = Get(key[r])
  BY <1>1 DEF Lookup, Send, Goto
<1>4. ASSUME Get(key[r]) # None, Get(key[r]).status = 201 PROVE Get(key[r]).id # r
  <2>1. Present(key[r]) /\ Get(key[r]) = idempotency_keys[key[r]].reply
    BY <1>4 DEF Get
  <2>2. NamesStoredOrder(key[r], Get(key[r]))
    BY <1>1, <2>1 DEF IInv, RepliesNameOrders
  <2> QED BY <1>1, <1>4, <2>2, NoneAssumption DEF NamesStoredOrder
<1> QED BY <1>1, <1>2, <1>3, <1>4

(* Nobody pays for a reply from the cache: a POST told 201 was charged if   *)
(* and only if that 201 names the order it made itself; and a POST that was *)
(* charged without an order was told 500 or 502, never that all is well and *)
(* never that its request was at fault.                                     *)
THEOREM ChargesAreOwn ==
    Spec => [](\A r \in Requests : reply[r] # None =>
                  /\ reply[r].status = 201 => (charges[r] > 0 <=> reply[r].id = r)
                  /\ charges[r] > 0 /\ r \notin orders => reply[r].status \in {500, 502})
<1> DEFINE Own == \A r \in Requests : PaysItsOwn(r)
<1>1. Init => Own
  BY DEF Init, PaysItsOwn
<1>2. IInv /\ Own /\ [Next]_vars => Own'
  <2> SUFFICES ASSUME IInv, Own, [Next]_vars, NEW r \in Requests PROVE PaysItsOwn(r)'
    OBVIOUS
  <2>0. TypeOK /\ PaysItsOwn(r)
    BY DEF IInv
  <2>1. ASSUME NEW s \in Requests, Lookup(s) PROVE PaysItsOwn(r)'
    <3>1. CASE r # s
      <4>1. reply'[r] = reply[r] /\ charges'[r] = charges[r]
        BY <2>1, <3>1, CachedReplies
      <4> QED BY <2>0, <4>1, OthersReplies
    <3>2. CASE r = s
      <4>1. /\ charges'[r] = 0
            /\ reply'[r] = None \/ (reply'[r].status = 201 => reply'[r].id # r)
        BY <2>1, <3>2, CachedReplies
      <4> QED BY <4>1 DEF PaysItsOwn
    <3> QED BY <3>1, <3>2
  <2>2. ASSUME NEW s \in Requests, InsertOrder(s) \/ SaveReply(s) PROVE PaysItsOwn(r)'
    <3>1. CASE r # s
      <4>1. reply'[r] = reply[r] /\ charges'[r] = charges[r]
        BY <2>2, <3>1, OwnReplies
      <4> QED BY <2>0, <4>1, OthersReplies
    <3>2. CASE r = s
      <4>1. /\ charges'[r] > 0
            /\ reply'[r] = None \/ reply'[r] = Created(r) \/ reply'[r] = Refusal(500)
        BY <2>2, <3>2, OwnReplies
      <4> QED BY <4>1 DEF PaysItsOwn, Created, Refusal
    <3> QED BY <3>1, <3>2
  <2>3. ASSUME NEW s \in Requests,
               Receive(s) \/ ProductsFound(s) \/ ProductsMissing(s) \/ PaymentTaken(s)
               \/ PaymentFails(s) \/ DbError(s)
        PROVE  PaysItsOwn(r)'
    <3>1. r # s => reply'[r] = reply[r] /\ charges'[r] = charges[r]
      BY <2>0, <2>3 DEF Receive, ProductsFound, ProductsMissing, PaymentTaken, PaymentFails,
                        DbError, Send, Goto, TypeOK
    <3>2. reply[s] = None
      BY <2>3 DEF Receive, ProductsFound, ProductsMissing, PaymentTaken, PaymentFails, DbError,
                  IInv, Progress, Awaiting
    <3>3. \/ reply'[s] = reply[s]
          \/ \E c \in {400, 422, 500, 502} : reply'[s] = Refusal(c)
      BY <2>0, <2>3 DEF Receive, ProductsFound, ProductsMissing, PaymentTaken, PaymentFails,
                        DbError, Send, Goto, TypeOK
    <3>4. r = s => (reply'[r] # None => reply'[r].status # 201)
      BY <3>2, <3>3 DEF Refusal
    <3> QED BY <2>0, <3>1, <3>4, OthersReplies
  <2>4. CASE Crash
    <3>1. reply' = reply /\ (charges'[r] = charges[r] \/ reply[r] = None)
      BY <2>0, <2>4 DEF Crash, IInv, Progress, TypeOK
    <3> QED BY <2>0, <3>1, OthersReplies
  <2>5. CASE Purge \/ Tick \/ (\E k \in Keys : OtherSave(k)) \/ UNCHANGED vars
    <3>1. reply' = reply /\ charges' = charges
      BY <2>5 DEF Purge, Tick, OtherSave, vars
    <3> QED BY <2>0, <3>1, OthersReplies
  <2> QED BY <2>1, <2>2, <2>3, <2>4, <2>5 DEF Next, Handle
<1>3. IInv /\ Own => \A r \in Requests : reply[r] # None =>
          /\ reply[r].status = 201 => (charges[r] > 0 <=> reply[r].id = r)
          /\ charges[r] > 0 /\ r \notin orders => reply[r].status \in {500, 502}
  <2> SUFFICES ASSUME IInv, NEW r \in Requests, PaysItsOwn(r), reply[r] # None
               PROVE  /\ reply[r].status = 201 => (charges[r] > 0 <=> reply[r].id = r)
                      /\ charges[r] > 0 /\ r \notin orders => reply[r].status \in {500, 502}
    OBVIOUS
  <2>1. reply[r].status = 201 => (charges[r] > 0 <=> reply[r].id = r)
    BY DEF PaysItsOwn
  <2>2. ASSUME charges[r] > 0, r \notin orders PROVE reply[r].status \in {500, 502}
    <3>1. reply[r] \in Replies /\ NamesStoredOrder(key[r], reply[r])
      BY DEF IInv, TypeOK, RepliesNameOrders
    <3>2. reply[r].status # 201
      BY <2>1, <2>2, <3>1, NoneAssumption DEF NamesStoredOrder
    <3>3. reply[r].status \notin {400, 422}
      BY <2>2 DEF IInv, RefusalLeavesNoOrder
    <3> QED BY <3>1, <3>2, <3>3 DEF Replies, Status
  <2> QED BY <2>1, <2>2
<1> QED BY <1>1, <1>2, <1>3, Invariance, PTL DEF Spec

-----------------------------------------------------------------------------
(* The refinement of OncePerKey.  A key is spent when its POSTs overlapped, *)
(* its row expired or was purged, or a fault struck the very POST that had  *)
(* stored its order.  Until then it has one POST at a time, and once that   *)
(* POST has looked the key up the orders of the key are its own.            *)
Spent ==
    {k \in Keys :
        \/ k \in overlapped \union purged
        \/ Expired(k)
        \/ \E o \in orders : key[o] = k /\ Failed(o)}

OneAtATime ==
    \A r, s \in Requests :
        key[r] = key[s] /\ key[r] \in Keys \ overlapped /\ ~Ended(r) /\ ~Ended(s) => r = s

OwnOrders ==
    \A r \in Requests :
        pc[r] \in {"products", "payment", "insert", "save"} /\ key[r] \in Keys \ Spent =>
            \A o \in orders : key[o] = key[r] => o = r

OneOrder ==
    \A o, p \in orders : key[o] = key[p] /\ key[o] \in Keys \ Spent => o = p

PromiseInv == IInv /\ AgreesWithRow /\ OneAtATime /\ OwnOrders /\ OneOrder

(* Only keys become void.                                                   *)
LEMMA VoidIsKeys == TypeOK => Void \subseteq Keys
  BY DEF TypeOK, Void

(* Every spent key is void.                                                 *)
LEMMA SpentIsVoid == TypeOK => Spent \subseteq Void
  BY DEF TypeOK, Spent, Void

(* Once void, always void; once spent, always spent.                        *)
LEMMA VoidGrows == IInv /\ [Next]_vars => Void \subseteq Void' /\ Spent \subseteq Spent'
<1> DEFINE Grows == Void \subseteq Void' /\ Spent \subseteq Spent'
<1> SUFFICES ASSUME IInv, [Next]_vars PROVE Grows
  OBVIOUS
<1> USE NoneAssumption
<1>0. TypeOK /\ StoreTypeOK
  BY DEF IInv, TypeOK
<1>1. ASSUME overlapped \subseteq overlapped', purged \subseteq purged', orders \subseteq orders',
             \A r \in Requests : Failed(r) => Failed(r)' /\ key'[r] = key[r],
             \A k \in Keys : \/ k \in purged'
                             \/ /\ Expired(k) => Expired(k)'
                                /\ Present(k) => /\ Present(k)'
                                                 /\ idempotency_keys'[k].reply = idempotency_keys[k].reply
      PROVE  Grows
  <2>1. Void \subseteq Void'
    BY <1>1 DEF Void
  <2>2. Spent \subseteq Spent'
    <3>1. orders \subseteq Requests
      BY <1>0 DEF TypeOK
    <3> QED BY <1>1, <3>1 DEF Spent
  <2> QED BY <2>1, <2>2
<1>2. ASSUME UNCHANGED idempotency_keys
      PROVE  \A k \in Keys :
               /\ Expired(k) => Expired(k)'
               /\ Present(k) => Present(k)' /\ idempotency_keys'[k].reply = idempotency_keys[k].reply
  BY <1>2 DEF Expired, Present
<1>3. ASSUME NEW r \in Requests, Receive(r) PROVE Grows
  <2>1. PICK k : key' = [key EXCEPT ![r] = k]
    BY <1>3 DEF Receive
  <2>2. pc[r] = "idle" /\ reply[r] = None
    BY <1>3 DEF Receive, IInv, Progress
  <2>3. UNCHANGED <<orders, purged, idempotency_keys>> /\ overlapped \subseteq overlapped'
    BY <1>3 DEF Receive
  <2>4. \A s \in Requests \ {r} : pc'[s] = pc[s] /\ reply'[s] = reply[s]
    BY <1>0, <1>3 DEF Receive, TypeOK, Send, Goto
  <2> QED BY <1>0, <1>1, <1>2, <2>1, <2>2, <2>3, <2>4 DEF TypeOK, Failed
<1>4. ASSUME NEW r \in Requests, Handle(r) \/ DbError(r) PROVE Grows
  <2>1. UNCHANGED <<key, purged, overlapped>> /\ orders \subseteq orders'
    BY <1>4 DEF Handle, DbError, Lookup, ProductsFound, ProductsMissing, PaymentTaken,
       PaymentFails, InsertOrder, SaveReply
  <2>2. /\ pc[r] \in Awaiting
        /\ \A s \in Requests \ {r} : pc'[s] = pc[s] /\ reply'[s] = reply[s]
    BY <1>0, <1>4 DEF Handle, DbError, Lookup, ProductsFound, ProductsMissing, PaymentTaken,
       PaymentFails, InsertOrder, SaveReply, TypeOK, Send, Goto, Awaiting
  <2>3. \A s \in Requests : Failed(s) => Failed(s)'
    BY <2>2 DEF IInv, Progress, Failed, Awaiting
  <2>4. CASE UNCHANGED idempotency_keys
    BY <1>1, <1>2, <2>1, <2>3, <2>4
  <2>5. CASE SaveReply(r) /\ ~Conflicts(key[r])
    <3>1. key[r] \in Keys /\ ~Present(key[r])
      BY <2>5 DEF SaveReply, IInv, Progress, Conflicts
    <3>2. \A j \in Keys \ {key[r]} : idempotency_keys'[j] = idempotency_keys[j]
      BY <1>0, <2>5, <3>1, SaveFacts, ReplyFacts DEF SaveReply
    <3>3. \A j \in Keys : Present(j) => idempotency_keys'[j] = idempotency_keys[j]
      BY <3>1, <3>2
    <3> QED BY <1>1, <2>1, <2>3, <3>3 DEF Expired, Present
  <2> QED
    BY <1>4, <2>4, <2>5 DEF Handle, DbError, Lookup, ProductsFound, ProductsMissing,
       PaymentTaken, PaymentFails, InsertOrder, SaveReply
<1>5. ASSUME NEW k \in Keys, OtherSave(k) PROVE Grows
  <2>1. \A j \in Keys : Present(j) => idempotency_keys'[j] = idempotency_keys[j]
    BY <1>0, <1>5, ReplyFacts, SaveFacts DEF OtherSave, Conflicts
  <2> QED BY <1>1, <1>5, <2>1 DEF OtherSave, Failed, Expired, Present
<1>6. CASE Crash
  <2>1. \A s \in Requests : Failed(s) => Failed(s)'
    BY <1>0, <1>6 DEF Crash, TypeOK, Failed, Awaiting
  <2> QED BY <1>1, <1>2, <1>6, <2>1 DEF Crash
<1>7. CASE Purge
  <2>1. \A k \in Keys : k \in purged' \/ idempotency_keys'[k] = idempotency_keys[k]
    BY <1>0, <1>7, DeleteFacts DEF Purge
  <2> QED BY <1>1, <1>7, <2>1 DEF Purge, Failed, Expired, Present
<1>8. CASE Tick
  <2>1. \A k \in Keys : Present(k) => /\ Present(k)'
                                      /\ idempotency_keys'[k].reply = idempotency_keys[k].reply
    BY <1>0, <1>8, GrowFacts DEF Tick, Present
  <2>2. ASSUME NEW k \in Keys, Expired(k) PROVE Expired(k)'
    <3>1. idempotency_keys[k] \in Rows /\ idempotency_keys[k].age > TTL
      BY <1>0, <2>2 DEF Expired, Present, StoreTypeOK
    <3>2. idempotency_keys'[k] = Grow(idempotency_keys[k])
      BY <1>0, <1>8 DEF Tick, GrowOld
    <3>3. Grow(idempotency_keys[k]).age >= idempotency_keys[k].age
      BY <3>1, AgeAssumption DEF Grow, Rows
    <3>4. Grow(idempotency_keys[k]) \in Rows
      BY <3>1, AgeAssumption DEF Grow, Rows
    <3>5. idempotency_keys'[k].age > TTL
      BY <3>1, <3>2, <3>3, <3>4, AgeAssumption DEF Rows
    <3> QED BY <3>2, <3>4, <3>5 DEF Expired, Present
  <2> QED BY <1>1, <1>8, <2>1, <2>2 DEF Tick, Failed
<1>9. CASE UNCHANGED vars
  BY <1>1, <1>2, <1>9 DEF vars, Failed
<1> QED BY <1>3, <1>4, <1>5, <1>6, <1>7, <1>8, <1>9 DEF Next

(* An order of a key that is not spent is being saved or has been answered   *)
(* by a 201 that the row of the key agrees with.                            *)
LEMMA AnsweredOrders ==
    ASSUME IInv, AgreesWithRow, NEW o \in orders, key[o] \in Keys \ Spent, pc[o] # "save"
    PROVE  /\ pc[o] = "sent"
           /\ Present(key[o]) /\ ~Expired(key[o])
<1>1. o \in Requests /\ pc[o] \in {"sent", "lost"}
  BY DEF IInv, TypeOK, Progress, Awaiting
<1>2. ~Failed(o) /\ key[o] \notin purged /\ ~Expired(key[o])
  BY <1>1 DEF Spent
<1>3. pc[o] = "sent" /\ reply[o] # None /\ reply[o].status # 500
  BY <1>1, <1>2 DEF Failed, IInv, Progress
<1>4. reply[o].status = 201
  BY <1>1, <1>3 DEF IInv, TypeOK, RefusalLeavesNoOrder, Replies, Status
<1> QED BY <1>1, <1>2, <1>3, <1>4 DEF AgreesWithRow

(* The initial state is in the invariant of the promise.                    *)
LEMMA PromiseInit == Init => PromiseInv
  BY InitIInv DEF Init, PromiseInv, AgreesWithRow, OneAtATime, OwnOrders, OneOrder, Ended

(* Every step keeps it.                                                     *)
LEMMA PromiseNext == PromiseInv /\ AgreesWithRow' /\ [Next]_vars => PromiseInv'
<1> SUFFICES ASSUME PromiseInv, AgreesWithRow', [Next]_vars PROVE PromiseInv'
  OBVIOUS
<1>0. IInv /\ TypeOK /\ IInv' /\ Spent \subseteq Spent'
  BY NextIInv, VoidGrows DEF PromiseInv, IInv
<1> USE NoneAssumption
<1> DEFINE Past(r) == pc[r] \in {"products", "payment", "insert", "save"}
\* Steps in which no handler advances past its lookup.
<1>1. ASSUME UNCHANGED <<key, orders, overlapped>>,
             \A r \in Requests : /\ ~Ended(r)' => ~Ended(r)
                                 /\ Past(r)' => Past(r)
      PROVE  OneAtATime' /\ OwnOrders' /\ OneOrder'
  BY <1>0, <1>1 DEF PromiseInv, OneAtATime, OwnOrders, OneOrder
<1>2. ASSUME UNCHANGED <<pc, key, orders, overlapped>>
      PROVE  OneAtATime' /\ OwnOrders' /\ OneOrder'
  BY <1>1, <1>2 DEF Ended
<1>3. ASSUME NEW r \in Requests, Receive(r) PROVE OneAtATime' /\ OwnOrders' /\ OneOrder'
  <2>1. PICK k \in Keys \union {None, TooLong} :
          /\ key' = [key EXCEPT ![r] = k]
          /\ overlapped' = overlapped \union {j \in Keys : j = k /\ Running(k)}
    BY <1>3 DEF Receive
  <2>2. /\ pc[r] = "idle" /\ r \notin orders /\ UNCHANGED orders
        /\ \A s \in Requests \ {r} : pc'[s] = pc[s] /\ key'[s] = key[s]
        /\ key'[r] = k
    BY <1>0, <1>3, <2>1 DEF Receive, IInv, TypeOK, Progress, Send, Goto
  <2>3. pc'[r] \in {"get", "products", "sent"} /\ (pc'[r] = "products" => k = None)
    BY <1>0, <1>3, <2>1, <2>2 DEF Receive, TypeOK, Send, Goto
  <2>4. OneAtATime'
    <3>1. ASSUME NEW s \in Requests \ {r}, k \in Keys, key[s] = k, ~Ended(s)
          PROVE  k \in overlapped'
      BY <2>1, <3>1 DEF Running
    <3>2. \A s \in Requests \ {r} : Ended(s)' <=> Ended(s)
      BY <2>2 DEF Ended
    <3> QED BY <2>1, <2>2, <3>1, <3>2 DEF PromiseInv, OneAtATime
  <2>5. OwnOrders'
    BY <1>0, <2>1, <2>2, <2>3 DEF PromiseInv, OwnOrders, IInv, TypeOK
  <2>6. OneOrder'
    BY <1>0, <2>2 DEF PromiseInv, OneOrder, TypeOK
  <2> QED BY <2>4, <2>5, <2>6
<1>4. ASSUME NEW r \in Requests, Lookup(r) PROVE OneAtATime' /\ OwnOrders' /\ OneOrder'
  <2>1. /\ pc[r] = "get" /\ key[r] \in Keys /\ UNCHANGED <<key, orders, overlapped, idempotency_keys, purged>>
        /\ pc' = [pc EXCEPT ![r] = "sent"] \/ pc' = [pc EXCEPT ![r] = "products"]
    BY <1>0, <1>4 DEF Lookup, Send, Goto, IInv, Progress
  <2>2. \A s \in Requests : ~Ended(s)' => ~Ended(s)
    BY <1>0, <2>1 DEF Ended, TypeOK
  <2>3. CASE pc' = [pc EXCEPT ![r] = "sent"]
    BY <1>0, <1>1, <2>1, <2>2, <2>3 DEF TypeOK
  <2>4. CASE pc' = [pc EXCEPT ![r] = "products"] /\ pc'[r] = "products"
    <3>1. Get(key[r]) = None
      BY <1>0, <1>4, <2>4 DEF Lookup, Send, TypeOK
    <3>2. ASSUME NEW o \in orders, key[o] = key[r], key[r] \notin Spent PROVE FALSE
      <4>1. o \in Requests /\ o # r /\ ~Ended(r)
        BY <1>0, <2>1 DEF IInv, TypeOK, Progress, Ended
      <4>2. key[r] \notin overlapped
        BY <3>2, <2>1 DEF Spent
      <4>3. pc[o] # "save"
        BY <2>1, <3>2, <4>1, <4>2 DEF PromiseInv, OneAtATime, Ended
      <4>4. Present(key[o]) /\ ~Expired(key[o])
        BY <2>1, <3>2, <4>3, AnsweredOrders DEF PromiseInv
      <4>5. idempotency_keys[key[r]].reply # None
        BY <1>0, <2>1, <3>2, <4>4 DEF TypeOK, StoreTypeOK, Present, Rows
      <4> QED BY <3>1, <3>2, <4>4, <4>5 DEF Get
    <3>3. OneAtATime' /\ OneOrder'
      BY <1>0, <2>1, <2>2 DEF PromiseInv, OneAtATime, OneOrder
    <3>4. OwnOrders'
      BY <1>0, <2>1, <2>4, <3>2 DEF PromiseInv, OwnOrders, TypeOK
    <3> QED BY <3>3, <3>4
  <2> QED BY <1>0, <2>1, <2>3, <2>4 DEF TypeOK
<1>5. ASSUME NEW r \in Requests,
             ProductsFound(r) \/ ProductsMissing(r) \/ PaymentTaken(r) \/ PaymentFails(r)
             \/ SaveReply(r) \/ DbError(r)
      PROVE  OneAtATime' /\ OwnOrders' /\ OneOrder'
  <2>1. UNCHANGED <<key, orders, overlapped>>
    BY <1>5 DEF ProductsFound, ProductsMissing, PaymentTaken, PaymentFails, SaveReply, DbError
  <2>2. \A s \in Requests : (~Ended(s)' => ~Ended(s)) /\ (Past(s)' => Past(s))
    BY <1>0, <1>5 DEF ProductsFound, ProductsMissing, PaymentTaken, PaymentFails, SaveReply,
       DbError, Send, Goto, TypeOK, Ended, Awaiting
  <2> QED BY <1>1, <2>1, <2>2
<1>6. ASSUME NEW r \in Requests, InsertOrder(r) PROVE OneAtATime' /\ OwnOrders' /\ OneOrder'
  <2>1. /\ pc[r] = "insert" /\ orders' = orders \union {r} /\ UNCHANGED <<key, overlapped>>
        /\ orders \subseteq Requests
        /\ pc' = [pc EXCEPT ![r] = "sent"] \/ pc' = [pc EXCEPT ![r] = "save"]
    BY <1>0, <1>6 DEF InsertOrder, Send, Goto, TypeOK
  <2>2. \A s \in Requests : (~Ended(s)' => ~Ended(s)) /\ (Past(s)' => Past(s))
    BY <1>0, <2>1 DEF Ended, TypeOK
  <2>3. ASSUME NEW s \in Requests, Past(s), key[s] = key[r], key[r] \in Keys \ Spent
        PROVE  s = r
    BY <2>1, <2>3 DEF PromiseInv, OneAtATime, Ended, Spent
  <2>4. OneAtATime'
    BY <2>1, <2>2 DEF PromiseInv, OneAtATime
  <2>5. OwnOrders'
    BY <1>0, <2>1, <2>2, <2>3 DEF PromiseInv, OwnOrders
  <2>6. OneOrder'
    BY <1>0, <2>1 DEF PromiseInv, OneOrder, OwnOrders
  <2> QED BY <2>4, <2>5, <2>6
<1>7. CASE Crash
  <2>1. \A s \in Requests : (~Ended(s)' => ~Ended(s)) /\ (Past(s)' => Past(s))
    BY <1>0, <1>7 DEF Crash, TypeOK, Ended, Awaiting
  <2> QED BY <1>0, <1>1, <1>7, <2>1 DEF Crash, PromiseInv
<1>8. CASE Purge \/ Tick \/ UNCHANGED vars \/ \E k \in Keys : OtherSave(k)
  BY <1>0, <1>2, <1>8 DEF Purge, Tick, vars, OtherSave, PromiseInv
<1> QED
  BY <1>0, <1>3, <1>4, <1>5, <1>6, <1>7, <1>8 DEF Next, Handle, PromiseInv

(* A step after which the keys that are still not void have what they had   *)
(* maps to one that makes keys void, or to a stutter.                       *)
LEMMA MaskedStep ==
    ASSUME TypeOK, TypeOK', Void \subseteq Void',
           \A k \in Keys \ Void' :
               Made(k)' = Made(k) /\ Charged(k)' = Charged(k) /\ Told(k)' = Told(k)
    PROVE  Promise!Next
<1> DEFINE K == Void' \ Void
<1>1. K \in SUBSET (Keys \ Void) /\ Void' = Void \union K
  BY VoidIsKeys DEF TypeOK, Void
<1>2. \A k \in Keys : k \in Void' => Made(k)' = {} /\ Charged(k)' = {} /\ Told(k)' = {}
  BY DEF Made, Charged, Told, OfKey
<1>3. \A k \in Keys : k \in Void => Made(k) = {} /\ Charged(k) = {} /\ Told(k) = {}
  BY DEF Made, Charged, Told, OfKey
<1>4. \A k \in Keys :
        /\ Made(k)' = IF k \in K THEN {} ELSE Made(k)
        /\ Charged(k)' = IF k \in K THEN {} ELSE Charged(k)
        /\ Told(k)' = IF k \in K THEN {} ELSE Told(k)
  BY <1>2, <1>3
<1> HIDE DEF K
<1>5. Promise!BecomeVoid(K)
  BY <1>1, <1>4 DEF Promise!BecomeVoid, Promise!Forget
<1> QED BY <1>1, <1>5 DEF Promise!Next

(* Every step takes one of the promise, or none.                            *)
LEMMA PromiseStep == PromiseInv /\ PromiseInv' /\ [Next]_vars => [Promise!Next]_Promise!vars
<1> SUFFICES ASSUME PromiseInv, PromiseInv', [Next]_vars PROVE [Promise!Next]_Promise!vars
  OBVIOUS
<1>0. TypeOK /\ TypeOK' /\ IInv /\ Void \subseteq Void' /\ Spent \subseteq Void
  BY VoidGrows, SpentIsVoid DEF PromiseInv, IInv
<1> USE NoneAssumption
\* Steps that take no payment, store no order and send no 201.
<1>1. ASSUME UNCHANGED <<orders, charges>>,
             \A s \in Requests :
               \/ key'[s] = key[s] /\ reply'[s] = reply[s]
               \/ /\ key'[s] = key[s] \/ (s \notin orders /\ charges[s] = 0)
                  /\ reply[s] = None
                  /\ reply'[s] # None => reply'[s].status # 201
      PROVE  Promise!Next
  <2>1. \A k \in Keys \ Void' :
          Made(k)' = Made(k) /\ Charged(k)' = Charged(k) /\ Told(k)' = Told(k)
    <3>1. orders \subseteq Requests
      BY <1>0 DEF TypeOK
    <3> SUFFICES ASSUME NEW k \in Keys \ Void'
                 PROVE  Made(k)' = Made(k) /\ Charged(k)' = Charged(k) /\ Told(k)' = Told(k)
      OBVIOUS
    <3>2. k \notin Void
      BY <1>0
    <3>3. Made(k)' = Made(k)
      BY <1>1, <3>1, <3>2 DEF Made, OfKey
    <3>4. Charged(k)' = Charged(k)
      BY <1>1, <3>2 DEF Charged, OfKey
    <3>5. Told(k)' = Told(k)
      BY <1>1, <3>2 DEF Told, OfKey
    <3> QED BY <3>3, <3>4, <3>5
  <2> QED BY <1>0, <2>1, MaskedStep
<1>2. ASSUME NEW r \in Requests, Receive(r) PROVE Promise!Next
  <2>1. /\ UNCHANGED <<orders, charges>>
        /\ r \notin orders /\ charges[r] = 0 /\ reply[r] = None
    BY <1>0, <1>2 DEF Receive, IInv, Progress
  <2>2. /\ \A s \in Requests \ {r} : key'[s] = key[s] /\ reply'[s] = reply[s]
        /\ reply'[r] = None \/ reply'[r] = Refusal(400)
    BY <1>0, <1>2, <2>1 DEF Receive, TypeOK, Send, Goto
  <2> QED BY <1>1, <2>1, <2>2 DEF Refusal
<1>3. ASSUME NEW r \in Requests,
             ProductsFound(r) \/ ProductsMissing(r) \/ DbError(r)
      PROVE  Promise!Next
  <2>1. /\ UNCHANGED <<orders, charges, key>> /\ reply[r] = None
    BY <1>0, <1>3 DEF ProductsFound, ProductsMissing, DbError, IInv, Progress, Awaiting
  <2>2. /\ \A s \in Requests \ {r} : reply'[s] = reply[s]
        /\ \/ reply'[r] = None
           \/ \E c \in {422, 500} : reply'[r] = Refusal(c)
    BY <1>0, <1>3, <2>1 DEF ProductsFound, ProductsMissing, DbError, TypeOK, Send, Goto
  <2>3. reply'[r] # None => reply'[r].status # 201
    BY <2>2 DEF Refusal
  <2>4. UNCHANGED <<orders, charges>> /\ \A s \in Requests : key'[s] = key[s]
    BY <2>1
  <2>5. reply[r] = None /\ \A s \in Requests \ {r} : reply'[s] = reply[s]
    BY <2>1, <2>2
  <2> QED BY <1>1, <2>3, <2>4, <2>5
<1>4. CASE Purge \/ Tick \/ \E k \in Keys : OtherSave(k)
  BY <1>1, <1>4 DEF Purge, Tick, OtherSave
<1>5. CASE Crash
  <2>1. UNCHANGED <<key, reply, orders>>
    BY <1>5 DEF Crash
  <2>2. ASSUME NEW k \in Keys \ Void', NEW s \in Requests, key[s] = k
        PROVE  charges'[s] = charges[s]
    <3>1. ~Failed(s)'
      BY <2>1, <2>2 DEF Void
    <3>2. pc[s] # "payment"
      BY <1>0, <1>5, <3>1 DEF Crash, TypeOK, Failed, Awaiting
    <3> QED BY <1>0, <1>5, <3>2 DEF Crash, TypeOK
  <2>3. \A k \in Keys \ Void' :
          Made(k)' = Made(k) /\ Charged(k)' = Charged(k) /\ Told(k)' = Told(k)
    <3> SUFFICES ASSUME NEW k \in Keys \ Void'
                 PROVE  Made(k)' = Made(k) /\ Charged(k)' = Charged(k) /\ Told(k)' = Told(k)
      OBVIOUS
    <3>1. k \notin Void
      BY <1>0
    <3>2. Made(k)' = Made(k) /\ Told(k)' = Told(k)
      BY <2>1, <3>1 DEF Made, Told, OfKey
    <3>3. Charged(k)' = Charged(k)
      BY <2>1, <2>2, <3>1 DEF Charged, OfKey
    <3> QED BY <3>2, <3>3
  <2> QED BY <1>0, <2>3, MaskedStep
<1>6. ASSUME UNCHANGED <<key, overlapped, purged>>,
             \A s \in Requests : Failed(s)' <=> Failed(s),
             \A k \in Keys : \/ idempotency_keys'[k] = idempotency_keys[k]
                             \/ /\ ~Present(k)
                                /\ ~Expired(k)'
                                /\ idempotency_keys'[k].reply.id \notin Others
      PROVE  Void' = Void
  BY <1>6 DEF Void, Expired, Present
<1>7. ASSUME NEW r \in Requests, Lookup(r) PROVE [Promise!Next]_Promise!vars
  <2>0. PICK k : k = key[r]
    OBVIOUS
  <2> USE <2>0
  <2>1. pc[r] = "get" /\ k \in Keys /\ reply[r] = None
        /\ UNCHANGED <<key, charges, orders, idempotency_keys, purged, overlapped>>
    BY <1>0, <1>7 DEF Lookup, IInv, Progress
  <2>2. CASE Get(k) = None
    BY <1>0, <1>1, <1>7, <2>1, <2>2 DEF Lookup, Goto
  <2>3. CASE Get(k) # None
    <3>1. /\ Present(k) /\ ~Expired(k) /\ Get(k) = idempotency_keys[k].reply
          /\ Get(k).status = 201
      BY <2>1, <2>3, <1>0 DEF Get, IInv, RepliesNameOrders
    <3>2. /\ \A s \in Requests \ {r} : reply'[s] = reply[s] /\ pc'[s] = pc[s]
          /\ reply'[r] = Get(k) /\ pc'[r] = "sent"
      BY <1>0, <1>7, <2>1, <2>3 DEF Lookup, Send, TypeOK
    <3>3. \A s \in Requests : Failed(s)' <=> Failed(s)
      BY <2>1, <2>3, <3>1, <3>2 DEF Failed
    <3>4. Void' = Void
      BY <1>6, <2>1, <3>3
    <3>5. \A j \in Keys : Made(j)' = Made(j) /\ Charged(j)' = Charged(j)
      BY <2>1, <3>4 DEF Made, Charged, OfKey
    <3>6. \A j \in Keys \ {k} : Told(j)' = Told(j)
      BY <2>1, <3>2, <3>4 DEF Told, OfKey
    <3>7. CASE k \in Void
      <4>1. Told(k)' = Told(k)
        BY <2>1, <3>4, <3>7 DEF Told, OfKey
      <4>2. \A j \in Keys : Told(j)' = Told(j)
        BY <3>6, <4>1
      <4> QED BY <3>4, <3>5, <4>2 DEF Promise!vars, Promise!promised
    <3>8. CASE k \notin Void
      <4>1. Get(k).id \in orders /\ key[Get(k).id] = k
        BY <2>1, <3>1, <3>8, <1>0 DEF Void, IInv, RepliesNameOrders, NamesStoredOrder
      <4>2. Made(k) = {Get(k).id}
        BY <1>0, <2>1, <3>8, <4>1 DEF Made, OfKey, PromiseInv, OneOrder
      <4>3. Told(k)' = Made(k)
        <5>1. Get(k).id \in Told(k)'
          BY <2>1, <2>3, <3>1, <3>2, <3>4, <3>8 DEF Told, OfKey
        <5>2. ASSUME NEW s \in Requests, key[s] = k, reply'[s] # None, reply'[s].status = 201
              PROVE  reply'[s].id = Get(k).id
          BY <2>1, <3>1, <3>2, <3>8, <5>2 DEF Void, PromiseInv, AgreesWithRow
        <5> QED BY <2>1, <3>4, <3>8, <4>2, <5>1, <5>2 DEF Told, OfKey
      <4>4. Promise!Acknowledge(k)
        BY <2>1, <3>4, <3>5, <3>6, <4>2, <4>3 DEF Promise!Acknowledge
      <4> QED BY <2>1, <3>8, <4>4 DEF Promise!Next
    <3> QED BY <3>7, <3>8
  <2> QED BY <2>2, <2>3
<1>8. ASSUME NEW r \in Requests, PaymentTaken(r) \/ PaymentFails(r)
      PROVE  [Promise!Next]_Promise!vars
  <2>0. PICK k : k = key[r]
    OBVIOUS
  <2> USE <2>0
  <2>1. /\ pc[r] = "payment" /\ charges[r] = 0 /\ r \notin orders /\ reply[r] = None
        /\ UNCHANGED <<key, orders, idempotency_keys, purged, overlapped>>
    BY <1>0, <1>8 DEF PaymentTaken, PaymentFails, IInv, Progress
  <2>2. /\ \A s \in Requests \ {r} :
             reply'[s] = reply[s] /\ pc'[s] = pc[s] /\ charges'[s] = charges[s]
        /\ reply'[r] = None \/ reply'[r] = Refusal(502)
        /\ pc'[r] # "lost"
    BY <1>0, <1>8, <2>1 DEF PaymentTaken, PaymentFails, Send, Goto, TypeOK
  <2>3. \A s \in Requests : Failed(s)' <=> Failed(s)
    BY <2>1, <2>2 DEF Failed, Refusal
  <2>4. Void' = Void
    BY <1>6, <2>1, <2>3
  <2>5. \A j \in Keys : Made(j)' = Made(j) /\ Told(j)' = Told(j)
    <3>1. \A j \in Keys : Made(j)' = Made(j)
      BY <2>1, <2>4 DEF Made, OfKey
    <3>2. \A j \in Keys : Told(j)' = Told(j)
      BY <2>1, <2>2, <2>4 DEF Told, OfKey, Refusal
    <3> QED BY <3>1, <3>2
  <2>6. \A j \in Keys \ {k} : Charged(j)' = Charged(j)
    BY <2>1, <2>2, <2>4 DEF Charged, OfKey
  <2>7. CASE k \notin Keys \/ k \in Void \/ charges'[r] = 0
    <3>1. \A j \in Keys : Charged(j)' = Charged(j)
      BY <2>1, <2>2, <2>4, <2>6, <2>7, SMTT(30) DEF Charged, OfKey
    <3> QED BY <2>4, <2>5, <3>1 DEF Promise!vars, Promise!promised
  <2>8. CASE k \in Keys \ Void /\ charges'[r] # 0
    <3>1. charges'[r] > 0
      BY <1>0, <2>8, RetriesAssumption DEF TypeOK
    <3>2. Charged(k)' = Charged(k) \union {r}
      BY <2>1, <2>2, <2>4, <2>8, <3>1 DEF Charged, OfKey
    <3>3. Made(k) = {}
      BY <1>0, <2>1, <2>8 DEF Made, OfKey, PromiseInv, OwnOrders
    <3>4. Promise!Charge(k)
      BY <2>4, <2>5, <2>6, <2>8, <3>2, <3>3 DEF Promise!Charge
    <3> QED BY <2>8, <3>4 DEF Promise!Next
  <2> QED BY <2>7, <2>8
<1>9. ASSUME NEW r \in Requests, InsertOrder(r) PROVE [Promise!Next]_Promise!vars
  <2>0. PICK k : k = key[r]
    OBVIOUS
  <2> USE <2>0
  <2>1. /\ pc[r] = "insert" /\ charges[r] > 0 /\ r \notin orders /\ reply[r] = None
        /\ orders' = orders \union {r} /\ orders \subseteq Requests
        /\ UNCHANGED <<key, charges, idempotency_keys, purged, overlapped>>
    BY <1>0, <1>9 DEF InsertOrder, IInv, TypeOK, Progress
  <2>2. /\ \A s \in Requests \ {r} : reply'[s] = reply[s] /\ pc'[s] = pc[s]
        /\ reply'[r] = None \/ (reply'[r] = Created(r) /\ k = None)
        /\ pc'[r] # "lost"
    <3>1. CASE k = None
      BY <1>0, <1>9, <2>1, <3>1 DEF InsertOrder, Send, TypeOK
    <3>2. CASE k # None
      BY <1>0, <1>9, <2>1, <3>2 DEF InsertOrder, Goto, TypeOK
    <3> QED BY <3>1, <3>2
  <2>3. \A s \in Requests : Failed(s)' <=> Failed(s)
    BY <2>1, <2>2, ReplyFacts DEF Failed
  <2>4. Void' = Void
    BY <1>6, <2>1, <2>3
  <2>5. \A j \in Keys : Charged(j)' = Charged(j) /\ Told(j)' = Told(j)
    <3>1. \A j \in Keys : Charged(j)' = Charged(j)
      BY <2>1, <2>4 DEF Charged, OfKey
    <3>2. \A j \in Keys : Told(j)' = Told(j)
      <4> SUFFICES ASSUME NEW j \in Keys PROVE Told(j)' = Told(j)
        OBVIOUS
      <4>1. \A s \in Requests : key[s] = j =>
              \/ s # r /\ reply'[s] = reply[s]
              \/ s = r /\ reply'[s] = None /\ reply[s] = None
        BY <2>1, <2>2
      <4>2. \A s \in Requests :
              key'[s] = j /\ reply'[s] # None /\ reply'[s].status = 201
                <=> key[s] = j /\ reply[s] # None /\ reply[s].status = 201
        BY <2>1, <4>1
      <4> QED BY <2>1, <2>4, <4>1, <4>2 DEF Told, OfKey
    <3> QED BY <3>1, <3>2
  <2>6. \A j \in Keys \ {k} : Made(j)' = Made(j)
    BY <2>1, <2>4 DEF Made, OfKey
  <2>7. CASE k \notin Keys \/ k \in Void
    <3>1. \A j \in Keys : Made(j)' = Made(j)
      BY <2>1, <2>4, <2>6, <2>7 DEF Made, OfKey
    <3> QED BY <2>4, <2>5, <3>1 DEF Promise!vars, Promise!promised
  <2>8. CASE k \in Keys \ Void
    <3>1. Made(k) = {}
      BY <1>0, <2>1, <2>8 DEF Made, OfKey, PromiseInv, OwnOrders
    <3>2. Made(k)' = {r} /\ r \in Charged(k)
      BY <1>0, <2>1, <2>4, <2>8, <3>1 DEF Made, Charged, OfKey
    <3>3. Promise!Make(k)
      <4>1. k \in Keys /\ r \in Charged(k)
        BY <2>8, <3>2
      <4>2. [j \in Keys |-> Made(j)'] = [[j \in Keys |-> Made(j)] EXCEPT ![k] = {r}]
        BY <2>6, <3>2, <4>1
      <4>3. [j \in Keys |-> Charged(j)'] = [j \in Keys |-> Charged(j)]
        BY <2>5
      <4>4. [j \in Keys |-> Told(j)'] = [j \in Keys |-> Told(j)]
        BY <2>5
      <4> QED BY <2>4, <3>1, <4>1, <4>2, <4>3, <4>4 DEF Promise!Make
    <3> QED BY <2>8, <3>3 DEF Promise!Next
  <2> QED BY <2>7, <2>8
<1>10. ASSUME NEW r \in Requests, SaveReply(r) PROVE [Promise!Next]_Promise!vars
  <2>0. PICK k : k = key[r]
    OBVIOUS
  <2> USE <2>0
  <2>1. /\ pc[r] = "save" /\ r \in orders /\ k \in Keys /\ reply[r] = None /\ orders \subseteq Requests
        /\ UNCHANGED <<key, charges, orders, purged, overlapped>>
    BY <1>0, <1>10 DEF SaveReply, IInv, TypeOK, Progress
  <2>2. CASE Conflicts(k)
    <3>1. /\ \A s \in Requests \ {r} : reply'[s] = reply[s]
          /\ reply'[r] = Refusal(500)
      BY <1>0, <1>10, <2>2 DEF SaveReply, Send, TypeOK
    <3>2. reply'[r].status # 201
      BY <3>1 DEF Refusal
    <3>3. UNCHANGED <<orders, charges>> /\ \A s \in Requests : key'[s] = key[s]
      BY <2>1
    <3>4. reply[r] = None /\ \A s \in Requests \ {r} : reply'[s] = reply[s]
      BY <2>1, <3>1
    <3> QED BY <1>1, <3>2, <3>3, <3>4
  <2>3. CASE ~Conflicts(k)
    <3>1. /\ \A s \in Requests \ {r} : reply'[s] = reply[s] /\ pc'[s] = pc[s]
          /\ reply'[r] = Created(r) /\ pc'[r] = "sent"
          /\ Save(k, Created(r))
      BY <1>0, <1>10, <2>3 DEF SaveReply, Send, TypeOK
    <3>2. /\ idempotency_keys'[k] = [reply |-> Created(r), age |-> 0]
          /\ \A j \in Keys \ {k} : idempotency_keys'[j] = idempotency_keys[j]
      BY <1>0, <2>1, <3>1 DEF Save, TypeOK, StoreTypeOK
    <3>3. \A s \in Requests : Failed(s)' <=> Failed(s)
      BY <2>1, <3>1 DEF Failed, Created
    <3>4. Void' = Void
      <4>1. ~Expired(k)' /\ idempotency_keys'[k].reply.id \notin Others
        BY <3>2, AgeAssumption DEF Expired, Created
      <4> QED BY <1>6, <2>1, <2>3, <3>2, <3>3, <4>1 DEF Conflicts
    <3>5. \A j \in Keys : Made(j)' = Made(j) /\ Charged(j)' = Charged(j)
      BY <2>1, <3>4 DEF Made, Charged, OfKey
    <3>6. \A j \in Keys \ {k} : Told(j)' = Told(j)
      BY <2>1, <3>1, <3>4 DEF Told, OfKey
    <3>7. CASE k \in Void
      <4>1. Told(k)' = Told(k)
        BY <2>1, <3>4, <3>7 DEF Told, OfKey
      <4>2. \A j \in Keys : Told(j)' = Told(j)
        BY <3>6, <4>1
      <4> QED BY <3>4, <3>5, <4>2 DEF Promise!vars, Promise!promised
    <3>8. CASE k \notin Void
      <4>1. Made(k) = {r}
        BY <1>0, <2>1, <3>8 DEF Made, OfKey, PromiseInv, OwnOrders
      <4>2. ASSUME NEW s \in Requests \ {r}, key[s] = k, reply[s] # None, reply[s].status = 201
            PROVE  FALSE
        BY <2>1, <2>3, <3>8, <4>2 DEF PromiseInv, AgreesWithRow, Void, Conflicts
      <4>3. Told(k)' = {r}
        <5>1. /\ reply'[r] # None /\ reply'[r].status = 201 /\ reply'[r].id = r
              /\ \A s \in Requests : key[s] = k /\ reply'[s] # None /\ reply'[s].status = 201 => s = r
          BY <3>1, <4>2, ReplyFacts
        <5> QED BY <2>1, <3>4, <3>8, <5>1 DEF Told, OfKey
      <4>4. Promise!Acknowledge(k)
        BY <2>1, <3>4, <3>5, <3>6, <4>1, <4>3 DEF Promise!Acknowledge
      <4> QED BY <2>1, <3>8, <4>4 DEF Promise!Next
    <3> QED BY <3>7, <3>8
  <2> QED BY <2>2, <2>3
<1>11. CASE UNCHANGED vars
  <2>1. Void' = Void
    BY <1>11 DEF vars, Void, Failed, Expired, Present
  <2>2. \A k \in Keys : Made(k)' = Made(k) /\ Charged(k)' = Charged(k) /\ Told(k)' = Told(k)
    BY <1>11, <2>1 DEF vars, Made, Charged, Told, OfKey
  <2> QED BY <2>1, <2>2 DEF Promise!vars, Promise!promised
<1> QED
  BY <1>2, <1>3, <1>4, <1>5, <1>7, <1>8, <1>9, <1>10, <1>11 DEF Next, Handle

(* The invariant of the promise holds in every reachable state.             *)
LEMMA PromiseInvariance == Spec => []PromiseInv
<1>1. Spec => []AgreesWithRow
  BY RowAgreement
<1> QED BY <1>1, PromiseInit, PromiseNext, PTL DEF Spec

(* The handler implements OncePerKey: until a key becomes void it makes one *)
(* order, nothing is charged for it afterwards, and its 201s name that      *)
(* order, for any number of keys and POSTs and whatever befalls other keys. *)
THEOREM OneOrderIsPromised == Spec => ImplementsOncePerKey
<1>1. Init => Promise!Init
  <2>1. ASSUME Init PROVE Void = {}
    BY <2>1, NoneAssumption DEF Init, Void, Failed, Expired, Present, StoreInit
  <2> QED
    BY <2>1 DEF Init, Promise!Init, Made, Charged, Told, OfKey
<1> QED
  BY <1>1, PromiseInvariance, PromiseStep, PTL DEF Spec, ImplementsOncePerKey, Promise!Spec

(* A key makes a second order for one of these reasons only: its POSTs      *)
(* overlapped, its row expired or was purged, or its handler was stopped,   *)
(* by an error or with the process, between the INSERT of the order and the *)
(* save of the reply.  A POST that failed before the INSERT, a refusal, a   *)
(* failed payment and an endpoint that takes the key are not among them.    *)
THEOREM SecondOrderHasCause ==
    Spec => [](\A k \in Keys \ Spent : Cardinality({o \in orders : key[o] = k}) <= 1)
<1>1. PromiseInv => \A k \in Keys \ Spent : Cardinality({o \in orders : key[o] = k}) <= 1
  <2> SUFFICES ASSUME PromiseInv, NEW k \in Keys \ Spent
               PROVE  Cardinality({o \in orders : key[o] = k}) <= 1
    OBVIOUS
  <2> DEFINE S == {o \in orders : key[o] = k}
  <2>1. CASE S = {}
    <3>1. Cardinality(S) = 0
      BY <2>1, FS_EmptySet
    <3> QED BY <3>1
  <2>2. CASE S # {}
    <3>1. PICK o : o \in S
      BY <2>2
    <3>2. S = {o}
      BY <3>1 DEF PromiseInv, OneOrder
    <3>3. Cardinality({o}) = 1
      BY FS_Singleton
    <3>4. Cardinality(S) = 1
      BY <3>2, <3>3
    <3> HIDE DEF S
    <3>5. Cardinality(S) <= 1
      BY <3>4
    <3> QED BY <3>5 DEF S
  <2> QED BY <2>1, <2>2
<1> QED BY <1>1, PromiseInvariance, PTL

-----------------------------------------------------------------------------
(* POST /orders/ and POST /users/ together.                                 *)

(* What a handler of POST /users/ has done by the await it is at.           *)
UserProgress(p) ==
    /\ user_reply[p] # None <=> user_pc[p] = "sent"
    /\ user_pc[p] \in {"idle", "get", "insert"} => p \notin users
    /\ user_pc[p] = "save" => p \in users
    /\ user_pc[p] \in {"get", "save"} => user_key[p] \in Keys
    /\ user_pc[p] = "insert" => user_key[p] \in Keys \union {None}

(* A 201 that names a registration names a stored user of that key.         *)
NamesUser(k, response) ==
    response.status = 201 /\ response.id \in Others =>
        response.id \in users /\ user_key[response.id] = k

UsersAreStored ==
    /\ \A k \in Keys : Present(k) => NamesUser(k, idempotency_keys[k].reply)
    /\ \A r \in Requests : reply[r] # None => NamesUser(key[r], reply[r])
    /\ \A p \in Others : user_reply[p] # None =>
        /\ NamesUser(user_key[p], user_reply[p])
        /\ NamesStoredOrder(user_key[p], user_reply[p])

UserInv ==
    /\ IInv
    /\ UserTypeOK
    /\ \A p \in Others : UserProgress(p)
    /\ UsersAreStored
    /\ RefusedIsNotRegistered

(* What the steps of POST /orders/, the purge and the clock leave behind.   *)
OwnNext ==
    \/ \E r \in Requests : Receive(r) \/ Handle(r) \/ DbError(r)
    \/ Purge \/ Tick \/ Crash \/ UNCHANGED vars

(* Orders stay, and so do their keys.                                       *)
LEMMA StepOrders ==
    ASSUME IInv, OwnNext
    PROVE  /\ orders \subseteq orders'
           /\ \A o \in orders : key'[o] = key[o]
<1>1. ASSUME NEW r \in Requests, Receive(r) PROVE \A o \in orders : key'[o] = key[o]
  BY <1>1 DEF Receive, IInv, TypeOK, Progress
<1>2. orders \subseteq orders'
  BY DEF OwnNext, Handle, Receive, Lookup, ProductsFound, ProductsMissing, PaymentTaken,
         PaymentFails, InsertOrder, SaveReply, DbError, Purge, Tick, Crash, vars
<1>3. UNCHANGED key \/ \E r \in Requests : Receive(r)
  BY DEF OwnNext, Handle, Receive, Lookup, ProductsFound, ProductsMissing, PaymentTaken,
         PaymentFails, InsertOrder, SaveReply, DbError, Purge, Tick, Crash, vars
<1>4. CASE UNCHANGED key
  BY <1>2, <1>4
<1>5. CASE \E r \in Requests : Receive(r)
  BY <1>1, <1>2, <1>5
<1> QED BY <1>3, <1>4, <1>5

(* A row that a step of POST /orders/ writes names an order.                *)
LEMMA StepRows ==
    ASSUME IInv, OwnNext, NEW k \in Keys, idempotency_keys'[k] # None
    PROVE  \/ idempotency_keys'[k].reply.id \in Requests
           \/ Present(k) /\ idempotency_keys'[k].reply = idempotency_keys[k].reply
<1>0. StoreTypeOK
  BY DEF IInv, TypeOK
<1>1. ASSUME NEW r \in Requests, SaveReply(r), ~Conflicts(key[r])
      PROVE  idempotency_keys'[k].reply.id \in Requests \/ idempotency_keys'[k] = idempotency_keys[k]
  <2>1. key[r] \in Keys /\ Save(key[r], Created(r))
    BY <1>1 DEF SaveReply, IInv, Progress
  <2> QED BY <1>0, <2>1, SaveFacts, ReplyFacts
<1>2. CASE Purge
  BY <1>0, <1>2, DeleteFacts DEF Purge, Present
<1>3. CASE Tick
  BY <1>0, <1>3, GrowFacts DEF Tick, Present
<1>4. \/ UNCHANGED idempotency_keys
      \/ Purge \/ Tick
      \/ \E r \in Requests : SaveReply(r) /\ ~Conflicts(key[r])
  BY DEF OwnNext, Handle, Receive, Lookup, ProductsFound, ProductsMissing, PaymentTaken,
         PaymentFails, InsertOrder, SaveReply, DbError, Crash, vars
<1> QED BY <1>1, <1>2, <1>3, <1>4 DEF Present

(* A POST /orders/ that is told of a user was served the row of its key.    *)
LEMMA StepReplies ==
    ASSUME IInv, OwnNext, NEW r \in Requests,
           reply'[r] # None, reply'[r].status = 201, reply'[r].id \in Others
    PROVE  /\ key'[r] = key[r]
           /\ \/ reply'[r] = reply[r]
              \/ key[r] \in Keys /\ Present(key[r])
                 /\ reply'[r] = idempotency_keys[key[r]].reply
<1> USE NoneAssumption
<1>1. ASSUME NEW s \in Requests, Receive(s)
      PROVE  key'[r] = key[r] /\ reply'[r] = reply[r]
  <2>1. r # s => key'[r] = key[r] /\ reply'[r] = reply[r]
    BY <1>1 DEF Receive, Send, Goto, IInv, TypeOK
  <2>2. reply[s] = None /\ (reply'[s] = None \/ reply'[s] = Refusal(400))
    BY <1>1 DEF Receive, Send, Goto, IInv, TypeOK, Progress
  <2> QED BY <2>1, <2>2 DEF Refusal
<1>2. ASSUME NEW s \in Requests, Lookup(s)
      PROVE  /\ UNCHANGED key
             /\ \/ reply'[r] = reply[r]
                \/ key[r] \in Keys /\ Present(key[r]) /\ reply'[r] = idempotency_keys[key[r]].reply
  <2>1. UNCHANGED key /\ key[s] \in Keys
    BY <1>2 DEF Lookup, IInv, Progress
  <2>2. r # s => reply'[r] = reply[r]
    BY <1>2 DEF Lookup, Send, Goto, IInv, TypeOK
  <2>3. reply'[s] = reply[s] \/ (Get(key[s]) # None /\ reply'[s] = Get(key[s]))
    BY <1>2 DEF Lookup, Send, Goto, IInv, TypeOK
  <2> QED BY <2>1, <2>2, <2>3 DEF Get
<1>3. ASSUME NEW s \in Requests,
             ProductsFound(s) \/ ProductsMissing(s) \/ PaymentTaken(s) \/ PaymentFails(s)
             \/ InsertOrder(s) \/ SaveReply(s) \/ DbError(s)
      PROVE  UNCHANGED key /\ reply'[r] = reply[r]
  <2>1. UNCHANGED key
    BY <1>3 DEF ProductsFound, ProductsMissing, PaymentTaken, PaymentFails, InsertOrder,
                SaveReply, DbError
  <2>2. r # s => reply'[r] = reply[r]
    BY <1>3 DEF ProductsFound, ProductsMissing, PaymentTaken, PaymentFails, InsertOrder,
                SaveReply, DbError, Send, Goto, IInv, TypeOK
  <2>3. \/ reply'[s] = reply[s]
        \/ reply'[s] = Created(s)
        \/ \E c \in {422, 500, 502} : reply'[s] = Refusal(c)
    BY <1>3 DEF ProductsFound, ProductsMissing, PaymentTaken, PaymentFails, InsertOrder,
                SaveReply, DbError, Send, Goto, IInv, TypeOK
  <2> QED BY <2>1, <2>2, <2>3 DEF Refusal, Created
<1>4. CASE Purge \/ Tick \/ Crash \/ UNCHANGED vars
  BY <1>4 DEF Purge, Tick, Crash, vars
<1> QED BY <1>1, <1>2, <1>3, <1>4 DEF OwnNext, Handle

(* A step of the composition is a step of OrderCreation or leaves its       *)
(* variables alone; the save of a registration is OtherSave.                *)
LEMMA SystemStep ==
    (\A p \in Others : UserProgress(p)) /\ [SystemNext]_system => [Next]_vars
<1> SUFFICES ASSUME \A p \in Others : UserProgress(p), [SystemNext]_system PROVE [Next]_vars
  OBVIOUS
<1>1. ASSUME NEW p \in Others, SaveUser(p) PROVE [Next]_vars
  <2>1. CASE Conflicts(user_key[p])
    BY <1>1, <2>1 DEF SaveUser
  <2>2. CASE ~Conflicts(user_key[p])
    <3>1. OtherSave(user_key[p])
      BY <1>1, <2>2 DEF SaveUser, OtherSave
    <3>2. user_key[p] \in Keys
      BY <1>1 DEF SaveUser, UserProgress
    <3> QED BY <3>1, <3>2 DEF Next
  <2> QED BY <2>1, <2>2
<1>2. ASSUME NEW p \in Others, ReceiveUser(p) \/ LookupUser(p) \/ InsertUser(p) \/ UserDbError(p)
      PROVE  UNCHANGED vars
  BY <1>2 DEF ReceiveUser, LookupUser, InsertUser, UserDbError
<1>3. CASE CrashAll
  BY <1>3 DEF CrashAll, Next
<1>4. CASE UNCHANGED system
  BY <1>4 DEF system
<1> QED
  BY <1>1, <1>2, <1>3, <1>4 DEF SystemNext, HandleUser, Next

(* The initial state is in the invariant.                                   *)
LEMMA UserInitInv == Init /\ UserInit => UserInv
<1> SUFFICES ASSUME Init, UserInit PROVE UserInv
  OBVIOUS
<1>1. UserTypeOK /\ (\A p \in Others : UserProgress(p)) /\ RefusedIsNotRegistered
  BY NoneAssumption DEF UserInit, UserTypeOK, UserProgress, RefusedIsNotRegistered
<1>2. UsersAreStored
  BY NoneAssumption DEF Init, UserInit, StoreInit, UsersAreStored, Present
<1> QED BY <1>1, <1>2, InitIInv DEF UserInv

(* A step of OrderCreation that leaves the registrations alone keeps what   *)
(* is known of them.                                                        *)
LEMMA OwnKeepsUsers ==
    ASSUME UserInv, OwnNext, UNCHANGED <<user_key, user_reply, users>>
    PROVE  UsersAreStored'
<1>0. IInv /\ UsersAreStored /\ StoreTypeOK
  BY DEF UserInv, IInv, TypeOK
<1>1. ASSUME NEW k \in Keys, Present(k)'
      PROVE  NamesUser(k, idempotency_keys[k].reply)'
  <2>1. \/ idempotency_keys'[k].reply.id \in Requests
        \/ Present(k) /\ idempotency_keys'[k].reply = idempotency_keys[k].reply
    BY <1>0, <1>1, StepRows DEF Present
  <2> QED BY <1>0, <2>1, NoneAssumption DEF UsersAreStored, NamesUser
<1>2. ASSUME NEW r \in Requests, reply'[r] # None
      PROVE  NamesUser(key[r], reply[r])'
  <2> SUFFICES ASSUME reply'[r].status = 201, reply'[r].id \in Others
               PROVE  reply'[r].id \in users /\ user_key[reply'[r].id] = key'[r]
    BY DEF NamesUser
  <2>1. /\ key'[r] = key[r]
        /\ \/ reply'[r] = reply[r]
           \/ key[r] \in Keys /\ Present(key[r])
              /\ reply'[r] = idempotency_keys[key[r]].reply
    BY <1>0, <1>2, StepReplies
  <2> QED BY <1>0, <1>2, <2>1 DEF UsersAreStored, NamesUser
<1>3. ASSUME NEW p \in Others, user_reply'[p] # None
      PROVE  NamesUser(user_key[p], user_reply[p])' /\ NamesStoredOrder(user_key[p], user_reply[p])'
  <2>1. NamesUser(user_key[p], user_reply[p]) /\ NamesStoredOrder(user_key[p], user_reply[p])
    BY <1>0, <1>3 DEF UsersAreStored
  <2>2. orders \subseteq orders' /\ \A o \in orders : key'[o] = key[o]
    BY <1>0, StepOrders
  <2> QED BY <2>1, <2>2 DEF NamesUser, NamesStoredOrder
<1> QED BY <1>1, <1>2, <1>3 DEF UsersAreStored

(* The steps of a registration that leave the variables of OrderCreation    *)
(* alone: what each sends and stores.                                       *)
Quiet(p) == ReceiveUser(p) \/ LookupUser(p) \/ InsertUser(p) \/ UserDbError(p)

(* A step of POST /users/ that writes no row of the idempotency table.      *)
LEMMA QuietStep ==
    ASSUME UserInv, NEW p \in Others, Quiet(p)
    PROVE  UserInv'
<1> USE NoneAssumption, EmailsAssumption
<1>0. /\ IInv /\ UserTypeOK /\ UsersAreStored /\ RefusedIsNotRegistered
      /\ \A q \in Others : UserProgress(q)
      /\ StoreTypeOK
  BY DEF UserInv, IInv, TypeOK
<1>1. UNCHANGED vars
  BY DEF Quiet, ReceiveUser, LookupUser, InsertUser, UserDbError
<1>2. IInv'
  BY <1>0, <1>1, NextIInv
<1>3. ASSUME UserTypeOK', UserProgress(p)',
             users \subseteq users', users' \subseteq users \union {p},
             \A q \in Others \ {p} :
                /\ user_pc'[q] = user_pc[q] /\ user_key'[q] = user_key[q]
                /\ email'[q] = email[q] /\ user_reply'[q] = user_reply[q],
             p \in users => user_key'[p] = user_key[p] /\ email'[p] = email[p],
             user_reply'[p] # None =>
                /\ NamesUser(user_key[p], user_reply[p])'
                /\ NamesStoredOrder(user_key'[p], user_reply'[p])
                /\ user_reply'[p].status \in {400, 409} => p \notin users'
                /\ user_reply'[p].status = 409 => Registered(email[p])'
      PROVE  UserInv'
  <2>1. \A q \in Others : UserProgress(q)'
    BY <1>0, <1>3 DEF UserProgress
  <2>2. \A q \in users : user_key'[q] = user_key[q] /\ email'[q] = email[q]
    BY <1>0, <1>3 DEF UserTypeOK
  <2>3. ASSUME NEW q \in Others, user_reply'[q] # None
        PROVE  /\ NamesUser(user_key[q], user_reply[q])'
               /\ NamesStoredOrder(user_key[q], user_reply[q])'
    <3>1. CASE q = p
      BY <1>1, <1>3, <2>3, <3>1 DEF vars, NamesStoredOrder
    <3>2. CASE q # p
      BY <1>0, <1>1, <1>3, <2>2, <2>3, <3>2
      DEF vars, UsersAreStored, NamesUser, NamesStoredOrder
    <3> QED BY <3>1, <3>2
  <2>4. UsersAreStored'
    BY <1>0, <1>1, <1>3, <2>2, <2>3 DEF vars, UsersAreStored, NamesUser, Present
  <2>5. RefusedIsNotRegistered'
    <3> SUFFICES ASSUME NEW q \in Others, user_reply'[q] # None
                 PROVE  /\ user_reply'[q].status \in {400, 409} => q \notin users'
                        /\ user_reply'[q].status = 409 => Registered(email[q])'
      BY DEF RefusedIsNotRegistered
    <3>1. CASE q = p
      BY <1>3, <3>1
    <3>2. CASE q # p
      BY <1>0, <1>3, <2>2, <3>2 DEF RefusedIsNotRegistered, Registered
    <3> QED BY <3>1, <3>2
  <2> QED BY <1>2, <1>3, <2>1, <2>4, <2>5 DEF UserInv
<1>4. \A c \in {400, 409, 500} :
        /\ Refusal(c) \in UserReplies /\ Refusal(c) # None /\ Refusal(c).status = c
        /\ NamesUser(user_key[p], Refusal(c))' /\ NamesStoredOrder(user_key'[p], Refusal(c))
  BY DEF Refusal, UserReplies, Status, NamesUser, NamesStoredOrder
<1>5. CASE ReceiveUser(p)
  <2>1. /\ user_pc[p] = "idle" /\ UNCHANGED users /\ p \notin users /\ user_reply[p] = None
        /\ \E k \in Keys \union {None, TooLong}, e \in Emails :
             /\ user_key' = [user_key EXCEPT ![p] = k]
             /\ email' = [email EXCEPT ![p] = e]
             /\ \/ k = TooLong /\ UserSend(p, Refusal(400))
                \/ k = None /\ UserGoto(p, "insert")
                \/ k \in Keys /\ UserGoto(p, "get")
    <3>1. user_pc[p] = "idle" /\ UNCHANGED users
      BY <1>5 DEF ReceiveUser
    <3>2. p \notin users /\ user_reply[p] = None
      BY <1>0, <3>1 DEF UserProgress
    <3>3. PICK k \in Keys \union {None, TooLong}, e \in Emails :
            /\ user_key' = [user_key EXCEPT ![p] = k]
            /\ email' = [email EXCEPT ![p] = e]
            /\ CASE k = TooLong -> UserSend(p, Refusal(400))
                 [] k = None    -> UserGoto(p, "insert")
                 [] OTHER       -> UserGoto(p, "get")
      BY <1>5 DEF ReceiveUser
    <3>4. \/ k = TooLong /\ UserSend(p, Refusal(400))
          \/ k = None /\ UserGoto(p, "insert")
          \/ k \in Keys /\ UserGoto(p, "get")
      BY <3>3
    <3> QED BY <3>1, <3>2, <3>3, <3>4
  <2>2. UserTypeOK'
    BY <1>0, <1>4, <2>1 DEF UserTypeOK, UserAwaiting, UserSend, UserGoto
  <2>3. \A q \in Others \ {p} :
          /\ user_pc'[q] = user_pc[q] /\ user_key'[q] = user_key[q]
          /\ email'[q] = email[q] /\ user_reply'[q] = user_reply[q]
    BY <1>0, <2>1 DEF UserTypeOK, UserSend, UserGoto
  <2>4. user_reply'[p] = None \/ user_reply'[p] = Refusal(400)
    BY <1>0, <2>1 DEF UserTypeOK, UserSend, UserGoto
  <2>5. UserProgress(p)'
    BY <1>0, <1>4, <2>1 DEF UserTypeOK, UserSend, UserGoto, UserProgress
  <2> QED BY <1>3, <1>4, <2>1, <2>2, <2>3, <2>4, <2>5
<1>6. CASE LookupUser(p)
  <2>1. /\ user_pc[p] = "get" /\ user_key[p] \in Keys /\ p \notin users
        /\ UNCHANGED <<user_key, email, users>> /\ user_reply[p] = None
        /\ \/ Get(user_key[p]) # None /\ UserSend(p, Get(user_key[p]))
           \/ UserGoto(p, "insert")
    BY <1>0, <1>6 DEF LookupUser, UserProgress
  <2>2. Get(user_key[p]) # None =>
          /\ Get(user_key[p]) \in UserReplies /\ Get(user_key[p]).status = 201
          /\ NamesStoredOrder(user_key[p], Get(user_key[p]))
          /\ NamesUser(user_key[p], Get(user_key[p]))
    <3> SUFFICES ASSUME Get(user_key[p]) # None
                 PROVE  /\ Get(user_key[p]) \in UserReplies /\ Get(user_key[p]).status = 201
                        /\ NamesStoredOrder(user_key[p], Get(user_key[p]))
                        /\ NamesUser(user_key[p], Get(user_key[p]))
      OBVIOUS
    <3>1. /\ Present(user_key[p]) /\ Get(user_key[p]) = idempotency_keys[user_key[p]].reply
          /\ idempotency_keys[user_key[p]] \in Rows
      BY <1>0, <2>1 DEF Get, Present, StoreTypeOK
    <3> QED
      BY <1>0, <2>1, <3>1 DEF Rows, Replies, UserReplies, IInv, RepliesNameOrders, UsersAreStored
  <2>3. UserTypeOK'
    BY <1>0, <2>1, <2>2 DEF UserTypeOK, UserAwaiting, UserSend, UserGoto
  <2>4. \A q \in Others \ {p} :
          /\ user_pc'[q] = user_pc[q] /\ user_key'[q] = user_key[q]
          /\ email'[q] = email[q] /\ user_reply'[q] = user_reply[q]
    BY <1>0, <2>1 DEF UserTypeOK, UserSend, UserGoto
  <2>5. user_reply'[p] = None \/ (Get(user_key[p]) # None /\ user_reply'[p] = Get(user_key[p]))
    BY <1>0, <2>1 DEF UserTypeOK, UserSend, UserGoto
  <2>6. UserProgress(p)'
    BY <1>0, <2>1, <2>2 DEF UserTypeOK, UserSend, UserGoto, UserProgress
  <2>7. user_reply'[p] # None =>
          NamesUser(user_key[p], user_reply[p])' /\ NamesStoredOrder(user_key'[p], user_reply'[p])
    BY <2>1, <2>2, <2>5 DEF NamesUser
  <2> QED BY <1>3, <2>1, <2>2, <2>3, <2>4, <2>5, <2>6, <2>7
<1>7. CASE InsertUser(p)
  <2>1. /\ user_pc[p] = "insert" /\ p \notin users
        /\ UNCHANGED <<user_key, email>> /\ user_reply[p] = None
        /\ \/ Registered(email[p]) /\ UserSend(p, Refusal(409)) /\ UNCHANGED users
           \/ user_key[p] = None /\ UserSend(p, Created(p)) /\ users' = users \union {p}
           \/ user_key[p] \in Keys /\ UserGoto(p, "save") /\ users' = users \union {p}
    BY <1>0, <1>7 DEF InsertUser, UserProgress
  <2>2. Created(p) \in UserReplies /\ Created(p).status = 201 /\ Created(p).id = p
    BY DEF Created, UserReplies, Status
  <2>3. UserTypeOK'
    BY <1>0, <1>4, <2>1, <2>2 DEF UserTypeOK, UserAwaiting, UserSend, UserGoto
  <2>4. \A q \in Others \ {p} :
          /\ user_pc'[q] = user_pc[q] /\ user_key'[q] = user_key[q]
          /\ email'[q] = email[q] /\ user_reply'[q] = user_reply[q]
    BY <1>0, <2>1 DEF UserTypeOK, UserSend, UserGoto
  <2>5. \/ user_reply'[p] = None
        \/ user_reply'[p] = Refusal(409) /\ Registered(email[p]) /\ UNCHANGED users
        \/ user_reply'[p] = Created(p) /\ p \in users'
    BY <1>0, <2>1 DEF UserTypeOK, UserSend, UserGoto
  <2>6. UserProgress(p)'
    BY <1>0, <1>4, <2>1, <2>2 DEF UserTypeOK, UserSend, UserGoto, UserProgress
  <2>8. NamesStoredOrder(user_key'[p], Created(p))
    BY <2>2 DEF NamesStoredOrder
  <2>9. user_reply'[p] = Created(p) /\ p \in users' => NamesUser(user_key[p], user_reply[p])'
    BY <2>1, <2>2 DEF NamesUser
  <2>10. user_reply'[p] = Refusal(409) => NamesUser(user_key[p], user_reply[p])'
    BY <1>4 DEF NamesUser
  <2>11. Registered(email[p]) => Registered(email[p])'
    BY <2>1 DEF Registered
  <2> QED BY <1>3, <1>4, <2>1, <2>2, <2>3, <2>4, <2>5, <2>6, <2>8, <2>9, <2>10, <2>11
<1>8. CASE UserDbError(p)
  <2>1. /\ user_pc[p] \in UserAwaiting /\ UserSend(p, Refusal(500))
        /\ UNCHANGED <<user_key, email, users>>
    BY <1>8 DEF UserDbError
  <2>2. UserTypeOK'
    BY <1>0, <1>4, <2>1 DEF UserTypeOK, UserAwaiting, UserSend
  <2>3. /\ \A q \in Others \ {p} :
             user_pc'[q] = user_pc[q] /\ user_reply'[q] = user_reply[q]
        /\ user_reply'[p] = Refusal(500)
    BY <1>0, <2>1 DEF UserTypeOK, UserSend
  <2>4. UserProgress(p)'
    BY <1>0, <1>4, <2>1 DEF UserTypeOK, UserSend, UserProgress
  <2>5. NamesUser(user_key[p], user_reply[p])'
    BY <1>4, <2>3 DEF NamesUser
  <2> QED BY <1>3, <1>4, <2>1, <2>2, <2>3, <2>4, <2>5
<1> QED BY <1>5, <1>6, <1>7, <1>8 DEF Quiet

(* The save of a registration: its row names a user that is stored.         *)
LEMMA SaveStep ==
    ASSUME UserInv, NEW p \in Others, SaveUser(p)
    PROVE  UserInv'
<1> USE NoneAssumption, EmailsAssumption
<1>0. /\ IInv /\ UserTypeOK /\ UsersAreStored /\ RefusedIsNotRegistered /\ StoreTypeOK
      /\ \A q \in Others : UserProgress(q)
  BY DEF UserInv, IInv, TypeOK
<1>1. /\ user_pc[p] = "save" /\ p \in users /\ user_key[p] \in Keys /\ user_reply[p] = None
      /\ UNCHANGED <<key, reply, orders, user_key, email, users>>
  BY <1>0 DEF SaveUser, UserProgress, vars
<1>2. IInv'
  <2>1. [SystemNext]_system
    BY DEF SystemNext, HandleUser
  <2> QED BY <1>0, <2>1, SystemStep, NextIInv
<1>3. PICK response \in {Refusal(500), Created(p)} :
        /\ UserSend(p, response)
        /\ \/ UNCHANGED idempotency_keys
           \/ Save(user_key[p], Created(p))
  BY DEF SaveUser, vars
<1>4. /\ response \in UserReplies /\ response.status \in {500, 201}
      /\ response.status = 201 => response.id = p
      /\ Created(p) \in Replies /\ Created(p).id = p
  BY ReplyFacts DEF Created, Refusal, UserReplies, Status
<1>5. /\ user_pc' = [user_pc EXCEPT ![p] = "sent"]
      /\ user_reply' = [user_reply EXCEPT ![p] = response]
  BY <1>3 DEF UserSend
<1>6. UserTypeOK'
  BY <1>0, <1>1, <1>4, <1>5 DEF UserTypeOK
<1>7. \A q \in Others : UserProgress(q)'
  BY <1>0, <1>1, <1>4, <1>5 DEF UserTypeOK, UserProgress
<1>8. RefusedIsNotRegistered'
  BY <1>0, <1>1, <1>4, <1>5 DEF UserTypeOK, RefusedIsNotRegistered, Registered
<1>9. UsersAreStored'
  <2>1. ASSUME NEW k \in Keys, Present(k)' PROVE NamesUser(k, idempotency_keys[k].reply)'
    <3>1. \/ Present(k) /\ idempotency_keys'[k] = idempotency_keys[k]
          \/ k = user_key[p] /\ idempotency_keys'[k].reply = Created(p)
      BY <1>0, <1>1, <1>3, <1>4, <2>1, SaveFacts DEF Present
    <3> QED BY <1>0, <1>1, <1>4, <3>1 DEF UsersAreStored, NamesUser
  <2>2. ASSUME NEW r \in Requests, reply'[r] # None PROVE NamesUser(key[r], reply[r])'
    BY <1>0, <1>1, <2>2 DEF UsersAreStored, NamesUser
  <2>3. ASSUME NEW q \in Others, user_reply'[q] # None
        PROVE  /\ NamesUser(user_key[q], user_reply[q])'
               /\ NamesStoredOrder(user_key[q], user_reply[q])'
    <3>1. CASE q = p
      BY <1>0, <1>1, <1>4, <1>5, <3>1 DEF UserTypeOK, NamesUser, NamesStoredOrder
    <3>2. CASE q # p
      BY <1>0, <1>1, <1>5, <2>3, <3>2
      DEF UserTypeOK, UsersAreStored, NamesUser, NamesStoredOrder
    <3> QED BY <3>1, <3>2
  <2> QED BY <2>1, <2>2, <2>3 DEF UsersAreStored
<1> QED BY <1>2, <1>6, <1>7, <1>8, <1>9 DEF UserInv

(* Every step of the system keeps the invariant.                            *)
LEMMA SystemNextInv == UserInv /\ [SystemNext]_system => UserInv'
<1> SUFFICES ASSUME UserInv, [SystemNext]_system PROVE UserInv'
  OBVIOUS
<1>1. IInv'
  BY SystemStep, NextIInv DEF UserInv
<1>2. ASSUME OwnNext, UNCHANGED registration PROVE UserInv'
  BY <1>1, <1>2, OwnKeepsUsers
  DEF UserInv, registration, UserTypeOK, UserProgress, RefusedIsNotRegistered, Registered
<1>3. CASE CrashAll
  <2>1. OwnNext /\ LoseUsers
    BY <1>3 DEF CrashAll, OwnNext
  <2>2. UsersAreStored'
    BY <2>1, OwnKeepsUsers DEF LoseUsers
  <2>3. UserTypeOK' /\ (\A p \in Others : UserProgress(p)') /\ RefusedIsNotRegistered'
    BY <2>1 DEF UserInv, LoseUsers, UserTypeOK, UserAwaiting, UserProgress,
                RefusedIsNotRegistered, Registered
  <2> QED BY <1>1, <2>2, <2>3 DEF UserInv
<1>4. ASSUME NEW p \in Others, ReceiveUser(p) \/ HandleUser(p) \/ UserDbError(p)
      PROVE  UserInv'
  BY <1>4, QuietStep, SaveStep DEF HandleUser, Quiet
<1>5. CASE UNCHANGED system
  BY <1>2, <1>5 DEF system, OwnNext
<1> QED BY <1>2, <1>3, <1>4, <1>5 DEF SystemNext, OwnNext

(* The invariant holds in every reachable state. *)
THEOREM SystemInvariance == System => []UserInv
<1> QED BY UserInitInv, SystemNextInv, PTL DEF System, SystemInit

(* The composition with POST /users/ is a behaviour of OrderCreation: every *)
(* theorem about Spec holds in it.                                          *)
THEOREM SystemIsOrderCreation == System => ImplementsOrderCreation
<1>1. UserInv /\ [SystemNext]_system => [Next]_vars
  BY SystemStep DEF UserInv
<1> QED BY <1>1, SystemInvariance, PTL DEF System, SystemInit, Spec, ImplementsOrderCreation

(* The promise of a key holds beside POST /users/ as well.                  *)
THEOREM PromiseBesideUsers == System => ImplementsOncePerKey
<1> QED BY SystemIsOrderCreation, OneOrderIsPromised, PTL DEF ImplementsOrderCreation

(* Type correctness of the registrations.                                   *)
THEOREM UserTypeCorrect == System => []UserTypeOK
<1>1. UserInv => UserTypeOK
  BY DEF UserInv
<1> QED BY <1>1, SystemInvariance, PTL

(* A client told 400 or 409 has not registered; a 409 is for a taken email. *)
THEOREM RefusalIsTrue == System => []RefusedIsNotRegistered
<1>1. UserInv => RefusedIsNotRegistered
  BY DEF UserInv
<1> QED BY <1>1, SystemInvariance, PTL

(* Every cached reply and every 201 names a row made for its key.           *)
THEOREM RepliesAreRows == System => []RepliesNameRows
<1>1. UserInv => RepliesNameRows
  <2> SUFFICES ASSUME UserInv PROVE RepliesNameRows
    OBVIOUS
  <2>1. UsersAreStored /\ RepliesNameOrders
    BY DEF UserInv, IInv
  <2>2. ASSUME NEW k, NEW response, NamesUser(k, response), NamesStoredOrder(k, response)
        PROVE  NamesRow(k, response)
    BY <2>2 DEF NamesUser, NamesStoredOrder, NamesRow
  <2> QED BY <2>1, <2>2 DEF UsersAreStored, RepliesNameOrders, RepliesNameRows
<1> QED BY <1>1, SystemInvariance, PTL

(* While the row of a key has not been purged, it is what the 201s of the   *)
(* registrations with that key said.                                        *)
UserAgreesWithRow ==
    \A p \in Others :
        user_key[p] \in Keys \ purged /\ user_reply[p] # None /\ user_reply[p].status = 201 =>
            Present(user_key[p]) /\ idempotency_keys[user_key[p]].reply = user_reply[p]

(* One key, one 201: of an order or of a user.                              *)
THEOREM OneReplyPerKey == System => []OneAcknowledgedReply
<1>1. Init /\ UserInit => UserAgreesWithRow
  BY DEF UserInit, UserAgreesWithRow
<1>2. UserInv /\ UserInv' /\ UserAgreesWithRow /\ [SystemNext]_system => UserAgreesWithRow'
  <2> SUFFICES ASSUME UserInv, UserInv', UserAgreesWithRow, [SystemNext]_system,
                      NEW p \in Others, user_key'[p] \in Keys \ purged',
                      user_reply'[p] # None, user_reply'[p].status = 201
               PROVE  /\ idempotency_keys'[user_key'[p]] # None
                      /\ idempotency_keys'[user_key'[p]].reply = user_reply'[p]
    BY DEF UserAgreesWithRow, Present
  <2>0. /\ IInv /\ StoreTypeOK /\ UserTypeOK /\ [Next]_vars
        /\ \A q \in Others : UserProgress(q)
    BY SystemStep DEF UserInv, IInv, TypeOK
  <2>1. /\ purged \subseteq purged'
        /\ \A k \in Keys \ purged' : Present(k) =>
             /\ idempotency_keys'[k] # None
             /\ idempotency_keys'[k].reply = idempotency_keys[k].reply
    <3>1. CASE \E r \in Requests : SaveReply(r)
      <4>1. PICK r \in Requests : SaveReply(r)
        BY <3>1
      <4>2. key[r] \in Keys /\ UNCHANGED purged
            /\ \/ UNCHANGED idempotency_keys
               \/ ~Present(key[r]) /\ Save(key[r], Created(r))
        BY <2>0, <4>1 DEF SaveReply, Conflicts, IInv, Progress
      <4> QED BY <2>0, <4>2, SaveFacts, ReplyFacts DEF Present
    <3>2. CASE \E k \in Keys : OtherSave(k)
      <4>1. PICK k \in Keys, o \in Others : ~Present(k) /\ Save(k, Created(o)) /\ purged' = purged
        BY <3>2 DEF OtherSave, Conflicts
      <4> QED BY <2>0, <4>1, SaveFacts, ReplyFacts DEF Present
    <3>3. CASE Purge
      BY <2>0, <3>3, DeleteFacts DEF Purge, Present
    <3>4. CASE Tick
      BY <2>0, <3>4, GrowFacts DEF Tick, Present
    <3>5. CASE UNCHANGED <<idempotency_keys, purged>>
      BY <3>5 DEF Present
    <3> QED
      BY <2>0, <3>1, <3>2, <3>3, <3>4, <3>5
      DEF Next, Handle, Receive, Lookup, ProductsFound, ProductsMissing, PaymentTaken,
          PaymentFails, InsertOrder, DbError, Crash, vars
  <2>2. CASE user_key'[p] = user_key[p] /\ user_reply'[p] = user_reply[p]
    BY <2>1, <2>2 DEF UserAgreesWithRow, Present
  <2>3. CASE LookupUser(p)
    <3>1. user_key'[p] = user_key[p] /\ user_reply[p] = None /\ UNCHANGED idempotency_keys
      BY <2>0, <2>3 DEF LookupUser, UserProgress, vars
    <3>2. Get(user_key[p]) # None /\ user_reply'[p] = Get(user_key[p])
      BY <2>0, <2>3, <3>1 DEF LookupUser, UserSend, UserGoto, UserTypeOK
    <3> QED BY <3>1, <3>2 DEF Get, Present
  <2>4. CASE SaveUser(p)
    <3>1. user_key'[p] = user_key[p] /\ user_key[p] \in Keys
          /\ user_reply'[p] \in {Refusal(500), Created(p)}
      BY <2>0, <2>4 DEF SaveUser, UserProgress, UserSend, UserTypeOK
    <3>2. user_reply'[p] = Created(p) /\ Created(p) # Refusal(500)
      BY <3>1 DEF Refusal, Created
    <3>3. Save(user_key[p], Created(p))
      BY <2>0, <2>4, <3>2 DEF SaveUser, UserSend, UserTypeOK
    <3> QED BY <2>0, <3>1, <3>2, <3>3, SaveFacts, ReplyFacts
  <2>5. CASE ReceiveUser(p) \/ InsertUser(p) \/ UserDbError(p)
    <3>1. \/ user_reply'[p] = user_reply[p] /\ user_reply[p] = None
          \/ \E c \in {400, 409, 500} : user_reply'[p] = Refusal(c)
          \/ user_key'[p] = None
      BY <2>0, <2>5 DEF ReceiveUser, InsertUser, UserDbError, UserSend, UserGoto,
                        UserTypeOK, UserProgress, UserAwaiting
    <3> QED BY <3>1, NoneAssumption DEF Refusal
  <2>6. ASSUME NEW q \in Others \ {p}, ReceiveUser(q) \/ HandleUser(q) \/ UserDbError(q)
        PROVE  user_key'[p] = user_key[p] /\ user_reply'[p] = user_reply[p]
    BY <2>0, <2>6 DEF ReceiveUser, HandleUser, LookupUser, InsertUser, SaveUser, UserDbError,
                      UserSend, UserGoto, UserTypeOK
  <2> QED
    BY <2>2, <2>3, <2>4, <2>5, <2>6
    DEF SystemNext, HandleUser, CrashAll, LoseUsers, registration, system
<1>3. System => []UserAgreesWithRow
  BY <1>1, <1>2, SystemInvariance, PTL DEF System, SystemInit
<1>4. System => []AgreesWithRow
  BY SystemIsOrderCreation, RowAgreement, PTL DEF ImplementsOrderCreation
<1>5. UserInv /\ AgreesWithRow /\ UserAgreesWithRow => OneAcknowledgedReply
  <2> SUFFICES ASSUME UserInv, AgreesWithRow, UserAgreesWithRow,
                      NEW r \in Requests, NEW p \in Others,
                      key[r] = user_key[p], key[r] \in Keys \ purged,
                      reply[r] # None, user_reply[p] # None,
                      reply[r].status = 201, user_reply[p].status = 201
               PROVE  reply[r] = user_reply[p]
    BY DEF OneAcknowledgedReply
  <2>1. reply[r] \in Replies
    BY DEF UserInv, IInv, TypeOK
  <2>2. user_reply[p] = idempotency_keys[key[r]].reply /\ Present(key[r])
    BY DEF UserAgreesWithRow
  <2>3. user_reply[p] \in Replies
    BY <2>2 DEF UserInv, IInv, TypeOK, StoreTypeOK, Present, Rows
  <2>4. user_reply[p].id = reply[r].id
    BY <2>2 DEF AgreesWithRow
  <2> QED BY <2>1, <2>3, <2>4 DEF Replies
<1> QED BY <1>3, <1>4, <1>5, SystemInvariance, PTL
=============================================================================
