-------------------------- MODULE DeploymentProofs --------------------------
(***************************************************************************)
(* What the life of the container keeps, proved for any catalogue, page    *)
(* size and stored rows, with a death, a failing statement or a downgrade  *)
(* at any point: rows of orders and products, the whole catalogue, the     *)
(* whole menu, connections that are closed, and the columns of each        *)
(* revision, from which the server runs on the tables of its models.       *)
(***************************************************************************)
EXTENDS Deployment, FiniteSetTheorems, TLAPS

-----------------------------------------------------------------------------
(* The scripts.  Two tables hold the rows of the properties; the statements *)
(* that move their rows are those of a batch, which come one after another. *)
Batched == {"orders", "products"}

Copy(t) == [op |-> "copy", table |-> t]

Rename(t) == [op |-> "rename", table |-> t]

IsRecreate(s) ==
    \E t \in Batched : \E gone, added :
        s = [op |-> "recreate", table |-> t, gone |-> gone, added |-> added]

Steady(s) ==
    \/ \E t \in DOMAIN Models : \E cols : s = Create(t, cols)
    \/ \E t \in DOMAIN Models : \E col : s = AddColumn(t, col)
    \/ \E t \in DOMAIN Models : \E name : s = DropColumn(t, name)
    \/ \E t \in DOMAIN Models \ Batched : s = Drop(t) \/ s = DropIfExists(t)

(* Statement i of S, or the end of S, is no inner statement of a batch.     *)
Fresh(S, i) == i > Len(S) \/ Steady(S[i]) \/ IsRecreate(S[i])

(* What comes before and after each statement of a script.                  *)
WellFormed(S) ==
    /\ Len(S) \in 1..8
    /\ Fresh(S, 1)
    /\ \A i \in 1..Len(S) :
        \/ Steady(S[i]) /\ Fresh(S, i + 1)
        \/ i < Len(S) /\ IsRecreate(S[i]) /\ S[i + 1] = Copy(S[i].table)
        \/ \E t \in Batched :
            \/ i < Len(S) /\ S[i] = Copy(t) /\ S[i + 1] = Drop(t)
            \/ i < Len(S) /\ S[i] = Drop(t) /\ S[i + 1] = Rename(t)
            \/ S[i] = Rename(t) /\ Fresh(S, i + 1)

(* The first statement of a batch.                                          *)
LEMMA BatchBegins ==
    ASSUME NEW s, NEW t, t \in Batched, NEW gone, NEW added,
           s = [op |-> "recreate", table |-> t, gone |-> gone, added |-> added]
    PROVE  IsRecreate(s) /\ s.table = t
  BY DEF IsRecreate

(* A script of one steady statement is well formed.                         *)
LEMMA OneStatement == ASSUME NEW s, Steady(s) PROVE WellFormed(<<s>>)
  BY DEF WellFormed, Fresh

(* So is a batch, alone or followed by another.                             *)
LEMMA OneBatch ==
    ASSUME NEW t \in Batched, NEW gone, NEW added
    PROVE  WellFormed(Batch(t, gone, added))
<1> DEFINE S == Batch(t, gone, added)
<1>1. /\ Len(S) = 4 /\ IsRecreate(S[1]) /\ S[1].table = t
      /\ S[2] = Copy(t) /\ S[3] = Drop(t) /\ S[4] = Rename(t)
  BY DEF Batch, IsRecreate, Copy, Drop, Rename
<1> HIDE DEF S
<1>2. \A i \in 1..Len(S) : i = 1 \/ i = 2 \/ i = 3 \/ i = 4
  BY <1>1
<1> QED BY <1>1, <1>2 DEF WellFormed, Fresh, S

(* ... each at its place.                                                   *)
LEMMA TwoBatches ==
    ASSUME NEW t \in Batched, NEW gone, NEW added, NEW u \in Batched, NEW lost, NEW found
    PROVE  WellFormed(Batch(t, gone, added) \o Batch(u, lost, found))
<1> DEFINE S == Batch(t, gone, added) \o Batch(u, lost, found)
<1>1. /\ Len(S) = 8 /\ IsRecreate(S[1]) /\ S[1].table = t /\ IsRecreate(S[5]) /\ S[5].table = u
      /\ S[2] = Copy(t) /\ S[3] = Drop(t) /\ S[4] = Rename(t)
      /\ S[6] = Copy(u) /\ S[7] = Drop(u) /\ S[8] = Rename(u)
  <2>1. /\ Len(S) = 8
        /\ S[1] = [op |-> "recreate", table |-> t, gone |-> gone, added |-> added]
        /\ S[5] = [op |-> "recreate", table |-> u, gone |-> lost, added |-> found]
        /\ S[2] = Copy(t) /\ S[3] = Drop(t) /\ S[4] = Rename(t)
        /\ S[6] = Copy(u) /\ S[7] = Drop(u) /\ S[8] = Rename(u)
    BY DEF Batch, Copy, Drop, Rename
  <2> HIDE DEF S
  <2> QED BY <2>1, BatchBegins
<1> HIDE DEF S
<1>2. \A i \in 1..Len(S) : i = 1 \/ i = 2 \/ i = 3 \/ i = 4 \/ i = 5 \/ i = 6 \/ i = 7 \/ i = 8
  BY <1>1
<1>3. Fresh(S, 1) /\ Fresh(S, 5) /\ Fresh(S, 9)
  BY <1>1 DEF Fresh
<1>4. ASSUME NEW i \in 1..Len(S)
      PROVE  \/ Steady(S[i]) /\ Fresh(S, i + 1)
             \/ i < Len(S) /\ IsRecreate(S[i]) /\ S[i + 1] = Copy(S[i].table)
             \/ \E x \in Batched :
                 \/ i < Len(S) /\ S[i] = Copy(x) /\ S[i + 1] = Drop(x)
                 \/ i < Len(S) /\ S[i] = Drop(x) /\ S[i + 1] = Rename(x)
                 \/ S[i] = Rename(x) /\ Fresh(S, i + 1)
  <2>1. CASE i \in 1..4
    BY <2>1, <1>1, <1>3
  <2>2. CASE i \in 5..8
    BY <2>2, <1>1, <1>3
  <2> QED BY <2>1, <2>2, <1>2
<1>5. Len(S) \in 1..8
  BY <1>1
<1> QED BY <1>3, <1>4, <1>5 DEF WellFormed, S

(* Every upgrade is well formed.                                            *)
LEMMA UpgradesWellFormed ==
    /\ HeadRevision = 9
    /\ \A v \in 1..9 : WellFormed(Upgrades[v])
<1>1. Len(Upgrades) = 9
  BY DEF Upgrades
<1>2. WellFormed(Upgrades[1])
  <2> DEFINE S == Upgrades[1]
  <2>1. Len(S) = 4 /\ Steady(S[1]) /\ Steady(S[2]) /\ Steady(S[3]) /\ Steady(S[4])
    <3>1. \A t \in DOMAIN Models : \A cols : Steady(Create(t, cols))
      BY DEF Steady
    <3>2. {"products", "users", "orders", "order_products"} \subseteq DOMAIN Models
      BY DEF Models
    <3> QED BY <3>1, <3>2 DEF Upgrades, CreateInitial
  <2> HIDE DEF S
  <2>2. \A i \in 1..Len(S) : i = 1 \/ i = 2 \/ i = 3 \/ i = 4
    BY <2>1
  <2> QED BY <2>1, <2>2 DEF WellFormed, Fresh, S
<1>3. WellFormed(Upgrades[2])
  <2> DEFINE S == Upgrades[2]
  <2>1. /\ Len(S) = 5 /\ IsRecreate(S[1]) /\ S[1].table = "orders" /\ Steady(S[5])
        /\ S[2] = Copy("orders") /\ S[3] = Drop("orders") /\ S[4] = Rename("orders")
    <3>1. /\ Len(S) = 5 /\ S[5] = DropIfExists("users")
          /\ S[1] = [op |-> "recreate", table |-> "orders", gone |-> {"user_id"}, added |-> {}]
          /\ S[2] = Copy("orders") /\ S[3] = Drop("orders") /\ S[4] = Rename("orders")
      BY DEF Upgrades, RemoveUsersTable, Batch, Copy, Drop, Rename
    <3>2. "users" \in DOMAIN Models \ Batched /\ "orders" \in Batched
      BY DEF Models, Batched
    <3> HIDE DEF S
    <3>3. IsRecreate(S[1]) /\ S[1].table = "orders"
      BY <3>1, <3>2, BatchBegins
    <3>4. Steady(S[5])
      BY <3>1, <3>2 DEF Steady
    <3> QED BY <3>1, <3>3, <3>4
  <2> HIDE DEF S
  <2>2. \A i \in 1..Len(S) : i = 1 \/ i = 2 \/ i = 3 \/ i = 4 \/ i = 5
    BY <2>1
  <2>3. "orders" \in Batched
    BY DEF Batched
  <2> QED BY <2>1, <2>2, <2>3 DEF WellFormed, Fresh, S
<1>4. WellFormed(Upgrades[3])
  BY OneBatch DEF Upgrades, AddCreatedAt, Batched
<1>5. WellFormed(Upgrades[4])
  BY OneStatement DEF Upgrades, AddUsersTable, Steady, Models
<1>6. WellFormed(Upgrades[5])
  BY OneStatement DEF Upgrades, AddIdempotencyKeysTable, Steady, Models
<1>7. WellFormed(Upgrades[6])
  BY OneStatement DEF Upgrades, AddPasswordHash, Steady, Models
<1>8. WellFormed(Upgrades[7])
  BY OneStatement DEF Upgrades, AddUserId, Steady, Models
<1>9. WellFormed(Upgrades[8])
  BY OneStatement DEF Upgrades, CreateRevokedTokens, Steady, Models
<1>10. WellFormed(Upgrades[9])
  BY TwoBatches DEF Upgrades, FloatToNumeric, Prices, Totals, Batched
<1> QED BY <1>1, <1>2, <1>3, <1>4, <1>5, <1>6, <1>7, <1>8, <1>9, <1>10 DEF HeadRevision

(* Every downgrade but that of the first revision is well formed.           *)
LEMMA DowngradesWellFormed == \A v \in 2..9 : WellFormed(Downgrades[v])
<1>2. WellFormed(Downgrades[2])
  <2> DEFINE S == Downgrades[2]
  <2>1. /\ Len(S) = 5 /\ IsRecreate(S[2]) /\ S[2].table = "orders" /\ Steady(S[1])
        /\ S[3] = Copy("orders") /\ S[4] = Drop("orders") /\ S[5] = Rename("orders")
    <3>1. /\ Len(S) = 5 /\ S[1] = Create("users", {Key("id")} \union Plain({"role"}))
          /\ S[2] = [op |-> "recreate", table |-> "orders", gone |-> {}, added |-> Plain({"user_id"})]
          /\ S[3] = Copy("orders") /\ S[4] = Drop("orders") /\ S[5] = Rename("orders")
      BY DEF Downgrades, RestoreUsersTable, Batch, Copy, Drop, Rename
    <3>2. "users" \in DOMAIN Models /\ "orders" \in Batched
      BY DEF Models, Batched
    <3> HIDE DEF S
    <3>3. IsRecreate(S[2]) /\ S[2].table = "orders"
      BY <3>1, <3>2, BatchBegins
    <3>4. Steady(S[1])
      BY <3>1, <3>2 DEF Steady
    <3> QED BY <3>1, <3>3, <3>4
  <2> HIDE DEF S
  <2>2. \A i \in 1..Len(S) : i = 1 \/ i = 2 \/ i = 3 \/ i = 4 \/ i = 5
    BY <2>1
  <2>3. "orders" \in Batched
    BY DEF Batched
  <2> QED BY <2>1, <2>2, <2>3 DEF WellFormed, Fresh, S
<1>3. WellFormed(Downgrades[3])
  BY OneBatch DEF Downgrades, DropCreatedAt, Batched
<1>4. WellFormed(Downgrades[4]) /\ WellFormed(Downgrades[5]) /\ WellFormed(Downgrades[8])
  <2>1. {"users", "idempotency_keys", "revoked_tokens"} \subseteq DOMAIN Models \ Batched
    BY DEF Models, Batched
  <2>2. /\ Downgrades[4] = <<Drop("users")>> /\ Downgrades[5] = <<Drop("idempotency_keys")>>
        /\ Downgrades[8] = <<Drop("revoked_tokens")>>
    BY DEF Downgrades
  <2>3. Steady(Drop("users")) /\ Steady(Drop("idempotency_keys")) /\ Steady(Drop("revoked_tokens"))
    BY <2>1 DEF Steady
  <2> QED BY <2>2, <2>3, OneStatement
<1>5. WellFormed(Downgrades[6])
  BY OneStatement DEF Downgrades, DropPasswordHash, Steady, Models
<1>6. WellFormed(Downgrades[7])
  BY OneStatement DEF Downgrades, DropUserId, Steady, Models
<1>7. WellFormed(Downgrades[9])
  BY TwoBatches DEF Downgrades, NumericToFloat, Prices, Totals, Batched
<1> QED BY <1>2, <1>3, <1>4, <1>5, <1>6, <1>7

(* The first revision, up and down: no statement of it opens a transaction. *)
LEMMA FirstRevision ==
    /\ Len(Upgrades[1]) = 4 /\ \A i \in 1..4 : \E t, cols : Upgrades[1][i] = Create(t, cols)
    /\ Upgrades[1][1].table = "products" /\ Upgrades[1][3].table = "orders"
    /\ Downgrades[1] = << Drop("order_products"), Drop("orders"), Drop("users"), Drop("products") >>
<1>1. Downgrades[1] = DropInitial /\ Upgrades[1] = CreateInitial
  BY DEF Downgrades, Upgrades
<1>2. Len(CreateInitial) = 4
  BY DEF CreateInitial
<1>3. \A i \in 1..4 : i = 1 \/ i = 2 \/ i = 3 \/ i = 4
  OBVIOUS
<1>4. \A i \in 1..4 : \E t, cols : CreateInitial[i] = Create(t, cols)
  BY <1>3 DEF CreateInitial
<1>5. CreateInitial[1].table = "products" /\ CreateInitial[3].table = "orders"
  BY DEF CreateInitial, Create
<1> QED BY <1>1, <1>2, <1>4, <1>5 DEF DropInitial

-----------------------------------------------------------------------------
(* The statements.  A table is a record of its columns and its rows.        *)
Shape(d) == \A t \in DOMAIN d : d[t] = [cols |-> d[t].cols, rows |-> d[t].rows]

Tables(d) == Shape(d) /\ TablesOK(d)

(* The names of the temporary tables are names of no other.                 *)
LEMMA TableNaming ==
    /\ Batched \subseteq DOMAIN Models
    /\ \A t \in Batched : Tmp(t) \in TableNames /\ Tmp(t) \notin DOMAIN Models
    /\ \A t, u \in Batched : Tmp(t) = Tmp(u) => t = u
    /\ DOMAIN Models \subseteq TableNames
<1>1. /\ "orders" \in DOMAIN Models /\ "products" \in DOMAIN Models
      /\ Tmp("orders") \notin DOMAIN Models /\ Tmp("products") \notin DOMAIN Models
      /\ Tmp("orders") # Tmp("products")
  BY DEF Models, Tmp
<1> QED BY <1>1 DEF Batched, TableNames

(* A statement outside the batches keeps the rows of both tables.           *)
LEMMA SteadyEffect ==
    ASSUME NEW d, Tables(d), NEW s, Steady(s), Succeeds(s, d), NEW e, e = Effect(s, d)
    PROVE  /\ Tables(e)
           /\ \A t \in Batched : RowsOf(e, t) = RowsOf(d, t) /\ (t \in DOMAIN d => t \in DOMAIN e)
<1>1. ASSUME NEW t \in DOMAIN Models, NEW cols, s = Create(t, cols)
      PROVE  /\ Tables(e)
             /\ \A u \in Batched : RowsOf(e, u) = RowsOf(d, u) /\ (u \in DOMAIN d => u \in DOMAIN e)
  <2>1. t \notin DOMAIN d /\ e = With(d, t, Table(cols))
    BY <1>1 DEF Succeeds, Effect, Create
  <2>2. /\ DOMAIN e = DOMAIN d \union {t}
        /\ e[t] = [cols |-> cols, rows |-> {}]
        /\ \A u \in DOMAIN d : e[u] = d[u]
    BY <2>1 DEF With, Table
  <2>3. {} \in Stored(t)
    BY DEF Stored
  <2>4. Tables(e)
    BY <2>2, <2>3, TableNaming DEF Tables, Shape, TablesOK
  <2> QED BY <2>1, <2>2, <2>4 DEF RowsOf
<1>2. ASSUME NEW t \in DOMAIN d, NEW cols, e = [d EXCEPT ![t].cols = cols]
      PROVE  /\ Tables(e)
             /\ \A u \in Batched : RowsOf(e, u) = RowsOf(d, u) /\ (u \in DOMAIN d => u \in DOMAIN e)
  <2>1. /\ DOMAIN e = DOMAIN d
        /\ e[t] = [cols |-> cols, rows |-> d[t].rows]
        /\ \A u \in DOMAIN d \ {t} : e[u] = d[u]
    BY <1>2 DEF Tables, Shape
  <2>2. Tables(e)
    BY <2>1 DEF Tables, Shape, TablesOK
  <2> QED BY <2>1, <2>2 DEF RowsOf
<1>3. ASSUME NEW t \in DOMAIN Models \ Batched, e = Less(d, t)
      PROVE  /\ Tables(e)
             /\ \A u \in Batched : RowsOf(e, u) = RowsOf(d, u) /\ (u \in DOMAIN d => u \in DOMAIN e)
  <2>1. DOMAIN e = DOMAIN d \ {t} /\ \A u \in DOMAIN e : e[u] = d[u]
    BY <1>3 DEF Less
  <2>2. Tables(e)
    BY <2>1 DEF Tables, Shape, TablesOK
  <2> QED BY <2>1, <2>2, <1>3 DEF RowsOf
<1>4. CASE \E t \in DOMAIN Models : \E col : s = AddColumn(t, col)
  <2>0. PICK t \in DOMAIN Models : \E col : s = AddColumn(t, col)
    BY <1>4
  <2>1. PICK col : s = AddColumn(t, col)
    BY <2>0
  <2>2. t \in DOMAIN d /\ e = [d EXCEPT ![t].cols = d[t].cols \union {col}]
    BY <2>1 DEF Succeeds, Effect, AddColumn
  <2> QED BY <2>2, <1>2
<1>5. CASE \E t \in DOMAIN Models : \E name : s = DropColumn(t, name)
  <2>0. PICK t \in DOMAIN Models : \E name : s = DropColumn(t, name)
    BY <1>5
  <2>1. PICK name : s = DropColumn(t, name)
    BY <2>0
  <2>2. t \in DOMAIN d /\ e = [d EXCEPT ![t].cols = Without(d[t].cols, {name})]
    BY <2>1 DEF Succeeds, Effect, DropColumn
  <2> QED BY <2>2, <1>2
<1>6. CASE \E t \in DOMAIN Models \ Batched : s = Drop(t) \/ s = DropIfExists(t)
  <2>1. PICK t \in DOMAIN Models \ Batched : s = Drop(t) \/ s = DropIfExists(t)
    BY <1>6
  <2>2. CASE s = Drop(t)
    BY <2>2, <1>3 DEF Effect, Drop
  <2>3. CASE s = DropIfExists(t)
    BY <2>3, <1>3 DEF Effect, DropIfExists
  <2> QED BY <2>1, <2>2, <2>3
<1> QED BY <1>1, <1>4, <1>5, <1>6 DEF Steady

-----------------------------------------------------------------------------
(* A revision on its way: v is the revision it began at, i the next of its  *)
(* statements, b whether its transaction is open, D the tables on disk and  *)
(* d the tables it sees.                                                    *)
Same(D, d, t) == RowsOf(d, t) = RowsOf(D, t) /\ (t \in DOMAIN D => t \in DOMAIN d)

(* A copy of the rows of t is in its temporary table.                       *)
Copied(D, d, t) == Tmp(t) \in DOMAIN d /\ d[Tmp(t)].rows = RowsOf(D, t)

Due(s, D, d, b, t) ==
    /\ Same(D, d, t) \/ s = Rename(t)
    /\ s = Copy(t) => t \in DOMAIN d /\ Tmp(t) \in DOMAIN d
    /\ s = Drop(t) => b /\ Copied(D, d, t)
    /\ s = Rename(t) => b /\ Copied(D, d, t) /\ t \notin DOMAIN d

Aligned(S, i, D, d, b) ==
    \A t \in Batched : IF i > Len(S) THEN Same(D, d, t) ELSE Due(S[i], D, d, b, t)

(* A statement outside the batches, or the first of one, is no inner one.   *)
LEMMA NoInnerStatement ==
    ASSUME NEW s, Steady(s) \/ IsRecreate(s), NEW t \in Batched
    PROVE  s # Copy(t) /\ s # Drop(t) /\ s # Rename(t)
<1>1. CASE IsRecreate(s)
  BY <1>1 DEF IsRecreate, Copy, Drop, Rename
<1>2. CASE \E u \in DOMAIN Models : \E cols : s = Create(u, cols)
  BY <1>2 DEF Create, Copy, Drop, Rename
<1>3. CASE \E u \in DOMAIN Models : \E col : s = AddColumn(u, col)
  BY <1>3 DEF AddColumn, Copy, Drop, Rename
<1>4. CASE \E u \in DOMAIN Models : \E name : s = DropColumn(u, name)
  BY <1>4 DEF DropColumn, Copy, Drop, Rename
<1>5. CASE \E u \in DOMAIN Models \ Batched : s = Drop(u) \/ s = DropIfExists(u)
  <2>1. PICK u \in DOMAIN Models \ Batched : s = Drop(u) \/ s = DropIfExists(u)
    BY <1>5
  <2>2. s.table = u /\ s.op # "copy" /\ s.op # "rename"
    <3>1. CASE s = Drop(u)
      BY <3>1 DEF Drop
    <3>2. CASE s = DropIfExists(u)
      BY <3>2 DEF DropIfExists
    <3> QED BY <2>1, <3>1, <3>2
  <2>3. Copy(t).op = "copy" /\ Rename(t).op = "rename" /\ Drop(t).table = t
    BY DEF Copy, Drop, Rename
  <2> QED BY <2>2, <2>3
<1> QED BY <1>1, <1>2, <1>3, <1>4, <1>5 DEF Steady

(* The inner statements of the batches of the two tables are not alike.     *)
LEMMA InnerStatements ==
    \A t, u \in Batched :
        /\ Copy(t) # Drop(u) /\ Copy(t) # Rename(u) /\ Drop(t) # Rename(u)
        /\ Copy(t) = Copy(u) \/ Drop(t) = Drop(u) \/ Rename(t) = Rename(u) => t = u
<1>1. \A t : /\ Copy(t).op = "copy" /\ Drop(t).op = "drop" /\ Rename(t).op = "rename"
             /\ Copy(t).table = t /\ Drop(t).table = t /\ Rename(t).table = t
  BY DEF Copy, Drop, Rename
<1> QED BY <1>1

(* Where no batch is under way both tables are as they are on disk.         *)
LEMMA FreshIsAligned ==
    ASSUME NEW S, NEW i, Fresh(S, i), NEW D, NEW d, NEW b, \A t \in Batched : Same(D, d, t)
    PROVE  Aligned(S, i, D, d, b)
<1>1. ASSUME NEW t \in Batched, ~(i > Len(S))
      PROVE  Due(S[i], D, d, b, t)
  BY <1>1, NoInnerStatement DEF Fresh, Due
<1> QED BY <1>1 DEF Aligned

(* The statements of a batch: the temporary table, without rows, ...        *)
LEMMA RecreateEffect ==
    ASSUME NEW d, Tables(d), NEW s, IsRecreate(s), Succeeds(s, d), NEW e, e = Effect(s, d)
    PROVE  /\ Tables(e) /\ s.table \in Batched
           /\ \A t \in Batched : Same(d, e, t)
           /\ s.table \in DOMAIN e /\ Tmp(s.table) \in DOMAIN e
<1>0. PICK t \in Batched : \E gone, added :
        s = [op |-> "recreate", table |-> t, gone |-> gone, added |-> added]
  BY DEF IsRecreate
<1>1. PICK gone, added : s = [op |-> "recreate", table |-> t, gone |-> gone, added |-> added]
  BY <1>0
<1>2. s.table = t /\ t \in DOMAIN d /\ Tmp(t) \notin DOMAIN d
  BY <1>1 DEF Succeeds
<1>3. PICK cols : e = With(d, Tmp(t), Table(cols))
  BY <1>1 DEF Effect
<1>4. /\ DOMAIN e = DOMAIN d \union {Tmp(t)}
      /\ e[Tmp(t)] = [cols |-> cols, rows |-> {}]
      /\ \A u \in DOMAIN d : e[u] = d[u]
  BY <1>2, <1>3 DEF With, Table
<1>5. Tables(e)
  BY <1>4, TableNaming DEF Tables, Shape, TablesOK
<1>6. \A u \in Batched : Same(d, e, u)
  BY <1>4, TableNaming DEF Same, RowsOf
<1> QED BY <1>2, <1>4, <1>5, <1>6

(* ... the copy of the rows to it, ...                                      *)
LEMMA CopyEffect ==
    ASSUME NEW d, Tables(d), NEW t \in Batched, t \in DOMAIN d, Tmp(t) \in DOMAIN d,
           NEW e, e = Effect(Copy(t), d)
    PROVE  /\ Tables(e) /\ Copied(d, e, t)
           /\ \A u \in Batched : Same(d, e, u)
<1>1. e = [d EXCEPT ![Tmp(t)].rows = d[t].rows]
  BY DEF Effect, Copy
<1>2. /\ DOMAIN e = DOMAIN d
      /\ e[Tmp(t)] = [cols |-> d[Tmp(t)].cols, rows |-> d[t].rows]
      /\ \A u \in DOMAIN d \ {Tmp(t)} : e[u] = d[u]
  BY <1>1 DEF Tables, Shape
<1>3. Tables(e)
  BY <1>2, TableNaming DEF Tables, Shape, TablesOK
<1> QED BY <1>2, <1>3, TableNaming DEF Same, Copied, RowsOf

(* ... the end of the old table ...                                         *)
LEMMA DropEffect ==
    ASSUME NEW d, Tables(d), NEW t \in DOMAIN Models, NEW e, e = Less(d, t)
    PROVE  /\ Tables(e) /\ t \notin DOMAIN e
           /\ \A u \in Batched \ {t} : Same(d, e, u)
           /\ \A u \in Batched : Tmp(u) \in DOMAIN d => Tmp(u) \in DOMAIN e /\ e[Tmp(u)] = d[Tmp(u)]
           /\ \A u \in Batched : RowsOf(e, u) = RowsOf(d, u) \/ RowsOf(e, u) = {}
<1>1. DOMAIN e = DOMAIN d \ {t} /\ \A u \in DOMAIN e : e[u] = d[u]
  BY DEF Less
<1>2. Tables(e)
  BY <1>1 DEF Tables, Shape, TablesOK
<1> QED BY <1>1, <1>2, TableNaming DEF Same, RowsOf

(* ... and the temporary one under its name.                                *)
LEMMA RenameEffect ==
    ASSUME NEW d, Tables(d), NEW t \in Batched, Tmp(t) \in DOMAIN d, d[Tmp(t)].rows \in Stored(t),
           NEW e, e = Effect(Rename(t), d)
    PROVE  /\ Tables(e) /\ t \in DOMAIN e /\ e[t].rows = d[Tmp(t)].rows
           /\ \A u \in Batched \ {t} : Same(d, e, u)
<1>1. e = Less(With(d, t, d[Tmp(t)]), Tmp(t))
  BY DEF Effect, Rename
<1>2. t # Tmp(t)
  BY TableNaming
<1>3. /\ DOMAIN e = (DOMAIN d \union {t}) \ {Tmp(t)}
      /\ e[t] = d[Tmp(t)]
      /\ \A u \in DOMAIN e \ {t} : e[u] = d[u]
  BY <1>1, <1>2 DEF Less, With
<1>4. Tables(e)
  BY <1>3, TableNaming DEF Tables, Shape, TablesOK
<1> QED BY <1>2, <1>3, <1>4, TableNaming DEF Same, RowsOf

(* A statement of a well-formed script: whatever it does, it brings the     *)
(* next one what that needs, and outside the transaction it keeps the rows. *)
LEMMA StatementKeeps ==
    ASSUME NEW S, WellFormed(S), NEW i \in 1..Len(S), NEW D, Tables(D), NEW d, Tables(d),
           NEW b \in BOOLEAN, Aligned(S, i, D, d, b), b \/ d = D,
           Succeeds(S[i], d), NEW e, e = Effect(S[i], d)
    PROVE  /\ Tables(e)
           /\ S[i].op = "copy" \/ b => Aligned(S, i + 1, D, e, TRUE)
           /\ ~(S[i].op = "copy" \/ b) =>
                Aligned(S, i + 1, e, e, FALSE) /\ \A t \in Batched : Same(D, e, t)
<1> DEFINE Goal == /\ Tables(e)
                   /\ S[i].op = "copy" \/ b => Aligned(S, i + 1, D, e, TRUE)
                   /\ ~(S[i].op = "copy" \/ b) =>
                        Aligned(S, i + 1, e, e, FALSE) /\ \A t \in Batched : Same(D, e, t)
<1>0. i < Len(S) => ~(i + 1 > Len(S))
  BY DEF WellFormed
<1>1. \A t \in Batched : Due(S[i], D, d, b, t)
  BY DEF Aligned, WellFormed
<1>2. ASSUME NEW x, NEW y, NEW z, NEW t, Same(x, y, t), Same(y, z, t)
      PROVE  Same(x, z, t)
  BY <1>2 DEF Same
<1>3. \A t \in Batched : Same(e, e, t)
  BY DEF Same
<1>4. ASSUME Tables(e), \A t \in Batched : Same(D, e, t), Fresh(S, i + 1)
      PROVE  Goal
  BY <1>3, <1>4, FreshIsAligned
<1>5. ASSUME Steady(S[i]) \/ IsRecreate(S[i]) \/ \E t \in Batched : S[i] = Copy(t)
      PROVE  \A t \in Batched : Same(D, d, t)
  BY <1>1, <1>5, NoInnerStatement, InnerStatements DEF Due
<1>6. CASE Steady(S[i]) /\ Fresh(S, i + 1)
  <2>1. Tables(e) /\ \A t \in Batched : Same(d, e, t)
    BY <1>6, SteadyEffect DEF Same
  <2> QED BY <2>1, <1>2, <1>4, <1>5, <1>6
<1>7. CASE i < Len(S) /\ IsRecreate(S[i]) /\ S[i + 1] = Copy(S[i].table)
  <2>1. /\ Tables(e) /\ S[i].table \in Batched
        /\ \A t \in Batched : Same(d, e, t)
        /\ S[i].table \in DOMAIN e /\ Tmp(S[i].table) \in DOMAIN e
    BY <1>7, RecreateEffect
  <2>2. \A t \in Batched : Same(D, e, t)
    BY <2>1, <1>2, <1>5, <1>7
  <2>3. ASSUME NEW t \in Batched
        PROVE  Due(S[i + 1], D, e, TRUE, t) /\ Due(S[i + 1], e, e, FALSE, t)
    BY <2>1, <2>2, <1>3, <1>7, InnerStatements DEF Due
  <2> QED BY <2>1, <2>2, <2>3, <1>7, <1>0 DEF Aligned
<1>8. ASSUME NEW t \in Batched, i < Len(S), S[i] = Copy(t), S[i + 1] = Drop(t)
      PROVE  Goal
  <2>1. t \in DOMAIN d /\ Tmp(t) \in DOMAIN d /\ \A u \in Batched : Same(D, d, u)
    BY <1>1, <1>5, <1>8 DEF Due
  <2>2. Tables(e) /\ Copied(d, e, t) /\ \A u \in Batched : Same(d, e, u)
    BY <2>1, <1>8, CopyEffect
  <2>3. Copied(D, e, t) /\ \A u \in Batched : Same(D, e, u)
    BY <2>1, <2>2, <1>2 DEF Copied, Same
  <2>4. ASSUME NEW u \in Batched
        PROVE  Due(S[i + 1], D, e, TRUE, u)
    BY <2>3, <1>8, InnerStatements DEF Due
  <2>5. S[i].op = "copy"
    BY <1>8 DEF Copy
  <2> QED BY <2>2, <2>4, <2>5, <1>8, <1>0 DEF Aligned
<1>9. ASSUME NEW t \in Batched, i < Len(S), S[i] = Drop(t), S[i + 1] = Rename(t)
      PROVE  Goal
  <2>1. b /\ Copied(D, d, t) /\ \A u \in Batched : Same(D, d, u)
    BY <1>1, <1>9, InnerStatements DEF Due
  <2>2. e = Less(d, t) /\ t \in DOMAIN Models
    BY <1>9, TableNaming DEF Effect, Drop
  <2>3. /\ Tables(e) /\ t \notin DOMAIN e /\ Copied(D, e, t)
        /\ \A u \in Batched \ {t} : Same(d, e, u)
    BY <2>1, <2>2, DropEffect DEF Copied
  <2>4. ASSUME NEW u \in Batched
        PROVE  Due(S[i + 1], D, e, TRUE, u)
    <3>1. u # t => Same(D, e, u) /\ Rename(t) # Rename(u)
      BY <2>1, <2>3, <1>2, InnerStatements
    <3> QED BY <2>3, <3>1, <1>9, InnerStatements DEF Due
  <2> QED BY <2>1, <2>3, <2>4, <1>9, <1>0 DEF Aligned
<1>10. ASSUME NEW t \in Batched, S[i] = Rename(t), Fresh(S, i + 1)
       PROVE  Goal
  <2>1. b /\ Copied(D, d, t) /\ t \notin DOMAIN d /\ \A u \in Batched \ {t} : Same(D, d, u)
    BY <1>1, <1>10, InnerStatements DEF Due
  <2>2. d[Tmp(t)].rows \in Stored(t)
    <3>1. {} \in Stored(t)
      BY DEF Stored
    <3>2. t \in DOMAIN D => D[t].rows \in Stored(t)
      BY TableNaming DEF Tables, TablesOK
    <3> QED BY <2>1, <3>1, <3>2 DEF Copied, RowsOf
  <2>3. /\ Tables(e) /\ t \in DOMAIN e /\ e[t].rows = d[Tmp(t)].rows
        /\ \A u \in Batched \ {t} : Same(d, e, u)
    BY <2>1, <2>2, <1>10, RenameEffect DEF Copied
  <2>4. Same(D, e, t)
    BY <2>1, <2>3 DEF Same, Copied, RowsOf
  <2>5. \A u \in Batched : Same(D, e, u)
    BY <2>1, <2>3, <2>4, <1>2
  <2> QED BY <2>3, <2>5, <1>4, <1>10
<1> QED BY <1>6, <1>7, <1>8, <1>9, <1>10 DEF WellFormed

-----------------------------------------------------------------------------
(* The two tables at rest: from revision 2 on both are there; at revision 1 *)
(* a downgrade that was cut off may have left only the products, or none.   *)
Sound(v, D) ==
    /\ v \in 0..HeadRevision /\ Tables(D)
    /\ v >= 2 => Batched \subseteq DOMAIN D
    /\ v = 1 /\ "orders" \in DOMAIN D => "products" \in DOMAIN D

Revision(up, v) == IF up THEN Upgrades[v + 1] ELSE Downgrades[v]

(* The one revision whose downgrade drops the tables.                       *)
Drops(up, v) == ~up /\ v = 1

Underway(up, v, i, b, D, d) ==
    /\ IF up THEN v < HeadRevision ELSE v > 0
    /\ b \in BOOLEAN /\ i \in 1..Len(Revision(up, v)) + 1
    /\ i = 1 => ~b
    /\ Tables(d) /\ (b \/ d = D)
    /\ ~Drops(up, v) => Aligned(Revision(up, v), i, D, d, b)
    /\ Drops(up, v) => ~b /\ (i >= 3 => "orders" \notin DOMAIN D)
    /\ up /\ v = 0 => ~b /\ (i >= 2 => "products" \in DOMAIN D)
    /\ up /\ v = 1 /\ i >= 2 => "orders" \in DOMAIN D

(* No statement that goes to disk takes a row, but for that one revision's. *)
Spares(up, v, D, e) ==
    \A t \in Batched : RowsOf(e, t) = RowsOf(D, t) \/ (Drops(up, v) /\ RowsOf(e, t) = {})

(* Every script but one is well formed, and that one drops four tables.     *)
LEMMA Scripts ==
    ASSUME NEW up \in BOOLEAN, NEW v \in Nat, IF up THEN v < HeadRevision ELSE v \in 1..HeadRevision
    PROVE  /\ Len(Revision(up, v)) \in 1..8
           /\ ~Drops(up, v) => WellFormed(Revision(up, v))
           /\ Drops(up, v) => Revision(up, v) = << Drop("order_products"), Drop("orders"),
                                                   Drop("users"), Drop("products") >>
<1>1. HeadRevision = 9
  BY UpgradesWellFormed
<1>2. CASE up
  <2>1. v + 1 \in 1..9
    BY <1>1, <1>2
  <2> QED BY <2>1, <1>2, UpgradesWellFormed DEF Revision, Drops, WellFormed
<1>3. CASE ~up /\ v = 1
  <2>1. Revision(up, v) = Downgrades[1]
    BY <1>3 DEF Revision
  <2>2. Len(Downgrades[1]) = 4
    BY FirstRevision
  <2> QED BY <2>1, <2>2, <1>3, FirstRevision DEF Drops
<1>4. CASE ~up /\ v # 1
  <2>1. v \in 2..9
    BY <1>1, <1>4
  <2> QED BY <2>1, <1>4, DowngradesWellFormed DEF Revision, Drops, WellFormed
<1> QED BY <1>2, <1>3, <1>4

(* A revision begins with what is on disk.                                  *)
LEMMA RevisionBegins ==
    ASSUME NEW up \in BOOLEAN, NEW v, NEW D, Sound(v, D),
           IF up THEN v < HeadRevision ELSE v > 0
    PROVE  Underway(up, v, 1, FALSE, D, D)
<1>1. /\ Len(Revision(up, v)) \in 1..8
      /\ ~Drops(up, v) => WellFormed(Revision(up, v))
  BY Scripts, UpgradesWellFormed DEF Sound
<1>2. ~Drops(up, v) => Aligned(Revision(up, v), 1, D, D, FALSE)
  BY <1>1, FreshIsAligned DEF WellFormed, Same
<1>3. 1 \in 1..Len(Revision(up, v)) + 1 /\ FALSE \in BOOLEAN
  BY <1>1
<1>4. Tables(D)
  BY DEF Sound
<1>5. ~(1 >= 3) /\ ~(1 >= 2)
  OBVIOUS
<1> QED BY <1>2, <1>3, <1>4, <1>5 DEF Underway

(* A statement in the transaction leaves the disk as it is; what it sees    *)
(* goes on.  One outside it goes to disk, and keeps the rows unless the     *)
(* revision drops the tables.                                               *)
LEMMA StatementGoesOn ==
    ASSUME NEW up \in BOOLEAN, NEW v, NEW i, NEW b, NEW D, NEW d,
           Sound(v, D), Underway(up, v, i, b, D, d), i <= Len(Revision(up, v)),
           Succeeds(Revision(up, v)[i], d)
    PROVE  LET s == Revision(up, v)[i]
               e == Effect(s, d)
           IN  /\ s.op = "copy" \/ b = TRUE => Underway(up, v, i + 1, TRUE, D, e)
               /\ s.op # "copy" /\ b = FALSE => Underway(up, v, i + 1, FALSE, e, e) /\ Sound(v, e)
               /\ s.op # "copy" /\ b = FALSE => Spares(up, v, D, e)
<1> PICK s : s = Revision(up, v)[i]
  OBVIOUS
<1> PICK e : e = Effect(s, d)
  OBVIOUS
<1>0. Succeeds(s, d)
  OBVIOUS
<1> SUFFICES /\ s.op = "copy" \/ b = TRUE => Underway(up, v, i + 1, TRUE, D, e)
             /\ s.op # "copy" /\ b = FALSE => Underway(up, v, i + 1, FALSE, e, e) /\ Sound(v, e)
             /\ s.op # "copy" /\ b = FALSE => Spares(up, v, D, e)
  OBVIOUS
<1> DEFINE S == Revision(up, v)
<1>1. /\ v \in 0..9 /\ HeadRevision = 9 /\ Len(S) \in 1..8
      /\ ~Drops(up, v) => WellFormed(S)
      /\ Drops(up, v) => S = << Drop("order_products"), Drop("orders"), Drop("users"), Drop("products") >>
  BY Scripts, UpgradesWellFormed DEF Sound, Underway
<1>2. /\ b \in BOOLEAN /\ i \in 1..Len(S) /\ Tables(D) /\ Tables(d) /\ (b \/ d = D)
      /\ ~Drops(up, v) => Aligned(S, i, D, d, b)
  BY <1>1 DEF Underway, Sound
<1>3. CASE Drops(up, v)
  <2>1. ~b /\ d = D /\ v = 1 /\ ~up /\ (i >= 3 => "orders" \notin DOMAIN D)
    BY <1>2, <1>3 DEF Underway, Drops
  <2>2. /\ {"order_products", "orders", "users", "products"} \subseteq DOMAIN Models
        /\ Batched = {"orders", "products"}
    BY DEF Models, Batched
  <2>3. PICK t \in {"order_products", "orders", "users", "products"} :
          /\ s = Drop(t)
          /\ \/ i = 1 /\ t = "order_products"
             \/ i = 2 /\ t = "orders"
             \/ i = 3 /\ t = "users"
             \/ i = 4 /\ t = "products"
    <3>1. S[1] = Drop("order_products") /\ S[2] = Drop("orders")
            /\ S[3] = Drop("users") /\ S[4] = Drop("products") /\ Len(S) = 4
      BY <1>1, <1>3
    <3> HIDE DEF S
    <3>2. s = S[i]
      BY DEF S
    <3>3. i = 1 \/ i = 2 \/ i = 3 \/ i = 4
      BY <3>1, <1>2
    <3> QED BY <3>1, <3>2, <3>3
  <2>4. /\ s = Drop(t) /\ i \in 1..4
        /\ i >= 2 => t # "order_products"
        /\ i = 2 => t = "orders"
        /\ t \in Batched => i >= 2
        /\ t = "products" => i = 4
    BY <2>2, <2>3
  <2>5. e = Less(d, t) /\ s.op = "drop"
    BY <2>4 DEF Effect, Drop
  <2>6. /\ Tables(e) /\ t \notin DOMAIN e
        /\ \A u \in Batched \ {t} : Same(d, e, u)
        /\ \A u \in Batched : RowsOf(e, u) = RowsOf(d, u) \/ RowsOf(e, u) = {}
    <3>1. t \in DOMAIN Models
      BY <2>2
    <3>2. Tables(d) /\ e = Less(d, t)
      BY <2>5, <1>2
    <3> QED BY <3>1, <3>2, DropEffect
  <2>7. DOMAIN e \subseteq DOMAIN d
    BY <2>5 DEF Less
  <2>8. "orders" \in DOMAIN e => "products" \in DOMAIN e
    BY <2>1, <2>2, <2>4, <2>6, <2>7 DEF Sound, Same
  <2>9. i + 1 >= 3 => "orders" \notin DOMAIN e
    BY <2>1, <2>4, <2>6, <2>7, <1>2
  <2> HIDE DEF S
  <2>10. i + 1 \in 1..Len(S) + 1 /\ i + 1 # 1
    BY <1>1, <1>2
  <2>11. Underway(up, v, i + 1, FALSE, e, e)
    <3>1. v > 0 /\ ~up /\ FALSE \in BOOLEAN
      BY <2>1
    <3> QED BY <2>6, <2>9, <2>10, <3>1, <1>3 DEF Underway
  <2>12. Sound(v, e)
    BY <2>1, <2>6, <2>8, <1>1 DEF Sound
  <2>13. \A u \in Batched : RowsOf(e, u) = RowsOf(D, u) \/ RowsOf(e, u) = {}
    BY <2>1, <2>6
  <2> QED BY <2>1, <2>5, <2>11, <2>12, <2>13, <1>3 DEF Spares
<1>4. CASE ~Drops(up, v)
  <2>1. /\ Tables(e)
        /\ s.op = "copy" \/ b => Aligned(S, i + 1, D, e, TRUE)
        /\ ~(s.op = "copy" \/ b) => Aligned(S, i + 1, e, e, FALSE) /\ \A t \in Batched : Same(D, e, t)
    <3> HIDE DEF S
    <3> QED BY <1>0, <1>1, <1>2, <1>4, StatementKeeps DEF S
  <2>2. up /\ v = 0 => /\ ~b /\ s.op # "copy"
                       /\ "products" \in DOMAIN e
    <3>1. SUFFICES ASSUME up, v = 0
                   PROVE  ~b /\ s.op # "copy" /\ "products" \in DOMAIN e
      OBVIOUS
    <3>2. ~b /\ d = D /\ (i >= 2 => "products" \in DOMAIN D)
      BY <3>1, <1>2 DEF Underway
    <3>3. S = Upgrades[1] /\ i \in 1..4
      BY <3>1, <1>2, FirstRevision DEF Revision
    <3>4. PICK t, cols : s = Create(t, cols)
      BY <3>3, FirstRevision
    <3>5. s.op = "create" /\ s.table = t /\ e = With(d, t, Table(cols))
      BY <3>4 DEF Effect, Create
    <3>6. i = 1 => t = "products"
      BY <3>3, <3>5, FirstRevision
    <3>7. DOMAIN e = DOMAIN d \union {t}
      BY <3>5 DEF With
    <3> QED BY <3>2, <3>3, <3>5, <3>6, <3>7
  <2>3. up /\ v = 1 => "orders" \in DOMAIN D
    <3>1. SUFFICES ASSUME up, v = 1, i = 1
                   PROVE  "orders" \in DOMAIN D
      BY <1>2 DEF Underway
    <3>2. s.op = "recreate" /\ s.table = "orders" /\ d = D
      BY <3>1, <1>2 DEF Underway, Revision, Upgrades, RemoveUsersTable, Batch
    <3> QED BY <1>0, <3>2 DEF Succeeds
  <2>4. ASSUME ~(s.op = "copy" \/ b)
        PROVE  Sound(v, e) /\ \A t \in Batched : Same(D, e, t)
    <3>1. \A t \in Batched : t \in DOMAIN D => t \in DOMAIN e
      BY <2>1, <2>4 DEF Same
    <3>2. Batched = {"orders", "products"}
      BY DEF Batched
    <3>3. v = 1 /\ "orders" \in DOMAIN e => "products" \in DOMAIN e
      <4>1. CASE up
        BY <4>1, <3>1, <3>2, <2>3 DEF Sound
      <4>2. CASE ~up
        BY <4>2, <1>4 DEF Drops
      <4> QED BY <4>1, <4>2
    <3> QED BY <2>1, <2>4, <3>1, <3>2, <3>3 DEF Sound
  <2>5. i + 1 \in 1..Len(S) + 1 /\ i + 1 # 1
    BY <1>1, <1>2
  <2>6. ASSUME s.op = "copy" \/ b
        PROVE  Underway(up, v, i + 1, TRUE, D, e)
    BY <2>1, <2>2, <2>3, <2>5, <2>6, <1>4 DEF Underway
  <2>7. ASSUME ~(s.op = "copy" \/ b)
        PROVE  Underway(up, v, i + 1, FALSE, e, e)
    <3>1. up /\ v = 1 => "orders" \in DOMAIN e
      BY <2>3, <2>4, <2>7 DEF Same, Batched
    <3> QED BY <2>1, <2>2, <2>5, <2>7, <3>1, <1>4 DEF Underway
  <2> QED BY <2>4, <2>6, <2>7 DEF Same, Spares
<1> QED BY <1>3, <1>4

(* At its end the tables it commits have the rows of those on disk.         *)
LEMMA RevisionCommits ==
    ASSUME NEW up \in BOOLEAN, NEW v, NEW i, NEW b, NEW D, NEW d,
           Sound(v, D), Underway(up, v, i, b, D, d), i > Len(Revision(up, v))
    PROVE  /\ Sound(IF up THEN v + 1 ELSE v - 1, d)
           /\ \A t \in Batched : Same(D, d, t)
<1>1. /\ v \in 0..9 /\ HeadRevision = 9 /\ Len(Revision(up, v)) \in 1..8
      /\ ~Drops(up, v) => WellFormed(Revision(up, v))
  BY Scripts, UpgradesWellFormed DEF Sound, Underway
<1>2. i >= 2 /\ i \in Nat
  <2>1. i \in 1..Len(Revision(up, v)) + 1
    BY DEF Underway
  <2> QED BY <2>1, <1>1
<1>3. \A t \in Batched : Same(D, d, t)
  <2>1. CASE Drops(up, v)
    BY <2>1 DEF Underway, Same
  <2>2. CASE ~Drops(up, v)
    <3>1. Aligned(Revision(up, v), i, D, d, b)
      BY <2>2 DEF Underway
    <3> QED BY <3>1 DEF Aligned
  <2> QED BY <2>1, <2>2
<1>4. \A t \in Batched : t \in DOMAIN D => t \in DOMAIN d
  BY <1>3 DEF Same
<1>5. Batched = {"orders", "products"} /\ Tables(d)
  BY DEF Batched, Underway
<1>6. CASE up
  <2>1. v < 9 /\ v + 1 \in 0..9
    BY <1>1, <1>6 DEF Underway
  <2>2. v = 0 => "products" \in DOMAIN d
    BY <1>2, <1>5, <1>6 DEF Underway
  <2>3. v >= 1 => Batched \subseteq DOMAIN D
    <3>1. v = 1 => "orders" \in DOMAIN D
      BY <1>2, <1>6 DEF Underway
    <3> QED BY <3>1, <1>1, <1>5 DEF Sound
  <2>4. v + 1 >= 2 => Batched \subseteq DOMAIN d
    BY <2>3, <1>1, <1>4
  <2>5. v + 1 = 1 => "products" \in DOMAIN d
    BY <2>2, <1>1
  <2> QED BY <2>1, <2>4, <2>5, <1>1, <1>3, <1>5, <1>6 DEF Sound
<1>7. CASE ~up
  <2>1. v > 0 /\ v - 1 \in 0..9
    BY <1>1, <1>7 DEF Underway
  <2>2. v >= 2 => Batched \subseteq DOMAIN d
    BY <1>1, <1>4 DEF Sound
  <2>3. (v - 1 >= 2 => v >= 2) /\ (v - 1 = 1 => v >= 2)
    BY <1>1
  <2> QED BY <2>1, <2>2, <2>3, <1>1, <1>3, <1>5, <1>7 DEF Sound
<1> QED BY <1>6, <1>7

-----------------------------------------------------------------------------
(* What holds of the revision, the tables and the transaction at any time.  *)
ServerStages ==
    {"connect", "count", "seed", "tasks", "serve", "await purge", "await worker", "disconnect"}

MigrationInv ==
    /\ pc \in Stages
    /\ db = [version |-> db.version, tables |-> db.tables]
    /\ Sound(db.version, db.tables) /\ Tables(work)
    /\ goal \in 0..HeadRevision /\ cut \in {"no", "up", "down"}
    /\ IF Migrating /\ Behind
       THEN Underway(pc = "upgrade", db.version, at, begun, db.tables, Seen)
       ELSE at = 1 /\ begun = FALSE
    /\ pc \in ServerStages => db.version = HeadRevision

(* What a step does to the rows of the orders and the products.             *)
RowsStep ==
    \A t \in Batched :
        \/ RowsOf(db'.tables, t) = RowsOf(db.tables, t)
        \/ pc = "downgrade" /\ db.version = 1 /\ RowsOf(db'.tables, t) = {}

(* A database that some release left is sound.                              *)
LEMMA MigrationStarts == MigrationInit => MigrationInv
<1> SUFFICES ASSUME MigrationInit PROVE MigrationInv
  OBVIOUS
<1>1. PICK v \in 0..HeadRevision, os \in SUBSET OrderRows, us \in SUBSET UserRows, ps \in {{}, Products \X {1}} :
        db = [version |-> v,
              tables |-> [t \in TablesOf(v) |->
                 [cols |-> ColumnsOf(t, v),
                  rows |-> CASE t = "orders" -> os [] t = "users" -> us [] t = "products" -> ps
                             [] OTHER -> {}]]]
  BY DEF MigrationInit
<1>2. HeadRevision = 9
  BY UpgradesWellFormed
<1>3. /\ db.version = v /\ DOMAIN db.tables = TablesOf(v)
      /\ db = [version |-> db.version, tables |-> db.tables]
  BY <1>1
<1> DEFINE rows(t) == CASE t = "orders" -> os [] t = "users" -> us [] t = "products" -> ps
                        [] OTHER -> {}
<1>4. \A t \in DOMAIN db.tables : db.tables[t] = [cols |-> ColumnsOf(t, v), rows |-> rows(t)]
  BY <1>1
<1>5. Tables(db.tables)
  <2>1. ASSUME NEW t
        PROVE  rows(t) \in Stored(t)
    <3>1. CASE t = "orders"
      BY <3>1 DEF Stored, AllRows
    <3>2. CASE t = "users"
      BY <3>2 DEF Stored, AllRows
    <3>3. CASE t = "products"
      <4>1. ps \subseteq Products \X {1, 2}
        OBVIOUS
      <4> QED BY <3>3, <4>1 DEF Stored, AllRows
    <3>4. CASE t \notin {"orders", "users", "products"}
      BY <3>4 DEF Stored, AllRows
    <3> QED BY <3>1, <3>2, <3>3, <3>4
  <2> HIDE DEF rows
  <2>2. ASSUME NEW t \in DOMAIN db.tables
        PROVE  /\ db.tables[t] = [cols |-> db.tables[t].cols, rows |-> db.tables[t].rows]
               /\ db.tables[t].rows \in Stored(t)
    <3>1. PICK c, r : db.tables[t] = [cols |-> c, rows |-> r] /\ r = rows(t)
      BY <1>4
    <3> QED BY <2>1, <3>1
  <2>3. DOMAIN db.tables \subseteq TableNames
    <3>1. TablesOf(v) \subseteq DOMAIN Models
      BY DEF TablesOf
    <3> QED BY <1>3, <3>1, TableNaming
  <2> QED BY <2>2, <2>3 DEF Tables, Shape, TablesOK
<1>6. v >= 1 => {"orders", "products"} \subseteq DOMAIN db.tables
  BY <1>2, <1>3, TableNaming DEF TablesOf, Batched
<1>7. Sound(db.version, db.tables)
  BY <1>2, <1>3, <1>5, <1>6 DEF Sound, Batched
<1>8. Tables(NoTables)
  BY DEF Tables, Shape, TablesOK, NoTables
<1> QED BY <1>2, <1>3, <1>7, <1>8
        DEF MigrationInit, MigrationInv, Migrating, Stages, ServerStages

(* A start, and a downgrade that is asked for, begin a revision.            *)
LEMMA StartKeeps ==
    ASSUME MigrationInv, StartUpgrade \/ StartDowngrade
    PROVE  MigrationInv' /\ RowsStep
<1>1. /\ db' = db /\ begun = FALSE /\ begun' = FALSE /\ work' = work /\ at' = 1
      /\ Seen' = db.tables
  BY DEF MigrationInv, StartUpgrade, StartDowngrade, Migrating, transaction, Seen
<1>2. HeadRevision = 9 /\ db.version \in 0..9
  BY UpgradesWellFormed DEF MigrationInv, Sound
<1>3. /\ pc' \in {"upgrade", "downgrade"}
      /\ goal' \in 0..HeadRevision /\ cut' \in {"no", "up", "down"}
  BY <1>2 DEF MigrationInv, StartUpgrade, StartDowngrade
<1>4. ASSUME (Migrating /\ Behind)'
      PROVE  Underway(pc = "upgrade", db.version, at, begun, db.tables, Seen)'
  <2>1. IF (pc' = "upgrade") THEN db.version < HeadRevision ELSE db.version > 0
    BY <1>1, <1>2, <1>3, <1>4 DEF Behind
  <2>2. Underway(pc' = "upgrade", db.version, 1, FALSE, db.tables, db.tables)
    <3>1. \A up \in BOOLEAN : (IF up THEN db.version < HeadRevision ELSE db.version > 0) =>
             Underway(up, db.version, 1, FALSE, db.tables, db.tables)
      BY RevisionBegins DEF MigrationInv
    <3>2. (pc' = "upgrade") \in BOOLEAN
      OBVIOUS
    <3> QED BY <3>1, <3>2, <2>1
  <2> QED BY <2>2, <1>1
<1> QED BY <1>1, <1>3, <1>4 DEF MigrationInv, RowsStep, Stages, ServerStages

(* A statement that succeeds ...                                            *)
LEMMA RunStatementKeeps ==
    ASSUME MigrationInv, RunStatement
    PROVE  MigrationInv' /\ RowsStep
<1>1. PICK up \in BOOLEAN : up = (pc = "upgrade")
  OBVIOUS
<1>2. /\ Migrating /\ Behind /\ Script = Revision(up, db.version) /\ at <= Len(Script)
      /\ Underway(up, db.version, at, begun, db.tables, Seen)
      /\ Sound(db.version, db.tables)
      /\ Drops(up, db.version) => pc = "downgrade" /\ db.version = 1
  BY <1>1 DEF MigrationInv, RunStatement, Revision, Script, Drops, Migrating
<1>3. PICK s : s = Script[at]
  OBVIOUS
<1>4. PICK e : e = Effect(s, Seen)
  OBVIOUS
<1>5. /\ Succeeds(s, Seen) /\ at' = at + 1 /\ pc' = pc /\ goal' = goal /\ cut' = cut
      /\ IF InTransaction(s)
         THEN begun' = TRUE /\ work' = e /\ db' = db
         ELSE db' = [db EXCEPT !.tables = e] /\ begun' = begun /\ work' = work
  BY <1>3, <1>4 DEF RunStatement, transaction
<1>6. /\ s.op = "copy" \/ begun = TRUE => Underway(up, db.version, at + 1, TRUE, db.tables, e)
      /\ s.op # "copy" /\ begun = FALSE => /\ Underway(up, db.version, at + 1, FALSE, e, e)
                                           /\ Sound(db.version, e)
                                           /\ Spares(up, db.version, db.tables, e)
  <2>1. s = Revision(up, db.version)[at] /\ at <= Len(Revision(up, db.version))
    BY <1>2, <1>3
  <2> HIDE DEF Script, Seen
  <2>2. Succeeds(Revision(up, db.version)[at], Seen)
    BY <2>1, <1>5
  <2>3. CASE s.op = "copy" \/ begun = TRUE
    BY <2>1, <2>2, <2>3, <1>2, <1>4, StatementGoesOn
  <2>4. CASE s.op # "copy" /\ begun = FALSE
    BY <2>1, <2>2, <2>4, <1>2, <1>4, StatementGoesOn
  <2> QED BY <2>3, <2>4, <1>2 DEF Underway
<1>7. begun \in BOOLEAN
  BY <1>2 DEF Underway
<1>8. CASE InTransaction(s)
  <2>1. /\ Underway(up, db.version, at + 1, TRUE, db.tables, e)
        /\ Seen' = e /\ db' = db /\ work' = e /\ begun' = TRUE
    BY <1>5, <1>6, <1>7, <1>8 DEF InTransaction, Seen
  <2>2. Tables(e)
    BY <2>1 DEF Underway
  <2>3. (Migrating /\ Behind)'
    BY <2>1, <1>2, <1>5 DEF Migrating, Behind
  <2>4. Underway(pc = "upgrade", db.version, at, begun, db.tables, Seen)'
    BY <2>1, <1>1, <1>5
  <2> QED BY <2>1, <2>2, <2>3, <2>4, <1>5 DEF MigrationInv, RowsStep
<1>9. CASE ~InTransaction(s)
  <2>1. /\ begun = FALSE /\ begun' = FALSE /\ work' = work
        /\ db' = [version |-> db.version, tables |-> e]
    BY <1>5, <1>7, <1>9 DEF InTransaction, MigrationInv
  <2>2. /\ Underway(up, db.version, at + 1, FALSE, e, e)
        /\ Sound(db.version, e)
        /\ Spares(up, db.version, db.tables, e)
    BY <1>6, <1>7, <1>9 DEF InTransaction
  <2>3. Seen' = e /\ db'.version = db.version /\ db'.tables = e
    BY <2>1 DEF Seen
  <2>4. (Migrating /\ Behind)'
    BY <2>3, <1>2, <1>5 DEF Migrating, Behind
  <2>5. Underway(pc = "upgrade", db.version, at, begun, db.tables, Seen)'
    BY <2>1, <2>2, <2>3, <1>1, <1>5
  <2>6. RowsStep
    BY <2>2, <2>3, <1>2 DEF RowsStep, Spares
  <2> QED BY <2>1, <2>2, <2>3, <2>4, <2>5, <2>6, <1>5 DEF MigrationInv
<1> QED BY <1>8, <1>9

(* ... and the commit.                                                      *)
LEMMA CommitKeeps ==
    ASSUME MigrationInv, CommitRevision
    PROVE  MigrationInv' /\ RowsStep
<1>1. PICK up \in BOOLEAN : up = (pc = "upgrade")
  OBVIOUS
<1>2. /\ Migrating /\ Behind /\ Script = Revision(up, db.version) /\ at > Len(Script)
      /\ Underway(up, db.version, at, begun, db.tables, Seen)
      /\ Sound(db.version, db.tables)
  BY <1>1 DEF MigrationInv, CommitRevision, Revision, Script
<1>3. PICK v : v = IF up THEN db.version + 1 ELSE db.version - 1
  OBVIOUS
<1>4. /\ db' = [version |-> v, tables |-> Seen]
      /\ begun' = FALSE /\ work' = NoTables /\ at' = 1
      /\ pc' = pc /\ goal' = goal /\ cut' = cut
  BY <1>1, <1>3 DEF CommitRevision
<1>5. Sound(v, Seen) /\ \A t \in Batched : Same(db.tables, Seen, t)
  BY <1>2, <1>3, RevisionCommits
<1>6. db'.version = v /\ db'.tables = Seen /\ Seen' = db'.tables
  BY <1>4 DEF Seen
<1>7. ASSUME (Migrating /\ Behind)'
      PROVE  Underway(pc = "upgrade", db.version, at, begun, db.tables, Seen)'
  <2>1. v \in 0..9 /\ HeadRevision = 9 /\ goal \in 0..9
    BY <1>5, UpgradesWellFormed DEF Sound, MigrationInv
  <2>2. IF up THEN v < HeadRevision ELSE v > 0
    <3>1. CASE up
      BY <3>1, <1>1, <1>4, <1>6, <1>7 DEF Behind
    <3>2. CASE ~up
      <4>1. pc' # "upgrade" /\ db'.version = v /\ goal' = goal
        BY <3>2, <1>1, <1>4, <1>6
      <4>2. v > goal
        BY <4>1, <1>7 DEF Behind
      <4> QED BY <3>2, <4>2, <2>1
    <3> QED BY <3>1, <3>2
  <2>3. Underway(up, v, 1, FALSE, Seen, Seen)
    BY <2>2, <1>5, RevisionBegins
  <2> QED BY <2>3, <1>1, <1>4, <1>6
<1>8. Tables(NoTables)
  BY DEF Tables, Shape, TablesOK, NoTables
<1>9. pc \notin ServerStages
  BY <1>2 DEF Migrating, ServerStages
<1> QED BY <1>4, <1>5, <1>6, <1>7, <1>8, <1>9 DEF MigrationInv, RowsStep, Same

(* The end of the process, which loses the transaction.                     *)
LEMMA EndKeeps ==
    ASSUME MigrationInv, End
    PROVE  MigrationInv' /\ RowsStep
<1>1. /\ pc' = "down" /\ begun' = FALSE /\ work' = NoTables /\ at' = 1 /\ goal' = 0 /\ db' = db
      /\ cut' \in {"no", "up", "down"}
  BY DEF End, Tear, MigrationInv
<1>2. Tables(NoTables)
  BY DEF Tables, Shape, TablesOK, NoTables
<1>3. 0 \in 0..HeadRevision
  BY UpgradesWellFormed
<1> QED BY <1>1, <1>2, <1>3 DEF MigrationInv, RowsStep, Migrating, Stages, ServerStages

(* The end of the migrations, at the last revision if it was an upgrade.    *)
LEMMA MigratedKeeps ==
    ASSUME MigrationInv, Migrated
    PROVE  MigrationInv' /\ RowsStep
<1>1. /\ db' = db /\ begun = FALSE /\ begun' = FALSE /\ work' = work /\ at = 1 /\ at' = 1
      /\ goal' = 0 /\ cut' = cut
      /\ pc' = IF pc = "upgrade" THEN "connect" ELSE "down"
  BY DEF MigrationInv, Migrated, transaction
<1>2. pc = "upgrade" => db.version = HeadRevision
  BY UpgradesWellFormed DEF MigrationInv, Migrated, Sound, Behind
<1>3. 0 \in 0..HeadRevision
  BY UpgradesWellFormed
<1> QED BY <1>1, <1>2, <1>3 DEF MigrationInv, RowsStep, Migrating, Stages, ServerStages

(* A step of the server leaves all of it as it is.                          *)
LEMMA ServerKeeps ==
    ASSUME MigrationInv, UNCHANGED migration, pc \in ServerStages, pc' \in ServerStages
    PROVE  MigrationInv' /\ RowsStep
<1>1. /\ db' = db /\ begun' = begun /\ work' = work /\ at' = at /\ goal' = goal /\ cut' = cut
  BY DEF migration, transaction
<1>2. ~Migrating /\ ~Migrating' /\ pc' \in Stages
  BY DEF Migrating, ServerStages, Stages
<1> QED BY <1>1, <1>2 DEF MigrationInv, RowsStep

(* So does one that leaves the stage of the process, too.                   *)
LEMMA MigrationStutters ==
    ASSUME MigrationInv, UNCHANGED <<pc, migration>>
    PROVE  MigrationInv' /\ RowsStep
<1>1. /\ pc' = pc /\ db' = db /\ begun' = begun /\ work' = work /\ at' = at /\ goal' = goal /\ cut' = cut
  BY DEF migration, transaction
<1> QED BY <1>1 DEF MigrationInv, RowsStep, Migrating, Behind, Seen

(* An INSERT of the seed adds a row to the products.                        *)
LEMMA SeedRowKeeps ==
    ASSUME MigrationInv, seeded \in Nat, SeedRow
    PROVE  /\ MigrationInv'
           /\ Rows' = Rows \union {NewRow(seeded + 1)}
           /\ RowsOf(db'.tables, "orders") = RowsOf(db.tables, "orders")
<1>1. PICK D : D = db.tables
  OBVIOUS
<1>2. /\ pc = "seed" /\ seeded < Len(NameOf) /\ pc' = pc
      /\ begun' = begun /\ work' = work /\ at' = at /\ goal' = goal /\ cut' = cut
      /\ db' = [db EXCEPT !.tables["products"].rows = @ \union {NewRow(seeded + 1)}]
  BY DEF SeedRow, transaction
<1>3. ~Migrating /\ ~Migrating' /\ db.version = HeadRevision /\ HeadRevision = 9
  BY <1>2, UpgradesWellFormed DEF Migrating, MigrationInv, ServerStages
<1>4. {"orders", "products"} \subseteq DOMAIN D /\ Tables(D)
  BY <1>1, <1>3 DEF MigrationInv, Sound, Batched
<1>5. PICK r : r = NewRow(seeded + 1) /\ r \in Products \X {1, 2}
  <2>1. seeded + 1 \in Products
    BY <1>2, CatalogueAssumption
  <2>2. NewRow(seeded + 1) = <<seeded + 1, 1>> \/ NewRow(seeded + 1) = <<seeded + 1, 2>>
    BY DEF NewRow
  <2>3. \A p \in Products : <<p, 1>> \in Products \X {1, 2} /\ <<p, 2>> \in Products \X {1, 2}
    OBVIOUS
  <2> QED BY <2>1, <2>2, <2>3
<1>6. PICK e : e = [D EXCEPT !["products"].rows = D["products"].rows \union {r}]
  OBVIOUS
<1>7. db' = [version |-> db.version, tables |-> e]
  BY <1>1, <1>2, <1>5, <1>6 DEF MigrationInv
<1>8. /\ DOMAIN e = DOMAIN D
      /\ e["products"] = [cols |-> D["products"].cols, rows |-> D["products"].rows \union {r}]
      /\ \A t \in DOMAIN D \ {"products"} : e[t] = D[t]
  <2>1. PICK c, w : D["products"] = [cols |-> c, rows |-> w]
    BY <1>4 DEF Tables, Shape
  <2> QED BY <1>4, <1>6, <2>1
<1>9. Tables(e)
  <2>1. Stored("products") = SUBSET (Products \X {1, 2})
    BY DEF Stored, AllRows
  <2>2. "products" \in DOMAIN Models
    BY DEF Models
  <2>3. D["products"].rows \in Stored("products")
    BY <2>2, <1>4 DEF Tables, TablesOK
  <2>4. e["products"].rows \in Stored("products")
    BY <2>1, <2>3, <1>5, <1>8
  <2> QED BY <2>4, <1>4, <1>8 DEF Tables, Shape, TablesOK
<1>10. Sound(db.version, e)
  BY <1>1, <1>8, <1>9 DEF MigrationInv, Sound
<1>11. MigrationInv'
  <2>1. db'.version = db.version /\ db'.tables = e
    BY <1>7
  <2> QED BY <1>2, <1>3, <1>7, <1>10, <2>1 DEF MigrationInv
<1> QED BY <1>1, <1>4, <1>5, <1>7, <1>8, <1>11 DEF Rows, RowsOf

-----------------------------------------------------------------------------
(* The names and the pages of the menu.  The place of a name is the number  *)
(* of names before it.                                                      *)
Upto(ns, k) == {n \in ns : Cardinality(Before(n, ns)) < k}

(* The place of a name is below their number, and grows with the name.      *)
LEMMA PlaceFacts ==
    ASSUME NEW ns, ns \subseteq Nat, IsFiniteSet(ns)
    PROVE  /\ \A n \in ns : /\ Cardinality(Before(n, ns)) \in Nat
                            /\ Cardinality(Before(n, ns)) < Cardinality(ns)
           /\ \A m, n \in ns : m < n => Cardinality(Before(m, ns)) < Cardinality(Before(n, ns))
<1>1. ASSUME NEW n \in ns, NEW T, T \subseteq ns, Before(n, ns) \subseteq T, n \in T
      PROVE  Cardinality(Before(n, ns)) \in Nat /\ Cardinality(Before(n, ns)) < Cardinality(T)
  <2>1. IsFiniteSet(T)
    BY <1>1, FS_Subset
  <2>2. /\ IsFiniteSet(Before(n, ns)) /\ Cardinality(Before(n, ns)) <= Cardinality(T)
        /\ Cardinality(T) = Cardinality(Before(n, ns)) => T = Before(n, ns)
    BY <2>1, <1>1, FS_Subset
  <2>3. n \notin Before(n, ns)
    BY DEF Before
  <2>4. Cardinality(Before(n, ns)) \in Nat /\ Cardinality(T) \in Nat
    BY <2>1, <2>2, FS_CardinalityType
  <2> QED BY <2>2, <2>3, <2>4, <1>1
<1>2. ASSUME NEW n \in ns
      PROVE  /\ Cardinality(Before(n, ns)) \in Nat
             /\ Cardinality(Before(n, ns)) < Cardinality(ns)
  <2>1. Before(n, ns) \subseteq ns
    BY DEF Before
  <2> QED BY <2>1, <1>1
<1>3. ASSUME NEW m \in ns, NEW n \in ns, m < n
      PROVE  Cardinality(Before(m, ns)) < Cardinality(Before(n, ns))
  <2>1. \A q \in ns : q < m => q < n
    BY <1>3
  <2>2. Before(m, ns) \subseteq Before(n, ns) /\ m \in Before(n, ns) /\ Before(n, ns) \subseteq ns
    BY <2>1, <1>3 DEF Before
  <2> QED BY <2>2, <1>1
<1> QED BY <1>2, <1>3

(* A page has at most MenuPage names.                                       *)
LEMMA PageOfSize ==
    ASSUME NEW ns, ns \subseteq Nat, IsFiniteSet(ns), NEW from, from \in Nat
    PROVE  PageOf(ns, from) \subseteq ns /\ Cardinality(PageOf(ns, from)) <= MenuPage
<1> DEFINE P == PageOf(ns, from)
           f == [n \in P |-> Cardinality(Before(n, ns))]
<1>0. MenuPage \in Nat \ {0}
  BY CatalogueAssumption
<1>1. P \subseteq ns
  BY DEF PageOf
<1>2. f \in [P -> from..from + MenuPage - 1]
  BY DEF PageOf
<1>3. ASSUME NEW m \in P, NEW n \in P, f[m] = f[n] PROVE m = n
  <2>1. m \in ns /\ n \in ns /\ Cardinality(Before(m, ns)) = Cardinality(Before(n, ns))
    BY <1>1, <1>3
  <2> HIDE DEF P, f
  <2>2. Cardinality(Before(m, ns)) \in Nat /\ m \in Nat /\ n \in Nat
    BY <2>1, PlaceFacts
  <2>3. ~(m < n) /\ ~(n < m)
    <3>1. \A k, l \in ns : k < l => Cardinality(Before(k, ns)) < Cardinality(Before(l, ns))
      BY PlaceFacts
    <3> QED BY <2>1, <2>2, <3>1
  <2> QED BY <2>2, <2>3
<1>4. f \in Injection(P, from..from + MenuPage - 1)
  BY <1>2, <1>3 DEF Injection, IsInjective
<1>5. /\ IsFiniteSet(from..from + MenuPage - 1)
      /\ Cardinality(from..from + MenuPage - 1) = MenuPage
  BY <1>0, FS_Interval
<1> HIDE DEF P, f
<1>6. Cardinality(P) <= MenuPage
  BY <1>4, <1>5, FS_Injection
<1> QED BY <1>1, <1>6 DEF P

(* The pages follow each other: each has the names of the next places.      *)
LEMMA PagesFollow ==
    ASSUME NEW ns, ns \subseteq Nat, IsFiniteSet(ns), NEW from, from \in Nat
    PROVE  /\ Upto(ns, 0) = {}
           /\ Upto(ns, from) \union PageOf(ns, from) = Upto(ns, from + MenuPage)
           /\ Upto(ns, from) \intersect PageOf(ns, from) = {}
           /\ from >= Cardinality(ns) => Upto(ns, from) = ns
<1>1. \A n \in ns : /\ Cardinality(Before(n, ns)) \in Nat
                    /\ Cardinality(Before(n, ns)) < Cardinality(ns)
  BY PlaceFacts
<1>2. MenuPage \in Nat \ {0} /\ Cardinality(ns) \in Nat
  BY CatalogueAssumption, FS_CardinalityType
<1>3. \A n \in ns : /\ ~(Cardinality(Before(n, ns)) < 0)
                    /\ (Cardinality(Before(n, ns)) < from
                          \/ Cardinality(Before(n, ns)) \in from..from + MenuPage - 1)
                         <=> Cardinality(Before(n, ns)) < from + MenuPage
                    /\ ~(Cardinality(Before(n, ns)) < from
                          /\ Cardinality(Before(n, ns)) \in from..from + MenuPage - 1)
                    /\ from >= Cardinality(ns) => Cardinality(Before(n, ns)) < from
  BY <1>1, <1>2
<1> QED BY <1>3 DEF Upto, PageOf

(* The names are finitely many numbers, no more than the entries.           *)
LEMMA NamesFacts ==
    /\ Len(NameOf) \in Nat \ {0} /\ Cardinality(Products) = Len(NameOf)
    /\ \A R : R \subseteq Products \X {1, 2} =>
          /\ NamesOf(R) \subseteq NamesOf(Entries) /\ NamesOf(R) \subseteq Nat
          /\ IsFiniteSet(NamesOf(R)) /\ Cardinality(NamesOf(R)) \in 0..Len(NameOf)
<1>1. Len(NameOf) \in Nat \ {0} /\ Products = 1..Len(NameOf) /\ NameOf \in [Products -> Nat]
  BY CatalogueAssumption
<1>2. IsFiniteSet(Products) /\ Cardinality(Products) = Len(NameOf)
  BY <1>1, FS_Interval
<1> DEFINE f == [p \in Products |-> NameOf[p]]
           N == {NameOf[p] : p \in Products}
<1>3. f \in Surjection(Products, N)
  BY DEF Surjection
<1>4. IsFiniteSet(N) /\ Cardinality(N) <= Cardinality(Products)
  <2> HIDE DEF f, N
  <2> QED BY <1>2, <1>3, FS_Surjection
<1>5. NamesOf(Entries) = N
  <2>1. ASSUME NEW p \in Products
        PROVE  \E r \in Entries : NameOf[r[1]] = NameOf[p]
    <3>1. <<p, 1>> \in Entries /\ <<p, 1>>[1] = p
      BY DEF Entries
    <3> QED BY <3>1
  <2>2. \A r \in Entries : r[1] \in Products
    BY DEF Entries
  <2> QED BY <2>1, <2>2 DEF NamesOf
<1>6. ASSUME NEW R, R \subseteq Products \X {1, 2}
      PROVE  /\ NamesOf(R) \subseteq NamesOf(Entries) /\ NamesOf(R) \subseteq Nat
             /\ IsFiniteSet(NamesOf(R)) /\ Cardinality(NamesOf(R)) \in 0..Len(NameOf)
  <2>1. \A r \in R : r[1] \in Products
    BY <1>6
  <2>2. NamesOf(R) \subseteq N /\ N \subseteq Nat
    BY <2>1, <1>1 DEF NamesOf
  <2> HIDE DEF N
  <2>3. /\ IsFiniteSet(NamesOf(R)) /\ Cardinality(NamesOf(R)) <= Cardinality(N)
        /\ Cardinality(NamesOf(R)) \in Nat /\ Cardinality(N) \in Nat
    BY <2>2, <1>4, FS_Subset, FS_CardinalityType
  <2>4. Cardinality(NamesOf(R)) \in 0..Len(NameOf)
    BY <2>3, <1>1, <1>2, <1>4
  <2>5. NamesOf(R) \subseteq Nat
    BY <2>2
  <2> QED BY <2>2, <2>3, <2>4, <2>5, <1>5
<1> QED BY <1>1, <1>2, <1>6

(* The offsets of the pages.                                                *)
LEMMA Offsets ==
    ASSUME NEW p, p \in Nat \ {0}
    PROVE  /\ (p - 1) * MenuPage \in Nat /\ p * MenuPage \in Nat
           /\ (p - 1) * MenuPage + MenuPage = p * MenuPage
           /\ p <= p * MenuPage /\ (1 - 1) * MenuPage = 0 /\ (p + 1) - 1 = p
<1>1. MenuPage \in Nat /\ MenuPage >= 1
  BY CatalogueAssumption
<1>2. \A a, b \in Nat : /\ a * b \in Nat /\ a * b + b = (a + 1) * b
                        /\ b >= 1 => (a + 1) * b >= a + 1
  BY SMTT(30)
<1>3. p - 1 \in Nat /\ (p - 1) + 1 = p
  OBVIOUS
<1> QED BY <1>1, <1>2, <1>3

-----------------------------------------------------------------------------
(* What holds of the seed: while it runs, the entries it has inserted are   *)
(* the rows, as it began with none.                                         *)
SeedInv ==
    /\ seeded \in 0..Len(NameOf) /\ halved \in BOOLEAN
    /\ pc = "seed" => Rows = {<<p, 1>> : p \in 1..seeded}
    /\ pc # "seed" /\ ~halved => Rows = {} \/ Rows = Entries
    /\ pc \in {"tasks", "serve"} /\ ~halved => Rows = Entries

(* What holds of a walk through the menu: it was sent the names of the      *)
(* pages before the one it asks for, and their rows.                        *)
MenuInv ==
    /\ reading \in {"idle", "count", "names", "rows", "end"}
    /\ page \in 1..Len(NameOf) /\ total \in 0..Len(NameOf)
    /\ names \subseteq NamesOf(Entries) /\ Cardinality(names) <= MenuPage
    /\ shown \subseteq NamesOf(Entries)
    /\ sent = {r \in Rows : NameOf[r[1]] \in shown}
    /\ reading # "idle" => pc = "serve"
    /\ reading = "idle" => page = 1 /\ shown = {}
    /\ reading \in {"count", "names", "rows"} => shown = Upto(NamesOf(Rows), (page - 1) * MenuPage)
    /\ reading = "end" => shown = NamesOf(Rows)
    /\ reading \in {"names", "rows"} => total = Cardinality(NamesOf(Rows))
    /\ reading = "rows" => names = PageOf(NamesOf(Rows), (page - 1) * MenuPage)

(* What holds of the tasks: only a failed worker leaves the server's        *)
(* connections open after it.                                               *)
ServerInv ==
    /\ connected \in BOOLEAN /\ purge \in Tasks /\ worker \in Tasks
    /\ connected => worker = "failed" \/ pc \in ServerStages \ {"connect"}

IInv == MigrationInv /\ SeedInv /\ MenuInv /\ ServerInv

(* The rows of the products, and all of the entries.                        *)
LEMMA RowsFacts ==
    /\ MigrationInv => Rows \subseteq Products \X {1, 2}
    /\ Entries = {<<p, 1>> : p \in 1..Len(NameOf)} /\ Entries # {}
<1>1. MigrationInv => Rows \subseteq Products \X {1, 2}
  <2>1. Stored("products") = SUBSET (Products \X {1, 2}) /\ "products" \in DOMAIN Models
    BY DEF Stored, AllRows, Models
  <2>2. ASSUME MigrationInv, "products" \in DOMAIN db.tables
        PROVE  db.tables["products"].rows \subseteq Products \X {1, 2}
    BY <2>1, <2>2 DEF MigrationInv, Sound, Tables, TablesOK
  <2> QED BY <2>2 DEF Rows, RowsOf
<1>2. Entries = {<<p, 1>> : p \in 1..Len(NameOf)}
  BY CatalogueAssumption DEF Entries
<1>3. <<1, 1>> \in Entries
  BY <1>2, NamesFacts
<1> QED BY <1>1, <1>2, <1>3

(* A step outside the seed that leaves the catalogue alone.                 *)
LEMMA SeedLeaves ==
    ASSUME SeedInv, RowsStep, UNCHANGED <<seeded, halved>>, pc # "seed",
           pc' \notin {"seed", "tasks", "serve"}
    PROVE  SeedInv'
<1>1. Rows' = Rows \/ Rows' = {}
  BY DEF RowsStep, Rows, Batched
<1> QED BY <1>1 DEF SeedInv

(* A step that leaves the rows alone and does not begin the seed.           *)
LEMMA SeedStays ==
    ASSUME SeedInv, db' = db, UNCHANGED <<seeded, halved>>, pc' = pc \/ (pc = "tasks" /\ pc' = "serve")
    PROVE  SeedInv'
  BY DEF SeedInv, Rows

(* The end of the process or of the requests, also in the midst of the seed.*)
LEMMA SeedEnds ==
    ASSUME SeedInv, db' = db, EndCatalogue, pc' \notin {"seed", "tasks", "serve"}
    PROVE  SeedInv'
<1>1. /\ Rows' = Rows /\ seeded' = 0
      /\ halved' = (halved \/ (pc = "seed" /\ seeded \in 1..Len(NameOf) - 1))
  BY DEF Rows, EndCatalogue
<1>2. Len(NameOf) \in Nat \ {0}
  BY NamesFacts
<1>3. ~halved' => Rows = {} \/ Rows = Entries
  <2>1. CASE pc = "seed"
    <3>1. SUFFICES ASSUME ~halved'
                   PROVE  Rows = {} \/ Rows = Entries
      OBVIOUS
    <3>2. seeded = 0 \/ seeded = Len(NameOf)
      <4>1. seeded \notin 1..Len(NameOf) - 1
        BY <3>1, <2>1, <1>1
      <4>2. seeded \in 0..Len(NameOf)
        BY DEF SeedInv
      <4> QED BY <4>1, <4>2, <1>2
    <3>3. Rows = {<<p, 1>> : p \in 1..seeded}
      BY <2>1 DEF SeedInv
    <3>4. seeded = 0 => Rows = {}
      BY <3>3
    <3> QED BY <3>2, <3>3, <3>4, RowsFacts
  <2>2. CASE pc # "seed"
    BY <2>2, <1>1 DEF SeedInv
  <2> QED BY <2>1, <2>2
<1>4. seeded' \in 0..Len(NameOf) /\ halved' \in BOOLEAN
  BY <1>1, <1>2
<1> QED BY <1>1, <1>3, <1>4 DEF SeedInv

(* The seed: its count, ...                                                 *)
LEMMA SeedCountKeeps == ASSUME SeedInv, SeedCount PROVE SeedInv'
<1>1. /\ pc = "count" /\ pc' = (IF Rows # {} THEN "tasks" ELSE "seed")
      /\ seeded' = 0 /\ db' = db /\ halved' = halved
  BY DEF SeedCount, migration
<1>2. Rows' = Rows
  BY <1>1 DEF Rows
<1>3. {<<p, 1>> : p \in 1..0} = {}
  OBVIOUS
<1>4. 0 \in 0..Len(NameOf)
  BY NamesFacts
<1> QED BY <1>1, <1>2, <1>3, <1>4 DEF SeedInv

(* ... an INSERT, which finds no row of its entry, ...                      *)
LEMMA SeedRowSeeds ==
    ASSUME MigrationInv, SeedInv, SeedRow
    PROVE  SeedInv'
<1>1. /\ pc = "seed" /\ pc' = pc /\ seeded < Len(NameOf) /\ seeded' = seeded + 1 /\ halved' = halved
      /\ seeded \in Nat /\ Len(NameOf) \in Nat
  BY NamesFacts DEF SeedRow, menu, SeedInv
<1>2. Rows' = Rows \union {NewRow(seeded + 1)} /\ Rows = {<<p, 1>> : p \in 1..seeded}
  BY <1>1, SeedRowKeeps DEF SeedInv
<1>3. <<seeded + 1, 1>> \notin Rows
  <2>1. \A p \in 1..seeded : <<p, 1>> # <<seeded + 1, 1>>
    BY <1>1
  <2> QED BY <2>1, <1>2
<1>4. NewRow(seeded + 1) = <<seeded + 1, 1>>
  BY <1>3 DEF NewRow
<1>5. Rows' = {<<p, 1>> : p \in 1..seeded + 1}
  <2>1. 1..seeded + 1 = (1..seeded) \union {seeded + 1}
    BY <1>1
  <2> QED BY <2>1, <1>2, <1>4
<1> QED BY <1>1, <1>5 DEF SeedInv

(* ... and its end.                                                         *)
LEMMA SeededKeeps == ASSUME SeedInv, Seeded PROVE SeedInv'
<1>1. /\ pc = "seed" /\ pc' = "tasks" /\ seeded = Len(NameOf) /\ seeded' = seeded
      /\ db' = db /\ halved' = halved
  BY DEF Seeded, migration, catalogue
<1>2. Rows' = Rows /\ Rows = Entries
  BY <1>1, RowsFacts DEF Rows, SeedInv
<1> QED BY <1>1, <1>2 DEF SeedInv

-----------------------------------------------------------------------------
(* A client that asks for nothing keeps its state, whatever happens.        *)
LEMMA MenuWaits ==
    ASSUME MenuInv, pc # "serve", UNCHANGED menu
    PROVE  MenuInv'
<1>1. /\ reading = "idle" /\ reading' = "idle" /\ page' = page /\ total' = total /\ names' = names
      /\ shown' = shown /\ sent' = sent /\ shown = {} /\ sent = {}
  BY DEF MenuInv, menu
<1> QED BY <1>1 DEF MenuInv

(* So does one whose menu does not change.                                  *)
LEMMA MenuStays ==
    ASSUME MenuInv, db' = db, pc' = pc, UNCHANGED menu
    PROVE  MenuInv'
  BY DEF MenuInv, menu, Rows

(* The end of the request.                                                  *)
LEMMA MenuEnds == ASSUME EndCatalogue PROVE MenuInv'
<1>1. /\ reading' = "idle" /\ page' = 1 /\ total' = 0 /\ names' = {} /\ shown' = {} /\ sent' = {}
  BY DEF EndCatalogue
<1>2. Cardinality({}) <= MenuPage
  BY CatalogueAssumption, FS_EmptySet
<1>3. 1 \in 1..Len(NameOf) /\ 0 \in 0..Len(NameOf)
  BY NamesFacts
<1> QED BY <1>1, <1>2, <1>3 DEF MenuInv

(* The reads of the menu.                                                   *)
LEMMA ReadMenuKeeps ==
    ASSUME MigrationInv, MenuInv, ReadMenu
    PROVE  MenuInv'
<1>1. PICK ns : ns = NamesOf(Rows)
  OBVIOUS
<1>2. /\ ns \subseteq NamesOf(Entries) /\ ns \subseteq Nat /\ IsFiniteSet(ns)
      /\ Cardinality(ns) \in 0..Len(NameOf)
  BY <1>1, RowsFacts, NamesFacts
<1>3. Rows' = Rows /\ pc' = pc /\ NamesOf(Rows') = ns
  BY <1>1 DEF ReadMenu, AskMenu, CountNames, ReadNames, SendMenu, migration, Rows
<1>4. /\ page \in Nat \ {0} /\ page \in 1..Len(NameOf) /\ Len(NameOf) \in Nat
      /\ (page - 1) * MenuPage \in Nat /\ page * MenuPage \in Nat
      /\ (page - 1) * MenuPage + MenuPage = page * MenuPage
      /\ page <= page * MenuPage /\ (1 - 1) * MenuPage = 0 /\ (page + 1) - 1 = page
  <2>1. page \in Nat \ {0} /\ page \in 1..Len(NameOf) /\ Len(NameOf) \in Nat
    BY NamesFacts DEF MenuInv
  <2> QED BY <2>1, Offsets
<1>5. CASE AskMenu
  <2>1. /\ pc = "serve" /\ page = 1 /\ shown = {} /\ reading' = "count"
        /\ page' = page /\ total' = total /\ names' = names /\ shown' = shown /\ sent' = sent
    BY <1>5 DEF AskMenu, MenuInv
  <2>2. Upto(ns, 0) = {}
    BY <1>2, PagesFollow
  <2> QED BY <2>1, <2>2, <1>3, <1>4 DEF MenuInv
<1>6. CASE CountNames
  <2>1. /\ reading = "count" /\ reading' = "names" /\ total' = Cardinality(ns)
        /\ page' = page /\ names' = names /\ shown' = shown /\ sent' = sent
    BY <1>1, <1>6 DEF CountNames
  <2> QED BY <2>1, <1>1, <1>2, <1>3 DEF MenuInv
<1>7. CASE ReadNames
  <2>1. /\ reading = "names" /\ reading' = "rows" /\ names' = PageOf(ns, (page - 1) * MenuPage)
        /\ page' = page /\ total' = total /\ shown' = shown /\ sent' = sent
    BY <1>1, <1>7 DEF ReadNames
  <2>2. names' \subseteq ns /\ Cardinality(names') <= MenuPage
    BY <2>1, <1>2, <1>4, PageOfSize
  <2> QED BY <2>1, <2>2, <1>1, <1>2, <1>3 DEF MenuInv
<1>8. CASE SendMenu
  <2>1. /\ reading = "rows" /\ shown' = shown \union names
        /\ sent' = sent \union {r \in Rows : NameOf[r[1]] \in names}
        /\ IF page * MenuPage >= total
           THEN reading' = "end" /\ page' = page
           ELSE reading' = "count" /\ page' = page + 1
        /\ total' = total /\ names' = names
    BY <1>8 DEF SendMenu
  <2>2. /\ pc = "serve" /\ total = Cardinality(ns)
        /\ shown = Upto(ns, (page - 1) * MenuPage) /\ names = PageOf(ns, (page - 1) * MenuPage)
        /\ sent = {r \in Rows : NameOf[r[1]] \in shown}
    BY <2>1, <1>1 DEF MenuInv
  <2>3. shown' = Upto(ns, page * MenuPage)
    BY <2>1, <2>2, <1>2, <1>4, PagesFollow
  <2>4. sent' = {r \in Rows : NameOf[r[1]] \in shown'}
    BY <2>1, <2>2
  <2>5. shown' \subseteq NamesOf(Entries)
    BY <2>3, <1>2 DEF Upto
  <2>6. CASE page * MenuPage >= total
    <3>1. shown' = ns
      BY <2>2, <2>3, <2>6, <1>2, <1>4, PagesFollow
    <3> QED BY <3>1, <2>1, <2>2, <2>4, <2>5, <2>6, <1>3, <1>4 DEF MenuInv
  <2>7. CASE ~(page * MenuPage >= total)
    <3>1. page + 1 \in 1..Len(NameOf)
      BY <2>2, <2>7, <1>2, <1>4
    <3> QED BY <3>1, <2>1, <2>2, <2>3, <2>4, <2>5, <2>7, <1>3, <1>4 DEF MenuInv
  <2> QED BY <2>6, <2>7
<1> QED BY <1>5, <1>6, <1>7, <1>8 DEF ReadMenu

-----------------------------------------------------------------------------
(* The invariant holds at first ...                                         *)
LEMMA InitIInv == Init => IInv
<1> SUFFICES ASSUME Init PROVE IInv
  OBVIOUS
<1>1. MigrationInv
  BY MigrationStarts DEF Init
<1>2. /\ pc = "down" /\ seeded = 0 /\ halved = FALSE /\ reading = "idle" /\ page = 1 /\ total = 0
      /\ names = {} /\ shown = {} /\ sent = {}
      /\ connected = FALSE /\ purge = "none" /\ worker = "none"
  BY DEF Init, MigrationInit, CatalogueInit
<1>3. Rows = {} \/ Rows = Entries
  <2>1. PICK v \in 0..HeadRevision, os \in SUBSET OrderRows, us \in SUBSET UserRows, ps \in {{}, Products \X {1}} :
          db = [version |-> v,
                tables |-> [t \in TablesOf(v) |->
                   [cols |-> ColumnsOf(t, v),
                    rows |-> CASE t = "orders" -> os [] t = "users" -> us [] t = "products" -> ps
                               [] OTHER -> {}]]]
    BY DEF Init, MigrationInit
  <2>2. "products" \in DOMAIN db.tables => db.tables["products"].rows = ps
    BY <2>1
  <2>3. Products \X {1} = Entries
    BY DEF Entries
  <2> QED BY <2>2, <2>3 DEF Rows, RowsOf
<1>4. SeedInv
  <2>1. 0 \in 0..Len(NameOf)
    BY NamesFacts
  <2> QED BY <2>1, <1>2, <1>3 DEF SeedInv
<1>5. MenuInv
  <2>1. Cardinality({}) <= MenuPage
    BY CatalogueAssumption, FS_EmptySet
  <2>2. 1 \in 1..Len(NameOf) /\ 0 \in 0..Len(NameOf)
    BY NamesFacts
  <2> QED BY <2>1, <2>2, <1>2 DEF MenuInv
<1>6. ServerInv
  BY <1>2 DEF ServerInv, Tasks
<1> QED BY <1>1, <1>4, <1>5, <1>6 DEF IInv

(* What a step keeps: the invariant, and the rows but for the downgrade     *)
(* that drops the tables.                                                   *)
StepKeeps ==
    /\ IInv'
    /\ \A t \in Batched :
         \/ RowsOf(db.tables, t) \subseteq RowsOf(db'.tables, t)
         \/ pc = "downgrade" /\ db.version = 1

(* A step that only adds rows keeps them.                                   *)
LEMMA RowsStepKeeps ==
    ASSUME IInv', RowsStep
    PROVE  StepKeeps
  BY DEF StepKeeps, RowsStep

(* The steps of the migrations, from the start to the start of the server.  *)
LEMMA MigrateSteps ==
    ASSUME IInv,
           \/ Start
           \/ StartDowngrade /\ UNCHANGED <<catalogue, lifespan>>
           \/ (RunStatement \/ CommitRevision \/ Migrated) /\ UNCHANGED <<catalogue, lifespan>>
    PROVE  StepKeeps
<1>1. MigrationInv' /\ RowsStep
  BY StartKeeps, RunStatementKeeps, CommitKeeps, MigratedKeeps DEF IInv, Start
<1>2. /\ pc \in {"down", "upgrade", "downgrade"}
      /\ pc' \in {"down", "upgrade", "downgrade", "connect"}
      /\ UNCHANGED <<seeded, halved, menu>>
  BY DEF Start, StartUpgrade, StartDowngrade, RunStatement, CommitRevision, Migrated, Migrating, catalogue
<1>3. SeedInv' /\ MenuInv'
  BY <1>1, <1>2, SeedLeaves, MenuWaits DEF IInv
<1>4. ServerInv'
  <2>1. CASE Start
    BY <2>1 DEF Start, ServerInv, Tasks
  <2>2. CASE UNCHANGED lifespan
    BY <2>2, <1>2 DEF lifespan, IInv, ServerInv, ServerStages
  <2> QED BY <2>1, <2>2
<1> QED BY <1>1, <1>3, <1>4, RowsStepKeeps DEF IInv

(* The ends of the process.                                                 *)
LEMMA EndSteps ==
    ASSUME IInv,
           \/ StatementRaises /\ UNCHANGED <<catalogue, lifespan>>
           \/ AwaitRaises \/ Disconnect \/ Die
    PROVE  StepKeeps
<1>1. End /\ db' = db /\ pc' = "down"
  BY DEF StatementRaises, AwaitRaises, Disconnect, Die, End
<1>2. MigrationInv' /\ RowsStep
  BY <1>1, EndKeeps DEF IInv
<1>3. SeedInv' /\ MenuInv'
  <2>1. CASE StatementRaises /\ UNCHANGED <<catalogue, lifespan>>
    <3>1. pc # "seed" /\ pc # "serve" /\ UNCHANGED <<seeded, halved, menu>>
      BY <2>1 DEF StatementRaises, Raises, Migrating, catalogue
    <3> QED BY <3>1, <1>1, <1>2, SeedLeaves, MenuWaits DEF IInv
  <2>2. CASE AwaitRaises \/ Disconnect \/ Die
    <3>1. EndCatalogue
      BY <2>2 DEF AwaitRaises, Disconnect, Die
    <3> QED BY <3>1, <1>1, SeedEnds, MenuEnds DEF IInv
  <2> QED BY <2>1, <2>2
<1>4. ServerInv'
  <2>1. CASE StatementRaises /\ UNCHANGED <<catalogue, lifespan>>
    <3>1. pc \notin ServerStages
      BY <2>1 DEF StatementRaises, Raises, Migrating, ServerStages
    <3> QED BY <3>1, <2>1 DEF IInv, ServerInv, lifespan
  <2>2. CASE AwaitRaises
    BY <2>2 DEF AwaitRaises, IInv, ServerInv, lifespan
  <2>3. CASE Disconnect \/ Die
    BY <2>3 DEF Disconnect, Die, IInv, ServerInv, Tasks
  <2> QED BY <2>1, <2>2, <2>3
<1> QED BY <1>2, <1>3, <1>4, RowsStepKeeps DEF IInv

(* The steps of the server, but for the INSERTs of the seed.                *)
LEMMA ServerSteps ==
    ASSUME IInv,
           \/ Connect \/ StartTasks \/ AwaitPurge \/ AwaitWorker \/ Stop
           \/ (SeedCount \/ Seeded) /\ UNCHANGED lifespan
    PROVE  StepKeeps
<1>1. /\ pc \in ServerStages /\ pc' \in ServerStages \ {"connect"} /\ UNCHANGED migration
  BY DEF Connect, StartTasks, AwaitPurge, AwaitWorker, Stop, SeedCount, Seeded, ServerStages
<1>2. MigrationInv' /\ RowsStep /\ db' = db
  BY <1>1, ServerKeeps DEF IInv, migration
<1>3. CASE Stop
  <2>1. EndCatalogue /\ pc' = "await purge"
    BY <1>3 DEF Stop
  <2>2. SeedInv' /\ MenuInv'
    BY <2>1, <1>2, SeedEnds, MenuEnds DEF IInv
  <2>3. ServerInv'
    BY <1>1, <1>3 DEF Stop, Cancelled, Alive, IInv, ServerInv, Tasks
  <2> QED BY <1>2, <2>2, <2>3, RowsStepKeeps DEF IInv
<1>4. CASE (SeedCount \/ Seeded) /\ UNCHANGED lifespan
  <2>1. pc # "serve" /\ UNCHANGED menu
    BY <1>4 DEF SeedCount, Seeded, catalogue
  <2>2. SeedInv' /\ MenuInv'
    BY <2>1, <1>4, SeedCountKeeps, SeededKeeps, MenuWaits DEF IInv
  <2>3. ServerInv'
    BY <1>1, <1>4 DEF IInv, ServerInv, lifespan
  <2> QED BY <1>2, <2>2, <2>3, RowsStepKeeps DEF IInv
<1>5. CASE Connect \/ StartTasks \/ AwaitPurge \/ AwaitWorker
  <2>1. /\ pc # "serve" /\ UNCHANGED <<seeded, halved, menu>> /\ pc # "seed"
        /\ pc' \notin {"seed", "tasks", "serve"} \/ (pc = "tasks" /\ pc' = "serve")
    BY <1>5 DEF Connect, StartTasks, AwaitPurge, AwaitWorker, catalogue
  <2>2. SeedInv' /\ MenuInv'
    BY <2>1, <1>2, SeedLeaves, SeedStays, MenuWaits DEF IInv
  <2>3. ServerInv'
    BY <1>1, <1>5 DEF Connect, StartTasks, AwaitPurge, AwaitWorker, IInv, ServerInv, Tasks, lifespan
  <2> QED BY <1>2, <2>2, <2>3, RowsStepKeeps DEF IInv
<1> QED BY <1>3, <1>4, <1>5

(* The steps of a client and of the tasks.                                  *)
LEMMA OtherSteps ==
    ASSUME IInv,
           \/ ReadMenu /\ UNCHANGED lifespan
           \/ GroupIsReady \/ GroupFails \/ WorkerEnds
           \/ UNCHANGED vars
    PROVE  StepKeeps
<1>1. UNCHANGED <<pc, migration, seeded, halved>>
  BY DEF ReadMenu, AskMenu, CountNames, ReadNames, SendMenu, GroupIsReady, GroupFails, WorkerEnds,
         vars, catalogue
<1>2. MigrationInv' /\ RowsStep /\ db' = db
  BY <1>1, MigrationStutters DEF IInv, migration
<1>3. SeedInv'
  BY <1>1, <1>2, SeedStays DEF IInv
<1>4. MenuInv'
  <2>1. CASE ReadMenu
    BY <2>1, ReadMenuKeeps DEF IInv
  <2>2. CASE GroupIsReady \/ GroupFails \/ WorkerEnds \/ UNCHANGED vars
    <3>1. UNCHANGED menu
      BY <2>2 DEF GroupIsReady, GroupFails, WorkerEnds, vars, catalogue
    <3> QED BY <3>1, <1>1, <1>2, MenuStays DEF IInv
  <2> QED BY <2>1, <2>2
<1>5. ServerInv'
  <2>1. CASE UNCHANGED lifespan
    BY <2>1, <1>1 DEF IInv, ServerInv, lifespan
  <2>2. CASE GroupIsReady \/ GroupFails \/ WorkerEnds
    BY <2>2 DEF GroupIsReady, GroupFails, WorkerEnds, IInv, ServerInv, Tasks
  <2> QED BY <2>1, <2>2 DEF vars
<1> QED BY <1>2, <1>3, <1>4, <1>5, RowsStepKeeps DEF IInv

(* ... and every step keeps it.                                             *)
LEMMA NextKeeps == ASSUME IInv, [Next]_vars PROVE StepKeeps
<1>1. CASE SeedRow /\ UNCHANGED lifespan
  <2>1. /\ MigrationInv' /\ Rows \subseteq Rows'
        /\ RowsOf(db'.tables, "orders") = RowsOf(db.tables, "orders")
    BY <1>1, SeedRowKeeps DEF IInv, SeedInv
  <2>2. pc = "seed" /\ pc' = pc /\ UNCHANGED menu
    BY <1>1 DEF SeedRow
  <2>3. SeedInv' /\ MenuInv'
    BY <2>2, <1>1, SeedRowSeeds, MenuWaits DEF IInv
  <2>4. ServerInv'
    BY <2>2, <1>1 DEF IInv, ServerInv, lifespan
  <2> QED BY <2>1, <2>3, <2>4 DEF IInv, StepKeeps, Rows, Batched
<1>2. CASE ~(SeedRow /\ UNCHANGED lifespan)
  BY <1>2, MigrateSteps, EndSteps, ServerSteps, OtherSteps DEF Next, Advance, Lifespan
<1> QED BY <1>1, <1>2

-----------------------------------------------------------------------------
(* The invariant, for every catalogue, every page size and all stored rows. *)
THEOREM Invariance == Spec => []IInv
<1>1. Init => IInv
  BY InitIInv
<1>2. IInv /\ [Next]_vars => IInv'
  BY NextKeeps DEF StepKeeps
<1> QED BY <1>1, <1>2, PTL DEF Spec

(* Types: every variable stays in its range; among them the next statement, *)
(* as no revision has more than eight, and the page a client asks for.      *)
LEMMA Types == IInv => TypeOK
<1> SUFFICES ASSUME IInv PROVE TypeOK
  OBVIOUS
<1>1. at \in 1..9
  <2>1. CASE Migrating /\ Behind
    <3>1. Underway(pc = "upgrade", db.version, at, begun, db.tables, Seen)
      BY <2>1 DEF IInv, MigrationInv
    <3>2. PICK up \in BOOLEAN : up = (pc = "upgrade")
      OBVIOUS
    <3>3. /\ at \in 1..Len(Revision(up, db.version)) + 1
          /\ IF up THEN db.version < HeadRevision ELSE db.version > 0
      BY <3>1, <3>2 DEF Underway
    <3>4. db.version \in 0..HeadRevision /\ HeadRevision = 9
      BY UpgradesWellFormed DEF IInv, MigrationInv, Sound
    <3>5. Len(Revision(up, db.version)) \in 1..8
      BY <3>3, <3>4, Scripts
    <3>6. \A n \in 1..8 : 1..n + 1 \subseteq 1..9
      OBVIOUS
    <3> QED BY <3>3, <3>5, <3>6
  <2>2. CASE ~(Migrating /\ Behind)
    BY <2>2 DEF IInv, MigrationInv
  <2> QED BY <2>1, <2>2
<1>2. begun \in BOOLEAN
  BY DEF IInv, MigrationInv, Underway
<1>3. MigrationTypeOK
  BY <1>1, <1>2 DEF IInv, MigrationInv, Sound, Tables, MigrationTypeOK
<1>4. CatalogueTypeOK
  <2>1. Cardinality(Products) = Len(NameOf)
    BY NamesFacts
  <2> QED BY <2>1 DEF IInv, SeedInv, MenuInv, CatalogueTypeOK
<1> QED BY <1>3, <1>4 DEF IInv, MigrationInv, ServerInv, TypeOK

(* The types, in every reachable state.                                     *)
THEOREM TypeCorrect == Spec => []TypeOK
<1> QED BY Types, Invariance, PTL

(* No upgrade, no crash at any of its statements and no statement that      *)
(* raises takes an order or a product; no downgrade but the last does.      *)
THEOREM RowsAreKept == Spec => KeepsRows
<1>1. ASSUME IInv, [Next]_vars
      PROVE  [\A t \in {"orders", "products"} :
                 \/ RowsOf(db.tables, t) \subseteq RowsOf(db'.tables, t)
                 \/ pc = "downgrade" /\ db.version = 1]_<<pc, migration>>
  BY <1>1, NextKeeps DEF StepKeeps, Batched
<1> QED BY <1>1, Invariance, PTL DEF Spec, KeepsRows

(* What is served is the whole catalogue, each entry once, unless a start   *)
(* ended between two INSERTs of the seed.                                   *)
THEOREM StartsWhole == Spec => []CatalogueIsWhole
<1>1. IInv => CatalogueIsWhole
  BY DEF IInv, SeedInv, CatalogueIsWhole
<1> QED BY <1>1, Invariance, PTL

(* A walk through the menu is sent every row of it, and no name twice.      *)
THEOREM WholeMenu == Spec => []MenuIsWhole
<1>1. IInv => MenuIsWhole
  <2> SUFFICES ASSUME IInv PROVE MenuIsWhole
    OBVIOUS
  <2>1. reading = "end" => sent = Rows
    BY DEF IInv, MenuInv, NamesOf
  <2>2. ASSUME reading = "rows"
        PROVE  names \intersect shown = {}
    <3>1. PICK ns : ns = NamesOf(Rows) /\ ns \subseteq Nat /\ IsFiniteSet(ns)
      BY RowsFacts, NamesFacts DEF IInv
    <3>2. page \in Nat \ {0}
      BY NamesFacts DEF IInv, MenuInv
    <3>3. (page - 1) * MenuPage \in Nat
      BY <3>2, Offsets
    <3>4. shown = Upto(ns, (page - 1) * MenuPage) /\ names = PageOf(ns, (page - 1) * MenuPage)
      BY <3>1, <2>2 DEF IInv, MenuInv
    <3> QED BY <3>1, <3>3, <3>4, PagesFollow
  <2> QED BY <2>1, <2>2 DEF MenuIsWhole
<1> QED BY <1>1, Invariance, PTL

(* A process that has ended left its connections open only if its worker    *)
(* had failed.                                                              *)
THEOREM StopsDisconnect == Spec => []StopDisconnects
<1>1. IInv => StopDisconnects
  BY DEF IInv, ServerInv, ServerStages, StopDisconnects
<1> QED BY <1>1, Invariance, PTL

-----------------------------------------------------------------------------
(* The columns alone.  A statement that fits the tables x it meets leads to *)
(* tables whose columns do not depend on the rows.                          *)
ColsAfter(s, x) ==
    CASE s.op = "create"   -> With(x, s.table, s.cols)
      [] s.op = "add"      -> [x EXCEPT ![s.table] = @ \union {s.col}]
      [] s.op = "remove"   -> [x EXCEPT ![s.table] = Without(@, {s.name})]
      [] s.op = "recreate" -> With(x, Tmp(s.table), Without(x[s.table], s.gone) \union s.added)
      [] s.op = "copy"     -> x
      [] s.op = "rename"   -> Less(With(x, s.table, x[Tmp(s.table)]), Tmp(s.table))
      [] OTHER             -> Less(x, s.table)

Fits(s, x) ==
    LET here == s.table \in DOMAIN x IN
    CASE s.op = "create"   -> ~here
      [] s.op = "add"      -> here /\ s.col.name \notin Names(x[s.table])
      [] s.op = "remove"   -> here /\ s.name \in Names(x[s.table])
      [] s.op = "recreate" -> here /\ Tmp(s.table) \notin DOMAIN x
      [] s.op = "copy"     -> here /\ Tmp(s.table) \in DOMAIN x
      [] s.op = "rename"   -> Tmp(s.table) \in DOMAIN x
      [] s.op = "drop"     -> here
      [] OTHER             -> TRUE

(* A copy that finds what each required column asks for.                    *)
Fills(s, x) ==
    s.op = "copy" =>
        \A c \in x[Tmp(s.table)] : Required(c) => c.name \in Names(x[s.table])

(* Only the addition of a required column asks for the rows.                *)
LEMMA FitsSucceeds ==
    ASSUME NEW s, NEW d, Fits(s, Schema(d)), Fills(s, Schema(d)),
           s.op = "add" /\ Required(s.col) => d[s.table].rows = {}
    PROVE  Succeeds(s, d)
<1>1. DOMAIN Schema(d) = DOMAIN d /\ \A t \in DOMAIN d : Schema(d)[t] = d[t].cols
  BY DEF Schema
<1>2. CASE s.op = "create"
  BY <1>1, <1>2 DEF Fits, Succeeds
<1>3. CASE s.op = "add"
  BY <1>1, <1>3 DEF Fits, Succeeds
<1>4. CASE s.op = "remove"
  BY <1>1, <1>4 DEF Fits, Succeeds
<1>5. CASE s.op = "recreate"
  BY <1>1, <1>5 DEF Fits, Succeeds
<1>6. CASE s.op = "copy"
  <2>1. s.table \in DOMAIN d /\ Tmp(s.table) \in DOMAIN d
    BY <1>1, <1>6 DEF Fits
  <2>2. \A c \in d[Tmp(s.table)].cols : Required(c) => c.name \in Names(d[s.table].cols)
    BY <2>1, <1>1, <1>6 DEF Fills
  <2> QED BY <2>2, <1>6 DEF Succeeds
<1>7. CASE s.op = "drop"
  BY <1>1, <1>7 DEF Fits, Succeeds
<1>8. CASE s.op \notin {"create", "add", "remove", "recreate", "copy", "drop"}
  BY <1>8 DEF Succeeds
<1> QED BY <1>2, <1>3, <1>4, <1>5, <1>6, <1>7, <1>8

(* And the effect on the columns is the one stated.                         *)
LEMMA SchemaFollows ==
    ASSUME NEW s, NEW d, Shape(d), Fits(s, Schema(d))
    PROVE  Schema(Effect(s, d)) = ColsAfter(s, Schema(d))
<1>1. DOMAIN Schema(d) = DOMAIN d /\ \A t \in DOMAIN d : Schema(d)[t] = d[t].cols
  BY DEF Schema
<1>2. ASSUME NEW t, NEW r
      PROVE  Schema(With(d, t, r)) = With(Schema(d), t, r.cols)
  BY <1>1 DEF Schema, With
<1>3. ASSUME NEW t, NEW e
      PROVE  Schema(Less(e, t)) = Less(Schema(e), t)
  BY DEF Schema, Less
<1>4. \A t \in DOMAIN d : d[t] = [cols |-> d[t].cols, rows |-> d[t].rows]
  BY DEF Shape
<1>5. CASE s.op = "create"
  <2>1. Effect(s, d) = With(d, s.table, Table(s.cols)) /\ Table(s.cols).cols = s.cols
    BY <1>5 DEF Effect, Table
  <2> QED BY <2>1, <1>2, <1>5 DEF ColsAfter
<1>6. CASE s.op = "add"
  <2>1. s.table \in DOMAIN d
    BY <1>1, <1>6 DEF Fits
  <2>2. Effect(s, d) = [d EXCEPT ![s.table].cols = @ \union {s.col}]
    BY <1>6 DEF Effect
  <2>3. /\ DOMAIN Effect(s, d) = DOMAIN d
        /\ Effect(s, d)[s.table].cols = d[s.table].cols \union {s.col}
        /\ \A t \in DOMAIN d \ {s.table} : Effect(s, d)[t] = d[t]
    BY <2>1, <2>2, <1>4
  <2>4. ColsAfter(s, Schema(d)) = [Schema(d) EXCEPT ![s.table] = @ \union {s.col}]
    BY <1>6 DEF ColsAfter
  <2> HIDE DEF Effect, ColsAfter
  <2> QED BY <2>1, <2>3, <2>4 DEF Schema
<1>7. CASE s.op = "remove"
  <2>1. s.table \in DOMAIN d
    BY <1>1, <1>7 DEF Fits
  <2>2. Effect(s, d) = [d EXCEPT ![s.table].cols = Without(@, {s.name})]
    BY <1>7 DEF Effect
  <2>3. /\ DOMAIN Effect(s, d) = DOMAIN d
        /\ Effect(s, d)[s.table].cols = Without(d[s.table].cols, {s.name})
        /\ \A t \in DOMAIN d \ {s.table} : Effect(s, d)[t] = d[t]
    BY <2>1, <2>2, <1>4
  <2>4. ColsAfter(s, Schema(d)) = [Schema(d) EXCEPT ![s.table] = Without(@, {s.name})]
    BY <1>7 DEF ColsAfter
  <2> QED BY <2>1, <2>3, <2>4 DEF Schema
<1>8. CASE s.op = "recreate"
  <2>1. s.table \in DOMAIN d
    BY <1>1, <1>8 DEF Fits
  <2> DEFINE new == Without(d[s.table].cols, s.gone) \union s.added
  <2>2. Effect(s, d) = With(d, Tmp(s.table), Table(new)) /\ Table(new).cols = new
    BY <1>8 DEF Effect, Table
  <2>3. ColsAfter(s, Schema(d)) = With(Schema(d), Tmp(s.table), new)
    BY <2>1, <1>1, <1>8 DEF ColsAfter
  <2> HIDE DEF new
  <2> QED BY <2>2, <2>3, <1>2
<1>9. CASE s.op = "copy"
  <2>1. Tmp(s.table) \in DOMAIN d
    BY <1>1, <1>9 DEF Fits
  <2>2. Effect(s, d) = [d EXCEPT ![Tmp(s.table)].rows = d[s.table].rows]
    BY <1>9 DEF Effect
  <2>3. /\ DOMAIN Effect(s, d) = DOMAIN d
        /\ \A t \in DOMAIN d : Effect(s, d)[t].cols = d[t].cols
    BY <2>1, <2>2, <1>4
  <2>4. ColsAfter(s, Schema(d)) = Schema(d)
    BY <1>9 DEF ColsAfter
  <2> QED BY <2>3, <2>4 DEF Schema
<1>10. CASE s.op = "rename"
  <2>1. Tmp(s.table) \in DOMAIN d
    BY <1>1, <1>10 DEF Fits
  <2>2. Effect(s, d) = Less(With(d, s.table, d[Tmp(s.table)]), Tmp(s.table))
    BY <1>10 DEF Effect
  <2>3. ColsAfter(s, Schema(d)) = Less(With(Schema(d), s.table, d[Tmp(s.table)].cols), Tmp(s.table))
    BY <2>1, <1>1, <1>10 DEF ColsAfter
  <2> QED BY <2>2, <2>3, <1>2, <1>3
<1>11. CASE s.op \notin {"create", "add", "remove", "recreate", "copy", "rename"}
  <2>1. Effect(s, d) = Less(d, s.table) /\ ColsAfter(s, Schema(d)) = Less(Schema(d), s.table)
    BY <1>11 DEF Effect, ColsAfter
  <2> QED BY <2>1, <1>3
<1> QED BY <1>5, <1>6, <1>7, <1>8, <1>9, <1>10, <1>11

(* The way of the columns through a script: P[i] before statement i.        *)
Leads(S, x, y, P) ==
    /\ P[1] = x /\ P[Len(S) + 1] = y
    /\ \A i \in 1..Len(S) : Fits(S[i], P[i]) /\ P[i + 1] = ColsAfter(S[i], P[i])

Filled(S, P) == \A i \in 1..Len(S) : Fills(S[i], P[i])

(* The way through one statement, ...                                       *)
LEMMA OneLeads ==
    ASSUME NEW s, NEW x, Fits(s, x)
    PROVE  \E P : Leads(<<s>>, x, ColsAfter(s, x), P) /\ (s.op # "copy" => Filled(<<s>>, P))
<1> DEFINE P == [i \in 1..2 |-> IF i = 1 THEN x ELSE ColsAfter(s, x)]
<1>1. P[1] = x /\ P[2] = ColsAfter(s, x) /\ Len(<<s>>) = 1 /\ <<s>>[1] = s
  OBVIOUS
<1> HIDE DEF P
<1>2. \A i \in 1..1 : i = 1
  OBVIOUS
<1>3. P[1 + 1] = P[2]
  OBVIOUS
<1>4. Leads(<<s>>, x, ColsAfter(s, x), P)
  BY <1>1, <1>2, <1>3 DEF Leads
<1>5. s.op # "copy" => Filled(<<s>>, P)
  BY <1>1, <1>2 DEF Filled, Fills
<1> QED BY <1>4, <1>5

(* ... through two scripts, one after the other, ...                        *)
Joins(S, T, R) ==
    /\ Len(S) \in Nat /\ Len(T) \in Nat /\ Len(R) = Len(S) + Len(T)
    /\ \A i \in 1..Len(S) : R[i] = S[i]
    /\ \A i \in 1..Len(T) : R[Len(S) + i] = T[i]

LEMMA BothLead ==
    ASSUME NEW S, NEW T, NEW R, NEW x, NEW y, NEW z, NEW P, NEW Q, Joins(S, T, R),
           Leads(S, x, y, P), Leads(T, y, z, Q)
    PROVE  \E W : Leads(R, x, z, W) /\ (Filled(S, P) /\ Filled(T, Q) => Filled(R, W))
<1> DEFINE m == Len(S)
           n == Len(T)
           W == [i \in 1..m + n + 1 |-> IF i <= m THEN P[i] ELSE Q[i - m]]
<1>1. m \in Nat /\ n \in Nat /\ Len(R) = m + n
  BY DEF Joins
<1>2. \A i \in 1..m + 1 : W[i] = P[i]
  <2>1. P[m + 1] = Q[1]
    BY DEF Leads
  <2>2. ASSUME NEW i \in 1..m + 1
        PROVE  W[i] = P[i]
    <3>1. i \in 1..m + n + 1 /\ i \in Int /\ (i <= m \/ i = m + 1)
      BY <1>1
    <3>2. W[i] = IF i <= m THEN P[i] ELSE Q[i - m]
      BY <3>1
    <3>3. i = m + 1 => i - m = 1 /\ ~(i <= m)
      BY <1>1
    <3> QED BY <3>1, <3>2, <3>3, <2>1
  <2> QED BY <2>2
<1>3. \A i \in 1..n + 1 : W[m + i] = Q[i]
  <2>1. ASSUME NEW i \in 1..n + 1
        PROVE  W[m + i] = Q[i]
    <3>1. m + i \in 1..m + n + 1 /\ ~(m + i <= m) /\ (m + i) - m = i
      BY <1>1
    <3> QED BY <3>1
  <2> QED BY <2>1
<1> HIDE DEF W
<1>4. W[1] = x
  BY <1>1, <1>2 DEF Leads
<1>5. W[Len(R) + 1] = z
  <2>1. Len(R) + 1 = m + (n + 1) /\ n + 1 \in 1..n + 1
    BY <1>1
  <2>2. W[m + (n + 1)] = Q[n + 1]
    BY <2>1, <1>3
  <2> QED BY <2>1, <2>2 DEF Leads
<1>6. ASSUME NEW i \in 1..Len(R)
      PROVE  \/ \E j \in 1..m : R[i] = S[j] /\ W[i] = P[j] /\ W[i + 1] = P[j + 1]
             \/ \E j \in 1..n : R[i] = T[j] /\ W[i] = Q[j] /\ W[i + 1] = Q[j + 1]
  <2>1. CASE i <= m
    <3>1. i \in 1..m /\ i \in 1..m + 1 /\ i + 1 \in 1..m + 1
      BY <2>1, <1>1
    <3>2. R[i] = S[i] /\ W[i] = P[i] /\ W[i + 1] = P[i + 1]
      BY <3>1, <1>2 DEF Joins
    <3> QED BY <3>1, <3>2
  <2>2. CASE ~(i <= m)
    <3>1. PICK j \in 1..n : i = m + j
      <4>1. i - m \in 1..n /\ i = m + (i - m)
        BY <2>2, <1>1
      <4> QED BY <4>1
    <3>2. j \in 1..n + 1 /\ j + 1 \in 1..n + 1 /\ i + 1 = m + (j + 1)
      BY <3>1, <1>1
    <3>3. W[i] = Q[j] /\ W[i + 1] = Q[j + 1]
      BY <3>1, <3>2, <1>3
    <3>4. R[i] = T[j]
      BY <3>1 DEF Joins
    <3> QED BY <3>3, <3>4
  <2> QED BY <2>1, <2>2
<1>7. Leads(R, x, z, W)
  BY <1>4, <1>5, <1>6 DEF Leads
<1>8. Filled(S, P) /\ Filled(T, Q) => Filled(R, W)
  BY <1>6 DEF Filled
<1> QED BY <1>7, <1>8

Passes(f, S, x, y) == \E P : Leads(S, x, y, P) /\ (f => Filled(S, P))

(* ... and through a batch: the table has its new columns.                  *)
LEMMA BatchLeads ==
    ASSUME NEW x, x = [u \in DOMAIN x |-> x[u]], NEW t \in Batched, t \in DOMAIN x, Tmp(t) \notin DOMAIN x,
           NEW gone, NEW added, NEW new, new = Without(x[t], gone) \union added,
           NEW f \in BOOLEAN, f => \A c \in new : Required(c) => c.name \in Names(x[t])
    PROVE  Passes(f, Batch(t, gone, added), x, [x EXCEPT ![t] = new])
<1> DEFINE S == Batch(t, gone, added)
           m == With(x, Tmp(t), new)
           P == << x, m, m, Less(m, t), [x EXCEPT ![t] = new] >>
<1>1. /\ Len(S) = 4
      /\ S[1] = [op |-> "recreate", table |-> t, gone |-> gone, added |-> added]
      /\ S[2] = Copy(t) /\ S[3] = Drop(t) /\ S[4] = Rename(t)
  BY DEF Batch, Copy, Drop, Rename
<1>2. P[1] = x /\ P[2] = m /\ P[3] = m /\ P[4] = Less(m, t) /\ P[5] = [x EXCEPT ![t] = new]
  OBVIOUS
<1>3. /\ DOMAIN m = DOMAIN x \union {Tmp(t)} /\ m[Tmp(t)] = new
      /\ \A u \in DOMAIN x : m[u] = x[u]
  BY DEF With
<1>4. DOMAIN Less(m, t) = DOMAIN m \ {t} /\ \A u \in DOMAIN m \ {t} : Less(m, t)[u] = m[u]
  BY DEF Less
<1>5. t # Tmp(t)
  OBVIOUS
<1> HIDE DEF S, m, P
<1>6. Fits(S[1], x) /\ ColsAfter(S[1], x) = m
  BY <1>1 DEF Fits, ColsAfter, m
<1>7. Fits(S[2], m) /\ ColsAfter(S[2], m) = m
  BY <1>1, <1>3 DEF Fits, ColsAfter, Copy
<1>8. Fits(S[3], m) /\ ColsAfter(S[3], m) = Less(m, t)
  BY <1>1, <1>3 DEF Fits, ColsAfter, Drop
<1>9. Fits(S[4], Less(m, t)) /\ ColsAfter(S[4], Less(m, t)) = [x EXCEPT ![t] = new]
  <2>1. Tmp(t) \in DOMAIN Less(m, t) /\ Less(m, t)[Tmp(t)] = new
    BY <1>3, <1>4, <1>5
  <2>2. ColsAfter(S[4], Less(m, t)) = Less(With(Less(m, t), t, new), Tmp(t))
    BY <2>1, <1>1 DEF ColsAfter, Rename
  <2>3. Less(With(Less(m, t), t, new), Tmp(t))
          = [u \in DOMAIN x |-> IF u = t THEN new ELSE x[u]]
    <3>1. ((DOMAIN Less(m, t)) \union {t}) \ {Tmp(t)} = DOMAIN x
      BY <1>3, <1>4, <1>5
    <3>2. \A u \in DOMAIN x \ {t} : Less(m, t)[u] = x[u]
      BY <1>3, <1>4
    <3> QED BY <3>1, <3>2 DEF Less, With
  <2>4. [x EXCEPT ![t] = new] = [u \in DOMAIN x |-> IF u = t THEN new ELSE x[u]]
    OBVIOUS
  <2>5. Fits(S[4], Less(m, t))
    BY <2>1, <1>1 DEF Fits, Rename
  <2> QED BY <2>2, <2>3, <2>4, <2>5
<1>10. \A i \in 1..4 : i = 1 \/ i = 2 \/ i = 3 \/ i = 4
  OBVIOUS
<1>11. Leads(S, x, [x EXCEPT ![t] = new], P)
  <2>1. PICK y : y = [x EXCEPT ![t] = new]
    OBVIOUS
  <2>2. /\ Fits(S[1], P[1]) /\ P[2] = ColsAfter(S[1], P[1])
        /\ Fits(S[2], P[2]) /\ P[3] = ColsAfter(S[2], P[2])
        /\ Fits(S[3], P[3]) /\ P[4] = ColsAfter(S[3], P[3])
        /\ Fits(S[4], P[4]) /\ P[5] = ColsAfter(S[4], P[4])
    BY <1>2, <1>6, <1>7, <1>8, <1>9
  <2>3. \A i \in 1..4 : Fits(S[i], P[i]) /\ P[i + 1] = ColsAfter(S[i], P[i])
    BY <2>2, <1>10
  <2>4. P[1] = x /\ P[4 + 1] = y /\ Len(S) = 4
    BY <2>1, <1>1, <1>2
  <2> QED BY <2>1, <2>3, <2>4 DEF Leads
<1>12. f => Filled(S, P)
  <2>1. f => Fills(S[2], m)
    BY <1>1, <1>3 DEF Fills, Copy
  <2>2. S[1].op # "copy" /\ S[3].op # "copy" /\ S[4].op # "copy"
    BY <1>1 DEF Drop, Rename
  <2> QED BY <2>1, <2>2, <1>1, <1>2, <1>10 DEF Filled, Fills
<1> QED BY <1>11, <1>12 DEF Passes, S

-----------------------------------------------------------------------------
(* The columns of each revision, written out.                               *)
ProductCols(type) ==
    {Key("id"), Col("name", {}), Col("variation", {}), Col("base_price", {type}), Col("price_change", {type})}

OrderCols(type, more) == {Key("id"), Col("status", {}), Col("total_price", {type})} \union more

UserCols(more) == {Key("id"), Col("role", {})} \union more

CreatedAt == Col("created_at", {"time", "default"})

Email == Col("email", {"unique"})

LEMMA ColumnFacts ==
    /\ \A n, a : Col(n, a).name = n /\ Col(n, a).attrs = a
    /\ \A n : Key(n) = Col(n, {"key"})
    /\ \A n : Plain({n}) = {Col(n, {})}
    /\ \A m, n : Plain({m, n}) = {Col(m, {}), Col(n, {})}
<1>1. \A n, a : Col(n, a).name = n /\ Col(n, a).attrs = a
  BY DEF Col
<1>2. \A n : Key(n) = Col(n, {"key"})
  BY DEF Key
<1>3. \A n : Plain({n}) = {Col(n, {})}
  BY DEF Plain
<1>4. \A m, n : Plain({m, n}) = {Col(m, {}), Col(n, {})}
  BY DEF Plain
<1> QED BY <1>1, <1>2, <1>3, <1>4

LEMMA ColumnsAre ==
    /\ \A r \in 0..8 : ColumnsOf("products", r) = ProductCols("float")
    /\ ColumnsOf("products", 9) = ProductCols("numeric")
    /\ \A r \in 0..9 : /\ ColumnsOf("order_products", r) = OrderProductsTable
                       /\ ColumnsOf("idempotency_keys", r) = IdempotencyKeysTable
                       /\ ColumnsOf("revoked_tokens", r) = RevokedTokensTable
    /\ ColumnsOf("orders", 1) = OrderCols("float", {Col("user_id", {})})
    /\ ColumnsOf("orders", 2) = OrderCols("float", {})
    /\ \A r \in 3..6 : ColumnsOf("orders", r) = OrderCols("float", {CreatedAt})
    /\ \A r \in 7..8 : ColumnsOf("orders", r) = OrderCols("float", {CreatedAt, Col("user_id", {"null"})})
    /\ ColumnsOf("orders", 9) = OrderCols("numeric", {CreatedAt, Col("user_id", {"null"})})
    /\ ColumnsOf("users", 1) = UserCols({})
    /\ \A r \in 4..5 : ColumnsOf("users", r) = UserCols({Email})
    /\ \A r \in 6..9 : ColumnsOf("users", r) = UserCols({Email, Col("password_hash", {})})
<1> DEFINE type(r) == IF r = 9 THEN "numeric" ELSE "float"
<1>1. \A r \in 0..9 : r >= 9 <=> r = 9
  OBVIOUS
<1>2. ASSUME NEW r \in 0..9
      PROVE  /\ \A n : Money({n}, r) = {Col(n, {type(r)})}
             /\ \A m, n : Money({m, n}, r) = {Col(m, {type(r)}), Col(n, {type(r)})}
  BY <1>1 DEF Money
<1> HIDE DEF type
<1>3. ASSUME NEW r \in 0..9
      PROVE  /\ ColumnsOf("products", r) = ProductCols(type(r))
             /\ ColumnsOf("order_products", r) = OrderProductsTable
             /\ ColumnsOf("idempotency_keys", r) = IdempotencyKeysTable
             /\ ColumnsOf("revoked_tokens", r) = RevokedTokensTable
  <2>1. ColumnsOf("products", r) = ProductCols(type(r))
    <3>1. ColumnsOf("products", r)
            = {Key("id")} \union Plain({"name", "variation"}) \union Money({"base_price", "price_change"}, r)
      BY DEF ColumnsOf
    <3>2. Money({"base_price", "price_change"}, r) = {Col("base_price", {type(r)}), Col("price_change", {type(r)})}
      BY <1>2
    <3>3. Plain({"name", "variation"}) = {Col("name", {}), Col("variation", {})}
      BY ColumnFacts
    <3> QED BY <3>1, <3>2, <3>3 DEF ProductCols
  <2>2. \A t \in {"order_products", "idempotency_keys", "revoked_tokens"} : ColumnsOf(t, r) = Models[t]
    BY DEF ColumnsOf
  <2>3. /\ Models["order_products"] = OrderProductsTable
        /\ Models["idempotency_keys"] = IdempotencyKeysTable
        /\ Models["revoked_tokens"] = RevokedTokensTable
    BY DEF Models
  <2> QED BY <2>1, <2>2, <2>3
<1>4. ASSUME NEW r \in 0..9
      PROVE  ColumnsOf("orders", r)
               = OrderCols(type(r),
                   (IF r >= 3 THEN {CreatedAt} ELSE {})
                   \union (IF r = 1 THEN {Col("user_id", {})}
                           ELSE IF r >= 7 THEN {Col("user_id", {"null"})} ELSE {}))
  <2>1. ColumnsOf("orders", r)
          = {Key("id")} \union {Col("status", {})} \union {Col("total_price", {type(r)})}
              \union (IF r >= 3 THEN {CreatedAt} ELSE {})
              \union (IF r = 1 THEN {Col("user_id", {})}
                      ELSE IF r >= 7 THEN {Col("user_id", {"null"})} ELSE {})
    BY <1>2, ColumnFacts DEF ColumnsOf, Since, CreatedAt
  <2> QED BY <2>1 DEF OrderCols
<1>5. ASSUME NEW r \in 0..9
      PROVE  ColumnsOf("users", r)
               = UserCols((IF r >= 4 THEN {Email} ELSE {})
                          \union (IF r >= 6 THEN {Col("password_hash", {})} ELSE {}))
  <2>1. ColumnsOf("users", r)
          = {Key("id")} \union {Col("role", {})} \union (IF r >= 4 THEN {Email} ELSE {})
              \union (IF r >= 6 THEN {Col("password_hash", {})} ELSE {})
    BY ColumnFacts DEF ColumnsOf, Since, Email
  <2> QED BY <2>1 DEF UserCols
<1>6. type(9) = "numeric" /\ \A r \in 0..8 : type(r) = "float"
  BY DEF type
<1>7. ColumnsOf("orders", 1) = OrderCols("float", {Col("user_id", {})})
  BY <1>4, <1>6 DEF OrderCols
<1>8. ColumnsOf("orders", 2) = OrderCols("float", {})
  BY <1>4, <1>6 DEF OrderCols
<1>9. \A r \in 3..6 : ColumnsOf("orders", r) = OrderCols("float", {CreatedAt})
  BY <1>4, <1>6 DEF OrderCols
<1>10. \A r \in 7..8 : ColumnsOf("orders", r) = OrderCols("float", {CreatedAt, Col("user_id", {"null"})})
  BY <1>4, <1>6 DEF OrderCols
<1>11. ColumnsOf("orders", 9) = OrderCols("numeric", {CreatedAt, Col("user_id", {"null"})})
  BY <1>4, <1>6 DEF OrderCols
<1>12. ColumnsOf("users", 1) = UserCols({})
  BY <1>5 DEF UserCols
<1>13. \A r \in 4..5 : ColumnsOf("users", r) = UserCols({Email})
  BY <1>5 DEF UserCols
<1>14. \A r \in 6..9 : ColumnsOf("users", r) = UserCols({Email, Col("password_hash", {})})
  BY <1>5 DEF UserCols
<1>15. ColumnsOf("products", 9) = ProductCols("numeric") /\ \A r \in 0..8 : ColumnsOf("products", r) = ProductCols("float")
  BY <1>3, <1>6
<1> QED BY <1>3, <1>15, <1>7, <1>8, <1>9, <1>10, <1>11, <1>12, <1>13, <1>14

(* And the tables.                                                          *)
LEMMA TablesAre ==
    /\ TablesOf(0) = {}
    /\ TablesOf(1) = {"products", "orders", "order_products", "users"}
    /\ \A r \in 2..3 : TablesOf(r) = {"products", "orders", "order_products"}
    /\ TablesOf(4) = {"products", "orders", "order_products", "users"}
    /\ \A r \in 5..7 : TablesOf(r) = {"products", "orders", "order_products", "users", "idempotency_keys"}
    /\ \A r \in 8..9 : TablesOf(r) = {"products", "orders", "order_products", "users",
                                     "idempotency_keys", "revoked_tokens"}
<1>1. DOMAIN Models = {"products", "orders", "order_products", "users",
                       "idempotency_keys", "revoked_tokens"}
  BY DEF Models
<1>2. ASSUME NEW r \in 0..9
      PROVE  /\ TablesOf(r) \subseteq DOMAIN Models
             /\ "users" \in TablesOf(r) <=> r = 1 \/ r >= 4
             /\ "idempotency_keys" \in TablesOf(r) <=> r >= 5
             /\ "revoked_tokens" \in TablesOf(r) <=> r >= 8
             /\ "products" \in TablesOf(r) <=> r >= 1
             /\ "orders" \in TablesOf(r) <=> r >= 1
             /\ "order_products" \in TablesOf(r) <=> r >= 1
  BY <1>1 DEF TablesOf
<1>3. TablesOf(0) = {} /\ TablesOf(1) = {"products", "orders", "order_products", "users"}
  BY <1>1, <1>2
<1>4. \A r \in 2..3 : TablesOf(r) = {"products", "orders", "order_products"}
  BY <1>1, <1>2
<1>5. TablesOf(4) = {"products", "orders", "order_products", "users"}
  BY <1>1, <1>2
<1>6. \A r \in 5..7 : TablesOf(r) = {"products", "orders", "order_products", "users", "idempotency_keys"}
  BY <1>1, <1>2
<1>7. \A r \in 8..9 : TablesOf(r) = {"products", "orders", "order_products", "users",
                                    "idempotency_keys", "revoked_tokens"}
  BY <1>1, <1>2
<1> QED BY <1>3, <1>4, <1>5, <1>6, <1>7

(* The schema of a revision is told by its tables and their columns.        *)
LEMMA SchemaIs ==
    ASSUME NEW r, NEW x, x = [t \in DOMAIN x |-> x[t]], DOMAIN x = TablesOf(r),
           \A t \in TablesOf(r) : x[t] = ColumnsOf(t, r)
    PROVE  x = SchemaAt(r)
  BY DEF SchemaAt

LEMMA SchemaFacts ==
    \A r : /\ SchemaAt(r) = [t \in DOMAIN SchemaAt(r) |-> SchemaAt(r)[t]]
           /\ DOMAIN SchemaAt(r) = TablesOf(r)
           /\ \A t \in TablesOf(r) : SchemaAt(r)[t] = ColumnsOf(t, r)
  BY DEF SchemaAt

(* The last one is that of the models.                                      *)
LEMMA HeadIsModels == SchemaAt(9) = Models
<1>1. DOMAIN Models = TablesOf(9) /\ Models = [t \in DOMAIN Models |-> Models[t]]
  <2>1. DOMAIN Models = {"products", "orders", "order_products", "users",
                         "idempotency_keys", "revoked_tokens"}
    BY DEF Models
  <2>2. Models = [t \in DOMAIN Models |-> Models[t]]
    BY DEF Models
  <2> QED BY <2>1, <2>2, TablesAre
<1>2. Models["products"] = ColumnsOf("products", 9)
  BY ColumnsAre, ColumnFacts DEF Models, ProductsTable, ProductCols
<1>3. Models["orders"] = ColumnsOf("orders", 9)
  BY ColumnsAre, ColumnFacts DEF Models, OrdersTable, OrderCols, CreatedAt
<1>4. Models["users"] = ColumnsOf("users", 9)
  BY ColumnsAre, ColumnFacts DEF Models, UsersTable, UserCols, Email
<1>5. \A t \in {"order_products", "idempotency_keys", "revoked_tokens"} : Models[t] = ColumnsOf(t, 9)
  BY ColumnsAre DEF Models
<1>6. TablesOf(9) = {"products", "orders", "users"} \union {"order_products", "idempotency_keys", "revoked_tokens"}
  BY TablesAre
<1>7. \A t \in TablesOf(9) : Models[t] = ColumnsOf(t, 9)
  BY <1>2, <1>3, <1>4, <1>5, <1>6
<1> QED BY <1>1, <1>7, SchemaIs

-----------------------------------------------------------------------------
(* The way of the columns from one revision to the next.  First through one *)
(* statement, ...                                                           *)
LEMMA OnePasses ==
    ASSUME NEW f \in BOOLEAN, NEW s, NEW x, Fits(s, x), s.op # "copy"
    PROVE  Passes(f, <<s>>, x, ColsAfter(s, x))
  BY OneLeads DEF Passes

(* ... and one script after another.                                        *)
LEMMA BothPass ==
    ASSUME NEW f \in BOOLEAN, NEW S, NEW T, NEW R, NEW x, NEW y, NEW z, Joins(S, T, R),
           Passes(f, S, x, y), Passes(f, T, y, z)
    PROVE  Passes(f, R, x, z)
<1>1. PICK P : Leads(S, x, y, P) /\ (f => Filled(S, P))
  BY DEF Passes
<1>2. PICK Q : Leads(T, y, z, Q) /\ (f => Filled(T, Q))
  BY DEF Passes
<1>3. \E W : Leads(R, x, z, W) /\ (Filled(S, P) /\ Filled(T, Q) => Filled(R, W))
  BY <1>1, <1>2, BothLead
<1> QED BY <1>1, <1>2, <1>3 DEF Passes

(* Two revisions that have the same columns of a set of tables.             *)
Agree(v, w, ts) == \A t \in ts : ColumnsOf(t, v) = ColumnsOf(t, w)

LEMMA CreatePasses ==
    ASSUME NEW f \in BOOLEAN, NEW v, NEW w, NEW t, t \notin TablesOf(v),
           TablesOf(w) = TablesOf(v) \union {t}, Agree(v, w, TablesOf(v))
    PROVE  Passes(f, << Create(t, ColumnsOf(t, w)) >>, SchemaAt(v), SchemaAt(w))
<1> DEFINE s == Create(t, ColumnsOf(t, w))
           y == With(SchemaAt(v), t, ColumnsOf(t, w))
<1>1. Fits(s, SchemaAt(v)) /\ ColsAfter(s, SchemaAt(v)) = y /\ s.op # "copy"
  BY SchemaFacts DEF Fits, ColsAfter, Create
<1>2. y = [u \in DOMAIN y |-> y[u]] /\ DOMAIN y = TablesOf(w)
  BY SchemaFacts DEF With
<1>3. \A u \in TablesOf(w) : y[u] = ColumnsOf(u, w)
  BY SchemaFacts DEF With, Agree
<1> HIDE DEF s, y
<1>4. y = SchemaAt(w)
  BY <1>2, <1>3, SchemaIs
<1> QED BY <1>1, <1>4, OnePasses DEF s

LEMMA DropPasses ==
    ASSUME NEW f \in BOOLEAN, NEW v, NEW w, NEW t, t \notin TablesOf(w),
           TablesOf(v) = TablesOf(w) \union {t}, Agree(v, w, TablesOf(w))
    PROVE  Passes(f, << Drop(t) >>, SchemaAt(v), SchemaAt(w))
<1> DEFINE s == Drop(t)
           y == Less(SchemaAt(v), t)
<1>1. Fits(s, SchemaAt(v)) /\ ColsAfter(s, SchemaAt(v)) = y /\ s.op # "copy"
  BY SchemaFacts DEF Fits, ColsAfter, Drop
<1>2. y = [u \in DOMAIN y |-> y[u]] /\ DOMAIN y = TablesOf(w)
  BY SchemaFacts DEF Less
<1>3. \A u \in TablesOf(w) : y[u] = ColumnsOf(u, w)
  BY SchemaFacts DEF Less, Agree
<1> HIDE DEF s, y
<1>4. y = SchemaAt(w)
  BY <1>2, <1>3, SchemaIs
<1> QED BY <1>1, <1>4, OnePasses DEF s

(* The columns of one table change.                                         *)
LEMMA OneTableChanges ==
    ASSUME NEW v, NEW w, NEW t, t \in TablesOf(v),
           TablesOf(w) = TablesOf(v), Agree(v, w, TablesOf(v) \ {t})
    PROVE  [SchemaAt(v) EXCEPT ![t] = ColumnsOf(t, w)] = SchemaAt(w)
<1> DEFINE y == [SchemaAt(v) EXCEPT ![t] = ColumnsOf(t, w)]
<1>1. y = [u \in DOMAIN y |-> y[u]] /\ DOMAIN y = TablesOf(w)
  BY SchemaFacts
<1>2. \A u \in TablesOf(w) : y[u] = ColumnsOf(u, w)
  BY SchemaFacts DEF Agree
<1> HIDE DEF y
<1>3. y = SchemaAt(w)
  BY <1>1, <1>2, SchemaIs
<1> QED BY <1>3 DEF y

LEMMA AddPasses ==
    ASSUME NEW f \in BOOLEAN, NEW v, NEW w, NEW t, t \in TablesOf(v),
           TablesOf(w) = TablesOf(v), Agree(v, w, TablesOf(v) \ {t}),
           NEW col, col.name \notin Names(ColumnsOf(t, v)),
           ColumnsOf(t, w) = ColumnsOf(t, v) \union {col}
    PROVE  Passes(f, << AddColumn(t, col) >>, SchemaAt(v), SchemaAt(w))
<1> DEFINE s == AddColumn(t, col)
<1>1. SchemaAt(v)[t] = ColumnsOf(t, v) /\ t \in DOMAIN SchemaAt(v)
  BY SchemaFacts
<1>2. ColsAfter(s, SchemaAt(v)) = [SchemaAt(v) EXCEPT ![t] = @ \union {col}] /\ s.op # "copy"
  BY DEF ColsAfter, AddColumn
<1>3. Fits(s, SchemaAt(v))
  BY <1>1 DEF Fits, AddColumn
<1>4. ColsAfter(s, SchemaAt(v)) = SchemaAt(w)
  BY <1>1, <1>2, OneTableChanges
<1> HIDE DEF s
<1> QED BY <1>2, <1>3, <1>4, OnePasses DEF s

LEMMA RemovePasses ==
    ASSUME NEW f \in BOOLEAN, NEW v, NEW w, NEW t, t \in TablesOf(v),
           TablesOf(w) = TablesOf(v), Agree(v, w, TablesOf(v) \ {t}),
           NEW name, name \in Names(ColumnsOf(t, v)),
           ColumnsOf(t, w) = Without(ColumnsOf(t, v), {name})
    PROVE  Passes(f, << DropColumn(t, name) >>, SchemaAt(v), SchemaAt(w))
<1> DEFINE s == DropColumn(t, name)
<1>1. SchemaAt(v)[t] = ColumnsOf(t, v) /\ t \in DOMAIN SchemaAt(v)
  BY SchemaFacts
<1>2. ColsAfter(s, SchemaAt(v)) = [SchemaAt(v) EXCEPT ![t] = Without(@, {name})] /\ s.op # "copy"
  BY DEF ColsAfter, DropColumn
<1>3. Fits(s, SchemaAt(v))
  BY <1>1 DEF Fits, DropColumn
<1>4. ColsAfter(s, SchemaAt(v)) = SchemaAt(w)
  BY <1>1, <1>2, OneTableChanges
<1> HIDE DEF s
<1> QED BY <1>2, <1>3, <1>4, OnePasses DEF s

(* No revision has a temporary table.                                       *)
LEMMA NoTemporary ==
    ASSUME NEW r, NEW t \in Batched PROVE Tmp(t) \notin DOMAIN SchemaAt(r)
  BY SchemaFacts, TableNaming DEF TablesOf

LEMMA BatchPasses ==
    ASSUME NEW f \in BOOLEAN, NEW v, NEW w, NEW t \in Batched, t \in TablesOf(v),
           TablesOf(w) = TablesOf(v), Agree(v, w, TablesOf(v) \ {t}),
           NEW gone, NEW added, ColumnsOf(t, w) = Without(ColumnsOf(t, v), gone) \union added,
           f => \A c \in ColumnsOf(t, w) : Required(c) => c.name \in Names(ColumnsOf(t, v))
    PROVE  Passes(f, Batch(t, gone, added), SchemaAt(v), SchemaAt(w))
<1>1. SchemaAt(v)[t] = ColumnsOf(t, v) /\ t \in DOMAIN SchemaAt(v)
      /\ SchemaAt(v) = [u \in DOMAIN SchemaAt(v) |-> SchemaAt(v)[u]]
  BY SchemaFacts
<1>2. Passes(f, Batch(t, gone, added), SchemaAt(v), [SchemaAt(v) EXCEPT ![t] = ColumnsOf(t, w)])
  BY <1>1, NoTemporary, BatchLeads
<1> QED BY <1>2, OneTableChanges

-----------------------------------------------------------------------------
(* What the revisions do to the columns of a table, ...                     *)
LEMMA WithoutFacts ==
    /\ \A m, n : Without(ProductCols(m), {"base_price", "price_change"})
                   \union {Col("base_price", {n}), Col("price_change", {n})} = ProductCols(n)
    /\ \A m, n, more : "total_price" \notin Names(more) =>
          Without(OrderCols(m, more), {"total_price"}) \union {Col("total_price", {n})} = OrderCols(n, more)
    /\ \A m, more, col : col.name \notin {"id", "status", "total_price"} /\ col.name \notin Names(more) =>
          Without(OrderCols(m, more \union {col}), {col.name}) = OrderCols(m, more)
    /\ \A more, col : col.name \notin {"id", "role"} /\ col.name \notin Names(more) =>
          Without(UserCols(more \union {col}), {col.name}) = UserCols(more)
    /\ \A cols : Without(cols, {}) = cols
<1>1. ASSUME NEW m, NEW n
      PROVE  Without(ProductCols(m), {"base_price", "price_change"})
               \union {Col("base_price", {n}), Col("price_change", {n})} = ProductCols(n)
  BY ColumnFacts DEF Without, ProductCols
<1>2. ASSUME NEW m, NEW n, NEW more, "total_price" \notin Names(more)
      PROVE  Without(OrderCols(m, more), {"total_price"}) \union {Col("total_price", {n})} = OrderCols(n, more)
  BY <1>2, ColumnFacts DEF Without, OrderCols, Names
<1>3. ASSUME NEW m, NEW more, NEW col,
             col.name \notin {"id", "status", "total_price"}, col.name \notin Names(more)
      PROVE  Without(OrderCols(m, more \union {col}), {col.name}) = OrderCols(m, more)
  BY <1>3, ColumnFacts DEF Without, OrderCols, Names
<1>4. ASSUME NEW more, NEW col, col.name \notin {"id", "role"}, col.name \notin Names(more)
      PROVE  Without(UserCols(more \union {col}), {col.name}) = UserCols(more)
  BY <1>4, ColumnFacts DEF Without, UserCols, Names
<1>5. \A cols : Without(cols, {}) = cols
  BY DEF Without
<1> QED BY <1>1, <1>2, <1>3, <1>4, <1>5

LEMMA NamesAre ==
    /\ \A m : Names(ProductCols(m)) = {"id", "name", "variation", "base_price", "price_change"}
    /\ \A m, more : Names(OrderCols(m, more)) = {"id", "status", "total_price"} \union Names(more)
    /\ \A more : Names(UserCols(more)) = {"id", "role"} \union Names(more)
    /\ Names({}) = {} /\ (\A c : Names({c}) = {c.name}) /\ (\A c, d : Names({c, d}) = {c.name, d.name})
    /\ CreatedAt.name = "created_at" /\ Email.name = "email"
<1>1. \A m : Names(ProductCols(m)) = {"id", "name", "variation", "base_price", "price_change"}
  BY ColumnFacts DEF Names, ProductCols
<1>2. \A m, more : Names(OrderCols(m, more)) = {"id", "status", "total_price"} \union Names(more)
  BY ColumnFacts DEF Names, OrderCols
<1>3. \A more : Names(UserCols(more)) = {"id", "role"} \union Names(more)
  BY ColumnFacts DEF Names, UserCols
<1>4. Names({}) = {} /\ (\A c : Names({c}) = {c.name}) /\ (\A c, d : Names({c, d}) = {c.name, d.name})
  BY DEF Names
<1>5. CreatedAt.name = "created_at" /\ Email.name = "email"
  BY ColumnFacts DEF CreatedAt, Email
<1> QED BY <1>1, <1>2, <1>3, <1>4, <1>5

(* ... and the way through each upgrade: from the columns of the revision   *)
(* before it to its own, with copies that find what they ask for.           *)
LEMMA UpgradesOfTables ==
    /\ Passes(TRUE, Upgrades[3], SchemaAt(2), SchemaAt(3))
    /\ Passes(TRUE, Upgrades[4], SchemaAt(3), SchemaAt(4))
    /\ Passes(TRUE, Upgrades[5], SchemaAt(4), SchemaAt(5))
    /\ Passes(TRUE, Upgrades[6], SchemaAt(5), SchemaAt(6))
    /\ Passes(TRUE, Upgrades[7], SchemaAt(6), SchemaAt(7))
    /\ Passes(TRUE, Upgrades[8], SchemaAt(7), SchemaAt(8))
<1>1. Passes(TRUE, Upgrades[3], SchemaAt(2), SchemaAt(3))
  <2>1. Upgrades[3] = Batch("orders", {}, {CreatedAt})
    BY DEF Upgrades, AddCreatedAt, CreatedAt
  <2>2. /\ TablesOf(3) = TablesOf(2) /\ "orders" \in TablesOf(2) \intersect Batched
        /\ Agree(2, 3, TablesOf(2) \ {"orders"})
    BY TablesAre, ColumnsAre DEF Agree, Batched
  <2>3. ColumnsOf("orders", 2) = OrderCols("float", {}) /\ ColumnsOf("orders", 3) = OrderCols("float", {CreatedAt})
    BY ColumnsAre
  <2>4. ColumnsOf("orders", 3) = Without(ColumnsOf("orders", 2), {}) \union {CreatedAt}
    BY <2>3, WithoutFacts DEF OrderCols
  <2>5. \A c \in ColumnsOf("orders", 3) : Required(c) => c.name \in Names(ColumnsOf("orders", 2))
    <3>1. ~Required(CreatedAt)
      BY ColumnFacts DEF Required, CreatedAt
    <3>2. ColumnsOf("orders", 3) = ColumnsOf("orders", 2) \union {CreatedAt}
      BY <2>4, WithoutFacts
    <3> QED BY <3>1, <3>2 DEF Names
  <2> QED BY <2>1, <2>2, <2>4, <2>5, BatchPasses
<1>2. Passes(TRUE, Upgrades[4], SchemaAt(3), SchemaAt(4))
  <2>1. ColumnsOf("users", 4) = {Key("id"), Email} \union Plain({"role"})
    <3>1. ColumnsOf("users", 4) = UserCols({Email})
      BY ColumnsAre
    <3> QED BY <3>1, ColumnFacts DEF UserCols
  <2>2. Upgrades[4] = << Create("users", ColumnsOf("users", 4)) >>
    BY <2>1 DEF Upgrades, AddUsersTable, Email
  <2>3. /\ TablesOf(4) = TablesOf(3) \union {"users"} /\ "users" \notin TablesOf(3)
        /\ Agree(3, 4, TablesOf(3))
    BY TablesAre, ColumnsAre DEF Agree
  <2> QED BY <2>2, <2>3, CreatePasses
<1>3. Passes(TRUE, Upgrades[5], SchemaAt(4), SchemaAt(5))
  <2>1. ColumnsOf("idempotency_keys", 5) = IdempotencyKeysTable
    BY ColumnsAre
  <2>2. Upgrades[5] = << Create("idempotency_keys", ColumnsOf("idempotency_keys", 5)) >>
    BY <2>1 DEF Upgrades, AddIdempotencyKeysTable, IdempotencyKeysTable
  <2>3. /\ TablesOf(5) = TablesOf(4) \union {"idempotency_keys"} /\ "idempotency_keys" \notin TablesOf(4)
        /\ Agree(4, 5, TablesOf(4))
    BY TablesAre, ColumnsAre DEF Agree
  <2> QED BY <2>2, <2>3, CreatePasses
<1>4. Passes(TRUE, Upgrades[6], SchemaAt(5), SchemaAt(6))
  <2>1. Upgrades[6] = << AddColumn("users", Col("password_hash", {})) >>
    BY DEF Upgrades, AddPasswordHash
  <2>2. /\ TablesOf(6) = TablesOf(5) /\ "users" \in TablesOf(5)
        /\ Agree(5, 6, TablesOf(5) \ {"users"})
    BY TablesAre, ColumnsAre DEF Agree
  <2>3. ColumnsOf("users", 5) = UserCols({Email}) /\ ColumnsOf("users", 6) = UserCols({Email, Col("password_hash", {})})
    BY ColumnsAre
  <2>4. ColumnsOf("users", 6) = ColumnsOf("users", 5) \union {Col("password_hash", {})}
    BY <2>3 DEF UserCols
  <2>5. Col("password_hash", {}).name \notin Names(ColumnsOf("users", 5))
    BY <2>3, NamesAre, ColumnFacts
  <2> QED BY <2>1, <2>2, <2>4, <2>5, AddPasses
<1>5. Passes(TRUE, Upgrades[7], SchemaAt(6), SchemaAt(7))
  <2>1. Upgrades[7] = << AddColumn("orders", Col("user_id", {"null"})) >>
    BY DEF Upgrades, AddUserId
  <2>2. /\ TablesOf(7) = TablesOf(6) /\ "orders" \in TablesOf(6)
        /\ Agree(6, 7, TablesOf(6) \ {"orders"})
    BY TablesAre, ColumnsAre DEF Agree
  <2>3. /\ ColumnsOf("orders", 6) = OrderCols("float", {CreatedAt})
        /\ ColumnsOf("orders", 7) = OrderCols("float", {CreatedAt, Col("user_id", {"null"})})
    BY ColumnsAre
  <2>4. ColumnsOf("orders", 7) = ColumnsOf("orders", 6) \union {Col("user_id", {"null"})}
    BY <2>3 DEF OrderCols
  <2>5. Col("user_id", {"null"}).name \notin Names(ColumnsOf("orders", 6))
    BY <2>3, NamesAre, ColumnFacts
  <2> QED BY <2>1, <2>2, <2>4, <2>5, AddPasses
<1>6. Passes(TRUE, Upgrades[8], SchemaAt(7), SchemaAt(8))
  <2>1. ColumnsOf("revoked_tokens", 8) = RevokedTokensTable
    BY ColumnsAre
  <2>2. Upgrades[8] = << Create("revoked_tokens", ColumnsOf("revoked_tokens", 8)) >>
    BY <2>1 DEF Upgrades, CreateRevokedTokens, RevokedTokensTable
  <2>3. /\ TablesOf(8) = TablesOf(7) \union {"revoked_tokens"} /\ "revoked_tokens" \notin TablesOf(7)
        /\ Agree(7, 8, TablesOf(7))
    BY TablesAre, ColumnsAre DEF Agree
  <2> QED BY <2>2, <2>3, CreatePasses
<1> QED BY <1>1, <1>2, <1>3, <1>4, <1>5, <1>6

(* Scripts of several parts.                                                *)
LEMMA JoinedPass ==
    ASSUME NEW f \in BOOLEAN, NEW A, NEW S \in Seq(A), NEW T \in Seq(A), NEW x, NEW y, NEW z,
           Passes(f, S, x, y), Passes(f, T, y, z)
    PROVE  Passes(f, S \o T, x, z)
<1>1. Len(S) \in Nat /\ Len(T) \in Nat /\ Len(S \o T) = Len(S) + Len(T)
  OBVIOUS
<1>2. \A i \in 1..Len(S) : (S \o T)[i] = S[i]
  OBVIOUS
<1>3. ASSUME NEW i \in 1..Len(T)
      PROVE  (S \o T)[Len(S) + i] = T[i]
  <2>1. Len(S) + i \in 1..Len(S) + Len(T) /\ Len(S) + i > Len(S) /\ (Len(S) + i) - Len(S) = i
    BY <1>1
  <2> QED BY <2>1
<1>4. PICK R : R = S \o T
  OBVIOUS
<1>5. Joins(S, T, R)
  BY <1>1, <1>2, <1>3, <1>4 DEF Joins
<1>6. Passes(f, R, x, z)
  BY <1>5, BothPass
<1> QED BY <1>4, <1>6

Parts(t, gone, added) ==
    {[op |-> "recreate", table |-> t, gone |-> gone, added |-> added], Copy(t), Drop(t), Rename(t)}

LEMMA BatchIsSeq ==
    ASSUME NEW t, NEW gone, NEW added, NEW A, Parts(t, gone, added) \subseteq A
    PROVE  Batch(t, gone, added) \in Seq(A)
<1>1. PICK r, c, d, e : /\ r = [op |-> "recreate", table |-> t, gone |-> gone, added |-> added]
                        /\ c = Copy(t) /\ d = Drop(t) /\ e = Rename(t)
  OBVIOUS
<1>2. Batch(t, gone, added) = << r, c, d, e >>
  BY <1>1 DEF Batch, Copy, Rename
<1>3. r \in A /\ c \in A /\ d \in A /\ e \in A
  BY <1>1 DEF Parts
<1> QED BY <1>2, <1>3

LEMMA FourPass ==
    ASSUME NEW f \in BOOLEAN, NEW a, NEW b, NEW c, NEW d,
           NEW x, NEW xa, NEW xb, NEW xc, NEW xd,
           Fits(a, x), a.op # "copy", xa = ColsAfter(a, x),
           Fits(b, xa), b.op # "copy", xb = ColsAfter(b, xa),
           Fits(c, xb), c.op # "copy", xc = ColsAfter(c, xb),
           Fits(d, xc), d.op # "copy", xd = ColsAfter(d, xc)
    PROVE  Passes(f, << a, b, c, d >>, x, xd)
<1>1. Passes(f, <<a>>, x, xa) /\ Passes(f, <<b>>, xa, xb)
  BY OnePasses
<1>2. Passes(f, <<c>>, xb, xc) /\ Passes(f, <<d>>, xc, xd)
  BY OnePasses
<1>3. ASSUME NEW q, NEW r, NEW y, NEW z, NEW w, Passes(f, <<q>>, y, z), Passes(f, <<r>>, z, w)
      PROVE  Passes(f, <<q, r>>, y, w)
  <2>1. PICK S, T, R : S = <<q>> /\ T = <<r>> /\ R = <<q, r>>
    OBVIOUS
  <2>2. /\ Len(S) = 1 /\ Len(T) = 1 /\ Len(R) = 2
        /\ R[1] = S[1] /\ R[2] = T[1]
    BY <2>1
  <2>3. Joins(S, T, R)
    BY <2>2 DEF Joins
  <2>4. Passes(f, S, y, z) /\ Passes(f, T, z, w)
    BY <2>1, <1>3
  <2>5. Passes(f, R, y, w)
    BY ONLY f \in BOOLEAN, <2>3, <2>4, BothPass
  <2> QED BY <2>1, <2>5
<1>4. Passes(f, <<a, b>>, x, xb) /\ Passes(f, <<c, d>>, xb, xd)
  BY <1>1, <1>2, <1>3
<1>5. PICK S, T, R : S = <<a, b>> /\ T = <<c, d>> /\ R = <<a, b, c, d>>
  OBVIOUS
<1>6. /\ Len(S) = 2 /\ Len(T) = 2 /\ Len(R) = 4
      /\ R[1] = S[1] /\ R[2] = S[2] /\ R[3] = T[1] /\ R[4] = T[2]
  BY <1>5
<1>7. Joins(S, T, R)
  BY <1>6 DEF Joins
<1>8. Passes(f, S, x, xb) /\ Passes(f, T, xb, xd)
  BY <1>4, <1>5
<1>9. Passes(f, R, x, xd)
  BY ONLY f \in BOOLEAN, <1>7, <1>8, BothPass
<1> QED BY <1>5, <1>9

(* The first revision creates its four tables and drops them again.         *)
LEMMA FirstTables ==
    /\ Passes(TRUE, Upgrades[1], SchemaAt(0), SchemaAt(1))
    /\ Passes(FALSE, Downgrades[1], SchemaAt(1), SchemaAt(0))
<1>1. /\ TablesOf(0) = {} /\ TablesOf(1) = {"products", "orders", "order_products", "users"}
      /\ DOMAIN SchemaAt(0) = {} /\ DOMAIN SchemaAt(1) = TablesOf(1)
  BY TablesAre, SchemaFacts
<1>2. Passes(TRUE, Upgrades[1], SchemaAt(0), SchemaAt(1))
  <2> DEFINE made(t) == Create(t, ColumnsOf(t, 1))
             after(x, t) == With(x, t, ColumnsOf(t, 1))
  <2>1. Upgrades[1] = << made("products"), made("users"), made("orders"), made("order_products") >>
    <3>1. /\ ColumnsOf("products", 1) = ProductCols("float")
          /\ ColumnsOf("users", 1) = UserCols({})
          /\ ColumnsOf("orders", 1) = OrderCols("float", {Col("user_id", {})})
          /\ ColumnsOf("order_products", 1) = Plain({"order_id", "product_id"})
      BY ColumnsAre DEF OrderProductsTable
    <3>2. ProductCols("float") = {Key("id"), Col("base_price", {"float"}), Col("price_change", {"float"})}
                                   \union Plain({"name", "variation"})
      <4>1. Plain({"name", "variation"}) = {Col("name", {}), Col("variation", {})}
        BY ColumnFacts
      <4> QED BY <4>1 DEF ProductCols
    <3>3. UserCols({}) = {Key("id")} \union Plain({"role"})
      BY ColumnFacts DEF UserCols
    <3>4. OrderCols("float", {Col("user_id", {})})
            = {Key("id"), Col("total_price", {"float"})} \union Plain({"status", "user_id"})
      <4>1. Plain({"status", "user_id"}) = {Col("status", {}), Col("user_id", {})}
        BY ColumnFacts
      <4> QED BY <4>1 DEF OrderCols
    <3> QED BY <3>1, <3>2, <3>3, <3>4 DEF Upgrades, CreateInitial
  <2>2. \A x, t : /\ DOMAIN after(x, t) = DOMAIN x \union {t} /\ after(x, t)[t] = ColumnsOf(t, 1)
                  /\ \A u \in DOMAIN x \ {t} : after(x, t)[u] = x[u]
                  /\ after(x, t) = [u \in DOMAIN after(x, t) |-> after(x, t)[u]]
    BY DEF With
  <2>3. \A x, t : t \notin DOMAIN x => Fits(made(t), x)
    BY DEF Fits, Create
  <2>4. \A x, t : ColsAfter(made(t), x) = after(x, t) /\ made(t).op # "copy"
    BY DEF ColsAfter, Create
  <2> HIDE DEF made, after
  <2>5. PICK x, xa, xb, xc, xd :
           x = SchemaAt(0) /\ xa = after(x, "products") /\ xb = after(xa, "users")
           /\ xc = after(xb, "orders") /\ xd = after(xc, "order_products")
    OBVIOUS
  <2>6. /\ DOMAIN x = {} /\ DOMAIN xa = {"products"} /\ DOMAIN xb = {"products", "users"}
        /\ DOMAIN xc = {"products", "users", "orders"}
        /\ DOMAIN xd = {"products", "users", "orders", "order_products"}
    <3>1. DOMAIN x = {} /\ DOMAIN xa = DOMAIN x \union {"products"}
      BY <2>2, <2>5, <1>1
    <3>2. DOMAIN xb = DOMAIN xa \union {"users"} /\ DOMAIN xc = DOMAIN xb \union {"orders"}
      BY <2>2, <2>5
    <3>3. DOMAIN xd = DOMAIN xc \union {"order_products"}
      BY <2>2, <2>5
    <3> QED BY <3>1, <3>2, <3>3
  <2>7. Fits(made("products"), x) /\ Fits(made("users"), xa) /\ Fits(made("orders"), xb)
        /\ Fits(made("order_products"), xc)
    BY <2>3, <2>6
  <2>8. xd = SchemaAt(1)
    <3>1. /\ xd["products"] = ColumnsOf("products", 1) /\ xd["users"] = ColumnsOf("users", 1)
          /\ xd["orders"] = ColumnsOf("orders", 1)
          /\ xd["order_products"] = ColumnsOf("order_products", 1)
      BY <2>2, <2>5, <2>6
    <3>2. DOMAIN xd = TablesOf(1) /\ \A t \in TablesOf(1) : xd[t] = ColumnsOf(t, 1)
      BY <3>1, <2>6, <1>1
    <3>3. xd = [t \in DOMAIN xd |-> xd[t]]
      BY <2>2, <2>5
    <3> QED BY <3>2, <3>3, SchemaIs
  <2>9. /\ ColsAfter(made("products"), x) = xa /\ ColsAfter(made("users"), xa) = xb
        /\ ColsAfter(made("orders"), xb) = xc /\ ColsAfter(made("order_products"), xc) = xd
    BY <2>4, <2>5
  <2>10. Passes(TRUE, << made("products"), made("users"), made("orders"), made("order_products") >>, x, xd)
    BY <2>4, <2>7, <2>9, FourPass
  <2> QED BY <2>1, <2>5, <2>8, <2>10
<1>3. Passes(FALSE, Downgrades[1], SchemaAt(1), SchemaAt(0))
  <2>1. Downgrades[1] = << Drop("order_products"), Drop("orders"), Drop("users"), Drop("products") >>
    BY FirstRevision
  <2>2. PICK x, xa, xb, xc, xd :
           x = SchemaAt(1) /\ xa = Less(x, "order_products") /\ xb = Less(xa, "orders")
           /\ xc = Less(xb, "users") /\ xd = Less(xc, "products")
    OBVIOUS
  <2>3. /\ DOMAIN x = {"products", "users", "orders", "order_products"}
        /\ DOMAIN xa = {"products", "users", "orders"} /\ DOMAIN xb = {"products", "users"}
        /\ DOMAIN xc = {"products"} /\ DOMAIN xd = {}
    BY <2>2, <1>1 DEF Less
  <2>4. Fits(Drop("order_products"), x) /\ Fits(Drop("orders"), xa) /\ Fits(Drop("users"), xb)
        /\ Fits(Drop("products"), xc)
    BY <2>3 DEF Fits, Drop
  <2>5. \A y, t : ColsAfter(Drop(t), y) = Less(y, t) /\ Drop(t).op # "copy"
    BY DEF ColsAfter, Drop
  <2>6. xd = SchemaAt(0)
    <3>1. xd = [t \in DOMAIN xd |-> xd[t]]
      BY <2>2 DEF Less
    <3> QED BY <3>1, <2>3, <1>1, SchemaIs
  <2>7. Passes(FALSE, << Drop("order_products"), Drop("orders"), Drop("users"), Drop("products") >>, x, xd)
    <3>1. PICK a, b, c, d : /\ a = Drop("order_products") /\ b = Drop("orders")
                            /\ c = Drop("users") /\ d = Drop("products")
      OBVIOUS
    <3>2. /\ Fits(a, x) /\ Fits(b, xa) /\ Fits(c, xb) /\ Fits(d, xc)
          /\ a.op # "copy" /\ b.op # "copy" /\ c.op # "copy" /\ d.op # "copy"
          /\ xa = ColsAfter(a, x) /\ xb = ColsAfter(b, xa) /\ xc = ColsAfter(c, xb) /\ xd = ColsAfter(d, xc)
      BY <3>1, <2>2, <2>4, <2>5
    <3>3. Passes(FALSE, << a, b, c, d >>, x, xd)
      BY <3>2, FourPass
    <3> QED BY <3>1, <3>3
  <2> QED BY <2>1, <2>2, <2>6, <2>7
<1> QED BY <1>2, <1>3

(* The second removes the users it finds, and brings them back.             *)
LEMMA UsersTableGoes ==
    Passes(TRUE, Upgrades[2], SchemaAt(1), SchemaAt(2))
<1> DEFINE S == Batch("orders", {"user_id"}, {})
           T == << DropIfExists("users") >>
           y == [SchemaAt(1) EXCEPT !["orders"] = ColumnsOf("orders", 2)]
<1>1. /\ TablesOf(1) = {"products", "orders", "order_products", "users"}
      /\ TablesOf(2) = {"products", "orders", "order_products"}
      /\ "orders" \in Batched
  BY TablesAre DEF Batched
<1>2. ColumnsOf("orders", 2) = Without(ColumnsOf("orders", 1), {"user_id"}) \union {}
  <2>1. ColumnsOf("orders", 2) = OrderCols("float", {})
    BY ColumnsAre
  <2>2. ColumnsOf("orders", 1) = OrderCols("float", {} \union {Col("user_id", {})})
    BY ColumnsAre
  <2>3. Col("user_id", {}).name = "user_id" /\ Names({}) = {}
    BY ColumnFacts, NamesAre
  <2>4. Without(OrderCols("float", {} \union {Col("user_id", {})}), {"user_id"}) = OrderCols("float", {})
    BY <2>3, WithoutFacts
  <2> QED BY <2>1, <2>2, <2>4
<1>3. \A c \in ColumnsOf("orders", 2) : c.name \in Names(ColumnsOf("orders", 1))
  BY <1>2 DEF Names, Without
<1>4. Passes(TRUE, S, SchemaAt(1), y)
  <2>1. SchemaAt(1)["orders"] = ColumnsOf("orders", 1) /\ "orders" \in DOMAIN SchemaAt(1)
        /\ SchemaAt(1) = [u \in DOMAIN SchemaAt(1) |-> SchemaAt(1)[u]]
    BY <1>1, SchemaFacts
  <2> QED BY <2>1, <1>1, <1>2, <1>3, NoTemporary, BatchLeads
<1>5. Passes(TRUE, T, y, SchemaAt(2))
  <2>1. /\ Fits(DropIfExists("users"), y) /\ DropIfExists("users").op # "copy"
        /\ ColsAfter(DropIfExists("users"), y) = Less(y, "users")
    BY DEF Fits, ColsAfter, DropIfExists
  <2>2. DOMAIN y = TablesOf(1) /\ y["orders"] = ColumnsOf("orders", 2)
        /\ y["products"] = ColumnsOf("products", 1)
        /\ y["order_products"] = ColumnsOf("order_products", 1)
    BY <1>1, SchemaFacts
  <2>3. ColumnsOf("products", 1) = ColumnsOf("products", 2)
        /\ ColumnsOf("order_products", 1) = ColumnsOf("order_products", 2)
    BY ColumnsAre
  <2> HIDE DEF y
  <2>4. Less(y, "users") = [u \in DOMAIN Less(y, "users") |-> Less(y, "users")[u]]
        /\ DOMAIN Less(y, "users") = TablesOf(2)
    BY <2>2, <1>1 DEF Less
  <2>5. \A t \in TablesOf(2) : Less(y, "users")[t] = ColumnsOf(t, 2)
    BY <2>2, <2>3, <1>1 DEF Less
  <2>6. Less(y, "users") = SchemaAt(2)
    BY <2>4, <2>5, SchemaIs
  <2> QED BY <2>1, <2>6, OnePasses
<1>6. Upgrades[2] = S \o T
  BY DEF Upgrades, RemoveUsersTable
<1>7. PICK A : S \in Seq(A) /\ T \in Seq(A)
  <2> DEFINE A == Parts("orders", {"user_id"}, {}) \union {DropIfExists("users")}
  <2>1. S \in Seq(A)
    BY BatchIsSeq
  <2>2. T \in Seq(A)
    OBVIOUS
  <2> QED BY <2>1, <2>2
<1> HIDE DEF S, T, y
<1> QED BY <1>4, <1>5, <1>6, <1>7, JoinedPass

LEMMA UsersTableReturns ==
    Passes(FALSE, Downgrades[2], SchemaAt(2), SchemaAt(1))
<1> DEFINE cols == ColumnsOf("users", 1)
           S == << Create("users", cols) >>
           T == Batch("orders", {}, Plain({"user_id"}))
           y == With(SchemaAt(2), "users", cols)
           z == [y EXCEPT !["orders"] = ColumnsOf("orders", 1)]
<1>1. /\ TablesOf(1) = {"products", "orders", "order_products", "users"}
      /\ TablesOf(2) = {"products", "orders", "order_products"}
      /\ "orders" \in Batched
  BY TablesAre DEF Batched
<1>2. ColumnsOf("orders", 1) = Without(ColumnsOf("orders", 2), {}) \union Plain({"user_id"})
  <2>1. ColumnsOf("orders", 1) = OrderCols("float", {Col("user_id", {})})
        /\ ColumnsOf("orders", 2) = OrderCols("float", {}) /\ Plain({"user_id"}) = {Col("user_id", {})}
    BY ColumnsAre, ColumnFacts
  <2> QED BY <2>1, WithoutFacts DEF OrderCols
<1>3. cols = {Key("id")} \union Plain({"role"})
  BY ColumnsAre, ColumnFacts DEF UserCols
<1> HIDE DEF cols
<1>4. Passes(FALSE, S, SchemaAt(2), y)
  <2>1. "users" \notin DOMAIN SchemaAt(2)
    BY <1>1, SchemaFacts
  <2>2. /\ Fits(Create("users", cols), SchemaAt(2)) /\ Create("users", cols).op # "copy"
        /\ ColsAfter(Create("users", cols), SchemaAt(2)) = y
    BY <2>1 DEF Fits, ColsAfter, Create
  <2> QED BY <2>2, OnePasses
<1>5. /\ DOMAIN y = TablesOf(1) /\ y["users"] = cols
      /\ \A t \in TablesOf(2) : y[t] = ColumnsOf(t, 2)
      /\ y = [u \in DOMAIN y |-> y[u]]
  BY <1>1, SchemaFacts DEF With
<1> HIDE DEF y
<1>6. Passes(FALSE, T, y, z)
  <2>1. Tmp("orders") \notin DOMAIN y
    <3>1. Tmp("orders") \notin DOMAIN SchemaAt(1) /\ DOMAIN SchemaAt(1) = TablesOf(1)
      BY <1>1, NoTemporary, SchemaFacts
    <3> QED BY <3>1, <1>5
  <2>2. ColumnsOf("orders", 1) = Without(y["orders"], {}) \union Plain({"user_id"})
    BY <1>1, <1>2, <1>5
  <2> QED BY <2>1, <2>2, <1>1, <1>5, BatchLeads
<1>7. z = SchemaAt(1)
  <2>1. z = [u \in DOMAIN z |-> z[u]] /\ DOMAIN z = TablesOf(1)
    BY <1>5
  <2>2. ColumnsOf("products", 1) = ColumnsOf("products", 2)
        /\ ColumnsOf("order_products", 1) = ColumnsOf("order_products", 2)
    BY ColumnsAre
  <2>3. \A t \in TablesOf(1) : z[t] = ColumnsOf(t, 1)
    BY <2>2, <1>1, <1>5 DEF cols
  <2> HIDE DEF z
  <2> QED BY <2>1, <2>3, SchemaIs
<1>8. Downgrades[2] = S \o T
  BY <1>3 DEF Downgrades, RestoreUsersTable
<1>9. PICK A : S \in Seq(A) /\ T \in Seq(A)
  <2> DEFINE A == Parts("orders", {}, Plain({"user_id"})) \union {Create("users", cols)}
  <2>1. T \in Seq(A)
    BY BatchIsSeq
  <2>2. S \in Seq(A)
    OBVIOUS
  <2> QED BY <2>1, <2>2
<1> HIDE DEF S, T, z
<1> QED BY <1>4, <1>6, <1>7, <1>8, <1>9, JoinedPass

(* The last one changes the type of the prices and of the totals, in one    *)
(* order up and in the other down.                                          *)
LEMMA PricesPass ==
    ASSUME NEW x, x = [u \in DOMAIN x |-> x[u]], "products" \in DOMAIN x, Tmp("products") \notin DOMAIN x,
           NEW old, NEW new, x["products"] = ProductCols(old)
    PROVE  Passes(TRUE, Prices(new), x, [x EXCEPT !["products"] = ProductCols(new)])
<1>1. PICK gone, added, cols :
         /\ gone = {"base_price", "price_change"} /\ cols = ProductCols(new)
         /\ added = {Col("base_price", {new}), Col("price_change", {new})}
  OBVIOUS
<1>2. Prices(new) = Batch("products", gone, added)
  BY <1>1 DEF Prices
<1>3. cols = Without(x["products"], gone) \union added
  BY <1>1, WithoutFacts
<1>4. \A c \in cols : c.name \in Names(x["products"])
  <2>1. Names(cols) = Names(x["products"])
    BY <1>1, NamesAre
  <2> QED BY <2>1 DEF Names
<1>5. "products" \in Batched
  BY DEF Batched
<1>6. Passes(TRUE, Batch("products", gone, added), x, [x EXCEPT !["products"] = cols])
  BY <1>3, <1>4, <1>5, BatchLeads
<1> QED BY <1>1, <1>2, <1>6

LEMMA TotalsPass ==
    ASSUME NEW x, x = [u \in DOMAIN x |-> x[u]], "orders" \in DOMAIN x, Tmp("orders") \notin DOMAIN x,
           NEW old, NEW new, NEW more, "total_price" \notin Names(more),
           x["orders"] = OrderCols(old, more)
    PROVE  Passes(TRUE, Totals(new), x, [x EXCEPT !["orders"] = OrderCols(new, more)])
<1>1. PICK gone, added, cols :
         /\ gone = {"total_price"} /\ cols = OrderCols(new, more)
         /\ added = {Col("total_price", {new})}
  OBVIOUS
<1>2. Totals(new) = Batch("orders", gone, added)
  BY <1>1 DEF Totals
<1>3. cols = Without(x["orders"], gone) \union added
  BY <1>1, WithoutFacts
<1>4. \A c \in cols : c.name \in Names(x["orders"])
  <2>1. Names(cols) = {"id", "status", "total_price"} \union Names(more)
    BY <1>1, NamesAre
  <2>2. Names(x["orders"]) = {"id", "status", "total_price"} \union Names(more)
    BY NamesAre
  <2> QED BY <2>1, <2>2 DEF Names
<1>5. "orders" \in Batched
  BY DEF Batched
<1>6. Passes(TRUE, Batch("orders", gone, added), x, [x EXCEPT !["orders"] = cols])
  BY <1>3, <1>4, <1>5, BatchLeads
<1> QED BY <1>1, <1>2, <1>6

LEMMA MoneyChanges ==
    ASSUME NEW v \in 8..9, NEW w \in 8..9, NEW old, NEW new, NEW more, "total_price" \notin Names(more),
           ColumnsOf("products", v) = ProductCols(old), ColumnsOf("products", w) = ProductCols(new),
           ColumnsOf("orders", v) = OrderCols(old, more), ColumnsOf("orders", w) = OrderCols(new, more)
    PROVE  /\ Passes(TRUE, Prices(new) \o Totals(new), SchemaAt(v), SchemaAt(w))
           /\ Passes(TRUE, Totals(new) \o Prices(new), SchemaAt(v), SchemaAt(w))
<1>1. PICK x, p, o, z : /\ x = SchemaAt(v)
                        /\ p = [x EXCEPT !["products"] = ProductCols(new)]
                        /\ o = [x EXCEPT !["orders"] = OrderCols(new, more)]
                        /\ z = [p EXCEPT !["orders"] = OrderCols(new, more)]
  OBVIOUS
<1>2. /\ TablesOf(v) = TablesOf(w) /\ {"orders", "products"} = Batched
      /\ "orders" \in TablesOf(v) /\ "products" \in TablesOf(v)
      /\ Agree(v, w, TablesOf(v) \ {"orders", "products"})
  <2>1. \A r \in 8..9 : r \in 0..9 /\ r \in 6..9
    OBVIOUS
  <2> QED BY <2>1, TablesAre, ColumnsAre DEF Agree, Batched
<1>3. /\ DOMAIN x = TablesOf(v) /\ x = [t \in DOMAIN x |-> x[t]]
      /\ \A t \in TablesOf(v) : x[t] = ColumnsOf(t, v)
      /\ Tmp("orders") \notin DOMAIN x /\ Tmp("products") \notin DOMAIN x
  BY <1>1, <1>2, SchemaFacts, NoTemporary
<1>4. /\ DOMAIN p = DOMAIN x /\ p = [t \in DOMAIN p |-> p[t]] /\ p["orders"] = OrderCols(old, more)
      /\ DOMAIN o = DOMAIN x /\ o = [t \in DOMAIN o |-> o[t]] /\ o["products"] = ProductCols(old)
  BY <1>1, <1>2, <1>3
<1>5. z = SchemaAt(w)
  <2>1. z = [t \in DOMAIN z |-> z[t]] /\ DOMAIN z = TablesOf(w)
    BY <1>1, <1>2, <1>3
  <2>2. z["orders"] = ColumnsOf("orders", w) /\ z["products"] = ColumnsOf("products", w)
        /\ \A t \in TablesOf(v) \ {"orders", "products"} : z[t] = ColumnsOf(t, v)
    BY <1>1, <1>2, <1>3
  <2>3. \A t \in TablesOf(w) : z[t] = ColumnsOf(t, w)
    BY <2>2, <1>2 DEF Agree
  <2> QED BY <2>1, <2>3, SchemaIs
<1>6. z = [o EXCEPT !["products"] = ProductCols(new)]
  BY <1>1, <1>2, <1>3
<1>7. Passes(TRUE, Prices(new), x, p) /\ Passes(TRUE, Prices(new), o, z)
  <2>1. x["products"] = ProductCols(old)
    BY <1>2, <1>3
  <2>2. Passes(TRUE, Prices(new), x, [x EXCEPT !["products"] = ProductCols(new)])
    BY <2>1, <1>2, <1>3, PricesPass
  <2>3. Passes(TRUE, Prices(new), o, [o EXCEPT !["products"] = ProductCols(new)])
    BY <1>2, <1>3, <1>4, PricesPass
  <2> QED BY <2>2, <2>3, <1>1, <1>6
<1>8. Passes(TRUE, Totals(new), x, o) /\ Passes(TRUE, Totals(new), p, z)
  <2>1. x["orders"] = OrderCols(old, more)
    BY <1>2, <1>3
  <2>2. Passes(TRUE, Totals(new), x, [x EXCEPT !["orders"] = OrderCols(new, more)])
    BY <2>1, <1>2, <1>3, TotalsPass
  <2>3. Passes(TRUE, Totals(new), p, [p EXCEPT !["orders"] = OrderCols(new, more)])
    BY <1>2, <1>3, <1>4, TotalsPass
  <2> QED BY <2>2, <2>3, <1>1
<1>9. PICK A : Prices(new) \in Seq(A) /\ Totals(new) \in Seq(A)
  <2>1. PICK gone, added, sums : /\ gone = {"base_price", "price_change"}
                                 /\ added = {Col("base_price", {new}), Col("price_change", {new})}
                                 /\ sums = {Col("total_price", {new})}
    OBVIOUS
  <2> DEFINE A == Parts("products", gone, added) \union Parts("orders", {"total_price"}, sums)
  <2>2. Prices(new) \in Seq(A) /\ Totals(new) \in Seq(A)
    BY <2>1, BatchIsSeq DEF Prices, Totals
  <2> QED BY <2>2
<1>10. Passes(TRUE, Prices(new) \o Totals(new), x, z)
  BY <1>7, <1>8, <1>9, JoinedPass
<1>11. Passes(TRUE, Totals(new) \o Prices(new), x, z)
  BY <1>7, <1>8, <1>9, JoinedPass
<1> QED BY <1>1, <1>5, <1>10, <1>11

(* The way through the other downgrades.                                    *)
LEMMA DowngradesOfTables ==
    /\ Passes(FALSE, Downgrades[3], SchemaAt(3), SchemaAt(2))
    /\ Passes(FALSE, Downgrades[4], SchemaAt(4), SchemaAt(3))
    /\ Passes(FALSE, Downgrades[5], SchemaAt(5), SchemaAt(4))
    /\ Passes(FALSE, Downgrades[6], SchemaAt(6), SchemaAt(5))
    /\ Passes(FALSE, Downgrades[7], SchemaAt(7), SchemaAt(6))
    /\ Passes(FALSE, Downgrades[8], SchemaAt(8), SchemaAt(7))
<1>1. Passes(FALSE, Downgrades[3], SchemaAt(3), SchemaAt(2))
  <2>1. Downgrades[3] = Batch("orders", {"created_at"}, {})
    BY DEF Downgrades, DropCreatedAt
  <2>2. /\ TablesOf(3) = TablesOf(2) /\ "orders" \in TablesOf(3) \intersect Batched
        /\ Agree(3, 2, TablesOf(3) \ {"orders"})
    BY TablesAre, ColumnsAre DEF Agree, Batched
  <2>3. /\ ColumnsOf("orders", 2) = OrderCols("float", {})
        /\ ColumnsOf("orders", 3) = OrderCols("float", {} \union {CreatedAt})
    BY ColumnsAre
  <2>4. CreatedAt.name = "created_at" /\ Names({}) = {}
    BY NamesAre
  <2>5. Without(OrderCols("float", {} \union {CreatedAt}), {"created_at"}) = OrderCols("float", {})
    BY <2>4, WithoutFacts
  <2>6. ColumnsOf("orders", 2) = Without(ColumnsOf("orders", 3), {"created_at"}) \union {}
    BY <2>3, <2>5
  <2> QED BY <2>1, <2>2, <2>6, BatchPasses
<1>2. Passes(FALSE, Downgrades[4], SchemaAt(4), SchemaAt(3))
  <2>1. Downgrades[4] = << Drop("users") >>
    BY DEF Downgrades
  <2>2. /\ TablesOf(4) = TablesOf(3) \union {"users"} /\ "users" \notin TablesOf(3)
        /\ Agree(4, 3, TablesOf(3))
    BY TablesAre, ColumnsAre DEF Agree
  <2> QED BY <2>1, <2>2, DropPasses
<1>3. Passes(FALSE, Downgrades[5], SchemaAt(5), SchemaAt(4))
  <2>1. Downgrades[5] = << Drop("idempotency_keys") >>
    BY DEF Downgrades
  <2>2. /\ TablesOf(5) = TablesOf(4) \union {"idempotency_keys"} /\ "idempotency_keys" \notin TablesOf(4)
        /\ Agree(5, 4, TablesOf(4))
    BY TablesAre, ColumnsAre DEF Agree
  <2> QED BY <2>1, <2>2, DropPasses
<1>4. Passes(FALSE, Downgrades[6], SchemaAt(6), SchemaAt(5))
  <2>1. Downgrades[6] = << DropColumn("users", "password_hash") >>
    BY DEF Downgrades, DropPasswordHash
  <2>2. /\ TablesOf(5) = TablesOf(6) /\ "users" \in TablesOf(6)
        /\ Agree(6, 5, TablesOf(6) \ {"users"})
    BY TablesAre, ColumnsAre DEF Agree
  <2>3. PICK col : col = Col("password_hash", {})
    OBVIOUS
  <2>4. ColumnsOf("users", 5) = UserCols({Email}) /\ ColumnsOf("users", 6) = UserCols({Email} \union {col})
    BY <2>3, ColumnsAre DEF UserCols
  <2>5. col.name = "password_hash" /\ Names({Email}) = {"email"}
    BY <2>3, ColumnFacts, NamesAre
  <2>6. Without(UserCols({Email} \union {col}), {col.name}) = UserCols({Email})
    BY <2>5, WithoutFacts
  <2>7. ColumnsOf("users", 5) = Without(ColumnsOf("users", 6), {"password_hash"})
    BY <2>4, <2>5, <2>6
  <2>8. "password_hash" \in Names(ColumnsOf("users", 6))
    BY <2>4, <2>5 DEF Names, UserCols
  <2> QED BY <2>1, <2>2, <2>7, <2>8, RemovePasses
<1>5. Passes(FALSE, Downgrades[7], SchemaAt(7), SchemaAt(6))
  <2>1. Downgrades[7] = << DropColumn("orders", "user_id") >>
    BY DEF Downgrades, DropUserId
  <2>2. /\ TablesOf(6) = TablesOf(7) /\ "orders" \in TablesOf(7)
        /\ Agree(7, 6, TablesOf(7) \ {"orders"})
    BY TablesAre, ColumnsAre DEF Agree
  <2>3. PICK col : col = Col("user_id", {"null"})
    OBVIOUS
  <2>4. /\ ColumnsOf("orders", 6) = OrderCols("float", {CreatedAt})
        /\ ColumnsOf("orders", 7) = OrderCols("float", {CreatedAt} \union {col})
    BY <2>3, ColumnsAre DEF OrderCols
  <2>5. col.name = "user_id" /\ Names({CreatedAt}) = {"created_at"}
    BY <2>3, ColumnFacts, NamesAre
  <2>6. Without(OrderCols("float", {CreatedAt} \union {col}), {col.name}) = OrderCols("float", {CreatedAt})
    BY <2>5, WithoutFacts
  <2>7. ColumnsOf("orders", 6) = Without(ColumnsOf("orders", 7), {"user_id"})
    BY <2>4, <2>5, <2>6
  <2>8. "user_id" \in Names(ColumnsOf("orders", 7))
    BY <2>4, <2>5 DEF Names, OrderCols
  <2> QED BY <2>1, <2>2, <2>7, <2>8, RemovePasses
<1>6. Passes(FALSE, Downgrades[8], SchemaAt(8), SchemaAt(7))
  <2>1. Downgrades[8] = << Drop("revoked_tokens") >>
    BY DEF Downgrades
  <2>2. /\ TablesOf(8) = TablesOf(7) \union {"revoked_tokens"} /\ "revoked_tokens" \notin TablesOf(7)
        /\ Agree(8, 7, TablesOf(7))
    BY TablesAre, ColumnsAre DEF Agree
  <2> QED BY <2>1, <2>2, DropPasses
<1> QED BY <1>1, <1>2, <1>3, <1>4, <1>5, <1>6

(* So every revision leads, up and down, to the columns of the next.        *)
Successor(up, v) == IF up THEN v + 1 ELSE v - 1

LEMMA RevisionsPass ==
    ASSUME NEW up \in BOOLEAN, NEW v \in Nat, IF up THEN v < 9 ELSE v \in 1..9
    PROVE  Passes(up, Revision(up, v), SchemaAt(v), SchemaAt(Successor(up, v)))
<1>1. /\ Passes(TRUE, Upgrades[9], SchemaAt(8), SchemaAt(9))
      /\ Passes(FALSE, Downgrades[9], SchemaAt(9), SchemaAt(8))
  <2>0. PICK more, col : more = {CreatedAt, col} /\ col = Col("user_id", {"null"})
    OBVIOUS
  <2>1. /\ ColumnsOf("products", 8) = ProductCols("float") /\ ColumnsOf("products", 9) = ProductCols("numeric")
        /\ ColumnsOf("orders", 8) = OrderCols("float", more)
        /\ ColumnsOf("orders", 9) = OrderCols("numeric", more)
    BY <2>0, ColumnsAre
  <2>2. "total_price" \notin Names(more)
    <3>1. col.name = "user_id"
      BY <2>0, ColumnFacts
    <3>2. Names(more) = {"created_at", "user_id"}
      BY <2>0, <3>1, NamesAre
    <3> QED BY <3>2
  <2>3. Upgrades[9] = Prices("numeric") \o Totals("numeric")
    BY DEF Upgrades, FloatToNumeric
  <2>4. Downgrades[9] = Totals("float") \o Prices("float")
    BY DEF Downgrades, NumericToFloat
  <2>5. 8 \in 8..9 /\ 9 \in 8..9
    OBVIOUS
  <2>6. Passes(TRUE, Prices("numeric") \o Totals("numeric"), SchemaAt(8), SchemaAt(9))
    BY ONLY <2>1, <2>2, <2>5, MoneyChanges
  <2>7. Passes(TRUE, Totals("float") \o Prices("float"), SchemaAt(9), SchemaAt(8))
    BY ONLY <2>1, <2>2, <2>5, MoneyChanges
  <2> QED BY <2>3, <2>4, <2>6, <2>7 DEF Passes
<1>2. CASE up
  <2>1. v \in 0..8
    BY <1>2
  <2> DEFINE Goes(x, y) == Passes(TRUE, Upgrades[y], SchemaAt(x), SchemaAt(y))
  <2>2. Goes(0, 1)
    BY FirstTables
  <2>3. Goes(1, 2)
    BY UsersTableGoes
  <2>4. Goes(2, 3)
    BY UpgradesOfTables
  <2>5. Goes(3, 4)
    BY UpgradesOfTables
  <2>6. Goes(4, 5)
    BY UpgradesOfTables
  <2>7. Goes(5, 6)
    BY UpgradesOfTables
  <2>8. Goes(6, 7)
    BY UpgradesOfTables
  <2>9. Goes(7, 8)
    BY UpgradesOfTables
  <2>10. Goes(8, 9)
    BY <1>1
  <2> HIDE DEF Goes
  <2>11. Goes(v, v + 1)
    BY <2>1, <2>2, <2>3, <2>4, <2>5, <2>6, <2>7, <2>8, <2>9, <2>10
  <2> QED BY <1>2, <2>11 DEF Revision, Successor, Goes
<1>3. CASE ~up
  <2>1. v \in 1..9
    BY <1>3
  <2> DEFINE Falls(x, y) == Passes(FALSE, Downgrades[x], SchemaAt(x), SchemaAt(y))
  <2>2. Falls(1, 0)
    BY FirstTables
  <2>3. Falls(2, 1)
    BY UsersTableReturns
  <2>4. Falls(3, 2)
    BY DowngradesOfTables
  <2>5. Falls(4, 3)
    BY DowngradesOfTables
  <2>6. Falls(5, 4)
    BY DowngradesOfTables
  <2>7. Falls(6, 5)
    BY DowngradesOfTables
  <2>8. Falls(7, 6)
    BY DowngradesOfTables
  <2>9. Falls(8, 7)
    BY DowngradesOfTables
  <2>10. Falls(9, 8)
    BY <1>1
  <2> HIDE DEF Falls
  <2>11. Falls(v, v - 1)
    BY <2>1, <2>2, <2>3, <2>4, <2>5, <2>6, <2>7, <2>8, <2>9, <2>10
  <2> QED BY <1>3, <2>11 DEF Revision, Successor, Falls
<1> QED BY <1>2, <1>3

-----------------------------------------------------------------------------
(* The statements of the upgrades.  The first is on disk at once, and from  *)
(* the third on a transaction is open, but in the first revision, which     *)
(* only creates; one alone adds a column that asks for a value.             *)
Asks(s) == s.op = "add" /\ Required(s.col)

UpgradeFacts(v) ==
    LET S == Upgrades[v + 1]
    IN  /\ Len(S) \in 1..8
        /\ S[1].op \in {"create", "recreate", "add"}
        /\ v # 0 /\ Len(S) >= 2 => S[2].op = "copy"
        /\ \A i \in 1..Len(S) : /\ v = 0 => S[i].op = "create"
                                /\ Asks(S[i]) => v = 5 /\ i = 1 /\ S[i].table = "users"

LEMMA UpgradesAre == \A v \in 0..8 : UpgradeFacts(v)
<1> DEFINE Facts(v, S) ==
        /\ Len(S) \in 1..8
        /\ S[1].op \in {"create", "recreate", "add"}
        /\ v # 0 /\ Len(S) >= 2 => S[2].op = "copy"
        /\ \A i \in 1..Len(S) : /\ v = 0 => S[i].op = "create"
                                /\ Asks(S[i]) => v = 5 /\ i = 1 /\ S[i].table = "users"
<1>1. ASSUME NEW v \in 1..8, NEW s, s.op \in {"create", "add"}, Asks(s) => v = 5 /\ s.table = "users"
      PROVE  Facts(v, <<s>>)
  BY <1>1
<1>2. ASSUME NEW v \in 1..8, NEW S, Len(S) \in 1..8, S[1].op = "recreate", S[2].op = "copy",
             \A i \in 1..Len(S) : S[i].op # "add"
      PROVE  Facts(v, S)
  BY <1>2 DEF Asks
<1>4. Facts(0, Upgrades[1])
  <2>1. Len(Upgrades[1]) = 4 /\ \A i \in 1..4 : Upgrades[1][i].op = "create"
    <3>1. ASSUME NEW i \in 1..4
          PROVE  Upgrades[1][i].op = "create"
      <4>1. PICK t, cols : Upgrades[1][i] = Create(t, cols)
        BY FirstRevision
      <4> QED BY <4>1 DEF Create
    <3> QED BY <3>1, FirstRevision
  <2> QED BY <2>1 DEF Asks
<1>5. Facts(1, Upgrades[2])
  <2> DEFINE S == Upgrades[2]
  <2>1. /\ Len(S) = 5 /\ S[5] = DropIfExists("users")
        /\ S[1] = [op |-> "recreate", table |-> "orders", gone |-> {"user_id"}, added |-> {}]
        /\ S[2] = Copy("orders") /\ S[3] = Drop("orders") /\ S[4] = Rename("orders")
    BY DEF Upgrades, RemoveUsersTable, Batch, Copy, Drop, Rename
  <2> HIDE DEF S
  <2>2. S[2].op = "copy" /\ S[3].op = "drop" /\ S[4].op = "rename" /\ S[5].op = "drop if exists"
    <3>1. \A t : Copy(t).op = "copy" /\ Rename(t).op = "rename"
      BY DEF Copy, Rename
    <3>2. \A t : Drop(t).op = "drop" /\ DropIfExists(t).op = "drop if exists"
      BY DEF Drop, DropIfExists
    <3> QED BY <2>1, <3>1, <3>2
  <2>3. S[1].op = "recreate"
    BY <2>1
  <2>4. ASSUME NEW i \in 1..Len(S)
        PROVE  S[i].op # "add"
    <3>1. i = 1 \/ i = 2 \/ i = 3 \/ i = 4 \/ i = 5
      BY <2>1
    <3> QED BY <3>1, <2>2, <2>3
  <2>5. 1 \in 1..8 /\ Len(S) \in 1..8
    BY <2>1
  <2> HIDE DEF Facts
  <2> QED BY <2>2, <2>3, <2>4, <2>5, <1>2 DEF S
<1>6. Facts(2, Upgrades[3])
  <2>1. PICK S : S = Upgrades[3]
    OBVIOUS
  <2>2. Len(S) = 4 /\ S[1].op = "recreate" /\ S[2].op = "copy" /\ S[3].op = "drop" /\ S[4].op = "rename"
    BY <2>1 DEF Upgrades, AddCreatedAt, Batch, Drop
  <2>3. \A i \in 1..Len(S) : S[i].op # "add"
    BY <2>2
  <2> HIDE DEF Facts
  <2> QED BY <2>1, <2>2, <2>3, <1>2
<1>7. Facts(8, Upgrades[9])
  <2>1. PICK S : S = Upgrades[9]
    OBVIOUS
  <2>2. /\ Len(S) = 8 /\ S[1].op = "recreate" /\ S[2].op = "copy" /\ S[3].op = "drop" /\ S[4].op = "rename"
        /\ S[5].op = "recreate" /\ S[6].op = "copy" /\ S[7].op = "drop" /\ S[8].op = "rename"
    BY <2>1 DEF Upgrades, FloatToNumeric, Prices, Totals, Batch, Drop
  <2>3. ASSUME NEW i \in 1..Len(S)
        PROVE  S[i].op # "add"
    <3>1. i = 1 \/ i = 2 \/ i = 3 \/ i = 4 \/ i = 5 \/ i = 6 \/ i = 7 \/ i = 8
      BY <2>2
    <3> QED BY <3>1, <2>2
  <2>4. 8 \in 1..8 /\ Len(S) \in 1..8
    BY <2>2
  <2> HIDE DEF Facts
  <2> QED BY <2>1, <2>2, <2>3, <2>4, <1>2
<1> HIDE DEF Facts
<1>8. ASSUME NEW t, NEW cols PROVE Create(t, cols).op = "create" /\ ~Asks(Create(t, cols))
  BY DEF Create, Asks
<1>9. Facts(3, Upgrades[4]) /\ Facts(4, Upgrades[5]) /\ Facts(7, Upgrades[8])
  BY <1>1, <1>8 DEF Upgrades, AddUsersTable, AddIdempotencyKeysTable, CreateRevokedTokens
<1>10. Facts(5, Upgrades[6])
  <2>1. PICK s : s = AddColumn("users", Col("password_hash", {}))
    OBVIOUS
  <2>2. s.op = "add" /\ s.table = "users" /\ Upgrades[6] = <<s>>
    BY <2>1 DEF AddColumn, Upgrades, AddPasswordHash
  <2> QED BY <2>2, <1>1
<1>11. Facts(6, Upgrades[7])
  <2>1. PICK s : s = AddColumn("orders", Col("user_id", {"null"}))
    OBVIOUS
  <2>2. s.op = "add" /\ ~Asks(s) /\ Upgrades[7] = <<s>>
    BY <2>1, ColumnFacts DEF AddColumn, Upgrades, AddUserId, Asks, Required
  <2> QED BY <2>2, <1>1
<1>12. \A v \in 0..8 : Facts(v, Upgrades[v + 1])
  <2> DEFINE Has(x, y) == Facts(x, Upgrades[y])
  <2>1. Has(0, 1) /\ Has(1, 2) /\ Has(2, 3) /\ Has(3, 4) /\ Has(4, 5) /\ Has(5, 6)
        /\ Has(6, 7) /\ Has(7, 8) /\ Has(8, 9)
    BY <1>4, <1>5, <1>6, <1>7, <1>9, <1>10, <1>11
  <2> HIDE DEF Has
  <2>2. \A v \in 0..8 : Has(v, v + 1)
    BY <2>1
  <2> QED BY <2>2 DEF Has
<1> QED BY <1>12 DEF Facts, UpgradeFacts

(* A statement that creates or adds does not succeed twice.                 *)
LEMMA OnlyOnce ==
    ASSUME NEW s, NEW d, Shape(d), s.op \in {"create", "recreate", "add"}, Succeeds(s, d)
    PROVE  ~Succeeds(s, Effect(s, d))
<1>1. CASE s.op = "create"
  <2>1. Effect(s, d) = With(d, s.table, Table(s.cols))
    BY <1>1 DEF Effect
  <2>2. s.table \in DOMAIN Effect(s, d)
    BY <2>1 DEF With
  <2> QED BY <2>2, <1>1 DEF Succeeds
<1>2. CASE s.op = "recreate"
  <2>1. PICK cols : Effect(s, d) = With(d, Tmp(s.table), Table(cols))
    BY <1>2 DEF Effect
  <2>2. Tmp(s.table) \in DOMAIN Effect(s, d)
    BY <2>1 DEF With
  <2> QED BY <2>2, <1>2 DEF Succeeds
<1>3. CASE s.op = "add"
  <2>1. s.table \in DOMAIN d
    BY <1>3 DEF Succeeds
  <2>2. Effect(s, d) = [d EXCEPT ![s.table].cols = @ \union {s.col}]
    BY <1>3 DEF Effect
  <2>3. Effect(s, d)[s.table].cols = d[s.table].cols \union {s.col}
    BY <2>1, <2>2 DEF Shape
  <2>4. s.col.name \in Names(Effect(s, d)[s.table].cols)
    BY <2>3 DEF Names
  <2> QED BY <2>4, <1>3 DEF Succeeds
<1> QED BY <1>1, <1>2, <1>3

(* Nor does one that creates after others that create.                      *)
LEMMA StillThere ==
    ASSUME NEW s, NEW r, NEW d, s.op = "create", r.op = "create", ~Succeeds(s, d)
    PROVE  ~Succeeds(s, Effect(r, d))
<1>1. s.table \in DOMAIN d
  BY DEF Succeeds
<1>2. Effect(r, d) = With(d, r.table, Table(r.cols))
  BY DEF Effect
<1>3. s.table \in DOMAIN Effect(r, d)
  BY <1>1, <1>2 DEF With
<1> QED BY <1>3 DEF Succeeds

-----------------------------------------------------------------------------
(* A revision under way: its columns are where its script has led them ...  *)
OnTheWay(up, v, i, d) ==
    \E P : /\ Leads(Revision(up, v), SchemaAt(v), SchemaAt(Successor(up, v)), P)
           /\ up => Filled(Revision(up, v), P)
           /\ Schema(d) = P[i]

(* ... and once its first statement is on disk it cannot begin again.       *)
NoRestart(v, i, b, D) ==
    i >= 2 => /\ ~Succeeds(Upgrades[v + 1][1], D)
              /\ i >= 3 /\ v # 0 => b

LEMMA WayBegins ==
    ASSUME NEW up \in BOOLEAN, NEW v \in Nat, IF up THEN v < 9 ELSE v \in 1..9,
           NEW d, Schema(d) = SchemaAt(v)
    PROVE  OnTheWay(up, v, 1, d)
BY RevisionsPass DEF OnTheWay, Passes, Leads

LEMMA WayGoesOn ==
    ASSUME NEW up \in BOOLEAN, NEW v, NEW d, NEW i \in 1..Len(Revision(up, v)),
           OnTheWay(up, v, i, d), Shape(d)
    PROVE  OnTheWay(up, v, i + 1, Effect(Revision(up, v)[i], d))
<1>1. PICK S, y : S = Revision(up, v) /\ y = SchemaAt(Successor(up, v))
  OBVIOUS
<1>2. PICK P : Leads(S, SchemaAt(v), y, P) /\ (up => Filled(S, P)) /\ Schema(d) = P[i]
  BY <1>1 DEF OnTheWay
<1>3. Fits(S[i], P[i]) /\ P[i + 1] = ColsAfter(S[i], P[i])
  BY <1>1, <1>2 DEF Leads
<1>4. PICK s : s = S[i]
  OBVIOUS
<1>5. Schema(Effect(s, d)) = ColsAfter(s, Schema(d))
  BY <1>2, <1>3, <1>4, SchemaFollows
<1>6. Schema(Effect(s, d)) = P[i + 1]
  BY <1>2, <1>3, <1>4, <1>5
<1> QED BY <1>1, <1>2, <1>4, <1>6 DEF OnTheWay

LEMMA WayEnds ==
    ASSUME NEW up \in BOOLEAN, NEW v, NEW d, NEW i, i = Len(Revision(up, v)) + 1, OnTheWay(up, v, i, d)
    PROVE  Schema(d) = SchemaAt(Successor(up, v))
BY DEF OnTheWay, Leads

LEMMA NoRestartGoesOn ==
    ASSUME NEW v \in 0..8, NEW i \in 1..Len(Upgrades[v + 1]), NEW b \in BOOLEAN, NEW D, NEW d,
           Shape(D), NoRestart(v, i, b, D), i = 1 => ~b, b \/ d = D,
           NEW s, s = Upgrades[v + 1][i], Succeeds(s, d)
    PROVE  /\ s.op = "copy" \/ b => NoRestart(v, i + 1, TRUE, D)
           /\ ~(s.op = "copy" \/ b) => NoRestart(v, i + 1, FALSE, Effect(s, d))
<1> PICK S : S = Upgrades[v + 1]
  OBVIOUS
<1>1. /\ S[1].op \in {"create", "recreate", "add"}
      /\ v # 0 /\ Len(S) >= 2 => S[2].op = "copy"
      /\ Len(S) \in 1..8
      /\ v = 0 => S[1].op = "create" /\ s.op = "create"
  <2>1. Len(S) \in 1..8 => 1 \in 1..Len(S)
    OBVIOUS
  <2> QED BY <2>1, UpgradesAre DEF UpgradeFacts
<1>2. i \in Nat /\ i + 1 >= 2 /\ (i + 1 >= 3 => i >= 2) /\ (i = 1 \/ i = 2 \/ i >= 3) /\ i <= Len(S)
  BY <1>1
<1>3. CASE s.op = "copy" \/ b
  <2>1. i # 1
    BY <1>1, <1>3
  <2>2. PICK yes \in BOOLEAN : yes = TRUE
    OBVIOUS
  <2>3. ~Succeeds(Upgrades[v + 1][1], D)
    BY <2>1, <1>2 DEF NoRestart
  <2>4. NoRestart(v, i + 1, yes, D)
    BY <2>2, <2>3 DEF NoRestart
  <2> QED BY <2>2, <2>4, <1>3
<1>4. CASE ~(s.op = "copy" \/ b)
  <2>1. d = D
    BY <1>4
  <2>2. CASE i = 1
    <3>1. ~Succeeds(s, Effect(s, d))
      BY <2>1, <2>2, <1>1, OnlyOnce
    <3> QED BY <2>2, <3>1, <1>4 DEF NoRestart
  <2>3. CASE i # 1
    <3>1. v = 0 /\ ~Succeeds(S[1], D)
      <4>1. i = 2 => Len(S) >= 2
        BY <1>1, <1>2
      <4>2. i = 2 => v = 0
        BY <4>1, <1>1, <1>4
      <4> QED BY <4>2, <2>3, <1>2, <1>4 DEF NoRestart
    <3>2. PICK r : r = S[1]
      OBVIOUS
    <3>3. ~Succeeds(r, Effect(s, d))
      BY <3>1, <3>2, <2>1, <1>1, StillThere
    <3> QED BY <3>1, <3>2, <3>3, <1>4 DEF NoRestart
  <2> QED BY <2>2, <2>3
<1> QED BY <1>3, <1>4

-----------------------------------------------------------------------------
(* The columns at rest are those of the revision, unless one was cut off;   *)
(* an upgrade that was cut off has left what its first statement will not   *)
(* run on, so that no upgrade passes it.                                    *)
SchemaInv ==
    /\ cut = "no" =>
          IF Migrating /\ Behind
          THEN OnTheWay(pc = "upgrade", db.version, at, Seen)
          ELSE Schema(db.tables) = SchemaAt(db.version)
    /\ pc = "upgrade" /\ Behind => NoRestart(db.version, at, begun, db.tables)
    /\ cut = "up" =>
          /\ pc \in {"down", "upgrade"} /\ db.version < HeadRevision /\ at = 1
          /\ ~Succeeds(Upgrades[db.version + 1][1], db.tables)

(* A step that ends between two revisions, or outside the migrations.       *)
LEMMA RestingKeeps ==
    ASSUME MigrationInv', at' = 1, begun' = FALSE,
           cut' = "no" => Schema(db'.tables) = SchemaAt(db'.version),
           cut' = "up" => /\ pc' \in {"down", "upgrade"} /\ db'.version < HeadRevision
                          /\ ~Succeeds(Upgrades[db'.version + 1][1], db'.tables)
    PROVE  SchemaInv'
<1>1. /\ HeadRevision = 9 /\ db'.version \in 0..9 /\ goal' \in 0..9 /\ Seen' = db'.tables
  BY UpgradesWellFormed DEF MigrationInv, Sound, Seen
<1>2. PICK up \in BOOLEAN : up = (pc' = "upgrade")
  OBVIOUS
<1>3. ASSUME cut' = "no", (Migrating /\ Behind)'
      PROVE  OnTheWay(pc = "upgrade", db.version, at, Seen)'
  <2>1. IF up THEN db'.version < 9 ELSE db'.version \in 1..9
    <3>1. CASE up
      <4>1. db'.version < HeadRevision
        BY <3>1, <1>2, <1>3 DEF Behind
      <4> QED BY <3>1, <4>1, <1>1
    <3>2. CASE ~up
      <4>1. db'.version > goal'
        BY <3>2, <1>2, <1>3 DEF Behind
      <4> QED BY <3>2, <4>1, <1>1
    <3> QED BY <3>1, <3>2
  <2>2. OnTheWay(up, db'.version, 1, db'.tables)
    BY <2>1, <1>1, <1>3, WayBegins
  <2> QED BY <2>2, <1>1, <1>2
<1>4. NoRestart(db.version, at, begun, db.tables)'
  BY DEF NoRestart
<1> QED BY <1>3, <1>4 DEF SchemaInv

(* The starts, the end of the migrations and the server's steps.            *)
LEMMA SchemaStays ==
    ASSUME MigrationInv, MigrationInv', SchemaInv,
           \/ StartUpgrade \/ StartDowngrade \/ Migrated
           \/ UNCHANGED migration /\ pc \in ServerStages
           \/ UNCHANGED <<pc, migration>>
    PROVE  SchemaInv'
<1>1. CASE UNCHANGED <<pc, migration>>
  BY <1>1 DEF SchemaInv, Migrating, Behind, Seen, migration, transaction
<1>2. ASSUME \/ StartUpgrade \/ StartDowngrade \/ Migrated
             \/ UNCHANGED migration /\ pc \in ServerStages
      PROVE  SchemaInv'
  <2>1. /\ ~(Migrating /\ Behind) /\ db' = db /\ begun' = begun /\ at' = 1
        /\ cut' = "no" => cut = "no"
        /\ cut' = "up" => cut = "up" /\ (StartUpgrade \/ Migrated \/ pc \in ServerStages)
    BY <1>2 DEF StartUpgrade, StartDowngrade, Migrated, Migrating, ServerStages, migration, transaction, MigrationInv
  <2>2. begun' = FALSE /\ (cut' = "no" => Schema(db'.tables) = SchemaAt(db'.version))
    BY <2>1 DEF MigrationInv, SchemaInv
  <2>3. ASSUME cut' = "up"
        PROVE  /\ pc' \in {"down", "upgrade"} /\ db'.version < HeadRevision
               /\ ~Succeeds(Upgrades[db'.version + 1][1], db'.tables)
    <3>1. /\ pc \in {"down", "upgrade"} /\ db.version < HeadRevision
          /\ ~Succeeds(Upgrades[db.version + 1][1], db.tables)
      BY <2>1, <2>3 DEF SchemaInv
    <3>2. StartUpgrade
      BY <2>1, <2>3, <3>1 DEF Migrated, Migrating, Behind, ServerStages
    <3> QED BY <2>1, <3>1, <3>2 DEF StartUpgrade
  <2> QED BY <2>1, <2>2, <2>3, RestingKeeps
<1> QED BY <1>1, <1>2

(* A revision that ends has reached the columns of the next.                *)
LEMMA CommitSchema ==
    ASSUME MigrationInv, MigrationInv', SchemaInv, CommitRevision
    PROVE  SchemaInv'
<1>1. PICK up \in BOOLEAN : up = (pc = "upgrade")
  OBVIOUS
<1>2. /\ Migrating /\ Behind /\ Script = Revision(up, db.version) /\ at > Len(Script)
      /\ Underway(up, db.version, at, begun, db.tables, Seen)
  BY <1>1 DEF MigrationInv, CommitRevision, Revision, Script
<1>3. PICK S : S = Revision(up, db.version)
  OBVIOUS
<1>4. at = Len(S) + 1 /\ at # 1
  <2>1. at \in 1..Len(S) + 1 /\ at > Len(S)
    BY <1>2, <1>3 DEF Underway
  <2>2. Len(S) \in 1..8
    <3>1. db.version \in 0..9 /\ HeadRevision = 9
      BY UpgradesWellFormed DEF MigrationInv, Sound
    <3> QED BY <3>1, <1>2, <1>3, Scripts DEF Underway
  <2>3. \A n \in 1..8 : \A k \in 1..n + 1 : k > n => k = n + 1 /\ k # 1
    OBVIOUS
  <2> QED BY <2>1, <2>2, <2>3
<1>5. /\ db' = [version |-> Successor(up, db.version), tables |-> Seen]
      /\ begun' = FALSE /\ at' = 1 /\ cut' = cut
  BY <1>1 DEF CommitRevision, Successor
<1>6. cut # "up"
  BY <1>4 DEF SchemaInv
<1>7. cut = "no" => Schema(Seen) = SchemaAt(Successor(up, db.version))
  <2>1. cut = "no" => OnTheWay(up, db.version, at, Seen)
    BY <1>1, <1>2 DEF SchemaInv
  <2> QED BY <2>1, <1>3, <1>4, WayEnds
<1>8. cut' = "no" => Schema(db'.tables) = SchemaAt(db'.version)
  BY <1>5, <1>7
<1> QED BY <1>5, <1>6, <1>8, RestingKeeps

(* The end of a process: one between two statements of an upgrade leaves    *)
(* what the first of them will not run on.                                  *)
LEMMA EndSchema ==
    ASSUME MigrationInv, MigrationInv', SchemaInv, End
    PROVE  SchemaInv'
<1>1. pc' = "down" /\ begun' = FALSE /\ at' = 1 /\ db' = db /\ cut' = Tear
  BY DEF End
<1>2. at # 1 => Migrating /\ Behind
  BY DEF MigrationInv
<1>3. ASSUME cut' = "no"
      PROVE  Schema(db'.tables) = SchemaAt(db'.version)
  <2>1. cut = "no" /\ at = 1
    BY <1>1, <1>2, <1>3 DEF Tear
  <2>2. CASE ~(Migrating /\ Behind)
    BY <2>1, <2>2, <1>1 DEF SchemaInv
  <2>3. CASE Migrating /\ Behind
    <3>1. PICK up \in BOOLEAN : up = (pc = "upgrade")
      OBVIOUS
    <3>2. Seen = db.tables
      BY <2>1, <2>3 DEF MigrationInv, Underway, Seen
    <3>3. OnTheWay(up, db.version, 1, Seen)
      BY <2>1, <2>3, <3>1 DEF SchemaInv
    <3>4. Schema(Seen) = SchemaAt(db.version)
      BY <3>3 DEF OnTheWay, Leads
    <3> QED BY <3>2, <3>4, <1>1
  <2> QED BY <2>2, <2>3
<1>4. ASSUME cut' = "up"
      PROVE  /\ pc' \in {"down", "upgrade"} /\ db'.version < HeadRevision
             /\ ~Succeeds(Upgrades[db'.version + 1][1], db'.tables)
  <2>1. CASE cut = "up"
    BY <2>1, <1>1 DEF SchemaInv
  <2>2. CASE cut # "up"
    <3>1. Migrating /\ at # 1 /\ pc = "upgrade"
      BY <2>2, <1>1, <1>4 DEF Tear
    <3>2. Behind /\ Underway(TRUE, db.version, at, begun, db.tables, Seen)
      BY <3>1, <1>2 DEF MigrationInv
    <3>3. at >= 2
      <4>1. PICK n : at \in 1..n
        BY <3>2 DEF Underway
      <4> QED BY <4>1, <3>1
    <3>4. ~Succeeds(Upgrades[db.version + 1][1], db.tables)
      BY <3>1, <3>2, <3>3 DEF SchemaInv, NoRestart
    <3> QED BY <3>1, <3>2, <3>4, <1>1 DEF Behind
  <2> QED BY <2>1, <2>2
<1> QED BY <1>1, <1>3, <1>4, RestingKeeps

(* A statement takes the columns one step on, and an upgrade past the point *)
(* from which it cannot begin again.                                        *)
LEMMA RunStatementSchema ==
    ASSUME MigrationInv, MigrationInv', SchemaInv, RunStatement
    PROVE  SchemaInv'
<1>1. PICK up \in BOOLEAN : up = (pc = "upgrade")
  OBVIOUS
<1>2. /\ Migrating /\ Behind /\ Script = Revision(up, db.version) /\ at <= Len(Script)
      /\ Underway(up, db.version, at, begun, db.tables, Seen)
  BY <1>1 DEF MigrationInv, RunStatement, Revision, Script
<1>3. PICK s : s = Script[at]
  OBVIOUS
<1>4. PICK e : e = Effect(s, Seen)
  OBVIOUS
<1>5. PICK v : v = db.version
  OBVIOUS
<1>6. /\ Succeeds(s, Seen) /\ at' = at + 1 /\ pc' = pc /\ goal' = goal /\ cut' = cut
      /\ IF s.op = "copy" \/ begun
         THEN begun' = TRUE /\ work' = e /\ db' = db
         ELSE db' = [version |-> v, tables |-> e] /\ begun' = begun /\ work' = work
  BY <1>3, <1>4, <1>5 DEF RunStatement, transaction, InTransaction, MigrationInv
<1>7. /\ v \in 0..9 /\ HeadRevision = 9 /\ goal \in 0..9
      /\ s = Revision(up, v)[at] /\ at \in 1..Len(Revision(up, v))
      /\ Shape(Seen) /\ Shape(db.tables) /\ begun \in BOOLEAN
      /\ (at = 1 => ~begun) /\ (begun \/ Seen = db.tables)
      /\ (up => v \in 0..8)
  <2>1. v \in 0..9 /\ HeadRevision = 9 /\ goal \in 0..9
    BY <1>5, UpgradesWellFormed DEF MigrationInv, Sound
  <2>2. Len(Revision(up, v)) \in 1..8
    BY <2>1, <1>2, <1>5, Scripts DEF Underway
  <2>3. at \in 1..Len(Revision(up, v)) + 1 /\ at <= Len(Revision(up, v))
    BY <1>2, <1>5 DEF Underway
  <2>4. at \in 1..Len(Revision(up, v))
    BY <2>2, <2>3
  <2>5. up => v \in 0..8
    BY <2>1, <1>2, <1>5 DEF Underway
  <2> QED BY <2>1, <2>4, <2>5, <1>2, <1>3, <1>5 DEF Underway, Tables, MigrationInv, Sound
<1>8. /\ Seen' = e /\ db'.version = v
      /\ s.op = "copy" \/ begun => begun' = TRUE /\ db'.tables = db.tables
      /\ ~(s.op = "copy" \/ begun) => begun' = FALSE /\ db'.tables = e
  BY <1>5, <1>6, <1>7 DEF Seen
<1>9. (Migrating /\ Behind)'
  BY <1>2, <1>5, <1>6, <1>8 DEF Migrating, Behind
<1>10. cut' = "no" => OnTheWay(pc = "upgrade", db.version, at, Seen)'
  <2>1. cut = "no" => OnTheWay(up, v, at, Seen)
    BY <1>1, <1>2, <1>5 DEF SchemaInv
  <2>2. cut = "no" => OnTheWay(up, v, at + 1, e)
    <3>1. PICK d : d = Seen
      OBVIOUS
    <3>2. cut = "no" => OnTheWay(up, v, at + 1, Effect(Revision(up, v)[at], d))
      BY <2>1, <3>1, <1>7, WayGoesOn
    <3> QED BY <3>1, <3>2, <1>4, <1>7
  <2> QED BY <2>2, <1>1, <1>6, <1>8
<1>11. pc' = "upgrade" => NoRestart(db.version, at, begun, db.tables)'
  <2>1. SUFFICES ASSUME up
                 PROVE  NoRestart(db.version, at, begun, db.tables)'
    BY <1>1, <1>6
  <2>2. NoRestart(v, at, begun, db.tables)
    BY <2>1, <1>1, <1>2, <1>5 DEF SchemaInv
  <2>3. s = Upgrades[v + 1][at] /\ at \in 1..Len(Upgrades[v + 1])
    BY <2>1, <1>7 DEF Revision
  <2>4. PICK d : d = Seen
    OBVIOUS
  <2>5. /\ s.op = "copy" \/ begun => NoRestart(v, at + 1, TRUE, db.tables)
        /\ ~(s.op = "copy" \/ begun) => NoRestart(v, at + 1, FALSE, Effect(s, d))
    BY <2>1, <2>2, <2>3, <2>4, <1>6, <1>7, NoRestartGoesOn
  <2>6. CASE s.op = "copy" \/ begun
    BY <2>5, <2>6, <1>6, <1>8
  <2>7. CASE ~(s.op = "copy" \/ begun)
    BY <2>4, <2>5, <2>7, <1>4, <1>6, <1>8
  <2> QED BY <2>6, <2>7
<1>12. cut' # "up"
  <2>1. SUFFICES ASSUME cut = "up"
                 PROVE  FALSE
    BY <1>6
  <2>2. up /\ at = 1 /\ ~Succeeds(Upgrades[v + 1][1], db.tables)
    BY <2>1, <1>1, <1>2, <1>5 DEF SchemaInv, Migrating
  <2>3. s = Upgrades[v + 1][1] /\ Seen = db.tables
    BY <2>2, <1>7 DEF Revision
  <2> QED BY <2>2, <2>3, <1>6
<1> QED BY <1>9, <1>10, <1>11, <1>12 DEF SchemaInv

(* An INSERT of the seed changes no column.                                 *)
LEMMA SeedRowSchema ==
    ASSUME MigrationInv, MigrationInv', SchemaInv, SeedRow
    PROVE  SchemaInv'
<1>1. PICK D : D = db.tables
  OBVIOUS
<1>2. PICK r : r = NewRow(seeded + 1)
  OBVIOUS
<1>3. PICK e : e = [D EXCEPT !["products"].rows = @ \union {r}]
  OBVIOUS
<1>4. /\ pc = "seed" /\ pc' = pc /\ at' = at /\ begun' = begun /\ cut' = cut
      /\ db' = [version |-> db.version, tables |-> e]
  BY <1>1, <1>2, <1>3 DEF SeedRow, transaction, MigrationInv
<1>5. ~Migrating /\ at = 1 /\ begun = FALSE /\ cut # "up"
  BY <1>4 DEF Migrating, MigrationInv, SchemaInv
<1>6. Schema(e) = Schema(D)
  <2>1. Shape(D)
    BY <1>1 DEF MigrationInv, Sound, Tables
  <2>2. DOMAIN e = DOMAIN D /\ \A t \in DOMAIN D : e[t].cols = D[t].cols
    <3>1. ASSUME NEW t \in DOMAIN D
          PROVE  e[t].cols = D[t].cols
      <4>1. PICK c, w : D[t] = [cols |-> c, rows |-> w]
        BY <2>1 DEF Shape
      <4>2. CASE t = "products"
        <5>1. e[t] = [D[t] EXCEPT !.rows = @ \union {r}]
          BY <4>2, <1>3
        <5> QED BY <4>1, <5>1
      <4>3. CASE t # "products"
        BY <4>3, <1>3
      <4> QED BY <4>2, <4>3
    <3> QED BY <3>1, <1>3
  <2> QED BY <2>2 DEF Schema
<1>7. cut = "no" => Schema(D) = SchemaAt(db.version)
  BY <1>1, <1>5 DEF SchemaInv
<1> QED BY <1>4, <1>5, <1>6, <1>7, RestingKeeps

LEMMA SchemaBegins == Init => SchemaInv
<1> SUFFICES ASSUME Init PROVE SchemaInv
  OBVIOUS
<1>1. PICK v \in 0..HeadRevision, os \in SUBSET OrderRows, us \in SUBSET UserRows, ps \in {{}, Products \X {1}} :
        db = [version |-> v,
              tables |-> [t \in TablesOf(v) |->
                 [cols |-> ColumnsOf(t, v),
                  rows |-> CASE t = "orders" -> os [] t = "users" -> us [] t = "products" -> ps
                             [] OTHER -> {}]]]
  BY DEF Init, MigrationInit
<1>2. /\ db.version = v /\ DOMAIN db.tables = TablesOf(v)
      /\ \A t \in TablesOf(v) : db.tables[t].cols = ColumnsOf(t, v)
  BY <1>1
<1>3. Schema(db.tables) = SchemaAt(db.version)
  BY <1>2 DEF Schema, SchemaAt
<1>4. pc = "down" /\ cut = "no"
  BY DEF Init, MigrationInit
<1> QED BY <1>3, <1>4 DEF SchemaInv, Migrating

LEMMA NextSchema == ASSUME IInv, IInv', SchemaInv, [Next]_vars PROVE SchemaInv'
<1>1. MigrationInv /\ MigrationInv'
  BY DEF IInv
<1>2. CASE StatementRaises \/ AwaitRaises \/ Disconnect \/ Die
  <2>1. End
    BY <1>2 DEF StatementRaises, AwaitRaises, Disconnect, Die
  <2> QED BY <2>1, <1>1, EndSchema
<1>3. CASE RunStatement \/ CommitRevision \/ SeedRow
  BY <1>1, <1>3, RunStatementSchema, CommitSchema, SeedRowSchema
<1>4. CASE Start \/ StartDowngrade \/ Migrated
  <2>1. StartUpgrade \/ StartDowngrade \/ Migrated
    BY <1>4 DEF Start
  <2> QED BY <2>1, <1>1, SchemaStays
<1>5. CASE SeedCount \/ Seeded \/ Connect \/ StartTasks \/ AwaitPurge \/ AwaitWorker \/ Stop
  <2>1. UNCHANGED migration /\ pc \in ServerStages
    BY <1>5 DEF SeedCount, Seeded, Connect, StartTasks, AwaitPurge, AwaitWorker, Stop, ServerStages
  <2> QED BY <2>1, <1>1, SchemaStays
<1>6. CASE ReadMenu \/ GroupIsReady \/ GroupFails \/ WorkerEnds \/ UNCHANGED vars
  <2>1. UNCHANGED <<pc, migration>>
    BY <1>6 DEF ReadMenu, AskMenu, CountNames, ReadNames, SendMenu, GroupIsReady, GroupFails,
                WorkerEnds, vars
  <2> QED BY <2>1, <1>1, SchemaStays
<1> QED BY <1>2, <1>3, <1>4, <1>5, <1>6 DEF Next, Advance, Lifespan

(* The columns, for all stored rows: at rest they are those of the revision *)
(* unless a revision was cut off, and no upgrade passes one that was.       *)
THEOREM SchemaInvariance == Spec => []SchemaInv
<1>1. Init => SchemaInv
  BY SchemaBegins
<1>2. IInv /\ IInv' /\ SchemaInv /\ [Next]_vars => SchemaInv'
  BY NextSchema
<1> QED BY <1>1, <1>2, Invariance, PTL DEF Spec

(* The server runs on the tables of its models: it starts at the head       *)
(* revision only, which an upgrade that was cut off never reaches.          *)
THEOREM ServerHasModels == Spec => []ServesModels
<1>1. IInv /\ SchemaInv => ServesModels
  <2> SUFFICES ASSUME IInv, SchemaInv, pc \in {"count", "seed", "tasks", "serve"}, cut # "down"
               PROVE  db.version = HeadRevision /\ Schema(db.tables) = Models
    BY DEF ServesModels
  <2>1. db.version = HeadRevision /\ HeadRevision = 9
    BY UpgradesWellFormed DEF IInv, MigrationInv, ServerStages
  <2>2. cut = "no" /\ ~Migrating
    BY DEF IInv, MigrationInv, SchemaInv, Migrating
  <2>3. Schema(db.tables) = SchemaAt(9)
    BY <2>1, <2>2 DEF SchemaInv
  <2> QED BY <2>1, <2>3, HeadIsModels
<1> QED BY <1>1, Invariance, SchemaInvariance, PTL

(* One statement alone can stop an upgrade of tables that no cut has torn:  *)
(* the one that adds the password hash, where there are users.              *)
THEOREM OnlyUsersStop == Spec => []OnlyUsersStopUpgrades
<1>1. IInv /\ SchemaInv => OnlyUsersStopUpgrades
  <2> SUFFICES ASSUME IInv, SchemaInv, pc = "upgrade", Raises, cut = "no"
               PROVE  db.version + 1 = PasswordRevision /\ RowsOf(db.tables, "users") # {}
    BY DEF OnlyUsersStopUpgrades
  <2>1. PICK v, S, d : v = db.version /\ S = Upgrades[v + 1] /\ d = Seen
    OBVIOUS
  <2>2. /\ Migrating /\ Behind /\ at <= Len(S) /\ ~Succeeds(S[at], d)
        /\ Underway(TRUE, v, at, begun, db.tables, d)
    BY <2>1 DEF Raises, Script, IInv, MigrationInv
  <2>3. v \in 0..8 /\ Len(S) \in 1..8
    <3>1. v \in 0..9 /\ HeadRevision = 9 /\ v < HeadRevision
      BY <2>1, <2>2, UpgradesWellFormed DEF IInv, MigrationInv, Sound, Underway
    <3>2. v \in 0..8
      BY <3>1
    <3> QED BY <2>1, <3>2, UpgradesAre DEF UpgradeFacts
  <2>4. at \in 1..Len(S)
    <3>1. at \in 1..Len(S) + 1
      BY <2>1, <2>2 DEF Underway, Revision
    <3> QED BY <3>1, <2>2, <2>3
  <2>5. PICK s : s = S[at]
    OBVIOUS
  <2>6. Fits(s, Schema(d)) /\ Fills(s, Schema(d))
    <3>1. OnTheWay(TRUE, v, at, d)
      BY <2>1, <2>2 DEF SchemaInv
    <3>2. PICK P : Leads(S, SchemaAt(v), SchemaAt(Successor(TRUE, v)), P) /\ Filled(S, P) /\ Schema(d) = P[at]
      BY <2>1, <3>1 DEF OnTheWay, Revision
    <3> QED BY <2>4, <2>5, <3>2 DEF Leads, Filled
  <2>7. Asks(s) /\ d[s.table].rows # {}
    BY <2>2, <2>5, <2>6, FitsSucceeds DEF Asks
  <2>8. v = 5 /\ at = 1 /\ s.table = "users"
    BY <2>1, <2>3, <2>4, <2>5, <2>7, UpgradesAre DEF UpgradeFacts
  <2>9. d = db.tables /\ "users" \in DOMAIN d
    <3>1. "users" \in DOMAIN Schema(d)
      BY <2>6, <2>7, <2>8 DEF Fits, Asks
    <3>2. d = db.tables
      BY <2>2, <2>8 DEF Underway
    <3> QED BY <3>1, <3>2 DEF Schema
  <2> QED BY <2>1, <2>7, <2>8, <2>9 DEF RowsOf, PasswordRevision
<1> QED BY <1>1, Invariance, SchemaInvariance, PTL

(* Where a downgrade ends the columns are those an upgrade to that revision *)
(* makes: no revision leaves out what the one it undoes has changed.        *)
THEOREM DowngradesRestore == Spec => []DowngradeRestores
<1>1. IInv /\ SchemaInv => DowngradeRestores
  <2> SUFFICES ASSUME IInv, SchemaInv, cut = "no", at = 1
               PROVE  Schema(db.tables) = SchemaAt(db.version)
    BY DEF DowngradeRestores
  <2>1. CASE ~(Migrating /\ Behind)
    BY <2>1 DEF SchemaInv
  <2>2. CASE Migrating /\ Behind
    <3>1. PICK up \in BOOLEAN : up = (pc = "upgrade")
      OBVIOUS
    <3>2. Seen = db.tables
      BY <2>2 DEF IInv, MigrationInv, Underway, Seen
    <3>3. OnTheWay(up, db.version, 1, Seen)
      BY <2>2, <3>1 DEF SchemaInv
    <3>4. Schema(Seen) = SchemaAt(db.version)
      BY <3>3 DEF OnTheWay, Leads
    <3> QED BY <3>2, <3>4
  <2> QED BY <2>1, <2>2
<1> QED BY <1>1, Invariance, SchemaInvariance, PTL

(* An upgrade that was cut off past its first statement stops every later   *)
(* one, at once: the tables change no more until a downgrade is asked for.  *)
CutStays == [][cut = "up" => UNCHANGED db /\ (cut' = "up" \/ pc' = "downgrade")]_vars

(* So a crash within an upgrade is one the container does not recover from. *)
THEOREM CutUpgradeStays == Spec => CutStays
<1>1. ASSUME IInv, SchemaInv, [Next]_vars
      PROVE  [cut = "up" => UNCHANGED db /\ (cut' = "up" \/ pc' = "downgrade")]_vars
  <2> SUFFICES ASSUME cut = "up"
               PROVE  UNCHANGED db /\ (cut' = "up" \/ pc' = "downgrade")
    OBVIOUS
  <2>1. /\ pc \in {"down", "upgrade"} /\ at = 1 /\ db.version < HeadRevision
        /\ ~Succeeds(Upgrades[db.version + 1][1], db.tables)
    BY <1>1 DEF SchemaInv
  <2>2. pc = "upgrade" => Behind /\ Seen = db.tables /\ Script = Upgrades[db.version + 1] /\ Len(Script) >= 1
    <3>1. SUFFICES ASSUME pc = "upgrade"
                   PROVE  Behind /\ Seen = db.tables /\ Script = Upgrades[db.version + 1] /\ Len(Script) >= 1
      OBVIOUS
    <3>2. Behind /\ Script = Upgrades[db.version + 1]
      BY <2>1, <3>1 DEF Behind, Script
    <3>3. Seen = db.tables
      BY <1>1, <2>1, <3>1, <3>2 DEF IInv, MigrationInv, Underway, Migrating
    <3>4. db.version \in 0..8
      <4>1. db.version \in 0..9 /\ HeadRevision = 9
        BY <1>1, UpgradesWellFormed DEF IInv, MigrationInv, Sound
      <4> QED BY <4>1, <2>1
    <3>5. Len(Script) \in 1..8
      BY <3>2, <3>4, UpgradesAre DEF UpgradeFacts
    <3>6. Len(Script) >= 1
      BY <3>5
    <3> QED BY <3>2, <3>3, <3>6
  <2>3. ~RunStatement /\ ~CommitRevision /\ ~Migrated
    BY <2>1, <2>2 DEF RunStatement, CommitRevision, Migrated, Migrating
  <2>4. CASE StatementRaises \/ AwaitRaises \/ Disconnect \/ Die
    <3>1. End
      BY <2>4 DEF StatementRaises, AwaitRaises, Disconnect, Die
    <3> QED BY <3>1, <2>1 DEF End, Tear
  <2>5. CASE Start \/ StartDowngrade
    BY <2>5 DEF Start, StartUpgrade, StartDowngrade
  <2>6. CASE ReadMenu \/ GroupIsReady \/ GroupFails \/ WorkerEnds \/ UNCHANGED vars
    BY <2>6 DEF ReadMenu, AskMenu, CountNames, ReadNames, SendMenu, GroupIsReady, GroupFails,
                WorkerEnds, vars, migration
  <2>7. ~(SeedRow \/ SeedCount \/ Seeded \/ Connect \/ StartTasks \/ AwaitPurge \/ AwaitWorker \/ Stop)
    BY <2>1 DEF SeedRow, SeedCount, Seeded, Connect, StartTasks, AwaitPurge, AwaitWorker, Stop
  <2> QED BY <1>1, <2>3, <2>4, <2>5, <2>6, <2>7 DEF Next, Advance, Lifespan
<1> QED BY <1>1, Invariance, SchemaInvariance, PTL DEF Spec, CutStays

-----------------------------------------------------------------------------
(* A start and a stop take boundedly many steps.                            *)

(* The tasks live while the server does, and a stop finds them as it left   *)
(* them: cancelled, or ended by an exception of their own.                  *)
TaskInv ==
    /\ pc = "serve" => purge = "running" /\ worker \in {"starting", "running", "failed"}
    /\ pc = "await purge" => purge = "cancelling"
    /\ pc \in {"await purge", "await worker"} => worker \in {"cancelling", "ended", "failed"}
    /\ pc \notin {"serve", "await purge", "await worker"} => worker \in {"none", "ended", "failed"}

(* Every step keeps that.                                                   *)
LEMMA TasksKept == ASSUME TaskInv, [Next]_vars PROVE TaskInv'
<1>1. CASE Start \/ Die
  BY <1>1 DEF Start, StartUpgrade, Die, End, TaskInv
<1>2. CASE UNCHANGED lifespan /\ (StartDowngrade \/ StatementRaises \/ RunStatement
                                  \/ CommitRevision \/ Migrated)
  BY <1>2 DEF lifespan, StartDowngrade, StatementRaises, Raises, RunStatement, CommitRevision,
              Migrated, Migrating, End, TaskInv
<1>3. CASE UNCHANGED lifespan /\ (SeedCount \/ SeedRow \/ Seeded)
  BY <1>3 DEF lifespan, SeedCount, SeedRow, Seeded, TaskInv
<1>4. CASE Connect \/ StartTasks \/ AwaitPurge
  BY <1>4 DEF Connect, StartTasks, AwaitPurge, TaskInv
<1>5. CASE AwaitWorker \/ AwaitRaises \/ Disconnect
  BY <1>5 DEF AwaitWorker, AwaitRaises, Disconnect, End, lifespan, TaskInv
<1>6. CASE Stop
  BY <1>6 DEF Stop, Cancelled, Alive, TaskInv
<1>7. CASE GroupIsReady \/ GroupFails \/ WorkerEnds
  BY <1>7 DEF GroupIsReady, GroupFails, WorkerEnds, TaskInv
<1>8. CASE UNCHANGED <<pc, lifespan>>
  BY <1>8 DEF lifespan, TaskInv
<1>9. ReadMenu /\ UNCHANGED lifespan => UNCHANGED <<pc, lifespan>>
  BY DEF ReadMenu, AskMenu, CountNames, ReadNames, SendMenu
<1> QED
  BY <1>1, <1>2, <1>3, <1>4, <1>5, <1>6, <1>7, <1>8, <1>9 DEF Next, Advance, Lifespan, vars

(* The tasks, in every reachable state.                                     *)
LEMMA TasksInvariance == Spec => []TaskInv
<1>1. Init => TaskInv
  BY DEF Init, MigrationInit, TaskInv
<1>2. TaskInv /\ [Next]_vars => TaskInv'
  BY TasksKept
<1> QED BY <1>1, <1>2, PTL DEF Spec

(* How many steps a process can take before it serves or has ended.  No     *)
(* revision has more than eight statements; each has its commit, too.       *)
YetToEnd == IF worker = "cancelling" THEN 1 ELSE 0

StepsLeft ==
    CASE pc = "upgrade"      -> Len(NameOf) + 4 + 10 * (HeadRevision - db.version) + (10 - at)
      [] pc = "downgrade"    -> 10 * db.version + (10 - at)
      [] pc = "connect"      -> Len(NameOf) + 4
      [] pc = "count"        -> Len(NameOf) + 3
      [] pc = "seed"         -> Len(NameOf) - seeded + 2
      [] pc = "await purge"  -> 4 + YetToEnd
      [] pc = "await worker" -> 2 + YetToEnd
      [] pc \in {"tasks", "disconnect"} -> 1
      [] OTHER               -> 0

\* The stages a process is left in until something happens to it.
Rests == pc \in {"down", "serve"}

(* What it takes to go on at each stage: a migration always has a step, and *)
(* what lifespan awaits has been cancelled or is over.                      *)
MayGoOn ==
    \/ Migrating
    \/ pc \in {"connect", "count", "tasks", "disconnect"}
    \/ pc = "seed" /\ seeded <= Len(NameOf)
    \/ pc = "await purge" /\ purge = "cancelling"
    \/ pc = "await worker" /\ worker \in {"cancelling", "ended", "failed"}

(* The ranges the count is made of.                                         *)
LEMMA CountFacts ==
    ASSUME IInv
    PROVE  /\ Len(NameOf) \in Nat /\ seeded \in 0..Len(NameOf)
           /\ HeadRevision = 9 /\ db.version \in 0..9 /\ at \in 1..9
           /\ pc \in Stages
<1>1. Len(NameOf) \in Nat
  BY CatalogueAssumption
<1>2. HeadRevision = 9
  BY UpgradesWellFormed
<1> QED BY <1>1, <1>2, Types DEF TypeOK, MigrationTypeOK, CatalogueTypeOK

LEMMA CountRange ==
    ASSUME IInv
    PROVE  StepsLeft \in 0..Len(NameOf) + 103 /\ (StepsLeft = 0 <=> Rests)
<1>1. YetToEnd \in {0, 1}
  BY DEF YetToEnd
<1>2. PICK L \in Nat : L = Len(NameOf)
  BY CountFacts
<1>3. PICK v \in 0..9, a \in 1..9, i \in 0..L : v = db.version /\ a = at /\ i = seeded
  BY <1>2, CountFacts
<1>4. Rests => StepsLeft = 0
  BY DEF Rests, StepsLeft
<1>5. ASSUME ~Rests PROVE StepsLeft \in 1..L + 103
  <2>1. CASE pc = "upgrade"
    <3>1. StepsLeft = L + 4 + 10 * (9 - v) + (10 - a)
      BY <1>2, <1>3, <2>1, CountFacts DEF StepsLeft
    <3> QED BY ONLY <3>1, L \in Nat, v \in 0..9, a \in 1..9
  <2>2. CASE pc = "downgrade"
    <3>1. StepsLeft = 10 * v + (10 - a)
      BY <1>3, <2>2 DEF StepsLeft
    <3> QED BY ONLY <3>1, L \in Nat, v \in 0..9, a \in 1..9
  <2>3. CASE pc = "seed"
    <3>1. StepsLeft = L - i + 2
      BY <1>2, <1>3, <2>3 DEF StepsLeft
    <3> QED BY ONLY <3>1, L \in Nat, i \in 0..L
  <2>4. CASE pc \in {"connect", "count", "tasks", "disconnect", "await purge", "await worker"}
    <3>1. StepsLeft \in {L + 4, L + 3, 1, 4 + YetToEnd, 2 + YetToEnd}
      BY <1>2, <2>4 DEF StepsLeft
    <3> QED BY ONLY <3>1, <1>1, L \in Nat
  <2> QED BY <1>5, <2>1, <2>2, <2>3, <2>4, CountFacts DEF Stages, Rests
<1>6. StepsLeft = 0 \/ StepsLeft \in 1..L + 103
  BY <1>4, <1>5
<1>7. StepsLeft \in 0..L + 103
  BY ONLY <1>6, L \in Nat
<1>8. StepsLeft \in 1..L + 103 => StepsLeft # 0
  BY ONLY L \in Nat
<1> QED BY <1>2, <1>4, <1>5, <1>7, <1>8

(* The process ends: nothing is left of it.                                 *)
LEMMA EndCounts ==
    ASSUME IInv, pc' = "down", ~Rests
    PROVE  StepsLeft' < StepsLeft
<1>1. StepsLeft' = 0
  BY DEF StepsLeft
<1> QED BY <1>1, CountRange

(* A migration step counts.                                                 *)
LEMMA MigrationCounts ==
    ASSUME IInv, RunStatement \/ CommitRevision \/ Migrated
    PROVE  StepsLeft' < StepsLeft
<1>1. PICK L \in Nat, v \in 0..9, a \in 1..9 : L = Len(NameOf) /\ v = db.version /\ a = at
  BY CountFacts
<1>2. PICK n : n = StepsLeft
  OBVIOUS
<1>3. PICK m : m = StepsLeft'
  OBVIOUS
<1>4. /\ pc \in {"upgrade", "downgrade"}
      /\ pc = "upgrade" => n = L + 4 + 10 * (9 - v) + (10 - a)
      /\ pc = "downgrade" => n = 10 * v + (10 - a)
  BY <1>1, <1>2, CountFacts DEF RunStatement, CommitRevision, Migrated, Migrating, StepsLeft
<1>5. CASE RunStatement
  <2>1. pc' = pc /\ at' = a + 1
    BY <1>1, <1>5 DEF RunStatement
  <2>2. db'.version = v
    <3>1. db = [version |-> db.version, tables |-> db.tables]
      BY DEF IInv, MigrationInv
    <3>2. \/ UNCHANGED db
          \/ \E d : db' = [db EXCEPT !.tables = d]
      BY <1>5 DEF RunStatement
    <3> QED BY <1>1, <3>1, <3>2
  <2>3. /\ pc = "upgrade" => m = L + 4 + 10 * (9 - v) + (10 - (a + 1))
        /\ pc = "downgrade" => m = 10 * v + (10 - (a + 1))
    BY <1>1, <1>3, <2>1, <2>2, CountFacts DEF StepsLeft
  <2>4. \E b \in Int : n = b + (10 - a) /\ m = b + (10 - (a + 1))
    <3>1. L + 4 + 10 * (9 - v) \in Int /\ 10 * v \in Int
      BY ONLY L \in Nat, v \in 0..9
    <3> QED BY <1>4, <2>3, <3>1
  <2>5. m < n
    BY ONLY <2>4, a \in 1..9
  <2> QED BY <1>2, <1>3, <2>5
<1>6. CASE CommitRevision
  <2>1. /\ pc' = pc /\ at' = 1
        /\ pc = "upgrade" => db'.version = v + 1
        /\ pc = "downgrade" => db'.version = v - 1
    BY <1>1, <1>6 DEF CommitRevision
  <2>2. /\ pc = "upgrade" => m = L + 4 + 10 * (9 - (v + 1)) + (10 - 1)
        /\ pc = "downgrade" => m = 10 * (v - 1) + (10 - 1)
    BY <1>1, <1>3, <2>1, CountFacts DEF StepsLeft
  <2>3. \/ n = L + 4 + 10 * (9 - v) + (10 - a) /\ m = L + 4 + 10 * (9 - (v + 1)) + (10 - 1)
        \/ n = 10 * v + (10 - a) /\ m = 10 * (v - 1) + (10 - 1)
    BY <1>4, <2>2
  <2>4. m < n
    BY ONLY <2>3, L \in Nat, v \in 0..9, a \in 1..9
  <2> QED BY <1>2, <1>3, <2>4
<1>7. CASE Migrated
  <2>1. /\ pc = "upgrade" => pc' = "connect"
        /\ pc = "downgrade" => pc' = "down"
    BY <1>7 DEF Migrated
  <2>2. /\ pc = "upgrade" => m = L + 4
        /\ pc = "downgrade" => m = 0
    BY <1>1, <1>3, <2>1 DEF StepsLeft
  <2>3. \/ n = L + 4 + 10 * (9 - v) + (10 - a) /\ m = L + 4
        \/ n = 10 * v + (10 - a) /\ m = 0
    BY <1>4, <2>2
  <2>4. m < n
    BY ONLY <2>3, L \in Nat, v \in 0..9, a \in 1..9
  <2> QED BY <1>2, <1>3, <2>4
<1> QED BY <1>5, <1>6, <1>7

(* And so does a step of lifespan.                                          *)
LEMMA LifespanCounts ==
    ASSUME IInv, TaskInv,
           \/ Connect \/ StartTasks \/ AwaitPurge \/ AwaitWorker \/ WorkerEnds
           \/ SeedCount \/ SeedRow \/ Seeded
    PROVE  StepsLeft' < StepsLeft
<1>0. PICK L \in Nat : L = Len(NameOf)
  BY CountFacts
<1>1. PICK i \in 0..L : L = Len(NameOf) /\ i = seeded
  BY <1>0, CountFacts
<1>2. PICK w \in {0, 1}, wn \in {0, 1} : w = YetToEnd /\ wn = YetToEnd'
  BY DEF YetToEnd
<1>3. CASE Connect \/ StartTasks
  <2>1. \/ StepsLeft = L + 4 /\ StepsLeft' = L + 3
        \/ StepsLeft = 1 /\ StepsLeft' = 0
    BY <1>1, <1>3 DEF Connect, StartTasks, StepsLeft
  <2> QED BY ONLY <2>1, L \in Nat
<1>4. CASE AwaitPurge
  <2>1. StepsLeft = 4 + w /\ StepsLeft' = 2 + wn
    BY <1>2, <1>4 DEF AwaitPurge, StepsLeft
  <2> QED BY ONLY <2>1, w \in {0, 1}, wn \in {0, 1}
<1>5. CASE AwaitWorker
  <2>1. StepsLeft = 2 + w /\ StepsLeft' = 1
    BY <1>2, <1>5 DEF AwaitWorker, StepsLeft
  <2> QED BY ONLY <2>1, w \in {0, 1}
<1>6. CASE WorkerEnds
  <2>1. /\ pc = "await purge" \/ pc = "await worker"
        /\ pc' = pc /\ YetToEnd = 1 /\ YetToEnd' = 0
    BY <1>6 DEF WorkerEnds, TaskInv, YetToEnd
  <2>2. \/ StepsLeft = 4 + w /\ StepsLeft' = 4 + wn
        \/ StepsLeft = 2 + w /\ StepsLeft' = 2 + wn
    BY <1>2, <2>1 DEF StepsLeft
  <2>3. w = 1 /\ wn = 0
    BY <1>2, <2>1
  <2> QED BY ONLY <2>2, <2>3
<1>7. CASE SeedCount
  <2>1. pc = "count" /\ seeded' = 0 /\ (pc' = "seed" \/ pc' = "tasks")
    BY <1>7 DEF SeedCount
  <2>2. StepsLeft = L + 3 /\ (StepsLeft' = L - 0 + 2 \/ StepsLeft' = 1)
    BY <1>1, <2>1 DEF StepsLeft
  <2> QED BY ONLY <2>2, L \in Nat
<1>8. CASE SeedRow
  <2>1. StepsLeft = L - i + 2 /\ StepsLeft' = L - (i + 1) + 2
    BY <1>1, <1>8 DEF SeedRow, StepsLeft
  <2> QED BY ONLY <2>1, L \in Nat, i \in 0..L
<1>9. CASE Seeded
  <2>1. StepsLeft = L - i + 2 /\ StepsLeft' = 1
    BY <1>1, <1>9 DEF Seeded, StepsLeft
  <2> QED BY ONLY <2>1, L \in Nat, i \in 0..L
<1> QED BY <1>3, <1>4, <1>5, <1>6, <1>7, <1>8, <1>9

(* Until a process serves or has ended it has a step to take, and it can    *)
(* take at most Len(NameOf) + 103: the statements and commits of nine       *)
(* revisions, the seed and the start, or those of a stop.                   *)
THEOREM NothingBlocks ==
    Spec => [](/\ StepsLeft \in 0..Len(NameOf) + 103
               /\ StepsLeft = 0 <=> Rests
               /\ ~Rests => MayGoOn)
<1>1. IInv /\ TaskInv => /\ StepsLeft \in 0..Len(NameOf) + 103
                         /\ StepsLeft = 0 <=> Rests
                         /\ ~Rests => MayGoOn
  <2> SUFFICES ASSUME IInv, TaskInv
               PROVE  /\ StepsLeft \in 0..Len(NameOf) + 103
                      /\ StepsLeft = 0 <=> Rests
                      /\ ~Rests => MayGoOn
    OBVIOUS
  <2>1. ~Rests => MayGoOn
    <3>1. pc \in Stages /\ Len(NameOf) \in Nat /\ seeded \in 0..Len(NameOf)
      BY CountFacts
    <3>2. seeded <= Len(NameOf)
      BY <3>1
    <3> QED BY <3>1, <3>2 DEF Stages, Rests, MayGoOn, Migrating, TaskInv
  <2> QED BY <2>1, CountRange
<1> QED BY <1>1, Invariance, TasksInvariance, PTL

(* Every step it takes brings it nearer, whoever takes it: nothing repeats, *)
(* so a start and a stop end with the last of those steps, for any          *)
(* catalogue and from any revision.                                         *)
THEOREM EveryStepCounts == Spec => [][~Rests => StepsLeft' < StepsLeft]_vars
<1>1. IInv /\ TaskInv /\ [Next]_vars => [~Rests => StepsLeft' < StepsLeft]_vars
  <2> SUFFICES ASSUME IInv, TaskInv, Next, ~Rests PROVE StepsLeft' < StepsLeft
    OBVIOUS
  <2>1. CASE StatementRaises \/ AwaitRaises \/ Disconnect \/ Die
    <3>1. pc' = "down"
      BY <2>1 DEF StatementRaises, AwaitRaises, Disconnect, Die, End
    <3> QED BY <3>1, EndCounts
  <2>2. CASE RunStatement \/ CommitRevision \/ Migrated
    BY <2>2, MigrationCounts
  <2>3. CASE \/ Connect \/ StartTasks \/ AwaitPurge \/ AwaitWorker \/ WorkerEnds
             \/ SeedCount \/ SeedRow \/ Seeded
    BY <2>3, LifespanCounts
  <2>4. ~(Start \/ StartDowngrade \/ Stop)
    BY DEF Start, StartUpgrade, StartDowngrade, Stop, Rests
  <2>5. ~(GroupIsReady \/ GroupFails)
    BY DEF GroupIsReady, GroupFails, TaskInv, Rests
  <2>6. ~ReadMenu
    <3>1. reading = "idle"
      BY DEF IInv, MenuInv, Rests
    <3> QED BY <3>1 DEF ReadMenu, AskMenu, CountNames, ReadNames, SendMenu, Rests
  <2> QED BY <2>1, <2>2, <2>3, <2>4, <2>5, <2>6 DEF Next, Advance, Lifespan
<1> QED BY <1>1, Invariance, TasksInvariance, PTL DEF Spec
=============================================================================
