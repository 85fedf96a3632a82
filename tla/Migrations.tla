----------------------------- MODULE Migrations -----------------------------
(***************************************************************************)
(* `alembic upgrade head`, which the container runs before the server, and *)
(* `alembic downgrade`: the nine revisions and the transaction each of     *)
(* them gets on SQLite.                                                    *)
(*                                                                         *)
(* pysqlite opens a transaction at the first DML statement: DDL before it  *)
(* is on disk at once, what follows is kept by the commit that ends the    *)
(* revision.  The first DML of a revision is the copy of a batch operation *)
(* or else the UPDATE of alembic_version.  Foreign keys are declared but   *)
(* never enforced (no PRAGMA foreign_keys): they are left out, as is the   *)
(* order of columns.                                                       *)
(***************************************************************************)
EXTENDS Naturals, Sequences

CONSTANTS
    Products,   \* the products of the seed catalogue
    OrderRows,
    UserRows    \* rows that earlier releases stored in orders and in users

VARIABLES
    pc,         \* where the process is; "down" when there is none
    db,         \* on disk: the revision in alembic_version and the tables
    begun,      \* is a transaction open
    work,       \* the tables as it sees them
    at,         \* the next statement of the current revision
    goal,       \* the revision `alembic downgrade` is to reach, 0 without one
    cut         \* history: was a revision cut off between its first statement
                \* on disk and its commit, in an upgrade ("up") or a downgrade

transaction == <<begun, work>>
migration == <<db, transaction, at, goal, cut>>

-----------------------------------------------------------------------------
(* Columns, tables and statements.                                          *)
Col(name, attrs) == [name |-> name, attrs |-> attrs]

Names(cols) == {c.name : c \in cols}

Without(cols, names) == {c \in cols : c.name \notin names}

Required(c) == c.attrs \intersect {"null", "default"} = {}

Table(cols) == [cols |-> cols, rows |-> {}]

Tmp(t) == [orders |-> "_alembic_tmp_orders", products |-> "_alembic_tmp_products"][t]

Create(t, cols)  == [op |-> "create", table |-> t, cols |-> cols]
Drop(t)          == [op |-> "drop", table |-> t]
DropIfExists(t)  == [op |-> "drop if exists", table |-> t]
AddColumn(t, col)  == [op |-> "add", table |-> t, col |-> col]
DropColumn(t, name) == [op |-> "remove", table |-> t, name |-> name]

\* batch_alter_table that recreates: a temporary table, the copy, a swap.
Batch(t, gone, added) ==
    << [op |-> "recreate", table |-> t, gone |-> gone, added |-> added],
       [op |-> "copy", table |-> t], Drop(t), [op |-> "rename", table |-> t] >>

Succeeds(s, d) ==
    LET here == s.table \in DOMAIN d IN
    CASE s.op = "create"   -> ~here
      [] s.op = "drop"     -> here
      [] s.op = "add"      -> /\ here /\ s.col.name \notin Names(d[s.table].cols)
                              /\ Required(s.col) => d[s.table].rows = {}
      [] s.op = "remove"   -> here /\ s.name \in Names(d[s.table].cols)
      [] s.op = "recreate" -> here /\ Tmp(s.table) \notin DOMAIN d
      [] s.op = "copy"     -> \/ d[s.table].rows = {}
                              \/ \A c \in d[Tmp(s.table)].cols :
                                    Required(c) => c.name \in Names(d[s.table].cols)
      [] OTHER             -> TRUE

Less(d, t) == [u \in DOMAIN d \ {t} |-> d[u]]

With(d, t, table) == [u \in DOMAIN d \union {t} |-> IF u = t THEN table ELSE d[u]]

Effect(s, d) ==
    CASE s.op = "create"   -> With(d, s.table, Table(s.cols))
      [] s.op = "add"      -> [d EXCEPT ![s.table].cols = @ \union {s.col}]
      [] s.op = "remove"   -> [d EXCEPT ![s.table].cols = Without(@, {s.name})]
      [] s.op = "recreate" ->
            With(d, Tmp(s.table), Table(Without(d[s.table].cols, s.gone) \union s.added))
      [] s.op = "copy"     -> [d EXCEPT ![Tmp(s.table)].rows = d[s.table].rows]
      [] s.op = "rename"   -> Less(With(d, s.table, d[Tmp(s.table)]), Tmp(s.table))
      [] OTHER             -> Less(d, s.table)

\* Mutants: the forms a plausible slip would give the definitions below.

NullableLost == << AddColumn("orders", Col("user_id", {"default"})) >>

RequiredUserId == << AddColumn("orders", Col("user_id", {})) >>

TotalsOnly == Batch("orders", {"total_price"}, {Col("total_price", {"float"})})

NoTransaction(s) == FALSE

-----------------------------------------------------------------------------
(* The revisions, oldest first; the attribute of a column that is nullable, *)
(* has a default, is a key or has a type other than the usual one.          *)
Plain(names) == {Col(n, {}) : n \in names}
Key(name) == Col(name, {"key"})

CreateInitial ==
    << Create("products", {Key("id"), Col("base_price", {"float"}), Col("price_change", {"float"})}
                            \union Plain({"name", "variation"})),
       Create("users", {Key("id")} \union Plain({"role"})),
       Create("orders", {Key("id"), Col("total_price", {"float"})} \union Plain({"status", "user_id"})),
       Create("order_products", Plain({"order_id", "product_id"})) >>

DropInitial == << Drop("order_products"), Drop("orders"), Drop("users"), Drop("products") >>

RemoveUsersTable == Batch("orders", {"user_id"}, {}) \o << DropIfExists("users") >>

RestoreUsersTable ==
    << Create("users", {Key("id")} \union Plain({"role"})) >>
        \o Batch("orders", {}, Plain({"user_id"}))

AddCreatedAt == Batch("orders", {}, {Col("created_at", {"time", "default"})})

DropCreatedAt == Batch("orders", {"created_at"}, {})

AddUsersTable ==
    << Create("users", {Key("id"), Col("email", {"unique"})} \union Plain({"role"})) >>

AddIdempotencyKeysTable ==
    << Create("idempotency_keys",
              {Key("key"), Col("status_code", {"int"}), Col("response_body", {"text"}),
               Col("created_at", {"time", "default"})}) >>

AddPasswordHash == << AddColumn("users", Col("password_hash", {})) >>

DropPasswordHash == << DropColumn("users", "password_hash") >>

AddUserId == << AddColumn("orders", Col("user_id", {"null"})) >>

DropUserId == << DropColumn("orders", "user_id") >>

CreateRevokedTokens ==
    << Create("revoked_tokens", {Key("jti"), Col("expires_at", {"time"})}) >>

Prices(type) ==
    Batch("products", {"base_price", "price_change"},
          {Col("base_price", {type}), Col("price_change", {type})})

Totals(type) == Batch("orders", {"total_price"}, {Col("total_price", {type})})

FloatToNumeric == Prices("numeric") \o Totals("numeric")

NumericToFloat == Totals("float") \o Prices("float")

Upgrades ==
    << CreateInitial, RemoveUsersTable, AddCreatedAt, AddUsersTable, AddIdempotencyKeysTable,
       AddPasswordHash, AddUserId, CreateRevokedTokens, FloatToNumeric >>

Downgrades ==
    << DropInitial, RestoreUsersTable, DropCreatedAt, << Drop("users") >>,
       << Drop("idempotency_keys") >>, DropPasswordHash, DropUserId,
       << Drop("revoked_tokens") >>, NumericToFloat >>

HeadRevision == Len(Upgrades)

\* 5be22fd743cf, which adds a column without a default to users.
PasswordRevision == 6

(* The tables the models of the server declare.                             *)
ProductsTable ==
    {Key("id"), Col("base_price", {"numeric"}), Col("price_change", {"numeric"})}
        \union Plain({"name", "variation"})

OrdersTable ==
    {Key("id"), Col("total_price", {"numeric"}), Col("created_at", {"time", "default"}),
     Col("user_id", {"null"})} \union Plain({"status"})

OrderProductsTable == Plain({"order_id", "product_id"})

UsersTable == {Key("id"), Col("email", {"unique"})} \union Plain({"role", "password_hash"})

IdempotencyKeysTable ==
    {Key("key"), Col("status_code", {"int"}), Col("response_body", {"text"}),
     Col("created_at", {"time", "default"})}

RevokedTokensTable == {Key("jti"), Col("expires_at", {"time"})}

Models ==
    [products |-> ProductsTable, orders |-> OrdersTable, order_products |-> OrderProductsTable,
     users |-> UsersTable, idempotency_keys |-> IdempotencyKeysTable,
     revoked_tokens |-> RevokedTokensTable]

-----------------------------------------------------------------------------
Schema(d) == [t \in DOMAIN d |-> d[t].cols]

RowsOf(d, t) == IF t \in DOMAIN d THEN d[t].rows ELSE {}

NoTables == [t \in {} |-> Table({})]

(* The tables of a database that was upgraded to revision r, and their      *)
(* columns.                                                                 *)
TablesOf(r) ==
    {t \in DOMAIN Models :
        CASE t = "users"            -> r = 1 \/ r >= 4
          [] t = "idempotency_keys" -> r >= 5
          [] t = "revoked_tokens"   -> r >= 8
          [] OTHER                  -> r >= 1}

Since(n, r, cols) == IF r >= n THEN cols ELSE {}

Money(names, r) == {Col(n, {IF r >= 9 THEN "numeric" ELSE "float"}) : n \in names}

ColumnsOf(t, r) ==
    CASE t = "products" ->
            {Key("id")} \union Plain({"name", "variation"}) \union Money({"base_price", "price_change"}, r)
      [] t = "orders" ->
            {Key("id")} \union Plain({"status"}) \union Money({"total_price"}, r)
                \union Since(3, r, {Col("created_at", {"time", "default"})})
                \union (IF r = 1 THEN Plain({"user_id"}) ELSE Since(7, r, {Col("user_id", {"null"})}))
      [] t = "users" ->
            {Key("id")} \union Plain({"role"}) \union Since(4, r, {Col("email", {"unique"})})
                \union Since(6, r, Plain({"password_hash"}))
      [] OTHER -> Models[t]

SchemaAt(r) == [t \in TablesOf(r) |-> ColumnsOf(t, r)]

TableNames == DOMAIN Models \union {Tmp("orders"), Tmp("products")}

AllRows == [products |-> Products \X {1, 2}, orders |-> OrderRows, users |-> UserRows]

Stored(t) == IF t \in DOMAIN AllRows THEN SUBSET AllRows[t] ELSE {{}}

TablesOK(d) ==
    /\ DOMAIN d \subseteq TableNames
    /\ \A t \in DOMAIN Models \intersect DOMAIN d : d[t].rows \in Stored(t)

MigrationTypeOK ==
    /\ db.version \in 0..HeadRevision /\ TablesOK(db.tables)
    /\ begun \in BOOLEAN /\ TablesOK(work)
    /\ at \in 1..9
    /\ goal \in 0..HeadRevision
    /\ cut \in {"no", "up", "down"}

(* A release left the database at some revision, with its rows, or there is *)
(* none yet.                                                                *)
MigrationInit ==
    /\ pc = "down"
    /\ \E v \in 0..HeadRevision, os \in SUBSET OrderRows, us \in SUBSET UserRows, ps \in {{}, Products \X {1}} :
        LET rows(t) == CASE t = "orders" -> os [] t = "users" -> us [] t = "products" -> ps
                         [] OTHER -> {}
        IN  db = [version |-> v,
                  tables |-> [t \in TablesOf(v) |-> [cols |-> ColumnsOf(t, v), rows |-> rows(t)]]]
    /\ begun = FALSE /\ work = NoTables
    /\ at = 1
    /\ goal = 0
    /\ cut = "no"

-----------------------------------------------------------------------------
Migrating == pc \in {"upgrade", "downgrade"}

Behind == IF pc = "upgrade" THEN db.version < HeadRevision ELSE db.version > goal

Script == IF pc = "upgrade" THEN Upgrades[db.version + 1] ELSE Downgrades[db.version]

Seen == IF begun THEN work ELSE db.tables

\* A statement opens a transaction, or is in one.
InTransaction(s) == s.op = "copy" \/ begun

Tear ==
    IF ~Migrating \/ at = 1 THEN cut
    ELSE IF pc = "upgrade" /\ cut # "down" THEN "up" ELSE "down"

-----------------------------------------------------------------------------
(* The container starts: `alembic upgrade head && uvicorn ...`.             *)
StartUpgrade ==
    /\ pc = "down"
    /\ pc' = "upgrade"
    /\ at' = 1
    /\ UNCHANGED <<db, transaction, goal, cut>>

(* `alembic downgrade <revision>`, run by hand while the server is down.    *)
StartDowngrade ==
    /\ pc = "down" /\ db.version > 0
    /\ pc' = "downgrade"
    /\ goal' \in 0..db.version - 1
    /\ at' = 1
    /\ cut' = IF cut = "up" THEN "down" ELSE cut
    /\ UNCHANGED <<db, transaction>>

RunStatement ==
    /\ Migrating /\ Behind /\ at <= Len(Script)
    /\ LET s == Script[at] IN
        /\ Succeeds(s, Seen)
        /\ IF InTransaction(s)
           THEN begun' = TRUE /\ work' = Effect(s, Seen) /\ UNCHANGED db
           ELSE db' = [db EXCEPT !.tables = Effect(s, Seen)] /\ UNCHANGED transaction
    /\ at' = at + 1
    /\ UNCHANGED <<pc, goal, cut>>

(* The process ends, by a statement that raises or by a crash: SQLite rolls *)
(* the transaction back.                                                    *)
End ==
    /\ pc' = "down"
    /\ begun' = FALSE /\ work' = NoTables
    /\ at' = 1
    /\ goal' = 0
    /\ cut' = Tear
    /\ UNCHANGED db

Raises == Migrating /\ Behind /\ at <= Len(Script) /\ ~Succeeds(Script[at], Seen)

StatementRaises == Raises /\ End

(* The UPDATE of alembic_version, and the commit of the revision.           *)
CommitRevision ==
    /\ Migrating /\ Behind /\ at > Len(Script)
    /\ db' = [version |-> IF pc = "upgrade" THEN db.version + 1 ELSE db.version - 1,
              tables |-> Seen]
    /\ begun' = FALSE /\ work' = NoTables
    /\ at' = 1
    /\ UNCHANGED <<pc, goal, cut>>

(* alembic ends; after an upgrade the shell starts the server.              *)
Migrated ==
    /\ Migrating /\ ~Behind
    /\ pc' = IF pc = "upgrade" THEN "connect" ELSE "down"
    /\ goal' = 0
    /\ UNCHANGED <<db, transaction, at, cut>>

Migrate ==
    \/ StartUpgrade \/ StartDowngrade \/ RunStatement \/ StatementRaises
    \/ CommitRevision \/ Migrated

-----------------------------------------------------------------------------
(* An upgrade, a crash at any of its statements and a failing one lose no   *)
(* order and no product; neither does a downgrade but that of the revision  *)
(* that created the tables.                                                 *)
KeepsRows ==
    [][\A t \in {"orders", "products"} :
        \/ RowsOf(db.tables, t) \subseteq RowsOf(db'.tables, t)
        \/ pc = "downgrade" /\ db.version = 1]_<<pc, migration>>

(* Unless a revision was cut off, one thing alone stops an upgrade, at      *)
(* whatever revision it begins: users that registered before passwords.     *)
OnlyUsersStopUpgrades ==
    pc = "upgrade" /\ Raises /\ cut = "no" =>
        db.version + 1 = PasswordRevision /\ RowsOf(db.tables, "users") # {}

(* A downgrade brings back the tables of the revision it ends at, as an     *)
(* upgrade to that revision makes them, unless it was cut off.              *)
DowngradeRestores ==
    cut = "no" /\ at = 1 => Schema(db.tables) = SchemaAt(db.version)
=============================================================================
