----------------------------- MODULE Catalogue -----------------------------
(***************************************************************************)
(* The product catalogue: seed_catalog at startup, and GET /menu, which    *)
(* pages by the distinct names of the products.                            *)
(*                                                                         *)
(* execute_many of SQLite runs an INSERT per row, each committed by        *)
(* itself.  A row of products is the entry of CATALOG it was made from and *)
(* a number: 1, or 2 for a second row of the same entry.                   *)
(***************************************************************************)
EXTENDS Migrations, FiniteSets

CONSTANTS
    NameOf,     \* per entry of CATALOG, its name
    MenuPage    \* the page size of the client

ASSUME CatalogueAssumption ==
    /\ NameOf \in Seq(Nat) /\ NameOf # <<>>
    /\ Products = 1..Len(NameOf)
    /\ MenuPage \in Nat \ {0}

VARIABLES
    seeded,     \* the entries that the running execute_many has inserted
    reading,    \* the await GET /menu is at; "idle" without a request, "end" after the last
    page,       \* the page the client asks for
    total,      \* the names that were counted
    names,      \* the names of the page
    shown,      \* history: the names the client has been sent
    sent,       \* history: the rows it has been sent
    halved      \* history: the seeding ended between two INSERTs

menu == <<reading, page, total, names, shown, sent>>
catalogue == <<seeded, menu, halved>>

Entries == {<<p, 1>> : p \in Products}

Rows == RowsOf(db.tables, "products")

NamesOf(rows) == {NameOf[r[1]] : r \in rows}

CatalogueTypeOK ==
    /\ seeded \in 0..Len(NameOf)
    /\ reading \in {"idle", "count", "names", "rows", "end"}
    /\ page \in 1..Len(NameOf)
    /\ total \in 0..Cardinality(Products)
    /\ names \subseteq NamesOf(Entries) /\ Cardinality(names) <= MenuPage
    /\ shown \subseteq NamesOf(Entries)
    /\ sent \subseteq Rows
    /\ halved \in BOOLEAN

CatalogueInit ==
    /\ seeded = 0
    /\ reading = "idle" /\ page = 1 /\ total = 0
    /\ names = {} /\ shown = {} /\ sent = {}
    /\ halved = FALSE

\* The process ends, and with it the request it was answering.
EndCatalogue ==
    /\ seeded' = 0
    /\ reading' = "idle" /\ page' = 1 /\ total' = 0
    /\ names' = {} /\ shown' = {} /\ sent' = {}
    /\ halved' = (halved \/ (pc = "seed" /\ seeded \in 1..Len(NameOf) - 1))

-----------------------------------------------------------------------------
\* Mutants: the forms a plausible slip would give the definitions below.

\* LIMIT and OFFSET on the products instead of on their names.
PageOfRows(ns, offset) ==
    {n \in ns : \E p \in Products : NameOf[p] = n /\ p - 1 \in offset..offset + MenuPage - 1}

SeedsOneMore ==
    /\ pc = "seed" /\ seeded <= Len(NameOf)
    /\ seeded' = seeded + 1
    /\ db' = [db EXCEPT !.tables["products"].rows = @ \union {<<seeded + 1, 1>>}]
    /\ UNCHANGED <<pc, transaction, at, goal, cut, menu, halved>>

SeedsAlways ==
    /\ pc = "count"
    /\ pc' = "seed"
    /\ seeded' = 0
    /\ UNCHANGED <<migration, menu, halved>>

-----------------------------------------------------------------------------
(* seed_catalog: `count = await db.fetch_val(_count_query)` ...             *)
SeedCount ==
    /\ pc = "count"
    /\ pc' = IF Rows # {} THEN "tasks" ELSE "seed"
    /\ seeded' = 0
    /\ UNCHANGED <<migration, menu, halved>>

(* ... and an INSERT per entry, with a new id each.                         *)
NewRow(p) == IF <<p, 1>> \in Rows THEN <<p, 2>> ELSE <<p, 1>>

SeedRow ==
    /\ pc = "seed" /\ seeded < Len(NameOf)
    /\ seeded' = seeded + 1
    /\ db' = [db EXCEPT !.tables["products"].rows = @ \union {NewRow(seeded + 1)}]
    /\ UNCHANGED <<pc, transaction, at, goal, cut, menu, halved>>

Seeded ==
    /\ pc = "seed" /\ seeded = Len(NameOf)
    /\ pc' = "tasks"
    /\ UNCHANGED <<migration, catalogue>>

-----------------------------------------------------------------------------
(* The names a SELECT DISTINCT ... ORDER BY name LIMIT OFFSET returns.      *)
Before(n, ns) == {m \in ns : m < n}

PageOf(ns, offset) ==
    {n \in ns : Cardinality(Before(n, ns)) \in offset..offset + MenuPage - 1}

(* A client reads the menu, page after page, until it has as many names as  *)
(* the total it was told; list_all makes three reads of each.               *)
AskMenu ==
    /\ pc = "serve" /\ reading = "idle"
    /\ reading' = "count"
    /\ UNCHANGED <<pc, migration, seeded, page, total, names, shown, sent, halved>>

CountNames ==
    /\ reading = "count"
    /\ total' = Cardinality(NamesOf(Rows))
    /\ reading' = "names"
    /\ UNCHANGED <<pc, migration, seeded, page, names, shown, sent, halved>>

ReadNames ==
    /\ reading = "names"
    /\ names' = PageOf(NamesOf(Rows), (page - 1) * MenuPage)
    /\ reading' = "rows"
    /\ UNCHANGED <<pc, migration, seeded, page, total, shown, sent, halved>>

(* The rows of those names, grouped by GetMenu, with the total; without a   *)
(* name there is no third read.                                             *)
SendMenu ==
    /\ reading = "rows"
    /\ shown' = shown \union names
    /\ sent' = sent \union {r \in Rows : NameOf[r[1]] \in names}
    /\ IF page * MenuPage >= total
       THEN reading' = "end" /\ UNCHANGED page
       ELSE reading' = "count" /\ page' = page + 1
    /\ UNCHANGED <<pc, migration, seeded, total, names, halved>>

ReadMenu == AskMenu \/ CountNames \/ ReadNames \/ SendMenu

-----------------------------------------------------------------------------
(* The server serves the whole catalogue, each entry once, however often it *)
(* was started: unless one start ended while it was seeding, which no later *)
(* one makes good.                                                          *)
CatalogueIsWhole == pc = "serve" /\ ~halved => Rows = Entries

(* A client that reads the menu to its end is sent every product of it, and *)
(* no name on two pages.                                                    *)
MenuIsWhole ==
    /\ reading = "end" => sent = Rows
    /\ reading = "rows" => names \intersect shown = {}
=============================================================================
