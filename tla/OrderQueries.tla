---------------------------- MODULE OrderQueries ----------------------------
(***************************************************************************)
(* GET /orders/ and GET /orders/{id}: the handlers list_orders and         *)
(* get_order, the ListOrders and GetOrderDetail use cases and the reads of *)
(* the order repository, beside the transaction that stores an order.      *)
(*                                                                         *)
(* No read is in a transaction: a listing counts, reads a page, and then   *)
(* reads the products of each row, with an await, hence an action, each;   *)
(* orders are committed in between.  SELECT has no ORDER BY: SQLite scans  *)
(* the table in the order of its rowids, the next of which is one more     *)
(* than the last, as no order is deleted.  An order is named by its rowid. *)
(***************************************************************************)
EXTENDS Naturals, FiniteSets

CONSTANTS
    Clients,    \* each walks one listing from its first page, or asks for one order
    Users,      \* the customers
    Manager,    \* a caller with the role MANAGER
    MaxOrders,  \* bound of a run: the orders stored in it
    MaxLegacy,  \* bound of a run: those stored before orders had a user
    PageSize,
    None

ASSUME BoundsAssumption == MaxOrders \in Nat /\ MaxLegacy \in 0..MaxOrders
ASSUME PageAssumption == PageSize \in Nat \ {0}
ASSUME CallerAssumption == Manager \notin Users /\ None \notin Users \union {Manager} \union Nat

VARIABLES
    last,       \* the rowid of the last committed row of orders
    legacy,     \* the rows up to this one are from before orders had a user
    products,   \* the orders whose order_products rows are committed
    owner,      \* per order, its user_id or None
    open,       \* is the transaction open that stores the next order
    pc,         \* per client, the await its handler is at
    caller,     \* per client, who it is
    wanted,     \* per client, the id of GET /orders/{id}, or None for a listing
    page,       \* per client, the query parameter
    total,      \* per client, what the count read
    rows,       \* per client, the page that was read
    todo,       \* per client, those of its rows that still lack their products
    status,     \* per client, the status code of the last response
    seen,       \* history: per client, the orders it was sent, page after page
    bare,       \* history: per client, those of them it was sent without products
    before      \* history: per client, the orders of its caller when it began

table == <<last, legacy, products, owner, open>>
handler == <<pc, caller, wanted, page, total, rows, todo, status>>
history == <<seen, bare, before>>
vars == <<table, handler, history>>

Callers == Users \union {Manager}

Orders == 1..MaxOrders

TypeOK ==
    /\ last \in 0..MaxOrders /\ legacy \in 0..last
    /\ products \subseteq Orders
    /\ owner \in [Orders -> Users \union {None}]
    /\ open \in BOOLEAN /\ (open => last < MaxOrders)
    /\ pc \in [Clients -> {"idle", "count", "page", "products", "row", "items", "end"}]
    /\ caller \in [Clients -> Callers \union {None}]
    /\ wanted \in [Clients -> Orders \union {None}]
    /\ page \in [Clients -> Nat \ {0}]
    /\ total \in [Clients -> 0..MaxOrders]
    /\ rows \in [Clients -> SUBSET Orders]
    /\ \A c \in Clients : Cardinality(rows[c]) <= PageSize
    /\ todo \in [Clients -> SUBSET Orders]
    /\ status \in [Clients -> {200, 404, 500, None}]
    /\ seen \in [Clients -> SUBSET Orders]
    /\ bare \in [Clients -> SUBSET Orders]
    /\ before \in [Clients -> SUBSET Orders]

(* The database may hold orders that were stored before they had a user.    *)
Init ==
    /\ last \in 0..MaxLegacy
    /\ legacy = last
    /\ products = 1..last
    /\ owner = [o \in Orders |-> None]
    /\ open = FALSE
    /\ pc = [c \in Clients |-> "idle"]
    /\ caller = [c \in Clients |-> None]
    /\ wanted = [c \in Clients |-> None]
    /\ page = [c \in Clients |-> 1]
    /\ total = [c \in Clients |-> 0]
    /\ rows = [c \in Clients |-> {}]
    /\ todo = [c \in Clients |-> {}]
    /\ status = [c \in Clients |-> None]
    /\ seen = [c \in Clients |-> {}]
    /\ bare = [c \in Clients |-> {}]
    /\ before = [c \in Clients |-> {}]

-----------------------------------------------------------------------------
(* The rows of a listing: all of them for a manager (list_all), those of    *)
(* the caller for a customer (list_for_user).                               *)
MayList(u, o) == u = Manager \/ owner[o] = u

Visible(u) == {o \in 1..last : MayList(u, o)}

Offset(c) == (page[c] - 1) * PageSize

(* How many rows a scan of S meets before that of o.                        *)
Position(o, S) == Cardinality({p \in S : p < o})

Cut(S, from, n) == {o \in S : Position(o, S) \in from..from + n - 1}

\* Mutants: the forms a plausible slip would give the definitions below.

NewestFirst(c) ==
    {o \in Visible(caller[c]) :
        Cardinality({p \in Visible(caller[c]) : p > o}) \in Offset(c)..Offset(c) + PageSize - 1}

OneRowMore(c) == Cut(Visible(caller[c]), Offset(c), PageSize + 1)

CountsAgain(c) ==
    /\ pc[c] = "products"
    /\ \E o \in todo[c] : todo' = [todo EXCEPT ![c] = @ \ {o}]
    /\ total' = [total EXCEPT ![c] = Cardinality(Visible(caller[c]))]
    /\ UNCHANGED <<table, pc, caller, wanted, page, rows, status, history>>

RowBeforeProducts ==
    /\ ~open /\ last < MaxOrders
    /\ \E u \in Users : owner' = [owner EXCEPT ![last + 1] = u]
    /\ last' = last + 1
    /\ UNCHANGED <<legacy, products, open, handler, history>>

FitsTotal(c, o) == Offset(c) + Cardinality(rows[c] \ todo[c]) < total[c]

-----------------------------------------------------------------------------
(* OrderRepository.create: two statements in a transaction, which holds     *)
(* the database's one write lock from its INSERT on ...                     *)
InsertRow ==
    /\ ~open /\ last < MaxOrders
    /\ open' = TRUE
    /\ \E u \in Users : owner' = [owner EXCEPT ![last + 1] = u]
    /\ UNCHANGED <<last, legacy, products, handler, history>>

(* ... to its commit, with the order_products rows; both become visible.    *)
InsertProducts ==
    /\ open
    /\ last' = last + 1
    /\ products' = products \union {last + 1}
    /\ open' = FALSE
    /\ UNCHANGED <<legacy, owner, handler, history>>

(* The second statement raises, or the process dies: nothing is kept.       *)
Rollback ==
    /\ open
    /\ open' = FALSE
    /\ owner' = [owner EXCEPT ![last + 1] = None]
    /\ UNCHANGED <<last, legacy, products, handler, history>>

-----------------------------------------------------------------------------
(* A client asks for the first page of its listing, or for one order.       *)
Ask(c) ==
    /\ pc[c] = "idle"
    /\ \E u \in Callers :
        /\ caller' = [caller EXCEPT ![c] = u]
        /\ before' = [before EXCEPT ![c] = Visible(u)]
    /\ \/ pc' = [pc EXCEPT ![c] = "count"] /\ UNCHANGED wanted
       \/ /\ pc' = [pc EXCEPT ![c] = "row"]
          /\ \E o \in Orders : wanted' = [wanted EXCEPT ![c] = o]
    /\ UNCHANGED <<table, page, total, rows, todo, status, seen, bare>>

(* `total = await self._db.fetch_val(count_query)`                          *)
Count(c) ==
    /\ pc[c] = "count"
    /\ total' = [total EXCEPT ![c] = Cardinality(Visible(caller[c]))]
    /\ pc' = [pc EXCEPT ![c] = "page"]
    /\ UNCHANGED <<table, caller, wanted, page, rows, todo, status, history>>

(* `... .limit(limit).offset(offset)`                                       *)
PageOf(c) == Cut(Visible(caller[c]), Offset(c), PageSize)

ReadPage(c) ==
    /\ pc[c] = "page"
    /\ rows' = [rows EXCEPT ![c] = PageOf(c)]
    /\ todo' = [todo EXCEPT ![c] = PageOf(c)]
    /\ pc' = [pc EXCEPT ![c] = "products"]
    /\ UNCHANGED <<table, caller, wanted, page, total, status, history>>

(* The rows are completed in their order: the next is the first to do.      *)
IsNext(c, o) == o \in todo[c] /\ \A p \in todo[c] : o <= p

(* _fetch_product_ids of the next row, and _to_entity, which cannot convert *)
(* a row that has no user: the exception ends the request.                  *)
Converts(c, o) == owner[o] # None

FetchProducts(c) ==
    /\ pc[c] = "products"
    /\ \E o \in todo[c] :
        /\ IsNext(c, o) /\ Converts(c, o)
        /\ todo' = [todo EXCEPT ![c] = @ \ {o}]
        /\ bare' = [bare EXCEPT ![c] = @ \union ({o} \ products)]
    /\ UNCHANGED <<table, pc, caller, wanted, page, total, rows, status, seen, before>>

ConversionFails(c) ==
    /\ pc[c] = "products"
    /\ \E o \in todo[c] : IsNext(c, o) /\ ~Converts(c, o)
    /\ status' = [status EXCEPT ![c] = 500]
    /\ pc' = [pc EXCEPT ![c] = "end"]
    /\ UNCHANGED <<table, caller, wanted, page, total, rows, todo, history>>

(* The page and the total are sent; the client asks for the next page       *)
(* unless it has as many orders as the total it was told.                   *)
HasAll(c) == Offset(c) + Cardinality(rows[c]) >= total[c]

SendPage(c) ==
    /\ pc[c] = "products" /\ todo[c] = {}
    /\ status' = [status EXCEPT ![c] = 200]
    /\ seen' = [seen EXCEPT ![c] = @ \union rows[c]]
    /\ IF HasAll(c)
       THEN pc' = [pc EXCEPT ![c] = "end"] /\ UNCHANGED page
       ELSE pc' = [pc EXCEPT ![c] = "count"] /\ page' = [page EXCEPT ![c] = @ + 1]
    /\ UNCHANGED <<table, caller, wanted, total, rows, todo, bare, before>>

(* get_detail_by_id for a manager, get_detail_by_id_for_user for a customer *)
(* ... neither converts the user.                                           *)
Found(c) == wanted[c] \in Visible(caller[c])

ReadRow(c) ==
    /\ pc[c] = "row"
    /\ IF Found(c)
       THEN pc' = [pc EXCEPT ![c] = "items"] /\ UNCHANGED status
       ELSE pc' = [pc EXCEPT ![c] = "end"] /\ status' = [status EXCEPT ![c] = 404]
    /\ UNCHANGED <<table, caller, wanted, page, total, rows, todo, history>>

(* ... and _fetch_order_items.                                              *)
ReadItems(c) ==
    /\ pc[c] = "items"
    /\ pc' = [pc EXCEPT ![c] = "end"]
    /\ status' = [status EXCEPT ![c] = 200]
    /\ seen' = [seen EXCEPT ![c] = {wanted[c]}]
    /\ bare' = [bare EXCEPT ![c] = {wanted[c]} \ products]
    /\ UNCHANGED <<table, caller, wanted, page, total, rows, todo, before>>

Handle(c) ==
    \/ Count(c) \/ ReadPage(c) \/ FetchProducts(c) \/ ConversionFails(c) \/ SendPage(c)
    \/ ReadRow(c) \/ ReadItems(c)

Next ==
    \/ InsertRow \/ InsertProducts \/ Rollback
    \/ \E c \in Clients : Ask(c) \/ Handle(c)

Spec == Init /\ [][Next]_vars

-----------------------------------------------------------------------------
(* S is what a scan of T meets first: without gaps, from its beginning.     *)
Leads(S, T) == S \subseteq T /\ \A o \in S, p \in T : p < o => p \in S

(* A client that reads page after page is sent every order that was there   *)
(* when it began, each once, in an order that later walks repeat, although  *)
(* orders are stored between its pages and between the reads of a page.     *)
WalkSeesAll ==
    \A c \in Clients : wanted[c] = None /\ caller[c] # None =>
        /\ Leads(seen[c], Visible(caller[c]))
        /\ pc[c] = "products" => rows[c] \intersect seen[c] = {}
        /\ pc[c] = "end" /\ status[c] = 200 => before[c] \subseteq seen[c]

(* A page that is not full is the last one of the total it comes with: the  *)
(* count and the page are two reads, but they never make a client that      *)
(* counts stop short of a page, or wait for orders that no page has.        *)
ShortPageIsLast ==
    \A c \in Clients : pc[c] = "products" /\ Cardinality(rows[c]) < PageSize => HasAll(c)

(* No order is sent without its products, whenever it was committed.        *)
NoneBare == \A c \in Clients : bare[c] = {}

(* A request fails only for a manager, and only by an order in its page     *)
(* that was stored before orders had a user.                                *)
FailsByLegacyOnly ==
    \A c \in Clients : status[c] = 500 =>
        caller[c] = Manager /\ rows[c] \intersect 1..legacy # {}
=============================================================================
