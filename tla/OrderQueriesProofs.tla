------------------------- MODULE OrderQueriesProofs -------------------------
(***************************************************************************)
(* What a client that pages through a listing can rely on, proved for any  *)
(* number of clients, customers and orders, any page size, and orders that *)
(* are committed between any two reads.                                    *)
(*                                                                         *)
(* The argument needs no arithmetic on positions but one: what a client    *)
(* has been sent is an initial part of its listing, as long as its offset; *)
(* a page is what comes next, and commits add behind both.                 *)
(***************************************************************************)
EXTENDS OrderQueries, FiniteSetTheorems, WellFoundedInduction, TLAPS

(* A non-empty set of naturals has a least element.                         *)
LEMMA LeastExists ==
    ASSUME NEW S, S \subseteq Nat, S # {}
    PROVE  \E x \in S : \A y \in S : x <= y
<1>1. PICK x \in S : \A y \in S : ~(<<y, x>> \in OpToRel(<, Nat))
  BY WFMin, NatLessThanWellFounded
<1>2. ASSUME NEW y \in S PROVE x <= y
  <2>1. x \in Nat /\ y \in Nat
    OBVIOUS
  <2>2. ~(y < x)
    BY <1>1, <2>1 DEF OpToRel
  <2> QED BY <2>1, <2>2
<1> QED BY <1>2

(* The position of an element of a finite set of naturals is a natural      *)
(* number below the size of the set, and grows with the element.            *)
LEMMA PositionFacts ==
    ASSUME NEW S, S \subseteq Nat, IsFiniteSet(S)
    PROVE  /\ \A o \in S : Position(o, S) \in Nat /\ Position(o, S) < Cardinality(S)
           /\ \A o, p \in S : o < p => Position(o, S) < Position(p, S)
<1> DEFINE below(o) == {p \in S : p < o}
<1>1. ASSUME NEW o \in S, NEW T, T \subseteq S, below(o) \subseteq T, o \in T
      PROVE  Position(o, S) \in Nat /\ Position(o, S) < Cardinality(T)
  <2>1. IsFiniteSet(T)
    BY <1>1, FS_Subset
  <2>2. IsFiniteSet(below(o)) /\ Cardinality(below(o)) <= Cardinality(T)
        /\ (Cardinality(T) = Cardinality(below(o)) => T = below(o))
    BY <2>1, <1>1, FS_Subset
  <2>3. o \notin below(o)
    BY <1>1
  <2>4. Cardinality(below(o)) \in Nat /\ Cardinality(T) \in Nat
    BY <2>1, <2>2, FS_CardinalityType
  <2>5. Cardinality(below(o)) < Cardinality(T)
    BY <2>2, <2>3, <2>4, <1>1
  <2> QED BY <2>4, <2>5 DEF Position
<1>2. ASSUME NEW o \in S PROVE Position(o, S) \in Nat /\ Position(o, S) < Cardinality(S)
  BY <1>1
<1>3. ASSUME NEW o \in S, NEW p \in S, o < p PROVE Position(o, S) < Position(p, S)
  <2>1. \A q \in S : q < o => q < p
    BY <1>3
  <2>2. below(o) \subseteq below(p) /\ o \in below(p) /\ below(p) \subseteq S
    BY <2>1, <1>3
  <2>3. Position(o, S) < Cardinality(below(p))
    BY <2>2, <1>1
  <2> QED BY <2>3 DEF Position
<1> QED BY <1>2, <1>3

(* A page has at most n rows.                                               *)
LEMMA CutSize ==
    ASSUME NEW S, S \subseteq Nat, IsFiniteSet(S), NEW from \in Nat, NEW n \in Nat
    PROVE  IsFiniteSet(Cut(S, from, n)) /\ Cardinality(Cut(S, from, n)) <= n
<1> DEFINE C == Cut(S, from, n)
           f == [o \in C |-> Position(o, S)]
<1>0. \A o, p \in S : o < p => Position(o, S) < Position(p, S)
  BY PositionFacts
<1>1. C \subseteq S
  BY DEF Cut
<1>2. f \in [C -> from..from + n - 1]
  BY DEF Cut
<1>3. ASSUME NEW o \in C, NEW p \in C, f[o] = f[p] PROVE o = p
  <2>1. o \in S /\ p \in S /\ Position(o, S) = Position(p, S)
    BY <1>1, <1>3
  <2> HIDE DEF C, f
  <2>2. Position(o, S) \in Nat /\ o \in Nat /\ p \in Nat
    BY <2>1, PositionFacts
  <2>3. ~(o < p) /\ ~(p < o)
    BY <2>1, <2>2, <1>0
  <2> QED BY <2>2, <2>3
<1>4. f \in Injection(C, from..from + n - 1)
  BY <1>2, <1>3 DEF Injection, IsInjective
<1>5. IsFiniteSet(from..from + n - 1) /\ Cardinality(from..from + n - 1) = n
  BY FS_Interval
<1> HIDE DEF C, f
<1>6. IsFiniteSet(C) /\ Cardinality(C) <= n
  BY <1>4, <1>5, FS_Injection
<1> QED BY <1>6 DEF C

-----------------------------------------------------------------------------
(* Of two initial parts of a listing one contains the other.                *)
LEMMA LeadsCompare ==
    ASSUME NEW S, NEW T, NEW V, V \subseteq Nat, Leads(S, V), Leads(T, V)
    PROVE  S \subseteq T \/ T \subseteq S
<1> SUFFICES ASSUME NEW o \in S, o \notin T, NEW p \in T, p \notin S PROVE FALSE
  OBVIOUS
<1>1. o \in Nat /\ p \in Nat /\ o # p /\ o \in V /\ p \in V
  BY DEF Leads
<1>2. CASE o < p
  BY <1>1, <1>2 DEF Leads
<1>3. CASE p < o
  BY <1>1, <1>3 DEF Leads
<1> QED BY <1>1, <1>2, <1>3

(* Commits at the end of a listing leave its initial parts initial.         *)
LEMMA LeadsGrows ==
    ASSUME NEW V, NEW W, V \subseteq Nat, W \subseteq Nat, V \subseteq W,
           \A o \in V, p \in W \ V : o < p, NEW S, Leads(S, V)
    PROVE  Leads(S, W)
<1>1. ASSUME NEW o \in S, NEW p \in W, p < o PROVE p \in S
  <2>1. o \in V /\ o \in Nat /\ p \in Nat
    BY DEF Leads
  <2>2. p \in V
    BY <1>1, <2>1
  <2> QED BY <1>1, <2>2 DEF Leads
<1> QED BY <1>1 DEF Leads

(* The page at the length of an initial part S continues it without overlap *)
(* and without a gap; if it is not full, nothing is behind it.              *)
LEMMA CutContinues ==
    ASSUME NEW V, V \subseteq Nat, IsFiniteSet(V), NEW S, Leads(S, V),
           NEW n, n \in Nat \ {0}, NEW C, C = Cut(V, Cardinality(S), n)
    PROVE  /\ C \intersect S = {}
           /\ Leads(S \union C, V)
           /\ Cardinality(C) < n => S \union C = V
<1> DEFINE below(o) == {p \in V : p < o}
           k == Cardinality(S)
<1>1. S \subseteq V /\ IsFiniteSet(S) /\ Cardinality(S) \in Nat
  BY FS_Subset, FS_CardinalityType DEF Leads
<1>2. C \subseteq V /\ \A o \in V : o \in C <=> Position(o, V) \in k..k + n - 1
  BY DEF Cut
<1>3. \A o \in V : Position(o, V) \in Nat
  BY PositionFacts
<1>4. ASSUME NEW o \in S PROVE Position(o, V) < k
  <2>1. below(o) \subseteq S /\ o \in S /\ o \notin below(o)
    <3>1. o \in Nat /\ \A p \in V : p < o => p \in S
      BY <1>1, <1>4 DEF Leads
    <3>2. o \notin below(o)
      BY <3>1
    <3> QED BY <3>1, <3>2, <1>4
  <2>2. IsFiniteSet(below(o)) /\ Cardinality(below(o)) <= k
        /\ (k = Cardinality(below(o)) => S = below(o))
    BY <2>1, <1>1, FS_Subset
  <2>3. Cardinality(below(o)) \in Nat
    BY <2>2, FS_CardinalityType
  <2> QED BY <2>1, <2>2, <2>3, <1>1 DEF Position
<1>5. ASSUME NEW o \in V, o \notin S PROVE S \subseteq below(o) /\ k <= Position(o, V)
  <2>1. ASSUME NEW p \in S PROVE p < o
    <3>1. p \in V /\ p \in Nat /\ o \in Nat /\ p # o /\ ~(o < p)
      BY <1>1, <1>5 DEF Leads
    <3> QED BY <3>1
  <2>2. S \subseteq below(o)
    BY <2>1, <1>1
  <2>3. IsFiniteSet(below(o))
    BY FS_Subset
  <2> QED BY <2>2, <2>3, FS_Subset DEF Position
<1>6. C \intersect S = {}
  <2> SUFFICES ASSUME NEW o \in C, o \in S PROVE FALSE
    OBVIOUS
  <2>1. Position(o, V) < k /\ k <= Position(o, V) /\ Position(o, V) \in Nat
    BY <1>1, <1>2, <1>3, <1>4
  <2> QED BY <2>1, <1>1
<1>7. Leads(S \union C, V)
  <2> SUFFICES ASSUME NEW o \in S \union C, NEW p \in V, p < o, p \notin S PROVE p \in C
    BY <1>1, <1>2 DEF Leads
  <2>1. o \in C
    BY <1>1 DEF Leads
  <2>2. k <= Position(p, V)
    BY <1>5
  <2>3. o \in V /\ Position(o, V) <= k + n - 1
    BY <2>1, <1>1, <1>2, <1>3
  <2>4. Position(p, V) < Position(o, V)
    BY <2>3, PositionFacts
  <2> HIDE DEF k
  <2>5. Position(p, V) \in k..k + n - 1
    BY <2>2, <2>3, <2>4, <1>1, <1>3 DEF k
  <2> QED BY <2>5, <1>2 DEF k
<1>8. ASSUME Cardinality(C) < n, S \union C # V PROVE FALSE
  <2>1. PICK o \in V \ (S \union C) : \A p \in V \ (S \union C) : o <= p
    BY <1>1, <1>2, <1>8, LeastExists
  <2>2. ASSUME NEW p \in S \union C PROVE p < o
    <3>1. p \in V /\ p \in Nat /\ o \in Nat /\ p # o /\ ~(o < p)
      BY <1>1, <1>2, <1>7, <2>1 DEF Leads
    <3> QED BY <3>1
  <2>3. ASSUME NEW p \in V, p < o PROVE p \in S \union C
    BY <2>1, <2>3
  <2>4. below(o) = S \union C
    BY <2>2, <2>3, <1>1, <1>2
  <2>5. IsFiniteSet(C) /\ Cardinality(C) \in Nat
    BY <1>2, FS_Subset, FS_CardinalityType
  <2>6. Cardinality(S \union C) = k + Cardinality(C) - Cardinality(S \intersect C)
    BY <1>1, <2>5, FS_Union
  <2>7. S \intersect C = {} /\ Cardinality({}) = 0
    BY <1>6, FS_EmptySet
  <2>8. Position(o, V) = k + Cardinality(C)
    <3>1. Position(o, V) = Cardinality(S \union C)
      BY <2>4 DEF Position
    <3>2. Cardinality(S \intersect C) = 0
      BY <2>7
    <3> HIDE DEF k
    <3>3. k \in Nat
      BY <1>1 DEF k
    <3> QED BY <3>1, <3>2, <3>3, <2>5, <2>6
  <2>9. Position(o, V) \in k..k + n - 1
    BY <2>5, <2>8, <1>1, <1>8
  <2> QED BY <1>2, <2>1, <2>9
<1> QED BY <1>6, <1>7, <1>8

-----------------------------------------------------------------------------
(* A committed row has its products, and lacks a user only from before      *)
(* orders had one.                                                          *)
RowsAreWhole ==
    /\ products = 1..last
    /\ \A o \in 1..last : owner[o] = None <=> o <= legacy
    /\ open => owner[last + 1] # None

(* What a client knows at the await its handler is at.                      *)
Stage(c) ==
    /\ pc[c] = "idle" => caller[c] = None /\ wanted[c] = None /\ page[c] = 1 /\ seen[c] = {}
    /\ pc[c] # "idle" => caller[c] \in Callers
    /\ pc[c] \in {"count", "page", "products"} => wanted[c] = None
    /\ pc[c] \in {"row", "items"} => wanted[c] # None
    /\ pc[c] = "items" => Found(c)
    /\ status[c] = 500 => pc[c] = "end"

(* A walk has been sent as much as its offset says, and its page is what    *)
(* comes next, up to the total it was told at least.                        *)
Walk(c) ==
    wanted[c] = None /\ caller[c] # None =>
        /\ Leads(seen[c], Visible(caller[c])) /\ Leads(before[c], Visible(caller[c]))
        /\ pc[c] \in {"count", "page", "products"} => Cardinality(seen[c]) = Offset(c)
        /\ pc[c] \in {"page", "products"} =>
            /\ total[c] <= Cardinality(Visible(caller[c]))
            /\ Cardinality(before[c]) <= total[c]
        /\ pc[c] = "products" =>
            /\ Leads(seen[c] \union rows[c], Visible(caller[c]))
            /\ rows[c] \intersect seen[c] = {}
            /\ Cardinality(rows[c]) < PageSize => HasAll(c)
            /\ todo[c] \subseteq rows[c]
        /\ pc[c] = "end" /\ status[c] = 200 => before[c] \subseteq seen[c]

Fails(c) == status[c] = 500 => caller[c] = Manager /\ rows[c] \intersect 1..legacy # {}

ClientOK(c) == Stage(c) /\ Walk(c) /\ bare[c] = {} /\ Fails(c)

IInv == TypeOK /\ RowsAreWhole /\ \A c \in Clients : ClientOK(c)

-----------------------------------------------------------------------------
(* A set of committed orders is finite and within the bound.                *)
LEMMA CommittedFacts ==
    ASSUME NEW n \in 0..MaxOrders, NEW V, V \subseteq 1..n
    PROVE  /\ V \subseteq Orders /\ V \subseteq Nat /\ IsFiniteSet(V)
           /\ Cardinality(V) \in 0..MaxOrders
<1>1. n \in Nat /\ n \in Int /\ 1 \in Int /\ MaxOrders \in Nat /\ n <= MaxOrders
  BY BoundsAssumption
<1>2. IsFiniteSet(1..n) /\ Cardinality(1..n) = IF 1 > n THEN 0 ELSE n - 1 + 1
  BY <1>1, FS_Interval
<1>3. Cardinality(1..n) \in Nat /\ Cardinality(1..n) <= MaxOrders
  BY <1>1, <1>2
<1>4. IsFiniteSet(V) /\ Cardinality(V) <= Cardinality(1..n)
  BY <1>2, FS_Subset
<1>5. Cardinality(V) \in Nat
  BY <1>4, FS_CardinalityType
<1> QED BY <1>1, <1>3, <1>4, <1>5 DEF Orders

(* The listing of a caller is such a set.                                   *)
LEMMA VisibleFacts ==
    ASSUME TypeOK, NEW u
    PROVE  /\ Visible(u) \subseteq 1..last /\ Visible(u) \subseteq Orders /\ Visible(u) \subseteq Nat
           /\ IsFiniteSet(Visible(u)) /\ Cardinality(Visible(u)) \in 0..MaxOrders
<1>1. last \in 0..MaxOrders /\ Visible(u) \subseteq 1..last
  BY DEF TypeOK, Visible
<1> QED BY <1>1, CommittedFacts

(* The initial state is in the invariant.                                   *)
LEMMA InitIInv == Init => IInv
<1> SUFFICES ASSUME Init PROVE IInv
  OBVIOUS
<1>1. last \in 0..MaxOrders /\ legacy = last
  BY BoundsAssumption DEF Init
<1>2. Cardinality({}) = 0 /\ PageSize \in Nat
  BY FS_EmptySet, PageAssumption
<1>3. TypeOK
  <2>1. products \subseteq Orders /\ last \in 0..MaxOrders /\ legacy \in 0..last
    BY <1>1, BoundsAssumption DEF Init, Orders
  <2>2. \A c \in Clients : Cardinality(rows[c]) <= PageSize
    BY <1>2 DEF Init
  <2>3. total \in [Clients -> 0..MaxOrders] /\ page \in [Clients -> Nat \ {0}]
    BY BoundsAssumption DEF Init
  <2>4. /\ rows \in [Clients -> SUBSET Orders] /\ todo \in [Clients -> SUBSET Orders]
        /\ seen \in [Clients -> SUBSET Orders] /\ bare \in [Clients -> SUBSET Orders]
        /\ before \in [Clients -> SUBSET Orders]
    BY DEF Init
  <2>5. owner \in [Orders -> Users \union {None}] /\ wanted \in [Clients -> Orders \union {None}]
        /\ caller \in [Clients -> Callers \union {None}]
    BY DEF Init
  <2>6. /\ pc \in [Clients -> {"idle", "count", "page", "products", "row", "items", "end"}]
        /\ status \in [Clients -> {200, 404, 500, None}] /\ open = FALSE
    BY DEF Init
  <2> QED BY <2>1, <2>2, <2>3, <2>4, <2>5, <2>6 DEF TypeOK
<1>4. RowsAreWhole
  BY <1>1, BoundsAssumption DEF Init, RowsAreWhole, Orders
<1>5. ASSUME NEW c \in Clients PROVE ClientOK(c)
  BY <1>5, CallerAssumption DEF Init, ClientOK, Stage, Walk, Fails
<1> QED BY <1>3, <1>4, <1>5 DEF IInv

-----------------------------------------------------------------------------
(* A step of the transaction that stores an order leaves the listings as    *)
(* they are or adds the next row at their end.                              *)
LEMMA TableStep ==
    ASSUME IInv, InsertRow \/ InsertProducts \/ Rollback
    PROVE  /\ TypeOK' /\ RowsAreWhole' /\ legacy' = legacy /\ UNCHANGED <<handler, history>>
           /\ \A u : /\ Visible(u) \subseteq Visible(u)'
                     /\ \A p \in Visible(u)' \ Visible(u) : p > last
<1>1. TypeOK /\ RowsAreWhole /\ last \in Nat /\ MaxOrders \in Nat /\ legacy \in 0..last
  BY BoundsAssumption DEF IInv, TypeOK
<1>2. CASE InsertRow
  <2>1. PICK u \in Users : owner' = [owner EXCEPT ![last + 1] = u]
    BY <1>2 DEF InsertRow
  <2>2. last + 1 \in Orders /\ last < MaxOrders /\ open' = TRUE
        /\ UNCHANGED <<last, legacy, products, handler, history>>
    BY <1>1, <1>2 DEF InsertRow, Orders
  <2>3. owner' \in [Orders -> Users \union {None}] /\ owner'[last + 1] # None
        /\ \A o \in 1..last : owner'[o] = owner[o]
    BY <1>1, <2>1, <2>2, CallerAssumption DEF TypeOK, Orders
  <2>4. TypeOK'
    BY <1>1, <2>2, <2>3 DEF TypeOK, handler, history
  <2>5. RowsAreWhole'
    BY <1>1, <2>2, <2>3 DEF RowsAreWhole
  <2>6. \A u_1 : Visible(u_1)' = Visible(u_1)
    BY <2>2, <2>3 DEF Visible, MayList
  <2> QED BY <2>2, <2>4, <2>5, <2>6
<1>3. CASE InsertProducts
  <2>1. open /\ open' = FALSE /\ last' = last + 1 /\ products' = products \union {last + 1}
        /\ UNCHANGED <<legacy, owner, handler, history>>
    BY <1>3 DEF InsertProducts
  <2>2. last < MaxOrders /\ last + 1 \in Orders
    BY <1>1, <2>1 DEF TypeOK, Orders
  <2>3. TypeOK'
    <3>1. last' \in 0..MaxOrders /\ legacy' \in 0..last'
      BY <1>1, <2>1, <2>2
    <3>2. open' \in BOOLEAN /\ (open' => last' < MaxOrders) /\ products' \subseteq Orders
      BY <1>1, <2>1, <2>2 DEF TypeOK
    <3> QED BY <1>1, <2>1, <3>1, <3>2 DEF TypeOK, handler, history
  <2>4. 1..last' = 1..last \union {last + 1}
    BY <1>1, <2>1
  <2>5. RowsAreWhole'
    BY <1>1, <2>1, <2>4 DEF RowsAreWhole
  <2>6. ASSUME NEW u PROVE Visible(u) \subseteq Visible(u)' /\ \A p \in Visible(u)' \ Visible(u) : p > last
    BY <1>1, <2>1, <2>4 DEF Visible, MayList
  <2> QED BY <2>1, <2>3, <2>5, <2>6
<1>4. CASE Rollback
  <2>1. open' = FALSE /\ owner' = [owner EXCEPT ![last + 1] = None]
        /\ UNCHANGED <<last, legacy, products, handler, history>>
    BY <1>4 DEF Rollback
  <2>2. owner' \in [Orders -> Users \union {None}] /\ \A o \in 1..last : owner'[o] = owner[o]
    <3>1. last + 1 \in Orders /\ last + 1 \notin 1..last /\ 1..last \subseteq Orders
      BY <1>1, <1>4 DEF TypeOK, Orders, Rollback
    <3> QED BY <1>1, <2>1, <3>1 DEF TypeOK
  <2>3. TypeOK'
    BY <1>1, <2>1, <2>2 DEF TypeOK, handler, history
  <2>4. RowsAreWhole'
    BY <1>1, <2>1, <2>2 DEF RowsAreWhole
  <2>5. \A u : Visible(u)' = Visible(u)
    BY <2>1, <2>2 DEF Visible, MayList
  <2> QED BY <2>1, <2>3, <2>4, <2>5
<1> QED BY <1>2, <1>3, <1>4

(* ... and with that every walk.                                            *)
LEMMA TableStepIInv == ASSUME IInv, InsertRow \/ InsertProducts \/ Rollback PROVE IInv'
<1>1. TypeOK' /\ RowsAreWhole' /\ legacy' = legacy /\ UNCHANGED <<handler, history>>
  BY TableStep
<1>2. ASSUME NEW c \in Clients PROVE ClientOK(c)'
  <2> PICK u : u = caller[c]
    OBVIOUS
  <2>1. ClientOK(c) /\ TypeOK
    BY <1>2 DEF IInv
  <2>2. UNCHANGED <<pc[c], caller[c], wanted[c], page[c], total[c], rows[c], todo[c], status[c],
                    seen[c], bare[c], before[c]>>
    BY <1>1 DEF handler, history
  <2>3. Visible(u) \subseteq Visible(u)' /\ \A p \in Visible(u)' \ Visible(u) : p > last
    BY TableStep
  <2>4. Visible(u) \subseteq 1..last /\ Visible(u) \subseteq Nat /\ IsFiniteSet(Visible(u))
    BY <2>1, VisibleFacts
  <2>5. Visible(u)' \subseteq Nat /\ IsFiniteSet(Visible(u)')
    <3>1. last' \in 0..MaxOrders /\ Visible(u)' \subseteq 1..last'
      BY <1>1 DEF TypeOK, Visible
    <3> QED BY <3>1, CommittedFacts
  <2>6. \A o \in Visible(u), p \in Visible(u)' \ Visible(u) : o < p
    <3>1. last \in Nat
      BY <2>1, BoundsAssumption DEF TypeOK
    <3> QED BY <3>1, <2>3, <2>4, <2>5
  <2>7. ASSUME NEW S, Leads(S, Visible(u)) PROVE Leads(S, Visible(u)')
    BY <2>3, <2>4, <2>5, <2>6, <2>7, LeadsGrows
  <2>8. Cardinality(Visible(u)) <= Cardinality(Visible(u)')
    BY <2>3, <2>5, FS_Subset
  <2>9. /\ total[c] \in Int /\ Cardinality(Visible(u)) \in Int /\ Cardinality(Visible(u)') \in Int
    BY <2>1, <2>4, <2>5, FS_CardinalityType, BoundsAssumption DEF TypeOK
  <2>10. Stage(c)'
    BY <2>1, <2>2, <2>3 DEF ClientOK, Stage, Found
  <2>11. Walk(c)'
    BY <2>1, <2>2, <2>7, <2>8, <2>9 DEF ClientOK, Walk, HasAll, Offset
  <2> QED BY <1>1, <2>1, <2>2, <2>10, <2>11 DEF ClientOK, Fails
<1> QED BY <1>1, <1>2 DEF IInv

-----------------------------------------------------------------------------
(* What a step of client c leaves alone: the database and other clients.    *)
Local(c) ==
    /\ UNCHANGED table
    /\ \A d \in Clients \ {c} :
        UNCHANGED <<pc[d], caller[d], wanted[d], page[d], total[d], rows[d], todo[d], status[d],
                    seen[d], bare[d], before[d]>>

(* Every step of a client's handler is such a step.                         *)
LEMMA ClientSteps == ASSUME TypeOK, NEW c \in Clients, Ask(c) \/ Handle(c) PROVE Local(c)
<1>1. CASE Ask(c)
  BY <1>1 DEF TypeOK, Ask, Local, table
<1>2. CASE Count(c)
  BY <1>2 DEF TypeOK, Count, Local, history
<1>3. CASE ReadPage(c)
  BY <1>3 DEF TypeOK, ReadPage, Local, history
<1>4. CASE FetchProducts(c)
  BY <1>4 DEF TypeOK, FetchProducts, Local, table
<1>5. CASE ConversionFails(c)
  BY <1>5 DEF TypeOK, ConversionFails, Local, history
<1>6. CASE SendPage(c)
  BY <1>6 DEF TypeOK, SendPage, Local, table
<1>7. CASE ReadRow(c)
  BY <1>7 DEF TypeOK, ReadRow, Local, history
<1>8. CASE ReadItems(c)
  BY <1>8 DEF TypeOK, ReadItems, Local, table
<1> QED BY <1>1, <1>2, <1>3, <1>4, <1>5, <1>6, <1>7, <1>8 DEF Handle

(* A client that does not take the step keeps what it knows.                *)
LEMMA OthersKeep ==
    ASSUME NEW c \in Clients, Local(c), NEW d \in Clients, d # c, ClientOK(d)
    PROVE  ClientOK(d)'
<1>1. UNCHANGED <<pc[d], caller[d], wanted[d], page[d], total[d], rows[d], todo[d], status[d],
                  seen[d], bare[d], before[d]>>
  BY DEF Local
<1>2. Visible(caller[d])' = Visible(caller[d]) /\ legacy' = legacy
  BY <1>1 DEF Local, table, Visible, MayList
<1>3. Stage(d)'
  BY <1>1, <1>2 DEF ClientOK, Stage, Found
<1>4. Walk(d)'
  BY <1>1, <1>2 DEF ClientOK, Walk, HasAll, Offset
<1> QED BY <1>1, <1>2, <1>3, <1>4 DEF ClientOK, Fails

(* So a step of a client has only its own part of the invariant to keep.    *)
LEMMA ClientStepIInv ==
    ASSUME IInv, NEW c \in Clients, Ask(c) \/ Handle(c), TypeOK', ClientOK(c)'
    PROVE  IInv'
<1>1. Local(c)
  BY ClientSteps DEF IInv
<1>2. \A d \in Clients : ClientOK(d)'
  BY <1>1, OthersKeep DEF IInv
<1>3. RowsAreWhole'
  BY <1>1 DEF Local, table, IInv, RowsAreWhole
<1> QED BY <1>2, <1>3 DEF IInv

(* The listing a client asks for is what it is to be sent.                  *)
LEMMA AskIInv == ASSUME IInv, NEW c \in Clients, Ask(c) PROVE IInv'
<1>1. TypeOK /\ ClientOK(c) /\ pc[c] = "idle" /\ UNCHANGED table
  BY DEF IInv, Ask
<1>2. PICK u \in Callers : /\ caller' = [caller EXCEPT ![c] = u]
                           /\ before' = [before EXCEPT ![c] = Visible(u)]
  BY DEF Ask
<1>3. Visible(u)' = Visible(u) /\ Visible(u) \subseteq Nat /\ Visible(u) \subseteq Orders
  BY <1>1, VisibleFacts DEF table, Visible, MayList
<1>4. u # None
  BY CallerAssumption DEF Callers
<1>5. UNCHANGED <<table, page, total, rows, todo, status, seen, bare>>
  BY DEF Ask
<1>6. \/ pc' = [pc EXCEPT ![c] = "count"] /\ UNCHANGED wanted
      \/ /\ pc' = [pc EXCEPT ![c] = "row"]
         /\ \E o \in Orders : wanted' = [wanted EXCEPT ![c] = o]
  BY DEF Ask
<1>7. TypeOK'
  BY <1>1, <1>2, <1>3, <1>5, <1>6 DEF TypeOK, table
<1>8. caller'[c] = u /\ before'[c] = Visible(u) /\ seen'[c] = {} /\ page'[c] = 1
      /\ status'[c] # 500 /\ bare'[c] = {} /\ pc'[c] \in {"count", "row"}
      /\ (pc'[c] = "count" => wanted'[c] = None)
      /\ (pc'[c] = "row" => wanted'[c] # None)
  <2>1. \A o \in Orders : o # None
    BY CallerAssumption DEF Orders
  <2> QED BY <1>1, <1>2, <1>5, <1>6, <2>1 DEF TypeOK, ClientOK, Stage
<1>9. Leads({}, Visible(u)) /\ Leads(Visible(u), Visible(u)) /\ Cardinality({}) = (1 - 1) * PageSize
  BY FS_EmptySet, PageAssumption DEF Leads
<1>10. Stage(c)' /\ Fails(c)'
  BY <1>2, <1>8 DEF Stage, Fails
<1>11. Walk(c)'
  BY <1>3, <1>8, <1>9 DEF Walk, Offset
<1> QED BY <1>7, <1>8, <1>10, <1>11, ClientStepIInv DEF ClientOK

(* What was there when the client began is still there when it is counted.  *)
LEMMA CountIInv == ASSUME IInv, NEW c \in Clients, Count(c) PROVE IInv'
<1> PICK u : u = caller[c]
  OBVIOUS
<1>1. TypeOK /\ ClientOK(c) /\ pc[c] = "count" /\ u # None /\ wanted[c] = None /\ status[c] # 500
  BY CallerAssumption DEF IInv, Count, ClientOK, Stage, Callers
<1>2. /\ total' = [total EXCEPT ![c] = Cardinality(Visible(u))]
      /\ pc' = [pc EXCEPT ![c] = "page"]
      /\ UNCHANGED <<table, caller, wanted, page, rows, todo, status, seen, bare, before>>
  BY DEF Count, history
<1>3. Visible(u)' = Visible(u)
  BY <1>2 DEF table, Visible, MayList
<1>4. IsFiniteSet(Visible(u)) /\ Cardinality(Visible(u)) \in 0..MaxOrders
  BY <1>1, VisibleFacts
<1>5. TypeOK'
  BY <1>1, <1>2, <1>4 DEF TypeOK, table
<1>6. total'[c] = Cardinality(Visible(u)) /\ pc'[c] = "page"
  BY <1>1, <1>2 DEF TypeOK
<1>7. Cardinality(before[c]) <= Cardinality(Visible(u))
  BY <1>1, <1>4, FS_Subset DEF ClientOK, Walk, Leads
<1>8. Stage(c)' /\ Fails(c)'
  BY <1>1, <1>2, <1>6 DEF ClientOK, Stage, Fails
<1>9. Walk(c)'
  BY <1>1, <1>2, <1>3, <1>4, <1>6, <1>7 DEF ClientOK, Walk, Offset
<1>10. bare'[c] = {}
  BY <1>1, <1>2 DEF ClientOK
<1> QED BY <1>5, <1>8, <1>9, <1>10, ClientStepIInv DEF ClientOK, Handle

(* A page continues what the client has been sent, and one that is not full *)
(* reaches the end of the listing, which is no shorter than it was counted. *)
LEMMA ReadPageIInv == ASSUME IInv, NEW c \in Clients, ReadPage(c) PROVE IInv'
<1> PICK u : u = caller[c]
  OBVIOUS
<1> PICK V : V = Visible(u)
  OBVIOUS
<1> PICK C : C = Cut(V, Offset(c), PageSize)
  OBVIOUS
<1>1. TypeOK /\ ClientOK(c) /\ pc[c] = "page" /\ u # None /\ wanted[c] = None /\ status[c] # 500
  BY CallerAssumption DEF IInv, ReadPage, ClientOK, Stage, Callers
<1>2. /\ rows' = [rows EXCEPT ![c] = C] /\ todo' = [todo EXCEPT ![c] = C]
      /\ pc' = [pc EXCEPT ![c] = "products"]
      /\ UNCHANGED <<table, caller, wanted, page, total, status, seen, bare, before>>
  BY DEF ReadPage, PageOf, history
<1>3. Visible(u)' = V
  BY <1>2 DEF table, Visible, MayList
<1>4. V \subseteq Nat /\ V \subseteq Orders /\ IsFiniteSet(V) /\ Cardinality(V) \in Nat
  BY <1>1, VisibleFacts, BoundsAssumption
<1>5. /\ Leads(seen[c], V) /\ Leads(before[c], V) /\ Cardinality(seen[c]) = Offset(c)
      /\ total[c] <= Cardinality(V) /\ Cardinality(before[c]) <= total[c]
  BY <1>1 DEF ClientOK, Walk
<1>6. seen[c] \subseteq V /\ IsFiniteSet(seen[c]) /\ Offset(c) \in Nat
  BY <1>4, <1>5, FS_Subset, FS_CardinalityType DEF Leads
<1>7. /\ C \intersect seen[c] = {} /\ Leads(seen[c] \union C, V)
      /\ Cardinality(C) < PageSize => seen[c] \union C = V
  <2>1. C = Cut(V, Cardinality(seen[c]), PageSize)
    BY <1>5
  <2> QED BY <2>1, <1>4, <1>5, CutContinues, PageAssumption
<1>8. C \subseteq Orders /\ IsFiniteSet(C) /\ Cardinality(C) <= PageSize /\ Cardinality(C) \in Nat
  <2>1. C \subseteq V
    BY DEF Cut
  <2>2. IsFiniteSet(C) /\ Cardinality(C) <= PageSize
    BY <1>4, <1>6, CutSize, PageAssumption
  <2> QED BY <2>1, <2>2, <1>4, FS_CardinalityType
<1>9. ASSUME Cardinality(C) < PageSize PROVE Offset(c) + Cardinality(C) >= total[c]
  <2>1. Cardinality(seen[c] \union C)
            = Cardinality(seen[c]) + Cardinality(C) - Cardinality(seen[c] \intersect C)
    BY <1>6, <1>8, FS_Union
  <2>2. Cardinality(seen[c] \intersect C) = 0
    <3>1. seen[c] \intersect C = {}
      BY <1>7
    <3> QED BY <3>1, FS_EmptySet
  <2>3. Cardinality(V) = Offset(c) + Cardinality(C)
    <3>1. Cardinality(V) = Cardinality(seen[c] \union C)
      BY <1>7, <1>9
    <3> QED BY <3>1, <2>1, <2>2, <1>5, <1>6, <1>8
  <2>4. total[c] \in Int
    BY <1>1, BoundsAssumption DEF TypeOK
  <2> QED BY <2>3, <2>4, <1>4, <1>5, <1>6, <1>8
<1>10. TypeOK'
  <2>1. rows' \in [Clients -> SUBSET Orders] /\ todo' \in [Clients -> SUBSET Orders]
        /\ pc' \in [Clients -> {"idle", "count", "page", "products", "row", "items", "end"}]
    BY <1>1, <1>2, <1>8 DEF TypeOK
  <2>2. \A d \in Clients : Cardinality(rows'[d]) <= PageSize
    BY <1>1, <1>2, <1>8 DEF TypeOK
  <2> QED BY <2>1, <2>2, <1>1, <1>2 DEF TypeOK, table
<1>11. /\ rows'[c] = C /\ todo'[c] = C /\ pc'[c] = "products" /\ caller'[c] = u
       /\ UNCHANGED <<wanted[c], page[c], total[c], status[c], seen[c], bare[c], before[c]>>
  BY <1>1, <1>2 DEF TypeOK
<1>12. Stage(c)' /\ Fails(c)'
  BY <1>1, <1>11 DEF ClientOK, Stage, Fails
<1>13. Walk(c)'
  BY <1>1, <1>3, <1>5, <1>7, <1>9, <1>11 DEF Walk, HasAll, Offset
<1> QED BY <1>1, <1>10, <1>11, <1>12, <1>13, ClientStepIInv DEF ClientOK, Handle

(* The rows of a page are committed, so their products are; and one without *)
(* a user is only in the page of a manager.                                 *)
LEMMA PageRows ==
    ASSUME IInv, NEW c \in Clients, pc[c] = "products", NEW o \in todo[c]
    PROVE  /\ o \in rows[c] /\ o \in products
           /\ owner[o] = None => caller[c] = Manager /\ o \in 1..legacy
<1>1. TypeOK /\ ClientOK(c) /\ caller[c] \in Callers /\ caller[c] # None /\ wanted[c] = None
  BY CallerAssumption DEF IInv, ClientOK, Stage, Callers
<1>2. o \in rows[c] /\ o \in Visible(caller[c])
  BY <1>1 DEF ClientOK, Walk, Leads
<1>3. o \in 1..last /\ (caller[c] = Manager \/ owner[o] = caller[c])
  BY <1>2 DEF Visible, MayList
<1>4. o \in products /\ (owner[o] = None => o <= legacy)
  BY <1>3 DEF IInv, RowsAreWhole
<1>5. last \in Nat /\ legacy \in Nat
  BY <1>1, BoundsAssumption DEF TypeOK
<1> QED BY <1>1, <1>2, <1>3, <1>4, <1>5

(* A row is completed with the products that were committed with it.        *)
LEMMA FetchProductsIInv == ASSUME IInv, NEW c \in Clients, FetchProducts(c) PROVE IInv'
<1> PICK u : u = caller[c]
  OBVIOUS
<1>1. TypeOK /\ ClientOK(c) /\ pc[c] = "products" /\ u # None /\ wanted[c] = None
  BY CallerAssumption DEF IInv, FetchProducts, ClientOK, Stage, Callers
<1>2. PICK o \in todo[c] : /\ todo' = [todo EXCEPT ![c] = @ \ {o}]
                           /\ bare' = [bare EXCEPT ![c] = @ \union ({o} \ products)]
  BY DEF FetchProducts
<1>3. UNCHANGED <<table, pc, caller, wanted, page, total, rows, status, seen, before>>
  BY DEF FetchProducts
<1>4. bare'[c] = {} /\ todo'[c] = todo[c] \ {o}
  BY <1>1, <1>2, PageRows DEF TypeOK, ClientOK
<1>5. Visible(u)' = Visible(u)
  BY <1>3 DEF table, Visible, MayList
<1>6. TypeOK'
  <2>1. bare' \in [Clients -> SUBSET Orders] /\ todo' \in [Clients -> SUBSET Orders]
    BY <1>1, <1>2 DEF TypeOK
  <2> QED BY <2>1, <1>1, <1>3 DEF TypeOK, table
<1>7. Stage(c)' /\ Fails(c)'
  BY <1>1, <1>3 DEF ClientOK, Stage, Fails, table
<1>8. Walk(c)'
  BY <1>1, <1>3, <1>4, <1>5 DEF ClientOK, Walk, HasAll, Offset
<1> QED BY <1>4, <1>6, <1>7, <1>8, ClientStepIInv DEF ClientOK, Handle

(* A conversion that fails is that of an old row in a manager's page.       *)
LEMMA ConversionFailsIInv == ASSUME IInv, NEW c \in Clients, ConversionFails(c) PROVE IInv'
<1>1. TypeOK /\ ClientOK(c) /\ pc[c] = "products" /\ wanted[c] = None /\ caller[c] \in Callers
  BY DEF IInv, ConversionFails, ClientOK, Stage
<1>2. /\ status' = [status EXCEPT ![c] = 500] /\ pc' = [pc EXCEPT ![c] = "end"]
      /\ UNCHANGED <<table, caller, wanted, page, total, rows, todo, seen, bare, before>>
  BY DEF ConversionFails, history
<1>3. status'[c] = 500 /\ pc'[c] = "end"
  BY <1>1, <1>2 DEF TypeOK
<1>4. Visible(caller[c])' = Visible(caller[c])
  BY <1>2 DEF table, Visible, MayList
<1>5. PICK o \in todo[c] : owner[o] = None
  BY DEF ConversionFails, Converts
<1>6. Fails(c)'
  BY <1>1, <1>2, <1>5, PageRows DEF Fails, table
<1>7. TypeOK'
  BY <1>1, <1>2 DEF TypeOK, table
<1>8. Stage(c)'
  BY <1>1, <1>2, <1>3 DEF Stage
<1>9. Walk(c)'
  BY <1>1, <1>2, <1>3, <1>4 DEF ClientOK, Walk
<1>10. bare'[c] = {}
  BY <1>1, <1>2 DEF ClientOK
<1> QED BY <1>6, <1>7, <1>8, <1>9, <1>10, ClientStepIInv DEF ClientOK, Handle

(* A full page moves the offset by its size; the last one brings the walk   *)
(* to the total, which what was there at its beginning does not exceed.     *)
LEMMA SendPageIInv == ASSUME IInv, NEW c \in Clients, SendPage(c) PROVE IInv'
<1> PICK u : u = caller[c]
  OBVIOUS
<1> PICK V : V = Visible(u)
  OBVIOUS
<1> PICK S : S = seen[c] \union rows[c]
  OBVIOUS
<1>1. /\ TypeOK /\ ClientOK(c) /\ pc[c] = "products" /\ u # None /\ wanted[c] = None
      /\ u \in Callers
  BY CallerAssumption DEF IInv, SendPage, ClientOK, Stage, Callers
<1>2. /\ status' = [status EXCEPT ![c] = 200]
      /\ seen' = [seen EXCEPT ![c] = S]
      /\ UNCHANGED <<table, caller, wanted, total, rows, todo, bare, before>>
  BY DEF SendPage
<1>3. Visible(u)' = V /\ V \subseteq Nat /\ IsFiniteSet(V)
  BY <1>1, <1>2, VisibleFacts DEF table, Visible, MayList
<1>4. /\ Leads(S, V) /\ Leads(before[c], V) /\ rows[c] \intersect seen[c] = {}
      /\ Cardinality(seen[c]) = Offset(c) /\ Cardinality(before[c]) <= total[c]
      /\ Cardinality(rows[c]) < PageSize => HasAll(c)
  BY <1>1 DEF ClientOK, Walk
<1>5. /\ IsFiniteSet(S) /\ IsFiniteSet(seen[c]) /\ IsFiniteSet(rows[c]) /\ IsFiniteSet(before[c])
      /\ Cardinality(S) \in Nat /\ Offset(c) \in Nat /\ Cardinality(rows[c]) \in Nat
      /\ Cardinality(before[c]) \in Nat
  <2>1. S \subseteq V /\ seen[c] \subseteq V /\ rows[c] \subseteq V /\ before[c] \subseteq V
    BY <1>4 DEF Leads
  <2> QED BY <2>1, <1>3, <1>4, FS_Subset, FS_CardinalityType
<1>6. Cardinality(S) = Offset(c) + Cardinality(rows[c])
  <2>1. Cardinality(S) = Cardinality(seen[c]) + Cardinality(rows[c])
                            - Cardinality(seen[c] \intersect rows[c])
    BY <1>5, FS_Union
  <2>2. Cardinality(seen[c] \intersect rows[c]) = 0
    <3>1. seen[c] \intersect rows[c] = {}
      BY <1>4
    <3> QED BY <3>1, FS_EmptySet
  <2> QED BY <2>1, <2>2, <1>4, <1>5
<1>7. status'[c] = 200 /\ seen'[c] = S /\ caller'[c] = u /\ wanted'[c] = None
      /\ UNCHANGED <<total[c], rows[c], todo[c], bare[c], before[c]>>
  BY <1>1, <1>2 DEF TypeOK
<1>8. seen' \in [Clients -> SUBSET Orders] /\ status' \in [Clients -> {200, 404, 500, None}]
  BY <1>1, <1>2 DEF TypeOK
<1>9. CASE HasAll(c)
  <2>1. pc' = [pc EXCEPT ![c] = "end"] /\ page' = page
    BY <1>9 DEF SendPage
  <2>2. pc'[c] = "end"
    BY <2>1, <1>1 DEF TypeOK
  <2>3. TypeOK'
    BY <2>1, <1>1, <1>2, <1>8 DEF TypeOK, table
  <2>4. before[c] \subseteq S
    <3>1. total[c] <= Cardinality(S) /\ total[c] \in Int
      BY <1>1, <1>6, <1>9, BoundsAssumption DEF HasAll, TypeOK
    <3>2. CASE S \subseteq before[c]
      <4>1. Cardinality(S) <= Cardinality(before[c])
            /\ (Cardinality(before[c]) = Cardinality(S) => before[c] = S)
        BY <3>2, <1>5, FS_Subset
      <4> QED BY <4>1, <3>1, <1>4, <1>5
    <3> QED BY <3>2, <1>3, <1>4, LeadsCompare
  <2>5. Stage(c)' /\ Fails(c)'
    BY <2>2, <1>1, <1>7 DEF Stage, Fails
  <2>6. Walk(c)'
    BY <2>2, <2>4, <1>3, <1>4, <1>7 DEF Walk
  <2> QED BY <2>3, <2>5, <2>6, <1>1, <1>7, ClientStepIInv DEF ClientOK, Handle
<1>10. CASE ~HasAll(c)
  <2>1. pc' = [pc EXCEPT ![c] = "count"] /\ page' = [page EXCEPT ![c] = @ + 1]
    BY <1>10 DEF SendPage
  <2>2. pc'[c] = "count" /\ page'[c] = page[c] + 1 /\ page[c] \in Nat \ {0}
    BY <2>1, <1>1 DEF TypeOK
  <2>3. TypeOK'
    <3>1. page' \in [Clients -> Nat \ {0}]
      BY <2>1, <1>1 DEF TypeOK
    <3>2. pc' \in [Clients -> {"idle", "count", "page", "products", "row", "items", "end"}]
      BY <2>1, <1>1 DEF TypeOK
    <3> QED BY <3>1, <3>2, <1>1, <1>2, <1>8 DEF TypeOK, table
  <2>4. Cardinality(rows[c]) = PageSize
    BY <1>1, <1>4, <1>5, <1>10, PageAssumption DEF TypeOK
  <2>5. Offset(c)' = Offset(c) + PageSize
    BY <2>2, PageAssumption DEF Offset
  <2>6. Cardinality(S) = Offset(c)'
    BY <2>4, <2>5, <1>6
  <2>7. Stage(c)' /\ Fails(c)'
    BY <2>2, <1>1, <1>7 DEF Stage, Fails
  <2>8. Walk(c)'
    BY <2>2, <2>6, <1>3, <1>4, <1>7 DEF Walk
  <2> QED BY <2>3, <2>7, <2>8, <1>1, <1>7, ClientStepIInv DEF ClientOK, Handle
<1> QED BY <1>9, <1>10

(* GET /orders/{id} looks for a row of the caller ...                       *)
LEMMA ReadRowIInv == ASSUME IInv, NEW c \in Clients, ReadRow(c) PROVE IInv'
<1>1. TypeOK /\ ClientOK(c) /\ pc[c] = "row" /\ wanted[c] # None /\ caller[c] \in Callers
  BY DEF IInv, ReadRow, ClientOK, Stage
<1>2. UNCHANGED <<table, caller, wanted, page, total, rows, todo, seen, bare, before>>
  BY DEF ReadRow, history
<1>3. Found(c)' <=> Found(c)
  BY <1>2 DEF table, Found, Visible, MayList
<1>4. \/ Found(c) /\ pc' = [pc EXCEPT ![c] = "items"] /\ status' = status
      \/ pc' = [pc EXCEPT ![c] = "end"] /\ status' = [status EXCEPT ![c] = 404]
  BY DEF ReadRow
<1>5. TypeOK'
  BY <1>1, <1>2, <1>4 DEF TypeOK, table
<1>6. \/ Found(c) /\ pc'[c] = "items" /\ status'[c] = status[c]
      \/ pc'[c] = "end" /\ status'[c] = 404
  BY <1>1, <1>4 DEF TypeOK
<1>7. Stage(c)'
  BY <1>1, <1>2, <1>3, <1>6 DEF ClientOK, Stage
<1>8. Walk(c)' /\ Fails(c)' /\ bare'[c] = {}
  BY <1>1, <1>2, <1>6 DEF ClientOK, Walk, Stage, Fails
<1> QED BY <1>5, <1>7, <1>8, ClientStepIInv DEF ClientOK, Handle

(* ... and finds its products with it.                                      *)
LEMMA ReadItemsIInv == ASSUME IInv, NEW c \in Clients, ReadItems(c) PROVE IInv'
<1>1. /\ TypeOK /\ ClientOK(c) /\ pc[c] = "items" /\ wanted[c] # None /\ wanted[c] \in Orders
      /\ Found(c) /\ caller[c] \in Callers
  BY DEF IInv, ReadItems, ClientOK, Stage, TypeOK
<1>2. /\ pc' = [pc EXCEPT ![c] = "end"] /\ status' = [status EXCEPT ![c] = 200]
      /\ seen' = [seen EXCEPT ![c] = {wanted[c]}]
      /\ bare' = [bare EXCEPT ![c] = {wanted[c]} \ products]
      /\ UNCHANGED <<table, caller, wanted, page, total, rows, todo, before>>
  BY DEF ReadItems
<1>3. wanted[c] \in products
  BY <1>1 DEF Found, Visible, IInv, RowsAreWhole
<1>4. TypeOK'
  BY <1>1, <1>2 DEF TypeOK, table
<1>5. pc'[c] = "end" /\ status'[c] = 200 /\ bare'[c] = {}
  BY <1>1, <1>2, <1>3 DEF TypeOK
<1>6. Stage(c)' /\ Walk(c)' /\ Fails(c)'
  BY <1>1, <1>2, <1>5 DEF Stage, Walk, Fails
<1> QED BY <1>4, <1>5, <1>6, ClientStepIInv DEF ClientOK, Handle

-----------------------------------------------------------------------------
(* Every step keeps the invariant.                                          *)
LEMMA NextIInv == IInv /\ [Next]_vars => IInv'
<1> SUFFICES ASSUME IInv, [Next]_vars PROVE IInv'
  OBVIOUS
<1>1. CASE InsertRow \/ InsertProducts \/ Rollback
  BY <1>1, TableStepIInv
<1>2. ASSUME NEW c \in Clients, Ask(c) PROVE IInv'
  BY <1>2, AskIInv
<1>3. ASSUME NEW c \in Clients, Handle(c) PROVE IInv'
  <2>1. CASE Count(c)
    BY <2>1, CountIInv
  <2>2. CASE ReadPage(c)
    BY <2>2, ReadPageIInv
  <2>3. CASE FetchProducts(c)
    BY <2>3, FetchProductsIInv
  <2>4. CASE ConversionFails(c)
    BY <2>4, ConversionFailsIInv
  <2>5. CASE SendPage(c)
    BY <2>5, SendPageIInv
  <2>6. CASE ReadRow(c)
    BY <2>6, ReadRowIInv
  <2>7. CASE ReadItems(c)
    BY <2>7, ReadItemsIInv
  <2> QED BY <1>3, <2>1, <2>2, <2>3, <2>4, <2>5, <2>6, <2>7 DEF Handle
<1>4. CASE UNCHANGED vars
  <2>1. UNCHANGED <<last, legacy, products, owner, open, pc, caller, wanted, page, total, rows, todo,
                    status, seen, bare, before>>
    BY <1>4 DEF vars, table, handler, history
  <2>2. TypeOK' /\ RowsAreWhole'
    BY <2>1 DEF IInv, TypeOK, RowsAreWhole
  <2>3. ASSUME NEW c \in Clients PROVE ClientOK(c)'
    <3>1. ClientOK(c)
      BY DEF IInv
    <3> QED BY <2>1, <3>1 DEF ClientOK, Stage, Walk, Fails, Found, HasAll, Offset, Visible, MayList
  <2> QED BY <2>2, <2>3 DEF IInv
<1> QED BY <1>1, <1>2, <1>3, <1>4 DEF Next

(* The invariant holds in every reachable state.                            *)
THEOREM Invariance == Spec => []IInv
  BY InitIInv, NextIInv, PTL DEF Spec

(* Type correctness, for any clients, orders and page size: a page is never *)
(* longer than its limit.                                                   *)
THEOREM TypeCorrect == Spec => []TypeOK
<1>1. IInv => TypeOK
  BY DEF IInv
<1> QED BY <1>1, Invariance, PTL

(* A client that pages through its listing is sent every order that was     *)
(* there when it began, each once and without a gap, whatever is committed  *)
(* in between.                                                              *)
THEOREM EveryOrderOnce == Spec => []WalkSeesAll
<1>1. IInv => WalkSeesAll
  BY DEF IInv, ClientOK, Walk, WalkSeesAll
<1> QED BY <1>1, Invariance, PTL

(* A page that is not full is the last of the total it comes with.          *)
THEOREM ShortPagesEnd == Spec => []ShortPageIsLast
<1>1. ASSUME IInv, NEW c \in Clients, pc[c] = "products", Cardinality(rows[c]) < PageSize
      PROVE  HasAll(c)
  <2>1. wanted[c] = None /\ caller[c] # None
    BY <1>1, CallerAssumption DEF IInv, ClientOK, Stage, Callers
  <2> QED BY <1>1, <2>1 DEF IInv, ClientOK, Walk
<1>2. IInv => ShortPageIsLast
  BY <1>1 DEF ShortPageIsLast
<1> QED BY <1>2, Invariance, PTL

(* No order is sent without its products.                                   *)
THEOREM ProductsAreThere == Spec => []NoneBare
<1>1. IInv => NoneBare
  BY DEF IInv, ClientOK, NoneBare
<1> QED BY <1>1, Invariance, PTL

(* Only a manager's listing fails, by an order from before user_id.         *)
THEOREM OnlyLegacyFails == Spec => []FailsByLegacyOnly
<1>1. IInv => FailsByLegacyOnly
  BY DEF IInv, ClientOK, Fails, FailsByLegacyOnly
<1> QED BY <1>1, Invariance, PTL
=============================================================================
