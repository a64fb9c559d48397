---------------------------- MODULE PurchaseProofs ---------------------------
(***************************************************************************)
(* What the records of a purchase guarantee (Procurement, as Records       *)
(* composes it): for every number of requests, items, requisitions,        *)
(* approvals and orders, and for every stock, reorder point and basket.    *)
(*                                                                         *)
(* A request holds the rows it changes until it commits, and what it has   *)
(* written waits in its draft.  The inductive invariant says of each       *)
(* request what its draft is, stage by stage, relative to the committed    *)
(* rows it has locked (Shape); that no row is locked or written by two     *)
(* (Apart); and that the committed records agree (Trails, Refers).  Every  *)
(* step of another request leaves alone what a request relies on (Spares), *)
(* so that its draft is still right when it commits (ShapeStays).          *)
(***************************************************************************)
EXTENDS RecordsProofs

-----------------------------------------------------------------------------
\* The inductive invariant

\* Tables with a row of R for some of the keys of K: what drafts are made of.
Partial(K, R) == UNION {[D -> R] : D \in SUBSET K}

DraftRecords ==
  [requisitions : Partial(Buy!Requisitions, Buy!RequisitionRow),
   approvals : Partial(Buy!Approvals, Buy!ApprovalRow),
   orders : Partial(Buy!Orders, Buy!OrderRow),
   items : Partial(Buy!Items, Buy!ItemRow)]

LockRows ==
  {Buy!Requisition(p) : p \in Buy!Requisitions} \union {Buy!Approval(a) : a \in Buy!Approvals}
    \union {Buy!Order(o) : o \in Buy!Orders} \union {Buy!Item(i) : i \in Buy!Items}

PurchaseTables ==
  /\ requisitions \in [Buy!Requisitions -> Buy!RequisitionRow \union {Buy!None}]
  /\ approvals \in [Buy!Approvals -> Buy!ApprovalRow \union {Buy!None}]
  /\ orders \in [Buy!Orders -> Buy!OrderRow \union {Buy!None}]
  /\ lots \in [Buy!Items -> Buy!ItemRow]

PurchaseSessions ==
  /\ purchase \in [Clients -> Buy!Requests \union {Buy!Idle}]
  /\ stage \in [Clients -> {"idle", "claim", "queue", "lines", "scan", "commit"}]
  /\ ahead \in [Clients -> SUBSET Buy!Items]
  /\ unpacked \in [Clients -> Nat]
  /\ written \in [Clients -> DraftRecords]
  /\ locked \in [Clients -> SUBSET LockRows]
  /\ \A s \in Clients :
       /\ stage[s] = "idle" => purchase[s] = Buy!Idle /\ locked[s] = {}
                                 /\ written[s] = Buy!Clean /\ unpacked[s] = 0
       /\ stage[s] # "idle" => purchase[s] \in Buy!Requests

ApprovalsOf(p) == {a \in Buy!Approvals : approvals[a] # Buy!None /\ approvals[a].pr = p}
OrdersFor(p) == {o \in Buy!Orders : orders[o] # Buy!None /\ orders[o].pr = p}

\* The approval a is the last one of requisition p.
Latest(a, p) == a \in ApprovalsOf(p) /\ \A b \in ApprovalsOf(p) : b <= a

\* A requisition that is out for approval has a pending request, its last; one that
\* has been decided bears what the last request says; an order bears its status.
Trail(p) ==
  /\ \A a \in ApprovalsOf(p) : approvals[a].status = "Pending" =>
       requisitions[p].status = "Submitted" /\ Latest(a, p)
  /\ requisitions[p].status = "Submitted" =>
       \E a \in ApprovalsOf(p) : approvals[a].status = "Pending"
  /\ requisitions[p].status = "Rejected" =>
       \E a \in ApprovalsOf(p) : Latest(a, p) /\ approvals[a].status = "Rejected"
  /\ requisitions[p].status \in {"Approved", "Ordered", "Received"} =>
       \E a \in ApprovalsOf(p) : Latest(a, p) /\ approvals[a].status = "Approved"
  /\ \A o \in OrdersFor(p) : orders[o].status = requisitions[p].status
  /\ \A o, x \in OrdersFor(p) : o = x
  /\ requisitions[p].status \in {"Ordered", "Received"} => OrdersFor(p) # {}

Trails == \A p \in Buy!Requisitions : requisitions[p] # Buy!None => Trail(p)

\* Approvals and orders are of requisitions there are.
Refers ==
  /\ \A a \in Buy!Approvals : approvals[a] # Buy!None => requisitions[approvals[a].pr] # Buy!None
  /\ \A o \in Buy!Orders : orders[o] # Buy!None => requisitions[orders[o].pr] # Buy!None

-----------------------------------------------------------------------------
\* What a request has written, stage by stage.

Claiming(s) ==
  LET r == purchase[s] IN
  /\ r.op \in {"submit", "approve", "decide", "order", "receive"}
  /\ written[s] = Buy!Clean /\ locked[s] = {} /\ unpacked[s] = 0
  /\ r.op \in {"submit", "approve", "order"} => requisitions[r.pr] # Buy!None
  /\ r.op = "decide" => approvals[r.approval] # Buy!None
  /\ r.op = "receive" => orders[r.order] # Buy!None

\* The requisition is claimed, and what follows from that is not yet written, or is.
Raising(s) ==
  LET r == purchase[s]
      p == Buy!Target(s)
      d == written[s]
  IN
  /\ r.op \in {"submit", "approve", "decide", "order"}
  /\ r.op = "decide" => approvals[r.approval] # Buy!None
  /\ requisitions[p] # Buy!None /\ requisitions[p].status \in Buy!From[r.op]
  /\ Buy!Requisition(p) \in locked[s]
  /\ DOMAIN d.requisitions = {p}
  /\ d.requisitions[p] = [requisitions[p] EXCEPT !.status = Buy!Claimed(s)]
  /\ DOMAIN d.items = {}

Raised(s) ==
  LET r == purchase[s]
      p == Buy!Target(s)
      d == written[s]
  IN
  /\ r.op = "submit" =>
       /\ DOMAIN d.orders = {}
       /\ \E a \in Buy!Approvals :
            /\ approvals[a] = Buy!None /\ DOMAIN d.approvals = {a}
            /\ d.approvals[a] = [status |-> "Pending", pr |-> p]
            /\ \A b \in ApprovalsOf(p) : b < a
  /\ r.op \in {"approve", "decide"} =>
       /\ DOMAIN d.orders = {}
       /\ \E a \in ApprovalsOf(p) :
            /\ approvals[a].status = "Pending" /\ DOMAIN d.approvals = {a}
            /\ Buy!Approval(a) \in locked[s]
            /\ d.approvals[a] = [status |-> Buy!Claimed(s), pr |-> p]
  /\ r.op = "order" =>
       /\ DOMAIN d.approvals = {}
       /\ \E o \in Buy!Orders :
            /\ orders[o] = Buy!None /\ DOMAIN d.orders = {o}
            /\ d.orders[o] = [status |-> "Ordered", pr |-> p, lines |-> requisitions[p].lines]

\* The units of item i on the first k lines.
UnitsUpTo(lines, i, k) ==
  Units({n \in 1..k : lines[n].item = i}, [n \in DOMAIN lines |-> lines[n].qty])

Receiving(s) ==
  LET o == purchase[s].order
      d == written[s]
      k == unpacked[s]
  IN
  /\ purchase[s].op = "receive"
  /\ orders[o] # Buy!None /\ orders[o].status = "Ordered" /\ Buy!Order(o) \in locked[s]
  /\ DOMAIN d.orders = {o} /\ d.orders[o] = [orders[o] EXCEPT !.status = "Received"]
  /\ DOMAIN d.approvals = {}
  /\ k <= Len(orders[o].lines)
  /\ \A i \in Buy!Items :
       LET n == Cardinality(UnitsUpTo(orders[o].lines, i, k)) IN
       IF i \in DOMAIN d.items
         THEN /\ Buy!Item(i) \in locked[s]
              /\ d.items[i] = [lots[i] EXCEPT !.stock = @ + n, !.received = @ + n]
         ELSE n = 0

Closed(s) ==
  LET o == purchase[s].order
      p == orders[o].pr
      d == written[s]
  IN
  /\ unpacked[s] = Len(orders[o].lines)
  /\ requisitions[p] # Buy!None /\ requisitions[p].status = "Ordered"
  /\ Buy!Requisition(p) \in locked[s]
  /\ DOMAIN d.requisitions = {p}
  /\ d.requisitions[p] = [requisitions[p] EXCEPT !.status = "Received"]

\* The automatic requisitions of item i that are in progress were rejected once.
Unfilled(i) ==
  \A q \in Buy!Requisitions : Buy!Automatic(q, i) /\ Buy!InProgress(q) => Buy!WasRejected(q)

\* The requisition row is an automatic one of item i alone.
Replenishment(row, i) ==
  /\ row.status = "Submitted" /\ row.automatic
  /\ \A j \in Buy!Items : Buy!Covers(row, j) <=> j = i

Scanning(s) ==
  LET d == written[s] IN
  /\ purchase[s].op = "scan"
  /\ DOMAIN d.orders = {} /\ DOMAIN d.items = {}
  /\ \A p \in DOMAIN d.requisitions :
       /\ requisitions[p] = Buy!None
       /\ \E i \in Buy!Items \ ahead[s] :
            /\ Replenishment(d.requisitions[p], i)
            /\ Buy!Item(i) \in locked[s] /\ Buy!Low(lots, i) /\ Unfilled(i)
       /\ \E a \in DOMAIN d.approvals : d.approvals[a].pr = p
  /\ \A p, q \in DOMAIN d.requisitions : \A i \in Buy!Items :
       Buy!Covers(d.requisitions[p], i) /\ Buy!Covers(d.requisitions[q], i) => p = q
  /\ \A a \in DOMAIN d.approvals :
       /\ approvals[a] = Buy!None /\ d.approvals[a].status = "Pending"
       /\ d.approvals[a].pr \in DOMAIN d.requisitions
  /\ \A a, b \in DOMAIN d.approvals : d.approvals[a].pr = d.approvals[b].pr => a = b

Blank(s) == DOMAIN written[s].approvals = {} /\ DOMAIN written[s].orders = {}

Shape(s) ==
  /\ stage[s] = "claim" => Claiming(s)
  /\ stage[s] = "queue" => Raising(s) /\ Blank(s)
  /\ stage[s] = "lines" => Receiving(s) /\ DOMAIN written[s].requisitions = {}
  /\ stage[s] = "scan" => Scanning(s)
  /\ stage[s] = "commit" =>
       \/ Raising(s) /\ Raised(s)
       \/ Receiving(s) /\ Closed(s)
       \/ Scanning(s)

Shapes == \A s \in Clients : Shape(s)

\* No row is locked by two, no row is written by two.
Clear(s, t) ==
  /\ locked[s] \intersect locked[t] = {}
  /\ DOMAIN written[s].requisitions \intersect DOMAIN written[t].requisitions = {}
  /\ DOMAIN written[s].approvals \intersect DOMAIN written[t].approvals = {}
  /\ DOMAIN written[s].orders \intersect DOMAIN written[t].orders = {}

Apart == \A s, t \in Clients : s # t => Clear(s, t)

\* What a request has written are rows it has locked, or new ones.
OwnsRequisitions(s) ==
  \A p \in DOMAIN written[s].requisitions :
    IF requisitions[p] = Buy!None
      THEN \E i \in Buy!Items :
             Replenishment(written[s].requisitions[p], i) /\ Buy!Item(i) \in locked[s]
      ELSE /\ Buy!Requisition(p) \in locked[s] /\ requisitions[p].status # "Received"
           /\ written[s].requisitions[p].automatic = requisitions[p].automatic
           /\ written[s].requisitions[p].lines = requisitions[p].lines

OwnsApprovals(s) ==
  \A a \in DOMAIN written[s].approvals :
    /\ written[s].approvals[a].pr \in DOMAIN written[s].requisitions
    /\ approvals[a] # Buy!None =>
         /\ Buy!Approval(a) \in locked[s] /\ approvals[a].status = "Pending"
         /\ approvals[a].pr = written[s].approvals[a].pr

OwnsOrders(s) ==
  \A o \in DOMAIN written[s].orders :
    /\ stage[s] = "commit" => written[s].orders[o].pr \in DOMAIN written[s].requisitions
    /\ orders[o] # Buy!None =>
         /\ Buy!Order(o) \in locked[s] /\ orders[o].status = "Ordered"
         /\ orders[o].pr = written[s].orders[o].pr /\ orders[o].lines = written[s].orders[o].lines

OwnsItems(s) == \A i \in DOMAIN written[s].items : Buy!Item(i) \in locked[s]

Owned(s) == OwnsRequisitions(s) /\ OwnsApprovals(s) /\ OwnsOrders(s) /\ OwnsItems(s)

PurchaseInv ==
  /\ PurchaseTables /\ PurchaseSessions
  /\ Shapes /\ Apart /\ Trails /\ Refers
  /\ Buy!ReceiptsExplainStock /\ Buy!ReplenishesOnce

\* A step of others leaves alone what request s relies on.
Spares(s) ==
  /\ \A p \in Buy!Requisitions : requisitions[p] # Buy!None =>
       /\ requisitions'[p] # Buy!None
       /\ Buy!Requisition(p) \in locked[s] =>
            requisitions'[p] = requisitions[p] /\ ApprovalsOf(p)' = ApprovalsOf(p)
  /\ \A a \in Buy!Approvals : approvals[a] # Buy!None =>
       /\ approvals'[a] # Buy!None /\ approvals'[a].pr = approvals[a].pr
       /\ Buy!Approval(a) \in locked[s] => approvals'[a] = approvals[a]
  /\ \A o \in Buy!Orders : orders[o] # Buy!None =>
       /\ orders'[o] # Buy!None
       /\ Buy!Order(o) \in locked[s] => orders'[o] = orders[o]
  /\ \A i \in Buy!Items : Buy!Item(i) \in locked[s] =>
       lots'[i] = lots[i] /\ (Unfilled(i) => Unfilled(i)')
  /\ \A p \in DOMAIN written[s].requisitions :
       requisitions[p] = Buy!None => requisitions'[p] = Buy!None
  /\ \A a \in DOMAIN written[s].approvals : approvals[a] = Buy!None => approvals'[a] = Buy!None
  /\ \A o \in DOMAIN written[s].orders : orders[o] = Buy!None => orders'[o] = Buy!None

SameRequest(s) ==
  /\ purchase'[s] = purchase[s] /\ stage'[s] = stage[s] /\ ahead'[s] = ahead[s]
  /\ unpacked'[s] = unpacked[s] /\ written'[s] = written[s] /\ locked'[s] = locked[s]

\* Rows stay, with what is written on them once.
RowsStay ==
  /\ \A p \in Buy!Requisitions : requisitions[p] # Buy!None =>
       /\ requisitions'[p] # Buy!None
       /\ requisitions'[p].automatic = requisitions[p].automatic
       /\ requisitions'[p].lines = requisitions[p].lines
       /\ requisitions[p].status = "Received" => requisitions'[p] = requisitions[p]
  /\ \A a \in Buy!Approvals : approvals[a] # Buy!None =>
       /\ approvals'[a] # Buy!None /\ approvals'[a].pr = approvals[a].pr
       /\ approvals[a].status # "Pending" => approvals'[a] = approvals[a]
  /\ \A o \in Buy!Orders : orders[o] # Buy!None =>
       /\ orders'[o] # Buy!None /\ orders'[o].pr = orders[o].pr
       /\ orders'[o].lines = orders[o].lines
       /\ orders[o].status # "Ordered" => orders'[o] = orders[o]
-----------------------------------------------------------------------------
\* Tools

LEMMA BuyCardinality == \A S : Buy!Cardinality(S) = Cardinality(S)
BY Zenon DEF Buy!Cardinality, Cardinality

LEMMA HighestOf ==
  ASSUME NEW S, S \subseteq Int, IsFiniteSet(S), S # {}
  PROVE  \E m \in S : \A y \in S : y <= m
<1> DEFINE T == {-x : x \in S}
           f == [x \in S |-> -x]
<1>1. f \in Surjection(S, T)
  BY DEF Surjection
<1>2. IsFiniteSet(T)
  <2> HIDE DEF T, f
  <2>1. QED
    BY <1>1, FS_Surjection
<1>3. T \subseteq Int /\ T # {}
  OBVIOUS
<1>4. PICK l \in T : \A y \in T : l <= y
  <2> HIDE DEF T
  <2>1. QED
    BY <1>2, <1>3, LowestOf
<1>5. PICK m \in S : l = -m
  OBVIOUS
<1>6. ASSUME NEW y \in S
      PROVE  y <= m
  <2>1. -m <= -y
    BY <1>4, <1>5
  <2>2. m \in Int /\ y \in Int
    OBVIOUS
  <2>3. QED
    BY <2>1, <2>2
<1>7. QED
  BY <1>6

LEMMA BuyMax ==
  ASSUME NEW S, S \subseteq Int, IsFiniteSet(S), S # {}
  PROVE  Buy!Max(S) \in S /\ \A y \in S : y <= Buy!Max(S)
<1>1. \E m \in S : \A y \in S : y <= m
  BY HighestOf
<1>2. \A m \in S : (\A y \in S : y <= m) <=> (\A y \in S : m >= y)
  OBVIOUS
<1>3. \E m \in S : \A y \in S : m >= y
  BY <1>1, <1>2
<1>4. Buy!Max(S) \in S /\ \A y \in S : Buy!Max(S) >= y
  BY <1>3 DEF Buy!Max
<1>5. QED
  BY <1>2, <1>4

LEMMA BuyMin ==
  ASSUME NEW S, S \subseteq Int, IsFiniteSet(S), S # {}
  PROVE  Buy!Min(S) \in S
BY LowestOf DEF Buy!Min

\* Ids above all that are in use or have been handed out.
LEMMA NextIdFresh ==
  ASSUME NEW N \in Nat, NEW table, DOMAIN table = 1..N, NEW D, D \subseteq 1..N
  PROVE  /\ \A x \in 1..N : table[x] # Buy!None => x < Buy!NextId(table, D)
         /\ \A x \in D : x < Buy!NextId(table, D)
<1> DEFINE S == {0} \union {x \in DOMAIN table : table[x] # Buy!None} \union D
<1>1. S \subseteq 0..N /\ S # {}
  <2>1. 0 \in 0..N /\ 1..N \subseteq 0..N
    OBVIOUS
  <2>2. {x \in DOMAIN table : table[x] # Buy!None} \subseteq 1..N
    OBVIOUS
  <2>3. QED
    BY <2>1, <2>2
<1>2. 0 \in Int /\ N \in Int
  OBVIOUS
<1>3. IsFiniteSet(0..N)
  BY <1>2, FS_Interval
<1>4. IsFiniteSet(S) /\ S \subseteq Int
  <2> HIDE DEF S
  <2>1. 0..N \subseteq Int
    OBVIOUS
  <2>2. QED
    BY <1>1, <1>3, <2>1, FS_Subset
<1>5. Buy!Max(S) \in S /\ \A y \in S : y <= Buy!Max(S)
  <2> HIDE DEF S
  <2>1. QED
    BY <1>1, <1>4, BuyMax
<1>6. Buy!NextId(table, D) = 1 + Buy!Max(S)
  BY DEF Buy!NextId
<1>7. ASSUME NEW y \in S
      PROVE  y < Buy!NextId(table, D)
  <2>1. y <= Buy!Max(S) /\ y \in Int /\ Buy!Max(S) \in Int
    <3> HIDE DEF S
    <3>1. QED
      BY <1>4, <1>5
  <2>2. QED
    BY <1>6, <2>1
<1>8. QED
  BY <1>7

LEMMA PutWrites ==
  ASSUME NEW K, NEW R, NEW f \in Partial(K, R), NEW x \in K, NEW r \in R
  PROVE  Buy!Put(f, x, r) \in Partial(K, R)
<1>1. PICK D \in SUBSET K : f \in [D -> R]
  BY DEF Partial
<1>2. Buy!Put(f, x, r) \in [D \union {x} -> R]
  BY <1>1 DEF Buy!Put
<1>3. D \union {x} \in SUBSET K
  OBVIOUS
<1>4. QED
  BY <1>2, <1>3 DEF Partial

LEMMA PartialMember ==
  ASSUME NEW K, NEW R, NEW f \in Partial(K, R)
  PROVE  DOMAIN f \subseteq K /\ \A x \in DOMAIN f : f[x] \in R
BY DEF Partial

LEMMA CleanDraft ==
  /\ Buy!Clean \in DraftRecords
  /\ DOMAIN Buy!Clean.requisitions = {} /\ DOMAIN Buy!Clean.approvals = {}
  /\ DOMAIN Buy!Clean.orders = {} /\ DOMAIN Buy!Clean.items = {}
<1>1. DOMAIN <<>> = {}
  OBVIOUS
<1>2. \A K, R : <<>> \in Partial(K, R)
  <2>1. ASSUME NEW K, NEW R
        PROVE  <<>> \in Partial(K, R)
    <3>1. <<>> \in [{} -> R]
      BY <1>1
    <3>2. QED
      BY <3>1 DEF Partial
  <2>2. QED
    BY <2>1
<1>3. QED
  BY <1>1, <1>2 DEF Buy!Clean, DraftRecords
-----------------------------------------------------------------------------
\* Requests and what they own

LEMMA PurchaseAsked ==
  ASSUME NEW r \in Buy!Requests
  PROVE  /\ r.op \in {"submit", "approve", "order", "decide", "receive", "scan"}
         /\ r.op \in {"submit", "approve", "order"} => r.pr \in Buy!Requisitions
         /\ r.op = "decide" => r.approval \in Buy!Approvals /\ r.as \in {"Approved", "Rejected"}
         /\ r.op = "receive" => r.order \in Buy!Orders
<1>1. CASE r \in [op : {"submit", "approve", "order"}, pr : Buy!Requisitions]
  BY <1>1
<1>2. CASE r \in [op : {"decide"}, approval : Buy!Approvals, as : {"Approved", "Rejected"}]
  BY <1>2
<1>3. CASE r \in [op : {"receive"}, order : Buy!Orders]
  BY <1>3
<1>4. CASE r = Buy!Scan
  BY <1>4 DEF Buy!Scan
<1>5. QED
  BY <1>1, <1>2, <1>3, <1>4 DEF Buy!Requests

LEMMA NoneIsNoRow ==
  /\ Buy!None.status = "None"
  /\ Buy!None \notin Buy!RequisitionRow /\ Buy!None \notin Buy!ApprovalRow
  /\ Buy!None \notin Buy!OrderRow
BY DEF Buy!None, Buy!RequisitionRow, Buy!ApprovalRow, Buy!OrderRow

\* A row there is has its type.
LEMMA PurchaseRows ==
  ASSUME PurchaseTables
  PROVE  /\ \A p \in Buy!Requisitions : requisitions[p] # Buy!None =>
              requisitions[p] \in Buy!RequisitionRow
         /\ \A a \in Buy!Approvals : approvals[a] # Buy!None => approvals[a] \in Buy!ApprovalRow
         /\ \A o \in Buy!Orders : orders[o] # Buy!None => orders[o] \in Buy!OrderRow
         /\ \A i \in Buy!Items : lots[i] \in Buy!ItemRow
BY DEF PurchaseTables

LEMMA DraftRows ==
  ASSUME PurchaseSessions, NEW s \in Clients
  PROVE  /\ written[s].requisitions \in Partial(Buy!Requisitions, Buy!RequisitionRow)
         /\ written[s].approvals \in Partial(Buy!Approvals, Buy!ApprovalRow)
         /\ written[s].orders \in Partial(Buy!Orders, Buy!OrderRow)
         /\ written[s].items \in Partial(Buy!Items, Buy!ItemRow)
         /\ DOMAIN written[s].requisitions \subseteq Buy!Requisitions
         /\ DOMAIN written[s].approvals \subseteq Buy!Approvals
         /\ DOMAIN written[s].orders \subseteq Buy!Orders
         /\ DOMAIN written[s].items \subseteq Buy!Items
         /\ \A p \in DOMAIN written[s].requisitions :
              written[s].requisitions[p] \in Buy!RequisitionRow
         /\ \A a \in DOMAIN written[s].approvals : written[s].approvals[a] \in Buy!ApprovalRow
         /\ \A o \in DOMAIN written[s].orders : written[s].orders[o] \in Buy!OrderRow
         /\ \A i \in DOMAIN written[s].items : written[s].items[i] \in Buy!ItemRow
<1>1. written[s] \in DraftRecords
  BY DEF PurchaseSessions
<1>2. /\ written[s].requisitions \in Partial(Buy!Requisitions, Buy!RequisitionRow)
      /\ written[s].approvals \in Partial(Buy!Approvals, Buy!ApprovalRow)
      /\ written[s].orders \in Partial(Buy!Orders, Buy!OrderRow)
      /\ written[s].items \in Partial(Buy!Items, Buy!ItemRow)
  BY <1>1 DEF DraftRecords
<1>3. QED
  BY <1>2, PartialMember

LEMMA TargetTyped ==
  ASSUME PurchaseTables, PurchaseSessions, NEW s \in Clients, stage[s] # "idle",
         purchase[s].op \in {"submit", "approve", "decide", "order"},
         purchase[s].op = "decide" => approvals[purchase[s].approval] # Buy!None
  PROVE  /\ Buy!Target(s) \in Buy!Requisitions
         /\ Buy!Claimed(s) \in {"Submitted", "Approved", "Rejected", "Ordered"}
         /\ purchase[s].op \in DOMAIN Buy!From
         /\ purchase[s].op # "decide" => Buy!Target(s) = purchase[s].pr
         /\ purchase[s].op = "decide" => Buy!Target(s) = approvals[purchase[s].approval].pr
<1>1. purchase[s] \in Buy!Requests
  BY DEF PurchaseSessions
<1>2. purchase[s].op = "decide" =>
        /\ purchase[s].approval \in Buy!Approvals /\ purchase[s].as \in {"Approved", "Rejected"}
        /\ approvals[purchase[s].approval] \in Buy!ApprovalRow
  BY <1>1, PurchaseAsked, PurchaseRows
<1>3. purchase[s].op # "decide" => purchase[s].pr \in Buy!Requisitions
  BY <1>1, PurchaseAsked
<1>4. QED
  BY <1>2, <1>3 DEF Buy!Target, Buy!Claimed, Buy!From, Buy!ApprovalRow

LEMMA RaisingOwns ==
  ASSUME PurchaseTables, PurchaseSessions, NEW s \in Clients, stage[s] # "idle", Raising(s),
         Blank(s) \/ Raised(s)
  PROVE  Owned(s)
<1>1. PICK p \in Buy!Requisitions :
        /\ p = Buy!Target(s) /\ requisitions[p] # Buy!None
        /\ requisitions[p].status \in Buy!From[purchase[s].op]
        /\ Buy!Requisition(p) \in locked[s]
        /\ DOMAIN written[s].requisitions = {p}
        /\ written[s].requisitions[p] = [requisitions[p] EXCEPT !.status = Buy!Claimed(s)]
        /\ DOMAIN written[s].items = {}
  BY TargetTyped DEF Raising
<1>2. /\ requisitions[p] \in Buy!RequisitionRow
      /\ purchase[s].op \in {"submit", "approve", "decide", "order"}
  BY <1>1, PurchaseRows DEF Raising
<1>3. requisitions[p].status # "Received"
  BY <1>1, <1>2 DEF Buy!From
<1>4. OwnsRequisitions(s)
  BY <1>1, <1>2, <1>3 DEF Buy!RequisitionRow, OwnsRequisitions
<1>5. OwnsApprovals(s)
  BY <1>1, <1>2 DEF Raised, Blank, ApprovalsOf, OwnsApprovals
<1>6. OwnsOrders(s)
  BY <1>1, <1>2 DEF Raised, Blank, OwnsOrders
<1>7. QED
  BY <1>1, <1>4, <1>5, <1>6 DEF Owned, OwnsItems

LEMMA ReceivingOwns ==
  ASSUME PurchaseTables, PurchaseSessions, NEW s \in Clients, stage[s] # "idle", Receiving(s),
         Closed(s) \/ (stage[s] # "commit" /\ DOMAIN written[s].requisitions = {})
  PROVE  Owned(s)
<1>1. purchase[s] \in Buy!Requests /\ purchase[s].op = "receive"
  BY DEF PurchaseSessions, Receiving
<1>2. PICK o \in Buy!Orders :
        /\ o = purchase[s].order
        /\ orders[o] # Buy!None /\ orders[o].status = "Ordered" /\ Buy!Order(o) \in locked[s]
        /\ DOMAIN written[s].orders = {o}
        /\ written[s].orders[o] = [orders[o] EXCEPT !.status = "Received"]
        /\ DOMAIN written[s].approvals = {}
  BY <1>1, PurchaseAsked DEF Receiving
<1>3. OwnsItems(s)
  BY DraftRows DEF Receiving, OwnsItems
<1>4. OwnsApprovals(s)
  BY <1>2 DEF OwnsApprovals
<1>5. orders[o] \in Buy!OrderRow
  BY <1>2, PurchaseRows
<1>6. PICK p \in Buy!Requisitions : p = orders[o].pr
  BY <1>5 DEF Buy!OrderRow
<1>7. written[s].orders[o].pr = p /\ written[s].orders[o].lines = orders[o].lines
  BY <1>2, <1>5, <1>6 DEF Buy!OrderRow
<1>8. CASE Closed(s)
  <2>1. /\ requisitions[p] # Buy!None /\ requisitions[p].status = "Ordered"
        /\ Buy!Requisition(p) \in locked[s]
        /\ DOMAIN written[s].requisitions = {p}
        /\ written[s].requisitions[p] = [requisitions[p] EXCEPT !.status = "Received"]
    BY <1>2, <1>6, <1>8 DEF Closed
  <2>2. requisitions[p] \in Buy!RequisitionRow
    BY <2>1, PurchaseRows
  <2>3. OwnsRequisitions(s)
    BY <2>1, <2>2 DEF Buy!RequisitionRow, OwnsRequisitions
  <2>4. OwnsOrders(s)
    BY <1>2, <1>6, <1>7, <2>1 DEF OwnsOrders
  <2>5. QED
    BY <1>3, <1>4, <2>3, <2>4 DEF Owned
<1>9. CASE stage[s] # "commit" /\ DOMAIN written[s].requisitions = {}
  BY <1>2, <1>3, <1>4, <1>6, <1>7, <1>9 DEF Owned, OwnsRequisitions, OwnsOrders
<1>10. QED
  BY <1>8, <1>9

LEMMA ScanningOwns ==
  ASSUME PurchaseTables, PurchaseSessions, NEW s \in Clients, Scanning(s)
  PROVE  Owned(s)
BY DEF Owned, OwnsRequisitions, OwnsApprovals, OwnsOrders, OwnsItems, Scanning

LEMMA Owns ==
  ASSUME PurchaseTables, PurchaseSessions, NEW s \in Clients, Shape(s)
  PROVE  Owned(s)
<1>1. stage[s] \in {"idle", "claim", "queue", "lines", "scan", "commit"}
  BY DEF PurchaseSessions
<1>2. CASE stage[s] \in {"idle", "claim"}
  <2>1. written[s] = Buy!Clean
    BY <1>2 DEF Shape, Claiming, PurchaseSessions
  <2>2. QED
    BY <2>1, CleanDraft DEF Owned, OwnsRequisitions, OwnsApprovals, OwnsOrders, OwnsItems
<1>3. CASE stage[s] = "queue"
  BY <1>3, RaisingOwns DEF Shape
<1>4. CASE stage[s] = "lines"
  BY <1>4, ReceivingOwns DEF Shape
<1>5. CASE stage[s] = "scan"
  BY <1>5, ScanningOwns DEF Shape
<1>6. CASE stage[s] = "commit"
  <2>1. \/ Raising(s) /\ Raised(s)
        \/ Receiving(s) /\ Closed(s)
        \/ Scanning(s)
    BY <1>6 DEF Shape
  <2>2. QED
    BY <1>6, <2>1, RaisingOwns, ReceivingOwns, ScanningOwns
<1>7. QED
  BY <1>1, <1>2, <1>3, <1>4, <1>5, <1>6
-----------------------------------------------------------------------------
\* A commit, for others

LEMMA RequestEnds ==
  ASSUME PurchaseSessions, NEW s \in Clients, Buy!End(s)
  PROVE  /\ PurchaseSessions' /\ Shape(s)'
         /\ written'[s] = Buy!Clean /\ locked'[s] = {}
         /\ \A t \in Clients \ {s} : SameRequest(t)
<1>1. /\ purchase' = [purchase EXCEPT ![s] = Buy!Idle]
      /\ stage' = [stage EXCEPT ![s] = "idle"]
      /\ ahead' = [ahead EXCEPT ![s] = {}]
      /\ unpacked' = [unpacked EXCEPT ![s] = 0]
      /\ written' = [written EXCEPT ![s] = Buy!Clean]
      /\ locked' = [locked EXCEPT ![s] = {}]
  BY DEF Buy!End
<1>2. /\ purchase'[s] = Buy!Idle /\ stage'[s] = "idle" /\ ahead'[s] = {}
      /\ unpacked'[s] = 0 /\ written'[s] = Buy!Clean /\ locked'[s] = {}
      /\ \A t \in Clients \ {s} : SameRequest(t)
  BY <1>1 DEF PurchaseSessions, SameRequest
<1>3. /\ purchase' \in [Clients -> Buy!Requests \union {Buy!Idle}]
      /\ stage' \in [Clients -> {"idle", "claim", "queue", "lines", "scan", "commit"}]
      /\ ahead' \in [Clients -> SUBSET Buy!Items]
      /\ unpacked' \in [Clients -> Nat]
      /\ written' \in [Clients -> DraftRecords]
      /\ locked' \in [Clients -> SUBSET LockRows]
  BY <1>1, CleanDraft DEF PurchaseSessions
<1>4. PurchaseSessions'
  BY <1>2, <1>3 DEF PurchaseSessions, SameRequest
<1>5. Shape(s)'
  BY <1>2 DEF Shape
<1>6. QED
  BY <1>2, <1>4, <1>5

LEMMA Committed ==
  ASSUME PurchaseTables, PurchaseSessions, NEW s \in Clients, Buy!Commit(s)
  PROVE  /\ stage[s] = "commit" /\ Buy!End(s) /\ PurchaseTables'
         /\ \A p \in Buy!Requisitions : requisitions'[p] =
              IF p \in DOMAIN written[s].requisitions
                THEN written[s].requisitions[p] ELSE requisitions[p]
         /\ \A a \in Buy!Approvals : approvals'[a] =
              IF a \in DOMAIN written[s].approvals
                THEN written[s].approvals[a] ELSE approvals[a]
         /\ \A o \in Buy!Orders : orders'[o] =
              IF o \in DOMAIN written[s].orders THEN written[s].orders[o] ELSE orders[o]
         /\ \A i \in Buy!Items : lots'[i] =
              IF i \in DOMAIN written[s].items THEN written[s].items[i] ELSE lots[i]
<1>1. /\ stage[s] = "commit" /\ Buy!End(s)
      /\ requisitions' = Buy!Over(written[s].requisitions, requisitions)
      /\ approvals' = Buy!Over(written[s].approvals, approvals)
      /\ orders' = Buy!Over(written[s].orders, orders)
      /\ lots' = Buy!Over(written[s].items, lots)
  BY DEF Buy!Commit, Buy!RequisitionView, Buy!ApprovalView, Buy!OrderView, Buy!ItemView
<1>2. /\ requisitions' \in [Buy!Requisitions -> Buy!RequisitionRow \union {Buy!None}]
      /\ \A x \in Buy!Requisitions : requisitions'[x] =
           IF x \in DOMAIN written[s].requisitions THEN written[s].requisitions[x] ELSE requisitions[x]
  <2>1. /\ \A x \in DOMAIN written[s].requisitions : written[s].requisitions[x] \in Buy!RequisitionRow
        /\ requisitions \in [Buy!Requisitions -> Buy!RequisitionRow \union {Buy!None}]
    BY DraftRows DEF PurchaseTables
  <2>2. requisitions' = [x \in Buy!Requisitions |->
          IF x \in DOMAIN written[s].requisitions THEN written[s].requisitions[x] ELSE requisitions[x]]
    BY <1>1, <2>1 DEF Buy!Over
  <2>3. QED
    BY <2>1, <2>2
<1>3. /\ approvals' \in [Buy!Approvals -> Buy!ApprovalRow \union {Buy!None}]
      /\ \A x \in Buy!Approvals : approvals'[x] =
           IF x \in DOMAIN written[s].approvals THEN written[s].approvals[x] ELSE approvals[x]
  <2>1. /\ \A x \in DOMAIN written[s].approvals : written[s].approvals[x] \in Buy!ApprovalRow
        /\ approvals \in [Buy!Approvals -> Buy!ApprovalRow \union {Buy!None}]
    BY DraftRows DEF PurchaseTables
  <2>2. approvals' = [x \in Buy!Approvals |->
          IF x \in DOMAIN written[s].approvals THEN written[s].approvals[x] ELSE approvals[x]]
    BY <1>1, <2>1 DEF Buy!Over
  <2>3. QED
    BY <2>1, <2>2
<1>4. /\ orders' \in [Buy!Orders -> Buy!OrderRow \union {Buy!None}]
      /\ \A x \in Buy!Orders : orders'[x] =
           IF x \in DOMAIN written[s].orders THEN written[s].orders[x] ELSE orders[x]
  <2>1. /\ \A x \in DOMAIN written[s].orders : written[s].orders[x] \in Buy!OrderRow
        /\ orders \in [Buy!Orders -> Buy!OrderRow \union {Buy!None}]
    BY DraftRows DEF PurchaseTables
  <2>2. orders' = [x \in Buy!Orders |->
          IF x \in DOMAIN written[s].orders THEN written[s].orders[x] ELSE orders[x]]
    BY <1>1, <2>1 DEF Buy!Over
  <2>3. QED
    BY <2>1, <2>2
<1>5. /\ lots' \in [Buy!Items -> Buy!ItemRow]
      /\ \A x \in Buy!Items : lots'[x] =
           IF x \in DOMAIN written[s].items THEN written[s].items[x] ELSE lots[x]
  <2>1. /\ \A x \in DOMAIN written[s].items : written[s].items[x] \in Buy!ItemRow
        /\ lots \in [Buy!Items -> Buy!ItemRow]
    BY DraftRows DEF PurchaseTables
  <2>2. lots' = [x \in Buy!Items |->
          IF x \in DOMAIN written[s].items THEN written[s].items[x] ELSE lots[x]]
    BY <1>1, <2>1 DEF Buy!Over
  <2>3. QED
    BY <2>1, <2>2
<1>6. PurchaseTables'
  BY <1>2, <1>3, <1>4, <1>5 DEF PurchaseTables
<1>7. QED
  BY <1>1, <1>2, <1>3, <1>4, <1>5, <1>6

LEMMA CommitRowsStay ==
  ASSUME PurchaseTables, PurchaseSessions, NEW t \in Clients, Shape(t), Buy!Commit(t)
  PROVE  RowsStay
<1>1. Owned(t) /\ stage[t] = "commit"
  BY Owns, Committed
<1>2. ASSUME NEW p \in Buy!Requisitions, requisitions[p] # Buy!None
      PROVE  /\ requisitions'[p] # Buy!None
             /\ requisitions'[p].automatic = requisitions[p].automatic
             /\ requisitions'[p].lines = requisitions[p].lines
             /\ requisitions[p].status = "Received" => requisitions'[p] = requisitions[p]
  <2>1. CASE p \notin DOMAIN written[t].requisitions
    BY <1>2, <2>1, Committed
  <2>2. CASE p \in DOMAIN written[t].requisitions
    <3>1. requisitions'[p] = written[t].requisitions[p]
      BY <2>2, Committed
    <3>2. requisitions'[p] # Buy!None
      BY <2>2, <3>1, DraftRows, NoneIsNoRow
    <3>3. QED
      BY <1>1, <1>2, <2>2, <3>1, <3>2 DEF Owned, OwnsRequisitions
  <2>3. QED
    BY <2>1, <2>2
<1>3. ASSUME NEW a \in Buy!Approvals, approvals[a] # Buy!None
      PROVE  /\ approvals'[a] # Buy!None /\ approvals'[a].pr = approvals[a].pr
             /\ approvals[a].status # "Pending" => approvals'[a] = approvals[a]
  <2>1. CASE a \notin DOMAIN written[t].approvals
    BY <1>3, <2>1, Committed
  <2>2. CASE a \in DOMAIN written[t].approvals
    <3>1. approvals'[a] = written[t].approvals[a]
      BY <2>2, Committed
    <3>2. approvals'[a] # Buy!None
      BY <2>2, <3>1, DraftRows, NoneIsNoRow
    <3>3. QED
      BY <1>1, <1>3, <2>2, <3>1, <3>2 DEF Owned, OwnsApprovals
  <2>3. QED
    BY <2>1, <2>2
<1>4. ASSUME NEW o \in Buy!Orders, orders[o] # Buy!None
      PROVE  /\ orders'[o] # Buy!None /\ orders'[o].pr = orders[o].pr
             /\ orders'[o].lines = orders[o].lines
             /\ orders[o].status # "Ordered" => orders'[o] = orders[o]
  <2>1. CASE o \notin DOMAIN written[t].orders
    BY <1>4, <2>1, Committed
  <2>2. CASE o \in DOMAIN written[t].orders
    <3>1. orders'[o] = written[t].orders[o]
      BY <2>2, Committed
    <3>2. orders'[o] # Buy!None
      BY <2>2, <3>1, DraftRows, NoneIsNoRow
    <3>3. QED
      BY <1>1, <1>4, <2>2, <3>1, <3>2 DEF Owned, OwnsOrders
  <2>3. QED
    BY <2>1, <2>2
<1>5. QED
  BY <1>2, <1>3, <1>4 DEF RowsStay

LEMMA RejectedStays ==
  ASSUME PurchaseTables, RowsStay, NEW p \in Buy!Requisitions, Buy!WasRejected(p)
  PROVE  Buy!WasRejected(p)'
<1>1. PICK a \in Buy!Approvals :
        approvals[a] # Buy!None /\ approvals[a].pr = p /\ approvals[a].status = "Rejected"
  BY DEF Buy!WasRejected
<1>2. approvals'[a] = approvals[a]
  BY <1>1 DEF RowsStay
<1>3. QED
  BY <1>1, <1>2 DEF Buy!WasRejected

\* A requisition that is in progress after a commit was so before, or had been
\* rejected, unless it is new.
LEMMA ProgressAfterCommit ==
  ASSUME PurchaseTables, PurchaseSessions, NEW t \in Clients, Shape(t), Trails, Buy!Commit(t),
         NEW q \in Buy!Requisitions, requisitions[q] # Buy!None, Buy!InProgress(q)'
  PROVE  Buy!InProgress(q) \/ Buy!WasRejected(q)
<1>1. RowsStay
  BY CommitRowsStay
<1>2. requisitions[q].status # "Received"
  BY <1>1 DEF RowsStay, Buy!InProgress
<1>3. CASE requisitions[q].status = "Rejected"
  <2>1. \E a \in ApprovalsOf(q) : Latest(a, q) /\ approvals[a].status = "Rejected"
    BY <1>3 DEF Trails, Trail
  <2>2. QED
    BY <2>1 DEF ApprovalsOf, Buy!WasRejected
<1>4. QED
  BY <1>2, <1>3 DEF Buy!InProgress

LEMMA UnfilledStays ==
  ASSUME PurchaseTables, PurchaseSessions, Apart, Trails,
         NEW t \in Clients, Shape(t), Buy!Commit(t),
         NEW s \in Clients \ {t}, NEW i \in Buy!Items, Buy!Item(i) \in locked[s], Unfilled(i)
  PROVE  Unfilled(i)'
<1>1. RowsStay /\ Owned(t)
  BY CommitRowsStay, Owns
<1>2. ASSUME NEW q \in Buy!Requisitions, Buy!Automatic(q, i)', Buy!InProgress(q)'
      PROVE  Buy!WasRejected(q)'
  <2>1. CASE requisitions[q] # Buy!None
    <3>1. Buy!Automatic(q, i)
      BY <1>1, <1>2, <2>1 DEF RowsStay, Buy!Automatic, Buy!Covers
    <3>2. Buy!WasRejected(q)
      BY <1>2, <2>1, <3>1, ProgressAfterCommit DEF Unfilled
    <3>3. QED
      BY <1>1, <3>2, RejectedStays
  <2>2. CASE requisitions[q] = Buy!None
    <3>1. q \in DOMAIN written[t].requisitions
      BY <1>2, <2>2, Committed DEF Buy!Automatic
    <3>2. requisitions'[q] = written[t].requisitions[q]
      BY <3>1, Committed
    <3>3. PICK j \in Buy!Items :
            Replenishment(written[t].requisitions[q], j) /\ Buy!Item(j) \in locked[t]
      BY <1>1, <2>2, <3>1 DEF Owned, OwnsRequisitions
    <3>4. Buy!Covers(written[t].requisitions[q], i)
      BY <1>2, <3>2 DEF Buy!Automatic, Buy!Covers
    <3>5. i = j
      BY <3>3, <3>4 DEF Replenishment
    <3>6. QED
      BY <3>3, <3>5 DEF Apart, Clear
  <2>3. QED
    BY <2>1, <2>2
<1>3. QED
  BY <1>2 DEF Unfilled

LEMMA CommitSpares ==
  ASSUME PurchaseTables, PurchaseSessions, Apart, Trails,
         NEW t \in Clients, Shape(t), Buy!Commit(t), NEW s \in Clients \ {t}
  PROVE  Spares(s)
<1>1. RowsStay /\ Owned(t)
  BY CommitRowsStay, Owns
<1>2. stage[t] = "commit"
  BY Committed
<1>3. /\ locked[s] \intersect locked[t] = {}
      /\ DOMAIN written[s].requisitions \intersect DOMAIN written[t].requisitions = {}
      /\ DOMAIN written[s].approvals \intersect DOMAIN written[t].approvals = {}
      /\ DOMAIN written[s].orders \intersect DOMAIN written[t].orders = {}
  BY DEF Apart, Clear
<1>4. ASSUME NEW p \in Buy!Requisitions, requisitions[p] # Buy!None,
             Buy!Requisition(p) \in locked[s]
      PROVE  requisitions'[p] = requisitions[p] /\ ApprovalsOf(p)' = ApprovalsOf(p)
  <2>1. p \notin DOMAIN written[t].requisitions
    BY <1>1, <1>3, <1>4 DEF Owned, OwnsRequisitions
  <2>2. requisitions'[p] = requisitions[p]
    BY <2>1, Committed
  <2>3. ASSUME NEW a \in Buy!Approvals
        PROVE  a \in ApprovalsOf(p)' <=> a \in ApprovalsOf(p)
    <3>1. CASE a \notin DOMAIN written[t].approvals
      <4>1. approvals'[a] = approvals[a]
        BY <3>1, Committed
      <4>2. QED
        BY <4>1 DEF ApprovalsOf
    <3>2. CASE a \in DOMAIN written[t].approvals
      <4>1. approvals'[a] = written[t].approvals[a]
        BY <3>2, Committed
      <4>2. /\ written[t].approvals[a].pr # p
            /\ approvals[a] # Buy!None => approvals[a].pr # p
        BY <1>1, <2>1, <3>2 DEF Owned, OwnsApprovals
      <4>3. QED
        BY <4>1, <4>2 DEF ApprovalsOf
    <3>3. QED
      BY <3>1, <3>2
  <2>4. QED
    BY <2>2, <2>3 DEF ApprovalsOf
<1>5. ASSUME NEW a \in Buy!Approvals, approvals[a] # Buy!None, Buy!Approval(a) \in locked[s]
      PROVE  approvals'[a] = approvals[a]
  <2>1. a \notin DOMAIN written[t].approvals
    BY <1>1, <1>3, <1>5 DEF Owned, OwnsApprovals
  <2>2. QED
    BY <2>1, Committed
<1>6. ASSUME NEW o \in Buy!Orders, orders[o] # Buy!None, Buy!Order(o) \in locked[s]
      PROVE  orders'[o] = orders[o]
  <2>1. o \notin DOMAIN written[t].orders
    BY <1>1, <1>3, <1>6 DEF Owned, OwnsOrders
  <2>2. QED
    BY <2>1, Committed
<1>7. ASSUME NEW i \in Buy!Items, Buy!Item(i) \in locked[s]
      PROVE  lots'[i] = lots[i] /\ (Unfilled(i) => Unfilled(i)')
  <2>1. i \notin DOMAIN written[t].items
    BY <1>1, <1>3, <1>7 DEF Owned, OwnsItems
  <2>2. lots'[i] = lots[i]
    BY <2>1, Committed
  <2>3. QED
    BY <1>7, <2>2, UnfilledStays
<1>8. /\ \A p \in DOMAIN written[s].requisitions :
           requisitions[p] = Buy!None => requisitions'[p] = Buy!None
      /\ \A a \in DOMAIN written[s].approvals :
           approvals[a] = Buy!None => approvals'[a] = Buy!None
      /\ \A o \in DOMAIN written[s].orders : orders[o] = Buy!None => orders'[o] = Buy!None
  BY <1>3, Committed, DraftRows
<1>9. QED
  BY <1>1, <1>4, <1>5, <1>6, <1>7, <1>8 DEF Spares, RowsStay
-----------------------------------------------------------------------------
\* What a request has written stays right while others work.

LEMMA TargetStays ==
  ASSUME PurchaseTables, PurchaseSessions, NEW s \in Clients, stage[s] # "idle",
         Spares(s), SameRequest(s), Raising(s)
  PROVE  /\ Buy!Target(s)' = Buy!Target(s) /\ Buy!Claimed(s)' = Buy!Claimed(s)
         /\ purchase[s].op = "decide" => approvals'[purchase[s].approval] # Buy!None
<1>1. purchase'[s] = purchase[s] /\ purchase[s] \in Buy!Requests
  BY DEF SameRequest, PurchaseSessions
<1>2. CASE purchase[s].op = "decide"
  <2>1. purchase[s].approval \in Buy!Approvals /\ approvals[purchase[s].approval] # Buy!None
    BY <1>1, <1>2, PurchaseAsked DEF Raising
  <2>2. /\ approvals'[purchase[s].approval].pr = approvals[purchase[s].approval].pr
        /\ approvals'[purchase[s].approval] # Buy!None
    BY <2>1 DEF Spares
  <2>3. QED
    BY <1>1, <2>2 DEF Buy!Target, Buy!Claimed
<1>3. CASE purchase[s].op # "decide"
  BY <1>1, <1>3 DEF Buy!Target, Buy!Claimed
<1>4. QED
  BY <1>2, <1>3

LEMMA RaisingStays ==
  ASSUME PurchaseTables, PurchaseSessions, NEW s \in Clients, stage[s] # "idle",
         Spares(s), SameRequest(s), Raising(s)
  PROVE  Raising(s)' /\ (Raised(s) => Raised(s)')
<1>1. /\ Buy!Target(s)' = Buy!Target(s) /\ Buy!Claimed(s)' = Buy!Claimed(s)
      /\ purchase[s].op = "decide" => approvals'[purchase[s].approval] # Buy!None
  BY TargetStays
<1>2. PICK p \in Buy!Requisitions :
        /\ p = Buy!Target(s) /\ requisitions[p] # Buy!None
        /\ requisitions[p].status \in Buy!From[purchase[s].op]
        /\ Buy!Requisition(p) \in locked[s]
        /\ DOMAIN written[s].requisitions = {p}
        /\ written[s].requisitions[p] = [requisitions[p] EXCEPT !.status = Buy!Claimed(s)]
        /\ DOMAIN written[s].items = {}
  BY TargetTyped DEF Raising
<1>3. requisitions'[p] = requisitions[p] /\ ApprovalsOf(p)' = ApprovalsOf(p)
  BY <1>2 DEF Spares
<1>4. /\ purchase'[s] = purchase[s] /\ written'[s] = written[s] /\ locked'[s] = locked[s]
      /\ purchase[s].op \in {"submit", "approve", "decide", "order"}
  BY DEF SameRequest, Raising
<1>5. p = Buy!Target(s)'
  BY <1>1, <1>2
<1>6. Raising(s)'
  BY <1>1, <1>2, <1>3, <1>4, <1>5 DEF Raising
<1>7. ASSUME Raised(s)
      PROVE  Raised(s)'
  <2>1. CASE purchase[s].op = "submit"
    <3>1. PICK a \in Buy!Approvals :
            /\ approvals[a] = Buy!None /\ DOMAIN written[s].approvals = {a}
            /\ written[s].approvals[a] = [status |-> "Pending", pr |-> p]
            /\ \A b \in ApprovalsOf(p) : b < a
      BY <1>2, <1>7, <2>1 DEF Raised
    <3>2. approvals'[a] = Buy!None
      BY <3>1 DEF Spares
    <3>3. DOMAIN written[s].orders = {}
      BY <1>7, <2>1 DEF Raised
    <3>4. QED
      BY <1>3, <1>4, <1>5, <2>1, <3>1, <3>2, <3>3 DEF Raised
  <2>2. CASE purchase[s].op \in {"approve", "decide"}
    <3>1. PICK a \in ApprovalsOf(p) :
            /\ approvals[a].status = "Pending" /\ DOMAIN written[s].approvals = {a}
            /\ Buy!Approval(a) \in locked[s]
            /\ written[s].approvals[a] = [status |-> Buy!Claimed(s), pr |-> p]
      BY <1>2, <1>7, <2>2 DEF Raised
    <3>2. approvals'[a] = approvals[a] /\ a \in ApprovalsOf(p)'
      BY <1>3, <3>1 DEF Spares, ApprovalsOf
    <3>3. DOMAIN written[s].orders = {}
      BY <1>7, <2>2 DEF Raised
    <3>4. QED
      BY <1>1, <1>4, <1>5, <2>2, <3>1, <3>2, <3>3 DEF Raised
  <2>3. CASE purchase[s].op = "order"
    <3>1. PICK o \in Buy!Orders :
            /\ orders[o] = Buy!None /\ DOMAIN written[s].orders = {o}
            /\ written[s].orders[o] =
                 [status |-> "Ordered", pr |-> p, lines |-> requisitions[p].lines]
      BY <1>2, <1>7, <2>3 DEF Raised
    <3>2. orders'[o] = Buy!None
      BY <3>1 DEF Spares
    <3>3. DOMAIN written[s].approvals = {}
      BY <1>7, <2>3 DEF Raised
    <3>4. QED
      BY <1>3, <1>4, <1>5, <2>3, <3>1, <3>2, <3>3 DEF Raised
  <2>4. QED
    BY <1>4, <2>1, <2>2, <2>3
<1>8. QED
  BY <1>6, <1>7

LEMMA ReceivingStays ==
  ASSUME PurchaseTables, PurchaseSessions, NEW s \in Clients, stage[s] # "idle",
         Spares(s), SameRequest(s), Receiving(s)
  PROVE  Receiving(s)' /\ (Closed(s) => Closed(s)')
<1>1. /\ purchase'[s] = purchase[s] /\ written'[s] = written[s] /\ locked'[s] = locked[s]
      /\ unpacked'[s] = unpacked[s]
      /\ purchase[s].op = "receive" /\ purchase[s] \in Buy!Requests
  BY DEF SameRequest, Receiving, PurchaseSessions
<1>2. PICK o \in Buy!Orders : o = purchase[s].order
  BY <1>1, PurchaseAsked
<1>3. orders[o] # Buy!None /\ orders'[o] = orders[o] /\ orders[o] \in Buy!OrderRow
  BY <1>2, PurchaseRows DEF Receiving, Spares
<1>4. \A i \in Buy!Items : i \in DOMAIN written[s].items => lots'[i] = lots[i]
  BY DEF Receiving, Spares
<1>5. Receiving(s)'
  <2>1. /\ orders'[o] # Buy!None /\ orders'[o].status = "Ordered" /\ Buy!Order(o) \in locked'[s]
        /\ DOMAIN written'[s].orders = {o}
        /\ written'[s].orders[o] = [orders'[o] EXCEPT !.status = "Received"]
        /\ DOMAIN written'[s].approvals = {}
        /\ unpacked'[s] <= Len(orders'[o].lines)
    BY <1>1, <1>2, <1>3 DEF Receiving
  <2>2. ASSUME NEW i \in Buy!Items
        PROVE  LET n == Cardinality(UnitsUpTo(orders'[o].lines, i, unpacked'[s])) IN
               IF i \in DOMAIN written'[s].items
                 THEN /\ Buy!Item(i) \in locked'[s]
                      /\ written'[s].items[i] =
                           [lots'[i] EXCEPT !.stock = @ + n, !.received = @ + n]
                 ELSE n = 0
    BY <1>1, <1>2, <1>3, <1>4 DEF Receiving
  <2>3. QED
    BY <1>1, <1>2, <2>1, <2>2 DEF Receiving
<1>6. ASSUME Closed(s)
      PROVE  Closed(s)'
  <2>1. PICK p \in Buy!Requisitions : p = orders[o].pr
    BY <1>3 DEF Buy!OrderRow
  <2>2. requisitions'[p] = requisitions[p]
    BY <1>2, <1>6, <2>1 DEF Closed, Spares
  <2>3. QED
    BY <1>1, <1>2, <1>3, <1>6, <2>1, <2>2 DEF Closed
<1>7. QED
  BY <1>5, <1>6

LEMMA ScanningStays ==
  ASSUME PurchaseTables, PurchaseSessions, NEW s \in Clients, stage[s] # "idle",
         Spares(s), SameRequest(s), Scanning(s)
  PROVE  Scanning(s)'
<1>1. /\ purchase'[s] = purchase[s] /\ written'[s] = written[s] /\ locked'[s] = locked[s]
      /\ ahead'[s] = ahead[s]
  BY DEF SameRequest
<1>2. ASSUME NEW p \in DOMAIN written[s].requisitions
      PROVE  /\ requisitions'[p] = Buy!None
             /\ \E i \in Buy!Items \ ahead'[s] :
                  /\ Replenishment(written'[s].requisitions[p], i)
                  /\ Buy!Item(i) \in locked'[s] /\ Buy!Low(lots', i) /\ Unfilled(i)'
             /\ \E a \in DOMAIN written'[s].approvals : written'[s].approvals[a].pr = p
  <2>1. PICK i \in Buy!Items \ ahead[s] :
          /\ Replenishment(written[s].requisitions[p], i)
          /\ Buy!Item(i) \in locked[s] /\ Buy!Low(lots, i) /\ Unfilled(i)
    BY DEF Scanning
  <2>2. lots'[i] = lots[i] /\ Unfilled(i)'
    BY <2>1 DEF Spares
  <2>3. Buy!Low(lots', i)
    BY <2>1, <2>2 DEF Buy!Low
  <2>4. requisitions'[p] = Buy!None /\ \E a \in DOMAIN written[s].approvals : written[s].approvals[a].pr = p
    BY DEF Scanning, Spares
  <2>5. QED
    BY <1>1, <2>1, <2>2, <2>3, <2>4
<1>3. ASSUME NEW a \in DOMAIN written[s].approvals
      PROVE  approvals'[a] = Buy!None
  BY DEF Scanning, Spares
<1>4. QED
  BY <1>1, <1>2, <1>3 DEF Scanning, Replenishment, Buy!Covers

LEMMA ShapeStays ==
  ASSUME PurchaseTables, PurchaseSessions, NEW s \in Clients,
         Spares(s), SameRequest(s), Shape(s)
  PROVE  Shape(s)'
<1>1. /\ purchase'[s] = purchase[s] /\ written'[s] = written[s] /\ locked'[s] = locked[s]
      /\ unpacked'[s] = unpacked[s] /\ stage'[s] = stage[s]
      /\ stage[s] \in {"idle", "claim", "queue", "lines", "scan", "commit"}
  BY DEF SameRequest, PurchaseSessions
<1>2. CASE stage[s] = "idle"
  BY <1>1, <1>2 DEF Shape
<1>3. CASE stage[s] = "claim"
  <2>1. Claiming(s) /\ purchase[s] \in Buy!Requests
    BY <1>3 DEF Shape, PurchaseSessions
  <2>2. /\ purchase[s].op \in {"submit", "approve", "order"} => purchase[s].pr \in Buy!Requisitions
        /\ purchase[s].op = "decide" => purchase[s].approval \in Buy!Approvals
        /\ purchase[s].op = "receive" => purchase[s].order \in Buy!Orders
    BY <2>1, PurchaseAsked
  <2>3. Claiming(s)'
    BY <1>1, <2>1, <2>2 DEF Claiming, Spares
  <2>4. QED
    BY <1>1, <1>3, <2>3 DEF Shape
<1>4. CASE stage[s] = "queue"
  <2>1. Raising(s) /\ Blank(s)
    BY <1>4 DEF Shape
  <2>2. Raising(s)'
    BY <1>4, <2>1, RaisingStays
  <2>3. QED
    BY <1>1, <1>4, <2>1, <2>2 DEF Shape, Blank
<1>5. CASE stage[s] = "lines"
  <2>1. Receiving(s)' /\ DOMAIN written[s].requisitions = {}
    BY <1>5, ReceivingStays DEF Shape
  <2>2. QED
    BY <1>1, <1>5, <2>1 DEF Shape
<1>6. CASE stage[s] = "scan"
  <2>1. Scanning(s)'
    BY <1>6, ScanningStays DEF Shape
  <2>2. QED
    BY <1>1, <1>6, <2>1 DEF Shape
<1>7. CASE stage[s] = "commit"
  <2>1. \/ Raising(s) /\ Raised(s)
        \/ Receiving(s) /\ Closed(s)
        \/ Scanning(s)
    BY <1>7 DEF Shape
  <2>2. \/ Raising(s)' /\ Raised(s)'
        \/ Receiving(s)' /\ Closed(s)'
        \/ Scanning(s)'
    BY <1>7, <2>1, RaisingStays, ReceivingStays, ScanningStays
  <2>3. QED
    BY <1>1, <1>7, <2>2 DEF Shape
<1>8. QED
  BY <1>1, <1>2, <1>3, <1>4, <1>5, <1>6, <1>7

\* A step that leaves the tables alone is no step of another's concern.
LEMMA QuietSpares ==
  ASSUME UNCHANGED <<requisitions, approvals, orders, lots>>, NEW s \in Clients
  PROVE  Spares(s)
BY DEF Spares, ApprovalsOf, Unfilled, Buy!Automatic, Buy!InProgress, Buy!WasRejected,
       Buy!Covers
-----------------------------------------------------------------------------
\* A request moves on.

LEMMA TablesRest ==
  ASSUME UNCHANGED <<requisitions, approvals, orders, lots>>,
         PurchaseTables, Trails, Refers, Buy!ReceiptsExplainStock, Buy!ReplenishesOnce
  PROVE  /\ PurchaseTables' /\ Trails' /\ Refers'
         /\ Buy!ReceiptsExplainStock' /\ Buy!ReplenishesOnce'
<1>1. PurchaseTables' /\ Refers'
  BY DEF PurchaseTables, Refers
<1>2. Trails'
  BY DEF Trails, Trail, ApprovalsOf, OrdersFor, Latest
<1>3. Buy!ReceiptsExplainStock'
  BY DEF Buy!ReceiptsExplainStock, Buy!ReceivedOf
<1>4. Buy!ReplenishesOnce'
  BY DEF Buy!ReplenishesOnce, Buy!Automatic, Buy!InProgress, Buy!WasRejected, Buy!Covers
<1>5. QED
  BY <1>1, <1>2, <1>3, <1>4

LEMMA OneMoves ==
  ASSUME PurchaseInv, NEW s \in Clients,
         UNCHANGED <<requisitions, approvals, orders, lots>>,
         PurchaseSessions', \A t \in Clients \ {s} : SameRequest(t),
         Shape(s)', \A t \in Clients \ {s} : Clear(s, t)'
  PROVE  PurchaseInv'
<1>1. /\ PurchaseTables' /\ Trails' /\ Refers'
      /\ Buy!ReceiptsExplainStock' /\ Buy!ReplenishesOnce'
  BY TablesRest DEF PurchaseInv
<1>2. \A t \in Clients \ {s} : Shape(t)'
  BY QuietSpares, ShapeStays DEF PurchaseInv, Shapes
<1>3. Shapes'
  BY <1>2 DEF Shapes
<1>4. ASSUME NEW t \in Clients, NEW x \in Clients, t # x
      PROVE  Clear(t, x)'
  <2>1. CASE t = s
    BY <1>4, <2>1
  <2>2. CASE x = s
    <3>1. Clear(s, t)'
      BY <1>4, <2>2
    <3>2. QED
      BY <2>2, <3>1 DEF Clear
  <2>3. CASE t # s /\ x # s
    <3>1. Clear(t, x)
      BY <1>4 DEF PurchaseInv, Apart
    <3>2. SameRequest(t) /\ SameRequest(x)
      BY <2>3
    <3>3. QED
      BY <3>1, <3>2 DEF Clear, SameRequest
  <2>4. QED
    BY <2>1, <2>2, <2>3
<1>5. Apart'
  BY <1>4 DEF Apart
<1>6. QED
  BY <1>1, <1>3, <1>5 DEF PurchaseInv

\* The stages of a request between its first step and its commit.
Working == {"claim", "queue", "lines", "scan", "commit"}

LEMMA RequestMoves ==
  ASSUME PurchaseSessions, NEW s \in Clients, stage[s] # "idle", UNCHANGED purchase,
         NEW x \in Working, stage' = [stage EXCEPT ![s] = x],
         ahead' \in [Clients -> SUBSET Buy!Items], unpacked' \in [Clients -> Nat],
         written' \in [Clients -> DraftRecords], locked' \in [Clients -> SUBSET LockRows],
         \A t \in Clients \ {s} : /\ ahead'[t] = ahead[t] /\ unpacked'[t] = unpacked[t]
                                  /\ written'[t] = written[t] /\ locked'[t] = locked[t]
  PROVE  PurchaseSessions' /\ stage'[s] = x /\ \A t \in Clients \ {s} : SameRequest(t)
<1>1. /\ stage' \in [Clients -> {"idle", "claim", "queue", "lines", "scan", "commit"}]
      /\ stage'[s] = x /\ x # "idle"
      /\ \A t \in Clients \ {s} : stage'[t] = stage[t]
  BY DEF PurchaseSessions, Working
<1>2. \A t \in Clients \ {s} : SameRequest(t)
  BY <1>1 DEF SameRequest
<1>3. \A t \in Clients : 
        /\ stage'[t] = "idle" => purchase'[t] = Buy!Idle /\ locked'[t] = {}
                                   /\ written'[t] = Buy!Clean /\ unpacked'[t] = 0
        /\ stage'[t] # "idle" => purchase'[t] \in Buy!Requests
  <2>1. ASSUME NEW t \in Clients, t # s
        PROVE  /\ stage'[t] = "idle" => purchase'[t] = Buy!Idle /\ locked'[t] = {}
                                   /\ written'[t] = Buy!Clean /\ unpacked'[t] = 0
               /\ stage'[t] # "idle" => purchase'[t] \in Buy!Requests
    BY <1>1, <2>1 DEF PurchaseSessions
  <2>2. purchase'[s] \in Buy!Requests
    BY DEF PurchaseSessions
  <2>3. QED
    BY <1>1, <2>1, <2>2
<1>4. PurchaseSessions'
  BY <1>1, <1>3 DEF PurchaseSessions
<1>5. QED
  BY <1>1, <1>2, <1>4

LEMMA TakeLocks ==
  ASSUME PurchaseSessions, Apart, NEW s \in Clients, NEW row \in LockRows, Buy!Take(s, row)
  PROVE  /\ locked' \in [Clients -> SUBSET LockRows]
         /\ locked'[s] = locked[s] \union {row}
         /\ \A t \in Clients \ {s} : /\ locked'[t] = locked[t] /\ row \notin locked[t]
                                     /\ locked'[s] \intersect locked'[t] = {}
<1>1. /\ locked' = [locked EXCEPT ![s] = @ \union {row}]
      /\ \A t \in Clients \ {s} : row \notin locked[t]
  BY DEF Buy!Take
<1>2. locked \in [Clients -> SUBSET LockRows]
  BY DEF PurchaseSessions
<1>3. \A t \in Clients \ {s} : locked[s] \intersect locked[t] = {}
  BY DEF Apart, Clear
<1>4. QED
  BY <1>1, <1>2, <1>3

WritesRequisition(s, p, row) ==
  written' = [written EXCEPT ![s].requisitions = Buy!Put(@, p, row)]

LEMMA RequisitionWritten ==
  ASSUME PurchaseSessions, NEW s \in Clients, NEW p \in Buy!Requisitions, NEW row \in Buy!RequisitionRow,
         WritesRequisition(s, p, row)
  PROVE  /\ written' \in [Clients -> DraftRecords]
         /\ DOMAIN written'[s].requisitions = DOMAIN written[s].requisitions \union {p}
         /\ written'[s].requisitions[p] = row
         /\ \A y \in DOMAIN written[s].requisitions :
              y # p => written'[s].requisitions[y] = written[s].requisitions[y]
         /\ written'[s].approvals = written[s].approvals
         /\ written'[s].orders = written[s].orders
         /\ written'[s].items = written[s].items
         /\ \A t \in Clients \ {s} : written'[t] = written[t]
<1>1. written[s] \in DraftRecords /\ written \in [Clients -> DraftRecords]
  BY DEF PurchaseSessions
<1>0. written' = [written EXCEPT ![s].requisitions = Buy!Put(@, p, row)]
  BY DEF WritesRequisition
<1>2. PICK f : f = Buy!Put(written[s].requisitions, p, row)
  OBVIOUS
<1>3. /\ f \in Partial(Buy!Requisitions, Buy!RequisitionRow) /\ f[p] = row
      /\ DOMAIN f = DOMAIN written[s].requisitions \union {p}
      /\ \A y \in DOMAIN written[s].requisitions : y # p => f[y] = written[s].requisitions[y]
  <2>1. written[s].requisitions \in Partial(Buy!Requisitions, Buy!RequisitionRow)
    BY DraftRows
  <2>2. f \in Partial(Buy!Requisitions, Buy!RequisitionRow)
    BY <1>2, <2>1, PutWrites
  <2>3. QED
    BY <1>2, <2>2 DEF Buy!Put
<1>4. written'[s] = [written[s] EXCEPT !.requisitions = f]
  BY <1>0, <1>1, <1>2
<1>5. [written[s] EXCEPT !.requisitions = f] \in DraftRecords
  BY <1>1, <1>3 DEF DraftRecords
<1>6. /\ written'[s].requisitions = f
      /\ written'[s].approvals = written[s].approvals
      /\ written'[s].orders = written[s].orders
      /\ written'[s].items = written[s].items
  BY <1>1, <1>4 DEF DraftRecords
<1>7. /\ \A t \in Clients \ {s} : written'[t] = written[t]
      /\ written' \in [Clients -> DraftRecords]
  BY <1>0, <1>1, <1>2, <1>5
<1>8. QED
  BY <1>3, <1>6, <1>7

WritesApproval(s, a, row) ==
  written' = [written EXCEPT ![s].approvals = Buy!Put(@, a, row)]

LEMMA ApprovalWritten ==
  ASSUME PurchaseSessions, NEW s \in Clients, NEW a \in Buy!Approvals, NEW row \in Buy!ApprovalRow,
         WritesApproval(s, a, row)
  PROVE  /\ written' \in [Clients -> DraftRecords]
         /\ DOMAIN written'[s].approvals = DOMAIN written[s].approvals \union {a}
         /\ written'[s].approvals[a] = row
         /\ \A y \in DOMAIN written[s].approvals :
              y # a => written'[s].approvals[y] = written[s].approvals[y]
         /\ written'[s].requisitions = written[s].requisitions
         /\ written'[s].orders = written[s].orders
         /\ written'[s].items = written[s].items
         /\ \A t \in Clients \ {s} : written'[t] = written[t]
<1>1. written[s] \in DraftRecords /\ written \in [Clients -> DraftRecords]
  BY DEF PurchaseSessions
<1>0. written' = [written EXCEPT ![s].approvals = Buy!Put(@, a, row)]
  BY DEF WritesApproval
<1>2. PICK f : f = Buy!Put(written[s].approvals, a, row)
  OBVIOUS
<1>3. /\ f \in Partial(Buy!Approvals, Buy!ApprovalRow) /\ f[a] = row
      /\ DOMAIN f = DOMAIN written[s].approvals \union {a}
      /\ \A y \in DOMAIN written[s].approvals : y # a => f[y] = written[s].approvals[y]
  <2>1. written[s].approvals \in Partial(Buy!Approvals, Buy!ApprovalRow)
    BY DraftRows
  <2>2. f \in Partial(Buy!Approvals, Buy!ApprovalRow)
    BY <1>2, <2>1, PutWrites
  <2>3. QED
    BY <1>2, <2>2 DEF Buy!Put
<1>4. written'[s] = [written[s] EXCEPT !.approvals = f]
  BY <1>0, <1>1, <1>2
<1>5. [written[s] EXCEPT !.approvals = f] \in DraftRecords
  BY <1>1, <1>3 DEF DraftRecords
<1>6. /\ written'[s].approvals = f
      /\ written'[s].requisitions = written[s].requisitions
      /\ written'[s].orders = written[s].orders
      /\ written'[s].items = written[s].items
  BY <1>1, <1>4 DEF DraftRecords
<1>7. /\ \A t \in Clients \ {s} : written'[t] = written[t]
      /\ written' \in [Clients -> DraftRecords]
  BY <1>0, <1>1, <1>2, <1>5
<1>8. QED
  BY <1>3, <1>6, <1>7

WritesOrder(s, o, row) ==
  written' = [written EXCEPT ![s].orders = Buy!Put(@, o, row)]

LEMMA OrderWritten ==
  ASSUME PurchaseSessions, NEW s \in Clients, NEW o \in Buy!Orders, NEW row \in Buy!OrderRow,
         WritesOrder(s, o, row)
  PROVE  /\ written' \in [Clients -> DraftRecords]
         /\ DOMAIN written'[s].orders = DOMAIN written[s].orders \union {o}
         /\ written'[s].orders[o] = row
         /\ \A y \in DOMAIN written[s].orders :
              y # o => written'[s].orders[y] = written[s].orders[y]
         /\ written'[s].requisitions = written[s].requisitions
         /\ written'[s].approvals = written[s].approvals
         /\ written'[s].items = written[s].items
         /\ \A t \in Clients \ {s} : written'[t] = written[t]
<1>1. written[s] \in DraftRecords /\ written \in [Clients -> DraftRecords]
  BY DEF PurchaseSessions
<1>0. written' = [written EXCEPT ![s].orders = Buy!Put(@, o, row)]
  BY DEF WritesOrder
<1>2. PICK f : f = Buy!Put(written[s].orders, o, row)
  OBVIOUS
<1>3. /\ f \in Partial(Buy!Orders, Buy!OrderRow) /\ f[o] = row
      /\ DOMAIN f = DOMAIN written[s].orders \union {o}
      /\ \A y \in DOMAIN written[s].orders : y # o => f[y] = written[s].orders[y]
  <2>1. written[s].orders \in Partial(Buy!Orders, Buy!OrderRow)
    BY DraftRows
  <2>2. f \in Partial(Buy!Orders, Buy!OrderRow)
    BY <1>2, <2>1, PutWrites
  <2>3. QED
    BY <1>2, <2>2 DEF Buy!Put
<1>4. written'[s] = [written[s] EXCEPT !.orders = f]
  BY <1>0, <1>1, <1>2
<1>5. [written[s] EXCEPT !.orders = f] \in DraftRecords
  BY <1>1, <1>3 DEF DraftRecords
<1>6. /\ written'[s].orders = f
      /\ written'[s].requisitions = written[s].requisitions
      /\ written'[s].approvals = written[s].approvals
      /\ written'[s].items = written[s].items
  BY <1>1, <1>4 DEF DraftRecords
<1>7. /\ \A t \in Clients \ {s} : written'[t] = written[t]
      /\ written' \in [Clients -> DraftRecords]
  BY <1>0, <1>1, <1>2, <1>5
<1>8. QED
  BY <1>3, <1>6, <1>7

WritesItem(s, i, row) ==
  written' = [written EXCEPT ![s].items = Buy!Put(@, i, row)]

LEMMA ItemWritten ==
  ASSUME PurchaseSessions, NEW s \in Clients, NEW i \in Buy!Items, NEW row \in Buy!ItemRow,
         WritesItem(s, i, row)
  PROVE  /\ written' \in [Clients -> DraftRecords]
         /\ DOMAIN written'[s].items = DOMAIN written[s].items \union {i}
         /\ written'[s].items[i] = row
         /\ \A y \in DOMAIN written[s].items :
              y # i => written'[s].items[y] = written[s].items[y]
         /\ written'[s].requisitions = written[s].requisitions
         /\ written'[s].approvals = written[s].approvals
         /\ written'[s].orders = written[s].orders
         /\ \A t \in Clients \ {s} : written'[t] = written[t]
<1>1. written[s] \in DraftRecords /\ written \in [Clients -> DraftRecords]
  BY DEF PurchaseSessions
<1>0. written' = [written EXCEPT ![s].items = Buy!Put(@, i, row)]
  BY DEF WritesItem
<1>2. PICK f : f = Buy!Put(written[s].items, i, row)
  OBVIOUS
<1>3. /\ f \in Partial(Buy!Items, Buy!ItemRow) /\ f[i] = row
      /\ DOMAIN f = DOMAIN written[s].items \union {i}
      /\ \A y \in DOMAIN written[s].items : y # i => f[y] = written[s].items[y]
  <2>1. written[s].items \in Partial(Buy!Items, Buy!ItemRow)
    BY DraftRows
  <2>2. f \in Partial(Buy!Items, Buy!ItemRow)
    BY <1>2, <2>1, PutWrites
  <2>3. QED
    BY <1>2, <2>2 DEF Buy!Put
<1>4. written'[s] = [written[s] EXCEPT !.items = f]
  BY <1>0, <1>1, <1>2
<1>5. [written[s] EXCEPT !.items = f] \in DraftRecords
  BY <1>1, <1>3 DEF DraftRecords
<1>6. /\ written'[s].items = f
      /\ written'[s].requisitions = written[s].requisitions
      /\ written'[s].approvals = written[s].approvals
      /\ written'[s].orders = written[s].orders
  BY <1>1, <1>4 DEF DraftRecords
<1>7. /\ \A t \in Clients \ {s} : written'[t] = written[t]
      /\ written' \in [Clients -> DraftRecords]
  BY <1>0, <1>1, <1>2, <1>5
<1>8. QED
  BY <1>3, <1>6, <1>7

-----------------------------------------------------------------------------
\* Requisitions are claimed, and their approvals queued and resolved.

LEMMA FreshRequisition ==
  ASSUME PurchaseTables, PurchaseSessions, NEW p \in Buy!Requisitions, p = Buy!NextRequisition
  PROVE  requisitions[p] = Buy!None /\ \A t \in Clients : p \notin DOMAIN written[t].requisitions
<1> DEFINE D == UNION {DOMAIN written[t].requisitions : t \in Clients}
<1>1. /\ MaxRequisitions \in Nat /\ DOMAIN requisitions = 1..MaxRequisitions
      /\ p \in 1..MaxRequisitions /\ p = Buy!NextId(requisitions, D)
  BY PurchaseAssumption DEF PurchaseAssumption, PurchaseTables, Buy!Requisitions,
                            Buy!NextRequisition
<1>2. D \subseteq 1..MaxRequisitions
  BY DraftRows DEF Buy!Requisitions
<1> HIDE DEF D
<1>3. /\ \A x \in 1..MaxRequisitions : requisitions[x] # Buy!None => x < p
      /\ \A x \in D : x < p
  BY <1>1, <1>2, NextIdFresh
<1>4. requisitions[p] = Buy!None /\ p \notin D
  BY <1>1, <1>3
<1>5. QED
  BY <1>4 DEF D

LEMMA FreshApproval ==
  ASSUME PurchaseTables, PurchaseSessions, NEW a \in Buy!Approvals, a = Buy!NextApproval
  PROVE  /\ approvals[a] = Buy!None /\ \A t \in Clients : a \notin DOMAIN written[t].approvals
         /\ \A b \in Buy!Approvals : approvals[b] # Buy!None => b < a
<1> DEFINE D == UNION {DOMAIN written[t].approvals : t \in Clients}
<1>1. /\ MaxApprovals \in Nat /\ DOMAIN approvals = 1..MaxApprovals
      /\ a \in 1..MaxApprovals /\ a = Buy!NextId(approvals, D)
  BY PurchaseAssumption DEF PurchaseAssumption, PurchaseTables, Buy!Approvals, Buy!NextApproval
<1>2. D \subseteq 1..MaxApprovals
  BY DraftRows DEF Buy!Approvals
<1> HIDE DEF D
<1>3. /\ \A x \in 1..MaxApprovals : approvals[x] # Buy!None => x < a
      /\ \A x \in D : x < a
  BY <1>1, <1>2, NextIdFresh
<1>4. approvals[a] = Buy!None /\ a \notin D
  BY <1>1, <1>3
<1>5. QED
  BY <1>3, <1>4 DEF D, Buy!Approvals

LEMMA FreshOrder ==
  ASSUME PurchaseTables, PurchaseSessions, NEW o \in Buy!Orders, o = Buy!NextOrder
  PROVE  orders[o] = Buy!None /\ \A t \in Clients : o \notin DOMAIN written[t].orders
<1> DEFINE D == UNION {DOMAIN written[t].orders : t \in Clients}
<1>1. /\ MaxOrders \in Nat /\ DOMAIN orders = 1..MaxOrders
      /\ o \in 1..MaxOrders /\ o = Buy!NextId(orders, D)
  BY PurchaseAssumption DEF PurchaseAssumption, PurchaseTables, Buy!Orders, Buy!NextOrder
<1>2. D \subseteq 1..MaxOrders
  BY DraftRows DEF Buy!Orders
<1> HIDE DEF D
<1>3. /\ \A x \in 1..MaxOrders : orders[x] # Buy!None => x < o
      /\ \A x \in D : x < o
  BY <1>1, <1>2, NextIdFresh
<1>4. orders[o] = Buy!None /\ o \notin D
  BY <1>1, <1>3
<1>5. QED
  BY <1>4 DEF D

LEMMA BegunKeeps ==
  ASSUME PurchaseInv, NEW s \in Clients, Buy!StartSession(s)
  PROVE  PurchaseInv'
<1>1. PurchaseTables /\ PurchaseSessions /\ Apart
  BY DEF PurchaseInv
<1>2. PICK rq \in Buy!Requests, first \in {"claim", "scan"}, candidates \in SUBSET Buy!Items :
        /\ Buy!Begin(s, rq, first, candidates)
        /\ first = "scan" => rq = Buy!Scan
        /\ first = "claim" =>
             /\ rq.op \in {"submit", "approve", "decide", "order", "receive"}
             /\ rq.op \in {"submit", "approve", "order"} => requisitions[rq.pr] # Buy!None
             /\ rq.op = "decide" => approvals[rq.approval] # Buy!None
             /\ rq.op = "receive" => orders[rq.order] # Buy!None
  <2>1. CASE \E op \in {"submit", "approve", "order"}, p \in Buy!Requisitions :
               requisitions[p] # Buy!None /\ Buy!Begin(s, [op |-> op, pr |-> p], "claim", {})
    <3>1. PICK op \in {"submit", "approve", "order"}, p \in Buy!Requisitions :
            requisitions[p] # Buy!None /\ Buy!Begin(s, [op |-> op, pr |-> p], "claim", {})
      BY <2>1
    <3>2. [op |-> op, pr |-> p] \in Buy!Requests
      BY DEF Buy!Requests
    <3>3. QED
      BY <3>1, <3>2
  <2>2. CASE \E a \in Buy!Approvals, as \in {"Approved", "Rejected"} :
               /\ approvals[a].status = "Pending"
               /\ Buy!Begin(s, [op |-> "decide", approval |-> a, as |-> as], "claim", {})
    <3>1. PICK a \in Buy!Approvals, as \in {"Approved", "Rejected"} :
            /\ approvals[a].status = "Pending"
            /\ Buy!Begin(s, [op |-> "decide", approval |-> a, as |-> as], "claim", {})
      BY <2>2
    <3>2. [op |-> "decide", approval |-> a, as |-> as] \in Buy!Requests
      BY DEF Buy!Requests
    <3>3. approvals[a] # Buy!None
      BY <3>1, NoneIsNoRow
    <3>4. QED
      BY <3>1, <3>2, <3>3
  <2>3. CASE \E o \in Buy!Orders :
               orders[o] # Buy!None /\ Buy!Begin(s, [op |-> "receive", order |-> o], "claim", {})
    <3>1. PICK o \in Buy!Orders :
            orders[o] # Buy!None /\ Buy!Begin(s, [op |-> "receive", order |-> o], "claim", {})
      BY <2>3
    <3>2. [op |-> "receive", order |-> o] \in Buy!Requests
      BY DEF Buy!Requests
    <3>3. QED
      BY <3>1, <3>2
  <2>4. CASE Buy!Begin(s, Buy!Scan, "scan", {i \in Buy!Items : Buy!Low(lots, i)})
    <3>1. Buy!Scan \in Buy!Requests /\ {i \in Buy!Items : Buy!Low(lots, i)} \in SUBSET Buy!Items
      BY DEF Buy!Requests
    <3>2. QED
      BY <2>4, <3>1
  <2>5. QED
    BY <2>1, <2>2, <2>3, <2>4 DEF Buy!StartSession
<1>3. /\ stage[s] = "idle" /\ purchase' = [purchase EXCEPT ![s] = rq]
      /\ stage' = [stage EXCEPT ![s] = first] /\ ahead' = [ahead EXCEPT ![s] = candidates]
      /\ UNCHANGED <<requisitions, approvals, orders, lots, unpacked, written, locked>>
  BY <1>2 DEF Buy!Begin, Buy!tables
<1>4. /\ purchase'[s] = rq /\ stage'[s] = first /\ ahead'[s] = candidates
      /\ written'[s] = Buy!Clean /\ locked'[s] = {} /\ unpacked'[s] = 0
      /\ \A t \in Clients \ {s} : SameRequest(t)
  BY <1>1, <1>3 DEF PurchaseSessions, SameRequest
<1>5. PurchaseSessions'
  <2>1. /\ purchase' \in [Clients -> Buy!Requests \union {Buy!Idle}]
        /\ stage' \in [Clients -> {"idle", "claim", "queue", "lines", "scan", "commit"}]
        /\ ahead' \in [Clients -> SUBSET Buy!Items]
        /\ unpacked' \in [Clients -> Nat]
        /\ written' \in [Clients -> DraftRecords]
        /\ locked' \in [Clients -> SUBSET LockRows]
    BY <1>1, <1>3 DEF PurchaseSessions
  <2>2. ASSUME NEW t \in Clients
        PROVE  /\ stage'[t] = "idle" => purchase'[t] = Buy!Idle /\ locked'[t] = {}
                                          /\ written'[t] = Buy!Clean /\ unpacked'[t] = 0
               /\ stage'[t] # "idle" => purchase'[t] \in Buy!Requests
    <3>1. CASE t = s
      BY <1>4, <3>1
    <3>2. CASE t # s
      BY <1>1, <1>4, <3>2 DEF PurchaseSessions, SameRequest
    <3>3. QED
      BY <3>1, <3>2
  <2>3. QED
    BY <2>1, <2>2 DEF PurchaseSessions
<1>6. Shape(s)'
  <2>1. CASE first = "claim"
    <3>1. Claiming(s)'
      BY <1>2, <1>3, <1>4, <2>1 DEF Claiming
    <3>2. QED
      BY <1>4, <2>1, <3>1 DEF Shape
  <2>2. CASE first = "scan"
    <3>1. Scanning(s)'
      BY <1>2, <1>4, <2>2, CleanDraft DEF Scanning, Buy!Scan
    <3>2. QED
      BY <1>4, <2>2, <3>1 DEF Shape
  <2>3. QED
    BY <2>1, <2>2
<1>7. \A t \in Clients \ {s} : Clear(s, t)'
  BY <1>1, <1>3 DEF Apart, Clear
<1>8. QED
  BY <1>3, <1>4, <1>5, <1>6, <1>7, OneMoves

LEMMA ClaimRequisitionKeeps ==
  ASSUME PurchaseInv, NEW s \in Clients, Buy!ClaimRequisition(s)
  PROVE  PurchaseInv'
<1>1. /\ PurchaseTables /\ PurchaseSessions /\ Apart /\ Refers /\ Shapes
      /\ purchase[s].op \in {"submit", "approve", "decide", "order"}
  BY DEF PurchaseInv, Buy!ClaimRequisition, Buy!From
<1>2. stage[s] = "claim" /\ Claiming(s)
  BY <1>1 DEF Buy!ClaimRequisition, Shapes, Shape
<1>3. PICK p \in Buy!Requisitions : p = Buy!Target(s)
  BY <1>1, <1>2, TargetTyped DEF Claiming
<1>4. requisitions[p] # Buy!None /\ requisitions[p] \in Buy!RequisitionRow
  <2>1. CASE purchase[s].op = "decide"
    <3>1. purchase[s].approval \in Buy!Approvals
      BY <1>1, <1>2, <2>1, PurchaseAsked DEF PurchaseSessions
    <3>2. approvals[purchase[s].approval] # Buy!None /\ p = approvals[purchase[s].approval].pr
      BY <1>2, <1>3, <2>1 DEF Claiming, Buy!Target
    <3>3. QED
      BY <1>1, <3>1, <3>2, PurchaseRows DEF Refers
  <2>2. CASE purchase[s].op # "decide"
    BY <1>1, <1>2, <1>3, <2>2, PurchaseRows DEF Claiming, Buy!Target
  <2>3. QED
    BY <2>1, <2>2
<1>5. written[s] = Buy!Clean /\ Buy!RequisitionView(s)[p] = requisitions[p]
  BY <1>1, <1>2, CleanDraft DEF Claiming, Buy!RequisitionView, Buy!Over, PurchaseTables
<1>6. PICK row \in Buy!RequisitionRow : row = [requisitions[p] EXCEPT !.status = Buy!Claimed(s)]
  <2>1. Buy!Claimed(s) \in {"Submitted", "Approved", "Rejected", "Ordered"}
    BY <1>1, <1>2, TargetTyped DEF Claiming
  <2>2. QED
    BY <1>4, <2>1 DEF Buy!RequisitionRow
<1>7. /\ Buy!Take(s, Buy!Requisition(p))
      /\ requisitions[p].status \in Buy!From[purchase[s].op]
      /\ written' = [written EXCEPT ![s].requisitions = Buy!Put(@, p, row)]
      /\ stage' = [stage EXCEPT ![s] = "queue"]
      /\ UNCHANGED <<requisitions, approvals, orders, lots, purchase, ahead, unpacked>>
  BY <1>3, <1>5, <1>6 DEF Buy!ClaimRequisition, Buy!Claimable, Buy!tables, Buy!progress
<1>8. /\ written' \in [Clients -> DraftRecords]
      /\ DOMAIN written'[s].requisitions = {p} /\ written'[s].requisitions[p] = row
      /\ written'[s].approvals = Buy!Clean.approvals
      /\ written'[s].orders = Buy!Clean.orders /\ written'[s].items = Buy!Clean.items
      /\ \A t \in Clients \ {s} : written'[t] = written[t]
  <2>1. /\ written' \in [Clients -> DraftRecords]
        /\ DOMAIN written'[s].requisitions = DOMAIN written[s].requisitions \union {p}
        /\ written'[s].requisitions[p] = row
        /\ written'[s].approvals = written[s].approvals
        /\ written'[s].orders = written[s].orders /\ written'[s].items = written[s].items
        /\ \A t \in Clients \ {s} : written'[t] = written[t]
    <3>1. WritesRequisition(s, p, row)
      BY <1>7 DEF WritesRequisition
    <3>2. QED
      BY <1>1, <3>1, RequisitionWritten
  <2>2. QED
    BY <1>5, <2>1, CleanDraft
<1>9. /\ locked' \in [Clients -> SUBSET LockRows] /\ Buy!Requisition(p) \in locked'[s]
      /\ \A t \in Clients \ {s} : /\ locked'[t] = locked[t] /\ Buy!Requisition(p) \notin locked[t]
                                  /\ locked'[s] \intersect locked'[t] = {}
  <2>1. Buy!Requisition(p) \in LockRows
    BY DEF LockRows
  <2>2. QED
    BY <1>1, <1>7, <2>1, TakeLocks
<1>10. PurchaseSessions' /\ stage'[s] = "queue" /\ \A t \in Clients \ {s} : SameRequest(t)
  <2>1. /\ ahead' \in [Clients -> SUBSET Buy!Items] /\ unpacked' \in [Clients -> Nat]
        /\ stage[s] # "idle" /\ "queue" \in Working
    BY <1>1, <1>2, <1>7 DEF PurchaseSessions, Working
  <2>2. QED
    BY <1>1, <1>7, <1>8, <1>9, <2>1, RequestMoves
<1>11. Shape(s)'
  <2>1. Buy!Target(s)' = p /\ Buy!Claimed(s)' = Buy!Claimed(s)
    BY <1>3, <1>7 DEF Buy!Target, Buy!Claimed
  <2>2. Raising(s)' /\ Blank(s)'
    BY <1>1, <1>2, <1>4, <1>6, <1>7, <1>8, <1>9, <2>1, CleanDraft DEF Raising, Blank, Claiming
  <2>3. QED
    BY <1>10, <2>2 DEF Shape
<1>12. ASSUME NEW t \in Clients \ {s}
       PROVE  Clear(s, t)'
  <2>1. Owned(t)
    BY <1>1, Owns DEF Shapes
  <2>2. p \notin DOMAIN written[t].requisitions
    BY <1>4, <1>9, <2>1 DEF Owned, OwnsRequisitions
  <2>3. QED
    BY <1>8, <1>9, <2>2, CleanDraft DEF Clear
<1>13. QED
  BY <1>7, <1>10, <1>11, <1>12, OneMoves

\* A fresh approval request is queued: the requisition had none pending.
LEMMA QueueApprovalKeeps ==
  ASSUME PurchaseInv, NEW s \in Clients, Buy!QueueApproval(s)
  PROVE  PurchaseInv'
<1>1. /\ PurchaseTables /\ PurchaseSessions /\ Apart /\ Refers /\ Shapes /\ Trails
      /\ stage[s] = "queue" /\ purchase[s].op = "submit"
  BY DEF PurchaseInv, Buy!QueueApproval
<1>2. Raising(s) /\ Blank(s)
  BY <1>1 DEF Shapes, Shape
<1>3. PICK p \in Buy!Requisitions :
        /\ p = Buy!Target(s) /\ p = purchase[s].pr
        /\ requisitions[p] # Buy!None /\ requisitions[p].status \in {"Draft", "Rejected"}
  BY <1>1, <1>2, TargetTyped DEF Raising, Buy!From
<1>4. Buy!PendingOf(Buy!ApprovalView(s), p) = {}
  <2>1. \A a \in Buy!Approvals : Buy!ApprovalView(s)[a] = approvals[a]
    BY <1>1, <1>2 DEF Blank, Buy!ApprovalView, Buy!Over, PurchaseTables
  <2>2. DOMAIN Buy!ApprovalView(s) = Buy!Approvals
    BY <1>1 DEF Buy!ApprovalView, Buy!Over, PurchaseTables
  <2>3. ASSUME NEW a \in Buy!Approvals, approvals[a].status = "Pending", approvals[a].pr = p
        PROVE  FALSE
    <3>1. a \in ApprovalsOf(p)
      BY <2>3, NoneIsNoRow DEF ApprovalsOf
    <3>2. QED
      BY <1>1, <1>3, <2>3, <3>1 DEF Trails, Trail
  <2>4. QED
    BY <2>1, <2>2, <2>3 DEF Buy!PendingOf
<1>5. PICK row \in Buy!ApprovalRow : row = [status |-> "Pending", pr |-> p]
  BY DEF Buy!ApprovalRow
<1>6. PICK a \in Buy!Approvals :
        /\ a = Buy!NextApproval
        /\ written' = [written EXCEPT ![s].approvals = Buy!Put(@, a, row)]
        /\ stage' = [stage EXCEPT ![s] = "commit"]
        /\ UNCHANGED <<requisitions, approvals, orders, lots, purchase, ahead, unpacked, locked>>
  BY <1>3, <1>4, <1>5 DEF Buy!QueueApproval, Buy!tables, Buy!progress
<1>7. /\ written' \in [Clients -> DraftRecords]
      /\ DOMAIN written'[s].approvals = DOMAIN written[s].approvals \union {a}
      /\ written'[s].approvals[a] = row
      /\ written'[s].requisitions = written[s].requisitions
      /\ written'[s].orders = written[s].orders /\ written'[s].items = written[s].items
      /\ \A t \in Clients \ {s} : written'[t] = written[t]
  <2>1. WritesApproval(s, a, row)
    BY <1>6 DEF WritesApproval
  <2>2. QED
    BY <1>1, <2>1, ApprovalWritten
<1>8. /\ approvals[a] = Buy!None /\ \A t \in Clients : a \notin DOMAIN written[t].approvals
      /\ \A b \in Buy!Approvals : approvals[b] # Buy!None => b < a
  BY <1>1, <1>6, FreshApproval
<1>9. PurchaseSessions' /\ stage'[s] = "commit" /\ \A t \in Clients \ {s} : SameRequest(t)
  <2>1. /\ ahead' \in [Clients -> SUBSET Buy!Items] /\ unpacked' \in [Clients -> Nat]
        /\ stage[s] # "idle" /\ "commit" \in Working
        /\ locked' \in [Clients -> SUBSET LockRows]
        /\ \A t \in Clients \ {s} : ahead'[t] = ahead[t] /\ unpacked'[t] = unpacked[t]
                                      /\ locked'[t] = locked[t]
    BY <1>1, <1>6 DEF PurchaseSessions, Working
  <2>2. QED
    BY <1>1, <1>6, <1>7, <2>1, RequestMoves
<1>10. Shape(s)'
  <2>1. Buy!Target(s)' = p /\ Buy!Claimed(s)' = Buy!Claimed(s)
    BY <1>3, <1>6 DEF Buy!Target, Buy!Claimed
  <2>2. Raising(s)'
    BY <1>2, <1>3, <1>6, <1>7, <2>1 DEF Raising
  <2>3. ApprovalsOf(p)' = ApprovalsOf(p) /\ \A b \in ApprovalsOf(p) : b < a
    BY <1>6, <1>8 DEF ApprovalsOf
  <2>4. DOMAIN written'[s].approvals = {a} /\ DOMAIN written'[s].orders = {}
    BY <1>2, <1>7 DEF Blank
  <2>5. Raised(s)'
    BY <1>1, <1>5, <1>6, <1>7, <1>8, <2>1, <2>3, <2>4 DEF Raised
  <2>6. QED
    BY <1>9, <2>2, <2>5 DEF Shape
<1>11. ASSUME NEW t \in Clients \ {s}
       PROVE  Clear(s, t)'
  <2>1. Clear(s, t)
    BY <1>1 DEF Apart
  <2>2. QED
    BY <1>6, <1>7, <1>8, <2>1 DEF Clear
<1>12. QED
  BY <1>6, <1>9, <1>10, <1>11, OneMoves

\* The pending request of a requisition is written as decided.
LEMMA ApprovalDecided ==
  ASSUME PurchaseInv, NEW s \in Clients, stage[s] = "queue",
         purchase[s].op \in {"approve", "decide"},
         NEW p, p = Buy!Target(s), NEW a \in ApprovalsOf(p), approvals[a].status = "Pending",
         Buy!Take(s, Buy!Approval(a)),
         written' = [written EXCEPT ![s].approvals =
                       Buy!Put(@, a, [status |-> Buy!Claimed(s), pr |-> p])],
         stage' = [stage EXCEPT ![s] = "commit"],
         UNCHANGED <<requisitions, approvals, orders, lots, purchase, ahead, unpacked>>
  PROVE  PurchaseInv'
<1>1. PurchaseTables /\ PurchaseSessions /\ Apart /\ Shapes /\ a \in Buy!Approvals
  BY DEF PurchaseInv, ApprovalsOf
<1>2. Raising(s) /\ Blank(s)
  BY <1>1 DEF Shapes, Shape
<1>3. p \in Buy!Requisitions /\ Buy!Claimed(s) \in {"Approved", "Rejected"}
  <2>1. p \in Buy!Requisitions
    BY <1>1, <1>2, TargetTyped DEF Raising
  <2>2. purchase[s] \in Buy!Requests
    BY <1>1 DEF PurchaseSessions
  <2>3. QED
    BY <2>1, <2>2, PurchaseAsked DEF Buy!Claimed
<1>4. PICK row \in Buy!ApprovalRow : row = [status |-> Buy!Claimed(s), pr |-> p]
  BY <1>3 DEF Buy!ApprovalRow
<1>5. /\ written' \in [Clients -> DraftRecords]
      /\ DOMAIN written'[s].approvals = DOMAIN written[s].approvals \union {a}
      /\ written'[s].approvals[a] = row
      /\ written'[s].requisitions = written[s].requisitions
      /\ written'[s].orders = written[s].orders /\ written'[s].items = written[s].items
      /\ \A t \in Clients \ {s} : written'[t] = written[t]
  <2>1. WritesApproval(s, a, row)
    BY <1>4 DEF WritesApproval
  <2>2. QED
    BY <1>1, <2>1, ApprovalWritten
<1>6. /\ locked' \in [Clients -> SUBSET LockRows]
      /\ locked'[s] = locked[s] \union {Buy!Approval(a)}
      /\ \A t \in Clients \ {s} : /\ locked'[t] = locked[t] /\ Buy!Approval(a) \notin locked[t]
                                  /\ locked'[s] \intersect locked'[t] = {}
  <2>1. Buy!Approval(a) \in LockRows
    BY <1>1 DEF LockRows
  <2>2. QED
    BY <1>1, <2>1, TakeLocks
<1>7. PurchaseSessions' /\ stage'[s] = "commit" /\ \A t \in Clients \ {s} : SameRequest(t)
  <2>1. /\ ahead' \in [Clients -> SUBSET Buy!Items] /\ unpacked' \in [Clients -> Nat]
        /\ stage[s] # "idle" /\ "commit" \in Working
    BY <1>1 DEF PurchaseSessions, Working
  <2>2. QED
    BY <1>1, <1>5, <1>6, <2>1, RequestMoves
<1>8. Shape(s)'
  <2>1. Buy!Target(s)' = p /\ Buy!Claimed(s)' = Buy!Claimed(s)
    BY DEF Buy!Target, Buy!Claimed
  <2>2. Raising(s)'
    BY <1>2, <1>5, <1>6, <2>1 DEF Raising
  <2>3. a \in ApprovalsOf(p)'
    BY DEF ApprovalsOf
  <2>4. DOMAIN written'[s].approvals = {a} /\ DOMAIN written'[s].orders = {}
    BY <1>2, <1>5 DEF Blank
  <2>5. Raised(s)'
    BY <1>4, <1>5, <1>6, <2>1, <2>3, <2>4 DEF Raised
  <2>6. QED
    BY <1>7, <2>2, <2>5 DEF Shape
<1>9. ASSUME NEW t \in Clients \ {s}
      PROVE  Clear(s, t)'
  <2>1. Clear(s, t) /\ Owned(t)
    BY <1>1, Owns DEF Apart, Shapes
  <2>2. a \notin DOMAIN written[t].approvals
    BY <1>6, <2>1 DEF Owned, OwnsApprovals, ApprovalsOf
  <2>3. QED
    BY <1>5, <1>6, <2>1, <2>2 DEF Clear
<1>10. QED
  BY <1>7, <1>8, <1>9, OneMoves

LEMMA DecideApprovalKeeps ==
  ASSUME PurchaseInv, NEW s \in Clients, Buy!DecideApproval(s)
  PROVE  PurchaseInv'
<1>1. /\ PurchaseTables /\ PurchaseSessions /\ Shapes
      /\ stage[s] = "queue" /\ purchase[s].op = "decide"
  BY DEF PurchaseInv, Buy!DecideApproval
<1>2. Raising(s) /\ Blank(s)
  BY <1>1 DEF Shapes, Shape
<1>3. PICK a \in Buy!Approvals : a = purchase[s].approval
  BY <1>1, PurchaseAsked DEF PurchaseSessions
<1>4. PICK p : p = Buy!Target(s)
  OBVIOUS
<1>5. approvals[a] # Buy!None /\ approvals[a] \in Buy!ApprovalRow /\ approvals[a].pr = p
  BY <1>1, <1>2, <1>3, <1>4, PurchaseRows DEF Raising, Buy!Target
<1>6. Buy!ApprovalView(s)[a] = approvals[a]
  BY <1>1, <1>2 DEF Blank, Buy!ApprovalView, Buy!Over, PurchaseTables
<1>7. approvals[a].status = "Pending" /\ a \in ApprovalsOf(p)
  BY <1>3, <1>5, <1>6 DEF Buy!DecideApproval, Buy!StillPending, ApprovalsOf
<1>8. [approvals[a] EXCEPT !.status = purchase[s].as] = [status |-> Buy!Claimed(s), pr |-> p]
  BY <1>1, <1>5 DEF Buy!ApprovalRow, Buy!Claimed
<1>9. /\ Buy!Take(s, Buy!Approval(a))
      /\ written' = [written EXCEPT ![s].approvals =
                       Buy!Put(@, a, [status |-> Buy!Claimed(s), pr |-> p])]
      /\ stage' = [stage EXCEPT ![s] = "commit"]
      /\ UNCHANGED <<requisitions, approvals, orders, lots, purchase, ahead, unpacked>>
  BY <1>3, <1>6, <1>8 DEF Buy!DecideApproval, Buy!tables, Buy!progress
<1>10. QED
  BY <1>1, <1>4, <1>7, <1>9, ApprovalDecided

\* A submitted requisition has a pending request, so that approval resolves one.
LEMMA ResolveApprovalKeeps ==
  ASSUME PurchaseInv, NEW s \in Clients, Buy!ResolveApproval(s)
  PROVE  PurchaseInv'
<1>1. /\ PurchaseTables /\ PurchaseSessions /\ Shapes /\ Trails
      /\ stage[s] = "queue" /\ purchase[s].op = "approve"
  BY DEF PurchaseInv, Buy!ResolveApproval
<1>2. Raising(s) /\ Blank(s)
  BY <1>1 DEF Shapes, Shape
<1>3. PICK p \in Buy!Requisitions :
        /\ p = Buy!Target(s) /\ p = purchase[s].pr
        /\ requisitions[p] # Buy!None /\ requisitions[p].status = "Submitted"
  BY <1>1, <1>2, TargetTyped DEF Raising, Buy!From
<1>4. PICK P : P = Buy!PendingOf(Buy!ApprovalView(s), p)
  OBVIOUS
<1>5. P = {a \in ApprovalsOf(p) : approvals[a].status = "Pending"}
  <2>1. \A a \in Buy!Approvals : Buy!ApprovalView(s)[a] = approvals[a]
    BY <1>1, <1>2 DEF Blank, Buy!ApprovalView, Buy!Over, PurchaseTables
  <2>2. DOMAIN Buy!ApprovalView(s) = Buy!Approvals
    BY <1>1 DEF Buy!ApprovalView, Buy!Over, PurchaseTables
  <2>3. QED
    BY <1>4, <2>1, <2>2, NoneIsNoRow DEF Buy!PendingOf, ApprovalsOf
<1>6. P # {} /\ P \subseteq Buy!Approvals
  BY <1>1, <1>3, <1>5 DEF Trails, Trail, ApprovalsOf
<1>7. Buy!Max(P) \in P
  <2>1. IsFiniteSet(Buy!Approvals) /\ Buy!Approvals \subseteq Int
    BY FS_Interval, PurchaseAssumption DEF PurchaseAssumption, Buy!Approvals
  <2>2. IsFiniteSet(P) /\ P \subseteq Int
    BY <1>6, <2>1, FS_Subset
  <2>3. QED
    BY <1>6, <2>2, BuyMax
<1>8. PICK a \in ApprovalsOf(p) : a = Buy!Max(P) /\ approvals[a].status = "Pending"
  BY <1>5, <1>7
<1>9. Buy!Claimed(s) = "Approved"
  BY <1>1 DEF Buy!Claimed
<1>10. /\ Buy!Take(s, Buy!Approval(a))
       /\ written' = [written EXCEPT ![s].approvals =
                        Buy!Put(@, a, [status |-> Buy!Claimed(s), pr |-> p])]
       /\ stage' = [stage EXCEPT ![s] = "commit"]
       /\ UNCHANGED <<requisitions, approvals, orders, lots, purchase, ahead, unpacked>>
  BY <1>3, <1>4, <1>6, <1>8, <1>9 DEF Buy!ResolveApproval, Buy!tables, Buy!progress
<1>11. QED
  BY <1>1, <1>3, <1>8, <1>10, ApprovalDecided

LEMMA PlaceOrderKeeps ==
  ASSUME PurchaseInv, NEW s \in Clients, Buy!PlaceOrder(s)
  PROVE  PurchaseInv'
<1>1. /\ PurchaseTables /\ PurchaseSessions /\ Apart /\ Shapes
      /\ stage[s] = "queue" /\ purchase[s].op = "order"
  BY DEF PurchaseInv, Buy!PlaceOrder
<1>2. Raising(s) /\ Blank(s)
  BY <1>1 DEF Shapes, Shape
<1>3. PICK p \in Buy!Requisitions :
        /\ p = Buy!Target(s) /\ p = purchase[s].pr
        /\ requisitions[p] # Buy!None /\ p \in DOMAIN written[s].requisitions
        /\ written[s].requisitions[p] = [requisitions[p] EXCEPT !.status = Buy!Claimed(s)]
  BY <1>1, <1>2, TargetTyped DEF Raising
<1>4. requisitions[p] \in Buy!RequisitionRow
  BY <1>1, <1>3, PurchaseRows
<1>5. Buy!RequisitionView(s)[p].lines = requisitions[p].lines
  <2>1. Buy!RequisitionView(s)[p] = written[s].requisitions[p]
    BY <1>1, <1>3 DEF Buy!RequisitionView, Buy!Over, PurchaseTables
  <2>2. QED
    BY <1>3, <1>4, <2>1 DEF Buy!RequisitionRow
<1>6. PICK row \in Buy!OrderRow :
        row = [status |-> "Ordered", pr |-> p, lines |-> requisitions[p].lines]
  BY <1>4 DEF Buy!OrderRow, Buy!RequisitionRow
<1>7. PICK o \in Buy!Orders :
        /\ o = Buy!NextOrder
        /\ written' = [written EXCEPT ![s].orders = Buy!Put(@, o, row)]
        /\ stage' = [stage EXCEPT ![s] = "commit"]
        /\ UNCHANGED <<requisitions, approvals, orders, lots, purchase, ahead, unpacked, locked>>
  BY <1>3, <1>5, <1>6 DEF Buy!PlaceOrder, Buy!tables, Buy!progress
<1>8. /\ written' \in [Clients -> DraftRecords]
      /\ DOMAIN written'[s].orders = DOMAIN written[s].orders \union {o}
      /\ written'[s].orders[o] = row
      /\ written'[s].requisitions = written[s].requisitions
      /\ written'[s].approvals = written[s].approvals /\ written'[s].items = written[s].items
      /\ \A t \in Clients \ {s} : written'[t] = written[t]
  <2>1. WritesOrder(s, o, row)
    BY <1>7 DEF WritesOrder
  <2>2. QED
    BY <1>1, <2>1, OrderWritten
<1>9. orders[o] = Buy!None /\ \A t \in Clients : o \notin DOMAIN written[t].orders
  BY <1>1, <1>7, FreshOrder
<1>10. PurchaseSessions' /\ stage'[s] = "commit" /\ \A t \in Clients \ {s} : SameRequest(t)
  <2>1. /\ ahead' \in [Clients -> SUBSET Buy!Items] /\ unpacked' \in [Clients -> Nat]
        /\ stage[s] # "idle" /\ "commit" \in Working
        /\ locked' \in [Clients -> SUBSET LockRows]
        /\ \A t \in Clients \ {s} : ahead'[t] = ahead[t] /\ unpacked'[t] = unpacked[t]
                                      /\ locked'[t] = locked[t]
    BY <1>1, <1>7 DEF PurchaseSessions, Working
  <2>2. QED
    BY <1>1, <1>7, <1>8, <2>1, RequestMoves
<1>11. Shape(s)'
  <2>1. Buy!Target(s)' = p /\ Buy!Claimed(s)' = Buy!Claimed(s)
    BY <1>3, <1>7 DEF Buy!Target, Buy!Claimed
  <2>2. Raising(s)'
    BY <1>2, <1>3, <1>7, <1>8, <2>1 DEF Raising
  <2>3. DOMAIN written'[s].orders = {o} /\ DOMAIN written'[s].approvals = {}
    BY <1>2, <1>8 DEF Blank
  <2>4. Raised(s)'
    BY <1>1, <1>6, <1>7, <1>8, <1>9, <2>1, <2>3 DEF Raised
  <2>5. QED
    BY <1>10, <2>2, <2>4 DEF Shape
<1>12. ASSUME NEW t \in Clients \ {s}
       PROVE  Clear(s, t)'
  <2>1. Clear(s, t)
    BY <1>1 DEF Apart
  <2>2. QED
    BY <1>7, <1>8, <1>9, <2>1 DEF Clear
<1>13. QED
  BY <1>7, <1>10, <1>11, <1>12, OneMoves

-----------------------------------------------------------------------------
\* Orders are received, line by line.

LEMMA UnitsCounted ==
  ASSUME NEW lines \in Seq(Buy!Lines), NEW k \in Nat, k <= Len(lines), NEW i
  PROVE  /\ IsFiniteSet({n \in 1..k : lines[n].item = i})
         /\ \A n \in 1..k : n \in DOMAIN lines /\ lines[n].qty \in Nat
         /\ Cardinality(UnitsUpTo(lines, i, k)) \in Nat
<1> DEFINE S == {n \in 1..k : lines[n].item = i}
           f == [n \in DOMAIN lines |-> lines[n].qty]
<1>1. IsFiniteSet(1..k)
  BY FS_Interval
<1>2. IsFiniteSet(S)
  BY <1>1, FS_Subset
<1>3. \A n \in 1..k : n \in DOMAIN lines /\ lines[n].qty \in Nat
  <2>1. \A n \in 1..k : n \in 1..Len(lines)
    OBVIOUS
  <2>2. \A n \in 1..Len(lines) : lines[n] \in Buy!Lines
    BY ElementOfSeq
  <2>3. QED
    BY <2>1, <2>2 DEF Buy!Lines
<1>4. \A n \in S : f[n] \in Nat
  BY <1>3
<1>5. Cardinality(Units(S, f)) \in Nat
  <2> HIDE DEF S, f
  <2>1. QED
    BY <1>2, <1>4, UnitsFinite
<1>6. QED
  BY <1>2, <1>3, <1>5 DEF UnitsUpTo

LEMMA NoUnitsYet ==
  ASSUME NEW lines, NEW i
  PROVE  Cardinality(UnitsUpTo(lines, i, 0)) = 0
<1>1. {n \in 1..0 : lines[n].item = i} = {}
  OBVIOUS
<1>2. UnitsUpTo(lines, i, 0) = {}
  BY <1>1 DEF UnitsUpTo, Units
<1>3. QED
  BY <1>2, FS_EmptySet

LEMMA LineCounted ==
  ASSUME NEW lines \in Seq(Buy!Lines), NEW k \in Nat, k < Len(lines), NEW i
  PROVE  /\ lines[k + 1].item = i =>
              Cardinality(UnitsUpTo(lines, i, k + 1)) =
                Cardinality(UnitsUpTo(lines, i, k)) + lines[k + 1].qty
         /\ lines[k + 1].item # i => UnitsUpTo(lines, i, k + 1) = UnitsUpTo(lines, i, k)
<1> DEFINE S == {n \in 1..k : lines[n].item = i}
           T == {n \in 1..(k + 1) : lines[n].item = i}
           f == [n \in DOMAIN lines |-> lines[n].qty]
<1>1. k <= Len(lines) /\ k + 1 \in 1..Len(lines) /\ DOMAIN lines = 1..Len(lines)
  OBVIOUS
<1>2. IsFiniteSet(S) /\ \A n \in 1..k : n \in DOMAIN lines /\ lines[n].qty \in Nat
  BY <1>1, UnitsCounted
<1>3. lines[k + 1] \in Buy!Lines
  BY <1>1
<1>4. \A n \in S : f[n] \in Nat
  BY <1>2
<1>5. f[k + 1] = lines[k + 1].qty /\ f[k + 1] \in Nat
  BY <1>1, <1>3 DEF Buy!Lines
<1>6. 1..(k + 1) = (1..k) \union {k + 1} /\ k + 1 \notin 1..k
  OBVIOUS
<1>7. ASSUME lines[k + 1].item = i
      PROVE  Cardinality(UnitsUpTo(lines, i, k + 1)) =
               Cardinality(UnitsUpTo(lines, i, k)) + lines[k + 1].qty
  <2>1. T = S \union {k + 1} /\ k + 1 \notin S
    BY <1>6, <1>7
  <2>2. Cardinality(Units(S \union {k + 1}, f)) = Cardinality(Units(S, f)) + f[k + 1]
    <3>1. PICK V, g, x : V = S /\ g = f /\ x = k + 1
      OBVIOUS
    <3>2. IsFiniteSet(V) /\ x \notin V /\ g[x] \in Nat /\ \A y \in V : g[y] \in Nat
      BY <1>2, <1>4, <1>5, <2>1, <3>1
    <3>3. Cardinality(Units(V \union {x}, g)) = Cardinality(Units(V, g)) + g[x]
      BY <3>2, UnitsAdded
    <3>4. QED
      BY <3>1, <3>3
  <2>3. QED
    BY <1>5, <2>1, <2>2 DEF UnitsUpTo
<1>8. ASSUME lines[k + 1].item # i
      PROVE  UnitsUpTo(lines, i, k + 1) = UnitsUpTo(lines, i, k)
  <2>1. T = S
    BY <1>6, <1>8
  <2>2. QED
    BY <2>1 DEF UnitsUpTo
<1>9. QED
  BY <1>7, <1>8

LEMMA StockBooked ==
  ASSUME NEW row \in Buy!ItemRow, NEW m \in Nat
  PROVE  [row EXCEPT !.stock = @ + m, !.received = @ + m] =
           [stock |-> row.stock + m, received |-> row.received + m, issued |-> row.issued]
<1>1. PICK x \in Int, y \in Nat : x = row.stock + m /\ y = row.received + m
  BY DEF Buy!ItemRow
<1>2. PICK r : r = [row EXCEPT !.stock = x, !.received = y]
  OBVIOUS
<1>3. r.stock = x /\ r.received = y /\ r.issued = row.issued /\ r \in Buy!ItemRow
  BY <1>2 DEF Buy!ItemRow
<1>4. r = [stock |-> x, received |-> y, issued |-> row.issued]
  BY <1>3 DEF Buy!ItemRow
<1>5. QED
  BY <1>1, <1>2, <1>4

LEMMA ClaimOrderKeeps ==
  ASSUME PurchaseInv, NEW s \in Clients, Buy!ClaimOrder(s)
  PROVE  PurchaseInv'
<1>1. /\ PurchaseTables /\ PurchaseSessions /\ Apart /\ Shapes
      /\ stage[s] = "claim" /\ purchase[s].op = "receive"
  BY DEF PurchaseInv, Buy!ClaimOrder
<1>2. Claiming(s)
  BY <1>1 DEF Shapes, Shape
<1>3. PICK o \in Buy!Orders : o = purchase[s].order
  BY <1>1, PurchaseAsked DEF PurchaseSessions
<1>4. orders[o] # Buy!None /\ orders[o] \in Buy!OrderRow
  BY <1>1, <1>2, <1>3, PurchaseRows DEF Claiming
<1>5. written[s] = Buy!Clean /\ unpacked[s] = 0 /\ Buy!OrderView(s)[o] = orders[o]
  BY <1>1, <1>2, CleanDraft DEF Claiming, Buy!OrderView, Buy!Over, PurchaseTables
<1>6. PICK row \in Buy!OrderRow : row = [orders[o] EXCEPT !.status = "Received"]
  BY <1>4 DEF Buy!OrderRow
<1>7. /\ Buy!Take(s, Buy!Order(o)) /\ orders[o].status = "Ordered"
      /\ written' = [written EXCEPT ![s].orders = Buy!Put(@, o, row)]
      /\ stage' = [stage EXCEPT ![s] = "lines"]
      /\ UNCHANGED <<requisitions, approvals, orders, lots, purchase, ahead, unpacked>>
  BY <1>3, <1>5, <1>6 DEF Buy!ClaimOrder, Buy!Receivable, Buy!tables, Buy!progress
<1>8. /\ written' \in [Clients -> DraftRecords]
      /\ DOMAIN written'[s].orders = DOMAIN written[s].orders \union {o}
      /\ written'[s].orders[o] = row
      /\ written'[s].requisitions = written[s].requisitions
      /\ written'[s].approvals = written[s].approvals /\ written'[s].items = written[s].items
      /\ \A t \in Clients \ {s} : written'[t] = written[t]
  <2>1. WritesOrder(s, o, row)
    BY <1>7 DEF WritesOrder
  <2>2. QED
    BY <1>1, <2>1, OrderWritten
<1>9. /\ locked' \in [Clients -> SUBSET LockRows]
      /\ locked'[s] = locked[s] \union {Buy!Order(o)}
      /\ \A t \in Clients \ {s} : /\ locked'[t] = locked[t] /\ Buy!Order(o) \notin locked[t]
                                  /\ locked'[s] \intersect locked'[t] = {}
  <2>1. Buy!Order(o) \in LockRows
    BY DEF LockRows
  <2>2. QED
    BY <1>1, <1>7, <2>1, TakeLocks
<1>10. PurchaseSessions' /\ stage'[s] = "lines" /\ \A t \in Clients \ {s} : SameRequest(t)
  <2>1. /\ ahead' \in [Clients -> SUBSET Buy!Items] /\ unpacked' \in [Clients -> Nat]
        /\ stage[s] # "idle" /\ "lines" \in Working
    BY <1>1, <1>7 DEF PurchaseSessions, Working
  <2>2. QED
    BY <1>1, <1>7, <1>8, <1>9, <2>1, RequestMoves
<1>11. Shape(s)'
  <2>1. /\ DOMAIN written'[s].orders = {o} /\ DOMAIN written'[s].items = {}
        /\ DOMAIN written'[s].approvals = {} /\ DOMAIN written'[s].requisitions = {}
    BY <1>5, <1>8, CleanDraft
  <2>2. unpacked'[s] = 0 /\ 0 <= Len(orders[o].lines)
    BY <1>4, <1>5, <1>7 DEF Buy!OrderRow
  <2>3. \A i \in Buy!Items : Cardinality(UnitsUpTo(orders[o].lines, i, 0)) = 0
    BY NoUnitsYet
  <2>4. Receiving(s)'
    BY <1>1, <1>3, <1>4, <1>6, <1>7, <1>8, <1>9, <2>1, <2>2, <2>3 DEF Receiving
  <2>5. QED
    BY <1>10, <2>1, <2>4 DEF Shape
<1>12. ASSUME NEW t \in Clients \ {s}
       PROVE  Clear(s, t)'
  <2>1. Clear(s, t) /\ Owned(t)
    BY <1>1, Owns DEF Apart, Shapes
  <2>2. o \notin DOMAIN written[t].orders
    BY <1>4, <1>9, <2>1 DEF Owned, OwnsOrders
  <2>3. QED
    BY <1>8, <1>9, <2>1, <2>2 DEF Clear
<1>13. QED
  BY <1>7, <1>10, <1>11, <1>12, OneMoves

\* What a receipt is about.
LEMMA OrderAtHand ==
  ASSUME PurchaseTables, PurchaseSessions, NEW s \in Clients, stage[s] # "idle", Receiving(s)
  PROVE  /\ purchase[s].order \in Buy!Orders
         /\ orders[purchase[s].order] \in Buy!OrderRow
         /\ orders[purchase[s].order].lines \in Seq(Buy!Lines)
         /\ orders[purchase[s].order].pr \in Buy!Requisitions
         /\ Buy!OrderLines(s) = orders[purchase[s].order].lines
         /\ Buy!OrderView(s)[purchase[s].order].pr = orders[purchase[s].order].pr
<1>1. PICK o \in Buy!Orders : o = purchase[s].order
  BY PurchaseAsked DEF Receiving, PurchaseSessions
<1>2. orders[o] \in Buy!OrderRow
  BY <1>1, PurchaseRows DEF Receiving
<1>3. Buy!OrderView(s)[o] = [orders[o] EXCEPT !.status = "Received"]
  BY <1>1 DEF Receiving, Buy!OrderView, Buy!Over, PurchaseTables
<1>4. Buy!OrderView(s)[o].lines = orders[o].lines /\ Buy!OrderView(s)[o].pr = orders[o].pr
  BY <1>2, <1>3 DEF Buy!OrderRow
<1>5. QED
  BY <1>1, <1>2, <1>4 DEF Buy!OrderLines, Buy!OrderRow

LEMMA ReceiveLineKeeps ==
  ASSUME PurchaseInv, NEW s \in Clients, Buy!ReceiveLine(s)
  PROVE  PurchaseInv'
<1>1. /\ PurchaseTables /\ PurchaseSessions /\ Apart /\ Shapes
      /\ stage[s] = "lines"
  BY DEF PurchaseInv, Buy!ReceiveLine
<1>2. Receiving(s) /\ DOMAIN written[s].requisitions = {}
  BY <1>1 DEF Shapes, Shape
<1>3. PICK o \in Buy!Orders, lines \in Seq(Buy!Lines), k \in Nat :
        o = purchase[s].order /\ lines = orders[o].lines /\ k = unpacked[s]
  BY <1>1, <1>2, OrderAtHand DEF PurchaseSessions
<1>4. Buy!OrderLines(s) = lines /\ k < Len(lines)
  BY <1>1, <1>2, <1>3, OrderAtHand DEF Buy!ReceiveLine
<1>5. PICK line \in Buy!Lines : line = lines[k + 1]
  BY <1>4
<1>6. /\ unpacked' = [unpacked EXCEPT ![s] = @ + 1]
      /\ UNCHANGED <<requisitions, approvals, orders, lots, purchase, stage, ahead>>
      /\ \/ line.item = Buy!NotStocked /\ UNCHANGED <<written, locked>>
         \/ /\ line.item # Buy!NotStocked /\ Buy!Take(s, Buy!Item(line.item))
            /\ written' = [written EXCEPT ![s].items =
                             Buy!Put(@, line.item, Buy!Received(s, line))]
  BY <1>3, <1>4, <1>5 DEF Buy!ReceiveLine, Buy!tables
<1>7. /\ unpacked' \in [Clients -> Nat] /\ unpacked'[s] = k + 1
      /\ \A t \in Clients \ {s} : unpacked'[t] = unpacked[t]
      /\ stage' = [stage EXCEPT ![s] = "lines"] /\ "lines" \in Working
      /\ ahead' \in [Clients -> SUBSET Buy!Items] /\ stage[s] # "idle"
  BY <1>1, <1>3, <1>6 DEF PurchaseSessions, Working
<1>8. /\ orders[o] # Buy!None /\ orders[o].status = "Ordered" /\ Buy!Order(o) \in locked[s]
      /\ DOMAIN written[s].orders = {o}
      /\ written[s].orders[o] = [orders[o] EXCEPT !.status = "Received"]
      /\ DOMAIN written[s].approvals = {}
      /\ purchase[s].op = "receive"
  BY <1>2, <1>3 DEF Receiving
<1>9. ASSUME NEW i \in Buy!Items
      PROVE  LET n == Cardinality(UnitsUpTo(lines, i, k)) IN
             /\ n \in Nat
             /\ IF i \in DOMAIN written[s].items
                  THEN /\ Buy!Item(i) \in locked[s]
                       /\ written[s].items[i] = [lots[i] EXCEPT !.stock = @ + n, !.received = @ + n]
                  ELSE n = 0
  BY <1>2, <1>3, <1>4, UnitsCounted DEF Receiving
<1>10. CASE line.item = Buy!NotStocked /\ UNCHANGED <<written, locked>>
  <2>1. \A i \in Buy!Items : Cardinality(UnitsUpTo(lines, i, k + 1)) = Cardinality(UnitsUpTo(lines, i, k))
    <3>1. ASSUME NEW i \in Buy!Items
          PROVE  Cardinality(UnitsUpTo(lines, i, k + 1)) = Cardinality(UnitsUpTo(lines, i, k))
      <4>1. lines[k + 1].item # i
        BY <1>5, <1>10 DEF Buy!NotStocked, Buy!Items
      <4>2. QED
        <5>1. UnitsUpTo(lines, i, k + 1) = UnitsUpTo(lines, i, k)
          BY <1>4, <4>1, LineCounted
        <5>2. QED
          BY <5>1
    <3>2. QED
      BY <3>1
  <2>2. PurchaseSessions' /\ stage'[s] = "lines" /\ \A t \in Clients \ {s} : SameRequest(t)
    <3>1. /\ written' \in [Clients -> DraftRecords] /\ locked' \in [Clients -> SUBSET LockRows]
          /\ \A t \in Clients \ {s} : written'[t] = written[t] /\ locked'[t] = locked[t]
      BY <1>1, <1>10 DEF PurchaseSessions
    <3>2. QED
      BY <1>1, <1>6, <1>7, <3>1, RequestMoves
  <2>3. Receiving(s)'
    <3>1. k + 1 <= Len(lines)
      BY <1>4
    <3>2. QED
      BY <1>3, <1>6, <1>7, <1>8, <1>9, <1>10, <2>1, <3>1 DEF Receiving
  <2>4. Shape(s)'
    BY <1>2, <1>10, <2>2, <2>3 DEF Shape
  <2>5. \A t \in Clients \ {s} : Clear(s, t)'
    BY <1>1, <1>10 DEF Apart, Clear
  <2>6. QED
    BY <1>6, <2>2, <2>4, <2>5, OneMoves
<1>11. CASE /\ line.item # Buy!NotStocked /\ Buy!Take(s, Buy!Item(line.item))
            /\ written' = [written EXCEPT ![s].items =
                             Buy!Put(@, line.item, Buy!Received(s, line))]
  <2>1. PICK x \in Buy!Items : x = line.item
    BY <1>11 DEF Buy!Lines
  <2>2. PICK n \in Nat : n = Cardinality(UnitsUpTo(lines, x, k))
    BY <1>9
  <2>3. PICK q \in Nat : q = line.qty
    BY DEF Buy!Lines
  <2>4. lots[x] \in Buy!ItemRow
    BY <1>1, PurchaseRows
  <2>5. PICK stock \in Int, received \in Nat, issued \in Nat :
          lots[x] = [stock |-> stock, received |-> received, issued |-> issued]
    BY <2>4 DEF Buy!ItemRow
  <2>6. \A m \in Nat : [lots[x] EXCEPT !.stock = @ + m, !.received = @ + m] =
          [stock |-> stock + m, received |-> received + m, issued |-> issued]
    <3>1. PICK lot \in Buy!ItemRow : lot = lots[x]
      BY <2>4
    <3>2. lot.stock = stock /\ lot.received = received /\ lot.issued = issued
      BY <2>5, <3>1
    <3>3. \A m \in Nat : [lot EXCEPT !.stock = @ + m, !.received = @ + m] =
            [stock |-> lot.stock + m, received |-> lot.received + m, issued |-> lot.issued]
      BY StockBooked
    <3>4. QED
      BY <3>1, <3>2, <3>3
  <2>7. Buy!ItemView(s)[x] = [stock |-> stock + n, received |-> received + n, issued |-> issued]
    <3>1. Buy!ItemView(s)[x] =
            IF x \in DOMAIN written[s].items THEN written[s].items[x] ELSE lots[x]
      BY <1>1 DEF Buy!ItemView, Buy!Over, PurchaseTables
    <3>2. CASE x \in DOMAIN written[s].items
      BY <1>9, <2>2, <2>6, <3>1, <3>2
    <3>3. CASE x \notin DOMAIN written[s].items
      <4>1. n = 0
        BY <1>9, <2>2, <3>3
      <4>2. stock + n = stock /\ received + n = received
        BY <4>1
      <4>3. QED
        BY <2>5, <3>1, <3>3, <4>2
    <3>4. QED
      BY <3>2, <3>3
  <2>8. n + q \in Nat /\ (stock + n) + q = stock + (n + q)
        /\ (received + n) + q = received + (n + q)
        /\ stock + (n + q) \in Int /\ received + (n + q) \in Nat
    OBVIOUS
  <2>9. PICK row \in Buy!ItemRow :
          /\ row = Buy!Received(s, line)
          /\ row = [lots[x] EXCEPT !.stock = @ + (n + q), !.received = @ + (n + q)]
    <3>1. Buy!Received(s, line) =
            [stock |-> (stock + n) + q, received |-> (received + n) + q, issued |-> issued]
      <4>1. PICK view \in Buy!ItemRow : /\ view = Buy!ItemView(s)[x] /\ view.stock = stock + n
                                        /\ view.received = received + n /\ view.issued = issued
        BY <2>7 DEF Buy!ItemRow
      <4>2. Buy!Received(s, line) = [view EXCEPT !.stock = @ + q, !.received = @ + q]
        BY <2>1, <2>3, <4>1 DEF Buy!Received
      <4>3. QED
        BY <4>1, <4>2, StockBooked
    <3>2. Buy!Received(s, line) =
            [stock |-> stock + (n + q), received |-> received + (n + q), issued |-> issued]
      BY <2>8, <3>1
    <3>3. Buy!Received(s, line) \in Buy!ItemRow
      BY <2>8, <3>2 DEF Buy!ItemRow
    <3>4. QED
      BY <2>6, <2>8, <3>2, <3>3
  <2>10. /\ written' \in [Clients -> DraftRecords]
         /\ DOMAIN written'[s].items = DOMAIN written[s].items \union {x}
         /\ written'[s].items[x] = row
         /\ \A y \in DOMAIN written[s].items : y # x => written'[s].items[y] = written[s].items[y]
         /\ written'[s].requisitions = written[s].requisitions
         /\ written'[s].approvals = written[s].approvals
         /\ written'[s].orders = written[s].orders
         /\ \A t \in Clients \ {s} : written'[t] = written[t]
    <3>1. WritesItem(s, x, row)
      BY <1>11, <2>1, <2>9 DEF WritesItem
    <3>2. QED
      BY <1>1, <3>1, ItemWritten
  <2>11. /\ locked' \in [Clients -> SUBSET LockRows]
         /\ locked'[s] = locked[s] \union {Buy!Item(x)}
         /\ \A t \in Clients \ {s} : /\ locked'[t] = locked[t]
                                     /\ locked'[s] \intersect locked'[t] = {}
    <3>1. Buy!Item(x) \in LockRows /\ Buy!Take(s, Buy!Item(x))
      BY <1>11, <2>1 DEF LockRows
    <3>2. QED
      BY <1>1, <3>1, TakeLocks
  <2>12. PurchaseSessions' /\ stage'[s] = "lines" /\ \A t \in Clients \ {s} : SameRequest(t)
    BY <1>1, <1>6, <1>7, <2>10, <2>11, RequestMoves
  <2>13. ASSUME NEW i \in Buy!Items
         PROVE  LET m == Cardinality(UnitsUpTo(lines, i, k + 1)) IN
                IF i \in DOMAIN written'[s].items
                  THEN /\ Buy!Item(i) \in locked'[s]
                       /\ written'[s].items[i] =
                            [lots[i] EXCEPT !.stock = @ + m, !.received = @ + m]
                  ELSE m = 0
    <3>1. CASE i = x
      <4>1. Cardinality(UnitsUpTo(lines, i, k + 1)) = n + q
        BY <1>4, <1>5, <2>1, <2>2, <2>3, <3>1, LineCounted
      <4>2. QED
        BY <2>9, <2>10, <2>11, <3>1, <4>1
    <3>2. CASE i # x
      <4>1. UnitsUpTo(lines, i, k + 1) = UnitsUpTo(lines, i, k)
        BY <1>4, <1>5, <2>1, <3>2, LineCounted
      <4>2. QED
        BY <1>9, <2>10, <2>11, <3>2, <4>1
    <3>3. QED
      BY <3>1, <3>2
  <2>14. Receiving(s)'
    <3>1. k + 1 <= Len(lines)
      BY <1>4
    <3>2. QED
      BY <1>3, <1>6, <1>7, <1>8, <2>10, <2>11, <2>13, <3>1 DEF Receiving
  <2>15. Shape(s)'
    BY <1>2, <2>10, <2>12, <2>14 DEF Shape
  <2>16. \A t \in Clients \ {s} : Clear(s, t)'
    BY <1>1, <2>10, <2>11 DEF Apart, Clear
  <2>17. QED
    BY <1>6, <2>12, <2>15, <2>16, OneMoves
<1>12. QED
  BY <1>6, <1>10, <1>11

LEMMA CloseRequisitionKeeps ==
  ASSUME PurchaseInv, NEW s \in Clients, Buy!CloseRequisition(s)
  PROVE  PurchaseInv'
<1>1. /\ PurchaseTables /\ PurchaseSessions /\ Apart /\ Shapes
      /\ stage[s] = "lines"
  BY DEF PurchaseInv, Buy!CloseRequisition
<1>2. Receiving(s) /\ DOMAIN written[s].requisitions = {}
  BY <1>1 DEF Shapes, Shape
<1>3. PICK o \in Buy!Orders, p \in Buy!Requisitions :
        /\ o = purchase[s].order /\ p = orders[o].pr
        /\ Buy!OrderLines(s) = orders[o].lines /\ Buy!OrderView(s)[o].pr = p
  BY <1>1, <1>2, OrderAtHand
<1>4. Buy!RequisitionView(s)[p] = requisitions[p]
  BY <1>1, <1>2 DEF Buy!RequisitionView, Buy!Over, PurchaseTables
<1>5. requisitions[p].status = "Ordered" /\ unpacked[s] = Len(orders[o].lines)
  BY <1>3, <1>4 DEF Buy!CloseRequisition
<1>6. requisitions[p] # Buy!None /\ requisitions[p] \in Buy!RequisitionRow
  BY <1>1, <1>5, NoneIsNoRow, PurchaseRows
<1>7. PICK row \in Buy!RequisitionRow : row = [requisitions[p] EXCEPT !.status = "Received"]
  BY <1>6 DEF Buy!RequisitionRow
<1>8. /\ Buy!Take(s, Buy!Requisition(p))
      /\ written' = [written EXCEPT ![s].requisitions = Buy!Put(@, p, row)]
      /\ stage' = [stage EXCEPT ![s] = "commit"]
      /\ UNCHANGED <<requisitions, approvals, orders, lots, purchase, ahead, unpacked>>
  BY <1>3, <1>4, <1>7 DEF Buy!CloseRequisition, Buy!tables, Buy!progress
<1>9. /\ written' \in [Clients -> DraftRecords]
      /\ DOMAIN written'[s].requisitions = DOMAIN written[s].requisitions \union {p}
      /\ written'[s].requisitions[p] = row
      /\ written'[s].approvals = written[s].approvals
      /\ written'[s].orders = written[s].orders /\ written'[s].items = written[s].items
      /\ \A t \in Clients \ {s} : written'[t] = written[t]
  <2>1. WritesRequisition(s, p, row)
    BY <1>8 DEF WritesRequisition
  <2>2. QED
    BY <1>1, <2>1, RequisitionWritten
<1>10. /\ locked' \in [Clients -> SUBSET LockRows]
       /\ locked'[s] = locked[s] \union {Buy!Requisition(p)}
       /\ \A t \in Clients \ {s} : /\ locked'[t] = locked[t] /\ Buy!Requisition(p) \notin locked[t]
                                   /\ locked'[s] \intersect locked'[t] = {}
  <2>1. Buy!Requisition(p) \in LockRows
    BY DEF LockRows
  <2>2. QED
    BY <1>1, <1>8, <2>1, TakeLocks
<1>11. PurchaseSessions' /\ stage'[s] = "commit" /\ \A t \in Clients \ {s} : SameRequest(t)
  <2>1. /\ ahead' \in [Clients -> SUBSET Buy!Items] /\ unpacked' \in [Clients -> Nat]
        /\ stage[s] # "idle" /\ "commit" \in Working
    BY <1>1, <1>8 DEF PurchaseSessions, Working
  <2>2. QED
    BY <1>1, <1>8, <1>9, <1>10, <2>1, RequestMoves
<1>12. Shape(s)'
  <2>1. Receiving(s)'
    BY <1>2, <1>8, <1>9, <1>10 DEF Receiving
  <2>2. Closed(s)'
    BY <1>2, <1>3, <1>5, <1>6, <1>7, <1>8, <1>9, <1>10 DEF Closed
  <2>3. QED
    BY <1>11, <2>1, <2>2 DEF Shape
<1>13. ASSUME NEW t \in Clients \ {s}
       PROVE  Clear(s, t)'
  <2>1. Clear(s, t) /\ Owned(t)
    BY <1>1, Owns DEF Apart, Shapes
  <2>2. p \notin DOMAIN written[t].requisitions
    BY <1>6, <1>10, <2>1 DEF Owned, OwnsRequisitions
  <2>3. QED
    BY <1>9, <1>10, <2>1, <2>2 DEF Clear
<1>14. QED
  BY <1>8, <1>11, <1>12, <1>13, OneMoves

-----------------------------------------------------------------------------
\* Scans, and requests that are given up

WritesReplenishment(s, p, row, a, asked) ==
  written' = [written EXCEPT ![s].requisitions = Buy!Put(@, p, row),
                             ![s].approvals = Buy!Put(@, a, asked)]

LEMMA ReplenishmentWritten ==
  ASSUME PurchaseSessions, NEW s \in Clients,
         NEW p \in Buy!Requisitions, NEW row \in Buy!RequisitionRow,
         NEW a \in Buy!Approvals, NEW asked \in Buy!ApprovalRow,
         WritesReplenishment(s, p, row, a, asked)
  PROVE  /\ written' \in [Clients -> DraftRecords]
         /\ DOMAIN written'[s].requisitions = DOMAIN written[s].requisitions \union {p}
         /\ written'[s].requisitions[p] = row
         /\ \A y \in DOMAIN written[s].requisitions :
              y # p => written'[s].requisitions[y] = written[s].requisitions[y]
         /\ DOMAIN written'[s].approvals = DOMAIN written[s].approvals \union {a}
         /\ written'[s].approvals[a] = asked
         /\ \A y \in DOMAIN written[s].approvals :
              y # a => written'[s].approvals[y] = written[s].approvals[y]
         /\ written'[s].orders = written[s].orders
         /\ written'[s].items = written[s].items
         /\ \A t \in Clients \ {s} : written'[t] = written[t]
<1>1. written[s] \in DraftRecords /\ written \in [Clients -> DraftRecords]
  BY DEF PurchaseSessions
<1>2. written' = [written EXCEPT ![s].requisitions = Buy!Put(@, p, row),
                                 ![s].approvals = Buy!Put(@, a, asked)]
  BY DEF WritesReplenishment
<1>3. PICK f, g : f = Buy!Put(written[s].requisitions, p, row)
                  /\ g = Buy!Put(written[s].approvals, a, asked)
  OBVIOUS
<1>4. /\ f \in Partial(Buy!Requisitions, Buy!RequisitionRow) /\ f[p] = row
      /\ DOMAIN f = DOMAIN written[s].requisitions \union {p}
      /\ \A y \in DOMAIN written[s].requisitions : y # p => f[y] = written[s].requisitions[y]
  <2>1. written[s].requisitions \in Partial(Buy!Requisitions, Buy!RequisitionRow)
    BY DraftRows
  <2>2. f \in Partial(Buy!Requisitions, Buy!RequisitionRow)
    BY <1>3, <2>1, PutWrites
  <2>3. QED
    BY <1>3, <2>2 DEF Buy!Put
<1>5. /\ g \in Partial(Buy!Approvals, Buy!ApprovalRow) /\ g[a] = asked
      /\ DOMAIN g = DOMAIN written[s].approvals \union {a}
      /\ \A y \in DOMAIN written[s].approvals : y # a => g[y] = written[s].approvals[y]
  <2>1. written[s].approvals \in Partial(Buy!Approvals, Buy!ApprovalRow)
    BY DraftRows
  <2>2. g \in Partial(Buy!Approvals, Buy!ApprovalRow)
    BY <1>3, <2>1, PutWrites
  <2>3. QED
    BY <1>3, <2>2 DEF Buy!Put
<1>6. PICK one : one = [written[s] EXCEPT !.requisitions = f]
  OBVIOUS
<1>7. /\ one \in [requisitions : Partial(Buy!Requisitions, Buy!RequisitionRow),
                  approvals : Partial(Buy!Approvals, Buy!ApprovalRow),
                  orders : Partial(Buy!Orders, Buy!OrderRow),
                  items : Partial(Buy!Items, Buy!ItemRow)]
      /\ one.requisitions = f /\ one.approvals = written[s].approvals
      /\ one.orders = written[s].orders /\ one.items = written[s].items
  BY <1>1, <1>4, <1>6 DEF DraftRecords
<1>8. PICK two : two = [one EXCEPT !.approvals = g]
  OBVIOUS
<1>9. /\ two \in DraftRecords
      /\ two.requisitions = f /\ two.approvals = g
      /\ two.orders = written[s].orders /\ two.items = written[s].items
  BY <1>5, <1>7, <1>8 DEF DraftRecords
<1>10. written' = [written EXCEPT ![s] = two]
  BY <1>1, <1>2, <1>3, <1>6, <1>7, <1>8
<1>11. written'[s] = two /\ written' \in [Clients -> DraftRecords]
       /\ \A t \in Clients \ {s} : written'[t] = written[t]
  BY <1>1, <1>9, <1>10
<1>12. QED
  BY <1>4, <1>5, <1>9, <1>11

LEMMA UnfilledRests ==
  ASSUME UNCHANGED <<requisitions, approvals>>, NEW i
  PROVE  Unfilled(i)' <=> Unfilled(i)
BY DEF Unfilled, Buy!Automatic, Buy!InProgress, Buy!WasRejected

LEMMA FinishScanKeeps ==
  ASSUME PurchaseInv, NEW s \in Clients, Buy!FinishScan(s)
  PROVE  PurchaseInv'
<1>1. /\ PurchaseTables /\ PurchaseSessions /\ Apart /\ Shapes /\ stage[s] = "scan"
      /\ stage' = [stage EXCEPT ![s] = "commit"]
      /\ UNCHANGED <<requisitions, approvals, orders, lots, purchase, ahead, unpacked, written, locked>>
  BY DEF PurchaseInv, Buy!FinishScan, Buy!tables, Buy!progress
<1>2. PurchaseSessions' /\ stage'[s] = "commit" /\ \A t \in Clients \ {s} : SameRequest(t)
  <2>1. /\ ahead' \in [Clients -> SUBSET Buy!Items] /\ unpacked' \in [Clients -> Nat]
        /\ written' \in [Clients -> DraftRecords] /\ locked' \in [Clients -> SUBSET LockRows]
        /\ stage[s] # "idle" /\ "commit" \in Working
    BY <1>1 DEF PurchaseSessions, Working
  <2>2. QED
    BY <1>1, <2>1, RequestMoves
<1>3. Shape(s)'
  <2>1. Scanning(s)
    BY <1>1 DEF Shapes, Shape
  <2>2. Scanning(s)'
    BY <1>1, <2>1, UnfilledRests DEF Scanning
  <2>3. QED
    BY <1>2, <2>2 DEF Shape
<1>4. \A t \in Clients \ {s} : Clear(s, t)'
  BY <1>1 DEF Apart, Clear
<1>5. QED
  BY <1>1, <1>2, <1>3, <1>4, OneMoves

LEMMA PurchaseGivenUp ==
  ASSUME PurchaseInv, NEW s \in Clients, Buy!Rollback(s)
  PROVE  PurchaseInv'
<1>1. /\ PurchaseSessions /\ Buy!End(s) /\ UNCHANGED <<requisitions, approvals, orders, lots>>
  BY DEF PurchaseInv, Buy!Rollback, Buy!tables
<1>2. /\ PurchaseSessions' /\ Shape(s)'
      /\ written'[s] = Buy!Clean /\ locked'[s] = {}
      /\ \A t \in Clients \ {s} : SameRequest(t)
  BY <1>1, RequestEnds
<1>3. \A t \in Clients \ {s} : Clear(s, t)'
  BY <1>2, CleanDraft DEF Clear
<1>4. QED
  BY <1>1, <1>2, <1>3, OneMoves

\* What a scan that finds item i low and not covered knows of it.
LEMMA NeededUnfilled ==
  ASSUME PurchaseTables, PurchaseSessions, NEW s \in Clients, Scanning(s), NEW i \in Buy!Items,
         ~Buy!Active(Buy!RequisitionView(s), i)
  PROVE  Unfilled(i)
<1> SUFFICES ASSUME NEW q \in Buy!Requisitions, Buy!Automatic(q, i), Buy!InProgress(q)
             PROVE  FALSE
  BY DEF Unfilled
<1>1. requisitions[q] # Buy!None /\ Buy!Covers(requisitions[q], i)
  BY DEF Buy!Automatic
<1>2. requisitions[q] \in Buy!RequisitionRow
  BY <1>1, PurchaseRows
<1>3. requisitions[q].status \notin {"Received", "Cancelled", "Rejected"}
  BY <1>2 DEF Buy!InProgress, Buy!RequisitionRow
<1>4. q \notin DOMAIN written[s].requisitions
  BY <1>1 DEF Scanning
<1>5. q \in DOMAIN Buy!RequisitionView(s) /\ Buy!RequisitionView(s)[q] = requisitions[q]
  BY <1>4 DEF Buy!RequisitionView, Buy!Over, PurchaseTables
<1>6. QED
  BY <1>1, <1>3, <1>5 DEF Buy!Active

LEMMA ReplenishmentRow ==
  ASSUME NEW stockRow \in Buy!ItemRow, NEW i \in Buy!Items,
         NEW row, row = [status |-> "Submitted", automatic |-> TRUE,
                         lines |-> <<[item |-> i, qty |-> Buy!ReplenishQuantity(stockRow, i)]>>]
  PROVE  row \in Buy!RequisitionRow /\ Replenishment(row, i)
<1>1. PICK q : q = Buy!ReplenishQuantity(stockRow, i)
  OBVIOUS
<1>2. q \in Nat \ {0}
  <2>1. PICK x \in Int, y \in Int :
          x = MaxLevel[i] - stockRow.stock /\ y = ReorderPoint[i] - stockRow.stock + 1
    <3>1. MaxLevel[i] \in Int /\ ReorderPoint[i] \in Int
      BY PurchaseAssumption DEF Buy!Items
    <3>2. stockRow.stock \in Int
      BY DEF Buy!ItemRow
    <3>3. MaxLevel[i] - stockRow.stock \in Int /\ ReorderPoint[i] - stockRow.stock + 1 \in Int
      BY <3>1, <3>2
    <3>4. QED
      BY <3>3
  <2>2. {x, y, 1} \subseteq Int /\ IsFiniteSet({x, y, 1}) /\ {x, y, 1} # {}
    <3>1. IsFiniteSet({x}) /\ IsFiniteSet({y}) /\ IsFiniteSet({1})
      BY FS_Singleton
    <3>2. IsFiniteSet({x} \union {y})
      BY <3>1, FS_Union
    <3>3. IsFiniteSet(({x} \union {y}) \union {1})
      BY <3>1, <3>2, FS_Union
    <3>4. {x, y, 1} = ({x} \union {y}) \union {1}
      OBVIOUS
    <3>5. {x, y, 1} \subseteq Int /\ {x, y, 1} # {}
      OBVIOUS
    <3>6. QED
      BY <3>3, <3>4, <3>5
  <2>3. Buy!Max({x, y, 1}) \in {x, y, 1} /\ \A z \in {x, y, 1} : z <= Buy!Max({x, y, 1})
    BY <2>2, BuyMax
  <2>4. Buy!Max({x, y, 1}) \in Int /\ 1 <= Buy!Max({x, y, 1})
    BY <2>3
  <2>5. q = Buy!Max({x, y, 1})
    BY <1>1, <2>1 DEF Buy!ReplenishQuantity
  <2>6. QED
    BY <2>4, <2>5
<1>3. PICK line \in Buy!Lines : line = [item |-> i, qty |-> q]
  BY <1>2 DEF Buy!Lines
<1>4. PICK lines \in Seq(Buy!Lines) : lines = <<line>>
  <2>1. <<line>> \in Seq(Buy!Lines)
    OBVIOUS
  <2>2. QED
    BY <2>1
<1>5. row = [status |-> "Submitted", automatic |-> TRUE, lines |-> lines]
  BY <1>1, <1>3, <1>4
<1>6. row \in Buy!RequisitionRow
  <2>1. "Submitted" \in {"Draft", "Submitted", "Approved", "Rejected", "Ordered", "Received"}
    OBVIOUS
  <2>2. QED
    BY <1>4, <1>5, <2>1 DEF Buy!RequisitionRow
<1>7. DOMAIN lines = {1} /\ lines[1].item = i
  BY <1>3, <1>4
<1>8. \A j \in Buy!Items : Buy!Covers(row, j) <=> j = i
  BY <1>5, <1>7 DEF Buy!Covers
<1>9. row.status = "Submitted" /\ row.automatic = TRUE
  BY <1>5
<1>10. row.automatic
  BY <1>9
<1>11. Replenishment(row, i)
  BY <1>8, <1>9, <1>10 DEF Replenishment
<1>12. QED
  BY <1>6, <1>11

\* The scan writes a requisition for item i and its approval request.
LEMMA ReplenishmentKeeps ==
  ASSUME PurchaseInv, NEW s \in Clients, stage[s] = "scan",
         NEW i \in Buy!Items, i \in ahead[s], Buy!Low(lots, i), Unfilled(i),
         NEW p \in Buy!Requisitions, p = Buy!NextRequisition,
         NEW a \in Buy!Approvals, a = Buy!NextApproval,
         NEW row \in Buy!RequisitionRow, Replenishment(row, i),
         NEW asked \in Buy!ApprovalRow, asked = [status |-> "Pending", pr |-> p],
         Buy!Take(s, Buy!Item(i)),
         WritesReplenishment(s, p, row, a, asked),
         ahead' = [ahead EXCEPT ![s] = @ \ {i}],
         UNCHANGED <<requisitions, approvals, orders, lots, purchase, stage, unpacked>>
  PROVE  PurchaseInv'
<1>1. /\ PurchaseTables /\ PurchaseSessions /\ Apart /\ Shapes
      /\ UNCHANGED <<requisitions, approvals, orders, lots>>
  BY DEF PurchaseInv
<1>2. Scanning(s)
  BY <1>1 DEF Shapes, Shape
<1>3. /\ requisitions[p] = Buy!None /\ \A t \in Clients : p \notin DOMAIN written[t].requisitions
      /\ approvals[a] = Buy!None /\ \A t \in Clients : a \notin DOMAIN written[t].approvals
  BY <1>1, FreshRequisition, FreshApproval
<1>4. /\ written' \in [Clients -> DraftRecords]
      /\ DOMAIN written'[s].requisitions = DOMAIN written[s].requisitions \union {p}
      /\ written'[s].requisitions[p] = row
      /\ \A y \in DOMAIN written[s].requisitions :
           y # p => written'[s].requisitions[y] = written[s].requisitions[y]
      /\ DOMAIN written'[s].approvals = DOMAIN written[s].approvals \union {a}
      /\ written'[s].approvals[a] = asked
      /\ \A y \in DOMAIN written[s].approvals :
           y # a => written'[s].approvals[y] = written[s].approvals[y]
      /\ written'[s].orders = written[s].orders
      /\ written'[s].items = written[s].items
      /\ \A t \in Clients \ {s} : written'[t] = written[t]
  BY <1>1, ReplenishmentWritten
<1>5. /\ \A y \in DOMAIN written[s].requisitions :
           written'[s].requisitions[y] = written[s].requisitions[y] /\ y # p
      /\ \A y \in DOMAIN written[s].approvals :
           written'[s].approvals[y] = written[s].approvals[y] /\ y # a
  BY <1>3, <1>4
<1>6. /\ locked' \in [Clients -> SUBSET LockRows]
      /\ locked'[s] = locked[s] \union {Buy!Item(i)}
      /\ \A t \in Clients \ {s} : /\ locked'[t] = locked[t]
                                  /\ locked'[s] \intersect locked'[t] = {}
  <2>1. Buy!Item(i) \in LockRows
    BY DEF LockRows
  <2>2. QED
    BY <1>1, <2>1, TakeLocks
<1>7. /\ ahead' \in [Clients -> SUBSET Buy!Items] /\ ahead'[s] = ahead[s] \ {i}
      /\ \A t \in Clients \ {s} : ahead'[t] = ahead[t]
  BY <1>1 DEF PurchaseSessions
<1>8. PurchaseSessions' /\ stage'[s] = "scan" /\ \A t \in Clients \ {s} : SameRequest(t)
  <2>1. /\ unpacked' \in [Clients -> Nat] /\ stage' = [stage EXCEPT ![s] = "scan"]
        /\ \A t \in Clients \ {s} : unpacked'[t] = unpacked[t]
        /\ stage[s] # "idle" /\ "scan" \in Working /\ UNCHANGED purchase
    BY <1>1 DEF PurchaseSessions, Working
  <2>2. QED
    BY <1>1, <1>4, <1>6, <1>7, <2>1, RequestMoves
<1>9. Scanning(s)'
  <2>1. /\ purchase'[s].op = "scan"
        /\ DOMAIN written'[s].orders = {} /\ DOMAIN written'[s].items = {}
    BY <1>2, <1>4 DEF Scanning
  <2>2. ASSUME NEW x \in DOMAIN written'[s].requisitions
        PROVE  /\ requisitions'[x] = Buy!None
               /\ \E j \in Buy!Items \ ahead'[s] :
                    /\ Replenishment(written'[s].requisitions[x], j)
                    /\ Buy!Item(j) \in locked'[s] /\ Buy!Low(lots', j) /\ Unfilled(j)'
               /\ \E b \in DOMAIN written'[s].approvals : written'[s].approvals[b].pr = x
    <3>1. CASE x = p
      <4>1. Unfilled(i)' /\ Buy!Low(lots', i)
        BY UnfilledRests
      <4>2. asked.pr = p
        OBVIOUS
      <4>3. i \in Buy!Items \ ahead'[s] /\ Buy!Item(i) \in locked'[s]
        BY <1>6, <1>7
      <4>4. QED
        BY <1>3, <1>4, <3>1, <4>1, <4>2, <4>3
    <3>2. CASE x # p
      <4>1. x \in DOMAIN written[s].requisitions
        BY <1>4, <3>2
      <4>2. requisitions[x] = Buy!None
        BY <1>2, <4>1 DEF Scanning
      <4>3. PICK j \in Buy!Items \ ahead[s] :
              /\ Replenishment(written[s].requisitions[x], j)
              /\ Buy!Item(j) \in locked[s] /\ Buy!Low(lots, j) /\ Unfilled(j)
        BY <1>2, <4>1 DEF Scanning
      <4>4. PICK b \in DOMAIN written[s].approvals : written[s].approvals[b].pr = x
        BY <1>2, <4>1 DEF Scanning
      <4>5. Unfilled(j)' /\ Buy!Low(lots', j)
        BY <4>3, UnfilledRests
      <4>6. j \in Buy!Items \ ahead'[s] /\ Buy!Item(j) \in locked'[s]
        BY <1>6, <1>7, <4>3
      <4>7. Replenishment(written'[s].requisitions[x], j)
        BY <1>5, <4>1, <4>3
      <4>8. b \in DOMAIN written'[s].approvals /\ written'[s].approvals[b].pr = x
        BY <1>4, <1>5, <4>4
      <4>9. QED
        BY <4>2, <4>5, <4>6, <4>7, <4>8
    <3>3. QED
      BY <3>1, <3>2
  <2>3. ASSUME NEW x \in DOMAIN written[s].requisitions, Buy!Covers(written[s].requisitions[x], i)
        PROVE  FALSE
    <3>1. PICK j \in Buy!Items \ ahead[s] : Replenishment(written[s].requisitions[x], j)
      BY <1>2 DEF Scanning
    <3>2. i = j
      BY <2>3, <3>1 DEF Replenishment
    <3>3. QED
      BY <3>1, <3>2
  <2>4. ASSUME NEW x \in DOMAIN written'[s].requisitions, NEW y \in DOMAIN written'[s].requisitions,
               NEW j \in Buy!Items, Buy!Covers(written'[s].requisitions[x], j),
               Buy!Covers(written'[s].requisitions[y], j)
        PROVE  x = y
    <3>1. \A z \in Buy!Items : Buy!Covers(row, z) => z = i
      BY DEF Replenishment
    <3>2. CASE x = p /\ y # p
      <4>1. y \in DOMAIN written[s].requisitions /\ j = i
        BY <1>4, <2>4, <3>1, <3>2
      <4>2. Buy!Covers(written[s].requisitions[y], i)
        BY <1>5, <2>4, <4>1
      <4>3. QED
        BY <2>3, <4>1, <4>2
    <3>3. CASE x # p /\ y = p
      <4>1. x \in DOMAIN written[s].requisitions /\ j = i
        BY <1>4, <2>4, <3>1, <3>3
      <4>2. Buy!Covers(written[s].requisitions[x], i)
        BY <1>5, <2>4, <4>1
      <4>3. QED
        BY <2>3, <4>1, <4>2
    <3>4. CASE x # p /\ y # p
      <4>1. x \in DOMAIN written[s].requisitions /\ y \in DOMAIN written[s].requisitions
        BY <1>4, <3>4
      <4>2. Buy!Covers(written[s].requisitions[x], j) /\ Buy!Covers(written[s].requisitions[y], j)
        BY <1>5, <2>4, <4>1
      <4>3. QED
        BY <1>2, <4>1, <4>2 DEF Scanning
    <3>5. QED
      BY <3>2, <3>3, <3>4
  <2>5. ASSUME NEW b \in DOMAIN written'[s].approvals
        PROVE  /\ approvals'[b] = Buy!None /\ written'[s].approvals[b].status = "Pending"
               /\ written'[s].approvals[b].pr \in DOMAIN written'[s].requisitions
    <3>1. CASE b = a
      BY <1>3, <1>4, <3>1
    <3>2. CASE b # a
      <4>1. b \in DOMAIN written[s].approvals
        BY <1>4, <3>2
      <4>2. /\ approvals[b] = Buy!None /\ written[s].approvals[b].status = "Pending"
            /\ written[s].approvals[b].pr \in DOMAIN written[s].requisitions
        BY <1>2, <4>1 DEF Scanning
      <4>3. QED
        BY <1>4, <1>5, <4>1, <4>2
    <3>3. QED
      BY <3>1, <3>2
  <2>6. ASSUME NEW b \in DOMAIN written'[s].approvals, NEW c \in DOMAIN written'[s].approvals,
               written'[s].approvals[b].pr = written'[s].approvals[c].pr
        PROVE  b = c
    <3>1. \A d \in DOMAIN written[s].approvals :
            written'[s].approvals[d].pr = written[s].approvals[d].pr
              /\ written[s].approvals[d].pr # p
      BY <1>2, <1>3, <1>5 DEF Scanning
    <3>2. written'[s].approvals[a].pr = p
      BY <1>4
    <3>3. CASE b = a \/ c = a
      BY <1>4, <2>6, <3>1, <3>2, <3>3
    <3>4. CASE b # a /\ c # a
      <4>1. b \in DOMAIN written[s].approvals /\ c \in DOMAIN written[s].approvals
        BY <1>4, <3>4
      <4>2. QED
        BY <1>2, <2>6, <3>1, <4>1 DEF Scanning
    <3>5. QED
      BY <3>3, <3>4
  <2>7. QED
    BY <2>1, <2>2, <2>4, <2>5, <2>6 DEF Scanning
<1>10. Shape(s)'
  BY <1>8, <1>9 DEF Shape
<1>11. \A t \in Clients \ {s} : Clear(s, t)'
  BY <1>1, <1>3, <1>4, <1>6 DEF Apart, Clear
<1>12. QED
  BY <1>1, <1>8, <1>10, <1>11, OneMoves

\* The scan finds item i stocked or covered.
LEMMA PassedOverKeeps ==
  ASSUME PurchaseInv, NEW s \in Clients, stage[s] = "scan",
         NEW i \in Buy!Items, i \in ahead[s], Buy!Take(s, Buy!Item(i)),
         ahead' = [ahead EXCEPT ![s] = @ \ {i}],
         UNCHANGED <<requisitions, approvals, orders, lots, purchase, stage, unpacked, written>>
  PROVE  PurchaseInv'
<1>1. /\ PurchaseTables /\ PurchaseSessions /\ Apart /\ Shapes
      /\ UNCHANGED <<requisitions, approvals, orders, lots>>
  BY DEF PurchaseInv
<1>2. Scanning(s)
  BY <1>1 DEF Shapes, Shape
<1>3. /\ locked' \in [Clients -> SUBSET LockRows]
      /\ locked'[s] = locked[s] \union {Buy!Item(i)}
      /\ \A t \in Clients \ {s} : /\ locked'[t] = locked[t]
                                  /\ locked'[s] \intersect locked'[t] = {}
  <2>1. Buy!Item(i) \in LockRows
    BY DEF LockRows
  <2>2. QED
    BY <1>1, <2>1, TakeLocks
<1>4. /\ ahead' \in [Clients -> SUBSET Buy!Items] /\ ahead'[s] = ahead[s] \ {i}
      /\ \A t \in Clients \ {s} : ahead'[t] = ahead[t]
  BY <1>1 DEF PurchaseSessions
<1>5. PurchaseSessions' /\ stage'[s] = "scan" /\ \A t \in Clients \ {s} : SameRequest(t)
  <2>1. /\ unpacked' \in [Clients -> Nat] /\ stage' = [stage EXCEPT ![s] = "scan"]
        /\ written' \in [Clients -> DraftRecords]
        /\ \A t \in Clients \ {s} : unpacked'[t] = unpacked[t] /\ written'[t] = written[t]
        /\ stage[s] # "idle" /\ "scan" \in Working /\ UNCHANGED purchase
    BY <1>1 DEF PurchaseSessions, Working
  <2>2. QED
    BY <1>1, <1>3, <1>4, <2>1, RequestMoves
<1>6. Scanning(s)'
  <2>1. ASSUME NEW x \in DOMAIN written[s].requisitions
        PROVE  \E j \in Buy!Items \ ahead'[s] :
                 /\ Replenishment(written[s].requisitions[x], j)
                 /\ Buy!Item(j) \in locked'[s] /\ Buy!Low(lots', j) /\ Unfilled(j)'
    <3>1. PICK j \in Buy!Items \ ahead[s] :
            /\ Replenishment(written[s].requisitions[x], j)
            /\ Buy!Item(j) \in locked[s] /\ Buy!Low(lots, j) /\ Unfilled(j)
      BY <1>2 DEF Scanning
    <3>2. Unfilled(j)' /\ Buy!Low(lots', j)
      BY <3>1, UnfilledRests
    <3>3. QED
      BY <1>3, <1>4, <3>1, <3>2
  <2>2. QED
    BY <1>2, <2>1 DEF Scanning
<1>7. Shape(s)'
  BY <1>5, <1>6 DEF Shape
<1>8. \A t \in Clients \ {s} : Clear(s, t)'
  BY <1>1, <1>3 DEF Apart, Clear
<1>9. QED
  BY <1>1, <1>5, <1>7, <1>8, OneMoves

LEMMA ReplenishKeeps ==
  ASSUME PurchaseInv, NEW s \in Clients, Buy!Replenish(s)
  PROVE  PurchaseInv'
<1>1. /\ PurchaseTables /\ PurchaseSessions /\ Shapes /\ stage[s] = "scan" /\ ahead[s] # {}
  BY DEF PurchaseInv, Buy!Replenish
<1>2. Scanning(s)
  BY <1>1 DEF Shapes, Shape
<1>3. PICK i \in Buy!Items : i = Buy!Min(ahead[s]) /\ i \in ahead[s]
  <2>1. ahead[s] \subseteq Buy!Items
    BY <1>1 DEF PurchaseSessions
  <2>2. IsFiniteSet(Buy!Items) /\ Buy!Items \subseteq Int
    BY PurchaseAssumption, FS_Interval DEF Buy!Items
  <2>3. IsFiniteSet(ahead[s]) /\ ahead[s] \subseteq Int
    BY <2>1, <2>2, FS_Subset
  <2>4. Buy!Min(ahead[s]) \in ahead[s]
    BY <1>1, <2>3, BuyMin
  <2>5. QED
    BY <2>1, <2>4
<1>4. Buy!ItemView(s) = lots
  BY <1>1, <1>2 DEF Scanning, Buy!ItemView, Buy!Over, PurchaseTables
<1>5. /\ Buy!Take(s, Buy!Item(i)) /\ ahead' = [ahead EXCEPT ![s] = @ \ {i}]
      /\ UNCHANGED <<requisitions, approvals, orders, lots, purchase, stage, unpacked>>
  BY <1>3 DEF Buy!Replenish, Buy!tables
<1>6. CASE UNCHANGED written
  BY <1>1, <1>3, <1>5, <1>6, PassedOverKeeps
<1>7. ASSUME NEW p \in Buy!Requisitions, p = Buy!NextRequisition,
             NEW a \in Buy!Approvals, a = Buy!NextApproval,
             Buy!StillLow(lots, i), ~Buy!Active(Buy!RequisitionView(s), i),
             NEW row,
             row = [status |-> "Submitted", automatic |-> TRUE,
                    lines |-> <<[item |-> i, qty |-> Buy!ReplenishQuantity(lots[i], i)]>>],
             written' = [written EXCEPT
                ![s].requisitions = Buy!Put(@, p, row),
                ![s].approvals = Buy!Put(@, a, [status |-> "Pending", pr |-> p])]
      PROVE  PurchaseInv'
  <2>1. Buy!Low(lots, i) /\ Unfilled(i)
    BY <1>1, <1>2, <1>7, NeededUnfilled DEF Buy!StillLow
  <2>2. lots[i] \in Buy!ItemRow
    BY <1>1, PurchaseRows
  <2>3. row \in Buy!RequisitionRow /\ Replenishment(row, i)
    BY <1>7, <2>2, ReplenishmentRow
  <2>4. PICK asked \in Buy!ApprovalRow : asked = [status |-> "Pending", pr |-> p]
    BY DEF Buy!ApprovalRow
  <2>5. WritesReplenishment(s, p, row, a, asked)
    BY <1>7, <2>4 DEF WritesReplenishment
  <2>6. QED
    BY <1>1, <1>3, <1>5, <1>7, <2>1, <2>3, <2>4, <2>5, ReplenishmentKeeps
<1>8. QED
  BY <1>3, <1>4, <1>6, <1>7 DEF Buy!Replenish

-----------------------------------------------------------------------------
\* The paper trail after a commit

LEMMA TrailStays ==
  ASSUME NEW p, Trail(p), requisitions'[p] = requisitions[p],
         ApprovalsOf(p)' = ApprovalsOf(p), \A a \in ApprovalsOf(p) : approvals'[a] = approvals[a],
         OrdersFor(p)' = OrdersFor(p), \A o \in OrdersFor(p) : orders'[o] = orders[o]
  PROVE  Trail(p)'
<1>1. \A a \in ApprovalsOf(p) : Latest(a, p)' <=> Latest(a, p)
  BY DEF Latest
<1>2. QED
  BY <1>1 DEF Trail

\* Whose requisition a commit did not write, its approvals and orders it did not either.
LEMMA TrailsUntouched ==
  ASSUME PurchaseTables, PurchaseSessions, NEW s \in Clients, Shape(s), Buy!Commit(s),
         NEW p \in Buy!Requisitions, p \notin DOMAIN written[s].requisitions
  PROVE  /\ requisitions'[p] = requisitions[p]
         /\ ApprovalsOf(p)' = ApprovalsOf(p)
         /\ \A a \in ApprovalsOf(p) : approvals'[a] = approvals[a]
         /\ OrdersFor(p)' = OrdersFor(p)
         /\ \A o \in OrdersFor(p) : orders'[o] = orders[o]
<1>1. Owned(s) /\ stage[s] = "commit" /\ requisitions'[p] = requisitions[p]
  BY Owns, Committed
<1>2. ASSUME NEW a \in Buy!Approvals,
             (approvals[a] # Buy!None /\ approvals[a].pr = p)
               \/ (approvals'[a] # Buy!None /\ approvals'[a].pr = p)
      PROVE  approvals'[a] = approvals[a]
  <2>1. CASE a \in DOMAIN written[s].approvals
    <3>1. approvals'[a] = written[s].approvals[a]
      BY <2>1, Committed
    <3>2. approvals'[a].pr \in DOMAIN written[s].requisitions
      BY <1>1, <2>1, <3>1 DEF Owned, OwnsApprovals
    <3>3. approvals[a] # Buy!None => approvals[a].pr = approvals'[a].pr
      BY <1>1, <2>1, <3>1 DEF Owned, OwnsApprovals
    <3>4. QED
      BY <1>2, <3>2, <3>3
  <2>2. CASE a \notin DOMAIN written[s].approvals
    BY <2>2, Committed
  <2>3. QED
    BY <2>1, <2>2
<1>3. ASSUME NEW o \in Buy!Orders,
             (orders[o] # Buy!None /\ orders[o].pr = p)
               \/ (orders'[o] # Buy!None /\ orders'[o].pr = p)
      PROVE  orders'[o] = orders[o]
  <2>1. CASE o \in DOMAIN written[s].orders
    <3>1. orders'[o] = written[s].orders[o]
      BY <2>1, Committed
    <3>2. orders'[o].pr \in DOMAIN written[s].requisitions
      BY <1>1, <2>1, <3>1 DEF Owned, OwnsOrders
    <3>3. orders[o] # Buy!None => orders[o].pr = orders'[o].pr
      BY <1>1, <2>1, <3>1 DEF Owned, OwnsOrders
    <3>4. QED
      BY <1>3, <3>2, <3>3
  <2>2. CASE o \notin DOMAIN written[s].orders
    BY <2>2, Committed
  <2>3. QED
    BY <2>1, <2>2
<1>4. ApprovalsOf(p)' = ApprovalsOf(p) /\ \A a \in ApprovalsOf(p) : approvals'[a] = approvals[a]
  BY <1>2 DEF ApprovalsOf
<1>5. OrdersFor(p)' = OrdersFor(p) /\ \A o \in OrdersFor(p) : orders'[o] = orders[o]
  BY <1>3 DEF OrdersFor
<1>6. QED
  BY <1>1, <1>4, <1>5

\* Only a requisition that is ordered or received has an order.
LEMMA NoOrderYet ==
  ASSUME PurchaseTables, NEW p, Trail(p), requisitions[p].status \notin {"Ordered", "Received"}
  PROVE  OrdersFor(p) = {}
<1> SUFFICES ASSUME NEW o \in OrdersFor(p) PROVE FALSE
  OBVIOUS
<1>1. orders[o] \in Buy!OrderRow /\ orders[o].status = requisitions[p].status
  BY PurchaseRows DEF OrdersFor, Trail
<1>2. QED
  BY <1>1 DEF Buy!OrderRow

LEMMA SubmittedTrail ==
  ASSUME PurchaseTables, PurchaseSessions, NEW s \in Clients, Raising(s), Raised(s),
         purchase[s].op = "submit", Buy!Commit(s), NEW p \in Buy!Requisitions, p = Buy!Target(s),
         Trail(p)
  PROVE  Trail(p)'
<1>1. /\ requisitions[p].status \in {"Draft", "Rejected"} /\ requisitions[p] \in Buy!RequisitionRow
      /\ DOMAIN written[s].requisitions = {p} /\ DOMAIN written[s].orders = {}
      /\ written[s].requisitions[p] = [requisitions[p] EXCEPT !.status = "Submitted"]
  BY PurchaseRows DEF Raising, Raised, Buy!From, Buy!Claimed
<1>2. PICK a \in Buy!Approvals :
        /\ approvals[a] = Buy!None /\ DOMAIN written[s].approvals = {a}
        /\ written[s].approvals[a] = [status |-> "Pending", pr |-> p]
        /\ \A b \in ApprovalsOf(p) : b < a
  BY DEF Raised
<1>3. requisitions'[p] = [requisitions[p] EXCEPT !.status = "Submitted"]
  BY <1>1, Committed
<1>4. requisitions'[p].status = "Submitted"
  BY <1>1, <1>3 DEF Buy!RequisitionRow
<1>5. approvals'[a] = [status |-> "Pending", pr |-> p] /\ approvals'[a] # Buy!None
      /\ \A b \in Buy!Approvals \ {a} : approvals'[b] = approvals[b]
  BY <1>2, Committed DEF Buy!None
<1>6. ApprovalsOf(p)' = ApprovalsOf(p) \union {a}
  BY <1>2, <1>5 DEF ApprovalsOf
<1>7. \A b \in ApprovalsOf(p) : b # a /\ approvals'[b] = approvals[b] /\ b <= a
  BY <1>2, <1>5 DEF ApprovalsOf, Buy!Approvals
<1>8. \A b \in ApprovalsOf(p) : approvals[b].status # "Pending"
  BY <1>1 DEF Trail
<1>9. Latest(a, p)'
  BY <1>6, <1>7 DEF Latest, Buy!Approvals
<1>10. OrdersFor(p)' = {}
  <2>1. OrdersFor(p) = {}
    BY <1>1, NoOrderYet
  <2>2. \A o \in Buy!Orders : orders'[o] = orders[o]
    BY <1>1, Committed
  <2>3. QED
    BY <2>1, <2>2 DEF OrdersFor
<1>11. QED
  BY <1>4, <1>5, <1>6, <1>7, <1>8, <1>9, <1>10 DEF Trail

LEMMA DecidedTrail ==
  ASSUME PurchaseTables, PurchaseSessions, NEW s \in Clients, stage[s] # "idle",
         Raising(s), Raised(s),
         purchase[s].op \in {"approve", "decide"}, Buy!Commit(s),
         NEW p \in Buy!Requisitions, p = Buy!Target(s), Trail(p)
  PROVE  Trail(p)'
<1>1. /\ requisitions[p].status = "Submitted" /\ requisitions[p] \in Buy!RequisitionRow
      /\ DOMAIN written[s].requisitions = {p} /\ DOMAIN written[s].orders = {}
      /\ written[s].requisitions[p] = [requisitions[p] EXCEPT !.status = Buy!Claimed(s)]
  BY PurchaseRows DEF Raising, Raised, Buy!From
<1>2. PICK as \in {"Approved", "Rejected"} : as = Buy!Claimed(s)
  <2>1. purchase[s].op = "decide" => purchase[s].as \in {"Approved", "Rejected"}
    BY PurchaseAsked DEF PurchaseSessions
  <2>2. QED
    BY <2>1 DEF Buy!Claimed
<1>3. PICK a \in ApprovalsOf(p) :
        /\ approvals[a].status = "Pending" /\ DOMAIN written[s].approvals = {a}
        /\ written[s].approvals[a] = [status |-> as, pr |-> p]
  BY <1>2 DEF Raised
<1>4. requisitions'[p] = [requisitions[p] EXCEPT !.status = as]
  BY <1>1, <1>2, Committed
<1>5. requisitions'[p].status = as
  BY <1>1, <1>4 DEF Buy!RequisitionRow
<1>6. /\ approvals'[a] # Buy!None /\ approvals'[a].status = as /\ approvals'[a].pr = p
      /\ \A b \in Buy!Approvals \ {a} : approvals'[b] = approvals[b]
  <2>1. approvals'[a] = [status |-> as, pr |-> p]
    BY <1>3, Committed DEF ApprovalsOf
  <2>2. approvals'[a].status = as /\ approvals'[a].pr = p
    BY <2>1
  <2>3. \A b \in Buy!Approvals \ {a} : approvals'[b] = approvals[b]
    BY <1>3, Committed
  <2>4. QED
    BY <2>2, <2>3, NoneIsNoRow
<1>7. ApprovalsOf(p)' = ApprovalsOf(p)
  BY <1>3, <1>6 DEF ApprovalsOf
<1>8. Latest(a, p) /\ Latest(a, p)'
  BY <1>3, <1>7 DEF Trail, Latest
<1>9. \A b \in ApprovalsOf(p)' : approvals'[b].status # "Pending"
  <2>1. ASSUME NEW b \in ApprovalsOf(p), b # a
        PROVE  approvals'[b].status # "Pending"
    <3>1. approvals'[b] = approvals[b]
      BY <1>6, <2>1 DEF ApprovalsOf
    <3>2. approvals[b].status = "Pending" => Latest(b, p)
      BY DEF Trail
    <3>3. ~Latest(b, p)
      BY <1>3, <1>8, <2>1 DEF Latest, ApprovalsOf, Buy!Approvals
    <3>4. QED
      BY <3>1, <3>2, <3>3
  <2>2. approvals'[a].status # "Pending"
    BY <1>6
  <2>3. QED
    BY <1>7, <2>1, <2>2
<1>10. OrdersFor(p)' = {}
  <2>1. OrdersFor(p) = {}
    BY <1>1, NoOrderYet
  <2>2. \A o \in Buy!Orders : orders'[o] = orders[o]
    BY <1>1, Committed
  <2>3. QED
    BY <2>1, <2>2 DEF OrdersFor
<1>11. a \in ApprovalsOf(p)' /\ approvals'[a].status = as
  BY <1>3, <1>6, <1>7
<1>12. QED
  BY <1>2, <1>5, <1>8, <1>9, <1>10, <1>11 DEF Trail

LEMMA OrderedTrail ==
  ASSUME PurchaseTables, PurchaseSessions, NEW s \in Clients, Raising(s), Raised(s),
         purchase[s].op = "order", Buy!Commit(s), NEW p \in Buy!Requisitions, p = Buy!Target(s),
         Trail(p)
  PROVE  Trail(p)'
<1>1. /\ requisitions[p].status = "Approved" /\ requisitions[p] \in Buy!RequisitionRow
      /\ DOMAIN written[s].requisitions = {p} /\ DOMAIN written[s].approvals = {}
      /\ written[s].requisitions[p] = [requisitions[p] EXCEPT !.status = "Ordered"]
  BY PurchaseRows DEF Raising, Raised, Buy!From, Buy!Claimed
<1>2. PICK o \in Buy!Orders :
        /\ orders[o] = Buy!None /\ DOMAIN written[s].orders = {o}
        /\ written[s].orders[o] = [status |-> "Ordered", pr |-> p, lines |-> requisitions[p].lines]
  BY DEF Raised
<1>3. requisitions'[p] = [requisitions[p] EXCEPT !.status = "Ordered"]
  BY <1>1, Committed
<1>4. requisitions'[p].status = "Ordered"
  BY <1>1, <1>3 DEF Buy!RequisitionRow
<1>5. /\ orders'[o] = [status |-> "Ordered", pr |-> p, lines |-> requisitions[p].lines]
      /\ \A x \in Buy!Orders \ {o} : orders'[x] = orders[x]
      /\ \A a \in Buy!Approvals : approvals'[a] = approvals[a]
  BY <1>1, <1>2, Committed
<1>6. orders'[o].status = "Ordered" /\ orders'[o].pr = p /\ orders'[o] # Buy!None
  BY <1>5, NoneIsNoRow
<1>7. OrdersFor(p) = {}
  BY <1>1, NoOrderYet
<1>8. OrdersFor(p)' = {o}
  BY <1>5, <1>6, <1>7 DEF OrdersFor
<1>9. ApprovalsOf(p)' = ApprovalsOf(p) /\ \A a \in ApprovalsOf(p) : approvals'[a] = approvals[a]
  BY <1>5 DEF ApprovalsOf
<1>10. \A a \in ApprovalsOf(p) : Latest(a, p)' <=> Latest(a, p)
  BY <1>9 DEF Latest
<1>11. QED
  BY <1>1, <1>4, <1>6, <1>8, <1>9, <1>10 DEF Trail

LEMMA ReceivedTrail ==
  ASSUME PurchaseTables, PurchaseSessions, NEW s \in Clients, stage[s] # "idle",
         Receiving(s), Closed(s), Buy!Commit(s),
         NEW p \in DOMAIN written[s].requisitions, Trail(p)
  PROVE  Trail(p)'
<1>1. PICK o \in Buy!Orders : o = purchase[s].order
  BY OrderAtHand
<1>2. /\ orders[o] # Buy!None /\ orders[o].pr = p /\ orders[o] \in Buy!OrderRow
      /\ DOMAIN written[s].orders = {o}
      /\ written[s].orders[o] = [orders[o] EXCEPT !.status = "Received"]
      /\ DOMAIN written[s].approvals = {}
      /\ requisitions[p] # Buy!None /\ requisitions[p].status = "Ordered"
      /\ DOMAIN written[s].requisitions = {p}
      /\ written[s].requisitions[p] = [requisitions[p] EXCEPT !.status = "Received"]
  BY <1>1, PurchaseRows DEF Receiving, Closed
<1>3. p \in Buy!Requisitions /\ requisitions[p] \in Buy!RequisitionRow
  BY <1>2, PurchaseRows, DraftRows
<1>4. requisitions'[p] = [requisitions[p] EXCEPT !.status = "Received"]
  BY <1>2, <1>3, Committed
<1>5. requisitions'[p].status = "Received"
  BY <1>3, <1>4 DEF Buy!RequisitionRow
<1>6. /\ orders'[o] = [orders[o] EXCEPT !.status = "Received"]
      /\ \A x \in Buy!Orders \ {o} : orders'[x] = orders[x]
      /\ \A a \in Buy!Approvals : approvals'[a] = approvals[a]
  BY <1>2, Committed
<1>7. orders'[o].status = "Received" /\ orders'[o].pr = p /\ orders'[o] # Buy!None
  <2>1. orders'[o].status = "Received" /\ orders'[o].pr = p
    BY <1>2, <1>6 DEF Buy!OrderRow
  <2>2. QED
    BY <2>1, NoneIsNoRow
<1>8. OrdersFor(p) = {o}
  BY <1>2 DEF OrdersFor, Trail
<1>9. OrdersFor(p)' = {o}
  <2>1. ASSUME NEW x \in Buy!Orders, orders'[x] # Buy!None, orders'[x].pr = p
        PROVE  x = o
    <3>1. x # o => x \in OrdersFor(p)
      BY <1>6, <2>1 DEF OrdersFor
    <3>2. QED
      BY <1>8, <3>1
  <2>2. QED
    BY <1>7, <2>1 DEF OrdersFor
<1>10. ApprovalsOf(p)' = ApprovalsOf(p) /\ \A a \in ApprovalsOf(p) : approvals'[a] = approvals[a]
  BY <1>6 DEF ApprovalsOf
<1>11. \A a \in ApprovalsOf(p) : Latest(a, p)' <=> Latest(a, p)
  BY <1>10 DEF Latest
<1>12. QED
  BY <1>2, <1>5, <1>7, <1>9, <1>10, <1>11 DEF Trail

LEMMA ReplenishedTrail ==
  ASSUME PurchaseTables, PurchaseSessions, Refers, NEW s \in Clients, Scanning(s), Buy!Commit(s),
         NEW p \in DOMAIN written[s].requisitions
  PROVE  Trail(p)'
<1>1. p \in Buy!Requisitions /\ requisitions'[p] = written[s].requisitions[p]
  BY DraftRows, Committed
<1>2. requisitions[p] = Buy!None /\ requisitions'[p].status = "Submitted"
  BY <1>1 DEF Scanning, Replenishment
<1>3. PICK a \in DOMAIN written[s].approvals : written[s].approvals[a].pr = p
  BY DEF Scanning
<1>4. \A b \in Buy!Approvals : approvals[b] # Buy!None => approvals[b].pr # p
  BY <1>2 DEF Refers
<1>5. \A o \in Buy!Orders : orders[o] # Buy!None => orders[o].pr # p
  BY <1>2 DEF Refers
<1>6. a \in Buy!Approvals /\ approvals'[a] = written[s].approvals[a] /\ approvals'[a] # Buy!None
  <2>1. a \in Buy!Approvals /\ written[s].approvals[a] \in Buy!ApprovalRow
    BY DraftRows
  <2>2. QED
    BY <2>1, Committed, NoneIsNoRow
<1>7. approvals'[a].status = "Pending" /\ approvals'[a].pr = p
  BY <1>3, <1>6 DEF Scanning
<1>8. ApprovalsOf(p)' = {a}
  <2>1. ASSUME NEW b \in Buy!Approvals, approvals'[b] # Buy!None, approvals'[b].pr = p
        PROVE  b = a
    <3>1. b \in DOMAIN written[s].approvals /\ approvals'[b] = written[s].approvals[b]
      BY <1>4, <2>1, Committed
    <3>2. QED
      BY <1>3, <2>1, <3>1 DEF Scanning
  <2>2. QED
    BY <1>6, <1>7, <2>1 DEF ApprovalsOf
<1>9. Latest(a, p)'
  BY <1>6, <1>8 DEF Latest, Buy!Approvals
<1>10. OrdersFor(p)' = {}
  <2>1. \A o \in Buy!Orders : orders'[o] = orders[o]
    BY Committed DEF Scanning
  <2>2. QED
    BY <1>5, <2>1 DEF OrdersFor
<1>11. QED
  BY <1>2, <1>7, <1>8, <1>9, <1>10 DEF Trail

LEMMA CommitTrails ==
  ASSUME PurchaseTables, PurchaseSessions, Trails, Refers, NEW s \in Clients, Shape(s), Buy!Commit(s)
  PROVE  Trails' /\ Refers'
<1>1. /\ stage[s] = "commit" /\ RowsStay /\ Owned(s) /\ PurchaseTables'
      /\ (Raising(s) /\ Raised(s)) \/ (Receiving(s) /\ Closed(s)) \/ Scanning(s)
  BY Committed, CommitRowsStay, Owns DEF Shape
<1>2. \A p \in DOMAIN written[s].requisitions :
        p \in Buy!Requisitions /\ requisitions'[p] # Buy!None
  <2>1. \A p \in DOMAIN written[s].requisitions :
          p \in Buy!Requisitions /\ written[s].requisitions[p] \in Buy!RequisitionRow
    BY DraftRows
  <2>2. QED
    BY <2>1, Committed, NoneIsNoRow
<1>3. Refers'
  <2>1. ASSUME NEW a \in Buy!Approvals, approvals'[a] # Buy!None
        PROVE  requisitions'[approvals'[a].pr] # Buy!None
    <3>1. CASE a \in DOMAIN written[s].approvals
      <4>1. approvals'[a] = written[s].approvals[a]
        BY <3>1, Committed
      <4>2. approvals'[a].pr \in DOMAIN written[s].requisitions
        BY <1>1, <3>1, <4>1 DEF Owned, OwnsApprovals
      <4>3. QED
        BY <1>2, <4>2
    <3>2. CASE a \notin DOMAIN written[s].approvals
      <4>1. approvals'[a] = approvals[a]
        BY <3>2, Committed
      <4>2. approvals[a].pr \in Buy!Requisitions /\ requisitions[approvals[a].pr] # Buy!None
        BY <2>1, <4>1, PurchaseRows DEF Refers, Buy!ApprovalRow
      <4>3. QED
        BY <1>1, <4>1, <4>2 DEF RowsStay
    <3>3. QED
      BY <3>1, <3>2
  <2>2. ASSUME NEW o \in Buy!Orders, orders'[o] # Buy!None
        PROVE  requisitions'[orders'[o].pr] # Buy!None
    <3>1. CASE o \in DOMAIN written[s].orders
      <4>1. orders'[o] = written[s].orders[o]
        BY <3>1, Committed
      <4>2. orders'[o].pr \in DOMAIN written[s].requisitions
        BY <1>1, <3>1, <4>1 DEF Owned, OwnsOrders
      <4>3. QED
        BY <1>2, <4>2
    <3>2. CASE o \notin DOMAIN written[s].orders
      <4>1. orders'[o] = orders[o]
        BY <3>2, Committed
      <4>2. orders[o].pr \in Buy!Requisitions /\ requisitions[orders[o].pr] # Buy!None
        BY <2>2, <4>1, PurchaseRows DEF Refers, Buy!OrderRow
      <4>3. QED
        BY <1>1, <4>1, <4>2 DEF RowsStay
    <3>3. QED
      BY <3>1, <3>2
  <2>3. QED
    BY <2>1, <2>2 DEF Refers
<1>4. ASSUME NEW p \in Buy!Requisitions, requisitions'[p] # Buy!None
      PROVE  Trail(p)'
  <2>1. CASE p \notin DOMAIN written[s].requisitions
    <3>1. /\ requisitions'[p] = requisitions[p]
          /\ ApprovalsOf(p)' = ApprovalsOf(p)
          /\ \A a \in ApprovalsOf(p) : approvals'[a] = approvals[a]
          /\ OrdersFor(p)' = OrdersFor(p)
          /\ \A o \in OrdersFor(p) : orders'[o] = orders[o]
      BY <2>1, TrailsUntouched
    <3>2. Trail(p)
      BY <1>4, <3>1 DEF Trails
    <3>3. QED
      BY <3>1, <3>2, TrailStays
  <2>2. CASE p \in DOMAIN written[s].requisitions /\ Raising(s) /\ Raised(s)
    <3>1. p = Buy!Target(s) /\ requisitions[p] # Buy!None
      BY <2>2 DEF Raising
    <3>2. Trail(p) /\ stage[s] # "idle"
      BY <1>1, <3>1 DEF Trails
    <3>3. purchase[s].op \in {"submit", "approve", "decide", "order"}
      BY <2>2 DEF Raising
    <3>4. CASE purchase[s].op = "submit"
      BY <2>2, <3>1, <3>2, <3>4, SubmittedTrail
    <3>5. CASE purchase[s].op \in {"approve", "decide"}
      BY <2>2, <3>1, <3>2, <3>5, DecidedTrail
    <3>6. CASE purchase[s].op = "order"
      BY <2>2, <3>1, <3>2, <3>6, OrderedTrail
    <3>7. QED
      BY <3>3, <3>4, <3>5, <3>6
  <2>3. CASE p \in DOMAIN written[s].requisitions /\ Receiving(s) /\ Closed(s)
    <3>1. requisitions[p] # Buy!None
      BY <2>3 DEF Closed
    <3>2. Trail(p) /\ stage[s] # "idle"
      BY <1>1, <3>1 DEF Trails
    <3>3. QED
      BY <2>3, <3>2, ReceivedTrail
  <2>4. CASE p \in DOMAIN written[s].requisitions /\ Scanning(s)
    BY <2>4, ReplenishedTrail
  <2>5. QED
    BY <1>1, <2>1, <2>2, <2>3, <2>4
<1>5. QED
  BY <1>3, <1>4 DEF Trails

-----------------------------------------------------------------------------
\* The stock after a commit

Bundle(S, g) == UNION {{x} \X g[x] : x \in S}

LEMMA BundleFinite ==
  ASSUME NEW S, IsFiniteSet(S), NEW g, \A x \in S : IsFiniteSet(g[x])
  PROVE  IsFiniteSet(Bundle(S, g)) /\ Cardinality(Bundle(S, g)) \in Nat
<1> DEFINE T == {{x} \X g[x] : x \in S}
           h == [x \in S |-> {x} \X g[x]]
<1>1. h \in Surjection(S, T)
  BY DEF Surjection
<1>2. IsFiniteSet(T)
  <2> HIDE DEF T, h
  <2>1. QED
    BY <1>1, FS_Surjection
<1>3. \A x \in S : IsFiniteSet({x} \X g[x])
  BY FS_Singleton, FS_Product
<1>4. \A U \in T : IsFiniteSet(U)
  BY <1>3
<1>5. IsFiniteSet(UNION T)
  <2> HIDE DEF T
  <2>1. QED
    BY <1>2, <1>4, FS_UNION
<1>6. QED
  BY <1>5, FS_CardinalityType DEF Bundle

LEMMA BundleAdded ==
  ASSUME NEW S, IsFiniteSet(S), NEW g, NEW x, x \notin S,
         \A y \in S : IsFiniteSet(g[y]), IsFiniteSet(g[x])
  PROVE  Cardinality(Bundle(S \union {x}, g)) = Cardinality(Bundle(S, g)) + Cardinality(g[x])
<1>1. Bundle(S \union {x}, g) = Bundle(S, g) \union ({x} \X g[x])
  BY DEF Bundle
<1>2. Bundle(S, g) \intersect ({x} \X g[x]) = {}
  BY DEF Bundle
<1>3. PICK A, B, n, m : /\ A = Bundle(S, g) /\ B = {x} \X g[x]
                        /\ n = Cardinality(g[x]) /\ m = Cardinality(Bundle(S, g))
  OBVIOUS
<1>4. IsFiniteSet(A) /\ Cardinality(A) = m /\ m \in Nat
  BY <1>3, BundleFinite
<1>5. IsFiniteSet(B) /\ Cardinality(B) = Cardinality({x}) * Cardinality(g[x])
  BY <1>3, FS_Singleton, FS_Product
<1>6. n \in Nat /\ Cardinality({x}) = 1
  BY <1>3, FS_CardinalityType, FS_Singleton
<1>7. Cardinality(B) = n
  BY <1>3, <1>5, <1>6
<1>8. Cardinality(A \intersect B) = 0
  BY <1>2, <1>3, FS_EmptySet
<1>9. Cardinality(A \union B) = Cardinality(A) + Cardinality(B) - Cardinality(A \intersect B)
  BY <1>4, <1>5, FS_Union
<1>10. Cardinality(A \union B) = m + n
  BY <1>4, <1>6, <1>7, <1>8, <1>9
<1>11. QED
  BY <1>1, <1>3, <1>10

LEMMA UnitsOnAll ==
  ASSUME NEW lines \in Seq(Buy!Lines), NEW i
  PROVE  /\ Buy!UnitsOn(lines, i) = UnitsUpTo(lines, i, Len(lines))
         /\ IsFiniteSet(Buy!UnitsOn(lines, i)) /\ Cardinality(Buy!UnitsOn(lines, i)) \in Nat
<1>1. DOMAIN lines = 1..Len(lines) /\ Len(lines) \in Nat
  OBVIOUS
<1>2. Buy!UnitsOn(lines, i) = UnitsUpTo(lines, i, Len(lines))
  BY <1>1 DEF Buy!UnitsOn, UnitsUpTo, Units, UnitsOf
<1>3. PICK V, g : V = {n \in 1..Len(lines) : lines[n].item = i}
                  /\ g = [n \in DOMAIN lines |-> lines[n].qty]
  OBVIOUS
<1>4. IsFiniteSet(V) /\ \A n \in V : g[n] \in Nat
  <2>1. PICK k \in Nat : k = Len(lines)
    BY <1>1
  <2>2. k <= Len(lines)
    BY <2>1
  <2>3. /\ IsFiniteSet({n \in 1..k : lines[n].item = i})
        /\ \A n \in 1..k : n \in DOMAIN lines /\ lines[n].qty \in Nat
    BY <2>1, <2>2, UnitsCounted
  <2>4. QED
    BY <1>3, <2>1, <2>3
<1>5. IsFiniteSet(Units(V, g)) /\ Cardinality(Units(V, g)) \in Nat
  BY <1>4, UnitsFinite
<1>6. QED
  BY <1>2, <1>3, <1>5 DEF UnitsUpTo

\* The orders that have been received.
ReceivedOrders == {x \in Buy!Orders : orders[x].status = "Received"}

LEMMA ReceivedCounted ==
  ASSUME NEW i
  PROVE  Buy!ReceivedOf(i) =
           Cardinality(Bundle(ReceivedOrders, [o \in Buy!Orders |-> Buy!UnitsOn(orders[o].lines, i)]))
<1>1. UNION {{o} \X Buy!UnitsOn(orders[o].lines, i) : o \in {x \in Buy!Orders : orders[x].status = "Received"}}
        = Bundle(ReceivedOrders, [o \in Buy!Orders |-> Buy!UnitsOn(orders[o].lines, i)])
  BY DEF Bundle, ReceivedOrders
<1>2. QED
  BY <1>1, BuyCardinality DEF Buy!ReceivedOf

LEMMA ReceivedSame ==
  ASSUME ReceivedOrders' = ReceivedOrders,
         \A x \in ReceivedOrders : orders'[x].lines = orders[x].lines, NEW i
  PROVE  Buy!ReceivedOf(i)' = Buy!ReceivedOf(i)
<1>1. UNION {{o} \X Buy!UnitsOn(orders'[o].lines, i) : o \in ReceivedOrders'}
        = UNION {{o} \X Buy!UnitsOn(orders[o].lines, i) : o \in ReceivedOrders}
  OBVIOUS
<1>2. QED
  BY <1>1, BuyCardinality DEF Buy!ReceivedOf, ReceivedOrders

LEMMA ReceivedMore ==
  ASSUME PurchaseTables, NEW o \in Buy!Orders, orders[o] # Buy!None, o \notin ReceivedOrders,
         ReceivedOrders' = ReceivedOrders \union {o},
         \A x \in ReceivedOrders \union {o} : orders'[x].lines = orders[x].lines, NEW i
  PROVE  /\ Buy!ReceivedOf(i)' =
              Buy!ReceivedOf(i) + Cardinality(UnitsUpTo(orders[o].lines, i, Len(orders[o].lines)))
         /\ Buy!ReceivedOf(i) \in Nat
<1>1. PICK g : g = [x \in Buy!Orders |-> Buy!UnitsOn(orders[x].lines, i)]
  OBVIOUS
<1>2. ReceivedOrders \subseteq Buy!Orders /\ IsFiniteSet(ReceivedOrders)
  <2>1. ReceivedOrders \subseteq Buy!Orders
    BY DEF ReceivedOrders
  <2>2. IsFiniteSet(Buy!Orders)
    BY PurchaseAssumption, FS_Interval DEF Buy!Orders
  <2>3. QED
    BY <2>1, <2>2, FS_Subset
<1>3. \A x \in ReceivedOrders \union {o} : orders[x].lines \in Seq(Buy!Lines)
  <2>1. \A x \in ReceivedOrders \union {o} : x \in Buy!Orders /\ orders[x] # Buy!None
    BY NoneIsNoRow DEF ReceivedOrders
  <2>2. QED
    BY <2>1, PurchaseRows DEF Buy!OrderRow
<1>4. \A x \in ReceivedOrders \union {o} : IsFiniteSet(g[x])
  BY <1>1, <1>2, <1>3, UnitsOnAll
<1>5. Cardinality(Bundle(ReceivedOrders \union {o}, g)) =
        Cardinality(Bundle(ReceivedOrders, g)) + Cardinality(g[o])
  BY <1>2, <1>4, BundleAdded
<1>6. Buy!ReceivedOf(i) = Cardinality(Bundle(ReceivedOrders, g))
      /\ Cardinality(Bundle(ReceivedOrders, g)) \in Nat
  BY <1>1, <1>2, <1>4, ReceivedCounted, BundleFinite
<1>7. Buy!ReceivedOf(i)' = Cardinality(Bundle(ReceivedOrders \union {o}, g))
  <2>1. UNION {{x} \X Buy!UnitsOn(orders'[x].lines, i) : x \in ReceivedOrders'}
          = Bundle(ReceivedOrders \union {o}, g)
    BY <1>1, <1>2 DEF Bundle
  <2>2. QED
    BY <2>1, BuyCardinality DEF Buy!ReceivedOf, ReceivedOrders
<1>8. g[o] = UnitsUpTo(orders[o].lines, i, Len(orders[o].lines))
  BY <1>1, <1>3, UnitsOnAll
<1>9. QED
  BY <1>5, <1>6, <1>7, <1>8

\* Only a receipt changes which orders are received.
LEMMA OthersReceiveNothing ==
  ASSUME PurchaseTables, PurchaseSessions, NEW s \in Clients, Shape(s), Buy!Commit(s),
         ~(Receiving(s) /\ Closed(s))
  PROVE  /\ ReceivedOrders' = ReceivedOrders /\ UNCHANGED lots
         /\ \A x \in ReceivedOrders : orders'[x].lines = orders[x].lines
<1>1. stage[s] = "commit" /\ ((Raising(s) /\ Raised(s)) \/ Scanning(s)) /\ PurchaseTables'
  BY Committed DEF Shape
<1>2. \A o \in DOMAIN written[s].orders : o \in Buy!Orders /\ orders[o] = Buy!None
                                          /\ written[s].orders[o].status # "Received"
  <2>1. CASE Scanning(s)
    BY <2>1 DEF Scanning
  <2>2. CASE Raising(s) /\ Raised(s)
    BY <2>2 DEF Raising, Raised
  <2>3. QED
    BY <1>1, <2>1, <2>2
<1>3. \A o \in Buy!Orders : orders'[o] = orders[o]
        \/ (orders[o].status # "Received" /\ orders'[o].status # "Received")
  BY <1>2, Committed, NoneIsNoRow
<1>4. DOMAIN written[s].items = {}
  BY <1>1 DEF Raising, Scanning
<1>5. lots' = lots
  BY <1>1, <1>4, Committed DEF PurchaseTables
<1>6. QED
  BY <1>3, <1>5 DEF ReceivedOrders

LEMMA CommitReceipts ==
  ASSUME PurchaseTables, PurchaseSessions, NEW s \in Clients, Shape(s), Buy!Commit(s),
         Buy!ReceiptsExplainStock
  PROVE  Buy!ReceiptsExplainStock'
<1>1. CASE ~(Receiving(s) /\ Closed(s))
  <2>1. \A i \in Buy!Items : Buy!ReceivedOf(i)' = Buy!ReceivedOf(i)
    BY <1>1, OthersReceiveNothing, ReceivedSame
  <2>2. UNCHANGED lots
    BY <1>1, OthersReceiveNothing
  <2>3. QED
    BY <2>1, <2>2 DEF Buy!ReceiptsExplainStock
<1>2. CASE Receiving(s) /\ Closed(s)
  <2>1. stage[s] # "idle"
    BY Committed
  <2>2. PICK o \in Buy!Orders : /\ o = purchase[s].order /\ orders[o] # Buy!None
                                /\ orders[o] \in Buy!OrderRow /\ orders[o].status = "Ordered"
                                /\ unpacked[s] = Len(orders[o].lines)
                                /\ DOMAIN written[s].orders = {o}
                                /\ written[s].orders[o] = [orders[o] EXCEPT !.status = "Received"]
    BY <1>2, <2>1, OrderAtHand DEF Receiving, Closed
  <2>3. orders'[o].status = "Received" /\ orders'[o].lines = orders[o].lines
        /\ \A x \in Buy!Orders \ {o} : orders'[x] = orders[x]
    <3>1. orders'[o] = [orders[o] EXCEPT !.status = "Received"]
      BY <2>2, Committed
    <3>2. QED
      BY <2>2, <3>1, Committed DEF Buy!OrderRow
  <2>4. /\ o \notin ReceivedOrders /\ ReceivedOrders' = ReceivedOrders \union {o}
        /\ \A x \in ReceivedOrders \union {o} : orders'[x].lines = orders[x].lines
    BY <2>2, <2>3 DEF ReceivedOrders
  <2>5. ASSUME NEW i \in Buy!Items
        PROVE  /\ lots'[i].received = Buy!ReceivedOf(i)'
               /\ lots'[i].stock = InitialStock[i] + lots'[i].received - lots'[i].issued
    <3>1. PICK n : n = Cardinality(UnitsUpTo(orders[o].lines, i, Len(orders[o].lines)))
      OBVIOUS
    <3>2. Buy!ReceivedOf(i)' = Buy!ReceivedOf(i) + n /\ Buy!ReceivedOf(i) \in Nat
      BY <2>2, <2>4, <3>1, ReceivedMore
    <3>3. n \in Nat
      BY <2>2, <3>1, UnitsOnAll DEF Buy!OrderRow
    <3>4. /\ lots[i] \in Buy!ItemRow /\ lots[i].received = Buy!ReceivedOf(i)
          /\ lots[i].stock = InitialStock[i] + lots[i].received - lots[i].issued
      BY PurchaseRows DEF Buy!ReceiptsExplainStock
    <3>5. InitialStock[i] \in Int
      BY PurchaseAssumption DEF Buy!Items
    <3>6. IF i \in DOMAIN written[s].items
            THEN written[s].items[i] = [lots[i] EXCEPT !.stock = @ + n, !.received = @ + n]
            ELSE n = 0
      BY <1>2, <2>2, <3>1 DEF Receiving
    <3>7. /\ lots[i].stock \in Int /\ lots[i].received \in Nat /\ lots[i].issued \in Nat
      BY <3>4 DEF Buy!ItemRow
    <3>8. /\ lots'[i].received = lots[i].received + n /\ lots'[i].stock = lots[i].stock + n
          /\ lots'[i].issued = lots[i].issued
      <4>1. CASE i \in DOMAIN written[s].items
        <5>1. lots'[i] = [stock |-> lots[i].stock + n, received |-> lots[i].received + n,
                          issued |-> lots[i].issued]
          BY <3>3, <3>4, <3>6, <4>1, Committed, StockBooked
        <5>2. QED
          BY <5>1
      <4>2. CASE i \notin DOMAIN written[s].items
        <5>1. lots'[i] = lots[i] /\ n = 0
          BY <3>6, <4>2, Committed
        <5>2. QED
          BY <3>7, <5>1
      <4>3. QED
        BY <4>1, <4>2
    <3>9. QED
      BY <3>2, <3>3, <3>4, <3>5, <3>7, <3>8
  <2>6. QED
    BY <2>5 DEF Buy!ReceiptsExplainStock
<1>3. QED
  BY <1>1, <1>2

-----------------------------------------------------------------------------
\* Replenishment after a commit

LEMMA AutomaticStays ==
  ASSUME RowsStay, NEW q \in Buy!Requisitions, requisitions[q] # Buy!None, NEW i
  PROVE  Buy!Automatic(q, i)' <=> Buy!Automatic(q, i)
BY DEF RowsStay, Buy!Automatic, Buy!Covers

\* A requisition that was not there before the commit is one that a scan made.
LEMMA NewlyAutomatic ==
  ASSUME PurchaseTables, PurchaseSessions, NEW s \in Clients, Shape(s), Buy!Commit(s),
         NEW p \in Buy!Requisitions, requisitions[p] = Buy!None,
         NEW i \in Buy!Items, Buy!Automatic(p, i)'
  PROVE  /\ p \in DOMAIN written[s].requisitions /\ Scanning(s)
         /\ Buy!Covers(written[s].requisitions[p], i)
         /\ Buy!Low(lots, i) /\ Unfilled(i) /\ UNCHANGED lots
<1>1. /\ stage[s] = "commit" /\ PurchaseTables'
      /\ (Raising(s) /\ Raised(s)) \/ (Receiving(s) /\ Closed(s)) \/ Scanning(s)
  BY Committed DEF Shape
<1>2. requisitions'[p] # Buy!None /\ Buy!Covers(requisitions'[p], i)
  BY DEF Buy!Automatic, Buy!Covers
<1>3. p \in DOMAIN written[s].requisitions /\ requisitions'[p] = written[s].requisitions[p]
  BY <1>2, Committed
<1>4. Scanning(s)
  BY <1>1, <1>3 DEF Raising, Receiving, Closed
<1>5. PICK j \in Buy!Items : /\ Replenishment(written[s].requisitions[p], j)
                             /\ Buy!Low(lots, j) /\ Unfilled(j)
  BY <1>3, <1>4 DEF Scanning
<1>6. i = j
  BY <1>2, <1>3, <1>5 DEF Replenishment
<1>7. lots' = lots
  <2>1. DOMAIN written[s].items = {}
    BY <1>4 DEF Scanning
  <2>2. QED
    BY <1>1, <2>1, Committed DEF PurchaseTables
<1>8. QED
  BY <1>2, <1>3, <1>4, <1>5, <1>6, <1>7

LEMMA CommitReplenishes ==
  ASSUME PurchaseTables, PurchaseSessions, Trails, NEW s \in Clients, Shape(s), Buy!Commit(s),
         Buy!ReplenishesOnce
  PROVE  Buy!ReplenishesOnce'
<1>1. RowsStay
  BY CommitRowsStay
<1>2. ASSUME NEW i \in Buy!Items, NEW p \in Buy!Requisitions, NEW q \in Buy!Requisitions,
             requisitions[p] = Buy!None, p # q, Buy!Automatic(p, i)', Buy!Automatic(q, i)',
             Buy!InProgress(q)'
      PROVE  Buy!WasRejected(q)'
  <2>1. /\ p \in DOMAIN written[s].requisitions /\ Scanning(s)
        /\ Buy!Covers(written[s].requisitions[p], i) /\ Unfilled(i)
    BY <1>2, NewlyAutomatic
  <2>2. CASE requisitions[q] = Buy!None
    <3>1. q \in DOMAIN written[s].requisitions /\ Buy!Covers(written[s].requisitions[q], i)
      BY <1>2, <2>2, NewlyAutomatic
    <3>2. QED
      BY <1>2, <2>1, <3>1 DEF Scanning
  <2>3. CASE requisitions[q] # Buy!None
    <3>1. Buy!Automatic(q, i)
      BY <1>1, <1>2, <2>3, AutomaticStays
    <3>2. Buy!InProgress(q) \/ Buy!WasRejected(q)
      BY <1>2, <2>3, ProgressAfterCommit
    <3>3. Buy!WasRejected(q)
      BY <2>1, <3>1, <3>2 DEF Unfilled
    <3>4. QED
      BY <1>1, <3>3, RejectedStays
  <2>4. QED
    BY <2>2, <2>3
<1>3. ASSUME NEW i \in Buy!Items, NEW p \in Buy!Requisitions, NEW q \in Buy!Requisitions,
             requisitions[p] # Buy!None, requisitions[q] # Buy!None, p # q,
             Buy!Automatic(p, i)', Buy!Automatic(q, i)', Buy!InProgress(p)', Buy!InProgress(q)'
      PROVE  Buy!WasRejected(p)' \/ Buy!WasRejected(q)'
  <2>1. Buy!Automatic(p, i) /\ Buy!Automatic(q, i)
    BY <1>1, <1>3, AutomaticStays
  <2>2. Buy!InProgress(p) \/ Buy!WasRejected(p)
    BY <1>3, ProgressAfterCommit
  <2>3. Buy!InProgress(q) \/ Buy!WasRejected(q)
    BY <1>3, ProgressAfterCommit
  <2>4. Buy!WasRejected(p) \/ Buy!WasRejected(q)
    BY <1>3, <2>1, <2>2, <2>3 DEF Buy!ReplenishesOnce
  <2>5. Buy!WasRejected(p) => Buy!WasRejected(p)'
    BY <1>1, RejectedStays
  <2>6. Buy!WasRejected(q) => Buy!WasRejected(q)'
    BY <1>1, RejectedStays
  <2>7. QED
    BY <2>4, <2>5, <2>6
<1>4. ASSUME NEW i \in Buy!Items, NEW p \in Buy!Requisitions, NEW q \in Buy!Requisitions,
             p # q, Buy!Automatic(p, i)', Buy!Automatic(q, i)',
             Buy!InProgress(p)', Buy!InProgress(q)'
      PROVE  Buy!WasRejected(p)' \/ Buy!WasRejected(q)'
  <2>1. CASE requisitions[p] = Buy!None
    BY <1>2, <1>4, <2>1
  <2>2. CASE requisitions[q] = Buy!None
    BY <1>2, <1>4, <2>2
  <2>3. CASE requisitions[p] # Buy!None /\ requisitions[q] # Buy!None
    BY <1>3, <1>4, <2>3
  <2>4. QED
    BY <2>1, <2>2, <2>3
<1>5. QED
  BY <1>4 DEF Buy!ReplenishesOnce

LEMMA PurchaseCommits ==
  ASSUME PurchaseInv, NEW s \in Clients, Buy!Commit(s)
  PROVE  PurchaseInv'
<1>1. /\ PurchaseTables /\ PurchaseSessions /\ Shapes /\ Shape(s) /\ Apart /\ Trails /\ Refers
      /\ Buy!ReceiptsExplainStock /\ Buy!ReplenishesOnce
  BY DEF PurchaseInv, Shapes
<1>2. PurchaseTables' /\ Buy!End(s)
  BY <1>1, Committed
<1>3. /\ PurchaseSessions' /\ Shape(s)'
      /\ written'[s] = Buy!Clean /\ locked'[s] = {}
      /\ \A t \in Clients \ {s} : SameRequest(t)
  BY <1>1, <1>2, RequestEnds
<1>4. ASSUME NEW t \in Clients \ {s}
      PROVE  Shape(t)'
  <2>1. Spares(t)
    BY <1>1, CommitSpares
  <2>2. Shape(t) /\ SameRequest(t)
    BY <1>1, <1>3 DEF Shapes
  <2>3. QED
    BY <1>1, <2>1, <2>2, ShapeStays
<1>5. Shapes'
  BY <1>3, <1>4 DEF Shapes
<1>6. Apart'
  <2>1. ASSUME NEW t \in Clients, NEW u \in Clients, t # u
        PROVE  Clear(t, u)'
    <3>1. CASE t = s \/ u = s
      BY <1>3, <3>1, CleanDraft DEF Clear
    <3>2. CASE t # s /\ u # s
      <4>1. Clear(t, u) /\ SameRequest(t) /\ SameRequest(u)
        BY <1>1, <1>3, <2>1, <3>2 DEF Apart
      <4>2. QED
        BY <4>1 DEF Clear, SameRequest
    <3>3. QED
      BY <3>1, <3>2
  <2>2. QED
    BY <2>1 DEF Apart
<1>7. Trails' /\ Refers'
  BY <1>1, CommitTrails
<1>8. Buy!ReceiptsExplainStock'
  BY <1>1, CommitReceipts
<1>9. Buy!ReplenishesOnce'
  BY <1>1, CommitReplenishes
<1>10. QED
  BY <1>2, <1>3, <1>5, <1>6, <1>7, <1>8, <1>9 DEF PurchaseInv

-----------------------------------------------------------------------------
\* Requisitions that users write, and what the field consumes

LEMMA CreatedSpares ==
  ASSUME PurchaseTables, PurchaseSessions, NEW p \in Buy!Requisitions,
         requisitions[p] = Buy!None, \A t \in Clients : p \notin DOMAIN written[t].requisitions,
         NEW row \in Buy!RequisitionRow, row.automatic = FALSE,
         requisitions' = [requisitions EXCEPT ![p] = row],
         UNCHANGED <<approvals, orders, lots>>, NEW t \in Clients
  PROVE  Spares(t)
<1>1. /\ requisitions'[p] = row /\ row # Buy!None
      /\ \A q \in Buy!Requisitions : q # p => requisitions'[q] = requisitions[q]
  BY NoneIsNoRow DEF PurchaseTables
<1>2. \A q \in Buy!Requisitions : requisitions[q] # Buy!None => requisitions'[q] = requisitions[q]
  BY <1>1
<1>3. \A q : ApprovalsOf(q)' = ApprovalsOf(q)
  BY DEF ApprovalsOf
<1>4. ASSUME NEW i \in Buy!Items, Unfilled(i)
      PROVE  Unfilled(i)'
  <2>1. ASSUME NEW q \in Buy!Requisitions, Buy!Automatic(q, i)', Buy!InProgress(q)'
        PROVE  Buy!WasRejected(q)'
    <3>1. q # p
      BY <1>1, <2>1 DEF Buy!Automatic
    <3>2. Buy!Automatic(q, i) /\ Buy!InProgress(q)
      BY <1>1, <2>1, <3>1 DEF Buy!Automatic, Buy!InProgress
    <3>3. Buy!WasRejected(q)
      BY <1>4, <3>2 DEF Unfilled
    <3>4. QED
      BY <3>3 DEF Buy!WasRejected
  <2>2. QED
    BY <2>1 DEF Unfilled
<1>5. \A q \in DOMAIN written[t].requisitions :
        requisitions[q] = Buy!None => requisitions'[q] = Buy!None
  BY <1>1, DraftRows
<1>6. QED
  BY <1>2, <1>3, <1>4, <1>5 DEF Spares

LEMMA CreateKeeps ==
  ASSUME PurchaseInv, Buy!CreateRequisition
  PROVE  PurchaseInv'
<1>1. /\ PurchaseTables /\ PurchaseSessions /\ Shapes /\ Apart /\ Trails /\ Refers
      /\ Buy!ReceiptsExplainStock /\ Buy!ReplenishesOnce
  BY DEF PurchaseInv
<1>2. PICK lines \in Baskets, p \in Buy!Requisitions :
        /\ p = Buy!NextRequisition
        /\ requisitions' = [requisitions EXCEPT ![p] =
                              [status |-> "Draft", automatic |-> FALSE, lines |-> lines]]
        /\ UNCHANGED <<approvals, orders, lots, purchase, stage, ahead, unpacked, written, locked>>
  BY DEF Buy!CreateRequisition, Buy!progress
<1>3. lines \in Seq(Buy!Lines)
  <2>1. Buy!Lines = [item : 0..NumItems, qty : Nat \ {0}]
    <3>1. Buy!Items \union {Buy!NotStocked} = 0..NumItems
      BY PurchaseAssumption DEF Buy!Items, Buy!NotStocked
    <3>2. QED
      BY <3>1 DEF Buy!Lines
  <2>2. QED
    BY <2>1, PurchaseAssumption
<1>4. PICK row : row = [status |-> "Draft", automatic |-> FALSE, lines |-> lines]
  OBVIOUS
<1>5. /\ row \in Buy!RequisitionRow /\ row.automatic = FALSE /\ row.status = "Draft"
      /\ requisitions' = [requisitions EXCEPT ![p] = row]
  <2>1. "Draft" \in {"Draft", "Submitted", "Approved", "Rejected", "Ordered", "Received"}
    OBVIOUS
  <2>2. row \in Buy!RequisitionRow
    BY <1>3, <1>4, <2>1 DEF Buy!RequisitionRow
  <2>3. QED
    BY <1>2, <1>4, <2>2
<1>6. requisitions[p] = Buy!None /\ \A t \in Clients : p \notin DOMAIN written[t].requisitions
  BY <1>1, <1>2, FreshRequisition
<1>7. /\ requisitions'[p] = row /\ row # Buy!None
      /\ \A q \in Buy!Requisitions : q # p => requisitions'[q] = requisitions[q]
  BY <1>1, <1>5, NoneIsNoRow DEF PurchaseTables
<1>8. PurchaseTables'
  BY <1>1, <1>2, <1>5 DEF PurchaseTables
<1>9. PurchaseSessions' /\ \A t \in Clients : SameRequest(t)
  BY <1>1, <1>2 DEF PurchaseSessions, SameRequest
<1>10. Shapes'
  <2>1. ASSUME NEW t \in Clients
        PROVE  Shape(t)'
    <3>1. Spares(t)
      BY <1>1, <1>2, <1>5, <1>6, CreatedSpares
    <3>2. QED
      BY <1>1, <1>9, <3>1, ShapeStays DEF Shapes
  <2>2. QED
    BY <2>1 DEF Shapes
<1>11. Apart'
  BY <1>1, <1>2 DEF Apart, Clear
<1>12. /\ \A q : ApprovalsOf(q)' = ApprovalsOf(q) /\ OrdersFor(q)' = OrdersFor(q)
       /\ UNCHANGED <<approvals, orders>>
  BY <1>2 DEF ApprovalsOf, OrdersFor
<1>13. Trails'
  <2>1. ASSUME NEW q \in Buy!Requisitions, requisitions'[q] # Buy!None
        PROVE  Trail(q)'
    <3>1. CASE q = p
      <4>1. ApprovalsOf(p) = {} /\ OrdersFor(p) = {}
        BY <1>1, <1>6 DEF Refers, ApprovalsOf, OrdersFor
      <4>2. ApprovalsOf(p)' = {} /\ OrdersFor(p)' = {} /\ requisitions'[p].status = "Draft"
        BY <1>5, <1>7, <1>12, <4>1
      <4>3. QED
        BY <3>1, <4>2 DEF Trail
    <3>2. CASE q # p
      <4>1. Trail(q) /\ requisitions'[q] = requisitions[q]
        BY <1>1, <1>7, <2>1, <3>2 DEF Trails
      <4>2. QED
        BY <1>12, <4>1, TrailStays
    <3>3. QED
      BY <3>1, <3>2
  <2>2. QED
    BY <2>1 DEF Trails
<1>14. Refers'
  <2>1. \A a \in Buy!Approvals : approvals[a] # Buy!None => approvals[a].pr \in Buy!Requisitions
    BY <1>1, PurchaseRows DEF Buy!ApprovalRow
  <2>2. \A o \in Buy!Orders : orders[o] # Buy!None => orders[o].pr \in Buy!Requisitions
    BY <1>1, PurchaseRows DEF Buy!OrderRow
  <2>3. \A q \in Buy!Requisitions : requisitions[q] # Buy!None => requisitions'[q] # Buy!None
    BY <1>7
  <2>4. QED
    BY <1>1, <1>12, <2>1, <2>2, <2>3 DEF Refers
<1>15. Buy!ReceiptsExplainStock'
  BY <1>1, <1>2 DEF Buy!ReceiptsExplainStock, Buy!ReceivedOf
<1>16. Buy!ReplenishesOnce'
  <2>1. ASSUME NEW i \in Buy!Items, NEW q \in Buy!Requisitions, Buy!Automatic(q, i)'
        PROVE  Buy!Automatic(q, i) /\ q # p
    BY <1>5, <1>7, <2>1 DEF Buy!Automatic
  <2>2. \A q \in Buy!Requisitions : q # p => (Buy!InProgress(q)' <=> Buy!InProgress(q))
    BY <1>7 DEF Buy!InProgress
  <2>3. \A q \in Buy!Requisitions : Buy!WasRejected(q) => Buy!WasRejected(q)'
    BY <1>12 DEF Buy!WasRejected
  <2>4. ASSUME NEW i \in Buy!Items, NEW q \in Buy!Requisitions, NEW r \in Buy!Requisitions,
               q # r, Buy!Automatic(q, i)', Buy!Automatic(r, i)',
               Buy!InProgress(q)', Buy!InProgress(r)'
        PROVE  Buy!WasRejected(q)' \/ Buy!WasRejected(r)'
    <3>1. /\ Buy!Automatic(q, i) /\ Buy!Automatic(r, i) /\ Buy!InProgress(q) /\ Buy!InProgress(r)
      BY <2>1, <2>2, <2>4
    <3>2. Buy!WasRejected(q) \/ Buy!WasRejected(r)
      BY <1>1, <2>4, <3>1 DEF Buy!ReplenishesOnce
    <3>3. QED
      BY <2>3, <3>2
  <2>5. QED
    BY <2>4 DEF Buy!ReplenishesOnce
<1>17. QED
  BY <1>8, <1>9, <1>10, <1>11, <1>13, <1>14, <1>15, <1>16 DEF PurchaseInv

LEMMA ConsumeKeeps ==
  ASSUME PurchaseInv, Buy!Consume
  PROVE  PurchaseInv'
<1>1. /\ PurchaseTables /\ PurchaseSessions /\ Shapes /\ Apart /\ Trails /\ Refers
      /\ Buy!ReceiptsExplainStock /\ Buy!ReplenishesOnce
  BY DEF PurchaseInv
<1>2. PICK i \in Buy!Items :
        /\ \A s \in Clients : Buy!Item(i) \notin locked[s]
        /\ lots' = [lots EXCEPT ![i].stock = @ - 1, ![i].issued = @ + 1]
        /\ UNCHANGED <<requisitions, approvals, orders, purchase, stage, ahead, unpacked,
                       written, locked>>
  BY DEF Buy!Consume, Buy!progress
<1>3. lots[i] \in Buy!ItemRow /\ lots \in [Buy!Items -> Buy!ItemRow]
  BY <1>1, PurchaseRows DEF PurchaseTables
<1>4. /\ lots'[i].stock = lots[i].stock - 1 /\ lots'[i].issued = lots[i].issued + 1
      /\ lots'[i].received = lots[i].received /\ lots' \in [Buy!Items -> Buy!ItemRow]
      /\ \A j \in Buy!Items : j # i => lots'[j] = lots[j]
  <2>1. PICK x \in Int, y \in Nat : x = lots[i].stock - 1 /\ y = lots[i].issued + 1
    <3>1. lots[i].stock \in Int /\ lots[i].issued \in Nat
      BY <1>3 DEF Buy!ItemRow
    <3>2. lots[i].stock - 1 \in Int /\ lots[i].issued + 1 \in Nat
      BY <3>1
    <3>3. QED
      BY <3>2
  <2>2. PICK one : one = [lots[i] EXCEPT !.stock = x]
    OBVIOUS
  <2>3. /\ one \in Buy!ItemRow /\ one.stock = x /\ one.issued = lots[i].issued
        /\ one.received = lots[i].received
    BY <1>3, <2>2 DEF Buy!ItemRow
  <2>4. PICK two : two = [one EXCEPT !.issued = y]
    OBVIOUS
  <2>5. /\ two \in Buy!ItemRow /\ two.stock = x /\ two.issued = y
        /\ two.received = lots[i].received
    BY <2>3, <2>4 DEF Buy!ItemRow
  <2>6. lots' = [lots EXCEPT ![i] = two]
    BY <1>2, <1>3, <2>1, <2>2, <2>3, <2>4
  <2>7. QED
    BY <1>3, <2>1, <2>5, <2>6
<1>5. PurchaseTables'
  BY <1>1, <1>2, <1>4 DEF PurchaseTables
<1>6. PurchaseSessions' /\ \A t \in Clients : SameRequest(t)
  BY <1>1, <1>2 DEF PurchaseSessions, SameRequest
<1>7. Shapes'
  <2>1. ASSUME NEW t \in Clients
        PROVE  Shape(t)'
    <3>1. \A q : ApprovalsOf(q)' = ApprovalsOf(q)
      BY <1>2 DEF ApprovalsOf
    <3>2. \A j \in Buy!Items : Buy!Item(j) \in locked[t] => lots'[j] = lots[j]
      BY <1>2, <1>4
    <3>3. \A j : Unfilled(j)' <=> Unfilled(j)
      BY <1>2, UnfilledRests
    <3>4. Spares(t)
      BY <1>2, <3>1, <3>2, <3>3 DEF Spares
    <3>5. QED
      BY <1>1, <1>6, <3>4, ShapeStays DEF Shapes
  <2>2. QED
    BY <2>1 DEF Shapes
<1>8. Apart'
  BY <1>1, <1>2 DEF Apart, Clear
<1>9. Trails' /\ Refers' /\ Buy!ReplenishesOnce'
  <2>1. Trails'
    BY <1>1, <1>2 DEF Trails, Trail, ApprovalsOf, OrdersFor, Latest
  <2>2. Refers'
    BY <1>1, <1>2 DEF Refers
  <2>3. Buy!ReplenishesOnce'
    BY <1>1, <1>2
       DEF Buy!ReplenishesOnce, Buy!Automatic, Buy!InProgress, Buy!WasRejected, Buy!Covers
  <2>4. QED
    BY <2>1, <2>2, <2>3
<1>10. Buy!ReceiptsExplainStock'
  <2>1. ASSUME NEW j \in Buy!Items
        PROVE  /\ lots'[j].received = Buy!ReceivedOf(j)'
               /\ lots'[j].stock = InitialStock[j] + lots'[j].received - lots'[j].issued
    <3>1. Buy!ReceivedOf(j)' = Buy!ReceivedOf(j)
      BY <1>2 DEF Buy!ReceivedOf
    <3>2. /\ lots[j].received = Buy!ReceivedOf(j)
          /\ lots[j].stock = InitialStock[j] + lots[j].received - lots[j].issued
      BY <1>1 DEF Buy!ReceiptsExplainStock
    <3>3. CASE j = i
      <4>1. /\ lots[i].stock \in Int /\ lots[i].received \in Nat /\ lots[i].issued \in Nat
            /\ InitialStock[i] \in Int
        BY <1>3, PurchaseAssumption DEF Buy!ItemRow, Buy!Items
      <4>2. QED
        BY <1>4, <3>1, <3>2, <3>3, <4>1
    <3>4. CASE j # i
      BY <1>4, <3>1, <3>2, <3>4
    <3>5. QED
      BY <3>3, <3>4
  <2>2. QED
    BY <2>1 DEF Buy!ReceiptsExplainStock
<1>11. QED
  BY <1>5, <1>6, <1>7, <1>8, <1>9, <1>10 DEF PurchaseInv

-----------------------------------------------------------------------------
\* What the invariant says of purchases

LEMMA PurchaseInit == Buy!Init => PurchaseInv
<1> SUFFICES ASSUME Buy!Init PROVE PurchaseInv
  OBVIOUS
<1>1. /\ \A p \in Buy!Requisitions : requisitions[p] = Buy!None
      /\ \A a \in Buy!Approvals : approvals[a] = Buy!None
      /\ \A o \in Buy!Orders : orders[o] = Buy!None
  BY DEF Buy!Init
<1>2. PurchaseTables
  <2>1. \A i \in Buy!Items : [stock |-> InitialStock[i], received |-> 0, issued |-> 0] \in Buy!ItemRow
    BY PurchaseAssumption DEF Buy!Items, Buy!ItemRow
  <2>2. QED
    BY <2>1 DEF Buy!Init, PurchaseTables
<1>3. PurchaseSessions
  BY CleanDraft DEF Buy!Init, PurchaseSessions
<1>4. \A s \in Clients : stage[s] = "idle" /\ locked[s] = {} /\ written[s] = Buy!Clean
  BY DEF Buy!Init
<1>5. Shapes /\ Apart
  BY <1>4, CleanDraft DEF Shapes, Shape, Apart, Clear
<1>6. Trails /\ Refers
  BY <1>1 DEF Trails, Refers
<1>7. Buy!ReceiptsExplainStock
  <2>1. {x \in Buy!Orders : orders[x].status = "Received"} = {}
    BY <1>1, NoneIsNoRow
  <2>2. \A i : Buy!ReceivedOf(i) = 0
    <3>1. \A i : UNION {{o} \X Buy!UnitsOn(orders[o].lines, i) :
                          o \in {x \in Buy!Orders : orders[x].status = "Received"}} = {}
      BY <2>1
    <3>2. QED
      BY <3>1, BuyCardinality, FS_EmptySet DEF Buy!ReceivedOf
  <2>3. \A i \in Buy!Items : /\ lots[i].received = 0 /\ lots[i].issued = 0
                             /\ lots[i].stock = InitialStock[i] /\ InitialStock[i] \in Int
    BY PurchaseAssumption DEF Buy!Init, Buy!Items
  <2>4. QED
    BY <2>2, <2>3 DEF Buy!ReceiptsExplainStock
<1>8. Buy!ReplenishesOnce
  BY <1>1 DEF Buy!ReplenishesOnce, Buy!Automatic
<1>9. QED
  BY <1>2, <1>3, <1>5, <1>6, <1>7, <1>8 DEF PurchaseInv

LEMMA PurchaseRests ==
  ASSUME PurchaseInv, UNCHANGED purchaseVars
  PROVE  PurchaseInv'
<1>1. UNCHANGED <<requisitions, approvals, orders, lots, purchase, stage, ahead, unpacked,
                  written, locked>>
  BY DEF purchaseVars
<1>2. /\ PurchaseTables' /\ Trails' /\ Refers'
      /\ Buy!ReceiptsExplainStock' /\ Buy!ReplenishesOnce'
  BY <1>1, TablesRest DEF PurchaseInv
<1>3. PurchaseSessions' /\ Apart' /\ \A s \in Clients : SameRequest(s)
  BY <1>1 DEF PurchaseInv, PurchaseSessions, Apart, Clear, SameRequest
<1>4. ASSUME NEW s \in Clients
      PROVE  Shape(s)'
  <2>1. Spares(s)
    BY <1>1, QuietSpares
  <2>2. QED
    BY <1>3, <2>1, ShapeStays DEF PurchaseInv, Shapes
<1>5. QED
  BY <1>2, <1>3, <1>4 DEF PurchaseInv, Shapes

LEMMA PurchaseKept ==
  ASSUME PurchaseInv, [Buy!Next]_purchaseVars
  PROVE  PurchaseInv'
<1>1. ASSUME NEW s \in Clients, Buy!SessionStep(s)
      PROVE  PurchaseInv'
  BY <1>1, BegunKeeps, ClaimRequisitionKeeps, QueueApprovalKeeps, ResolveApprovalKeeps,
     DecideApprovalKeeps, PlaceOrderKeeps, ClaimOrderKeeps, ReceiveLineKeeps,
     CloseRequisitionKeeps, ReplenishKeeps, FinishScanKeeps, PurchaseCommits, PurchaseGivenUp
     DEF Buy!SessionStep
<1>2. CASE Buy!CreateRequisition
  BY <1>2, CreateKeeps
<1>3. CASE Buy!Consume
  BY <1>3, ConsumeKeeps
<1>4. CASE UNCHANGED purchaseVars
  BY <1>4, PurchaseRests
<1>5. QED
  BY <1>1, <1>2, <1>3, <1>4 DEF Buy!Next

\* The inductive invariant holds in every behaviour of the records.
LEMMA PurchaseInvariant == Spec => []PurchaseInv
<1>1. Init => PurchaseInv
  BY PurchaseInit DEF Init
<1>2. PurchaseInv /\ [Next]_vars => PurchaseInv'
  BY ComponentSteps, PurchaseKept
<1>3. QED
  BY <1>1, <1>2, PTL DEF Spec

\* The only pending request of a requisition is its last one.
LEMMA PendingCounted ==
  ASSUME PurchaseTables, NEW p \in Buy!Requisitions, Trail(p)
  PROVE  Buy!Cardinality(Buy!PendingOf(approvals, p)) =
           IF requisitions[p].status = "Submitted" THEN 1 ELSE 0
<1>1. Buy!PendingOf(approvals, p) = {a \in ApprovalsOf(p) : approvals[a].status = "Pending"}
  BY NoneIsNoRow DEF Buy!PendingOf, ApprovalsOf, PurchaseTables
<1>2. CASE requisitions[p].status = "Submitted"
  <2>1. PICK a \in ApprovalsOf(p) : approvals[a].status = "Pending"
    BY <1>2 DEF Trail
  <2>2. ASSUME NEW b \in ApprovalsOf(p), approvals[b].status = "Pending"
        PROVE  b = a
    <3>1. Latest(a, p) /\ Latest(b, p)
      BY <2>1, <2>2 DEF Trail
    <3>2. a <= b /\ b <= a /\ a \in Int /\ b \in Int
      BY <3>1 DEF Latest, ApprovalsOf, Buy!Approvals
    <3>3. QED
      BY <3>2
  <2>3. Buy!PendingOf(approvals, p) = {a}
    BY <1>1, <2>1, <2>2
  <2>4. QED
    BY <1>2, <2>3, BuyCardinality, FS_Singleton
<1>3. CASE requisitions[p].status # "Submitted"
  <2>1. Buy!PendingOf(approvals, p) = {}
    BY <1>1, <1>3 DEF Trail
  <2>2. QED
    BY <1>3, <2>1, BuyCardinality, FS_EmptySet
<1>4. QED
  BY <1>2, <1>3

LEMMA LatestIsMax ==
  ASSUME NEW p, NEW a, Latest(a, p)
  PROVE  Buy!Max({b \in Buy!Approvals : approvals[b] # Buy!None /\ approvals[b].pr = p}) = a
<1>1. PICK S : S = ApprovalsOf(p)
  OBVIOUS
<1>2. S \subseteq Int /\ S \subseteq Buy!Approvals /\ S # {} /\ a \in S /\ \A b \in S : b <= a
  BY <1>1 DEF Latest, ApprovalsOf, Buy!Approvals
<1>3. IsFiniteSet(Buy!Approvals)
  BY PurchaseAssumption, FS_Interval DEF Buy!Approvals
<1>4. IsFiniteSet(S)
  BY <1>2, <1>3, FS_Subset
<1>5. Buy!Max(S) \in S /\ \A y \in S : y <= Buy!Max(S)
  BY <1>2, <1>4, BuyMax
<1>6. Buy!Max(S) = a
  <2>1. /\ a \in Int /\ Buy!Max(S) \in Int /\ a <= Buy!Max(S) /\ Buy!Max(S) <= a
    BY <1>2, <1>5
  <2>2. QED
    BY <2>1
<1>7. QED
  BY <1>1, <1>6 DEF ApprovalsOf

LEMMA OrdersCounted ==
  ASSUME NEW p, Trail(p), NEW at \in {"Ordered", "Received"}
  PROVE  Buy!Cardinality(Buy!OrdersOf(p, at)) = IF requisitions[p].status = at THEN 1 ELSE 0
<1>1. Buy!OrdersOf(p, at) = {o \in OrdersFor(p) : orders[o].status = at}
  BY NoneIsNoRow DEF Buy!OrdersOf, OrdersFor
<1>2. CASE requisitions[p].status = at
  <2>1. PICK o \in OrdersFor(p) : TRUE
    BY <1>2 DEF Trail
  <2>2. Buy!OrdersOf(p, at) = {o}
    BY <1>1, <1>2, <2>1 DEF Trail
  <2>3. QED
    BY <1>2, <2>2, BuyCardinality, FS_Singleton
<1>3. CASE requisitions[p].status # at
  <2>1. Buy!OrdersOf(p, at) = {}
    BY <1>1, <1>3 DEF Trail
  <2>2. QED
    BY <1>3, <2>1, BuyCardinality, FS_EmptySet
<1>4. QED
  BY <1>2, <1>3

LEMMA TrailAgrees ==
  ASSUME PurchaseTables, Trails
  PROVE  Buy!PaperTrailAgrees
<1> SUFFICES ASSUME NEW p \in Buy!Requisitions, requisitions[p] # Buy!None
             PROVE  /\ Buy!Cardinality(Buy!PendingOf(approvals, p)) =
                         IF requisitions[p].status = "Submitted" THEN 1 ELSE 0
                    /\ LET decided == {a \in Buy!Approvals :
                                         approvals[a] # Buy!None /\ approvals[a].pr = p} IN
                       /\ requisitions[p].status = "Rejected" =>
                            approvals[Buy!Max(decided)].status = "Rejected"
                       /\ requisitions[p].status \in {"Approved", "Ordered", "Received"} =>
                            decided # {} /\ approvals[Buy!Max(decided)].status = "Approved"
                    /\ \A at \in {"Ordered", "Received"} :
                         Buy!Cardinality(Buy!OrdersOf(p, at)) =
                           IF requisitions[p].status = at THEN 1 ELSE 0
  BY DEF Buy!PaperTrailAgrees
<1>1. Trail(p)
  BY DEF Trails
<1>2. PICK decided : decided = {a \in Buy!Approvals : approvals[a] # Buy!None /\ approvals[a].pr = p}
  OBVIOUS
<1>3. \A a : Latest(a, p) => Buy!Max(decided) = a /\ decided # {}
  <2>1. ASSUME NEW a, Latest(a, p)
        PROVE  Buy!Max(decided) = a /\ decided # {}
    <3>1. Buy!Max(decided) = a
      BY <1>2, <2>1, LatestIsMax
    <3>2. a \in decided
      BY <1>2, <2>1 DEF Latest, ApprovalsOf
    <3>3. QED
      BY <3>1, <3>2
  <2>2. QED
    BY <2>1
<1>4. requisitions[p].status = "Rejected" => approvals[Buy!Max(decided)].status = "Rejected"
  BY <1>1, <1>3 DEF Trail
<1>5. requisitions[p].status \in {"Approved", "Ordered", "Received"} =>
        decided # {} /\ approvals[Buy!Max(decided)].status = "Approved"
  BY <1>1, <1>3 DEF Trail
<1>6. QED
  BY <1>1, <1>2, <1>4, <1>5, PendingCounted, OrdersCounted

(* Whoever submits, approves, decides, orders and receives at once, whatever *)
(* commits or is rolled back: a requisition waits for exactly one decision   *)
(* while it is Submitted and for none otherwise, bears its last one, and has *)
(* one order, of its own status, from Ordered on (the conditional UPDATEs of *)
(* app/procurement_store.py and decide_approval_atomic); and the receipts    *)
(* booked of an item are the lines of the received orders, each once         *)
(* (receive_purchase_order_atomic), so that with the issues they explain the *)
(* stock.                                                                    *)
THEOREM RecordsAgreeHolds == Spec => []RecordsAgree
<1>1. ASSUME PurchaseInv
      PROVE  RecordsAgree
  <2>1. PurchaseTables /\ PurchaseSessions /\ Trails /\ Buy!ReceiptsExplainStock
    BY <1>1 DEF PurchaseInv
  <2>2. Buy!TypeOK
    BY <2>1 DEF PurchaseTables, PurchaseSessions, Buy!TypeOK
  <2>3. Buy!PaperTrailAgrees
    BY <2>1, TrailAgrees
  <2>4. QED
    BY <2>1, <2>2, <2>3 DEF RecordsAgree, Buy!RecordsAgree
<1>2. QED
  BY <1>1, PurchaseInvariant, PTL

(* "Create at most one active automatic replenishment PR per low-stock item" *)
(* (app/reorder_store.py): of concurrent scans, issues and receipts, two     *)
(* automatic requisitions of an item are in progress together only if one of *)
(* them had been rejected and was submitted again.                           *)
THEOREM ReplenishesOnceHolds == Spec => []ReplenishesOnce
<1>1. ASSUME PurchaseInv
      PROVE  ReplenishesOnce
  BY <1>1 DEF PurchaseInv, ReplenishesOnce
<1>2. QED
  BY <1>1, PurchaseInvariant, PTL

\* A step that makes an automatic requisition is the commit of a scan.
LEMMA MadeWhenLow ==
  ASSUME PurchaseInv, [Buy!Next]_purchaseVars,
         NEW i \in Buy!Items, NEW p \in Buy!Requisitions, requisitions[p] = Buy!None,
         Buy!Automatic(p, i)'
  PROVE  Buy!Low(lots', i)
<1>1. PurchaseTables /\ PurchaseSessions /\ Shapes
  BY DEF PurchaseInv
<1>2. requisitions'[p] # Buy!None /\ requisitions'[p].automatic
  BY DEF Buy!Automatic
<1>3. CASE \E s \in Clients : Buy!Commit(s)
  <2>1. PICK s \in Clients : Buy!Commit(s)
    BY <1>3
  <2>2. Buy!Low(lots, i) /\ UNCHANGED lots
    BY <1>1, <2>1, NewlyAutomatic DEF Shapes
  <2>3. QED
    BY <2>2
<1>4. CASE Buy!CreateRequisition
  <2>1. PICK q \in Buy!Requisitions, lines \in Baskets :
          requisitions' = [requisitions EXCEPT ![q] =
                             [status |-> "Draft", automatic |-> FALSE, lines |-> lines]]
    BY <1>4 DEF Buy!CreateRequisition
  <2>2. PICK row : row = [status |-> "Draft", automatic |-> FALSE, lines |-> lines]
    OBVIOUS
  <2>3. requisitions' = [requisitions EXCEPT ![q] = row]
    BY <2>1, <2>2
  <2>4. row.automatic = FALSE
    BY <2>2
  <2>5. p = q /\ requisitions'[p] = row
    BY <1>1, <1>2, <2>3 DEF PurchaseTables
  <2>6. QED
    BY <1>2, <2>4, <2>5
<1>5. CASE UNCHANGED requisitions
  BY <1>2, <1>5
<1>6. UNCHANGED purchaseVars => UNCHANGED requisitions
  BY DEF purchaseVars
<1>7. Buy!Consume => UNCHANGED requisitions
  BY DEF Buy!Consume
<1>8. \A s \in Clients : Buy!SessionStep(s) => Buy!Commit(s) \/ UNCHANGED requisitions
  BY DEF Buy!SessionStep, Buy!StartSession, Buy!Begin, Buy!ClaimRequisition, Buy!QueueApproval,
         Buy!ResolveApproval, Buy!DecideApproval, Buy!PlaceOrder, Buy!ClaimOrder,
         Buy!ReceiveLine, Buy!CloseRequisition, Buy!Replenish, Buy!FinishScan, Buy!Rollback,
         Buy!tables
<1>9. QED
  BY <1>3, <1>4, <1>5, <1>6, <1>7, <1>8 DEF Buy!Next

(* "Revalidated after the lock is held" (run_reorder_scan_atomic): an        *)
(* automatic requisition is committed only while the stock that it was made  *)
(* for is at its reorder point or below, whatever is received or issued      *)
(* meanwhile.                                                                *)
THEOREM ReplenishesWhenLowHolds == Spec => ReplenishesWhenLow
<1> DEFINE WhenLow == \A i \in Buy!Items, p \in Buy!Requisitions :
             (requisitions[p] = Buy!None /\ Buy!Automatic(p, i)') => Buy!Low(lots', i)
<1>1. PurchaseInv /\ [Buy!Next]_purchaseVars => WhenLow
  BY MadeWhenLow
<1>2. PurchaseInv /\ [Next]_vars => [WhenLow]_Buy!vars
  BY <1>1, ComponentSteps
<1>3. Spec => [][WhenLow]_Buy!vars
  BY <1>2, PurchaseInvariant, PTL DEF Spec
<1>4. QED
  BY <1>3 DEF ReplenishesWhenLow, Buy!ReplenishesWhenLow
=============================================================================
