---------------------------- MODULE Reservations -----------------------------
(***************************************************************************)
(* Stock, reservations and planned material (app/reservation_store.py,     *)
(* app/inventory_store.py, the inventory transaction route of app/main.py, *)
(* app/transfer_store.py, and the settlement of a cancelled work order in  *)
(* app/application.py).                                                    *)
(*                                                                         *)
(* A session is one request running in one READ COMMITTED transaction.     *)
(* items, resv, reqs, used, ledger and cancelled are the COMMITTED tables. *)
(* What a session has written and not committed is its own: draft (rows of *)
(* inventory_reservations) and itemRow (the item rows it has locked); a    *)
(* drafted row and a held item are locked until commit or rollback.        *)
(*                                                                         *)
(* Quantities are whole units.  The canonical path is: lock every item the *)
(* request touches in id order, read, write, commit.  The settlement of a  *)
(* cancelled work order writes the reservation first, sums, and only then  *)
(* waits for the item row.                                                 *)
(***************************************************************************)
EXTENDS Integers, FiniteSets

CONSTANTS
  NumItems,         \* item ids are 1..NumItems
  Works,            \* work orders
  Sessions,         \* concurrent requests
  Offered,          \* the kinds of requests clients send
  Opening,          \* stock every item starts with
  Targets,          \* stock levels an ADJUSTMENT may set (not validated: any integer)
  Planned,          \* bound: the <<work, item>> pairs material is planned for
  MaxQty,           \* bound: largest quantity asked for, reserved or planned
  MaxReservations,  \* bound: reservation ids are 1..MaxReservations
  MaxStock,         \* bound: receipts stop here
  MaxUsed           \* bound: units of an item issued to one work order

Kinds == {"reserve", "reserveAll", "release", "issue", "consume",
          "issueStock", "receive", "adjust", "transfer", "cancel"}

Items == 1..NumItems
Ids == 1..MaxReservations
Quantities == 1..MaxQty

ASSUME ReservationsAssumption ==
  /\ NumItems \in Nat \ {0}
  /\ MaxQty \in Nat \ {0}
  /\ MaxReservations \in Nat \ {0}
  /\ Opening \in Nat
  /\ MaxStock \in Nat
  /\ MaxUsed \in Nat
  /\ Targets \subseteq Int
  /\ Offered \subseteq Kinds
  /\ Planned \subseteq Works \X Items

VARIABLES
  items,      \* items[i]: current_stock and reserved_stock
  resv,       \* resv[r]: a row of inventory_reservations, or Absent
  reqs,       \* reqs[w][i]: the row of work_order_requirements; quantity 0: none
  used,       \* used[w][i]: sum of work_order_materials
  ledger,     \* ledger[i]: sum of inventory_transactions
  cancelled,  \* work orders whose cancellation committed
  request,    \* request[s]: what session s is doing
  phase,      \* phase[s]: how far it is
  held,       \* held[s]: item rows it has locked
  seen,       \* seen[s][i]: what it read about item i before locking anything
  itemRow,    \* itemRow[s][i]: its version of a held item row
  draft,      \* draft[s][r]: its uncommitted version of reservation r, or Absent
  mark,       \* mark[s]: the status it will give its planned requirement, or "Same"
  open,       \* open[s]: reservations a cancellation has still to release
  sum         \* sum[s]: the reserved total a cancellation computed for an item

tables == <<items, resv, reqs, used, ledger, cancelled>>
sessionVars == <<request, phase, held, seen, itemRow, draft, mark, open, sum>>
vars == <<items, resv, reqs, used, ledger, cancelled,
          request, phase, held, seen, itemRow, draft, mark, open, sum>>

ActiveStatuses == {"Reserved", "Partially Issued"}
ReservationRow ==
  [work : Works, item : Items, quantity : Quantities, issued : 0..MaxQty,
   status : ActiveStatuses \union {"Issued", "Released"}]
Absent == [work |-> "none", item |-> 0, quantity |-> 0, issued |-> 0, status |-> "Absent"]
ItemRow == [current : Int, reserved : Nat]
Requirement ==
  [quantity : 0..MaxQty, status : {"None", "Required", "Reserved", "Fulfilled"}]
NoRequirement == [quantity |-> 0, status |-> "None"]
NoRequest == [op |-> "none", work |-> "none", item |-> 0, to |-> 0, id |-> 0, qty |-> 0]
NoSum == [item |-> 0, value |-> 0]
Phases == {"idle", "locking", "written", "settling", "syncing"}

TypeOK ==
  /\ items \in [Items -> ItemRow]
  /\ resv \in [Ids -> ReservationRow \union {Absent}]
  /\ \A r \in Ids : resv[r].issued <= resv[r].quantity
  /\ reqs \in [Works -> [Items -> Requirement]]
  /\ used \in [Works -> [Items -> Nat]]
  /\ ledger \in [Items -> Int]
  /\ cancelled \subseteq Works
  /\ request \in [Sessions -> [op : Kinds \union {"none"}, work : Works \union {"none"},
                               item : Items \union {0}, to : Items \union {0},
                               id : Ids \union {0}, qty : Int]]
  /\ phase \in [Sessions -> Phases]
  /\ held \in [Sessions -> SUBSET Items]
  /\ seen \in [Sessions -> [Items -> Int]]
  /\ itemRow \in [Sessions -> [Items -> ItemRow]]
  /\ draft \in [Sessions -> [Ids -> ReservationRow \union {Absent}]]
  /\ mark \in [Sessions -> {"Same", "Required", "Reserved", "Fulfilled"}]
  /\ open \in [Sessions -> SUBSET Ids]
  /\ sum \in [Sessions -> [item : Items \union {0}, value : Nat]]

NoItemRows == [i \in Items |-> [current |-> 0, reserved |-> 0]]
NoDraft == [r \in Ids |-> Absent]
Nothing == [i \in Items |-> 0]

Init ==
  /\ items = [i \in Items |-> [current |-> Opening, reserved |-> 0]]
  /\ resv = NoDraft
  /\ reqs = [w \in Works |-> [i \in Items |-> NoRequirement]]
  /\ used = [w \in Works |-> Nothing]
  /\ ledger = Nothing
  /\ cancelled = {}
  /\ request = [s \in Sessions |-> NoRequest]
  /\ phase = [s \in Sessions |-> "idle"]
  /\ held = [s \in Sessions |-> {}]
  /\ seen = [s \in Sessions |-> Nothing]
  /\ itemRow = [s \in Sessions |-> NoItemRows]
  /\ draft = [s \in Sessions |-> NoDraft]
  /\ mark = [s \in Sessions |-> "Same"]
  /\ open = [s \in Sessions |-> {}]
  /\ sum = [s \in Sessions |-> NoSum]

-----------------------------------------------------------------------------
\* Reading the tables

Drafted(s, r) == draft[s][r].status # "Absent"

\* The table as a session sees it that has drafted the rows d.
View(d) == [r \in Ids |-> IF d[r].status # "Absent" THEN d[r] ELSE resv[r]]

\* Unit k of a reservation is outstanding when issued < k <= quantity, so
\* SUM(quantity - issued_quantity) is a number of units.
Units(table, i) ==
  {u \in Ids \X Quantities :
     /\ table[u[1]].status \in ActiveStatuses
     /\ table[u[1]].item = i
     /\ table[u[1]].issued < u[2]
     /\ u[2] <= table[u[1]].quantity}

Outstanding(table, i) == Cardinality(Units(table, i))

UnitsOf(table, w, i) == {u \in Units(table, i) : table[u[1]].work = w}

OwnOutstanding(table, w, i) == Cardinality(UnitsOf(table, w, i))

AtLeast0(n) == IF n > 0 THEN n ELSE 0

\* Ids no committed or drafted row has taken, and the k-th of them.
FreshIds == {r \in Ids : resv[r].status = "Absent" /\ \A s \in Sessions : ~Drafted(s, r)}
IsFresh(r, k) == r \in FreshIds /\ Cardinality({f \in FreshIds : f < r}) = k - 1

-----------------------------------------------------------------------------
\* Row locks

\* Mutant: the request reads the item without locking it.
ItemFreeAlways(s, i) == TRUE

ItemFree(s, i) == \A t \in Sessions \ {s} : i \notin held[t]

RowFree(s, r) == \A t \in Sessions \ {s} : ~Drafted(t, r)

\* A cancellation has updated the work order's row; so has an issue, which
\* adds to its actual_cost.
LocksWork(t, w) ==
  /\ request[t].work = w
  /\ \/ request[t].op = "cancel"
     \/ request[t].op \in {"issue", "consume"} /\ phase[t] = "written"

WorkFree(s, w) == \A t \in Sessions \ {s} : ~LocksWork(t, w)

\* The item rows a request on the canonical path locks before it writes.
Wanted(s) ==
  CASE request[s].op = "reserveAll" -> {i \in Items : seen[s][i] > 0}
    [] request[s].op = "transfer" -> {request[s].item, request[s].to}
    [] OTHER -> {request[s].item}

\* Mutant: the locks are taken in the order of the request.
NextToLockInAnyOrder(s, i) == i \in Wanted(s) \ held[s]

\* In id order.
NextToLock(s, i) ==
  /\ i \in Wanted(s) \ held[s]
  /\ \A j \in Wanted(s) \ held[s] : i <= j

Holding(s) == phase[s] = "locking" /\ Wanted(s) \subseteq held[s]

-----------------------------------------------------------------------------
\* The life of a session

Asking(op, works, its, tos, qtys) ==
  [op : {op} \intersect Offered, work : works, item : its, to : tos, id : {0}, qty : qtys]

AskingAbout(op, qtys) ==
  {[op |-> op, work |-> resv[r].work, item |-> resv[r].item, to |-> 0,
    id |-> r, qty |-> q] :
     r \in {x \in Ids : resv[x].status # "Absent" /\ op \in Offered}, q \in qtys}

\* What clients may send now.
Requests ==
  UNION {Asking("reserve", Works, Items, {0}, Quantities),
         Asking("consume", Works, Items, {0}, Quantities),
         Asking("reserveAll", Works, {0}, {0}, {0}),
         Asking("issueStock", {"none"}, Items, {0}, Quantities),
         Asking("receive", {"none"}, Items, {0}, Quantities),
         Asking("adjust", {"none"}, Items, {0}, Targets),
         {rq \in Asking("transfer", {"none"}, Items, Items, Quantities) : rq.item # rq.to},
         AskingAbout("release", {0}),
         AskingAbout("issue", Quantities)}

\* What a request reads before it takes a lock: the planned quantities for
\* reserve-all, the stock an adjustment was based on.
PreRead(rq) ==
  [i \in Items |->
     CASE rq.op = "reserveAll" -> reqs[rq.work][i].quantity
       [] rq.op = "adjust" /\ i = rq.item -> items[i].current
       [] OTHER -> 0]

Submit(s, rq) ==
  /\ phase[s] = "idle"
  /\ request' = [request EXCEPT ![s] = rq]
  /\ phase' = [phase EXCEPT ![s] = "locking"]
  /\ seen' = [seen EXCEPT ![s] = PreRead(rq)]
  /\ UNCHANGED <<tables, held, itemRow, draft, mark, open, sum>>

\* lock_inventory_item: wait for the row, then read it.
Lock(s, i) ==
  /\ phase[s] = "locking"
  /\ NextToLock(s, i)
  /\ ItemFree(s, i)
  /\ held' = [held EXCEPT ![s] = @ \union {i}]
  /\ itemRow' = [itemRow EXCEPT ![s][i] = items[i]]
  /\ UNCHANGED <<tables, request, phase, seen, draft, mark, open, sum>>

\* The statements of a request that holds its locks, up to its commit.
Write(s, rows, newItems, status) ==
  /\ draft' = [draft EXCEPT ![s] = rows]
  /\ itemRow' = [itemRow EXCEPT ![s] = newItems]
  /\ mark' = [mark EXCEPT ![s] = status]
  /\ phase' = [phase EXCEPT ![s] = "written"]
  /\ UNCHANGED <<tables, request, held, seen, open, sum>>

EndSession(s) ==
  /\ request' = [request EXCEPT ![s] = NoRequest]
  /\ phase' = [phase EXCEPT ![s] = "idle"]
  /\ held' = [held EXCEPT ![s] = {}]
  /\ seen' = [seen EXCEPT ![s] = Nothing]
  /\ itemRow' = [itemRow EXCEPT ![s] = NoItemRows]
  /\ draft' = [draft EXCEPT ![s] = NoDraft]
  /\ mark' = [mark EXCEPT ![s] = "Same"]
  /\ open' = [open EXCEPT ![s] = {}]
  /\ sum' = [sum EXCEPT ![s] = NoSum]

\* A conflict answered with 409, a lost connection, or PostgreSQL choosing
\* the transaction as the victim of a deadlock.
Rollback(s) ==
  /\ phase[s] # "idle"
  /\ EndSession(s)
  /\ UNCHANGED tables

\* Mutant: a transfer is only recorded where it leaves.
LedgerEntryOneSided(s, i) ==
  LET rq == request[s] IN
    CASE rq.op \in {"issue", "consume", "issueStock", "transfer"} /\ i = rq.item -> -rq.qty
      [] rq.op = "receive" /\ i = rq.item -> rq.qty
      [] rq.op = "adjust" /\ i = rq.item -> rq.qty - seen[s][i]
      [] OTHER -> 0

\* What a request adds to inventory_transactions.
LedgerEntry(s, i) ==
  LET rq == request[s] IN
    CASE rq.op \in {"issue", "consume", "issueStock"} /\ i = rq.item -> -rq.qty
      [] rq.op = "receive" /\ i = rq.item -> rq.qty
      [] rq.op = "adjust" /\ i = rq.item -> rq.qty - seen[s][i]
      [] rq.op = "transfer" /\ i = rq.item -> -rq.qty
      [] rq.op = "transfer" /\ i = rq.to -> rq.qty
      [] OTHER -> 0

\* Mutant: a direct issue that uses a reservation is not recorded as material.
IssuesOfReservations(s, w, i) ==
  request[s].op = "issue" /\ request[s].work = w /\ request[s].item = i

Issues(s, w, i) ==
  request[s].op \in {"issue", "consume"} /\ request[s].work = w /\ request[s].item = i

Marks(s, w, i) ==
  /\ mark[s] # "Same"
  /\ request[s].work = w
  /\ request[s].item = i
  /\ reqs[w][i].quantity > 0

Commit(s) ==
  /\ phase[s] = "written"
  /\ resv' = View(draft[s])
  /\ items' = [i \in Items |-> IF i \in held[s] THEN itemRow[s][i] ELSE items[i]]
  /\ ledger' = [i \in Items |-> ledger[i] + LedgerEntry(s, i)]
  /\ used' = [w \in Works |-> [i \in Items |->
                used[w][i] + (IF Issues(s, w, i) THEN request[s].qty ELSE 0)]]
  /\ reqs' = [w \in Works |-> [i \in Items |->
                IF Marks(s, w, i)
                  THEN [quantity |-> reqs[w][i].quantity, status |-> mark[s]]
                  ELSE reqs[w][i]]]
  /\ EndSession(s)
  /\ UNCHANGED cancelled

-----------------------------------------------------------------------------
\* Requests of reservation_store

NewRow(w, i, q) ==
  [work |-> w, item |-> i, quantity |-> q, issued |-> 0, status |-> "Reserved"]

\* Mutant: a release forgets what was issued.
ReleasedRowReset(row) ==
  [work |-> row.work, item |-> row.item, quantity |-> row.quantity,
   issued |-> 0, status |-> "Released"]

ReleasedRow(row) ==
  [work |-> row.work, item |-> row.item, quantity |-> row.quantity,
   issued |-> row.issued, status |-> "Released"]

IssuedRow(row, q) ==
  [work |-> row.work, item |-> row.item, quantity |-> row.quantity,
   issued |-> row.issued + q,
   status |-> IF row.issued + q >= row.quantity THEN "Issued" ELSE "Partially Issued"]

\* Mutant: the sum is taken before the reservation is updated.
SyncedTooEarly(rows, i, d) ==
  [rows EXCEPT ![i] = [current |-> rows[i].current, reserved |-> Outstanding(resv, i)]]

\* _sync_reserved_stock_locked in the transaction that drafted d.
Synced(rows, i, d) ==
  [rows EXCEPT ![i] = [current |-> rows[i].current,
                       reserved |-> Outstanding(View(d), i)]]

\* The requirement after an issue of q units, and after a reservation.
IssueMark(w, i, q) ==
  CASE reqs[w][i].quantity = 0 -> "Same"
    [] used[w][i] + q >= reqs[w][i].quantity -> "Fulfilled"
    [] OTHER -> "Required"

ReserveMark(w, i, d) ==
  IF reqs[w][i].quantity > 0 /\ OwnOutstanding(View(d), w, i) >= reqs[w][i].quantity
    THEN "Reserved" ELSE "Same"

ReserveMaterial(s) ==
  LET rq == request[s]
      row == itemRow[s][rq.item]
  IN /\ rq.op = "reserve"
     /\ Holding(s)
     /\ row.current - row.reserved >= rq.qty
     /\ \E r \in Ids :
          LET d == [draft[s] EXCEPT ![r] = NewRow(rq.work, rq.item, rq.qty)] IN
            /\ IsFresh(r, 1)
            /\ Write(s, d,
                     [itemRow[s] EXCEPT ![rq.item] =
                        [current |-> row.current, reserved |-> row.reserved + rq.qty]],
                     ReserveMark(rq.work, rq.item, d))

\* What reserve-all still has to secure of item i, and what it can.
Need(s, i) ==
  LET w == request[s].work IN
    AtLeast0(seen[s][i] - used[w][i] - OwnOutstanding(resv, w, i))

Securable(s) ==
  {i \in Wanted(s) :
     /\ Need(s, i) > 0
     /\ AtLeast0(itemRow[s][i].current - itemRow[s][i].reserved) >= Need(s, i)}

\* The short items are reported, the others are reserved.
ReserveAll(s) ==
  LET created == Securable(s)
      For(i, r) == IsFresh(r, Cardinality({j \in created : j <= i}))
  IN /\ request[s].op = "reserveAll"
     /\ Holding(s)
     /\ Cardinality(created) <= Cardinality(FreshIds)
     /\ Write(s,
              [r \in Ids |->
                 IF \E i \in created : For(i, r)
                   THEN LET i == CHOOSE i \in created : For(i, r)
                        IN NewRow(request[s].work, i, Need(s, i))
                   ELSE Absent],
              [i \in Items |->
                 IF i \in created
                   THEN [current |-> itemRow[s][i].current,
                         reserved |-> itemRow[s][i].reserved + Need(s, i)]
                   ELSE itemRow[s][i]],
              "Same")

\* Mutant: a release without the status test.
ReleaseAnyReservation(s) ==
  LET rq == request[s]
      d == [draft[s] EXCEPT ![rq.id] = ReleasedRow(resv[rq.id])]
  IN /\ rq.op = "release"
     /\ Holding(s)
     /\ RowFree(s, rq.id)
     /\ Write(s, d, Synced(itemRow[s], rq.item, d), "Same")

ReleaseReservation(s) ==
  LET rq == request[s]
      d == [draft[s] EXCEPT ![rq.id] = ReleasedRow(resv[rq.id])]
  IN /\ rq.op = "release"
     /\ Holding(s)
     /\ resv[rq.id].status \in ActiveStatuses
     /\ RowFree(s, rq.id)
     /\ Write(s, d, Synced(itemRow[s], rq.item, d),
              IF reqs[rq.work][rq.item].quantity > 0 THEN "Required" ELSE "Same")

\* Every unit issued leaves the shelf.
Taken(rows, i, q) ==
  [rows EXCEPT ![i] = [current |-> rows[i].current - q, reserved |-> rows[i].reserved]]

IssueReservation(s) ==
  LET rq == request[s]
      row == resv[rq.id]
      d == [draft[s] EXCEPT ![rq.id] = IssuedRow(row, rq.qty)]
  IN /\ rq.op = "issue"
     /\ Holding(s)
     /\ row.status \in ActiveStatuses
     /\ rq.qty <= row.quantity - row.issued
     /\ itemRow[s][rq.item].current >= rq.qty
     /\ RowFree(s, rq.id)
     /\ WorkFree(s, rq.work)
     /\ used[rq.work][rq.item] + rq.qty <= MaxUsed   \* bound
     /\ Write(s, d, Synced(Taken(itemRow[s], rq.item, rq.qty), rq.item, d),
              IssueMark(rq.work, rq.item, rq.qty))

\* Mutant: a reservation gives whatever is left to take.
TakenFromBeyondBalance(w, i, q, r) ==
  LET own == UnitsOf(resv, w, i)
  IN IF \E u \in own : u[1] = r
       THEN AtLeast0(q - Cardinality({u \in own : u[1] < r}))
       ELSE 0

\* How many of q units come out of reservation r when the work order's own
\* reservations are used up in id order.
TakenFrom(w, i, q, r) ==
  LET own == UnitsOf(resv, w, i)
      balance == Cardinality({u \in own : u[1] = r})
      left == AtLeast0(q - Cardinality({u \in own : u[1] < r}))
  IN IF balance < left THEN balance ELSE left

IssueMaterial(s) ==
  LET rq == request[s]
      row == itemRow[s][rq.item]
      take(r) == TakenFrom(rq.work, rq.item, rq.qty, r)
      d == [r \in Ids |-> IF take(r) > 0 THEN IssuedRow(resv[r], take(r)) ELSE Absent]
  IN /\ rq.op = "consume"
     /\ Holding(s)
     /\ OwnOutstanding(resv, rq.work, rq.item) + AtLeast0(row.current - row.reserved)
          >= rq.qty
     /\ row.current >= rq.qty
     /\ \A r \in Ids : take(r) > 0 => RowFree(s, r)
     /\ WorkFree(s, rq.work)
     /\ used[rq.work][rq.item] + rq.qty <= MaxUsed   \* bound
     /\ Write(s, d, Synced(Taken(itemRow[s], rq.item, rq.qty), rq.item, d),
              IssueMark(rq.work, rq.item, rq.qty))

-----------------------------------------------------------------------------
\* Requests of the inventory transaction route and of the transfer

\* Mutants: the guards look at the physical stock alone, and the adjustment
\* does not look at all.
IssueStockFromAll(s) ==
  LET rq == request[s] IN
    /\ rq.op = "issueStock"
    /\ Holding(s)
    /\ itemRow[s][rq.item].current >= rq.qty
    /\ Write(s, NoDraft, Taken(itemRow[s], rq.item, rq.qty), "Same")

TransferStockFromAll(s) ==
  LET rq == request[s] IN
    /\ rq.op = "transfer"
    /\ Holding(s)
    /\ itemRow[s][rq.item].current >= rq.qty
    /\ itemRow[s][rq.to].current + rq.qty <= MaxStock
    /\ Write(s, NoDraft,
             Taken(Taken(itemRow[s], rq.item, rq.qty), rq.to, -rq.qty), "Same")

AdjustStockBlindly(s) ==
  LET rq == request[s] IN
    /\ rq.op = "adjust"
    /\ Holding(s)
    /\ Write(s, NoDraft,
             [itemRow[s] EXCEPT ![rq.item] =
                [current |-> rq.qty, reserved |-> itemRow[s][rq.item].reserved]],
             "Same")

\* issue_unreserved_stock
IssueStock(s) ==
  LET rq == request[s]
      row == itemRow[s][rq.item]
  IN /\ rq.op = "issueStock"
     /\ Holding(s)
     /\ row.current - row.reserved >= rq.qty
     /\ Write(s, NoDraft, Taken(itemRow[s], rq.item, rq.qty), "Same")

\* increment_stock: RETURN, RECEIPT and the receipt of a purchase order.
ReceiveStock(s) ==
  LET rq == request[s] IN
    /\ rq.op = "receive"
    /\ Holding(s)
    /\ itemRow[s][rq.item].current + rq.qty <= MaxStock   \* bound
    /\ Write(s, NoDraft, Taken(itemRow[s], rq.item, -rq.qty), "Same")

\* adjust_stock_if_unchanged: an absolute level, on the stock that was seen.
AdjustStock(s) ==
  LET rq == request[s]
      row == itemRow[s][rq.item]
  IN /\ rq.op = "adjust"
     /\ Holding(s)
     /\ row.current = seen[s][rq.item]
     /\ Write(s, NoDraft,
              [itemRow[s] EXCEPT ![rq.item] =
                 [current |-> rq.qty, reserved |-> row.reserved]],
              "Same")

\* transfer_inventory_atomic between two existing item rows.
TransferStock(s) ==
  LET rq == request[s]
      row == itemRow[s][rq.item]
  IN /\ rq.op = "transfer"
     /\ Holding(s)
     /\ row.current - row.reserved >= rq.qty
     /\ itemRow[s][rq.to].current + rq.qty <= MaxStock   \* bound
     /\ Write(s, NoDraft,
              Taken(Taken(itemRow[s], rq.item, rq.qty), rq.to, -rq.qty),
              "Same")

-----------------------------------------------------------------------------
\* Planning of material: one short transaction each, without the item lock

PlanMaterial(w, i, q) ==
  /\ <<w, i>> \in Planned
  /\ reqs' = [reqs EXCEPT ![w][i] = [quantity |-> q, status |-> "Required"]]
  /\ UNCHANGED <<items, resv, used, ledger, cancelled, sessionVars>>

\* A later UPDATE of the deleted row by its id changes nothing.
RemovePlan(w, i) ==
  /\ reqs[w][i].quantity > 0
  /\ reqs' = [reqs EXCEPT ![w][i] = NoRequirement]
  /\ mark' = [s \in Sessions |-> IF Marks(s, w, i) THEN "Same" ELSE mark[s]]
  /\ UNCHANGED <<items, resv, used, ledger, cancelled,
                 request, phase, held, seen, itemRow, draft, open, sum>>

-----------------------------------------------------------------------------
\* _settle_cancelled_work, in the transaction that cancels the work order

\* The work order's row is locked; the open reservations are listed.
CancelWork(s, w) ==
  /\ "cancel" \in Offered
  /\ phase[s] = "idle"
  /\ w \notin cancelled
  /\ WorkFree(s, w)
  /\ request' = [request EXCEPT ![s] = [NoRequest EXCEPT !.op = "cancel", !.work = w]]
  /\ phase' = [phase EXCEPT ![s] = "settling"]
  /\ open' = [open EXCEPT ![s] =
                {r \in Ids : resv[r].work = w /\ resv[r].status \in ActiveStatuses}]
  /\ UNCHANGED <<tables, held, seen, itemRow, draft, mark, sum>>

\* UPDATE ... WHERE id: whatever the row has become, it is now Released; the
\* reserved total is summed in this transaction's view.
CancelRelease(s, r) ==
  LET d == [draft[s] EXCEPT ![r] = ReleasedRow(resv[r])] IN
    /\ phase[s] = "settling"
    /\ r \in open[s]
    /\ RowFree(s, r)
    /\ draft' = [draft EXCEPT ![s] = d]
    /\ open' = [open EXCEPT ![s] = @ \ {r}]
    /\ sum' = [sum EXCEPT ![s] =
                 [item |-> resv[r].item, value |-> Outstanding(View(d), resv[r].item)]]
    /\ phase' = [phase EXCEPT ![s] = "syncing"]
    /\ UNCHANGED <<tables, request, held, seen, itemRow, mark>>

\* The UPDATE of the item waits for its row and writes the sum.
CancelSync(s) ==
  LET i == sum[s].item IN
    /\ phase[s] = "syncing"
    /\ ItemFree(s, i)
    /\ held' = [held EXCEPT ![s] = @ \union {i}]
    /\ itemRow' = [itemRow EXCEPT ![s][i] =
         [current |-> IF i \in held[s] THEN itemRow[s][i].current ELSE items[i].current,
          reserved |-> sum[s].value]]
    /\ sum' = [sum EXCEPT ![s] = NoSum]
    /\ phase' = [phase EXCEPT ![s] = "settling"]
    /\ UNCHANGED <<tables, request, seen, draft, mark, open>>

CancelCommit(s) ==
  LET w == request[s].work
      settled == {draft[s][r].item : r \in {x \in Ids : Drafted(s, x)}}
  IN /\ phase[s] = "settling"
     /\ open[s] = {}
     /\ cancelled' = cancelled \union {w}
     /\ resv' = View(draft[s])
     /\ items' = [i \in Items |-> IF i \in held[s] THEN itemRow[s][i] ELSE items[i]]
     /\ reqs' = [reqs EXCEPT ![w] = [i \in Items |->
                   IF i \in settled /\ reqs[w][i].status = "Reserved"
                     THEN [quantity |-> reqs[w][i].quantity, status |-> "Required"]
                     ELSE reqs[w][i]]]
     /\ EndSession(s)
     /\ UNCHANGED <<used, ledger>>

-----------------------------------------------------------------------------
WriteStep(s) ==
  \/ ReserveMaterial(s)
  \/ ReserveAll(s)
  \/ ReleaseReservation(s)
  \/ IssueReservation(s)
  \/ IssueMaterial(s)
  \/ IssueStock(s)
  \/ ReceiveStock(s)
  \/ AdjustStock(s)
  \/ TransferStock(s)

CancelStep(s) ==
  \/ \E w \in Works : CancelWork(s, w)
  \/ \E r \in Ids : CancelRelease(s, r)
  \/ CancelSync(s)
  \/ CancelCommit(s)

Next ==
  \/ \E s \in Sessions :
       \/ \E rq \in Requests : Submit(s, rq)
       \/ \E i \in Items : Lock(s, i)
       \/ WriteStep(s)
       \/ Commit(s)
       \/ CancelStep(s)
       \/ Rollback(s)
  \/ \E w \in Works, i \in Items :
       (\E q \in Quantities : PlanMaterial(w, i, q)) \/ RemovePlan(w, i)

Spec == Init /\ [][Next]_vars

-----------------------------------------------------------------------------
\* Properties

(* reserved_stock of an item is the sum of what its active reservations     *)
(* still hold, in every committed state ("atomic stock/reservation/material *)
(* issue accounting").                                                      *)
ReservedMatchesOutstanding ==
  \A i \in Items : items[i].reserved = Outstanding(resv, i)

Available(i) == items[i].current - items[i].reserved

(* Reserved material is safe from everybody else: no reservation, issue,    *)
(* transfer or release can leave an item with less stock than is reserved;  *)
(* only a manual ADJUSTMENT of that very item can.                          *)
OnlyAdjustmentOverdraws ==
  [][\A i \in DOMAIN items :
       (Available(i) >= 0 /\ Available(i)' < 0) =>
         \E s \in Sessions : /\ request[s].op = "adjust" /\ request[s].item = i
                             /\ phase[s] = "written" /\ phase'[s] = "idle"]_vars

(* The inventory transactions explain the stock: no update is lost and none *)
(* is applied twice, an adjustment made on a stale reading included.        *)
LedgerExplainsStock ==
  \A i \in Items : items[i].current = Opening + ledger[i]

(* A reservation settles once: what is Issued or Released is never issued,  *)
(* released or reopened again.                                              *)
SettledOnce ==
  [][\A r \in Ids : resv[r].status \in {"Issued", "Released"} => resv'[r] = resv[r]]_vars

(* Every unit issued from a reservation is recorded as material of its own  *)
(* work order.                                                              *)
IssuesAreConsumption ==
  \A w \in Works, i \in Items :
    Cardinality({u \in Ids \X Quantities :
                   /\ resv[u[1]].work = w /\ resv[u[1]].item = i
                   /\ u[2] <= resv[u[1]].issued}) <= used[w][i]

(* What was issued from a reservation stays on its record, also when a      *)
(* cancellation overwrites a row that was issued meanwhile.                 *)
IssuedStaysOnRecord ==
  [][\A r \in Ids : resv'[r].issued >= resv[r].issued]_vars

(* Reserve-all secures what the plan still misses and no more, even when    *)
(* two planners press the button for the same work order at once.           *)
ReserveAllFillsThePlan ==
  [][\A s \in Sessions :
       (request[s].op = "reserveAll" /\ phase[s] = "written" /\ phase'[s] = "idle") =>
         \A i \in Items :
           OwnOutstanding(resv', request[s].work, i) > OwnOutstanding(resv, request[s].work, i)
             => OwnOutstanding(resv', request[s].work, i) + used[request[s].work][i]
                  = seen[s][i]]_vars

\* The reservation rows a session that has its items is about to update.
RowsAhead(s) ==
  CASE request[s].op \in {"release", "issue"} -> {request[s].id}
    [] request[s].op = "consume" ->
         {r \in Ids : TakenFrom(request[s].work, request[s].item, request[s].qty, r) > 0}
    [] OTHER -> {}

WaitsFor(s, t) ==
  \/ phase[s] = "locking" /\ \E i \in held[t] : NextToLock(s, i)
  \/ Holding(s) /\ \E r \in RowsAhead(s) : Drafted(t, r)
  \/ phase[s] = "syncing" /\ sum[s].item \in held[t] \ held[s]

(* "Canonical database lock ordering for multi-row mutations": no two       *)
(* transactions wait for each other.                                        *)
NoCircularWait ==
  \A s, t \in Sessions : s # t => ~(WaitsFor(s, t) /\ WaitsFor(t, s))
=============================================================================
