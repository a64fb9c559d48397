------------------------------ MODULE Procurement ----------------------------
(***************************************************************************)
(* Purchase requisitions, their approvals, purchase orders, receipts and   *)
(* the automatic replenishment (app/procurement_store.py,                  *)
(* app/approval_store.py, app/reorder_store.py).                           *)
(*                                                                         *)
(* A session is one request in one transaction.  Every conditional UPDATE  *)
(* is a step that waits for the row, tests what is committed, and keeps    *)
(* the row to the end; what it writes stays in its draft until the commit. *)
(* The number gate and the audit chain, which every request also takes,    *)
(* are left out: they make requests wait but no guard here reads them.     *)
(* Reserved stock is nil: reservations have a module of their own.         *)
(***************************************************************************)
EXTENDS Integers, Sequences, FiniteSets, FiniteSetsExt, Drafts

CONSTANTS
  NumItems,        \* inventory item ids are 1..NumItems
  InitialStock,    \* InitialStock[i]
  ReorderPoint,    \* ReorderPoint[i]
  MaxLevel,        \* MaxLevel[i]
  Baskets,         \* the line sequences users write requisitions for
  MaxIssue,        \* bound: what the field may consume of an item in all
  Sessions,        \* concurrent requests
  MaxRequisitions, \* bound: requisition ids
  MaxApprovals,    \* bound: approval request ids
  MaxOrders        \* bound: purchase order ids

Items == 1..NumItems
Requisitions == 1..MaxRequisitions
Approvals == 1..MaxApprovals
Orders == 1..MaxOrders

\* inventory_item_id of a line that is not a stock item
NotStocked == 0
Lines == [item : Items \union {NotStocked}, qty : Nat \ {0}]

VARIABLES
  requisitions,  \* requisitions[p]: a row and its lines, or None
  approvals,     \* approvals[a]: an approval request, or None
  orders,        \* orders[o]: a purchase order and its lines, or None
  items,         \* items[i]: stock, and the RECEIPT and ISSUE totals of the ledger
  request,       \* request[s]: what session s was asked to do
  phase,         \* phase[s]: what it does next
  ahead,         \* ahead[s]: the candidates its scan has not looked at
  unpacked,      \* unpacked[s]: how many order lines its receipt has booked
  draft,         \* draft[s]: the rows it has written and not committed
  held           \* held[s]: the rows it has locked

tables == <<requisitions, approvals, orders, items>>
progress == <<ahead, unpacked>>
vars == <<tables, request, phase, progress, draft, held>>

None == [status |-> "None"]
RequisitionRow == [status : {"Draft", "Submitted", "Approved", "Rejected", "Ordered", "Received"},
                   automatic : BOOLEAN, lines : Seq(Lines)]
ApprovalRow == [status : {"Pending", "Approved", "Rejected"}, pr : Requisitions]
OrderRow == [status : {"Ordered", "Received"}, pr : Requisitions, lines : Seq(Lines)]
ItemRow == [stock : Int, received : Nat, issued : Nat]

Idle == [op |-> "none"]
Scan == [op |-> "scan"]
Requests ==
  [op : {"submit", "approve", "order"}, pr : Requisitions]
    \union [op : {"decide"}, approval : Approvals, as : {"Approved", "Rejected"}]
    \union [op : {"receive"}, order : Orders]
    \union {Scan}

Clean == [requisitions |-> <<>>, approvals |-> <<>>, orders |-> <<>>, items |-> <<>>]
Requisition(p) == <<"requisition", p>>
Approval(a) == <<"approval", a>>
Order(o) == <<"order", o>>
Item(i) == <<"item", i>>

TypeOK ==
  /\ requisitions \in [Requisitions -> RequisitionRow \union {None}]
  /\ approvals \in [Approvals -> ApprovalRow \union {None}]
  /\ orders \in [Orders -> OrderRow \union {None}]
  /\ items \in [Items -> ItemRow]
  /\ request \in [Sessions -> Requests \union {Idle}]
  /\ phase \in [Sessions -> {"idle", "claim", "queue", "lines", "scan", "commit"}]
  /\ \A s \in Sessions :
       /\ ahead[s] \subseteq Items
       /\ unpacked[s] \in Nat
       /\ phase[s] = "idle" => request[s] = Idle /\ held[s] = {} /\ draft[s] = Clean

Init ==
  /\ requisitions = [p \in Requisitions |-> None]
  /\ approvals = [a \in Approvals |-> None]
  /\ orders = [o \in Orders |-> None]
  /\ items = [i \in Items |-> [stock |-> InitialStock[i], received |-> 0, issued |-> 0]]
  /\ request = [s \in Sessions |-> Idle]
  /\ phase = [s \in Sessions |-> "idle"]
  /\ ahead = [s \in Sessions |-> {}]
  /\ unpacked = [s \in Sessions |-> 0]
  /\ draft = [s \in Sessions |-> Clean]
  /\ held = [s \in Sessions |-> {}]

-----------------------------------------------------------------------------
\* Transactions

RequisitionView(s) == Over(draft[s].requisitions, requisitions)
ApprovalView(s) == Over(draft[s].approvals, approvals)
OrderView(s) == Over(draft[s].orders, orders)
ItemView(s) == Over(draft[s].items, items)

Take(s, row) ==
  /\ \A t \in Sessions \ {s} : row \notin held[t]
  /\ held' = [held EXCEPT ![s] = @ \union {row}]

\* Ids come from a sequence of the database: above all that were ever handed out.
NextId(table, drafted) ==
  1 + Max({0} \union {x \in DOMAIN table : table[x] # None} \union drafted)

NextRequisition == NextId(requisitions, UNION {DOMAIN draft[t].requisitions : t \in Sessions})
NextApproval == NextId(approvals, UNION {DOMAIN draft[t].approvals : t \in Sessions})
NextOrder == NextId(orders, UNION {DOMAIN draft[t].orders : t \in Sessions})

Begin(s, rq, first, candidates) ==
  /\ phase[s] = "idle"
  /\ request' = [request EXCEPT ![s] = rq]
  /\ phase' = [phase EXCEPT ![s] = first]
  /\ ahead' = [ahead EXCEPT ![s] = candidates]
  /\ UNCHANGED <<tables, unpacked, draft, held>>

End(s) ==
  /\ request' = [request EXCEPT ![s] = Idle]
  /\ phase' = [phase EXCEPT ![s] = "idle"]
  /\ ahead' = [ahead EXCEPT ![s] = {}]
  /\ unpacked' = [unpacked EXCEPT ![s] = 0]
  /\ draft' = [draft EXCEPT ![s] = Clean]
  /\ held' = [held EXCEPT ![s] = {}]

Commit(s) ==
  /\ phase[s] = "commit"
  /\ requisitions' = RequisitionView(s)
  /\ approvals' = ApprovalView(s)
  /\ orders' = OrderView(s)
  /\ items' = ItemView(s)
  /\ End(s)

\* A conflict (409), a lost connection, the victim of a deadlock.
Rollback(s) ==
  /\ phase[s] # "idle"
  /\ End(s)
  /\ UNCHANGED tables

-----------------------------------------------------------------------------
\* Requisitions and their approvals

\* create_pr: a transaction that only inserts.
CreateRequisition ==
  \E lines \in Baskets, p \in Requisitions :
    /\ p = NextRequisition
    /\ requisitions' = [requisitions EXCEPT ![p] =
                          [status |-> "Draft", automatic |-> FALSE, lines |-> lines]]
    /\ UNCHANGED <<approvals, orders, items, request, phase, progress, draft, held>>

Target(s) ==
  IF request[s].op = "decide" THEN approvals[request[s].approval].pr ELSE request[s].pr

\* The status a request requires and the one it leaves.
From == [submit |-> {"Draft", "Rejected"}, approve |-> {"Submitted"},
         decide |-> {"Submitted"}, order |-> {"Approved"}]

\* Mutant: any requisition that has no order yet may be ordered.
ClaimableBeforeOrder(op, status) ==
  status \in From[op] \union (IF op = "order" THEN {"Submitted", "Rejected"} ELSE {})

Claimable(op, status) == status \in From[op]

Claimed(s) ==
  CASE request[s].op = "submit" -> "Submitted"
    [] request[s].op = "approve" -> "Approved"
    [] request[s].op = "decide" -> request[s].as
    [] request[s].op = "order" -> "Ordered"

\* The conditional UPDATE with which submit_requisition, approve_requisition,
\* create_purchase_order and decide_approval_atomic start.
ClaimRequisition(s) ==
  LET p == Target(s)
      row == RequisitionView(s)[p]
  IN /\ phase[s] = "claim"
     /\ request[s].op \in DOMAIN From
     /\ Take(s, Requisition(p))
     /\ Claimable(request[s].op, row.status)
     /\ draft' = [draft EXCEPT ![s].requisitions = Put(@, p, [row EXCEPT !.status = Claimed(s)])]
     /\ phase' = [phase EXCEPT ![s] = "queue"]
     /\ UNCHANGED <<tables, request, progress>>

\* The pending approval requests of a requisition.
PendingOf(view, p) ==
  {a \in DOMAIN view : view[a].status = "Pending" /\ view[a].pr = p}

\* create_approval: a pending request is reused.
QueueApproval(s) ==
  LET p == request[s].pr
      a == NextApproval
  IN /\ phase[s] = "queue"
     /\ request[s].op = "submit"
     /\ \/ PendingOf(ApprovalView(s), p) # {} /\ UNCHANGED draft
        \/ /\ PendingOf(ApprovalView(s), p) = {}
           /\ a \in Approvals
           /\ draft' = [draft EXCEPT ![s].approvals = Put(@, a, [status |-> "Pending", pr |-> p])]
     /\ phase' = [phase EXCEPT ![s] = "commit"]
     /\ UNCHANGED <<tables, request, progress, held>>

\* resolve_approval: the latest pending request, if there is one.
ResolveApproval(s) ==
  LET pending == PendingOf(ApprovalView(s), request[s].pr) IN
    /\ phase[s] = "queue"
    /\ request[s].op = "approve"
    /\ \/ pending = {} /\ UNCHANGED <<draft, held>>
       \/ /\ pending # {}
          /\ Take(s, Approval(Max(pending)))
          /\ draft' = [draft EXCEPT ![s].approvals =
                         Put(@, Max(pending), [status |-> "Approved", pr |-> request[s].pr])]
    /\ phase' = [phase EXCEPT ![s] = "commit"]
    /\ UNCHANGED <<tables, request, progress>>

\* Mutant: the approval is taken for pending as it was when it was read.
StillPendingAsRead(row) == TRUE

StillPending(row) == row.status = "Pending"

\* decide_approval_atomic, after the record is claimed.
DecideApproval(s) ==
  LET a == request[s].approval
      row == ApprovalView(s)[a]
  IN /\ phase[s] = "queue"
     /\ request[s].op = "decide"
     /\ Take(s, Approval(a))
     /\ StillPending(row)
     /\ draft' = [draft EXCEPT ![s].approvals = Put(@, a, [row EXCEPT !.status = request[s].as])]
     /\ phase' = [phase EXCEPT ![s] = "commit"]
     /\ UNCHANGED <<tables, request, progress>>

-----------------------------------------------------------------------------
\* Orders and receipts

PlaceOrder(s) ==
  LET p == request[s].pr
      o == NextOrder
  IN /\ phase[s] = "queue"
     /\ request[s].op = "order"
     /\ o \in Orders
     /\ draft' = [draft EXCEPT ![s].orders = Put(@, o,
          [status |-> "Ordered", pr |-> p, lines |-> RequisitionView(s)[p].lines])]
     /\ phase' = [phase EXCEPT ![s] = "commit"]
     /\ UNCHANGED <<tables, request, progress, held>>

Receivable(row) == row.status = "Ordered"

ClaimOrder(s) ==
  LET o == request[s].order
      row == OrderView(s)[o]
  IN /\ phase[s] = "claim"
     /\ request[s].op = "receive"
     /\ Take(s, Order(o))
     /\ Receivable(row)
     /\ draft' = [draft EXCEPT ![s].orders = Put(@, o, [row EXCEPT !.status = "Received"])]
     /\ phase' = [phase EXCEPT ![s] = "lines"]
     /\ UNCHANGED <<tables, request, progress>>

\* Mutant: the stock is computed from what was read before the row was locked.
ReceivedFromCommitted(s, line) ==
  [items[line.item] EXCEPT !.stock = @ + line.qty, !.received = @ + line.qty]

Received(s, line) ==
  [ItemView(s)[line.item] EXCEPT !.stock = @ + line.qty, !.received = @ + line.qty]

OrderLines(s) == OrderView(s)[request[s].order].lines

ReceiveLine(s) ==
  LET line == OrderLines(s)[unpacked[s] + 1] IN
    /\ phase[s] = "lines"
    /\ unpacked[s] < Len(OrderLines(s))
    /\ \/ line.item = NotStocked /\ UNCHANGED <<draft, held>>
       \/ /\ line.item # NotStocked
          /\ Take(s, Item(line.item))
          /\ draft' = [draft EXCEPT ![s].items = Put(@, line.item, Received(s, line))]
    /\ unpacked' = [unpacked EXCEPT ![s] = @ + 1]
    /\ UNCHANGED <<tables, request, phase, ahead>>

CloseRequisition(s) ==
  LET p == OrderView(s)[request[s].order].pr
      row == RequisitionView(s)[p]
  IN /\ phase[s] = "lines"
     /\ unpacked[s] = Len(OrderLines(s))
     /\ Take(s, Requisition(p))
     /\ row.status = "Ordered"
     /\ draft' = [draft EXCEPT ![s].requisitions = Put(@, p, [row EXCEPT !.status = "Received"])]
     /\ phase' = [phase EXCEPT ![s] = "commit"]
     /\ UNCHANGED <<tables, request, progress>>

-----------------------------------------------------------------------------
\* run_reorder_scan_atomic

Low(view, i) == view[i].stock <= ReorderPoint[i]

Covers(row, i) == \E n \in DOMAIN row.lines : row.lines[n].item = i

\* Mutant: only a submitted requisition counts.
ActiveIfSubmitted(view, i) ==
  \E p \in DOMAIN view : view[p].status = "Submitted" /\ Covers(view[p], i)

\* _active_replenishment_exists
Active(view, i) ==
  \E p \in DOMAIN view :
    /\ view[p] # None
    /\ view[p].status \notin {"Received", "Cancelled", "Rejected"}
    /\ Covers(view[p], i)

ReplenishQuantity(row, i) ==
  Max({MaxLevel[i] - row.stock, ReorderPoint[i] - row.stock + 1, 1})

\* Mutant: the item is judged by the candidate scan.
LowAsScanned(view, i) == TRUE

StillLow(view, i) == Low(view, i)

\* The candidates, in id order: each is judged again under its lock, which stays
\* until the end of the scan.
Replenish(s) ==
  LET i == Min(ahead[s])
      p == NextRequisition
      a == NextApproval
      Needed == StillLow(ItemView(s), i) /\ ~Active(RequisitionView(s), i)
      line == [item |-> i, qty |-> ReplenishQuantity(ItemView(s)[i], i)]
  IN /\ phase[s] = "scan"
     /\ ahead[s] # {}
     /\ Take(s, Item(i))
     /\ \/ /\ Needed
           /\ p \in Requisitions
           /\ a \in Approvals
           /\ draft' = [draft EXCEPT
                ![s].requisitions = Put(@, p, [status |-> "Submitted", automatic |-> TRUE,
                                               lines |-> <<line>>]),
                ![s].approvals = Put(@, a, [status |-> "Pending", pr |-> p])]
        \/ ~Needed /\ UNCHANGED draft
     /\ ahead' = [ahead EXCEPT ![s] = @ \ {i}]
     /\ UNCHANGED <<tables, request, phase, unpacked>>

FinishScan(s) ==
  /\ phase[s] = "scan"
  /\ ahead[s] = {}
  /\ phase' = [phase EXCEPT ![s] = "commit"]
  /\ UNCHANGED <<tables, request, progress, draft, held>>

\* issue_unreserved_stock, from another part of the system.
Consume ==
  \E i \in Items :
    /\ \A s \in Sessions : Item(i) \notin held[s]
    /\ items[i].stock >= 1
    /\ items[i].issued < MaxIssue
    /\ items' = [items EXCEPT ![i].stock = @ - 1, ![i].issued = @ + 1]
    /\ UNCHANGED <<requisitions, approvals, orders, request, phase, progress, draft, held>>

-----------------------------------------------------------------------------
StartSession(s) ==
  \/ \E op \in {"submit", "approve", "order"}, p \in Requisitions :
       requisitions[p] # None /\ Begin(s, [op |-> op, pr |-> p], "claim", {})
  \/ \E a \in Approvals, as \in {"Approved", "Rejected"} :
       approvals[a].status = "Pending"
         /\ Begin(s, [op |-> "decide", approval |-> a, as |-> as], "claim", {})
  \/ \E o \in Orders :
       orders[o] # None /\ Begin(s, [op |-> "receive", order |-> o], "claim", {})
  \/ Begin(s, Scan, "scan", {i \in Items : Low(items, i)})

SessionStep(s) ==
  \/ StartSession(s)
  \/ ClaimRequisition(s)
  \/ QueueApproval(s)
  \/ ResolveApproval(s)
  \/ DecideApproval(s)
  \/ PlaceOrder(s)
  \/ ClaimOrder(s)
  \/ ReceiveLine(s)
  \/ CloseRequisition(s)
  \/ Replenish(s)
  \/ FinishScan(s)
  \/ Commit(s)
  \/ Rollback(s)

Next == CreateRequisition \/ Consume \/ \E s \in Sessions : SessionStep(s)

Spec == Init /\ [][Next]_vars

-----------------------------------------------------------------------------
\* Properties

OrdersOf(p, status) == {o \in Orders : orders[o].status = status /\ orders[o].pr = p}

(* A requisition, its approvals and its order tell the same story in every  *)
(* committed state, whoever submits, approves, decides, orders and receives *)
(* at once: it waits for exactly one decision while Submitted and for none  *)
(* otherwise, the last decision is the one it bears, and it has one order,  *)
(* of its own status, exactly from Ordered on.                              *)
PaperTrailAgrees ==
  \A p \in {q \in Requisitions : requisitions[q] # None} :
    LET status == requisitions[p].status
        decided == {a \in Approvals : approvals[a] # None /\ approvals[a].pr = p}
    IN /\ Cardinality(PendingOf(approvals, p)) = IF status = "Submitted" THEN 1 ELSE 0
       /\ status = "Rejected" => approvals[Max(decided)].status = "Rejected"
       /\ status \in {"Approved", "Ordered", "Received"} =>
            decided # {} /\ approvals[Max(decided)].status = "Approved"
       /\ \A at \in {"Ordered", "Received"} :
            Cardinality(OrdersOf(p, at)) = IF status = at THEN 1 ELSE 0

\* The units of item i that lines name, one by one.
UnitsOn(lines, i) ==
  UNION {{n} \X (1..lines[n].qty) : n \in {m \in DOMAIN lines : lines[m].item = i}}

ReceivedOf(i) ==
  Cardinality(UNION {{o} \X UnitsOn(orders[o].lines, i) :
                       o \in {x \in Orders : orders[x].status = "Received"}})

(* "Claim the one legal receipt transition before any inventory side        *)
(* effects": the receipts on the ledger of an item are the lines of the     *)
(* received orders, each once, and with the issues they explain the stock.  *)
ReceiptsExplainStock ==
  \A i \in Items :
    /\ items[i].received = ReceivedOf(i)
    /\ items[i].stock = InitialStock[i] + items[i].received - items[i].issued

(* The records of the three parties to a purchase agree.                    *)
RecordsAgree == TypeOK /\ PaperTrailAgrees /\ ReceiptsExplainStock

Automatic(p, i) ==
  requisitions[p] # None /\ requisitions[p].automatic /\ Covers(requisitions[p], i)

WasRejected(p) == \E a \in Approvals : approvals[a] # None
                    /\ approvals[a].pr = p /\ approvals[a].status = "Rejected"

InProgress(p) == requisitions[p].status \notin {"Received", "Rejected"}

(* "Create at most one active automatic replenishment PR per low-stock      *)
(* item", of concurrent scans, issues and receipts: two automatic ones are  *)
(* in progress together only if one of them had been rejected.              *)
ReplenishesOnce ==
  \A i \in Items : \A p, q \in Requisitions :
    (p # q /\ Automatic(p, i) /\ Automatic(q, i) /\ InProgress(p) /\ InProgress(q))
      => WasRejected(p) \/ WasRejected(q)

(* "Revalidated after the lock is held": an automatic requisition commits    *)
(* only while the stock it was made for is at the reorder point or below.    *)
ReplenishesWhenLow ==
  [][\A i \in Items, p \in Requisitions :
       (requisitions[p] = None /\ Automatic(p, i)') => Low(items', i)]_vars
=============================================================================
