-------------------------- MODULE ReservationsProofs -------------------------
(***************************************************************************)
(* What Reservations guarantees for every number of items, work orders,    *)
(* sessions and reservations, and for every plan and level of stock.       *)
(***************************************************************************)
EXTENDS Reservations, FiniteSetTheorems, FunctionTheorems, WellFoundedInduction, TLAPS

-----------------------------------------------------------------------------
\* The inductive invariant

\* A row that is written again stays the reservation it was.
Continues(new, old) ==
  /\ new.issued <= new.quantity
  /\ old.issued <= new.issued
  /\ old.status # "Absent" =>
       new.work = old.work /\ new.item = old.item /\ new.quantity = old.quantity

\* Locks exclude.
Locked ==
  \A s, t \in Sessions : s # t =>
    /\ held[s] \intersect held[t] = {}
    /\ \A r \in Ids : ~(Drafted(s, r) /\ Drafted(t, r))

DraftsContinue(s) == \A r \in Ids : Drafted(s, r) => Continues(draft[s][r], resv[r])

OneItem == {"reserve", "release", "issue", "consume", "issueStock", "receive", "adjust"}
Counted == {"reserve", "issue", "consume", "issueStock", "receive", "transfer"}

\* What a request on the canonical path asks for.
WellFormed(rq) ==
  /\ rq.op \in Kinds \ {"cancel"}
  /\ rq.op \in OneItem \union {"transfer"} => rq.item \in Items
  /\ rq.op = "transfer" => rq.to \in Items /\ rq.to # rq.item
  /\ rq.op \in Counted => rq.qty \in Quantities
  /\ rq.op \in {"reserve", "consume", "reserveAll", "issue"} => rq.work \in Works
  /\ rq.op \in {"release", "issue"} =>
       /\ rq.id \in Ids /\ resv[rq.id].status # "Absent"
       /\ resv[rq.id].item = rq.item /\ resv[rq.id].work = rq.work

\* How far a session is: its items are locked in id order before it writes.
Progress(s) ==
  /\ phase[s] = "idle" => held[s] = {} /\ \A r \in Ids : ~Drafted(s, r)
  /\ phase[s] = "locking" => \A r \in Ids : ~Drafted(s, r)
  /\ phase[s] \in {"locking", "written"} =>
       /\ WellFormed(request[s])
       /\ held[s] \subseteq Wanted(s)
       /\ \A i \in held[s], j \in Wanted(s) \ held[s] : i < j
       /\ request[s].op = "reserveAll" => \A i \in Items : seen[s][i] \in 0..MaxQty
  /\ phase[s] = "written" => Wanted(s) \subseteq held[s]
  /\ phase[s] \in {"settling", "syncing"} =>
       /\ request[s].work \in Works
       /\ \A r \in open[s] : resv[r].status # "Absent"
  /\ phase[s] = "syncing" => sum[s].item \in Items

\* What a session makes of the stock of the items it holds.
Copies(s) ==
  \A i \in held[s] :
    /\ phase[s] = "locking" => itemRow[s][i] = items[i]
    /\ phase[s] \in {"settling", "syncing"} => itemRow[s][i].current = items[i].current
    /\ phase[s] = "written" => itemRow[s][i].current = items[i].current + LedgerEntry(s, i)

SessionInv(s) == DraftsContinue(s) /\ Progress(s) /\ Copies(s)

IInv == TypeOK /\ Locked /\ LedgerExplainsStock /\ \A s \in Sessions : SessionInv(s)

-----------------------------------------------------------------------------
\* Rows and tables

Rows == [Ids -> ReservationRow \union {Absent}]
Marked == {"Same", "Required", "Reserved", "Fulfilled"}
Request ==
  [op : Kinds \union {"none"}, work : Works \union {"none"}, item : Items \union {0},
   to : Items \union {0}, id : Ids \union {0}, qty : Int]

LEMMA RowCases ==
  ASSUME ReservationsAssumption, NEW row \in ReservationRow \union {Absent}
  PROVE  /\ row.status = "Absent" => row = Absent
         /\ row.status # "Absent" => row \in ReservationRow
         /\ row.issued \in Nat /\ row.quantity \in Nat
<1>1. CASE row = Absent
  <2>1. Absent.status = "Absent" /\ Absent.issued = 0 /\ Absent.quantity = 0
    BY DEF Absent
  <2>2. QED
    BY <1>1, <2>1
<1>2. CASE row \in ReservationRow
  <2>1. row.status # "Absent"
    BY <1>2 DEF ReservationRow, ActiveStatuses
  <2>2. row.issued \in 0..MaxQty /\ row.quantity \in 1..MaxQty /\ MaxQty \in Nat
    BY <1>2 DEF ReservationRow, Quantities, ReservationsAssumption
  <2>3. QED
    BY <1>2, <2>1, <2>2
<1>3. QED
  BY <1>1, <1>2

LEMMA ViewType ==
  ASSUME resv \in Rows, NEW d \in Rows
  PROVE  View(d) \in Rows
BY DEF View, Rows

\* What a request adds to the ledger concerns items it has locked.
LEMMA EntryWanted ==
  ASSUME NEW s \in Sessions, NEW i \in Items, request[s] \in Request,
         seen[s][i] \in Int
  PROVE  /\ LedgerEntry(s, i) \in Int
         /\ i \notin Wanted(s) => LedgerEntry(s, i) = 0
<1>1. request[s].qty \in Int
  BY DEF Request
<1>2. QED
  BY <1>1 DEF LedgerEntry, Wanted

-----------------------------------------------------------------------------
\* What a step of a session leaves alone

OnlyMoves(s) ==
  \A t \in Sessions \ {s} :
    /\ request'[t] = request[t] /\ phase'[t] = phase[t] /\ held'[t] = held[t]
    /\ seen'[t] = seen[t] /\ itemRow'[t] = itemRow[t] /\ draft'[t] = draft[t]
    /\ open'[t] = open[t] /\ sum'[t] = sum[t]

LEMMA Undisturbed ==
  ASSUME NEW t \in Sessions, SessionInv(t), UNCHANGED <<items, resv>>,
         request'[t] = request[t], phase'[t] = phase[t], held'[t] = held[t],
         seen'[t] = seen[t], itemRow'[t] = itemRow[t], draft'[t] = draft[t],
         open'[t] = open[t], sum'[t] = sum[t]
  PROVE  SessionInv(t)'
<1>1. DraftsContinue(t)'
  BY DEF SessionInv, DraftsContinue, Drafted
<1>2. Wanted(t)' = Wanted(t) /\ \A i \in Items : LedgerEntry(t, i)' = LedgerEntry(t, i)
  BY DEF Wanted, LedgerEntry
<1>3. Progress(t)'
  BY <1>2 DEF SessionInv, Progress, Drafted, WellFormed
<1>4. \A i : LedgerEntry(t, i)' = LedgerEntry(t, i)
  BY DEF LedgerEntry
<1>5. Copies(t)'
  BY <1>4 DEF SessionInv, Copies
<1>6. QED
  BY <1>1, <1>3, <1>5 DEF SessionInv

LEMMA StepHolds ==
  ASSUME IInv, NEW s \in Sessions, UNCHANGED <<items, resv, ledger>>, OnlyMoves(s),
         TypeOK', Locked', SessionInv(s)'
  PROVE  IInv'
<1>1. ASSUME NEW t \in Sessions, t # s
      PROVE  SessionInv(t)'
  BY <1>1, Undisturbed DEF IInv, OnlyMoves
<1>2. LedgerExplainsStock'
  BY DEF IInv, LedgerExplainsStock
<1>3. QED
  BY <1>1, <1>2 DEF IInv

LEMMA LockedHolds ==
  ASSUME Locked, NEW s \in Sessions, OnlyMoves(s),
         \A t \in Sessions \ {s} : held'[s] \intersect held[t] = {},
         \A r \in Ids : Drafted(s, r)' => RowFree(s, r)
  PROVE  Locked'
<1>1. \A t \in Sessions \ {s} : held'[t] = held[t] /\ draft'[t] = draft[t]
  BY DEF OnlyMoves
<1>2. \A t \in Sessions \ {s}, r \in Ids : Drafted(t, r)' <=> Drafted(t, r)
  BY <1>1 DEF Drafted
<1>3. \A t \in Sessions \ {s}, r \in Ids : ~(Drafted(s, r)' /\ Drafted(t, r)')
  BY <1>2 DEF RowFree
<1>4. ASSUME NEW t \in Sessions, NEW u \in Sessions, t # u
      PROVE  /\ held'[t] \intersect held'[u] = {}
             /\ \A r \in Ids : ~(Drafted(t, r)' /\ Drafted(u, r)')
  <2>1. CASE t = s
    BY <1>1, <1>3, <1>4, <2>1
  <2>2. CASE u = s
    BY <1>1, <1>3, <1>4, <2>2
  <2>3. CASE t # s /\ u # s
    BY <1>1, <1>2, <1>4, <2>3 DEF Locked
  <2>4. QED
    BY <2>1, <2>2, <2>3
<1>5. QED
  BY <1>4 DEF Locked

LEMMA EndSessionType ==
  ASSUME ReservationsAssumption, TypeOK, NEW s \in Sessions, EndSession(s)
  PROVE  /\ request' \in [Sessions -> Request] /\ phase' \in [Sessions -> Phases]
         /\ held' \in [Sessions -> SUBSET Items] /\ seen' \in [Sessions -> [Items -> Int]]
         /\ itemRow' \in [Sessions -> [Items -> ItemRow]] /\ draft' \in [Sessions -> Rows]
         /\ mark' \in [Sessions -> Marked] /\ open' \in [Sessions -> SUBSET Ids]
         /\ sum' \in [Sessions -> [item : Items \union {0}, value : Nat]]
         /\ phase'[s] = "idle" /\ held'[s] = {} /\ \A r \in Ids : ~Drafted(s, r)'
         /\ OnlyMoves(s)
<1>1. NoRequest \in Request
  BY DEF NoRequest, Request
<1>2. NoItemRows \in [Items -> ItemRow] /\ Nothing \in [Items -> Int]
  BY DEF NoItemRows, ItemRow, Nothing
<1>3. NoDraft \in Rows /\ \A r \in Ids : NoDraft[r].status = "Absent"
  BY DEF NoDraft, Rows, Absent
<1>4. NoSum \in [item : Items \union {0}, value : Nat]
  BY DEF NoSum
<1>5. request' \in [Sessions -> Request] /\ phase' \in [Sessions -> Phases]
  BY <1>1 DEF EndSession, TypeOK, Request, Phases
<1>6. held' \in [Sessions -> SUBSET Items] /\ seen' \in [Sessions -> [Items -> Int]]
  BY <1>2 DEF EndSession, TypeOK
<1>7. itemRow' \in [Sessions -> [Items -> ItemRow]] /\ draft' \in [Sessions -> Rows]
  BY <1>2, <1>3 DEF EndSession, TypeOK, Rows
<1>8. /\ mark' \in [Sessions -> Marked] /\ open' \in [Sessions -> SUBSET Ids]
      /\ sum' \in [Sessions -> [item : Items \union {0}, value : Nat]]
  BY <1>4 DEF EndSession, TypeOK, Marked
<1>9. phase'[s] = "idle" /\ held'[s] = {} /\ draft'[s] = NoDraft
  BY DEF EndSession, TypeOK
<1>10. \A r \in Ids : ~Drafted(s, r)'
  BY <1>3, <1>9 DEF Drafted
<1>11. OnlyMoves(s)
  BY DEF EndSession, TypeOK, OnlyMoves
<1>12. QED
  BY <1>5, <1>6, <1>7, <1>8, <1>9, <1>10, <1>11

\* A session that has ended.
LEMMA AtRest ==
  ASSUME NEW s \in Sessions, phase'[s] = "idle", held'[s] = {},
         \A r \in Ids : ~Drafted(s, r)'
  PROVE  SessionInv(s)'
BY DEF SessionInv, DraftsContinue, Progress, Copies

LEMMA RollbackHolds ==
  ASSUME ReservationsAssumption, IInv, NEW s \in Sessions, Rollback(s)
  PROVE  IInv'
<1>1. TypeOK /\ Locked /\ EndSession(s) /\ UNCHANGED tables
  BY DEF IInv, Rollback
<1>2. TypeOK'
  BY <1>1, EndSessionType DEF TypeOK, tables, Rows, Marked, Request
<1>3. OnlyMoves(s) /\ SessionInv(s)'
  BY <1>1, EndSessionType, AtRest
<1>4. Locked'
  BY <1>1, <1>3, EndSessionType, LockedHolds
<1>5. QED
  BY <1>1, <1>2, <1>3, <1>4, StepHolds DEF tables

-----------------------------------------------------------------------------
\* Requests and locks

LEMMA RequestsAsked ==
  ASSUME ReservationsAssumption, TypeOK, NEW rq \in Requests
  PROVE  rq \in Request /\ WellFormed(rq)
<1> DEFINE Asked == rq \in Request /\ WellFormed(rq)
<1>1. Quantities \subseteq Int /\ Targets \subseteq Int /\ 0 \in Int
  BY DEF Quantities, ReservationsAssumption
<1>2. CASE rq \in Asking("reserve", Works, Items, {0}, Quantities)
  BY <1>1, <1>2 DEF Asking, Request, WellFormed, Kinds, OneItem, Counted
<1>3. CASE rq \in Asking("consume", Works, Items, {0}, Quantities)
  BY <1>1, <1>3 DEF Asking, Request, WellFormed, Kinds, OneItem, Counted
<1>4. CASE rq \in Asking("reserveAll", Works, {0}, {0}, {0})
  BY <1>1, <1>4 DEF Asking, Request, WellFormed, Kinds, OneItem, Counted
<1>5. CASE rq \in Asking("issueStock", {"none"}, Items, {0}, Quantities)
  BY <1>1, <1>5 DEF Asking, Request, WellFormed, Kinds, OneItem, Counted
<1>6. CASE rq \in Asking("receive", {"none"}, Items, {0}, Quantities)
  BY <1>1, <1>6 DEF Asking, Request, WellFormed, Kinds, OneItem, Counted
<1>7. CASE rq \in Asking("adjust", {"none"}, Items, {0}, Targets)
  BY <1>1, <1>7 DEF Asking, Request, WellFormed, Kinds, OneItem, Counted
<1>8. CASE rq \in Asking("transfer", {"none"}, Items, Items, Quantities) /\ rq.item # rq.to
  BY <1>1, <1>8 DEF Asking, Request, WellFormed, Kinds, OneItem, Counted
<1>9. ASSUME NEW op \in {"release", "issue"}, NEW qs \in SUBSET Int, rq \in AskingAbout(op, qs),
             op = "issue" => qs = Quantities
      PROVE  Asked
  <2>1. PICK r \in Ids, q \in qs :
          /\ resv[r].status # "Absent"
          /\ rq = [op |-> op, work |-> resv[r].work, item |-> resv[r].item, to |-> 0,
                   id |-> r, qty |-> q]
    BY <1>9 DEF AskingAbout
  <2>2. resv[r] \in ReservationRow
    BY <2>1, RowCases DEF TypeOK
  <2>3. resv[r].work \in Works /\ resv[r].item \in Items
    BY <2>2 DEF ReservationRow
  <2>4. QED
    BY <1>1, <1>9, <2>1, <2>3 DEF Request, WellFormed, Kinds, OneItem, Counted
<1>10. CASE rq \in AskingAbout("release", {0})
  BY <1>1, <1>9, <1>10
<1>11. CASE rq \in AskingAbout("issue", Quantities)
  BY <1>1, <1>9, <1>11
<1>12. QED
  BY <1>2, <1>3, <1>4, <1>5, <1>6, <1>7, <1>8, <1>10, <1>11 DEF Requests

LEMMA SubmitHolds ==
  ASSUME ReservationsAssumption, IInv, NEW s \in Sessions, NEW rq \in Requests, Submit(s, rq)
  PROVE  IInv'
<1>1. TypeOK /\ Locked /\ SessionInv(s) /\ rq \in Request /\ WellFormed(rq)
  BY RequestsAsked DEF IInv
<1>2. /\ phase[s] = "idle" /\ request' = [request EXCEPT ![s] = rq]
      /\ phase' = [phase EXCEPT ![s] = "locking"]
      /\ seen' = [seen EXCEPT ![s] = PreRead(rq)]
      /\ UNCHANGED <<items, resv, reqs, used, ledger, cancelled, held, itemRow, draft, mark,
                     open, sum>>
  BY DEF Submit, tables
<1>3. /\ PreRead(rq) \in [Items -> Int]
      /\ rq.op = "reserveAll" => \A i \in Items : PreRead(rq)[i] \in 0..MaxQty
  <2>1. /\ \A i \in Items : items[i].current \in Int
        /\ \A w \in Works, i \in Items : reqs[w][i].quantity \in 0..MaxQty
    BY <1>1 DEF TypeOK, ItemRow, Requirement
  <2>2. \A i \in Items : rq.op = "reserveAll" =>
          rq.work \in Works /\ PreRead(rq)[i] = reqs[rq.work][i].quantity
    BY <1>1 DEF PreRead, WellFormed
  <2>3. \A i \in Items : PreRead(rq)[i] \in Int
    BY <2>1, <2>2 DEF PreRead, ReservationsAssumption
  <2>4. QED
    BY <2>1, <2>2, <2>3 DEF PreRead
<1>4. TypeOK'
  BY <1>1, <1>2, <1>3 DEF TypeOK, Request, Phases
<1>5. OnlyMoves(s) /\ phase'[s] = "locking" /\ request'[s] = rq /\ seen'[s] = PreRead(rq)
  BY <1>1, <1>2 DEF OnlyMoves, TypeOK
<1>6. held'[s] = {} /\ \A r \in Ids : ~Drafted(s, r) /\ ~Drafted(s, r)'
  BY <1>1, <1>2 DEF SessionInv, Progress, Drafted
<1>7. Locked'
  BY <1>1, <1>5, <1>6, LockedHolds
<1>8. SessionInv(s)'
  <2>1. WellFormed(request[s])'
    BY <1>1, <1>2, <1>5 DEF WellFormed
  <2>2. QED
    BY <1>3, <1>5, <1>6, <2>1 DEF SessionInv, DraftsContinue, Progress, Copies
<1>9. QED
  BY <1>2, <1>4, <1>5, <1>7, <1>8, StepHolds

LEMMA LockHolds ==
  ASSUME ReservationsAssumption, IInv, NEW s \in Sessions, NEW i \in Items, Lock(s, i)
  PROVE  IInv'
<1>1. TypeOK /\ Locked /\ SessionInv(s)
  BY DEF IInv
<1>2. /\ phase[s] = "locking" /\ NextToLock(s, i) /\ ItemFree(s, i)
      /\ held' = [held EXCEPT ![s] = @ \union {i}]
      /\ itemRow' = [itemRow EXCEPT ![s][i] = items[i]]
      /\ UNCHANGED <<items, resv, reqs, used, ledger, cancelled, request, phase, seen, draft,
                     mark, open, sum>>
  BY DEF Lock, tables
<1>3. held' \in [Sessions -> SUBSET Items] /\ itemRow' \in [Sessions -> [Items -> ItemRow]]
  BY <1>1, <1>2 DEF TypeOK
<1>4. TypeOK'
  BY <1>1, <1>2, <1>3 DEF TypeOK
<1>5. /\ OnlyMoves(s) /\ held'[s] = held[s] \union {i} /\ itemRow'[s][i] = items[i]
      /\ \A j \in Items \ {i} : itemRow'[s][j] = itemRow[s][j]
  BY <1>1, <1>2 DEF OnlyMoves, TypeOK
<1>6. \A r \in Ids : ~Drafted(s, r) /\ ~Drafted(s, r)'
  BY <1>1, <1>2 DEF SessionInv, Progress, Drafted
<1>7. Locked'
  <2>1. \A t \in Sessions \ {s} : held'[s] \intersect held[t] = {}
    BY <1>1, <1>2, <1>5 DEF ItemFree, Locked
  <2>2. QED
    BY <1>1, <1>5, <1>6, <2>1, LockedHolds
<1>8. Wanted(s)' = Wanted(s)
  BY <1>2 DEF Wanted
<1>9. Progress(s)'
  <2>1. WellFormed(request[s]) /\ WellFormed(request[s])'
    BY <1>1, <1>2 DEF SessionInv, Progress, WellFormed
  <2>2. held'[s] \subseteq Wanted(s)
    BY <1>1, <1>2, <1>5 DEF SessionInv, Progress, NextToLock
  <2>3. \A j \in held'[s], k \in Wanted(s) \ held'[s] : j < k
    <3> SUFFICES ASSUME NEW j \in held'[s], NEW k \in Wanted(s) \ held'[s]
                 PROVE  j < k
      OBVIOUS
    <3>1. CASE j # i
      BY <1>1, <1>2, <1>5, <3>1 DEF SessionInv, Progress
    <3>2. CASE j = i
      <4>1. i <= k /\ i # k
        BY <1>2, <1>5 DEF NextToLock
      <4>2. i \in Int /\ k \in Int
        BY <2>1, ReservationsAssumption DEF Wanted, WellFormed, Items, OneItem, Kinds
      <4>3. QED
        BY <3>2, <4>1, <4>2
    <3>3. QED
      BY <3>1, <3>2
  <2>4. QED
    BY <1>1, <1>2, <1>6, <1>8, <2>1, <2>2, <2>3 DEF SessionInv, Progress
<1>10. Copies(s)' /\ DraftsContinue(s)'
  <2>1. \A j \in held'[s] : itemRow'[s][j] = items[j]
    BY <1>1, <1>2, <1>5 DEF SessionInv, Copies, TypeOK
  <2>2. QED
    BY <1>2, <1>6, <2>1 DEF Copies, DraftsContinue
<1>11. QED
  BY <1>2, <1>4, <1>5, <1>7, <1>9, <1>10, StepHolds DEF SessionInv

-----------------------------------------------------------------------------
\* Writing

\* Before it writes, a session has drafted nothing and copied its items.
LEMMA BeforeWriting ==
  ASSUME ReservationsAssumption, IInv, NEW s \in Sessions, Holding(s)
  PROVE  /\ WellFormed(request[s]) /\ held[s] = Wanted(s)
         /\ draft[s] = NoDraft
         /\ \A i \in held[s] : i \in Items /\ itemRow[s][i] = items[i]
         /\ itemRow[s] \in [Items -> ItemRow]
         /\ request[s] \in Request /\ seen[s] \in [Items -> Int]
<1>1. TypeOK /\ SessionInv(s) /\ phase[s] = "locking" /\ Wanted(s) \subseteq held[s]
  BY DEF IInv, Holding
<1>2. draft[s] = NoDraft
  <2>1. \A r \in Ids : draft[s][r] = Absent
    BY <1>1, RowCases DEF SessionInv, Progress, Drafted, TypeOK
  <2>2. QED
    BY <1>1, <2>1 DEF NoDraft, TypeOK
<1>3. QED
  BY <1>1, <1>2 DEF SessionInv, Progress, Copies, TypeOK, Request

LEMMA WriteHolds ==
  ASSUME ReservationsAssumption, IInv, NEW s \in Sessions, Holding(s),
         NEW rows \in Rows, NEW newItems \in [Items -> ItemRow], NEW status \in Marked,
         Write(s, rows, newItems, status),
         \A r \in Ids : rows[r].status # "Absent" =>
           Continues(rows[r], resv[r]) /\ RowFree(s, r),
         \A i \in held[s] : newItems[i].current = items[i].current + LedgerEntry(s, i)
  PROVE  IInv'
<1>1. TypeOK /\ Locked /\ SessionInv(s) /\ phase[s] = "locking" /\ Wanted(s) \subseteq held[s]
  BY DEF IInv, Holding
<1>2. /\ draft' = [draft EXCEPT ![s] = rows] /\ itemRow' = [itemRow EXCEPT ![s] = newItems]
      /\ mark' = [mark EXCEPT ![s] = status] /\ phase' = [phase EXCEPT ![s] = "written"]
      /\ UNCHANGED <<items, resv, reqs, used, ledger, cancelled, request, held, seen, open, sum>>
  BY DEF Write, tables
<1>3. TypeOK'
  <2>1. /\ draft' \in [Sessions -> [Ids -> ReservationRow \union {Absent}]]
        /\ itemRow' \in [Sessions -> [Items -> ItemRow]]
    BY <1>1, <1>2 DEF TypeOK, Rows
  <2>2. /\ mark' \in [Sessions -> {"Same", "Required", "Reserved", "Fulfilled"}]
        /\ phase' \in [Sessions -> Phases]
    BY <1>1, <1>2 DEF TypeOK, Marked, Phases
  <2>3. QED
    BY <1>1, <1>2, <2>1, <2>2 DEF TypeOK
<1>4. /\ OnlyMoves(s) /\ draft'[s] = rows /\ itemRow'[s] = newItems /\ phase'[s] = "written"
      /\ held'[s] = held[s]
  BY <1>1, <1>2 DEF OnlyMoves, TypeOK
<1>5. \A r \in Ids : Drafted(s, r)' => RowFree(s, r) /\ Continues(rows[r], resv[r])
  BY <1>4 DEF Drafted
<1>6. Locked'
  <2>1. \A t \in Sessions \ {s} : held'[s] \intersect held[t] = {}
    BY <1>1, <1>4 DEF Locked
  <2>2. QED
    BY <1>1, <1>4, <1>5, <2>1, LockedHolds
<1>7. DraftsContinue(s)'
  BY <1>2, <1>4, <1>5 DEF DraftsContinue
<1>8. Wanted(s)' = Wanted(s) /\ WellFormed(request[s])'
  BY <1>1, <1>2 DEF Wanted, WellFormed, SessionInv, Progress
<1>9. Progress(s)'
  BY <1>1, <1>2, <1>4, <1>8 DEF Progress, SessionInv
<1>10. Copies(s)'
  <2>1. \A i : LedgerEntry(s, i)' = LedgerEntry(s, i)
    BY <1>2 DEF LedgerEntry
  <2>2. QED
    BY <1>2, <1>4, <2>1 DEF Copies
<1>11. QED
  BY <1>2, <1>3, <1>4, <1>6, <1>7, <1>9, <1>10, StepHolds DEF SessionInv

-----------------------------------------------------------------------------
\* Counting units

LEMMA SubsetsFinite ==
  ASSUME ReservationsAssumption
  PROVE  /\ \A S \in SUBSET Ids : IsFiniteSet(S) /\ Cardinality(S) \in Nat
         /\ \A S \in SUBSET (Ids \X Quantities) : IsFiniteSet(S) /\ Cardinality(S) \in Nat
         /\ \A S \in SUBSET Items : IsFiniteSet(S) /\ Cardinality(S) \in Nat
<1>1. IsFiniteSet(Ids) /\ IsFiniteSet(Quantities) /\ IsFiniteSet(Items)
  BY FS_Interval DEF Ids, Quantities, Items, ReservationsAssumption
<1>2. IsFiniteSet(Ids \X Quantities)
  BY <1>1, FS_Product
<1>3. QED
  BY <1>1, <1>2, FS_Subset, FS_CardinalityType

LEMMA UnitsCounted ==
  ASSUME ReservationsAssumption, NEW table, NEW w, NEW i
  PROVE  /\ Units(table, i) \in SUBSET (Ids \X Quantities)
         /\ UnitsOf(table, w, i) \in SUBSET (Ids \X Quantities)
         /\ UnitsOf(table, w, i) \subseteq Units(table, i)
         /\ Outstanding(table, i) \in Nat /\ OwnOutstanding(table, w, i) \in Nat
         /\ OwnOutstanding(table, w, i) <= Outstanding(table, i)
<1>1. /\ Units(table, i) \in SUBSET (Ids \X Quantities)
      /\ UnitsOf(table, w, i) \in SUBSET (Ids \X Quantities)
      /\ UnitsOf(table, w, i) \subseteq Units(table, i)
  BY DEF Units, UnitsOf
<1>2. Cardinality(UnitsOf(table, w, i)) <= Cardinality(Units(table, i))
  BY <1>1, SubsetsFinite, FS_Subset
<1>3. QED
  BY <1>1, <1>2, SubsetsFinite DEF Outstanding, OwnOutstanding

\* The units of one row, some of them issued.
LEMMA UnitsOfRow ==
  ASSUME NEW r \in Ids, NEW a \in Nat, NEW b \in Nat, a <= b
  PROVE  /\ IsFiniteSet({r} \X ((a + 1)..b))
         /\ Cardinality({r} \X ((a + 1)..b)) = b - a
<1> DEFINE lo == a + 1
<1>1. lo \in Int /\ b \in Int /\ (lo > b <=> a = b) /\ b - lo + 1 = b - a
  OBVIOUS
<1> HIDE DEF lo
<1>2. IsFiniteSet(lo..b) /\ Cardinality(lo..b) = IF lo > b THEN 0 ELSE b - lo + 1
  BY <1>1, FS_Interval
<1>3. Cardinality(lo..b) = b - a
  BY <1>1, <1>2
<1>4. IsFiniteSet({r}) /\ Cardinality({r}) = 1
  BY FS_Singleton
<1> DEFINE S == {r}
           T == lo..b
<1> HIDE DEF S, T
<1>5. IsFiniteSet(S \X T) /\ Cardinality(S \X T) = Cardinality(S) * Cardinality(T)
  BY <1>2, <1>4, FS_Product DEF S, T
<1>6. Cardinality(S \X T) = b - a
  BY <1>3, <1>4, <1>5 DEF S, T
<1>7. QED
  BY <1>5, <1>6 DEF S, T, lo

Own(row, w, i) == row.status \in ActiveStatuses /\ row.item = i /\ row.work = w

\* The balance of a reservation.
LEMMA Balance ==
  ASSUME ReservationsAssumption, TypeOK, NEW w, NEW i, NEW r \in Ids
  PROVE  Cardinality({u \in UnitsOf(resv, w, i) : u[1] = r})
           = IF Own(resv[r], w, i) THEN resv[r].quantity - resv[r].issued ELSE 0
<1> DEFINE mine == {u \in UnitsOf(resv, w, i) : u[1] = r}
<1>1. /\ resv[r] \in ReservationRow \union {Absent}
      /\ resv[r].issued \in Nat /\ resv[r].quantity \in Nat /\ resv[r].issued <= resv[r].quantity
  BY RowCases DEF TypeOK
<1>2. CASE Own(resv[r], w, i)
  <2>1. resv[r].quantity \in 1..MaxQty /\ MaxQty \in Nat
    <3>1. resv[r] \in ReservationRow
      BY <1>1, <1>2, RowCases DEF Own, ActiveStatuses
    <3>2. QED
      BY <3>1 DEF ReservationRow, Quantities, ReservationsAssumption
  <2>2. mine = {r} \X ((resv[r].issued + 1)..resv[r].quantity)
    <3>1. ASSUME NEW u \in mine
          PROVE  u \in {r} \X ((resv[r].issued + 1)..resv[r].quantity)
      <4>1. u \in Ids \X Quantities /\ u[1] = r
        BY DEF Units, UnitsOf
      <4>2. u[2] \in Int /\ resv[r].issued < u[2] /\ u[2] <= resv[r].quantity
        BY <4>1 DEF Units, UnitsOf, Quantities
      <4>3. u[2] \in (resv[r].issued + 1)..resv[r].quantity
        BY <1>1, <4>2
      <4>4. QED
        BY <4>1, <4>3
    <3>2. ASSUME NEW u \in {r} \X ((resv[r].issued + 1)..resv[r].quantity)
          PROVE  u \in mine
      <4>1. u[1] = r /\ u[2] \in Int /\ resv[r].issued < u[2] /\ u[2] <= resv[r].quantity
            /\ u = <<u[1], u[2]>>
        BY <1>1
      <4>2. u[2] \in Quantities
        BY <1>1, <2>1, <4>1 DEF Quantities
      <4>3. u \in Units(resv, i)
        BY <1>2, <4>1, <4>2 DEF Units, Own
      <4>4. QED
        BY <1>2, <4>1, <4>3 DEF UnitsOf, Own
    <3>3. QED
      BY <3>1, <3>2
  <2> DEFINE a == resv[r].issued
             b == resv[r].quantity
  <2>3. a \in Nat /\ b \in Nat /\ a <= b /\ mine = {r} \X ((a + 1)..b)
    BY <1>1, <2>2
  <2> HIDE DEF a, b, mine
  <2>4. Cardinality(mine) = b - a
    BY <2>3, UnitsOfRow
  <2>5. QED
    BY <1>2, <2>4 DEF a, b, mine
<1>3. CASE ~Own(resv[r], w, i)
  <2>1. mine = {}
    BY <1>3 DEF Units, UnitsOf, Own
  <2>2. QED
    BY <1>3, <2>1, FS_EmptySet
<1>4. QED
  BY <1>2, <1>3

\* No reservation gives more than its balance.
LEMMA TakenType ==
  ASSUME ReservationsAssumption, TypeOK, NEW w, NEW i, NEW q \in Nat, NEW r \in Ids
  PROVE  /\ TakenFrom(w, i, q, r) \in Nat
         /\ TakenFrom(w, i, q, r) > 0 =>
              /\ Own(resv[r], w, i)
              /\ TakenFrom(w, i, q, r) <= resv[r].quantity - resv[r].issued
<1> DEFINE own == UnitsOf(resv, w, i)
           balance == Cardinality({u \in own : u[1] = r})
           before == Cardinality({u \in own : u[1] < r})
<1>1. own \in SUBSET (Ids \X Quantities)
  BY UnitsCounted
<1>2. balance \in Nat /\ before \in Nat
  <2>1. /\ {u \in own : u[1] = r} \in SUBSET (Ids \X Quantities)
        /\ {u \in own : u[1] < r} \in SUBSET (Ids \X Quantities)
    BY <1>1
  <2>2. QED
    BY <2>1, SubsetsFinite
<1>3. balance = IF Own(resv[r], w, i) THEN resv[r].quantity - resv[r].issued ELSE 0
  BY Balance
<1>4. AtLeast0(q - before) \in Nat
  BY <1>2 DEF AtLeast0
<1>5. TakenFrom(w, i, q, r)
        = IF balance < AtLeast0(q - before) THEN balance ELSE AtLeast0(q - before)
  BY DEF TakenFrom
<1> HIDE DEF balance, before
<1>6. TakenFrom(w, i, q, r) \in Nat /\ TakenFrom(w, i, q, r) <= balance
  BY <1>2, <1>4, <1>5
<1>7. QED
  BY <1>2, <1>3, <1>6

-----------------------------------------------------------------------------
\* Rows that are written

LEMMA NewRowType ==
  ASSUME ReservationsAssumption, NEW w \in Works, NEW i \in Items, NEW q \in Quantities
  PROVE  /\ NewRow(w, i, q) \in ReservationRow
         /\ Continues(NewRow(w, i, q), Absent)
BY DEF NewRow, ReservationRow, Continues, Absent, Quantities, ActiveStatuses,
       ReservationsAssumption

LEMMA ReleasedRowType ==
  ASSUME ReservationsAssumption, NEW row \in ReservationRow, row.issued <= row.quantity
  PROVE  /\ ReleasedRow(row) \in ReservationRow
         /\ Continues(ReleasedRow(row), row)
         /\ ReleasedRow(row).item = row.item
<1>1. row.issued \in Nat
  BY RowCases
<1>2. QED
  BY <1>1 DEF ReleasedRow, ReservationRow, Continues

LEMMA IssuedRowType ==
  ASSUME ReservationsAssumption, NEW row \in ReservationRow, NEW q \in Nat,
         q <= row.quantity - row.issued
  PROVE  /\ IssuedRow(row, q) \in ReservationRow
         /\ Continues(IssuedRow(row, q), row)
         /\ IssuedRow(row, q).item = row.item /\ IssuedRow(row, q).issued = row.issued + q
<1>1. row.issued \in 0..MaxQty /\ row.quantity \in 1..MaxQty /\ MaxQty \in Nat
  BY DEF ReservationRow, Quantities, ReservationsAssumption
<1>2. row.issued + q \in 0..MaxQty /\ row.issued + q <= row.quantity
  BY <1>1
<1>3. IssuedRow(row, q).status \in ActiveStatuses \union {"Issued", "Released"}
  BY DEF IssuedRow, ActiveStatuses
<1>4. row.work \in Works /\ row.item \in Items
  BY DEF ReservationRow
<1>5. IssuedRow(row, q) \in ReservationRow
  BY <1>1, <1>2, <1>3, <1>4 DEF IssuedRow, ReservationRow, Quantities
<1>6. Continues(IssuedRow(row, q), row)
  BY <1>1, <1>2 DEF IssuedRow, Continues
<1>7. QED
  BY <1>5, <1>6 DEF IssuedRow

\* A draft of one row.
LEMMA OneRow ==
  ASSUME NEW r \in Ids, NEW row \in ReservationRow
  PROVE  LET rows == [NoDraft EXCEPT ![r] = row] IN
           /\ rows \in Rows
           /\ rows[r] = row
           /\ \A x \in Ids : rows[x].status # "Absent" => x = r
BY DEF NoDraft, Rows, Absent

LEMMA FreshRow ==
  ASSUME TypeOK, NEW s \in Sessions, NEW r \in Ids, NEW k, IsFresh(r, k)
  PROVE  resv[r] = Absent /\ RowFree(s, r)
<1>1. resv[r].status = "Absent" /\ resv[r] \in ReservationRow \union {Absent}
  BY DEF IsFresh, FreshIds, TypeOK
<1>2. resv[r] = Absent
  BY <1>1 DEF ReservationRow, ActiveStatuses
<1>3. QED
  BY <1>2 DEF IsFresh, FreshIds, RowFree

LEMMA TakenItems ==
  ASSUME NEW rows \in [Items -> ItemRow], NEW i \in Items, NEW q \in Int
  PROVE  /\ Taken(rows, i, q) \in [Items -> ItemRow]
         /\ Taken(rows, i, q)[i].current = rows[i].current - q
         /\ Taken(rows, i, q)[i].reserved = rows[i].reserved
         /\ \A j \in Items \ {i} : Taken(rows, i, q)[j] = rows[j]
BY DEF Taken, ItemRow

LEMMA SyncedItems ==
  ASSUME ReservationsAssumption, NEW rows \in [Items -> ItemRow], NEW i \in Items, NEW d
  PROVE  /\ Synced(rows, i, d) \in [Items -> ItemRow]
         /\ Synced(rows, i, d)[i].current = rows[i].current
         /\ Synced(rows, i, d)[i].reserved = Outstanding(View(d), i)
         /\ \A j \in Items \ {i} : Synced(rows, i, d)[j] = rows[j]
<1>1. Outstanding(View(d), i) \in Nat
  BY UnitsCounted
<1>2. QED
  BY <1>1 DEF Synced, ItemRow

LEMMA MarksType ==
  ASSUME NEW w, NEW i, NEW q, NEW d
  PROVE  ReserveMark(w, i, d) \in Marked /\ IssueMark(w, i, q) \in Marked
BY DEF ReserveMark, IssueMark, Marked

-----------------------------------------------------------------------------
\* Each request writes what its locks allow

LEMMA ReserveMaterialHolds ==
  ASSUME ReservationsAssumption, IInv, NEW s \in Sessions, ReserveMaterial(s)
  PROVE  IInv'
<1> DEFINE rq == request[s]
           row == itemRow[s][rq.item]
           newItems == [itemRow[s] EXCEPT ![rq.item] =
                          [current |-> row.current, reserved |-> row.reserved + rq.qty]]
<1>1. rq.op = "reserve" /\ Holding(s) /\ TypeOK
  BY DEF ReserveMaterial, IInv
<1>2. /\ rq.work \in Works /\ rq.item \in Items /\ rq.qty \in Quantities /\ rq.qty \in Nat
      /\ held[s] = {rq.item} /\ draft[s] = NoDraft
      /\ itemRow[s] \in [Items -> ItemRow] /\ row = items[rq.item]
  <2>1. /\ WellFormed(rq) /\ held[s] = Wanted(s) /\ draft[s] = NoDraft
        /\ itemRow[s] \in [Items -> ItemRow]
        /\ \A i \in held[s] : itemRow[s][i] = items[i]
    BY <1>1, BeforeWriting
  <2>2. rq.work \in Works /\ rq.item \in Items /\ rq.qty \in Quantities
    BY <1>1, <2>1 DEF WellFormed, OneItem, Counted
  <2>3. rq.qty \in Nat
    BY <2>2 DEF Quantities, ReservationsAssumption
  <2>4. held[s] = {rq.item}
    BY <1>1, <2>1 DEF Wanted
  <2>5. QED
    BY <2>1, <2>2, <2>3, <2>4
<1>3. PICK r \in Ids :
        /\ IsFresh(r, 1)
        /\ Write(s, [NoDraft EXCEPT ![r] = NewRow(rq.work, rq.item, rq.qty)], newItems,
                 ReserveMark(rq.work, rq.item,
                             [NoDraft EXCEPT ![r] = NewRow(rq.work, rq.item, rq.qty)]))
  BY <1>2 DEF ReserveMaterial
<1> DEFINE rows == [NoDraft EXCEPT ![r] = NewRow(rq.work, rq.item, rq.qty)]
           status == ReserveMark(rq.work, rq.item, rows)
<1>4. /\ rows \in Rows /\ rows[r] = NewRow(rq.work, rq.item, rq.qty)
      /\ \A x \in Ids : rows[x].status # "Absent" => x = r
  <2> DEFINE new == NewRow(rq.work, rq.item, rq.qty)
  <2>1. new \in ReservationRow
    BY <1>2, NewRowType
  <2> HIDE DEF new
  <2>2. /\ [NoDraft EXCEPT ![r] = new] \in Rows
        /\ [NoDraft EXCEPT ![r] = new][r] = new
        /\ \A x \in Ids : [NoDraft EXCEPT ![r] = new][x].status # "Absent" => x = r
    BY <2>1, OneRow
  <2>3. QED
    BY <2>2 DEF new
<1>5. \A x \in Ids : rows[x].status # "Absent" => Continues(rows[x], resv[x]) /\ RowFree(s, x)
  BY <1>1, <1>2, <1>3, <1>4, NewRowType, FreshRow
<1>6. newItems \in [Items -> ItemRow]
  BY <1>2 DEF ItemRow
<1>7. \A i \in held[s] : newItems[i].current = items[i].current + LedgerEntry(s, i)
  BY <1>1, <1>2 DEF LedgerEntry, TypeOK, ItemRow
<1>8. status \in Marked
  BY MarksType
<1>9. Write(s, rows, newItems, status)
  BY <1>3
<1> HIDE DEF rows, newItems, status
<1>10. QED
  BY <1>1, <1>4, <1>5, <1>6, <1>7, <1>8, <1>9, WriteHolds

\* What a reserve-all asks for is a quantity.
LEMMA NeedType ==
  ASSUME ReservationsAssumption, TypeOK, NEW s \in Sessions, NEW i \in Items,
         request[s].work \in Works, seen[s][i] \in 0..MaxQty
  PROVE  Need(s, i) \in Nat /\ (Need(s, i) > 0 => Need(s, i) \in Quantities)
<1> DEFINE w == request[s].work
           own == OwnOutstanding(resv, w, i)
<1>1. own \in Nat /\ used[w][i] \in Nat /\ MaxQty \in Nat
  BY UnitsCounted DEF TypeOK, ReservationsAssumption
<1>2. Need(s, i) = AtLeast0(seen[s][i] - used[w][i] - own)
  BY DEF Need
<1> HIDE DEF own
<1>3. QED
  BY <1>1, <1>2 DEF AtLeast0, Quantities

LEMMA ReserveAllHolds ==
  ASSUME ReservationsAssumption, IInv, NEW s \in Sessions, ReserveAll(s)
  PROVE  IInv'
<1> DEFINE created == Securable(s)
           For(i, r) == IsFresh(r, Cardinality({j \in created : j <= i}))
           rows == [r \in Ids |->
                      IF \E i \in created : For(i, r)
                        THEN LET i == CHOOSE i \in created : For(i, r)
                             IN NewRow(request[s].work, i, Need(s, i))
                        ELSE Absent]
           newItems == [i \in Items |->
                          IF i \in created
                            THEN [current |-> itemRow[s][i].current,
                                  reserved |-> itemRow[s][i].reserved + Need(s, i)]
                            ELSE itemRow[s][i]]
<1>1. request[s].op = "reserveAll" /\ Holding(s) /\ TypeOK /\ SessionInv(s)
  BY DEF ReserveAll, IInv
<1>2. Write(s, rows, newItems, "Same")
  BY DEF ReserveAll
<1>3. /\ request[s].work \in Works /\ itemRow[s] \in [Items -> ItemRow]
      /\ held[s] \subseteq Items /\ \A i \in held[s] : itemRow[s][i] = items[i]
      /\ \A i \in Items : seen[s][i] \in 0..MaxQty
  BY <1>1, BeforeWriting DEF WellFormed, SessionInv, Progress, Holding, Kinds
<1>4. \A i \in created : i \in Items /\ Need(s, i) \in Quantities
  BY <1>1, <1>3, NeedType DEF Securable, Wanted
<1>5. \A i \in Items : Need(s, i) \in Nat
  BY <1>1, <1>3, NeedType
<1>6. ASSUME NEW r \in Ids
      PROVE  \/ rows[r] = Absent
             \/ /\ rows[r] \in ReservationRow
                /\ Continues(rows[r], resv[r]) /\ RowFree(s, r)
  <2>1. CASE \E i \in created : For(i, r)
    <3> DEFINE i == CHOOSE i \in created : For(i, r)
    <3>1. i \in created /\ For(i, r)
      BY <2>1
    <3>2. rows[r] = NewRow(request[s].work, i, Need(s, i))
      BY <2>1
    <3> HIDE DEF i, rows
    <3>3. resv[r] = Absent /\ RowFree(s, r)
      BY <1>1, <3>1, FreshRow
    <3>4. NewRow(request[s].work, i, Need(s, i)) \in ReservationRow
          /\ Continues(NewRow(request[s].work, i, Need(s, i)), Absent)
      BY <1>3, <1>4, <3>1, NewRowType
    <3>5. QED
      BY <3>2, <3>3, <3>4
  <2>2. CASE ~\E i \in created : For(i, r)
    BY <2>2
  <2>3. QED
    BY <2>1, <2>2
<1>7. rows \in Rows
  <2>1. DOMAIN rows = Ids /\ rows = [r \in Ids |-> rows[r]]
    OBVIOUS
  <2> HIDE DEF rows
  <2>2. QED
    BY <1>6, <2>1 DEF Rows
<1>8. \A r \in Ids : rows[r].status # "Absent" => Continues(rows[r], resv[r]) /\ RowFree(s, r)
  BY <1>6 DEF Absent
<1>9. newItems \in [Items -> ItemRow]
  BY <1>3, <1>5 DEF ItemRow
<1>10. \A i \in held[s] : newItems[i].current = items[i].current + LedgerEntry(s, i)
  BY <1>1, <1>3 DEF LedgerEntry, TypeOK, ItemRow
<1> HIDE DEF rows, newItems
<1>11. QED
  BY <1>1, <1>2, <1>7, <1>8, <1>9, <1>10, WriteHolds DEF Marked

\* What a request for a single item holds.
LEMMA HoldsItem ==
  ASSUME ReservationsAssumption, IInv, NEW s \in Sessions, Holding(s),
         request[s].op \in OneItem
  PROVE  /\ request[s].item \in Items /\ held[s] = {request[s].item}
         /\ draft[s] = NoDraft /\ itemRow[s] \in [Items -> ItemRow]
         /\ itemRow[s][request[s].item] = items[request[s].item]
         /\ items[request[s].item] \in ItemRow
         /\ request[s].qty \in Int /\ seen[s][request[s].item] \in Int
<1>1. /\ WellFormed(request[s]) /\ held[s] = Wanted(s) /\ draft[s] = NoDraft
      /\ itemRow[s] \in [Items -> ItemRow] /\ seen[s] \in [Items -> Int]
      /\ \A i \in held[s] : itemRow[s][i] = items[i]
      /\ request[s] \in Request
  BY BeforeWriting
<1>2. request[s].item \in Items
  BY <1>1 DEF WellFormed
<1>3. Wanted(s) = {request[s].item}
  BY DEF Wanted, OneItem
<1>4. request[s].qty \in Int
  BY <1>1 DEF Request
<1>5. QED
  BY <1>1, <1>2, <1>3, <1>4 DEF IInv, TypeOK

\* The request that updates one reservation and recounts.
LEMMA UpdateHolds ==
  ASSUME ReservationsAssumption, IInv, NEW s \in Sessions, Holding(s),
         request[s].op \in {"release", "issue"},
         NEW row \in ReservationRow, Continues(row, resv[request[s].id]),
         RowFree(s, request[s].id),
         NEW shelf \in [Items -> ItemRow],
         shelf[request[s].item].current
           = items[request[s].item].current + LedgerEntry(s, request[s].item),
         NEW status \in Marked,
         Write(s, [draft[s] EXCEPT ![request[s].id] = row],
               Synced(shelf, request[s].item, [draft[s] EXCEPT ![request[s].id] = row]), status)
  PROVE  IInv'
<1> DEFINE i == request[s].item
           r == request[s].id
           rows == [NoDraft EXCEPT ![r] = row]
           newItems == Synced(shelf, i, rows)
<1>1. /\ i \in Items /\ held[s] = {i} /\ draft[s] = NoDraft
      /\ r \in Ids
  BY HoldsItem, BeforeWriting DEF OneItem, WellFormed
<1>2. rows \in Rows /\ rows[r] = row /\ \A x \in Ids : rows[x].status # "Absent" => x = r
  BY <1>1, OneRow
<1>3. Write(s, rows, newItems, status)
  BY <1>1
<1>4. \A x \in Ids : rows[x].status # "Absent" => Continues(rows[x], resv[x]) /\ RowFree(s, x)
  BY <1>2
<1> HIDE DEF rows
<1>5. newItems \in [Items -> ItemRow] /\ newItems[i].current = shelf[i].current
  BY <1>1, SyncedItems
<1> HIDE DEF newItems
<1>6. \A j \in held[s] : newItems[j].current = items[j].current + LedgerEntry(s, j)
  BY <1>1, <1>5
<1>7. QED
  BY <1>2, <1>3, <1>4, <1>5, <1>6, WriteHolds

LEMMA ReleaseReservationHolds ==
  ASSUME ReservationsAssumption, IInv, NEW s \in Sessions, ReleaseReservation(s)
  PROVE  IInv'
<1> DEFINE rq == request[s]
           row == ReleasedRow(resv[rq.id])
           status == IF reqs[rq.work][rq.item].quantity > 0 THEN "Required" ELSE "Same"
<1>1. /\ rq.op = "release" /\ Holding(s) /\ resv[rq.id].status \in ActiveStatuses
      /\ RowFree(s, rq.id)
      /\ Write(s, [draft[s] EXCEPT ![rq.id] = row],
               Synced(itemRow[s], rq.item, [draft[s] EXCEPT ![rq.id] = row]), status)
      /\ TypeOK
  BY DEF ReleaseReservation, IInv
<1>2. /\ rq.item \in Items /\ itemRow[s] \in [Items -> ItemRow]
      /\ itemRow[s][rq.item] = items[rq.item] /\ items[rq.item] \in ItemRow
      /\ rq.id \in Ids
  BY <1>1, HoldsItem, BeforeWriting DEF OneItem, WellFormed
<1>3. resv[rq.id] \in ReservationRow /\ resv[rq.id].issued <= resv[rq.id].quantity
  BY <1>1, <1>2, RowCases DEF TypeOK, ActiveStatuses
<1>4. row \in ReservationRow /\ Continues(row, resv[rq.id])
  BY <1>3, ReleasedRowType
<1>5. status \in Marked
  BY DEF Marked
<1>6. itemRow[s][rq.item].current = items[rq.item].current + LedgerEntry(s, rq.item)
  BY <1>1, <1>2 DEF LedgerEntry, ItemRow
<1> HIDE DEF row, status
<1>7. QED
  BY <1>1, <1>2, <1>4, <1>5, <1>6, UpdateHolds

LEMMA IssueReservationHolds ==
  ASSUME ReservationsAssumption, IInv, NEW s \in Sessions, IssueReservation(s)
  PROVE  IInv'
<1> DEFINE rq == request[s]
           row == IssuedRow(resv[rq.id], rq.qty)
           shelf == Taken(itemRow[s], rq.item, rq.qty)
           status == IssueMark(rq.work, rq.item, rq.qty)
<1>1. /\ rq.op = "issue" /\ Holding(s) /\ resv[rq.id].status \in ActiveStatuses
      /\ rq.qty <= resv[rq.id].quantity - resv[rq.id].issued
      /\ RowFree(s, rq.id)
      /\ Write(s, [draft[s] EXCEPT ![rq.id] = row],
               Synced(shelf, rq.item, [draft[s] EXCEPT ![rq.id] = row]), status)
      /\ TypeOK
  BY DEF IssueReservation, IInv
<1>2. /\ rq.item \in Items /\ itemRow[s] \in [Items -> ItemRow]
      /\ itemRow[s][rq.item] = items[rq.item] /\ items[rq.item] \in ItemRow
      /\ rq.id \in Ids /\ rq.qty \in Quantities
  BY <1>1, HoldsItem, BeforeWriting DEF OneItem, Counted, WellFormed
<1>3. rq.qty \in Nat
  BY <1>2 DEF Quantities, ReservationsAssumption
<1>4. resv[rq.id] \in ReservationRow
  BY <1>1, <1>2, RowCases DEF TypeOK, ActiveStatuses
<1>5. row \in ReservationRow /\ Continues(row, resv[rq.id])
  BY <1>1, <1>3, <1>4, IssuedRowType
<1>6. status \in Marked
  BY MarksType
<1>7. shelf \in [Items -> ItemRow] /\ shelf[rq.item].current = items[rq.item].current - rq.qty
  BY <1>2, <1>3, TakenItems
<1>8. LedgerEntry(s, rq.item) = -rq.qty
  BY <1>1 DEF LedgerEntry
<1>9. shelf[rq.item].current = items[rq.item].current + LedgerEntry(s, rq.item)
  BY <1>2, <1>3, <1>7, <1>8 DEF ItemRow
<1> HIDE DEF row, status, shelf
<1>10. QED
  BY <1>1, <1>2, <1>5, <1>6, <1>7, <1>9, UpdateHolds

\* The rows an issue by item draws on.
TakenRows(s) ==
  [r \in Ids |->
     IF TakenFrom(request[s].work, request[s].item, request[s].qty, r) > 0
       THEN IssuedRow(resv[r], TakenFrom(request[s].work, request[s].item, request[s].qty, r))
       ELSE Absent]

LEMMA TakenRowsType ==
  ASSUME ReservationsAssumption, TypeOK, NEW s \in Sessions, request[s].qty \in Nat
  PROVE  /\ TakenRows(s) \in Rows
         /\ \A r \in Ids : TakenRows(s)[r].status # "Absent" =>
              /\ TakenFrom(request[s].work, request[s].item, request[s].qty, r) > 0
              /\ Continues(TakenRows(s)[r], resv[r])
              /\ TakenRows(s)[r].item = request[s].item
<1>1. ASSUME NEW r \in Ids
      PROVE  \/ TakenRows(s)[r] = Absent
             \/ /\ TakenFrom(request[s].work, request[s].item, request[s].qty, r) > 0
                /\ TakenRows(s)[r] \in ReservationRow
                /\ Continues(TakenRows(s)[r], resv[r])
                /\ TakenRows(s)[r].item = request[s].item
  <2> DEFINE q == TakenFrom(request[s].work, request[s].item, request[s].qty, r)
  <2>1. TakenRows(s)[r] = IF q > 0 THEN IssuedRow(resv[r], q) ELSE Absent
    BY DEF TakenRows
  <2>2. /\ q \in Nat
        /\ q > 0 => /\ Own(resv[r], request[s].work, request[s].item)
                    /\ q <= resv[r].quantity - resv[r].issued
    BY TakenType
  <2> HIDE DEF q
  <2>3. CASE q > 0
    <3>1. resv[r] \in ReservationRow
      BY <2>2, <2>3, RowCases DEF TypeOK, Own, ActiveStatuses
    <3>2. /\ IssuedRow(resv[r], q) \in ReservationRow
          /\ Continues(IssuedRow(resv[r], q), resv[r])
          /\ IssuedRow(resv[r], q).item = request[s].item
      BY <2>2, <2>3, <3>1, IssuedRowType DEF Own
    <3>3. QED
      BY <2>1, <2>3, <3>2 DEF q
  <2>4. CASE ~(q > 0)
    BY <2>1, <2>4
  <2>5. QED
    BY <2>3, <2>4
<1>2. TakenRows(s) = [r \in Ids |-> TakenRows(s)[r]]
  BY DEF TakenRows
<1>3. QED
  BY <1>1, <1>2 DEF Rows, Absent

LEMMA IssueMaterialHolds ==
  ASSUME ReservationsAssumption, IInv, NEW s \in Sessions, IssueMaterial(s)
  PROVE  IInv'
<1> DEFINE rq == request[s]
           rows == TakenRows(s)
           shelf == Taken(itemRow[s], rq.item, rq.qty)
           newItems == Synced(shelf, rq.item, rows)
           status == IssueMark(rq.work, rq.item, rq.qty)
<1>1. /\ rq.op = "consume" /\ Holding(s) /\ TypeOK
      /\ \A r \in Ids : TakenFrom(rq.work, rq.item, rq.qty, r) > 0 => RowFree(s, r)
      /\ Write(s, rows, newItems, status)
  BY DEF IssueMaterial, IInv, TakenRows
<1>2. /\ rq.item \in Items /\ held[s] = {rq.item} /\ itemRow[s] \in [Items -> ItemRow]
      /\ itemRow[s][rq.item] = items[rq.item] /\ items[rq.item] \in ItemRow
      /\ rq.qty \in Quantities
  BY <1>1, HoldsItem, BeforeWriting DEF OneItem, Counted, WellFormed
<1>3. rq.qty \in Nat
  BY <1>2 DEF Quantities, ReservationsAssumption
<1>4. /\ rows \in Rows
      /\ \A r \in Ids : rows[r].status # "Absent" => Continues(rows[r], resv[r]) /\ RowFree(s, r)
  BY <1>1, <1>3, TakenRowsType
<1>5. status \in Marked
  BY MarksType
<1>6. shelf \in [Items -> ItemRow] /\ shelf[rq.item].current = items[rq.item].current - rq.qty
  BY <1>2, <1>3, TakenItems
<1>7. LedgerEntry(s, rq.item) = -rq.qty
  BY <1>1 DEF LedgerEntry
<1> HIDE DEF rows, status, shelf
<1>8. newItems \in [Items -> ItemRow] /\ newItems[rq.item].current = shelf[rq.item].current
  BY <1>2, <1>6, SyncedItems
<1> HIDE DEF newItems
<1>9. \A i \in held[s] : newItems[i].current = items[i].current + LedgerEntry(s, i)
  BY <1>2, <1>3, <1>6, <1>7, <1>8 DEF ItemRow
<1>10. QED
  BY <1>1, <1>4, <1>5, <1>8, <1>9, WriteHolds

\* A request that only moves stock.
LEMMA ShelfHolds ==
  ASSUME ReservationsAssumption, IInv, NEW s \in Sessions, Holding(s),
         NEW newItems \in [Items -> ItemRow], Write(s, NoDraft, newItems, "Same"),
         \A i \in held[s] : newItems[i].current = items[i].current + LedgerEntry(s, i)
  PROVE  IInv'
<1>1. NoDraft \in Rows /\ \A r \in Ids : NoDraft[r].status = "Absent"
  BY DEF NoDraft, Rows, Absent
<1>2. "Same" \in Marked
  BY DEF Marked
<1>3. QED
  BY <1>1, <1>2, WriteHolds

LEMMA IssueStockHolds ==
  ASSUME ReservationsAssumption, IInv, NEW s \in Sessions, IssueStock(s)
  PROVE  IInv'
<1> DEFINE rq == request[s]
           newItems == Taken(itemRow[s], rq.item, rq.qty)
<1>1. rq.op = "issueStock" /\ Holding(s) /\ Write(s, NoDraft, newItems, "Same")
  BY DEF IssueStock
<1>2. /\ rq.item \in Items /\ held[s] = {rq.item} /\ itemRow[s] \in [Items -> ItemRow]
      /\ itemRow[s][rq.item] = items[rq.item] /\ items[rq.item] \in ItemRow /\ rq.qty \in Int
  BY <1>1, HoldsItem DEF OneItem
<1>3. newItems \in [Items -> ItemRow] /\ newItems[rq.item].current = items[rq.item].current - rq.qty
  BY <1>2, TakenItems
<1>4. LedgerEntry(s, rq.item) = -rq.qty
  BY <1>1 DEF LedgerEntry
<1> HIDE DEF newItems
<1>5. \A i \in held[s] : newItems[i].current = items[i].current + LedgerEntry(s, i)
  BY <1>2, <1>3, <1>4 DEF ItemRow
<1>6. QED
  BY <1>1, <1>3, <1>5, ShelfHolds

LEMMA ReceiveStockHolds ==
  ASSUME ReservationsAssumption, IInv, NEW s \in Sessions, ReceiveStock(s)
  PROVE  IInv'
<1> DEFINE rq == request[s]
           newItems == Taken(itemRow[s], rq.item, -rq.qty)
<1>1. rq.op = "receive" /\ Holding(s) /\ Write(s, NoDraft, newItems, "Same")
  BY DEF ReceiveStock
<1>2. /\ rq.item \in Items /\ held[s] = {rq.item} /\ itemRow[s] \in [Items -> ItemRow]
      /\ itemRow[s][rq.item] = items[rq.item] /\ items[rq.item] \in ItemRow /\ rq.qty \in Int
  BY <1>1, HoldsItem DEF OneItem
<1>3. newItems \in [Items -> ItemRow]
      /\ newItems[rq.item].current = items[rq.item].current - (-rq.qty)
  <2> DEFINE q == -rq.qty
  <2>1. q \in Int
    BY <1>2
  <2> HIDE DEF q
  <2>2. Taken(itemRow[s], rq.item, q) \in [Items -> ItemRow]
        /\ Taken(itemRow[s], rq.item, q)[rq.item].current = items[rq.item].current - q
    BY <1>2, <2>1, TakenItems
  <2>3. QED
    BY <2>2 DEF q
<1>4. LedgerEntry(s, rq.item) = rq.qty
  BY <1>1 DEF LedgerEntry
<1> HIDE DEF newItems
<1>5. \A i \in held[s] : newItems[i].current = items[i].current + LedgerEntry(s, i)
  BY <1>2, <1>3, <1>4 DEF ItemRow
<1>6. QED
  BY <1>1, <1>3, <1>5, ShelfHolds

LEMMA AdjustStockHolds ==
  ASSUME ReservationsAssumption, IInv, NEW s \in Sessions, AdjustStock(s)
  PROVE  IInv'
<1> DEFINE rq == request[s]
           newItems == [itemRow[s] EXCEPT ![rq.item] =
                          [current |-> rq.qty, reserved |-> itemRow[s][rq.item].reserved]]
<1>1. /\ rq.op = "adjust" /\ Holding(s) /\ Write(s, NoDraft, newItems, "Same")
      /\ itemRow[s][rq.item].current = seen[s][rq.item]
  BY DEF AdjustStock
<1>2. /\ rq.item \in Items /\ held[s] = {rq.item} /\ itemRow[s] \in [Items -> ItemRow]
      /\ itemRow[s][rq.item] = items[rq.item] /\ items[rq.item] \in ItemRow /\ rq.qty \in Int
      /\ seen[s][rq.item] \in Int
  BY <1>1, HoldsItem DEF OneItem
<1>3. newItems \in [Items -> ItemRow] /\ newItems[rq.item].current = rq.qty
  BY <1>2 DEF ItemRow
<1>4. LedgerEntry(s, rq.item) = rq.qty - seen[s][rq.item]
  BY <1>1 DEF LedgerEntry
<1> HIDE DEF newItems
<1>5. \A i \in held[s] : newItems[i].current = items[i].current + LedgerEntry(s, i)
  BY <1>1, <1>2, <1>3, <1>4 DEF ItemRow
<1>6. QED
  BY <1>1, <1>3, <1>5, ShelfHolds

\* The two rows a transfer writes.
LEMMA TransferItems ==
  ASSUME ReservationsAssumption, IInv, NEW s \in Sessions, Holding(s),
         request[s].op = "transfer"
  PROVE  LET rq == request[s]
             newItems == Taken(Taken(itemRow[s], rq.item, rq.qty), rq.to, -rq.qty)
         IN /\ rq.item \in Items /\ rq.to \in Items /\ rq.item # rq.to
            /\ held[s] = {rq.item, rq.to} /\ rq.qty \in Nat
            /\ items[rq.item] \in ItemRow /\ items[rq.to] \in ItemRow
            /\ newItems \in [Items -> ItemRow]
            /\ newItems[rq.item].current = items[rq.item].current - rq.qty
            /\ newItems[rq.item].reserved = items[rq.item].reserved
            /\ newItems[rq.to].current = items[rq.to].current + rq.qty
            /\ newItems[rq.to].reserved = items[rq.to].reserved
<1> DEFINE rq == request[s]
           q == -rq.qty
           half == Taken(itemRow[s], rq.item, rq.qty)
<1>1. /\ WellFormed(rq) /\ held[s] = Wanted(s) /\ itemRow[s] \in [Items -> ItemRow]
      /\ \A i \in held[s] : itemRow[s][i] = items[i]
      /\ TypeOK
  BY BeforeWriting DEF IInv
<1>2. /\ rq.item \in Items /\ rq.to \in Items /\ rq.item # rq.to
      /\ rq.qty \in Quantities
  BY <1>1 DEF WellFormed, Counted
<1>3. rq.qty \in Nat
  BY <1>2 DEF Quantities, ReservationsAssumption
<1>4. held[s] = {rq.item, rq.to} /\ items[rq.item] \in ItemRow /\ items[rq.to] \in ItemRow
  BY <1>1, <1>2 DEF Wanted, TypeOK
<1>5. /\ half \in [Items -> ItemRow] /\ half[rq.to] = items[rq.to]
      /\ half[rq.item].current = items[rq.item].current - rq.qty
      /\ half[rq.item].reserved = items[rq.item].reserved
  BY <1>1, <1>2, <1>3, <1>4, TakenItems
<1>6. q \in Int /\ \A n \in Int : n - q = n + rq.qty
  BY <1>3
<1> HIDE DEF q, half
<1>7. /\ Taken(half, rq.to, q) \in [Items -> ItemRow]
      /\ Taken(half, rq.to, q)[rq.to].current = half[rq.to].current - q
      /\ Taken(half, rq.to, q)[rq.to].reserved = half[rq.to].reserved
      /\ Taken(half, rq.to, q)[rq.item] = half[rq.item]
  <2> DEFINE to == rq.to
  <2>1. to \in Items /\ rq.item \in Items \ {to}
    BY <1>2
  <2> HIDE DEF to
  <2>2. /\ Taken(half, to, q) \in [Items -> ItemRow]
        /\ Taken(half, to, q)[to].current = half[to].current - q
        /\ Taken(half, to, q)[to].reserved = half[to].reserved
        /\ \A j \in Items \ {to} : Taken(half, to, q)[j] = half[j]
    BY <1>5, <1>6, <2>1, TakenItems
  <2>3. QED
    BY <2>1, <2>2 DEF to
<1>8. Taken(half, rq.to, q)[rq.to].current = items[rq.to].current + rq.qty
  BY <1>4, <1>5, <1>6, <1>7 DEF ItemRow
<1>9. QED
  BY <1>2, <1>3, <1>4, <1>5, <1>7, <1>8 DEF q, half

LEMMA TransferStockHolds ==
  ASSUME ReservationsAssumption, IInv, NEW s \in Sessions, TransferStock(s)
  PROVE  IInv'
<1> DEFINE rq == request[s]
           newItems == Taken(Taken(itemRow[s], rq.item, rq.qty), rq.to, -rq.qty)
<1>1. rq.op = "transfer" /\ Holding(s) /\ Write(s, NoDraft, newItems, "Same")
  BY DEF TransferStock
<1>2. /\ rq.item # rq.to /\ held[s] = {rq.item, rq.to} /\ rq.qty \in Nat
      /\ items[rq.item] \in ItemRow /\ items[rq.to] \in ItemRow
      /\ newItems \in [Items -> ItemRow]
      /\ newItems[rq.item].current = items[rq.item].current - rq.qty
      /\ newItems[rq.to].current = items[rq.to].current + rq.qty
  BY <1>1, TransferItems
<1>3. LedgerEntry(s, rq.item) = -rq.qty /\ LedgerEntry(s, rq.to) = rq.qty
  BY <1>1, <1>2 DEF LedgerEntry
<1> HIDE DEF newItems
<1>4. \A i \in held[s] : newItems[i].current = items[i].current + LedgerEntry(s, i)
  BY <1>2, <1>3 DEF ItemRow
<1>5. QED
  BY <1>1, <1>2, <1>4, ShelfHolds

-----------------------------------------------------------------------------
\* Commits

\* What a commit makes of the reservations and of the stock.
Committing(s) ==
  /\ resv' = View(draft[s])
  /\ items' = [i \in Items |-> IF i \in held[s] THEN itemRow[s][i] ELSE items[i]]

LEMMA CommittedTables ==
  ASSUME ReservationsAssumption, IInv, NEW s \in Sessions, Committing(s)
  PROVE  /\ resv' \in Rows /\ \A r \in Ids : resv'[r].issued <= resv'[r].quantity
         /\ items' \in [Items -> ItemRow]
         /\ \A r \in Ids : /\ ~Drafted(s, r) => resv'[r] = resv[r]
                           /\ Drafted(s, r) => resv'[r] = draft[s][r]
                           /\ Continues(resv'[r], resv[r])
         /\ \A r \in Ids : resv[r].status # "Absent" =>
              /\ resv'[r].status # "Absent"
              /\ resv'[r].item = resv[r].item /\ resv'[r].work = resv[r].work
<1>1. TypeOK /\ DraftsContinue(s)
  BY DEF IInv, SessionInv
<1>2. resv \in Rows /\ draft[s] \in Rows /\ itemRow[s] \in [Items -> ItemRow]
  BY <1>1 DEF TypeOK, Rows
<1>3. resv' \in Rows
  BY <1>2, ViewType DEF Committing
<1>4. items' \in [Items -> ItemRow]
  BY <1>1, <1>2 DEF Committing, TypeOK
<1>5. \A r \in Ids : /\ ~Drafted(s, r) => resv'[r] = resv[r]
                     /\ Drafted(s, r) => resv'[r] = draft[s][r]
  BY DEF Committing, View, Drafted
<1>6. \A r \in Ids : Continues(resv'[r], resv[r])
  <2> SUFFICES ASSUME NEW r \in Ids
               PROVE  Continues(resv'[r], resv[r])
    OBVIOUS
  <2>1. CASE Drafted(s, r)
    BY <1>1, <1>5, <2>1 DEF DraftsContinue
  <2>2. CASE ~Drafted(s, r)
    <3>1. resv[r].issued \in Nat /\ resv[r].issued <= resv[r].quantity
      BY <1>1, RowCases DEF TypeOK
    <3>2. QED
      BY <1>5, <2>2, <3>1 DEF Continues
  <2>3. QED
    BY <2>1, <2>2
<1>7. \A r \in Ids : resv[r].status # "Absent" =>
              /\ resv'[r].status # "Absent"
              /\ resv'[r].item = resv[r].item /\ resv'[r].work = resv[r].work
  BY <1>5, <1>6 DEF Continues, Drafted
<1>8. \A r \in Ids : resv'[r].issued <= resv'[r].quantity
  BY <1>6 DEF Continues
<1>9. QED
  BY <1>3, <1>4, <1>5, <1>6, <1>7, <1>8

LEMMA CommittingHolds ==
  ASSUME ReservationsAssumption, IInv, NEW s \in Sessions, Committing(s), EndSession(s),
         TypeOK', LedgerExplainsStock'
  PROVE  IInv'
<1>1. TypeOK /\ Locked
  BY DEF IInv
<1>2. OnlyMoves(s) /\ phase'[s] = "idle" /\ held'[s] = {} /\ \A r \in Ids : ~Drafted(s, r)'
  BY <1>1, EndSessionType
<1>3. Locked'
  BY <1>1, <1>2, LockedHolds
<1>4. ASSUME NEW t \in Sessions, t # s
      PROVE  SessionInv(t)'
  <2>1. /\ request'[t] = request[t] /\ phase'[t] = phase[t] /\ held'[t] = held[t]
        /\ seen'[t] = seen[t] /\ itemRow'[t] = itemRow[t] /\ draft'[t] = draft[t]
        /\ open'[t] = open[t] /\ sum'[t] = sum[t]
    BY <1>2, <1>4 DEF OnlyMoves
  <2>2. SessionInv(t)
    BY DEF IInv
  <2>3. /\ \A r \in Ids : ~Drafted(s, r) => resv'[r] = resv[r]
        /\ \A r \in Ids : resv[r].status # "Absent" =>
              /\ resv'[r].status # "Absent"
              /\ resv'[r].item = resv[r].item /\ resv'[r].work = resv[r].work
    BY CommittedTables
  <2>4. \A r \in Ids : Drafted(t, r)' <=> Drafted(t, r)
    BY <2>1 DEF Drafted
  <2>5. DraftsContinue(t)'
    BY <1>1, <1>4, <2>1, <2>2, <2>3, <2>4 DEF SessionInv, DraftsContinue, Locked
  <2>6. Wanted(t)' = Wanted(t) /\ \A i : LedgerEntry(t, i)' = LedgerEntry(t, i)
    BY <2>1 DEF Wanted, LedgerEntry
  <2>7. WellFormed(request[t]) => WellFormed(request[t])'
    BY <2>1, <2>3 DEF WellFormed
  <2>8. Progress(t)'
    BY <1>1, <2>1, <2>2, <2>3, <2>4, <2>6, <2>7 DEF SessionInv, Progress, TypeOK
  <2>9. \A i \in held[t] : i \in Items /\ items'[i] = items[i]
    BY <1>1, <1>4 DEF Locked, TypeOK, Committing
  <2>10. Copies(t)'
    BY <2>1, <2>2, <2>6, <2>9 DEF SessionInv, Copies
  <2>11. QED
    BY <2>5, <2>8, <2>10 DEF SessionInv
<1>5. SessionInv(s)'
  BY <1>2, AtRest
<1>6. QED
  BY <1>3, <1>4, <1>5 DEF IInv

LEMMA CommitHolds ==
  ASSUME ReservationsAssumption, IInv, NEW s \in Sessions, Commit(s)
  PROVE  IInv'
<1>1. /\ TypeOK /\ SessionInv(s) /\ LedgerExplainsStock
      /\ phase[s] = "written" /\ Committing(s) /\ EndSession(s) /\ cancelled' = cancelled
  BY DEF Commit, IInv, Committing
<1>2. /\ WellFormed(request[s]) /\ Wanted(s) \subseteq held[s] /\ held[s] \subseteq Items
      /\ \A i \in held[s] : itemRow[s][i].current = items[i].current + LedgerEntry(s, i)
  BY <1>1 DEF SessionInv, Progress, Copies, TypeOK
<1>3. /\ ledger \in [Items -> Int] /\ \A i \in Items : items[i].current \in Int
      /\ \A i \in Items : LedgerEntry(s, i) \in Int
      /\ \A i \in Items : i \notin held[s] => LedgerEntry(s, i) = 0
  BY <1>1, <1>2, EntryWanted DEF TypeOK, ItemRow, Request
<1>4. ledger' \in [Items -> Int] /\ \A i \in Items : ledger'[i] = ledger[i] + LedgerEntry(s, i)
  BY <1>3 DEF Commit
<1>5. used' \in [Works -> [Items -> Nat]]
  <2>1. \A w \in Works, i \in Items : Issues(s, w, i) => request[s].qty \in Nat
    BY <1>2 DEF Issues, WellFormed, Counted, Quantities, ReservationsAssumption
  <2>2. \A w \in Works, i \in Items :
          used[w][i] + (IF Issues(s, w, i) THEN request[s].qty ELSE 0) \in Nat
    BY <1>1, <2>1 DEF TypeOK
  <2>3. QED
    BY <2>2 DEF Commit
<1>6. reqs' \in [Works -> [Items -> Requirement]]
  <2>1. \A w \in Works, i \in Items : Marks(s, w, i) =>
          [quantity |-> reqs[w][i].quantity, status |-> mark[s]] \in Requirement
    BY <1>1 DEF Marks, TypeOK, Requirement
  <2>2. \A w \in Works, i \in Items : reqs[w][i] \in Requirement
    BY <1>1 DEF TypeOK
  <2>3. QED
    BY <2>1, <2>2 DEF Commit
<1>7. TypeOK'
  BY <1>1, <1>4, <1>5, <1>6, CommittedTables, EndSessionType
  DEF TypeOK, Rows, Marked, Request
<1>8. LedgerExplainsStock'
  <2> SUFFICES ASSUME NEW i \in Items
               PROVE  items'[i].current = Opening + ledger'[i]
    BY DEF LedgerExplainsStock
  <2>1. items[i].current = Opening + ledger[i] /\ Opening \in Int /\ ledger[i] \in Int
    BY <1>1, <1>3 DEF LedgerExplainsStock, ReservationsAssumption
  <2>2. items'[i].current = items[i].current + LedgerEntry(s, i)
    BY <1>1, <1>2, <1>3 DEF Committing
  <2>3. QED
    BY <1>3, <1>4, <2>1, <2>2
<1>9. QED
  BY <1>1, <1>7, <1>8, CommittingHolds

-----------------------------------------------------------------------------
\* The settlement of a cancelled work order

LEMMA CancelWorkHolds ==
  ASSUME ReservationsAssumption, IInv, NEW s \in Sessions, NEW w \in Works, CancelWork(s, w)
  PROVE  IInv'
<1>1. TypeOK /\ Locked /\ SessionInv(s)
  BY DEF IInv
<1> DEFINE listed == {r \in Ids : resv[r].work = w /\ resv[r].status \in ActiveStatuses}
           asked == [NoRequest EXCEPT !.op = "cancel", !.work = w]
<1>2. /\ phase[s] = "idle" /\ request' = [request EXCEPT ![s] = asked]
      /\ phase' = [phase EXCEPT ![s] = "settling"]
      /\ open' = [open EXCEPT ![s] = listed]
      /\ UNCHANGED <<items, resv, reqs, used, ledger, cancelled, held, seen, itemRow, draft,
                     mark, sum>>
  BY DEF CancelWork, tables
<1>3. asked \in Request
  <2>1. NoRequest \in Request
    BY DEF NoRequest, Request
  <2>2. [NoRequest EXCEPT !.op = "cancel"] \in Request
    BY <2>1 DEF Request, Kinds
  <2> DEFINE half == [NoRequest EXCEPT !.op = "cancel"]
  <2>3. asked = [half EXCEPT !.work = w]
    OBVIOUS
  <2> HIDE DEF half, asked
  <2>4. QED
    BY <2>2, <2>3 DEF Request, half
<1>4. request' \in [Sessions -> Request] /\ phase' \in [Sessions -> Phases]
      /\ open' \in [Sessions -> SUBSET Ids]
  <2> HIDE DEF asked
  <2>1. listed \in SUBSET Ids
    OBVIOUS
  <2> HIDE DEF listed
  <2>2. QED
    BY <1>1, <1>2, <1>3, <2>1 DEF TypeOK, Phases, Request
<1>5. TypeOK'
  BY <1>1, <1>2, <1>4 DEF TypeOK, Request
<1>6. /\ OnlyMoves(s) /\ phase'[s] = "settling" /\ held'[s] = held[s]
      /\ open'[s] = listed /\ request'[s] = asked /\ asked.work = w
  BY <1>1, <1>2 DEF OnlyMoves, TypeOK, NoRequest
<1>7. held[s] = {} /\ \A r \in Ids : ~Drafted(s, r) /\ ~Drafted(s, r)'
  BY <1>1, <1>2 DEF SessionInv, Progress, Drafted
<1>8. Locked'
  BY <1>1, <1>6, <1>7, LockedHolds
<1>9. SessionInv(s)'
  <2>1. \A r \in listed : resv[r].status # "Absent"
    BY DEF ActiveStatuses
  <2> HIDE DEF listed, asked
  <2>2. QED
    BY <1>2, <1>6, <1>7, <2>1 DEF SessionInv, DraftsContinue, Progress, Copies
<1>10. QED
  BY <1>2, <1>5, <1>6, <1>8, <1>9, StepHolds

LEMMA CancelReleaseHolds ==
  ASSUME ReservationsAssumption, IInv, NEW s \in Sessions, NEW r \in Ids, CancelRelease(s, r)
  PROVE  IInv'
<1> DEFINE d == [draft[s] EXCEPT ![r] = ReleasedRow(resv[r])]
           counted == [item |-> resv[r].item, value |-> Outstanding(View(d), resv[r].item)]
<1>1. /\ TypeOK /\ Locked /\ SessionInv(s)
      /\ phase[s] = "settling" /\ r \in open[s] /\ RowFree(s, r)
      /\ draft' = [draft EXCEPT ![s] = d] /\ open' = [open EXCEPT ![s] = @ \ {r}]
      /\ sum' = [sum EXCEPT ![s] = counted] /\ phase' = [phase EXCEPT ![s] = "syncing"]
      /\ UNCHANGED <<items, resv, reqs, used, ledger, cancelled, request, held, seen, itemRow,
                     mark>>
  BY DEF CancelRelease, tables, IInv
<1>2. resv[r] \in ReservationRow /\ resv[r].issued <= resv[r].quantity
  BY <1>1, RowCases DEF SessionInv, Progress, TypeOK
<1>3. /\ ReleasedRow(resv[r]) \in ReservationRow
      /\ Continues(ReleasedRow(resv[r]), resv[r])
  BY <1>2, ReleasedRowType
<1>4. /\ d \in Rows /\ d[r] = ReleasedRow(resv[r])
      /\ \A x \in Ids \ {r} : d[x] = draft[s][x]
  BY <1>1, <1>3 DEF TypeOK, Rows
<1>5. /\ counted \in [item : Items \union {0}, value : Nat]
      /\ counted.item \in Items
  <2>1. Outstanding(View(d), resv[r].item) \in Nat
    BY UnitsCounted
  <2>2. resv[r].item \in Items
    BY <1>2 DEF ReservationRow
  <2>3. QED
    BY <2>1, <2>2
<1> HIDE DEF d, counted
<1>6. TypeOK'
  <2>1. /\ draft' \in [Sessions -> [Ids -> ReservationRow \union {Absent}]]
        /\ phase' \in [Sessions -> Phases]
    BY <1>1, <1>4 DEF TypeOK, Rows, Phases
  <2>2. /\ open' \in [Sessions -> SUBSET Ids]
        /\ sum' \in [Sessions -> [item : Items \union {0}, value : Nat]]
    BY <1>1, <1>5 DEF TypeOK
  <2>3. QED
    BY <1>1, <2>1, <2>2 DEF TypeOK
<1>7. /\ OnlyMoves(s) /\ draft'[s] = d /\ phase'[s] = "syncing" /\ sum'[s] = counted
      /\ open'[s] = open[s] \ {r}
  BY <1>1 DEF OnlyMoves, TypeOK
<1>8. Locked'
  <2>1. \A x \in Ids : Drafted(s, x)' => RowFree(s, x)
    BY <1>1, <1>4, <1>7 DEF Drafted, Locked, RowFree
  <2>2. \A t \in Sessions \ {s} : held'[s] \intersect held[t] = {}
    BY <1>1 DEF Locked
  <2>3. QED
    BY <1>1, <1>7, <2>1, <2>2, LockedHolds
<1>9. DraftsContinue(s)'
  BY <1>1, <1>3, <1>4, <1>7 DEF SessionInv, DraftsContinue, Drafted
<1>10. Progress(s)'
  BY <1>1, <1>5, <1>7 DEF SessionInv, Progress
<1>11. Copies(s)'
  BY <1>1, <1>7 DEF SessionInv, Copies
<1>12. QED
  BY <1>1, <1>6, <1>7, <1>8, <1>9, <1>10, <1>11, StepHolds DEF SessionInv

LEMMA CancelSyncHolds ==
  ASSUME ReservationsAssumption, IInv, NEW s \in Sessions, CancelSync(s)
  PROVE  IInv'
<1> DEFINE i == sum[s].item
           row == [current |-> IF i \in held[s] THEN itemRow[s][i].current ELSE items[i].current,
                   reserved |-> sum[s].value]
<1>1. /\ TypeOK /\ Locked /\ SessionInv(s)
      /\ phase[s] = "syncing" /\ ItemFree(s, i)
      /\ held' = [held EXCEPT ![s] = @ \union {i}]
      /\ itemRow' = [itemRow EXCEPT ![s][i] = row]
      /\ sum' = [sum EXCEPT ![s] = NoSum] /\ phase' = [phase EXCEPT ![s] = "settling"]
      /\ UNCHANGED <<items, resv, reqs, used, ledger, cancelled, request, seen, draft, mark,
                     open>>
  BY DEF CancelSync, tables, IInv
<1>2. i \in Items
  BY <1>1 DEF SessionInv, Progress
<1>3. row \in ItemRow /\ row.current = items[i].current
  BY <1>1, <1>2 DEF TypeOK, ItemRow, SessionInv, Copies
<1> HIDE DEF i, row
<1>4. TypeOK'
  <2>1. /\ held' \in [Sessions -> SUBSET Items]
        /\ itemRow' \in [Sessions -> [Items -> ItemRow]]
    BY <1>1, <1>2, <1>3 DEF TypeOK
  <2>2. NoSum \in [item : Items \union {0}, value : Nat]
    BY DEF NoSum
  <2>3. /\ phase' \in [Sessions -> Phases]
        /\ sum' \in [Sessions -> [item : Items \union {0}, value : Nat]]
    BY <1>1, <2>2 DEF TypeOK, Phases
  <2>4. QED
    BY <1>1, <2>1, <2>3 DEF TypeOK
<1>5. /\ OnlyMoves(s) /\ phase'[s] = "settling" /\ held'[s] = held[s] \union {i}
      /\ itemRow'[s][i] = row
      /\ \A j \in Items \ {i} : itemRow'[s][j] = itemRow[s][j]
  BY <1>1, <1>2 DEF OnlyMoves, TypeOK
<1>6. Locked'
  <2>1. \A t \in Sessions \ {s} : held'[s] \intersect held[t] = {}
    BY <1>1, <1>5 DEF ItemFree, Locked
  <2>2. \A r \in Ids : Drafted(s, r)' => RowFree(s, r)
    BY <1>1 DEF Drafted, Locked, RowFree
  <2>3. QED
    BY <1>1, <1>5, <2>1, <2>2, LockedHolds
<1>7. DraftsContinue(s)'
  BY <1>1 DEF SessionInv, DraftsContinue, Drafted
<1>8. Progress(s)'
  BY <1>1, <1>5 DEF SessionInv, Progress
<1>9. Copies(s)'
  <2>1. \A j \in held'[s] : itemRow'[s][j].current = items[j].current
    BY <1>1, <1>2, <1>3, <1>5 DEF SessionInv, Copies, TypeOK
  <2>2. QED
    BY <1>1, <1>5, <2>1 DEF Copies
<1>10. QED
  BY <1>1, <1>4, <1>5, <1>6, <1>7, <1>8, <1>9, StepHolds DEF SessionInv

LEMMA CancelCommitHolds ==
  ASSUME ReservationsAssumption, IInv, NEW s \in Sessions, CancelCommit(s)
  PROVE  IInv'
<1> DEFINE w == request[s].work
           settled == {draft[s][r].item : r \in {x \in Ids : Drafted(s, x)}}
           plan == [i \in Items |->
                      IF i \in settled /\ reqs[w][i].status = "Reserved"
                        THEN [quantity |-> reqs[w][i].quantity, status |-> "Required"]
                        ELSE reqs[w][i]]
<1>1. /\ TypeOK /\ SessionInv(s) /\ LedgerExplainsStock
      /\ phase[s] = "settling" /\ Committing(s) /\ EndSession(s)
      /\ reqs' = [reqs EXCEPT ![w] = plan]
      /\ cancelled' = cancelled \union {w} /\ used' = used /\ ledger' = ledger
  BY DEF CancelCommit, IInv, Committing
<1>2. w \in Works
  BY <1>1 DEF SessionInv, Progress
<1>3. plan \in [Items -> Requirement]
  <2>1. \A i \in Items : reqs[w][i] \in Requirement
    BY <1>1, <1>2 DEF TypeOK
  <2>2. \A i \in Items :
          [quantity |-> reqs[w][i].quantity, status |-> "Required"] \in Requirement
    BY <2>1 DEF Requirement
  <2>3. QED
    BY <2>1, <2>2
<1> HIDE DEF plan, w
<1>4. TypeOK'
  <2>1. /\ reqs' \in [Works -> [Items -> Requirement]] /\ cancelled' \subseteq Works
        /\ used' \in [Works -> [Items -> Nat]] /\ ledger' \in [Items -> Int]
    BY <1>1, <1>2, <1>3 DEF TypeOK
  <2>2. QED
    BY <1>1, <2>1, CommittedTables, EndSessionType DEF TypeOK, Rows, Marked, Request
<1>5. LedgerExplainsStock'
  <2>1. \A i \in Items : items'[i].current = items[i].current
    BY <1>1 DEF Committing, SessionInv, Copies
  <2>2. QED
    BY <1>1, <2>1 DEF LedgerExplainsStock
<1>6. QED
  BY <1>1, <1>4, <1>5, CommittingHolds

-----------------------------------------------------------------------------
\* Planning

LEMMA PlanHolds ==
  ASSUME ReservationsAssumption, IInv,
         UNCHANGED <<items, resv, used, ledger, cancelled,
                     request, phase, held, seen, itemRow, draft, open, sum>>,
         reqs' \in [Works -> [Items -> Requirement]],
         mark' \in [Sessions -> Marked]
  PROVE  IInv'
<1>1. TypeOK'
  BY DEF IInv, TypeOK, Marked
<1>2. Locked' /\ LedgerExplainsStock'
  BY DEF IInv, Locked, Drafted, LedgerExplainsStock
<1>3. \A t \in Sessions : SessionInv(t)'
  BY Undisturbed DEF IInv
<1>4. QED
  BY <1>1, <1>2, <1>3 DEF IInv

LEMMA PlanMaterialHolds ==
  ASSUME ReservationsAssumption, IInv, NEW w \in Works, NEW i \in Items,
         NEW q \in Quantities, PlanMaterial(w, i, q)
  PROVE  IInv'
<1>1. TypeOK /\ reqs' = [reqs EXCEPT ![w][i] = [quantity |-> q, status |-> "Required"]]
      /\ UNCHANGED <<items, resv, used, ledger, cancelled,
                     request, phase, held, seen, itemRow, draft, mark, open, sum>>
  BY DEF PlanMaterial, sessionVars, IInv
<1>2. [quantity |-> q, status |-> "Required"] \in Requirement
  BY DEF Requirement, Quantities, ReservationsAssumption
<1>3. reqs' \in [Works -> [Items -> Requirement]]
  BY <1>1, <1>2 DEF TypeOK
<1>4. mark' \in [Sessions -> Marked]
  BY <1>1 DEF TypeOK, Marked
<1>5. QED
  BY <1>1, <1>3, <1>4, PlanHolds

LEMMA RemovePlanHolds ==
  ASSUME ReservationsAssumption, IInv, NEW w \in Works, NEW i \in Items, RemovePlan(w, i)
  PROVE  IInv'
<1>1. /\ TypeOK /\ reqs' = [reqs EXCEPT ![w][i] = NoRequirement]
      /\ mark' = [s \in Sessions |-> IF Marks(s, w, i) THEN "Same" ELSE mark[s]]
      /\ UNCHANGED <<items, resv, used, ledger, cancelled,
                     request, phase, held, seen, itemRow, draft, open, sum>>
  BY DEF RemovePlan, IInv
<1>2. NoRequirement \in Requirement
  BY DEF NoRequirement, Requirement, ReservationsAssumption
<1>3. reqs' \in [Works -> [Items -> Requirement]]
  BY <1>1, <1>2 DEF TypeOK
<1>4. mark' \in [Sessions -> Marked]
  BY <1>1 DEF TypeOK, Marked
<1>5. QED
  BY <1>1, <1>3, <1>4, PlanHolds

-----------------------------------------------------------------------------
\* The invariant

LEMMA InitHolds ==
  ASSUME ReservationsAssumption, Init
  PROVE  IInv
<1>1. /\ NoRequest \in Request /\ NoItemRows \in [Items -> ItemRow]
      /\ Nothing \in [Items -> Nat] /\ Nothing \in [Items -> Int]
      /\ NoSum \in [item : Items \union {0}, value : Nat]
  BY DEF NoRequest, Request, NoItemRows, ItemRow, Nothing, NoSum
<1>2. NoDraft \in Rows /\ \A r \in Ids : NoDraft[r].status = "Absent"
                       /\ NoDraft[r].issued = 0 /\ NoDraft[r].quantity = 0
  BY DEF NoDraft, Rows, Absent
<1>3. NoRequirement \in Requirement /\ Opening \in Int
  BY DEF NoRequirement, Requirement, ReservationsAssumption
<1>4. TypeOK
  <2>1. /\ items \in [Items -> ItemRow] /\ resv \in Rows
        /\ \A r \in Ids : resv[r].issued <= resv[r].quantity
    BY <1>2, <1>3 DEF Init, ItemRow
  <2>2. /\ reqs \in [Works -> [Items -> Requirement]] /\ used \in [Works -> [Items -> Nat]]
        /\ ledger \in [Items -> Int] /\ cancelled \subseteq Works
    BY <1>1, <1>3 DEF Init
  <2>3. /\ request \in [Sessions -> Request] /\ phase \in [Sessions -> Phases]
        /\ held \in [Sessions -> SUBSET Items] /\ seen \in [Sessions -> [Items -> Int]]
    BY <1>1 DEF Init, Phases
  <2>4. /\ itemRow \in [Sessions -> [Items -> ItemRow]] /\ draft \in [Sessions -> Rows]
        /\ mark \in [Sessions -> Marked] /\ open \in [Sessions -> SUBSET Ids]
        /\ sum \in [Sessions -> [item : Items \union {0}, value : Nat]]
    BY <1>1, <1>2 DEF Init, Marked
  <2>5. QED
    BY <2>1, <2>2, <2>3, <2>4 DEF TypeOK, Rows, Request, Marked
<1>5. \A s \in Sessions :
        phase[s] = "idle" /\ held[s] = {} /\ \A r \in Ids : ~Drafted(s, r)
  BY <1>2 DEF Init, Drafted
<1>6. Locked
  BY <1>5 DEF Locked
<1>7. LedgerExplainsStock
  BY <1>3 DEF Init, LedgerExplainsStock, Nothing
<1>8. \A s \in Sessions : SessionInv(s)
  BY <1>5 DEF SessionInv, DraftsContinue, Progress, Copies
<1>9. QED
  BY <1>4, <1>6, <1>7, <1>8 DEF IInv

LEMMA StutterHolds ==
  ASSUME IInv, UNCHANGED vars
  PROVE  IInv'
<1>1. TypeOK' /\ Locked' /\ LedgerExplainsStock'
  BY DEF IInv, vars, TypeOK, Locked, Drafted, LedgerExplainsStock
<1>2. \A t \in Sessions : SessionInv(t)'
  BY Undisturbed DEF IInv, vars
<1>3. QED
  BY <1>1, <1>2 DEF IInv

LEMMA NextHolds ==
  ASSUME ReservationsAssumption, IInv, [Next]_vars
  PROVE  IInv'
<1>1. ASSUME NEW s \in Sessions, NEW rq \in Requests, Submit(s, rq)
      PROVE  IInv'
  BY <1>1, SubmitHolds
<1>2. ASSUME NEW s \in Sessions, NEW i \in Items, Lock(s, i)
      PROVE  IInv'
  BY <1>2, LockHolds
<1>3. ASSUME NEW s \in Sessions, WriteStep(s)
      PROVE  IInv'
  BY <1>3, ReserveMaterialHolds, ReserveAllHolds, ReleaseReservationHolds,
     IssueReservationHolds, IssueMaterialHolds, IssueStockHolds, ReceiveStockHolds,
     AdjustStockHolds, TransferStockHolds DEF WriteStep
<1>4. ASSUME NEW s \in Sessions, Commit(s)
      PROVE  IInv'
  BY <1>4, CommitHolds
<1>5. ASSUME NEW s \in Sessions, CancelStep(s)
      PROVE  IInv'
  BY <1>5, CancelWorkHolds, CancelReleaseHolds, CancelSyncHolds, CancelCommitHolds
  DEF CancelStep
<1>6. ASSUME NEW s \in Sessions, Rollback(s)
      PROVE  IInv'
  BY <1>6, RollbackHolds
<1>7. ASSUME NEW w \in Works, NEW i \in Items,
             (\E q \in Quantities : PlanMaterial(w, i, q)) \/ RemovePlan(w, i)
      PROVE  IInv'
  BY <1>7, PlanMaterialHolds, RemovePlanHolds
<1>8. CASE UNCHANGED vars
  BY <1>8, StutterHolds
<1>9. QED
  BY <1>1, <1>2, <1>3, <1>4, <1>5, <1>6, <1>7, <1>8 DEF Next

-----------------------------------------------------------------------------
\* The theorems

(* The tables have their types, locks exclude, a session is where its       *)
(* request says, and its copies of the items are theirs plus what it moved. *)
THEOREM ReservationsInvariant == Spec => []IInv
<1>1. Init => IInv
  BY ReservationsAssumption, InitHolds
<1>2. IInv /\ [Next]_vars => IInv'
  BY ReservationsAssumption, NextHolds
<1>3. QED
  BY <1>1, <1>2, PTL DEF Spec

(* Type correctness of the stock and reservation tables and the sessions.   *)
THEOREM ReservationsTyped == Spec => []TypeOK
<1>1. IInv => TypeOK
  BY DEF IInv
<1>2. QED
  BY <1>1, ReservationsInvariant, PTL

(* The inventory transactions explain the stock of every item, with any     *)
(* number of concurrent requests, transfers, stale adjustments and          *)
(* cancellations: no update is lost and none is applied twice.              *)
THEOREM LedgerExplainsStockHolds == Spec => []LedgerExplainsStock
<1>1. IInv => LedgerExplainsStock
  BY DEF IInv
<1>2. QED
  BY <1>1, ReservationsInvariant, PTL

\* Only a commit changes the committed reservations.
LEMMA OnlyCommitsWrite ==
  ASSUME Next
  PROVE  \/ UNCHANGED <<items, resv, used>>
         \/ \E s \in Sessions : /\ Committing(s) /\ EndSession(s)
                                /\ Commit(s) \/ CancelCommit(s)
<1> DEFINE Goal == \/ UNCHANGED <<items, resv, used>>
                   \/ \E s \in Sessions : /\ Committing(s) /\ EndSession(s)
                                          /\ Commit(s) \/ CancelCommit(s)
<1>1. ASSUME NEW s \in Sessions, Commit(s) \/ CancelCommit(s)
      PROVE  Goal
  BY <1>1 DEF Commit, CancelCommit, Committing
<1>2. ASSUME NEW s \in Sessions, WriteStep(s)
      PROVE  Goal
  BY <1>2 DEF WriteStep, ReserveMaterial, ReserveAll, ReleaseReservation, IssueReservation,
              IssueMaterial, IssueStock, ReceiveStock, AdjustStock, TransferStock, Write, tables
<1>3. ASSUME NEW s \in Sessions, CancelStep(s), ~CancelCommit(s)
      PROVE  Goal
  BY <1>3 DEF CancelStep, CancelWork, CancelRelease, CancelSync, tables
<1>4. ASSUME NEW s \in Sessions, \/ \E rq \in Requests : Submit(s, rq)
                                 \/ \E i \in Items : Lock(s, i)
                                 \/ Rollback(s)
      PROVE  Goal
  BY <1>4 DEF Submit, Lock, Rollback, tables
<1>5. ASSUME NEW w \in Works, NEW i \in Items,
             (\E q \in Quantities : PlanMaterial(w, i, q)) \/ RemovePlan(w, i)
      PROVE  Goal
  BY <1>5 DEF PlanMaterial, RemovePlan
<1>6. QED
  BY <1>1, <1>2, <1>3, <1>4, <1>5 DEF Next

(* What was issued from a reservation stays on its record, whoever writes   *)
(* the row next, a cancellation that read it long before included.          *)
THEOREM IssuedStaysOnRecordHolds == Spec => IssuedStaysOnRecord
<1> DEFINE Kept == \A r \in Ids : resv'[r].issued >= resv[r].issued
<1>1. ASSUME IInv, Next
      PROVE  Kept
  <2>1. \A r \in Ids : resv[r].issued \in Nat
    BY <1>1, ReservationsAssumption, RowCases DEF IInv, TypeOK
  <2>2. CASE UNCHANGED <<items, resv, used>>
    BY <2>1, <2>2
  <2>3. ASSUME NEW s \in Sessions, Committing(s)
        PROVE  Kept
    <3>1. \A r \in Ids : Continues(resv'[r], resv[r]) /\ resv'[r] \in ReservationRow \union {Absent}
      BY <1>1, <2>3, ReservationsAssumption, CommittedTables DEF Rows
    <3>2. \A r \in Ids : resv'[r].issued \in Nat
      BY <3>1, ReservationsAssumption, RowCases
    <3>3. QED
      BY <2>1, <3>1, <3>2 DEF Continues
  <2>4. QED
    BY <1>1, <2>2, <2>3, OnlyCommitsWrite
<1>2. IInv /\ [Next]_vars => [Kept]_vars
  BY <1>1
<1>3. Spec => [][Kept]_vars
  BY <1>2, ReservationsInvariant, PTL DEF Spec
<1>4. QED
  BY <1>3 DEF IssuedStaysOnRecord

-----------------------------------------------------------------------------
(***************************************************************************)
(* The reservations themselves: they settle once, what is issued from them *)
(* is recorded, reserve-all fills the plan; and, while no work order is    *)
(* cancelled, the reserved stock is their sum and nobody but an adjustment *)
(* takes it.                                                               *)
(***************************************************************************)

-----------------------------------------------------------------------------
\* Counting units

\* Two tables have the same units of an item when the rows that differ have none.
LEMMA SameUnits ==
  ASSUME NEW T, NEW U, NEW i,
         \A x \in Ids : \/ T[x] = U[x]
                        \/ /\ ~(T[x].status \in ActiveStatuses /\ T[x].item = i)
                           /\ ~(U[x].status \in ActiveStatuses /\ U[x].item = i)
  PROVE  /\ Units(T, i) = Units(U, i)
         /\ \A w : UnitsOf(T, w, i) = UnitsOf(U, w, i)
<1>1. Units(T, i) = Units(U, i)
  <2>1. \A u \in Ids \X Quantities : u \in Units(T, i) <=> u \in Units(U, i)
    BY DEF Units
  <2>2. QED
    BY <2>1 DEF Units
<1>2. \A u \in Units(T, i) : T[u[1]] = U[u[1]]
  BY DEF Units
<1>3. QED
  BY <1>1, <1>2 DEF UnitsOf

\* Finite subsets: a part taken away, a part added.
LEMMA Without ==
  ASSUME NEW S, IsFiniteSet(S), NEW P, P \subseteq S
  PROVE  /\ IsFiniteSet(P) /\ IsFiniteSet(S \ P)
         /\ Cardinality(P) \in Nat /\ Cardinality(S) \in Nat
         /\ Cardinality(S \ P) = Cardinality(S) - Cardinality(P)
         /\ Cardinality(P) <= Cardinality(S)
<1>1. S \intersect P = P
  OBVIOUS
<1>2. QED
  BY <1>1, FS_Difference, FS_Subset, FS_CardinalityType

LEMMA Joined ==
  ASSUME NEW S, IsFiniteSet(S), NEW P, IsFiniteSet(P), S \intersect P = {}
  PROVE  Cardinality(S \union P) = Cardinality(S) + Cardinality(P)
<1>1. Cardinality(S \union P) = Cardinality(S) + Cardinality(P) - Cardinality(S \intersect P)
  BY FS_Union
<1>2. Cardinality(S \intersect P) = 0
  BY FS_EmptySet
<1>3. Cardinality(S) \in Nat /\ Cardinality(P) \in Nat
  BY FS_CardinalityType
<1>4. QED
  BY <1>1, <1>2, <1>3

\* A new reservation adds its quantity.
LEMMA AddUnits ==
  ASSUME ReservationsAssumption, NEW T, NEW U, NEW r \in Ids, NEW w \in Works, NEW i \in Items,
         NEW q \in Quantities, U[r] = Absent, T[r] = NewRow(w, i, q),
         \A x \in Ids \ {r} : T[x] = U[x] \/ (T[x].item # i /\ U[x] = Absent)
  PROVE  /\ Outstanding(T, i) = Outstanding(U, i) + q
         /\ OwnOutstanding(T, w, i) = OwnOutstanding(U, w, i) + q
<1> DEFINE new == {r} \X (1..q)
<1>1. q \in Nat /\ MaxQty \in Nat /\ q <= MaxQty
  BY DEF Quantities, ReservationsAssumption
<1>2. IsFiniteSet(new) /\ Cardinality(new) = q
  <2>1. 0 \in Nat /\ 0 <= q /\ 0 + 1 = 1
    BY <1>1
  <2>2. IsFiniteSet({r} \X ((0 + 1)..q)) /\ Cardinality({r} \X ((0 + 1)..q)) = q - 0
    BY <1>1, <2>1, UnitsOfRow
  <2>3. QED
    BY <1>1, <2>1, <2>2
<1>3. new \subseteq Ids \X Quantities
  BY <1>1 DEF Quantities
<1>4. /\ NewRow(w, i, q).status \in ActiveStatuses /\ NewRow(w, i, q).item = i
      /\ NewRow(w, i, q).issued = 0 /\ NewRow(w, i, q).quantity = q /\ NewRow(w, i, q).work = w
  BY DEF NewRow, ActiveStatuses
<1>5. Absent.status \notin ActiveStatuses
  BY DEF Absent, ActiveStatuses
<1>6. Units(T, i) = Units(U, i) \union new /\ Units(U, i) \intersect new = {}
  <2>1. ASSUME NEW u \in Ids \X Quantities
        PROVE  (u \in Units(T, i) <=> u \in Units(U, i) \/ u \in new)
               /\ ~(u \in Units(U, i) /\ u \in new)
    <3>1. u = <<u[1], u[2]>> /\ u[2] \in Int /\ u[2] >= 1
      BY <1>1 DEF Quantities
    <3>2. CASE u[1] = r
      <4>1. u \in new <=> u[2] <= q
        BY <1>1, <3>1, <3>2
      <4>2. u \in Units(T, i) <=> u[2] <= q
        BY <1>4, <3>1, <3>2 DEF Units
      <4>3. u \notin Units(U, i)
        BY <1>5, <3>2 DEF Units
      <4>4. QED
        BY <4>1, <4>2, <4>3
    <3>3. CASE u[1] # r
      <4>1. u \notin new
        BY <3>3
      <4>2. u \in Units(T, i) <=> u \in Units(U, i)
        BY <1>5, <3>3 DEF Units
      <4>3. QED
        BY <4>1, <4>2
    <3>4. QED
      BY <3>2, <3>3
  <2>2. Units(T, i) \subseteq Ids \X Quantities /\ Units(U, i) \subseteq Ids \X Quantities
    BY DEF Units
  <2> HIDE DEF new
  <2>3. QED
    BY <1>3, <2>1, <2>2
<1>7. UnitsOf(T, w, i) = UnitsOf(U, w, i) \union new /\ UnitsOf(U, w, i) \intersect new = {}
  <2>1. \A u \in new : T[u[1]].work = w
    BY <1>4
  <2>2. \A u \in Units(U, i) : T[u[1]] = U[u[1]]
    BY <1>5 DEF Units
  <2> HIDE DEF new
  <2>3. QED
    BY <1>6, <2>1, <2>2 DEF UnitsOf
<1> HIDE DEF new
<1>8. IsFiniteSet(Units(U, i)) /\ IsFiniteSet(UnitsOf(U, w, i))
  BY UnitsCounted, SubsetsFinite
<1>9. /\ Cardinality(Units(T, i)) = Cardinality(Units(U, i)) + q
      /\ Cardinality(UnitsOf(T, w, i)) = Cardinality(UnitsOf(U, w, i)) + q
  BY <1>2, <1>6, <1>7, <1>8, Joined
<1>10. QED
  BY <1>9 DEF Outstanding, OwnOutstanding

\* A numbering of a set by 1, 2, ... reaches every number up to its size.
LEMMA Numbered ==
  ASSUME NEW S, IsFiniteSet(S), NEW f \in [S -> 1..Cardinality(S)], IsInjective(f)
  PROVE  \A k \in 1..Cardinality(S) : \E x \in S : f[x] = k
<1> DEFINE n == Cardinality(S)
           T == 1..n
<1>1. n \in Nat
  BY FS_CardinalityType
<1>2. f \in Injection(S, T)
  BY DEF Injection
<1> HIDE DEF n
<1>3. IsFiniteSet(T) /\ Cardinality(T) = n
  <2>1. 1 \in Int /\ n \in Int /\ (1 > n <=> n = 0) /\ n - 1 + 1 = n
    BY <1>1
  <2>2. IsFiniteSet(1..n) /\ Cardinality(1..n) = IF 1 > n THEN 0 ELSE n - 1 + 1
    BY <2>1, FS_Interval
  <2>3. QED
    BY <1>1, <2>1, <2>2
<1> HIDE DEF T
<1>4. Cardinality(S) = Cardinality(T)
  BY <1>3 DEF n
<1>5. f \in Surjection(S, T)
  BY <1>2, <1>3, <1>4, FS_Injection
<1>6. QED
  BY <1>5 DEF Surjection, T, n

LEMMA NumberedUpTo ==
  ASSUME NEW S, IsFiniteSet(S), NEW f \in [S -> 1..Cardinality(S)], IsInjective(f),
         NEW q \in Nat
  PROVE  Cardinality({x \in S : f[x] <= q})
           = IF q < Cardinality(S) THEN q ELSE Cardinality(S)
<1> DEFINE m == IF q < Cardinality(S) THEN q ELSE Cardinality(S)
           P == {x \in S : f[x] <= q}
           g == [x \in P |-> f[x]]
<1>1. Cardinality(S) \in Nat
  BY FS_CardinalityType
<1>2. m \in Nat /\ m <= q /\ m <= Cardinality(S)
  BY <1>1
<1>3. \A x \in S : f[x] <= q <=> f[x] <= m
  BY <1>1
<1>4. \A x \in P : x \in S /\ f[x] \in 1..m
  BY <1>1, <1>2, <1>3
<1>5. \A k \in 1..m : \E x \in P : f[x] = k
  <2> SUFFICES ASSUME NEW k \in 1..m
               PROVE  \E x \in P : f[x] = k
    OBVIOUS
  <2>1. k \in 1..Cardinality(S) /\ k <= q
    BY <1>1, <1>2
  <2>2. PICK x \in S : f[x] = k
    BY <2>1, Numbered
  <2>3. QED
    BY <2>1, <2>2
<1>6. IsFiniteSet(P) /\ P \subseteq S
  BY FS_Subset
<1> HIDE DEF m, P
<1>7. g \in Bijection(P, 1..m)
  <2>1. g \in [P -> 1..m] /\ IsInjective(g)
    BY <1>4, <1>6 DEF IsInjective
  <2>2. \A k \in 1..m : \E x \in P : g[x] = k
    BY <1>5
  <2>3. QED
    BY <2>1, <2>2 DEF Bijection, Injection, Surjection
<1> DEFINE T == 1..m
<1>8. Cardinality(T) = m
  <2>1. 1 \in Int /\ m \in Int /\ (1 > m <=> m = 0) /\ m - 1 + 1 = m
    BY <1>2
  <2>2. Cardinality(1..m) = IF 1 > m THEN 0 ELSE m - 1 + 1
    BY <2>1, FS_Interval
  <2>3. QED
    BY <1>2, <2>1, <2>2
<1>9. ExistsBijection(P, T)
  BY <1>7 DEF ExistsBijection
<1> HIDE DEF T
<1>10. Cardinality(T) = Cardinality(P)
  BY <1>6, <1>9, FS_Bijection
<1>11. QED
  BY <1>8, <1>10 DEF m, P

-----------------------------------------------------------------------------
\* Issues

TakenUnits(take) ==
  {u \in Ids \X Quantities :
     resv[u[1]].issued < u[2] /\ u[2] <= resv[u[1]].issued + take[u[1]]}

\* Rows that are issued from, each no more than its balance.
Draws(T, take) ==
  \A x \in Ids :
    /\ take[x] = 0 => T[x] = resv[x]
    /\ take[x] > 0 => /\ resv[x].status \in ActiveStatuses
                      /\ take[x] <= resv[x].quantity - resv[x].issued
                      /\ T[x] = IssuedRow(resv[x], take[x])

LEMMA IssuedRowFields ==
  ASSUME NEW row, NEW q
  PROVE  /\ IssuedRow(row, q).work = row.work /\ IssuedRow(row, q).item = row.item
         /\ IssuedRow(row, q).quantity = row.quantity
         /\ IssuedRow(row, q).issued = row.issued + q
         /\ IssuedRow(row, q).status = IF row.issued + q >= row.quantity
                                         THEN "Issued" ELSE "Partially Issued"
BY DEF IssuedRow

LEMMA DrawnUnits ==
  ASSUME ReservationsAssumption, TypeOK, NEW T, NEW take \in [Ids -> Nat], Draws(T, take),
         NEW i, \A x \in Ids : take[x] > 0 => resv[x].item = i
  PROVE  /\ TakenUnits(take) \subseteq Units(resv, i)
         /\ Units(T, i) = Units(resv, i) \ TakenUnits(take)
         /\ Outstanding(T, i) = Outstanding(resv, i) - Cardinality(TakenUnits(take))
<1>1. ASSUME NEW u \in Ids \X Quantities
      PROVE  /\ u \in TakenUnits(take) => u \in Units(resv, i)
             /\ u \in Units(T, i) <=> u \in Units(resv, i) /\ u \notin TakenUnits(take)
  <2> DEFINE x == u[1]
             n == u[2]
  <2>1. /\ x \in Ids /\ n \in Int /\ n >= 1 /\ take[x] \in Nat
        /\ resv[x].issued \in Nat /\ resv[x].quantity \in Nat
    BY RowCases DEF TypeOK, Quantities, ReservationsAssumption
  <2>2. u \in TakenUnits(take) <=> resv[x].issued < n /\ n <= resv[x].issued + take[x]
    BY DEF TakenUnits
  <2>3. u \in Units(resv, i) <=>
          /\ resv[x].status \in ActiveStatuses /\ resv[x].item = i
          /\ resv[x].issued < n /\ n <= resv[x].quantity
    BY DEF Units
  <2>4. u \in Units(T, i) <=>
          /\ T[x].status \in ActiveStatuses /\ T[x].item = i
          /\ T[x].issued < n /\ n <= T[x].quantity
    BY DEF Units
  <2> HIDE DEF x, n
  <2>5. CASE take[x] = 0
    <3>1. T[x] = resv[x]
      BY <2>1, <2>5 DEF Draws
    <3>2. u \notin TakenUnits(take)
      BY <2>1, <2>2, <2>5
    <3>3. QED
      BY <2>3, <2>4, <3>1, <3>2
  <2>6. CASE take[x] > 0
    <3>1. /\ resv[x].status \in ActiveStatuses /\ resv[x].item = i
          /\ take[x] <= resv[x].quantity - resv[x].issued
          /\ T[x] = IssuedRow(resv[x], take[x])
      BY <2>1, <2>6 DEF Draws
    <3>2. /\ T[x].item = i /\ T[x].issued = resv[x].issued + take[x]
          /\ T[x].quantity = resv[x].quantity
          /\ T[x].issued < T[x].quantity => T[x].status \in ActiveStatuses
      <4>1. /\ T[x].item = resv[x].item /\ T[x].issued = resv[x].issued + take[x]
            /\ T[x].quantity = resv[x].quantity
            /\ T[x].status = IF resv[x].issued + take[x] >= resv[x].quantity
                               THEN "Issued" ELSE "Partially Issued"
        <5> DEFINE old == resv[x]
                   q == take[x]
                   new == T[x]
        <5>1. new = IssuedRow(old, q)
          BY <3>1
        <5> HIDE DEF old, q, new
        <5>2. /\ new.item = old.item /\ new.issued = old.issued + q
              /\ new.quantity = old.quantity
              /\ new.status = IF old.issued + q >= old.quantity
                                THEN "Issued" ELSE "Partially Issued"
          BY <5>1, IssuedRowFields
        <5>3. QED
          BY <5>2 DEF old, q, new
      <4>2. resv[x].issued + take[x] < resv[x].quantity =>
              ~(resv[x].issued + take[x] >= resv[x].quantity)
        BY <2>1
      <4>3. QED
        BY <3>1, <4>1, <4>2 DEF ActiveStatuses
    <3>3. u \in TakenUnits(take) => u \in Units(resv, i)
      BY <2>1, <2>2, <2>3, <3>1
    <3>4. u \in Units(T, i) <=> resv[x].issued + take[x] < n /\ n <= resv[x].quantity
      BY <2>1, <2>4, <3>2
    <3>5. u \in Units(resv, i) /\ u \notin TakenUnits(take) <=>
            resv[x].issued + take[x] < n /\ n <= resv[x].quantity
      BY <2>1, <2>2, <2>3, <2>6, <3>1
    <3>6. QED
      BY <3>3, <3>4, <3>5
  <2>7. QED
    BY <2>1, <2>5, <2>6
<1>2. /\ Units(T, i) \subseteq Ids \X Quantities /\ Units(resv, i) \subseteq Ids \X Quantities
      /\ TakenUnits(take) \subseteq Ids \X Quantities
  BY DEF Units, TakenUnits
<1>3. TakenUnits(take) \subseteq Units(resv, i)
  BY <1>1, <1>2
<1>4. Units(T, i) = Units(resv, i) \ TakenUnits(take)
  BY <1>1, <1>2
<1>5. IsFiniteSet(Units(resv, i))
  BY UnitsCounted, SubsetsFinite
<1>6. Cardinality(Units(T, i)) = Cardinality(Units(resv, i)) - Cardinality(TakenUnits(take))
  BY <1>3, <1>4, <1>5, Without
<1>7. QED
  BY <1>3, <1>4, <1>6 DEF Outstanding

\* An issue from one reservation takes what it asks for.
LEMMA OneTaken ==
  ASSUME ReservationsAssumption, TypeOK, NEW r \in Ids, NEW q \in Nat,
         resv[r].status # "Absent", q <= resv[r].quantity - resv[r].issued
  PROVE  Cardinality(TakenUnits([x \in Ids |-> IF x = r THEN q ELSE 0])) = q
<1> DEFINE take == [x \in Ids |-> IF x = r THEN q ELSE 0]
           a == resv[r].issued
           b == a + q
<1>1. resv[r] \in ReservationRow /\ \A x \in Ids : resv[x].issued \in Nat
  BY RowCases DEF TypeOK
<1>2. a \in Nat /\ b \in Nat /\ a <= b /\ resv[r].quantity \in 1..MaxQty /\ MaxQty \in Nat
      /\ b <= MaxQty
  BY <1>1 DEF ReservationRow, Quantities, ReservationsAssumption
<1>3. TakenUnits(take) = {r} \X ((a + 1)..b)
  <2>1. ASSUME NEW u \in TakenUnits(take)
        PROVE  u \in {r} \X ((a + 1)..b)
    <3>1. u \in Ids \X Quantities /\ resv[u[1]].issued < u[2]
          /\ u[2] <= resv[u[1]].issued + take[u[1]]
      BY DEF TakenUnits
    <3>2. u[2] \in Int /\ u = <<u[1], u[2]>> /\ u[1] \in Ids
      BY <3>1 DEF Quantities
    <3>3. u[1] = r
      BY <1>1, <3>1, <3>2
    <3>4. u[2] \in (a + 1)..b
      BY <1>2, <3>1, <3>2, <3>3
    <3>5. QED
      BY <3>2, <3>3, <3>4
  <2>2. ASSUME NEW u \in {r} \X ((a + 1)..b)
        PROVE  u \in TakenUnits(take)
    <3>1. u[1] = r /\ u[2] \in Int /\ a < u[2] /\ u[2] <= b /\ u = <<u[1], u[2]>>
      BY <1>2
    <3>2. u[2] \in Quantities
      BY <1>2, <3>1 DEF Quantities
    <3>3. u \in Ids \X Quantities
      BY <3>1, <3>2
    <3>4. QED
      BY <3>1, <3>3 DEF TakenUnits
  <2>3. QED
    BY <2>1, <2>2
<1>4. b - a = q
  BY <1>2
<1> HIDE DEF a, b, take
<1>5. Cardinality(TakenUnits(take)) = q
  BY <1>2, <1>3, <1>4, UnitsOfRow
<1>6. QED
  BY <1>5 DEF take

\* How many units of the work order come in rows before r, and in r.
Before(w, i, r) == Cardinality({u \in UnitsOf(resv, w, i) : u[1] < r})
InRow(w, i, r) == Cardinality({u \in UnitsOf(resv, w, i) : u[1] = r})

\* Where a unit stands in the order in which a work order uses its own up.
Rank(w, i, u) == Before(w, i, u[1]) + (u[2] - resv[u[1]].issued)

LEMMA RowsInOrder ==
  ASSUME ReservationsAssumption, NEW w, NEW i, NEW r \in Ids
  PROVE  /\ Before(w, i, r) \in Nat /\ InRow(w, i, r) \in Nat
         /\ Before(w, i, r) + InRow(w, i, r) <= OwnOutstanding(resv, w, i)
         /\ \A x \in Ids : r < x => Before(w, i, r) + InRow(w, i, r) <= Before(w, i, x)
<1> DEFINE own == UnitsOf(resv, w, i)
           B(x) == {u \in own : u[1] < x}
           R == {u \in own : u[1] = r}
<1>1. /\ own \in SUBSET (Ids \X Quantities) /\ IsFiniteSet(own)
      /\ \A x : IsFiniteSet(B(x)) /\ Cardinality(B(x)) \in Nat
      /\ IsFiniteSet(R) /\ Cardinality(R) \in Nat
  <2>1. own \in SUBSET (Ids \X Quantities)
    BY UnitsCounted
  <2>2. R \in SUBSET (Ids \X Quantities) /\ \A x : B(x) \in SUBSET (Ids \X Quantities)
    BY <2>1
  <2> HIDE DEF own, B, R
  <2>3. QED
    BY <2>1, <2>2, SubsetsFinite
<1>2. B(r) \intersect R = {} /\ B(r) \union R \subseteq own
  BY <1>1 DEF Ids
<1>3. \A x \in Ids : r < x => B(r) \union R \subseteq B(x)
  BY <1>1 DEF Ids
<1> HIDE DEF own, B, R
<1>4. Cardinality(B(r) \union R) = Cardinality(B(r)) + Cardinality(R)
  BY <1>1, <1>2, Joined
<1>5. Cardinality(B(r) \union R) <= Cardinality(own)
  BY <1>1, <1>2, FS_Subset
<1>6. ASSUME NEW x \in Ids, r < x
      PROVE  Cardinality(B(r) \union R) <= Cardinality(B(x))
  BY <1>1, <1>3, <1>6, FS_Subset
<1>7. QED
  BY <1>1, <1>4, <1>5, <1>6 DEF Before, InRow, OwnOutstanding, own, B, R

\* An issue by item takes all it needs of the work order's own reservations,
\* and never more than it needs.
LEMMA AllTaken ==
  ASSUME ReservationsAssumption, TypeOK, NEW w, NEW i, NEW q \in Nat
  PROVE  LET take == [r \in Ids |-> TakenFrom(w, i, q, r)]
             own == OwnOutstanding(resv, w, i)
         IN /\ take \in [Ids -> Nat]
            /\ Cardinality(TakenUnits(take)) = IF q < own THEN q ELSE own
<1> DEFINE take == [r \in Ids |-> TakenFrom(w, i, q, r)]
           own == UnitsOf(resv, w, i)
           f == [u \in own |-> Rank(w, i, u)]
<1>1. \A r \in Ids : take[r] \in Nat
  BY TakenType
<1>2. take \in [Ids -> Nat]
  BY <1>1
<1>3. own \in SUBSET (Ids \X Quantities) /\ IsFiniteSet(own) /\ Cardinality(own) \in Nat
      /\ Cardinality(own) = OwnOutstanding(resv, w, i)
  BY UnitsCounted, SubsetsFinite DEF OwnOutstanding
<1>4. ASSUME NEW u \in own
      PROVE  /\ u[1] \in Ids /\ u[2] \in Int /\ u = <<u[1], u[2]>>
             /\ resv[u[1]].issued \in Nat /\ resv[u[1]].issued < u[2]
             /\ u[2] - resv[u[1]].issued <= InRow(w, i, u[1])
             /\ Rank(w, i, u) \in 1..Cardinality(own)
  <2> DEFINE x == u[1]
             n == u[2]
  <2>1. x \in Ids /\ n \in Int /\ u = <<x, n>>
    BY <1>3 DEF Quantities
  <2>2. /\ resv[x].issued < n /\ n <= resv[x].quantity
        /\ resv[x].status \in ActiveStatuses /\ resv[x].item = i /\ resv[x].work = w
    BY DEF Units, UnitsOf
  <2>3. resv[x].issued \in Nat /\ resv[x].quantity \in Nat
    BY <2>1, RowCases DEF TypeOK
  <2>4. InRow(w, i, x) = resv[x].quantity - resv[x].issued
    BY <2>1, <2>2, Balance DEF InRow, Own
  <2>5. /\ Before(w, i, x) \in Nat /\ InRow(w, i, x) \in Nat
        /\ Before(w, i, x) + InRow(w, i, x) <= Cardinality(own)
    BY <1>3, <2>1, RowsInOrder
  <2>6. Rank(w, i, u) = Before(w, i, x) + (n - resv[x].issued)
    BY DEF Rank
  <2> HIDE DEF x, n
  <2>7. n - resv[x].issued <= InRow(w, i, x) /\ Rank(w, i, u) \in 1..Cardinality(own)
    BY <1>3, <2>1, <2>2, <2>3, <2>4, <2>5, <2>6
  <2>8. QED
    BY <2>1, <2>2, <2>3, <2>7 DEF x, n
<1>5. ASSUME NEW u \in own, NEW v \in own, u[1] < v[1]
      PROVE  Rank(w, i, u) # Rank(w, i, v)
  <2>1. /\ Before(w, i, u[1]) + InRow(w, i, u[1]) <= Before(w, i, v[1])
        /\ Before(w, i, u[1]) \in Nat /\ InRow(w, i, u[1]) \in Nat
        /\ Before(w, i, v[1]) \in Nat
    BY <1>4, <1>5, RowsInOrder
  <2>2. /\ u[2] - resv[u[1]].issued <= InRow(w, i, u[1])
        /\ resv[v[1]].issued < v[2]
        /\ u[2] \in Int /\ v[2] \in Int
        /\ resv[u[1]].issued \in Nat /\ resv[v[1]].issued \in Nat
    BY <1>4
  <2>3. Rank(w, i, u) < Rank(w, i, v)
    BY <2>1, <2>2 DEF Rank
  <2>4. Rank(w, i, u) \in Int /\ Rank(w, i, v) \in Int
    BY <1>3, <1>4
  <2>5. QED
    BY <2>3, <2>4
<1>6. ASSUME NEW u \in own, NEW v \in own, u[1] = v[1], Rank(w, i, u) = Rank(w, i, v)
      PROVE  u = v
  <2>1. Before(w, i, u[1]) \in Nat /\ u[2] \in Int /\ v[2] \in Int
        /\ resv[u[1]].issued \in Nat
    BY <1>4, RowsInOrder
  <2>2. u[2] = v[2]
    BY <1>6, <2>1 DEF Rank
  <2>3. QED
    BY <1>4, <1>6, <2>2
<1>7. f \in [own -> 1..Cardinality(own)] /\ IsInjective(f)
  <2>1. f \in [own -> 1..Cardinality(own)]
    BY <1>4
  <2>2. ASSUME NEW u \in own, NEW v \in own, f[u] = f[v]
        PROVE  u = v
    <3>1. Rank(w, i, u) = Rank(w, i, v)
      BY <2>2
    <3>2. u[1] \in Int /\ v[1] \in Int
      BY <1>4 DEF Ids
    <3>3. u[1] = v[1]
      BY <1>5, <3>1, <3>2
    <3>4. QED
      BY <1>6, <3>1, <3>3
  <2>3. QED
    BY <2>1, <2>2 DEF IsInjective
<1>8. TakenUnits(take) = {u \in own : f[u] <= q}
  <2>1. ASSUME NEW u \in Ids \X Quantities
        PROVE  u \in TakenUnits(take) <=> u \in own /\ Rank(w, i, u) <= q
    <3> DEFINE x == u[1]
               n == u[2]
    <3>1. x \in Ids /\ n \in Int /\ take[x] \in Nat
      BY <1>1 DEF Quantities
    <3>2. resv[x].issued \in Nat /\ resv[x].quantity \in Nat
      BY <3>1, RowCases DEF TypeOK
    <3>3. u \in TakenUnits(take) <=> resv[x].issued < n /\ n <= resv[x].issued + take[x]
      BY DEF TakenUnits
    <3>4. u \in own <=> Own(resv[x], w, i) /\ resv[x].issued < n /\ n <= resv[x].quantity
      BY DEF Units, UnitsOf, Own
    <3>5. InRow(w, i, x) = IF Own(resv[x], w, i) THEN resv[x].quantity - resv[x].issued ELSE 0
      BY <3>1, Balance DEF InRow
    <3>6. Before(w, i, x) \in Nat /\ InRow(w, i, x) \in Nat
      BY <3>1, RowsInOrder
    <3>7. take[x] = IF InRow(w, i, x) < AtLeast0(q - Before(w, i, x))
                      THEN InRow(w, i, x) ELSE AtLeast0(q - Before(w, i, x))
      BY <3>1 DEF TakenFrom, InRow, Before
    <3>8. Rank(w, i, u) = Before(w, i, x) + (n - resv[x].issued)
      BY DEF Rank
    <3> HIDE DEF x, n, own, take
    <3>9. CASE Own(resv[x], w, i)
      BY <3>1, <3>2, <3>3, <3>4, <3>5, <3>6, <3>7, <3>8, <3>9 DEF AtLeast0
    <3>10. CASE ~Own(resv[x], w, i)
      BY <3>1, <3>2, <3>3, <3>4, <3>5, <3>6, <3>7, <3>10 DEF AtLeast0
    <3>11. QED
      BY <3>9, <3>10
  <2>2. TakenUnits(take) \subseteq Ids \X Quantities
    BY DEF TakenUnits
  <2>3. \A u \in own : f[u] = Rank(w, i, u)
    OBVIOUS
  <2> HIDE DEF f, own, take
  <2>4. QED
    BY <1>3, <2>1, <2>2, <2>3
<1> HIDE DEF own, f
<1>9. Cardinality({u \in own : f[u] <= q}) = IF q < Cardinality(own) THEN q ELSE Cardinality(own)
  BY <1>3, <1>7, NumberedUpTo
<1>10. QED
  BY <1>2, <1>3, <1>8, <1>9

-----------------------------------------------------------------------------
\* Fresh ids and reserve-all

\* The position of a member in a finite set of integers.
LEMMA Positions ==
  ASSUME NEW S \in SUBSET Int, IsFiniteSet(S), NEW x \in S
  PROVE  /\ Cardinality({y \in S : y < x}) + 1 \in 1..Cardinality(S)
         /\ Cardinality({y \in S : y <= x}) = Cardinality({y \in S : y < x}) + 1
         /\ \A z \in S : x < z =>
              Cardinality({y \in S : y < x}) < Cardinality({y \in S : y < z})
<1> DEFINE below(z) == {y \in S : y < z}
           upto == {y \in S : y <= x}
<1> x \in Int /\ \A y \in S : y \in Int
  OBVIOUS
<1>1. upto = below(x) \union {x} /\ x \notin below(x)
  <2>1. \A y \in S : y \in upto <=> y \in below(x) \/ y = x
    OBVIOUS
  <2>2. upto \subseteq S /\ below(x) \subseteq S /\ x \in S /\ x \notin below(x)
    OBVIOUS
  <2> HIDE DEF upto, below
  <2>3. QED
    BY <2>1, <2>2
<1>2. upto \subseteq S /\ \A z : below(z) \subseteq S
  OBVIOUS
<1>3. \A z \in S : x < z => upto \subseteq below(z)
  <2>1. \A y, z \in S : y <= x /\ x < z => y < z
    OBVIOUS
  <2>2. QED
    BY <2>1
<1> HIDE DEF below, upto
<1>4. /\ IsFiniteSet(upto) /\ Cardinality(upto) \in Nat /\ Cardinality(S) \in Nat
      /\ \A z : IsFiniteSet(below(z)) /\ Cardinality(below(z)) \in Nat
      /\ Cardinality(upto) <= Cardinality(S)
  BY <1>2, FS_Subset, FS_CardinalityType
<1>5. Cardinality(upto) = Cardinality(below(x)) + 1
  BY <1>1, <1>4, FS_AddElement
<1>6. ASSUME NEW z \in S, x < z
      PROVE  Cardinality(below(x)) < Cardinality(below(z))
  <2>1. Cardinality(upto) <= Cardinality(below(z))
    BY <1>3, <1>4, <1>6, FS_Subset
  <2>2. QED
    BY <1>4, <1>5, <2>1
<1>7. Cardinality(below(x)) + 1 \in 1..Cardinality(S)
  BY <1>4, <1>5
<1>8. QED
  BY <1>5, <1>6, <1>7 DEF below, upto

\* The k-th fresh id exists, and each fresh id has one number.
LEMMA FreshNumbered ==
  ASSUME ReservationsAssumption
  PROVE  /\ \A k \in 1..Cardinality(FreshIds) : \E r \in Ids : IsFresh(r, k)
         /\ \A r \in Ids, k \in Int, m \in Int : IsFresh(r, k) /\ IsFresh(r, m) => k = m
         /\ \A r \in Ids, x \in Ids, k \in Int : IsFresh(r, k) /\ IsFresh(x, k) => r = x
<1> DEFINE below(r) == {x \in FreshIds : x < r}
           f == [r \in FreshIds |-> Cardinality(below(r)) + 1]
<1>1. FreshIds \in SUBSET Int /\ FreshIds \in SUBSET Ids /\ IsFiniteSet(FreshIds)
  <2>1. FreshIds \in SUBSET Ids
    BY DEF FreshIds
  <2>2. QED
    BY <2>1, SubsetsFinite DEF Ids
<1>2. \A r \in FreshIds : Cardinality(below(r)) + 1 \in 1..Cardinality(FreshIds)
  BY <1>1, Positions
<1>3. \A r, x \in FreshIds : r < x => Cardinality(below(r)) < Cardinality(below(x))
  BY <1>1, Positions
<1>4. \A r \in FreshIds : Cardinality(below(r)) \in Nat
  <2>1. \A r : below(r) \in SUBSET Ids
    BY <1>1
  <2> HIDE DEF below
  <2>2. QED
    BY <2>1, SubsetsFinite
<1>5. \A r \in Ids : \A k : IsFresh(r, k) <=> r \in FreshIds /\ Cardinality(below(r)) = k - 1
  BY DEF IsFresh
<1> HIDE DEF below
<1>6. \A r, x \in FreshIds : Cardinality(below(r)) = Cardinality(below(x)) => r = x
  <2> SUFFICES ASSUME NEW r \in FreshIds, NEW x \in FreshIds,
                      Cardinality(below(r)) = Cardinality(below(x))
               PROVE  r = x
    OBVIOUS
  <2>1. r \in Int /\ x \in Int
    BY <1>1
  <2>2. QED
    BY <1>3, <1>4, <2>1
<1>7. f \in [FreshIds -> 1..Cardinality(FreshIds)] /\ IsInjective(f)
  <2>1. f \in [FreshIds -> 1..Cardinality(FreshIds)]
    BY <1>2
  <2>2. \A r, x \in FreshIds : f[r] = f[x] => r = x
    BY <1>4, <1>6
  <2>3. QED
    BY <2>1, <2>2 DEF IsInjective
<1>8. ASSUME NEW k \in Int, k \in 1..Cardinality(FreshIds)
      PROVE  \E r \in Ids : IsFresh(r, k)
  <2>1. \E r \in FreshIds : f[r] = k
    <3> DEFINE S == FreshIds
    <3>1. /\ IsFiniteSet(S) /\ f \in [S -> 1..Cardinality(S)] /\ IsInjective(f)
          /\ k \in 1..Cardinality(S)
      BY <1>1, <1>7, <1>8
    <3> HIDE DEF f, S
    <3>2. \E r \in S : f[r] = k
      BY <3>1, Numbered
    <3>3. QED
      BY <3>2 DEF S
  <2>2. PICK r \in FreshIds : f[r] = k
    BY <2>1
  <2>3. Cardinality(below(r)) + 1 = k
    BY <2>2
  <2>4. Cardinality(below(r)) = k - 1
    BY <1>4, <2>3
  <2>5. QED
    BY <1>1, <1>5, <2>4
<1>9. ASSUME NEW r \in Ids, NEW k \in Int, NEW m \in Int, IsFresh(r, k), IsFresh(r, m)
      PROVE  k = m
  BY <1>4, <1>5, <1>9
<1>10. ASSUME NEW r \in Ids, NEW x \in Ids, NEW k \in Int, IsFresh(r, k), IsFresh(x, k)
       PROVE  r = x
  BY <1>5, <1>6, <1>10
<1>11. QED
  BY <1>8, <1>9, <1>10

\* The rows a reserve-all creates.
CreatedRows(s) ==
  LET created == Securable(s)
      For(i, r) == IsFresh(r, Cardinality({j \in created : j <= i}))
  IN [r \in Ids |->
        IF \E i \in created : For(i, r)
          THEN LET i == CHOOSE i \in created : For(i, r)
               IN NewRow(request[s].work, i, Need(s, i))
          ELSE Absent]

\* One fresh row for every item that can be secured, and no other row.
LEMMA OneRowPerItem ==
  ASSUME ReservationsAssumption, TypeOK, NEW s \in Sessions,
         request[s].op = "reserveAll",
         Cardinality(Securable(s)) <= Cardinality(FreshIds)
  PROVE  /\ \A r \in Ids : CreatedRows(s)[r] = Absent
              \/ /\ resv[r] = Absent
                 /\ \E i \in Securable(s) :
                      CreatedRows(s)[r] = NewRow(request[s].work, i, Need(s, i))
         /\ \A i \in Securable(s) : \E r \in Ids :
              /\ resv[r] = Absent
              /\ CreatedRows(s)[r] = NewRow(request[s].work, i, Need(s, i))
              /\ \A x \in Ids \ {r} : CreatedRows(s)[x] = Absent
                   \/ (CreatedRows(s)[x].item # i /\ resv[x] = Absent)
<1> DEFINE created == Securable(s)
           num(i) == Cardinality({j \in created : j <= i})
           For(i, r) == IsFresh(r, num(i))
           row(i) == NewRow(request[s].work, i, Need(s, i))
           rows == CreatedRows(s)
<1>1. created \in SUBSET Items /\ created \in SUBSET Int /\ IsFiniteSet(created)
  <2>1. created \in SUBSET Items
    BY DEF Securable, Wanted
  <2>2. QED
    BY <2>1, SubsetsFinite DEF Items
<1>2. \A i \in created : num(i) \in 1..Cardinality(created)
  BY <1>1, Positions
<1>3. \A i, j \in created : i < j => num(i) < num(j)
  <2> SUFFICES ASSUME NEW i \in created, NEW j \in created, i < j
               PROVE  num(i) < num(j)
    OBVIOUS
  <2>1. /\ num(i) = Cardinality({y \in created : y < i}) + 1
        /\ num(j) = Cardinality({y \in created : y < j}) + 1
        /\ Cardinality({y \in created : y < i}) < Cardinality({y \in created : y < j})
    BY <1>1, Positions
  <2>2. /\ {y \in created : y < i} \in SUBSET Items /\ {y \in created : y < j} \in SUBSET Items
    BY <1>1
  <2>3. /\ Cardinality({y \in created : y < i}) \in Nat
        /\ Cardinality({y \in created : y < j}) \in Nat
    BY <2>2, SubsetsFinite
  <2>4. QED
    BY <2>1, <2>3
<1>4. \A r \in Ids : rows[r] = IF \E i \in created : For(i, r)
                                THEN row(CHOOSE i \in created : For(i, r)) ELSE Absent
  BY DEF CreatedRows
<1>5. Cardinality(created) \in Nat /\ Cardinality(FreshIds) \in Nat
      /\ Cardinality(created) <= Cardinality(FreshIds)
  <2>1. FreshIds \in SUBSET Ids
    BY DEF FreshIds
  <2>2. QED
    BY <1>1, <2>1, SubsetsFinite
<1> HIDE DEF num
<1>6. \A i, j \in created : num(i) = num(j) => i = j
  <2> SUFFICES ASSUME NEW i \in created, NEW j \in created, num(i) = num(j)
               PROVE  i = j
    OBVIOUS
  <2>1. i \in Int /\ j \in Int /\ num(i) \in Int /\ num(j) \in Int
    BY <1>1, <1>2
  <2>2. QED
    BY <1>3, <2>1
<1>7. ASSUME NEW r \in Ids, NEW i \in created, NEW j \in created, For(i, r), For(j, r)
      PROVE  i = j
  <2>1. num(i) \in Int /\ num(j) \in Int
    BY <1>2
  <2>2. num(i) = num(j)
    BY <1>7, <2>1, FreshNumbered
  <2>3. QED
    BY <1>6, <2>2
<1>8. ASSUME NEW r \in Ids, NEW i \in created, For(i, r)
      PROVE  rows[r] = row(i)
  <2>1. (CHOOSE j \in created : For(j, r)) = i
    <3> DEFINE c == CHOOSE j \in created : For(j, r)
    <3>1. c \in created /\ For(c, r)
      BY <1>8
    <3> HIDE DEF c
    <3>2. QED
      BY <1>7, <1>8, <3>1 DEF c
  <2> HIDE DEF row, For, created
  <2>2. QED
    BY <1>4, <1>8, <2>1
<1>9. \A r \in Ids, i \in created : For(i, r) => resv[r] = Absent
  <2> SUFFICES ASSUME NEW r \in Ids, NEW i \in created, For(i, r)
               PROVE  resv[r] = Absent
    OBVIOUS
  <2>1. QED
    BY FreshRow
<1>10. ASSUME NEW r \in Ids
       PROVE  rows[r] = Absent \/ (resv[r] = Absent /\ \E i \in created : rows[r] = row(i))
  <2> HIDE DEF row, For, created, rows
  <2>1. CASE \E i \in created : For(i, r)
    BY <1>8, <1>9, <2>1
  <2>2. CASE ~\E i \in created : For(i, r)
    BY <1>4, <2>2
  <2>3. QED
    BY <2>1, <2>2
<1>11. ASSUME NEW i \in created
       PROVE  \E r \in Ids :
              /\ resv[r] = Absent /\ rows[r] = row(i)
              /\ \A x \in Ids \ {r} : rows[x] = Absent \/ (rows[x].item # i /\ resv[x] = Absent)
  <2>1. num(i) \in 1..Cardinality(FreshIds) /\ num(i) \in Int
    BY <1>2, <1>5
  <2>2. PICK r \in Ids : IsFresh(r, num(i))
    BY <2>1, FreshNumbered
  <2>3. resv[r] = Absent /\ rows[r] = row(i)
    BY <1>8, <1>9, <2>2
  <2>4. ASSUME NEW x \in Ids \ {r}, rows[x] # Absent
        PROVE  rows[x].item # i /\ resv[x] = Absent
    <3>1. PICK j \in created : For(j, x)
      <4> HIDE DEF For, row
      <4>1. QED
        BY <1>4, <2>4
    <3>2. rows[x] = row(j) /\ resv[x] = Absent
      BY <1>8, <1>9, <3>1
    <3>3. j # i
      <4>1. SUFFICES ASSUME j = i
                     PROVE  FALSE
        OBVIOUS
      <4>2. IsFresh(x, num(i)) /\ IsFresh(r, num(i))
        BY <2>2, <3>1, <4>1
      <4>3. x = r
        BY <2>1, <4>2, FreshNumbered
      <4>4. QED
        BY <4>3
    <3>4. row(j).item = j
      BY DEF NewRow
    <3>5. QED
      BY <3>2, <3>3, <3>4
  <2>5. QED
    BY <2>3, <2>4
<1>12. QED
  BY <1>10, <1>11

-----------------------------------------------------------------------------
\* What the statements of a request amount to

\* Units the drafted rows issue.
IssuedIn(d, w, i) ==
  {u \in Ids \X Quantities :
     /\ d[u[1]].status # "Absent" /\ d[u[1]].work = w /\ d[u[1]].item = i
     /\ resv[u[1]].issued < u[2] /\ u[2] <= d[u[1]].issued}

\* The stock of an item it holds, if the books agree before.
Balanced(s, d, i, row) ==
  /\ row.reserved = Outstanding(View(d), i)
  /\ \/ request[s].op = "adjust"
     \/ items[i].current < items[i].reserved
     \/ row.current >= row.reserved

Effects(s, rows, newItems) ==
  /\ \A r \in Ids : rows[r].status # "Absent" =>
       /\ rows[r].item \in held[s]
       /\ resv[r].status \in ActiveStatuses \union {"Absent"}
       /\ rows[r].status = "Issued" =>
            request[s].op \in {"issue", "consume"} /\ rows[r].work = request[s].work
  /\ request[s].op \in {"issue", "consume"} => WorkFree(s, request[s].work)
  /\ \A w \in Works, i \in Items :
       Cardinality(IssuedIn(rows, w, i)) <= IF Issues(s, w, i) THEN request[s].qty ELSE 0
  /\ request[s].op = "reserveAll" => \A i \in Items :
       \/ \A r \in Ids : rows[r].status # "Absent" => rows[r].item # i
       \/ OwnOutstanding(View(rows), request[s].work, i) + used[request[s].work][i] = seen[s][i]
  /\ ReservedMatchesOutstanding => \A i \in held[s] : Balanced(s, rows, i, newItems[i])

Wrote(s) ==
  \E rows \in Rows, newItems \in [Items -> ItemRow], status \in Marked :
    Write(s, rows, newItems, status) /\ Effects(s, rows, newItems)

LEMMA NoneIssued ==
  ASSUME ReservationsAssumption, TypeOK, NEW s \in Sessions, NEW rows \in Rows,
         WellFormed(request[s]),
         \A r \in Ids : rows[r].status # "Absent" => rows[r].issued <= resv[r].issued
  PROVE  \A w \in Works, i \in Items :
           Cardinality(IssuedIn(rows, w, i)) <= IF Issues(s, w, i) THEN request[s].qty ELSE 0
<1> SUFFICES ASSUME NEW w \in Works, NEW i \in Items
             PROVE  Cardinality(IssuedIn(rows, w, i))
                      <= IF Issues(s, w, i) THEN request[s].qty ELSE 0
  OBVIOUS
<1>1. \A r \in Ids : resv[r].issued \in Nat /\ rows[r].issued \in Nat
  BY RowCases DEF TypeOK, Rows
<1>2. \A u \in Ids \X Quantities : u[1] \in Ids /\ u[2] \in Int
  BY DEF Quantities
<1>3. IssuedIn(rows, w, i) = {}
  BY <1>1, <1>2 DEF IssuedIn
<1>4. Cardinality(IssuedIn(rows, w, i)) = 0
  BY <1>3, FS_EmptySet
<1>5. Issues(s, w, i) => request[s].qty \in Nat
  BY DEF Issues, WellFormed, Counted, Quantities, ReservationsAssumption
<1>6. QED
  BY <1>4, <1>5

LEMMA DrawsIssued ==
  ASSUME ReservationsAssumption, TypeOK, NEW s \in Sessions, NEW rows \in Rows,
         NEW take \in [Ids -> Nat],
         \A r \in Ids : rows[r].status # "Absent" =>
           /\ rows[r].issued = resv[r].issued + take[r]
           /\ rows[r].work = request[s].work /\ rows[r].item = request[s].item,
         request[s].op \in {"issue", "consume"}, request[s].qty \in Nat,
         Cardinality(TakenUnits(take)) <= request[s].qty
  PROVE  \A w \in Works, i \in Items :
           Cardinality(IssuedIn(rows, w, i)) <= IF Issues(s, w, i) THEN request[s].qty ELSE 0
<1> SUFFICES ASSUME NEW w \in Works, NEW i \in Items
             PROVE  Cardinality(IssuedIn(rows, w, i))
                      <= IF Issues(s, w, i) THEN request[s].qty ELSE 0
  OBVIOUS
<1>1. CASE Issues(s, w, i)
  <2>1. IssuedIn(rows, w, i) \subseteq TakenUnits(take)
    BY DEF IssuedIn, TakenUnits
  <2>2. TakenUnits(take) \in SUBSET (Ids \X Quantities)
    BY DEF TakenUnits
  <2>3. IsFiniteSet(TakenUnits(take)) /\ Cardinality(TakenUnits(take)) \in Nat
    BY <2>2, SubsetsFinite
  <2>4. /\ Cardinality(IssuedIn(rows, w, i)) <= Cardinality(TakenUnits(take))
        /\ Cardinality(IssuedIn(rows, w, i)) \in Nat
    BY <2>1, <2>3, Without
  <2>5. QED
    BY <1>1, <2>3, <2>4
<1>2. CASE ~Issues(s, w, i)
  <2>1. IssuedIn(rows, w, i) = {}
    BY <1>2 DEF IssuedIn, Issues
  <2>2. QED
    BY <1>2, <2>1, FS_EmptySet
<1>3. QED
  BY <1>1, <1>2

\* A request that writes no reservation.
LEMMA ShelfWrote ==
  ASSUME ReservationsAssumption, IInv, NEW s \in Sessions, Holding(s),
         NEW newItems \in [Items -> ItemRow], Write(s, NoDraft, newItems, "Same"),
         request[s].op \in {"issueStock", "receive", "adjust", "transfer"},
         \A i \in held[s] :
           /\ newItems[i].reserved = items[i].reserved
           /\ \/ request[s].op = "adjust"
              \/ items[i].current < items[i].reserved
              \/ newItems[i].current >= items[i].reserved
  PROVE  Wrote(s)
<1>1. NoDraft \in Rows /\ \A r \in Ids : NoDraft[r].status = "Absent"
  BY DEF NoDraft, Rows, Absent
<1>2. TypeOK /\ WellFormed(request[s]) /\ held[s] \subseteq Items
  BY BeforeWriting DEF IInv, TypeOK
<1>3. View(NoDraft) = resv
  BY <1>1, <1>2 DEF View, TypeOK
<1>4. \A w \in Works, i \in Items :
        Cardinality(IssuedIn(NoDraft, w, i)) <= IF Issues(s, w, i) THEN request[s].qty ELSE 0
  BY <1>1, <1>2, NoneIssued
<1>5. ReservedMatchesOutstanding => \A i \in held[s] : Balanced(s, NoDraft, i, newItems[i])
  BY <1>2, <1>3 DEF Balanced, ReservedMatchesOutstanding
<1>6. Effects(s, NoDraft, newItems)
  BY <1>1, <1>4, <1>5 DEF Effects
<1>7. QED
  BY <1>1, <1>6 DEF Wrote, Marked

LEMMA IssueStockWrote ==
  ASSUME ReservationsAssumption, IInv, NEW s \in Sessions, IssueStock(s)
  PROVE  Wrote(s)
<1> DEFINE rq == request[s]
           newItems == Taken(itemRow[s], rq.item, rq.qty)
<1>1. /\ rq.op = "issueStock" /\ Holding(s) /\ Write(s, NoDraft, newItems, "Same")
      /\ itemRow[s][rq.item].current - itemRow[s][rq.item].reserved >= rq.qty
  BY DEF IssueStock
<1>2. /\ rq.item \in Items /\ held[s] = {rq.item} /\ itemRow[s] \in [Items -> ItemRow]
      /\ itemRow[s][rq.item] = items[rq.item] /\ items[rq.item] \in ItemRow /\ rq.qty \in Int
  BY <1>1, HoldsItem DEF OneItem
<1>3. /\ newItems \in [Items -> ItemRow]
      /\ newItems[rq.item].current = items[rq.item].current - rq.qty
      /\ newItems[rq.item].reserved = items[rq.item].reserved
  BY <1>2, TakenItems
<1> HIDE DEF newItems
<1>4. newItems[rq.item].current >= items[rq.item].reserved
  BY <1>1, <1>2, <1>3 DEF ItemRow
<1>5. QED
  BY <1>1, <1>2, <1>3, <1>4, ShelfWrote

LEMMA ReceiveStockWrote ==
  ASSUME ReservationsAssumption, IInv, NEW s \in Sessions, ReceiveStock(s)
  PROVE  Wrote(s)
<1> DEFINE rq == request[s]
           q == -rq.qty
           newItems == Taken(itemRow[s], rq.item, q)
<1>1. rq.op = "receive" /\ Holding(s) /\ Write(s, NoDraft, newItems, "Same")
  BY DEF ReceiveStock
<1>2. /\ rq.item \in Items /\ held[s] = {rq.item} /\ itemRow[s] \in [Items -> ItemRow]
      /\ itemRow[s][rq.item] = items[rq.item] /\ items[rq.item] \in ItemRow
  BY <1>1, HoldsItem DEF OneItem
<1>3. q \in Int /\ q <= 0
  <2>1. rq.qty \in Quantities
    BY <1>1, BeforeWriting DEF WellFormed, Counted
  <2>2. QED
    BY <2>1 DEF Quantities, ReservationsAssumption
<1> HIDE DEF q
<1>4. /\ newItems \in [Items -> ItemRow]
      /\ newItems[rq.item].current = items[rq.item].current - q
      /\ newItems[rq.item].reserved = items[rq.item].reserved
  BY <1>2, <1>3, TakenItems
<1> HIDE DEF newItems
<1>5. items[rq.item].current < items[rq.item].reserved
      \/ newItems[rq.item].current >= items[rq.item].reserved
  BY <1>2, <1>3, <1>4 DEF ItemRow
<1>6. QED
  BY <1>1, <1>2, <1>4, <1>5, ShelfWrote

LEMMA AdjustStockWrote ==
  ASSUME ReservationsAssumption, IInv, NEW s \in Sessions, AdjustStock(s)
  PROVE  Wrote(s)
<1> DEFINE rq == request[s]
           newItems == [itemRow[s] EXCEPT ![rq.item] =
                          [current |-> rq.qty, reserved |-> itemRow[s][rq.item].reserved]]
<1>1. rq.op = "adjust" /\ Holding(s) /\ Write(s, NoDraft, newItems, "Same")
  BY DEF AdjustStock
<1>2. /\ rq.item \in Items /\ held[s] = {rq.item} /\ itemRow[s] \in [Items -> ItemRow]
      /\ itemRow[s][rq.item] = items[rq.item] /\ items[rq.item] \in ItemRow /\ rq.qty \in Int
  BY <1>1, HoldsItem DEF OneItem
<1>3. newItems \in [Items -> ItemRow] /\ newItems[rq.item].reserved = items[rq.item].reserved
  BY <1>2 DEF ItemRow
<1> HIDE DEF newItems
<1>4. QED
  BY <1>1, <1>2, <1>3, ShelfWrote

LEMMA TransferStockWrote ==
  ASSUME ReservationsAssumption, IInv, NEW s \in Sessions, TransferStock(s)
  PROVE  Wrote(s)
<1> DEFINE rq == request[s]
           newItems == Taken(Taken(itemRow[s], rq.item, rq.qty), rq.to, -rq.qty)
<1>1. /\ rq.op = "transfer" /\ Holding(s) /\ Write(s, NoDraft, newItems, "Same")
      /\ itemRow[s][rq.item].current - itemRow[s][rq.item].reserved >= rq.qty
  BY DEF TransferStock
<1>2. /\ rq.item # rq.to /\ held[s] = {rq.item, rq.to} /\ rq.qty \in Nat
      /\ items[rq.item] \in ItemRow /\ items[rq.to] \in ItemRow
      /\ newItems \in [Items -> ItemRow]
      /\ newItems[rq.item].current = items[rq.item].current - rq.qty
      /\ newItems[rq.item].reserved = items[rq.item].reserved
      /\ newItems[rq.to].current = items[rq.to].current + rq.qty
      /\ newItems[rq.to].reserved = items[rq.to].reserved
  BY <1>1, TransferItems
<1>3. itemRow[s][rq.item] = items[rq.item]
  BY <1>1, <1>2, BeforeWriting
<1> HIDE DEF newItems
<1>4. newItems[rq.item].current >= items[rq.item].reserved
  BY <1>1, <1>2, <1>3 DEF ItemRow
<1>5. items[rq.to].current < items[rq.to].reserved
      \/ newItems[rq.to].current >= items[rq.to].reserved
  BY <1>2 DEF ItemRow
<1>6. QED
  BY <1>1, <1>2, <1>4, <1>5, ShelfWrote

LEMMA NewRowFields ==
  ASSUME NEW w, NEW i, NEW q
  PROVE  /\ NewRow(w, i, q).work = w /\ NewRow(w, i, q).item = i
         /\ NewRow(w, i, q).quantity = q /\ NewRow(w, i, q).issued = 0
         /\ NewRow(w, i, q).status = "Reserved"
BY DEF NewRow

LEMMA ReserveMaterialWrote ==
  ASSUME ReservationsAssumption, IInv, NEW s \in Sessions, ReserveMaterial(s)
  PROVE  Wrote(s)
<1> DEFINE rq == request[s]
           i == rq.item
           q == rq.qty
           new == NewRow(rq.work, i, q)
           newItems == [itemRow[s] EXCEPT ![i] =
                          [current |-> itemRow[s][i].current,
                           reserved |-> itemRow[s][i].reserved + q]]
<1>1. /\ rq.op = "reserve" /\ Holding(s) /\ TypeOK
      /\ itemRow[s][i].current - itemRow[s][i].reserved >= q
  BY DEF ReserveMaterial, IInv
<1>2. /\ i \in Items /\ held[s] = {i} /\ draft[s] = NoDraft
      /\ itemRow[s] \in [Items -> ItemRow] /\ itemRow[s][i] = items[i] /\ items[i] \in ItemRow
  BY <1>1, HoldsItem DEF OneItem
<1>3. rq.work \in Works /\ q \in Quantities /\ WellFormed(rq)
  BY <1>1, BeforeWriting DEF WellFormed, Counted
<1>4. q \in Nat
  BY <1>3 DEF Quantities, ReservationsAssumption
<1>5. PICK r \in Ids :
        /\ IsFresh(r, 1)
        /\ Write(s, [NoDraft EXCEPT ![r] = new], newItems,
                 ReserveMark(rq.work, i, [NoDraft EXCEPT ![r] = new]))
  BY <1>2 DEF ReserveMaterial
<1> DEFINE rows == [NoDraft EXCEPT ![r] = new]
           status == ReserveMark(rq.work, i, rows)
<1>6. new \in ReservationRow /\ new.item = i /\ new.work = rq.work /\ new.issued = 0
      /\ new.status = "Reserved"
  BY <1>2, <1>3, NewRowType, NewRowFields
<1>7. rows \in Rows /\ rows[r] = new /\ \A x \in Ids : rows[x].status # "Absent" => x = r
  <2> HIDE DEF new
  <2>1. QED
    BY <1>6, OneRow
<1>8. resv[r] = Absent
  BY <1>1, <1>5, FreshRow
<1>9. newItems \in [Items -> ItemRow]
      /\ newItems[i] = [current |-> items[i].current, reserved |-> items[i].reserved + q]
  BY <1>2, <1>4 DEF ItemRow
<1>10. status \in Marked
  BY MarksType
<1>11. Write(s, rows, newItems, status)
  BY <1>5
<1>12. View(rows)[r] = NewRow(rq.work, i, q) /\ \A x \in Ids \ {r} : View(rows)[x] = resv[x]
  BY <1>6, <1>7 DEF View
<1> HIDE DEF rows, newItems, status, new, i, q
<1>13. Outstanding(View(rows), i) = Outstanding(resv, i) + q
  <2> DEFINE T == View(rows)
             w == rq.work
  <2>1. /\ T[r] = NewRow(w, i, q) /\ w \in Works
        /\ \A x \in Ids \ {r} : T[x] = resv[x] \/ (T[x].item # i /\ resv[x] = Absent)
    BY <1>3, <1>12
  <2> HIDE DEF T, w
  <2>2. Outstanding(T, i) = Outstanding(resv, i) + q
    BY <1>2, <1>3, <1>8, <2>1, AddUnits
  <2>3. QED
    BY <2>2 DEF T
<1>14. ReservedMatchesOutstanding => Balanced(s, rows, i, newItems[i])
  <2> SUFFICES ASSUME ReservedMatchesOutstanding
               PROVE  Balanced(s, rows, i, newItems[i])
    OBVIOUS
  <2>1. items[i].reserved = Outstanding(resv, i)
    BY <1>2 DEF ReservedMatchesOutstanding
  <2>2. newItems[i].current = items[i].current /\ newItems[i].reserved = items[i].reserved + q
    BY <1>9
  <2>3. newItems[i].current >= newItems[i].reserved
    BY <1>1, <1>2, <1>4, <2>2 DEF ItemRow, i, q
  <2>4. QED
    BY <1>13, <2>1, <2>2, <2>3 DEF Balanced
<1>15. \A w \in Works, j \in Items :
         Cardinality(IssuedIn(rows, w, j)) <= IF Issues(s, w, j) THEN request[s].qty ELSE 0
  <2>1. \A x \in Ids : rows[x].status # "Absent" => rows[x].issued <= resv[x].issued
    BY <1>6, <1>7, <1>8 DEF Absent
  <2>2. QED
    BY <1>1, <1>3, <1>7, <2>1, NoneIssued
<1>16. \A x \in Ids : rows[x].status # "Absent" =>
         /\ rows[x].item \in held[s] /\ resv[x].status \in ActiveStatuses \union {"Absent"}
         /\ rows[x].status # "Issued"
  BY <1>2, <1>6, <1>7, <1>8 DEF Absent
<1>17. Effects(s, rows, newItems)
  BY <1>1, <1>2, <1>14, <1>15, <1>16 DEF Effects
<1>18. QED
  BY <1>7, <1>9, <1>10, <1>11, <1>17 DEF Wrote

LEMMA ReleaseReservationWrote ==
  ASSUME ReservationsAssumption, IInv, NEW s \in Sessions, ReleaseReservation(s)
  PROVE  Wrote(s)
<1> DEFINE rq == request[s]
           i == rq.item
           r == rq.id
           new == ReleasedRow(resv[r])
           rows == [NoDraft EXCEPT ![r] = new]
           newItems == Synced(itemRow[s], i, rows)
           status == IF reqs[rq.work][rq.item].quantity > 0 THEN "Required" ELSE "Same"
<1>1. rq.op = "release" /\ Holding(s) /\ TypeOK /\ resv[r].status \in ActiveStatuses
  BY DEF ReleaseReservation, IInv
<1>2. /\ i \in Items /\ held[s] = {i} /\ draft[s] = NoDraft
      /\ itemRow[s] \in [Items -> ItemRow] /\ itemRow[s][i] = items[i] /\ items[i] \in ItemRow
  BY <1>1, HoldsItem DEF OneItem
<1>3. r \in Ids /\ resv[r].item = i /\ WellFormed(rq)
  BY <1>1, BeforeWriting DEF WellFormed
<1>4. resv[r] \in ReservationRow /\ resv[r].issued <= resv[r].quantity
  BY <1>1, <1>3, RowCases DEF TypeOK, ActiveStatuses
<1>5. new \in ReservationRow /\ new.item = i /\ new.issued = resv[r].issued
      /\ new.status = "Released"
  BY <1>3, <1>4, ReleasedRowType DEF ReleasedRow
<1>6. Write(s, rows, newItems, status) /\ status \in Marked
  BY <1>2 DEF ReleaseReservation, Marked
<1> HIDE DEF new
<1>7. rows \in Rows /\ rows[r] = new /\ \A x \in Ids : rows[x].status # "Absent" => x = r
  BY <1>3, <1>5, OneRow
<1>8. View(rows)[r] = new /\ \A x \in Ids \ {r} : View(rows)[x] = resv[x]
  BY <1>3, <1>5, <1>7 DEF View
<1> HIDE DEF rows, status, i, r
<1>9. /\ newItems \in [Items -> ItemRow] /\ newItems[i].current = items[i].current
      /\ newItems[i].reserved = Outstanding(View(rows), i)
  BY <1>2, SyncedItems
<1> HIDE DEF newItems
<1>10. Outstanding(View(rows), i) <= Outstanding(resv, i)
       /\ Outstanding(View(rows), i) \in Nat /\ Outstanding(resv, i) \in Nat
  <2>1. Units(View(rows), i) \subseteq Units(resv, i)
    <3>1. \A u \in Units(View(rows), i) : u[1] # r
      BY <1>5, <1>8 DEF Units, ActiveStatuses
    <3>2. QED
      BY <1>8, <3>1 DEF Units
  <2>2. IsFiniteSet(Units(resv, i))
    BY UnitsCounted, SubsetsFinite
  <2>3. QED
    BY <2>1, <2>2, Without DEF Outstanding
<1>11. ReservedMatchesOutstanding => Balanced(s, rows, i, newItems[i])
  <2> SUFFICES ASSUME ReservedMatchesOutstanding
               PROVE  Balanced(s, rows, i, newItems[i])
    OBVIOUS
  <2>1. items[i].reserved = Outstanding(resv, i)
    BY <1>2 DEF ReservedMatchesOutstanding
  <2>2. items[i].current \in Int
    BY <1>2 DEF ItemRow
  <2>3. QED
    BY <1>9, <1>10, <2>1, <2>2 DEF Balanced
<1>12. \A w \in Works, j \in Items :
         Cardinality(IssuedIn(rows, w, j)) <= IF Issues(s, w, j) THEN request[s].qty ELSE 0
  <2>1. resv[r].issued \in Nat
    BY <1>4, RowCases
  <2>2. \A x \in Ids : rows[x].status # "Absent" => rows[x].issued <= resv[x].issued
    BY <1>5, <1>7, <2>1
  <2>3. QED
    BY <1>1, <1>3, <1>7, <2>2, NoneIssued
<1>13. \A x \in Ids : rows[x].status # "Absent" =>
         /\ rows[x].item \in held[s] /\ resv[x].status \in ActiveStatuses \union {"Absent"}
         /\ rows[x].status # "Issued"
  BY <1>1, <1>2, <1>5, <1>7
<1>14. Effects(s, rows, newItems)
  BY <1>1, <1>2, <1>11, <1>12, <1>13 DEF Effects
<1>15. QED
  BY <1>6, <1>7, <1>9, <1>14 DEF Wrote

\* A request that issues from reservations.
LEMMA DrawWrote ==
  ASSUME ReservationsAssumption, IInv, NEW s \in Sessions, Holding(s),
         request[s].op \in {"issue", "consume"}, WorkFree(s, request[s].work),
         NEW rows \in Rows, NEW take \in [Ids -> Nat], NEW status \in Marked,
         \A x \in Ids : take[x] = 0 => rows[x] = Absent,
         \A x \in Ids : take[x] > 0 =>
           /\ Own(resv[x], request[s].work, request[s].item)
           /\ take[x] <= resv[x].quantity - resv[x].issued
           /\ rows[x] = IssuedRow(resv[x], take[x]),
         Cardinality(TakenUnits(take)) <= request[s].qty,
         Write(s, rows, Synced(Taken(itemRow[s], request[s].item, request[s].qty),
                               request[s].item, rows), status),
         \/ items[request[s].item].current < items[request[s].item].reserved
         \/ items[request[s].item].current - request[s].qty
              >= items[request[s].item].reserved - Cardinality(TakenUnits(take))
  PROVE  Wrote(s)
<1> DEFINE i == request[s].item
           q == request[s].qty
           shelf == Taken(itemRow[s], i, q)
           newItems == Synced(shelf, i, rows)
           n == Cardinality(TakenUnits(take))
<1>1. /\ TypeOK /\ WellFormed(request[s])
      /\ i \in Items /\ held[s] = {i} /\ itemRow[s] \in [Items -> ItemRow]
      /\ itemRow[s][i] = items[i] /\ items[i] \in ItemRow
  BY HoldsItem, BeforeWriting DEF OneItem, IInv
<1>2. q \in Nat
  BY <1>1 DEF WellFormed, Counted, Quantities, ReservationsAssumption
<1>3. shelf \in [Items -> ItemRow] /\ shelf[i].current = items[i].current - q
  BY <1>1, <1>2, TakenItems
<1> HIDE DEF shelf
<1>4. /\ newItems \in [Items -> ItemRow] /\ newItems[i].current = items[i].current - q
      /\ newItems[i].reserved = Outstanding(View(rows), i)
  BY <1>1, <1>3, SyncedItems
<1>5. \A x \in Ids : take[x] > 0 =>
        /\ rows[x].work = request[s].work /\ rows[x].item = i
        /\ rows[x].issued = resv[x].issued + take[x]
        /\ rows[x].status # "Absent"
        /\ resv[x].status \in ActiveStatuses /\ resv[x].item = i
  <2> SUFFICES ASSUME NEW x \in Ids, take[x] > 0
               PROVE  /\ rows[x].work = request[s].work /\ rows[x].item = i
                      /\ rows[x].issued = resv[x].issued + take[x]
                      /\ rows[x].status # "Absent"
                      /\ resv[x].status \in ActiveStatuses /\ resv[x].item = i
    OBVIOUS
  <2> DEFINE old == resv[x]
             k == take[x]
             new == rows[x]
  <2>1. new = IssuedRow(old, k)
    OBVIOUS
  <2>2. Own(old, request[s].work, i)
    OBVIOUS
  <2> HIDE DEF old, k, new
  <2>3. /\ new.work = old.work /\ new.item = old.item
        /\ new.issued = old.issued + k
        /\ new.status # "Absent"
    BY <2>1 DEF IssuedRow
  <2>4. QED
    BY <2>2, <2>3 DEF old, k, new, Own
<1>6. \A x \in Ids : rows[x].status # "Absent" => take[x] > 0
  <2>1. \A x \in Ids : take[x] \in Nat
    OBVIOUS
  <2>2. QED
    BY <2>1 DEF Absent
<1>7. Draws(View(rows), take)
  <2>1. \A x \in Ids : take[x] = 0 => View(rows)[x] = resv[x]
    BY DEF View, Absent
  <2>2. \A x \in Ids : take[x] > 0 => View(rows)[x] = rows[x]
    BY <1>5 DEF View
  <2>3. QED
    BY <1>5, <2>1, <2>2 DEF Draws
<1>8. Outstanding(View(rows), i) = Outstanding(resv, i) - n
  <2> DEFINE T == View(rows)
  <2>1. Draws(T, take)
    BY <1>7
  <2>2. \A x \in Ids : take[x] > 0 => resv[x].item = i
    BY <1>5
  <2> HIDE DEF T, i
  <2>3. Outstanding(T, i) = Outstanding(resv, i) - Cardinality(TakenUnits(take))
    BY <1>1, <2>1, <2>2, DrawnUnits
  <2>4. QED
    BY <2>3 DEF T
<1>9. n \in Nat
  <2>1. TakenUnits(take) \in SUBSET (Ids \X Quantities)
    BY DEF TakenUnits
  <2>2. QED
    BY <2>1, SubsetsFinite
<1>10. \A w \in Works, j \in Items :
         Cardinality(IssuedIn(rows, w, j)) <= IF Issues(s, w, j) THEN request[s].qty ELSE 0
  <2>1. \A r \in Ids : rows[r].status # "Absent" =>
           /\ rows[r].issued = resv[r].issued + take[r]
           /\ rows[r].work = request[s].work /\ rows[r].item = request[s].item
    BY <1>5, <1>6
  <2>2. QED
    BY <1>1, <1>2, <2>1, DrawsIssued
<1>11. \A x \in Ids : rows[x].status # "Absent" =>
         /\ rows[x].item \in held[s] /\ resv[x].status \in ActiveStatuses \union {"Absent"}
         /\ rows[x].work = request[s].work
  BY <1>1, <1>5, <1>6
<1>12. \/ items[i].current < items[i].reserved
       \/ items[i].current - q >= items[i].reserved - n
  OBVIOUS
<1>13. Write(s, rows, newItems, status)
  BY DEF shelf
<1> HIDE DEF newItems, n, q
<1>14. ReservedMatchesOutstanding => Balanced(s, rows, i, newItems[i])
  <2> SUFFICES ASSUME ReservedMatchesOutstanding
               PROVE  Balanced(s, rows, i, newItems[i])
    OBVIOUS
  <2>1. items[i].reserved = Outstanding(resv, i)
    BY <1>1 DEF ReservedMatchesOutstanding
  <2>2. newItems[i].reserved = items[i].reserved - n
    BY <1>4, <1>8, <2>1
  <2>3. QED
    BY <1>1, <1>4, <1>12, <2>2 DEF Balanced, ItemRow
<1>15. Effects(s, rows, newItems)
  BY <1>1, <1>10, <1>11, <1>14 DEF Effects
<1>16. QED
  BY <1>4, <1>13, <1>15 DEF Wrote

LEMMA IssueReservationWrote ==
  ASSUME ReservationsAssumption, IInv, NEW s \in Sessions, IssueReservation(s)
  PROVE  Wrote(s)
<1> DEFINE rq == request[s]
           i == rq.item
           q == rq.qty
           r == rq.id
           new == IssuedRow(resv[r], q)
           rows == [NoDraft EXCEPT ![r] = new]
           take == [x \in Ids |-> IF x = r THEN q ELSE 0]
           status == IssueMark(rq.work, i, q)
<1>1. /\ rq.op = "issue" /\ Holding(s) /\ TypeOK /\ resv[r].status \in ActiveStatuses
      /\ q <= resv[r].quantity - resv[r].issued /\ WorkFree(s, rq.work)
      /\ itemRow[s][i].current >= q
  BY DEF IssueReservation, IInv
<1>2. /\ i \in Items /\ draft[s] = NoDraft
      /\ itemRow[s] \in [Items -> ItemRow] /\ itemRow[s][i] = items[i] /\ items[i] \in ItemRow
  BY <1>1, HoldsItem DEF OneItem
<1>3. r \in Ids /\ resv[r].item = i /\ resv[r].work = rq.work /\ q \in Quantities
  BY <1>1, BeforeWriting DEF WellFormed, Counted
<1>4. q \in Nat /\ q > 0
  BY <1>3 DEF Quantities, ReservationsAssumption
<1>5. resv[r] \in ReservationRow
  BY <1>1, <1>3, RowCases DEF TypeOK, ActiveStatuses
<1>6. new \in ReservationRow
  BY <1>1, <1>4, <1>5, IssuedRowType
<1>7. Write(s, rows, Synced(Taken(itemRow[s], i, q), i, rows), status) /\ status \in Marked
  BY <1>2, MarksType DEF IssueReservation
<1> HIDE DEF new
<1>8. rows \in Rows /\ rows[r] = new
  BY <1>3, <1>6, OneRow
<1>9. \A x \in Ids \ {r} : rows[x] = Absent
  BY DEF NoDraft
<1>10. take \in [Ids -> Nat] /\ take[r] = q /\ \A x \in Ids \ {r} : take[x] = 0
  BY <1>3, <1>4
<1>11. Cardinality(TakenUnits(take)) = q
  BY <1>1, <1>3, <1>4, OneTaken DEF ActiveStatuses
<1> HIDE DEF take, rows, status
<1>12. \A x \in Ids : take[x] = 0 => rows[x] = Absent
  BY <1>4, <1>9, <1>10
<1>13. \A x \in Ids : take[x] > 0 =>
           /\ Own(resv[x], rq.work, i)
           /\ take[x] <= resv[x].quantity - resv[x].issued
           /\ rows[x] = IssuedRow(resv[x], take[x])
  BY <1>1, <1>3, <1>8, <1>10 DEF Own, new
<1>14. \/ items[i].current < items[i].reserved
       \/ items[i].current - q >= items[i].reserved - Cardinality(TakenUnits(take))
  BY <1>2, <1>4, <1>11 DEF ItemRow
<1>15. Cardinality(TakenUnits(take)) <= q
  BY <1>4, <1>11
<1>16. QED
  BY <1>1, <1>7, <1>8, <1>10, <1>12, <1>13, <1>14, <1>15, DrawWrote

LEMMA IssueMaterialWrote ==
  ASSUME ReservationsAssumption, IInv, NEW s \in Sessions, IssueMaterial(s)
  PROVE  Wrote(s)
<1> DEFINE rq == request[s]
           i == rq.item
           q == rq.qty
           rows == TakenRows(s)
           take == [r \in Ids |-> TakenFrom(rq.work, i, q, r)]
           own == OwnOutstanding(resv, rq.work, i)
           status == IssueMark(rq.work, i, q)
<1>1. /\ rq.op = "consume" /\ Holding(s) /\ TypeOK /\ WorkFree(s, rq.work)
      /\ own + AtLeast0(itemRow[s][i].current - itemRow[s][i].reserved) >= q
      /\ Write(s, rows, Synced(Taken(itemRow[s], i, q), i, rows), status)
  BY DEF IssueMaterial, IInv, TakenRows
<1>2. /\ i \in Items
      /\ itemRow[s] \in [Items -> ItemRow] /\ itemRow[s][i] = items[i] /\ items[i] \in ItemRow
  BY <1>1, HoldsItem DEF OneItem
<1>3. q \in Quantities
  BY <1>1, BeforeWriting DEF WellFormed, Counted
<1>4. q \in Nat
  BY <1>3 DEF Quantities, ReservationsAssumption
<1>5. rows \in Rows
  BY <1>1, <1>4, TakenRowsType
<1>6. /\ take \in [Ids -> Nat]
      /\ Cardinality(TakenUnits(take)) = IF q < own THEN q ELSE own
  BY <1>1, <1>4, AllTaken
<1>7. own \in Nat
  BY UnitsCounted
<1>8. \A x \in Ids : take[x] = TakenFrom(rq.work, i, q, x)
  OBVIOUS
<1>9. \A x \in Ids : rows[x] = IF take[x] > 0 THEN IssuedRow(resv[x], take[x]) ELSE Absent
  BY <1>8 DEF TakenRows
<1>10. \A x \in Ids : take[x] > 0 =>
           /\ Own(resv[x], rq.work, i)
           /\ take[x] <= resv[x].quantity - resv[x].issued
  BY <1>1, <1>4, <1>8, TakenType
<1>11. status \in Marked
  BY MarksType
<1> HIDE DEF take, rows, status, own
<1>12. Cardinality(TakenUnits(take)) <= q
  BY <1>4, <1>6, <1>7
<1>13. \/ items[i].current < items[i].reserved
       \/ items[i].current - q >= items[i].reserved - Cardinality(TakenUnits(take))
  BY <1>1, <1>2, <1>4, <1>6, <1>7 DEF ItemRow, AtLeast0
<1>14. /\ \A x \in Ids : take[x] = 0 => rows[x] = Absent
       /\ \A x \in Ids : take[x] > 0 => rows[x] = IssuedRow(resv[x], take[x])
  BY <1>9
<1>15. QED
  BY <1>1, <1>5, <1>6, <1>10, <1>11, <1>12, <1>13, <1>14, DrawWrote

LEMMA ReserveAllWrote ==
  ASSUME ReservationsAssumption, IInv, NEW s \in Sessions, ReserveAll(s)
  PROVE  Wrote(s)
<1> DEFINE w == request[s].work
           created == Securable(s)
           rows == CreatedRows(s)
           newItems == [i \in Items |->
                          IF i \in created
                            THEN [current |-> itemRow[s][i].current,
                                  reserved |-> itemRow[s][i].reserved + Need(s, i)]
                            ELSE itemRow[s][i]]
<1>1. /\ request[s].op = "reserveAll" /\ Holding(s) /\ TypeOK /\ SessionInv(s)
      /\ Cardinality(created) <= Cardinality(FreshIds)
      /\ Write(s, rows, newItems, "Same")
  BY DEF ReserveAll, IInv, CreatedRows
<1>2. /\ WellFormed(request[s]) /\ w \in Works /\ itemRow[s] \in [Items -> ItemRow]
      /\ held[s] \subseteq Items /\ held[s] = Wanted(s)
      /\ \A i \in held[s] : itemRow[s][i] = items[i]
      /\ \A i \in Items : seen[s][i] \in 0..MaxQty
      /\ phase[s] = "locking"
  BY <1>1, BeforeWriting DEF WellFormed, SessionInv, Progress, Holding, Kinds
<1>3. /\ created \subseteq held[s]
      /\ \A i \in created : /\ Need(s, i) \in Quantities
                            /\ AtLeast0(itemRow[s][i].current - itemRow[s][i].reserved)
                                 >= Need(s, i)
  BY <1>1, <1>2, NeedType DEF Securable
<1>4. \A i \in Items : Need(s, i) \in Nat
  BY <1>1, <1>2, NeedType
<1>5. /\ \A r \in Ids : rows[r] = Absent
            \/ /\ resv[r] = Absent
               /\ \E i \in created : rows[r] = NewRow(w, i, Need(s, i))
      /\ \A i \in created : \E r \in Ids :
            /\ resv[r] = Absent /\ rows[r] = NewRow(w, i, Need(s, i))
            /\ \A x \in Ids \ {r} : rows[x] = Absent \/ (rows[x].item # i /\ resv[x] = Absent)
  BY <1>1, OneRowPerItem
<1>6. \A r \in Ids : rows[r].status # "Absent" =>
        /\ resv[r] = Absent /\ rows[r] \in ReservationRow
        /\ rows[r].item \in created /\ rows[r].issued = 0 /\ rows[r].status = "Reserved"
  <2> SUFFICES ASSUME NEW r \in Ids, rows[r].status # "Absent"
               PROVE  /\ resv[r] = Absent /\ rows[r] \in ReservationRow
                      /\ rows[r].item \in created /\ rows[r].issued = 0
                      /\ rows[r].status = "Reserved"
    OBVIOUS
  <2>1. resv[r] = Absent /\ \E i \in created : rows[r] = NewRow(w, i, Need(s, i))
    BY <1>5 DEF Absent
  <2>2. PICK i \in created : rows[r] = NewRow(w, i, Need(s, i))
    BY <2>1
  <2>3. i \in Items /\ Need(s, i) \in Quantities
    BY <1>2, <1>3
  <2> DEFINE q == Need(s, i)
  <2> HIDE DEF q, rows, w, created
  <2>4. NewRow(w, i, q) \in ReservationRow
    BY <1>2, <2>3, NewRowType DEF q
  <2>5. /\ NewRow(w, i, q).item = i /\ NewRow(w, i, q).issued = 0
        /\ NewRow(w, i, q).status = "Reserved"
    BY NewRowFields
  <2>6. QED
    BY <2>1, <2>2, <2>4, <2>5 DEF q
<1>7. rows \in Rows
  <2>1. rows = [r \in Ids |-> rows[r]]
    BY DEF CreatedRows
  <2> HIDE DEF rows
  <2>2. ASSUME NEW r \in Ids PROVE rows[r] \in ReservationRow \union {Absent}
    <3>1. CASE rows[r] = Absent
      BY <3>1
    <3>2. CASE rows[r].status # "Absent"
      BY <1>6, <3>2
    <3>3. CASE \E i \in created : rows[r] = NewRow(w, i, Need(s, i))
      <4>1. rows[r].status = "Reserved"
        BY <3>3, NewRowFields
      <4>2. QED
        BY <3>2, <4>1
    <3>4. QED
      BY <1>5, <3>1, <3>3
  <2>3. QED
    BY <2>1, <2>2 DEF Rows
<1>8. newItems \in [Items -> ItemRow]
  BY <1>2, <1>4 DEF ItemRow
<1>9. \A i \in Items :
        /\ i \in created => newItems[i].current = itemRow[s][i].current
                            /\ newItems[i].reserved = itemRow[s][i].reserved + Need(s, i)
        /\ i \notin created => newItems[i] = itemRow[s][i]
  OBVIOUS
<1> HIDE DEF rows, newItems, w, created
<1>10. ASSUME NEW i \in created
       PROVE  /\ Outstanding(View(rows), i) = Outstanding(resv, i) + Need(s, i)
              /\ OwnOutstanding(View(rows), w, i) = OwnOutstanding(resv, w, i) + Need(s, i)
  <2> DEFINE T == View(rows)
             q == Need(s, i)
  <2>1. PICK r \in Ids :
          /\ resv[r] = Absent /\ rows[r] = NewRow(w, i, q)
          /\ \A x \in Ids \ {r} : rows[x] = Absent \/ (rows[x].item # i /\ resv[x] = Absent)
    BY <1>5
  <2>2. NewRow(w, i, q).status # "Absent"
    BY NewRowFields
  <2>3. T[r] = NewRow(w, i, q)
    BY <2>1, <2>2 DEF View
  <2>4. \A x \in Ids \ {r} : T[x] = resv[x] \/ (T[x].item # i /\ resv[x] = Absent)
    BY <2>1 DEF View, Absent
  <2>5. q \in Quantities /\ i \in Items
    BY <1>2, <1>3
  <2> HIDE DEF T, q
  <2>6. /\ Outstanding(T, i) = Outstanding(resv, i) + q
        /\ OwnOutstanding(T, w, i) = OwnOutstanding(resv, w, i) + q
    BY <1>2, <2>1, <2>3, <2>4, <2>5, AddUnits
  <2>7. QED
    BY <2>6 DEF T, q
<1>11. ASSUME NEW i \in Items, i \notin created
       PROVE  Outstanding(View(rows), i) = Outstanding(resv, i)
  <2> DEFINE T == View(rows)
  <2>1. \A x \in Ids : T[x] = resv[x] \/ (T[x].item # i /\ resv[x] = Absent)
    BY <1>6, <1>11 DEF View
  <2>2. Absent.status \notin ActiveStatuses
    BY DEF Absent, ActiveStatuses
  <2> HIDE DEF T
  <2>3. Units(T, i) = Units(resv, i)
    BY <2>1, <2>2, SameUnits
  <2>4. QED
    BY <2>3 DEF T, Outstanding
<1>12. \A i \in Items :
         \/ \A r \in Ids : rows[r].status # "Absent" => rows[r].item # i
         \/ OwnOutstanding(View(rows), w, i) + used[w][i] = seen[s][i]
  <2> SUFFICES ASSUME NEW i \in Items, i \in created
               PROVE  OwnOutstanding(View(rows), w, i) + used[w][i] = seen[s][i]
    BY <1>6
  <2> DEFINE own == OwnOutstanding(resv, w, i)
  <2>1. own \in Nat /\ used[w][i] \in Nat /\ seen[s][i] \in Int
    BY <1>1, <1>2, UnitsCounted DEF TypeOK
  <2>2. Need(s, i) = AtLeast0(seen[s][i] - used[w][i] - own)
    BY DEF Need, w
  <2>3. Need(s, i) \in Nat /\ Need(s, i) > 0
    BY <1>3 DEF Quantities, ReservationsAssumption
  <2>4. OwnOutstanding(View(rows), w, i) = own + Need(s, i)
    BY <1>10
  <2> HIDE DEF own
  <2>5. QED
    BY <2>1, <2>2, <2>3, <2>4 DEF AtLeast0
<1>13. ReservedMatchesOutstanding => \A i \in held[s] : Balanced(s, rows, i, newItems[i])
  <2> SUFFICES ASSUME ReservedMatchesOutstanding, NEW i \in held[s]
               PROVE  Balanced(s, rows, i, newItems[i])
    OBVIOUS
  <2>1. i \in Items /\ itemRow[s][i] = items[i] /\ items[i].reserved = Outstanding(resv, i)
        /\ items[i].current \in Int /\ items[i].reserved \in Nat
    BY <1>1, <1>2 DEF ReservedMatchesOutstanding, TypeOK, ItemRow
  <2>2. CASE i \in created
    <3>1. newItems[i].current = items[i].current
          /\ newItems[i].reserved = items[i].reserved + Need(s, i)
      BY <1>9, <2>1, <2>2
    <3>2. Need(s, i) \in Nat /\ Need(s, i) > 0
      BY <1>3, <2>2 DEF Quantities, ReservationsAssumption
    <3>3. AtLeast0(items[i].current - items[i].reserved) >= Need(s, i)
      BY <1>3, <2>1, <2>2
    <3>4. newItems[i].current >= newItems[i].reserved
      BY <2>1, <3>1, <3>2, <3>3 DEF AtLeast0
    <3>5. newItems[i].reserved = Outstanding(View(rows), i)
      BY <1>10, <2>1, <2>2, <3>1
    <3>6. QED
      BY <3>4, <3>5 DEF Balanced
  <2>3. CASE i \notin created
    <3>1. newItems[i] = items[i]
      BY <1>9, <2>1, <2>3
    <3>2. Outstanding(View(rows), i) = items[i].reserved
      BY <1>11, <2>1, <2>3
    <3>3. QED
      BY <2>1, <3>1, <3>2 DEF Balanced
  <2>4. QED
    BY <2>2, <2>3
<1>14. \A v \in Works, j \in Items :
         Cardinality(IssuedIn(rows, v, j)) <= IF Issues(s, v, j) THEN request[s].qty ELSE 0
  <2>1. \A x \in Ids : rows[x].status # "Absent" => rows[x].issued <= resv[x].issued
    BY <1>6 DEF Absent
  <2>2. QED
    BY <1>1, <1>2, <1>7, <2>1, NoneIssued
<1>15. \A x \in Ids : rows[x].status # "Absent" =>
         /\ rows[x].item \in held[s] /\ resv[x].status \in ActiveStatuses \union {"Absent"}
         /\ rows[x].status # "Issued"
  BY <1>3, <1>6 DEF Absent
<1>16. Effects(s, rows, newItems)
  BY <1>1, <1>12, <1>13, <1>14, <1>15 DEF Effects, w
<1>17. QED
  BY <1>1, <1>7, <1>8, <1>16 DEF Wrote, Marked

LEMMA WriteStepWrote ==
  ASSUME ReservationsAssumption, IInv, NEW s \in Sessions, WriteStep(s)
  PROVE  Wrote(s) /\ Holding(s)
<1>1. Wrote(s)
  BY ReserveMaterialWrote, ReserveAllWrote, ReleaseReservationWrote, IssueReservationWrote,
     IssueMaterialWrote, IssueStockWrote, ReceiveStockWrote, AdjustStockWrote,
     TransferStockWrote DEF WriteStep
<1>2. Holding(s)
  BY DEF WriteStep, ReserveMaterial, ReserveAll, ReleaseReservation, IssueReservation,
         IssueMaterial, IssueStock, ReceiveStock, AdjustStock, TransferStock
<1>3. QED
  BY <1>1, <1>2

-----------------------------------------------------------------------------
\* The inductive invariant of the reservations

\* A drafted row belongs to an item its session has locked, or waits for.
RowsLocked(s) ==
  \A r \in Ids : Drafted(s, r) =>
    \/ draft[s][r].item \in held[s]
    \/ phase[s] = "syncing" /\ sum[s].item = draft[s][r].item

\* One transaction at a time settles or issues on a work order.
WorksLocked ==
  \A s, t \in Sessions, w \in Works : LocksWork(s, w) /\ LocksWork(t, w) => s = t

\* Only what is active is written again, and only an issue settles a row as
\* Issued; a cancellation lists rows that nobody can issue before it is done.
Unsettled(s) ==
  /\ \A r \in Ids : Drafted(s, r) =>
       /\ \/ resv[r].status \in ActiveStatuses \union {"Absent"}
          \/ draft[s][r] = resv[r]
       /\ draft[s][r].status = "Issued" =>
            /\ phase[s] = "written" /\ request[s].op \in {"issue", "consume"}
            /\ draft[s][r].work = request[s].work
  /\ phase[s] \in {"settling", "syncing"} =>
       /\ request[s].op = "cancel"
       /\ \A r \in open[s] : resv[r].work = request[s].work /\ resv[r].status # "Issued"

\* What it has drafted as issued is part of what it will record as material.
Recorded(s) ==
  \A w \in Works, i \in Items :
    Cardinality(IssuedIn(draft[s], w, i))
      <= IF phase[s] = "written" /\ Issues(s, w, i) THEN request[s].qty ELSE 0

\* What a reserve-all is about to secure is what the plan misses.
PlanFilled(s) ==
  phase[s] = "written" /\ request[s].op = "reserveAll" =>
    \A i \in Items :
      \/ \A r \in Ids : Drafted(s, r) => draft[s][r].item # i
      \/ OwnOutstanding(View(draft[s]), request[s].work, i) + used[request[s].work][i]
           = seen[s][i]

Settles(s) == RowsLocked(s) /\ Unsettled(s) /\ Recorded(s) /\ PlanFilled(s)

StockInv == IssuesAreConsumption /\ WorksLocked /\ \A s \in Sessions : Settles(s)

-----------------------------------------------------------------------------
\* It is inductive: steps that leave the committed tables alone

LEMMA SettlesUndisturbed ==
  ASSUME NEW t \in Sessions, Settles(t), UNCHANGED <<resv, used>>,
         request'[t] = request[t], phase'[t] = phase[t], held'[t] = held[t],
         seen'[t] = seen[t], draft'[t] = draft[t], open'[t] = open[t], sum'[t] = sum[t]
  PROVE  Settles(t)'
<1>1. RowsLocked(t)' /\ Unsettled(t)'
  BY DEF Settles, RowsLocked, Unsettled, Drafted
<1>2. Recorded(t)'
  BY DEF Settles, Recorded, IssuedIn, Issues
<1>3. PlanFilled(t)'
  <2> SUFFICES ASSUME phase[t] = "written", request[t].op = "reserveAll", NEW i \in Items,
                      NEW r \in Ids, Drafted(t, r), draft[t][r].item = i
               PROVE  OwnOutstanding(View(draft[t]), request[t].work, i)'
                        + used[request[t].work][i] = seen[t][i]
    BY DEF PlanFilled, Drafted
  <2>1. OwnOutstanding(View(draft[t]), request[t].work, i)'
          = OwnOutstanding(View(draft[t]), request[t].work, i)
    BY DEF OwnOutstanding, UnitsOf, Units, View
  <2>2. QED
    BY <2>1 DEF Settles, PlanFilled
<1>4. QED
  BY <1>1, <1>2, <1>3 DEF Settles

\* A session that has drafted nothing.
LEMMA NothingDrafted ==
  ASSUME ReservationsAssumption, NEW s \in Sessions, \A r \in Ids : ~Drafted(s, r)',
         phase'[s] \in {"idle", "locking"}
  PROVE  Settles(s)'
<1>1. RowsLocked(s)' /\ Unsettled(s)' /\ PlanFilled(s)'
  BY DEF RowsLocked, Unsettled, PlanFilled
<1>2. ASSUME NEW w \in Works, NEW i \in Items
      PROVE  Cardinality(IssuedIn(draft[s], w, i)') = 0
  <2>1. IssuedIn(draft[s], w, i)' = {}
    BY DEF IssuedIn, Drafted
  <2>2. QED
    BY <2>1, FS_EmptySet
<1>3. Recorded(s)'
  BY <1>2 DEF Recorded
<1>4. QED
  BY <1>1, <1>3 DEF Settles

LEMMA LocksKept ==
  ASSUME WorksLocked, NEW s \in Sessions, OnlyMoves(s),
         \A w \in Works : LocksWork(s, w)' => WorkFree(s, w)
  PROVE  WorksLocked'
<1>1. \A t \in Sessions \ {s}, w \in Works : LocksWork(t, w)' <=> LocksWork(t, w)
  BY DEF OnlyMoves, LocksWork
<1>2. QED
  BY <1>1 DEF WorksLocked, WorkFree

LEMMA LocksOfItsOwn ==
  ASSUME WorksLocked, NEW s \in Sessions, NEW w \in Works, LocksWork(s, w)
  PROVE  WorkFree(s, w)
BY DEF WorksLocked, WorkFree

LEMMA StockStepHolds ==
  ASSUME StockInv, NEW s \in Sessions, UNCHANGED <<resv, used>>, OnlyMoves(s), Settles(s)',
         \A w \in Works : LocksWork(s, w)' => WorkFree(s, w)
  PROVE  StockInv'
<1>1. WorksLocked'
  BY LocksKept DEF StockInv
<1>2. IssuesAreConsumption'
  BY DEF StockInv, IssuesAreConsumption
<1>3. ASSUME NEW t \in Sessions, t # s
      PROVE  Settles(t)'
  BY <1>3, SettlesUndisturbed DEF StockInv, OnlyMoves
<1>4. QED
  BY <1>1, <1>2, <1>3 DEF StockInv

LEMMA SubmitSettles ==
  ASSUME ReservationsAssumption, IInv, StockInv, NEW s \in Sessions, NEW rq \in Requests,
         Submit(s, rq)
  PROVE  StockInv'
<1>1. /\ TypeOK /\ phase[s] = "idle" /\ request' = [request EXCEPT ![s] = rq]
      /\ phase' = [phase EXCEPT ![s] = "locking"] /\ seen' = [seen EXCEPT ![s] = PreRead(rq)]
      /\ UNCHANGED <<items, resv, reqs, used, ledger, cancelled, held, itemRow, draft, mark,
                     open, sum>>
  BY DEF Submit, IInv, tables
<1>2. OnlyMoves(s) /\ phase'[s] = "locking" /\ request'[s] = rq
  BY <1>1 DEF OnlyMoves, TypeOK
<1>3. \A r \in Ids : ~Drafted(s, r)'
  BY <1>1 DEF IInv, SessionInv, Progress, Drafted
<1>4. rq.op # "cancel"
  BY <1>1, RequestsAsked DEF WellFormed, IInv
<1>5. \A w \in Works : ~LocksWork(s, w)'
  BY <1>2, <1>4 DEF LocksWork
<1>6. QED
  BY <1>1, <1>2, <1>3, <1>5, NothingDrafted, StockStepHolds

LEMMA LockSettles ==
  ASSUME ReservationsAssumption, IInv, StockInv, NEW s \in Sessions, NEW i \in Items,
         Lock(s, i)
  PROVE  StockInv'
<1>1. /\ TypeOK /\ phase[s] = "locking"
      /\ held' = [held EXCEPT ![s] = @ \union {i}]
      /\ itemRow' = [itemRow EXCEPT ![s][i] = items[i]]
      /\ UNCHANGED <<resv, used, request, phase, seen, draft, open, sum>>
  BY DEF Lock, IInv, tables
<1>2. OnlyMoves(s)
  BY <1>1 DEF OnlyMoves, TypeOK
<1>3. \A r \in Ids : ~Drafted(s, r)'
  BY <1>1 DEF IInv, SessionInv, Progress, Drafted
<1>4. \A w \in Works : LocksWork(s, w)' => LocksWork(s, w)
  BY <1>1 DEF LocksWork
<1>5. QED
  BY <1>1, <1>2, <1>3, <1>4, NothingDrafted, LocksOfItsOwn, StockStepHolds DEF StockInv

LEMMA RollbackSettles ==
  ASSUME ReservationsAssumption, IInv, StockInv, NEW s \in Sessions, Rollback(s)
  PROVE  StockInv'
<1>1. TypeOK /\ EndSession(s) /\ UNCHANGED <<resv, used>>
  BY DEF Rollback, IInv, tables
<1>2. OnlyMoves(s) /\ phase'[s] = "idle" /\ \A r \in Ids : ~Drafted(s, r)'
  BY <1>1, EndSessionType
<1>3. \A w \in Works : ~LocksWork(s, w)'
  BY <1>1 DEF EndSession, TypeOK, NoRequest, LocksWork
<1>4. QED
  BY <1>1, <1>2, <1>3, NothingDrafted, StockStepHolds

LEMMA WriteSettles ==
  ASSUME ReservationsAssumption, IInv, StockInv, NEW s \in Sessions, WriteStep(s)
  PROVE  StockInv'
<1>1. PICK rows \in Rows, newItems \in [Items -> ItemRow], status \in Marked :
        Write(s, rows, newItems, status) /\ Effects(s, rows, newItems)
  BY WriteStepWrote DEF Wrote
<1>2. TypeOK /\ phase[s] = "locking"
  BY WriteStepWrote DEF IInv, Holding
<1>3. /\ draft' = [draft EXCEPT ![s] = rows] /\ itemRow' = [itemRow EXCEPT ![s] = newItems]
      /\ phase' = [phase EXCEPT ![s] = "written"]
      /\ UNCHANGED <<resv, used, request, held, seen, open, sum>>
  BY <1>1 DEF Write, tables
<1>4. OnlyMoves(s) /\ draft'[s] = rows /\ phase'[s] = "written" /\ held'[s] = held[s]
  BY <1>2, <1>3 DEF OnlyMoves, TypeOK
<1>5. RowsLocked(s)'
  BY <1>1, <1>4 DEF RowsLocked, Drafted, Effects
<1>6. Unsettled(s)'
  BY <1>1, <1>3, <1>4 DEF Unsettled, Drafted, Effects
<1>7. Recorded(s)'
  <2>1. ASSUME NEW w \in Works, NEW i \in Items
        PROVE  IssuedIn(draft[s], w, i)' = IssuedIn(rows, w, i)
    BY <1>3, <1>4 DEF IssuedIn
  <2>2. \A w \in Works, i \in Items : Issues(s, w, i)' <=> Issues(s, w, i)
    BY <1>3 DEF Issues
  <2>3. QED
    BY <1>1, <1>3, <1>4, <2>1, <2>2 DEF Recorded, Effects
<1>8. PlanFilled(s)'
  <2>1. \A i : OwnOutstanding(View(draft[s]), request[s].work, i)'
          = OwnOutstanding(View(rows), request[s].work, i)
    BY <1>3, <1>4 DEF OwnOutstanding, UnitsOf, Units, View
  <2>2. QED
    BY <1>1, <1>3, <1>4, <2>1 DEF PlanFilled, Effects, Drafted
<1>9. \A w \in Works : LocksWork(s, w)' => WorkFree(s, w)
  <2>1. SUFFICES ASSUME NEW w \in Works, LocksWork(s, w)'
                 PROVE  WorkFree(s, w)
    OBVIOUS
  <2>2. CASE request[s].op = "cancel"
    BY <1>3, <2>1, <2>2, LocksOfItsOwn DEF LocksWork, StockInv
  <2>3. CASE request[s].op # "cancel"
    BY <1>1, <1>3, <2>1, <2>3 DEF LocksWork, Effects
  <2>4. QED
    BY <2>2, <2>3
<1>10. QED
  BY <1>3, <1>4, <1>5, <1>6, <1>7, <1>8, <1>9, StockStepHolds DEF Settles

-----------------------------------------------------------------------------
\* Steps of a cancellation

LEMMA CancelWorkSettles ==
  ASSUME ReservationsAssumption, IInv, StockInv, NEW s \in Sessions, NEW w \in Works,
         CancelWork(s, w)
  PROVE  StockInv'
<1> DEFINE listed == {r \in Ids : resv[r].work = w /\ resv[r].status \in ActiveStatuses}
           asked == [NoRequest EXCEPT !.op = "cancel", !.work = w]
<1>1. /\ TypeOK /\ phase[s] = "idle" /\ WorkFree(s, w)
      /\ request' = [request EXCEPT ![s] = asked] /\ phase' = [phase EXCEPT ![s] = "settling"]
      /\ open' = [open EXCEPT ![s] = listed]
      /\ UNCHANGED <<resv, used, held, seen, itemRow, draft, sum>>
  BY DEF CancelWork, tables, IInv
<1>2. asked.op = "cancel" /\ asked.work = w
  BY DEF NoRequest
<1>3. ASSUME NEW r \in listed
      PROVE  resv[r].work = w /\ resv[r].status # "Issued"
  <2>1. resv[r].work = w /\ resv[r].status \in ActiveStatuses
    OBVIOUS
  <2>2. QED
    BY <2>1 DEF ActiveStatuses
<1> HIDE DEF listed, asked
<1>4. /\ OnlyMoves(s) /\ phase'[s] = "settling" /\ request'[s] = asked /\ open'[s] = listed
  BY <1>1 DEF OnlyMoves, TypeOK
<1>5. \A r \in Ids : ~Drafted(s, r)'
  BY <1>1 DEF IInv, SessionInv, Progress, Drafted
<1>6. RowsLocked(s)' /\ PlanFilled(s)'
  BY <1>4, <1>5 DEF RowsLocked, PlanFilled
<1>7. Unsettled(s)'
  BY <1>1, <1>2, <1>3, <1>4, <1>5 DEF Unsettled
<1>8. Recorded(s)'
  <2>1. ASSUME NEW x \in Works, NEW i \in Items
        PROVE  IssuedIn(draft[s], x, i)' = {}
    BY <1>5 DEF IssuedIn, Drafted
  <2>2. Cardinality({}) = 0
    BY FS_EmptySet
  <2>3. QED
    BY <1>4, <2>1, <2>2 DEF Recorded
<1>9. \A x \in Works : LocksWork(s, x)' => WorkFree(s, x)
  BY <1>1, <1>2, <1>4 DEF LocksWork
<1>10. QED
  BY <1>1, <1>4, <1>6, <1>7, <1>8, <1>9, StockStepHolds DEF Settles

LEMMA ReleasedAgain ==
  ASSUME NEW row \in ReservationRow, row.status = "Released"
  PROVE  ReleasedRow(row) = row
BY DEF ReleasedRow, ReservationRow

LEMMA ReleasedRowFields ==
  ASSUME NEW row
  PROVE  /\ ReleasedRow(row).work = row.work /\ ReleasedRow(row).item = row.item
         /\ ReleasedRow(row).issued = row.issued /\ ReleasedRow(row).status = "Released"
BY DEF ReleasedRow

LEMMA CancelReleaseSettles ==
  ASSUME ReservationsAssumption, IInv, StockInv, NEW s \in Sessions, NEW r \in Ids,
         CancelRelease(s, r)
  PROVE  StockInv'
<1> DEFINE d == [draft[s] EXCEPT ![r] = ReleasedRow(resv[r])]
           total == Outstanding(View(d), resv[r].item)
           counted == [item |-> resv[r].item, value |-> total]
<1>1. /\ TypeOK /\ Settles(s) /\ phase[s] = "settling" /\ r \in open[s]
      /\ draft' = [draft EXCEPT ![s] = d] /\ open' = [open EXCEPT ![s] = @ \ {r}]
      /\ sum' = [sum EXCEPT ![s] = counted] /\ phase' = [phase EXCEPT ![s] = "syncing"]
      /\ UNCHANGED <<resv, used, request, held, seen, itemRow>>
  BY DEF CancelRelease, tables, IInv, StockInv
<1>2. resv[r] \in ReservationRow
  BY <1>1, RowCases DEF IInv, SessionInv, Progress, TypeOK
<1>3. /\ d[r] = ReleasedRow(resv[r]) /\ d[r].status = "Released"
      /\ d[r].item = resv[r].item /\ d[r].issued = resv[r].issued
      /\ \A x \in Ids \ {r} : d[x] = draft[s][x]
  BY <1>1, ReleasedRowFields DEF TypeOK
<1>4. counted.item = resv[r].item
  OBVIOUS
<1> HIDE DEF d, counted
<1>5. /\ OnlyMoves(s) /\ phase'[s] = "syncing" /\ draft'[s] = d /\ sum'[s] = counted
      /\ open'[s] = open[s] \ {r} /\ held'[s] = held[s] /\ request'[s] = request[s]
  BY <1>1 DEF OnlyMoves, TypeOK
<1>6. \A x \in Ids \ {r} : Drafted(s, x)' <=> Drafted(s, x)
  BY <1>3, <1>5 DEF Drafted
<1>7. RowsLocked(s)'
  BY <1>1, <1>3, <1>4, <1>5, <1>6 DEF Settles, RowsLocked
<1>8. Unsettled(s)'
  <2>1. resv[r].status \in ActiveStatuses \/ d[r] = resv[r]
    <3>1. resv[r].status # "Issued"
      BY <1>1 DEF Settles, Unsettled
    <3>2. resv[r].status \in ActiveStatuses \/ resv[r].status = "Released"
      BY <1>2, <3>1 DEF ReservationRow
    <3>3. QED
      BY <1>2, <1>3, <3>2, ReleasedAgain
  <2>2. \A x \in Ids \ {r} : Drafted(s, x) => draft[s][x].status # "Issued"
    BY <1>1 DEF Settles, Unsettled
  <2>3. QED
    BY <1>1, <1>3, <1>5, <1>6, <2>1, <2>2 DEF Settles, Unsettled
<1>9. Recorded(s)'
  <2> SUFFICES ASSUME NEW w \in Works, NEW i \in Items
               PROVE  Cardinality(IssuedIn(d, w, i)) = 0
    <3>1. \A w, i : IssuedIn(draft[s], w, i)' = IssuedIn(d, w, i)
      BY <1>1, <1>5 DEF IssuedIn
    <3>2. QED
      BY <1>5, <3>1 DEF Recorded
  <2> DEFINE S == IssuedIn(draft[s], w, i)
             N == IssuedIn(d, w, i)
  <2>1. \A u \in N : u[1] # r
    <3> SUFFICES ASSUME NEW u \in N, u[1] = r
                 PROVE  FALSE
      OBVIOUS
    <3>1. resv[r].issued < u[2] /\ u[2] <= resv[r].issued
      BY <1>3 DEF IssuedIn
    <3>2. u[2] \in Int /\ resv[r].issued \in Int
      BY <1>2 DEF IssuedIn, Quantities, ReservationRow, ReservationsAssumption
    <3>3. QED
      BY <3>1, <3>2
  <2>2. N \subseteq S
    BY <1>3, <2>1 DEF IssuedIn
  <2>3. S \in SUBSET (Ids \X Quantities)
    BY DEF IssuedIn
  <2>4. Cardinality(S) <= 0
    BY <1>1 DEF Settles, Recorded
  <2> HIDE DEF S, N
  <2>5. Cardinality(N) \in Nat /\ Cardinality(S) \in Nat /\ Cardinality(N) <= Cardinality(S)
    BY <2>2, <2>3, SubsetsFinite, FS_Subset
  <2>6. QED
    BY <2>4, <2>5 DEF N
<1>10. PlanFilled(s)'
  BY <1>5 DEF PlanFilled
<1>11. \A w \in Works : LocksWork(s, w)' => WorkFree(s, w)
  <2>1. \A w \in Works : LocksWork(s, w)' => LocksWork(s, w)
    BY <1>1, <1>5 DEF LocksWork
  <2>2. QED
    BY <2>1, LocksOfItsOwn DEF StockInv
<1>12. QED
  BY <1>1, <1>5, <1>7, <1>8, <1>9, <1>10, <1>11, StockStepHolds DEF Settles

LEMMA CancelSyncSettles ==
  ASSUME ReservationsAssumption, IInv, StockInv, NEW s \in Sessions, CancelSync(s)
  PROVE  StockInv'
<1>1. /\ TypeOK /\ Settles(s) /\ phase[s] = "syncing"
      /\ held' = [held EXCEPT ![s] = @ \union {sum[s].item}]
      /\ sum' = [sum EXCEPT ![s] = NoSum] /\ phase' = [phase EXCEPT ![s] = "settling"]
      /\ UNCHANGED <<resv, used, request, seen, draft, open>>
  BY DEF CancelSync, tables, IInv, StockInv
<1>2. /\ OnlyMoves(s)
      /\ phase'[s] = "settling" /\ held'[s] = held[s] \union {sum[s].item}
  BY <1>1 DEF OnlyMoves, TypeOK, CancelSync
<1>3. RowsLocked(s)'
  BY <1>1, <1>2 DEF Settles, RowsLocked, Drafted
<1>4. Unsettled(s)'
  BY <1>1, <1>2 DEF Settles, Unsettled, Drafted
<1>5. Recorded(s)'
  BY <1>1, <1>2 DEF Settles, Recorded, IssuedIn
<1>6. PlanFilled(s)'
  BY <1>2 DEF PlanFilled
<1>7. \A w \in Works : LocksWork(s, w)' => WorkFree(s, w)
  <2>1. \A w \in Works : LocksWork(s, w)' => LocksWork(s, w)
    BY <1>1, <1>2 DEF LocksWork
  <2>2. QED
    BY <2>1, LocksOfItsOwn DEF StockInv
<1>8. QED
  BY <1>1, <1>2, <1>3, <1>4, <1>5, <1>6, <1>7, StockStepHolds DEF Settles

-----------------------------------------------------------------------------
\* Commits

LEMMA ActiveIsPresent == "Absent" \notin ActiveStatuses
BY DEF ActiveStatuses

LEMMA SettledIsNotActive ==
  /\ "Issued" \notin ActiveStatuses \union {"Absent"}
  /\ "Released" \notin ActiveStatuses \union {"Absent"}
BY DEF ActiveStatuses

\* A commit leaves the reservations of the items it did not lock.
LEMMA CommitElsewhere ==
  ASSUME ReservationsAssumption, IInv, StockInv, NEW s \in Sessions, Committing(s),
         phase[s] \in {"written", "settling"}, NEW i \in Items, i \notin held[s]
  PROVE  \A x \in Ids : \/ resv'[x] = resv[x]
                        \/ /\ ~(resv'[x].status \in ActiveStatuses /\ resv'[x].item = i)
                           /\ ~(resv[x].status \in ActiveStatuses /\ resv[x].item = i)
<1> SUFFICES ASSUME NEW x \in Ids, Drafted(s, x)
             PROVE  /\ resv'[x].item # i
                    /\ ~(resv[x].status \in ActiveStatuses /\ resv[x].item = i)
  BY CommittedTables
<1>1. draft[s][x].item \in held[s] /\ resv'[x] = draft[s][x]
  BY CommittedTables DEF StockInv, Settles, RowsLocked
<1>2. resv[x].status # "Absent" => resv'[x].item = resv[x].item
  BY CommittedTables
<1>3. QED
  BY <1>1, <1>2, ActiveIsPresent

\* The table after the step, as a session sees it that has drafted the rows d.
ViewAfter(d) == [r \in Ids |-> IF d[r].status # "Absent" THEN d[r] ELSE resv'[r]]

\* Nor does it change what another session counts of an item it holds.
LEMMA CountsUndisturbed ==
  ASSUME ReservationsAssumption, IInv, StockInv, NEW s \in Sessions, Committing(s),
         phase[s] \in {"written", "settling"}, NEW t \in Sessions \ {s}, NEW i \in held[t]
  PROVE  /\ Outstanding(ViewAfter(draft[t]), i) = Outstanding(View(draft[t]), i)
         /\ \A w : OwnOutstanding(ViewAfter(draft[t]), w, i)
                   = OwnOutstanding(View(draft[t]), w, i)
<1> DEFINE T == ViewAfter(draft[t])
           U == View(draft[t])
<1>1. i \in Items /\ i \notin held[s]
  BY DEF IInv, TypeOK, Locked
<1>2. \A x \in Ids : \/ T[x] = U[x]
                     \/ /\ ~(T[x].status \in ActiveStatuses /\ T[x].item = i)
                        /\ ~(U[x].status \in ActiveStatuses /\ U[x].item = i)
  BY <1>1, CommitElsewhere DEF View, ViewAfter
<1> HIDE DEF T, U
<1>3. Units(T, i) = Units(U, i) /\ \A w : UnitsOf(T, w, i) = UnitsOf(U, w, i)
  BY <1>2, SameUnits
<1>4. QED
  BY <1>3 DEF Outstanding, OwnOutstanding, T, U

\* What is on record as issued from the reservations of a work order.
IssuedFrom(w, i) ==
  {u \in Ids \X Quantities :
     /\ resv[u[1]].work = w /\ resv[u[1]].item = i
     /\ u[2] <= resv[u[1]].issued}

LEMMA ConsumptionHolds ==
  ASSUME ReservationsAssumption, IInv, StockInv, NEW s \in Sessions, Committing(s),
         \A w \in Works, i \in Items :
           used'[w][i] = used[w][i] + (IF phase[s] = "written" /\ Issues(s, w, i)
                                         THEN request[s].qty ELSE 0),
         \A w \in Works, i \in Items :
           phase[s] = "written" /\ Issues(s, w, i) => request[s].qty \in Nat
  PROVE  IssuesAreConsumption'
<1> SUFFICES ASSUME NEW w \in Works, NEW i \in Items
             PROVE  Cardinality(IssuedFrom(w, i)') <= used'[w][i]
  BY DEF IssuesAreConsumption, IssuedFrom
<1> DEFINE new == IF phase[s] = "written" /\ Issues(s, w, i) THEN request[s].qty ELSE 0
           O == IssuedFrom(w, i)
           D == IssuedIn(draft[s], w, i)
           N == IssuedFrom(w, i)'
<1>1. N \subseteq O \union D
  <2> SUFFICES ASSUME NEW u \in N
               PROVE  u \in O \/ u \in D
    OBVIOUS
  <2>1. /\ u \in Ids \X Quantities /\ u[1] \in Ids /\ u[2] \in Nat /\ u[2] >= 1
        /\ resv'[u[1]].work = w /\ resv'[u[1]].item = i /\ u[2] <= resv'[u[1]].issued
    BY DEF IssuedFrom, Quantities, ReservationsAssumption
  <2>2. CASE ~Drafted(s, u[1])
    <3>1. resv'[u[1]] = resv[u[1]]
      BY <2>1, <2>2, CommittedTables
    <3>2. QED
      BY <2>1, <3>1 DEF IssuedFrom
  <2>3. CASE Drafted(s, u[1])
    <3>1. resv'[u[1]] = draft[s][u[1]]
      BY <2>1, <2>3, CommittedTables
    <3>2. resv[u[1]] \in ReservationRow \union {Absent} /\ resv[u[1]].issued \in Nat
      BY <2>1, RowCases DEF IInv, TypeOK
    <3>3. CASE resv[u[1]].issued < u[2]
      BY <2>1, <2>3, <3>1, <3>3 DEF IssuedIn, Drafted
    <3>4. CASE u[2] <= resv[u[1]].issued
      <4>1. resv[u[1]] # Absent
        BY <2>1, <3>4 DEF Absent
      <4>2. resv[u[1]].status # "Absent"
        BY <3>2, <4>1, RowCases
      <4>3. resv[u[1]].work = w /\ resv[u[1]].item = i
        BY <2>1, <4>2, CommittedTables
      <4>4. QED
        BY <2>1, <3>4, <4>3 DEF IssuedFrom
    <3>5. QED
      BY <2>1, <3>2, <3>3, <3>4
  <2>4. QED
    BY <2>2, <2>3
<1>2. O \in SUBSET (Ids \X Quantities) /\ D \in SUBSET (Ids \X Quantities)
  BY DEF IssuedFrom, IssuedIn
<1>3. Cardinality(O) <= used[w][i] /\ Cardinality(D) <= new
  BY DEF StockInv, IssuesAreConsumption, IssuedFrom, Settles, Recorded
<1>4. used'[w][i] = used[w][i] + new /\ used[w][i] \in Nat /\ new \in Nat
  BY DEF IInv, TypeOK
<1> HIDE DEF O, D, N, new
<1>5. /\ IsFiniteSet(O) /\ IsFiniteSet(D) /\ Cardinality(O) \in Nat /\ Cardinality(D) \in Nat
      /\ IsFiniteSet(O \union D)
      /\ Cardinality(O \union D) = Cardinality(O) + Cardinality(D) - Cardinality(O \intersect D)
      /\ Cardinality(O \intersect D) \in Nat
  <2>1. O \intersect D \in SUBSET (Ids \X Quantities)
    BY <1>2
  <2>2. QED
    BY <1>2, <2>1, SubsetsFinite, FS_Union
<1>6. Cardinality(N) \in Nat /\ Cardinality(N) <= Cardinality(O \union D)
  <2>1. IsFiniteSet(N) /\ Cardinality(N) <= Cardinality(O \union D)
    BY <1>1, <1>5, FS_Subset
  <2>2. QED
    BY <2>1, FS_CardinalityType
<1>7. QED
  BY <1>3, <1>4, <1>5, <1>6 DEF N

LEMMA CommittingSettles ==
  ASSUME ReservationsAssumption, IInv, StockInv, NEW s \in Sessions, Committing(s),
         EndSession(s), phase[s] \in {"written", "settling"}, IssuesAreConsumption',
         \A w \in Works, i \in Items : i \notin held[s] => used'[w][i] = used[w][i]
  PROVE  StockInv'
<1>1. TypeOK /\ Locked
  BY DEF IInv
<1>2. /\ OnlyMoves(s) /\ phase'[s] = "idle" /\ \A r \in Ids : ~Drafted(s, r)'
  BY <1>1, EndSessionType
<1>3. \A w \in Works : ~LocksWork(s, w)'
  BY <1>1 DEF EndSession, TypeOK, NoRequest, LocksWork
<1>4. WorksLocked'
  BY <1>2, <1>3, LocksKept DEF StockInv
<1>5. Settles(s)'
  BY <1>2, NothingDrafted
<1>6. ASSUME NEW t \in Sessions, t # s
      PROVE  Settles(t)'
  <2>1. /\ request'[t] = request[t] /\ phase'[t] = phase[t] /\ held'[t] = held[t]
        /\ seen'[t] = seen[t] /\ draft'[t] = draft[t]
        /\ open'[t] = open[t] /\ sum'[t] = sum[t]
    BY <1>2, <1>6 DEF OnlyMoves
  <2>2. Settles(t) /\ Settles(s) /\ SessionInv(t)
    BY DEF StockInv, IInv
  <2>3. \A r \in Ids : /\ Drafted(t, r)' <=> Drafted(t, r)
                       /\ Drafted(t, r) => resv'[r] = resv[r]
    <3>1. \A r \in Ids : Drafted(t, r) => ~Drafted(s, r)
      BY <1>1, <1>6 DEF Locked
    <3>2. QED
      BY <2>1, <3>1, CommittedTables DEF Drafted
  <2>4. RowsLocked(t)'
    BY <2>1, <2>2, <2>3 DEF Settles, RowsLocked
  <2>5. Unsettled(t)'
    <3>1. ASSUME phase[t] \in {"settling", "syncing"}, NEW r \in open[t]
          PROVE  resv'[r].work = request[t].work /\ resv'[r].status # "Issued"
      <4>1. /\ r \in Ids /\ resv[r].status # "Absent" /\ request[t].work \in Works
            /\ resv[r].work = request[t].work /\ resv[r].status # "Issued"
            /\ request[t].op = "cancel"
        BY <1>1, <2>2, <3>1 DEF SessionInv, Progress, Settles, Unsettled, TypeOK
      <4>2. resv'[r].work = request[t].work
        BY <4>1, CommittedTables
      <4>3. CASE ~Drafted(s, r)
        BY <4>1, <4>2, <4>3, CommittedTables
      <4>4. CASE Drafted(s, r)
        <5>1. resv'[r] = draft[s][r]
          BY <4>1, <4>4, CommittedTables
        <5>2. ASSUME draft[s][r].status = "Issued"
              PROVE  FALSE
          <6>1. /\ phase[s] = "written" /\ request[s].op \in {"issue", "consume"}
                /\ request[s].work = request[t].work
            BY <2>2, <4>1, <4>2, <4>4, <5>1, <5>2 DEF Settles, Unsettled
          <6>2. LocksWork(s, request[t].work) /\ LocksWork(t, request[t].work)
            BY <4>1, <6>1 DEF LocksWork
          <6>3. QED
            BY <1>6, <4>1, <6>2 DEF StockInv, WorksLocked
        <5>3. QED
          BY <4>2, <5>1, <5>2
      <4>5. QED
        BY <4>3, <4>4
    <3>2. QED
      BY <2>1, <2>2, <2>3, <3>1 DEF Settles, Unsettled
  <2>6. Recorded(t)'
    <3>1. ASSUME NEW w \in Works, NEW i \in Items
          PROVE  IssuedIn(draft[t], w, i)' = IssuedIn(draft[t], w, i)
      BY <2>1, <2>3 DEF IssuedIn, Drafted
    <3>2. \A w \in Works, i \in Items : Issues(t, w, i)' <=> Issues(t, w, i)
      BY <2>1 DEF Issues
    <3>3. QED
      BY <2>1, <2>2, <3>1, <3>2 DEF Settles, Recorded
  <2>7. PlanFilled(t)'
    <3> SUFFICES ASSUME phase[t] = "written", request[t].op = "reserveAll", NEW i \in Items,
                        NEW r \in Ids, Drafted(t, r), draft[t][r].item = i
                 PROVE  OwnOutstanding(View(draft[t]), request[t].work, i)'
                          + used'[request[t].work][i] = seen[t][i]
      BY <2>1, <2>3 DEF PlanFilled
    <3>1. i \in held[t] /\ i \notin held[s] /\ request[t].work \in Works
      BY <1>1, <1>6, <2>2 DEF Settles, RowsLocked, Locked, SessionInv, Progress, WellFormed
    <3>2. OwnOutstanding(View(draft[t]), request[t].work, i)
            + used[request[t].work][i] = seen[t][i]
      BY <2>2 DEF Settles, PlanFilled
    <3>3. OwnOutstanding(View(draft[t]), request[t].work, i)'
            = OwnOutstanding(View(draft[t]), request[t].work, i)
      <4>1. OwnOutstanding(ViewAfter(draft[t]), request[t].work, i)
              = OwnOutstanding(View(draft[t]), request[t].work, i)
        BY <1>6, <3>1, CountsUndisturbed
      <4>2. OwnOutstanding(View(draft[t]), request[t].work, i)'
              = OwnOutstanding(ViewAfter(draft[t]), request[t].work, i)
        BY <2>1 DEF OwnOutstanding, UnitsOf, Units, View, ViewAfter
      <4>3. QED
        BY <4>1, <4>2
    <3>4. QED
      BY <3>1, <3>2, <3>3
  <2>8. QED
    BY <2>4, <2>5, <2>6, <2>7 DEF Settles
<1>7. QED
  BY <1>4, <1>5, <1>6 DEF StockInv

LEMMA CommitSettles ==
  ASSUME ReservationsAssumption, IInv, StockInv, NEW s \in Sessions, Commit(s)
  PROVE  StockInv'
<1>1. TypeOK /\ phase[s] = "written" /\ Committing(s) /\ EndSession(s)
  BY DEF Commit, IInv, Committing
<1>2. WellFormed(request[s]) /\ Wanted(s) \subseteq held[s]
  BY <1>1 DEF IInv, SessionInv, Progress
<1>3. \A w \in Works, i \in Items :
        used'[w][i] = used[w][i] + (IF Issues(s, w, i) THEN request[s].qty ELSE 0)
  BY DEF Commit
<1>4. \A w \in Works, i \in Items : Issues(s, w, i) => request[s].qty \in Nat /\ i \in held[s]
  BY <1>2 DEF Issues, WellFormed, Counted, Quantities, ReservationsAssumption, Wanted
<1>5. IssuesAreConsumption'
  BY <1>1, <1>3, <1>4, ConsumptionHolds
<1>6. \A w \in Works, i \in Items : i \notin held[s] => used'[w][i] = used[w][i]
  BY <1>1, <1>3, <1>4 DEF TypeOK
<1>7. QED
  BY <1>1, <1>5, <1>6, CommittingSettles

LEMMA CancelCommitSettles ==
  ASSUME ReservationsAssumption, IInv, StockInv, NEW s \in Sessions, CancelCommit(s)
  PROVE  StockInv'
<1>1. TypeOK /\ phase[s] = "settling" /\ Committing(s) /\ EndSession(s) /\ used' = used
  BY DEF CancelCommit, IInv, Committing
<1>2. \A w \in Works, i \in Items :
        used'[w][i] = used[w][i] + (IF phase[s] = "written" /\ Issues(s, w, i)
                                      THEN request[s].qty ELSE 0)
  BY <1>1 DEF TypeOK
<1>3. IssuesAreConsumption'
  BY <1>1, <1>2, ConsumptionHolds
<1>4. QED
  BY <1>1, <1>3, CommittingSettles

-----------------------------------------------------------------------------
\* The theorems

LEMMA StockUnchanged ==
  ASSUME StockInv, UNCHANGED <<resv, used, request, phase, held, seen, draft, open, sum>>
  PROVE  StockInv'
<1>1. IssuesAreConsumption' /\ WorksLocked'
  BY DEF StockInv, IssuesAreConsumption, WorksLocked, LocksWork
<1>2. \A t \in Sessions : Settles(t)'
  BY SettlesUndisturbed DEF StockInv
<1>3. QED
  BY <1>1, <1>2 DEF StockInv

LEMMA StockInit ==
  ASSUME ReservationsAssumption, Init
  PROVE  StockInv
<1>1. \A r \in Ids : NoDraft[r].status = "Absent" /\ NoDraft[r].issued = 0
  BY DEF NoDraft, Absent
<1>2. \A s \in Sessions, r \in Ids : ~Drafted(s, r)
  BY <1>1 DEF Init, Drafted
<1>3. \A s \in Sessions : phase[s] = "idle" /\ request[s].op = "none"
  BY DEF Init, NoRequest
<1>4. WorksLocked
  BY <1>3 DEF WorksLocked, LocksWork
<1>5. IssuesAreConsumption
  <2> SUFFICES ASSUME NEW w \in Works, NEW i \in Items
               PROVE  Cardinality(IssuedFrom(w, i)) <= used[w][i]
    BY DEF IssuesAreConsumption, IssuedFrom
  <2>1. \A u \in Ids \X Quantities : ~(u[2] <= resv[u[1]].issued)
    BY <1>1 DEF Init, Quantities, ReservationsAssumption
  <2>2. IssuedFrom(w, i) = {}
    BY <2>1 DEF IssuedFrom
  <2>3. used[w][i] = 0
    BY DEF Init, Nothing
  <2>4. QED
    BY <2>2, <2>3, FS_EmptySet
<1>6. ASSUME NEW s \in Sessions
      PROVE  Settles(s)
  <2>1. RowsLocked(s) /\ Unsettled(s) /\ PlanFilled(s)
    BY <1>2, <1>3 DEF RowsLocked, Unsettled, PlanFilled
  <2>2. \A w, i : IssuedIn(draft[s], w, i) = {}
    BY <1>2 DEF IssuedIn, Drafted
  <2>3. Cardinality({}) = 0
    BY FS_EmptySet
  <2>4. \A w, i : Cardinality(IssuedIn(draft[s], w, i)) = 0
    BY <2>2, <2>3
  <2>5. phase[s] # "written"
    BY <1>3
  <2>6. Recorded(s)
    BY <2>4, <2>5 DEF Recorded
  <2>7. QED
    BY <2>1, <2>6 DEF Settles
<1>7. QED
  BY <1>4, <1>5, <1>6 DEF StockInv

LEMMA StockNext ==
  ASSUME ReservationsAssumption, IInv, StockInv, [Next]_vars
  PROVE  StockInv'
<1>1. ASSUME NEW s \in Sessions, NEW rq \in Requests, Submit(s, rq)
      PROVE  StockInv'
  BY <1>1, SubmitSettles
<1>2. ASSUME NEW s \in Sessions, NEW i \in Items, Lock(s, i)
      PROVE  StockInv'
  BY <1>2, LockSettles
<1>3. ASSUME NEW s \in Sessions, WriteStep(s)
      PROVE  StockInv'
  BY <1>3, WriteSettles
<1>4. ASSUME NEW s \in Sessions, Commit(s)
      PROVE  StockInv'
  BY <1>4, CommitSettles
<1>5. ASSUME NEW s \in Sessions, CancelStep(s)
      PROVE  StockInv'
  BY <1>5, CancelWorkSettles, CancelReleaseSettles, CancelSyncSettles, CancelCommitSettles
  DEF CancelStep
<1>6. ASSUME NEW s \in Sessions, Rollback(s)
      PROVE  StockInv'
  BY <1>6, RollbackSettles
<1>7. ASSUME NEW w \in Works, NEW i \in Items,
             (\E q \in Quantities : PlanMaterial(w, i, q)) \/ RemovePlan(w, i)
      PROVE  StockInv'
  BY <1>7, StockUnchanged DEF PlanMaterial, RemovePlan, sessionVars
<1>8. CASE UNCHANGED vars
  BY <1>8, StockUnchanged DEF vars
<1>9. QED
  BY <1>1, <1>2, <1>3, <1>4, <1>5, <1>6, <1>7, <1>8 DEF Next

(* Drafted rows are covered by item locks, one transaction at a time issues *)
(* or settles on a work order, and what it writes is what it will record.   *)
THEOREM StockInvariant == Spec => [](IInv /\ StockInv)
<1>1. Init => IInv /\ StockInv
  BY ReservationsAssumption, InitHolds, StockInit
<1>2. IInv /\ StockInv /\ [Next]_vars => (IInv /\ StockInv)'
  BY ReservationsAssumption, NextHolds, StockNext
<1>3. QED
  BY <1>1, <1>2, PTL DEF Spec

(* Every unit issued from a reservation is recorded as material of its own  *)
(* work order, with any number of sessions issuing and cancelling.          *)
THEOREM IssuesAreConsumptionHolds == Spec => []IssuesAreConsumption
<1>1. StockInv => IssuesAreConsumption
  BY DEF StockInv
<1>2. QED
  BY <1>1, StockInvariant, PTL

\* The sessions that commit: a request that has written, or a cancellation.
LEMMA WhoCommits ==
  ASSUME NEW s \in Sessions, Commit(s) \/ CancelCommit(s)
  PROVE  phase[s] \in {"written", "settling"}
BY DEF Commit, CancelCommit

(* A reservation settles once: what is Issued or Released is never issued,  *)
(* released or reopened again, whichever transactions raced for it.         *)
THEOREM SettledOnceHolds == Spec => SettledOnce
<1> DEFINE Final == \A r \in Ids : resv[r].status \in {"Issued", "Released"} => resv'[r] = resv[r]
<1>1. ASSUME IInv, StockInv, Next
      PROVE  Final
  <2>1. CASE UNCHANGED <<items, resv, used>>
    BY <2>1
  <2>2. ASSUME NEW s \in Sessions, Committing(s)
        PROVE  Final
    <3> SUFFICES ASSUME NEW r \in Ids, resv[r].status \in {"Issued", "Released"}, Drafted(s, r)
                 PROVE  resv'[r] = resv[r]
      BY <1>1, <2>2, ReservationsAssumption, CommittedTables
    <3>1. resv[r].status \notin ActiveStatuses \union {"Absent"}
      BY SettledIsNotActive
    <3>2. draft[s][r] = resv[r]
      BY <1>1, <3>1 DEF StockInv, Settles, Unsettled
    <3>3. QED
      BY <1>1, <2>2, <3>2, ReservationsAssumption, CommittedTables
  <2>3. QED
    BY <1>1, <2>1, <2>2, OnlyCommitsWrite
<1>2. IInv /\ StockInv /\ [Next]_vars => [Final]_vars
  BY <1>1
<1>3. Spec => [][Final]_vars
  BY <1>2, StockInvariant, PTL DEF Spec
<1>4. QED
  BY <1>3 DEF SettledOnce

(* Reserve-all secures what the plan it read still misses and no more, even *)
(* when two planners press the button for the same work order at once.      *)
THEOREM ReserveAllFillsThePlanHolds == Spec => ReserveAllFillsThePlan
<1> DEFINE Fills ==
      \A s \in Sessions :
        (request[s].op = "reserveAll" /\ phase[s] = "written" /\ phase'[s] = "idle") =>
          \A i \in Items :
            OwnOutstanding(resv', request[s].work, i) > OwnOutstanding(resv, request[s].work, i)
              => OwnOutstanding(resv', request[s].work, i) + used[request[s].work][i]
                   = seen[s][i]
<1>1. ASSUME IInv, StockInv, Next
      PROVE  Fills
  <2> SUFFICES ASSUME NEW s \in Sessions, request[s].op = "reserveAll",
                      phase[s] = "written", phase'[s] = "idle", NEW i \in Items
               PROVE  \/ OwnOutstanding(resv', request[s].work, i)
                           = OwnOutstanding(resv, request[s].work, i)
                      \/ OwnOutstanding(resv', request[s].work, i) + used[request[s].work][i]
                           = seen[s][i]
    <3>1. \A w, i : OwnOutstanding(resv', w, i) \in Nat /\ OwnOutstanding(resv, w, i) \in Nat
      BY ReservationsAssumption, UnitsCounted
    <3>2. QED
      BY <3>1
  <2>1. CASE UNCHANGED <<items, resv, used>>
    BY <2>1
  <2>2. ASSUME NEW t \in Sessions, Committing(t), EndSession(t)
        PROVE  t = s
    <3>1. OnlyMoves(t)
      BY <1>1, <2>2, ReservationsAssumption, EndSessionType DEF IInv
    <3>2. QED
      BY <3>1 DEF OnlyMoves
  <2>3. CASE Committing(s)
    <3>1. CASE OwnOutstanding(View(draft[s]), request[s].work, i)
                 + used[request[s].work][i] = seen[s][i]
      BY <2>3, <3>1 DEF Committing
    <3>2. CASE \A r \in Ids : Drafted(s, r) => draft[s][r].item # i
      <4>1. ASSUME NEW r \in Ids
            PROVE  \/ resv'[r] = resv[r]
                   \/ /\ ~(resv'[r].status \in ActiveStatuses /\ resv'[r].item = i)
                      /\ ~(resv[r].status \in ActiveStatuses /\ resv[r].item = i)
        <5> SUFFICES ASSUME Drafted(s, r)
                     PROVE  /\ resv'[r].item # i
                            /\ ~(resv[r].status \in ActiveStatuses /\ resv[r].item = i)
          BY <1>1, <2>3, ReservationsAssumption, CommittedTables
        <5>1. resv'[r].item # i
          BY <1>1, <2>3, <3>2, ReservationsAssumption, CommittedTables
        <5>2. resv[r].status # "Absent" => resv'[r].item = resv[r].item
          BY <1>1, <2>3, ReservationsAssumption, CommittedTables
        <5>3. QED
          BY <5>1, <5>2, ActiveIsPresent
      <4>2. \A w : UnitsOf(resv', w, i) = UnitsOf(resv, w, i)
        BY <4>1, SameUnits
      <4>3. QED
        BY <4>2 DEF OwnOutstanding
    <3>3. QED
      BY <1>1, <3>1, <3>2 DEF StockInv, Settles, PlanFilled
  <2>4. QED
    BY <1>1, <2>1, <2>2, <2>3, OnlyCommitsWrite
<1>2. IInv /\ StockInv /\ [Next]_vars => [Fills]_vars
  BY <1>1
<1>3. Spec => [][Fills]_vars
  BY <1>2, StockInvariant, PTL DEF Spec
<1>4. QED
  BY <1>3 DEF ReserveAllFillsThePlan

-----------------------------------------------------------------------------
\* While no work order is cancelled

(* A cancellation sums the reserved stock before it waits for the item, so  *)
(* the books agree only while none runs: Reservations promises the rest of  *)
(* this module to the requests of reservation_store and inventory_store.    *)

\* What a session has written agrees with itself.
Summed(s) ==
  /\ phase[s] \in {"idle", "locking", "written"}
  /\ phase[s] = "written" => \A i \in held[s] : Balanced(s, draft[s], i, itemRow[s][i])

BooksInv == ReservedMatchesOutstanding /\ \A s \in Sessions : Summed(s)

LEMMA SummedUndisturbed ==
  ASSUME NEW t \in Sessions, Summed(t), UNCHANGED <<items, resv>>, request'[t] = request[t],
         phase'[t] = phase[t], held'[t] = held[t], itemRow'[t] = itemRow[t],
         draft'[t] = draft[t]
  PROVE  Summed(t)'
BY DEF Summed, Balanced, Outstanding, Units, View

LEMMA BooksStepHolds ==
  ASSUME BooksInv, NEW s \in Sessions, UNCHANGED <<items, resv>>, OnlyMoves(s), Summed(s)'
  PROVE  BooksInv'
<1>1. ReservedMatchesOutstanding'
  BY DEF BooksInv, ReservedMatchesOutstanding, Outstanding, Units
<1>2. ASSUME NEW t \in Sessions, t # s
      PROVE  Summed(t)'
  BY <1>2, SummedUndisturbed DEF BooksInv, OnlyMoves
<1>3. QED
  BY <1>1, <1>2 DEF BooksInv

LEMMA BooksUnchanged ==
  ASSUME BooksInv, UNCHANGED <<items, resv, request, phase, held, itemRow, draft>>
  PROVE  BooksInv'
<1>1. ReservedMatchesOutstanding'
  BY DEF BooksInv, ReservedMatchesOutstanding, Outstanding, Units
<1>2. \A t \in Sessions : Summed(t)'
  BY SummedUndisturbed DEF BooksInv
<1>3. QED
  BY <1>1, <1>2 DEF BooksInv

LEMMA WriteBalances ==
  ASSUME ReservationsAssumption, IInv, BooksInv, NEW s \in Sessions, WriteStep(s)
  PROVE  BooksInv'
<1>1. PICK rows \in Rows, newItems \in [Items -> ItemRow], status \in Marked :
        Write(s, rows, newItems, status) /\ Effects(s, rows, newItems)
  BY WriteStepWrote DEF Wrote
<1>2. TypeOK
  BY DEF IInv
<1>3. /\ draft' = [draft EXCEPT ![s] = rows] /\ itemRow' = [itemRow EXCEPT ![s] = newItems]
      /\ phase' = [phase EXCEPT ![s] = "written"]
      /\ UNCHANGED <<items, resv, request, held, seen, open, sum>>
  BY <1>1 DEF Write, tables
<1>4. /\ OnlyMoves(s) /\ draft'[s] = rows /\ itemRow'[s] = newItems
      /\ phase'[s] = "written" /\ held'[s] = held[s]
  BY <1>2, <1>3 DEF OnlyMoves, TypeOK
<1>5. \A i \in held[s] : Balanced(s, rows, i, newItems[i])
  BY <1>1 DEF Effects, BooksInv
<1>6. ASSUME NEW i \in held[s]
      PROVE  Balanced(s, draft[s], i, itemRow[s][i])'
  <2>1. Outstanding(View(draft[s]), i)' = Outstanding(View(rows), i)
    BY <1>3, <1>4 DEF Outstanding, Units, View
  <2>2. QED
    BY <1>3, <1>4, <1>5, <2>1 DEF Balanced
<1>7. Summed(s)'
  BY <1>4, <1>6 DEF Summed
<1>8. QED
  BY <1>3, <1>4, <1>7, BooksStepHolds

LEMMA CommitBalances ==
  ASSUME ReservationsAssumption, IInv, StockInv, BooksInv, NEW s \in Sessions, Commit(s)
  PROVE  BooksInv'
<1>1. /\ TypeOK /\ Locked /\ phase[s] = "written" /\ Committing(s) /\ EndSession(s)
      /\ resv' = View(draft[s])
      /\ \A i \in Items : items'[i] = IF i \in held[s] THEN itemRow[s][i] ELSE items[i]
  BY DEF Commit, IInv, Committing
<1>2. OnlyMoves(s) /\ phase'[s] = "idle"
  BY <1>1, EndSessionType
<1>3. ReservedMatchesOutstanding'
  <2> SUFFICES ASSUME NEW i \in Items
               PROVE  items'[i].reserved = Outstanding(resv', i)
    <3>1. \A i : Outstanding(resv, i)' = Outstanding(resv', i)
      BY DEF Outstanding, Units
    <3>2. QED
      BY <3>1 DEF ReservedMatchesOutstanding
  <2>1. CASE i \in held[s]
    BY <1>1, <2>1 DEF BooksInv, Summed, Balanced
  <2>2. CASE i \notin held[s]
    <3>1. Units(resv', i) = Units(resv, i)
      BY <1>1, <2>2, CommitElsewhere, SameUnits
    <3>2. QED
      BY <1>1, <2>2, <3>1 DEF Outstanding, BooksInv, ReservedMatchesOutstanding
  <2>3. QED
    BY <2>1, <2>2
<1>4. ASSUME NEW t \in Sessions, t # s
      PROVE  Summed(t)'
  <2>1. /\ request'[t] = request[t] /\ phase'[t] = phase[t] /\ held'[t] = held[t]
        /\ itemRow'[t] = itemRow[t] /\ draft'[t] = draft[t]
    BY <1>2, <1>4 DEF OnlyMoves
  <2>2. ASSUME phase[t] = "written", NEW i \in held[t]
        PROVE  Balanced(t, draft[t], i, itemRow[t][i])'
    <3>1. i \in Items /\ i \notin held[s]
      BY <1>1, <1>4 DEF Locked, TypeOK
    <3>2. items'[i] = items[i]
      BY <1>1, <3>1
    <3>3. Outstanding(View(draft[t]), i)' = Outstanding(View(draft[t]), i)
      <4>1. Outstanding(View(draft[t]), i)' = Outstanding(ViewAfter(draft[t]), i)
        BY <2>1 DEF Outstanding, Units, View, ViewAfter
      <4>2. QED
        BY <1>1, <1>4, <4>1, CountsUndisturbed
    <3>4. Balanced(t, draft[t], i, itemRow[t][i])
      BY <2>2 DEF BooksInv, Summed
    <3>5. QED
      BY <2>1, <3>2, <3>3, <3>4 DEF Balanced
  <2>3. QED
    BY <2>1, <2>2 DEF BooksInv, Summed
<1>5. Summed(s)'
  BY <1>2 DEF Summed
<1>6. QED
  BY <1>3, <1>4, <1>5 DEF BooksInv

LEMMA BooksNext ==
  ASSUME ReservationsAssumption, "cancel" \notin Offered, IInv, StockInv, BooksInv,
         [Next]_vars
  PROVE  BooksInv'
<1>1. TypeOK
  BY DEF IInv
<1>2. ASSUME NEW s \in Sessions, NEW rq \in Requests, Submit(s, rq)
      PROVE  BooksInv'
  <2>1. OnlyMoves(s) /\ phase'[s] = "locking"
    BY <1>1, <1>2 DEF Submit, OnlyMoves, TypeOK
  <2>2. QED
    BY <1>2, <2>1, BooksStepHolds DEF Submit, Summed, tables
<1>3. ASSUME NEW s \in Sessions, NEW i \in Items, Lock(s, i)
      PROVE  BooksInv'
  <2>1. OnlyMoves(s) /\ phase'[s] = "locking"
    BY <1>1, <1>3 DEF Lock, OnlyMoves, TypeOK
  <2>2. QED
    BY <1>3, <2>1, BooksStepHolds DEF Lock, Summed, tables
<1>4. ASSUME NEW s \in Sessions, CancelStep(s)
      PROVE  FALSE
  <2>1. phase[s] \notin {"settling", "syncing"}
    BY DEF BooksInv, Summed
  <2>2. \A w \in Works : ~CancelWork(s, w)
    BY DEF CancelWork
  <2>3. \A r \in Ids : ~CancelRelease(s, r)
    BY <2>1 DEF CancelRelease
  <2>4. ~CancelSync(s) /\ ~CancelCommit(s)
    BY <2>1 DEF CancelSync, CancelCommit
  <2>5. QED
    BY <1>4, <2>2, <2>3, <2>4 DEF CancelStep
<1>5. ASSUME NEW s \in Sessions, Rollback(s)
      PROVE  BooksInv'
  <2>1. OnlyMoves(s) /\ phase'[s] = "idle"
    BY <1>1, <1>5, EndSessionType DEF Rollback
  <2>2. QED
    BY <1>5, <2>1, BooksStepHolds DEF Rollback, Summed, tables
<1>6. ASSUME NEW w \in Works, NEW i \in Items,
             (\E q \in Quantities : PlanMaterial(w, i, q)) \/ RemovePlan(w, i)
      PROVE  BooksInv'
  BY <1>6, BooksUnchanged DEF PlanMaterial, RemovePlan, sessionVars
<1>7. CASE UNCHANGED vars
  BY <1>7, BooksUnchanged DEF vars
<1>8. QED
  BY <1>2, <1>3, <1>4, <1>5, <1>6, <1>7, WriteBalances, CommitBalances DEF Next

LEMMA BooksInit ==
  ASSUME ReservationsAssumption, Init
  PROVE  BooksInv
<1>1. \A i \in Items : Units(resv, i) = {}
  <2>1. \A r \in Ids : resv[r].status = "Absent"
    BY DEF Init, NoDraft, Absent
  <2>2. QED
    BY <2>1, ActiveIsPresent DEF Units
<1>2. \A i \in Items : items[i].reserved = 0
  BY DEF Init
<1>3. ReservedMatchesOutstanding
  <2>1. Cardinality({}) = 0
    BY FS_EmptySet
  <2>2. QED
    BY <1>1, <1>2, <2>1 DEF ReservedMatchesOutstanding, Outstanding
<1>4. \A s \in Sessions : Summed(s)
  BY DEF Init, Summed
<1>5. QED
  BY <1>3, <1>4 DEF BooksInv

THEOREM BooksInvariant ==
  ASSUME "cancel" \notin Offered
  PROVE  Spec => [](IInv /\ StockInv /\ BooksInv)
<1>1. Init => IInv /\ StockInv /\ BooksInv
  BY ReservationsAssumption, InitHolds, StockInit, BooksInit
<1>2. IInv /\ StockInv /\ BooksInv /\ [Next]_vars => (IInv /\ StockInv /\ BooksInv)'
  BY ReservationsAssumption, NextHolds, StockNext, BooksNext
<1>3. QED
  BY <1>1, <1>2, PTL DEF Spec

(* reserved_stock of every item is the sum of what its active reservations  *)
(* still hold, in every committed state, with any number of sessions        *)
(* reserving, releasing, issuing, transferring and adjusting.               *)
THEOREM ReservedMatchesOutstandingHolds ==
  ASSUME "cancel" \notin Offered
  PROVE  Spec => []ReservedMatchesOutstanding
<1>1. BooksInv => ReservedMatchesOutstanding
  BY DEF BooksInv
<1>2. QED
  BY <1>1, BooksInvariant, PTL

(* Reserved material is safe from everybody but a manual ADJUSTMENT of that *)
(* very item: no other request leaves less stock than is reserved.          *)
THEOREM OnlyAdjustmentOverdrawsHolds ==
  ASSUME "cancel" \notin Offered
  PROVE  Spec => OnlyAdjustmentOverdraws
<1> DEFINE Adjusted(i) == \E s \in Sessions : /\ request[s].op = "adjust" /\ request[s].item = i
                                              /\ phase[s] = "written" /\ phase'[s] = "idle"
           Safe == \A i \in DOMAIN items :
                     (Available(i) >= 0 /\ Available(i)' < 0) => Adjusted(i)
<1>1. ASSUME IInv, StockInv, BooksInv, Next
      PROVE  Safe
  <2> SUFFICES ASSUME NEW i \in Items, Available(i) >= 0, Available(i)' < 0
               PROVE  Adjusted(i)
    BY <1>1 DEF IInv, TypeOK
  <2>1. items[i] \in ItemRow /\ items[i].current \in Int /\ items[i].reserved \in Nat
    BY <1>1 DEF IInv, TypeOK, ItemRow
  <2>2. ASSUME items'[i] = items[i]
        PROVE  FALSE
    BY <2>1, <2>2 DEF Available
  <2>3. ASSUME NEW s \in Sessions, Commit(s)
        PROVE  Adjusted(i)
    <3>1. /\ phase[s] = "written" /\ EndSession(s)
          /\ items'[i] = IF i \in held[s] THEN itemRow[s][i] ELSE items[i]
      BY <2>3 DEF Commit
    <3>2. i \in held[s] /\ items'[i] = itemRow[s][i]
      BY <2>2, <3>1
    <3>3. itemRow[s][i].current \in Int /\ itemRow[s][i].reserved \in Nat
      BY <1>1 DEF IInv, TypeOK, ItemRow
    <3>4. Balanced(s, draft[s], i, itemRow[s][i])
      BY <1>1, <3>1, <3>2 DEF BooksInv, Summed
    <3>5. request[s].op = "adjust"
      BY <2>1, <3>2, <3>3, <3>4 DEF Balanced, Available
    <3>6. request[s].item = i
      BY <1>1, <3>1, <3>2, <3>5 DEF IInv, SessionInv, Progress, Wanted
    <3>7. phase'[s] = "idle"
      BY <1>1, <3>1 DEF EndSession, IInv, TypeOK
    <3>8. QED
      BY <3>1, <3>5, <3>6, <3>7
  <2>4. ASSUME NEW s \in Sessions, CancelCommit(s)
        PROVE  FALSE
    BY <1>1, <2>4 DEF CancelCommit, BooksInv, Summed
  <2>5. CASE UNCHANGED <<items, resv, used>>
    BY <2>2, <2>5
  <2> HIDE DEF Adjusted
  <2>6. QED
    BY <1>1, <2>3, <2>4, <2>5, OnlyCommitsWrite
<1>2. IInv /\ StockInv /\ BooksInv /\ [Next]_vars => [Safe]_vars
  BY <1>1
<1>3. Spec => [][Safe]_vars
  BY <1>2, BooksInvariant, PTL DEF Spec
<1>4. QED
  BY <1>3 DEF OnlyAdjustmentOverdraws

-----------------------------------------------------------------------------
\* Locks in id order

\* A session on the canonical path only waits for items: it locks them before
\* any row, and a drafted row is covered by the lock of its item.
LEMMA WaitsForAnItem ==
  ASSUME ReservationsAssumption, IInv, StockInv, BooksInv, NEW s \in Sessions,
         NEW t \in Sessions, s # t, WaitsFor(s, t)
  PROVE  phase[s] = "locking" /\ \E i \in held[t] : NextToLock(s, i)
<1>1. /\ TypeOK /\ Locked /\ SessionInv(s) /\ SessionInv(t)
      /\ phase[s] # "syncing" /\ phase[t] # "syncing" /\ RowsLocked(t)
  BY DEF IInv, BooksInv, Summed, StockInv, Settles
<1>2. ASSUME Holding(s), NEW r \in RowsAhead(s), Drafted(t, r)
      PROVE  FALSE
  <2>1. /\ WellFormed(request[s]) /\ Wanted(s) \subseteq held[s]
        /\ request[s] \in Request
    BY <1>1, <1>2 DEF Holding, SessionInv, Progress, TypeOK, Request
  <2>2. /\ r \in Ids /\ resv[r].status # "Absent" /\ resv[r].item = request[s].item
        /\ request[s].op \in {"release", "issue", "consume"}
    <3>1. CASE request[s].op \in {"release", "issue"}
      BY <1>2, <2>1, <3>1 DEF RowsAhead, WellFormed
    <3>2. CASE request[s].op = "consume"
      <4>1. r \in Ids /\ TakenFrom(request[s].work, request[s].item, request[s].qty, r) > 0
        BY <1>2, <3>2 DEF RowsAhead
      <4>2. request[s].qty \in Nat
        BY <2>1, <3>2 DEF WellFormed, Counted, Quantities, ReservationsAssumption
      <4>3. Own(resv[r], request[s].work, request[s].item)
        BY <1>1, <4>1, <4>2, TakenType
      <4>4. QED
        BY <3>2, <4>1, <4>3, ActiveIsPresent DEF Own
    <3>3. QED
      BY <1>2, <3>1, <3>2 DEF RowsAhead
  <2>3. request[s].item \in held[s]
    BY <2>1, <2>2 DEF Wanted
  <2>4. draft[t][r].item \in held[t] /\ Continues(draft[t][r], resv[r])
    BY <1>1, <1>2, <2>2 DEF RowsLocked, SessionInv, DraftsContinue
  <2>5. request[s].item \in held[t]
    BY <2>2, <2>4 DEF Continues
  <2>6. QED
    BY <1>1, <2>3, <2>5 DEF Locked
<1>3. QED
  BY <1>1, <1>2 DEF WaitsFor

\* Everybody in D waits for somebody in D.
Deadlocked(D) == D # {} /\ \A s \in D : \E t \in D : WaitsFor(s, t)

NoDeadlock == \A D \in SUBSET Sessions : ~Deadlocked(D)

\* A set of items has a largest one.
LEMMA LargestItem ==
  ASSUME ReservationsAssumption, NEW A \in SUBSET Items, A # {}
  PROVE  \E m \in A : \A k \in A : ~(m < k)
<1> DEFINE above(m) == {x \in A : m < x}
           F == {above(m) : m \in A}
           R == StrictSubsetOrdering(Items)
<1>1. IsWellFoundedOn(R, SUBSET Items)
  BY SubsetsFinite, FS_StrictSubsetOrderingWellFounded, FS_FiniteSubsetsOfFinite
<1>2. F \subseteq SUBSET Items /\ F # {}
  <2>1. F \subseteq SUBSET Items
    OBVIOUS
  <2>2. PICK a \in A : TRUE
    OBVIOUS
  <2>3. above(a) \in F
    OBVIOUS
  <2>4. QED
    BY <2>1, <2>3
<1>3. \E x \in F : \A y \in F : ~(<<y, x>> \in R)
  <2> HIDE DEF F, R
  <2>1. QED
    BY <1>1, <1>2, WFMin
<1>4. PICK m \in A : \A k \in A : ~(<<above(k), above(m)>> \in R)
  BY <1>3
<1>5. ASSUME NEW k \in A, m < k
      PROVE  FALSE
  <2>1. m \in Int /\ k \in Int /\ A \subseteq Int
    BY DEF Items, ReservationsAssumption
  <2>2. above(k) \subseteq above(m) /\ k \in above(m) /\ k \notin above(k)
    <3>1. ASSUME NEW x \in A, k < x
          PROVE  m < x
      BY <1>5, <2>1, <3>1
    <3>2. ~(k < k)
      BY <2>1
    <3>3. above(k) \subseteq above(m)
      BY <3>1
    <3>4. QED
      BY <1>5, <3>2, <3>3
  <2>3. <<above(k), above(m)>> \in R
    BY <2>2 DEF StrictSubsetOrdering
  <2>4. QED
    BY <1>4, <2>3
<1>6. QED
  BY <1>5

LEMMA NoDeadlockNow ==
  ASSUME ReservationsAssumption, IInv, StockInv, BooksInv
  PROVE  NoDeadlock
<1> SUFFICES ASSUME NEW D \in SUBSET Sessions, Deadlocked(D)
             PROVE  FALSE
  BY DEF NoDeadlock
<1> DEFINE A == {i \in Items : \E s \in D : phase[s] = "locking" /\ NextToLock(s, i)}
<1>1. ASSUME NEW s \in D
      PROVE  \E t \in D, i \in A : /\ phase[s] = "locking" /\ NextToLock(s, i)
                                   /\ i \in held[t]
  <2>1. PICK t \in D : WaitsFor(s, t)
    BY DEF Deadlocked
  <2>2. CASE s # t
    <3>1. PICK i \in held[t] : phase[s] = "locking" /\ NextToLock(s, i)
      BY <2>1, <2>2, WaitsForAnItem
    <3>2. i \in Items
      BY <3>1 DEF IInv, TypeOK
    <3>3. QED
      BY <3>1, <3>2
  <2>3. CASE s = t
    <3>1. phase[s] # "syncing"
      BY DEF BooksInv, Summed
    <3>2. ~\E i \in held[s] : NextToLock(s, i)
      BY DEF NextToLock
    <3>3. \A r \in Ids : Holding(s) => ~Drafted(s, r)
      BY DEF Holding, IInv, SessionInv, Progress
    <3>4. Holding(s) => RowsAhead(s) \subseteq Ids
      BY DEF Holding, RowsAhead, IInv, SessionInv, Progress, WellFormed
    <3>5. QED
      BY <2>1, <2>3, <3>1, <3>2, <3>3, <3>4 DEF WaitsFor
  <2>4. QED
    BY <2>2, <2>3
<1>2. A # {} /\ A \in SUBSET Items
  BY <1>1 DEF Deadlocked
<1>3. PICK m \in A : \A k \in A : ~(m < k)
  <2> HIDE DEF A
  <2>1. QED
    BY <1>2, LargestItem
<1>4. PICK s \in D : phase[s] = "locking" /\ NextToLock(s, m)
  OBVIOUS
<1>5. PICK t \in D, i \in A : NextToLock(s, i) /\ i \in held[t]
  BY <1>1
<1>6. i = m
  <2>1. i <= m /\ m <= i
    BY <1>4, <1>5 DEF NextToLock
  <2>2. i \in Int /\ m \in Int
    BY DEF Items, ReservationsAssumption
  <2>3. QED
    BY <2>1, <2>2
<1>7. PICK k \in A : phase[t] = "locking" /\ NextToLock(t, k)
  BY <1>1
<1>8. m < k
  BY <1>5, <1>6, <1>7 DEF NextToLock, IInv, SessionInv, Progress
<1>9. QED
  BY <1>3, <1>7, <1>8

(* "Canonical database lock ordering for multi-row mutations": with any     *)
(* number of sessions no ring of transactions waits for itself, whatever    *)
(* its length.                                                              *)
THEOREM NoDeadlockHolds ==
  ASSUME "cancel" \notin Offered
  PROVE  Spec => []NoDeadlock
<1>1. IInv /\ StockInv /\ BooksInv => NoDeadlock
  BY ReservationsAssumption, NoDeadlockNow
<1>2. QED
  BY <1>1, BooksInvariant, PTL

(* In particular no two transactions wait for each other.                   *)
THEOREM NoCircularWaitHolds ==
  ASSUME "cancel" \notin Offered
  PROVE  Spec => []NoCircularWait
<1>1. NoDeadlock => NoCircularWait
  <2> SUFFICES ASSUME NoDeadlock, NEW s \in Sessions, NEW t \in Sessions,
                      WaitsFor(s, t), WaitsFor(t, s)
               PROVE  FALSE
    BY DEF NoCircularWait
  <2>1. Deadlocked({s, t})
    BY DEF Deadlocked
  <2>2. {s, t} \in SUBSET Sessions
    OBVIOUS
  <2>3. QED
    BY <2>1, <2>2 DEF NoDeadlock
<1>2. QED
  BY <1>1, NoDeadlockHolds, PTL
=============================================================================
