------------------------------ MODULE Backlog -------------------------------
(* Whether the parts of a work order are secured, which five queries decide,  *)
(* and the two rankings of open work by risk: the planners' backlog of the    *)
(* application and the risk-weighted backlog of the executive figures.        *)
EXTENDS AssetHealth

OpenWork(db) == {w \in db.work : w.status \notin Closed}

\* What a work order took of an item, what is held for it, what is left of the
\* item for anybody.
IssuedTo(db, wid, item) ==
  Total({m \in db.materials : m.work = wid /\ m.item = item}, LAMBDA m : m.qty)

\* Mutant of HeldFor: a hold that was released or used up still secures stock.
HeldWhateverState(db, wid, item) ==
  Total({h \in db.holds : h.work = wid /\ h.item = item}, LAMBDA h : h.qty - h.issued)

HeldFor(db, wid, item) ==
  Total({h \in db.holds : /\ h.work = wid /\ h.item = item
                          /\ h.status \in {"Reserved", "Partially Issued"}},
        LAMBDA h : h.qty - h.issued)

FreeStock(db, item) == LET i == CHOOSE i \in db.items : i.id = item IN Max({0, i.stock - i.reserved})
RequiredBy(db, wid) == {r \in db.requirements : r.work = wid /\ r.status # "Cancelled"}

\* _work_order_parts_readiness: line by line, for one work order.
Readiness(db, wid) ==
  LET Remaining(r) == Max({0, r.qty - IssuedTo(db, wid, r.item)})
      Secured(r) == HeldFor(db, wid, r.item) + FreeStock(db, r.item)
      short == {r \in RequiredBy(db, wid) : Remaining(r) > Secured(r)}
  IN [state |-> IF RequiredBy(db, wid) = {} THEN "Unknown"
                ELSE IF short = {} THEN "Ready" ELSE "Shortage",
      short |-> Cardinality(short),
      reserved |-> Cardinality({r \in RequiredBy(db, wid) : HeldFor(db, wid, r.item) > 0})]

\* _material_blocker_map: the short lines of several work orders in one query;
\* a work order without one has no entry.
BlockerMap(db, ids) ==
  LET Short(r) == r.qty - IssuedTo(db, r.work, r.item) >
                    HeldFor(db, r.work, r.item) + FreeStock(db, r.item)
      lines == {r \in db.requirements : r.work \in ids /\ r.status # "Cancelled" /\ Short(r)}
  IN [wid \in {r.work : r \in lines} |-> Cardinality({r \in lines : r.work = wid})]

\* The requirement lines the executive queries call short, from two derived
\* tables: issued and held quantities by work order and item.
Grouping(rows, Qty(_)) ==
  [key \in {<<r.work, r.item>> : r \in rows} |->
     Total({r \in rows : <<r.work, r.item>> = key}, Qty)]
ShortLines(db) ==
  LET issued == Grouping(db.materials, LAMBDA m : m.qty)
      held == Grouping({h \in db.holds : h.status \in {"Reserved", "Partially Issued"}},
                       LAMBDA h : h.qty - h.issued)
      Left(r) == r.qty - GroupOf(issued, <<r.work, r.item>>)
  IN {r \in db.requirements :
        /\ r.status # "Cancelled"
        /\ \E w \in OpenWork(db) : w.id = r.work
        /\ Left(r) > GroupOf(held, <<r.work, r.item>>) + FreeStock(db, r.item)}

\* The lines of compute_parts_shortages, which knows only site and region.
ShortagesInScope(db, f) ==
  {r \in ShortLines(db) : \E w \in OpenWork(db) : w.id = r.work /\ SiteMatches(f, w.site)}
Missing(db, r) ==
  r.qty - IssuedTo(db, r.work, r.item) - HeldFor(db, r.work, r.item) - FreeStock(db, r.item)

-----------------------------------------------------------------------------
(* risk_weighted_backlog, in tenths of a point.                               *)
PriorityBase(p) == PointsOf([Emergency |-> 40, Critical |-> 32, High |-> 24, Medium |-> 12, Low |-> 6], p, 6)
CriticalityTwentieths(c) == PointsOf([Critical |-> 30, High |-> 25, Medium |-> 20, Low |-> 17], c, 20)

\* Mutant of OverdueDays: the difference taken the other way round.
OverdueBackwards(w, today) == IF Late(w, today) THEN w.target - today ELSE 0

OverdueDays(w, today) == IF Late(w, today) THEN today - w.target ELSE 0

\* risk_score_work_order, from the evidence the caller joined to the row.
RiskScore(r) ==
  Min({1000, (PriorityBase(r.priority) * CriticalityTwentieths(r.criticality)) \div 2
             + (IF r.health = Null THEN 50 ELSE (100 - r.health) * 2)
             + Min({200, r.overdue * 10})
             + (IF "Response" \in r.sla THEN 50 ELSE 0)
             + (IF "Resolution" \in r.sla THEN 100 ELSE 0)
             + Min({150, r.alarms * 50})
             + (IF r.outage THEN 120 ELSE 0) + (IF r.safety THEN 100 ELSE 0)
             + (IF r.blocked THEN 80 ELSE 0)})

BacklogRow(db, health, w, today) ==
  [priority |-> w.priority, criticality |-> AssetOf(db, w.asset).criticality,
   health |-> IF w.asset \in DOMAIN health THEN health[w.asset] ELSE Null,
   overdue |-> OverdueDays(w, today), sla |-> w.sla,
   alarms |-> Cardinality({x \in db.alarms : x.asset = w.asset /\ x.status \in ActiveAlarm}),
   outage |-> \E o \in db.outages : o.asset = w.asset /\ o.status = "Open",
   safety |-> w.safety \/ w.priority = "Emergency",
   blocked |-> \E r \in ShortLines(db) : r.work = w.id]

RiskBacklog(db, f, today) ==
  LET rows == {w \in ScopedWork(db, f) : w.status \notin Closed}
      health == HealthMap(db, {w.asset : w \in rows} \ {None}, today)
      row == [w \in rows |-> BacklogRow(db, health, w, today)]
  IN [rows |-> rows,
      risk |-> [w \in rows |-> RiskScore(row[w])],
      total |-> Total(rows, LAMBDA w : RiskScore(row[w])),
      critical |-> Cardinality({w \in rows : w.priority \in TopPriority}),
      blockedHighRisk |-> Cardinality({w \in rows : row[w].blocked /\ w.priority \in HighPriority})]

-----------------------------------------------------------------------------
(* application._ranked_work_backlog, in ninths of a point: age and repeated   *)
(* failures count fractions, an instant being a third of a day.               *)
PriorityWeight(p) == PointsOf([Emergency |-> 30, Critical |-> 26, High |-> 20, Medium |-> 12, Low |-> 5], p, 8)
CriticalityWeight(c) == PointsOf([Critical |-> 14, High |-> 10, Medium |-> 6, Low |-> 2], c, 4)

\* The latest stored health of an asset, when there is one.
StoredHealth(db, id) ==
  LET own == {s \in db.snapshots : s.asset = id}
  IN IF own = {} THEN Null ELSE (CHOOSE s \in own : \A q \in own : q.id <= s.id).score

RankedPoints(db, w, today) ==
  LET age == NowOf(today) - w.created
      active == {x \in db.alarms : x.asset = w.asset /\ x.status \in ActiveAlarm}
      stored == StoredHealth(db, w.asset)
      repeats == Cardinality({v \in db.work :
                   /\ w.asset # None /\ v.asset = w.asset /\ v.status \in Finished
                   /\ v.type \in {"Corrective Maintenance", "Breakdown"}
                   /\ v.created >= NowOf(today) - RepeatDays * Slots})
  IN 9 * (PriorityWeight(w.priority) + CriticalityWeight(AssetOf(db, w.asset).criticality)
          + (IF "Resolution" \in w.sla THEN 20 ELSE IF "Response" \in w.sla THEN 8 ELSE 0)
          + (IF "Escalated" \in w.sla THEN 6 ELSE 0)
          + (IF Late(w, today) THEN 10 ELSE 0)
          + (IF \E x \in active : x.severity = "Critical" THEN 12 ELSE IF active # {} THEN 6 ELSE 0)
          + (IF stored = Null THEN 0 ELSE IF stored <= 40 THEN 10 ELSE IF stored <= 60 THEN 5 ELSE 0)
          + (IF repeats > 1 THEN Min({10, (repeats - 1) * 3}) ELSE 0)
          + (IF w.safety THEN 6 ELSE 0)
          + (IF w.id \in DOMAIN BlockerMap(db, {v.id : v \in OpenWork(db)}) THEN 8 ELSE 0)
          + (IF w.assigned = Null THEN 4 ELSE 0))
     + (IF age > 7 * Slots THEN Min({90, age - 7 * Slots}) ELSE 0)

RankedBand(points) == IF points >= 540 THEN "HIGH RISK" ELSE IF points >= 315 THEN "ELEVATED" ELSE "ROUTINE"

RankedBacklog(db, site, today) ==
  LET rows == {w \in OpenWork(db) : site # Unset => w.site = site}
      points == [w \in rows |-> RankedPoints(db, w, today)]
  IN [rows |-> rows,
      risk |-> [w \in rows |-> Min({900, points[w]})],
      bands |-> [band \in {"HIGH RISK", "ELEVATED", "ROUTINE"} |->
                   Cardinality({w \in rows : RankedBand(points[w]) = band})]]
=============================================================================
