----------------------------- MODULE KpiFamilies ----------------------------
(* The four families of the KPI engine, which answer for the same tables with *)
(* definitions of their own: a rolling window that ends now, closed outages   *)
(* only, and the site of the asset.                                           *)
EXTENDS Backlog

SettledOrder == {"Received", "Cancelled", "Rejected"}

\* compute_reliability_kpis: the window ends now or with its last day, and lasts
\* a number of days to the instant; the window before it ends where it begins.
FamilyWindow(asOf, days, today) ==
  LET last == Min({DayEnd(asOf), NowOf(today)})
  IN [from |-> last - days * Slots, to |-> last]
FamilyBefore(w, days) == [from |-> w.from - days * Slots, to |-> w.from]

\* _sustained_outage_rows: forced outages that ended, by the site stored with them.
Sustained(db, site, w) ==
  {o \in db.outages : /\ o.type = "Forced" /\ o.end # Null
                      /\ o.start <= w.to /\ o.end >= w.from
                      /\ AssetOf(db, o.asset).id # None
                      /\ site # Unset => o.site = site}

CustomersOfSite(site) == IF site = None THEN 0 ELSE CustomersOf[site]

\* _customer_scope and _window_metrics.
CustomersIn(site) ==
  Total({s \in DOMAIN CustomersOf : site # Unset => s = site}, LAMBDA s : CustomersOf[s])
WindowIndices(db, site, w, today) ==
  LET Lasted(o) == Overlap(o.start, o.end, w.from, w.to, NowOf(today))
      served == {o \in Sustained(db, site, w) : Lasted(o) > 0}
      attributed == {o \in served : CustomersOfSite(o.site) > 0 /\ CustomersIn(site) > 0}
  IN [attributed |-> attributed, unattributed |-> served \ attributed,
      customers |-> CustomersIn(site),
      interrupted |-> Total(attributed, LAMBDA o : CustomersOfSite(o.site)),
      customerTime |-> Total(attributed, LAMBDA o : Lasted(o) * CustomersOfSite(o.site))]

FamilyReliability(db, site, asOf, days, today) ==
  LET w == FamilyWindow(asOf, days, today)
  IN [now |-> WindowIndices(db, site, w, today),
      before |-> WindowIndices(db, site, FamilyBefore(w, days), today),
      ongoing |-> {o \in db.outages : /\ o.type = "Forced" /\ o.status = "Open" /\ o.start <= w.to
                                      /\ site # Unset => o.site = site},
      planned |-> {o \in db.outages : /\ o.type = "Planned" /\ o.start <= w.to
                                      /\ o.end = Null \/ o.end >= w.from
                                      /\ site # Unset => o.site = site}]

\* compute_inventory_kpis: every line of every warehouse, those at or below
\* their reorder point, and those among them no open requisition covers.
FamilyInventory(db) ==
  LET Free(i) == i.stock - i.reserved
      low == {i \in db.items : Free(i) <= i.reorder}
      uncovered == {i \in low : ~\E r \in db.requisitions : r.item = i.id /\ r.status \notin SettledOrder}
      Exposure(i) == Max({0, i.reorder - Free(i)}) * i.price
  IN [lines |-> Cardinality(db.items),
      stockouts |-> {i \in db.items : Free(i) <= 0},
      low |-> low, uncovered |-> uncovered,
      contributors |-> Top(uncovered, 5, LAMBDA x, y : Exposure(x) > Exposure(y)),
      value |-> Total(db.items, LAMBDA i : i.stock * i.price)]

\* compute_maintenance_kpis: open work by the site of its asset; plans of the
\* whole company whatever the site.
FamilyMaintenance(db, site, days, today) ==
  LET open == {w \in OpenWork(db) : site # Unset => AssetOf(db, w.asset).site = site}
      overdue == {w \in open : w.target # Null /\ today - w.target > 0}
      Weight(w) == PointsOf([Emergency |-> 5, Critical |-> 4, High |-> 3, Medium |-> 2, Low |-> 1], w.priority, 1)
      plans == {p \in db.plans : p.active}
      latePlans == {p \in plans : p.calendar /\ p.due # Null /\ p.due < today}
  IN [open |-> open, overdue |-> overdue,
      emergency |-> Cardinality({w \in open : w.priority = "Emergency"}),
      critical |-> Cardinality({w \in open : w.priority \in TopPriority}),
      backlog |-> Total(open, LAMBDA w : w.hours),
      aging |-> Total(open, LAMBDA w : Max({0, today - DayOf(w.created)})),
      contributors |-> Top(overdue, 5, LAMBDA v, w :
                             Weight(v) * (today - v.target) > Weight(w) * (today - w.target)),
      resolved |-> {w \in db.work : /\ w.status \in Finished /\ EndOrUpdate(w) >= DayStart(today - days)
                                    /\ site # Unset => AssetOf(db, w.asset).site = site},
      pmCompliance |-> Share(Cardinality(plans) - Cardinality(latePlans), Cardinality(plans))]

\* compute_workforce_kpis: only active technicians count as dispatched, and
\* absences are not looked at.
FamilyWorkforce(db) ==
  LET technicians == {u \in db.users : u.technician /\ u.active}
      dispatched == {u \in technicians : \E d \in db.dispatches :
                       d.user = u.id /\ d.status \in {"Dispatched", "Accepted", "En Route", "On Site"}}
  IN [active |-> Cardinality(technicians), dispatched |-> Cardinality(dispatched),
      available |-> Max({0, Cardinality(technicians) - Cardinality(dispatched)}),
      unassigned |-> {w \in OpenWork(db) : w.priority \in TopPriority /\ w.assigned = Null}]
=============================================================================
