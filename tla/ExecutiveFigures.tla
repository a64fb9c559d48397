-------------------------- MODULE ExecutiveFigures --------------------------
(* The families of figures of the executive dashboard, each computed from the *)
(* committed tables for one filter, and the live snapshot that holds them.    *)
(* Rounding is left out: a rate is a pair, numerator and denominator, and a   *)
(* duration a number of instants.                                             *)
EXTENDS Backlog

CONSTANT WeekDays    \* the days of a week

DispatchStates == {"Dispatched", "Accepted", "En Route", "On Site"}
StaleSourceDays == 1
HighRiskIncident == 12
Trailing(today) == DayStart(today - RepeatDays)
WeekOf(t) == DayOf(t) \div WeekDays
CountIf(rows, Holds(_)) == Cardinality({r \in rows : Holds(r)})
\* GROUP BY of a column over rows.
CountBy(rows, Key(_)) == [k \in {Key(r) : r \in rows} |-> Cardinality({r \in rows : Key(r) = k})]
SumBy(rows, Key(_), Value(_)) ==
  [k \in {Key(r) : r \in rows} |-> Total({r \in rows : Key(r) = k}, Value)]

-----------------------------------------------------------------------------
(* compute_reliability.  Outages are scoped by the site stored with them, the *)
(* assets of the denominator by the site of their location.                   *)
OutageInScope(db, f, o) ==
  LET a == AssetOf(db, o.asset) IN
  /\ a.id # None
  /\ f.site # Unset => o.site = f.site
  /\ InScope([f EXCEPT !.site = Unset], a.site, a)

LastedIn(o, first, last, today) ==
  Overlap(o.start, o.end, DayStart(first), DayEnd(last), NowOf(today))

ForcedIn(db, f, first, last, today) ==
  {o \in db.outages : /\ o.type = "Forced" /\ OutageInScope(db, f, o)
                      /\ o.start <= DayEnd(last)
                      /\ o.end = Null \/ o.end >= DayStart(first)
                      /\ LastedIn(o, first, last, today) > 0}

WindowReliability(db, f, first, last, today) ==
  LET forced == ForcedIn(db, f, first, last, today)
      down == Total(forced, LAMBDA o : LastedIn(o, first, last, today))
      hours == Max({1, DayEnd(last) - DayStart(first)})
      period == hours * Max({1, Cardinality(ScopedAssets(db, f))})
  IN [outages |-> forced, downtime |-> down, period |-> period,
      availability |-> Share(Max({0, period - down}), period)]

Reliability(db, f, today) ==
  LET w == Window(f)
      now == WindowReliability(db, f, w.first, w.last, today)
      before == WindowReliability(db, f, w.prevFirst, w.prevLast, today)
      Lasted(o) == LastedIn(o, w.first, w.last, today)
      Served(o) == LET s == AssetOf(db, o.asset).site IN IF s = None THEN 0 ELSE CustomersOf[s]
      customers == Total({a.site : a \in ScopedAssets(db, f)} \ {None}, LAMBDA s : CustomersOf[s])
  IN [outages |-> now.outages, count |-> Cardinality(now.outages),
      downtime |-> now.downtime, downtimeBefore |-> before.downtime, period |-> now.period,
      availability |-> now.availability, availabilityBefore |-> before.availability,
      planned |-> Cardinality({o \in ScopedByAsset(db, f, db.outages) :
                                 /\ o.type # "Forced"
                                 /\ o.start >= DayStart(w.first) /\ o.start < DayEnd(w.last)}),
      customers |-> customers,
      interruptions |-> Total(now.outages, Served),
      customerTime |-> Total(now.outages, LAMBDA o : Lasted(o) * Served(o)),
      weeks |-> CountBy(now.outages, LAMBDA o : WeekOf(o.start)),
      weeklyDowntime |-> SumBy(now.outages, LAMBDA o : WeekOf(o.start), Lasted)]

-----------------------------------------------------------------------------
(* compute_asset_kpis.                                                        *)
Failures(db, today) ==
  {w \in db.work : /\ w.status \in Finished /\ w.type \in CorrectiveTypes
                   /\ EndOf(w) >= Trailing(today)}

\* Assets with two failures or more, at most ten, by the failures of `rows`.  Rows
\* without an asset are a group as well (NULL, which sorts first): the maintenance
\* figures take it from a LEFT JOIN, the asset figures have no such rows.
RepeatOffenders(rows) ==
  LET count == CountBy(rows, LAMBDA w : w.asset)
      repeated == {a \in DOMAIN count : count[a] >= 2}
  IN Top(repeated, 10, LAMBDA x, y : count[x] > count[y] \/ (count[x] = count[y] /\ x < y))

AssetFigures(db, f, today) ==
  LET assets == ScopedAssets(db, f)
      health == HealthMap(db, {a.id : a \in assets}, today)
      Up(a) == a.status \in {"Operating", "Standby"}
      critical == {a \in assets : a.criticality = "Critical"}
  IN [total |-> Cardinality(assets),
      operating |-> CountIf(assets, LAMBDA a : a.status = "Operating"),
      standby |-> CountIf(assets, LAMBDA a : a.status = "Standby"),
      down |-> Cardinality(assets) - CountIf(assets, Up),
      criticalTotal |-> Cardinality(critical),
      criticalDown |-> Cardinality({a \in critical : ~Up(a)}),
      attention |-> CountIf(assets, LAMBDA a : a.condition \in {"Warning", "Poor", "Critical"}),
      bands |-> [b \in Bands |-> Cardinality({id \in DOMAIN health : HealthBand(health[id]) = b})],
      repeated |-> RepeatOffenders(ScopedByAsset(db, f, Failures(db, today))),
      highRisk |-> Top(DOMAIN health, 10, LAMBDA x, y :
                         health[x] < health[y] \/ (health[x] = health[y] /\ x < y))]

-----------------------------------------------------------------------------
(* compute_maintenance_kpis.  A date column compares with an instant as text, *)
(* so work finished during its target day is after it.                        *)
AfterTarget(w) == DayOf(w.finish) >= w.target
PriorityRank(p) == PointsOf([Emergency |-> 5, Critical |-> 4, High |-> 3, Medium |-> 2], p, 1)
AgeBucket(days) ==
  IF days <= 7 THEN "1-7d" ELSE IF days <= 30 THEN "8-30d" ELSE IF days <= 90 THEN "31-90d" ELSE "90d+"

OverdueAt(rows, day) == {w \in rows : w.target # Null /\ w.target < day}
ActivePlans(db, f) == {p \in ScopedByAsset(db, f, db.plans) : p.active}
OverduePlans(db, f) ==
  {p \in ActivePlans(db, f) : p.calendar /\ p.due # Null /\ p.due < f.end}

\* Mean times to repair and between failures, of the forced outages.
MeanTimes(rel) ==
  IF rel.count = 0 THEN [repair |-> Null, between |-> Null]
  ELSE [repair |-> <<rel.downtime, rel.count>>,
        between |-> <<Max({0, rel.period - rel.downtime}), rel.count>>]

Maintenance(db, f, today) ==
  LET w == Window(f)
      work == ScopedWork(db, f)
      open == {v \in work : v.status \notin Closed}
      overdue == OverdueAt(open, f.end)
      scheduled == {v \in work : v.target # Null /\ v.target >= w.first /\ v.target <= w.last}
      done == {v \in scheduled : v.status \in Finished /\ v.finish # Null}
      failed == Failures(db, today) \cap work
      finished == {v \in work : v.status \in Finished /\ EndOf(v) >= Trailing(today)}
      plans == Cardinality(ActivePlans(db, f))
      late == OverduePlans(db, f)
      aged == {v \in overdue : v.target < today}
  IN [open |-> open, overdue |-> overdue,
      emergency |-> CountIf(open, LAMBDA v : v.priority = "Emergency" \/ v.type = "Emergency"),
      highRiskOverdue |-> CountIf(overdue, LAMBDA v : v.priority \in HighPriority),
      unassignedCritical |-> CountIf(open, LAMBDA v : v.priority \in TopPriority /\ v.assigned = Null),
      backlog |-> Total(open, LAMBDA v : v.hours),
      plans |-> plans, overduePlans |-> Cardinality(late),
      pmCompliance |-> Share(plans - Cardinality(late), plans),
      planDrivers |-> Top(late, 10, LAMBDA p, q :
                            \/ PriorityRank(p.priority) > PriorityRank(q.priority)
                            \/ PriorityRank(p.priority) = PriorityRank(q.priority) /\ p.due < q.due),
      scheduled |-> {v \in scheduled : v.status # "Cancelled"},
      met |-> {v \in done : ~AfterTarget(v)},
      late |-> {v \in done : AfterTarget(v)},
      repeatRate |-> IF finished = {} THEN <<0, 1>> ELSE <<Cardinality(failed), Cardinality(finished)>>,
      repeated |-> RepeatOffenders(failed),
      meanTimes |-> MeanTimes(Reliability(db, f, today)),
      byPriority |-> CountBy(open, LAMBDA v : v.priority),
      ages |-> [b \in {"1-7d", "8-30d", "31-90d", "90d+"} |->
                  CountIf(aged, LAMBDA v : AgeBucket(today - v.target) = b)]]

-----------------------------------------------------------------------------
(* compute_condition_kpis: alarms join an asset, a channel and its scope.     *)
Condition(db, f, today) ==
  LET scoped == ScopedByAsset(db, f, db.alarms)
      active == {x \in scoped : x.status \in ActiveAlarm}
      perAsset == CountBy(active, LAMBDA x : x.asset)
      Worse(x, y) ==
        LET Rank(z) == (IF z.severity = "Critical" THEN 0 ELSE 2) + (IF z.status = "Open" THEN 0 ELSE 1)
        IN \/ Rank(x) < Rank(y)
           \/ Rank(x) = Rank(y) /\ (x.count > y.count \/ (x.count = y.count /\ x.id > y.id))
      seen == ({x.seen : x \in scoped}
                 \cup {c.last : c \in ScopedByAsset(db, f, db.channels)}) \ {Null}
  IN [active |-> Cardinality(active),
      critical |-> CountIf(active, LAMBDA x : x.severity = "Critical"),
      unacknowledged |-> CountIf(scoped, LAMBDA x : x.status = "Open"),
      storms |-> Top({x \in active : x.count >= 3}, 10, LAMBDA x, y : x.count > y.count),
      repeated |-> {a \in DOMAIN perAsset : perAsset[a] >= 2},
      contributors |-> Top(active, 10, Worse),
      latest |-> IF seen = {} THEN Null ELSE Max(seen)]

-----------------------------------------------------------------------------
(* compute_inventory_procurement_kpis.                                        *)
Available(i) == i.stock - i.reserved

Inventory(db, f) ==
  LET items == {i \in db.items : SiteMatches(f, i.site)}
      blocked == {w \in OpenWork(db) : \E r \in ShortagesInScope(db, f) : r.work = w.id}
      stockouts == Top({i \in items : Available(i) <= 0}, 50, LAMBDA x, y : x.id < y.id)
  IN [stockouts |-> stockouts, shown |-> Top(stockouts, 10, LAMBDA x, y : x.id < y.id),
      blocked |-> Cardinality(blocked),
      blockedHighRisk |-> CountIf(blocked, LAMBDA w : w.priority \in HighPriority),
      reservedValue |-> Total(items, LAMBDA i : i.reserved * i.price),
      availableValue |-> Total(items, LAMBDA i : Available(i) * i.price)]

-----------------------------------------------------------------------------
(* compute_workforce_kpis: people are counted in the whole company, work in   *)
(* the scope of the filter.                                                   *)
Workforce(db, f, today) ==
  LET technicians == {u \in db.users : u.technician /\ u.active}
      dispatched == {d.user : d \in {d \in db.dispatches : d.status \in DispatchStates}}
      off == {x.user : x \in {x \in db.absences : x.approved /\ x.first <= today /\ x.last >= today}}
      open == {w \in ScopedWork(db, f) : w.status \notin Closed}
      held == {w \in open : w.assigned # Null}
  IN [total |-> Cardinality(technicians), dispatched |-> Cardinality(dispatched),
      off |-> Cardinality(off),
      available |-> Max({0, Cardinality(technicians) - Cardinality(dispatched) - Cardinality(off)}),
      unassigned |-> Top({w \in open : w.priority \in TopPriority /\ w.assigned = Null}, 10,
                         LAMBDA v, w : \/ PriorityRank(v.priority) > PriorityRank(w.priority)
                                       \/ PriorityRank(v.priority) = PriorityRank(w.priority) /\ v.id < w.id),
      breached |-> CountIf(open, SlaBreached),
      load |-> CountBy(held, LAMBDA w : w.assigned)]

-----------------------------------------------------------------------------
(* compute_cost_kpis and compute_hse_kpis.  Both take the instants of a       *)
(* window from 00:00:00 to before 23:59:59 of its last day.                   *)
Within(t, first, last) == t >= DayStart(first) /\ t < DayEnd(last)

Costs(db, f) ==
  LET w == Window(f)
      Joined(c) == AssetOf(db, c.asset)
      scoped == {c \in db.ledger : InScope(f, Joined(c).site, Joined(c))}
      now == {c \in scoped : Within(c.at, w.first, w.last)}
      Amount(c) == c.amount
      owned == {c \in now : Joined(c).id # None}
      perAsset == SumBy(owned, LAMBDA c : c.asset, Amount)
  IN [window |-> Total(now, Amount),
      previous |-> Total({c \in scoped : Within(c.at, w.prevFirst, w.prevLast)}, Amount),
      bySite |-> SumBy({c \in now : Joined(c).site # None}, LAMBDA c : Joined(c).site, Amount),
      byCriticality |-> SumBy(owned, LAMBDA c : Joined(c).criticality, Amount),
      top |-> [a \in Top(DOMAIN perAsset, 10, LAMBDA x, y :
                           perAsset[x] > perAsset[y] \/ (perAsset[x] = perAsset[y] /\ x < y))
                 |-> perAsset[a]]]

RiskBand(score) ==
  IF score >= 15 THEN "Extreme" ELSE IF score >= 10 THEN "High" ELSE IF score >= 5 THEN "Medium" ELSE "Low"

Hse(db, f, today) ==
  LET w == Window(f)
      scoped == {h \in db.incidents : InScope(f, h.site, AssetOf(db, h.asset))}
      open == {h \in scoped : h.status \notin {"Closed", "Cancelled"}}
      High(h) == h.risk >= HighRiskIncident
      now == {h \in scoped : Within(h.created, w.first, w.last)}
      before == {h \in scoped : Within(h.created, w.prevFirst, w.prevLast)}
      recent == {h \in scoped : h.created >= NowOf(today) - RepeatDays * Slots}
      perAsset == CountBy({h \in recent : h.asset # None}, LAMBDA h : h.asset)
      repeated == {a \in DOMAIN perAsset : perAsset[a] >= 2}
      HappenedOn(h) == IF h.occurred = Null THEN h.created ELSE h.occurred
      last == {HappenedOn(h) : h \in {h \in scoped : High(h)}}
  IN [open |-> Cardinality(open), highRiskOpen |-> CountIf(open, High),
      records |-> Top(open, 10, LAMBDA x, y : \/ x.risk > y.risk
                                              \/ x.risk = y.risk /\ x.created > y.created),
      current |-> Cardinality(now), previous |-> Cardinality(before),
      highCurrent |-> CountIf(now, High), highPrevious |-> CountIf(before, High),
      severities |-> [n \in 1..5 |-> CountIf(now, LAMBDA h : h.severity = n)],
      bands |-> CountBy(scoped, LAMBDA h : RiskBand(h.risk)),
      weeks |-> CountBy(now, LAMBDA h : WeekOf(h.created)),
      byType |-> CountBy(now, LAMBDA h : h.type),
      bySite |-> CountBy({h \in now : h.site # None}, LAMBDA h : h.site),
      byAsset |-> CountBy({h \in now : h.asset # None}, LAMBDA h : h.asset),
      sinceHigh |-> IF last = {} THEN Null ELSE today - DayOf(Max(last)),
      repeated |-> repeated,
      recommended |-> {<<"corrective action", h.id>> : h \in {h \in open : High(h)}}
                      \cup {<<"repeated", a>> : a \in repeated}
                      \cup (IF CountIf(now, High) >= 2 THEN {<<"indicator", Null>>} ELSE {})]

-----------------------------------------------------------------------------
(* compute_asset_kpi_profile: one asset, planned outages counted as downtime. *)
Profile(db, id, f, today) ==
  LET w == Window(f)
      outages == {o \in db.outages : /\ o.asset = id /\ o.start <= DayEnd(w.last)
                                     /\ o.end = Null \/ o.end >= DayStart(w.first)
                                     /\ LastedIn(o, w.first, w.last, today) > 0}
      hours == Max({1, DayEnd(w.last) - DayStart(w.first)})
      down == Total(outages, LAMBDA o : LastedIn(o, w.first, w.last, today))
      own == {v \in db.work : v.asset = id}
      open == {v \in own : v.status \notin Closed}
  IN [outages |-> outages, downtime |-> down,
      forced |-> {o \in outages : o.type = "Forced"},
      availability |-> Share(Max({0, hours - down}), hours),
      failures |-> Failures(db, today) \cap own,
      open |-> open, overdue |-> {v \in open : Late(v, today)},
      alarms |-> CountIf(db.alarms, LAMBDA x : x.asset = id /\ x.status \in ActiveAlarm),
      health |-> CanonicalHealth(db, id, today)]

\* compute_freshness: only the condition family tells when its source was seen.
Freshness(db, f, today) ==
  LET latest == Condition(db, f, today).latest
  IN IF latest = Null \/ NowOf(today) - latest > StaleSourceDays * Slots THEN "stale" ELSE "current"
=============================================================================
