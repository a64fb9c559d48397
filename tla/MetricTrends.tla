---------------------------- MODULE MetricTrends ----------------------------
(* What moved a figure: the drivers the dashboard lists beside it, and the    *)
(* trend of one metric over consecutive windows.  A driver is the record it   *)
(* cites; the contract of both sources is that the records cited for a figure *)
(* are records the figure counted.                                            *)
EXTENDS ExecutiveFigures

Shown == 5     \* drivers of an outage figure, and of the overdue backlog
Cited == 10    \* drivers of every other figure
MaxSamples == 24

-----------------------------------------------------------------------------
(* explain_kpi_changes.                                                       *)
LongestLasting(outages, f, today) ==
  LET Lasted(o) == LastedIn(o, Window(f).first, Window(f).last, today)
  IN Top(outages, Shown, LAMBDA x, y : Lasted(x) > Lasted(y) \/ (Lasted(x) = Lasted(y) /\ x.id < y.id))

\* The scope of the drivers, written apart from the scope of the figure.
CitedInScope(db, f, o) ==
  LET a == AssetOf(db, o.asset) IN
  /\ a.id # None
  /\ f.site # Unset => o.site = f.site
  /\ f.region # Unset => a.site # None /\ RegionOf[a.site] = f.region
  /\ f.criticality # "" => a.criticality = f.criticality

OutageDrivers(db, f, today) ==
  LET w == Window(f) IN
  LongestLasting({o \in db.outages : /\ o.type = "Forced" /\ CitedInScope(db, f, o)
                                     /\ o.start <= DayEnd(w.last)
                                     /\ o.end = Null \/ o.end >= DayStart(w.first)
                                     /\ LastedIn(o, w.first, w.last, today) > 0}, f, today)

PlannedDrivers(db, f, today) ==
  LongestLasting({o \in db.outages : /\ o.type # "Forced" /\ CitedInScope(db, f, o)
                                     /\ o.start >= DayStart(Window(f).first)
                                     /\ o.start <= DayEnd(Window(f).last)}, f, today)

PlannedState(o, f, today) ==
  LET lasted == LastedIn(o, Window(f).first, Window(f).last, today)
  IN IF lasted <= 0 THEN "scheduled"
     ELSE IF o.end = Null /\ o.status # "Closed" THEN "ongoing" ELSE "recorded"

\* Long repairs cited for the mean time to repair: any corrective work of the
\* asset scope that ended since the window began.
SlowRepairs(db, f) ==
  LET repairs == {w \in ScopedByAsset(db, f, db.work)
                    \cup (IF f.site = Unset /\ f.region = Unset /\ f.criticality = ""
                          THEN {w \in db.work : w.asset = None} ELSE {}) :
                   /\ w.status \in Finished /\ w.type \in CorrectiveTypes
                   /\ EndOf(w) >= DayStart(Window(f).first)}
  IN {w \in Top(repairs, 3, LAMBDA v, w : v.actual > w.actual \/ (v.actual = w.actual /\ v.id < w.id)) :
        w.actual > 0}

HseDrivers(db, f, threshold, today) ==
  {h \in Hse(db, f, today).records : h.risk >= threshold}

-----------------------------------------------------------------------------
(* _maintenance_overdue_drivers: overdue today, by the site of the asset.     *)
OverdueDrivers(db, f, today) ==
  LET late == {w \in OverdueAt(OpenWork(db), today) :
                 InScope(f, AssetOf(db, w.asset).site, AssetOf(db, w.asset))}
  IN Top(late, Shown, LAMBDA v, w :
       \/ PriorityRank(v.priority) > PriorityRank(w.priority)
       \/ PriorityRank(v.priority) = PriorityRank(w.priority) /\ v.target < w.target)

\* How far a stocked-out item is below its reorder point.
Shortfall(i) == Max({0, i.reorder - Available(i)})

\* How far unassigned work is past its target at the end of the period.
DaysPast(w, f) == IF w.target = Null THEN 0 ELSE Max({0, f.end - w.target})

-----------------------------------------------------------------------------
(* The metrics of the trend registry: value in the family and direction.      *)
Metrics == [reliability |-> {"outage_count", "total_downtime", "planned_outages"},
            maintenance |-> {"open", "overdue", "unassigned", "pm_compliance", "schedule"},
            inventory |-> {"stockout_lines"}, workforce |-> {"available", "unassigned"},
            condition |-> {"active_alarms"}, hse |-> {"open_incidents", "high_risk_open"},
            cost |-> {"cost"}]
HigherIsBetter == {"pm_compliance", "schedule", "available"}

\* _extract: the figure of a family under the name of a metric, a count where
\* the family lists the records.
ReliabilityMetric(r, metric) ==
  CASE metric = "outage_count" -> r.count
    [] metric = "total_downtime" -> r.downtime
    [] OTHER -> r.planned

MaintenanceMetric(m, metric) ==
  CASE metric = "open" -> Cardinality(m.open)
    [] metric = "overdue" -> Cardinality(m.overdue)
    [] metric = "unassigned" -> m.unassignedCritical
    [] metric = "pm_compliance" -> m.plans - m.overduePlans
    [] OTHER -> Cardinality(m.met)

WorkforceMetric(p, metric) ==
  IF metric = "available" THEN p.available ELSE Cardinality(p.unassigned)

HseMetric(h, metric) == IF metric = "open_incidents" THEN h.open ELSE h.highRiskOpen

\* _resolve: the family is computed for the filter.
Value(db, f, family, metric, today) ==
  CASE family = "reliability" -> ReliabilityMetric(Reliability(db, f, today), metric)
    [] family = "maintenance" -> MaintenanceMetric(Maintenance(db, f, today), metric)
    [] family = "inventory" -> Cardinality(Inventory(db, f).stockouts)
    [] family = "workforce" -> WorkforceMetric(Workforce(db, f, today), metric)
    [] family = "condition" -> Condition(db, f, today).active
    [] family = "hse" -> HseMetric(Hse(db, f, today), metric)
    [] family = "cost" -> Costs(db, f).window

\* _bucket_filters: windows of the same length ending `bucket` periods earlier.
BucketFilter(f, bucket) == [f EXCEPT !.end = f.end - Max({1, f.days}) * bucket]
Samples(asked) == Max({2, Min({asked, MaxSamples})})

\* compute_metric_trend: the oldest sample first.
Trend(db, f, family, metric, asked, today) ==
  LET n == Samples(asked)
  IN [k \in 1..n |-> LET g == BucketFilter(f, n - k)
                     IN [first |-> Window(g).first, last |-> Window(g).last,
                         value |-> Value(db, g, family, metric, today)]]

\* _pm_compliance_drivers and _schedule_compliance_drivers.
MaintenanceDrivers(m, metric) ==
  IF metric = "pm_compliance" THEN m.planDrivers
  ELSE Top(m.late, Cited, LAMBDA v, w : DayOf(v.finish) - v.target > DayOf(w.finish) - w.target)

\* The records explain_metric cites for a metric.
Drivers(db, f, family, metric, today) ==
  CASE family = "reliability" ->
         IF metric = "planned_outages" THEN PlannedDrivers(db, f, today) ELSE OutageDrivers(db, f, today)
    [] family = "maintenance" ->
         IF metric \in {"pm_compliance", "schedule"}
         THEN MaintenanceDrivers(Maintenance(db, f, today), metric)
         ELSE OverdueDrivers(db, f, today)
    [] family = "inventory" -> Inventory(db, f).shown
    [] family = "workforce" ->
         IF metric = "unassigned" THEN Workforce(db, f, today).unassigned ELSE {}
    [] family = "condition" -> Condition(db, f, today).contributors
    [] family = "hse" ->
         HseDrivers(db, f, IF metric = "high_risk_open" THEN HighRiskIncident ELSE 0, today)
    [] family = "cost" -> DOMAIN Costs(db, f).top

\* The direction of a change, read by the sense of the metric.
Direction(value, before, metric) ==
  IF value = before THEN "unchanged"
  ELSE IF (value > before) <=> (metric \in HigherIsBetter) THEN "improved" ELSE "worsened"

Compared(value, before, metric) ==
  [value |-> value, previous |-> before, direction |-> Direction(value, before, metric)]

\* explain_metric: the figure beside that of the window before, and its drivers.
Explanation(db, f, family, metric, today) ==
  LET g == [f EXCEPT !.end = f.end - Max({1, f.days})]
  IN [figure |-> Compared(Value(db, f, family, metric, today), Value(db, g, family, metric, today), metric),
      window |-> Window(f), previousWindow |-> Window(g),
      drivers |-> Drivers(db, f, family, metric, today)]
=============================================================================
