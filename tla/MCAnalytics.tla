---------------------------- MODULE MCAnalytics -----------------------------
(***************************************************************************)
(* The figures of the dashboards against each other, and the cache in front *)
(* of them.  A figure is a function of committed tables, a filter and the    *)
(* day it is asked for: a behaviour takes one of the worlds below and one     *)
(* filter, and lets days pass.  Each world varies the rows one group of       *)
(* figures reads; the other tables hold what does not disturb them.           *)
(***************************************************************************)
EXTENDS MetricTrends, KpiFamilies, SnapshotCache, TLC

CONSTANTS r1, r2
Today == 100
Days == Today..(Today + 1)

Regions == <<1, 2>>
Customers == <<2, 0>>

VARIABLES scenario, db, filter, today
figureVars == <<db, filter, today>>
vars == <<scenario, figureVars, cacheVars>>

-----------------------------------------------------------------------------
Asset(id, site, criticality, condition, status) ==
  [id |-> id, site |-> site, criticality |-> criticality, condition |-> condition, status |-> status]
Work(id, asset, site, priority, status, target) ==
  [id |-> id, asset |-> asset, site |-> site, priority |-> priority,
   type |-> "Corrective Maintenance", status |-> status, target |-> target,
   created |-> DayStart(Today - 2), updated |-> DayStart(Today - 1), finish |-> Null,
   assigned |-> Null, sla |-> {}, safety |-> FALSE, hours |-> 2, actual |-> 1]

Plain ==
  [assets |-> {Asset(1, 1, "Critical", "Good", "Operating"), Asset(2, 2, "Low", "Poor", "Restricted")},
   work |-> {}, outages |-> {}, alarms |-> {}, channels |-> {}, inspections |-> {}, plans |-> {},
   incidents |-> {}, ledger |-> {}, items |-> {}, requirements |-> {}, materials |-> {},
   holds |-> {}, requisitions |-> {}, snapshots |-> {}, users |-> {}, dispatches |-> {},
   absences |-> {}]

\* Two outages around the window: one of every kind, one forced and closed.
OutageRow(id, asset, site, type, start, end) ==
  [id |-> id, asset |-> asset, site |-> site, type |-> type, start |-> start, end |-> end,
   status |-> IF end = Null THEN "Open" ELSE "Closed"]
Starts == {DayStart(Today - 3), DayStart(Today - 1) + 1, DayEnd(Today), DayStart(Today + 1)}
OutageWorlds ==
  {[Plain EXCEPT !.outages =
      {OutageRow(1, a, s, t, b, e), OutageRow(2, 1, 1, "Forced", DayStart(Today - 1), c)}] :
     a \in {1, 2}, s \in {1, 2}, t \in {"Forced", "Planned"}, b \in Starts,
     e \in {Null, DayStart(Today) + 1, DayStart(Today + 1) + 1}, c \in {Null, DayEnd(Today - 1)}}

\* One piece of work of every kind beside a finished and a late one; up to two of
\* them have no asset, and a site of their own or none.
WorkWorlds ==
  {[Plain EXCEPT !.work =
      {[Work(1, a, s, p, st, t) EXCEPT !.finish = IF st = "Completed" THEN fin ELSE Null, !.assigned = u],
       [Work(2, x, x, "High", "Completed", Today) EXCEPT !.finish = DayStart(Today) + 1],
       Work(3, 1, 1, "Critical", "Scheduled", Today - 60)}] :
     a \in {None, 1, 2}, s \in {None, 1, 2}, x \in {None, 2}, p \in {"Emergency", "Medium"},
     st \in {"Draft", "Completed", "Cancelled"}, t \in {Null, 5, Today - 20, Today - 1, Today},
     u \in {Null, 1}, fin \in {DayStart(Today - 1) + 1, DayStart(Today) + 1}}

\* Requirements of two pieces of work on two items.
PartWorlds ==
  {[Plain EXCEPT
      !.work = {Work(1, 1, 1, "High", st, Today), Work(2, 2, 2, "Low", "Draft", Null)},
      !.items = {[id |-> 1, site |-> 1, stock |-> stock, reserved |-> res, reorder |-> 1, price |-> 1],
                 [id |-> 2, site |-> 2, stock |-> 1, reserved |-> 0, reorder |-> 1, price |-> 2]},
      !.requirements = {[id |-> 1, work |-> 1, item |-> 1, qty |-> q, status |-> rs],
                        [id |-> 2, work |-> 1, item |-> 2, qty |-> 1, status |-> "Planned"],
                        [id |-> 3, work |-> 2, item |-> 1, qty |-> 1, status |-> "Planned"]},
      !.materials = IF m = 0 THEN {} ELSE {[id |-> 1, work |-> 1, item |-> 1, qty |-> m]},
      !.holds = {[id |-> 1, work |-> 1, item |-> 1, qty |-> 2, issued |-> i, status |-> hs]}] :
     st \in {"Draft", "Closed"}, stock \in 0..2, res \in 0..2, q \in 1..3, m \in 0..2, i \in 0..1,
     rs \in {"Planned", "Cancelled"}, hs \in {"Reserved", "Partially Issued", "Released"}}

\* Ledger entries and incidents at every instant around the windows.
Instants == DayStart(Today - 2)..DayEnd(Today)
BookWorlds ==
  {[Plain EXCEPT
      !.ledger = {[id |-> 1, asset |-> a, amount |-> 2, at |-> t], [id |-> 2, asset |-> 1, amount |-> 3, at |-> u]},
      !.incidents = {[id |-> 1, site |-> s, asset |-> a, type |-> "Injury", severity |-> 2, risk |-> k,
                      status |-> "Open", created |-> t, occurred |-> Null],
                     [id |-> 2, site |-> 1, asset |-> 1, type |-> "Spill", severity |-> 5, risk |-> 15,
                      status |-> "Closed", created |-> u, occurred |-> t]}] :
     a \in {None, 1, 2}, s \in {None, 1}, k \in {4, 12}, t \in Instants,
     u \in {DayStart(Today - 1), DayEnd(Today)}}

\* The evidence on the health of one asset, and its open work.
AlarmRow(id, severity, status) ==
  [id |-> id, asset |-> 1, severity |-> severity, status |-> status, count |-> 1, seen |-> NowOf(Today)]
HealthWorlds ==
  {[Plain EXCEPT
      !.assets = {Asset(1, 1, c, cond, st), Asset(2, 2, "Low", "Poor", "Restricted")},
      !.work = {[Work(1, 1, 1, p, "Draft", t) EXCEPT !.sla = sla],
                [Work(2, 1, 1, "Low", "Closed", Today - 1) EXCEPT !.type = wt, !.finish = DayStart(Today - 1)]},
      !.alarms = {AlarmRow(1, sev, "Open"), AlarmRow(2, "Warning", "Cleared")},
      !.inspections = {[id |-> 1, asset |-> 1, result |-> r]},
      !.outages = IF o THEN {OutageRow(1, 1, 1, "Forced", DayStart(Today), Null)} ELSE {}] :
     c \in {"Medium", "Critical"}, cond \in {"Good", "Critical"}, st \in {"Operating", "Decommissioned"},
     p \in {"Low", "Emergency"}, t \in {Null, Today - 1, Today}, sla \in {{}, {"Response"}},
     wt \in {"Corrective", "Corrective Maintenance"}, sev \in {"Warning", "Critical"},
     r \in {"Pass", "Fail"}, o \in BOOLEAN}

\* Plans, and people with their dispatches and absences.
CompanyWorlds ==
  {[Plain EXCEPT
      !.plans = {[id |-> 1, asset |-> a, due |-> d, calendar |-> k, active |-> v, priority |-> "High"],
                 [id |-> 2, asset |-> 1, due |-> Today - 1, calendar |-> TRUE, active |-> TRUE, priority |-> "Low"]},
      !.users = {[id |-> 1, technician |-> TRUE, active |-> on], [id |-> 2, technician |-> TRUE, active |-> TRUE]},
      !.dispatches = {[id |-> 1, user |-> 1, status |-> ds]},
      !.absences = {[id |-> 1, user |-> w, approved |-> TRUE, first |-> Today, last |-> Today]}] :
     a \in {1, 2}, d \in {Null, Today - 2, Today}, k \in BOOLEAN, v \in BOOLEAN, on \in BOOLEAN,
     ds \in {"On Site", "Completed"}, w \in {1, 2}}

Worlds(s) ==
  CASE s = "outages" -> OutageWorlds [] s = "work" -> WorkWorlds [] s = "parts" -> PartWorlds
    [] s = "books" -> BookWorlds [] s = "health" -> HealthWorlds [] s = "company" -> CompanyWorlds
    [] s = "cache" -> {Plain}

Filter(end, days, site, region, criticality) ==
  [end |-> end, days |-> days, site |-> site, region |-> region, criticality |-> criticality]
Wide == {Filter(e, d, Unset, Unset, "") : e \in {Today - 1, Today}, d \in {1, 2}}
Narrow == {Filter(Today, 2, 1, Unset, ""), Filter(Today, 2, Unset, 2, ""), Filter(Today, 1, Unset, Unset, "Critical")}
Filters(s) == IF s = "cache" THEN {Filter(Today, 1, Unset, Unset, "")} ELSE Wide \cup Narrow

MCInit ==
  /\ Init
  /\ scenario \in {"outages", "work", "parts", "books", "health", "company", "cache"}
  /\ db \in Worlds(scenario)
  /\ filter \in Filters(scenario)
  /\ today = Today

\* A day passes over the tables.
DayPasses ==
  /\ scenario # "cache" /\ today + 1 \in Days
  /\ today' = today + 1
  /\ UNCHANGED <<scenario, db, filter, cacheVars>>

CacheStep == scenario = "cache" /\ Next /\ UNCHANGED <<scenario, figureVars>>

MCNext == DayPasses \/ CacheStep
Spec == MCInit /\ [][MCNext]_vars

Symmetry == Permutations({r1, r2})

-----------------------------------------------------------------------------
SumOf(function) == Total(DOMAIN function, LAMBDA k : function[k])
SitesAgree == \A x \in db.work \cup db.outages : AssetOf(db, x.asset).site = x.site
Unscoped == filter.site = Unset /\ filter.region = Unset /\ filter.criticality = ""
BySiteOnly == filter.region = Unset /\ filter.criticality = ""

\* Outage figures, their drivers, their weeks, the windows they compare and the
\* indices of the other engine (compute_reliability, outage_drivers,
\* compute_metric_trend, explain_metric, compute_reliability_kpis).
DriversAgree(r, e, planned) ==
  /\ e.drivers = r.outages
  /\ Total(r.outages, LAMBDA o : LastedIn(o, Window(filter).first, Window(filter).last, today)) = r.downtime
  /\ e.figure.previous = r.downtimeBefore
  /\ SitesAgree =>
       /\ (\A o \in db.outages : o.start # DayEnd(filter.end)) => Cardinality(planned) = r.planned
       /\ \A a \in ScopedAssets(db, filter) :
            Profile(db, a.id, filter, today).forced = {o \in r.outages : o.asset = a.id}
       /\ \A o \in planned :
            PlannedState(o, filter, today) = "scheduled" <=>
              o \notin Profile(db, o.asset, filter, today).outages

WindowsAgree(r, trend, downtimeBefore) ==
  /\ SumOf(r.weeks) = r.count /\ SumOf(r.weeklyDowntime) = r.downtime
  /\ downtimeBefore = r.downtimeBefore
  /\ \A k \in 1..2 : trend[k].last + 1 = trend[k + 1].first
  /\ trend[3].value = r.count

IndicesAgree(r, now, first, last) ==
  SitesAgree /\ Unscoped /\ (\A o \in db.outages : o.end # Null /\ o.start >= first /\ o.end <= last)
  => /\ now.interrupted = r.interruptions
     /\ now.customerTime = r.customerTime
     /\ now.customers = r.customers

OutagesReconcile(r, rolling) ==
  /\ DriversAgree(r, Explanation(db, filter, "reliability", "total_downtime", today),
                  PlannedDrivers(db, filter, today))
  /\ WindowsAgree(r, Trend(db, filter, "reliability", "outage_count", 3, today),
                  Reliability(db, PreviousFilter(filter), today).downtime)
  /\ IndicesAgree(r, FamilyReliability(db, Unset, filter.end, filter.days, today).now,
                  Max({DayStart(Window(filter).first), rolling.from}),
                  Min({DayEnd(filter.end), rolling.to}))

\* Work figures: one open set under seven definitions, overdue work by age,
\* schedule compliance, drivers and repeat offenders (compute_maintenance_kpis,
\* compute_workforce_kpis, compute_asset_kpis, the two backlogs, the KPI engine).
\* The maintenance figures list failures without an asset as one more offender.
WorkAddsUp(m, people) ==
  /\ SumOf(m.byPriority) = Cardinality(m.open)
  /\ SumOf(m.ages) = Cardinality(m.overdue \cap OverdueAt(m.open, today))
  /\ m.unassignedCritical = Cardinality(people.unassigned)
  /\ m.met \cap m.late = {} /\ (m.met \cup m.late) \subseteq m.scheduled
  /\ Drivers(db, filter, "maintenance", "schedule", today) = m.late
  /\ SlowRepairs(db, filter) \subseteq Failures(db, today)
  /\ \A w \in people.unassigned : DaysPast(w, filter) > 0 <=> w \in m.overdue

EnginesAgree(m, family, ranked) ==
  /\ RiskBacklog(db, filter, today).rows = m.open
  /\ BySiteOnly => ranked.rows = m.open /\ SumOf(ranked.bands) = Cardinality(m.open)
  /\ SitesAgree =>
       /\ AssetFigures(db, filter, today).repeated = m.repeated \ {None}
       /\ filter.end = today =>
            /\ OverdueDrivers(db, filter, today) = m.overdue
            /\ BySiteOnly => family.overdue = m.overdue
       /\ BySiteOnly => family.open = m.open /\ family.backlog = m.backlog

WorkReconciles(m) ==
  /\ WorkAddsUp(m, Workforce(db, filter, today))
  /\ EnginesAgree(m, FamilyMaintenance(db, filter.site, filter.days, today),
                  RankedBacklog(db, filter.site, today))

\* Secured parts: five queries, one answer (_work_order_parts_readiness,
\* _material_blocker_map, compute_inventory_procurement_kpis,
\* risk_weighted_backlog, compute_parts_shortages).
PartsReconcile(open, blockers, stock, risk, lines) ==
  /\ \A w \in open : GroupOf(blockers, w.id) = Readiness(db, w.id).short
  /\ \A r \in lines : Missing(db, r) > 0
  /\ stock.blocked = Cardinality({r.work : r \in lines})
  /\ filter.criticality = "" =>
       /\ stock.blockedHighRisk = risk.blockedHighRisk
       /\ \A w \in risk.rows : w.id \in DOMAIN blockers <=> \E r \in lines : r.work = w.id
  /\ \A i \in stock.shown : Shortfall(i) >= i.reorder
  /\ Unscoped => stock.stockouts = FamilyInventory(db).stockouts
  /\ FamilyInventory(db).uncovered \subseteq FamilyInventory(db).low

\* Costs and incidents: every entry in one window of a trend, but for the last
\* second of a window, and every distribution of a count adds up to it
\* (compute_cost_kpis, compute_hse_kpis, compute_metric_trend).
CostsReconcile(c, trend) ==
  /\ trend[1].value + trend[2].value =
       Total({x \in db.ledger :
                /\ InScope(filter, AssetOf(db, x.asset).site, AssetOf(db, x.asset))
                /\ DayOf(x.at) \in trend[1].first..trend[2].last
                /\ x.at \notin {DayEnd(trend[k].last) : k \in 1..2}},
             LAMBDA x : x.amount)
  /\ trend[1].value = c.previous /\ trend[2].value = c.window
  /\ SumOf(c.byCriticality) = SumOf(c.top) /\ SumOf(c.bySite) <= c.window
  /\ filter.site # Unset => SumOf(c.bySite) = c.window

IncidentsReconcile(h) ==
  /\ SumOf(h.severities) = h.current /\ SumOf(h.byType) = h.current /\ SumOf(h.weeks) = h.current
  /\ SumOf(h.bands) >= h.current + h.previous
  /\ h.highRiskOpen = Cardinality(HseDrivers(db, filter, HighRiskIncident, today))
  /\ h.open = Cardinality(HseDrivers(db, filter, 0, today))

\* Plans and people in both engines.
CompanyReconciles(m, people, family) ==
  /\ Drivers(db, filter, "maintenance", "pm_compliance", today) = OverduePlans(db, filter)
  /\ Unscoped /\ filter.end = today =>
       SameShare(m.pmCompliance, FamilyMaintenance(db, Unset, filter.days, today).pmCompliance)
  /\ people.available <= family.available /\ people.total = family.active
  /\ people.dispatched >= family.dispatched

\* Every figure the dashboards compute in more than one place is the same in
\* all of them, wherever their definitions are meant to agree.
FiguresReconcile ==
  /\ scenario = "outages" =>
       OutagesReconcile(Reliability(db, filter, today), FamilyWindow(filter.end, filter.days, today))
  /\ scenario = "work" => WorkReconciles(Maintenance(db, filter, today))
  /\ scenario = "parts" =>
       PartsReconcile(OpenWork(db), BlockerMap(db, {w.id : w \in OpenWork(db)}), Inventory(db, filter),
                      RiskBacklog(db, filter, today), ShortagesInScope(db, filter))
  /\ scenario = "books" =>
       /\ CostsReconcile(Costs(db, filter), Trend(db, filter, "cost", "cost", 2, today))
       /\ IncidentsReconcile(Hse(db, filter, today))
  /\ scenario = "company" =>
       CompanyReconciles(Maintenance(db, filter, today), Workforce(db, filter, today), FamilyWorkforce(db))

AssetHealthAgrees(id, e, health) ==
  /\ health[id] = CanonicalHealth(db, id, today)
  /\ KernelHealth(e) <= health[id]
  /\ e.failures = 0 /\ e.downtime = 0 => KernelHealth(e) = health[id]

\* A severe deterioration trend raises the risk of an asset and lowers its score.
TrendHurts(severe, none) == severe.score <= none.score /\ severe.risk >= none.risk

PortfolioAddsUp(portfolio, figures) ==
  /\ SumOf(figures.bands) = figures.total
  /\ SumOf(PortfolioCounts(portfolio)) = Cardinality(ScopedAssets(db, filter))
  /\ Total((1..5) \X (1..5), LAMBDA cell : PortfolioCell(portfolio, cell[1], cell[2]))
       = Cardinality(ScopedAssets(db, filter))

\* The batched health of the executive figures reproduces the per-asset score,
\* the kernel of the APM views never shows an asset healthier than it and agrees
\* without evidence of its own, and the bands of the assets add up
\* (_asset_health_map, _asset_health, reliability.compute_asset_health).
HealthIsCanonical ==
  scenario = "health" =>
    /\ \A id \in {a.id : a \in db.assets} :
         /\ AssetHealthAgrees(id, Evidence(db, AssetOf(db, id), "none", today),
                              HealthMap(db, {a.id : a \in db.assets}, today))
         /\ TrendHurts(Explained(db, id, "severe", today), Explained(db, id, "none", today))
    /\ PortfolioAddsUp(PortfolioRisk(db, filter, "none", today), AssetFigures(db, filter, today))
    /\ ScopedByAsset(db, filter, db.alarms) # {} => Freshness(db, filter, today) = "current"

\* No open work is less risky in `after` than in `before`.
NoLessRisk(before, after) == \A w \in before.rows : after.risk[w] >= before.risk[w]

\* Waiting improves nothing: as a day passes over unchanged tables no open work
\* is less risky, no asset healthier and nothing overdue is in time again
\* (risk_score_work_order, _asset_health, compute_maintenance_kpis).
WaitingNeverHelps ==
  [][today' > today /\ scenario \in {"work", "health"} =>
       /\ NoLessRisk(RiskBacklog(db, filter, today), RiskBacklog(db, filter, today'))
       /\ \A a \in db.assets : CanonicalHealth(db, a.id, today') <= CanonicalHealth(db, a.id, today)
       /\ FamilyMaintenance(db, Unset, 1, today).overdue
            \subseteq FamilyMaintenance(db, Unset, 1, today').overdue]_vars
=============================================================================
