---------------------------- MODULE AssetHealth -----------------------------
(* The health and the risk of an asset.  Three places compute the score: the  *)
(* per-asset query of the application, the batched map of the executive       *)
(* figures, which promises to reproduce it exactly, and the kernel of the APM *)
(* views, which adds evidence of its own.  Each is written from its source.   *)
EXTENDS KpiScope

Conditions == {"Good", "Fair", "Warning", "Poor", "Critical"}
Criticalities == {"Low", "Medium", "High", "Critical"}
Bands == {"Healthy", "Monitor", "Warning", "Critical"}

PointsOf(table, key, default) == IF key \in DOMAIN table THEN table[key] ELSE default
ConditionPenalty(c) == PointsOf([Good |-> 0, Fair |-> 10, Warning |-> 25, Poor |-> 40, Critical |-> 55], c, 15)
CriticalityPenalty(c) == PointsOf([Low |-> 0, Medium |-> 3, High |-> 7, Critical |-> 12], c, 3)
StatusPenalty(s) ==
  IF s \in {"Operating", "Standby"} THEN 0
  ELSE IF s \in {"Under Maintenance", "Restricted"} THEN 10 ELSE 25

HealthBand(score) ==
  IF score >= 85 THEN "Healthy" ELSE IF score >= 70 THEN "Monitor"
  ELSE IF score >= 50 THEN "Warning" ELSE "Critical"

ScoreOf(penalty) == Max({0, Min({100, 100 - penalty})})
Capped(cap, points) == Min({cap, points})

-----------------------------------------------------------------------------
(* application._asset_health: one asset, its rows read one table at a time.   *)
Late(w, today) == w.target # Null /\ w.target < today
SlaBreached(w) == w.sla \cap {"Response", "Resolution"} # {}

CanonicalHealth(db, id, today) ==
  LET a == AssetOf(db, id)
      open == {w \in db.work : w.asset = id /\ w.status \notin Closed}
      alarms == {x \in db.alarms : x.asset = id /\ x.status \in ActiveAlarm}
      high == Cardinality({w \in open : w.priority \in HighPriority})
      overdue == Cardinality({w \in open : Late(w, today)})
      failed == Cardinality({i \in db.inspections : i.asset = id /\ i.result = "Fail"})
      sla == Cardinality({w \in db.work : w.asset = id /\ SlaBreached(w)})
      critical == Cardinality({x \in alarms : x.severity = "Critical"})
  IN ScoreOf(ConditionPenalty(a.condition) + CriticalityPenalty(a.criticality)
             + StatusPenalty(a.status) + Capped(25, high * 7) + Capped(20, overdue * 5)
             + Capped(16, failed * 8) + Capped(10, sla * 5)
             + Capped(18, Cardinality(alarms) * 5 + critical * 5))

(* kpi_service._asset_health_map: one grouped query per table over all assets;*)
(* an asset without a group has the default counts.                           *)
Grouped(rows, ids, Weight(_)) ==
  [id \in {r.asset : r \in rows} \cap ids |-> Total({r \in rows : r.asset = id}, Weight)]
\* Mutant of GroupOf: a missing group counted as one row.
GroupOfAtLeastOne(groups, id) == IF id \in DOMAIN groups THEN groups[id] ELSE 1

GroupOf(groups, id) == IF id \in DOMAIN groups THEN groups[id] ELSE 0

HealthMap(db, ids, today) ==
  LET One(r) == 1
      open == {w \in db.work : w.status \notin Closed}
      IsHigh(w) == IF w.priority \in HighPriority THEN 1 ELSE 0
      IsLate(w) == IF Late(w, today) THEN 1 ELSE 0
      AlarmPoints(x) == IF x.severity = "Critical" THEN 10 ELSE 5
      high == Grouped(open, ids, IsHigh)
      late == Grouped(open, ids, IsLate)
      failed == Grouped({i \in db.inspections : i.result = "Fail"}, ids, One)
      sla == Grouped({w \in db.work : SlaBreached(w)}, ids, One)
      alarms == Grouped({x \in db.alarms : x.status \in ActiveAlarm}, ids, AlarmPoints)
  IN [id \in ids \cap {a.id : a \in db.assets} |->
       LET a == AssetOf(db, id) IN
         ScoreOf(ConditionPenalty(a.condition) + CriticalityPenalty(a.criticality)
                 + StatusPenalty(a.status)
                 + Capped(25, GroupOf(high, id) * 7) + Capped(20, GroupOf(late, id) * 5)
                 + Capped(16, GroupOf(failed, id) * 8) + Capped(10, GroupOf(sla, id) * 5)
                 + Capped(18, GroupOf(alarms, id)))]

-----------------------------------------------------------------------------
(* apm_store.gather_health_evidence: the rows of one asset and, on top of the *)
(* canonical evidence, recent failures, forced downtime and the trend level   *)
(* its channels show, which the caller supplies.                              *)
Evidence(db, a, trend, today) ==
  LET recent == DayStart(today) - RepeatDays * Slots
      open == {w \in db.work : w.asset = a.id /\ w.status \notin Closed}
      alarms == {x \in db.alarms : x.asset = a.id /\ x.status \in ActiveAlarm}
      ended(o) == IF o.status = "Open" \/ o.end = Null THEN NowOf(today) ELSE o.end
      Lasted(o) == Max({0, ended(o) - o.start})
  IN [condition |-> a.condition, criticality |-> a.criticality, status |-> a.status,
      high |-> Cardinality({w \in open : w.priority \in HighPriority}),
      overdue |-> Cardinality({w \in open : Late(w, today)}),
      failed |-> Cardinality({i \in db.inspections : i.asset = a.id /\ i.result = "Fail"}),
      sla |-> Cardinality({w \in db.work : w.asset = a.id /\ SlaBreached(w)}),
      alarms |-> Cardinality(alarms),
      critical |-> Cardinality({x \in alarms : x.severity = "Critical"}),
      failures |-> Cardinality({w \in db.work : /\ w.asset = a.id
                                                /\ w.type \in {"Corrective", "Emergency"}
                                                /\ w.status \in Finished
                                                /\ EndOrUpdate(w) >= recent}),
      trend |-> trend,
      downtime |-> Total({o \in db.outages : o.asset = a.id /\ o.type = "Forced" /\ o.start >= recent}, Lasted)]

\* Hours of forced outage an instant of the model stands for.
HoursPerSlot == 8

(* reliability.compute_asset_health.                                          *)
KernelHealth(e) ==
  ScoreOf(ConditionPenalty(e.condition) + CriticalityPenalty(e.criticality)
          + StatusPenalty(e.status) + Capped(25, e.high * 7) + Capped(20, e.overdue * 5)
          + Capped(16, e.failed * 8) + Capped(10, e.sla * 5)
          + Capped(18, e.alarms * 5 + e.critical * 5) + Capped(15, e.failures * 5)
          + PointsOf([none |-> 0, adverse |-> 6, severe |-> 12], e.trend, 0)
          + Capped(10, (e.downtime * HoursPerSlot) \div 4))

(* reliability.compute_asset_risk.  Both callers pass the evidence and the    *)
(* band, and the evidence has no severe_trend, so that point is never added.  *)
Likelihood(e, band) ==
  Min({5, 1 + (CASE band = "Critical" -> 2 [] band = "Warning" -> 1 [] OTHER -> 0)
            + (IF e.critical > 0 THEN 1 ELSE 0) + (IF e.failures >= 2 THEN 1 ELSE 0)})
Consequence(e) ==
  Min({5, PointsOf([Low |-> 2, Medium |-> 3, High |-> 4, Critical |-> 5], e.criticality, 3)
            + (IF e.downtime * HoursPerSlot > 24 THEN 1 ELSE 0)})
RiskLevel(risk) ==
  IF risk >= 17 THEN "Extreme" ELSE IF risk >= 10 THEN "High"
  ELSE IF risk >= 5 THEN "Medium" ELSE "Low"

\* explain_asset_health_view: health, band and risk of one asset.
Explained(db, id, trend, today) ==
  LET e == Evidence(db, AssetOf(db, id), trend, today)
      score == KernelHealth(e)
      band == HealthBand(score)
      risk == Likelihood(e, band) * Consequence(e)
  IN [score |-> score, band |-> band, likelihood |-> Likelihood(e, band),
      consequence |-> Consequence(e), risk |-> risk, level |-> RiskLevel(risk)]

\* portfolio_risk_view: its query selects neither the condition nor the status
\* of an asset, so the evidence it scores has neither.
PortfolioRisk(db, f, trend, today) ==
  [id \in {a.id : a \in ScopedAssets(db, f)} |->
     Explained([db EXCEPT !.assets = {[a EXCEPT !.condition = "", !.status = ""] : a \in db.assets}],
               id, trend, today)]
PortfolioCounts(portfolio) ==
  [level \in {"Extreme", "High", "Medium", "Low"} |->
     Cardinality({id \in DOMAIN portfolio : portfolio[id].level = level})]
PortfolioCell(portfolio, consequence, likelihood) ==
  Cardinality({id \in DOMAIN portfolio : /\ portfolio[id].consequence = consequence
                                         /\ portfolio[id].likelihood = likelihood})
=============================================================================
