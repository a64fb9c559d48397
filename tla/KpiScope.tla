------------------------------ MODULE KpiScope ------------------------------
(* What every figure of the dashboards shares: the filter a reader chooses,   *)
(* the windows it stands for, the rows inside its scope, and the overlap of   *)
(* an outage with a window.  A database is a record of tables, a table a set  *)
(* of rows, so that a figure is a set of rows and a count its cardinality.    *)
(* The filters on region and asset class are, like the two kept here (site    *)
(* and criticality), a comparison with a column of the same joined rows; the  *)
(* region stays because outages take it from another table than the site.     *)
EXTENDS Integers, FiniteSets, FiniteSetsExt

CONSTANTS
  RegionOf,      \* the region of each site
  CustomersOf,   \* the customers declared by each site, 0 when none are
  RepeatDays     \* the days after which a failure is no longer recent (90)

Null == -1       \* a date or time column without a value
None == 0        \* a reference column without a value
Unset == 0         \* a filter on a site or region that is not set; "" for a criticality

Slots == 3       \* instants of a day; the last of them is 23:59:59
DayOf(t) == t \div Slots
DayStart(d) == d * Slots
DayEnd(d) == d * Slots + Slots - 1
NowOf(today) == DayStart(today) + 1

Closed == {"Completed", "Closed", "Cancelled"}
Finished == {"Completed", "Closed"}
\* work_type LIKE 'Corrective%'
CorrectiveTypes == {"Corrective", "Corrective Maintenance"}
ActiveAlarm == {"Open", "Acknowledged"}
HighPriority == {"Emergency", "Critical", "High"}
TopPriority == {"Emergency", "Critical"}

-----------------------------------------------------------------------------
(* A filter is [end, days, site, region, criticality]; its window and the     *)
(* window before it, as first and last days.                                  *)
Window(f) ==
  LET days == Max({1, f.days})
      first == f.end - days + 1
  IN [first |-> first, last |-> f.end, days |-> days,
      prevFirst |-> first - days, prevLast |-> first - 1]

PreviousFilter(f) == [f EXCEPT !.end = Window(f).prevLast]

\* The asset a row refers to; a row without asset fails every filter on one.
NoAsset == [id |-> None, site |-> None, criticality |-> "", condition |-> "", status |-> ""]
AssetOf(db, id) ==
  IF \E a \in db.assets : a.id = id THEN CHOOSE a \in db.assets : a.id = id ELSE NoAsset

SiteMatches(f, site) ==
  /\ f.site # Unset => site = f.site
  /\ f.region # Unset => site # None /\ RegionOf[site] = f.region

\* _asset_scope: the clause appended to a query whose rows are joined with a
\* site and an asset.
InScope(f, site, asset) ==
  /\ SiteMatches(f, site)
  /\ f.criticality # "" => asset.criticality = f.criticality

ScopedAssets(db, f) == {a \in db.assets : InScope(f, a.site, a)}
ScopedWork(db, f) == {w \in db.work : InScope(f, w.site, AssetOf(db, w.asset))}
ScopedByAsset(db, f, rows) ==
  {r \in rows : LET a == AssetOf(db, r.asset) IN a.id # None /\ InScope(f, a.site, a)}

\* When finished work ended: COALESCE(actual_finish, created_at) where failures
\* are counted, COALESCE(actual_finish, updated_at) in two queries.
EndOf(w) == IF w.finish = Null THEN w.created ELSE w.finish
EndOrUpdate(w) == IF w.finish = Null THEN w.updated ELSE w.finish

\* Instants an outage lasts inside [from, to]; an open one lasts until now.
Overlap(start, end, from, to, now) ==
  LET left == Max({start, from})
      right == Min({IF end = Null THEN Min({now, to}) ELSE end, to})
  IN Max({0, right - left})

Total(rows, Value(_)) == MapThenSumSet(Value, rows)

\* The first n rows of an ordering, as ORDER BY ... LIMIT n returns them.
Top(rows, n, Before(_, _)) ==
  {r \in rows : Cardinality({q \in rows : Before(q, r)}) < n}

\* A share as numerator and denominator; a rate of nothing is complete.
Share(part, whole) == IF whole = 0 THEN <<1, 1>> ELSE <<part, whole>>
SameShare(p, q) == p[1] * q[2] = q[1] * p[2]
=============================================================================
