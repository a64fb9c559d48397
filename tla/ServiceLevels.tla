---------------------------- MODULE ServiceLevels ----------------------------
(***************************************************************************)
(* Service levels of work orders (app/application.py): the targets of a    *)
(* policy, the verdicts that starting and completing work records, and the *)
(* scan of the automation that escalates breaches.                         *)
(*                                                                         *)
(* The scan decides on rows it read at its beginning; a start or a         *)
(* completion takes its time stamp before it commits.                      *)
(***************************************************************************)
EXTENDS Naturals

CONSTANTS
  Work,       \* work orders of one priority, created at time 0
  Scanners,   \* concurrent runs of the scan
  Minutes,    \* targets a policy may have, in ticks
  FirstPolicy,\* those it has at the start, by kind
  MaxTime,    \* bound: ticks in a behaviour
  MaxPolicies \* bound: changes of the policy

VARIABLES
  work,      \* work[w]: its status, when it was started and completed
  policy,    \* the targets of the policy
  sla,       \* work_order_sla: the work orders that have a row
  events,    \* sla_events: the pairs of work order and kind
  scan,      \* scan[c]: the rows a run has inserted and read, and its cutoff
  stamp,     \* stamp[w]: the time of a start or completion under way
  clock,
  announced, \* ghost: announced[w][k]: breach events emitted
  policies   \* changes of the policy so far

levelVars == <<work, policy, sla, events, scan, stamp, clock, announced, policies>>

Kinds == {"response", "resolution"}
Never == MaxTime + 1
Verdicts == {"Pending", "Met", "Breached"}
Final == {"Completed", "Cancelled"}

SlaRow == [due : [Kinds -> Nat], verdict : [Kinds -> Verdicts], level : 0..1]
NoScan == [rows |-> <<>>, new |-> {}, cutoff |-> Never, status |-> <<>>]

TypeOK ==
  /\ \A w \in Work : work[w].status \in {"Assigned", "In Progress"} \union Final
  /\ DOMAIN sla \subseteq Work
  /\ \A w \in DOMAIN sla : sla[w] \in SlaRow
  /\ events \subseteq Work \X Kinds
  /\ \A c \in Scanners : scan[c].new \subseteq Work
  /\ clock \in 0..MaxTime /\ policies \in 0..MaxPolicies

Init ==
  /\ work = [w \in Work |-> [status |-> "Assigned", at |-> [k \in Kinds |-> Never]]]
  /\ policy = FirstPolicy
  /\ sla = <<>>
  /\ events = {}
  /\ scan = [c \in Scanners |-> NoScan]
  /\ stamp = [w \in Work |-> Never]
  /\ clock = 0
  /\ announced = [w \in Work |-> [k \in Kinds |-> 0]]
  /\ policies = 0

-----------------------------------------------------------------------------
Verdict(at, due) == IF at = Never THEN "Pending" ELSE IF at <= due THEN "Met" ELSE "Breached"

\* _ensure_work_sla of a row that is not there, or by force.
Computed(w, p, level) ==
  [due |-> p, verdict |-> [k \in Kinds |-> Verdict(work[w].at[k], p[k])], level |-> level]

Missing == Work \ DOMAIN sla

\* _backfill_work_order_slas, of a report.
Backfilled(W) == [w \in DOMAIN sla \union W |->
                    IF w \in DOMAIN sla THEN sla[w] ELSE Computed(w, policy, 0)]

Backfill ==
  /\ Missing # {}
  /\ sla' = Backfilled(Missing)
  /\ UNCHANGED <<work, policy, events, scan, stamp, clock, announced, policies>>

KindOf(w) == IF work[w].status = "Assigned" THEN "response" ELSE "resolution"

\* start and complete of transition_work_order take the time ...
Stamp(w) ==
  /\ work[w].status \in {"Assigned", "In Progress"}
  /\ stamp[w] = Never
  /\ stamp' = [stamp EXCEPT ![w] = clock]
  /\ UNCHANGED <<work, policy, sla, events, scan, clock, announced, policies>>

\* ... and commit the verdict: _mark_sla_response, _mark_sla_resolution.
CommitStamp(w) ==
  LET k == KindOf(w)
      row == Backfilled({w})[w]
  IN /\ stamp[w] # Never
     /\ work[w].status \notin Final
     /\ work' = [work EXCEPT ![w].status = IF k = "response" THEN "In Progress" ELSE "Completed",
                             ![w].at[k] = stamp[w]]
     /\ sla' = [x \in DOMAIN sla \union {w} |->
                  IF x # w THEN sla[x]
                  ELSE [row EXCEPT !.verdict[k] = Verdict(stamp[w], row.due[k])]]
     /\ stamp' = [stamp EXCEPT ![w] = Never]
     /\ UNCHANGED <<policy, events, scan, clock, announced, policies>>

Cancel(w) ==
  /\ work[w].status \notin Final
  /\ work' = [work EXCEPT ![w].status = "Cancelled"]
  /\ UNCHANGED <<policy, sla, events, scan, stamp, clock, announced, policies>>

\* update_sla_policy: every row of the priority is computed anew.
ChangePolicy(p) ==
  /\ policies < MaxPolicies
  /\ p # policy /\ p["response"] <= p["resolution"]
  /\ policy' = p
  /\ sla' = [w \in Work |-> Computed(w, p, IF w \in DOMAIN sla THEN sla[w].level ELSE 0)]
  /\ policies' = policies + 1
  /\ UNCHANGED <<work, events, scan, stamp, clock, announced>>

-----------------------------------------------------------------------------
\* _run_sla_scan inserts what is missing and reads the active work; the target
\* day may be a later one.
Scan(c, ahead) ==
  /\ scan[c] = NoScan
  /\ scan' = [scan EXCEPT ![c] =
       [rows |-> Backfilled(Missing), new |-> Missing, cutoff |-> clock + ahead,
        status |-> [w \in Work |-> work[w].status]]]
  /\ UNCHANGED <<work, policy, sla, events, stamp, clock, announced, policies>>

Overdue(x, w, k) ==
  /\ x.status[w] \notin Final
  /\ x.rows[w].verdict[k] = "Pending" /\ x.rows[w].due[k] < x.cutoff
  /\ k = "response" => x.status[w] # "In Progress"

Breaches(c) == {b \in Work \X Kinds : Overdue(scan[c], b[1], b[2])}

\* Mutant: a breach that is on record is announced again.
AllOf(breaches) == breaches

\* INSERT OR IGNORE INTO sla_events, and its row count.
NewOf(breaches) == breaches \ events

\* A row another transaction has inserted meanwhile makes the scan fail.
CommitScan(c) ==
  /\ scan[c] # NoScan
  /\ scan' = [scan EXCEPT ![c] = NoScan]
  /\ IF scan[c].new \intersect DOMAIN sla # {}
       THEN UNCHANGED <<sla, events, announced>>
       ELSE /\ sla' = [w \in Work |->
                 [(IF w \in scan[c].new THEN scan[c].rows[w] ELSE sla[w]) EXCEPT
                    !.verdict = [k \in Kinds |-> IF <<w, k>> \in Breaches(c) THEN "Breached" ELSE @[k]],
                    !.level = IF \E k \in Kinds : <<w, k>> \in Breaches(c) THEN 1 ELSE @]]
            /\ events' = events \union Breaches(c)
            /\ announced' = [w \in Work |-> [k \in Kinds |->
                 announced[w][k] + IF <<w, k>> \in NewOf(Breaches(c)) THEN 1 ELSE 0]]
  /\ UNCHANGED <<work, policy, stamp, clock, policies>>

Tick ==
  /\ clock < MaxTime
  /\ clock' = clock + 1
  /\ UNCHANGED <<work, policy, sla, events, scan, stamp, announced, policies>>

Next ==
  \/ Backfill \/ Tick
  \/ \E w \in Work : Stamp(w) \/ CommitStamp(w) \/ Cancel(w)
  \/ \E p \in [Kinds -> Minutes] : ChangePolicy(p)
  \/ \E c \in Scanners : CommitScan(c) \/ \E ahead \in 0..1 : Scan(c, ahead)

-----------------------------------------------------------------------------
\* A breach is announced once, however many scans find it and however often a
\* changed policy makes the row pending again, and a work order is escalated
\* exactly if a breach of it was announced (_run_sla_scan, _ensure_work_sla).
BreachesAnnouncedOnce ==
  \A w \in Work :
    /\ \A k \in Kinds : announced[w][k] <= 1
    /\ w \in DOMAIN sla /\ sla[w].level = 1 <=> \E k \in Kinds : announced[w][k] > 0
=============================================================================
