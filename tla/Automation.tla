------------------------------ MODULE Automation -----------------------------
(***************************************************************************)
(* The scheduled automation of the replicas and the generation of          *)
(* preventive work orders (app/scheduler_store.py, app/pm_store.py, the    *)
(* executor in app/application.py and its post-commit wrapper in           *)
(* app/outbox_store.py).                                                   *)
(*                                                                         *)
(* Replicas loop: sleep, take the scheduler mutex, and run unless the      *)
(* latest scheduled run is a recent success.  Users run the automation or  *)
(* only the generator at any time, without the mutex.  A run is one        *)
(* transaction up to its commit, after which it still delivers events.     *)
(* Of the payload the generator is modelled; its other scans are an        *)
(* outcome, and the delivery is module Outbox.                             *)
(*                                                                         *)
(* Time has no origin: a due date is a number of ticks ahead, a finished   *)
(* run has an age, a sleeping replica a timer, so that behaviours go on    *)
(* for ever in finitely many states.                                       *)
(***************************************************************************)
EXTENDS Integers, FiniteSets, Drafts

CONSTANTS
  Replicas,     \* processes that run automation_loop_singleton
  Users,        \* people who run the automation or the generator by hand
  Plans,        \* active maintenance plans
  Triggers,     \* trigger types plans have
  Interval,     \* AUTOMATION_INTERVAL_MINUTES, in ticks
  Every,        \* interval_days of a calendar plan, in ticks
  Usage,        \* meter_interval of a meter plan
  Ahead,        \* as_of: how far ahead of today users may run the automation
  MaxLate,      \* bound: an older due date counts as the same one an interval later
  MaxFaults     \* bound: crashes and failed runs

Actors == Replicas \union Users

ASSUME AutomationAssumption ==
  /\ Replicas \intersect Users = {}
  /\ Triggers \subseteq {"Calendar", "Meter", "Condition"}
  /\ Interval \in Nat \ {0}
  /\ Every \in Nat \ {0}
  /\ Usage \in Nat \ {0}
  /\ Ahead \subseteq Nat
  /\ MaxLate \in Nat /\ MaxLate >= Every
  /\ MaxFaults \in Nat

VARIABLES
  plans,     \* plans[p]: a plan, the state of its asset and its open work orders
  lastRun,   \* the latest committed job_runs row of the scheduler, and its age
  phase,     \* phase[a]: where an actor is in its cycle
  timer,     \* timer[r]: the ticks a replica has still to sleep
  target,    \* target[a]: as_of of its run, in ticks from today
  due,       \* due[a]: the plans it read as due, as it read them
  draft,     \* draft[a]: the plans it has written and not committed
  result,    \* result[a]: its job_runs row, with the age of finished_at
  held,      \* held[a]: the mutex and generator rows it has locked
  faults     \* crashes and failed runs so far

vars == <<plans, lastRun, phase, timer, target, due, draft, result, held, faults>>

\* next: ticks to next_due; used: meter_reading - last_meter, up to twice the
\* interval; worn: the asset's condition is Warning, Poor or Critical; open: work
\* orders of the plan that are neither Closed nor Cancelled.
PlanRow == [trigger : Triggers, next : Int, used : 0..(2 * Usage), worn : BOOLEAN,
            open : Nat]

NoRun == [status |-> "None", age |-> 0]
\* Ages stop where they no longer matter: a run's own at an interval, that of the
\* latest one at two, so that the time between the two is not lost.
Run == [status : {"Running", "Succeeded", "Failed"}, age : 0..Interval]
PastRun == [status : {"Running", "Succeeded", "Failed"}, age : 0..(2 * Interval)]

Mutex == "users row of the system actor"
Generator == "pm_generation_lock"

TypeOK ==
  /\ plans \in [Plans -> PlanRow]
  /\ lastRun \in PastRun \union {NoRun}
  /\ phase \in [Actors -> {"down", "idle", "check", "start", "payload", "finish", "deliver"}]
  /\ timer \in [Replicas -> 0..Interval]
  /\ target \in [Actors -> Nat]
  /\ result \in [Actors -> Run \union {NoRun}]
  /\ \A a \in Actors :
       /\ DOMAIN due[a] \subseteq Plans
       /\ DOMAIN draft[a] \subseteq Plans
       /\ phase[a] = "idle" => held[a] = {} /\ draft[a] = <<>>
  /\ faults \in 0..MaxFaults

Init ==
  /\ \E trigger \in [Plans -> Triggers] :
       plans = [p \in Plans |-> [trigger |-> trigger[p], next |-> Every, used |-> 0,
                                 worn |-> FALSE, open |-> 0]]
  /\ lastRun = NoRun
  /\ phase = [a \in Actors |-> "idle"]
  /\ timer = [r \in Replicas |-> Interval]
  /\ target = [a \in Actors |-> 0]
  /\ due = [a \in Actors |-> <<>>]
  /\ draft = [a \in Actors |-> <<>>]
  /\ result = [a \in Actors |-> NoRun]
  /\ held = [a \in Actors |-> {}]
  /\ faults = 0

-----------------------------------------------------------------------------
\* Mutant: the generator takes no lock.
GeneratorUnlocked(a, lock) ==
  lock = Generator \/ \A b \in Actors \ {a} : lock \notin held[b]

\* Mutant: the scheduler takes no lock.
MutexUnlocked(a, lock) ==
  lock = Mutex \/ \A b \in Actors \ {a} : lock \notin held[b]

Free(a, lock) == \A b \in Actors \ {a} : lock \notin held[b]

Take(a, lock) ==
  /\ Free(a, lock)
  /\ held' = [held EXCEPT ![a] = @ \union {lock}]

Goto(a, to) == phase' = [phase EXCEPT ![a] = to]

\* The transaction is over, committed or not.
Forget(a) ==
  /\ target' = [target EXCEPT ![a] = 0]
  /\ due' = [due EXCEPT ![a] = <<>>]
  /\ draft' = [draft EXCEPT ![a] = <<>>]
  /\ result' = [result EXCEPT ![a] = NoRun]
  /\ held' = [held EXCEPT ![a] = {}]

\* The replica sleeps again, the user is done.
Rest(a) ==
  /\ Goto(a, "idle")
  /\ timer' = [r \in Replicas |-> IF r = a THEN Interval ELSE timer[r]]

-----------------------------------------------------------------------------
\* automation_loop_singleton and run_scheduled_automation_once

\* A replica that waits for the mutex is one that has slept enough.
LockScheduler(r) ==
  /\ phase[r] = "idle"
  /\ timer[r] = 0
  /\ Take(r, Mutex)
  /\ Goto(r, "check")
  /\ UNCHANGED <<plans, lastRun, timer, target, due, draft, result, faults>>

\* Mutant: any run counts, however old.
RecentRun == lastRun.status # "None"

\* Mutant: a success is recent for a tick less than the interval.
RecentTooShort == lastRun.status = "Succeeded" /\ lastRun.age < Interval - 1

\* _recent_scheduler_success: of the latest run only.  finished_at is cut to the
\* second and the cutoff is not: a run of exactly one interval ago is not recent.
RecentSuccess == lastRun.status = "Succeeded" /\ lastRun.age < Interval

Skip(r) ==
  /\ phase[r] = "check"
  /\ RecentSuccess
  /\ Rest(r)
  /\ Forget(r)
  /\ UNCHANGED <<plans, lastRun, faults>>

StartRun(r) ==
  /\ phase[r] = "check"
  /\ ~RecentSuccess
  /\ result' = [result EXCEPT ![r] = [status |-> "Running", age |-> 0]]
  /\ Goto(r, "start")
  /\ UNCHANGED <<plans, lastRun, timer, target, due, draft, held, faults>>

\* automation_run, and the generator on its own
StartByHand(u) ==
  /\ phase[u] = "idle"
  /\ \/ /\ \E k \in Ahead : target' = [target EXCEPT ![u] = k]
        /\ result' = [result EXCEPT ![u] = [status |-> "Running", age |-> 0]]
     \/ UNCHANGED <<target, result>>
  /\ Goto(u, "start")
  /\ UNCHANGED <<plans, lastRun, timer, due, draft, held, faults>>

-----------------------------------------------------------------------------
\* generate_due_pm_atomic

IsDue(row, at) ==
  \/ row.trigger = "Calendar" /\ row.next <= at
  \/ row.trigger = "Meter" /\ row.used >= Usage
  \/ row.trigger = "Condition" /\ row.worn

\* All plans are read once, after the gate is taken.
LockGenerator(a) ==
  /\ phase[a] = "start"
  /\ Take(a, Generator)
  /\ due' = [due EXCEPT ![a] =
               [p \in {q \in Plans : IsDue(plans[q], target[a])} |-> plans[p]]]
  /\ Goto(a, "payload")
  /\ UNCHANGED <<plans, lastRun, timer, target, draft, result, faults>>

\* Mutant: an interval after the run.
AdvancedFromTarget(next, at) == at + Every

\* The first due date of the calendar after the target.
Advanced(next, at) == next + Every * (((at - next) \div Every) + 1)

\* The open work order of a plan is looked up when its turn comes; the plan's
\* markers come from the read at the start.
GeneratePlan(a) ==
  \E p \in DOMAIN due[a] :
    LET row == due[a][p] IN
    /\ phase[a] = "payload"
    /\ due' = [due EXCEPT ![a] = [q \in DOMAIN @ \ {p} |-> @[q]]]
    /\ \/ plans[p].open > 0 /\ UNCHANGED draft
       \/ /\ plans[p].open = 0
          /\ draft' = [draft EXCEPT ![a] = Put(@, p,
               [row EXCEPT !.next = IF row.trigger = "Calendar"
                                      THEN Advanced(@, target[a]) ELSE @])]
    /\ UNCHANGED <<plans, lastRun, phase, timer, target, result, held, faults>>

-----------------------------------------------------------------------------
\* _execute_automation and execute_automation_postcommit

\* The savepoint is released and the run is marked.
Succeed(a) ==
  /\ phase[a] = "payload"
  /\ due[a] = <<>>
  /\ result' = [result EXCEPT ![a] =
                  IF @ = NoRun THEN NoRun ELSE [status |-> "Succeeded", age |-> 0]]
  /\ Goto(a, "finish")
  /\ UNCHANGED <<plans, lastRun, timer, target, due, draft, held, faults>>

UndonePayload(a) == draft' = [draft EXCEPT ![a] = <<>>]

\* Any scan of the payload raises: back to the savepoint, which also gives the
\* generator row back.
Fail(a) ==
  /\ phase[a] \in {"start", "payload"}
  /\ result[a] # NoRun
  /\ faults < MaxFaults
  /\ faults' = faults + 1
  /\ UndonePayload(a)
  /\ due' = [due EXCEPT ![a] = <<>>]
  /\ held' = [held EXCEPT ![a] = @ \ {Generator}]
  /\ result' = [result EXCEPT ![a] = [status |-> "Failed", age |-> 0]]
  /\ Goto(a, "finish")
  /\ UNCHANGED <<plans, lastRun, timer, target>>

\* What a committed generation leaves of a plan: last_meter is the reading that
\* the generation saw, usage since then counts on.
Generated(row, written) ==
  [row EXCEPT !.next = written.next, !.open = @ + 1,
              !.used = IF row.trigger = "Meter" THEN @ - written.used ELSE @]

Commit(a) ==
  /\ phase[a] = "finish"
  /\ plans' = [p \in Plans |-> IF p \notin DOMAIN draft[a] THEN plans[p]
                 ELSE Generated(plans[p], draft[a][p])]
  /\ lastRun' = IF a \in Replicas THEN result[a] ELSE lastRun
  /\ IF a \in Replicas /\ result[a].status = "Succeeded"
       THEN Goto(a, "deliver") /\ UNCHANGED timer
       ELSE Rest(a)
  /\ Forget(a)
  /\ UNCHANGED faults

\* The delivery of a replica ends or raises; neither changes what is committed
\* (a user's request ends with it, and does nothing else).
Deliver(a) ==
  /\ phase[a] = "deliver"
  /\ Rest(a)
  /\ UNCHANGED <<plans, lastRun, target, due, draft, result, held, faults>>

\* A replica dies and its transaction with it; a restarted one sleeps first.
Crash(r) ==
  /\ phase[r] # "down"
  /\ faults < MaxFaults
  /\ faults' = faults + 1
  /\ Goto(r, "down")
  /\ timer' = [timer EXCEPT ![r] = 0]
  /\ Forget(r)
  /\ UNCHANGED <<plans, lastRun>>

Restart(r) ==
  /\ phase[r] = "down"
  /\ Rest(r)
  /\ UNCHANGED <<plans, lastRun, target, due, draft, result, held, faults>>

-----------------------------------------------------------------------------
\* The rest of the system

\* A work order of the plan is closed or cancelled.
CloseWork(p) ==
  /\ plans[p].open > 0
  /\ plans' = [plans EXCEPT ![p].open = @ - 1]
  /\ UNCHANGED <<lastRun, phase, timer, target, due, draft, result, held, faults>>

\* A meter is read, an asset's condition changes.
AssetChanges(p) ==
  /\ \/ /\ plans[p].trigger = "Meter"
        /\ plans[p].used < 2 * Usage
        /\ plans' = [plans EXCEPT ![p].used = @ + 1]
     \/ /\ plans[p].trigger = "Condition"
        /\ plans' = [plans EXCEPT ![p].worn = ~@]
  /\ UNCHANGED <<lastRun, phase, timer, target, due, draft, result, held, faults>>

Older(run, bound) == IF run # NoRun /\ run.age < bound THEN [run EXCEPT !.age = @ + 1] ELSE run

Tick ==
  LET Closer(n) == IF n > -MaxLate THEN n - 1 ELSE n - 1 + Every
      Nearer(rows) == [p \in DOMAIN rows |-> IF rows[p].trigger = "Calendar"
                         THEN [rows[p] EXCEPT !.next = Closer(@)] ELSE rows[p]]
  IN
    /\ timer' = [r \in Replicas |-> IF timer[r] > 0 THEN timer[r] - 1 ELSE 0]
    /\ lastRun' = Older(lastRun, 2 * Interval)
    /\ result' = [a \in Actors |-> IF a \in Replicas THEN Older(result[a], Interval)
                                   ELSE result[a]]
    /\ plans' = Nearer(plans)
    /\ due' = [a \in Actors |-> Nearer(due[a])]
    /\ draft' = [a \in Actors |-> Nearer(draft[a])]
    /\ UNCHANGED <<phase, target, held, faults>>

RunStep(a) ==
  \/ LockGenerator(a)
  \/ GeneratePlan(a)
  \/ Succeed(a)
  \/ Commit(a)
  \/ Deliver(a)

ReplicaStep(r) ==
  \/ LockScheduler(r)
  \/ Skip(r)
  \/ StartRun(r)
  \/ Restart(r)
  \/ RunStep(r)

Next ==
  \/ \E r \in Replicas : ReplicaStep(r) \/ Crash(r)
  \/ \E u \in Users : StartByHand(u) \/ RunStep(u)
  \/ \E a \in Actors : Fail(a)
  \/ \E p \in Plans : CloseWork(p) \/ AssetChanges(p)
  \/ Tick

Spec == Init /\ [][Next]_vars

\* Processes run, transactions end, and time goes on; nobody has to close work.
Fairness ==
  /\ \A r \in Replicas : SF_vars(LockScheduler(r)) /\ SF_vars(LockGenerator(r))
  /\ \A r \in Replicas : WF_vars(ReplicaStep(r))
  /\ \A u \in Users : WF_vars(RunStep(u))
  /\ WF_vars(Tick)

FairSpec == Spec /\ Fairness

-----------------------------------------------------------------------------
\* Properties

(* "Serialize the complete due-plan scan/check/create cycle": a plan has at *)
(* most one open work order, whoever generates at once.                     *)
OneOpenOrderPerPlan == TypeOK /\ \A p \in Plans : plans[p].open <= 1

(* "Only a recent successful generation suppresses duplicate execution":    *)
(* when a scheduled run that succeeded is committed, it has finished an     *)
(* interval or more after the one before, if that succeeded, whichever      *)
(* replicas they ran on: the difference of the ages of the two.             *)
ScheduledRunsAreSpaced ==
  [][\A r \in Replicas :
       (phase[r] = "finish" /\ phase'[r] = "deliver" /\ lastRun.status = "Succeeded")
         => lastRun.age - result[r].age >= Interval]_vars

(* A calendar keeps its rhythm: a generation moves the due date of its plan *)
(* later, by whole intervals; nothing else but time moves it; and a run     *)
(* that failed leaves no trace in the plans.                                *)
CalendarKeepsRhythm ==
  [][\A p \in Plans :
       LET moved == plans'[p].next - plans[p].next IN
         moved # 0 =>
           \/ Tick
           \/ /\ moved > 0
              /\ moved % Every = 0
              /\ \E a \in Actors : phase[a] = "finish" /\ phase'[a] # "finish"
                   /\ result[a].status # "Failed"]_vars

(* Under fair replicas and a clock that goes on, a plan that is due gets    *)
(* its work order or stops being due, through crashes and failed runs.      *)
DuePlansGetWork ==
  \A p \in Plans : (IsDue(plans[p], 0) /\ plans[p].open = 0)
                       ~> (plans[p].open > 0 \/ ~IsDue(plans[p], 0))
=============================================================================
