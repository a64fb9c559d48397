--------------------------- MODULE AutomationProofs --------------------------
(***************************************************************************)
(* What Automation guarantees for every number of replicas, users and      *)
(* plans, for all intervals, and through any number of crashes and         *)
(* failed runs: the bounds MaxLate and MaxFaults are constants too.        *)
(***************************************************************************)
EXTENDS Automation, TLAPS

-----------------------------------------------------------------------------
\* The inductive invariant

\* What an actor may have read or written of the plans.
Rows == UNION {[D -> PlanRow] : D \in SUBSET Plans}

LockType ==
  /\ due \in [Actors -> Rows]
  /\ draft \in [Actors -> Rows]
  /\ held \in [Actors -> SUBSET {Mutex, Generator}]
  /\ \A a, b \in Actors : a # b => held[a] \intersect held[b] = {}

\* A due date and one that is some intervals later.
Rhythm(later, earlier) == \E k \in Nat : later - earlier = k * Every

\* Nothing has happened to a plan that was read but what happens outside of
\* generation.
ReadBefore(row, plan) ==
  /\ row.trigger = plan.trigger
  /\ row.used <= plan.used

DueRow(row, plan, at) ==
  /\ ReadBefore(row, plan)
  /\ row.next = plan.next
  /\ row.trigger = "Calendar" => row.next <= at

\* The row of a plan that gets its work order.
DraftRow(row, plan) ==
  /\ ReadBefore(row, plan)
  /\ plan.open = 0
  /\ Rhythm(row.next, plan.next)

\* Only the holder of the generator row has plans in hand.
InHand(a) ==
  /\ DOMAIN due[a] # {} \/ DOMAIN draft[a] # {} => Generator \in held[a]
  /\ \A p \in DOMAIN due[a] : DueRow(due[a][p], plans[p], target[a])
  /\ \A p \in DOMAIN draft[a] : DraftRow(draft[a][p], plans[p])

\* An actor between two transactions.
AtRest(a) ==
  phase[a] \in {"down", "idle", "deliver"} =>
    held[a] = {} /\ draft[a] = <<>> /\ due[a] = <<>>

\* A run is an interval or more away from the latest success.
Apart(run) ==
  /\ run \in Run
  /\ lastRun.status = "Succeeded" => lastRun.age - run.age >= Interval

\* A scheduled run holds the mutex and goes on as long as no other is recent.
Scheduled(a) ==
  a \in Replicas =>
    /\ phase[a] \in {"check", "start", "payload", "finish"} => Mutex \in held[a]
    /\ phase[a] \in {"start", "payload", "finish"} => Apart(result[a])

\* A failed run has nothing left to commit.
Undone(a) == phase[a] = "finish" /\ result[a].status = "Failed" => draft[a] = <<>>

ActorInv(a) == InHand(a) /\ AtRest(a) /\ Scheduled(a) /\ Undone(a)

IInv ==
  /\ TypeOK
  /\ LockType
  /\ \A p \in Plans : plans[p].open <= 1
  /\ \A a \in Actors : ActorInv(a)

-----------------------------------------------------------------------------
\* Rows and dates

Phases == {"down", "idle", "check", "start", "payload", "finish", "deliver"}
Results == Run \union {NoRun}
PastResults == PastRun \union {NoRun}

LEMMA NothingInHand == <<>> \in Rows /\ DOMAIN <<>> = {}
<1>1. DOMAIN <<>> = {}
  OBVIOUS
<1>2. <<>> \in [{} -> PlanRow]
  OBVIOUS
<1>3. QED
  BY <1>1, <1>2 DEF Rows

LEMMA RowsType ==
  ASSUME NEW rows \in Rows
  PROVE  DOMAIN rows \subseteq Plans /\ \A p \in DOMAIN rows : rows[p] \in PlanRow
BY DEF Rows

LEMMA PutType ==
  ASSUME NEW rows \in Rows, NEW p \in Plans, NEW row \in PlanRow
  PROVE  /\ Put(rows, p, row) \in Rows
         /\ DOMAIN Put(rows, p, row) = DOMAIN rows \union {p}
         /\ Put(rows, p, row)[p] = row
         /\ \A q \in DOMAIN rows \ {p} : Put(rows, p, row)[q] = rows[q]
<1>1. PICK D \in SUBSET Plans : rows \in [D -> PlanRow]
  BY DEF Rows
<1>2. Put(rows, p, row) \in [D \union {p} -> PlanRow]
  BY <1>1 DEF Put
<1>3. D \union {p} \in SUBSET Plans
  OBVIOUS
<1>4. Put(rows, p, row) \in Rows
  BY <1>2, <1>3 DEF Rows
<1>5. QED
  BY <1>1, <1>4 DEF Put

\* A plan that has had its turn is struck off.
LEMMA StrikeType ==
  ASSUME NEW rows \in Rows, NEW p
  PROVE  LET rest == [q \in DOMAIN rows \ {p} |-> rows[q]] IN
           /\ rest \in Rows
           /\ DOMAIN rest = DOMAIN rows \ {p}
           /\ \A q \in DOMAIN rest : rest[q] = rows[q]
<1>1. PICK D \in SUBSET Plans : rows \in [D -> PlanRow]
  BY DEF Rows
<1>2. [q \in DOMAIN rows \ {p} |-> rows[q]] \in [D \ {p} -> PlanRow]
  BY <1>1
<1>3. D \ {p} \in SUBSET Plans
  OBVIOUS
<1>4. QED
  BY <1>2, <1>3 DEF Rows

\* Time brings a due date closer; a very late one counts an interval later.
Closer(n) == IF n > -MaxLate THEN n - 1 ELSE n - 1 + Every

Nearer(rows) ==
  [p \in DOMAIN rows |-> IF rows[p].trigger = "Calendar"
     THEN [rows[p] EXCEPT !.next = Closer(@)] ELSE rows[p]]

LEMMA RhythmReflexive ==
  ASSUME AutomationAssumption, NEW n \in Int
  PROVE  Rhythm(n, n)
<1>1. n - n = 0 * Every
  BY DEF AutomationAssumption
<1>2. QED
  BY <1>1 DEF Rhythm

\* The next due date is some whole intervals later.
LEMMA RhythmOfAdvance ==
  ASSUME AutomationAssumption, NEW next \in Int, NEW at \in Nat, next <= at
  PROVE  Advanced(next, at) \in Int /\ Rhythm(Advanced(next, at), next)
<1> DEFINE k == ((at - next) \div Every) + 1
<1>1. Every \in Nat \ {0}
  BY DEF AutomationAssumption
<1>2. (at - next) \div Every \in Int /\ (at - next) \div Every >= 0
  BY <1>1
<1>3. k \in Nat
  BY <1>2
<1>4. Advanced(next, at) = next + Every * k
  BY DEF Advanced
<1> HIDE DEF k
<1>5. Every * k \in Int /\ Every * k = k * Every
  BY <1>1, <1>3
<1>6. Advanced(next, at) - next = k * Every
  BY <1>4, <1>5
<1>7. QED
  BY <1>3, <1>4, <1>5, <1>6 DEF Rhythm

\* Time does not disturb the rhythm.
LEMMA RhythmInTime ==
  ASSUME AutomationAssumption, NEW later \in Int, NEW earlier \in Int, Rhythm(later, earlier)
  PROVE  Rhythm(Closer(later), Closer(earlier))
<1>1. PICK k \in Nat : later - earlier = k * Every
  BY DEF Rhythm
<1>2. Every \in Nat \ {0} /\ MaxLate \in Nat
  BY DEF AutomationAssumption
<1>3. k * Every \in Nat
  BY <1>2
<1>4. CASE k = 0
  <2>1. later = earlier
    BY <1>1, <1>2, <1>4
  <2>2. Closer(later) \in Int
    BY <1>2 DEF Closer
  <2>3. QED
    BY <2>1, <2>2, RhythmReflexive
<1>5. CASE k # 0
  <2>1. (k - 1) * Every = k * Every - Every /\ k - 1 \in Nat
    BY <1>2, <1>5
  <2>2. later >= earlier + Every
    BY <1>1, <1>2, <1>3, <2>1
  <2>3. \/ Closer(later) - Closer(earlier) = k * Every
        \/ Closer(later) - Closer(earlier) = (k - 1) * Every
    BY <1>1, <1>2, <1>3, <2>1, <2>2 DEF Closer
  <2>4. QED
    BY <2>1, <2>3 DEF Rhythm
<1>6. QED
  BY <1>4, <1>5

\* A due date that moves in rhythm moves by whole intervals.
LEMMA RhythmModulo ==
  ASSUME AutomationAssumption, NEW later \in Int, NEW earlier \in Int, Rhythm(later, earlier)
  PROVE  later - earlier >= 0 /\ (later - earlier) % Every = 0
<1>1. PICK k \in Nat : later - earlier = k * Every
  BY DEF Rhythm
<1>2. Every \in Nat \ {0}
  BY DEF AutomationAssumption
<1>3. (k * Every) % Every = 0 /\ k * Every >= 0
  BY <1>2
<1>4. QED
  BY <1>1, <1>3

LEMMA NearerRow ==
  ASSUME AutomationAssumption, NEW row \in PlanRow
  PROVE  LET new == IF row.trigger = "Calendar" THEN [row EXCEPT !.next = Closer(@)] ELSE row IN
           /\ new \in PlanRow
           /\ new.trigger = row.trigger /\ new.used = row.used /\ new.open = row.open
           /\ new.next = IF row.trigger = "Calendar" THEN Closer(row.next) ELSE row.next
<1>1. row.next \in Int /\ Closer(row.next) \in Int
  BY DEF PlanRow, Closer, AutomationAssumption
<1>2. QED
  BY <1>1 DEF PlanRow

LEMMA NearerType ==
  ASSUME AutomationAssumption, NEW rows \in Rows
  PROVE  /\ Nearer(rows) \in Rows
         /\ DOMAIN Nearer(rows) = DOMAIN rows
         /\ \A p \in DOMAIN rows :
              /\ Nearer(rows)[p] \in PlanRow
              /\ Nearer(rows)[p].trigger = rows[p].trigger
              /\ Nearer(rows)[p].used = rows[p].used
              /\ Nearer(rows)[p].open = rows[p].open
              /\ Nearer(rows)[p].next = IF rows[p].trigger = "Calendar"
                                          THEN Closer(rows[p].next) ELSE rows[p].next
<1>1. PICK D \in SUBSET Plans : rows \in [D -> PlanRow]
  BY DEF Rows
<1>2. \A p \in D :
        /\ Nearer(rows)[p] \in PlanRow
        /\ Nearer(rows)[p].trigger = rows[p].trigger
        /\ Nearer(rows)[p].used = rows[p].used
        /\ Nearer(rows)[p].open = rows[p].open
        /\ Nearer(rows)[p].next = IF rows[p].trigger = "Calendar"
                                    THEN Closer(rows[p].next) ELSE rows[p].next
  BY <1>1, NearerRow DEF Nearer
<1>3. Nearer(rows) \in [D -> PlanRow]
  BY <1>1, <1>2 DEF Nearer
<1>4. Nearer(rows) \in Rows
  BY <1>3 DEF Rows
<1>5. QED
  BY <1>1, <1>2, <1>3, <1>4

-----------------------------------------------------------------------------
\* What a step of an actor leaves alone

\* Only actor a moves.
OnlyMoves(a) ==
  \A b \in Actors \ {a} :
    /\ phase'[b] = phase[b] /\ target'[b] = target[b] /\ result'[b] = result[b]
    /\ due'[b] = due[b] /\ draft'[b] = draft[b] /\ held'[b] = held[b]

LEMMA Undisturbed ==
  ASSUME NEW b \in Actors, ActorInv(b), UNCHANGED <<plans, lastRun>>,
         phase'[b] = phase[b], target'[b] = target[b], result'[b] = result[b],
         due'[b] = due[b], draft'[b] = draft[b], held'[b] = held[b]
  PROVE  ActorInv(b)'
<1>1. InHand(b)'
  BY DEF ActorInv, InHand
<1>2. AtRest(b)'
  BY DEF ActorInv, AtRest
<1>3. Scheduled(b)'
  BY DEF ActorInv, Scheduled, Apart
<1>4. Undone(b)'
  BY DEF ActorInv, Undone
<1>5. QED
  BY <1>1, <1>2, <1>3, <1>4 DEF ActorInv

\* What every step of an actor does that leaves the tables alone.
LEMMA StepHolds ==
  ASSUME IInv, NEW a \in Actors, UNCHANGED <<plans, lastRun>>, OnlyMoves(a),
         TypeOK', LockType', ActorInv(a)'
  PROVE  IInv'
<1>1. \A b \in Actors : ActorInv(b)'
  <2> SUFFICES ASSUME NEW b \in Actors, b # a
               PROVE  ActorInv(b)'
    OBVIOUS
  <2> QED
    BY Undisturbed DEF IInv, OnlyMoves
<1>2. \A p \in Plans : plans'[p].open <= 1
  BY DEF IInv
<1>3. QED
  BY <1>1, <1>2 DEF IInv

\* The types after a step of an actor.
LEMMA StepType ==
  ASSUME TypeOK, NEW a \in Actors, OnlyMoves(a), LockType',
         plans' \in [Plans -> PlanRow], lastRun' \in PastResults,
         phase' \in [Actors -> Phases], timer' \in [Replicas -> 0..Interval],
         target' \in [Actors -> Nat], result' \in [Actors -> Results],
         faults' \in 0..MaxFaults,
         phase'[a] = "idle" => held'[a] = {} /\ draft'[a] = <<>>
  PROVE  TypeOK'
<1>1. ASSUME NEW b \in Actors
      PROVE  /\ DOMAIN due'[b] \subseteq Plans /\ DOMAIN draft'[b] \subseteq Plans
             /\ phase'[b] = "idle" => held'[b] = {} /\ draft'[b] = <<>>
  <2>1. due'[b] \in Rows /\ draft'[b] \in Rows
    BY DEF LockType
  <2>2. DOMAIN due'[b] \subseteq Plans /\ DOMAIN draft'[b] \subseteq Plans
    BY <2>1, RowsType
  <2>3. phase'[b] = "idle" => held'[b] = {} /\ draft'[b] = <<>>
    BY DEF OnlyMoves, TypeOK
  <2>4. QED
    BY <2>2, <2>3
<1>2. QED
  BY <1>1 DEF TypeOK, Phases, Results, PastResults

LEMMA TakeLock ==
  ASSUME LockType, NEW a \in Actors, NEW lock \in {Mutex, Generator}, Take(a, lock)
  PROVE  /\ held' \in [Actors -> SUBSET {Mutex, Generator}]
         /\ \A b, c \in Actors : b # c => held'[b] \intersect held'[c] = {}
         /\ held'[a] = held[a] \union {lock}
         /\ \A b \in Actors \ {a} : held'[b] = held[b]
BY DEF LockType, Take, Free

\* A transaction that is over.
LEMMA Forgotten ==
  ASSUME TypeOK, LockType, NEW a \in Actors, Forget(a)
  PROVE  /\ target' \in [Actors -> Nat] /\ result' \in [Actors -> Results]
         /\ LockType'
         /\ held'[a] = {} /\ draft'[a] = <<>> /\ due'[a] = <<>> /\ result'[a] = NoRun
         /\ \A b \in Actors \ {a} :
              /\ target'[b] = target[b] /\ result'[b] = result[b]
              /\ due'[b] = due[b] /\ draft'[b] = draft[b] /\ held'[b] = held[b]
<1>1. target' \in [Actors -> Nat] /\ result' \in [Actors -> Results]
  BY DEF TypeOK, Forget, Results
<1>2. due' \in [Actors -> Rows] /\ draft' \in [Actors -> Rows]
  BY NothingInHand DEF LockType, Forget
<1>3. /\ held' \in [Actors -> SUBSET {Mutex, Generator}]
      /\ \A b, c \in Actors : b # c => held'[b] \intersect held'[c] = {}
  BY DEF LockType, Forget
<1>4. QED
  BY <1>1, <1>2, <1>3 DEF TypeOK, LockType, Forget

LEMMA LastAge ==
  ASSUME AutomationAssumption, TypeOK
  PROVE  lastRun.age \in Nat
BY DEF AutomationAssumption, TypeOK, PastRun, NoRun

\* A run that is marked as finished now is further away from the latest success.
LEMMA StartedAnew ==
  ASSUME AutomationAssumption, TypeOK, NEW run, Apart(run), lastRun.status = "Succeeded"
  PROVE  lastRun.age - 0 >= Interval
<1>1. run.age \in Nat
  BY DEF Apart, Run, AutomationAssumption
<1>2. QED
  BY <1>1, LastAge DEF Apart, AutomationAssumption

LEMMA RestedType ==
  ASSUME AutomationAssumption, TypeOK, NEW a \in Actors, Rest(a)
  PROVE  /\ phase' \in [Actors -> Phases] /\ phase'[a] = "idle"
         /\ timer' \in [Replicas -> 0..Interval]
         /\ \A b \in Actors \ {a} : phase'[b] = phase[b]
BY DEF AutomationAssumption, TypeOK, Rest, Goto, Phases

LEMMA GotoType ==
  ASSUME TypeOK, NEW a \in Actors, NEW to \in Phases, Goto(a, to)
  PROVE  /\ phase' \in [Actors -> Phases] /\ phase'[a] = to
         /\ \A b \in Actors \ {a} : phase'[b] = phase[b]
BY DEF TypeOK, Goto, Phases

\* An actor that has nothing in hand.
LEMMA EmptyHanded ==
  ASSUME NEW a \in Actors, draft'[a] = <<>>, due'[a] = <<>>
  PROVE  InHand(a)' /\ Undone(a)'
BY NothingInHand DEF InHand, Undone

LEMMA ActorKinds ==
  ASSUME AutomationAssumption
  PROVE  /\ \A r \in Replicas : r \in Actors /\ r \notin Users
         /\ \A u \in Users : u \in Actors /\ u \notin Replicas
BY DEF AutomationAssumption, Actors

-----------------------------------------------------------------------------
\* Steps that leave the tables alone

LEMMA LockSchedulerHolds ==
  ASSUME AutomationAssumption, IInv, NEW r \in Replicas, LockScheduler(r)
  PROVE  IInv'
<1>1. r \in Actors /\ phase[r] = "idle" /\ Take(r, Mutex) /\ Goto(r, "check")
  BY ActorKinds DEF LockScheduler
<1>2. UNCHANGED <<plans, lastRun, timer, target, due, draft, result, faults>>
  BY DEF LockScheduler
<1>3. TypeOK /\ LockType /\ ActorInv(r)
  BY <1>1 DEF IInv
<1>4. /\ phase' \in [Actors -> Phases] /\ phase'[r] = "check"
      /\ \A b \in Actors \ {r} : phase'[b] = phase[b]
  BY <1>1, <1>3, GotoType DEF Phases
<1>5. /\ held' \in [Actors -> SUBSET {Mutex, Generator}]
      /\ \A b, c \in Actors : b # c => held'[b] \intersect held'[c] = {}
      /\ held'[r] = held[r] \union {Mutex}
      /\ \A b \in Actors \ {r} : held'[b] = held[b]
  BY <1>1, <1>3, TakeLock
<1>6. LockType'
  BY <1>2, <1>3, <1>5 DEF LockType
<1>7. OnlyMoves(r)
  BY <1>2, <1>4, <1>5 DEF OnlyMoves
<1>8. TypeOK'
  BY <1>1, <1>2, <1>3, <1>4, <1>6, <1>7, StepType DEF TypeOK, Results, PastResults
<1>9. draft'[r] = <<>> /\ due'[r] = <<>>
  BY <1>1, <1>2, <1>3 DEF ActorInv, AtRest
<1>10. InHand(r)' /\ Undone(r)'
  BY <1>1, <1>9, EmptyHanded
<1>11. AtRest(r)' /\ Scheduled(r)'
  BY <1>4, <1>5 DEF AtRest, Scheduled
<1>12. QED
  BY <1>1, <1>2, <1>6, <1>7, <1>8, <1>10, <1>11, StepHolds DEF ActorInv

LEMMA SkipHolds ==
  ASSUME AutomationAssumption, IInv, NEW r \in Replicas, Skip(r)
  PROVE  IInv'
<1>1. r \in Actors /\ Rest(r) /\ Forget(r) /\ UNCHANGED <<plans, lastRun, faults>>
  BY ActorKinds DEF Skip
<1>2. TypeOK /\ LockType
  BY DEF IInv
<1>3. /\ phase' \in [Actors -> Phases] /\ phase'[r] = "idle"
      /\ timer' \in [Replicas -> 0..Interval]
      /\ \A b \in Actors \ {r} : phase'[b] = phase[b]
  BY <1>1, <1>2, RestedType
<1>4. /\ target' \in [Actors -> Nat] /\ result' \in [Actors -> Results] /\ LockType'
      /\ held'[r] = {} /\ draft'[r] = <<>> /\ due'[r] = <<>>
  BY <1>1, <1>2, Forgotten
<1>5. OnlyMoves(r)
  BY <1>1, <1>2, <1>3, Forgotten DEF OnlyMoves
<1>6. TypeOK'
  BY <1>1, <1>2, <1>3, <1>4, <1>5, StepType DEF TypeOK, Results, PastResults
<1>7. InHand(r)' /\ Undone(r)'
  BY <1>1, <1>4, EmptyHanded
<1>8. AtRest(r)' /\ Scheduled(r)'
  BY <1>3, <1>4 DEF AtRest, Scheduled
<1>9. QED
  BY <1>1, <1>4, <1>5, <1>6, <1>7, <1>8, StepHolds DEF ActorInv

LEMMA StartRunHolds ==
  ASSUME AutomationAssumption, IInv, NEW r \in Replicas, StartRun(r)
  PROVE  IInv'
<1>1. r \in Actors /\ phase[r] = "check" /\ ~RecentSuccess /\ Goto(r, "start")
  BY ActorKinds DEF StartRun
<1>2. /\ UNCHANGED <<plans, lastRun, timer, target, due, draft, held, faults>>
      /\ result' = [result EXCEPT ![r] = [status |-> "Running", age |-> 0]]
  BY DEF StartRun
<1>3. TypeOK /\ LockType /\ ActorInv(r)
  BY <1>1 DEF IInv
<1>4. /\ phase' \in [Actors -> Phases] /\ phase'[r] = "start"
      /\ \A b \in Actors \ {r} : phase'[b] = phase[b]
  BY <1>1, <1>3, GotoType DEF Phases
<1>5. [status |-> "Running", age |-> 0] \in Run
  BY DEF Run, AutomationAssumption
<1>6. result' \in [Actors -> Results] /\ result'[r] \in Run /\ result'[r].age = 0
      /\ \A b \in Actors \ {r} : result'[b] = result[b]
  BY <1>1, <1>2, <1>3, <1>5 DEF TypeOK, Results
<1>7. LockType'
  BY <1>2, <1>3 DEF LockType
<1>8. OnlyMoves(r)
  BY <1>2, <1>4, <1>6 DEF OnlyMoves
<1>9. TypeOK'
  BY <1>1, <1>2, <1>3, <1>4, <1>6, <1>7, <1>8, StepType DEF TypeOK, Results, PastResults
<1>10. InHand(r)'
  BY <1>2, <1>3 DEF ActorInv, InHand
<1>11. Scheduled(r)'
  <2>1. lastRun.status = "Succeeded" => lastRun.age - 0 >= Interval
    BY <1>1, <1>3, LastAge DEF RecentSuccess, AutomationAssumption
  <2>2. QED
    BY <1>1, <1>2, <1>3, <1>6, <2>1 DEF ActorInv, Scheduled, Apart
<1>12. AtRest(r)' /\ Undone(r)'
  BY <1>4 DEF AtRest, Undone
<1>13. QED
  BY <1>1, <1>2, <1>7, <1>8, <1>9, <1>10, <1>11, <1>12, StepHolds DEF ActorInv

LEMMA StartByHandHolds ==
  ASSUME AutomationAssumption, IInv, NEW u \in Users, StartByHand(u)
  PROVE  IInv'
<1>1. u \in Actors /\ u \notin Replicas /\ phase[u] = "idle" /\ Goto(u, "start")
  BY ActorKinds DEF StartByHand
<1>2. UNCHANGED <<plans, lastRun, timer, due, draft, held, faults>>
  BY DEF StartByHand
<1>3. TypeOK /\ LockType /\ ActorInv(u)
  BY <1>1 DEF IInv
<1>4. /\ phase' \in [Actors -> Phases] /\ phase'[u] = "start"
      /\ \A b \in Actors \ {u} : phase'[b] = phase[b]
  BY <1>1, <1>3, GotoType DEF Phases
<1>5. [status |-> "Running", age |-> 0] \in Run
  BY DEF Run, AutomationAssumption
<1>6. /\ target' \in [Actors -> Nat] /\ result' \in [Actors -> Results]
      /\ \A b \in Actors \ {u} : target'[b] = target[b] /\ result'[b] = result[b]
  <2>1. CASE UNCHANGED <<target, result>>
    BY <2>1, <1>3 DEF TypeOK, Results
  <2>2. CASE /\ \E k \in Ahead : target' = [target EXCEPT ![u] = k]
             /\ result' = [result EXCEPT ![u] = [status |-> "Running", age |-> 0]]
    BY <2>2, <1>1, <1>3, <1>5 DEF TypeOK, Results, AutomationAssumption
  <2>3. QED
    BY <2>1, <2>2 DEF StartByHand
<1>7. LockType'
  BY <1>2, <1>3 DEF LockType
<1>8. OnlyMoves(u)
  BY <1>2, <1>4, <1>6 DEF OnlyMoves
<1>9. TypeOK'
  BY <1>1, <1>2, <1>3, <1>4, <1>6, <1>7, <1>8, StepType DEF TypeOK, Results, PastResults
<1>10. draft'[u] = <<>> /\ due'[u] = <<>>
  BY <1>1, <1>2, <1>3 DEF ActorInv, AtRest
<1>11. InHand(u)' /\ Undone(u)'
  BY <1>1, <1>10, EmptyHanded
<1>12. AtRest(u)' /\ Scheduled(u)'
  BY <1>1, <1>4 DEF AtRest, Scheduled
<1>13. QED
  BY <1>1, <1>2, <1>7, <1>8, <1>9, <1>11, <1>12, StepHolds DEF ActorInv

LEMMA LockGeneratorHolds ==
  ASSUME AutomationAssumption, IInv, NEW a \in Actors, LockGenerator(a)
  PROVE  IInv'
<1> DEFINE ready == {q \in Plans : IsDue(plans[q], target[a])}
           read == [p \in ready |-> plans[p]]
<1>1. phase[a] = "start" /\ Take(a, Generator) /\ Goto(a, "payload")
  BY DEF LockGenerator
<1>2. /\ UNCHANGED <<plans, lastRun, timer, target, draft, result, faults>>
      /\ due' = [due EXCEPT ![a] = read]
  BY DEF LockGenerator
<1>3. TypeOK /\ LockType /\ ActorInv(a)
  BY DEF IInv
<1>4. /\ phase' \in [Actors -> Phases] /\ phase'[a] = "payload"
      /\ \A b \in Actors \ {a} : phase'[b] = phase[b]
  BY <1>1, <1>3, GotoType DEF Phases
<1>5. /\ held' \in [Actors -> SUBSET {Mutex, Generator}]
      /\ \A b, c \in Actors : b # c => held'[b] \intersect held'[c] = {}
      /\ held'[a] = held[a] \union {Generator}
      /\ \A b \in Actors \ {a} : held'[b] = held[b]
  BY <1>1, <1>3, TakeLock
<1>6. read \in Rows
  <2>1. read \in [ready -> PlanRow]
    BY <1>3 DEF TypeOK
  <2>2. ready \in SUBSET Plans
    OBVIOUS
  <2>3. QED
    BY <2>1, <2>2, Zenon DEF Rows
<1>7. /\ due' \in [Actors -> Rows] /\ due'[a] = read
      /\ \A b \in Actors \ {a} : due'[b] = due[b]
  BY <1>2, <1>3, <1>6 DEF LockType
<1>8. LockType'
  BY <1>2, <1>3, <1>5, <1>7 DEF LockType
<1>9. OnlyMoves(a)
  BY <1>2, <1>4, <1>5, <1>7 DEF OnlyMoves
<1>10. TypeOK'
  BY <1>2, <1>3, <1>4, <1>8, <1>9, StepType DEF TypeOK, Results, PastResults
<1>11. InHand(a)'
  <2>1. \A p \in DOMAIN due'[a] : DueRow(due'[a][p], plans[p], target[a])
    BY <1>3, <1>7 DEF TypeOK, PlanRow, DueRow, ReadBefore, IsDue
  <2>2. Generator \in held'[a]
    BY <1>5
  <2>3. \A p \in DOMAIN draft[a] : DraftRow(draft[a][p], plans[p])
    BY <1>3 DEF ActorInv, InHand
  <2>4. QED
    BY <1>2, <2>1, <2>2, <2>3 DEF InHand
<1>12. AtRest(a)' /\ Undone(a)'
  BY <1>4 DEF AtRest, Undone
<1>13. Scheduled(a)'
  BY <1>1, <1>2, <1>3, <1>4, <1>5 DEF ActorInv, Scheduled, Apart
<1>14. QED
  BY <1>2, <1>8, <1>9, <1>10, <1>11, <1>12, <1>13, StepHolds DEF ActorInv

LEMMA GeneratePlanHolds ==
  ASSUME AutomationAssumption, IInv, NEW a \in Actors, GeneratePlan(a)
  PROVE  IInv'
<1>1. TypeOK /\ LockType /\ ActorInv(a)
  BY DEF IInv
<1>2. PICK p \in DOMAIN due[a] :
        LET row == due[a][p] IN
        /\ phase[a] = "payload"
        /\ due' = [due EXCEPT ![a] = [q \in DOMAIN @ \ {p} |-> @[q]]]
        /\ \/ plans[p].open > 0 /\ UNCHANGED draft
           \/ /\ plans[p].open = 0
              /\ draft' = [draft EXCEPT ![a] = Put(@, p,
                   [row EXCEPT !.next = IF row.trigger = "Calendar"
                                          THEN Advanced(@, target[a]) ELSE @])]
        /\ UNCHANGED <<plans, lastRun, phase, timer, target, result, held, faults>>
  BY DEF GeneratePlan
<1> DEFINE row == due[a][p]
           rest == [q \in DOMAIN due[a] \ {p} |-> due[a][q]]
           new == [row EXCEPT !.next = IF row.trigger = "Calendar"
                                         THEN Advanced(@, target[a]) ELSE @]
           put == Put(draft[a], p, new)
<1>3. /\ due[a] \in Rows /\ draft[a] \in Rows /\ p \in Plans /\ row \in PlanRow
      /\ plans[p] \in PlanRow
  BY <1>1, RowsType DEF LockType, TypeOK
<1>4. DueRow(row, plans[p], target[a]) /\ Generator \in held[a] /\ target[a] \in Nat
  BY <1>1 DEF ActorInv, InHand, TypeOK
<1>5. row.next \in Int /\ Advanced(row.next, target[a]) \in Int
  BY <1>3, <1>4 DEF PlanRow, Advanced, AutomationAssumption
<1>6. /\ new \in PlanRow /\ new.trigger = row.trigger /\ new.used = row.used
      /\ new.next = IF row.trigger = "Calendar" THEN Advanced(row.next, target[a]) ELSE row.next
  BY <1>3, <1>5 DEF PlanRow
<1>7. Rhythm(new.next, plans[p].next)
  BY <1>4, <1>5, <1>6, RhythmReflexive, RhythmOfAdvance DEF DueRow
<1>8. plans[p].open = 0 => DraftRow(new, plans[p])
  BY <1>4, <1>6, <1>7 DEF DraftRow, DueRow, ReadBefore
<1> HIDE DEF new
<1>9. /\ rest \in Rows /\ DOMAIN rest = DOMAIN due[a] \ {p}
      /\ \A q \in DOMAIN rest : rest[q] = due[a][q]
  BY <1>3, StrikeType
<1>10. /\ put \in Rows /\ DOMAIN put = DOMAIN draft[a] \union {p}
       /\ put[p] = new /\ \A q \in DOMAIN draft[a] \ {p} : put[q] = draft[a][q]
  <2> DEFINE mine == draft[a]
  <2>1. mine \in Rows
    BY <1>3
  <2> HIDE DEF mine
  <2>2. /\ Put(mine, p, new) \in Rows /\ DOMAIN Put(mine, p, new) = DOMAIN mine \union {p}
        /\ Put(mine, p, new)[p] = new
        /\ \A q \in DOMAIN mine \ {p} : Put(mine, p, new)[q] = mine[q]
    BY <2>1, <1>3, <1>6, PutType
  <2>3. put = Put(mine, p, new)
    BY DEF mine
  <2> HIDE DEF put
  <2>4. QED
    BY <2>2, <2>3 DEF mine
<1> HIDE DEF rest, put
<1>11. /\ due' = [due EXCEPT ![a] = rest]
       /\ \/ UNCHANGED draft
          \/ plans[p].open = 0 /\ draft' = [draft EXCEPT ![a] = put]
       /\ UNCHANGED <<plans, lastRun, phase, timer, target, result, held, faults>>
  BY <1>2 DEF rest, put, new
<1>12. /\ due' \in [Actors -> Rows] /\ due'[a] = rest
       /\ draft' \in [Actors -> Rows]
       /\ draft'[a] = draft[a] \/ (plans[p].open = 0 /\ draft'[a] = put)
       /\ \A b \in Actors \ {a} : due'[b] = due[b] /\ draft'[b] = draft[b]
  BY <1>1, <1>9, <1>10, <1>11 DEF LockType
<1>13. LockType'
  BY <1>1, <1>11, <1>12 DEF LockType
<1>14. OnlyMoves(a)
  BY <1>11, <1>12 DEF OnlyMoves
<1>15. phase[a] = "payload" /\ phase' = phase
  BY <1>2
<1>16. TypeOK'
  BY <1>1, <1>11, <1>13, <1>14, <1>15, StepType DEF TypeOK, Results, PastResults, Phases
<1>17. InHand(a)'
  <2>1. \A q \in DOMAIN due'[a] : DueRow(due'[a][q], plans[q], target[a])
    BY <1>1, <1>9, <1>12 DEF ActorInv, InHand
  <2>2. \A q \in DOMAIN draft'[a] : DraftRow(draft'[a][q], plans[q])
    BY <1>1, <1>8, <1>10, <1>12 DEF ActorInv, InHand
  <2>3. QED
    BY <1>4, <1>11, <2>1, <2>2 DEF InHand
<1>18. AtRest(a)' /\ Undone(a)'
  BY <1>15 DEF AtRest, Undone
<1>19. Scheduled(a)'
  BY <1>1, <1>11 DEF ActorInv, Scheduled, Apart
<1>20. QED
  BY <1>11, <1>13, <1>14, <1>16, <1>17, <1>18, <1>19, StepHolds DEF ActorInv

LEMMA SucceedHolds ==
  ASSUME AutomationAssumption, IInv, NEW a \in Actors, Succeed(a)
  PROVE  IInv'
<1>1. phase[a] = "payload" /\ due[a] = <<>> /\ Goto(a, "finish")
  BY DEF Succeed
<1>2. /\ UNCHANGED <<plans, lastRun, timer, target, due, draft, held, faults>>
      /\ result' = [result EXCEPT ![a] = IF @ = NoRun THEN NoRun
                                         ELSE [status |-> "Succeeded", age |-> 0]]
  BY DEF Succeed
<1>3. TypeOK /\ LockType /\ ActorInv(a)
  BY DEF IInv
<1>4. /\ phase' \in [Actors -> Phases] /\ phase'[a] = "finish"
      /\ \A b \in Actors \ {a} : phase'[b] = phase[b]
  BY <1>1, <1>3, GotoType DEF Phases
<1>5. [status |-> "Succeeded", age |-> 0] \in Run /\ NoRun \notin Run
      /\ NoRun.status # "Failed"
  BY DEF Run, NoRun, AutomationAssumption
<1>6. /\ result' \in [Actors -> Results]
      /\ result[a] \in Run => result'[a] \in Run /\ result'[a].age = 0
      /\ result'[a].status # "Failed"
      /\ \A b \in Actors \ {a} : result'[b] = result[b]
  BY <1>2, <1>3, <1>5 DEF TypeOK, Results
<1>7. LockType'
  BY <1>2, <1>3 DEF LockType
<1>8. OnlyMoves(a)
  BY <1>2, <1>4, <1>6 DEF OnlyMoves
<1>9. TypeOK'
  BY <1>2, <1>3, <1>4, <1>6, <1>7, <1>8, StepType DEF TypeOK, Results, PastResults
<1>10. InHand(a)'
  BY <1>2, <1>3 DEF ActorInv, InHand
<1>11. AtRest(a)' /\ Undone(a)'
  BY <1>4, <1>6 DEF AtRest, Undone
<1>12. Scheduled(a)'
  BY <1>1, <1>2, <1>3, <1>4, <1>6, StartedAnew DEF ActorInv, Scheduled, Apart
<1>13. QED
  BY <1>2, <1>7, <1>8, <1>9, <1>10, <1>11, <1>12, StepHolds DEF ActorInv

LEMMA FailHolds ==
  ASSUME AutomationAssumption, IInv, NEW a \in Actors, Fail(a)
  PROVE  IInv'
<1>1. phase[a] \in {"start", "payload"} /\ Goto(a, "finish")
  BY DEF Fail
<1>2. /\ UNCHANGED <<plans, lastRun, timer, target>>
      /\ faults < MaxFaults /\ faults' = faults + 1
      /\ draft' = [draft EXCEPT ![a] = <<>>]
      /\ due' = [due EXCEPT ![a] = <<>>]
      /\ held' = [held EXCEPT ![a] = @ \ {Generator}]
      /\ result' = [result EXCEPT ![a] = [status |-> "Failed", age |-> 0]]
  BY DEF Fail, UndonePayload
<1>3. TypeOK /\ LockType /\ ActorInv(a)
  BY DEF IInv
<1>4. /\ phase' \in [Actors -> Phases] /\ phase'[a] = "finish"
      /\ \A b \in Actors \ {a} : phase'[b] = phase[b]
  BY <1>1, <1>3, GotoType DEF Phases
<1>5. [status |-> "Failed", age |-> 0] \in Run
  BY DEF Run, AutomationAssumption
<1>6. /\ result' \in [Actors -> Results] /\ result'[a] \in Run /\ result'[a].age = 0
      /\ faults' \in 0..MaxFaults
      /\ \A b \in Actors \ {a} : result'[b] = result[b]
  BY <1>2, <1>3, <1>5 DEF TypeOK, Results, AutomationAssumption
<1>7. /\ due' \in [Actors -> Rows] /\ draft' \in [Actors -> Rows]
      /\ due'[a] = <<>> /\ draft'[a] = <<>>
      /\ \A b \in Actors \ {a} : due'[b] = due[b] /\ draft'[b] = draft[b]
  BY <1>2, <1>3, NothingInHand DEF LockType
<1>8. /\ held' \in [Actors -> SUBSET {Mutex, Generator}]
      /\ \A b, c \in Actors : b # c => held'[b] \intersect held'[c] = {}
      /\ held'[a] = held[a] \ {Generator}
      /\ \A b \in Actors \ {a} : held'[b] = held[b]
  BY <1>2, <1>3 DEF LockType
<1>9. LockType'
  BY <1>7, <1>8 DEF LockType
<1>10. OnlyMoves(a)
  BY <1>2, <1>4, <1>6, <1>7, <1>8 DEF OnlyMoves
<1>11. TypeOK'
  BY <1>2, <1>3, <1>4, <1>6, <1>9, <1>10, StepType DEF TypeOK, Results, PastResults
<1>12. InHand(a)' /\ Undone(a)'
  BY <1>7, EmptyHanded
<1>13. AtRest(a)'
  BY <1>4 DEF AtRest
<1>14. Scheduled(a)'
  <2>1. Mutex # Generator
    BY DEF Mutex, Generator
  <2>2. QED
    BY <1>1, <1>2, <1>3, <1>4, <1>6, <1>8, <2>1, StartedAnew DEF ActorInv, Scheduled, Apart
<1>15. QED
  BY <1>2, <1>9, <1>10, <1>11, <1>12, <1>13, <1>14, StepHolds DEF ActorInv

\* A replica that rests, dies or comes back has nothing in hand.
LEMMA DeliverHolds ==
  ASSUME AutomationAssumption, IInv, NEW a \in Actors,
         phase[a] \in {"deliver", "down"}, Rest(a),
         UNCHANGED <<plans, lastRun, target, due, draft, result, held, faults>>
  PROVE  IInv'
<1>1. TypeOK /\ LockType /\ ActorInv(a)
  BY DEF IInv
<1>2. /\ phase' \in [Actors -> Phases] /\ phase'[a] = "idle"
      /\ timer' \in [Replicas -> 0..Interval]
      /\ \A b \in Actors \ {a} : phase'[b] = phase[b]
  BY <1>1, RestedType
<1>3. held'[a] = {} /\ draft'[a] = <<>> /\ due'[a] = <<>>
  BY <1>1 DEF ActorInv, AtRest
<1>4. LockType'
  BY <1>1 DEF LockType
<1>5. OnlyMoves(a)
  BY <1>2 DEF OnlyMoves
<1>6. TypeOK'
  BY <1>1, <1>2, <1>3, <1>4, <1>5, StepType DEF TypeOK, Results, PastResults
<1>7. InHand(a)' /\ Undone(a)'
  BY <1>3, EmptyHanded
<1>8. AtRest(a)' /\ Scheduled(a)'
  BY <1>2, <1>3 DEF AtRest, Scheduled
<1>9. QED
  BY <1>4, <1>5, <1>6, <1>7, <1>8, StepHolds DEF ActorInv

LEMMA CrashHolds ==
  ASSUME AutomationAssumption, IInv, NEW r \in Replicas, Crash(r)
  PROVE  IInv'
<1>1. r \in Actors /\ Goto(r, "down") /\ Forget(r) /\ UNCHANGED <<plans, lastRun>>
  BY ActorKinds DEF Crash
<1>2. TypeOK /\ LockType
  BY DEF IInv
<1>3. /\ phase' \in [Actors -> Phases] /\ phase'[r] = "down"
      /\ \A b \in Actors \ {r} : phase'[b] = phase[b]
  BY <1>1, <1>2, GotoType DEF Phases
<1>4. timer' \in [Replicas -> 0..Interval] /\ faults' \in 0..MaxFaults
  BY <1>2 DEF Crash, TypeOK, AutomationAssumption
<1>5. /\ target' \in [Actors -> Nat] /\ result' \in [Actors -> Results] /\ LockType'
      /\ held'[r] = {} /\ draft'[r] = <<>> /\ due'[r] = <<>>
  BY <1>1, <1>2, Forgotten
<1>6. OnlyMoves(r)
  BY <1>1, <1>2, <1>3, Forgotten DEF OnlyMoves
<1>7. TypeOK'
  BY <1>1, <1>2, <1>3, <1>4, <1>5, <1>6, StepType DEF TypeOK, Results, PastResults
<1>8. InHand(r)' /\ Undone(r)'
  BY <1>1, <1>5, EmptyHanded
<1>9. AtRest(r)' /\ Scheduled(r)'
  BY <1>3, <1>5 DEF AtRest, Scheduled
<1>10. QED
  BY <1>1, <1>5, <1>6, <1>7, <1>8, <1>9, StepHolds DEF ActorInv

-----------------------------------------------------------------------------
\* Steps that change the plans

\* What happens to plans outside of generation leaves those in hand valid.
LEMMA PlansMove ==
  ASSUME AutomationAssumption, IInv,
         UNCHANGED <<lastRun, phase, timer, target, due, draft, result, held, faults>>,
         plans' \in [Plans -> PlanRow],
         \A p \in Plans :
           /\ plans'[p].trigger = plans[p].trigger /\ plans'[p].next = plans[p].next
           /\ plans[p].used <= plans'[p].used
           /\ plans[p].open = 0 => plans'[p].open = 0
           /\ plans'[p].open <= 1
  PROVE  IInv'
<1>1. TypeOK' /\ LockType'
  BY DEF IInv, TypeOK, LockType
<1>2. ASSUME NEW a \in Actors
      PROVE  ActorInv(a)'
  <2>1. ActorInv(a) /\ due[a] \in Rows /\ draft[a] \in Rows
    BY DEF IInv, LockType
  <2>2. ASSUME NEW p \in DOMAIN due[a]
        PROVE  DueRow(due[a][p], plans'[p], target[a])
    <3>1. DueRow(due[a][p], plans[p], target[a]) /\ p \in Plans
      BY <2>1, RowsType DEF ActorInv, InHand
    <3>2. due[a][p] \in PlanRow /\ plans[p] \in PlanRow /\ plans'[p] \in PlanRow
      BY <2>1, <3>1, RowsType DEF IInv, TypeOK
    <3>3. QED
      BY <3>1, <3>2 DEF DueRow, ReadBefore, PlanRow
  <2>3. ASSUME NEW p \in DOMAIN draft[a]
        PROVE  DraftRow(draft[a][p], plans'[p])
    <3>1. DraftRow(draft[a][p], plans[p]) /\ p \in Plans
      BY <2>1, RowsType DEF ActorInv, InHand
    <3>2. draft[a][p] \in PlanRow /\ plans[p] \in PlanRow /\ plans'[p] \in PlanRow
      BY <2>1, <3>1, RowsType DEF IInv, TypeOK
    <3>3. QED
      BY <3>1, <3>2 DEF DraftRow, ReadBefore, PlanRow
  <2>4. InHand(a)'
    BY <2>1, <2>2, <2>3 DEF ActorInv, InHand
  <2>5. AtRest(a)' /\ Scheduled(a)' /\ Undone(a)'
    BY <2>1 DEF ActorInv, AtRest, Scheduled, Undone, Apart
  <2>6. QED
    BY <2>4, <2>5 DEF ActorInv
<1>3. QED
  BY <1>1, <1>2 DEF IInv

LEMMA CloseWorkHolds ==
  ASSUME AutomationAssumption, IInv, NEW p \in Plans, CloseWork(p)
  PROVE  IInv'
<1>1. /\ plans \in [Plans -> PlanRow] /\ plans[p].open > 0
      /\ plans' = [plans EXCEPT ![p].open = @ - 1]
      /\ \A q \in Plans : plans[q].open <= 1
      /\ UNCHANGED <<lastRun, phase, timer, target, due, draft, result, held, faults>>
  BY DEF IInv, TypeOK, CloseWork
<1>2. plans' \in [Plans -> PlanRow]
  BY <1>1 DEF PlanRow
<1>3. \A q \in Plans :
        /\ plans'[q].trigger = plans[q].trigger /\ plans'[q].next = plans[q].next
        /\ plans[q].used <= plans'[q].used
        /\ plans[q].open = 0 => plans'[q].open = 0
        /\ plans'[q].open <= 1
  BY <1>1 DEF PlanRow
<1>4. QED
  BY <1>1, <1>2, <1>3, PlansMove

LEMMA AssetChangesHolds ==
  ASSUME AutomationAssumption, IInv, NEW p \in Plans, AssetChanges(p)
  PROVE  IInv'
<1>1. /\ plans \in [Plans -> PlanRow] /\ plans[p] \in PlanRow
      /\ \A q \in Plans : plans[q].open <= 1
      /\ UNCHANGED <<lastRun, phase, timer, target, due, draft, result, held, faults>>
  BY DEF IInv, TypeOK, AssetChanges
<1>2. CASE /\ plans[p].used < 2 * Usage
           /\ plans' = [plans EXCEPT ![p].used = @ + 1]
  <2>1. plans[p].used + 1 \in 0..(2 * Usage)
    BY <1>1, <1>2 DEF AutomationAssumption, PlanRow
  <2>2. plans' \in [Plans -> PlanRow]
    BY <1>1, <1>2, <2>1 DEF PlanRow
  <2>3. \A q \in Plans :
          /\ plans'[q].trigger = plans[q].trigger /\ plans'[q].next = plans[q].next
          /\ plans[q].used <= plans'[q].used
          /\ plans[q].open = 0 => plans'[q].open = 0
          /\ plans'[q].open <= 1
    BY <1>1, <1>2 DEF PlanRow
  <2>4. QED
    BY <1>1, <2>2, <2>3, PlansMove
<1>3. CASE plans' = [plans EXCEPT ![p].worn = ~@]
  <2> DEFINE worn == ~plans[p].worn
  <2>1. worn \in BOOLEAN
    OBVIOUS
  <2>2. plans' = [plans EXCEPT ![p].worn = worn]
    BY <1>3, Zenon
  <2> HIDE DEF worn
  <2>3. plans' \in [Plans -> PlanRow]
    BY <1>1, <2>1, <2>2 DEF PlanRow
  <2>4. \A q \in Plans :
          /\ plans'[q].trigger = plans[q].trigger /\ plans'[q].next = plans[q].next
          /\ plans[q].used <= plans'[q].used
          /\ plans[q].open = 0 => plans'[q].open = 0
          /\ plans'[q].open <= 1
    BY <1>1, <2>2 DEF PlanRow
  <2>5. QED
    BY <1>1, <2>3, <2>4, PlansMove
<1>4. QED
  BY <1>2, <1>3 DEF AssetChanges

\* What a committed generation leaves of a plan.
LEMMA GeneratedRow ==
  ASSUME AutomationAssumption, NEW row \in PlanRow, NEW written \in PlanRow,
         DraftRow(written, row)
  PROVE  /\ Generated(row, written) \in PlanRow
         /\ Generated(row, written).open = 1
         /\ Generated(row, written).next = written.next
<1>1. row.used - written.used \in 0..(2 * Usage)
  BY DEF DraftRow, ReadBefore, PlanRow, AutomationAssumption
<1>2. row.open + 1 = 1 /\ written.next \in Int
  BY DEF DraftRow, PlanRow
<1> DEFINE usage == IF row.trigger = "Meter" THEN row.used - written.used ELSE row.used
<1>3. usage \in 0..(2 * Usage)
  BY <1>1 DEF PlanRow
<1>4. Generated(row, written) =
        [row EXCEPT !.next = written.next, !.open = row.open + 1, !.used = usage]
  BY DEF Generated
<1> HIDE DEF usage
<1>5. Generated(row, written) =
        [trigger |-> row.trigger, next |-> written.next, used |-> usage,
         worn |-> row.worn, open |-> 1]
  BY <1>2, <1>4 DEF PlanRow
<1>6. row.trigger \in Triggers /\ row.worn \in BOOLEAN
  BY Zenon DEF PlanRow
<1>7. QED
  BY <1>2, <1>3, <1>5, <1>6 DEF PlanRow

LEMMA CommitPlans ==
  ASSUME AutomationAssumption, IInv, NEW a \in Actors, Commit(a)
  PROVE  /\ plans' \in [Plans -> PlanRow]
         /\ \A p \in Plans : plans'[p].open <= 1
         /\ \A p \in Plans \ DOMAIN draft[a] : plans'[p] = plans[p]
         /\ \A p \in DOMAIN draft[a] : p \in Plans /\ plans'[p].next = draft[a][p].next
<1>1. /\ plans' = [p \in Plans |-> IF p \notin DOMAIN draft[a] THEN plans[p]
                     ELSE Generated(plans[p], draft[a][p])]
      /\ plans \in [Plans -> PlanRow] /\ draft[a] \in Rows /\ ActorInv(a)
      /\ \A p \in Plans : plans[p].open <= 1
  BY DEF Commit, IInv, TypeOK, LockType
<1>2. ASSUME NEW p \in DOMAIN draft[a]
      PROVE  /\ p \in Plans
             /\ Generated(plans[p], draft[a][p]) \in PlanRow
             /\ Generated(plans[p], draft[a][p]).open = 1
             /\ Generated(plans[p], draft[a][p]).next = draft[a][p].next
  <2>1. p \in Plans /\ draft[a][p] \in PlanRow /\ plans[p] \in PlanRow
    BY <1>1, RowsType
  <2>2. DraftRow(draft[a][p], plans[p])
    BY <1>1 DEF ActorInv, InHand
  <2>3. QED
    BY <2>1, <2>2, GeneratedRow
<1>3. QED
  BY <1>1, <1>2

\* The others of a commit have nothing in hand that it changes.
LEMMA CommitOthers ==
  ASSUME AutomationAssumption, IInv, NEW a \in Actors, Commit(a), OnlyMoves(a),
         NEW b \in Actors, b # a
  PROVE  ActorInv(b)'
<1>1. ActorInv(a) /\ ActorInv(b) /\ LockType /\ phase[a] = "finish"
  BY DEF IInv, Commit
<1>2. /\ phase'[b] = phase[b] /\ target'[b] = target[b] /\ result'[b] = result[b]
      /\ due'[b] = due[b] /\ draft'[b] = draft[b] /\ held'[b] = held[b]
  BY DEF OnlyMoves
<1>3. held[a] \intersect held[b] = {}
  BY <1>1 DEF LockType
<1>4. InHand(b)'
  <2>1. CASE DOMAIN draft[a] = {}
    <3>1. \A p \in Plans : plans'[p] = plans[p]
      BY <2>1, CommitPlans
    <3>2. DOMAIN due[b] \subseteq Plans /\ DOMAIN draft[b] \subseteq Plans
      BY <1>1, RowsType DEF LockType
    <3>3. QED
      BY <1>1, <1>2, <3>1, <3>2 DEF ActorInv, InHand
  <2>2. CASE DOMAIN draft[a] # {}
    <3>1. Generator \notin held[b]
      BY <1>1, <1>3, <2>2 DEF ActorInv, InHand
    <3>2. DOMAIN due[b] = {} /\ DOMAIN draft[b] = {}
      BY <1>1, <3>1 DEF ActorInv, InHand
    <3>3. QED
      BY <1>2, <3>2 DEF InHand
  <2>3. QED
    BY <2>1, <2>2
<1>5. Scheduled(b)'
  <2>1. CASE a \in Replicas
    <3>1. Mutex \in held[a]
      BY <1>1, <2>1 DEF ActorInv, Scheduled
    <3>2. Mutex \notin held[b]
      BY <1>3, <3>1
    <3>3. b \in Replicas => phase[b] \notin {"check", "start", "payload", "finish"}
      BY <1>1, <3>2 DEF ActorInv, Scheduled
    <3>4. QED
      BY <1>2, <3>3 DEF Scheduled
  <2>2. CASE a \notin Replicas
    BY <1>1, <1>2, <2>2 DEF ActorInv, Scheduled, Apart, Commit
  <2>3. QED
    BY <2>1, <2>2
<1>6. AtRest(b)' /\ Undone(b)'
  BY <1>1, <1>2 DEF ActorInv, AtRest, Undone
<1>7. QED
  BY <1>4, <1>5, <1>6 DEF ActorInv

\* A run that is committed is the latest one.
LEMMA RunsPass ==
  ASSUME AutomationAssumption
  PROVE  Results \subseteq PastResults
<1>1. 0..Interval \subseteq 0..(2 * Interval)
  BY DEF AutomationAssumption
<1>2. QED
  BY <1>1 DEF Results, PastResults, Run, PastRun

LEMMA CommitHolds ==
  ASSUME AutomationAssumption, IInv, NEW a \in Actors, Commit(a)
  PROVE  IInv'
<1>1. /\ phase[a] = "finish" /\ Forget(a) /\ UNCHANGED faults
      /\ lastRun' = IF a \in Replicas THEN result[a] ELSE lastRun
      /\ (Goto(a, "deliver") /\ UNCHANGED timer) \/ Rest(a)
  BY DEF Commit
<1>2. TypeOK /\ LockType /\ ActorInv(a)
  BY DEF IInv
<1>3. /\ phase' \in [Actors -> Phases] /\ phase'[a] \in {"idle", "deliver"}
      /\ timer' \in [Replicas -> 0..Interval]
      /\ \A b \in Actors \ {a} : phase'[b] = phase[b]
  <2>1. CASE Goto(a, "deliver") /\ UNCHANGED timer
    BY <2>1, <1>2, GotoType DEF Phases, TypeOK
  <2>2. CASE Rest(a)
    BY <2>2, <1>2, RestedType
  <2>3. QED
    BY <1>1, <2>1, <2>2
<1>4. /\ target' \in [Actors -> Nat] /\ result' \in [Actors -> Results] /\ LockType'
      /\ held'[a] = {} /\ draft'[a] = <<>> /\ due'[a] = <<>>
  BY <1>1, <1>2, Forgotten
<1>5. OnlyMoves(a)
  BY <1>1, <1>2, <1>3, Forgotten DEF OnlyMoves
<1>6. plans' \in [Plans -> PlanRow] /\ \A p \in Plans : plans'[p].open <= 1
  BY CommitPlans
<1>7. lastRun' \in PastResults
  BY <1>1, <1>2, RunsPass DEF TypeOK, Results, PastResults
<1>8. TypeOK'
  BY <1>1, <1>2, <1>3, <1>4, <1>5, <1>6, <1>7, StepType DEF TypeOK
<1>9. InHand(a)' /\ Undone(a)'
  BY <1>4, EmptyHanded
<1>10. AtRest(a)' /\ Scheduled(a)'
  BY <1>3, <1>4 DEF AtRest, Scheduled
<1>11. \A b \in Actors : ActorInv(b)'
  BY <1>5, <1>9, <1>10, CommitOthers DEF ActorInv
<1>12. QED
  BY <1>4, <1>6, <1>8, <1>11 DEF IInv

LEMMA OlderType ==
  ASSUME AutomationAssumption
  PROVE  /\ \A run \in Run : Older(run, Interval) \in Run
         /\ \A run \in Results : Older(run, Interval) \in Results
         /\ \A run \in PastResults : Older(run, 2 * Interval) \in PastResults
<1>1. NoRun \notin Run /\ NoRun \notin PastRun
  BY DEF NoRun, Run, PastRun
<1>2. \A run \in Run : Older(run, Interval) \in Run
  BY DEF Older, Run, AutomationAssumption
<1>3. \A run \in PastRun : Older(run, 2 * Interval) \in PastRun
  BY DEF Older, PastRun, AutomationAssumption
<1>4. \A bound : Older(NoRun, bound) = NoRun
  BY DEF Older
<1>5. QED
  BY <1>2, <1>3, <1>4 DEF Results, PastResults

\* Time brings no run closer to the latest success, whose age stops later.
LEMMA OlderApart ==
  ASSUME AutomationAssumption, lastRun \in PastResults, NEW run, Apart(run),
         lastRun' = Older(lastRun, 2 * Interval)
  PROVE  LET older == Older(run, Interval) IN
           /\ older \in Run
           /\ lastRun'.status = "Succeeded" => lastRun'.age - older.age >= Interval
<1> DEFINE older == Older(run, Interval)
<1>1. run \in Run /\ run # NoRun /\ Interval \in Nat
  BY DEF Apart, Run, NoRun, AutomationAssumption
<1>2. older \in Run
  BY <1>1, OlderType
<1>3. /\ run.age \in 0..Interval
      /\ older.age = IF run.age < Interval THEN run.age + 1 ELSE run.age
  BY <1>1 DEF Older, Run
<1>4. CASE lastRun = NoRun
  BY <1>2, <1>4 DEF Older, NoRun
<1>5. CASE lastRun \in PastRun
  <2>1. lastRun # NoRun
    BY <1>5 DEF PastRun, NoRun
  <2>2. /\ lastRun.age \in 0..(2 * Interval)
        /\ lastRun'.status = lastRun.status
        /\ lastRun'.age = IF lastRun.age < 2 * Interval THEN lastRun.age + 1 ELSE lastRun.age
    BY <1>5, <2>1 DEF Older, PastRun
  <2>3. QED
    BY <1>1, <1>2, <1>3, <2>2 DEF Apart
<1>6. QED
  BY <1>4, <1>5 DEF PastResults

\* A plan and what an actor has in hand of it come closer together.
LEMMA TickRows ==
  ASSUME AutomationAssumption, NEW row \in PlanRow, NEW plan \in PlanRow,
         NEW row2 \in PlanRow, NEW plan2 \in PlanRow,
         row2.trigger = row.trigger, row2.used = row.used,
         row2.next = IF row.trigger = "Calendar" THEN Closer(row.next) ELSE row.next,
         plan2.trigger = plan.trigger, plan2.used = plan.used, plan2.open = plan.open,
         plan2.next = IF plan.trigger = "Calendar" THEN Closer(plan.next) ELSE plan.next
  PROVE  /\ \A at \in Nat : DueRow(row, plan, at) => DueRow(row2, plan2, at)
         /\ DraftRow(row, plan) => DraftRow(row2, plan2)
<1>1. row.next \in Int /\ plan.next \in Int
  BY DEF PlanRow
<1>2. ASSUME NEW at \in Nat, DueRow(row, plan, at)
      PROVE  DueRow(row2, plan2, at)
  <2>1. \A n \in Int : n <= at => Closer(n) <= at
    BY DEF Closer, AutomationAssumption
  <2>2. QED
    BY <1>1, <1>2, <2>1 DEF DueRow, ReadBefore
<1>3. ASSUME DraftRow(row, plan)
      PROVE  DraftRow(row2, plan2)
  <2>1. Rhythm(row2.next, plan2.next)
    BY <1>1, <1>3, RhythmInTime DEF DraftRow, ReadBefore
  <2>2. QED
    BY <1>3, <2>1 DEF DraftRow, ReadBefore
<1>4. QED
  BY <1>2, <1>3

LEMMA TickHolds ==
  ASSUME AutomationAssumption, IInv, Tick
  PROVE  IInv'
<1>1. /\ plans' = Nearer(plans)
      /\ due' = [a \in Actors |-> Nearer(due[a])]
      /\ draft' = [a \in Actors |-> Nearer(draft[a])]
  BY DEF Tick, Nearer, Closer
<1>2. /\ timer' = [r \in Replicas |-> IF timer[r] > 0 THEN timer[r] - 1 ELSE 0]
      /\ lastRun' = Older(lastRun, 2 * Interval)
      /\ result' = [a \in Actors |-> IF a \in Replicas THEN Older(result[a], Interval)
                                     ELSE result[a]]
      /\ UNCHANGED <<phase, target, held, faults>>
  BY DEF Tick
<1>3. TypeOK /\ LockType
  BY DEF IInv
<1>4. plans \in Rows /\ DOMAIN plans = Plans
  BY <1>3 DEF TypeOK, Rows
<1>5. /\ plans' \in [Plans -> PlanRow]
      /\ \A p \in Plans :
           /\ plans'[p].trigger = plans[p].trigger /\ plans'[p].used = plans[p].used
           /\ plans'[p].open = plans[p].open
           /\ plans'[p].next = IF plans[p].trigger = "Calendar"
                                 THEN Closer(plans[p].next) ELSE plans[p].next
  <2>1. Nearer(plans) = [p \in Plans |-> Nearer(plans)[p]]
    BY <1>4 DEF Nearer
  <2>2. QED
    BY <1>1, <1>4, <2>1, NearerType
<1>6. \A a \in Actors : due'[a] = Nearer(due[a]) /\ draft'[a] = Nearer(draft[a])
  BY <1>1
<1>7. \A a \in Actors : due[a] \in Rows /\ draft[a] \in Rows
  BY <1>3 DEF LockType
<1>8. due' \in [Actors -> Rows] /\ draft' \in [Actors -> Rows]
  BY <1>1, <1>7, NearerType
<1>9. LockType'
  BY <1>2, <1>3, <1>8 DEF LockType
<1>10. result' \in [Actors -> Results] /\ lastRun' \in PastResults
  BY <1>2, <1>3, OlderType DEF TypeOK, Results, PastResults
<1>11. timer' \in [Replicas -> 0..Interval]
  BY <1>2, <1>3 DEF TypeOK, AutomationAssumption
<1>12. ASSUME NEW a \in Actors
       PROVE  /\ DOMAIN due'[a] = DOMAIN due[a] /\ DOMAIN draft'[a] = DOMAIN draft[a]
              /\ draft[a] = <<>> => draft'[a] = <<>>
              /\ due[a] = <<>> => due'[a] = <<>>
  <2>1. Nearer(<<>>) = <<>>
    BY NothingInHand DEF Nearer
  <2>2. QED
    BY <1>6, <1>7, <2>1, NearerType
<1>13. TypeOK'
  <2>1. ASSUME NEW a \in Actors
        PROVE  /\ DOMAIN due'[a] \subseteq Plans /\ DOMAIN draft'[a] \subseteq Plans
               /\ phase'[a] = "idle" => held'[a] = {} /\ draft'[a] = <<>>
    BY <1>2, <1>3, <1>12 DEF TypeOK
  <2>2. QED
    BY <1>2, <1>3, <1>5, <1>10, <1>11, <2>1 DEF TypeOK, Results, PastResults
<1>14. ASSUME NEW a \in Actors
       PROVE  ActorInv(a)'
  <2>1. ActorInv(a) /\ target[a] \in Nat
    BY <1>3 DEF IInv, TypeOK
  <2>2. ASSUME NEW p \in DOMAIN due[a]
        PROVE  DueRow(due'[a][p], plans'[p], target[a])
    <3>1. DueRow(due[a][p], plans[p], target[a])
      BY <2>1 DEF ActorInv, InHand
    <3>2. p \in Plans /\ due[a][p] \in PlanRow /\ plans[p] \in PlanRow /\ plans'[p] \in PlanRow
      BY <1>3, <1>5, <1>7, RowsType DEF TypeOK
    <3>3. /\ due'[a][p] \in PlanRow
          /\ due'[a][p].trigger = due[a][p].trigger /\ due'[a][p].used = due[a][p].used
          /\ due'[a][p].next = IF due[a][p].trigger = "Calendar"
                                 THEN Closer(due[a][p].next) ELSE due[a][p].next
      BY <1>6, <1>7, NearerType
    <3>4. QED
      BY <1>5, <2>1, <3>1, <3>2, <3>3, TickRows
  <2>3. ASSUME NEW p \in DOMAIN draft[a]
        PROVE  DraftRow(draft'[a][p], plans'[p])
    <3>1. DraftRow(draft[a][p], plans[p])
      BY <2>1 DEF ActorInv, InHand
    <3>2. p \in Plans /\ draft[a][p] \in PlanRow /\ plans[p] \in PlanRow /\ plans'[p] \in PlanRow
      BY <1>3, <1>5, <1>7, RowsType DEF TypeOK
    <3>3. /\ draft'[a][p] \in PlanRow
          /\ draft'[a][p].trigger = draft[a][p].trigger /\ draft'[a][p].used = draft[a][p].used
          /\ draft'[a][p].next = IF draft[a][p].trigger = "Calendar"
                                   THEN Closer(draft[a][p].next) ELSE draft[a][p].next
      BY <1>6, <1>7, NearerType
    <3>4. QED
      BY <1>5, <3>1, <3>2, <3>3, TickRows
  <2>4. InHand(a)'
    BY <1>2, <1>12, <2>1, <2>2, <2>3 DEF ActorInv, InHand
  <2>5. AtRest(a)'
    BY <1>2, <1>12, <2>1 DEF ActorInv, AtRest
  <2>6. Scheduled(a)'
    <3>1. lastRun \in PastResults
      BY <1>3 DEF TypeOK, PastResults
    <3>2. a \in Replicas /\ Apart(result[a]) => Apart(result[a])'
      BY <1>2, <3>1, OlderApart DEF Apart
    <3>3. QED
      BY <1>2, <2>1, <3>2 DEF ActorInv, Scheduled
  <2>7. Undone(a)'
    <3>1. result'[a].status = "Failed" => result[a].status = "Failed"
      <4>1. CASE result[a] = NoRun
        BY <1>2, <4>1 DEF Older
      <4>2. CASE result[a] \in Run
        BY <1>2, <4>2 DEF Older, Run
      <4>3. QED
        BY <1>3, <4>1, <4>2 DEF TypeOK
    <3>2. QED
      BY <1>2, <1>12, <2>1, <3>1 DEF ActorInv, Undone
  <2>8. QED
    BY <2>4, <2>5, <2>6, <2>7 DEF ActorInv
<1>15. QED
  BY <1>5, <1>9, <1>13, <1>14 DEF IInv

-----------------------------------------------------------------------------
\* The invariant

LEMMA InitHolds ==
  ASSUME AutomationAssumption, Init
  PROVE  IInv
<1>1. PICK trigger \in [Plans -> Triggers] :
        plans = [p \in Plans |-> [trigger |-> trigger[p], next |-> Every, used |-> 0,
                                  worn |-> FALSE, open |-> 0]]
  BY DEF Init
<1>2. plans \in [Plans -> PlanRow] /\ \A p \in Plans : plans[p].open <= 1
  BY <1>1 DEF PlanRow, AutomationAssumption
<1>3. LockType
  BY NothingInHand DEF Init, LockType
<1>4. TypeOK
  <2>1. \A a \in Actors :
          /\ DOMAIN due[a] \subseteq Plans /\ DOMAIN draft[a] \subseteq Plans
          /\ phase[a] = "idle" => held[a] = {} /\ draft[a] = <<>>
    BY NothingInHand DEF Init
  <2>2. QED
    BY <1>2, <2>1 DEF Init, TypeOK, AutomationAssumption
<1>5. \A a \in Actors : ActorInv(a)
  BY NothingInHand DEF Init, ActorInv, InHand, AtRest, Scheduled, Undone
<1>6. QED
  BY <1>2, <1>3, <1>4, <1>5 DEF IInv

LEMMA RunStepHolds ==
  ASSUME AutomationAssumption, IInv, NEW a \in Actors, RunStep(a)
  PROVE  IInv'
<1>1. CASE LockGenerator(a)
  BY <1>1, LockGeneratorHolds
<1>2. CASE GeneratePlan(a)
  BY <1>2, GeneratePlanHolds
<1>3. CASE Succeed(a)
  BY <1>3, SucceedHolds
<1>4. CASE Commit(a)
  BY <1>4, CommitHolds
<1>5. CASE Deliver(a)
  BY <1>5, DeliverHolds DEF Deliver
<1>6. QED
  BY <1>1, <1>2, <1>3, <1>4, <1>5 DEF RunStep

LEMMA ReplicaStepHolds ==
  ASSUME AutomationAssumption, IInv, NEW r \in Replicas, ReplicaStep(r)
  PROVE  IInv'
<1>1. r \in Actors
  BY ActorKinds
<1>2. CASE LockScheduler(r)
  BY <1>2, LockSchedulerHolds
<1>3. CASE Skip(r)
  BY <1>3, SkipHolds
<1>4. CASE StartRun(r)
  BY <1>4, StartRunHolds
<1>5. CASE Restart(r)
  BY <1>1, <1>5, DeliverHolds DEF Restart
<1>6. CASE RunStep(r)
  BY <1>1, <1>6, RunStepHolds
<1>7. QED
  BY <1>2, <1>3, <1>4, <1>5, <1>6 DEF ReplicaStep

LEMMA NextHolds ==
  ASSUME AutomationAssumption, IInv, [Next]_vars
  PROVE  IInv'
<1>1. CASE \E r \in Replicas : ReplicaStep(r) \/ Crash(r)
  BY <1>1, ReplicaStepHolds, CrashHolds
<1>2. CASE \E u \in Users : StartByHand(u) \/ RunStep(u)
  BY <1>2, ActorKinds, StartByHandHolds, RunStepHolds
<1>3. CASE \E a \in Actors : Fail(a)
  BY <1>3, FailHolds
<1>4. CASE \E p \in Plans : CloseWork(p) \/ AssetChanges(p)
  BY <1>4, CloseWorkHolds, AssetChangesHolds
<1>5. CASE Tick
  BY <1>5, TickHolds
<1>6. CASE UNCHANGED vars
  <2>1. TypeOK' /\ LockType' /\ \A p \in Plans : plans'[p].open <= 1
    BY <1>6 DEF IInv, TypeOK, LockType, vars
  <2>2. \A a \in Actors : ActorInv(a)'
    BY <1>6, Undisturbed DEF IInv, vars
  <2>3. QED
    BY <2>1, <2>2 DEF IInv
<1>7. QED
  BY <1>1, <1>2, <1>3, <1>4, <1>5, <1>6 DEF Next

\* The inductive invariant holds in every behaviour of the automation.
THEOREM AutomationInvariant == Spec => []IInv
<1>1. Init => IInv
  BY AutomationAssumption, InitHolds
<1>2. IInv /\ [Next]_vars => IInv'
  BY AutomationAssumption, NextHolds
<1>3. QED
  BY <1>1, <1>2, PTL DEF Spec

-----------------------------------------------------------------------------
\* What the invariant says of the automation

(* However many replicas and users generate at once, a plan has at most one *)
(* open work order (generate_due_pm_atomic under pm_generation_lock).       *)
THEOREM OneOpenOrderPerPlanHolds == Spec => []OneOpenOrderPerPlan
<1>1. IInv => OneOpenOrderPerPlan
  BY DEF IInv, OneOpenOrderPerPlan
<1>2. QED
  BY <1>1, AutomationInvariant, PTL

(* Two scheduled runs that succeed finish an interval apart or more, on     *)
(* whichever replicas they run (run_scheduled_automation_once under the     *)
(* scheduler mutex).                                                        *)
THEOREM ScheduledRunsAreSpacedHolds == Spec => ScheduledRunsAreSpaced
<1> DEFINE Spaced ==
             \A r \in Replicas :
               (phase[r] = "finish" /\ phase'[r] = "deliver" /\ lastRun.status = "Succeeded")
                 => lastRun.age - result[r].age >= Interval
<1>1. ASSUME IInv
      PROVE  Spaced
  <2> SUFFICES ASSUME NEW r \in Replicas, phase[r] = "finish", lastRun.status = "Succeeded"
               PROVE  lastRun.age - result[r].age >= Interval
    OBVIOUS
  <2>1. Apart(result[r])
    BY <1>1, AutomationAssumption, ActorKinds DEF IInv, ActorInv, Scheduled
  <2>2. QED
    BY <2>1 DEF Apart
<1>2. IInv /\ [Next]_vars => [Spaced]_vars
  BY <1>1
<1>3. Spec => [][Spaced]_vars
  BY <1>2, AutomationInvariant, PTL DEF Spec
<1>4. QED
  BY <1>3 DEF ScheduledRunsAreSpaced

(* A commit moves the due date of a plan by whole intervals and only later, *)
(* and a run that failed commits no plan.                                   *)
LEMMA CommitKeepsRhythm ==
  ASSUME AutomationAssumption, IInv, NEW a \in Actors, Commit(a), NEW p \in Plans,
         plans'[p].next - plans[p].next # 0
  PROVE  /\ plans'[p].next - plans[p].next > 0
         /\ (plans'[p].next - plans[p].next) % Every = 0
         /\ phase[a] = "finish" /\ phase'[a] # "finish"
         /\ result[a].status # "Failed"
<1>1. TypeOK /\ LockType /\ ActorInv(a) /\ plans[p] \in PlanRow
  BY DEF IInv, TypeOK
<1>2. p \in DOMAIN draft[a]
  <2>1. plans[p].next - plans[p].next = 0
    BY <1>1 DEF PlanRow
  <2>2. QED
    BY <2>1, CommitPlans
<1>3. plans'[p].next = draft[a][p].next /\ draft[a][p] \in PlanRow
  BY <1>1, <1>2, CommitPlans, RowsType DEF LockType
<1>4. Rhythm(draft[a][p].next, plans[p].next)
  BY <1>1, <1>2 DEF ActorInv, InHand, DraftRow
<1>5. draft[a][p].next \in Int /\ plans[p].next \in Int
  BY <1>1, <1>3 DEF PlanRow
<1>6. /\ draft[a][p].next - plans[p].next >= 0
      /\ (draft[a][p].next - plans[p].next) % Every = 0
  BY <1>4, <1>5, RhythmModulo
<1>7. phase[a] = "finish" /\ (Goto(a, "deliver") \/ Rest(a))
  BY DEF Commit
<1>8. phase'[a] # "finish"
  BY <1>1, <1>7 DEF TypeOK, Goto, Rest
<1>9. result[a].status # "Failed"
  BY <1>1, <1>2, <1>7, NothingInHand DEF ActorInv, Undone
<1>10. QED
  BY <1>3, <1>5, <1>6, <1>7, <1>8, <1>9

(* Nothing but time and a run that succeeds moves a due date, and a run     *)
(* moves it later by whole intervals (generate_due_pm_atomic).              *)
THEOREM CalendarKeepsRhythmHolds == Spec => CalendarKeepsRhythm
<1> DEFINE Kept == \A p \in Plans :
             LET moved == plans'[p].next - plans[p].next IN
               moved # 0 =>
                 \/ Tick
                 \/ /\ moved > 0
                    /\ moved % Every = 0
                    /\ \E a \in Actors : phase[a] = "finish" /\ phase'[a] # "finish"
                         /\ result[a].status # "Failed"
<1>1. ASSUME IInv, NEW p \in Plans
      PROVE  plans[p] \in PlanRow /\ plans[p].next \in Int
  BY <1>1 DEF IInv, TypeOK, PlanRow
<1>2. ASSUME IInv, \A p \in Plans : plans'[p].next = plans[p].next
      PROVE  Kept
  BY <1>1, <1>2
<1>3. ASSUME IInv, NEW a \in Actors, Commit(a)
      PROVE  Kept
  BY <1>3, AutomationAssumption, CommitKeepsRhythm
<1>4. ASSUME IInv, NEW a \in Actors, RunStep(a)
      PROVE  Kept
  <2>1. Commit(a) \/ plans' = plans
    BY <1>4 DEF RunStep, LockGenerator, GeneratePlan, Succeed, Deliver
  <2>2. QED
    BY <1>2, <1>3, <1>4, <2>1
<1>5. ASSUME IInv, NEW r \in Replicas, ReplicaStep(r) \/ Crash(r)
      PROVE  Kept
  <2>1. RunStep(r) \/ plans' = plans
    BY <1>5 DEF ReplicaStep, LockScheduler, Skip, StartRun, Restart, Crash
  <2>2. QED
    BY <1>2, <1>4, <1>5, <2>1, AutomationAssumption, ActorKinds
<1>6. ASSUME IInv, NEW u \in Users, StartByHand(u) \/ RunStep(u)
      PROVE  Kept
  <2>1. RunStep(u) \/ plans' = plans
    BY <1>6 DEF StartByHand
  <2>2. QED
    BY <1>2, <1>4, <1>6, <2>1, AutomationAssumption, ActorKinds
<1>7. ASSUME IInv, NEW p \in Plans, CloseWork(p) \/ AssetChanges(p)
      PROVE  Kept
  <2>1. \A q \in Plans : plans'[q].next = plans[q].next
    <3>1. plans \in [Plans -> PlanRow] /\ \A q \in Plans : plans[q] \in PlanRow
      BY <1>7 DEF IInv, TypeOK
    <3>2. CASE CloseWork(p)
      BY <3>1, <3>2 DEF CloseWork, PlanRow
    <3>3. CASE plans' = [plans EXCEPT ![p].used = @ + 1]
      BY <3>1, <3>3 DEF PlanRow
    <3>4. CASE plans' = [plans EXCEPT ![p].worn = ~@]
      BY <3>1, <3>4 DEF PlanRow
    <3>5. QED
      BY <1>7, <3>2, <3>3, <3>4 DEF AssetChanges
  <2>2. QED
    BY <1>2, <1>7, <2>1
<1>8. ASSUME IInv, Next
      PROVE  Kept
  <2>1. ASSUME NEW a \in Actors, Fail(a)
        PROVE  Kept
    BY <1>2, <1>8, <2>1 DEF Fail
  <2>2. CASE Tick
    BY <2>2
  <2>3. QED
    BY <1>5, <1>6, <1>7, <1>8, <2>1, <2>2 DEF Next
<1>9. IInv /\ [Next]_vars => [Kept]_vars
  BY <1>8
<1>10. Spec => [][Kept]_vars
  BY <1>9, AutomationInvariant, PTL DEF Spec
<1>11. QED
  BY <1>10 DEF CalendarKeepsRhythm
=============================================================================
