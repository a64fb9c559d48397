----------------------------- MODULE WorkDispatch ----------------------------
(***************************************************************************)
(* Work orders, their approvals and the field dispatches that execute them *)
(* (app/workflow_store.py, app/dispatch_store.py, the work-order part of   *)
(* app/approval_store.py and their helpers in app/application.py).         *)
(*                                                                         *)
(* A session is one request in one READ COMMITTED transaction.  What it    *)
(* reads without a lock is a step of its own, kept in snap; everything it  *)
(* claims by compare-and-swap (UPDATE ... WHERE status = <what was read>)  *)
(* keeps the row locked until the commit, so the claims and the commit are *)
(* one step, and a claim that matches no row rolls the request back.       *)
(* The assignment of a dispatch holds three kinds of locks between its     *)
(* checks and its claims: the coordinator, the technician, and the active  *)
(* dispatch rows of the work order.                                        *)
(*                                                                         *)
(* Roles are left out: every request is one its user may make.             *)
(***************************************************************************)
EXTENDS Integers, FiniteSets

CONSTANTS
  Works,          \* work orders
  Techs,          \* technicians
  Sessions,       \* concurrent requests
  Nobody,         \* assigned_to IS NULL
  Births,         \* statuses work orders are created with
  WorkActions,    \* the transitions users ask for
  Patches,        \* do users reassign work orders with a PATCH?
  MaxDispatches,  \* bound: dispatch ids are 1..MaxDispatches
  MaxApprovals    \* bound: approval ids are 1..MaxApprovals

WorkStatuses == {"Draft", "Submitted", "Rejected", "Approved", "Assigned",
                 "In Progress", "Completed", "Closed", "Cancelled"}

\* TRANSITIONS
Transitions ==
  {<<"Draft", "submit", "Submitted">>, <<"Rejected", "resubmit", "Submitted">>,
   <<"Submitted", "approve", "Approved">>, <<"Approved", "assign", "Assigned">>,
   <<"Assigned", "start", "In Progress">>, <<"In Progress", "pause", "Assigned">>,
   <<"In Progress", "complete", "Completed">>, <<"Completed", "close", "Closed">>}
  \union ({"Draft", "Rejected", "Submitted", "Approved", "Assigned"}
            \X {"cancel"} \X {"Cancelled"})

AllWorkActions == {"submit", "resubmit", "approve", "assign", "start", "pause",
                   "complete", "close", "cancel"}

ASSUME WorkDispatchAssumption ==
  /\ Nobody \notin Techs
  /\ Births \subseteq {"Draft", "Submitted"}
  /\ WorkActions \subseteq AllWorkActions
  /\ Patches \in BOOLEAN
  /\ MaxDispatches \in Nat
  /\ MaxApprovals \in Nat

VARIABLES
  work,        \* work[w]: status and assigned_to
  approvals,   \* approvals[a]: a row of approval_requests, or none
  dispatches,  \* dispatches[d]: a row of dispatch_assignments, or none
  active,      \* technicians whose account is active
  request,     \* request[s]: what session s was asked to do
  phase,       \* phase[s]: how far it is
  snap         \* snap[s]: what it has read without a lock

tables == <<work, approvals, dispatches, active>>
vars == <<work, approvals, dispatches, active, request, phase, snap>>

DispatchIds == 1..MaxDispatches
ApprovalIds == 1..MaxApprovals

ActiveDispatch == {"Dispatched", "Accepted", "En Route", "On Site"}
DispatchStatuses == ActiveDispatch \union {"Completed", "Cancelled"}
FieldActions == {"accept", "enroute", "arrive", "complete", "cancel"}
NoRow == [status |-> "None"]
NoSnap == [status |-> "None", assignee |-> Nobody, ids |-> {}]

Dispatches == {d \in DispatchIds : dispatches[d].status # "None"}
Approvals == {a \in ApprovalIds : approvals[a].status # "None"}

Requests ==
  [op : {"work"}, work : Works, action : WorkActions]
  \union [op : {"decide"}, approval : ApprovalIds, decision : {"Approved", "Rejected"}]
  \union [op : {"assign"}, work : Works, tech : Techs]
  \union [op : {"dispatch"}, id : DispatchIds,
          action : FieldActions]

Idle == [op |-> "none"]

TypeOK ==
  /\ work \in [Works -> [status : WorkStatuses, assignee : Techs \union {Nobody}]]
  /\ approvals \in [ApprovalIds ->
       {NoRow} \union [work : Works, status : {"Pending", "Approved", "Rejected"}]]
  /\ dispatches \in [DispatchIds ->
       {NoRow} \union [work : Works, tech : Techs,
                       status : DispatchStatuses]]
  /\ active \subseteq Techs
  /\ request \in [Sessions -> Requests \union {Idle}]
  /\ phase \in [Sessions -> {"idle", "half", "read", "entered"}]
  /\ \A s \in Sessions : phase[s] # "idle" <=> request[s] # Idle
  /\ snap \in [Sessions -> [status : WorkStatuses \union DispatchStatuses \union {"None"},
                            assignee : Techs \union {Nobody}, ids : SUBSET DispatchIds]]

Init ==
  /\ work \in [Works -> [status : Births, assignee : {Nobody}]]
  /\ approvals = [a \in ApprovalIds |-> NoRow]
  /\ dispatches = [d \in DispatchIds |-> NoRow]
  /\ active = Techs
  /\ request = [s \in Sessions |-> Idle]
  /\ phase = [s \in Sessions |-> "idle"]
  /\ snap = [s \in Sessions |-> NoSnap]

-----------------------------------------------------------------------------
\* Reading the tables

\* _active_dispatch_ids
ActiveIds(w) ==
  {d \in Dispatches : dispatches[d].work = w /\ dispatches[d].status \in ActiveDispatch}

\* Mutant: a technician who has not set out counts as available.
BusyOnlyOnTheRoad(t, w) ==
  \E d \in Dispatches : /\ dispatches[d].tech = t
                        /\ dispatches[d].work # w
                        /\ dispatches[d].status \in {"En Route", "On Site"}

\* The technician has an active dispatch for another work order.
Busy(t, w) ==
  \E d \in Dispatches : /\ dispatches[d].tech = t
                        /\ dispatches[d].work # w
                        /\ dispatches[d].status \in ActiveDispatch

PendingFor(w) ==
  {a \in Approvals : approvals[a].work = w /\ approvals[a].status = "Pending"}

\* Ids are given in sequence.
NextId(taken, r) == taken = 1..(r - 1)

-----------------------------------------------------------------------------
\* Row locks held between the checks and the claims of an assignment

Entered(s) == phase[s] = "entered"

DispatchRowFree(d) ==
  \A s \in Sessions : Entered(s) => d \notin snap[s].ids

TechnicianRowFree(t) ==
  \A s \in Sessions : Entered(s) => request[s].tech # t

CoordinatorFree == \A s \in Sessions : ~Entered(s)

-----------------------------------------------------------------------------
\* The life of a session

\* A request begins with a read.
Begin(s, rq, read, next) ==
  /\ phase[s] = "idle"
  /\ request' = [request EXCEPT ![s] = rq]
  /\ snap' = [snap EXCEPT ![s] = read]
  /\ phase' = [phase EXCEPT ![s] = next]
  /\ UNCHANGED tables

Remember(s, read, next) ==
  /\ snap' = [snap EXCEPT ![s] = read]
  /\ phase' = [phase EXCEPT ![s] = next]
  /\ UNCHANGED <<tables, request>>

End(s) ==
  /\ request' = [request EXCEPT ![s] = Idle]
  /\ phase' = [phase EXCEPT ![s] = "idle"]
  /\ snap' = [snap EXCEPT ![s] = NoSnap]

\* A refusal, a lost compare-and-swap, a lost connection.
Rollback(s) ==
  /\ phase[s] # "idle"
  /\ End(s)
  /\ UNCHANGED tables

-----------------------------------------------------------------------------
\* transition_work_atomic

\* The work order, and for a cancellation whether a dispatch is active, are
\* read before anything is locked.
ReadForTransition(s, w, action) ==
  /\ \E target \in WorkStatuses : <<work[w].status, action, target>> \in Transitions
  /\ action = "assign" => work[w].assignee # Nobody
  /\ action = "cancel" => ActiveIds(w) = {}
  /\ Begin(s, [op |-> "work", work |-> w, action |-> action],
           [status |-> work[w].status, assignee |-> Nobody, ids |-> {}], "read")

\* create_approval keeps one pending request; resolve_approval takes the last.
SubmitApproval(w) ==
  IF PendingFor(w) # {}
    THEN UNCHANGED approvals
    ELSE \E a \in ApprovalIds :
           /\ NextId(Approvals, a)
           /\ approvals' = [approvals EXCEPT ![a] = [work |-> w, status |-> "Pending"]]

ResolveApproval(w, status) ==
  IF PendingFor(w) = {}
    THEN UNCHANGED approvals
    ELSE \E a \in PendingFor(w) :
           /\ \A b \in PendingFor(w) : b <= a
           /\ approvals' = [approvals EXCEPT ![a] = [work |-> w, status |-> status]]

\* Mutant: UPDATE work_orders ... WHERE id=?
WorkClaimedById(s) == TRUE

\* UPDATE work_orders ... WHERE id=? AND status=<what was read>
WorkClaimed(s) == work[request[s].work].status = snap[s].status

TransitionWork(s) ==
  LET rq == request[s]
      w == rq.work
  IN /\ rq.op = "work"
     /\ phase[s] = "read"
     /\ WorkClaimed(s)
     /\ \E target \in WorkStatuses :
          /\ <<snap[s].status, rq.action, target>> \in Transitions
          /\ work' = [work EXCEPT ![w].status = target]
     /\ CASE rq.action \in {"submit", "resubmit"} -> SubmitApproval(w)
          [] rq.action = "approve" -> ResolveApproval(w, "Approved")
          [] rq.action = "cancel" -> ResolveApproval(w, "Rejected")
          [] OTHER -> UNCHANGED approvals
     /\ End(s)
     /\ UNCHANGED <<dispatches, active>>

-----------------------------------------------------------------------------
\* decide_approval_atomic on a work order

ReadApproval(s, a, decision) ==
  /\ approvals[a].status = "Pending"
  /\ Begin(s, [op |-> "decide", approval |-> a, decision |-> decision], NoSnap, "read")

\* Mutant: the approval row is claimed whatever became of it.
ApprovalClaimedById(a) == TRUE

\* The business row is claimed before the approval row.
ApprovalClaimed(a) == approvals[a].status = "Pending"

DecideApproval(s) ==
  LET a == request[s].approval
      w == approvals[a].work
  IN /\ request[s].op = "decide"
     /\ phase[s] = "read"
     /\ work[w].status = "Submitted"
     /\ ApprovalClaimed(a)
     /\ work' = [work EXCEPT ![w].status = request[s].decision]
     /\ approvals' = [approvals EXCEPT ![a] = [work |-> w, status |-> request[s].decision]]
     /\ End(s)
     /\ UNCHANGED <<dispatches, active>>

-----------------------------------------------------------------------------
\* assign_dispatch_atomic

\* load_dispatch_work_snapshot: the work order, then the active dispatches.
ReadWork(s, w, t) ==
  /\ work[w].status \in {"Approved", "Assigned"}
  /\ Begin(s, [op |-> "assign", work |-> w, tech |-> t],
           [status |-> work[w].status, assignee |-> work[w].assignee, ids |-> {}], "half")

ReadActiveIds(s) ==
  /\ request[s].op = "assign"
  /\ phase[s] = "half"
  /\ Remember(s, [status |-> snap[s].status, assignee |-> snap[s].assignee,
                  ids |-> ActiveIds(request[s].work)], "read")

\* Mutant: the active generation is not compared.
AnyGeneration(s) == TRUE

\* The active generation is the one the request was based on.
SameGeneration(s) == ActiveIds(request[s].work) = snap[s].ids

\* Coordinator, technician and active dispatch rows are locked, in this order.
EnterAssignment(s) ==
  LET rq == request[s] IN
    /\ rq.op = "assign"
    /\ phase[s] = "read"
    /\ CoordinatorFree
    /\ rq.tech \in active
    /\ SameGeneration(s)
    /\ ~Busy(rq.tech, rq.work)
    /\ Remember(s, snap[s], "entered")

AssignedRow(t) == [status |-> "Assigned", assignee |-> t]

\* The former dispatches of the work order are cancelled.
Replaced(w) == ActiveIds(w)

AssignDispatch(s) ==
  LET w == request[s].work IN
    /\ Entered(s)
    /\ WorkClaimed(s)
    /\ work[w].assignee = snap[s].assignee
    /\ \E new \in DispatchIds :
         /\ NextId(Dispatches, new)
         /\ dispatches' = [d \in DispatchIds |->
              CASE d = new -> [work |-> w, tech |-> request[s].tech, status |-> "Dispatched"]
                [] d \in Replaced(w) -> [work |-> w, tech |-> dispatches[d].tech,
                                         status |-> "Cancelled"]
                [] OTHER -> dispatches[d]]
    /\ work' = [work EXCEPT ![w] = AssignedRow(request[s].tech)]
    /\ End(s)
    /\ UNCHANGED <<approvals, active>>

-----------------------------------------------------------------------------
\* transition_dispatch_atomic

DispatchMapping ==
  {<<"Dispatched", "accept", "Accepted">>, <<"Accepted", "enroute", "En Route">>,
   <<"En Route", "arrive", "On Site">>, <<"On Site", "complete", "Completed">>}
  \union (ActiveDispatch \X {"cancel"} \X {"Cancelled"})

\* DISPATCH_WORK_STATES; a cancellation is not guarded.
WorkStateAllows(action, status) ==
  CASE action \in {"accept", "enroute", "arrive"} -> status \in {"Assigned", "In Progress"}
    [] action = "complete" -> status \in {"In Progress", "Completed", "Closed"}
    [] OTHER -> TRUE

ReadDispatch(s, d, action) ==
  /\ \E target \in DispatchStatuses :
       <<dispatches[d].status, action, target>> \in DispatchMapping
  /\ Begin(s, [op |-> "dispatch", id |-> d, action |-> action],
           [status |-> dispatches[d].status, assignee |-> Nobody, ids |-> {}], "read")

\* Mutant: UPDATE dispatch_assignments ... WHERE id=?
DispatchClaimedById(s) == TRUE

\* The dispatch row is claimed by the status that was expected; a cancellation
\* by any status that is not final.
DispatchClaimed(s) ==
  LET d == dispatches[request[s].id] IN
    IF request[s].action = "cancel"
      THEN d.status \in ActiveDispatch
      ELSE d.status = snap[s].status

\* The work order's state is guarded and locked after the dispatch, and an
\* arrival starts an assigned work order.
TransitionDispatch(s) ==
  LET rq == request[s]
      row == dispatches[rq.id]
      w == row.work
  IN /\ rq.op = "dispatch"
     /\ phase[s] = "read"
     /\ DispatchRowFree(rq.id)
     /\ DispatchClaimed(s)
     /\ WorkStateAllows(rq.action, work[w].status)
     /\ \E target \in DispatchStatuses :
          /\ <<snap[s].status, rq.action, target>> \in DispatchMapping
          /\ dispatches' = [dispatches EXCEPT ![rq.id] =
               [work |-> w, tech |-> row.tech, status |-> target]]
     /\ work' = IF rq.action = "arrive" /\ work[w].status = "Assigned"
                  THEN [work EXCEPT ![w].status = "In Progress"]
                  ELSE work
     /\ End(s)
     /\ UNCHANGED <<approvals, active>>

-----------------------------------------------------------------------------
\* Single updates

\* update_work: a PATCH of assigned_to, without a compare-and-swap.
Reassign(w, t) ==
  /\ Patches
  /\ work' = [work EXCEPT ![w].assignee = t]
  /\ UNCHANGED <<approvals, dispatches, active, request, phase, snap>>

\* set_user_status waits for the technician's row.
SetUserStatus(t) ==
  /\ TechnicianRowFree(t)
  /\ active' = IF t \in active THEN active \ {t} ELSE active \union {t}
  /\ UNCHANGED <<work, approvals, dispatches, request, phase, snap>>

-----------------------------------------------------------------------------
SessionStep(s) ==
  \/ \E w \in Works, action \in WorkActions : ReadForTransition(s, w, action)
  \/ TransitionWork(s)
  \/ \E a \in ApprovalIds, decision \in {"Approved", "Rejected"} :
       ReadApproval(s, a, decision)
  \/ DecideApproval(s)
  \/ \E w \in Works, t \in Techs : ReadWork(s, w, t)
  \/ ReadActiveIds(s)
  \/ EnterAssignment(s)
  \/ AssignDispatch(s)
  \/ \E d \in DispatchIds, action \in FieldActions :
       ReadDispatch(s, d, action)
  \/ TransitionDispatch(s)
  \/ Rollback(s)

Next ==
  \/ \E s \in Sessions : SessionStep(s)
  \/ \E w \in Works, t \in Techs : Reassign(w, t)
  \/ \E t \in Techs : SetUserStatus(t)

Spec == Init /\ [][Next]_vars

-----------------------------------------------------------------------------
\* Properties

(* "Only one active dispatch is allowed for a technician at a time."        *)
OneDispatchPerTechnician ==
  \A c, d \in Dispatches :
    (/\ c # d
     /\ dispatches[c].status \in ActiveDispatch
     /\ dispatches[d].status \in ActiveDispatch) => dispatches[c].tech # dispatches[d].tech

(* A work order has one active dispatch: a re-dispatch replaces the former  *)
(* one, and two concurrent assignments never both stand.                    *)
OneDispatchPerWork == \A w \in Works : Cardinality(ActiveIds(w)) <= 1

(* "Requests based on the same historical assignment cannot silently        *)
(* replace each other": an assignment cancels only dispatches that were     *)
(* active when it read its snapshot.                                        *)
NoSilentReplacement ==
  [][\A s \in Sessions :
       (request[s].op = "assign" /\ phase[s] = "entered" /\ dispatches' # dispatches) =>
         (\A d \in Dispatches :
            (dispatches[d].status \in ActiveDispatch /\ dispatches'[d].status = "Cancelled"
               /\ dispatches[d].work = request[s].work /\ phase'[s] = "idle")
                => d \in snap[s].ids)]_vars

(* A dispatch is only ever created for a technician whose account is active *)
(* at that moment, whatever an administrator does meanwhile.                *)
DispatchesActiveTechnicians ==
  [][\A d \in DispatchIds :
       (dispatches[d].status = "None" /\ dispatches'[d].status # "None") =>
         dispatches'[d].tech \in active']_vars

(* A field dispatch is under way only for a work order that has been        *)
(* approved and assigned, not for a draft, a submitted or a rejected one.   *)
DispatchedWorkWasApproved ==
  \A d \in Dispatches :
    dispatches[d].status \in ActiveDispatch =>
      work[dispatches[d].work].status \notin {"Draft", "Submitted", "Rejected", "Approved"}

(* Field events never reopen or rewind a record: a work order leaves        *)
(* Completed only to Closed, Closed and Cancelled are final, and so are the *)
(* final statuses of a dispatch, although claims race each other.           *)
FinalStaysFinal ==
  [][/\ \A w \in Works :
          CASE work[w].status = "Completed" -> work'[w].status \in {"Completed", "Closed"}
            [] work[w].status \in {"Closed", "Cancelled"} -> work'[w].status = work[w].status
            [] OTHER -> TRUE
     /\ \A d \in Dispatches :
          dispatches[d].status \in {"Completed", "Cancelled"} =>
            dispatches'[d] = dispatches[d]]_vars

(* The approval queue agrees with the work orders: a pending request is     *)
(* there only for a Submitted work order, and only once, through decisions, *)
(* direct approvals, resubmissions and cancellations in any order.          *)
PendingMeansSubmitted ==
  \A w \in Works :
    /\ PendingFor(w) # {} => work[w].status = "Submitted"
    /\ Cardinality(PendingFor(w)) <= 1

(* "Cancel the active dispatch before cancelling the work order": a         *)
(* cancelled work order has no active dispatch.                             *)
CancelledWorkHasNoDispatch ==
  \A w \in Works : work[w].status = "Cancelled" => ActiveIds(w) = {}
=============================================================================
