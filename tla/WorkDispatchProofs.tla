-------------------------- MODULE WorkDispatchProofs -------------------------
(***************************************************************************)
(* What WorkDispatch guarantees for every number of work orders,           *)
(* technicians, sessions, dispatches and approvals.                        *)
(***************************************************************************)
EXTENDS WorkDispatch, FiniteSetTheorems, TLAPS

Snap == [status : WorkStatuses \union DispatchStatuses \union {"None"},
         assignee : Techs \union {Nobody}, ids : SUBSET DispatchIds]

DispatchRow == [work : Works, tech : Techs, status : DispatchStatuses]

-----------------------------------------------------------------------------
\* Tables of transitions

\* A field event starts from an active dispatch.
LEMMA DispatchSource ==
  ASSUME NEW from, NEW action, NEW to, <<from, action, to>> \in DispatchMapping
  PROVE  from \in ActiveDispatch
<1>1. CASE <<from, action, to>> \in ActiveDispatch \X {"cancel"} \X {"Cancelled"}
  BY <1>1
<1>2. CASE <<from, action, to>> \notin ActiveDispatch \X {"cancel"} \X {"Cancelled"}
  BY <1>2 DEF DispatchMapping, ActiveDispatch
<1>3. QED
  BY <1>1, <1>2

\* A row with an active or final status is a row, not the absence of one.
LEMMA RowOfDispatch ==
  ASSUME TypeOK, NEW d \in DispatchIds, dispatches[d].status # "None"
  PROVE  /\ dispatches[d] \in DispatchRow
         /\ dispatches[d].work \in Works
         /\ dispatches[d].tech \in Techs
         /\ dispatches[d].status \in DispatchStatuses
<1>1. dispatches[d] \in {NoRow} \union DispatchRow
  BY DEF TypeOK, DispatchRow
<1>2. NoRow.status = "None"
  BY DEF NoRow
<1>3. dispatches[d] \in DispatchRow
  BY <1>1, <1>2
<1>4. QED
  BY <1>3 DEF DispatchRow

LEMMA RequestFields ==
  \A rq \in Requests :
    /\ rq # Idle
    /\ rq.op = "work" => rq.work \in Works /\ rq.action \in WorkActions
    /\ rq.op = "decide" => /\ rq.approval \in ApprovalIds
                           /\ rq.decision \in {"Approved", "Rejected"}
    /\ rq.op = "assign" => rq.work \in Works /\ rq.tech \in Techs
    /\ rq.op = "dispatch" => rq.id \in DispatchIds
BY DEF Requests, Idle

-----------------------------------------------------------------------------
\* Types

\* How the steps of a session keep the session variables in their types.
LEMMA BeginType ==
  ASSUME TypeOK, NEW s \in Sessions, NEW rq \in Requests, NEW read \in Snap,
         NEW next \in {"half", "read"}, Begin(s, rq, read, next)
  PROVE  TypeOK'
<1>1. request' \in [Sessions -> Requests \union {Idle}]
  BY DEF TypeOK, Begin
<1>2. phase' \in [Sessions -> {"idle", "half", "read", "entered"}]
  BY DEF TypeOK, Begin
<1>3. \A t \in Sessions : phase'[t] # "idle" <=> request'[t] # Idle
  BY RequestFields DEF TypeOK, Begin
<1>4. snap' \in [Sessions -> Snap]
  BY DEF TypeOK, Begin, Snap
<1>5. UNCHANGED <<work, approvals, dispatches, active>>
  BY DEF Begin, tables
<1>6. QED
  BY <1>1, <1>2, <1>3, <1>4, <1>5 DEF TypeOK, Snap

LEMMA RememberType ==
  ASSUME TypeOK, NEW s \in Sessions, NEW read \in Snap,
         NEW next \in {"read", "entered"}, phase[s] # "idle", Remember(s, read, next)
  PROVE  TypeOK'
<1>1. phase' \in [Sessions -> {"idle", "half", "read", "entered"}]
  BY DEF TypeOK, Remember
<1>2. \A t \in Sessions : phase'[t] # "idle" <=> request'[t] # Idle
  BY DEF TypeOK, Remember
<1>3. snap' \in [Sessions -> Snap]
  BY DEF TypeOK, Remember, Snap
<1>4. UNCHANGED <<work, approvals, dispatches, active, request>>
  BY DEF Remember, tables
<1>5. QED
  BY <1>1, <1>2, <1>3, <1>4 DEF TypeOK, Snap

LEMMA EndType ==
  ASSUME TypeOK, NEW s \in Sessions, End(s)
  PROVE  /\ request' \in [Sessions -> Requests \union {Idle}]
         /\ phase' \in [Sessions -> {"idle", "half", "read", "entered"}]
         /\ \A t \in Sessions : phase'[t] # "idle" <=> request'[t] # Idle
         /\ snap' \in [Sessions -> Snap]
<1>1. NoSnap \in Snap
  BY DEF NoSnap, Snap
<1>2. QED
  BY <1>1 DEF TypeOK, End, Snap

LEMMA ActiveIdsType == \A w : ActiveIds(w) \subseteq DispatchIds
BY DEF ActiveIds, Dispatches

\* The approvals that a work-order transition writes.
LEMMA ApprovalWrites ==
  ASSUME TypeOK, NEW w \in Works, NEW status \in {"Approved", "Rejected"},
         SubmitApproval(w) \/ ResolveApproval(w, status) \/ UNCHANGED approvals
  PROVE  approvals' \in [ApprovalIds ->
           {NoRow} \union [work : Works, status : {"Pending", "Approved", "Rejected"}]]
<1>1. CASE SubmitApproval(w)
  BY <1>1 DEF TypeOK, SubmitApproval
<1>2. CASE ResolveApproval(w, status)
  BY <1>2 DEF TypeOK, ResolveApproval, PendingFor, Approvals
<1>3. CASE UNCHANGED approvals
  BY <1>3 DEF TypeOK
<1>4. QED
  BY <1>1, <1>2, <1>3

\* A work order takes a status.
LEMMA WorkWrites ==
  ASSUME TypeOK, NEW w \in Works, NEW status \in WorkStatuses,
         work' = [work EXCEPT ![w].status = status]
  PROVE  work' \in [Works -> [status : WorkStatuses, assignee : Techs \union {Nobody}]]
BY DEF TypeOK

LEMMA TransitionWorkType ==
  ASSUME WorkDispatchAssumption, TypeOK, NEW s \in Sessions, TransitionWork(s)
  PROVE  TypeOK'
<1> DEFINE w == request[s].work
<1>1. request[s] \in Requests
  BY DEF TypeOK, TransitionWork, Idle
<1>2. w \in Works
  BY <1>1, RequestFields DEF TransitionWork
<1>3. work' \in [Works -> [status : WorkStatuses, assignee : Techs \union {Nobody}]]
  BY <1>2, WorkWrites DEF TransitionWork
<1>4. \E status \in {"Approved", "Rejected"} :
        SubmitApproval(w) \/ ResolveApproval(w, status) \/ UNCHANGED approvals
  BY DEF TransitionWork
<1>5. approvals' \in [ApprovalIds ->
        {NoRow} \union [work : Works, status : {"Pending", "Approved", "Rejected"}]]
  BY <1>2, <1>4, ApprovalWrites
<1>6. End(s) /\ UNCHANGED <<dispatches, active>>
  BY DEF TransitionWork
<1>7. QED
  BY <1>3, <1>5, <1>6, EndType DEF TypeOK, Snap

LEMMA DecideApprovalType ==
  ASSUME TypeOK, NEW s \in Sessions, DecideApproval(s)
  PROVE  TypeOK'
<1> DEFINE a == request[s].approval
           w == approvals[a].work
           decision == request[s].decision
<1>1. request[s] \in Requests
  BY DEF TypeOK, DecideApproval, Idle
<1>2. a \in ApprovalIds /\ decision \in {"Approved", "Rejected"}
  BY <1>1, RequestFields DEF DecideApproval
<1>3. w \in Works
  BY <1>2 DEF TypeOK, DecideApproval, ApprovalClaimed, NoRow
<1>4. work' \in [Works -> [status : WorkStatuses, assignee : Techs \union {Nobody}]]
  <2>1. decision \in WorkStatuses
    BY <1>2 DEF WorkStatuses
  <2>2. work' = [work EXCEPT ![w].status = decision]
    BY DEF DecideApproval
  <2>3. QED
    BY <1>3, <2>1, <2>2, WorkWrites
<1>5. approvals' \in [ApprovalIds ->
        {NoRow} \union [work : Works, status : {"Pending", "Approved", "Rejected"}]]
  BY <1>2, <1>3 DEF TypeOK, DecideApproval
<1>6. End(s) /\ UNCHANGED <<dispatches, active>>
  BY DEF DecideApproval
<1>7. QED
  BY <1>4, <1>5, <1>6, EndType DEF TypeOK, Snap

LEMMA AssignDispatchType ==
  ASSUME TypeOK, NEW s \in Sessions, request[s].op = "assign", AssignDispatch(s)
  PROVE  TypeOK'
<1> DEFINE w == request[s].work
           t == request[s].tech
<1>1. request[s] \in Requests
  BY DEF TypeOK, Idle
<1>2. w \in Works /\ t \in Techs
  BY <1>1, RequestFields
<1>3. work' \in [Works -> [status : WorkStatuses, assignee : Techs \union {Nobody}]]
  BY <1>2 DEF TypeOK, AssignDispatch, AssignedRow, WorkStatuses
<1>4. PICK new \in DispatchIds :
        /\ new \notin Replaced(w)
        /\ dispatches' = [d \in DispatchIds |->
             CASE d = new -> [work |-> w, tech |-> t, status |-> "Dispatched"]
               [] d \in Replaced(w) -> [work |-> w, tech |-> dispatches[d].tech,
                                        status |-> "Cancelled"]
               [] OTHER -> dispatches[d]]
  BY DEF AssignDispatch, NextId, Replaced, ActiveIds, DispatchIds
<1>5. \A d \in Replaced(w) : dispatches[d].tech \in Techs
  BY RowOfDispatch DEF Replaced, ActiveIds, Dispatches
<1>6. \A d \in DispatchIds : dispatches'[d] \in {NoRow} \union DispatchRow
  <2> SUFFICES ASSUME NEW d \in DispatchIds
               PROVE  dispatches'[d] \in {NoRow} \union DispatchRow
    OBVIOUS
  <2>1. CASE d = new
    <3>1. dispatches'[d] = [work |-> w, tech |-> t, status |-> "Dispatched"]
      BY <1>4, <2>1
    <3>2. "Dispatched" \in DispatchStatuses
      BY DEF DispatchStatuses, ActiveDispatch
    <3>3. [work |-> w, tech |-> t, status |-> "Dispatched"] \in DispatchRow
      BY <1>2, <3>2 DEF DispatchRow
    <3>4. QED
      BY <3>1, <3>3
  <2>2. CASE d # new /\ d \in Replaced(w)
    <3>1. dispatches'[d] = [work |-> w, tech |-> dispatches[d].tech, status |-> "Cancelled"]
      BY <1>4, <2>2
    <3>2. dispatches[d].tech \in Techs /\ "Cancelled" \in DispatchStatuses
      BY <1>5, <2>2 DEF DispatchStatuses
    <3>3. [work |-> w, tech |-> dispatches[d].tech, status |-> "Cancelled"] \in DispatchRow
      BY <1>2, <3>2 DEF DispatchRow
    <3>4. QED
      BY <3>1, <3>3
  <2>3. CASE d # new /\ d \notin Replaced(w)
    BY <1>4, <2>3 DEF TypeOK, DispatchRow
  <2>4. QED
    BY <2>1, <2>2, <2>3
<1>7. dispatches' \in [DispatchIds -> {NoRow} \union DispatchRow]
  BY <1>4, <1>6
<1>8. End(s) /\ UNCHANGED <<approvals, active>>
  BY DEF AssignDispatch
<1>9. QED
  BY <1>3, <1>7, <1>8, EndType DEF TypeOK, Snap, DispatchRow

\* A field event finds an active row and only writes its status.
LEMMA FieldEventWrites ==
  ASSUME TypeOK, NEW s \in Sessions, TransitionDispatch(s)
  PROVE  LET d == request[s].id
             row == dispatches[d]
         IN /\ d \in DispatchIds
            /\ row.status \in ActiveDispatch
            /\ row.work \in Works
            /\ row.tech \in Techs
            /\ \E target \in DispatchStatuses :
                 dispatches' = [dispatches EXCEPT ![d] =
                   [work |-> row.work, tech |-> row.tech, status |-> target]]
<1> DEFINE d == request[s].id
           row == dispatches[d]
<1>1. request[s] \in Requests
  BY DEF TypeOK, TransitionDispatch, Idle
<1>2. d \in DispatchIds
  BY <1>1, RequestFields DEF TransitionDispatch
<1>3. PICK target \in DispatchStatuses :
        /\ <<snap[s].status, request[s].action, target>> \in DispatchMapping
        /\ dispatches' = [dispatches EXCEPT ![d] =
             [work |-> row.work, tech |-> row.tech, status |-> target]]
  BY DEF TransitionDispatch
<1>4. snap[s].status \in ActiveDispatch
  BY <1>3, DispatchSource
<1>5. row.status \in ActiveDispatch
  BY <1>4 DEF TransitionDispatch, DispatchClaimed
<1>6. row.work \in Works /\ row.tech \in Techs
  BY <1>2, <1>5, RowOfDispatch DEF ActiveDispatch
<1>7. QED
  BY <1>2, <1>3, <1>5, <1>6

LEMMA TransitionDispatchType ==
  ASSUME TypeOK, NEW s \in Sessions, TransitionDispatch(s)
  PROVE  TypeOK'
<1> DEFINE d == request[s].id
           row == dispatches[d]
<1>1. dispatches' \in [DispatchIds -> {NoRow} \union DispatchRow]
  <2>1. PICK target \in DispatchStatuses :
          dispatches' = [dispatches EXCEPT ![d] =
            [work |-> row.work, tech |-> row.tech, status |-> target]]
    BY FieldEventWrites
  <2>2. [work |-> row.work, tech |-> row.tech, status |-> target] \in DispatchRow
    BY FieldEventWrites DEF DispatchRow
  <2>3. dispatches \in [DispatchIds -> {NoRow} \union DispatchRow]
    BY DEF TypeOK, DispatchRow
  <2>4. QED
    BY <2>1, <2>2, <2>3
<1>2. row.work \in Works
  BY FieldEventWrites
<1>3. work' \in [Works -> [status : WorkStatuses, assignee : Techs \union {Nobody}]]
  <2>1. "In Progress" \in WorkStatuses
    BY DEF WorkStatuses
  <2>2. work' = work \/ work' = [work EXCEPT ![row.work].status = "In Progress"]
    BY DEF TransitionDispatch
  <2>3. CASE work' = work
    BY <2>3 DEF TypeOK
  <2>4. CASE work' = [work EXCEPT ![row.work].status = "In Progress"]
    BY <1>2, <2>1, <2>4, WorkWrites
  <2>5. QED
    BY <2>2, <2>3, <2>4
<1>4. End(s) /\ UNCHANGED <<approvals, active>>
  BY DEF TransitionDispatch
<1>5. QED
  BY <1>1, <1>3, <1>4, EndType DEF TypeOK, Snap, DispatchRow

-----------------------------------------------------------------------------
\* The inductive invariant

\* Only an assignment takes the coordinator's lock, one at a time.
OneCoordinator ==
  \A s, t \in Sessions :
    Entered(s) => request[s].op = "assign" /\ (Entered(t) => s = t)

\* What the coordinator checked still holds when it writes.
ChecksStillHold ==
  \A s \in Sessions :
    Entered(s) => /\ ActiveIds(request[s].work) = snap[s].ids
                  /\ ~Busy(request[s].tech, request[s].work)

\* Two active dispatches are for two work orders.
OneActivePerWork ==
  \A c, d \in Dispatches :
    (/\ c # d
     /\ dispatches[c].status \in ActiveDispatch
     /\ dispatches[d].status \in ActiveDispatch) => dispatches[c].work # dispatches[d].work

DispatchInv ==
  /\ OneCoordinator
  /\ ChecksStillHold
  /\ OneDispatchPerTechnician
  /\ OneActivePerWork

\* A step that writes no dispatch and lets no session enter keeps it.
LEMMA QuietStep ==
  ASSUME DispatchInv, UNCHANGED dispatches,
         \A s \in Sessions : Entered(s)' =>
           Entered(s) /\ request'[s] = request[s] /\ snap'[s] = snap[s]
  PROVE  DispatchInv'
<1>1. OneCoordinator'
  BY DEF DispatchInv, OneCoordinator
<1>2. ChecksStillHold'
  BY DEF DispatchInv, ChecksStillHold, ActiveIds, Busy, Dispatches
<1>3. OneDispatchPerTechnician' /\ OneActivePerWork'
  BY DEF DispatchInv, OneDispatchPerTechnician, OneActivePerWork, Dispatches
<1>4. QED
  BY <1>1, <1>2, <1>3 DEF DispatchInv

LEMMA QuietBegin ==
  ASSUME TypeOK, DispatchInv, NEW s \in Sessions, NEW rq, NEW read,
         NEW next \in {"half", "read"}, Begin(s, rq, read, next)
  PROVE  DispatchInv'
<1>1. UNCHANGED dispatches
  BY DEF Begin, tables
<1>2. \A t \in Sessions : Entered(t)' =>
        Entered(t) /\ request'[t] = request[t] /\ snap'[t] = snap[t]
  BY DEF TypeOK, Begin, Entered
<1>3. QED
  BY <1>1, <1>2, QuietStep

LEMMA QuietEnd ==
  ASSUME TypeOK, DispatchInv, NEW s \in Sessions, End(s), UNCHANGED dispatches
  PROVE  DispatchInv'
<1>1. \A t \in Sessions : Entered(t)' =>
        Entered(t) /\ request'[t] = request[t] /\ snap'[t] = snap[t]
  BY DEF TypeOK, End, Entered
<1>2. QED
  BY <1>1, QuietStep

LEMMA EnterKeepsInv ==
  ASSUME TypeOK, DispatchInv, NEW s \in Sessions, EnterAssignment(s)
  PROVE  DispatchInv'
<1>1. UNCHANGED <<dispatches, request>>
  BY DEF EnterAssignment, Remember, tables
<1>2. \A t \in Sessions : Entered(t)' => t = s
  BY DEF TypeOK, EnterAssignment, Remember, CoordinatorFree, Entered
<1>3. snap'[s] = snap[s]
  BY DEF TypeOK, EnterAssignment, Remember
<1>4. OneCoordinator'
  BY <1>1, <1>2 DEF OneCoordinator, EnterAssignment
<1>5. ChecksStillHold'
  BY <1>1, <1>2, <1>3
     DEF ChecksStillHold, EnterAssignment, SameGeneration, ActiveIds, Busy, Dispatches
<1>6. OneDispatchPerTechnician' /\ OneActivePerWork'
  BY <1>1 DEF DispatchInv, OneDispatchPerTechnician, OneActivePerWork, Dispatches
<1>7. QED
  BY <1>4, <1>5, <1>6 DEF DispatchInv

\* The coordinator's dispatch takes the place of the others of its work order,
\* and its technician has no other.
LEMMA AssignKeepsInv ==
  ASSUME TypeOK, DispatchInv, NEW s \in Sessions, AssignDispatch(s)
  PROVE  DispatchInv'
<1> DEFINE w == request[s].work
           t == request[s].tech
<1>1. PICK new \in DispatchIds :
        /\ new \notin Dispatches
        /\ dispatches' = [d \in DispatchIds |->
             CASE d = new -> [work |-> w, tech |-> t, status |-> "Dispatched"]
               [] d \in ActiveIds(w) -> [work |-> w, tech |-> dispatches[d].tech,
                                         status |-> "Cancelled"]
               [] OTHER -> dispatches[d]]
  BY DEF AssignDispatch, NextId, Replaced, DispatchIds
<1>2. Entered(s) /\ ~Busy(t, w)
  BY DEF AssignDispatch, DispatchInv, ChecksStillHold
<1>3. \A r \in Sessions : ~Entered(r)'
  BY <1>2 DEF TypeOK, DispatchInv, OneCoordinator, AssignDispatch, End, Entered
<1>4. dispatches'[new] = [work |-> w, tech |-> t, status |-> "Dispatched"]
  <2>1. new \notin ActiveIds(w)
    BY <1>1 DEF ActiveIds
  <2>2. QED
    BY <1>1, <2>1
<1>5. \A d \in Dispatches' : (d # new /\ dispatches'[d].status \in ActiveDispatch) =>
        /\ d \in Dispatches
        /\ dispatches'[d] = dispatches[d]
        /\ dispatches[d].work # w
        /\ dispatches[d].tech # t
  <2> SUFFICES ASSUME NEW d \in DispatchIds, d # new, dispatches'[d].status \in ActiveDispatch
               PROVE  /\ d \in Dispatches
                      /\ dispatches'[d] = dispatches[d]
                      /\ dispatches[d].work # w
                      /\ dispatches[d].tech # t
    BY DEF Dispatches
  <2>1. d \notin ActiveIds(w)
    <3>1. CASE d \in ActiveIds(w)
      <4>1. dispatches'[d] = [work |-> w, tech |-> dispatches[d].tech, status |-> "Cancelled"]
        BY <1>1, <3>1, d # new
      <4>2. QED
        BY <4>1 DEF ActiveDispatch
    <3>2. QED
      BY <3>1
  <2>2. dispatches'[d] = dispatches[d]
    BY <1>1, <2>1
  <2>3. d \in Dispatches
    BY <2>2 DEF Dispatches, ActiveDispatch
  <2>4. dispatches[d].work # w
    BY <2>1, <2>2, <2>3 DEF ActiveIds
  <2>5. dispatches[d].tech # t
    BY <1>2, <2>2, <2>3, <2>4 DEF Busy
  <2>6. QED
    BY <2>2, <2>3, <2>4, <2>5
<1>6. OneDispatchPerTechnician'
  BY <1>4, <1>5 DEF DispatchInv, OneDispatchPerTechnician
<1>7. OneActivePerWork'
  BY <1>4, <1>5 DEF DispatchInv, OneActivePerWork
<1>8. OneCoordinator' /\ ChecksStillHold'
  BY <1>3 DEF OneCoordinator, ChecksStillHold
<1>9. QED
  BY <1>6, <1>7, <1>8 DEF DispatchInv

\* A field event waits for the rows the coordinator has locked, so it ends no
\* dispatch the coordinator counted; and it makes no dispatch active.
LEMMA FieldEventKeepsInv ==
  ASSUME TypeOK, DispatchInv, NEW s \in Sessions, TransitionDispatch(s)
  PROVE  DispatchInv'
<1> DEFINE e == request[s].id
<1>1. e \in DispatchIds /\ dispatches[e].status \in ActiveDispatch
  BY FieldEventWrites
<1>2. PICK target \in DispatchStatuses :
        dispatches' = [dispatches EXCEPT ![e] =
          [work |-> dispatches[e].work, tech |-> dispatches[e].tech, status |-> target]]
  BY FieldEventWrites
<1>3. dispatches \in [DispatchIds -> {NoRow} \union DispatchRow]
  BY DEF TypeOK, DispatchRow
<1>4. \A d \in DispatchIds : d # e => dispatches'[d] = dispatches[d]
  BY <1>2, <1>3
<1>5. dispatches'[e] =
        [work |-> dispatches[e].work, tech |-> dispatches[e].tech, status |-> target]
  BY <1>1, <1>2, <1>3
<1>6. dispatches'[e].work = dispatches[e].work /\ dispatches'[e].tech = dispatches[e].tech
  BY <1>5
<1>7. \A d \in Dispatches' : dispatches'[d].status \in ActiveDispatch =>
        /\ d \in Dispatches
        /\ dispatches[d].status \in ActiveDispatch
        /\ dispatches'[d].work = dispatches[d].work
        /\ dispatches'[d].tech = dispatches[d].tech
  BY <1>1, <1>4, <1>6 DEF Dispatches, ActiveDispatch
<1>8. OneDispatchPerTechnician' /\ OneActivePerWork'
  BY <1>7 DEF DispatchInv, OneDispatchPerTechnician, OneActivePerWork
<1>9. \A r \in Sessions : Entered(r)' =>
        Entered(r) /\ request'[r] = request[r] /\ snap'[r] = snap[r]
  BY DEF TypeOK, TransitionDispatch, End, Entered
<1>10. OneCoordinator'
  BY <1>9 DEF DispatchInv, OneCoordinator
<1>11. ChecksStillHold'
  <2> SUFFICES ASSUME NEW r \in Sessions, Entered(r)'
               PROVE  /\ ActiveIds(request[r].work)' = snap'[r].ids
                      /\ ~Busy(request[r].tech, request[r].work)'
    BY DEF ChecksStillHold
  <2>1. /\ Entered(r)
        /\ ActiveIds(request[r].work) = snap[r].ids
        /\ ~Busy(request[r].tech, request[r].work)
    BY <1>9 DEF DispatchInv, ChecksStillHold
  <2>2. request'[r] = request[r] /\ snap'[r] = snap[r]
    BY <1>9
  <2>3. e \notin ActiveIds(request[r].work)
    BY <2>1 DEF TransitionDispatch, DispatchRowFree
  <2>4. dispatches[e].work # request[r].work
    BY <1>1, <2>3 DEF ActiveIds, Dispatches, ActiveDispatch
  <2>5. \A d \in DispatchIds : d \in ActiveIds(request[r].work)' <=>
                                d \in ActiveIds(request[r].work)
    BY <1>4, <1>6, <2>2, <2>4 DEF ActiveIds, Dispatches
  <2>6. ActiveIds(request[r].work)' = ActiveIds(request[r].work)
    BY <2>5 DEF ActiveIds, Dispatches
  <2>7. ~Busy(request[r].tech, request[r].work)'
    BY <1>7, <2>1, <2>2 DEF Busy
  <2>8. QED
    BY <2>1, <2>2, <2>6, <2>7
<1>12. QED
  BY <1>8, <1>10, <1>11 DEF DispatchInv

-----------------------------------------------------------------------------
\* The theorems

IInv == TypeOK /\ DispatchInv

LEMMA InitIInv == ASSUME WorkDispatchAssumption, Init PROVE IInv
<1>1. work \in [Works -> [status : WorkStatuses, assignee : Techs \union {Nobody}]]
  BY DEF WorkDispatchAssumption, Init, WorkStatuses
<1>2. NoSnap \in Snap
  BY DEF NoSnap, Snap
<1>3. snap \in [Sessions -> Snap]
  BY <1>2 DEF Init
<1>4. TypeOK
  BY <1>1, <1>3 DEF Init, TypeOK, Snap
<1>5. DispatchInv
  BY DEF Init, DispatchInv, OneCoordinator, ChecksStillHold, OneDispatchPerTechnician,
         OneActivePerWork, Entered, Dispatches, NoRow
<1>6. QED
  BY <1>4, <1>5 DEF IInv

LEMMA SessionKeepsIInv ==
  ASSUME WorkDispatchAssumption, IInv, NEW s \in Sessions, SessionStep(s)
  PROVE  IInv'
<1> USE DEF IInv
<1>1. ASSUME NEW w \in Works, NEW action \in WorkActions, ReadForTransition(s, w, action)
      PROVE  IInv'
  <2> DEFINE rq == [op |-> "work", work |-> w, action |-> action]
             read == [status |-> work[w].status, assignee |-> Nobody, ids |-> {}]
  <2>1. Begin(s, rq, read, "read")
    BY <1>1 DEF ReadForTransition
  <2>2. rq \in Requests
    BY DEF Requests
  <2>3. read \in Snap
    BY DEF TypeOK, Snap
  <2>4. QED
    BY <2>1, <2>2, <2>3, BeginType, QuietBegin
<1>2. CASE TransitionWork(s)
  BY <1>2, TransitionWorkType, QuietEnd DEF TransitionWork
<1>3. ASSUME NEW a \in ApprovalIds, NEW decision \in {"Approved", "Rejected"},
             ReadApproval(s, a, decision)
      PROVE  IInv'
  <2> DEFINE rq == [op |-> "decide", approval |-> a, decision |-> decision]
  <2>1. Begin(s, rq, NoSnap, "read")
    BY <1>3 DEF ReadApproval
  <2>2. rq \in Requests
    BY DEF Requests
  <2>3. NoSnap \in Snap
    BY DEF NoSnap, Snap
  <2>4. QED
    BY <2>1, <2>2, <2>3, BeginType, QuietBegin
<1>4. CASE DecideApproval(s)
  BY <1>4, DecideApprovalType, QuietEnd DEF DecideApproval
<1>5. ASSUME NEW w \in Works, NEW t \in Techs, ReadWork(s, w, t)
      PROVE  IInv'
  <2> DEFINE rq == [op |-> "assign", work |-> w, tech |-> t]
             read == [status |-> work[w].status, assignee |-> work[w].assignee, ids |-> {}]
  <2>1. Begin(s, rq, read, "half")
    BY <1>5 DEF ReadWork
  <2>2. rq \in Requests
    BY DEF Requests
  <2>3. read \in Snap
    BY DEF TypeOK, Snap
  <2>4. QED
    BY <2>1, <2>2, <2>3, BeginType, QuietBegin
<1>6. CASE ReadActiveIds(s)
  <2> DEFINE read == [status |-> snap[s].status, assignee |-> snap[s].assignee,
                      ids |-> ActiveIds(request[s].work)]
  <2>1. Remember(s, read, "read") /\ phase[s] = "half"
    BY <1>6 DEF ReadActiveIds
  <2>2. read \in Snap
    BY ActiveIdsType DEF TypeOK, Snap
  <2>3. TypeOK'
    BY <2>1, <2>2, RememberType
  <2>4. DispatchInv'
    BY <2>1, QuietStep DEF TypeOK, Remember, Entered, tables
  <2>5. QED
    BY <2>3, <2>4
<1>7. CASE EnterAssignment(s)
  <2>1. Remember(s, snap[s], "entered") /\ phase[s] = "read"
    BY <1>7 DEF EnterAssignment
  <2>2. snap[s] \in Snap
    BY DEF TypeOK, Snap
  <2>3. QED
    BY <1>7, <2>1, <2>2, RememberType, EnterKeepsInv
<1>8. CASE AssignDispatch(s)
  <2>1. request[s].op = "assign"
    BY <1>8 DEF DispatchInv, OneCoordinator, AssignDispatch
  <2>2. QED
    BY <1>8, <2>1, AssignDispatchType, AssignKeepsInv
<1>9. ASSUME NEW d \in DispatchIds, NEW action \in FieldActions, ReadDispatch(s, d, action)
      PROVE  IInv'
  <2> DEFINE rq == [op |-> "dispatch", id |-> d, action |-> action]
             read == [status |-> dispatches[d].status, assignee |-> Nobody, ids |-> {}]
  <2>1. Begin(s, rq, read, "read")
    BY <1>9 DEF ReadDispatch
  <2>2. rq \in Requests
    BY DEF Requests
  <2>3. dispatches[d].status \in DispatchStatuses
    BY <1>9, DispatchSource DEF ReadDispatch, DispatchStatuses
  <2>4. read \in Snap
    BY <2>3 DEF Snap
  <2>5. QED
    BY <2>1, <2>2, <2>4, BeginType, QuietBegin
<1>10. CASE TransitionDispatch(s)
  BY <1>10, TransitionDispatchType, FieldEventKeepsInv
<1>11. CASE Rollback(s)
  <2>1. TypeOK'
    BY <1>11, EndType DEF Rollback, tables, TypeOK, Snap
  <2>2. DispatchInv'
    BY <1>11, QuietEnd DEF Rollback, tables
  <2>3. QED
    BY <2>1, <2>2
<1>12. QED
  BY <1>1, <1>2, <1>3, <1>4, <1>5, <1>6, <1>7, <1>8, <1>9, <1>10, <1>11 DEF SessionStep

LEMMA NextIInv == ASSUME WorkDispatchAssumption, IInv, [Next]_vars PROVE IInv'
<1> USE DEF IInv
<1>1. ASSUME NEW s \in Sessions, SessionStep(s)
      PROVE  IInv'
  BY <1>1, SessionKeepsIInv
<1>2. ASSUME NEW w \in Works, NEW t \in Techs, Reassign(w, t)
      PROVE  IInv'
  BY <1>2, QuietStep DEF Reassign, TypeOK, Entered
<1>3. ASSUME NEW t \in Techs, SetUserStatus(t)
      PROVE  IInv'
  BY <1>3, QuietStep DEF SetUserStatus, TypeOK, Entered
<1>4. CASE UNCHANGED vars
  BY <1>4, QuietStep DEF vars, TypeOK, Entered
<1>5. QED
  BY <1>1, <1>2, <1>3, <1>4 DEF Next

LEMMA IInvHolds == Spec => []IInv
BY WorkDispatchAssumption, InitIInv, NextIInv, PTL DEF Spec

\* Every reachable state has well-formed rows and sessions.
THEOREM DispatchTypeCorrect == Spec => []TypeOK
BY IInvHolds, PTL DEF IInv

\* A technician never has two active dispatches: the coordinator's check of the
\* technician, made under the technician's lock, still holds when it writes.
THEOREM TechnicianDispatchedOnce == Spec => []OneDispatchPerTechnician
<1>1. IInv => OneDispatchPerTechnician
  BY DEF IInv, DispatchInv
<1>2. QED
  BY <1>1, IInvHolds, PTL

\* A work order never has two active dispatches: the one that is assigned
\* replaces all the others, and assignments are made one at a time.
THEOREM WorkDispatchedOnce == Spec => []OneDispatchPerWork
<1>1. IInv => OneDispatchPerWork
  <2> SUFFICES ASSUME IInv, NEW w \in Works
               PROVE  Cardinality(ActiveIds(w)) <= 1
    BY DEF OneDispatchPerWork
  <2>1. \A c, d \in ActiveIds(w) : c = d
    BY DEF IInv, DispatchInv, OneActivePerWork, ActiveIds
  <2>2. CASE ActiveIds(w) = {}
    BY <2>2, FS_EmptySet
  <2>3. CASE ActiveIds(w) # {}
    <3>1. PICK d \in ActiveIds(w) : ActiveIds(w) = {d}
      BY <2>1, <2>3
    <3>2. Cardinality({d}) = 1
      BY FS_Singleton
    <3>3. QED
      BY <3>1, <3>2
  <2>4. QED
    BY <2>2, <2>3
<1>2. QED
  BY <1>1, IInvHolds, PTL

\* An assignment cancels no dispatch its request did not know of.
THEOREM ReplacesOnlyWhatItRead == Spec => NoSilentReplacement
<1> DEFINE Step == \A s \in Sessions :
       (request[s].op = "assign" /\ phase[s] = "entered" /\ dispatches' # dispatches) =>
         (\A d \in Dispatches :
            (dispatches[d].status \in ActiveDispatch /\ dispatches'[d].status = "Cancelled"
               /\ dispatches[d].work = request[s].work /\ phase'[s] = "idle")
                => d \in snap[s].ids)
<1>1. IInv => Step
  BY DEF IInv, DispatchInv, ChecksStillHold, ActiveIds, Entered
<1>2. Spec => [][Step]_vars
  BY <1>1, IInvHolds, PTL
<1>3. QED
  BY <1>2 DEF NoSilentReplacement

-----------------------------------------------------------------------------
\* Accounts of technicians

\* The technician whose row an assignment has locked is active.
LockedTechnicianActive ==
  \A s \in Sessions : Entered(s) => request[s].tech \in active

LEMMA SessionKeepsTechnician ==
  ASSUME TypeOK, LockedTechnicianActive, NEW s \in Sessions, SessionStep(s)
  PROVE  LockedTechnicianActive' /\ UNCHANGED active
<1>1. ASSUME NEW rq, NEW read, NEW next \in {"half", "read"}, Begin(s, rq, read, next)
      PROVE  LockedTechnicianActive' /\ UNCHANGED active
  BY <1>1 DEF TypeOK, Begin, tables, LockedTechnicianActive, Entered
<1>2. ASSUME End(s), UNCHANGED active
      PROVE  LockedTechnicianActive'
  BY <1>2 DEF TypeOK, End, LockedTechnicianActive, Entered
<1>3. ASSUME NEW w \in Works, NEW action \in WorkActions, ReadForTransition(s, w, action)
      PROVE  LockedTechnicianActive' /\ UNCHANGED active
  BY <1>1, <1>3 DEF ReadForTransition
<1>4. CASE TransitionWork(s)
  BY <1>2, <1>4 DEF TransitionWork
<1>5. ASSUME NEW a \in ApprovalIds, NEW decision \in {"Approved", "Rejected"},
             ReadApproval(s, a, decision)
      PROVE  LockedTechnicianActive' /\ UNCHANGED active
  BY <1>1, <1>5 DEF ReadApproval
<1>6. CASE DecideApproval(s)
  BY <1>2, <1>6 DEF DecideApproval
<1>7. ASSUME NEW w \in Works, NEW t \in Techs, ReadWork(s, w, t)
      PROVE  LockedTechnicianActive' /\ UNCHANGED active
  BY <1>1, <1>7 DEF ReadWork
<1>8. CASE ReadActiveIds(s)
  BY <1>8 DEF ReadActiveIds, Remember, tables, TypeOK, LockedTechnicianActive, Entered
<1>9. CASE EnterAssignment(s)
  BY <1>9 DEF EnterAssignment, Remember, tables, TypeOK, LockedTechnicianActive, Entered
<1>10. CASE AssignDispatch(s)
  BY <1>2, <1>10 DEF AssignDispatch
<1>11. ASSUME NEW d \in DispatchIds, NEW action \in FieldActions, ReadDispatch(s, d, action)
      PROVE  LockedTechnicianActive' /\ UNCHANGED active
  BY <1>1, <1>11 DEF ReadDispatch
<1>12. CASE TransitionDispatch(s)
  BY <1>2, <1>12 DEF TransitionDispatch
<1>13. CASE Rollback(s)
  BY <1>2, <1>13 DEF Rollback, tables
<1>14. QED
  BY <1>3, <1>4, <1>5, <1>6, <1>7, <1>8, <1>9, <1>10, <1>11, <1>12, <1>13 DEF SessionStep

\* A deactivation waits for the technician's row.
LEMMA NextKeepsTechnician ==
  ASSUME TypeOK, LockedTechnicianActive, [Next]_vars
  PROVE  LockedTechnicianActive'
<1>1. ASSUME NEW s \in Sessions, SessionStep(s)
      PROVE  LockedTechnicianActive'
  BY <1>1, SessionKeepsTechnician
<1>2. ASSUME NEW w \in Works, NEW t \in Techs, Reassign(w, t)
      PROVE  LockedTechnicianActive'
  BY <1>2 DEF Reassign, LockedTechnicianActive, Entered
<1>3. ASSUME NEW t \in Techs, SetUserStatus(t)
      PROVE  LockedTechnicianActive'
  BY <1>3 DEF SetUserStatus, TechnicianRowFree, LockedTechnicianActive, Entered
<1>4. CASE UNCHANGED vars
  BY <1>4 DEF vars, LockedTechnicianActive, Entered
<1>5. QED
  BY <1>1, <1>2, <1>3, <1>4 DEF Next

\* A step that adds a dispatch is the write of an assignment.
LEMMA OnlyAssignmentsAdd ==
  ASSUME TypeOK, [Next]_vars, NEW d \in DispatchIds,
         dispatches[d].status = "None", dispatches'[d].status # "None"
  PROVE  \E s \in Sessions : AssignDispatch(s)
<1>1. dispatches' # dispatches
  OBVIOUS
<1>2. ASSUME NEW s \in Sessions, TransitionDispatch(s)
      PROVE  FALSE
  <2>1. dispatches[request[s].id].status # "None"
    BY <1>2, FieldEventWrites DEF ActiveDispatch
  <2>2. \E row : dispatches' = [dispatches EXCEPT ![request[s].id] = row]
    BY <1>2, FieldEventWrites
  <2>3. dispatches'[d] = dispatches[d]
    BY <2>1, <2>2
  <2>4. QED
    BY <2>3
<1>3. ASSUME NEW s \in Sessions, SessionStep(s)
      PROVE  AssignDispatch(s)
  BY <1>1, <1>2, <1>3
     DEF SessionStep, ReadForTransition, TransitionWork, ReadApproval, DecideApproval, ReadWork,
         ReadActiveIds, EnterAssignment, ReadDispatch, Rollback, Begin, Remember, tables
<1>4. QED
  BY <1>1, <1>3 DEF Next, Reassign, SetUserStatus, vars

\* A dispatch is only created for a technician whose account is active.
THEOREM ActiveTechniciansDispatched == Spec => DispatchesActiveTechnicians
<1> DEFINE Step == \A d \in DispatchIds :
             (dispatches[d].status = "None" /\ dispatches'[d].status # "None") =>
               dispatches'[d].tech \in active'
<1>1. Init => LockedTechnicianActive
  BY DEF Init, LockedTechnicianActive, Entered
<1>2. TypeOK /\ LockedTechnicianActive /\ [Next]_vars => LockedTechnicianActive'
  BY NextKeepsTechnician
<1>3. TypeOK /\ LockedTechnicianActive /\ [Next]_vars => Step
  <2> SUFFICES ASSUME TypeOK, LockedTechnicianActive, [Next]_vars, NEW d \in DispatchIds,
                      dispatches[d].status = "None", dispatches'[d].status # "None"
               PROVE  dispatches'[d].tech \in active'
    OBVIOUS
  <2>1. PICK s \in Sessions : AssignDispatch(s)
    BY OnlyAssignmentsAdd
  <2>2. PICK new \in DispatchIds :
          dispatches' = [c \in DispatchIds |->
             CASE c = new -> [work |-> request[s].work, tech |-> request[s].tech,
                              status |-> "Dispatched"]
               [] c \in Replaced(request[s].work) ->
                    [work |-> request[s].work, tech |-> dispatches[c].tech,
                     status |-> "Cancelled"]
               [] OTHER -> dispatches[c]]
    BY <2>1 DEF AssignDispatch
  <2>3. d \notin Replaced(request[s].work)
    BY DEF Replaced, ActiveIds, Dispatches
  <2>4. d = new
    BY <2>2, <2>3
  <2>5. dispatches'[d].tech = request[s].tech
    BY <2>2, <2>3, <2>4
  <2>6. QED
    BY <2>1, <2>5 DEF AssignDispatch, LockedTechnicianActive
<1>4. Spec => []TypeOK
  BY DispatchTypeCorrect
<1>5. Spec => [][Step]_vars
  BY <1>1, <1>2, <1>3, <1>4, PTL DEF Spec
<1>6. QED
  BY <1>5 DEF DispatchesActiveTechnicians

-----------------------------------------------------------------------------
\* Statuses of work orders and their approvals

\* What the rows of the transition table have in common.
LEMMA TransitionTable ==
  ASSUME NEW from, NEW action, NEW to, <<from, action, to>> \in Transitions
  PROVE  /\ action \in {"submit", "resubmit"} => from \in {"Draft", "Rejected"}
         /\ action = "approve" => from = "Submitted"
         /\ from = "Submitted" => action \in {"approve", "cancel"}
         /\ to = "Submitted" <=> action \in {"submit", "resubmit"}
         /\ to \in {"Submitted", "Approved"} => from \in {"Draft", "Rejected", "Submitted"}
         /\ to \notin {"Draft", "Rejected"}
         /\ from = "Completed" => to = "Closed"
         /\ from \notin {"Closed", "Cancelled"}
<1> DEFINE Cancels == {"Draft", "Rejected", "Submitted", "Approved", "Assigned"}
                        \X {"cancel"} \X {"Cancelled"}
<1>1. CASE <<from, action, to>> \in Cancels
  BY <1>1
<1>2. CASE <<from, action, to>> \notin Cancels
  BY <1>2 DEF Transitions
<1>3. QED
  BY <1>1, <1>2

\* An assignment is based on a work order it read as Approved or Assigned.
AssignsApprovedWork ==
  \A s \in Sessions :
    request[s].op = "assign" => snap[s].status \in {"Approved", "Assigned"}

PendingIsSubmitted ==
  \A a \in ApprovalIds :
    approvals[a].status = "Pending" => work[approvals[a].work].status = "Submitted"

OnePendingPerWork ==
  \A a, b \in ApprovalIds :
    (/\ approvals[a].status = "Pending"
     /\ approvals[b].status = "Pending"
     /\ approvals[a].work = approvals[b].work) => a = b

StatusInv ==
  /\ AssignsApprovedWork
  /\ PendingIsSubmitted
  /\ OnePendingPerWork
  /\ DispatchedWorkWasApproved

LEMMA BeginKeepsAssignments ==
  ASSUME TypeOK, AssignsApprovedWork, NEW s \in Sessions, NEW rq, NEW read, NEW next,
         Begin(s, rq, read, next),
         rq.op = "assign" => read.status \in {"Approved", "Assigned"}
  PROVE  AssignsApprovedWork'
BY DEF TypeOK, Begin, AssignsApprovedWork

LEMMA RememberKeepsAssignments ==
  ASSUME TypeOK, AssignsApprovedWork, NEW s \in Sessions, NEW read, NEW next,
         Remember(s, read, next), read.status = snap[s].status
  PROVE  AssignsApprovedWork'
BY DEF TypeOK, Remember, AssignsApprovedWork

LEMMA EndKeepsAssignments ==
  ASSUME TypeOK, AssignsApprovedWork, NEW s \in Sessions, End(s)
  PROVE  AssignsApprovedWork'
BY DEF TypeOK, End, AssignsApprovedWork, Idle

\* A step that changes no table, or of the work orders only the assignee, keeps
\* what relates them.
LEMMA SameStatuses ==
  ASSUME TypeOK, StatusInv, UNCHANGED <<approvals, dispatches>>,
         \A w \in Works : work'[w].status = work[w].status
  PROVE  PendingIsSubmitted' /\ OnePendingPerWork' /\ DispatchedWorkWasApproved'
<1>1. \A a \in ApprovalIds : approvals[a].status = "Pending" => approvals[a].work \in Works
  BY DEF TypeOK, NoRow
<1>2. \A d \in Dispatches : dispatches[d].work \in Works
  BY RowOfDispatch DEF Dispatches
<1>3. QED
  BY <1>1, <1>2 DEF StatusInv, PendingIsSubmitted, OnePendingPerWork,
                    DispatchedWorkWasApproved, Dispatches

\* A transition of a work order keeps the statuses: what it submits gets one
\* pending request, and it resolves the pending request of what leaves Submitted.
LEMMA TransitionWorkKeepsStatuses ==
  ASSUME TypeOK, StatusInv, NEW s \in Sessions, TransitionWork(s)
  PROVE  StatusInv'
<1> DEFINE w == request[s].work
           from == work[w].status
           action == request[s].action
<1>1. request[s] \in Requests
  BY DEF TypeOK, TransitionWork, Idle
<1>2. w \in Works
  BY <1>1, RequestFields DEF TransitionWork
<1>3. PICK to \in WorkStatuses :
        /\ <<from, action, to>> \in Transitions
        /\ work' = [work EXCEPT ![w].status = to]
  BY DEF TransitionWork, WorkClaimed
<1>4. work'[w].status = to /\ \A v \in Works : v # w => work'[v] = work[v]
  BY <1>2, <1>3 DEF TypeOK
<1>5. /\ action \in {"submit", "resubmit"} => from \in {"Draft", "Rejected"}
      /\ action = "approve" => from = "Submitted"
      /\ from = "Submitted" => action \in {"approve", "cancel"}
      /\ to = "Submitted" <=> action \in {"submit", "resubmit"}
      /\ to \in {"Submitted", "Approved"} => from \in {"Draft", "Rejected", "Submitted"}
      /\ to \notin {"Draft", "Rejected"}
  BY <1>3, TransitionTable
<1>6. \A a \in ApprovalIds : approvals[a].status = "Pending" => approvals[a].work \in Works
  BY DEF TypeOK, NoRow
<1>7. AssignsApprovedWork'
  BY EndKeepsAssignments DEF StatusInv, TransitionWork
<1>8. DispatchedWorkWasApproved'
  <2>1. UNCHANGED dispatches
    BY DEF TransitionWork
  <2>2. \A d \in Dispatches : dispatches[d].work \in Works
    BY RowOfDispatch DEF Dispatches
  <2>3. \A d \in Dispatches : dispatches[d].status \in ActiveDispatch =>
          work'[dispatches[d].work].status \notin {"Draft", "Submitted", "Rejected", "Approved"}
    BY <1>2, <1>4, <1>5, <2>2 DEF StatusInv, DispatchedWorkWasApproved
  <2>4. QED
    BY <2>1, <2>3 DEF DispatchedWorkWasApproved, Dispatches
<1>9. PendingIsSubmitted' /\ OnePendingPerWork'
  <2>1. CASE action \in {"submit", "resubmit"}
    <3>1. PendingFor(w) = {}
      BY <1>5, <2>1 DEF StatusInv, PendingIsSubmitted, PendingFor, Approvals
    <3>2. SubmitApproval(w)
      BY <2>1 DEF TransitionWork
    <3>3. PICK a \in ApprovalIds :
            approvals' = [approvals EXCEPT ![a] = [work |-> w, status |-> "Pending"]]
      BY <3>1, <3>2 DEF SubmitApproval
    <3>4. approvals'[a] = [work |-> w, status |-> "Pending"]
          /\ \A b \in ApprovalIds : b # a => approvals'[b] = approvals[b]
      BY <3>3 DEF TypeOK
    <3>5. \A b \in ApprovalIds : approvals[b].status = "Pending" => approvals[b].work # w
      BY <3>1 DEF PendingFor, Approvals
    <3>6. PendingIsSubmitted'
      BY <1>4, <1>5, <1>6, <2>1, <3>4, <3>5 DEF StatusInv, PendingIsSubmitted
    <3>7. OnePendingPerWork'
      BY <3>4, <3>5 DEF StatusInv, OnePendingPerWork
    <3>8. QED
      BY <3>6, <3>7
  <2>2. CASE action \in {"approve", "cancel"}
    <3>1. PICK status \in {"Approved", "Rejected"} : ResolveApproval(w, status)
      BY <2>2 DEF TransitionWork
    <3>2. CASE PendingFor(w) = {}
      <4>1. UNCHANGED approvals
        BY <3>1, <3>2 DEF ResolveApproval
      <4>2. \A b \in ApprovalIds : approvals[b].status = "Pending" => approvals[b].work # w
        BY <3>2 DEF PendingFor, Approvals
      <4>3. QED
        BY <1>4, <1>6, <4>1, <4>2 DEF StatusInv, PendingIsSubmitted, OnePendingPerWork
    <3>3. CASE PendingFor(w) # {}
      <4>1. PICK a \in PendingFor(w) :
              approvals' = [approvals EXCEPT ![a] = [work |-> w, status |-> status]]
        BY <3>1, <3>3 DEF ResolveApproval
      <4>2. a \in ApprovalIds /\ approvals[a].work = w /\ approvals[a].status = "Pending"
        BY DEF PendingFor, Approvals
      <4>3. approvals'[a].status # "Pending"
            /\ \A b \in ApprovalIds : b # a => approvals'[b] = approvals[b]
        BY <4>1, <4>2 DEF TypeOK
      <4>4. \A b \in ApprovalIds : (approvals[b].status = "Pending" /\ b # a) => approvals[b].work # w
        BY <4>2 DEF StatusInv, OnePendingPerWork
      <4>5. PendingIsSubmitted'
        BY <1>4, <1>6, <4>3, <4>4 DEF StatusInv, PendingIsSubmitted
      <4>6. OnePendingPerWork'
        BY <4>3 DEF StatusInv, OnePendingPerWork
      <4>7. QED
        BY <4>5, <4>6
    <3>4. QED
      BY <3>2, <3>3
  <2>3. CASE action \notin {"submit", "resubmit", "approve", "cancel"}
    <3>1. UNCHANGED approvals
      BY <2>3 DEF TransitionWork
    <3>2. \A b \in ApprovalIds : approvals[b].status = "Pending" => approvals[b].work # w
      BY <1>5, <2>3 DEF StatusInv, PendingIsSubmitted
    <3>3. QED
      BY <1>4, <1>6, <3>1, <3>2 DEF StatusInv, PendingIsSubmitted, OnePendingPerWork
  <2>4. QED
    BY <2>1, <2>2, <2>3
<1>10. QED
  BY <1>7, <1>8, <1>9 DEF StatusInv

LEMMA DecideApprovalKeepsStatuses ==
  ASSUME TypeOK, StatusInv, NEW s \in Sessions, DecideApproval(s)
  PROVE  StatusInv'
<1> DEFINE a == request[s].approval
           w == approvals[a].work
           decision == request[s].decision
<1>1. request[s] \in Requests
  BY DEF TypeOK, DecideApproval, Idle
<1>2. a \in ApprovalIds /\ decision \in {"Approved", "Rejected"}
  BY <1>1, RequestFields DEF DecideApproval
<1>3. approvals[a].status = "Pending" /\ w \in Works
  BY <1>2 DEF TypeOK, DecideApproval, ApprovalClaimed, NoRow
<1>4. work'[w].status = decision /\ \A v \in Works : v # w => work'[v] = work[v]
  BY <1>3 DEF TypeOK, DecideApproval
<1>5. approvals'[a].status = decision
      /\ \A b \in ApprovalIds : b # a => approvals'[b] = approvals[b]
  BY <1>2 DEF TypeOK, DecideApproval
<1>6. \A b \in ApprovalIds : (approvals[b].status = "Pending" /\ b # a) => approvals[b].work # w
  BY <1>2, <1>3 DEF StatusInv, OnePendingPerWork
<1>7. \A b \in ApprovalIds : approvals[b].status = "Pending" => approvals[b].work \in Works
  BY DEF TypeOK, NoRow
<1>8. PendingIsSubmitted'
  BY <1>2, <1>4, <1>5, <1>6, <1>7 DEF StatusInv, PendingIsSubmitted
<1>9. OnePendingPerWork'
  BY <1>2, <1>5 DEF StatusInv, OnePendingPerWork
<1>10. AssignsApprovedWork'
  BY EndKeepsAssignments DEF StatusInv, DecideApproval
<1>11. DispatchedWorkWasApproved'
  <2>1. UNCHANGED dispatches /\ work[w].status = "Submitted"
    BY DEF DecideApproval
  <2>2. \A d \in Dispatches : dispatches[d].work \in Works
    BY RowOfDispatch DEF Dispatches
  <2>3. QED
    BY <1>4, <2>1, <2>2 DEF StatusInv, DispatchedWorkWasApproved, Dispatches
<1>12. QED
  BY <1>8, <1>9, <1>10, <1>11 DEF StatusInv

\* An assignment claims the status it read, Approved or Assigned, so it leaves no
\* request pending behind.
LEMMA AssignKeepsStatuses ==
  ASSUME TypeOK, StatusInv, NEW s \in Sessions, request[s].op = "assign", AssignDispatch(s)
  PROVE  StatusInv'
<1> DEFINE w == request[s].work
<1>1. request[s] \in Requests
  BY DEF TypeOK, Idle
<1>2. w \in Works
  BY <1>1, RequestFields
<1>3. work[w].status \in {"Approved", "Assigned"}
  BY DEF StatusInv, AssignsApprovedWork, AssignDispatch, WorkClaimed
<1>4. work'[w].status = "Assigned" /\ \A v \in Works : v # w => work'[v] = work[v]
  BY <1>2 DEF TypeOK, AssignDispatch, AssignedRow
<1>5. UNCHANGED approvals
  BY DEF AssignDispatch
<1>6. \A a \in ApprovalIds : approvals[a].status = "Pending" => approvals[a].work \in Works
  BY DEF TypeOK, NoRow
<1>7. PendingIsSubmitted' /\ OnePendingPerWork'
  BY <1>3, <1>4, <1>5, <1>6 DEF StatusInv, PendingIsSubmitted, OnePendingPerWork
<1>8. AssignsApprovedWork'
  BY EndKeepsAssignments DEF StatusInv, AssignDispatch
<1>9. DispatchedWorkWasApproved'
  <2>1. PICK new \in DispatchIds :
          dispatches' = [d \in DispatchIds |->
             CASE d = new -> [work |-> w, tech |-> request[s].tech, status |-> "Dispatched"]
               [] d \in Replaced(w) -> [work |-> w, tech |-> dispatches[d].tech,
                                        status |-> "Cancelled"]
               [] OTHER -> dispatches[d]]
    BY DEF AssignDispatch
  <2>2. \A d \in Dispatches : dispatches[d].work \in Works
    BY RowOfDispatch DEF Dispatches
  <2>3. ASSUME NEW d \in DispatchIds, dispatches'[d].status \in ActiveDispatch
        PROVE  work'[dispatches'[d].work].status \notin
                 {"Draft", "Submitted", "Rejected", "Approved"}
    <3>1. CASE d = new \/ d \in Replaced(w)
      <4>1. dispatches'[d].work = w
        BY <2>1, <3>1
      <4>2. QED
        BY <1>4, <4>1
    <3>2. CASE d # new /\ d \notin Replaced(w)
      <4>1. dispatches'[d] = dispatches[d]
        BY <2>1, <3>2
      <4>2. d \in Dispatches
        BY <2>3, <4>1 DEF Dispatches, ActiveDispatch
      <4>3. QED
        BY <1>4, <2>2, <2>3, <4>1, <4>2 DEF StatusInv, DispatchedWorkWasApproved
    <3>3. QED
      BY <3>1, <3>2
  <2>4. QED
    BY <2>3 DEF DispatchedWorkWasApproved, Dispatches
<1>10. QED
  BY <1>7, <1>8, <1>9 DEF StatusInv

\* An arrival starts an assigned work order, and no field event wakes a dispatch.
LEMMA FieldEventKeepsStatuses ==
  ASSUME TypeOK, StatusInv, NEW s \in Sessions, TransitionDispatch(s)
  PROVE  StatusInv'
<1> DEFINE e == request[s].id
           w == dispatches[e].work
<1>1. e \in DispatchIds /\ dispatches[e].status \in ActiveDispatch /\ w \in Works
  BY FieldEventWrites
<1>2. PICK target \in DispatchStatuses :
        dispatches' = [dispatches EXCEPT ![e] =
          [work |-> w, tech |-> dispatches[e].tech, status |-> target]]
  BY FieldEventWrites
<1>3. dispatches'[e].work = w /\ \A d \in DispatchIds : d # e => dispatches'[d] = dispatches[d]
  BY <1>1, <1>2 DEF TypeOK
<1>4. \A v \in Works :
        \/ work'[v].status = work[v].status
        \/ work[v].status = "Assigned" /\ work'[v].status = "In Progress"
  <2>1. CASE UNCHANGED work
    BY <2>1
  <2>2. CASE work[w].status = "Assigned" /\ work' = [work EXCEPT ![w].status = "In Progress"]
    <3>1. work'[w].status = "In Progress"
      <4>1. w \in Works
        BY <1>1
      <4>2. work \in [Works -> [status : WorkStatuses, assignee : Techs \union {Nobody}]]
        BY DEF TypeOK
      <4> HIDE DEF w
      <4>3. QED
        BY <2>2, <4>1, <4>2
    <3>2. \A v \in Works : v # w => work'[v] = work[v]
      BY <2>2 DEF TypeOK
    <3>3. QED
      BY <2>2, <3>1, <3>2
  <2>3. QED
    BY <2>1, <2>2 DEF TransitionDispatch
<1>5. UNCHANGED approvals
  BY DEF TransitionDispatch
<1>6. \A a \in ApprovalIds : approvals[a].status = "Pending" => approvals[a].work \in Works
  BY DEF TypeOK, NoRow
<1>7. PendingIsSubmitted' /\ OnePendingPerWork'
  BY <1>4, <1>5, <1>6 DEF StatusInv, PendingIsSubmitted, OnePendingPerWork
<1>8. AssignsApprovedWork'
  BY EndKeepsAssignments DEF StatusInv, TransitionDispatch
<1>9. DispatchedWorkWasApproved'
  <2>1. \A d \in Dispatches : dispatches[d].work \in Works
    BY RowOfDispatch DEF Dispatches
  <2>2. \A d \in Dispatches' : dispatches'[d].status \in ActiveDispatch =>
          /\ d \in Dispatches
          /\ dispatches[d].status \in ActiveDispatch
          /\ dispatches'[d].work = dispatches[d].work
    BY <1>1, <1>3 DEF Dispatches, ActiveDispatch
  <2>3. QED
    BY <1>4, <2>1, <2>2 DEF StatusInv, DispatchedWorkWasApproved
<1>10. QED
  BY <1>7, <1>8, <1>9 DEF StatusInv

LEMMA SessionKeepsStatuses ==
  ASSUME IInv, StatusInv, NEW s \in Sessions, SessionStep(s)
  PROVE  StatusInv'
<1> USE DEF IInv
<1>1. ASSUME NEW rq, NEW read, NEW next, Begin(s, rq, read, next),
             rq.op = "assign" => read.status \in {"Approved", "Assigned"}
      PROVE  StatusInv'
  BY <1>1, BeginKeepsAssignments, SameStatuses DEF Begin, tables, StatusInv
<1>2. ASSUME NEW read, NEW next, Remember(s, read, next), read.status = snap[s].status
      PROVE  StatusInv'
  BY <1>2, RememberKeepsAssignments, SameStatuses DEF Remember, tables, StatusInv
<1>3. ASSUME NEW w \in Works, NEW action \in WorkActions, ReadForTransition(s, w, action)
      PROVE  StatusInv'
  BY <1>1, <1>3 DEF ReadForTransition
<1>4. CASE TransitionWork(s)
  BY <1>4, TransitionWorkKeepsStatuses
<1>5. ASSUME NEW a \in ApprovalIds, NEW decision \in {"Approved", "Rejected"},
             ReadApproval(s, a, decision)
      PROVE  StatusInv'
  BY <1>1, <1>5 DEF ReadApproval
<1>6. CASE DecideApproval(s)
  BY <1>6, DecideApprovalKeepsStatuses
<1>7. ASSUME NEW w \in Works, NEW t \in Techs, ReadWork(s, w, t)
      PROVE  StatusInv'
  BY <1>1, <1>7 DEF ReadWork
<1>8. CASE ReadActiveIds(s)
  BY <1>2, <1>8 DEF ReadActiveIds
<1>9. CASE EnterAssignment(s)
  BY <1>2, <1>9 DEF EnterAssignment
<1>10. CASE AssignDispatch(s)
  BY <1>10, AssignKeepsStatuses DEF DispatchInv, OneCoordinator, AssignDispatch
<1>11. ASSUME NEW d \in DispatchIds, NEW action \in FieldActions, ReadDispatch(s, d, action)
      PROVE  StatusInv'
  BY <1>1, <1>11 DEF ReadDispatch
<1>12. CASE TransitionDispatch(s)
  BY <1>12, FieldEventKeepsStatuses
<1>13. CASE Rollback(s)
  BY <1>13, EndKeepsAssignments, SameStatuses DEF Rollback, tables, StatusInv
<1>14. QED
  BY <1>3, <1>4, <1>5, <1>6, <1>7, <1>8, <1>9, <1>10, <1>11, <1>12, <1>13 DEF SessionStep

LEMMA StatusInvHolds == Spec => []StatusInv
<1>1. ASSUME WorkDispatchAssumption, Init
      PROVE  StatusInv
  BY <1>1 DEF Init, StatusInv, AssignsApprovedWork, PendingIsSubmitted, OnePendingPerWork,
              DispatchedWorkWasApproved, Idle, NoRow, Dispatches
<1>2. ASSUME IInv, StatusInv, [Next]_vars
      PROVE  StatusInv'
  <2>1. ASSUME NEW s \in Sessions, SessionStep(s)
        PROVE  StatusInv'
    BY <1>2, <2>1, SessionKeepsStatuses
  <2>2. ASSUME NEW w \in Works, NEW t \in Techs, Reassign(w, t)
        PROVE  StatusInv'
    <3>1. \A v \in Works : work'[v].status = work[v].status
      BY <1>2, <2>2 DEF Reassign, IInv, TypeOK
    <3>2. AssignsApprovedWork'
      BY <1>2, <2>2 DEF Reassign, StatusInv, AssignsApprovedWork
    <3>3. QED
      BY <1>2, <2>2, <3>1, <3>2, SameStatuses DEF Reassign, IInv, StatusInv
  <2>3. ASSUME NEW t \in Techs, SetUserStatus(t)
        PROVE  StatusInv'
    BY <1>2, <2>3, SameStatuses DEF SetUserStatus, IInv, StatusInv, AssignsApprovedWork
  <2>4. CASE UNCHANGED vars
    BY <1>2, <2>4, SameStatuses DEF vars, IInv, StatusInv, AssignsApprovedWork
  <2>5. QED
    BY <1>2, <2>1, <2>2, <2>3, <2>4 DEF Next
<1>3. QED
  BY <1>1, <1>2, WorkDispatchAssumption, IInvHolds, PTL DEF Spec

\* No field dispatch is under way for a work order that was never approved.
THEOREM DispatchesApprovedWork == Spec => []DispatchedWorkWasApproved
BY StatusInvHolds, PTL DEF StatusInv

\* The approval queue agrees with the work orders: a pending request is there
\* only for a Submitted work order, and only once.
THEOREM ApprovalQueueAgrees == Spec => []PendingMeansSubmitted
<1>1. StatusInv => PendingMeansSubmitted
  <2> SUFFICES ASSUME StatusInv, NEW w \in Works
               PROVE  /\ PendingFor(w) # {} => work[w].status = "Submitted"
                      /\ Cardinality(PendingFor(w)) <= 1
    BY DEF PendingMeansSubmitted
  <2>1. \A a, b \in PendingFor(w) : a = b
    BY DEF StatusInv, OnePendingPerWork, PendingFor, Approvals
  <2>2. PendingFor(w) # {} => work[w].status = "Submitted"
    BY DEF StatusInv, PendingIsSubmitted, PendingFor, Approvals
  <2>3. CASE PendingFor(w) = {}
    BY <2>2, <2>3, FS_EmptySet
  <2>4. CASE PendingFor(w) # {}
    <3>1. PICK a \in PendingFor(w) : PendingFor(w) = {a}
      BY <2>1, <2>4
    <3>2. Cardinality({a}) = 1
      BY FS_Singleton
    <3>3. QED
      BY <2>2, <3>1, <3>2
  <2>5. QED
    BY <2>3, <2>4
<1>2. QED
  BY <1>1, StatusInvHolds, PTL

\* Final statuses are final, although claims race each other: a work order is
\* claimed by the status its transition starts from, a dispatch while active.
THEOREM FinalStatusesAreFinal == Spec => FinalStaysFinal
<1> DEFINE WorkStep == \A w \in Works :
             CASE work[w].status = "Completed" -> work'[w].status \in {"Completed", "Closed"}
               [] work[w].status \in {"Closed", "Cancelled"} -> work'[w].status = work[w].status
               [] OTHER -> TRUE
           DispatchStep == \A d \in Dispatches :
             dispatches[d].status \in {"Completed", "Cancelled"} => dispatches'[d] = dispatches[d]
<1>1. ASSUME IInv, StatusInv, NEW s \in Sessions, TransitionWork(s)
      PROVE  WorkStep
  <2> DEFINE v == request[s].work
  <2>1. PICK to \in WorkStatuses :
          /\ <<work[v].status, request[s].action, to>> \in Transitions
          /\ work' = [work EXCEPT ![v].status = to]
    BY <1>1 DEF TransitionWork, WorkClaimed
  <2>2. /\ work[v].status = "Completed" => to = "Closed"
        /\ work[v].status \notin {"Closed", "Cancelled"}
    BY <2>1, TransitionTable
  <2>3. \A w \in Works : IF w = v THEN work'[w].status = to ELSE work'[w] = work[w]
    BY <1>1, <2>1 DEF IInv, TypeOK
  <2>4. QED
    BY <2>2, <2>3
<1>2. ASSUME IInv, StatusInv, NEW s \in Sessions, DecideApproval(s)
      PROVE  WorkStep
  BY <1>2 DEF DecideApproval, IInv, TypeOK
<1>3. ASSUME IInv, StatusInv, NEW s \in Sessions, AssignDispatch(s)
      PROVE  WorkStep /\ DispatchStep
  <2>1. request[s].op = "assign"
    BY <1>3 DEF IInv, DispatchInv, OneCoordinator, AssignDispatch
  <2>2. work[request[s].work].status \in {"Approved", "Assigned"}
    BY <1>3, <2>1 DEF StatusInv, AssignsApprovedWork, AssignDispatch, WorkClaimed
  <2>3. WorkStep
    BY <1>3, <2>2 DEF AssignDispatch, IInv, TypeOK
  <2>4. PICK new \in DispatchIds :
          /\ NextId(Dispatches, new)
          /\ dispatches' = [d \in DispatchIds |->
             CASE d = new -> [work |-> request[s].work, tech |-> request[s].tech,
                              status |-> "Dispatched"]
               [] d \in Replaced(request[s].work) ->
                    [work |-> request[s].work, tech |-> dispatches[d].tech,
                     status |-> "Cancelled"]
               [] OTHER -> dispatches[d]]
    BY <1>3 DEF AssignDispatch
  <2>5. new \notin Dispatches
    BY <2>4 DEF NextId, DispatchIds
  <2>6. ASSUME NEW d \in Dispatches, dispatches[d].status \in {"Completed", "Cancelled"}
        PROVE  dispatches'[d] = dispatches[d]
    <3>1. d \notin Replaced(request[s].work)
      BY <2>6 DEF Replaced, ActiveIds, ActiveDispatch
    <3>2. d \in DispatchIds /\ d # new
      BY <2>5, <2>6 DEF Dispatches
    <3>3. QED
      BY <2>4, <3>1, <3>2
  <2>7. QED
    BY <2>3, <2>6
<1>4. ASSUME IInv, StatusInv, NEW s \in Sessions, TransitionDispatch(s)
      PROVE  WorkStep /\ DispatchStep
  <2>1. WorkStep
    BY <1>4 DEF TransitionDispatch, IInv, TypeOK
  <2>2. dispatches[request[s].id].status \in ActiveDispatch
    BY <1>4, FieldEventWrites DEF IInv
  <2>3. \E row : dispatches' = [dispatches EXCEPT ![request[s].id] = row]
    BY <1>4, FieldEventWrites DEF IInv
  <2>4. DispatchStep
    BY <1>4, <2>2, <2>3 DEF IInv, TypeOK, Dispatches, ActiveDispatch
  <2>5. QED
    BY <2>1, <2>4
<1>5. ASSUME UNCHANGED <<work, dispatches>>
      PROVE  WorkStep /\ DispatchStep
  BY <1>5
<1>6. ASSUME UNCHANGED dispatches
      PROVE  DispatchStep
  BY <1>6
<1>7. ASSUME IInv, StatusInv, [Next]_vars
      PROVE  WorkStep /\ DispatchStep
  <2>1. ASSUME NEW s \in Sessions, SessionStep(s)
        PROVE  WorkStep /\ DispatchStep
    <3>1. CASE TransitionWork(s) \/ DecideApproval(s)
      BY <1>1, <1>2, <1>6, <1>7, <3>1 DEF TransitionWork, DecideApproval
    <3>2. CASE AssignDispatch(s) \/ TransitionDispatch(s)
      BY <1>3, <1>4, <1>7, <3>2
    <3>3. CASE UNCHANGED tables
      BY <1>5, <3>3 DEF tables
    <3>4. QED
      BY <2>1, <3>1, <3>2, <3>3
         DEF SessionStep, ReadForTransition, ReadApproval, ReadWork, ReadActiveIds,
             EnterAssignment, ReadDispatch, Rollback, Begin, Remember
  <2>2. ASSUME NEW w \in Works, NEW t \in Techs, Reassign(w, t)
        PROVE  WorkStep /\ DispatchStep
    BY <1>7, <2>2 DEF Reassign, IInv, TypeOK
  <2>3. ASSUME NEW t \in Techs, SetUserStatus(t)
        PROVE  WorkStep /\ DispatchStep
    BY <1>5, <2>3 DEF SetUserStatus
  <2>4. CASE UNCHANGED vars
    BY <1>5, <2>4 DEF vars
  <2>5. QED
    BY <1>7, <2>1, <2>2, <2>3, <2>4 DEF Next
<1> DEFINE Step ==
     /\ \A w \in Works :
          CASE work[w].status = "Completed" -> work'[w].status \in {"Completed", "Closed"}
            [] work[w].status \in {"Closed", "Cancelled"} -> work'[w].status = work[w].status
            [] OTHER -> TRUE
     /\ \A d \in Dispatches :
          dispatches[d].status \in {"Completed", "Cancelled"} =>
            dispatches'[d] = dispatches[d]
<1>8. Spec => [][Step]_vars
  BY <1>7, IInvHolds, StatusInvHolds, PTL DEF Spec
<1>9. QED
  BY <1>8 DEF FinalStaysFinal
=============================================================================
