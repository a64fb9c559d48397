----------------------------- MODULE Inspections -----------------------------
(***************************************************************************)
(* Submission of inspections and the corrective work order of a failed one *)
(* (app/inspection_store.py, create_inspection in app/application.py).     *)
(* A submission locks the inspection, and a repeated one answers with what *)
(* the first has committed.  Responses are abstracted to whether one of    *)
(* them is a failure.                                                      *)
(***************************************************************************)
EXTENDS Naturals, FiniteSets

CONSTANTS
  Inspections,  \* rows that may be created
  Clients,      \* concurrent submissions
  MaxRequests   \* bound: submissions in a behaviour

VARIABLES
  inspection,  \* status, result and corrective work order
  corrective,  \* the corrective work orders, with their inspection
  submit,      \* submit[c]: a submission under way, and what it has written
  answers,     \* ghost: answers[i]: the answers given to submissions of i
  requests     \* submissions so far

inspectionVars == <<inspection, corrective, submit, answers, requests>>

None == 0
Missing == [status |-> "none", result |-> "", corrective |-> None]
Draft == [status |-> "Draft", result |-> "", corrective |-> None]
Idle == [at |-> "idle"]

TypeOK ==
  /\ \A i \in Inspections : inspection[i].status \in {"none", "Draft", "Completed"}
  /\ \A w \in corrective : w.inspection \in Inspections /\ w.id \in Nat \ {None}
  /\ requests \in 0..MaxRequests

Init ==
  /\ inspection = [i \in Inspections |-> Missing]
  /\ corrective = {}
  /\ submit = [c \in Clients |-> Idle]
  /\ answers = [i \in Inspections |-> {}]
  /\ requests = 0

-----------------------------------------------------------------------------
Create(i) ==
  /\ inspection[i] = Missing
  /\ inspection' = [inspection EXCEPT ![i] = Draft]
  /\ UNCHANGED <<corrective, submit, answers, requests>>

\* A request arrives: does a response fail, is corrective work asked for?
Request(c, i, fails, wanted) ==
  /\ submit[c] = Idle
  /\ inspection[i] # Missing
  /\ requests < MaxRequests
  /\ requests' = requests + 1
  /\ submit' = [submit EXCEPT ![c] =
       [at |-> "wait", inspection |-> i, fails |-> fails, wanted |-> wanted]]
  /\ UNCHANGED <<inspection, corrective, answers>>

Unlocked(i) == \A d \in Clients : submit[d].at = "locked" => submit[d].inspection # i

\* Number and id of the next work order.
NewId == Cardinality(corrective) + 1

\* Only one transaction draws a number until it ends.
GateFree == \A d \in Clients : submit[d].at = "locked" => submit[d].row.corrective = None

Answer(row) == [result |-> row.result, corrective |-> row.corrective]

\* Mutant: a repeated submission knows nothing of the corrective work.
ReplayedResult(i) == [result |-> inspection[i].result, corrective |-> None]

Replayed(i) == Answer(inspection[i])

\* The inspection is locked, and found completed.
Replay(c) ==
  LET i == submit[c].inspection IN
  /\ submit[c].at = "wait" /\ Unlocked(i)
  /\ inspection[i].status = "Completed"
  /\ answers' = [answers EXCEPT ![i] = @ \union {Replayed(i)}]
  /\ submit' = [submit EXCEPT ![c] = Idle]
  /\ UNCHANGED <<inspection, corrective, requests>>

\* It is locked, and completed; the corrective work order draws a number.
Submit(c) ==
  LET s == submit[c]
      works == s.fails /\ s.wanted
      row == [status |-> "Completed", result |-> IF s.fails THEN "Fail" ELSE "Pass",
              corrective |-> IF works THEN NewId ELSE None]
  IN /\ s.at = "wait" /\ Unlocked(s.inspection)
     /\ inspection[s.inspection].status # "Completed"
     /\ works => GateFree
     /\ submit' = [submit EXCEPT ![c] =
          [at |-> "locked", inspection |-> s.inspection, row |-> row]]
     /\ UNCHANGED <<inspection, corrective, answers, requests>>

\* The claims on corrective_wo_id and on the status, under the lock.
Claimed(i, row) ==
  /\ row.corrective # None => inspection[i].corrective = None
  /\ inspection[i].status # "Completed"

Commit(c) ==
  LET s == submit[c] IN
  /\ s.at = "locked"
  /\ Claimed(s.inspection, s.row)
  /\ inspection' = [inspection EXCEPT ![s.inspection] = s.row]
  /\ corrective' = corrective \union
       (IF s.row.corrective = None THEN {}
        ELSE {[id |-> s.row.corrective, inspection |-> s.inspection]})
  /\ answers' = [answers EXCEPT ![s.inspection] = @ \union {Answer(s.row)}]
  /\ submit' = [submit EXCEPT ![c] = Idle]
  /\ UNCHANGED requests

Fail(c) ==
  /\ submit[c] # Idle
  /\ submit' = [submit EXCEPT ![c] = Idle]
  /\ UNCHANGED <<inspection, corrective, answers, requests>>

Next ==
  \/ \E i \in Inspections : Create(i)
  \/ \E c \in Clients :
       \/ \E i \in Inspections, fails, wanted \in BOOLEAN : Request(c, i, fails, wanted)
       \/ Replay(c) \/ Submit(c) \/ Commit(c) \/ Fail(c)

-----------------------------------------------------------------------------
\* However often an inspection is submitted, and with whatever responses, every
\* answer is the one that was committed, and it has at most one corrective work
\* order (submit_inspection_atomic).
OneTerminalAnswer ==
  \A i \in Inspections :
    /\ answers[i] \subseteq {Answer(inspection[i])}
    /\ {w.id : w \in {x \in corrective : x.inspection = i}}
         = {inspection[i].corrective} \ {None}
=============================================================================
