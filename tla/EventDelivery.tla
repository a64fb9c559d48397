---------------------------- MODULE EventDelivery ----------------------------
(***************************************************************************)
(* What the event outbox promises the rest of EUAS, with no worker, lease, *)
(* attempt counter or clock in sight: a committed integration event stays  *)
(* open until it is recorded as delivered, skipped or poisoned; it is      *)
(* delivered only after the receiver has had it; delivered is final; and   *)
(* it is never poisoned silently.  Outbox implements this module.          *)
(***************************************************************************)
EXTENDS Naturals

CONSTANT NumEvents

Events == 1..NumEvents

VARIABLES
  phase,     \* phase[e]: what the outbox row says about event e
  received,  \* the events the webhook receiver has accepted at least once
  alerted    \* the events with an unread "delivery exhausted" notification

vars == <<phase, received, alerted>>

Phases == {"absent", "open", "delivered", "skipped", "poisoned"}

Init ==
  /\ phase = [e \in Events |-> "absent"]
  /\ received = {}
  /\ alerted = {}

\* A business transaction commits together with its event.
Commit(e) ==
  /\ phase[e] = "absent"
  /\ phase' = [phase EXCEPT ![e] = "open"]
  /\ UNCHANGED <<received, alerted>>

\* The receiver accepts the event.  Delivery is at least once: a late sender
\* may repeat it whatever the row says by then.
Receive(e) ==
  /\ phase[e] # "absent"
  /\ received' = received \union {e}
  /\ UNCHANGED <<phase, alerted>>

Deliver(e) ==
  /\ phase[e] = "open"
  /\ e \in received
  /\ phase' = [phase EXCEPT ![e] = "delivered"]
  /\ UNCHANGED <<received, alerted>>

Skip(e) ==
  /\ phase[e] = "open"
  /\ phase' = [phase EXCEPT ![e] = "skipped"]
  /\ UNCHANGED <<received, alerted>>

\* Nothing will retry a poisoned event, so the step that poisons it alerts.
Poison(e) ==
  /\ phase[e] = "open"
  /\ phase' = [phase EXCEPT ![e] = "poisoned"]
  /\ alerted' = alerted \union {e}
  /\ UNCHANGED received

\* An operator requeues an event that was not delivered.
Requeue(e) ==
  /\ phase[e] \in {"skipped", "poisoned"}
  /\ phase' = [phase EXCEPT ![e] = "open"]
  /\ UNCHANGED <<received, alerted>>

ReadAlert(e) ==
  /\ e \in alerted
  /\ alerted' = alerted \ {e}
  /\ UNCHANGED <<phase, received>>

Next ==
  \E e \in Events :
    \/ Commit(e)
    \/ Receive(e)
    \/ Deliver(e)
    \/ Skip(e)
    \/ Poison(e)
    \/ Requeue(e)
    \/ ReadAlert(e)

Spec == Init /\ [][Next]_vars
=============================================================================
