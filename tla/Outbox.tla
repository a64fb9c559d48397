-------------------------------- MODULE Outbox -------------------------------
(***************************************************************************)
(* The transactional event outbox of EUAS (app/outbox_store.py and         *)
(* app/outbox_observability.py).                                           *)
(*                                                                         *)
(* Business transactions commit rows of event_outbox.  The automation      *)
(* runner of every replica (a worker) reads a batch of eligible rows,      *)
(* claims each one by a compare-and-swap that is committed BEFORE the      *)
(* webhook is called, reads the row back, posts it without holding any     *)
(* lock, and records the outcome with a second compare-and-swap on the     *)
(* pair (attempts, processed_at): the generation fence and the lease       *)
(* token.  A stale lease may be reclaimed, an operator may requeue an      *)
(* event, a worker may stop at any point.                                  *)
(*                                                                         *)
(* One step is one committed transaction, one autonomous read or one       *)
(* webhook call.  Timestamps have the one-second resolution of now().      *)
(***************************************************************************)
EXTENDS Integers, FiniteSets

CONSTANTS
  NumEvents,        \* event ids are 1..NumEvents; a scan serves them in id order
  Workers,          \* one automation runner per replica
  MaxAttempts,      \* EUAS_OUTBOX_MAX_ATTEMPTS
  Lease,            \* EUAS_OUTBOX_LEASE_SECONDS
  BatchLimit,       \* LIMIT of the scan (100 in the code)
  PauseAfterClaim,  \* may a worker stall past its own lease between committing
                    \* a claim and reading the claimed row back?
  MaxTime,          \* bound: the clock stops here
  MaxCrashes,       \* bound: crashes of workers
  MaxRetries        \* bound: operator requeues that take effect

ASSUME OutboxAssumption ==
  /\ NumEvents \in Nat \ {0}
  /\ MaxAttempts \in Nat \ {0}
  /\ Lease \in Nat \ {0}
  /\ BatchLimit \in Nat \ {0}
  /\ PauseAfterClaim \in BOOLEAN
  /\ MaxTime \in Nat
  /\ MaxCrashes \in Nat
  /\ MaxRetries \in Nat

VARIABLES
  outbox,    \* outbox[e]: the committed row of event e
  pc,        \* pc[w]: where worker w is with the row it holds
  batch,     \* batch[w]: the snapshots of the scan it has not treated yet
  claim,     \* claim[w]: the generation and stamp its own claim wrote
  item,      \* item[w]: its copy of the row it is delivering
  seen,      \* the row an operator retry read before locking it, or NoRow
  received,  \* events the receiver has accepted
  alerted,   \* events with an unread "Outbox delivery exhausted" notification
  webhook,   \* is EUAS_EVENT_WEBHOOK_URL configured?
  clock,     \* the wall clock, in seconds
  crashes, retries

workerVars == <<pc, batch, claim, item>>
bounds == <<crashes, retries>>
vars == <<outbox, pc, batch, claim, item, seen, received, alerted, webhook,
          clock, crashes, retries>>

Events == 1..NumEvents

NoStamp == -1
Stamps == Nat \union {NoStamp}
Statuses == {"Absent", "Pending", "Failed", "Skipped", "Delivered"}

\* A row of event_outbox; "Absent" is a row no transaction has committed yet.
Row == [id : Events, status : Statuses, attempts : Nat, processedAt : Stamps]
NoRow == [id |-> 0, status |-> "Absent", attempts |-> 0, processedAt |-> NoStamp]

PCs == {"idle", "claimed", "holding", "accepted", "errored"}

\* The worker has read its row back and has not finalised it.
Delivering(w) == pc[w] \in {"holding", "accepted", "errored"}

TypeOK ==
  /\ outbox \in [Events -> Row]
  /\ \A e \in Events : outbox[e].id = e /\ outbox[e].attempts <= MaxAttempts
  /\ pc \in [Workers -> PCs]
  /\ batch \in [Workers -> SUBSET Row]
  /\ claim \in [Workers -> Row \union {NoRow}]
  /\ item \in [Workers -> Row \union {NoRow}]
  /\ \A w \in Workers : pc[w] # "idle" => claim[w] \in Row
  /\ \A w \in Workers : Delivering(w) => item[w] \in Row /\ item[w].id = claim[w].id
  /\ seen \in Row \union {NoRow}
  /\ received \subseteq Events
  /\ alerted \subseteq Events
  /\ webhook \in BOOLEAN
  /\ clock \in Nat
  /\ crashes \in 0..MaxCrashes
  /\ retries \in 0..MaxRetries
  /\ seen # NoRow => retries < MaxRetries

Init ==
  /\ outbox = [e \in Events |-> [NoRow EXCEPT !.id = e]]
  /\ pc = [w \in Workers |-> "idle"]
  /\ batch = [w \in Workers |-> {}]
  /\ claim = [w \in Workers |-> NoRow]
  /\ item = [w \in Workers |-> NoRow]
  /\ seen = NoRow
  /\ received = {}
  /\ alerted = {}
  /\ webhook \in BOOLEAN
  /\ clock = 0
  /\ crashes = 0
  /\ retries = 0

-----------------------------------------------------------------------------
\* Leases

LeaseActive(row) == row.processedAt # NoStamp /\ row.processedAt + Lease > clock

Exhausted(row) == row.attempts >= MaxAttempts

\* Mutant: the scan forgets the leases that died.
EligibleIfNeverClaimed(row) ==
  /\ row.attempts < MaxAttempts
  /\ row.status \in {"Pending", "Failed"}
  /\ row.processedAt = NoStamp

\* The WHERE clause of the scan.
Eligible(row) ==
  /\ row.attempts < MaxAttempts
  /\ \/ row.status = "Failed"
     \/ row.status = "Pending" /\ ~LeaseActive(row)

EligibleEvents == {e \in Events : Eligible(outbox[e])}

\* ORDER BY id LIMIT BatchLimit
Selected ==
  {e \in EligibleEvents :
     Cardinality({f \in EligibleEvents : f < e}) < BatchLimit}

\* The claim's compare-and-swap finds the row as the scan saw it.  A Failed
\* row is matched by its generation alone.
ClaimMatches(s) ==
  LET row == outbox[s.id] IN
    /\ row.status = s.status
    /\ row.attempts = s.attempts
    /\ row.attempts < MaxAttempts
    /\ s.status = "Pending" => row.processedAt = s.processedAt

Claimable(s) ==
  /\ s.status \in {"Pending", "Failed"}
  /\ s.status = "Pending" => ~LeaseActive(s)
  /\ ClaimMatches(s)

ClaimedRow(s) ==
  [id |-> s.id, status |-> "Pending",
   attempts |-> outbox[s.id].attempts + 1, processedAt |-> clock]

\* Mutants: the status alone, or the generation without the lease token.
OwnsRowByStatus(row, it) == row.status = "Pending"
OwnsGeneration(row, it) == row.status = "Pending" /\ row.attempts = it.attempts

\* The finalising compare-and-swap: same generation, same lease, in flight.
\* SQL's processed_at = NULL is never true.
OwnsLease(row, it) ==
  /\ row.status = "Pending"
  /\ row.attempts = it.attempts
  /\ it.processedAt # NoStamp
  /\ row.processedAt = it.processedAt

-----------------------------------------------------------------------------
\* Business transactions

\* emit_event inside a business transaction that commits.
EmitEvent(e) ==
  /\ outbox[e].status = "Absent"
  /\ outbox' = [outbox EXCEPT ![e].status = "Pending"]
  /\ UNCHANGED <<workerVars, seen, received, alerted, webhook, clock, bounds>>

-----------------------------------------------------------------------------
\* process_outbox_atomic, worker w

Scan(w) ==
  /\ pc[w] = "idle"
  /\ batch[w] = {}
  /\ Selected # {}
  /\ batch' = [batch EXCEPT ![w] = {outbox[e] : e \in Selected}]
  /\ UNCHANGED <<outbox, pc, claim, item, seen, received, alerted, webhook, clock, bounds>>

\* The snapshot the loop treats next.
IsNext(w, s) == s \in batch[w] /\ \A t \in batch[w] : s.id <= t.id

\* The lease is durable before any outbound I/O.
Claim(w, s) ==
  /\ pc[w] = "idle"
  /\ IsNext(w, s)
  /\ Claimable(s)
  /\ outbox' = [outbox EXCEPT ![s.id] = ClaimedRow(s)]
  /\ pc' = [pc EXCEPT ![w] = "claimed"]
  /\ claim' = [claim EXCEPT ![w] = ClaimedRow(s)]
  /\ batch' = [batch EXCEPT ![w] = @ \ {s}]
  /\ UNCHANGED <<item, seen, received, alerted, webhook, clock, bounds>>

\* The lease is active or a peer or an operator was faster.
PassOver(w, s) ==
  /\ pc[w] = "idle"
  /\ IsNext(w, s)
  /\ ~Claimable(s)
  /\ batch' = [batch EXCEPT ![w] = @ \ {s}]
  /\ UNCHANGED <<outbox, pc, claim, item, seen, received, alerted, webhook, clock, bounds>>

\* The SELECT after the commit is a read of its own: what it returns is what
\* the row is by then, and that is the token the worker will finalise with.
ReadBack(w) ==
  /\ pc[w] = "claimed"
  /\ item' = [item EXCEPT ![w] = outbox[claim[w].id]]
  /\ pc' = [pc EXCEPT ![w] = "holding"]
  /\ UNCHANGED <<outbox, batch, claim, seen, received, alerted, webhook, clock, bounds>>

\* The POST.  The receiver may accept an event whose answer is then lost or
\* not a 2xx, and the sender may fail before anything is sent.
Post(w) ==
  /\ pc[w] = "holding"
  /\ webhook
  /\ \/ /\ received' = received \union {item[w].id}
        /\ \E answer \in {"accepted", "errored"} : pc' = [pc EXCEPT ![w] = answer]
     \/ /\ pc' = [pc EXCEPT ![w] = "errored"]
        /\ UNCHANGED received
  /\ UNCHANGED <<outbox, batch, claim, item, seen, alerted, webhook, clock, bounds>>

\* _finalize_claim: one row changes, or the transaction is rolled back.
Finalize(w, status, stamp) ==
  LET it == item[w] IN
    /\ pc' = [pc EXCEPT ![w] = "idle"]
    /\ claim' = [claim EXCEPT ![w] = NoRow]
    /\ item' = [item EXCEPT ![w] = NoRow]
    /\ outbox' = IF OwnsLease(outbox[it.id], it)
                   THEN [outbox EXCEPT ![it.id].status = status,
                                       ![it.id].processedAt = stamp]
                   ELSE outbox
    /\ UNCHANGED <<batch, seen, received, webhook, clock, bounds>>

FinalizeSkipped(w) ==
  /\ pc[w] = "holding"
  /\ ~webhook
  /\ Finalize(w, "Skipped", clock)
  /\ UNCHANGED alerted

FinalizeDelivered(w) ==
  /\ pc[w] = "accepted"
  /\ Finalize(w, "Delivered", clock)
  /\ UNCHANGED alerted

\* Mutant: the alert waits for one attempt more than the budget has.
FinalizeFailedAlertingLate(w) ==
  /\ pc[w] = "errored"
  /\ Finalize(w, "Failed", NoStamp)
  /\ alerted' = IF /\ OwnsLease(outbox[item[w].id], item[w])
                   /\ item[w].attempts > MaxAttempts
                  THEN alerted \union {item[w].id}
                  ELSE alerted

\* The alert for a spent budget is written in the finalising transaction, so
\* a sender that lost its lease rolls it back too.
FinalizeFailed(w) ==
  /\ pc[w] = "errored"
  /\ Finalize(w, "Failed", NoStamp)
  /\ alerted' = IF OwnsLease(outbox[item[w].id], item[w]) /\ Exhausted(item[w])
                  THEN alerted \union {item[w].id}
                  ELSE alerted

\* The process dies, or a database error unwinds the dispatch: what was
\* committed stays, the rest is gone.
Crash(w) ==
  /\ crashes < MaxCrashes
  /\ clock + Lease <= MaxTime   \* bound: time remains for its lease to go stale
  /\ pc[w] # "idle" \/ batch[w] # {}
  /\ pc' = [pc EXCEPT ![w] = "idle"]
  /\ batch' = [batch EXCEPT ![w] = {}]
  /\ claim' = [claim EXCEPT ![w] = NoRow]
  /\ item' = [item EXCEPT ![w] = NoRow]
  /\ crashes' = crashes + 1
  /\ UNCHANGED <<outbox, seen, received, alerted, webhook, clock, retries>>

-----------------------------------------------------------------------------
\* retry_outbox_event_atomic, one operator request at a time

RetryRead(e) ==
  /\ seen = NoRow
  /\ retries < MaxRetries
  /\ outbox[e].status # "Absent"
  /\ seen' = outbox[e]
  /\ UNCHANGED <<outbox, workerVars, received, alerted, webhook, clock, bounds>>

\* Only the generation the operator saw is requeued, never a delivered one,
\* never one in flight, and a queued one is left as it is.
Requeueable(row) ==
  /\ row = seen
  /\ row.status # "Delivered"
  /\ row.status = "Pending" =>
       /\ ~LeaseActive(row)
       /\ row.processedAt # NoStamp \/ Exhausted(row)

\* Mutant: every requeue gives a fresh budget.
RequeuedRowFromZero(row) ==
  [id |-> row.id, status |-> "Pending", attempts |-> 0, processedAt |-> NoStamp]

\* An exhausted event gets a fresh budget.
RequeuedRow(row) ==
  [id |-> row.id, status |-> "Pending",
   attempts |-> IF Exhausted(row) THEN 0 ELSE row.attempts,
   processedAt |-> NoStamp]

RetryApply ==
  /\ seen # NoRow
  /\ seen' = NoRow
  /\ LET row == outbox[seen.id] IN
       IF Requeueable(row)
         THEN /\ outbox' = [outbox EXCEPT ![seen.id] = RequeuedRow(row)]
              /\ retries' = retries + 1
         ELSE UNCHANGED <<outbox, retries>>
  /\ UNCHANGED <<workerVars, received, alerted, webhook, clock, crashes>>

\* A maintenance manager reads the notification.
ReadAlert(e) ==
  /\ e \in alerted
  /\ alerted' = alerted \ {e}
  /\ UNCHANGED <<outbox, workerVars, seen, received, webhook, clock, bounds>>

-----------------------------------------------------------------------------
\* Unless PauseAfterClaim, a worker reads its claim back before its own lease
\* can go stale: ten seconds at least, for one indexed SELECT.
Tick ==
  /\ clock < MaxTime
  /\ PauseAfterClaim \/ \A w \in Workers :
       pc[w] = "claimed" => clock + 1 < claim[w].processedAt + Lease
  /\ clock' = clock + 1
  /\ UNCHANGED <<outbox, workerVars, seen, received, alerted, webhook, bounds>>

WorkerStep(w) ==
  \/ Scan(w)
  \/ \E s \in batch[w] : Claim(w, s) \/ PassOver(w, s)
  \/ ReadBack(w)
  \/ Post(w)
  \/ FinalizeSkipped(w)
  \/ FinalizeDelivered(w)
  \/ FinalizeFailed(w)

Next ==
  \/ \E e \in Events : EmitEvent(e) \/ RetryRead(e) \/ ReadAlert(e)
  \/ \E w \in Workers : WorkerStep(w) \/ Crash(w)
  \/ RetryApply
  \/ Tick

Spec == Init /\ [][Next]_vars

\* Every replica's automation loop keeps running, a webhook call ends within
\* its timeout and time passes.  Nothing obliges an operator, a business
\* transaction or a crash.
FairSpec ==
  /\ Spec
  /\ WF_vars(Tick)
  /\ \A w \in Workers : WF_vars(WorkerStep(w))

-----------------------------------------------------------------------------
\* Properties

Holds(w, e) == pc[w] # "idle" /\ claim[w].id = e

(* A worker whose lease has not run out is undisturbed: the row still says  *)
(* Pending with exactly its generation and its stamp, whatever its peers    *)
(* and operators do meanwhile (the claims, the scan's cutoff and the        *)
(* operator's lease test together).                                         *)
ActiveLeaseUndisturbed ==
  \A w \in Workers :
    (pc[w] # "idle" /\ LeaseActive(claim[w])) => outbox[claim[w].id] = claim[w]

(* (attempts, processed_at) identifies one claim among those outstanding,   *)
(* although attempts is reset by an operator and stamps repeat within a     *)
(* second: no two workers ever claimed an event under the same token.       *)
ClaimTokensDistinct ==
  \A v, w \in Workers :
    (v # w /\ pc[v] # "idle" /\ pc[w] # "idle") => claim[v] # claim[w]

(* "Finalize only the exact generation+lease owned by this sender": the     *)
(* outcome a worker records is recorded on the generation and lease that    *)
(* its own claim wrote, so an older sender's write is fenced out.           *)
FencedFinalization ==
  [][\A w \in Workers :
       (Delivering(w) /\ ~Delivering(w)' /\ outbox' # outbox) =>
         outbox[claim[w].id] = claim[w]]_vars

(* The outbox never calls an event Delivered that the receiver did not      *)
(* accept (a stale sender's success or failure cannot be recorded for a     *)
(* newer generation).                                                       *)
DeliveredWasReceived ==
  \A e \in Events : outbox[e].status = "Delivered" => e \in received

\* The gauges of outbox_operational_snapshot, as sets of events.
Queued ==
  {e \in Events : /\ outbox[e].status = "Pending"
                  /\ outbox[e].processedAt = NoStamp
                  /\ outbox[e].attempts < MaxAttempts}
FailedRetryable ==
  {e \in Events : outbox[e].status = "Failed" /\ outbox[e].attempts < MaxAttempts}
ActiveLeases ==
  {e \in Events : outbox[e].status = "Pending" /\ LeaseActive(outbox[e])}
\* Mutant: a stale lease whose budget is spent counts as retryable.
StaleLeasesOfAnyBudget ==
  {e \in Events : /\ outbox[e].status = "Pending"
                  /\ outbox[e].processedAt # NoStamp
                  /\ ~LeaseActive(outbox[e])}
StaleLeases ==
  {e \in Events : /\ outbox[e].status = "Pending"
                  /\ outbox[e].processedAt # NoStamp
                  /\ ~LeaseActive(outbox[e])
                  /\ outbox[e].attempts < MaxAttempts}
ExhaustedEvents ==
  {e \in Events : outbox[e].status \in {"Pending", "Failed"} /\ Exhausted(outbox[e])}
Unresolved == {e \in Events : outbox[e].status \in {"Pending", "Failed"}}

(* The operator's gauges tell the truth about the processor: retryable      *)
(* (queued + failed_retryable + stale_leases) counts exactly the events the *)
(* next scan could select, none twice, and no unresolved event is missing   *)
(* from all of retryable, active_leases and exhausted.                      *)
GaugesMatchProcessor ==
  /\ Cardinality(Queued) + Cardinality(FailedRetryable) + Cardinality(StaleLeases)
       = Cardinality(EligibleEvents)
  /\ Unresolved = EligibleEvents \union ActiveLeases \union ExhaustedEvents

(* Attempts are only ever given back by an operator, to an event nobody can *)
(* be delivering under a live lease: a generation number that drops was     *)
(* exhausted and its lease was not active.                                  *)
BudgetResetOnlyWhenExhausted ==
  [][\A e \in Events :
       outbox'[e].attempts < outbox[e].attempts =>
         /\ Exhausted(outbox[e])
         /\ outbox[e].status = "Pending" => ~LeaseActive(outbox[e])
         /\ \A w \in Workers : Holds(w, e) => ~LeaseActive(claim[w])]_vars

Settled(e) ==
  \/ outbox[e].status \in {"Skipped", "Delivered"}
  \/ Exhausted(outbox[e]) /\ ~\E w \in Workers : Holds(w, e)

(* Every committed event is eventually delivered, skipped or out of budget, *)
(* through crashes, stale leases and lost compare-and-swaps: no event is    *)
(* left behind by the batch limit or by a worker that died holding it.      *)
EventuallySettled ==
  \A e \in Events : outbox[e].status \in {"Pending", "Failed"} ~> Settled(e)

(* INTEGRATIONS.md: "A lease older than EUAS_OUTBOX_LEASE_SECONDS is        *)
(* eligible for recovery as a newer attempt generation": the lease a dead   *)
(* sender left behind is picked up by a later scan once it is stale.        *)
StaleLeaseIsEligible ==
  \A e \in Events :
    (/\ outbox[e].status = "Pending"
     /\ outbox[e].processedAt # NoStamp
     /\ ~LeaseActive(outbox[e])
     /\ ~\E w \in Workers : Holds(w, e)) => Eligible(outbox[e])

\* The abstract promise.
Phase(row) ==
  CASE row.status = "Absent" -> "absent"
    [] row.status = "Delivered" -> "delivered"
    [] row.status = "Skipped" -> "skipped"
    [] row.status = "Failed" /\ Exhausted(row) -> "poisoned"
    [] OTHER -> "open"

Delivery == INSTANCE EventDelivery WITH
  phase <- [e \in Events |-> Phase(outbox[e])]

(* The outbox implements EventDelivery: delivered only after reception,     *)
(* delivered is final, poisoned only together with an operator alert.       *)
ImplementsDelivery == Delivery!Spec
=============================================================================
