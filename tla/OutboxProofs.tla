----------------------------- MODULE OutboxProofs ----------------------------
(***************************************************************************)
(* What Outbox guarantees for every number of events and workers, every    *)
(* attempt budget, lease length and batch limit.                           *)
(***************************************************************************)
EXTENDS Outbox, FiniteSetTheorems, TLAPS

USE OutboxAssumption DEF OutboxAssumption

\* Every row a worker may finalise or claim stays a row.
LEMMA ClaimedRowType ==
  ASSUME TypeOK, NEW s \in Row, Claimable(s)
  PROVE  /\ ClaimedRow(s) \in Row
         /\ ClaimedRow(s).id = s.id
         /\ ClaimedRow(s).status = "Pending"
         /\ ClaimedRow(s).attempts <= MaxAttempts
         /\ ClaimedRow(s).processedAt = clock
<1>1. /\ s.id \in Events
      /\ outbox[s.id] \in Row
      /\ outbox[s.id].id = s.id
      /\ outbox[s.id].attempts < MaxAttempts
      /\ outbox[s.id].attempts + 1 \in Nat
      /\ clock \in Stamps
  BY DEF TypeOK, Claimable, ClaimMatches, Row, Stamps
<1>2. outbox[s.id].attempts + 1 <= MaxAttempts
  BY <1>1 DEF Row
<1>3. QED
  BY <1>1, <1>2 DEF ClaimedRow, Row, Statuses

\* Events and attempt counters stay in range, and a worker past its claim
\* always knows which row it holds.
THEOREM TypeCorrect == Spec => []TypeOK
<1>1. Init => TypeOK
  BY DEF Init, TypeOK, Row, NoRow, Statuses, Stamps, NoStamp, PCs, Delivering, Events
<1>2. TypeOK /\ [Next]_vars => TypeOK'
  <2> SUFFICES ASSUME TypeOK, [Next]_vars PROVE TypeOK'
    OBVIOUS
  <2>1. ASSUME NEW e \in Events, EmitEvent(e) PROVE TypeOK'
    <3>1. [outbox[e] EXCEPT !.status = "Pending"] \in Row
      BY DEF TypeOK, Row, Statuses
    <3>2. /\ outbox' \in [Events -> Row]
          /\ \A f \in Events : outbox'[f].id = f /\ outbox'[f].attempts <= MaxAttempts
      BY <2>1, <3>1 DEF TypeOK, EmitEvent, Row
    <3>3. QED
      BY <2>1, <3>2 DEF TypeOK, EmitEvent, workerVars, bounds, Delivering
  <2>2. ASSUME NEW w \in Workers, Scan(w) PROVE TypeOK'
    <3>1. {outbox[e] : e \in Selected} \in SUBSET Row
      <4>1. Selected \subseteq Events
        BY DEF Selected, EligibleEvents
      <4>2. QED
        BY <4>1 DEF TypeOK
    <3>2. QED
      BY <2>2, <3>1 DEF TypeOK, Scan, bounds, Delivering
  <2>3. ASSUME NEW w \in Workers, NEW s \in batch[w], Claim(w, s) PROVE TypeOK'
    <3>1. s \in Row /\ s.id \in Events
      BY DEF TypeOK, Row
    <3>2. /\ ClaimedRow(s) \in Row
          /\ ClaimedRow(s).id = s.id
          /\ ClaimedRow(s).attempts <= MaxAttempts
      BY <2>3, <3>1, ClaimedRowType DEF Claim
    <3>3. (batch[w] \ {s}) \in SUBSET Row
      BY DEF TypeOK
    <3>4. /\ outbox' \in [Events -> Row]
          /\ \A e \in Events : outbox'[e].id = e /\ outbox'[e].attempts <= MaxAttempts
      BY <2>3, <3>1, <3>2 DEF TypeOK, Claim
    <3>5. /\ pc' \in [Workers -> PCs]
          /\ batch' \in [Workers -> SUBSET Row]
          /\ claim' \in [Workers -> Row \union {NoRow}]
      BY <2>3, <3>2, <3>3 DEF TypeOK, Claim, PCs
    <3>6. /\ \A v \in Workers : pc'[v] # "idle" => claim'[v] \in Row
          /\ \A v \in Workers : Delivering(v)' => item'[v] \in Row /\ item'[v].id = claim'[v].id
      BY <2>3, <3>2 DEF TypeOK, Claim, Delivering
    <3>7. QED
      BY <2>3, <3>4, <3>5, <3>6 DEF TypeOK, Claim, bounds
  <2>4. ASSUME NEW w \in Workers, NEW s \in batch[w], PassOver(w, s) PROVE TypeOK'
    BY <2>4 DEF TypeOK, PassOver, bounds, Delivering
  <2>5. ASSUME NEW w \in Workers, ReadBack(w) PROVE TypeOK'
    <3>1. claim[w].id \in Events
      BY <2>5 DEF TypeOK, ReadBack, Row
    <3>2. QED
      BY <2>5, <3>1 DEF TypeOK, ReadBack, bounds, PCs, Delivering
  <2>6. ASSUME NEW w \in Workers, Post(w) PROVE TypeOK'
    <3>1. item[w].id \in Events
      BY <2>6 DEF TypeOK, Post, Row, Delivering
    <3>2. QED
      BY <2>6, <3>1 DEF TypeOK, Post, bounds, PCs, Delivering
  <2>7. ASSUME NEW w \in Workers, NEW st \in Statuses, NEW t \in Stamps,
               Delivering(w), Finalize(w, st, t),
               alerted' \subseteq Events
        PROVE  TypeOK'
    <3>1. item[w].id \in Events
      BY <2>7 DEF TypeOK, Row
    <3>2. /\ outbox' \in [Events -> Row]
          /\ \A e \in Events : outbox'[e].id = e /\ outbox'[e].attempts <= MaxAttempts
      BY <2>7, <3>1 DEF TypeOK, Finalize, Row
    <3>3. QED
      BY <2>7, <3>2 DEF TypeOK, Finalize, bounds, PCs, Delivering
  <2>8. ASSUME NEW w \in Workers,
               FinalizeSkipped(w) \/ FinalizeDelivered(w) \/ FinalizeFailed(w)
        PROVE  TypeOK'
    <3>1. Delivering(w) /\ item[w].id \in Events
      BY <2>8 DEF FinalizeSkipped, FinalizeDelivered, FinalizeFailed, Delivering, TypeOK, Row
    <3>2. alerted' \subseteq Events
      BY <2>8, <3>1 DEF FinalizeSkipped, FinalizeDelivered, FinalizeFailed, TypeOK
    <3>3. clock \in Stamps /\ NoStamp \in Stamps
      BY DEF TypeOK, Stamps
    <3>4. QED
      BY <2>8, <3>1, <3>2, <3>3, <2>7
      DEF FinalizeSkipped, FinalizeDelivered, FinalizeFailed, Statuses
  <2>9. ASSUME NEW w \in Workers, Crash(w) PROVE TypeOK'
    BY <2>9 DEF TypeOK, Crash, PCs, Delivering
  <2>10. ASSUME NEW e \in Events, RetryRead(e) PROVE TypeOK'
    BY <2>10 DEF TypeOK, RetryRead, workerVars, bounds, Delivering
  <2>11. CASE RetryApply
    <3>1. seen.id \in Events
      BY <2>11 DEF TypeOK, RetryApply, Row
    <3>2. /\ RequeuedRow(outbox[seen.id]) \in Row
          /\ RequeuedRow(outbox[seen.id]).id = seen.id
          /\ RequeuedRow(outbox[seen.id]).attempts <= MaxAttempts
      <4>1. /\ outbox[seen.id] \in Row
            /\ outbox[seen.id].id = seen.id
            /\ outbox[seen.id].attempts <= MaxAttempts
        BY <3>1 DEF TypeOK
      <4>2. QED
        BY <3>1, <4>1 DEF RequeuedRow, Row, Statuses, Stamps
    <3>3. CASE Requeueable(outbox[seen.id])
      BY <2>11, <3>1, <3>2, <3>3 DEF TypeOK, RetryApply, workerVars, Delivering
    <3>4. CASE ~Requeueable(outbox[seen.id])
      BY <2>11, <3>4 DEF TypeOK, RetryApply, workerVars, Delivering
    <3>5. QED
      BY <3>3, <3>4
  <2>12. ASSUME NEW e \in Events, ReadAlert(e) PROVE TypeOK'
    BY <2>12 DEF TypeOK, ReadAlert, workerVars, bounds, Delivering
  <2>13. CASE Tick
    BY <2>13 DEF TypeOK, Tick, workerVars, bounds, Delivering
  <2>14. CASE UNCHANGED vars
    BY <2>14 DEF TypeOK, vars, Delivering
  <2>15. QED
    BY <2>1, <2>2, <2>3, <2>4, <2>5, <2>6, <2>8, <2>9, <2>10, <2>11, <2>12, <2>13, <2>14
    DEF Next, WorkerStep
<1>3. QED
  BY <1>1, <1>2, PTL DEF Spec

-----------------------------------------------------------------------------
\* Lease safety, for workers that read their claim back in time.

(* The inductive strengthening.  An outstanding claim is a Pending row      *)
(* stamped no later than now; while its lease is active the row is that     *)
(* claim; a worker that has not read back is still within its lease, and    *)
(* one that has holds its own claim.                                        *)
ClaimInv(w) ==
  /\ pc[w] # "idle" =>
       /\ claim[w].status = "Pending"
       /\ claim[w].processedAt \in Nat
       /\ claim[w].processedAt <= clock
       /\ LeaseActive(claim[w]) => outbox[claim[w].id] = claim[w]
  /\ pc[w] = "claimed" => LeaseActive(claim[w])
  /\ Delivering(w) => item[w] = claim[w]

LeaseInv ==
  /\ \A w \in Workers : ClaimInv(w)
  /\ ClaimTokensDistinct

\* A claim never reuses the token of one that is still outstanding, because
\* the row under an active lease cannot be claimed.
LEMMA FreshToken ==
  ASSUME TypeOK, LeaseInv, NEW s \in Row, Claimable(s),
         NEW v \in Workers, pc[v] # "idle"
  PROVE  /\ claim[v] # ClaimedRow(s)
         /\ LeaseActive(claim[v]) => claim[v].id # s.id
<1>1. /\ s.id \in Events
      /\ claim[v] \in Row
      /\ claim[v].status = "Pending"
      /\ claim[v].processedAt \in Nat
      /\ clock \in Nat
      /\ Lease \in Nat \ {0}
  BY DEF TypeOK, LeaseInv, ClaimInv, Row
<1>2. LeaseActive(claim[v]) => claim[v].id # s.id
  <2> SUFFICES ASSUME LeaseActive(claim[v]), claim[v].id = s.id PROVE FALSE
    OBVIOUS
  <2>1. outbox[s.id] = claim[v]
    BY DEF LeaseInv, ClaimInv
  <2>2. s.status = "Pending" /\ s.processedAt = claim[v].processedAt
    BY <1>1, <2>1 DEF Claimable, ClaimMatches
  <2>3. ~LeaseActive(s)
    BY <2>2 DEF Claimable
  <2>4. QED
    BY <2>2, <2>3 DEF LeaseActive
<1>3. claim[v] # ClaimedRow(s)
  <2> SUFFICES ASSUME claim[v] = ClaimedRow(s) PROVE FALSE
    OBVIOUS
  <2>1. claim[v].id = s.id /\ claim[v].processedAt = clock
    BY DEF ClaimedRow
  <2>2. LeaseActive(claim[v])
    BY <1>1, <2>1 DEF LeaseActive, NoStamp
  <2>3. QED
    BY <1>2, <2>1, <2>2
<1>4. QED
  BY <1>2, <1>3

\* Recording an outcome disturbs no other outstanding claim with a live lease.
LEMMA FinalizeKeepsClaims ==
  ASSUME TypeOK, LeaseInv, NEW w \in Workers, Delivering(w),
         NEW st \in Statuses, NEW t \in Stamps, Finalize(w, st, t)
  PROVE  LeaseInv'
<1>1. /\ item[w] = claim[w]
      /\ claim[w] \in Row
      /\ claim[w].status = "Pending"
      /\ pc[w] # "idle"
  BY DEF LeaseInv, ClaimInv, TypeOK, Delivering
<1>2. ASSUME NEW v \in Workers, v # w PROVE ClaimInv(v)'
  <2>1. /\ pc'[v] = pc[v] /\ claim'[v] = claim[v] /\ item'[v] = item[v]
        /\ clock' = clock
    BY <1>2 DEF Finalize, TypeOK
  <2>2. ClaimInv(v)
    BY DEF LeaseInv
  <2>3. ASSUME pc[v] # "idle", LeaseActive(claim[v])
        PROVE  outbox'[claim[v].id] = claim[v]
    <3>1. outbox[claim[v].id] = claim[v]
      BY <2>2, <2>3 DEF ClaimInv
    <3>2. claim[v] \in Row
      BY <2>3 DEF TypeOK
    <3>3. CASE OwnsLease(outbox[item[w].id], item[w]) /\ claim[v].id = claim[w].id
      <4>1. /\ claim[v].attempts = claim[w].attempts
            /\ claim[v].processedAt = claim[w].processedAt
            /\ claim[v].status = claim[w].status
        BY <1>1, <2>2, <2>3, <3>1, <3>3 DEF OwnsLease, ClaimInv
      <4>2. claim[v] = claim[w]
        BY <1>1, <3>2, <3>3, <4>1 DEF Row
      <4>3. QED
        BY <1>1, <1>2, <2>3, <4>2 DEF LeaseInv, ClaimTokensDistinct
    <3>4. CASE ~OwnsLease(outbox[item[w].id], item[w])
      BY <3>1, <3>4 DEF Finalize
    <3>5. CASE claim[v].id # claim[w].id
      BY <1>1, <3>1, <3>2, <3>5 DEF Finalize, TypeOK, Row
    <3>6. QED
      BY <3>3, <3>4, <3>5
  <2>4. QED
    BY <2>1, <2>2, <2>3 DEF ClaimInv, LeaseActive, Delivering
<1>3. ClaimInv(w)'
  BY DEF ClaimInv, Finalize, TypeOK, Delivering
<1>4. ClaimTokensDistinct'
  BY DEF Finalize, LeaseInv, ClaimTokensDistinct, TypeOK
<1>5. QED
  BY <1>2, <1>3, <1>4 DEF LeaseInv

\* Steps that move neither a row nor a claim, nor the clock.
LEMMA QuietStep ==
  ASSUME LeaseInv, UNCHANGED <<outbox, pc, claim, item, clock>>
  PROVE  LeaseInv'
BY DEF LeaseInv, ClaimInv, ClaimTokensDistinct, LeaseActive, Delivering

\* LeaseInv is inductive when a worker reads its claim back in time.
LEMMA LeaseInvStep ==
  ASSUME ~PauseAfterClaim, TypeOK, LeaseInv, [Next]_vars
  PROVE  LeaseInv'
<1>1. ASSUME NEW e \in Events, EmitEvent(e) PROVE LeaseInv'
  <2>1. ASSUME NEW v \in Workers, pc[v] # "idle", LeaseActive(claim[v])
        PROVE  outbox'[claim[v].id] = outbox[claim[v].id]
    <3>1. outbox[claim[v].id].status = "Pending"
      BY <2>1 DEF LeaseInv, ClaimInv
    <3>2. claim[v].id # e /\ claim[v].id \in Events
      BY <1>1, <2>1, <3>1 DEF EmitEvent, TypeOK, Row
    <3>3. QED
      BY <1>1, <3>2 DEF EmitEvent, TypeOK
  <2>2. QED
    BY <1>1, <2>1
    DEF EmitEvent, LeaseInv, ClaimInv, ClaimTokensDistinct, LeaseActive, Delivering,
        workerVars
<1>2. ASSUME NEW w \in Workers, Scan(w) PROVE LeaseInv'
  BY <1>2, QuietStep DEF Scan
<1>3. ASSUME NEW w \in Workers, NEW s \in batch[w], Claim(w, s) PROVE LeaseInv'
  <2>1. s \in Row /\ s.id \in Events /\ Claimable(s)
    BY <1>3 DEF Claim, TypeOK, Row
  <2>2. /\ ClaimedRow(s).id = s.id
        /\ ClaimedRow(s).status = "Pending"
        /\ ClaimedRow(s).processedAt = clock
    BY DEF ClaimedRow
  <2>3. ASSUME NEW v \in Workers, v # w PROVE ClaimInv(v)'
    <3>1. ClaimInv(v) /\ (pc[v] # "idle" /\ LeaseActive(claim[v]) => claim[v].id # s.id)
      BY <2>1, FreshToken DEF LeaseInv
    <3>2. pc[v] # "idle" => claim[v].id \in Events
      BY DEF TypeOK, Row
    <3>3. QED
      BY <1>3, <2>1, <2>3, <3>1, <3>2
      DEF Claim, ClaimInv, LeaseActive, Delivering, TypeOK
  <2>4. ClaimInv(w)'
    <3>1. /\ claim'[w] = ClaimedRow(s)
          /\ outbox'[s.id] = ClaimedRow(s)
          /\ pc'[w] = "claimed"
          /\ clock' = clock
          /\ clock \in Nat /\ Lease \in Nat \ {0}
      BY <1>3, <2>1 DEF Claim, TypeOK
    <3>2. QED
      BY <2>2, <3>1 DEF ClaimInv, LeaseActive, Delivering, NoStamp
  <2>5. ClaimTokensDistinct'
    <3>1. ASSUME NEW v \in Workers, v # w, pc'[v] # "idle"
          PROVE  claim'[v] = claim[v] /\ claim'[v] # ClaimedRow(s)
      BY <1>3, <2>1, <3>1, FreshToken DEF Claim, TypeOK
    <3>2. claim'[w] = ClaimedRow(s)
      BY <1>3 DEF Claim, TypeOK
    <3>3. ASSUME NEW v \in Workers, NEW u \in Workers, v # u,
                 pc'[v] # "idle", pc'[u] # "idle"
          PROVE  claim'[v] # claim'[u]
      <4>1. CASE v # w /\ u # w
        <5>1. /\ pc[v] # "idle" /\ pc[u] # "idle"
              /\ claim'[v] = claim[v] /\ claim'[u] = claim[u]
          BY <1>3, <3>3, <4>1 DEF Claim, TypeOK
        <5>2. QED
          BY <3>3, <5>1 DEF LeaseInv, ClaimTokensDistinct
      <4>2. QED
        BY <3>1, <3>2, <3>3, <4>1
    <3>4. QED
      BY <3>3 DEF ClaimTokensDistinct
  <2>6. QED
    BY <2>3, <2>4, <2>5 DEF LeaseInv
<1>4. ASSUME NEW w \in Workers, NEW s \in batch[w], PassOver(w, s) PROVE LeaseInv'
  BY <1>4, QuietStep DEF PassOver
<1>5. ASSUME NEW w \in Workers, ReadBack(w) PROVE LeaseInv'
  <2>1. outbox[claim[w].id] = claim[w]
    BY <1>5 DEF ReadBack, LeaseInv, ClaimInv
  <2>2. QED
    BY <1>5, <2>1
    DEF ReadBack, LeaseInv, ClaimInv, ClaimTokensDistinct, LeaseActive, Delivering, TypeOK
<1>6. ASSUME NEW w \in Workers, Post(w) PROVE LeaseInv'
  BY <1>6
  DEF Post, LeaseInv, ClaimInv, ClaimTokensDistinct, LeaseActive, Delivering, TypeOK
<1>7. ASSUME NEW w \in Workers,
             FinalizeSkipped(w) \/ FinalizeDelivered(w) \/ FinalizeFailed(w)
      PROVE  LeaseInv'
  <2>1. Delivering(w) /\ clock \in Stamps /\ NoStamp \in Stamps
    BY <1>7 DEF FinalizeSkipped, FinalizeDelivered, FinalizeFailed, Delivering, TypeOK, Stamps
  <2>2. QED
    BY <1>7, <2>1, FinalizeKeepsClaims
    DEF FinalizeSkipped, FinalizeDelivered, FinalizeFailed, Statuses
<1>8. ASSUME NEW w \in Workers, Crash(w) PROVE LeaseInv'
  BY <1>8
  DEF Crash, LeaseInv, ClaimInv, ClaimTokensDistinct, LeaseActive, Delivering, TypeOK
<1>9. ASSUME NEW e \in Events, RetryRead(e) PROVE LeaseInv'
  BY <1>9, QuietStep DEF RetryRead, workerVars
<1>10. CASE RetryApply
  <2>1. CASE ~Requeueable(outbox[seen.id])
    BY <1>10, <2>1, QuietStep DEF RetryApply, workerVars
  <2>2. CASE Requeueable(outbox[seen.id])
    <3>1. ASSUME NEW v \in Workers, pc[v] # "idle", LeaseActive(claim[v])
          PROVE  outbox'[claim[v].id] = outbox[claim[v].id]
      <4>1. outbox[claim[v].id] = claim[v] /\ claim[v].status = "Pending"
        BY <3>1 DEF LeaseInv, ClaimInv
      <4>2. claim[v].id # seen.id
        BY <2>2, <3>1, <4>1 DEF Requeueable
      <4>3. claim[v].id \in Events
        BY <3>1 DEF TypeOK, Row
      <4>4. QED
        BY <1>10, <2>2, <4>2, <4>3 DEF RetryApply, TypeOK
    <3>2. QED
      BY <1>10, <3>1
      DEF RetryApply, LeaseInv, ClaimInv, ClaimTokensDistinct, LeaseActive, Delivering,
          workerVars
  <2>3. QED
    BY <2>1, <2>2
<1>11. ASSUME NEW e \in Events, ReadAlert(e) PROVE LeaseInv'
  BY <1>11, QuietStep DEF ReadAlert, workerVars
<1>12. CASE Tick
  <2>1. clock \in Nat /\ clock' = clock + 1 /\ Lease \in Nat
    BY <1>12 DEF Tick, TypeOK
  <2>2. ASSUME NEW v \in Workers PROVE ClaimInv(v)'
    BY <1>12, <2>1 DEF Tick, LeaseInv, ClaimInv, LeaseActive, Delivering, workerVars, NoStamp
  <2>3. QED
    BY <1>12, <2>2 DEF Tick, LeaseInv, ClaimTokensDistinct, workerVars
<1>13. CASE UNCHANGED vars
  BY <1>13, QuietStep DEF vars
<1>14. QED
  BY <1>1, <1>2, <1>3, <1>4, <1>5, <1>6, <1>7, <1>8, <1>9, <1>10, <1>11, <1>12, <1>13
  DEF Next, WorkerStep

LEMMA LeaseInvariant ==
  ASSUME ~PauseAfterClaim
  PROVE  Spec => []LeaseInv
<1>1. Init => LeaseInv
  BY DEF Init, LeaseInv, ClaimInv, ClaimTokensDistinct, Delivering
<1>2. TypeOK /\ LeaseInv /\ [Next]_vars => LeaseInv'
  BY LeaseInvStep
<1>3. QED
  BY <1>1, <1>2, TypeCorrect, PTL DEF Spec

(* As long as a worker's lease is active, no peer and no operator changes   *)
(* the row it is delivering.                                                *)
THEOREM LeaseSafety ==
  ASSUME ~PauseAfterClaim
  PROVE  Spec => []ActiveLeaseUndisturbed
<1>1. LeaseInv => ActiveLeaseUndisturbed
  BY DEF LeaseInv, ClaimInv, ActiveLeaseUndisturbed
<1>2. QED
  BY <1>1, LeaseInvariant, PTL

(* (attempts, processed_at) identifies one outstanding claim, in spite of   *)
(* operator resets of attempts and one-second stamps.                       *)
THEOREM TokensIdentifyClaims ==
  ASSUME ~PauseAfterClaim
  PROVE  Spec => []ClaimTokensDistinct
<1>1. LeaseInv => ClaimTokensDistinct
  BY DEF LeaseInv
<1>2. QED
  BY <1>1, LeaseInvariant, PTL

(* A worker records its outcome on the generation and lease its own claim   *)
(* wrote, or not at all.                                                    *)
THEOREM Fencing ==
  ASSUME ~PauseAfterClaim
  PROVE  Spec => FencedFinalization
<1>1. TypeOK /\ LeaseInv /\ [Next]_vars =>
        [\A w \in Workers :
           (Delivering(w) /\ ~Delivering(w)' /\ outbox' # outbox) =>
             outbox[claim[w].id] = claim[w]]_vars
  <2> SUFFICES ASSUME TypeOK, LeaseInv, Next, NEW w \in Workers,
                      Delivering(w), ~Delivering(w)', outbox' # outbox
               PROVE  outbox[claim[w].id] = claim[w]
    OBVIOUS
  <2>1. PICK v \in Workers :
          FinalizeSkipped(v) \/ FinalizeDelivered(v) \/ FinalizeFailed(v)
    BY DEF Next, WorkerStep, EmitEvent, RetryRead, ReadAlert, Scan, Claim, PassOver,
           ReadBack, Post, Crash, RetryApply, Tick, Delivering, workerVars, TypeOK
  <2>2. v = w
    BY <2>1 DEF FinalizeSkipped, FinalizeDelivered, FinalizeFailed, Finalize, Delivering, TypeOK
  <2>3. OwnsLease(outbox[claim[w].id], claim[w])
    BY <2>1, <2>2
    DEF FinalizeSkipped, FinalizeDelivered, FinalizeFailed, Finalize, LeaseInv, ClaimInv
  <2>4. /\ claim[w] \in Row
        /\ claim[w].status = "Pending"
        /\ outbox[claim[w].id] \in Row
        /\ outbox[claim[w].id].id = claim[w].id
    BY DEF TypeOK, LeaseInv, ClaimInv, Delivering, Row
  <2>5. QED
    BY <2>3, <2>4 DEF OwnsLease, Row
<1>2. QED
  BY <1>1, LeaseInvariant, TypeCorrect, PTL DEF Spec, FencedFinalization

-----------------------------------------------------------------------------
\* Delivery, with no assumption on how long a worker may pause.

(* What a sender knows once the receiver has answered, and that a claimed   *)
(* row stays committed.                                                     *)
ReceiptInv ==
  /\ \A w \in Workers : pc[w] = "accepted" => claim[w].id \in received
  /\ DeliveredWasReceived
  /\ \A w \in Workers : pc[w] # "idle" => outbox[claim[w].id].status # "Absent"

LEMMA ReceiptInvStep ==
  ASSUME TypeOK, ReceiptInv, [Next]_vars
  PROVE  ReceiptInv'
<1> USE DEF ReceiptInv, DeliveredWasReceived
<1>0. \A w \in Workers : pc[w] # "idle" => claim[w].id \in Events
  BY DEF TypeOK, Row
<1>1. ASSUME NEW e \in Events, EmitEvent(e) PROVE ReceiptInv'
  BY <1>0, <1>1 DEF EmitEvent, TypeOK, workerVars
<1>2. ASSUME NEW w \in Workers, NEW s \in batch[w], Claim(w, s) PROVE ReceiptInv'
  <2>1. /\ s.id \in Events
        /\ ClaimedRow(s).id = s.id
        /\ ClaimedRow(s).status = "Pending"
    BY <1>2 DEF Claim, TypeOK, Row, ClaimedRow
  <2>2. QED
    BY <1>0, <1>2, <2>1 DEF Claim, TypeOK
<1>3. ASSUME NEW w \in Workers, ReadBack(w) PROVE ReceiptInv'
  BY <1>3 DEF ReadBack, TypeOK
<1>4. ASSUME NEW w \in Workers, Post(w) PROVE ReceiptInv'
  <2>1. item[w].id = claim[w].id
    BY <1>4 DEF Post, TypeOK, Delivering
  <2>2. QED
    BY <1>4, <2>1 DEF Post, TypeOK
<1>5. ASSUME NEW w \in Workers,
             FinalizeSkipped(w) \/ FinalizeDelivered(w) \/ FinalizeFailed(w)
      PROVE  ReceiptInv'
  <2>1. /\ Delivering(w) /\ pc[w] # "idle"
        /\ item[w].id = claim[w].id /\ claim[w].id \in Events
    BY <1>0, <1>5 DEF FinalizeSkipped, FinalizeDelivered, FinalizeFailed, Delivering, TypeOK
  <2>2. PICK st \in {"Skipped", "Delivered", "Failed"}, t \in Stamps :
           /\ Finalize(w, st, t)
           /\ st = "Delivered" => pc[w] = "accepted"
    BY <1>5 DEF FinalizeSkipped, FinalizeDelivered, FinalizeFailed, TypeOK, Stamps
  <2>3. QED
    BY <1>0, <2>1, <2>2 DEF Finalize, TypeOK
<1>6. ASSUME NEW w \in Workers, Crash(w) PROVE ReceiptInv'
  BY <1>6 DEF Crash, TypeOK
<1>7. CASE RetryApply
  <2>1. seen.id \in Events
    BY <1>7 DEF RetryApply, TypeOK, Row
  <2>2. RequeuedRow(outbox[seen.id]).status = "Pending"
    BY DEF RequeuedRow
  <2>3. QED
    BY <1>0, <1>7, <2>1, <2>2 DEF RetryApply, TypeOK, workerVars
<1>8. CASE \/ \E e \in Events : RetryRead(e) \/ ReadAlert(e)
           \/ \E w \in Workers :
                Scan(w) \/ \E s \in batch[w] : PassOver(w, s)
           \/ Tick
           \/ UNCHANGED vars
  BY <1>8 DEF RetryRead, ReadAlert, Scan, PassOver, Tick, vars, workerVars
<1>9. QED
  BY <1>1, <1>2, <1>3, <1>4, <1>5, <1>6, <1>7, <1>8 DEF Next, WorkerStep

LEMMA ReceiptInvariant == Spec => []ReceiptInv
<1>1. Init => ReceiptInv
  BY DEF Init, ReceiptInv, DeliveredWasReceived, NoRow, Events
<1>2. QED
  BY <1>1, ReceiptInvStep, TypeCorrect, PTL DEF Spec

(* An event recorded as Delivered has been accepted by the receiver.        *)
THEOREM DeliveredMeansReceived == Spec => []DeliveredWasReceived
<1>1. ReceiptInv => DeliveredWasReceived
  BY DEF ReceiptInv
<1>2. QED
  BY <1>1, ReceiptInvariant, PTL

-----------------------------------------------------------------------------
\* Refinement of EventDelivery.

mappedPhase == [e \in Events |-> Phase(outbox[e])]

(* A step that touches one row moves the abstract phase of that event alone. *)
LEMMA OneRowStep ==
  ASSUME NEW e \in Events, \A f \in Events \ {e} : outbox'[f] = outbox[f]
  PROVE  mappedPhase' = [mappedPhase EXCEPT ![e] = mappedPhase'[e]]
<1>1. ASSUME NEW f \in Events, f # e PROVE mappedPhase'[f] = mappedPhase[f]
  BY <1>1 DEF mappedPhase, Phase, Exhausted
<1>2. QED
  BY <1>1 DEF mappedPhase

\* The phases of a row before and after a step.
LEMMA PhaseOf ==
  ASSUME NEW e \in Events
  PROVE  /\ mappedPhase[e] = Phase(outbox[e])
         /\ mappedPhase'[e] = Phase(outbox'[e])
BY DEF mappedPhase, Phase, Exhausted

\* A step that leaves every phase, the receiver and the alerts alone.
LEMMA DeliveryStutter ==
  ASSUME mappedPhase' = mappedPhase, UNCHANGED <<received, alerted>>
  PROVE  UNCHANGED Delivery!vars
BY DEF Delivery!vars, mappedPhase

LEMMA RefinementStep ==
  ASSUME TypeOK, ReceiptInv, [Next]_vars
  PROVE  [Delivery!Next]_(Delivery!vars)
<1> USE DEF Delivery!Events
<1>1. ASSUME NEW e \in Events, EmitEvent(e) PROVE Delivery!Commit(e)
  <2>1. outbox'[e] = [outbox[e] EXCEPT !.status = "Pending"]
    BY <1>1 DEF EmitEvent, TypeOK
  <2>2. mappedPhase[e] = "absent" /\ mappedPhase'[e] = "open"
    BY <1>1, <2>1, PhaseOf DEF EmitEvent, Phase, TypeOK, Row
  <2>3. mappedPhase' = [mappedPhase EXCEPT ![e] = mappedPhase'[e]]
    BY <1>1, OneRowStep DEF EmitEvent, TypeOK
  <2>4. QED
    BY <1>1, <2>2, <2>3 DEF Delivery!Commit, mappedPhase, EmitEvent
<1>2. ASSUME NEW w \in Workers, NEW s \in batch[w], Claim(w, s)
      PROVE  UNCHANGED Delivery!vars
  <2>1. s.id \in Events /\ outbox'[s.id] = ClaimedRow(s)
    BY <1>2 DEF Claim, TypeOK, Row
  <2>2. mappedPhase[s.id] = "open"
    BY <1>2, <2>1, PhaseOf
    DEF Claim, Claimable, ClaimMatches, Phase, Exhausted, TypeOK, Row
  <2>3. mappedPhase'[s.id] = "open"
    BY <2>1, PhaseOf DEF ClaimedRow, Phase
  <2>4. mappedPhase' = [mappedPhase EXCEPT ![s.id] = mappedPhase'[s.id]]
    BY <1>2, <2>1, OneRowStep DEF Claim, TypeOK
  <2>5. mappedPhase' = mappedPhase
    BY <2>1, <2>2, <2>3, <2>4 DEF mappedPhase
  <2>6. QED
    BY <1>2, <2>5, DeliveryStutter DEF Claim
<1>3. ASSUME NEW w \in Workers, Post(w) PROVE [Delivery!Next]_(Delivery!vars)
  <2>1. /\ item[w].id = claim[w].id /\ claim[w].id \in Events
        /\ outbox[claim[w].id].status # "Absent"
        /\ outbox' = outbox
    BY <1>3 DEF Post, TypeOK, Delivering, Row, ReceiptInv
  <2>2. mappedPhase' = mappedPhase
    BY <2>1 DEF mappedPhase, Phase, Exhausted
  <2>3. CASE received' = received
    BY <1>3, <2>2, <2>3, DeliveryStutter DEF Post
  <2>4. CASE received' = received \union {item[w].id}
    <3>1. PICK e \in Events : e = claim[w].id
      BY <2>1
    <3>2. mappedPhase[e] # "absent"
      BY <2>1, <3>1, PhaseOf DEF Phase
    <3>3. Delivery!Receive(e)
      BY <1>3, <2>1, <2>2, <2>4, <3>1, <3>2 DEF Delivery!Receive, mappedPhase, Post
    <3>4. QED
      BY <3>3 DEF Delivery!Next, Events
  <2>5. QED
    BY <1>3, <2>3, <2>4 DEF Post
<1>4. ASSUME NEW w \in Workers,
             FinalizeSkipped(w) \/ FinalizeDelivered(w) \/ FinalizeFailed(w)
      PROVE  [Delivery!Next]_(Delivery!vars)
  <2>0. PICK e \in Events : e = claim[w].id
    BY <1>4
    DEF FinalizeSkipped, FinalizeDelivered, FinalizeFailed, TypeOK, Row
  <2>1. /\ Delivering(w) /\ pc[w] # "idle"
        /\ item[w].id = e /\ e \in Events /\ item[w] \in Row /\ outbox[e] \in Row
    BY <1>4, <2>0 DEF FinalizeSkipped, FinalizeDelivered, FinalizeFailed, Delivering, TypeOK, Row
  <2>2. CASE ~OwnsLease(outbox[e], item[w])
    <3>1. outbox' = outbox /\ received' = received /\ alerted' = alerted
      BY <1>4, <2>1, <2>2 DEF FinalizeSkipped, FinalizeDelivered, FinalizeFailed, Finalize
    <3>2. mappedPhase' = mappedPhase
      BY <3>1 DEF mappedPhase, Phase, Exhausted
    <3>3. QED
      BY <3>1, <3>2, DeliveryStutter
  <2>3. CASE OwnsLease(outbox[e], item[w])
    <3>1. /\ mappedPhase[e] = "open"
          /\ outbox[e].attempts = item[w].attempts
      BY <2>1, <2>3, PhaseOf DEF OwnsLease, Phase
    <3>2. /\ received' = received
          /\ \A f \in Events \ {e} : outbox'[f] = outbox[f]
      BY <1>4, <2>1 DEF FinalizeSkipped, FinalizeDelivered, FinalizeFailed, Finalize, TypeOK
    <3>3. mappedPhase' = [mappedPhase EXCEPT ![e] = mappedPhase'[e]]
      BY <2>1, <3>2, OneRowStep
    <3>4. CASE FinalizeSkipped(w)
      <4>1. outbox'[e].status = "Skipped" /\ alerted' = alerted
        BY <2>1, <2>3, <3>4 DEF FinalizeSkipped, Finalize, TypeOK, Row
      <4>2. mappedPhase'[e] = "skipped"
        BY <2>1, <4>1, PhaseOf DEF Phase
      <4>3. Delivery!Skip(e)
        BY <3>1, <3>2, <3>3, <4>1, <4>2 DEF Delivery!Skip, mappedPhase
      <4>4. QED
        BY <2>1, <4>3 DEF Delivery!Next, Events
    <3>5. CASE FinalizeDelivered(w)
      <4>1. outbox'[e].status = "Delivered" /\ alerted' = alerted
        BY <2>1, <2>3, <3>5 DEF FinalizeDelivered, Finalize, TypeOK, Row
      <4>2. mappedPhase'[e] = "delivered"
        BY <2>1, <4>1, PhaseOf DEF Phase
      <4>3. e \in received
        BY <2>0, <3>5 DEF FinalizeDelivered, ReceiptInv
      <4>4. Delivery!Deliver(e)
        BY <3>1, <3>2, <3>3, <4>1, <4>2, <4>3 DEF Delivery!Deliver, mappedPhase
      <4>5. QED
        BY <2>1, <4>4 DEF Delivery!Next, Events
    <3>6. CASE FinalizeFailed(w)
      <4>1. outbox'[e].status = "Failed" /\ outbox'[e].attempts = outbox[e].attempts
        BY <2>1, <2>3, <3>6 DEF FinalizeFailed, Finalize, TypeOK, Row
      <4>2. CASE Exhausted(item[w])
        <5>1. mappedPhase'[e] = "poisoned" /\ alerted' = alerted \union {e}
          BY <2>1, <2>3, <3>1, <3>6, <4>1, <4>2, PhaseOf DEF Phase, Exhausted, FinalizeFailed
        <5>2. Delivery!Poison(e)
          BY <3>1, <3>2, <3>3, <5>1 DEF Delivery!Poison, mappedPhase
        <5>3. QED
          BY <2>1, <5>2 DEF Delivery!Next, Events
      <4>3. CASE ~Exhausted(item[w])
        <5>1. mappedPhase'[e] = "open" /\ alerted' = alerted
          BY <2>1, <3>1, <3>6, <4>1, <4>3, PhaseOf DEF Phase, Exhausted, FinalizeFailed
        <5>2. mappedPhase' = mappedPhase
          BY <2>1, <3>1, <3>3, <5>1 DEF mappedPhase
        <5>3. QED
          BY <3>2, <5>1, <5>2, DeliveryStutter
      <4>4. QED
        BY <4>2, <4>3
    <3>7. QED
      BY <1>4, <3>4, <3>5, <3>6
  <2>4. QED
    BY <2>2, <2>3
<1>5. CASE RetryApply
  <2>0. PICK e \in Events : e = seen.id
    BY <1>5 DEF RetryApply, TypeOK, Row
  <2>1. received' = received /\ alerted' = alerted
    BY <1>5 DEF RetryApply
  <2>2. CASE ~Requeueable(outbox[e])
    <3>1. mappedPhase' = mappedPhase
      BY <1>5, <2>0, <2>2 DEF RetryApply, mappedPhase, Phase, Exhausted
    <3>2. QED
      BY <2>1, <3>1, DeliveryStutter
  <2>3. CASE Requeueable(outbox[e])
    <3>1. /\ outbox'[e] = RequeuedRow(outbox[e])
          /\ \A f \in Events \ {e} : outbox'[f] = outbox[f]
      BY <1>5, <2>0, <2>3 DEF RetryApply, TypeOK
    <3>2. mappedPhase' = [mappedPhase EXCEPT ![e] = mappedPhase'[e]]
      BY <2>1, <3>1, OneRowStep
    <3>3. mappedPhase'[e] = "open"
      BY <2>1, <3>1, PhaseOf DEF RequeuedRow, Phase
    <3>4. mappedPhase[e] \in {"absent", "open", "skipped", "poisoned"}
      BY <2>1, <2>3, PhaseOf DEF Requeueable, Phase
    <3>5. CASE mappedPhase[e] = "absent"
      <4>1. Delivery!Commit(e)
        BY <2>1, <3>2, <3>3, <3>5 DEF Delivery!Commit, mappedPhase
      <4>2. QED
        BY <2>1, <4>1 DEF Delivery!Next, Events
    <3>6. CASE mappedPhase[e] \in {"skipped", "poisoned"}
      <4>1. Delivery!Requeue(e)
        BY <2>1, <3>2, <3>3, <3>6 DEF Delivery!Requeue, mappedPhase
      <4>2. QED
        BY <2>1, <4>1 DEF Delivery!Next, Events
    <3>7. CASE mappedPhase[e] = "open"
      <4>1. mappedPhase' = mappedPhase
        BY <2>1, <3>2, <3>3, <3>7 DEF mappedPhase
      <4>2. QED
        BY <2>1, <4>1, DeliveryStutter
    <3>8. QED
      BY <3>4, <3>5, <3>6, <3>7
  <2>4. QED
    BY <2>2, <2>3
<1>6. ASSUME NEW e \in Events, ReadAlert(e) PROVE Delivery!ReadAlert(e)
  <2>1. mappedPhase' = mappedPhase
    BY <1>6 DEF ReadAlert, mappedPhase, Phase, Exhausted
  <2>2. QED
    BY <1>6, <2>1 DEF Delivery!ReadAlert, ReadAlert, mappedPhase
<1>7. CASE \/ \E e \in Events : RetryRead(e)
           \/ \E w \in Workers :
                \/ Scan(w) \/ ReadBack(w) \/ Crash(w)
                \/ \E s \in batch[w] : PassOver(w, s)
           \/ Tick
           \/ UNCHANGED vars
  <2>1. UNCHANGED <<outbox, received, alerted>>
    BY <1>7 DEF RetryRead, Scan, ReadBack, Crash, PassOver, Tick, vars
  <2>2. mappedPhase' = mappedPhase
    BY <2>1 DEF mappedPhase, Phase, Exhausted
  <2>3. QED
    BY <2>1, <2>2, DeliveryStutter
<1>8. QED
  BY <1>1, <1>2, <1>3, <1>4, <1>5, <1>6, <1>7 DEF Next, WorkerStep, Delivery!Next, Events

(* The outbox implements EventDelivery: whatever the interleaving of        *)
(* workers, operators, crashes and pauses, an event is delivered only after *)
(* the receiver had it, stays delivered, and is poisoned only together with *)
(* an alert.                                                                *)
THEOREM Refinement == Spec => ImplementsDelivery
<1>1. Init => Delivery!Init
  BY DEF Init, Delivery!Init, Delivery!Events, Events, Phase, NoRow
<1>2. TypeOK /\ ReceiptInv /\ [Next]_vars => [Delivery!Next]_(Delivery!vars)
  BY RefinementStep
<1>3. QED
  BY <1>1, <1>2, TypeCorrect, ReceiptInvariant, PTL
  DEF Spec, ImplementsDelivery, Delivery!Spec

-----------------------------------------------------------------------------
\* The operator's gauges and budgets.

LEMMA EventsFinite == \A S \in SUBSET Events : IsFiniteSet(S)
<1>1. IsFiniteSet(Events)
  BY FS_Interval DEF Events
<1>2. QED
  BY <1>1, FS_Subset

\* Three finite sets no two of which meet.
LEMMA ThreeParts ==
  ASSUME NEW A, NEW B, NEW C, IsFiniteSet(A), IsFiniteSet(B), IsFiniteSet(C),
         A \intersect B = {}, A \intersect C = {}, B \intersect C = {}
  PROVE  Cardinality(A) + Cardinality(B) + Cardinality(C) = Cardinality(A \union B \union C)
<1>1. (A \union B) \intersect C = {}
  OBVIOUS
<1>2. /\ IsFiniteSet(A \union B)
      /\ Cardinality(A \union B) = Cardinality(A) + Cardinality(B) - Cardinality({})
  BY FS_Union
<1>3. Cardinality(A \union B \union C)
        = Cardinality(A \union B) + Cardinality(C) - Cardinality({})
  BY <1>1, <1>2, FS_Union
<1>4. Cardinality({}) = 0 /\ Cardinality(A) \in Nat /\ Cardinality(B) \in Nat
      /\ Cardinality(C) \in Nat
  BY FS_EmptySet, FS_CardinalityType
<1>5. QED
  BY <1>2, <1>3, <1>4

(* The gauges partition what the next scan could select, and no unresolved  *)
(* event escapes them (outbox_operational_snapshot).                        *)
THEOREM GaugesTellTheTruth == Spec => []GaugesMatchProcessor
<1>1. ASSUME TypeOK
      PROVE  GaugesMatchProcessor
  <2>1. \A e \in Events : outbox[e] \in Row
    BY <1>1 DEF TypeOK
  <2>2. Queued \union FailedRetryable \union StaleLeases = EligibleEvents
    BY <2>1 DEF Queued, FailedRetryable, StaleLeases, EligibleEvents, Eligible, LeaseActive, Row
  <2>3. /\ Queued \intersect FailedRetryable = {}
        /\ Queued \intersect StaleLeases = {}
        /\ FailedRetryable \intersect StaleLeases = {}
    BY DEF Queued, FailedRetryable, StaleLeases
  <2>4. IsFiniteSet(Queued) /\ IsFiniteSet(FailedRetryable) /\ IsFiniteSet(StaleLeases)
    BY EventsFinite DEF Queued, FailedRetryable, StaleLeases
  <2>5. Cardinality(Queued) + Cardinality(FailedRetryable) + Cardinality(StaleLeases)
          = Cardinality(EligibleEvents)
    BY <2>2, <2>3, <2>4, ThreeParts
  <2>6. Unresolved = EligibleEvents \union ActiveLeases \union ExhaustedEvents
    BY <2>1
    DEF Unresolved, EligibleEvents, ActiveLeases, ExhaustedEvents, Eligible, Exhausted, Row
  <2>7. QED
    BY <2>5, <2>6 DEF GaugesMatchProcessor
<1>2. QED
  BY <1>1, TypeCorrect, PTL

\* Claims and finalisations never lower a generation, nor does anything else
\* but a requeue.
LEMMA OnlyRetryLowersAttempts ==
  ASSUME TypeOK, Next, NEW e \in Events, outbox'[e].attempts < outbox[e].attempts
  PROVE  RetryApply
<1>1. outbox[e] \in Row /\ outbox[e].attempts \in Nat
  BY DEF TypeOK, Row
<1>2. ASSUME NEW f \in Events, EmitEvent(f)
      PROVE  FALSE
  BY <1>1, <1>2 DEF EmitEvent, TypeOK
<1>3. ASSUME NEW w \in Workers, NEW s \in batch[w], Claim(w, s)
      PROVE  FALSE
  BY <1>1, <1>3 DEF Claim, ClaimedRow, TypeOK
<1>4. ASSUME NEW w \in Workers,
             FinalizeSkipped(w) \/ FinalizeDelivered(w) \/ FinalizeFailed(w)
      PROVE  FALSE
  <2>1. PICK st \in Statuses, t \in Stamps :
          \/ outbox' = outbox
          \/ outbox' = [outbox EXCEPT ![item[w].id].status = st,
                                      ![item[w].id].processedAt = t]
    BY <1>4 DEF FinalizeSkipped, FinalizeDelivered, FinalizeFailed, Finalize,
                Statuses, Stamps, TypeOK
  <2>2. outbox'[e].attempts = outbox[e].attempts
    BY <1>1, <2>1 DEF TypeOK, Row
  <2>3. QED
    BY <1>1, <2>2
<1>5. CASE \/ \E f \in Events : RetryRead(f) \/ ReadAlert(f)
           \/ \E w \in Workers :
                \/ Scan(w) \/ ReadBack(w) \/ Post(w) \/ Crash(w)
                \/ \E s \in batch[w] : PassOver(w, s)
           \/ Tick
  BY <1>1, <1>5 DEF RetryRead, ReadAlert, Scan, ReadBack, Post, Crash, PassOver, Tick
<1>6. QED
  BY <1>2, <1>3, <1>4, <1>5 DEF Next, WorkerStep

(* Attempts are only given back by an operator, to an event whose budget is *)
(* spent and that nobody delivers under a live lease                        *)
(* (retry_outbox_event_atomic).                                             *)
THEOREM BudgetResets ==
  ASSUME ~PauseAfterClaim
  PROVE  Spec => BudgetResetOnlyWhenExhausted
<1> DEFINE Resets == \A e \in Events :
             outbox'[e].attempts < outbox[e].attempts =>
               /\ Exhausted(outbox[e])
               /\ outbox[e].status = "Pending" => ~LeaseActive(outbox[e])
               /\ \A w \in Workers : Holds(w, e) => ~LeaseActive(claim[w])
<1>1. ASSUME TypeOK, LeaseInv, Next, NEW e \in Events,
             outbox'[e].attempts < outbox[e].attempts
      PROVE  /\ Exhausted(outbox[e])
             /\ outbox[e].status = "Pending" => ~LeaseActive(outbox[e])
             /\ \A w \in Workers : Holds(w, e) => ~LeaseActive(claim[w])
  <2>1. RetryApply
    BY <1>1, OnlyRetryLowersAttempts
  <2>2. outbox[e] \in Row /\ outbox[e].attempts \in Nat
    BY <1>1 DEF TypeOK, Row
  <2>3. outbox' # outbox
    BY <1>1, <2>2
  <2>4. /\ seen.id \in Events /\ Requeueable(outbox[seen.id])
        /\ outbox' = [outbox EXCEPT ![seen.id] = RequeuedRow(outbox[seen.id])]
    BY <1>1, <2>1, <2>3 DEF RetryApply, TypeOK, Row
  <2>5. e = seen.id /\ outbox'[e] = RequeuedRow(outbox[e])
    BY <1>1, <2>2, <2>4 DEF TypeOK
  <2>6. Exhausted(outbox[e])
    BY <1>1, <2>2, <2>5 DEF RequeuedRow
  <2>7. outbox[e].status = "Pending" => ~LeaseActive(outbox[e])
    BY <2>4, <2>5 DEF Requeueable
  <2>8. ASSUME NEW w \in Workers, Holds(w, e), LeaseActive(claim[w])
        PROVE  FALSE
    <3>1. outbox[e] = claim[w] /\ claim[w].status = "Pending"
      BY <1>1, <2>8 DEF LeaseInv, ClaimInv, Holds
    <3>2. QED
      BY <2>7, <2>8, <3>1
  <2>9. QED
    BY <2>6, <2>7, <2>8
<1>2. TypeOK /\ LeaseInv /\ [Next]_vars => [Resets]_vars
  BY <1>1
<1>3. Spec => [][Resets]_vars
  BY <1>2, TypeCorrect, LeaseInvariant, PTL DEF Spec
<1>4. QED
  BY <1>3 DEF BudgetResetOnlyWhenExhausted
=============================================================================
