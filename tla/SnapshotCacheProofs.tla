------------------------- MODULE SnapshotCacheProofs -------------------------
(***************************************************************************)
(* What SnapshotCache guarantees for any number of requests and mutations, *)
(* every time to live and every duration of a request.                     *)
(***************************************************************************)
EXTENDS SnapshotCache, TLAPS

USE CacheAssumption DEF CacheAssumption

-----------------------------------------------------------------------------
\* The inductive invariant

Mutations == [at : 0..MaxTime, stamp : 0..(MaxTime + 1)]
Rows == [known : Nat, mark : Nat, calculated : Int]
PCs == {"idle", "check", "compute", "mark", "store"}

Asked == [pc : PCs, since : Int, row : Rows, known : Nat]

CacheType ==
  /\ TypeOK
  /\ stored \in Rows
  /\ request \in [Requests -> Asked]

\* No stamp ran ahead of the clock.
Punctual == \A j \in DOMAIN changes : changes[j].stamp <= changes[j].at

\* A mutation is committed when the clock says so, and counts in the watermark.
ChangesInv ==
  /\ \A k \in DOMAIN changes : changes[k].at <= clock /\ changes[k].stamp <= watermark
  /\ Punctual => watermark <= clock

\* A payload contains what was committed a request before it was calculated,
\* and its mark is no later than it.
Sound(row) ==
  /\ row.calculated <= clock
  /\ \A k \in DOMAIN changes : changes[k].at + Longest < row.calculated => k <= row.known
  /\ Punctual => row.mark <= row.calculated

\* A payload contains what was committed before its request arrived.
KnownSince(known, since) == \A k \in DOMAIN changes : changes[k].at < since => k <= known

RequestInv(q) ==
  /\ q.pc # "idle" => q.since <= clock /\ clock <= q.since + Longest
  /\ q.pc = "check" => Sound(q.row) /\ q.since - q.row.calculated <= Ttl
  /\ q.pc = "mark" => KnownSince(q.known, q.since)
  /\ q.pc = "store" => Sound(q.row) /\ KnownSince(q.row.known, q.since)

IInv ==
  /\ CacheType
  /\ ChangesInv
  /\ stored.calculated >= 0 => Sound(stored)
  /\ \A r \in Requests : RequestInv(request[r])
  /\ SnapshotsAreRecent

-----------------------------------------------------------------------------
\* What a step does to what the invariant is about

LEMMA InitHolds == Init => IInv
<1> SUFFICES ASSUME Init
             PROVE  IInv
  OBVIOUS
<1>1. CacheType
  <2>1. NoRow \in Rows /\ {"idle"} \subseteq PCs
    BY DEF NoRow, Rows, PCs
  <2>2. Idle \in Asked /\ Idle.pc = "idle"
    BY <2>1 DEF Idle, Asked
  <2>3. changes \in Seq([at : 0..MaxTime, stamp : 0..(MaxTime + 1)]) /\ Len(changes) = 0
    BY DEF Init
  <2>4. QED
    BY <2>1, <2>2, <2>3 DEF Init, CacheType, TypeOK
<1>2. ChangesInv
  BY DEF Init, ChangesInv, Punctual
<1>3. /\ stored.calculated >= 0 => Sound(stored)
      /\ \A r \in Requests : RequestInv(request[r])
  BY DEF Init, NoRow, Idle, RequestInv
<1>4. SnapshotsAreRecent
  BY DEF Init, SnapshotsAreRecent, Recent, NoTrackedChangeMissed, NoAnswer
<1>5. QED
  BY <1>1, <1>2, <1>3, <1>4 DEF IInv

\* Types of the instants and stamps of a log.
LEMMA MutationTypes ==
  ASSUME NEW log \in Seq(Mutations)
  PROVE  /\ DOMAIN log = 1..Len(log) /\ Len(log) \in Nat
         /\ \A k \in DOMAIN log : log[k].at \in Nat /\ log[k].stamp \in Nat
<1>1. DOMAIN log = 1..Len(log) /\ Len(log) \in Nat
  OBVIOUS
<1>2. \A k \in DOMAIN log : log[k] \in Mutations
  BY <1>1
<1>3. QED
  BY <1>1, <1>2 DEF Mutations

\* Types of the committed mutations.
LEMMA ChangesTypes ==
  ASSUME CacheType
  PROVE  /\ changes \in Seq(Mutations)
         /\ DOMAIN changes = 1..Len(changes) /\ Len(changes) \in Nat
         /\ \A k \in DOMAIN changes : changes[k].at \in Nat /\ changes[k].stamp \in Nat
<1>1. changes \in Seq(Mutations)
  BY DEF CacheType, TypeOK, Mutations
<1>2. QED
  BY <1>1, MutationTypes

\* A step that gives no answer misses nothing.
LEMMA SilentIsRecent ==
  ASSUME CacheType', answer' = NoAnswer
  PROVE  SnapshotsAreRecent'
<1> DEFINE log == changes'
<1>0. log \in Seq(Mutations)
  BY DEF CacheType, TypeOK, Mutations
<1>1. \A k \in DOMAIN log : log[k].at \in Nat
  <2> HIDE DEF log
  <2>1. QED
    BY <1>0, MutationTypes
<1>2. Recent'
  BY <1>1 DEF Recent, NoAnswer
<1>3. NoTrackedChangeMissed'
  BY DEF NoTrackedChangeMissed, NoAnswer
<1>4. QED
  BY <1>2, <1>3 DEF SnapshotsAreRecent

\* An answer is as recent as the payload it gives.
LEMMA AnswerIsRecent ==
  ASSUME CacheType, NEW known \in Nat, NEW calculated \in Int,
         UNCHANGED <<clock, changes>>,
         answer' = [at |-> clock, known |-> known, seen |-> Len(changes), calculated |-> calculated],
         \A k \in DOMAIN changes : changes[k].at + Ttl + 2 * Longest < clock => k <= known,
         Punctual => \A k \in DOMAIN changes :
           changes[k].stamp = changes[k].at /\ changes[k].at > calculated => k <= known
  PROVE  SnapshotsAreRecent'
<1>1. Recent'
  BY DEF Recent
<1>2. DOMAIN changes = 1..Len(changes)
  BY DEF CacheType, TypeOK
<1>3. NoTrackedChangeMissed'
  BY <1>2 DEF NoTrackedChangeMissed, Punctual
<1>4. QED
  BY <1>1, <1>3 DEF SnapshotsAreRecent

\* What is said of rows and requests stays true while time passes.
LEMMA TimeKeepsSound ==
  ASSUME CacheType, clock' >= clock, clock' \in Int, changes' = changes,
         NEW row \in Rows, Sound(row)
  PROVE  Sound(row)'
BY DEF Sound, Punctual, CacheType, TypeOK, Rows

\* What is said of a request stays true of it when it is left alone.
LEMMA TimeKeepsRequests ==
  ASSUME CacheType, clock' >= clock, clock' \in Int, changes' = changes,
         NEW r \in Requests, RequestInv(request[r]), request'[r] = request[r],
         request[r].pc # "idle" => clock' <= request[r].since + Longest
  PROVE  RequestInv(request[r])'
<1>1. request[r] \in Asked /\ request[r].row \in Rows /\ request[r].since \in Int
  BY DEF CacheType, Asked
<1>2. Sound(request[r].row) => Sound(request[r].row)'
  BY <1>1, TimeKeepsSound
<1>3. clock \in Int
  BY DEF CacheType, TypeOK
<1>4. QED
  BY <1>1, <1>2, <1>3 DEF RequestInv, KnownSince

-----------------------------------------------------------------------------
\* Each action keeps the invariant

\* Time passes, but within what a request may take.
LEMMA TickKeeps == ASSUME IInv, Tick PROVE IInv'
<1>1. CacheType'
  BY DEF IInv, CacheType, TypeOK, Tick
<1>2. clock \in Nat /\ clock' = clock + 1 /\ changes' = changes
  BY DEF IInv, CacheType, TypeOK, Tick
<1>3. ChangesInv'
  <2>1. \A k \in DOMAIN changes : changes[k].at \in Nat
    BY ChangesTypes DEF IInv
  <2>2. watermark' = watermark /\ watermark \in Nat /\ (Punctual' <=> Punctual)
    BY <1>2 DEF IInv, CacheType, TypeOK, Punctual, Tick
  <2>3. QED
    BY <1>2, <2>1, <2>2 DEF IInv, ChangesInv
<1>4. stored'.calculated >= 0 => Sound(stored)'
  <2>1. CacheType /\ stored \in Rows /\ stored' = stored
    BY DEF IInv, CacheType, Tick
  <2>2. QED
    BY <1>2, <2>1, TimeKeepsSound DEF IInv
<1>5. \A r \in Requests : RequestInv(request[r])'
  <2> SUFFICES ASSUME NEW r \in Requests
               PROVE  RequestInv(request[r])'
    OBVIOUS
  <2>1. /\ request' = request
        /\ request[r].pc # "idle" => clock < request[r].since + Longest
    BY DEF Tick
  <2>2. request[r].since \in Int /\ CacheType /\ RequestInv(request[r])
    BY DEF IInv, CacheType, Asked
  <2>3. request[r].pc # "idle" => clock' <= request[r].since + Longest
    BY <1>2, <2>1, <2>2
  <2>4. clock' >= clock /\ clock' \in Int
    BY <1>2
  <2>5. QED
    BY <1>2, <2>1, <2>2, <2>3, <2>4, TimeKeepsRequests
<1>6. SnapshotsAreRecent'
  BY <1>1, SilentIsRecent DEF Tick
<1>7. QED
  BY <1>1, <1>3, <1>4, <1>5, <1>6 DEF IInv

\* A mutation is newer than anything a payload or a request must contain.
LEMMA ChangeKeeps ==
  ASSUME IInv, NEW stamp \in Stamps, stamp >= 0, Change(stamp)
  PROVE  IInv'
<1> DEFINE n == Len(changes) + 1
           new == [at |-> clock, stamp |-> stamp]
<1>1. /\ clock \in 0..MaxTime
      /\ changes \in Seq(Mutations)
      /\ watermark \in 0..(MaxTime + 1)
      /\ Len(changes) < MaxChanges
      /\ stamp \in 0..(MaxTime + 1)
  BY DEF IInv, CacheType, TypeOK, Change, Mutations, Stamps, Untracked
<1>2. /\ changes' = Append(changes, new)
      /\ new \in Mutations
  BY <1>1 DEF Change, Mutations
<1> HIDE DEF new
<1>3. /\ changes' \in Seq(Mutations)
      /\ Len(changes') = n
      /\ DOMAIN changes = 1..Len(changes) /\ DOMAIN changes' = 1..n
      /\ \A k \in 1..Len(changes) : changes'[k] = changes[k]
      /\ changes'[n] = new
      /\ Len(changes) \in Nat
  BY <1>1, <1>2
<1>4. /\ DOMAIN changes' = DOMAIN changes \union {n}
      /\ \A k \in DOMAIN changes : changes'[k] = changes[k]
  BY <1>3
<1>5. new.at = clock /\ new.stamp = stamp
  BY DEF new
<1>6. \A k \in DOMAIN changes : changes[k].at \in Nat /\ changes[k].stamp \in Nat
  BY ChangesTypes DEF IInv
<1>7. CacheType'
  <2>1. watermark' \in 0..(MaxTime + 1)
    BY <1>1 DEF Change
  <2>2. Len(changes') <= MaxChanges
    BY <1>1, <1>3
  <2>3. QED
    BY <1>3, <2>1, <2>2 DEF IInv, CacheType, TypeOK, Change, Mutations
<1> HIDE DEF n
<1>8. clock' = clock /\ (Punctual' => Punctual)
  BY <1>4 DEF Change, Punctual
<1>9. ChangesInv'
  <2>1. \A k \in DOMAIN changes' : changes'[k].at <= clock /\ changes'[k].stamp <= watermark'
    BY <1>1, <1>3, <1>4, <1>5, <1>6 DEF IInv, ChangesInv, Change
  <2>2. Punctual' => watermark' <= clock
    <3>1. Punctual' => stamp <= clock
      BY <1>3, <1>4, <1>5 DEF Punctual
    <3>2. QED
      BY <1>8, <3>1 DEF IInv, ChangesInv, Change
  <2>3. QED
    BY <1>8, <2>1, <2>2 DEF ChangesInv
<1>10. ASSUME NEW row \in Rows, Sound(row)
       PROVE  Sound(row)'
  <2>1. \A k \in DOMAIN changes' : changes'[k].at + Longest < row.calculated => k <= row.known
    <3> SUFFICES ASSUME NEW k \in DOMAIN changes', changes'[k].at + Longest < row.calculated
                 PROVE  k <= row.known
      OBVIOUS
    <3>1. row.calculated <= clock /\ row.calculated \in Int /\ clock \in Int
      BY <1>1, <1>10 DEF Sound, Rows
    <3>2. k # n
      BY <1>3, <1>5, <3>1
    <3>3. k \in DOMAIN changes /\ changes[k].at + Longest < row.calculated
      BY <1>4, <3>2
    <3>4. QED
      BY <1>10, <3>3 DEF Sound
  <2>2. QED
    BY <1>8, <1>10, <2>1 DEF Sound
<1>11. ASSUME NEW known, NEW since \in Int, since <= clock, KnownSince(known, since)
       PROVE  KnownSince(known, since)'
  <2> SUFFICES ASSUME NEW k \in DOMAIN changes', changes'[k].at < since
               PROVE  k <= known
    BY DEF KnownSince
  <2>1. k # n
    BY <1>1, <1>3, <1>5, <1>11
  <2>2. QED
    BY <1>4, <1>11, <2>1 DEF KnownSince
<1>12. stored'.calculated >= 0 => Sound(stored)'
  BY <1>10 DEF IInv, CacheType, Change
<1>13. \A r \in Requests : RequestInv(request[r])'
  <2> SUFFICES ASSUME NEW r \in Requests
               PROVE  RequestInv(request[r])'
    OBVIOUS
  <2>1. request' = request /\ RequestInv(request[r])
    BY DEF IInv, Change
  <2>2. request[r] \in Asked
    BY DEF IInv, CacheType, Asked
  <2>3. Sound(request[r].row) => Sound(request[r].row)'
    <3> DEFINE row == request[r].row
    <3>1. row \in Rows /\ row' = row
      BY <2>1, <2>2 DEF Asked
    <3>2. QED
      BY <1>10, <2>1, <3>1 DEF Sound
  <2>4. /\ request[r].pc = "mark" => KnownSince(request[r].known, request[r].since)'
        /\ request[r].pc = "store" => KnownSince(request[r].row.known, request[r].since)'
    BY <1>11, <2>1, <2>2 DEF RequestInv, Asked
  <2>5. QED
    BY <1>8, <2>1, <2>3, <2>4 DEF RequestInv
<1>14. SnapshotsAreRecent'
  BY <1>7, SilentIsRecent DEF Change
<1>15. QED
  BY <1>7, <1>9, <1>12, <1>13, <1>14 DEF IInv

\* A step of one request keeps the types.
LEMMA RequestStepTyped ==
  ASSUME CacheType, NEW r \in Requests, NEW q \in Asked,
         UNCHANGED <<clock, changes, watermark>>,
         request' = [request EXCEPT ![r] = q], stored' \in Rows
  PROVE  CacheType'
<1>1. request' \in [Requests -> Asked]
  BY DEF CacheType
<1>2. \A o \in Requests : request'[o].pc \in {"idle", "check", "compute", "mark", "store"}
  BY <1>1 DEF Asked, PCs
<1>3. QED
  BY <1>1, <1>2 DEF CacheType, TypeOK

\* A request takes a step that leaves the time and the mutations alone.
LEMMA RequestStepKeeps ==
  ASSUME IInv, NEW r \in Requests, NEW q \in Asked, RequestInv(q),
         UNCHANGED <<clock, changes, watermark>>,
         request' = [request EXCEPT ![r] = q],
         stored' \in Rows, stored'.calculated >= 0 => Sound(stored'),
         SnapshotsAreRecent'
  PROVE  IInv'
<1>1. CacheType'
  BY RequestStepTyped DEF IInv
<1>2. ChangesInv'
  BY DEF IInv, ChangesInv, Punctual
<1>3. stored'.calculated >= 0 => Sound(stored)'
  BY DEF Sound, Punctual
<1>4. \A o \in Requests : RequestInv(request[o])'
  <2> SUFFICES ASSUME NEW o \in Requests
               PROVE  RequestInv(request[o])'
    OBVIOUS
  <2> DEFINE p == request'[o]
  <2>1. p = IF o = r THEN q ELSE request[o]
    BY DEF IInv, CacheType
  <2>2. RequestInv(p)
    BY <2>1 DEF IInv
  <2> HIDE DEF p
  <2>3. /\ p.pc # "idle" => p.since <= clock' /\ clock' <= p.since + Longest
        /\ p.pc = "check" => Sound(p.row) /\ p.since - p.row.calculated <= Ttl
        /\ p.pc = "mark" => KnownSince(p.known, p.since)
        /\ p.pc = "store" => Sound(p.row) /\ KnownSince(p.row.known, p.since)
    BY <2>2 DEF RequestInv
  <2>4. QED
    BY <2>3 DEF RequestInv, Sound, KnownSince, Punctual, p
<1>5. QED
  BY <1>1, <1>2, <1>3, <1>4 DEF IInv

\* Whoever has answered, or not begun, asks for nothing.
LEMMA IdleAsksNothing == Idle \in Asked /\ RequestInv(Idle)
BY DEF Idle, NoRow, Asked, Rows, PCs, RequestInv

\* The records that a request becomes, field by field.
Doing(pc, since, row, known) == [pc |-> pc, since |-> since, row |-> row, known |-> known]

\* A request that arrives, and one in state a that goes on in state pc.
LEMMA Moves ==
  ASSUME NEW a \in Asked, NEW pc, NEW new
  PROVE  /\ [Idle EXCEPT !.pc = pc, !.since = new] = Doing(pc, new, NoRow, 0)
         /\ [a EXCEPT !.pc = pc, !.row = new] = Doing(pc, a.since, new, a.known)
         /\ [a EXCEPT !.pc = pc, !.known = new] = Doing(pc, a.since, a.row, new)
<1> DEFINE b == [a EXCEPT !.pc = pc]
           i == [Idle EXCEPT !.pc = pc]
<1>1. a = Doing(a.pc, a.since, a.row, a.known) /\ Idle = Doing("idle", 0, NoRow, 0)
  BY DEF Asked, Idle, Doing
<1>2. b = Doing(pc, a.since, a.row, a.known) /\ i = Doing(pc, 0, NoRow, 0)
  BY <1>1 DEF Doing
<1>3. /\ [Idle EXCEPT !.pc = pc, !.since = new] = [i EXCEPT !.since = new]
      /\ [a EXCEPT !.pc = pc, !.row = new] = [b EXCEPT !.row = new]
      /\ [a EXCEPT !.pc = pc, !.known = new] = [b EXCEPT !.known = new]
  OBVIOUS
<1> HIDE DEF b, i
<1>4. [i EXCEPT !.since = new] = Doing(pc, new, NoRow, 0)
  BY <1>2 DEF Doing
<1>5. [b EXCEPT !.row = new] = Doing(pc, a.since, new, a.known)
  BY <1>2 DEF Doing
<1>6. [b EXCEPT !.known = new] = Doing(pc, a.since, a.row, new)
  BY <1>2 DEF Doing
<1>7. QED
  BY <1>3, <1>4, <1>5, <1>6

\* A request remembers the row it read and when it arrived.
LEMMA ArriveKeeps == ASSUME IInv, NEW r \in Requests, Arrive(r) PROVE IInv'
<1> DEFINE q == IF InTime(stored)
                THEN [Idle EXCEPT !.pc = "check", !.since = clock, !.row = stored]
                ELSE [Idle EXCEPT !.pc = "compute", !.since = clock]
<1>1. clock \in Nat /\ stored \in Rows
  BY DEF IInv, CacheType, TypeOK
<1>2. q \in Asked
  <2> DEFINE d == [Idle EXCEPT !.pc = "check", !.since = clock]
             e == [Idle EXCEPT !.pc = "compute", !.since = clock]
  <2>1. d = Doing("check", clock, NoRow, 0) /\ e = Doing("compute", clock, NoRow, 0)
    BY IdleAsksNothing, Moves
  <2>2. q = IF InTime(stored) THEN [d EXCEPT !.row = stored] ELSE e
    OBVIOUS
  <2> HIDE DEF d, e, q
  <2>3. [d EXCEPT !.row = stored] = Doing("check", clock, stored, 0)
    BY <2>1 DEF Doing
  <2>4. "check" \in PCs /\ "compute" \in PCs /\ NoRow \in Rows
    BY DEF PCs, NoRow, Rows
  <2>5. Doing("check", clock, stored, 0) \in Asked /\ Doing("compute", clock, NoRow, 0) \in Asked
    BY <1>1, <2>4 DEF Doing, Asked
  <2>6. QED
    BY <2>1, <2>2, <2>3, <2>5
<1>3. RequestInv(q)
  BY <1>1 DEF Idle, RequestInv, InTime, IInv
<1>4. request' = [request EXCEPT ![r] = q] /\ UNCHANGED <<clock, changes, watermark, stored>>
  BY DEF Arrive
<1> HIDE DEF q
<1>5. SnapshotsAreRecent'
  <2>1. CacheType'
    BY <1>1, <1>2, <1>4, RequestStepTyped DEF IInv
  <2>2. QED
    BY <2>1, SilentIsRecent DEF Arrive
<1>6. QED
  BY <1>2, <1>3, <1>4, <1>5, RequestStepKeeps DEF IInv, CacheType

\* A refresh contains everything there is.
LEMMA RefreshKeeps == ASSUME IInv, NEW r \in Requests, Refresh(r) PROVE IInv'
<1>1. CacheType /\ clock \in Int /\ UNCHANGED <<clock, changes, watermark, stored>>
  BY DEF IInv, CacheType, TypeOK, Refresh
<1>2. /\ Len(changes) \in Nat
      /\ \A k \in DOMAIN changes : k <= Len(changes)
  BY <1>1, ChangesTypes
<1>3. SnapshotsAreRecent'
  BY <1>1, <1>2, AnswerIsRecent DEF Refresh, Answer
<1>4. QED
  BY <1>1, <1>3, IdleAsksNothing, RequestStepKeeps DEF IInv, CacheType, Refresh, Answer

\* A row that is served was stored within its time to live when it was read, and
\* contains what was committed a request before it was calculated; its mark
\* covers every stamp there is.
LEMMA CheckKeeps == ASSUME IInv, NEW r \in Requests, Check(r) PROVE IInv'
<1> DEFINE row == request[r].row
           since == request[r].since
<1>1. /\ CacheType /\ clock \in Nat /\ watermark \in Nat
      /\ row \in Rows /\ since \in Int /\ request[r] \in Asked
      /\ UNCHANGED <<clock, changes, watermark, stored>>
  BY DEF IInv, CacheType, TypeOK, Check, Asked
<1>2. /\ since <= clock /\ clock <= since + Longest
      /\ Sound(row) /\ since - row.calculated <= Ttl
  BY DEF IInv, RequestInv, Check
<1>3. \A k \in DOMAIN changes : changes[k].at \in Nat /\ changes[k].stamp \in Nat
  BY <1>1, ChangesTypes
<1>4. CASE Unchanged(row)
  <2>1. row.known \in Nat /\ row.calculated \in Int /\ row.mark \in Nat
    BY <1>1 DEF Rows
  <2>2. /\ request' = [request EXCEPT ![r] = Idle]
        /\ answer' = [at |-> clock, known |-> row.known, seen |-> Len(changes),
                      calculated |-> row.calculated]
    BY <1>4 DEF Check, Answer
  <2> HIDE DEF row, since
  <2>3. \A k \in DOMAIN changes : changes[k].at + Ttl + 2 * Longest < clock => k <= row.known
    BY <1>1, <1>2, <1>3, <2>1 DEF Sound
  <2>4. Punctual => \A k \in DOMAIN changes :
          changes[k].stamp = changes[k].at /\ changes[k].at > row.calculated => k <= row.known
    <3> SUFFICES ASSUME Punctual, NEW k \in DOMAIN changes,
                        changes[k].stamp = changes[k].at, changes[k].at > row.calculated
                 PROVE  FALSE
      OBVIOUS
    <3>1. changes[k].stamp <= watermark
      BY DEF IInv, ChangesInv
    <3>2. watermark <= row.calculated
      BY <1>1, <1>2, <1>4, <2>1 DEF Unchanged, MarkOf, Sound
    <3>3. QED
      BY <1>1, <1>3, <2>1, <3>1, <3>2
  <2>5. SnapshotsAreRecent'
    BY <1>1, <2>1, <2>2, <2>3, <2>4, AnswerIsRecent
  <2>6. QED
    BY <1>1, <2>2, <2>5, IdleAsksNothing, RequestStepKeeps DEF IInv, CacheType
<1>5. CASE ~Unchanged(row)
  <2> DEFINE q == [request[r] EXCEPT !.pc = "compute", !.row = NoRow]
  <2>1. /\ request' = [request EXCEPT ![r] = q]
        /\ answer' = NoAnswer
    BY <1>5 DEF Check
  <2>2. q \in Asked
    <3>1. q = [pc |-> "compute", since |-> since, row |-> NoRow, known |-> request[r].known]
      BY <1>1, Moves DEF Doing
    <3>2. "compute" \in PCs /\ NoRow \in Rows
      BY DEF PCs, NoRow, Rows
    <3>3. QED
      BY <1>1, <3>1, <3>2 DEF Asked
  <2>3. RequestInv(q)
    BY <1>1, <1>2 DEF RequestInv, Asked
  <2> HIDE DEF q
  <2>4. CacheType'
    BY <1>1, <2>1, <2>2, RequestStepTyped DEF CacheType
  <2>5. SnapshotsAreRecent'
    BY <2>1, <2>4, SilentIsRecent
  <2>6. QED
    BY <1>1, <2>1, <2>2, <2>3, <2>5, RequestStepKeeps DEF IInv, CacheType
<1>6. QED
  BY <1>4, <1>5

\* Compute contains everything that is committed when it runs.
LEMMA ComputeKeeps == ASSUME IInv, NEW r \in Requests, Compute(r) PROVE IInv'
<1> DEFINE q == [request[r] EXCEPT !.pc = "mark", !.known = Len(changes)]
           since == request[r].since
<1>1. /\ CacheType /\ request[r] \in Asked /\ request[r].pc = "compute"
      /\ UNCHANGED <<clock, changes, watermark, stored>>
  BY DEF IInv, CacheType, Compute
<1>2. /\ Len(changes) \in Nat
      /\ \A k \in DOMAIN changes : k <= Len(changes)
  BY <1>1, ChangesTypes
<1>3. q = [pc |-> "mark", since |-> since, row |-> request[r].row, known |-> Len(changes)]
  BY <1>1, Moves DEF Doing
<1>4. "mark" \in PCs
  BY DEF PCs
<1>5. q \in Asked
  BY <1>1, <1>2, <1>3, <1>4 DEF Asked
<1>6. since <= clock /\ clock <= since + Longest
  BY <1>1 DEF IInv, RequestInv
<1>7. RequestInv(q)
  BY <1>2, <1>3, <1>6 DEF RequestInv, KnownSince
<1>8. request' = [request EXCEPT ![r] = q] /\ answer' = NoAnswer
  BY DEF Compute
<1> HIDE DEF q
<1>9. SnapshotsAreRecent'
  <2>1. CacheType'
    BY <1>1, <1>5, <1>8, RequestStepTyped DEF CacheType
  <2>2. QED
    BY <1>8, <2>1, SilentIsRecent
<1>10. QED
  BY <1>1, <1>5, <1>7, <1>8, <1>9, RequestStepKeeps DEF IInv, CacheType

\* The row to be stored is a sound one.
LEMMA MarkKeeps == ASSUME IInv, NEW r \in Requests, Mark(r) PROVE IInv'
<1> DEFINE row == [known |-> request[r].known, mark |-> watermark, calculated |-> clock]
           since == request[r].since
           q == [request[r] EXCEPT !.pc = "store", !.known = 0, !.row = row]
<1>1. /\ CacheType /\ request[r] \in Asked /\ request[r].pc = "mark"
      /\ UNCHANGED <<clock, changes, watermark, stored>>
      /\ clock \in Nat /\ watermark \in Nat /\ since \in Int /\ request[r].known \in Nat
  BY DEF IInv, CacheType, TypeOK, Mark, Asked
<1>2. row \in Rows
  BY <1>1 DEF Rows
<1>3. q = [pc |-> "store", since |-> since, row |-> row, known |-> 0]
  <2> HIDE DEF row, since
  <2> DEFINE d == [request[r] EXCEPT !.pc = "store", !.known = 0]
  <2>1. d = Doing("store", request[r].since, request[r].row, 0)
    BY <1>1, Moves DEF Doing
  <2>2. q = [d EXCEPT !.row = row]
    OBVIOUS
  <2> HIDE DEF d, q
  <2>3. [d EXCEPT !.row = row] = Doing("store", request[r].since, row, 0)
    BY <2>1 DEF Doing
  <2>4. QED
    BY <2>2, <2>3 DEF since, Doing
<1>4. "store" \in PCs
  BY DEF PCs
<1>5. q \in Asked
  BY <1>1, <1>2, <1>3, <1>4 DEF Asked
<1>6. since <= clock /\ clock <= since + Longest /\ KnownSince(request[r].known, since)
  BY <1>1 DEF IInv, RequestInv
<1>7. \A k \in DOMAIN changes : changes[k].at \in Nat
  BY <1>1, ChangesTypes
<1>8. Sound(row)
  <2>1. \A k \in DOMAIN changes : changes[k].at + Longest < clock => k <= request[r].known
    BY <1>1, <1>6, <1>7 DEF KnownSince
  <2>2. Punctual => watermark <= clock
    BY DEF IInv, ChangesInv
  <2>3. QED
    BY <1>1, <2>1, <2>2 DEF Sound
<1>9. row.known = request[r].known
  OBVIOUS
<1> HIDE DEF row
<1>10. RequestInv(q)
  BY <1>3, <1>6, <1>8, <1>9 DEF RequestInv
<1>11. request' = [request EXCEPT ![r] = q] /\ answer' = NoAnswer
  BY DEF Mark, row
<1> HIDE DEF q
<1>12. SnapshotsAreRecent'
  <2>1. CacheType'
    BY <1>1, <1>5, <1>11, RequestStepTyped DEF CacheType
  <2>2. QED
    BY <1>11, <2>1, SilentIsRecent
<1>13. QED
  BY <1>1, <1>5, <1>10, <1>11, <1>12, RequestStepKeeps DEF IInv, CacheType

\* A request answers with what it computed itself, which contains all that was
\* committed before it arrived.
LEMMA OwnIsRecent ==
  ASSUME IInv, NEW r \in Requests, request[r].pc # "idle", NEW known \in Nat,
         KnownSince(known, request[r].since),
         UNCHANGED <<clock, changes>>,
         answer' = [at |-> clock, known |-> known, seen |-> Len(changes), calculated |-> clock]
  PROVE  SnapshotsAreRecent'
<1> DEFINE since == request[r].since
<1>1. CacheType /\ clock \in Nat /\ since \in Int
  BY DEF IInv, CacheType, TypeOK, Asked
<1>2. since <= clock /\ clock <= since + Longest
  BY DEF IInv, RequestInv
<1>3. \A k \in DOMAIN changes : changes[k].at \in Nat /\ changes[k].at <= clock
  BY <1>1, ChangesTypes DEF IInv, ChangesInv
<1>4. \A k \in DOMAIN changes : changes[k].at + Ttl + 2 * Longest < clock => k <= known
  BY <1>1, <1>2, <1>3 DEF KnownSince
<1>5. \A k \in DOMAIN changes : ~(changes[k].at > clock)
  BY <1>1, <1>3
<1>6. clock \in Int
  BY <1>1
<1>7. QED
  BY <1>1, <1>4, <1>5, <1>6, AnswerIsRecent

\* The row that is stored is sound, and so is the answer.
LEMMA StoreKeeps == ASSUME IInv, NEW r \in Requests, Store(r) PROVE IInv'
<1> DEFINE row == request[r].row
<1>1. /\ row \in Rows /\ row.known \in Nat /\ request[r].pc = "store" /\ stored' = row
      /\ UNCHANGED <<clock, changes, watermark>>
  BY DEF IInv, CacheType, Store, Asked, Rows
<1>2. Sound(row) /\ KnownSince(row.known, request[r].since)
  BY <1>1 DEF IInv, RequestInv
<1>3. answer' = [at |-> clock, known |-> row.known, seen |-> Len(changes), calculated |-> clock]
  BY <1>1 DEF Store, Answer
<1>4. SnapshotsAreRecent'
  BY <1>1, <1>2, <1>3, OwnIsRecent
<1>5. request' = [request EXCEPT ![r] = Idle]
  BY DEF Store, Answer
<1>6. QED
  BY <1>1, <1>2, <1>4, <1>5, IdleAsksNothing, RequestStepKeeps

\* A request whose storage failed answers with what it computed.
LEMMA SparedKeeps == ASSUME IInv, NEW r \in Requests, Spared(r) PROVE IInv'
<1>1. /\ request[r].known \in Nat /\ request[r].pc = "mark"
      /\ UNCHANGED <<clock, changes, watermark, stored>>
  BY DEF IInv, CacheType, Spared, Asked
<1>2. KnownSince(request[r].known, request[r].since)
  BY <1>1 DEF IInv, RequestInv
<1>3. SnapshotsAreRecent'
  BY <1>1, <1>2, OwnIsRecent DEF Spared, Answer
<1>4. request' = [request EXCEPT ![r] = Idle]
  BY DEF Spared, Answer
<1>5. QED
  BY <1>1, <1>3, <1>4, IdleAsksNothing, RequestStepKeeps DEF IInv, CacheType

LEMMA StutterKeeps == ASSUME IInv, UNCHANGED cacheVars PROVE IInv'
<1>1. UNCHANGED <<clock, changes, watermark, stored, request, answer>>
  BY DEF cacheVars
<1>2. CacheType' /\ ChangesInv' /\ (stored'.calculated >= 0 => Sound(stored)')
  BY <1>1 DEF IInv, CacheType, TypeOK, ChangesInv, Sound, Punctual
<1>3. \A r \in Requests : RequestInv(request[r])'
  BY <1>1 DEF IInv, RequestInv, Sound, KnownSince, Punctual
<1>4. SnapshotsAreRecent'
  BY <1>1 DEF IInv, SnapshotsAreRecent, Recent, NoTrackedChangeMissed
<1>5. QED
  BY <1>2, <1>3, <1>4 DEF IInv

-----------------------------------------------------------------------------
\* What the invariant says of the cache

\* The inductive invariant holds in every behaviour of the cache.
THEOREM CacheInvariant == CacheSpec => []IInv
<1>1. IInv /\ [Next]_cacheVars => IInv'
  <2> SUFFICES ASSUME IInv, [Next]_cacheVars
               PROVE  IInv'
    OBVIOUS
  <2>1. CASE Tick
    BY <2>1, TickKeeps
  <2>2. CASE \E s \in Stamps : s >= 0 /\ Change(s)
    BY <2>2, ChangeKeeps
  <2>3. ASSUME NEW r \in Requests,
               \/ Arrive(r) \/ Refresh(r) \/ Check(r) \/ Compute(r)
               \/ Mark(r) \/ Store(r) \/ Spared(r)
        PROVE  IInv'
    BY <2>3, ArriveKeeps, RefreshKeeps, CheckKeeps, ComputeKeeps, MarkKeeps, StoreKeeps, SparedKeeps
  <2>4. CASE UNCHANGED cacheVars
    BY <2>4, StutterKeeps
  <2>5. QED
    BY <2>1, <2>2, <2>3, <2>4 DEF Next
<1>2. QED
  BY InitHolds, <1>1, PTL DEF CacheSpec

\* Rows, requests and stamps keep their types, and the clock its bound.
THEOREM CacheTyped == CacheSpec => []TypeOK
<1>1. IInv => TypeOK
  BY DEF IInv, CacheType
<1>2. QED
  BY CacheInvariant, <1>1, PTL

(* However many requests and mutations overlap, an answer contains every     *)
(* mutation older than the time to live and two requests, and, while no      *)
(* stamp runs ahead of the clock, every tracked mutation that was committed  *)
(* after its payload was calculated (executive_snapshot, read_snapshot,      *)
(* write_snapshot).                                                          *)
THEOREM SnapshotsAreRecentHolds == CacheSpec => []SnapshotsAreRecent
<1>1. IInv => SnapshotsAreRecent
  BY DEF IInv
<1>2. QED
  BY CacheInvariant, <1>1, PTL
==============================================================================
