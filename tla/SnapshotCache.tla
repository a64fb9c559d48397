---------------------------- MODULE SnapshotCache ---------------------------
(* The executive snapshot of one scope and window, stored for the requests    *)
(* that follow.  A request reads the stored row, compares the newest mutation *)
(* stamp it can see with the one stored, and serves the row or computes anew  *)
(* and overwrites it.  Every statement reads what is committed when it runs,  *)
(* so mutations and other requests fall between any two of them.              *)
EXTENDS Integers, Sequences

CONSTANTS
  Requests,      \* concurrent requests for the snapshot
  Ttl,           \* SNAPSHOT_TTL_MINUTES, in ticks
  Longest,       \* the most ticks a request is under way
  MaxTime, MaxChanges

ASSUME CacheAssumption ==
  /\ Ttl \in Nat /\ Longest \in Nat
  /\ MaxTime \in Nat \ {0} /\ MaxChanges \in Nat

VARIABLES
  clock,
  changes,       \* instant and stamp of each committed mutation, in order
  watermark,     \* newest stamp in the tables of source_watermark, 0 when none
  stored,        \* the row: mutations its payload contains, mark, calculated_at
  request,       \* what each request is doing
  answer         \* the answer this step gave: when, what it contains, when calculated

cacheVars == <<clock, changes, watermark, stored, request, answer>>

NoRow == [known |-> 0, mark |-> 0, calculated |-> -1]
NoAnswer == [at |-> 0, known |-> 0, seen |-> 0, calculated |-> 0]
Idle == [pc |-> "idle", since |-> 0, row |-> NoRow, known |-> 0]

TypeOK ==
  /\ clock \in 0..MaxTime
  /\ changes \in Seq([at : 0..MaxTime, stamp : 0..(MaxTime + 1)]) /\ Len(changes) <= MaxChanges
  /\ watermark \in 0..(MaxTime + 1)
  /\ \A r \in Requests : request[r].pc \in {"idle", "check", "compute", "mark", "store"}

Init ==
  /\ clock = 1 /\ changes = <<>> /\ watermark = 0
  /\ stored = NoRow
  /\ request = [r \in Requests |-> Idle]
  /\ answer = NoAnswer

-----------------------------------------------------------------------------
\* Time passes, but no request is under way for longer than it may be.
Tick ==
  /\ clock < MaxTime
  /\ \A r \in Requests : request[r].pc # "idle" => clock < request[r].since + Longest
  /\ clock' = clock + 1
  /\ answer' = NoAnswer
  /\ UNCHANGED <<changes, watermark, stored, request>>

\* A transaction of another component commits: its stamp was taken when it ran,
\* or is a start or capture time ahead of the clock, or is not tracked at all.
Change(stamp) ==
  /\ Len(changes) < MaxChanges
  /\ changes' = Append(changes, [at |-> clock, stamp |-> stamp])
  /\ watermark' = IF stamp > watermark THEN stamp ELSE watermark
  /\ answer' = NoAnswer
  /\ UNCHANGED <<clock, stored, request>>

Untracked == 0
Stamps == {Untracked, clock - 1, clock, clock + 1}

-----------------------------------------------------------------------------
\* executive_snapshot answers with a payload.
Answer(r, known, calculated) ==
  /\ answer' = [at |-> clock, known |-> known, seen |-> Len(changes), calculated |-> calculated]
  /\ request' = [request EXCEPT ![r] = Idle]

\* read_snapshot, its first statement.
\* Mutant of InTime: the stored row is served whatever its age.
InTimeOnceStored(row) == row.calculated >= 0

InTime(row) == row.calculated >= 0 /\ clock - row.calculated <= Ttl

Arrive(r) ==
  /\ request[r].pc = "idle"
  /\ request' = [request EXCEPT ![r] =
       IF InTime(stored) THEN [Idle EXCEPT !.pc = "check", !.since = clock, !.row = stored]
       ELSE [Idle EXCEPT !.pc = "compute", !.since = clock]]
  /\ answer' = NoAnswer
  /\ UNCHANGED <<clock, changes, watermark, stored>>

\* A request with `refresh` computes and answers, the cache left alone.
Refresh(r) ==
  /\ request[r].pc = "idle"
  /\ Answer(r, Len(changes), clock)
  /\ UNCHANGED <<clock, changes, watermark, stored>>

\* read_snapshot, its second statement: the newest stamp against the stored
\* one, which is calculated_at when there was none.
MarkOf(row) == IF row.mark = 0 THEN row.calculated ELSE row.mark
Unchanged(row) == watermark <= MarkOf(row)

Check(r) ==
  /\ request[r].pc = "check"
  /\ IF Unchanged(request[r].row) THEN Answer(r, request[r].row.known, request[r].row.calculated)
     ELSE request' = [request EXCEPT ![r].pc = "compute", ![r].row = NoRow] /\ answer' = NoAnswer
  /\ UNCHANGED <<clock, changes, watermark, stored>>

\* _compute_live_snapshot: statement after statement; all of them see at least
\* the mutations committed when the first one runs.
Compute(r) ==
  /\ request[r].pc = "compute"
  /\ request' = [request EXCEPT ![r].pc = "mark", ![r].known = Len(changes)]
  /\ answer' = NoAnswer
  /\ UNCHANGED <<clock, changes, watermark, stored>>

\* write_snapshot: the stamp is read after the computation, the row is then
\* overwritten and committed with the request.
Mark(r) ==
  /\ request[r].pc = "mark"
  /\ request' = [request EXCEPT ![r].pc = "store", ![r].known = 0,
       ![r].row = [known |-> request[r].known, mark |-> watermark, calculated |-> clock]]
  /\ answer' = NoAnswer
  /\ UNCHANGED <<clock, changes, watermark, stored>>

Store(r) ==
  /\ request[r].pc = "store"
  /\ stored' = request[r].row
  /\ Answer(r, stored'.known, clock)
  /\ UNCHANGED <<clock, changes, watermark>>

\* Storage failed: the request answers with what it computed.
Spared(r) ==
  /\ request[r].pc = "mark"
  /\ Answer(r, request[r].known, clock)
  /\ UNCHANGED <<clock, changes, watermark, stored>>

Next ==
  \/ Tick
  \/ \E s \in Stamps : s >= 0 /\ Change(s)
  \/ \E r \in Requests :
       \/ Arrive(r) \/ Refresh(r) \/ Check(r) \/ Compute(r) \/ Mark(r) \/ Store(r) \/ Spared(r)

CacheSpec == Init /\ [][Next]_cacheVars

-----------------------------------------------------------------------------
\* An answer misses no mutation older than the time to live and two requests:
\* the one that computed the payload and the one that serves it.
Recent ==
  \A k \in DOMAIN changes :
    changes[k].at + Ttl + 2 * Longest < answer.at => k <= answer.known

\* Nor does it miss a tracked mutation stamped when it committed, after the
\* payload was calculated, unless some stamp ran ahead of the clock.
NoTrackedChangeMissed ==
  (\A j \in DOMAIN changes : changes[j].stamp <= changes[j].at) =>
    \A k \in 1..answer.seen :
      /\ changes[k].stamp = changes[k].at
      /\ changes[k].at > answer.calculated
      => k <= answer.known

\* What the cache promises of every answer (executive_snapshot, read_snapshot,
\* write_snapshot).
SnapshotsAreRecent == Recent /\ NoTrackedChangeMissed
=============================================================================
