-------------------------------- MODULE Alarms -------------------------------
(***************************************************************************)
(* Telemetry ingestion and the life of operational alarms                  *)
(* (app/telemetry_store.py, app/alarm_lifecycle_store.py and               *)
(* app/alarm_store.py).                                                    *)
(*                                                                         *)
(* A session is one request in one transaction: a batch of readings, or an *)
(* operator's acknowledgement, close or work-order request.  Every row     *)
(* lock is a step that waits until the row is free; what the session       *)
(* writes stays in its draft until the commit.  Four kinds of locks are    *)
(* taken: channels (in id order, all of a batch first), alarms, the gate   *)
(* that hands out business numbers, and the head of the audit chain.       *)
(*                                                                         *)
(* An instant is a natural number.  Of telemetry_readings only the newest  *)
(* captured_at of each channel is kept; a reading is always inserted.      *)
(***************************************************************************)
EXTENDS Integers, Sequences, FiniteSets

CONSTANTS
  NumChannels,  \* channel ids are 1..NumChannels
  NoLimit,      \* a threshold that is not configured
  Limits,       \* Limits[c]: the four thresholds of a channel
  Batches,      \* batches of readings that are ingested
  Actions,      \* what operators do
  Sessions,     \* concurrent requests
  MaxAlarms,    \* bound: alarm ids are 1..MaxAlarms
  MaxInstant    \* bound: the clock and the markers

Channels == 1..NumChannels
AlarmIds == 1..MaxAlarms

Kinds == {"criticalHigh", "criticalLow", "warningHigh", "warningLow"}

\* captured_at of a reading that has none
Omitted == 0

ASSUME AlarmsAssumption ==
  /\ NumChannels \in Nat \ {0}
  /\ NoLimit \notin Int
  /\ Limits \in [Channels -> [Kinds -> Int \union {NoLimit}]]
  /\ \A b \in Batches :
       /\ b # <<>>
       /\ b \in Seq([channel : Channels, value : Int, at : 0..MaxInstant])
  /\ Actions \subseteq {"acknowledge", "close", "work"}
  /\ MaxAlarms \in Nat
  /\ MaxInstant \in Nat \ {0}

VARIABLES
  channels,  \* channels[c]: the live value, its instant, the newest reading
  alarms,    \* alarms[a]: a row of operational_alarms, or none
  clock,     \* the server's clock
  request,   \* request[s]: what session s was asked to do
  phase,     \* phase[s]: the lock it takes next, or "reading"
  pos,       \* pos[s]: the reading of its batch it is at
  found,     \* found[s]: the active alarm it has read without a lock
  draft,     \* draft[s]: the rows it has written and not committed
  held       \* held[s]: the locks it holds

tables == <<channels, alarms>>
vars == <<channels, alarms, clock, request, phase, pos, found, draft, held>>

Active == {"Open", "Acknowledged"}
NoAlarm == [status |-> "None"]
AlarmRow == [status : Active \union {"Cleared", "Closed"}, channel : Channels,
             severity : {"Critical", "Warning"}, linked : BOOLEAN, orders : Nat]
ChannelRow == [value : Int, at : 0..MaxInstant, newest : 0..MaxInstant]

Idle == [op |-> "none"]
Requests == [op : {"ingest"}, readings : Batches] \union [op : Actions, alarm : AlarmIds]

Clean == [channels |-> <<>>, alarms |-> <<>>]
Channel(c) == <<"channel", c>>
Alarm(a) == <<"alarm", a>>
Gate == <<"gate", 0>>
Audit == <<"audit", 0>>

TypeOK ==
  /\ channels \in [Channels -> ChannelRow]
  /\ alarms \in [AlarmIds -> AlarmRow \union {NoAlarm}]
  /\ clock \in 1..MaxInstant
  /\ request \in [Sessions -> Requests \union {Idle}]
  /\ phase \in [Sessions -> {"idle", "lock", "reading", "alarm", "gate", "log", "commit"}]
  /\ pos \in [Sessions -> Nat]
  /\ found \in [Sessions -> 0..MaxAlarms]
  /\ \A s \in Sessions :
       /\ \A c \in DOMAIN draft[s].channels : draft[s].channels[c] \in ChannelRow
       /\ \A a \in DOMAIN draft[s].alarms : draft[s].alarms[a] \in AlarmRow
       /\ \A c \in DOMAIN draft[s].channels : Channel(c) \in held[s]
       /\ phase[s] = "idle" <=> request[s] = Idle
       /\ phase[s] = "idle" => held[s] = {} /\ draft[s] = Clean

Init ==
  /\ channels = [c \in Channels |-> [value |-> 0, at |-> 0, newest |-> 0]]
  /\ alarms = [a \in AlarmIds |-> NoAlarm]
  /\ clock = 1
  /\ request = [s \in Sessions |-> Idle]
  /\ phase = [s \in Sessions |-> "idle"]
  /\ pos = [s \in Sessions |-> 1]
  /\ found = [s \in Sessions |-> 0]
  /\ draft = [s \in Sessions |-> Clean]
  /\ held = [s \in Sessions |-> {}]

-----------------------------------------------------------------------------
\* Transactions

\* The table as a session sees it: what is committed under what it has written.
Over(written, table) ==
  [x \in DOMAIN table |-> IF x \in DOMAIN written THEN written[x] ELSE table[x]]

Put(written, x, row) ==
  [y \in DOMAIN written \union {x} |-> IF y = x THEN row ELSE written[y]]

ChannelView(s) == Over(draft[s].channels, channels)
AlarmView(s) == Over(draft[s].alarms, alarms)

\* Mutant: the channels of a batch are not locked.
ChannelRowsUnlocked(s, lock) ==
  lock[1] = "channel" \/ \A t \in Sessions \ {s} : lock \notin held[t]

\* Mutant: the alarm is not locked before it is read.
AlarmRowsUnlocked(s, lock) ==
  lock[1] = "alarm" \/ \A t \in Sessions \ {s} : lock \notin held[t]

Free(s, lock) == \A t \in Sessions \ {s} : lock \notin held[t]

Take(s, lock) ==
  /\ Free(s, lock)
  /\ held' = [held EXCEPT ![s] = @ \union {lock}]

WriteAlarm(s, a, row) ==
  draft' = [draft EXCEPT ![s].alarms = Put(@, a, row)]

Begin(s, rq) ==
  /\ request' = [request EXCEPT ![s] = rq]
  /\ phase' = [phase EXCEPT ![s] = "lock"]
  /\ UNCHANGED <<tables, clock, pos, found, draft, held>>

End(s) ==
  /\ request' = [request EXCEPT ![s] = Idle]
  /\ phase' = [phase EXCEPT ![s] = "idle"]
  /\ pos' = [pos EXCEPT ![s] = 1]
  /\ found' = [found EXCEPT ![s] = 0]
  /\ draft' = [draft EXCEPT ![s] = Clean]
  /\ held' = [held EXCEPT ![s] = {}]
  /\ UNCHANGED clock

\* A replay, a refusal, a lost connection, the victim of a deadlock.
Rollback(s) ==
  /\ phase[s] # "idle"
  /\ End(s)
  /\ UNCHANGED tables

\* The rows of channels and alarms are overwritten; readings are rows of their
\* own, so the newest of them is that of all that are committed.
Committed(s) ==
  [c \in Channels |-> [ChannelView(s)[c] EXCEPT !.newest =
     IF channels[c].newest > @ THEN channels[c].newest ELSE @]]

\* The last record of every request is its audit entry.
Commit(s) ==
  /\ phase[s] = "commit"
  /\ Free(s, Audit)
  /\ channels' = Committed(s)
  /\ alarms' = AlarmView(s)
  /\ End(s)

-----------------------------------------------------------------------------
\* ingest_telemetry_atomic

\* _telemetry_alarm_level
Level(c, v) ==
  LET Reached(high, low) == \/ Limits[c][high] # NoLimit /\ v >= Limits[c][high]
                            \/ Limits[c][low] # NoLimit /\ v <= Limits[c][low]
  IN IF Reached("criticalHigh", "criticalLow") THEN "Critical"
     ELSE IF Reached("warningHigh", "warningLow") THEN "Warning" ELSE "Normal"

\* _implicit_capture_after
Captured(r, row) ==
  IF r.at # Omitted THEN r.at ELSE IF clock >= row.at THEN clock ELSE row.at + 1

\* Mutant: a reading is live when it arrives.
CurrentOnArrival(r, row) == TRUE

\* _is_temporally_current
Current(r, row) ==
  \/ row.at = 0
  \/ Captured(r, row) > row.at
  \/ r.at = Omitted /\ Captured(r, row) = row.at

\* The active alarm of a channel with the greatest id, 0 if there is none.
ActiveAlarm(view, c) ==
  LET active == {a \in AlarmIds : view[a].status \in Active /\ view[a].channel = c}
  IN IF active = {} THEN 0 ELSE CHOOSE a \in active : \A b \in active : b <= a

Reading(s) == request[s].readings[pos[s]]

BatchChannels(s) ==
  {request[s].readings[i].channel : i \in DOMAIN request[s].readings}

\* All channels of the batch, in the order of their ids.
LockChannel(s) ==
  LET rest == {c \in BatchChannels(s) : Channel(c) \notin held[s]} IN
    /\ request[s].op = "ingest"
    /\ phase[s] = "lock"
    /\ \E c \in rest :
         /\ \A d \in rest : c <= d
         /\ Take(s, Channel(c))
         /\ phase' = [phase EXCEPT ![s] = IF rest = {c} THEN "reading" ELSE "lock"]
    /\ UNCHANGED <<tables, clock, request, pos, found, draft>>

NextReading(s) ==
  IF pos[s] = Len(request[s].readings)
    THEN phase' = [phase EXCEPT ![s] = "commit"] /\ UNCHANGED pos
    ELSE phase' = [phase EXCEPT ![s] = "reading"] /\ pos' = [pos EXCEPT ![s] = @ + 1]

\* A reading is inserted; if it is current the channel takes it, and the active
\* alarm of the channel is looked up.
Ingest(s) ==
  LET r == Reading(s)
      c == r.channel
      row == ChannelView(s)[c]
      captured == Captured(r, row)
      newest == IF captured > row.newest THEN captured ELSE row.newest
      active == ActiveAlarm(AlarmView(s), c)
      Write(new) == draft' = [draft EXCEPT ![s].channels = Put(@, c, new)]
  IN /\ phase[s] = "reading"
     /\ captured <= MaxInstant
     /\ IF ~Current(r, row)
          THEN /\ Write([row EXCEPT !.newest = newest])
               /\ NextReading(s)
               /\ UNCHANGED found
          ELSE /\ Write([value |-> r.value, at |-> captured, newest |-> newest])
               /\ found' = [found EXCEPT ![s] = active]
               /\ IF active # 0 THEN phase' = [phase EXCEPT ![s] = "alarm"] /\ UNCHANGED pos
                  ELSE IF Level(c, r.value) # "Normal"
                    THEN phase' = [phase EXCEPT ![s] = "gate"] /\ UNCHANGED pos
                    ELSE NextReading(s)
     /\ UNCHANGED <<tables, clock, request, held>>

\* Mutant: the alarm is taken for active as it was when it was looked up.
StillActiveAsFound(row) == TRUE

\* The alarm is reloaded under its lock.
StillActive(row) == row.status \in Active

\* Mutant: an update leaves the severity of the alarm.
UpdatedWithoutSeverity(row, level) == row

Updated(row, level) == [row EXCEPT !.severity = level]

EvaluateAlarm(s) ==
  LET a == found[s]
      r == Reading(s)
      level == Level(r.channel, r.value)
      row == AlarmView(s)[a]
  IN /\ phase[s] = "alarm"
     /\ Take(s, Alarm(a))
     /\ \/ /\ StillActive(row)
           /\ level # "Normal"
           /\ WriteAlarm(s, a, Updated(row, level))
           /\ NextReading(s)
        \/ /\ StillActive(row)
           /\ level = "Normal"
           /\ WriteAlarm(s, a, [row EXCEPT !.status = "Cleared"])
           /\ phase' = [phase EXCEPT ![s] = "log"]
           /\ UNCHANGED pos
        \/ /\ ~StillActive(row)
           /\ level # "Normal"
           /\ phase' = [phase EXCEPT ![s] = "gate"]
           /\ UNCHANGED <<pos, draft>>
        \/ /\ ~StillActive(row)
           /\ level = "Normal"
           /\ NextReading(s)
           /\ UNCHANGED draft
     /\ UNCHANGED <<tables, clock, request, found>>

\* The number of a new alarm is the next one; the gate is kept to the commit.
OpenAlarm(s) ==
  LET r == Reading(s)
      view == AlarmView(s)
  IN /\ request[s].op = "ingest"
     /\ phase[s] = "gate"
     /\ Take(s, Gate)
     /\ \E a \in AlarmIds :
          /\ {b \in AlarmIds : view[b] # NoAlarm} = 1..(a - 1)
          /\ WriteAlarm(s, a, [status |-> "Open", channel |-> r.channel,
               severity |-> Level(r.channel, r.value), linked |-> FALSE, orders |-> 0])
     /\ phase' = [phase EXCEPT ![s] = "log"]
     /\ UNCHANGED <<tables, clock, request, pos, found>>

\* ALARM OPEN and ALARM CLEAR are audited at once, and the chain's lock is kept.
LogReading(s) ==
  /\ phase[s] = "log"
  /\ Take(s, Audit)
  /\ NextReading(s)
  /\ UNCHANGED <<tables, clock, request, found, draft>>

-----------------------------------------------------------------------------
\* Operators

\* acknowledge_alarm_atomic and close_alarm_atomic
ChangeAlarm(s) ==
  LET a == request[s].alarm
      row == AlarmView(s)[a]
  IN /\ phase[s] = "lock"
     /\ request[s].op \in {"acknowledge", "close"}
     /\ Take(s, Alarm(a))
     /\ \/ /\ request[s].op = "acknowledge"
           /\ row.status = "Open"
           /\ WriteAlarm(s, a, [row EXCEPT !.status = "Acknowledged"])
        \/ /\ request[s].op = "close"
           /\ row.status # "Closed"
           /\ WriteAlarm(s, a, [row EXCEPT !.status = "Closed"])
     /\ phase' = [phase EXCEPT ![s] = "commit"]
     /\ UNCHANGED <<tables, clock, request, pos, found>>

\* create_alarm_work_order_atomic: an alarm of any status, once.
LockForWork(s) ==
  LET a == request[s].alarm IN
    /\ phase[s] = "lock"
    /\ request[s].op = "work"
    /\ Take(s, Alarm(a))
    /\ ~AlarmView(s)[a].linked
    /\ phase' = [phase EXCEPT ![s] = "gate"]
    /\ UNCHANGED <<tables, clock, request, pos, found, draft>>

CreateWorkOrder(s) ==
  LET a == request[s].alarm
      row == AlarmView(s)[a]
  IN /\ request[s].op = "work"
     /\ phase[s] = "gate"
     /\ Take(s, Gate)
     /\ WriteAlarm(s, a, [row EXCEPT !.linked = TRUE, !.orders = @ + 1])
     /\ phase' = [phase EXCEPT ![s] = "commit"]
     /\ UNCHANGED <<tables, clock, request, pos, found>>

-----------------------------------------------------------------------------
Tick ==
  /\ clock < MaxInstant
  /\ clock' = clock + 1
  /\ UNCHANGED <<tables, request, phase, pos, found, draft, held>>

\* A batch arrives, or an operator asks for something.
Submit(s) ==
  /\ phase[s] = "idle"
  /\ \/ \E b \in Batches : Begin(s, [op |-> "ingest", readings |-> b])
     \/ \E op \in Actions, a \in AlarmIds :
          alarms[a] # NoAlarm /\ Begin(s, [op |-> op, alarm |-> a])

SessionStep(s) ==
  \/ Submit(s)
  \/ LockChannel(s)
  \/ Ingest(s)
  \/ EvaluateAlarm(s)
  \/ OpenAlarm(s)
  \/ LogReading(s)
  \/ ChangeAlarm(s)
  \/ LockForWork(s)
  \/ CreateWorkOrder(s)
  \/ Commit(s)
  \/ Rollback(s)

Next == Tick \/ \E s \in Sessions : SessionStep(s)

Spec == Init /\ [][Next]_vars

-----------------------------------------------------------------------------
\* Properties

(* A violation "opens an operational alarm or updates the existing          *)
(* Open/Acknowledged alarm for that channel": a channel never has two       *)
(* active alarms, however batches and operators interleave.                 *)
OneActiveAlarm == TypeOK /\
  \A a, b \in AlarmIds :
    (alarms[a].status \in Active /\ alarms[b].status \in Active /\ a # b) =>
      alarms[a].channel # alarms[b].channel

(* "Concurrent old/new explicit samples converge on the newest capture      *)
(* instant regardless of which request reaches the service first": the live *)
(* marker of a channel is that of the newest reading on record.             *)
NewestReadingWins == \A c \in Channels : channels[c].at = channels[c].newest

(* The alarm queue agrees with the live values: an active alarm has the     *)
(* severity of its channel's live value, which is a violation; and the      *)
(* last alarm of a channel whose live value is a violation is not Cleared.  *)
AlarmsMatchReadings ==
  \A a \in AlarmIds :
    LET row == alarms[a]
        level == Level(row.channel, channels[row.channel].value)
    IN /\ row.status \in Active => row.severity = level
       /\ (row.status = "Cleared" /\ level # "Normal") =>
            \E b \in AlarmIds : b > a /\ alarms[b] # NoAlarm /\ alarms[b].channel = row.channel

Rank == [Open |-> 1, Acknowledged |-> 2, Cleared |-> 3, Closed |-> 4]

(* "A manual close that commits first remains terminal: telemetry cannot    *)
(* regress Closed -> Cleared": no alarm goes back in Open, Acknowledged,    *)
(* Cleared, Closed, whatever it was when it was looked up.                  *)
AlarmsNeverRegress ==
  [][\A a \in AlarmIds :
       alarms[a] # NoAlarm => Rank[alarms'[a].status] >= Rank[alarms[a].status]]_vars

(* "Repeated requests return the existing linked work order rather than     *)
(* duplicating it."                                                         *)
OneWorkOrderPerAlarm ==
  \A a \in AlarmIds : alarms[a] # NoAlarm =>
    alarms[a].orders = IF alarms[a].linked THEN 1 ELSE 0

-----------------------------------------------------------------------------
\* Lock waits

\* The lock a session takes next.
Wanted(s) ==
  CASE phase[s] = "lock" /\ request[s].op = "ingest" ->
         {Channel(c) : c \in {d \in BatchChannels(s) : /\ Channel(d) \notin held[s]
              /\ \A e \in BatchChannels(s) : Channel(e) \notin held[s] => d <= e}}
    [] phase[s] = "lock" /\ request[s].op # "ingest" -> {Alarm(request[s].alarm)}
    [] phase[s] = "alarm" -> {Alarm(found[s])}
    [] phase[s] = "gate" -> {Gate}
    [] phase[s] \in {"log", "commit"} -> {Audit}
    [] OTHER -> {}

(* "Global deadlock-safe generated-number coordinator": two requests never  *)
(* wait for each other with one of them waiting for a number.               *)
NumberGateDeadlockFree ==
  ~ \E s, t \in Sessions :
      /\ s # t
      /\ Wanted(s) = {Gate}
      /\ Gate \in held[t]
      /\ Wanted(t) \intersect held[s] # {}
=============================================================================
