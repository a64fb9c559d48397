----------------------------- MODULE AlarmsProofs ----------------------------
(***************************************************************************)
(* What Alarms guarantees for every number of channels, alarms and         *)
(* sessions, and for all limits and batches.                               *)
(*                                                                         *)
(* The inductive invariant says of every session what its drafts may hold  *)
(* (only rows it has locked, and new alarms under the gate), and that the  *)
(* tables under its drafts agree whenever it is not between a live value   *)
(* and the alarm of that value.  The commit of one session is then a merge *)
(* of two drafts that share no row.                                        *)
(***************************************************************************)
EXTENDS Alarms, SequenceTheorems, TLAPS

-----------------------------------------------------------------------------
\* The inductive invariant

\* The locks there are.
Locks == {Channel(c) : c \in Channels} \union {Alarm(a) : a \in AlarmIds} \union {Gate, Audit}

\* What a session may have written of a table.
Written(ids, row) == UNION {[D -> row] : D \in SUBSET ids}

Drafts == [channels : Written(Channels, ChannelRow), alarms : Written(AlarmIds, AlarmRow)]

\* A session writes only its draft, and no lock is held twice.
LockType ==
  /\ draft \in [Sessions -> Drafts]
  /\ held \in [Sessions -> SUBSET Locks]
  /\ \A s, t \in Sessions : s # t => held[s] \intersect held[t] = {}

\* A row of operational_alarms, as opposed to an id that is not used.
Exists(row) == row.status # "None"

\* A later state of the same alarm.
Later(new, old) ==
  /\ new.channel = old.channel
  /\ Rank[new.status] >= Rank[old.status]

\* What an operator may do to an alarm: it is not made a cleared one, and its
\* severity is left alone.
ByOperator(new, old) ==
  /\ new.severity = old.severity
  /\ new.status = "Cleared" => old.status = "Cleared"

\* A session writes alarms it has locked, and new ones under the gate for a
\* channel it has locked.
WritesLocked(s) ==
  \A a \in DOMAIN draft[s].alarms :
    LET new == draft[s].alarms[a]
        mine == Channel(new.channel) \in held[s]
    IN IF Exists(alarms[a])
         THEN /\ Alarm(a) \in held[s]
              /\ Later(new, alarms[a])
              /\ mine \/ ByOperator(new, alarms[a])
         ELSE Gate \in held[s] /\ mine

\* A draft of a channel is of a locked row, and knows every committed reading.
ReadingsKept(s) ==
  \A c \in DOMAIN draft[s].channels :
    /\ Channel(c) \in held[s]
    /\ draft[s].channels[c].newest >= channels[c].newest
    /\ draft[s].channels[c].at = draft[s].channels[c].newest

\* The active alarm of a channel is the last of its alarms.
ActiveIsLast(view) ==
  \A a, b \in AlarmIds :
    (/\ view[a].status \in Active
     /\ Exists(view[b])
     /\ view[b].channel = view[a].channel) => b <= a

\* The alarms of a channel agree with its live value.
Agrees(rows, view, c) ==
  LET level == Level(c, rows[c].value) IN
  \A a \in AlarmIds : (Exists(view[a]) /\ view[a].channel = c) =>
    /\ view[a].status \in Active => view[a].severity = level
    /\ (view[a].status = "Cleared" /\ level # "Normal") =>
         \E b \in AlarmIds : b > a /\ Exists(view[b]) /\ view[b].channel = c

\* An ingestion that has all its channels.
Reads(s) == request[s].op = "ingest" /\ phase[s] \in {"reading", "alarm", "gate", "log", "commit"}

\* A reading is live and its alarm not yet settled.
Evaluates(s) == request[s].op = "ingest" /\ phase[s] \in {"alarm", "gate"}

ViewAgrees(s) ==
  \A c \in Channels :
    (Evaluates(s) => c # Reading(s).channel) => Agrees(ChannelView(s), AlarmView(s), c)

IngestionState(s) ==
  /\ phase[s] \in {"reading", "alarm", "log"} => request[s].op = "ingest"
  /\ Reads(s) => /\ pos[s] \in 1..Len(request[s].readings)
                 /\ \A c \in BatchChannels(s) : Channel(c) \in held[s]
  /\ Evaluates(s) => /\ Reading(s).channel \in DOMAIN draft[s].channels
                     /\ draft[s].channels[Reading(s).channel].value = Reading(s).value
  /\ phase[s] \in {"idle", "lock"} => draft[s] = Clean /\ pos[s] = 1

\* The alarm that was looked up is still the only one that may be active.
AlarmFound(s) ==
  phase[s] = "alarm" =>
    /\ found[s] \in AlarmIds
    /\ Exists(AlarmView(s)[found[s]])
    /\ AlarmView(s)[found[s]].channel = Reading(s).channel
    /\ \A b \in AlarmIds :
         (AlarmView(s)[b].status \in Active /\ AlarmView(s)[b].channel = Reading(s).channel)
           => b = found[s]

\* The channel of an alarm about to be opened has none.
NoneActive(s) ==
  (request[s].op = "ingest" /\ phase[s] = "gate") =>
    /\ Level(Reading(s).channel, Reading(s).value) # "Normal"
    /\ \A b \in AlarmIds :
         AlarmView(s)[b].status \in Active => AlarmView(s)[b].channel # Reading(s).channel

\* An operator's alarm exists, and is locked and not linked when its work order
\* is created.
OperatorState(s) ==
  request[s].op \in Actions =>
    /\ Exists(alarms[request[s].alarm])
    /\ phase[s] = "gate" => /\ request[s].op = "work"
                            /\ Alarm(request[s].alarm) \in held[s]
                            /\ ~alarms[request[s].alarm].linked
                            /\ draft[s] = Clean

\* An alarm is linked once for the one order that was created for it.
OrderCounted(row) == row.orders = IF row.linked THEN 1 ELSE 0

OrdersCounted(s) == \A a \in DOMAIN draft[s].alarms : OrderCounted(draft[s].alarms[a])

SessionInv(s) ==
  /\ WritesLocked(s) /\ ReadingsKept(s)
  /\ ActiveIsLast(AlarmView(s)) /\ ViewAgrees(s)
  /\ IngestionState(s) /\ AlarmFound(s) /\ NoneActive(s)
  /\ OperatorState(s) /\ OrdersCounted(s)

TablesInv ==
  /\ NewestReadingWins
  /\ ActiveIsLast(alarms)
  /\ \A c \in Channels : Agrees(channels, alarms, c)
  /\ OneWorkOrderPerAlarm

IInv == TypeOK /\ LockType /\ TablesInv /\ \A s \in Sessions : SessionInv(s)

-----------------------------------------------------------------------------
\* Rows

AlarmTable == [AlarmIds -> AlarmRow \union {NoAlarm}]
ChannelTable == [Channels -> ChannelRow]
Statuses == {"Open", "Acknowledged", "Cleared", "Closed"}

LEMMA Ranks ==
  /\ Rank["Open"] = 1 /\ Rank["Acknowledged"] = 2
  /\ Rank["Cleared"] = 3 /\ Rank["Closed"] = 4
BY DEF Rank

LEMMA RowType ==
  \A row \in AlarmRow :
    /\ Exists(row) /\ row # NoAlarm
    /\ row.status \in Statuses /\ Rank[row.status] \in 1..4
    /\ row.channel \in Channels
    /\ row.severity \in {"Critical", "Warning"}
    /\ row.linked \in BOOLEAN /\ row.orders \in Nat
BY Ranks DEF AlarmRow, Active, Statuses, Exists, NoAlarm

LEMMA RowOrNone ==
  \A row \in AlarmRow \union {NoAlarm} :
    /\ Exists(row) <=> row \in AlarmRow
    /\ Exists(row) <=> row # NoAlarm
    /\ row.status \in Active => Exists(row)
    /\ row.status = "Cleared" => Exists(row)
BY RowType DEF Exists, NoAlarm, Active

\* An update of a row changes one field.
LEMMA StatusUpdate ==
  ASSUME NEW row \in AlarmRow, NEW status \in Statuses
  PROVE  LET new == [row EXCEPT !.status = status] IN
           /\ new \in AlarmRow /\ new.status = status
           /\ new.channel = row.channel /\ new.severity = row.severity
           /\ new.linked = row.linked /\ new.orders = row.orders
BY DEF AlarmRow, Statuses, Active

LEMMA SeverityUpdate ==
  ASSUME NEW row \in AlarmRow, NEW level \in {"Critical", "Warning"}
  PROVE  LET new == Updated(row, level) IN
           /\ new \in AlarmRow /\ new.severity = level
           /\ new.channel = row.channel /\ new.status = row.status
           /\ new.linked = row.linked /\ new.orders = row.orders
BY DEF AlarmRow, Updated

LEMMA LinkUpdate ==
  ASSUME NEW row \in AlarmRow
  PROVE  LET new == [row EXCEPT !.linked = TRUE, !.orders = @ + 1] IN
           /\ new \in AlarmRow /\ new.linked /\ new.orders = row.orders + 1
           /\ new.channel = row.channel /\ new.severity = row.severity
           /\ new.status = row.status
<1> DEFINE new == [row EXCEPT !.linked = TRUE, !.orders = @ + 1]
<1>1. row.orders + 1 \in Nat
  BY DEF AlarmRow
<1>2. new \in AlarmRow
  BY <1>1, Zenon DEF AlarmRow
<1>3. new.linked
  BY Zenon DEF AlarmRow
<1>4. /\ new.orders = row.orders + 1
      /\ new.channel = row.channel /\ new.severity = row.severity
      /\ new.status = row.status
  BY DEF AlarmRow
<1>5. QED
  BY <1>2, <1>3, <1>4

LEMMA LaterIsTransitive ==
  ASSUME NEW a \in AlarmRow, NEW b \in AlarmRow, NEW c \in AlarmRow,
         Later(c, b), Later(b, a)
  PROVE  Later(c, a)
BY RowType DEF Later

\* An active alarm was active before, if it was there.
LEMMA ActiveBefore ==
  ASSUME NEW old \in AlarmRow, NEW new \in AlarmRow, Later(new, old),
         new.status \in Active
  PROVE  old.status \in Active
BY RowType, Ranks DEF Later, Active, Statuses

LEMMA LevelType == \A c, v : Level(c, v) \in {"Critical", "Warning", "Normal"}
BY DEF Level

-----------------------------------------------------------------------------
\* Views

LEMMA DraftType ==
  ASSUME LockType, NEW s \in Sessions
  PROVE  /\ draft[s] \in Drafts
         /\ DOMAIN draft[s].channels \subseteq Channels
         /\ DOMAIN draft[s].alarms \subseteq AlarmIds
         /\ \A c \in DOMAIN draft[s].channels : draft[s].channels[c] \in ChannelRow
         /\ \A a \in DOMAIN draft[s].alarms : draft[s].alarms[a] \in AlarmRow
         /\ draft[s].channels \in Written(Channels, ChannelRow)
         /\ draft[s].alarms \in Written(AlarmIds, AlarmRow)
BY DEF LockType, Drafts, Written

LEMMA CleanType ==
  /\ Clean \in Drafts
  /\ DOMAIN Clean.channels = {} /\ DOMAIN Clean.alarms = {}
<1>1. DOMAIN <<>> = {}
  OBVIOUS
<1>2. \A row : <<>> \in [{} -> row]
  OBVIOUS
<1>3. \A ids, row : <<>> \in Written(ids, row)
  BY <1>2 DEF Written
<1>4. QED
  BY <1>1, <1>3 DEF Clean, Drafts

\* A row that is put into a draft is the one that is seen.
LEMMA PutType ==
  ASSUME NEW ids, NEW rows, NEW written \in Written(ids, rows), NEW x \in ids, NEW row \in rows
  PROVE  /\ Put(written, x, row) \in Written(ids, rows)
         /\ DOMAIN Put(written, x, row) = DOMAIN written \union {x}
         /\ Put(written, x, row)[x] = row
         /\ \A y \in DOMAIN written \ {x} : Put(written, x, row)[y] = written[y]
<1>1. PICK D \in SUBSET ids : written \in [D -> rows]
  BY DEF Written
<1>2. Put(written, x, row) \in [D \union {x} -> rows]
  BY <1>1 DEF Put
<1>3. D \union {x} \in SUBSET ids
  OBVIOUS
<1>4. Put(written, x, row) \in Written(ids, rows)
  BY <1>2, <1>3 DEF Written
<1>5. QED
  BY <1>1, <1>4 DEF Put

LEMMA ViewType ==
  ASSUME TypeOK, LockType, NEW s \in Sessions
  PROVE  /\ AlarmView(s) \in AlarmTable
         /\ ChannelView(s) \in ChannelTable
         /\ \A a \in AlarmIds :
              AlarmView(s)[a] = IF a \in DOMAIN draft[s].alarms THEN draft[s].alarms[a] ELSE alarms[a]
         /\ \A c \in Channels :
              ChannelView(s)[c] = IF c \in DOMAIN draft[s].channels
                                    THEN draft[s].channels[c] ELSE channels[c]
BY DraftType DEF TypeOK, AlarmView, ChannelView, Over, AlarmTable, ChannelTable

-----------------------------------------------------------------------------
\* What a step of a session leaves alone

\* Only session s moves.
OnlyMoves(s) ==
  \A t \in Sessions \ {s} :
    /\ request'[t] = request[t] /\ phase'[t] = phase[t]
    /\ pos'[t] = pos[t] /\ found'[t] = found[t]
    /\ draft'[t] = draft[t] /\ held'[t] = held[t]

LEMMA Undisturbed ==
  ASSUME NEW t \in Sessions, SessionInv(t), UNCHANGED tables,
         request'[t] = request[t], phase'[t] = phase[t], pos'[t] = pos[t],
         found'[t] = found[t], draft'[t] = draft[t], held'[t] = held[t]
  PROVE  SessionInv(t)'
<1>1. AlarmView(t)' = AlarmView(t) /\ ChannelView(t)' = ChannelView(t)
  BY DEF AlarmView, ChannelView, tables
<1>2. Reading(t)' = Reading(t) /\ BatchChannels(t)' = BatchChannels(t)
  BY DEF Reading, BatchChannels
<1>3. WritesLocked(t)'
  BY DEF SessionInv, WritesLocked, tables
<1>4. ReadingsKept(t)'
  BY DEF SessionInv, ReadingsKept, tables
<1>5. ActiveIsLast(AlarmView(t))'
  BY <1>1 DEF SessionInv, ActiveIsLast
<1>6. ViewAgrees(t)'
  BY <1>1, <1>2 DEF SessionInv, ViewAgrees, Agrees, Evaluates
<1>7. IngestionState(t)'
  BY <1>2 DEF SessionInv, IngestionState, Reads, Evaluates
<1>8. AlarmFound(t)'
  BY <1>1, <1>2 DEF SessionInv, AlarmFound
<1>9. NoneActive(t)'
  BY <1>1, <1>2 DEF SessionInv, NoneActive
<1>10. OperatorState(t)'
  BY DEF SessionInv, OperatorState, tables
<1>11. OrdersCounted(t)'
  BY DEF SessionInv, OrdersCounted
<1>12. QED
  BY <1>3, <1>4, <1>5, <1>6, <1>7, <1>8, <1>9, <1>10, <1>11 DEF SessionInv

LEMMA OthersUndisturbed ==
  ASSUME NEW s \in Sessions, \A t \in Sessions : SessionInv(t),
         UNCHANGED tables, OnlyMoves(s), SessionInv(s)'
  PROVE  \A t \in Sessions : SessionInv(t)'
<1> SUFFICES ASSUME NEW t \in Sessions, t # s
             PROVE  SessionInv(t)'
  OBVIOUS
<1> QED
  BY Undisturbed DEF OnlyMoves

\* Taking a lock.
LEMMA TakeLock ==
  ASSUME LockType, NEW s \in Sessions, NEW lock \in Locks, Take(s, lock)
  PROVE  /\ held' \in [Sessions -> SUBSET Locks]
         /\ \A t, u \in Sessions : t # u => held'[t] \intersect held'[u] = {}
         /\ held'[s] = held[s] \union {lock}
BY DEF LockType, Take, Free

LEMMA LockNames ==
  /\ \A c \in Channels : Channel(c) \in Locks
  /\ \A a \in AlarmIds : Alarm(a) \in Locks
  /\ Gate \in Locks /\ Audit \in Locks
BY DEF Locks

\* A session that writes nothing.
LEMMA SameWrites ==
  ASSUME NEW s \in Sessions, SessionInv(s), UNCHANGED tables, draft'[s] = draft[s],
         held[s] \subseteq held'[s]
  PROVE  /\ AlarmView(s)' = AlarmView(s)
         /\ ChannelView(s)' = ChannelView(s)
         /\ WritesLocked(s)' /\ ReadingsKept(s)'
         /\ ActiveIsLast(AlarmView(s))' /\ OrdersCounted(s)'
<1>1. AlarmView(s)' = AlarmView(s) /\ ChannelView(s)' = ChannelView(s)
  BY DEF AlarmView, ChannelView, tables
<1>2. WritesLocked(s)'
  BY DEF SessionInv, WritesLocked, tables
<1>3. ReadingsKept(s)'
  BY DEF SessionInv, ReadingsKept, tables
<1>4. ActiveIsLast(AlarmView(s))'
  BY <1>1 DEF SessionInv, ActiveIsLast
<1>5. OrdersCounted(s)'
  BY DEF SessionInv, OrdersCounted
<1>6. QED
  BY <1>1, <1>2, <1>3, <1>4, <1>5

\* A session that writes an alarm.
LEMMA WriteType ==
  ASSUME LockType, NEW s \in Sessions, NEW a \in AlarmIds, NEW row \in AlarmRow,
         WriteAlarm(s, a, row)
  PROVE  /\ draft' \in [Sessions -> Drafts]
         /\ draft'[s].channels = draft[s].channels
         /\ DOMAIN draft'[s].alarms = DOMAIN draft[s].alarms \union {a}
         /\ draft'[s].alarms[a] = row
         /\ \A b \in DOMAIN draft[s].alarms \ {a} : draft'[s].alarms[b] = draft[s].alarms[b]
<1> DEFINE old == draft[s].alarms
           new == Put(old, a, row)
<1>1. old \in Written(AlarmIds, AlarmRow)
  BY DraftType
<1> HIDE DEF old
<1>2. /\ new \in Written(AlarmIds, AlarmRow)
      /\ DOMAIN new = DOMAIN old \union {a}
      /\ new[a] = row
      /\ \A b \in DOMAIN old \ {a} : new[b] = old[b]
  BY <1>1, PutType
<1> HIDE DEF new
<1>3. draft' = [draft EXCEPT ![s].alarms = new]
  BY DEF WriteAlarm, new, old
<1>4. draft'[s].alarms = new /\ draft'[s].channels = draft[s].channels
  BY <1>3 DEF LockType, Drafts
<1>5. draft' \in [Sessions -> Drafts]
  BY <1>2, <1>3 DEF LockType, Drafts
<1>6. QED
  BY <1>2, <1>4, <1>5 DEF old

LEMMA WrittenView ==
  ASSUME TypeOK, LockType, NEW s \in Sessions, NEW a \in AlarmIds, NEW row \in AlarmRow,
         WriteAlarm(s, a, row), UNCHANGED tables
  PROVE  /\ AlarmView(s)' = [AlarmView(s) EXCEPT ![a] = row]
         /\ ChannelView(s)' = ChannelView(s)
<1>1. ChannelView(s)' = ChannelView(s)
  BY WriteType DEF ChannelView, tables
<1>2. alarms' = alarms /\ alarms \in AlarmTable
  BY DEF TypeOK, AlarmTable, tables
<1>3. AlarmView(s)' = Over(draft'[s].alarms, alarms)
  BY <1>2 DEF AlarmView
<1>4. AlarmView(s)' = [b \in AlarmIds |-> IF b \in DOMAIN draft'[s].alarms
                                           THEN draft'[s].alarms[b] ELSE alarms[b]]
  BY <1>2, <1>3 DEF Over, AlarmTable
<1>5. [AlarmView(s) EXCEPT ![a] = row] =
        [b \in AlarmIds |-> IF b = a THEN row ELSE AlarmView(s)[b]]
  BY ViewType DEF AlarmTable
<1>6. \A b \in AlarmIds :
        (IF b \in DOMAIN draft'[s].alarms THEN draft'[s].alarms[b] ELSE alarms[b])
          = IF b = a THEN row ELSE AlarmView(s)[b]
  BY WriteType, ViewType
<1>7. QED
  BY <1>1, <1>4, <1>5, <1>6

\* An alarm that is written is locked, or new and written under the gate.
LEMMA WriteKeepsRows ==
  ASSUME TypeOK, LockType, NEW s \in Sessions, SessionInv(s),
         NEW a \in AlarmIds, NEW row \in AlarmRow,
         WriteAlarm(s, a, row), UNCHANGED tables, held[s] \subseteq held'[s],
         OrderCounted(row),
         LET mine == Channel(row.channel) \in held'[s] IN
           IF Exists(alarms[a])
             THEN /\ Alarm(a) \in held'[s]
                  /\ Later(row, alarms[a])
                  /\ mine \/ ByOperator(row, alarms[a])
             ELSE Gate \in held'[s] /\ mine
  PROVE  WritesLocked(s)' /\ ReadingsKept(s)' /\ OrdersCounted(s)'
<1>1. alarms' = alarms /\ channels' = channels
  BY DEF tables
<1>2. WritesLocked(s)'
  BY <1>1, WriteType DEF SessionInv, WritesLocked
<1>3. ReadingsKept(s)'
  BY <1>1, WriteType DEF SessionInv, ReadingsKept
<1>4. OrdersCounted(s)'
  BY WriteType DEF SessionInv, OrdersCounted
<1>5. QED
  BY <1>2, <1>3, <1>4

\* What is seen of an alarm counts its order.
LEMMA SeenOrders ==
  ASSUME TypeOK, LockType, OneWorkOrderPerAlarm, NEW s \in Sessions, OrdersCounted(s),
         NEW a \in AlarmIds, Exists(AlarmView(s)[a])
  PROVE  AlarmView(s)[a] \in AlarmRow /\ OrderCounted(AlarmView(s)[a])
<1>1. AlarmView(s)[a] \in AlarmRow
  BY ViewType, RowOrNone DEF AlarmTable
<1>2. CASE a \in DOMAIN draft[s].alarms
  BY <1>1, <1>2, ViewType DEF OrdersCounted
<1>3. CASE a \notin DOMAIN draft[s].alarms
  BY <1>1, <1>3, ViewType, RowType DEF OneWorkOrderPerAlarm, OrderCounted
<1>4. QED
  BY <1>2, <1>3

-----------------------------------------------------------------------------
\* Views after a write

\* An alarm that is updated stays in its channel and does not become active.
Settles(new, old) ==
  /\ new.channel = old.channel
  /\ new.status \in Active => old.status \in Active

LEMMA UpdateKeepsLast ==
  ASSUME NEW view \in AlarmTable, ActiveIsLast(view), NEW a \in AlarmIds, Exists(view[a]),
         NEW row \in AlarmRow, Settles(row, view[a])
  PROVE  ActiveIsLast([view EXCEPT ![a] = row])
BY DEF ActiveIsLast, Settles, AlarmTable

LEMMA OpenKeepsLast ==
  ASSUME NEW view \in AlarmTable, ActiveIsLast(view), NEW a \in AlarmIds,
         NEW row \in AlarmRow,
         \A b \in AlarmIds : Exists(view[b]) => b <= a,
         \A b \in AlarmIds : view[b].status \in Active => view[b].channel # row.channel
  PROVE  ActiveIsLast([view EXCEPT ![a] = row])
<1> DEFINE new == [view EXCEPT ![a] = row]
<1> SUFFICES ASSUME NEW x \in AlarmIds, NEW y \in AlarmIds, new[x].status \in Active,
                    Exists(new[y]), new[y].channel = new[x].channel
             PROVE  y <= x
  BY DEF ActiveIsLast
<1>1. \A b \in AlarmIds : new[b] = IF b = a THEN row ELSE view[b]
  BY DEF AlarmTable
<1>2. CASE x = a
  BY <1>1, <1>2 DEF AlarmIds
<1>3. CASE x # a /\ y = a
  BY <1>1, <1>3
<1>4. CASE x # a /\ y # a
  BY <1>1, <1>4 DEF ActiveIsLast
<1>5. QED
  BY <1>2, <1>3, <1>4

\* Alarms of other channels do not matter to a channel.
LEMMA OtherAgrees ==
  ASSUME NEW rows, NEW view \in AlarmTable, NEW c \in Channels, Agrees(rows, view, c),
         NEW a \in AlarmIds, NEW row \in AlarmRow, row.channel # c,
         Exists(view[a]) => view[a].channel # c
  PROVE  Agrees(rows, [view EXCEPT ![a] = row], c)
<1> DEFINE new == [view EXCEPT ![a] = row]
<1>1. \A b \in AlarmIds : new[b] = IF b = a THEN row ELSE view[b]
  BY DEF AlarmTable
<1>2. \A b \in AlarmIds : (Exists(new[b]) /\ new[b].channel = c)
                            <=> (Exists(view[b]) /\ view[b].channel = c)
  BY <1>1
<1>3. \A b \in AlarmIds : (Exists(new[b]) /\ new[b].channel = c) => new[b] = view[b]
  BY <1>1
<1> HIDE DEF new
<1>4. Agrees(rows, new, c)
  BY <1>2, <1>3 DEF Agrees
<1>5. QED
  BY <1>4 DEF new

\* Nor does what an operator changes.
LEMMA OperatorAgrees ==
  ASSUME NEW rows, NEW view \in AlarmTable, NEW c \in Channels, Agrees(rows, view, c),
         NEW a \in AlarmIds, Exists(view[a]), NEW row \in AlarmRow,
         Settles(row, view[a]), ByOperator(row, view[a])
  PROVE  Agrees(rows, [view EXCEPT ![a] = row], c)
<1> DEFINE new == [view EXCEPT ![a] = row]
           level == Level(c, rows[c].value)
<1>1. \A b \in AlarmIds : new[b] = IF b = a THEN row ELSE view[b]
  BY DEF AlarmTable
<1>2. \A b \in AlarmIds :
        /\ Exists(new[b]) <=> Exists(view[b])
        /\ new[b].channel = view[b].channel
        /\ new[b].severity = view[b].severity
        /\ new[b].status \in Active => view[b].status \in Active
        /\ new[b].status = "Cleared" => view[b].status = "Cleared"
  BY <1>1, RowType DEF Settles, ByOperator
<1> HIDE DEF new
<1>3. Agrees(rows, new, c)
  BY <1>2 DEF Agrees
<1>4. QED
  BY <1>3 DEF new

\* The agreement of a channel is that of its live value.
LEMMA SameValueAgrees ==
  ASSUME NEW old, NEW new, NEW view, NEW c, Agrees(old, view, c), new[c].value = old[c].value
  PROVE  Agrees(new, view, c)
BY DEF Agrees

-----------------------------------------------------------------------------
\* Batches

LEMMA RequestFields ==
  ASSUME AlarmsAssumption, TypeOK, NEW s \in Sessions
  PROVE  /\ request[s].op = "ingest" =>
              /\ request[s].readings \in Batches
              /\ request[s] # Idle
         /\ request[s].op \in Actions =>
              /\ request[s].alarm \in AlarmIds
              /\ request[s].op # "ingest"
              /\ request[s] # Idle
         /\ request[s] # Idle => request[s].op = "ingest" \/ request[s].op \in Actions
BY DEF AlarmsAssumption, TypeOK, Requests, Idle

LEMMA BatchType ==
  ASSUME AlarmsAssumption, NEW b \in Batches
  PROVE  /\ Len(b) \in Nat \ {0}
         /\ DOMAIN b = 1..Len(b)
         /\ \A i \in 1..Len(b) : /\ b[i].channel \in Channels /\ b[i].value \in Int
                                 /\ b[i].at \in 0..MaxInstant
<1> DEFINE R == [channel : Channels, value : Int, at : 0..MaxInstant]
<1>1. b \in Seq(R) /\ b # <<>>
  BY DEF AlarmsAssumption
<1>2. Len(b) \in Nat \ {0}
  BY <1>1, EmptySeq
<1> HIDE DEF R
<1>3. DOMAIN b = 1..Len(b) /\ \A i \in 1..Len(b) : b[i] \in R
  BY <1>1, LenProperties, ElementOfSeq
<1> USE DEF R
<1>4. QED
  BY <1>2, <1>3

LEMMA ReadingType ==
  ASSUME AlarmsAssumption, TypeOK, NEW s \in Sessions, SessionInv(s), Reads(s)
  PROVE  /\ Reading(s).channel \in Channels
         /\ Reading(s).value \in Int
         /\ Reading(s).at \in 0..MaxInstant
         /\ Channel(Reading(s).channel) \in held[s]
         /\ pos[s] \in 1..Len(request[s].readings)
         /\ Len(request[s].readings) \in Nat
<1>1. request[s].readings \in Batches
  BY RequestFields DEF Reads
<1>2. /\ pos[s] \in 1..Len(request[s].readings)
      /\ \A c \in BatchChannels(s) : Channel(c) \in held[s]
  BY DEF SessionInv, IngestionState
<1>3. Reading(s).channel \in BatchChannels(s)
  BY <1>1, <1>2, BatchType DEF Reading, BatchChannels
<1>4. QED
  BY <1>1, <1>2, <1>3, BatchType DEF Reading

\* The next reading of the batch, or the end of it.
LEMMA NextReadingType ==
  ASSUME AlarmsAssumption, TypeOK, NEW s \in Sessions, SessionInv(s), Reads(s), NextReading(s)
  PROVE  /\ phase' \in [Sessions ->
              {"idle", "lock", "reading", "alarm", "gate", "log", "commit"}]
         /\ phase'[s] \in {"reading", "commit"}
         /\ pos' \in [Sessions -> Nat]
         /\ pos'[s] \in 1..Len(request[s].readings)
         /\ \A t \in Sessions \ {s} : phase'[t] = phase[t] /\ pos'[t] = pos[t]
<1>1. pos[s] \in 1..Len(request[s].readings) /\ Len(request[s].readings) \in Nat
  BY ReadingType
<1>2. CASE pos[s] = Len(request[s].readings)
  BY <1>1, <1>2 DEF NextReading, TypeOK
<1>3. CASE pos[s] # Len(request[s].readings)
  <2>1. /\ phase' = [phase EXCEPT ![s] = "reading"]
        /\ pos' = [pos EXCEPT ![s] = pos[s] + 1]
    BY <1>3 DEF NextReading
  <2>2. pos[s] + 1 \in 1..Len(request[s].readings)
    BY <1>1, <1>3
  <2>3. QED
    BY <2>1, <2>2 DEF TypeOK
<1>4. QED
  BY <1>2, <1>3

-----------------------------------------------------------------------------
\* Steps that write nothing

Phases == {"idle", "lock", "reading", "alarm", "gate", "log", "commit"}

\* The types after a step that does not end a request.
LEMMA StepType ==
  ASSUME TypeOK, NEW s \in Sessions, OnlyMoves(s), UNCHANGED <<tables, clock>>,
         request' \in [Sessions -> Requests \union {Idle}], request'[s] # Idle,
         phase' \in [Sessions -> Phases], phase'[s] # "idle",
         pos' \in [Sessions -> Nat], found' \in [Sessions -> 0..MaxAlarms],
         LockType', ReadingsKept(s)'
  PROVE  TypeOK'
<1>1. /\ channels' \in [Channels -> ChannelRow]
      /\ alarms' \in [AlarmIds -> AlarmRow \union {NoAlarm}]
      /\ clock' \in 1..MaxInstant
  BY DEF TypeOK, tables
<1>2. ASSUME NEW t \in Sessions
      PROVE  /\ \A c \in DOMAIN draft'[t].channels : draft'[t].channels[c] \in ChannelRow
             /\ \A a \in DOMAIN draft'[t].alarms : draft'[t].alarms[a] \in AlarmRow
  BY DEF LockType, Drafts, Written
<1>3. ASSUME NEW t \in Sessions
      PROVE  /\ \A c \in DOMAIN draft'[t].channels : Channel(c) \in held'[t]
             /\ phase'[t] = "idle" <=> request'[t] = Idle
             /\ phase'[t] = "idle" => held'[t] = {} /\ draft'[t] = Clean
  BY DEF TypeOK, OnlyMoves, ReadingsKept
<1>4. QED
  BY <1>1, <1>2, <1>3 DEF TypeOK, Phases

LEMMA SubmitStep ==
  ASSUME AlarmsAssumption, TypeOK, LockType, NEW s \in Sessions, SessionInv(s), Submit(s)
  PROVE  OnlyMoves(s) /\ TypeOK' /\ LockType' /\ SessionInv(s)'
<1>1. PICK rq \in Requests :
        /\ Begin(s, rq)
        /\ rq.op = "ingest" \/ rq.op \in Actions
        /\ rq.op \in Actions => rq.op # "ingest" /\ Exists(alarms[rq.alarm])
  <2>1. CASE \E b \in Batches : Begin(s, [op |-> "ingest", readings |-> b])
    BY <2>1 DEF AlarmsAssumption, Requests
  <2>2. CASE \E op \in Actions, a \in AlarmIds :
               alarms[a] # NoAlarm /\ Begin(s, [op |-> op, alarm |-> a])
    <3>1. PICK op \in Actions, a \in AlarmIds :
            alarms[a] # NoAlarm /\ Begin(s, [op |-> op, alarm |-> a])
      BY <2>2
    <3>2. Exists(alarms[a])
      BY <3>1, RowOrNone DEF TypeOK
    <3>3. op # "ingest"
      BY DEF AlarmsAssumption
    <3>4. [op |-> op, alarm |-> a] \in Requests
      BY DEF Requests
    <3>5. QED
      BY <3>1, <3>2, <3>3, <3>4
  <2>3. QED
    BY <2>1, <2>2 DEF Submit
<1>2. /\ request'[s] = rq /\ phase'[s] = "lock" /\ rq # Idle
      /\ request' \in [Sessions -> Requests \union {Idle}]
      /\ phase' \in [Sessions -> Phases]
  BY <1>1 DEF TypeOK, Begin, Phases, Idle, AlarmsAssumption
<1>3. /\ UNCHANGED <<tables, clock, pos, found, draft, held>>
      /\ draft'[s] = draft[s] /\ held'[s] = held[s]
  BY <1>1 DEF Begin
<1>4. OnlyMoves(s)
  BY <1>1 DEF OnlyMoves, Begin, TypeOK
<1>5. LockType'
  BY <1>3 DEF LockType
<1>6. draft[s] = Clean /\ pos[s] = 1 /\ phase[s] = "idle"
  BY DEF SessionInv, IngestionState, Submit
<1>7. /\ AlarmView(s)' = AlarmView(s) /\ ChannelView(s)' = ChannelView(s)
      /\ WritesLocked(s)' /\ ReadingsKept(s)'
      /\ ActiveIsLast(AlarmView(s))' /\ OrdersCounted(s)'
  BY <1>3, SameWrites
<1>8. TypeOK'
  BY <1>2, <1>3, <1>4, <1>5, <1>7, StepType DEF TypeOK
<1>9. ViewAgrees(s)'
  BY <1>2, <1>6, <1>7 DEF SessionInv, ViewAgrees, Evaluates, Agrees
<1>10. IngestionState(s)'
  BY <1>2, <1>3, <1>6 DEF IngestionState, Reads, Evaluates
<1>11. AlarmFound(s)' /\ NoneActive(s)'
  BY <1>2 DEF AlarmFound, NoneActive
<1>12. OperatorState(s)'
  BY <1>1, <1>2, <1>3 DEF OperatorState, tables
<1>13. QED
  BY <1>4, <1>5, <1>7, <1>8, <1>9, <1>10, <1>11, <1>12 DEF SessionInv

LEMMA LockChannelStep ==
  ASSUME AlarmsAssumption, TypeOK, LockType, NEW s \in Sessions, SessionInv(s), LockChannel(s)
  PROVE  OnlyMoves(s) /\ TypeOK' /\ LockType' /\ SessionInv(s)'
<1> DEFINE rest == {c \in BatchChannels(s) : Channel(c) \notin held[s]}
<1>1. /\ request[s].op = "ingest" /\ request[s] # Idle /\ request[s].readings \in Batches
      /\ request[s].op \notin Actions
  BY RequestFields DEF LockChannel
<1>2. BatchChannels(s) \subseteq Channels
  <2>1. /\ DOMAIN request[s].readings = 1..Len(request[s].readings)
        /\ \A i \in 1..Len(request[s].readings) : request[s].readings[i].channel \in Channels
    BY <1>1, BatchType
  <2>2. QED
    BY <2>1 DEF BatchChannels
<1>3. PICK c \in rest :
        /\ Take(s, Channel(c))
        /\ phase' = [phase EXCEPT ![s] = IF rest = {c} THEN "reading" ELSE "lock"]
  BY DEF LockChannel
<1>4. UNCHANGED <<tables, clock, request, pos, found, draft>>
  BY DEF LockChannel
<1>5. /\ held' \in [Sessions -> SUBSET Locks]
      /\ \A t, u \in Sessions : t # u => held'[t] \intersect held'[u] = {}
      /\ held'[s] = held[s] \union {Channel(c)}
  BY <1>2, <1>3, TakeLock, LockNames
<1>6. LockType'
  BY <1>4, <1>5 DEF LockType
<1>7. OnlyMoves(s)
  BY <1>3, <1>4 DEF OnlyMoves, Take, TypeOK, LockType
<1>8. /\ phase' \in [Sessions -> Phases] /\ phase'[s] \in {"lock", "reading"}
      /\ phase'[s] = "reading" => rest = {c}
  BY <1>3 DEF TypeOK, Phases
<1>9. /\ AlarmView(s)' = AlarmView(s) /\ ChannelView(s)' = ChannelView(s)
      /\ WritesLocked(s)' /\ ReadingsKept(s)'
      /\ ActiveIsLast(AlarmView(s))' /\ OrdersCounted(s)'
  BY <1>4, <1>5, SameWrites
<1>10. TypeOK'
  BY <1>1, <1>4, <1>6, <1>7, <1>8, <1>9, StepType DEF TypeOK
<1>11. phase[s] = "lock" /\ draft[s] = Clean /\ pos[s] = 1
  BY DEF LockChannel, SessionInv, IngestionState
<1>12. ViewAgrees(s)'
  BY <1>8, <1>9, <1>11 DEF SessionInv, ViewAgrees, Evaluates, Agrees
<1>13. IngestionState(s)'
  <2>1. phase'[s] = "reading" => \A d \in BatchChannels(s) : Channel(d) \in held'[s]
    BY <1>5, <1>8
  <2>2. 1 \in 1..Len(request[s].readings)
    BY <1>1, BatchType
  <2>3. BatchChannels(s)' = BatchChannels(s)
    BY <1>4 DEF BatchChannels
  <2>4. QED
    BY <2>1, <2>2, <2>3, <1>1, <1>4, <1>8, <1>11 DEF IngestionState, Reads, Evaluates
<1>14. AlarmFound(s)' /\ NoneActive(s)'
  BY <1>8 DEF AlarmFound, NoneActive
<1>15. OperatorState(s)'
  BY <1>1, <1>4 DEF OperatorState
<1>16. QED
  BY <1>6, <1>7, <1>9, <1>10, <1>12, <1>13, <1>14, <1>15 DEF SessionInv

\* An ingestion that has settled the alarm of its reading.
LEMMA SettledState ==
  ASSUME AlarmsAssumption, TypeOK, NEW s \in Sessions, SessionInv(s), Reads(s),
         phase'[s] \in {"reading", "log", "commit"}, request'[s] = request[s],
         pos'[s] \in 1..Len(request[s].readings), held[s] \subseteq held'[s]
  PROVE  IngestionState(s)' /\ AlarmFound(s)' /\ NoneActive(s)' /\ OperatorState(s)'
<1>1. request[s].op = "ingest" /\ request[s].op \notin Actions
  BY RequestFields DEF Reads
<1>2. BatchChannels(s)' = BatchChannels(s)
  BY DEF BatchChannels
<1>3. \A c \in BatchChannels(s) : Channel(c) \in held[s]
  BY DEF SessionInv, IngestionState
<1>4. IngestionState(s)'
  BY <1>1, <1>2, <1>3 DEF IngestionState, Reads, Evaluates
<1>5. AlarmFound(s)' /\ NoneActive(s)'
  BY DEF AlarmFound, NoneActive
<1>6. OperatorState(s)'
  BY <1>1 DEF OperatorState
<1>7. QED
  BY <1>4, <1>5, <1>6

LEMMA LogReadingStep ==
  ASSUME AlarmsAssumption, TypeOK, LockType, NEW s \in Sessions, SessionInv(s), LogReading(s)
  PROVE  OnlyMoves(s) /\ TypeOK' /\ LockType' /\ SessionInv(s)'
<1>1. phase[s] = "log" /\ request[s].op = "ingest" /\ Reads(s) /\ request[s] # Idle
  BY RequestFields DEF LogReading, SessionInv, IngestionState, Reads
<1>2. UNCHANGED <<tables, clock, request, found, draft>> /\ NextReading(s)
  BY DEF LogReading
<1>3. /\ held' \in [Sessions -> SUBSET Locks]
      /\ \A t, u \in Sessions : t # u => held'[t] \intersect held'[u] = {}
      /\ held'[s] = held[s] \union {Audit}
  BY TakeLock, LockNames DEF LogReading
<1>4. LockType'
  BY <1>2, <1>3 DEF LockType
<1>5. /\ phase' \in [Sessions -> Phases] /\ phase'[s] \in {"reading", "commit"}
      /\ pos' \in [Sessions -> Nat] /\ pos'[s] \in 1..Len(request[s].readings)
      /\ \A t \in Sessions \ {s} : phase'[t] = phase[t] /\ pos'[t] = pos[t]
  BY <1>1, <1>2, NextReadingType DEF Phases
<1>6. OnlyMoves(s)
  BY <1>2, <1>5 DEF OnlyMoves, LogReading, Take, LockType
<1>7. /\ AlarmView(s)' = AlarmView(s) /\ ChannelView(s)' = ChannelView(s)
      /\ WritesLocked(s)' /\ ReadingsKept(s)'
      /\ ActiveIsLast(AlarmView(s))' /\ OrdersCounted(s)'
  BY <1>2, <1>3, SameWrites
<1>8. TypeOK'
  BY <1>1, <1>2, <1>4, <1>5, <1>6, <1>7, StepType DEF TypeOK
<1>9. ViewAgrees(s)'
  BY <1>1, <1>5, <1>7 DEF SessionInv, ViewAgrees, Evaluates, Agrees
<1>10. IngestionState(s)' /\ AlarmFound(s)' /\ NoneActive(s)' /\ OperatorState(s)'
  BY <1>1, <1>2, <1>3, <1>5, SettledState
<1>11. QED
  BY <1>4, <1>6, <1>7, <1>8, <1>9, <1>10 DEF SessionInv

LEMMA LockForWorkStep ==
  ASSUME AlarmsAssumption, TypeOK, LockType, NEW s \in Sessions, SessionInv(s), LockForWork(s)
  PROVE  OnlyMoves(s) /\ TypeOK' /\ LockType' /\ SessionInv(s)'
<1> DEFINE a == request[s].alarm
<1>1. phase[s] = "lock" /\ request[s].op = "work"
  BY DEF LockForWork
<1>2. draft[s] = Clean /\ pos[s] = 1
  BY <1>1 DEF SessionInv, IngestionState
<1>3. request[s].op \in Actions /\ a \in AlarmIds /\ request[s] # Idle
  BY <1>1, RequestFields DEF TypeOK
<1>4. UNCHANGED <<tables, clock, request, pos, found, draft>> /\ Take(s, Alarm(a))
  BY DEF LockForWork
<1>5. /\ held' \in [Sessions -> SUBSET Locks]
      /\ \A t, u \in Sessions : t # u => held'[t] \intersect held'[u] = {}
      /\ held'[s] = held[s] \union {Alarm(a)}
  BY <1>3, <1>4, TakeLock, LockNames
<1>6. LockType'
  BY <1>4, <1>5 DEF LockType
<1>7. phase' \in [Sessions -> Phases] /\ phase'[s] = "gate"
  BY DEF LockForWork, TypeOK, Phases
<1>8. OnlyMoves(s)
  BY <1>4 DEF OnlyMoves, LockForWork, Take, TypeOK, LockType
<1>9. /\ AlarmView(s)' = AlarmView(s) /\ ChannelView(s)' = ChannelView(s)
      /\ WritesLocked(s)' /\ ReadingsKept(s)'
      /\ ActiveIsLast(AlarmView(s))' /\ OrdersCounted(s)'
  BY <1>4, <1>5, SameWrites
<1>10. TypeOK'
  BY <1>3, <1>4, <1>6, <1>7, <1>8, <1>9, StepType DEF TypeOK
<1>11. ViewAgrees(s)'
  BY <1>1, <1>4, <1>9 DEF SessionInv, ViewAgrees, Evaluates, Agrees
<1>12. IngestionState(s)'
  BY <1>1, <1>4, <1>7 DEF IngestionState, Reads, Evaluates
<1>13. AlarmFound(s)' /\ NoneActive(s)'
  BY <1>1, <1>4, <1>7 DEF AlarmFound, NoneActive
<1>14. ~alarms[a].linked
  BY <1>2, <1>3, ViewType, CleanType DEF LockForWork
<1>15. OperatorState(s)'
  BY <1>1, <1>2, <1>3, <1>4, <1>5, <1>14 DEF SessionInv, OperatorState, tables
<1>16. QED
  BY <1>6, <1>8, <1>9, <1>10, <1>11, <1>12, <1>13, <1>15 DEF SessionInv

-----------------------------------------------------------------------------
\* Steps of operators that write

\* A row that is seen and was committed is a later state of the committed one.
LEMMA SeenLater ==
  ASSUME TypeOK, LockType, NEW s \in Sessions, SessionInv(s), NEW a \in AlarmIds,
         Exists(alarms[a])
  PROVE  /\ AlarmView(s)[a] \in AlarmRow
         /\ alarms[a] \in AlarmRow
         /\ Later(AlarmView(s)[a], alarms[a])
<1>1. alarms[a] \in AlarmRow
  BY RowOrNone DEF TypeOK
<1>2. CASE a \in DOMAIN draft[s].alarms
  BY <1>1, <1>2, ViewType, DraftType DEF SessionInv, WritesLocked
<1>3. CASE a \notin DOMAIN draft[s].alarms
  BY <1>1, <1>3, ViewType, RowType DEF Later
<1>4. QED
  BY <1>1, <1>2, <1>3

LEMMA CleanView ==
  ASSUME TypeOK, LockType, NEW s \in Sessions, draft[s] = Clean
  PROVE  \A a \in AlarmIds : AlarmView(s)[a] = alarms[a]
BY ViewType, CleanType

\* An operator's session writes its alarm and goes on to the commit.
LEMMA OperatorWrite ==
  ASSUME AlarmsAssumption, TypeOK, LockType, NEW s \in Sessions, SessionInv(s),
         request[s].op \in Actions, draft[s] = Clean,
         UNCHANGED <<tables, clock, request, pos, found>>,
         phase' = [phase EXCEPT ![s] = "commit"],
         NEW row \in AlarmRow, NEW lock \in Locks, Take(s, lock),
         WriteAlarm(s, request[s].alarm, row),
         Alarm(request[s].alarm) \in held'[s],
         LET old == alarms[request[s].alarm] IN
           /\ Later(row, old) /\ ByOperator(row, old)
           /\ row.status \in Active => old.status \in Active,
         OrderCounted(row)
  PROVE  OnlyMoves(s) /\ TypeOK' /\ LockType' /\ SessionInv(s)'
<1> DEFINE a == request[s].alarm
<1>1. a \in AlarmIds /\ request[s] # Idle /\ request[s].op # "ingest"
  BY RequestFields
<1>2. Exists(alarms[a])
  BY DEF SessionInv, OperatorState
<1>3. /\ held' \in [Sessions -> SUBSET Locks]
      /\ \A t, u \in Sessions : t # u => held'[t] \intersect held'[u] = {}
      /\ held'[s] = held[s] \union {lock}
  BY TakeLock
<1>4. LockType'
  BY <1>1, <1>3, WriteType DEF LockType
<1>5. phase' \in [Sessions -> Phases] /\ phase'[s] = "commit"
  BY DEF TypeOK, Phases
<1>6. OnlyMoves(s)
  BY DEF OnlyMoves, Take, WriteAlarm, TypeOK, LockType
<1>7. /\ AlarmView(s)' = [AlarmView(s) EXCEPT ![a] = row]
      /\ ChannelView(s)' = ChannelView(s)
  BY <1>1, WrittenView
<1>8. WritesLocked(s)' /\ ReadingsKept(s)' /\ OrdersCounted(s)'
  BY <1>1, <1>2, <1>3, WriteKeepsRows
<1>9. TypeOK'
  BY <1>1, <1>4, <1>5, <1>6, <1>8, StepType DEF TypeOK
<1>10. AlarmView(s)[a] = alarms[a] /\ AlarmView(s) \in AlarmTable
  BY <1>1, CleanView, ViewType
<1>11. Settles(row, AlarmView(s)[a]) /\ ByOperator(row, AlarmView(s)[a])
  BY <1>10 DEF Settles, Later
<1>12. ActiveIsLast(AlarmView(s))'
  <2>1. ActiveIsLast(AlarmView(s)) /\ Exists(AlarmView(s)[a])
    BY <1>2, <1>10 DEF SessionInv
  <2>2. ActiveIsLast([AlarmView(s) EXCEPT ![a] = row])
    BY <2>1, <1>1, <1>10, <1>11, UpdateKeepsLast
  <2>3. QED
    BY <2>2, <1>7 DEF ActiveIsLast
<1>13. ViewAgrees(s)'
  <2>1. \A c \in Channels : Agrees(ChannelView(s), AlarmView(s), c)
    BY <1>1 DEF SessionInv, ViewAgrees, Evaluates
  <2>2. \A c \in Channels : Agrees(ChannelView(s), [AlarmView(s) EXCEPT ![a] = row], c)
    BY <2>1, <1>1, <1>2, <1>10, <1>11, OperatorAgrees
  <2>3. QED
    BY <2>2, <1>7 DEF ViewAgrees, Agrees
<1>14. IngestionState(s)'
  BY <1>1, <1>5 DEF IngestionState, Reads, Evaluates
<1>15. AlarmFound(s)' /\ NoneActive(s)'
  BY <1>5 DEF AlarmFound, NoneActive
<1>16. OperatorState(s)'
  BY <1>2, <1>5 DEF OperatorState, tables
<1>17. QED
  BY <1>4, <1>6, <1>8, <1>9, <1>12, <1>13, <1>14, <1>15, <1>16 DEF SessionInv

LEMMA ChangeAlarmStep ==
  ASSUME AlarmsAssumption, TypeOK, LockType, OneWorkOrderPerAlarm, NEW s \in Sessions,
         SessionInv(s), ChangeAlarm(s)
  PROVE  OnlyMoves(s) /\ TypeOK' /\ LockType' /\ SessionInv(s)'
<1> DEFINE a == request[s].alarm
           old == alarms[a]
<1>1. phase[s] = "lock" /\ draft[s] = Clean /\ request[s] # Idle
  BY DEF ChangeAlarm, SessionInv, IngestionState, TypeOK
<1>2. request[s].op \in Actions /\ a \in AlarmIds
  BY <1>1, RequestFields DEF ChangeAlarm
<1>3. AlarmView(s)[a] = old
  BY <1>1, <1>2, CleanView
<1>4. old \in AlarmRow /\ OrderCounted(old)
  BY <1>2, <1>3, SeenOrders, RowOrNone DEF SessionInv, OperatorState
<1>5. PICK status \in {"Acknowledged", "Closed"} :
        /\ WriteAlarm(s, a, [old EXCEPT !.status = status])
        /\ status = "Acknowledged" => old.status = "Open"
  BY <1>3 DEF ChangeAlarm
<1> DEFINE row == [old EXCEPT !.status = status]
<1>6. /\ row \in AlarmRow /\ row.status = status
      /\ row.channel = old.channel /\ row.severity = old.severity
      /\ row.linked = old.linked /\ row.orders = old.orders
  <2>1. status \in Statuses
    BY DEF Statuses
  <2>2. QED
    BY <2>1, <1>4, StatusUpdate, Zenon
<1> HIDE DEF row
<1>7. Later(row, old) /\ ByOperator(row, old) /\ OrderCounted(row)
  BY <1>4, <1>5, <1>6, RowType, Ranks DEF Later, ByOperator, OrderCounted, Statuses
<1>8. row.status \in Active => old.status \in Active
  BY <1>5, <1>6 DEF Active
<1>9. /\ Take(s, Alarm(a)) /\ phase' = [phase EXCEPT ![s] = "commit"]
      /\ UNCHANGED <<tables, clock, request, pos, found>>
  BY DEF ChangeAlarm
<1>10. Alarm(a) \in held'[s] /\ Alarm(a) \in Locks
  BY <1>2, <1>9, TakeLock, LockNames
<1>11. WriteAlarm(s, a, row)
  BY <1>5 DEF row
<1>12. QED
  BY <1>1, <1>2, <1>6, <1>7, <1>8, <1>9, <1>10, <1>11, OperatorWrite

LEMMA CreateWorkOrderStep ==
  ASSUME AlarmsAssumption, TypeOK, LockType, OneWorkOrderPerAlarm, NEW s \in Sessions,
         SessionInv(s), CreateWorkOrder(s)
  PROVE  OnlyMoves(s) /\ TypeOK' /\ LockType' /\ SessionInv(s)'
<1> DEFINE a == request[s].alarm
           old == alarms[a]
           row == [old EXCEPT !.linked = TRUE, !.orders = @ + 1]
<1>1. phase[s] = "gate" /\ request[s].op = "work" /\ request[s] # Idle
  BY DEF CreateWorkOrder, TypeOK
<1>2. request[s].op \in Actions /\ a \in AlarmIds
  BY <1>1, RequestFields
<1>3. draft[s] = Clean /\ Alarm(a) \in held[s] /\ ~old.linked /\ Exists(old)
  BY <1>1, <1>2 DEF SessionInv, OperatorState
<1>4. AlarmView(s)[a] = old
  BY <1>2, <1>3, CleanView
<1>5. old \in AlarmRow /\ OrderCounted(old)
  BY <1>2, <1>3, <1>4, SeenOrders DEF SessionInv
<1>6. /\ row \in AlarmRow /\ row.linked /\ row.orders = old.orders + 1
      /\ row.channel = old.channel /\ row.severity = old.severity
      /\ row.status = old.status
  BY <1>5, LinkUpdate
<1>7. WriteAlarm(s, a, row)
  BY <1>4 DEF CreateWorkOrder
<1> HIDE DEF row
<1>8. Later(row, old) /\ ByOperator(row, old) /\ OrderCounted(row)
  BY <1>3, <1>5, <1>6, RowType DEF Later, ByOperator, OrderCounted
<1>9. /\ Take(s, Gate) /\ phase' = [phase EXCEPT ![s] = "commit"]
      /\ UNCHANGED <<tables, clock, request, pos, found>>
  BY DEF CreateWorkOrder
<1>10. Alarm(a) \in held'[s] /\ Gate \in Locks
  BY <1>3, <1>9, TakeLock, LockNames
<1>11. QED
  BY <1>2, <1>3, <1>6, <1>7, <1>8, <1>9, <1>10, OperatorWrite

-----------------------------------------------------------------------------
\* Steps of an ingestion that write

\* The alarm of a reading is written and so settled.
LEMMA IngestionWrite ==
  ASSUME AlarmsAssumption, TypeOK, LockType, NEW s \in Sessions, SessionInv(s),
         Evaluates(s), Reads(s), OnlyMoves(s), UNCHANGED <<tables, clock, request, found>>,
         phase' \in [Sessions -> Phases], phase'[s] \in {"reading", "log", "commit"},
         pos' \in [Sessions -> Nat], pos'[s] \in 1..Len(request[s].readings),
         NEW lock \in Locks, Take(s, lock),
         NEW a \in AlarmIds, NEW row \in AlarmRow, WriteAlarm(s, a, row),
         row.channel = Reading(s).channel, OrderCounted(row),
         IF Exists(alarms[a]) THEN Alarm(a) \in held'[s] /\ Later(row, alarms[a])
                              ELSE Gate \in held'[s],
         Exists(AlarmView(s)[a]) => AlarmView(s)[a].channel = row.channel,
         ActiveIsLast([AlarmView(s) EXCEPT ![a] = row]),
         Agrees(ChannelView(s), [AlarmView(s) EXCEPT ![a] = row], row.channel)
  PROVE  TypeOK' /\ LockType' /\ SessionInv(s)'
<1> DEFINE view == [AlarmView(s) EXCEPT ![a] = row]
<1>1. /\ held' \in [Sessions -> SUBSET Locks]
      /\ \A t, u \in Sessions : t # u => held'[t] \intersect held'[u] = {}
      /\ held'[s] = held[s] \union {lock}
  BY TakeLock
<1>2. LockType'
  BY <1>1, WriteType DEF LockType
<1>3. AlarmView(s)' = view /\ ChannelView(s)' = ChannelView(s)
  BY WrittenView
<1>4. Channel(row.channel) \in held'[s]
  BY <1>1, ReadingType
<1>5. WritesLocked(s)' /\ ReadingsKept(s)' /\ OrdersCounted(s)'
  BY <1>1, <1>4, WriteKeepsRows
<1>6. request' \in [Sessions -> Requests \union {Idle}] /\ request'[s] # Idle
      /\ found' \in [Sessions -> 0..MaxAlarms]
  BY RequestFields DEF Reads, TypeOK
<1>7. TypeOK'
  BY <1>2, <1>5, <1>6, StepType
<1>8. ActiveIsLast(AlarmView(s))'
  BY <1>3 DEF ActiveIsLast
<1>9. ViewAgrees(s)'
  <2>1. \A c \in Channels \ {row.channel} : Agrees(ChannelView(s), AlarmView(s), c)
    BY DEF SessionInv, ViewAgrees
  <2>2. \A c \in Channels \ {row.channel} : Agrees(ChannelView(s), view, c)
    BY <2>1, ViewType, OtherAgrees
  <2>3. \A c \in Channels : Agrees(ChannelView(s), view, c)
    BY <2>2
  <2>4. QED
    BY <2>3, <1>3 DEF ViewAgrees, Agrees
<1>10. IngestionState(s)' /\ AlarmFound(s)' /\ NoneActive(s)' /\ OperatorState(s)'
  BY <1>1, SettledState
<1>11. QED
  BY <1>2, <1>5, <1>7, <1>8, <1>9, <1>10 DEF SessionInv

LEMMA OpenAlarmStep ==
  ASSUME AlarmsAssumption, TypeOK, LockType, NEW s \in Sessions, SessionInv(s), OpenAlarm(s)
  PROVE  OnlyMoves(s) /\ TypeOK' /\ LockType' /\ SessionInv(s)'
<1> DEFINE r == Reading(s)
           c == r.channel
           view == AlarmView(s)
<1>1. request[s].op = "ingest" /\ phase[s] = "gate" /\ Reads(s) /\ Evaluates(s)
  BY DEF OpenAlarm, Reads, Evaluates
<1>2. /\ UNCHANGED <<tables, clock, request, pos, found>> /\ Take(s, Gate)
      /\ phase' = [phase EXCEPT ![s] = "log"]
  BY DEF OpenAlarm
<1>3. /\ c \in Channels /\ pos[s] \in 1..Len(request[s].readings)
      /\ Level(c, r.value) \in {"Critical", "Warning"}
      /\ \A b \in AlarmIds : view[b].status \in Active => view[b].channel # c
  BY <1>1, ReadingType, LevelType DEF SessionInv, NoneActive
<1>4. PICK a \in AlarmIds :
        /\ {b \in AlarmIds : view[b] # NoAlarm} = 1..(a - 1)
        /\ WriteAlarm(s, a, [status |-> "Open", channel |-> c,
             severity |-> Level(c, r.value), linked |-> FALSE, orders |-> 0])
  BY DEF OpenAlarm
<1> DEFINE row == [status |-> "Open", channel |-> c,
                   severity |-> Level(c, r.value), linked |-> FALSE, orders |-> 0]
<1>5. /\ row \in AlarmRow /\ row.channel = c /\ row.status = "Open"
      /\ row.severity = Level(c, r.value) /\ OrderCounted(row)
  BY <1>3 DEF AlarmRow, Active, OrderCounted
<1> HIDE DEF row
<1>6. WriteAlarm(s, a, row)
  BY <1>4 DEF row
<1>7. view[a] = NoAlarm /\ \A b \in AlarmIds : Exists(view[b]) => b <= a /\ b # a
  <2>1. view[a] = NoAlarm
    BY <1>4 DEF AlarmIds
  <2>2. \A b \in AlarmIds : Exists(view[b]) => b \in 1..(a - 1)
    BY <1>4, ViewType, RowOrNone DEF AlarmTable
  <2>3. QED
    BY <2>1, <2>2 DEF AlarmIds
<1>8. ~Exists(alarms[a])
  BY <1>7, SeenLater, RowType
<1>9. ~Exists(view[a])
  BY <1>7 DEF Exists, NoAlarm
<1>10. ActiveIsLast([view EXCEPT ![a] = row])
  BY <1>3, <1>5, <1>7, ViewType, OpenKeepsLast DEF SessionInv
<1>11. Agrees(ChannelView(s), [view EXCEPT ![a] = row], c)
  <2>1. ChannelView(s)[c].value = r.value
    BY <1>1, <1>3, ViewType DEF SessionInv, IngestionState
  <2>2. \A b \in AlarmIds : [view EXCEPT ![a] = row][b] = IF b = a THEN row ELSE view[b]
    BY ViewType DEF AlarmTable
  <2>3. \A b \in AlarmIds \ {a} : Exists(view[b]) => a > b
    BY <1>7 DEF AlarmIds
  <2>4. Exists(row)
    BY <1>5, RowType
  <2>5. QED
    BY <2>1, <2>2, <2>3, <2>4, <1>3, <1>5 DEF Agrees
<1>12. OnlyMoves(s)
  BY <1>2, <1>6 DEF OnlyMoves, Take, WriteAlarm, TypeOK, LockType
<1>13. phase' \in [Sessions -> Phases] /\ phase'[s] = "log"
  BY <1>2 DEF TypeOK, Phases
<1>14. pos' \in [Sessions -> Nat] /\ pos'[s] \in 1..Len(request[s].readings)
  BY <1>2, <1>3 DEF TypeOK
<1>15. Gate \in held'[s] /\ Gate \in Locks
  BY <1>2, TakeLock, LockNames
<1>16. TypeOK' /\ LockType' /\ SessionInv(s)'
  BY <1>1, <1>2, <1>5, <1>6, <1>8, <1>9, <1>10, <1>11, <1>12, <1>13, <1>14, <1>15,
     IngestionWrite
<1>17. QED
  BY <1>12, <1>16

\* Nothing is active in a channel but the alarm that was found.
LEMMA FoundAgrees ==
  ASSUME NEW rows, NEW view \in AlarmTable, ActiveIsLast(view), NEW a \in AlarmIds,
         NEW c \in Channels, Exists(view[a]), view[a].channel = c,
         \A b \in AlarmIds : view[b].status \in Active /\ view[b].channel = c => b = a,
         NEW row \in AlarmRow, row.channel = c,
         \/ /\ view[a].status \in Active /\ row.status = view[a].status
            /\ row.severity = Level(c, rows[c].value)
         \/ row.status = "Cleared" /\ Level(c, rows[c].value) = "Normal"
  PROVE  Agrees(rows, [view EXCEPT ![a] = row], c)
<1> DEFINE new == [view EXCEPT ![a] = row]
<1>1. \A b \in AlarmIds : new[b] = IF b = a THEN row ELSE view[b]
  BY DEF AlarmTable
<1>2. Exists(row)
  BY RowType
<1> HIDE DEF new
<1>3. ASSUME row.status = "Cleared", Level(c, rows[c].value) = "Normal"
      PROVE  Agrees(rows, new, c)
  <2>1. \A b \in AlarmIds : Exists(new[b]) /\ new[b].channel = c => new[b].status \notin Active
    BY <1>1, <1>3, RowOrNone DEF AlarmTable, Active
  <2>2. QED
    BY <1>3, <2>1 DEF Agrees
<1>4. ASSUME view[a].status \in Active, row.status = view[a].status,
             row.severity = Level(c, rows[c].value)
      PROVE  Agrees(rows, new, c)
  <2>1. \A b \in AlarmIds : Exists(view[b]) /\ view[b].channel = c => b <= a
    BY <1>4 DEF ActiveIsLast
  <2>2. row.status # "Cleared"
    BY <1>4 DEF Active
  <2>3. \A b \in AlarmIds : Exists(new[b]) /\ new[b].channel = c /\ b # a => a > b
    BY <2>1, <1>1 DEF AlarmIds
  <2>4. Exists(new[a]) /\ new[a].channel = c
    BY <1>1, <1>2
  <2>5. ASSUME NEW b \in AlarmIds, Exists(new[b]), new[b].channel = c
        PROVE  /\ new[b].status \in Active => new[b].severity = Level(c, rows[c].value)
               /\ new[b].status = "Cleared" =>
                    \E d \in AlarmIds : d > b /\ Exists(new[d]) /\ new[d].channel = c
    <3>1. CASE b = a
      BY <3>1, <1>1, <1>4, <2>2
    <3>2. CASE b # a
      BY <3>2, <2>5, <1>1, <2>3, <2>4
    <3>3. QED
      BY <3>1, <3>2
  <2>6. QED
    BY <2>5 DEF Agrees
<1>5. Agrees(rows, new, c)
  BY <1>3, <1>4
<1>6. QED
  BY <1>5 DEF new

LEMMA EvaluateAlarmStep ==
  ASSUME AlarmsAssumption, TypeOK, LockType, OneWorkOrderPerAlarm, NEW s \in Sessions,
         SessionInv(s), EvaluateAlarm(s)
  PROVE  OnlyMoves(s) /\ TypeOK' /\ LockType' /\ SessionInv(s)'
<1> DEFINE a == found[s]
           r == Reading(s)
           c == r.channel
           level == Level(c, r.value)
           view == AlarmView(s)
           old == view[a]
<1>1. phase[s] = "alarm" /\ request[s].op = "ingest" /\ Reads(s) /\ Evaluates(s)
      /\ request[s] # Idle /\ request[s].op \notin Actions
  BY RequestFields DEF EvaluateAlarm, SessionInv, IngestionState, Reads, Evaluates
<1>2. UNCHANGED <<tables, clock, request, found>> /\ Take(s, Alarm(a))
  BY DEF EvaluateAlarm
<1>3. /\ c \in Channels /\ pos[s] \in 1..Len(request[s].readings)
      /\ level \in {"Critical", "Warning", "Normal"}
      /\ ChannelView(s)[c].value = r.value
  BY <1>1, ReadingType, LevelType, ViewType DEF SessionInv, IngestionState
<1>4. /\ a \in AlarmIds /\ Exists(old) /\ old.channel = c
      /\ \A b \in AlarmIds : view[b].status \in Active /\ view[b].channel = c => b = a
  BY <1>1 DEF SessionInv, AlarmFound
<1>5. old \in AlarmRow /\ OrderCounted(old)
  BY <1>4, SeenOrders DEF SessionInv
<1>6. view \in AlarmTable /\ ActiveIsLast(view)
  BY ViewType DEF SessionInv
<1>7. /\ held' \in [Sessions -> SUBSET Locks]
      /\ \A t, u \in Sessions : t # u => held'[t] \intersect held'[u] = {}
      /\ held'[s] = held[s] \union {Alarm(a)}
      /\ Alarm(a) \in Locks
  BY <1>2, <1>4, TakeLock, LockNames
<1>8. IF Exists(alarms[a]) THEN Later(old, alarms[a]) /\ alarms[a] \in AlarmRow
                           ELSE Gate \in held[s]
  <2>1. CASE Exists(alarms[a])
    BY <2>1, <1>4, SeenLater
  <2>2. CASE ~Exists(alarms[a])
    BY <2>2, <1>4, ViewType DEF SessionInv, WritesLocked
  <2>3. QED
    BY <2>1, <2>2
<1>9. ASSUME NEW row \in AlarmRow, WriteAlarm(s, a, row), row.channel = c,
             Later(row, old), OrderCounted(row), row.status \in Active => old.status \in Active,
             Agrees(ChannelView(s), [view EXCEPT ![a] = row], c),
             phase' \in [Sessions -> Phases], phase'[s] \in {"reading", "log", "commit"},
             pos' \in [Sessions -> Nat], pos'[s] \in 1..Len(request[s].readings),
             \A t \in Sessions \ {s} : phase'[t] = phase[t] /\ pos'[t] = pos[t]
      PROVE  OnlyMoves(s) /\ TypeOK' /\ LockType' /\ SessionInv(s)'
  <2>1. OnlyMoves(s)
    BY <1>2, <1>9 DEF OnlyMoves, Take, WriteAlarm, TypeOK, LockType
  <2>2. Settles(row, old)
    BY <1>4, <1>9 DEF Settles
  <2>3. ActiveIsLast([view EXCEPT ![a] = row])
    BY <1>4, <1>6, <1>9, <2>2, UpdateKeepsLast
  <2>4. IF Exists(alarms[a]) THEN Alarm(a) \in held'[s] /\ Later(row, alarms[a])
                             ELSE Gate \in held'[s]
    BY <1>5, <1>7, <1>8, <1>9, LaterIsTransitive
  <2>5. TypeOK' /\ LockType' /\ SessionInv(s)'
    BY <1>1, <1>2, <1>4, <1>7, <1>9, <2>1, <2>3, <2>4, IngestionWrite
  <2>6. QED
    BY <2>1, <2>5
<1>10. CASE /\ StillActive(old) /\ level # "Normal"
            /\ WriteAlarm(s, a, Updated(old, level)) /\ NextReading(s)
  <2> DEFINE row == Updated(old, level)
  <2>1. level \in {"Critical", "Warning"}
    BY <1>3, <1>10
  <2>2. /\ row \in AlarmRow /\ row.severity = level
        /\ row.channel = old.channel /\ row.status = old.status
        /\ row.linked = old.linked /\ row.orders = old.orders
    BY <2>1, <1>5, SeverityUpdate, Zenon
  <2>3. WriteAlarm(s, a, row)
    BY <1>10
  <2> HIDE DEF row
  <2>4. Later(row, old) /\ OrderCounted(row) /\ row.channel = c
    BY <2>2, <1>4, <1>5, RowType DEF Later, OrderCounted
  <2>5. Agrees(ChannelView(s), [view EXCEPT ![a] = row], c)
    BY <2>2, <2>4, <1>3, <1>4, <1>6, <1>10, FoundAgrees DEF StillActive
  <2>6. QED
    BY <2>2, <2>3, <2>4, <2>5, <1>1, <1>9, <1>10, NextReadingType DEF Phases
<1>11. CASE /\ StillActive(old) /\ level = "Normal"
            /\ WriteAlarm(s, a, [old EXCEPT !.status = "Cleared"])
            /\ phase' = [phase EXCEPT ![s] = "log"] /\ UNCHANGED pos
  <2> DEFINE row == [old EXCEPT !.status = "Cleared"]
  <2>1. "Cleared" \in Statuses
    BY DEF Statuses
  <2>2. /\ row \in AlarmRow /\ row.status = "Cleared"
        /\ row.channel = old.channel /\ row.severity = old.severity
        /\ row.linked = old.linked /\ row.orders = old.orders
    BY <2>1, <1>5, StatusUpdate, Zenon
  <2>3. WriteAlarm(s, a, row)
    BY <1>11
  <2> HIDE DEF row
  <2>4. Later(row, old) /\ OrderCounted(row) /\ row.channel = c
    BY <2>2, <1>4, <1>5, <1>11, Ranks DEF Later, OrderCounted, StillActive, Active
  <2>5. Agrees(ChannelView(s), [view EXCEPT ![a] = row], c)
    BY <2>2, <2>4, <1>3, <1>4, <1>6, <1>11, FoundAgrees
  <2>6. row.status \notin Active
    BY <2>2 DEF Active
  <2>7. phase' \in [Sessions -> Phases] /\ phase'[s] = "log"
        /\ pos' \in [Sessions -> Nat] /\ pos'[s] = pos[s]
        /\ \A t \in Sessions \ {s} : phase'[t] = phase[t] /\ pos'[t] = pos[t]
    BY <1>11 DEF TypeOK, Phases
  <2>8. QED
    BY <2>2, <2>3, <2>4, <2>5, <2>6, <2>7, <1>3, <1>9
<1>12. CASE ~StillActive(old) /\ UNCHANGED draft
            /\ \/ level = "Normal" /\ NextReading(s)
               \/ /\ level # "Normal" /\ UNCHANGED pos
                  /\ phase' = [phase EXCEPT ![s] = "gate"]
  <2>1. LockType'
    BY <1>7, <1>12 DEF LockType
  <2>2. /\ phase' \in [Sessions -> Phases] /\ phase'[s] \in {"reading", "commit", "gate"}
        /\ phase'[s] = "gate" => level # "Normal" /\ pos'[s] = pos[s]
        /\ phase'[s] # "gate" => level = "Normal"
        /\ pos' \in [Sessions -> Nat] /\ pos'[s] \in 1..Len(request[s].readings)
        /\ \A t \in Sessions \ {s} : phase'[t] = phase[t] /\ pos'[t] = pos[t]
    <3>1. CASE level = "Normal" /\ NextReading(s)
      BY <3>1, <1>1, NextReadingType DEF Phases
    <3>2. CASE /\ level # "Normal" /\ UNCHANGED pos
               /\ phase' = [phase EXCEPT ![s] = "gate"]
      BY <3>2, <1>3 DEF TypeOK, Phases
    <3>3. QED
      BY <3>1, <3>2, <1>12
  <2>3. OnlyMoves(s)
    BY <1>2, <1>12, <2>2 DEF OnlyMoves, Take, LockType
  <2>4. /\ AlarmView(s)' = view /\ ChannelView(s)' = ChannelView(s)
        /\ WritesLocked(s)' /\ ReadingsKept(s)'
        /\ ActiveIsLast(AlarmView(s))' /\ OrdersCounted(s)'
    BY <1>2, <1>7, <1>12, SameWrites
  <2>5. TypeOK'
    BY <1>1, <1>2, <2>1, <2>2, <2>3, <2>4, StepType DEF TypeOK
  <2>6. \A b \in AlarmIds : view[b].status \in Active => view[b].channel # c
    BY <1>4, <1>12 DEF StillActive
  <2>7. ViewAgrees(s)'
    <3>1. ASSUME NEW d \in Channels, Evaluates(s)' => d # Reading(s)'.channel
          PROVE  Agrees(ChannelView(s), view, d)
      <4>1. CASE d # c
        BY <4>1, <1>1 DEF SessionInv, ViewAgrees
      <4>2. CASE d = c /\ phase'[s] # "gate"
        BY <4>2, <2>2, <2>6, <1>3 DEF Agrees
      <4>3. CASE d = c /\ phase'[s] = "gate"
        BY <4>3, <3>1, <2>2, <1>1, <1>2 DEF Evaluates, Reading
      <4>4. QED
        BY <4>1, <4>2, <4>3
    <3>2. QED
      BY <3>1, <2>4 DEF ViewAgrees, Agrees
  <2>8. CASE phase'[s] # "gate"
    BY <2>1, <2>2, <2>3, <2>4, <2>5, <2>7, <2>8, <1>1, <1>2, <1>7, SettledState DEF SessionInv
  <2>9. CASE phase'[s] = "gate"
    <3>1. Reading(s)' = Reading(s) /\ BatchChannels(s)' = BatchChannels(s)
      BY <2>2, <2>9, <1>2 DEF Reading, BatchChannels
    <3>2. IngestionState(s)'
      BY <2>9, <2>2, <3>1, <1>1, <1>2, <1>3, <1>7, <1>12
         DEF SessionInv, IngestionState, Reads, Evaluates
    <3>3. AlarmFound(s)' /\ OperatorState(s)'
      BY <2>9, <1>1, <1>2 DEF AlarmFound, OperatorState
    <3>4. NoneActive(s)'
      BY <2>2, <2>4, <2>6, <2>9, <3>1 DEF NoneActive
    <3>5. QED
      BY <2>1, <2>3, <2>4, <2>5, <2>7, <3>2, <3>3, <3>4 DEF SessionInv
  <2>10. QED
    BY <2>8, <2>9
<1>13. QED
  BY <1>10, <1>11, <1>12 DEF EvaluateAlarm

\* The channel that is seen has the newest reading that is seen.
LEMMA SeenChannel ==
  ASSUME TypeOK, LockType, NewestReadingWins, NEW s \in Sessions, SessionInv(s),
         NEW c \in Channels
  PROVE  /\ ChannelView(s)[c] \in ChannelRow
         /\ ChannelView(s)[c].at = ChannelView(s)[c].newest
         /\ ChannelView(s)[c].newest >= channels[c].newest
<1>1. ChannelView(s)[c] \in ChannelRow /\ channels[c] \in ChannelRow
  BY ViewType DEF ChannelTable, TypeOK
<1>2. CASE c \in DOMAIN draft[s].channels
  BY <1>1, <1>2, ViewType DEF SessionInv, ReadingsKept
<1>3. CASE c \notin DOMAIN draft[s].channels
  BY <1>1, <1>3, ViewType DEF NewestReadingWins, ChannelRow
<1>4. QED
  BY <1>1, <1>2, <1>3

LEMMA PutChannel ==
  ASSUME NEW old \in Written(Channels, ChannelRow), NEW c \in Channels, NEW row \in ChannelRow
  PROVE  /\ Put(old, c, row) \in Written(Channels, ChannelRow)
         /\ DOMAIN Put(old, c, row) = DOMAIN old \union {c}
         /\ Put(old, c, row)[c] = row
         /\ \A d \in DOMAIN old \ {c} : Put(old, c, row)[d] = old[d]
BY PutType

\* A reading writes its channel.
WriteChannel(s, c, row) ==
  draft' = [draft EXCEPT ![s].channels = Put(@, c, row)]

LEMMA ChannelWrite ==
  ASSUME TypeOK, LockType, NEW s \in Sessions, SessionInv(s), UNCHANGED <<tables, held>>,
         NEW c \in Channels, Channel(c) \in held[s], NEW new \in ChannelRow,
         WriteChannel(s, c, new),
         new.newest >= channels[c].newest, new.at = new.newest
  PROVE  /\ LockType'
         /\ AlarmView(s)' = AlarmView(s)
         /\ ChannelView(s)' = [ChannelView(s) EXCEPT ![c] = new]
         /\ WritesLocked(s)' /\ ReadingsKept(s)'
         /\ ActiveIsLast(AlarmView(s))' /\ OrdersCounted(s)'
         /\ c \in DOMAIN draft'[s].channels /\ draft'[s].channels[c] = new
         /\ \A t \in Sessions \ {s} : draft'[t] = draft[t]
<1> DEFINE old == draft[s].channels
           put == Put(old, c, new)
<1>1. old \in Written(Channels, ChannelRow)
  BY DraftType
<1> HIDE DEF old
<1>2. /\ put \in Written(Channels, ChannelRow)
      /\ DOMAIN put = DOMAIN old \union {c}
      /\ put[c] = new
      /\ \A d \in DOMAIN old \ {c} : put[d] = old[d]
  BY <1>1, PutChannel
<1> HIDE DEF put
<1>3. draft' = [draft EXCEPT ![s].channels = put]
  BY DEF put, old, WriteChannel
<1>4. /\ draft'[s].channels = put /\ draft'[s].alarms = draft[s].alarms
      /\ \A t \in Sessions \ {s} : draft'[t] = draft[t]
  BY <1>3 DEF LockType, Drafts
<1>5. draft' \in [Sessions -> Drafts]
  BY <1>2, <1>3 DEF LockType, Drafts
<1>6. LockType'
  BY <1>5 DEF LockType
<1>7. AlarmView(s)' = AlarmView(s)
  BY <1>4 DEF AlarmView, tables
<1>8. ChannelView(s)' = [ChannelView(s) EXCEPT ![c] = new]
  <2>1. channels' = channels /\ channels \in ChannelTable
    BY DEF TypeOK, ChannelTable, tables
  <2>2. ChannelView(s)' = [d \in Channels |-> IF d \in DOMAIN put THEN put[d] ELSE channels[d]]
    BY <2>1, <1>4 DEF ChannelView, Over, ChannelTable
  <2>3. [ChannelView(s) EXCEPT ![c] = new] =
          [d \in Channels |-> IF d = c THEN new ELSE ChannelView(s)[d]]
    BY ViewType DEF ChannelTable
  <2>4. \A d \in Channels : (IF d \in DOMAIN put THEN put[d] ELSE channels[d])
                              = IF d = c THEN new ELSE ChannelView(s)[d]
    BY <1>2, ViewType DEF old
  <2>5. QED
    BY <2>2, <2>3, <2>4
<1>9. WritesLocked(s)'
  BY <1>4 DEF SessionInv, WritesLocked, tables
<1>10. ReadingsKept(s)'
  BY <1>2, <1>4 DEF SessionInv, ReadingsKept, tables, old
<1>11. ActiveIsLast(AlarmView(s))'
  BY <1>7 DEF SessionInv, ActiveIsLast
<1>12. OrdersCounted(s)'
  BY <1>4 DEF SessionInv, OrdersCounted
<1>13. QED
  BY <1>2, <1>4, <1>6, <1>7, <1>8, <1>9, <1>10, <1>11, <1>12

LEMMA IngestStep ==
  ASSUME AlarmsAssumption, TypeOK, LockType, NewestReadingWins, NEW s \in Sessions,
         SessionInv(s), Ingest(s)
  PROVE  OnlyMoves(s) /\ TypeOK' /\ LockType' /\ SessionInv(s)'
<1> DEFINE r == Reading(s)
           c == r.channel
           row == ChannelView(s)[c]
           captured == Captured(r, row)
           newest == IF captured > row.newest THEN captured ELSE row.newest
           view == AlarmView(s)
           active == ActiveAlarm(view, c)
           current == [value |-> r.value, at |-> captured, newest |-> newest]
           delayed == [row EXCEPT !.newest = newest]
<1>1. /\ phase[s] = "reading" /\ request[s].op = "ingest" /\ Reads(s) /\ ~Evaluates(s)
      /\ request[s] # Idle /\ request[s].op \notin Actions
  BY RequestFields DEF Ingest, SessionInv, IngestionState, Reads, Evaluates
<1>2. UNCHANGED <<tables, clock, request, held>> /\ captured <= MaxInstant
  BY DEF Ingest
<1>3. /\ c \in Channels /\ r.value \in Int /\ r.at \in 0..MaxInstant
      /\ Channel(c) \in held[s] /\ pos[s] \in 1..Len(request[s].readings)
      /\ BatchChannels(s)' = BatchChannels(s)
  BY <1>1, <1>2, ReadingType DEF BatchChannels
<1>4. /\ row \in ChannelRow /\ row.at = row.newest /\ row.newest >= channels[c].newest
      /\ row.at \in 0..MaxInstant /\ row.newest \in 0..MaxInstant
      /\ channels[c].newest \in 0..MaxInstant
  <2>1. row \in ChannelRow /\ row.at = row.newest /\ row.newest >= channels[c].newest
    BY <1>3, SeenChannel
  <2>2. channels[c] \in ChannelRow
    BY <1>3 DEF TypeOK
  <2>3. QED
    BY <2>1, <2>2 DEF ChannelRow
<1>5. captured \in 0..MaxInstant /\ newest \in 0..MaxInstant
  BY <1>2, <1>3, <1>4 DEF Captured, TypeOK, Omitted, AlarmsAssumption
<1>6. \A d \in Channels : Agrees(ChannelView(s), view, d)
  BY <1>1 DEF SessionInv, ViewAgrees
<1>7. view \in AlarmTable /\ ActiveIsLast(view) /\ ChannelView(s) \in ChannelTable
  BY ViewType DEF SessionInv
<1>8. CASE /\ ~Current(r, row) /\ WriteChannel(s, c, delayed) /\ NextReading(s) /\ UNCHANGED found
  <2>1. newest = row.newest
    BY <1>3, <1>4, <1>5, <1>8 DEF Current
  <2>2. /\ delayed \in ChannelRow /\ delayed.value = row.value
        /\ delayed.at = row.at /\ delayed.newest = newest
    BY <1>4, <1>5 DEF ChannelRow
  <2>3. WriteChannel(s, c, delayed)
    BY <1>8
  <2> HIDE DEF delayed
  <2>4. /\ LockType' /\ AlarmView(s)' = view
        /\ ChannelView(s)' = [ChannelView(s) EXCEPT ![c] = delayed]
        /\ WritesLocked(s)' /\ ReadingsKept(s)'
        /\ ActiveIsLast(AlarmView(s))' /\ OrdersCounted(s)'
        /\ \A t \in Sessions \ {s} : draft'[t] = draft[t]
    BY <1>2, <1>3, <1>4, <2>1, <2>2, <2>3, ChannelWrite
  <2>5. /\ phase' \in [Sessions -> Phases] /\ phase'[s] \in {"reading", "commit"}
        /\ pos' \in [Sessions -> Nat] /\ pos'[s] \in 1..Len(request[s].readings)
        /\ \A t \in Sessions \ {s} : phase'[t] = phase[t] /\ pos'[t] = pos[t]
    BY <1>1, <1>8, NextReadingType DEF Phases
  <2>6. OnlyMoves(s)
    BY <1>2, <1>8, <2>4, <2>5 DEF OnlyMoves
  <2>7. TypeOK'
    BY <1>1, <1>2, <1>8, <2>4, <2>5, <2>6, StepType DEF TypeOK
  <2>8. ViewAgrees(s)'
    <3>1. \A d \in Channels : [ChannelView(s) EXCEPT ![c] = delayed][d].value
                                = ChannelView(s)[d].value
      BY <1>3, <1>7, <2>2 DEF ChannelTable
    <3>2. \A d \in Channels : Agrees([ChannelView(s) EXCEPT ![c] = delayed], view, d)
      BY <1>6, <3>1, SameValueAgrees
    <3>3. QED
      BY <3>2, <2>4 DEF ViewAgrees, Agrees
  <2>9. QED
    BY <1>1, <1>2, <2>4, <2>5, <2>6, <2>7, <2>8, SettledState DEF SessionInv
<1>9. CASE /\ Current(r, row) /\ WriteChannel(s, c, current) /\ found' = [found EXCEPT ![s] = active]
           /\ IF active # 0 THEN phase' = [phase EXCEPT ![s] = "alarm"] /\ UNCHANGED pos
              ELSE IF Level(c, r.value) # "Normal"
                THEN phase' = [phase EXCEPT ![s] = "gate"] /\ UNCHANGED pos
                ELSE NextReading(s)
  <2>1. newest = captured /\ captured >= channels[c].newest
    BY <1>3, <1>4, <1>5, <1>9 DEF Current
  <2>2. /\ current \in ChannelRow /\ current.value = r.value
        /\ current.at = captured /\ current.newest = captured
    BY <1>3, <1>5, <2>1 DEF ChannelRow
  <2>3. WriteChannel(s, c, current)
    BY <1>9
  <2> HIDE DEF current
  <2>4. /\ LockType' /\ AlarmView(s)' = view
        /\ ChannelView(s)' = [ChannelView(s) EXCEPT ![c] = current]
        /\ WritesLocked(s)' /\ ReadingsKept(s)'
        /\ ActiveIsLast(AlarmView(s))' /\ OrdersCounted(s)'
        /\ c \in DOMAIN draft'[s].channels /\ draft'[s].channels[c] = current
        /\ \A t \in Sessions \ {s} : draft'[t] = draft[t]
    BY <1>2, <1>3, <2>1, <2>2, <2>3, ChannelWrite
  <2>5. /\ phase' \in [Sessions -> Phases]
        /\ \/ active # 0 /\ phase'[s] = "alarm" /\ pos'[s] = pos[s]
           \/ /\ active = 0 /\ phase'[s] = "gate" /\ pos'[s] = pos[s]
              /\ Level(c, r.value) # "Normal"
           \/ /\ active = 0 /\ phase'[s] \in {"reading", "commit"}
              /\ Level(c, r.value) = "Normal"
        /\ pos' \in [Sessions -> Nat] /\ pos'[s] \in 1..Len(request[s].readings)
        /\ \A t \in Sessions \ {s} : phase'[t] = phase[t] /\ pos'[t] = pos[t]
    <3>1. CASE /\ active # 0 /\ phase' = [phase EXCEPT ![s] = "alarm"] /\ UNCHANGED pos
      BY <3>1, <1>3 DEF TypeOK, Phases
    <3>2. CASE /\ active = 0 /\ Level(c, r.value) # "Normal"
               /\ phase' = [phase EXCEPT ![s] = "gate"] /\ UNCHANGED pos
      BY <3>2, <1>3 DEF TypeOK, Phases
    <3>3. CASE active = 0 /\ Level(c, r.value) = "Normal" /\ NextReading(s)
      BY <3>3, <1>1, NextReadingType DEF Phases
    <3>4. QED
      BY <3>1, <3>2, <3>3, <1>9
  <2>6. /\ active = 0 => \A b \in AlarmIds : view[b].status \in Active => view[b].channel # c
        /\ active # 0 => /\ active \in AlarmIds /\ view[active].status \in Active
                         /\ view[active].channel = c
    <3> DEFINE set == {a \in AlarmIds : view[a].status \in Active /\ view[a].channel = c}
    <3>1. CASE set = {}
      BY <3>1 DEF ActiveAlarm
    <3>2. CASE set # {}
      <4>1. PICK a \in set : \A b \in set : b <= a
        BY <3>2, <1>7, RowOrNone DEF ActiveIsLast, AlarmTable
      <4>2. active \in set
        BY <4>1, <3>2 DEF ActiveAlarm
      <4>3. QED
        BY <4>2 DEF AlarmIds
    <3>3. QED
      BY <3>1, <3>2
  <2> HIDE DEF active
  <2>7. active # 0 =>
          /\ Exists(view[active])
          /\ \A b \in AlarmIds : view[b].status \in Active /\ view[b].channel = c => b = active
    <3> SUFFICES ASSUME active # 0
                 PROVE  /\ Exists(view[active])
                        /\ \A b \in AlarmIds :
                             view[b].status \in Active /\ view[b].channel = c => b = active
      OBVIOUS
    <3>1. \A b \in AlarmIds : view[b].status \in Active => Exists(view[b])
      BY <1>7, RowOrNone DEF AlarmTable
    <3>2. QED
      BY <3>1, <2>6, <1>7 DEF ActiveIsLast, AlarmIds
  <2>8. OnlyMoves(s)
    BY <1>2, <1>9, <2>4, <2>5 DEF OnlyMoves, TypeOK
  <2>9. found' \in [Sessions -> 0..MaxAlarms] /\ found'[s] = active
    BY <1>9, <2>6 DEF TypeOK, AlarmIds, AlarmsAssumption
  <2>10. TypeOK'
    BY <1>1, <1>2, <2>4, <2>5, <2>8, <2>9, StepType DEF TypeOK
  <2>11. ViewAgrees(s)'
    <3>1. \A d \in Channels \ {c} :
            Agrees([ChannelView(s) EXCEPT ![c] = current], view, d)
      BY <1>3, <1>6, <1>7, SameValueAgrees DEF ChannelTable
    <3>2. phase'[s] \in {"reading", "commit"} =>
            Agrees([ChannelView(s) EXCEPT ![c] = current], view, c)
      BY <1>3, <1>7, <2>2, <2>5, <2>6 DEF Agrees, ChannelTable
    <3>3. phase'[s] \notin {"reading", "commit"} => Evaluates(s)' /\ Reading(s)' = r
      BY <1>1, <1>2, <2>5 DEF Evaluates, Reading
    <3>4. QED
      BY <3>1, <3>2, <3>3, <2>4 DEF ViewAgrees, Agrees
  <2>12. CASE phase'[s] \in {"reading", "commit"}
    BY <1>1, <1>2, <2>4, <2>5, <2>8, <2>10, <2>11, <2>12, SettledState DEF SessionInv
  <2>13. CASE phase'[s] \in {"alarm", "gate"}
    <3>1. Reading(s)' = r
      BY <1>2, <2>5, <2>13 DEF Reading
    <3>2. IngestionState(s)'
      BY <1>1, <1>2, <1>3, <2>2, <2>4, <2>5, <2>13, <3>1
         DEF SessionInv, IngestionState, Reads, Evaluates
    <3>3. AlarmFound(s)'
      BY <2>4, <2>5, <2>6, <2>7, <2>9, <2>13, <3>1 DEF AlarmFound
    <3>4. NoneActive(s)'
      BY <2>4, <2>5, <2>6, <2>13, <3>1 DEF NoneActive
    <3>5. OperatorState(s)'
      BY <1>1, <1>2 DEF OperatorState
    <3>6. QED
      BY <2>4, <2>8, <2>10, <2>11, <3>2, <3>3, <3>4, <3>5 DEF SessionInv
  <2>14. QED
    BY <2>5, <2>12, <2>13
<1>10. QED
  BY <1>8, <1>9 DEF Ingest, WriteChannel

-----------------------------------------------------------------------------
\* The commit of one session under the drafts of another

\* Two sets of writes over the same table that share no row: mine is what a
\* session sees, theirs is what another one commits, both what is seen then.
Merge(mine, theirs, written) ==
  [a \in AlarmIds |-> IF a \in written THEN theirs[a] ELSE mine[a]]

\* Every alarm of the table is seen in a later state.
SeesLater(view, table) ==
  \A a \in AlarmIds : Exists(table[a]) =>
    view[a] \in AlarmRow /\ table[a] \in AlarmRow /\ Later(view[a], table[a])

LEMMA MergeKeepsLast ==
  ASSUME NEW table \in AlarmTable, NEW mine \in AlarmTable, NEW theirs \in AlarmTable,
         NEW D \in SUBSET AlarmIds, NEW E \in SUBSET AlarmIds, D \intersect E = {},
         \A a \in AlarmIds \ D : theirs[a] = table[a],
         \A a \in AlarmIds \ E : mine[a] = table[a],
         SeesLater(mine, table), SeesLater(theirs, table),
         ActiveIsLast(mine), ActiveIsLast(theirs),
         (\A a \in D : Exists(table[a])) \/ (\A a \in E : Exists(table[a]))
  PROVE  ActiveIsLast(Merge(mine, theirs, D))
<1> DEFINE both == Merge(mine, theirs, D)
<1>1. \A a \in AlarmIds : both[a] = IF a \in D THEN theirs[a] ELSE mine[a]
  BY DEF Merge
<1> HIDE DEF both
<1> SUFFICES ASSUME NEW a \in AlarmIds, NEW b \in AlarmIds, both[a].status \in Active,
                    Exists(both[b]), both[b].channel = both[a].channel
             PROVE  b <= a
  BY DEF ActiveIsLast, both
<1>2. ASSUME NEW x \in AlarmIds, Exists(table[x])
      PROVE  /\ Exists(mine[x]) /\ mine[x].channel = table[x].channel
             /\ Exists(theirs[x]) /\ theirs[x].channel = table[x].channel
             /\ mine[x].status \in Active => table[x].status \in Active
             /\ theirs[x].status \in Active => table[x].status \in Active
  BY <1>2, ActiveBefore, RowType DEF SeesLater, Later
<1>3. CASE a \in D /\ b \in D
  BY <1>1, <1>3 DEF ActiveIsLast
<1>4. CASE a \notin D /\ b \notin D
  BY <1>1, <1>4 DEF ActiveIsLast
<1>5. CASE a \in D /\ b \notin D
  <2>1. both[a] = theirs[a] /\ both[b] = mine[b] /\ a \notin E
    BY <1>1, <1>5
  <2>2. CASE Exists(table[b])
    <3>1. theirs[b] = table[b] /\ mine[b].channel = table[b].channel
      BY <1>2, <1>5, <2>2
    <3>2. QED
      BY <2>1, <2>2, <3>1 DEF ActiveIsLast
  <2>3. CASE ~Exists(table[b])
    <3>1. b \in E
      BY <2>1, <2>3
    <3>2. Exists(table[a])
      BY <1>5, <2>3, <3>1
    <3>3. mine[a] = table[a] /\ mine[a].status \in Active
            /\ mine[a].channel = theirs[a].channel
      BY <1>2, <2>1, <3>2
    <3>4. QED
      BY <2>1, <3>3 DEF ActiveIsLast
  <2>4. QED
    BY <2>2, <2>3
<1>6. CASE a \notin D /\ b \in D
  <2>1. both[a] = mine[a] /\ both[b] = theirs[b] /\ b \notin E
    BY <1>1, <1>6
  <2>2. CASE Exists(table[b])
    <3>1. mine[b] = table[b] /\ theirs[b].channel = table[b].channel
      BY <1>2, <2>1, <2>2
    <3>2. QED
      BY <2>1, <2>2, <3>1 DEF ActiveIsLast
  <2>3. CASE ~Exists(table[b])
    <3>1. Exists(table[a])
      <4>1. CASE a \in E
        BY <1>6, <2>3, <4>1
      <4>2. CASE a \notin E
        BY <2>1, <4>2, RowOrNone DEF AlarmTable
      <4>3. QED
        BY <4>1, <4>2
    <3>2. theirs[a] = table[a] /\ theirs[a].status \in Active
            /\ theirs[a].channel = mine[a].channel
      BY <1>2, <1>6, <2>1, <3>1
    <3>3. QED
      BY <2>1, <3>2 DEF ActiveIsLast
  <2>4. QED
    BY <2>2, <2>3
<1>7. QED
  BY <1>3, <1>4, <1>5, <1>6

\* What one session writes of the alarms of a channel that it has not locked is
\* what an operator may write, and the other session has not written it.
WritesApart(theirs, D, mine, table, c) ==
  \A a \in D :
    /\ mine[a] = table[a]
    /\ theirs[a].channel = c => Exists(table[a]) /\ ByOperator(theirs[a], table[a])

LEMMA MergeAgrees ==
  ASSUME NEW rows, NEW c \in Channels, NEW table \in AlarmTable, NEW mine \in AlarmTable,
         NEW theirs \in AlarmTable, NEW D \in SUBSET AlarmIds,
         SeesLater(theirs, table), Agrees(rows, mine, c),
         WritesApart(theirs, D, mine, table, c)
  PROVE  Agrees(rows, Merge(mine, theirs, D), c)
<1> DEFINE both == Merge(mine, theirs, D)
<1>0. \A a \in AlarmIds : both[a] = IF a \in D THEN theirs[a] ELSE mine[a]
  BY DEF Merge
<1> HIDE DEF both
<1>1. ASSUME NEW a \in AlarmIds, Exists(both[a]), both[a].channel = c
      PROVE  /\ Exists(mine[a]) /\ mine[a].channel = c
             /\ both[a].severity = mine[a].severity
             /\ both[a].status \in Active => mine[a].status \in Active
             /\ both[a].status = "Cleared" => mine[a].status = "Cleared"
  <2>1. CASE a \in D
    <3>1. Exists(table[a]) /\ ByOperator(theirs[a], table[a])
      BY <1>0, <1>1, <2>1 DEF WritesApart
    <3>2. /\ theirs[a] \in AlarmRow /\ table[a] \in AlarmRow /\ Later(theirs[a], table[a])
      BY <3>1 DEF SeesLater
    <3>3. theirs[a].status \in Active => table[a].status \in Active
      BY <3>2, ActiveBefore
    <3>4. QED
      BY <1>0, <1>1, <2>1, <3>1, <3>2, <3>3 DEF WritesApart, ByOperator, Later
  <2>2. CASE a \notin D
    BY <1>0, <1>1, <2>2
  <2>3. QED
    BY <2>1, <2>2
<1>2. ASSUME NEW a \in AlarmIds, Exists(mine[a]), mine[a].channel = c
      PROVE  Exists(both[a]) /\ both[a].channel = c
  <2>1. CASE a \in D
    BY <1>0, <1>2, <2>1, RowType DEF WritesApart, SeesLater, Later
  <2>2. CASE a \notin D
    BY <1>0, <1>2, <2>2
  <2>3. QED
    BY <2>1, <2>2
<1>3. QED
  BY <1>1, <1>2 DEF Agrees, both

\* Two sessions never write the same row.
LEMMA DraftsDisjoint ==
  ASSUME LockType, NEW s \in Sessions, NEW t \in Sessions, s # t,
         SessionInv(s), SessionInv(t)
  PROVE  /\ DOMAIN draft[s].alarms \intersect DOMAIN draft[t].alarms = {}
         /\ DOMAIN draft[s].channels \intersect DOMAIN draft[t].channels = {}
         /\ \/ \A a \in DOMAIN draft[s].alarms : Exists(alarms[a])
            \/ \A a \in DOMAIN draft[t].alarms : Exists(alarms[a])
<1>1. held[s] \intersect held[t] = {}
  BY DEF LockType
<1>2. DOMAIN draft[s].alarms \intersect DOMAIN draft[t].alarms = {}
  BY <1>1 DEF SessionInv, WritesLocked
<1>3. DOMAIN draft[s].channels \intersect DOMAIN draft[t].channels = {}
  BY <1>1 DEF SessionInv, ReadingsKept
<1>4. \/ \A a \in DOMAIN draft[s].alarms : Exists(alarms[a])
      \/ \A a \in DOMAIN draft[t].alarms : Exists(alarms[a])
  BY <1>1 DEF SessionInv, WritesLocked
<1>5. QED
  BY <1>2, <1>3, <1>4

-----------------------------------------------------------------------------
\* The end of a request

LEMMA EndState ==
  ASSUME AlarmsAssumption, TypeOK, LockType, NEW s \in Sessions, End(s),
         channels' \in ChannelTable, alarms' \in AlarmTable, TablesInv'
  PROVE  OnlyMoves(s) /\ TypeOK' /\ LockType' /\ SessionInv(s)'
<1>1. /\ request'[s] = Idle /\ phase'[s] = "idle" /\ pos'[s] = 1 /\ found'[s] = 0
      /\ draft'[s] = Clean /\ held'[s] = {} /\ clock' = clock
      /\ request' \in [Sessions -> Requests \union {Idle}]
      /\ phase' \in [Sessions -> Phases]
      /\ pos' \in [Sessions -> Nat]
  BY DEF End, TypeOK, LockType, Phases
<1>2. found' \in [Sessions -> 0..MaxAlarms]
  BY DEF End, TypeOK, AlarmsAssumption
<1>3. /\ draft' \in [Sessions -> Drafts]
      /\ held' \in [Sessions -> SUBSET Locks]
      /\ \A t, u \in Sessions : t # u => held'[t] \intersect held'[u] = {}
  BY CleanType DEF End, LockType
<1>4. LockType'
  BY <1>3 DEF LockType
<1>5. OnlyMoves(s)
  BY DEF OnlyMoves, End, TypeOK, LockType
<1>6. ASSUME NEW t \in Sessions
      PROVE  /\ \A c \in DOMAIN draft'[t].channels : draft'[t].channels[c] \in ChannelRow
             /\ \A a \in DOMAIN draft'[t].alarms : draft'[t].alarms[a] \in AlarmRow
             /\ \A c \in DOMAIN draft'[t].channels : Channel(c) \in held'[t]
             /\ phase'[t] = "idle" <=> request'[t] = Idle
             /\ phase'[t] = "idle" => held'[t] = {} /\ draft'[t] = Clean
  <2>1. CASE t = s
    BY <2>1, <1>1, CleanType
  <2>2. CASE t # s
    BY <2>2, <1>5 DEF OnlyMoves, TypeOK
  <2>3. QED
    BY <2>1, <2>2
<1>7. TypeOK'
  BY <1>1, <1>2, <1>6 DEF TypeOK, Phases, ChannelTable, AlarmTable
<1>8. AlarmView(s)' = alarms' /\ ChannelView(s)' = channels'
  BY <1>1, CleanType DEF AlarmView, ChannelView, Over, ChannelTable, AlarmTable
<1>9. WritesLocked(s)' /\ ReadingsKept(s)' /\ OrdersCounted(s)'
  BY <1>1, CleanType DEF WritesLocked, ReadingsKept, OrdersCounted
<1>10. ActiveIsLast(AlarmView(s))' /\ ViewAgrees(s)'
  BY <1>8 DEF TablesInv, ViewAgrees, ActiveIsLast, Agrees
<1>11. IngestionState(s)'
  BY <1>1 DEF IngestionState, Reads, Evaluates
<1>12. AlarmFound(s)' /\ NoneActive(s)'
  BY <1>1 DEF AlarmFound, NoneActive
<1>13. OperatorState(s)'
  BY <1>1 DEF OperatorState, Idle, AlarmsAssumption
<1>14. QED
  BY <1>4, <1>5, <1>7, <1>9, <1>10, <1>11, <1>12, <1>13 DEF SessionInv

LEMMA RollbackStep ==
  ASSUME AlarmsAssumption, TypeOK, LockType, TablesInv, NEW s \in Sessions, Rollback(s)
  PROVE  /\ OnlyMoves(s) /\ TypeOK' /\ LockType' /\ SessionInv(s)'
         /\ TablesInv' /\ UNCHANGED tables
<1>1. End(s) /\ channels' = channels /\ alarms' = alarms
  BY DEF Rollback, tables
<1>2. TablesInv'
  BY <1>1 DEF TablesInv, NewestReadingWins, ActiveIsLast, Agrees, OneWorkOrderPerAlarm
<1>3. channels' \in ChannelTable /\ alarms' \in AlarmTable
  BY <1>1 DEF TypeOK, ChannelTable, AlarmTable
<1>4. QED
  BY <1>1, <1>2, <1>3, EndState DEF tables

LEMMA CommittedRows ==
  ASSUME TypeOK, LockType, NewestReadingWins, NEW s \in Sessions, SessionInv(s)
  PROVE  /\ Committed(s) \in ChannelTable
         /\ \A c \in Channels :
              /\ Committed(s)[c] = ChannelView(s)[c]
              /\ c \notin DOMAIN draft[s].channels => Committed(s)[c] = channels[c]
<1>1. ASSUME NEW c \in Channels
      PROVE  [ChannelView(s)[c] EXCEPT !.newest =
                IF channels[c].newest > @ THEN channels[c].newest ELSE @] = ChannelView(s)[c]
  <2>1. /\ ChannelView(s)[c] \in ChannelRow /\ channels[c] \in ChannelRow
        /\ ChannelView(s)[c].newest >= channels[c].newest
    BY SeenChannel DEF TypeOK
  <2>2. (IF channels[c].newest > ChannelView(s)[c].newest
          THEN channels[c].newest ELSE ChannelView(s)[c].newest) = ChannelView(s)[c].newest
    BY <2>1 DEF ChannelRow
  <2>3. QED
    BY <2>1, <2>2 DEF ChannelRow
<1>2. \A c \in Channels : Committed(s)[c] = ChannelView(s)[c]
  BY <1>1 DEF Committed
<1>3. Committed(s) = ChannelView(s)
  BY <1>2, ViewType DEF Committed, ChannelTable
<1>4. QED
  BY <1>2, <1>3, ViewType

LEMMA CommitStep ==
  ASSUME AlarmsAssumption, TypeOK, LockType, TablesInv, NEW s \in Sessions, SessionInv(s),
         Commit(s)
  PROVE  /\ OnlyMoves(s) /\ TypeOK' /\ LockType' /\ SessionInv(s)' /\ TablesInv'
         /\ alarms' = AlarmView(s) /\ channels' = ChannelView(s)
<1>1. phase[s] = "commit" /\ End(s) /\ alarms' = AlarmView(s) /\ channels' = Committed(s)
  BY DEF Commit
<1>2. channels' = ChannelView(s) /\ channels' \in ChannelTable /\ alarms' \in AlarmTable
  BY <1>1, CommittedRows, ViewType DEF TablesInv, ChannelTable
<1>3. NewestReadingWins'
  BY <1>2, SeenChannel DEF TablesInv, NewestReadingWins
<1>4. ActiveIsLast(alarms)'
  BY <1>1 DEF SessionInv, ActiveIsLast
<1>5. \A c \in Channels : Agrees(channels, alarms, c)'
  BY <1>1, <1>2 DEF SessionInv, ViewAgrees, Evaluates, Agrees
<1>6. OneWorkOrderPerAlarm'
  BY <1>1, <1>2, SeenOrders, RowOrNone DEF TablesInv, SessionInv, OneWorkOrderPerAlarm,
     OrderCounted, AlarmTable
<1>7. TablesInv'
  BY <1>3, <1>4, <1>5, <1>6 DEF TablesInv
<1>8. QED
  BY <1>1, <1>2, <1>7, EndState

LEMMA CommitOthers ==
  ASSUME AlarmsAssumption, TypeOK, LockType, TablesInv, NEW s \in Sessions, SessionInv(s),
         Commit(s), NEW t \in Sessions, t # s, SessionInv(t)
  PROVE  SessionInv(t)'
<1> DEFINE D == DOMAIN draft[s].alarms
           E == DOMAIN draft[t].alarms
           theirs == AlarmView(s)
           mine == AlarmView(t)
           both == AlarmView(t)'
<1>1. /\ alarms' = theirs /\ channels' = ChannelView(s) /\ phase[s] = "commit"
      /\ request'[t] = request[t] /\ phase'[t] = phase[t]
      /\ pos'[t] = pos[t] /\ found'[t] = found[t]
      /\ draft'[t] = draft[t] /\ held'[t] = held[t]
  BY CommitStep DEF OnlyMoves, Commit
<1>2. /\ D \in SUBSET AlarmIds /\ E \in SUBSET AlarmIds /\ D \intersect E = {}
      /\ (\A a \in D : Exists(alarms[a])) \/ (\A a \in E : Exists(alarms[a]))
      /\ DOMAIN draft[s].channels \intersect DOMAIN draft[t].channels = {}
      /\ held[s] \intersect held[t] = {}
  BY DraftType, DraftsDisjoint DEF LockType
<1>3. /\ alarms \in AlarmTable /\ mine \in AlarmTable /\ theirs \in AlarmTable
      /\ \A a \in AlarmIds \ D : theirs[a] = alarms[a]
      /\ \A a \in AlarmIds \ E : mine[a] = alarms[a]
  BY ViewType DEF TypeOK, AlarmTable
<1>4. SeesLater(mine, alarms) /\ SeesLater(theirs, alarms)
  BY SeenLater DEF SeesLater
<1>5. /\ both \in AlarmTable
      /\ \A a \in AlarmIds : both[a] = IF a \in D THEN theirs[a] ELSE mine[a]
      /\ \A a \in AlarmIds : both[a] = IF a \in E THEN mine[a] ELSE theirs[a]
      /\ both = Merge(mine, theirs, D) /\ both = Merge(theirs, mine, E)
  <2>1. both = [a \in AlarmIds |-> IF a \in E THEN draft[t].alarms[a] ELSE theirs[a]]
    BY <1>1, <1>3 DEF AlarmView, Over, AlarmTable
  <2>2. \A a \in E : mine[a] = draft[t].alarms[a]
    BY <1>2, ViewType
  <2>3. \A a \in AlarmIds : both[a] = IF a \in E THEN mine[a] ELSE theirs[a]
    BY <2>1, <2>2
  <2>4. \A a \in AlarmIds : both[a] = IF a \in D THEN theirs[a] ELSE mine[a]
    BY <2>3, <1>2, <1>3
  <2>5. both \in AlarmTable
    BY <2>1, <2>3, <1>3 DEF AlarmTable
  <2>6. both = Merge(mine, theirs, D) /\ both = Merge(theirs, mine, E)
    BY <2>1, <2>3, <2>4 DEF Merge
  <2>7. QED
    BY <2>3, <2>4, <2>5, <2>6
<1>6. Reading(t)' = Reading(t) /\ BatchChannels(t)' = BatchChannels(t)
  BY <1>1 DEF Reading, BatchChannels
<1> HIDE DEF D, E, theirs, mine, both
<1>7. \A a \in AlarmIds : Exists(alarms[a]) =>
        /\ Exists(both[a]) /\ both[a].channel = alarms[a].channel
        /\ a \in E => both[a] = mine[a] /\ theirs[a] = alarms[a]
  BY <1>2, <1>3, <1>4, <1>5, RowType DEF SeesLater, Later
\* What the other session writes in a channel that this one has locked.
<1>8. ASSUME NEW a \in D, Exists(theirs[a]), Channel(theirs[a].channel) \in held[t]
      PROVE  Exists(alarms[a]) /\ ByOperator(theirs[a], alarms[a])
  <2>1. a \in AlarmIds /\ theirs[a] = draft[s].alarms[a]
    BY <1>2, ViewType DEF D, theirs
  <2>2. QED
    BY <1>2, <1>8, <2>1 DEF SessionInv, WritesLocked, D
\* What this session has written in a channel that it has not locked.
<1>9. ASSUME NEW a \in E, Exists(mine[a]), Channel(mine[a].channel) \notin held[t]
      PROVE  Exists(alarms[a]) /\ ByOperator(mine[a], alarms[a])
  <2>1. a \in AlarmIds /\ mine[a] = draft[t].alarms[a]
    BY <1>2, ViewType DEF E, mine
  <2>2. QED
    BY <1>9, <2>1 DEF SessionInv, WritesLocked, E
<1>10. /\ \A a \in D : theirs[a] \in AlarmRow /\ Exists(theirs[a])
       /\ \A a \in E : mine[a] \in AlarmRow /\ Exists(mine[a])
  BY <1>2, ViewType, DraftType, RowType DEF D, E, theirs, mine
<1>11. WritesLocked(t)'
  <2>1. \A a \in E : alarms'[a] = alarms[a]
    BY <1>1, <1>2, <1>3
  <2>2. QED
    BY <1>1, <2>1 DEF SessionInv, WritesLocked, E
<1>12. ReadingsKept(t)'
  <2>1. \A c \in DOMAIN draft[t].channels : channels'[c] = channels[c]
    BY <1>1, <1>2, ViewType, DraftType
  <2>2. QED
    BY <1>1, <2>1 DEF SessionInv, ReadingsKept
<1>13. ActiveIsLast(AlarmView(t))'
  <2>1. ActiveIsLast(mine) /\ ActiveIsLast(theirs)
    BY DEF SessionInv, mine, theirs
  <2>2. ActiveIsLast(Merge(mine, theirs, D))
    BY <1>2, <1>3, <1>4, <2>1, MergeKeepsLast
  <2>3. ActiveIsLast(both)
    BY <2>2, <1>5
  <2>4. QED
    BY <2>3 DEF both, ActiveIsLast
<1>14. ViewAgrees(t)'
  <2>1. ASSUME NEW c \in Channels, Evaluates(t) => c # Reading(t).channel
        PROVE  Agrees(ChannelView(t)', both, c)
    <3>1. CASE Channel(c) \in held[t]
      <4>1. ChannelView(t)'[c] = ChannelView(t)[c]
        <5>1. c \notin DOMAIN draft[s].channels
          BY <1>2, <3>1 DEF SessionInv, ReadingsKept
        <5>2. channels'[c] = channels[c]
          BY <1>1, <5>1, ViewType
        <5>3. DOMAIN channels = Channels /\ DOMAIN channels' = Channels
          BY <1>1, ViewType DEF TypeOK, ChannelTable
        <5>4. QED
          BY <1>1, <5>2, <5>3 DEF ChannelView, Over
      <4> DEFINE rows == ChannelView(t)
      <4> HIDE DEF rows
      <4>2. Agrees(rows, mine, c)
        BY <2>1 DEF SessionInv, ViewAgrees, mine, rows
      <4>3. \A a \in D : theirs[a].channel = c =>
              Exists(alarms[a]) /\ ByOperator(theirs[a], alarms[a])
        BY <1>8, <1>10, <3>1
      <4>4. WritesApart(theirs, D, mine, alarms, c)
        BY <1>2, <1>3, <4>3 DEF WritesApart
      <4>5. Agrees(rows, Merge(mine, theirs, D), c)
        BY <1>2, <1>3, <1>4, <4>2, <4>4, MergeAgrees
      <4>6. QED
        BY <4>1, <4>5, <1>5 DEF Agrees, rows
    <3>2. CASE Channel(c) \notin held[t]
      <4>1. ChannelView(t)'[c] = ChannelView(s)[c]
        <5>1. c \notin DOMAIN draft[t].channels
          BY <3>2 DEF SessionInv, ReadingsKept
        <5>2. DOMAIN channels' = Channels
          BY <1>1, ViewType DEF ChannelTable
        <5>3. QED
          BY <1>1, <5>1, <5>2 DEF ChannelView, Over
      <4> DEFINE rows == ChannelView(s)
      <4> HIDE DEF rows
      <4>2. Agrees(rows, theirs, c)
        BY <1>1 DEF SessionInv, ViewAgrees, Evaluates, theirs, rows
      <4>3. \A a \in E : mine[a].channel = c =>
              Exists(alarms[a]) /\ ByOperator(mine[a], alarms[a])
        BY <1>9, <1>10, <3>2
      <4>4. WritesApart(mine, E, theirs, alarms, c)
        BY <1>2, <1>3, <4>3 DEF WritesApart
      <4>5. Agrees(rows, Merge(theirs, mine, E), c)
        BY <1>2, <1>3, <1>4, <4>2, <4>4, MergeAgrees
      <4>6. QED
        BY <4>1, <4>5, <1>5 DEF Agrees, rows
    <3>3. QED
      BY <3>1, <3>2
  <2>2. Evaluates(t)' = Evaluates(t)
    BY <1>1 DEF Evaluates
  <2>3. QED
    BY <2>1, <2>2, <1>6 DEF ViewAgrees, Agrees, both
<1>15. IngestionState(t)'
  BY <1>1, <1>6 DEF SessionInv, IngestionState, Reads, Evaluates
\* No alarm becomes active in a channel that this session has locked.
<1>16. ASSUME NEW b \in AlarmIds, both[b].status \in Active, Channel(both[b].channel) \in held[t]
       PROVE  mine[b].status \in Active /\ mine[b].channel = both[b].channel
  <2>1. CASE b \in D
    <3>1. both[b] = theirs[b] /\ mine[b] = alarms[b]
      BY <1>2, <1>3, <1>5, <2>1
    <3>2. Exists(alarms[b])
      BY <1>8, <1>10, <1>16, <2>1, <3>1
    <3>3. QED
      BY <1>4, <1>16, <3>1, <3>2, ActiveBefore DEF SeesLater, Later
  <2>2. CASE b \notin D
    BY <1>5, <1>16, <2>2
  <2>3. QED
    BY <2>1, <2>2
<1>17. Reads(t) => Channel(Reading(t).channel) \in held[t]
  BY ReadingType
<1>18. AlarmFound(t)'
  <2> SUFFICES ASSUME phase[t] = "alarm"
               PROVE  /\ found[t] \in AlarmIds
                      /\ Exists(both[found[t]])
                      /\ both[found[t]].channel = Reading(t).channel
                      /\ \A b \in AlarmIds :
                           (both[b].status \in Active /\ both[b].channel = Reading(t).channel)
                             => b = found[t]
    BY <1>1, <1>6 DEF AlarmFound, both
  <2>1. Reads(t)
    BY DEF SessionInv, IngestionState, Reads
  <2>2. /\ found[t] \in AlarmIds
        /\ Exists(mine[found[t]])
        /\ mine[found[t]].channel = Reading(t).channel
        /\ \A b \in AlarmIds :
             (mine[b].status \in Active /\ mine[b].channel = Reading(t).channel)
               => b = found[t]
    BY DEF SessionInv, AlarmFound, mine
  <2>3. Exists(both[found[t]]) /\ both[found[t]].channel = Reading(t).channel
    <3>1. CASE found[t] \in D
      <4>1. mine[found[t]] = alarms[found[t]]
        BY <1>2, <1>3, <3>1
      <4>2. QED
        BY <1>7, <2>2, <4>1
    <3>2. CASE found[t] \notin D
      BY <1>5, <2>2, <3>2
    <3>3. QED
      BY <3>1, <3>2
  <2>4. QED
    BY <1>16, <1>17, <2>1, <2>2, <2>3
<1>19. NoneActive(t)'
  <2> SUFFICES ASSUME request[t].op = "ingest", phase[t] = "gate"
               PROVE  /\ Level(Reading(t).channel, Reading(t).value) # "Normal"
                      /\ \A b \in AlarmIds :
                           both[b].status \in Active => both[b].channel # Reading(t).channel
    BY <1>1, <1>6 DEF NoneActive, both
  <2>1. Reads(t)
    BY DEF Reads
  <2>2. /\ Level(Reading(t).channel, Reading(t).value) # "Normal"
        /\ \A b \in AlarmIds :
             mine[b].status \in Active => mine[b].channel # Reading(t).channel
    BY DEF SessionInv, NoneActive, mine
  <2>3. QED
    BY <1>16, <1>17, <2>1, <2>2
<1>20. OperatorState(t)'
  <2> SUFFICES ASSUME request[t].op \in Actions
               PROVE  /\ Exists(alarms'[request[t].alarm])
                      /\ phase[t] = "gate" => /\ request[t].op = "work"
                                              /\ Alarm(request[t].alarm) \in held[t]
                                              /\ ~alarms'[request[t].alarm].linked
                                              /\ draft[t] = Clean
    BY <1>1 DEF OperatorState
  <2> DEFINE a == request[t].alarm
  <2>1. a \in AlarmIds /\ Exists(alarms[a])
    BY RequestFields DEF SessionInv, OperatorState
  <2>2. Exists(alarms'[a])
    BY <1>1, <1>4, <2>1, RowType DEF SeesLater
  <2>3. ASSUME phase[t] = "gate"
        PROVE  /\ request[t].op = "work" /\ Alarm(a) \in held[t]
               /\ ~alarms'[a].linked /\ draft[t] = Clean
    <3>1. /\ request[t].op = "work" /\ Alarm(a) \in held[t]
          /\ ~alarms[a].linked /\ draft[t] = Clean
      BY <2>3 DEF SessionInv, OperatorState
    <3>2. a \notin D
      BY <1>2, <2>1, <3>1 DEF SessionInv, WritesLocked, D
    <3>3. QED
      BY <1>1, <1>3, <2>1, <3>1, <3>2
  <2>4. QED
    BY <2>2, <2>3
<1>21. OrdersCounted(t)'
  BY <1>1 DEF SessionInv, OrdersCounted
<1>22. QED
  BY <1>11, <1>12, <1>13, <1>14, <1>15, <1>18, <1>19, <1>20, <1>21 DEF SessionInv

-----------------------------------------------------------------------------
\* The invariant holds

LEMMA InitHolds ==
  ASSUME AlarmsAssumption, Init
  PROVE  IInv
<1>1. \A a \in AlarmIds : alarms[a] = NoAlarm /\ alarms[a].status = "None"
  BY DEF Init, NoAlarm
<1>2. /\ \A a \in AlarmIds : ~Exists(alarms[a]) /\ alarms[a].status \notin Active
      /\ alarms \in AlarmTable /\ channels \in ChannelTable
  BY <1>1 DEF Init, Exists, Active, AlarmTable, ChannelTable, ChannelRow, AlarmsAssumption
<1>3. LockType
  BY CleanType DEF Init, LockType
<1>4. TypeOK
  BY <1>2, CleanType DEF Init, TypeOK, AlarmTable, ChannelTable, AlarmsAssumption
<1>5. TablesInv
  BY <1>1, <1>2 DEF Init, TablesInv, NewestReadingWins, ActiveIsLast, Agrees,
     OneWorkOrderPerAlarm
<1>6. ASSUME NEW s \in Sessions
      PROVE  SessionInv(s)
  <2>1. /\ request[s] = Idle /\ phase[s] = "idle" /\ pos[s] = 1
        /\ draft[s] = Clean /\ held[s] = {}
    BY DEF Init
  <2>2. AlarmView(s) = alarms /\ ChannelView(s) = channels
    BY <1>2, <2>1, CleanType DEF AlarmView, ChannelView, Over, AlarmTable, ChannelTable
  <2>3. WritesLocked(s) /\ ReadingsKept(s) /\ OrdersCounted(s)
    BY <2>1, CleanType DEF WritesLocked, ReadingsKept, OrdersCounted
  <2>4. ActiveIsLast(AlarmView(s)) /\ ViewAgrees(s)
    BY <1>5, <2>2 DEF TablesInv, ViewAgrees
  <2>5. IngestionState(s) /\ AlarmFound(s) /\ NoneActive(s)
    BY <2>1 DEF IngestionState, AlarmFound, NoneActive, Reads, Evaluates
  <2>6. OperatorState(s)
    BY <2>1 DEF OperatorState, Idle, AlarmsAssumption
  <2>7. QED
    BY <2>3, <2>4, <2>5, <2>6 DEF SessionInv
<1>7. QED
  BY <1>3, <1>4, <1>5, <1>6 DEF IInv

\* What every step but a commit does.
LEMMA StepHolds ==
  ASSUME IInv, NEW s \in Sessions, UNCHANGED tables,
         OnlyMoves(s), TypeOK', LockType', SessionInv(s)'
  PROVE  IInv'
<1>1. TablesInv'
  BY DEF IInv, TablesInv, NewestReadingWins, ActiveIsLast, Agrees, OneWorkOrderPerAlarm, tables
<1>2. \A t \in Sessions : SessionInv(t)'
  BY OthersUndisturbed DEF IInv
<1>3. QED
  BY <1>1, <1>2 DEF IInv

LEMMA TickHolds ==
  ASSUME IInv, Tick
  PROVE  IInv'
<1>1. UNCHANGED <<tables, request, phase, pos, found, draft, held>> /\ clock' = clock + 1
  BY DEF Tick
<1>2. TypeOK'
  <2>1. clock' \in 1..MaxInstant
    BY AlarmsAssumption DEF IInv, TypeOK, Tick, AlarmsAssumption
  <2>2. QED
    BY <1>1, <2>1, Zenon DEF IInv, TypeOK, tables
<1>3. LockType'
  BY <1>1 DEF IInv, LockType
<1>4. TablesInv'
  BY <1>1 DEF IInv, TablesInv, NewestReadingWins, ActiveIsLast, Agrees, OneWorkOrderPerAlarm,
     tables
<1>5. \A t \in Sessions : SessionInv(t)'
  BY <1>1, Undisturbed DEF IInv
<1>6. QED
  BY <1>2, <1>3, <1>4, <1>5 DEF IInv

LEMMA SessionHolds ==
  ASSUME AlarmsAssumption, IInv, NEW s \in Sessions, SessionStep(s)
  PROVE  IInv'
<1>1. /\ TypeOK /\ LockType /\ TablesInv /\ SessionInv(s)
      /\ NewestReadingWins /\ OneWorkOrderPerAlarm
  BY DEF IInv, TablesInv
<1>2. CASE Submit(s)
  <2>1. UNCHANGED tables
    BY <1>2 DEF Submit, Begin
  <2>2. QED
    BY <1>1, <1>2, <2>1, SubmitStep, StepHolds
<1>3. CASE LockChannel(s)
  BY <1>1, <1>3, LockChannelStep, StepHolds DEF LockChannel
<1>4. CASE Ingest(s)
  BY <1>1, <1>4, IngestStep, StepHolds DEF Ingest
<1>5. CASE EvaluateAlarm(s)
  BY <1>1, <1>5, EvaluateAlarmStep, StepHolds DEF EvaluateAlarm
<1>6. CASE OpenAlarm(s)
  BY <1>1, <1>6, OpenAlarmStep, StepHolds DEF OpenAlarm
<1>7. CASE LogReading(s)
  BY <1>1, <1>7, LogReadingStep, StepHolds DEF LogReading
<1>8. CASE ChangeAlarm(s)
  BY <1>1, <1>8, ChangeAlarmStep, StepHolds DEF ChangeAlarm
<1>9. CASE LockForWork(s)
  BY <1>1, <1>9, LockForWorkStep, StepHolds DEF LockForWork
<1>10. CASE CreateWorkOrder(s)
  BY <1>1, <1>10, CreateWorkOrderStep, StepHolds DEF CreateWorkOrder
<1>11. CASE Rollback(s)
  BY <1>1, <1>11, RollbackStep, StepHolds
<1>12. CASE Commit(s)
  <2>1. TypeOK' /\ LockType' /\ TablesInv' /\ SessionInv(s)'
    BY <1>1, <1>12, CommitStep
  <2>2. \A t \in Sessions \ {s} : SessionInv(t)'
    BY <1>1, <1>12, CommitOthers DEF IInv
  <2>3. QED
    BY <2>1, <2>2 DEF IInv
<1>13. QED
  BY <1>2, <1>3, <1>4, <1>5, <1>6, <1>7, <1>8, <1>9, <1>10, <1>11, <1>12 DEF SessionStep

LEMMA NextHolds ==
  ASSUME AlarmsAssumption, IInv, [Next]_vars
  PROVE  IInv'
<1>1. CASE Tick
  BY <1>1, TickHolds
<1>2. ASSUME NEW s \in Sessions, SessionStep(s)
      PROVE  IInv'
  BY <1>2, SessionHolds
<1>3. CASE UNCHANGED vars
  <2>1. UNCHANGED <<tables, clock, request, phase, pos, found, draft, held>>
    BY <1>3 DEF vars, tables
  <2>2. TypeOK' /\ LockType' /\ TablesInv'
    BY <2>1 DEF IInv, TypeOK, LockType, TablesInv, NewestReadingWins, ActiveIsLast, Agrees,
       OneWorkOrderPerAlarm, tables
  <2>3. \A t \in Sessions : SessionInv(t)'
    BY <2>1, Undisturbed DEF IInv
  <2>4. QED
    BY <2>2, <2>3 DEF IInv
<1>4. QED
  BY <1>1, <1>2, <1>3 DEF Next

LEMMA AlarmsInvariant == Spec => []IInv
<1>1. Init => IInv
  BY AlarmsAssumption, InitHolds
<1>2. IInv /\ [Next]_vars => IInv'
  BY AlarmsAssumption, NextHolds
<1>3. QED
  BY <1>1, <1>2, PTL DEF Spec

-----------------------------------------------------------------------------
\* What it means

(* However batches of readings and operators interleave, a channel never    *)
(* has two active alarms, and all rows keep their types: only a session     *)
(* that has locked the channel and holds the number gate opens an alarm     *)
(* (evaluate_telemetry_alarm_atomic).                                       *)
THEOREM OneActiveAlarmHolds == Spec => []OneActiveAlarm
<1>1. IInv => OneActiveAlarm
  <2> SUFFICES ASSUME IInv
               PROVE  OneActiveAlarm
    OBVIOUS
  <2>1. \A a \in AlarmIds : alarms[a].status \in Active => Exists(alarms[a])
    BY RowOrNone DEF IInv, TypeOK
  <2>2. QED
    BY <2>1 DEF IInv, TablesInv, ActiveIsLast, OneActiveAlarm, AlarmIds
<1>2. QED
  BY <1>1, AlarmsInvariant, PTL

(* The live marker of a channel is that of its newest reading, whatever the *)
(* order in which readings arrive and commit (_is_temporally_current).      *)
THEOREM NewestReadingWinsHolds == Spec => []NewestReadingWins
<1>1. IInv => NewestReadingWins
  BY DEF IInv, TablesInv
<1>2. QED
  BY <1>1, AlarmsInvariant, PTL

(* Every active alarm has the severity of its channel's live value, and a   *)
(* live violation has an alarm that is not merely cleared                   *)
(* (evaluate_telemetry_alarm_atomic).                                       *)
THEOREM AlarmsMatchReadingsHolds == Spec => []AlarmsMatchReadings
<1>1. IInv => AlarmsMatchReadings
  <2> SUFFICES ASSUME IInv, NEW a \in AlarmIds
               PROVE  LET row == alarms[a]
                          level == Level(row.channel, channels[row.channel].value)
                      IN /\ row.status \in Active => row.severity = level
                         /\ (row.status = "Cleared" /\ level # "Normal") =>
                              \E b \in AlarmIds :
                                /\ b > a /\ alarms[b] # NoAlarm
                                /\ alarms[b].channel = row.channel
    BY DEF AlarmsMatchReadings
  <2>1. CASE Exists(alarms[a])
    <3>1. alarms[a].channel \in Channels
      BY <2>1, RowOrNone, RowType DEF IInv, TypeOK
    <3>2. Agrees(channels, alarms, alarms[a].channel)
      BY <3>1 DEF IInv, TablesInv
    <3>3. \A b \in AlarmIds : Exists(alarms[b]) <=> alarms[b] # NoAlarm
      BY RowOrNone DEF IInv, TypeOK
    <3>4. QED
      BY <2>1, <3>2, <3>3 DEF Agrees
  <2>2. CASE ~Exists(alarms[a])
    BY <2>2, RowOrNone DEF IInv, TypeOK
  <2>3. QED
    BY <2>1, <2>2
<1>2. QED
  BY <1>1, AlarmsInvariant, PTL

(* Repeated requests for a work order create one: an alarm is linked under  *)
(* its lock and only while it is not linked (create_alarm_work_order_atomic).*)
THEOREM OneWorkOrderPerAlarmHolds == Spec => []OneWorkOrderPerAlarm
<1>1. IInv => OneWorkOrderPerAlarm
  BY DEF IInv, TablesInv
<1>2. QED
  BY <1>1, AlarmsInvariant, PTL

(* No alarm goes back in its life, whatever it was when a request looked it *)
(* up: what is committed is a later state of the committed row              *)
(* (_lock_and_reload_alarm, close_alarm_atomic).                            *)
THEOREM AlarmsNeverRegressHolds == Spec => AlarmsNeverRegress
<1> DEFINE Regress == \A a \in AlarmIds :
             alarms[a] # NoAlarm => Rank[alarms'[a].status] >= Rank[alarms[a].status]
<1>1. ASSUME IInv, NEW a \in AlarmIds, alarms[a] # NoAlarm
      PROVE  Exists(alarms[a]) /\ Rank[alarms[a].status] \in 1..4
  BY <1>1, RowOrNone, RowType DEF IInv, TypeOK
<1>2. ASSUME IInv, alarms' = alarms
      PROVE  Regress
  BY <1>1, <1>2
<1>3. ASSUME IInv, NEW s \in Sessions, Commit(s)
      PROVE  Regress
  <2>1. TypeOK /\ LockType /\ SessionInv(s) /\ alarms' = AlarmView(s)
    BY <1>3 DEF IInv, Commit
  <2>2. QED
    BY <1>1, <1>3, <2>1, SeenLater DEF Later
<1>4. ASSUME IInv, NEW s \in Sessions, SessionStep(s)
      PROVE  Regress
  <2>1. Commit(s) \/ alarms' = alarms
    BY <1>4 DEF SessionStep, Submit, Begin, LockChannel, Ingest, EvaluateAlarm, OpenAlarm,
       LogReading, ChangeAlarm, LockForWork, CreateWorkOrder, Rollback, tables
  <2>2. QED
    BY <1>2, <1>3, <1>4, <2>1
<1>5. IInv /\ [Next]_vars => [Regress]_vars
  BY <1>2, <1>4 DEF Next, Tick, tables
<1>6. Spec => [][Regress]_vars
  BY <1>5, AlarmsInvariant, PTL DEF Spec
<1>7. QED
  BY <1>6 DEF AlarmsNeverRegress
=============================================================================
