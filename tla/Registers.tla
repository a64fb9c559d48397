------------------------------ MODULE Registers ------------------------------
(***************************************************************************)
(* The two registers that every business transaction writes to: the        *)
(* business numbers (app/work_order_number_store.py) and the hash chain    *)
(* of the audit log with its anchor and its verification                   *)
(* (app/audit_store.py, app/audit_verification.py).                        *)
(*                                                                         *)
(* A transaction draws its numbers and then writes its audit rows, under   *)
(* the row lock of each register until it ends.  The digest is modelled by *)
(* what it promises, that nothing else has it: it is the sequence of what  *)
(* it was computed from.                                                   *)
(***************************************************************************)
EXTENDS Naturals, Sequences

CONSTANTS
  Clients,      \* concurrent transactions
  Families,     \* (table, field, prefix) of business numbers
  Contents,     \* what audit rows say
  MaxNumbers, MaxRows, MaxLosses   \* bounds: numbers, audit rows, rows altered or lost

VARIABLES
  numbers,   \* numbers[f]: the committed numbers of a family
  logs,      \* audit_logs in the order of their ids
  anchor,    \* audit_chain_anchor: digest of the head, and count
  work,      \* work[c]: what a transaction has drawn, written and locked
  verifier,  \* a verification: the rows it has read, its verdict
  truth,     \* ghost: what was ever committed to the log
  losses     \* rows altered or lost other than by the application

registerVars == <<numbers, logs, anchor, work, verifier, truth, losses>>

NoWork == [drawn |-> {}, rows |-> <<>>, gate |-> FALSE, chain |-> FALSE]
NoVerifier == [at |-> "idle", read |-> <<>>, appended |-> FALSE, altered |-> FALSE]

AuditRow == [content : Contents, prev : Seq(Contents), hash : Seq(Contents)]

TypeOK ==
  /\ numbers \in [Families -> SUBSET (1..MaxNumbers)]
  /\ logs \in Seq(AuditRow)
  /\ anchor \in [head : Seq(Contents), count : Nat]
  /\ \A c \in Clients :
       /\ work[c].drawn \subseteq Families \X (1..MaxNumbers)
       /\ work[c].rows \in Seq(AuditRow)
       /\ work[c].drawn # {} => work[c].gate
       /\ work[c].rows # <<>> => work[c].chain
  /\ verifier.at \in {"idle", "rows", "valid", "invalid"}
  /\ losses \in 0..MaxLosses

Init ==
  /\ numbers = [f \in Families |-> {}]
  /\ logs = <<>>
  /\ anchor = [head |-> <<>>, count |-> 0]
  /\ work = [c \in Clients |-> NoWork]
  /\ verifier = NoVerifier
  /\ truth = <<>>
  /\ losses = 0

-----------------------------------------------------------------------------
Others(c) == Clients \ {c}

\* UPDATE work_order_number_lock: one gate for every family.
GateFree(c) == \A d \in Others(c) : ~work[d].gate

Drawn(c, f) == {x[2] : x \in {y \in work[c].drawn : y[1] = f}}

\* next_no: one more than the greatest number it sees.
NextNumber(c, f) ==
  LET seen == numbers[f] \union Drawn(c, f) IN
  CHOOSE n \in 1..(MaxNumbers + 1) :
    (\A m \in seen : m < n) /\ (n = 1 \/ n - 1 \in seen)

Draw(c, f) ==
  /\ work[c].rows = <<>>
  /\ GateFree(c)
  /\ NextNumber(c, f) <= MaxNumbers
  /\ work' = [work EXCEPT ![c].gate = TRUE,
                          ![c].drawn = @ \union {<<f, NextNumber(c, f)>>}]
  /\ UNCHANGED <<numbers, logs, anchor, verifier, truth, losses>>

-----------------------------------------------------------------------------
Digest(prev, content) == Append(prev, content)

HashOf(rows) == IF rows = <<>> THEN <<>> ELSE rows[Len(rows)].hash

\* Mutant: the head is read from what is committed, without the lock.
ChainAlwaysFree(c) == TRUE

\* UPDATE audit_chain_lock.
ChainFree(c) == \A d \in Others(c) : ~work[d].chain

\* append_audit; the anchor follows at the commit.
Audit(c, content) ==
  LET prev == HashOf(logs \o work[c].rows) IN
  /\ ChainFree(c)
  /\ Len(truth) + Len(work[c].rows) < MaxRows
  /\ work' = [work EXCEPT ![c].chain = TRUE,
       ![c].rows = Append(@, [content |-> content, prev |-> prev,
                              hash |-> Digest(prev, content)])]
  /\ UNCHANGED <<numbers, logs, anchor, verifier, truth, losses>>

\* Mutant: a transaction of two audit rows counts one.
CountedOnce(rows) == IF rows = <<>> THEN anchor
                     ELSE [head |-> HashOf(rows), count |-> anchor.count + 1]

Anchored(rows) == IF rows = <<>> THEN anchor
                  ELSE [head |-> HashOf(rows), count |-> anchor.count + Len(rows)]

Commit(c) ==
  /\ work[c] # NoWork
  /\ numbers' = [f \in Families |-> numbers[f] \union Drawn(c, f)]
  /\ logs' = logs \o work[c].rows
  /\ anchor' = Anchored(work[c].rows)
  /\ truth' = truth \o [i \in DOMAIN work[c].rows |-> work[c].rows[i].content]
  /\ work' = [work EXCEPT ![c] = NoWork]
  /\ verifier' = [verifier EXCEPT !.appended = @ \/ work[c].rows # <<>>]
  /\ UNCHANGED losses

Rollback(c) ==
  /\ work[c] # NoWork
  /\ work' = [work EXCEPT ![c] = NoWork]
  /\ UNCHANGED <<numbers, logs, anchor, verifier, truth, losses>>

-----------------------------------------------------------------------------
\* A row of the log is altered or lost in the database.
Alter(i, content) ==
  /\ losses < MaxLosses /\ i \in DOMAIN logs /\ content # logs[i].content
  /\ losses' = losses + 1
  /\ logs' = [logs EXCEPT ![i].content = content]
  /\ verifier' = [verifier EXCEPT !.altered = TRUE]
  /\ UNCHANGED <<numbers, anchor, work, truth>>

Lose(i) ==
  /\ losses < MaxLosses /\ i \in DOMAIN logs
  /\ losses' = losses + 1
  /\ logs' = SubSeq(logs, 1, i - 1) \o SubSeq(logs, i + 1, Len(logs))
  /\ verifier' = [verifier EXCEPT !.altered = TRUE]
  /\ UNCHANGED <<numbers, anchor, work, truth>>

\* verify_audit_chain_report reads the rows and then the anchor, in two
\* statements.
Verify ==
  /\ verifier.at = "idle"
  /\ verifier' = [at |-> "rows", read |-> logs, appended |-> FALSE, altered |-> FALSE]
  /\ UNCHANGED <<numbers, logs, anchor, work, truth, losses>>

Linked(rows) ==
  \A i \in DOMAIN rows :
    LET previous == HashOf(SubSeq(rows, 1, i - 1)) IN
    /\ rows[i].prev = previous
    /\ rows[i].hash = Digest(previous, rows[i].content)

Valid(rows) ==
  /\ Linked(rows)
  /\ anchor.head = HashOf(rows)
  /\ anchor.count = Len(rows)

Judge ==
  /\ verifier.at = "rows"
  /\ verifier' = [verifier EXCEPT !.at = IF Valid(verifier.read) THEN "valid" ELSE "invalid"]
  /\ UNCHANGED <<numbers, logs, anchor, work, truth, losses>>

Report ==
  /\ verifier.at \in {"valid", "invalid"}
  /\ verifier' = NoVerifier
  /\ UNCHANGED <<numbers, logs, anchor, work, truth, losses>>

Next ==
  \/ \E c \in Clients :
       \/ \E f \in Families : Draw(c, f)
       \/ \E x \in Contents : Audit(c, x)
       \/ Commit(c) \/ Rollback(c)
  \/ \E i \in 1..MaxRows : Lose(i) \/ \E x \in Contents : Alter(i, x)
  \/ Verify \/ Judge \/ Report

Spec == Init /\ [][Next]_registerVars

-----------------------------------------------------------------------------
\* No two transactions ever hold the same business number, so the UNIQUE
\* columns never refuse one (next_no_with_work_order_lock).
NumbersNeverCollide ==
  \A c \in Clients : \A x \in work[c].drawn :
    /\ x[2] \notin numbers[x[1]]
    /\ \A d \in Others(c) : x \notin work[d].drawn

\* Left alone, the committed log is one chain that ends at the anchor
\* (append_audit).
LogIsOneChain == losses = 0 => Valid(logs)

\* A verification finds every altered or lost row that it could read, and
\* rejects an intact log only if a row was appended between its two reads
\* (verify_audit_chain_report).  Both registers are sound.
RegistersSound ==
  /\ NumbersNeverCollide
  /\ LogIsOneChain
  /\ verifier.at = "valid" /\ ~verifier.appended /\ ~verifier.altered =>
       [i \in DOMAIN verifier.read |-> verifier.read[i].content] = truth
  /\ verifier.at = "invalid" => losses > 0 \/ verifier.appended
=============================================================================
