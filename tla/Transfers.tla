------------------------------ MODULE Transfers ------------------------------
(***************************************************************************)
(* Transfers of stock to another warehouse (app/transfer_store.py): the    *)
(* idempotency key, the discovery or creation of the destination row under *)
(* the creation coordinator, and the sorted item locks.  Module            *)
(* Reservations has the same item rows under all other stock operations.   *)
(*                                                                         *)
(* One material: a row of inventory_items is known by its warehouse, and   *)
(* there may be several.  Ids grow; a draft is what a transfer has written *)
(* and not committed.                                                      *)
(***************************************************************************)
EXTENDS Integers, FiniteSets, FiniteSetsExt

CONSTANTS
  Warehouses,
  Home,         \* the warehouse of the first row
  Keys, NoKey,  \* Idempotency-Key values, and none
  Clients,      \* concurrent requests
  MaxItems,     \* bound: item rows
  Stock,        \* what the first row holds
  MaxRequests   \* bound: requests in a behaviour

VARIABLES
  items,      \* items[i]: warehouse and current_stock of the committed rows
  keys,       \* inventory_transfer_idempotency: payload and response_stock
  job,        \* job[c]: the request and how far it is
  moved,      \* ghost: moved[k]: transfers committed under a key
  answers,    \* ghost: answers[k]: what was answered to its payload
  created,    \* ghost: stock of rows created by hand
  requests    \* requests so far

transferVars == <<items, keys, job, moved, answers, created, requests>>

Coordinator == 0
Idle == [at |-> "idle", held |-> {}]
Steps == {"idle", "claim", "find", "coordinate", "lock", "write", "create"}

TypeOK ==
  /\ DOMAIN items \subseteq 1..MaxItems
  /\ \A i \in DOMAIN items : items[i].warehouse \in Warehouses /\ items[i].stock \in Nat
  /\ DOMAIN keys \subseteq Keys
  /\ \A c \in Clients : job[c].at \in Steps /\ job[c].held \subseteq 0..MaxItems
  /\ requests \in 0..MaxRequests

Init ==
  /\ items = [i \in {1} |-> [warehouse |-> Home, stock |-> Stock]]
  /\ keys = <<>>
  /\ job = [c \in Clients |-> Idle]
  /\ moved = [k \in Keys |-> 0]
  /\ answers = [k \in Keys |-> {}]
  /\ created = 0
  /\ requests = 0

-----------------------------------------------------------------------------
Free(c, lock) == \A d \in Clients \ {c} : lock \notin job[d].held

\* What of the request makes its payload hash, and the key.
Payload(c) == <<job[c].source, job[c].to, job[c].amount>>

Becomes(c, j) == job' = [job EXCEPT ![c] = j]

Goto(c, step) == Becomes(c, [job[c] EXCEPT !.at = step])

Drop(c) == Becomes(c, Idle)

Transfer(c, i, w, q, k) ==
  /\ job[c].at = "idle"
  /\ requests < MaxRequests
  /\ i \in DOMAIN items /\ items[i].warehouse # w
  /\ requests' = requests + 1
  /\ Becomes(c, [at |-> "claim", held |-> {}, source |-> i, to |-> w, amount |-> q,
                 key |-> k, claimed |-> FALSE, locks |-> {}, target |-> 0])
  /\ UNCHANGED <<items, keys, moved, answers, created>>

\* Mutant: a key counts once its transfer is committed.
ClaimableBeside(c, k) == TRUE

\* The insert waits for the transaction that has inserted the same key.
Claimable(c, k) == \A d \in Clients \ {c} : job[d].at # "idle" /\ job[d].at # "create" =>
                      ~(job[d].claimed /\ job[d].key = k)

\* _claim_idempotency
Claim(c) ==
  LET k == job[c].key IN
  /\ job[c].at = "claim"
  /\ IF k = NoKey
       THEN Goto(c, "find") /\ UNCHANGED answers
       ELSE /\ Claimable(c, k)
            /\ IF k \notin DOMAIN keys
                 THEN /\ Becomes(c, [job[c] EXCEPT !.at = "find", !.claimed = TRUE])
                      /\ UNCHANGED answers
                 ELSE /\ Drop(c)
                      /\ answers' = IF keys[k].payload = Payload(c)
                                      THEN [answers EXCEPT ![k] = @ \union {keys[k].stock}]
                                      ELSE answers
  /\ UNCHANGED <<items, keys, moved, created, requests>>

RowsAt(w) == {i \in DOMAIN items : items[i].warehouse = w}

\* _destination: the oldest row, or 0.
Destination(w) == IF RowsAt(w) = {} THEN 0 ELSE Min(RowsAt(w))

Locking(c, target) ==
  Becomes(c, [job[c] EXCEPT !.at = "lock", !.target = target,
                            !.locks = {job[c].source, target} \ {0}])

Find(c) ==
  LET d == Destination(job[c].to) IN
  /\ job[c].at = "find"
  /\ IF d # 0 THEN Locking(c, d) ELSE Goto(c, "coordinate")
  /\ UNCHANGED <<items, keys, moved, answers, created, requests>>

\* Mutant: the destination is not looked for again.
StillNone(w) == 0

\* Under the coordinator the destination is looked for again.
FoundAgain(w) == Destination(w)

Coordinate(c) ==
  /\ job[c].at = "coordinate"
  /\ Free(c, Coordinator)
  /\ Becomes(c, [job[c] EXCEPT !.at = "lock", !.held = {Coordinator},
                               !.target = FoundAgain(job[c].to),
                               !.locks = {job[c].source, FoundAgain(job[c].to)} \ {0}])
  /\ UNCHANGED <<items, keys, moved, answers, created, requests>>

\* _lock_item_rows, in the order of the ids.
Lock(c) ==
  LET i == Min(job[c].locks) IN
  /\ job[c].at = "lock" /\ job[c].locks # {}
  /\ Free(c, i)
  /\ Becomes(c, [job[c] EXCEPT !.held = @ \union {i}, !.locks = @ \ {i}])
  /\ UNCHANGED <<items, keys, moved, answers, created, requests>>

NewItem == Cardinality(DOMAIN items) + 1

\* The debit is guarded; a row that is missing is created under the gate of the
\* business numbers, which the coordinator implies here.  The key is completed.
Commit(c) ==
  LET j == job[c]
      left == items[j.source].stock - j.amount
      dest == IF j.target = 0 THEN NewItem ELSE j.target
  IN /\ j.at = "lock" /\ j.locks = {}
     /\ left >= 0
     /\ dest <= MaxItems
     /\ items' = [i \in DOMAIN items \union {dest} |->
          IF i = j.source THEN [items[i] EXCEPT !.stock = left]
          ELSE IF i # dest THEN items[i]
          ELSE IF i \in DOMAIN items THEN [items[i] EXCEPT !.stock = @ + j.amount]
          ELSE [warehouse |-> j.to, stock |-> j.amount]]
     /\ IF j.key = NoKey THEN UNCHANGED <<keys, moved, answers>>
        ELSE /\ keys' = [k \in DOMAIN keys \union {j.key} |->
                  IF k = j.key THEN [payload |-> Payload(c), stock |-> left] ELSE keys[k]]
             /\ moved' = [moved EXCEPT ![j.key] = @ + 1]
             /\ answers' = [answers EXCEPT ![j.key] = @ \union {left}]
     /\ Drop(c)
     /\ UNCHANGED <<created, requests>>

\* A conflict, a crash or a lost connection: the draft, the key and the locks go.
Rollback(c) ==
  /\ job[c].at # "idle"
  /\ Drop(c)
  /\ UNCHANGED <<items, keys, moved, answers, created, requests>>

\* create_inventory_atomic under the same coordinator.
BeginCreate(c, w, q) ==
  /\ job[c].at = "idle"
  /\ requests < MaxRequests
  /\ Free(c, Coordinator)
  /\ NewItem <= MaxItems
  /\ requests' = requests + 1
  /\ Becomes(c, [at |-> "create", held |-> {Coordinator}, to |-> w, amount |-> q])
  /\ UNCHANGED <<items, keys, moved, answers, created>>

CommitCreate(c) ==
  /\ job[c].at = "create"
  /\ items' = [i \in DOMAIN items \union {NewItem} |->
       IF i \in DOMAIN items THEN items[i]
       ELSE [warehouse |-> job[c].to, stock |-> job[c].amount]]
  /\ created' = created + job[c].amount
  /\ Drop(c)
  /\ UNCHANGED <<keys, moved, answers, requests>>

Next ==
  \E c \in Clients :
    \/ \E i \in 1..MaxItems, w \in Warehouses, q \in 1..Stock, k \in Keys \union {NoKey} :
         Transfer(c, i, w, q, k)
    \/ \E w \in Warehouses : BeginCreate(c, w, 1)
    \/ Claim(c) \/ Find(c) \/ Coordinate(c) \/ Lock(c) \/ Commit(c)
    \/ CommitCreate(c) \/ Rollback(c)

-----------------------------------------------------------------------------
\* What all rows hold, counted unit by unit.
Total == Cardinality(UNION {{i} \X (1..items[i].stock) : i \in DOMAIN items})

\* A transfer repeated under its key moves stock once, and every answer to it is
\* the first one (_claim_idempotency, _complete_idempotency).
KeysMoveOnce ==
  \A k \in Keys : moved[k] <= 1 /\ Cardinality(answers[k]) <= 1

\* Transfers neither make nor lose stock (transfer_inventory_atomic).
StockIsConserved == Total = Stock + created

\* A transfer that is about to create its destination still has none to use,
\* so transfers alone never split a material in a warehouse.
NoSplitDestination ==
  \A c \in Clients :
    job[c].at = "lock" /\ job[c].target = 0 => RowsAt(job[c].to) = {}

TransfersExactlyOnce == KeysMoveOnce /\ StockIsConserved /\ NoSplitDestination
=============================================================================
