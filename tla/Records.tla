------------------------------- MODULE Records -------------------------------
(***************************************************************************)
(* The components whose transactions are short and touch few rows.  Each   *)
(* behaviour is one of one component, the scenario; the others rest in     *)
(* their initial state.  What they share, the locks of the two registers,  *)
(* is module Registers.                                                    *)
(***************************************************************************)
EXTENDS Integers, Sequences, FiniteSets, Functions

CONSTANTS
  Clients,                                          \* concurrent requests
  Users, Admins, Service, Passwords, First,         \* Sessions
  Tokens, RawOwner, MaxSignIns,
  People, Hosts, MaxFailures, ClientMaxFailures,    \* LoginThrottle
  Window, LockBase, LockMax, MaxLoginTime, MaxAttempts,
  Roles, Admin, Perms, Manage, Added, Defaults, MaxReplacements,   \* RolePermissions
  Families, Contents, MaxNumbers, MaxRows, MaxLosses,              \* Registers
  Assets, OutageIds, MaxPatches,                    \* Outages
  WorkOrders, Minutes, FirstPolicy, MaxTime, MaxPolicies,          \* ServiceLevels
  InspectionIds, MaxSubmissions,                    \* Inspections
  Warehouses, Home, Keys, NoKey, MaxItems, Stock, MaxTransfers,    \* Transfers
  NumItems, InitialStock, ReorderPoint, MaxLevel,   \* Procurement
  Baskets, MaxIssue, MaxRequisitions, MaxApprovals, MaxOrders

\* The administrators have accounts, and so have the owners of old sessions.
ASSUME AccountsAssumption ==
  /\ Admins \subseteq Users
  /\ First \in Passwords
  /\ RawOwner \in [DOMAIN RawOwner -> Users] /\ DOMAIN RawOwner \subseteq Tokens
  /\ MaxSignIns \in Nat

\* The bounds of the other components.
ASSUME BoundsAssumption ==
  /\ MaxPatches \in Nat /\ MaxTime \in Nat /\ MaxPolicies \in Nat
  /\ MaxSubmissions \in Nat /\ MaxReplacements \in Nat

\* Limits and times of the throttle, in failures and ticks.
ASSUME ThrottleAssumption ==
  /\ MaxFailures \in Nat /\ ClientMaxFailures \in Nat /\ Window \in Nat \ {0}
  /\ LockBase \in Nat /\ LockMax \in Nat /\ MaxLoginTime \in Nat /\ MaxAttempts \in Nat

\* The administration of permissions is an old capability, and by default one of
\* the administrators.
ASSUME RolesAssumption ==
  Admin \in Roles /\ Manage \in Perms \ Added /\ Admin \in Defaults[Manage]

\* Policies have targets for both kinds of service level.
ASSUME LevelsAssumption ==
  /\ Minutes \subseteq Nat
  /\ FirstPolicy \in [{"response", "resolution"} -> Nat]

\* The bounds of the registers.
ASSUME BooksAssumption == MaxNumbers \in Nat /\ MaxLosses \in Nat

\* The first row holds some stock in a warehouse, and there is room for it.
ASSUME TransfersAssumption ==
  Home \in Warehouses /\ Stock \in Nat /\ MaxItems \in Nat \ {0} /\ MaxTransfers \in Nat

\* Quantities of the items, and the lines users write requisitions for.
ASSUME PurchaseAssumption ==
  /\ NumItems \in Nat /\ MaxRequisitions \in Nat /\ MaxApprovals \in Nat /\ MaxOrders \in Nat
  /\ InitialStock \in [1..NumItems -> Int] /\ ReorderPoint \in [1..NumItems -> Int]
  /\ MaxLevel \in [1..NumItems -> Int] /\ MaxIssue \in Nat
  /\ Baskets \subseteq Seq([item : 0..NumItems, qty : Nat \ {0}])

VARIABLES
  scenario,
  user, session, raw, expired, request, spent,
  counter, clock, attempt, failed, attempts,
  catalog, grants, change, changes,
  numbers, logs, anchor, work, verifier, truth, losses,
  status, outage, act, patches,
  order, policy, sla, events, scan, stamp, time, announced, policies,
  inspection, corrective, submit, answers, requests,
  items, keys, job, moved, replies, created, calls,
  requisitions, approvals, orders, lots, purchase, stage, ahead, unpacked, written, locked

Accounts == INSTANCE Sessions WITH MaxRequests <- MaxSignIns
Throttle == INSTANCE LoginThrottle WITH Users <- People, MaxTime <- MaxLoginTime
Permits == INSTANCE RolePermissions WITH MaxRequests <- MaxReplacements
Books == INSTANCE Registers
Outage == INSTANCE Outages WITH Outages <- OutageIds
Levels == INSTANCE ServiceLevels WITH
  Work <- WorkOrders, Scanners <- Clients, work <- order, clock <- time
Checks == INSTANCE Inspections WITH
  Inspections <- InspectionIds, MaxRequests <- MaxSubmissions
Moves == INSTANCE Transfers WITH
  MaxRequests <- MaxTransfers, answers <- replies, requests <- calls
Buy == INSTANCE Procurement WITH
  Sessions <- Clients, items <- lots, request <- purchase, phase <- stage,
  draft <- written, held <- locked

-----------------------------------------------------------------------------
accountsVars == <<user, session, raw, expired, request, spent>>
throttleVars == <<counter, clock, attempt, failed, attempts>>
roleVars == <<catalog, grants, change, changes>>
registerVars == <<numbers, logs, anchor, work, verifier, truth, losses>>
outageVars == <<status, outage, act, patches>>
levelVars == <<order, policy, sla, events, scan, stamp, time, announced, policies>>
inspectionVars == <<inspection, corrective, submit, answers, requests>>
transferVars == <<items, keys, job, moved, replies, created, calls>>
purchaseVars == <<requisitions, approvals, orders, lots, purchase, stage, ahead, unpacked,
                  written, locked>>

vars == <<scenario, accountsVars, throttleVars, roleVars,
          registerVars, outageVars, levelVars,
          inspectionVars, transferVars, purchaseVars>>

Init ==
  /\ scenario \in {"accounts", "throttle", "roles", "registers", "outages", "levels",
                   "inspections", "transfers", "purchases"}
  /\ Accounts!Init /\ Throttle!Init /\ Permits!Init /\ Books!Init
  /\ Outage!Init /\ Levels!Init /\ Checks!Init /\ Moves!Init /\ Buy!Init

AccountsStep ==
  /\ scenario = "accounts" /\ Accounts!Next
  /\ UNCHANGED <<scenario, throttleVars, roleVars, registerVars, outageVars,
                 levelVars, inspectionVars, transferVars, purchaseVars>>

ThrottleStep ==
  /\ scenario = "throttle" /\ Throttle!Next
  /\ UNCHANGED <<scenario, accountsVars, roleVars, registerVars, outageVars,
                 levelVars, inspectionVars, transferVars, purchaseVars>>

RolesStep ==
  /\ scenario = "roles" /\ Permits!Next
  /\ UNCHANGED <<scenario, accountsVars, throttleVars, registerVars, outageVars,
                 levelVars, inspectionVars, transferVars, purchaseVars>>

BooksStep ==
  /\ scenario = "registers" /\ Books!Next
  /\ UNCHANGED <<scenario, accountsVars, throttleVars, roleVars, outageVars,
                 levelVars, inspectionVars, transferVars, purchaseVars>>

OutageStep ==
  /\ scenario = "outages" /\ Outage!Next
  /\ UNCHANGED <<scenario, accountsVars, throttleVars, roleVars, registerVars,
                 levelVars, inspectionVars, transferVars, purchaseVars>>

LevelsStep ==
  /\ scenario = "levels" /\ Levels!Next
  /\ UNCHANGED <<scenario, accountsVars, throttleVars, roleVars, registerVars,
                 outageVars, inspectionVars, transferVars, purchaseVars>>

ChecksStep ==
  /\ scenario = "inspections" /\ Checks!Next
  /\ UNCHANGED <<scenario, accountsVars, throttleVars, roleVars, registerVars,
                 outageVars, levelVars, transferVars, purchaseVars>>

MovesStep ==
  /\ scenario = "transfers" /\ Moves!Next
  /\ UNCHANGED <<scenario, accountsVars, throttleVars, roleVars, registerVars,
                 outageVars, levelVars, inspectionVars, purchaseVars>>

BuyStep ==
  /\ scenario = "purchases" /\ Buy!Next
  /\ UNCHANGED <<scenario, accountsVars, throttleVars, roleVars, registerVars,
                 outageVars, levelVars, inspectionVars, transferVars>>

Next ==
  \/ AccountsStep \/ ThrottleStep \/ RolesStep \/ BooksStep
  \/ OutageStep \/ LevelsStep \/ ChecksStep \/ MovesStep \/ BuyStep

Spec == Init /\ [][Next]_vars

-----------------------------------------------------------------------------
\* Tokens have one home, locks of sign-in are earned by one's own failures, and
\* the administrators' permissions are those of one request (Sessions,
\* LoginThrottle, RolePermissions).
AccessSound ==
  /\ scenario = "accounts" => Accounts!TypeOK /\ Accounts!OneHome
  /\ scenario = "throttle" => Throttle!TypeOK /\ Throttle!LocksAreEarned
  /\ scenario = "roles" => Permits!TypeOK /\ Permits!AdminRoleIsOneRequest

\* Business numbers never collide, the audit log is one chain, and its
\* verification is right about it (Registers).
RegistersSound ==
  scenario = "registers" => Books!TypeOK /\ Books!RegistersSound

\* A service level breach is announced once, and an inspection has one answer
\* and one corrective work order (ServiceLevels, Inspections).
FieldRecordsSound ==
  /\ scenario = "outages" => Outage!TypeOK
  /\ scenario = "levels" => Levels!TypeOK /\ Levels!BreachesAnnouncedOnce
  /\ scenario = "inspections" => Checks!TypeOK /\ Checks!OneTerminalAnswer

\* A transfer repeated under its key moves stock once and is answered alike,
\* stock is conserved and no destination is created twice (Transfers).
TransfersExactlyOnce ==
  scenario = "transfers" => Moves!TypeOK /\ Moves!TransfersExactlyOnce

\* Requisition, approvals, order, receipts and stock agree, whoever submits,
\* decides, orders and receives at once (Procurement).
RecordsAgree == scenario = "purchases" => Buy!RecordsAgree

\* Concurrent reorder scans do not order an item twice (Procurement).
ReplenishesOnce == scenario = "purchases" => Buy!ReplenishesOnce

\* An automatic requisition is committed while the stock is low (Procurement).
ReplenishesWhenLow == Buy!ReplenishesWhenLow

\* A revoked digest row is never good again, and a revoked raw token only by a
\* move that had read its row before it was deleted (Sessions).
RevokedForGood == Accounts!RevokedForGood

\* The last active administrator is lost only to two overlapping requests
\* (Sessions).
LastAdminNeedsOverlap == Accounts!LastAdminNeedsOverlap

\* An asset under an open outage is put into operation only by a person or by a
\* request that another one has overtaken (Outages).
UpOnlyByOutdatedRead == Outage!UpOnlyByOutdatedRead
=============================================================================
