-------------------------------- MODULE MCStock ------------------------------
(***************************************************************************)
(* The instances of Reservations for the passing run.  Each behaviour is   *)
(* one of three scenarios, which differ in the constants only:             *)
(*   race   the requests of two work orders on one item                    *)
(*   plan   reserve-all, adjustments and cancellation for one planned work *)
(*   move   transfers, receipts and reserve-all over two items             *)
(* The first has the constants of the configuration.                       *)
(***************************************************************************)
EXTENDS MCReservations

VARIABLE scenario

Plan == INSTANCE Reservations WITH
  Works <- {w1}, Offered <- {"reserve", "reserveAll", "issue", "adjust", "cancel"},
  Targets <- {0, 2}, Planned <- PlanFirst

Move == INSTANCE Reservations WITH
  NumItems <- 2, Works <- {w1}, Offered <- {"transfer", "reserveAll", "receive", "adjust"},
  Opening <- 1, Targets <- {-1}, Planned <- PlanBoth, MaxQty <- 1, MaxUsed <- 1

stockVars == <<scenario, vars>>

StockInit ==
  /\ scenario \in {"race", "plan", "move"}
  /\ CASE scenario = "plan" -> Plan!Init
       [] scenario = "move" -> Move!Init
       [] OTHER -> Init

RaceStep == scenario = "race" /\ Next /\ UNCHANGED scenario
PlanStep == scenario = "plan" /\ Plan!Next /\ UNCHANGED scenario
MoveStep == scenario = "move" /\ Move!Next /\ UNCHANGED scenario

StockSpec == StockInit /\ [][RaceStep \/ PlanStep \/ MoveStep]_stockVars

-----------------------------------------------------------------------------
\* Totals, ledger and reservations of an item agree in every committed state
\* (reserve, issue, transfer and manual transactions of Reservations).
StockBooksAgree ==
  /\ scenario = "race" =>
       TypeOK /\ ReservedMatchesOutstanding /\ LedgerExplainsStock /\ IssuesAreConsumption
  /\ scenario = "plan" => Plan!TypeOK /\ Plan!LedgerExplainsStock
  /\ scenario = "move" => Move!TypeOK /\ Move!LedgerExplainsStock

\* "Canonical database lock ordering for multi-row mutations": transfers and
\* reserve-all over two items never wait for each other (Reservations).
ItemsLockedInOrder == scenario = "move" => Move!NoCircularWait
=============================================================================
