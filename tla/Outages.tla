------------------------------- MODULE Outages -------------------------------
(***************************************************************************)
(* Outages and the status of the asset they take down                      *)
(* (app/outage_store.py, create_outage and field updates in                *)
(* app/application.py, app/asset_store.py).                                *)
(*                                                                         *)
(* Opening reads the status of the asset without a lock and takes its row  *)
(* only if it changes it; closing claims the outage, counts the others     *)
(* that are committed, and takes the row of the asset only if there is     *)
(* none.  What is written becomes visible at the commit.                   *)
(***************************************************************************)
EXTENDS Naturals

CONSTANTS
  Assets, Outages,   \* rows that exist or may be created
  Clients,           \* concurrent requests
  MaxPatches         \* bound: status changes by hand

VARIABLES
  status,    \* status[a] of the asset
  outage,    \* outage[o]: its asset and whether it is open
  act,       \* act[c]: an open or close under way
  patches    \* status changes by hand so far

outageVars == <<status, outage, act, patches>>

Statuses == {"Operating", "Standby", "Under Maintenance", "Retired"}
Up == {"Operating", "Standby"}

Idle == [do |-> "idle"]
NoOutage == [asset |-> "none", state |-> "none"]

TypeOK ==
  /\ status \in [Assets -> Statuses]
  /\ \A o \in Outages : outage[o] = NoOutage
                        \/ outage[o] \in [asset : Assets, state : {"Open", "Closed"}]
  /\ \A c \in Clients : act[c].do \in {"idle", "open", "opening", "close", "closing"}
  /\ patches \in 0..MaxPatches

Init ==
  /\ status = [a \in Assets |-> "Operating"]
  /\ outage = [o \in Outages |-> NoOutage]
  /\ act = [c \in Clients |-> Idle]
  /\ patches = 0

-----------------------------------------------------------------------------
Becomes(c, x) == act' = [act EXCEPT ![c] = x]

\* The row of asset a is locked by a request other than c.
Locked(c, a) ==
  \E d \in Clients \ {c} : act[d].do \in {"opening", "closing"} /\ act[d].asset = a
                           /\ act[d].to # "same"

\* The business number gate, which an opening holds from its number on.
GateTaken(c) == \E d \in Clients \ {c} : act[d].do = "opening"

OpenOn(a) == {o \in Outages : outage[o].asset = a /\ outage[o].state = "Open"}

\* create_outage reads the asset.
Open(c, a) ==
  /\ act[c] = Idle
  /\ Becomes(c, [do |-> "open", asset |-> a, read |-> status[a]])
  /\ UNCHANGED <<status, outage, patches>>

\* Mutant: only an operating asset is taken down.
DownIfOperating(s) == IF s = "Operating" THEN "Under Maintenance" ELSE "same"

DownFrom(s) == IF s \in Up THEN "Under Maintenance" ELSE "same"

\* It draws the number, inserts the outage and takes the asset down.
WriteOpen(c, o) ==
  LET x == act[c] IN
  /\ x.do = "open"
  /\ outage[o] = NoOutage
  /\ ~GateTaken(c)
  /\ DownFrom(x.read) = "same" \/ ~Locked(c, x.asset)
  /\ Becomes(c, [do |-> "opening", asset |-> x.asset, read |-> x.read, outage |-> o,
                 to |-> DownFrom(x.read)])
  /\ UNCHANGED <<status, outage, patches>>

Applied(x) == IF x.to = "same" THEN status ELSE [status EXCEPT ![x.asset] = x.to]

CommitOpen(c) ==
  LET x == act[c] IN
  /\ x.do = "opening"
  /\ outage' = [outage EXCEPT ![x.outage] = [asset |-> x.asset, state |-> "Open"]]
  /\ status' = Applied(x)
  /\ Becomes(c, Idle)
  /\ UNCHANGED patches

-----------------------------------------------------------------------------
\* Mutant: the other outages do not matter.
UpRegardless(others) == "Operating"

UpIfNone(others) == IF others = {} THEN "Operating" ELSE "same"

\* close_outage_atomic: the claim and the count of the others.
Close(c, o) ==
  LET a == outage[o].asset IN
  /\ act[c] = Idle
  /\ outage[o].state = "Open"
  /\ \A d \in Clients : act[d].do \in {"close", "closing"} => act[d].outage # o
  /\ Becomes(c, [do |-> "close", asset |-> a, outage |-> o, counted |-> OpenOn(a) \ {o}])
  /\ UNCHANGED <<status, outage, patches>>

\* The asset is put back into operation.
WriteClose(c) ==
  LET x == act[c]
      to == UpIfNone(x.counted)
  IN /\ x.do = "close"
     /\ to = "same" \/ ~Locked(c, x.asset)
     /\ Becomes(c, [do |-> "closing", asset |-> x.asset, outage |-> x.outage,
                    counted |-> x.counted, to |-> to])
     /\ UNCHANGED <<status, outage, patches>>

CommitClose(c) ==
  LET x == act[c] IN
  /\ x.do = "closing"
  /\ outage' = [outage EXCEPT ![x.outage].state = "Closed"]
  /\ status' = Applied(x)
  /\ Becomes(c, Idle)
  /\ UNCHANGED patches

Fail(c) ==
  /\ act[c] # Idle
  /\ Becomes(c, Idle)
  /\ UNCHANGED <<status, outage, patches>>

\* update_asset_record with a new status.
Patch(a, s) ==
  /\ patches < MaxPatches
  /\ s # status[a]
  /\ \A c \in Clients : ~Locked(c, a)
  /\ status' = [status EXCEPT ![a] = s]
  /\ patches' = patches + 1
  /\ UNCHANGED <<outage, act>>

Next ==
  \/ \E c \in Clients :
       \/ \E a \in Assets : Open(c, a)
       \/ \E o \in Outages : WriteOpen(c, o) \/ Close(c, o)
       \/ CommitOpen(c) \/ WriteClose(c) \/ CommitClose(c) \/ Fail(c)
  \/ \E a \in Assets, s \in Statuses : Patch(a, s)

-----------------------------------------------------------------------------
\* An asset with an open outage is up.
Exposed(a) == status[a] \in Up /\ OpenOn(a) # {}

\* What a request decided on is not what is committed any more.
Outdated(c) ==
  LET x == act[c] IN
  \/ x.do = "opening" /\ x.read # status[x.asset]
  \/ x.do = "closing" /\ x.counted # OpenOn(x.asset) \ {x.outage}

\* No opening or closing puts an asset into operation under an open outage,
\* unless another one has overtaken what it read (close_outage_atomic,
\* create_outage); only a person does so otherwise.
UpOnlyByOutdatedRead ==
  [][\A a \in Assets :
       ~Exposed(a) /\ Exposed(a)' =>
         patches' # patches \/ \E c \in Clients : Outdated(c) /\ act'[c] = Idle]_outageVars
=============================================================================
