------------------------------ MODULE MCRecords ------------------------------
EXTENDS Records, TLC

CONSTANTS c1, c2, t1, t2, t3   \* concurrent requests, session tokens

\* A token of schema v9 is sara's; the seeded permissions of two roles.
MCRawOwner == t1 :> "sara"
MCDefaults ==
  "manage" :> {"admin"} @@ "assets" :> {"admin", "planner"} @@ "added" :> {"admin", "planner"}
MCPolicy == "response" :> 1 @@ "resolution" :> 1

\* A basket names an item twice, and something that is not stocked.
Line(i, q) == [item |-> i, qty |-> q]
MCBaskets == {<<Line(2, 1), Line(0, 1), Line(1, 1), Line(2, 1)>>}
MCInitialStock == <<1, 2>>
MCReorderPoint == <<1, 1>>
MCMaxLevel == <<2, 2>>

Symmetry == Permutations({t2, t3}) \union Permutations({c1, c2})
=============================================================================
