--------------------------- MODULE RolePermissions ---------------------------
(***************************************************************************)
(* The permissions of roles (app/authorization.py, the administration      *)
(* route of app/main.py): the catalogue a starting process seeds and the   *)
(* replacement of what a role is granted.                                  *)
(*                                                                         *)
(* A replacement deletes the rows its DELETE sees and inserts its own; the *)
(* rows another replacement commits meanwhile are not among those it sees, *)
(* even where they grant the same permission.  A row is therefore known by *)
(* the request that wrote it.                                              *)
(***************************************************************************)
EXTENDS Integers, FiniteSets

CONSTANTS
  Roles, Admin,   \* role codes, and 'admin' among them
  Perms, Manage,  \* capability codes, and admin.permissions.manage among them
  Added,          \* capabilities a new release brings
  Defaults,       \* Defaults[p]: default_roles of PERMISSION_CATALOG
  Clients,        \* concurrent requests and starting processes
  MaxRequests     \* bound: replacements and starts in a behaviour

VARIABLES
  catalog,   \* permissions
  grants,    \* role_permissions: grants[r] the rows of a role
  change,    \* change[c]: a replacement that has deleted, and not committed
  changes    \* replacements and starts so far

roleVars == <<catalog, grants, change, changes>>

Seed == 0
Grant(p, n) == [perm |-> p, by |-> n]

TypeOK ==
  /\ catalog \subseteq Perms
  /\ grants \in [Roles -> SUBSET [perm : Perms, by : 0..MaxRequests]]
  /\ \A r \in Roles : \A g, k \in grants[r] : g.perm = k.perm => g = k
  /\ changes \in 0..MaxRequests

Init ==
  /\ catalog = Perms \ Added
  /\ grants = [r \in Roles |-> {Grant(p, Seed) : p \in {q \in catalog : r \in Defaults[q]}}]
  /\ change = [c \in Clients |-> <<>>]
  /\ changes = 0

-----------------------------------------------------------------------------
PermsOf(rows) == {g.perm : g \in rows}

\* ensure_permission_catalog: defaults come with a capability that is new.
Start ==
  LET new == Perms \ catalog IN
  /\ new # {}
  /\ changes < MaxRequests
  /\ changes' = changes + 1
  /\ catalog' = Perms
  /\ grants' = [r \in Roles |->
       grants[r] \union {Grant(p, Seed) : p \in {q \in new : r \in Defaults[q]}}]
  /\ UNCHANGED change

\* Mutant: the administrators may give up the administration of permissions.
AnyKnown(r, requested) == requested \subseteq catalog

Allowed(r, requested) ==
  /\ r = Admin => Manage \in requested
  /\ requested \subseteq catalog

\* replace_role_permissions, up to its DELETE.
Replace(c, r, requested) ==
  /\ change[c] = <<>>
  /\ changes < MaxRequests
  /\ Allowed(r, requested)
  /\ changes' = changes + 1
  /\ change' = [change EXCEPT ![c] =
       <<[role |-> r, requested |-> requested, seen |-> grants[r], by |-> changes']>>]
  /\ UNCHANGED <<catalog, grants>>

\* Mutant: a row that is there is left, and the rest inserted.
NoConflict(left, requested) == TRUE

\* The key of role_permissions is (role_id, permission_id).
Insertable(left, requested) == PermsOf(left) \intersect requested = {}

Inserted(left, d) ==
  left \union {Grant(p, d.by) : p \in d.requested \ PermsOf(left)}

\* The inserts and the commit, or the failure of an insert and the rollback.
Commit(c) ==
  LET d == change[c][1]
      left == grants[d.role] \ d.seen
  IN /\ change[c] # <<>>
     /\ grants' = IF Insertable(left, d.requested)
                    THEN [grants EXCEPT ![d.role] = Inserted(left, d)]
                    ELSE grants
     /\ change' = [change EXCEPT ![c] = <<>>]
     /\ UNCHANGED <<catalog, changes>>

Next ==
  \/ Start
  \/ \E c \in Clients :
       \/ \E r \in Roles, requested \in SUBSET Perms : Replace(c, r, requested)
       \/ Commit(c)

-----------------------------------------------------------------------------
\* The administrators can always administer permissions, and their role is
\* never a mixture of what two concurrent requests asked for: the permission
\* each must name makes the second one fail (replace_role_permissions).
AdminRoleIsOneRequest ==
  /\ Manage \in PermsOf(grants[Admin])
  /\ \A g, k \in grants[Admin] : Seed \notin {g.by, k.by} => g.by = k.by
=============================================================================
