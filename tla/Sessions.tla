------------------------------- MODULE Sessions ------------------------------
(***************************************************************************)
(* Accounts and their sessions: sign-in, the bearer check of every         *)
(* request, revocation, password change, activation, and the move of raw   *)
(* tokens of schema v9 to digest rows (app/auth_store.py, app/auth.py,     *)
(* the routes of app/main.py, app/migrations.py).                          *)
(*                                                                         *)
(* A request is a bearer check in a transaction of its own and then the    *)
(* handler in another.  A handler that decides on what it read is a read   *)
(* and a commit with other requests in between; one that only writes is    *)
(* one step.  A token stands for its digest.  The counters that throttle   *)
(* sign-in are module LoginThrottle.                                       *)
(***************************************************************************)
EXTENDS Naturals, FiniteSets

CONSTANTS
  Users,        \* accounts
  Admins,       \* those of the role admin, for good: no route changes a role
  Service,      \* the seeded account of the automation, an inactive admin
  Passwords,
  Tokens,       \* what secrets.token_urlsafe may return
  RawOwner,     \* the tokens the table of schema v9 holds at the start, with owner
  First,        \* the password of everybody at the start
  Clients,      \* concurrent requests
  MaxRequests   \* bound: requests in a behaviour

VARIABLES
  user,      \* user[u]: active, the password its hash verifies, whether the hash is old
  session,   \* auth_sessions: owner and revoked of the tokens that have a row
  raw,       \* sessions: owner of the tokens kept as they are
  expired,   \* tokens whose expires_at has passed
  request,   \* request[c]: what a request is about to do
  spent      \* requests so far

sessionVars == <<user, session, raw, expired, request, spent>>

Idle == [op |-> "idle"]

Operations == {"idle", "login", "resolve", "accepted", "change", "status", "startup"}

TypeOK ==
  /\ user \in [Users -> [active : BOOLEAN, password : Passwords, weak : BOOLEAN]]
  /\ DOMAIN session \subseteq Tokens
  /\ \A t \in DOMAIN session : session[t] \in [owner : Users, revoked : BOOLEAN]
  /\ DOMAIN raw \subseteq DOMAIN RawOwner
  /\ expired \subseteq Tokens
  /\ \A c \in Clients : request[c].op \in Operations
  /\ spent \in 0..MaxRequests

Init ==
  /\ user = [u \in Users |-> [active |-> u # Service, password |-> First, weak |-> TRUE]]
  /\ session = <<>>
  /\ raw = RawOwner
  /\ expired = {}
  /\ request = [c \in Clients |-> Idle]
  /\ spent = 0

-----------------------------------------------------------------------------
Becomes(c, r) == request' = [request EXCEPT ![c] = r]

Done(c) == Becomes(c, Idle)

Start(c, r) ==
  /\ request[c] = Idle
  /\ spent < MaxRequests
  /\ spent' = spent + 1
  /\ Becomes(c, r)

Going(c, op) == request[c].op = op /\ UNCHANGED spent

Issued == DOMAIN session \union DOMAIN raw

\* login: the row is read and the password verified; a wrong password or an
\* inactive account changes nothing here.
SignIn(c, u, p) ==
  /\ user[u].active /\ user[u].password = p
  /\ Start(c, [op |-> "login", user |-> u, password |-> p, upgrade |-> user[u].weak])
  /\ UNCHANGED <<user, session, raw, expired>>

\* create_session, and the upgraded hash of the password that was verified.
CommitSignIn(c, t) ==
  LET r == request[c] IN
  /\ Going(c, "login")
  /\ t \notin Issued /\ t \notin DOMAIN RawOwner
  /\ user' = IF r.upgrade
               THEN [user EXCEPT ![r.user].password = r.password, ![r.user].weak = FALSE]
               ELSE user
  /\ session' = [s \in DOMAIN session \union {t} |->
                   IF s = t THEN [owner |-> r.user, revoked |-> FALSE] ELSE session[s]]
  /\ Done(c)
  /\ UNCHANGED <<raw, expired>>

-----------------------------------------------------------------------------
Admitted(t, row) == user[row.owner].active /\ ~row.revoked /\ t \notin expired

Accepted(t, owner) == [op |-> "accepted", token |-> t, user |-> owner]

\* Mutant: the row of a raw token replaces one that is there.
MaterializedAnew(owners) ==
  [t \in DOMAIN session \union DOMAIN owners |->
     IF t \in DOMAIN owners THEN [owner |-> owners[t], revoked |-> FALSE] ELSE session[t]]

\* INSERT OR IGNORE of the rows of raw tokens.
Materialized(owners) ==
  [t \in DOMAIN session \union DOMAIN owners |->
     IF t \in DOMAIN session THEN session[t] ELSE [owner |-> owners[t], revoked |-> FALSE]]

Without(tokens) == [t \in DOMAIN raw \ tokens |-> raw[t]]

\* current_user: the digest row is found and good.
Present(c, t) ==
  /\ t \in DOMAIN session
  /\ Admitted(t, session[t])
  /\ Start(c, Accepted(t, session[t].owner))
  /\ UNCHANGED <<user, session, raw, expired>>

\* Mutant: the raw token is looked up in what the table held at the start.
PresentRawCached(c, t) ==
  /\ t \in DOMAIN RawOwner \ DOMAIN session
  /\ Start(c, [op |-> "resolve", token |-> t, owner |-> RawOwner[t]])
  /\ UNCHANGED <<user, session, raw, expired>>

\* It is not found, and the raw token is read.
PresentRaw(c, t) ==
  /\ t \in DOMAIN raw \ DOMAIN session
  /\ Start(c, [op |-> "resolve", token |-> t, owner |-> raw[t]])
  /\ UNCHANGED <<user, session, raw, expired>>

\* The raw token moves to a digest row, which is read again; a refusal rolls
\* the move back.
Resolve(c) ==
  LET t == request[c].token
      moved == Materialized([s \in {t} |-> request[c].owner])
  IN /\ Going(c, "resolve")
     /\ IF Admitted(t, moved[t])
          THEN /\ session' = moved
               /\ raw' = Without({t})
               /\ Becomes(c, Accepted(t, moved[t].owner))
          ELSE Done(c) /\ UNCHANGED <<session, raw>>
     /\ UNCHANGED <<user, expired>>

\* ensure_auth_schema of a starting process: every raw token it reads.
Startup(c) ==
  /\ raw # <<>>
  /\ Start(c, [op |-> "startup", rows |-> raw])
  /\ UNCHANGED <<user, session, raw, expired>>

CommitStartup(c) ==
  /\ Going(c, "startup")
  /\ session' = Materialized(request[c].rows)
  /\ raw' = Without(DOMAIN request[c].rows)
  /\ Done(c)
  /\ UNCHANGED <<user, expired>>

-----------------------------------------------------------------------------
Revoked(tokens) ==
  [t \in DOMAIN session |-> [session[t] EXCEPT !.revoked = @ \/ t \in tokens]]

TokensOf(u) == {t \in DOMAIN session : session[t].owner = u}
RawOf(u) == {t \in DOMAIN raw : raw[t] = u}

\* logout, and the revocation of one session of one's own.
RevokeOne(c, t) ==
  /\ Going(c, "accepted")
  /\ t \in TokensOf(request[c].user) /\ ~session[t].revoked
  /\ session' = Revoked({t})
  /\ Done(c)
  /\ UNCHANGED <<user, raw, expired>>

RevokeOthers(c) ==
  LET r == request[c] IN
  /\ Going(c, "accepted")
  /\ session' = Revoked(TokensOf(r.user) \ {r.token})
  /\ raw' = Without(RawOf(r.user))
  /\ Done(c)
  /\ UNCHANGED <<user, expired>>

RevokeAll(c) ==
  LET u == request[c].user IN
  /\ Going(c, "accepted")
  /\ session' = Revoked(TokensOf(u))
  /\ raw' = Without(RawOf(u))
  /\ Done(c)
  /\ UNCHANGED <<user, expired>>

\* change_password: current and new password are compared with the stored hash.
ChangePassword(c, p) ==
  /\ Going(c, "accepted")
  /\ p # user[request[c].user].password
  /\ Becomes(c, [op |-> "change", user |-> request[c].user, token |-> request[c].token,
                 password |-> p])
  /\ UNCHANGED <<user, session, raw, expired>>

CommitChange(c) ==
  LET r == request[c] IN
  /\ Going(c, "change")
  /\ user' = [user EXCEPT ![r.user].password = r.password, ![r.user].weak = FALSE]
  /\ session' = Revoked(TokensOf(r.user) \ {r.token})
  /\ raw' = Without(RawOf(r.user))
  /\ Done(c)
  /\ UNCHANGED expired

-----------------------------------------------------------------------------
ActiveAdmins == {u \in Admins : user[u].active}

\* Mutant: inactive administrators count.
EnoughIfAnyAdmin(u, to) == u \in Admins /\ ~to => Cardinality(Admins) > 1

AdminsRemain(u, to) == u \in Admins /\ ~to => Cardinality(ActiveAdmins) > 1

\* set_user_status by an administrator, up to the count.
SetStatus(c, u, to) ==
  /\ Going(c, "accepted")
  /\ request[c].user \in Admins
  /\ u = request[c].user => to
  /\ AdminsRemain(u, to)
  /\ Becomes(c, [op |-> "status", user |-> u, to |-> to, counted |-> ActiveAdmins])
  /\ UNCHANGED <<user, session, raw, expired>>

CommitStatus(c) ==
  LET r == request[c] IN
  /\ Going(c, "status")
  /\ user' = [user EXCEPT ![r.user].active = r.to]
  /\ session' = IF r.to THEN session ELSE Revoked(TokensOf(r.user))
  /\ raw' = IF r.to THEN raw ELSE Without(RawOf(r.user))
  /\ Done(c)
  /\ UNCHANGED expired

\* A request that has passed the bearer check only reads, or is refused.
Finish(c) ==
  /\ Going(c, "accepted")
  /\ Done(c)
  /\ UNCHANGED <<user, session, raw, expired>>

Expire(t) ==
  /\ t \in Issued \ expired
  /\ expired' = expired \union {t}
  /\ UNCHANGED <<user, session, raw, request, spent>>

Next ==
  \/ \E t \in Tokens : Expire(t)
  \/ \E c \in Clients :
       \/ \E u \in Users, p \in Passwords : SignIn(c, u, p)
       \/ \E t \in Tokens :
            CommitSignIn(c, t) \/ Present(c, t) \/ PresentRaw(c, t) \/ RevokeOne(c, t)
       \/ Resolve(c) \/ Startup(c) \/ CommitStartup(c)
       \/ RevokeOthers(c) \/ RevokeAll(c) \/ Finish(c)
       \/ \E p \in Passwords : ChangePassword(c, p)
       \/ \E u \in Users, to \in BOOLEAN : SetStatus(c, u, to)
       \/ CommitChange(c) \/ CommitStatus(c)

-----------------------------------------------------------------------------
\* A token lives in one of the two tables, whichever of several starting
\* processes and requests moved it (_ensure_legacy_digest_row).
OneHome == DOMAIN raw \intersect DOMAIN session = {}

\* A request or a starting process has read the row of a raw token and will move it.
Moving(t) ==
  \E c \in Clients :
    \/ request[c].op = "resolve" /\ request[c].token = t
    \/ request[c].op = "startup" /\ t \in DOMAIN request[c].rows

\* A revoked digest row stays revoked, whatever sign-ins, moves of raw tokens and
\* activations run beside it (revoke_*, INSERT OR IGNORE).  A raw token is revoked
\* by the deletion of its row: it comes back, as a digest row that is good, only
\* by a move that had read the row before (_migrate_one_legacy_session,
\* ensure_auth_schema), and no such move begins any more.
RevokedForGood ==
  [][/\ \A t \in DOMAIN session :
          session[t].revoked => t \in DOMAIN session' /\ session'[t].revoked
     /\ \A t \in DOMAIN RawOwner \ Issued :
          (t \in Issued' \/ Moving(t)') => Moving(t)]_sessionVars

\* The last active administrator is lost only to a request whose count was no
\* longer true when it committed: two that overlap (set_user_status).
LastAdminNeedsOverlap ==
  [][ActiveAdmins # {} /\ ActiveAdmins' = {} =>
       \E c \in Clients : request[c].op = "status" /\ request[c].counted # ActiveAdmins]_sessionVars
=============================================================================
