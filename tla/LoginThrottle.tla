---------------------------- MODULE LoginThrottle ----------------------------
(***************************************************************************)
(* The counters that slow down sign-in (app/auth_store.py, the login route *)
(* of app/main.py).  A failed attempt counts for the account at its host   *)
(* and for the host.  The check and the attempt are two transactions, the  *)
(* check selects a row and then deletes it by its scope alone, so attempts *)
(* that overlap may forget a failure or find the row gone.                 *)
(***************************************************************************)
EXTENDS Integers, FiniteSets

CONSTANTS
  Users, Hosts,
  Clients,           \* concurrent sign-ins
  MaxFailures,       \* LOGIN_MAX_FAILURES
  ClientMaxFailures, \* CLIENT_LOGIN_MAX_FAILURES
  Window,            \* LOGIN_WINDOW_SECONDS, in ticks
  LockBase, LockMax, \* LOGIN_LOCK_*_SECONDS, in ticks
  MaxTime,           \* bound: ticks in a behaviour
  MaxAttempts        \* bound: sign-ins in a behaviour

VARIABLES
  counter,  \* auth_login_throttle: the scopes that have a row
  clock,
  attempt,  \* attempt[c]: where a sign-in is
  failed,   \* failed[s][t]: ghost: failures committed for a scope at time t
  attempts  \* sign-ins so far

throttleVars == <<counter, clock, attempt, failed, attempts>>

\* login_scope_digest and client_login_scope_digest.
Account(u, h) == <<"account", u, h>>
Host(h) == <<"client", h, h>>
ScopesOf(u, h) == {Account(u, h), Host(h)}
Scopes == UNION {ScopesOf(u, h) : u \in Users, h \in Hosts}

Threshold(s) == IF s[1] = "account" THEN MaxFailures ELSE ClientMaxFailures

Idle == [at |-> "idle"]

TypeOK ==
  /\ DOMAIN counter \subseteq Scopes
  /\ \A s \in DOMAIN counter : counter[s] \in [count : Nat, started : 0..MaxTime, until : Nat]
  /\ clock \in 0..MaxTime
  /\ \A c \in Clients : attempt[c].at \in {"idle", "check", "try", "fail"}
  /\ failed \in [Scopes -> [0..MaxTime -> Nat]]
  /\ attempts \in 0..MaxAttempts

Init ==
  /\ counter = <<>>
  /\ clock = 0
  /\ attempt = [c \in Clients |-> Idle]
  /\ failed = [s \in Scopes |-> [t \in 0..MaxTime |-> 0]]
  /\ attempts = 0

-----------------------------------------------------------------------------
Keep(scopes) == [s \in scopes |-> counter[s]]

\* throttle_status and the reset of record_login_failure agree on this.
Stale(s) == s \in DOMAIN counter /\ clock - counter[s].started >= Window

Blocked(s) == s \in DOMAIN counter /\ ~Stale(s) /\ counter[s].until > clock

\* The two status reads of a sign-in, up to the deletes.
Check(c, u, h) ==
  /\ attempt[c] = Idle
  /\ attempts < MaxAttempts
  /\ attempts' = attempts + 1
  /\ attempt' = [attempt EXCEPT ![c] =
       [at |-> "check", user |-> u, host |-> h,
        stale |-> {s \in ScopesOf(u, h) : Stale(s)},
        blocked |-> \E s \in ScopesOf(u, h) : Blocked(s)]]
  /\ UNCHANGED <<counter, clock, failed>>

\* The deletes; a blocked sign-in is refused with 429.
Checked(c) ==
  LET a == attempt[c] IN
  /\ a.at = "check"
  /\ counter' = Keep(DOMAIN counter \ a.stale)
  /\ attempt' = [attempt EXCEPT ![c] =
       IF a.blocked THEN Idle ELSE [at |-> "try", user |-> a.user, host |-> a.host]]
  /\ UNCHANGED <<clock, failed, attempts>>

\* A good password clears the account at this host, and no other scope.
Succeed(c) ==
  LET a == attempt[c] IN
  /\ a.at = "try"
  /\ counter' = Keep(DOMAIN counter \ {Account(a.user, a.host)})
  /\ attempt' = [attempt EXCEPT ![c] = Idle]
  /\ UNCHANGED <<clock, failed, attempts>>

\* A bad one: the rows are inserted where there is none.
Fail(c) ==
  LET a == attempt[c] IN
  /\ a.at = "try"
  /\ attempt' = [attempt EXCEPT ![c] =
       [at |-> "fail", user |-> a.user, host |-> a.host,
        found |-> ScopesOf(a.user, a.host) \intersect DOMAIN counter]]
  /\ UNCHANGED <<counter, clock, failed, attempts>>

Min2(a, b) == IF a < b THEN a ELSE b

LockTicks(over) == Min2(LockBase * 2^over, LockMax)

\* Mutant: the count of an old window goes on.
FreshNeverReset(s) == IF s \in DOMAIN counter THEN counter[s]
                      ELSE [count |-> 0, started |-> clock, until |-> 0]

\* INSERT OR IGNORE, and the reset of a window that is over.
Fresh(s) == IF s \in DOMAIN counter /\ ~Stale(s) THEN counter[s]
            ELSE [count |-> 0, started |-> clock, until |-> 0]

\* record_login_failure
Counted(s) ==
  LET r == Fresh(s) n == r.count + 1 IN
  [count |-> n, started |-> r.started,
   until |-> IF n >= Threshold(s) THEN clock + LockTicks(n - Threshold(s)) ELSE r.until]

CommitFailure(c) ==
  LET scopes == ScopesOf(attempt[c].user, attempt[c].host) IN
  /\ attempt[c].at = "fail"
  /\ attempt[c].found \subseteq DOMAIN counter
  /\ counter' = [s \in DOMAIN counter \union scopes |->
               IF s \in scopes THEN Counted(s) ELSE counter[s]]
  /\ failed' = [s \in Scopes |->
                  IF s \in scopes THEN [failed[s] EXCEPT ![clock] = @ + 1] ELSE failed[s]]
  /\ attempt' = [attempt EXCEPT ![c] = Idle]
  /\ UNCHANGED <<clock, attempts>>

\* A row the insert found was deleted by a check: the count is read from no
\* row, and the request fails and is rolled back.
LoseRow(c) ==
  /\ attempt[c].at = "fail"
  /\ ~(attempt[c].found \subseteq DOMAIN counter)
  /\ attempt' = [attempt EXCEPT ![c] = Idle]
  /\ UNCHANGED <<counter, clock, failed, attempts>>

Tick ==
  /\ clock < MaxTime
  /\ clock' = clock + 1
  /\ UNCHANGED <<counter, attempt, failed, attempts>>

Next ==
  \/ Tick
  \/ \E c \in Clients :
       \/ \E u \in Users, h \in Hosts : Check(c, u, h)
       \/ Checked(c) \/ Succeed(c) \/ Fail(c) \/ CommitFailure(c) \/ LoseRow(c)

-----------------------------------------------------------------------------
\* The failures of a scope in the window that ends at t, one by one.
Within(s, t) ==
  Cardinality(UNION {{x} \X (1..failed[s][x]) : x \in {y \in 0..t : y > t - Window}})

\* Nobody waits for failures of others, or of long ago: a scope is locked only
\* after as many failures of its own as its threshold within the window, never
\* longer than LockMax, whatever checks, resets and successes overlap
\* (throttle_status, record_login_failure, clear_login_failures).
LocksAreEarned ==
  \A s \in DOMAIN counter : counter[s].until > 0 =>
    \E t \in 0..clock :
      /\ Within(s, t) >= Threshold(s)
      /\ counter[s].until <= t + LockMax
=============================================================================
