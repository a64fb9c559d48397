---------------------------- MODULE RecordsProofs ----------------------------
(***************************************************************************)
(* What the short transactions of Records guarantee for any number of      *)
(* concurrent requests, rows and repetitions, component by component.      *)
(***************************************************************************)
EXTENDS Records, FiniteSetTheorems, SequenceTheorems, WellFoundedInduction, TLAPS

-----------------------------------------------------------------------------
\* A step of the composition is a step of each component, or none.

LEMMA ComponentSteps ==
  ASSUME [Next]_vars
  PROVE  /\ [Accounts!Next]_accountsVars
         /\ [Throttle!Next]_throttleVars
         /\ [Permits!Next]_roleVars
         /\ [Books!Next]_registerVars
         /\ [Outage!Next]_outageVars
         /\ [Levels!Next]_levelVars
         /\ [Checks!Next]_inspectionVars
         /\ [Moves!Next]_transferVars
         /\ [Buy!Next]_purchaseVars
BY DEF Next, vars, AccountsStep, ThrottleStep, RolesStep, BooksStep, OutageStep, LevelsStep,
       ChecksStep, MovesStep, BuyStep

-----------------------------------------------------------------------------
\* Amounts counted unit by unit.
UnitsOf(x, n) == {x} \X (1..n)
Units(S, f) == UNION {UnitsOf(x, f[x]) : x \in S}

LEMMA UnitsOfFinite ==
  ASSUME NEW x, NEW n \in Nat
  PROVE  IsFiniteSet(UnitsOf(x, n)) /\ Cardinality(UnitsOf(x, n)) = n
<1>1. IsFiniteSet({x}) /\ Cardinality({x}) = 1
  BY FS_Singleton
<1>2. IsFiniteSet(1..n) /\ Cardinality(1..n) = n
  BY FS_Interval
<1> DEFINE A == {x}
           B == 1..n
<1> HIDE DEF A, B
<1>3. IsFiniteSet(A) /\ Cardinality(A) = 1 /\ IsFiniteSet(B) /\ Cardinality(B) = n
  BY <1>1, <1>2 DEF A, B
<1>4. IsFiniteSet(A \X B) /\ Cardinality(A \X B) = Cardinality(A) * Cardinality(B)
  BY <1>3, FS_Product
<1>5. Cardinality(A) * Cardinality(B) = n
  BY <1>3
<1>6. QED
  BY <1>4, <1>5 DEF UnitsOf, A, B

LEMMA UnitsFinite ==
  ASSUME NEW S, IsFiniteSet(S), NEW f, \A x \in S : f[x] \in Nat
  PROVE  IsFiniteSet(Units(S, f)) /\ Cardinality(Units(S, f)) \in Nat
<1> DEFINE T == {UnitsOf(x, f[x]) : x \in S}
           g == [x \in S |-> UnitsOf(x, f[x])]
<1>1. g \in Surjection(S, T)
  BY DEF Surjection
<1>2. IsFiniteSet(T)
  <2> HIDE DEF T, g
  <2>1. QED
    BY <1>1, FS_Surjection
<1>3. \A U \in T : IsFiniteSet(U)
  BY UnitsOfFinite
<1>4. IsFiniteSet(UNION T)
  <2> HIDE DEF T
  <2>1. QED
    BY <1>2, <1>3, FS_UNION
<1>5. QED
  BY <1>4, FS_CardinalityType DEF Units

\* With one more member there are as many more units as it has.
LEMMA UnitsAdded ==
  ASSUME NEW S, IsFiniteSet(S), NEW f, NEW x, x \notin S,
         \A y \in S : f[y] \in Nat, f[x] \in Nat
  PROVE  Cardinality(Units(S \union {x}, f)) = Cardinality(Units(S, f)) + f[x]
<1>1. Units(S \union {x}, f) = Units(S, f) \union UnitsOf(x, f[x])
  BY DEF Units
<1>2. Units(S, f) \intersect UnitsOf(x, f[x]) = {}
  BY DEF Units, UnitsOf
<1>3. IsFiniteSet(Units(S, f)) /\ Cardinality(Units(S, f)) \in Nat
  BY UnitsFinite
<1>4. IsFiniteSet(UnitsOf(x, f[x])) /\ Cardinality(UnitsOf(x, f[x])) = f[x]
  BY UnitsOfFinite
<1>5. Cardinality({}) = 0
  BY FS_EmptySet
<1> DEFINE A == Units(S, f)
           B == UnitsOf(x, f[x])
<1> HIDE DEF A, B
<1>6. IsFiniteSet(A) /\ IsFiniteSet(B) /\ A \intersect B = {}
  BY <1>2, <1>3, <1>4 DEF A, B
<1>7. Cardinality(A \union B) = Cardinality(A) + Cardinality(B) - Cardinality(A \intersect B)
  BY <1>6, FS_Union
<1>8. Cardinality(A) \in Nat /\ Cardinality(B) = f[x] /\ f[x] \in Nat
  BY <1>3, <1>4 DEF A, B
<1>9. Cardinality(A \intersect B) = 0
  BY <1>5, <1>6, Zenon
<1>10. Cardinality(A \union B) = Cardinality(A) + f[x]
  BY <1>7, <1>8, <1>9
<1>11. QED
  BY <1>1, <1>10 DEF A, B

LEMMA UnitsAlike ==
  ASSUME NEW S, NEW f, NEW g, \A x \in S : f[x] = g[x]
  PROVE  Units(S, f) = Units(S, g)
BY DEF Units

\* More members, and more units of each, are more units in all.
LEMMA UnitsGrow ==
  ASSUME NEW S, NEW T, S \subseteq T, IsFiniteSet(T), NEW f, NEW g,
         \A x \in T : g[x] \in Nat, \A x \in S : f[x] \in Nat /\ f[x] <= g[x]
  PROVE  Cardinality(Units(S, f)) <= Cardinality(Units(T, g))
<1>1. \A x \in S : UnitsOf(x, f[x]) \subseteq UnitsOf(x, g[x])
  BY DEF UnitsOf
<1>2. Units(S, f) \subseteq Units(T, g)
  BY <1>1 DEF Units
<1>3. QED
  BY <1>2, UnitsFinite, FS_Subset

LEMMA UnitsSplit ==
  ASSUME NEW S, IsFiniteSet(S), NEW f, NEW x \in S, \A y \in S : f[y] \in Nat
  PROVE  /\ Cardinality(Units(S, f)) = Cardinality(Units(S \ {x}, f)) + f[x]
         /\ Cardinality(Units(S \ {x}, f)) \in Nat
<1> DEFINE R == S \ {x}
<1>1. IsFiniteSet(R) /\ x \notin R /\ S = R \union {x}
  BY FS_RemoveElement
<1>2. f[x] \in Nat /\ \A y \in R : f[y] \in Nat
  OBVIOUS
<1> HIDE DEF R
<1>3. Cardinality(Units(R \union {x}, f)) = Cardinality(Units(R, f)) + f[x]
  BY <1>1, <1>2, UnitsAdded
<1>4. Cardinality(Units(R, f)) \in Nat
  BY <1>1, <1>2, UnitsFinite
<1>5. QED
  BY <1>1, <1>3, <1>4 DEF R

\* As many more units as one member has more.
LEMMA UnitsRaised ==
  ASSUME NEW S, IsFiniteSet(S), NEW x \in S, NEW f, NEW g,
         \A y \in S : f[y] \in Nat, \A y \in S \ {x} : g[y] = f[y], g[x] \in Nat
  PROVE  /\ Cardinality(Units(S, g)) = Cardinality(Units(S, f)) + g[x] - f[x]
         /\ Cardinality(Units(S, g)) \in Nat /\ Cardinality(Units(S, f)) \in Nat
<1>1. Cardinality(Units(S, f)) = Cardinality(Units(S \ {x}, f)) + f[x]
      /\ Cardinality(Units(S \ {x}, f)) \in Nat
  BY UnitsSplit
<1>2. \A y \in S : g[y] \in Nat
  OBVIOUS
<1>3. Cardinality(Units(S, g)) = Cardinality(Units(S \ {x}, g)) + g[x]
  BY <1>2, UnitsSplit
<1>4. Units(S \ {x}, g) = Units(S \ {x}, f)
  BY UnitsAlike
<1>5. QED
  BY <1>1, <1>3, <1>4

LEMMA SubInterval ==
  ASSUME NEW m \in Nat, NEW a \in 0..m, NEW b \in 0..m
  PROVE  IsFiniteSet(a..b) /\ a..b \subseteq 0..m
<1>1. a \in Int /\ b \in Int
  OBVIOUS
<1>2. IsFiniteSet(a..b)
  BY <1>1, FS_Interval
<1>3. a..b \subseteq 0..m
  OBVIOUS
<1>4. QED
  BY <1>2, <1>3

LEMMA PowersOfTwo == \A n \in Nat : 2^n \in Nat
<1> TAKE n \in Nat
<1>1. IsFiniteSet(1..n) /\ Cardinality(1..n) = n
  BY FS_Interval
<1>2. IsFiniteSet(SUBSET (1..n)) /\ Cardinality(SUBSET (1..n)) = 2^n
  BY <1>1, FS_SUBSET
<1>3. QED
  BY <1>2, FS_CardinalityType

\* The cardinality of an instance is that of FiniteSets.
LEMMA AccountsCardinality == \A S : Accounts!Cardinality(S) = Cardinality(S)
BY Zenon DEF Accounts!Cardinality, Cardinality

-----------------------------------------------------------------------------
\* Accounts and their sessions

\* What a request has in hand, and what its count of administrators said.
AccountRequest(r) ==
  /\ r.op \in {"login", "status", "change"} => r.user \in Users
  /\ r.op \in {"login", "change"} => r.password \in Passwords
  /\ r.op \in {"resolve", "accepted", "change"} => r.token \in Tokens
  /\ r.op = "resolve" => r.owner \in Users
  /\ r.op = "accepted" => r.user \in Users
  /\ r.op = "startup" => /\ DOMAIN r.rows \subseteq DOMAIN RawOwner
                         /\ \A t \in DOMAIN r.rows : r.rows[t] \in Users
  /\ r.op = "status" => /\ r.to \in BOOLEAN
                        /\ r.user \in Admins /\ ~r.to => Cardinality(r.counted) > 1

AccountsInv ==
  /\ Accounts!TypeOK /\ Accounts!OneHome
  /\ \A t \in DOMAIN raw : raw[t] \in Users
  /\ DOMAIN request = Clients
  /\ \A c \in Clients : AccountRequest(request[c])

LEMMA AccountsInit == Accounts!Init => AccountsInv
BY AccountsAssumption DEF AccountsAssumption, Accounts!Init, AccountsInv, Accounts!TypeOK,
   Accounts!OneHome, AccountRequest, Accounts!Idle, Accounts!Operations

\* What every step of a request does to the requests.
LEMMA AccountRequests ==
  ASSUME AccountsInv, NEW c \in Clients, NEW r, Accounts!Becomes(c, r),
         r.op \in Accounts!Operations, AccountRequest(r)
  PROVE  /\ DOMAIN request' = Clients
         /\ \A d \in Clients : request'[d].op \in Accounts!Operations
         /\ \A d \in Clients : AccountRequest(request'[d])
BY DEF AccountsInv, Accounts!TypeOK, Accounts!Becomes

\* A step that leaves the accounts and tokens alone.
LEMMA AccountsAsked ==
  ASSUME AccountsInv, UNCHANGED <<user, session, raw, expired>>, spent' \in 0..MaxSignIns,
         NEW c \in Clients, NEW r, Accounts!Becomes(c, r),
         r.op \in Accounts!Operations, AccountRequest(r)
  PROVE  AccountsInv'
BY AccountRequests DEF AccountsInv, Accounts!TypeOK, Accounts!OneHome

\* A step that ends a request, which may move tokens, revoke and change accounts.
LEMMA AccountsWritten ==
  ASSUME AccountsInv, NEW c \in Clients, NEW r, Accounts!Becomes(c, r),
         r.op \in Accounts!Operations, AccountRequest(r),
         UNCHANGED <<expired, spent>>,
         user' \in [Users -> [active : BOOLEAN, password : Passwords, weak : BOOLEAN]],
         DOMAIN session' \subseteq Tokens,
         \A t \in DOMAIN session' : session'[t] \in [owner : Users, revoked : BOOLEAN],
         DOMAIN raw' \subseteq DOMAIN raw, \A t \in DOMAIN raw' : raw'[t] = raw[t],
         DOMAIN raw' \intersect DOMAIN session' = {}
  PROVE  AccountsInv'
BY AccountRequests DEF AccountsInv, Accounts!TypeOK, Accounts!OneHome

LEMMA IdleAccountRequest ==
  Accounts!Idle.op \in Accounts!Operations /\ AccountRequest(Accounts!Idle)
BY DEF Accounts!Idle, Accounts!Operations, AccountRequest

LEMMA AccountsKept == AccountsInv /\ [Accounts!Next]_accountsVars => AccountsInv'
<1> SUFFICES ASSUME AccountsInv, [Accounts!Next]_accountsVars
             PROVE  AccountsInv'
  OBVIOUS
<1> USE AccountsAssumption DEF AccountsAssumption
<1>1. /\ user \in [Users -> [active : BOOLEAN, password : Passwords, weak : BOOLEAN]]
      /\ DOMAIN session \subseteq Tokens /\ DOMAIN raw \subseteq DOMAIN RawOwner
      /\ \A t \in DOMAIN session : session[t] \in [owner : Users, revoked : BOOLEAN]
      /\ \A t \in DOMAIN raw : raw[t] \in Users
      /\ DOMAIN raw \intersect DOMAIN session = {}
      /\ spent \in 0..MaxSignIns
  BY DEF AccountsInv, Accounts!TypeOK, Accounts!OneHome
<1>2. \A T : /\ DOMAIN Accounts!Revoked(T) = DOMAIN session
             /\ \A t \in DOMAIN session :
                  Accounts!Revoked(T)[t] \in [owner : Users, revoked : BOOLEAN]
  BY <1>1 DEF Accounts!Revoked
<1>3. \A T : DOMAIN Accounts!Without(T) = DOMAIN raw \ T
             /\ \A t \in DOMAIN raw \ T : Accounts!Without(T)[t] = raw[t]
  BY DEF Accounts!Without
<1>4. ASSUME NEW o, DOMAIN o \subseteq Tokens, \A t \in DOMAIN o : o[t] \in Users
      PROVE  /\ DOMAIN Accounts!Materialized(o) = DOMAIN session \union DOMAIN o
             /\ \A t \in DOMAIN session \union DOMAIN o :
                  Accounts!Materialized(o)[t] \in [owner : Users, revoked : BOOLEAN]
  BY <1>1, <1>4 DEF Accounts!Materialized
<1>5. ASSUME NEW t \in Tokens, Accounts!Expire(t)
      PROVE  AccountsInv'
  BY <1>5 DEF Accounts!Expire, AccountsInv, Accounts!TypeOK, Accounts!OneHome
<1> USE IdleAccountRequest
<1>6. ASSUME NEW c \in Clients, NEW u \in Users, NEW p \in Passwords, Accounts!SignIn(c, u, p)
      PROVE  AccountsInv'
  <2> DEFINE r == [op |-> "login", user |-> u, password |-> p, upgrade |-> user[u].weak]
  <2>1. r.op \in Accounts!Operations /\ AccountRequest(r)
    BY DEF Accounts!Operations, AccountRequest
  <2>2. spent' \in 0..MaxSignIns /\ UNCHANGED <<user, session, raw, expired>>
        /\ Accounts!Becomes(c, r)
    BY <1>1, <1>6 DEF Accounts!SignIn, Accounts!Start
  <2>3. QED
    BY <2>1, <2>2, AccountsAsked
<1>7. ASSUME NEW c \in Clients, NEW t \in Tokens, Accounts!CommitSignIn(c, t)
      PROVE  AccountsInv'
  <2>1. /\ request[c].user \in Users /\ request[c].password \in Passwords
        /\ t \notin DOMAIN raw
    BY <1>7 DEF Accounts!CommitSignIn, Accounts!Going, Accounts!Issued, AccountsInv, AccountRequest
  <2>2. user' \in [Users -> [active : BOOLEAN, password : Passwords, weak : BOOLEAN]]
    BY <1>1, <1>7, <2>1 DEF Accounts!CommitSignIn
  <2>3. /\ DOMAIN session' = DOMAIN session \union {t}
        /\ \A s \in DOMAIN session' : session'[s] \in [owner : Users, revoked : BOOLEAN]
    BY <1>1, <1>7, <2>1 DEF Accounts!CommitSignIn
  <2>4. UNCHANGED <<raw, expired, spent>> /\ Accounts!Becomes(c, Accounts!Idle)
    BY <1>7 DEF Accounts!CommitSignIn, Accounts!Going, Accounts!Done
  <2>5. QED
    BY <1>1, <2>1, <2>2, <2>3, <2>4, AccountsWritten
<1>8. ASSUME NEW c \in Clients, NEW t \in Tokens, Accounts!Present(c, t)
      PROVE  AccountsInv'
  <2> DEFINE r == Accounts!Accepted(t, session[t].owner)
  <2>1. r.op \in Accounts!Operations /\ AccountRequest(r)
    BY <1>1, <1>8 DEF Accounts!Operations, AccountRequest, Accounts!Accepted, Accounts!Present
  <2>2. spent' \in 0..MaxSignIns /\ UNCHANGED <<user, session, raw, expired>>
        /\ Accounts!Becomes(c, r)
    BY <1>1, <1>8 DEF Accounts!Present, Accounts!Start
  <2>3. QED
    BY <2>1, <2>2, AccountsAsked
<1>9. ASSUME NEW c \in Clients, NEW t \in Tokens, Accounts!PresentRaw(c, t)
      PROVE  AccountsInv'
  <2> DEFINE r == [op |-> "resolve", token |-> t, owner |-> raw[t]]
  <2>1. r.op \in Accounts!Operations /\ AccountRequest(r)
    BY <1>1, <1>9 DEF Accounts!Operations, AccountRequest, Accounts!PresentRaw
  <2>2. spent' \in 0..MaxSignIns /\ UNCHANGED <<user, session, raw, expired>>
        /\ Accounts!Becomes(c, r)
    BY <1>1, <1>9 DEF Accounts!PresentRaw, Accounts!Start
  <2>3. QED
    BY <2>1, <2>2, AccountsAsked
<1>10. ASSUME NEW c \in Clients, Accounts!Resolve(c)
       PROVE  AccountsInv'
  <2> DEFINE t == request[c].token
             o == [s \in {t} |-> request[c].owner]
             m == Accounts!Materialized(o)
  <2>1. t \in Tokens /\ request[c].owner \in Users /\ UNCHANGED <<user, expired, spent>>
    BY <1>10 DEF Accounts!Resolve, Accounts!Going, AccountsInv, AccountRequest
  <2>2. DOMAIN m = DOMAIN session \union {t}
        /\ \A s \in DOMAIN m : m[s] \in [owner : Users, revoked : BOOLEAN]
    <3>1. DOMAIN o = {t} /\ \A s \in DOMAIN o : o[s] \in Users
      BY <2>1
    <3> HIDE DEF o
    <3>2. QED
      BY <1>4, <2>1, <3>1
  <2>3. CASE Accounts!Admitted(t, m[t])
    <3> DEFINE r == Accounts!Accepted(t, m[t].owner)
    <3>1. r.op \in Accounts!Operations /\ AccountRequest(r)
      BY <2>1, <2>2 DEF Accounts!Operations, AccountRequest, Accounts!Accepted
    <3>2. session' = m /\ raw' = Accounts!Without({t}) /\ Accounts!Becomes(c, r)
      BY <1>10, <2>3 DEF Accounts!Resolve
    <3>3. DOMAIN raw' = DOMAIN raw \ {t} /\ \A s \in DOMAIN raw' : raw'[s] = raw[s]
      BY <1>3, <3>2
    <3>4. DOMAIN session' = DOMAIN session \union {t}
          /\ \A s \in DOMAIN session' : session'[s] \in [owner : Users, revoked : BOOLEAN]
      BY <2>2, <3>2
    <3> HIDE DEF m, r, t
    <3>5. user' \in [Users -> [active : BOOLEAN, password : Passwords, weak : BOOLEAN]]
          /\ DOMAIN raw' \intersect DOMAIN session' = {}
      BY <1>1, <2>1, <3>3, <3>4
    <3>6. QED
      BY <1>1, <2>1, <3>1, <3>2, <3>3, <3>4, <3>5, AccountsWritten
  <2>4. CASE ~Accounts!Admitted(t, m[t])
    BY <1>1, <1>10, <2>1, <2>4, AccountsAsked DEF Accounts!Resolve, Accounts!Done
  <2>5. QED
    BY <2>3, <2>4
<1>11. ASSUME NEW c \in Clients, Accounts!Startup(c)
       PROVE  AccountsInv'
  <2> DEFINE r == [op |-> "startup", rows |-> raw]
  <2>1. r.op \in Accounts!Operations /\ AccountRequest(r)
    BY <1>1 DEF Accounts!Operations, AccountRequest
  <2>2. spent' \in 0..MaxSignIns /\ UNCHANGED <<user, session, raw, expired>>
        /\ Accounts!Becomes(c, r)
    BY <1>1, <1>11 DEF Accounts!Startup, Accounts!Start
  <2>3. QED
    BY <2>1, <2>2, AccountsAsked
<1>12. ASSUME NEW c \in Clients, Accounts!CommitStartup(c)
       PROVE  AccountsInv'
  <2> DEFINE o == request[c].rows
  <2>1. DOMAIN o \subseteq Tokens /\ \A t \in DOMAIN o : o[t] \in Users
    BY <1>12 DEF Accounts!CommitStartup, Accounts!Going, AccountsInv, AccountRequest
  <2>2. /\ session' = Accounts!Materialized(o) /\ raw' = Accounts!Without(DOMAIN o)
        /\ Accounts!Becomes(c, Accounts!Idle) /\ UNCHANGED <<user, expired, spent>>
    BY <1>12 DEF Accounts!CommitStartup, Accounts!Going, Accounts!Done
  <2>3. /\ DOMAIN session' = DOMAIN session \union DOMAIN o
        /\ \A t \in DOMAIN session' : session'[t] \in [owner : Users, revoked : BOOLEAN]
    BY <1>4, <2>1, <2>2
  <2>4. DOMAIN raw' = DOMAIN raw \ DOMAIN o /\ \A s \in DOMAIN raw' : raw'[s] = raw[s]
    BY <1>3, <2>2
  <2> HIDE DEF o
  <2>5. user' \in [Users -> [active : BOOLEAN, password : Passwords, weak : BOOLEAN]]
        /\ DOMAIN raw' \intersect DOMAIN session' = {} /\ DOMAIN session' \subseteq Tokens
    BY <1>1, <2>1, <2>2, <2>3, <2>4
  <2>6. QED
    BY <1>1, <2>2, <2>3, <2>4, <2>5, AccountsWritten
<1>13. ASSUME NEW c \in Clients, UNCHANGED <<expired, spent>>, Accounts!Done(c),
              NEW T, session' = Accounts!Revoked(T),
              raw' = raw \/ \E S : raw' = Accounts!Without(S),
              user' \in [Users -> [active : BOOLEAN, password : Passwords, weak : BOOLEAN]]
       PROVE  AccountsInv'
  <2>1. DOMAIN session' = DOMAIN session
        /\ \A t \in DOMAIN session' : session'[t] \in [owner : Users, revoked : BOOLEAN]
    BY <1>2, <1>13
  <2>2. DOMAIN raw' \subseteq DOMAIN raw /\ \A t \in DOMAIN raw' : raw'[t] = raw[t]
    <3>1. CASE raw' = raw
      BY <3>1
    <3>2. ASSUME NEW S, raw' = Accounts!Without(S)
          PROVE  DOMAIN raw' \subseteq DOMAIN raw /\ \A t \in DOMAIN raw' : raw'[t] = raw[t]
      BY <1>3, <3>2
    <3>3. QED
      BY <1>13, <3>1, <3>2
  <2>3. DOMAIN raw' \intersect DOMAIN session' = {} /\ DOMAIN session' \subseteq Tokens
    BY <1>1, <2>1, <2>2
  <2>4. Accounts!Becomes(c, Accounts!Idle)
    BY <1>13 DEF Accounts!Done
  <2>5. QED
    BY <1>13, <2>1, <2>2, <2>3, <2>4, AccountsWritten
<1>14. ASSUME NEW c \in Clients,
              (\E t \in Tokens : Accounts!RevokeOne(c, t)) \/ Accounts!RevokeOthers(c)
                \/ Accounts!RevokeAll(c)
       PROVE  AccountsInv'
  BY <1>1, <1>13, <1>14
     DEF Accounts!RevokeOne, Accounts!RevokeOthers, Accounts!RevokeAll, Accounts!Going
<1>15. ASSUME NEW c \in Clients, NEW p \in Passwords, Accounts!ChangePassword(c, p)
       PROVE  AccountsInv'
  <2> DEFINE r == [op |-> "change", user |-> request[c].user, token |-> request[c].token,
                   password |-> p]
  <2>1. r.op \in Accounts!Operations /\ AccountRequest(r)
    BY <1>15 DEF Accounts!Operations, AccountRequest, Accounts!ChangePassword, Accounts!Going,
                 AccountsInv
  <2>2. UNCHANGED spent /\ UNCHANGED <<user, session, raw, expired>> /\ Accounts!Becomes(c, r)
    BY <1>15 DEF Accounts!ChangePassword, Accounts!Going
  <2>3. QED
    BY <1>1, <2>1, <2>2, AccountsAsked
<1>16. ASSUME NEW c \in Clients, Accounts!CommitChange(c)
       PROVE  AccountsInv'
  <2>1. request[c].user \in Users /\ request[c].password \in Passwords
    BY <1>16 DEF Accounts!CommitChange, Accounts!Going, AccountsInv, AccountRequest
  <2>2. user' \in [Users -> [active : BOOLEAN, password : Passwords, weak : BOOLEAN]]
    BY <1>1, <1>16, <2>1 DEF Accounts!CommitChange
  <2>3. QED
    BY <1>13, <1>16, <2>2 DEF Accounts!CommitChange, Accounts!Going
<1>17. ASSUME NEW c \in Clients, NEW u \in Users, NEW to \in BOOLEAN, Accounts!SetStatus(c, u, to)
       PROVE  AccountsInv'
  <2> DEFINE r == [op |-> "status", user |-> u, to |-> to, counted |-> Accounts!ActiveAdmins]
  <2>1. ASSUME u \in Admins, ~to
        PROVE  Cardinality(Accounts!ActiveAdmins) > 1
    BY <1>17, <2>1, AccountsCardinality DEF Accounts!SetStatus, Accounts!AdminsRemain
  <2>4. r.op \in Accounts!Operations /\ AccountRequest(r)
    BY <2>1 DEF Accounts!Operations, AccountRequest
  <2>2. UNCHANGED spent /\ UNCHANGED <<user, session, raw, expired>> /\ Accounts!Becomes(c, r)
    BY <1>17 DEF Accounts!SetStatus, Accounts!Going
  <2>3. QED
    BY <1>1, <2>2, <2>4, AccountsAsked
<1>18. ASSUME NEW c \in Clients, Accounts!CommitStatus(c)
       PROVE  AccountsInv'
  <2>1. request[c].user \in Users /\ request[c].to \in BOOLEAN
    BY <1>18 DEF Accounts!CommitStatus, Accounts!Going, AccountsInv, AccountRequest
  <2>2. user' \in [Users -> [active : BOOLEAN, password : Passwords, weak : BOOLEAN]]
    BY <1>1, <1>18, <2>1 DEF Accounts!CommitStatus
  <2>3. UNCHANGED <<expired, spent>> /\ Accounts!Becomes(c, Accounts!Idle)
    BY <1>18 DEF Accounts!CommitStatus, Accounts!Going, Accounts!Done
  <2>4. CASE request[c].to
    BY <1>1, <1>18, <2>2, <2>3, <2>4, AccountsWritten DEF Accounts!CommitStatus
  <2>5. CASE ~request[c].to
    BY <1>13, <1>18, <2>2, <2>3, <2>5 DEF Accounts!CommitStatus, Accounts!Done
  <2>6. QED
    BY <2>4, <2>5
<1>19. ASSUME NEW c \in Clients, Accounts!Finish(c)
       PROVE  AccountsInv'
  BY <1>1, <1>19, AccountsAsked DEF Accounts!Finish, Accounts!Going, Accounts!Done
<1>20. CASE UNCHANGED accountsVars
  BY <1>20 DEF accountsVars, AccountsInv, Accounts!TypeOK, Accounts!OneHome
<1>21. QED
  BY <1>5, <1>6, <1>7, <1>8, <1>9, <1>10, <1>11, <1>12, <1>14, <1>15, <1>16, <1>17, <1>18,
     <1>19, <1>20 DEF Accounts!Next

LEMMA AccountsInvariant == Spec => []AccountsInv
<1>1. Init => AccountsInv
  BY AccountsInit DEF Init
<1>2. AccountsInv /\ [Next]_vars => AccountsInv'
  BY AccountsKept, ComponentSteps
<1>3. QED
  BY <1>1, <1>2, PTL DEF Spec

\* What a step does to the tables of tokens.
LEMMA TokenSteps ==
  ASSUME AccountsInv, Accounts!Next
  PROVE  /\ \/ session' = session
            \/ \E T : session' = Accounts!Revoked(T)
            \/ \E c \in Clients :
                 \/ Accounts!Resolve(c)
                    /\ session' = Accounts!Materialized([s \in {request[c].token} |-> request[c].owner])
                 \/ Accounts!CommitStartup(c)
                    /\ session' = Accounts!Materialized(request[c].rows)
                 \/ \E s \in Tokens : Accounts!CommitSignIn(c, s)
         /\ raw' = raw \/ \E T : raw' = Accounts!Without(T)
<1>1. ASSUME NEW c \in Clients, Accounts!Resolve(c)
      PROVE  /\ \/ session' = session
                \/ session' = Accounts!Materialized([s \in {request[c].token} |-> request[c].owner])
             /\ raw' = raw \/ \E T : raw' = Accounts!Without(T)
  BY <1>1 DEF Accounts!Resolve
<1>2. ASSUME NEW c \in Clients, Accounts!CommitStartup(c)
      PROVE  /\ session' = Accounts!Materialized(request[c].rows)
             /\ \E T : raw' = Accounts!Without(T)
  BY <1>2 DEF Accounts!CommitStartup
<1>3. ASSUME NEW c \in Clients,
             \/ \E s \in Tokens : Accounts!RevokeOne(c, s)
             \/ Accounts!RevokeOthers(c) \/ Accounts!RevokeAll(c)
             \/ Accounts!CommitChange(c) \/ Accounts!CommitStatus(c)
      PROVE  /\ session' = session \/ \E T : session' = Accounts!Revoked(T)
             /\ raw' = raw \/ \E T : raw' = Accounts!Without(T)
  BY <1>3 DEF Accounts!RevokeOne, Accounts!RevokeOthers, Accounts!RevokeAll,
              Accounts!CommitChange, Accounts!CommitStatus
<1>4. ASSUME NEW c \in Clients,
             \/ \E u \in Users, p \in Passwords : Accounts!SignIn(c, u, p)
             \/ \E s \in Tokens : Accounts!Present(c, s) \/ Accounts!PresentRaw(c, s)
             \/ Accounts!Startup(c) \/ Accounts!Finish(c)
             \/ \E p \in Passwords : Accounts!ChangePassword(c, p)
             \/ \E u \in Users, to \in BOOLEAN : Accounts!SetStatus(c, u, to)
      PROVE  session' = session /\ raw' = raw
  BY <1>4 DEF Accounts!SignIn, Accounts!Present, Accounts!PresentRaw, Accounts!Startup,
              Accounts!Finish, Accounts!ChangePassword, Accounts!SetStatus
<1>5. ASSUME NEW s \in Tokens, Accounts!Expire(s)
      PROVE  session' = session /\ raw' = raw
  BY <1>5 DEF Accounts!Expire
<1>6. ASSUME NEW c \in Clients, NEW s \in Tokens, Accounts!CommitSignIn(c, s)
      PROVE  raw' = raw
  BY <1>6 DEF Accounts!CommitSignIn
<1>7. QED
  BY <1>1, <1>2, <1>3, <1>4, <1>5, <1>6 DEF Accounts!Next

\* A request that takes up something else than the move of a token.
LEMMA NotMoving ==
  ASSUME NEW c \in Clients, NEW r, Accounts!Becomes(c, r), DOMAIN request = Clients,
         NEW t, ~Accounts!Moving(t),
         r.op = "resolve" => r.token # t,
         r.op = "startup" => t \notin DOMAIN r.rows
  PROVE  ~Accounts!Moving(t)'
<1>1. \A d \in Clients : request'[d] = IF d = c THEN r ELSE request[d]
  BY DEF Accounts!Becomes
<1>2. QED
  BY <1>1 DEF Accounts!Moving

\* No move of a raw token begins that has no row any more.
LEMMA NoMoveBegins ==
  ASSUME AccountsInv, Accounts!Next, NEW t, t \notin DOMAIN raw, ~Accounts!Moving(t)
  PROVE  ~Accounts!Moving(t)'
<1>1. DOMAIN request = Clients
  BY DEF AccountsInv
<1>2. ASSUME NEW c \in Clients, NEW r, Accounts!Becomes(c, r), r.op \notin {"resolve", "startup"}
      PROVE  ~Accounts!Moving(t)'
  BY <1>1, <1>2, NotMoving
<1>3. ASSUME NEW c \in Clients, NEW s \in Tokens, Accounts!PresentRaw(c, s)
      PROVE  ~Accounts!Moving(t)'
  <2> DEFINE r == [op |-> "resolve", token |-> s, owner |-> raw[s]]
  <2>1. Accounts!Becomes(c, r) /\ s # t
    BY <1>3 DEF Accounts!PresentRaw, Accounts!Start
  <2>2. r.op = "resolve" /\ r.token = s
    OBVIOUS
  <2> HIDE DEF r
  <2>3. QED
    BY <1>1, <2>1, <2>2, NotMoving
<1>4. ASSUME NEW c \in Clients, Accounts!Startup(c)
      PROVE  ~Accounts!Moving(t)'
  <2> DEFINE r == [op |-> "startup", rows |-> raw]
  <2>1. Accounts!Becomes(c, r)
    BY <1>4 DEF Accounts!Startup, Accounts!Start
  <2>2. r.op = "startup" /\ r.rows = raw
    OBVIOUS
  <2> HIDE DEF r
  <2>3. QED
    BY <1>1, <2>1, <2>2, NotMoving
<1>5. ASSUME NEW c \in Clients, Accounts!Done(c)
      PROVE  ~Accounts!Moving(t)'
  BY <1>2, <1>5 DEF Accounts!Done, Accounts!Idle
<1>6. ASSUME NEW c \in Clients,
             \/ \E u \in Users, p \in Passwords : Accounts!SignIn(c, u, p)
             \/ \E s \in Tokens : Accounts!Present(c, s)
             \/ \E p \in Passwords : Accounts!ChangePassword(c, p)
             \/ \E u \in Users, to \in BOOLEAN : Accounts!SetStatus(c, u, to)
      PROVE  ~Accounts!Moving(t)'
  BY <1>2, <1>6 DEF Accounts!SignIn, Accounts!Present, Accounts!ChangePassword,
                    Accounts!SetStatus, Accounts!Start, Accounts!Accepted
<1>7. ASSUME NEW c \in Clients, Accounts!Resolve(c)
      PROVE  ~Accounts!Moving(t)'
  BY <1>2, <1>5, <1>7 DEF Accounts!Resolve, Accounts!Accepted
<1>8. ASSUME NEW c \in Clients,
             \/ \E s \in Tokens : Accounts!CommitSignIn(c, s) \/ Accounts!RevokeOne(c, s)
             \/ Accounts!CommitStartup(c) \/ Accounts!RevokeOthers(c)
             \/ Accounts!RevokeAll(c) \/ Accounts!Finish(c)
             \/ Accounts!CommitChange(c) \/ Accounts!CommitStatus(c)
      PROVE  Accounts!Done(c)
  BY <1>8 DEF Accounts!CommitSignIn, Accounts!RevokeOne, Accounts!CommitStartup,
              Accounts!RevokeOthers, Accounts!RevokeAll, Accounts!Finish,
              Accounts!CommitChange, Accounts!CommitStatus
<1>9. ASSUME NEW s \in Tokens, Accounts!Expire(s)
      PROVE  ~Accounts!Moving(t)'
  BY <1>9 DEF Accounts!Expire, Accounts!Moving
<1>10. QED
  BY <1>3, <1>4, <1>5, <1>6, <1>7, <1>8, <1>9 DEF Accounts!Next

(* A revoked digest row is never good again: sign-ins draw tokens of their   *)
(* own, and a raw token that moves does not replace a row (INSERT OR         *)
(* IGNORE).  A raw token whose row was deleted comes back only by a move     *)
(* that had read the row before, and no such move begins any more.           *)
THEOREM RevokedForGoodHolds == Spec => RevokedForGood
<1> DEFINE Kept ==
             /\ \A t \in DOMAIN session :
                  session[t].revoked => t \in DOMAIN session' /\ session'[t].revoked
             /\ \A t \in DOMAIN RawOwner \ Accounts!Issued :
                  (t \in Accounts!Issued' \/ Accounts!Moving(t)') => Accounts!Moving(t)
<1>1. ASSUME AccountsInv, Accounts!Next, NEW t \in DOMAIN session, session[t].revoked
      PROVE  t \in DOMAIN session' /\ session'[t].revoked
  <2>1. CASE session' = session
    BY <1>1, <2>1
  <2>2. ASSUME NEW T, session' = Accounts!Revoked(T)
        PROVE  t \in DOMAIN session' /\ session'[t].revoked
    <3>1. session[t] \in [owner : Users, revoked : BOOLEAN]
      BY <1>1 DEF AccountsInv, Accounts!TypeOK
    <3>2. QED
      BY <1>1, <2>2, <3>1 DEF Accounts!Revoked
  <2>3. ASSUME NEW o, session' = Accounts!Materialized(o)
        PROVE  t \in DOMAIN session' /\ session'[t].revoked
    BY <1>1, <2>3 DEF Accounts!Materialized
  <2>4. ASSUME NEW c \in Clients, NEW s, Accounts!CommitSignIn(c, s)
        PROVE  t \in DOMAIN session' /\ session'[t].revoked
    BY <1>1, <2>4 DEF Accounts!CommitSignIn, Accounts!Issued
  <2>5. QED
    BY <1>1, <2>1, <2>2, <2>3, <2>4, TokenSteps
<1>2. ASSUME AccountsInv, Accounts!Next, NEW t \in DOMAIN RawOwner \ Accounts!Issued,
             ~Accounts!Moving(t)
      PROVE  t \notin Accounts!Issued' /\ ~Accounts!Moving(t)'
  <2>1. t \notin DOMAIN session /\ t \notin DOMAIN raw
    BY <1>2 DEF Accounts!Issued
  <2>2. t \notin DOMAIN raw'
    BY <1>1, <1>2, <2>1, TokenSteps DEF Accounts!Without
  <2>3. ASSUME NEW o, session' = Accounts!Materialized(o), t \notin DOMAIN o
        PROVE  t \notin DOMAIN session'
    BY <2>1, <2>3 DEF Accounts!Materialized
  <2>4. ASSUME NEW c \in Clients, Accounts!Resolve(c)
        PROVE  t \notin DOMAIN [s \in {request[c].token} |-> request[c].owner]
    BY <1>2, <2>4 DEF Accounts!Resolve, Accounts!Going, Accounts!Moving
  <2>5. ASSUME NEW c \in Clients, Accounts!CommitStartup(c)
        PROVE  t \notin DOMAIN request[c].rows
    BY <1>2, <2>5 DEF Accounts!CommitStartup, Accounts!Going, Accounts!Moving
  <2>6. ASSUME NEW T, session' = Accounts!Revoked(T)
        PROVE  t \notin DOMAIN session'
    BY <2>1, <2>6 DEF Accounts!Revoked
  <2>7. ASSUME NEW c \in Clients, NEW s \in Tokens, Accounts!CommitSignIn(c, s)
        PROVE  t \notin DOMAIN session'
    BY <1>2, <2>1, <2>7 DEF Accounts!CommitSignIn
  <2>8. t \notin DOMAIN session'
    BY <1>2, <2>1, <2>3, <2>4, <2>5, <2>6, <2>7, TokenSteps
  <2>9. ~Accounts!Moving(t)'
    BY <1>2, <2>1, NoMoveBegins
  <2>10. QED
    BY <2>2, <2>8, <2>9 DEF Accounts!Issued
<1>3. AccountsInv /\ [Next]_vars => [Kept]_accountsVars
  BY <1>1, <1>2, ComponentSteps
<1>4. Spec => [][Kept]_accountsVars
  BY <1>3, AccountsInvariant, PTL DEF Spec
<1>5. QED
  BY <1>4 DEF RevokedForGood, Accounts!RevokedForGood, Accounts!sessionVars, accountsVars

\* More than one member: another than u.
LEMMA AnotherMember ==
  ASSUME NEW S, Cardinality(S) > 1, NEW u
  PROVE  \E x \in S : x # u
<1>1. SUFFICES ASSUME S \subseteq {u}
               PROVE  FALSE
  OBVIOUS
<1>2. Cardinality({u}) = 1 /\ IsFiniteSet({u})
  BY FS_Singleton
<1>3. Cardinality(S) \in Nat /\ Cardinality(S) <= 1
  BY <1>1, <1>2, FS_Subset, FS_CardinalityType
<1>4. QED
  BY <1>3

(* The last active administrator is lost only to a request that counted      *)
(* others and was overtaken (set_user_status).                               *)
THEOREM LastAdminNeedsOverlapHolds == Spec => LastAdminNeedsOverlap
<1> DEFINE Overlap ==
             Accounts!ActiveAdmins # {} /\ Accounts!ActiveAdmins' = {} =>
               \E c \in Clients : request[c].op = "status"
                                  /\ request[c].counted # Accounts!ActiveAdmins
<1> USE AccountsAssumption DEF AccountsAssumption
<1>1. ASSUME AccountsInv, Accounts!Next, Accounts!ActiveAdmins # {}, Accounts!ActiveAdmins' = {}
      PROVE  \E c \in Clients : request[c].op = "status"
                                /\ request[c].counted # Accounts!ActiveAdmins
  <2>1. user \in [Users -> [active : BOOLEAN, password : Passwords, weak : BOOLEAN]]
    BY <1>1 DEF AccountsInv, Accounts!TypeOK
  <2>2. PICK a \in Admins : user[a].active
    BY <1>1 DEF Accounts!ActiveAdmins
  <2>3. ~user'[a].active
    BY <1>1, <2>2 DEF Accounts!ActiveAdmins
  <2>4. PICK c \in Clients : Accounts!CommitStatus(c)
    <3>1. ASSUME NEW c \in Clients, (\E t \in Tokens : Accounts!CommitSignIn(c, t))
                                      \/ Accounts!CommitChange(c)
          PROVE  user'[a].active
      <4>1. CASE user' = user
        BY <2>2, <4>1
      <4>2. ASSUME NEW u, NEW p,
                   user' = [user EXCEPT ![u].password = p, ![u].weak = FALSE]
            PROVE  user'[a].active
        BY <2>1, <2>2, <4>2
      <4>3. user' = user \/ \E u, p : user' = [user EXCEPT ![u].password = p, ![u].weak = FALSE]
        BY <3>1 DEF Accounts!CommitSignIn, Accounts!CommitChange
      <4>4. QED
        BY <4>1, <4>2, <4>3
    <3>2. user' # user
      BY <2>2, <2>3
    <3>3. QED
      BY <1>1, <2>3, <3>1, <3>2
         DEF Accounts!Next, Accounts!SignIn, Accounts!Present, Accounts!PresentRaw,
             Accounts!Resolve, Accounts!Startup, Accounts!CommitStartup, Accounts!RevokeOne,
             Accounts!RevokeOthers, Accounts!RevokeAll, Accounts!Finish, Accounts!Expire,
             Accounts!ChangePassword, Accounts!SetStatus
  <2>5. /\ request[c].op = "status"
        /\ user' = [user EXCEPT ![request[c].user].active = request[c].to]
    BY <2>4 DEF Accounts!CommitStatus, Accounts!Going
  <2>6. request[c].user = a /\ ~request[c].to
    BY <2>1, <2>2, <2>3, <2>5
  <2>7. Cardinality(request[c].counted) > 1
    BY <1>1, <2>5, <2>6 DEF AccountsInv, AccountRequest
  <2>8. ASSUME request[c].counted = Accounts!ActiveAdmins
        PROVE  FALSE
    <3>1. PICK b \in Accounts!ActiveAdmins : b # a
      BY <2>7, <2>8, AnotherMember
    <3>2. b \in Admins /\ user'[b].active
      BY <2>1, <2>5, <2>6, <3>1 DEF Accounts!ActiveAdmins
    <3>3. QED
      BY <1>1, <3>2 DEF Accounts!ActiveAdmins
  <2>9. QED
    BY <2>5, <2>8
<1>2. AccountsInv /\ [Next]_vars => [Overlap]_accountsVars
  BY <1>1, ComponentSteps
<1>3. Spec => [][Overlap]_accountsVars
  BY <1>2, AccountsInvariant, PTL DEF Spec
<1>4. QED
  BY <1>3 DEF LastAdminNeedsOverlap, Accounts!LastAdminNeedsOverlap, Accounts!sessionVars,
              accountsVars

-----------------------------------------------------------------------------
\* Outages and the status of their assets

\* What a request read of the asset and counted of the other outages decides
\* what it writes, and a closing has an outage that was opened.
OutageAct(x) ==
  /\ x.do \in {"open", "opening", "close", "closing"} => x.asset \in Assets
  /\ x.do \in {"open", "opening"} => x.read \in Outage!Statuses
  /\ x.do \in {"close", "closing"} =>
       x.outage \in OutageIds /\ outage[x.outage] # Outage!NoOutage
  /\ x.do = "opening" => x.outage \in OutageIds /\ x.to = Outage!DownFrom(x.read)
  /\ x.do = "closing" => x.to = Outage!UpIfNone(x.counted)

OutageInv ==
  /\ Outage!TypeOK
  /\ DOMAIN outage = OutageIds /\ DOMAIN act = Clients
  /\ \A c \in Clients : OutageAct(act[c])

LEMMA OutageInit == Outage!Init => OutageInv
<1> SUFFICES ASSUME Outage!Init
             PROVE  OutageInv
  OBVIOUS
<1>1. status \in [Assets -> Outage!Statuses] /\ patches \in 0..MaxPatches
  BY BoundsAssumption DEF BoundsAssumption, Outage!Init, Outage!Statuses
<1>2. /\ DOMAIN outage = OutageIds /\ DOMAIN act = Clients
      /\ \A o \in OutageIds : outage[o] = Outage!NoOutage
      /\ \A c \in Clients : act[c].do = "idle"
  BY DEF Outage!Init, Outage!Idle
<1>3. QED
  BY <1>1, <1>2 DEF OutageInv, Outage!TypeOK, OutageAct

\* Steps that write nothing into the tables.
LEMMA OutageAsked ==
  ASSUME OutageInv, UNCHANGED <<status, outage, patches>>, NEW c \in Clients, NEW x,
         Outage!Becomes(c, x), x.do \in {"idle", "open", "opening", "close", "closing"},
         OutageAct(x)
  PROVE  OutageInv'
<1>1. \A d \in Clients : act'[d] = x \/ act'[d] = act[d]
  BY DEF OutageInv, Outage!Becomes
<1>2. DOMAIN act' = Clients
  BY DEF OutageInv, Outage!Becomes
<1>3. QED
  BY <1>1, <1>2 DEF OutageInv, Outage!TypeOK, OutageAct

\* Steps that write a status, and an outage that then is there.
LEMMA OutageWritten ==
  ASSUME OutageInv, UNCHANGED patches, NEW c \in Clients, Outage!Becomes(c, Outage!Idle),
         status' \in [Assets -> Outage!Statuses],
         NEW o \in OutageIds, DOMAIN outage' = OutageIds,
         \A q \in OutageIds \ {o} : outage'[q] = outage[q],
         outage'[o] \in [asset : Assets, state : {"Open", "Closed"}]
  PROVE  OutageInv'
<1>1. \A d \in Clients : act'[d] = Outage!Idle \/ act'[d] = act[d]
  BY DEF OutageInv, Outage!Becomes
<1>2. DOMAIN act' = Clients
  BY DEF OutageInv, Outage!Becomes
<1>3. outage'[o] # Outage!NoOutage
  BY DEF Outage!NoOutage
<1>4. \A q \in OutageIds : outage[q] # Outage!NoOutage => outage'[q] # Outage!NoOutage
  BY <1>3
<1>5. \A d \in Clients : OutageAct(act[d])'
  BY <1>1, <1>4 DEF OutageInv, OutageAct, Outage!Idle
<1>6. \A d \in Clients : act'[d].do \in {"idle", "open", "opening", "close", "closing"}
  BY <1>1 DEF OutageInv, Outage!TypeOK, Outage!Idle
<1>7. QED
  BY <1>2, <1>5, <1>6 DEF OutageInv, Outage!TypeOK

LEMMA OutageKept == OutageInv /\ [Outage!Next]_outageVars => OutageInv'
<1> SUFFICES ASSUME OutageInv, [Outage!Next]_outageVars
             PROVE  OutageInv'
  OBVIOUS
<1>1. /\ status \in [Assets -> Outage!Statuses]
      /\ \A o \in OutageIds : outage[o] = Outage!NoOutage
                              \/ outage[o] \in [asset : Assets, state : {"Open", "Closed"}]
      /\ DOMAIN outage = OutageIds /\ DOMAIN act = Clients
      /\ patches \in 0..MaxPatches
  BY DEF OutageInv, Outage!TypeOK
<1>2. \A c \in Clients : OutageAct(act[c])
  BY DEF OutageInv
<1>3. Outage!Idle.do = "idle" /\ OutageAct(Outage!Idle)
  BY DEF Outage!Idle, OutageAct
<1>4. ASSUME NEW c \in Clients, NEW a \in Assets, Outage!Open(c, a)
      PROVE  OutageInv'
  BY <1>1, <1>4, OutageAsked DEF Outage!Open, OutageAct
<1>5. ASSUME NEW c \in Clients, NEW o \in OutageIds, Outage!WriteOpen(c, o)
      PROVE  OutageInv'
  BY <1>1, <1>2, <1>5, OutageAsked DEF Outage!WriteOpen, OutageAct
<1>6. ASSUME NEW c \in Clients, NEW o \in OutageIds, Outage!Close(c, o)
      PROVE  OutageInv'
  BY <1>1, <1>6, OutageAsked DEF Outage!Close, OutageAct, Outage!NoOutage
<1>7. ASSUME NEW c \in Clients, Outage!WriteClose(c)
      PROVE  OutageInv'
  BY <1>1, <1>2, <1>7, OutageAsked DEF Outage!WriteClose, OutageAct
<1>8. ASSUME NEW x, x.asset \in Assets, x.to \in Outage!Statuses \union {"same"}
      PROVE  Outage!Applied(x) \in [Assets -> Outage!Statuses]
  BY <1>1, <1>8 DEF Outage!Applied
<1>9. ASSUME NEW c \in Clients, Outage!CommitOpen(c)
      PROVE  OutageInv'
  <2> DEFINE x == act[c]
  <2>1. /\ x.asset \in Assets /\ x.outage \in OutageIds
        /\ x.to \in Outage!Statuses \union {"same"}
    BY <1>2, <1>9 DEF Outage!CommitOpen, OutageAct, Outage!DownFrom, Outage!Statuses
  <2>2. status' \in [Assets -> Outage!Statuses]
    BY <1>8, <1>9, <2>1 DEF Outage!CommitOpen
  <2>3. QED
    BY <1>1, <1>9, <2>1, <2>2, OutageWritten DEF Outage!CommitOpen
<1>10. ASSUME NEW c \in Clients, Outage!CommitClose(c)
       PROVE  OutageInv'
  <2> DEFINE x == act[c]
  <2>1. /\ x.asset \in Assets /\ x.outage \in OutageIds
        /\ x.to \in Outage!Statuses \union {"same"}
        /\ outage[x.outage] \in [asset : Assets, state : {"Open", "Closed"}]
    BY <1>1, <1>2, <1>10 DEF Outage!CommitClose, OutageAct, Outage!UpIfNone, Outage!Statuses
  <2>2. status' \in [Assets -> Outage!Statuses]
    BY <1>8, <1>10, <2>1 DEF Outage!CommitClose
  <2>3. QED
    BY <1>1, <1>10, <2>1, <2>2, OutageWritten DEF Outage!CommitClose
<1>11. ASSUME NEW c \in Clients, Outage!Fail(c)
       PROVE  OutageInv'
  BY <1>3, <1>11, OutageAsked DEF Outage!Fail
<1>12. ASSUME NEW a \in Assets, NEW s \in Outage!Statuses, Outage!Patch(a, s)
       PROVE  OutageInv'
  <2>1. status' \in [Assets -> Outage!Statuses] /\ patches' \in 0..MaxPatches
    BY <1>1, <1>12, BoundsAssumption DEF BoundsAssumption, Outage!Patch
  <2>2. QED
    BY <1>12, <2>1 DEF OutageInv, Outage!TypeOK, OutageAct, Outage!Patch
<1>13. CASE UNCHANGED outageVars
  BY <1>13 DEF outageVars, OutageInv, Outage!TypeOK, OutageAct
<1>14. QED
  BY <1>4, <1>5, <1>6, <1>7, <1>9, <1>10, <1>11, <1>12, <1>13 DEF Outage!Next

LEMMA OutageInvariant == Spec => []OutageInv
<1>1. Init => OutageInv
  BY OutageInit DEF Init
<1>2. OutageInv /\ [Next]_vars => OutageInv'
  BY OutageKept, ComponentSteps
<1>3. QED
  BY <1>1, <1>2, PTL DEF Spec

(* An asset under an open outage is put into operation only by a person, or  *)
(* by an opening or closing that another one has overtaken (create_outage,   *)
(* close_outage_atomic).                                                     *)
THEOREM UpOnlyByOutdatedReadHolds == Spec => UpOnlyByOutdatedRead
<1> DEFINE Justified ==
             \A a \in Assets : ~Outage!Exposed(a) /\ Outage!Exposed(a)' =>
               patches' # patches \/ \E c \in Clients : Outage!Outdated(c) /\ act'[c] = Outage!Idle
<1>1. ASSUME OutageInv, Outage!Next, NEW a \in Assets, ~Outage!Exposed(a), Outage!Exposed(a)'
      PROVE  patches' # patches
             \/ \E c \in Clients : Outage!Outdated(c) /\ act'[c] = Outage!Idle
  <2>1. /\ status \in [Assets -> Outage!Statuses]
        /\ \A o \in OutageIds : outage[o] = Outage!NoOutage
                                \/ outage[o] \in [asset : Assets, state : {"Open", "Closed"}]
        /\ DOMAIN outage = OutageIds /\ DOMAIN act = Clients /\ patches \in Int
    BY <1>1 DEF OutageInv, Outage!TypeOK
  <2>2. CASE UNCHANGED <<status, outage>>
    BY <1>1, <2>2 DEF Outage!Exposed, Outage!OpenOn
  <2>3. ASSUME NEW b \in Assets, NEW s \in Outage!Statuses, Outage!Patch(b, s)
        PROVE  patches' # patches
    BY <2>1, <2>3 DEF Outage!Patch
  <2>4. ASSUME NEW c \in Clients, Outage!CommitOpen(c)
        PROVE  Outage!Outdated(c) /\ act'[c] = Outage!Idle
    <3> DEFINE x == act[c]
    <3>1. /\ x.do = "opening" /\ x.asset \in Assets /\ x.outage \in OutageIds
          /\ x.read \in Outage!Statuses /\ x.to = Outage!DownFrom(x.read)
      BY <1>1, <2>4 DEF Outage!CommitOpen, OutageInv, OutageAct
    <3>2. /\ outage' = [outage EXCEPT ![x.outage] = [asset |-> x.asset, state |-> "Open"]]
          /\ status' = Outage!Applied(x) /\ act'[c] = Outage!Idle
      BY <2>1, <2>4 DEF Outage!CommitOpen, Outage!Becomes
    <3>3. CASE a # x.asset
      <4>1. status'[a] = status[a]
        BY <2>1, <3>1, <3>2, <3>3 DEF Outage!Applied
      <4>2. \A o \in OutageIds : outage'[o].asset = a => outage'[o] = outage[o]
        BY <2>1, <3>1, <3>2, <3>3
      <4>3. QED
        BY <1>1, <4>1, <4>2 DEF Outage!Exposed, Outage!OpenOn
    <3>4. CASE a = x.asset
      <4>1. x.to = "same"
        BY <1>1, <2>1, <3>1, <3>2, <3>4
           DEF Outage!Exposed, Outage!Applied, Outage!DownFrom, Outage!Up
      <4>2. status'[a] = status[a] /\ x.read \notin Outage!Up
        BY <3>1, <3>2, <4>1 DEF Outage!Applied, Outage!DownFrom
      <4>3. x.read # status[a]
        BY <1>1, <4>2 DEF Outage!Exposed
      <4>4. QED
        BY <3>1, <3>2, <3>4, <4>3 DEF Outage!Outdated
    <3>5. QED
      BY <3>3, <3>4
  <2>5. ASSUME NEW c \in Clients, Outage!CommitClose(c)
        PROVE  Outage!Outdated(c) /\ act'[c] = Outage!Idle
    <3> DEFINE x == act[c]
    <3>1. /\ x.do = "closing" /\ x.asset \in Assets /\ x.outage \in OutageIds
          /\ x.to = Outage!UpIfNone(x.counted)
          /\ outage[x.outage] \in [asset : Assets, state : {"Open", "Closed"}]
      BY <1>1, <2>1, <2>5 DEF Outage!CommitClose, OutageInv, OutageAct
    <3>2. /\ outage' = [outage EXCEPT ![x.outage].state = "Closed"]
          /\ status' = Outage!Applied(x) /\ act'[c] = Outage!Idle
      BY <2>1, <2>5 DEF Outage!CommitClose, Outage!Becomes
    <3>3. Outage!OpenOn(a)' = Outage!OpenOn(a) \ {x.outage}
      BY <2>1, <3>1, <3>2 DEF Outage!OpenOn
    <3>4. status'[a] # status[a]
      BY <1>1, <3>3 DEF Outage!Exposed
    <3>5. a = x.asset /\ x.counted = {}
      BY <2>1, <3>1, <3>2, <3>4 DEF Outage!Applied, Outage!UpIfNone
    <3>6. Outage!OpenOn(a) \ {x.outage} # {}
      BY <1>1, <3>3 DEF Outage!Exposed
    <3>7. QED
      BY <3>1, <3>2, <3>5, <3>6 DEF Outage!Outdated
  <2>6. QED
    BY <1>1, <2>2, <2>3, <2>4, <2>5
       DEF Outage!Next, Outage!Open, Outage!WriteOpen, Outage!Close, Outage!WriteClose,
           Outage!Fail
<1>2. OutageInv /\ [Next]_vars => [Justified]_outageVars
  BY <1>1, ComponentSteps
<1>3. Spec => [][Justified]_outageVars
  BY <1>2, OutageInvariant, PTL DEF Spec
<1>4. QED
  BY <1>3 DEF UpOnlyByOutdatedRead, Outage!UpOnlyByOutdatedRead, Outage!outageVars, outageVars

-----------------------------------------------------------------------------
\* Inspections and their corrective work orders

LEMMA ChecksCardinality == \A S : Checks!Cardinality(S) = Cardinality(S)
BY Zenon DEF Checks!Cardinality, Cardinality

WorksOf(i) == {w.id : w \in {x \in corrective : x.inspection = i}}

\* Before it is completed an inspection has no answer and no corrective work.
Untouched(i) ==
  inspection[i].status # "Completed" =>
    inspection[i].corrective = Checks!None /\ answers[i] = {} /\ WorksOf(i) = {}

CheckRequest(s) ==
  /\ s.at \in {"wait", "locked"} => s.inspection \in InspectionIds
  /\ s.at = "locked" => s.row.status = "Completed" /\ s.row.corrective \in Nat

CheckInv ==
  /\ Checks!TypeOK /\ Checks!OneTerminalAnswer
  /\ IsFiniteSet(corrective)
  /\ DOMAIN inspection = InspectionIds /\ DOMAIN answers = InspectionIds
  /\ DOMAIN submit = Clients
  /\ \A i \in InspectionIds : Untouched(i)
  /\ \A c \in Clients : CheckRequest(submit[c])

LEMMA CheckInit == Checks!Init => CheckInv
<1> SUFFICES ASSUME Checks!Init
             PROVE  CheckInv
  OBVIOUS
<1>1. /\ DOMAIN inspection = InspectionIds /\ DOMAIN answers = InspectionIds
      /\ DOMAIN submit = Clients
      /\ \A i \in InspectionIds : inspection[i].status = "none" /\ answers[i] = {}
                                  /\ inspection[i].corrective = Checks!None
      /\ \A c \in Clients : submit[c].at = "idle"
  BY DEF Checks!Init, Checks!Missing, Checks!Idle
<1>2. corrective = {} /\ IsFiniteSet(corrective) /\ requests \in 0..MaxSubmissions
  BY FS_EmptySet, BoundsAssumption DEF BoundsAssumption, Checks!Init
<1>3. QED
  BY <1>1, <1>2
     DEF CheckInv, Checks!TypeOK, Checks!OneTerminalAnswer, Untouched, WorksOf, CheckRequest

\* Steps that leave the tables and the answers alone.
LEMMA CheckAsked ==
  ASSUME CheckInv, UNCHANGED <<inspection, corrective, answers>>,
         requests' \in 0..MaxSubmissions,
         NEW c \in Clients, NEW x, submit' = [submit EXCEPT ![c] = x], CheckRequest(x)
  PROVE  CheckInv'
<1>1. \A d \in Clients : CheckRequest(submit'[d])
  BY DEF CheckInv
<1>2. DOMAIN submit' = Clients
  BY DEF CheckInv
<1>3. QED
  BY <1>1, <1>2
     DEF CheckInv, Checks!TypeOK, Checks!OneTerminalAnswer, Untouched, WorksOf, CheckRequest,
         Checks!Answer

LEMMA CheckKept == CheckInv /\ [Checks!Next]_inspectionVars => CheckInv'
<1> SUFFICES ASSUME CheckInv, [Checks!Next]_inspectionVars
             PROVE  CheckInv'
  OBVIOUS
<1>1. /\ \A i \in InspectionIds : inspection[i].status \in {"none", "Draft", "Completed"}
      /\ \A w \in corrective : w.inspection \in InspectionIds /\ w.id \in Nat \ {Checks!None}
      /\ requests \in 0..MaxSubmissions
      /\ IsFiniteSet(corrective)
      /\ DOMAIN inspection = InspectionIds /\ DOMAIN answers = InspectionIds
      /\ DOMAIN submit = Clients
  BY DEF CheckInv, Checks!TypeOK
<1>2. \A i \in InspectionIds : Untouched(i)
  BY DEF CheckInv
<1>3. \A i \in InspectionIds :
        /\ answers[i] \subseteq {Checks!Answer(inspection[i])}
        /\ WorksOf(i) = {inspection[i].corrective} \ {Checks!None}
  BY DEF CheckInv, Checks!OneTerminalAnswer, WorksOf
<1>4. CheckRequest(Checks!Idle) /\ Checks!None = 0
  BY DEF CheckRequest, Checks!Idle, Checks!None
<1>5. ASSUME NEW i \in InspectionIds, Checks!Create(i)
      PROVE  CheckInv'
  <2>1. inspection[i].status = "none" /\ inspection[i].corrective = Checks!None
    <3>1. inspection[i] = Checks!Missing
      BY <1>5 DEF Checks!Create
    <3>2. Checks!Missing.status = "none" /\ Checks!Missing.corrective = Checks!None
      BY DEF Checks!Missing
    <3>3. QED
      BY <3>1, <3>2
  <2>2. answers[i] = {} /\ WorksOf(i) = {}
    BY <1>2, <2>1 DEF Untouched
  <2>3. /\ DOMAIN inspection' = InspectionIds
        /\ inspection'[i].status = "Draft" /\ inspection'[i].corrective = Checks!None
        /\ \A j \in InspectionIds \ {i} : inspection'[j] = inspection[j]
    BY <1>1, <1>5 DEF Checks!Create, Checks!Draft
  <2>4. UNCHANGED <<corrective, submit, answers, requests>>
    BY <1>5 DEF Checks!Create
  <2>5. \A j \in InspectionIds : WorksOf(j)' = WorksOf(j)
    BY <2>4 DEF WorksOf
  <2>6. \A j \in InspectionIds :
          /\ answers'[j] \subseteq {Checks!Answer(inspection'[j])}
          /\ WorksOf(j)' = {inspection'[j].corrective} \ {Checks!None}
    BY <1>3, <2>2, <2>3, <2>4, <2>5
  <2>7. Checks!OneTerminalAnswer'
    BY <2>6 DEF Checks!OneTerminalAnswer, WorksOf, Checks!Answer
  <2>8. \A j \in InspectionIds : Untouched(j)'
    BY <1>2, <2>2, <2>3, <2>4, <2>5 DEF Untouched
  <2>9. QED
    BY <1>1, <2>3, <2>4, <2>7, <2>8 DEF CheckInv, Checks!TypeOK, CheckRequest
<1>6. ASSUME NEW c \in Clients, NEW i \in InspectionIds, NEW fails \in BOOLEAN,
             NEW wanted \in BOOLEAN, Checks!Request(c, i, fails, wanted)
      PROVE  CheckInv'
  <2>1. requests' \in 0..MaxSubmissions
    BY <1>1, <1>6, BoundsAssumption DEF BoundsAssumption, Checks!Request
  <2>2. QED
    BY <1>6, <2>1, CheckAsked DEF Checks!Request, CheckRequest
<1>7. ASSUME NEW c \in Clients, Checks!Submit(c)
      PROVE  CheckInv'
  <2>1. Checks!NewId \in Nat
    BY <1>1, FS_CardinalityType, ChecksCardinality DEF Checks!NewId
  <2>2. submit[c].inspection \in InspectionIds
    BY <1>7 DEF Checks!Submit, CheckInv, CheckRequest
  <2>3. QED
    BY <1>1, <1>4, <1>7, <2>1, <2>2, CheckAsked DEF Checks!Submit, CheckRequest
<1>8. ASSUME NEW c \in Clients, Checks!Fail(c)
      PROVE  CheckInv'
  BY <1>1, <1>4, <1>8, CheckAsked DEF Checks!Fail
<1>9. ASSUME NEW c \in Clients, Checks!Replay(c)
      PROVE  CheckInv'
  <2> DEFINE i == submit[c].inspection
  <2>1. i \in InspectionIds /\ inspection[i].status = "Completed"
    BY <1>9 DEF Checks!Replay, CheckInv, CheckRequest
  <2>2. /\ answers' = [answers EXCEPT ![i] = @ \union {Checks!Answer(inspection[i])}]
        /\ submit' = [submit EXCEPT ![c] = Checks!Idle]
        /\ UNCHANGED <<inspection, corrective, requests>>
    BY <1>9 DEF Checks!Replay, Checks!Replayed
  <2>3. DOMAIN answers' = InspectionIds /\ DOMAIN submit' = Clients
        /\ \A d \in Clients : CheckRequest(submit'[d])
    BY <1>1, <1>4, <2>2 DEF CheckInv
  <2>4. \A j \in InspectionIds : answers'[j] \subseteq {Checks!Answer(inspection[j])}
    BY <1>1, <1>3, <2>1, <2>2
  <2>5. Checks!OneTerminalAnswer'
    BY <1>3, <2>2, <2>4 DEF Checks!OneTerminalAnswer, WorksOf, Checks!Answer
  <2>6. \A j \in InspectionIds : Untouched(j)'
    BY <1>1, <1>2, <2>1, <2>2 DEF Untouched, WorksOf
  <2>7. QED
    BY <1>1, <2>2, <2>3, <2>5, <2>6 DEF CheckInv, Checks!TypeOK, CheckRequest
<1>10. ASSUME NEW c \in Clients, Checks!Commit(c)
       PROVE  CheckInv'
  <2>0. PICK i \in InspectionIds : i = submit[c].inspection
    BY <1>10 DEF Checks!Commit, CheckInv, CheckRequest
  <2> DEFINE row == submit[c].row
             new == IF row.corrective = Checks!None THEN {}
                    ELSE {[id |-> row.corrective, inspection |-> i]}
  <2>1. /\ inspection[i].status # "Completed"
        /\ row.status = "Completed" /\ row.corrective \in Nat
    BY <1>10, <2>0 DEF Checks!Commit, Checks!Claimed, CheckInv, CheckRequest
  <2>2. answers[i] = {} /\ WorksOf(i) = {}
    BY <1>2, <2>1 DEF Untouched
  <2>3. /\ inspection' = [inspection EXCEPT ![i] = row]
        /\ corrective' = corrective \union new
        /\ answers' = [answers EXCEPT ![i] = @ \union {Checks!Answer(row)}]
        /\ submit' = [submit EXCEPT ![c] = Checks!Idle]
        /\ UNCHANGED requests
    BY <1>10, <2>0 DEF Checks!Commit
  <2>4. DOMAIN submit' = Clients /\ \A d \in Clients : CheckRequest(submit'[d])
    BY <1>1, <1>4, <2>3 DEF CheckInv
  <2>5. /\ DOMAIN inspection' = InspectionIds /\ DOMAIN answers' = InspectionIds
        /\ inspection'[i] = row /\ answers'[i] = {Checks!Answer(row)}
        /\ \A j \in InspectionIds \ {i} : inspection'[j] = inspection[j] /\ answers'[j] = answers[j]
    BY <1>1, <2>1, <2>2, <2>3
  <2>6. \A j \in InspectionIds \ {i} : WorksOf(j)' = WorksOf(j)
    BY <2>3 DEF WorksOf
  <2>7. WorksOf(i)' = {row.corrective} \ {Checks!None}
    <3>1. CASE row.corrective = Checks!None
      <4>1. corrective' = corrective
        BY <2>3, <3>1
      <4>2. WorksOf(i)' = WorksOf(i)
        BY <4>1 DEF WorksOf
      <4>3. QED
        BY <2>2, <3>1, <4>2
    <3>2. CASE row.corrective # Checks!None
      <4> DEFINE w == [id |-> row.corrective, inspection |-> i]
      <4>1. corrective' = corrective \union {w}
        BY <2>3, <3>2
      <4>2. w.id = row.corrective /\ w.inspection = i
        OBVIOUS
      <4> HIDE DEF w
      <4>3. {x \in corrective' : x.inspection = i} = {w}
        BY <2>2, <4>1, <4>2 DEF WorksOf
      <4>4. WorksOf(i)' = {row.corrective}
        BY <4>2, <4>3 DEF WorksOf
      <4>5. QED
        BY <3>2, <4>4
    <3>3. QED
      BY <3>1, <3>2
  <2>8. Checks!OneTerminalAnswer'
    <3>1. \A j \in InspectionIds \ {i} :
            /\ answers'[j] \subseteq {Checks!Answer(inspection'[j])}
            /\ WorksOf(j)' = {inspection'[j].corrective} \ {Checks!None}
      BY <1>3, <2>5, <2>6
    <3>2. /\ answers'[i] \subseteq {Checks!Answer(inspection'[i])}
          /\ WorksOf(i)' = {inspection'[i].corrective} \ {Checks!None}
      BY <2>5, <2>7
    <3>3. \A j \in InspectionIds :
            /\ answers'[j] \subseteq {Checks!Answer(inspection'[j])}
            /\ WorksOf(j)' = {inspection'[j].corrective} \ {Checks!None}
      BY <3>1, <3>2
    <3>4. QED
      BY <3>3 DEF Checks!OneTerminalAnswer, WorksOf, Checks!Answer
  <2>9. \A j \in InspectionIds : Untouched(j)'
    BY <1>2, <2>1, <2>5, <2>6 DEF Untouched
  <2>10. IsFiniteSet(corrective')
    BY <1>1, <2>3, FS_EmptySet, FS_Singleton, FS_Union
  <2>11. \A w \in corrective' : w.inspection \in InspectionIds /\ w.id \in Nat \ {Checks!None}
    BY <1>1, <2>1, <2>3
  <2>12. \A j \in InspectionIds : inspection'[j].status \in {"none", "Draft", "Completed"}
    BY <1>1, <2>1, <2>5
  <2>13. Checks!TypeOK'
    BY <1>1, <2>3, <2>11, <2>12 DEF Checks!TypeOK
  <2> HIDE DEF row, new
  <2>14. QED
    BY <2>4, <2>5, <2>8, <2>9, <2>10, <2>13 DEF CheckInv, CheckRequest
<1>11. CASE UNCHANGED inspectionVars
  BY <1>11
     DEF inspectionVars, CheckInv, Checks!TypeOK, Checks!OneTerminalAnswer, Untouched, WorksOf,
         CheckRequest, Checks!Answer
<1>12. QED
  BY <1>5, <1>6, <1>7, <1>8, <1>9, <1>10, <1>11 DEF Checks!Next

LEMMA CheckInvariant == Spec => []CheckInv
<1>1. Init => CheckInv
  BY CheckInit DEF Init
<1>2. CheckInv /\ [Next]_vars => CheckInv'
  BY CheckKept, ComponentSteps
<1>3. QED
  BY <1>1, <1>2, PTL DEF Spec

-----------------------------------------------------------------------------
\* Service levels and the scan that escalates breaches

OnRecord(w) == \E k \in Levels!Kinds : <<w, k>> \in events

\* A row is escalated exactly if a breach is on record.
Escalated(w) == IF w \in DOMAIN sla THEN sla[w].level = 1 <=> OnRecord(w) ELSE ~OnRecord(w)

\* A scan inserts rows that are not escalated, and those it does not are there.
ScanSound(x) ==
  x # Levels!NoScan =>
    /\ WorkOrders \subseteq x.new \union DOMAIN sla
    /\ \A w \in x.new : x.rows[w] \in Levels!SlaRow /\ x.rows[w].level = 0

Announcements == [w \in WorkOrders |-> [k \in Levels!Kinds |->
                    IF <<w, k>> \in events THEN 1 ELSE 0]]

OrderRows == [WorkOrders -> [status : {"Assigned", "In Progress"} \union Levels!Final,
                             at : [Levels!Kinds -> Int]]]

LevelInv ==
  /\ Levels!TypeOK
  /\ order \in OrderRows
  /\ policy \in [Levels!Kinds -> Nat] /\ stamp \in [WorkOrders -> Int]
  /\ DOMAIN scan = Clients
  /\ \A c \in Clients : ScanSound(scan[c])
  /\ announced = Announcements
  /\ \A w \in WorkOrders : Escalated(w)

LEMMA LevelInit == Levels!Init => LevelInv
<1> SUFFICES ASSUME Levels!Init
             PROVE  LevelInv
  OBVIOUS
<1> USE BoundsAssumption DEF BoundsAssumption
<1>1. Levels!Never \in Int
  BY DEF Levels!Never
<1>2. order \in OrderRows /\ stamp \in [WorkOrders -> Int]
  BY <1>1 DEF Levels!Init, OrderRows
<1>3. policy \in [Levels!Kinds -> Nat]
  BY LevelsAssumption DEF Levels!Init, LevelsAssumption, Levels!Kinds
<1>4. DOMAIN scan = Clients /\ \A c \in Clients : scan[c] = Levels!NoScan
  BY DEF Levels!Init
<1>5. Levels!NoScan.new = {}
  BY DEF Levels!NoScan
<1>6. sla = <<>> /\ events = {} /\ time = 0 /\ policies = 0
  BY DEF Levels!Init
<1>7. announced = Announcements
  BY <1>6 DEF Levels!Init, Announcements
<1>8. DOMAIN sla = {}
  BY <1>6
<1>9. Levels!TypeOK
  <2>1. \A w \in WorkOrders :
          order[w].status \in {"Assigned", "In Progress"} \union Levels!Final
    BY <1>2 DEF OrderRows
  <2>2. \A w \in DOMAIN sla : sla[w] \in Levels!SlaRow
    BY <1>8
  <2>3. /\ events \subseteq WorkOrders \X Levels!Kinds
        /\ \A c \in Clients : scan[c].new \subseteq WorkOrders
        /\ time \in 0..MaxTime /\ policies \in 0..MaxPolicies
    BY <1>4, <1>5, <1>6
  <2>4. QED
    BY <1>8, <2>1, <2>2, <2>3 DEF Levels!TypeOK
<1>10. QED
  BY <1>2, <1>3, <1>4, <1>6, <1>7, <1>8, <1>9 DEF LevelInv, ScanSound, Escalated, OnRecord

\* Steps that announce nothing: rows keep their level, and new ones are not
\* escalated.
LEMMA LevelsQuiet ==
  ASSUME LevelInv, UNCHANGED <<events, scan, announced>>,
         order' \in OrderRows, stamp' \in [WorkOrders -> Int],
         policy' \in [Levels!Kinds -> Nat],
         time' \in 0..MaxTime, policies' \in 0..MaxPolicies,
         DOMAIN sla \subseteq DOMAIN sla', DOMAIN sla' \subseteq WorkOrders,
         \A w \in DOMAIN sla' : sla'[w] \in Levels!SlaRow
           /\ sla'[w].level = IF w \in DOMAIN sla THEN sla[w].level ELSE 0
  PROVE  LevelInv'
<1>1. Levels!TypeOK'
  BY DEF LevelInv, Levels!TypeOK, OrderRows
<1>2. \A w \in WorkOrders : Escalated(w)'
  <2>1. \A w \in WorkOrders : OnRecord(w)' <=> OnRecord(w)
    BY DEF OnRecord
  <2>2. \A w \in WorkOrders : Escalated(w)
    BY DEF LevelInv
  <2>3. QED
    BY <2>1, <2>2 DEF Escalated
<1>3. \A c \in Clients : ScanSound(scan[c])'
  BY DEF LevelInv, ScanSound
<1>4. announced' = Announcements'
  BY DEF LevelInv, Announcements
<1>5. QED
  BY <1>1, <1>2, <1>3, <1>4 DEF LevelInv, OrderRows

LEMMA ComputedRow ==
  ASSUME NEW w, NEW p \in [Levels!Kinds -> Nat], NEW level \in 0..1
  PROVE  Levels!Computed(w, p, level) \in Levels!SlaRow
         /\ Levels!Computed(w, p, level).level = level
BY DEF Levels!Computed, Levels!SlaRow, Levels!Verdict, Levels!Verdicts

LEMMA BackfilledRows ==
  ASSUME LevelInv, NEW W, W \subseteq WorkOrders
  PROVE  /\ DOMAIN Levels!Backfilled(W) = DOMAIN sla \union W
         /\ \A w \in DOMAIN sla \union W :
              /\ Levels!Backfilled(W)[w] \in Levels!SlaRow
              /\ Levels!Backfilled(W)[w].level = IF w \in DOMAIN sla THEN sla[w].level ELSE 0
<1>1. \A w : /\ Levels!Computed(w, policy, 0) \in Levels!SlaRow
             /\ Levels!Computed(w, policy, 0).level = 0
  BY ComputedRow DEF LevelInv
<1>2. \A w \in DOMAIN sla : sla[w] \in Levels!SlaRow
  BY DEF LevelInv, Levels!TypeOK
<1>3. QED
  BY <1>1, <1>2 DEF Levels!Backfilled

LEMMA LevelKept == LevelInv /\ [Levels!Next]_levelVars => LevelInv'
<1> SUFFICES ASSUME LevelInv, [Levels!Next]_levelVars
             PROVE  LevelInv'
  OBVIOUS
<1> USE BoundsAssumption DEF BoundsAssumption
<1>1. /\ order \in OrderRows /\ stamp \in [WorkOrders -> Int]
      /\ policy \in [Levels!Kinds -> Nat]
      /\ time \in 0..MaxTime /\ policies \in 0..MaxPolicies
      /\ DOMAIN sla \subseteq WorkOrders
      /\ \A w \in DOMAIN sla : sla[w] \in Levels!SlaRow
  BY DEF LevelInv, Levels!TypeOK
<1>2. Levels!Missing \subseteq WorkOrders
  BY DEF Levels!Missing
<1>3. CASE Levels!Backfill
  <2>1. sla' = Levels!Backfilled(Levels!Missing)
        /\ UNCHANGED <<order, policy, events, scan, stamp, time, announced, policies>>
    BY <1>3 DEF Levels!Backfill
  <2>2. /\ DOMAIN sla' = DOMAIN sla \union Levels!Missing
        /\ \A w \in DOMAIN sla' : sla'[w] \in Levels!SlaRow
             /\ sla'[w].level = IF w \in DOMAIN sla THEN sla[w].level ELSE 0
    BY <1>2, <2>1, BackfilledRows
  <2>3. QED
    BY <1>1, <1>2, <2>1, <2>2, LevelsQuiet
<1>4. CASE Levels!Tick
  BY <1>1, <1>4, LevelsQuiet DEF Levels!Tick
<1>5. ASSUME NEW w \in WorkOrders, Levels!Stamp(w)
      PROVE  LevelInv'
  <2>1. stamp' \in [WorkOrders -> Int]
    <3>1. stamp \in [WorkOrders -> Int] /\ time \in Int
      BY <1>1
    <3>2. stamp' = [stamp EXCEPT ![w] = time]
      BY <1>5 DEF Levels!Stamp
    <3>3. QED
      BY <3>1, <3>2
  <2>2. QED
    BY <1>1, <1>5, <2>1, LevelsQuiet DEF Levels!Stamp
<1>6. ASSUME NEW w \in WorkOrders, Levels!Cancel(w)
      PROVE  LevelInv'
  <2>1. order' \in OrderRows
    BY <1>1, <1>6 DEF Levels!Cancel, OrderRows, Levels!Final
  <2>2. QED
    BY <1>1, <1>6, <2>1, LevelsQuiet DEF Levels!Cancel
<1>7. ASSUME NEW w \in WorkOrders, Levels!CommitStamp(w)
      PROVE  LevelInv'
  <2> DEFINE k == Levels!KindOf(w)
             row == Levels!Backfilled({w})[w]
             verdict == Levels!Verdict(stamp[w], row.due[k])
  <2>1. k \in Levels!Kinds
    BY DEF Levels!KindOf, Levels!Kinds
  <2>2. row \in Levels!SlaRow /\ row.level = IF w \in DOMAIN sla THEN sla[w].level ELSE 0
    BY BackfilledRows
  <2>3. verdict \in Levels!Verdicts
    BY DEF Levels!Verdict, Levels!Verdicts
  <2>4. order' \in OrderRows
    <3>1. order' = [order EXCEPT
                      ![w].status = IF k = "response" THEN "In Progress" ELSE "Completed",
                      ![w].at[k] = stamp[w]]
      BY <1>7 DEF Levels!CommitStamp
    <3> DEFINE to == IF k = "response" THEN "In Progress" ELSE "Completed"
               r == [status |-> to, at |-> [order[w].at EXCEPT ![k] = stamp[w]]]
               Status == {"Assigned", "In Progress"} \union Levels!Final
    <3>2. to \in Status
      BY DEF Levels!Final
    <3> HIDE DEF k
    <3>3. order[w] \in [status : Status, at : [Levels!Kinds -> Int]]
      BY <1>1 DEF OrderRows
    <3>4. [[order[w] EXCEPT !.status = to] EXCEPT !.at[k] = stamp[w]] = r
      <4>1. PICK s \in Status, at \in [Levels!Kinds -> Int] :
              order[w] = [status |-> s, at |-> at]
        BY <3>3
      <4> HIDE DEF to, Status
      <4>2. [order[w] EXCEPT !.status = to] = [status |-> to, at |-> at]
        BY <4>1
      <4>3. [[status |-> to, at |-> at] EXCEPT !.at[k] = stamp[w]]
              = [status |-> to, at |-> [at EXCEPT ![k] = stamp[w]]]
        OBVIOUS
      <4>4. order[w].at = at
        BY <4>1
      <4>5. QED
        BY <4>2, <4>3, <4>4
    <3>5. order' = [[order EXCEPT ![w].status = to] EXCEPT ![w].at[k] = stamp[w]]
      BY <3>1
    <3>6. r \in [status : Status, at : [Levels!Kinds -> Int]]
      BY <1>1, <2>1, <3>2, <3>3
    <3> HIDE DEF to, r
    <3>7. order' = [order EXCEPT ![w] = r]
      BY <1>1, <3>4, <3>5 DEF OrderRows
    <3>8. QED
      BY <1>1, <3>6, <3>7 DEF OrderRows
  <2>5. sla' = [x \in DOMAIN sla \union {w} |->
                  IF x # w THEN sla[x] ELSE [row EXCEPT !.verdict[k] = verdict]]
    BY <1>7 DEF Levels!CommitStamp
  <2> HIDE DEF k, row, verdict
  <2>6. [row EXCEPT !.verdict[k] = verdict] \in Levels!SlaRow
        /\ [row EXCEPT !.verdict[k] = verdict].level = row.level
    BY <2>1, <2>2, <2>3 DEF Levels!SlaRow
  <2>7. /\ DOMAIN sla' = DOMAIN sla \union {w}
        /\ \A x \in DOMAIN sla' : sla'[x] \in Levels!SlaRow
             /\ sla'[x].level = IF x \in DOMAIN sla THEN sla[x].level ELSE 0
    BY <1>1, <2>2, <2>5, <2>6
  <2>8. /\ UNCHANGED <<policy, events, scan, time, announced, policies>>
        /\ stamp' \in [WorkOrders -> Int]
    <3>1. Levels!Never \in Int
      BY DEF Levels!Never
    <3>2. QED
      BY <1>1, <1>7, <3>1 DEF Levels!CommitStamp
  <2>9. QED
    BY <1>1, <2>4, <2>7, <2>8, LevelsQuiet
<1>8. ASSUME NEW p \in [Levels!Kinds -> Minutes], Levels!ChangePolicy(p)
      PROVE  LevelInv'
  <2> DEFINE Level(w) == IF w \in DOMAIN sla THEN sla[w].level ELSE 0
  <2>1. p \in [Levels!Kinds -> Nat]
    BY LevelsAssumption DEF LevelsAssumption
  <2>2. \A w \in WorkOrders : Level(w) \in 0..1
    BY <1>1 DEF Levels!SlaRow
  <2>3. sla' = [w \in WorkOrders |-> Levels!Computed(w, p, Level(w))]
    BY <1>8 DEF Levels!ChangePolicy
  <2>4. DOMAIN sla' = WorkOrders
        /\ \A w \in DOMAIN sla' : sla'[w] \in Levels!SlaRow /\ sla'[w].level = Level(w)
    BY <2>1, <2>2, <2>3, ComputedRow
  <2>5. /\ policy' = p /\ policies' \in 0..MaxPolicies
        /\ UNCHANGED <<order, events, scan, stamp, time, announced>>
    BY <1>1, <1>8 DEF Levels!ChangePolicy
  <2>6. QED
    BY <1>1, <2>1, <2>4, <2>5, LevelsQuiet
<1>9. ASSUME NEW c \in Clients, NEW n \in 0..1, Levels!Scan(c, n)
      PROVE  LevelInv'
  <2> DEFINE x == [rows |-> Levels!Backfilled(Levels!Missing), new |-> Levels!Missing,
                   cutoff |-> time + n,
                   status |-> [w \in WorkOrders |-> order[w].status]]
  <2>1. scan' = [scan EXCEPT ![c] = x]
        /\ UNCHANGED <<order, policy, sla, events, stamp, time, announced, policies>>
    BY <1>9 DEF Levels!Scan
  <2>2. x.new = Levels!Missing /\ x.rows = Levels!Backfilled(Levels!Missing)
    OBVIOUS
  <2> HIDE DEF x
  <2>3. ScanSound(x)
    <3>1. \A w \in Levels!Missing : w \notin DOMAIN sla
      BY DEF Levels!Missing
    <3>2. \A w \in Levels!Missing : x.rows[w] \in Levels!SlaRow /\ x.rows[w].level = 0
      BY <1>2, <2>2, <3>1, BackfilledRows
    <3>3. QED
      BY <2>2, <3>2 DEF ScanSound, Levels!Missing
  <2>4. DOMAIN scan' = Clients /\ \A d \in Clients : scan'[d] = x \/ scan'[d] = scan[d]
    BY <2>1 DEF LevelInv
  <2>5. \A d \in Clients : ScanSound(scan[d])'
    BY <2>1, <2>3, <2>4 DEF LevelInv, ScanSound
  <2>6. \A d \in Clients : scan'[d].new \subseteq WorkOrders
    BY <1>2, <2>2, <2>4 DEF LevelInv, Levels!TypeOK
  <2>7. Levels!TypeOK'
    BY <2>1, <2>6 DEF LevelInv, Levels!TypeOK
  <2>8. QED
    BY <2>1, <2>4, <2>5, <2>7
       DEF LevelInv, OrderRows, Announcements, Escalated, OnRecord
<1>10. ASSUME NEW c \in Clients, Levels!CommitScan(c)
       PROVE  LevelInv'
  <2> DEFINE old(w) == IF w \in scan[c].new THEN scan[c].rows[w] ELSE sla[w]
             B == Levels!Breaches(c)
             hit(w) == \E k \in Levels!Kinds : <<w, k>> \in B
  <2>1. /\ DOMAIN scan' = Clients /\ scan[c] # Levels!NoScan
        /\ \A d \in Clients : scan'[d] = Levels!NoScan \/ scan'[d] = scan[d]
        /\ UNCHANGED <<order, policy, stamp, time, policies>>
    BY <1>10 DEF Levels!CommitScan, LevelInv
  <2>2. \A d \in Clients : scan'[d].new \subseteq WorkOrders
    <3>1. Levels!NoScan.new = {}
      BY DEF Levels!NoScan
    <3>2. QED
      BY <2>1, <3>1 DEF LevelInv, Levels!TypeOK
  <2>3. CASE scan[c].new \intersect DOMAIN sla # {}
    <3>1. UNCHANGED <<sla, events, announced>>
      BY <1>10, <2>3 DEF Levels!CommitScan
    <3>2. \A d \in Clients : ScanSound(scan[d])'
      BY <2>1, <3>1 DEF LevelInv, ScanSound
    <3>3. Levels!TypeOK'
      BY <2>1, <2>2, <3>1 DEF LevelInv, Levels!TypeOK
    <3>4. QED
      BY <2>1, <3>1, <3>2, <3>3 DEF LevelInv, OrderRows, Announcements, Escalated, OnRecord
  <2>4. CASE scan[c].new \intersect DOMAIN sla = {}
    <3>1. /\ sla' = [w \in WorkOrders |-> [old(w) EXCEPT
                !.verdict = [k \in Levels!Kinds |-> IF <<w, k>> \in B THEN "Breached" ELSE @[k]],
                !.level = IF hit(w) THEN 1 ELSE @]]
          /\ events' = events \union B
          /\ announced' = [w \in WorkOrders |-> [k \in Levels!Kinds |->
               announced[w][k] + IF <<w, k>> \in B \ events THEN 1 ELSE 0]]
      BY <1>10, <2>4 DEF Levels!CommitScan, Levels!NewOf
    <3>2. B \subseteq WorkOrders \X Levels!Kinds
      BY DEF Levels!Breaches
    <3>3. \A w \in WorkOrders : old(w) \in Levels!SlaRow /\ (old(w).level = 1 <=> OnRecord(w))
      <4>1. ASSUME NEW w \in WorkOrders, w \in scan[c].new
            PROVE  old(w) \in Levels!SlaRow /\ (old(w).level = 1 <=> OnRecord(w))
        <5>1. old(w) \in Levels!SlaRow /\ old(w).level = 0
          BY <2>1, <4>1 DEF LevelInv, ScanSound
        <5>2. ~OnRecord(w)
          BY <2>4, <4>1 DEF LevelInv, Escalated
        <5>3. QED
          BY <5>1, <5>2
      <4>2. ASSUME NEW w \in WorkOrders, w \notin scan[c].new
            PROVE  old(w) \in Levels!SlaRow /\ (old(w).level = 1 <=> OnRecord(w))
        <5>1. w \in DOMAIN sla
          BY <2>1, <4>2 DEF LevelInv, ScanSound
        <5>2. QED
          BY <1>1, <4>2, <5>1 DEF LevelInv, Escalated
      <4>3. QED
        BY <4>1, <4>2
    <3> HIDE DEF old, B
    <3>4. \A w \in WorkOrders : sla'[w] \in Levels!SlaRow
            /\ sla'[w].level = IF hit(w) THEN 1 ELSE old(w).level
      <4>1. ASSUME NEW w \in WorkOrders
            PROVE  sla'[w] \in Levels!SlaRow
                   /\ sla'[w].level = IF hit(w) THEN 1 ELSE old(w).level
        <5> DEFINE v == [k \in Levels!Kinds |-> IF <<w, k>> \in B THEN "Breached"
                                                ELSE old(w).verdict[k]]
                   l == IF hit(w) THEN 1 ELSE old(w).level
        <5>1. old(w) \in Levels!SlaRow
          BY <3>3
        <5>2. v \in [Levels!Kinds -> Levels!Verdicts] /\ l \in 0..1
          BY <5>1 DEF Levels!SlaRow, Levels!Verdicts
        <5>3. sla'[w] = [old(w) EXCEPT !.verdict = v, !.level = l]
          BY <3>1
        <5> HIDE DEF v, l
        <5>4. sla'[w] \in Levels!SlaRow /\ sla'[w].level = l
          BY <5>1, <5>2, <5>3 DEF Levels!SlaRow
        <5>5. QED
          BY <5>4 DEF l
      <4>2. QED
        BY <4>1
    <3>5. DOMAIN sla' = WorkOrders
      BY <3>1
    <3>6. \A w \in WorkOrders : Escalated(w)'
      BY <3>1, <3>3, <3>4, <3>5 DEF Escalated, OnRecord
    <3>7. announced' = Announcements'
      <4>1. \A w \in WorkOrders, k \in Levels!Kinds :
              announced[w][k] + (IF <<w, k>> \in B \ events THEN 1 ELSE 0)
                = IF <<w, k>> \in events' THEN 1 ELSE 0
        <5>1. ASSUME NEW w \in WorkOrders, NEW k \in Levels!Kinds
              PROVE  announced[w][k] + (IF <<w, k>> \in B \ events THEN 1 ELSE 0)
                       = IF <<w, k>> \in events' THEN 1 ELSE 0
          <6>1. announced[w][k] = IF <<w, k>> \in events THEN 1 ELSE 0
            BY DEF LevelInv, Announcements
          <6>2. <<w, k>> \in events' <=> <<w, k>> \in events \/ <<w, k>> \in B
            BY <3>1
          <6>3. QED
            BY <6>1, <6>2
        <5>2. QED
          BY <5>1
      <4>2. QED
        BY <3>1, <4>1 DEF Announcements
    <3>8. \A d \in Clients : ScanSound(scan[d])'
      BY <2>1, <3>5 DEF LevelInv, ScanSound
    <3>9. Levels!TypeOK'
      BY <2>1, <2>2, <3>1, <3>2, <3>4, <3>5 DEF LevelInv, Levels!TypeOK
    <3>10. QED
      BY <2>1, <3>6, <3>7, <3>8, <3>9 DEF LevelInv, OrderRows
  <2>5. QED
    BY <2>3, <2>4
<1>11. CASE UNCHANGED levelVars
  BY <1>11
     DEF levelVars, LevelInv, Levels!TypeOK, OrderRows, ScanSound, Announcements, Escalated,
         OnRecord
<1>12. QED
  BY <1>3, <1>4, <1>5, <1>6, <1>7, <1>8, <1>9, <1>10, <1>11 DEF Levels!Next

LEMMA LevelInvariant == Spec => []LevelInv
<1>1. Init => LevelInv
  BY LevelInit DEF Init
<1>2. LevelInv /\ [Next]_vars => LevelInv'
  BY LevelKept, ComponentSteps
<1>3. QED
  BY <1>1, <1>2, PTL DEF Spec

(* A breach is announced once, whatever scans and policy changes overlap     *)
(* (_run_sla_scan), and a failed inspection has one answer and one           *)
(* corrective work order (submit_inspection_atomic).                         *)
THEOREM FieldRecordsSoundHolds == Spec => []FieldRecordsSound
<1>1. LevelInv => Levels!BreachesAnnouncedOnce
  <2>1. ASSUME LevelInv, NEW w \in WorkOrders
        PROVE  /\ \A k \in Levels!Kinds : announced[w][k] <= 1
               /\ w \in DOMAIN sla /\ sla[w].level = 1
                    <=> \E k \in Levels!Kinds : announced[w][k] > 0
    <3>1. \A k \in Levels!Kinds : announced[w][k] = IF <<w, k>> \in events THEN 1 ELSE 0
      BY <2>1 DEF LevelInv, Announcements
    <3>2. \A k \in Levels!Kinds :
            announced[w][k] <= 1 /\ (announced[w][k] > 0 <=> <<w, k>> \in events)
      BY <3>1
    <3>3. OnRecord(w) <=> \E k \in Levels!Kinds : announced[w][k] > 0
      BY <3>2 DEF OnRecord
    <3>4. w \in DOMAIN sla /\ sla[w].level = 1 <=> OnRecord(w)
      BY <2>1 DEF LevelInv, Escalated
    <3>5. QED
      BY <3>2, <3>3, <3>4
  <2>2. QED
    BY <2>1 DEF Levels!BreachesAnnouncedOnce
<1>2. OutageInv /\ LevelInv /\ CheckInv => FieldRecordsSound
  BY <1>1 DEF FieldRecordsSound, OutageInv, LevelInv, CheckInv
<1>3. QED
  BY <1>2, OutageInvariant, LevelInvariant, CheckInvariant, PTL

-----------------------------------------------------------------------------
\* The permissions of roles

InFlight == {c \in Clients : change[c] # <<>>}
Asked(c) == change[c][1]

Rows(n) == [perm : catalog, by : 0..n]

\* A replacement under way: its number is in no row yet, and of the requests
\* whose rows it has seen it has seen all that is left.
Replacement(d) ==
  /\ d.role \in Roles /\ d.requested \subseteq catalog /\ d.by \in 1..changes
  /\ d.role = Admin => Manage \in d.requested
  /\ d.seen \subseteq Rows(changes)
  /\ \A r \in Roles : \A g \in grants[r] : g.by # d.by
  /\ \A g \in grants[d.role], k \in d.seen :
       k.by = g.by /\ g.by # Permits!Seed => g \in d.seen

PermitInv ==
  /\ Permits!TypeOK /\ Permits!AdminRoleIsOneRequest
  /\ DOMAIN change = Clients
  /\ \A r \in Roles : grants[r] \subseteq Rows(changes)
  /\ \A g \in grants[Admin] :
       g.by # Permits!Seed => Permits!Grant(Manage, g.by) \in grants[Admin]
  /\ \A c \in InFlight : Replacement(Asked(c))
  /\ \A c, e \in InFlight : /\ c # e => Asked(c).by # Asked(e).by
                            /\ \A k \in Asked(c).seen : k.by # Asked(e).by

LEMMA PermitInit == Permits!Init => PermitInv
<1> SUFFICES ASSUME Permits!Init
             PROVE  PermitInv
  OBVIOUS
<1>1. /\ grants = [r \in Roles |-> {Permits!Grant(p, 0) : p \in {q \in catalog : r \in Defaults[q]}}]
      /\ catalog = Perms \ Added /\ change = [c \in Clients |-> <<>>] /\ changes = 0
  BY DEF Permits!Init, Permits!Seed
<1>2. \A r \in Roles : \A g \in grants[r] :
        \E p \in catalog : g = [perm |-> p, by |-> 0]
  BY <1>1 DEF Permits!Grant
<1>3. \A r \in Roles : grants[r] \subseteq Rows(changes)
  BY <1>1, <1>2 DEF Rows
<1>4. Admin \in Roles /\ Permits!Grant(Manage, 0) \in grants[Admin]
  BY <1>1, RolesAssumption DEF RolesAssumption
<1>5. Permits!Grant(Manage, 0).perm = Manage
  BY DEF Permits!Grant
<1>6. Permits!AdminRoleIsOneRequest
  BY <1>2, <1>4, <1>5 DEF Permits!AdminRoleIsOneRequest, Permits!PermsOf, Permits!Seed
<1>7. changes \in 0..MaxReplacements /\ InFlight = {} /\ DOMAIN change = Clients
  BY <1>1, BoundsAssumption DEF BoundsAssumption, InFlight
<1>8. \A r \in Roles : \A g, k \in grants[r] : g.perm = k.perm => g = k
  BY <1>2
<1>9. grants \in [Roles -> SUBSET [perm : Perms, by : 0..MaxReplacements]]
  <2>1. \A r \in Roles : grants[r] \subseteq [perm : Perms, by : 0..MaxReplacements]
    BY <1>1, <1>2, <1>7
  <2>2. QED
    BY <1>1, <2>1
<1>10. Permits!TypeOK
  BY <1>1, <1>7, <1>8, <1>9 DEF Permits!TypeOK
<1>11. \A g \in grants[Admin] : g.by = Permits!Seed
  BY <1>2, <1>4 DEF Permits!Seed
<1>12. QED
  BY <1>3, <1>6, <1>7, <1>10, <1>11 DEF PermitInv

LEMMA PermitKept == PermitInv /\ [Permits!Next]_roleVars => PermitInv'
<1> SUFFICES ASSUME PermitInv, [Permits!Next]_roleVars
             PROVE  PermitInv'
  OBVIOUS
<1> USE BoundsAssumption DEF BoundsAssumption
<1>1. /\ catalog \subseteq Perms
      /\ grants \in [Roles -> SUBSET [perm : Perms, by : 0..MaxReplacements]]
      /\ \A r \in Roles : \A g, k \in grants[r] : g.perm = k.perm => g = k
      /\ changes \in 0..MaxReplacements
      /\ DOMAIN change = Clients
      /\ \A r \in Roles : grants[r] \subseteq Rows(changes)
  BY DEF PermitInv, Permits!TypeOK
<1>2. /\ \E g \in grants[Admin] : g.perm = Manage
      /\ \A g, k \in grants[Admin] :
           g.by # Permits!Seed /\ k.by # Permits!Seed => g.by = k.by
      /\ \A g \in grants[Admin] :
           g.by # Permits!Seed => Permits!Grant(Manage, g.by) \in grants[Admin]
  BY DEF PermitInv, Permits!AdminRoleIsOneRequest, Permits!PermsOf
<1>3. Admin \in Roles /\ Manage \in Perms
  BY RolesAssumption DEF RolesAssumption
<1>4. \A p, n : Permits!Grant(p, n).perm = p /\ Permits!Grant(p, n).by = n
  BY DEF Permits!Grant
<1>5. \A c \in InFlight : Replacement(Asked(c))
  BY DEF PermitInv
<1>6. \A c, e \in InFlight : /\ c # e => Asked(c).by # Asked(e).by
                             /\ \A k \in Asked(c).seen : k.by # Asked(e).by
  BY DEF PermitInv
<1>7. Permits!Seed = 0
  BY DEF Permits!Seed
<1>8. CASE Permits!Start
  <2> DEFINE new(r) == {Permits!Grant(p, 0) : p \in {q \in Perms \ catalog : r \in Defaults[q]}}
  <2>1. /\ grants' = [r \in Roles |-> grants[r] \union new(r)]
        /\ catalog' = Perms /\ changes' = changes + 1 /\ changes' \in 0..MaxReplacements
        /\ UNCHANGED change
    BY <1>1, <1>7, <1>8 DEF Permits!Start
  <2>2. \A r \in Roles : \A g \in new(r) :
          g.by = 0 /\ g.perm \in Perms \ catalog /\ g = Permits!Grant(g.perm, 0)
    BY <1>4
  <2> HIDE DEF new
  <2>3. Rows(changes) \subseteq Rows(changes)'
    BY <1>1, <2>1 DEF Rows
  <2>4. \A r \in Roles : new(r) \subseteq Rows(changes)'
                         /\ new(r) \subseteq [perm : Perms, by : 0..MaxReplacements]
    BY <1>1, <2>1, <2>2 DEF Rows, Permits!Grant
  <2>5. \A r \in Roles : grants'[r] \subseteq Rows(changes)'
    BY <1>1, <2>1, <2>3, <2>4
  <2>6. \A r \in Roles : \A g, k \in grants'[r] : g.perm = k.perm => g = k
    <3>1. \A r \in Roles : \A g \in grants[r] : g.perm \in catalog
      BY <1>1 DEF Rows
    <3>2. QED
      BY <1>1, <2>1, <2>2, <3>1
  <2>7. grants' \in [Roles -> SUBSET [perm : Perms, by : 0..MaxReplacements]]
    BY <1>1, <2>1, <2>4
  <2>8. Permits!TypeOK'
    BY <2>1, <2>6, <2>7 DEF Permits!TypeOK
  <2>9. \A g \in grants'[Admin] : g \in grants[Admin] \/ g.by = Permits!Seed
    BY <1>3, <1>7, <2>1, <2>2
  <2>10. grants[Admin] \subseteq grants'[Admin]
    BY <1>3, <2>1
  <2>11. Permits!AdminRoleIsOneRequest'
    BY <1>2, <2>9, <2>10 DEF Permits!AdminRoleIsOneRequest, Permits!PermsOf
  <2>12. \A g \in grants'[Admin] :
           g.by # Permits!Seed => Permits!Grant(Manage, g.by) \in grants'[Admin]
    BY <1>2, <2>9, <2>10
  <2>13. InFlight' = InFlight /\ \A c \in InFlight : Asked(c)' = Asked(c)
    BY <2>1 DEF InFlight, Asked
  <2>14. ASSUME NEW c \in InFlight
         PROVE  Replacement(Asked(c))'
    <3> DEFINE d == Asked(c)
    <3>1. Replacement(d)
      BY <1>5
    <3>2. d.by # 0 /\ d.by \in 1..changes' /\ d.requested \subseteq catalog'
      BY <1>1, <2>1, <3>1 DEF Replacement
    <3>3. \A r \in Roles : \A g \in grants'[r] : g \in grants[r] \/ g.by = 0
      BY <2>1, <2>2
    <3>4. d' = d
      BY <2>13
    <3> HIDE DEF d
    <3>5. d.seen \subseteq Rows(changes)'
      BY <2>3, <3>1 DEF Replacement
    <3>6. Replacement(d)'
      BY <1>7, <3>1, <3>2, <3>3, <3>4, <3>5 DEF Replacement
    <3>7. QED
      BY <3>6 DEF d
  <2>15. QED
    BY <1>1, <1>6, <2>1, <2>5, <2>8, <2>11, <2>12, <2>13, <2>14 DEF PermitInv
<1>9. ASSUME NEW c \in Clients, NEW r \in Roles, NEW requested \in SUBSET Perms,
             Permits!Replace(c, r, requested)
      PROVE  PermitInv'
  <2>0. PICK d : d = [role |-> r, requested |-> requested, seen |-> grants[r], by |-> changes + 1]
    OBVIOUS
  <2>1. /\ change[c] = <<>> /\ change' = [change EXCEPT ![c] = <<d>>]
        /\ r = Admin => Manage \in requested
        /\ requested \subseteq catalog
        /\ changes' = changes + 1 /\ changes' \in 0..MaxReplacements
        /\ UNCHANGED <<catalog, grants>>
    BY <1>1, <1>9, <2>0 DEF Permits!Replace, Permits!Allowed
  <2>2. /\ d.role = r /\ d.requested = requested /\ d.seen = grants[r] /\ d.by = changes + 1
        /\ <<d>> # <<>> /\ <<d>>[1] = d
    BY <2>0
  <2>3. Rows(changes) \subseteq Rows(changes)'
    BY <1>1, <2>1 DEF Rows
  <2>4. \A g \in Rows(changes) : g.by # changes + 1
    BY <1>1 DEF Rows
  <2>5. /\ InFlight' = InFlight \union {c} /\ c \notin InFlight /\ Asked(c)' = d
        /\ \A e \in InFlight : Asked(e)' = Asked(e)
    BY <1>1, <2>1, <2>2 DEF InFlight, Asked
  <2>6. Replacement(d)'
    BY <1>1, <2>1, <2>2, <2>3, <2>4 DEF Replacement
  <2>7. \A e \in InFlight : Replacement(Asked(e))'
    BY <1>1, <1>5, <2>1, <2>3, <2>5 DEF Replacement
  <2>8. \A e \in InFlight :
          /\ Asked(e).by # d.by
          /\ \A k \in Asked(e).seen : k.by # d.by
          /\ \A k \in d.seen : k.by # Asked(e).by
          /\ \A k \in d.seen : k.by # d.by
    BY <1>1, <1>5, <2>2, <2>4 DEF Replacement
  <2>9. \A k \in d.seen : k.by # d.by
    BY <1>1, <2>2, <2>4
  <2>10. DOMAIN change' = Clients
    BY <1>1, <2>1
  <2>11. \A e, f \in InFlight' :
           /\ e # f => Asked(e)'.by # Asked(f)'.by
           /\ \A k \in Asked(e)'.seen : k.by # Asked(f)'.by
    BY <1>6, <2>5, <2>8, <2>9
  <2>12. \A e \in InFlight' : Replacement(Asked(e))'
    <3>1. Replacement(Asked(c))'
      BY <2>5, <2>6 DEF Replacement
    <3>2. QED
      BY <2>5, <2>7, <3>1
  <2>13. Permits!TypeOK' /\ Permits!AdminRoleIsOneRequest'
    BY <2>1 DEF PermitInv, Permits!TypeOK, Permits!AdminRoleIsOneRequest, Permits!PermsOf
  <2>14. \A q \in Roles : grants'[q] \subseteq Rows(changes)'
    BY <1>1, <2>1, <2>3
  <2>15. QED
    BY <1>2, <2>1, <2>10, <2>11, <2>12, <2>13, <2>14 DEF PermitInv
<1>10. ASSUME NEW c \in Clients, Permits!Commit(c)
       PROVE  PermitInv'
  <2>1. PICK d : d = change[c][1]
    OBVIOUS
  <2> DEFINE left == grants[d.role] \ d.seen
             mine == {Permits!Grant(p, d.by) : p \in d.requested \ Permits!PermsOf(left)}
  <2>2. c \in InFlight /\ Asked(c) = d /\ Replacement(d)
    BY <1>5, <1>10, <2>1 DEF Permits!Commit, InFlight, Asked
  <2>3. /\ change' = [change EXCEPT ![c] = <<>>] /\ UNCHANGED <<catalog, changes>>
        /\ grants' = IF Permits!Insertable(left, d.requested)
                       THEN [grants EXCEPT ![d.role] = left \union mine] ELSE grants
    BY <1>10, <2>1 DEF Permits!Commit, Permits!Inserted
  <2>4. /\ InFlight' = InFlight \ {c} /\ DOMAIN change' = Clients
        /\ \A e \in InFlight' : e \in InFlight /\ Asked(e)' = Asked(e)
    BY <1>1, <2>2, <2>3 DEF InFlight, Asked
  <2>5. \A e, f \in InFlight' :
           /\ e # f => Asked(e)'.by # Asked(f)'.by
           /\ \A k \in Asked(e)'.seen : k.by # Asked(f)'.by
    BY <1>6, <2>4
  <2>6. Rows(changes)' = Rows(changes)
    BY <2>3 DEF Rows
  <2>7. CASE ~Permits!Insertable(left, d.requested)
    <3>1. UNCHANGED <<grants, catalog, changes>>
      BY <2>3, <2>7
    <3>2. \A e \in InFlight' : Replacement(Asked(e))'
      BY <1>5, <2>4, <2>6, <3>1 DEF Replacement
    <3>3. Permits!TypeOK' /\ Permits!AdminRoleIsOneRequest'
      BY <3>1 DEF PermitInv, Permits!TypeOK, Permits!AdminRoleIsOneRequest, Permits!PermsOf
    <3>4. QED
      BY <1>1, <1>2, <2>4, <2>5, <2>6, <3>1, <3>2, <3>3 DEF PermitInv
  <2>8. CASE Permits!Insertable(left, d.requested)
    <3>1. /\ d.role \in Roles /\ d.requested \subseteq catalog /\ d.by \in 1..changes
          /\ d.role = Admin => Manage \in d.requested
          /\ \A r \in Roles : \A g \in grants[r] : g.by # d.by
          /\ \A g \in grants[d.role], k \in d.seen :
               k.by = g.by /\ g.by # Permits!Seed => g \in d.seen
      BY <2>2 DEF Replacement
    <3>2. mine = {Permits!Grant(p, d.by) : p \in d.requested}
      BY <2>8 DEF Permits!Insertable
    <3>3. \A g \in left : g.perm \notin d.requested
      BY <2>8 DEF Permits!Insertable, Permits!PermsOf
    <3> HIDE DEF left, mine
    <3>4. \A g \in mine : g.by = d.by /\ g.perm \in d.requested /\ g = Permits!Grant(g.perm, d.by)
      BY <1>4, <3>2
    <3>5. /\ grants' = [grants EXCEPT ![d.role] = left \union mine]
          /\ left \subseteq grants[d.role]
      BY <2>3, <2>8 DEF left
    <3>6. mine \subseteq Rows(changes) /\ mine \subseteq [perm : Perms, by : 0..MaxReplacements]
      BY <1>1, <3>1, <3>4 DEF Rows, Permits!Grant
    <3>7. \A r \in Roles : \A g \in grants'[r] : g \in grants[r] \/ g \in mine
      BY <1>1, <3>1, <3>5
    <3>8. \A r \in Roles : grants'[r] \subseteq Rows(changes)'
      BY <1>1, <2>6, <3>6, <3>7
    <3>9. Permits!TypeOK'
      <4>1. grants' \in [Roles -> SUBSET [perm : Perms, by : 0..MaxReplacements]]
        BY <1>1, <3>1, <3>5, <3>6
      <4>2. \A r \in Roles : \A g, k \in grants'[r] : g.perm = k.perm => g = k
        BY <1>1, <3>1, <3>3, <3>4, <3>5
      <4>3. QED
        BY <1>1, <2>3, <4>1, <4>2 DEF Permits!TypeOK
    <3>10. \A e \in InFlight' : Replacement(Asked(e))'
      <4>1. ASSUME NEW e \in InFlight'
            PROVE  Replacement(Asked(e))'
        <5>1. PICK x : x = Asked(e)
          OBVIOUS
        <5>2. Replacement(x) /\ Asked(e)' = x /\ e \in InFlight /\ e # c
          BY <1>5, <2>4, <5>1
        <5>3. x.by # d.by /\ \A k \in x.seen : k.by # d.by
          BY <1>6, <2>2, <5>1, <5>2
        <5>4. \A r \in Roles : \A g \in grants'[r] : g.by # x.by
          BY <3>4, <3>7, <5>2, <5>3 DEF Replacement
        <5>5. \A g \in grants'[x.role], k \in x.seen :
                k.by = g.by /\ g.by # Permits!Seed => g \in x.seen
          BY <3>4, <3>7, <5>2, <5>3 DEF Replacement
        <5>6. QED
          BY <2>3, <2>6, <5>2, <5>4, <5>5 DEF Replacement
      <4>2. QED
        BY <4>1
    <3>11. /\ Permits!AdminRoleIsOneRequest'
           /\ \A g \in grants'[Admin] :
                g.by # Permits!Seed => Permits!Grant(Manage, g.by) \in grants'[Admin]
      <4>1. CASE d.role # Admin
        <5>1. grants'[Admin] = grants[Admin]
          BY <1>1, <1>3, <3>5, <4>1
        <5>2. QED
          BY <1>2, <5>1 DEF Permits!AdminRoleIsOneRequest, Permits!PermsOf
      <4>2. CASE d.role = Admin
        <5>1. grants'[Admin] = left \union mine
          BY <1>1, <3>1, <3>5, <4>2
        <5>2. Permits!Grant(Manage, d.by) \in mine
          BY <3>1, <3>2, <4>2
        <5>3. ASSUME NEW g \in left, g.by # Permits!Seed
              PROVE  FALSE
          <6> DEFINE m == Permits!Grant(Manage, g.by)
          <6>1. m \in grants[Admin] /\ m.perm = Manage /\ m.by = g.by
            BY <1>2, <1>4, <3>5, <4>2, <5>3
          <6>2. m \notin left
            BY <3>1, <3>3, <4>2, <6>1
          <6>3. m \in d.seen
            BY <4>2, <6>1, <6>2 DEF left
          <6>4. g \in d.seen
            BY <3>1, <3>5, <5>3, <6>1, <6>3
          <6>5. QED
            BY <5>3, <6>4 DEF left
        <5>4. \A g \in grants'[Admin] : g.by # Permits!Seed => g.by = d.by
          BY <3>4, <5>1, <5>3
        <5>5. \E g \in grants'[Admin] : g.perm = Manage
          BY <1>4, <5>1, <5>2
        <5>6. Permits!AdminRoleIsOneRequest'
          BY <5>4, <5>5 DEF Permits!AdminRoleIsOneRequest, Permits!PermsOf
        <5>7. QED
          BY <5>1, <5>2, <5>4, <5>6
      <4>3. QED
        BY <4>1, <4>2
    <3>12. QED
      BY <2>4, <2>5, <3>8, <3>9, <3>10, <3>11 DEF PermitInv
  <2>9. QED
    BY <2>7, <2>8
<1>11. CASE UNCHANGED roleVars
  BY <1>11
     DEF roleVars, PermitInv, Permits!TypeOK, Permits!AdminRoleIsOneRequest, Permits!PermsOf,
         Replacement, InFlight, Asked, Rows
<1>12. QED
  BY <1>8, <1>9, <1>10, <1>11 DEF Permits!Next

LEMMA PermitInvariant == Spec => []PermitInv
<1>1. Init => PermitInv
  BY PermitInit DEF Init
<1>2. PermitInv /\ [Next]_vars => PermitInv'
  BY PermitKept, ComponentSteps
<1>3. QED
  BY <1>1, <1>2, PTL DEF Spec

-----------------------------------------------------------------------------
\* The counters that slow down sign-in

LEMMA ThrottleCardinality == \A S : Throttle!Cardinality(S) = Cardinality(S)
BY Zenon DEF Throttle!Cardinality, Cardinality

\* The window that ends at t.
Windowed(t) == {y \in 0..t : y > t - Window}

LEMMA WithinUnits == \A s, t : Throttle!Within(s, t) = Cardinality(Units(Windowed(t), failed[s]))
BY ThrottleCardinality DEF Throttle!Within, Units, UnitsOf, Windowed

\* What is counted has failed since the counter was started.
CountEarned(s, r) ==
  r.started \in 0..clock /\ r.count <= Cardinality(Units(r.started..clock, failed[s]))

LockEarned(s, r) ==
  r.until > 0 => \E t \in 0..clock : /\ Throttle!Within(s, t) >= Throttle!Threshold(s)
                                     /\ r.until <= t + LockMax

CounterRow == [count : Nat, started : 0..MaxLoginTime, until : Nat]

AttemptSound(x) ==
  /\ x.at \in {"idle", "check", "try", "fail"}
  /\ x.at # "idle" => x.user \in People /\ x.host \in Hosts

AttemptsSound == DOMAIN attempt = Clients /\ \A c \in Clients : AttemptSound(attempt[c])

ThrottleInv ==
  /\ Throttle!TypeOK
  /\ AttemptsSound
  /\ \A s \in DOMAIN counter : CountEarned(s, counter[s]) /\ LockEarned(s, counter[s])

LEMMA ThrottleInit == Throttle!Init => ThrottleInv
<1> SUFFICES ASSUME Throttle!Init
             PROVE  ThrottleInv
  OBVIOUS
<1>1. /\ DOMAIN counter = {} /\ clock = 0 /\ attempts = 0 /\ DOMAIN attempt = Clients
      /\ \A c \in Clients : attempt[c].at = "idle"
      /\ failed \in [Throttle!Scopes -> [0..MaxLoginTime -> Nat]]
  BY DEF Throttle!Init, Throttle!Idle
<1>2. QED
  BY <1>1, ThrottleAssumption
     DEF ThrottleAssumption, ThrottleInv, Throttle!TypeOK, AttemptsSound, AttemptSound

LEMMA Attempted ==
  ASSUME ThrottleInv, NEW c, NEW x, attempt' = [attempt EXCEPT ![c] = x], AttemptSound(x)
  PROVE  AttemptsSound'
<1>1. DOMAIN attempt' = Clients /\ \A d \in Clients : attempt'[d] = attempt[d] \/ attempt'[d] = x
  BY DEF ThrottleInv, AttemptsSound
<1>2. \A d \in Clients : AttemptSound(attempt[d])'
  BY <1>1 DEF ThrottleInv, AttemptsSound, AttemptSound
<1>3. QED
  BY <1>1, <1>2 DEF AttemptsSound

\* Steps that count no failure: rows go, time passes, sign-ins go on.
LEMMA ThrottleQuiet ==
  ASSUME ThrottleInv, failed' = failed, clock' \in 0..MaxLoginTime, clock <= clock',
         attempts' \in 0..MaxAttempts,
         DOMAIN counter' \subseteq DOMAIN counter,
         \A s \in DOMAIN counter' : counter'[s] = counter[s],
         AttemptsSound'
  PROVE  ThrottleInv'
<1> USE ThrottleAssumption DEF ThrottleAssumption
<1>1. /\ \A s \in DOMAIN counter : counter[s] \in CounterRow /\ s \in Throttle!Scopes
      /\ failed \in [Throttle!Scopes -> [0..MaxLoginTime -> Nat]]
      /\ clock \in 0..MaxLoginTime
  BY DEF ThrottleInv, Throttle!TypeOK, CounterRow
<1>3. \A s, t : Throttle!Within(s, t)' = Throttle!Within(s, t)
  BY DEF Throttle!Within
<1>4. ASSUME NEW s \in DOMAIN counter'
      PROVE  CountEarned(s, counter[s])' /\ LockEarned(s, counter[s])'
  <2> DEFINE r == counter[s]
  <2>1. /\ r \in CounterRow /\ CountEarned(s, r) /\ LockEarned(s, r) /\ r' = r
        /\ failed[s] \in [0..MaxLoginTime -> Nat]
    BY <1>1, <1>4 DEF ThrottleInv
  <2>2. LockEarned(s, r)'
    BY <1>1, <1>3, <2>1 DEF LockEarned, CounterRow
  <2> DEFINE A == r.started..clock
             B == r.started..clock'
  <2>3. A \subseteq B /\ IsFiniteSet(B) /\ B \subseteq 0..MaxLoginTime /\ IsFiniteSet(A)
        /\ A \subseteq 0..MaxLoginTime
    <3>1. r.started \in 0..MaxLoginTime /\ r.started <= clock
      BY <2>1 DEF CounterRow, CountEarned
    <3> HIDE DEF r
    <3>2. A \subseteq B
      BY <1>1, <3>1
    <3>3. QED
      BY <1>1, <3>1, <3>2, SubInterval
  <2>4. Cardinality(Units(A, failed[s])) <= Cardinality(Units(B, failed[s]))
    <3> HIDE DEF A, B
    <3>1. /\ \A y \in B : failed[s][y] \in Nat
          /\ \A y \in A : failed[s][y] \in Nat /\ failed[s][y] <= failed[s][y]
      BY <2>1, <2>3
    <3>2. QED
      BY <2>3, <3>1, UnitsGrow
  <2>5. Cardinality(Units(A, failed[s])) \in Nat /\ Cardinality(Units(B, failed[s])) \in Nat
    <3> HIDE DEF A, B
    <3>1. QED
      BY <2>1, <2>3, UnitsFinite
  <2>6. r.count \in Nat /\ r.started \in Nat /\ r.started <= clock
        /\ r.count <= Cardinality(Units(A, failed[s]))
    BY <2>1 DEF CounterRow, CountEarned
  <2>7. r.started \in 0..clock' /\ r.count <= Cardinality(Units(B, failed[s]))
    <3> HIDE DEF A, B, r
    <3>1. QED
      BY <1>1, <2>4, <2>5, <2>6
  <2>8. CountEarned(s, r)'
    BY <2>1, <2>7 DEF CountEarned
  <2>9. QED
    BY <2>2, <2>8
<1>5. Throttle!TypeOK'
  BY <1>1 DEF ThrottleInv, Throttle!TypeOK, AttemptsSound, AttemptSound
<1>6. QED
  BY <1>4, <1>5 DEF ThrottleInv

LEMMA LockBounded ==
  ASSUME NEW n \in Nat
  PROVE  Throttle!LockTicks(n) \in Nat /\ Throttle!LockTicks(n) <= LockMax
<1>1. 2^n \in Nat /\ LockBase \in Nat /\ LockMax \in Nat
  BY PowersOfTwo, ThrottleAssumption DEF ThrottleAssumption
<1>2. LockBase * 2^n \in Nat
  BY <1>1
<1>3. QED
  BY <1>1, <1>2 DEF Throttle!LockTicks, Throttle!Min2

\* A failure more is counted, and locks only after the threshold.
LEMMA FailureCounted ==
  ASSUME ThrottleInv, NEW s \in Throttle!Scopes,
         NEW g, g[clock] = failed[s][clock] + 1,
         \A y \in 0..MaxLoginTime : y # clock => g[y] = failed[s][y],
         NEW r, r = Throttle!Counted(s)
  PROVE  /\ r \in CounterRow
         /\ r.started \in 0..clock /\ r.count <= Cardinality(Units(r.started..clock, g))
         /\ r.until > 0 => \E t \in 0..clock :
              /\ Cardinality(Units(Windowed(t), g)) >= Throttle!Threshold(s)
              /\ r.until <= t + LockMax
<1> USE ThrottleAssumption DEF ThrottleAssumption
<1> DEFINE f == failed[s]
           o == Throttle!Fresh(s)
           n == o.count + 1
           A == o.started..clock
           k == Throttle!Threshold(s)
<1>1. /\ f \in [0..MaxLoginTime -> Nat] /\ clock \in 0..MaxLoginTime
      /\ \A q \in DOMAIN counter : counter[q] \in CounterRow
      /\ k \in Nat
  BY DEF ThrottleInv, Throttle!TypeOK, CounterRow, Throttle!Threshold
<1>2. /\ \A y \in 0..MaxLoginTime : g[y] \in Nat
      /\ g[clock] = f[clock] + 1
      /\ \A y \in 0..MaxLoginTime \ {clock} : g[y] = f[y]
      /\ \A y \in 0..MaxLoginTime : f[y] <= g[y]
  <2>1. g[clock] = f[clock] + 1 /\ f[clock] \in Nat
    BY <1>1
  <2>2. \A y \in 0..MaxLoginTime : y # clock => g[y] = f[y] /\ f[y] \in Nat
    BY <1>1
  <2>3. QED
    BY <2>1, <2>2
<1>3. /\ o \in CounterRow /\ o.started \in 0..clock /\ o.started > clock - Window
      /\ o.count <= Cardinality(Units(A, f))
      /\ o.until > 0 => \E t \in 0..clock : /\ Cardinality(Units(Windowed(t), f)) >= k
                                             /\ o.until <= t + LockMax
  <2>1. CASE s \in DOMAIN counter /\ ~Throttle!Stale(s)
    <3>1. o = counter[s] /\ CountEarned(s, counter[s]) /\ LockEarned(s, counter[s])
      BY <2>1 DEF Throttle!Fresh, ThrottleInv
    <3>2. o \in CounterRow /\ ~(clock - o.started >= Window)
      BY <1>1, <2>1, <3>1 DEF Throttle!Stale
    <3>3. QED
      BY <1>1, <3>1, <3>2, WithinUnits DEF CountEarned, LockEarned, CounterRow
  <2>2. CASE ~(s \in DOMAIN counter /\ ~Throttle!Stale(s))
    <3>1. o = [count |-> 0, started |-> clock, until |-> 0]
      BY <2>2 DEF Throttle!Fresh
    <3>2. IsFiniteSet(clock..clock) /\ clock..clock \subseteq 0..MaxLoginTime
      BY <1>1, SubInterval
    <3>3. Cardinality(Units(clock..clock, f)) \in Nat
      BY <1>1, <3>2, UnitsFinite
    <3>4. QED
      BY <1>1, <3>1, <3>3 DEF CounterRow
  <2>3. QED
    BY <2>1, <2>2
<1>4. r = [count |-> n, started |-> o.started,
           until |-> IF n >= k THEN clock + Throttle!LockTicks(n - k) ELSE o.until]
  BY DEF Throttle!Counted
<1> HIDE DEF f, o
<1>5. clock \in A /\ A \subseteq 0..MaxLoginTime /\ IsFiniteSet(A)
  <2>1. o.started \in 0..MaxLoginTime /\ o.started <= clock
    BY <1>1, <1>3 DEF CounterRow
  <2>2. QED
    BY <1>1, <2>1, SubInterval
<1> HIDE DEF A
<1>6. Cardinality(Units(A, g)) = Cardinality(Units(A, f)) + 1 /\ Cardinality(Units(A, f)) \in Nat
  <2>1. /\ \A y \in A : f[y] \in Nat
        /\ \A y \in A \ {clock} : g[y] = f[y]
        /\ g[clock] = f[clock] + 1
    BY <1>1, <1>2, <1>5
  <2>2. clock \in A /\ IsFiniteSet(A)
    BY <1>5
  <2>3. g[clock] \in Nat /\ f[clock] \in Nat
    BY <2>1, <2>2
  <2> HIDE DEF k, n
  <2>4. /\ Cardinality(Units(A, g)) = Cardinality(Units(A, f)) + g[clock] - f[clock]
        /\ Cardinality(Units(A, f)) \in Nat
    BY <2>1, <2>2, <2>3, UnitsRaised
  <2>5. QED
    BY <2>1, <2>3, <2>4
<1>7. o.count \in Nat /\ o.until \in Nat /\ o.started \in 0..MaxLoginTime
      /\ n \in Nat /\ n <= Cardinality(Units(A, g))
  BY <1>3, <1>6 DEF CounterRow
<1> HIDE DEF n, k
<1>8. n >= k => Throttle!LockTicks(n - k) \in Nat /\ Throttle!LockTicks(n - k) <= LockMax
  <2>1. n >= k => n - k \in Nat
    BY <1>1, <1>7 DEF k
  <2>2. QED
    BY <2>1, LockBounded
<1>9. k \in Nat /\ clock \in Nat
  BY <1>1 DEF k
<1>10. r \in CounterRow /\ r.started = o.started /\ r.count = n
  BY <1>4, <1>7, <1>8, <1>9 DEF CounterRow
<1>11. \A t \in 0..clock : /\ IsFiniteSet(Windowed(t)) /\ Windowed(t) \subseteq 0..MaxLoginTime
                           /\ Cardinality(Units(Windowed(t), f)) \in Nat
                           /\ Cardinality(Units(Windowed(t), g)) \in Nat
                           /\ Cardinality(Units(Windowed(t), f)) <= Cardinality(Units(Windowed(t), g))
  <2> TAKE t \in 0..clock
  <2>1. IsFiniteSet(0..t) /\ Windowed(t) \subseteq 0..t
    <3>1. t \in Int /\ 0 \in Int
      BY <1>9
    <3>2. Windowed(t) \subseteq 0..t
      BY DEF Windowed
    <3>3. QED
      BY <3>1, <3>2, FS_Interval
  <2>2. IsFiniteSet(Windowed(t)) /\ Windowed(t) \subseteq 0..MaxLoginTime
    <3>1. 0..t \subseteq 0..MaxLoginTime
      BY <1>1
    <3>2. QED
      BY <2>1, <3>1, FS_Subset
  <2>3. /\ \A y \in Windowed(t) : f[y] \in Nat /\ f[y] <= g[y]
        /\ \A y \in Windowed(t) : g[y] \in Nat
    BY <1>1, <1>2, <2>2 DEF f
  <2>4. QED
    BY <2>2, <2>3, UnitsGrow, UnitsFinite
<1>12. ASSUME n >= k
       PROVE  /\ Cardinality(Units(Windowed(clock), g)) >= k
              /\ r.until <= clock + LockMax
  <2>1. A \subseteq Windowed(clock)
    BY <1>3, <1>9 DEF A, Windowed
  <2>2. /\ IsFiniteSet(Windowed(clock)) /\ Cardinality(Units(Windowed(clock), g)) \in Nat
        /\ \A y \in Windowed(clock) : g[y] \in Nat
    BY <1>2, <1>9, <1>11
  <2>3. \A y \in A : g[y] \in Nat /\ g[y] <= g[y]
    BY <2>1, <2>2
  <2>4. Cardinality(Units(A, g)) <= Cardinality(Units(Windowed(clock), g))
    BY <2>1, <2>2, <2>3, UnitsGrow
  <2>5. r.until = clock + Throttle!LockTicks(n - k)
    BY <1>4, <1>12
  <2>6. QED
    BY <1>6, <1>7, <1>8, <1>9, <1>12, <2>2, <2>4, <2>5
<1>13. ASSUME ~(n >= k), r.until > 0
       PROVE  \E t \in 0..clock : /\ Cardinality(Units(Windowed(t), g)) >= k
                                  /\ r.until <= t + LockMax
  <2>1. r.until = o.until
    BY <1>4, <1>13
  <2>2. PICK t \in 0..clock : Cardinality(Units(Windowed(t), f)) >= k /\ o.until <= t + LockMax
    BY <1>3, <1>13, <2>1 DEF k
  <2>3. Cardinality(Units(Windowed(t), g)) >= k
    BY <1>9, <1>11, <2>2
  <2>4. QED
    BY <2>1, <2>2, <2>3
<1>14. clock \in 0..clock
  BY <1>9
<1>15. r.until > 0 => \E t \in 0..clock : /\ Cardinality(Units(Windowed(t), g)) >= k
                                          /\ r.until <= t + LockMax
  BY <1>12, <1>13, <1>14
<1>16. QED
  BY <1>3, <1>7, <1>10, <1>15 DEF A, k

LEMMA FailureWritten ==
  ASSUME ThrottleInv, NEW s \in Throttle!Scopes,
         failed'[s] = [failed[s] EXCEPT ![clock] = @ + 1],
         NEW r, r = Throttle!Counted(s)
  PROVE  /\ r \in CounterRow
         /\ r.started \in 0..clock /\ r.count <= Cardinality(Units(r.started..clock, failed'[s]))
         /\ r.until > 0 => \E t \in 0..clock :
              /\ Cardinality(Units(Windowed(t), failed'[s])) >= Throttle!Threshold(s)
              /\ r.until <= t + LockMax
<1>1. PICK h : h = failed'[s]
  OBVIOUS
<1>2. /\ failed \in [Throttle!Scopes -> [0..MaxLoginTime -> Nat]]
      /\ clock \in 0..MaxLoginTime
  BY DEF ThrottleInv, Throttle!TypeOK
<1>3. h[clock] = failed[s][clock] + 1
  BY <1>1, <1>2
<1>4. \A y \in 0..MaxLoginTime : y # clock => h[y] = failed[s][y]
  BY <1>1, <1>2
<1>5. /\ r \in CounterRow
      /\ r.started \in 0..clock /\ r.count <= Cardinality(Units(r.started..clock, h))
      /\ r.until > 0 => \E t \in 0..clock :
           /\ Cardinality(Units(Windowed(t), h)) >= Throttle!Threshold(s)
           /\ r.until <= t + LockMax
  BY <1>3, <1>4, FailureCounted
<1>6. QED
  BY <1>1, <1>5

LEMMA ThrottleKept == ThrottleInv /\ [Throttle!Next]_throttleVars => ThrottleInv'
<1> SUFFICES ASSUME ThrottleInv, [Throttle!Next]_throttleVars
             PROVE  ThrottleInv'
  OBVIOUS
<1> USE ThrottleAssumption DEF ThrottleAssumption
<1>1. /\ \A s \in DOMAIN counter : counter[s] \in CounterRow
      /\ DOMAIN counter \subseteq Throttle!Scopes
      /\ failed \in [Throttle!Scopes -> [0..MaxLoginTime -> Nat]]
      /\ clock \in 0..MaxLoginTime /\ attempts \in 0..MaxAttempts /\ DOMAIN attempt = Clients
      /\ \A c \in Clients : attempt[c].at # "idle" => attempt[c].user \in People
                                                      /\ attempt[c].host \in Hosts
  BY DEF ThrottleInv, Throttle!TypeOK, CounterRow, AttemptsSound, AttemptSound
<1>2. clock <= clock
  BY <1>1
<1>3. AttemptSound(Throttle!Idle)
  BY DEF AttemptSound, Throttle!Idle
<1>4. \A S : S \subseteq DOMAIN counter =>
        DOMAIN Throttle!Keep(S) = S /\ \A s \in S : Throttle!Keep(S)[s] = counter[s]
  BY DEF Throttle!Keep
<1>5. CASE Throttle!Tick
  <2>1. clock' \in 0..MaxLoginTime /\ clock <= clock' /\ UNCHANGED <<counter, attempt, failed, attempts>>
    BY <1>1, <1>5 DEF Throttle!Tick
  <2>2. AttemptsSound'
    BY <2>1 DEF ThrottleInv, AttemptsSound, AttemptSound
  <2>3. attempts' \in 0..MaxAttempts /\ failed' = failed
    BY <1>1, <2>1
  <2>4. DOMAIN counter' \subseteq DOMAIN counter
        /\ \A s \in DOMAIN counter' : counter'[s] = counter[s]
    BY <2>1
  <2>5. QED
    BY <2>1, <2>2, <2>3, <2>4, ThrottleQuiet
<1>6. ASSUME NEW c \in Clients, NEW u \in People, NEW h \in Hosts, Throttle!Check(c, u, h)
      PROVE  ThrottleInv'
  <2> DEFINE x == [at |-> "check", user |-> u, host |-> h,
                   stale |-> {s \in Throttle!ScopesOf(u, h) : Throttle!Stale(s)},
                   blocked |-> \E s \in Throttle!ScopesOf(u, h) : Throttle!Blocked(s)]
  <2>1. attempts' \in 0..MaxAttempts
    BY <1>1, <1>6 DEF Throttle!Check
  <2>2. attempt' = [attempt EXCEPT ![c] = x] /\ UNCHANGED <<counter, clock, failed>>
    BY <1>6 DEF Throttle!Check
  <2>3. AttemptSound(x)
    BY DEF AttemptSound
  <2> HIDE DEF x
  <2>4. QED
    BY <1>1, <1>2, <2>1, <2>2, <2>3, Attempted, ThrottleQuiet
<1>7. ASSUME NEW c \in Clients, Throttle!Checked(c)
      PROVE  ThrottleInv'
  <2> DEFINE x == IF attempt[c].blocked THEN Throttle!Idle
                  ELSE [at |-> "try", user |-> attempt[c].user, host |-> attempt[c].host]
  <2>1. attempt' = [attempt EXCEPT ![c] = x] /\ UNCHANGED <<clock, failed, attempts>>
        /\ DOMAIN counter' \subseteq DOMAIN counter
        /\ \A s \in DOMAIN counter' : counter'[s] = counter[s]
    BY <1>4, <1>7 DEF Throttle!Checked
  <2>2. AttemptSound(x)
    BY <1>1, <1>3, <1>7 DEF Throttle!Checked, AttemptSound
  <2> HIDE DEF x
  <2>3. QED
    BY <1>1, <1>2, <2>1, <2>2, Attempted, ThrottleQuiet
<1>8. ASSUME NEW c \in Clients, Throttle!Succeed(c)
      PROVE  ThrottleInv'
  <2>1. attempt' = [attempt EXCEPT ![c] = Throttle!Idle] /\ UNCHANGED <<clock, failed, attempts>>
        /\ DOMAIN counter' \subseteq DOMAIN counter
        /\ \A s \in DOMAIN counter' : counter'[s] = counter[s]
    BY <1>4, <1>8 DEF Throttle!Succeed
  <2>2. QED
    BY <1>1, <1>2, <1>3, <2>1, Attempted, ThrottleQuiet
<1>9. ASSUME NEW c \in Clients, Throttle!Fail(c)
      PROVE  ThrottleInv'
  <2> DEFINE x == [at |-> "fail", user |-> attempt[c].user, host |-> attempt[c].host,
                   found |-> Throttle!ScopesOf(attempt[c].user, attempt[c].host)
                               \intersect DOMAIN counter]
  <2>1. attempt' = [attempt EXCEPT ![c] = x] /\ UNCHANGED <<counter, clock, failed, attempts>>
    BY <1>9 DEF Throttle!Fail
  <2>2. AttemptSound(x)
    BY <1>1, <1>9 DEF Throttle!Fail, AttemptSound
  <2> HIDE DEF x
  <2>3. QED
    BY <1>1, <1>2, <2>1, <2>2, Attempted, ThrottleQuiet
<1>10. ASSUME NEW c \in Clients, Throttle!LoseRow(c)
       PROVE  ThrottleInv'
  BY <1>1, <1>2, <1>3, <1>10, Attempted, ThrottleQuiet DEF Throttle!LoseRow
<1>11. ASSUME NEW c \in Clients, Throttle!CommitFailure(c)
       PROVE  ThrottleInv'
  <2> DEFINE Scope == Throttle!ScopesOf(attempt[c].user, attempt[c].host)
  <2>1. Scope \subseteq Throttle!Scopes
    BY <1>1, <1>11 DEF Throttle!CommitFailure, Throttle!Scopes
  <2>2. /\ counter' = [s \in DOMAIN counter \union Scope |->
                         IF s \in Scope THEN Throttle!Counted(s) ELSE counter[s]]
        /\ failed' = [s \in Throttle!Scopes |->
             IF s \in Scope THEN [failed[s] EXCEPT ![clock] = @ + 1] ELSE failed[s]]
        /\ attempt' = [attempt EXCEPT ![c] = Throttle!Idle]
        /\ UNCHANGED <<clock, attempts>>
    BY <1>11 DEF Throttle!CommitFailure
  <2> HIDE DEF Scope
  <2>3. \A s \in Scope : failed'[s] = [failed[s] EXCEPT ![clock] = @ + 1] /\ counter'[s] = Throttle!Counted(s)
    BY <2>1, <2>2
  <2>4. \A s \in Throttle!Scopes \ Scope : failed'[s] = failed[s]
    BY <2>2
  <2>5. \A s \in DOMAIN counter' \ Scope : s \in DOMAIN counter /\ counter'[s] = counter[s]
                                           /\ s \in Throttle!Scopes
    BY <1>1, <2>2
  <2>6. \A s \in Scope :
          /\ counter'[s] \in CounterRow
          /\ CountEarned(s, counter[s])' /\ LockEarned(s, counter[s])'
    <3> TAKE s \in Scope
    <3>1. PICK r : r = Throttle!Counted(s)
      OBVIOUS
    <3>2. /\ r \in CounterRow
          /\ r.started \in 0..clock /\ r.count <= Cardinality(Units(r.started..clock, failed'[s]))
          /\ r.until > 0 => \E t \in 0..clock :
               /\ Cardinality(Units(Windowed(t), failed'[s])) >= Throttle!Threshold(s)
               /\ r.until <= t + LockMax
      <4>1. /\ s \in Throttle!Scopes /\ clock' = clock
            /\ failed'[s] = [failed[s] EXCEPT ![clock] = @ + 1]
        BY <2>1, <2>2, <2>3
      <4>2. QED
        BY <3>1, <4>1, FailureWritten
    <3>3. counter'[s] = r /\ clock' = clock
      BY <2>2, <2>3, <3>1
    <3>4. \A t : Throttle!Within(s, t)' = Cardinality(Units(Windowed(t), failed'[s]))
      BY ThrottleCardinality DEF Throttle!Within, Units, UnitsOf, Windowed
    <3>5. Throttle!Threshold(s)' = Throttle!Threshold(s)
      BY DEF Throttle!Threshold
    <3>6. QED
      BY <3>2, <3>3, <3>4, <3>5 DEF CountEarned, LockEarned
  <2>7. \A s \in DOMAIN counter' \ Scope :
          /\ counter'[s] \in CounterRow
          /\ CountEarned(s, counter[s])' /\ LockEarned(s, counter[s])'
    <3> TAKE s \in DOMAIN counter' \ Scope
    <3>1. /\ counter'[s] = counter[s] /\ failed'[s] = failed[s] /\ clock' = clock
          /\ counter[s] \in CounterRow /\ CountEarned(s, counter[s]) /\ LockEarned(s, counter[s])
      BY <1>1, <2>2, <2>4, <2>5 DEF ThrottleInv
    <3>2. \A t : Throttle!Within(s, t)' = Throttle!Within(s, t)
      BY <3>1 DEF Throttle!Within
    <3>3. QED
      BY <3>1, <3>2 DEF CountEarned, LockEarned, Throttle!Threshold
  <2>8. failed' \in [Throttle!Scopes -> [0..MaxLoginTime -> Nat]]
    BY <1>1, <2>2
  <2>9. DOMAIN counter' \subseteq Throttle!Scopes
    BY <1>1, <2>1, <2>2
  <2>10. AttemptsSound'
    BY <1>3, <2>2, Attempted
  <2>11. Throttle!TypeOK'
    <3>1. \A d \in Clients : attempt'[d].at \in {"idle", "check", "try", "fail"}
      BY <2>10 DEF AttemptsSound, AttemptSound
    <3>2. \A s \in DOMAIN counter' : counter'[s] \in CounterRow
      BY <2>6, <2>7
    <3>3. QED
      BY <1>1, <2>2, <2>8, <2>9, <3>1, <3>2 DEF Throttle!TypeOK, CounterRow
  <2>12. QED
    BY <2>6, <2>7, <2>10, <2>11 DEF ThrottleInv
<1>12. CASE UNCHANGED throttleVars
  <2>1. UNCHANGED <<counter, clock, attempt, failed, attempts>>
    BY <1>12 DEF throttleVars
  <2>2. AttemptsSound'
    BY <2>1 DEF ThrottleInv, AttemptsSound, AttemptSound
  <2>3. QED
    BY <1>1, <1>2, <2>1, <2>2, ThrottleQuiet
<1>13. QED
  BY <1>5, <1>6, <1>7, <1>8, <1>9, <1>10, <1>11, <1>12 DEF Throttle!Next

LEMMA ThrottleInvariant == Spec => []ThrottleInv
<1>1. Init => ThrottleInv
  BY ThrottleInit DEF Init
<1>2. ThrottleInv /\ [Next]_vars => ThrottleInv'
  BY ThrottleKept, ComponentSteps
<1>3. QED
  BY <1>1, <1>2, PTL DEF Spec

(* Tokens have one home, sign-in is locked only for failures of the scope    *)
(* itself within the window and for LockMax at most, and the administrators' *)
(* permissions are those of one request.                                     *)
THEOREM AccessSoundHolds == Spec => []AccessSound
<1>1. ThrottleInv => Throttle!LocksAreEarned
  BY DEF ThrottleInv, LockEarned, Throttle!LocksAreEarned
<1>2. AccountsInv /\ ThrottleInv /\ PermitInv => AccessSound
  BY <1>1 DEF AccessSound, AccountsInv, ThrottleInv, PermitInv
<1>3. QED
  BY <1>2, AccountsInvariant, ThrottleInvariant, PermitInvariant, PTL

\* A finite set of integers has a least member.
LEMMA LowestOf ==
  ASSUME NEW S, S \subseteq Int, IsFiniteSet(S), S # {}
  PROVE  \E m \in S : \A y \in S : m <= y
<1> DEFINE below(m) == {x \in S : x < m}
           F == {below(m) : m \in S}
           R == StrictSubsetOrdering(S)
<1>1. IsWellFoundedOn(R, SUBSET S)
  BY FS_StrictSubsetOrderingWellFounded, FS_FiniteSubsetsOfFinite
<1>2. F \subseteq SUBSET S /\ F # {}
  <2>1. F \subseteq SUBSET S
    OBVIOUS
  <2>2. PICK a \in S : TRUE
    OBVIOUS
  <2>3. below(a) \in F
    OBVIOUS
  <2>4. QED
    BY <2>1, <2>3
<1>3. \E x \in F : \A y \in F : ~(<<y, x>> \in R)
  <2> HIDE DEF F, R
  <2>1. QED
    BY <1>1, <1>2, WFMin
<1>4. PICK m \in S : \A k \in S : ~(<<below(k), below(m)>> \in R)
  BY <1>3
<1>5. ASSUME NEW k \in S, k < m
      PROVE  FALSE
  <2>1. m \in Int /\ k \in Int
    OBVIOUS
  <2>2. \A x \in S : x < k => x < m
    BY <1>5, <2>1
  <2>3. ~(k < k)
    BY <2>1
  <2>4. below(k) \subseteq below(m) /\ k \in below(m) /\ k \notin below(k)
    BY <1>5, <2>2, <2>3
  <2>5. <<below(k), below(m)>> \in R
    BY <2>4 DEF StrictSubsetOrdering
  <2>6. QED
    BY <1>4, <2>5
<1>6. QED
  BY <1>4, <1>5
-----------------------------------------------------------------------------
\* Transfers.
Running == {"claim", "find", "coordinate", "lock"}

MoveJob == [at : Running, held : SUBSET (0..MaxItems), source : 1..MaxItems, to : Warehouses,
            amount : Nat, key : Keys \union {NoKey}, claimed : BOOLEAN,
            locks : SUBSET (1..MaxItems), target : 0..MaxItems]
CreateJob == [at : {"create"}, held : SUBSET (0..MaxItems), to : Warehouses, amount : Nat]

\* Source and target are rows, of other warehouses; a key is claimed while it is
\* not committed; a row is created under the coordinator only.
MoveSound(j) ==
  /\ j.source \in DOMAIN items /\ items[j.source].warehouse # j.to
  /\ j.target # 0 => j.target \in DOMAIN items /\ items[j.target].warehouse = j.to
  /\ j.at = "claim" => j.claimed = FALSE
  /\ j.claimed = TRUE => j.key \in Keys /\ j.key \notin DOMAIN keys
  /\ j.at # "claim" /\ j.key # NoKey => j.claimed = TRUE
  /\ j.at = "lock" /\ j.target = 0 => 0 \in j.held /\ Moves!RowsAt(j.to) = {}

CreateSound(j) == 0 \in j.held /\ Moves!NewItem <= MaxItems

JobSound(j) == \/ j = Moves!Idle
               \/ j \in MoveJob /\ MoveSound(j)
               \/ j \in CreateJob /\ CreateSound(j)

\* What j holds, no other request than c's does.
Alone(c, j) ==
  \A d \in Clients \ {c} :
    /\ 0 \in j.held => 0 \notin job[d].held
    /\ j.at \in Running /\ j.claimed = TRUE /\ job[d].at \in Running /\ job[d].claimed = TRUE
         => j.key # job[d].key

\* The rows are numbered, and a key that has been committed has one answer.
RowsSound ==
  /\ \E n \in 1..MaxItems : DOMAIN items = 1..n
  /\ \A i \in DOMAIN items : items[i] \in [warehouse : Warehouses, stock : Nat]
KeySound(k) ==
  /\ k \notin DOMAIN keys => moved[k] = 0 /\ replies[k] = {}
  /\ k \in DOMAIN keys => moved[k] = 1 /\ replies[k] = {keys[k].stock}
KeysSound ==
  /\ DOMAIN keys \subseteq Keys /\ DOMAIN moved = Keys /\ DOMAIN replies = Keys
  /\ \A k \in Keys : KeySound(k)

Held == Cardinality(Units(DOMAIN items, [i \in DOMAIN items |-> items[i].stock]))

MovesInv ==
  /\ RowsSound /\ KeysSound
  /\ DOMAIN job = Clients
  /\ \A c \in Clients : JobSound(job[c]) /\ Alone(c, job[c])
  /\ created \in Nat /\ calls \in 0..MaxTransfers
  /\ Held = Stock + created

LEMMA MovesCardinality == \A S : Moves!Cardinality(S) = Cardinality(S)
BY Zenon DEF Moves!Cardinality, Cardinality

LEMMA TotalHeld == Moves!Total = Held
<1>1. \A i \in DOMAIN items : [j \in DOMAIN items |-> items[j].stock][i] = items[i].stock
  OBVIOUS
<1>2. UNION {{i} \X (1..items[i].stock) : i \in DOMAIN items}
        = Units(DOMAIN items, [i \in DOMAIN items |-> items[i].stock])
  BY <1>1 DEF Units, UnitsOf
<1>3. QED
  BY <1>2, MovesCardinality DEF Moves!Total, Held

LEMMA RowsCounted ==
  ASSUME RowsSound
  PROVE  /\ IsFiniteSet(DOMAIN items) /\ DOMAIN items \subseteq 1..MaxItems
         /\ Moves!NewItem \in Nat \ {0} /\ Moves!NewItem \notin DOMAIN items
         /\ DOMAIN items \union {Moves!NewItem} = 1..Moves!NewItem
         /\ Moves!NewItem = Cardinality(DOMAIN items) + 1
<1> USE TransfersAssumption DEF TransfersAssumption
<1>1. PICK n \in 1..MaxItems : DOMAIN items = 1..n
  BY DEF RowsSound
<1>2. n \in Nat /\ 1 \in Int /\ n \in Int
  BY <1>1
<1>3. IsFiniteSet(1..n) /\ Cardinality(1..n) = n
  BY <1>2, FS_Interval
<1>4. Moves!NewItem = n + 1
  BY <1>1, <1>3, MovesCardinality DEF Moves!NewItem
<1>5. QED
  BY <1>1, <1>2, <1>3, <1>4

LEMMA MovesImplies == MovesInv => Moves!TypeOK /\ Moves!TransfersExactlyOnce
<1> SUFFICES ASSUME MovesInv
             PROVE  Moves!TypeOK /\ Moves!TransfersExactlyOnce
  OBVIOUS
<1>1. Moves!TypeOK
  <2>1. ASSUME NEW c \in Clients
        PROVE  job[c].at \in Moves!Steps /\ job[c].held \subseteq 0..MaxItems
    BY DEF MovesInv, JobSound, MoveJob, CreateJob, Moves!Idle, Running, Moves!Steps
  <2>2. QED
    BY <2>1, RowsCounted DEF MovesInv, Moves!TypeOK, KeysSound, RowsSound
<1>2. Moves!KeysMoveOnce
  <2> SUFFICES ASSUME NEW k \in Keys
               PROVE  moved[k] <= 1 /\ Moves!Cardinality(replies[k]) <= 1
    BY DEF Moves!KeysMoveOnce
  <2>1. moved[k] \in {0, 1} /\ (replies[k] = {} \/ \E a : replies[k] = {a})
    BY DEF MovesInv, KeysSound, KeySound
  <2>2. Cardinality(replies[k]) \in {0, 1}
    BY <2>1, FS_Singleton, FS_EmptySet
  <2>3. QED
    BY <2>1, <2>2, MovesCardinality
<1>3. Moves!StockIsConserved
  BY TotalHeld DEF MovesInv, Moves!StockIsConserved
<1>4. Moves!NoSplitDestination
  BY DEF MovesInv, JobSound, MoveJob, CreateJob, MoveSound, Moves!Idle, Running,
         Moves!NoSplitDestination
<1>5. QED
  BY <1>1, <1>2, <1>3, <1>4 DEF Moves!TransfersExactlyOnce

LEMMA MovesInit == Moves!Init => MovesInv
<1> SUFFICES ASSUME Moves!Init
             PROVE  MovesInv
  OBVIOUS
<1> USE TransfersAssumption DEF TransfersAssumption, Moves!Init
<1>1. RowsSound
  BY DEF RowsSound
<1>2. KeysSound
  BY DEF KeysSound, KeySound
<1>3. \A c \in Clients : JobSound(job[c]) /\ Alone(c, job[c])
  BY DEF JobSound, Alone, Moves!Idle, Running
<1>4. Held = Stock + created
  <2> DEFINE f == [i \in DOMAIN items |-> items[i].stock]
  <2>1. DOMAIN items = {} \union {1} /\ f[1] = Stock
    OBVIOUS
  <2> HIDE DEF f
  <2>2. Cardinality(Units({}, f)) = 0
    BY FS_EmptySet DEF Units
  <2>3. IsFiniteSet({}) /\ 1 \notin {}
    BY FS_EmptySet
  <2>4. Cardinality(Units({} \union {1}, f)) = Cardinality(Units({}, f)) + f[1]
    BY <2>1, <2>3, UnitsAdded
  <2>5. QED
    BY <2>1, <2>2, <2>4 DEF Held, f
<1>5. QED
  BY <1>1, <1>2, <1>3, <1>4 DEF MovesInv

\* A step of c that leaves rows and keys alone.
LEMMA MovesQuiet ==
  ASSUME MovesInv, NEW c \in Clients, NEW j, job' = [job EXCEPT ![c] = j],
         JobSound(j), Alone(c, j), UNCHANGED <<items, keys, moved, created>>,
         KeysSound', calls' \in 0..MaxTransfers
  PROVE  MovesInv'
<1>1. /\ DOMAIN job' = Clients /\ job'[c] = j
      /\ \A d \in Clients \ {c} : job'[d] = job[d]
  BY DEF MovesInv
<1>2. \A h : JobSound(h) => JobSound(h)'
  BY DEF JobSound, MoveSound, CreateSound, Moves!RowsAt, Moves!NewItem, Moves!Cardinality
<1>3. ASSUME NEW d \in Clients
      PROVE  JobSound(job[d])' /\ Alone(d, job[d])'
  <2>1. CASE d = c
    BY <1>1, <1>2, <2>1 DEF Alone
  <2>2. CASE d # c
    <3>1. job'[d] = job[d] /\ JobSound(job[d]) /\ Alone(d, job[d]) /\ d \in Clients \ {c}
      BY <1>1, <2>2 DEF MovesInv
    <3>2. \A e \in Clients \ {d} : job'[e] = job[e] \/ e = c
      BY <1>1
    <3>3. QED
      BY <1>1, <1>2, <3>1, <3>2 DEF Alone
  <2>3. QED
    BY <2>1, <2>2
<1>4. RowsSound' /\ Held' = Stock + created'
  BY DEF MovesInv, RowsSound, Held
<1>5. created' \in Nat
  BY DEF MovesInv
<1>6. QED
  BY <1>1, <1>3, <1>4, <1>5 DEF MovesInv

LEMMA IdleSound == \A c : JobSound(Moves!Idle) /\ Alone(c, Moves!Idle)
BY DEF JobSound, Alone, Moves!Idle, Running

LEMMA KeysQuiet ==
  ASSUME MovesInv, UNCHANGED <<keys, moved, replies>>
  PROVE  KeysSound'
BY DEF MovesInv, KeysSound, KeySound

\* The oldest row of a warehouse is a row of it, and the lowest lock is a lock.
LEMMA LowestId ==
  ASSUME NEW S, S \subseteq 1..MaxItems, S # {}
  PROVE  Moves!Min(S) \in S
<1>1. MaxItems \in Int /\ 1 \in Int /\ S \subseteq Int
  BY TransfersAssumption DEF TransfersAssumption
<1>2. IsFiniteSet(S)
  BY <1>1, FS_Interval, FS_Subset
<1>3. \E m \in S : \A y \in S : m <= y
  BY <1>1, <1>2, LowestOf
<1>4. QED
  BY <1>3 DEF Moves!Min

LEMMA DestinationSound ==
  ASSUME RowsSound, NEW w
  PROVE  /\ Moves!Destination(w) = 0 => Moves!RowsAt(w) = {}
         /\ Moves!Destination(w) # 0 => Moves!Destination(w) \in DOMAIN items
                                        /\ items[Moves!Destination(w)].warehouse = w
         /\ Moves!Destination(w) \in 0..MaxItems
<1>1. Moves!RowsAt(w) \subseteq DOMAIN items /\ \A i \in Moves!RowsAt(w) : items[i].warehouse = w
  BY DEF Moves!RowsAt
<1>2. CASE Moves!RowsAt(w) = {}
  BY <1>2, TransfersAssumption DEF Moves!Destination, TransfersAssumption
<1>3. CASE Moves!RowsAt(w) # {}
  <2>1. Moves!Destination(w) = Moves!Min(Moves!RowsAt(w))
    BY <1>3 DEF Moves!Destination
  <2>2. Moves!Destination(w) \in Moves!RowsAt(w)
    BY <1>1, <1>3, <2>1, RowsCounted, LowestId
  <2>3. QED
    BY <1>1, <2>2, RowsCounted
<1>4. QED
  BY <1>2, <1>3

\* A step that answers nothing.
LEMMA MovesSilent ==
  ASSUME MovesInv, NEW c \in Clients, NEW j, job' = [job EXCEPT ![c] = j],
         JobSound(j), Alone(c, j), UNCHANGED <<items, keys, moved, replies, created>>,
         calls' \in 0..MaxTransfers
  PROVE  MovesInv'
BY KeysQuiet, MovesQuiet

\* The next step of a running request, under the same key.
LEMMA MovesOn ==
  ASSUME MovesInv, NEW c \in Clients, NEW j, job' = [job EXCEPT ![c] = j],
         job[c] \in MoveJob, j \in MoveJob, MoveSound(j),
         j.key = job[c].key, job[c].claimed = j.claimed,
         0 \in j.held => 0 \in job[c].held \/ \A d \in Clients \ {c} : 0 \notin job[d].held,
         UNCHANGED <<items, keys, moved, replies, created, calls>>
  PROVE  MovesInv'
<1>1. JobSound(j) /\ calls' \in 0..MaxTransfers /\ Alone(c, job[c])
  BY DEF JobSound, MovesInv
<1>2. Alone(c, j)
  BY <1>1 DEF Alone, MoveJob
<1>3. QED
  BY <1>1, <1>2, MovesSilent

LEMMA MovesBegun ==
  ASSUME MovesInv, NEW c \in Clients, NEW i, NEW w \in Warehouses, NEW q \in 1..Stock,
         NEW k \in Keys \union {NoKey}, Moves!Transfer(c, i, w, q, k)
  PROVE  MovesInv'
<1> USE TransfersAssumption DEF TransfersAssumption
<1>1. PICK j : j = [at |-> "claim", held |-> {}, source |-> i, to |-> w, amount |-> q,
                    key |-> k, claimed |-> FALSE, locks |-> {}, target |-> 0]
  OBVIOUS
<1>2. /\ i \in DOMAIN items /\ items[i].warehouse # w
      /\ job' = [job EXCEPT ![c] = j] /\ calls' = calls + 1 /\ calls < MaxTransfers
      /\ UNCHANGED <<items, keys, moved, replies, created>>
  BY <1>1 DEF Moves!Transfer, Moves!Becomes
<1>3. i \in 1..MaxItems /\ q \in Nat
  BY <1>2, RowsCounted DEF MovesInv
<1>4. j \in MoveJob
  BY <1>1, <1>3 DEF MoveJob, Running
<1>5. MoveSound(j) /\ Alone(c, j)
  BY <1>1, <1>2 DEF MoveSound, Alone
<1>6. calls' \in 0..MaxTransfers
  BY <1>2 DEF MovesInv
<1>7. QED
  BY <1>2, <1>4, <1>5, <1>6, MovesSilent DEF JobSound

\* What a request that is not idle is.
LEMMA RunningSound ==
  ASSUME MovesInv, NEW c \in Clients, job[c].at \in Running
  PROVE  job[c] \in MoveJob /\ MoveSound(job[c]) /\ Alone(c, job[c]) /\ calls \in 0..MaxTransfers
BY DEF MovesInv, JobSound, CreateJob, Moves!Idle, Running

LEMMA MovesClaimed ==
  ASSUME MovesInv, NEW c \in Clients, Moves!Claim(c)
  PROVE  MovesInv'
<1> USE TransfersAssumption DEF TransfersAssumption
<1>1. job[c].at = "claim" /\ UNCHANGED <<items, keys, moved, created, calls>>
  BY DEF Moves!Claim
<1>2. job[c] \in MoveJob /\ MoveSound(job[c]) /\ Alone(c, job[c]) /\ calls \in 0..MaxTransfers
  BY <1>1, RunningSound DEF Running
<1>3. CASE job[c].key = NoKey
  <2>1. PICK j : j = [job[c] EXCEPT !.at = "find"]
    OBVIOUS
  <2>2. job' = [job EXCEPT ![c] = j] /\ replies' = replies
    BY <1>3, <2>1 DEF Moves!Claim, Moves!Goto, Moves!Becomes
  <2>3. j \in MoveJob /\ MoveSound(j) /\ j.key = job[c].key /\ j.claimed = job[c].claimed
        /\ j.held = job[c].held
    BY <1>1, <1>2, <1>3, <2>1 DEF MoveJob, MoveSound, Running
  <2>4. QED
    BY <1>1, <1>2, <2>2, <2>3, MovesOn
<1>4. CASE job[c].key # NoKey /\ job[c].key \notin DOMAIN keys
  <2>1. PICK j : j = [job[c] EXCEPT !.at = "find", !.claimed = TRUE]
    OBVIOUS
  <2>2. job' = [job EXCEPT ![c] = j] /\ replies' = replies
    BY <1>4, <2>1 DEF Moves!Claim, Moves!Becomes
  <2>3. /\ j \in MoveJob /\ j.key = job[c].key /\ j.held = job[c].held /\ j.at = "find"
        /\ j.source = job[c].source /\ j.target = job[c].target /\ j.to = job[c].to
        /\ j.claimed = TRUE
    BY <1>2, <2>1 DEF MoveJob, Running
  <2>4. MoveSound(j)
    BY <1>2, <1>4, <2>3 DEF MoveSound, MoveJob
  <2>5. \A d \in Clients \ {c} : job[d].at \in Running /\ job[d].claimed = TRUE
                                    => job[c].key # job[d].key
    BY <1>4 DEF Moves!Claim, Moves!Claimable, Running
  <2>6. Alone(c, j)
    BY <1>2, <2>3, <2>5 DEF Alone
  <2>7. QED
    BY <1>1, <1>2, <2>2, <2>3, <2>4, <2>6, MovesSilent DEF JobSound
<1>5. CASE job[c].key # NoKey /\ job[c].key \in DOMAIN keys
  <2> DEFINE k == job[c].key
  <2>1. job' = [job EXCEPT ![c] = Moves!Idle]
        /\ (replies' = replies \/ replies' = [replies EXCEPT ![k] = @ \union {keys[k].stock}])
    BY <1>5 DEF Moves!Claim, Moves!Drop, Moves!Becomes
  <2>2. KeysSound /\ k \in Keys
    BY <1>2, <1>5 DEF MovesInv, MoveJob
  <2>3. replies[k] = {keys[k].stock}
    BY <1>5, <2>2 DEF KeysSound, KeySound
  <2> HIDE DEF k
  <2>4. DOMAIN replies' = DOMAIN replies /\ \A l \in Keys : replies'[l] = replies[l]
    BY <2>1, <2>2, <2>3 DEF KeysSound
  <2>5. KeysSound'
    BY <1>1, <2>2, <2>4 DEF KeysSound, KeySound
  <2>6. calls' \in 0..MaxTransfers
    BY <1>1, <1>2
  <2>7. QED
    BY <1>1, <2>1, <2>5, <2>6, IdleSound, MovesQuiet
<1>6. QED
  BY <1>3, <1>4, <1>5

LEMMA MovesFound ==
  ASSUME MovesInv, NEW c \in Clients, Moves!Find(c)
  PROVE  MovesInv'
<1> DEFINE w == job[c].to
           t == Moves!Destination(w)
<1>1. job[c].at = "find" /\ UNCHANGED <<items, keys, moved, replies, created, calls>>
  BY DEF Moves!Find
<1>2. job[c] \in MoveJob /\ MoveSound(job[c])
  BY <1>1, RunningSound DEF Running
<1>3. CASE t # 0
  <2>1. PICK j : j = [job[c] EXCEPT !.at = "lock", !.target = t, !.locks = {job[c].source, t} \ {0}]
    OBVIOUS
  <2>2. job' = [job EXCEPT ![c] = j]
    BY <1>3, <2>1 DEF Moves!Find, Moves!Locking, Moves!Becomes
  <2>3. t \in DOMAIN items /\ items[t].warehouse = w /\ t \in 1..MaxItems
    BY <1>3, DestinationSound, RowsCounted DEF MovesInv
  <2>4. job[c].source \in 1..MaxItems
    BY <1>2 DEF MoveJob
  <2> HIDE DEF t
  <2>5. {job[c].source, t} \ {0} \in SUBSET (1..MaxItems) /\ t \in 0..MaxItems
    BY <2>3, <2>4
  <2>6. /\ j \in MoveJob /\ j.key = job[c].key /\ j.held = job[c].held /\ j.at = "lock"
        /\ j.source = job[c].source /\ j.target = t /\ j.to = w /\ j.claimed = job[c].claimed
    BY <1>2, <2>1, <2>5 DEF MoveJob, Running
  <2>7. MoveSound(j)
    BY <1>1, <1>2, <1>3, <2>3, <2>6 DEF MoveSound
  <2>8. QED
    BY <1>1, <1>2, <2>2, <2>6, <2>7, MovesOn
<1>4. CASE t = 0
  <2>1. PICK j : j = [job[c] EXCEPT !.at = "coordinate"]
    OBVIOUS
  <2>2. job' = [job EXCEPT ![c] = j]
    BY <1>4, <2>1 DEF Moves!Find, Moves!Goto, Moves!Becomes
  <2>3. j \in MoveJob /\ MoveSound(j) /\ j.key = job[c].key /\ j.claimed = job[c].claimed
        /\ j.held = job[c].held
    BY <1>1, <1>2, <2>1 DEF MoveJob, MoveSound, Running
  <2>4. QED
    BY <1>1, <1>2, <2>2, <2>3, MovesOn
<1>5. QED
  BY <1>3, <1>4

LEMMA MovesCoordinated ==
  ASSUME MovesInv, NEW c \in Clients, Moves!Coordinate(c)
  PROVE  MovesInv'
<1> DEFINE w == job[c].to
           t == Moves!Destination(w)
<1> USE TransfersAssumption DEF TransfersAssumption
<1>1. /\ job[c].at = "coordinate" /\ UNCHANGED <<items, keys, moved, replies, created, calls>>
      /\ \A d \in Clients \ {c} : 0 \notin job[d].held
  BY DEF Moves!Coordinate, Moves!Free, Moves!Coordinator
<1>2. job[c] \in MoveJob /\ MoveSound(job[c])
  BY <1>1, RunningSound DEF Running
<1>3. PICK j : j = [job[c] EXCEPT !.at = "lock", !.held = {0}, !.target = t,
                                  !.locks = {job[c].source, t} \ {0}]
  OBVIOUS
<1>4. job' = [job EXCEPT ![c] = j]
  BY <1>3 DEF Moves!Coordinate, Moves!FoundAgain, Moves!Becomes, Moves!Coordinator
<1>5. /\ t = 0 => Moves!RowsAt(w) = {}
      /\ t # 0 => t \in DOMAIN items /\ items[t].warehouse = w
      /\ t \in 0..MaxItems
  BY DestinationSound DEF MovesInv
<1>6. job[c].source \in 1..MaxItems
  BY <1>2 DEF MoveJob
<1> HIDE DEF t
<1>7. {job[c].source, t} \ {0} \in SUBSET (1..MaxItems) /\ {0} \subseteq 0..MaxItems
  BY <1>5, <1>6
<1>8. /\ j \in MoveJob /\ j.key = job[c].key /\ j.held = {0} /\ j.at = "lock"
      /\ j.source = job[c].source /\ j.target = t /\ j.to = w /\ j.claimed = job[c].claimed
  BY <1>2, <1>3, <1>5, <1>7 DEF MoveJob, Running
<1>9. MoveSound(j)
  BY <1>1, <1>2, <1>5, <1>8 DEF MoveSound
<1>10. QED
  BY <1>1, <1>2, <1>4, <1>8, <1>9, MovesOn

LEMMA MovesLocked ==
  ASSUME MovesInv, NEW c \in Clients, Moves!Lock(c)
  PROVE  MovesInv'
<1> DEFINE i == Moves!Min(job[c].locks)
<1> USE TransfersAssumption DEF TransfersAssumption
<1>1. /\ job[c].at = "lock" /\ job[c].locks # {}
      /\ UNCHANGED <<items, keys, moved, replies, created, calls>>
  BY DEF Moves!Lock
<1>2. job[c] \in MoveJob /\ MoveSound(job[c])
  BY <1>1, RunningSound DEF Running
<1>3. i \in 1..MaxItems
  BY <1>1, <1>2, LowestId DEF MoveJob
<1>4. PICK j : j = [job[c] EXCEPT !.held = @ \union {i}, !.locks = @ \ {i}]
  OBVIOUS
<1>5. job' = [job EXCEPT ![c] = j]
  BY <1>4 DEF Moves!Lock, Moves!Becomes
<1> HIDE DEF i
<1>6. job[c].held \union {i} \in SUBSET (0..MaxItems) /\ job[c].locks \ {i} \in SUBSET (1..MaxItems)
  BY <1>2, <1>3 DEF MoveJob
<1>7. /\ j \in MoveJob /\ j.key = job[c].key /\ j.held = job[c].held \union {i} /\ j.at = "lock"
      /\ j.source = job[c].source /\ j.target = job[c].target /\ j.to = job[c].to
      /\ j.claimed = job[c].claimed
  BY <1>1, <1>2, <1>4, <1>6 DEF MoveJob
<1>8. MoveSound(j) /\ (0 \in j.held => 0 \in job[c].held)
  BY <1>1, <1>2, <1>3, <1>7 DEF MoveSound
<1>9. QED
  BY <1>1, <1>2, <1>5, <1>7, <1>8, MovesOn

LEMMA MovesRolledBack ==
  ASSUME MovesInv, NEW c \in Clients, Moves!Rollback(c)
  PROVE  MovesInv'
<1>1. job' = [job EXCEPT ![c] = Moves!Idle]
      /\ UNCHANGED <<items, keys, moved, replies, created, calls>>
  BY DEF Moves!Rollback, Moves!Drop, Moves!Becomes
<1>2. calls' \in 0..MaxTransfers
  BY <1>1 DEF MovesInv
<1>3. QED
  BY <1>1, <1>2, IdleSound, MovesSilent

LEMMA MovesCreating ==
  ASSUME MovesInv, NEW c \in Clients, NEW w \in Warehouses, Moves!BeginCreate(c, w, 1)
  PROVE  MovesInv'
<1> USE TransfersAssumption DEF TransfersAssumption
<1>1. PICK j : j = [at |-> "create", held |-> {0}, to |-> w, amount |-> 1]
  OBVIOUS
<1>2. /\ job' = [job EXCEPT ![c] = j] /\ calls' = calls + 1 /\ calls < MaxTransfers
      /\ UNCHANGED <<items, keys, moved, replies, created>> /\ Moves!NewItem <= MaxItems
      /\ \A d \in Clients \ {c} : 0 \notin job[d].held
  BY <1>1 DEF Moves!BeginCreate, Moves!Becomes, Moves!Free, Moves!Coordinator
<1>3. j \in CreateJob
  BY <1>1 DEF CreateJob
<1>4. CreateSound(j) /\ Alone(c, j)
  BY <1>1, <1>2 DEF CreateSound, Alone, Running
<1>5. calls' \in 0..MaxTransfers
  BY <1>2 DEF MovesInv
<1>6. QED
  BY <1>2, <1>3, <1>4, <1>5, MovesSilent DEF JobSound

\* A commit of c: rows are added only under the coordinator, which no other
\* request holds, and a key only by the request that has claimed it.
LEMMA MovesWrote ==
  ASSUME MovesInv, NEW c \in Clients, job' = [job EXCEPT ![c] = Moves!Idle],
         \A i \in DOMAIN items : i \in DOMAIN items' /\ items'[i].warehouse = items[i].warehouse,
         DOMAIN items' = DOMAIN items \/ 0 \in job[c].held,
         \/ DOMAIN keys' = DOMAIN keys
         \/ /\ job[c].at \in Running /\ job[c].claimed = TRUE
            /\ DOMAIN keys' = DOMAIN keys \union {job[c].key},
         RowsSound', KeysSound', created' \in Nat, calls' = calls, Held' = Stock + created'
  PROVE  MovesInv'
<1>1. /\ DOMAIN job' = Clients /\ job'[c] = Moves!Idle
      /\ \A d \in Clients \ {c} : job'[d] = job[d]
  BY DEF MovesInv
<1>2. ASSUME NEW d \in Clients, d # c
      PROVE  JobSound(job[d])' /\ Alone(d, job[d])'
  <2>1. job'[d] = job[d] /\ JobSound(job[d]) /\ Alone(d, job[d]) /\ Alone(c, job[c])
    BY <1>1, <1>2 DEF MovesInv
  <2>2. Alone(d, job[d])'
    BY <1>1, <2>1 DEF Alone, Moves!Idle, Running
  <2>3. 0 \in job[d].held => DOMAIN items' = DOMAIN items
    BY <1>2, <2>1 DEF Alone
  <2>4. ASSUME job[d] \in MoveJob, MoveSound(job[d])
        PROVE  MoveSound(job[d])'
    <3>1. /\ job[d].source \in DOMAIN items' /\ items'[job[d].source].warehouse # job[d].to
          /\ job[d].target # 0 => job[d].target \in DOMAIN items'
                                  /\ items'[job[d].target].warehouse = job[d].to
      BY <2>4 DEF MoveSound
    <3>2. job[d].claimed = TRUE => job[d].key \notin DOMAIN keys'
      <4>1. job[d].at \in Running
        BY <2>4 DEF MoveJob
      <4>2. QED
        BY <1>2, <2>1, <2>4, <4>1 DEF MoveSound, Alone
    <3>3. ASSUME job[d].at = "lock" /\ job[d].target = 0
          PROVE  0 \in job[d].held /\ Moves!RowsAt(job[d].to)' = {}
      <4>1. 0 \in job[d].held /\ Moves!RowsAt(job[d].to) = {}
        BY <2>4, <3>3 DEF MoveSound
      <4>2. Moves!RowsAt(job[d].to)' = {}
        BY <2>1, <2>3, <4>1 DEF Moves!RowsAt
      <4>3. QED
        BY <4>1, <4>2
    <3>4. QED
      BY <2>1, <2>4, <3>1, <3>2, <3>3 DEF MoveSound
  <2>5. ASSUME job[d] \in CreateJob, CreateSound(job[d])
        PROVE  CreateSound(job[d])'
    <3>1. Moves!NewItem' = Moves!NewItem
      BY <2>3, <2>5 DEF CreateSound, Moves!NewItem, Moves!Cardinality
    <3>2. QED
      BY <2>1, <2>5, <3>1 DEF CreateSound
  <2>6. JobSound(job[d])'
    BY <2>1, <2>4, <2>5 DEF JobSound
  <2>7. QED
    BY <2>2, <2>6
<1>3. JobSound(job[c])' /\ Alone(c, job[c])'
  BY <1>1 DEF JobSound, Alone, Moves!Idle, Running
<1>4. \A d \in Clients : JobSound(job[d])' /\ Alone(d, job[d])'
  BY <1>2, <1>3
<1>5. calls' \in 0..MaxTransfers
  BY DEF MovesInv
<1>6. QED
  BY <1>1, <1>4, <1>5 DEF MovesInv

\* A new row holds what it is created with.
LEMMA RowAdded ==
  ASSUME MovesInv, Moves!NewItem <= MaxItems, NEW w \in Warehouses, NEW q \in Nat,
         NEW row, row = [warehouse |-> w, stock |-> q],
         NEW old, DOMAIN old = DOMAIN items,
         \A i \in DOMAIN items : old[i] \in [warehouse : Warehouses, stock : Nat],
         items' = [i \in DOMAIN items \union {Moves!NewItem} |->
                    IF i \in DOMAIN items THEN old[i] ELSE row]
  PROVE  /\ RowsSound'
         /\ Held' = Cardinality(Units(DOMAIN items, [i \in DOMAIN items |-> old[i].stock])) + q
<1> USE TransfersAssumption DEF TransfersAssumption
<1> DEFINE D == DOMAIN items
           n == Moves!NewItem
           f == [i \in D |-> old[i].stock]
           g == [i \in D \union {n} |-> items'[i].stock]
<1>1. /\ IsFiniteSet(D) /\ n \in Nat \ {0} /\ n \notin D /\ D \union {n} = 1..n
  BY RowsCounted DEF MovesInv
<1>2. /\ DOMAIN items' = D \union {n} /\ items'[n] = row
      /\ \A i \in D : items'[i] = old[i]
  BY <1>1
<1>3. RowsSound'
  <2>1. \A i \in DOMAIN items' : items'[i] \in [warehouse : Warehouses, stock : Nat]
    BY <1>2
  <2>2. n \in 1..MaxItems /\ DOMAIN items' = 1..n
    BY <1>1, <1>2
  <2>3. QED
    BY <2>1, <2>2 DEF RowsSound
<1>4. /\ \A i \in D : f[i] \in Nat /\ g[i] \in Nat /\ f[i] = g[i]
      /\ g[n] = q
  BY <1>1, <1>2
<1> HIDE DEF f, g
<1>5. Cardinality(Units(D \union {n}, g)) = Cardinality(Units(D, g)) + g[n]
  <2> HIDE DEF D, n
  <2>1. QED
    BY <1>1, <1>4, UnitsAdded
<1>6. Units(D, g) = Units(D, f)
  <2> HIDE DEF D
  <2>1. QED
    BY <1>4, UnitsAlike
<1>7. Held' = Cardinality(Units(D \union {n}, g))
  BY <1>2 DEF Held, g
<1>8. QED
  BY <1>3, <1>4, <1>5, <1>6, <1>7 DEF f

LEMMA MovesCreated ==
  ASSUME MovesInv, NEW c \in Clients, Moves!CommitCreate(c)
  PROVE  MovesInv'
<1>1. /\ job[c].at = "create" /\ job' = [job EXCEPT ![c] = Moves!Idle]
      /\ created' = created + job[c].amount
      /\ UNCHANGED <<keys, moved, replies, calls>>
  BY DEF Moves!CommitCreate, Moves!Drop, Moves!Becomes
<1>2. job[c] \in CreateJob /\ CreateSound(job[c])
  BY <1>1 DEF MovesInv, JobSound, MoveJob, Running, Moves!Idle
<1>3. job[c].to \in Warehouses /\ job[c].amount \in Nat /\ Moves!NewItem <= MaxItems
      /\ 0 \in job[c].held
  BY <1>2 DEF CreateJob, CreateSound
<1>4. PICK row : row = [warehouse |-> job[c].to, stock |-> job[c].amount]
  OBVIOUS
<1>5. items' = [i \in DOMAIN items \union {Moves!NewItem} |->
                 IF i \in DOMAIN items THEN items[i] ELSE row]
  BY <1>4 DEF Moves!CommitCreate
<1>6. PICK old : old = items
  OBVIOUS
<1>7. /\ DOMAIN old = DOMAIN items
      /\ \A i \in DOMAIN items : old[i] \in [warehouse : Warehouses, stock : Nat]
      /\ items' = [i \in DOMAIN items \union {Moves!NewItem} |->
                    IF i \in DOMAIN items THEN old[i] ELSE row]
  BY <1>5, <1>6 DEF MovesInv, RowsSound
<1>8. /\ RowsSound'
      /\ Held' = Cardinality(Units(DOMAIN items, [i \in DOMAIN items |-> old[i].stock]))
                   + job[c].amount
  BY <1>3, <1>4, <1>7, RowAdded
<1>9. Held' = Stock + created' /\ created' \in Nat
  <2>1. Held' = Held + job[c].amount
    BY <1>6, <1>8 DEF Held
  <2>2. Held = Stock + created /\ created \in Nat
    BY DEF MovesInv
  <2>3. QED
    BY <1>1, <1>3, <2>1, <2>2, TransfersAssumption DEF TransfersAssumption
<1>10. KeysSound'
  BY <1>1, KeysQuiet
<1>11. \A i \in DOMAIN items : i \in DOMAIN items' /\ items'[i].warehouse = items[i].warehouse
  BY <1>5
<1>12. QED
  BY <1>1, <1>3, <1>8, <1>9, <1>10, <1>11, MovesWrote

\* A completed key has its one answer.
LEMMA KeyCompleted ==
  ASSUME MovesInv, NEW k \in Keys, k \notin DOMAIN keys, NEW p, NEW n,
         keys' = [l \in DOMAIN keys \union {k} |-> IF l = k THEN p ELSE keys[l]],
         p.stock = n, moved' = [moved EXCEPT ![k] = @ + 1],
         replies' = [replies EXCEPT ![k] = @ \union {n}]
  PROVE  KeysSound' /\ DOMAIN keys' = DOMAIN keys \union {k}
<1>1. /\ DOMAIN keys \subseteq Keys /\ DOMAIN moved = Keys /\ DOMAIN replies = Keys
      /\ \A l \in Keys : KeySound(l)
  BY DEF MovesInv, KeysSound
<1>2. moved[k] = 0 /\ replies[k] = {}
  BY <1>1 DEF KeySound
<1>3. moved'[k] = 1 /\ replies'[k] = {n} /\ k \in DOMAIN keys' /\ keys'[k] = p
  BY <1>1, <1>2
<1>4. \A l \in Keys : l # k => /\ moved'[l] = moved[l] /\ replies'[l] = replies[l]
                               /\ l \in DOMAIN keys' <=> l \in DOMAIN keys
                               /\ l \in DOMAIN keys => keys'[l] = keys[l]
  BY <1>1
<1>5. \A l \in Keys : KeySound(l)'
  BY <1>1, <1>3, <1>4 DEF KeySound
<1>6. QED
  BY <1>1, <1>5 DEF KeysSound

\* Debit and credit leave as much stock as there was.
LEMMA StockMoved ==
  ASSUME RowsSound, NEW s \in DOMAIN items, NEW t \in DOMAIN items, s # t,
         NEW q \in Nat, items[s].stock - q >= 0,
         DOMAIN items' = DOMAIN items,
         items'[s].stock = items[s].stock - q, items'[t].stock = items[t].stock + q,
         \A i \in DOMAIN items \ {s, t} : items'[i].stock = items[i].stock
  PROVE  Held' = Held
<1> DEFINE D == DOMAIN items
           f == [i \in D |-> items[i].stock]
           h == [i \in D |-> IF i = s THEN f[s] - q ELSE f[i]]
           g == [i \in D |-> items'[i].stock]
<1>1. IsFiniteSet(D)
  BY RowsCounted
<1>2. /\ \A i \in D : f[i] \in Nat
      /\ f[s] - q \in Nat
  BY DEF RowsSound
<1>3. /\ \A i \in D \ {s} : h[i] = f[i]
      /\ h[s] = f[s] - q
      /\ \A i \in D \ {t} : g[i] = h[i]
      /\ g[t] = h[t] + q
      /\ s \in D /\ t \in D
  OBVIOUS
<1> HIDE DEF D, f, g, h
<1>4. h[s] \in Nat /\ \A i \in D : h[i] \in Nat
  BY <1>2, <1>3
<1>5. g[t] \in Nat
  BY <1>3, <1>4
<1>6. /\ Cardinality(Units(D, h)) = Cardinality(Units(D, f)) + h[s] - f[s]
      /\ Cardinality(Units(D, f)) \in Nat
  BY <1>1, <1>2, <1>3, <1>4, UnitsRaised
<1>7. /\ Cardinality(Units(D, g)) = Cardinality(Units(D, h)) + g[t] - h[t]
      /\ Cardinality(Units(D, h)) \in Nat
  BY <1>1, <1>3, <1>4, <1>5, UnitsRaised
<1>8. f[s] \in Nat /\ h[t] \in Nat
  BY <1>2, <1>3, <1>4
<1>9. Cardinality(Units(D, g)) = Cardinality(Units(D, f))
  BY <1>3, <1>6, <1>7, <1>8
<1>10. QED
  BY <1>9 DEF Held, D, f, g

LEMMA MovesCommitted ==
  ASSUME MovesInv, NEW c \in Clients, Moves!Commit(c)
  PROVE  MovesInv'
<1> USE TransfersAssumption DEF TransfersAssumption
<1> DEFINE j == job[c]
           s == j.source
           q == j.amount
           left == items[s].stock - q
           dest == IF j.target = 0 THEN Moves!NewItem ELSE j.target
<1>1. /\ j.at = "lock" /\ left >= 0 /\ dest <= MaxItems
      /\ job' = [job EXCEPT ![c] = Moves!Idle] /\ UNCHANGED <<created, calls>>
  BY DEF Moves!Commit, Moves!Drop, Moves!Becomes
<1>2. items' = [i \in DOMAIN items \union {dest} |->
          IF i = s THEN [items[i] EXCEPT !.stock = left]
          ELSE IF i # dest THEN items[i]
          ELSE IF i \in DOMAIN items THEN [items[i] EXCEPT !.stock = @ + q]
          ELSE [warehouse |-> j.to, stock |-> q]]
  BY DEF Moves!Commit
<1>3. j \in MoveJob /\ MoveSound(j) /\ Alone(c, j)
  BY <1>1, RunningSound DEF Running
<1>4. /\ s \in DOMAIN items /\ items[s].warehouse # j.to
      /\ q \in Nat /\ j.to \in Warehouses
      /\ j.target # 0 => j.target \in DOMAIN items /\ items[j.target].warehouse = j.to
      /\ j.target = 0 => 0 \in j.held
  BY <1>1, <1>3 DEF MoveSound, MoveJob
<1>5. /\ RowsSound /\ DOMAIN items \subseteq 1..MaxItems
      /\ \A i \in DOMAIN items : items[i] \in [warehouse : Warehouses, stock : Nat]
  BY RowsCounted DEF MovesInv, RowsSound
<1>6. Held = Stock + created /\ created \in Nat /\ created' \in Nat
  BY <1>1 DEF MovesInv
<1>7. left \in Nat
  BY <1>1, <1>4, <1>5
<1>8. /\ KeysSound'
      /\ \/ DOMAIN keys' = DOMAIN keys
         \/ /\ job[c].at \in Running /\ job[c].claimed = TRUE
            /\ DOMAIN keys' = DOMAIN keys \union {job[c].key}
  <2>1. CASE j.key = NoKey
    <3>1. UNCHANGED <<keys, moved, replies>>
      BY <2>1 DEF Moves!Commit
    <3>2. QED
      BY <3>1, KeysQuiet
  <2>2. CASE j.key # NoKey
    <3>1. j.claimed = TRUE /\ j.key \in Keys /\ j.key \notin DOMAIN keys /\ j.at \in Running
      BY <1>1, <1>3, <2>2 DEF MoveSound, Running
    <3>2. PICK p : p = [payload |-> Moves!Payload(c), stock |-> left]
      OBVIOUS
    <3>3. PICK n : n = left
      OBVIOUS
    <3>4. PICK k : k = j.key
      OBVIOUS
    <3>5. /\ keys' = [l \in DOMAIN keys \union {k} |-> IF l = k THEN p ELSE keys[l]]
          /\ moved' = [moved EXCEPT ![k] = @ + 1]
          /\ replies' = [replies EXCEPT ![k] = @ \union {n}]
      BY <2>2, <3>2, <3>3, <3>4 DEF Moves!Commit
    <3>6. p.stock = n
      BY <3>2, <3>3
    <3>7. k \in Keys /\ k \notin DOMAIN keys
      BY <3>1, <3>4
    <3>8. KeysSound' /\ DOMAIN keys' = DOMAIN keys \union {k}
      BY <3>5, <3>6, <3>7, KeyCompleted
    <3>9. QED
      BY <3>1, <3>4, <3>8
  <2>3. QED
    BY <2>1, <2>2
<1>9. CASE j.target # 0
  <2> DEFINE t == j.target
  <2>1. dest = t /\ t \in DOMAIN items /\ s # t /\ DOMAIN items' = DOMAIN items
    BY <1>2, <1>4, <1>9
  <2>2. items'[s] = [items[s] EXCEPT !.stock = left]
    BY <1>2, <1>4, <2>1
  <2>3. items'[t] = [items[t] EXCEPT !.stock = @ + q]
    BY <1>2, <1>4, <2>1
  <2>4. \A i \in DOMAIN items \ {s, t} : items'[i] = items[i]
    BY <1>2, <2>1
  <2>5. /\ items[s].stock \in Nat /\ items[t].stock \in Nat
        /\ items'[s].stock = left /\ items'[t].stock = items[t].stock + q
        /\ items'[s].warehouse = items[s].warehouse /\ items'[t].warehouse = items[t].warehouse
        /\ items'[s] \in [warehouse : Warehouses, stock : Nat]
        /\ items'[t] \in [warehouse : Warehouses, stock : Nat]
    BY <1>4, <1>5, <1>7, <2>1, <2>2, <2>3
  <2>6. \A i \in DOMAIN items : /\ items'[i] \in [warehouse : Warehouses, stock : Nat]
                                /\ items'[i].warehouse = items[i].warehouse
    BY <1>5, <2>4, <2>5
  <2>7. RowsSound'
    BY <1>5, <2>1, <2>6 DEF RowsSound
  <2>8. Held' = Held
    <3>1. \A i \in DOMAIN items \ {s, t} : items'[i].stock = items[i].stock
      BY <2>4
    <3>2. items[s].stock - q >= 0
      BY <1>1
    <3>3. s \in DOMAIN items /\ q \in Nat
      BY <1>4
    <3> HIDE DEF s, t, q
    <3>4. QED
      BY <1>5, <2>1, <2>5, <3>1, <3>2, <3>3, StockMoved DEF left
  <2>9. Held' = Stock + created'
    BY <1>1, <1>6, <2>8
  <2> HIDE DEF left, dest
  <2>10. QED
    BY <1>1, <1>6, <1>8, <2>1, <2>6, <2>7, <2>9, MovesWrote
<1>10. CASE j.target = 0
  <2> DEFINE n == Moves!NewItem
  <2>1. dest = n /\ n \notin DOMAIN items /\ s # n /\ n <= MaxItems
    BY <1>1, <1>4, <1>10, RowsCounted DEF MovesInv
  <2>2. PICK old : old = [i \in DOMAIN items |->
                           IF i = s THEN [items[i] EXCEPT !.stock = left] ELSE items[i]]
    OBVIOUS
  <2>3. PICK row : row = [warehouse |-> j.to, stock |-> q]
    OBVIOUS
  <2>4. items' = [i \in DOMAIN items \union {n} |->
                    IF i \in DOMAIN items THEN old[i] ELSE row]
    BY <1>2, <2>1, <2>2, <2>3
  <2>5. /\ old[s].stock = left /\ old[s] \in [warehouse : Warehouses, stock : Nat]
        /\ old[s].warehouse = items[s].warehouse
        /\ DOMAIN old = DOMAIN items
        /\ \A i \in DOMAIN items \ {s} : old[i] = items[i]
    BY <1>4, <1>5, <1>7, <2>2
  <2>6. \A i \in DOMAIN items : /\ old[i] \in [warehouse : Warehouses, stock : Nat]
                                /\ old[i].warehouse = items[i].warehouse
    BY <1>5, <2>5
  <2>7. \A i \in DOMAIN items : i \in DOMAIN items' /\ items'[i].warehouse = items[i].warehouse
    BY <2>4, <2>6
  <2> DEFINE f == [i \in DOMAIN items |-> items[i].stock]
             g == [i \in DOMAIN items |-> old[i].stock]
  <2>8. Cardinality(Units(DOMAIN items, g)) = Cardinality(Units(DOMAIN items, f)) - q
        /\ Cardinality(Units(DOMAIN items, g)) \in Nat
    <3>1. /\ \A i \in DOMAIN items : f[i] \in Nat
          /\ \A i \in DOMAIN items \ {s} : g[i] = f[i]
          /\ g[s] = f[s] - q
      BY <1>4, <1>5, <2>5
    <3>2. g[s] \in Nat /\ f[s] \in Nat
      BY <1>4, <1>5, <1>7, <2>5
    <3>3. IsFiniteSet(DOMAIN items) /\ s \in DOMAIN items
      BY <1>4, RowsCounted DEF MovesInv
    <3> HIDE DEF f, g, s, q
    <3>4. /\ Cardinality(Units(DOMAIN items, g)) = Cardinality(Units(DOMAIN items, f)) + g[s] - f[s]
          /\ Cardinality(Units(DOMAIN items, g)) \in Nat
          /\ Cardinality(Units(DOMAIN items, f)) \in Nat
      BY <3>1, <3>2, <3>3, UnitsRaised
    <3>5. q \in Nat
      BY <1>4
    <3>6. QED
      BY <3>1, <3>2, <3>4, <3>5
  <2>9. RowsSound' /\ Held' = Cardinality(Units(DOMAIN items, g)) + q
    <3>1. q \in Nat /\ j.to \in Warehouses
      BY <1>4
    <3> HIDE DEF q
    <3>2. QED
      BY <2>1, <2>3, <2>4, <2>5, <2>6, <3>1, RowAdded
  <2>10. Held' = Stock + created'
    <3>1. Held = Cardinality(Units(DOMAIN items, f))
      BY DEF Held
    <3>2. QED
      BY <1>1, <1>4, <1>6, <2>8, <2>9, <3>1
  <2> HIDE DEF left, dest
  <2>11. QED
    BY <1>1, <1>4, <1>6, <1>8, <1>10, <2>7, <2>9, <2>10, MovesWrote
<1>11. QED
  BY <1>9, <1>10

LEMMA MovesKept == MovesInv /\ [Moves!Next]_transferVars => MovesInv'
<1> SUFFICES ASSUME MovesInv, [Moves!Next]_transferVars
             PROVE  MovesInv'
  OBVIOUS
<1>1. CASE UNCHANGED transferVars
  <2>1. UNCHANGED <<items, keys, job, moved, replies, created, calls>>
    BY <1>1 DEF transferVars
  <2>2. RowsSound' /\ KeysSound' /\ Held' = Held
    BY <2>1 DEF MovesInv, RowsSound, KeysSound, KeySound, Held
  <2>3. ASSUME NEW c \in Clients
        PROVE  JobSound(job[c])' /\ Alone(c, job[c])'
    <3>1. JobSound(job[c]) /\ Alone(c, job[c])
      BY DEF MovesInv
    <3>2. JobSound(job[c])'
      BY <2>1, <3>1 DEF JobSound, MoveSound, CreateSound, Moves!RowsAt,
                        Moves!NewItem, Moves!Cardinality
    <3>3. Alone(c, job[c])'
      BY <2>1, <3>1 DEF Alone
    <3>4. QED
      BY <3>2, <3>3
  <2>4. QED
    BY <2>1, <2>2, <2>3 DEF MovesInv
<1>2. CASE Moves!Next
  BY <1>2, MovesBegun, MovesClaimed, MovesFound, MovesCoordinated, MovesLocked, MovesCommitted,
     MovesCreating, MovesCreated, MovesRolledBack DEF Moves!Next
<1>3. QED
  BY <1>1, <1>2

LEMMA MovesInvariant == Spec => []MovesInv
<1>1. Init => MovesInv
  BY MovesInit DEF Init
<1>2. MovesInv /\ [Next]_vars => MovesInv'
  BY MovesKept, ComponentSteps
<1>3. QED
  BY <1>1, <1>2, PTL DEF Spec

(* A transfer repeated under its key moves stock once and is answered alike,  *)
(* transfers neither make nor lose stock, and none creates a destination in a *)
(* warehouse that has one, for any number of requests, rows and keys.         *)
THEOREM TransfersExactlyOnceHolds == Spec => []TransfersExactlyOnce
<1>1. MovesInv => TransfersExactlyOnce
  BY MovesImplies DEF TransfersExactlyOnce
<1>2. QED
  BY <1>1, MovesInvariant, PTL

-----------------------------------------------------------------------------
\* The business numbers and the audit log.
\* Prefixes of sequences, and what audit rows say

Prefix(s, n) == SubSeq(s, 1, n)

\* A prefix has the first elements.
LEMMA PrefixProperties ==
  ASSUME NEW S, NEW s \in Seq(S), NEW n \in 0..Len(s)
  PROVE  /\ Prefix(s, n) \in Seq(S)
         /\ Len(Prefix(s, n)) = n
         /\ \A i \in 1..n : Prefix(s, n)[i] = s[i]
<1>1. Len(s) \in Nat
  BY LenProperties
<1>2. \A i \in 1..n : s[i] \in S
  BY <1>1, ElementOfSeq
<1>3. 1 \in Int /\ n \in Int
  BY <1>1
<1>4. /\ SubSeq(s, 1, n) \in Seq(S)
      /\ Len(SubSeq(s, 1, n)) = IF 1 <= n THEN n - 1 + 1 ELSE 0
      /\ \A i \in 1 .. n - 1 + 1 : SubSeq(s, 1, n)[i] = s[1 + i - 1]
  BY <1>2, <1>3, SubSeqProperties
<1>5. QED
  BY <1>1, <1>4 DEF Prefix

\* The longest prefix is the sequence.
LEMMA PrefixAll ==
  ASSUME NEW S, NEW s \in Seq(S)
  PROVE  Prefix(s, Len(s)) = s
BY SubSeqFull DEF Prefix

\* What is appended does not change a prefix.
LEMMA PrefixOfConcat ==
  ASSUME NEW S, NEW s \in Seq(S), NEW t \in Seq(S), NEW n \in 0..Len(s)
  PROVE  Prefix(s \o t, n) = Prefix(s, n)
<1> DEFINE b == s \o t
<1>1. /\ b \in Seq(S) /\ Len(b) = Len(s) + Len(t) /\ Len(s) \in Nat /\ Len(t) \in Nat
      /\ \A i \in 1..Len(s) : b[i] = s[i]
  BY ConcatProperties, LenProperties
<1> HIDE DEF b
<1>2. n \in 0..Len(b)
  BY <1>1
<1>3. /\ Prefix(b, n) \in Seq(S) /\ Len(Prefix(b, n)) = n
      /\ \A i \in 1..n : Prefix(b, n)[i] = b[i]
  BY <1>1, <1>2, PrefixProperties
<1>4. /\ Prefix(s, n) \in Seq(S) /\ Len(Prefix(s, n)) = n
      /\ \A i \in 1..n : Prefix(s, n)[i] = s[i]
  BY PrefixProperties
<1>5. \A i \in 1..n : Prefix(b, n)[i] = Prefix(s, n)[i]
  BY <1>1, <1>3, <1>4
<1>6. Prefix(b, n) = Prefix(s, n)
  BY <1>3, <1>4, <1>5, SeqEqual
<1>7. QED
  BY <1>6 DEF b

\* A prefix grows by the next element.
LEMMA PrefixNext ==
  ASSUME NEW S, NEW s \in Seq(S), NEW n \in Nat, n < Len(s)
  PROVE  Prefix(s, n + 1) = Append(Prefix(s, n), s[n + 1])
<1> DEFINE p == Prefix(s, n)
           a == Append(p, s[n + 1])
           q == Prefix(s, n + 1)
<1>1. Len(s) \in Nat /\ n \in 0..Len(s) /\ n + 1 \in 0..Len(s) /\ n + 1 \in 1..Len(s)
  BY LenProperties
<1>2. p \in Seq(S) /\ Len(p) = n /\ \A i \in 1..n : p[i] = s[i]
  BY <1>1, PrefixProperties
<1>3. q \in Seq(S) /\ Len(q) = n + 1 /\ \A i \in 1..(n + 1) : q[i] = s[i]
  BY <1>1, PrefixProperties
<1>4. s[n + 1] \in S
  BY <1>1, ElementOfSeq
<1> HIDE DEF p, q
<1>5. a \in Seq(S) /\ Len(a) = n + 1 /\ (\A i \in 1..n : a[i] = p[i]) /\ a[n + 1] = s[n + 1]
  BY <1>2, <1>4, AppendProperties
<1> HIDE DEF a
<1>6. \A i \in 1..(n + 1) : q[i] = a[i]
  BY <1>2, <1>3, <1>5
<1>7. q = a
  BY <1>3, <1>5, <1>6, SeqEqual
<1>8. QED
  BY <1>7 DEF q, a, p

LEMMA ContentsConcat ==
  ASSUME NEW y \in Seq(Contents), NEW z \in Seq(Contents)
  PROVE  /\ y \o z \in Seq(Contents) /\ Len(y \o z) = Len(y) + Len(z)
         /\ \A i \in 1..Len(y) + Len(z) : (y \o z)[i] = IF i <= Len(y) THEN y[i] ELSE z[i - Len(y)]
BY ConcatProperties

\* Appending to the end of a concatenation.
LEMMA ContentsAppend ==
  ASSUME NEW s \in Seq(Contents), NEW t \in Seq(Contents), NEW x \in Contents
  PROVE  s \o Append(t, x) = Append(s \o t, x)
<1> DEFINE b == s \o t
<1>1. b \in Seq(Contents)
  BY ConcatProperties
<1>2. ASSUME NEW u \in Seq(Contents)
      PROVE  (s \o t) \o u = s \o (t \o u)
  BY ConcatAssociative
<1>3. <<x>> \in Seq(Contents) /\ Append(t, x) = t \o <<x>>
  BY AppendIsConcat
<1>4. b \o <<x>> = s \o Append(t, x)
  BY <1>2, <1>3
<1> HIDE DEF b
<1>5. Append(b, x) = b \o <<x>>
  BY <1>1, AppendIsConcat
<1>6. QED
  BY <1>4, <1>5 DEF b

Says(rows) == [i \in DOMAIN rows |-> rows[i].content]

\* What rows say has an entry for each row.
LEMMA SaysProperties ==
  ASSUME NEW rows \in Seq(Books!AuditRow)
  PROVE  /\ Says(rows) \in Seq(Contents)
         /\ Len(Says(rows)) = Len(rows)
         /\ \A i \in 1..Len(rows) : Says(rows)[i] = rows[i].content
<1>1. Len(rows) \in Nat /\ DOMAIN rows = 1..Len(rows)
  BY LenProperties
<1>2. \A i \in 1..Len(rows) : rows[i] \in Books!AuditRow
  BY ElementOfSeq
<1>3. \A i \in 1..Len(rows) : rows[i].content \in Contents
  BY <1>2 DEF Books!AuditRow
<1>4. Says(rows) \in [1..Len(rows) -> Contents]
  BY <1>1, <1>3 DEF Says
<1>5. QED
  BY <1>1, <1>4 DEF Says

\* What rows and more rows say.
LEMMA SaysConcat ==
  ASSUME NEW a \in Seq(Books!AuditRow), NEW b \in Seq(Books!AuditRow)
  PROVE  Says(a \o b) = Says(a) \o Says(b)
<1> DEFINE c == a \o b
           x == Says(c)
           y == Says(a)
           z == Says(b)
<1>1. /\ c \in Seq(Books!AuditRow) /\ Len(c) = Len(a) + Len(b)
      /\ \A i \in 1..Len(a) + Len(b) : c[i] = IF i <= Len(a) THEN a[i] ELSE b[i - Len(a)]
      /\ Len(a) \in Nat /\ Len(b) \in Nat
  BY ConcatProperties, LenProperties
<1> HIDE DEF c
<1>2. x \in Seq(Contents) /\ Len(x) = Len(c) /\ \A i \in 1..Len(c) : x[i] = c[i].content
  BY <1>1, SaysProperties
<1>3. y \in Seq(Contents) /\ Len(y) = Len(a) /\ \A i \in 1..Len(a) : y[i] = a[i].content
  BY SaysProperties
<1>4. z \in Seq(Contents) /\ Len(z) = Len(b) /\ \A i \in 1..Len(b) : z[i] = b[i].content
  BY SaysProperties
<1> HIDE DEF x, y, z
<1> DEFINE w == y \o z
<1>5. /\ w \in Seq(Contents) /\ Len(w) = Len(y) + Len(z)
      /\ \A i \in 1..Len(y) + Len(z) : w[i] = IF i <= Len(y) THEN y[i] ELSE z[i - Len(y)]
  BY <1>3, <1>4, ContentsConcat
<1> HIDE DEF w
<1>6. \A i \in 1..Len(x) : x[i] = w[i]
  <2> SUFFICES ASSUME NEW i \in 1..Len(a) + Len(b)
               PROVE  x[i] = w[i]
    BY <1>1, <1>2
  <2>1. x[i] = c[i].content /\ c[i] = (IF i <= Len(a) THEN a[i] ELSE b[i - Len(a)])
    BY <1>1, <1>2
  <2>2. w[i] = IF i <= Len(a) THEN y[i] ELSE z[i - Len(a)]
    BY <1>3, <1>4, <1>5
  <2>3. CASE i <= Len(a)
    BY <1>1, <1>3, <2>1, <2>2, <2>3
  <2>4. CASE i > Len(a)
    <3>1. i - Len(a) \in 1..Len(b)
      BY <1>1, <2>4
    <3>2. QED
      BY <1>1, <1>4, <2>1, <2>2, <2>4, <3>1
  <2>5. QED
    BY <1>1, <2>3, <2>4
<1>7. Len(x) = Len(w)
  BY <1>1, <1>2, <1>3, <1>4, <1>5
<1>8. x = w
  BY <1>2, <1>5, <1>6, <1>7, SeqEqual
<1>9. QED
  BY <1>8 DEF w, x, y, z, c

\* What rows and one more row say.
LEMMA SaysAppend ==
  ASSUME NEW a \in Seq(Books!AuditRow), NEW row \in Books!AuditRow
  PROVE  Says(Append(a, row)) = Append(Says(a), row.content)
<1> DEFINE c == Append(a, row)
           x == Says(c)
           y == Says(a)
           z == Append(y, row.content)
<1>1. /\ c \in Seq(Books!AuditRow) /\ Len(c) = Len(a) + 1 /\ Len(a) \in Nat
      /\ (\A i \in 1..Len(a) : c[i] = a[i]) /\ c[Len(a) + 1] = row
  BY AppendProperties, LenProperties
<1> HIDE DEF c
<1>2. x \in Seq(Contents) /\ Len(x) = Len(c) /\ \A i \in 1..Len(c) : x[i] = c[i].content
  BY <1>1, SaysProperties
<1>3. y \in Seq(Contents) /\ Len(y) = Len(a) /\ \A i \in 1..Len(a) : y[i] = a[i].content
  BY SaysProperties
<1>4. row.content \in Contents
  BY DEF Books!AuditRow
<1> HIDE DEF x, y
<1>5. /\ z \in Seq(Contents) /\ Len(z) = Len(a) + 1
      /\ (\A i \in 1..Len(a) : z[i] = y[i]) /\ z[Len(a) + 1] = row.content
  BY <1>3, <1>4, AppendProperties
<1> HIDE DEF z
<1>6. \A i \in 1..Len(x) : x[i] = z[i]
  BY <1>1, <1>2, <1>3, <1>5
<1>7. x = z
  BY <1>1, <1>2, <1>5, <1>6, SeqEqual
<1>8. QED
  BY <1>7 DEF x, y, z, c

-----------------------------------------------------------------------------
\* The inductive invariant

WorkRow == [drawn : SUBSET (Families \X (1..MaxNumbers)), rows : Seq(Books!AuditRow),
            gate : BOOLEAN, chain : BOOLEAN]
Verifier == [at : {"idle", "rows", "valid", "invalid"}, read : Seq(Books!AuditRow),
             appended : BOOLEAN, altered : BOOLEAN]

RegisterType ==
  /\ numbers \in [Families -> SUBSET (1..MaxNumbers)]
  /\ logs \in Seq(Books!AuditRow)
  /\ anchor \in [head : Seq(Contents), count : Nat]
  /\ work \in [Clients -> WorkRow]
  /\ verifier \in Verifier
  /\ truth \in Seq(Contents)
  /\ losses \in 0..MaxLosses

\* What a transaction has written is locked, and a lock excludes the others.
LocksInv ==
  /\ \A c \in Clients : (work[c].drawn # {} => work[c].gate) /\ (work[c].rows # <<>> => work[c].chain)
  /\ \A c, d \in Clients : c # d => ~(work[c].gate /\ work[d].gate) /\ ~(work[c].chain /\ work[d].chain)

\* The numbers of a family are drawn without a gap, and drawn once.
Segment(S) == \E m \in Nat : S = 1..m

NumbersInv ==
  /\ \A f \in Families : Segment(numbers[f]) /\ \A c \in Clients : Segment(numbers[f] \union Books!Drawn(c, f))
  /\ \A c \in Clients : \A x \in work[c].drawn : x[2] \notin numbers[x[1]]

\* Rows that carry on a chain that says all: the digest of each row is what the
\* chain says up to it.
Chained(rows, all, from) ==
  \A i \in 1..Len(rows) : rows[i].prev = Prefix(all, from + i - 1) /\ rows[i].hash = Prefix(all, from + i)

\* No row was lost.
Whole == Len(logs) = Len(truth)

\* The anchor counts every row ever written.  While no row is lost, the log and
\* every draft carry the digests of what was written, altered rows included.
ChainInv ==
  /\ anchor.count = Len(truth)
  /\ Len(logs) <= Len(truth)
  /\ Whole =>
       /\ Chained(logs, truth, 0)
       /\ \A c \in Clients :
            Chained(work[c].rows, truth \o Says(work[c].rows), Len(truth))
  /\ losses = 0 => Whole /\ Says(logs) = truth /\ anchor.head = truth

VerifierInv ==
  /\ verifier.altered => losses > 0
  /\ verifier.at = "rows" /\ ~verifier.appended /\ ~verifier.altered => verifier.read = logs
  /\ verifier.at = "valid" /\ ~verifier.appended /\ ~verifier.altered =>
       Says(verifier.read) = truth
  /\ verifier.at = "invalid" => losses > 0 \/ verifier.appended

BooksInv ==
  /\ RegisterType
  /\ LocksInv
  /\ NumbersInv
  /\ ChainInv
  /\ VerifierInv

-----------------------------------------------------------------------------
\* What chained rows say

\* Types of a transaction's rows and of what they say.
LEMMA ChainTypes ==
  ASSUME RegisterType, NEW c \in Clients
  PROVE  /\ work[c].rows \in Seq(Books!AuditRow) /\ Len(work[c].rows) \in Nat
         /\ Len(logs) \in Nat /\ Len(truth) \in Nat
         /\ Says(work[c].rows) \in Seq(Contents) /\ Len(Says(work[c].rows)) = Len(work[c].rows)
         /\ truth \o Says(work[c].rows) \in Seq(Contents)
         /\ Len(truth \o Says(work[c].rows)) = Len(truth) + Len(work[c].rows)
<1>1. work[c].rows \in Seq(Books!AuditRow) /\ truth \in Seq(Contents) /\ logs \in Seq(Books!AuditRow)
  BY DEF RegisterType, WorkRow
<1>2. Len(work[c].rows) \in Nat /\ Len(truth) \in Nat /\ Len(logs) \in Nat
  BY <1>1, LenProperties
<1>3. Says(work[c].rows) \in Seq(Contents) /\ Len(Says(work[c].rows)) = Len(work[c].rows)
  BY <1>1, SaysProperties
<1> DEFINE said == Says(work[c].rows)
<1> HIDE DEF said
<1>4. said \in Seq(Contents) /\ Len(said) = Len(work[c].rows)
  BY <1>3 DEF said
<1>5. truth \o said \in Seq(Contents) /\ Len(truth \o said) = Len(truth) + Len(said)
  BY <1>1, <1>4, ContentsConcat
<1>6. QED
  BY <1>1, <1>2, <1>4, <1>5 DEF said

\* The next digest is computed from everything that was ever written, and from
\* what the transaction has written so far.
LEMMA HeadSaysAll ==
  ASSUME RegisterType, ChainInv, Whole, NEW c \in Clients
  PROVE  Books!HashOf(logs \o work[c].rows) = truth \o Says(work[c].rows)
<1> DEFINE rows == work[c].rows
           both == logs \o rows
           all == truth \o Says(rows)
<1>1. /\ rows \in Seq(Books!AuditRow) /\ Len(rows) \in Nat /\ logs \in Seq(Books!AuditRow)
      /\ Len(logs) \in Nat /\ Len(truth) = Len(logs) /\ truth \in Seq(Contents)
      /\ all \in Seq(Contents) /\ Len(all) = Len(truth) + Len(rows)
  BY ChainTypes DEF RegisterType, Whole
<1>2. Chained(logs, truth, 0) /\ Chained(rows, all, Len(truth))
  BY DEF ChainInv
<1>3. /\ both \in Seq(Books!AuditRow) /\ Len(both) = Len(logs) + Len(rows)
      /\ \A i \in 1..Len(logs) + Len(rows) : both[i] = IF i <= Len(logs) THEN logs[i] ELSE rows[i - Len(logs)]
  BY <1>1, ConcatProperties
<1>4. Prefix(truth, Len(truth)) = truth /\ Prefix(all, Len(all)) = all
  BY <1>1, PrefixAll
<1>5. CASE Len(rows) > 0
  <2> HIDE DEF both, all, rows
  <2>1. both[Len(both)] = rows[Len(rows)]
    <3>1. Len(both) \in 1..Len(logs) + Len(rows) /\ Len(both) > Len(logs) /\ Len(both) - Len(logs) = Len(rows)
      BY <1>1, <1>3, <1>5
    <3>2. QED
      BY <1>1, <1>3, <3>1
  <2>2. Len(rows) \in 1..Len(rows)
    BY <1>1, <1>5
  <2>3. rows[Len(rows)].hash = all
    BY <1>1, <1>2, <1>4, <2>2 DEF Chained
  <2>4. both # <<>>
    BY <1>1, <1>3, <1>5
  <2>5. QED
    BY <2>1, <2>3, <2>4 DEF Books!HashOf, both, all, rows
<1>6. CASE Len(rows) = 0 /\ Len(logs) > 0
  <2>1. rows = <<>>
    BY <1>1, <1>6, EmptySeq
  <2>2. Says(rows) = <<>>
    BY <1>1, <1>6, <2>1, SaysProperties, EmptySeq
  <2>3. both = logs /\ all = truth
    BY <1>1, <2>1, <2>2, ConcatEmptySeq
  <2>4. Len(logs) \in 1..Len(logs)
    BY <1>1, <1>6
  <2>5. logs[Len(logs)].hash = Prefix(truth, Len(truth))
    BY <1>1, <1>2, <2>4 DEF Chained
  <2>6. logs # <<>>
    BY <1>1, <1>6
  <2>7. QED
    BY <1>4, <2>3, <2>5, <2>6 DEF Books!HashOf
<1>7. CASE Len(rows) = 0 /\ Len(logs) = 0
  <2>1. both = <<>> /\ all = <<>>
    BY <1>1, <1>3, <1>7, EmptySeq
  <2>2. QED
    BY <2>1 DEF Books!HashOf
<1>8. QED
  BY <1>1, <1>5, <1>6, <1>7

\* A whole log links up to its head whatever its rows say now; what it says is
\* what was written exactly if it links.
LEMMA LinksSayTruth ==
  ASSUME RegisterType, ChainInv, Whole, Books!Linked(logs)
  PROVE  Says(logs) = truth
<1>1. /\ logs \in Seq(Books!AuditRow) /\ truth \in Seq(Contents) /\ Len(logs) \in Nat
      /\ Len(truth) = Len(logs) /\ DOMAIN logs = 1..Len(logs)
  BY LenProperties DEF RegisterType, Whole
<1>2. ASSUME NEW i \in 1..Len(logs)
      PROVE  logs[i].content = truth[i]
  <2>1. /\ logs[i].prev = Prefix(truth, i - 1)
        /\ logs[i].hash = Prefix(truth, i)
    BY <1>1 DEF ChainInv, Chained
  <2>2. logs[i].hash = Append(logs[i].prev, logs[i].content)
    BY <1>1 DEF Books!Linked, Books!Digest
  <2> DEFINE p == Prefix(truth, i - 1)
  <2>3. Prefix(truth, i) = Append(p, truth[i])
    <3>1. i - 1 \in Nat /\ i - 1 < Len(truth) /\ (i - 1) + 1 = i
      BY <1>1
    <3>2. QED
      BY <1>1, <3>1, PrefixNext
  <2>4. p \in Seq(Contents)
    BY <1>1, PrefixProperties
  <2>5. logs[i].content \in Contents /\ truth[i] \in Contents
    <3>1. logs[i] \in Books!AuditRow
      BY <1>1, ElementOfSeq
    <3>2. truth[i] \in Contents
      BY <1>1, ElementOfSeq
    <3>3. QED
      BY <3>1, <3>2 DEF Books!AuditRow
  <2> HIDE DEF p
  <2>6. Append(p, logs[i].content) = Append(p, truth[i])
    BY <2>1, <2>2, <2>3 DEF p
  <2>7. QED
    BY <2>4, <2>5, <2>6, AppendInjective
<1>3. /\ Says(logs) \in Seq(Contents) /\ Len(Says(logs)) = Len(logs)
      /\ \A i \in 1..Len(logs) : Says(logs)[i] = logs[i].content
  BY <1>1, SaysProperties
<1>4. QED
  BY <1>1, <1>2, <1>3, SeqEqual

\* A log nobody damaged passes the verification.
LEMMA UntouchedIsValid ==
  ASSUME RegisterType, ChainInv, losses = 0
  PROVE  Books!Valid(logs)
<1>1. /\ logs \in Seq(Books!AuditRow) /\ truth \in Seq(Contents) /\ Len(logs) \in Nat
      /\ Len(truth) = Len(logs) /\ DOMAIN logs = 1..Len(logs)
      /\ Whole /\ Says(logs) = truth /\ anchor.head = truth
  BY LenProperties DEF RegisterType, ChainInv, Whole
<1>2. \A i \in 1..Len(logs) : logs[i].prev = Prefix(truth, i - 1) /\ logs[i].hash = Prefix(truth, i)
  BY <1>1 DEF ChainInv, Chained
<1>3. ASSUME NEW i \in 0..Len(logs)
      PROVE  Books!HashOf(Prefix(logs, i)) = Prefix(truth, i)
  <2> DEFINE p == Prefix(logs, i)
  <2>1. p \in Seq(Books!AuditRow) /\ Len(p) = i /\ \A j \in 1..i : p[j] = logs[j]
    BY <1>1, PrefixProperties
  <2> HIDE DEF p
  <2>2. CASE i = 0
    <3>1. p = <<>>
      BY <2>1, <2>2, EmptySeq
    <3>2. Prefix(truth, i) = <<>>
      BY <1>1, <2>2, SubSeqEmpty DEF Prefix
    <3>3. QED
      BY <3>1, <3>2 DEF Books!HashOf, p
  <2>3. CASE i > 0
    <3>1. i \in 1..i /\ i \in 1..Len(logs)
      BY <1>1, <2>3
    <3>2. p[Len(p)].hash = Prefix(truth, i)
      BY <1>2, <2>1, <3>1
    <3>3. p # <<>>
      BY <2>1, <2>3
    <3>4. QED
      BY <3>2, <3>3 DEF Books!HashOf, p
  <2>4. QED
    BY <1>1, <2>2, <2>3
<1>4. Books!Linked(logs)
  <2> SUFFICES ASSUME NEW i \in 1..Len(logs)
               PROVE  /\ logs[i].prev = Books!HashOf(Prefix(logs, i - 1))
                      /\ logs[i].hash = Append(Books!HashOf(Prefix(logs, i - 1)), logs[i].content)
    BY <1>1 DEF Books!Linked, Prefix, Books!Digest
  <2>1. i - 1 \in 0..Len(logs) /\ i - 1 \in Nat /\ i - 1 < Len(truth) /\ (i - 1) + 1 = i
    BY <1>1
  <2>2. Books!HashOf(Prefix(logs, i - 1)) = Prefix(truth, i - 1)
    BY <1>3, <2>1
  <2>3. Prefix(truth, i) = Append(Prefix(truth, i - 1), truth[i])
    BY <1>1, <2>1, PrefixNext
  <2>4. truth[i] = logs[i].content
    BY <1>1, SaysProperties
  <2>5. QED
    BY <1>2, <2>2, <2>3, <2>4
<1>5. Books!HashOf(logs) = truth
  BY <1>1, <1>3, PrefixAll
<1>6. QED
  BY <1>1, <1>4, <1>5 DEF Books!Valid, ChainInv

-----------------------------------------------------------------------------
\* What a transaction becomes

LEMMA WorkFields ==
  ASSUME RegisterType, NEW c \in Clients
  PROVE  /\ work[c] \in WorkRow
         /\ work[c].drawn \in SUBSET (Families \X (1..MaxNumbers))
         /\ work[c].rows \in Seq(Books!AuditRow)
         /\ work[c].gate \in BOOLEAN /\ work[c].chain \in BOOLEAN
BY DEF RegisterType, WorkRow

\* The numbers of a family among those drawn.
NumbersOf(drawn, f) == {x[2] : x \in {y \in drawn : y[1] = f}}

\* A number is drawn in a family if the pair is.
LEMMA NumbersOfFamily ==
  ASSUME NEW drawn \in SUBSET (Families \X (1..MaxNumbers)), NEW f, NEW m
  PROVE  m \in NumbersOf(drawn, f) <=> <<f, m>> \in drawn
<1>1. ASSUME m \in NumbersOf(drawn, f)
      PROVE  <<f, m>> \in drawn
  <2>1. PICK x \in drawn : x[1] = f /\ x[2] = m
    BY <1>1 DEF NumbersOf
  <2>2. x = <<x[1], x[2]>>
    OBVIOUS
  <2>3. QED
    BY <2>1, <2>2
<1>2. ASSUME <<f, m>> \in drawn
      PROVE  m \in NumbersOf(drawn, f)
  <2>1. <<f, m>>[1] = f /\ <<f, m>>[2] = m
    OBVIOUS
  <2>2. QED
    BY <1>2, <2>1 DEF NumbersOf
<1>3. QED
  BY <1>1, <1>2

\* A transaction that draws a number holds the gate.
LEMMA DrawWork ==
  ASSUME RegisterType, NEW c \in Clients, NEW new \in Families \X (1..MaxNumbers),
         work' = [work EXCEPT ![c].gate = TRUE, ![c].drawn = @ \union {new}]
  PROVE  /\ work' \in [Clients -> WorkRow]
         /\ \A d \in Clients : d # c => work'[d] = work[d]
         /\ work'[c].gate /\ work'[c].drawn = work[c].drawn \union {new}
         /\ work'[c].rows = work[c].rows /\ work'[c].chain = work[c].chain
<1> DEFINE a == work[c]
           b == [a EXCEPT !.gate = TRUE]
           d == [b EXCEPT !.drawn = a.drawn \union {new}]
<1>1. a \in WorkRow /\ a.drawn \in SUBSET (Families \X (1..MaxNumbers))
  BY WorkFields
<1>2. work' = [work EXCEPT ![c] = d]
  BY <1>1 DEF RegisterType
<1> HIDE DEF a
<1>3. b \in WorkRow /\ b.drawn = a.drawn /\ b.rows = a.rows /\ b.gate = TRUE /\ b.chain = a.chain
  BY <1>1 DEF WorkRow
<1> HIDE DEF b
<1>4. /\ d \in WorkRow /\ d.drawn = a.drawn \union {new} /\ d.rows = b.rows
      /\ d.gate = b.gate /\ d.chain = b.chain
  BY <1>1, <1>3 DEF WorkRow
<1> HIDE DEF d
<1>5. work' \in [Clients -> WorkRow] /\ work'[c] = d /\ \A o \in Clients : o # c => work'[o] = work[o]
  BY <1>2, <1>4 DEF RegisterType
<1>6. QED
  BY <1>3, <1>4, <1>5 DEF a

\* A transaction that writes an audit row holds the chain.
LEMMA AuditWork ==
  ASSUME RegisterType, NEW c \in Clients, NEW new \in Books!AuditRow,
         work' = [work EXCEPT ![c].chain = TRUE, ![c].rows = Append(@, new)]
  PROVE  /\ work' \in [Clients -> WorkRow]
         /\ \A d \in Clients : d # c => work'[d] = work[d]
         /\ work'[c].chain /\ work'[c].rows = Append(work[c].rows, new)
         /\ work'[c].drawn = work[c].drawn /\ work'[c].gate = work[c].gate
<1> DEFINE a == work[c]
           b == [a EXCEPT !.chain = TRUE]
           d == [b EXCEPT !.rows = Append(a.rows, new)]
<1>1. a \in WorkRow /\ a.rows \in Seq(Books!AuditRow)
  BY WorkFields
<1>2. work' = [work EXCEPT ![c] = d]
  BY <1>1 DEF RegisterType
<1> HIDE DEF a
<1>3. b \in WorkRow /\ b.drawn = a.drawn /\ b.rows = a.rows /\ b.gate = a.gate /\ b.chain = TRUE
  BY <1>1 DEF WorkRow
<1> HIDE DEF b
<1>4. /\ d \in WorkRow /\ d.rows = Append(a.rows, new) /\ d.drawn = b.drawn
      /\ d.gate = b.gate /\ d.chain = b.chain
  <2> DEFINE rows == Append(a.rows, new)
  <2>1. rows \in Seq(Books!AuditRow)
    BY <1>1, AppendProperties
  <2> HIDE DEF rows
  <2>2. QED
    BY <1>3, <2>1 DEF WorkRow, rows
<1> HIDE DEF d
<1>5. work' \in [Clients -> WorkRow] /\ work'[c] = d /\ \A o \in Clients : o # c => work'[o] = work[o]
  BY <1>2, <1>4 DEF RegisterType
<1>6. QED
  BY <1>3, <1>4, <1>5 DEF a

\* A transaction that ends has drawn and written nothing.
LEMMA EndedWork ==
  ASSUME RegisterType, NEW c \in Clients, work' = [work EXCEPT ![c] = Books!NoWork]
  PROVE  /\ work' \in [Clients -> WorkRow]
         /\ \A d \in Clients : d # c => work'[d] = work[d]
         /\ work'[c] = Books!NoWork
         /\ Books!NoWork.drawn = {} /\ Books!NoWork.rows = <<>> /\ Books!NoWork.gate = FALSE /\ Books!NoWork.chain = FALSE
<1>1. Books!NoWork \in WorkRow
  BY EmptySeq DEF Books!NoWork, WorkRow
<1>2. Books!NoWork.drawn = {} /\ Books!NoWork.rows = <<>> /\ Books!NoWork.gate = FALSE /\ Books!NoWork.chain = FALSE
  BY DEF Books!NoWork
<1>3. QED
  BY <1>1, <1>2 DEF RegisterType

\* The next number of a family that was drawn without a gap.
LEMMA NextNumberIs ==
  ASSUME BooksAssumption, RegisterType, NEW c \in Clients, NEW f \in Families, NEW k \in Nat,
         numbers[f] \union Books!Drawn(c, f) = 1..k
  PROVE  k <= MaxNumbers /\ Books!NextNumber(c, f) = k + 1
<1>1. k <= MaxNumbers
  <2>1. Books!Drawn(c, f) \subseteq 1..MaxNumbers
    BY WorkFields DEF Books!Drawn
  <2>2. numbers[f] \subseteq 1..MaxNumbers
    BY DEF RegisterType
  <2>3. 1..k \subseteq 1..MaxNumbers
    BY <2>1, <2>2
  <2>4. k \in 1..k \/ k = 0
    OBVIOUS
  <2>5. QED
    BY <2>3, <2>4 DEF BooksAssumption
<1> DEFINE Next1(n) == (\A m \in 1..k : m < n) /\ (n = 1 \/ n - 1 \in 1..k)
<1>2. Books!NextNumber(c, f) = CHOOSE n \in 1..(MaxNumbers + 1) : Next1(n)
  BY DEF Books!NextNumber
<1>3. k + 1 \in 1..(MaxNumbers + 1) /\ Next1(k + 1)
  BY <1>1 DEF BooksAssumption
<1>4. \A n \in 1..(MaxNumbers + 1) : Next1(n) => n = k + 1
  <2> SUFFICES ASSUME NEW n \in 1..(MaxNumbers + 1), Next1(n)
               PROVE  n = k + 1
    OBVIOUS
  <2>1. n \in Int /\ n >= 1
    OBVIOUS
  <2>2. k = 0 \/ k < n
    <3>1. k = 0 \/ k \in 1..k
      OBVIOUS
    <3>2. QED
      BY <3>1
  <2>3. n = 1 \/ n <= k + 1
    BY <2>1
  <2>4. QED
    BY <2>1, <2>2, <2>3
<1> HIDE DEF Next1
<1>5. QED
  BY <1>1, <1>2, <1>3, <1>4

-----------------------------------------------------------------------------
\* Each action keeps the invariant

LEMMA BooksInitHolds == ASSUME BooksAssumption, Books!Init PROVE BooksInv
<1>1. /\ logs = <<>> /\ truth = <<>> /\ anchor.head = <<>> /\ anchor.count = 0
      /\ losses = 0 /\ verifier = Books!NoVerifier
      /\ \A f \in Families : numbers[f] = {}
      /\ \A c \in Clients : work[c] = Books!NoWork
  BY DEF Books!Init
<1>2. Books!NoWork.drawn = {} /\ Books!NoWork.rows = <<>> /\ Books!NoWork.gate = FALSE /\ Books!NoWork.chain = FALSE
  BY DEF Books!NoWork
<1>3. RegisterType
  <2>1. Books!NoWork \in WorkRow /\ <<>> \in Seq(Contents)
    BY EmptySeq DEF Books!NoWork, WorkRow
  <2>2. Books!NoVerifier \in Verifier
    BY EmptySeq DEF Books!NoVerifier, Verifier
  <2>3. <<>> \in Seq(Books!AuditRow) /\ 0 \in 0..MaxLosses
    BY EmptySeq DEF BooksAssumption
  <2>4. QED
    BY <2>1, <2>2, <2>3 DEF RegisterType, Books!Init
<1>4. LocksInv
  BY <1>1, <1>2 DEF LocksInv
<1>5. NumbersInv
  <2>1. \A f \in Families : numbers[f] = 1..0
    BY <1>1
  <2>2. \A f \in Families, c \in Clients : Books!Drawn(c, f) = {}
    BY <1>1, <1>2 DEF Books!Drawn
  <2>3. \A f \in Families : \A c \in Clients : numbers[f] \union Books!Drawn(c, f) = 1..0
    BY <2>1, <2>2
  <2>4. QED
    <3>1. Segment(1..0)
      BY DEF Segment
    <3>2. \A f \in Families : Segment(numbers[f]) /\ \A c \in Clients : Segment(numbers[f] \union Books!Drawn(c, f))
      BY <2>1, <2>3, <3>1
    <3>3. QED
      BY <1>1, <1>2, <3>2 DEF NumbersInv
<1>6. ChainInv
  <2>1. Len(logs) = 0 /\ Len(truth) = 0
    BY <1>1, EmptySeq
  <2>2. \A c \in Clients : Len(work[c].rows) = 0
    BY <1>1, <1>2, EmptySeq
  <2>3. Says(logs) = truth
    BY <1>1 DEF Says
  <2>4. QED
    BY <1>1, <2>1, <2>2, <2>3 DEF ChainInv, Chained, Whole
<1>7. VerifierInv
  BY <1>1 DEF VerifierInv, Books!NoVerifier
<1>8. QED
  BY <1>3, <1>4, <1>5, <1>6, <1>7 DEF BooksInv

\* What a step leaves alone keeps its part of the invariant.
LEMMA ChainAlone ==
  ASSUME ChainInv, UNCHANGED <<logs, truth, anchor, losses>>,
         \A c \in Clients : work'[c].rows = work[c].rows
  PROVE  ChainInv'
BY DEF ChainInv, Whole

LEMMA NumbersAlone ==
  ASSUME NumbersInv, UNCHANGED numbers,
         \A c \in Clients : work'[c].drawn = work[c].drawn
  PROVE  NumbersInv'
BY DEF NumbersInv, Books!Drawn

LEMMA VerifierAlone ==
  ASSUME VerifierInv, UNCHANGED <<verifier, logs, truth, losses>>
  PROVE  VerifierInv'
BY DEF VerifierInv

\* The number drawn under the gate is the next one, and nobody else's.
LEMMA DrawKeeps ==
  ASSUME BooksAssumption, BooksInv, NEW c \in Clients, NEW f \in Families, Books!Draw(c, f)
  PROVE  BooksInv'
<1>1. RegisterType
  BY DEF BooksInv
<1>2. PICK k \in Nat : numbers[f] \union Books!Drawn(c, f) = 1..k
  BY DEF BooksInv, NumbersInv, Segment
<1> DEFINE n == Books!NextNumber(c, f)
<1>3. k <= MaxNumbers /\ n = k + 1
  BY <1>1, <1>2, NextNumberIs
<1>4. n <= MaxNumbers /\ Books!GateFree(c)
  BY DEF Books!Draw
<1> DEFINE new == <<f, n>>
<1>5. new \in Families \X (1..MaxNumbers)
  BY <1>3, <1>4 DEF BooksAssumption
<1>6. work' = [work EXCEPT ![c].gate = TRUE, ![c].drawn = @ \union {new}]
  BY DEF Books!Draw
<1>7. UNCHANGED <<numbers, logs, anchor, verifier, truth, losses>>
  BY DEF Books!Draw
<1> HIDE DEF n
<1>8. /\ work' \in [Clients -> WorkRow]
      /\ \A d \in Clients : d # c => work'[d] = work[d]
      /\ work'[c].gate /\ work'[c].drawn = work[c].drawn \union {new}
      /\ work'[c].rows = work[c].rows /\ work'[c].chain = work[c].chain
  BY <1>1, <1>5, <1>6, DrawWork
<1>9. RegisterType'
  BY <1>1, <1>7, <1>8 DEF RegisterType
<1>10. \A d \in Clients : d # c => ~work[d].gate /\ work[d].drawn = {}
  BY <1>4 DEF Books!GateFree, Books!Others, BooksInv, LocksInv
<1>11. LocksInv'
  <2>1. \A d \in Clients : (work'[d].drawn # {} => work'[d].gate) /\ (work'[d].rows # <<>> => work'[d].chain)
    BY <1>8 DEF BooksInv, LocksInv
  <2>2. \A d, o \in Clients : d # o => ~(work'[d].gate /\ work'[o].gate)
    BY <1>8, <1>10 DEF BooksInv, LocksInv
  <2>3. \A d, o \in Clients : d # o => ~(work'[d].chain /\ work'[o].chain)
    BY <1>8 DEF BooksInv, LocksInv
  <2>4. QED
    BY <2>1, <2>2, <2>3 DEF LocksInv
<1>12. ASSUME NEW g \in Families
       PROVE  /\ Books!Drawn(c, g)' = IF g = f THEN Books!Drawn(c, g) \union {n} ELSE Books!Drawn(c, g)
              /\ \A d \in Clients : d # c => Books!Drawn(d, g)' = Books!Drawn(d, g)
  <2>1. /\ \A d \in Clients : Books!Drawn(d, g) = NumbersOf(work[d].drawn, g)
        /\ \A d \in Clients : Books!Drawn(d, g)' = NumbersOf(work'[d].drawn, g)
    BY DEF Books!Drawn, NumbersOf
  <2>2. \A d \in Clients : d # c => Books!Drawn(d, g)' = Books!Drawn(d, g)
    BY <1>8, <2>1
  <2> DEFINE before == work[c].drawn
             after == work'[c].drawn
  <2>3. /\ before \in SUBSET (Families \X (1..MaxNumbers))
        /\ after \in SUBSET (Families \X (1..MaxNumbers))
        /\ after = before \union {new}
    BY <1>1, <1>8, WorkFields DEF WorkRow
  <2> HIDE DEF before, after
  <2>4. ASSUME NEW m
        PROVE  m \in NumbersOf(after, g) <=> m \in NumbersOf(before, g) \/ (g = f /\ m = n)
    <3>1. <<g, m>> \in after <=> <<g, m>> \in before \/ (g = f /\ m = n)
      BY <2>3
    <3>2. QED
      BY <2>3, <3>1, NumbersOfFamily
  <2>5. NumbersOf(after, g) = IF g = f THEN NumbersOf(before, g) \union {n} ELSE NumbersOf(before, g)
    BY <2>4
  <2>6. QED
    BY <2>1, <2>2, <2>5 DEF before, after
<1>13. NumbersInv'
  <2>1. ASSUME NEW g \in Families, NEW d \in Clients
        PROVE  Segment(numbers[g] \union Books!Drawn(d, g))'
    <3>1. CASE d = c /\ g = f
      <4>1. (numbers[g] \union Books!Drawn(d, g))' = (1..k) \union {k + 1}
        BY <1>2, <1>3, <1>7, <1>12, <3>1
      <4>2. (1..k) \union {k + 1} = 1..(k + 1) /\ k + 1 \in Nat
        OBVIOUS
      <4>3. QED
        BY <4>1, <4>2 DEF Segment
    <3>2. CASE ~(d = c /\ g = f)
      BY <1>7, <1>12, <3>2 DEF BooksInv, NumbersInv, Segment
    <3>3. QED
      BY <3>1, <3>2
  <2>2. n \notin numbers[f]
    BY <1>2, <1>3
  <2>3. \A d \in Clients : \A x \in work'[d].drawn : x[2] \notin numbers[x[1]]
    BY <1>8, <2>2 DEF BooksInv, NumbersInv
  <2>4. QED
    BY <1>7, <2>1, <2>3 DEF NumbersInv, BooksInv
<1>14. ChainInv'
  BY <1>7, <1>8, ChainAlone DEF BooksInv
<1>15. VerifierInv'
  BY <1>7, VerifierAlone DEF BooksInv
<1>16. QED
  BY <1>9, <1>11, <1>13, <1>14, <1>15 DEF BooksInv

\* A digest is a sequence of contents.
LEMMA HashTyped ==
  ASSUME NEW rows \in Seq(Books!AuditRow)
  PROVE  Books!HashOf(rows) \in Seq(Contents)
<1>1. CASE rows = <<>>
  BY <1>1, EmptySeq DEF Books!HashOf
<1>2. CASE rows # <<>>
  <2>1. Len(rows) \in 1..Len(rows)
    BY <1>2, EmptySeq
  <2>2. rows[Len(rows)] \in Books!AuditRow
    BY <2>1, ElementOfSeq
  <2>3. QED
    BY <1>2, <2>2 DEF Books!HashOf, Books!AuditRow
<1>3. QED
  BY <1>1, <1>2

\* A row appended to a chain, with the digest of the chain, carries it on.
LEMMA ChainGrows ==
  ASSUME NEW rows \in Seq(Books!AuditRow), NEW all \in Seq(Contents), NEW from \in Nat,
         Len(all) = from + Len(rows), Chained(rows, all, from), NEW row \in Books!AuditRow,
         row.prev = all, row.hash = Append(all, row.content)
  PROVE  Chained(Append(rows, row), Append(all, row.content), from)
<1> DEFINE more == Append(all, row.content)
           longer == Append(rows, row)
<1>1. /\ longer \in Seq(Books!AuditRow) /\ Len(longer) = Len(rows) + 1 /\ Len(rows) \in Nat
      /\ (\A i \in 1..Len(rows) : longer[i] = rows[i]) /\ longer[Len(rows) + 1] = row
  BY AppendProperties, LenProperties
<1>2. row.content \in Contents /\ <<row.content>> \in Seq(Contents)
  BY DEF Books!AuditRow
<1>3. more = all \o <<row.content>> /\ more \in Seq(Contents) /\ Len(more) = Len(all) + 1 /\ Len(all) \in Nat
  BY <1>2, AppendIsConcat, AppendProperties, LenProperties
<1>4. ASSUME NEW n \in 0..Len(all)
      PROVE  Prefix(more, n) = Prefix(all, n)
  <2> DEFINE tail == <<row.content>>
  <2>1. tail \in Seq(Contents) /\ more = all \o tail
    BY <1>2, <1>3
  <2> HIDE DEF tail
  <2>2. Prefix(all \o tail, n) = Prefix(all, n)
    BY <2>1, PrefixOfConcat
  <2>3. QED
    BY <2>1, <2>2
<1>5. Prefix(all, Len(all)) = all /\ Prefix(more, Len(more)) = more
  BY <1>3, PrefixAll
<1> HIDE DEF more, longer
<1> SUFFICES ASSUME NEW i \in 1..(Len(rows) + 1)
             PROVE  longer[i].prev = Prefix(more, from + i - 1) /\ longer[i].hash = Prefix(more, from + i)
  BY <1>1 DEF Chained, longer, more
<1>6. CASE i <= Len(rows)
  <2>1. i \in 1..Len(rows) /\ from + i - 1 \in 0..Len(all) /\ from + i \in 0..Len(all)
    BY <1>1, <1>6
  <2>2. rows[i].prev = Prefix(all, from + i - 1) /\ rows[i].hash = Prefix(all, from + i)
    BY <2>1 DEF Chained
  <2>3. QED
    BY <1>1, <1>4, <2>1, <2>2
<1>7. CASE i = Len(rows) + 1
  <2>1. from + i - 1 = Len(all) /\ from + i = Len(more) /\ Len(all) \in 0..Len(all)
    BY <1>1, <1>3, <1>7
  <2>2. Prefix(more, Len(all)) = all
    BY <1>4, <1>5, <2>1
  <2>3. longer[i] = row
    BY <1>1, <1>7
  <2>4. QED
    BY <1>5, <2>1, <2>2, <2>3 DEF more
<1>8. QED
  BY <1>1, <1>6, <1>7

\* The row written under the chain's lock carries the chain on.
LEMMA AuditKeeps ==
  ASSUME BooksAssumption, BooksInv, NEW c \in Clients, NEW x \in Contents, Books!Audit(c, x)
  PROVE  BooksInv'
<1> DEFINE rows == work[c].rows
           prev == Books!HashOf(logs \o rows)
           new == [content |-> x, prev |-> prev, hash |-> Append(prev, x)]
<1>1. /\ RegisterType /\ rows \in Seq(Books!AuditRow) /\ logs \in Seq(Books!AuditRow)
      /\ truth \in Seq(Contents) /\ Len(truth) \in Nat /\ Len(rows) \in Nat
      /\ Says(rows) \in Seq(Contents)
      /\ truth \o Says(rows) \in Seq(Contents)
      /\ Len(truth \o Says(rows)) = Len(truth) + Len(rows)
  BY ChainTypes DEF BooksInv, RegisterType
<1>2. prev \in Seq(Contents)
  <2>1. logs \o rows \in Seq(Books!AuditRow)
    BY <1>1, ConcatProperties
  <2>2. QED
    BY <2>1, HashTyped
<1>3. UNCHANGED <<numbers, logs, anchor, verifier, truth, losses>> /\ Books!ChainFree(c)
  BY DEF Books!Audit
<1>4. work' = [work EXCEPT ![c].chain = TRUE, ![c].rows = Append(@, new)]
  BY DEF Books!Audit, Books!Digest
<1> HIDE DEF prev
<1>5. new \in Books!AuditRow /\ new.content = x /\ new.prev = prev /\ new.hash = Append(prev, x)
  BY <1>2, AppendProperties DEF Books!AuditRow
<1> HIDE DEF new
<1>6. /\ work' \in [Clients -> WorkRow]
      /\ \A d \in Clients : d # c => work'[d] = work[d]
      /\ work'[c].chain /\ work'[c].rows = Append(work[c].rows, new)
      /\ work'[c].drawn = work[c].drawn /\ work'[c].gate = work[c].gate
  BY <1>1, <1>4, <1>5, AuditWork
<1>7. RegisterType'
  BY <1>1, <1>3, <1>6 DEF RegisterType
<1>8. \A d \in Clients : d # c => ~work[d].chain
  BY <1>3 DEF Books!ChainFree, Books!Others
<1>9. LocksInv'
  <2>1. \A d \in Clients : (work'[d].drawn # {} => work'[d].gate) /\ (work'[d].rows # <<>> => work'[d].chain)
    BY <1>6 DEF BooksInv, LocksInv
  <2>2. \A d, o \in Clients : d # o => ~(work'[d].gate /\ work'[o].gate)
    BY <1>6 DEF BooksInv, LocksInv
  <2>3. \A d, o \in Clients : d # o => ~(work'[d].chain /\ work'[o].chain)
    BY <1>6, <1>8 DEF BooksInv, LocksInv
  <2>4. QED
    BY <2>1, <2>2, <2>3 DEF LocksInv
<1>10. NumbersInv'
  BY <1>3, <1>6, NumbersAlone DEF BooksInv
<1>11. ChainInv'
  <2>1. ASSUME Whole, NEW d \in Clients
        PROVE  Chained(work'[d].rows, truth \o Says(work'[d].rows), Len(truth))
    <3>1. CASE d # c
      BY <1>6, <2>1, <3>1 DEF BooksInv, ChainInv
    <3>2. CASE d = c
      <4> DEFINE all == truth \o Says(rows)
      <4>1. prev = all
        BY <1>1, <2>1, HeadSaysAll DEF BooksInv, prev
      <4>2. Chained(rows, all, Len(truth))
        BY <2>1 DEF BooksInv, ChainInv
      <4>3. truth \o Says(Append(rows, new)) = Append(all, x)
        <5> DEFINE said == Says(rows)
        <5>1. Says(Append(rows, new)) = Append(said, x)
          BY <1>1, <1>5, SaysAppend
        <5>2. said \in Seq(Contents)
          BY <1>1
        <5> HIDE DEF said
        <5>3. truth \o Append(said, x) = Append(truth \o said, x)
          BY <1>1, <5>2, ContentsAppend
        <5>4. QED
          BY <5>1, <5>3 DEF said
      <4> HIDE DEF rows
      <4>4. all \in Seq(Contents) /\ Len(all) = Len(truth) + Len(rows)
        BY <1>1
      <4> HIDE DEF all
      <4>5. Chained(Append(rows, new), Append(all, x), Len(truth))
        BY <1>1, <1>5, <4>1, <4>2, <4>4, ChainGrows
      <4>6. QED
        BY <1>6, <3>2, <4>3, <4>5 DEF rows
    <3>3. QED
      BY <3>1, <3>2
  <2>2. QED
    BY <1>3, <2>1 DEF BooksInv, ChainInv, Whole
<1>12. VerifierInv'
  BY <1>3, VerifierAlone DEF BooksInv
<1>13. QED
  BY <1>7, <1>9, <1>10, <1>11, <1>12 DEF BooksInv

\* What is committed carries the chain on, and the others have written nothing.
LEMMA CommitKeeps ==
  ASSUME BooksAssumption, BooksInv, NEW c \in Clients, Books!Commit(c)
  PROVE  BooksInv'
<1> DEFINE rows == work[c].rows
           said == Says(rows)
<1>1. /\ RegisterType /\ rows \in Seq(Books!AuditRow) /\ logs \in Seq(Books!AuditRow)
      /\ truth \in Seq(Contents) /\ Len(truth) \in Nat /\ Len(rows) \in Nat /\ Len(logs) \in Nat
      /\ said \in Seq(Contents) /\ Len(said) = Len(rows)
      /\ truth \o said \in Seq(Contents)
      /\ Len(truth \o said) = Len(truth) + Len(rows)
  BY ChainTypes DEF BooksInv, RegisterType
<1>2. /\ numbers' = [f \in Families |-> numbers[f] \union Books!Drawn(c, f)]
      /\ logs' = logs \o rows
      /\ anchor' = Books!Anchored(rows)
      /\ truth' = truth \o said
      /\ work' = [work EXCEPT ![c] = Books!NoWork]
      /\ verifier' = [verifier EXCEPT !.appended = @ \/ rows # <<>>]
      /\ losses' = losses
  BY DEF Books!Commit, Says
<1>3. /\ work' \in [Clients -> WorkRow]
      /\ \A d \in Clients : d # c => work'[d] = work[d]
      /\ work'[c] = Books!NoWork
      /\ Books!NoWork.drawn = {} /\ Books!NoWork.rows = <<>> /\ Books!NoWork.gate = FALSE /\ Books!NoWork.chain = FALSE
  BY <1>1, <1>2, EndedWork
<1> HIDE DEF rows, said
<1>4. /\ logs' \in Seq(Books!AuditRow) /\ Len(logs') = Len(logs) + Len(rows)
      /\ \A i \in 1..Len(logs) + Len(rows) : logs'[i] = IF i <= Len(logs) THEN logs[i] ELSE rows[i - Len(logs)]
  BY <1>1, <1>2, ConcatProperties
<1>5. truth' \in Seq(Contents) /\ Len(truth') = Len(truth) + Len(rows)
  BY <1>1, <1>2
<1>6. ASSUME rows = <<>>
      PROVE  ChainInv' /\ VerifierInv' /\ anchor' \in [head : Seq(Contents), count : Nat] /\ verifier' \in Verifier
  <2>1. Len(rows) = 0 /\ said = <<>>
    BY <1>1, <1>6, EmptySeq
  <2>2. logs' = logs /\ truth' = truth /\ anchor' = anchor
    BY <1>1, <1>2, <1>6, <2>1, ConcatEmptySeq DEF Books!Anchored
  <2>3. verifier' = verifier
    BY <1>2, <1>6 DEF BooksInv, RegisterType, Verifier
  <2>4. ChainInv'
    <3>1. \A d \in Clients : work'[d].rows = work[d].rows
      BY <1>3, <1>6 DEF rows
    <3>2. QED
      BY <1>2, <2>2, <3>1, ChainAlone DEF BooksInv
  <2>5. VerifierInv'
    BY <1>2, <2>2, <2>3, VerifierAlone DEF BooksInv
  <2>6. anchor' \in [head : Seq(Contents), count : Nat] /\ verifier' \in Verifier
    BY <2>2, <2>3 DEF BooksInv, RegisterType
  <2>7. QED
    BY <2>4, <2>5, <2>6
<1>7. ASSUME rows # <<>>
      PROVE  ChainInv' /\ VerifierInv' /\ anchor' \in [head : Seq(Contents), count : Nat] /\ verifier' \in Verifier
  <2>1. Len(rows) > 0 /\ Len(rows) \in 1..Len(rows)
    BY <1>1, <1>7, EmptySeq
  <2>2. \A d \in Clients : d # c => work[d].rows = <<>>
    BY <1>7 DEF BooksInv, LocksInv, rows
  <2>3. \A d \in Clients : work'[d].rows = <<>>
    BY <1>3, <2>2
  <2>4. Books!HashOf(rows) = rows[Len(rows)].hash /\ Books!HashOf(rows) \in Seq(Contents)
    BY <1>1, <1>7, HashTyped DEF Books!HashOf
  <2>5. anchor'.head = Books!HashOf(rows) /\ anchor'.count = anchor.count + Len(rows)
    BY <1>2, <1>7 DEF Books!Anchored
  <2>6. anchor' \in [head : Seq(Contents), count : Nat]
    <3>1. anchor.count + Len(rows) \in Nat
      BY <1>1 DEF RegisterType
    <3>2. QED
      BY <1>2, <1>7, <2>4, <3>1 DEF Books!Anchored
  <2>7. Prefix(truth', Len(truth')) = truth'
    BY <1>5, PrefixAll
  <2>8. Whole' <=> Whole
    BY <1>1, <1>4, <1>5 DEF Whole
  <2>9. ASSUME Whole
        PROVE  Books!HashOf(rows) = truth'
    <3>1. rows[Len(rows)].hash = Prefix(truth', Len(truth) + Len(rows))
      BY <1>2, <2>1, <2>9 DEF BooksInv, ChainInv, Chained, rows, said
    <3>2. QED
      BY <1>5, <2>4, <2>7, <3>1
  <2>10. ASSUME Whole
         PROVE  Chained(logs', truth', 0)
    <3>1. Chained(logs, truth, 0) /\ Chained(rows, truth', Len(truth)) /\ Len(logs) = Len(truth)
      BY <1>2, <2>10 DEF BooksInv, ChainInv, rows, said, Whole
    <3> SUFFICES ASSUME NEW i \in 1..Len(logs) + Len(rows)
                 PROVE  logs'[i].prev = Prefix(truth', 0 + i - 1) /\ logs'[i].hash = Prefix(truth', 0 + i)
      BY <1>4 DEF Chained
    <3>2. CASE i <= Len(logs)
      <4>1. i \in 1..Len(logs) /\ 0 + i - 1 \in 0..Len(truth) /\ 0 + i \in 0..Len(truth)
        BY <1>1, <3>1, <3>2
      <4>2. logs[i].prev = Prefix(truth, 0 + i - 1) /\ logs[i].hash = Prefix(truth, 0 + i)
        BY <3>1, <4>1 DEF Chained
      <4>3. \A n \in 0..Len(truth) : Prefix(truth \o said, n) = Prefix(truth, n)
        BY <1>1, PrefixOfConcat
      <4>4. QED
        BY <1>2, <1>4, <3>2, <4>1, <4>2, <4>3
    <3>3. CASE i > Len(logs)
      <4> DEFINE j == i - Len(logs)
      <4>1. j \in 1..Len(rows) /\ Len(truth) + j = i
        BY <1>1, <3>1, <3>3
      <4>2. logs'[i] = rows[j]
        BY <1>1, <1>4, <3>3
      <4> HIDE DEF j
      <4>3. rows[j].prev = Prefix(truth', Len(truth) + j - 1) /\ rows[j].hash = Prefix(truth', Len(truth) + j)
        BY <3>1, <4>1 DEF Chained
      <4>4. Len(truth) + j - 1 = 0 + i - 1 /\ Len(truth) + j = 0 + i
        BY <1>1, <4>1
      <4>5. QED
        BY <4>2, <4>3, <4>4
    <3>4. QED
      BY <1>1, <3>2, <3>3
  <2>11. ChainInv'
    <3>1. anchor'.count = Len(truth') /\ Len(logs') <= Len(truth')
      BY <1>1, <1>4, <1>5, <2>5 DEF BooksInv, ChainInv
    <3>2. Whole' => Chained(logs', truth', 0)
      BY <2>8, <2>10
    <3>3. \A d \in Clients : Chained(work'[d].rows, truth' \o Says(work'[d].rows), Len(truth'))
      <4>1. Len(<<>>) = 0
        BY EmptySeq
      <4>2. QED
        BY <2>3, <4>1 DEF Chained
    <3>4. losses' = 0 => Whole' /\ Says(logs') = truth' /\ anchor'.head = truth'
      <4> SUFFICES ASSUME losses = 0
                   PROVE  Whole' /\ Says(logs') = truth' /\ anchor'.head = truth'
        BY <1>2
      <4>1. Whole /\ Says(logs) = truth
        BY DEF BooksInv, ChainInv
      <4>2. Says(logs \o rows) = Says(logs) \o Says(rows)
        BY <1>1, SaysConcat
      <4>3. QED
        BY <1>2, <2>5, <2>8, <2>9, <4>1, <4>2 DEF said
    <3>5. QED
      BY <3>1, <3>2, <3>3, <3>4 DEF ChainInv, Whole
  <2>12. /\ verifier' \in Verifier /\ verifier'.appended
         /\ verifier'.at = verifier.at /\ verifier'.altered = verifier.altered
    BY <1>2, <1>7 DEF BooksInv, RegisterType, Verifier
  <2>13. VerifierInv'
    BY <1>2, <2>12 DEF BooksInv, VerifierInv
  <2>14. QED
    BY <2>6, <2>11, <2>12, <2>13
<1>8. LocksInv'
  <2>1. \A d \in Clients : (work'[d].drawn # {} => work'[d].gate) /\ (work'[d].rows # <<>> => work'[d].chain)
    BY <1>3 DEF BooksInv, LocksInv
  <2>2. \A d, o \in Clients : d # o => ~(work'[d].gate /\ work'[o].gate) /\ ~(work'[d].chain /\ work'[o].chain)
    BY <1>3 DEF BooksInv, LocksInv
  <2>3. QED
    BY <2>1, <2>2 DEF LocksInv
<1>9. \A f \in Families : Books!Drawn(c, f) \subseteq 1..MaxNumbers
  BY <1>1, WorkFields DEF Books!Drawn
<1>10. NumbersInv'
  <2>1. \A f \in Families : Books!Drawn(c, f)' = {}
    BY <1>3 DEF Books!Drawn
  <2>2. ASSUME NEW f \in Families, NEW d \in Clients
        PROVE  Segment(numbers'[f]) /\ Segment((numbers[f] \union Books!Drawn(d, f))')
    <3>1. numbers'[f] = numbers[f] \union Books!Drawn(c, f) /\ Segment(numbers'[f])
      BY <1>2 DEF BooksInv, NumbersInv
    <3>2. CASE d = c
      BY <2>1, <3>1, <3>2
    <3>3. CASE d # c /\ work[c].drawn = {}
      <4>1. Books!Drawn(c, f) = {} /\ Books!Drawn(d, f)' = Books!Drawn(d, f)
        BY <1>3, <3>3 DEF Books!Drawn
      <4>2. (numbers[f] \union Books!Drawn(d, f))' = numbers[f] \union Books!Drawn(d, f)
        BY <3>1, <4>1
      <4>3. QED
        BY <3>1, <4>2 DEF BooksInv, NumbersInv
    <3>4. CASE d # c /\ work[c].drawn # {}
      <4>1. work[d].drawn = {}
        BY <3>4 DEF BooksInv, LocksInv
      <4>2. Books!Drawn(d, f)' = {}
        BY <1>3, <3>4, <4>1 DEF Books!Drawn
      <4>3. QED
        BY <3>1, <4>2
    <3>5. QED
      BY <3>2, <3>3, <3>4
  <2>3. ASSUME NEW d \in Clients, NEW x \in work'[d].drawn
        PROVE  x[2] \notin numbers'[x[1]]
    <3>1. d # c /\ x \in work[d].drawn
      BY <1>3, <2>3
    <3>2. work[c].drawn = {}
      BY <3>1 DEF BooksInv, LocksInv
    <3>3. x[1] \in Families
      BY <1>1, <3>1, WorkFields
    <3>4. numbers'[x[1]] = numbers[x[1]]
      BY <1>2, <3>2, <3>3 DEF Books!Drawn
    <3>5. QED
      BY <3>1, <3>4 DEF BooksInv, NumbersInv
  <2>4. \A f \in Families : Segment(numbers'[f]) /\ \A d \in Clients : Segment((numbers[f] \union Books!Drawn(d, f))')
    BY <2>2
  <2>5. QED
    BY <2>3, <2>4 DEF NumbersInv
<1>11. RegisterType'
  <2>1. numbers' \in [Families -> SUBSET (1..MaxNumbers)]
    BY <1>1, <1>2, <1>9 DEF RegisterType
  <2>2. losses' \in 0..MaxLosses
    BY <1>1, <1>2 DEF RegisterType
  <2>3. QED
    BY <1>3, <1>4, <1>5, <1>6, <1>7, <2>1, <2>2 DEF RegisterType
<1>12. QED
  BY <1>6, <1>7, <1>8, <1>10, <1>11 DEF BooksInv

\* What is rolled back was drawn and written by nobody.
LEMMA RollbackKeeps ==
  ASSUME BooksInv, NEW c \in Clients, Books!Rollback(c)
  PROVE  BooksInv'
<1>1. /\ RegisterType /\ work' = [work EXCEPT ![c] = Books!NoWork]
      /\ UNCHANGED <<numbers, logs, anchor, verifier, truth, losses>>
  BY DEF BooksInv, Books!Rollback
<1>2. /\ work' \in [Clients -> WorkRow]
      /\ \A d \in Clients : d # c => work'[d] = work[d]
      /\ work'[c] = Books!NoWork
      /\ Books!NoWork.drawn = {} /\ Books!NoWork.rows = <<>> /\ Books!NoWork.gate = FALSE /\ Books!NoWork.chain = FALSE
  BY <1>1, EndedWork
<1>3. RegisterType'
  BY <1>1, <1>2 DEF RegisterType
<1>4. LocksInv'
  <2>1. \A d \in Clients : (work'[d].drawn # {} => work'[d].gate) /\ (work'[d].rows # <<>> => work'[d].chain)
    BY <1>2 DEF BooksInv, LocksInv
  <2>2. \A d, o \in Clients : d # o => ~(work'[d].gate /\ work'[o].gate) /\ ~(work'[d].chain /\ work'[o].chain)
    BY <1>2 DEF BooksInv, LocksInv
  <2>3. QED
    BY <2>1, <2>2 DEF LocksInv
<1>5. NumbersInv'
  <2>1. ASSUME NEW f \in Families, NEW d \in Clients
        PROVE  Segment((numbers[f] \union Books!Drawn(d, f))')
    <3>1. CASE d = c
      <4>1. Books!Drawn(c, f)' = {}
        BY <1>2 DEF Books!Drawn
      <4>2. (numbers[f] \union Books!Drawn(d, f))' = numbers[f]
        BY <1>1, <3>1, <4>1
      <4>3. QED
        BY <4>2 DEF BooksInv, NumbersInv
    <3>2. CASE d # c
      <4>1. Books!Drawn(d, f)' = Books!Drawn(d, f)
        BY <1>2, <3>2 DEF Books!Drawn
      <4>2. QED
        BY <1>1, <4>1 DEF BooksInv, NumbersInv
    <3>3. QED
      BY <3>1, <3>2
  <2>2. \A d \in Clients : \A x \in work'[d].drawn : x[2] \notin numbers'[x[1]]
    BY <1>1, <1>2 DEF BooksInv, NumbersInv
  <2>3. QED
    BY <1>1, <2>1, <2>2 DEF NumbersInv, BooksInv
<1>6. ChainInv'
  <2>1. Chained(<<>>, truth \o Says(<<>>), Len(truth))
    BY EmptySeq DEF Chained
  <2>2. QED
    BY <1>1, <1>2, <2>1 DEF BooksInv, ChainInv, Whole
<1>7. VerifierInv'
  BY <1>1, VerifierAlone DEF BooksInv
<1>8. QED
  BY <1>3, <1>4, <1>5, <1>6, <1>7 DEF BooksInv

\* The requests are left alone when the log is damaged or verified.
LEMMA WorkAlone ==
  ASSUME BooksInv, UNCHANGED <<numbers, work>>
  PROVE  LocksInv' /\ NumbersInv'
<1>1. LocksInv'
  BY DEF BooksInv, LocksInv
<1>2. NumbersInv'
  BY NumbersAlone DEF BooksInv
<1>3. QED
  BY <1>1, <1>2

\* An altered row keeps its digests.
LEMMA AlterKeeps ==
  ASSUME BooksAssumption, BooksInv, NEW i \in 1..MaxRows, NEW x \in Contents, Books!Alter(i, x)
  PROVE  BooksInv'
<1>1. /\ RegisterType /\ logs \in Seq(Books!AuditRow) /\ Len(logs) \in Nat /\ DOMAIN logs = 1..Len(logs)
      /\ losses \in Nat /\ losses < MaxLosses /\ i \in 1..Len(logs)
      /\ losses' = losses + 1 /\ UNCHANGED <<numbers, anchor, work, truth>>
  BY LenProperties DEF BooksInv, RegisterType, Books!Alter, BooksAssumption
<1> DEFINE row == [logs[i] EXCEPT !.content = x]
<1>2. row \in Books!AuditRow /\ row.prev = logs[i].prev /\ row.hash = logs[i].hash
  <2>1. logs[i] \in Books!AuditRow
    BY <1>1, ElementOfSeq
  <2>2. QED
    BY <2>1 DEF Books!AuditRow
<1>3. logs' = [logs EXCEPT ![i] = row]
  BY <1>1 DEF Books!Alter
<1> HIDE DEF row
<1>4. /\ logs' \in Seq(Books!AuditRow) /\ Len(logs') = Len(logs)
      /\ \A j \in 1..Len(logs) : logs'[j] = IF j = i THEN row ELSE logs[j]
  BY <1>1, <1>2, <1>3, ExceptSeq
<1>5. /\ verifier' \in Verifier /\ verifier'.at = verifier.at /\ verifier'.altered
      /\ verifier'.appended = verifier.appended
  BY DEF BooksInv, RegisterType, Verifier, Books!Alter
<1>6. RegisterType'
  <2>1. losses' \in 0..MaxLosses
    BY <1>1 DEF BooksAssumption
  <2>2. QED
    BY <1>1, <1>4, <1>5, <2>1 DEF RegisterType
<1>7. ChainInv'
  <2>1. \A j \in 1..Len(logs) : logs'[j].prev = logs[j].prev /\ logs'[j].hash = logs[j].hash
    BY <1>2, <1>4
  <2>2. Chained(logs, truth, 0) => Chained(logs', truth, 0)
    BY <1>4, <2>1 DEF Chained
  <2>3. Whole' <=> Whole
    BY <1>1, <1>4 DEF Whole
  <2>4. losses' # 0
    BY <1>1
  <2>5. QED
    BY <1>1, <1>4, <2>2, <2>3, <2>4 DEF BooksInv, ChainInv
<1>8. VerifierInv'
  BY <1>1, <1>5 DEF BooksInv, VerifierInv
<1>9. QED
  BY <1>1, <1>6, <1>7, <1>8, WorkAlone DEF BooksInv

\* After a lost row the log is shorter than what was written, for good.
LEMMA LoseKeeps ==
  ASSUME BooksAssumption, BooksInv, NEW i \in 1..MaxRows, Books!Lose(i)
  PROVE  BooksInv'
<1>1. /\ RegisterType /\ logs \in Seq(Books!AuditRow) /\ Len(logs) \in Nat /\ DOMAIN logs = 1..Len(logs)
      /\ losses \in Nat /\ losses < MaxLosses /\ i \in 1..Len(logs) /\ Len(truth) \in Nat
      /\ losses' = losses + 1 /\ UNCHANGED <<numbers, anchor, work, truth>>
  <2>1. Len(truth) \in Nat /\ Len(logs) \in Nat /\ DOMAIN logs = 1..Len(logs)
    BY LenProperties DEF BooksInv, RegisterType
  <2>2. QED
    BY <2>1 DEF BooksInv, RegisterType, Books!Lose, BooksAssumption
<1> DEFINE before == SubSeq(logs, 1, i - 1)
           after == SubSeq(logs, i + 1, Len(logs))
<1>2. \A j \in 1..Len(logs) : logs[j] \in Books!AuditRow
  BY <1>1, ElementOfSeq
<1>3. before \in Seq(Books!AuditRow) /\ Len(before) = i - 1
  <2>1. 1 \in Int /\ i - 1 \in Int /\ \A j \in 1..(i - 1) : logs[j] \in Books!AuditRow
    BY <1>1, <1>2
  <2>2. before \in Seq(Books!AuditRow) /\ Len(before) = IF 1 <= i - 1 THEN i - 1 - 1 + 1 ELSE 0
    BY <2>1, SubSeqProperties
  <2>3. QED
    BY <1>1, <2>2
<1>4. after \in Seq(Books!AuditRow) /\ Len(after) = Len(logs) - i
  <2>1. ASSUME NEW first, first = i + 1, NEW last, last = Len(logs)
        PROVE  /\ SubSeq(logs, first, last) \in Seq(Books!AuditRow)
               /\ Len(SubSeq(logs, first, last)) = IF first <= last THEN last - first + 1 ELSE 0
    <3>1. first \in Int /\ last \in Int /\ \A j \in first..last : logs[j] \in Books!AuditRow
      BY <1>1, <1>2, <2>1
    <3>2. QED
      BY <3>1, SubSeqProperties
  <2>2. /\ after \in Seq(Books!AuditRow)
        /\ Len(after) = IF i + 1 <= Len(logs) THEN Len(logs) - (i + 1) + 1 ELSE 0
    BY <2>1
  <2> HIDE DEF after
  <2> DEFINE n == Len(logs)
  <2>3. n \in Nat /\ i \in 1..n /\ Len(after) = IF i + 1 <= n THEN n - (i + 1) + 1 ELSE 0
    BY <1>1, <2>2
  <2> HIDE DEF n
  <2>4. Len(after) = n - i
    BY <2>3
  <2>5. QED
    BY <2>2, <2>4 DEF n
<1>5. logs' = before \o after
  BY DEF Books!Lose
<1> HIDE DEF before, after
<1>6. logs' \in Seq(Books!AuditRow) /\ Len(logs') = Len(logs) - 1
  <2>1. logs' \in Seq(Books!AuditRow) /\ Len(logs') = Len(before) + Len(after)
    BY <1>3, <1>4, <1>5, ConcatProperties
  <2>2. QED
    BY <1>1, <1>3, <1>4, <2>1
<1>7. /\ verifier' \in Verifier /\ verifier'.at = verifier.at /\ verifier'.altered
      /\ verifier'.appended = verifier.appended
  BY DEF BooksInv, RegisterType, Verifier, Books!Lose
<1>8. RegisterType'
  <2>1. losses' \in 0..MaxLosses
    BY <1>1 DEF BooksAssumption
  <2>2. QED
    BY <1>1, <1>6, <1>7, <2>1 DEF RegisterType
<1>9. ChainInv'
  <2>1. Len(logs') < Len(truth') /\ ~Whole' /\ losses' # 0
    <3>1. Len(logs) <= Len(truth) /\ Len(truth') = Len(truth)
      BY <1>1 DEF BooksInv, ChainInv
    <3>2. Len(logs') < Len(truth') /\ losses' # 0
      BY <1>1, <1>6, <3>1
    <3>3. ~(Len(logs') = Len(truth'))
      <4> DEFINE m == Len(logs')
                 n == Len(truth')
      <4>1. m < n /\ n \in Nat /\ m \in Int
        BY <1>1, <1>6, <3>1, <3>2
      <4> HIDE DEF m, n
      <4>2. m # n
        BY <4>1
      <4>3. QED
        BY <4>2 DEF m, n
    <3>4. QED
      BY <3>2, <3>3 DEF Whole
  <2>2. QED
    BY <1>1, <1>6, <2>1 DEF BooksInv, ChainInv
<1>10. VerifierInv'
  BY <1>1, <1>7 DEF BooksInv, VerifierInv
<1>11. QED
  BY <1>1, <1>8, <1>9, <1>10, WorkAlone DEF BooksInv

\* A verification changes nothing but itself.
LEMMA VerifyingKeeps ==
  ASSUME BooksInv, UNCHANGED <<numbers, logs, anchor, work, truth, losses>>,
         verifier' \in Verifier, VerifierInv'
  PROVE  BooksInv'
<1>1. RegisterType'
  BY DEF BooksInv, RegisterType
<1>2. ChainInv'
  BY ChainAlone DEF BooksInv
<1>3. QED
  BY <1>1, <1>2, WorkAlone DEF BooksInv

LEMMA VerifyKeeps == ASSUME BooksInv, Books!Verify PROVE BooksInv'
<1>1. verifier' = [at |-> "rows", read |-> logs, appended |-> FALSE, altered |-> FALSE]
  BY DEF Books!Verify
<1>2. UNCHANGED <<numbers, logs, anchor, work, truth, losses>>
  BY DEF Books!Verify
<1>3. verifier' \in Verifier
  BY <1>1 DEF BooksInv, RegisterType, Verifier
<1>4. VerifierInv'
  BY <1>1, <1>2 DEF VerifierInv
<1>5. QED
  BY <1>2, <1>3, <1>4, VerifyingKeeps

\* What it read is the log it is judged against, unless that has changed since.
LEMMA JudgeKeeps == ASSUME BooksAssumption, BooksInv, Books!Judge PROVE BooksInv'
<1> DEFINE verdict == IF Books!Valid(verifier.read) THEN "valid" ELSE "invalid"
<1>1. /\ verifier.at = "rows" /\ verifier' = [verifier EXCEPT !.at = verdict]
      /\ UNCHANGED <<numbers, logs, anchor, work, truth, losses>>
      /\ verifier \in Verifier /\ RegisterType /\ ChainInv /\ VerifierInv
      /\ losses \in Nat
  BY DEF Books!Judge, BooksInv, RegisterType, BooksAssumption
<1>2. /\ verifier' \in Verifier /\ verifier'.at = verdict
      /\ verifier'.read = verifier.read /\ verifier'.appended = verifier.appended
      /\ verifier'.altered = verifier.altered
  BY <1>1 DEF Verifier
<1>3. ASSUME Books!Valid(verifier.read), ~verifier.appended, ~verifier.altered
      PROVE  Says(verifier.read) = truth
  <2>1. verifier.read = logs
    BY <1>1, <1>3 DEF VerifierInv
  <2>2. Books!Linked(logs) /\ anchor.count = Len(logs)
    BY <1>3, <2>1 DEF Books!Valid
  <2>3. Whole
    BY <1>1, <2>2 DEF ChainInv, Whole
  <2>4. QED
    BY <1>1, <2>1, <2>2, <2>3, LinksSayTruth
<1>4. ASSUME ~Books!Valid(verifier.read), ~verifier.appended, losses = 0
      PROVE  FALSE
  <2>1. ~verifier.altered
    BY <1>1, <1>4 DEF VerifierInv
  <2>2. verifier.read = logs
    BY <1>1, <1>4, <2>1 DEF VerifierInv
  <2>3. QED
    BY <1>1, <1>4, <2>2, UntouchedIsValid
<1>5. VerifierInv'
  <2>1. verifier'.altered => losses' > 0
    BY <1>1, <1>2 DEF VerifierInv
  <2>2. verifier'.at # "rows"
    BY <1>2
  <2>3. verifier'.at = "valid" /\ ~verifier'.appended /\ ~verifier'.altered =>
          Says(verifier'.read) = truth'
    BY <1>1, <1>2, <1>3
  <2>4. verifier'.at = "invalid" => losses' > 0 \/ verifier'.appended
    BY <1>1, <1>2, <1>4
  <2>5. QED
    BY <2>1, <2>2, <2>3, <2>4 DEF VerifierInv
<1>6. QED
  BY <1>1, <1>2, <1>5, VerifyingKeeps

LEMMA ReportKeeps == ASSUME BooksInv, Books!Report PROVE BooksInv'
<1>1. verifier' = Books!NoVerifier /\ UNCHANGED <<numbers, logs, anchor, work, truth, losses>>
  BY DEF Books!Report
<1>2. verifier' \in Verifier /\ VerifierInv'
  BY <1>1, EmptySeq DEF Books!NoVerifier, Verifier, VerifierInv
<1>3. QED
  BY <1>1, <1>2, VerifyingKeeps

LEMMA StutterKeeps == ASSUME BooksInv, UNCHANGED registerVars PROVE BooksInv'
<1>1. UNCHANGED <<numbers, logs, anchor, work, truth, losses>> /\ UNCHANGED verifier
  BY DEF registerVars
<1>2. verifier' \in Verifier /\ VerifierInv'
  BY <1>1, VerifierAlone DEF BooksInv, RegisterType
<1>3. QED
  BY <1>1, <1>2, VerifyingKeeps

-----------------------------------------------------------------------------
\* What the invariant says of the registers

\* The inductive invariant holds in every behaviour of the registers.
LEMMA BooksInvariant == Spec => []BooksInv
<1>1. Init => BooksInv
  BY BooksInitHolds, BooksAssumption DEF Init
<1>2. BooksInv /\ [Next]_vars => BooksInv'
  <2> SUFFICES ASSUME BooksInv, [Books!Next]_registerVars
               PROVE  BooksInv'
    BY ComponentSteps
  <2>1. ASSUME NEW c \in Clients,
               \/ \E f \in Families : Books!Draw(c, f)
               \/ \E x \in Contents : Books!Audit(c, x)
               \/ Books!Commit(c) \/ Books!Rollback(c)
        PROVE  BooksInv'
    BY <2>1, BooksAssumption, DrawKeeps, AuditKeeps, CommitKeeps, RollbackKeeps
  <2>2. ASSUME NEW i \in 1..MaxRows, Books!Lose(i) \/ \E x \in Contents : Books!Alter(i, x)
        PROVE  BooksInv'
    BY <2>2, BooksAssumption, LoseKeeps, AlterKeeps
  <2>3. CASE Books!Verify
    BY <2>3, VerifyKeeps
  <2>4. CASE Books!Judge
    BY <2>4, BooksAssumption, JudgeKeeps
  <2>5. CASE Books!Report
    BY <2>5, ReportKeeps
  <2>6. CASE UNCHANGED registerVars
    BY <2>6, StutterKeeps
  <2>7. QED
    BY <2>1, <2>2, <2>3, <2>4, <2>5, <2>6 DEF Books!Next
<1>3. QED
  BY <1>1, <1>2, PTL DEF Spec

(* However transactions, verifications and damage interleave: a business     *)
(* number is drawn once (next_no_with_work_order_lock); the committed log is *)
(* one chain that ends at the anchor as long as nobody damages it            *)
(* (append_audit); a verification that finds the log valid has read exactly  *)
(* what was written, unless rows were appended or damaged after it read      *)
(* them, and one that rejects it has met damage or an append                 *)
(* (verify_audit_chain_report).  Whatever is written is under its lock.      *)
THEOREM RegistersSoundHolds == Spec => []RegistersSound
<1>1. ASSUME BooksInv
      PROVE  RegistersSound
  <2>1. Books!TypeOK
    BY <1>1 DEF BooksInv, RegisterType, LocksInv, Books!TypeOK, WorkRow, Verifier
  <2>2. Books!NumbersNeverCollide
    BY <1>1 DEF BooksInv, NumbersInv, LocksInv, Books!NumbersNeverCollide, Books!Others
  <2>3. Books!LogIsOneChain
    BY <1>1, UntouchedIsValid DEF BooksInv, Books!LogIsOneChain
  <2>4. QED
    BY <1>1, <2>1, <2>2, <2>3 DEF BooksInv, VerifierInv, RegistersSound, Books!RegistersSound, Says
<1>2. QED
  BY <1>1, BooksInvariant, PTL
=============================================================================
