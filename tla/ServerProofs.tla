---------------------------- MODULE ServerProofs -----------------------------
(***************************************************************************)
(* A server: its start and its end, and the limiter every request passes.  *)
(*                                                                         *)
(* The safety of Startup for every number of servers, migrations, names,   *)
(* requests and faults.                                                    *)
(***************************************************************************)
EXTENDS Startup, RateLimiter, FiniteSetTheorems, TLAPS

\* A server has gone past recorded versions only; one that is about to commit
\* is the only one to hold its version, which nobody has committed.
MigrationsInOrder ==
  /\ \A s \in Servers : \A m \in 1..Migrations : m < at[s] => m \in versions
  /\ \A s \in Servers : pc[s] \in {"execute", "record", "commit"} => at[s] <= Migrations
  /\ \A s \in Servers : pc[s] = "commit" => at[s] \notin versions
  /\ \A s, t \in Servers :
       pc[s] = "commit" /\ pc[t] = "commit" /\ s # t => at[s] # at[t]
  /\ AppliedOnceInOrder

\* Nobody serves, and no signup is under way, before there is an administrator.
AdminFirst ==
  /\ \A s \in Servers : pc[s] \in {"serving", "closing"} => Taken(Admin)
  /\ (\E r \in Requests : signup[r] # Idle) => Taken(Admin)
  /\ AdminIsSuper

IInv == TypeOK /\ MigrationsInOrder /\ AdminFirst /\ AccountsDistinct

Migrating(s) ==
  \/ Restart(s) \/ Connect(s) \/ CreateTable(s)
  \/ CheckVersion(s) \/ Execute(s) \/ RecordVersion(s) \/ Commit(s)
Making(s) == FindAdmin(s) \/ InsertAdmin(s)
Stopping(s) == Signal(s) \/ Exit(s) \/ Fault(s)
Signing(r) == (\E s \in Servers : Accept(r, s)) \/ CheckName(r) \/ CheckEmail(r) \/ InsertUser(r)

LEMMA NextCases ==
  ASSUME [Next]_vars
  PROVE  \/ \E s \in Servers : Migrating(s) \/ Making(s) \/ Stopping(s)
         \/ \E r \in Requests : Signing(r)
         \/ UNCHANGED vars
BY DEF Next, Start, Migrating, Making, Stopping, Signing

LEMMA InitIInv == Init => IInv
<1> SUFFICES ASSUME Init PROVE IInv
  OBVIOUS
<1>1. TypeOK
  <2>1. table \in BOOLEAN
    BY Zenon DEF Init
  <2>2. "down" \in Phases
    BY DEF Phases
  <2>3. applied \in Seq(1..Migrations)
    BY DEF Init
  <2>4. /\ pc \in [Servers -> Phases] /\ at \in [Servers -> 1..(Migrations + 1)]
        /\ signup \in [Requests -> Request \cup {Idle}]
    BY <2>2, StartupAssumption DEF Init
  <2>5. versions \subseteq 1..Migrations /\ users \subseteq User /\ faults \in 0..MaxFaults
    BY StartupAssumption DEF Init
  <2> QED
    BY <2>1, <2>3, <2>4, <2>5, Zenon DEF TypeOK
<1>2. MigrationsInOrder
  BY StartupAssumption DEF Init, MigrationsInOrder, AppliedOnceInOrder
<1>3. AdminFirst /\ AccountsDistinct
  BY DEF Init, AdminFirst, AdminIsSuper, AccountsDistinct
<1> QED
  BY <1>1, <1>2, <1>3 DEF IInv

-----------------------------------------------------------------------------
LEMMA Going ==
  ASSUME TypeOK, NEW s \in Servers, NEW phase \in Phases, Goto(s, phase)
  PROVE  /\ pc' \in [Servers -> Phases]
         /\ pc'[s] = phase
         /\ \A t \in Servers : t # s => pc'[t] = pc[t]
BY DEF TypeOK, Goto

\* Cutting a server's requests starts none.
LEMMA Cutting ==
  ASSUME TypeOK, NEW s \in Servers, Cut(s)
  PROVE  /\ signup' \in [Requests -> Request \cup {Idle}]
         /\ \A r \in Requests : signup'[r] # Idle => signup'[r] = signup[r]
BY DEF TypeOK, Cut

LEMMA Answering ==
  ASSUME TypeOK, NEW r \in Requests, Answer(r)
  PROVE  /\ signup' \in [Requests -> Request \cup {Idle}]
         /\ \A q \in Requests : signup'[q] # Idle => signup'[q] = signup[q]
BY DEF TypeOK, Answer

LEMMA Proceeding ==
  ASSUME TypeOK, NEW r \in Requests, signup[r] # Idle,
         NEW step \in {"name", "email", "insert"}, Proceed(r, step)
  PROVE  /\ signup' \in [Requests -> Request \cup {Idle}]
         /\ \A q \in Requests : signup'[q] # Idle => signup[q] # Idle
<1>1. signup[r] \in Request
  BY DEF TypeOK
<1>2. [signup[r] EXCEPT !.step = step] \in Request
  BY <1>1 DEF Request
<1> QED
  BY <1>2 DEF TypeOK, Proceed

LEMMA TypeStep ==
  ASSUME TypeOK, MigrationsInOrder, [Next]_vars
  PROVE  TypeOK'
<1> USE StartupAssumption
<1>1. ASSUME NEW s \in Servers, Migrating(s) PROVE TypeOK'
  <2>1. CASE Restart(s) \/ Connect(s) \/ CreateTable(s) \/ Execute(s) \/ RecordVersion(s)
    <3>1. pc' \in [Servers -> Phases]
      BY <2>1, Going DEF Restart, Connect, CreateTable, Execute, RecordVersion, Phases
    <3>2. at' \in [Servers -> 1..(Migrations + 1)]
      BY <2>1 DEF Restart, Connect, CreateTable, Execute, RecordVersion, TypeOK
    <3>3. UNCHANGED <<versions, applied, users, signup, faults>>
      BY <2>1 DEF Restart, Connect, CreateTable, Execute, RecordVersion
    <3>4. table' \in BOOLEAN
      <4>1. table' = table \/ table' = TRUE
        BY <2>1 DEF Restart, Connect, CreateTable, Execute, RecordVersion
      <4> QED
        BY <4>1, Zenon DEF TypeOK
    <3> QED
      BY <3>1, <3>2, <3>3, <3>4 DEF TypeOK
  <2>2. CASE CheckVersion(s)
    <3>1. pc' \in [Servers -> Phases]
      BY <2>2, Going DEF CheckVersion, Phases, TypeOK
    <3>2. at' \in [Servers -> 1..(Migrations + 1)]
      BY <2>2 DEF CheckVersion, TypeOK
    <3> QED
      BY <2>2, <3>1, <3>2 DEF CheckVersion, TypeOK
  <2>3. CASE Commit(s)
    <3>1. at[s] \in 1..Migrations
      BY <2>3 DEF Commit, TypeOK, MigrationsInOrder
    <3>2. applied' \in Seq(1..Migrations)
      <4>1. applied \in Seq(1..Migrations) /\ applied' = Append(applied, at[s])
        BY <2>3 DEF Commit, TypeOK
      <4> QED
        BY <3>1, <4>1
    <3>5. versions' \subseteq 1..Migrations
      BY <2>3, <3>1 DEF Commit, TypeOK
    <3>3. at' \in [Servers -> 1..(Migrations + 1)]
      <4>1. at' = at \/ at' = [at EXCEPT ![s] = @ + 1]
        BY <2>3 DEF Commit
      <4>2. at[s] + 1 \in 1..(Migrations + 1)
        BY <3>1
      <4> QED
        BY <4>1, <4>2 DEF TypeOK
    <3>4. pc' \in [Servers -> Phases]
      BY <2>3, Going DEF Commit, Phases
    <3>6. faults' \in 0..MaxFaults
      BY <2>3 DEF Commit, TypeOK
    <3> QED
      BY <2>3, <3>2, <3>3, <3>4, <3>5, <3>6 DEF Commit, TypeOK
  <2> QED
    BY <1>1, <2>1, <2>2, <2>3 DEF Migrating
<1>2. ASSUME NEW s \in Servers, Making(s) PROVE TypeOK'
  <2>1. pc' \in [Servers -> Phases]
    BY <1>2, Going DEF Making, FindAdmin, InsertAdmin, Phases
  <2>2. users' \subseteq User
    BY <1>2 DEF Making, FindAdmin, InsertAdmin, TypeOK, User
  <2> QED
    BY <1>2, <2>1, <2>2 DEF Making, FindAdmin, InsertAdmin, TypeOK
<1>3. ASSUME NEW s \in Servers, Stopping(s) PROVE TypeOK'
  <2>1. CASE Signal(s)
    BY <2>1 DEF Signal, Goto, TypeOK, Phases
  <2>2. CASE Exit(s) \/ Fault(s)
    <3>1. pc' \in [Servers -> Phases]
      BY <2>2, Going DEF Exit, Fault, Phases
    <3>2. faults' \in 0..MaxFaults
      BY <2>2 DEF Exit, Fault, TypeOK
    <3>3. signup' \in [Requests -> Request \cup {Idle}]
      BY <2>2, Cutting DEF Exit, Fault
    <3> QED
      BY <2>2, <3>1, <3>2, <3>3 DEF Exit, Fault, TypeOK
  <2> QED
    BY <1>3, <2>1, <2>2 DEF Stopping
<1>4. ASSUME NEW r \in Requests, Signing(r) PROVE TypeOK'
  <2>1. ASSUME NEW s \in Servers, Accept(r, s) PROVE TypeOK'
    <3>1. signup' \in [Requests -> Request \cup {Idle}]
      BY <2>1 DEF Accept, TypeOK, Request
    <3> QED
      BY <2>1, <3>1 DEF Accept, TypeOK
  <2>2. CASE CheckName(r) \/ CheckEmail(r)
    BY <2>2, Answering, Proceeding DEF CheckName, CheckEmail, TypeOK
  <2>3. CASE InsertUser(r)
    <3>1. signup[r] \in Request
      BY <2>3 DEF InsertUser, TypeOK
    <3>2. NewUser(r) \in User
      BY <3>1 DEF NewUser, User, Request
    <3> QED
      BY <2>3, <3>2, Answering DEF InsertUser, TypeOK
  <2> QED
    BY <1>4, <2>1, <2>2, <2>3 DEF Signing
<1>5. CASE UNCHANGED vars
  BY <1>5 DEF vars, TypeOK
<1> QED
  BY <1>1, <1>2, <1>3, <1>4, <1>5, NextCases

-----------------------------------------------------------------------------
LEMMA MigrationStep ==
  ASSUME TypeOK, MigrationsInOrder, [Next]_vars
  PROVE  MigrationsInOrder'
<1> USE StartupAssumption
<1>1. ASSUME NEW s \in Servers, Restart(s) \/ Connect(s) \/ CreateTable(s) \/ Execute(s)
      PROVE  MigrationsInOrder'
  <2>1. /\ UNCHANGED <<versions, applied>>
        /\ \A t \in Servers : at'[t] = at[t] \/ (at'[t] = 1 /\ pc'[t] = "connect")
    <3>1. CASE Restart(s)
      <4>1. pc'[s] = "connect"
        BY <3>1, Going DEF Restart, Phases
      <4> QED
        BY <3>1, <4>1 DEF Restart, TypeOK
    <3> QED
      BY <1>1, <3>1 DEF Connect, CreateTable, Execute
  <2>2. \A t \in Servers : pc'[t] \in {"execute", "record", "commit"} =>
          pc[t] \in {"execute", "record", "commit"} /\ (pc'[t] = "commit" => pc[t] = "commit")
    BY <1>1, Going DEF Restart, Connect, CreateTable, Execute, Phases
  <2> QED
    BY <2>1, <2>2 DEF MigrationsInOrder, AppliedOnceInOrder
<1>2. ASSUME NEW s \in Servers, CheckVersion(s) PROVE MigrationsInOrder'
  <2>1. UNCHANGED <<versions, applied>> /\ pc[s] = "check"
    BY <1>2 DEF CheckVersion
  <2>2. CASE at[s] \in versions /\ at' = [at EXCEPT ![s] = @ + 1] /\ pc' = pc
    BY <2>1, <2>2 DEF TypeOK, MigrationsInOrder, AppliedOnceInOrder
  <2>3. CASE /\ at' = at
             /\ Goto(s, "find_admin") \/ (Goto(s, "execute") /\ at[s] <= Migrations)
    <3>1. \A t \in Servers : pc'[t] \in {"execute", "record", "commit"} =>
            \/ pc'[t] = pc[t]
            \/ pc'[t] = "execute" /\ at[t] <= Migrations
      BY <2>3, Going DEF Phases
    <3>2. \A t \in Servers : pc'[t] = "commit" => pc[t] = "commit"
      BY <3>1
    <3>3. \A t \in Servers : pc'[t] \in {"execute", "record", "commit"} => at[t] <= Migrations
      BY <3>1 DEF MigrationsInOrder
    <3>4. versions' = versions /\ applied' = applied /\ at' = at
      BY <2>1, <2>3
    <3> QED
      BY <3>2, <3>3, <3>4 DEF MigrationsInOrder, AppliedOnceInOrder
  <2>4. at[s] \in Nat /\ Migrations \in Nat
    BY DEF TypeOK
  <2> QED
    BY <1>2, <2>2, <2>3, <2>4 DEF CheckVersion
<1>3. ASSUME NEW s \in Servers, RecordVersion(s) PROVE MigrationsInOrder'
  BY <1>3 DEF RecordVersion, Goto, TypeOK, Phases, MigrationsInOrder, AppliedOnceInOrder
<1>4. ASSUME NEW s \in Servers, Commit(s) PROVE MigrationsInOrder'
  <2> DEFINE n == Len(applied)
  <2>1. n \in Nat /\ at[s] \in 1..Migrations /\ at[s] \notin versions /\ versions = 1..n
    BY <1>4 DEF Commit, TypeOK, MigrationsInOrder, AppliedOnceInOrder
  <2>2. at[s] = n + 1
    <3>1. \A m \in 1..Migrations : m < at[s] => m \in 1..n
      BY <2>1 DEF MigrationsInOrder
    <3>2. ~(at[s] > n + 1)
      BY <2>1, <3>1
    <3> QED
      BY <2>1, <3>2
  <2>3. AppliedOnceInOrder'
    <3>1. applied' = Append(applied, n + 1) /\ applied \in Seq(1..Migrations)
      BY <1>4, <2>2 DEF Commit, TypeOK
    <3>2. Len(applied') = n + 1 /\ versions' = 1..(n + 1)
      BY <1>4, <2>1, <2>2, <3>1 DEF Commit
    <3>3. \A i \in DOMAIN applied' : applied'[i] = i
      BY <3>1, <2>1 DEF MigrationsInOrder, AppliedOnceInOrder
    <3> QED
      BY <3>2, <3>3 DEF AppliedOnceInOrder
  <2>4. pc' = [pc EXCEPT ![s] = pc'[s]] /\ pc'[s] \in {"check", "down"}
        /\ at' = [at EXCEPT ![s] = at'[s]] /\ at'[s] \in {at[s], at[s] + 1}
        /\ versions' = versions \cup {at[s]}
    BY <1>4 DEF Commit, Goto, TypeOK
  <2>5. \A t \in Servers : \A m \in 1..Migrations : m < at'[t] => m \in versions'
    BY <2>1, <2>4 DEF TypeOK, MigrationsInOrder
  <2>6. \A t \in Servers : pc'[t] = "commit" =>
          pc[t] = "commit" /\ at'[t] = at[t] /\ at[t] # at[s]
    BY <1>4, <2>4 DEF Commit, TypeOK, MigrationsInOrder
  <2>7. \A t \in Servers : pc'[t] \in {"execute", "record", "commit"} =>
          pc[t] = pc'[t] /\ at'[t] = at[t]
    BY <2>4 DEF TypeOK
  <2> QED
    BY <2>3, <2>4, <2>5, <2>6, <2>7 DEF MigrationsInOrder
<1>5. ASSUME NEW s \in Servers, Making(s) \/ Stopping(s) PROVE MigrationsInOrder'
  BY <1>5 DEF Making, FindAdmin, InsertAdmin, Stopping, Signal, Exit, Fault, Goto,
              TypeOK, Phases, MigrationsInOrder, AppliedOnceInOrder
<1>6. ASSUME NEW r \in Requests, Signing(r) PROVE MigrationsInOrder'
  BY <1>6 DEF Signing, Accept, CheckName, CheckEmail, InsertUser,
              MigrationsInOrder, AppliedOnceInOrder
<1>7. CASE UNCHANGED vars
  BY <1>7 DEF vars, MigrationsInOrder, AppliedOnceInOrder
<1> QED
  BY <1>1, <1>2, <1>3, <1>4, <1>5, <1>6, <1>7, NextCases DEF Migrating

-----------------------------------------------------------------------------
LEMMA AccountStep ==
  ASSUME TypeOK, AdminFirst, AccountsDistinct, [Next]_vars
  PROVE  AdminFirst' /\ AccountsDistinct'
<1> USE DEF AdminFirst, AdminIsSuper, AccountsDistinct, Taken
<1>1. ASSUME NEW s \in Servers, Migrating(s) PROVE AdminFirst' /\ AccountsDistinct'
  BY <1>1 DEF Migrating, Restart, Connect, CreateTable, CheckVersion, Execute, RecordVersion,
              Commit, Goto, TypeOK, Phases
<1>2. ASSUME NEW s \in Servers, Making(s) PROVE AdminFirst' /\ AccountsDistinct'
  <2>1. CASE FindAdmin(s)
    BY <2>1 DEF FindAdmin, Goto, TypeOK, Phases
  <2>2. CASE InsertAdmin(s) /\ Taken(Admin)
    BY <2>2 DEF InsertAdmin, Goto, TypeOK, Phases
  <2>3. CASE InsertAdmin(s) /\ ~Taken(Admin)
    <3> DEFINE new == [name |-> Admin, email |-> NoEmail, role |-> "super_admin"]
    <3>1. users' = users \cup {new} /\ signup' = signup
      BY <2>3 DEF InsertAdmin
    <3>2. Taken(Admin)'
      <4>1. new \in users' /\ new.name = Admin
        BY <3>1
      <4> QED
        BY <4>1
    <3>3. AdminIsSuper' /\ AccountsDistinct'
      BY <2>3, <3>1
    <3> QED
      BY <3>2, <3>3
  <2> QED
    BY <1>2, <2>1, <2>2, <2>3 DEF Making
<1>3. ASSUME NEW s \in Servers, Stopping(s) PROVE AdminFirst' /\ AccountsDistinct'
  <2>1. users' = users
    BY <1>3 DEF Stopping, Signal, Exit, Fault
  <2>2. \A t \in Servers : pc'[t] \in {"serving", "closing"} =>
          pc[t] \in {"serving", "closing"}
    BY <1>3 DEF Stopping, Signal, Exit, Fault, Goto, TypeOK
  <2>3. \A r \in Requests : signup'[r] # Idle => signup[r] # Idle
    BY <1>3, Cutting DEF Stopping, Signal, Exit, Fault
  <2> QED
    BY <2>1, <2>2, <2>3
<1>4. ASSUME NEW r \in Requests, NEW s \in Servers, Accept(r, s)
      PROVE  AdminFirst' /\ AccountsDistinct'
  BY <1>4 DEF Accept
<1>5. ASSUME NEW r \in Requests, CheckName(r) \/ CheckEmail(r)
      PROVE  AdminFirst' /\ AccountsDistinct'
  BY <1>5, Answering, Proceeding DEF CheckName, CheckEmail
<1>6. ASSUME NEW r \in Requests, InsertUser(r) PROVE AdminFirst' /\ AccountsDistinct'
  <2>1. Taken(Admin) /\ pc' = pc
    BY <1>6 DEF InsertUser
  <2>2. \A q \in Requests : signup'[q] # Idle => signup[q] # Idle
    BY <1>6, Answering DEF InsertUser
  <2>3. CASE users' = users
    BY <2>1, <2>2, <2>3
  <2>4. CASE /\ users' = users \cup {NewUser(r)}
             /\ ~Taken(signup[r].name) /\ ~InUse(signup[r].email)
    <3>1. NewUser(r).name # Admin
      BY <2>1, <2>4 DEF NewUser
    <3>2. \A u \in users : u.name # NewUser(r).name
            /\ (u.email = NewUser(r).email => u.email = NoEmail)
      BY <2>4 DEF NewUser, InUse
    <3>3. AdminIsSuper'
      BY <2>4, <3>1
    <3>4. AccountsDistinct'
      BY <2>4, <3>2
    <3> QED
      BY <2>1, <2>2, <2>4, <3>3, <3>4
  <2> QED
    BY <1>6, <2>3, <2>4 DEF InsertUser
<1>7. CASE UNCHANGED vars
  BY <1>7 DEF vars
<1> QED
  BY <1>1, <1>2, <1>3, <1>4, <1>5, <1>6, <1>7, NextCases DEF Signing

-----------------------------------------------------------------------------
\* Migrations, the administrator and signups in order, in every reachable state.
THEOREM Inductive == Spec => []IInv
<1>1. IInv /\ [Next]_vars => IInv'
  BY TypeStep, MigrationStep, AccountStep DEF IInv
<1> QED
  BY <1>1, InitIInv, PTL DEF Spec

\* The type of every variable holds in every reachable state.
THEOREM Typed == Spec => []TypeOK
<1>1. IInv => TypeOK
  BY DEF IInv
<1> QED
  BY <1>1, Inductive, PTL

\* However many servers migrate one database at once, and wherever they stop,
\* each migration takes effect once and in order (postgres.go:72-108).
THEOREM MigrationsOnce == Spec => []AppliedOnceInOrder
<1>1. IInv => AppliedOnceInOrder
  BY DEF IInv, MigrationsInOrder
<1> QED
  BY <1>1, Inductive, PTL

\* No signup takes the administrator's name, on any server (main.go:75).
THEOREM AdminStaysSuper == Spec => []AdminIsSuper
<1>1. IInv => AdminIsSuper
  BY DEF IInv, AdminFirst
<1> QED
  BY <1>1, Inductive, PTL

\* Concurrent signups never share a name or an email (service.go:104-144).
THEOREM Distinct == Spec => []AccountsDistinct
<1>1. IInv => AccountsDistinct
  BY DEF IInv
<1> QED
  BY <1>1, Inductive, PTL

-----------------------------------------------------------------------------
(***************************************************************************)
(* The rate limiter for every set of addresses, limit, window and clock    *)
(* bound: its inductive invariant, the window and memory bounds, and that  *)
(* it implements SlidingWindow.                                            *)
(***************************************************************************)
\* What is remembered is a part of what was served, and holds everything
\* served in the last window; the clock has passed every entry, and serial
\* numbers are below the count.
Remembers(a) ==
  /\ IsFiniteSet(served[a])
  /\ requests[a] \subseteq served[a]
  /\ Recent(served[a]) \subseteq requests[a]
  /\ \A e \in served[a] : e.at <= now /\ e.n < Cardinality(served[a])

Bounded(a) ==
  /\ Cardinality(requests[a]) <= Limit
  /\ \A t \in 0..MaxTime : Cardinality(Abstract!InWindow(served[a], t)) <= Limit

LimiterIInv == LimiterTypeOK /\ \A a \in Addrs : Remembers(a) /\ Bounded(a)

\* The instance brings its own copy of Cardinality.
LEMMA SameCardinality ==
  ASSUME NEW S
  PROVE  Abstract!Cardinality(S) = Cardinality(S)
BY DEF Cardinality, Abstract!Cardinality, IsFiniteSet, Abstract!IsFiniteSet

\* The request Allow appends.
New(a) == [n |-> Cardinality(served[a]), at |-> now]

\* Pruning what is remembered yields the whole history's current window.
LEMMA RecentIsWindow ==
  ASSUME LimiterIInv, NEW a \in Addrs
  PROVE  /\ Recent(requests[a]) = Abstract!InWindow(served[a], now)
         /\ IsFiniteSet(Recent(requests[a]))
         /\ IsFiniteSet(requests[a])
<1>1. Recent(requests[a]) = Abstract!InWindow(served[a], now)
  BY DEF LimiterIInv, LimiterTypeOK, Remembers, Recent, Abstract!InWindow, Abstract!Request
<1>2. IsFiniteSet(requests[a])
  BY FS_Subset DEF LimiterIInv, Remembers
<1>3. Recent(requests[a]) \subseteq requests[a]
  BY DEF Recent
<1> QED
  BY <1>1, <1>2, <1>3, FS_Subset

LEMMA NewIsFresh ==
  ASSUME LimiterIInv, NEW a \in Addrs
  PROVE  /\ New(a) \in Abstract!Request
         /\ New(a) \notin served[a]
         /\ Cardinality(served[a]) \in Nat
<1>1. Cardinality(served[a]) \in Nat
  BY FS_CardinalityType DEF LimiterIInv, Remembers
<1>2. New(a).n = Cardinality(served[a])
  BY DEF New
<1>3. New(a) \notin served[a]
  BY <1>1, <1>2 DEF LimiterIInv, Remembers
<1> QED
  BY <1>1, <1>3, RateLimiterAssumption DEF New, LimiterIInv, LimiterTypeOK, Abstract!Request

LEMMA InitLimiterIInv == LimiterInit => LimiterIInv
<1> SUFFICES ASSUME LimiterInit PROVE LimiterIInv
  OBVIOUS
<1>1. LimiterTypeOK
  BY RateLimiterAssumption
  DEF LimiterInit, Abstract!Init, LimiterTypeOK, Abstract!Request, Abstract!NoVerdict
<1>2. ASSUME NEW a \in Addrs PROVE Remembers(a) /\ Bounded(a)
  <2>1. served[a] = {} /\ requests[a] = {}
    BY DEF LimiterInit, Abstract!Init
  <2>2. Recent({}) = {} /\ \A t : Abstract!InWindow({}, t) = {}
    BY DEF Recent, Abstract!InWindow
  <2> QED
    BY <2>1, <2>2, FS_EmptySet, RateLimiterAssumption DEF Remembers, Bounded
<1> QED
  BY <1>1, <1>2 DEF LimiterIInv

LEMMA AllowStep ==
  ASSUME LimiterIInv, NEW a \in Addrs, Allow(a)
  PROVE  LimiterTypeOK' /\ Remembers(a)' /\ Bounded(a)'
<1> DEFINE recent == Recent(requests[a])
<1>1. /\ Cardinality(recent) < Limit
      /\ requests' = [requests EXCEPT ![a] = recent \cup {New(a)}]
      /\ served' = [served EXCEPT ![a] = @ \cup {New(a)}]
      /\ verdict' = [addr |-> a, ok |-> TRUE]
      /\ now' = now
  BY DEF Allow, New
<1>2. recent \subseteq requests[a]
  BY DEF Recent
<1>3. LimiterTypeOK'
  BY <1>1, <1>2, NewIsFresh DEF LimiterIInv, LimiterTypeOK
<1>4. requests'[a] = recent \cup {New(a)} /\ served'[a] = served[a] \cup {New(a)}
  BY <1>1 DEF LimiterIInv, LimiterTypeOK
<1>5. /\ IsFiniteSet(served'[a])
      /\ Cardinality(served'[a]) = Cardinality(served[a]) + 1
  <2>1. IsFiniteSet(served[a]) /\ New(a) \notin served[a]
    BY NewIsFresh DEF LimiterIInv, Remembers
  <2> QED
    BY <1>4, <2>1, FS_AddElement
<1>6. Remembers(a)'
  <2>1. requests'[a] \subseteq served'[a]
    BY <1>2, <1>4 DEF LimiterIInv, Remembers
  <2>2. Recent(served[a]) \subseteq recent
    BY DEF LimiterIInv, Remembers, Recent
  <2>3. Recent(served[a])' \subseteq requests'[a]
    BY <1>1, <1>4, <2>2 DEF Recent
  <2>4. \A e \in served[a] : e.n \in Nat /\ e.at \in Nat
    BY DEF LimiterIInv, LimiterTypeOK, Abstract!Request
  <2>5. \A e \in served'[a] : e.at <= now' /\ e.n < Cardinality(served'[a])
    <3> SUFFICES ASSUME NEW e \in served'[a]
                 PROVE  e.at <= now' /\ e.n < Cardinality(served'[a])
      OBVIOUS
    <3>1. CASE e \in served[a]
      BY <1>1, <1>5, <2>4, <3>1, NewIsFresh DEF LimiterIInv, Remembers
    <3>2. CASE e = New(a)
      BY <1>1, <1>5, <3>2, NewIsFresh, RateLimiterAssumption DEF New, LimiterIInv, LimiterTypeOK
    <3> QED
      BY <1>4, <3>1, <3>2
  <2> QED
    BY <1>5, <2>1, <2>3, <2>5 DEF Remembers
<1>7. Bounded(a)'
  <2>1. /\ IsFiniteSet(recent \cup {New(a)})
        /\ Cardinality(recent \cup {New(a)}) <= Limit
    <3>1. Cardinality(recent) \in Nat
      BY RecentIsWindow, FS_CardinalityType
    <3>2. /\ IsFiniteSet(recent \cup {New(a)})
          /\ \/ Cardinality(recent \cup {New(a)}) = Cardinality(recent)
             \/ Cardinality(recent \cup {New(a)}) = Cardinality(recent) + 1
      BY RecentIsWindow, FS_AddElement
    <3> QED
      BY <1>1, <3>1, <3>2, RateLimiterAssumption
  <2>2. ASSUME NEW t \in 0..MaxTime
        PROVE  Cardinality(Abstract!InWindow(served'[a], t)) <= Limit
    <3>0. now \in Nat /\ t \in Nat /\ Window \in Nat
      BY RateLimiterAssumption DEF LimiterIInv, LimiterTypeOK
    <3>1. CASE t < now
      <4>1. Abstract!InWindow(served'[a], t) = Abstract!InWindow(served[a], t)
        BY <1>4, <3>0, <3>1 DEF Abstract!InWindow, New
      <4> QED
        BY <4>1 DEF LimiterIInv, Bounded
    <3>2. CASE t >= now
      <4>1. \A e \in served[a] : e.at \in Nat /\ e.at <= now
        BY DEF LimiterIInv, LimiterTypeOK, Remembers, Abstract!Request
      <4>2. Abstract!InWindow(served'[a], t) \subseteq recent \cup {New(a)}
        BY <1>4, <3>0, <3>2, <4>1, RecentIsWindow DEF Abstract!InWindow
      <4>3. /\ Cardinality(Abstract!InWindow(served'[a], t))
                  <= Cardinality(recent \cup {New(a)})
            /\ IsFiniteSet(Abstract!InWindow(served'[a], t))
        BY <2>1, <4>2, FS_Subset
      <4>4. /\ Cardinality(Abstract!InWindow(served'[a], t)) \in Nat
            /\ Cardinality(recent \cup {New(a)}) \in Nat
        BY <2>1, <4>3, FS_CardinalityType
      <4> QED
        BY <2>1, <4>3, <4>4, RateLimiterAssumption
    <3> QED
      BY <3>0, <3>1, <3>2
  <2> QED
    BY <1>4, <2>1, <2>2 DEF Bounded
<1> QED
  BY <1>3, <1>6, <1>7

LEMMA RefuseStep ==
  ASSUME LimiterIInv, NEW a \in Addrs, Refuse(a)
  PROVE  LimiterTypeOK' /\ Remembers(a)' /\ Bounded(a)'
<1>1. /\ requests' = [requests EXCEPT ![a] = Recent(requests[a])]
      /\ verdict' = [addr |-> a, ok |-> FALSE]
      /\ UNCHANGED <<now, served>>
  BY DEF Refuse
<1>2. Recent(requests[a]) \subseteq requests[a]
  BY DEF Recent
<1>3. LimiterTypeOK' /\ requests'[a] = Recent(requests[a])
  BY <1>1, <1>2 DEF LimiterIInv, LimiterTypeOK
<1>4. Remembers(a)'
  BY <1>1, <1>2, <1>3 DEF LimiterIInv, Remembers, Recent
<1>5. Bounded(a)'
  <2>1. now \in 0..MaxTime
    BY DEF LimiterIInv, LimiterTypeOK
  <2> QED
    BY <1>1, <1>3, <2>1, RecentIsWindow DEF LimiterIInv, Bounded
<1> QED
  BY <1>3, <1>4, <1>5

LEMMA OtherAddress ==
  ASSUME LimiterIInv, NEW a \in Addrs, NEW b \in Addrs, a # b, Allow(a) \/ Refuse(a)
  PROVE  Remembers(b)' /\ Bounded(b)'
<1>1. requests'[b] = requests[b] /\ served'[b] = served[b] /\ now' = now
  BY DEF Allow, Refuse, LimiterIInv, LimiterTypeOK
<1> QED
  BY <1>1 DEF LimiterIInv, Remembers, Bounded, Recent

LEMMA LimiterIInvStep ==
  ASSUME LimiterIInv, [LimiterNext]_limiterVars
  PROVE  LimiterIInv'
<1>1. ASSUME NEW a \in Addrs, Allow(a) \/ Refuse(a) PROVE LimiterIInv'
  BY <1>1, AllowStep, RefuseStep, OtherAddress DEF LimiterIInv
<1>2. CASE Tick
  <2>1. LimiterTypeOK'
    BY <1>2, RateLimiterAssumption DEF Tick, LimiterIInv, LimiterTypeOK
  <2>2. ASSUME NEW a \in Addrs PROVE Remembers(a)' /\ Bounded(a)'
    <3>1. /\ UNCHANGED <<requests, served>>
          /\ now' = now + 1 /\ now \in Nat
          /\ \A e \in served[a] : e.at \in Nat
      BY <1>2, RateLimiterAssumption DEF Tick, LimiterIInv, LimiterTypeOK, Abstract!Request
    <3>2. Recent(served[a])' \subseteq Recent(served[a])
      BY <3>1, RateLimiterAssumption DEF Recent
    <3> QED
      BY <3>1, <3>2 DEF LimiterIInv, Remembers, Bounded
  <2> QED
    BY <2>1, <2>2 DEF LimiterIInv
<1>3. CASE UNCHANGED limiterVars
  BY <1>3 DEF limiterVars, LimiterIInv, LimiterTypeOK, Remembers, Bounded, Recent
<1> QED
  BY <1>1, <1>2, <1>3 DEF LimiterNext

\* What is remembered of an address is what its current window needs.
THEOREM LimiterInductive == LimiterSpec => []LimiterIInv
BY InitLimiterIInv, LimiterIInvStep, PTL DEF LimiterSpec

-----------------------------------------------------------------------------
\* Types, for every value of the constants.
THEOREM LimiterTyped == LimiterSpec => []LimiterTypeOK
<1>1. LimiterIInv => LimiterTypeOK
  BY DEF LimiterIInv
<1> QED
  BY <1>1, LimiterInductive, PTL

\* No window of any position passes more than Limit requests of an address.
THEOREM NoWindowOverLimit == LimiterSpec => []WindowBound
<1>1. LimiterIInv => WindowBound
  BY SameCardinality DEF LimiterIInv, Bounded, WindowBound, Abstract!WindowBound
<1> QED
  BY <1>1, LimiterInductive, PTL

\* What is remembered for an address is bounded by the limit.
THEOREM MemoryIsBounded == LimiterSpec => []MemoryBound
<1>1. LimiterIInv => MemoryBound
  BY DEF LimiterIInv, Bounded, MemoryBound
<1> QED
  BY <1>1, LimiterInductive, PTL

\* Forgetting the old requests changes no answer: every step of the limiter is
\* a step of the sliding window over the whole history.
THEOREM LimiterImplements == LimiterSpec => Refinement
<1>1. LimiterInit => Abstract!Init
  BY DEF LimiterInit
<1>2. LimiterIInv /\ [LimiterNext]_limiterVars => [Abstract!Next]_(Abstract!vars)
  <2> SUFFICES ASSUME LimiterIInv, [LimiterNext]_limiterVars PROVE [Abstract!Next]_(Abstract!vars)
    OBVIOUS
  <2>1. ASSUME NEW a \in Addrs, Allow(a) PROVE Abstract!Serve(a)
    BY <2>1, RecentIsWindow, SameCardinality DEF Allow, Abstract!Serve, LimiterIInv, LimiterTypeOK
  <2>2. ASSUME NEW a \in Addrs, Refuse(a) PROVE Abstract!Refuse(a)
    BY <2>2, RecentIsWindow, SameCardinality DEF Refuse, Abstract!Refuse
  <2>3. CASE Tick
    BY <2>3 DEF Tick, Abstract!Tick, Abstract!Next
  <2>4. CASE UNCHANGED limiterVars
    BY <2>4 DEF limiterVars, Abstract!vars
  <2> QED
    BY <2>1, <2>2, <2>3, <2>4 DEF LimiterNext, Abstract!Next
<1> QED
  BY <1>1, <1>2, LimiterInductive, PTL DEF LimiterSpec, Refinement, Abstract!Spec
=============================================================================
