------------------------------- MODULE Startup --------------------------------
(***************************************************************************)
(* cmd/server and internal/db from the start of a process to its end, and  *)
(* the two ways an account comes to be: CreateAdmin at the start, Signup   *)
(* while the server serves.  Several servers share one database.           *)
(*                                                                         *)
(* Every log.Fatal ends the process and rolls its transaction back; the    *)
(* container's policy starts it again.  A fault is an error of a store     *)
(* that main does not survive, or a crash; their number is bounded.        *)
(***************************************************************************)
EXTENDS Naturals, Sequences

CONSTANTS
  Servers,     \* the server processes
  Migrations,  \* the number of *.up.sql files, in the order of their names
  Names,       \* usernames; the one of the first administrator among them
  Admin,       \* "admin", service.go:154
  Emails,      \* email addresses
  Requests,    \* the signup requests in flight at one time
  MaxFaults    \* bound: faults of all servers together

ASSUME StartupAssumption ==
  /\ Migrations \in Nat /\ MaxFaults \in Nat
  /\ Admin \in Names

VARIABLES
  pc,        \* each server: what it does next
  at,        \* each server: the migration it looks at
  table,     \* does schema_migrations exist?
  versions,  \* the rows of schema_migrations
  applied,   \* history: the migrations whose SQL was committed, in order
  users,     \* the rows of users
  signup,    \* each request: its step, its server and its body
  faults     \* faults so far

vars == <<pc, at, table, versions, applied, users, signup, faults>>

NoEmail == "none"
User == [name : Names, email : Emails \cup {NoEmail}, role : {"super_admin", "user"}]
Phases == {"down", "stopped", "connect", "create", "check", "execute", "record", "commit",
           "find_admin", "insert_admin", "serving", "closing"}
Idle == [step |-> "idle"]
Request == [step : {"name", "email", "insert"}, server : Servers,
            name : Names, email : Emails \cup {NoEmail}]

Taken(name) == \E u \in users : u.name = name
InUse(email) == email # NoEmail /\ \E u \in users : u.email = email

Goto(s, phase) == pc' = [pc EXCEPT ![s] = phase]

\* What ends with the process: the requests it was answering.
Cut(s) ==
  signup' = [r \in Requests |->
               IF signup[r] # Idle /\ signup[r].server = s THEN Idle ELSE signup[r]]

Init ==
  /\ pc = [s \in Servers |-> "down"]
  /\ at = [s \in Servers |-> 1]
  /\ table = FALSE
  /\ versions = {}
  /\ applied = <<>>
  /\ users = {}
  /\ signup = [r \in Requests |-> Idle]
  /\ faults = 0

-----------------------------------------------------------------------------
\* restart: unless-stopped; one that was stopped is started by hand.
Restart(s) ==
  /\ pc[s] \in {"down", "stopped"}
  /\ Goto(s, "connect")
  /\ at' = [at EXCEPT ![s] = 1]
  /\ UNCHANGED <<table, versions, applied, users, signup, faults>>

\* InitPostgres, InitRedis, and the question that CREATE TABLE IF NOT EXISTS
\* begins with.
Connect(s) ==
  /\ pc[s] = "connect"
  /\ Goto(s, IF table THEN "check" ELSE "create")
  /\ UNCHANGED <<at, table, versions, applied, users, signup, faults>>

\* The statement goes on to create the table of the versions, and fails when
\* another server created it since; then the list of the files.
CreateTable(s) ==
  /\ pc[s] = "create"
  /\ Goto(s, IF table THEN "down" ELSE "check")
  /\ table' = TRUE
  /\ UNCHANGED <<at, versions, applied, users, signup, faults>>

\* Is the version recorded?  After the last one main goes on to CreateAdmin.
CheckVersion(s) ==
  /\ pc[s] = "check"
  /\ IF at[s] > Migrations
     THEN Goto(s, "find_admin") /\ UNCHANGED at
     ELSE IF at[s] \in versions
          THEN at' = [at EXCEPT ![s] = @ + 1] /\ UNCHANGED pc
          ELSE Goto(s, "execute") /\ UNCHANGED at
  /\ UNCHANGED <<table, versions, applied, users, signup, faults>>

\* BEGIN and the file's SQL, which another server's commit can make fail.
Execute(s) ==
  /\ pc[s] = "execute"
  /\ \/ Goto(s, "record")
     \/ at[s] \in versions /\ Goto(s, "down")
  /\ UNCHANGED <<at, table, versions, applied, users, signup, faults>>

\* Mutant: the version is no primary key.
RecordAgain(s) ==
  /\ pc[s] = "record"
  /\ Goto(s, "commit")
  /\ UNCHANGED <<at, table, versions, applied, users, signup, faults>>

\* The INSERT of the version.  It waits for a transaction that holds the same
\* key and fails when that one has been committed.
RecordVersion(s) ==
  /\ pc[s] = "record"
  /\ ~\E t \in Servers : pc[t] = "commit" /\ at[t] = at[s]
  /\ Goto(s, IF at[s] \in versions THEN "down" ELSE "commit")
  /\ UNCHANGED <<at, table, versions, applied, users, signup, faults>>

\* Mutant: the file's SQL is committed on its own, the version after it.
CommitApart(s) ==
  /\ pc[s] = "commit"
  /\ \/ versions' = versions \cup {at[s]} /\ Goto(s, "check") /\ at' = [at EXCEPT ![s] = @ + 1]
     \/ UNCHANGED <<versions, at>> /\ Goto(s, "down")
  /\ applied' = Append(applied, at[s])
  /\ UNCHANGED <<table, users, signup, faults>>

\* The answer of the COMMIT may be lost; then the process ends.
Commit(s) ==
  /\ pc[s] = "commit"
  /\ versions' = versions \cup {at[s]}
  /\ applied' = Append(applied, at[s])
  /\ \/ Goto(s, "check") /\ at' = [at EXCEPT ![s] = @ + 1] /\ UNCHANGED faults
     \/ Goto(s, "down") /\ UNCHANGED at /\ faults < MaxFaults /\ faults' = faults + 1
  /\ UNCHANGED <<table, users, signup>>

\* Mutant: the account is made only after the server has begun to serve.
ServeFirst(s) ==
  /\ pc[s] = "find_admin"
  /\ Goto(s, "serving")
  /\ UNCHANGED <<at, table, versions, applied, users, signup, faults>>

\* Mutant: an account that exists is not looked for.
FindNoAdmin(s) ==
  /\ pc[s] = "find_admin"
  /\ Goto(s, "insert_admin")
  /\ UNCHANGED <<at, table, versions, applied, users, signup, faults>>

FindAdmin(s) ==
  /\ pc[s] = "find_admin"
  /\ Goto(s, IF Taken(Admin) THEN "serving" ELSE "insert_admin")
  /\ UNCHANGED <<at, table, versions, applied, users, signup, faults>>

\* The INSERT; its error, a second administrator's too, is fatal.
InsertAdmin(s) ==
  /\ pc[s] = "insert_admin"
  /\ IF Taken(Admin)
     THEN Goto(s, "down") /\ UNCHANGED users
     ELSE /\ Goto(s, "serving")
          /\ users' = users \cup {[name |-> Admin, email |-> NoEmail, role |-> "super_admin"]}
  /\ UNCHANGED <<at, table, versions, applied, signup, faults>>

-----------------------------------------------------------------------------
\* POST /auth/signup reaches a server that listens.
Accept(r, s) ==
  /\ signup[r] = Idle /\ pc[s] = "serving"
  /\ \E name \in Names, email \in Emails \cup {NoEmail} :
       signup' = [signup EXCEPT ![r] =
         [step |-> "name", server |-> s, name |-> name, email |-> email]]
  /\ UNCHANGED <<pc, at, table, versions, applied, users, faults>>

Answer(r) == signup' = [signup EXCEPT ![r] = Idle]
Proceed(r, step) == signup' = [signup EXCEPT ![r].step = step]

CheckName(r) ==
  /\ signup[r] # Idle /\ signup[r].step = "name"
  /\ IF Taken(signup[r].name) THEN Answer(r) ELSE Proceed(r, "email")
  /\ UNCHANGED <<pc, at, table, versions, applied, users, faults>>

CheckEmail(r) ==
  /\ signup[r] # Idle /\ signup[r].step = "email"
  /\ IF InUse(signup[r].email) THEN Answer(r) ELSE Proceed(r, "insert")
  /\ UNCHANGED <<pc, at, table, versions, applied, users, faults>>

NewUser(r) == [name |-> signup[r].name, email |-> signup[r].email, role |-> "user"]

\* Mutant: the table trusts the two questions.
InsertTrusting(r) ==
  /\ signup[r] # Idle /\ signup[r].step = "insert"
  /\ users' = users \cup {NewUser(r)}
  /\ Answer(r)
  /\ UNCHANGED <<pc, at, table, versions, applied, faults>>

\* The INSERT; username and email are UNIQUE, and NULL equals nothing.
InsertUser(r) ==
  /\ signup[r] # Idle /\ signup[r].step = "insert"
  /\ users' = IF Taken(signup[r].name) \/ InUse(signup[r].email)
              THEN users ELSE users \cup {NewUser(r)}
  /\ Answer(r)
  /\ UNCHANGED <<pc, at, table, versions, applied, faults>>

-----------------------------------------------------------------------------
\* A signal: Shutdown closes the listener, and ListenAndServe returns at once.
Signal(s) ==
  /\ pc[s] = "serving"
  /\ Goto(s, "closing")
  /\ UNCHANGED <<at, table, versions, applied, users, signup, faults>>

\* main returns without waiting for Shutdown: the pools close and the process
\* ends under the requests it was answering.
Exit(s) ==
  /\ pc[s] = "closing"
  /\ Goto(s, "stopped")
  /\ Cut(s)
  /\ UNCHANGED <<at, table, versions, applied, users, faults>>

Fault(s) ==
  /\ faults < MaxFaults /\ pc[s] \notin {"down", "stopped"}
  /\ faults' = faults + 1
  /\ Goto(s, "down")
  /\ Cut(s)
  /\ UNCHANGED <<at, table, versions, applied, users>>

Start(s) ==
  \/ Restart(s) \/ Connect(s) \/ CreateTable(s) \/ CheckVersion(s) \/ Execute(s)
  \/ RecordVersion(s) \/ Commit(s) \/ FindAdmin(s) \/ InsertAdmin(s)

Next ==
  \/ \E s \in Servers : Start(s) \/ Signal(s) \/ Exit(s) \/ Fault(s)
  \/ \E r \in Requests, s \in Servers : Accept(r, s)
  \/ \E r \in Requests : CheckName(r) \/ CheckEmail(r) \/ InsertUser(r)

\* main goes on as long as it can, and a process that ended is started again,
\* but for one that was stopped.
Fairness ==
  \A s \in Servers : WF_vars(pc[s] # "stopped" /\ Start(s)) /\ WF_vars(Exit(s))

Spec == Init /\ [][Next]_vars /\ Fairness

-----------------------------------------------------------------------------
\* The type of every variable.
TypeOK ==
  /\ pc \in [Servers -> Phases]
  /\ at \in [Servers -> 1..(Migrations + 1)]
  /\ table \in BOOLEAN
  /\ versions \subseteq 1..Migrations
  /\ applied \in Seq(1..Migrations)
  /\ users \subseteq User
  /\ signup \in [Requests -> Request \cup {Idle}]
  /\ faults \in 0..MaxFaults

\* Whatever servers start together and wherever they stop, the SQL of every
\* migration takes effect once, in the order of the files, and its version is
\* recorded exactly when it has (postgres.go:72-108).
AppliedOnceInOrder ==
  /\ \A i \in DOMAIN applied : applied[i] = i
  /\ versions = 1..Len(applied)

\* The account called admin is the super administrator: no signup, on any
\* server, can take the name first (main.go:75, service.go:154).
AdminIsSuper == \A u \in users : u.name = Admin => u.role = "super_admin"

\* Two accounts share neither name nor email, though Signup asks for them in
\* two statements and inserts in a third (service.go:104, 114, 144).
AccountsDistinct ==
  \A u, v \in users :
    u # v => u.name # v.name /\ (u.email = v.email => u.email = NoEmail)

\* A server that crashed, or lost a race to migrate or to make the
\* administrator, serves again (main.go:48, 76; postgres.go:62, 97, 102).
ServesAgain == \A s \in Servers : pc[s] = "down" ~> pc[s] = "serving"
=============================================================================
