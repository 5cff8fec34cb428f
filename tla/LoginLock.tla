----------------------------- MODULE LoginLock -----------------------------
(***************************************************************************)
(* The account lock of internal/auth: concurrent Service.Login calls that  *)
(* all name one account, and so share one row of table users.              *)
(*                                                                         *)
(* Login reads the row once (SELECT, line 36) and keeps the copy.  Every   *)
(* later statement is a separate autocommitted UPDATE, so another call,    *)
(* another request's failure or an operator's SQL can come between any two *)
(* of them.  One action below is the code between two such statements.     *)
(* The password hash, the names and the other columns are left out: the    *)
(* outcome of VerifyPassword is a choice.                                  *)
(***************************************************************************)
EXTENDS Integers, FiniteSets

CONSTANTS
  Reqs,        \* the HTTP requests that may be inside Login at one time
  Threshold,   \* 5, service.go:344
  LockFor,     \* 30 minutes, service.go:346
  OpLockFor,   \* 24 hours, the operator's lock of docs/operations.md:282
  MaxTime,     \* bound: the clock stops here
  MaxWrong,    \* bound: wrong passwords since the last reset, and those carried over it
  Faults       \* may an UPDATE fail (database error, cancelled context)?

ASSUME LoginLockAssumption ==
  /\ IsFiniteSet(Reqs)
  /\ Threshold \in Nat \ {0}
  /\ LockFor \in Nat \ {0}
  /\ OpLockFor \in Nat \ {0}
  /\ MaxTime \in Nat
  /\ MaxWrong \in Nat
  /\ Faults \in BOOLEAN

VARIABLES
  now,       \* time.Now()
  row,       \* the row: status, login_fail_count, locked_until
  pc,        \* where each request is
  seen,      \* the copy of the row each request works from
  deadline,  \* the locked_until a failing request computed and will write
  stale,     \* history: was the account barred after the request read it?
  wrong,     \* history: wrong passwords since the row was last reset
  carried,   \* history: the highest count a request had in hand at that reset
  misses     \* history: failures recorded without a lock, since the last reset or lock

vars == <<now, row, pc, seen, deadline, stale, wrong, carried, misses>>

Null == 0    \* SQL NULL in locked_until: earlier than every clock value

Statuses == {"active", "pending", "locked", "disabled"}
Row == [status : Statuses, fails : Nat, until : Nat]
Steps == {"idle", "check", "unlock", "verify", "incr", "reset", "granted"}

\* The requests that may still write a count computed from their copy.
Counting == {"check", "unlock", "verify", "incr"}

\* The requests that passed the status switch.
Admitted == {"unlock", "verify", "incr", "reset", "granted"}

\* The status switch refuses a row in this state.
Barred(u) == \/ u.status \in {"pending", "disabled"}
             \/ u.status = "locked" /\ now < u.until

\* The UPDATE of resetLoginFail: whatever the row holds, it becomes active.
Cleared == [status |-> "active", fails |-> 0, until |-> Null]

\* Mutants of the count: a forgotten + 1, a failure counted twice.
CountKept(s) == s.fails
CountTwice(s) == s.fails + 2

\* The count incrementLoginFail writes: the copy's, not the row's.
NewCount(s) == s.fails + 1

\* Mutant: the threshold is compared with the count after the next failure.
RecordedEarly(u, s, d) ==
  IF NewCount(s) + 1 >= Threshold
  THEN [status |-> "locked", fails |-> NewCount(s), until |-> d]
  ELSE [u EXCEPT !.fails = NewCount(s)]

\* The two UPDATEs of incrementLoginFail.  The second leaves status alone.
Recorded(u, s, d) ==
  IF NewCount(s) >= Threshold
  THEN [status |-> "locked", fails |-> NewCount(s), until |-> d]
  ELSE [u EXCEPT !.fails = NewCount(s)]

Locks(s) == NewCount(s) >= Threshold

\* The count a request has in hand: its copy's, and one more when the wrong
\* password has been given.
InHand(q) == IF pc[q] = "incr" THEN NewCount(seen[q]) ELSE seen[q].fails

\* The row is reset.  What a request in flight has in hand is carried over the
\* reset, also by the request that makes it, when it goes on to count.
Forget ==
  LET inFlight == {q \in Reqs : pc[q] \in Counting}
  IN /\ wrong' = 0
     /\ carried' \in {0} \cup {InHand(q) : q \in inFlight}
     /\ \A q \in inFlight : InHand(q) <= carried'

Goto(r, p) == pc' = [pc EXCEPT ![r] = p]

\* Login returns: its local variables are gone.
Return(r) ==
  /\ Goto(r, "idle")
  /\ seen' = [seen EXCEPT ![r] = Cleared]
  /\ deadline' = [deadline EXCEPT ![r] = Null]

\* The account is barred: what every request inside Login has read is older.
Outdate == stale' = [q \in Reqs |-> pc'[q] # "idle"]

-----------------------------------------------------------------------------
Init ==
  /\ now = 1
  /\ row \in [status : {"active", "pending"}, fails : {0}, until : {Null}]
  /\ pc = [r \in Reqs |-> "idle"]
  /\ seen = [r \in Reqs |-> Cleared]
  /\ deadline = [r \in Reqs |-> Null]
  /\ stale = [r \in Reqs |-> FALSE]
  /\ wrong = 0
  /\ carried = 0
  /\ misses = 0

\* findUserByUsername: the only read of the row.
FindUser(r) ==
  /\ pc[r] = "idle"
  /\ seen' = [seen EXCEPT ![r] = row]
  /\ stale' = [stale EXCEPT ![r] = FALSE]
  /\ Goto(r, "check")
  /\ UNCHANGED <<now, row, deadline, wrong, carried, misses>>

\* Mutants: the switch has no cases for pending and disabled; the switch lets
\* a lock in force pass and goes on to lift it.
CheckLocksOnly(r) ==
  /\ pc[r] = "check"
  /\ \/ seen[r].status = "locked" /\ now < seen[r].until /\ Return(r)
     \/ /\ ~(seen[r].status = "locked" /\ now < seen[r].until)
        /\ Goto(r, IF seen[r].status = "locked" THEN "unlock" ELSE "verify")
        /\ UNCHANGED <<seen, deadline>>
  /\ UNCHANGED <<now, row, stale, wrong, carried, misses>>

CheckIgnoresDeadline(r) ==
  /\ pc[r] = "check"
  /\ \/ seen[r].status \in {"pending", "disabled"} /\ Return(r)
     \/ /\ seen[r].status \in {"active", "locked"}
        /\ Goto(r, IF seen[r].status = "locked" THEN "unlock" ELSE "verify")
        /\ UNCHANGED <<seen, deadline>>
  /\ UNCHANGED <<now, row, stale, wrong, carried, misses>>

\* The status switch, on the copy and with the clock of that moment.
CheckStatus(r) ==
  /\ pc[r] = "check"
  /\ \/ Barred(seen[r]) /\ Return(r)
     \/ /\ ~Barred(seen[r])
        /\ Goto(r, IF seen[r].status = "locked" THEN "unlock" ELSE "verify")
        /\ UNCHANGED <<seen, deadline>>
  /\ UNCHANGED <<now, row, stale, wrong, carried, misses>>

\* unlockAccount after the lock expired.  Its error is ignored, and the copy
\* keeps the old count.
UnlockAccount(r) ==
  /\ pc[r] = "unlock"
  /\ Goto(r, "verify")
  /\ \/ row' = Cleared /\ misses' = 0 /\ Forget
     \/ Faults /\ UNCHANGED <<row, misses, wrong, carried>>
  /\ UNCHANGED <<now, seen, deadline, stale>>

VerifyRight(r) ==
  /\ pc[r] = "verify"
  /\ Goto(r, "reset")
  /\ UNCHANGED <<now, row, seen, deadline, stale, wrong, carried, misses>>

\* A wrong password.  incrementLoginFail takes the clock before its UPDATE.
VerifyWrong(r) ==
  /\ pc[r] = "verify"
  /\ wrong + carried < MaxWrong
  /\ Goto(r, "incr")
  /\ deadline' = [deadline EXCEPT ![r] = now + LockFor]
  /\ wrong' = wrong + 1
  /\ UNCHANGED <<now, row, seen, stale, carried, misses>>

\* The UPDATE of incrementLoginFail and the error answer.  When the UPDATE
\* fails the caller is refused and the failure is not counted.
IncrementLoginFail(r) ==
  /\ pc[r] = "incr"
  /\ Return(r)
  /\ \/ /\ row' = Recorded(row, seen[r], deadline[r])
        /\ IF Locks(seen[r])
           THEN misses' = 0 /\ Outdate
           ELSE misses' = misses + 1 /\ UNCHANGED stale
     \/ Faults /\ UNCHANGED <<row, misses, stale>>
  /\ UNCHANGED <<now, wrong, carried>>

\* resetLoginFail after a right password.  Its error is ignored.
ResetLoginFail(r) ==
  /\ pc[r] = "reset"
  /\ Goto(r, "granted")
  /\ \/ row' = Cleared /\ misses' = 0 /\ Forget
     \/ Faults /\ UNCHANGED <<row, misses, wrong, carried>>
  /\ UNCHANGED <<now, seen, deadline, stale>>

\* The answer that carries a credential (AuthTokens models which one).
Answer(r) ==
  /\ pc[r] = "granted"
  /\ Return(r)
  /\ UNCHANGED <<now, row, stale, wrong, carried, misses>>

-----------------------------------------------------------------------------
\* The SQL an operator runs by hand; each statement is one UPDATE.
OperatorLock ==
  /\ row' = [row EXCEPT !.status = "locked", !.until = now + OpLockFor]
  /\ UNCHANGED <<now, pc, seen, deadline, wrong, carried, misses>>
  /\ Outdate

OperatorDisable ==
  /\ row' = [row EXCEPT !.status = "disabled"]
  /\ UNCHANGED <<now, pc, seen, deadline, wrong, carried, misses>>
  /\ Outdate

OperatorUnlock ==
  /\ row' = Cleared /\ misses' = 0 /\ Forget
  /\ UNCHANGED <<now, pc, seen, deadline, stale>>

Tick ==
  /\ now < MaxTime
  /\ now' = now + 1
  /\ UNCHANGED <<row, pc, seen, deadline, stale, wrong, carried, misses>>

Login(r) ==
  \/ FindUser(r) \/ CheckStatus(r) \/ UnlockAccount(r)
  \/ VerifyRight(r) \/ VerifyWrong(r)
  \/ IncrementLoginFail(r) \/ ResetLoginFail(r) \/ Answer(r)

Operator == OperatorLock \/ OperatorDisable \/ OperatorUnlock

Next == (\E r \in Reqs : Login(r)) \/ Operator \/ Tick

Spec == Init /\ [][Next]_vars

-----------------------------------------------------------------------------
\* The type of every variable.
TypeOK ==
  /\ now \in Nat
  /\ row \in Row
  /\ pc \in [Reqs -> Steps]
  /\ seen \in [Reqs -> Row]
  /\ deadline \in [Reqs -> Nat]
  /\ stale \in [Reqs -> BOOLEAN]
  /\ wrong \in Nat
  /\ carried \in Nat
  /\ misses \in Nat

\* A request past the status switch whose read came after the account was last
\* barred finds the account open for as long as it runs: no interleaving of
\* other requests or of the operator can put it on the wrong side of a bar it
\* read (service.go:42-53 against 58, 65).
FreshMeansOpen ==
  \A r \in Reqs : pc[r] \in Admitted /\ ~stale[r] => ~Barred(row)

\* While the account is barred (pending, disabled or locked and not expired) a
\* login changes its row only if it read the row before the bar was set: the
\* unconditional UPDATEs of lines 348, 355 and 363 can undo a lock or a
\* disabling only from such a stale copy.
BarredRowUntouched ==
  [][\A r \in Reqs :
       pc'[r] # pc[r] /\ Barred(row) /\ row' # row => stale[r]]_vars

\* Counts are accounted for: the row, and every copy a request may still use,
\* count at most the wrong passwords given since the row was last reset and what
\* the requests in flight at that reset had in hand.  Lost updates only lower a
\* count (service.go:342), and a reset is undone by no more than was in hand.
CountsAccounted ==
  /\ row.fails <= wrong + carried
  /\ \A r \in Reqs : pc[r] \in Counting => InHand(r) <= wrong + carried

\* The threshold is met by wrong passwords given since the row was last reset,
\* but for a count in hand at that reset: a login locks too early only when it,
\* or one before it, went on from a copy older than a reset, of another login,
\* of the operator, or of its own after an expired lock (service.go:48, 342).
LockNeedsFailures ==
  [][\A r \in Reqs :
       pc'[r] # pc[r] /\ row'.until # row.until /\ row'.until # Null
         => wrong + carried >= Threshold]_vars

\* The ways k requests can be spread over the counts that do not lock, from 0 to
\* threshold - 1: how many of them are at each count or below it.
Spreads(k, threshold) ==
  {h \in [0..(threshold - 1) -> 0..k] :
     /\ h[threshold - 1] = k
     /\ \A i, j \in 0..(threshold - 1) : i <= j => h[i] <= h[j]}

\* The lock cannot be put off for ever.  A slow request can hold a low count
\* while the others use up the higher ones, and then write it back: once for
\* each spread of the requests but the last.  One request at a time absorbs
\* Threshold - 1 failures between two resets; for more see MCLoginLock
\* (service.go:342-357).
MissesWithinBudget ==
  misses <= Cardinality(Spreads(Cardinality(Reqs), Threshold)) - 1
=============================================================================
