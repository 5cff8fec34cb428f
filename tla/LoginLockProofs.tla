-------------------------- MODULE LoginLockProofs --------------------------
(***************************************************************************)
(* The safety of LoginLock for every set of requests, threshold, lock      *)
(* duration and bound.                                                     *)
(***************************************************************************)
EXTENDS LoginLock, FiniteSetTheorems, TLAPS

\* What joins a request's copy to the row before the status switch looks at
\* it: a bar the request did not read can only be one that made it stale.
CopyShowsBar ==
  \A r \in Reqs :
    pc[r] = "check" /\ ~stale[r] /\ Barred(row)
      => row.status = seen[r].status /\ row.until = seen[r].until

IInv == TypeOK /\ FreshMeansOpen /\ CopyShowsBar /\ CountsAccounted

LEMMA OutdateTypes ==
  ASSUME Outdate
  PROVE  stale' \in [Reqs -> BOOLEAN]
<1>1. [q \in Reqs |-> pc'[q] # "idle"] \in [Reqs -> BOOLEAN]
  BY Zenon
<1> QED
  BY <1>1, Zenon DEF Outdate

LEMMA RowTypes ==
  ASSUME TypeOK, NEW r \in Reqs
  PROVE  /\ Cleared \in Row
         /\ Recorded(row, seen[r], deadline[r]) \in Row
         /\ NewCount(seen[r]) \in Nat
  BY DEF TypeOK, Cleared, Row, Statuses, Null, Recorded, NewCount

\* A reset carries over what anybody in flight has in hand.
LEMMA ForgetCarries ==
  ASSUME TypeOK, Forget
  PROVE  /\ wrong' = 0 /\ carried' \in Nat
         /\ \A q \in Reqs : pc[q] \in Counting => InHand(q) <= carried'
<1>1. \A q \in Reqs : InHand(q) \in Nat
  BY DEF TypeOK, Row, InHand, NewCount
<1> QED
  BY <1>1 DEF Forget

LEMMA TypeStep ==
  ASSUME TypeOK, [Next]_vars
  PROVE  TypeOK'
<1>1. ASSUME NEW r \in Reqs, FindUser(r) PROVE TypeOK'
  BY <1>1 DEF FindUser, Goto, TypeOK, Steps
<1>2. ASSUME NEW r \in Reqs, CheckStatus(r) PROVE TypeOK'
  BY <1>2, RowTypes DEF CheckStatus, Goto, Return, TypeOK, Steps, Null
<1>3. ASSUME NEW r \in Reqs, UnlockAccount(r) PROVE TypeOK'
  BY <1>3, RowTypes, ForgetCarries DEF UnlockAccount, Goto, TypeOK, Steps
<1>4. ASSUME NEW r \in Reqs, VerifyRight(r) \/ VerifyWrong(r) PROVE TypeOK'
  BY <1>4, LoginLockAssumption DEF VerifyRight, VerifyWrong, Goto, TypeOK, Steps
<1>5. ASSUME NEW r \in Reqs, IncrementLoginFail(r) PROVE TypeOK'
  <2>1. stale' \in [Reqs -> BOOLEAN]
    <3>1. Outdate \/ stale' = stale
      BY <1>5 DEF IncrementLoginFail
    <3> QED
      BY <3>1, OutdateTypes, Zenon DEF TypeOK
  <2>2. row' \in Row /\ misses' \in Nat
    BY <1>5, RowTypes DEF IncrementLoginFail, TypeOK
  <2>3. Return(r) /\ UNCHANGED <<now, wrong, carried>>
    BY <1>5 DEF IncrementLoginFail
  <2>4. /\ now' \in Nat /\ wrong' \in Nat /\ carried' \in Nat
        /\ pc' \in [Reqs -> Steps]
        /\ seen' \in [Reqs -> Row]
        /\ deadline' \in [Reqs -> Nat]
    BY <2>3, RowTypes DEF Return, Goto, TypeOK, Steps, Null
  <2> QED
    BY <2>1, <2>2, <2>4, Zenon DEF TypeOK
<1>6. ASSUME NEW r \in Reqs, ResetLoginFail(r) \/ Answer(r) PROVE TypeOK'
  BY <1>6, RowTypes, ForgetCarries DEF ResetLoginFail, Answer, Return, Goto, TypeOK, Steps, Null
<1>7. ASSUME Operator PROVE TypeOK'
  <2>1. stale' \in [Reqs -> BOOLEAN]
    <3>1. Outdate \/ stale' = stale
      BY <1>7, Zenon DEF Operator, OperatorLock, OperatorDisable, OperatorUnlock
    <3> QED
      BY <3>1, OutdateTypes, Zenon DEF TypeOK
  <2>2. row' \in Row
    <3>1. CASE OperatorLock
      <4>1. now + OpLockFor \in Nat
        BY LoginLockAssumption DEF TypeOK
      <4> QED
        BY <3>1, <4>1 DEF OperatorLock, TypeOK, Row, Statuses
    <3>2. CASE OperatorDisable
      BY <3>2 DEF OperatorDisable, TypeOK, Row, Statuses
    <3>3. CASE OperatorUnlock
      BY <3>3 DEF OperatorUnlock, Row, Statuses, Cleared, Null
    <3> QED
      BY <1>7, <3>1, <3>2, <3>3 DEF Operator
  <2>3. misses' \in Nat /\ wrong' \in Nat /\ carried' \in Nat
    BY <1>7, ForgetCarries DEF Operator, OperatorLock, OperatorDisable, OperatorUnlock, TypeOK
  <2>4. UNCHANGED <<now, pc, seen, deadline>>
    BY <1>7 DEF Operator, OperatorLock, OperatorDisable, OperatorUnlock
  <2> QED
    BY <2>1, <2>2, <2>3, <2>4, Zenon DEF TypeOK
<1>8. CASE Tick
  BY <1>8 DEF Tick, TypeOK
<1>9. CASE UNCHANGED vars
  BY <1>9 DEF vars, TypeOK
<1> QED
  BY <1>1, <1>2, <1>3, <1>4, <1>5, <1>6, <1>7, <1>8, <1>9 DEF Next, Login

\* The type invariant, for every value of the constants.
THEOREM TypeInvariant == Spec => []TypeOK
<1>1. Init => TypeOK
  BY DEF Init, TypeOK, Row, Statuses, Steps, Cleared, Null
<1> QED
  BY <1>1, TypeStep, PTL DEF Spec

-----------------------------------------------------------------------------
\* The rest of the inductive invariant.  Requests other than the one that
\* steps keep their program counter and their copy.
LEMMA InitIInv == Init => IInv
<1> SUFFICES ASSUME Init PROVE IInv
  OBVIOUS
<1>1. TypeOK
  BY DEF Init, TypeOK, Row, Statuses, Steps, Cleared, Null
<1>2. FreshMeansOpen /\ CopyShowsBar /\ CountsAccounted
  BY DEF Init, FreshMeansOpen, CopyShowsBar, CountsAccounted, Admitted, Counting
<1> QED
  BY <1>1, <1>2 DEF IInv

LEMMA OutdatedAll ==
  ASSUME Outdate, NEW q \in Reqs, ~stale'[q]
  PROVE  pc'[q] = "idle"
  BY DEF Outdate

\* What a login does to the bar: it sets one and outdates every request, or it
\* leaves status and deadline alone, or it lifts the bar.
LEMMA RowSteps ==
  ASSUME TypeOK, NEW r \in Reqs, Login(r)
  PROVE  \/ Outdate
         \/ UNCHANGED <<row.status, row.until>> /\ stale' = stale
         \/ UNCHANGED <<row.status, row.until>> /\ FindUser(r)
         \/ row' = Cleared /\ stale' = stale
<1>1. CASE FindUser(r)
  BY <1>1 DEF FindUser
<1>2. CASE CheckStatus(r)
  BY <1>2 DEF CheckStatus
<1>3. CASE UnlockAccount(r)
  BY <1>3 DEF UnlockAccount
<1>4. CASE VerifyRight(r) \/ VerifyWrong(r)
  BY <1>4 DEF VerifyRight, VerifyWrong
<1>5. CASE IncrementLoginFail(r)
  BY <1>5 DEF IncrementLoginFail, Recorded, Locks, TypeOK, Row
<1>6. CASE ResetLoginFail(r) \/ Answer(r)
  BY <1>6 DEF ResetLoginFail, Answer
<1> QED
  BY <1>1, <1>2, <1>3, <1>4, <1>5, <1>6 DEF Login

LEMMA LoginFrame ==
  ASSUME TypeOK, NEW r \in Reqs, Login(r)
  PROVE  /\ now' = now
         /\ \A q \in Reqs \ {r} : pc'[q] = pc[q] /\ seen'[q] = seen[q]
  BY DEF Login, FindUser, CheckStatus, UnlockAccount, VerifyRight, VerifyWrong,
         IncrementLoginFail, ResetLoginFail, Answer, Return, Goto, TypeOK

LEMMA FreshStep ==
  ASSUME IInv, NEW r \in Reqs, Login(r)
  PROVE  FreshMeansOpen' /\ CopyShowsBar'
<1> USE DEF IInv
<1> SUFFICES ASSUME NEW q \in Reqs, ~stale'[q]
             PROVE  /\ pc'[q] \in Admitted => ~Barred(row)'
                    /\ pc'[q] = "check" /\ Barred(row)'
                         => row'.status = seen'[q].status /\ row'.until = seen'[q].until
  BY DEF FreshMeansOpen, CopyShowsBar, Admitted
<1>1. CASE Outdate
  BY <1>1, OutdatedAll DEF Admitted
<1>2. CASE row' = Cleared /\ stale' = stale
  BY <1>2, LoginFrame DEF Barred, Cleared
<1>3. CASE UNCHANGED <<row.status, row.until>> /\ q # r /\ stale'[q] = stale[q]
  BY <1>3, LoginFrame DEF FreshMeansOpen, CopyShowsBar, Barred
<1>4. CASE UNCHANGED <<row.status, row.until>> /\ stale' = stale /\ q = r
  <2>1. CASE FindUser(r)
    BY <1>4, <2>1 DEF FindUser, Goto, Admitted, TypeOK
  <2>2. CASE CheckStatus(r)
    BY <1>4, <2>2 DEF CheckStatus, Return, Goto, Admitted, TypeOK, CopyShowsBar, Barred
  <2>3. CASE ~FindUser(r) /\ ~CheckStatus(r)
    <3>1. pc[r] \in Admitted /\ pc'[r] # "check"
      BY <2>3 DEF Login, UnlockAccount, VerifyRight, VerifyWrong, IncrementLoginFail,
             ResetLoginFail, Answer, Return, Goto, Admitted, TypeOK
    <3> QED
      BY <1>4, <3>1, LoginFrame DEF FreshMeansOpen, Barred
  <2> QED
    BY <2>1, <2>2, <2>3
<1>5. CASE FindUser(r) /\ UNCHANGED <<row.status, row.until>>
  <2>1. CASE q = r
    BY <1>5, <2>1 DEF FindUser, Goto, Admitted, TypeOK
  <2>2. CASE q # r
    BY <1>3, <1>5, <2>2 DEF FindUser, TypeOK
  <2> QED
    BY <2>1, <2>2
<1> QED
  BY <1>1, <1>2, <1>3, <1>4, <1>5, RowSteps

LEMMA CountsStep ==
  ASSUME IInv, NEW r \in Reqs, Login(r)
  PROVE  CountsAccounted'
<1> USE DEF IInv, CountsAccounted, Counting, InHand, NewCount
<1>1. CASE FindUser(r)
  BY <1>1 DEF FindUser, Goto, TypeOK, Row
<1>2. CASE CheckStatus(r)
  BY <1>2 DEF CheckStatus, Return, Goto, TypeOK, Row
<1>3. CASE UnlockAccount(r)
  <2>1. CASE Forget /\ row' = Cleared
    BY <1>3, <2>1, ForgetCarries DEF UnlockAccount, Goto, TypeOK, Row, Cleared
  <2>2. CASE UNCHANGED <<row, wrong, carried>>
    BY <1>3, <2>2 DEF UnlockAccount, Goto, TypeOK, Row
  <2> QED
    BY <1>3, <2>1, <2>2, Zenon DEF UnlockAccount
<1>4. CASE VerifyRight(r)
  BY <1>4 DEF VerifyRight, Goto, TypeOK
<1>5. CASE VerifyWrong(r)
  BY <1>5 DEF VerifyWrong, Goto, TypeOK, Row
<1>6. CASE IncrementLoginFail(r)
  BY <1>6 DEF IncrementLoginFail, Return, Goto, Recorded, TypeOK, Row
<1>7. CASE ResetLoginFail(r)
  <2>1. CASE Forget /\ row' = Cleared
    BY <1>7, <2>1, ForgetCarries DEF ResetLoginFail, Goto, TypeOK, Row, Cleared
  <2>2. CASE UNCHANGED <<row, wrong, carried>>
    BY <1>7, <2>2 DEF ResetLoginFail, Goto, TypeOK, Row
  <2> QED
    BY <1>7, <2>1, <2>2, Zenon DEF ResetLoginFail
<1>8. CASE Answer(r)
  BY <1>8 DEF Answer, Return, Goto, TypeOK
<1> QED
  BY <1>1, <1>2, <1>3, <1>4, <1>5, <1>6, <1>7, <1>8 DEF Login

LEMMA OperatorStep ==
  ASSUME IInv, Operator
  PROVE  FreshMeansOpen' /\ CopyShowsBar' /\ CountsAccounted'
<1> USE DEF IInv
<1>1. FreshMeansOpen' /\ CopyShowsBar'
  <2>1. CASE Outdate
    BY <2>1, OutdatedAll DEF FreshMeansOpen, CopyShowsBar, Admitted
  <2>2. CASE OperatorUnlock
    BY <2>2 DEF OperatorUnlock, FreshMeansOpen, CopyShowsBar, Barred, Cleared
  <2> QED
    BY <2>1, <2>2, Zenon DEF Operator, OperatorLock, OperatorDisable
<1>2. CountsAccounted'
  <2>1. CASE OperatorLock \/ OperatorDisable
    <3>1. row'.fails = row.fails /\ UNCHANGED <<pc, seen, wrong, carried>>
      BY <2>1 DEF OperatorLock, OperatorDisable, TypeOK, Row
    <3> QED
      BY <3>1 DEF CountsAccounted, InHand, NewCount
  <2>2. CASE OperatorUnlock
    <3>1. \A q \in Reqs : InHand(q)' = InHand(q) /\ pc'[q] = pc[q]
      BY <2>2 DEF OperatorUnlock, InHand, NewCount
    <3> QED
      BY <2>2, <3>1, ForgetCarries DEF OperatorUnlock, CountsAccounted, Cleared
  <2> QED
    BY <2>1, <2>2 DEF Operator
<1> QED
  BY <1>1, <1>2

LEMMA IInvStep ==
  ASSUME IInv, [Next]_vars
  PROVE  IInv'
<1>1. TypeOK'
  BY TypeStep DEF IInv
<1>2. FreshMeansOpen' /\ CopyShowsBar' /\ CountsAccounted'
  <2>1. ASSUME NEW r \in Reqs, Login(r)
        PROVE  FreshMeansOpen' /\ CopyShowsBar' /\ CountsAccounted'
    BY <2>1, FreshStep, CountsStep
  <2>2. CASE Operator
    BY <2>2, OperatorStep
  <2>3. CASE Tick
    BY <2>3 DEF Tick, IInv, TypeOK, FreshMeansOpen, CopyShowsBar, CountsAccounted,
                Barred, InHand, NewCount, Row
  <2>4. CASE UNCHANGED vars
    BY <2>4 DEF vars, IInv, FreshMeansOpen, CopyShowsBar, CountsAccounted, Barred,
                InHand, NewCount
  <2> QED
    BY <2>1, <2>2, <2>3, <2>4 DEF Next
<1> QED
  BY <1>1, <1>2 DEF IInv

\* The bar, the copies that may miss it and the counts, in every reachable state.
THEOREM Inductive == Spec => []IInv
BY InitIInv, IInvStep, PTL DEF Spec

-----------------------------------------------------------------------------
\* A request whose read came after the last bar finds the account open.
THEOREM FreshRequestsFindItOpen == Spec => []FreshMeansOpen
<1>1. IInv => FreshMeansOpen
  BY DEF IInv
<1> QED
  BY <1>1, Inductive, PTL

\* The counts never exceed the wrong passwords given since the row was last
\* reset and what was in hand at that reset.
THEOREM CountsAreAccounted == Spec => []CountsAccounted
<1>1. IInv => CountsAccounted
  BY DEF IInv
<1> QED
  BY <1>1, Inductive, PTL

\* Only a request that read the row before the bar was set can write to it.
THEOREM BarHoldsAgainstFresh == Spec => BarredRowUntouched
<1>1. ASSUME IInv, [Next]_vars
      PROVE  [\A r \in Reqs :
                pc'[r] # pc[r] /\ Barred(row) /\ row' # row => stale[r]]_vars
  <2> SUFFICES ASSUME NEW r \in Reqs, pc'[r] # pc[r], Barred(row), row' # row, ~stale[r]
               PROVE  FALSE
    OBVIOUS
  <2>1. Login(r)
    <3>1. ASSUME NEW q \in Reqs, Login(q), q # r PROVE FALSE
      BY <3>1, <1>1, LoginFrame DEF IInv
    <3>2. ~Operator /\ ~Tick /\ ~UNCHANGED vars
      BY DEF Operator, OperatorLock, OperatorDisable, OperatorUnlock, Tick, vars
    <3> QED
      BY <1>1, <3>1, <3>2 DEF Next
  <2>2. pc[r] \in Admitted
    BY <2>1 DEF Login, FindUser, CheckStatus, UnlockAccount, VerifyRight, VerifyWrong,
                IncrementLoginFail, ResetLoginFail, Answer, Admitted
  <2> QED
    BY <2>2, <1>1 DEF IInv, FreshMeansOpen
<1> QED
  BY <1>1, Inductive, PTL DEF Spec, BarredRowUntouched

\* A login that locks the account does so on Threshold wrong passwords since the
\* last reset, a count carried over that reset included.
THEOREM LockOnlyAfterFailures == Spec => LockNeedsFailures
<1>1. ASSUME IInv, [Next]_vars
      PROVE  [\A r \in Reqs :
                pc'[r] # pc[r] /\ row'.until # row.until /\ row'.until # Null
                  => wrong + carried >= Threshold]_vars
  <2> SUFFICES ASSUME NEW r \in Reqs, pc'[r] # pc[r],
                      row'.until # row.until, row'.until # Null
               PROVE  wrong + carried >= Threshold
    OBVIOUS
  <2>1. PICK q \in Reqs : Login(q)
    BY <1>1 DEF Next, Operator, OperatorLock, OperatorDisable, OperatorUnlock, Tick, vars
  <2>2. IncrementLoginFail(q)
    BY <2>1 DEF Login, FindUser, CheckStatus, UnlockAccount, VerifyRight, VerifyWrong,
                ResetLoginFail, Answer, Cleared
  <2>3. NewCount(seen[q]) >= Threshold
    BY <2>2, <1>1 DEF IncrementLoginFail, Recorded, IInv, TypeOK, Row
  <2>4. NewCount(seen[q]) <= wrong + carried
    BY <2>2, <1>1 DEF IncrementLoginFail, IInv, CountsAccounted, Counting, InHand
  <2> QED
    BY <2>3, <2>4, <1>1, LoginLockAssumption DEF IInv, TypeOK, Row, NewCount
<1> QED
  BY <1>1, Inductive, PTL DEF Spec, LockNeedsFailures

-----------------------------------------------------------------------------
(***************************************************************************)
(* The budget of failures.  A request stands at the count it would write   *)
(* to the row if it failed now, less one: its copy's when the copy is the  *)
(* lower, the row's otherwise.  How many requests stand at each count or   *)
(* below is a spread, and every recorded failure that does not lock moves  *)
(* to a later one: at the first count where the two spreads differ, fewer  *)
(* stand.  The failures so far are at most the spreads already passed.     *)
(***************************************************************************)
Levels == 0..(Threshold - 1)

Held(q) == IF pc[q] \in Counting /\ seen[q].fails <= row.fails
           THEN seen[q].fails ELSE row.fails

Standing == [q \in Reqs |-> IF Held(q) < Threshold THEN Held(q) ELSE Threshold - 1]

AtMost(a, j) == {q \in Reqs : a[q] <= j}

Spread(a) == [j \in Levels |-> Cardinality(AtMost(a, j))]

AllSpreads == Spreads(Cardinality(Reqs), Threshold)

Earlier(g, h) == \E j \in Levels : g[j] > h[j] /\ \A i \in Levels : i < j => g[i] = h[i]

Passed(h) == {g \in AllSpreads : Earlier(g, h)}

BudgetInv == misses <= Cardinality(Passed(Spread(Standing)))

LEMMA AtMostFinite ==
  ASSUME NEW a, NEW j
  PROVE  /\ IsFiniteSet(AtMost(a, j))
         /\ Cardinality(AtMost(a, j)) \in Nat
         /\ Cardinality(AtMost(a, j)) <= Cardinality(Reqs)
<1>1. AtMost(a, j) \in SUBSET Reqs
  BY DEF AtMost
<1> QED
  BY <1>1, FS_Subset, FS_CardinalityType, LoginLockAssumption

LEMMA SpreadIsOne ==
  ASSUME NEW a \in [Reqs -> Levels]
  PROVE  Spread(a) \in AllSpreads
<1> DEFINE k == Cardinality(Reqs)
<1>1. k \in Nat
  BY FS_CardinalityType, LoginLockAssumption
<1>2. Spread(a) \in [Levels -> 0..k]
  BY <1>1, AtMostFinite DEF Spread
<1>3. Threshold - 1 \in Levels
  BY LoginLockAssumption DEF Levels
<1>4. Spread(a)[Threshold - 1] = k
  <2>1. AtMost(a, Threshold - 1) = Reqs
    BY DEF AtMost, Levels
  <2> QED
    BY <1>3, <2>1 DEF Spread
<1>5. ASSUME NEW i \in Levels, NEW j \in Levels, i <= j
      PROVE  Spread(a)[i] <= Spread(a)[j]
  <2>1. AtMost(a, i) \in SUBSET AtMost(a, j)
    BY <1>5 DEF AtMost, Levels
  <2> QED
    BY <2>1, AtMostFinite, FS_Subset DEF Spread
<1> QED
  BY <1>2, <1>4, <1>5 DEF AllSpreads, Spreads, Levels

\* Spreads are finitely many: each is a set of pairs of two intervals.
LEMMA SpreadsFinite == IsFiniteSet(AllSpreads)
<1> DEFINE k == Cardinality(Reqs)
           graph == [h \in AllSpreads |-> {e \in Levels \X (0..k) : h[e[1]] = e[2]}]
<1>1. k \in Nat
  BY FS_CardinalityType, LoginLockAssumption
<1>2. IsFiniteSet(SUBSET (Levels \X (0..k)))
  <2>1. IsFiniteSet(Levels) /\ IsFiniteSet(0..k)
    BY <1>1, FS_Interval, LoginLockAssumption DEF Levels
  <2> QED
    BY <2>1, FS_Product, FS_SUBSET
<1>3. \A h \in AllSpreads : h \in [Levels -> 0..k]
  BY DEF AllSpreads, Spreads, Levels
<1>4. graph \in [AllSpreads -> SUBSET (Levels \X (0..k))]
  OBVIOUS
<1>5. ASSUME NEW g \in AllSpreads, NEW h \in AllSpreads, graph[g] = graph[h]
      PROVE  g = h
  <2>1. ASSUME NEW j \in Levels PROVE g[j] = h[j]
    <3>1. <<j, g[j]>> \in graph[g]
      BY <1>3
    <3>2. <<j, g[j]>> \in graph[h]
      BY <3>1, <1>5, Zenon
    <3> QED
      BY <3>2
  <2> QED
    BY <1>3, <2>1
<1>6. graph \in Injection(AllSpreads, SUBSET (Levels \X (0..k)))
  BY <1>4, <1>5 DEF Injection, IsInjective
<1> QED
  BY <1>2, <1>6, FS_Injection

\* The order is strict and linear enough: what has been passed stays passed.
LEMMA EarlierTransitive ==
  ASSUME NEW f \in AllSpreads, NEW g \in AllSpreads, NEW h \in AllSpreads,
         Earlier(f, g), Earlier(g, h)
  PROVE  Earlier(f, h)
<1>1. \A e \in AllSpreads, j \in Levels : e[j] \in Int
  BY FS_CardinalityType, LoginLockAssumption DEF AllSpreads, Spreads, Levels
<1>2. PICK i \in Levels : f[i] > g[i] /\ \A l \in Levels : l < i => f[l] = g[l]
  BY DEF Earlier
<1>3. PICK j \in Levels : g[j] > h[j] /\ \A l \in Levels : l < j => g[l] = h[l]
  BY DEF Earlier
<1>4. i \in Int /\ j \in Int
  BY DEF Levels
<1>5. CASE i < j
  <2>1. f[i] > h[i]
    BY <1>2, <1>3, <1>5
  <2>2. \A l \in Levels : l < i => f[l] = h[l]
    BY <1>2, <1>3, <1>4, <1>5 DEF Levels
  <2> QED
    BY <2>1, <2>2 DEF Earlier
<1>6. CASE j < i
  <2>1. f[j] > h[j]
    BY <1>2, <1>3, <1>6
  <2>2. \A l \in Levels : l < j => f[l] = h[l]
    BY <1>2, <1>3, <1>4, <1>6 DEF Levels
  <2> QED
    BY <2>1, <2>2 DEF Earlier
<1>7. CASE i = j
  <2>1. f[i] > h[i]
    BY <1>1, <1>2, <1>3, <1>7
  <2>2. \A l \in Levels : l < i => f[l] = h[l]
    BY <1>2, <1>3, <1>7
  <2> QED
    BY <2>1, <2>2 DEF Earlier
<1> QED
  BY <1>4, <1>5, <1>6, <1>7

LEMMA EarlierStrict ==
  ASSUME NEW h \in AllSpreads
  PROVE  ~Earlier(h, h)
<1>1. \A j \in Levels : h[j] \in Int
  BY FS_CardinalityType, LoginLockAssumption DEF AllSpreads, Spreads, Levels
<1> QED
  BY <1>1 DEF Earlier

LEMMA PassedFinite ==
  ASSUME NEW h
  PROVE  IsFiniteSet(Passed(h)) /\ Cardinality(Passed(h)) \in Nat
<1>1. Passed(h) \in SUBSET AllSpreads
  BY DEF Passed
<1> QED
  BY <1>1, SpreadsFinite, FS_Subset, FS_CardinalityType

LEMMA PassedGrows ==
  ASSUME NEW g \in AllSpreads, NEW h \in AllSpreads, Earlier(g, h)
  PROVE  Cardinality(Passed(g)) + 1 <= Cardinality(Passed(h))
<1>1. g \notin Passed(g)
  BY EarlierStrict DEF Passed
<1>2. Cardinality(Passed(g) \cup {g}) = Cardinality(Passed(g)) + 1
  BY <1>1, PassedFinite, FS_AddElement
<1>3. Passed(g) \cup {g} \in SUBSET Passed(h)
  BY EarlierTransitive DEF Passed
<1> QED
  BY <1>2, <1>3, PassedFinite, FS_Subset

LEMMA PassedWithinBudget ==
  ASSUME NEW h \in AllSpreads
  PROVE  Cardinality(Passed(h)) <= Cardinality(AllSpreads) - 1
<1>1. h \notin Passed(h)
  BY EarlierStrict DEF Passed
<1>2. Cardinality(Passed(h) \cup {h}) = Cardinality(Passed(h)) + 1
  BY <1>1, PassedFinite, FS_AddElement
<1>3. Passed(h) \cup {h} \in SUBSET AllSpreads
  BY DEF Passed
<1>4. Cardinality(AllSpreads) \in Nat
  BY SpreadsFinite, FS_CardinalityType
<1> QED
  BY <1>2, <1>3, <1>4, SpreadsFinite, PassedFinite, FS_Subset
\* The count at which the spreads of two standings part.
LEMMA RiseAt ==
  ASSUME NEW a \in [Reqs -> Levels], NEW b \in [Reqs -> Levels],
         NEW r \in Reqs, NEW j \in Levels,
         a[r] <= j, j < b[r],
         \A q \in Reqs : a[q] < j \/ b[q] < j => a[q] = b[q],
         \A q \in Reqs : b[q] <= j => a[q] <= j
  PROVE  Earlier(Spread(a), Spread(b))
<1>1. ASSUME NEW i \in Levels, i < j PROVE Spread(a)[i] = Spread(b)[i]
  <2>1. AtMost(a, i) = AtMost(b, i)
    BY <1>1 DEF AtMost, Levels
  <2> QED
    BY <2>1 DEF Spread
<1>2. Cardinality(AtMost(a, j)) > Cardinality(AtMost(b, j))
  <2>1. AtMost(b, j) \in SUBSET AtMost(a, j)
    BY DEF AtMost
  <2>2. AtMost(b, j) # AtMost(a, j)
    <3>1. r \in AtMost(a, j) /\ r \notin AtMost(b, j)
      BY DEF AtMost, Levels
    <3> QED
      BY <3>1
  <2>3. /\ Cardinality(AtMost(b, j)) <= Cardinality(AtMost(a, j))
        /\ Cardinality(AtMost(b, j)) # Cardinality(AtMost(a, j))
    BY <2>1, <2>2, AtMostFinite, FS_Subset
  <2> QED
    BY <2>3, AtMostFinite
<1> QED
  BY <1>1, <1>2 DEF Earlier, Spread

LEMMA OneRises ==
  ASSUME NEW a \in [Reqs -> Levels], NEW b \in [Reqs -> Levels], NEW r \in Reqs,
         a[r] <= b[r], \A q \in Reqs \ {r} : a[q] = b[q]
  PROVE  a = b \/ Earlier(Spread(a), Spread(b))
<1>1. a[r] \in Levels /\ \A q \in Reqs : a[q] \in Int /\ b[q] \in Int
  BY DEF Levels
<1>2. CASE a[r] = b[r]
  BY <1>2
<1>3. CASE a[r] # b[r]
  BY <1>1, <1>3, RiseAt
<1> QED
  BY <1>2, <1>3

LEMMA StandingTypes ==
  ASSUME TypeOK
  PROVE  /\ Standing \in [Reqs -> Levels]
         /\ \A q \in Reqs : Held(q) \in Nat /\ seen[q].fails \in Nat
         /\ row.fails \in Nat
<1>1. row.fails \in Nat /\ \A q \in Reqs : seen[q].fails \in Nat
  BY DEF TypeOK, Row
<1>2. \A q \in Reqs : Held(q) \in Nat
  BY <1>1 DEF Held
<1> QED
  BY <1>1, <1>2, LoginLockAssumption DEF Standing, Levels

\* A request that does not write keeps its standing or gives up a low one.
LEMMA QuietStanding ==
  ASSUME TypeOK, TypeOK', NEW r \in Reqs, row'.fails = row.fails,
         \A q \in Reqs \ {r} : pc'[q] = pc[q] /\ seen'[q] = seen[q],
         pc'[r] \in Counting
           => \/ seen'[r].fails = row.fails
              \/ pc[r] \in Counting /\ seen'[r] = seen[r]
  PROVE  Standing' = Standing \/ Earlier(Spread(Standing), Spread(Standing'))
<1>1. \A q \in Reqs \ {r} : Held(q)' = Held(q)
  BY DEF Held
<1>2. Held(r) <= Held(r)'
  BY StandingTypes DEF Held
<1>3. Standing \in [Reqs -> Levels] /\ Standing' \in [Reqs -> Levels]
  BY StandingTypes, LoginLockAssumption DEF Standing, Levels, Held, TypeOK, Row
<1>4. Held(r) \in Nat /\ Held(r)' \in Nat
  BY StandingTypes DEF Held, TypeOK, Row
<1>5. Standing[r] <= Standing'[r] /\ \A q \in Reqs \ {r} : Standing[q] = Standing'[q]
  BY <1>1, <1>2, <1>4, LoginLockAssumption DEF Standing
<1> QED
  BY <1>3, <1>5, OneRises

\* A failure that is recorded and does not lock passes its spread.
LEMMA RecordedRises ==
  ASSUME TypeOK, TypeOK', NEW r \in Reqs, pc[r] = "incr", pc'[r] = "idle",
         \A q \in Reqs \ {r} : pc'[q] = pc[q] /\ seen'[q] = seen[q],
         row'.fails = seen[r].fails + 1, seen[r].fails + 1 < Threshold
  PROVE  Earlier(Spread(Standing), Spread(Standing'))
<1> DEFINE j == Held(r)
<1>1. Standing \in [Reqs -> Levels] /\ Standing' \in [Reqs -> Levels]
  BY StandingTypes, LoginLockAssumption DEF Standing, Levels, Held, TypeOK, Row
<1>2. /\ row.fails \in Nat /\ row'.fails \in Nat
      /\ \A q \in Reqs : seen[q].fails \in Nat /\ seen'[q].fails \in Nat
  BY DEF TypeOK, Row
<1>3. j = (IF seen[r].fails <= row.fails THEN seen[r].fails ELSE row.fails)
  BY DEF Held, Counting
<1>4. j \in Levels /\ j \in Nat /\ j < row'.fails /\ j <= row.fails /\ j < Threshold - 1
  BY <1>2, <1>3, LoginLockAssumption DEF Levels
<1>5. Standing[r] <= j /\ j < Standing'[r]
  <2>1. Held(r)' = row'.fails
    BY DEF Held, Counting
  <2> QED
    BY <1>2, <1>4, <2>1, LoginLockAssumption DEF Standing
<1>6. ASSUME NEW q \in Reqs \ {r}
      PROVE  /\ Held(q) < j \/ Held(q)' < j => Held(q) = Held(q)'
             /\ Held(q)' <= j => Held(q) <= j
  <2>1. pc'[q] = pc[q] /\ seen'[q] = seen[q]
    OBVIOUS
  <2> QED
    BY <1>2, <1>3, <1>4, <2>1 DEF Held
<1>7. ASSUME NEW q \in Reqs \ {r}
      PROVE  /\ Standing[q] < j \/ Standing'[q] < j => Standing[q] = Standing'[q]
             /\ Standing'[q] <= j => Standing[q] <= j
  <2>1. Held(q) \in Nat /\ Held(q)' \in Nat
    BY <1>2 DEF Held
  <2> QED
    BY <1>4, <1>6, <2>1, LoginLockAssumption DEF Standing
<1> HIDE DEF j
<1> QED
  BY <1>1, <1>4, <1>5, <1>7, RiseAt DEF Levels

\* The spread of the standings after a step against the one before it.
LEMMA BudgetOf ==
  ASSUME TypeOK, TypeOK', BudgetInv,
         \/ misses' = 0
         \/ /\ misses' = misses
            /\ Standing' = Standing \/ Earlier(Spread(Standing), Spread(Standing'))
         \/ misses' = misses + 1 /\ Earlier(Spread(Standing), Spread(Standing'))
  PROVE  BudgetInv'
<1>1. Standing \in [Reqs -> Levels] /\ Standing' \in [Reqs -> Levels]
  BY StandingTypes, LoginLockAssumption DEF Standing, Levels, Held, TypeOK, Row
<1>2. Spread(Standing) \in AllSpreads /\ Spread(Standing') \in AllSpreads
  BY <1>1, SpreadIsOne
<1> DEFINE before == Cardinality(Passed(Spread(Standing)))
           after == Cardinality(Passed(Spread(Standing')))
<1>3. before \in Nat /\ after \in Nat
  BY PassedFinite
<1>4. Earlier(Spread(Standing), Spread(Standing')) => before + 1 <= after
  BY <1>2, PassedGrows
<1>5. Standing' = Standing => after = before
  OBVIOUS
<1>6. misses <= before /\ misses \in Nat
  BY DEF BudgetInv, TypeOK
<1> HIDE DEF before, after
<1>7. misses' <= after
  BY <1>3, <1>4, <1>5, <1>6
<1> QED
  BY <1>7 DEF BudgetInv, after, Passed, AllSpreads, Spread, Earlier, AtMost, Levels

LEMMA BudgetStep ==
  ASSUME TypeOK, TypeOK', BudgetInv, [Next]_vars
  PROVE  BudgetInv'
<1>1. ASSUME NEW r \in Reqs, Login(r)
      PROVE  \/ misses' = 0
             \/ /\ misses' = misses
                /\ Standing' = Standing \/ Earlier(Spread(Standing), Spread(Standing'))
             \/ misses' = misses + 1 /\ Earlier(Spread(Standing), Spread(Standing'))
  <2>1. \A q \in Reqs \ {r} : pc'[q] = pc[q] /\ seen'[q] = seen[q]
    BY <1>1, LoginFrame
  <2>2. CASE FindUser(r)
    <3>1. row' = row /\ misses' = misses /\ seen'[r] = row
      BY <2>2 DEF FindUser, TypeOK
    <3> QED
      BY <2>1, <3>1, QuietStanding
  <2>3. CASE CheckStatus(r)
    <3>1. /\ row' = row /\ misses' = misses
          /\ pc'[r] \in Counting => pc[r] \in Counting /\ seen'[r] = seen[r]
      BY <2>3 DEF CheckStatus, Return, Goto, Counting, TypeOK
    <3> QED
      BY <2>1, <3>1, QuietStanding
  <2>4. CASE UnlockAccount(r)
    <3>1. pc[r] \in Counting /\ seen'[r] = seen[r]
      BY <2>4 DEF UnlockAccount, Counting
    <3>2. misses' = 0 \/ (row' = row /\ misses' = misses)
      BY <2>4 DEF UnlockAccount
    <3> QED
      BY <2>1, <3>1, <3>2, QuietStanding
  <2>5. CASE VerifyRight(r) \/ VerifyWrong(r)
    <3>1. row' = row /\ misses' = misses /\ pc[r] \in Counting /\ seen'[r] = seen[r]
      BY <2>5 DEF VerifyRight, VerifyWrong, Counting
    <3> QED
      BY <2>1, <3>1, QuietStanding
  <2>6. CASE IncrementLoginFail(r)
    <3>1. pc[r] = "incr" /\ pc'[r] = "idle"
      BY <2>6 DEF IncrementLoginFail, Return, Goto, TypeOK
    <3>2. CASE row' = row /\ misses' = misses
      BY <2>1, <3>1, <3>2, QuietStanding DEF Counting
    <3>3. CASE misses' = misses + 1 /\ ~Locks(seen[r]) /\ row' = Recorded(row, seen[r], deadline[r])
      <4>1. row'.fails = seen[r].fails + 1
        BY <3>3 DEF Recorded, Locks, NewCount, TypeOK, Row
      <4>2. seen[r].fails + 1 < Threshold
        BY <3>3, StandingTypes, LoginLockAssumption DEF Locks, NewCount
      <4> QED
        BY <2>1, <3>1, <3>3, <4>1, <4>2, RecordedRises
    <3> QED
      BY <2>6, <3>2, <3>3 DEF IncrementLoginFail
  <2>7. CASE ResetLoginFail(r) \/ Answer(r)
    <3>1. pc'[r] \notin Counting
      BY <2>7 DEF ResetLoginFail, Answer, Return, Goto, Counting, TypeOK
    <3>2. misses' = 0 \/ (row' = row /\ misses' = misses)
      BY <2>7 DEF ResetLoginFail, Answer
    <3> QED
      BY <2>1, <3>1, <3>2, QuietStanding
  <2> QED
    BY <1>1, <2>2, <2>3, <2>4, <2>5, <2>6, <2>7 DEF Login
<1>2. CASE OperatorLock \/ OperatorDisable \/ Tick \/ UNCHANGED vars
  <2>1. UNCHANGED <<pc, seen, misses>> /\ row'.fails = row.fails
    BY <1>2 DEF OperatorLock, OperatorDisable, Tick, vars, TypeOK, Row
  <2>2. Standing' = Standing
    BY <2>1 DEF Standing, Held
  <2> QED
    BY <2>1, <2>2, BudgetOf
<1>3. CASE OperatorUnlock
  BY <1>3, BudgetOf DEF OperatorUnlock
<1> QED
  BY <1>1, <1>2, <1>3, BudgetOf DEF Next, Operator

\* The failures recorded without a lock never outnumber the spreads passed
\* (service.go:342, 355).
THEOREM BudgetInductive == Spec => []BudgetInv
<1>1. Init => BudgetInv
  BY PassedFinite DEF Init, BudgetInv
<1>2. TypeOK /\ TypeOK' /\ BudgetInv /\ [Next]_vars => BudgetInv'
  BY BudgetStep
<1> QED
  BY <1>1, <1>2, TypeInvariant, PTL DEF Spec

\* However many requests run at a time, and however long they wait between the
\* read of the row and their UPDATE, the failures that do not lock run out.
THEOREM MissesRunOut == Spec => []MissesWithinBudget
<1>1. TypeOK /\ BudgetInv => MissesWithinBudget
  <2> SUFFICES ASSUME TypeOK, BudgetInv PROVE MissesWithinBudget
    OBVIOUS
  <2> DEFINE passed == Cardinality(Passed(Spread(Standing)))
  <2>1. Spread(Standing) \in AllSpreads
    BY StandingTypes, SpreadIsOne
  <2>2. passed \in Nat /\ passed <= Cardinality(AllSpreads) - 1
    BY <2>1, PassedFinite, PassedWithinBudget
  <2>3. misses \in Nat /\ misses <= passed
    BY DEF TypeOK, BudgetInv
  <2>4. Cardinality(AllSpreads) \in Nat
    BY SpreadsFinite, FS_CardinalityType
  <2> HIDE DEF passed
  <2>5. misses <= Cardinality(AllSpreads) - 1
    BY <2>2, <2>3, <2>4
  <2> QED
    BY <2>5 DEF MissesWithinBudget, AllSpreads
<1> QED
  BY <1>1, BudgetInductive, TypeInvariant, PTL
\* What the budget is for one request at a time.
LEMMA OneRequestSpreads ==
  ASSUME NEW n \in Nat \ {0}
  PROVE  Cardinality(Spreads(1, n)) <= n
<1> DEFINE levels == 0..(n - 1)
           at == [c \in levels |-> [j \in levels |-> IF j < c THEN 0 ELSE 1]]
<1>1. at \in [levels -> Spreads(1, n)]
  BY DEF Spreads
<1>2. ASSUME NEW h \in Spreads(1, n) PROVE \E c \in levels : at[c] = h
  <2> DEFINE ones == {j \in levels : h[j] = 1}
  <2>1. /\ h \in [levels -> 0..1] /\ h[n - 1] = 1
        /\ \A i, j \in levels : i <= j => h[i] <= h[j]
    BY DEF Spreads
  <2>2. n - 1 \in ones /\ ones \subseteq Nat
    BY <2>1
  <2>3. PICK c \in ones : \A j \in ones : ~(<<j, c>> \in OpToRel(<, Nat))
    BY <2>2, WFMin, NatLessThanWellFounded
  <2>4. ASSUME NEW j \in ones PROVE c <= j
    <3>1. j \in Nat /\ c \in Nat
      BY <2>2
    <3>2. j < c => <<j, c>> \in OpToRel(<, Nat)
      BY <3>1 DEF OpToRel
    <3>3. <<j, c>> \notin OpToRel(<, Nat)
      BY <2>3, Zenon
    <3>4. ~(j < c)
      BY <3>2, <3>3, Zenon
    <3> QED
      BY <3>1, <3>4
  <2>5. ASSUME NEW j \in levels PROVE h[j] = at[c][j]
    <3>1. h[j] \in 0..1
      BY <2>1
    <3>2. c <= j => h[j] = 1
      BY <2>1, <3>1
    <3>3. j < c => h[j] = 0
      BY <2>4, <3>1
    <3> QED
      BY <3>2, <3>3
  <2>6. at[c] \in [levels -> 0..1]
    OBVIOUS
  <2> QED
    BY <2>1, <2>5, <2>6
<1>3. at \in Surjection(levels, Spreads(1, n))
  BY <1>1, <1>2 DEF Surjection
<1>4. IsFiniteSet(levels) /\ Cardinality(levels) = n
  BY FS_Interval
<1> QED
  BY <1>3, <1>4, FS_Surjection

\* One request at a time: the account locks no later than at failure Threshold.
OneAtATime == Cardinality(Reqs) = 1 => misses < Threshold

\* What service.go:344 promises holds without concurrent requests.
THEOREM LocksAtThreshold == Spec => []OneAtATime
<1>1. TypeOK /\ MissesWithinBudget => OneAtATime
  <2> SUFFICES ASSUME Cardinality(Reqs) = 1, TypeOK, MissesWithinBudget
               PROVE  misses < Threshold
    BY DEF OneAtATime
  <2>1. AllSpreads = Spreads(1, Threshold)
    BY DEF AllSpreads
  <2>2. Cardinality(AllSpreads) <= Threshold /\ Cardinality(AllSpreads) \in Nat
    BY <2>1, OneRequestSpreads, LoginLockAssumption, SpreadsFinite, FS_CardinalityType
  <2>3. misses <= Cardinality(AllSpreads) - 1
    BY DEF MissesWithinBudget, AllSpreads
  <2> QED
    BY <2>2, <2>3, LoginLockAssumption DEF TypeOK
<1> QED
  BY <1>1, MissesRunOut, TypeInvariant, PTL
=============================================================================
