-------------------------- MODULE MFASessionsProofs -------------------------
(***************************************************************************)
(* The safety of MFASessions for every set of requests, every lifetime and *)
(* every bound.                                                            *)
(***************************************************************************)
EXTENDS MFASessions, TLAPS

USE DEF account

\* The requests that have taken their session out of Redis.
Taken == {"find", "code", "verified"}
Holds(r) == req[r].step \in Taken

\* A session is in one place: not opened yet, in Redis, with one request, or
\* spent.
SessionInOnePlace ==
  /\ \A s \in SessionIds : s > opened => sessions[s] = 0 /\ completed[s] = 0
  /\ \A s \in SessionIds : sessions[s] # 0 => completed[s] = 0
  /\ \A r \in Reqs : req[r].step = "consume" \/ Holds(r) => req[r].sid \in 1..opened
  /\ \A r \in Reqs : Holds(r) => sessions[req[r].sid] = 0 /\ completed[req[r].sid] = 0
  /\ \A r, q \in Reqs : Holds(r) /\ Holds(q) /\ r # q => req[r].sid # req[q].sid
  /\ \A s \in SessionIds : completed[s] <= 1

\* The account has the latest secret or none; a session was taken no later than
\* now; a request that reads a secret for a session reads one no older.
SecretsInOrder ==
  /\ secret \in {None, setups}
  /\ \A s \in SessionIds : taken[s] <= setups
  /\ \A r \in Reqs : req[r].step \in {"code", "verified"}
       => req[r].secret >= taken[req[r].sid]

IInv == TypeOK /\ SessionInOnePlace /\ SecretsInOrder

LEMMA InitIInv == Init => IInv
<1> SUFFICES ASSUME Init PROVE IInv
  OBVIOUS
<1> USE MFASessionsAssumption DEF SessionIds, None
<1>1. Idle \in Request
  BY DEF Idle, Request, Steps
<1>3. TypeOK
  <2>1. must \in BOOLEAN /\ mfa \in BOOLEAN
    BY Zenon DEF Init
  <2> QED
    BY <1>1, <2>1 DEF Init, TypeOK
<1>4. \A r \in Reqs : req[r].step = "idle"
  BY DEF Init, Idle
<1>5. SessionInOnePlace
  BY <1>4 DEF Init, SessionInOnePlace, Holds, Taken
<1>6. SecretsInOrder
  BY <1>4 DEF Init, SecretsInOrder
<1> QED
  BY <1>3, <1>5, <1>6 DEF IInv

-----------------------------------------------------------------------------
\* What a step of one request does to req.
LEMMA Finishing ==
  ASSUME TypeOK, NEW r \in Reqs, Finish(r)
  PROVE  /\ req' \in [Reqs -> Request]
         /\ req'[r].step = "idle"
         /\ \A q \in Reqs : q # r => req'[q] = req[q]
<1>1. Idle \in Request /\ Idle.step = "idle"
  BY MFASessionsAssumption DEF Idle, Request, Steps, None
<1> QED
  BY <1>1 DEF TypeOK, Finish

LEMMA Going ==
  ASSUME TypeOK, NEW r \in Reqs, NEW step \in Steps, Goto(r, step)
  PROVE  /\ req' \in [Reqs -> Request]
         /\ req'[r].step = step
         /\ req'[r].sid = req[r].sid
         /\ req'[r].secret = req[r].secret
         /\ \A q \in Reqs : q # r => req'[q] = req[q]
<1>1. req[r] \in Request
  BY DEF TypeOK
<1>2. req' = [req EXCEPT ![r] = [req[r] EXCEPT !.step = step]]
  BY DEF Goto
<1>3. [req[r] EXCEPT !.step = step] \in Request
  BY <1>1 DEF Request
<1>4. req'[r] = [req[r] EXCEPT !.step = step]
  BY <1>2 DEF TypeOK
<1> QED
  BY <1>1, <1>2, <1>3, <1>4 DEF TypeOK, Request

LEMMA Presenting ==
  ASSUME TypeOK, NEW r \in Reqs, NEW s \in SessionIds, Present(r, s)
  PROVE  /\ req' \in [Reqs -> Request]
         /\ req'[r].step \in {"consume", "denied"}
         /\ req'[r].sid = s /\ s \in 1..opened
         /\ \A q \in Reqs : q # r => req'[q] = req[q]
         /\ UNCHANGED <<now, account, sessions, opened, access, completed, taken>>
<1>1. PICK step \in {"consume", "denied"} :
        req' = [req EXCEPT ![r] = [step |-> step, sid |-> s, secret |-> None]]
  BY DEF Present
<1>2. [step |-> step, sid |-> s, secret |-> None] \in Request
  BY MFASessionsAssumption DEF Request, Steps, None, SessionIds
<1> QED
  BY <1>1, <1>2 DEF TypeOK, Present, SessionIds

LEMMA Finding ==
  ASSUME TypeOK, NEW r \in Reqs, Find(r), ~Finish(r)
  PROVE  /\ req' \in [Reqs -> Request]
         /\ req'[r].step = "code"
         /\ req'[r].sid = req[r].sid
         /\ req'[r].secret = secret /\ secret # None
         /\ \A q \in Reqs : q # r => req'[q] = req[q]
<1>1. req[r] \in Request /\ secret \in 0..MaxSetups
  BY DEF TypeOK
<1>2. req' = [req EXCEPT ![r] = [step |-> "code", sid |-> req[r].sid, secret |-> secret]]
  BY <1>1 DEF Find, Request
<1>3. [step |-> "code", sid |-> req[r].sid, secret |-> secret] \in Request
  BY <1>1 DEF Request, Steps
<1> QED
  BY <1>2, <1>3 DEF TypeOK, Find

LEMMA Branching ==
  ASSUME TypeOK
  PROVE  Branch \in {"session", "must_change", "tokens"}
BY DEF TypeOK, Branch

-----------------------------------------------------------------------------
\* One case per action, with what it does to req and what it leaves alone.
LEMMA RequestStep ==
  ASSUME TypeOK, NEW r \in Reqs,
         \/ ReadRow(r) \/ OpenSession(r) \/ PasswordOnly(r)
         \/ Deny(r) \/ Consume(r) \/ Find(r) \/ Code(r) \/ Complete(r)
  PROVE  /\ req' \in [Reqs -> Request]
         /\ \A q \in Reqs : q # r => req'[q] = req[q]
         /\ UNCHANGED <<now, account>>
<1>1. CASE Finish(r)
  BY <1>1, Finishing
     DEF ReadRow, OpenSession, PasswordOnly, Deny, Consume, Find, Code, Complete
<1>2. CASE ReadRow(r)
  BY <1>2, Going, Branching DEF ReadRow, Steps
<1>3. CASE Goto(r, "find") \/ Goto(r, "verified")
  BY <1>3, Going DEF Steps,
     ReadRow, OpenSession, PasswordOnly, Deny, Consume, Find, Code, Complete
<1>4. CASE Find(r) /\ ~Finish(r)
  BY <1>4, Finding DEF Find
<1> QED
  BY <1>1, <1>2, <1>3, <1>4
     DEF OpenSession, PasswordOnly, Deny, Consume, Find, Code, Complete

LEMMA TypeStep ==
  ASSUME TypeOK, [Next]_vars
  PROVE  TypeOK'
<1>1. ASSUME NEW r \in Reqs,
             \/ ReadRow(r) \/ OpenSession(r) \/ PasswordOnly(r)
             \/ Deny(r) \/ Consume(r) \/ Find(r) \/ Code(r) \/ Complete(r)
      PROVE  TypeOK'
  <2>1. /\ req' \in [Reqs -> Request]
        /\ UNCHANGED <<now, account>>
    BY <1>1, RequestStep
  <2>2. access' \in Nat
    BY <1>1, MFASessionsAssumption
       DEF ReadRow, OpenSession, PasswordOnly, Deny, Consume, Find, Code, Complete,
           IssueAccess, TypeOK
  <2>3. /\ sessions' \in [SessionIds -> Nat]
        /\ opened' \in 0..MaxSessions
        /\ completed' \in [SessionIds -> Nat]
    BY <1>1, MFASessionsAssumption
       DEF ReadRow, OpenSession, PasswordOnly, Deny, Consume, Find, Code, Complete, TypeOK
  <2>4. taken' \in [SessionIds -> 0..MaxSetups]
    BY <1>1
       DEF ReadRow, OpenSession, PasswordOnly, Deny, Consume, Find, Code, Complete, Got, TypeOK
  <2> QED
    BY <2>1, <2>2, <2>3, <2>4 DEF TypeOK
<1>2. ASSUME NEW r \in Reqs, NEW s \in SessionIds, Present(r, s) PROVE TypeOK'
  BY <1>2, Presenting DEF TypeOK
<1>3. CASE RefreshToken
  BY <1>3, MFASessionsAssumption DEF RefreshToken, IssueAccess, TypeOK
<1>4. CASE Settings
  <2>1. setups' \in 0..MaxSetups /\ secret' \in 0..MaxSetups
    BY <1>4, MFASessionsAssumption
       DEF Settings, ChangePassword, SetupMFA, EnableMFA, DisableMFA, None, TypeOK
  <2>2. must' \in BOOLEAN /\ mfa' \in BOOLEAN
    BY <1>4 DEF Settings, ChangePassword, SetupMFA, EnableMFA, DisableMFA, TypeOK
  <2> QED
    BY <1>4, <2>1, <2>2 DEF Settings, TypeOK
<1>5. CASE Tick
  BY <1>5, MFASessionsAssumption DEF Tick, TypeOK
<1>6. CASE UNCHANGED vars
  BY <1>6 DEF vars, TypeOK
<1> QED
  BY <1>1, <1>2, <1>3, <1>4, <1>5, <1>6 DEF Next

LEMMA HeldWasOpened ==
  ASSUME TypeOK, SessionInOnePlace, NEW r \in Reqs,
         req[r].step = "consume" \/ Holds(r)
  PROVE  req[r].sid \in 1..opened /\ req[r].sid \in SessionIds /\ ~(req[r].sid > opened)
<1>1. req[r].sid \in 1..opened
  BY DEF SessionInOnePlace
<1>2. opened \in Nat /\ opened <= MaxSessions /\ MaxSessions \in Nat
  BY MFASessionsAssumption DEF TypeOK
<1> QED
  BY <1>1, <1>2 DEF SessionIds

LEMMA PlaceStep ==
  ASSUME TypeOK, SessionInOnePlace, [Next]_vars
  PROVE  SessionInOnePlace'
<1> USE DEF Holds, Taken
<1>1. ASSUME NEW r \in Reqs, ReadRow(r) PROVE SessionInOnePlace'
  <2>1. /\ req'[r].step \notin Taken \cup {"consume"}
        /\ \A q \in Reqs : q # r => req'[q] = req[q]
    BY <1>1, Going, Branching DEF ReadRow, Steps
  <2> QED
    BY <1>1, <2>1 DEF ReadRow, SessionInOnePlace
<1>2. ASSUME NEW r \in Reqs, OpenSession(r) PROVE SessionInOnePlace'
  <2>1. /\ req'[r].step = "idle"
        /\ \A q \in Reqs : q # r => req'[q] = req[q]
    BY <1>2, Finishing DEF OpenSession
  <2>2. /\ opened' \in Nat /\ opened <= opened'
        /\ \A s \in SessionIds : sessions'[s] = sessions[s] \/ (s > opened /\ s <= opened')
    BY <1>2 DEF OpenSession, TypeOK
  <2>3. /\ \A q \in Reqs : Holds(q) => sessions'[req[q].sid] = sessions[req[q].sid]
        /\ 1..opened \subseteq 1..opened'
    <3>1. \A q \in Reqs : Holds(q) => req[q].sid \in SessionIds /\ ~(req[q].sid > opened)
      BY HeldWasOpened
    <3> QED
      BY <2>2, <3>1, MFASessionsAssumption DEF TypeOK
  <2>4. \A s \in SessionIds : s > opened' => s > opened /\ ~(s <= opened')
    BY <2>2, MFASessionsAssumption DEF TypeOK, SessionIds
  <2>5. UNCHANGED completed
    BY <1>2 DEF OpenSession
  <2>6. \A s \in SessionIds : /\ s > opened' => sessions'[s] = 0 /\ completed[s] = 0
                              /\ sessions'[s] # 0 => completed[s] = 0
    BY <2>2, <2>4 DEF SessionInOnePlace
  <2> QED
    BY <2>1, <2>3, <2>5, <2>6 DEF SessionInOnePlace
<1>3. ASSUME NEW r \in Reqs, PasswordOnly(r) \/ Deny(r) PROVE SessionInOnePlace'
  <2>1. /\ req'[r].step = "idle"
        /\ \A q \in Reqs : q # r => req'[q] = req[q]
    BY <1>3, Finishing DEF PasswordOnly, Deny
  <2> QED
    BY <1>3, <2>1 DEF PasswordOnly, Deny, SessionInOnePlace
<1>4. ASSUME NEW r \in Reqs, NEW s \in SessionIds, Present(r, s) PROVE SessionInOnePlace'
  BY <1>4, Presenting DEF SessionInOnePlace
<1>5. ASSUME NEW r \in Reqs, Consume(r) PROVE SessionInOnePlace'
  <2>1. req[r].sid \in 1..opened /\ req[r].sid \in SessionIds
    BY <1>5, HeldWasOpened DEF Consume, At
  <2>2. \A s \in SessionIds : /\ sessions'[s] = sessions[s] \/ sessions'[s] = 0
                              /\ s # req[r].sid => sessions'[s] = sessions[s]
    BY <1>5 DEF Consume, TypeOK
  <2>3. UNCHANGED <<opened, completed>>
    BY <1>5 DEF Consume
  <2>4. CASE Finish(r)
    <3>1. /\ req'[r].step = "idle"
          /\ \A q \in Reqs : q # r => req'[q] = req[q]
      BY <2>4, Finishing
    <3>2. \A q \in Reqs : Holds(q) => sessions'[req[q].sid] = 0
      BY <2>2, HeldWasOpened DEF SessionInOnePlace
    <3> QED
      BY <2>2, <2>3, <3>1, <3>2 DEF SessionInOnePlace
  <2>5. CASE Goto(r, "find") /\ Open(req[r].sid) /\ sessions' = [sessions EXCEPT ![req[r].sid] = 0]
    <3>1. /\ req'[r].step = "find" /\ req'[r].sid = req[r].sid
          /\ \A q \in Reqs : q # r => req'[q] = req[q]
      BY <2>5, Going DEF Steps
    <3>2. sessions[req[r].sid] # 0 /\ sessions'[req[r].sid] = 0
      BY <2>1, <2>5 DEF Open, TypeOK
    <3>3. completed[req[r].sid] = 0
      BY <2>1, <3>2 DEF SessionInOnePlace
    <3>4. \A q \in Reqs : Holds(q) => req[q].sid # req[r].sid /\ sessions'[req[q].sid] = 0
      BY <2>2, <3>2, HeldWasOpened DEF SessionInOnePlace
    <3> QED
      BY <2>1, <2>2, <2>3, <3>1, <3>2, <3>3, <3>4 DEF SessionInOnePlace
  <2> QED
    BY <1>5, <2>4, <2>5 DEF Consume
<1>6. ASSUME NEW r \in Reqs, Find(r) \/ Code(r) PROVE SessionInOnePlace'
  <2>1. /\ \A q \in Reqs : q # r => req'[q] = req[q]
        /\ \/ req'[r].step = "idle"
           \/ Holds(r) /\ req'[r].step \in Taken /\ req'[r].sid = req[r].sid
    <3>1. CASE Finish(r)
      BY <3>1, Finishing
    <3>2. CASE Find(r) /\ ~Finish(r)
      BY <3>2, Finding DEF Find, At
    <3>3. CASE Code(r) /\ ~Finish(r)
      BY <3>3, Going DEF Code, At, Steps
    <3> QED
      BY <1>6, <3>1, <3>2, <3>3
  <2>2. UNCHANGED <<sessions, opened, completed>>
    BY <1>6 DEF Find, Code
  <2> QED
    BY <2>1, <2>2 DEF SessionInOnePlace
<1>7. ASSUME NEW r \in Reqs, Complete(r) PROVE SessionInOnePlace'
  <2>1. /\ req'[r].step = "idle"
        /\ \A q \in Reqs : q # r => req'[q] = req[q]
    BY <1>7, Finishing DEF Complete
  <2>2. Holds(r) /\ req[r].sid \in 1..opened /\ req[r].sid \in SessionIds
    BY <1>7, HeldWasOpened DEF Complete, At
  <2>3. /\ \A s \in SessionIds : s # req[r].sid => completed'[s] = completed[s]
        /\ completed'[req[r].sid] = 1
    BY <1>7, <2>2 DEF Complete, SessionInOnePlace, TypeOK
  <2>4. UNCHANGED <<sessions, opened>>
    BY <1>7 DEF Complete
  <2>5. sessions[req[r].sid] = 0 /\ ~(req[r].sid > opened)
    BY <1>7, <2>2, HeldWasOpened DEF SessionInOnePlace
  <2>6. \A q \in Reqs : q # r /\ Holds(q) => req[q].sid \in SessionIds /\ req[q].sid # req[r].sid
    BY <2>2, HeldWasOpened DEF SessionInOnePlace
  <2> QED
    BY <2>1, <2>2, <2>3, <2>4, <2>5, <2>6 DEF SessionInOnePlace
<1>8. CASE RefreshToken \/ Settings \/ Tick \/ UNCHANGED vars
  BY <1>8 DEF RefreshToken, Settings, Tick, vars, SessionInOnePlace
<1> QED
  BY <1>1, <1>2, <1>3, <1>4, <1>5, <1>6, <1>7, <1>8 DEF Next

LEMMA SecretStep ==
  ASSUME TypeOK, SessionInOnePlace, SecretsInOrder, [Next]_vars
  PROVE  SecretsInOrder'
<1>1. ASSUME NEW r \in Reqs,
             \/ ReadRow(r) \/ OpenSession(r) \/ PasswordOnly(r) \/ Deny(r)
             \/ Find(r) \/ Code(r) \/ Complete(r)
      PROVE  SecretsInOrder'
  <2>1. /\ UNCHANGED <<account, taken>>
        /\ \A q \in Reqs : q # r => req'[q] = req[q]
    BY <1>1, RequestStep
       DEF ReadRow, OpenSession, PasswordOnly, Deny, Find, Code, Complete
  <2>2. req'[r].step \in {"code", "verified"} => req'[r].secret >= taken[req'[r].sid]
    <3>1. CASE Finish(r)
      BY <3>1, Finishing
    <3>2. CASE ReadRow(r)
      BY <3>2, Going, Branching DEF ReadRow, Steps
    <3>3. CASE Find(r) /\ ~Finish(r)
      <4>1. req[r].sid \in SessionIds
        BY <3>3, HeldWasOpened DEF Find, At, Holds, Taken
      <4> QED
        BY <3>3, <4>1, Finding DEF SecretsInOrder, TypeOK
    <3>4. CASE Code(r) /\ ~Finish(r)
      BY <3>4, Going DEF Code, At, Steps, SecretsInOrder
    <3> QED
      BY <1>1, <3>1, <3>2, <3>3, <3>4 DEF OpenSession, PasswordOnly, Deny, Complete
  <2> QED
    BY <2>1, <2>2 DEF SecretsInOrder
<1>2. ASSUME NEW r \in Reqs, Consume(r) PROVE SecretsInOrder'
  <2>1. UNCHANGED account /\ \A q \in Reqs : q # r => req'[q] = req[q]
    BY <1>2, RequestStep
  <2>2. req'[r].step \in {"idle", "find"}
    BY <1>2, Finishing, Going DEF Consume, Steps
  <2>3. CASE taken' = taken
    BY <2>1, <2>2, <2>3 DEF SecretsInOrder
  <2>4. CASE Open(req[r].sid) /\ Got(req[r].sid)
    <3>1. req[r].sid \in SessionIds
      BY <1>2, HeldWasOpened DEF Consume, At
    <3>2. sessions[req[r].sid] # 0
      BY <2>4, <3>1 DEF Open, TypeOK
    <3>3. \A q \in Reqs : Holds(q) => req[q].sid # req[r].sid /\ req[q].sid \in SessionIds
      BY <3>2, HeldWasOpened DEF SessionInOnePlace
    <3>4. \A s \in SessionIds : taken'[s] = IF s = req[r].sid THEN setups ELSE taken[s]
      BY <2>4 DEF Got, TypeOK
    <3>5. \A q \in Reqs : q # r /\ req[q].step \in {"code", "verified"}
                          => taken'[req[q].sid] = taken[req[q].sid]
      BY <3>3, <3>4 DEF Holds, Taken
    <3> QED
      BY <2>1, <2>2, <3>4, <3>5 DEF SecretsInOrder, TypeOK
  <2> QED
    BY <1>2, <2>3, <2>4 DEF Consume
<1>3. ASSUME NEW r \in Reqs, NEW s \in SessionIds, Present(r, s) PROVE SecretsInOrder'
  BY <1>3, Presenting DEF SecretsInOrder
<1>4. CASE Settings
  <2>1. /\ setups' \in Nat /\ setups <= setups'
        /\ secret' \in {None, setups'}
    BY <1>4 DEF Settings, ChangePassword, SetupMFA, EnableMFA, DisableMFA,
                SecretsInOrder, TypeOK
  <2> QED
    BY <1>4, <2>1 DEF Settings, SecretsInOrder, TypeOK
<1>5. CASE RefreshToken \/ Tick \/ UNCHANGED vars
  BY <1>5 DEF RefreshToken, Tick, vars, SecretsInOrder
<1> QED
  BY <1>1, <1>2, <1>3, <1>4, <1>5 DEF Next

\* Every session is in one place, and secrets are numbered in their order.
THEOREM Inductive == Spec => []IInv
<1>1. IInv /\ [Next]_vars => IInv'
  BY TypeStep, PlaceStep, SecretStep DEF IInv
<1> QED
  BY InitIInv, <1>1, PTL DEF Spec

\* The type invariant.
THEOREM TypeInvariant == Spec => []TypeOK
<1>1. IInv => TypeOK
  BY DEF IInv
<1> QED
  BY Inductive, <1>1, PTL

\* However many requests present an MFA session at once, and whatever happens
\* to the account meanwhile, at most one of them is answered with tokens.
THEOREM OnePairPerSession == Spec => []SessionOnce
<1>1. IInv => SessionOnce
  BY DEF IInv, SessionInOnePlace, SessionOnce
<1> QED
  BY Inductive, <1>1, PTL

\* A session that was taken stays taken: no code is tried twice against it.
THEOREM TakenSessionsAreGone == Spec => []TakenIsGone
<1>1. IInv => TakenIsGone
  BY DEF IInv, TypeOK, SessionInOnePlace, Holds, Taken, TakenIsGone, Open
<1> QED
  BY Inductive, <1>1, PTL

\* No login compares its code with a secret that SetupMFA had replaced before
\* the login took its session: the row is read anew, after the GETDEL.
THEOREM NoStaleSecret == Spec => []SecretReadAfterTaking
<1>1. IInv => SecretReadAfterTaking
  BY DEF IInv, SecretsInOrder, SecretReadAfterTaking
<1> QED
  BY Inductive, <1>1, PTL

-----------------------------------------------------------------------------
\* Where a session is, read off the state.
LEMMA StatusValues ==
  ASSUME IInv, NEW s \in SessionIds
  PROVE  /\ Held(s) => completed[s] = 0 /\ ~Open(s) /\ s <= opened
         /\ Open(s) => completed[s] = 0 /\ s <= opened
         /\ completed[s] > 0 => s <= opened
         /\ SessionStatus(s) = "used" <=> completed[s] > 0
         /\ SessionStatus(s) = "held" <=> Held(s)
         /\ SessionStatus(s) = "live" <=> Open(s)
         /\ SessionStatus(s) = "fresh" <=> s > opened
<1>1. Held(s) => completed[s] = 0 /\ sessions[s] = 0 /\ s <= opened
  BY DEF IInv, SessionInOnePlace, Held, HoldsSession, Holds, Taken, TypeOK
<1>2. Open(s) => completed[s] = 0 /\ s <= opened
  BY DEF IInv, SessionInOnePlace, TypeOK, Open, SessionIds
<1>3. completed[s] > 0 => s <= opened
  BY DEF IInv, SessionInOnePlace, TypeOK, SessionIds
<1>4. Held(s) => ~Open(s)
  BY <1>1 DEF IInv, TypeOK, Open
<1>5. completed[s] \in Nat /\ s \in Nat /\ opened \in Nat
  BY MFASessionsAssumption DEF IInv, TypeOK, SessionIds
<1> QED
  BY <1>1, <1>2, <1>3, <1>4, <1>5 DEF SessionStatus

\* A step that opens, takes and completes nothing leaves every status alone.
LEMMA NoSessionMoves ==
  ASSUME UNCHANGED <<now, sessions, opened, completed>>,
         \A s \in SessionIds : Held(s)' <=> Held(s)
  PROVE  UNCHANGED OneTime!vars
<1>1. \A s \in SessionIds : SessionStatus(s)' = SessionStatus(s)
  BY DEF SessionStatus, Open
<1> QED
  BY <1>1 DEF OneTime!vars

\* A step that leaves the sessions of S, open or held before, with nobody.
LEMMA SessionsLost ==
  ASSUME IInv, IInv', UNCHANGED <<opened, completed>>, NEW S \in SUBSET SessionIds,
         \A s \in S : Open(s) \/ Held(s),
         \A s \in S : ~Open(s)' /\ ~Held(s)',
         \A s \in SessionIds \ S : (Open(s)' <=> Open(s)) /\ (Held(s)' <=> Held(s))
  PROVE  OneTime!Lapse(S)
<1>1. \A s \in S : SessionStatus(s) \in {"live", "held"}
  BY StatusValues
<1>2. \A s \in S : SessionStatus(s)' = "gone"
  <2>1. \A s \in S : completed[s] = 0 /\ s <= opened
    BY StatusValues
  <2> QED
    BY <2>1 DEF SessionStatus
<1>3. \A s \in SessionIds \ S : SessionStatus(s)' = SessionStatus(s)
  BY DEF SessionStatus
<1> QED
  BY <1>1, <1>2, <1>3 DEF OneTime!Lapse

\* What one request's step does to the sessions that are held.
LEMMA HeldByOthers ==
  ASSUME IInv, IInv', NEW r \in Reqs, \A q \in Reqs : q # r => req'[q] = req[q],
         NEW s \in SessionIds
  PROVE  /\ ~HoldsSession(r, s) /\ ~HoldsSession(r, s)' => (Held(s)' <=> Held(s))
         /\ HoldsSession(r, s) /\ HoldsSession(r, s)' => Held(s) /\ Held(s)'
         /\ HoldsSession(r, s) /\ ~HoldsSession(r, s)' => Held(s) /\ ~Held(s)'
<1>1. \A q \in Reqs \ {r} : HoldsSession(q, s)' <=> HoldsSession(q, s)
  BY DEF HoldsSession
<1>2. HoldsSession(r, s) => \A q \in Reqs \ {r} : ~HoldsSession(q, s)
  BY DEF IInv, SessionInOnePlace, HoldsSession, Holds, Taken
<1> QED
  BY <1>1, <1>2 DEF Held

LEMMA InitRefines == Init => OneTime!Init
<1> SUFFICES ASSUME Init PROVE OneTime!Init
  OBVIOUS
<1>1. \A s \in SessionIds : SessionStatus(s) = "fresh"
  <2>1. IInv
    BY InitIInv
  <2> QED
    BY <2>1, StatusValues DEF Init, SessionIds
<1> QED
  BY <1>1 DEF Init, OneTime!Init

LEMMA OpenRefines ==
  ASSUME IInv, IInv', NEW r \in Reqs, OpenSession(r)
  PROVE  OneTime!Next \/ UNCHANGED OneTime!vars
<1>1. \A s \in SessionIds : Held(s)' <=> Held(s)
  <2>1. \A s \in SessionIds : ~HoldsSession(r, s) /\ ~HoldsSession(r, s)'
    BY Finishing DEF IInv, OpenSession, HoldsSession, At
  <2> QED
    BY <2>1, HeldByOthers, Finishing DEF OpenSession, IInv
<1>2. CASE UNCHANGED <<opened, sessions>>
  BY <1>1, <1>2, NoSessionMoves DEF OpenSession
<1>3. CASE /\ opened < MaxSessions /\ opened' = opened + 1
           /\ sessions' = [sessions EXCEPT ![opened + 1] = now + MFATTL]
  <2> DEFINE n == opened + 1
  <2>1. opened \in 0..MaxSessions /\ now \in Nat /\ MaxSessions \in Nat
        /\ sessions \in [SessionIds -> Nat] /\ opened + 1 \in SessionIds
    BY <1>3, MFASessionsAssumption DEF IInv, TypeOK, SessionIds
  <2>2. PICK s \in SessionIds : s = opened + 1
    BY <2>1
  <2>3. SessionStatus(s) = "fresh" /\ completed[s] = 0 /\ ~Held(s)
    BY <2>1, <2>2, StatusValues DEF IInv, SessionInOnePlace
  <2>4. Open(s)'
    BY <1>3, <2>1, <2>2, MFASessionsAssumption DEF OpenSession, Open
  <2>5. SessionStatus(s)' = "live"
    BY <1>1, <2>3, <2>4 DEF SessionStatus, OpenSession
  <2>6. \A t \in SessionIds \ {s} : (Open(t)' <=> Open(t)) /\ (t <= opened' <=> t <= opened)
    BY <1>3, <2>1, <2>2 DEF OpenSession, Open, SessionIds
  <2>7. \A t \in SessionIds \ {s} : SessionStatus(t)' = SessionStatus(t)
    BY <1>1, <2>6 DEF SessionStatus, OpenSession
  <2>8. OneTime!Issue(s)
    BY <2>3, <2>5, <2>7 DEF OneTime!Issue, OpenSession
  <2> QED
    BY <2>8 DEF OneTime!Next
<1> QED
  BY <1>2, <1>3 DEF OpenSession

LEMMA ConsumeRefines ==
  ASSUME IInv, IInv', NEW r \in Reqs, Consume(r)
  PROVE  OneTime!Next \/ UNCHANGED OneTime!vars
<1>1. PICK s \in SessionIds : s = req[r].sid
  <2>1. req[r].sid \in 1..opened /\ opened \in 0..MaxSessions
    BY DEF IInv, SessionInOnePlace, Consume, At, TypeOK
  <2> QED
    BY <2>1, MFASessionsAssumption DEF SessionIds
<1>2. req' \in [Reqs -> Request] /\ \A q \in Reqs : q # r => req'[q] = req[q]
  BY RequestStep DEF IInv
<1>3. \A t \in SessionIds : ~HoldsSession(r, t)
  BY DEF Consume, At, HoldsSession
<1>4. \A t \in SessionIds \ {s} : ~HoldsSession(r, t)'
  BY <1>1, Finishing, Going DEF IInv, Consume, HoldsSession, Steps
<1>5. \A t \in SessionIds \ {s} : Held(t)' <=> Held(t)
  BY <1>2, <1>3, <1>4, HeldByOthers
<1>6. CASE UNCHANGED sessions /\ Finish(r)
  <2>1. ~HoldsSession(r, s)'
    BY <1>6, Finishing DEF IInv, HoldsSession
  <2> QED
    BY <1>2, <1>3, <1>5, <1>6, <2>1, HeldByOthers, NoSessionMoves DEF Consume
<1>7. ASSUME sessions' = [sessions EXCEPT ![s] = 0]
      PROVE  /\ ~Open(s)' /\ now' = now
             /\ \A t \in SessionIds \ {s} : Open(t)' <=> Open(t)
  BY <1>7 DEF Consume, Open, IInv, TypeOK
<1>8. CASE sessions' = [sessions EXCEPT ![s] = 0] /\ Finish(r)
  <2>1. Held(s)' <=> Held(s)
    BY <1>2, <1>3, <1>8, Finishing, HeldByOthers DEF IInv, HoldsSession
  <2>2. CASE Open(s)
    <3>1. OneTime!Lapse({s})
      BY <1>5, <1>7, <1>8, <2>1, <2>2, StatusValues, SessionsLost DEF Consume
    <3> QED
      BY <3>1 DEF OneTime!Next
  <2>3. CASE ~Open(s)
    <3>1. \A t \in SessionIds : SessionStatus(t)' = SessionStatus(t)
      BY <1>5, <1>7, <1>8, <2>1, <2>3 DEF SessionStatus, Consume
    <3> QED
      BY <3>1 DEF OneTime!vars, Consume
  <2> QED
    BY <2>2, <2>3
<1>9. CASE Open(s) /\ sessions' = [sessions EXCEPT ![s] = 0] /\ Goto(r, "find")
  <2>1. HoldsSession(r, s)'
    BY <1>1, <1>9, Going DEF IInv, HoldsSession, Steps
  <2>2. completed[s] = 0 /\ SessionStatus(s) = "live"
    BY <1>9, StatusValues
  <2>3. SessionStatus(s)' = "held"
    BY <2>1, <2>2 DEF SessionStatus, Consume, Held
  <2>4. \A t \in SessionIds \ {s} : SessionStatus(t)' = SessionStatus(t)
    BY <1>5, <1>7, <1>9 DEF SessionStatus, Consume
  <2>5. OneTime!Hold(s)
    BY <2>2, <2>3, <2>4 DEF OneTime!Hold, Consume
  <2> QED
    BY <2>5 DEF OneTime!Next
<1> QED
  BY <1>1, <1>6, <1>8, <1>9 DEF Consume

\* A request that holds a session keeps it or lets go of it.
LEMMA CheckRefines ==
  ASSUME IInv, IInv', NEW r \in Reqs, Find(r) \/ Code(r)
  PROVE  OneTime!Next \/ UNCHANGED OneTime!vars
<1>1. Holds(r)
  BY DEF Find, Code, At, Holds, Taken
<1>2. PICK s \in SessionIds : s = req[r].sid
  <2>1. req[r].sid \in 1..opened /\ opened \in 0..MaxSessions
    BY <1>1 DEF IInv, SessionInOnePlace, TypeOK
  <2> QED
    BY <2>1, MFASessionsAssumption DEF SessionIds
<1>3. /\ \A q \in Reqs : q # r => req'[q] = req[q]
      /\ UNCHANGED <<now, sessions, opened, completed>>
  BY RequestStep DEF IInv, Find, Code
<1>4. HoldsSession(r, s) /\ \A t \in SessionIds \ {s} : ~HoldsSession(r, t)
  BY <1>1, <1>2 DEF HoldsSession, Holds, Taken
<1>5. CASE Finish(r)
  <2>1. \A t \in SessionIds : ~HoldsSession(r, t)'
    BY <1>5, Finishing DEF IInv, HoldsSession
  <2>2. Held(s) /\ ~Held(s)' /\ \A t \in SessionIds \ {s} : Held(t)' <=> Held(t)
    BY <1>3, <1>4, <2>1, HeldByOthers
  <2>3. \A t \in SessionIds : Open(t)' <=> Open(t)
    BY <1>3 DEF Open
  <2>4. OneTime!Lapse({s})
    BY <1>3, <2>2, <2>3, StatusValues, SessionsLost
  <2> QED
    BY <2>4 DEF OneTime!Next
<1>6. CASE req'[r].step \in Taken /\ req'[r].sid = req[r].sid
  <2>1. HoldsSession(r, s)' /\ \A t \in SessionIds \ {s} : ~HoldsSession(r, t)'
    BY <1>2, <1>6 DEF HoldsSession, Taken
  <2>2. \A t \in SessionIds : Held(t)' <=> Held(t)
    BY <1>3, <1>4, <2>1, HeldByOthers
  <2> QED
    BY <1>3, <2>2, NoSessionMoves
<1> QED
  <2>1. ~Finish(r) => req'[r].step \in Taken /\ req'[r].sid = req[r].sid
    BY Finding, Going DEF IInv, Find, Code, Taken, Steps
  <2> QED
    BY <1>5, <1>6, <2>1

LEMMA CompleteRefines ==
  ASSUME IInv, IInv', NEW r \in Reqs, Complete(r)
  PROVE  OneTime!Next
<1>1. Holds(r)
  BY DEF Complete, At, Holds, Taken
<1>2. PICK s \in SessionIds : s = req[r].sid
  <2>1. req[r].sid \in 1..opened /\ opened \in 0..MaxSessions
    BY <1>1 DEF IInv, SessionInOnePlace, TypeOK
  <2> QED
    BY <2>1, MFASessionsAssumption DEF SessionIds
<1>3. /\ \A q \in Reqs : q # r => req'[q] = req[q]
      /\ UNCHANGED <<now, sessions, opened>>
      /\ completed' = [completed EXCEPT ![s] = @ + 1]
  BY <1>2, RequestStep DEF IInv, Complete
<1>4. HoldsSession(r, s) /\ \A t \in SessionIds \ {s} : ~HoldsSession(r, t)
  BY <1>1, <1>2 DEF HoldsSession, Holds, Taken
<1>5. \A t \in SessionIds : ~HoldsSession(r, t)'
  BY Finishing DEF IInv, HoldsSession, Complete
<1>6. Held(s) /\ \A t \in SessionIds \ {s} : Held(t)' <=> Held(t)
  BY <1>3, <1>4, <1>5, HeldByOthers
<1>7. SessionStatus(s) = "held" /\ completed[s] = 0
  BY <1>6, StatusValues
<1>8. completed'[s] = 1 /\ \A t \in SessionIds \ {s} : completed'[t] = completed[t]
  BY <1>3, <1>7 DEF IInv, TypeOK
<1>9. SessionStatus(s)' = "used"
  BY <1>8 DEF SessionStatus
<1>10. \A t \in SessionIds \ {s} : SessionStatus(t)' = SessionStatus(t)
  BY <1>3, <1>6, <1>8 DEF SessionStatus, Open
<1>11. OneTime!Use(s)
  BY <1>3, <1>7, <1>9, <1>10 DEF OneTime!Use
<1> QED
  BY <1>11 DEF OneTime!Next

\* Time passes over several sessions at once.
LEMMA TickRefines ==
  ASSUME IInv, IInv', Tick
  PROVE  OneTime!Next
<1> DEFINE S == {s \in SessionIds : Open(s) /\ ~Open(s)'}
<1>1. \A s \in SessionIds : Held(s)' <=> Held(s)
  BY DEF Tick, Held, HoldsSession
<1>2. \A s \in SessionIds : Open(s)' => Open(s)
  BY DEF Tick, Open, IInv, TypeOK
<1>3. PICK T \in SUBSET SessionIds : T = S
  OBVIOUS
<1>4. \A s \in T : Open(s) /\ ~Open(s)' /\ ~Held(s)'
  BY <1>1, <1>3, StatusValues
<1>5. \A s \in SessionIds \ T : Open(s)' <=> Open(s)
  BY <1>2, <1>3
<1>6. OneTime!Lapse(T)
  BY <1>1, <1>4, <1>5, SessionsLost DEF Tick
<1> QED
  BY <1>6 DEF OneTime!Next

LEMMA StepRefines ==
  ASSUME IInv, IInv', [Next]_vars
  PROVE  [OneTime!Next]_(OneTime!vars)
<1>1. ASSUME NEW r \in Reqs, ReadRow(r) \/ PasswordOnly(r) \/ Deny(r)
      PROVE  UNCHANGED OneTime!vars
  <2>1. \A q \in Reqs : q # r => req'[q] = req[q]
    BY <1>1, RequestStep DEF IInv
  <2>2. \A s \in SessionIds : ~HoldsSession(r, s)
    BY <1>1 DEF HoldsSession, ReadRow, PasswordOnly, Deny, At
  <2>3. req'[r].step \notin Taken
    BY <1>1, Finishing, Going, Branching
       DEF IInv, ReadRow, PasswordOnly, Deny, Taken, Steps
  <2>4. \A s \in SessionIds : ~HoldsSession(r, s)'
    BY <2>3 DEF HoldsSession, Taken
  <2> QED
    BY <1>1, <2>1, <2>2, <2>4, HeldByOthers, NoSessionMoves
       DEF ReadRow, PasswordOnly, Deny
<1>2. ASSUME NEW r \in Reqs, NEW s \in SessionIds, Present(r, s)
      PROVE  UNCHANGED OneTime!vars
  <2>1. /\ req'[r].step \notin Taken /\ req[r].step \notin Taken
        /\ \A q \in Reqs : q # r => req'[q] = req[q]
        /\ UNCHANGED <<now, sessions, opened, completed>>
    BY <1>2, Presenting DEF IInv, Present, At, Taken
  <2>2. \A t \in SessionIds : ~HoldsSession(r, t) /\ ~HoldsSession(r, t)'
    BY <2>1 DEF HoldsSession, Taken
  <2> QED
    BY <2>1, <2>2, HeldByOthers, NoSessionMoves
<1>3. CASE Settings \/ RefreshToken \/ UNCHANGED vars
  <2>1. UNCHANGED <<now, sessions, opened, completed, req>>
    BY <1>3 DEF Settings, RefreshToken, vars
  <2> QED
    BY <2>1, NoSessionMoves DEF Held, HoldsSession
<1> QED
  BY <1>1, <1>2, <1>3, OpenRefines, ConsumeRefines, CheckRefines,
     CompleteRefines, TickRefines DEF Next

\* MFASessions implements OneTimeToken: of all requests that present one MFA
\* session one at most takes it, and only that one can complete the login.
THEOREM SessionsAreOneTime == Spec => SessionIsOneTime
<1>1. IInv /\ IInv' /\ [Next]_vars => [OneTime!Next]_(OneTime!vars)
  BY StepRefines
<1>2. Spec => [][Next]_vars /\ Init
  BY PTL DEF Spec
<1> QED
  BY <1>1, <1>2, Inductive, InitRefines, PTL DEF SessionIsOneTime, OneTime!Spec

\* What the token specification promises about its uses holds of the sessions:
\* a session whose login was completed was completed exactly once.
THEOREM EachSessionUsedOnce == SessionIsOneTime => []OneTime!OneUse
<1> DEFINE Status == [s \in SessionIds |-> SessionStatus(s)]
           Inv == completed \in [SessionIds -> Nat] /\ OneTime!OneUse
<1>1. OneTime!Init => Inv
  BY DEF OneTime!Init, OneTime!OneUse
<1>2. Inv /\ [OneTime!Next]_(OneTime!vars) => Inv'
  <2> SUFFICES ASSUME Inv, [OneTime!Next]_(OneTime!vars) PROVE Inv'
    OBVIOUS
  <2>1. ASSUME NEW s \in SessionIds, OneTime!Issue(s) PROVE Inv'
    BY <2>1 DEF OneTime!Issue, OneTime!OneUse
  <2>2. ASSUME NEW s \in SessionIds, OneTime!Hold(s) PROVE Inv'
    BY <2>2 DEF OneTime!Hold, OneTime!OneUse
  <2>3. ASSUME NEW s \in SessionIds, OneTime!Use(s) PROVE Inv'
    <3>1. Status' = [Status EXCEPT ![s] = "used"] /\ Status[s] = "held"
      BY <2>3 DEF OneTime!Use
    <3>2. \A t \in SessionIds : Status'[t] = IF t = s THEN "used" ELSE Status[t]
      BY ONLY <3>1, Zenon
    <3>3. completed' = [completed EXCEPT ![s] = @ + 1]
      BY <2>3 DEF OneTime!Use
    <3>4. \A t \in SessionIds : completed[t] = IF Status[t] = "used" THEN 1 ELSE 0
      BY DEF OneTime!OneUse
    <3>5. \A t \in SessionIds : completed'[t] = IF Status'[t] = "used" THEN 1 ELSE 0
      <4> HIDE DEF Status
      <4> QED
        BY <3>1, <3>2, <3>3, <3>4
    <3> QED
      BY <3>3, <3>5 DEF OneTime!OneUse
  <2>4. ASSUME NEW T \in SUBSET SessionIds, OneTime!Lapse(T) PROVE Inv'
    BY <2>4 DEF OneTime!Lapse, OneTime!OneUse
  <2>5. CASE UNCHANGED OneTime!vars
    BY <2>5 DEF OneTime!vars, OneTime!OneUse
  <2> QED
    BY <2>1, <2>2, <2>3, <2>4, <2>5 DEF OneTime!Next
<1>3. Inv => OneTime!OneUse
  OBVIOUS
<1> QED
  BY <1>1, <1>2, <1>3, PTL DEF SessionIsOneTime, OneTime!Spec
=============================================================================
