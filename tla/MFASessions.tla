---------------------------- MODULE MFASessions -----------------------------
(***************************************************************************)
(* The second half of a login in internal/auth: a login that has passed    *)
(* LoginLock gets a pair of tokens, an access token that is only good for  *)
(* changing the password, or an MFA session in Redis, which a TOTP code    *)
(* trades for a pair.  The account's settings change under it.             *)
(*                                                                         *)
(* A TOTP secret is the number of the SetupMFA that made it.  Of the       *)
(* access tokens only the one that lives longest matters: access.          *)
(* Redis or PostgreSQL may fail at any call; every failure but those of    *)
(* Login ends the request.                                                 *)
(***************************************************************************)
EXTENDS Integers, FiniteSets

CONSTANTS
  Reqs,         \* the login and verify requests in flight at one time
  AccessTTL,    \* 15 minutes, main.go:54
  MFATTL,       \* 5 minutes, service.go:336
  MaxSessions,  \* bound: MFA sessions ever opened
  MaxSetups,    \* bound: TOTP secrets ever generated
  MaxTime       \* bound: the clock stops here

ASSUME MFASessionsAssumption ==
  /\ AccessTTL \in Nat /\ MFATTL \in Nat \ {0}
  /\ MaxSessions \in Nat /\ MaxSetups \in Nat /\ MaxTime \in Nat

VARIABLES
  now,        \* time.Now()
  must,       \* the row: must_change_password
  mfa,        \* the row: mfa_enabled
  secret,     \* the row: mfa_secret, or None
  setups,     \* TOTP secrets generated so far
  sessions,   \* Redis mfa:<token>: when the key expires, 0 once it is deleted
  opened,     \* MFA sessions opened so far
  access,     \* when the last access token issued expires
  req,        \* each request: its step, its session, the secret it read
  completed,  \* history: pairs issued for each MFA session
  taken       \* history: the secrets generated before each session was taken

account == <<must, mfa, secret, setups>>
vars == <<now, account, sessions, opened, access, req, completed, taken>>

SessionIds == 1..MaxSessions
None == 0

Steps == {"idle", "session", "must_change", "tokens", "denied", "consume",
          "find", "code", "verified"}
Request == [step : Steps, sid : 0..MaxSessions, secret : 0..MaxSetups]

Idle == [step |-> "idle", sid |-> None, secret |-> None]

Bearer == now < access
Open(s) == now < sessions[s]

At(r, step) == req[r].step = step
Goto(r, step) == req' = [req EXCEPT ![r].step = step]
Finish(r) == req' = [req EXCEPT ![r] = Idle]

IssueAccess == access' = now + AccessTTL

-----------------------------------------------------------------------------
Init ==
  /\ now = 0
  /\ must \in BOOLEAN /\ mfa = FALSE /\ secret = None
  /\ setups = 0
  /\ sessions = [s \in SessionIds |-> 0]
  /\ opened = 0
  /\ access = 0
  /\ req = [r \in Reqs |-> Idle]
  /\ completed = [s \in SessionIds |-> 0]
  /\ taken = [s \in SessionIds |-> 0]

\* Login reads the row (line 36) and takes its branch from that copy (lines
\* 68, 81, 98), whatever the row has become since.
Branch ==
  CASE mfa -> "session"
    [] ~mfa /\ must -> "must_change"
    [] ~mfa /\ ~must -> "tokens"

ReadRow(r) ==
  /\ At(r, "idle")
  /\ Goto(r, Branch)
  /\ UNCHANGED <<now, account, sessions, opened, access, completed, taken>>

\* createMFASession; when the SET fails the login fails.
OpenSession(r) ==
  /\ At(r, "session")
  /\ \/ /\ opened < MaxSessions
        /\ opened' = opened + 1
        /\ sessions' = [sessions EXCEPT ![opened + 1] = now + MFATTL]
     \/ UNCHANGED <<opened, sessions>>
  /\ Finish(r)
  /\ UNCHANGED <<now, account, access, completed, taken>>

\* The access token for the password change, or issueTokens.
PasswordOnly(r) ==
  /\ At(r, "must_change") \/ At(r, "tokens")
  /\ IssueAccess
  /\ Finish(r)
  /\ UNCHANGED <<now, account, sessions, opened, completed, taken>>

\* RefreshToken, which AuthTokens models: a live access token is good for a
\* new one.
RefreshToken ==
  /\ Bearer
  /\ IssueAccess
  /\ UNCHANGED <<now, account, sessions, opened, req, completed, taken>>

-----------------------------------------------------------------------------
\* POST /auth/mfa/verify with a session and, or not, an access token.  The
\* route is behind auth.Middleware: the session alone does not pass it.
Present(r, s) ==
  /\ At(r, "idle") /\ s <= opened
  /\ \E step \in (IF Bearer THEN {"consume"} ELSE {}) \cup {"denied"} :
       req' = [req EXCEPT ![r] = [step |-> step, sid |-> s, secret |-> None]]
  /\ UNCHANGED <<now, account, sessions, opened, access, completed, taken>>

\* The 401 of the middleware.
Deny(r) ==
  /\ At(r, "denied")
  /\ Finish(r)
  /\ UNCHANGED <<now, account, sessions, opened, access, completed, taken>>

\* What the answer with the session in it leaves behind in the history.
Got(s) == taken' = [taken EXCEPT ![s] = setups]

\* Mutants: GET without DEL; a GETEX that starts the lifetime over.
ConsumeByGet(r) ==
  LET s == req[r].sid
  IN /\ At(r, "consume")
     /\ \/ Open(s) /\ Got(s) /\ Goto(r, "find")
        \/ UNCHANGED taken /\ Finish(r)
     /\ UNCHANGED <<now, account, sessions, opened, access, completed>>

ConsumeByGetEx(r) ==
  LET s == req[r].sid
  IN /\ At(r, "consume")
     /\ \/ Open(s) /\ sessions' = [sessions EXCEPT ![s] = now + MFATTL] /\ Got(s) /\ Goto(r, "find")
        \/ UNCHANGED <<sessions, taken>> /\ Finish(r)
     /\ UNCHANGED <<now, account, opened, access, completed>>

\* GETDEL: one call, so one winner.
Consume(r) ==
  LET s == req[r].sid
  IN /\ At(r, "consume")
     /\ \/ Open(s) /\ sessions' = [sessions EXCEPT ![s] = 0] /\ Got(s) /\ Goto(r, "find")
        \/ sessions' = [sessions EXCEPT ![s] = 0] /\ UNCHANGED taken /\ Finish(r)
        \/ UNCHANGED <<sessions, taken>> /\ Finish(r)
     /\ UNCHANGED <<now, account, opened, access, completed>>

\* Mutant: the user comes from a cache, with a secret the account had once.
FindCached(r) ==
  /\ At(r, "find")
  /\ \/ \E old \in 1..setups :
          req' = [req EXCEPT ![r].step = "code", ![r].secret = old]
     \/ Finish(r)
  /\ UNCHANGED <<now, account, sessions, opened, access, completed, taken>>

\* findUserByID; without a secret the request ends, the session is gone.
Find(r) ==
  /\ At(r, "find")
  /\ \/ /\ secret # None
        /\ req' = [req EXCEPT ![r].step = "code", ![r].secret = secret]
     \/ Finish(r)
  /\ UNCHANGED <<now, account, sessions, opened, access, completed, taken>>

\* VerifyTOTP.  generateTOTP shifts bytes by 24, 16 and 8 places (mfa.go:54),
\* which leaves nothing of them: a code is the last of four bytes, one of
\* 000000 to 000255, and three steps of time are tried.  Any code presented may
\* be right for a secret it was not made from, and wrong for the one it was.
Code(r) ==
  /\ At(r, "code")
  /\ Goto(r, "verified") \/ Finish(r)
  /\ UNCHANGED <<now, account, sessions, opened, access, completed, taken>>

Complete(r) ==
  /\ At(r, "verified")
  /\ IssueAccess
  /\ completed' = [completed EXCEPT ![req[r].sid] = @ + 1]
  /\ Finish(r)
  /\ UNCHANGED <<now, account, sessions, opened, taken>>

-----------------------------------------------------------------------------
\* The protected requests on the account, each one UPDATE.
ChangePassword == must' = FALSE /\ UNCHANGED <<mfa, secret, setups>>

SetupMFA ==
  /\ setups < MaxSetups
  /\ setups' = setups + 1
  /\ secret' = setups + 1
  /\ UNCHANGED <<must, mfa>>
EnableMFA == mfa' = TRUE /\ UNCHANGED <<must, secret, setups>>
DisableMFA == mfa' = FALSE /\ secret' = None /\ UNCHANGED <<must, setups>>

Settings ==
  /\ Bearer
  /\ ChangePassword \/ SetupMFA \/ EnableMFA \/ DisableMFA
  /\ UNCHANGED <<now, sessions, opened, access, req, completed, taken>>

Tick ==
  /\ now < MaxTime
  /\ now' = now + 1
  /\ UNCHANGED <<account, sessions, opened, access, req, completed, taken>>

Next ==
  \/ \E r \in Reqs : ReadRow(r) \/ OpenSession(r) \/ PasswordOnly(r)
  \/ RefreshToken
  \/ \E r \in Reqs, s \in SessionIds : Present(r, s)
  \/ \E r \in Reqs : Deny(r) \/ Consume(r) \/ Find(r) \/ Code(r) \/ Complete(r)
  \/ Settings
  \/ Tick

Spec == Init /\ [][Next]_vars

-----------------------------------------------------------------------------
\* The type of every variable.
TypeOK ==
  /\ now \in 0..MaxTime
  /\ must \in BOOLEAN /\ mfa \in BOOLEAN /\ secret \in 0..MaxSetups
  /\ setups \in 0..MaxSetups
  /\ sessions \in [SessionIds -> Nat]
  /\ opened \in 0..MaxSessions
  /\ access \in Nat
  /\ req \in [Reqs -> Request]
  /\ completed \in [SessionIds -> Nat]
  /\ taken \in [SessionIds -> 0..MaxSetups]

\* An MFA session yields at most one pair of tokens, however many requests
\* present it at once: the session is taken before the code is looked at
\* (service.go:213, 232).
SessionOnce == \A s \in SessionIds : completed[s] <= 1

\* A session that a request has taken is never open again, so a wrong code
\* ends it and a guess costs a login (service.go:213).
TakenIsGone ==
  \A r \in Reqs : req[r].step \in {"find", "code", "verified"} => ~Open(req[r].sid)

\* The secret a login compares its code with was not replaced before the login
\* took its session: nothing read at the time of the password is used, however
\* often the account's MFA was set up since (service.go:213, 223, 248).
SecretReadAfterTaking ==
  \A r \in Reqs : req[r].step \in {"code", "verified"} => req[r].secret >= taken[req[r].sid]

HoldsSession(r, s) == req[r].step \in {"find", "code", "verified"} /\ req[r].sid = s

Held(s) == \E r \in Reqs : HoldsSession(r, s)

\* Where a session is in the terms of OneTimeToken.
SessionStatus(s) ==
  IF completed[s] > 0 THEN "used"
  ELSE IF Held(s) THEN "held"
  ELSE IF Open(s) THEN "live"
  ELSE IF s <= opened THEN "gone"
  ELSE "fresh"

OneTime == INSTANCE OneTimeToken WITH
  Tokens <- SessionIds,
  status <- [s \in SessionIds |-> SessionStatus(s)],
  uses <- completed

\* An MFA session is a one-time token: one request at most takes it, only that
\* request can complete the login, and a session that was taken, guessed at or
\* left to expire never opens again (service.go:213, 232, 336).
SessionIsOneTime == OneTime!Spec
=============================================================================
