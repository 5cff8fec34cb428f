----------------------------- MODULE AuthTokens -----------------------------
(***************************************************************************)
(* The tokens of one account in internal/auth: access and refresh tokens   *)
(* (JWTs with a random jti, never stored), the blacklist in Redis, and the *)
(* refresh requests that trade a token for a new pair.  LoginLock decides  *)
(* whether a login gets tokens at all, MFASessions which ones.             *)
(*                                                                         *)
(* A refresh request is a sequence of steps, each with at most one call to *)
(* Redis or PostgreSQL, and other requests run between them.  Requests     *)
(* that change nothing (a 400, a 401 before the first call) are left out.  *)
(***************************************************************************)
EXTENDS Integers, FiniteSets

CONSTANTS
  Reqs,          \* the refresh requests in flight at one time
  AccessTTL,     \* 15 minutes, main.go:54
  RefreshTTL,    \* 7 days, main.go:55
  BlacklistTTL,  \* 7 days, service.go:289
  MaxTokens,     \* bound: JWTs ever issued
  MaxLogin,      \* bound: no login once so many JWTs were issued
  MaxRevoked,    \* bound: no logout leaves more tokens revoked than this
  MaxTime        \* bound: the clock stops here

ASSUME AuthTokensAssumption ==
  /\ IsFiniteSet(Reqs)
  /\ AccessTTL \in Nat \ {0} /\ RefreshTTL \in Nat /\ BlacklistTTL \in Nat
  /\ AccessTTL <= BlacklistTTL /\ RefreshTTL <= BlacklistTTL
  /\ MaxTokens \in Nat /\ MaxLogin \in Nat
  /\ MaxRevoked \in Nat /\ MaxTime \in Nat

VARIABLES
  now,        \* time.Now()
  issued,     \* the number of JWTs issued
  tokens,     \* the JWTs: kind and expiry
  blacklist,  \* Redis bl:<token>: when the key expires
  req,        \* each refresh request: its step and the token it presented
  redeemed,   \* history: pairs issued for each token presented to refresh
  redisError  \* history: did a Redis call fail whose error the code ignores?

history == <<redeemed, redisError>>
vars == <<now, issued, tokens, blacklist, req, history>>

TokenIds == 1..MaxTokens
None == 0

Token == [kind : {"none", "access", "refresh"}, exp : Nat]
Steps == {"idle", "validate", "panicked", "rotate", "refreshed"}
Request == [step : Steps, tok : 0..MaxTokens]

Idle == [step |-> "idle", tok |-> None]

Issued == 1..issued
Live(t) == t \in Issued /\ now < tokens[t].exp
Blacklisted(t) == now < blacklist[t]
Revoked == {t \in TokenIds : blacklist[t] # 0}

\* What auth.Middleware lets through.  A live refresh token has no username
\* claim: ValidateToken panics on it and the request ends in a 500.
Bearer(t) == Live(t) /\ tokens[t].kind = "access"

At(r, step) == req[r].step = step
Goto(r, step) == req' = [req EXCEPT ![r].step = step]
Finish(r) == req' = [req EXCEPT ![r] = Idle]

Access == [kind |-> "access", exp |-> now + AccessTTL]
Refresh == [kind |-> "refresh", exp |-> now + RefreshTTL]

\* GenerateAccessToken alone, and issueTokens.
IssueAccess ==
  /\ issued + 1 \in TokenIds
  /\ issued' = issued + 1
  /\ tokens' = [tokens EXCEPT ![issued + 1] = Access]

IssueTokens ==
  /\ issued + 2 \in TokenIds
  /\ issued' = issued + 2
  /\ tokens' = [tokens EXCEPT ![issued + 1] = Access, ![issued + 2] = Refresh]

\* Mutant: the lifetime of an access token.
BlacklistBriefly(t) == blacklist' = [blacklist EXCEPT ![t] = now + AccessTTL]

\* The SET of Service.Logout: one key per token, its lifetime starts over.
Blacklist(t) == blacklist' = [blacklist EXCEPT ![t] = now + BlacklistTTL]

-----------------------------------------------------------------------------
Init ==
  /\ now = 0
  /\ issued = 0
  /\ tokens = [t \in TokenIds |-> [kind |-> "none", exp |-> 0]]
  /\ blacklist = [t \in TokenIds |-> 0]
  /\ req = [r \in Reqs |-> Idle]
  /\ redeemed = [t \in TokenIds |-> 0]
  /\ redisError = FALSE

\* The last step of a login: a pair, or an access token alone while the
\* password must be changed.
Login ==
  /\ issued < MaxLogin
  /\ IssueTokens \/ IssueAccess
  /\ UNCHANGED <<now, blacklist, req, history>>

\* POST /auth/logout, behind auth.Middleware: any token the client holds.
Logout(t) ==
  /\ t \in Issued
  /\ \E bearer \in TokenIds : Bearer(bearer)
  /\ Cardinality(Revoked \cup {t}) <= MaxRevoked
  /\ Blacklist(t)
  /\ UNCHANGED <<now, issued, tokens, req, history>>

\* POST /auth/refresh with any token the client holds.  IsTokenBlacklisted
\* takes a Redis error for "not blacklisted".
Check(r, t) ==
  /\ At(r, "idle") /\ t \in Issued
  /\ \/ ~Blacklisted(t) /\ UNCHANGED redisError
     \/ redisError' = TRUE
  /\ req' = [req EXCEPT ![r] = [step |-> "validate", tok |-> t]]
  /\ UNCHANGED <<now, issued, tokens, blacklist, redeemed>>

\* Mutant: the rotation is forgotten.
ValidateOnly(r) ==
  LET t == req[r].tok
  IN /\ At(r, "validate")
     /\ \/ (Live(t) => Bearer(t)) /\ Finish(r)
        \/ Bearer(t) /\ Goto(r, "refreshed")
        \/ Live(t) /\ ~Bearer(t) /\ Goto(r, "panicked")
     /\ UNCHANGED <<now, issued, tokens, blacklist, history>>

\* ValidateToken and GetUser, which may fail; the type claim is not looked at.
Validate(r) ==
  LET t == req[r].tok
  IN /\ At(r, "validate")
     /\ \/ (Live(t) => Bearer(t)) /\ Finish(r)
        \/ Bearer(t) /\ Goto(r, "rotate")
        \/ Live(t) /\ ~Bearer(t) /\ Goto(r, "panicked")
     /\ UNCHANGED <<now, issued, tokens, blacklist, history>>

\* The Recoverer answers 500.
Recover(r) ==
  /\ At(r, "panicked")
  /\ Finish(r)
  /\ UNCHANGED <<now, issued, tokens, blacklist, history>>

\* Mutant: the old token is left valid.
RotateNothing(r) ==
  /\ At(r, "rotate")
  /\ Goto(r, "refreshed")
  /\ UNCHANGED <<now, issued, tokens, blacklist, history>>

\* Logout of the token that was presented; its error is ignored.
Rotate(r) ==
  /\ At(r, "rotate")
  /\ \/ Blacklist(req[r].tok) /\ UNCHANGED redisError
     \/ redisError' = TRUE /\ UNCHANGED blacklist
  /\ Goto(r, "refreshed")
  /\ UNCHANGED <<now, issued, tokens, redeemed>>

Issue(r) ==
  /\ At(r, "refreshed")
  /\ IssueTokens
  /\ redeemed' = [redeemed EXCEPT ![req[r].tok] = @ + 1]
  /\ Finish(r)
  /\ UNCHANGED <<now, blacklist, redisError>>

Tick ==
  /\ now < MaxTime
  /\ now' = now + 1
  /\ UNCHANGED <<issued, tokens, blacklist, req, history>>

Next ==
  \/ Login
  \/ \E t \in TokenIds : Logout(t)
  \/ \E r \in Reqs, t \in TokenIds : Check(r, t)
  \/ \E r \in Reqs : Validate(r) \/ Recover(r) \/ Rotate(r) \/ Issue(r)
  \/ Tick

Spec == Init /\ [][Next]_vars

-----------------------------------------------------------------------------
\* The type of every variable.
TypeOK ==
  /\ now \in 0..MaxTime
  /\ issued \in 0..MaxTokens
  /\ tokens \in [TokenIds -> Token]
  /\ blacklist \in [TokenIds -> Nat]
  /\ req \in [Reqs -> Request]
  /\ redeemed \in [TokenIds -> Nat]
  /\ redisError \in BOOLEAN

\* A blacklist entry outlives the token it revokes, so a revoked token never
\* becomes usable again (service.go:289 against jwt.go:21, 39 and main.go:54).
RevocationOutlivesToken == \A t \in Revoked : Live(t) => Blacklisted(t)

\* However refresh requests interleave between the blacklist check and the
\* blacklisting (handler.go:209, 233), a token is redeemed at most once per
\* request in flight, unless Redis fails.
RedeemBudget == ~redisError => \A t \in TokenIds : redeemed[t] <= Cardinality(Reqs)

\* A token that was redeemed is revoked: no later request redeems it again
\* (handler.go:233), unless Redis failed.
RedeemedIsRevoked == ~redisError => \A t \in TokenIds : redeemed[t] > 0 => t \in Revoked
=============================================================================
