# SecureGate: specifications, model checking and proofs

SecureGate is a web gateway to remote hosts: users log in over HTTPS, obtain a
session for a host, and work on it through a WebSocket that the server relays
to SSH or RDP. The server is one Go program (`src/cmd/server`) in front of
PostgreSQL (users, hosts, policies, sessions, audit log) and Redis (revoked
tokens, MFA sessions, WebSocket tokens).

This directory holds TLA+ modules for the parts of the server whose
correctness depends on order, concurrency, failures or time, TLC
configurations that check them on small instances, and TLAPS proofs of their
main properties for every value of their constants. `PROJECT.json` is the
index: which definition models which lines, what every run checks, which
mistake in the code each property would detect, the hazards of the code, and
the places where it does not do what a document or a comment says.

    tlc -workers 2 -config MCLoginLock.cfg MCLoginLock     # a run
    tlapm LoginLockProofs.tla                              # the proofs of a module

## 1. The system

The server handles every request in a goroutine of its own. It keeps little in
memory (the rate limiter's map, the relay hub's map); almost all state is in
PostgreSQL and Redis, read and written by single autocommitted statements. So
two requests interleave between any two statements, and every multi-statement
operation is a read, a decision and a write with a gap between them. That gap
is the subject of most of what follows.

| Component | State | Operations | Talks to | Hard behaviour | What makes it correct |
|---|---|---|---|---|---|
| Account lock (`internal/auth/service.go`) | `users.status`, `login_fail_count`, `locked_until` | Login and its five statements; an operator's SQL | PostgreSQL | lost updates, stale copies, ignored UPDATE errors, expiry | a bar holds against whoever read it; a lock after enough failures, and too early by no more than a count carried over a reset |
| Tokens (`auth/handler.go`, `jwt.go`, `middleware.go`) | Redis `bl:*`; the JWTs clients hold | login, refresh, logout, the bearer check | Redis, PostgreSQL | check-then-act, ignored Redis errors, lifetimes, a panic | a revoked token stays revoked; a token is redeemed a bounded number of times |
| MFA (`auth/service.go`, `mfa.go`) | Redis `mfa:*`; `users.mfa_*`, `must_change_password` | login branch, verify, setup, enable, disable, password change | Redis, PostgreSQL | two requests for one session, settings changing mid-login, expiry | one pair per session; the code is compared with a secret read after the session was taken |
| Signup, first admin (`auth/service.go`) | `users` | Signup, CreateAdmin | PostgreSQL | check-then-insert races | one account per name |
| Rate limiter (`middleware/ratelimit.go`) | a map of request times | Allow | every request passes it | window boundary, growth | no window over the limit; bounded memory |
| Audit log (`audit/logger.go`) | `audit_logs` | Log, VerifyChain, QueryLogs | PostgreSQL | forked chain, failed reads, time resolution, ties, clocks of several servers | an untouched log verifies, one with a changed action does not, as far as the verification reads |
| Session manager (`session/manager.go`) | `sessions`; Redis `ws_session:*` | create, validate the WebSocket token, end, terminate | PostgreSQL, Redis | two stores, a crash between them, one-time token | a token opens its session once |
| Relay hub and WebSocket handler (`relay/hub.go`, `ws_handler.go`) | the map of sessions, a channel each | register, unregister, forward, send; a reader goroutine | session manager, relays | send on a closed channel, overwritten registration, two writers | a registration has a handler, a channel closes once, a frame is in one place and in order, every call returns |
| SSH relay (`relay/ssh/handler.go`) | an SSH session, `done`, a mutex | Start and three goroutines | hub, host | blocking Write under the mutex, a browser that stops reading, who closes whom | a relay whose server has ended releases its connection, when both its writes return |
| RDP relay (`relay/rdp`) | an xfreerdp process | Start, the PNG scanner | hub, host | process plumbing; imported by nobody | |
| Frames and rules (`relay/framer.go`, `clipboard.go`) | none | encode, decode, allow | relays | lengths, whitelist | decode inverts encode; the rules say what the policy says |
| Policies (`policy`) | `policies` | Evaluate, CRUD | PostgreSQL | precedence, ties, time across midnight, a dropped error | numbers decide, then age; only hours refuse; rules and managers agree |
| Hosts (`host`) | `hosts`, `credentials` | CRUD, OS detection | PostgreSQL | lost update of UpdateHost | a field is lost only where two edits overlap |
| Start-up (`db`, `cmd/server`) | `schema_migrations` | migrate, CreateAdmin, serve, shut down | PostgreSQL, Redis | crash in the middle, two servers at once, shutdown order | each migration once |
| Middleware (`cors.go`, `security.go`, `logging.go`) | none | headers, a log line | every request | the log wrapper hides Hijack | |
| Web client (`web/src`) | tokens in localStorage | pages | the API | | |

The auth modules divide one login among them. `LoginLock` decides whether a
login is granted (lines 35-65 of `service.go`). `MFASessions` decides what a
granted login gets (lines 67-98): a pair of tokens, an access token, or an MFA
session. `AuthTokens` follows the tokens after they are issued. The rate
limiter is in front of all of them and independent of them; the audit log
takes entries from any handler. `Startup` is the process around them: it makes
the rows `LoginLock` begins with.

A remote session also runs through several modules. `HostEdits` and `Policies`
are the tables behind it. `SessionTokens` makes the session and trades its
token, on hosts that may be deleted meanwhile; `Policies` takes from it that a
host with a session stays (`OpenSession`). `RelayHub` begins where a token was
accepted; `SshRelay` stands at the other end of its input channel, and has of
the hub what a relay sees: frames come, the channel is closed, output goes back.
`OneTimeToken` is the promise both kinds of token keep, the MFA session and the
WebSocket token.

The hazards in `PROJECT.json` are the places, line by line, where a test would
hardly reach; each names the properties that watch it, or says why none does.
Its findings are the disagreements of code and documents met on the way. One of
them has a run that exhibits it (`relay_frames`); the others are in the modules
as the code has them, and need no run to be seen.

## 2. The modules

### LoginLock (run `login_lock`)

One row of `users` and the requests inside `Service.Login` for it. `Login`
reads the row once and works from that copy; every statement after the read is
an action: `FindUser` (the SELECT), `CheckStatus` (the switch on the copy),
`UnlockAccount`, `VerifyRight`/`VerifyWrong` (the hash comparison is a choice),
`IncrementLoginFail`, `ResetLoginFail`, `Answer`. `OperatorLock`,
`OperatorDisable` and `OperatorUnlock` are statements the operations and
maintenance documents give to an operator. With `Faults` an UPDATE may fail;
what the code does then (drop the error, or refuse) is in the action. `stale`,
`wrong`, `carried` and `misses` are history. Every reset of the row, of a login,
of an expired lock or of the operator, forgets the wrong passwords (`Forget`);
`carried` keeps the highest count a request in flight has in hand at that
moment, because the code resets the row and not the copies.

- `FreshMeansOpen`, `BarredRowUntouched`: a bar (pending, disabled, locked and
  not expired) set before a request read the row stops it, and only a request
  with an older copy can write a barred row.
- `CountsAccounted`, `LockNeedsFailures`: lost updates only lower the count, and
  a count is too high, or a lock too early, by no more than what a request
  carried over the last reset. One request is enough for that: after an expired
  lock `unlockAccount` resets the row, and the same request writes its old count
  plus one. So one wrong password locks the account again (a finding).
- `MissesWithinBudget`: how far the count can be short. A slow request can hold
  a low count while the others use up the higher ones, and write it back then,
  once for each way to spread the requests over the counts below the threshold
  (`Spreads`), less one. For K requests and a threshold of T that is
  C(T - 1 + K, K) - 1 failures without a lock between two resets; `MCLoginLock`
  has TLC compare the two up to T = 5 and K = 4. One request at a time gives the
  documented T - 1.
  Two requests that read the same count write the same count, which is why the
  documented number of wrong passwords does not always lock (a finding).

Bounds: two requests, threshold 3, a clock of 3, seven wrong passwords since a
reset and carried over it, together. Two
requests are the fewest that lose an update, threshold 3 the least at which the
count can be lost more than once, and the clock passes an expiry of the
automatic lock and reaches one of the operator's.

### SlidingWindow, RateLimiter (run `rate_limiter`)

`SlidingWindow` is the promise: a request is served exactly when fewer than
`Limit` requests of its address were served in the `Window` before it, with the
whole history at hand. `RateLimiter` is the code: a pruned list per address;
`Allow` and `Refuse` are the two returns of `ipRateLimiter.Allow`, which holds
a mutex throughout and reads the clock inside it. `Refinement` is
`SlidingWindow!Spec` under the identity mapping of `now`, `served`, `verdict`;
`verdict` is part of it, so a wrongly refused request is not a stutter.
`WindowBound` covers windows of every position, not only those that end at a
request; `MemoryBound` is the bound on a list. Two addresses, limit 2, window
3 and eight instants: windows overlap, touch and leave gaps. Deadlock is
checked: the limiter always has an answer.

### AuditChain (run `audit_chain`)

Calls of `Logger.Log` are three actions with no transaction around them:
`ReadLast` (any error counts as an empty table), `Stamp` (id, time, hash),
`Insert`. The clock is the wall clock of the server that runs the call; rows
outlive it and are ordered with those of other servers, so `Stamp` takes any
reading, and `latest` remembers the highest so far. It counts nanoseconds;
`Stored` is what the columns keep: the time truncated to microseconds, the JSON
text in canonical form. The hash is the tuple of what is hashed, hence
injective. `VerifyChain(n)` is the loop over the first `n` rows in order of time
and id. `Tamper` rewrites the action of a row, `TamperOther` the columns the hash
leaves out (actor, address, target). `marred` records which of the causes that
can break an honest chain occurred.

- `LinksPointBack`: whatever overlaps, fails or is tampered with, every row names
  the genesis or a row of the table; and one that is not later, as long as no
  clock went back.
- `HonestChainVerifies`: overlap, a failed read, a tie, a column that did not
  keep what was hashed and a clock that shows less than one did before are the
  only ways an honest log fails verification.
- `TamperEvident`: a row with a changed action fails every verification that
  reaches it.

With one caller and no fault the log still does not verify, unless the
nanoseconds happen to be a multiple of a microsecond: one of the five causes,
and a finding. What `TamperEvident` leaves out are two more: a comment has
`VerifyChain` read the last rows, and it reads the first; and a change of the
actor, the address or the target is never seen (`TamperOther` mars nothing, so
`HonestChainVerifies` says that such a log is accepted).

No handler calls `Log` at this commit; the module takes callers as concurrent
HTTP requests, which is how the documents describe the log. Three rows and two
callers: the smallest table with a fork and a row after it; two nanoseconds to
a tick and three ticks, two texts of the detail, one changed row.

### AuthTokens (run `auth_tokens`)

JWTs are never stored; a token is its kind and expiry. `Login`, `Logout` and the
five steps of a refresh request (`Check`, `Validate`, `Recover`, `Rotate`,
`Issue`), one call to Redis or PostgreSQL each. Errors of Redis that the code
drops are recorded in `redisError`; a failing `GetUser` ends the request. A live
refresh token has no username claim and makes `ValidateToken` panic, so the
tokens that can be redeemed are access tokens, which `refresh` accepts too
because it does not look at the type claim (the documented rotation is a
finding).

- `RevocationOutlivesToken`: a blacklist entry lives at least as long as its
  token. It rests on the lifetimes of `main.go:54-55` and `service.go:289`,
  which the module's assumption states.
- `RedeemBudget`, `RedeemedIsRevoked`: between the question at
  `handler.go:209` and the write at 233 other requests can pass, so a token can
  be redeemed once per request in flight but not more, and is revoked after.

Two requests; seven tokens, enough for one token to be redeemed three times,
once more than the budget allows; every lifetime passes.

### OneTimeToken, MFASessions (run `mfa_sessions`)

`OneTimeToken` is the abstract specification of a token good for one use: it is
issued once, held by one request at most, used by the one that holds it, and
does not come back once it has lapsed. `OneUse` follows from it.

`MFASessions` is the branch a login takes from its copy of the row (`ReadRow`,
then `OpenSession` or `PasswordOnly`), the verification (`Present`, `Deny`,
`Consume`, `Find`, `Code`, `Complete`) and the settings requests
(`ChangePassword`, `SetupMFA`, `EnableMFA`, `DisableMFA`). A secret is the
number of the setup that made it. Whether a code is accepted is a free choice
(`Code`): the shifts of `mfa.go:54-57` leave one byte of it, so a code may be
right for a secret it was not made from, and one of an authenticator is wrong
nearly always (a finding). A verification needs a live access token because of
the middleware; in the model it comes from another login or from `RefreshToken`.

- `SessionIsOneTime`: the sessions implement `OneTimeToken`, where a session in
  Redis is live, one a request took with GETDEL is held, and the answer with a
  pair of tokens is the use. GETDEL comes before the code is compared, so a
  session yields one pair at most and a wrong code ends it.
- `TakenIsGone`: what a request has taken is never open again.
- `SecretReadAfterTaking`: the secret a code is compared with was not replaced
  before the login took its session (`taken` notes the setups until then): the
  row is read anew, and nothing of the time of the password is used.

The documented request, with a session token and no access token, is refused in
every state (`Deny`, a finding).

Two requests, two sessions, two secrets, a clock of 3 that passes the life of a
session and of an access token.

### RelayHub (run `relay_hub`, finding `relay_frames`)

A connection is one call of `ServeWS` from its upgrade on, and the reader
goroutine that call starts. The call registers (`Register`), writes its
acknowledgement (`BeginAck`, `EndAck`: a write takes time, and gorilla panics
when two overlap), and returns, which runs the deferred `Unregister` and
`EndSession`. The reader loops over `Read`, then a ping (`BeginPing`,
`EndPing`) or `ForwardToRelay` in two steps: `Lookup` under the read lock,
`Send` or `SendClosed` after it. `Take` is a relay that receives from a
channel. `hub` is the map; a connection stands for its RelaySession and its
channel. A panic of the call is caught by chi's Recoverer, a panic of the
reader ends the process: `crashed`. The sections under the hub's mutex contain
no blocking call, so each is one step. `overwritten` is history, and so is
`settled`: the frames a relay took, and those that were dropped.

- `RegistrationHasHandler`: a registration belongs to a call that has not
  unregistered yet, whichever call of the session unregisters first, and also
  when the acknowledgement panics.
- `NeverClosedTwice`: a registered channel is open; no channel is closed twice
  and no lookup finds a closed one. A send panics only when an Unregister came
  between its lookup and it. That does happen (`SendClosed`).
- `OrphansWereOverwritten`: a call that has unregistered leaves its channel
  open only if a later registration took its place; then the channel is never
  closed, and a relay reading it waits forever.
- `FramesAccounted`: every frame sent is in one place: in its reader's hand, in
  one channel of its own session, or settled, that is taken by a relay or dropped
  for want of a registration or of room. None is lost in a channel or is in two,
  and those of one client are in order, although a second connection of the
  session can redirect them between lookup and send.
- `HandlersReturn`: every call that registered returns, unless the server dies.
  A full channel does not hold it up, because the send never waits and is
  outside the lock.
- `FramesReachRelay` (violated): a connected client's frames find a
  registration. `ServeWS` returns after the acknowledgement, so they do not.

Fairness is weak fairness of each call's own steps once it registered, which
Go's scheduler gives a runnable goroutine: the mutex sections are finite and
the acknowledgement fits the send buffer of a new connection. It also assumes
that the UPDATE of `EndSession` comes back. None is assumed of clients, readers
or relays. Two connections, of one session or of two (both initial states are
explored), are the fewest that overwrite each other; a channel of two frames
and up to four frames to send fill it and overflow it.

At this commit no request reaches the upgrade: `ValidateWSToken` refuses every
token (`manager.go:89`), and the wrapper in `logging.go` hides Hijack. The
module says what happens after both, as the handler's own code has it.

### SessionTokens (run `session_tokens`)

`POST /sessions` is `CreateSession`, `StoreToken` (SET), `InsertRow` (INSERT)
and, when the INSERT fails, `UndoToken` (DEL); a WebSocket request is `Connect`,
`TakeToken` (GETDEL) and `ScanValue`, which refuses every value at this commit
(a finding). `EndSession`, `TerminateSession` and the deletion of a host are one
statement each; the foreign keys are guards. Every call to a store may fail, an
INSERT may be committed and its answer lost, and `Crash` ends everything in
flight. `torn` records which calls were cut off between the stores.

- `TokenOnce`: the WebSocket tokens implement `OneTimeToken`.
- `AnsweredIsWhole`: a client that was given a token finds its session's row and
  its host. The token is stored first, but the answer waits for the row.
- `HalvesAccounted`: a token without a row, or a row nobody was told of, belongs
  to a call still under way or to one that was cut off.

No fairness is assumed: nothing here promises progress. Two sessions on one host
or on two, two connections: the fewest that present one token at once and delete
a host under another session.

### Startup (run `startup`)

The start of the server processes on one database: `Connect`, `CreateTable` (of
two servers that both find no `schema_migrations`, one fails, IF NOT EXISTS or
not: the question and the creation are not one step), for each file
`CheckVersion`, `Execute`, `RecordVersion`, `Commit`, then `FindAdmin` and
`InsertAdmin`; `Signal` and `Exit` are the shutdown, in which main does not wait
for the requests (a finding). A signup is `Accept`, `CheckName`, `CheckEmail`,
`InsertUser`. Any error at the start is fatal: the process goes down, and the
container starts it again. The primary key of the versions makes the second
server wait for the first and fail; UNIQUE does the same for accounts.

- `AppliedOnceInOrder`: the SQL of every file takes effect once, in order, and is
  recorded exactly when it has.
- `AdminIsSuper`, `AccountsDistinct`: nobody signs up as `admin`, because no
  server listens before the account is there; no two accounts share a name or an
  email, though the questions and the INSERT are three statements.
- `ServesAgain`: every server that a fault or a lost race took down serves again,
  although two servers can end each other's start. One loses a race at most once
  per row.

Fairness: of the steps of main up to serving and of its exit, which a process
that runs takes, and of the restart of one that is down (`restart:
unless-stopped`, docker-compose.yml:45). None of the restart after a signal,
which stops a server for good unless somebody starts it, and none of signals,
requests or faults. The run has two servers, two
files, two signups for two names, and one fault, which can fall on a commit
whose answer is lost. At this commit there is one file; two show the order.

### PolicyRules, Policies (run `policies`)

`PolicyRules` has the decisions as functions: the query of `findPolicies`
(`Applies`, `Precedes`), the time range, the engine's and the managers' rules for
the clipboard and for files. `Evaluate` is the set of decisions the engine may
return: several policies tie when number and creation time are equal, and when
the query fails the error is dropped and the default allows everything.
`Policies` is the table under the requests that change it; `Update` takes any
body, because the handler does not notice one that does not decode and stores
the zero policy; a host takes its policies with it unless it has sessions. The
creation time is what the server's clock shows: it may tie or go back.

- `NewcomersYield`: numbers decide, then age, and the scope plays no part. A new
  policy, be it for one user, changes nothing where an older one applies whose
  number is not smaller. The documents promise user before group before global
  (a finding): with the number everybody gets by default, 0, the older one wins.
- `RefusedByHours`: a user is refused only for the hours of an enabled policy
  that applies and whose number no other exceeds. Neither a policy switched off,
  nor one that is overruled, nor a failed query refuses anybody. A range over
  midnight holds no hour, so its policy refuses always.
- `ManagersNeverLaxer`: the managers of a session allow no upload and no
  clipboard direction that the engine's rules refuse. They may be stricter: a
  whitelist refuses every file (a finding).
- `DeletionIsLocal`: deleting a host changes no decision on another host. With
  ON DELETE SET NULL, as two neighbouring keys have it, its policies would
  apply everywhere.

Three policies out of seven bodies, two readings of the clock: two apply at once
and disagree or tie while the third goes with its host; every scope, a range by
day and one over midnight, both lists, a disabled policy of the highest number.

### HostEdits (run `host_edits`)

One row of `hosts`. `ReadHost` and `WriteHost` are the two statements of
`UpdateHost`, with nothing that ties them; `asked`, `written` and `raced` are
history.

- `HostFieldsAccounted`: the loss of a field needs an overlap. Until some
  request wrote back an old copy, the row is what it would be had every edit
  been one statement; after that a field may be old, but holds a value some
  request gave that very field. No edit brings a deleted host back, none
  touches what detection found.
- `HostTypeOK`: a row has all its columns, whatever fields a request leaves out.

Two requests and two columns: the fewest that lose an update of different fields.

### SshRelay (run `ssh_relay`)

`Start` is one action per call to the library (`ParseKey`, `Dial`, `NewSession`,
`Prepare` for the four calls after them), each with its failure, and leaves three
goroutines: input (`StdinReceive` to `StdinWrite`), output (`ReadOutput`,
`BeginSend`, `EndSend`, `ReadEnd`) and the one that closes. The buffer of the
output is there with what earlier reads left in it. `BeginSend` is the lookup of
`SendToClient`, `EndSend` the return of the write to the WebSocket. That write
has no deadline: it waits until the browser takes a message (`room`) or its
connection breaks. The goroutine that reads the WebSocket answers pings on the
same connection (`BeginPong`, `EndPong`); when the two overlap, gorilla panics in
a goroutine nobody recovers, and the server is gone (`panicked`). Around them are
the hub, a browser that may stop reading or leave, and a server that grants or
withholds its window, ends its output, or closes.

- `OutputIsWhole`: what the browser shows is a beginning of what the server
  sent, for reads of every size, and all of it when the relay has ended.
- `ConnectionAccounted`: a failed Start holds no connection; a running one holds
  it until the server has ended its output and all of it was read, also when the
  browser is long gone, and never loses it under a Write.
- `ServerEndReleases`: once the server has ended its output, all goroutines end
  and the connection is closed, or the server has panicked, provided that both
  writes come back: the server keeps taking input or closes the channel, and the
  browser keeps taking messages or its connection breaks. Without either premise
  it is violated. A Write that waits for a window holds the mutex the closing
  goroutine needs; and `done` is closed by the goroutine that writes to the
  browser, so a browser that stops reading keeps the relay and its connection.

Fairness is that of each goroutine while the server lives, strong for the two
locks (a mutex that is released again and again goes to a waiter after a
millisecond: starvation mode of sync.Mutex) and for the case of `done` in a
select that often has another one ready (select picks at random). None of the
server, the browser, the reader of its WebSocket or `Start`; what the property
needs of the first two is its premise. Two pieces of input for a channel of one,
three bytes for a buffer of two: the channel overflows, and a short read follows
a full one.

## 3. What is proved

Every safety property a passing run checks, invariants and action properties
alike, and the three refinements are theorems that tlapm proves for every value
of the constants: any set of requests, any threshold, limit, window, lifetime,
buffer and bound. Each safety proof is Init => IInv, one step per action, IInv
=> Inv; the strengthened invariants were model-checked on the runs' instances
before they were proved. Components that share a module of proofs carry a
prefix in their names where both would be called the same (`LimiterInit`,
`HostSpec`, `sshVars`).

The assumptions are the named ones of the modules. Two of them say more than
that a bound is a number. `LoginLockAssumption` has finitely many requests in
flight. `PoliciesAssumption` has a body decode into the columns of a policy and
its priority into a number, which is what the Go struct and the column make of
it.

| Module | Inductive invariant and why it is needed | Theorems |
|---|---|---|
| LoginLockProofs | `TypeOK`, `FreshMeansOpen`, `CountsAccounted` and `CopyShowsBar`: before the switch, a fresh copy of a barred row shows the same status and deadline. Without it nothing connects the copy the switch looks at with the row. `CountsAccounted` needs all copies in flight, since a reset carries their counts over (`ForgetCarries`). For the budget, `BudgetInv`: see below. | `TypeInvariant`, `Inductive`, `FreshRequestsFindItOpen`, `CountsAreAccounted`, `BarHoldsAgainstFresh`, `LockOnlyAfterFailures`, `BudgetInductive`, `MissesRunOut`, `LocksAtThreshold` |
| AuditChainProofs | `Links`: a hash that a call has read, or is about to insert, names a row, and while the clocks came in order one not later than the stored time; truncation is monotonic. `Provenance`: identifiers are distinct, and every hash is of an action somebody logged. `Unbroken`: until something mars the log, one call is under way at most, and it holds the hash of the last row. | `Inductive`, `ChainPointsBack`, `ChainInductive`, `TypeCorrect`, `HonestChainsVerify`, `TamperingShows` |
| AuthTokensProofs | `LifetimesNested`: no token outlives an entry made now; `BudgetKept`: the times a token was redeemed plus the requests that still can redeem it are at most the requests. | `TypeInvariant`, `RevocationHolds`, `RedemptionIsBounded`, `RedeemedTokensAreRevoked`, `Inductive` |
| MFASessionsProofs | `SessionInOnePlace`: a session is unopened, in Redis, with one request, or spent; `SecretsInOrder`: a session was taken no later than the setups so far, and the account has the latest secret or none. | `TypeInvariant`, `OnePairPerSession`, `TakenSessionsAreGone`, `NoStaleSecret`, `SessionsAreOneTime`, `EachSessionUsedOnce`, `Inductive` |
| SessionTokensProofs | `CallInOrder`: what each step of a call has left behind in the two stores; `RowHasHost`; `TokenInOnePlace`: a token is in Redis or with one connection. | `Typed`, `Whole`, `Accounted`, `Once` |
| RelayProofs, hub | `EveryChannelAccounted`: a channel whose call registered is closed, overwritten or still in the map; `LookupsMatch`: what a reader looked up is of its session; `FramesBehind`: frames in channels and settled ones are older than the one its reader has in hand; `NoneMissing`, `OnePlace`, `InOrder`: the parts of `FramesAccounted`. | `TypeInvariant`, `RegistrationsHaveHandlers`, `ChannelsCloseOnce`, `OnlyOverwrittenLeak`, `FramesStayAccounted`, `Inductive` |
| RelayProofs, SSH | `Holding`: what Start holds at each of its calls; `Exclusive`: who has the mutex; `Passing`: every byte read is shown or in the frame in hand, as long as the browser can be reached; `Ending`: `done` is closed after the last byte. | `SshInductive`, `OutputArrivesWhole`, `ConnectionsClosed` |
| ServerProofs, start-up | `MigrationsInOrder`: a server has passed recorded versions only, and one about to commit is alone with its version; `AdminFirst`: nobody serves, and no signup is under way, without an administrator. | `Inductive`, `Typed`, `MigrationsOnce`, `AdminStaysSuper`, `Distinct` |
| ServerProofs, limiter | `Remembers`: what is kept is part of what was served and contains all of the current window; `Bounded`. The window bound is about history, the code looks only at what it kept. | `LimiterTyped`, `LimiterInductive`, `NoWindowOverLimit`, `MemoryIsBounded`, `LimiterImplements` |
| AdministrationProofs, hosts | `Copies`: the copy an edit holds has values requests gave, and is the row itself while nobody has written since it was read. | `HostInductive`, `HostTyped`, `EditsAccounted` |
| AdministrationProofs, policies | `PolicyInv`: rows have the columns and numbers of their bodies (`Placed`), and no number beyond those made. | `PolicyInductive`, `NewcomersAlwaysYield`, `OnlyHoursRefuse`, `ManagersObeyEngine`, `DeletionsAreLocal`, `OnlyTiesAreOpen` |

**The budget of failures.** `MissesRunOut` is the one theorem about a count that
no bound on a single variable gives. Let a request stand at the lower of its
copy's count and the row's (the row's, if it has no copy it may still use), and
at T - 1 when that is higher. The spread says how many requests stand at each
count or below. A request that reads the row, or leaves without writing, keeps
its place or moves up. A failure that is recorded and does not lock moves its
request up from the place it stood at, and nobody below is touched; a request
above may fall, but not as far as that place. So at the lowest count where the
spreads before and after differ, fewer requests stand (`RiseAt`), and no spread
comes back before the next reset. `BudgetInv` says that the failures so far are
at most the spreads passed; it needs the capped standing, since a stale copy can
be above the row after a reset, and both can be above the threshold after a lock.
`LocksAtThreshold` is the case of one request at a time, in numbers.

**Refinements.** `LimiterImplements` shows that every step of the limiter is a
step of `SlidingWindow` or a stutter; its core is that the kept entries of the
window are the served ones (`RecentIsWindow`). `SessionsAreOneTime` and `Once`
show two refinements of one abstract specification: each action is `Issue`,
`Hold`, `Use`, `Lapse` or a stutter under the mapping, which needs that no two
requests hold one token (`SessionInOnePlace`, `TokenInOnePlace`).
`EachSessionUsedOnce` then carries the abstract promise `OneUse` over to the MFA
sessions, without looking at their code again.

**Policies.** Most of the theorems follow from what the query returns
(`FoundPolicy`). `NewcomersAlwaysYield` compares the queries before and after a
creation: the new row is preceded by an older one that applies
(`LaterAndNotAbove`), and whatever the new row would precede that one precedes as
well, so the same policies are found. `OnlyTiesAreOpen`, which no run states,
says that a policy is found whenever one applies, and that several are found only
when number and creation time are equal. It rests on `FirstExists`: a finite set
that is not empty has an element no other precedes in a strict order, by the
well-foundedness of inclusion on the sets of predecessors. `DeletionsAreLocal` is
about the foreign keys: it fails as soon as a deletion leaves a row of the
deleted host behind.

Model-checked only: liveness, which is outside TLAPS together with ENABLED, so
`HandlersReturn`, `ServesAgain` and `ServerEndReleases`. The
modules without them assume no fairness and promise no progress: a request may
be cancelled by its client at any step. And the closed form of the budget for
more than one request, which takes an induction over the threshold and the
number of requests; no theorem uses it.

## 4. Time, failure and what the models leave out

Clocks are small integers that advance by one; every action reads the clock
where the code does. Two times are kept and compared across servers and restarts
by their order alone: those of `audit_logs` and the creation times of policies.
There the reading is free, so clocks may step back and differ. The lifetimes of
the other modules take one clock: that of Redis for its keys, and for the
deadlines of locks and tokens servers whose clocks agree. JWT expiry is rounded
to seconds in the code; the models use one unit for all lifetimes. A request
that its client abandons stops between two statements: no module has fairness of
the statements of a request (`RelayHub` has it of a call that is past its
upgrade), so any request may stop anywhere, and the invariants cover that.

Crashes and restarts are actions where they leave something behind: between two
stores in `SessionTokens`, between two statements of the start in `Startup`.
Elsewhere a restart loses the requests in flight, which is the same as stopping,
and the limiter's map; the latter is not modelled, and after it `WindowBound`
holds only for the time since.

## 5. Not modelled

`PROJECT.json` lists every component with its status. Left out, and why:

- The RDP relay: `scanner.go` has the case "HangulMode" twice, so the package
  does not compile, and nothing imports it.
- The printer and idle trackers and the codecs of keys and sizes: the RDP relay
  or nobody uses them; each is a comparison or a fixed layout.
- `UpdateActivity`, `CreateCredential`: one statement each on columns nobody
  reads, the first without a caller.
- Detection of operating systems: text matching on banners.
- Password hashing and signatures: taken to work. The arithmetic of TOTP, which
  does not (a finding), and its tolerance by one period: whether a code matches
  is a free choice in `MFASessions`.
- Keys of Redis that go before their time, as under the `allkeys-lru` that
  `docs/maintenance.md:292` advises: a revoked token would come back. And the
  other routes never ask the blacklist; `AuthTokens` follows it where the code
  does, in refresh.
- Reading the environment, JSON, headers, CORS, the request log, the text of
  answers: no state and no order. That the log's wrapper hides Hijack is a
  hazard of `RelayHub`'s environment, noted there.
- The pages of the web client, except what `SessionPage` does with a message.

Open: a composition of `LoginLock`, `MFASessions` and `AuthTokens` in which one
login runs through all three; one of `RelayHub` and `SshRelay`, which nothing in
the program connects yet.
