-------------------------- MODULE AuthTokensProofs --------------------------
(***************************************************************************)
(* The safety of AuthTokens for every finite set of requests, every        *)
(* lifetime the assumption allows and every bound.                         *)
(***************************************************************************)
EXTENDS AuthTokens, FiniteSetTheorems, TLAPS

\* No token lives longer than a blacklist entry made now or at the time it was
\* revoked; a request in flight presented a token that was issued.
LifetimesNested ==
  /\ \A t \in Issued : tokens[t].exp <= now + BlacklistTTL
  /\ \A t \in Revoked : t \in Issued /\ tokens[t].exp <= blacklist[t]
  /\ \A r \in Reqs : req[r].step # "idle" => req[r].tok \in Issued

\* The requests that may still redeem t: a request that is past the blacklist
\* check and presented a token that was live when it was validated.
Active(t) ==
  {r \in Reqs : req[r].tok = t /\ \/ req[r].step \in {"rotate", "refreshed"}
                                  \/ req[r].step = "validate" /\ Live(t)}

\* What a token was redeemed for and what may still redeem it are together no
\* more than the requests: the first to redeem it revoked it before.
BudgetKept ==
  ~redisError =>
    /\ \A t \in TokenIds : redeemed[t] > 0 => t \in Revoked
    /\ \A r \in Reqs : req[r].step = "refreshed" => req[r].tok \in Revoked
    /\ \A t \in TokenIds : redeemed[t] + Cardinality(Active(t)) <= Cardinality(Reqs)

IInv == TypeOK /\ LifetimesNested /\ BudgetKept

LEMMA ActiveFinite ==
  /\ Cardinality(Reqs) \in Nat
  /\ \A t \in TokenIds : /\ IsFiniteSet(Active(t))
                         /\ Cardinality(Active(t)) \in Nat
                         /\ Cardinality(Active(t)) <= Cardinality(Reqs)
<1>1. IsFiniteSet(Reqs)
  BY AuthTokensAssumption
<1>2. \A t \in TokenIds : Active(t) \subseteq Reqs
  BY DEF Active
<1> QED
  BY <1>1, <1>2, FS_Subset, FS_CardinalityType

LEMMA ActiveShrinks ==
  ASSUME NEW t \in TokenIds, Active(t)' \subseteq Active(t)
  PROVE  Cardinality(Active(t)') \in Nat /\ Cardinality(Active(t)') <= Cardinality(Active(t))
BY ActiveFinite, FS_Subset, FS_CardinalityType

\* What a step of one request does to req.
LEMMA Finishing ==
  ASSUME TypeOK, NEW r \in Reqs, Finish(r)
  PROVE  /\ req' \in [Reqs -> Request]
         /\ req'[r].step = "idle"
         /\ \A q \in Reqs : q # r => req'[q] = req[q]
<1>1. Idle \in Request /\ Idle.step = "idle"
  BY AuthTokensAssumption DEF Idle, Request, Steps, None
<1> QED
  BY <1>1 DEF TypeOK, Finish

LEMMA Going ==
  ASSUME TypeOK, NEW r \in Reqs, NEW step \in Steps, Goto(r, step)
  PROVE  /\ req' \in [Reqs -> Request]
         /\ req'[r].step = step
         /\ req'[r].tok = req[r].tok
         /\ \A q \in Reqs : q # r => req'[q] = req[q]
<1>1. req[r] \in Request
  BY DEF TypeOK
<1>2. req' = [req EXCEPT ![r] = [req[r] EXCEPT !.step = step]]
  BY DEF Goto
<1>3. [req[r] EXCEPT !.step = step] \in Request
  BY <1>1 DEF Request
<1>4. req'[r] = [req[r] EXCEPT !.step = step]
  BY <1>2 DEF TypeOK
<1> QED
  BY <1>1, <1>2, <1>3, <1>4 DEF TypeOK, Request

LEMMA Checking ==
  ASSUME TypeOK, NEW r \in Reqs, NEW t \in TokenIds, Check(r, t)
  PROVE  /\ req' \in [Reqs -> Request]
         /\ req'[r].step = "validate" /\ req'[r].tok = t /\ t \in Issued
         /\ req[r].step = "idle"
         /\ \A q \in Reqs : q # r => req'[q] = req[q]
         /\ UNCHANGED <<now, issued, tokens, blacklist, redeemed>>
<1>1. [step |-> "validate", tok |-> t] \in Request
  BY AuthTokensAssumption DEF Request, Steps, TokenIds
<1> QED
  BY <1>1 DEF TypeOK, Check, At

\* New tokens have new numbers and live no longer than a blacklist entry.
LEMMA Issuing ==
  ASSUME TypeOK, IssueTokens \/ IssueAccess
  PROVE  /\ issued' \in 0..MaxTokens /\ issued <= issued'
         /\ tokens' \in [TokenIds -> Token]
         /\ \A t \in Issued : tokens'[t] = tokens[t]
         /\ \A t \in Issued' : t \notin Issued => tokens'[t].exp <= now + BlacklistTTL
<1>1. Access \in Token /\ Refresh \in Token
  BY AuthTokensAssumption DEF Access, Refresh, Token, TypeOK
<1>2. Access.exp <= now + BlacklistTTL /\ Refresh.exp <= now + BlacklistTTL
  BY AuthTokensAssumption DEF Access, Refresh, TypeOK
<1>3. CASE IssueTokens
  <2>1. /\ issued + 2 \in TokenIds /\ issued' = issued + 2
        /\ tokens' = [tokens EXCEPT ![issued + 1] = Access, ![issued + 2] = Refresh]
    BY <1>3 DEF IssueTokens
  <2>2. issued \in Nat /\ MaxTokens \in Nat /\ tokens \in [TokenIds -> Token]
    BY AuthTokensAssumption DEF TypeOK
  <2>3. issued + 1 \in TokenIds
    BY <2>1, <2>2 DEF TokenIds
  <2>4. tokens' \in [TokenIds -> Token]
    BY <1>1, <2>1, <2>2, Zenon
  <2>5. issued' \in 0..MaxTokens /\ issued <= issued'
    BY <2>1, <2>2 DEF TokenIds
  <2>6. \A t \in TokenIds :
          tokens'[t] = IF t = issued + 2 THEN Refresh
                       ELSE IF t = issued + 1 THEN Access ELSE tokens[t]
    BY <2>1, <2>2, Zenon
  <2>7. ASSUME NEW t \in Issued PROVE tokens'[t] = tokens[t]
    <3>1. t \in TokenIds /\ t # issued + 1 /\ t # issued + 2
      BY <2>1, <2>2 DEF Issued, TokenIds
    <3> QED
      BY <2>6, <3>1, Zenon
  <2>8. ASSUME NEW t \in Issued', t \notin Issued
        PROVE  tokens'[t].exp <= now + BlacklistTTL
    <3>1. t \in TokenIds /\ (t = issued + 1 \/ t = issued + 2)
      BY <2>1, <2>2, <2>8 DEF Issued, TokenIds
    <3>2. tokens'[t] \in {Access, Refresh}
      BY <2>6, <3>1, Zenon
    <3> QED
      BY <1>2, <3>2, Zenon
  <2> QED
    BY <2>4, <2>5, <2>7, <2>8, Zenon
<1>4. CASE IssueAccess
  BY <1>1, <1>2, <1>4, AuthTokensAssumption DEF IssueAccess, TypeOK, TokenIds, Issued
<1> QED
  BY <1>3, <1>4

-----------------------------------------------------------------------------
LEMMA InitIInv == Init => IInv
<1> SUFFICES ASSUME Init PROVE IInv
  OBVIOUS
<1>1. Idle \in Request /\ Idle.step = "idle"
  BY AuthTokensAssumption DEF Idle, Request, Steps, None
<1>2. TypeOK
  <2>1. [kind |-> "none", exp |-> 0] \in Token
    BY DEF Token
  <2>2. redisError \in BOOLEAN
    BY DEF Init
  <2>3. /\ tokens \in [TokenIds -> Token] /\ req \in [Reqs -> Request]
        /\ blacklist \in [TokenIds -> Nat] /\ redeemed \in [TokenIds -> Nat]
    BY <1>1, <2>1 DEF Init
  <2>4. now \in 0..MaxTime /\ issued \in 0..MaxTokens
    BY AuthTokensAssumption DEF Init
  <2> QED
    BY <2>2, <2>3, <2>4 DEF TypeOK
<1>3. LifetimesNested
  BY <1>1, AuthTokensAssumption DEF Init, LifetimesNested, Issued, Revoked
<1>4. BudgetKept
  BY <1>1, ActiveFinite DEF Init, BudgetKept
<1> QED
  BY <1>2, <1>3, <1>4 DEF IInv

LEMMA TypeStep ==
  ASSUME TypeOK, [Next]_vars
  PROVE  TypeOK'
<1>1. CASE Login
  BY <1>1, Issuing DEF Login, TypeOK, history
<1>2. ASSUME NEW t \in TokenIds, Logout(t) PROVE TypeOK'
  BY <1>2, AuthTokensAssumption DEF Logout, Blacklist, TypeOK, history
<1>3. ASSUME NEW r \in Reqs, NEW t \in TokenIds, Check(r, t) PROVE TypeOK'
  <2>1. redisError' \in BOOLEAN
    BY <1>3 DEF Check, TypeOK
  <2> QED
    BY <1>3, <2>1, Checking DEF TypeOK
<1>4. ASSUME NEW r \in Reqs, Validate(r) PROVE TypeOK'
  <2>1. Finish(r) \/ Goto(r, "rotate") \/ Goto(r, "panicked")
    BY <1>4 DEF Validate
  <2> QED
    BY <1>4, <2>1, Finishing, Going DEF Validate, TypeOK, history, Steps
<1>5. ASSUME NEW r \in Reqs, Recover(r) PROVE TypeOK'
  BY <1>5, Finishing DEF Recover, TypeOK, history
<1>6. ASSUME NEW r \in Reqs, Rotate(r) PROVE TypeOK'
  <2>1. req' \in [Reqs -> Request]
    BY <1>6, Going DEF Rotate, Steps
  <2>2. blacklist' \in [TokenIds -> Nat]
    BY <1>6, AuthTokensAssumption DEF Rotate, Blacklist, TypeOK
  <2>3. redisError' \in BOOLEAN
    BY <1>6 DEF Rotate, TypeOK
  <2> QED
    BY <1>6, <2>1, <2>2, <2>3 DEF Rotate, TypeOK
<1>7. ASSUME NEW r \in Reqs, Issue(r) PROVE TypeOK'
  <2>1. redeemed' \in [TokenIds -> Nat]
    <3>1. redeemed' = [redeemed EXCEPT ![req[r].tok] = redeemed[req[r].tok] + 1]
      BY <1>7 DEF Issue
    <3>2. ASSUME NEW t \in TokenIds PROVE redeemed'[t] \in Nat
      BY <3>1 DEF TypeOK
    <3> QED
      BY <3>1, <3>2 DEF TypeOK
  <2> QED
    BY <1>7, <2>1, Finishing, Issuing DEF Issue, TypeOK
<1>8. CASE Tick
  BY <1>8, AuthTokensAssumption DEF Tick, TypeOK, history
<1>9. CASE UNCHANGED vars
  BY <1>9 DEF vars, TypeOK, history
<1> QED
  BY <1>1, <1>2, <1>3, <1>4, <1>5, <1>6, <1>7, <1>8, <1>9 DEF Next

LEMMA LifetimeStep ==
  ASSUME TypeOK, LifetimesNested, [Next]_vars
  PROVE  LifetimesNested'
<1> USE DEF LifetimesNested
<1>1. CASE Login
  <2>1. Issued \subseteq Issued'
    BY <1>1, Issuing DEF Login, Issued, TypeOK
  <2>2. UNCHANGED <<now, Revoked, blacklist, req>>
    BY <1>1 DEF Login, Revoked
  <2> QED
    BY <1>1, <2>1, <2>2, Issuing DEF Login
<1>2. ASSUME NEW t \in TokenIds, Logout(t) PROVE LifetimesNested'
  <2>1. /\ t \in Issued /\ Revoked' \subseteq Revoked \cup {t}
        /\ blacklist'[t] = now + BlacklistTTL
        /\ \A u \in TokenIds : u # t => blacklist'[u] = blacklist[u]
    BY <1>2 DEF Logout, Blacklist, Revoked, TypeOK
  <2>2. UNCHANGED <<now, Issued, tokens, req>>
    BY <1>2 DEF Logout, Issued
  <2> QED
    BY <2>1, <2>2 DEF Revoked
<1>3. ASSUME NEW r \in Reqs, NEW t \in TokenIds, Check(r, t) PROVE LifetimesNested'
  BY <1>3, Checking DEF Issued, Revoked
<1>4. ASSUME NEW r \in Reqs, Validate(r) \/ Recover(r) PROVE LifetimesNested'
  <2>1. At(r, "validate") \/ At(r, "panicked")
    BY <1>4 DEF Validate, Recover
  <2>2. Finish(r) \/ Goto(r, "rotate") \/ Goto(r, "panicked")
    BY <1>4 DEF Validate, Recover
  <2>3. /\ req'[r].step = "idle" \/ req'[r].tok = req[r].tok
        /\ \A q \in Reqs : q # r => req'[q] = req[q]
    BY <2>2, Finishing, Going DEF Steps
  <2>4. UNCHANGED <<now, issued, tokens, blacklist>>
    BY <1>4 DEF Validate, Recover
  <2> QED
    BY <2>1, <2>3, <2>4 DEF At, Issued, Revoked
<1>5. ASSUME NEW r \in Reqs, Rotate(r) PROVE LifetimesNested'
  <2> DEFINE t == req[r].tok
  <2>1. t \in Issued /\ t \in TokenIds
    BY <1>5, AuthTokensAssumption DEF Rotate, At, Issued, TokenIds, TypeOK
  <2>2. /\ Revoked' \subseteq Revoked \cup {t}
        /\ blacklist'[t] \in {now + BlacklistTTL, blacklist[t]}
        /\ t \notin Revoked => (t \in Revoked' => blacklist'[t] = now + BlacklistTTL)
        /\ \A u \in TokenIds : u # t => blacklist'[u] = blacklist[u]
    BY <1>5, <2>1 DEF Rotate, Blacklist, Revoked, TypeOK
  <2>3. UNCHANGED <<now, issued, tokens>>
    BY <1>5 DEF Rotate
  <2>4. /\ req'[r].tok = t
        /\ \A q \in Reqs : q # r => req'[q] = req[q]
    BY <1>5, Going DEF Rotate, Steps
  <2> QED
    BY <2>1, <2>2, <2>3, <2>4 DEF Revoked, Issued
<1>6. ASSUME NEW r \in Reqs, Issue(r) PROVE LifetimesNested'
  <2>1. Issued \subseteq Issued'
    BY <1>6, Issuing DEF Issue, Issued, TypeOK
  <2>2. UNCHANGED <<now, Revoked, blacklist>>
    BY <1>6 DEF Issue, Revoked
  <2>3. /\ req'[r].step = "idle"
        /\ \A q \in Reqs : q # r => req'[q] = req[q]
    BY <1>6, Finishing DEF Issue
  <2> QED
    BY <1>6, <2>1, <2>2, <2>3, Issuing DEF Issue
<1>7. CASE Tick
  <2>1. \A t \in Issued : tokens[t].exp \in Nat
    BY AuthTokensAssumption DEF TypeOK, Token, Issued, TokenIds
  <2> QED
    BY <1>7, <2>1, AuthTokensAssumption DEF Tick, TypeOK, Issued, Revoked
<1>8. CASE UNCHANGED vars
  BY <1>8 DEF vars, Issued, Revoked
<1> QED
  BY <1>1, <1>2, <1>3, <1>4, <1>5, <1>6, <1>7, <1>8 DEF Next
-----------------------------------------------------------------------------
LEMMA NestedRevocation ==
  ASSUME TypeOK, LifetimesNested, NEW t \in Revoked, Live(t)
  PROVE  Blacklisted(t)
BY AuthTokensAssumption
   DEF TypeOK, LifetimesNested, Live, Blacklisted, Revoked, Token

\* Whatever keeps the requests that may redeem a token from becoming more, and
\* redeems nothing and forgets no revocation, keeps the budget.
LEMMA BudgetUnspent ==
  ASSUME TypeOK, TypeOK', BudgetKept, redisError' = redisError, redeemed' = redeemed,
         Revoked \subseteq Revoked',
         \A t \in TokenIds : Active(t)' \subseteq Active(t),
         \A r \in Reqs : req'[r].step = "refreshed" => req'[r].tok \in Revoked'
  PROVE  BudgetKept'
<1>1. CASE redisError'
  BY <1>1 DEF BudgetKept
<1>2. CASE ~redisError'
  <2>1. \A t \in TokenIds : redeemed'[t] + Cardinality(Active(t)') <= Cardinality(Reqs)
    <3> SUFFICES ASSUME NEW t \in TokenIds
                 PROVE  redeemed'[t] + Cardinality(Active(t)') <= Cardinality(Reqs)
      OBVIOUS
    <3>1. redeemed[t] + Cardinality(Active(t)) <= Cardinality(Reqs)
      BY <1>2 DEF BudgetKept
    <3>2. redeemed[t] \in Nat
      BY DEF TypeOK
    <3> QED
      BY <3>1, <3>2, ActiveShrinks, ActiveFinite
  <2> QED
    BY <1>2, <2>1 DEF BudgetKept
<1> QED
  BY <1>1, <1>2

\* Tokens that are issued are no reason for an old request to redeem more.
LEMMA NewTokensUnasked ==
  ASSUME TypeOK, LifetimesNested, IssueTokens \/ IssueAccess, now' = now,
         \A r \in Reqs : req'[r] = req[r] \/ req'[r].step = "idle"
  PROVE  \A t \in TokenIds : Active(t)' \subseteq Active(t)
<1> SUFFICES ASSUME NEW t \in TokenIds, NEW r \in Active(t)'
             PROVE  r \in Active(t)
  OBVIOUS
<1>1. r \in Reqs /\ req'[r] = req[r] /\ req[r].tok = t /\ req[r].step # "idle"
  BY DEF Active
<1>2. t \in Issued
  BY <1>1 DEF LifetimesNested
<1>3. Live(t)' => Live(t)
  BY <1>2, Issuing DEF Live
<1> QED
  BY <1>1, <1>3 DEF Active

LEMMA BudgetStep ==
  ASSUME TypeOK, TypeOK', LifetimesNested, BudgetKept, [Next]_vars
  PROVE  BudgetKept'
<1>1. CASE Login
  <2>1. \A t \in TokenIds : Active(t)' \subseteq Active(t)
    BY <1>1, NewTokensUnasked DEF Login
  <2>2. UNCHANGED <<req, Revoked, redeemed, redisError>>
    BY <1>1 DEF Login, history, Revoked
  <2>3. CASE redisError
    BY <2>2, <2>3 DEF BudgetKept
  <2>4. CASE ~redisError
    BY <2>1, <2>2, <2>4, BudgetUnspent DEF BudgetKept
  <2> QED
    BY <2>3, <2>4 DEF TypeOK
<1>2. ASSUME NEW t \in TokenIds, Logout(t) PROVE BudgetKept'
  <2>1. Revoked \subseteq Revoked'
    BY <1>2, AuthTokensAssumption DEF Logout, Blacklist, Revoked, TypeOK
  <2>2. UNCHANGED <<now, issued, tokens, req, redeemed, redisError>>
    BY <1>2 DEF Logout, history
  <2>3. \A u \in TokenIds : Active(u)' \subseteq Active(u)
    BY <2>2 DEF Active, Live, Issued
  <2>4. CASE redisError
    BY <2>2, <2>4 DEF BudgetKept
  <2>5. CASE ~redisError
    BY <2>1, <2>2, <2>3, <2>5, BudgetUnspent DEF BudgetKept
  <2> QED
    BY <2>4, <2>5 DEF TypeOK
<1>3. ASSUME NEW r \in Reqs, NEW t \in TokenIds, Check(r, t) PROVE BudgetKept'
  <2>1. CASE redisError'
    BY <2>1 DEF BudgetKept
  <2>2. CASE ~redisError'
    <3>1. ~Blacklisted(t) /\ ~redisError
      BY <1>3, <2>2 DEF Check
    <3>2. /\ UNCHANGED <<now, issued, tokens, blacklist, redeemed>>
          /\ req[r].step = "idle" /\ req'[r].step = "validate" /\ req'[r].tok = t
          /\ \A q \in Reqs : q # r => req'[q] = req[q]
      BY <1>3, Checking
    <3>3. UNCHANGED Revoked
      BY <3>2 DEF Revoked
    <3>4. \A u \in TokenIds : u # t \/ ~Live(t) => Active(u)' \subseteq Active(u)
      BY <3>2 DEF Active, Live, Issued
    <3>5. ASSUME NEW u \in TokenIds
          PROVE  redeemed'[u] + Cardinality(Active(u)') <= Cardinality(Reqs)
      <4>1. CASE u = t /\ Live(t)
        <5>1. t \notin Revoked
          BY <3>1, <4>1, NestedRevocation
        <5>2. redeemed'[u] = 0
          BY <3>1, <3>2, <4>1, <5>1 DEF BudgetKept, TypeOK
        <5>3. IsFiniteSet(Reqs) /\ Active(u)' \subseteq Reqs
          BY AuthTokensAssumption DEF Active
        <5>4. /\ Cardinality(Active(u)') \in Nat
              /\ Cardinality(Active(u)') <= Cardinality(Reqs)
          BY <5>3, FS_Subset, FS_CardinalityType
        <5> QED
          BY <5>2, <5>4
      <4>2. CASE u # t \/ ~Live(t)
        <5>1. redeemed[u] + Cardinality(Active(u)) <= Cardinality(Reqs) /\ redeemed[u] \in Nat
          BY <3>1 DEF BudgetKept, TypeOK
        <5>2. /\ Cardinality(Active(u)') \in Nat
              /\ Cardinality(Active(u)') <= Cardinality(Active(u))
          BY <3>4, <4>2, ActiveShrinks
        <5> QED
          BY <3>2, <5>1, <5>2, ActiveFinite
      <4> QED
        BY <4>1, <4>2
    <3> QED
      BY <2>2, <3>1, <3>2, <3>3, <3>5 DEF BudgetKept
  <2> QED
    BY <2>1, <2>2
<1>4. ASSUME NEW r \in Reqs, Validate(r) \/ Recover(r) PROVE BudgetKept'
  <2>1. UNCHANGED <<now, issued, tokens, Revoked, redeemed, redisError>>
    BY <1>4 DEF Validate, Recover, history, Revoked
  <2>2. Finish(r) \/ Goto(r, "panicked") \/ (Goto(r, "rotate") /\ At(r, "validate") /\ Live(req[r].tok))
    BY <1>4 DEF Validate, Recover, Bearer
  <2>3. /\ req'[r].step \in {"idle", "panicked", "rotate"}
        /\ req'[r].step = "rotate" =>
             req[r].step = "validate" /\ req'[r].tok = req[r].tok /\ Live(req[r].tok)
        /\ \A q \in Reqs : q # r => req'[q] = req[q]
    BY <2>2, Finishing, Going DEF Steps, At
  <2>4. \A u \in TokenIds : Active(u)' \subseteq Active(u)
    BY <2>1, <2>3 DEF Active, Live, Issued
  <2>5. CASE redisError
    BY <2>1, <2>5 DEF BudgetKept
  <2>6. CASE ~redisError
    BY <2>1, <2>3, <2>4, <2>6, BudgetUnspent DEF BudgetKept
  <2> QED
    BY <2>5, <2>6 DEF TypeOK
<1>5. ASSUME NEW r \in Reqs, Rotate(r) PROVE BudgetKept'
  <2> DEFINE t == req[r].tok
  <2>1. CASE redisError'
    BY <2>1 DEF BudgetKept
  <2>2. CASE ~redisError'
    <3>1. Blacklist(t) /\ redisError' = redisError /\ ~redisError
      BY <1>5, <2>2 DEF Rotate, TypeOK
    <3>2. t \in TokenIds
      BY <1>5, AuthTokensAssumption DEF Rotate, At, LifetimesNested, Issued, TokenIds, TypeOK
    <3>3. now + BlacklistTTL # 0
      BY AuthTokensAssumption DEF TypeOK
    <3>4. Revoked \subseteq Revoked' /\ t \in Revoked'
      BY <3>1, <3>2, <3>3 DEF Blacklist, Revoked, TypeOK
    <3>5. UNCHANGED <<now, issued, tokens, redeemed>>
      BY <1>5 DEF Rotate
    <3>6. /\ req[r].step = "rotate" /\ req'[r].step = "refreshed" /\ req'[r].tok = t
          /\ \A q \in Reqs : q # r => req'[q] = req[q]
      BY <1>5, Going DEF Rotate, Steps, At
    <3>7. \A u \in TokenIds : Active(u)' \subseteq Active(u)
      BY <3>5, <3>6 DEF Active, Live, Issued
    <3> QED
      BY <3>1, <3>4, <3>5, <3>6, <3>7, BudgetUnspent DEF BudgetKept
  <2> QED
    BY <2>1, <2>2
<1>6. ASSUME NEW r \in Reqs, Issue(r) PROVE BudgetKept'
  <2>1. CASE redisError'
    BY <2>1 DEF BudgetKept
  <2>2. CASE ~redisError'
    <3>1. /\ req[r].step = "refreshed" /\ req'[r].step = "idle"
          /\ \A q \in Reqs : q # r => req'[q] = req[q]
      BY <1>6, Finishing DEF Issue, At
    <3>2. PICK t \in TokenIds : t = req[r].tok
      <4>1. req[r].tok \in Issued
        BY <3>1 DEF LifetimesNested
      <4>2. Issued \subseteq TokenIds
        BY AuthTokensAssumption DEF Issued, TokenIds, TypeOK
      <4> QED
        BY <4>1, <4>2
    <3>3. ~redisError /\ UNCHANGED Revoked /\ t \in Revoked
      BY <1>6, <2>2, <3>1, <3>2 DEF Issue, Revoked, BudgetKept
    <3>4. /\ redeemed'[t] = redeemed[t] + 1
          /\ \A u \in TokenIds : u # t => redeemed'[u] = redeemed[u]
      BY <1>6, <3>2 DEF Issue, TypeOK
    <3>5. \A u \in TokenIds : Active(u)' \subseteq Active(u)
      BY <1>6, <3>1, NewTokensUnasked DEF Issue
    <3>6. /\ Cardinality(Active(t)') \in Nat
          /\ Cardinality(Active(t)') <= Cardinality(Active(t)) - 1
      <4>1. r \in Active(t) /\ r \notin Active(t)'
        BY <3>1, <3>2 DEF Active
      <4>2. Active(t)' \subseteq Active(t) \ {r}
        BY <3>2, <3>5, <4>1
      <4>3. /\ IsFiniteSet(Active(t) \ {r})
            /\ Cardinality(Active(t) \ {r}) = Cardinality(Active(t)) - 1
        BY <3>2, <4>1, ActiveFinite, FS_RemoveElement
      <4> QED
        BY <4>2, <4>3, FS_Subset, FS_CardinalityType
    <3>7. ASSUME NEW u \in TokenIds
          PROVE  redeemed'[u] + Cardinality(Active(u)') <= Cardinality(Reqs)
      <4>1. redeemed[u] + Cardinality(Active(u)) <= Cardinality(Reqs) /\ redeemed[u] \in Nat
        BY <3>3 DEF BudgetKept, TypeOK
      <4>2. CASE u = t
        BY <3>4, <3>6, <4>1, <4>2, ActiveFinite
      <4>3. CASE u # t
        <5>1. /\ Cardinality(Active(u)') \in Nat
              /\ Cardinality(Active(u)') <= Cardinality(Active(u))
          BY <3>5, ActiveShrinks
        <5> QED
          BY <3>4, <4>1, <4>3, <5>1, ActiveFinite
      <4> QED
        BY <4>2, <4>3
    <3>8. \A u \in TokenIds : redeemed'[u] > 0 => u \in Revoked'
      BY <3>3, <3>4 DEF BudgetKept
    <3>9. \A q \in Reqs : req'[q].step = "refreshed" => req'[q].tok \in Revoked'
      BY <3>1, <3>3 DEF BudgetKept
    <3> QED
      BY <3>7, <3>8, <3>9 DEF BudgetKept
  <2> QED
    BY <2>1, <2>2
<1>7. CASE Tick
  <2>1. UNCHANGED <<issued, tokens, req, Revoked, redeemed, redisError>> /\ now' = now + 1
    BY <1>7 DEF Tick, history, Revoked
  <2>2. \A u \in TokenIds : Live(u)' => Live(u)
    BY <2>1 DEF Live, Issued, TypeOK, Token
  <2>3. \A u \in TokenIds : Active(u)' \subseteq Active(u)
    BY <2>1, <2>2 DEF Active
  <2>4. CASE redisError
    BY <2>1, <2>4 DEF BudgetKept
  <2>5. CASE ~redisError
    BY <2>1, <2>3, <2>5, BudgetUnspent DEF BudgetKept
  <2> QED
    BY <2>4, <2>5 DEF TypeOK
<1>8. CASE UNCHANGED vars
  BY <1>8 DEF vars, history, BudgetKept, Active, Live, Issued, Revoked
<1> QED
  BY <1>1, <1>2, <1>3, <1>4, <1>5, <1>6, <1>7, <1>8 DEF Next

\* No token outlives an entry made now, and redemptions stay within their budget.
THEOREM Inductive == Spec => []IInv
<1>1. IInv /\ [Next]_vars => IInv'
  BY TypeStep, LifetimeStep, BudgetStep DEF IInv
<1> QED
  BY InitIInv, <1>1, PTL DEF Spec

\* The type invariant.
THEOREM TypeInvariant == Spec => []TypeOK
<1>1. IInv => TypeOK
  BY DEF IInv
<1> QED
  BY Inductive, <1>1, PTL

\* Whatever the lifetimes, as long as none exceeds the blacklist's, a token
\* that was revoked never becomes usable again.
THEOREM RevocationHolds == Spec => []RevocationOutlivesToken
<1>1. IInv => RevocationOutlivesToken
  BY NestedRevocation DEF IInv, RevocationOutlivesToken
<1> QED
  BY Inductive, <1>1, PTL

\* Any number of refresh requests racing between the blacklist check and the
\* blacklisting redeem a token at most once each.
THEOREM RedemptionIsBounded == Spec => []RedeemBudget
<1>1. IInv => RedeemBudget
  <2> SUFFICES ASSUME IInv, ~redisError, NEW t \in TokenIds
               PROVE  redeemed[t] <= Cardinality(Reqs)
    BY DEF RedeemBudget
  <2>1. redeemed[t] + Cardinality(Active(t)) <= Cardinality(Reqs) /\ redeemed[t] \in Nat
    BY DEF IInv, BudgetKept, TypeOK
  <2> QED
    BY <2>1, ActiveFinite
<1> QED
  BY Inductive, <1>1, PTL

\* A token that was redeemed stays revoked.
THEOREM RedeemedTokensAreRevoked == Spec => []RedeemedIsRevoked
<1>1. IInv => RedeemedIsRevoked
  BY DEF IInv, BudgetKept, RedeemedIsRevoked
<1> QED
  BY Inductive, <1>1, PTL
=============================================================================
