---------------------------- MODULE RateLimiter ----------------------------
(***************************************************************************)
(* internal/middleware/ratelimit.go: the in-memory limiter every request   *)
(* passes.  Allow runs under a mutex and takes the clock inside it, so one *)
(* call is one step.  The slice kept for an address is a set here: the     *)
(* code filters and counts it and never looks at its order.                *)
(***************************************************************************)
EXTENDS Integers, FiniteSets

CONSTANTS Addrs, Limit, Window, MaxTime

ASSUME RateLimiterAssumption ==
  /\ Limit \in Nat \ {0}
  /\ Window \in Nat \ {0}
  /\ MaxTime \in Nat

VARIABLES
  now,       \* time.Now()
  requests,  \* l.requests: for each address the requests remembered
  served,    \* history: every request passed on to the next handler
  verdict    \* the last request and how it was answered

limiterVars == <<now, requests, served, verdict>>

Abstract == INSTANCE SlidingWindow

\* Mutant: not before the cutoff instead of after it.
RecentInclusive(S) == {e \in S : e.at >= now - Window}

\* The loop of lines 48-53: t.After(cutoff), with cutoff = now - window.
Recent(S) == {e \in S : e.at > now - Window}

LimiterInit ==
  /\ Abstract!Init
  /\ requests = [a \in Addrs |-> {}]

\* Mutants: one request too many; the cutoff is remembered for the request.
AllowOneMore(a) ==
  LET recent == Recent(requests[a])
      new == [n |-> Cardinality(served[a]), at |-> now]
  IN /\ Cardinality(recent) <= Limit
     /\ requests' = [requests EXCEPT ![a] = recent \cup {new}]
     /\ served' = [served EXCEPT ![a] = @ \cup {new}]
     /\ verdict' = [addr |-> a, ok |-> TRUE]
     /\ UNCHANGED now

\* Allow returns true: append, and the request goes on to the next handler.
Allow(a) ==
  LET recent == Recent(requests[a])
      new == [n |-> Cardinality(served[a]), at |-> now]
  IN /\ Cardinality(recent) < Limit
     /\ requests' = [requests EXCEPT ![a] = recent \cup {new}]
     /\ served' = [served EXCEPT ![a] = @ \cup {new}]
     /\ verdict' = [addr |-> a, ok |-> TRUE]
     /\ UNCHANGED now

\* Mutant: a refused request is remembered too.
RefuseRemembers(a) ==
  LET recent == Recent(requests[a])
  IN /\ Cardinality(recent) >= Limit
     /\ requests' = [requests EXCEPT
          ![a] = recent \cup {[n |-> Cardinality(served[a]), at |-> now]}]
     /\ verdict' = [addr |-> a, ok |-> FALSE]
     /\ UNCHANGED <<now, served>>

\* Allow returns false: the pruned slice is stored and 429 is answered.
Refuse(a) ==
  LET recent == Recent(requests[a])
  IN /\ Cardinality(recent) >= Limit
     /\ requests' = [requests EXCEPT ![a] = recent]
     /\ verdict' = [addr |-> a, ok |-> FALSE]
     /\ UNCHANGED <<now, served>>

Tick ==
  /\ now < MaxTime
  /\ now' = now + 1
  /\ UNCHANGED <<requests, served, verdict>>

LimiterNext == (\E a \in Addrs : Allow(a) \/ Refuse(a)) \/ Tick

LimiterSpec == LimiterInit /\ [][LimiterNext]_limiterVars

-----------------------------------------------------------------------------
\* The type of every variable.
LimiterTypeOK ==
  /\ now \in 0..MaxTime
  /\ requests \in [Addrs -> SUBSET Abstract!Request]
  /\ served \in [Addrs -> SUBSET Abstract!Request]
  /\ verdict \in [addr : Addrs \cup {"none"}, ok : BOOLEAN]

\* docs/compliance-mapping.md:65, 100 requests a minute: of the requests the
\* handlers behind the limiter see from one address, no window of any position
\* holds more than Limit.
WindowBound == Abstract!WindowBound

\* What is remembered for an address never grows past Limit entries, however
\* often it asks: a refused request leaves nothing behind (lines 55-57).
MemoryBound == \A a \in Addrs : Cardinality(requests[a]) <= Limit

\* Forgetting the old entries changes no answer: the limiter implements the
\* sliding window over the whole history.
Refinement == Abstract!Spec
=============================================================================
