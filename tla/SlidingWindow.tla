--------------------------- MODULE SlidingWindow ---------------------------
(***************************************************************************)
(* What the rate limiter promises, with nothing forgotten: a request is    *)
(* served exactly when fewer than Limit requests of its address were       *)
(* served in the Window before it.                                         *)
(***************************************************************************)
EXTENDS Integers, FiniteSets

CONSTANTS
  Addrs,    \* the values of r.RemoteAddr, after chi's RealIP
  Limit,    \* 100, ratelimit.go:12
  Window,   \* one minute, ratelimit.go:12
  MaxTime   \* bound: the clock stops here

VARIABLES
  now,      \* time.Now()
  served,   \* the requests served, each with its serial number and time
  verdict   \* the last request and how it was answered

\* A served request.  The number tells apart requests of one instant.
Request == [n : Nat, at : Nat]

\* The requests of S in the half-open window (t - Window, t].
InWindow(S, t) == {e \in S : t - Window < e.at /\ e.at <= t}

NoVerdict == [addr |-> "none", ok |-> TRUE]

Init ==
  /\ now = 0
  /\ served = [a \in Addrs |-> {}]
  /\ verdict = NoVerdict

Serve(a) ==
  /\ Cardinality(InWindow(served[a], now)) < Limit
  /\ served' = [served EXCEPT ![a] = @ \cup {[n |-> Cardinality(@), at |-> now]}]
  /\ verdict' = [addr |-> a, ok |-> TRUE]
  /\ UNCHANGED now

Refuse(a) ==
  /\ Cardinality(InWindow(served[a], now)) >= Limit
  /\ verdict' = [addr |-> a, ok |-> FALSE]
  /\ UNCHANGED <<now, served>>

Tick ==
  /\ now < MaxTime
  /\ now' = now + 1
  /\ UNCHANGED <<served, verdict>>

Next == (\E a \in Addrs : Serve(a) \/ Refuse(a)) \/ Tick

vars == <<now, served, verdict>>

Spec == Init /\ [][Next]_vars

-----------------------------------------------------------------------------
\* No interval of length Window, wherever it starts, holds more than Limit
\* served requests of one address.
WindowBound ==
  \A a \in Addrs : \A t \in 0..MaxTime : Cardinality(InWindow(served[a], t)) <= Limit
=============================================================================
