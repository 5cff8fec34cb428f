---------------------------- MODULE OneTimeToken -----------------------------
(***************************************************************************)
(* What a token that is good for one use promises, whoever stores it: it   *)
(* is issued once, at most one request ever holds it, only the request     *)
(* that holds it can use it, and a token that has lapsed stays lapsed.     *)
(* MFASessions and SessionTokens implement this specification.             *)
(***************************************************************************)
EXTENDS Naturals

CONSTANT Tokens

VARIABLES
  status,  \* of each token
  uses     \* how often each token was used

States == {"fresh", "live", "held", "used", "gone"}

Init ==
  /\ status = [t \in Tokens |-> "fresh"]
  /\ uses = [t \in Tokens |-> 0]

Issue(t) ==
  /\ status[t] = "fresh"
  /\ status' = [status EXCEPT ![t] = "live"]
  /\ UNCHANGED uses

Hold(t) ==
  /\ status[t] = "live"
  /\ status' = [status EXCEPT ![t] = "held"]
  /\ UNCHANGED uses

Use(t) ==
  /\ status[t] = "held"
  /\ status' = [status EXCEPT ![t] = "used"]
  /\ uses' = [uses EXCEPT ![t] = @ + 1]

\* Time runs out on several tokens at once, and a crash drops what several
\* requests hold.
Lapse(T) ==
  /\ \A t \in T : status[t] \in {"live", "held"}
  /\ status' = [t \in Tokens |-> IF t \in T THEN "gone" ELSE status[t]]
  /\ UNCHANGED uses

Next ==
  \/ \E t \in Tokens : Issue(t) \/ Hold(t) \/ Use(t)
  \/ \E T \in SUBSET Tokens : Lapse(T)

vars == <<status, uses>>

Spec == Init /\ [][Next]_vars

-----------------------------------------------------------------------------
\* No token is used twice.
OneUse == \A t \in Tokens : uses[t] = (IF status[t] = "used" THEN 1 ELSE 0)
=============================================================================
