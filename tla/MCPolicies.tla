----------------------------- MODULE MCPolicies ------------------------------
(* Bodies for model checking Policies: policies of every scope, with and     *)
(* without a host, a time range by day and one over midnight, lists and      *)
(* numbers that agree and disagree with the scopes.                          *)
EXTENDS Policies

CONSTANTS alice, bob, ops, h1, h2, none

MCMembers == {<<alice, ops>>}

Range(s, e) == [start |-> s, end |-> e]

MCBlank ==
  [scope |-> "", id |-> none, host |-> AnyHost, clipboard |-> "", upload |-> FALSE,
   white |-> {}, black |-> {}, max |-> 0, hours |-> Always, priority |-> 0,
   enabled |-> FALSE]

Global == [MCBlank EXCEPT !.scope = "global", !.upload = TRUE, !.enabled = TRUE]

MCBodies ==
  { Global,
    [Global EXCEPT !.host = h1, !.hours = Range(2, 1), !.priority = 1],
    [Global EXCEPT !.black = {"exe"}, !.white = {"exe", "txt"}, !.clipboard = "guest_to_host"],
    [Global EXCEPT !.hours = Range(0, 1), !.enabled = FALSE, !.priority = 2],
    [Global EXCEPT !.scope = "user", !.id = alice, !.clipboard = "disabled", !.priority = 2],
    [Global EXCEPT !.scope = "user", !.id = bob, !.upload = FALSE],
    [Global EXCEPT !.scope = "group", !.id = ops, !.host = h2, !.max = 1, !.priority = 1] }
=============================================================================
