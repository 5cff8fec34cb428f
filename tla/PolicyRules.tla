----------------------------- MODULE PolicyRules ------------------------------
(***************************************************************************)
(* The rules of access as functions: which policy decides about a user on  *)
(* a host (policy/engine.go), and what the managers of a relayed session   *)
(* let through (relay/clipboard.go).  An extension stands for itself and   *)
(* its other spellings, a size for a number of megabytes, an hour for a    *)
(* time of the day.                                                        *)
(***************************************************************************)
EXTENDS Integers

CONSTANTS
  Members,  \* user_group_members: pairs of a user and a group
  AnyHost,  \* a policy's host_id when it is NULL
  Always    \* allowed_time_range when it is NULL, empty or does not parse

Directions == {"host_to_guest", "guest_to_host"}

\* isTimeAllowed: a range that runs over midnight holds no hour.
InHours(range, hour) ==
  range = Always \/ (range.start <= hour /\ hour < range.end)

\* Mutant: disabled policies are found too.
AppliesDisabled(p, user, host) ==
  /\ p.host \in {AnyHost, host}
  /\ \/ p.scope = "global"
     \/ p.scope = "user" /\ p.id = user
     \/ p.scope = "group" /\ <<user, p.id>> \in Members

\* The WHERE of findPolicies.
Applies(p, user, host) ==
  /\ p.enabled
  /\ p.host \in {AnyHost, host}
  /\ \/ p.scope = "global"
     \/ p.scope = "user" /\ p.id = user
     \/ p.scope = "group" /\ <<user, p.id>> \in Members

\* Mutant: of equal numbers the newest comes first.
PrecedesByNewest(p, q) ==
  p.priority > q.priority \/ (p.priority = q.priority /\ p.created > q.created)

\* Its ORDER BY.
Precedes(p, q) ==
  p.priority > q.priority \/ (p.priority = q.priority /\ p.created < q.created)

\* findPolicies, with LIMIT 1: it returns one of these.  They are several when
\* number and creation time are equal, and the database may take any.
FindPolicies(policies, user, host) ==
  LET found == {p \in policies : Applies(p, user, host)}
  IN {p \in found : \A q \in found : ~Precedes(q, p)}

DefaultDecision ==
  [session |-> TRUE, clipboard |-> "both", upload |-> TRUE, max |-> 100]

Decision(p, hour) ==
  IF InHours(p.hours, hour)
  THEN [session |-> p.enabled, clipboard |-> p.clipboard, upload |-> p.upload, max |-> p.max]
  ELSE [DefaultDecision EXCEPT !.session = FALSE]

\* The decisions Evaluate may return: that of a policy findPolicies may find, and
\* the default, when there is none and when the query fails, as line 30 drops
\* its error.
Evaluate(policies, user, host, hour) ==
  {DefaultDecision} \cup {Decision(p, hour) : p \in FindPolicies(policies, user, host)}

-----------------------------------------------------------------------------
CheckClipboard(mode, direction) ==
  mode = "both" \/ (mode \in Directions /\ mode = direction)

CheckFileExtension(ext, white, black) ==
  ext \notin black /\ (white # {} => ext \in white)

\* ClipboardManager.Allow.
ClipboardAllow(mode, direction) ==
  CASE mode = "both" -> TRUE
    [] mode = "host_to_guest" -> direction = "host_to_guest"
    [] mode = "guest_to_host" -> direction = "guest_to_host"
    [] OTHER -> FALSE

\* Mutants: a match of the whitelist ends the checks; the blacklist only
\* counts without a whitelist.
CheckFileByWhite(p, ext, size) ==
  ext \in p.white \/ (ext \notin p.black /\ p.white = {} /\ (p.max > 0 => size <= p.max))

\* checkFile: the break of line 59 leaves the loop, not the branch, so every
\* whitelist refuses every file.
CheckFile(p, ext, size) ==
  /\ ext \notin p.black
  /\ p.white = {}
  /\ p.max > 0 => size <= p.max

AllowUpload(p, ext, size) == p.upload /\ CheckFile(p, ext, size)
=============================================================================
