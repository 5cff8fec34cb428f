------------------------------- MODULE Policies -------------------------------
(***************************************************************************)
(* The table of policies under policy/service.go and policy/handler.go,    *)
(* and what the deletion of a host (host/service.go) does to it.  Every    *)
(* request is one statement; a statement that fails changes nothing and is *)
(* left out.  The decisions are those of PolicyRules.                      *)
(***************************************************************************)
EXTENDS PolicyRules, FiniteSets

CONSTANTS
  Users, Hosts, Hours, Exts, Sizes,  \* what is asked about
  Bodies,       \* the request bodies that decode
  Blank,        \* the zero Policy, which is what a body that does not decode gives
  NoRow,
  Times,        \* what the clocks of the servers read
  MaxPolicies   \* bound: policies ever created

\* The columns a request fills in.
Columns == {"scope", "id", "host", "clipboard", "upload", "white", "black", "max",
            "hours", "priority", "enabled"}

ASSUME PoliciesAssumption ==
  /\ MaxPolicies \in Nat /\ Times \subseteq Int
  /\ AnyHost \notin Hosts
  /\ \A body \in Bodies \cup {Blank} : DOMAIN body = Columns /\ body.priority \in Int

VARIABLES
  rows,   \* policies by number; NoRow before its creation and after its end
  made,   \* policies created so far
  hosts,  \* the rows of hosts
  busy    \* the hosts some row of sessions names

vars == <<rows, made, hosts, busy>>

Ids == 1..MaxPolicies
Live == {i \in Ids : rows[i] # NoRow}
Table == {rows[i] : i \in Live}

\* A body becomes a row with its creation time; sets come from the MC module.
Row(body, created) ==
  [scope |-> body.scope, id |-> body.id, host |-> body.host,
   clipboard |-> body.clipboard, upload |-> body.upload,
   white |-> body.white, black |-> body.black, max |-> body.max,
   hours |-> body.hours, priority |-> body.priority, enabled |-> body.enabled,
   created |-> created]

\* The foreign key of host_id.
HostKnown(body) == body.host \in hosts \cup {AnyHost}

Init ==
  /\ rows = [i \in Ids |-> NoRow]
  /\ made = 0
  /\ hosts = Hosts
  /\ busy = {}

\* What Create fills in, and Update does not.
Filled(body) ==
  [body EXCEPT !.clipboard = IF @ = "" THEN "both" ELSE @,
               !.max = IF @ = 0 THEN 100 ELSE @]

\* The time is read from the server's clock: it may be equal for two policies,
\* and earlier for the later one.
Create(body, now) ==
  /\ made < MaxPolicies /\ HostKnown(body)
  /\ made' = made + 1
  /\ rows' = [rows EXCEPT ![made + 1] = Row(Filled(body), now)]
  /\ UNCHANGED <<hosts, busy>>

\* Every column but id and created_at; a body that does not decode is not
\* noticed and writes the zero policy.
Update(i, body) ==
  /\ i \in Live /\ HostKnown(body)
  /\ rows' = [rows EXCEPT ![i] = Row(body, rows[i].created)]
  /\ UNCHANGED <<made, hosts, busy>>

Delete(i) ==
  /\ i \in Live
  /\ rows' = [rows EXCEPT ![i] = NoRow]
  /\ UNCHANGED <<made, hosts, busy>>

\* Mutant: ON DELETE SET NULL, as for credentials and groups.
DeleteHostKeeping(h) ==
  /\ h \in hosts \ busy
  /\ hosts' = hosts \ {h}
  /\ rows' = [i \in Ids |-> IF i \in Live /\ rows[i].host = h
                            THEN [rows[i] EXCEPT !.host = AnyHost] ELSE rows[i]]
  /\ UNCHANGED <<made, busy>>

\* The host's policies go with it (ON DELETE CASCADE); a session's row keeps
\* the host.
DeleteHost(h) ==
  /\ h \in hosts \ busy
  /\ hosts' = hosts \ {h}
  /\ rows' = [i \in Ids |-> IF i \in Live /\ rows[i].host = h THEN NoRow ELSE rows[i]]
  /\ UNCHANGED <<made, busy>>

\* SessionTokens makes a row on the host; rows of sessions are never deleted.
OpenSession(h) ==
  /\ h \in hosts
  /\ busy' = busy \cup {h}
  /\ UNCHANGED <<rows, made, hosts>>

Next ==
  \/ \E body \in Bodies, now \in Times : Create(body, now)
  \/ \E i \in Ids, body \in Bodies \cup {Blank} : Update(i, body)
  \/ \E i \in Ids : Delete(i)
  \/ \E h \in Hosts : DeleteHost(h) \/ OpenSession(h)

Spec == Init /\ [][Next]_vars

-----------------------------------------------------------------------------
\* The decisions about every user and hour on a host.
Decisions(host) ==
  [asking \in Users \X Hours |-> Evaluate(Table, asking[1], host, asking[2])]

Unaffected == \A h \in hosts' : Decisions(h)' = Decisions(h)

\* Deleting a host changes no decision about another one, and nothing at all
\* on a host with sessions (001_init_schema.up.sql:96, 130).
DeletionIsLocal ==
  [][hosts' # hosts => Unaffected]_vars

\* The policy created by this step changes nothing wherever an earlier one applies
\* whose number is not smaller.
NewcomerYields ==
  LET new == rows'[made']
  IN \A u \in Users, h \in hosts :
       (\E p \in Table :
          Applies(p, u, h) /\ p.priority >= new.priority /\ p.created < new.created)
         => \A t \in Hours : Evaluate(Table', u, h, t) = Evaluate(Table, u, h, t)

\* Numbers decide, then age, and the scope plays no part: a new policy, be it for
\* one user, decides nowhere until its number exceeds those of the older policies
\* that apply there (engine.go:131; engine.go:25 puts the scope first).
NewcomersYield ==
  [][made' # made => NewcomerYields]_vars

\* A user is refused on a host for the hours of an enabled policy that applies
\* there and whose number no other exceeds, and for nothing else: neither a
\* policy switched off nor one that is overruled refuses anybody (engine.go:48,
\* 126-131).
RefusedByHours ==
  \A u \in Users, h \in hosts, t \in Hours :
    (\E d \in Evaluate(Table, u, h, t) : ~d.session)
      => \E p \in Table :
           /\ p.enabled /\ Applies(p, u, h)
           /\ p.hours # Always /\ ~InHours(p.hours, t)
           /\ \A q \in Table : Applies(q, u, h) => q.priority <= p.priority

\* What the managers of a session let through, the engine allows: a manager
\* is never laxer than the policy it was made from (clipboard.go:18, 50).
ManagersNeverLaxer ==
  \A p \in Table :
    /\ \A e \in Exts, n \in Sizes :
         AllowUpload(p, e, n) => p.upload /\ CheckFileExtension(e, p.white, p.black)
    /\ \A d \in Directions : ClipboardAllow(p.clipboard, d) <=> CheckClipboard(p.clipboard, d)
=============================================================================
