---------------------------- MODULE SessionTokens ----------------------------
(***************************************************************************)
(* internal/session: POST /sessions stores a WebSocket token in Redis and  *)
(* then a row in PostgreSQL; the WebSocket handler trades the token for    *)
(* the session; DELETE /sessions/{id} closes the row.  Hosts are deleted   *)
(* beside them.                                                            *)
(*                                                                         *)
(* A session is named by the one CreateSession call that makes it, and its *)
(* token by the same name: both are fresh random numbers of that call.     *)
(* Every call to a store may fail, an INSERT may be committed and its      *)
(* answer lost (the request's context is cancelled), and the server may    *)
(* stop between any two calls.                                             *)
(***************************************************************************)
EXTENDS FiniteSets, Naturals

CONSTANTS
  Sessions,  \* the calls of CreateSession
  Conns,     \* the WebSocket requests in flight at one time
  Hosts      \* the rows of hosts

VARIABLES
  step,    \* where each CreateSession call is
  host,    \* the host each call names, chosen at the call
  keys,    \* Redis: the sessions whose ws_session:<hash> key exists
  row,     \* sessions.status of each session's row, "none" without a row
  hosts,   \* the hosts whose row exists
  conn,    \* each WebSocket request: its step and the token it carries
  issued,  \* history: the sessions whose token was ever stored
  torn     \* history: the calls cut off between their two stores

vars == <<step, host, keys, row, hosts, conn, issued, torn>>

Steps == {"idle", "store", "insert", "undo", "answered", "refused", "dead"}
InFlight == {"store", "insert", "undo"}
Idle == [step |-> "idle", token |-> "none"]

\* Nobody but the client that got the answer knows the token or the id.
Known(s) == step[s] = "answered"

Goto(s, next) == step' = [step EXCEPT ![s] = next]

Init ==
  /\ step = [s \in Sessions |-> "idle"]
  /\ host \in [Sessions -> Hosts]
  /\ keys = {}
  /\ row = [s \in Sessions |-> "none"]
  /\ hosts = Hosts
  /\ conn = [c \in Conns |-> Idle]
  /\ issued = {}
  /\ torn = {}

-----------------------------------------------------------------------------
\* The handler up to the call of the manager; the host comes from the body.
CreateSession(s) ==
  /\ step[s] = "idle"
  /\ Goto(s, "store")
  /\ UNCHANGED <<host, keys, row, hosts, conn, issued, torn>>

\* SET with a lifetime of five minutes.  An error of SET, whether or not the
\* key was stored, ends the call.
StoreToken(s) ==
  /\ step[s] = "store"
  /\ \/ /\ keys' = keys \cup {s} /\ issued' = issued \cup {s}
        /\ \/ Goto(s, "insert") /\ UNCHANGED torn
           \/ Goto(s, "refused") /\ torn' = torn \cup {s}
     \/ Goto(s, "refused") /\ UNCHANGED <<keys, issued, torn>>
  /\ UNCHANGED <<host, row, hosts, conn>>

\* Mutant: the foreign key is not there.
InsertUnchecked(s) ==
  /\ step[s] = "insert"
  /\ \/ row' = [row EXCEPT ![s] = "active"] /\ Goto(s, "answered") /\ UNCHANGED torn
     \/ row' = [row EXCEPT ![s] = "active"] /\ Goto(s, "undo") /\ torn' = torn \cup {s}
     \/ Goto(s, "undo") /\ UNCHANGED <<row, torn>>
  /\ UNCHANGED <<host, keys, hosts, conn, issued>>

\* The INSERT; host_id must name a row of hosts.  Committed and answered,
\* committed with the answer lost, or failed.
InsertRow(s) ==
  /\ step[s] = "insert"
  /\ \/ /\ host[s] \in hosts
        /\ row' = [row EXCEPT ![s] = "active"]
        /\ \/ Goto(s, "answered") /\ UNCHANGED torn
           \/ Goto(s, "undo") /\ torn' = torn \cup {s}
     \/ Goto(s, "undo") /\ UNCHANGED <<row, torn>>
  /\ UNCHANGED <<host, keys, hosts, conn, issued>>

\* Mutant: the token is left where it is.
KeepToken(s) ==
  /\ step[s] = "undo"
  /\ Goto(s, "refused")
  /\ UNCHANGED <<host, keys, row, hosts, conn, issued, torn>>

\* DEL, whose error is not looked at; under a cancelled context it fails.
UndoToken(s) ==
  /\ step[s] = "undo"
  /\ \/ keys' = keys \ {s} /\ UNCHANGED torn
     \/ torn' = torn \cup {s} /\ UNCHANGED keys
  /\ Goto(s, "refused")
  /\ UNCHANGED <<host, row, hosts, conn, issued>>

-----------------------------------------------------------------------------
\* GET /ws/session/{id}?token=.  The id of the path is not compared with the
\* token's session, so it plays no part.
Connect(c, s) ==
  /\ conn[c] = Idle /\ Known(s)
  /\ conn' = [conn EXCEPT ![c] = [step |-> "getdel", token |-> s]]
  /\ UNCHANGED <<step, host, keys, row, hosts, issued, torn>>

\* Mutant: GET without DEL.
TakeByGet(c) ==
  /\ conn[c].step = "getdel"
  /\ \/ conn[c].token \in keys /\ conn' = [conn EXCEPT ![c].step = "scan"]
     \/ conn' = [conn EXCEPT ![c] = Idle]
  /\ UNCHANGED <<step, host, keys, row, hosts, issued, torn>>

\* GETDEL: the value, nothing, or an error after which the key may be gone.
TakeToken(c) ==
  /\ conn[c].step = "getdel"
  /\ keys' \in {keys, keys \ {conn[c].token}}
  /\ \/ /\ conn[c].token \in keys \ keys'
        /\ conn' = [conn EXCEPT ![c].step = "scan"]
     \/ conn' = [conn EXCEPT ![c] = Idle]
  /\ UNCHANGED <<step, host, row, hosts, issued, torn>>

\* Sscanf with "%36[^:]:": fmt knows no conversion "[" and reports a bad verb
\* whatever the value is, so the request is refused.
ScanValue(c) ==
  /\ conn[c].step = "scan"
  /\ conn' = [conn EXCEPT ![c] = Idle]
  /\ UNCHANGED <<step, host, keys, row, hosts, issued, torn>>

-----------------------------------------------------------------------------
\* EndSession sets the status whatever it was; its error is dropped.
\* TerminateSession, which nothing calls, does the same with another status.
CloseRow(s, status) ==
  /\ Known(s)
  /\ row' = [row EXCEPT ![s] = status]
  /\ UNCHANGED <<step, host, keys, hosts, conn, issued, torn>>

EndSession(s) == CloseRow(s, "ended")
TerminateSession(s) == CloseRow(s, "terminated")

\* Mutant: a foreign key that lets the host go.
DeleteHostAnyway(h) ==
  /\ h \in hosts
  /\ hosts' = hosts \ {h}
  /\ UNCHANGED <<step, host, keys, row, conn, issued, torn>>

\* DELETE FROM hosts: refused while a session's row names the host.
DeleteHost(h) ==
  /\ h \in hosts
  /\ \A s \in Sessions : host[s] = h => row[s] = "none"
  /\ hosts' = hosts \ {h}
  /\ UNCHANGED <<step, host, keys, row, conn, issued, torn>>

\* Five minutes after the SET Redis removes the key.
Expire(s) ==
  /\ s \in keys
  /\ keys' = keys \ {s}
  /\ UNCHANGED <<step, host, row, hosts, conn, issued, torn>>

\* The server stops; the stores keep what they have.
Crash ==
  /\ (\E s \in Sessions : step[s] \in InFlight) \/ (\E c \in Conns : conn[c] # Idle)
  /\ step' = [s \in Sessions |-> IF step[s] \in InFlight THEN "dead" ELSE step[s]]
  /\ torn' = torn \cup {s \in Sessions : step[s] \in InFlight}
  /\ conn' = [c \in Conns |-> Idle]
  /\ UNCHANGED <<host, keys, row, hosts, issued>>

Next ==
  \/ \E s \in Sessions : \/ CreateSession(s) \/ StoreToken(s) \/ InsertRow(s)
                         \/ UndoToken(s) \/ EndSession(s) \/ TerminateSession(s)
                         \/ Expire(s)
  \/ \E c \in Conns, s \in Sessions : Connect(c, s)
  \/ \E c \in Conns : TakeToken(c) \/ ScanValue(c)
  \/ \E h \in Hosts : DeleteHost(h)
  \/ Crash

Spec == Init /\ [][Next]_vars

-----------------------------------------------------------------------------
\* The type of every variable.
TypeOK ==
  /\ step \in [Sessions -> Steps]
  /\ host \in [Sessions -> Hosts]
  /\ keys \subseteq Sessions
  /\ row \in [Sessions -> {"none", "active", "ended", "terminated"}]
  /\ hosts \subseteq Hosts
  /\ conn \in [Conns -> [step : {"idle", "getdel", "scan"}, token : Sessions \cup {"none"}]]
  /\ issued \subseteq Sessions
  /\ torn \subseteq Sessions

Holds(c, s) == conn[c].step = "scan" /\ conn[c].token = s

Held(s) == \E c \in Conns : Holds(c, s)

\* Where a token is in the terms of OneTimeToken.
Status(s) ==
  IF Held(s) THEN "held"
  ELSE IF s \in keys THEN "live"
  ELSE IF s \in issued THEN "gone"
  ELSE "fresh"

OneTime == INSTANCE OneTimeToken WITH
  Tokens <- Sessions,
  status <- [s \in Sessions |-> Status(s)],
  uses <- [s \in Sessions |-> 0]

\* However many connections present one WebSocket token, at most one gets its
\* value, and a token taken, undone or expired never comes back
\* (manager.go:40, 56, 82).
TokenOnce == OneTime!Spec

\* A client that was given a token can find its session and the session's
\* host: the token comes first, but the answer waits for the row, and no host
\* is deleted under a session (manager.go:40-59, host/service.go:174).
AnsweredIsWhole ==
  \A s \in Sessions :
    step[s] = "answered" => row[s] # "none" /\ host[s] \in hosts

\* A token without a row, or a row nobody was told of, is of a call still
\* under way or of one that a crash, a lost answer or a failed DEL cut off
\* (manager.go:56).
HalvesAccounted ==
  \A s \in Sessions :
    (s \in keys /\ row[s] = "none") \/ (row[s] # "none" /\ step[s] # "answered")
      => step[s] \in InFlight \/ s \in torn
=============================================================================
