------------------------- MODULE SessionTokensProofs -------------------------
(***************************************************************************)
(* The safety of SessionTokens for every number of sessions, connections   *)
(* and hosts, and that its tokens are one-time tokens.                     *)
(***************************************************************************)
EXTENDS SessionTokens, TLAPS

\* A call before its SET has left nothing; before the answer of its INSERT it
\* has no row; a row made by a call that then undoes its token is torn.
CallInOrder ==
  \A s \in Sessions :
    /\ step[s] \in {"idle", "store"} => s \notin issued /\ row[s] = "none"
    /\ step[s] = "insert" => row[s] = "none"
    /\ step[s] = "undo" /\ row[s] # "none" => s \in torn
    /\ step[s] = "dead" => s \in torn
    /\ step[s] = "answered" => row[s] # "none"

\* A session's row keeps its host.
RowHasHost == \A s \in Sessions : row[s] # "none" => host[s] \in hosts

\* A token is in Redis or with at most one connection.
TokenInOnePlace ==
  /\ keys \subseteq issued
  /\ \A c \in Conns : conn[c].step = "scan" => conn[c].token \in issued \ keys
  /\ \A c, d \in Conns :
       conn[c].step = "scan" /\ conn[d].step = "scan" /\ c # d
         => conn[c].token # conn[d].token

IInv == TypeOK /\ CallInOrder /\ RowHasHost /\ TokenInOnePlace /\ HalvesAccounted

LEMMA InitIInv == Init => IInv
BY DEF Init, IInv, TypeOK, CallInOrder, RowHasHost, TokenInOnePlace,
       HalvesAccounted, Idle, Steps

\* The calls that make, close and lose a session leave the connections alone.
LEMMA SessionStep ==
  ASSUME IInv, NEW s \in Sessions,
         \/ CreateSession(s) \/ StoreToken(s) \/ InsertRow(s) \/ UndoToken(s)
         \/ EndSession(s) \/ TerminateSession(s) \/ Expire(s)
  PROVE  IInv'
<1> USE DEF IInv, TypeOK, CallInOrder, RowHasHost, TokenInOnePlace,
            HalvesAccounted, Goto, Steps, InFlight
<1>1. CASE CreateSession(s)
  BY <1>1 DEF CreateSession
<1>2. CASE StoreToken(s)
  BY <1>2 DEF StoreToken
<1>3. CASE InsertRow(s)
  BY <1>3 DEF InsertRow
<1>4. CASE UndoToken(s)
  BY <1>4 DEF UndoToken
<1>5. CASE EndSession(s) \/ TerminateSession(s)
  BY <1>5 DEF EndSession, TerminateSession, CloseRow, Known
<1>6. CASE Expire(s)
  BY <1>6 DEF Expire
<1> QED
  BY <1>1, <1>2, <1>3, <1>4, <1>5, <1>6

LEMMA ConnStep ==
  ASSUME IInv, NEW c \in Conns,
         \/ \E s \in Sessions : Connect(c, s)
         \/ TakeToken(c) \/ ScanValue(c)
  PROVE  IInv'
<1> USE DEF IInv, TypeOK, CallInOrder, RowHasHost, TokenInOnePlace,
            HalvesAccounted, Idle
<1>1. ASSUME NEW s \in Sessions, Connect(c, s) PROVE IInv'
  BY <1>1 DEF Connect
<1>2. CASE TakeToken(c)
  BY <1>2 DEF TakeToken
<1>3. CASE ScanValue(c)
  BY <1>3 DEF ScanValue
<1> QED
  BY <1>1, <1>2, <1>3

LEMMA StepIInv == IInv /\ [Next]_vars => IInv'
<1> SUFFICES ASSUME IInv, [Next]_vars PROVE IInv'
  OBVIOUS
<1> USE DEF IInv, TypeOK, CallInOrder, RowHasHost, TokenInOnePlace, HalvesAccounted
<1>1. ASSUME NEW h \in Hosts, DeleteHost(h) PROVE IInv'
  BY <1>1 DEF DeleteHost
<1>2. CASE Crash
  BY <1>2 DEF Crash, Idle, Steps, InFlight
<1>3. CASE UNCHANGED vars
  BY <1>3 DEF vars
<1> QED
  BY <1>1, <1>2, <1>3, SessionStep, ConnStep DEF Next

\* The type of every variable holds in every reachable state.
THEOREM Typed == Spec => []TypeOK
<1>1. IInv => TypeOK
  BY DEF IInv
<1> QED
  BY <1>1, InitIInv, StepIInv, PTL DEF Spec

\* Whoever holds a token finds its session and its host, whatever crashes,
\* failures and deletions happened on the way (manager.go:40-59).
THEOREM Whole == Spec => []AnsweredIsWhole
<1>1. IInv => AnsweredIsWhole
  BY DEF IInv, CallInOrder, RowHasHost, AnsweredIsWhole
<1> QED
  BY <1>1, InitIInv, StepIInv, PTL DEF Spec

\* A token without a row, or a row nobody was told of, has a crash, a lost
\* answer or a failed DEL behind it (manager.go:56).
THEOREM Accounted == Spec => []HalvesAccounted
<1>1. IInv => HalvesAccounted
  BY DEF IInv
<1> QED
  BY <1>1, InitIInv, StepIInv, PTL DEF Spec

-----------------------------------------------------------------------------
\* Where a token is, read off the state.
LEMMA StatusValues ==
  ASSUME IInv, NEW s \in Sessions
  PROVE  /\ Held(s) => s \in issued \ keys
         /\ Status(s) = "held" <=> Held(s)
         /\ Status(s) = "live" <=> s \in keys
         /\ Status(s) = "gone" <=> s \in issued \ keys /\ ~Held(s)
         /\ Status(s) = "fresh" <=> s \notin issued
BY DEF IInv, TokenInOnePlace, Held, Holds, Status

\* A step that moves no token leaves every status alone.
LEMMA NoTokenMoves ==
  ASSUME UNCHANGED <<keys, issued>>,
         \A c \in Conns, s \in Sessions : Holds(c, s)' <=> Holds(c, s)
  PROVE  UNCHANGED OneTime!vars
<1>1. \A s \in Sessions : Status(s)' = Status(s)
  BY DEF Status, Held
<1> QED
  BY <1>1 DEF OneTime!vars

\* A step after which the tokens of T, live or held before, are nowhere, and
\* that leaves the others alone.
LEMMA TokensLost ==
  ASSUME IInv, IInv', issued' = issued, NEW T \in SUBSET Sessions,
         \A s \in T : s \in keys \/ Held(s),
         \A s \in T : s \notin keys' /\ ~Held(s)',
         \A s \in Sessions \ T : (s \in keys' <=> s \in keys) /\ (Held(s)' <=> Held(s))
  PROVE  OneTime!Lapse(T)
<1>1. \A s \in T : Status(s) \in {"live", "held"}
  BY StatusValues
<1>2. \A s \in T : Status(s)' = "gone"
  <2>1. \A s \in T : s \in issued
    BY StatusValues DEF IInv, TokenInOnePlace
  <2> QED
    BY <2>1 DEF Status
<1>3. \A s \in Sessions \ T : Status(s)' = Status(s)
  BY DEF Status
<1> QED
  BY <1>1, <1>2, <1>3 DEF OneTime!Lapse

LEMMA InitRefines == Init => OneTime!Init
BY DEF Init, OneTime!Init, Status, Held, Holds, Idle

LEMMA StoreRefines ==
  ASSUME IInv, IInv', NEW s \in Sessions, StoreToken(s)
  PROVE  OneTime!Next \/ UNCHANGED OneTime!vars
<1>1. CASE UNCHANGED <<keys, issued>>
  BY <1>1, NoTokenMoves DEF StoreToken, Holds
<1>2. CASE keys' = keys \cup {s} /\ issued' = issued \cup {s}
  <2>1. Status(s) = "fresh"
    BY StatusValues DEF StoreToken, IInv, CallInOrder
  <2>2. Status(s)' = "live"
    BY <1>2, <2>1, StatusValues DEF StoreToken, Status, Held, Holds
  <2>3. \A t \in Sessions \ {s} : Status(t)' = Status(t)
    BY <1>2 DEF StoreToken, Status, Held, Holds
  <2>4. OneTime!Issue(s)
    BY <2>1, <2>2, <2>3 DEF OneTime!Issue
  <2> QED
    BY <2>4 DEF OneTime!Next
<1> QED
  BY <1>1, <1>2 DEF StoreToken

\* The token leaves Redis and nobody has it.
LEMMA RemoveRefines ==
  ASSUME IInv, IInv', NEW s \in Sessions, keys' \in {keys, keys \ {s}},
         issued' = issued,
         \A c \in Conns, t \in Sessions : Holds(c, t)' <=> Holds(c, t)
  PROVE  OneTime!Next \/ UNCHANGED OneTime!vars
<1>1. CASE keys' = keys
  BY <1>1, NoTokenMoves
<1>2. CASE s \in keys /\ keys' = keys \ {s}
  <2>1. ~Held(s) /\ \A t \in Sessions : Held(t)' <=> Held(t)
    BY <1>2, StatusValues DEF Held
  <2>2. OneTime!Lapse({s})
    BY <1>2, <2>1, TokensLost
  <2> QED
    BY <2>2 DEF OneTime!Next
<1> QED
  BY <1>1, <1>2

LEMMA TakeRefines ==
  ASSUME IInv, IInv', NEW c \in Conns, TakeToken(c)
  PROVE  OneTime!Next \/ UNCHANGED OneTime!vars
<1>0. conn \in [Conns -> [step : {"idle", "getdel", "scan"}, token : Sessions \cup {"none"}]]
      /\ keys \subseteq Sessions
  BY DEF IInv, TypeOK
<1>1. CASE conn' = [conn EXCEPT ![c] = Idle]
  <2>1. \A d \in Conns, s \in Sessions : Holds(d, s)' <=> Holds(d, s)
    BY <1>0, <1>1 DEF TakeToken, Holds, Idle
  <2>2. CASE conn[c].token \in keys
    <3>1. PICK t \in Sessions : t = conn[c].token
      BY <1>0, <2>2
    <3> QED
      BY <2>1, <3>1, RemoveRefines DEF TakeToken
  <2>3. CASE conn[c].token \notin keys
    BY <2>1, <2>3, NoTokenMoves DEF TakeToken
  <2> QED
    BY <2>2, <2>3
<1>2. CASE conn[c].token \in keys \ keys' /\ conn' = [conn EXCEPT ![c].step = "scan"]
  <2>1. PICK t \in Sessions : t = conn[c].token /\ t \in keys
    BY <1>0, <1>2
  <2>2. keys' = keys \ {t} /\ issued' = issued
    BY <1>2, <2>1 DEF TakeToken
  <2>3. Status(t) = "live"
    BY <2>1, StatusValues
  <2>4. Held(t)'
    BY <1>0, <1>2, <2>1 DEF Held, Holds
  <2>5. Status(t)' = "held"
    BY <2>4 DEF Status
  <2>6. \A s \in Sessions \ {t} : Held(s)' <=> Held(s)
    BY <1>0, <1>2, <2>1 DEF TakeToken, Held, Holds
  <2>7. \A s \in Sessions \ {t} : Status(s)' = Status(s)
    BY <2>2, <2>6 DEF Status
  <2>8. OneTime!Hold(t)
    BY <2>3, <2>5, <2>7 DEF OneTime!Hold
  <2> QED
    BY <2>8 DEF OneTime!Next
<1> QED
  BY <1>1, <1>2 DEF TakeToken

LEMMA ScanRefines ==
  ASSUME IInv, IInv', NEW c \in Conns, ScanValue(c)
  PROVE  OneTime!Next \/ UNCHANGED OneTime!vars
<1>0. conn \in [Conns -> [step : {"idle", "getdel", "scan"}, token : Sessions \cup {"none"}]]
  BY DEF IInv, TypeOK
<1>1. PICK t \in Sessions : t = conn[c].token /\ t \in issued \ keys
  BY DEF ScanValue, IInv, TypeOK, TokenInOnePlace
<1>2. Held(t)
  BY <1>1 DEF ScanValue, Held, Holds
<1>3. ~Held(t)'
  BY <1>0, <1>1 DEF ScanValue, IInv, TokenInOnePlace, Held, Holds, Idle
<1>4. \A s \in Sessions \ {t} : Held(s)' <=> Held(s)
  BY <1>0, <1>1 DEF ScanValue, Held, Holds, Idle
<1>5. OneTime!Lapse({t})
  BY <1>1, <1>2, <1>3, <1>4, TokensLost DEF ScanValue
<1> QED
  BY <1>5 DEF OneTime!Next

LEMMA CrashRefines ==
  ASSUME IInv, IInv', Crash
  PROVE  OneTime!Next
<1> DEFINE T == {s \in Sessions : Held(s)}
<1>1. \A s \in Sessions : ~Held(s)'
  BY DEF Crash, Held, Holds, Idle
<1>2. \A s \in T : s \notin keys'
  BY StatusValues DEF Crash
<1>3. OneTime!Lapse(T)
  BY <1>1, <1>2, TokensLost DEF Crash
<1> QED
  BY <1>3 DEF OneTime!Next

LEMMA StepRefines ==
  ASSUME IInv, IInv', [Next]_vars
  PROVE  [OneTime!Next]_(OneTime!vars)
<1>1. ASSUME NEW s \in Sessions, CreateSession(s) \/ InsertRow(s)
             \/ EndSession(s) \/ TerminateSession(s)
      PROVE  UNCHANGED OneTime!vars
  BY <1>1, NoTokenMoves
     DEF CreateSession, InsertRow, EndSession, TerminateSession, CloseRow, Holds
<1>2. ASSUME NEW s \in Sessions, StoreToken(s)
      PROVE  OneTime!Next \/ UNCHANGED OneTime!vars
  BY <1>2, StoreRefines
<1>3. ASSUME NEW s \in Sessions, UndoToken(s) \/ Expire(s)
      PROVE  OneTime!Next \/ UNCHANGED OneTime!vars
  <2>1. /\ keys' \in {keys, keys \ {s}} /\ issued' = issued
        /\ \A c \in Conns, t \in Sessions : Holds(c, t)' <=> Holds(c, t)
    BY <1>3 DEF UndoToken, Expire, Holds
  <2> QED
    BY <2>1, RemoveRefines
<1>4. ASSUME NEW c \in Conns, NEW s \in Sessions, Connect(c, s)
      PROVE  UNCHANGED OneTime!vars
  <2>1. \A d \in Conns, t \in Sessions : Holds(d, t)' <=> Holds(d, t)
    BY <1>4 DEF Connect, Holds, Idle, IInv, TypeOK
  <2> QED
    BY <1>4, <2>1, NoTokenMoves DEF Connect
<1>5. ASSUME NEW h \in Hosts, DeleteHost(h)
      PROVE  UNCHANGED OneTime!vars
  BY <1>5, NoTokenMoves DEF DeleteHost, Holds
<1>6. CASE UNCHANGED vars
  BY <1>6, NoTokenMoves DEF vars, Holds
<1> QED
  BY <1>1, <1>2, <1>3, <1>4, <1>5, <1>6, TakeRefines, ScanRefines, CrashRefines
     DEF Next

\* SessionTokens implements OneTimeToken: a WebSocket token is taken by one
\* connection at most and never comes back (manager.go:40, 56, 82).
THEOREM Once == Spec => TokenOnce
<1>1. IInv /\ IInv' /\ [Next]_vars => [OneTime!Next]_(OneTime!vars)
  BY StepRefines
<1> QED
  BY <1>1, InitIInv, StepIInv, InitRefines, PTL DEF Spec, TokenOnce, OneTime!Spec
=============================================================================
