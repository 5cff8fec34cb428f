---------------------------- MODULE AuditChain -----------------------------
(***************************************************************************)
(* internal/audit: concurrent Logger.Log calls that extend one hash chain  *)
(* in table audit_logs, and VerifyChain over it.                           *)
(*                                                                         *)
(* Log reads the newest hash, then takes the clock, then inserts: three    *)
(* steps with no transaction or lock around them.  The clock is the wall   *)
(* clock of the server that runs the call, in nanoseconds; rows outlive    *)
(* the process and come from several, so a reading may lie before one      *)
(* taken earlier.  A TIMESTAMPTZ column keeps multiples of Resolution, and *)
(* a JSONB column keeps a value in its canonical text.  SHA-256 is an      *)
(* injective function of what it is given.                                 *)
(***************************************************************************)
EXTENDS Integers, FiniteSets

CONSTANTS
  Loggers,     \* the calls of Log that may run at one time
  Actions,     \* entry.Action
  Forged,      \* an action nobody logged, written over another
  Details,     \* entry.Detail: "canonical" (as JSONB prints it) or "compact"
  Ids,         \* uuid.New(): any identifier not used before, ordered by <
  Resolution,  \* nanoseconds in one tick of the column: 1000
  MaxTime,     \* bound: no clock shows more
  MaxRows,     \* bound: the rows, and the calls that may still insert one
  MaxTampered, \* bound: the rows somebody changes
  Faults       \* may a query or an INSERT fail?

ASSUME AuditChainAssumption ==
  /\ Details \subseteq {"canonical", "compact"}
  /\ Ids \subseteq Nat
  /\ Forged \notin Actions
  /\ Resolution \in Nat \ {0}
  /\ MaxTime \in Nat
  /\ MaxRows \in Nat
  /\ MaxTampered \in Nat
  /\ Faults \in BOOLEAN

VARIABLES
  latest,    \* history: the highest reading of a clock so far
  rows,      \* audit_logs
  pc,        \* where each call is
  prevHash,  \* each call's prevHash
  entry,     \* the entry each call is about to insert
  tampered,  \* history: the rows whose hashed columns somebody changed
  marred     \* history: what happened that can break an honest chain

vars == <<latest, rows, pc, prevHash, entry, tampered, marred>>

Genesis == <<"genesis">>
NoEntry == [id |-> -1]

Canonical(d) == "canonical"

\* Mutant: the column rounds up.
RoundedUp(t) == ((t \div Resolution) + 1) * Resolution

Truncated(t) == (t \div Resolution) * Resolution

\* Mutant: the action is left out of the hash.
HashWithoutAction(prev, ts, action, detail) == <<prev, ts, detail>>

\* computeHash over prev_hash, event_ts, action and detail; the other columns
\* (actor, address, target) are one field, other, that it does not see.
ComputeHash(prev, ts, action, detail) == <<prev, ts, action, detail>>

\* What the table holds of an inserted entry.
Stored(e) == [e EXCEPT !.ts = Truncated(e.ts), !.detail = Canonical(e.detail)]

\* ORDER BY event_ts, id.
Before(e, f) == e.ts < f.ts \/ (e.ts = f.ts /\ e.id < f.id)

\* Mutants: the oldest row; the hash of an entry that is not inserted yet.
FirstHash ==
  IF rows = {} THEN {Genesis}
  ELSE {e.this : e \in {x \in rows : \A f \in rows \ {x} : Before(x, f)}}

CachedHash ==
  IF \E l \in Loggers : pc[l] = "insert"
  THEN {entry[l].this : l \in {m \in Loggers : pc[m] = "insert"}}
  ELSE IF rows = {} THEN {Genesis}
  ELSE {e.this : e \in {x \in rows : \A f \in rows \ {x} : Before(f, x)}}

\* SELECT this_hash ORDER BY event_ts DESC, id DESC LIMIT 1; Genesis if empty.
LastHash ==
  IF rows = {} THEN {Genesis}
  ELSE {e.this : e \in {x \in rows : \A f \in rows \ {x} : Before(f, x)}}

\* The rows VerifyChain reads: the n first in ascending order.
FirstRows(n) == {e \in rows : Cardinality({f \in rows : Before(f, e)}) < n}

Follows(S, e, f) == Before(e, f) /\ ~\E g \in S : Before(e, g) /\ Before(g, f)

\* VerifyChain: every row hashes to its this_hash and names its predecessor.
VerifyChain(n) ==
  LET S == FirstRows(n)
  IN /\ \A e \in S : e.this = ComputeHash(e.prev, e.ts, e.action, e.detail)
     /\ \A e, f \in S : Follows(S, e, f) => f.prev = e.this

Busy(l) == pc[l] # "idle"

Mar(causes) == marred' = marred \cup causes

-----------------------------------------------------------------------------
Init ==
  /\ latest = 0
  /\ rows = {}
  /\ pc = [l \in Loggers |-> "idle"]
  /\ prevHash = [l \in Loggers |-> Genesis]
  /\ entry = [l \in Loggers |-> NoEntry]
  /\ tampered = {}
  /\ marred = {}

\* The SELECT.  An error of any kind counts as an empty table.
ReadLast(l) ==
  /\ pc[l] = "idle"
  /\ Cardinality(rows) + Cardinality({m \in Loggers : Busy(m)}) < MaxRows
  /\ \/ /\ \E h \in LastHash : prevHash' = [prevHash EXCEPT ![l] = h]
        /\ Mar(IF \E m \in Loggers : Busy(m) THEN {"overlap"} ELSE {})
     \/ /\ Faults
        /\ prevHash' = [prevHash EXCEPT ![l] = Genesis]
        /\ Mar({"fault"})
  /\ pc' = [pc EXCEPT ![l] = "stamp"]
  /\ UNCHANGED <<latest, rows, entry, tampered>>

\* The new identifier, whatever time the server's clock shows, and the hash.
Stamp(l, id, action, detail, now) ==
  /\ pc[l] = "stamp"
  /\ \A e \in rows \cup {entry[m] : m \in Loggers} : e.id # id
  /\ entry' = [entry EXCEPT ![l] =
       [id |-> id, ts |-> now, action |-> action, detail |-> detail, other |-> "logged",
        prev |-> prevHash[l],
        this |-> ComputeHash(prevHash[l], now, action, detail)]]
  /\ latest' = IF now < latest THEN latest ELSE now
  /\ Mar(IF now < latest THEN {"clock"} ELSE {})
  /\ prevHash' = [prevHash EXCEPT ![l] = Genesis]
  /\ pc' = [pc EXCEPT ![l] = "insert"]
  /\ UNCHANGED <<rows, tampered>>

\* The INSERT, and the return to the caller.
Insert(l) ==
  LET row == Stored(entry[l])
  IN /\ pc[l] = "insert"
     /\ \/ /\ rows' = rows \cup {row}
           /\ Mar({c \in {"lossy", "tie"} :
                        \/ c = "lossy" /\ row # entry[l]
                        \/ c = "tie" /\ \E e \in rows : e.ts = row.ts})
        \/ Faults /\ UNCHANGED <<rows, marred>>
     /\ entry' = [entry EXCEPT ![l] = NoEntry]
     /\ pc' = [pc EXCEPT ![l] = "idle"]
     /\ UNCHANGED <<latest, prevHash, tampered>>

Log(l) ==
  \/ ReadLast(l)
  \/ \E id \in Ids, action \in Actions, detail \in Details, now \in 0..MaxTime :
       Stamp(l, id, action, detail, now)
  \/ Insert(l)

Untouched(e) == e.id \notin tampered /\ e.other = "logged"

\* Someone with access to the database rewrites what a row says was done.
Tamper(e) ==
  /\ Untouched(e) /\ Cardinality({f \in rows : ~Untouched(f)}) < MaxTampered
  /\ rows' = (rows \ {e}) \cup {[e EXCEPT !.action = Forged]}
  /\ tampered' = tampered \cup {e.id}
  /\ Mar({"tamper"})
  /\ UNCHANGED <<latest, pc, prevHash, entry>>

\* Or a column that is not hashed: who did it, from where, to what.
TamperOther(e) ==
  /\ Untouched(e) /\ Cardinality({f \in rows : ~Untouched(f)}) < MaxTampered
  /\ rows' = (rows \ {e}) \cup {[e EXCEPT !.other = "changed"]}
  /\ UNCHANGED <<latest, pc, prevHash, entry, tampered, marred>>

Next ==
  \/ \E l \in Loggers : Log(l)
  \/ \E e \in rows : Tamper(e) \/ TamperOther(e)

Spec == Init /\ [][Next]_vars

-----------------------------------------------------------------------------
\* The type of every variable.
TypeOK ==
  /\ latest \in 0..MaxTime
  /\ \A e \in rows : e.id \in Ids /\ e.ts \in 0..MaxTime /\ e.action \in Actions \cup {Forged}
  /\ pc \in [Loggers -> {"idle", "stamp", "insert"}]
  /\ \A l \in Loggers : pc[l] = "insert" => entry[l].id \in Ids /\ entry[l].ts \in 0..MaxTime
  /\ tampered \subseteq Ids
  /\ marred \subseteq {"overlap", "fault", "lossy", "tie", "clock", "tamper"}

\* Every row names the genesis or a row that is in the table, and as long as
\* the readings of the clocks came in order that row is not later than itself:
\* whatever calls overlap, fail or are tampered with, the table is a forest, and
\* its links point back in time but for a clock that went back (logger.go:60-75).
LinksPointBack ==
  \A e \in rows :
    \/ e.prev = Genesis
    \/ \E f \in rows : f.this = e.prev /\ ("clock" \notin marred => f.ts <= e.ts)

\* The only ways an honest log fails its own verification: overlapping calls,
\* a failed read, two rows in one tick of the column, a column that does not
\* keep what was hashed, and a clock that shows less than one did before.
\* Without them VerifyChain accepts every prefix, also of a log whose columns
\* outside the hash were changed (logger.go:89, 138).
HonestChainVerifies == marred = {} => \A n \in 0..MaxRows : VerifyChain(n)

\* A row with a changed action makes VerifyChain fail for every limit that
\* reaches it from the oldest row on (logger.go:89, 108-112).
TamperEvident ==
  \A n \in 0..MaxRows :
    (\E e \in FirstRows(n) : e.id \in tampered) => ~VerifyChain(n)
=============================================================================
