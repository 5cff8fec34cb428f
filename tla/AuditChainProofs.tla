-------------------------- MODULE AuditChainProofs --------------------------
(***************************************************************************)
(* The links of the audit log, and what VerifyChain says of an honest log  *)
(* and of a changed one, for every set of callers, resolution of the clock *)
(* and bound.                                                              *)
(***************************************************************************)
EXTENDS AuditChain, FiniteSetTheorems, TLAPS

\* No clock has shown less than one did before.
Orderly == "clock" \notin marred

\* A hash a later entry may name: the genesis, or a row that is not after time t
\* unless a clock went back.
Linked(h, t) == h = Genesis \/ \E f \in rows : f.this = h /\ (Orderly => f.ts <= t)

\* Rows lie in the past as the column shows it; a hash that was read names a
\* row, and the time that was stamped is not before that row's.
Links ==
  /\ latest \in Nat
  /\ \A e \in rows : e.ts \in Nat /\ (Orderly => e.ts <= Truncated(latest))
  /\ \A l \in Loggers : pc[l] = "stamp" => Linked(prevHash[l], Truncated(latest))
  /\ \A l \in Loggers :
       pc[l] = "insert" =>
         /\ entry[l].ts \in Nat /\ (Orderly => entry[l].ts <= latest)
         /\ Linked(entry[l].prev, Truncated(entry[l].ts))

Columns == {"id", "ts", "action", "detail", "other", "prev", "this"}

Shape ==
  /\ DOMAIN pc = Loggers /\ DOMAIN prevHash = Loggers /\ DOMAIN entry = Loggers
  /\ \A l \in Loggers : pc[l] = "insert" => DOMAIN entry[l] = Columns
  /\ \A e \in rows : DOMAIN e = Columns

IInv == Shape /\ Links /\ LinksPointBack

\* Truncation to the column's resolution keeps the order of times.
LEMMA TruncatedMonotonic ==
  ASSUME NEW s \in Nat, NEW t \in Nat, s <= t
  PROVE  /\ Truncated(s) \in Nat
         /\ Truncated(s) <= s
         /\ Truncated(s) <= Truncated(t)
<1> DEFINE q == s \div Resolution
           p == t \div Resolution
<1>1. Resolution \in Nat /\ Resolution > 0
  BY AuditChainAssumption
<1>2. /\ q \in Nat /\ q * Resolution <= s /\ s < (q + 1) * Resolution
      /\ p \in Nat /\ p * Resolution <= t /\ t < (p + 1) * Resolution
  BY <1>1
<1>3. q < p + 1
  BY <1>1, <1>2
<1>4. q <= p
  BY <1>2, <1>3
<1>5. q * Resolution <= p * Resolution
  BY <1>1, <1>2, <1>4
<1> QED
  BY <1>1, <1>2, <1>5 DEF Truncated

LEMMA InitIInv == Init => IInv
BY DEF Init, IInv, Shape, Links, LinksPointBack

LEMMA ShapeStep ==
  ASSUME IInv, [Next]_vars
  PROVE  Shape'
<1> USE DEF IInv, Shape
<1>1. ASSUME NEW l \in Loggers, ReadLast(l) PROVE Shape'
  BY <1>1 DEF ReadLast
<1>2. ASSUME NEW l \in Loggers, NEW id, NEW action, NEW detail, NEW now,
             Stamp(l, id, action, detail, now)
      PROVE  Shape'
  BY <1>2 DEF Stamp, Columns
<1>3. ASSUME NEW l \in Loggers, Insert(l) PROVE Shape'
  <2>1. DOMAIN Stored(entry[l]) = Columns
    BY <1>3 DEF Insert, Stored
  <2> QED
    BY <1>3, <2>1 DEF Insert
<1>4. ASSUME NEW e \in rows, Tamper(e) PROVE Shape'
  BY <1>4 DEF Tamper
<1>5. ASSUME NEW e \in rows, TamperOther(e) PROVE Shape'
  BY <1>5 DEF TamperOther
<1>6. CASE UNCHANGED vars
  BY <1>6 DEF vars
<1> QED
  BY <1>1, <1>2, <1>3, <1>4, <1>5, <1>6 DEF Next, Log

LEMMA RowsLinked == IInv => \A e \in rows : Linked(e.prev, e.ts)
BY DEF IInv, LinksPointBack, Linked, Orderly

LEMMA ReadStep ==
  ASSUME IInv, NEW l \in Loggers, ReadLast(l)
  PROVE  Links' /\ LinksPointBack'
<1> USE DEF IInv, Shape
<1>1. UNCHANGED <<latest, rows, entry>> /\ marred \subseteq marred'
  BY DEF ReadLast, Mar
<1>2. prevHash'[l] = Genesis \/ \E e \in rows : prevHash'[l] = e.this
  BY DEF ReadLast, LastHash
<1>3. Orderly' = Orderly
  BY DEF ReadLast, Mar, Orderly
<1>4. Linked(prevHash[l], Truncated(latest))'
  BY <1>1, <1>2, <1>3 DEF Links, Linked, Truncated
<1>5. \A m \in Loggers : m # l => pc'[m] = pc[m] /\ prevHash'[m] = prevHash[m]
  BY DEF ReadLast
<1>6. pc'[l] = "stamp"
  BY DEF ReadLast
<1> QED
  BY <1>1, <1>3, <1>4, <1>5, <1>6 DEF Links, Linked, LinksPointBack, Orderly, Truncated

LEMMA StampStep ==
  ASSUME IInv, NEW l \in Loggers, NEW id, NEW action, NEW detail, NEW now \in 0..MaxTime,
         Stamp(l, id, action, detail, now)
  PROVE  Links' /\ LinksPointBack'
<1> USE DEF IInv, Shape
<1>1. /\ rows' = rows /\ pc[l] = "stamp" /\ pc'[l] = "insert"
      /\ latest \in Nat /\ now \in Nat
      /\ latest' = IF now < latest THEN latest ELSE now
      /\ entry'[l].ts = now /\ entry'[l].prev = prevHash[l]
  BY AuditChainAssumption DEF Stamp, Links
<1>2. marred \subseteq marred' /\ (Orderly' => Orderly /\ latest <= now)
  BY <1>1 DEF Stamp, Mar, Orderly
<1>3. latest' \in Nat /\ latest <= latest' /\ now <= latest'
  BY <1>1
<1>4. /\ Truncated(latest) \in Nat /\ Truncated(latest') \in Nat /\ Truncated(now) \in Nat
      /\ Truncated(latest) <= Truncated(latest')
  BY <1>1, <1>3, TruncatedMonotonic
<1>5. Truncated(latest)' = Truncated(latest') /\ Truncated(entry[l].ts)' = Truncated(now)
  BY <1>1 DEF Truncated
<1>6. Linked(prevHash[l], Truncated(latest))
  BY <1>1 DEF Links
<1>7. Linked(entry[l].prev, Truncated(entry[l].ts))'
  <2>1. CASE Orderly'
    <3>1. Truncated(latest) <= Truncated(now)
      BY <1>1, <1>2, <2>1, TruncatedMonotonic
    <3> QED
      BY <1>1, <1>2, <1>4, <1>5, <1>6, <3>1 DEF Linked, Links, Orderly
  <2>2. CASE ~Orderly'
    BY <1>1, <1>6, <2>2 DEF Linked
  <2> QED
    BY <2>1, <2>2
<1>8. \A m \in Loggers : m # l =>
        pc'[m] = pc[m] /\ prevHash'[m] = prevHash[m] /\ entry'[m] = entry[m]
  BY DEF Stamp
<1>9. \A e \in rows' : e.ts \in Nat /\ (Orderly' => e.ts <= Truncated(latest)')
  BY <1>1, <1>2, <1>4, <1>5 DEF Links
<1>10. \A h, t : Linked(h, t) => Linked(h, t)'
  BY <1>1, <1>2 DEF Linked
<1>11. ASSUME NEW m \in Loggers, pc'[m] = "stamp" PROVE Linked(prevHash[m], Truncated(latest))'
  <2>1. m # l /\ Linked(prevHash[m], Truncated(latest)) /\ prevHash'[m] = prevHash[m]
    BY <1>1, <1>8, <1>11 DEF Links
  <2>2. \/ prevHash'[m] = Genesis
        \/ \E f \in rows' : f.this = prevHash'[m] /\ (Orderly' => f.ts <= Truncated(latest'))
    BY <1>1, <1>2, <1>4, <2>1 DEF Linked, Links
  <2> QED
    BY <1>5, <2>2 DEF Linked
<1>12. ASSUME NEW m \in Loggers, pc'[m] = "insert"
       PROVE  /\ entry'[m].ts \in Nat /\ (Orderly' => entry'[m].ts <= latest')
              /\ Linked(entry[m].prev, Truncated(entry[m].ts))'
  <2>1. CASE m = l
    BY <1>1, <1>3, <1>7, <2>1
  <2>2. CASE m # l
    <3>1. /\ entry'[m] = entry[m] /\ entry[m].ts \in Nat /\ (Orderly => entry[m].ts <= latest)
          /\ Linked(entry[m].prev, Truncated(entry[m].ts))
      BY <1>8, <1>12, <2>2 DEF Links
    <3>2. Linked(entry[m].prev, Truncated(entry[m].ts))'
      BY <1>10, <3>1 DEF Linked, Truncated
    <3> QED
      BY <1>1, <1>2, <1>3, <3>1, <3>2
  <2> QED
    BY <2>1, <2>2
<1>13. Links'
  BY <1>3, <1>9, <1>11, <1>12 DEF Links
<1>14. LinksPointBack'
  BY <1>1, <1>2 DEF LinksPointBack, Orderly
<1> QED
  BY <1>13, <1>14

LEMMA InsertStep ==
  ASSUME IInv, NEW l \in Loggers, Insert(l)
  PROVE  Links' /\ LinksPointBack'
<1> USE DEF IInv, Shape
<1> DEFINE row == Stored(entry[l])
<1>1. /\ latest' = latest /\ prevHash' = prevHash
      /\ pc[l] = "insert" /\ pc'[l] = "idle"
      /\ rows' = rows \cup {row} \/ rows' = rows
      /\ \A m \in Loggers : m # l => pc'[m] = pc[m] /\ entry'[m] = entry[m]
  BY DEF Insert
<1>2. /\ row.ts = Truncated(entry[l].ts)
      /\ row.prev = entry[l].prev
  BY <1>1 DEF Stored, Columns
<1>3. row.ts \in Nat /\ (Orderly => row.ts <= Truncated(latest))
  BY <1>1, <1>2, TruncatedMonotonic DEF Links
<1>4. Linked(row.prev, row.ts)
  BY <1>1, <1>2 DEF Links
<1>5. Orderly' = Orderly
  BY DEF Insert, Mar, Orderly
<1>6. \A h, t : Linked(h, t) => Linked(h, t)'
  BY <1>1, <1>5 DEF Linked
<1>7. LinksPointBack'
  <2>1. \A e \in rows : Linked(e.prev, e.ts)
    BY RowsLinked
  <2>2. \A e \in rows' : Linked(e.prev, e.ts)
    BY <1>1, <1>4, <2>1
  <2>3. \A e \in rows' : e.prev = Genesis \/ \E f \in rows' : f.this = e.prev /\ (Orderly' => f.ts <= e.ts)
    BY <1>1, <1>5, <2>2 DEF Linked
  <2> QED
    BY <2>3 DEF LinksPointBack, Orderly
<1>8. Links'
  <2>1. \A e \in rows' : e.ts \in Nat /\ (Orderly' => e.ts <= Truncated(latest)')
    BY <1>1, <1>3, <1>5 DEF Links, Truncated
  <2>2. \A m \in Loggers : pc'[m] = "stamp" => Linked(prevHash[m], Truncated(latest))'
    BY <1>1, <1>5 DEF Links, Linked, Truncated
  <2>3. \A m \in Loggers : pc'[m] = "insert" =>
          /\ entry'[m].ts \in Nat /\ (Orderly' => entry'[m].ts <= latest')
          /\ Linked(entry[m].prev, Truncated(entry[m].ts))'
    BY <1>1, <1>5 DEF Links, Linked, Truncated
  <2> QED
    BY <1>1, <2>1, <2>2, <2>3 DEF Links
<1> QED
  BY <1>7, <1>8

\* A changed row keeps its hash, time and link.
LEMMA ChangeStep ==
  ASSUME IInv, NEW e \in rows, NEW new,
         rows' = (rows \ {e}) \cup {new}, UNCHANGED <<latest, pc, prevHash, entry>>,
         Orderly' = Orderly,
         new.this = e.this /\ new.ts = e.ts /\ new.prev = e.prev
  PROVE  Links' /\ LinksPointBack'
<1> USE DEF IInv, Shape
<1>1. \A h, t : Linked(h, t) =>
        h = Genesis \/ \E f \in rows' : f.this = h /\ (Orderly' => f.ts <= t)
  BY DEF Linked
<1>2. \A f \in rows' : \E g \in rows : f.ts = g.ts /\ f.prev = g.prev
  OBVIOUS
<1>3. LinksPointBack'
  <2>1. \A g \in rows : Linked(g.prev, g.ts)
    BY RowsLinked
  <2>2. \A f \in rows' : f.prev = Genesis \/ \E g \in rows' : g.this = f.prev /\ (Orderly' => g.ts <= f.ts)
    BY <1>1, <1>2, <2>1
  <2> QED
    BY <2>2 DEF LinksPointBack, Orderly
<1>4. Links'
  BY <1>1, <1>2 DEF Links, Linked, Truncated
<1> QED
  BY <1>3, <1>4

LEMMA TamperStep ==
  ASSUME IInv, NEW e \in rows, Tamper(e) \/ TamperOther(e)
  PROVE  Links' /\ LinksPointBack'
<1>1. DOMAIN e = Columns
  BY DEF IInv, Shape
<1>2. Orderly' = Orderly
  BY DEF Tamper, TamperOther, Mar, Orderly
<1>3. CASE Tamper(e)
  <2> DEFINE new == [e EXCEPT !.action = Forged]
  <2>1. /\ rows' = (rows \ {e}) \cup {new} /\ UNCHANGED <<latest, pc, prevHash, entry>>
        /\ new.this = e.this /\ new.ts = e.ts /\ new.prev = e.prev
    BY <1>1, <1>3 DEF Tamper, Columns
  <2> HIDE DEF new
  <2> QED
    BY <1>2, <2>1, ChangeStep
<1>4. CASE TamperOther(e)
  <2> DEFINE new == [e EXCEPT !.other = "changed"]
  <2>1. /\ rows' = (rows \ {e}) \cup {new} /\ UNCHANGED <<latest, pc, prevHash, entry>>
        /\ new.this = e.this /\ new.ts = e.ts /\ new.prev = e.prev
    BY <1>1, <1>4 DEF TamperOther, Columns
  <2> HIDE DEF new
  <2> QED
    BY <1>2, <2>1, ChangeStep
<1> QED
  BY <1>3, <1>4

LEMMA IInvStep ==
  ASSUME IInv, [Next]_vars
  PROVE  IInv'
<1>1. Shape'
  BY ShapeStep
<1>2. Links' /\ LinksPointBack'
  <2>1. CASE UNCHANGED vars
    BY <2>1 DEF vars, IInv, Links, Linked, LinksPointBack, Truncated, Orderly
  <2> QED
    BY <2>1, ReadStep, StampStep, InsertStep, TamperStep DEF Next, Log
<1> QED
  BY <1>1, <1>2 DEF IInv

\* A hash in use by any call of Log names a row of the table, or the genesis.
THEOREM Inductive == Spec => []IInv
BY InitIInv, IInvStep, PTL DEF Spec

-----------------------------------------------------------------------------
\* However calls of Log overlap, fail or are tampered with, every row names the
\* genesis or a row of the table; and a row that is not later than itself, as
\* long as no clock has shown less than one did before.
THEOREM ChainPointsBack == Spec => []LinksPointBack
<1>1. IInv => LinksPointBack
  BY DEF IInv
<1> QED
  BY <1>1, Inductive, PTL

-----------------------------------------------------------------------------
\* What a hash says about a row once it is in the table: some time, some action
\* a caller logged and some detail, whatever the row says now.
Logged(e) ==
  \E t \in 0..MaxTime, a \in Actions, d \in Details : e.this = ComputeHash(e.prev, t, a, d)

\* Rows and entries about to be inserted have identifiers of their own and
\* hashes of what was logged; a row somebody changed says what nobody logged.
Provenance ==
  /\ \A e, f \in rows : e.id = f.id => e = f
  /\ \A e \in rows : Logged(e)
  /\ \A l \in Loggers : pc[l] = "insert" =>
       /\ entry[l].action \in Actions /\ entry[l].detail \in Details
       /\ entry[l].this =
            ComputeHash(entry[l].prev, entry[l].ts, entry[l].action, entry[l].detail)
       /\ \A e \in rows : e.id # entry[l].id
       /\ \A m \in Loggers \ {l} : pc[m] = "insert" => entry[m].id # entry[l].id
  /\ \A e \in rows : e.id \in tampered => e.action = Forged
  /\ tampered \subseteq {e.id : e \in rows}

\* As long as nothing happened that can break the chain: calls come one at a
\* time, every row but the first names the one before it, and the call in
\* progress holds the hash of the last one, which is not after its own time.
Unbroken ==
  marred = {} =>
    /\ \A l, m \in Loggers : Busy(l) /\ Busy(m) => l = m
    /\ \A e \in rows : e.this = ComputeHash(e.prev, e.ts, e.action, e.detail)
    /\ \A e, f \in rows : Follows(rows, e, f) => f.prev = e.this
    /\ \A e, f \in rows : e # f => e.ts # f.ts
    /\ \A l \in Loggers : pc[l] = "stamp" => prevHash[l] \in LastHash
    /\ \A l \in Loggers : pc[l] = "insert" =>
         /\ entry[l].prev \in LastHash
         /\ \A e \in rows : e.ts <= entry[l].ts

\* What Insert puts in the table: the entry, but for its time and its detail.
LEMMA StoredColumns ==
  ASSUME IInv, TypeOK, NEW l \in Loggers, pc[l] = "insert"
  PROVE  LET row == Stored(entry[l])
         IN /\ row.id = entry[l].id /\ row.action = entry[l].action
            /\ row.prev = entry[l].prev /\ row.this = entry[l].this
            /\ row.ts = Truncated(entry[l].ts)
            /\ row.id \in Ids /\ row.ts \in 0..MaxTime
<1> USE DEF IInv, Shape, Columns, TypeOK
<1>1. DOMAIN entry[l] = Columns /\ entry[l].id \in Ids /\ entry[l].ts \in 0..MaxTime
  OBVIOUS
<1>2. Truncated(entry[l].ts) \in Nat /\ Truncated(entry[l].ts) <= entry[l].ts
  BY <1>1, TruncatedMonotonic
<1>3. Truncated(entry[l].ts) \in 0..MaxTime
  BY <1>1, <1>2, AuditChainAssumption
<1> QED
  BY <1>1, <1>3 DEF Stored

LEMMA InitTyped == Init => TypeOK
BY AuditChainAssumption DEF Init, TypeOK

LEMMA TypedStep ==
  ASSUME IInv, TypeOK, Provenance, [Next]_vars
  PROVE  TypeOK'
<1> USE AuditChainAssumption DEF TypeOK, Mar
<1>1. ASSUME NEW l \in Loggers, ReadLast(l) PROVE TypeOK'
  BY <1>1 DEF ReadLast
<1>2. ASSUME NEW l \in Loggers, NEW id \in Ids, NEW action \in Actions, NEW detail \in Details,
             NEW now \in 0..MaxTime, Stamp(l, id, action, detail, now)
      PROVE  TypeOK'
  BY <1>2 DEF Stamp, IInv, Shape
<1>3. ASSUME NEW l \in Loggers, Insert(l) PROVE TypeOK'
  <2> DEFINE row == Stored(entry[l])
  <2>1. /\ pc[l] = "insert" /\ UNCHANGED <<latest, tampered>>
        /\ rows' = rows \cup {row} \/ rows' = rows
        /\ pc' = [pc EXCEPT ![l] = "idle"] /\ entry' = [entry EXCEPT ![l] = NoEntry]
        /\ marred' \subseteq marred \cup {"lossy", "tie"}
    BY <1>3 DEF Insert
  <2>2. row.id \in Ids /\ row.ts \in 0..MaxTime /\ row.action \in Actions
    BY <2>1, StoredColumns DEF Provenance
  <2> QED
    BY <2>1, <2>2 DEF IInv, Shape
<1>4. ASSUME NEW e \in rows, Tamper(e) PROVE TypeOK'
  BY <1>4 DEF Tamper, IInv, Shape, Columns
<1>5. ASSUME NEW e \in rows, TamperOther(e) PROVE TypeOK'
  BY <1>5 DEF TamperOther, IInv, Shape, Columns
<1>6. CASE UNCHANGED vars
  BY <1>6 DEF vars
<1> QED
  BY <1>1, <1>2, <1>3, <1>4, <1>5, <1>6 DEF Next, Log

-----------------------------------------------------------------------------
(* Where hashes come from.  *)
LEMMA InitProvenance == Init => Provenance
BY DEF Init, Provenance

LEMMA StampProvenance ==
  ASSUME IInv, TypeOK, Provenance,
         NEW l \in Loggers, NEW id \in Ids, NEW action \in Actions, NEW detail \in Details,
         NEW now \in 0..MaxTime, Stamp(l, id, action, detail, now)
  PROVE  Provenance'
<1> USE DEF IInv, Shape, Provenance
<1>1. /\ UNCHANGED <<rows, tampered>> /\ pc'[l] = "insert"
      /\ entry'[l] = [id |-> id, ts |-> now, action |-> action, detail |-> detail,
                      other |-> "logged", prev |-> prevHash[l],
                      this |-> ComputeHash(prevHash[l], now, action, detail)]
      /\ \A m \in Loggers \ {l} : pc'[m] = pc[m] /\ entry'[m] = entry[m]
  BY DEF Stamp
<1>2. /\ \A e \in rows : e.id # id
      /\ \A m \in Loggers : entry[m].id # id
  BY DEF Stamp
<1>3. \A m \in Loggers : pc'[m] = "insert" =>
        /\ entry'[m].action \in Actions /\ entry'[m].detail \in Details
        /\ entry'[m].this =
             ComputeHash(entry'[m].prev, entry'[m].ts, entry'[m].action, entry'[m].detail)
        /\ \A e \in rows : e.id # entry'[m].id
  BY <1>1, <1>2
<1>4. ASSUME NEW m \in Loggers, NEW k \in Loggers \ {m}, pc'[m] = "insert", pc'[k] = "insert"
      PROVE  entry'[k].id # entry'[m].id
  BY <1>1, <1>2, <1>4
<1>5. \A e \in rows' : Logged(e)'
  BY <1>1 DEF Logged
<1> QED
  BY <1>1, <1>3, <1>4, <1>5

LEMMA InsertProvenance ==
  ASSUME IInv, TypeOK, Provenance, NEW l \in Loggers, Insert(l)
  PROVE  Provenance'
<1> USE DEF IInv, Shape, Provenance
<1> DEFINE row == Stored(entry[l])
<1>1. /\ pc[l] = "insert" /\ pc'[l] = "idle" /\ tampered' = tampered
      /\ rows' = rows \cup {row} \/ rows' = rows
      /\ \A m \in Loggers \ {l} : pc'[m] = pc[m] /\ entry'[m] = entry[m]
  BY DEF Insert
<1>2. /\ row.id = entry[l].id /\ row.prev = entry[l].prev /\ row.this = entry[l].this
  BY <1>1, StoredColumns
<1>3. Logged(row)
  <2>1. entry[l].ts \in 0..MaxTime
    BY <1>1 DEF TypeOK
  <2> QED
    BY <1>1, <1>2, <2>1 DEF Logged
<1>4. \A e, f \in rows' : e.id = f.id => e = f
  BY <1>1, <1>2
<1>5. \A e \in rows' : Logged(e)'
  BY <1>1, <1>3 DEF Logged
<1>6. row.id \notin tampered
  BY <1>1, <1>2
<1>7. \A m \in Loggers : pc'[m] = "insert" =>
        \A e \in rows' : e.id # entry'[m].id
  BY <1>1, <1>2
<1>8. tampered' \subseteq {e.id : e \in rows'}
  BY <1>1
<1> HIDE DEF row
<1> QED
  BY <1>1, <1>4, <1>5, <1>6, <1>7, <1>8

LEMMA TamperProvenance ==
  ASSUME IInv, TypeOK, Provenance, NEW e \in rows, Tamper(e) \/ TamperOther(e)
  PROVE  Provenance'
<1> USE DEF IInv, Shape, Provenance
<1>1. PICK new :
        /\ rows' = (rows \ {e}) \cup {new}
        /\ new.id = e.id /\ new.this = e.this /\ new.prev = e.prev
        /\ \/ new.action = Forged /\ tampered' = tampered \cup {e.id}
           \/ new.action = e.action /\ tampered' = tampered
  <2>1. CASE Tamper(e)
    <3> DEFINE new == [e EXCEPT !.action = Forged]
    <3>1. /\ rows' = (rows \ {e}) \cup {new} /\ tampered' = tampered \cup {e.id}
          /\ new.id = e.id /\ new.this = e.this /\ new.prev = e.prev /\ new.action = Forged
      BY <2>1 DEF Tamper, Columns
    <3> HIDE DEF new
    <3> QED
      BY <3>1
  <2>2. CASE TamperOther(e)
    <3> DEFINE new == [e EXCEPT !.other = "changed"]
    <3>1. /\ rows' = (rows \ {e}) \cup {new} /\ tampered' = tampered
          /\ new.id = e.id /\ new.this = e.this /\ new.prev = e.prev /\ new.action = e.action
      BY <2>2 DEF TamperOther, Columns
    <3> HIDE DEF new
    <3> QED
      BY <3>1
  <2> QED
    BY <2>1, <2>2
<1>2. UNCHANGED <<pc, entry>>
  BY DEF Tamper, TamperOther
<1>3. \A f \in rows' : \E g \in rows : f.id = g.id /\ f.this = g.this /\ f.prev = g.prev
  BY <1>1
<1>4. \A f, g \in rows' : f.id = g.id => f = g
  BY <1>1
<1>5. \A f \in rows' : Logged(f)'
  BY <1>3 DEF Logged
<1>6. \A f \in rows' : f.id \in tampered' => f.action = Forged
  BY <1>1
<1>7. tampered' \subseteq {f.id : f \in rows'}
  BY <1>1
<1>8. \A m \in Loggers : pc[m] = "insert" => \A f \in rows' : f.id # entry[m].id
  BY <1>3
<1> QED
  BY <1>2, <1>4, <1>5, <1>6, <1>7, <1>8

LEMMA ProvenanceStep ==
  ASSUME IInv, TypeOK, Provenance, [Next]_vars
  PROVE  Provenance'
<1>1. ASSUME NEW l \in Loggers, ReadLast(l) PROVE Provenance'
  <2>1. UNCHANGED <<rows, entry, tampered>> /\ \A m \in Loggers : pc'[m] = "insert" => pc[m] = "insert"
    BY <1>1 DEF ReadLast, IInv, Shape
  <2> QED
    BY <2>1 DEF Provenance, Logged
<1>2. CASE UNCHANGED vars
  BY <1>2 DEF vars, Provenance, Logged
<1> QED
  BY <1>1, <1>2, StampProvenance, InsertProvenance, TamperProvenance DEF Next, Log

-----------------------------------------------------------------------------
(* The order of the rows.  *)
LEMMA IdsAreNumbers == \A i \in Ids : i \in Int
<1>1. Ids \subseteq Nat
  BY AuditChainAssumption, Zenon
<1> QED
  BY <1>1

LEMMA BeforeOrders ==
  ASSUME TypeOK, NEW e \in rows, NEW f \in rows, NEW g \in rows
  PROVE  /\ Before(e, f) /\ Before(f, g) => Before(e, g)
         /\ ~(Before(e, f) /\ Before(f, e))
         /\ e.ts # f.ts => Before(e, f) \/ Before(f, e)
<1>1. \A r \in rows : r.ts \in Int /\ r.id \in Ids
  BY DEF TypeOK
<1>2. \A r \in rows : r.ts \in Int /\ r.id \in Int
  BY <1>1, IdsAreNumbers
<1> QED
  BY <1>2 DEF Before

\* What VerifyChain reads is a beginning of the table: with a row, all before it.
LEMMA FirstRowsAreFirst ==
  ASSUME TypeOK, IsFiniteSet(rows), NEW n \in 0..MaxRows,
         NEW f \in FirstRows(n), NEW g \in rows, Before(g, f)
  PROVE  g \in FirstRows(n)
<1> DEFINE Pred(x) == {h \in rows : Before(h, x)}
<1>1. Pred(g) \subseteq Pred(f)
  BY BeforeOrders DEF FirstRows
<1>2. IsFiniteSet(Pred(f)) /\ IsFiniteSet(Pred(g))
  BY FS_Subset
<1>3. Cardinality(Pred(f)) \in Nat /\ Cardinality(Pred(g)) \in Nat
  BY <1>2, FS_CardinalityType
<1>4. Cardinality(Pred(g)) <= Cardinality(Pred(f))
  BY <1>1, <1>2, FS_Subset
<1>5. Cardinality(Pred(f)) < n
  BY DEF FirstRows
<1>6. n \in Int
  BY AuditChainAssumption
<1> HIDE DEF Pred
<1>7. Cardinality(Pred(g)) < n
  BY <1>3, <1>4, <1>5, <1>6
<1> QED
  BY <1>7 DEF FirstRows, Pred

-----------------------------------------------------------------------------
(* An unbroken chain.  *)
LEMMA InitUnbroken == Init => Unbroken /\ IsFiniteSet(rows)
BY FS_EmptySet DEF Init, Unbroken, Busy

LEMMA FiniteStep ==
  ASSUME IsFiniteSet(rows), [Next]_vars
  PROVE  IsFiniteSet(rows')
<1>1. ASSUME NEW l \in Loggers, Insert(l) PROVE IsFiniteSet(rows')
  BY <1>1, FS_AddElement DEF Insert
<1>2. ASSUME NEW e \in rows, Tamper(e) \/ TamperOther(e) PROVE IsFiniteSet(rows')
  <2>1. IsFiniteSet(rows \ {e})
    BY FS_RemoveElement
  <2>2. PICK new : rows' = (rows \ {e}) \cup {new}
    BY <1>2 DEF Tamper, TamperOther
  <2> QED
    BY <2>1, <2>2, FS_AddElement
<1> QED
  BY <1>1, <1>2 DEF Next, Log, ReadLast, Stamp, vars

LEMMA ReadUnbroken ==
  ASSUME IInv, TypeOK, Unbroken, NEW l \in Loggers, ReadLast(l)
  PROVE  Unbroken'
<1> SUFFICES ASSUME marred' = {}
             PROVE  Unbroken'
  BY DEF Unbroken
<1> USE DEF IInv, Shape
<1>1. marred = {} /\ \A m \in Loggers : ~Busy(m)
  BY DEF ReadLast, Mar
<1>2. prevHash'[l] \in LastHash
  BY DEF ReadLast, Mar
<1>3. /\ UNCHANGED <<rows, entry>> /\ pc'[l] = "stamp"
      /\ \A m \in Loggers \ {l} : pc'[m] = "idle"
  BY <1>1 DEF ReadLast, Busy
<1> QED
  BY <1>1, <1>2, <1>3 DEF Unbroken, Busy, LastHash, Follows

LEMMA StampUnbroken ==
  ASSUME IInv, TypeOK, Unbroken,
         NEW l \in Loggers, NEW id \in Ids, NEW action \in Actions, NEW detail \in Details,
         NEW now \in 0..MaxTime, Stamp(l, id, action, detail, now)
  PROVE  Unbroken'
<1> SUFFICES ASSUME marred' = {}
             PROVE  Unbroken'
  BY DEF Unbroken
<1> USE DEF IInv, Shape
<1>1. /\ marred = {} /\ pc[l] = "stamp" /\ pc'[l] = "insert" /\ rows' = rows
      /\ entry'[l].prev = prevHash[l] /\ entry'[l].ts = now
      /\ \A m \in Loggers \ {l} : pc'[m] = pc[m] /\ entry'[m] = entry[m] /\ prevHash'[m] = prevHash[m]
  BY DEF Stamp, Mar
<1>2. latest \in Nat /\ now \in Nat /\ latest <= now /\ Orderly
  BY <1>1, AuditChainAssumption DEF Stamp, Mar, Links, Orderly
<1>3. \A e \in rows : e.ts <= now
  <2>1. Truncated(latest) \in Nat /\ Truncated(latest) <= latest
    BY <1>2, TruncatedMonotonic
  <2>2. \A e \in rows : e.ts \in Nat /\ e.ts <= Truncated(latest)
    BY <1>2 DEF Links
  <2> QED
    BY <1>2, <2>1, <2>2
<1> QED
  BY <1>1, <1>3 DEF Unbroken, Busy, LastHash, Follows

\* A row that is kept as it was hashed, after all the others, continues the
\* chain from the last of them.
LEMMA InsertUnbroken ==
  ASSUME IInv, TypeOK, Provenance, Unbroken, NEW l \in Loggers, Insert(l)
  PROVE  Unbroken'
<1> SUFFICES ASSUME marred' = {}
             PROVE  Unbroken'
  BY DEF Unbroken
<1> USE DEF IInv, Shape
<1> DEFINE row == Stored(entry[l])
<1>1. /\ marred = {} /\ pc[l] = "insert" /\ pc'[l] = "idle"
      /\ \A m \in Loggers \ {l} : pc'[m] = pc[m]
  BY DEF Insert, Mar
<1>2. \A m \in Loggers : ~Busy(m)'
  BY <1>1 DEF Unbroken, Busy
<1>3. CASE rows' = rows
  BY <1>1, <1>2, <1>3 DEF Unbroken, Busy, Follows
<1>4. CASE rows' # rows
  <2>1. rows' = rows \cup {row} /\ row = entry[l] /\ \A e \in rows : e.ts # row.ts
    BY <1>4 DEF Insert, Mar
  <2>2. \A e \in rows : e.ts < row.ts /\ e.ts \in Int
    <3>1. \A e \in rows : e.ts <= entry[l].ts
      BY <1>1 DEF Unbroken
    <3> QED
      BY <1>1, <2>1, <3>1 DEF TypeOK
  <2>3. row.ts \in Int /\ \A e \in rows : Before(e, row) /\ ~Before(row, e)
    BY <1>1, <2>1, <2>2 DEF Before, TypeOK
  <2>4. row.prev \in LastHash /\ row.this = ComputeHash(row.prev, row.ts, row.action, row.detail)
    BY <1>1, <2>1 DEF Unbroken, Provenance
  <2> HIDE DEF row
  <2>5. ASSUME NEW e \in rows, Follows(rows', e, row)
        PROVE  row.prev = e.this
    <3>1. PICK x \in rows : x.this = row.prev /\ \A f \in rows \ {x} : Before(f, x)
      BY <2>4 DEF LastHash
    <3>2. x = e
      BY <2>1, <2>3, <2>5, <3>1 DEF Follows
    <3> QED
      BY <3>1, <3>2
  <2>6. \A e, f \in rows : Follows(rows', e, f) => Follows(rows, e, f)
    BY <2>1 DEF Follows
  <2>7. ~Before(row, row)
    <3>1. row.id \in Ids
      BY <1>1, <2>1 DEF TypeOK
    <3>2. row.id \in Int
      BY <3>1, IdsAreNumbers
    <3> QED
      BY <2>3, <3>2 DEF Before
  <2>8. \A e, f \in rows' : Follows(rows', e, f) => f.prev = e.this
    BY <1>1, <2>1, <2>3, <2>5, <2>6, <2>7 DEF Unbroken, Follows
  <2>9. \A e \in rows' : e.this = ComputeHash(e.prev, e.ts, e.action, e.detail)
    BY <1>1, <2>1, <2>4 DEF Unbroken
  <2>10. \A e, f \in rows' : e # f => e.ts # f.ts
    BY <1>1, <2>1 DEF Unbroken
  <2> QED
    BY <1>2, <2>8, <2>9, <2>10 DEF Unbroken, Busy, ComputeHash, Follows, Before
<1> QED
  BY <1>3, <1>4

\* A column outside the hash decides nothing that VerifyChain looks at.
LEMMA TamperOtherUnbroken ==
  ASSUME IInv, TypeOK, Provenance, Unbroken, NEW e \in rows, TamperOther(e)
  PROVE  Unbroken'
<1> SUFFICES ASSUME marred' = {}
             PROVE  Unbroken'
  BY DEF Unbroken
<1> DEFINE Same(f, g) ==
             /\ f.id = g.id /\ f.ts = g.ts /\ f.action = g.action /\ f.detail = g.detail
             /\ f.prev = g.prev /\ f.this = g.this
<1>1. marred = {} /\ UNCHANGED <<pc, prevHash, entry>>
  BY DEF TamperOther
<1>2. PICK new : rows' = (rows \ {e}) \cup {new} /\ Same(e, new)
  <2>1. DOMAIN e = Columns
    BY DEF IInv, Shape
  <2>2. Same(e, [e EXCEPT !.other = "changed"])
    BY <2>1 DEF Columns
  <2> QED
    BY <2>2 DEF TamperOther
<1>3. \A f \in rows' : \E g \in rows : Same(f, g)
  BY <1>2
<1>4. \A g \in rows : \E f \in rows' : Same(f, g)
  BY <1>2
<1>5. \A f, g \in rows' : f.id = g.id => f = g
  BY TamperProvenance DEF Provenance
<1>6. \A f, g, x, y : Same(f, x) /\ Same(g, y) => (Before(f, g) <=> Before(x, y))
  BY DEF Before
<1>7. \A f \in rows' : f.this = ComputeHash(f.prev, f.ts, f.action, f.detail)
  BY <1>1, <1>3 DEF Unbroken, ComputeHash
<1>8. ASSUME NEW f \in rows', NEW g \in rows', Follows(rows', f, g)
      PROVE  g.prev = f.this
  <2>1. PICK x \in rows, y \in rows : Same(f, x) /\ Same(g, y)
    BY <1>3
  <2>2. Follows(rows, x, y)
    <3>1. Before(x, y)
      BY <1>6, <1>8, <2>1 DEF Follows
    <3>2. ASSUME NEW h \in rows, Before(x, h), Before(h, y) PROVE FALSE
      <4>1. PICK k \in rows' : Same(k, h)
        BY <1>4
      <4>2. Before(f, k) /\ Before(k, g)
        BY <1>6, <2>1, <3>2, <4>1
      <4> QED
        BY <1>8, <4>2 DEF Follows
    <3> QED
      BY <3>1, <3>2 DEF Follows
  <2>3. y.prev = x.this
    BY <1>1, <2>2 DEF Unbroken
  <2> QED
    BY <2>1, <2>3
<1>9. ASSUME NEW f \in rows', NEW g \in rows', f # g
      PROVE  f.ts # g.ts
  <2>1. PICK x \in rows, y \in rows : Same(f, x) /\ Same(g, y)
    BY <1>3
  <2>2. x # y
    BY <1>5, <1>9, <2>1
  <2> QED
    BY <1>1, <2>1, <2>2 DEF Unbroken
<1>10. LastHash \subseteq LastHash'
  <2>1. CASE rows = {}
    BY <2>1
  <2>2. CASE rows # {}
    <3> SUFFICES ASSUME NEW h \in LastHash PROVE h \in LastHash'
      OBVIOUS
    <3>1. PICK x \in rows : x.this = h /\ \A f \in rows \ {x} : Before(f, x)
      BY <2>2 DEF LastHash
    <3>2. PICK k \in rows' : Same(k, x)
      BY <1>4
    <3>3. ASSUME NEW f \in rows' \ {k} PROVE Before(f, k)
      <4>1. PICK y \in rows : Same(f, y)
        BY <1>3
      <4>2. y # x
        BY <1>5, <3>2, <3>3, <4>1
      <4> QED
        BY <1>6, <3>1, <3>2, <4>1, <4>2
    <3>4. h \in {z.this : z \in {w \in rows' : \A f \in rows' \ {w} : Before(f, w)}}
      BY <3>1, <3>2, <3>3
    <3> QED
      BY <3>2, <3>4 DEF LastHash, Before
  <2> QED
    BY <2>1, <2>2
<1>11. ASSUME NEW l \in Loggers, pc[l] = "insert", NEW f \in rows'
       PROVE  f.ts <= entry[l].ts
  BY <1>1, <1>3, <1>11 DEF Unbroken
<1> HIDE DEF Same
<1>12. \A l, m \in Loggers : Busy(l)' /\ Busy(m)' => l = m
  BY <1>1 DEF Unbroken, Busy
<1>13. /\ \A l \in Loggers : pc'[l] = "stamp" => prevHash'[l] \in LastHash'
       /\ \A l \in Loggers : pc'[l] = "insert" => entry'[l].prev \in LastHash'
  BY <1>1, <1>10 DEF Unbroken
<1> QED
  BY <1>1, <1>7, <1>8, <1>9, <1>11, <1>12, <1>13 DEF Unbroken, ComputeHash, Follows, Before

LEMMA UnbrokenStep ==
  ASSUME IInv, TypeOK, Provenance, Unbroken, [Next]_vars
  PROVE  Unbroken'
<1>1. ASSUME NEW e \in rows, Tamper(e) PROVE Unbroken'
  BY <1>1 DEF Tamper, Unbroken, Mar
<1>2. CASE UNCHANGED vars
  BY <1>2 DEF vars, Unbroken, Busy, LastHash, Follows
<1> QED
  BY <1>1, <1>2, ReadUnbroken, StampUnbroken, InsertUnbroken, TamperOtherUnbroken DEF Next, Log

\* All of it holds together.
AuditInv == IInv /\ TypeOK /\ Provenance /\ Unbroken /\ IsFiniteSet(rows)

\* Where every row came from, and what breaks a chain, in every reachable state.
THEOREM ChainInductive == Spec => []AuditInv
<1>1. Init => AuditInv
  BY InitIInv, InitTyped, InitProvenance, InitUnbroken DEF AuditInv
<1>2. AuditInv /\ [Next]_vars => AuditInv'
  BY IInvStep, TypedStep, ProvenanceStep, UnbrokenStep, FiniteStep DEF AuditInv
<1> QED
  BY <1>1, <1>2, PTL DEF Spec

\* The variables keep their types.
THEOREM TypeCorrect == Spec => []TypeOK
<1>1. AuditInv => TypeOK
  BY DEF AuditInv
<1> QED
  BY <1>1, ChainInductive, PTL

\* A chain with no overlap, failed read, tie, lossy column, clock that went back
\* or changed action is accepted by VerifyChain, whatever the limit and whatever
\* was written over the columns outside the hash.
THEOREM HonestChainsVerify == Spec => []HonestChainVerifies
<1>1. AuditInv => HonestChainVerifies
  <2> SUFFICES ASSUME AuditInv, marred = {}, NEW n \in 0..MaxRows
               PROVE  VerifyChain(n)
    BY DEF HonestChainVerifies
  <2> USE DEF AuditInv
  <2>1. \A e \in FirstRows(n) : e.this = ComputeHash(e.prev, e.ts, e.action, e.detail)
    BY DEF FirstRows, Unbroken
  <2>2. ASSUME NEW e \in FirstRows(n), NEW f \in FirstRows(n), Follows(FirstRows(n), e, f)
        PROVE  f.prev = e.this
    <3>1. e \in rows /\ f \in rows
      BY DEF FirstRows
    <3>2. \A g \in rows : Before(g, f) => g \in FirstRows(n)
      BY FirstRowsAreFirst
    <3>3. Follows(rows, e, f)
      BY <2>2, <3>2 DEF Follows
    <3> QED
      BY <3>1, <3>3 DEF Unbroken
  <2> QED
    BY <2>1, <2>2 DEF VerifyChain
<1> QED
  BY <1>1, ChainInductive, PTL

\* A verification that reaches a row whose action somebody changed, counting
\* from the oldest row, never accepts: the row's hash is of an action some
\* caller logged.
THEOREM TamperingShows == Spec => []TamperEvident
<1>1. AuditInv => TamperEvident
  <2> SUFFICES ASSUME AuditInv, NEW n \in 0..MaxRows,
                      NEW e \in FirstRows(n), e.id \in tampered, VerifyChain(n)
               PROVE  FALSE
    BY DEF TamperEvident
  <2>1. e \in rows /\ e.action = Forged
    BY DEF FirstRows, AuditInv, Provenance
  <2>2. e.this = ComputeHash(e.prev, e.ts, Forged, e.detail)
    BY <2>1 DEF VerifyChain
  <2>3. \E t, d, a : a \in Actions /\ e.this = ComputeHash(e.prev, t, a, d)
    BY <2>1 DEF AuditInv, Provenance, Logged
  <2> QED
    BY <2>2, <2>3, AuditChainAssumption DEF ComputeHash
<1> QED
  BY <1>1, ChainInductive, PTL
=============================================================================
