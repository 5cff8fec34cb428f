------------------------ MODULE AdministrationProofs -------------------------
(***************************************************************************)
(* The tables an administrator edits.                                      *)
(*                                                                         *)
(* One row of hosts for every set of requests, columns and values; the     *)
(* policies for every table that requests can build, every group and hour. *)
(***************************************************************************)
EXTENDS HostEdits, Policies, FiniteSetTheorems, TLAPS

\* The columns of the row and of every copy of it hold what some request gave
\* them; a copy nobody made old is the row; nobody edits before the creation.
Copies ==
  /\ row = NoHost <=> asked = NoHost
  /\ row = NoHost /\ ~removed => Writing = {}
  /\ \A a \in Writing :
       /\ \A f \in Fields : edit[a].copy[f] \in written[f]
       /\ edit[a].fresh /\ row # NoHost => edit[a].copy = row

HostIInv == HostTypeOK /\ Copies /\ HostFieldsAccounted

Edit == [step : {"write"}, copy : [Fields -> Contents], system : Systems \cup {Empty},
         change : Changes, fresh : BOOLEAN]

LEMMA ChangedFields ==
  ASSUME NEW change \in Changes, NEW f \in DOMAIN change
  PROVE  f \in Fields /\ change[f] \in Contents
<1>1. PICK S \in SUBSET Fields : change \in [S -> Contents]
  BY DEF Changes
<1> QED
  BY <1>1

\* A row under a request is a row.
LEMMA OverlayType ==
  ASSUME NEW old \in [Fields -> Contents], NEW change \in Changes
  PROVE  Overlay(old, change) \in [Fields -> Contents]
BY ChangedFields DEF Overlay

\* A request that has read the row is an edit in progress.
LEMMA WritingType ==
  ASSUME HostTypeOK, NEW a \in Admins
  PROVE  /\ a \in Writing => edit[a] \in Edit
         /\ a \notin Writing => edit[a] = Idle
<1>1. edit[a] \in {Idle} \cup Edit
  BY DEF HostTypeOK, Edit
<1>2. Idle.step # "write"
  BY DEF Idle
<1> QED
  BY <1>1, <1>2 DEF Writing, Edit

LEMMA HostInitial == HostInit => HostIInv
<1> SUFFICES ASSUME HostInit PROVE HostIInv
  OBVIOUS
<1>1. Writing = {}
  BY DEF HostInit, Writing, Idle
<1>2. HostTypeOK
  BY DEF HostInit, HostTypeOK
<1> QED
  BY <1>1, <1>2 DEF HostInit, HostIInv, Copies, HostFieldsAccounted

LEMMA CreateHostStep ==
  ASSUME HostIInv, NEW first \in [Fields -> Contents], CreateHost(first)
  PROVE  HostIInv'
<1> USE DEF HostIInv
<1>1. /\ row = NoHost /\ ~removed /\ row' = first /\ asked' = first
      /\ written' = [f \in Fields |-> {first[f]}]
      /\ UNCHANGED <<os, edit, found, raced, removed>>
  BY DEF CreateHost
<1>2. first # NoHost
  BY HostEditsAssumption DEF Contents
<1>3. Writing' = {}
  BY <1>1 DEF Copies, Writing
<1>4. HostTypeOK'
  BY <1>1 DEF HostTypeOK
<1> QED
  BY <1>1, <1>2, <1>3, <1>4 DEF Copies, HostFieldsAccounted

LEMMA ReadHostStep ==
  ASSUME HostIInv, NEW a \in Admins, NEW change \in Changes, ReadHost(a, change)
  PROVE  HostIInv'
<1> USE DEF HostIInv
<1> DEFINE new == [step |-> "write", copy |-> row, system |-> os, change |-> change, fresh |-> TRUE]
<1>1. /\ row # NoHost /\ edit' = [edit EXCEPT ![a] = new]
      /\ UNCHANGED <<row, os, asked, found, written, raced, removed>>
  BY DEF ReadHost
<1>2. new \in Edit
  BY <1>1 DEF HostTypeOK, Edit
<1>3. HostTypeOK'
  BY <1>1, <1>2 DEF HostTypeOK, Edit
<1>4. new.copy = row /\ edit'[a] = new /\ \A b \in Admins \ {a} : edit'[b] = edit[b]
  BY <1>1 DEF HostTypeOK
<1> HIDE DEF new
<1>5. Copies'
  <2>1. \A b \in Writing' : b = a \/ (b \in Writing /\ edit'[b] = edit[b])
    BY <1>4 DEF Writing
  <2> QED
    BY <1>1, <1>4, <2>1 DEF Copies, HostFieldsAccounted
<1> QED
  BY <1>1, <1>3, <1>5 DEF HostFieldsAccounted

\* The steps that end an edit leave the others as they are, or older.
LEMMA WriteHostStep ==
  ASSUME HostIInv, NEW a \in Admins, WriteHost(a)
  PROVE  HostIInv'
<1> USE DEF HostIInv
<1> DEFINE copy == edit[a].copy
           change == edit[a].change
<1>1. /\ a \in Writing /\ row # NoHost
      /\ row' = Overlay(copy, change) /\ asked' = Overlay(asked, change)
      /\ written' = [f \in Fields |-> IF f \in DOMAIN change
                                      THEN written[f] \cup {change[f]} ELSE written[f]]
      /\ raced' = (raced \/ ~edit[a].fresh)
      /\ edit' = [b \in Admins |-> IF b \notin Writing \ {a} THEN Idle
                                   ELSE [edit[b] EXCEPT !.fresh = FALSE]]
      /\ UNCHANGED <<os, found, removed>>
  BY DEF WriteHost, LeaveStale
<1>2. edit[a] \in Edit
  BY <1>1, WritingType
<1>3. copy \in [Fields -> Contents] /\ change \in Changes /\ edit[a].fresh \in BOOLEAN
  BY <1>2 DEF Edit
<1>4. asked \in [Fields -> Contents]
  BY <1>1 DEF Copies, HostTypeOK
<1>5. row' \in [Fields -> Contents] /\ asked' \in [Fields -> Contents]
  BY <1>1, <1>3, <1>4, OverlayType
<1>6. row' # NoHost /\ asked' # NoHost
  BY <1>5, HostEditsAssumption DEF Contents
<1> HIDE DEF copy, change
<1>7. ASSUME NEW b \in Admins
      PROVE  /\ edit'[b] \in {Idle} \cup Edit
             /\ b \in Writing' => /\ b \in Writing /\ edit'[b].copy = edit[b].copy
                                  /\ ~edit'[b].fresh
  <2>1. CASE b \in Writing \ {a}
    <3>1. edit[b] \in Edit /\ edit'[b] = [edit[b] EXCEPT !.fresh = FALSE]
      BY <1>1, <2>1, WritingType
    <3> QED
      BY <2>1, <3>1 DEF Edit
  <2>2. CASE b \notin Writing \ {a}
    <3>1. edit'[b] = Idle
      BY <1>1, <2>2
    <3> QED
      BY <3>1 DEF Writing, Idle
  <2> QED
    BY <2>1, <2>2
<1>8. written' \in [Fields -> SUBSET Contents]
  BY <1>1, <1>3, ChangedFields DEF HostTypeOK
<1>9. HostTypeOK'
  <2>1. edit' \in [Admins -> {Idle} \cup Edit]
    BY <1>1, <1>7
  <2>2. raced' \in BOOLEAN
    BY <1>1
  <2> QED
    BY <1>1, <1>5, <1>8, <2>1, <2>2 DEF HostTypeOK, Edit
<1>10. \A f \in Fields : copy[f] \in written[f] /\ written[f] \subseteq written'[f]
  BY <1>1 DEF Copies, copy
<1>11. Copies'
  <2>1. Writing' \subseteq Writing
    BY <1>7 DEF Writing
  <2>2. ASSUME NEW b \in Writing'
        PROVE  /\ \A f \in Fields : edit'[b].copy[f] \in written'[f]
               /\ ~edit'[b].fresh
    <3>1. b \in Admins /\ b \in Writing
      BY <2>1 DEF Writing
    <3>2. \A f \in Fields : edit[b].copy[f] \in written[f]
      BY <3>1 DEF Copies
    <3> QED
      BY <1>7, <1>10, <2>2, <3>1, <3>2
  <2> QED
    BY <1>6, <2>2 DEF Copies
<1>12. ~raced' => row' = asked'
  <2> SUFFICES ASSUME ~raced' PROVE row' = asked'
    OBVIOUS
  <2>1. copy = row /\ row = asked
    BY <1>1 DEF Copies, HostFieldsAccounted, copy
  <2> QED
    BY <1>1, <2>1
<1>13. \A f \in Fields : row'[f] \in written'[f]
  BY <1>1, <1>10 DEF Overlay
<1> QED
  BY <1>1, <1>9, <1>11, <1>12, <1>13 DEF HostFieldsAccounted

LEMMA WriteNothingStep ==
  ASSUME HostIInv, NEW a \in Admins, WriteNothing(a)
  PROVE  HostIInv'
<1> USE DEF HostIInv
<1>1. /\ edit' = [edit EXCEPT ![a] = Idle]
      /\ UNCHANGED <<row, os, asked, found, written, raced, removed>>
  BY DEF WriteNothing
<1>2. HostTypeOK'
  BY <1>1 DEF HostTypeOK
<1>3. \A b \in Writing' : b \in Writing /\ edit'[b] = edit[b]
  BY <1>1 DEF HostTypeOK, Writing, Idle
<1> QED
  BY <1>1, <1>2, <1>3 DEF Copies, HostFieldsAccounted

\* Every edit in progress holds a copy made of values requests gave, and its
\* copy is the row as long as nobody wrote since (service.go:131).
THEOREM HostInductive == HostSpec => []HostIInv
<1>1. HostIInv /\ [HostNext]_hostVars => HostIInv'
  <2> SUFFICES ASSUME HostIInv, [HostNext]_hostVars PROVE HostIInv'
    OBVIOUS
  <2>1. ASSUME NEW system \in Systems, UpdateOSDetection(system) PROVE HostIInv'
    BY <2>1 DEF UpdateOSDetection, HostIInv, HostTypeOK, Copies, HostFieldsAccounted, Writing
  <2>2. CASE DeleteHostRow
    BY <2>2 DEF DeleteHostRow, HostIInv, HostTypeOK, Copies, HostFieldsAccounted, Writing
  <2>3. CASE UNCHANGED hostVars
    BY <2>3 DEF hostVars, HostIInv, HostTypeOK, Copies, HostFieldsAccounted, Writing
  <2> QED
    BY <2>1, <2>2, <2>3, CreateHostStep, ReadHostStep, WriteHostStep, WriteNothingStep
    DEF HostNext
<1> QED
  BY <1>1, HostInitial, PTL DEF HostSpec

\* A row has all its columns, whatever a request leaves out.
THEOREM HostTyped == HostSpec => []HostTypeOK
<1>1. HostIInv => HostTypeOK
  BY DEF HostIInv
<1> QED
  BY <1>1, HostInductive, PTL

\* What any number of edits that overlap may do to each other, to what detection
\* found and to a row that was deleted (service.go:131, 159).
THEOREM EditsAccounted == HostSpec => []HostFieldsAccounted
<1>1. HostIInv => HostFieldsAccounted
  BY DEF HostIInv
<1> QED
  BY <1>1, HostInductive, PTL

-----------------------------------------------------------------------------
(***************************************************************************)
(* The policies.  What their theorems need of the table: a policy has a    *)
(* number for its priority and a reading of a clock for its creation.      *)
(***************************************************************************)
Placed(p) == p.priority \in Int /\ p.created \in Int

PolicyInv ==
  /\ hosts \subseteq Hosts
  /\ DOMAIN rows = Ids /\ made \in Nat
  /\ \A i \in Live : i <= made
  /\ \A i \in Live : Placed(rows[i])

\* What a request writes keeps both.
LEMMA RowOfBody ==
  ASSUME NEW body \in Bodies \cup {Blank}, NEW now \in Int
  PROVE  Placed(Row(body, now)) /\ Placed(Row(Filled(body), now))
<1>1. DOMAIN body = Columns /\ body.priority \in Int
  BY PoliciesAssumption
<1>2. Filled(body).priority = body.priority
  BY <1>1 DEF Filled, Columns
<1> QED
  BY <1>1, <1>2 DEF Row, Placed

LEMMA DeleteHostStep ==
  ASSUME NEW h \in Hosts, DeleteHost(h)
  PROVE  /\ hosts' = hosts \ {h} /\ h \in hosts
         /\ Live' = {i \in Live : rows[i].host # h}
         /\ \A i \in Live' : rows'[i] = rows[i]
BY DEF DeleteHost, Live

\* The table keeps what an INSERT gave a policy to be ordered by.
THEOREM PolicyInductive == Spec => []PolicyInv
<1>1. Init => PolicyInv
  BY DEF Init, PolicyInv, Live
<1>2. PolicyInv /\ [Next]_vars => PolicyInv'
  <2> SUFFICES ASSUME PolicyInv, [Next]_vars PROVE PolicyInv'
    OBVIOUS
  <2>1. ASSUME NEW body \in Bodies, NEW now \in Times, Create(body, now) PROVE PolicyInv'
    <3>1. Placed(Row(Filled(body), now))
      BY RowOfBody, PoliciesAssumption
    <3>2. made' = made + 1 /\ hosts' = hosts /\ made \in Nat /\ DOMAIN rows = Ids
          /\ rows' = [rows EXCEPT ![made + 1] = Row(Filled(body), now)]
      BY <2>1 DEF Create, PolicyInv
    <3>3. \A i \in Live' : i = made + 1 \/ (i \in Live /\ rows'[i] = rows[i])
      BY <3>2 DEF Live
    <3>4. \A i \in Live' : i \in Ids /\ (i = made + 1 => rows'[i] = Row(Filled(body), now))
      BY <2>1, <3>2 DEF Live, Create
    <3> QED
      BY <3>1, <3>2, <3>3, <3>4 DEF PolicyInv, Placed, Ids
  <2>2. ASSUME NEW i \in Ids, NEW body \in Bodies \cup {Blank}, Update(i, body)
        PROVE  PolicyInv'
    <3>1. Placed(Row(body, rows[i].created))
      BY <2>2, RowOfBody DEF Update, PolicyInv, Placed
    <3>2. rows' = [rows EXCEPT ![i] = Row(body, rows[i].created)] /\ i \in Live
          /\ DOMAIN rows = Ids
          /\ UNCHANGED <<made, hosts>>
      BY <2>2 DEF Update, PolicyInv
    <3>3. \A j \in Live' : j \in Live /\ (j # i => rows'[j] = rows[j])
                          /\ (j = i => rows'[j] = Row(body, rows[i].created))
      BY <3>2 DEF Live
    <3> QED
      BY <3>1, <3>2, <3>3 DEF PolicyInv, Placed
  <2>3. ASSUME NEW i \in Ids, Delete(i) PROVE PolicyInv'
    BY <2>3 DEF Delete, PolicyInv, Live, Placed
  <2>4. ASSUME NEW h \in Hosts, DeleteHost(h) PROVE PolicyInv'
    BY <2>4, DeleteHostStep DEF PolicyInv, DeleteHost, Placed
  <2>5. ASSUME NEW h \in Hosts, OpenSession(h) PROVE PolicyInv'
    BY <2>5 DEF OpenSession, PolicyInv, Live, Placed
  <2>6. CASE UNCHANGED vars
    BY <2>6 DEF vars, PolicyInv, Live, Placed
  <2> QED
    BY <2>1, <2>2, <2>3, <2>4, <2>5, <2>6 DEF Next
<1> QED
  BY <1>1, <1>2, PTL DEF Spec

\* What findPolicies may return applies, and nothing that applies precedes it.
LEMMA FoundPolicy ==
  ASSUME NEW u, NEW h, NEW p \in FindPolicies(Table, u, h)
  PROVE  /\ p \in Table /\ Applies(p, u, h)
         /\ \A q \in Table : Applies(q, u, h) => ~Precedes(q, p)
BY DEF FindPolicies

LEMMA TablePlaced ==
  ASSUME PolicyInv, NEW p \in Table
  PROVE  Placed(p)
BY DEF PolicyInv, Table

\* Nobody is refused but for the hours of the policy in force (engine.go:48).
THEOREM OnlyHoursRefuse == Spec => []RefusedByHours
<1>1. PolicyInv => RefusedByHours
  <2> SUFFICES ASSUME PolicyInv, NEW u \in Users, NEW h \in hosts, NEW t \in Hours,
                      NEW d \in Evaluate(Table, u, h, t), ~d.session
               PROVE  \E p \in Table :
                        /\ p.enabled /\ Applies(p, u, h)
                        /\ p.hours # Always /\ ~InHours(p.hours, t)
                        /\ \A q \in Table : Applies(q, u, h) => q.priority <= p.priority
    BY DEF RefusedByHours
  <2>1. d # DefaultDecision
    BY DEF DefaultDecision
  <2>2. PICK p \in FindPolicies(Table, u, h) : d = Decision(p, t)
    BY <2>1 DEF Evaluate
  <2>3. p \in Table /\ p.enabled /\ Applies(p, u, h)
    BY FoundPolicy DEF Applies
  <2>4. p.hours # Always /\ ~InHours(p.hours, t)
    BY <2>2, <2>3 DEF Decision, InHours
  <2>5. ASSUME NEW q \in Table, Applies(q, u, h)
        PROVE  q.priority <= p.priority
    <3>1. ~Precedes(q, p)
      BY <2>5, FoundPolicy
    <3> QED
      BY <2>3, <3>1, TablePlaced DEF Precedes, Placed
  <2> QED
    BY <2>3, <2>4, <2>5
<1> QED
  BY <1>1, PolicyInductive, PTL

\* The managers of a session against the engine (clipboard.go:18, 50).
THEOREM ManagersObeyEngine == Spec => []ManagersNeverLaxer
<1>1. ManagersNeverLaxer
  BY DEF ManagersNeverLaxer, AllowUpload, CheckFile, CheckFileExtension,
         ClipboardAllow, CheckClipboard, Directions
<1> QED
  BY <1>1, PTL

\* A decision is a matter of the policies that apply.
LEMMA SameApplies ==
  ASSUME NEW S, NEW T, NEW u, NEW h, NEW t,
         {p \in S : Applies(p, u, h)} = {p \in T : Applies(p, u, h)}
  PROVE  Evaluate(S, u, h, t) = Evaluate(T, u, h, t)
<1>1. FindPolicies(S, u, h) = FindPolicies(T, u, h)
  BY DEF FindPolicies
<1> QED
  BY <1>1 DEF Evaluate

\* The CASCADE and the RESTRICT of the foreign keys (001_init_schema.up.sql:96).
THEOREM DeletionsAreLocal == Spec => DeletionIsLocal
<1>1. ASSUME PolicyInv, [Next]_vars, hosts' # hosts, NEW g \in hosts'
      PROVE  Decisions(g)' = Decisions(g)
  <2>1. PICK h \in Hosts : DeleteHost(h)
    BY <1>1 DEF Next, vars, Create, Update, Delete, OpenSession
  <2>2. g \in Hosts /\ g # h /\ g # AnyHost /\ h # AnyHost
    BY <1>1, <2>1, DeleteHostStep, PoliciesAssumption DEF PolicyInv
  <2>3. ASSUME NEW p PROVE p \in Table' <=> p \in Table /\ p.host # h
    BY <2>1, DeleteHostStep DEF Table
  <2>4. ASSUME NEW u \in Users, NEW t \in Hours
        PROVE  Evaluate(Table', u, g, t) = Evaluate(Table, u, g, t)
    <3>1. \A p : Applies(p, u, g) => p.host # h
      BY <2>2 DEF Applies
    <3>2. {p \in Table' : Applies(p, u, g)} = {p \in Table : Applies(p, u, g)}
      BY <2>3, <3>1
    <3> QED
      BY <3>2, SameApplies
  <2>5. \A asking \in Users \X Hours :
          Evaluate(Table', asking[1], g, asking[2]) = Evaluate(Table, asking[1], g, asking[2])
    BY <2>4
  <2> QED
    BY <2>5 DEF Decisions
<1>2. PolicyInv /\ [Next]_vars => [hosts' # hosts => Unaffected]_vars
  BY <1>1 DEF Unaffected
<1> QED
  BY <1>2, PolicyInductive, PTL DEF Spec, DeletionIsLocal

-----------------------------------------------------------------------------
\* Where an older policy applies whose number is not smaller, what is added to a
\* set of policies decides nothing.
LEMMA LaterAndNotAbove ==
  ASSUME NEW S, NEW new, NEW p \in S, NEW u, NEW h, NEW t,
         \A q \in S \cup {new} : Placed(q),
         Applies(p, u, h), p.priority >= new.priority, p.created < new.created
  PROVE  Evaluate(S \cup {new}, u, h, t) = Evaluate(S, u, h, t)
<1>1. Precedes(p, new)
  BY DEF Precedes, Placed
<1>2. ASSUME NEW q \in S, Precedes(new, q) PROVE Precedes(p, q)
  BY <1>2 DEF Precedes, Placed
<1>3. ASSUME NEW q \in FindPolicies(S \cup {new}, u, h) PROVE q \in FindPolicies(S, u, h)
  BY <1>1 DEF FindPolicies
<1>4. ASSUME NEW q \in FindPolicies(S, u, h) PROVE q \in FindPolicies(S \cup {new}, u, h)
  BY <1>2 DEF FindPolicies
<1>5. FindPolicies(S \cup {new}, u, h) = FindPolicies(S, u, h)
  BY <1>3, <1>4
<1> QED
  BY <1>5 DEF Evaluate

\* The scope of a new policy buys it nothing (engine.go:25, 131).
THEOREM NewcomersAlwaysYield == Spec => NewcomersYield
<1>1. ASSUME PolicyInv, [Next]_vars, made' # made PROVE NewcomerYields
  <2>1. PICK body \in Bodies, now \in Times : Create(body, now)
    BY <1>1 DEF Next, vars, Update, Delete, DeleteHost, OpenSession
  <2> DEFINE new == Row(Filled(body), now)
  <2>2. made' = made + 1 /\ rows' = [rows EXCEPT ![made + 1] = new]
        /\ made + 1 \in Ids /\ DOMAIN rows = Ids
    BY <1>1, <2>1, PoliciesAssumption DEF Create, PolicyInv, Ids
  <2>3. Placed(new)
    BY <2>1, RowOfBody, PoliciesAssumption
  <2> HIDE DEF new
  <2>4. \A i \in Live : i # made + 1 /\ i \in Ids
    BY <1>1 DEF PolicyInv, Live, Ids
  <2>5. \A i \in Live : i \in Live' /\ rows'[i] = rows[i]
    BY <2>2, <2>4 DEF Live
  <2>6. \A i \in Live' : i = made' \/ (i \in Live /\ rows'[i] = rows[i])
    BY <2>2 DEF Live
  <2>7. rows'[made'] = new /\ made' \in Ids
    BY <2>2
  <2>8. made' \in Live' => Table' = Table \cup {new}
    BY <2>5, <2>6, <2>7 DEF Table
  <2>9. made' \notin Live' => Table' = Table
    BY <2>5, <2>6 DEF Table
  <2>10. \A q \in Table \cup {new} : Placed(q)
    BY <1>1, <2>3, TablePlaced
  <2>11. ASSUME NEW u \in Users, NEW h \in hosts, NEW t \in Hours, NEW p \in Table,
                Applies(p, u, h), p.priority >= new.priority, p.created < new.created
         PROVE  Evaluate(Table', u, h, t) = Evaluate(Table, u, h, t)
    <3>1. Evaluate(Table \cup {new}, u, h, t) = Evaluate(Table, u, h, t)
      BY <2>10, <2>11, LaterAndNotAbove
    <3> QED
      BY <2>8, <2>9, <3>1
  <2> QED
    BY <2>7, <2>11 DEF NewcomerYields
<1>2. PolicyInv /\ [Next]_vars => [made' # made => NewcomerYields]_vars
  BY <1>1
<1> QED
  BY <1>2, PolicyInductive, PTL DEF Spec, NewcomersYield

\* A finite set with a strict order has a member that nothing precedes.
LEMMA FirstExists ==
  ASSUME NEW S, IsFiniteSet(S), S # {}, NEW R,
         \A x \in S : <<x, x>> \notin R,
         \A x, y, z \in S : <<x, y>> \in R /\ <<y, z>> \in R => <<x, z>> \in R
  PROVE  \E x \in S : \A y \in S : <<y, x>> \notin R
<1> DEFINE Before(x) == {y \in S : <<y, x>> \in R}
           befores == {Before(x) : x \in S}
           order == StrictSubsetOrdering(S)
<1>1. IsWellFoundedOn(order, SUBSET S)
  BY FS_StrictSubsetOrderingWellFounded, FS_FiniteSubsetsOfFinite
<1>2. befores \subseteq SUBSET S
  OBVIOUS
<1>3. befores # {}
  <2>1. PICK x \in S : TRUE
    OBVIOUS
  <2>2. Before(x) \in befores
    BY Zenon
  <2> QED
    BY <2>2, Zenon
<1> HIDE DEF befores, order
<1>4. PICK b \in befores : \A c \in befores : <<c, b>> \notin order
  BY <1>1, <1>2, <1>3, WFMin
<1>5. PICK x \in S : b = Before(x)
  BY <1>4 DEF befores
<1>6. ASSUME NEW y \in S, <<y, x>> \in R PROVE FALSE
  <2>1. Before(y) \subseteq Before(x) /\ y \in Before(x) /\ y \notin Before(y)
    BY <1>6
  <2>2. <<Before(y), Before(x)>> \in order
    BY <2>1 DEF order, StrictSubsetOrdering
  <2>3. Before(y) \in befores
    BY DEF befores
  <2> QED
    BY <1>4, <1>5, <2>2, <2>3
<1> QED
  BY <1>6

\* Whenever a policy applies, one is found, and the database has a choice only
\* between policies of one number and one creation time.
SomeDecide ==
  \A u \in Users, h \in hosts :
    LET candidates == FindPolicies(Table, u, h)
    IN /\ (\E p \in Table : Applies(p, u, h)) => candidates # {}
       /\ \A p, q \in candidates : p.priority = q.priority /\ p.created = q.created

\* The ORDER BY of findPolicies leaves nothing but ties to the database
\* (engine.go:131).
THEOREM OnlyTiesAreOpen == Spec => []SomeDecide
<1>1. ASSUME PolicyInv, NEW u \in Users, NEW h \in hosts,
             \E p \in Table : Applies(p, u, h)
      PROVE  FindPolicies(Table, u, h) # {}
  <2> DEFINE ids == {i \in Live : Applies(rows[i], u, h)}
             R == {e \in ids \X ids : Precedes(rows[e[1]], rows[e[2]])}
  <2>1. IsFiniteSet(ids)
    <3>1. IsFiniteSet(Ids)
      BY FS_Interval, PoliciesAssumption DEF Ids
    <3> QED
      BY <3>1, FS_Subset DEF Live
  <2>2. ids # {}
    BY <1>1 DEF Table
  <2>3. \A i \in ids : Placed(rows[i])
    BY <1>1 DEF PolicyInv
  <2>4. \A i, j \in ids : <<i, j>> \in R <=> Precedes(rows[i], rows[j])
    OBVIOUS
  <2> HIDE DEF ids, R
  <2>5. \A i \in ids : <<i, i>> \notin R
    BY <2>3, <2>4 DEF Precedes, Placed
  <2>6. \A i, j, k \in ids : <<i, j>> \in R /\ <<j, k>> \in R => <<i, k>> \in R
    BY <2>3, <2>4 DEF Precedes, Placed
  <2>7. PICK i \in ids : \A j \in ids : <<j, i>> \notin R
    BY <2>1, <2>2, <2>5, <2>6, FirstExists
  <2>8. rows[i] \in Table /\ Applies(rows[i], u, h)
    BY DEF ids, Table
  <2>9. ASSUME NEW q \in Table, Applies(q, u, h)
        PROVE  ~Precedes(q, rows[i])
    <3>1. PICK j \in ids : q = rows[j]
      BY <2>9 DEF Table, ids
    <3> QED
      BY <2>4, <2>7, <3>1
  <2>10. rows[i] \in FindPolicies(Table, u, h)
    BY <2>8, <2>9 DEF FindPolicies
  <2> QED
    BY <2>10
<1>2. ASSUME PolicyInv, NEW u, NEW h,
             NEW p \in FindPolicies(Table, u, h), NEW q \in FindPolicies(Table, u, h)
      PROVE  p.priority = q.priority /\ p.created = q.created
  <2>1. Placed(p) /\ Placed(q) /\ ~Precedes(p, q) /\ ~Precedes(q, p)
    BY <1>2, FoundPolicy, TablePlaced
  <2> QED
    BY <2>1 DEF Precedes, Placed
<1>3. PolicyInv => SomeDecide
  BY <1>1, <1>2 DEF SomeDecide
<1> QED
  BY <1>3, PolicyInductive, PTL
=============================================================================
