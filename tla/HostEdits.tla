------------------------------ MODULE HostEdits -------------------------------
(***************************************************************************)
(* One row of hosts under internal/host: created once, edited by several   *)
(* administrators at a time, written to by the detection of its operating  *)
(* system, deleted.  UpdateHost reads the whole row, changes the fields    *)
(* the request names, and writes all the editable columns back, with       *)
(* nothing that ties the second statement to the first.                    *)
(***************************************************************************)
EXTENDS Naturals

CONSTANTS
  Admins,    \* the requests to edit in flight at one time
  Fields,    \* the editable columns
  Required,  \* those POST /hosts does not leave empty: it asks for them, or, the
             \* status, sets them itself
  Values,    \* what a column can hold besides nothing
  Empty,     \* "" or 0
  Systems,   \* what detection finds
  NoHost

ASSUME HostEditsAssumption ==
  /\ Required \subseteq Fields
  /\ Empty \notin Values
  /\ NoHost \notin [Fields -> Values \cup {Empty}]

VARIABLES
  row,       \* the editable columns, NoHost before the INSERT and after the DELETE
  os,        \* detected_os, Empty for NULL
  edit,      \* each request: its step, the row it read, what it changes, and
             \* (history) whether no other request has written since
  asked,     \* history: the columns had every edit been one step
  found,     \* history: what detection reported last
  written,   \* history: the values any request gave each column
  raced,     \* history: some request wrote back a row it had read before
             \* another one wrote
  removed    \* history: the row was deleted

hostVars == <<row, os, edit, asked, found, written, raced, removed>>

Contents == Values \cup {Empty}
Idle == [step |-> "idle"]

\* The fields of a request that are not nil: a function on some of Fields.
Changes == UNION {[S -> Contents] : S \in SUBSET Fields}

\* Mutant: a field the request does not have is set to nothing.
OverlayAll(old, change) ==
  [f \in Fields |-> IF f \in DOMAIN change THEN change[f] ELSE Empty]

\* Mutant: the row is made from the request alone.
OverlayNothing(old, change) == change

\* The assignments of UpdateHost, each behind its check for nil.
Overlay(old, change) ==
  [f \in Fields |-> IF f \in DOMAIN change THEN change[f] ELSE old[f]]

Writing == {a \in Admins : edit[a].step = "write"}

HostInit ==
  /\ row = NoHost
  /\ os = Empty
  /\ edit = [a \in Admins |-> Idle]
  /\ asked = NoHost
  /\ found = Empty
  /\ written = [f \in Fields |-> {}]
  /\ raced = FALSE
  /\ removed = FALSE

\* One request leaves with a write, and the others' copies are old.
LeaveStale(a) ==
  edit' = [b \in Admins |-> IF b \notin Writing \ {a} THEN Idle
                           ELSE [edit[b] EXCEPT !.fresh = FALSE]]

-----------------------------------------------------------------------------
\* What POST /hosts sees to, and no later request does.
Complete(first) == \A f \in Required : first[f] # Empty

CreateHost(first) ==
  /\ row = NoHost /\ ~removed
  /\ Complete(first)
  /\ row' = first /\ asked' = first
  /\ written' = [f \in Fields |-> {first[f]}]
  /\ UNCHANGED <<os, edit, found, raced, removed>>

\* GetHost: the copy UpdateHost works from; without a row the request is
\* refused, which changes nothing.
ReadHost(a, change) ==
  /\ edit[a] = Idle /\ row # NoHost
  /\ edit' = [edit EXCEPT ![a] = [step |-> "write", copy |-> row, system |-> os,
                                  change |-> change, fresh |-> TRUE]]
  /\ UNCHANGED <<row, os, asked, found, written, raced, removed>>

\* Mutant: the columns of the detection are written back too.
WriteAll(a) ==
  /\ a \in Writing /\ row # NoHost
  /\ row' = Overlay(edit[a].copy, edit[a].change)
  /\ os' = edit[a].system
  /\ asked' = Overlay(asked, edit[a].change)
  /\ written' = [f \in Fields |-> written[f] \cup {row'[f]}]
  /\ raced' = (raced \/ ~edit[a].fresh)
  /\ LeaveStale(a)
  /\ UNCHANGED <<found, removed>>

\* The UPDATE of every editable column.
WriteHost(a) ==
  /\ a \in Writing /\ row # NoHost
  /\ row' = Overlay(edit[a].copy, edit[a].change)
  /\ asked' = Overlay(asked, edit[a].change)
  /\ written' = [f \in Fields |-> IF f \in DOMAIN edit[a].change
                   THEN written[f] \cup {edit[a].change[f]} ELSE written[f]]
  /\ raced' = (raced \/ ~edit[a].fresh)
  /\ LeaveStale(a)
  /\ UNCHANGED <<os, found, removed>>

\* It fails, or finds no row to change: then the answer is 200 all the same.
WriteNothing(a) ==
  /\ a \in Writing
  /\ edit' = [edit EXCEPT ![a] = Idle]
  /\ UNCHANGED <<row, os, asked, found, written, raced, removed>>

\* UpdateOSDetection: a statement of its own on columns of its own.
UpdateOSDetection(system) ==
  /\ row # NoHost
  /\ os' = system /\ found' = system
  /\ UNCHANGED <<row, edit, asked, written, raced, removed>>

DeleteHostRow ==
  /\ row # NoHost
  /\ row' = NoHost /\ asked' = NoHost /\ removed' = TRUE
  /\ UNCHANGED <<os, edit, found, written, raced>>

HostNext ==
  \/ \E first \in [Fields -> Contents] : CreateHost(first)
  \/ \E a \in Admins :
       \/ \E change \in Changes : ReadHost(a, change)
       \/ WriteHost(a) \/ WriteNothing(a)
  \/ \E system \in Systems : UpdateOSDetection(system)
  \/ DeleteHostRow

HostSpec == HostInit /\ [][HostNext]_hostVars

-----------------------------------------------------------------------------
\* Type correctness: a row has all its columns, whatever a request leaves out.
HostTypeOK ==
  /\ row \in [Fields -> Contents] \cup {NoHost}
  /\ os \in Systems \cup {Empty}
  /\ edit \in [Admins -> {Idle} \cup [step : {"write"}, copy : [Fields -> Contents],
                                      system : Systems \cup {Empty}, change : Changes,
                                      fresh : BOOLEAN]]
  /\ asked \in [Fields -> Contents] \cup {NoHost}
  /\ found \in Systems \cup {Empty}
  /\ written \in [Fields -> SUBSET Contents]
  /\ raced \in BOOLEAN /\ removed \in BOOLEAN

\* What edits that overlap may do to each other (service.go:131, 159): as long
\* as nobody wrote back an old row, the row is what it would be had every edit been one statement,
\* so no field is lost; after that, a field may be older than the last value
\* given to it, but it is a value some request gave that very field.  An edit
\* that began before a deletion does not bring the row back, and none of them
\* touches what detection found.
HostFieldsAccounted ==
  /\ ~raced => row = asked
  /\ row # NoHost => \A f \in Fields : row[f] \in written[f]
  /\ removed => row = NoHost
  /\ os = found
=============================================================================
