------------------------------ MODULE RelayHub ------------------------------
(***************************************************************************)
(* internal/relay: the hub, and the WebSocket connections that register in *)
(* it.  A connection is one call of ServeWS from the moment its token was  *)
(* accepted and its upgrade done, and the reader goroutine it starts.      *)
(*                                                                         *)
(* The hub maps a session to the RelaySession last registered for it.      *)
(* Every connection makes its own, with its own input channel, so the      *)
(* connection names both.  The sections under the hub's lock do not block  *)
(* and are one step each; a lookup and the use of what it found are two.   *)
(* A write to a WebSocket begins and ends: gorilla panics when two         *)
(* overlap.  A panic in a goroutine that is not a handler ends the server. *)
(***************************************************************************)
EXTENDS Integers, Sequences

CONSTANTS
  Conns,      \* the connections ever made
  Sessions,   \* the session ids they name
  NoConn,     \* no connection
  Capacity,   \* 100, ws_handler.go:61
  MaxFrames   \* bound: the frames a client sends

ASSUME RelayHubAssumption ==
  /\ NoConn \notin Conns
  /\ Capacity \in Nat \ {0}
  /\ MaxFrames \in Nat

VARIABLES
  hub,         \* h.sessions
  closed,      \* the connections whose input channel is closed
  queue,       \* the frames in each input channel
  session,     \* the session each connection names
  handler,     \* where each call of ServeWS is
  reader,      \* where each reader goroutine is, and what it looked up
  sent,        \* the frames each client has sent to the relay
  crashed,     \* did a panic end the server?
  overwritten, \* history: the registrations replaced by a later one
  settled      \* history: the frames a relay took, and those that were dropped

conns == <<session, handler, reader, sent>>
vars == <<hub, closed, queue, conns, crashed, overwritten, settled>>

HandlerSteps == {"new", "ack", "acking", "unregister", "end", "done"}
ReaderSteps == {"off", "read", "lookup", "send", "ping", "pinging", "gone"}
Reader == [step : ReaderSteps, to : Conns \cup {NoConn}]
Frame == [from : Conns, n : Nat]

\* The frame a reader has in hand.
Latest(c) == [from |-> c, n |-> sent[c]]
Settle(frames) == settled' = settled \cup frames

\* The handler has registered its connection and will still unregister.
Serving == {"ack", "acking", "unregister"}

Registered == {hub[s] : s \in Sessions} \ {NoConn}

ReaderAt(c, step) == reader[c].step = step
ReaderTo(c, step) == reader' = [reader EXCEPT ![c] = [step |-> step, to |-> NoConn]]
HandlerTo(c, step) == handler' = [handler EXCEPT ![c] = step]

-----------------------------------------------------------------------------
Init ==
  /\ hub = [s \in Sessions |-> NoConn]
  /\ closed = {}
  /\ queue = [c \in Conns |-> <<>>]
  /\ session \in [Conns -> Sessions]
  /\ handler = [c \in Conns |-> "new"]
  /\ reader = [c \in Conns |-> [step |-> "off", to |-> NoConn]]
  /\ sent = [c \in Conns |-> 0]
  /\ crashed = FALSE
  /\ overwritten = {}
  /\ settled = {}

\* Mutant: a session that has a registration keeps it.
RegisterOnce(c) ==
  /\ handler[c] = "new"
  /\ hub' = [hub EXCEPT ![session[c]] = IF @ = NoConn THEN c ELSE @]
  /\ overwritten' = overwritten
  /\ HandlerTo(c, "ack")
  /\ ReaderTo(c, "read")
  /\ UNCHANGED <<closed, queue, session, sent, crashed, settled>>

\* Register, over whatever the session had, and the go statement.
Register(c) ==
  /\ handler[c] = "new"
  /\ hub' = [hub EXCEPT ![session[c]] = c]
  /\ overwritten' = overwritten \cup ({hub[session[c]]} \ {NoConn})
  /\ HandlerTo(c, "ack")
  /\ ReaderTo(c, "read")
  /\ UNCHANGED <<closed, queue, session, sent, crashed, settled>>

\* Mutant: the panic skips Unregister, which is called and not deferred.
BeginAckUndeferred(c) ==
  /\ handler[c] = "ack"
  /\ HandlerTo(c, IF ReaderAt(c, "pinging") THEN "end" ELSE "acking")
  /\ UNCHANGED <<hub, closed, queue, session, reader, sent, crashed, overwritten, settled>>

\* The acknowledgement.  When the reader is writing the handler panics: its
\* deferred function runs, and the Recoverer keeps the server alive.
BeginAck(c) ==
  /\ handler[c] = "ack"
  /\ HandlerTo(c, IF ReaderAt(c, "pinging") THEN "unregister" ELSE "acking")
  /\ UNCHANGED <<hub, closed, queue, session, reader, sent, crashed, overwritten, settled>>

EndAck(c) ==
  /\ handler[c] = "acking"
  /\ HandlerTo(c, "unregister")
  /\ UNCHANGED <<hub, closed, queue, session, reader, sent, crashed, overwritten, settled>>

\* Mutants: the entry is kept; the lock is waited for while a reader holds it
\* over a send that waits for room.
UnregisterKeeps(c) ==
  LET registered == hub[session[c]]
  IN /\ handler[c] = "unregister"
     /\ closed' = closed \cup ({registered} \ {NoConn})
     /\ HandlerTo(c, "end")
     /\ UNCHANGED <<hub, queue, session, reader, sent, crashed, overwritten, settled>>

UnregisterWaits(c) ==
  LET registered == hub[session[c]]
  IN /\ handler[c] = "unregister"
     /\ ~\E d \in Conns : ReaderAt(d, "send") /\ Len(queue[reader[d].to]) = Capacity
     /\ closed' = closed \cup ({registered} \ {NoConn})
     /\ hub' = [hub EXCEPT ![session[c]] = NoConn]
     /\ HandlerTo(c, "end")
     /\ UNCHANGED <<queue, session, reader, sent, crashed, overwritten, settled>>

\* The deferred Unregister: it closes the channel that is registered, whoever
\* registered it.
Unregister(c) ==
  LET registered == hub[session[c]]
  IN /\ handler[c] = "unregister"
     /\ closed' = closed \cup ({registered} \ {NoConn})
     /\ hub' = [hub EXCEPT ![session[c]] = NoConn]
     /\ HandlerTo(c, "end")
     /\ UNCHANGED <<queue, session, reader, sent, crashed, overwritten, settled>>

\* The deferred EndSession, one UPDATE of the session's row whose error is
\* dropped (SessionTokens models the row), and the return.
EndSession(c) ==
  /\ handler[c] = "end"
  /\ HandlerTo(c, "done")
  /\ UNCHANGED <<hub, closed, queue, session, reader, sent, crashed, overwritten, settled>>

-----------------------------------------------------------------------------
\* ReadMessage returns a ping or a frame for the relay.  A malformed one is
\* skipped.
Read(c) ==
  /\ ReaderAt(c, "read")
  /\ \/ ReaderTo(c, "ping") /\ UNCHANGED sent
     \/ /\ sent[c] < MaxFrames
        /\ sent' = [sent EXCEPT ![c] = @ + 1]
        /\ ReaderTo(c, "lookup")
  /\ UNCHANGED <<hub, closed, queue, session, handler, crashed, overwritten, settled>>

\* ReadMessage fails: the client left.
Leave(c) ==
  /\ ReaderAt(c, "read")
  /\ ReaderTo(c, "gone")
  /\ UNCHANGED <<hub, closed, queue, session, handler, sent, crashed, overwritten, settled>>

\* ForwardToRelay under the read lock.  Without a registration the frame is
\* dropped.
Lookup(c) ==
  LET found == hub[session[c]]
  IN /\ ReaderAt(c, "lookup")
     /\ reader' = [reader EXCEPT ![c] =
          [step |-> IF found = NoConn THEN "read" ELSE "send", to |-> found]]
     /\ Settle(IF found = NoConn THEN {Latest(c)} ELSE {})
     /\ UNCHANGED <<hub, closed, queue, session, handler, sent, crashed, overwritten>>

\* Mutant: a full channel loses its oldest frame to make room.
SendEvicting(c) ==
  LET to == reader[c].to
  IN /\ ReaderAt(c, "send")
     /\ to \notin closed
     /\ queue' = [queue EXCEPT ![to] =
                    Append(IF Len(@) < Capacity THEN @ ELSE Tail(@), Latest(c))]
     /\ ReaderTo(c, "read")
     /\ UNCHANGED <<hub, closed, session, handler, sent, crashed, overwritten, settled>>

\* ForwardToRelay after the lock: into the channel if there is room, dropped
\* if not.
Send(c) ==
  LET to == reader[c].to
  IN /\ ReaderAt(c, "send")
     /\ to \notin closed
     /\ IF Len(queue[to]) < Capacity
        THEN queue' = [queue EXCEPT ![to] = Append(@, Latest(c))] /\ UNCHANGED settled
        ELSE Settle({Latest(c)}) /\ UNCHANGED queue
     /\ ReaderTo(c, "read")
     /\ UNCHANGED <<hub, closed, session, handler, sent, crashed, overwritten>>

\* The channel was closed after the lookup: the send panics.
SendClosed(c) ==
  /\ ReaderAt(c, "send")
  /\ reader[c].to \in closed
  /\ crashed' = TRUE
  /\ UNCHANGED <<hub, closed, queue, conns, overwritten, settled>>

\* The answer to a ping; it panics while the handler writes.
BeginPing(c) ==
  /\ ReaderAt(c, "ping")
  /\ \/ /\ handler[c] # "acking"
        /\ ReaderTo(c, "pinging")
        /\ UNCHANGED crashed
     \/ /\ handler[c] = "acking"
        /\ crashed' = TRUE
        /\ UNCHANGED reader
  /\ UNCHANGED <<hub, closed, queue, session, handler, sent, overwritten, settled>>

EndPing(c) ==
  /\ ReaderAt(c, "pinging")
  /\ ReaderTo(c, "read")
  /\ UNCHANGED <<hub, closed, queue, session, handler, sent, crashed, overwritten, settled>>

\* A relay that holds the channel takes a frame from it, closed or not.
Take(c) ==
  /\ queue[c] # <<>>
  /\ queue' = [queue EXCEPT ![c] = Tail(@)]
  /\ Settle({Head(queue[c])})
  /\ UNCHANGED <<hub, closed, conns, crashed, overwritten>>

-----------------------------------------------------------------------------
ServeWS(c) ==
  Register(c) \/ BeginAck(c) \/ EndAck(c) \/ Unregister(c) \/ EndSession(c)

ReadLoop(c) ==
  \/ Read(c) \/ Leave(c) \/ Lookup(c) \/ Send(c) \/ SendClosed(c)
  \/ BeginPing(c) \/ EndPing(c)

Next == ~crashed /\ \E c \in Conns : ServeWS(c) \/ ReadLoop(c) \/ Take(c)

\* A goroutine that can run does: the steps of a call once it has registered.
\* The acknowledgement, and the few answers to pings that can precede it, fit
\* the send buffer of a new connection.
Returns(c) == ~crashed /\ (BeginAck(c) \/ EndAck(c) \/ Unregister(c) \/ EndSession(c))

Spec == Init /\ [][Next]_vars /\ \A c \in Conns : WF_vars(Returns(c))

-----------------------------------------------------------------------------
\* The type of every variable.
TypeOK ==
  /\ hub \in [Sessions -> Conns \cup {NoConn}]
  /\ closed \subseteq Conns
  /\ queue \in [Conns -> Seq(Frame)]
  /\ \A c \in Conns : Len(queue[c]) <= Capacity
  /\ session \in [Conns -> Sessions]
  /\ handler \in [Conns -> HandlerSteps]
  /\ reader \in [Conns -> Reader]
  /\ sent \in [Conns -> Nat]
  /\ crashed \in BOOLEAN
  /\ overwritten \subseteq Conns
  /\ settled \subseteq Frame

\* What is registered belongs to a call that has not unregistered yet: no
\* registration outlives its handler, whichever handler of the session
\* unregisters first (hub.go:30, 37-39; ws_handler.go:73-77).
RegistrationHasHandler ==
  \A s \in Sessions :
    hub[s] # NoConn => handler[hub[s]] \in Serving /\ session[hub[s]] = s

\* A registered channel is open, however the registrations of a session replace
\* each other: Unregister never closes a channel twice (hub.go:38), and a
\* lookup never finds a closed one, so that a send can only panic when an
\* Unregister came between its lookup and it (hub.go:55-58).
NeverClosedTwice == Registered \cap closed = {}

\* When a call has unregistered, its channel is closed unless a later
\* registration of the session replaced it: only those leak, and a relay that
\* reads one never sees its end (hub.go:30, 38).
OrphansWereOverwritten ==
  \A c \in Conns :
    handler[c] \in {"end", "done"} /\ c \notin closed => c \in overwritten

InHand(f) == reader[f.from].step \in {"lookup", "send"} /\ f.n = sent[f.from]

Queued(f, d) == \E i \in 1..Len(queue[d]) : queue[d][i] = f

\* A frame is in one place: in its reader's hand, in a channel of its session, or
\* settled, that is taken by a relay or dropped for want of a registration or of
\* room (hub.go:52-61).  So none is lost in a channel, none is delivered twice
\* when registrations replace each other, and a channel has each client's frames
\* in the order they were sent, with gaps where some were dropped.
FramesAccounted ==
  /\ \A c \in Conns : \A n \in 1..sent[c] :
       LET f == [from |-> c, n |-> n]
       IN InHand(f) \/ f \in settled \/ \E d \in Conns : Queued(f, d)
  /\ \A d \in Conns : \A i \in 1..Len(queue[d]) :
       LET f == queue[d][i]
       IN /\ session[f.from] = session[d]
          /\ ~InHand(f) /\ f \notin settled
          /\ \A e \in Conns \ {d} : ~Queued(f, e)
          /\ \A j \in 1..(i - 1) : queue[d][j].from = f.from => queue[d][j].n < f.n
  /\ \A f \in settled : ~InHand(f)

\* Every call that registered returns, unless the server dies: neither a relay
\* that takes nothing from a full channel nor a busy client can hold up its
\* Unregister (hub.go:34-42, 52-61).
HandlersReturn == \A c \in Conns : handler[c] = "ack" ~> handler[c] = "done" \/ crashed

\* docs/architecture.md:106-108, the loop of a connected session: a frame from
\* the browser goes through ForwardToRelay to the relay.  The call returns
\* after the acknowledgement and its registration is gone (ws_handler.go:117).
FramesReachRelay == \A c \in Conns : ReaderAt(c, "lookup") => hub[session[c]] # NoConn
=============================================================================
