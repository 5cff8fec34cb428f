----------------------------- MODULE RelayProofs -----------------------------
(***************************************************************************)
(* The hub and the relay behind it.                                        *)
(*                                                                         *)
(* The safety of RelayHub for every set of connections and sessions, every *)
(* capacity and bound.                                                     *)
(***************************************************************************)
EXTENDS RelayHub, SshRelay, TLAPS

\* A connection that registered and whose channel is open is registered still
\* or was overwritten; a channel that is closed was registered.
EveryChannelAccounted ==
  \A c \in Conns :
    /\ handler[c] # "new" /\ c \notin closed /\ c \notin overwritten => hub[session[c]] = c
    /\ c \in closed => handler[c] # "new"

\* What a reader looked up belongs to its session.
LookupsMatch ==
  \A c \in Conns :
    ReaderAt(c, "send") => reader[c].to \in Conns /\ session[reader[c].to] = session[c]

Carrying == {"lookup", "send"}

\* A frame in a channel, or settled, is not newer than what its client sent
\* last, and older while the reader has the last one in hand.
Behind(f) ==
  /\ f.from \in Conns /\ f.n \in 1..sent[f.from]
  /\ reader[f.from].step \in Carrying => f.n < sent[f.from]

FramesBehind ==
  /\ \A c \in Conns : \A i \in 1..Len(queue[c]) : Behind(queue[c][i])
  /\ \A f \in settled : Behind(f)

\* The parts of FramesAccounted: no sent frame is missing, no frame is in two
\* places, and each channel has the frames of its session in their order.
NoneMissing ==
  \A c \in Conns : \A n \in 1..sent[c] :
    \/ reader[c].step \in Carrying /\ n = sent[c]
    \/ [from |-> c, n |-> n] \in settled
    \/ \E d \in Conns : \E i \in 1..Len(queue[d]) : queue[d][i] = [from |-> c, n |-> n]

OnePlace ==
  \A d \in Conns : \A i \in 1..Len(queue[d]) :
    /\ queue[d][i] \notin settled
    /\ \A e \in Conns \ {d} : \A j \in 1..Len(queue[e]) : queue[e][j] # queue[d][i]

InOrder ==
  \A d \in Conns : \A i \in 1..Len(queue[d]) :
    /\ session[queue[d][i].from] = session[d]
    /\ \A j \in 1..(i - 1) : queue[d][j].from = queue[d][i].from => queue[d][j].n < queue[d][i].n

\* A reader starts when its connection registers, and has only in hand what its
\* client sent.
ReaderStarts ==
  \A c \in Conns :
    /\ handler[c] = "new" => reader[c].step = "off"
    /\ reader[c].step \in Carrying => sent[c] # 0

Registrations == RegistrationHasHandler /\ NeverClosedTwice /\ EveryChannelAccounted
Frames == LookupsMatch /\ ReaderStarts /\ FramesBehind /\ NoneMissing /\ OnePlace /\ InOrder

IInv == TypeOK /\ Registrations /\ Frames

Steps(c) == ServeWS(c) \/ ReadLoop(c) \/ Take(c)

LEMMA AppendFrame ==
  ASSUME NEW q \in Seq(Frame), NEW f \in Frame
  PROVE  /\ Append(q, f) \in Seq(Frame)
         /\ Len(Append(q, f)) = Len(q) + 1
         /\ \A i \in 1..Len(q) : Append(q, f)[i] = q[i]
         /\ Append(q, f)[Len(q) + 1] = f
  OBVIOUS

LEMMA NotTheLast ==
  ASSUME NEW n \in Nat, NEW k \in 1..(n + 1), k # n + 1
  PROVE  k \in 1..n
  OBVIOUS

LEMMA TailFrames ==
  ASSUME NEW q \in Seq(Frame), q # <<>>
  PROVE  /\ Tail(q) \in Seq(Frame)
         /\ Len(Tail(q)) = Len(q) - 1
         /\ \A i \in 1..Len(Tail(q)) : Tail(q)[i] = q[i + 1] /\ i + 1 \in 1..Len(q)
  OBVIOUS

-----------------------------------------------------------------------------
LEMMA FrameTypes ==
  ASSUME TypeOK, NEW d \in Conns, NEW i \in 1..Len(queue[d])
  PROVE  queue[d][i].from \in Conns /\ queue[d][i].n \in Nat
<1>1. queue[d] \in Seq(Frame)
  BY DEF TypeOK
<1>2. queue[d][i] \in Frame
  BY <1>1
<1> QED
  BY <1>2 DEF Frame

LEMMA InitIInv == Init => IInv
<1> SUFFICES ASSUME Init PROVE IInv
  OBVIOUS
<1> USE RelayHubAssumption DEF Init
<1>1. TypeOK
  <2>1. <<>> \in Seq(Frame) /\ Len(<<>>) <= Capacity
    OBVIOUS
  <2>2. queue \in [Conns -> Seq(Frame)] /\ \A c \in Conns : Len(queue[c]) <= Capacity
    BY <2>1
  <2>3. reader \in [Conns -> Reader]
    BY DEF Reader, ReaderSteps
  <2> QED
    BY <2>2, <2>3 DEF TypeOK, HandlerSteps
<1>2. Registrations
  BY DEF Registrations, RegistrationHasHandler, NeverClosedTwice, Registered,
         EveryChannelAccounted
<1>3. Frames
  <2>0. \A c \in Conns : Len(queue[c]) = 0 /\ sent[c] = 0 /\ reader[c].step = "off"
    OBVIOUS
  <2>e. 1..0 = {}
    OBVIOUS
  <2>1. \A c \in Conns : 1..Len(queue[c]) = {} /\ 1..sent[c] = {}
    BY <2>0, <2>e
  <2>2. LookupsMatch /\ ReaderStarts
    BY <2>0 DEF LookupsMatch, ReaderAt, ReaderStarts, Carrying
  <2>3. FramesBehind
    BY <2>1 DEF FramesBehind
  <2>4. NoneMissing
    BY <2>1 DEF NoneMissing
  <2>5. OnePlace /\ InOrder
    BY <2>1 DEF OnePlace, InOrder
  <2> QED
    BY <2>2, <2>3, <2>4, <2>5 DEF Frames
<1> QED
  BY <1>1, <1>2, <1>3 DEF IInv

LEMMA TypeStep ==
  ASSUME TypeOK, NEW c \in Conns, Steps(c)
  PROVE  TypeOK'
<1> USE RelayHubAssumption DEF TypeOK, HandlerSteps, ReaderSteps, Reader, HandlerTo,
                               ReaderTo, ReaderAt, conns
<1>1. CASE Register(c)
  BY <1>1 DEF Register
<1>2. CASE BeginAck(c) \/ EndAck(c) \/ EndSession(c)
  BY <1>2 DEF BeginAck, EndAck, EndSession
<1>U. CASE Unregister(c)
  <2>1. {hub[session[c]]} \ {NoConn} \subseteq Conns
    OBVIOUS
  <2> QED
    BY <1>U, <2>1 DEF Unregister
<1>3. CASE Read(c)
  <2>1. \A s \in {"ping", "lookup"} : [step |-> s, to |-> NoConn] \in Reader
    OBVIOUS
  <2>2. reader' \in [Conns -> Reader]
    BY <1>3, <2>1 DEF Read
  <2>3. sent' \in [Conns -> Nat]
    <3>1. CASE sent' = sent
      BY <3>1
    <3>2. CASE sent' = [sent EXCEPT ![c] = @ + 1]
      BY <3>2
    <3> QED
      BY <1>3, <3>1, <3>2 DEF Read
  <2> QED
    BY <1>3, <2>2, <2>3 DEF Read
<1>4. CASE Leave(c)
  BY <1>4 DEF Leave
<1>E. CASE EndPing(c)
  BY <1>E DEF EndPing
<1>F. Latest(c) \in Frame
  BY DEF Latest, Frame
<1>L. CASE Lookup(c)
  <2>1. settled' \subseteq Frame
    BY <1>L, <1>F DEF Lookup, Settle
  <2>2. reader' \in [Conns -> Reader]
    BY <1>L DEF Lookup
  <2> QED
    BY <1>L, <2>1, <2>2 DEF Lookup
<1>C. CASE SendClosed(c)
  BY <1>C DEF SendClosed
<1>B. CASE BeginPing(c)
  <2>1. reader' \in [Conns -> Reader]
    <3>1. CASE handler[c] # "acking"
      <4>1. reader' = [reader EXCEPT ![c] = [step |-> "pinging", to |-> NoConn]]
        BY <1>B, <3>1 DEF BeginPing
      <4>2. [step |-> "pinging", to |-> NoConn] \in Reader
        OBVIOUS
      <4> QED
        BY <4>1, <4>2
    <3>2. CASE handler[c] = "acking"
      <4>1. reader' = reader
        BY <1>B, <3>2 DEF BeginPing
      <4> QED
        BY <4>1
    <3> QED
      BY <3>1, <3>2
  <2>2. crashed' \in BOOLEAN
    BY <1>B DEF BeginPing
  <2>3. UNCHANGED <<hub, closed, queue, session, handler, sent, overwritten, settled>>
    BY <1>B DEF BeginPing
  <2> QED
    BY <2>1, <2>2, <2>3
<1>5. CASE Send(c)
  <2> DEFINE to == reader[c].to
  <2>1. reader' \in [Conns -> Reader] /\ UNCHANGED <<hub, closed, session, handler, sent, crashed, overwritten>>
    BY <1>5 DEF Send
  <2>2. CASE to \in Conns /\ Len(queue[to]) < Capacity
    <3>1. queue' = [queue EXCEPT ![to] = Append(queue[to], Latest(c))] /\ settled' = settled
      BY <1>5, <2>2 DEF Send
    <3>2. /\ Append(queue[to], Latest(c)) \in Seq(Frame)
          /\ Len(Append(queue[to], Latest(c))) <= Capacity
      BY <1>F, <2>2, AppendFrame
    <3> QED
      BY <2>1, <2>2, <3>1, <3>2
  <2>3. CASE to \in Conns /\ ~(Len(queue[to]) < Capacity)
    <3>1. queue' = queue /\ settled' = settled \cup {Latest(c)}
      BY <1>5, <2>3 DEF Send, Settle
    <3> QED
      BY <1>F, <2>1, <3>1
  <2>4. CASE to \notin Conns
    <3>1. \A q : [queue EXCEPT ![to] = q] = queue
      BY <2>4
    <3>2. queue' = queue /\ settled' \subseteq settled \cup {Latest(c)}
      BY <1>5, <2>4, <3>1 DEF Send, Settle
    <3> QED
      BY <1>F, <2>1, <3>2
  <2> QED
    BY <2>2, <2>3, <2>4
<1>6. CASE Take(c)
  <2>1. Tail(queue[c]) \in Seq(Frame) /\ Len(Tail(queue[c])) <= Capacity /\ Head(queue[c]) \in Frame
    BY <1>6, TailFrames DEF Take
  <2>2. settled' \subseteq Frame
    BY <1>6, <2>1 DEF Take, Settle
  <2> QED
    BY <1>6, <2>1, <2>2 DEF Take
<1> QED
  BY <1>1, <1>2, <1>U, <1>3, <1>4, <1>E, <1>L, <1>C, <1>B, <1>5,
     <1>6
     DEF Steps, ServeWS, ReadLoop

LEMMA RegistrationStep ==
  ASSUME TypeOK, Registrations, NEW c \in Conns, Steps(c)
  PROVE  Registrations'
<1> USE RelayHubAssumption DEF Registrations, RegistrationHasHandler, NeverClosedTwice,
                               Registered, EveryChannelAccounted, Serving, TypeOK, HandlerTo
<1>1. CASE Register(c)
  BY <1>1 DEF Register
<1>2. CASE BeginAck(c) \/ EndAck(c)
  BY <1>2 DEF BeginAck, EndAck
<1>3. CASE Unregister(c)
  <2> DEFINE s == session[c]
  <2>1. /\ hub'[s] = NoConn /\ \A t \in Sessions \ {s} : hub'[t] = hub[t]
        /\ closed' = closed \cup ({hub[s]} \ {NoConn})
        /\ handler'[c] = "end" /\ \A d \in Conns \ {c} : handler'[d] = handler[d]
        /\ session' = session /\ overwritten' = overwritten
    BY <1>3 DEF Unregister
  <2>2. \A t \in Sessions \ {s} : hub[t] # NoConn => hub[t] # hub[s] /\ hub[t] # c
    OBVIOUS
  <2>3. RegistrationHasHandler'
    <3> SUFFICES ASSUME NEW t \in Sessions, hub'[t] # NoConn
                 PROVE  handler'[hub'[t]] \in Serving /\ session'[hub'[t]] = t
      BY DEF RegistrationHasHandler
    <3>1. t # s /\ hub'[t] = hub[t]
      BY <2>1
    <3>2. hub[t] \in Conns \ {c} /\ handler[hub[t]] \in Serving /\ session[hub[t]] = t
      BY <2>2, <3>1
    <3>3. handler'[hub[t]] = handler[hub[t]] /\ session'[hub[t]] = session[hub[t]]
      BY <2>1, <3>2
    <3> QED
      BY <3>1, <3>2, <3>3
  <2>4. NeverClosedTwice'
    BY <2>1, <2>2
  <2>5. \A d \in Conns : handler'[d] # "new" /\ d \notin closed' /\ d \notin overwritten'
          => hub'[session'[d]] = d
    <3> SUFFICES ASSUME NEW d \in Conns, handler'[d] # "new", d \notin closed',
                        d \notin overwritten'
                 PROVE  hub'[session[d]] = d
      BY <2>1
    <3>1. handler[d] # "new"
      BY <1>3, <2>1 DEF Unregister
    <3>2. hub[session[d]] = d
      BY <2>1, <3>1
    <3>3. session[d] # s
      BY <2>1, <3>2
    <3> QED
      BY <2>1, <3>2, <3>3
  <2>6. \A d \in Conns : d \in closed' => handler'[d] # "new"
    BY <2>1
  <2> QED
    BY <2>3, <2>4, <2>5, <2>6
<1>4. CASE EndSession(c)
  BY <1>4 DEF EndSession
<1>5. CASE ReadLoop(c) \/ Take(c)
  <2>1. UNCHANGED <<hub, closed, session, handler, overwritten>>
    BY <1>5 DEF ReadLoop, Read, Leave, Lookup, Send, SendClosed, BeginPing, EndPing, Take, conns
  <2> QED
    BY <2>1
<1> QED
  BY <1>1, <1>2, <1>3, <1>4, <1>5 DEF Steps, ServeWS

-----------------------------------------------------------------------------
\* What decides where a frame is.
Places == <<queue, settled, session, sent>>

\* NoneMissing for what a step leaves: a frame that no reader has in hand and that
\* is not settled is in a channel.
LEMMA NoneMissingAfter ==
  ASSUME \A d \in Conns : \A n \in 1..sent'[d] :
           ~(reader'[d].step \in Carrying /\ n = sent'[d])
           /\ [from |-> d, n |-> n] \notin settled'
             => \E e \in Conns : \E i \in 1..Len(queue'[e]) :
                  queue'[e][i] = [from |-> d, n |-> n]
  PROVE  NoneMissing'
BY DEF NoneMissing

\* A step that moves no frame: readers go on without one, or keep the one in hand.
LEMMA NoFrameMoves ==
  ASSUME IInv, TypeOK', UNCHANGED Places,
         \A d \in Conns : reader'[d].step \in Carrying <=> reader[d].step \in Carrying
  PROVE  FramesBehind' /\ NoneMissing' /\ OnePlace' /\ InOrder'
<1>1. FramesBehind'
  BY DEF IInv, Frames, FramesBehind, Behind, Places
<1>2. NoneMissing'
  <2> SUFFICES ASSUME NEW d \in Conns, NEW n \in 1..sent'[d],
                      ~(reader'[d].step \in Carrying /\ n = sent'[d]),
                      [from |-> d, n |-> n] \notin settled'
               PROVE  \E e \in Conns : \E i \in 1..Len(queue'[e]) :
                        queue'[e][i] = [from |-> d, n |-> n]
    BY NoneMissingAfter
  <2>1. queue' = queue /\ settled' = settled /\ sent' = sent
    BY DEF Places
  <2>2. /\ n \in 1..sent[d] /\ [from |-> d, n |-> n] \notin settled
        /\ ~(reader[d].step \in Carrying /\ n = sent[d])
    BY <2>1
  <2>3. \E e \in Conns : \E i \in 1..Len(queue[e]) : queue[e][i] = [from |-> d, n |-> n]
    BY <2>2 DEF IInv, Frames, NoneMissing
  <2> QED
    BY <2>1, <2>3
<1> QED
  BY <1>1, <1>2 DEF IInv, Frames, OnePlace, InOrder, Places

\* A frame in hand that is dropped is settled; it was nowhere else.
LEMMA FrameDropped ==
  ASSUME IInv, TypeOK', NEW c \in Conns, reader[c].step \in Carrying,
         UNCHANGED <<queue, session, sent>>, settled' = settled \cup {Latest(c)},
         reader'[c].step \notin Carrying, sent[c] \in Nat \ {0},
         \A d \in Conns \ {c} : reader'[d] = reader[d]
  PROVE  FramesBehind' /\ NoneMissing' /\ OnePlace' /\ InOrder'
<1>1. Latest(c).from = c /\ Latest(c).n = sent[c] /\ Latest(c) = [from |-> c, n |-> sent[c]]
  BY DEF Latest
<1>2. FramesBehind'
  <2>1. \A f : Behind(f) => Behind(f)'
    BY DEF Behind
  <2>2. Latest(c)' = Latest(c)
    BY DEF Latest
  <2>3. Behind(Latest(c))'
    BY <1>1, <2>2 DEF Behind
  <2>4. \A d \in Conns : \A i \in 1..Len(queue[d]) : Behind(queue[d][i])'
    BY DEF IInv, Frames, FramesBehind, Behind
  <2>5. \A f \in settled' : Behind(f)'
    <3> SUFFICES ASSUME NEW f \in settled' PROVE Behind(f)'
      OBVIOUS
    <3>1. CASE f \in settled
      BY <2>1, <3>1 DEF IInv, Frames, FramesBehind
    <3>2. CASE f = Latest(c)
      BY <2>2, <2>3, <3>2
    <3> QED
      BY <3>1, <3>2
  <2> QED
    BY <2>4, <2>5 DEF FramesBehind, Behind
<1>3. NoneMissing'
  <2> SUFFICES ASSUME NEW d \in Conns, NEW n \in 1..sent'[d],
                      ~(reader'[d].step \in Carrying /\ n = sent'[d]),
                      [from |-> d, n |-> n] \notin settled'
               PROVE  \E e \in Conns : \E i \in 1..Len(queue'[e]) :
                        queue'[e][i] = [from |-> d, n |-> n]
    BY NoneMissingAfter
  <2>1. n \in 1..sent[d] /\ ~(d = c /\ n = sent[c])
    BY <1>1
  <2>2. [from |-> d, n |-> n] \notin settled /\ ~(reader[d].step \in Carrying /\ n = sent[d])
    BY <2>1
  <2> QED
    BY <2>1, <2>2 DEF IInv, Frames, NoneMissing
<1>4. \A d \in Conns : \A i \in 1..Len(queue[d]) : queue[d][i] # Latest(c)
  <2> SUFFICES ASSUME NEW d \in Conns, NEW i \in 1..Len(queue[d]), queue[d][i] = Latest(c)
               PROVE  FALSE
    OBVIOUS
  <2>1. queue[d][i].n < sent[queue[d][i].from]
    BY <1>1 DEF IInv, Frames, FramesBehind, Behind
  <2> QED
    BY <1>1, <2>1
<1>5. OnePlace'
  BY <1>4 DEF IInv, Frames, OnePlace
<1>6. InOrder'
  BY DEF IInv, Frames, InOrder
<1> QED
  BY <1>2, <1>3, <1>5, <1>6

\* A frame in hand that goes into a channel of its session comes after all that
\* its client sent before.
LEMMA FrameQueued ==
  ASSUME IInv, TypeOK', NEW c \in Conns, NEW to \in Conns, reader[c].step \in Carrying,
         session[to] = session[c], sent[c] \in Nat \ {0},
         UNCHANGED <<settled, session, sent>>,
         queue' = [queue EXCEPT ![to] = Append(@, Latest(c))],
         reader'[c].step \notin Carrying,
         \A d \in Conns \ {c} : reader'[d] = reader[d]
  PROVE  FramesBehind' /\ NoneMissing' /\ OnePlace' /\ InOrder'
<1> DEFINE f == [from |-> c, n |-> sent[c]]
           last == Len(queue[to]) + 1
<1>1. f \in Frame /\ Latest(c) = f
  BY DEF Frame, Latest
<1>2. /\ Len(queue'[to]) = last /\ queue'[to][last] = f
      /\ \A i \in 1..Len(queue[to]) : queue'[to][i] = queue[to][i]
      /\ \A d \in Conns \ {to} : queue'[d] = queue[d]
      /\ \A d \in Conns : Len(queue[d]) \in Nat
  BY <1>1, AppendFrame DEF IInv, TypeOK
<1>3. \A d \in Conns : \A i \in 1..Len(queue[d]) :
        queue[d][i].from = c => queue[d][i].n < sent[c]
  BY DEF IInv, Frames, FramesBehind, Behind
<1>4. f \notin settled
  BY DEF IInv, Frames, FramesBehind, Behind
<1>5. \A d \in Conns : \A i \in 1..Len(queue'[d]) :
        \/ i \in 1..Len(queue[d]) /\ queue'[d][i] = queue[d][i]
        \/ d = to /\ i = last /\ queue'[d][i] = f
  <2> SUFFICES ASSUME NEW d \in Conns, NEW i \in 1..Len(queue'[d])
               PROVE  \/ i \in 1..Len(queue[d]) /\ queue'[d][i] = queue[d][i]
                      \/ d = to /\ i = last /\ queue'[d][i] = f
    OBVIOUS
  <2>1. CASE d # to
    BY <1>2, <2>1
  <2>2. CASE d = to /\ i = last
    BY <1>2, <2>2
  <2>3. CASE d = to /\ i # last
    <3>1. i \in 1..Len(queue[to])
      BY <1>2, <2>3, NotTheLast
    <3> QED
      BY <1>2, <2>3, <3>1
  <2> QED
    BY <2>1, <2>2, <2>3
<1>6. \A d \in Conns : \A i \in 1..Len(queue[d]) :
        i \in 1..Len(queue'[d]) /\ queue'[d][i] = queue[d][i]
  <2> SUFFICES ASSUME NEW d \in Conns, NEW i \in 1..Len(queue[d])
               PROVE  i \in 1..Len(queue'[d]) /\ queue'[d][i] = queue[d][i]
    OBVIOUS
  <2>1. CASE d # to
    BY <1>2, <2>1
  <2>2. CASE d = to
    BY <1>2, <2>2
  <2> QED
    BY <2>1, <2>2
<1>7. f.from = c /\ f.n = sent[c] /\ last \in Nat
  BY <1>2
<1>8. last \in 1..Len(queue'[to])
  BY <1>2
<1> HIDE DEF f, last
<1>9. FramesBehind'
  <2>1. \A d \in Conns : \A i \in 1..Len(queue'[d]) :
          /\ queue'[d][i].from \in Conns /\ queue'[d][i].n \in 1..sent[queue'[d][i].from]
          /\ reader'[queue'[d][i].from].step \in Carrying
               => queue'[d][i].n < sent[queue'[d][i].from]
    <3> SUFFICES ASSUME NEW d \in Conns, NEW i \in 1..Len(queue'[d])
                 PROVE  /\ queue'[d][i].from \in Conns
                        /\ queue'[d][i].n \in 1..sent[queue'[d][i].from]
                        /\ reader'[queue'[d][i].from].step \in Carrying
                             => queue'[d][i].n < sent[queue'[d][i].from]
      OBVIOUS
    <3>1. CASE i \in 1..Len(queue[d]) /\ queue'[d][i] = queue[d][i]
      BY <3>1 DEF IInv, Frames, FramesBehind, Behind
    <3>2. CASE queue'[d][i] = f
      BY <1>7, <3>2
    <3> QED
      BY <1>5, <3>1, <3>2
  <2>2. \A g \in settled : Behind(g)'
    BY DEF IInv, Frames, FramesBehind, Behind
  <2> QED
    BY <2>1, <2>2 DEF FramesBehind, Behind
<1>10. NoneMissing'
  <2> SUFFICES ASSUME NEW d \in Conns, NEW n \in 1..sent'[d],
                      ~(reader'[d].step \in Carrying /\ n = sent'[d]),
                      [from |-> d, n |-> n] \notin settled'
               PROVE  \E e \in Conns : \E i \in 1..Len(queue'[e]) :
                        queue'[e][i] = [from |-> d, n |-> n]
    BY NoneMissingAfter
  <2>1. n \in 1..sent[d] /\ [from |-> d, n |-> n] \notin settled
    OBVIOUS
  <2>2. CASE d = c /\ n = sent[c]
    <3>1. f = [from |-> d, n |-> n]
      BY <2>2 DEF f
    <3> QED
      BY <1>2, <1>8, <3>1 DEF f, last
  <2>3. CASE ~(d = c /\ n = sent[c])
    <3>1. ~(reader[d].step \in Carrying /\ n = sent[d])
      BY <2>3
    <3>2. PICK e \in Conns : \E i \in 1..Len(queue[e]) : queue[e][i] = [from |-> d, n |-> n]
      BY <2>1, <3>1 DEF IInv, Frames, NoneMissing
    <3> QED
      BY <1>6, <3>2
  <2> QED
    BY <2>2, <2>3
<1>11. OnePlace'
  <2>1. \A d \in Conns : \A i \in 1..Len(queue[d]) : queue[d][i] # f
    <3> SUFFICES ASSUME NEW d \in Conns, NEW i \in 1..Len(queue[d]), queue[d][i] = f
                 PROVE  FALSE
      OBVIOUS
    <3>1. queue[d][i].n < sent[c]
      BY <1>3, <1>7
    <3> QED
      BY <1>7, <3>1
  <2>2. \A d \in Conns : \A i \in 1..Len(queue'[d]) : queue'[d][i] \notin settled
    BY <1>4, <1>5 DEF IInv, Frames, OnePlace, f
  <2>3. ASSUME NEW d \in Conns, NEW i \in 1..Len(queue'[d]), NEW e \in Conns \ {d},
               NEW j \in 1..Len(queue'[e])
        PROVE  queue'[e][j] # queue'[d][i]
    <3>1. CASE /\ i \in 1..Len(queue[d]) /\ queue'[d][i] = queue[d][i]
               /\ j \in 1..Len(queue[e]) /\ queue'[e][j] = queue[e][j]
      BY <3>1 DEF IInv, Frames, OnePlace
    <3>2. CASE /\ i \in 1..Len(queue[d]) /\ queue'[d][i] = queue[d][i] /\ queue'[e][j] = f
      BY <2>1, <3>2
    <3>3. CASE /\ j \in 1..Len(queue[e]) /\ queue'[e][j] = queue[e][j] /\ queue'[d][i] = f
      BY <2>1, <3>3
    <3> QED
      BY <1>5, <2>3, <3>1, <3>2, <3>3
  <2> QED
    BY <2>2, <2>3 DEF OnePlace
<1>12. InOrder'
  <2> SUFFICES ASSUME NEW d \in Conns, NEW i \in 1..Len(queue'[d])
               PROVE  /\ session[queue'[d][i].from] = session[d]
                      /\ \A j \in 1..(i - 1) : queue'[d][j].from = queue'[d][i].from
                                                 => queue'[d][j].n < queue'[d][i].n
    BY DEF InOrder
  <2>1. CASE i \in 1..Len(queue[d]) /\ queue'[d][i] = queue[d][i]
    <3>1. \A j \in 1..(i - 1) : j \in 1..Len(queue[d])
      BY <1>2, <2>1
    <3>2. \A j \in 1..(i - 1) : queue'[d][j] = queue[d][j]
      BY <1>6, <3>1
    <3> QED
      BY <2>1, <3>2 DEF IInv, Frames, InOrder
  <2>2. CASE d = to /\ i = last /\ queue'[d][i] = f
    <3>1. \A j \in 1..(i - 1) : j \in 1..Len(queue[d])
      BY <1>2, <2>2 DEF last
    <3>2. \A j \in 1..(i - 1) : queue'[d][j] = queue[d][j]
      BY <1>6, <3>1
    <3> QED
      BY <1>3, <1>7, <2>2, <3>1, <3>2
  <2> QED
    BY <1>5, <2>1, <2>2
<1> QED
  BY <1>9, <1>10, <1>11, <1>12

\* A frame that a relay takes leaves the front of its channel.
LEMMA FrameTaken ==
  ASSUME IInv, TypeOK', NEW c \in Conns, Take(c)
  PROVE  FramesBehind' /\ NoneMissing' /\ OnePlace' /\ InOrder'
<1> DEFINE f == queue[c][1]
<1>1. /\ queue[c] \in Seq(Frame) /\ queue[c] # <<>> /\ 1 \in 1..Len(queue[c]) /\ Len(queue[c]) \in Nat
      /\ UNCHANGED <<session, reader, sent>>
      /\ queue' = [queue EXCEPT ![c] = Tail(@)] /\ settled' = settled \cup {f}
  BY DEF IInv, TypeOK, Take, Settle, conns
<1>2. /\ Len(queue'[c]) = Len(queue[c]) - 1
      /\ \A i \in 1..Len(queue'[c]) : queue'[c][i] = queue[c][i + 1] /\ i + 1 \in 1..Len(queue[c])
      /\ \A d \in Conns \ {c} : queue'[d] = queue[d]
  BY <1>1, TailFrames DEF IInv, TypeOK
<1>3. \A d \in Conns : \A i \in 1..Len(queue[d]) :
        /\ session[queue[d][i].from] = session[d] /\ queue[d][i] \notin settled
        /\ queue[d][i].from \in Conns /\ queue[d][i].n \in Nat
  <2>1. \A d \in Conns : \A i \in 1..Len(queue[d]) : queue[d][i].from \in Conns /\ queue[d][i].n \in Nat
    BY FrameTypes DEF IInv
  <2> QED
    BY <2>1 DEF IInv, Frames, InOrder, OnePlace
<1>4. \A i \in 1..Len(queue'[c]) : queue'[c][i] # f
  <2> SUFFICES ASSUME NEW i \in 1..Len(queue'[c]), queue[c][i + 1] = f
               PROVE  FALSE
    BY <1>2
  <2>1. i + 1 \in 1..Len(queue[c]) /\ 1 \in 1..((i + 1) - 1)
    BY <1>2
  <2>2. queue[c][1].from = queue[c][i + 1].from => queue[c][1].n < queue[c][i + 1].n
    BY <2>1 DEF IInv, Frames, InOrder
  <2> QED
    BY <1>1, <1>3, <2>2
<1>5. \A d \in Conns \ {c} : \A i \in 1..Len(queue[d]) : queue[d][i] # f
  BY <1>1 DEF IInv, Frames, OnePlace
<1>6. Behind(f)
  BY <1>1 DEF IInv, Frames, FramesBehind
<1> HIDE DEF f
<1>7. FramesBehind'
  <2>1. \A d \in Conns : \A i \in 1..Len(queue'[d]) : Behind(queue'[d][i])
    BY <1>2 DEF IInv, Frames, FramesBehind
  <2>2. \A g \in settled' : Behind(g)
    BY <1>1, <1>6 DEF IInv, Frames, FramesBehind
  <2> QED
    BY <1>1, <2>1, <2>2 DEF FramesBehind, Behind
<1>8. NoneMissing'
  <2> SUFFICES ASSUME NEW d \in Conns, NEW n \in 1..sent'[d],
                      ~(reader'[d].step \in Carrying /\ n = sent'[d]),
                      [from |-> d, n |-> n] \notin settled'
               PROVE  \E e \in Conns : \E i \in 1..Len(queue'[e]) :
                        queue'[e][i] = [from |-> d, n |-> n]
    BY NoneMissingAfter
  <2>0. /\ n \in 1..sent[d] /\ [from |-> d, n |-> n] \notin settled
        /\ ~(reader[d].step \in Carrying /\ n = sent[d])
    BY <1>1
  <2>1. PICK e \in Conns : \E i \in 1..Len(queue[e]) : queue[e][i] = [from |-> d, n |-> n]
    BY <2>0 DEF IInv, Frames, NoneMissing
  <2>2. PICK i \in 1..Len(queue[e]) : queue[e][i] = [from |-> d, n |-> n]
    BY <2>1
  <2>3. CASE e # c
    BY <1>2, <2>2, <2>3
  <2>4. CASE e = c
    <3>1. i # 1
      BY <1>1, <2>2, <2>4 DEF f
    <3>2. i - 1 \in 1..Len(queue'[c]) /\ (i - 1) + 1 = i
      BY <1>1, <1>2, <2>4, <3>1
    <3>3. queue'[c][i - 1] = queue[c][i]
      BY <1>2, <3>2
    <3> QED
      BY <2>2, <2>4, <3>2, <3>3
  <2> QED
    BY <2>3, <2>4
<1>9. \A d \in Conns : \A i \in 1..Len(queue'[d]) :
        \E k \in 1..Len(queue[d]) : queue'[d][i] = queue[d][k]
  BY <1>2
<1>10. OnePlace'
  <2>1. \A d \in Conns : \A i \in 1..Len(queue'[d]) : queue'[d][i] \notin settled'
    <3> SUFFICES ASSUME NEW d \in Conns, NEW i \in 1..Len(queue'[d])
                 PROVE  queue'[d][i] \notin settled /\ queue'[d][i] # f
      BY <1>1
    <3>1. queue'[d][i] \notin settled
      BY <1>3, <1>9
    <3>2. queue'[d][i] # f
      BY <1>2, <1>4, <1>5
    <3> QED
      BY <3>1, <3>2
  <2>2. ASSUME NEW d \in Conns, NEW i \in 1..Len(queue'[d]), NEW e \in Conns \ {d},
               NEW j \in 1..Len(queue'[e])
        PROVE  queue'[e][j] # queue'[d][i]
    BY <1>9 DEF IInv, Frames, OnePlace
  <2> QED
    BY <2>1, <2>2 DEF OnePlace
<1>11. InOrder'
  <2> SUFFICES ASSUME NEW d \in Conns, NEW i \in 1..Len(queue'[d])
               PROVE  /\ session[queue'[d][i].from] = session[d]
                      /\ \A j \in 1..(i - 1) : queue'[d][j].from = queue'[d][i].from
                                                 => queue'[d][j].n < queue'[d][i].n
    BY <1>1 DEF InOrder
  <2>1. CASE d # c
    BY <1>2, <2>1 DEF IInv, Frames, InOrder
  <2>2. CASE d = c
    <3>1. queue'[c][i] = queue[c][i + 1] /\ i + 1 \in 1..Len(queue[c])
      BY <1>2, <2>2
    <3>2. ASSUME NEW j \in 1..(i - 1) PROVE queue'[c][j] = queue[c][j + 1] /\ j + 1 \in 1..((i + 1) - 1)
      <4>1. j \in 1..Len(queue'[c])
        BY <1>1, <1>2, <2>2
      <4> QED
        BY <1>2, <4>1
    <3> QED
      BY <2>2, <3>1, <3>2 DEF IInv, Frames, InOrder
  <2> QED
    BY <2>1, <2>2
<1> QED
  BY <1>7, <1>8, <1>10, <1>11

LEMMA FrameStep ==
  ASSUME IInv, TypeOK', NEW c \in Conns, Steps(c)
  PROVE  Frames'
<1> USE RelayHubAssumption
<1>1. session' = session
  BY DEF Steps, ServeWS, Register, BeginAck, EndAck, Unregister, EndSession, ReadLoop,
         Read, Leave, Lookup, Send, SendClosed, BeginPing, EndPing, Take, conns
<1>2. \A d \in Conns \ {c} : reader'[d] = reader[d] /\ handler'[d] = handler[d]
  BY DEF Steps, ServeWS, Register, BeginAck, EndAck, Unregister, EndSession, ReadLoop,
         Read, Leave, Lookup, Send, SendClosed, BeginPing, EndPing, Take, conns,
         ReaderTo, HandlerTo, IInv, TypeOK, Reader
<1>3. /\ reader'[c].step = "send" =>
           reader'[c].to \in Conns /\ session[reader'[c].to] = session[c]
      /\ handler'[c] = "new" => reader'[c].step = "off"
      /\ reader'[c].step \in Carrying => sent'[c] # 0
  <2> USE DEF IInv, TypeOK, Reader, Frames, LookupsMatch, ReaderStarts, ReaderAt, ReaderTo,
              HandlerTo, Carrying
  <2>1. CASE ServeWS(c)
    BY <2>1 DEF ServeWS, Register, BeginAck, EndAck, Unregister, EndSession
  <2>2. CASE Lookup(c)
    BY <2>2 DEF Lookup, Registrations, RegistrationHasHandler
  <2>3. CASE \/ Read(c) \/ Leave(c) \/ Send(c) \/ SendClosed(c)
             \/ BeginPing(c) \/ EndPing(c) \/ Take(c)
    BY <2>3 DEF Read, Leave, Send, SendClosed, BeginPing, EndPing, Take, conns
  <2> QED
    BY <2>1, <2>2, <2>3 DEF Steps, ReadLoop
<1>4. \A d \in Conns \ {c} : sent'[d] = sent[d]
  BY DEF Steps, ServeWS, Register, BeginAck, EndAck, Unregister, EndSession, ReadLoop,
         Read, Leave, Lookup, Send, SendClosed, BeginPing, EndPing, Take, conns, IInv, TypeOK
<1>5. LookupsMatch' /\ ReaderStarts'
  BY <1>1, <1>2, <1>3, <1>4 DEF IInv, Frames, LookupsMatch, ReaderStarts, ReaderAt
<1>6. FramesBehind' /\ NoneMissing' /\ OnePlace' /\ InOrder'
  <2>1. CASE ServeWS(c) \/ Leave(c) \/ SendClosed(c) \/ BeginPing(c) \/ EndPing(c)
    <3>1. UNCHANGED Places
      BY <2>1 DEF ServeWS, Register, BeginAck, EndAck, Unregister, EndSession, Leave,
                  SendClosed, BeginPing, EndPing, conns, Places
    <3>2. reader'[c].step \in Carrying <=> reader[c].step \in Carrying
      BY <2>1 DEF ServeWS, Register, BeginAck, EndAck, Unregister, EndSession, Leave,
                  SendClosed, BeginPing, EndPing, conns, ReaderTo, ReaderAt, Carrying,
                  IInv, TypeOK, Reader, Frames, ReaderStarts
    <3> QED
      BY <1>2, <3>1, <3>2, NoFrameMoves
  <2>2. CASE Read(c)
    <3>1. /\ UNCHANGED <<queue, settled, session>> /\ reader[c].step \notin Carrying
          /\ \/ sent' = sent /\ reader'[c].step \notin Carrying
             \/ sent' = [sent EXCEPT ![c] = @ + 1] /\ reader'[c].step \in Carrying
      BY <2>2 DEF Read, ReaderTo, ReaderAt, Carrying, IInv, TypeOK, Reader
    <3>2. CASE sent' = sent /\ reader'[c].step \notin Carrying
      BY <1>2, <3>1, <3>2, NoFrameMoves DEF Places
    <3>3. CASE sent' = [sent EXCEPT ![c] = @ + 1] /\ reader'[c].step \in Carrying
      <4>1. /\ sent[c] \in Nat /\ sent'[c] = sent[c] + 1
            /\ \A d \in Conns : d # c => sent'[d] = sent[d]
        BY <3>3 DEF IInv, TypeOK
      <4>2. ASSUME NEW f, Behind(f) PROVE Behind(f)'
        <5>1. CASE f.from = c
          BY <4>1, <4>2, <5>1 DEF Behind
        <5>2. CASE f.from # c
          BY <1>2, <4>1, <4>2, <5>2 DEF Behind
        <5> QED
          BY <5>1, <5>2
      <4>3. FramesBehind'
        BY <3>1, <4>2 DEF IInv, Frames, FramesBehind
      <4>4. NoneMissing'
        <5> SUFFICES ASSUME NEW d \in Conns, NEW n \in 1..sent'[d],
                            ~(reader'[d].step \in Carrying /\ n = sent'[d]),
                            [from |-> d, n |-> n] \notin settled'
                     PROVE  \E e \in Conns : \E i \in 1..Len(queue'[e]) :
                              queue'[e][i] = [from |-> d, n |-> n]
          BY NoneMissingAfter
        <5>1. n \in 1..sent[d] /\ ~(reader[d].step \in Carrying /\ n = sent[d])
          <6>1. CASE d = c
            BY <3>1, <3>3, <4>1, <6>1
          <6>2. CASE d # c
            BY <1>2, <4>1, <6>2
          <6> QED
            BY <6>1, <6>2
        <5> QED
          BY <3>1, <5>1 DEF IInv, Frames, NoneMissing
      <4>5. OnePlace' /\ InOrder'
        BY <3>1 DEF IInv, Frames, OnePlace, InOrder
      <4> QED
        BY <4>3, <4>4, <4>5
    <3> QED
      BY <3>1, <3>2, <3>3
  <2>3. CASE Lookup(c)
    <3>1. /\ UNCHANGED <<queue, session, sent>> /\ reader[c].step \in Carrying
          /\ sent[c] \in Nat \ {0}
      BY <2>3 DEF Lookup, ReaderAt, Carrying, IInv, TypeOK, Frames, ReaderStarts
    <3>2. CASE hub[session[c]] = NoConn
      <4>1. reader'[c].step \notin Carrying /\ settled' = settled \cup {Latest(c)}
        BY <2>3, <3>2 DEF Lookup, Settle, Carrying, IInv, TypeOK, Reader
      <4> QED
        BY <1>2, <3>1, <4>1, FrameDropped
    <3>3. CASE hub[session[c]] # NoConn
      <4>1. reader'[c].step \in Carrying /\ settled' = settled
        BY <2>3, <3>3 DEF Lookup, Settle, Carrying, IInv, TypeOK, Reader
      <4> QED
        BY <1>2, <3>1, <4>1, NoFrameMoves DEF Places
    <3> QED
      BY <3>2, <3>3
  <2>4. CASE Send(c)
    <3>1. /\ UNCHANGED <<session, sent>> /\ reader[c].step \in Carrying
          /\ sent[c] \in Nat \ {0} /\ reader'[c].step \notin Carrying
          /\ reader[c].to \in Conns /\ session[reader[c].to] = session[c]
      BY <2>4 DEF Send, ReaderAt, ReaderTo, Carrying, IInv, TypeOK, Reader, Frames,
                  ReaderStarts, LookupsMatch
    <3>2. CASE Len(queue[reader[c].to]) < Capacity
      BY <1>2, <2>4, <3>1, <3>2, FrameQueued DEF Send
    <3>3. CASE ~(Len(queue[reader[c].to]) < Capacity)
      BY <1>2, <2>4, <3>1, <3>3, FrameDropped DEF Send, Settle
    <3> QED
      BY <3>2, <3>3
  <2>5. CASE Take(c)
    BY <2>5, FrameTaken
  <2> QED
    BY <2>1, <2>2, <2>3, <2>4, <2>5 DEF Steps, ReadLoop
<1> QED
  BY <1>5, <1>6 DEF Frames

LEMMA IInvStep == IInv /\ [Next]_vars => IInv'
<1> SUFFICES ASSUME IInv, [Next]_vars PROVE IInv'
  OBVIOUS
<1>1. CASE Next
  <2>1. PICK c \in Conns : Steps(c)
    BY <1>1 DEF Next, Steps
  <2>2. TypeOK'
    BY <2>1, TypeStep DEF IInv
  <2>3. Registrations'
    BY <2>1, RegistrationStep DEF IInv
  <2>4. Frames'
    BY <2>1, <2>2, FrameStep
  <2> QED
    BY <2>2, <2>3, <2>4 DEF IInv
<1>2. CASE UNCHANGED vars
  <2>1. TypeOK' /\ Registrations'
    BY <1>2 DEF vars, conns, IInv, TypeOK, Registrations, RegistrationHasHandler,
                NeverClosedTwice, Registered, EveryChannelAccounted
  <2>2. LookupsMatch' /\ ReaderStarts'
    BY <1>2 DEF vars, conns, IInv, Frames, LookupsMatch, ReaderStarts, ReaderAt
  <2>3. FramesBehind' /\ NoneMissing' /\ OnePlace' /\ InOrder'
    BY <1>2, <2>1, NoFrameMoves DEF vars, conns, Places
  <2> QED
    BY <2>1, <2>2, <2>3 DEF IInv, Frames
<1> QED
  BY <1>1, <1>2

-----------------------------------------------------------------------------
\* The strengthened invariant holds in every reachable state of the hub.
THEOREM Inductive == Spec => []IInv
  BY InitIInv, IInvStep, PTL DEF Spec

\* Every variable of the hub keeps its type, and no channel exceeds its
\* capacity.
THEOREM TypeInvariant == Spec => []TypeOK
<1>1. IInv => TypeOK
  BY DEF IInv
<1> QED
  BY <1>1, Inductive, PTL

\* No registration outlives the handler that made it (hub.go:30, 37-39).
THEOREM RegistrationsHaveHandlers == Spec => []RegistrationHasHandler
<1>1. IInv => RegistrationHasHandler
  BY DEF IInv, Registrations
<1> QED
  BY <1>1, Inductive, PTL

\* Unregister never closes a closed channel (hub.go:38).
THEOREM ChannelsCloseOnce == Spec => []NeverClosedTwice
<1>1. IInv => NeverClosedTwice
  BY DEF IInv, Registrations
<1> QED
  BY <1>1, Inductive, PTL

\* A channel that its handler left open was overwritten in the map (hub.go:30).
THEOREM OnlyOverwrittenLeak == Spec => []OrphansWereOverwritten
<1>1. ASSUME IInv, NEW c \in Conns, handler[c] \in {"end", "done"}, c \notin closed,
             c \notin overwritten
      PROVE  FALSE
  <2>1. hub[session[c]] = c /\ session[c] \in Sessions /\ c # NoConn
    BY <1>1, RelayHubAssumption DEF IInv, TypeOK, Registrations, EveryChannelAccounted
  <2>2. handler[c] \in Serving
    BY <1>1, <2>1 DEF IInv, Registrations, RegistrationHasHandler
  <2> QED
    BY <1>1, <2>2 DEF Serving
<1>2. IInv => OrphansWereOverwritten
  BY <1>1 DEF OrphansWereOverwritten
<1> QED
  BY <1>2, Inductive, PTL

\* A frame is in one place, and channels keep the order of each client and the
\* border between sessions (hub.go:52-61).
THEOREM FramesStayAccounted == Spec => []FramesAccounted
<1>1. ASSUME IInv PROVE FramesAccounted
  <2> USE <1>1 DEF IInv, Frames
  <2>1. ASSUME NEW c \in Conns, NEW n \in 1..sent[c]
        PROVE  LET f == [from |-> c, n |-> n]
               IN InHand(f) \/ f \in settled \/ \E d \in Conns : Queued(f, d)
    BY DEF NoneMissing, InHand, Queued, Carrying
  <2>2. ASSUME NEW f, Behind(f) PROVE ~InHand(f)
    BY <2>2 DEF Behind, InHand, Carrying, TypeOK
  <2>3. \A f \in settled : ~InHand(f)
    BY <2>2 DEF FramesBehind
  <2>4. \A d \in Conns : \A i \in 1..Len(queue[d]) : ~InHand(queue[d][i])
    BY <2>2 DEF FramesBehind
  <2>5. \A d \in Conns : \A i \in 1..Len(queue[d]) : \A e \in Conns \ {d} : ~Queued(queue[d][i], e)
    BY DEF OnePlace, Queued
  <2> QED
    BY <2>1, <2>3, <2>4, <2>5 DEF FramesAccounted, OnePlace, InOrder
<1> QED
  BY <1>1, Inductive, PTL

-----------------------------------------------------------------------------
(***************************************************************************)
(* The safety of SshRelay for every size of the buffer and the channel and *)
(* every amount of input and output.                                       *)
(***************************************************************************)
Stages == {"key", "dial", "session", "pty", "stdin", "stdout", "shell", "up", "failed"}

SshTyped ==
  /\ start \in Stages
  /\ stdin \in {"off", "select", "lock", "write", "ended"}
  /\ stdout \in {"off", "read", "send", "sending", "ended"}
  /\ closer \in {"off", "wait", "lock", "close", "ended"}
  /\ output \in Nat /\ read \in Nat /\ read <= output
  /\ buf \in [1..BufSize -> Nat]
  /\ seen \in Seq(Nat)

\* What Start holds at each of its calls; its goroutines exist once it returned.
Holding ==
  /\ start \in {"key", "dial"} => client = "none" /\ sshSession = "none"
  /\ start = "session" => client = "open" /\ sshSession = "none"
  /\ start \in {"pty", "stdin", "stdout", "shell"} => client = "open"
  /\ start = "failed" => client # "open" /\ sshSession # "open"
  /\ start = "up" /\ client # "open" => closer = "ended"
  /\ start # "up" => stdin = "off" /\ stdout = "off" /\ closer = "off"

\* The mutex is held around the Write and around the close.
Exclusive ==
  /\ mu = "stdin" <=> stdin = "write"
  /\ mu = "closer" <=> closer = "close"

\* Bytes that were read and are still in hand.
InTransit == IF stdout \in {"send", "sending"} THEN Len(frame.payload) ELSE 0

\* What was read is seen, but for the frame in hand, as long as the browser can
\* be reached; a frame in hand holds the last bytes that were read.
Passing ==
  /\ Len(seen) <= read - InTransit
  /\ (registered \/ stdout = "sending") /\ socket => Len(seen) = read - InTransit
  /\ \A i \in DOMAIN seen : seen[i] = i
  /\ stdout \in {"send", "sending"} =>
       /\ frame.type = FrameOutput /\ frame.payload \in Seq(Nat)
       /\ frame.length = Len(frame.payload)
       /\ \A i \in 1..Len(frame.payload) :
            frame.payload[i] = (read - Len(frame.payload)) + i

\* The channel done is closed after the last byte, and the end waits for it.
Ending ==
  /\ done => stdout = "ended" /\ read = output /\ server # "open"
  /\ closer \in {"lock", "close", "ended"} => done

SshIInv == SshTyped /\ Holding /\ Exclusive /\ Passing /\ Ending

LEMMA SshInitial == SshInit => SshIInv
<1> SUFFICES ASSUME SshInit PROVE SshIInv
  OBVIOUS
<1> USE SshRelayAssumption DEF SshInit
<1>1. SshTyped
  BY DEF SshTyped, Stages
<1>2. Passing
  <2>1. stdout = "off" /\ seen = <<>> /\ read = 0
    OBVIOUS
  <2>2. InTransit = 0
    BY <2>1 DEF InTransit
  <2>3. Len(seen) = 0 /\ \A i \in DOMAIN seen : seen[i] = i
    BY <2>1
  <2> QED
    BY <2>1, <2>2, <2>3 DEF Passing
<1> QED
  BY <1>1, <1>2 DEF SshIInv, Holding, Exclusive, Ending

\* Nothing the goroutines look at changes while Start prepares the session.
LEMMA SetupStep ==
  ASSUME SshIInv, Setup
  PROVE  SshIInv'
<1> USE DEF SshIInv
<1>1. /\ UNCHANGED <<done, mu, registered, socket, server, output, read, buf, frame, seen>>
      /\ start # "up" /\ start # "failed"
  BY DEF Setup, ParseKey, Dial, NewSession, Prepare, NextCall, input, remote, results, browser
<1>2. /\ stdin = "off" /\ stdout = "off" /\ closer = "off"
      /\ \/ stdin' = "off" /\ stdout' = "off" /\ closer' = "off"
         \/ stdin' = "select" /\ stdout' = "read" /\ closer' = "wait" /\ start' = "up"
  BY <1>1 DEF Setup, ParseKey, Dial, NewSession, Prepare, goroutines, Holding
<1>3. start' \in Stages /\ Holding'
  <2>1. CASE ParseKey
    BY <2>1, <1>2 DEF ParseKey, Holding, Stages, goroutines
  <2>2. CASE Dial
    BY <2>2, <1>2 DEF Dial, Holding, Stages, goroutines
  <2>3. CASE NewSession
    BY <2>3, <1>2 DEF NewSession, Holding, Stages, goroutines
  <2>4. CASE Prepare
    <3>1. /\ start \in {"pty", "stdin", "stdout", "shell"}
          /\ \/ /\ start' \in {"stdin", "stdout", "shell", "up"}
                /\ UNCHANGED <<client, sshSession>>
                /\ start' # "up" => UNCHANGED goroutines
             \/ /\ start' = "failed" /\ sshSession' = "closed" /\ client' = "closed"
                /\ UNCHANGED goroutines
      BY <2>4 DEF Prepare, NextCall
    <3> QED
      BY <1>2, <3>1 DEF Holding, Stages, goroutines
  <2> QED
    BY <2>1, <2>2, <2>3, <2>4 DEF Setup
<1>4. SshTyped'
  BY <1>1, <1>2, <1>3 DEF SshTyped
<1>5. Passing'
  BY <1>1, <1>2 DEF Passing, InTransit
<1> QED
  BY <1>1, <1>2, <1>3, <1>4, <1>5 DEF Exclusive, Ending

LEMMA StdinStep ==
  ASSUME SshIInv, Stdin
  PROVE  SshIInv'
<1> USE DEF SshIInv
<1>1. /\ UNCHANGED <<start, client, sshSession, stdout, closer, done>>
      /\ UNCHANGED <<registered, server, output, read, buf, frame, seen, socket>>
  BY DEF Stdin, StdinReceive, StdinClosed, StdinDone, StdinLock, StdinWrite,
         setup, input, remote, results, browser
<1>2. /\ stdin \in {"select", "lock", "write"}
      /\ stdin' \in {"select", "lock", "write", "ended"}
  BY DEF Stdin, StdinReceive, StdinClosed, StdinDone, StdinLock, StdinWrite
<1>3. Exclusive'
  BY <1>1 DEF Exclusive, Stdin, StdinReceive, StdinClosed, StdinDone, StdinLock, StdinWrite
<1>4. SshTyped' /\ Holding'
  BY <1>1, <1>2 DEF SshTyped, Holding
<1>5. Passing' /\ Ending'
  BY <1>1 DEF Passing, InTransit, Ending
<1> QED
  BY <1>3, <1>4, <1>5

LEMMA CloserStep ==
  ASSUME SshIInv, Closer
  PROVE  SshIInv'
<1> USE DEF SshIInv
<1>1. /\ UNCHANGED <<start, stdin, stdout, done>>
      /\ UNCHANGED <<registered, server, output, read, buf, frame, seen, socket>>
  BY DEF Closer, CloserWake, CloserLock, CloserClose, setup, input, remote, results, browser
<1>2. /\ closer \in {"wait", "lock", "close"} /\ closer' \in {"lock", "close", "ended"}
      /\ done
      /\ closer' = "ended" \/ UNCHANGED <<client, sshSession>>
      /\ closer' = "ended" => client' = "closed" /\ sshSession' = "closed"
  BY DEF Closer, CloserWake, CloserLock, CloserClose, setup, Ending
<1>3. Exclusive'
  BY <1>1 DEF Exclusive, Closer, CloserWake, CloserLock, CloserClose
<1>4. SshTyped' /\ Holding'
  BY <1>1, <1>2 DEF SshTyped, Holding
<1>5. Passing' /\ Ending'
  BY <1>1, <1>2 DEF Passing, InTransit, Ending
<1> QED
  BY <1>3, <1>4, <1>5

LEMMA AroundStep ==
  ASSUME SshIInv, Hub \/ Browser \/ Server
  PROVE  SshIInv'
<1> USE DEF SshIInv
<1> USE DEF Hub, Browser, Server, Forward, LoseRegistration, BreakSocket, BrowserTakes,
            BeginPong, EndPong, ServerTakes, ServerSends, ServerEnds
<1>1. /\ UNCHANGED <<start, client, sshSession, stdin, stdout, closer, done, mu>>
      /\ UNCHANGED <<read, buf, frame, seen>>
  BY DEF setup, goroutines, results, browser
<1>2. /\ (socket' => socket) /\ (registered' => registered)
      /\ \/ UNCHANGED <<output, server>>
         \/ server = "open" /\ server' = "open" /\ output' = output + 1
         \/ server' \in {"eof", "closed"} /\ output' = output
  BY DEF input, remote, browser
<1>3. SshTyped' /\ Holding' /\ Exclusive'
  BY <1>1, <1>2 DEF SshTyped, Holding, Exclusive
<1>4. Passing'
  BY <1>1, <1>2 DEF Passing, InTransit
<1>5. Ending'
  BY <1>1, <1>2 DEF Ending
<1> QED
  BY <1>3, <1>4, <1>5

LEMMA Concatenation ==
  ASSUME NEW s \in Seq(Nat), NEW t \in Seq(Nat)
  PROVE  /\ s \o t \in Seq(Nat)
         /\ Len(s \o t) = Len(s) + Len(t)
         /\ \A i \in 1..Len(s) : (s \o t)[i] = s[i]
         /\ \A i \in 1..Len(t) : (s \o t)[Len(s) + i] = t[i]
OBVIOUS

\* The frame made of the first n bytes of the buffer.
LEMMA ReceivedBytes ==
  ASSUME SshTyped, NEW n \in 1..BufSize
  PROVE  LET payload == SubSeq(Received(n), 1, n)
         IN /\ Received(n) \in [1..BufSize -> Nat]
            /\ payload \in Seq(Nat) /\ Len(payload) = n
            /\ \A i \in 1..n : payload[i] = read + i
<1> USE SshRelayAssumption
<1>1. Received(n) \in [1..BufSize -> Nat]
  BY DEF Received, SshTyped
<1>2. Received(n) \in Seq(Nat) /\ Len(Received(n)) = BufSize
  BY <1>1
<1>3. \A i \in 1..n : Received(n)[i] = read + i
  BY DEF Received
<1> HIDE DEF Received
<1> QED
  BY <1>1, <1>2, <1>3

LEMMA StdoutStep ==
  ASSUME SshIInv, Stdout
  PROVE  SshIInv'
<1> USE DEF SshIInv
<1>1. /\ UNCHANGED <<start, client, sshSession, stdin, closer, mu>>
      /\ UNCHANGED <<registered, server, output, socket>>
  BY DEF Stdout, ReadOutput, BeginSend, EndSend, ReadEnd, setup, input, remote, browser
<1>2. /\ stdout \in {"read", "send", "sending"} /\ stdout' \in {"read", "send", "sending", "ended"}
  BY DEF Stdout, ReadOutput, BeginSend, EndSend, ReadEnd
<1>3. Holding' /\ Exclusive'
  BY <1>1, <1>2 DEF Holding, Exclusive
<1>4. ASSUME NEW n \in 1..BufSize, ReadOutput(n)
      PROVE  SshTyped' /\ Passing' /\ Ending'
  <2> DEFINE payload == SubSeq(Received(n), 1, n)
  <2>1. /\ stdout = "read" /\ stdout' = "send" /\ n <= output - read /\ read' = read + n
        /\ buf' = Received(n) /\ UNCHANGED <<done, seen>>
        /\ frame'.type = FrameOutput /\ frame'.payload = payload
        /\ frame'.length = Len(payload)
    BY <1>4 DEF ReadOutput, EncodeOutput, EncodeFrame
  <2>2. /\ Received(n) \in [1..BufSize -> Nat]
        /\ payload \in Seq(Nat) /\ Len(payload) = n
        /\ \A i \in 1..n : payload[i] = read + i
    BY ReceivedBytes
  <2> HIDE DEF payload
  <2>3. n \in Nat /\ read \in Nat /\ output \in Nat /\ Len(seen) \in Nat
    BY SshRelayAssumption DEF SshTyped
  <2>4. SshTyped'
    BY <1>1, <1>2, <2>1, <2>2, <2>3 DEF SshTyped
  <2>5. InTransit' = n /\ InTransit = 0
    BY <2>1, <2>2 DEF InTransit
  <2>6. Passing'
    BY <1>1, <2>1, <2>2, <2>3, <2>5 DEF Passing
  <2>7. ~done
    BY <2>1 DEF Ending
  <2> QED
    BY <1>1, <2>1, <2>4, <2>6, <2>7 DEF Ending
<1>B. CASE BeginSend
  <2>1. /\ stdout = "send" /\ UNCHANGED <<done, read, buf, frame, seen>>
        /\ \/ registered /\ stdout' \in {"send", "sending"}
           \/ ~registered /\ stdout' = "read"
    BY <1>B DEF BeginSend, results
  <2>2. Passing'
    <3>1. CASE stdout' \in {"send", "sending"}
      BY <1>1, <2>1, <3>1 DEF Passing, InTransit
    <3>2. CASE ~registered /\ stdout' = "read"
      <4>1. Len(seen) <= read
        BY <2>1 DEF Passing, InTransit, SshTyped
      <4> QED
        BY <1>1, <2>1, <3>2, <4>1 DEF Passing, InTransit, SshTyped
    <3> QED
      BY <2>1, <3>1, <3>2
  <2>3. SshTyped'
    BY <1>1, <1>2, <2>1 DEF SshTyped
  <2>4. Ending'
    BY <1>1, <2>1 DEF Ending
  <2> QED
    BY <1>3, <2>2, <2>3, <2>4 DEF SshIInv
<1>5. CASE EndSend
  <2>1. /\ stdout = "sending" /\ stdout' = "read" /\ UNCHANGED <<done, read, buf, frame>>
        /\ seen' = IF socket THEN seen \o OnMessage(frame) ELSE seen
    BY <1>5 DEF EndSend
  <2> DEFINE k == Len(frame.payload)
  <2>2. /\ frame.payload \in Seq(Nat) /\ frame.type = FrameOutput /\ frame.length = k
        /\ \A i \in 1..k : frame.payload[i] = (read - k) + i
        /\ Len(seen) <= read - k /\ (socket => Len(seen) = read - k)
        /\ \A i \in DOMAIN seen : seen[i] = i
    BY <2>1 DEF Passing, InTransit
  <2>3. k \in Nat /\ read \in Nat /\ seen \in Seq(Nat) /\ Len(seen) \in Nat
    BY <2>2 DEF SshTyped
  <2>4. OnMessage(frame) = frame.payload
    <3>1. OnMessage(frame) = SubSeq(frame.payload, 1, k)
      BY <2>2 DEF OnMessage
    <3> QED
      BY <2>2, <2>3, <3>1
  <2>5. InTransit' = 0
    BY <2>1 DEF InTransit
  <2>6. CASE socket
    <3> DEFINE more == frame.payload
    <3>1. seen' = seen \o more /\ more \in Seq(Nat) /\ Len(more) = k
      BY <2>1, <2>2, <2>4, <2>6
    <3>2. Len(seen) = read - k /\ \A i \in 1..k : more[i] = Len(seen) + i
      BY <2>2, <2>6
    <3> HIDE DEF more, k
    <3>3. seen' \in Seq(Nat) /\ Len(seen') = Len(seen) + k
      BY <2>3, <3>1, Concatenation
    <3>4. \A i \in DOMAIN seen' : seen'[i] = i
      <4> SUFFICES ASSUME NEW i \in DOMAIN seen' PROVE seen'[i] = i
        OBVIOUS
      <4>1. i \in 1..(Len(seen) + k)
        BY <3>3
      <4>2. CASE i <= Len(seen)
        <5>1. i \in 1..Len(seen) /\ seen[i] = i
          BY <2>2, <2>3, <4>1, <4>2
        <5> QED
          BY <2>3, <3>1, <5>1, Concatenation
      <4>3. CASE i > Len(seen)
        <5>1. PICK j \in 1..k : i = Len(seen) + j
          <6>1. i - Len(seen) \in 1..k /\ i = Len(seen) + (i - Len(seen))
            BY <2>3, <4>1, <4>3
          <6> QED
            BY <6>1
        <5>2. seen'[i] = more[j]
          BY <2>3, <3>1, <5>1, Concatenation
        <5> QED
          BY <3>2, <5>1, <5>2
      <4> QED
        BY <2>3, <4>1, <4>2, <4>3
    <3>5. Len(seen') = read'
      BY <2>1, <2>3, <3>2, <3>3
    <3>6. Passing'
      BY <1>1, <2>1, <2>3, <2>5, <3>4, <3>5 DEF Passing
    <3> QED
      BY <1>1, <1>3, <2>1, <3>3, <3>6 DEF SshTyped, Ending
  <2>7. CASE ~socket
    <3>1. seen' = seen
      BY <2>1, <2>7
    <3>2. Passing'
      BY <1>1, <2>1, <2>2, <2>3, <2>5, <2>7, <3>1 DEF Passing
    <3> QED
      BY <1>1, <1>3, <2>1, <3>1, <3>2 DEF SshTyped, Ending
  <2> QED
    BY <2>6, <2>7
<1>6. CASE ReadEnd
  <2>1. /\ stdout = "read" /\ stdout' = "ended" /\ read = output /\ server # "open"
        /\ UNCHANGED <<read, buf, frame, seen>>
    BY <1>6 DEF ReadEnd, results
  <2>2. InTransit = 0 /\ InTransit' = 0
    BY <2>1 DEF InTransit
  <2>3. Passing'
    BY <1>1, <2>1, <2>2 DEF Passing
  <2>4. done'
    BY <1>6 DEF ReadEnd
  <2> QED
    BY <1>1, <1>3, <2>1, <2>3, <2>4 DEF SshTyped, Ending
<1> QED
  BY <1>3, <1>4, <1>B, <1>5, <1>6 DEF Stdout

\* What Start, the three goroutines and the mutex hold, and where every byte is.
THEOREM SshInductive == SshSpec => []SshIInv
<1>1. SshIInv /\ [SshNext]_sshVars => SshIInv'
  <2>1. CASE UNCHANGED sshVars
    BY <2>1 DEF SshIInv, SshTyped, Holding, Exclusive, Passing, InTransit, Ending,
                sshVars, setup, goroutines, input, remote, results, browser
  <2> QED
    BY <2>1, SetupStep, StdinStep, StdoutStep, CloserStep, AroundStep DEF SshNext
<1> QED
  BY <1>1, SshInitial, PTL DEF SshSpec

\* Whatever the sizes of the reads, the browser shows a beginning of what the
\* server sent, and all of it if it could be reached to the end (handler.go:127).
THEOREM OutputArrivesWhole == SshSpec => []OutputIsWhole
<1>1. SshIInv => OutputIsWhole
  <2> SUFFICES ASSUME SshIInv PROVE OutputIsWhole
    OBVIOUS
  <2>1. InTransit \in Nat /\ read \in Nat /\ output \in Nat /\ read <= output /\ Len(seen) \in Nat
    BY DEF SshIInv, SshTyped, Passing, InTransit
  <2>2. Len(seen) <= output /\ \A i \in DOMAIN seen : seen[i] = i
    BY <2>1 DEF SshIInv, Passing
  <2>3. done /\ registered /\ socket => Len(seen) = output
    BY <2>1 DEF SshIInv, Passing, Ending, InTransit
  <2> QED
    BY <2>2, <2>3 DEF OutputIsWhole
<1> QED
  BY <1>1, SshInductive, PTL

\* A call of Start that failed holds no connection; one that succeeded gives its
\* connection up after the last byte and never under a Write (handler.go:112).
THEOREM ConnectionsClosed == SshSpec => []ConnectionAccounted
<1>1. SshIInv => ConnectionAccounted
  BY DEF SshIInv, Holding, Exclusive, Ending, ConnectionAccounted
<1> QED
  BY <1>1, SshInductive, PTL
=============================================================================
