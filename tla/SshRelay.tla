------------------------------- MODULE SshRelay -------------------------------
(***************************************************************************)
(* relay/ssh/handler.go: Start connects to a host and leaves three         *)
(* goroutines behind, one for each direction and one that closes.  The     *)
(* input comes through the channel of a registration in the hub            *)
(* (RelayHub), the output goes back through Hub.SendToClient.  Nothing     *)
(* calls Start at this commit; what surrounds it here is what the hub does *)
(* and what an SSH server does.                                            *)
(*                                                                         *)
(* The library, as the handler uses it: a Write waits while the server     *)
(* grants no window and fails once the channel is closed; a Read waits for *)
(* output and ends after the last byte with EOF or the close.  A write to  *)
(* the WebSocket has no deadline: it waits while the browser takes nothing *)
(* and fails once the connection is broken; a second one that begins       *)
(* meanwhile panics, in a goroutine nobody recovers, and ends the server.  *)
(***************************************************************************)
EXTENDS Integers, Sequences

CONSTANTS
  InputCapacity,  \* of the input channel (100 in ws_handler.go)
  BufSize,    \* of the output buffer (4096 in the code)
  MaxInput,   \* bound: pieces of input ever forwarded
  MaxOutput   \* bound: bytes the server ever sends

ASSUME SshRelayAssumption ==
  /\ InputCapacity \in Nat \ {0} /\ BufSize \in Nat \ {0}
  /\ MaxInput \in Nat /\ MaxOutput \in Nat

VARIABLES
  start,      \* the call of Start: the call to the library it is at, or how it ended
  client, sshSession,  \* the connection and its session: "none", "open", "closed"
  done,       \* the channel done is closed
  mu,         \* who holds the mutex
  stdin, stdout, closer,  \* the steps of the goroutines
  registered, \* the hub has the registration; its end closes the input channel
  queued,     \* pieces of input in the input channel
  forwarded,  \* pieces of input the hub was asked to put there so far
  server,     \* "open", "eof" once it ended its output, "closed"
  window,     \* the server takes one more piece of input
  output,     \* bytes the server has sent; the n-th byte is n
  read,       \* how many of them Read has returned
  buf,        \* what is in the buffer
  frame,      \* the frame in hand
  socket,     \* the WebSocket is not broken
  room,       \* the browser takes one more message
  pong,       \* the goroutine that reads the WebSocket: "read", or "write" a ping's answer
  panicked,   \* two writes overlapped
  seen        \* the bytes the browser has written to its terminal

setup == <<start, client, sshSession>>
goroutines == <<stdin, stdout, closer>>
input == <<registered, queued, forwarded>>
remote == <<server, window, output>>
results == <<read, buf, frame, seen>>
browser == <<socket, room, pong, panicked>>
sshVars == <<setup, goroutines, done, mu, input, remote, results, browser>>

FrameOutput == 10

\* A frame in bytes is its type, the length in four, and the payload.  A buffer
\* of output is far shorter than four bytes can count.
EncodeFrame(type, payload) ==
  [type |-> type, length |-> Len(payload), payload |-> payload]

EncodeOutput(data) == EncodeFrame(FrameOutput, data)

\* What the page writes to its terminal for a message it gets.
OnMessage(message) ==
  IF message.type = FrameOutput THEN SubSeq(message.payload, 1, message.length) ELSE <<>>

SshInit ==
  /\ start = "key" /\ client = "none" /\ sshSession = "none"
  /\ done = FALSE /\ mu = "free"
  /\ stdin = "off" /\ stdout = "off" /\ closer = "off"
  /\ registered = TRUE /\ queued = 0 /\ forwarded = 0
  /\ server = "open" /\ window = FALSE /\ output = 0
  /\ read = 0 /\ buf = [i \in 1..BufSize |-> 0] /\ frame = EncodeOutput(<<>>) /\ seen = <<>>
  /\ socket = TRUE /\ room = FALSE /\ pong = "read" /\ panicked = FALSE

-----------------------------------------------------------------------------
(* Start.  A private key that does not parse ends it before anything is    *)
(* open.                                                                   *)
ParseKey ==
  /\ start = "key" /\ start' \in {"dial", "failed"}
  /\ UNCHANGED <<client, sshSession, goroutines, done, mu, input, remote, results, browser>>

Dial ==
  /\ start = "dial"
  /\ \/ start' = "session" /\ client' = "open"
     \/ start' = "failed" /\ UNCHANGED client
  /\ UNCHANGED <<sshSession, goroutines, done, mu, input, remote, results, browser>>

\* Mutant: the connection is left open.
NewSessionLeaving ==
  /\ start = "session"
  /\ \/ start' = "pty" /\ sshSession' = "open"
     \/ start' = "failed" /\ UNCHANGED sshSession
  /\ UNCHANGED <<client, goroutines, done, mu, input, remote, results, browser>>

NewSession ==
  /\ start = "session"
  /\ \/ start' = "pty" /\ sshSession' = "open" /\ UNCHANGED client
     \/ start' = "failed" /\ client' = "closed" /\ UNCHANGED sshSession
  /\ UNCHANGED <<goroutines, done, mu, input, remote, results, browser>>

\* RequestPty, StdinPipe, StdoutPipe and Shell, one after the other.
NextCall == [pty |-> "stdin", stdin |-> "stdout", stdout |-> "shell", shell |-> "up"]

\* Each gives up the session and the connection when it fails; after the last
\* one Start makes its goroutines and returns.
Prepare ==
  /\ start \in DOMAIN NextCall
  /\ \/ /\ start' = NextCall[start]
        /\ IF start' = "up"
           THEN stdin' = "select" /\ stdout' = "read" /\ closer' = "wait"
           ELSE UNCHANGED goroutines
        /\ UNCHANGED <<client, sshSession>>
     \/ /\ start' = "failed" /\ sshSession' = "closed" /\ client' = "closed"
        /\ UNCHANGED goroutines
  /\ UNCHANGED <<done, mu, input, remote, results, browser>>

-----------------------------------------------------------------------------
(* The goroutine of the input.                                             *)
StdinReceive ==
  /\ stdin = "select" /\ queued > 0
  /\ queued' = queued - 1 /\ stdin' = "lock"
  /\ UNCHANGED <<setup, stdout, closer, done, mu, registered, forwarded, remote, results, browser>>

\* The channel is closed and empty: the goroutine returns and tells nobody.
StdinClosed ==
  /\ stdin = "select" /\ queued = 0 /\ ~registered
  /\ stdin' = "ended"
  /\ UNCHANGED <<setup, stdout, closer, done, mu, input, remote, results, browser>>

\* Mutant: the select does not listen to done.
StdinDeaf ==
  /\ FALSE
  /\ UNCHANGED sshVars

StdinDone ==
  /\ stdin = "select" /\ done
  /\ stdin' = "ended"
  /\ UNCHANGED <<setup, stdout, closer, done, mu, input, remote, results, browser>>

StdinLock ==
  /\ stdin = "lock" /\ mu = "free"
  /\ mu' = "stdin" /\ stdin' = "write"
  /\ UNCHANGED <<setup, stdout, closer, done, input, remote, results, browser>>

\* The Write returns, with the piece taken or with an error nobody looks at,
\* and the mutex is given back.
StdinWrite ==
  /\ stdin = "write"
  /\ window \/ server = "closed" \/ client = "closed"
  /\ window' = FALSE
  /\ mu' = "free" /\ stdin' = "select"
  /\ UNCHANGED <<setup, stdout, closer, done, input, server, output, results, browser>>

-----------------------------------------------------------------------------
(* The goroutine of the output.                                            *)
Received(n) == [i \in 1..BufSize |-> IF i <= n THEN read + i ELSE buf[i]]

\* Mutant: the frame is made of the whole buffer.
ReadWholeBuffer(n) ==
  /\ stdout = "read" /\ n <= output - read
  /\ buf' = Received(n) /\ read' = read + n
  /\ frame' = EncodeOutput(SubSeq(buf', 1, BufSize))
  /\ stdout' = "send"
  /\ UNCHANGED <<setup, stdin, closer, done, mu, input, remote, seen, browser>>

\* Read returns n bytes of what has come.
ReadOutput(n) ==
  /\ stdout = "read" /\ n <= output - read
  /\ buf' = Received(n) /\ read' = read + n
  /\ frame' = EncodeOutput(SubSeq(buf', 1, n))
  /\ stdout' = "send"
  /\ UNCHANGED <<setup, stdin, closer, done, mu, input, remote, seen, browser>>

\* SendToClient finds the registration and begins the write.  Without one the
\* frame is dropped.
BeginSend ==
  /\ stdout = "send"
  /\ \/ registered /\ pong # "write" /\ stdout' = "sending" /\ UNCHANGED panicked
     \/ registered /\ pong = "write" /\ panicked' = TRUE /\ UNCHANGED stdout
     \/ ~registered /\ stdout' = "read" /\ UNCHANGED panicked
  /\ UNCHANGED <<setup, stdin, closer, done, mu, input, remote, results, socket, room, pong>>

\* The write returns; its error is dropped.
EndSend ==
  /\ stdout = "sending" /\ (room \/ ~socket)
  /\ seen' = IF socket THEN seen \o OnMessage(frame) ELSE seen
  /\ room' = FALSE /\ stdout' = "read"
  /\ UNCHANGED <<setup, stdin, closer, done, mu, input, remote, read, buf, frame, socket, pong, panicked>>

\* EOF or an error, after the last byte.
ReadEnd ==
  /\ stdout = "read" /\ read = output /\ server # "open"
  /\ done' = TRUE /\ stdout' = "ended"
  /\ UNCHANGED <<setup, stdin, closer, mu, input, remote, results, browser>>

-----------------------------------------------------------------------------
(* The goroutine that closes.                                              *)
CloserWake ==
  /\ closer = "wait" /\ done
  /\ closer' = "lock"
  /\ UNCHANGED <<setup, stdin, stdout, done, mu, input, remote, results, browser>>

CloserLock ==
  /\ closer = "lock" /\ mu = "free"
  /\ mu' = "closer" /\ closer' = "close"
  /\ UNCHANGED <<setup, stdin, stdout, done, input, remote, results, browser>>

CloserClose ==
  /\ closer = "close"
  /\ sshSession' = "closed" /\ client' = "closed"
  /\ mu' = "free" /\ closer' = "ended"
  /\ UNCHANGED <<start, stdin, stdout, done, input, remote, results, browser>>

-----------------------------------------------------------------------------
(* Around the relay: the hub, the browser and the server.                  *)

\* ForwardToRelay; a full channel drops the piece.
Forward ==
  /\ registered /\ forwarded < MaxInput
  /\ forwarded' = forwarded + 1
  /\ queued' = IF queued < InputCapacity THEN queued + 1 ELSE queued
  /\ UNCHANGED <<setup, goroutines, done, mu, registered, remote, results, browser>>

LoseRegistration ==
  /\ registered /\ registered' = FALSE
  /\ UNCHANGED <<setup, goroutines, done, mu, queued, forwarded, remote, results, browser>>

BreakSocket ==
  /\ socket /\ socket' = FALSE
  /\ UNCHANGED <<setup, goroutines, done, mu, input, remote, results, room, pong, panicked>>

BrowserTakes ==
  /\ socket /\ ~room /\ room' = TRUE
  /\ UNCHANGED <<setup, goroutines, done, mu, input, remote, results, socket, pong, panicked>>

\* The answer to a ping, by the goroutine of ServeWS (ws_handler.go:100).
BeginPong ==
  /\ pong = "read" /\ socket
  /\ IF stdout = "sending" THEN panicked' = TRUE /\ UNCHANGED pong
                           ELSE pong' = "write" /\ UNCHANGED panicked
  /\ UNCHANGED <<setup, goroutines, done, mu, input, remote, results, socket, room>>

EndPong ==
  /\ pong = "write" /\ (room \/ ~socket)
  /\ pong' = "read" /\ room' = FALSE
  /\ UNCHANGED <<setup, goroutines, done, mu, input, remote, results, socket, panicked>>

ServerTakes ==
  /\ start = "up" /\ server # "closed" /\ ~window
  /\ window' = TRUE
  /\ UNCHANGED <<setup, goroutines, done, mu, input, server, output, results, browser>>

ServerSends ==
  /\ start = "up" /\ server = "open" /\ output < MaxOutput
  /\ output' = output + 1
  /\ UNCHANGED <<setup, goroutines, done, mu, input, server, window, results, browser>>

\* The end of the output, and the close of the channel or the loss of the
\* connection, with or without it.
ServerEnds ==
  /\ start = "up" /\ server # "closed"
  /\ server' \in {"eof", "closed"} \ {server}
  /\ UNCHANGED <<setup, goroutines, done, mu, input, window, output, results, browser>>

Setup == ParseKey \/ Dial \/ NewSession \/ Prepare
Stdin == StdinReceive \/ StdinClosed \/ StdinDone \/ StdinLock \/ StdinWrite
Stdout == (\E n \in 1..BufSize : ReadOutput(n)) \/ BeginSend \/ EndSend \/ ReadEnd
Closer == CloserWake \/ CloserLock \/ CloserClose
Hub == Forward \/ LoseRegistration
Browser == BreakSocket \/ BrowserTakes \/ BeginPong \/ EndPong
Server == ServerTakes \/ ServerSends \/ ServerEnds

SshNext == ~panicked /\ (Setup \/ Stdin \/ Stdout \/ Closer \/ Hub \/ Browser \/ Server)

\* Goroutines that can run do; a mutex is handed to who waits long enough, and
\* a select picks among its ready cases at random.
Fairness ==
  /\ WF_sshVars(~panicked /\ Stdin) /\ WF_sshVars(~panicked /\ Stdout)
  /\ WF_sshVars(~panicked /\ Closer)
  /\ SF_sshVars(~panicked /\ StdinDone) /\ SF_sshVars(~panicked /\ StdinLock)
  /\ SF_sshVars(~panicked /\ CloserLock)

SshSpec == SshInit /\ [][SshNext]_sshVars /\ Fairness

-----------------------------------------------------------------------------
\* What the browser shows is a beginning of what the server sent, whatever
\* sizes the reads have; and all of it once the relay has ended, if the
\* browser was there until then (handler.go:127-130).
OutputIsWhole ==
  /\ Len(seen) <= output /\ \A i \in DOMAIN seen : seen[i] = i
  /\ done /\ registered /\ socket => Len(seen) = output

\* Who closes the connection and when: a call of Start that failed at any of
\* its steps holds none; one that succeeded keeps it until the server has
\* ended its output and all of it was read, also when the browser is long gone
\* (handler.go:112), and never takes it away under a Write (handler.go:114).
ConnectionAccounted ==
  /\ start = "failed" => client # "open" /\ sshSession # "open"
  /\ start = "up" /\ client # "open" => server # "open" /\ read = output
  /\ closer = "close" => stdin # "write"

Released == closer = "ended" /\ stdin = "ended" /\ stdout = "ended" /\ client = "closed"

\* When the server has ended its output, the goroutines end and the connection
\* is closed, unless a panic ended the server first.  It takes two others: the
\* SSH server keeps taking input or closes the channel, because the closing
\* waits for a Write under the mutex (handler.go:114, 143), and the browser
\* keeps taking messages or its connection breaks, because done is closed by
\* the goroutine that writes to it without a deadline (hub.go:49,
\* ws_handler.go:66).  Nothing else holds the relay up.
ServerEndReleases ==
  []<>(window \/ server = "closed") /\ []<>(room \/ ~socket)
    => ((start = "up" /\ server # "open") ~> (Released \/ panicked))
=============================================================================
