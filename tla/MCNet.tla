------------------------------- MODULE MCNet --------------------------------
(***************************************************************************)
(* The parts between the kernel and the messages: buffers, sockets, the    *)
(* acceptor, timers, the HTTP server and client and the connections of     *)
(* peers.  Each is checked by itself against everything that its           *)
(* neighbours may do to it: a behaviour is about one part, and the others  *)
(* stay as they are.                                                       *)
(***************************************************************************)
EXTENDS CircularBuffer, FiniteSets, Integers

CONSTANTS Parts,             \* the parts to check
          MaxBytes,          \* the bytes a stream ever holds
          SocketSize, SocketId, MaxConn,   \* of TCPSocket
          Conn, Banned, NoConn,                       \* of TCPAcceptor
          TimerId, MaxArmed,                          \* of Timer
          Requests, BufSize,                          \* of HttpServer
          Request, None, Timeout, MaxLosses,          \* of HttpAgent
          HeaderSize, Body, Bad, Answer, MaxBroadcast \* of P2PClient

VARIABLES part,
          st_buffer, st_in, st_error, st_io,                        \* StringStream
          sock, called, live, conns, torn,                             \* TCPSocket
          arrived, backlog, gone, owner, accepting, socket_being_accepted,
          socket_ready, clients, dropped, failed,                   \* TCPAcceptor
          impls, waits, ti_impl, armed, count, fired,               \* Timer
          m1, m2, m3, m4, m5, m6, m7, m8, m9, m10, m11, m12,
          m13, m14, m15, m16, m17    \* HttpServer, HttpAgent or P2PClient

\* one stream
St == INSTANCE StringStream WITH
        buffer <- st_buffer, in_position <- st_in, error <- st_error, io <- st_io

\* connections of one socket after another, and the objects for them: the one
\* in use and those with completions still queued
So == INSTANCE TCPSocket WITH Size <- SocketSize, Id <- SocketId

\* connections, some of them from banned addresses
Ac == INSTANCE TCPAcceptor

\* a timer that is set up to MaxArmed times
Ti == INSTANCE Timer WITH Id <- TimerId, impl <- ti_impl

\* requests back to back, on one connection of the server
Hs == INSTANCE HttpServer WITH
        sent <- m1, incoming <- m2, outgoing <- m3, asked_shutdown <- m4, buffer <- m5, current <- m6,
        head <- m7, receiving_body <- m8, body <- m9, waiting_write_response <- m10, keep_alive <- m11,
        responses <- m12, parked <- m13, executed <- m14, answered <- m15, wrongWrite <- m16, pc <- m17

\* one request after another, over connections that are lost
Ha == INSTANCE HttpAgent WITH
        sent_request <- m1, elapsed <- m2, open <- m3, waiting_write_response <- m4, reconnect_timer <- m5,
        wire <- m6, coming <- m7, outcome <- m8, executed <- m9, wrongWrite <- m10, losses <- m11

\* the messages of a peer, on one connection
Pc == INSTANCE P2PClient WITH
        sent <- m1, incoming <- m2, buffer <- m3, pos <- m4, receiving_body <- m5, request_body_length <- m6,
        body <- m7, responses <- m8, outgoing <- m9, waiting_shutdown <- m10, asked_shutdown <- m11,
        handled <- m12, broadcasts <- m13, pc <- m14

ASSUME NetAssumption ==
    /\ Hs!HeadsFit /\ Pc!ClientAssumption /\ Ac!AcceptorAssumption
    /\ {MaxBytes, SocketSize} \subseteq Nat /\ SocketId # {} /\ 0 \notin TimerId
    /\ Request \cap {None, "timeout", "cancelled"} = {}

\* The run has one request that is parked, one whose body is longer than all
\* buffers, one that asks to close, and a bad one behind it;
Req(h, b, a, kind) ==
    [head |-> h, body |-> b, answer |-> a, keep |-> kind # "close",
     bad |-> kind = "bad", long |-> kind = "long"]
MCRequests == <<Req(2, 0, 2, "now"), Req(3, 1, 1, "long"), Req(2, 7, 4, "now"),
                Req(2, 0, 2, "close"), Req(1, 0, 1, "bad")>>

\* and six messages, empty ones and one longer than all buffers together, some
\* of them answered, and the last one bad.
MCBody == <<1, 0, 7, 2, 0, 1>>
MCAnswer == <<2, 4, 0, 5, 1, 1>>

(***************************************************************************)
(* One part at a time                                                      *)
(***************************************************************************)
stream == <<st_buffer, st_in, st_error, st_io>>
socket == <<sock, called, live, conns, torn>>
acceptor == <<arrived, backlog, gone, owner, accepting, socket_being_accepted,
              socket_ready, clients, dropped, failed>>
timer == <<impls, waits, ti_impl, armed, count, fired>>
ms == <<m1, m2, m3, m4, m5, m6, m7, m8, m9, m10, m11, m12, m13, m14, m15, m16, m17>>
net == <<part, vars, stream, socket, acceptor, timer, ms>>

Unused(k) ==
    /\ k <= 12 => m12 = 0 /\ m13 = 0 /\ m14 = 0
    /\ k <= 15 => m15 = 0 /\ m16 = 0 /\ m17 = 0
NetInit ==
    /\ part \in Parts
    /\ Init /\ (part = "buffer" \/ impl = [i \in Index |-> 0])
    /\ St!Init /\ So!Init /\ Ac!Init /\ Ti!Init
    /\ CASE part = "agent" -> Ha!Init /\ Unused(12)
         [] part = "peer" -> Pc!Init /\ Unused(15)
         [] OTHER -> Hs!Init

\* a step A of part p
In(p, A) ==
    /\ part = p
    /\ A
    /\ IF p = "buffer" THEN TRUE ELSE UNCHANGED vars
    /\ IF p = "stream" THEN TRUE ELSE UNCHANGED stream
    /\ IF p = "socket" THEN TRUE ELSE UNCHANGED socket
    /\ IF p = "acceptor" THEN TRUE ELSE UNCHANGED acceptor
    /\ IF p = "timer" THEN TRUE ELSE UNCHANGED timer
    /\ CASE p = "server" -> TRUE
         [] p = "agent" -> UNCHANGED <<m12, m13, m14, m15, m16, m17>>
         [] p = "peer" -> UNCHANGED <<m15, m16, m17>>
         [] OTHER -> UNCHANGED ms
    /\ UNCHANGED part

\* after close nothing is left to do
AcceptorOver == ~owner /\ UNCHANGED acceptor

NetNext ==
    \/ In("buffer", Next)
    \/ In("stream", St!Next)
    \/ In("socket", So!Next)
    \/ In("acceptor", Ac!Next \/ AcceptorOver)
    \/ In("timer", Ti!Next)
    \/ In("server", Hs!Next)
    \/ In("agent", Ha!Next)
    \/ In("peer", Pc!Next)

\* The fairness of each part's own specification.  Only one part moves, so
\* that one condition of each part can share a formula.
Fair1 == \/ In("buffer", Round) \/ In("socket", So!Served("connect")) \/ In("acceptor", Ac!HandleAccept)
         \/ In("timer", Ti!Expires) \/ In("server", Hs!Step) \/ In("agent", Ha!on_client_response)
         \/ In("peer", Pc!Runs)
Fair2 == \/ In("socket", So!Served("handshake")) \/ In("server", Hs!advance_long_poll)
         \/ In("agent", Ha!on_reconnect_timer) \/ In("peer", Pc!Reads)
Fair3 == \/ In("socket", So!Served("write")) \/ In("server", Hs!Reads)
         \/ In("agent", Ha!ServerAnswers) \/ In("peer", Pc!Writes)
Fair4 == In("socket", So!ServedShut) \/ In("server", Hs!Writes)
Fair5 == In("socket", So!ServedDetached)
NetSpec ==
    /\ NetInit /\ [][NetNext]_net
    /\ WF_net(Fair1) /\ WF_net(Fair2) /\ WF_net(Fair3) /\ WF_net(Fair4) /\ WF_net(Fair5)
    /\ \A c \in Conn : SF_net(In("acceptor", Ac!Accepted(c)))

(***************************************************************************)
(* Properties                                                              *)
(***************************************************************************)
\* Operations and buffers belong to the connection they were started for:
\* one read and one write at a time, no bytes of an earlier connection, an
\* operation outstanding while there is room or something to send, no accepted
\* connection overwritten, one wait for each timer object, and a stream that is
\* not read past its end (platform/Network.cpp, MemoryStreams.cpp).  Of a socket
\* that was closed during its SSL handshake nothing is said from then on, because
\* the completion of that handshake runs on a freed object (TCPSocket!torn).
OperationsMatch ==
    /\ So!FlagsMatch /\ So!OwnBytes /\ So!Armed /\ So!ShutdownAfterData
    /\ Ac!NoneOverwritten /\ Ti!OneWaitEach /\ St!InBuffer

\* Messages are handled whole, in order and once, and answers go where they
\* are expected: whatever the pieces in which bytes arrive, requests are
\* executed one at a time, a retried or cancelled request of the agent never
\* gets another one's answer, and the queue of answers stays short
\* (http/Server.cpp, http/Agent.cpp, p2p/P2PClientBasic.cpp, P2P.cpp).
ServerInOrder == part = "server" => Hs!AnswersExpected /\ Hs!OneAtATime
AgentInOrder == part = "agent" => Ha!RightAnswer /\ Ha!WriteExpected /\ Ha!SomethingComes
PeerInOrder ==
    part = "peer" => Pc!TypeOK /\ Pc!InStep /\ Pc!HandledInOrder /\ Pc!QueueBounded
MessagesInOrder == ServerInOrder /\ AgentInOrder /\ PeerInOrder

\* No handler runs too late or too early: none after close, no client after the
\* acceptor is gone, a timer only for its latest setting, no shutdown before
\* the answer; and the stream of a message is a first in first out queue.  The
\* exception is a socket that was closed during its SSL handshake, whose
\* completion start_handshake binds to the bare object (Network.cpp:642).
HandlersInTime ==
    /\ So!NoHandlerAfterClose /\ Ac!NoClientAfterClose /\ Ti!OnlyLatestFires
    /\ [][part = "server" => Hs!ShutsAfterAnswer]_net
    /\ St!ImplementsFifo

\* Whoever waits is told: copy loops return, a connection attempt and a
\* shutdown are answered, waiting peers are accepted, a set timer fires, and
\* every request and message is handled in the end.
Waiting ==
    CASE part = "buffer" -> copy.dir # "none"
      [] part = "socket" -> So!Connecting(1)
      [] part = "acceptor" -> Ac!SomebodyWaits
      [] part = "timer" -> armed # 0
      [] part = "server" -> m17 = "idle"
      [] part = "agent" -> ~Ha!AllTold
      [] part = "peer" -> m14 = "idle"
      [] OTHER -> FALSE
Told ==
    CASE part = "socket" -> So!ConnectAnswered(1)
      [] part = "server" -> Hs!Answered(Len(Requests))
      [] part = "peer" -> Pc!Handled(Len(Body))
      [] OTHER -> ~Waiting
WaitersAreTold ==
    /\ Waiting ~> Told
    /\ So!Connecting(2) ~> So!ConnectAnswered(2)
    /\ So!ShutdownHeard

\* "if accept returns false, will fire accept_handler in future" (Network.hpp):
\* as long as there is an acceptor, somebody who waits is taken.
WillFire == Ac!WillFire
=============================================================================
