------------------------------ MODULE P2PClient ------------------------------
(***************************************************************************)
(* P2PClient (p2p/P2P.cpp): cuts the byte stream of a socket into messages *)
(* of a header and a body and queues the answers.  The buffers are queues  *)
(* (CircularBuffer), so only the number of bytes in each matters: the      *)
(* stream is the concatenation of the peer's messages, and `pos' is how    *)
(* much of it was taken out of `buffer'.  A call of advance_state and the  *)
(* loop of on_request_ready run without another event in between; they are *)
(* split into the steps of this module by `pc'.                            *)
(***************************************************************************)
EXTENDS Integers, Sequences, ByteQueue

CONSTANTS HeaderSize,   \* header_size
          Body,         \* the body length of each message the peer sends: a sequence
          Bad,          \* messages whose header is refused (on_request_header)
          Answer,       \* the bytes of the answer to each message, 0 for none: a sequence
          BufSize,      \* bytes of each buffer (RECOMMENDED_BUFFER_SIZE, 8192 in the socket)
          MaxBroadcast  \* bound: messages the node sends by itself

ClientAssumption ==
    /\ HeaderSize \in Nat \ {0} /\ BufSize \in Nat /\ BufSize >= HeaderSize
    /\ Body \in Seq(Nat) /\ Answer \in Seq(Nat) /\ Len(Body) = Len(Answer)

VARIABLES sent,        \* bytes the peer sent and the socket has not read
          incoming,    \* bytes in the socket's incoming buffer
          buffer,      \* bytes in `buffer'
          pos,         \* bytes of the stream taken out of `buffer'
          receiving_body, request_body_length, body,   \* body: receiving_body_stream.size()
          responses,   \* bytes left of each queued answer
          outgoing,    \* bytes in the socket's outgoing buffer
          waiting_shutdown, asked_shutdown,
          handled,     \* the messages given to on_request_ready: [from, to] in the stream
          broadcasts,  \* messages sent by the node itself
          pc           \* "idle", "advance", "ready", "next", "closed"

vars == <<sent, incoming, buffer, pos, receiving_body, request_body_length, body,
          responses, outgoing, waiting_shutdown, asked_shutdown, handled, broadcasts, pc>>

net == <<sent, handled, broadcasts>>
reading == <<incoming, buffer, pos, receiving_body, request_body_length, body>>
writing == <<responses, outgoing, asked_shutdown>>

\* the stream: where message k begins, and which message begins at a place
Start(k) == Sum([i \in 1 .. k - 1 |-> HeaderSize + Body[i]])
Total == Start(Len(Body) + 1)
MessageAt(p) == {k \in 1 .. Len(Body) : Start(k) = p}

Init ==
    /\ sent = Total
    /\ incoming = 0 /\ buffer = 0 /\ pos = 0
    /\ receiving_body = FALSE /\ request_body_length = 0 /\ body = 0
    /\ responses = <<>> /\ outgoing = 0
    /\ waiting_shutdown = FALSE /\ asked_shutdown = FALSE
    /\ handled = <<>>
    /\ broadcasts = 0
    /\ pc = "idle"

(***************************************************************************)
(* Writing                                                                 *)
(***************************************************************************)
\* what the socket takes of the answers: until it is full
Accepted(rs) == Lesser(Sum(rs), BufSize - outgoing)

\* write(): a socket that was asked to shut down takes nothing
write(rs, shutdown) ==
    LET n == IF asked_shutdown THEN 0 ELSE Accepted(rs) IN
    /\ outgoing' = outgoing + n
    /\ responses' = Left(rs, n)
    /\ asked_shutdown' = (asked_shutdown \/ (responses' = <<>> /\ shutdown))

(***************************************************************************)
(* Reading                                                                 *)
(***************************************************************************)

take_body(b, i, have, length, from) ==
    LET r == BodyRead(b, i, length - have, BufSize) IN
    /\ body' = have + r.body
    /\ buffer' = r.buffer
    /\ incoming' = r.incoming
    /\ pos' = from + r.body

\* the length on_request_header reads at this place of the stream: of a
\* message that begins here, or of whatever bytes are there
LengthAt(p) ==
    IF MessageAt(p) # {} THEN {Body[k] : k \in MessageAt(p)} ELSE {-1}

HeaderRefused(p) == MessageAt(p) \cap Bad # {}

\* disconnect(): the client is cleared and the socket closed
disconnect ==
    /\ buffer' = 0 /\ receiving_body' = FALSE /\ body' = 0
    /\ responses' = <<>>
    /\ incoming' = 0 /\ outgoing' = 0
    /\ pc' = "closed"
    /\ UNCHANGED <<pos, request_body_length, waiting_shutdown, asked_shutdown, net>>

\* reading waits while more than one answer does
Backed(rs) == Len(rs) > 1

\* advance_state: write; if at most one answer is left over, read.  `after' is
\* where control goes when a whole message is there, `stop' when it is not.
advance_state(after, stop) ==
    /\ write(responses, waiting_shutdown)
    /\ \/ /\ Backed(responses')
          /\ pc' = stop
          /\ UNCHANGED reading
       \/ /\ ~Backed(responses')
          /\ receiving_body
          /\ take_body(buffer, IF asked_shutdown' THEN 0 ELSE incoming, body,
                       request_body_length, pos)
          /\ pc' = IF body' = request_body_length THEN after ELSE stop
          /\ UNCHANGED <<receiving_body, request_body_length>>
       \/ LET i == IF asked_shutdown' THEN 0 ELSE incoming
              b == Filled(buffer, i, BufSize) IN
          /\ ~Backed(responses')
          /\ ~receiving_body
          /\ IF b < HeaderSize
             THEN /\ buffer' = b
                  /\ incoming' = i - (b - buffer)
                  /\ pc' = stop
                  /\ UNCHANGED <<pos, receiving_body, request_body_length, body>>
             ELSE /\ ~HeaderRefused(pos)
                  /\ request_body_length' \in LengthAt(pos)
                  /\ receiving_body' = TRUE
                  /\ take_body(b - HeaderSize, i - (b - buffer), 0, request_body_length',
                               pos + HeaderSize)
                  /\ pc' = IF body' = request_body_length' THEN after ELSE stop
    /\ UNCHANGED <<waiting_shutdown, net>>

\* the same, with a header that is refused
advance_refused ==
    /\ ~receiving_body
    /\ ~Backed(Left(responses, IF asked_shutdown THEN 0 ELSE Accepted(responses)))
    /\ Filled(buffer, incoming, BufSize) >= HeaderSize
    /\ HeaderRefused(pos)
    /\ disconnect

\* the socket's rw_handler
Advance ==
    /\ pc = "advance"
    /\ advance_state("ready", "idle") \/ advance_refused

\* read_next_request begins with advance_state(false)
NextRequest ==
    /\ pc = "ready"
    /\ advance_state("next", "next") \/ advance_refused

Complete == receiving_body /\ body = request_body_length

\* on_request_ready: handle the message and send its answer
handle(k) ==
    /\ IF waiting_shutdown THEN pc' = "idle" ELSE pc' = "ready"
    /\ IF ~waiting_shutdown
       THEN /\ handled' = Append(handled, [from |-> pos - body - HeaderSize, to |-> pos])
            /\ IF Answer[k] > 0 THEN write(Append(responses, Answer[k]), FALSE)
               ELSE UNCHANGED writing
       ELSE UNCHANGED <<handled, writing>>

read_next_request ==
    /\ pc = "next"
    /\ IF ~Complete
       THEN pc' = "idle" /\ UNCHANGED <<reading, writing, net, waiting_shutdown>>
       ELSE /\ receiving_body' = FALSE
            /\ body' = 0
            /\ request_body_length' = 0
            /\ \E k \in MessageAt(pos - body - HeaderSize) : handle(k)
            /\ UNCHANGED <<incoming, buffer, pos, sent, broadcasts, waiting_shutdown>>

(***************************************************************************)
(* Events                                                                  *)
(***************************************************************************)
\* the socket reads bytes (see TCPSocket: a read is outstanding while there is room)
SocketReads(n) ==
    /\ pc = "idle"
    /\ n \in 1 .. Lesser(sent, BufSize - incoming)
    /\ sent' = sent - n
    /\ incoming' = IF asked_shutdown THEN 0 ELSE incoming + n
    /\ pc' = "advance"
    /\ UNCHANGED <<buffer, pos, receiving_body, request_body_length, body, writing,
                   waiting_shutdown, handled, broadcasts>>

\* the socket has written bytes
SocketWrites(n) ==
    /\ pc = "idle"
    /\ n \in 1 .. outgoing
    /\ outgoing' = outgoing - n
    /\ pc' = "advance"
    /\ UNCHANGED <<reading, responses, waiting_shutdown, asked_shutdown, net>>

\* send() of a message of one byte that answers nothing
Broadcast ==
    /\ pc = "idle"
    /\ ~waiting_shutdown
    /\ broadcasts < MaxBroadcast
    /\ broadcasts' = broadcasts + 1
    /\ write(Append(responses, 1), FALSE)
    /\ UNCHANGED <<reading, waiting_shutdown, sent, handled, pc>>

send_shutdown ==
    /\ pc = "idle"
    /\ ~waiting_shutdown
    /\ waiting_shutdown' = TRUE
    /\ write(responses, TRUE)
    /\ UNCHANGED <<reading, net, pc>>

\* on_socket_disconnect
SocketEnds ==
    /\ pc = "idle"
    /\ disconnect

\* a connection that ended
Over == pc = "closed" /\ UNCHANGED vars

Runs == Advance \/ NextRequest \/ read_next_request
Reads == \E n \in 1 .. BufSize : SocketReads(n)
Writes == \E n \in 1 .. BufSize : SocketWrites(n)

Next ==
    \/ Runs \/ Reads \/ Writes
    \/ Broadcast \/ send_shutdown \/ SocketEnds \/ Over

\* The event loop goes on with what runs, the peer's bytes arrive, and the peer
\* takes ours.
Spec == /\ Init /\ [][Next]_vars
        /\ WF_vars(Runs) /\ WF_vars(Reads) /\ WF_vars(Writes)

(***************************************************************************)
(* Properties                                                              *)
(***************************************************************************)
\* Bytes are where they should be, in buffers that hold them.
TypeOK ==
    /\ incoming \in 0 .. BufSize /\ buffer \in 0 .. BufSize /\ outgoing \in 0 .. BufSize
    /\ pos \in 0 .. Total /\ body \in 0 .. request_body_length
    /\ \A k \in 1 .. Len(responses) : responses[k] > 0

\* The stream stays in step: a header is only ever looked for where a message
\* begins, whatever the pieces in which the bytes arrive, and no byte is lost
\* between socket, buffer and body.
InStep ==
    /\ ~receiving_body /\ pc # "closed" => MessageAt(pos) # {} \/ pos = Total
    /\ receiving_body => MessageAt(pos - body - HeaderSize) # {}
    /\ pc # "closed" /\ ~asked_shutdown => pos + buffer + incoming + sent = Total

\* The messages handled are the messages sent, whole, in order, once each.
HandledInOrder ==
    \A k \in 1 .. Len(handled) : handled[k] = [from |-> Start(k), to |-> Start(k + 1)]

\* "keep outward queue busy with (one) response": reading stops while answers
\* wait, so a peer that sends and does not read cannot make the queue grow;
\* only the node's own messages come on top.
QueueBounded == Len(responses) <= 2 + broadcasts

\* Every message that the peer sends whole is handled, unless the connection
\* ends or is to be shut down: no combination of full buffers and queued
\* answers leaves bytes lying with no event to come.
Handled(k) == Len(handled) >= k \/ pc = "closed" \/ waiting_shutdown
=============================================================================
