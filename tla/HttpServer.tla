----------------------------- MODULE HttpServer -----------------------------
(***************************************************************************)
(* One connection of http::Server (http/Server.cpp): the head of a request *)
(* is parsed (HttpText), its body collected, the request is given to the   *)
(* node, and the answer is written: at once, or, when the node parks the   *)
(* request as a long poll, later.  Numbers of bytes stand for bytes.       *)
(***************************************************************************)
EXTENDS Integers, Sequences, ByteQueue

CONSTANTS Requests,   \* what the peer sends, back to back:
                      \* [head, body, answer: bytes; keep, bad, long: BOOLEAN]
          BufSize     \* bytes of each buffer, 8192

\* A head fits into the buffer.  A longer one stops the connection if it comes
\* behind another request in one piece: the last bytes stay in the socket, and
\* no event announces them.
HeadsFit == \A k \in 1 .. Len(Requests) : Requests[k].head \in 1 .. BufSize

VARIABLES sent,       \* bytes the peer sent and the socket has not read
          incoming,   \* bytes in the socket's incoming buffer
          outgoing,   \* bytes in its outgoing buffer
          asked_shutdown,
          buffer,     \* bytes in `buffer'
          current,    \* the number of the request being received
          head,       \* bytes of its head the parser has consumed
          receiving_body, body,
          waiting_write_response, keep_alive,
          responses,  \* bytes left of each queued piece of answer
          parked,     \* the node holds this client in m_long_poll_http_clients
          executed,   \* the requests given to the node
          answered,   \* the requests whose answer was queued
          wrongWrite, \* ghost: a write failed the assertion "Client unexpected write"
          pc          \* "idle", "advance", "ready", "closed"

vars == <<sent, incoming, outgoing, asked_shutdown, buffer, current, head, receiving_body, body,
          waiting_write_response, keep_alive, responses, parked, executed, answered, wrongWrite, pc>>

sock == <<incoming, outgoing, asked_shutdown>>
parsing == <<buffer, current, head, receiving_body, body>>
node == <<parked, executed>>

Init ==
    /\ sent = Sum([k \in 1 .. Len(Requests) |-> Requests[k].head + Requests[k].body])
    /\ incoming = 0 /\ outgoing = 0 /\ asked_shutdown = FALSE
    /\ buffer = 0 /\ current = 1 /\ head = 0 /\ receiving_body = FALSE /\ body = 0
    /\ waiting_write_response = FALSE /\ keep_alive = TRUE
    /\ responses = <<>>
    /\ parked = FALSE /\ executed = <<>> /\ answered = <<>> /\ wrongWrite = FALSE
    /\ pc = "idle"

(***************************************************************************)
(* Client                                                                  *)
(***************************************************************************)

\* write(): what the socket takes of the queue; when everything is answered
\* and the connection is not to be kept, shut it down.  A socket that was
\* asked to shut down takes nothing and has nothing to read.
write(rs, waiting, keep) ==
    LET n == IF asked_shutdown THEN 0 ELSE Lesser(Sum(rs), BufSize - outgoing)
        shut == ~waiting /\ Left(rs, n) = <<>> /\ ~keep IN
    /\ outgoing' = outgoing + n
    /\ responses' = Left(rs, n)
    /\ keep_alive' = (keep \/ shut)
    /\ asked_shutdown' = (asked_shutdown \/ shut)
    /\ incoming' = IF shut THEN 0 ELSE incoming

\* write(response), to the request that is being answered
write_response(k) ==
    /\ wrongWrite' = (wrongWrite \/ ~waiting_write_response)
    /\ waiting_write_response' = FALSE
    /\ answered' = Append(answered, k)
    /\ write(responses \o <<1, Requests[k].answer>>, FALSE, Requests[k].keep)

\* "do not process new request until previous response completely sent"
Busy(rs, waiting) == rs # <<>> \/ waiting

\* advance_state, the socket's rw_handler, first writes
AdvanceWrites ==
    /\ pc = "advance"
    /\ write(responses, waiting_write_response, keep_alive)
    /\ pc' = IF Busy(responses', waiting_write_response) THEN "idle"
             ELSE IF receiving_body THEN "body" ELSE "head"
    /\ UNCHANGED <<sent, parsing, waiting_write_response, node, answered, wrongWrite>>

shutdown_both == asked_shutdown' = TRUE /\ incoming' = 0

\* Then the head is parsed, "twice to have a chance to read both parts of
\* buffer".  A head that is bad is not answered.
Taken(b) == IF current > Len(Requests) THEN 0 ELSE Lesser(Requests[current].head - head, b)

\* (A faulty variant parses one piece of the buffer only.)
parse_once(b) == Lesser(1, Taken(b))
parse(b) == Taken(b)

AdvanceParses ==
    /\ pc = "head"
    /\ LET b == Filled(buffer, incoming, BufSize) IN
       /\ head' = head + parse(b)
       /\ buffer' = b - parse(b)
       /\ IF current > Len(Requests) \/ head' < Requests[current].head
          THEN /\ pc' = "idle" /\ incoming' = incoming - (b - buffer)
               /\ UNCHANGED <<asked_shutdown, receiving_body>>
          ELSE IF Requests[current].bad
          THEN pc' = "idle" /\ shutdown_both /\ UNCHANGED receiving_body
          ELSE /\ pc' = "body" /\ receiving_body' = TRUE
               /\ incoming' = incoming - (b - buffer)
               /\ UNCHANGED asked_shutdown
    /\ UNCHANGED <<sent, outgoing, current, body, waiting_write_response, keep_alive, responses,
                   node, answered, wrongWrite>>

\* and the body read
AdvanceReads ==
    /\ pc = "body"
    /\ LET r == BodyRead(buffer, incoming, Requests[current].body - body, BufSize) IN
       /\ body' = body + r.body
       /\ buffer' = r.buffer
       /\ incoming' = r.incoming
       /\ pc' = IF body' = Requests[current].body THEN "ready" ELSE "idle"
    /\ UNCHANGED <<sent, outgoing, asked_shutdown, current, head, receiving_body,
                   waiting_write_response, keep_alive, responses, node, answered, wrongWrite>>

\* read_next
read_next ==
    /\ body' = 0 /\ receiving_body' = FALSE /\ head' = 0
    /\ current' = current + 1
    /\ UNCHANGED buffer

\* Server::on_client_handler: the request goes to the node, which answers it
\* or keeps the client to answer it later
on_client_handler ==
    /\ pc = "ready"
    /\ read_next
    /\ executed' = Append(executed, current)
    /\ pc' = "idle"
    /\ IF Requests[current].long
       THEN /\ parked' = TRUE
            /\ waiting_write_response' = TRUE
            /\ UNCHANGED <<sock, keep_alive, responses, answered, wrongWrite>>
       ELSE /\ waiting_write_response' = FALSE
            /\ answered' = Append(answered, current)
            /\ write(responses \o <<1, Requests[current].answer>>, FALSE, Requests[current].keep)
            /\ UNCHANGED <<parked, wrongWrite>>
    /\ UNCHANGED sent

\* Node::advance_long_poll answers a parked request
advance_long_poll ==
    /\ pc = "idle" /\ parked
    /\ parked' = FALSE
    /\ write_response(current - 1)
    /\ UNCHANGED <<sent, parsing, executed, pc>>

\* The connection ends: the client is cleared, the server drops it and the
\* node forgets it (on_disconnect, on_client_disconnected, on_api_http_disconnect)
forget == parked' = FALSE

on_disconnect ==
    /\ pc = "idle"
    /\ waiting_write_response' = FALSE /\ keep_alive' = TRUE
    /\ buffer' = 0 /\ responses' = <<>> /\ receiving_body' = FALSE /\ body' = 0 /\ head' = 0
    /\ incoming' = 0 /\ outgoing' = 0
    /\ pc' = "closed"
    /\ forget
    /\ UNCHANGED <<sent, asked_shutdown, current, executed, answered, wrongWrite>>

(***************************************************************************)
(* The socket                                                              *)
(***************************************************************************)
SocketReads(n) ==
    /\ pc = "idle"
    /\ n \in 1 .. Lesser(sent, BufSize - incoming)
    /\ sent' = sent - n
    /\ incoming' = IF asked_shutdown THEN 0 ELSE incoming + n
    /\ pc' = "advance"
    /\ UNCHANGED <<outgoing, asked_shutdown, parsing, waiting_write_response, keep_alive, responses,
                   node, answered, wrongWrite>>

SocketWrites(n) ==
    /\ pc = "idle"
    /\ n \in 1 .. outgoing
    /\ outgoing' = outgoing - n
    /\ pc' = "advance"
    /\ UNCHANGED <<sent, incoming, asked_shutdown, parsing, waiting_write_response, keep_alive,
                   responses, node, answered, wrongWrite>>

Step == AdvanceWrites \/ AdvanceParses \/ AdvanceReads \/ on_client_handler

\* a connection that is over, and one on which all is said
Over ==
    /\ pc = "closed" \/ (pc = "idle" /\ sent = 0)
    /\ UNCHANGED vars

Reads == \E n \in 1 .. BufSize : SocketReads(n)
Writes == \E n \in 1 .. BufSize : SocketWrites(n)

Next ==
    \/ Step \/ advance_long_poll \/ on_disconnect \/ Over
    \/ Reads \/ Writes

\* The event loop runs, the peer's bytes arrive and it takes ours, and the
\* node in the end answers a long poll (the pool or the tip changes).
Spec == /\ Init /\ [][Next]_vars
        /\ WF_vars(Step) /\ WF_vars(advance_long_poll)
        /\ WF_vars(Reads) /\ WF_vars(Writes)

(***************************************************************************)
(* Properties                                                              *)
(***************************************************************************)
\* The assertion "Client unexpected write" never fails, and the node never
\* holds on to a client that is gone or that does not wait for an answer.
AnswersExpected ==
    /\ ~wrongWrite
    /\ parked <=> (waiting_write_response /\ pc # "closed")

\* Requests sent back to back are executed and answered one at a time and in
\* order, so that the peer can tell whose answer it reads.
OneAtATime ==
    /\ \A k \in 1 .. Len(executed) : executed[k] = k
    /\ \A k \in 1 .. Len(answered) : answered[k] = k
    /\ Len(executed) - Len(answered) \in (IF waiting_write_response \/ pc = "closed" THEN {0, 1} ELSE {0})

\* A connection that the request asked to close is shut down only after the
\* answer was handed to the socket whole.
ShutsAfterAnswer ==
    asked_shutdown' /\ ~asked_shutdown =>
        \/ responses' = <<>> /\ ~waiting_write_response'
        \/ pc = "head"

\* Every request is executed and answered, unless the connection ends or is
\* shut down: no way to cut the bytes leaves one lying.
Answered(k) == Len(answered) >= k \/ pc = "closed" \/ asked_shutdown
=============================================================================
