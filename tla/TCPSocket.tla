----------------------------- MODULE TCPSocket -----------------------------
(***************************************************************************)
(* platform::TCPSocket and TCPAcceptor::accept (platform/Network, the      *)
(* boost::asio implementation).  A TCPSocket points to an Impl that the    *)
(* outstanding asio operations keep alive, all but the SSL handshake:      *)
(* close() detaches it and goes on with a new one while the completions of *)
(* the old one are still queued.                                           *)
(* The kernel finishes an operation in one step (Complete), the event loop *)
(* runs its handler in a later one (Handle), and the owner's calls come in *)
(* between.                                                                *)
(*                                                                         *)
(* The two CircularBuffers are the queues they implement (CircularBuffer); *)
(* a byte is represented by the connection it was written or received for. *)
(***************************************************************************)
EXTENDS Naturals, Sequences

CONSTANTS Size,       \* the bytes of a buffer (8192)
          Id,         \* the Impl objects that can exist at one time
          MaxConn     \* bound: connections made or accepted

VARIABLES sock,       \* [impls, ops, cur]: the objects, the asio operations, the Impl in use
          called,     \* the handler of the owner that the last step called
          live,       \* the owner made a connection and was not told of its end
          conns,      \* the connections so far
          torn        \* history: a connection was closed during its SSL handshake

vars == <<sock, called, live, conns, torn>>

Fresh ==
    [owner |-> TRUE, open |-> FALSE, connected |-> FALSE, asked_shutdown |-> FALSE,
     pending_read |-> FALSE, pending_write |-> FALSE, pending_connect |-> FALSE,
     ssl |-> FALSE, shut |-> FALSE, conn |-> 0, incoming |-> <<>>, outgoing |-> <<>>]

Tags(n, conn) == [i \in 1 .. n |-> conn]

\* an asio operation started for impl i; n is the most bytes it may move
Op(S, i, kind, n) ==
    [impl |-> i, kind |-> kind, conn |-> S.impls[i].conn, st |-> "wait", n |-> n]
WithOp(S, i, kind, n) == [S EXCEPT !.ops = @ \cup {Op(S, i, kind, n)}]

(***************************************************************************)
(* Impl: each operator maps a state S of the objects to the next           *)
(***************************************************************************)
start_read(S, i) ==
    LET r == S.impls[i] IN
    IF Len(r.incoming) = Size \/ r.pending_read \/ ~r.connected \/ ~r.owner
    THEN S
    ELSE WithOp([S EXCEPT !.impls[i].pending_read = TRUE],
                i, "read", Size - Len(r.incoming))

start_shutdown(S, i) == [S EXCEPT !.impls[i].shut = TRUE]

start_write(S, i) ==
    LET r == S.impls[i] IN
    IF r.pending_write \/ ~r.connected \/ ~r.owner THEN S
    ELSE IF r.outgoing = <<>>
         THEN IF r.asked_shutdown THEN start_shutdown(S, i) ELSE S
         ELSE WithOp([S EXCEPT !.impls[i].pending_write = TRUE],
                     i, "write", Len(r.outgoing))

\* no operation and no TCPSocket points to the Impl any more; a handshake has
\* never kept one
Unused(S, i) == i # S.cur /\ \A op \in S.ops : op.impl = i => op.st = "stale"

Pending(r) == r.pending_write \/ r.pending_read \/ r.pending_connect

\* what socket.close() does to the operations that wait in the kernel; the stream
\* and, if it is detached, the object of a handshake are freed under it
Aborted(S, i) ==
    {IF op.impl = i /\ op.kind = "handshake" THEN [op EXCEPT !.st = "stale", !.n = 0]
     ELSE IF op.impl = i /\ op.st = "wait" THEN [op EXCEPT !.st = "abort", !.n = 0] ELSE op :
        op \in S.ops}

\* of a detached Impl only its operations matter: owner = nullptr stops the rest
Detached(r) ==
    [Fresh EXCEPT !.owner = FALSE, !.pending_read = r.pending_read,
                  !.pending_write = r.pending_write, !.pending_connect = r.pending_connect,
                  !.conn = r.conn]

\* (A faulty variant does not detach the object.)
close_keeps(S, i) ==
    IF Pending(S.impls[i])
    THEN LET n == CHOOSE n \in Id : Unused(S, n) /\ n # i IN
         IF S.impls[i].owner
         THEN [S EXCEPT !.ops = Aborted(S, i), !.cur = n,
                        !.impls = [@ EXCEPT ![i].open = FALSE, ![n] = Fresh]]
         ELSE [S EXCEPT !.ops = Aborted(S, i), !.impls[i].open = FALSE]
    ELSE [S EXCEPT !.ops = Aborted(S, i), !.impls[i] = Fresh]

\* (A faulty variant leaves the bytes that were read.)
close_uncleared(S, i) ==
    IF Pending(S.impls[i])
    THEN LET n == CHOOSE n \in Id : Unused(S, n) /\ n # i IN
         IF S.impls[i].owner
         THEN [S EXCEPT !.ops = Aborted(S, i), !.cur = n,
                        !.impls = [@ EXCEPT ![i] = Detached(S.impls[i]), ![n] = Fresh]]
         ELSE [S EXCEPT !.ops = Aborted(S, i), !.impls[i].open = FALSE]
    ELSE [S EXCEPT !.ops = Aborted(S, i),
                   !.impls[i] = [Fresh EXCEPT !.owner = S.impls[i].owner,
                                              !.incoming = S.impls[i].incoming]]

close(S, i) ==
    IF Pending(S.impls[i])
    THEN LET n == CHOOSE n \in Id : Unused(S, n) /\ n # i IN
         IF S.impls[i].owner
         THEN [S EXCEPT !.ops = Aborted(S, i), !.cur = n,
                        !.impls = [@ EXCEPT ![i] = Detached(S.impls[i]), ![n] = Fresh]]
         ELSE [S EXCEPT !.ops = Aborted(S, i), !.impls[i].open = FALSE]
    ELSE [S EXCEPT !.ops = Aborted(S, i),
                   !.impls[i] = [Fresh EXCEPT !.owner = S.impls[i].owner]]

\* the bound on the objects: close() can make the new one it needs
CanClose(S, i) ==
    Pending(S.impls[i]) /\ S.impls[i].owner => \E n \in Id : Unused(S, n)

\* the last operation of a detached Impl releases it
Freed == [Fresh EXCEPT !.owner = FALSE]
Released(S) == [S EXCEPT !.impls = [i \in Id |-> IF Unused(S, i) THEN Freed ELSE @[i]]]

\* start_handshake binds the bare Impl: one that its owner has left is freed when
\* the handler returns
start_handshake(S, i) ==
    IF S.impls[i].owner THEN WithOp(S, i, "handshake", 0)
    ELSE [S EXCEPT !.ops = @ \cup {[Op(S, i, "handshake", 0) EXCEPT !.st = "stale"]}]

(***************************************************************************)
(* Calls of the owner                                                      *)
(***************************************************************************)
Init ==
    /\ sock = [impls |-> [i \in Id |-> Fresh], ops |-> {}, cur |-> CHOOSE i \in Id : TRUE]
    /\ called = "none"
    /\ live = FALSE
    /\ conns = 0
    /\ torn = FALSE

Cur == sock.impls[sock.cur]

\* close, and the Impl in use prepared for the next connection
Opened(S, ssl) ==
    LET C == close(S, S.cur) IN
    [C EXCEPT !.impls[C.cur] = [@ EXCEPT !.open = TRUE, !.ssl = ssl, !.conn = conns + 1]]

connect_starts(S) ==
    WithOp([S EXCEPT !.impls[S.cur].pending_connect = TRUE], S.cur, "connect", 0)

connect(ssl) ==
    /\ CanClose(sock, sock.cur)
    /\ conns < MaxConn
    /\ sock' = connect_starts(Opened(sock, ssl))
    /\ live' = TRUE
    /\ conns' = conns + 1
    /\ called' = "none"

\* an exception, or no address: pending_connect stays set and false is returned
connect_fails ==
    /\ CanClose(sock, sock.cur)
    /\ LET C == close(sock, sock.cur) IN
       sock' = [C EXCEPT !.impls[C.cur].pending_connect = TRUE]
    /\ live' = FALSE
    /\ called' = "none"
    /\ UNCHANGED conns

accept_starts(S, ssl) ==
    IF ssl THEN start_handshake(S, S.cur)
    ELSE start_read([S EXCEPT !.impls[S.cur].connected = TRUE], S.cur)

\* TCPAcceptor::accept(socket) of a ready connection
accept(ssl) ==
    /\ CanClose(sock, sock.cur)
    /\ conns < MaxConn
    /\ sock' = accept_starts(Opened(sock, ssl), ssl)
    /\ live' = TRUE
    /\ conns' = conns + 1
    /\ called' = "none"

\* the owner takes the oldest byte
read_some ==
    /\ Cur.incoming # <<>>
    /\ sock' = start_read([sock EXCEPT !.impls[sock.cur].incoming = Tail(@)], sock.cur)
    /\ called' = "none"
    /\ UNCHANGED <<live, conns>>

\* the owner writes a byte; it may do so before the connection is made
write_some ==
    /\ live
    /\ ~Cur.asked_shutdown
    /\ Len(Cur.outgoing) < Size
    /\ sock' = start_write([sock EXCEPT !.impls[sock.cur].outgoing = Append(@, conns)],
                           sock.cur)
    /\ called' = "none"
    /\ UNCHANGED <<live, conns>>

Asked(S) ==
    [S EXCEPT !.impls[S.cur] = [@ EXCEPT !.asked_shutdown = TRUE, !.incoming = <<>>]]

shutdown_both ==
    /\ live
    /\ ~Cur.asked_shutdown
    /\ sock' = IF Cur.connected /\ ~Cur.pending_write
               THEN start_shutdown(Asked(sock), sock.cur) ELSE Asked(sock)
    /\ called' = "none"
    /\ UNCHANGED <<live, conns>>

\* TCPSocket::close
Close ==
    /\ CanClose(sock, sock.cur)
    /\ sock' = close(sock, sock.cur)
    /\ live' = FALSE
    /\ called' = "none"
    /\ UNCHANGED conns

(***************************************************************************)
(* The kernel and the event loop                                           *)
(***************************************************************************)
\* An operation ends: after a shutdown of both directions only with an error.
Complete(op) ==
    /\ op.st = "wait"
    /\ \E st \in {"ok", "err"}, n \in 0 .. op.n :
          /\ st = "ok" => ~sock.impls[op.impl].shut
          /\ st = "ok" /\ op.kind \in {"read", "write"} => n > 0
          /\ st = "err" => n = 0
          /\ sock' = [sock EXCEPT !.ops = (@ \ {op}) \cup {[op EXCEPT !.st = st, !.n = n]}]
    /\ called' = "none"
    /\ UNCHANGED <<live, conns>>

Without(op) == [sock EXCEPT !.ops = @ \ {op}]

\* close(true): the owner of a detached Impl is not told
failed(S, i) ==
    /\ CanClose(S, i)
    /\ sock' = Released(close(S, i))
    /\ called' = IF S.impls[i].owner THEN "d" ELSE "none"
    /\ live' = IF S.impls[i].owner THEN FALSE ELSE live

succeeded(S, i) ==
    /\ sock' = Released(S)
    /\ called' = IF S.impls[i].owner THEN "rw" ELSE "none"
    /\ UNCHANGED live

ignored(S) ==
    /\ sock' = Released(S)
    /\ called' = "none"
    /\ UNCHANGED live

\* the three outcomes of a completion
Outcome(op, S, ok) ==
    /\ op.st = "ok" => succeeded(ok, op.impl)
    /\ op.st = "err" => failed(S, op.impl)
    /\ op.st = "abort" => ignored(S)
    /\ UNCHANGED conns

connected_now(S, i) ==
    start_write(start_read([S EXCEPT !.impls[i].connected = TRUE], i), i)

handle_connect(op) ==
    LET i == op.impl
        S == [Without(op) EXCEPT !.impls[i].pending_connect = FALSE] IN
    /\ op.kind = "connect"
    /\ IF op.st = "ok" /\ sock.impls[i].ssl
       THEN /\ ignored(start_handshake(Without(op), i))
            /\ UNCHANGED conns
       ELSE Outcome(op, S, connected_now(S, i))

handle_handshake(op) ==
    LET i == op.impl
        S == [Without(op) EXCEPT !.impls[i].pending_connect = FALSE] IN
    /\ op.kind = "handshake" /\ op.st # "stale"
    /\ Outcome(op, S, connected_now(S, i))

\* The handler of a stale handshake runs on memory that is free, or that another
\* Impl has got, or on the Impl of a later connection: with any outcome.
handle_stale(op) ==
    LET i == op.impl
        S == [Without(op) EXCEPT !.impls[i].pending_connect = FALSE] IN
    /\ op.st = "stale"
    /\ \E st \in {"ok", "err", "abort"} :
           Outcome([op EXCEPT !.st = st], S, connected_now(S, i))

handle_read(op) ==
    LET i == op.impl
        S == [Without(op) EXCEPT !.impls[i].pending_read = FALSE]
        R == IF S.impls[i].asked_shutdown THEN S
             ELSE [S EXCEPT !.impls[i].incoming = @ \o Tags(op.n, op.conn)] IN
    /\ op.kind = "read"
    /\ Outcome(op, S, start_read(R, i))

handle_write(op) ==
    LET i == op.impl
        S == [Without(op) EXCEPT !.impls[i].pending_write = FALSE]
        W == [S EXCEPT !.impls[i].outgoing = SubSeq(@, op.n + 1, Len(@))] IN
    /\ op.kind = "write"
    /\ Outcome(op, S, start_write(W, i))

\* the event loop runs the handler of a finished operation
Handle(op) ==
    /\ op.st # "wait"
    /\ \/ handle_connect(op)
       \/ handle_handshake(op)
       \/ handle_stale(op)
       \/ handle_read(op)
       \/ handle_write(op)

Stale(S) == \E op \in S.ops : op.st = "stale"
Noted == torn' = (torn \/ Stale(sock'))

Step ==
    \/ \E ssl \in BOOLEAN : connect(ssl) \/ accept(ssl)
    \/ connect_fails
    \/ read_some
    \/ write_some
    \/ shutdown_both
    \/ Close
    \/ \E op \in sock.ops : Complete(op) \/ Handle(op)
Next == Step /\ Noted

\* The event loop runs every queued handler, the kernel ends every attempt to
\* connect and every write of a connection, and every read of one that was
\* shut down.
Served(kind) ==
    /\ \E op \in sock.ops : op.kind = kind /\ op.impl = sock.cur /\ (Complete(op) \/ Handle(op))
    /\ Noted
ServedShut ==
    /\ \E op \in sock.ops : op.kind = "read" /\ op.impl = sock.cur
                             /\ ((Cur.shut /\ Complete(op)) \/ Handle(op))
    /\ Noted
ServedDetached == (\E op \in sock.ops : op.impl # sock.cur /\ Handle(op)) /\ Noted

Spec == Init /\ [][Next]_vars
             /\ WF_vars(Served("connect")) /\ WF_vars(Served("handshake"))
             /\ WF_vars(Served("write")) /\ WF_vars(ServedShut)
             /\ WF_vars(ServedDetached)

(***************************************************************************)
(* Properties                                                              *)
(***************************************************************************)
\* "after close you are guaranteed that no handlers will be called"
\* (Network.hpp): not even by a completion that was queued before close().  The
\* code keeps the promise to every socket that is not closed during an SSL
\* handshake, whose completion nothing stops.
NoHandlerAfterClose == [][called' # "none" => live \/ torn]_vars

\* asio allows one outstanding read and one write of a socket; the flags that
\* ensure it, and that tell close() to detach, match the operations.
FlagsMatch ==
  torn \/
    \A i \in Id, kind \in {"read", "write"} :
        LET held == {op \in sock.ops : op.impl = i /\ op.kind = kind} IN
        /\ \A a, b \in held : a = b
        /\ (held # {}) = (IF kind = "read" THEN sock.impls[i].pending_read
                                           ELSE sock.impls[i].pending_write)

\* The buffers of a connection never hold bytes of an earlier one, although
\* the Impl of a connection without pending operations is used again.
OwnBytes ==
  torn \/
    \A i \in Id :
        LET r == sock.impls[i] IN
        \A k \in 1 .. Len(r.incoming) + Len(r.outgoing) :
            (r.incoming \o r.outgoing)[k] = r.conn

\* The promises of read_some and write_some ("if returns 0 ... fire
\* rw_handler or d_handler in future"): while there is room a read is
\* outstanding, while there are bytes to send a write is.
Armed ==
    Cur.connected /\ ~torn =>
        /\ Len(Cur.incoming) < Size /\ ~Cur.asked_shutdown => Cur.pending_read
        /\ Cur.outgoing # <<>> => Cur.pending_write

\* shutdown_both does not cut off what was written before it, and does shut
\* the connection down once that is sent.
ShutdownAfterData ==
  torn \/
    /\ Cur.shut => Cur.outgoing = <<>>
    /\ Cur.asked_shutdown /\ Cur.connected => Cur.shut \/ Cur.pending_write

\* connect "returns true and will call rw_handler or d_handler in future".
Connecting(c) == live /\ Cur.pending_connect /\ Cur.conn = c
ConnectAnswered(c) == called # "none" \/ ~live \/ Cur.conn # c

\* After shutdown_both the owner hears of the end, if a read is outstanding to
\* see it (or it makes another connection itself).
ShutdownHeard ==
    (live /\ Cur.asked_shutdown /\ Cur.pending_read) ~> ~Cur.asked_shutdown

=============================================================================
