----------------------------- MODULE TCPAcceptor -----------------------------
(***************************************************************************)
(* The listening socket (platform/Network.cpp, TCPAcceptor) and the two    *)
(* loops that take connections from it (P2P::accept_all and                *)
(* Server::accept_all).  One asynchronous accept is outstanding at a time  *)
(* and fills one socket; the loop swaps that socket out and only then the  *)
(* next accept starts.                                                     *)
(***************************************************************************)

CONSTANTS Conn,      \* connections that peers make
          Banned,    \* those from a banned address (none for the HTTP server)
          NoConn

AcceptorAssumption == Banned \subseteq Conn /\ NoConn \notin Conn

VARIABLES arrived,      \* connections peers have made
          backlog,      \* connections the kernel holds and nobody accepted
          gone,         \* connections the peer has given up
          owner,        \* the acceptor exists
          accepting,    \* the outstanding async_accept: "none", "waiting", or its queued result
          socket_being_accepted,
          socket_ready,
          clients,      \* connections given to a client object
          dropped,      \* connections closed by the node
          failed        \* an accept ended with an error

vars == <<arrived, backlog, gone, owner, accepting, socket_being_accepted, socket_ready,
          clients, dropped, failed>>

\* pending_accept
Pending == accepting # "none"

\* the constructor listens and starts the first accept
Init ==
    /\ arrived = {} /\ backlog = {} /\ gone = {}
    /\ owner = TRUE
    /\ accepting = "waiting"
    /\ socket_being_accepted = NoConn
    /\ socket_ready = FALSE
    /\ clients = {} /\ dropped = {}
    /\ failed = FALSE

start_accept == socket_ready' = FALSE /\ accepting' = "waiting"

\* accept() when the socket is ready.  A peer that has gone already may leave
\* a socket without a remote address: the call fails, and the next accept starts.
accept_gone(c) ==
    /\ c \in gone
    /\ dropped' = dropped \cup {c}
    /\ UNCHANGED clients

\* accept_all: a banned address is closed at once, any other gets a client
accept_client(c) ==
    IF c \in Banned
    THEN dropped' = dropped \cup {c} /\ UNCHANGED clients
    ELSE clients' = clients \cup {c} /\ UNCHANGED dropped

accept_all ==
    /\ accept_gone(socket_being_accepted) \/ accept_client(socket_being_accepted)
    /\ socket_being_accepted' = NoConn
    /\ start_accept

\* handle_accept: an error is dropped ("say so to the client" is a comment)
handle_accept ==
    \/ /\ accepting = "ok" /\ owner
       /\ accept_all
       /\ UNCHANGED failed
    \/ /\ accepting = "ok" /\ ~owner
       /\ accepting' = "none"
       /\ socket_ready' = TRUE
       /\ UNCHANGED <<socket_being_accepted, clients, dropped, failed>>
    \/ /\ accepting \in {"error", "aborted"}
       /\ accepting' = "none"
       /\ failed' = (failed \/ accepting = "error")
       /\ UNCHANGED <<socket_being_accepted, socket_ready, clients, dropped>>

HandleAccept == handle_accept /\ UNCHANGED <<arrived, backlog, gone, owner>>

\* ~TCPAcceptor: what is outstanding is aborted
close ==
    /\ owner
    /\ owner' = FALSE
    /\ accepting' = IF accepting = "waiting" THEN "aborted" ELSE accepting
    /\ UNCHANGED <<arrived, backlog, gone, socket_being_accepted, socket_ready, clients, dropped, failed>>

(***************************************************************************)
(* The kernel and the peers                                                *)
(***************************************************************************)
Arrive(c) ==
    /\ c \notin arrived
    /\ owner
    /\ arrived' = arrived \cup {c}
    /\ backlog' = backlog \cup {c}
    /\ UNCHANGED <<gone, owner, accepting, socket_being_accepted, socket_ready, clients, dropped, failed>>

Leave(c) ==
    /\ c \in backlog \cup {socket_being_accepted}
    /\ c \notin gone
    /\ gone' = gone \cup {c}
    /\ UNCHANGED <<arrived, backlog, owner, accepting, socket_being_accepted, socket_ready, clients, dropped, failed>>

Accepted(c) ==
    /\ accepting = "waiting"
    /\ c \in backlog
    /\ backlog' = backlog \ {c}
    /\ accepting' = "ok"
    /\ socket_being_accepted' = c
    /\ UNCHANGED <<arrived, gone, owner, socket_ready, clients, dropped, failed>>

\* no descriptor is left, or the connection was aborted
AcceptFails ==
    /\ accepting = "waiting"
    /\ ~failed
    /\ accepting' = "error"
    /\ UNCHANGED <<arrived, backlog, gone, owner, socket_being_accepted, socket_ready, clients, dropped, failed>>

Next ==
    \/ HandleAccept \/ close \/ AcceptFails
    \/ \E c \in Conn : Arrive(c) \/ Leave(c) \/ Accepted(c)

Spec == /\ Init /\ [][Next]_vars
        /\ WF_vars(HandleAccept)
        /\ \A c \in Conn : SF_vars(Accepted(c))

(***************************************************************************)
(* Properties                                                              *)
(***************************************************************************)
\* No connection is overwritten in the one socket that is being accepted: the
\* socket is never filled while it holds a connection nobody took, and every
\* connection the kernel gave away is with a client, closed or in that socket.
NoneOverwritten ==
    /\ socket_ready => ~Pending
    /\ arrived = backlog \cup clients \cup dropped \cup ({socket_being_accepted} \ {NoConn})
    /\ socket_being_accepted \notin backlog \cup clients \cup dropped
    /\ clients \cap dropped = {}

\* After the acceptor is destroyed no connection reaches its owner, even when a
\* completed accept is still queued in the event loop.
NoClientAfterClose == [][~owner => UNCHANGED clients]_vars

\* Every connection is taken, unless the peer or the node goes away or an
\* accept has failed: the loop always leaves an accept outstanding.
SomebodyWaits == ~(backlog \subseteq gone) /\ owner /\ ~failed
Taken == []<>~SomebodyWaits

\* "if accept returns false, will fire accept_handler in future": as long as
\* there is an acceptor, somebody who waits is taken.
WillFire == \A c \in Conn : c \in backlog ~> (c \notin backlog \/ ~owner)
=============================================================================
