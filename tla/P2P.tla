---------------------------------- MODULE P2P ----------------------------------
(***************************************************************************)
(* P2P and P2PClientBasic: the connections of a node, from the choice of   *)
(* an address in PeerDB or an accepted socket, through the handshake, to   *)
(* the disconnect.  All handlers run in one thread; the loop of            *)
(* connect_all_nodelay is a sequence of steps between which no other       *)
(* handler runs.  Disconnected clients live for another second and ignore  *)
(* what their timers still do: they are left out.                          *)
(***************************************************************************)
EXTENDS PeerDB

CONSTANTS
  Client,      \* connection objects; bounds the number of connections
  Exclusive,   \* nodes of the command line, or none
  Self,        \* the address under which others know this node
  OutCount,    \* p2p_default_connections_count
  FailFactor   \* the attempts per connection after which a delay is made: 5

ASSUME P2PAssumption == {OutCount, FailFactor} \subseteq Nat \ {0} /\ Exclusive \subseteq Addr /\ Self \in Addr

VARIABLES
  client,      \* address, direction, version, first_message_..., waiting_shutdown
  failed,      \* failed_connection_attempts_counter, up to its limit
  reconnect_timer,
  loop         \* connect_all_nodelay: "idle", or the immediate failures, and the
               \* peer that set_peer_just_seen is called for afterwards

vars == <<peer_vars, client, failed, reconnect_timer, loop>>

FailedLimit == OutCount * FailFactor
None == [open |-> FALSE]
Opening(a, incoming) ==
  [open |-> TRUE, addr |-> a, incoming |-> incoming, version |-> 0, first |-> FALSE, shut |-> FALSE]
Outgoing == {c \in Client : client[c].open /\ ~client[c].incoming}
Connected == {client[c].addr : c \in Outgoing}
Idle == [running |-> FALSE]
Running(n, then) == [running |-> TRUE, failures |-> n, then |-> then]

\* connect_all, followed by set_peer_just_seen for the addresses in "then".
connect_all(counter, then) ==
  /\ failed' = counter
  /\ IF counter > FailedLimit
       THEN reconnect_timer' = TRUE /\ loop' = IF then = {} THEN Idle ELSE Running(OutCount, then)
       ELSE reconnect_timer' = reconnect_timer /\ loop' = Running(0, then)

\* disconnect: on_disconnect of the client, then on_client_disconnected.
Disconnect(c, then) ==
  /\ client' = [client EXCEPT ![c] = None]
  /\ connect_all(failed, then)

EndLoop == loop' = IF loop.then = {} THEN Idle ELSE [loop EXCEPT !.failures = OutCount]

LoopFull ==
  /\ Cardinality(Outgoing) >= OutCount
  /\ EndLoop /\ UNCHANGED <<peer_vars, client, failed, reconnect_timer>>

LoopNoPeer ==
  /\ Cardinality(Outgoing) < OutCount
  /\ PickNone(Connected) /\ UNCHANGED <<now, tried>>
  /\ reconnect_timer' = TRUE /\ EndLoop
  /\ UNCHANGED <<client, failed>>

\* connect_one.
LoopConnect(a) ==
  /\ Cardinality(Outgoing) < OutCount
  /\ Pick(Connected, a) /\ UNCHANGED <<now, tried>>
  /\ failed' = Min({failed + 1, FailedLimit + 1})
  /\ \/ /\ \E c \in Client : ~client[c].open /\ client' = [client EXCEPT ![c] = Opening(a, FALSE)]
        /\ UNCHANGED <<reconnect_timer, loop>>
     \/ /\ client' = client
        /\ IF loop.failures + 1 >= OutCount
             THEN reconnect_timer' = TRUE /\ EndLoop
             ELSE reconnect_timer' = reconnect_timer /\ loop' = [loop EXCEPT !.failures = @ + 1]

\* The variant gives up without a timer when no peer is ready.
connect_all_nodelay_mut ==
  /\ loop.running /\ loop.failures < OutCount
  /\ LoopFull \/ (\E a \in Addr : LoopConnect(a))
     \/ (PickNone(Connected) /\ EndLoop /\ UNCHANGED <<now, tried, reconnect_timer, client, failed>>)
connect_all_nodelay ==
  /\ loop.running /\ loop.failures < OutCount
  /\ LoopFull \/ LoopNoPeer \/ \E a \in Addr : LoopConnect(a)

\* on_first_message_after_handshake.
AfterLoop ==
  /\ loop.running /\ loop.failures >= OutCount
  /\ \E a \in loop.then : set_peer_just_seen(a)
  /\ loop' = Idle
  /\ UNCHANGED <<tried, client, failed, reconnect_timer>>

on_reconnect_timer ==
  /\ ~loop.running /\ reconnect_timer /\ reconnect_timer' = FALSE
  /\ loop' = Running(0, {})
  /\ UNCHANGED <<peer_vars, client, failed>>

accept_all(c, ip) ==
  /\ ~loop.running /\ ~client[c].open
  /\ ~is_peer_banned(<<ip, 0>>)
  /\ client' = [client EXCEPT ![c] = Opening(<<ip, 0>>, TRUE)]
  /\ UNCHANGED <<peer_vars, failed, reconnect_timer, loop>>

\* A message may be handled: what comes after waiting_shutdown is dropped.
Hears(c) == ~loop.running /\ client[c].open /\ ~client[c].shut
\* A message the client may not send now, or that does not parse.
Refused(c) == Disconnect(c, {}) /\ UNCHANGED peer_vars

handshake_request(c, port) ==
  /\ Hears(c) /\ client[c].version = 0 /\ client[c].incoming
  /\ LET a == <<client[c].addr[1], port>>
     IN  /\ client' = [client EXCEPT ![c].version = 1, ![c].addr = a]
         /\ add_incoming_peer(a)
  /\ connect_all(0, {})
  /\ UNCHANGED tried

handshake_response(c, list) ==
  /\ Hears(c) /\ client[c].version = 0 /\ ~client[c].incoming
  /\ IF client[c].addr = Self
       THEN Disconnect(c, {}) /\ UNCHANGED peer_vars
       ELSE /\ client' = [client EXCEPT ![c].version = 1]
            /\ merge_peerlist_from_p2p(list)
            /\ connect_all(0, {})
            /\ UNCHANGED tried

ping(c) ==
  /\ Hears(c) /\ client[c].version = 0 /\ client[c].incoming
  /\ client' = [client EXCEPT ![c].shut = TRUE]
  /\ UNCHANGED <<peer_vars, failed, reconnect_timer, loop>>

\* The first message after the handshake, whatever its handler does with the client.
first_message(c) ==
  /\ Hears(c) /\ client[c].version # 0 /\ ~client[c].first
  /\ client' = [client EXCEPT ![c].first = TRUE]
  /\ set_peer_just_seen(client[c].addr)
  /\ UNCHANGED <<tried, failed, reconnect_timer, loop>>
first_message_is_bad(c) ==
  /\ Hears(c) /\ client[c].version # 0 /\ ~client[c].first
  /\ Disconnect(c, {client[c].addr})
  /\ UNCHANGED peer_vars

bad_message(c) == Hears(c) /\ Refused(c)
on_socket_disconnect(c) == ~loop.running /\ client[c].open /\ Refused(c)

\* The downloader leaves a peer that lags or is slow.
downloader_disconnects(c) ==
  /\ Hears(c) /\ client[c].version # 0 /\ ~client[c].incoming
  /\ delay_connection_attempt(client[c].addr)
  /\ Disconnect(c, {}) /\ UNCHANGED tried

Later ==
  /\ ~loop.running /\ Tick
  /\ UNCHANGED <<tried, client, failed, reconnect_timer, loop>>

Init ==
  /\ \E exclusive \in {{}, Exclusive} : PeerInit(exclusive)
  /\ client = [c \in Client |-> None]
  /\ failed = 0 /\ reconnect_timer = FALSE
  /\ loop = Running(0, {})

Next ==
  \/ connect_all_nodelay \/ AfterLoop \/ on_reconnect_timer \/ Later
  \/ \E c \in Client :
       \/ \E a \in Addr : accept_all(c, a[1]) \/ (client[c].open /\ handshake_request(c, a[2]))
       \/ \E S \in {{}, Addr} : handshake_response(c, S)
       \/ ping(c) \/ first_message(c) \/ first_message_is_bad(c)
       \/ bad_message(c) \/ on_socket_disconnect(c) \/ downloader_disconnects(c)

Spec == Init /\ [][Next]_vars
--------------------------------------------------------------------------------
\* The node never gives up: with too few outgoing connections, a timer runs that
\* will try again, however handshakes, failures and disconnects were interleaved.
KeepsTrying ==
  ~loop.running /\ Cardinality(Outgoing) < OutCount => reconnect_timer

\* No two outgoing connections go to the same address, and there are never more
\* than p2p_default_connections_count.
OneConnectionPerPeer ==
  Cardinality(Connected) = Cardinality(Outgoing) /\ Cardinality(Outgoing) <= OutCount
================================================================================
