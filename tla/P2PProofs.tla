------------------------------- MODULE P2PProofs -------------------------------
(***************************************************************************)
(* The connections of a node and its lists of peers, for every set of      *)
(* addresses and connections and every limit and period, and the cursors   *)
(* of the data base, for every finite set of keys and every start.         *)
(***************************************************************************)
EXTENDS MCP2P, FiniteSetTheorems, WellFoundedInduction, TLAPS

--------------------------------------------------------------------------------
(***************************************************************************)
(* Connections.  KeepsTrying speaks of the states between two handlers;    *)
(* what holds inside connect_all_nodelay is that a loop that has given up  *)
(* has set the timer or has enough connections.  Two outgoing connections  *)
(* go to different addresses since get_peer_to_connect leaves out the      *)
(* addresses of the others.                                                *)
(***************************************************************************)
Ends == Addr \cup {<<a[1], n>> : a \in Addr, n \in {0} \cup {b[2] : b \in Addr}}
Link == [open : {TRUE}, addr : Ends, incoming : BOOLEAN, version : {0, 1}, first : BOOLEAN, shut : BOOLEAN]
ClientsTyped ==
  /\ DOMAIN client = Client
  /\ \A c \in Client : client[c] = None \/ client[c] \in Link
LoopTyped == loop = Idle \/ loop \in [running : {TRUE}, failures : Nat, then : SUBSET Ends]
Searches == loop.running /\ loop.failures < OutCount
ConnInv ==
  /\ ClientsTyped /\ LoopTyped
  /\ IsFiniteSet(Outgoing) /\ Cardinality(Outgoing) <= OutCount
  /\ \A c, d \in Outgoing : client[c].addr = client[d].addr => c = d
  /\ Searches \/ Cardinality(Outgoing) >= OutCount \/ reconnect_timer

\* An open client has the fields of a connection.
LEMMA OpenIsLink ==
  ASSUME ClientsTyped, NEW c \in Client, client[c].open
  PROVE  client[c] \in Link
<1>1. ~None.open
  BY DEF None
<1> QED BY <1>1 DEF ClientsTyped

LEMMA LinkIsOpen ==
  ASSUME NEW l \in Link
  PROVE  l.open /\ l # None
<1>1. l.open /\ ~None.open
  BY DEF Link, None
<1> QED BY <1>1

\* A step that opens no outgoing connection, and changes no address of one.
LEMMA OutgoingShrinks ==
  ASSUME ConnInv, ClientsTyped',
         Outgoing' \subseteq Outgoing,
         \A c \in Outgoing' : client'[c].addr = client[c].addr
  PROVE  /\ IsFiniteSet(Outgoing') /\ Cardinality(Outgoing') <= OutCount
         /\ \A c, d \in Outgoing' : client'[c].addr = client'[d].addr => c = d
<1>1. IsFiniteSet(Outgoing') /\ Cardinality(Outgoing') <= Cardinality(Outgoing)
  BY FS_Subset DEF ConnInv
<1>2. Cardinality(Outgoing') \in Nat /\ Cardinality(Outgoing) \in Nat /\ OutCount \in Nat
  BY <1>1, FS_CardinalityType, P2PAssumption DEF ConnInv
<1>3. Cardinality(Outgoing') <= OutCount
  BY <1>1, <1>2 DEF ConnInv
<1>4. \A c, d \in Outgoing' : client'[c].addr = client'[d].addr => c = d
  BY DEF ConnInv
<1> QED BY <1>1, <1>3, <1>4

\* A step that changes neither which connections are outgoing nor their addresses.
LEMMA OutgoingStays ==
  ASSUME ConnInv, ClientsTyped', LoopTyped', Outgoing' = Outgoing,
         \A c \in Outgoing : client'[c].addr = client[c].addr,
         Searches' \/ reconnect_timer' \/ (~Searches /\ reconnect_timer' = reconnect_timer)
  PROVE  ConnInv'
<1>1. /\ IsFiniteSet(Outgoing') /\ Cardinality(Outgoing') <= OutCount
      /\ \A c, d \in Outgoing' : client'[c].addr = client'[d].addr => c = d
  BY OutgoingShrinks
<1> QED BY <1>1 DEF ConnInv

\* connect_all, when no outgoing connection was opened.
LEMMA ConnectAll ==
  ASSUME ConnInv, ClientsTyped', Outgoing' \subseteq Outgoing,
         \A c \in Outgoing' : client'[c].addr = client[c].addr,
         NEW counter, NEW then \in SUBSET Ends, connect_all(counter, then)
  PROVE  ConnInv'
<1>1. /\ IsFiniteSet(Outgoing') /\ Cardinality(Outgoing') <= OutCount
      /\ \A c, d \in Outgoing' : client'[c].addr = client'[d].addr => c = d
  BY OutgoingShrinks
<1>2. OutCount \in Nat /\ 0 < OutCount
  BY P2PAssumption
<1>3. LoopTyped' /\ (Searches' \/ reconnect_timer')
  <2>1. CASE counter > FailedLimit
    <3>1. reconnect_timer' /\ (loop' = Idle \/ loop' = Running(OutCount, then))
      BY <2>1 DEF connect_all
    <3>2. Running(OutCount, then) \in [running : {TRUE}, failures : Nat, then : SUBSET Ends]
      BY <1>2 DEF Running
    <3> QED BY <3>1, <3>2 DEF LoopTyped
  <2>2. CASE ~(counter > FailedLimit)
    <3>1. loop' = Running(0, then)
      BY <2>2 DEF connect_all
    <3>2. Running(0, then) \in [running : {TRUE}, failures : Nat, then : SUBSET Ends]
      BY DEF Running
    <3>3. Searches'
      BY <3>1, <1>2 DEF Running, Searches
    <3> QED BY <3>1, <3>2, <3>3 DEF LoopTyped
  <2> QED BY <2>1, <2>2
<1> QED BY <1>1, <1>3 DEF ConnInv

\* disconnect.
LEMMA DisconnectKeeps ==
  ASSUME ConnInv, NEW c \in Client, NEW then \in SUBSET Ends, Disconnect(c, then)
  PROVE  ConnInv'
<1>1. client' = [client EXCEPT ![c] = None] /\ connect_all(failed, then)
  BY DEF Disconnect
<1>2. DOMAIN client = Client
  BY DEF ConnInv, ClientsTyped
<1>3. client'[c] = None /\ \A d \in Client : d # c => client'[d] = client[d]
  BY <1>1, <1>2
<1>4. ClientsTyped'
  BY <1>1, <1>2, <1>3 DEF ConnInv, ClientsTyped
<1>5. ~None.open
  BY DEF None
<1>6. Outgoing' \subseteq Outgoing /\ \A d \in Outgoing' : client'[d].addr = client[d].addr
  BY <1>3, <1>5 DEF Outgoing
<1> QED BY <1>1, <1>4, <1>6, ConnectAll

\* A field of an open connection is set that is neither its direction nor, if it
\* is outgoing, its address.
LEMMA LinkChanges ==
  ASSUME ConnInv, NEW c \in Client, NEW l \in Link, client[c] \in Link,
         client' = [client EXCEPT ![c] = l], l.incoming = client[c].incoming,
         ~l.incoming => l.addr = client[c].addr
  PROVE  /\ ClientsTyped' /\ Outgoing' = Outgoing
         /\ \A d \in Outgoing : client'[d].addr = client[d].addr
<1>1. DOMAIN client = Client
  BY DEF ConnInv, ClientsTyped
<1>2. client'[c] = l /\ \A d \in Client : d # c => client'[d] = client[d]
  BY <1>1
<1>3. ClientsTyped'
  BY <1>1, <1>2 DEF ConnInv, ClientsTyped
<1>4. l.open /\ client[c].open
  BY LinkIsOpen
<1>5. Outgoing' = Outgoing
  BY <1>2, <1>4 DEF Outgoing
<1>6. \A d \in Outgoing : client'[d].addr = client[d].addr
  BY <1>2, <1>4 DEF Outgoing
<1> QED BY <1>3, <1>5, <1>6

LEMMA NewLink ==
  ASSUME NEW a \in Ends, NEW incoming \in BOOLEAN
  PROVE  /\ Opening(a, incoming) \in Link
         /\ Opening(a, incoming).addr = a /\ Opening(a, incoming).incoming = incoming
BY DEF Opening, Link

\* get_peer_to_connect leaves out the addresses it is given.
LEMMA PickedIsNew ==
  ASSUME NEW connected, NEW a, Pick(connected, a)
  PROVE  a \notin connected
BY DEF Pick, PickExclusive, PickWhite, PickGray, FirstOf, Ready, Skipped

\* The loop of connect_all_nodelay: a connection is opened, ...
LEMMA LoopOpens ==
  ASSUME ConnInv, Searches, NEW a \in Addr, a \notin Connected, Cardinality(Outgoing) < OutCount,
         NEW c \in Client, ~client[c].open, client' = [client EXCEPT ![c] = Opening(a, FALSE)],
         UNCHANGED <<reconnect_timer, loop>>
  PROVE  ConnInv'
<1>1. DOMAIN client = Client
  BY DEF ConnInv, ClientsTyped
<1>2. client'[c] = Opening(a, FALSE) /\ \A d \in Client : d # c => client'[d] = client[d]
  BY <1>1
<1>3. Opening(a, FALSE) \in Link /\ Opening(a, FALSE).addr = a /\ Opening(a, FALSE).incoming = FALSE
  <2>1. a \in Ends /\ FALSE \in BOOLEAN
    BY DEF Ends
  <2> QED BY <2>1, NewLink
<1>4. Opening(a, FALSE).open
  BY <1>3, LinkIsOpen
<1>5. Outgoing' = Outgoing \cup {c} /\ c \notin Outgoing
  BY <1>2, <1>3, <1>4 DEF Outgoing
<1>6. ClientsTyped'
  BY <1>1, <1>2, <1>3 DEF ConnInv, ClientsTyped
<1>7. IsFiniteSet(Outgoing') /\ Cardinality(Outgoing') = Cardinality(Outgoing) + 1
  BY <1>5, FS_AddElement DEF ConnInv
<1>8. Cardinality(Outgoing) \in Nat /\ OutCount \in Nat
  BY FS_CardinalityType, P2PAssumption DEF ConnInv
<1>9. Cardinality(Outgoing') <= OutCount
  BY <1>7, <1>8
<1>10. \A d \in Outgoing : client'[d] = client[d] /\ client[d].addr # a
  BY <1>2, <1>5 DEF Connected, Outgoing
<1>11. \A d, e \in Outgoing' : client'[d].addr = client'[e].addr => d = e
  <2> SUFFICES ASSUME NEW d \in Outgoing', NEW e \in Outgoing', client'[d].addr = client'[e].addr
               PROVE  d = e
    OBVIOUS
  <2>1. client'[c].addr = a
    BY <1>2, <1>3
  <2>2. CASE d = c \/ e = c
    BY <2>1, <2>2, <1>5, <1>10
  <2>3. CASE d # c /\ e # c
    BY <2>3, <1>5, <1>10 DEF ConnInv
  <2> QED BY <2>2, <2>3
<1> QED BY <1>6, <1>7, <1>9, <1>11 DEF ConnInv, LoopTyped, Searches

\* ... or the loop ends, with enough connections or the timer set, ...
LEMMA LoopEnds ==
  ASSUME ConnInv, Searches, EndLoop, client' = client,
         reconnect_timer' \/ (Cardinality(Outgoing) >= OutCount /\ reconnect_timer' = reconnect_timer)
  PROVE  ConnInv'
<1>1. loop \in [running : {TRUE}, failures : Nat, then : SUBSET Ends]
  <2>1. ~Idle.running
    BY DEF Idle
  <2> QED BY <2>1 DEF ConnInv, LoopTyped, Searches
<1>2. OutCount \in Nat
  BY P2PAssumption
<1>3. LoopTyped'
  <2>1. [loop EXCEPT !.failures = OutCount] \in [running : {TRUE}, failures : Nat, then : SUBSET Ends]
    BY <1>1, <1>2
  <2> QED BY <2>1 DEF LoopTyped, EndLoop
<1> QED BY <1>3 DEF ConnInv, ClientsTyped, Outgoing

\* ... or the next address is tried after a failure.
LEMMA LoopRetries ==
  ASSUME ConnInv, Searches, client' = client, reconnect_timer' = reconnect_timer,
         loop.failures + 1 < OutCount, loop' = [loop EXCEPT !.failures = @ + 1]
  PROVE  ConnInv'
<1>1. loop \in [running : {TRUE}, failures : Nat, then : SUBSET Ends]
  <2>1. ~Idle.running
    BY DEF Idle
  <2> QED BY <2>1 DEF ConnInv, LoopTyped, Searches
<1>2. loop' \in [running : {TRUE}, failures : Nat, then : SUBSET Ends] /\ loop'.failures = loop.failures + 1
  <2>1. loop.failures + 1 \in Nat
    BY <1>1
  <2>2. loop' = [loop EXCEPT !.failures = loop.failures + 1]
    OBVIOUS
  <2> HIDE DEF Searches
  <2> QED BY <1>1, <2>1, <2>2
<1>3. LoopTyped' /\ Searches'
  BY <1>2 DEF LoopTyped, Searches
<1> QED BY <1>3 DEF ConnInv, ClientsTyped, Outgoing

LEMMA LoopKeeps ==
  ASSUME ConnInv, connect_all_nodelay
  PROVE  ConnInv'
<1>1. Searches
  BY DEF connect_all_nodelay, Searches
<1>2. CASE LoopFull
  BY <1>1, <1>2, LoopEnds DEF LoopFull
<1>3. CASE LoopNoPeer
  BY <1>1, <1>3, LoopEnds DEF LoopNoPeer
<1>4. ASSUME NEW a \in Addr, LoopConnect(a)
      PROVE  ConnInv'
  <2>1. Cardinality(Outgoing) < OutCount /\ a \notin Connected
    BY <1>4, PickedIsNew DEF LoopConnect
  <2>2. CASE /\ \E c \in Client : ~client[c].open /\ client' = [client EXCEPT ![c] = Opening(a, FALSE)]
             /\ UNCHANGED <<reconnect_timer, loop>>
    BY <1>1, <2>1, <2>2, LoopOpens
  <2>3. CASE client' = client /\ loop.failures + 1 >= OutCount /\ reconnect_timer' = TRUE /\ EndLoop
    BY <1>1, <2>3, LoopEnds
  <2>4. CASE /\ client' = client /\ ~(loop.failures + 1 >= OutCount)
             /\ reconnect_timer' = reconnect_timer /\ loop' = [loop EXCEPT !.failures = @ + 1]
    <3>1. loop.failures + 1 < OutCount
      <4>1. loop.failures \in Nat /\ OutCount \in Nat
        <5>1. ~Idle.running
          BY DEF Idle
        <5> QED BY <1>1, <5>1, P2PAssumption DEF ConnInv, LoopTyped, Searches
      <4> QED BY <2>4, <4>1
    <3> QED BY <1>1, <2>4, <3>1, LoopRetries
  <2> QED BY <1>4, <2>2, <2>3, <2>4 DEF LoopConnect
<1> QED BY <1>2, <1>3, <1>4 DEF connect_all_nodelay

\* The handlers of messages, sockets and timers.
LEMMA AfterLoopKeeps ==
  ASSUME ConnInv, AfterLoop
  PROVE  ConnInv'
<1>1. ~Searches /\ client' = client /\ reconnect_timer' = reconnect_timer /\ loop' = Idle
  <2>1. LoopTyped /\ OutCount \in Nat
    BY P2PAssumption DEF ConnInv
  <2>2. loop \in [running : {TRUE}, failures : Nat, then : SUBSET Ends]
    <3>1. ~Idle.running
      BY DEF Idle
    <3> QED BY <2>1, <3>1 DEF LoopTyped, AfterLoop
  <2>3. ~Searches
    BY <2>1, <2>2 DEF AfterLoop, Searches
  <2> QED BY <2>3 DEF AfterLoop
<1>2. ClientsTyped' /\ LoopTyped' /\ Outgoing' = Outgoing
  BY <1>1 DEF ConnInv, ClientsTyped, LoopTyped, Outgoing
<1> QED BY <1>1, <1>2, OutgoingStays

LEMMA TimerKeeps ==
  ASSUME ConnInv, on_reconnect_timer
  PROVE  ConnInv'
<1>1. client' = client /\ loop' = Running(0, {})
  BY DEF on_reconnect_timer
<1>2. Running(0, {}) \in [running : {TRUE}, failures : Nat, then : SUBSET Ends]
  BY DEF Running
<1>3. Searches' /\ LoopTyped'
  BY <1>1, <1>2, P2PAssumption DEF Searches, LoopTyped, Running
<1>4. ClientsTyped' /\ Outgoing' = Outgoing
  BY <1>1 DEF ConnInv, ClientsTyped, Outgoing
<1> QED BY <1>1, <1>3, <1>4, OutgoingStays

LEMMA AcceptKeeps ==
  ASSUME ConnInv, NEW c \in Client, NEW a \in Addr, accept_all(c, a[1])
  PROVE  ConnInv'
<1> DEFINE l == Opening(<<a[1], 0>>, TRUE)
<1>1. /\ ~client[c].open /\ client' = [client EXCEPT ![c] = l]
      /\ UNCHANGED <<reconnect_timer, loop>>
  BY DEF accept_all
<1>2. l \in Link /\ l.incoming
  <2>1. <<a[1], 0>> \in Ends /\ TRUE \in BOOLEAN
    BY DEF Ends
  <2> QED BY <2>1, NewLink
<1> HIDE DEF l
<1>3. DOMAIN client = Client
  BY DEF ConnInv, ClientsTyped
<1>4. client'[c] = l /\ \A d \in Client : d # c => client'[d] = client[d]
  BY <1>1, <1>3
<1>5. ClientsTyped'
  BY <1>1, <1>2, <1>3, <1>4 DEF ConnInv, ClientsTyped
<1>6. Outgoing' = Outgoing /\ \A d \in Outgoing : client'[d].addr = client[d].addr
  BY <1>1, <1>2, <1>4 DEF Outgoing
<1>7. LoopTyped' /\ Searches' = Searches
  BY <1>1 DEF ConnInv, LoopTyped, Searches
<1> QED BY <1>1, <1>5, <1>6, <1>7, OutgoingStays

LEMMA HandshakeRequestKeeps ==
  ASSUME ConnInv, NEW c \in Client, NEW a \in Addr, handshake_request(c, a[2])
  PROVE  ConnInv'
<1> DEFINE end == <<client[c].addr[1], a[2]>>
           l == [client[c] EXCEPT !.version = 1, !.addr = end]
<1>1. /\ client[c].open /\ client[c].incoming
      /\ client' = [client EXCEPT ![c].version = 1, ![c].addr = end] /\ connect_all(0, {})
  BY DEF handshake_request, Hears
<1>2. DOMAIN client = Client /\ client[c] \in Link
  BY <1>1, OpenIsLink DEF ConnInv, ClientsTyped
<1>3. end \in Ends
  <2>1. client[c].addr \in Ends
    BY <1>2 DEF Link
  <2>2. PICK b \in Addr : client[c].addr[1] = b[1]
    <3>1. CASE client[c].addr \in Addr
      BY <3>1
    <3>2. CASE client[c].addr \in {<<b[1], n>> : b \in Addr, n \in {0} \cup {d[2] : d \in Addr}}
      BY <3>2
    <3> QED BY <2>1, <3>1, <3>2 DEF Ends
  <2>3. end = <<b[1], a[2]>> /\ a[2] \in {0} \cup {d[2] : d \in Addr}
    BY <2>2
  <2> HIDE DEF end
  <2> QED BY <2>3 DEF Ends
<1> HIDE DEF end
<1>4. l \in Link /\ l.incoming = client[c].incoming
  BY <1>2, <1>3 DEF Link
<1>5. client' = [client EXCEPT ![c] = l]
  BY <1>1, <1>2
<1> HIDE DEF l
<1>6. ~l.incoming => l.addr = client[c].addr
  BY <1>1, <1>4
<1>7. /\ ClientsTyped' /\ Outgoing' = Outgoing
      /\ \A d \in Outgoing : client'[d].addr = client[d].addr
  BY <1>2, <1>4, <1>5, <1>6, LinkChanges
<1>8. {} \in SUBSET Ends /\ Outgoing' \subseteq Outgoing
  BY <1>7
<1> QED BY <1>1, <1>7, <1>8, ConnectAll

LEMMA HandshakeResponseKeeps ==
  ASSUME ConnInv, NEW c \in Client, NEW S, handshake_response(c, S)
  PROVE  ConnInv'
<1> DEFINE l == [client[c] EXCEPT !.version = 1]
<1>1. client[c].open
  BY DEF handshake_response, Hears
<1>2. DOMAIN client = Client /\ client[c] \in Link /\ {} \in SUBSET Ends
  BY <1>1, OpenIsLink DEF ConnInv, ClientsTyped
<1>3. CASE client[c].addr = Self
  BY <1>2, <1>3, DisconnectKeeps DEF handshake_response
<1>4. CASE client[c].addr # Self
  <2>1. client' = [client EXCEPT ![c].version = 1] /\ connect_all(0, {})
    BY <1>4 DEF handshake_response
  <2>2. l \in Link /\ l.incoming = client[c].incoming /\ l.addr = client[c].addr
    BY <1>2 DEF Link
  <2>3. client' = [client EXCEPT ![c] = l]
    BY <1>2, <2>1
  <2> HIDE DEF l
  <2>4. /\ ClientsTyped' /\ Outgoing' = Outgoing
        /\ \A d \in Outgoing : client'[d].addr = client[d].addr
    BY <1>2, <2>2, <2>3, LinkChanges
  <2>5. Outgoing' \subseteq Outgoing
    BY <2>4
  <2> QED BY <1>2, <2>1, <2>4, <2>5, ConnectAll
<1> QED BY <1>3, <1>4

\* A flag of a connection.
LEMMA FlagKeeps ==
  ASSUME ConnInv, NEW c \in Client, NEW l \in Link, client[c] \in Link,
         client' = [client EXCEPT ![c] = l], l.incoming = client[c].incoming,
         l.addr = client[c].addr, UNCHANGED <<reconnect_timer, loop>>
  PROVE  ConnInv'
<1>1. /\ ClientsTyped' /\ Outgoing' = Outgoing
      /\ \A d \in Outgoing : client'[d].addr = client[d].addr
  BY LinkChanges
<1>2. LoopTyped' /\ Searches' = Searches
  BY DEF ConnInv, LoopTyped, Searches
<1> QED BY <1>1, <1>2, OutgoingStays

LEMMA PingKeeps ==
  ASSUME ConnInv, NEW c \in Client, ping(c)
  PROVE  ConnInv'
<1> DEFINE l == [client[c] EXCEPT !.shut = TRUE]
<1>1. client[c].open /\ client' = [client EXCEPT ![c].shut = TRUE] /\ UNCHANGED <<reconnect_timer, loop>>
  BY DEF ping, Hears
<1>2. DOMAIN client = Client /\ client[c] \in Link
  BY <1>1, OpenIsLink DEF ConnInv, ClientsTyped
<1>3. l \in Link /\ l.incoming = client[c].incoming /\ l.addr = client[c].addr
  BY <1>2 DEF Link
<1>4. client' = [client EXCEPT ![c] = l]
  BY <1>1, <1>2
<1> HIDE DEF l
<1> QED BY <1>1, <1>2, <1>3, <1>4, FlagKeeps

LEMMA FirstMessageKeeps ==
  ASSUME ConnInv, NEW c \in Client, first_message(c)
  PROVE  ConnInv'
<1> DEFINE l == [client[c] EXCEPT !.first = TRUE]
<1>1. client[c].open /\ client' = [client EXCEPT ![c].first = TRUE] /\ UNCHANGED <<reconnect_timer, loop>>
  BY DEF first_message, Hears
<1>2. DOMAIN client = Client /\ client[c] \in Link
  BY <1>1, OpenIsLink DEF ConnInv, ClientsTyped
<1>3. l \in Link /\ l.incoming = client[c].incoming /\ l.addr = client[c].addr
  BY <1>2 DEF Link
<1>4. client' = [client EXCEPT ![c] = l]
  BY <1>1, <1>2
<1> HIDE DEF l
<1> QED BY <1>1, <1>2, <1>3, <1>4, FlagKeeps

LEMMA LeavingKeeps ==
  ASSUME ConnInv, NEW c \in Client,
         first_message_is_bad(c) \/ bad_message(c) \/ on_socket_disconnect(c) \/ downloader_disconnects(c)
  PROVE  ConnInv'
<1>1. {} \in SUBSET Ends
  OBVIOUS
<1>2. CASE first_message_is_bad(c)
  <2>1. client[c].open /\ Disconnect(c, {client[c].addr})
    BY <1>2 DEF first_message_is_bad, Hears
  <2>2. client[c] \in Link
    BY <2>1, OpenIsLink DEF ConnInv
  <2>3. {client[c].addr} \in SUBSET Ends
    BY <2>2 DEF Link
  <2> QED BY <2>1, <2>3, DisconnectKeeps
<1>3. CASE bad_message(c) \/ on_socket_disconnect(c) \/ downloader_disconnects(c)
  <2>1. Disconnect(c, {})
    BY <1>3 DEF bad_message, on_socket_disconnect, downloader_disconnects, Refused
  <2> QED BY <1>1, <2>1, DisconnectKeeps
<1> QED BY <1>2, <1>3

LEMMA StutterKeeps ==
  ASSUME ConnInv, UNCHANGED connections
  PROVE  ConnInv'
<1>1. client' = client /\ reconnect_timer' = reconnect_timer /\ loop' = loop
  BY DEF connections
<1> QED BY <1>1 DEF ConnInv, ClientsTyped, LoopTyped, Searches, Outgoing

LEMMA HandlerKeeps ==
  ASSUME ConnInv, Next
  PROVE  ConnInv'
<1>1. CASE connect_all_nodelay
  BY <1>1, LoopKeeps
<1>2. CASE AfterLoop
  BY <1>2, AfterLoopKeeps
<1>3. CASE on_reconnect_timer
  BY <1>3, TimerKeeps
<1>4. CASE Later
  BY <1>4, StutterKeeps DEF Later, connections
<1>5. ASSUME NEW c \in Client,
             \/ \E a \in Addr : accept_all(c, a[1]) \/ (client[c].open /\ handshake_request(c, a[2]))
             \/ \E S \in {{}, Addr} : handshake_response(c, S)
             \/ ping(c) \/ first_message(c) \/ first_message_is_bad(c)
             \/ bad_message(c) \/ on_socket_disconnect(c) \/ downloader_disconnects(c)
      PROVE  ConnInv'
  <2>1. ASSUME NEW a \in Addr, accept_all(c, a[1])
        PROVE  ConnInv'
    BY <2>1, AcceptKeeps
  <2>2. ASSUME NEW a \in Addr, handshake_request(c, a[2])
        PROVE  ConnInv'
    BY <2>2, HandshakeRequestKeeps
  <2>3. ASSUME NEW S, handshake_response(c, S)
        PROVE  ConnInv'
    BY <2>3, HandshakeResponseKeeps
  <2>4. CASE ping(c) \/ first_message(c)
    BY <2>4, PingKeeps, FirstMessageKeeps
  <2>5. CASE first_message_is_bad(c) \/ bad_message(c) \/ on_socket_disconnect(c) \/ downloader_disconnects(c)
    BY <2>5, LeavingKeeps
  <2> QED BY <1>5, <2>1, <2>2, <2>3, <2>4, <2>5
<1> QED BY <1>1, <1>2, <1>3, <1>4, <1>5 DEF Next

LEMMA ConnInvInit ==
  ASSUME Init
  PROVE  ConnInv
<1>1. client = [c \in Client |-> None] /\ loop = Running(0, {})
  BY DEF Init
<1>2. ~None.open
  BY DEF None
<1>3. Outgoing = {}
  BY <1>1, <1>2 DEF Outgoing
<1>4. OutCount \in Nat /\ 0 < OutCount
  BY P2PAssumption
<1>5. IsFiniteSet(Outgoing) /\ Cardinality(Outgoing) <= OutCount
  BY <1>3, <1>4, FS_EmptySet
<1>6. ClientsTyped
  BY <1>1 DEF ClientsTyped
<1>7. LoopTyped /\ Searches
  BY <1>1, <1>4 DEF LoopTyped, Searches, Running
<1> QED BY <1>3, <1>5, <1>6, <1>7 DEF ConnInv

LEMMA ConnInvNext ==
  ASSUME ConnInv, [MCNext]_all
  PROVE  ConnInv'
<1>1. CASE Next
  BY <1>1, HandlerKeeps
<1>2. CASE UNCHANGED connections
  BY <1>2, StutterKeeps
<1>3. CASE UNCHANGED vars
  BY <1>2, <1>3 DEF vars, connections
<1> QED BY <1>1, <1>2, <1>3 DEF MCNext, all

LEMMA ConnInvSuffices ==
  ASSUME ConnInv
  PROVE  ConnectionsSound
<1>1. KeepsTrying
  <2>1. Cardinality(Outgoing) \in Nat /\ OutCount \in Nat
    BY FS_CardinalityType, P2PAssumption DEF ConnInv
  <2> QED BY <2>1 DEF ConnInv, KeepsTrying, Searches
<1>2. Cardinality(Connected) = Cardinality(Outgoing)
  <2> DEFINE f == [c \in Outgoing |-> client[c].addr]
  <2>1. f \in [Outgoing -> Connected]
    BY DEF Connected
  <2>2. \A a \in Connected : \E c \in Outgoing : f[c] = a
    BY DEF Connected
  <2>3. \A c, d \in Outgoing : f[c] = f[d] => c = d
    BY DEF ConnInv
  <2>4. f \in Bijection(Outgoing, Connected)
    BY <2>1, <2>2, <2>3 DEF Bijection, Injection, Surjection, IsInjective
  <2>5. ExistsBijection(Outgoing, Connected)
    BY <2>4 DEF ExistsBijection
  <2> QED BY <2>5, FS_Bijection DEF ConnInv
<1> QED BY <1>1, <1>2 DEF ConnInv, ConnectionsSound, OneConnectionPerPeer

\* However handshakes, failures, disconnects, timers and the loop of
\* connect_all_nodelay are interleaved, a node with too few outgoing connections
\* has a timer that will try again, never has more than it wants, and no two of
\* them go to the same address.
THEOREM NodeNeverGivesUp == MCSpec => []ConnectionsSound
<1>1. MCInit => ConnInv
  BY ConnInvInit DEF MCInit
<1>2. ConnInv /\ [MCNext]_all => ConnInv'
  BY ConnInvNext
<1>3. ConnInv => ConnectionsSound
  BY ConnInvSuffices
<1> QED BY <1>1, <1>2, <1>3, PTL DEF MCSpec

--------------------------------------------------------------------------------
(***************************************************************************)
(* The lists of peers.  Every call puts entries into the lists that keep   *)
(* the bans and the times between attempts ("Good"), or leaves entries as  *)
(* they are; a call is a sequence of such changes (unban, then additions,  *)
(* then trim).  The bans of the white list must have an end that is no     *)
(* later than what delay_connection_attempt may put into the entry.        *)
(***************************************************************************)
Entry == [ban_until : Nat, next : Nat, last_seen : Nat]
Lists == UNION {[S -> Entry] : S \in SUBSET PdAddr}
Book == [white : Lists, gray : Lists, excl : Lists, dbw : Lists, dbg : Lists]

\* What holds of the lists apart from the times in the entries.
Shape(q) ==
  /\ q \in Book /\ DOMAIN q.excl = {}
  /\ q.gray = q.dbg
  /\ \A a \in DOMAIN q.dbw : a \in DOMAIN q.white /\ q.white[a] = q.dbw[a]
  /\ DOMAIN q.white \ DOMAIN q.dbw \subseteq Seeds
  /\ DOMAIN q.white \cap DOMAIN q.gray \subseteq Seeds

Delay(a) == IF a \in PdPriorities THEN PdPriorityReconnect ELSE PdBan
BanKept(a, e) == e.ban_until <= now + Delay(a) /\ (e.ban_until > now => e.next >= e.ban_until)
BansKept(q) ==
  /\ \A a \in DOMAIN q.white : BanKept(a, q.white[a])
  /\ \A a \in DOMAIN q.gray : BanKept(a, q.gray[a])

Good(a, e) ==
  /\ BanKept(a, e)
  /\ a \notin Seeds /\ e.ban_until = 0 /\ e.next # 0 => e.next >= now + Pd!Period(a)
Revised(l, m) == \A a \in DOMAIN m : (a \in DOMAIN l /\ m[a] = l[a]) \/ Good(a, m[a])
Changed(q, r) == Revised(q.white, r.white) /\ Revised(q.gray, r.gray)

Spaced(q, f) ==
  \A a \in DOMAIN f \ Seeds : \A l \in {q.white, q.gray} :
    a \in DOMAIN l /\ l[a].ban_until = 0 /\ l[a].next # 0 => l[a].next >= f[a] + Pd!Period(a)
Past(f) == \A a \in DOMAIN f : f[a] \in Nat /\ f[a] <= now

PdInv ==
  /\ now \in Nat /\ now >= 1
  /\ Shape(p) /\ BansKept(p)
  /\ Past(tried) /\ Pd!NotTooOften

LEMMA Periods ==
  /\ \A a : Pd!Period(a) \in Nat /\ Delay(a) \in Nat /\ 0 < Delay(a) /\ Pd!Period(a) <= Delay(a)
  /\ \A a : Pd!GrayPeriod(a) = Delay(a) /\ Pd!WhitePeriod(a) \in Nat
            /\ Pd!WhitePeriod(a) <= Delay(a) /\ 0 < Pd!WhitePeriod(a)
<1>1. /\ PdBan \in Nat /\ PdReconnect \in Nat /\ PdPriorityReconnect \in Nat
      /\ 0 < PdBan /\ 0 < PdPriorityReconnect
      /\ PdPriorityReconnect <= PdBan /\ PdReconnect <= PdBan
  BY PeersAssumption DEF Pd!PeerAssumption
<1> QED BY <1>1 DEF Delay, Pd!Period, Pd!GrayPeriod, Pd!WhitePeriod, Pd!is_priority, Pd!is_seed

(***************************************************************************)
(* Lists: what the operators on them return.                               *)
(***************************************************************************)
LEMMA ListIs ==
  ASSUME NEW l
  PROVE  l \in Lists <=> l \in [DOMAIN l -> Entry] /\ DOMAIN l \subseteq PdAddr
BY DEF Lists

LEMMA EntryOf ==
  ASSUME NEW l \in Lists, NEW a \in DOMAIN l
  PROVE  l[a] \in Entry /\ a \in PdAddr
BY ListIs

LEMMA OverList ==
  ASSUME NEW l \in Lists, NEW m \in Lists
  PROVE  /\ Pd!Over(l, m) \in Lists /\ DOMAIN Pd!Over(l, m) = DOMAIN l \cup DOMAIN m
         /\ \A a \in DOMAIN l : Pd!Over(l, m)[a] = l[a]
         /\ \A a \in DOMAIN m \ DOMAIN l : Pd!Over(l, m)[a] = m[a]
<1>1. /\ DOMAIN Pd!Over(l, m) = DOMAIN l \cup DOMAIN m
      /\ \A a \in DOMAIN l : Pd!Over(l, m)[a] = l[a]
      /\ \A a \in DOMAIN m \ DOMAIN l : Pd!Over(l, m)[a] = m[a]
  BY DEF Pd!Over
<1>2. \A a \in DOMAIN l \cup DOMAIN m : (IF a \in DOMAIN l THEN l[a] ELSE m[a]) \in Entry
  BY EntryOf
<1>3. Pd!Over(l, m) \in [DOMAIN l \cup DOMAIN m -> Entry]
  BY <1>2 DEF Pd!Over
<1>4. DOMAIN l \cup DOMAIN m \subseteq PdAddr
  BY ListIs
<1> QED BY <1>1, <1>3, <1>4, ListIs

HasPut(m, l, a, e) ==
  /\ m \in Lists /\ DOMAIN m = DOMAIN l \cup {a} /\ m[a] = e
  /\ \A b \in DOMAIN l \ {a} : m[b] = l[b]
LEMMA PutList ==
  ASSUME NEW l \in Lists, NEW a \in PdAddr, NEW e \in Entry
  PROVE  HasPut(Pd!Put(l, a, e), l, a, e)
<1> DEFINE m == [x \in {a} |-> e]
<1>1. m \in Lists
  <2>1. m \in [DOMAIN m -> Entry] /\ DOMAIN m \subseteq PdAddr
    OBVIOUS
  <2> HIDE DEF m
  <2> QED BY <2>1, ListIs
<1>2. DOMAIN m = {a} /\ m[a] = e
  OBVIOUS
<1>3. Pd!Put(l, a, e) = Pd!Over(m, l)
  BY DEF Pd!Put
<1> HIDE DEF m
<1> QED BY <1>1, <1>2, <1>3, OverList DEF HasPut

LEMMA WithoutList ==
  ASSUME NEW l \in Lists, NEW S
  PROVE  /\ Pd!Without(l, S) \in Lists /\ DOMAIN Pd!Without(l, S) = DOMAIN l \ S
         /\ \A a \in DOMAIN l \ S : Pd!Without(l, S)[a] = l[a]
<1>1. /\ DOMAIN Pd!Without(l, S) = DOMAIN l \ S
      /\ \A a \in DOMAIN l \ S : Pd!Without(l, S)[a] = l[a]
  BY DEF Pd!Without
<1>2. Pd!Without(l, S) \in [DOMAIN l \ S -> Entry]
  BY EntryOf DEF Pd!Without
<1>3. DOMAIN l \ S \subseteq PdAddr
  BY ListIs
<1> QED BY <1>1, <1>2, <1>3, ListIs

Lifted(e) == [e EXCEPT !.ban_until = 0, !.next = 0]
LEMMA LiftedEntry ==
  ASSUME NEW e \in Entry
  PROVE  Lifted(e) \in Entry /\ Lifted(e).ban_until = 0 /\ Lifted(e).next = 0
BY DEF Entry, Lifted

LEMMA LiftList ==
  ASSUME NEW l \in Lists, NEW m \in Lists, NEW S \in SUBSET DOMAIN l
  PROVE  /\ Pd!Lift(l, S, m) \in Lists /\ DOMAIN Pd!Lift(l, S, m) = DOMAIN m \cup S
         /\ \A a \in S : Pd!Lift(l, S, m)[a] = Lifted(l[a])
         /\ \A a \in DOMAIN m \ S : Pd!Lift(l, S, m)[a] = m[a]
<1>1. Pd!Lift(l, S, m) = [a \in DOMAIN m \cup S |-> IF a \in S THEN Lifted(l[a]) ELSE m[a]]
  BY DEF Pd!Lift, Lifted
<1>2. \A a \in DOMAIN m \cup S : (IF a \in S THEN Lifted(l[a]) ELSE m[a]) \in Entry
  BY EntryOf, LiftedEntry
<1>3. Pd!Lift(l, S, m) \in [DOMAIN m \cup S -> Entry]
  BY <1>1, <1>2
<1>4. DOMAIN m \cup S \subseteq PdAddr
  BY ListIs
<1>5. Pd!Lift(l, S, m) \in Lists
  BY <1>3, <1>4, ListIs
<1> QED BY <1>1, <1>5

LEMMA NewEntryGood ==
  ASSUME now \in Nat, NEW a
  PROVE  Pd!NewEntry \in Entry /\ Good(a, Pd!NewEntry)
<1>1. Pd!NewEntry \in Entry /\ Pd!NewEntry.ban_until = 0 /\ Pd!NewEntry.next = 0
  BY DEF Pd!NewEntry, Entry
<1> QED BY <1>1, Periods DEF Good, BanKept

\* An entry without a ban and without an attempt is good.
LEMMA ResetGood ==
  ASSUME now \in Nat, NEW a, NEW e \in Entry, e.ban_until = 0, e.next = 0
  PROVE  Good(a, e)
BY Periods DEF Good, BanKept

Filled(q, w, g, dw, dg) == [q EXCEPT !.white = w, !.gray = g, !.dbw = dw, !.dbg = dg]
LEMMA BookOf ==
  ASSUME NEW q \in Book, NEW w \in Lists, NEW g \in Lists, NEW dw \in Lists, NEW dg \in Lists
  PROVE  /\ Filled(q, w, g, dw, dg) \in Book /\ Filled(q, w, g, dw, dg).excl = q.excl
         /\ Filled(q, w, g, dw, dg).white = w /\ Filled(q, w, g, dw, dg).gray = g
         /\ Filled(q, w, g, dw, dg).dbw = dw /\ Filled(q, w, g, dw, dg).dbg = dg
BY DEF Book, Filled

LEMMA ChangedAgain ==
  ASSUME NEW q, NEW r, NEW s, Changed(q, r), Changed(r, s)
  PROVE  Changed(q, s)
BY DEF Changed, Revised

LEMMA ChangedBans ==
  ASSUME NEW q, NEW r, BansKept(q), Changed(q, r)
  PROVE  BansKept(r)
BY DEF BansKept, Changed, Revised, Good

LEMMA ChangedSpaced ==
  ASSUME NEW q, NEW r, NEW f, Shape(q), Shape(r), Past(f), now \in Nat, Spaced(q, f), Changed(q, r)
  PROVE  Spaced(r, f)
<1> SUFFICES ASSUME NEW a \in DOMAIN f \ Seeds, NEW l \in {r.white, r.gray},
                    a \in DOMAIN l, l[a].ban_until = 0, l[a].next # 0
             PROVE  l[a].next >= f[a] + Pd!Period(a)
  BY DEF Spaced
<1>1. PICK k \in {q.white, q.gray} : (a \in DOMAIN k /\ l[a] = k[a]) \/ Good(a, l[a])
  BY DEF Changed, Revised
<1>2. CASE a \in DOMAIN k /\ l[a] = k[a]
  BY <1>2 DEF Spaced
<1>3. CASE Good(a, l[a])
  <2>1. l[a].next >= now + Pd!Period(a)
    BY <1>3 DEF Good
  <2>2. l \in Lists
    BY DEF Shape, Book
  <2>3. l[a].next \in Nat /\ Pd!Period(a) \in Nat /\ f[a] \in Nat /\ f[a] <= now
    BY <2>2, EntryOf, Periods DEF Entry, Past
  <2> QED BY <2>1, <2>3
<1> QED BY <1>1, <1>2, <1>3

\* unban.
LEMMA UnbanKeeps ==
  ASSUME now \in Nat, NEW q, Shape(q)
  PROVE  /\ Shape(Pd!unban(q)) /\ Changed(q, Pd!unban(q))
         /\ DOMAIN Pd!unban(q).white = DOMAIN q.white
         /\ \A a \in DOMAIN q.white : \/ Pd!unban(q).white[a] = q.white[a]
                                      \/ Pd!Due(q.white[a].ban_until, q.white[a].last_seen, now)
<1> DEFINE W == Pd!Unbanned(q.white)
           G == Pd!Unbanned(q.gray)
           w == Pd!Lift(q.white, W, q.white)
           g == Pd!Lift(q.gray, G, q.gray)
           dw == Pd!Lift(q.white, W, q.dbw)
           dg == Pd!Lift(q.gray, G, q.dbg)
<1>1. q \in Book /\ q.white \in Lists /\ q.gray \in Lists /\ q.dbw \in Lists /\ q.dbg \in Lists
  BY DEF Shape, Book
<1>2. W \in SUBSET DOMAIN q.white /\ G \in SUBSET DOMAIN q.gray
  BY DEF Pd!Unbanned, Pd!Banned
<1>3. \A a \in W : Pd!Due(q.white[a].ban_until, q.white[a].last_seen, now)
  BY DEF Pd!Unbanned
<1>4. Pd!unban(q) = Filled(q, w, g, dw, dg)
  BY DEF Pd!unban, Filled
<1> HIDE DEF W, G
<1>5. /\ w \in Lists /\ DOMAIN w = DOMAIN q.white
      /\ \A a \in W : w[a] = Lifted(q.white[a])
      /\ \A a \in DOMAIN q.white \ W : w[a] = q.white[a]
  <2>1. /\ Pd!Lift(q.white, W, q.white) \in Lists /\ DOMAIN Pd!Lift(q.white, W, q.white) = DOMAIN q.white \cup W
        /\ \A a \in W : Pd!Lift(q.white, W, q.white)[a] = Lifted(q.white[a])
        /\ \A a \in DOMAIN q.white \ W : Pd!Lift(q.white, W, q.white)[a] = q.white[a]
    BY <1>1, <1>2, LiftList
  <2> QED BY <1>2, <2>1
<1>6. /\ g \in Lists /\ DOMAIN g = DOMAIN q.gray
      /\ \A a \in G : g[a] = Lifted(q.gray[a])
      /\ \A a \in DOMAIN q.gray \ G : g[a] = q.gray[a]
  <2>1. /\ Pd!Lift(q.gray, G, q.gray) \in Lists /\ DOMAIN Pd!Lift(q.gray, G, q.gray) = DOMAIN q.gray \cup G
        /\ \A a \in G : Pd!Lift(q.gray, G, q.gray)[a] = Lifted(q.gray[a])
        /\ \A a \in DOMAIN q.gray \ G : Pd!Lift(q.gray, G, q.gray)[a] = q.gray[a]
    BY <1>1, <1>2, LiftList
  <2> QED BY <1>2, <2>1
<1>7. /\ dw \in Lists /\ DOMAIN dw = DOMAIN q.dbw \cup W
      /\ \A a \in W : dw[a] = Lifted(q.white[a])
      /\ \A a \in DOMAIN q.dbw \ W : dw[a] = q.dbw[a]
  <2>1. /\ Pd!Lift(q.white, W, q.dbw) \in Lists /\ DOMAIN Pd!Lift(q.white, W, q.dbw) = DOMAIN q.dbw \cup W
        /\ \A a \in W : Pd!Lift(q.white, W, q.dbw)[a] = Lifted(q.white[a])
        /\ \A a \in DOMAIN q.dbw \ W : Pd!Lift(q.white, W, q.dbw)[a] = q.dbw[a]
    BY <1>1, <1>2, LiftList
  <2> QED BY <1>2, <2>1
<1>8. g = dg
  BY DEF Shape
<1> HIDE DEF w, g, dw, dg
<1>9. LET r == Pd!unban(q)
      IN  r \in Book /\ r.white = w /\ r.gray = g /\ r.dbw = dw /\ r.dbg = dg /\ r.excl = q.excl
  <2>1. /\ Filled(q, w, g, dw, dg) \in Book /\ Filled(q, w, g, dw, dg).excl = q.excl
        /\ Filled(q, w, g, dw, dg).white = w /\ Filled(q, w, g, dw, dg).gray = g
        /\ Filled(q, w, g, dw, dg).dbw = dw /\ Filled(q, w, g, dw, dg).dbg = dg
    BY <1>1, <1>5, <1>6, <1>7, <1>8, BookOf
  <2> QED BY <1>4, <2>1
<1>10. Shape(Pd!unban(q))
  BY <1>2, <1>5, <1>6, <1>7, <1>8, <1>9 DEF Shape
<1>11. \A a \in W : Good(a, Lifted(q.white[a]))
  BY <1>1, <1>2, EntryOf, LiftedEntry, ResetGood
<1>12. \A a \in G : Good(a, Lifted(q.gray[a]))
  BY <1>1, <1>2, EntryOf, LiftedEntry, ResetGood
<1>13. Changed(q, Pd!unban(q))
  BY <1>5, <1>6, <1>9, <1>11, <1>12 DEF Changed, Revised
<1> QED BY <1>3, <1>5, <1>9, <1>10, <1>13

\* add_incoming_peer_impl.
LEMMA AddedKeeps ==
  ASSUME now \in Nat, NEW q, Shape(q), NEW S \in SUBSET PdAddr
  PROVE  LET r == Pd!Added(q, Pd!Unknown(q, S))
         IN  Shape(r) /\ Changed(q, r)
<1> DEFINE U == Pd!Unknown(q, S)
           new == [a \in U |-> Pd!NewEntry]
           g == Pd!Over(new, q.gray)
           dg == Pd!Over(new, q.dbg)
<1>1. q \in Book /\ q.white \in Lists /\ q.gray \in Lists /\ q.dbw \in Lists /\ q.dbg \in Lists
  BY DEF Shape, Book
<1>2. U \subseteq PdAddr /\ U \cap DOMAIN q.white = {}
  BY DEF Pd!Unknown
<1>3. Pd!Added(q, U) = [q EXCEPT !.gray = g, !.dbg = dg]
  BY DEF Pd!Added
<1> HIDE DEF U
<1>4. new \in Lists /\ DOMAIN new = U /\ \A a \in U : new[a] = Pd!NewEntry
  <2>1. new \in [DOMAIN new -> Entry] /\ DOMAIN new \subseteq PdAddr
    BY <1>2, NewEntryGood
  <2> QED BY <2>1, ListIs
<1> HIDE DEF new
<1>5. /\ g \in Lists /\ DOMAIN g = U \cup DOMAIN q.gray
      /\ \A a \in U : g[a] = Pd!NewEntry
      /\ \A a \in DOMAIN q.gray \ U : g[a] = q.gray[a]
  <2>1. /\ Pd!Over(new, q.gray) \in Lists /\ DOMAIN Pd!Over(new, q.gray) = DOMAIN new \cup DOMAIN q.gray
        /\ \A a \in DOMAIN new : Pd!Over(new, q.gray)[a] = new[a]
        /\ \A a \in DOMAIN q.gray \ DOMAIN new : Pd!Over(new, q.gray)[a] = q.gray[a]
    BY <1>1, <1>4, OverList
  <2> QED BY <1>4, <2>1
<1>6. g = dg
  BY DEF Shape
<1> HIDE DEF g, dg
<1>7. Pd!Added(q, U) = Filled(q, q.white, g, q.dbw, dg)
  BY <1>1, <1>3 DEF Book, Filled
<1>8. LET r == Pd!Added(q, U)
      IN  r \in Book /\ r.white = q.white /\ r.gray = g /\ r.dbw = q.dbw /\ r.dbg = dg /\ r.excl = q.excl
  <2>1. /\ Filled(q, q.white, g, q.dbw, dg) \in Book /\ Filled(q, q.white, g, q.dbw, dg).excl = q.excl
        /\ Filled(q, q.white, g, q.dbw, dg).white = q.white /\ Filled(q, q.white, g, q.dbw, dg).gray = g
        /\ Filled(q, q.white, g, q.dbw, dg).dbw = q.dbw /\ Filled(q, q.white, g, q.dbw, dg).dbg = dg
    <3> DEFINE w == q.white
               dw == q.dbw
    <3>1. q \in Book /\ w \in Lists /\ g \in Lists /\ dw \in Lists /\ dg \in Lists
      BY <1>1, <1>5, <1>6
    <3> HIDE DEF w, dw
    <3>2. /\ Filled(q, w, g, dw, dg) \in Book /\ Filled(q, w, g, dw, dg).excl = q.excl
          /\ Filled(q, w, g, dw, dg).white = w /\ Filled(q, w, g, dw, dg).gray = g
          /\ Filled(q, w, g, dw, dg).dbw = dw /\ Filled(q, w, g, dw, dg).dbg = dg
      BY <3>1, BookOf
    <3> QED BY <3>2 DEF w, dw
  <2> QED BY <1>7, <2>1
<1>9. Shape(Pd!Added(q, U))
  BY <1>2, <1>5, <1>6, <1>8 DEF Shape
<1>10. Changed(q, Pd!Added(q, U))
  BY <1>5, <1>8, NewEntryGood DEF Changed, Revised
<1> QED BY <1>9, <1>10 DEF U

\* trim, whatever it may keep.
LEMMA TrimmedKeeps ==
  ASSUME NEW q, Shape(q), NEW white, NEW gray
  PROVE  LET r == Pd!Trimmed(q, white, gray)
         IN  Shape(r) /\ Changed(q, r)
<1> DEFINE w == Pd!Without(q.white, DOMAIN q.white \ white)
           g == Pd!Without(q.gray, DOMAIN q.gray \ gray)
           dw == Pd!Without(q.dbw, DOMAIN q.white \ white)
           dg == Pd!Without(q.dbg, DOMAIN q.gray \ gray)
<1>1. q \in Book /\ q.white \in Lists /\ q.gray \in Lists /\ q.dbw \in Lists /\ q.dbg \in Lists
  BY DEF Shape, Book
<1>2. Pd!Trimmed(q, white, gray) = Filled(q, w, g, dw, dg)
  BY <1>1 DEF Pd!Trimmed, Filled, Book
<1>3. /\ w \in Lists /\ DOMAIN w = DOMAIN q.white \ (DOMAIN q.white \ white)
      /\ \A a \in DOMAIN w : w[a] = q.white[a]
  <2>1. /\ Pd!Without(q.white, DOMAIN q.white \ white) \in Lists /\ DOMAIN Pd!Without(q.white, DOMAIN q.white \ white) = DOMAIN q.white \ (DOMAIN q.white \ white)
        /\ \A a \in DOMAIN q.white \ (DOMAIN q.white \ white) : Pd!Without(q.white, DOMAIN q.white \ white)[a] = q.white[a]
    BY <1>1, WithoutList
  <2> QED BY <2>1
<1>4. /\ g \in Lists /\ DOMAIN g = DOMAIN q.gray \ (DOMAIN q.gray \ gray)
      /\ \A a \in DOMAIN g : g[a] = q.gray[a]
  <2>1. /\ Pd!Without(q.gray, DOMAIN q.gray \ gray) \in Lists /\ DOMAIN Pd!Without(q.gray, DOMAIN q.gray \ gray) = DOMAIN q.gray \ (DOMAIN q.gray \ gray)
        /\ \A a \in DOMAIN q.gray \ (DOMAIN q.gray \ gray) : Pd!Without(q.gray, DOMAIN q.gray \ gray)[a] = q.gray[a]
    BY <1>1, WithoutList
  <2> QED BY <2>1
<1>5. /\ dw \in Lists /\ DOMAIN dw = DOMAIN q.dbw \ (DOMAIN q.white \ white)
      /\ \A a \in DOMAIN dw : dw[a] = q.dbw[a]
  <2>1. /\ Pd!Without(q.dbw, DOMAIN q.white \ white) \in Lists /\ DOMAIN Pd!Without(q.dbw, DOMAIN q.white \ white) = DOMAIN q.dbw \ (DOMAIN q.white \ white)
        /\ \A a \in DOMAIN q.dbw \ (DOMAIN q.white \ white) : Pd!Without(q.dbw, DOMAIN q.white \ white)[a] = q.dbw[a]
    BY <1>1, WithoutList
  <2> QED BY <2>1
<1>6. g = dg
  BY DEF Shape
<1> HIDE DEF w, g, dw, dg
<1>7. LET r == Pd!Trimmed(q, white, gray)
      IN  r \in Book /\ r.white = w /\ r.gray = g /\ r.dbw = dw /\ r.dbg = dg /\ r.excl = q.excl
  <2>1. /\ Filled(q, w, g, dw, dg) \in Book /\ Filled(q, w, g, dw, dg).excl = q.excl
        /\ Filled(q, w, g, dw, dg).white = w /\ Filled(q, w, g, dw, dg).gray = g
        /\ Filled(q, w, g, dw, dg).dbw = dw /\ Filled(q, w, g, dw, dg).dbg = dg
    BY <1>1, <1>3, <1>4, <1>5, <1>6, BookOf
  <2> QED BY <1>2, <2>1
<1>8. Shape(Pd!Trimmed(q, white, gray))
  BY <1>3, <1>4, <1>5, <1>6, <1>7 DEF Shape
<1>9. Changed(q, Pd!Trimmed(q, white, gray))
  BY <1>3, <1>4, <1>7 DEF Changed, Revised
<1> QED BY <1>8, <1>9

\* An entry of which the time of the next attempt is set.
Moved(e, t) == [e EXCEPT !.next = t]
LEMMA MovedEntry ==
  ASSUME NEW e \in Entry, NEW t \in Nat
  PROVE  /\ Moved(e, t) \in Entry /\ Moved(e, t).next = t /\ Moved(e, t).ban_until = e.ban_until
         /\ Moved(e, t).last_seen = e.last_seen
BY DEF Entry, Moved

LEMMA TriedList ==
  ASSUME NEW l \in Lists, NEW a \in DOMAIN l, NEW period \in Nat, now \in Nat
  PROVE  /\ Pd!Tried(l, a, period) = Pd!Put(l, a, Moved(l[a], now + period))
         /\ Pd!Tried(l, a, period)[a] = Moved(l[a], now + period)
<1> DEFINE e == Moved(l[a], now + period)
<1>1. Pd!Tried(l, a, period) = [l EXCEPT ![a] = e]
  BY ListIs DEF Pd!Tried, Moved
<1>2. l[a] \in Entry /\ a \in PdAddr
  BY EntryOf
<1>3. e \in Entry
  BY <1>2, MovedEntry
<1> HIDE DEF e
<1>4. HasPut(Pd!Put(l, a, e), l, a, e)
  BY <1>2, <1>3, PutList
<1>5. Pd!Put(l, a, e) \in [DOMAIN l -> Entry] /\ l \in [DOMAIN l -> Entry]
  BY <1>4, ListIs DEF HasPut
<1>6. [l EXCEPT ![a] = e] = Pd!Put(l, a, e)
  BY <1>4, <1>5 DEF HasPut
<1>7. [l EXCEPT ![a] = e][a] = e
  BY <1>5
<1> QED BY <1>1, <1>6, <1>7 DEF e

\* A change of one entry of the white list, in memory and in the data base, after
\* which the gray list has it no more or had it not.
LEMMA WhiteEntry ==
  ASSUME NEW q, Shape(q), NEW a \in PdAddr, NEW e \in Entry, Good(a, e),
         NEW g \in Lists, NEW dg, g = dg, DOMAIN g \subseteq DOMAIN q.gray, Revised(q.gray, g),
         a \in DOMAIN g => a \in Seeds
  PROVE  LET r == Filled(q, Pd!Put(q.white, a, e), g, Pd!Put(q.dbw, a, e), dg)
         IN  Shape(r) /\ Changed(q, r) /\ a \in DOMAIN r.white /\ r.white[a] = e
<1> DEFINE w == Pd!Put(q.white, a, e)
           dw == Pd!Put(q.dbw, a, e)
           r == Filled(q, w, g, dw, dg)
<1>1. q \in Book /\ q.white \in Lists /\ q.gray \in Lists /\ q.dbw \in Lists /\ q.dbg \in Lists
  BY DEF Shape, Book
<1>2. /\ w \in Lists /\ DOMAIN w = DOMAIN q.white \cup {a} /\ w[a] = e
      /\ \A b \in DOMAIN q.white \ {a} : w[b] = q.white[b]
  <2>1. HasPut(Pd!Put(q.white, a, e), q.white, a, e)
    BY <1>1, PutList
  <2> QED BY <2>1 DEF HasPut
<1>3. /\ dw \in Lists /\ DOMAIN dw = DOMAIN q.dbw \cup {a} /\ dw[a] = e
      /\ \A b \in DOMAIN q.dbw \ {a} : dw[b] = q.dbw[b]
  <2>1. HasPut(Pd!Put(q.dbw, a, e), q.dbw, a, e)
    BY <1>1, PutList
  <2> QED BY <2>1 DEF HasPut
<1> HIDE DEF w, dw
<1>4. /\ Filled(q, w, g, dw, dg) \in Book /\ Filled(q, w, g, dw, dg).excl = q.excl
      /\ Filled(q, w, g, dw, dg).white = w /\ Filled(q, w, g, dw, dg).gray = g
      /\ Filled(q, w, g, dw, dg).dbw = dw /\ Filled(q, w, g, dw, dg).dbg = dg
  BY <1>1, <1>2, <1>3, BookOf
<1> HIDE DEF r
<1>5. r \in Book /\ r.white = w /\ r.gray = g /\ r.dbw = dw /\ r.dbg = dg /\ r.excl = q.excl
  BY <1>4 DEF r
<1>6. Shape(r)
  BY <1>2, <1>3, <1>5 DEF Shape
<1>7. Changed(q, r)
  BY <1>2, <1>5 DEF Changed, Revised
<1> QED BY <1>2, <1>5, <1>6, <1>7 DEF r, w, dw

\* A change of one entry of the gray list.
LEMMA GrayEntry ==
  ASSUME NEW q, Shape(q), NEW a \in DOMAIN q.gray, NEW e \in Entry, Good(a, e)
  PROVE  LET r == Filled(q, q.white, Pd!Put(q.gray, a, e), q.dbw, Pd!Put(q.dbg, a, e))
         IN  Shape(r) /\ Changed(q, r) /\ a \in DOMAIN r.gray /\ r.gray[a] = e
<1> DEFINE w == q.white
           dw == q.dbw
           g == Pd!Put(q.gray, a, e)
           dg == Pd!Put(q.dbg, a, e)
           r == Filled(q, w, g, dw, dg)
<1>1. q \in Book /\ w \in Lists /\ q.gray \in Lists /\ dw \in Lists /\ g = dg
  BY DEF Shape, Book
<1>2. a \in PdAddr
  BY <1>1, EntryOf
<1>3. /\ g \in Lists /\ DOMAIN g = DOMAIN q.gray /\ g[a] = e
      /\ \A b \in DOMAIN q.gray \ {a} : g[b] = q.gray[b]
  <2>1. HasPut(Pd!Put(q.gray, a, e), q.gray, a, e)
    BY <1>1, <1>2, PutList
  <2> QED BY <2>1 DEF HasPut
<1>4. w = q.white /\ dw = q.dbw
  OBVIOUS
<1> HIDE DEF w, dw, g, dg
<1>5. /\ Filled(q, w, g, dw, dg) \in Book /\ Filled(q, w, g, dw, dg).excl = q.excl
      /\ Filled(q, w, g, dw, dg).white = w /\ Filled(q, w, g, dw, dg).gray = g
      /\ Filled(q, w, g, dw, dg).dbw = dw /\ Filled(q, w, g, dw, dg).dbg = dg
  <2>1. dg \in Lists
    BY <1>1, <1>3
  <2> QED BY <1>1, <1>3, <2>1, BookOf
<1> HIDE DEF r
<1>6. r \in Book /\ r.white = w /\ r.gray = g /\ r.dbw = dw /\ r.dbg = dg /\ r.excl = q.excl
  BY <1>5 DEF r
<1>7. Shape(r)
  BY <1>1, <1>3, <1>4, <1>6 DEF Shape
<1>8. Changed(q, r)
  BY <1>3, <1>4, <1>6 DEF Changed, Revised
<1> QED BY <1>3, <1>6, <1>7, <1>8 DEF r, w, dw, g, dg

\* set_peer_just_seen.
LEMMA SeenKeeps ==
  ASSUME now \in Nat, Shape(p), NEW a \in PdAddr, Pd!set_peer_just_seen(a)
  PROVE  Shape(p') /\ Changed(p, p')
<1> DEFINE e == Pd!SeenEntry(a, IF a \in DOMAIN p.white THEN p.white[a] ELSE Pd!NewEntry)
           g == Pd!Without(p.gray, {a})
           dg == Pd!Without(p.dbg, {a})
<1>1. p \in Book /\ p.white \in Lists /\ p.gray \in Lists /\ p.gray = p.dbg
  BY DEF Shape, Book
<1>2. p' = Filled(p, Pd!Put(p.white, a, e), g, Pd!Put(p.dbw, a, e), dg)
  BY <1>1 DEF Pd!set_peer_just_seen, Filled, Book
<1>3. e \in Entry /\ Good(a, e)
  <2> DEFINE old == IF a \in DOMAIN p.white THEN p.white[a] ELSE Pd!NewEntry
  <2>1. old \in Entry
    BY <1>1, EntryOf, NewEntryGood
  <2>2. /\ e \in Entry /\ e.ban_until = 0
        /\ a \notin Seeds => e.next = 0
    <3>1. e = [old EXCEPT !.ban_until = 0, !.last_seen = now, !.next = IF a \in Seeds THEN old.next ELSE 0]
      BY DEF Pd!SeenEntry, Pd!is_seed
    <3>2. (IF a \in Seeds THEN old.next ELSE 0) \in Nat
      BY <2>1 DEF Entry
    <3> HIDE DEF e, old
    <3> QED BY <2>1, <3>1, <3>2 DEF Entry
  <2> HIDE DEF e, old
  <2> QED BY <2>2, Periods DEF Good, BanKept
<1>4. g \in Lists /\ g = dg /\ DOMAIN g = DOMAIN p.gray \ {a} /\ Revised(p.gray, g)
  <2>1. /\ Pd!Without(p.gray, {a}) \in Lists /\ DOMAIN Pd!Without(p.gray, {a}) = DOMAIN p.gray \ {a}
        /\ \A b \in DOMAIN p.gray \ {a} : Pd!Without(p.gray, {a})[b] = p.gray[b]
    BY <1>1, WithoutList
  <2> QED BY <1>1, <2>1 DEF Revised
<1>5. DOMAIN g \subseteq DOMAIN p.gray /\ (a \in DOMAIN g => a \in Seeds)
  BY <1>4
<1> HIDE DEF e, g, dg
<1> QED BY <1>2, <1>3, <1>4, <1>5, WhiteEntry

\* delay_connection_attempt.
LEMMA DelayKeeps ==
  ASSUME now \in Nat, Shape(p), BansKept(p), NEW a \in PdAddr, Pd!delay_connection_attempt(a)
  PROVE  Shape(p') /\ Changed(p, p')
<1> DEFINE e == Moved(p.white[a], now + Delay(a))
<1>1. p \in Book /\ p.white \in Lists /\ p.gray \in Lists /\ p.dbg \in Lists /\ p.gray = p.dbg
  BY DEF Shape, Book
<1>2. a \in DOMAIN p.white /\ p.white[a] \in Entry /\ now + Delay(a) \in Nat
  BY <1>1, EntryOf, Periods DEF Pd!delay_connection_attempt
<1>3. p' = [p EXCEPT !.white = Pd!Put(p.white, a, e), !.dbw = Pd!Put(p.dbw, a, e)]
  BY <1>1 DEF Pd!delay_connection_attempt, Moved, Delay, Pd!is_priority, Book
<1>4. p' = Filled(p, Pd!Put(p.white, a, e), p.gray, Pd!Put(p.dbw, a, e), p.dbg)
  BY <1>1, <1>3 DEF Filled, Book
<1>5. /\ e \in Entry /\ e.next = now + Delay(a) /\ e.ban_until = p.white[a].ban_until
  BY <1>2, MovedEntry
<1> HIDE DEF e
<1>6. Good(a, e)
  <2>1. e.ban_until <= now + Delay(a) /\ Pd!Period(a) <= Delay(a) /\ Pd!Period(a) \in Nat /\ Delay(a) \in Nat
    BY <1>2, <1>5, Periods DEF BansKept, BanKept
  <2>2. now + Delay(a) >= now + Pd!Period(a)
    BY <2>1
  <2> QED BY <1>5, <2>1, <2>2 DEF Good, BanKept
<1>7. Revised(p.gray, p.gray) /\ (a \in DOMAIN p.gray => a \in Seeds)
  BY <1>2 DEF Revised, Shape
<1>8. Shape(p') /\ Changed(p, p')
  <2> DEFINE g == p.gray
             dg == p.dbg
  <2>1. g \in Lists /\ g = dg /\ DOMAIN g \subseteq DOMAIN p.gray /\ Revised(p.gray, g)
        /\ (a \in DOMAIN g => a \in Seeds)
    BY <1>1, <1>7
  <2>2. p' = Filled(p, Pd!Put(p.white, a, e), g, Pd!Put(p.dbw, a, e), dg)
    BY <1>4
  <2> HIDE DEF g, dg
  <2> QED BY <1>5, <1>6, <2>1, <2>2, WhiteEntry
<1> QED BY <1>8

\* set_peer_banned.
LEMMA BanTimeGood ==
  ASSUME now \in Nat, NEW a, NEW e \in Entry, NEW period \in Nat, 0 < period, period <= Delay(a)
  PROVE  Pd!BanTime(e, period) \in Entry /\ Good(a, Pd!BanTime(e, period))
<1>1. now + period \in Nat
  OBVIOUS
<1>2. /\ Pd!BanTime(e, period) \in Entry
      /\ Pd!BanTime(e, period).ban_until = now + period /\ Pd!BanTime(e, period).next = now + period
  BY <1>1 DEF Pd!BanTime, Entry
<1>3. now + period <= now + Delay(a) /\ now + period # 0
  BY Periods
<1> QED BY <1>2, <1>3 DEF Good, BanKept

LEMMA BannedKeeps ==
  ASSUME now \in Nat, Shape(p), NEW a \in PdAddr, Pd!set_peer_banned(a)
  PROVE  Shape(p') /\ Changed(p, p')
<1> DEFINE eg == Pd!BanTime(p.gray[a], Pd!GrayPeriod(a))
           ew == Pd!BanTime(p.white[a], Pd!WhitePeriod(a))
           g == IF a \in DOMAIN p.gray THEN Pd!Put(p.gray, a, eg) ELSE p.gray
           dg == IF a \in DOMAIN p.gray THEN Pd!Put(p.dbg, a, eg) ELSE p.dbg
           w == IF a \in DOMAIN p.white THEN Pd!Put(p.white, a, ew) ELSE p.white
           dw == IF a \in DOMAIN p.white THEN Pd!Put(p.dbw, a, ew) ELSE p.dbw
           r == Filled(p, p.white, g, p.dbw, dg)
<1>1. p \in Book /\ p.white \in Lists /\ p.gray \in Lists /\ p.dbw \in Lists /\ p.dbg \in Lists
      /\ p.gray = p.dbg /\ a \notin DOMAIN p.excl
  BY DEF Shape, Book
<1>2. p' = Filled(p, w, g, dw, dg)
  <2>1. p' = [p EXCEPT !.gray = g, !.dbg = dg, !.white = w, !.dbw = dw]
    BY <1>1 DEF Pd!set_peer_banned, Pd!BanIn, Book
  <2> HIDE DEF g, dg, w, dw
  <2> QED BY <1>1, <2>1 DEF Filled, Book
<1>3. a \in DOMAIN p.gray => eg \in Entry /\ Good(a, eg)
  <2> SUFFICES ASSUME a \in DOMAIN p.gray PROVE eg \in Entry /\ Good(a, eg)
    OBVIOUS
  <2>1. p.gray[a] \in Entry /\ Pd!GrayPeriod(a) \in Nat /\ 0 < Pd!GrayPeriod(a) /\ Pd!GrayPeriod(a) <= Delay(a)
    BY <1>1, EntryOf, Periods
  <2> QED BY <2>1, BanTimeGood
<1>4. a \in DOMAIN p.white => ew \in Entry /\ Good(a, ew)
  <2> SUFFICES ASSUME a \in DOMAIN p.white PROVE ew \in Entry /\ Good(a, ew)
    OBVIOUS
  <2>1. p.white[a] \in Entry /\ Pd!WhitePeriod(a) \in Nat /\ 0 < Pd!WhitePeriod(a)
        /\ Pd!WhitePeriod(a) <= Delay(a)
    BY <1>1, EntryOf, Periods
  <2> QED BY <2>1, BanTimeGood
<1> HIDE DEF eg, ew
<1>5. Shape(r) /\ Changed(p, r)
  <2>1. CASE a \in DOMAIN p.gray
    <3>1. r = Filled(p, p.white, Pd!Put(p.gray, a, eg), p.dbw, Pd!Put(p.dbg, a, eg))
      BY <2>1
    <3> HIDE DEF r
    <3> QED BY <1>3, <2>1, <3>1, GrayEntry
  <2>2. CASE a \notin DOMAIN p.gray
    <3>1. r = p
      BY <1>1, <2>2 DEF Filled, Book
    <3> HIDE DEF r
    <3> QED BY <3>1 DEF Changed, Revised
  <2> QED BY <2>1, <2>2
<1>6. g \in Lists /\ g = dg /\ (a \in DOMAIN p.white /\ a \in DOMAIN g => a \in Seeds)
  <2>1. g = dg
    BY <1>1
  <2>2. CASE a \in DOMAIN p.gray
    <3>1. Pd!Put(p.gray, a, eg) \in Lists
      BY <1>1, <1>3, <2>2, PutList DEF HasPut
    <3> QED BY <2>1, <2>2, <3>1 DEF Shape
  <2>3. CASE a \notin DOMAIN p.gray
    BY <1>1, <2>1, <2>3
  <2> QED BY <2>2, <2>3
<1>7. /\ r.white = p.white /\ r.gray = g /\ r.dbw = p.dbw /\ r.dbg = dg /\ r \in Book
  <2> HIDE DEF g, dg
  <2> QED BY <1>1, <1>6 DEF Filled, Book
<1>8. CASE a \in DOMAIN p.white
  <2>1. p' = Filled(r, Pd!Put(r.white, a, ew), g, Pd!Put(r.dbw, a, ew), dg)
    <3>1. p' = Filled(p, Pd!Put(p.white, a, ew), g, Pd!Put(p.dbw, a, ew), dg)
      BY <1>2, <1>8
    <3> HIDE DEF g, dg, w, dw
    <3> QED BY <1>1, <1>7, <3>1 DEF Filled, Book
  <2> HIDE DEF r, g, dg, w, dw
  <2>2. DOMAIN g \subseteq DOMAIN r.gray /\ Revised(r.gray, g) /\ (a \in DOMAIN g => a \in Seeds)
    BY <1>6, <1>7, <1>8 DEF Revised
  <2>3. Shape(p') /\ Changed(r, p')
    BY <1>4, <1>5, <1>6, <1>8, <2>1, <2>2, WhiteEntry
  <2> QED BY <1>5, <2>3, ChangedAgain
<1>9. CASE a \notin DOMAIN p.white
  BY <1>2, <1>5, <1>9
<1> QED BY <1>8, <1>9

\* get_peer_to_connect: an entry that is due is not banned, so the time of the next
\* attempt can be set without shortening a ban.
LEMMA ReadyGood ==
  ASSUME now \in Nat, NEW l \in Lists, NEW a \in DOMAIN l, BanKept(a, l[a]),
         Pd!Due(l[a].next, l[a].last_seen, now)
  PROVE  LET e == Moved(l[a], now + Pd!Period(a))
         IN  e \in Entry /\ Good(a, e) /\ e.next = now + Pd!Period(a)
<1> DEFINE e == Moved(l[a], now + Pd!Period(a))
<1>1. l[a] \in Entry /\ Pd!Period(a) \in Nat /\ now + Pd!Period(a) \in Nat
  BY EntryOf, Periods
<1>2. e \in Entry /\ e.next = now + Pd!Period(a) /\ e.ban_until = l[a].ban_until
  BY <1>1, MovedEntry
<1>3. l[a].next \in Nat /\ l[a].ban_until \in Nat /\ l[a].last_seen \in Nat
  BY <1>1 DEF Entry
<1>4. l[a].next <= now
  BY <1>3 DEF Pd!Due, Pd!Before
<1>5. l[a].ban_until <= now
  BY <1>3, <1>4 DEF BanKept
<1> HIDE DEF e
<1>6. Good(a, e)
  <2>1. ~(e.ban_until > now) /\ e.ban_until <= now + Delay(a)
    BY <1>2, <1>3, <1>5, Periods
  <2>2. e.next >= now + Pd!Period(a)
    BY <1>1, <1>2
  <2> QED BY <2>1, <2>2 DEF Good, BanKept
<1> QED BY <1>2, <1>6 DEF e

LEMMA PickKeeps ==
  ASSUME now \in Nat, Shape(p), BansKept(p), NEW connected, NEW a, Pd!Pick(connected, a)
  PROVE  /\ Shape(p') /\ Changed(p, p')
         /\ a \notin Seeds => \A l \in {p.white', p.gray'} : a \in DOMAIN l => l[a].next = now + Pd!Period(a)
<1> DEFINE q == Pd!unban(p)
<1>1. Shape(q) /\ Changed(p, q)
  BY UnbanKeeps
<1>2. BansKept(q)
  BY <1>1, ChangedBans
<1>3. Pd!PickWhite(connected, q, a) \/ Pd!PickGray(connected, q, a)
  BY DEF Pd!Pick, Shape
<1> HIDE DEF q
<1>4. /\ q \in Book /\ q.white \in Lists /\ q.gray \in Lists /\ q.dbg \in Lists /\ q.gray = q.dbg
      /\ Pd!Period(a) \in Nat
  BY <1>1, Periods DEF Shape, Book
<1>5. CASE Pd!PickWhite(connected, q, a)
  <2> DEFINE e == Moved(q.white[a], now + Pd!Period(a))
             g == q.gray
             dg == q.dbg
  <2>1. a \in DOMAIN q.white /\ Pd!Due(q.white[a].next, q.white[a].last_seen, now)
    BY <1>5 DEF Pd!PickWhite, Pd!FirstOf, Pd!Ready
  <2>2. e \in Entry /\ Good(a, e) /\ e.next = now + Pd!Period(a)
    BY <1>2, <1>4, <2>1, ReadyGood DEF BansKept
  <2>3. p' = Filled(q, Pd!Put(q.white, a, e), g, Pd!Put(q.dbw, a, e), dg)
    <3>1. /\ Pd!Tried(q.white, a, Pd!Period(a)) = Pd!Put(q.white, a, e)
          /\ Pd!Tried(q.white, a, Pd!Period(a))[a] = e
      BY <1>4, <2>1, TriedList
    <3>2. p' = [q EXCEPT !.white = Pd!Tried(q.white, a, Pd!Period(a)),
                         !.dbw = Pd!Put(q.dbw, a, Pd!Tried(q.white, a, Pd!Period(a))[a])]
      BY <1>4, <1>5 DEF Pd!PickWhite, Book
    <3> HIDE DEF e
    <3> QED BY <1>4, <3>1, <3>2 DEF Filled, Book
  <2>4. a \in PdAddr
    BY <1>4, <2>1, EntryOf
  <2>5. /\ g \in Lists /\ g = dg /\ DOMAIN g \subseteq DOMAIN q.gray /\ Revised(q.gray, g)
        /\ a \in DOMAIN g => a \in Seeds
    BY <1>1, <1>4, <2>1 DEF Revised, Shape
  <2> HIDE DEF e, g, dg
  <2>6. Shape(p') /\ Changed(q, p') /\ a \in DOMAIN p.white' /\ p.white'[a] = e
    BY <1>1, <2>2, <2>3, <2>4, <2>5, WhiteEntry
  <2>7. Changed(p, p')
    BY <1>1, <2>6, ChangedAgain
  <2>8. a \notin Seeds => a \notin DOMAIN p.gray'
    BY <2>6 DEF Shape
  <2> QED BY <2>2, <2>6, <2>7, <2>8
<1>6. CASE Pd!PickGray(connected, q, a)
  <2> DEFINE e == Moved(q.gray[a], now + Pd!Period(a))
  <2>1. a \in DOMAIN q.gray /\ Pd!Due(q.gray[a].next, q.gray[a].last_seen, now)
    BY <1>6 DEF Pd!PickGray, Pd!FirstOf, Pd!Ready
  <2>2. e \in Entry /\ Good(a, e) /\ e.next = now + Pd!Period(a)
    BY <1>2, <1>4, <2>1, ReadyGood DEF BansKept
  <2>3. p' = Filled(q, q.white, Pd!Put(q.gray, a, e), q.dbw, Pd!Put(q.dbg, a, e))
    <3>1. /\ Pd!Tried(q.gray, a, Pd!Period(a)) = Pd!Put(q.gray, a, e)
          /\ Pd!Tried(q.gray, a, Pd!Period(a))[a] = e
      BY <1>4, <2>1, TriedList
    <3>2. p' = [q EXCEPT !.gray = Pd!Tried(q.gray, a, Pd!Period(a)),
                         !.dbg = Pd!Put(q.dbg, a, Pd!Tried(q.gray, a, Pd!Period(a))[a])]
      BY <1>4, <1>6 DEF Pd!PickGray, Book
    <3> HIDE DEF e
    <3> QED BY <1>4, <3>1, <3>2 DEF Filled, Book
  <2> HIDE DEF e
  <2>4. Shape(p') /\ Changed(q, p') /\ a \in DOMAIN p.gray' /\ p.gray'[a] = e
    BY <1>1, <2>1, <2>2, <2>3, GrayEntry
  <2>5. Changed(p, p')
    BY <1>1, <2>4, ChangedAgain
  <2>6. a \notin Seeds => a \notin DOMAIN p.white'
    BY <2>4 DEF Shape
  <2> QED BY <2>2, <2>4, <2>5, <2>6
<1> QED BY <1>3, <1>5, <1>6

\* The constructor, on what the calls before it have stored.
LEMMA RestartKeeps ==
  ASSUME now \in Nat, Shape(p), Pd!Restart
  PROVE  Shape(p') /\ Changed(p, p')
<1> DEFINE seeds == [a \in Seeds |-> Pd!NewEntry]
           none == [a \in DOMAIN p.excl |-> Pd!NewEntry]
           w == Pd!Over(p.dbw, seeds)
<1>1. /\ p \in Book /\ p.white \in Lists /\ p.dbw \in Lists /\ p.dbg \in Lists /\ p.gray = p.dbg
      /\ DOMAIN p.excl = {}
  BY DEF Shape, Book
<1>2. p' = [white |-> w, gray |-> p.dbg, excl |-> none, dbw |-> p.dbw, dbg |-> p.dbg]
  BY DEF Pd!Restart, Pd!Opened
<1>3. seeds \in Lists /\ DOMAIN seeds = Seeds /\ \A a \in Seeds : seeds[a] = Pd!NewEntry
  <2>1. seeds \in [DOMAIN seeds -> Entry] /\ DOMAIN seeds \subseteq PdAddr
    BY NewEntryGood, PeersAssumption DEF Pd!PeerAssumption
  <2>2. DOMAIN seeds = Seeds /\ \A a \in Seeds : seeds[a] = Pd!NewEntry
    OBVIOUS
  <2> HIDE DEF seeds
  <2> QED BY <2>1, <2>2, ListIs
<1>4. none \in Lists /\ DOMAIN none = {}
  <2>1. none \in [DOMAIN none -> Entry] /\ DOMAIN none = {}
    BY <1>1
  <2> HIDE DEF none
  <2> QED BY <2>1, ListIs
<1> HIDE DEF seeds, none
<1>5. /\ w \in Lists /\ DOMAIN w = DOMAIN p.dbw \cup Seeds
      /\ \A a \in DOMAIN p.dbw : w[a] = p.dbw[a]
      /\ \A a \in Seeds \ DOMAIN p.dbw : w[a] = Pd!NewEntry
  <2>1. /\ Pd!Over(p.dbw, seeds) \in Lists /\ DOMAIN Pd!Over(p.dbw, seeds) = DOMAIN p.dbw \cup DOMAIN seeds
        /\ \A a \in DOMAIN p.dbw : Pd!Over(p.dbw, seeds)[a] = p.dbw[a]
        /\ \A a \in DOMAIN seeds \ DOMAIN p.dbw : Pd!Over(p.dbw, seeds)[a] = seeds[a]
    BY <1>1, <1>3, OverList
  <2> QED BY <1>3, <2>1
<1> HIDE DEF w
<1>6. /\ p' \in Book /\ p.white' = w /\ p.gray' = p.dbg /\ p.excl' = none
      /\ p.dbw' = p.dbw /\ p.dbg' = p.dbg
  BY <1>1, <1>2, <1>4, <1>5 DEF Book
<1>7. Shape(p')
  BY <1>1, <1>4, <1>5, <1>6 DEF Shape
<1>8. Changed(p, p')
  <2>1. Revised(p.gray, p.gray')
    BY <1>1, <1>6 DEF Revised
  <2>2. Revised(p.white, p.white')
    <3> SUFFICES ASSUME NEW a \in DOMAIN w
                 PROVE  (a \in DOMAIN p.white /\ w[a] = p.white[a]) \/ Good(a, w[a])
      BY <1>6 DEF Revised
    <3>1. CASE a \in DOMAIN p.dbw
      BY <1>5, <3>1 DEF Shape
    <3>2. CASE a \notin DOMAIN p.dbw
      BY <1>5, <3>2, NewEntryGood
    <3> QED BY <3>1, <3>2
  <2> QED BY <2>1, <2>2 DEF Changed
<1> QED BY <1>7, <1>8

LEMMA AddIncomingKeeps ==
  ASSUME now \in Nat, Shape(p), NEW S \in SUBSET PdAddr, Pd!add_incoming(S)
  PROVE  Shape(p') /\ Changed(p, p')
<1> DEFINE q == Pd!unban(p)
           r == Pd!Added(q, Pd!Unknown(q, S))
<1>1. Shape(q) /\ Changed(p, q)
  BY UnbanKeeps
<1>2. PICK white, gray : p' = Pd!Trimmed(r, white, gray)
  BY DEF Pd!add_incoming, Pd!trim
<1> HIDE DEF q
<1>3. Shape(r) /\ Changed(q, r)
  BY <1>1, AddedKeeps
<1> HIDE DEF r
<1>4. Shape(p') /\ Changed(r, p')
  BY <1>2, <1>3, TrimmedKeeps
<1> QED BY <1>1, <1>3, <1>4, ChangedAgain

LEMMA HandleKeeps ==
  ASSUME PdInv, Pd!Handle
  PROVE  Shape(p') /\ ((Changed(p, p') /\ now' = now) \/ (p' = p /\ now' = now + 1))
<1>1. now \in Nat /\ Shape(p) /\ BansKept(p)
  BY DEF PdInv
<1>2. ASSUME NEW S \in {PdAddr} \cup {{a} : a \in PdAddr}, Pd!merge_peerlist_from_p2p(S)
      PROVE  Shape(p') /\ Changed(p, p') /\ now' = now
  <2>1. S \in SUBSET PdAddr
    OBVIOUS
  <2> QED BY <1>1, <1>2, <2>1, AddIncomingKeeps DEF Pd!merge_peerlist_from_p2p
<1>3. ASSUME NEW a \in PdAddr,
             Pd!set_peer_just_seen(a) \/ Pd!delay_connection_attempt(a) \/ Pd!set_peer_banned(a)
      PROVE  Shape(p') /\ Changed(p, p') /\ now' = now
  <2>1. Shape(p') /\ Changed(p, p')
    BY <1>1, <1>3, SeenKeeps, DelayKeeps, BannedKeeps
  <2>2. now' = now
    BY <1>3 DEF Pd!set_peer_just_seen, Pd!delay_connection_attempt, Pd!set_peer_banned
  <2> QED BY <2>1, <2>2
<1>4. ASSUME p' = Pd!unban(p), now' = now
      PROVE  Shape(p') /\ Changed(p, p') /\ now' = now
  BY <1>1, <1>4, UnbanKeeps
<1>5. ASSUME NEW connected, Pd!PickNone(connected)
      PROVE  p' = Pd!unban(p)
  BY <1>1, <1>5 DEF Pd!PickNone, Shape
<1>6. Pd!get_peerlist_to_p2p => p' = Pd!unban(p) /\ now' = now
  BY DEF Pd!get_peerlist_to_p2p
<1>7. CASE Pd!Restart
  BY <1>1, <1>7, RestartKeeps DEF Pd!Restart
<1>8. CASE Pd!Tick
  BY <1>1, <1>8 DEF Pd!Tick
<1> QED BY <1>2, <1>3, <1>4, <1>5, <1>6, <1>7, <1>8 DEF Pd!Handle

\* When entries that were tried keep their distance, so do those of which it is told.
LEMMA ToldSpaced ==
  ASSUME Shape(p'), NEW f, Spaced(p', f), Past(f), now \in Nat, now' \in Nat, now <= now',
         tried' = Pd!Told(f)
  PROVE  Past(tried)' /\ Pd!NotTooOften'
<1>1. \A a \in DOMAIN tried' : a \in DOMAIN f /\ Pd!Tells(a) /\ tried'[a] = f[a]
  BY DEF Pd!Told
<1>2. Past(tried)'
  <2> SUFFICES ASSUME NEW a \in DOMAIN tried'
               PROVE  tried'[a] \in Nat /\ tried'[a] <= now'
    BY DEF Past
  <2>1. f[a] \in Nat /\ f[a] <= now /\ tried'[a] = f[a]
    BY <1>1 DEF Past
  <2> QED BY <2>1
<1>3. Pd!NotTooOften'
  <2> SUFFICES ASSUME NEW a \in DOMAIN tried', NEW t \in Pd!NextOf(p', a)
               PROVE  t >= tried'[a] + Pd!Period(a)
    BY DEF Pd!NotTooOften, Pd!Period, Pd!is_priority, Shape
  <2>1. a \in DOMAIN f \ Seeds /\ tried'[a] = f[a]
    BY <1>1 DEF Pd!Tells
  <2>2. PICK l \in {p'.white, p'.gray} : a \in DOMAIN l /\ t = l[a].next
    BY DEF Pd!NextOf, Shape
  <2>3. l[a].ban_until = 0
    BY <1>1, <2>2 DEF Pd!Tells
  <2>4. t # 0
    <3> SUFFICES ASSUME t = 0
                 PROVE  FALSE
      OBVIOUS
    <3>1. \A k \in {p'.white, p'.gray, p'.excl} : a \in DOMAIN k => k = l
      BY <2>1, <2>2 DEF Shape
    <3>2. {k \in {p'.white, p'.gray, p'.excl} : a \in DOMAIN k} = {l}
      BY <2>2, <3>1
    <3>3. Pd!NextOf(p', a) = {0}
      BY <2>2, <3>2 DEF Pd!NextOf
    <3> QED BY <1>1, <3>3 DEF Pd!Tells
  <2> QED BY <2>1, <2>2, <2>3, <2>4 DEF Spaced
<1> QED BY <1>2, <1>3

LEMMA SpacedNow ==
  ASSUME PdInv
  PROVE  Spaced(p, tried)
<1> SUFFICES ASSUME NEW a \in DOMAIN tried \ Seeds, NEW l \in {p.white, p.gray}, a \in DOMAIN l
             PROVE  l[a].next >= tried[a] + Pd!Period(a)
  BY DEF Spaced
<1>1. l[a].next \in Pd!NextOf(p, a)
  BY DEF Pd!NextOf
<1>2. a \notin DOMAIN p.excl
  BY DEF PdInv, Shape
<1> QED BY <1>1, <1>2 DEF PdInv, Pd!NotTooOften

LEMMA PdInvNext ==
  ASSUME PdInv, Pd!PeerNext
  PROVE  PdInv'
<1>1. now \in Nat /\ now >= 1 /\ Shape(p) /\ BansKept(p) /\ Past(tried) /\ Spaced(p, tried)
  BY SpacedNow DEF PdInv
<1>2. CASE Pd!Handle /\ tried' = Pd!Told(tried)
  <2>1. Shape(p') /\ ((Changed(p, p') /\ now' = now) \/ (p' = p /\ now' = now + 1))
    BY <1>2, HandleKeeps
  <2>2. CASE Changed(p, p') /\ now' = now
    <3>1. BansKept(p') /\ Spaced(p', tried)
      BY <1>1, <2>1, <2>2, ChangedBans, ChangedSpaced
    <3>2. BansKept(p)'
      BY <2>2, <3>1 DEF BansKept, BanKept
    <3>3. Past(tried)' /\ Pd!NotTooOften'
      BY <1>1, <1>2, <2>1, <2>2, <3>1, ToldSpaced
    <3> QED BY <1>1, <2>1, <2>2, <3>2, <3>3 DEF PdInv, Shape
  <2>3. CASE p' = p /\ now' = now + 1
    <3>1. now' \in Nat /\ now <= now' /\ now' >= 1
      BY <1>1, <2>3
    <3>2. BansKept(p)'
      <4>1. \A l \in {p.white, p.gray} : \A a \in DOMAIN l :
              BanKept(a, l[a]) /\ l[a].ban_until \in Nat /\ Delay(a) \in Nat
        <5>1. p.white \in Lists /\ p.gray \in Lists
          BY <1>1 DEF Shape, Book
        <5> QED BY <1>1, <5>1, EntryOf, Periods DEF BansKept, Entry
      <4>2. \A l \in {p.white, p.gray} : \A a \in DOMAIN l : BanKept(a, l[a])'
        BY <1>1, <2>3, <4>1 DEF BanKept
      <4> QED BY <2>3, <4>2 DEF BansKept
    <3>3. Past(tried)' /\ Pd!NotTooOften'
      <4>1. Spaced(p', tried)
        BY <1>1, <2>3
      <4> QED BY <1>1, <1>2, <2>1, <3>1, <4>1, ToldSpaced
    <3> QED BY <2>1, <3>1, <3>2, <3>3 DEF PdInv, Shape
  <2> QED BY <2>1, <2>2, <2>3
<1>3. ASSUME NEW connected, NEW a, Pd!Pick(connected, a), tried' = Pd!Told(Pd!Put(tried, a, now)), now' = now
      PROVE  PdInv'
  <2> DEFINE f == Pd!Put(tried, a, now)
  <2>1. /\ Shape(p') /\ Changed(p, p')
        /\ a \notin Seeds => \A l \in {p.white', p.gray'} : a \in DOMAIN l => l[a].next = now + Pd!Period(a)
    BY <1>1, <1>3, PickKeeps
  <2>2. BansKept(p') /\ Spaced(p', tried)
    BY <1>1, <2>1, ChangedBans, ChangedSpaced
  <2>3. BansKept(p)'
    BY <1>3, <2>2 DEF BansKept, BanKept
  <2>4. /\ DOMAIN f = {a} \cup DOMAIN tried /\ f[a] = now
        /\ \A b \in DOMAIN tried \ {a} : f[b] = tried[b]
    BY DEF Pd!Put, Pd!Over
  <2> HIDE DEF f
  <2>5. Past(f)
    BY <1>1, <2>4 DEF Past
  <2>6. Spaced(p', f)
    <3> SUFFICES ASSUME NEW b \in DOMAIN f \ Seeds, NEW l \in {p'.white, p'.gray},
                        b \in DOMAIN l, l[b].ban_until = 0, l[b].next # 0
                 PROVE  l[b].next >= f[b] + Pd!Period(b)
      BY DEF Spaced
    <3>1. CASE b = a
      <4>1. l[b].next = now + Pd!Period(b) /\ f[b] = now /\ Pd!Period(b) \in Nat
        BY <2>1, <2>4, <3>1, Periods
      <4> QED BY <1>1, <4>1
    <3>2. CASE b # a
      BY <2>2, <2>4, <3>2 DEF Spaced
    <3> QED BY <3>1, <3>2
  <2>7. Past(tried)' /\ Pd!NotTooOften'
    <3>1. tried' = Pd!Told(f)
      BY <1>3 DEF f
    <3>2. now' \in Nat /\ now <= now'
      BY <1>1, <1>3
    <3> QED BY <1>1, <2>1, <2>5, <2>6, <3>1, <3>2, ToldSpaced
  <2> QED BY <1>1, <1>3, <2>1, <2>3, <2>7 DEF PdInv, Shape
<1> QED BY <1>2, <1>3 DEF Pd!PeerNext

LEMMA PdInvInit ==
  ASSUME Init, DOMAIN p.excl = {}
  PROVE  PdInv
<1> DEFINE seeds == [a \in Seeds |-> NewEntry]
<1>1. PICK exclusive \in {{}, Exclusive} : PeerInit(exclusive)
  BY DEF Init
<1>2. /\ p = [white |-> Over(<<>>, seeds), gray |-> <<>>, excl |-> [a \in exclusive |-> NewEntry],
              dbw |-> <<>>, dbg |-> <<>>]
      /\ now = 1 /\ tried = <<>>
  BY <1>1 DEF PeerInit, Opened
<1>3. <<>> \in Lists /\ DOMAIN <<>> = {}
  <2>1. <<>> \in [{} -> Entry] /\ DOMAIN <<>> = {}
    OBVIOUS
  <2> QED BY <2>1 DEF Lists
<1>4. NewEntry = Pd!NewEntry
  BY DEF NewEntry, Pd!NewEntry
<1>5. NewEntry \in Entry /\ \A a : Good(a, NewEntry)
  BY <1>2, <1>4, NewEntryGood
<1>6. Over(<<>>, seeds) = seeds
  BY <1>3 DEF Over
<1>7. seeds \in Lists /\ DOMAIN seeds = Seeds /\ \A a \in Seeds : seeds[a] = NewEntry
  <2>1. seeds \in [DOMAIN seeds -> Entry] /\ DOMAIN seeds \subseteq PdAddr
    BY <1>5, PeersAssumption DEF Pd!PeerAssumption
  <2>2. DOMAIN seeds = Seeds /\ \A a \in Seeds : seeds[a] = NewEntry
    OBVIOUS
  <2> HIDE DEF seeds
  <2> QED BY <2>1, <2>2, ListIs
<1> HIDE DEF seeds
<1>8. p.white = seeds /\ p.gray = <<>> /\ p.dbw = <<>> /\ p.dbg = <<>>
  BY <1>2, <1>6
<1>9. p.excl = [a \in {} |-> NewEntry] /\ [a \in {} |-> NewEntry] \in Lists
  <2>1. p.excl = [a \in exclusive |-> NewEntry] /\ exclusive = {}
    BY <1>2
  <2>2. [a \in {} |-> NewEntry] \in [{} -> Entry]
    OBVIOUS
  <2> QED BY <2>1, <2>2 DEF Lists
<1>10. Shape(p)
  <2>1. p \in Book
    BY <1>2, <1>3, <1>6, <1>7, <1>9 DEF Book
  <2> QED BY <1>3, <1>7, <1>8, <2>1 DEF Shape
<1>11. BansKept(p)
  BY <1>3, <1>5, <1>7, <1>8 DEF BansKept, Good
<1>12. Past(tried) /\ Pd!NotTooOften
  BY <1>2, <1>3 DEF Past, Pd!NotTooOften
<1> QED BY <1>2, <1>10, <1>11, <1>12 DEF PdInv

\* What get_peerlist_to_p2p tells is not banned: unban has lifted the bans that
\* ended, and the entries behind the others are not looked at.
LEMMA SharedSound ==
  ASSUME PdInv
  PROVE  Pd!SharedList
<1> DEFINE q == Pd!unban(p)
<1>1. /\ now \in Nat /\ now >= 1 /\ Shape(p) /\ p.white \in Lists
      /\ Shape(q) /\ DOMAIN q.white = DOMAIN p.white
      /\ \A b \in DOMAIN p.white : \/ q.white[b] = p.white[b]
                                   \/ Pd!Due(p.white[b].ban_until, p.white[b].last_seen, now)
  BY UnbanKeeps DEF PdInv, Shape, Book
<1> HIDE DEF q
<1> SUFFICES ASSUME NEW a \in PdAddr, NEW b \in Pd!Shareable(q, a[1])
             PROVE  PdNetwork[b[1]] \in {0, PdNetwork[a[1]]} /\ p.white[b].ban_until <= now
  BY DEF Pd!SharedList, q
<1>2. /\ b \in DOMAIN q.white /\ b \notin Pd!Banned(q.white)
      /\ PdNetwork[b[1]] \in {0, PdNetwork[a[1]]}
  BY DEF Pd!Shareable
<1>3. p.white[b].ban_until \in Nat /\ p.white[b].last_seen \in Nat
  BY <1>1, <1>2, EntryOf DEF Entry
<1>4. CASE q.white[b] = p.white[b]
  <2>1. Pd!Due(p.white[b].ban_until, p.white[b].last_seen, 1)
    BY <1>2, <1>4 DEF Pd!Banned
  <2> QED BY <1>1, <1>2, <1>3, <2>1 DEF Pd!Due, Pd!Before
<1>5. CASE Pd!Due(p.white[b].ban_until, p.white[b].last_seen, now)
  BY <1>1, <1>2, <1>3, <1>5 DEF Pd!Due, Pd!Before
<1> QED BY <1>1, <1>2, <1>4, <1>5

LEMMA PdInvSuffices ==
  ASSUME PdInv
  PROVE  Pd!ListsStored /\ Pd!OneList /\ Pd!NotTooOften /\ Pd!BansHold /\ Pd!SharedList
<1>1. Pd!ListsStored /\ Pd!OneList
  BY DEF PdInv, Shape, Pd!ListsStored, Pd!OneList
<1>2. Pd!BansHold
  BY DEF PdInv, Shape, BansKept, BanKept, Pd!BansHold
<1> QED BY <1>1, <1>2, SharedSound DEF PdInv

\* In whatever order PeerDB is called, with restarts in between: what is in memory
\* is in the data base, an address is in one list, peers are not tried too often, a
\* banned one is not tried before its ban ends, and only addresses that may be told
\* are told.
THEOREM PeersAlwaysSound == MCSpec => []PeersSound
<1> DEFINE Inv == part = "peers" => PdInv
<1>1. MCInit => Inv
  BY PdInvInit DEF MCInit
<1>2. Inv /\ [MCNext]_all => Inv'
  <2> SUFFICES ASSUME Inv, [MCNext]_all, part' = "peers"
               PROVE  PdInv'
    OBVIOUS
  <2>1. CASE part \in {"connections", "cursors"} /\ UNCHANGED part
    BY <2>1
  <2>2. CASE part = "peers" /\ Pd!PeerNext /\ UNCHANGED part
    BY <2>2, PdInvNext
  <2>3. CASE UNCHANGED <<part, vars>>
    <3>1. p' = p /\ now' = now /\ tried' = tried /\ part' = part
      BY <2>3 DEF vars, peer_vars
    <3> QED BY <3>1 DEF PdInv, Shape, BansKept, BanKept, Past, Pd!NotTooOften, Pd!NextOf
  <2> QED BY <2>1, <2>2, <2>3 DEF MCNext, all
<1>3. Inv => PeersSound
  BY PdInvSuffices DEF PeersSound
<1> HIDE DEF Inv
<1> QED BY <1>1, <1>2, <1>3, PTL DEF MCSpec

--------------------------------------------------------------------------------
(***************************************************************************)
(* Cursors.  Byte strings are totally ordered: of two different ones there *)
(* is a place where the lesser ends or has the lesser byte, and before     *)
(* which they agree.                                                       *)
(***************************************************************************)
Bytes == Seq(0 .. KvFF)

Parts(a, b, i) ==
  /\ i \in Nat \ {0} /\ i <= Len(b) /\ i <= Len(a) + 1
  /\ i <= Len(a) => a[i] < b[i]
  /\ \A j \in Nat \ {0} : j < i => a[j] = b[j]

LEMMA ElementOf ==
  ASSUME NEW S, NEW a \in Seq(S), NEW n \in Nat \ {0}, n <= Len(a)
  PROVE  a[n] \in S
OBVIOUS

LEMMA ByteOf ==
  ASSUME NEW a \in Bytes, NEW n \in Nat \ {0}, n <= Len(a)
  PROVE  a[n] \in Int
<1> DEFINE S == 0 .. KvFF
<1>1. a \in Seq(S) /\ \A x \in S : x \in Int
  BY DEF Bytes
<1> HIDE DEF S
<1>2. a[n] \in S
  BY <1>1, ElementOf
<1> QED BY <1>1, <1>2

LEMMA LeastNatural ==
  ASSUME NEW T, T \subseteq Nat, T # {}
  PROVE  \E m \in T : \A n \in T : m <= n
<1> DEFINE R == {ss \in Nat \X Nat : ss[1] < ss[2]}
<1>1. IsWellFoundedOn(R, Nat)
  BY NatLessThanWellFounded DEF OpToRel
<1>2. PICK m \in T : \A n \in T : ~(<<n, m>> \in R)
  <2> HIDE DEF R
  <2> QED BY <1>1, WFMin
<1>3. \A n \in T : ~(n < m)
  BY <1>2
<1> QED BY <1>3

LEMMA PrefixAgrees ==
  ASSUME NEW a \in Bytes, NEW b \in Bytes
  PROVE  Kv!IsPrefix(a, b) <=> /\ Len(a) <= Len(b)
                               /\ \A j \in Nat \ {0} : j <= Len(a) => a[j] = b[j]
<1>1. Len(a) \in Nat /\ Len(b) \in Nat
  BY DEF Bytes
<1>2. ASSUME Kv!IsPrefix(a, b), NEW j \in Nat \ {0}, j <= Len(a)
      PROVE  a[j] = b[j]
  <2>1. Len(a) <= Len(b) /\ SubSeq(a, 1, Len(a)) = SubSeq(b, 1, Len(a))
    BY <1>2 DEF Kv!IsPrefix
  <2>2. SubSeq(a, 1, Len(a))[j] = a[j] /\ SubSeq(b, 1, Len(a))[j] = b[j]
    BY <1>1, <1>2, <2>1 DEF Bytes
  <2> QED BY <2>1, <2>2
<1>3. ASSUME Len(a) <= Len(b), \A j \in Nat \ {0} : j <= Len(a) => a[j] = b[j]
      PROVE  Kv!IsPrefix(a, b)
  <2>1. SubSeq(a, 1, Len(a)) = SubSeq(b, 1, Len(a))
    BY <1>1, <1>3 DEF Bytes
  <2> QED BY <1>3, <2>1 DEF Kv!IsPrefix
<1>4. Kv!IsPrefix(a, b) => Len(a) <= Len(b)
  BY DEF Kv!IsPrefix
<1> QED BY <1>2, <1>3, <1>4

LEMMA SameBytes ==
  ASSUME NEW a \in Bytes, NEW b \in Bytes, Len(a) = Len(b),
         \A j \in Nat \ {0} : j <= Len(a) => a[j] = b[j]
  PROVE  a = b
BY DEF Bytes

LEMMA BeforeParts ==
  ASSUME NEW a \in Bytes, NEW b \in Bytes
  PROVE  Kv!Before(a, b) <=> \E i \in Nat : Parts(a, b, i)
<1>1. Len(a) \in Nat /\ Len(b) \in Nat
  BY DEF Bytes
<1>2. ASSUME Kv!IsStrictPrefix(a, b)
      PROVE  Parts(a, b, Len(a) + 1)
  <2>1. Kv!IsPrefix(a, b) /\ a # b
    BY <1>2 DEF Kv!IsStrictPrefix
  <2>2. Len(a) <= Len(b) /\ \A j \in Nat \ {0} : j <= Len(a) => a[j] = b[j]
    BY <2>1, PrefixAgrees
  <2>3. Len(a) # Len(b)
    BY <2>1, <2>2, SameBytes
  <2> QED BY <1>1, <2>2, <2>3 DEF Parts
<1>3. ASSUME NEW i \in 1 .. Len(a), i <= Len(b), a[i] < b[i], \A j \in 1 .. i - 1 : a[j] = b[j]
      PROVE  Parts(a, b, i)
  BY <1>1, <1>3 DEF Parts
<1>4. ASSUME NEW i \in Nat, Parts(a, b, i)
      PROVE  Kv!Before(a, b)
  <2>1. CASE i <= Len(a)
    <3>1. /\ i \in 1 .. Len(a) /\ i <= Len(b) /\ a[i] < b[i]
          /\ \A j \in 1 .. i - 1 : a[j] = b[j]
      BY <1>1, <1>4, <2>1 DEF Parts
    <3> QED BY <3>1 DEF Kv!Before
  <2>2. CASE ~(i <= Len(a))
    <3>1. i = Len(a) + 1 /\ Len(a) < Len(b)
      BY <1>1, <1>4, <2>2 DEF Parts
    <3>2. \A j \in Nat \ {0} : j <= Len(a) => a[j] = b[j]
      BY <1>1, <1>4, <3>1 DEF Parts
    <3>3. Kv!IsPrefix(a, b) /\ a # b
      BY <1>1, <3>1, <3>2, PrefixAgrees
    <3> QED BY <3>3 DEF Kv!Before, Kv!IsStrictPrefix
  <2> QED BY <2>1, <2>2
<1>5. Kv!Before(a, b) => \E i \in Nat : Parts(a, b, i)
  <2> SUFFICES ASSUME Kv!Before(a, b) PROVE \E i \in Nat : Parts(a, b, i)
    OBVIOUS
  <2>1. CASE Kv!IsStrictPrefix(a, b)
    BY <1>1, <1>2, <2>1
  <2>2. CASE ~Kv!IsStrictPrefix(a, b)
    <3>1. PICK i \in 1 .. Len(a) : i <= Len(b) /\ a[i] < b[i] /\ \A j \in 1 .. i - 1 : a[j] = b[j]
      BY <2>2 DEF Kv!Before
    <3> QED BY <1>1, <1>3, <3>1
  <2> QED BY <2>1, <2>2
<1> QED BY <1>4, <1>5

LEMMA Irreflexive ==
  ASSUME NEW a \in Bytes
  PROVE  ~Kv!Before(a, a)
<1> SUFFICES ASSUME Kv!Before(a, a) PROVE FALSE
  OBVIOUS
<1>1. PICK i \in Nat : Parts(a, a, i)
  BY BeforeParts
<1>2. i \in Nat \ {0} /\ i <= Len(a) /\ a[i] < a[i]
  BY <1>1 DEF Parts
<1>3. a[i] \in Int
  BY <1>2, ByteOf
<1> QED BY <1>2, <1>3

LEMMA Transitive ==
  ASSUME NEW a \in Bytes, NEW b \in Bytes, NEW c \in Bytes,
         Kv!Before(a, b), Kv!Before(b, c)
  PROVE  Kv!Before(a, c)
<1>1. PICK i \in Nat : Parts(a, b, i)
  BY BeforeParts
<1>2. PICK k \in Nat : Parts(b, c, k)
  BY BeforeParts
<1>3. Len(a) \in Nat /\ Len(b) \in Nat /\ Len(c) \in Nat
  BY DEF Bytes
<1>4. \A n \in Nat \ {0} : /\ n <= Len(a) => a[n] \in Int
                           /\ n <= Len(b) => b[n] \in Int
                           /\ n <= Len(c) => c[n] \in Int
  BY ByteOf
<1>5. CASE i <= k
  <2>1. \A j \in Nat \ {0} : j < i => a[j] = c[j]
    BY <1>1, <1>2, <1>5 DEF Parts
  <2>2. i \in Nat \ {0} /\ i <= Len(b) /\ i <= Len(a) + 1 /\ i <= Len(c)
    BY <1>1, <1>2, <1>3, <1>5 DEF Parts
  <2>3. ASSUME i <= Len(a) PROVE a[i] < c[i]
    <3>1. a[i] < b[i] /\ a[i] \in Int /\ b[i] \in Int /\ c[i] \in Int
      BY <1>1, <1>4, <2>2, <2>3 DEF Parts
    <3>2. b[i] = c[i] \/ b[i] < c[i]
      BY <1>2, <1>5, <2>2 DEF Parts
    <3> QED BY <3>1, <3>2
  <2>4. Parts(a, c, i)
    BY <2>1, <2>2, <2>3 DEF Parts
  <2> QED BY <2>4, BeforeParts
<1>6. CASE k < i
  <2>1. \A j \in Nat \ {0} : j < k => a[j] = c[j]
    BY <1>1, <1>2, <1>6 DEF Parts
  <2>2. k \in Nat \ {0} /\ k <= Len(b) /\ k <= Len(a) /\ k <= Len(c)
    BY <1>1, <1>2, <1>3, <1>6 DEF Parts
  <2>3. a[k] = b[k] /\ b[k] < c[k]
    BY <1>1, <1>2, <1>6, <2>2 DEF Parts
  <2>4. Parts(a, c, k)
    BY <1>3, <2>1, <2>2, <2>3 DEF Parts
  <2> QED BY <2>4, BeforeParts
<1> QED BY <1>5, <1>6

LEMMA Total ==
  ASSUME NEW a \in Bytes, NEW b \in Bytes, a # b
  PROVE  Kv!Before(a, b) \/ Kv!Before(b, a)
<1> DEFINE T == {n \in Nat \ {0} : n > Len(a) \/ n > Len(b) \/ a[n] # b[n]}
<1>1. Len(a) \in Nat /\ Len(b) \in Nat
  BY DEF Bytes
<1>2. T # {} /\ T \subseteq Nat
  <2>1. Len(a) + 1 \in T
    BY <1>1
  <2> QED BY <2>1
<1>3. PICK i \in T : \A n \in T : i <= n
  <2> HIDE DEF T
  <2> QED BY <1>2, LeastNatural
<1>4. i \in Nat \ {0}
  OBVIOUS
<1>5. \A j \in Nat \ {0} : j < i => j <= Len(a) /\ j <= Len(b) /\ a[j] = b[j]
  <2> SUFFICES ASSUME NEW j \in Nat \ {0}, j < i
               PROVE  j <= Len(a) /\ j <= Len(b) /\ a[j] = b[j]
    OBVIOUS
  <2>1. j \notin T
    BY <1>3, <1>4
  <2> QED BY <1>1, <2>1
<1>6. i <= Len(a) + 1 /\ i <= Len(b) + 1
  <2>1. i = 1 \/ (i - 1 \in Nat \ {0} /\ i - 1 < i)
    BY <1>4
  <2> QED BY <1>1, <1>4, <1>5, <2>1
<1>7. CASE i <= Len(a) /\ i <= Len(b)
  <2>1. a[i] # b[i]
    BY <1>1, <1>4, <1>7
  <2>2. a[i] \in Int /\ b[i] \in Int
    BY <1>4, <1>7, ByteOf
  <2>3. CASE a[i] < b[i]
    <3>1. Parts(a, b, i)
      BY <1>4, <1>5, <1>6, <1>7, <2>3 DEF Parts
    <3> QED BY <1>4, <3>1, BeforeParts
  <2>4. CASE b[i] < a[i]
    <3>1. Parts(b, a, i)
      BY <1>4, <1>5, <1>6, <1>7, <2>4 DEF Parts
    <3> QED BY <1>4, <3>1, BeforeParts
  <2> QED BY <2>1, <2>2, <2>3, <2>4
<1>8. CASE ~(i <= Len(a)) /\ i <= Len(b)
  <2>1. Parts(a, b, i)
    BY <1>4, <1>5, <1>6, <1>8 DEF Parts
  <2> QED BY <1>4, <2>1, BeforeParts
<1>9. CASE ~(i <= Len(b)) /\ i <= Len(a)
  <2>1. Parts(b, a, i)
    BY <1>4, <1>5, <1>6, <1>9 DEF Parts
  <2> QED BY <1>4, <2>1, BeforeParts
<1>10. CASE ~(i <= Len(b)) /\ ~(i <= Len(a))
  <2>1. Len(a) = Len(b) /\ i = Len(a) + 1
    BY <1>1, <1>4, <1>6, <1>10
  <2>2. \A j \in Nat \ {0} : j <= Len(a) => a[j] = b[j]
    BY <1>1, <1>5, <2>1
  <2> QED BY <2>1, <2>2, SameBytes
<1> QED BY <1>7, <1>8, <1>9, <1>10

\* What lies between two strings with a prefix has it too.
LEMMA Between ==
  ASSUME NEW a \in Bytes, NEW b \in Bytes, NEW c \in Bytes, NEW pre \in Bytes,
         Kv!NotAfter(a, b), Kv!NotAfter(b, c), Kv!IsPrefix(pre, a), Kv!IsPrefix(pre, c)
  PROVE  Kv!IsPrefix(pre, b)
<1>1. /\ Len(pre) <= Len(a) /\ \A j \in Nat \ {0} : j <= Len(pre) => pre[j] = a[j]
      /\ Len(pre) <= Len(c) /\ \A j \in Nat \ {0} : j <= Len(pre) => pre[j] = c[j]
  BY PrefixAgrees
<1>2. CASE a = b \/ b = c
  BY <1>2
<1>3. CASE Kv!Before(a, b) /\ Kv!Before(b, c)
  <2>1. PICK i \in Nat : Parts(a, b, i)
    BY <1>3, BeforeParts
  <2>2. PICK k \in Nat : Parts(b, c, k)
    BY <1>3, BeforeParts
  <2>3. Len(a) \in Nat /\ Len(b) \in Nat /\ Len(c) \in Nat /\ Len(pre) \in Nat
    BY DEF Bytes
  <2>4. \A n \in Nat \ {0} : /\ n <= Len(a) => a[n] \in Int
                             /\ n <= Len(b) => b[n] \in Int
                             /\ n <= Len(c) => c[n] \in Int
    BY ByteOf
  <2>5. i > Len(pre)
    <3> SUFFICES ASSUME i <= Len(pre) PROVE FALSE
      BY <2>3
    <3>1. i \in Nat \ {0} /\ i <= Len(a) /\ i <= Len(b) /\ i <= Len(c) /\ a[i] = c[i] /\ a[i] < b[i]
      BY <1>1, <2>1, <2>3 DEF Parts
    <3>2. a[i] \in Int /\ b[i] \in Int
      BY <2>4, <3>1
    <3>3. CASE i < k
      <4>1. b[i] = c[i]
        BY <2>2, <3>1, <3>3 DEF Parts
      <4> QED BY <3>1, <3>2, <4>1
    <3>4. CASE i = k
      <4>1. b[i] < c[i]
        BY <2>2, <3>1, <3>4 DEF Parts
      <4> QED BY <3>1, <3>2, <4>1
    <3>5. CASE k < i
      <4>1. k \in Nat \ {0} /\ k <= Len(b) /\ b[k] < c[k] /\ a[k] = b[k] /\ a[k] = c[k]
        BY <1>1, <2>1, <2>2, <2>3, <3>1, <3>5 DEF Parts
      <4>2. b[k] \in Int
        BY <2>4, <4>1
      <4> QED BY <4>1, <4>2
    <3> QED BY <3>3, <3>4, <3>5
  <2>6. Len(pre) <= Len(b)
    BY <2>1, <2>3, <2>5 DEF Parts
  <2>7. \A j \in Nat \ {0} : j <= Len(pre) => pre[j] = b[j]
    BY <1>1, <2>1, <2>3, <2>5 DEF Parts
  <2> QED BY <2>6, <2>7, PrefixAgrees
<1> QED BY <1>2, <1>3 DEF Kv!NotAfter

(***************************************************************************)
(* The first key of a set in the direction of a cursor, and that each of   *)
(* the ways to look for it finds it.                                       *)
(***************************************************************************)
Stands(k, T, forward) ==
  IF T = {} THEN k = Kv!NoKey
  ELSE k \in T /\ \A o \in T : o = k \/ Kv!Ahead(k, o, forward)

LEMMA KeysAre ==
  /\ IsFiniteSet(KvKey) /\ KvKey \subseteq Bytes
  /\ \A k \in KvKey : Len(k) \in Nat /\ Len(k) > 0 /\ Len(k) < KvMaxKeySize /\ k # Kv!NoKey
  /\ \A s \in KvStart : s[1] \in Bytes /\ s[2] \in Bytes /\ s[1] \o s[2] \in Bytes
  /\ KvFF \in Nat /\ KvMaxKeySize \in Nat
<1>0. IsFiniteSet(KvKey)
  BY CursorAssumption DEF Kv!KeysFit, Kv!IsFiniteSet, IsFiniteSet
<1>1. /\ KvFF \in Nat /\ KvMaxKeySize \in Nat
      /\ KvKey \subseteq Bytes /\ KvStart \subseteq Bytes \X Bytes
      /\ \A k \in KvKey : Len(k) > 0 /\ Len(k) < KvMaxKeySize
  BY CursorAssumption DEF Kv!KeysFit, Kv!ByteSet, Bytes
<1>2. \A k \in KvKey : Len(k) \in Nat /\ k # Kv!NoKey
  BY <1>1 DEF Bytes, Kv!NoKey
<1>3. \A s \in KvStart : s[1] \in Bytes /\ s[2] \in Bytes /\ s[1] \o s[2] \in Bytes
  <2> TAKE s \in KvStart
  <2>1. s[1] \in Bytes /\ s[2] \in Bytes
    BY <1>1
  <2> QED BY <2>1 DEF Bytes
<1> QED BY <1>0, <1>1, <1>2, <1>3

LEMMA AheadOrders ==
  ASSUME NEW forward \in BOOLEAN, NEW a \in Bytes, NEW b \in Bytes, NEW c \in Bytes
  PROVE  /\ ~Kv!Ahead(a, a, forward)
         /\ Kv!Ahead(a, b, forward) /\ Kv!Ahead(b, c, forward) => Kv!Ahead(a, c, forward)
         /\ a # b => Kv!Ahead(a, b, forward) \/ Kv!Ahead(b, a, forward)
<1>1. ~Kv!Before(a, a)
  BY Irreflexive
<1>2. /\ Kv!Before(a, b) /\ Kv!Before(b, c) => Kv!Before(a, c)
      /\ Kv!Before(b, a) /\ Kv!Before(c, b) => Kv!Before(c, a)
  BY Transitive
<1>3. a # b => Kv!Before(a, b) \/ Kv!Before(b, a)
  BY Total
<1> QED BY <1>1, <1>2, <1>3 DEF Kv!Ahead

\* A finite set that is not empty has a first key in either direction: the one
\* that the fewest keys go before.
LEMMA FirstExists ==
  ASSUME NEW T, T \subseteq KvKey, T # {}, NEW forward \in BOOLEAN
  PROVE  \E k \in T : \A o \in T : o = k \/ Kv!Ahead(k, o, forward)
<1> DEFINE Earlier(k) == {o \in T : Kv!Ahead(o, k, forward)}
           N == {Cardinality(Earlier(k)) : k \in T}
<1>1. IsFiniteSet(T) /\ T \subseteq Bytes
  BY KeysAre, FS_Subset
<1>2. \A k \in T : IsFiniteSet(Earlier(k)) /\ Cardinality(Earlier(k)) \in Nat
  <2> TAKE k \in T
  <2>1. Earlier(k) \subseteq T
    OBVIOUS
  <2> HIDE DEF Earlier
  <2> QED BY <1>1, <2>1, FS_Subset, FS_CardinalityType
<1>3. N \subseteq Nat /\ N # {}
  <2> HIDE DEF Earlier
  <2> QED BY <1>2
<1>4. PICK n \in N : \A m \in N : n <= m
  <2> HIDE DEF N
  <2> QED BY <1>3, LeastNatural
<1>5. PICK k \in T : n = Cardinality(Earlier(k))
  OBVIOUS
<1>6. ASSUME NEW o \in T, o # k, ~Kv!Ahead(k, o, forward)
      PROVE  FALSE
  <2>1. Kv!Ahead(o, k, forward)
    BY <1>1, <1>6, AheadOrders
  <2>2. Earlier(o) \subseteq Earlier(k)
    <3> SUFFICES ASSUME NEW x \in T, Kv!Ahead(x, o, forward) PROVE Kv!Ahead(x, k, forward)
      OBVIOUS
    <3> QED BY <1>1, <2>1, AheadOrders
  <2>3. o \in Earlier(k) /\ o \notin Earlier(o)
    BY <1>1, <2>1, AheadOrders
  <2>4. Cardinality(Earlier(o)) \in N
    OBVIOUS
  <2> HIDE DEF Earlier, N
  <2>5. Cardinality(Earlier(o)) < Cardinality(Earlier(k))
    BY <1>2, <2>2, <2>3, FS_Subset
  <2> QED BY <1>2, <1>4, <1>5, <2>4, <2>5
<1> QED BY <1>6

LEMMA LeastStands ==
  ASSUME NEW T, T \subseteq KvKey
  PROVE  Stands(Kv!Least(T), T, TRUE)
<1>1. CASE T = {}
  BY <1>1 DEF Stands, Kv!Least
<1>2. CASE T # {}
  <2>1. \E k \in T : \A o \in T : o = k \/ Kv!Ahead(k, o, TRUE)
    BY <1>2, FirstExists
  <2>2. \E k \in T : \A o \in T : Kv!NotAfter(k, o)
    BY <2>1 DEF Kv!Ahead, Kv!NotAfter
  <2>3. Kv!Least(T) \in T /\ \A o \in T : Kv!NotAfter(Kv!Least(T), o)
    BY <1>2, <2>2 DEF Kv!Least
  <2> QED BY <1>2, <2>3 DEF Stands, Kv!Ahead, Kv!NotAfter
<1> QED BY <1>1, <1>2

LEMMA GreatestStands ==
  ASSUME NEW T, T \subseteq KvKey
  PROVE  Stands(Kv!Greatest(T), T, FALSE)
<1>1. CASE T = {}
  BY <1>1 DEF Stands, Kv!Greatest
<1>2. CASE T # {}
  <2>1. \E k \in T : \A o \in T : o = k \/ Kv!Ahead(k, o, FALSE)
    BY <1>2, FirstExists
  <2>2. \E k \in T : \A o \in T : Kv!NotAfter(o, k)
    BY <2>1 DEF Kv!Ahead, Kv!NotAfter
  <2>3. Kv!Greatest(T) \in T /\ \A o \in T : Kv!NotAfter(o, Kv!Greatest(T))
    BY <1>2, <2>2 DEF Kv!Greatest
  <2> QED BY <1>2, <2>3 DEF Stands, Kv!Ahead, Kv!NotAfter
<1> QED BY <1>1, <1>2

\* mdb_cursor_get with MDB_NEXT or MDB_PREV.
LEMMA NeighbourStands ==
  ASSUME NEW T, T \subseteq KvKey, NEW at, NEW forward \in BOOLEAN
  PROVE  Stands(IF forward THEN Kv!MDB_NEXT(T, at) ELSE Kv!MDB_PREV(T, at),
                {o \in T : Kv!Ahead(at, o, forward)}, forward)
<1>1. Stands(Kv!MDB_NEXT(T, at), {o \in T : Kv!Before(at, o)}, TRUE)
  BY LeastStands DEF Kv!MDB_NEXT
<1>2. Stands(Kv!MDB_PREV(T, at), {o \in T : Kv!Before(o, at)}, FALSE)
  BY GreatestStands DEF Kv!MDB_PREV
<1>3. CASE forward
  BY <1>1, <1>3 DEF Kv!Ahead
<1>4. CASE ~forward
  BY <1>2, <1>4 DEF Kv!Ahead
<1> QED BY <1>3, <1>4

\* The key after an erased one, with either library.
LEMMA ErasedStands ==
  ASSUME NEW T, T \subseteq KvKey, NEW at, at \notin T, NEW forward \in BOOLEAN
  PROVE  Stands(Kv!erased_next(at, T, forward), {o \in T : Kv!Ahead(at, o, forward)}, forward)
<1>1. CASE kv_db = "sqlite"
  <2>1. {o \in T : Kv!NotAfter(at, o)} = {o \in T : Kv!Ahead(at, o, TRUE)}
    BY DEF Kv!NotAfter, Kv!Ahead
  <2>2. {o \in T : Kv!NotAfter(o, at)} = {o \in T : Kv!Ahead(at, o, FALSE)}
    BY DEF Kv!NotAfter, Kv!Ahead
  <2>3. Stands(Kv!Least({o \in T : Kv!NotAfter(at, o)}), {o \in T : Kv!NotAfter(at, o)}, TRUE)
    BY LeastStands
  <2>4. Stands(Kv!Greatest({o \in T : Kv!NotAfter(o, at)}), {o \in T : Kv!NotAfter(o, at)}, FALSE)
    BY GreatestStands
  <2>5. CASE forward
    BY <1>1, <2>1, <2>3, <2>5 DEF Kv!erased_next, Kv!sqlite_select
  <2>6. CASE ~forward
    BY <1>1, <2>2, <2>4, <2>6 DEF Kv!erased_next, Kv!sqlite_select
  <2> QED BY <2>5, <2>6
<1>2. CASE kv_db # "sqlite"
  BY <1>2, NeighbourStands DEF Kv!erased_next
<1> QED BY <1>1, <1>2

\* The keys from the start of a cursor on, and the start of a backward one: no key
\* is as long as the padded start, which is behind the keys up to and under the
\* start and before the others.
FromStart(k, start, forward) ==
  IF forward THEN Kv!NotAfter(start, k) ELSE Kv!Before(k, start) \/ Kv!IsPrefix(start, k)

LEMMA PaddedIs ==
  ASSUME NEW start \in Bytes
  PROVE  /\ Kv!padded(start) \in Bytes
         /\ Len(Kv!padded(start)) >= KvMaxKeySize /\ Len(Kv!padded(start)) >= Len(start)
         /\ \A j \in Nat \ {0} : /\ j <= Len(start) => Kv!padded(start)[j] = start[j]
                                 /\ j > Len(start) /\ j <= Len(Kv!padded(start)) => Kv!padded(start)[j] = KvFF
<1> DEFINE n == KvMaxKeySize - Len(start)
           tail == [i \in 1 .. n |-> KvFF]
<1>1. Len(start) \in Nat /\ KvMaxKeySize \in Nat /\ KvFF \in Nat /\ KvFF \in 0 .. KvFF
  BY KeysAre DEF Bytes
<1>2. CASE n >= 0
  <2>1. tail \in Bytes /\ Len(tail) = n
    BY <1>1, <1>2 DEF Bytes
  <2>2. \A i \in 1 .. n : tail[i] = KvFF
    OBVIOUS
  <2>3. n \in Nat
    BY <1>1, <1>2
  <2>4. Kv!padded(start) = start \o tail
    BY DEF Kv!padded
  <2> HIDE DEF tail
  <2>5. start \o tail \in Bytes /\ Len(start \o tail) = Len(start) + n
    BY <2>1 DEF Bytes
  <2>6. \A j \in 1 .. Len(start) + n : (start \o tail)[j] = IF j <= Len(start) THEN start[j] ELSE tail[j - Len(start)]
    BY <1>1, <2>1, <2>3 DEF Bytes
  <2>7. ASSUME NEW j \in Nat \ {0}, j > Len(start), j <= Len(start) + n
        PROVE  (start \o tail)[j] = KvFF
    <3>1. j - Len(start) \in 1 .. n /\ j \in 1 .. Len(start) + n
      BY <1>1, <2>3, <2>7
    <3>2. (start \o tail)[j] = tail[j - Len(start)]
      <4>1. ~(j <= Len(start))
        BY <1>1, <2>7
      <4> QED BY <2>6, <3>1, <4>1
    <3> QED BY <2>2, <3>1, <3>2
  <2>8. ASSUME NEW j \in Nat \ {0}, j <= Len(start)
        PROVE  (start \o tail)[j] = start[j]
    BY <1>1, <2>3, <2>6, <2>8
  <2> QED BY <1>1, <2>3, <2>4, <2>5, <2>7, <2>8
<1>3. CASE n < 0
  <2>1. tail = <<>>
    BY <1>1, <1>3
  <2>2. Kv!padded(start) = start \o <<>>
    BY <2>1 DEF Kv!padded
  <2>3. start \o <<>> = start
    BY DEF Bytes
  <2> QED BY <1>1, <1>3, <2>2, <2>3
<1> QED BY <1>1, <1>2, <1>3

LEMMA PaddedBounds ==
  ASSUME NEW start \in Bytes, NEW k \in KvKey
  PROVE  /\ k # Kv!padded(start)
         /\ Kv!Before(k, Kv!padded(start)) <=> Kv!Before(k, start) \/ Kv!IsPrefix(start, k)
<1> DEFINE pad == Kv!padded(start)
<1>1. /\ pad \in Bytes /\ Len(pad) >= KvMaxKeySize /\ Len(pad) >= Len(start)
      /\ \A j \in Nat \ {0} : /\ j <= Len(start) => pad[j] = start[j]
                              /\ j > Len(start) /\ j <= Len(pad) => pad[j] = KvFF
  BY PaddedIs
<1> HIDE DEF pad
<1>2. k \in Bytes /\ Len(k) \in Nat /\ Len(pad) \in Nat /\ Len(start) \in Nat /\ KvMaxKeySize \in Nat /\ Len(k) < KvMaxKeySize
  BY <1>1, KeysAre DEF Bytes
<1>3. Len(k) < Len(pad)
  BY <1>1, <1>2
<1>4. k # pad
  BY <1>2, <1>3
<1>5. Kv!IsPrefix(start, pad)
  BY <1>1, PrefixAgrees
<1>6. ASSUME Kv!Before(k, start)
      PROVE  Kv!Before(k, pad)
  <2>1. CASE start = pad
    BY <1>6, <2>1
  <2>2. CASE start # pad
    <3>1. Kv!Before(start, pad)
      BY <1>5, <2>2 DEF Kv!Before, Kv!IsStrictPrefix
    <3> QED BY <1>1, <1>2, <1>6, <3>1, Transitive
  <2> QED BY <2>1, <2>2
<1>7. ASSUME Kv!IsPrefix(start, k)
      PROVE  Kv!Before(k, pad)
  <2>1. /\ Len(start) <= Len(k) /\ \A j \in Nat \ {0} : j <= Len(start) => start[j] = k[j]
    BY <1>2, <1>7, PrefixAgrees
  <2>2. SUFFICES ASSUME ~Kv!Before(k, pad) PROVE FALSE
    OBVIOUS
  <2>3. PICK i \in Nat : Parts(pad, k, i)
    BY <1>1, <1>2, <1>4, <2>2, Total, BeforeParts
  <2>4. i \in Nat \ {0} /\ i <= Len(k) /\ i <= Len(pad) /\ pad[i] < k[i]
    BY <1>2, <1>3, <2>3 DEF Parts
  <2>5. CASE i <= Len(start)
    <3>1. pad[i] = k[i] /\ k[i] \in Int
      BY <1>1, <1>2, <2>1, <2>4, <2>5, ByteOf
    <3> QED BY <2>4, <3>1
  <2>6. CASE i > Len(start)
    <3>1. pad[i] = KvFF
      BY <1>1, <2>4, <2>6
    <3>2. k[i] \in 0 .. KvFF
      <4> DEFINE S == 0 .. KvFF
      <4>1. k \in Seq(S)
        BY <1>2 DEF Bytes
      <4> HIDE DEF S
      <4>2. k[i] \in S
        BY <2>4, <4>1, ElementOf
      <4> QED BY <4>2 DEF S
    <3> QED BY <2>4, <3>1, <3>2, KeysAre
  <2> QED BY <1>2, <2>4, <2>5, <2>6
<1>8. ASSUME Kv!Before(k, pad), ~Kv!Before(k, start), ~Kv!IsPrefix(start, k)
      PROVE  FALSE
  <2>1. k # start
    BY <1>2, <1>8, PrefixAgrees
  <2>2. Kv!Before(start, k)
    BY <1>2, <1>8, <2>1, Total
  <2>3. Kv!IsPrefix(start, start)
    BY PrefixAgrees
  <2>4. Kv!IsPrefix(start, k)
    BY <1>1, <1>2, <1>5, <1>8, <2>2, <2>3, Between DEF Kv!NotAfter
  <2> QED BY <1>8, <2>4
<1> QED BY <1>4, <1>6, <1>7, <1>8 DEF pad

LEMMA EmptyStart ==
  ASSUME NEW k \in KvKey, NEW forward \in BOOLEAN
  PROVE  FromStart(k, <<>>, forward)
<1>1. k \in Bytes /\ Len(k) \in Nat /\ k # <<>>
  BY KeysAre DEF Kv!NoKey
<1>2. <<>> \in Bytes /\ Len(<<>>) = 0
  BY DEF Bytes
<1>3. Kv!IsPrefix(<<>>, k)
  BY <1>1, <1>2, PrefixAgrees
<1> QED BY <1>1, <1>3 DEF FromStart, Kv!NotAfter, Kv!Before, Kv!IsStrictPrefix

LEMMA OpenStands ==
  ASSUME kv_table \subseteq KvKey, NEW start \in Bytes, NEW forward \in BOOLEAN
  PROVE  /\ Stands(Kv!lmdb_open(start, forward), {o \in kv_table : FromStart(o, start, forward)}, forward)
         /\ Stands(Kv!sqlite_open(start, forward), {o \in kv_table : FromStart(o, start, forward)}, forward)
<1> DEFINE pad == Kv!padded(start)
<1>1. /\ \A o \in kv_table : o \in Bytes /\ o # pad
      /\ \A o \in kv_table : Kv!Before(o, pad) <=> FromStart(o, start, FALSE)
  BY KeysAre, PaddedBounds DEF FromStart
<1>2. pad \in Bytes
  BY PaddedIs
<1> HIDE DEF pad
<1>3. Stands(Kv!Least({o \in kv_table : FromStart(o, start, TRUE)}), {o \in kv_table : FromStart(o, start, TRUE)}, TRUE)
  BY LeastStands
<1>4. Stands(Kv!Greatest({o \in kv_table : FromStart(o, start, FALSE)}), {o \in kv_table : FromStart(o, start, FALSE)}, FALSE)
  BY GreatestStands
<1>5. {o \in kv_table : Kv!NotAfter(start, o)} = {o \in kv_table : FromStart(o, start, TRUE)}
  BY DEF FromStart
<1>6. {o \in kv_table : Kv!NotAfter(o, pad)} = {o \in kv_table : FromStart(o, start, FALSE)}
  BY <1>1 DEF Kv!NotAfter
<1>7. Stands(Kv!sqlite_open(start, forward), {o \in kv_table : FromStart(o, start, forward)}, forward)
  <2>1. CASE forward
    BY <1>3, <1>5, <2>1 DEF Kv!sqlite_open, Kv!sqlite_select
  <2>2. CASE ~forward
    BY <1>4, <1>6, <2>2 DEF Kv!sqlite_open, Kv!sqlite_select, pad
  <2> QED BY <2>1, <2>2
<1>8. CASE start = <<>>
  <2>1. /\ {o \in kv_table : FromStart(o, start, forward)} = kv_table
        /\ {o \in kv_table : FromStart(o, start, TRUE)} = kv_table
        /\ {o \in kv_table : FromStart(o, start, FALSE)} = kv_table
    BY <1>8, EmptyStart
  <2>2. CASE forward
    <3>1. Kv!lmdb_open(start, forward) = Kv!Least(kv_table) /\ forward = TRUE
      BY <1>8, <2>2 DEF Kv!lmdb_open
    <3> QED BY <1>3, <1>7, <2>1, <3>1
  <2>3. CASE ~forward
    <3>1. Kv!lmdb_open(start, forward) = Kv!Greatest(kv_table) /\ forward = FALSE
      BY <1>8, <2>3 DEF Kv!lmdb_open
    <3> QED BY <1>4, <1>7, <2>1, <3>1
  <2> QED BY <1>7, <2>2, <2>3
<1>9. CASE start # <<>> /\ forward
  BY <1>3, <1>5, <1>7, <1>9 DEF Kv!lmdb_open, Kv!MDB_SET_RANGE
<1>10. CASE start # <<>> /\ ~forward
  <2> DEFINE Behind == {o \in kv_table : Kv!NotAfter(pad, o)}
             found == Kv!Least(Behind)
  <2>1. Stands(found, Behind, TRUE)
    BY LeastStands
  <2>2. Kv!lmdb_open(start, forward) = IF found = Kv!NoKey THEN Kv!Greatest(kv_table)
                                       ELSE Kv!Greatest({o \in kv_table : Kv!Before(o, found)})
    BY <1>10 DEF Kv!lmdb_open, Kv!MDB_SET_RANGE, Kv!MDB_PREV, pad
  <2>3. \A o \in kv_table : o \notin Behind => Kv!Before(o, pad)
    BY <1>1, <1>2, Total DEF Kv!NotAfter
  <2>4. \A o \in Behind : o # Kv!NoKey
    BY KeysAre
  <2>5. CASE Behind = {}
    <3>1. found = Kv!NoKey
      BY <2>1, <2>5 DEF Stands
    <3>2. {o \in kv_table : FromStart(o, start, FALSE)} = kv_table
      BY <1>1, <2>3, <2>5
    <3> QED BY <1>4, <1>7, <1>10, <2>2, <3>1, <3>2
  <2>6. CASE Behind # {}
    <3>1. found \in Behind /\ \A o \in Behind : o = found \/ Kv!Before(found, o)
      BY <2>1, <2>6 DEF Stands, Kv!Ahead
    <3>2. found # Kv!NoKey /\ found \in Bytes /\ Kv!NotAfter(pad, found)
      BY <1>1, <2>4, <3>1
    <3> HIDE DEF found
    <3>3. ASSUME NEW o \in kv_table, Kv!Before(o, found)
          PROVE  Kv!Before(o, pad)
      <4>1. o \notin Behind
        <5> SUFFICES ASSUME o \in Behind PROVE FALSE
          OBVIOUS
        <5>1. Kv!Before(found, found)
          BY <1>1, <3>1, <3>2, <3>3, Transitive
        <5> QED BY <3>2, <5>1, Irreflexive
      <4> QED BY <2>3, <4>1
    <3>4. ASSUME NEW o \in kv_table, Kv!Before(o, pad)
          PROVE  Kv!Before(o, found)
      BY <1>1, <1>2, <3>2, <3>4, Transitive DEF Kv!NotAfter
    <3>5. {o \in kv_table : Kv!Before(o, found)} = {o \in kv_table : FromStart(o, start, FALSE)}
      BY <1>1, <3>3, <3>4
    <3> QED BY <1>4, <1>7, <1>10, <2>2, <3>2, <3>5
  <2> QED BY <2>5, <2>6
<1> QED BY <1>8, <1>9, <1>10

(***************************************************************************)
(* A walk.  What has been shown is in range, in order, and everything in   *)
(* range that has not been shown yet lies ahead, the cursor standing on    *)
(* what it showed last.  A cursor that moves to the first of the keys that *)
(* are left goes on with the walk, or ends it since the keys under the     *)
(* prefix are next to each other.                                          *)
(***************************************************************************)
Shown(w) == {w[i] : i \in 1 .. Len(w)}
Walk(c, B, w) ==
  /\ c.s \in KvStart /\ c.forward \in BOOLEAN /\ c.is_end \in BOOLEAN /\ c.prefix = c.s[1]
  /\ w \in Seq(KvKey)
  /\ \A i \in 1 .. Len(w) : w[i] \in B /\ Kv!InRange(w[i], c.s, c.forward)
  /\ \A i, j \in 1 .. Len(w) : i < j => Kv!Ahead(w[i], w[j], c.forward)
  /\ \A k \in B : Kv!InRange(k, c.s, c.forward) /\ k \notin Shown(w) =>
                    ~c.is_end /\ \A i \in 1 .. Len(w) : Kv!Ahead(w[i], k, c.forward)
  /\ ~c.is_end => Len(w) > 0 /\ Kv!At(c) = w[Len(w)]

KvInv ==
  /\ kv_table \subseteq KvKey
  /\ kv_cur # Kv!NoCursor =>
       /\ kv_table \subseteq kv_began /\ kv_began \subseteq KvKey
       /\ kv_began \ kv_table \subseteq Shown(kv_seen)
       /\ Walk(kv_cur, kv_began, kv_seen)
       /\ ~kv_cur.is_end => Kv!At(kv_cur) \in kv_table

LEMMA CursorFields ==
  ASSUME NEW s, NEW k, NEW forward, NEW c, c = Kv!check_prefix(s, k, forward)
  PROVE  /\ c.s = s /\ c.prefix = s[1] /\ c.forward = forward
         /\ c.is_end = (k = Kv!NoKey \/ ~Kv!IsPrefix(s[1], k))
         /\ c.suffix = IF k = Kv!NoKey \/ ~Kv!IsPrefix(s[1], k) THEN <<>> ELSE SubSeq(k, Len(s[1]) + 1, Len(k))
BY ZenonT(20) DEF Kv!check_prefix

LEMMA RestIs ==
  ASSUME NEW S, NEW k \in Seq(S), NEW n \in Nat, n <= Len(k)
  PROVE  /\ SubSeq(k, n + 1, Len(k)) \in Seq(S) /\ Len(SubSeq(k, n + 1, Len(k))) = Len(k) - n
         /\ \A j \in 1 .. Len(k) - n : SubSeq(k, n + 1, Len(k))[j] = k[n + j]
<1>1. Len(k) \in Nat
  OBVIOUS
<1>2. SubSeq(k, n + 1, Len(k)) = [i \in 1 .. Len(k) - n |-> k[n + i]]
  BY <1>1
<1>3. \A i \in 1 .. Len(k) - n : n + i \in 1 .. Len(k) /\ k[n + i] \in S
  BY <1>1
<1>4. Len(k) - n \in Nat
  BY <1>1
<1> QED BY <1>2, <1>3, <1>4

\* The prefix and the rest make up the key.
LEMMA KeyAgain ==
  ASSUME NEW pre \in Bytes, NEW k \in Bytes, Kv!IsPrefix(pre, k)
  PROVE  pre \o SubSeq(k, Len(pre) + 1, Len(k)) = k
<1> DEFINE rest == SubSeq(k, Len(pre) + 1, Len(k))
<1>1. /\ Len(pre) \in Nat /\ Len(k) \in Nat /\ Len(pre) <= Len(k)
      /\ \A j \in Nat \ {0} : j <= Len(pre) => pre[j] = k[j]
  BY PrefixAgrees DEF Bytes
<1>2. rest \in Bytes /\ Len(rest) = Len(k) - Len(pre) /\ \A j \in 1 .. Len(k) - Len(pre) : rest[j] = k[Len(pre) + j]
  BY <1>1, RestIs DEF Bytes
<1> HIDE DEF rest
<1>3. pre \o rest \in Bytes /\ Len(pre \o rest) = Len(k)
  BY <1>1, <1>2 DEF Bytes
<1>4. \A j \in 1 .. Len(k) : (pre \o rest)[j] = IF j <= Len(pre) THEN pre[j] ELSE rest[j - Len(pre)]
  BY <1>1, <1>2 DEF Bytes
<1>5. ASSUME NEW j \in Nat \ {0}, j <= Len(k)
      PROVE  (pre \o rest)[j] = k[j]
  <2>1. CASE j <= Len(pre)
    BY <1>1, <1>4, <1>5, <2>1
  <2>2. CASE ~(j <= Len(pre))
    <3>1. j - Len(pre) \in 1 .. Len(k) - Len(pre) /\ Len(pre) + (j - Len(pre)) = j /\ j \in 1 .. Len(k)
      BY <1>1, <1>5, <2>2
    <3> QED BY <1>2, <1>4, <2>2, <3>1
  <2> QED BY <2>1, <2>2
<1>6. pre \o rest = k
  BY <1>3, <1>5, SameBytes
<1> QED BY <1>6 DEF rest

LEMMA CursorMoves ==
  ASSUME NEW s \in KvStart, NEW forward \in BOOLEAN, NEW B, B \subseteq KvKey, NEW w \in Seq(KvKey),
         NEW T, T \subseteq B, NEW k, Stands(k, T, forward),
         \A i \in 1 .. Len(w) : w[i] \in B /\ Kv!InRange(w[i], s, forward),
         \A i, j \in 1 .. Len(w) : i < j => Kv!Ahead(w[i], w[j], forward),
         \A o \in T : Kv!IsPrefix(s[1], o) => Kv!InRange(o, s, forward),
         \A o \in T : \A i \in 1 .. Len(w) : Kv!Ahead(w[i], o, forward),
         \A o \in B : Kv!InRange(o, s, forward) /\ o \notin Shown(w) => o \in T,
         \A o \in T : k \in T /\ Kv!IsPrefix(s[1], o) /\ Kv!Ahead(k, o, forward) => Kv!IsPrefix(s[1], k),
         NEW c, c = Kv!check_prefix(s, k, forward)
  PROVE  /\ Walk(c, B, w \o Kv!Showing(c))
         /\ ~c.is_end => Kv!At(c) \in T
         /\ Shown(w) \subseteq Shown(w \o Kv!Showing(c))
<1>1. /\ c.s = s /\ c.prefix = s[1] /\ c.forward = forward
      /\ c.is_end = (k = Kv!NoKey \/ ~Kv!IsPrefix(s[1], k))
      /\ c.suffix = IF k = Kv!NoKey \/ ~Kv!IsPrefix(s[1], k) THEN <<>> ELSE SubSeq(k, Len(s[1]) + 1, Len(k))
  BY CursorFields
<1>2. Len(w) \in Nat
  OBVIOUS
<1>3. CASE k \in T /\ Kv!IsPrefix(s[1], k)
  <2> DEFINE v == Append(w, k)
  <2>1. k \in KvKey /\ k \in Bytes /\ k # Kv!NoKey /\ s[1] \in Bytes /\ k \in B
    BY <1>3, KeysAre
  <2>2. ~c.is_end /\ c.is_end \in BOOLEAN /\ Kv!At(c) = k
    <3>1. ~c.is_end /\ c.is_end \in BOOLEAN
      BY <1>1, <1>3, <2>1
    <3>2. c.suffix = SubSeq(k, Len(s[1]) + 1, Len(k))
      BY <1>1, <1>3, <2>1
    <3>3. Kv!At(c) = k
      BY <1>1, <1>3, <2>1, <3>2, KeyAgain DEF Kv!At
    <3> QED BY <3>1, <3>3
  <2>3. w \o Kv!Showing(c) = v
    <3>1. Kv!Showing(c) = <<k>>
      BY <2>2 DEF Kv!Showing
    <3> QED BY <2>1, <3>1
  <2>4. /\ v \in Seq(KvKey) /\ Len(v) = Len(w) + 1 /\ v[Len(w) + 1] = k
        /\ \A i \in 1 .. Len(w) : v[i] = w[i]
    BY <2>1
  <2> HIDE DEF v
  <2>5. \A i \in 1 .. Len(v) : i \in 1 .. Len(w) \/ i = Len(w) + 1
    BY <1>2, <2>4
  <2>6. Shown(w) \subseteq Shown(v) /\ k \in Shown(v)
    <3>1. \A i \in 1 .. Len(w) : i \in 1 .. Len(v) /\ w[i] = v[i]
      BY <1>2, <2>4
    <3>2. Len(w) + 1 \in 1 .. Len(v)
      BY <1>2, <2>4
    <3> QED BY <2>4, <3>1, <3>2 DEF Shown
  <2>7. \A i \in 1 .. Len(v) : v[i] \in B /\ Kv!InRange(v[i], s, forward)
    BY <1>3, <2>1, <2>4, <2>5
  <2>8. ASSUME NEW i \in 1 .. Len(v), NEW j \in 1 .. Len(v), i < j
        PROVE  Kv!Ahead(v[i], v[j], forward)
    <3>1. i \in 1 .. Len(w)
      BY <1>2, <2>4, <2>8
    <3>2. CASE j \in 1 .. Len(w)
      BY <2>4, <2>8, <3>1, <3>2
    <3>3. CASE j = Len(w) + 1
      BY <1>3, <2>4, <3>1, <3>3
    <3> QED BY <2>5, <3>2, <3>3
  <2>9. ASSUME NEW o \in B, Kv!InRange(o, s, forward), o \notin Shown(v)
        PROVE  \A i \in 1 .. Len(v) : Kv!Ahead(v[i], o, forward)
    <3>1. o \in T /\ o # k
      BY <2>6, <2>9
    <3>2. Kv!Ahead(k, o, forward)
      BY <3>1 DEF Stands
    <3> QED BY <2>4, <2>5, <3>1, <3>2
  <2>10. Len(v) > 0 /\ Kv!At(c) = v[Len(v)]
    BY <1>2, <2>2, <2>4
  <2>11. Walk(c, B, v)
    BY <1>1, <2>2, <2>4, <2>7, <2>8, <2>9, <2>10 DEF Walk
  <2> QED BY <1>3, <2>2, <2>3, <2>6, <2>11
<1>4. CASE ~(k \in T /\ Kv!IsPrefix(s[1], k))
  <2>1. c.is_end /\ c.is_end \in BOOLEAN
    <3>1. k \in T \/ k = Kv!NoKey
      BY DEF Stands
    <3> QED BY <1>1, <1>4, <3>1
  <2>2. w \o Kv!Showing(c) = w
    <3>1. Kv!Showing(c) = <<>>
      BY <2>1 DEF Kv!Showing
    <3> QED BY <3>1
  <2>3. ASSUME NEW o \in B, Kv!InRange(o, s, forward), o \notin Shown(w)
        PROVE  FALSE
    <3>1. o \in T /\ Kv!IsPrefix(s[1], o)
      BY <2>3 DEF Kv!InRange
    <3>2. k \in T /\ (o = k \/ Kv!Ahead(k, o, forward))
      BY <3>1 DEF Stands
    <3> QED BY <1>4, <3>1, <3>2
  <2>4. Walk(c, B, w)
    BY <1>1, <2>1, <2>3 DEF Walk
  <2> QED BY <2>1, <2>2, <2>4
<1> QED BY <1>3, <1>4

LEMMA PrefixOfJoined ==
  ASSUME NEW a \in Bytes, NEW b \in Bytes
  PROVE  Kv!IsPrefix(a, a \o b)
<1>1. Len(a) \in Nat /\ Len(b) \in Nat /\ a \o b \in Bytes /\ Len(a \o b) = Len(a) + Len(b)
  BY DEF Bytes
<1>2. \A j \in 1 .. Len(a) + Len(b) : (a \o b)[j] = IF j <= Len(a) THEN a[j] ELSE b[j - Len(a)]
  BY DEF Bytes
<1>3. \A j \in Nat \ {0} : j <= Len(a) => j \in 1 .. Len(a) + Len(b)
  BY <1>1
<1>4. \A j \in Nat \ {0} : j <= Len(a) => a[j] = (a \o b)[j]
  BY <1>2, <1>3
<1>5. Len(a) <= Len(a \o b)
  BY <1>1
<1> QED BY <1>1, <1>4, <1>5, PrefixAgrees

LEMMA PrefixOfStart ==
  ASSUME NEW s \in KvStart
  PROVE  Kv!IsPrefix(s[1], s[1] \o s[2])
BY KeysAre, PrefixOfJoined

LEMMA PrefixOfPrefix ==
  ASSUME NEW a \in Bytes, NEW b \in Bytes, NEW c \in Bytes, Kv!IsPrefix(a, b), Kv!IsPrefix(b, c)
  PROVE  Kv!IsPrefix(a, c)
<1>1. /\ Len(a) <= Len(b) /\ \A j \in Nat \ {0} : j <= Len(a) => a[j] = b[j]
      /\ Len(b) <= Len(c) /\ \A j \in Nat \ {0} : j <= Len(b) => b[j] = c[j]
  BY PrefixAgrees
<1>2. Len(a) \in Nat /\ Len(b) \in Nat /\ Len(c) \in Nat
  BY DEF Bytes
<1> QED BY <1>1, <1>2, PrefixAgrees

LEMMA InRangeIs ==
  ASSUME NEW k, NEW s, NEW forward
  PROVE  Kv!InRange(k, s, forward) <=> Kv!IsPrefix(s[1], k) /\ FromStart(k, s[1] \o s[2], forward)
BY DEF Kv!InRange, FromStart

\* Whatever lies ahead of a key from the start on is from the start on.
LEMMA FromStartOn ==
  ASSUME NEW start \in Bytes, NEW at \in Bytes, NEW o \in Bytes, NEW forward \in BOOLEAN,
         FromStart(at, start, forward), Kv!Ahead(at, o, forward)
  PROVE  FromStart(o, start, forward)
<1>1. CASE forward
  BY <1>1, Transitive DEF FromStart, Kv!Ahead, Kv!NotAfter
<1>2. CASE ~forward
  <2>1. Kv!Before(o, at)
    BY <1>2 DEF Kv!Ahead
  <2>2. CASE Kv!Before(at, start)
    BY <1>2, <2>1, <2>2, Transitive DEF FromStart
  <2>3. CASE Kv!IsPrefix(start, at)
    <3>1. Kv!IsPrefix(start, start)
      BY PrefixAgrees
    <3>2. CASE o = start \/ Kv!Before(o, start)
      BY <1>2, <3>1, <3>2 DEF FromStart
    <3>3. CASE Kv!Before(start, o)
      BY <1>2, <2>1, <2>3, <3>1, <3>3, Between DEF FromStart, Kv!NotAfter
    <3> QED BY <3>2, <3>3, Total
  <2> QED BY <1>2, <2>2, <2>3 DEF FromStart
<1> QED BY <1>1, <1>2

LEMMA BetweenAhead ==
  ASSUME NEW forward \in BOOLEAN, NEW a \in Bytes, NEW b \in Bytes, NEW c \in Bytes, NEW pre \in Bytes,
         a = b \/ Kv!Ahead(a, b, forward), Kv!Ahead(b, c, forward), Kv!IsPrefix(pre, a), Kv!IsPrefix(pre, c)
  PROVE  Kv!IsPrefix(pre, b)
<1>1. CASE forward
  BY <1>1, Between DEF Kv!Ahead, Kv!NotAfter
<1>2. CASE ~forward
  BY <1>2, Between DEF Kv!Ahead, Kv!NotAfter
<1> QED BY <1>1, <1>2

\* The first key that a cursor stands on.
LEMMA WalkBegins ==
  ASSUME kv_table \subseteq KvKey, NEW s \in KvStart, NEW forward \in BOOLEAN, NEW k,
         Stands(k, {o \in kv_table : FromStart(o, s[1] \o s[2], forward)}, forward),
         NEW c, c = Kv!check_prefix(s, k, forward)
  PROVE  Walk(c, kv_table, Kv!Showing(c)) /\ (~c.is_end => Kv!At(c) \in kv_table)
<1> DEFINE start == s[1] \o s[2]
           T == {o \in kv_table : FromStart(o, start, forward)}
<1>1. start \in Bytes /\ s[1] \in Bytes /\ Kv!IsPrefix(s[1], start) /\ kv_table \subseteq Bytes
  BY KeysAre, PrefixOfStart
<1>2. \A o \in T : Kv!IsPrefix(s[1], o) => Kv!InRange(o, s, forward)
  BY InRangeIs
<1>3. \A o \in kv_table : Kv!InRange(o, s, forward) => o \in T
  BY InRangeIs
<1>4. ASSUME NEW o \in T, k \in T, Kv!IsPrefix(s[1], o), Kv!Ahead(k, o, forward)
      PROVE  Kv!IsPrefix(s[1], k)
  <2>1. k \in Bytes /\ o \in Bytes /\ FromStart(k, start, forward)
    BY <1>1, <1>4
  <2> HIDE DEF start, T
  <2>2. CASE Kv!IsPrefix(start, k)
    BY <1>1, <2>1, <2>2, PrefixOfPrefix
  <2>3. CASE ~Kv!IsPrefix(start, k)
    <3>1. start = k \/ Kv!Ahead(start, k, forward) \/ (~forward /\ Kv!Before(k, start))
      BY <2>1, <2>3 DEF FromStart, Kv!NotAfter, Kv!Ahead
    <3>2. start = k \/ Kv!Ahead(start, k, forward)
      BY <3>1 DEF Kv!Ahead
    <3> QED BY <1>1, <1>4, <2>1, <3>2, BetweenAhead
  <2> QED BY <2>2, <2>3
<1>5. <<>> \in Seq(KvKey) /\ Len(<<>>) = 0 /\ T \subseteq kv_table
  OBVIOUS
<1>6. \A i \in 1 .. Len(<<>>) : FALSE
  BY <1>5
<1>7. Stands(k, T, forward)
  OBVIOUS
<1> HIDE DEF T
<1>8. Walk(c, kv_table, <<>> \o Kv!Showing(c)) /\ (~c.is_end => Kv!At(c) \in T)
  BY <1>2, <1>3, <1>4, <1>5, <1>6, <1>7, CursorMoves
<1>9. <<>> \o Kv!Showing(c) = Kv!Showing(c)
  BY DEF Kv!Showing
<1> QED BY <1>5, <1>8, <1>9

\* A cursor that goes on, with the key it stood on still there or not.
LEMMA WalkGoesOn ==
  ASSUME KvInv, kv_cur # Kv!NoCursor, ~kv_cur.is_end,
         NEW K, K \subseteq kv_table, kv_table \ {Kv!At(kv_cur)} \subseteq K,
         NEW k, Stands(k, {o \in K : Kv!Ahead(Kv!At(kv_cur), o, kv_cur.forward)}, kv_cur.forward),
         NEW c, c = Kv!check_prefix(kv_cur.s, k, kv_cur.forward)
  PROVE  /\ Walk(c, kv_began, kv_seen \o Kv!Showing(c))
         /\ ~c.is_end => Kv!At(c) \in K
         /\ kv_began \ K \subseteq Shown(kv_seen \o Kv!Showing(c))
<1> DEFINE at == Kv!At(kv_cur)
           s == kv_cur.s
           forward == kv_cur.forward
           w == kv_seen
           T == {o \in K : Kv!Ahead(at, o, forward)}
<1>1. /\ kv_table \subseteq kv_began /\ kv_began \subseteq KvKey /\ kv_began \subseteq Bytes
      /\ kv_began \ kv_table \subseteq Shown(w)
      /\ s \in KvStart /\ forward \in BOOLEAN /\ w \in Seq(KvKey)
  BY KeysAre DEF KvInv, Walk
<1>2. /\ \A i \in 1 .. Len(w) : w[i] \in kv_began /\ Kv!InRange(w[i], s, forward)
      /\ \A i, j \in 1 .. Len(w) : i < j => Kv!Ahead(w[i], w[j], forward)
      /\ \A o \in kv_began : Kv!InRange(o, s, forward) /\ o \notin Shown(w) =>
                               \A i \in 1 .. Len(w) : Kv!Ahead(w[i], o, forward)
  BY DEF KvInv, Walk
<1>3. Len(w) \in Nat /\ Len(w) > 0 /\ at = w[Len(w)]
  BY <1>1 DEF KvInv, Walk
<1>4. Len(w) \in 1 .. Len(w) /\ \A i \in 1 .. Len(w) : i = Len(w) \/ i < Len(w)
  BY <1>3
<1>5. /\ at \in kv_began /\ Kv!InRange(at, s, forward) /\ at \in Shown(w)
      /\ at \in Bytes /\ s[1] \in Bytes /\ s[1] \o s[2] \in Bytes
  BY <1>1, <1>2, <1>3, <1>4, KeysAre DEF Shown
<1>6. T \subseteq kv_began /\ Stands(k, T, forward)
  BY <1>1
<1>7. ASSUME NEW o \in T, Kv!IsPrefix(s[1], o)
      PROVE  Kv!InRange(o, s, forward)
  <2>1. o \in Bytes /\ Kv!Ahead(at, o, forward)
    BY <1>1, <1>6
  <2>2. FromStart(at, s[1] \o s[2], forward)
    BY <1>5, InRangeIs
  <2> HIDE DEF at, s, forward, T
  <2> QED BY <1>1, <1>5, <1>7, <2>1, <2>2, FromStartOn, InRangeIs
<1>8. ASSUME NEW o \in T, NEW i \in 1 .. Len(w)
      PROVE  Kv!Ahead(w[i], o, forward)
  <2>1. o \in Bytes /\ Kv!Ahead(at, o, forward) /\ w[i] \in Bytes
    BY <1>1, <1>2, <1>6
  <2>2. w[i] = at \/ Kv!Ahead(w[i], at, forward)
    BY <1>2, <1>3, <1>4
  <2> HIDE DEF at, forward, T, w
  <2> QED BY <1>1, <1>5, <2>1, <2>2, AheadOrders
<1>9. ASSUME NEW o \in kv_began, Kv!InRange(o, s, forward), o \notin Shown(w)
      PROVE  o \in T
  <2>1. o \in kv_table /\ Kv!Ahead(at, o, forward)
    BY <1>1, <1>2, <1>3, <1>4, <1>9
  <2>2. o # at
    BY <1>5, <1>9
  <2> QED BY <2>1, <2>2
<1>10. ASSUME NEW o \in T, k \in T, Kv!IsPrefix(s[1], o), Kv!Ahead(k, o, forward)
       PROVE  Kv!IsPrefix(s[1], k)
  <2>1. k \in Bytes /\ o \in Bytes /\ Kv!Ahead(at, k, forward) /\ Kv!IsPrefix(s[1], at)
    BY <1>1, <1>5, <1>6, <1>10, InRangeIs
  <2> HIDE DEF at, s, forward, T
  <2> QED BY <1>1, <1>5, <1>10, <2>1, BetweenAhead
<1>11. c = Kv!check_prefix(s, k, forward)
  OBVIOUS
<1>12. T \subseteq K
  OBVIOUS
<1>13. kv_began \ K \subseteq Shown(w)
  BY <1>1, <1>5
<1> HIDE DEF at, s, forward, T, w
<1>14. /\ Walk(c, kv_began, w \o Kv!Showing(c)) /\ (~c.is_end => Kv!At(c) \in T)
       /\ Shown(w) \subseteq Shown(w \o Kv!Showing(c))
  BY <1>1, <1>2, <1>6, <1>7, <1>8, <1>9, <1>10, <1>11, CursorMoves
<1> QED BY <1>12, <1>13, <1>14 DEF w

LEMMA KvInvInit ==
  ASSUME Kv!Init
  PROVE  KvInv
BY DEF Kv!Init, KvInv

LEMMA KvInvNext ==
  ASSUME KvInv, Kv!Next
  PROVE  KvInv'
<1>1. ASSUME NEW s \in KvStart, NEW forward \in BOOLEAN, Kv!open(s, forward)
      PROVE  KvInv'
  <2> DEFINE start == s[1] \o s[2]
             k == IF kv_db = "lmdb" THEN Kv!lmdb_open(start, forward) ELSE Kv!sqlite_open(start, forward)
  <2>1. kv_table \subseteq KvKey /\ start \in Bytes
    BY KeysAre DEF KvInv
  <2>2. Stands(k, {o \in kv_table : FromStart(o, start, forward)}, forward)
    BY <2>1, OpenStands
  <2>3. /\ kv_cur' = Kv!check_prefix(s, k, forward) /\ kv_seen' = Kv!Showing(kv_cur')
        /\ kv_began' = kv_table /\ kv_table' = kv_table
    BY <1>1 DEF Kv!open
  <2> HIDE DEF k
  <2>4. Walk(kv_cur', kv_table, Kv!Showing(kv_cur')) /\ (~kv_cur'.is_end => Kv!At(kv_cur') \in kv_table)
    BY <2>1, <2>2, <2>3, WalkBegins
  <2> QED BY <2>1, <2>3, <2>4 DEF KvInv
<1>2. ASSUME Kv!next
      PROVE  KvInv'
  <2> DEFINE k == IF kv_cur.forward THEN Kv!MDB_NEXT(kv_table, Kv!At(kv_cur))
                  ELSE Kv!MDB_PREV(kv_table, Kv!At(kv_cur))
  <2>1. /\ kv_cur # Kv!NoCursor /\ ~kv_cur.is_end
        /\ kv_cur' = Kv!check_prefix(kv_cur.s, k, kv_cur.forward)
        /\ kv_seen' = kv_seen \o Kv!Showing(kv_cur')
        /\ kv_table' = kv_table /\ kv_began' = kv_began
    BY <1>2 DEF Kv!next
  <2>2. kv_table \subseteq KvKey /\ kv_table \subseteq kv_began /\ kv_began \subseteq KvKey /\ kv_cur.forward \in BOOLEAN
    BY <2>1 DEF KvInv, Walk
  <2>3. Stands(k, {o \in kv_table : Kv!Ahead(Kv!At(kv_cur), o, kv_cur.forward)}, kv_cur.forward)
    BY <2>2, NeighbourStands
  <2> HIDE DEF k
  <2>4. /\ Walk(kv_cur', kv_began, kv_seen \o Kv!Showing(kv_cur'))
        /\ ~kv_cur'.is_end => Kv!At(kv_cur') \in kv_table
        /\ kv_began \ kv_table \subseteq Shown(kv_seen \o Kv!Showing(kv_cur'))
    BY <2>1, <2>3, WalkGoesOn
  <2> QED BY <2>1, <2>2, <2>4 DEF KvInv
<1>3. ASSUME Kv!erase
      PROVE  KvInv'
  <2> DEFINE at == Kv!At(kv_cur)
             K == kv_table \ {at}
             k == Kv!erased_next(at, K, kv_cur.forward)
  <2>1. /\ kv_cur # Kv!NoCursor /\ ~kv_cur.is_end
        /\ kv_cur' = Kv!check_prefix(kv_cur.s, k, kv_cur.forward)
        /\ kv_seen' = kv_seen \o Kv!Showing(kv_cur')
        /\ kv_table' = K /\ kv_began' = kv_began
    BY <1>3 DEF Kv!erase
  <2>2. kv_table \subseteq KvKey /\ kv_table \subseteq kv_began /\ kv_began \subseteq KvKey /\ kv_cur.forward \in BOOLEAN
    BY <2>1 DEF KvInv, Walk
  <2>3. K \subseteq kv_table /\ kv_table \ {Kv!At(kv_cur)} \subseteq K /\ at \notin K /\ K \subseteq KvKey
    BY <2>2
  <2> HIDE DEF K
  <2>4. Stands(k, {o \in K : Kv!Ahead(Kv!At(kv_cur), o, kv_cur.forward)}, kv_cur.forward)
    BY <2>2, <2>3, ErasedStands
  <2> HIDE DEF k
  <2>5. /\ Walk(kv_cur', kv_began, kv_seen \o Kv!Showing(kv_cur'))
        /\ ~kv_cur'.is_end => Kv!At(kv_cur') \in K
        /\ kv_began \ K \subseteq Shown(kv_seen \o Kv!Showing(kv_cur'))
    BY <2>1, <2>3, <2>4, WalkGoesOn
  <2> QED BY <2>1, <2>2, <2>3, <2>5 DEF KvInv
<1>4. ASSUME Kv!done
      PROVE  KvInv'
  BY <1>4 DEF Kv!done, KvInv
<1>5. ASSUME NEW k \in KvKey, NEW nooverwrite \in BOOLEAN, Kv!put(k, nooverwrite)
      PROVE  KvInv'
  BY <1>5 DEF Kv!put, Kv!Outside, KvInv
<1>6. ASSUME NEW k \in KvKey, NEW mustexist \in BOOLEAN, Kv!del(k, mustexist)
      PROVE  KvInv'
  BY <1>6 DEF Kv!del, Kv!Outside, KvInv
<1> QED BY <1>1, <1>2, <1>3, <1>4, <1>5, <1>6 DEF Kv!Next

LEMMA KvInvSuffices ==
  ASSUME KvInv
  PROVE  Kv!WalkExact /\ Kv!EraseAll
<1> SUFFICES ASSUME kv_cur # Kv!NoCursor
             PROVE  Kv!WalkExact /\ Kv!EraseAll
  BY DEF Kv!WalkExact, Kv!EraseAll
<1>1. /\ kv_table \subseteq kv_began /\ kv_began \ kv_table \subseteq Shown(kv_seen)
      /\ kv_seen \in Seq(KvKey)
      /\ \A i \in 1 .. Len(kv_seen) : kv_seen[i] \in kv_began /\ Kv!InRange(kv_seen[i], kv_cur.s, kv_cur.forward)
      /\ \A i, j \in 1 .. Len(kv_seen) : i < j => Kv!Ahead(kv_seen[i], kv_seen[j], kv_cur.forward)
      /\ \A k \in kv_began : Kv!InRange(k, kv_cur.s, kv_cur.forward) /\ k \notin Shown(kv_seen) =>
            ~kv_cur.is_end /\ \A i \in 1 .. Len(kv_seen) : Kv!Ahead(kv_seen[i], k, kv_cur.forward)
  BY DEF KvInv, Walk
<1>2. Kv!Range(kv_seen) = Shown(kv_seen)
  BY <1>1 DEF Kv!Range, Shown
<1>3. Kv!WalkExact
  BY <1>1, <1>2 DEF Kv!WalkExact
<1>4. ASSUME kv_cur.is_end, \A i \in 1 .. Len(kv_seen) : kv_seen[i] \notin kv_table
      PROVE  kv_table = {k \in kv_began : ~Kv!InRange(k, kv_cur.s, kv_cur.forward)}
  <2>1. \A k \in Shown(kv_seen) : k \notin kv_table /\ Kv!InRange(k, kv_cur.s, kv_cur.forward)
    BY <1>1, <1>4 DEF Shown
  <2>2. \A k \in kv_began : Kv!InRange(k, kv_cur.s, kv_cur.forward) <=> k \in Shown(kv_seen)
    BY <1>1, <1>4, <2>1
  <2>3. \A k \in kv_began : k \in kv_table <=> k \notin Shown(kv_seen)
    BY <1>1, <2>1
  <2> QED BY <1>1, <2>2, <2>3
<1> QED BY <1>3, <1>4 DEF Kv!EraseAll

\* For every finite set of keys, every start and both libraries, however keys are
\* put, deleted and erased through a cursor in between: a cursor shows the keys
\* under its prefix from its start on, in order, each once and none left out, and
\* a walk that erases all that it shows leaves what is out of its range.
THEOREM CursorsAlwaysExact == MCSpec => []CursorsExact
<1> DEFINE Inv == part = "cursors" => KvInv
<1>1. MCInit => Inv
  BY KvInvInit DEF MCInit
<1>2. Inv /\ [MCNext]_all => Inv'
  <2> SUFFICES ASSUME Inv, [MCNext]_all, part' = "cursors"
               PROVE  KvInv'
    OBVIOUS
  <2>1. CASE part \in {"connections", "peers"} /\ UNCHANGED part
    BY <2>1
  <2>2. CASE part = "cursors" /\ Kv!Next
    BY <2>2, KvInvNext
  <2>3. CASE UNCHANGED <<part, cursors>>
    BY <2>3 DEF cursors, KvInv
  <2> QED BY <2>1, <2>2, <2>3 DEF MCNext, all
<1>3. Inv => CursorsExact
  BY KvInvSuffices DEF CursorsExact
<1> HIDE DEF Inv
<1> QED BY <1>1, <1>2, <1>3, PTL DEF MCSpec
================================================================================
