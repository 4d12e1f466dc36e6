--------------------------------- MODULE MCP2P ---------------------------------
(***************************************************************************)
(* The connections of a node, its lists of peers by themselves, and the    *)
(* cursors of the data base that stores such lists, one of them in each    *)
(* behaviour.  P2P has a seed, which may hide its port when it connects,   *)
(* and the node's own address, which may be the exclusive one.  PeerDB has *)
(* a seed, a priority node and a peer in a private network, and is called  *)
(* in any order.  KeyValue has six keys over two bytes, one of them the    *)
(* greatest, some of them before, some behind and some under every start.  *)
(***************************************************************************)
EXTENDS P2P, Sequences

MCAddr == {<<"s", 1>>, <<"me", 1>>, <<"s", 0>>}
MCSeeds == {<<"s", 1>>}
MCExclusive == {<<"me", 1>>}
MCSelf == <<"me", 1>>
MCNetwork == [s |-> 0, me |-> 0]
MCSymmetry == Permutations(Client)

MCPdAddr == {<<"s", 1>>, <<"p", 1>>, <<"x", 1>>}
MCPdPriorities == {<<"p", 1>>}
MCPdNetwork == [s |-> 0, p |-> 0, x |-> 10]

MCKvKey == {<<1>>, <<1, 2>>, <<1, 1>>, <<2>>, <<2, 1>>, <<2, 2>>}
MCKvStart ==
  {s \in {<<>>, <<1>>, <<2>>, <<1, 2>>} \X {<<>>, <<1>>, <<2>>} : Len(s[1] \o s[2]) <= 2}

CONSTANTS
  PdAddr, PdPriorities, PdNetwork, PdWhiteLimit, PdGrayLimit,
  PdBan, PdReconnect, PdPriorityReconnect, PdMaxTime,
  KvKey, KvStart, KvFF, KvMaxKeySize

VARIABLES part, kv_db, kv_table, kv_cur, kv_began, kv_seen

Pd == INSTANCE PeerDB WITH
        Addr <- PdAddr, Priorities <- PdPriorities, Network <- PdNetwork,
        WhiteLimit <- PdWhiteLimit, GrayLimit <- PdGrayLimit, BAN_PERIOD <- PdBan,
        RECONNECT_PERIOD <- PdReconnect, PRIORITY_RECONNECT_PERIOD <- PdPriorityReconnect,
        MaxTime <- PdMaxTime

Kv == INSTANCE KeyValue WITH
        Key <- KvKey, Start <- KvStart, FF <- KvFF, MaxKeySize <- KvMaxKeySize, Group <- 7,
        db <- kv_db, table <- kv_table, cur <- kv_cur, began <- kv_began, seen <- kv_seen

ASSUME PeersAssumption == Pd!PeerAssumption
ASSUME CursorAssumption == Kv!KeysFit

connections == <<client, failed, reconnect_timer, loop>>
cursors == <<kv_db, kv_table, kv_cur, kv_began, kv_seen>>
all == <<part, vars, cursors>>

MCInit ==
  /\ part \in {"connections", "peers", "cursors"}
  /\ Init /\ (part = "connections" \/ DOMAIN p.excl = {})
  /\ Kv!Init /\ (part = "cursors" \/ kv_db = "lmdb")
MCNext ==
  \/ part = "connections" /\ Next /\ UNCHANGED <<part, cursors>>
  \/ part = "peers" /\ Pd!PeerNext /\ UNCHANGED <<part, connections, cursors>>
  \/ part = "cursors" /\ Kv!Next /\ UNCHANGED <<part, vars>>
MCSpec == MCInit /\ [][MCNext]_all

\* The lists of peers can be trusted: every entry in memory is in the data base
\* as it is and nothing else is, an address is in one list only, peers are not
\* tried too often, a banned one is not tried before the ban ends, and addresses
\* of a private network are told only to peers in it (PeerDB.cpp).
PeersSound ==
  part = "peers" =>
    /\ Pd!ListsStored /\ Pd!OneList /\ Pd!NotTooOften /\ Pd!BansHold /\ Pd!SharedList

\* The node never gives up: with too few outgoing connections a timer runs that
\* will try again, however handshakes, failures and disconnects were interleaved,
\* and no two outgoing connections go to one address (connect_all).
ConnectionsSound == part = "connections" => KeepsTrying /\ OneConnectionPerPeer

\* Cursors of both data base libraries show the keys under their prefix from
\* their start on, in order and once, also while keys are erased through
\* them (DBlmdb.cpp, DBsqlite3.cpp).
CursorsExact == part = "cursors" => Kv!WalkExact /\ Kv!EraseAll
================================================================================
