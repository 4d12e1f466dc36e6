-------------------------------- MODULE PeerDB --------------------------------
(***************************************************************************)
(* PeerDB: the addresses a node knows.  The white list has the peers it    *)
(* talked to, the gray list those it was told of, the exclusive list those *)
(* of the command line.  White and gray list are kept in memory and, entry *)
(* by entry, in a data base whose transaction is committed every minute.   *)
(* An address is a pair <<ip, port>>; a list is a function from addresses  *)
(* to entries.  Entries that the indices order alike (up to                *)
(* shuffle_random) are taken in any order.                                 *)
(***************************************************************************)
EXTENDS Integers, FiniteSets, FiniteSetsExt, TLC

CONSTANTS
  Addr,                  \* pairs of an ip and a port, which is 0 if the peer hides
  Seeds, Priorities,     \* of the configuration, subsets of Addr
  Network,               \* get_private_network_prefix of an ip, 0 if it is public
  WhiteLimit, GrayLimit,
  BAN_PERIOD, RECONNECT_PERIOD, PRIORITY_RECONNECT_PERIOD,
  MaxTime                \* bound of the clock

ASSUME PeerAssumption ==
  /\ Seeds \cup Priorities \subseteq Addr
  /\ \A a \in Seeds \cup Priorities : a[2] # 0
  /\ {WhiteLimit, GrayLimit, MaxTime} \subseteq Nat
  /\ {BAN_PERIOD, RECONNECT_PERIOD, PRIORITY_RECONNECT_PERIOD} \subseteq Nat \ {0}
  /\ PRIORITY_RECONNECT_PERIOD <= BAN_PERIOD /\ RECONNECT_PERIOD <= BAN_PERIOD

VARIABLES
  p,      \* white, gray, excl: the lists; dbw, dbg: the entries in the data base
  now,
  tried   \* when an address that is no seed was tried last, unless its entry was reset

peer_vars == <<p, now, tried>>

NewEntry == [ban_until |-> 0, next |-> 0, last_seen |-> 0]
is_seed(a) == a \in Seeds
is_priority(a) == a \in Priorities
\* f, and g where f says nothing
Over(f, g) == [a \in DOMAIN f \cup DOMAIN g |-> IF a \in DOMAIN f THEN f[a] ELSE g[a]]
Put(list, a, e) == Over([x \in {a} |-> e], list)
Without(list, S) == [a \in DOMAIN list \ S |-> list[a]]

\* The two orders of an index: by time, then the peers seen last first.
Before(t1, s1, t2, s2) == t1 < t2 \/ (t1 = t2 /\ s1 > s2)
\* lower_bound(make_tuple(t, 0, 0)): what stands before a time.
Due(t, seen, limit) == Before(t, seen, limit, 0)
Banned(list) == {a \in DOMAIN list : ~Due(list[a].ban_until, list[a].last_seen, 1)}

\* Bans that ended are lifted.
Unbanned(list) == {a \in Banned(list) : Due(list[a].ban_until, list[a].last_seen, now)}
Lift(list, S, stored) == [a \in DOMAIN stored \cup S |->
  IF a \in S THEN [list[a] EXCEPT !.ban_until = 0, !.next = 0] ELSE stored[a]]
unban(q) ==
  [q EXCEPT !.white = Lift(q.white, Unbanned(q.white), q.white),
            !.gray = Lift(q.gray, Unbanned(q.gray), q.gray),
            !.dbw = Lift(q.white, Unbanned(q.white), q.dbw),
            !.dbg = Lift(q.gray, Unbanned(q.gray), q.dbg)]

\* What trim may keep of a list: the entries that stand first by ban_until.
Kept(list, limit) ==
  {K \in kSubset(Min({limit, Cardinality(DOMAIN list)}), DOMAIN list) :
     \A a \in K, b \in DOMAIN list \ K :
       ~Before(list[b].ban_until, list[b].last_seen, list[a].ban_until, list[a].last_seen)}
\* (The variant forgets del_db.)
Trimmed_mut(q, white, gray) ==
  [q EXCEPT !.white = Without(@, DOMAIN @ \ white), !.gray = Without(@, DOMAIN @ \ gray)]
Trimmed(q, white, gray) ==
  [q EXCEPT !.white = Without(@, DOMAIN @ \ white), !.dbw = Without(@, DOMAIN q.white \ white),
            !.gray = Without(@, DOMAIN @ \ gray), !.dbg = Without(@, DOMAIN q.gray \ gray)]
trim(q) ==
  \E white \in Kept(q.white, WhiteLimit), gray \in Kept(q.gray, GrayLimit) :
    p' = Trimmed(q, white, gray)

\* add_incoming_peer_impl for each of a set of addresses.
Unknown(q, S) == {a \in S : a[2] # 0 /\ a \notin DOMAIN q.white \cup DOMAIN q.gray}
Added(q, S) ==
  LET new == [a \in S |-> NewEntry]
  IN  [q EXCEPT !.gray = Over(new, @), !.dbg = Over(new, @)]
add_incoming(S) == LET q == unban(p) IN trim(Added(q, Unknown(q, S)))

merge_peerlist_from_p2p(S) == add_incoming(S) /\ UNCHANGED now
add_incoming_peer(a) == add_incoming({a}) /\ UNCHANGED now

\* The entry of a peer that sent a message.
SeenEntry(a, e) ==
  [e EXCEPT !.ban_until = 0, !.last_seen = now, !.next = IF is_seed(a) THEN @ ELSE 0]
set_peer_just_seen(a) ==
  LET e == SeenEntry(a, IF a \in DOMAIN p.white THEN p.white[a] ELSE NewEntry)
  IN  /\ p' = [p EXCEPT !.gray = Without(@, {a}), !.dbg = Without(@, {a}),
                        !.white = Put(@, a, e), !.dbw = Put(@, a, e)]
      /\ UNCHANGED now

delay_connection_attempt(a) ==
  /\ a \in DOMAIN p.white
  /\ LET e == [p.white[a] EXCEPT !.next =
                 now + (IF is_priority(a) THEN PRIORITY_RECONNECT_PERIOD ELSE BAN_PERIOD)]
     IN  p' = [p EXCEPT !.white = Put(@, a, e), !.dbw = Put(@, a, e)]
  /\ UNCHANGED now

\* Nothing calls set_peer_banned at present.
BanTime(e, period) == [e EXCEPT !.ban_until = now + period, !.next = now + period]
BanIn(list, stored, a, period) ==
  IF a \in DOMAIN list THEN Put(stored, a, BanTime(list[a], period)) ELSE stored
GrayPeriod(a) == IF is_priority(a) THEN PRIORITY_RECONNECT_PERIOD ELSE BAN_PERIOD
WhitePeriod(a) == IF is_seed(a) \/ is_priority(a) THEN PRIORITY_RECONNECT_PERIOD ELSE BAN_PERIOD
set_peer_banned(a) ==
  /\ p' = IF a \in DOMAIN p.excl
            THEN [p EXCEPT !.excl = BanIn(@, @, a, PRIORITY_RECONNECT_PERIOD)]
            ELSE [p EXCEPT !.gray = BanIn(@, @, a, GrayPeriod(a)),
                           !.dbg = BanIn(p.gray, @, a, GrayPeriod(a)),
                           !.white = BanIn(@, @, a, WhitePeriod(a)),
                           !.dbw = BanIn(p.white, @, a, WhitePeriod(a))]
  /\ UNCHANGED now

is_peer_banned(a) ==
  \/ a \in DOMAIN p.gray /\ now < p.gray[a].ban_until
  \/ a \in DOMAIN p.white /\ now < p.white[a].ban_until

\* get_peer_to_connect: the entries of a list that may be tried first.
Skipped(connected) ==
  connected \cup (IF Cardinality(Seeds \cap connected) >= 2 THEN Seeds ELSE {})
Ready(list, skipped) ==
  {a \in DOMAIN list \ skipped : Due(list[a].next, list[a].last_seen, now)}
FirstOf(list, S) ==
  {a \in S : \A b \in S : ~Before(list[b].next, list[b].last_seen, list[a].next, list[a].last_seen)}
Tried(list, a, period) == [list EXCEPT ![a].next = now + period]
Period(a) == IF is_priority(a) THEN PRIORITY_RECONNECT_PERIOD ELSE RECONNECT_PERIOD

PickExclusive(connected, a) ==
  /\ a \in FirstOf(p.excl, Ready(p.excl, connected))
  /\ p' = [p EXCEPT !.excl = Tried(@, a, PRIORITY_RECONNECT_PERIOD)]
PickWhite(connected, q, a) ==
  /\ a \in FirstOf(q.white, Ready(q.white, Skipped(connected)))
  /\ p' = [q EXCEPT !.white = Tried(@, a, Period(a)), !.dbw = Put(@, a, Tried(q.white, a, Period(a))[a])]
\* The gray list has its turn by chance, or if no white peer is ready.
PickGray(connected, q, a) ==
  /\ a \in FirstOf(q.gray, Ready(q.gray, Skipped(connected)))
  /\ p' = [q EXCEPT !.gray = Tried(@, a, Period(a)), !.dbg = Put(@, a, Tried(q.gray, a, Period(a))[a])]

Pick(connected, a) ==
  IF DOMAIN p.excl # {} THEN PickExclusive(connected, a)
     ELSE PickWhite(connected, unban(p), a) \/ PickGray(connected, unban(p), a)

\* No answer; by chance, also when only a white peer is ready.
NothingReady(connected) ==
  IF DOMAIN p.excl # {} THEN Ready(p.excl, connected) = {}
                    ELSE Ready(unban(p).gray, Skipped(connected)) = {}
PickNone(connected) ==
  /\ NothingReady(connected)
  /\ p' = IF DOMAIN p.excl # {} THEN p ELSE unban(p)

\* get_peerlist_to_p2p: what is told to a peer.
Shareable(q, ip) ==
  {a \in DOMAIN q.white \ Banned(q.white) : Network[a[1]] \in {0, Network[ip]}}
get_peerlist_to_p2p ==
  /\ p' = unban(p)
  /\ UNCHANGED now

\* The constructor, on what is on disk.
Opened(d, exclusive) ==
  [white |-> Over(d.dbw, [a \in Seeds |-> NewEntry]), gray |-> d.dbg,
   excl |-> [a \in exclusive |-> NewEntry], dbw |-> d.dbw, dbg |-> d.dbg]
\* A kill loses what came after the last commit: the node goes on as if it had
\* been stopped at the commit and started now.
Restart ==
  /\ p' = Opened(p, DOMAIN p.excl)
  /\ UNCHANGED now

Tick == now < MaxTime /\ now' = now + 1 /\ UNCHANGED p

\* With the exclusive nodes of the command line.
PeerInit(exclusive) ==
  /\ p = Opened([dbw |-> <<>>, dbg |-> <<>>], exclusive) /\ now = 1 /\ tried = <<>>

Connecteds == {{}} \cup {{a} : a \in Addr}
Handle ==
  \/ \E S \in {Addr} \cup {{a} : a \in Addr} : merge_peerlist_from_p2p(S)
  \/ \E a \in Addr : set_peer_just_seen(a) \/ delay_connection_attempt(a) \/ set_peer_banned(a)
  \/ \E connected \in Connecteds : PickNone(connected) /\ UNCHANGED now
  \/ get_peerlist_to_p2p \/ Restart \/ Tick

\* An entry that is new, dropped, seen or banned does not tell of older attempts.
NextOf(q, a) == {list[a].next : list \in {l \in {q.white, q.gray, q.excl} : a \in DOMAIN l}}
Tells(a) == a \notin Seeds /\ NextOf(p', a) \notin {{}, {0}} /\ ~\E list \in {p'.white, p'.gray} :
              a \in DOMAIN list /\ list[a].ban_until # 0
Told(f) == [a \in {b \in DOMAIN f : Tells(b)} |-> f[a]]

PeerNext ==
  \/ Handle /\ tried' = Told(tried)
  \/ /\ \E connected \in Connecteds, a \in Addr :
          Pick(connected, a) /\ tried' = Told(Put(tried, a, now))
     /\ UNCHANGED now

--------------------------------------------------------------------------------
\* Every entry in memory is in the data base as it is, and nothing else is: a
\* restart after a commit brings the lists back (update_db, del_db next to every
\* change).  A seed that was never talked to is only in memory.
ListsStored ==
  /\ p.gray = p.dbg
  /\ \A a \in DOMAIN p.dbw : a \in DOMAIN p.white /\ p.white[a] = p.dbw[a]
  /\ DOMAIN p.white \ DOMAIN p.dbw \subseteq Seeds

\* An address is in one list only.  A seed is put into the white list again by
\* every start, wherever it was after trim had dropped it.
OneList == DOMAIN p.white \cap DOMAIN p.gray \subseteq Seeds

\* Peers are not tried too often: an entry that was tried and not reset is not
\* due before its period has passed.  (A seed may have two entries: see OneList.)
NotTooOften ==
  \A a \in DOMAIN tried : \A t \in NextOf(p, a) :
    t >= tried[a] + (IF a \in DOMAIN p.excl THEN PRIORITY_RECONNECT_PERIOD ELSE Period(a))

\* A peer that is banned is not tried before the ban ends, whatever delays and
\* attempts come in between, and the list that is shared does not have it.
BansHold ==
  \A list \in {p.white, p.gray, p.excl} : \A a \in DOMAIN list :
    list[a].ban_until > now => list[a].next >= list[a].ban_until

\* Addresses of a private network are told only to peers in it, and no banned
\* peer is told.
SharedList ==
  \A a \in Addr : LET S == Shareable(unban(p), a[1])
                  IN  \A b \in S : /\ Network[b[1]] \in {0, Network[a[1]]}
                                   /\ p.white[b].ban_until <= now
================================================================================
