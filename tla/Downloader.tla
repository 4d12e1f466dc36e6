------------------------------ MODULE Downloader ------------------------------
(***************************************************************************)
(* Node::DownloaderV11: the node asks a client (a connection it opened to  *)
(* another node) for the ids of the blocks it lacks, asks all its clients  *)
(* for the blocks of a window of that chain, lets threads prepare them and *)
(* adds them in order.                                                     *)
(*                                                                         *)
(* The members of the main thread are the record `dl', and a handler is an *)
(* operator from dl to dl.  Handlers disconnect clients, which calls       *)
(* on_disconnect and through it advance_download before they return.       *)
(* Messages of one connection stay in order: asked[c] holds the requests   *)
(* that c has not answered.  Clients are honest nodes of the constant tree *)
(* of blocks, but may move, answer late, never answer, or leave.  Which of *)
(* the clients that have a block is asked depends on their speed, which is *)
(* left open.  The operators that end in _mut are faulty variants of the   *)
(* definition that follows them.                                           *)
(***************************************************************************)
EXTENDS Locator, TLC

CONSTANTS
  Client, NoClient,
  Thread,         \* that prepare blocks
  Idle,           \* a thread without a block
  Window,         \* TOTAL_DOWNLOAD_WINDOW
  MaxDownload,    \* TOTAL_DOWNLOAD_BLOCKS
  GoodLag,        \* GOOD_LAG
  MaxLagging,     \* p2p_default_connections_count / 4
  Imported,       \* the tips that the block files may lead to
  PeerTips,       \* the tips of the other nodes
  MaxConnects     \* bound: connections of a behaviour

ASSUME DownloadAssumption ==
  /\ MaxDownload \in Nat \ {0}
  /\ Window \in Nat
  /\ MaxDownload < Window
  /\ MaxLagging \in Nat
  /\ NoClient \notin Client
  /\ Idle \notin Block
  /\ Imported \subseteq Block
  /\ PeerTips \subseteq Block

VARIABLES
  dl,           \* the main thread: the downloader, what it asked, the chain
  thread,       \* the block that a thread prepares
  prepared,     \* prepared_blocks
  peer,         \* the tip and the blocks of the other nodes
  connects      \* how many connections were made

vars == <<dl, thread, prepared, peer, connects>>

DOWNLOADING == "downloading"
PREPARING   == "preparing"
PREPARED    == "prepared"

\* What the random and speed-dependent choices of a handler among these clients
\* come out as: the client for the n-th request under way.
Choice(clients) ==
  [1..MaxDownload -> IF clients = {} THEN {NoClient} ELSE clients]

Pick(S, c) == IF c \in S THEN c ELSE CHOOSE d \in S : TRUE

DownloadCell(bid, height) ==
  [bid |-> bid, height |-> height, client |-> NoClient,
   status |-> DOWNLOADING, protect |-> FALSE, late |-> FALSE]

Asked(cell) == cell.status = DOWNLOADING /\ cell.client # NoClient
Waiting(cell) == cell.status = DOWNLOADING /\ cell.client = NoClient

NoSync == [height |-> 0, top |-> Genesis]

-------------------------------------------------------------------------------
start_download(s, i, c) ==
  [s EXCEPT !.cells[i].client = c,
            !.cells[i].late = FALSE,
            !.good[c] = @ + 1,
            !.total = @ + 1,
            !.asked[c] = Append(@, [kind |-> "block", bid |-> s.cells[i].bid])]

\* (The first variant forgets the client's own counter.)
stop_download_mut(s, i) ==
  IF ~Asked(s.cells[i]) THEN s
  ELSE [s EXCEPT !.cells[i].client = NoClient, !.total = @ - 1]

stop_download(s, i) ==
  IF ~Asked(s.cells[i]) THEN s
  ELSE LET c == s.cells[i].client
       IN  [s EXCEPT !.cells[i].client = NoClient,
                     !.good[c] = @ - 1,
                     !.total = @ - 1,
                     !.ok = @ /\ s.good[c] # 0 /\ s.total # 0]

\* "cleaning chain" from cell i on.
Cleaned(s, i) ==
  LET last == Len(s.cells) - i + 1
      Stopped[n \in 0..last] ==
        IF n = 0 THEN s ELSE stop_download(Stopped[n - 1], i + n - 1)
  IN  [Stopped[last] EXCEPT !.cells = SubSeq(@, 1, i - 1), !.chain = <<>>]

\* on_disconnect up to advance_download; the connection's requests are gone.
Disconnected(s, c) ==
  [s EXCEPT !.good = [d \in DOMAIN @ \ {c} |-> @[d]],
            !.total = @ - s.good[c],
            !.cells = [i \in DOMAIN @ |->
              IF @[i].client = c THEN [@[i] EXCEPT !.client = NoClient] ELSE @[i]],
            !.client = IF @ = c THEN NoClient ELSE @,
            !.sent = @ /\ s.client # c,
            !.asked[c] = <<>>,
            !.sync[c] = NoSync,
            !.ok = @ /\ s.total >= s.good[c]]

-------------------------------------------------------------------------------
\* advance_chain with nothing left to download.  Too many lagging clients are
\* disconnected one by one, each time through advance_chain again.
Lagging(s) ==
  {c \in DOMAIN s.good : s.sync[c].height + GoodLag < Height[s.tip]}

Dropped(s) ==
  LET lagging == Cardinality(Lagging(s))
      excess == IF lagging > MaxLagging THEN lagging - MaxLagging ELSE 0
      WithoutFirst[n \in 0..excess] ==
        IF n = 0 THEN [s EXCEPT !.client = NoClient]
        ELSE LET t == WithoutFirst[n - 1]
             IN  Disconnected(t, CHOOSE c \in Lagging(t) : TRUE)
  IN  WithoutFirst[excess]

\* The clients to ask for a chain, by the id of their tip.  (The first variant
\* goes by its height.)
worth_clients_mut(s) ==
  {c \in DOMAIN s.good : s.sync[c].height > Height[s.tip]}

worth_clients(s) == {c \in DOMAIN s.good : s.sync[c].top \notin s.known}

RequestChain(s, c) ==
  [s EXCEPT !.client = c, !.sent = TRUE,
            !.asked[c] = Append(@, [kind |-> "chain",
                                    locator |-> get_sparse_chain(s.tip)])]

AskOneOf(s, worth, ch) ==
  IF worth = {} THEN s ELSE RequestChain(s, Pick(worth, ch[1]))

AskForChain(s, ch) == AskOneOf(s, worth_clients(s), ch)

advance_chain(s, ch) ==
  IF s.chain # <<>> \/ s.cells # <<>> \/ s.sent THEN s
  ELSE AskForChain(Dropped(s), ch)

\* Cells for the next blocks of m_chain, up to the window.
Filled(s) ==
  LET n == Min({Window - Len(s.cells), Len(s.chain)})
  IN  [s EXCEPT !.cells = @ \o [k \in 1..n |->
                                  DownloadCell(s.chain[k], s.start + k - 1)],
                !.chain = SubSeq(@, n + 1, Len(@)),
                !.start = @ + n]

\* Whom to ask for the block of cell i.
Ready(s, i, ch) ==
  LET able == {c \in DOMAIN s.good : s.sync[c].height >= s.cells[i].height}
  IN  IF able # {} THEN Pick(able, ch[s.total + 1]) ELSE s.client

\* One turn of the loop over the cells; r.clean is its early return.
AssignTo(r, i, c) ==
  IF c = NoClient THEN [s |-> Cleaned(r.s, i), clean |-> TRUE]
  ELSE [r EXCEPT !.s = start_download(@, i, c)]

Assign(r, i, ch) ==
  IF r.clean \/ ~Waiting(r.s.cells[i]) \/ r.s.total >= MaxDownload THEN r
  ELSE AssignTo(r, i, Ready(r.s, i, ch))

Assigned(s, ch) ==
  LET Upto[i \in 0..Len(s.cells)] ==
        IF i = 0 THEN [s |-> s, clean |-> FALSE] ELSE Assign(Upto[i - 1], i, ch)
  IN  Upto[Len(s.cells)]

Returned(r, ch) == IF r.clean THEN [r EXCEPT !.s = advance_chain(@, ch)] ELSE r

\* advance_download up to the test for slow clients.
Pass(s, ch) == Returned(Assigned(advance_chain(Filled(s), ch), ch), ch)

\* bad_timeout or bad_relatively_slow.  (The first variant has no bad_timeout.)
Slow_mut(s) ==
  /\ s.cells # <<>>
  /\ Asked(s.cells[1])
  /\ ~s.cells[1].protect
  /\ s.total < MaxDownload
  /\ Len(s.cells) >= Window
  /\ Cardinality(DOMAIN s.good) > 1

Slow(s) ==
  /\ s.cells # <<>>
  /\ Asked(s.cells[1])
  /\ ~s.cells[1].protect
  /\ \/ s.cells[1].late
     \/ /\ s.total < MaxDownload
        /\ Len(s.cells) >= Window
        /\ Cardinality(DOMAIN s.good) > 1

\* The client of the first cell is disconnected and its cells are protected: the
\* call of advance_download by on_disconnect finds the first cell protected, so
\* that it disconnects no other client.
Protected(s, who) ==
  [s EXCEPT !.cells = [i \in DOMAIN @ |->
     IF @[i].client = who THEN [@[i] EXCEPT !.protect = TRUE] ELSE @[i]]]

WithoutSlacker(r, ch) ==
  IF r.clean \/ ~Slow(r.s) THEN r.s
  ELSE LET who == r.s.cells[1].client
       IN  Pass(Disconnected(Protected(r.s, who), who), ch).s

advance_download(s, ch) ==
  IF s.importing THEN s ELSE WithoutSlacker(Pass(s, ch), ch)

on_disconnect(s, c, ch) == advance_download(Disconnected(s, c), ch)

-------------------------------------------------------------------------------
\* The answer with the ids: what is known or being downloaded is cut from its
\* front.
Cut(s, ids) ==
  LET have == s.known \cup {s.cells[i].bid : i \in DOMAIN s.cells}
      n == Max({k \in 0..Len(ids) : \A i \in 1..k : ids[i] \in have})
  IN  n

on_msg_notify_request_chain(s, c, a, ch) ==
  IF s.client # c \/ ~s.sent THEN s
  ELSE LET n == Cut(s, a.ids)
           t == [s EXCEPT !.sent = FALSE,
                          !.chain = SubSeq(a.ids, n + 1, Len(a.ids)),
                          !.start = a.start + n]
       IN  advance_download(IF a.ids = <<>> THEN on_disconnect(t, c, ch) ELSE t, ch)

\* The cell that waits for this block from this client.
CellOf(s, c, b) ==
  {i \in DOMAIN s.cells : Asked(s.cells[i]) /\ s.cells[i].client = c
                            /\ s.cells[i].bid = b}

\* The answer with a block; without a cell it is a stray one.  (The first variant
\* does not hand the block to the threads.)
on_block_mut(s, c, b, ch) ==
  IF CellOf(s, c, b) = {} THEN advance_download(s, ch)
  ELSE LET i == Min(CellOf(s, c, b))
       IN  advance_download([stop_download(s, i) EXCEPT !.cells[i].status = PREPARING],
                            ch)

on_block(s, c, b, ch) ==
  IF CellOf(s, c, b) = {} THEN advance_download(s, ch)
  ELSE LET i == Min(CellOf(s, c, b))
       IN  advance_download([stop_download(s, i) EXCEPT
                               !.cells[i].status = PREPARING,
                               !.work = Append(@, b)], ch)

\* The answer that the client does not have the block: the client that gave us
\* the chain is asked, unless there is none or it was this one.
on_missed(s, c, b, ch) ==
  IF CellOf(s, c, b) = {} THEN advance_download(s, ch)
  ELSE LET i == Min(CellOf(s, c, b))
           t == stop_download(s, i)
       IN  IF s.client \in {NoClient, c} THEN advance_download(Cleaned(t, i), ch)
           ELSE advance_download(start_download(t, i, s.client), ch)

\* add_block of a valid block: an orphan is ignored, more work moves the tip.
add_block(s, b) ==
  IF b \in s.known \/ Parent[b] \notin s.known THEN s
  ELSE [s EXCEPT !.known = @ \cup {b},
                 !.tip = IF Height[b] > Height[@] THEN b ELSE @]

\* add_block of the blocks, one after the other.
add_blocks(s, blocks) ==
  LET Upto[n \in 0..Len(blocks)] ==
        IF n = 0 THEN s ELSE add_block(Upto[n - 1], blocks[n])
  IN  Upto[Len(blocks)]

-------------------------------------------------------------------------------
Init ==
  /\ dl = [good |-> <<>>, total |-> 0, cells |-> <<>>, chain |-> <<>>,
           start |-> 0, client |-> NoClient, sent |-> FALSE, work |-> <<>>,
           asked |-> [c \in Client |-> <<>>], sync |-> [c \in Client |-> NoSync],
           known |-> {Genesis}, tip |-> Genesis, importing |-> TRUE, ok |-> TRUE]
  /\ thread = [t \in Thread |-> Idle]
  /\ prepared = {}
  /\ peer \in [Client -> {[tip |-> b, stored |-> Range(Path[b])] : b \in PeerTips}]
  /\ connects = 0

\* on_idle of the node while blocks are still read from files.
Import(b, more) ==
  /\ dl.importing
  /\ Height[b] >= Height[dl.tip]
  /\ \E ch \in Choice(DOMAIN dl.good) :
       dl' = advance_download([add_blocks(dl, Path[b]) EXCEPT
                                 !.importing = more], ch)
  /\ UNCHANGED <<thread, prepared, peer, connects>>

\* The handshake of an outgoing connection is complete.
on_connect(c) ==
  /\ c \notin DOMAIN dl.good
  /\ connects < MaxConnects
  /\ connects' = connects + 1
  /\ \E ch \in Choice(DOMAIN dl.good \cup {c}) :
       dl' = advance_download(
               [dl EXCEPT !.good = [d \in DOMAIN @ \cup {c} |-> IF d = c THEN 0 ELSE @[d]],
                          !.sync[c] = [height |-> Height[peer[c].tip],
                                       top |-> peer[c].tip]], ch)
  /\ UNCHANGED <<thread, prepared, peer>>

\* The connection breaks, at any time.
Lost(c) ==
  /\ c \in DOMAIN dl.good
  /\ \E ch \in Choice(DOMAIN dl.good \ {c}) : dl' = on_disconnect(dl, c, ch)
  /\ UNCHANGED <<thread, prepared, peer, connects>>

\* The client answers the oldest request, by the same code as this node.
Served(c) == [dl EXCEPT !.asked[c] = Tail(@)]

AnswerChain(c) ==
  /\ dl.asked[c] # <<>>
  /\ Head(dl.asked[c]).kind = "chain"
  /\ \E ch \in Choice(DOMAIN dl.good) :
       dl' = on_msg_notify_request_chain(Served(c), c,
               get_sync_headers_chain(peer[c].stored, peer[c].tip,
                                      Head(dl.asked[c]).locator), ch)
  /\ UNCHANGED <<thread, prepared, peer, connects>>

AnswerBlock(c) ==
  /\ dl.asked[c] # <<>>
  /\ Head(dl.asked[c]).kind = "block"
  /\ LET b == Head(dl.asked[c]).bid
     IN  \E ch \in Choice(DOMAIN dl.good) :
           dl' = IF b \in peer[c].stored THEN on_block(Served(c), c, b, ch)
                                         ELSE on_missed(Served(c), c, b, ch)
  /\ UNCHANGED <<thread, prepared, peer, connects>>

\* A timed sync, request or response, tells the client's tip.
on_msg_timed_sync(c) ==
  /\ c \in DOMAIN dl.good
  /\ \E ch \in Choice(DOMAIN dl.good) :
       dl' = advance_download([dl EXCEPT !.sync[c] =
               [height |-> Height[peer[c].tip], top |-> peer[c].tip]], ch)
  /\ UNCHANGED <<thread, prepared, peer, connects>>

\* The client relays the block that is its tip.
on_msg_notify_new_block(c) ==
  /\ c \in DOMAIN dl.good
  /\ dl.sync[c].top # peer[c].tip
  /\ \E ch \in Choice(DOMAIN dl.good) :
       dl' = advance_download([add_block(dl, peer[c].tip) EXCEPT !.sync[c] =
               [height |-> Height[peer[c].tip], top |-> peer[c].tip]], ch)
  /\ UNCHANGED <<thread, prepared, peer, connects>>

\* A block arrives on an incoming connection, which is no client.
Relayed(b) ==
  /\ b \notin dl.known
  /\ Parent[b] \in dl.known
  /\ \E ch \in Choice(DOMAIN dl.good) : dl' = advance_download(add_block(dl, b), ch)
  /\ UNCHANGED <<thread, prepared, peer, connects>>

\* Another node moves to a better branch; it keeps the blocks of the old one.
Move(c, b) ==
  /\ Height[b] > Height[peer[c].tip]
  /\ peer' = [peer EXCEPT ![c] = [tip |-> b, stored |-> @.stored \cup Range(Path[b])]]
  /\ UNCHANGED <<dl, thread, prepared, connects>>

\* The age of a request passes the limit that applies to it.
Late(i) ==
  /\ i \in DOMAIN dl.cells
  /\ Asked(dl.cells[i])
  /\ ~dl.cells[i].late
  /\ dl' = [dl EXCEPT !.cells[i].late = TRUE]
  /\ UNCHANGED <<thread, prepared, peer, connects>>

on_chain_timer ==
  /\ dl.sent
  /\ \E ch \in Choice(DOMAIN dl.good) : dl' = on_disconnect(dl, dl.client, ch)
  /\ UNCHANGED <<thread, prepared, peer, connects>>

on_download_timer ==
  /\ dl.cells # <<>>
  /\ LET front == dl.cells[1]
     IN  /\ Asked(front)
         /\ front.protect
         /\ front.late
         /\ \E ch \in Choice(DOMAIN dl.good) : dl' = on_disconnect(dl, front.client, ch)
  /\ UNCHANGED <<thread, prepared, peer, connects>>

\* thread_run: a block is taken from the queue, prepared without the lock, and
\* put among the prepared ones.
Take(t) ==
  /\ thread[t] = Idle
  /\ dl.work # <<>>
  /\ thread' = [thread EXCEPT ![t] = Head(dl.work)]
  /\ dl' = [dl EXCEPT !.work = Tail(@)]
  /\ UNCHANGED <<prepared, peer, connects>>

Finish(t) ==
  /\ thread[t] # Idle
  /\ prepared' = prepared \cup {thread[t]}
  /\ thread' = [thread EXCEPT ![t] = Idle]
  /\ UNCHANGED <<dl, peer, connects>>

\* on_idle: prepared blocks go to their cells, and the blocks at the front are
\* added, at least one of them and as many as 100 ms allow.
Matched ==
  [dl EXCEPT !.cells = [i \in DOMAIN @ |->
     IF @[i].status = PREPARING /\ @[i].bid \in prepared
     THEN [@[i] EXCEPT !.status = PREPARED] ELSE @[i]]]

Added(s, n) ==
  [add_blocks(s, [i \in 1..n |-> s.cells[i].bid]) EXCEPT
     !.cells = SubSeq(@, n + 1, Len(@))]

Idling(n) ==
  /\ n <= Len(Matched.cells)
  /\ \A i \in 1..n : Matched.cells[i].status = PREPARED
  /\ IF n = 0
     THEN /\ Len(Matched.cells) > 0 => Matched.cells[1].status # PREPARED
          /\ dl' = Matched
     ELSE \E ch \in Choice(DOMAIN dl.good) : dl' = advance_download(Added(Matched, n), ch)

on_idle ==
  /\ ~dl.importing
  /\ \E n \in 0..Window : Idling(n)
  /\ prepared' = {}
  /\ UNCHANGED <<thread, peer, connects>>

Next ==
  \/ \E b \in Imported, more \in BOOLEAN : Import(b, more)
  \/ \E c \in Client : on_connect(c) \/ Lost(c)
  \/ \E c \in Client : AnswerChain(c) \/ AnswerBlock(c)
  \/ \E c \in Client : on_msg_timed_sync(c) \/ on_msg_notify_new_block(c)
  \/ \E c \in Client, b \in PeerTips : Move(c, b)
  \/ \E b \in PeerTips : Relayed(b)
  \/ \E i \in 1..Window : Late(i)
  \/ on_chain_timer
  \/ on_download_timer
  \/ \E t \in Thread : Take(t) \/ Finish(t)
  \/ on_idle

Spec == Init /\ [][Next]_vars

-------------------------------------------------------------------------------
Cells == DOMAIN dl.cells
AskedCells == {i \in Cells : Asked(dl.cells[i])}

\* The counters of the blocks under way, for every client and in total, are
\* those of the cells, however clients come and go while handlers run: the
\* invariants of stop_download and on_disconnect hold.
CountersExact ==
  /\ dl.ok
  /\ dl.total = Cardinality(AskedCells)
  /\ \A c \in DOMAIN dl.good :
       dl.good[c] = Cardinality({i \in AskedCells : dl.cells[i].client = c})

\* No pointer to a client outlives its connection: m_chain_client and the
\* clients of the cells are connected after every handler.
NoDeadClient ==
  /\ dl.client \in DOMAIN dl.good \cup {NoClient}
  /\ \A i \in AskedCells : dl.cells[i].client \in DOMAIN dl.good
  /\ dl.sent => dl.client # NoClient

\* The limits of blocks under way and of the window hold.
WindowBounded == dl.total <= MaxDownload /\ Len(dl.cells) <= Window

\* A handler never leaves a block without a client while a request is free, and
\* requests go to the blocks that are needed first: otherwise the front of the
\* window, the only cell with a time-out, could be left without a request.
FrontIsServed ==
  \A i \in Cells :
    Waiting(dl.cells[i]) => /\ dl.total >= MaxDownload
                            /\ \A j \in AskedCells : j < i

\* Whatever the downloader waits for is under way: an asked block or chain is
\* among the unanswered requests of that connection, and a block in preparation
\* is queued, with a thread, or prepared, also when the chain was cleaned and
\* the same blocks are downloaded again while old results still come in.
NothingForgotten ==
  /\ \A i \in AskedCells :
       \E n \in DOMAIN dl.asked[dl.cells[i].client] :
         dl.asked[dl.cells[i].client][n] = [kind |-> "block", bid |-> dl.cells[i].bid]
  /\ dl.sent => \E n \in DOMAIN dl.asked[dl.client] :
                  dl.asked[dl.client][n].kind = "chain"
  /\ \A i \in Cells : dl.cells[i].status = PREPARING =>
       dl.cells[i].bid \in Range(dl.work) \cup Range(thread) \cup prepared

\* The cells and what is left of m_chain form one line of blocks that begins on
\* a stored block, and the heights counted along it are those of the blocks: no
\* block is handed to add_block before its parent.
InOrder ==
  LET line == [i \in Cells |-> dl.cells[i].bid] \o dl.chain
  IN  /\ line # <<>> => Parent[line[1]] \in dl.known
      /\ \A i \in 2..Len(line) : Parent[line[i]] = line[i - 1]
      /\ \A i \in Cells : dl.cells[i].height = Height[dl.cells[i].bid]
      /\ dl.chain # <<>> => dl.start = Height[dl.chain[1]]
===============================================================================
