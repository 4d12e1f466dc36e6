-------------------------------- MODULE MCSync --------------------------------
(***************************************************************************)
(* How a node catches up, in two grains, one in each behaviour.            *)
(*                                                                         *)
(* "rounds" is ChainSync over three branches: 0 - 1 - ... - 13, then       *)
(* 111 - ... - 114 that leaves the first one after block 10, and           *)
(* 201 - 202 that leaves it after 0.  An answer has fewer blocks than the  *)
(* chain; it has room for the blocks that the long fork can make it send   *)
(* twice and for a branch longer than the one to be left.                  *)
(*                                                                         *)
(* "download" is Downloader with two clients on a tree                     *)
(* g - a1 - a2 - a3 - a4, a1 - b2.  By itself it is checked with more      *)
(* threads and a larger window (DownloadSpec).  The event loop never stops,*)
(* so that a behaviour has infinitely many steps, some of which change     *)
(* nothing but `tick'; a fair action is taken infinitely often or          *)
(* infinitely often there is no occasion for it.                           *)
(***************************************************************************)
EXTENDS Downloader

CONSTANTS CsBlock, CsGenesis, CsParent, CsHeight, CsPath, CsMaxIds   \* of ChainSync

MCBlock == {"g", "a1", "a2", "a3", "a4", "b2"}
MCParent == [a1 |-> "g", a2 |-> "a1", a3 |-> "a2", a4 |-> "a3", b2 |-> "a1"]
MCHeight == [g |-> 0, a1 |-> 1, a2 |-> 2, a3 |-> 3, a4 |-> 4, b2 |-> 2]
MCPath == [g |-> <<"g">>, a1 |-> <<"g", "a1">>, a2 |-> <<"g", "a1", "a2">>,
           a3 |-> <<"g", "a1", "a2", "a3">>,
           a4 |-> <<"g", "a1", "a2", "a3", "a4">>, b2 |-> <<"g", "a1", "b2">>]
Symmetry == Permutations(Client) \cup Permutations(Thread)

RoundsBlock == 0..13 \cup 111..114 \cup 201..202
RoundsParent == [b \in RoundsBlock \ {0} |-> CASE b = 111 -> 10 [] b = 201 -> 0 [] OTHER -> b - 1]
Main == <<0, 1, 2, 3, 4, 5, 6, 7, 8, 9, 10, 11, 12, 13>>
Side == <<0, 1, 2, 3, 4, 5, 6, 7, 8, 9, 10, 111, 112, 113, 114>>
RoundsPath == [b \in RoundsBlock |->
  SubSeq(IF b < 100 THEN Main ELSE IF b < 200 THEN Side ELSE <<0, 201, 202>>,
         1, (b % 100) + 1)]
RoundsHeight == [b \in RoundsBlock |-> b % 100]

VARIABLES
  part, tick,
  mine, my_blocks, theirs, their_blocks, locator, answer

Cs == INSTANCE ChainSync WITH
        Block <- CsBlock, Genesis <- CsGenesis, Parent <- CsParent, Height <- CsHeight,
        Path <- CsPath, MaxIds <- CsMaxIds

ASSUME RoundsAssumption == Cs!TreeOfBlocks

cs == <<mine, my_blocks, theirs, their_blocks, locator, answer>>
sync == <<part, tick, vars, cs>>

SyncInit ==
  /\ part \in {"rounds", "download"} /\ tick = 0
  /\ Init /\ (part = "download" \/ peer = CHOOSE p \in [Client -> {[tip |-> b, stored |-> Range(Path[b])] : b \in PeerTips}] : TRUE)
  /\ Cs!Init /\ (part = "rounds" \/ (mine = CsGenesis /\ theirs = CsGenesis /\ their_blocks = {CsGenesis}))

\* "download" until the end, or rounds with pauses.
SyncNext ==
  /\ \/ part = "rounds" /\ Cs!Next /\ UNCHANGED vars
     \/ part = "rounds" /\ UNCHANGED <<cs, vars>>
     \/ part = "download" /\ Next /\ UNCHANGED cs
  /\ tick' = 1 - tick
  /\ UNCHANGED part

\* "download" alone, without the clock
DownloadSpec ==
  (SyncInit /\ part = "download") /\ [][Next /\ UNCHANGED <<part, tick, cs>>]_sync

AskedAt(i) == i \in DOMAIN dl.cells /\ Asked(dl.cells[i])
FrontProtectedLate ==
  AskedAt(1) /\ dl.cells[1].protect /\ dl.cells[1].late

\* In rounds, the messages under way arrive.  In "download" the event loop, the
\* threads and the timers run; no client need answer, or send anything.
Rounds == part = "rounds"
NothingToExchange == locator = <<>> /\ answer = {} /\ theirs \in my_blocks
Fairness ==
  /\ []<><<IF Rounds THEN NothingToExchange \/ Cs!Exchange
           ELSE ~dl.importing \/ \E b \in Imported : Import(b, FALSE)>>_tick
  /\ []<><<Rounds \/ dl.importing \/ on_idle>>_tick
  /\ \A t \in Thread :
       []<><<Rounds \/ (thread[t] = Idle /\ dl.work = <<>>) \/ Take(t) \/ Finish(t)>>_tick
  /\ \A i \in 1..Window :
       []<><<Rounds \/ ~AskedAt(i) \/ dl.cells[i].late \/ Late(i)>>_tick
  /\ []<><<Rounds \/ ~dl.sent \/ on_chain_timer>>_tick
  /\ []<><<Rounds \/ ~FrontProtectedLate \/ on_download_timer>>_tick

SyncSpec == SyncInit /\ [][SyncNext]_sync /\ Fairness

-------------------------------------------------------------------------------
\* The counters of the blocks under way are those of the cells, no pointer to a
\* client outlives its connection, the limits hold, and no block at the front of
\* the window waits while one further back is under way: after every handler,
\* however clients come and go while handlers run (advance_download, on_disconnect).
RequestsSound == CountersExact /\ NoDeadClient /\ WindowBounded /\ FrontIsServed

\* Whatever the downloader waits for is under way, also when the chain was
\* cleaned and the same blocks are downloaded again while old results still come
\* in, and no block is handed to add_block before its parent
\* (on_idle, on_msg_notify_request_objects).
DownloadSound == NothingForgotten /\ InOrder

\* The answer to a sparse chain begins with a block that the asking node has
\* stored and goes on block by block, whatever branches either node is on and
\* however they moved since, and what it repeats is no more than the depth of
\* the fork (get_sync_headers_chain).
AnswersConnect == Cs!AnswerConnects /\ Cs!OverlapBounded

\* Every block leaves the download window, added or given up with the chain, if
\* advance_download keeps being run while the front waits for an answer: by the
\* client itself, another one, or a relayed block.  Then none holds it up for ever
\* by not answering, whatever else it sends, because every request has a time-out
\* once it is at the front (advance_download for one that is not protected,
\* on_download_timer for one that is).  The condition is needed: only on_download_timer
\* runs by itself, and a message that does not run advance_download, like a
\* transaction, keeps both timers of the connection from firing.
RunsAdvanceDownload ==
  \/ \E c \in Client : on_connect(c) \/ Lost(c) \/ AnswerBlock(c)
  \/ \E c \in Client : on_msg_timed_sync(c) \/ on_msg_notify_new_block(c)
  \/ \E b \in PeerTips : Relayed(b)
FrontUnprotected == AskedAt(1) /\ ~dl.cells[1].protect
KeepsBeingRun == []<><<Rounds \/ ~FrontUnprotected \/ RunsAdvanceDownload>>_tick
InWindow(b) == \E i \in Cells : dl.cells[i].bid = b
CellsLeave == KeepsBeingRun => \A b \in Block : InWindow(b) ~> ~InWindow(b)

\* Rounds end with the other node's tip stored once that node stays where it is:
\* an answer is never so short, or begins so low, that it brings nothing new for
\* ever.  And if clients answer, the node in the end stores the tip that every
\* client still connected has announced, on a side branch too.
ClientsAnswer ==
  \A c \in Client :
    []<><<Rounds \/ dl.asked[c] = <<>> \/ AnswerChain(c) \/ AnswerBlock(c)>>_tick
Settled == IF Rounds THEN theirs \in my_blocks
                     ELSE \A c \in DOMAIN dl.good : dl.sync[c].top \in dl.known
CatchesUp == ClientsAnswer => <>[]Settled
===============================================================================
