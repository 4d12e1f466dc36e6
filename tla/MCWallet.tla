--------------------------- MODULE MCWallet ---------------------------
(***************************************************************************)
(* The wallet's state and the loop in which it follows a node, one of them *)
(* in each behaviour.                                                      *)
(*                                                                         *)
(* WalletState has two branches above block b1, and the payment is in      *)
(* blocks of different heights of the two.  Output 1 and the larger output *)
(* 4 share a key image; output 2 is locked to a height, output 3 to a      *)
(* time.  The wallet starts with address a1; the key of a2, which received *)
(* output 5, is imported.                                                  *)
(*                                                                         *)
(* WalletSync has a fork above genesis, and transaction 1 is in a block of *)
(* both branches.                                                          *)
(***************************************************************************)
EXTENDS WalletState

MCBlock == {"g", "b1", "b2", "b3", "b4", "c2", "c3", "c4"}
MCParent == [b1 |-> "g", b2 |-> "b1", b3 |-> "b2", b4 |-> "b3", c2 |-> "b1", c3 |-> "c2", c4 |-> "c3"]
MCHeight == [g |-> 0, b1 |-> 1, b2 |-> 2, b3 |-> 3, b4 |-> 4, c2 |-> 2, c3 |-> 3, c4 |-> 4]
MCPath ==
  [g |-> <<"g">>, b1 |-> <<"g", "b1">>, b2 |-> <<"g", "b1", "b2">>,
   b3 |-> <<"g", "b1", "b2", "b3">>, b4 |-> <<"g", "b1", "b2", "b3", "b4">>,
   c2 |-> <<"g", "b1", "c2">>, c3 |-> <<"g", "b1", "c2", "c3">>,
   c4 |-> <<"g", "b1", "c2", "c3", "c4">>]
MCTS == [g |-> 0, b1 |-> 16, b2 |-> 20, b3 |-> 22, b4 |-> 30, c2 |-> 14, c3 |-> 21, c4 |-> 30]
MCMedian == [g |-> 0, b1 |-> 0, b2 |-> 10, b3 |-> 10, b4 |-> 18, c2 |-> 10, c3 |-> 10, c4 |-> 18]
MCBlockTxs ==
  [g |-> <<"x">>, b1 |-> <<"x">>, b2 |-> <<"base", "lockh">>, b3 |-> <<"x", "pay", "dup">>,
   b4 |-> <<"x", "early">>, c2 |-> <<"x">>, c3 |-> <<"base", "dup">>, c4 |-> <<"x", "lockh", "pay">>]
MCTx == {"x", "base", "lockh", "dup", "pay", "early"}
MCOutput == 1..5
MCAmount == <<1, 2, 2, 3, 4>>
MCOwner == <<"a1", "a1", "a1", "a1", "a2">>
MCImage == <<"k1", "k2", "k3", "k1", "k5">>
MCLock == <<[kind |-> "now", at |-> 0], [kind |-> "height", at |-> 4],
            [kind |-> "time", at |-> 18], [kind |-> "time", at |-> 18], [kind |-> "now", at |-> 0]>>
MCInputs == [x |-> {}, base |-> {}, lockh |-> {"kx"}, dup |-> {"kx"}, pay |-> {"k1"}, early |-> {"k2"}]
MCOutputs == [x |-> <<>>, base |-> <<1, 5>>, lockh |-> <<2>>, dup |-> <<4>>, pay |-> <<3>>, early |-> <<>>]
MCKeyImage == {"k1", "k2", "k3", "k5", "kx"}
MCClaimed == [a1 |-> 27, a2 |-> 25]
MCCreated == [a1 |-> 20, a2 |-> 18]

--------------------------------------------------------------------------------
SyBlock == {"g", "a1", "b1", "b2"}
SyParent == [a1 |-> "g", b1 |-> "g", b2 |-> "b1"]
SyHeight == [g |-> 0, a1 |-> 1, b1 |-> 1, b2 |-> 2]
SyPath == [g |-> <<"g">>, a1 |-> <<"g", "a1">>, b1 |-> <<"g", "b1">>, b2 |-> <<"g", "b1", "b2">>]
SyBlockTxs == [g |-> {}, a1 |-> {1}, b1 |-> {}, b2 |-> {1}]

VARIABLES
  part,
  node, w, queue, sent_request, wire, m_status_timer, reconnect_timer, offered, had, untold, faults

Sy == INSTANCE WalletSync WITH
        Block <- SyBlock, Genesis <- "g", Parent <- SyParent, Height <- SyHeight, Path <- SyPath,
        BlockTxs <- SyBlockTxs, Dense <- 10, MaxIds <- 2, Tx <- 1..3, Payment <- {2},
        Rivals <- <<{2}, {1, 3}, {2}>>,
        MaxVersion <- 3, MaxFaults <- 1, pq <- queue

ASSUME SyncAssumption == Sy!SyncAssumption

sy == <<node, w, queue, sent_request, wire, m_status_timer, reconnect_timer, offered, had, untold, faults>>
all == <<part, vars, sy>>

MCInit == /\ part \in {"state", "sync"}
          /\ Init
          /\ Sy!Init /\ node.tip = "g"
          /\ node.pool = IF part = "sync" THEN {1, 3} ELSE {}
          /\ part = "sync" \/ queue = {}

InSync(A) == part = "sync" /\ A /\ UNCHANGED <<part, vars>>
MCNext ==
  \/ part = "state" /\ Next /\ UNCHANGED <<part, sy>>
  \/ InSync(Sy!Next)

\* Timers fire, answers are delivered, a running node handles requests, and a
\* node that was stopped is started again.
MCSpec ==
  /\ MCInit /\ [][MCNext]_all
  /\ WF_all(InSync(Sy!send_get_status)) /\ WF_all(InSync(Sy!on_client_response))
  /\ WF_all(InSync(Sy!on_reconnect_timer))
  /\ WF_all(InSync(Sy!NodeHandles)) /\ WF_all(InSync(Sy!NodeStarts))

\* What the wallet holds is what the chain, the node's pool and the queue say,
\* through reorganizations, imported keys and kills: the cache is that of the
\* blocks scanned and the balances kept by addition are sums of outputs, one of
\* several outputs with one key image is spendable and none that was spent, the
\* API's balance is the sum of the outputs it lists and its pages leave nothing
\* out, memory holds exactly the pending transactions, a payment is confirmed
\* exactly when the cache has it, and no data base operation makes the code exit
\* (WalletStateBasic.cpp, WalletState.cpp).
WalletExact ==
  part = "state" =>
    /\ NeverExits /\ CacheExact /\ BalanceIsSum /\ OneCoinPerKeyImage
    /\ ApiAgrees /\ TransfersComplete /\ MemoryExact /\ QueueFollowsChain

\* A payment leaves the queue, and its file the disk, only when the chain has it and
\* is Day blocks above a block that had it, or the node's refusal is as deep; a
\* restart finds it again (fix_payment_queue_after_undo_redo).  The loop meanwhile
\* is never idle and never asks twice; it takes no old view of the pool for a new
\* one unless the node's tip and version do not tell the change, and a parked
\* request has nothing to be told unless a reorganization failed while it waited
\* (advance_sync; PoolViewExact and ParkedIsCurrent name both exceptions).
PaymentsKept ==
  /\ PaymentKept
  /\ [](part = "sync" => Sy!PoolViewExact /\ Sy!LoopRuns /\ Sy!ParkedIsCurrent)

\* Once the node stops to change the wallet reaches its tip and the pool that its
\* status tells, whatever was lost on the way, unless a failed reorganization left
\* the request parked (Follows); a payment in the queue when the wallet learns of a
\* new block reaches the node or is no longer wanted, unless the node comes back to
\* a tip it had before and has nothing to tell (PaymentOffered).
WalletFollows ==
  /\ <>[](part = "sync" => Sy!Follows)
  /\ Sy!PaymentOffered
============================================================================
