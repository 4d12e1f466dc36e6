----------------------------- MODULE MCBlockChain -----------------------------
(***************************************************************************)
(* The block chain and the two pools of threads, one of them in each       *)
(* behaviour.                                                              *)
(*                                                                         *)
(* A tree of seven blocks for BlockChain: branch a of three light blocks,  *)
(* branch b that forks from genesis, and a fork c from the middle of       *)
(* branch a.  Block b2 alone has more work than all of branch a, so a      *)
(* reorganization that fails half way ends on a lighter chain.             *)
(*                                                                         *)
(* The ring checker with three workers (the code starts at least two),     *)
(* blocks of up to three inputs of every kind and three blocks, so that    *)
(* results of a refused block can arrive during either of the next two;    *)
(* the wallet's preparation with two workers and three answers over the    *)
(* same heights.                                                           *)
(***************************************************************************)
EXTENDS BlockChain

CONSTANTS g, a1, a2, a3, b1, b2, c2, none

MCBlock == {g, a1, a2, a3, b1, b2, c2}

MCParent ==
  [b \in MCBlock \ {g} |->
     CASE b \in {a1, b1} -> g
       [] b \in {a2, c2} -> a1
       [] b = a3 -> a2
       [] b = b2 -> b1]

MCHeight ==
  [b \in MCBlock |-> CASE b = g -> 0
                       [] b \in {a1, b1} -> 1
                       [] b \in {a2, b2, c2} -> 2
                       [] b = a3 -> 3]

MCCumDiff ==
  [b \in MCBlock |-> CASE b = g -> 1
                       [] b = a1 -> 2
                       [] b = a2 -> 3
                       [] b = a3 -> 5
                       [] b = b1 -> 2
                       [] b = b2 -> 6
                       [] b = c2 -> 4]

-------------------------------------------------------------------------------
CONSTANTS
  MaxWithFatal,                       \* bounds the blocks not applied if there is a fatal one
  RingWorker, MaxInputs, MaxBlocks,   \* the ring checker's threads and bounds
  PrepWorker, MaxHeight, MaxCalls     \* those of the wallet's preparation

VARIABLES
  part,
  args, errors, ready_counter, total_counter, r_counter, r_quit, r_worker, r_main,
  block, fed, result, counted,                                     \* RingChecker
  p_work, prepared, p_counter, p_quit, p_worker, p_main, call, want, last, got

Rc == INSTANCE RingChecker WITH
        Worker <- RingWorker, work_counter <- r_counter, quit <- r_quit, worker <- r_worker, main <- r_main

Wp == INSTANCE WalletPrep WITH
        Worker <- PrepWorker, work <- p_work, work_counter <- p_counter, quit <- p_quit,
        worker <- p_worker, main <- p_main

ASSUME ThreadsAssumption == Rc!PoolAssumption /\ Wp!PrepAssumption

ring == <<args, errors, ready_counter, total_counter, r_counter, r_quit, r_worker, r_main,
          block, fed, result, counted>>
prep == <<p_work, prepared, p_counter, p_quit, p_worker, p_main, call, want, last, got>>
all == <<part, vars, ring, prep>>

MCInit == /\ part \in {"chain", "ring", "prep"}
          /\ Init /\ (part = "chain" \/ invalid = {})
          /\ fatal = {} \/ Cardinality(invalid) <= MaxWithFatal
          /\ Rc!Init /\ Wp!Init

InChain(A) == part = "chain" /\ A /\ UNCHANGED <<part, ring, prep>>
InRing(A) == part = "ring" /\ A /\ UNCHANGED <<part, vars, prep>>
InPrep(A) == part = "prep" /\ A /\ UNCHANGED <<part, vars, ring>>

MCNext == InChain(Next) \/ InRing(Rc!Next) \/ InPrep(Wp!Next)

MCSafety == MCInit /\ [][MCNext]_all

\* The fairness of each part's own specification.  Only one part moves, so that
\* one condition of each can share a formula.
ThreadStep(w) ==
  \/ w \in RingWorker /\ InRing(Rc!thread_run(w))
  \/ w \in PrepWorker /\ InPrep(Wp!Step(w))
MCFairness ==
  /\ WF_all(InChain(reorganize_blocks) \/ InRing(Rc!MainStep) \/ InPrep(Wp!get_ready_work))
  /\ \A w \in RingWorker \cup PrepWorker : WF_all(ThreadStep(w))
MCSpec == MCSafety /\ MCFairness

\* Every result is the one asked for: a verdict is that of the block it was
\* asked for and no result of a refused block is counted for the next, and a
\* fetched block is that of the answer being applied, never one that a slow
\* thread prepared from an answer already cancelled, and none is lost
\* (thread_run of RingCheckerMulticore.cpp and of WalletPrepMulticore.cpp).
ResultsExact == Rc!VerdictExact /\ Rc!NoStaleResult /\ Wp!RightBlock /\ Wp!NothingLost

\* Nobody sleeps on a condition variable whose notification cannot come any
\* more, in either pool.
WakeupsKept == Rc!NoLostWakeup /\ Wp!NoLostWakeup

\* Every call that waits for the workers returns, and the join in the
\* destructors ends.
Calls == CASE part = "ring" -> r_main = "feeding"
           [] part = "prep" -> p_main \in {"waiting", "asleep"}
           [] OTHER -> FALSE
Returns == IF part = "ring" THEN r_main = "idle" ELSE p_main = "applying"
Quits == r_quit \/ p_quit
Left == IF part = "ring" THEN \A w \in RingWorker : r_worker[w] = Rc!Returned
                         ELSE \A w \in PrepWorker : p_worker[w] = Wp!Returned
ThreadsReturn == (Calls ~> Returns) /\ (Quits ~> Left)
================================================================================
