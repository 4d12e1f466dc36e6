------------------------------- MODULE MCLedger -------------------------------
(***************************************************************************)
(* The ledger, the memory pool and the transactions of templates, one of   *)
(* them in each behaviour.                                                 *)
(*                                                                         *)
(* A tree of twelve blocks for Ledger:                                     *)
(*   g - a1 - a2 - a3 - a4     a2 spends the output of g, a3 uses a ring   *)
(*                             of two, a4 has two transactions that spend  *)
(*                             outputs of a2 and a3, one of which is       *)
(*                             unlocked at the time of a4, not of a3       *)
(*                  a3 - e4    e4 is earlier than a3 and spends an output  *)
(*                             that is unlocked at the time of a3          *)
(*                  a3 - f4    f4 has two transactions with one key image  *)
(*        a1 - b2 - b3         b2 spends the output of g as well, b3 tries *)
(*                             the transaction of a2 again                 *)
(*   g - c1 - c2               c2 uses the ring of a3, which here holds    *)
(*                             another key                                 *)
(*       c1 - d2               d2 spends the output of c1 too early        *)
(*                                                                         *)
(* Five transactions over three key images for TxPool.  Transactions 1, 2  *)
(* and 3 hold one key image each; 4 conflicts with 1 and 2, and 5 with 2   *)
(* and 3, visiting its inputs against the order of the key images.  Fees   *)
(* include a tie, and any two of the larger transactions overfill the pool.*)
(*                                                                         *)
(* Two transactions for Mining, remembered for one height, and blocks of   *)
(* four heights, two of them at one.                                       *)
(***************************************************************************)
EXTENDS Ledger

CONSTANT Parts   \* the components to be looked at

VARIABLES
  part,
  pool, version, blocks, pc, undone, undone_blocks, old, last,   \* TxPool
  tip, ready, mining, given, sent                                \* Mining

\* Transactions, key images and sizes of the pool; of the templates, the blocks
\* that miners work on.
CONSTANTS Tx, KeyImage, Inputs, FeePerByte, Size, MAX_POOL_SIZE, MaxChain, MaxVersion,
          MinedTx, MinedOn, MinedHeight, Remember, MaxTemplates

Po == INSTANCE TxPool WITH chain <- blocks

Mi == INSTANCE Mining WITH
        Tx <- MinedTx, Block <- MinedOn, Height <- MinedHeight, pool <- ready

ASSUME PoolAssumption == Po!TxAssumption
ASSUME MinersAssumption == Mi!MiningAssumption

MCInputs == <<<<1>>, <<2>>, <<3>>, <<1, 2>>, <<3, 2>>>>
MCFeePerByte == <<1, 4, 3, 3, 4>>
MCSize == <<2, 1, 3, 3, 2>>
MCMinedHeight == [p0 |-> 0, p1 |-> 1, q1 |-> 1, p2 |-> 2, p3 |-> 3]

MCBlock == {"g", "a1", "a2", "a3", "a4", "b2", "b3", "c1", "c2", "d2",
            "e4", "f4"}
MCParent == [a1 |-> "g", a2 |-> "a1", a3 |-> "a2", a4 |-> "a3", b2 |-> "a1",
             b3 |-> "b2", c1 |-> "g", c2 |-> "c1", d2 |-> "c1", e4 |-> "a3", f4 |-> "a3"]
MCHeight == [g |-> 0, a1 |-> 1, a2 |-> 2, a3 |-> 3, a4 |-> 4, b2 |-> 2,
             b3 |-> 3, c1 |-> 1, c2 |-> 2, d2 |-> 2, e4 |-> 4, f4 |-> 4]
\* Heights are below 10 and moments above it.
MCTimestamp ==
  [b \in MCBlock |-> IF b \in {"a4", "b3"} THEN 27
                     ELSE IF b = "e4" THEN 21 ELSE 20 + MCHeight[b]]
MCAmount == {1, 2}

Out(amount, key, unlock) == [amount |-> amount, key |-> key, unlock_time |-> unlock]
Spend(ki, amount, ring, keys) ==
  [key_image |-> ki, amount |-> amount, ring |-> ring, keys |-> keys]
Transaction(tid, inputs, outputs) == [tid |-> tid, inputs |-> inputs, outputs |-> outputs]

\* A base transaction with one output of amount 1 that is locked for a block.
Base(b) == Transaction(b, <<>>, <<Out(1, b, MCHeight[b] + 2)>>)

t1 == Transaction("t1", <<Spend("k1", 1, <<0>>, <<"g">>)>>,
                  <<Out(2, "x1", 0), Out(1, "x2", 0), Out(2, "x3", 0)>>)
t2 == Transaction("t2", <<Spend("k2", 1, <<0, 1>>, <<"g", "a1">>)>>, <<Out(2, "x4", 25), Out(2, "y4", 23)>>)
t3 == Transaction("t3", <<Spend("k1", 1, <<0>>, <<"g">>)>>, <<Out(2, "x5", 0)>>)
t4 == Transaction("t4", <<Spend("k4", 2, <<1>>, <<"x3">>), Spend("k5", 2, <<0>>, <<"x1">>)>>,
                  <<Out(1, "x6", 0), Out(1, "x7", 0)>>)
t5 == Transaction("t5", <<Spend("k6", 2, <<2>>, <<"x4">>)>>, <<Out(1, "x8", 0)>>)
t6 == Transaction("t6", <<Spend("k7", 1, <<1>>, <<"c1">>)>>, <<Out(2, "x9", 0)>>)
t7 == Transaction("t7", <<Spend("k8", 2, <<3>>, <<"y4">>)>>, <<Out(1, "y8", 0)>>)
t8 == Transaction("t8", <<Spend("k4", 2, <<1>>, <<"x3">>)>>, <<Out(1, "y6", 0)>>)

MCTxs == [b \in MCBlock |->
  <<Base(b)>> \o (CASE b = "a2" -> <<t1>>
                    [] b = "a3" -> <<t2>>
                    [] b = "a4" -> <<t4, t5>>
                    [] b = "b2" -> <<t3>>
                    [] b = "b3" -> <<t1>>
                    [] b = "c2" -> <<t2>>
                    [] b = "d2" -> <<t6>>
                    [] b = "e4" -> <<t7>>
                    [] b = "f4" -> <<t4, t8>>
                    [] OTHER -> <<>>)]

-------------------------------------------------------------------------------
po == <<pool, version, blocks, pc, undone, undone_blocks, old, last>>
mi == <<tip, ready, mining, given, sent>>
all == <<part, vars, po, mi>>

MCInit ==
  /\ part \in Parts
  /\ Init /\ Po!Init
  /\ Mi!Init /\ (part = "mining" \/ tip = CHOOSE b \in MinedOn : TRUE)
MCNext ==
  \/ part = "ledger" /\ Next /\ UNCHANGED <<part, po, mi>>
  \/ part = "pool" /\ Po!Next /\ UNCHANGED <<part, vars, mi>>
  \/ part = "mining" /\ Mi!Next /\ UNCHANGED <<part, vars, po>>
MCSpec == MCInit /\ [][MCNext]_all

\* Whatever blocks were applied, refused and undone before, and after every
\* restart, the tables are those of the blocks of the chain alone: undo_block is
\* the exact inverse of redo_block, spent flags and cached counters included, no
\* assertion on the tables fails, and the global indices and the transaction
\* index lead to the outputs and transactions of the chain
\* (redo_block and undo_block of BlockChainState.cpp and BlockChain.cpp).
LedgerExact ==
  part = "ledger" =>
    LedgerIsChain /\ AssertionsHold /\ IndicesLeadHome /\ TransactionsFound

\* redo_block answers the same for a block every time it is asked, and the
\* memory pool, which tests transactions by other code against another view of
\* the tables and with the timestamp of the tip instead of the block's, agrees
\* with it unless an output of a ring is locked to a moment that one of the two
\* clocks has reached and the other has not (start_work_get_error,
\* redo_transaction_get_error, is_transaction_spend_time_unlocked).
VerdictsAgree == part = "ledger" => VerdictFixed /\ PoolAgreesWithBlock

\* The three indices of the pool describe the same transactions, none of which
\* spends what the chain or another one spends, through displacements, blocks
\* and reorganizations, and the all_inserted and all_erased invariants of the
\* code never fail (add_transaction, remove_from_pool, on_reorganization).
PoolSound == part = "pool" => Po!NeverExits /\ Po!IndexConsistent /\ Po!NothingSpentTwice

\* The size that the pool records is that of its transactions and over the limit
\* by less than the lowest of them, and a transaction answered BROADCAST_ALL is
\* in the pool, whatever its insertion has displaced and evicted
\* (add_transaction).
PoolBounded == part = "pool" => Po!SizeBounded /\ Po!BroadcastIsInPool

\* The block of a template for the present tip can always be assembled, whatever
\* has left the pool, whatever chains have been the best and whoever has asked
\* for templates since, unless that was on a higher tip
\* (create_mining_block_template, add_mined_block).
TemplatesComplete == Mi!CurrentComplete

\* INCREASE_FEE is a refusal: the comment "Never because checked above" says
\* that the loop that removes the conflicting transactions cannot return it.
RefusalKeepsPool ==
  [][last'.result = "INCREASE_FEE" /\ pc = pc' /\ pc = "idle" => pool' = pool]_all
================================================================================
