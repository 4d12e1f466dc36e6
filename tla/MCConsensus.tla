---------------------------- MODULE MCConsensus -----------------------------
(***************************************************************************)
(* A currency with small windows in four settings, one of them in each     *)
(* behaviour.  In "sizes" the forks are over after two blocks, and blocks  *)
(* of others and templates have transactions of sizes around the median.   *)
(* In "times" blocks are empty, the forks come at heights 3 and 4, chains  *)
(* are longer and timestamps run ahead.  In "refusing" blocks have defects *)
(* and redo_block may refuse any that passed the checks.  In "reserving"   *)
(* templates hold bytes for the miner.                                     *)
(***************************************************************************)
EXTENDS Consensus

CurrencyWithForks(v1, v2) ==
    [upgrade_height_v2 |-> 0, upgrade_height_v3 |-> 1, upgrade_height_v4 |-> v2,
     hardfork_v1_height |-> v1, hardfork_v2_height |-> v2, last_checkpoint |-> 0,
     full_reward_zone |-> 10, full_reward_zone_v2 |-> 7, full_reward_zone_v1 |-> 5,
     max_block_size_initial |-> 12, growth_numerator |-> 3, growth_denominator |-> 2,
     max_tx_size |-> 1000, miner_tx_blob_reserved_size |-> 4,
     timestamp_check_window |-> 4, timestamp_check_window_v2 |-> 3,
     block_future_time_limit |-> 8, block_future_time_limit_v2 |-> 3,
     reward_blocks_window |-> 3,
     difficulty_target |-> 2, difficulty_window |-> 4, difficulty_lag |-> 1, difficulty_cut |-> 1,
     late_window |-> 2, least_difficulty |-> 8, difficulty_window_v2 |-> 3, first_difficulty |-> 20,
     money_supply |-> 4095, emission_speed_factor |-> 4, scatter |-> 2, default_dust_threshold |-> 3,
     coinbase_size |-> 1, output_size |-> 1, max_outs |-> 2, long_extra |-> 2, tries_count |-> 10, max_nonce |-> 1]

Tx(size, fee, redone) == [size |-> size, fee |-> fee, redone |-> redone]

Sizes == [name |-> "sizes", currency |-> CurrencyWithForks(1, 2),
          loads |-> {<<Tx(4, 30, TRUE), Tx(4, 5, TRUE)>>, <<Tx(9, 12, TRUE)>>},
          pools |-> {<<Tx(4, 30, TRUE), Tx(9, 12, TRUE), Tx(4, 5, TRUE)>>}, reserves |-> {0},
          ahead |-> {1}, padding |-> {0}, defects |-> {}, redo |-> {TRUE},
          maxBlocks |-> 5, maxNow |-> 1, maxSide |-> 1]
Times == [Sizes EXCEPT !.name = "times", !.currency = CurrencyWithForks(3, 4), !.loads = {<<>>}, !.pools = {},
                       !.ahead = {0, 3}, !.maxBlocks = 8, !.maxNow = 2]
\* Blocks and transactions that are refused.
Refusing == [Sizes EXCEPT !.name = "refusing", !.loads = {<<>>},
                          !.pools = {<<Tx(1, 40, FALSE), Tx(9, 12, TRUE)>>},
                          !.defects = {"INPUT_WRONG_COUNT", "WRONG_AMOUNT"}, !.redo = BOOLEAN]
\* Templates with bytes reserved for the miner, or with more than there may be.
Reserving == [Sizes EXCEPT !.name = "reserving", !.loads = {<<Tx(9, 12, TRUE)>>}, !.reserves = {1, 2}]
\* Coinbases of others that are far larger than the median.
Padded == [Sizes EXCEPT !.name = "padded", !.loads = {<<>>}, !.pools = {}, !.padding = {0, 19},
                        !.maxBlocks = 7, !.maxNow = 6, !.maxSide = 0]

SizesAndTimes == {Sizes, Times, Refusing, Reserving}
LargeBlocks == {Padded}

\* What a header records depends on the chain of its block alone, not on the
\* tip that the node had when it checked it; with the odd window of the fork the
\* median of the timestamps never goes back along a chain, so that what is
\* unlocked by time stays unlocked; and every chain has a next block as long as
\* its timestamps rise and its difficulty is not already near zero
\* (check_standalone_consensus, next_difficulty_v2).
HeadersSound == setting.name = "times" => ChainAlone /\ MedianMonotone /\ ChainGoesOn

\* The block of a template is accepted whenever it is submitted, unless the bytes
\* it reserves for the miner make its coinbase larger than what was set aside and
\* the block too large, and every coin is accounted for
\* (create_mining_block_template, construct_miner_tx, get_block_reward).
WorkPaid == setting.name # "times" => WorkAccepted /\ SupplyExact

\* get_penalized_amount asserts that a block is at most twice the median.
PenaltyDefined == \A i \in Blocks : hdr[i].block_size <= 2 * hdr[i].effective_size_median
=============================================================================
