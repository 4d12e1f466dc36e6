------------------------------ MODULE Consensus -----------------------------
(***************************************************************************)
(* The rules that a block is checked against, given its chain              *)
(* (BlockChainState::check_standalone_consensus), the difficulty and the   *)
(* reward they demand (Currency.cpp), and the templates made for miners.   *)
(*                                                                         *)
(* Headers form a tree: hdr[i].prev is the number of the parent, and block *)
(* 1 is the genesis block.  Of a block, the model keeps what the rules     *)
(* compute with; what is wrong with its form alone (counts and hashes of   *)
(* its transactions, the parent block of merge mining, inputs, outputs and *)
(* unlock time of the coinbase, checkpoints) is its set of defects, named  *)
(* after the errors of the code.                                           *)
(***************************************************************************)
EXTENDS Amounts, TLC

CONSTANT Setting        \* what a node may be looked at under: records of
            \* name
            \* currency  - the fields of the class Currency and of CryptoNoteConfig.hpp
            \* loads     - contents of a block of others: sequences of [size, fee]
            \* pools     - contents of the memory pool, the best first
            \* reserves  - bytes that miners ask for in the extra field
            \* ahead     - how far the timestamps of blocks are from the clock
            \* padding   - bytes that the coinbases of others have in addition
            \* defects   - those that blocks of others may have
            \* redo      - the answers of redo_block
            \* maxBlocks - bound: headers
            \* maxNow    - bound: clock
            \* maxSide   - bound: blocks beside the chain of the tip

VARIABLES setting,      \* the setting of this node; never changes
          hdr,          \* all headers, in the order of their arrival
          tip,          \* the block with most work
          now,          \* the clock
          median,       \* m_next_median_size, m_next_median_timestamp
          work,         \* the template that a miner works on
          running       \* the process has not stopped
vars == <<setting, hdr, tip, now, median, work, running>>

currency == setting.currency

NoWork == [prev |-> 0]
Undefined == -1         \* result of a division by zero, which stops the process
Least(x, y) == IF x < y THEN x ELSE y
Most(x, y) == IF x > y THEN x ELSE y
TipHeight == hdr[tip].height

(***************************************************************************)
(* What depends on the height                                              *)
(***************************************************************************)
get_block_major_version_for_height(h) ==
    IF h <= currency.upgrade_height_v2 THEN 1
    ELSE IF h <= currency.upgrade_height_v3 THEN 2
    ELSE IF h <= currency.upgrade_height_v4 THEN 3 ELSE 4
block_granted_full_reward_zone_by_block_version(v) ==
    IF v >= 3 THEN currency.full_reward_zone ELSE IF v = 2 THEN currency.full_reward_zone_v2
    ELSE currency.full_reward_zone_v1
max_block_cumulative_size(h) ==
    currency.max_block_size_initial + ((h * currency.growth_numerator) \div currency.growth_denominator)
max_transaction_allowed_size(effective_median) ==
    Least(currency.max_tx_size, 2 * effective_median - currency.miner_tx_blob_reserved_size)

get_timestamp_check_window(h) ==
    IF h >= currency.hardfork_v2_height THEN currency.timestamp_check_window_v2 ELSE currency.timestamp_check_window
get_block_future_time_limit(h) ==
    IF h >= currency.hardfork_v2_height THEN currency.block_future_time_limit_v2
    ELSE currency.block_future_time_limit
get_difficulty_blocks_count(h) ==
    IF h <= currency.hardfork_v2_height THEN currency.difficulty_window + currency.difficulty_lag
    ELSE currency.difficulty_window_v2 + 1

(***************************************************************************)
(* Windows of a chain, the oldest header first                             *)
(***************************************************************************)
get_tip_segment(hs, p, window, add_genesis) ==
    LET Segment[i \in 1 .. Len(hs), w \in 0 .. window] ==
          IF w = 0 THEN <<>>
          ELSE IF hs[i].height = 0 THEN (IF add_genesis THEN <<hs[i]>> ELSE <<>>)
          ELSE Append(Segment[hs[i].prev, w - 1], hs[i])
    IN Segment[p, window]

Sorted(s) == SortSeq(s, LAMBDA x, y : x < y)
median_value(v) ==
    LET n == Len(v) \div 2
        s == Sorted(v) IN
    IF v = <<>> THEN 0
    ELSE IF Len(v) % 2 = 1 THEN s[n + 1] ELSE (s[n] + s[n + 1]) \div 2

\* for a block on top of p, when the tip has height h; hs are the headers
calculate_consensus_values(hs, p, h) ==
    LET window == get_timestamp_check_window(h + 1)
        times == Field(get_tip_segment(hs, p, window, FALSE), "timestamp") IN
    [size |-> median_value(Field(get_tip_segment(hs, p, currency.reward_blocks_window, TRUE), "block_size")),
     timestamp |-> IF Len(times) >= window THEN median_value(times) ELSE 0]

(***************************************************************************)
(* Difficulty                                                              *)
(***************************************************************************)
\* the part of a window that counts: it loses its ends when it is full
Cut(length, window, cut) ==
    LET kept == window - 2 * cut
        begin == (length - kept + 1) \div 2 IN
    IF length <= kept THEN <<1, length>> ELSE <<begin + 1, begin + kept>>
TimeSpan(times, c) == Most(1, Sorted(times)[c[2]] - Sorted(times)[c[1]])
TotalWork(works, c) == works[c[2]] - works[c[1]]

next_difficulty_v1(block_index, times, works) ==
    LET n == Least(Len(times), currency.difficulty_window)
        c == Cut(n, currency.difficulty_window, currency.difficulty_cut)
        span == TimeSpan(SubSeq(times, 1, n), c)
        low == TotalWork(works, c) * currency.difficulty_target
        m == Least(n, currency.late_window)
        late == <<1, m>>
        late_times == SubSeq(times, Len(times) - m + 1, Len(times))
        late_works == SubSeq(works, Len(works) - m + 1, Len(works))
        late_span == TimeSpan(late_times, late)
        late_low == TotalWork(late_works, late) * currency.difficulty_target IN
    IF n <= 1 THEN 1
    ELSE IF low + span > Word THEN 0
    ELSE IF block_index < currency.hardfork_v1_height THEN (low + span - 1) \div span
    ELSE IF late_low + late_span > Word THEN 0
    ELSE Most(late_low \div late_span, currency.least_difficulty)

\* The quotient is one of unsigned numbers: a negative weight is a large one.
next_difficulty_v2(times, works) ==
    LET N == currency.difficulty_window_v2
        T == currency.difficulty_target
        Solve(i) == Most(-currency.block_future_time_limit_v2, Least(times[i + 1] - times[i], 6 * T))
        L == Sum([i \in 1 .. N |-> Solve(i) * i])
        sum_3_ST == Sum([i \in 1 .. Least(3, N) |-> Solve(N - i + 1)])
        next_D == (((works[N + 1] - works[1]) * T * (N + 1) * 99) % Word) \div ((200 * L) % Word)
        prev_D == works[N + 1] - works[N] IN
    IF Len(times) <= N THEN currency.first_difficulty
    ELSE IF (200 * L) % Word = 0 THEN Undefined
    ELSE IF sum_3_ST < (8 * T) \div 10 THEN (prev_D * 110) \div 100
    ELSE next_D

next_difficulty(block_index, times, works) ==
    IF block_index <= currency.hardfork_v2_height THEN next_difficulty_v1(block_index, times, works)
    ELSE next_difficulty_v2(times, works)

\* for a block on top of p, when the tip has height h; index is the height
\* by which the algorithm is chosen
DifficultyOf(p, h, index) ==
    LET window == get_tip_segment(hdr, p, Least(hdr[p].height, get_difficulty_blocks_count(h + 1)), FALSE) IN
    next_difficulty(index, Field(window, "timestamp"), Field(window, "cumulative_difficulty"))

(***************************************************************************)
(* Reward                                                                  *)
(***************************************************************************)
calc_base_reward(version, already_generated_coins) ==
    LET base == (currency.money_supply - already_generated_coins) \div 2 ^ currency.emission_speed_factor IN
    IF version >= 4 /\ base >= currency.scatter THEN base \div currency.scatter ELSE base

\* reward of the miner, and what it adds to the coins that exist
get_block_reward(version, effective_median, size, already_generated_coins, fee) ==
    LET base == get_penalized_amount(calc_base_reward(version, already_generated_coins), effective_median, size)
        penalized_fee == IF version >= 2 THEN get_penalized_amount(fee, effective_median, size) ELSE fee IN
    [emission_change |-> base - (fee - penalized_fee), reward |-> base + penalized_fee]

(***************************************************************************)
(* Errors that are found before the difficulty is calculated, and later    *)
(***************************************************************************)
FormErrors ==
    {"WRONG_TRANSACTIONS_COUNT", "TRANSACTION_ABSENT_IN_POOL", "PARENT_BLOCK_WRONG_VERSION",
     "PARENT_BLOCK_SIZE_TOO_BIG", "INPUT_WRONG_COUNT", "INPUT_UNEXPECTED_TYPE", "BASE_INPUT_WRONG_BLOCK_INDEX",
     "WRONG_TRANSACTION_UNLOCK_TIME", "OUTPUT_ZERO_AMOUNT", "OUTPUT_INVALID_KEY", "OUTPUT_UNKNOWN_TYPE",
     "OUTPUTS_AMOUNT_OVERFLOW"}
LateErrors == {"WRONG_AMOUNT", "a transaction is not valid", "CHECKPOINT_BLOCK_HASH_MISMATCH"}
ASSUME DefectsAssumption == \A s \in Setting : s.defects \subseteq FormErrors \cup LateErrors

(***************************************************************************)
(* Checking a block b = [prev, version, timestamp, load, coinbase_size,    *)
(* miner_reward, work, defects]; work is the largest difficulty that its   *)
(* hash is good for.  The values are those with the tip at height h.       *)
(***************************************************************************)
HeightOf(b) == hdr[b.prev].height + 1
LoadSize(load) == Sum(Field(load, "size"))
Fees(load) == Sum(Field(load, "fee"))
EffectiveMedian(version, size) == Most(size, block_granted_full_reward_zone_by_block_version(version))

\* the medians are only calculated for a block that is not on top of the tip
Medians(b) == IF b.prev = tip THEN median ELSE calculate_consensus_values(hdr, b.prev, TipHeight)
RewardOf(b) ==
    get_block_reward(b.version, EffectiveMedian(b.version, Medians(b).size), b.coinbase_size + LoadSize(b.load),
                     hdr[b.prev].already_generated_coins, Fees(b.load))

\* the checks before the difficulty is calculated
PassesForm(b) ==
    LET effective == EffectiveMedian(b.version, Medians(b).size) IN
    /\ b.defects \cap FormErrors = {}
    /\ \A k \in 1 .. Len(b.load) : b.load[k].size <= max_transaction_allowed_size(effective)
    /\ b.coinbase_size + LoadSize(b.load) <= max_block_cumulative_size(HeightOf(b))
    /\ b.version = get_block_major_version_for_height(HeightOf(b))
    /\ b.timestamp <= now + get_block_future_time_limit(TipHeight + 1)
    /\ b.timestamp >= Medians(b).timestamp
\* (A faulty variant takes the window of the tip, not of the parent.)
DifficultyByTip(b) == DifficultyOf(tip, TipHeight, hdr[b.prev].height)
Difficulty(b) == DifficultyOf(b.prev, TipHeight, hdr[b.prev].height)

is_in_sw_checkpoint_zone(h) == h <= currency.last_checkpoint
\* and those after it
PassesRest(b) ==
    /\ Difficulty(b) > 0
    /\ b.defects \cap LateErrors = {}
    /\ b.miner_reward = RewardOf(b).reward
    /\ is_in_sw_checkpoint_zone(HeightOf(b)) \/ Difficulty(b) <= b.work
check_standalone_consensus(b) == PassesForm(b) /\ PassesRest(b)

HeaderOf(b) ==
    [prev |-> b.prev, height |-> HeightOf(b), timestamp |-> b.timestamp,
     block_size |-> b.coinbase_size + LoadSize(b.load),
     effective_size_median |-> EffectiveMedian(b.version, Medians(b).size),
     cumulative_difficulty |-> hdr[b.prev].cumulative_difficulty + Difficulty(b),
     already_generated_coins |-> hdr[b.prev].already_generated_coins + RewardOf(b).emission_change,
     reward |-> RewardOf(b).reward, total_fee_amount |-> Fees(b.load),
     tip_height |-> TipHeight]       \* not in the code: when it was checked

(***************************************************************************)
(* Templates                                                               *)
(***************************************************************************)
\* The coinbase pays the reward for a block of this size; its extra field holds the
\* key and, with a tag and a length, the bytes reserved for the miner.  (That the
\* address of the miner is no good is a case of GetTemplate.)
construct_miner_tx(version, effective, coins, current_block_size, fee, extra_nonce) ==
    LET reward == get_block_reward(version, effective, current_block_size, coins, fee).reward IN
    [reward |-> reward, extra |-> IF extra_nonce = 0 THEN 0 ELSE 2 + extra_nonce,
     outputs |-> MinerOutputs(decompose_amount(reward, currency.default_dust_threshold), currency.max_outs)]
\* All outputs take the same space, the length of the extra field takes one byte
\* more when there are many; the key is part of coinbase_size.
binary_size(tx) ==
    currency.coinbase_size + currency.output_size * Len(tx.outputs)
    + tx.extra + (IF tx.extra >= currency.long_extra THEN 1 ELSE 0)

\* the transactions of the pool, the best first, as long as they fit and
\* redo_transaction_get_error takes them
Fitting(pool, limit) ==
    LET Taken[k \in 0 .. Len(pool)] ==
          IF k = 0 THEN <<>>
          ELSE IF LoadSize(Taken[k - 1]) + pool[k].size > limit \/ ~pool[k].redone THEN Taken[k - 1]
          ELSE Append(Taken[k - 1], pool[k])
    IN Taken[Len(pool)]

\* The coinbase must have the size that its reward was calculated for: its
\* extra field is filled up, and a few sizes are tried.
NoFit == [size |-> 0, reward |-> 0]
\* (A faulty variant calculates the reward once.)
FitCoinbaseOnce(version, effective, coins, load, extra_nonce) ==
    LET tx == construct_miner_tx(version, effective, coins, LoadSize(load), Fees(load), extra_nonce) IN
    [size |-> LoadSize(load) + binary_size(tx), reward |-> tx.reward]
FitCoinbase(version, effective, coins, load, extra_nonce) ==
    LET txs_size == LoadSize(load)
        Tx[size \in 0 .. Word] == construct_miner_tx(version, effective, coins, size, Fees(load), extra_nonce)
        SizeWith[size, more \in 0 .. Word] == txs_size + binary_size([Tx[size] EXCEPT !.extra = @ + more])
        Try[k \in 0 .. currency.tries_count, size \in 0 .. Word] ==
          LET delta == size - SizeWith[size, 0]
              fit == [size |-> size, reward |-> Tx[size].reward] IN
          IF k = 0 THEN NoFit
          ELSE IF delta < 0 THEN Try[k - 1, size - delta]
          ELSE IF SizeWith[size, delta] = size THEN fit
          ELSE IF SizeWith[size, delta] # size + 1 THEN NoFit
          ELSE IF SizeWith[size, delta - 1] = size THEN fit
          ELSE Try[k - 1, size + delta - 1]
    IN Try[currency.tries_count, SizeWith[txs_size, 0]]

\* the algorithm is chosen by the height of the new block
TemplateDifficulty == DifficultyOf(tip, TipHeight, TipHeight + 1)
TemplateVersion == get_block_major_version_for_height(TipHeight + 1)
TemplateMedian == EffectiveMedian(TemplateVersion, median.size)
Load(pool) ==
    Fitting(pool, Least((125 * TemplateMedian) \div 100, max_block_cumulative_size(TipHeight + 1))
                  - currency.miner_tx_blob_reserved_size)
Coinbase(load, extra_nonce) ==
    FitCoinbase(TemplateVersion, TemplateMedian, hdr[tip].already_generated_coins, load, extra_nonce)
Template(load, fit, extra_nonce) ==
    IF fit = NoFit THEN NoWork
    ELSE [prev |-> tip, version |-> TemplateVersion, timestamp |-> Most(now, median.timestamp), load |-> load,
          coinbase_size |-> fit.size - LoadSize(load), miner_reward |-> fit.reward,
          work |-> TemplateDifficulty, defects |-> {}, reserve |-> extra_nonce]

(***************************************************************************)
(* Steps                                                                   *)
(***************************************************************************)
\* the genesis block passes the same checks, with an empty window
Genesis == [prev |-> 0, height |-> 0, timestamp |-> 0, block_size |-> currency.coinbase_size + currency.output_size,
            effective_size_median |-> currency.full_reward_zone_v1,
            cumulative_difficulty |-> currency.first_difficulty,
            already_generated_coins |-> calc_base_reward(1, 0), reward |-> calc_base_reward(1, 0),
            total_fee_amount |-> 0, tip_height |-> -1]
Init ==
    /\ setting \in Setting
    /\ hdr = <<Genesis>> /\ tip = 1 /\ now = 0 /\ work = NoWork /\ running = TRUE
    /\ median = calculate_consensus_values(hdr, tip, 0)

Tick ==
    /\ running /\ now < setting.maxNow
    /\ now' = now + 1
    /\ UNCHANGED <<hdr, tip, median, work, running>>

\* The process stops where the difficulty is undefined.
Stops(b) ==
    /\ PassesForm(b) /\ Difficulty(b) = Undefined
    /\ running' = FALSE
    /\ UNCHANGED <<hdr, tip, median>>
\* BAN: the header is not stored.
Banned(b) ==
    /\ ~PassesForm(b) \/ (Difficulty(b) # Undefined /\ ~PassesRest(b))
    /\ UNCHANGED <<hdr, tip, median, running>>

\* the blocks of the chain of p
Chain(p) ==
    LET Below[i \in 1 .. Len(hdr)] == IF i = 1 THEN {1} ELSE {i} \cup Below[hdr[i].prev] IN Below[p]
\* Where a reorganization to the chain of p stops when redo_block refuses a
\* block: not below the last block of both chains.
Stuck(p) == {i \in Chain(p) : \A c \in Chain(p) \cap Chain(tip) : hdr[c].height <= hdr[i].height}

\* The header is stored.  With more work than the tip the block becomes the tip,
\* unless redo_block refuses it or another block of its chain.
Stored(b) ==
    /\ check_standalone_consensus(b)
    /\ Len(hdr) < setting.maxBlocks
    /\ hdr' = Append(hdr, HeaderOf(b))
    /\ IF HeaderOf(b).cumulative_difficulty > hdr[tip].cumulative_difficulty
       THEN \E redo \in setting.redo :
              IF redo THEN tip' = Len(hdr')
              ELSE IF b.prev = tip THEN tip' = tip ELSE tip' \in Stuck(b.prev)
       ELSE tip' = tip
    /\ median' = IF tip' = tip THEN median ELSE calculate_consensus_values(hdr', tip', hdr'[tip'].height)
    /\ UNCHANGED running
\* of a block that is not stored yet, on a parent that is
AddBlock(b) == running /\ (Stops(b) \/ Banned(b) \/ Stored(b)) /\ UNCHANGED now

\* blocks of other miners, who may know more of the clock or of the pool
BlockOfOthers(p, t, load, pad, d) ==
    LET version == get_block_major_version_for_height(hdr[p].height + 1)
        effective == EffectiveMedian(version, calculate_consensus_values(hdr, p, TipHeight).size)
        size == currency.coinbase_size + currency.output_size + pad + LoadSize(load) IN
    [prev |-> p, version |-> version, timestamp |-> t, load |-> load, coinbase_size |-> size - LoadSize(load),
     miner_reward |-> get_block_reward(version, effective, size, hdr[p].already_generated_coins, Fees(load)).reward,
     work |-> Word, defects |-> d]
OthersBlock ==
    \E p \in 1 .. Len(hdr), a \in setting.ahead, load \in setting.loads,
       pad \in setting.padding, d \in {{}} \cup {{x} : x \in setting.defects} :
        /\ p # tip => Len(hdr) <= TipHeight + setting.maxSide
        /\ now + a >= 0
        /\ \E b \in {BlockOfOthers(p, now + a, load, pad, d)} : AddBlock(b)
        /\ UNCHANGED work

\* A template that is asked for again only replaces the last one.  There is none
\* without a difficulty, when more bytes are to be reserved than an extra nonce
\* may have, and when construct_miner_tx fails for this miner.
GetTemplate ==
    /\ running /\ work = NoWork
    /\ running' = (TemplateDifficulty # Undefined)
    /\ \/ UNCHANGED work
       \/ /\ TemplateDifficulty > 0
          /\ \E pool \in setting.pools, reserve_size \in setting.reserves :
               /\ reserve_size <= currency.max_nonce
               /\ \E load \in {Load(pool)} : \E fit \in {Coinbase(load, reserve_size)} :
                    work' = Template(load, fit, reserve_size)
    /\ UNCHANGED <<hdr, tip, now, median>>
Submit ==
    /\ work # NoWork
    /\ AddBlock(work)
    /\ work' = NoWork

Next == (Tick \/ OthersBlock \/ GetTemplate \/ Submit) /\ UNCHANGED setting
Spec == Init /\ [][Next]_vars

(***************************************************************************)
(* Properties                                                              *)
(***************************************************************************)
Blocks == 1 .. Len(hdr)
Parent(i) == hdr[hdr[i].prev]
\* two heights on either side of the fork, for which windows differ
Straddles(g, h) == (g <= currency.hardfork_v2_height) # (h <= currency.hardfork_v2_height)
                   \/ (g < currency.hardfork_v2_height) # (h < currency.hardfork_v2_height)

\* What a header says of a block depends on its chain alone, not on the tip
\* that the node had when it checked the block, unless the two are on
\* different sides of the fork: then the windows are those for the tip.
ChainAlone ==
    \A i \in Blocks \ {1} :
        LET p == hdr[i].prev IN
        Straddles(hdr[i].tip_height + 1, hdr[i].height)
        \/ /\ hdr[i].cumulative_difficulty
               = hdr[p].cumulative_difficulty + DifficultyOf(p, hdr[p].height, hdr[p].height)
           /\ hdr[i].timestamp >= calculate_consensus_values(hdr, p, hdr[p].height).timestamp

\* The coinbase is larger than what templates set aside for it, which it can only
\* be with bytes reserved for the miner, and the block is too large with it.
Outgrown ==
    /\ work.reserve > 0
    /\ work.coinbase_size > currency.miner_tx_blob_reserved_size
    /\ work.coinbase_size + LoadSize(work.load) > max_block_cumulative_size(HeightOf(work))

\* A miner's work is not in vain: the block of a template is accepted
\* whenever it is submitted, also when the tip has changed since.  Excepted
\* are blocks at the two heights for which the template and the check choose
\* different algorithms, those near the fork, and blocks that have outgrown the
\* limit by what was reserved in their coinbase for the miner.
WorkAccepted ==
    work # NoWork /\ running =>
        LET h == HeightOf(work) IN
        \/ h \in {currency.hardfork_v1_height, currency.hardfork_v2_height + 1}
        \/ Straddles(h, TipHeight + 1)
        \/ Outgrown
        \/ check_standalone_consensus(work)

\* With the odd window of the fork the median of the timestamps never goes
\* back along a chain, so that what is unlocked by time stays unlocked.
MedianMonotone ==
    \A i \in Blocks :
        LET p == hdr[i].prev
            Value(j) == calculate_consensus_values(hdr, j, hdr[j].height).timestamp IN
        /\ hdr[i].height > currency.hardfork_v2_height
        /\ hdr[i].tip_height >= currency.hardfork_v2_height
        => Value(p) <= Value(i)

\* The rules of the fork give every chain a next block as long as its
\* timestamps rise and its difficulty is not already near zero.
ChainGoesOn ==
    \A p \in Blocks :
        LET window == get_tip_segment(hdr, p, currency.difficulty_window_v2 + 1, FALSE)
            n == Len(window) IN
        /\ hdr[p].height > currency.hardfork_v2_height /\ n = currency.difficulty_window_v2 + 1
        /\ \A k \in 1 .. n - 1 : window[k].timestamp < window[k + 1].timestamp
        /\ window[n].cumulative_difficulty - window[1].cumulative_difficulty >= 7 * (n - 1)
        => DifficultyOf(p, hdr[p].height, hdr[p].height) > 0

\* The coins that exist are what was paid to miners less the fees, in every
\* chain, and never more than the supply.
SupplyExact ==
    \A i \in Blocks :
        /\ hdr[i].already_generated_coins \in 0 .. currency.money_supply
        /\ i # 1 => hdr[i].already_generated_coins
                    = Parent(i).already_generated_coins + hdr[i].reward - hdr[i].total_fee_amount
=============================================================================
