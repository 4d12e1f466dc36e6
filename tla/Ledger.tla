-------------------------------- MODULE Ledger --------------------------------
(***************************************************************************)
(* The ledger tables of BlockChainState and of BlockChain: key images, the *)
(* stack of outputs of every amount with their spent flags, the global     *)
(* indices of every block, the transaction and the timestamp index.        *)
(* redo_block checks a block against the tables, collects its effect in a  *)
(* DeltaState and applies it; undo_block takes it back.                    *)
(*                                                                         *)
(* The chain may move along any path of the tree of blocks: any child of   *)
(* the tip is tried and the tip may be undone at any time, which includes  *)
(* every reorganization of BlockChain.tla.  An input names outputs by      *)
(* their global indices and carries a signature made for their keys, so    *)
(* that it is good on the branches where these indices hold these keys.    *)
(* The operators that end in _mut are faulty variants of the definition    *)
(* that follows them; no specification uses them.                          *)
(***************************************************************************)
EXTENDS Integers, Sequences, FiniteSets, SequencesExt

CONSTANTS
  Block, Genesis, Parent, Height,
  Timestamp,          \* of a block
  Txs,                \* the transactions of a block, base_transaction first
  Amount,
  max_block_height,   \* unlock times below it are heights, the others moments
  AllowedDelta,       \* locked_tx_allowed_delta_blocks
  AllowedSeconds,     \* locked_tx_allowed_delta_seconds
  CheckpointHeight    \* the last checkpoint

\* A transaction: its hash, its key inputs (none for a base transaction) and
\* its outputs.  `ring' is output_indexes, the first one absolute and the others
\* relative to the one before; `keys' are the output keys that were signed.
KeyInputs(t) == {t.inputs[i] : i \in 1..Len(t.inputs)}
BlockTxs(b) == {Txs[b][i] : i \in 1..Len(Txs[b])}
BlockInputs(b) == UNION {KeyInputs(t) : t \in BlockTxs(b)}

\* The blocks are a tree.
ASSUME BlockAssumption ==
  /\ Genesis \in Block
  /\ Parent \in [Block \ {Genesis} -> Block]
  /\ Height \in [Block -> Nat] /\ Height[Genesis] = 0
  /\ \A b \in Block \ {Genesis} : Height[b] = Height[Parent[b]] + 1
  /\ max_block_height \in Nat /\ AllowedDelta \in Nat /\ AllowedSeconds \in Nat
  /\ CheckpointHeight \in Nat

\* validate_semantic: the base transaction comes first and is the only one that
\* has no key inputs, and a transaction does not repeat a key image.  (That two
\* transactions of a block do not share one is checked by nobody.)
ASSUME TransactionAssumption ==
  \A b \in Block :
    /\ Txs[b] \in Seq(BlockTxs(b)) \ {<<>>}
    /\ \A t \in BlockTxs(b) :
         /\ t.inputs \in Seq(KeyInputs(t))
         /\ \A in \in KeyInputs(t) : in.amount \in Amount /\ in.ring \in Seq(Nat)
         /\ t.outputs \in Seq({t.outputs[n] : n \in 1..Len(t.outputs)})
         /\ \A n \in 1..Len(t.outputs) : t.outputs[n].amount \in Amount
    /\ \A i \in 1..Len(Txs[b]) :
         Txs[b][i].inputs = <<>> <=> i = 1 \/ b = Genesis
    /\ \A t \in BlockTxs(b) : \A m, n \in 1..Len(t.inputs) :
         t.inputs[m].key_image = t.inputs[n].key_image => m = n

\* A hash stands for one transaction, which is once in a block; a base transaction
\* holds the height of its block; the key image of an output is that of its key.
ASSUME HashAssumption ==
  /\ \A b, c \in Block : \A i \in 1..Len(Txs[b]), j \in 1..Len(Txs[c]) :
       Txs[b][i].tid = Txs[c][j].tid =>
         /\ Txs[b][i] = Txs[c][j]
         /\ b = c => i = j
         /\ Txs[b][i].inputs = <<>> => Height[b] = Height[c]
  /\ \A b, c \in Block : \A x \in BlockInputs(b), y \in BlockInputs(c) :
       Len(x.ring) = 1 /\ Len(y.ring) = 1 /\ x.keys[1] = y.keys[1]
         => x.key_image = y.key_image

VARIABLES
  chain,      \* the best chain, genesis first
  ledger,     \* the tables, and m_next_gi_for_amount
  disk,       \* chain and tables of the last commit
  verdicts    \* history: what redo_block answered for which block

vars == <<chain, ledger, disk, verdicts>>

Unknown == -1
NoCache == [a \in Amount |-> Unknown]

EmptyLedger == [keyimages |-> <<>>, outputs |-> <<>>, indices |-> <<>>,
                txpos |-> <<>>, times |-> {}, next_gi |-> NoCache, ok |-> TRUE]

Without(f, S) == [k \in DOMAIN f \ S |-> f[k]]
Over(f, g) == [k \in DOMAIN f \cup DOMAIN g |-> IF k \in DOMAIN f THEN f[k] ELSE g[k]]

\* The highest index that is stored is looked up once for every amount.
next_global_index_for_amount(s, a) ==
  IF s.next_gi[a] # Unknown THEN s.next_gi[a]
  ELSE Max({-1} \cup {k[2] : k \in {x \in DOMAIN s.outputs : x[1] = a}}) + 1

\* is_transaction_spend_time_unlocked.
Unlocked(unlock_time, height, time) ==
  IF unlock_time < max_block_height THEN height + AllowedDelta >= unlock_time
                                    ELSE time + AllowedSeconds >= unlock_time

\* The global index of the i-th output of a ring.
Absolute(in, i) ==
  LET index[k \in 1..i] == IF k = 1 THEN in.ring[1] ELSE index[k - 1] + in.ring[k]
  IN  index[i]
Ring(in) == 1..Len(in.ring)

-------------------------------------------------------------------------------
\* start_work_get_error looks at the tables only, input after input.  (The first
\* variant does not look at the unlock times.)
start_work_get_error_mut(s, b) ==
  \E in \in BlockInputs(b) :
    \/ in.key_image \in DOMAIN s.keyimages
    \/ \E i \in Ring(in) : <<in.amount, Absolute(in, i)>> \notin DOMAIN s.outputs

start_work_get_error(s, b) ==
  \E in \in BlockInputs(b) :
    \/ in.key_image \in DOMAIN s.keyimages
    \/ in.ring = <<>>
    \/ \E i \in Ring(in) :
         LET k == <<in.amount, Absolute(in, i)>>
         IN  k \notin DOMAIN s.outputs
               \/ ~Unlocked(s.outputs[k].unlock_time, Height[b], Timestamp[b])

\* The keys at the indices of the ring are those that were signed.
signatures_valid(s, b) ==
  \A in \in BlockInputs(b) : \A i \in Ring(in) :
    s.outputs[<<in.amount, Absolute(in, i)>>].key = in.keys[i]

\* redo_transaction_get_error with check_sigs on, over an empty DeltaState: the
\* test of the memory pool, which asks for a block of the next height with the
\* timestamp of the tip.
PoolRefuses(s, t, height, time) ==
  \E in \in KeyInputs(t) :
    \/ in.key_image \in DOMAIN s.keyimages
    \/ in.ring = <<>>
    \/ \E i \in Ring(in) :
         LET gi == Absolute(in, i)
         IN  IF gi < next_global_index_for_amount(s, in.amount)
             THEN LET o == s.outputs[<<in.amount, gi>>]
                  IN  ~Unlocked(o.unlock_time, height, time) \/ o.key # in.keys[i]
             ELSE TRUE

-------------------------------------------------------------------------------
\* DeltaState: key images, new outputs per amount, outputs to be marked spent.
EmptyDelta == [keyimages |-> {}, amounts |-> [a \in Amount |-> <<>>],
               spent |-> {}, indices |-> <<>>, ok |-> TRUE]

OfAmount(outputs, a) ==
  FlattenSeq([n \in 1..Len(outputs) |->
    IF outputs[n].amount = a THEN <<outputs[n]>> ELSE <<>>])
OutputsOf(t, a) == OfAmount(t.outputs, a)

\* redo_transaction_get_error with check_sigs off: every input is spent, every
\* output pushed, and the transaction's own delta is applied to the block's.
redo_transaction(s, d, t) ==
  LET kis == {in.key_image : in \in KeyInputs(t)}
      index(n) == next_global_index_for_amount(s, t.outputs[n].amount)
                    + Len(d.amounts[t.outputs[n].amount])
                    + Len(OfAmount(SubSeq(t.outputs, 1, n - 1), t.outputs[n].amount))
  IN  [keyimages |-> d.keyimages \cup kis,
       amounts   |-> [a \in Amount |-> d.amounts[a] \o OutputsOf(t, a)],
       spent     |-> d.spent \cup {<<in.amount, in.ring[1]>> :
                                     in \in {x \in KeyInputs(t) : Len(x.ring) = 1}},
       indices   |-> Append(d.indices, [n \in 1..Len(t.outputs) |-> index(n)]),
       ok        |-> /\ d.ok
                     /\ kis \cap d.keyimages = {}
                     /\ \A m, n \in 1..Len(t.inputs) :
                          t.inputs[m].key_image = t.inputs[n].key_image => m = n]

redo_transactions(s, b) ==
  LET delta[j \in 0..Len(Txs[b])] ==
        IF j = 0 THEN EmptyDelta ELSE redo_transaction(s, delta[j - 1], Txs[b][j])
  IN  delta[Len(Txs[b])]

\* DeltaState::apply: store_keyimage, push_amount_output and spend_output.
NewOutputs(s, d, height) ==
  LET first(a) == next_global_index_for_amount(s, a)
  IN  [k \in UNION {{<<a, first(a) + i - 1>> : i \in 1..Len(d.amounts[a])} :
                      a \in Amount} |->
         LET o == d.amounts[k[1]][k[2] - first(k[1]) + 1]
         IN  [key |-> o.key, unlock_time |-> o.unlock_time,
              height |-> height, spent |-> FALSE]]

spend_output(outputs, S, spent) ==
  [k \in DOMAIN outputs |-> IF k \in S THEN [outputs[k] EXCEPT !.spent = spent]
                                       ELSE outputs[k]]

apply(s, d, height) ==
  LET new == NewOutputs(s, d, height)
  IN  [s EXCEPT
        !.keyimages = Over([k \in d.keyimages |-> height], @),
        !.outputs = spend_output(Over(new, @), d.spent, TRUE),
        !.next_gi = [a \in Amount |->
           IF d.amounts[a] = <<>> THEN @[a]
           ELSE next_global_index_for_amount(s, a) + Len(d.amounts[a])],
        !.ok = /\ @
               /\ d.ok
               /\ d.keyimages \cap DOMAIN s.keyimages = {}
               /\ DOMAIN new \cap DOMAIN s.outputs = {}]

\* redo_block of BlockChainState and of BlockChain for a block that passed: the
\* delta, the indices of the block, the timestamp and the transaction index.
check_sigs(b) == Height[b] + 1 > CheckpointHeight

Tid(b, i) == Txs[b][i].tid
Tids(b) == {Tid(b, i) : i \in 1..Len(Txs[b])}

Positions(b) ==
  [t \in Tids(b) |->
     [height |-> Height[b],
      index |-> (CHOOSE i \in 1..Len(Txs[b]) : Tid(b, i) = t) - 1]]

Redone(s, b) ==
  LET d == redo_transactions(s, b)
  IN  [apply(s, d, Height[b]) EXCEPT
        !.indices = Over([x \in {b} |-> d.indices], @),
        !.times = @ \cup {<<Timestamp[b], Height[b]>>},
        !.txpos = Over(Positions(b), @),
        !.ok = /\ @
               /\ b \notin DOMAIN s.indices
               /\ <<Timestamp[b], Height[b]>> \notin s.times
               /\ Tids(b) \cap DOMAIN s.txpos = {}]

\* The ring checker finds nothing wrong.
Accepts(s, b) == ~start_work_get_error(s, b) /\ signatures_valid(s, b)

\* Two transactions of the block hold one key image: DeltaState::store_keyimage
\* throws, between the two halves of the ring checker's work.
SharesKeyimage(b) ==
  \E i, j \in 1..Len(Txs[b]) :
    /\ i # j
    /\ \E x \in KeyInputs(Txs[b][i]), y \in KeyInputs(Txs[b][j]) :
         x.key_image = y.key_image

\* What redo_block answers.
Answer(s, b) ==
  IF check_sigs(b) /\ start_work_get_error(s, b) THEN "refuses"
  ELSE IF SharesKeyimage(b) THEN "throws"
  ELSE IF check_sigs(b) /\ ~signatures_valid(s, b) THEN "refuses"
  ELSE "applies"

-------------------------------------------------------------------------------
\* pop_amount_output must find the output it pushed, unspent, on the top.
pop_amount_output(s, o) ==
  LET k == <<o.amount, next_global_index_for_amount(s, o.amount) - 1>>
  IN  [s EXCEPT
        !.outputs = Without(@, {k}),
        !.next_gi[o.amount] = k[2],
        !.ok = /\ @
               /\ k \in DOMAIN s.outputs
               /\ ~s.outputs[k].spent
               /\ s.outputs[k].key = o.key
               /\ s.outputs[k].unlock_time = o.unlock_time]

\* undo_transaction: the outputs from the last one, then the inputs.  (The
\* variant does not clear the spent flags.)
Popped(s, t) ==
  LET N == Len(t.outputs)
      popped[n \in 0..N] ==
        IF n = 0 THEN s ELSE pop_amount_output(popped[n - 1], t.outputs[N - n + 1])
  IN  popped[N]

undo_transaction_mut(s, t) ==
  LET kis == {in.key_image : in \in KeyInputs(t)}
  IN  [Popped(s, t) EXCEPT !.keyimages = Without(@, kis),
                           !.ok = @ /\ kis \subseteq DOMAIN s.keyimages]

undo_transaction(s, t) ==
  LET kis == {in.key_image : in \in KeyInputs(t)}
      single == {in \in KeyInputs(t) : Len(in.ring) = 1}
  IN  [Popped(s, t) EXCEPT
        !.keyimages = Without(@, kis),
        !.outputs = spend_output(@, {<<in.amount, in.ring[1]>> : in \in single},
                                 FALSE),
        !.ok = @ /\ kis \subseteq DOMAIN s.keyimages]

\* undo_block of BlockChainState and of BlockChain.
Erased(s, b) ==
  [s EXCEPT !.indices = Without(@, {b}),
            !.times = @ \ {<<Timestamp[b], Height[b]>>},
            !.txpos = Without(@, Tids(b)),
            !.ok = /\ @
                   /\ b \in DOMAIN s.indices
                   /\ <<Timestamp[b], Height[b]>> \in s.times
                   /\ Tids(b) \subseteq DOMAIN s.txpos]

undo_block(s, b) ==
  LET N == Len(Txs[b])
      undone[n \in 0..N] ==
        IF n = 0 THEN s ELSE undo_transaction(undone[n - 1], Txs[b][N - n + 1])
  IN  Erased(undone[N], b)

-------------------------------------------------------------------------------
Init ==
  /\ chain = <<Genesis>>
  /\ ledger = Redone(EmptyLedger, Genesis)
  /\ disk = [chain |-> chain, ledger |-> ledger]
  /\ verdicts = {}

\* What a process that is started finds: m_next_gi_for_amount is empty.
Reopened ==
  /\ chain' = disk.chain
  /\ ledger' = [disk.ledger EXCEPT !.next_gi = NoCache]

\* redo_block and push_chain of a child of the tip.  A refused block changes
\* nothing; when redo_block throws, add_block ends the process, which is started
\* again.
redo_block(b) ==
  /\ Parent[b] = Last(chain)
  /\ verdicts' = verdicts \cup {<<b, Answer(ledger, b)>>}
  /\ \/ /\ Answer(ledger, b) = "applies"
        /\ ledger' = Redone(ledger, b)
        /\ chain' = Append(chain, b)
     \/ Answer(ledger, b) = "refuses" /\ UNCHANGED <<ledger, chain>>
     \/ Answer(ledger, b) = "throws" /\ Reopened
  /\ UNCHANGED disk

\* undo_block and pop_chain of the tip.
UndoTip ==
  /\ Len(chain) > 1
  /\ ledger' = undo_block(ledger, Last(chain))
  /\ chain' = Front(chain)
  /\ UNCHANGED <<disk, verdicts>>

db_commit ==
  /\ disk' = [chain |-> chain, ledger |-> ledger]
  /\ UNCHANGED <<chain, ledger, verdicts>>

\* The process is killed and started again.
Restart == Reopened /\ UNCHANGED <<disk, verdicts>>

Next ==
  \/ \E b \in Block \ {Genesis} : redo_block(b)
  \/ UndoTip
  \/ db_commit
  \/ Restart

Spec == Init /\ [][Next]_vars

-------------------------------------------------------------------------------
\* What the tables of a chain should be, computed from its blocks: the stack of
\* every amount, block after block and transaction after transaction, and the
\* inputs with the heights of their blocks.
BlockStack(b, j, a) == FlattenSeq([i \in 1..j |-> OutputsOf(Txs[b][i], a)])

Stamped(outputs, height) ==
  [n \in 1..Len(outputs) |-> [key |-> outputs[n].key, height |-> height,
                              unlock_time |-> outputs[n].unlock_time]]

Stack(c, a) == FlattenSeq([i \in 1..Len(c) |->
  Stamped(BlockStack(c[i], Len(Txs[c[i]]), a), Height[c[i]])])

AllInputs(c) == UNION {{[in |-> in, height |-> Height[c[i]]] :
                          in \in BlockInputs(c[i])} : i \in 1..Len(c)}

SpentIn(inputs) == {<<in.amount, in.ring[1]>> : in \in {x \in inputs : Len(x.ring) = 1}}
SpentOf(c) == SpentIn({x.in : x \in AllInputs(c)})

\* The outputs of the tables are those of the stacks, and S the spent ones.
StacksOf(s, stack, S) ==
  /\ DOMAIN s.outputs =
       UNION {{<<a, n - 1>> : n \in 1..Len(stack[a])} : a \in Amount}
  /\ \A a \in Amount : \A n \in 1..Len(stack[a]) :
       s.outputs[<<a, n - 1>>] =
         [key |-> stack[a][n].key, unlock_time |-> stack[a][n].unlock_time,
          height |-> stack[a][n].height, spent |-> <<a, n - 1>> \in S]
  /\ \A a \in Amount : s.next_gi[a] \in {Unknown, Len(stack[a])}

TablesOf(s, c) ==
  /\ DOMAIN s.keyimages = {x.in.key_image : x \in AllInputs(c)}
  /\ \A x \in AllInputs(c) : s.keyimages[x.in.key_image] = x.height
  /\ StacksOf(s, [a \in Amount |-> Stack(c, a)], SpentOf(c))
  /\ s.times = {<<Timestamp[c[i]], Height[c[i]]>> : i \in 1..Len(c)}
  /\ DOMAIN s.txpos = UNION {Tids(c[i]) : i \in 1..Len(c)}

\* Whether a block is good on top of a chain, which is all that the checks should
\* depend on: its inputs are not spent, and their rings name unlocked outputs that
\* hold the keys that were signed.
Good(c, b) ==
  /\ ~SharesKeyimage(b)
  /\ \A in \in BlockInputs(b) :
       /\ in.key_image \notin {x.in.key_image : x \in AllInputs(c)}
       /\ in.ring # <<>>
       /\ \A i \in Ring(in) :
            /\ Absolute(in, i) < Len(Stack(c, in.amount))
            /\ LET o == Stack(c, in.amount)[Absolute(in, i) + 1]
               IN  Unlocked(o.unlock_time, Height[b], Timestamp[b]) /\ o.key = in.keys[i]

\* From genesis on, each block on top of its parent.
IsChain(c) ==
  /\ c \in Seq(Block)
  /\ \A i \in 1..Len(c) :
       IF i = 1 THEN c[1] = Genesis ELSE c[i] # Genesis /\ Parent[c[i]] = c[i - 1]

\* The blocks below the last checkpoint, whose inputs are not checked any more,
\* are good.
ASSUME CheckpointAssumption ==
  \A b \in {x \in Block \ {Genesis} : ~check_sigs(x)} :
    \A c \in [1..Height[b] -> Block] :
      IsChain(c) /\ c[Height[b]] = Parent[b] => Good(c, b)

\* Whatever blocks were applied, refused and undone before, and after every
\* restart, the tables are those of the blocks of the chain alone: undo_block is
\* the exact inverse of redo_block, spent flags and cached counters included.
LedgerIsChain ==
  TablesOf(ledger, chain) /\ TablesOf(disk.ledger, disk.chain)

\* No invariant of pop_amount_output, no store of a key that exists and no
\* deletion of a key that does not exist happens.
AssertionsHold == ledger.ok

\* redo_block gives the same answer for a block every time it is asked, whatever
\* branches were visited and whatever restarts came in between: the assumption of
\* BlockChain.tla that a block is either applied, refused or thrown upon.
VerdictFixed == \A v, w \in verdicts : v[1] = w[1] => v = w

\* The global indices stored with a block of the chain, which wallets rely on,
\* lead from each of its outputs to an output with its key and its height.
IndicesLeadHome ==
  \A i \in 1..Len(chain) :
    LET b == chain[i]
    IN  \A j \in 1..Len(Txs[b]) : \A n \in 1..Len(Txs[b][j].outputs) :
          LET o == Txs[b][j].outputs[n]
              k == <<o.amount, ledger.indices[b][j][n]>>
          IN  /\ k \in DOMAIN ledger.outputs
              /\ ledger.outputs[k].key = o.key
              /\ ledger.outputs[k].height = Height[b]

\* The transaction index finds every transaction of the chain in its block.
TransactionsFound ==
  \A i \in 1..Len(chain) : \A j \in 1..Len(Txs[chain[i]]) :
    ledger.txpos[Tid(chain[i], j)] = [height |-> i - 1, index |-> j - 1]

\* An output of a ring of the block is locked to a moment that the clock of the
\* block has reached and that of the tip has not, or the other way round.
ClocksDiffer(s, b) ==
  \E in \in BlockInputs(b) : \E i \in Ring(in) :
    LET k == <<in.amount, Absolute(in, i)>>
        o == s.outputs[k]
    IN  /\ k \in DOMAIN s.outputs
        /\ Unlocked(o.unlock_time, Height[b], Timestamp[b])
             # Unlocked(o.unlock_time, Height[b], Timestamp[Parent[b]])

\* The memory pool and the ring checker test transactions by different code
\* against different views of the tables and with different clocks; they agree on
\* every transaction unless the clocks differ on an output of its ring.
PoolAgreesWithBlock ==
  \A b \in {x \in Block \ {Genesis} : Parent[x] = Last(chain) /\ check_sigs(x)} :
    \/ (\A i \in 2..Len(Txs[b]) :
          ~PoolRefuses(ledger, Txs[b][i], Len(chain), Timestamp[Last(chain)]))
         <=> Accepts(ledger, b)
    \/ ClocksDiffer(ledger, b)
================================================================================
