-------------------------------- MODULE TxPool --------------------------------
(***************************************************************************)
(* The memory pool of BlockChainState: add_transaction with its fee rules, *)
(* displacement of conflicting transactions and eviction at MAX_POOL_SIZE, *)
(* remove_from_pool, the removal of transactions whose key images a block  *)
(* spends, and on_reorganization, which rebuilds the pool and offers the   *)
(* transactions of undone blocks to it again.                              *)
(*                                                                         *)
(* Transactions and key images are numbers because the code compares their *)
(* hashes: the order of tids decides between equal fees, the order of key  *)
(* images is the order in which conflicts are visited.  Of the chain only  *)
(* the transactions of its blocks are kept.  The operators that end in     *)
(* _mut are faulty variants of the definition that follows them; no        *)
(* specification uses them.                                                *)
(***************************************************************************)
EXTENDS Integers, Sequences, FiniteSets, FiniteSetsExt

CONSTANTS
  Tx,            \* transaction hashes
  KeyImage,      \* key images
  Inputs,        \* the key images of a transaction in the order of its inputs
  FeePerByte,
  Size,          \* binary_tx.size()
  MAX_POOL_SIZE,
  MaxChain,      \* bound: blocks in the chain
  MaxVersion     \* bound: m_tx_pool_version

NoTx == 0

TxAssumption ==
  /\ Tx \subseteq Nat \ {NoTx}
  /\ KeyImage \subseteq Nat
  /\ Inputs \in [Tx -> Seq(KeyImage)]
  /\ FeePerByte \in [Tx -> Nat]
  /\ Size \in [Tx -> Nat \ {0}]
  /\ MAX_POOL_SIZE \in Nat \ {0}

VARIABLES
  pool,      \* m_memory_state_tx, _ki_tx, _fee_tx and _total_size
  version,   \* m_tx_pool_version
  chain,     \* the transactions of every block of the chain
  pc,        \* "idle", or the phase of reorganize_blocks
  undone,    \* undone_transactions
  undone_blocks,
  old,       \* old_memory_state_tx while on_reorganization refills the pool
  last       \* the last transaction offered, and the answer

vars == <<pool, version, chain, pc, undone, undone_blocks, old, last>>

KeyImages(t) == {Inputs[t][i] : i \in 1..Len(Inputs[t])}
Spent == UNION {KeyImages(t) : t \in UNION {chain[i] : i \in 1..Len(chain)}}
SumSize(S) == MapThenSumSet(LAMBDA t : Size[t], S)

EmptyPool == [tx |-> {}, ki |-> [k \in KeyImage |-> NoTx], fee |-> {},
              total |-> 0]

-------------------------------------------------------------------------------
\* Transaction o wins against t: the order of m_memory_state_fee_tx, and the
\* test of every INCREASE_FEE answer.
Outranks(o, t) ==
  \/ FeePerByte[t] < FeePerByte[o]
  \/ FeePerByte[t] = FeePerByte[o] /\ t < o

\* minimum_pool_fee_per_byte: the first entry of m_memory_state_fee_tx.
minimum_pool_fee_per_byte(p) ==
  CHOOSE t \in p.fee : \A u \in p.fee \ {t} : Outranks(u, t)

\* remove_from_pool of each transaction of S, and its all_erased invariant.
remove_from_pool(p, S) ==
  [tx    |-> p.tx \ S,
   ki    |-> [k \in KeyImage |->
                IF \E t \in S : k \in KeyImages(t) THEN NoTx ELSE p.ki[k]],
   fee   |-> p.fee \ S,
   total |-> p.total - SumSize(S)]

AllErased(p, S) ==
  /\ S \subseteq p.fee
  /\ \A t \in S : \A k \in KeyImages(t) : p.ki[k] # NoTx
  /\ \A t, u \in S : t # u => KeyImages(t) \cap KeyImages(u) = {}

\* The insertions of add_transaction, and their all_inserted invariant.
Inserted(p, t) ==
  [tx    |-> p.tx \cup {t},
   ki    |-> [k \in KeyImage |-> IF k \in KeyImages(t) THEN t ELSE p.ki[k]],
   fee   |-> p.fee \cup {t},
   total |-> p.total + Size[t]]

AllInserted(p, t) ==
  /\ t \notin p.tx /\ t \notin p.fee
  /\ \A k \in KeyImages(t) : p.ki[k] = NoTx

\* The while loop after the insertion removes the lowest transaction as long as
\* that leaves MAX_POOL_SIZE bytes or more.
\* (First a variant with the bound off by one.)
Evicted_mut(p) ==
  {t \in p.tx : SumSize({u \in p.tx : Outranks(u, t)}) > MAX_POOL_SIZE}

Evicted(p) ==
  {t \in p.tx : SumSize({u \in p.tx : Outranks(u, t)}) >= MAX_POOL_SIZE}

\* The early test of a full pool.
TooCheap(p, t) ==
  /\ p.total >= MAX_POOL_SIZE
  /\ p.fee # {}
  /\ Outranks(minimum_pool_fee_per_byte(p), t)

\* The first loop over the inputs looks at the first conflict only.
FirstConflictWins(p, t) ==
  \E i \in 1..Len(Inputs[t]) :
    /\ p.ki[Inputs[t][i]] # NoTx
    /\ \A j \in 1..(i-1) : p.ki[Inputs[t][j]] = NoTx
    /\ Outranks(p.ki[Inputs[t][i]], t)

\* The loop over memory_state.get_keyimages(), in key image order, removes every
\* conflicting transaction until it meets one that t does not outrank.
Blockers(p, t) ==
  {k \in KeyImages(t) : p.ki[k] # NoTx /\ Outranks(p.ki[k], t)}
\* (First a variant that removes one conflicting transaction only.)
Displaced_mut(p, t) ==
  {p.ki[k] : k \in {q \in KeyImages(t) :
                      /\ p.ki[q] # NoTx
                      /\ \A r \in KeyImages(t) : p.ki[r] # NoTx => q <= r}}
Displaced(p, t) ==
  {p.ki[k] : k \in {q \in KeyImages(t) :
                      /\ p.ki[q] # NoTx
                      /\ \A b \in Blockers(p, t) : q < b}}

\* add_transaction: the pool after it, the answer, and whether its invariants
\* hold.  `verdict' stands for validate_semantic and redo_transaction_get_error.
Answer(p, result) == [pool |-> p, result |-> result, ok |-> TRUE]

Admit(p, t) ==
  LET q == remove_from_pool(p, Displaced(p, t))
      r == Inserted(q, t)
  IN  [pool   |-> remove_from_pool(r, Evicted(r)),
       result |-> "BROADCAST_ALL",
       ok     |-> /\ AllErased(p, Displaced(p, t))
                  /\ AllInserted(q, t)
                  /\ AllErased(r, Evicted(r))]

add_transaction(p, t, verdict) ==
  CASE t \in p.tx -> Answer(p, "ALREADY_IN_POOL")
    [] t \notin p.tx /\ (TooCheap(p, t) \/ FirstConflictWins(p, t))
         -> Answer(p, "INCREASE_FEE")
    [] OTHER ->
         IF KeyImages(t) \cap Spent # {} THEN Answer(p, "OUTPUT_ALREADY_SPENT")
         ELSE IF verdict # "ok" THEN Answer(p, verdict)
         ELSE IF Blockers(p, t) = {} THEN Admit(p, t)
         ELSE [pool   |-> remove_from_pool(p, Displaced(p, t)),
               result |-> "INCREASE_FEE",
               ok     |-> AllErased(p, Displaced(p, t))]

Verdicts == {"ok", "BAN", "FAILED_TO_REDO"}

\* One call of add_transaction, or the exit on a failed invariant.
Offer(t, verdict) ==
  LET a == add_transaction(pool, t, verdict)
  IN  /\ pool' = a.pool
      /\ version' = IF a.result = "BROADCAST_ALL" THEN version + 1 ELSE version
      /\ last' = [tid |-> t, result |-> a.result]
      /\ pc' = IF a.ok THEN pc ELSE "exited"

-------------------------------------------------------------------------------
Init ==
  /\ pool = EmptyPool
  /\ version = 2
  /\ chain = <<>>
  /\ pc = "idle"
  /\ undone = {}
  /\ undone_blocks = FALSE
  /\ old = {}
  /\ last = [tid |-> NoTx, result |-> "none"]

\* A transaction comes from a peer or from the API.
AddTransaction(t) ==
  /\ pc = "idle"
  /\ version < MaxVersion
  /\ \E verdict \in Verdicts : Offer(t, verdict)
  /\ UNCHANGED <<chain, undone, undone_blocks, old>>

\* redo_block of a block that redo_block accepts: delta.apply stores its key
\* images and removes the pool transactions that hold one of them.
Acceptable(B) ==
  /\ \A t \in B : KeyImages(t) \cap Spent = {}
  /\ \A t, u \in B : t # u => KeyImages(t) \cap KeyImages(u) = {}

store_keyimages(p, B) ==
  {p.ki[k] : k \in UNION {KeyImages(t) : t \in B}} \ {NoTx}

redo_block(B) ==
  /\ Len(chain) < MaxChain
  /\ Acceptable(B)
  /\ chain' = Append(chain, B)
  /\ pool' = remove_from_pool(pool, store_keyimages(pool, B))
  /\ version' = 2
  /\ pc' = IF AllErased(pool, store_keyimages(pool, B)) THEN pc ELSE "exited"
  /\ undone' = undone \ B
  /\ UNCHANGED <<undone_blocks, old>>

\* add_block of a block that extends the tip.
ExtendChain(B) ==
  /\ pc = "idle"
  /\ redo_block(B)
  /\ last' = [tid |-> NoTx, result |-> "none"]

\* reorganize_blocks: undo blocks, redo others, then on_reorganization.
StartReorg ==
  /\ pc = "idle"
  /\ pc' = "undo"
  /\ undone' = {}
  /\ undone_blocks' = FALSE
  /\ last' = [tid |-> NoTx, result |-> "none"]
  /\ UNCHANGED <<pool, version, chain, old>>

UndoBlock ==
  /\ pc = "undo"
  /\ chain # <<>>
  /\ undone' = undone \cup chain[Len(chain)]
  /\ chain' = SubSeq(chain, 1, Len(chain) - 1)
  /\ undone_blocks' = TRUE
  /\ UNCHANGED <<pool, version, pc, old, last>>

UndoDone ==
  /\ pc = "undo"
  /\ pc' = "redo"
  /\ UNCHANGED <<pool, version, chain, undone, undone_blocks, old, last>>

RedoBlock(B) ==
  /\ pc = "redo"
  /\ redo_block(B)
  /\ UNCHANGED last

\* on_reorganization swaps the pool out when blocks were undone.
RedoDone ==
  /\ pc = "redo"
  /\ pc' = "rebuild"
  /\ IF undone_blocks THEN old' = pool.tx /\ pool' = EmptyPool
                      ELSE UNCHANGED <<old, pool>>
  /\ UNCHANGED <<version, chain, undone, undone_blocks, last>>

\* It then offers the old transactions and the undone ones again, each group in
\* the order of the tids.
Smallest(S) == CHOOSE t \in S : \A u \in S : t <= u

Rebuild ==
  /\ pc = "rebuild"
  /\ old \cup undone # {}
  /\ LET t == Smallest(IF old # {} THEN old ELSE undone)
     IN  /\ \E verdict \in Verdicts : Offer(t, verdict)
         /\ IF old # {} THEN old' = old \ {t} /\ UNCHANGED undone
                        ELSE undone' = undone \ {t} /\ UNCHANGED old
  /\ UNCHANGED <<chain, undone_blocks>>

RebuildDone ==
  /\ pc = "rebuild"
  /\ old \cup undone = {}
  /\ pc' = "idle"
  /\ version' = 2
  /\ UNCHANGED <<pool, chain, undone, undone_blocks, old, last>>

Next ==
  \/ \E t \in Tx : AddTransaction(t)
  \/ \E B \in SUBSET Tx : ExtendChain(B) \/ RedoBlock(B)
  \/ StartReorg
  \/ UndoBlock
  \/ UndoDone
  \/ RedoDone
  \/ Rebuild
  \/ RebuildDone

Spec == Init /\ [][Next]_vars

-------------------------------------------------------------------------------
Results == {"none", "ALREADY_IN_POOL", "INCREASE_FEE", "OUTPUT_ALREADY_SPENT",
            "BAN", "FAILED_TO_REDO", "BROADCAST_ALL"}

\* Every variable has its type.
TypeOK ==
  /\ pool \in [tx : SUBSET Tx, ki : [KeyImage -> Tx \cup {NoTx}],
               fee : SUBSET Tx, total : Nat]
  /\ version \in Nat
  /\ chain \in Seq(SUBSET Tx)
  /\ pc \in {"idle", "undo", "redo", "rebuild", "exited"}
  /\ undone \subseteq Tx
  /\ undone_blocks \in BOOLEAN
  /\ old \subseteq Tx
  /\ last \in [tid : Tx \cup {NoTx}, result : Results]

\* The all_inserted and all_erased invariants of the code never fail.
NeverExits == pc # "exited"

\* The three indices describe the same pool: the key image index is the inverse
\* of the inputs of the pool's transactions (so no two of them share a key
\* image) and the fee index holds each of them once.
IndexConsistent ==
  /\ pool.fee = pool.tx
  /\ \A k \in KeyImage, t \in Tx :
       pool.ki[k] = t <=> t \in pool.tx /\ k \in KeyImages(t)

\* m_memory_state_total_size is the size of the pool, and a pool that is over
\* the limit is over it by less than its lowest transaction.
SizeBounded ==
  /\ pool.total = SumSize(pool.tx)
  /\ pool.tx # {} =>
       pool.total < MAX_POOL_SIZE + Size[minimum_pool_fee_per_byte(pool)]

\* Outside a reorganization no transaction of the pool spends what the chain
\* has spent already, so every one of them can still be mined.
NothingSpentTwice ==
  pc = "idle" => \A t \in pool.tx : KeyImages(t) \cap Spent = {}

\* A transaction that is answered BROADCAST_ALL is in the pool: the eviction
\* that its insertion starts never removes it.
BroadcastIsInPool ==
  last.result = "BROADCAST_ALL" => last.tid \in pool.tx
================================================================================
