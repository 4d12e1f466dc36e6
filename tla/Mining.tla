------------------------------- MODULE Mining -------------------------------
(***************************************************************************)
(* The transactions of templates (m_mining_transactions of                 *)
(* BlockChainState): a miner gets only the hashes of the transactions in a *)
(* block template, so that the node must still have the transactions when  *)
(* the block is submitted, also when they have left the memory pool.       *)
(*                                                                         *)
(* The chain (BlockChain) and the memory pool (TxPool) are seen from here  *)
(* as a tip and a set that others change; what the model follows is one    *)
(* process, because a restart forgets the pool and the templates alike.    *)
(***************************************************************************)
EXTENDS Integers, FiniteSets

CONSTANTS Tx,
          Block,        \* the blocks that can be the tip
          Height,       \* their heights
          Remember,     \* 3: heights for which transactions are remembered
          MaxTemplates  \* bound: templates in the hands of miners

MiningAssumption == Height \in [Block -> Nat] /\ Remember \in Nat

VARIABLES tip,          \* get_tip_bid()
          pool,         \* m_memory_state_tx
          mining,       \* m_mining_transactions: a function from transactions to heights
          given,        \* the templates miners work on: their parent, their transactions
                        \* and, as history, the highest tip a template was asked on since
          sent          \* the last submitted block as the peers got it
vars == <<tip, pool, mining, given, sent>>

Template == [prev : Block, txs : SUBSET Tx, top : Nat]

TypeOK ==
    /\ tip \in Block /\ pool \subseteq Tx
    /\ DOMAIN mining \subseteq Tx /\ mining \in [DOMAIN mining -> Nat]
    /\ given \subseteq Template
    /\ sent \in {"none", "complete", "in part"}

Init ==
    /\ tip \in Block /\ pool = {} /\ mining = [tx \in {} |-> 0] /\ given = {} /\ sent = "none"

(***************************************************************************)
(* What others do                                                          *)
(***************************************************************************)
\* A transaction arrives; another one may have to leave the pool for it.
PoolChanges(txs) ==
    /\ pool' = txs
    /\ UNCHANGED <<tip, mining, given, sent>>
\* Blocks of others change the tip: on top of it, by a reorganization, or by one
\* that fails half way, after which an older block is the tip again.
TipChanges(b, txs) ==
    /\ tip' = b /\ pool' = txs
    /\ UNCHANGED <<mining, given, sent>>
\* A miner has lost interest.
GiveUp(t) ==
    /\ given' = given \ {t}
    /\ UNCHANGED <<tip, pool, mining, sent>>

(***************************************************************************)
(* Templates                                                               *)
(***************************************************************************)
TipHeight == Height[tip]

clear_mining_transactions(m) ==
    [tx \in {x \in DOMAIN m : TipHeight <= m[x] + Remember} |-> m[tx]]
\* insert() of a map leaves an entry as it is
Inserted(m, txs) ==
    [tx \in DOMAIN m \cup txs |-> IF tx \in DOMAIN m THEN m[tx] ELSE TipHeight + 1]

\* (A faulty variant forgets old transactions after the insertion.)
RememberedLate(txs) == clear_mining_transactions(Inserted(mining, txs))
Remembered(txs) == Inserted(clear_mining_transactions(mining), txs)

\* history: a template has been asked for on this tip
Asked == {[t EXCEPT !.top = IF @ < TipHeight THEN TipHeight ELSE @] : t \in given}

\* It ends before the pool is looked at when there is no difficulty for the next
\* block or no room for the tag of merge mining.
TemplateRefused ==
    /\ mining' = clear_mining_transactions(mining)
    /\ given' = Asked
    /\ UNCHANGED <<tip, pool, sent>>
\* txs are those that fit; the coinbase may still fail.
create_mining_block_template(txs) ==
    /\ mining' = Remembered(txs)
    /\ \/ given' = Asked
       \/ /\ Cardinality(given) < MaxTemplates
          /\ given' = Asked \cup {[prev |-> tip, txs |-> txs, top |-> TipHeight]}
    /\ UNCHANGED <<tip, pool, sent>>

(***************************************************************************)
(* Submission                                                              *)
(***************************************************************************)
Known(txs) == txs \cap (pool \cup DOMAIN mining)

\* The tips that add_block can leave behind when the block b, mined on p, is
\* known or lighter (the same), when it extends the tip, when it is heavier on
\* another branch, and when that reorganization fails.
add_block(p, b) == {tip} \cup (IF p = tip THEN {b} ELSE Block)

\* Without all transactions nothing is added; NOTHING is not an error to
\* on_submitblock, which sends what it has to the peers and answers OK.
Incomplete(t) ==
    /\ Known(t.txs) # t.txs
    /\ sent' = "in part"
    /\ UNCHANGED <<tip, pool>>
add_mined_block(t, b) ==
    /\ Known(t.txs) = t.txs
    /\ Height[b] = Height[t.prev] + 1
    /\ tip' \in add_block(t.prev, b)
    /\ pool' \in SUBSET Tx
    /\ tip' = tip => pool' = pool
    /\ tip' = b => pool' \cap t.txs = {}
    /\ sent' = "complete"
\* Neither does a block that consensus refuses change the node (a block that only
\* redo_block refuses stays stored, which is not seen here); it is not sent.
on_submitblock(t) ==
    /\ \/ Incomplete(t)
       \/ \E b \in Block : add_mined_block(t, b)
       \/ Known(t.txs) = t.txs /\ UNCHANGED <<tip, pool, sent>>
    /\ UNCHANGED <<mining, given>>

Next ==
    \/ \E txs \in SUBSET Tx : PoolChanges(txs)
    \/ \E b \in Block, txs \in SUBSET Tx : TipChanges(b, txs)
    \/ \E t \in given : GiveUp(t)
    \/ TemplateRefused
    \/ \E txs \in SUBSET pool : create_mining_block_template(txs)
    \/ \E t \in given : on_submitblock(t)
Spec == Init /\ [][Next]_vars

(***************************************************************************)
(* Properties                                                              *)
(***************************************************************************)
\* The block of a template for the present tip can always be assembled,
\* whatever has left the pool, whatever chains have been the best and whoever
\* has asked for templates since, unless that was on a higher tip.
CurrentComplete ==
    \A t \in given : t.prev = tip /\ t.top <= TipHeight => Known(t.txs) = t.txs

\* More: no template asked on no higher tip than its own has lost a transaction,
\* because what m_mining_transactions holds of it is not older than Remember.
TemplatesKept ==
    \A t \in given : t.top <= Height[t.prev] =>
        \A tx \in t.txs : tx \in DOMAIN mining /\ Height[t.prev] <= mining[tx] + Remember
=============================================================================
