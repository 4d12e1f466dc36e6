----------------------------- MODULE LedgerProofs -----------------------------
(***************************************************************************)
(* The memory pool and the templates of miners, for every set of           *)
(* transactions, blocks, sizes and limits: the pool's indices never        *)
(* disagree and nothing is spent twice, and no template for the present    *)
(* tip loses a transaction.  The ledger, for every tree of blocks: its     *)
(* tables are those of the chain, whatever was undone, and a block has one *)
(* verdict.                                                                *)
(***************************************************************************)
EXTENDS MCLedger, SequenceTheorems, FiniteSetTheorems, WellFoundedInduction, TLAPS

-------------------------------------------------------------------------------
(***************************************************************************)
(* Templates.  What is true of the present tip alone is not inductive: the *)
(* tip changes as it likes.  TemplatesKept speaks of every template, and   *)
(* of the heights that m_mining_transactions has for its transactions.     *)
(***************************************************************************)
MiInv == Mi!TypeOK /\ Mi!TemplatesKept

\* create_mining_block_template and the refusal before it: what is forgotten is
\* older than every template that was asked for on no higher tip than its own.
LEMMA ForgottenIsOld ==
  ASSUME MiInv, NEW t \in Mi!Asked, t.top <= MinedHeight[t.prev], NEW tx \in t.txs
  PROVE  /\ tx \in DOMAIN Mi!clear_mining_transactions(mining)
         /\ MinedHeight[t.prev] <= Mi!clear_mining_transactions(mining)[tx] + Remember
<1> DEFINE top(s) == IF s.top < Mi!TipHeight THEN Mi!TipHeight ELSE s.top
<1>1. PICK s \in given : t = [s EXCEPT !.top = top(s)]
  BY DEF Mi!Asked
<1>2. s \in Mi!Template
  BY DEF MiInv, Mi!TypeOK
<1>3. t.prev = s.prev /\ t.txs = s.txs /\ t.top = top(s)
  BY <1>1, <1>2 DEF Mi!Template
<1>4. Mi!TipHeight \in Nat /\ MinedHeight[s.prev] \in Nat /\ s.top \in Nat
  BY <1>2, MinersAssumption DEF MiInv, Mi!TypeOK, Mi!Template, Mi!MiningAssumption, Mi!TipHeight
<1>5. s.top <= MinedHeight[s.prev] /\ Mi!TipHeight <= MinedHeight[s.prev]
  BY <1>3, <1>4
<1>6. tx \in DOMAIN mining /\ MinedHeight[s.prev] <= mining[tx] + Remember
  BY <1>3, <1>5 DEF MiInv, Mi!TemplatesKept
<1>7. mining[tx] \in Nat /\ Remember \in Nat
  BY <1>6, MinersAssumption DEF MiInv, Mi!TypeOK, Mi!MiningAssumption
<1>8. Mi!TipHeight <= mining[tx] + Remember
  BY <1>4, <1>5, <1>6, <1>7
<1> QED BY <1>3, <1>6, <1>8 DEF Mi!clear_mining_transactions

LEMMA ForgettingTyped ==
  ASSUME MiInv
  PROVE  LET m == Mi!clear_mining_transactions(mining)
         IN  DOMAIN m \subseteq MinedTx /\ m \in [DOMAIN m -> Nat]
BY DEF MiInv, Mi!TypeOK, Mi!clear_mining_transactions

LEMMA AskedTyped ==
  ASSUME MiInv
  PROVE  Mi!Asked \subseteq Mi!Template
<1>1. Mi!TipHeight \in Nat
  BY MinersAssumption DEF MiInv, Mi!TypeOK, Mi!MiningAssumption, Mi!TipHeight
<1> QED BY <1>1 DEF MiInv, Mi!TypeOK, Mi!Asked, Mi!Template

\* A template that is made remembers what it needs, and takes nothing from the
\* others.
LEMMA TemplateMade ==
  ASSUME MiInv, NEW txs \in SUBSET ready, Mi!create_mining_block_template(txs)
  PROVE  MiInv'
<1> DEFINE m == Mi!clear_mining_transactions(mining)
           new == [prev |-> tip, txs |-> txs, top |-> Mi!TipHeight]
<1>1. mining' = Mi!Inserted(m, txs) /\ UNCHANGED <<tip, ready, sent>>
  BY DEF Mi!create_mining_block_template, Mi!Remembered
<1>2. \A t \in given' : t \in Mi!Asked \/ t = new
  BY DEF Mi!create_mining_block_template
<1>3. DOMAIN m \subseteq MinedTx /\ m \in [DOMAIN m -> Nat]
  BY ForgettingTyped
<1>4. Mi!TipHeight \in Nat /\ tip \in MinedOn /\ txs \subseteq MinedTx /\ Remember \in Nat
  BY MinersAssumption DEF MiInv, Mi!TypeOK, Mi!MiningAssumption, Mi!TipHeight
<1>5. /\ DOMAIN mining' = DOMAIN m \cup txs
      /\ \A tx \in DOMAIN m \cup txs : mining'[tx] = IF tx \in DOMAIN m THEN m[tx] ELSE Mi!TipHeight + 1
  BY <1>1 DEF Mi!Inserted
<1>6. mining' \in [DOMAIN mining' -> Nat]
  <2> HIDE DEF m
  <2>1. \A tx \in DOMAIN m \cup txs : (IF tx \in DOMAIN m THEN m[tx] ELSE Mi!TipHeight + 1) \in Nat
    BY <1>3, <1>4
  <2> QED BY <1>1, <2>1 DEF Mi!Inserted
<1>7. new \in Mi!Template
  BY <1>4 DEF Mi!Template
<1>8. Mi!TypeOK'
  <2>1. given' \subseteq Mi!Template
    BY <1>2, <1>7, AskedTyped
  <2>2. DOMAIN mining' \subseteq MinedTx
    BY <1>3, <1>4, <1>5
  <2> QED BY <1>1, <1>6, <2>1, <2>2 DEF MiInv, Mi!TypeOK, Mi!Template
<1>9. Mi!TemplatesKept'
  <2> SUFFICES ASSUME NEW t \in given', t.top <= MinedHeight[t.prev], NEW tx \in t.txs
               PROVE  tx \in DOMAIN mining' /\ MinedHeight[t.prev] <= mining'[tx] + Remember
    BY DEF Mi!TemplatesKept
  <2>1. CASE t \in Mi!Asked
    <3>1. tx \in DOMAIN m /\ MinedHeight[t.prev] <= m[tx] + Remember
      BY <2>1, ForgottenIsOld
    <3> QED BY <3>1, <1>5
  <2>2. CASE t = new
    <3>1. t.prev = tip /\ tx \in txs /\ MinedHeight[tip] = Mi!TipHeight
      BY <2>2 DEF Mi!TipHeight
    <3>2. CASE tx \in DOMAIN m
      <4>1. Mi!TipHeight <= m[tx] + Remember
        BY <3>2 DEF Mi!clear_mining_transactions
      <4> QED BY <3>1, <3>2, <4>1, <1>5
    <3>3. CASE tx \notin DOMAIN m
      <4>1. mining'[tx] = Mi!TipHeight + 1
        BY <3>1, <3>3, <1>5
      <4>2. Mi!TipHeight <= (Mi!TipHeight + 1) + Remember
        BY <1>4
      <4> QED BY <3>1, <4>1, <4>2, <1>5
    <3> QED BY <3>2, <3>3
  <2> QED BY <1>2, <2>1, <2>2
<1> QED BY <1>8, <1>9 DEF MiInv

LEMMA TemplateNotMade ==
  ASSUME MiInv, Mi!TemplateRefused
  PROVE  MiInv'
<1>1. Mi!TypeOK'
  BY ForgettingTyped, AskedTyped DEF MiInv, Mi!TypeOK, Mi!TemplateRefused, Mi!Template
<1>2. Mi!TemplatesKept'
  <2> SUFFICES ASSUME NEW t \in Mi!Asked, t.top <= MinedHeight[t.prev], NEW tx \in t.txs
               PROVE  /\ tx \in DOMAIN Mi!clear_mining_transactions(mining)
                      /\ MinedHeight[t.prev] <= Mi!clear_mining_transactions(mining)[tx] + Remember
    BY DEF Mi!TemplatesKept, Mi!TemplateRefused
  <2> QED BY ForgottenIsOld
<1> QED BY <1>1, <1>2 DEF MiInv

\* Nothing else forgets.
LEMMA OthersKeep ==
  ASSUME MiInv, tip' \in MinedOn, ready' \subseteq MinedTx, given' \subseteq given,
         mining' = mining, sent' \in {"none", "complete", "in part"}
  PROVE  MiInv'
BY DEF MiInv, Mi!TypeOK, Mi!TemplatesKept, Mi!Template

LEMMA MiningStep ==
  ASSUME MiInv, [Mi!Next]_mi
  PROVE  MiInv'
<1> USE DEF MiInv, Mi!TypeOK
<1>1. CASE \E txs \in SUBSET MinedTx : Mi!PoolChanges(txs)
  BY <1>1, OthersKeep DEF Mi!PoolChanges
<1>2. CASE \E b \in MinedOn, txs \in SUBSET MinedTx : Mi!TipChanges(b, txs)
  BY <1>2, OthersKeep DEF Mi!TipChanges
<1>3. CASE \E t \in given : Mi!GiveUp(t)
  BY <1>3, OthersKeep DEF Mi!GiveUp
<1>4. CASE Mi!TemplateRefused
  BY <1>4, TemplateNotMade
<1>5. CASE \E txs \in SUBSET ready : Mi!create_mining_block_template(txs)
  BY <1>5, TemplateMade
<1>6. CASE \E t \in given : Mi!on_submitblock(t)
  <2>1. PICK t \in given : Mi!on_submitblock(t)
    BY <1>6
  <2>2. mining' = mining /\ given' = given
    BY <2>1 DEF Mi!on_submitblock
  <2>3. CASE Mi!Incomplete(t)
    BY <2>2, <2>3, OthersKeep DEF Mi!Incomplete
  <2>4. CASE \E b \in MinedOn : Mi!add_mined_block(t, b)
    <3>1. tip' \in MinedOn /\ ready' \subseteq MinedTx /\ sent' = "complete"
      BY <2>4 DEF Mi!add_mined_block, Mi!add_block
    <3> QED BY <2>2, <3>1, OthersKeep
  <2>5. CASE UNCHANGED <<tip, ready, sent>>
    BY <2>2, <2>5, OthersKeep
  <2> QED BY <2>1, <2>3, <2>4, <2>5 DEF Mi!on_submitblock
<1>7. CASE UNCHANGED mi
  BY <1>7, OthersKeep DEF mi
<1> QED BY <1>1, <1>2, <1>3, <1>4, <1>5, <1>6, <1>7 DEF Mi!Next

\* The block of a template for the present tip can always be assembled, for any
\* transactions, blocks and heights and however long they are remembered, as long
\* as nobody asked for a template on a higher tip (create_mining_block_template,
\* clear_mining_transactions, add_mined_block).
THEOREM TemplatesAlwaysComplete == MCSpec => []TemplatesComplete
<1>1. MCInit => MiInv
  BY MinersAssumption DEF MCInit, Mi!Init, MiInv, Mi!TypeOK, Mi!TemplatesKept
<1>2. MiInv /\ [MCNext]_all => MiInv'
  <2> SUFFICES ASSUME MiInv, [MCNext]_all PROVE [Mi!Next]_mi
    BY MiningStep
  <2> QED BY DEF MCNext, all, mi
<1>3. MiInv => TemplatesComplete
  <2> SUFFICES ASSUME MiInv, NEW t \in given, t.prev = tip, t.top <= MinedHeight[tip]
               PROVE  Mi!Known(t.txs) = t.txs
    BY DEF TemplatesComplete, Mi!CurrentComplete, Mi!TipHeight
  <2> QED BY DEF MiInv, Mi!TemplatesKept, Mi!Known
<1> QED BY <1>1, <1>2, <1>3, PTL DEF MCSpec
-------------------------------------------------------------------------------
(***************************************************************************)
(* The memory pool.  PoolOf says what the three indices of a pool have to  *)
(* do with each other; every operation on a pool is shown to keep it.      *)
(***************************************************************************)
PoolOf(p) ==
  /\ p.tx \subseteq Tx
  /\ p.fee = p.tx
  /\ p.ki \in [KeyImage -> Tx \cup {Po!NoTx}]
  /\ \A k \in KeyImage, t \in Tx : p.ki[k] = t <=> t \in p.tx /\ k \in Po!KeyImages(t)

LEMMA ImagesOf ==
  ASSUME NEW t \in Tx
  PROVE  Po!KeyImages(t) \subseteq KeyImage /\ t # Po!NoTx
BY PoolAssumption DEF Po!TxAssumption, Po!KeyImages

\* remove_from_pool finds every entry it erases, and leaves indices that agree.
LEMMA RemoveKeeps ==
  ASSUME NEW p, PoolOf(p), NEW S \in SUBSET p.tx
  PROVE  PoolOf(Po!remove_from_pool(p, S)) /\ Po!AllErased(p, S)
<1> DEFINE q == Po!remove_from_pool(p, S)
<1>1. /\ q.tx = p.tx \ S /\ q.fee = p.fee \ S
      /\ q.ki = [k \in KeyImage |-> IF \E t \in S : k \in Po!KeyImages(t) THEN Po!NoTx ELSE p.ki[k]]
  BY DEF Po!remove_from_pool
<1> HIDE DEF q
<1>2. q.ki \in [KeyImage -> Tx \cup {Po!NoTx}]
  BY <1>1 DEF PoolOf
<1>3. ASSUME NEW k \in KeyImage, NEW t \in Tx
      PROVE  q.ki[k] = t <=> t \in q.tx /\ k \in Po!KeyImages(t)
  <2>1. CASE \E u \in S : k \in Po!KeyImages(u)
    <3>1. PICK u \in S : k \in Po!KeyImages(u)
      BY <2>1
    <3>2. u \in Tx /\ p.ki[k] = u
      BY <3>1 DEF PoolOf
    <3>3. q.ki[k] = Po!NoTx /\ t # Po!NoTx
      BY <1>1, <2>1, ImagesOf
    <3>4. t \in q.tx /\ k \in Po!KeyImages(t) => p.ki[k] = t /\ t \notin S
      BY <1>1 DEF PoolOf
    <3> QED BY <3>1, <3>2, <3>3, <3>4
  <2>2. CASE ~(\E u \in S : k \in Po!KeyImages(u))
    <3>1. q.ki[k] = p.ki[k]
      BY <1>1, <2>2
    <3>2. k \in Po!KeyImages(t) => t \notin S
      BY <2>2
    <3>3. p.ki[k] = t <=> t \in p.tx /\ k \in Po!KeyImages(t)
      BY DEF PoolOf
    <3> QED BY <3>1, <3>2, <3>3, <1>1
  <2> QED BY <2>1, <2>2
<1>4. PoolOf(q)
  BY <1>1, <1>2, <1>3 DEF PoolOf
<1>5. \A t \in S : \A k \in Po!KeyImages(t) : k \in KeyImage /\ p.ki[k] = t /\ t # Po!NoTx
  BY ImagesOf DEF PoolOf
<1>6. Po!AllErased(p, S)
  BY <1>5 DEF Po!AllErased, PoolOf
<1> QED BY <1>4, <1>6 DEF q

\* The insertions of add_transaction meet no entry, and leave indices that agree.
LEMMA InsertKeeps ==
  ASSUME NEW p, PoolOf(p), NEW t \in Tx, Po!AllInserted(p, t)
  PROVE  PoolOf(Po!Inserted(p, t))
<1> DEFINE q == Po!Inserted(p, t)
<1>1. /\ q.tx = p.tx \cup {t} /\ q.fee = p.fee \cup {t}
      /\ q.ki = [k \in KeyImage |-> IF k \in Po!KeyImages(t) THEN t ELSE p.ki[k]]
  BY DEF Po!Inserted
<1> HIDE DEF q
<1>2. q.ki \in [KeyImage -> Tx \cup {Po!NoTx}]
  BY <1>1 DEF PoolOf
<1>3. ASSUME NEW k \in KeyImage, NEW u \in Tx
      PROVE  q.ki[k] = u <=> u \in q.tx /\ k \in Po!KeyImages(u)
  <2>1. p.ki[k] = u <=> u \in p.tx /\ k \in Po!KeyImages(u)
    BY DEF PoolOf
  <2>2. CASE k \in Po!KeyImages(t)
    <3>1. q.ki[k] = t /\ p.ki[k] = Po!NoTx /\ u # Po!NoTx
      BY <1>1, <2>2, ImagesOf DEF Po!AllInserted
    <3> QED BY <3>1, <2>1, <2>2, <1>1
  <2>3. CASE k \notin Po!KeyImages(t)
    <3>1. q.ki[k] = p.ki[k]
      BY <1>1, <2>3
    <3> QED BY <3>1, <2>1, <2>3, <1>1
  <2> QED BY <2>2, <2>3
<1> QED BY <1>1, <1>2, <1>3 DEF PoolOf, q

\* What is displaced was in the pool; when nothing blocks t, that frees all of
\* its key images.
LEMMA DisplacedFrees ==
  ASSUME NEW p, PoolOf(p), NEW t \in Tx
  PROVE  /\ Po!Displaced(p, t) \subseteq p.tx
         /\ Po!Blockers(p, t) = {} /\ t \notin p.tx
              => Po!AllInserted(Po!remove_from_pool(p, Po!Displaced(p, t)), t)
<1> DEFINE S == Po!Displaced(p, t)
           q == Po!remove_from_pool(p, S)
<1>1. \A k \in Po!KeyImages(t) : p.ki[k] # Po!NoTx => p.ki[k] \in p.tx /\ k \in Po!KeyImages(p.ki[k])
  BY ImagesOf DEF PoolOf
<1>2. S \subseteq p.tx
  BY <1>1 DEF Po!Displaced
<1>3. ASSUME Po!Blockers(p, t) = {}, t \notin p.tx
      PROVE  Po!AllInserted(q, t)
  <2>1. /\ q.tx = p.tx \ S /\ q.fee = p.fee \ S
        /\ q.ki = [k \in KeyImage |-> IF \E u \in S : k \in Po!KeyImages(u) THEN Po!NoTx ELSE p.ki[k]]
    BY DEF Po!remove_from_pool
  <2>2. \A k \in Po!KeyImages(t) : p.ki[k] # Po!NoTx => p.ki[k] \in S
    BY <1>3 DEF Po!Displaced
  <2> HIDE DEF S, q
  <2>3. \A k \in Po!KeyImages(t) : q.ki[k] = Po!NoTx
    BY <1>1, <2>1, <2>2, ImagesOf
  <2> QED BY <1>3, <2>1, <2>3 DEF Po!AllInserted, PoolOf
<1> QED BY <1>2, <1>3
\* Transactions of a pool that can still be mined.
Unspent(p) == \A t \in p.tx : Po!KeyImages(t) \cap Po!Spent = {}

LEMMA RemoveShrinks ==
  ASSUME NEW p, NEW S
  PROVE  Po!remove_from_pool(p, S).tx = p.tx \ S
BY DEF Po!remove_from_pool

\* add_transaction: whatever it answers, its invariants held, the indices agree
\* and what is in the pool can be mined.
LEMMA AddKeeps ==
  ASSUME NEW p, PoolOf(p), Unspent(p), NEW t \in Tx, NEW verdict
  PROVE  LET a == Po!add_transaction(p, t, verdict)
         IN  a.ok = TRUE /\ PoolOf(a.pool) /\ Unspent(a.pool)
<1> DEFINE a == Po!add_transaction(p, t, verdict)
           S == Po!Displaced(p, t)
           q == Po!remove_from_pool(p, S)
           r == Po!Inserted(q, t)
<1>1. S \subseteq p.tx /\ PoolOf(q) /\ Po!AllErased(p, S) /\ q.tx \subseteq p.tx
  BY DisplacedFrees, RemoveKeeps, RemoveShrinks
<1>2. ASSUME NEW result, a = Po!Answer(p, result)
      PROVE  a.ok = TRUE /\ PoolOf(a.pool) /\ Unspent(a.pool)
  <2>1. a.ok = TRUE /\ a.pool = p
    BY <1>2 DEF Po!Answer
  <2> QED BY <2>1
<1>3. ASSUME t \notin p.tx, Po!KeyImages(t) \cap Po!Spent = {}, Po!Blockers(p, t) = {}, a = Po!Admit(p, t)
      PROVE  a.ok = TRUE /\ PoolOf(a.pool) /\ Unspent(a.pool)
  <2>1. Po!AllInserted(q, t)
    BY <1>3, DisplacedFrees
  <2>2. PoolOf(r)
    BY <1>1, <2>1, InsertKeeps
  <2>3. r.tx = q.tx \cup {t}
    BY DEF Po!Inserted
  <2>4. Po!Evicted(r) \subseteq r.tx
    BY DEF Po!Evicted
  <2> DEFINE E == Po!Evicted(r)
             z == Po!remove_from_pool(r, E)
  <2>5. /\ Po!Admit(p, t).pool = z
        /\ Po!Admit(p, t).ok = (Po!AllErased(p, S) /\ Po!AllInserted(q, t) /\ Po!AllErased(r, E))
    BY DEF Po!Admit
  <2> HIDE DEF r, E
  <2>6. PoolOf(z) /\ Po!AllErased(r, E) /\ z.tx \subseteq r.tx
    BY <2>2, <2>4, RemoveKeeps, RemoveShrinks DEF E
  <2>7. Unspent(z)
    BY <2>6, <2>3, <1>1, <1>3 DEF Unspent
  <2> HIDE DEF z, q, S, a
  <2> QED BY <1>1, <1>3, <2>1, <2>5, <2>6, <2>7
<1>4. ASSUME a = [pool |-> q, result |-> "INCREASE_FEE", ok |-> Po!AllErased(p, S)]
      PROVE  a.ok = TRUE /\ PoolOf(a.pool) /\ Unspent(a.pool)
  <2>1. a.pool = q /\ a.ok = Po!AllErased(p, S)
    BY <1>4
  <2>2. Po!AllErased(p, S) \in BOOLEAN
    BY DEF Po!AllErased
  <2> HIDE DEF a, q
  <2> QED BY <1>1, <2>1, <2>2 DEF Unspent
<1>5. \/ \E result : a = Po!Answer(p, result)
      \/ t \notin p.tx /\ Po!KeyImages(t) \cap Po!Spent = {} /\ Po!Blockers(p, t) = {} /\ a = Po!Admit(p, t)
      \/ a = [pool |-> q, result |-> "INCREASE_FEE", ok |-> Po!AllErased(p, S)]
  <2>1. CASE t \in p.tx
    <3>1. a = Po!Answer(p, "ALREADY_IN_POOL")
      BY <2>1 DEF Po!add_transaction
    <3> QED BY <3>1
  <2>2. CASE t \notin p.tx /\ (Po!TooCheap(p, t) \/ Po!FirstConflictWins(p, t))
    <3>1. a = Po!Answer(p, "INCREASE_FEE")
      BY <2>2 DEF Po!add_transaction
    <3> QED BY <3>1
  <2>3. CASE t \notin p.tx /\ ~(Po!TooCheap(p, t) \/ Po!FirstConflictWins(p, t))
    <3>1. a = IF Po!KeyImages(t) \cap Po!Spent # {} THEN Po!Answer(p, "OUTPUT_ALREADY_SPENT")
              ELSE IF verdict # "ok" THEN Po!Answer(p, verdict)
              ELSE IF Po!Blockers(p, t) = {} THEN Po!Admit(p, t)
              ELSE [pool |-> q, result |-> "INCREASE_FEE", ok |-> Po!AllErased(p, S)]
      BY <2>3 DEF Po!add_transaction
    <3> HIDE DEF a, q, S
    <3> QED BY <2>3, <3>1
  <2> QED BY <2>1, <2>2, <2>3
<1> HIDE DEF a, q, S
<1>6. a.ok = TRUE /\ PoolOf(a.pool) /\ Unspent(a.pool)
  BY <1>2, <1>3, <1>4, <1>5
<1> QED BY <1>6 DEF a
\* The indices agree and everything in the pool can be mined in every phase of a
\* reorganization too, which is more than PoolSound asks for: blocks are undone
\* and redone under a pool that is rebuilt afterwards.
PoInv ==
  /\ pc \in {"idle", "undo", "redo", "rebuild"}
  /\ blocks \in Seq(SUBSET Tx)
  /\ undone \subseteq Tx /\ old \subseteq Tx
  /\ PoolOf(pool) /\ Unspent(pool)

LEMMA SpentDef ==
  Po!Spent = UNION {Po!KeyImages(t) : t \in UNION {blocks[i] : i \in 1..Len(blocks)}}
BY DEF Po!Spent

LEMMA SpentSame ==
  ASSUME blocks' = blocks
  PROVE  Po!Spent' = Po!Spent
BY DEF Po!Spent, Po!KeyImages

LEMMA PoolSame ==
  ASSUME pool' = pool, blocks' = blocks, PoolOf(pool), Unspent(pool)
  PROVE  PoolOf(pool)' /\ Unspent(pool)'
BY SpentSame DEF PoolOf, Unspent, Po!KeyImages, Po!NoTx

\* One call of add_transaction in any phase.
LEMMA OfferKeeps ==
  ASSUME PoolOf(pool), Unspent(pool), NEW t \in Tx, NEW verdict, Po!Offer(t, verdict), blocks' = blocks
  PROVE  PoolOf(pool)' /\ Unspent(pool)' /\ pc' = pc
<1> DEFINE a == Po!add_transaction(pool, t, verdict)
<1>1. a.ok = TRUE /\ PoolOf(a.pool) /\ Unspent(a.pool)
  BY AddKeeps
<1>2. pool' = a.pool /\ pc' = IF a.ok THEN pc ELSE "exited"
  BY DEF Po!Offer
<1> HIDE DEF a
<1>3. PoolOf(pool') /\ Unspent(pool') /\ pc' = pc
  BY <1>1, <1>2
<1> QED BY <1>3, SpentSame DEF PoolOf, Unspent, Po!KeyImages, Po!NoTx

\* redo_block: the transactions whose key images the block spends leave the pool,
\* and no other has one of them.
LEMMA RedoKeeps ==
  ASSUME PoInv, NEW B \in SUBSET Tx, Po!redo_block(B)
  PROVE  PoInv'
<1> DEFINE S == Po!store_keyimages(pool, B)
           q == Po!remove_from_pool(pool, S)
<1>1. /\ blocks' = Append(blocks, B) /\ pool' = q /\ undone' = undone \ B /\ old' = old
      /\ pc' = IF Po!AllErased(pool, S) THEN pc ELSE "exited"
  BY DEF Po!redo_block
<1>2. S \subseteq pool.tx
  <2> SUFFICES ASSUME NEW t \in B, NEW k \in Po!KeyImages(t), pool.ki[k] # Po!NoTx
               PROVE  pool.ki[k] \in pool.tx
    BY DEF Po!store_keyimages
  <2>1. k \in KeyImage
    BY ImagesOf
  <2> QED BY <2>1 DEF PoInv, PoolOf
<1>3. PoolOf(q) /\ Po!AllErased(pool, S) /\ q.tx = pool.tx \ S
  BY <1>2, RemoveKeeps, RemoveShrinks DEF PoInv
<1>4. blocks' \in Seq(SUBSET Tx) /\ pc' = pc /\ undone' \subseteq Tx /\ old' \subseteq Tx
  BY <1>1, <1>3 DEF PoInv
<1>5. ASSUME NEW t \in q.tx, NEW k \in Po!KeyImages(t), k \in Po!Spent'
      PROVE  FALSE
  <2>1. t \in pool.tx /\ t \notin S /\ t \in Tx
    BY <1>3 DEF PoInv, PoolOf
  <2>2. k \in KeyImage /\ pool.ki[k] = t /\ t # Po!NoTx
    BY <2>1, ImagesOf DEF PoInv, PoolOf
  <2>0. PICK i \in 1..Len(blocks') : \E u \in blocks'[i] : k \in Po!KeyImages(u)
    BY <1>5 DEF Po!Spent, Po!KeyImages
  <2>3. PICK u \in blocks'[i] : k \in Po!KeyImages(u)
    BY <2>0
  <2>4. blocks \in Seq(SUBSET Tx)
    BY DEF PoInv
  <2>5. CASE i \in 1..Len(blocks)
    <3>1. blocks'[i] = blocks[i]
      BY <1>1, <2>4, <2>5
    <3>2. k \in Po!Spent
      BY <2>3, <2>5, <3>1, SpentDef
    <3> QED BY <2>1, <3>2 DEF PoInv, Unspent
  <2>6. CASE i \notin 1..Len(blocks)
    <3>1. blocks'[i] = B
      BY <1>1, <2>3, <2>4, <2>6
    <3>2. pool.ki[k] \in S
      BY <2>2, <2>3, <3>1 DEF Po!store_keyimages
    <3> QED BY <2>1, <2>2, <3>2
  <2> QED BY <2>5, <2>6
<1>6. Unspent(pool)'
  BY <1>1, <1>5 DEF Unspent, Po!KeyImages
<1>7. PoolOf(pool)'
  <2> HIDE DEF q
  <2> QED BY <1>1, <1>3 DEF PoolOf, Po!KeyImages, Po!NoTx
<1> QED BY <1>4, <1>6, <1>7 DEF PoInv

\* Undoing a block makes key images free again, and takes none.
LEMMA UndoKeeps ==
  ASSUME PoInv, Po!UndoBlock
  PROVE  PoInv'
<1>1. /\ blocks # <<>> /\ blocks' = SubSeq(blocks, 1, Len(blocks) - 1) /\ undone' = undone \cup blocks[Len(blocks)]
      /\ pool' = pool /\ pc' = pc /\ old' = old
  BY DEF Po!UndoBlock
<1>2. /\ blocks' \in Seq(SUBSET Tx)
      /\ \A i \in 1..Len(blocks') : i \in 1..Len(blocks) /\ blocks'[i] = blocks[i]
      /\ blocks[Len(blocks)] \subseteq Tx
  <2>1. blocks \in Seq(SUBSET Tx) /\ blocks # <<>> /\ Len(blocks) \in Nat /\ Len(blocks) # 0
    BY <1>1 DEF PoInv
  <2>2. blocks[Len(blocks)] \in SUBSET Tx
    BY <2>1
  <2> DEFINE n == Len(blocks) - 1
  <2>3. n \in Nat /\ \A i \in 1..n : i \in 1..Len(blocks) /\ blocks[i] \in SUBSET Tx
    BY <2>1
  <2>4. /\ SubSeq(blocks, 1, n) \in Seq(SUBSET Tx)
        /\ Len(SubSeq(blocks, 1, n)) = IF 1 <= n THEN n - 1 + 1 ELSE 0
        /\ \A i \in 1..n - 1 + 1 : SubSeq(blocks, 1, n)[i] = blocks[1 + i - 1]
    <3> HIDE DEF n
    <3> QED BY <2>3, SubSeqProperties
  <2>5. /\ Len(SubSeq(blocks, 1, n)) = n
        /\ \A i \in 1..n : SubSeq(blocks, 1, n)[i] = blocks[i]
    <3> HIDE DEF n
    <3> QED BY <2>3, <2>4
  <2> QED BY <1>1, <2>2, <2>3, <2>4, <2>5
<1>3. Po!Spent' \subseteq Po!Spent
  <2> SUFFICES ASSUME NEW k \in Po!Spent'
               PROVE  k \in Po!Spent
    OBVIOUS
  <2>1. PICK i \in 1..Len(blocks') : \E u \in blocks'[i] : k \in Po!KeyImages(u)
    BY DEF Po!Spent, Po!KeyImages
  <2>2. i \in 1..Len(blocks) /\ blocks'[i] = blocks[i]
    BY <1>2
  <2> QED BY <2>1, <2>2, SpentDef
<1>4. Unspent(pool)'
  BY <1>1, <1>3 DEF PoInv, Unspent, Po!KeyImages
<1>5. PoolOf(pool)'
  BY <1>1 DEF PoInv, PoolOf, Po!KeyImages, Po!NoTx
<1> QED BY <1>1, <1>2, <1>4, <1>5 DEF PoInv

LEMMA EmptyKeeps == PoolOf(Po!EmptyPool) /\ Unspent(Po!EmptyPool)
BY ImagesOf DEF PoolOf, Unspent, Po!EmptyPool

LEMMA SmallestIsIn ==
  ASSUME NEW S, S \subseteq Nat, S # {}
  PROVE  Po!Smallest(S) \in S
<1> DEFINE R == {ss \in Nat \X Nat : ss[1] < ss[2]}
<1>0. IsWellFoundedOn(R, Nat)
  BY NatLessThanWellFounded DEF OpToRel
<1>1. PICK t \in S : \A u \in S : ~(<<u, t>> \in R)
  <2> HIDE DEF R
  <2> QED BY <1>0, WFMin
<1>2. ASSUME NEW u \in S
      PROVE  t <= u
  <2>1. u \in Nat /\ t \in Nat /\ ~(<<u, t>> \in R)
    BY <1>1
  <2>2. ~(u < t)
    BY <2>1
  <2> QED BY <2>1, <2>2
<1> QED BY <1>2 DEF Po!Smallest

LEMMA PoolStep ==
  ASSUME PoInv, [Po!Next]_po
  PROVE  PoInv'
<1> DEFINE Rest == undone' \subseteq Tx /\ old' \subseteq Tx /\ blocks' = blocks
<1>0. ASSUME Rest, PoolOf(pool)', Unspent(pool)', pc' \in {"idle", "undo", "redo", "rebuild"}
      PROVE  PoInv'
  BY <1>0 DEF PoInv
<1>1. CASE \E t \in Tx : Po!AddTransaction(t)
  <2>1. PICK t \in Tx, verdict \in Po!Verdicts : Po!Offer(t, verdict) /\ UNCHANGED <<blocks, undone, undone_blocks, old>>
    BY <1>1 DEF Po!AddTransaction
  <2>2. PoolOf(pool)' /\ Unspent(pool)' /\ pc' = pc
    BY <2>1, OfferKeeps DEF PoInv
  <2> QED BY <1>0, <2>1, <2>2 DEF PoInv
<1>2. CASE \E B \in SUBSET Tx : Po!ExtendChain(B) \/ Po!RedoBlock(B)
  BY <1>2, RedoKeeps DEF Po!ExtendChain, Po!RedoBlock
<1>3. CASE Po!StartReorg
  <2>1. Rest /\ pool' = pool /\ pc' = "undo"
    BY <1>3 DEF Po!StartReorg, PoInv
  <2> QED BY <1>0, <2>1, PoolSame DEF PoInv
<1>4. CASE Po!UndoBlock
  BY <1>4, UndoKeeps
<1>5. CASE Po!UndoDone
  <2>1. Rest /\ pool' = pool /\ pc' = "redo"
    BY <1>5 DEF Po!UndoDone, PoInv
  <2> QED BY <1>0, <2>1, PoolSame DEF PoInv
<1>6. CASE Po!RedoDone
  <2>1. blocks' = blocks /\ undone' = undone /\ pc' = "rebuild"
    BY <1>6 DEF Po!RedoDone
  <2>2. CASE undone_blocks
    <3>1. old' = pool.tx /\ pool' = Po!EmptyPool
      BY <1>6, <2>2 DEF Po!RedoDone
    <3>2. PoolOf(pool') /\ Unspent(pool')
      BY <3>1, EmptyKeeps
    <3>3. PoolOf(pool)' /\ Unspent(pool)'
      BY <3>2, <2>1, SpentSame DEF PoolOf, Unspent, Po!KeyImages, Po!NoTx
    <3>4. Rest
      BY <2>1, <3>1 DEF PoInv, PoolOf
    <3> QED BY <1>0, <2>1, <3>3, <3>4
  <2>3. CASE ~undone_blocks
    <3>1. Rest /\ pool' = pool
      BY <1>6, <2>1, <2>3 DEF Po!RedoDone, PoInv
    <3> QED BY <1>0, <2>1, <3>1, PoolSame DEF PoInv
  <2> QED BY <2>2, <2>3
<1>7. CASE Po!Rebuild
  <2> DEFINE group == IF old # {} THEN old ELSE undone
             t == Po!Smallest(group)
  <2>1. PICK verdict \in Po!Verdicts : Po!Offer(t, verdict)
    BY <1>7 DEF Po!Rebuild
  <2>2. Rest
    BY <1>7 DEF Po!Rebuild, PoInv
  <2>3. group \subseteq Nat /\ group # {} /\ group \subseteq Tx
    BY <1>7, PoolAssumption DEF Po!Rebuild, PoInv, Po!TxAssumption
  <2>4. t \in Tx
    BY <2>3, SmallestIsIn
  <2>5. PoolOf(pool)' /\ Unspent(pool)' /\ pc' = pc
    BY <2>1, <2>2, <2>4, OfferKeeps DEF PoInv
  <2> QED BY <1>0, <2>2, <2>5 DEF PoInv
<1>8. CASE Po!RebuildDone
  <2>1. Rest /\ pool' = pool /\ pc' = "idle"
    BY <1>8 DEF Po!RebuildDone, PoInv
  <2> QED BY <1>0, <2>1, PoolSame DEF PoInv
<1>9. CASE UNCHANGED po
  <2>1. Rest /\ pool' = pool /\ pc' = pc
    BY <1>9 DEF po, PoInv
  <2> QED BY <1>0, <2>1, PoolSame DEF PoInv
<1> QED BY <1>1, <1>2, <1>3, <1>4, <1>5, <1>6, <1>7, <1>8, <1>9 DEF Po!Next

\* The three indices of the memory pool always describe the same transactions,
\* the all_inserted and all_erased invariants of the code never fail, and no
\* transaction of the pool spends what the chain or another one spends, for any
\* transactions, fees, sizes and limit, and through every reorganization
\* (add_transaction, remove_from_pool, redo_block, on_reorganization).
THEOREM PoolAlwaysSound == MCSpec => []PoolSound
<1>1. MCInit => PoInv
  <2> SUFFICES ASSUME MCInit PROVE PoInv
    OBVIOUS
  <2>1. pool = Po!EmptyPool /\ blocks = <<>> /\ pc = "idle" /\ undone = {} /\ old = {}
    BY DEF MCInit, Po!Init
  <2> QED BY <2>1, EmptyKeeps DEF PoInv
<1>2. PoInv /\ [MCNext]_all => PoInv'
  <2> SUFFICES ASSUME PoInv, [MCNext]_all PROVE [Po!Next]_po
    BY PoolStep
  <2> QED BY DEF MCNext, all, po
<1>3. PoInv => PoolSound
  BY DEF PoInv, PoolSound, PoolOf, Unspent, Po!NeverExits, Po!IndexConsistent, Po!NothingSpentTwice
<1> QED BY <1>1, <1>2, <1>3, PTL DEF MCSpec

\* Induction over the natural numbers, for a set in the place of a predicate.
LEMMA Induction ==
  ASSUME NEW S, 0 \in S, \A n \in Nat : n \in S => n + 1 \in S
  PROVE  \A n \in Nat : n \in S
<1>1. SUFFICES ASSUME NEW x \in Nat, x \notin S PROVE FALSE
  OBVIOUS
<1>2. PICK T : T = {n \in Nat : n \notin S}
  OBVIOUS
<1> DEFINE R == {ss \in Nat \X Nat : ss[1] < ss[2]}
<1>3. IsWellFoundedOn(R, Nat)
  BY NatLessThanWellFounded DEF OpToRel
<1>4. PICK m \in T : \A y \in T : ~(<<y, m>> \in R)
  <2>1. T \subseteq Nat /\ T # {}
    BY <1>1, <1>2
  <2> HIDE DEF R
  <2> QED BY <1>3, <2>1, WFMin
<1>5. m \in Nat /\ m \notin S
  BY <1>2
<1>6. \A y \in Nat : y < m => y \in S
  BY <1>2, <1>4, <1>5
<1>7. m # 0 /\ m - 1 \in Nat
  BY <1>5
<1>8. (m - 1) + 1 \in S
  BY <1>5, <1>6, <1>7
<1> QED BY <1>5, <1>7, <1>8

-------------------------------------------------------------------------------
(***************************************************************************)
(* The size of a set of transactions does not depend on the order in which *)
(* they are added up.                                                      *)
(***************************************************************************)
Some(s) == CHOOSE x \in s : TRUE

\* f has the sums of the subsets of S with at most n transactions.
SumsUpTo(f, S, n) ==
  \A s \in SUBSET S : Cardinality(s) <= n =>
    f[s] = IF s = {} THEN 0 ELSE Size[Some(s)] + f[s \ {Some(s)}]

IsSums(f, S) ==
  f = [s \in SUBSET S |-> IF s = {} THEN 0 ELSE Size[Some(s)] + f[s \ {Some(s)}]]

LEMMA SumsExist ==
  ASSUME NEW S, IsFiniteSet(S)
  PROVE  \E f : IsSums(f, S)
<1> DEFINE T == {n \in Nat : \E f : SumsUpTo(f, S, n)}
           next(f) == [s \in SUBSET S |-> IF s = {} THEN 0 ELSE Size[Some(s)] + f[s \ {Some(s)}]]
<1>0. \A s \in SUBSET S : IsFiniteSet(s) /\ Cardinality(s) \in Nat /\ Cardinality(s) <= Cardinality(S)
  BY FS_Subset, FS_CardinalityType
<1>1. \A s \in SUBSET S : s # {} => Some(s) \in s /\ s \ {Some(s)} \in SUBSET S
  BY DEF Some
<1>2. \A s \in SUBSET S : s # {} => Cardinality(s \ {Some(s)}) = Cardinality(s) - 1
  BY <1>0, <1>1, FS_RemoveElement
<1>3. 0 \in T
  <2>1. PICK f : f = [s \in SUBSET S |-> 0]
    OBVIOUS
  <2>2. \A s \in SUBSET S : Cardinality(s) <= 0 => s = {}
    BY <1>0, FS_EmptySet
  <2>3. SumsUpTo(f, S, 0)
    BY <2>1, <2>2 DEF SumsUpTo
  <2> QED BY <2>3
<1>4. \A n \in Nat : n \in T => n + 1 \in T
  <2> SUFFICES ASSUME NEW n \in Nat, NEW f, SumsUpTo(f, S, n) PROVE \E g : SumsUpTo(g, S, n + 1)
    OBVIOUS
  <2>1. PICK g : g = next(f)
    OBVIOUS
  <2>2. ASSUME NEW s \in SUBSET S, Cardinality(s) <= n
        PROVE  f[s] = g[s]
    BY <2>1, <2>2 DEF SumsUpTo
  <2>3. ASSUME NEW s \in SUBSET S, Cardinality(s) <= n + 1, s # {}
        PROVE  g[s] = Size[Some(s)] + g[s \ {Some(s)}]
    <3>1. s \ {Some(s)} \in SUBSET S /\ Cardinality(s \ {Some(s)}) <= n
      BY <1>0, <1>1, <1>2, <2>3
    <3>2. f[s \ {Some(s)}] = g[s \ {Some(s)}]
      BY <3>1, <2>2
    <3> QED BY <2>1, <2>3, <3>2
  <2>4. SumsUpTo(g, S, n + 1)
    BY <2>1, <2>3 DEF SumsUpTo
  <2> QED BY <2>4
<1>5. Cardinality(S) \in T
  <2> HIDE DEF T
  <2>1. Cardinality(S) \in Nat
    BY FS_CardinalityType
  <2> QED BY <2>1, <1>3, <1>4, Induction
<1>6. PICK f : SumsUpTo(f, S, Cardinality(S))
  BY <1>5
<1>7. PICK g : g = next(f)
  OBVIOUS
<1>8. \A s \in SUBSET S : f[s] = g[s]
  BY <1>0, <1>6, <1>7 DEF SumsUpTo
<1>9. g = next(g)
  <2>1. \A s \in SUBSET S : s # {} => f[s \ {Some(s)}] = g[s \ {Some(s)}]
    BY <1>1, <1>8
  <2> QED BY <1>7, <2>1
<1> QED BY <1>9 DEF IsSums

\* The sum over S is the value at S of such a function.
LEMMA SumIs ==
  ASSUME NEW S, IsFiniteSet(S)
  PROVE  \E f : IsSums(f, S) /\ Po!SumSize(S) = f[S]
<1>1. PICK f : f = CHOOSE g : IsSums(g, S)
  OBVIOUS
<1>2. IsSums(f, S)
  BY <1>1, SumsExist
<1>3. Po!SumSize(S) = f[S]
  BY <1>1 DEF Po!SumSize, Po!MapThenSumSet, Po!MapThenFoldSet, IsSums, Some
<1> QED BY <1>2, <1>3

SumStep(f, S) ==
  /\ f[{}] = 0
  /\ \A s \in SUBSET S : s # {} =>
       /\ Some(s) \in s /\ s \ {Some(s)} \in SUBSET S
       /\ f[s] = Size[Some(s)] + f[s \ {Some(s)}]
       /\ IsFiniteSet(s) /\ Cardinality(s) \in Nat
       /\ Cardinality(s \ {Some(s)}) = Cardinality(s) - 1

LEMMA SumSteps ==
  ASSUME NEW S, IsFiniteSet(S), NEW f, IsSums(f, S)
  PROVE  SumStep(f, S)
<1>1. \A s \in SUBSET S : IsFiniteSet(s) /\ Cardinality(s) \in Nat
  BY FS_Subset, FS_CardinalityType
<1>2. \A s \in SUBSET S : s # {} => Some(s) \in s /\ s \ {Some(s)} \in SUBSET S
  BY DEF Some
<1>3. \A s \in SUBSET S : s # {} => Cardinality(s \ {Some(s)}) = Cardinality(s) - 1
  BY <1>1, <1>2, FS_RemoveElement
<1>4. \A s \in SUBSET S : f[s] = IF s = {} THEN 0 ELSE Size[Some(s)] + f[s \ {Some(s)}]
  BY DEF IsSums
<1> QED BY <1>1, <1>2, <1>3, <1>4 DEF SumStep

\* The functions of two sets agree on the subsets they share.
LEMMA SumsAgree ==
  ASSUME NEW S, IsFiniteSet(S), NEW f, IsSums(f, S),
         NEW R, IsFiniteSet(R), NEW g, IsSums(g, R),
         NEW s \in SUBSET (S \cap R)
  PROVE  f[s] = g[s]
<1>1. SumStep(f, S) /\ SumStep(g, R)
  BY SumSteps
<1> DEFINE T == {n \in Nat : \A u \in SUBSET (S \cap R) : Cardinality(u) = n => f[u] = g[u]}
<1>2. \A u \in SUBSET (S \cap R) : IsFiniteSet(u) /\ Cardinality(u) \in Nat /\ (Cardinality(u) = 0 <=> u = {})
  BY FS_Subset, FS_CardinalityType, FS_EmptySet
<1>3. 0 \in T
  BY <1>1, <1>2 DEF SumStep
<1>4. \A n \in Nat : n \in T => n + 1 \in T
  <2> SUFFICES ASSUME NEW n \in Nat, n \in T, NEW u \in SUBSET (S \cap R), Cardinality(u) = n + 1
               PROVE  f[u] = g[u]
    OBVIOUS
  <2>1. u # {} /\ u \in SUBSET S /\ u \in SUBSET R
    BY <1>2
  <2>2. Some(u) \in u /\ Cardinality(u \ {Some(u)}) = Cardinality(u) - 1
    BY <1>1, <2>1 DEF SumStep
  <2>3. Cardinality(u \ {Some(u)}) = n
    BY <2>2
  <2>4. f[u \ {Some(u)}] = g[u \ {Some(u)}]
    BY <2>3
  <2> QED BY <1>1, <2>1, <2>4 DEF SumStep
<1>5. Cardinality(s) \in T
  <2> HIDE DEF T
  <2> QED BY <1>2, <1>3, <1>4, Induction
<1> QED BY <1>5

\* Sums are numbers,
LEMMA SumNumbers ==
  ASSUME NEW S \in SUBSET Tx, IsFiniteSet(S), NEW f, IsSums(f, S), NEW s \in SUBSET S
  PROVE  f[s] \in Nat
<1>1. SumStep(f, S)
  BY SumSteps
<1>2. \A u \in SUBSET S : IsFiniteSet(u) /\ Cardinality(u) \in Nat /\ (Cardinality(u) = 0 <=> u = {})
  BY FS_Subset, FS_CardinalityType, FS_EmptySet
<1> DEFINE T == {n \in Nat : \A u \in SUBSET S : Cardinality(u) = n => f[u] \in Nat}
<1>3. 0 \in T
  BY <1>1, <1>2 DEF SumStep
<1>4. \A n \in Nat : n \in T => n + 1 \in T
  <2> SUFFICES ASSUME NEW n \in Nat, n \in T, NEW u \in SUBSET S, Cardinality(u) = n + 1
               PROVE  f[u] \in Nat
    OBVIOUS
  <2>1. u # {}
    BY <1>2
  <2>2. PICK y : y = Some(u)
    OBVIOUS
  <2>3. /\ y \in u /\ f[u] = Size[y] + f[u \ {y}] /\ u \ {y} \in SUBSET S
        /\ Cardinality(u \ {y}) = Cardinality(u) - 1
    BY <1>1, <2>1, <2>2 DEF SumStep
  <2>4. f[u \ {y}] \in Nat
    BY <2>3
  <2>5. Size[y] \in Nat
    BY <2>3, PoolAssumption DEF Po!TxAssumption
  <2> QED BY <2>3, <2>4, <2>5
<1>5. Cardinality(s) \in T
  <2> HIDE DEF T
  <2> QED BY <1>2, <1>3, <1>4, Induction
<1> QED BY <1>5

\* and any transaction may be the one that is added last.
SumTakes(f, s) == \A x \in s : f[s] = Size[x] + f[s \ {x}]

LEMMA SumTaken ==
  ASSUME NEW S \in SUBSET Tx, IsFiniteSet(S), NEW f, IsSums(f, S), NEW s \in SUBSET S
  PROVE  SumTakes(f, s)
<1>1. SumStep(f, S)
  BY SumSteps
<1>2. \A t \in Tx : Size[t] \in Nat
  BY PoolAssumption DEF Po!TxAssumption
<1>3. \A u \in SUBSET S : IsFiniteSet(u) /\ Cardinality(u) \in Nat /\ (Cardinality(u) = 0 <=> u = {})
  BY FS_Subset, FS_CardinalityType, FS_EmptySet
<1>4. \A u \in SUBSET S : \A x \in u : u \ {x} \in SUBSET S /\ Cardinality(u \ {x}) = Cardinality(u) - 1
  BY <1>3, FS_RemoveElement
<1> DEFINE T == {n \in Nat : \A u \in SUBSET S : Cardinality(u) = n => SumTakes(f, u)}
<1>5. 0 \in T
  BY <1>3 DEF SumTakes
<1>6. \A n \in Nat : n \in T => n + 1 \in T
  <2> SUFFICES ASSUME NEW n \in Nat, n \in T, NEW u \in SUBSET S, Cardinality(u) = n + 1
               PROVE  SumTakes(f, u)
    OBVIOUS
  <2> SUFFICES ASSUME NEW x \in u
               PROVE  f[u] = Size[x] + f[u \ {x}]
    BY DEF SumTakes
  <2>1. PICK y : y = Some(u)
    OBVIOUS
  <2>2. y \in u /\ f[u] = Size[y] + f[u \ {y}]
    BY <1>1, <2>1 DEF SumStep
  <2>3. \A z \in u : u \ {z} \in SUBSET S /\ Cardinality(u \ {z}) = n
    BY <1>4
  <2>4. \A z \in u : SumTakes(f, u \ {z})
    BY <2>3
  <2>5. CASE x # y
    <3>1. f[u \ {y}] = Size[x] + f[(u \ {y}) \ {x}]
      BY <2>2, <2>4, <2>5 DEF SumTakes
    <3>2. f[u \ {x}] = Size[y] + f[(u \ {x}) \ {y}]
      BY <2>2, <2>4, <2>5 DEF SumTakes
    <3>3. (u \ {y}) \ {x} = (u \ {x}) \ {y}
      OBVIOUS
    <3>4. PICK v \in Nat : v = f[(u \ {x}) \ {y}]
      <4>1. (u \ {x}) \ {y} \in SUBSET S
        OBVIOUS
      <4> QED BY <4>1, SumNumbers
    <3>5. PICK a \in Nat, b \in Nat : a = Size[x] /\ b = Size[y]
      BY <1>2, <2>2
    <3>6. f[u \ {y}] = a + v /\ f[u \ {x}] = b + v
      BY <3>1, <3>2, <3>3, <3>4, <3>5
    <3>7. f[u] = b + (a + v)
      BY <2>2, <3>5, <3>6
    <3>8. b + (a + v) = a + (b + v)
      OBVIOUS
    <3> QED BY <3>5, <3>6, <3>7, <3>8
  <2> QED BY <2>2, <2>5
<1> QED
  <2>1. Cardinality(s) \in T
    <3> HIDE DEF T
    <3> QED BY <1>3, <1>5, <1>6, Induction
  <2> QED BY <2>1

\* What the proofs below use of sums.
LEMMA SizeEmpty == Po!SumSize({}) = 0
<1>1. IsFiniteSet({})
  BY FS_EmptySet
<1>2. PICK f : IsSums(f, {}) /\ Po!SumSize({}) = f[{}]
  BY <1>1, SumIs
<1> QED BY <1>2 DEF IsSums

LEMMA SizeNumber ==
  ASSUME NEW S \in SUBSET Tx, IsFiniteSet(S)
  PROVE  Po!SumSize(S) \in Nat
BY SumIs, SumNumbers

LEMMA SizeTake ==
  ASSUME NEW S \in SUBSET Tx, IsFiniteSet(S), NEW x \in S
  PROVE  Po!SumSize(S) = Size[x] + Po!SumSize(S \ {x})
<1>1. IsFiniteSet(S \ {x}) /\ S \ {x} \in SUBSET S
  BY FS_Subset
<1>2. PICK f : IsSums(f, S) /\ Po!SumSize(S) = f[S]
  BY SumIs
<1>3. PICK g : IsSums(g, S \ {x}) /\ Po!SumSize(S \ {x}) = g[S \ {x}]
  BY <1>1, SumIs
<1>4. f[S \ {x}] = g[S \ {x}]
  <2>1. S \ {x} \in SUBSET (S \cap (S \ {x}))
    OBVIOUS
  <2> QED BY <1>1, <1>2, <1>3, <2>1, SumsAgree
<1>5. SumTakes(f, S)
  BY <1>2, SumTaken
<1> QED BY <1>2, <1>3, <1>4, <1>5 DEF SumTakes

\* The size of a set is the sum of those of a part of it and of the rest.
LEMMA SizeSplit ==
  ASSUME NEW S \in SUBSET Tx, IsFiniteSet(S), NEW R \in SUBSET S
  PROVE  Po!SumSize(S) = Po!SumSize(R) + Po!SumSize(S \ R)
<1> DEFINE T == {n \in Nat : \A u \in SUBSET S : Cardinality(u) = n => Po!SumSize(S) = Po!SumSize(u) + Po!SumSize(S \ u)}
<1>1. \A u \in SUBSET S : /\ IsFiniteSet(u) /\ Cardinality(u) \in Nat /\ (Cardinality(u) = 0 <=> u = {})
                          /\ u \in SUBSET Tx
  BY FS_Subset, FS_CardinalityType, FS_EmptySet
<1>2. 0 \in T
  <2>1. Po!SumSize(S) = Po!SumSize({}) + Po!SumSize(S \ {})
    <3>1. S \ {} = S /\ Po!SumSize(S) \in Nat
      BY SizeNumber
    <3> QED BY <3>1, SizeEmpty
  <2>2. \A u \in SUBSET S : Cardinality(u) = 0 => u = {}
    BY <1>1
  <2> QED BY <2>1, <2>2
<1>3. \A n \in Nat : n \in T => n + 1 \in T
  <2> SUFFICES ASSUME NEW n \in Nat, n \in T, NEW u \in SUBSET S, Cardinality(u) = n + 1
               PROVE  Po!SumSize(S) = Po!SumSize(u) + Po!SumSize(S \ u)
    OBVIOUS
  <2>1. PICK x \in u : TRUE
    BY <1>1
  <2>2. u \ {x} \in SUBSET S /\ Cardinality(u \ {x}) = n
    <3>1. Cardinality(u \ {x}) = Cardinality(u) - 1
      BY <1>1, FS_RemoveElement
    <3> QED BY <3>1
  <2>3. Po!SumSize(S) = Po!SumSize(u \ {x}) + Po!SumSize(S \ (u \ {x}))
    BY <2>2
  <2>4. Po!SumSize(u) = Size[x] + Po!SumSize(u \ {x})
    BY <1>1, SizeTake
  <2>5. Po!SumSize(S \ (u \ {x})) = Size[x] + Po!SumSize(S \ u)
    <3>1. S \ (u \ {x}) \in SUBSET Tx /\ IsFiniteSet(S \ (u \ {x})) /\ x \in S \ (u \ {x})
      BY <1>1
    <3>2. (S \ (u \ {x})) \ {x} = S \ u
      BY <2>1
    <3> QED BY <3>1, <3>2, SizeTake
  <2>6. PICK a \in Nat, b \in Nat, c \in Nat : a = Size[x] /\ b = Po!SumSize(u \ {x}) /\ c = Po!SumSize(S \ u)
    <3>1. Size[x] \in Nat
      BY PoolAssumption DEF Po!TxAssumption
    <3>2. Po!SumSize(u \ {x}) \in Nat
      BY <1>1, <2>2, SizeNumber
    <3>3. S \ u \in SUBSET S
      OBVIOUS
    <3>4. Po!SumSize(S \ u) \in Nat
      BY <1>1, <3>3, SizeNumber
    <3> QED BY <3>1, <3>2, <3>4
  <2> QED BY <2>3, <2>4, <2>5, <2>6
<1> QED
  <2>1. Cardinality(R) \in T
    <3> HIDE DEF T
    <3> QED BY <1>1, <1>2, <1>3, Induction
  <2> QED BY <2>1
-------------------------------------------------------------------------------
(***************************************************************************)
(* The size of the pool.  That a pool is over the limit by less than its   *)
(* lowest transaction is not inductive: once the lowest one has left, the  *)
(* next one has to be the same.  So every transaction of the pool must fit *)
(* on top of those that outrank it.                                        *)
(***************************************************************************)
Above(S, t) == {u \in S : Po!Outranks(u, t)}

SizedPool(p) ==
  /\ IsFiniteSet(p.tx)
  /\ p.total = Po!SumSize(p.tx)
  /\ \A t \in p.tx : Po!SumSize(Above(p.tx, t)) < MAX_POOL_SIZE

\* A part of a set is not larger.
LEMMA SizePart ==
  ASSUME NEW S \in SUBSET Tx, IsFiniteSet(S), NEW R \in SUBSET S
  PROVE  Po!SumSize(R) <= Po!SumSize(S) /\ Po!SumSize(R) \in Nat
<1>1. Po!SumSize(S) = Po!SumSize(R) + Po!SumSize(S \ R)
  BY SizeSplit
<1>2. PICK a \in Nat, b \in Nat : a = Po!SumSize(R) /\ b = Po!SumSize(S \ R)
  <2>1. IsFiniteSet(R) /\ IsFiniteSet(S \ R) /\ R \in SUBSET Tx /\ S \ R \in SUBSET Tx
    BY FS_Subset
  <2> QED BY <2>1, SizeNumber
<1> QED BY <1>1, <1>2

\* Of two transactions one outranks the other.
LEMMA OutranksOrders ==
  ASSUME NEW t \in Tx, NEW u \in Tx
  PROVE  /\ ~Po!Outranks(t, t)
         /\ t # u => Po!Outranks(t, u) \/ Po!Outranks(u, t)
         /\ \A v \in Tx : Po!Outranks(t, u) /\ Po!Outranks(u, v) => Po!Outranks(t, v)
<1>1. \A v \in Tx : v \in Nat /\ FeePerByte[v] \in Nat
  BY PoolAssumption DEF Po!TxAssumption
<1> QED BY <1>1 DEF Po!Outranks

\* minimum_pool_fee_per_byte finds the lowest transaction.
LEMMA LowestExists ==
  ASSUME NEW S \in SUBSET Tx, IsFiniteSet(S), S # {}
  PROVE  \E t \in S : \A u \in S \ {t} : Po!Outranks(u, t)
<1> DEFINE low(R) == \E t \in R : \A u \in R \ {t} : Po!Outranks(u, t)
           T == {n \in Nat : \A R \in SUBSET S : Cardinality(R) = n /\ R # {} => low(R)}
<1>1. \A R \in SUBSET S : IsFiniteSet(R) /\ Cardinality(R) \in Nat /\ (Cardinality(R) = 0 <=> R = {})
  BY FS_Subset, FS_CardinalityType, FS_EmptySet
<1>2. 0 \in T
  BY <1>1
<1>3. \A n \in Nat : n \in T => n + 1 \in T
  <2> HIDE DEF low
  <2> SUFFICES ASSUME NEW n \in Nat, n \in T, NEW R \in SUBSET S, Cardinality(R) = n + 1, R # {}
               PROVE  low(R)
    OBVIOUS
  <2> USE DEF low
  <2>1. PICK x \in R : TRUE
    OBVIOUS
  <2>2. CASE R \ {x} = {}
    BY <2>1, <2>2
  <2>3. CASE R \ {x} # {}
    <3>1. R \ {x} \in SUBSET S /\ Cardinality(R \ {x}) = n
      <4>1. Cardinality(R \ {x}) = Cardinality(R) - 1
        BY <1>1, <2>1, FS_RemoveElement
      <4> QED BY <4>1
    <3>2. low(R \ {x})
      BY <3>1, <2>3
    <3>3. PICK t \in R \ {x} : \A u \in (R \ {x}) \ {t} : Po!Outranks(u, t)
      BY <3>2
    <3>4. x \in Tx /\ t \in Tx /\ x # t
      BY <2>1, <3>3
    <3>5. CASE Po!Outranks(x, t)
      <4>1. \A u \in R \ {t} : Po!Outranks(u, t)
        BY <3>3, <3>5
      <4> QED BY <4>1
    <3>6. CASE Po!Outranks(t, x)
      <4>1. ASSUME NEW u \in R \ {x}
            PROVE  Po!Outranks(u, x)
        <5>1. u = t \/ Po!Outranks(u, t)
          BY <3>3
        <5>2. u \in Tx
          OBVIOUS
        <5> QED BY <5>1, <5>2, <3>4, <3>6, OutranksOrders
      <4> QED BY <2>1, <4>1
    <3> QED BY <3>4, <3>5, <3>6, OutranksOrders
  <2> QED BY <2>2, <2>3
<1> QED
  <2>1. Cardinality(S) \in T
    <3> HIDE DEF T
    <3> QED BY <1>1, <1>2, <1>3, Induction
  <2> QED BY <2>1

LEMMA LowestIs ==
  ASSUME NEW p, PoolOf(p), IsFiniteSet(p.tx), p.tx # {}
  PROVE  LET m == Po!minimum_pool_fee_per_byte(p)
         IN  /\ m \in p.tx
             /\ Above(p.tx, m) = p.tx \ {m}
<1>1. PICK m : m = Po!minimum_pool_fee_per_byte(p)
  OBVIOUS
<1>2. p.fee = p.tx /\ p.tx \in SUBSET Tx
  BY DEF PoolOf
<1>3. m \in p.tx /\ \A u \in p.tx \ {m} : Po!Outranks(u, m)
  BY <1>1, <1>2, LowestExists DEF Po!minimum_pool_fee_per_byte
<1>4. ~Po!Outranks(m, m)
  BY <1>2, <1>3, OutranksOrders
<1>5. Above(p.tx, m) = p.tx \ {m}
  BY <1>3, <1>4 DEF Above
<1> QED BY <1>1, <1>3, <1>5

\* Nothing that leaves makes a transaction fit less.
LEMMA RemoveSizes ==
  ASSUME NEW p, PoolOf(p), IsFiniteSet(p.tx), p.total = Po!SumSize(p.tx), NEW S \in SUBSET p.tx,
         \A t \in p.tx \ S : Po!SumSize(Above(p.tx, t)) < MAX_POOL_SIZE
  PROVE  SizedPool(Po!remove_from_pool(p, S))
<1>1. PICK q : q = Po!remove_from_pool(p, S)
  OBVIOUS
<1>2. q.tx = p.tx \ S /\ q.total = p.total - Po!SumSize(S)
  BY <1>1 DEF Po!remove_from_pool
<1>3. p.tx \in SUBSET Tx /\ IsFiniteSet(q.tx)
  BY <1>2, FS_Subset DEF PoolOf
<1>4. q.total = Po!SumSize(q.tx)
  <2>1. Po!SumSize(p.tx) = Po!SumSize(S) + Po!SumSize(p.tx \ S)
    BY <1>3, SizeSplit
  <2>2. PICK a \in Nat, b \in Nat : a = Po!SumSize(S) /\ b = Po!SumSize(p.tx \ S)
    <3>1. p.tx \ S \in SUBSET p.tx
      OBVIOUS
    <3> QED BY <1>3, <3>1, SizePart
  <2> QED BY <1>2, <2>1, <2>2
<1>5. ASSUME NEW t \in q.tx
      PROVE  Po!SumSize(Above(q.tx, t)) < MAX_POOL_SIZE
  <2>1. Above(q.tx, t) \in SUBSET Above(p.tx, t) /\ Above(p.tx, t) \in SUBSET p.tx
    BY <1>2 DEF Above
  <2>2. Above(p.tx, t) \in SUBSET Tx /\ IsFiniteSet(Above(p.tx, t))
    BY <1>3, <2>1, FS_Subset
  <2>3. PICK a \in Nat, b \in Nat : a = Po!SumSize(Above(q.tx, t)) /\ b = Po!SumSize(Above(p.tx, t)) /\ a <= b
    BY <2>1, <2>2, SizePart, SizeNumber
  <2>4. b < MAX_POOL_SIZE /\ MAX_POOL_SIZE \in Nat
    BY <1>2, <2>3, PoolAssumption DEF Po!TxAssumption
  <2> QED BY <2>3, <2>4
<1> QED BY <1>1, <1>3, <1>4, <1>5 DEF SizedPool

\* A transaction that is let in is not evicted again: when the pool was full, it
\* outranks the lowest one.
LEMMA AdmittedStays ==
  ASSUME NEW p, PoolOf(p), SizedPool(p), NEW t \in Tx, t \notin p.tx, ~Po!TooCheap(p, t),
         NEW S \in SUBSET p.tx
  PROVE  Po!SumSize(Above(p.tx, t)) < MAX_POOL_SIZE /\ Above(p.tx, t) \in SUBSET p.tx
<1>1. p.tx \in SUBSET Tx /\ IsFiniteSet(p.tx) /\ Above(p.tx, t) \in SUBSET p.tx
  BY DEF PoolOf, SizedPool, Above
<1>2. PICK M \in Nat \ {0} : M = MAX_POOL_SIZE
  BY PoolAssumption DEF Po!TxAssumption
<1>3. PICK a \in Nat, b \in Nat : a = Po!SumSize(Above(p.tx, t)) /\ b = Po!SumSize(p.tx) /\ a <= b
  BY <1>1, SizePart, SizeNumber
<1>4. CASE p.total < MAX_POOL_SIZE
  BY <1>1, <1>2, <1>3, <1>4 DEF SizedPool
<1>5. CASE p.tx = {}
  <2>1. Above(p.tx, t) = {}
    BY <1>5 DEF Above
  <2> QED BY <1>1, <1>2, <2>1, SizeEmpty
<1>6. CASE p.total >= MAX_POOL_SIZE /\ p.tx # {}
  <2>1. PICK m : m = Po!minimum_pool_fee_per_byte(p)
    OBVIOUS
  <2>2. m \in p.tx /\ Above(p.tx, m) = p.tx \ {m}
    BY <1>1, <1>6, <2>1, LowestIs
  <2>3. ~Po!Outranks(m, t)
    BY <1>6, <2>1 DEF Po!TooCheap, PoolOf
  <2>4. Above(p.tx, t) \in SUBSET Above(p.tx, m)
    BY <2>2, <2>3 DEF Above
  <2>5. Above(p.tx, m) \in SUBSET Tx /\ IsFiniteSet(Above(p.tx, m))
    BY <1>1, <2>2, FS_Subset
  <2>6. PICK c \in Nat : c = Po!SumSize(Above(p.tx, m)) /\ a <= c
    BY <1>3, <2>4, <2>5, SizePart, SizeNumber
  <2>7. c < M
    BY <1>2, <2>2, <2>6 DEF SizedPool
  <2> QED BY <1>1, <1>2, <1>3, <2>6, <2>7
<1>7. p.total < MAX_POOL_SIZE \/ p.total >= MAX_POOL_SIZE
  BY <1>2, <1>3 DEF SizedPool
<1> QED BY <1>4, <1>5, <1>6, <1>7

\* The cases of add_transaction.
LEMMA AddCases ==
  ASSUME NEW p, NEW t, NEW verdict \in Po!Verdicts
  PROVE  LET a == Po!add_transaction(p, t, verdict)
             q == Po!remove_from_pool(p, Po!Displaced(p, t))
         IN  \/ a.pool = p /\ a.result # "BROADCAST_ALL"
             \/ /\ t \notin p.tx /\ ~Po!TooCheap(p, t) /\ Po!Blockers(p, t) = {}
                /\ a = Po!Admit(p, t)
             \/ a.pool = q /\ a.result = "INCREASE_FEE"
<1> DEFINE a == Po!add_transaction(p, t, verdict)
           q == Po!remove_from_pool(p, Po!Displaced(p, t))
           no == [pool |-> q, result |-> "INCREASE_FEE", ok |-> Po!AllErased(p, Po!Displaced(p, t))]
<1>1. ASSUME NEW result, result # "BROADCAST_ALL", a = Po!Answer(p, result)
      PROVE  a.pool = p /\ a.result # "BROADCAST_ALL"
  BY <1>1 DEF Po!Answer
<1>2. CASE t \in p.tx
  <2>1. a = Po!Answer(p, "ALREADY_IN_POOL")
    BY <1>2 DEF Po!add_transaction
  <2> HIDE DEF a
  <2> QED BY <1>1, <2>1 DEF a
<1>3. CASE t \notin p.tx /\ (Po!TooCheap(p, t) \/ Po!FirstConflictWins(p, t))
  <2>1. a = Po!Answer(p, "INCREASE_FEE")
    BY <1>3 DEF Po!add_transaction
  <2> HIDE DEF a
  <2> QED BY <1>1, <2>1 DEF a
<1>4. CASE t \notin p.tx /\ ~(Po!TooCheap(p, t) \/ Po!FirstConflictWins(p, t))
  <2>1. a = IF Po!KeyImages(t) \cap Po!Spent # {} THEN Po!Answer(p, "OUTPUT_ALREADY_SPENT")
            ELSE IF verdict # "ok" THEN Po!Answer(p, verdict)
            ELSE IF Po!Blockers(p, t) = {} THEN Po!Admit(p, t)
            ELSE no
    BY <1>4 DEF Po!add_transaction
  <2>2. verdict # "BROADCAST_ALL"
    BY DEF Po!Verdicts
  <2>3. no.pool = q /\ no.result = "INCREASE_FEE"
    OBVIOUS
  <2> HIDE DEF a, no
  <2>4. \/ a = Po!Answer(p, "OUTPUT_ALREADY_SPENT")
        \/ a = Po!Answer(p, verdict)
        \/ Po!Blockers(p, t) = {} /\ a = Po!Admit(p, t)
        \/ a = no
    BY <2>1
  <2> QED BY <1>1, <1>4, <2>2, <2>3, <2>4 DEF a
<1> QED BY <1>2, <1>3, <1>4

LEMMA AddSizes ==
  ASSUME NEW p, PoolOf(p), SizedPool(p), NEW t \in Tx, NEW verdict \in Po!Verdicts
  PROVE  LET a == Po!add_transaction(p, t, verdict)
         IN  SizedPool(a.pool) /\ (a.result = "BROADCAST_ALL" => t \in a.pool.tx)
<1> DEFINE S == Po!Displaced(p, t)
           q == Po!remove_from_pool(p, S)
           r == Po!Inserted(q, t)
           z == Po!remove_from_pool(r, Po!Evicted(r))
<1>1. PICK a : a = Po!add_transaction(p, t, verdict)
  OBVIOUS
<1>2. /\ S \subseteq p.tx
      /\ Po!Blockers(p, t) = {} /\ t \notin p.tx => Po!AllInserted(q, t)
  BY DisplacedFrees
<1>3. PoolOf(q)
  BY <1>2, RemoveKeeps
<1>4. SizedPool(q) /\ q.tx = p.tx \ S
  BY <1>2, RemoveSizes, RemoveShrinks DEF SizedPool
<1>5. ASSUME t \notin p.tx, ~Po!TooCheap(p, t), Po!Blockers(p, t) = {}, a = Po!Admit(p, t)
      PROVE  SizedPool(a.pool) /\ t \in a.pool.tx
  <2> HIDE DEF S
  <2>1. a.pool = z
    BY <1>5 DEF Po!Admit, S
  <2> HIDE DEF q
  <2>2. PoolOf(r)
    BY <1>2, <1>3, <1>5, InsertKeeps DEF q, S
  <2>3. r.tx = q.tx \cup {t} /\ r.total = q.total + Size[t]
    BY DEF Po!Inserted
  <2> HIDE DEF r
  <2>4. t \notin q.tx /\ q.tx \in SUBSET Tx /\ IsFiniteSet(q.tx) /\ r.tx \in SUBSET Tx
    BY <1>3, <1>4, <1>5, <2>3 DEF PoolOf, SizedPool
  <2>5. IsFiniteSet(r.tx) /\ r.total = Po!SumSize(r.tx)
    <3>1. IsFiniteSet(r.tx)
      BY <2>3, <2>4, FS_AddElement
    <3>2. r.tx \ {t} = q.tx
      BY <2>3, <2>4
    <3>3. Po!SumSize(r.tx) = Size[t] + Po!SumSize(q.tx)
      BY <2>3, <2>4, <3>1, <3>2, SizeTake
    <3>4. PICK b \in Nat, c \in Nat : b = Size[t] /\ c = Po!SumSize(q.tx)
      <4>1. Size[t] \in Nat
        BY PoolAssumption DEF Po!TxAssumption
      <4> QED BY <2>4, <4>1, SizeNumber
    <3>5. q.total = c
      BY <1>4, <3>4 DEF SizedPool
    <3>6. r.total = c + b /\ Po!SumSize(r.tx) = b + c
      BY <2>3, <3>3, <3>4, <3>5
    <3> QED BY <3>1, <3>6
  <2>6. \A u \in r.tx \ Po!Evicted(r) : Po!SumSize(Above(r.tx, u)) < MAX_POOL_SIZE
    <3> SUFFICES ASSUME NEW u \in r.tx, u \notin Po!Evicted(r)
                 PROVE  Po!SumSize(Above(r.tx, u)) < MAX_POOL_SIZE
      OBVIOUS
    <3>1. Above(r.tx, u) \in SUBSET r.tx
      BY DEF Above
    <3>2. Po!SumSize(Above(r.tx, u)) \in Nat
      BY <2>4, <2>5, <3>1, SizePart
    <3>3. ~(Po!SumSize(Above(r.tx, u)) >= MAX_POOL_SIZE)
      BY DEF Po!Evicted, Above
    <3> QED BY <3>2, <3>3, PoolAssumption DEF Po!TxAssumption
  <2>7. Po!Evicted(r) \subseteq r.tx
    BY DEF Po!Evicted
  <2>8. SizedPool(z) /\ z.tx = r.tx \ Po!Evicted(r)
    BY <2>2, <2>5, <2>6, <2>7, RemoveSizes, RemoveShrinks
  <2>9. t \notin Po!Evicted(r)
    <3>1. Above(r.tx, t) \in SUBSET Above(p.tx, t)
      BY <1>4, <2>3, OutranksOrders DEF Above
    <3>2. Po!SumSize(Above(p.tx, t)) < MAX_POOL_SIZE /\ Above(p.tx, t) \in SUBSET p.tx
      BY <1>2, <1>5, AdmittedStays
    <3>3. Above(p.tx, t) \in SUBSET Tx /\ IsFiniteSet(Above(p.tx, t))
      BY <3>2, FS_Subset DEF PoolOf, SizedPool
    <3>4. PICK b \in Nat, c \in Nat : b = Po!SumSize(Above(r.tx, t)) /\ c = Po!SumSize(Above(p.tx, t)) /\ b <= c
      BY <3>1, <3>3, SizePart, SizeNumber
    <3>5. MAX_POOL_SIZE \in Nat /\ ~(b >= MAX_POOL_SIZE)
      BY <3>2, <3>4, PoolAssumption DEF Po!TxAssumption
    <3> QED BY <3>4, <3>5 DEF Po!Evicted, Above
  <2> QED BY <2>1, <2>3, <2>8, <2>9
<1> HIDE DEF S, q
<1>6. \/ a.pool = p /\ a.result # "BROADCAST_ALL"
      \/ /\ t \notin p.tx /\ ~Po!TooCheap(p, t) /\ Po!Blockers(p, t) = {}
         /\ a = Po!Admit(p, t)
      \/ a.pool = q /\ a.result = "INCREASE_FEE"
  BY <1>1, AddCases DEF q, S
<1>7. SizedPool(a.pool) /\ (a.result = "BROADCAST_ALL" => t \in a.pool.tx)
  BY <1>4, <1>5, <1>6
<1> QED BY <1>1, <1>7

\* The answer is told of the transaction that it is about, and not while blocks
\* are undone and redone, when transactions leave the pool.
PbInv ==
  /\ PoInv
  /\ SizedPool(pool)
  /\ last.result = "BROADCAST_ALL" => last.tid \in pool.tx /\ pc \in {"idle", "rebuild"}

LEMMA EmptySizes == SizedPool(Po!EmptyPool)
BY SizeEmpty, FS_EmptySet DEF SizedPool, Po!EmptyPool

LEMMA OfferSizes ==
  ASSUME PoInv, SizedPool(pool), pc \in {"idle", "rebuild"}, pc' = pc,
         NEW t \in Tx, NEW verdict \in Po!Verdicts, Po!Offer(t, verdict)
  PROVE  SizedPool(pool') /\ (last'.result = "BROADCAST_ALL" => last'.tid \in pool'.tx /\ pc' \in {"idle", "rebuild"})
<1>1. PICK a : a = Po!add_transaction(pool, t, verdict)
  OBVIOUS
<1>2. SizedPool(a.pool) /\ (a.result = "BROADCAST_ALL" => t \in a.pool.tx)
  BY <1>1, AddSizes DEF PoInv
<1>3. pool' = a.pool /\ last' = [tid |-> t, result |-> a.result]
  BY <1>1 DEF Po!Offer
<1> QED BY <1>2, <1>3

LEMMA RedoSizes ==
  ASSUME PoInv, SizedPool(pool), NEW B \in SUBSET Tx, Po!redo_block(B)
  PROVE  SizedPool(pool')
<1> DEFINE S == Po!store_keyimages(pool, B)
<1>1. S \subseteq pool.tx
  <2> SUFFICES ASSUME NEW t \in B, NEW k \in Po!KeyImages(t), pool.ki[k] # Po!NoTx
               PROVE  pool.ki[k] \in pool.tx
    BY DEF Po!store_keyimages
  <2>1. k \in KeyImage
    BY ImagesOf
  <2> QED BY <2>1 DEF PoInv, PoolOf
<1>2. pool' = Po!remove_from_pool(pool, S)
  BY DEF Po!redo_block
<1> HIDE DEF S
<1>3. SizedPool(Po!remove_from_pool(pool, S))
  BY <1>1, RemoveSizes DEF PoInv, SizedPool
<1> QED BY <1>2, <1>3

LEMMA PoolSizeStep ==
  ASSUME PbInv, [Po!Next]_po
  PROVE  PbInv'
<1> USE DEF PbInv
<1>0. PoInv'
  BY PoolStep
<1>1. ASSUME SizedPool(pool'), last'.result = "BROADCAST_ALL" => last'.tid \in pool'.tx /\ pc' \in {"idle", "rebuild"}
      PROVE  PbInv'
  <2>1. SizedPool(pool)'
    BY <1>1 DEF SizedPool, Above, Po!Outranks, Po!SumSize, Po!MapThenSumSet, Po!MapThenFoldSet
  <2> QED BY <1>0, <1>1, <2>1
<1>2. CASE \E t \in Tx : Po!AddTransaction(t)
  <2>1. PICK t \in Tx, verdict \in Po!Verdicts : Po!Offer(t, verdict) /\ UNCHANGED <<blocks, undone, undone_blocks, old>>
    BY <1>2 DEF Po!AddTransaction
  <2>2. pc = "idle"
    BY <1>2 DEF Po!AddTransaction
  <2>3. pc' = pc
    BY <2>1, OfferKeeps DEF PoInv
  <2> QED BY <1>1, <2>1, <2>2, <2>3, OfferSizes
<1>3. CASE \E B \in SUBSET Tx : Po!ExtendChain(B)
  BY <1>1, <1>3, RedoSizes DEF Po!ExtendChain
<1>4. CASE \E B \in SUBSET Tx : Po!RedoBlock(B)
  <2>1. last.result # "BROADCAST_ALL"
    BY <1>4 DEF Po!RedoBlock
  <2> QED BY <1>1, <1>4, <2>1, RedoSizes DEF Po!RedoBlock
<1>5. CASE Po!StartReorg
  BY <1>1, <1>5 DEF Po!StartReorg
<1>6. CASE Po!UndoBlock
  BY <1>1, <1>6 DEF Po!UndoBlock
<1>7. CASE Po!UndoDone
  BY <1>1, <1>7 DEF Po!UndoDone
<1>8. CASE Po!RedoDone
  <2>1. last.result # "BROADCAST_ALL" /\ last' = last
    BY <1>8 DEF Po!RedoDone
  <2>2. pool' = Po!EmptyPool \/ pool' = pool
    BY <1>8 DEF Po!RedoDone
  <2> QED BY <1>1, <2>1, <2>2, EmptySizes
<1>9. CASE Po!Rebuild
  <2> DEFINE group == IF old # {} THEN old ELSE undone
             t == Po!Smallest(group)
  <2>1. PICK verdict \in Po!Verdicts : Po!Offer(t, verdict)
    BY <1>9 DEF Po!Rebuild
  <2>2. blocks' = blocks /\ pc = "rebuild"
    BY <1>9 DEF Po!Rebuild
  <2>3. group \subseteq Nat /\ group # {} /\ group \subseteq Tx
    BY <1>9, PoolAssumption DEF Po!Rebuild, PoInv, Po!TxAssumption
  <2>4. t \in Tx
    BY <2>3, SmallestIsIn
  <2> HIDE DEF t
  <2>5. pc' = pc
    BY <2>1, <2>2, <2>4, OfferKeeps DEF PoInv
  <2> QED BY <1>1, <2>1, <2>2, <2>4, <2>5, OfferSizes
<1>10. CASE Po!RebuildDone
  BY <1>1, <1>10 DEF Po!RebuildDone
<1>11. CASE UNCHANGED po
  BY <1>1, <1>11 DEF po
<1> QED BY <1>2, <1>3, <1>4, <1>5, <1>6, <1>7, <1>8, <1>9, <1>10, <1>11 DEF Po!Next

\* m_memory_state_total_size is always the size of the pool's transactions, the
\* pool is over MAX_POOL_SIZE by less than its lowest transaction, and a
\* transaction that add_transaction answers BROADCAST_ALL for was not evicted by
\* its own insertion, for any transactions, fees, sizes and limit.
THEOREM PoolAlwaysBounded == MCSpec => []PoolBounded
<1>1. MCInit => PbInv
  <2> SUFFICES ASSUME MCInit PROVE PbInv
    OBVIOUS
  <2>1. pool = Po!EmptyPool /\ blocks = <<>> /\ pc = "idle" /\ undone = {} /\ old = {} /\ last.result = "none"
    BY DEF MCInit, Po!Init
  <2> QED BY <2>1, EmptyKeeps, EmptySizes DEF PbInv, PoInv
<1>2. PbInv /\ [MCNext]_all => PbInv'
  <2> SUFFICES ASSUME PbInv, [MCNext]_all PROVE [Po!Next]_po
    BY PoolSizeStep
  <2> QED BY DEF MCNext, all, po
<1>3. PbInv => PoolBounded
  <2> SUFFICES ASSUME PbInv PROVE Po!SizeBounded /\ Po!BroadcastIsInPool
    BY DEF PoolBounded
  <2>1. Po!BroadcastIsInPool
    BY DEF PbInv, Po!BroadcastIsInPool
  <2>2. ASSUME pool.tx # {}
        PROVE  pool.total < MAX_POOL_SIZE + Size[Po!minimum_pool_fee_per_byte(pool)]
    <3>1. PICK m : m = Po!minimum_pool_fee_per_byte(pool)
      OBVIOUS
    <3>2. m \in pool.tx /\ Above(pool.tx, m) = pool.tx \ {m}
      BY <2>2, <3>1, LowestIs DEF PbInv, PoInv, SizedPool
    <3>3. pool.tx \in SUBSET Tx /\ IsFiniteSet(pool.tx)
      BY DEF PbInv, PoInv, PoolOf, SizedPool
    <3>4. pool.total = Size[m] + Po!SumSize(pool.tx \ {m})
      BY <3>2, <3>3, SizeTake DEF PbInv, SizedPool
    <3>5. PICK a \in Nat, b \in Nat, M \in Nat : a = Size[m] /\ b = Po!SumSize(pool.tx \ {m}) /\ M = MAX_POOL_SIZE
      <4>1. pool.tx \ {m} \in SUBSET pool.tx
        OBVIOUS
      <4> QED BY <3>2, <3>3, <4>1, SizePart, PoolAssumption DEF Po!TxAssumption
    <3>6. b < M
      BY <3>2, <3>5 DEF PbInv, SizedPool
    <3>7. a + b < M + a
      BY <3>6
    <3> QED BY <3>1, <3>4, <3>5, <3>7
  <2> QED BY <2>1, <2>2 DEF Po!SizeBounded, PbInv, SizedPool
<1> QED BY <1>1, <1>2, <1>3, PTL DEF MCSpec

-------------------------------------------------------------------------------
(***************************************************************************)
(* The ledger.  The invariant LedInv relates a ledger to a chain: every    *)
(* block of the chain was good on top of the blocks below it, the tables   *)
(* are those that TablesOf computes from the blocks, and the indices of a  *)
(* block lead to its outputs on the stacks of the chain up to it.  It is   *)
(* an invariant of the ledger and of what is on the disk.                  *)
(*                                                                         *)
(* redo_block.  The checks see no more of the tables than the stacks and   *)
(* key images of the chain, so they accept a block just when it is Good    *)
(* (CheckerAgrees).  A good block spends key images that are not spent,    *)
(* and outputs below the tops of the stacks that no input has spent        *)
(* before, as one output has one key image (FreshSpent): its delta is what *)
(* the block adds to TablesOf (DeltaIs, ApplyStacks).                      *)
(*                                                                         *)
(* undo_block.  What the chain and the block spend is below the outputs    *)
(* that the block has pushed (SpentUnder), so each pop finds its output on *)
(* the top, unspent, and unmarking what a transaction spent leaves the     *)
(* marks of the others (UndoStep).                                         *)
(*                                                                         *)
(* The recursive functions of the operators are named by the lemmas that   *)
(* end in Exist(s); Induction takes it from there.                         *)
(***************************************************************************)
-------------------------------------------------------------------------------
(***************************************************************************)
(* Concatenation.                                                          *)
(***************************************************************************)
\* f has the first n concatenations of the sequences of ss.
IsFlat(f, ss) ==
  f = [i \in 1..Len(ss) |-> IF i = 1 THEN ss[i] ELSE f[i - 1] \o ss[i]]

FlatUpTo(f, ss, n) ==
  \A i \in 1..Len(ss) : i <= n => f[i] = IF i = 1 THEN ss[i] ELSE f[i - 1] \o ss[i]

\* The recursive function of FlattenSeq exists.
LEMMA FlatExists ==
  ASSUME NEW ss, Len(ss) \in Nat
  PROVE  \E f : IsFlat(f, ss)
<1> DEFINE T == {n \in Nat : \E f : FlatUpTo(f, ss, n)}
<1>1. 0 \in T
  <2>1. FlatUpTo(ss, ss, 0)
    BY DEF FlatUpTo
  <2> QED BY <2>1
<1>2. \A n \in Nat : n \in T => n + 1 \in T
  <2> SUFFICES ASSUME NEW n \in Nat, NEW f, FlatUpTo(f, ss, n) PROVE \E g : FlatUpTo(g, ss, n + 1)
    OBVIOUS
  <2>1. PICK g : g = [i \in 1..Len(ss) |-> IF i = 1 THEN ss[i] ELSE f[i - 1] \o ss[i]]
    OBVIOUS
  <2>2. \A i \in 1..Len(ss) : i <= n => g[i] = f[i]
    BY <2>1 DEF FlatUpTo
  <2>3. ASSUME NEW i \in 1..Len(ss), i <= n + 1
        PROVE  g[i] = IF i = 1 THEN ss[i] ELSE g[i - 1] \o ss[i]
    <3>1. CASE i = 1
      BY <2>1, <3>1
    <3>2. CASE i # 1
      <4>1. i - 1 \in 1..Len(ss) /\ i - 1 <= n
        BY <2>3, <3>2
      <4>2. g[i - 1] = f[i - 1]
        BY <2>2, <4>1
      <4> QED BY <2>1, <3>2, <4>2
    <3> QED BY <3>1, <3>2
  <2>4. FlatUpTo(g, ss, n + 1)
    BY <2>3 DEF FlatUpTo
  <2> QED BY <2>4
<1>3. Len(ss) \in T
  <2> HIDE DEF T
  <2> QED BY <1>1, <1>2, Induction
<1>4. PICK f : FlatUpTo(f, ss, Len(ss))
  BY <1>3
<1>5. PICK g : g = [i \in 1..Len(ss) |-> f[i]]
  OBVIOUS
<1>6. \A i \in 1..Len(ss) : g[i] = IF i = 1 THEN ss[i] ELSE g[i - 1] \o ss[i]
  <2> SUFFICES ASSUME NEW i \in 1..Len(ss)
               PROVE  g[i] = IF i = 1 THEN ss[i] ELSE g[i - 1] \o ss[i]
    OBVIOUS
  <2>1. f[i] = IF i = 1 THEN ss[i] ELSE f[i - 1] \o ss[i]
    BY <1>4 DEF FlatUpTo
  <2>2. i # 1 => i - 1 \in 1..Len(ss)
    OBVIOUS
  <2> QED BY <1>5, <2>1, <2>2
<1>7. PICK N : N = 1..Len(ss)
  OBVIOUS
<1>8. g = [i \in N |-> IF i = 1 THEN ss[i] ELSE g[i - 1] \o ss[i]]
  BY <1>5, <1>6, <1>7
<1> QED BY <1>7, <1>8 DEF IsFlat

\* FlattenSeq is the last value of that function.
LEMMA FlatIs ==
  ASSUME NEW ss, Len(ss) \in Nat \ {0}
  PROVE  \E f : IsFlat(f, ss) /\ FlattenSeq(ss) = f[Len(ss)]
<1>1. PICK f : f = CHOOSE g : IsFlat(g, ss)
  OBVIOUS
<1>2. IsFlat(f, ss)
  BY <1>1, FlatExists
<1>3. FlattenSeq(ss) = f[Len(ss)]
  BY <1>1 DEF FlattenSeq, IsFlat
<1> QED BY <1>2, <1>3

\* What the proofs below use: nothing is concatenated to nothing, and the last
\* sequence comes last.
LEMMA FlatEmpty ==
  ASSUME NEW ss, Len(ss) = 0
  PROVE  FlattenSeq(ss) = ss
BY DEF FlattenSeq

\* Two sequences of sequences that begin alike are flattened alike.
LEMMA FlatAgree ==
  ASSUME NEW ss, NEW f, IsFlat(f, ss), NEW tt, NEW g, IsFlat(g, tt),
         Len(ss) \in Nat, Len(tt) \in Nat,
         NEW m \in Nat, m <= Len(ss), m <= Len(tt), \A i \in 1..m : ss[i] = tt[i]
  PROVE  \A i \in 1..m : f[i] = g[i]
<1> DEFINE T == {n \in Nat : n + 1 \in 1..m => f[n + 1] = g[n + 1]}
<1>0. /\ \A i \in 1..Len(ss) : f[i] = IF i = 1 THEN ss[i] ELSE f[i - 1] \o ss[i]
      /\ \A i \in 1..Len(tt) : g[i] = IF i = 1 THEN tt[i] ELSE g[i - 1] \o tt[i]
  BY DEF IsFlat
<1>1. 0 \in T
  BY <1>0
<1>2. \A n \in Nat : n \in T => n + 1 \in T
  <2> SUFFICES ASSUME NEW n \in Nat, n \in T, (n + 1) + 1 \in 1..m
               PROVE  f[(n + 1) + 1] = g[(n + 1) + 1]
    OBVIOUS
  <2>1. PICK k \in Nat : k = (n + 1) + 1
    OBVIOUS
  <2>2. k \in 1..Len(ss) /\ k \in 1..Len(tt) /\ k # 1 /\ k - 1 = n + 1 /\ n + 1 \in 1..m /\ k \in 1..m
    BY <2>1
  <2>3. f[k - 1] = g[k - 1] /\ ss[k] = tt[k]
    BY <2>2
  <2>4. f[k] = f[k - 1] \o ss[k] /\ g[k] = g[k - 1] \o tt[k]
    BY <1>0, <2>2
  <2>5. f[k] = g[k]
    BY <2>3, <2>4
  <2> QED BY <2>1, <2>5
<1> SUFFICES ASSUME NEW i \in 1..m PROVE f[i] = g[i]
  OBVIOUS
<1>3. i - 1 \in Nat /\ (i - 1) + 1 = i
  OBVIOUS
<1>4. i - 1 \in T
  <2> HIDE DEF T
  <2> QED BY <1>1, <1>2, <1>3, Induction
<1> QED BY <1>3, <1>4

\* One sequence more.
LEMMA FlatAppend ==
  ASSUME NEW S, NEW ss, NEW tt, Len(ss) \in Nat, Len(tt) = Len(ss) + 1,
         Len(ss) = 0 => ss = <<>>,
         \A i \in 1..Len(ss) : ss[i] = tt[i],
         tt[Len(tt)] \in Seq(S)
  PROVE  FlattenSeq(tt) = FlattenSeq(ss) \o tt[Len(tt)]
<1>1. PICK n \in Nat : n = Len(ss) /\ Len(tt) = n + 1
  OBVIOUS
<1>2. PICK g : IsFlat(g, tt) /\ FlattenSeq(tt) = g[n + 1]
  BY <1>1, FlatIs
<1>3. \A i \in 1..n + 1 : g[i] = IF i = 1 THEN tt[i] ELSE g[i - 1] \o tt[i]
  BY <1>1, <1>2 DEF IsFlat
<1>4. CASE n = 0
  <2>1. FlattenSeq(ss) = <<>>
    BY <1>1, <1>4, FlatEmpty
  <2>2. g[n + 1] = tt[n + 1]
    BY <1>3, <1>4
  <2>3. <<>> \o tt[n + 1] = tt[n + 1]
    BY <1>1
  <2> QED BY <1>1, <1>2, <2>1, <2>2, <2>3
<1>5. CASE n # 0
  <2>1. PICK f : IsFlat(f, ss) /\ FlattenSeq(ss) = f[n]
    BY <1>1, <1>5, FlatIs
  <2>2. \A i \in 1..n : f[i] = g[i]
    BY <1>1, <1>2, <2>1, FlatAgree
  <2>3. n \in 1..n /\ n + 1 \in 1..n + 1 /\ n + 1 # 1 /\ (n + 1) - 1 = n
    BY <1>5
  <2>4. g[n + 1] = g[n] \o tt[n + 1]
    BY <1>3, <2>3
  <2> QED BY <1>1, <1>2, <2>1, <2>2, <2>3, <2>4
<1> QED BY <1>4, <1>5

\* Flattening keeps the type.
LEMMA FlatTyped ==
  ASSUME NEW S, NEW ss, Len(ss) \in Nat, Len(ss) = 0 => ss = <<>>,
         \A i \in 1..Len(ss) : ss[i] \in Seq(S)
  PROVE  FlattenSeq(ss) \in Seq(S)
<1>1. CASE Len(ss) = 0
  <2>1. FlattenSeq(ss) = <<>>
    BY <1>1, FlatEmpty
  <2> QED BY <2>1
<1>2. CASE Len(ss) # 0
  <2>1. PICK n \in Nat : n = Len(ss) /\ n # 0
    BY <1>2
  <2>2. PICK f : IsFlat(f, ss) /\ FlattenSeq(ss) = f[n]
    BY <2>1, FlatIs
  <2>3. \A i \in 1..n : f[i] = IF i = 1 THEN ss[i] ELSE f[i - 1] \o ss[i]
    BY <2>1, <2>2 DEF IsFlat
  <2> DEFINE T == {k \in Nat : k + 1 \in 1..n => f[k + 1] \in Seq(S)}
  <2>4. 0 \in T
    BY <2>1, <2>3
  <2>5. \A k \in Nat : k \in T => k + 1 \in T
    <3> SUFFICES ASSUME NEW k \in Nat, k \in T, (k + 1) + 1 \in 1..n
                 PROVE  f[(k + 1) + 1] \in Seq(S)
      OBVIOUS
    <3>1. PICK m \in Nat : m = (k + 1) + 1
      OBVIOUS
    <3>2. m \in 1..n /\ m # 1 /\ m - 1 = k + 1 /\ k + 1 \in 1..n
      BY <3>1
    <3>3. f[m] = f[m - 1] \o ss[m] /\ f[m - 1] \in Seq(S) /\ ss[m] \in Seq(S)
      BY <2>1, <2>3, <3>2
    <3> QED BY <3>1, <3>3
  <2>6. n - 1 \in Nat /\ (n - 1) + 1 = n /\ n \in 1..n
    BY <2>1
  <2>7. n - 1 \in T
    <3> HIDE DEF T
    <3> QED BY <2>4, <2>5, <2>6, Induction
  <2> QED BY <2>2, <2>6, <2>7
<1> QED BY <1>1, <1>2

-------------------------------------------------------------------------------
(***************************************************************************)
(* The stacks of a chain.                                                  *)
(***************************************************************************)
OutputSet == UNION {UNION {{t.outputs[n] : n \in 1..Len(t.outputs)} : t \in BlockTxs(b)} : b \in Block}

Stamp(o, h) == [key |-> o.key, height |-> h, unlock_time |-> o.unlock_time]
StampSet == {Stamp(o, h) : o \in OutputSet, h \in Nat}

\* The types of the transactions of a block.
LEMMA TxShape ==
  ASSUME NEW b \in Block
  PROVE  /\ Txs[b] \in Seq(BlockTxs(b)) /\ Len(Txs[b]) \in Nat \ {0}
         /\ \A j \in 1..Len(Txs[b]) :
              LET t == Txs[b][j]
              IN  /\ t \in BlockTxs(b)
                  /\ t.outputs \in Seq(OutputSet) /\ Len(t.outputs) \in Nat
                  /\ \A n \in 1..Len(t.outputs) : t.outputs[n].amount \in Amount
                  /\ t.inputs \in Seq(KeyInputs(t)) /\ Len(t.inputs) \in Nat
<1>1. Txs[b] \in Seq(BlockTxs(b)) /\ Txs[b] # <<>>
  BY TransactionAssumption
<1>2. Len(Txs[b]) \in Nat /\ Len(Txs[b]) # 0
  BY <1>1
<1>3. ASSUME NEW j \in 1..Len(Txs[b]), NEW t, t = Txs[b][j]
      PROVE  /\ t \in BlockTxs(b)
             /\ t.outputs \in Seq(OutputSet) /\ Len(t.outputs) \in Nat
             /\ \A n \in 1..Len(t.outputs) : t.outputs[n].amount \in Amount
             /\ t.inputs \in Seq(KeyInputs(t)) /\ Len(t.inputs) \in Nat
  <2>1. t \in BlockTxs(b)
    BY <1>3 DEF BlockTxs
  <2> DEFINE O == {t.outputs[n] : n \in 1..Len(t.outputs)}
  <2>2. t.outputs \in Seq(O) /\ \A n \in 1..Len(t.outputs) : t.outputs[n].amount \in Amount
    BY <2>1, TransactionAssumption
  <2>3. O \subseteq OutputSet
    BY <2>1 DEF OutputSet
  <2>4. t.inputs \in Seq(KeyInputs(t))
    BY <2>1, TransactionAssumption
  <2> HIDE DEF O
  <2>5. t.outputs \in Seq(OutputSet) /\ Len(t.outputs) \in Nat
    BY <2>2, <2>3
  <2> QED BY <2>1, <2>2, <2>4, <2>5
<1> QED BY <1>1, <1>2, <1>3

\* s is the beginning of t.
Begins(s, t) == Len(s) <= Len(t) /\ \A p \in 1..Len(s) : s[p] = t[p]

\* Each of a line of sequences that grow begins the later ones.
LEMMA GrowingBegins ==
  ASSUME NEW S, NEW N \in Nat, NEW F, \A i \in 0..N : F[i] \in Seq(S),
         \A i \in 1..N : \E x \in Seq(S) : F[i] = F[i - 1] \o x,
         NEW i \in 0..N, NEW j \in 0..N, i <= j
  PROVE  Begins(F[i], F[j])
<1> DEFINE T == {d \in Nat : i + d <= N => Begins(F[i], F[i + d])}
<1>1. 0 \in T
  BY DEF Begins
<1>2. \A d \in Nat : d \in T => d + 1 \in T
  <2> SUFFICES ASSUME NEW d \in Nat, d \in T, i + (d + 1) <= N
               PROVE  Begins(F[i], F[i + (d + 1)])
    OBVIOUS
  <2>1. PICK k \in 1..N : k = i + (d + 1) /\ k - 1 = i + d /\ k - 1 \in 0..N
    OBVIOUS
  <2>2. Begins(F[i], F[k - 1])
    BY <2>1
  <2>3. PICK x \in Seq(S) : F[k] = F[k - 1] \o x
    OBVIOUS
  <2>4. PICK u \in Seq(S), v \in Seq(S) : u = F[i] /\ v = F[k - 1]
    BY <2>1
  <2>5. Begins(u, v \o x)
    <3>1. Len(u) <= Len(v) /\ Len(v \o x) = Len(v) + Len(x) /\ Len(u) \in Nat /\ Len(v) \in Nat /\ Len(x) \in Nat
      BY <2>2, <2>4 DEF Begins
    <3>2. \A p \in 1..Len(v) : (v \o x)[p] = v[p]
      BY <2>4
    <3> QED BY <2>2, <2>4, <3>1, <3>2 DEF Begins
  <2> QED BY <2>1, <2>3, <2>4, <2>5
<1>3. j - i \in Nat /\ i + (j - i) = j
  OBVIOUS
<1>4. j - i \in T
  <2> HIDE DEF T
  <2> QED BY <1>1, <1>2, <1>3, Induction
<1> QED BY <1>3, <1>4

\* OfAmount keeps the outputs of an amount, in their order.
LEMMA OfAmountTyped ==
  ASSUME NEW S, NEW outs \in Seq(S), NEW a
  PROVE  OfAmount(outs, a) \in Seq(S) /\ (outs = <<>> => OfAmount(outs, a) = <<>>)
<1> DEFINE ss == [n \in 1..Len(outs) |-> IF outs[n].amount = a THEN <<outs[n]>> ELSE <<>>]
<1>1. Len(outs) \in Nat
  OBVIOUS
<1>2. \A n \in 1..Len(outs) : ss[n] \in Seq(S)
  OBVIOUS
<1>3. ss \in Seq(Seq(S)) /\ Len(ss) = Len(outs)
  BY <1>1, <1>2
<1>4. Len(outs) = 0 => ss = <<>>
  BY <1>3
<1>5. OfAmount(outs, a) = FlattenSeq(ss)
  BY DEF OfAmount
<1> HIDE DEF ss
<1> QED BY <1>1, <1>2, <1>3, <1>4, <1>5, FlatTyped, FlatEmpty

\* The first elements of a sequence.
LEMMA Firsts ==
  ASSUME NEW S, NEW s \in Seq(S), NEW n \in 0..Len(s)
  PROVE  /\ SubSeq(s, 1, n) \in Seq(S) /\ Len(SubSeq(s, 1, n)) = n
         /\ \A i \in 1..n : SubSeq(s, 1, n)[i] = s[i]
<1>1. \A i \in 1..n : s[i] \in S
  OBVIOUS
<1>2. n = 0 \/ n \in 1..Len(s)
  OBVIOUS
<1> QED BY <1>1, <1>2

\* The outputs of an amount among one output more.
LEMMA OfAmountNext ==
  ASSUME NEW S, NEW outs \in Seq(S), NEW n \in 1..Len(outs), NEW a
  PROVE  OfAmount(SubSeq(outs, 1, n), a)
           = OfAmount(SubSeq(outs, 1, n - 1), a) \o (IF outs[n].amount = a THEN <<outs[n]>> ELSE <<>>)
<1> DEFINE one(m) == IF outs[m].amount = a THEN <<outs[m]>> ELSE <<>>
           upto(k) == SubSeq(outs, 1, k)
           ss(k) == [m \in 1..Len(upto(k)) |-> IF upto(k)[m].amount = a THEN <<upto(k)[m]>> ELSE <<>>]
<1>1. n \in 0..Len(outs) /\ n - 1 \in 0..Len(outs) /\ n \in Nat /\ n - 1 \in Nat
  OBVIOUS
<1>2. /\ Len(upto(n)) = n /\ \A i \in 1..n : upto(n)[i] = outs[i]
      /\ Len(upto(n - 1)) = n - 1 /\ \A i \in 1..n - 1 : upto(n - 1)[i] = outs[i]
  BY <1>1, Firsts
<1>3. \A i \in 1..Len(outs) : one(i) \in Seq(S)
  OBVIOUS
<1>4. PICK u : u = ss(n)
  OBVIOUS
<1>5. PICK v : v = ss(n - 1)
  OBVIOUS
<1>6. /\ OfAmount(upto(n), a) = FlattenSeq(u)
      /\ OfAmount(upto(n - 1), a) = FlattenSeq(v)
  BY <1>4, <1>5 DEF OfAmount
<1> HIDE DEF upto
<1>7. u = [m \in 1..n |-> one(m)] /\ v = [m \in 1..n - 1 |-> one(m)]
  BY <1>2, <1>4, <1>5
<1> HIDE DEF one
<1>8. u \in Seq(Seq(S)) /\ Len(u) = n /\ v \in Seq(Seq(S)) /\ Len(v) = n - 1
  BY <1>1, <1>3, <1>7
<1>9. (\A i \in 1..n - 1 : v[i] = u[i]) /\ u[n] = one(n) /\ one(n) \in Seq(S)
  BY <1>1, <1>3, <1>7
<1>10. Len(v) = 0 => v = <<>>
  BY <1>8
<1>11. FlattenSeq(u) = FlattenSeq(v) \o one(n)
  <2>1. Len(v) \in Nat /\ Len(u) = Len(v) + 1 /\ u[Len(u)] \in Seq(S) /\ u[Len(u)] = one(n)
    BY <1>1, <1>8, <1>9
  <2>2. \A i \in 1..Len(v) : v[i] = u[i]
    BY <1>8, <1>9
  <2>3. FlattenSeq(u) = FlattenSeq(v) \o u[Len(u)]
    BY <1>10, <2>1, <2>2, FlatAppend
  <2> QED BY <2>1, <2>3
<1> QED BY <1>6, <1>11 DEF one, upto

\* The outputs of an amount among all of them.
LEMMA OfAmountAll ==
  ASSUME NEW S, NEW outs \in Seq(S), NEW a
  PROVE  OfAmount(outs, a) = OfAmount(SubSeq(outs, 1, Len(outs)), a)
<1>1. SubSeq(outs, 1, Len(outs)) = outs
  OBVIOUS
<1> QED BY <1>1

\* Where an output is among those of its amount.
LEMMA OfAmountAt ==
  ASSUME NEW S, NEW outs \in Seq(S), NEW n \in 1..Len(outs)
  PROVE  LET a == outs[n].amount
             m == Len(OfAmount(SubSeq(outs, 1, n - 1), a))
         IN  m \in Nat /\ m < Len(OfAmount(outs, a)) /\ OfAmount(outs, a)[m + 1] = outs[n]
<1>1. PICK a : a = outs[n].amount
  OBVIOUS
<1>2. PICK N \in Nat : N = Len(outs)
  OBVIOUS
<1>3. PICK F : F = [k \in 0..N |-> OfAmount(SubSeq(outs, 1, k), a)]
  OBVIOUS
<1>4. \A k \in 0..N : SubSeq(outs, 1, k) \in Seq(S)
  BY <1>2, Firsts
<1>5. \A k \in 0..N : F[k] \in Seq(S)
  BY <1>3, <1>4, OfAmountTyped
<1>6. ASSUME NEW k \in 1..N
      PROVE  F[k] = F[k - 1] \o (IF outs[k].amount = a THEN <<outs[k]>> ELSE <<>>)
  <2>1. k \in 0..N /\ k - 1 \in 0..N
    OBVIOUS
  <2> QED BY <1>2, <1>3, <2>1, OfAmountNext
<1>7. ASSUME NEW k \in 1..N
      PROVE  \E x \in Seq(S) : F[k] = F[k - 1] \o x
  <2>1. (IF outs[k].amount = a THEN <<outs[k]>> ELSE <<>>) \in Seq(S)
    BY <1>2
  <2> QED BY <1>6, <2>1
<1>8. n \in 1..N /\ n - 1 \in 0..N /\ n \in 0..N /\ N \in 0..N /\ n <= N
  BY <1>2
<1>9. Begins(F[n], F[N])
  BY <1>5, <1>7, <1>8, GrowingBegins
<1>10. F[n] = F[n - 1] \o <<outs[n]>>
  BY <1>1, <1>6, <1>8
<1>11. PICK f \in Seq(S), g \in Seq(S) : f = F[n - 1] /\ g = F[N]
  BY <1>5, <1>8
<1>12. outs[n] \in S
  OBVIOUS
<1>13. Len(f \o <<outs[n]>>) = Len(f) + 1 /\ (f \o <<outs[n]>>)[Len(f) + 1] = outs[n] /\ Len(f) \in Nat
  BY <1>12
<1>14. Len(f) < Len(g) /\ g[Len(f) + 1] = outs[n]
  BY <1>9, <1>10, <1>11, <1>13 DEF Begins
<1>15. f = OfAmount(SubSeq(outs, 1, n - 1), a) /\ g = OfAmount(outs, a)
  BY <1>2, <1>3, <1>8, <1>11, OfAmountAll
<1> QED BY <1>1, <1>13, <1>14, <1>15

\* The outputs that the first j transactions of a block add to a stack.
LEMMA BlockStackFacts ==
  ASSUME NEW b \in Block, NEW a
  PROVE  /\ BlockStack(b, 0, a) = <<>>
         /\ \A j \in 0..Len(Txs[b]) : BlockStack(b, j, a) \in Seq(OutputSet)
         /\ \A j \in 1..Len(Txs[b]) :
              /\ OutputsOf(Txs[b][j], a) \in Seq(OutputSet)
              /\ BlockStack(b, j, a) = BlockStack(b, j - 1, a) \o OutputsOf(Txs[b][j], a)
<1>1. PICK N \in Nat : N = Len(Txs[b])
  BY TxShape
<1>2. \A j \in 1..N : OutputsOf(Txs[b][j], a) \in Seq(OutputSet)
  BY <1>1, TxShape, OfAmountTyped DEF OutputsOf
<1> DEFINE one(i) == OutputsOf(Txs[b][i], a)
           ss(j) == [i \in 1..j |-> one(i)]
<1>3. \A j \in 0..N : BlockStack(b, j, a) = FlattenSeq(ss(j))
  BY DEF BlockStack
<1> HIDE DEF one
<1>4. ASSUME NEW j \in 0..N
      PROVE  ss(j) \in Seq(Seq(OutputSet)) /\ Len(ss(j)) = j /\ (Len(ss(j)) = 0 => ss(j) = <<>>)
  <2>1. ss(j) \in [1..j -> Seq(OutputSet)]
    BY <1>2 DEF one
  <2>2. j \in Nat
    OBVIOUS
  <2> HIDE DEF ss
  <2>3. ss(j) \in Seq(Seq(OutputSet)) /\ Len(ss(j)) = j
    BY <2>1, <2>2
  <2> QED BY <2>3
<1>5. BlockStack(b, 0, a) = <<>>
  <2>1. 0 \in 0..N
    OBVIOUS
  <2> HIDE DEF ss
  <2>2. Len(ss(0)) = 0 /\ ss(0) = <<>>
    BY <1>4, <2>1
  <2> QED BY <1>3, <2>1, <2>2, FlatEmpty
<1>6. ASSUME NEW j \in 0..N
      PROVE  BlockStack(b, j, a) \in Seq(OutputSet)
  <2>1. \A i \in 1..j : ss(j)[i] \in Seq(OutputSet)
    BY <1>2 DEF one
  <2> HIDE DEF ss
  <2> QED BY <1>3, <1>4, <2>1, FlatTyped
<1>7. ASSUME NEW j \in 1..N
      PROVE  BlockStack(b, j, a) = BlockStack(b, j - 1, a) \o OutputsOf(Txs[b][j], a)
  <2>1. j \in 0..N /\ j - 1 \in 0..N
    OBVIOUS
  <2>2. (\A i \in 1..j - 1 : ss(j - 1)[i] = ss(j)[i]) /\ ss(j)[j] = one(j)
    OBVIOUS
  <2>3. one(j) \in Seq(OutputSet)
    BY <1>2 DEF one
  <2> HIDE DEF ss
  <2>4. Len(ss(j - 1)) = j - 1 /\ Len(ss(j)) = j /\ (Len(ss(j - 1)) = 0 => ss(j - 1) = <<>>)
    BY <1>4, <2>1
  <2>5. PICK u, v : u = ss(j) /\ v = ss(j - 1)
    OBVIOUS
  <2>6. /\ Len(v) \in Nat /\ Len(u) = Len(v) + 1 /\ u[Len(u)] \in Seq(OutputSet) /\ u[Len(u)] = one(j)
        /\ Len(v) = 0 => v = <<>>
        /\ \A i \in 1..Len(v) : v[i] = u[i]
    BY <2>2, <2>3, <2>4, <2>5
  <2>7. FlattenSeq(u) = FlattenSeq(v) \o u[Len(u)]
    BY <2>6, FlatAppend
  <2> QED BY <1>3, <2>1, <2>5, <2>6, <2>7 DEF one
<1> QED BY <1>1, <1>2, <1>5, <1>6, <1>7

\* Outputs with the height of their block.
LEMMA StampedFacts ==
  ASSUME NEW outs \in Seq(OutputSet), NEW h \in Nat
  PROVE  /\ Stamped(outs, h) \in Seq(StampSet) /\ Len(Stamped(outs, h)) = Len(outs)
         /\ \A n \in 1..Len(outs) : Stamped(outs, h)[n] = Stamp(outs[n], h)
<1>1. PICK N \in Nat : N = Len(outs)
  OBVIOUS
<1>2. Stamped(outs, h) = [n \in 1..N |-> Stamp(outs[n], h)]
  BY <1>1 DEF Stamped, Stamp
<1>3. \A n \in 1..N : Stamp(outs[n], h) \in StampSet
  BY <1>1 DEF StampSet
<1> QED BY <1>1, <1>2, <1>3

\* What a block adds to the stack of an amount.
BlockPart(b, a) == Stamped(BlockStack(b, Len(Txs[b]), a), Height[b])

\* What a block pushes on the stack of an amount.
LEMMA BlockPartTyped ==
  ASSUME NEW b \in Block, NEW a
  PROVE  BlockPart(b, a) \in Seq(StampSet)
<1>1. Len(Txs[b]) \in 0..Len(Txs[b]) /\ Height[b] \in Nat
  BY TxShape, BlockAssumption
<1>2. BlockStack(b, Len(Txs[b]), a) \in Seq(OutputSet)
  BY <1>1, BlockStackFacts
<1> QED BY <1>1, <1>2, StampedFacts DEF BlockPart

\* The stack of a chain, the part of each block on the one below.
LEMMA StackTyped ==
  ASSUME NEW c \in Seq(Block), NEW a
  PROVE  Stack(c, a) \in Seq(StampSet) /\ (c = <<>> => Stack(c, a) = <<>>)
<1>1. PICK ss : ss = [i \in 1..Len(c) |-> BlockPart(c[i], a)]
  OBVIOUS
<1>2. Stack(c, a) = FlattenSeq(ss)
  BY <1>1 DEF Stack, BlockPart
<1>3. \A i \in 1..Len(c) : BlockPart(c[i], a) \in Seq(StampSet)
  BY BlockPartTyped
<1>4. ss \in Seq(Seq(StampSet)) /\ Len(ss) = Len(c) /\ Len(c) \in Nat
  BY <1>1, <1>3
<1>5. \A i \in 1..Len(ss) : ss[i] \in Seq(StampSet)
  BY <1>4
<1>6. Len(ss) = 0 => ss = <<>>
  BY <1>4
<1>7. FlattenSeq(ss) \in Seq(StampSet)
  BY <1>4, <1>5, <1>6, FlatTyped
<1>8. c = <<>> => Len(ss) = 0
  BY <1>4
<1> QED BY <1>2, <1>6, <1>7, <1>8, FlatEmpty

\* The stack of a chain and one block more.
LEMMA StackAppend ==
  ASSUME NEW c \in Seq(Block), NEW b \in Block, NEW a
  PROVE  Stack(Append(c, b), a) = Stack(c, a) \o BlockPart(b, a)
<1>0. Append(c, b) \in Seq(Block) /\ Len(c) \in Nat
  OBVIOUS
<1>1. PICK d \in Seq(Block), n \in Nat : d = Append(c, b) /\ n = Len(c)
  BY <1>0
<1>2. Len(d) = n + 1 /\ d[n + 1] = b /\ \A i \in 1..n : d[i] = c[i]
  BY <1>1
<1>3. PICK ss : ss = [i \in 1..Len(c) |-> BlockPart(c[i], a)]
  OBVIOUS
<1>4. PICK tt : tt = [i \in 1..Len(d) |-> BlockPart(d[i], a)]
  OBVIOUS
<1>5. Stack(c, a) = FlattenSeq(ss) /\ Stack(d, a) = FlattenSeq(tt)
  BY <1>3, <1>4 DEF Stack, BlockPart
<1>6. (\A i \in 1..Len(c) : BlockPart(c[i], a) \in Seq(StampSet)) /\ BlockPart(b, a) \in Seq(StampSet)
  BY BlockPartTyped
<1>7. ss \in Seq(Seq(StampSet)) /\ Len(ss) = n
  BY <1>1, <1>3, <1>6
<1>8. tt \in Seq(Seq(StampSet)) /\ Len(tt) = n + 1
  <2>1. \A i \in 1..n + 1 : BlockPart(d[i], a) \in Seq(StampSet)
    BY <1>1, <1>2, BlockPartTyped
  <2> QED BY <1>2, <1>4, <2>1
<1>9. tt[n + 1] = BlockPart(b, a) /\ \A i \in 1..n : ss[i] = tt[i]
  BY <1>1, <1>2, <1>3, <1>4
<1>10. /\ Len(ss) \in Nat /\ Len(tt) = Len(ss) + 1 /\ (Len(ss) = 0 => ss = <<>>)
       /\ \A i \in 1..Len(ss) : ss[i] = tt[i]
       /\ tt[Len(tt)] \in Seq(StampSet) /\ tt[Len(tt)] = BlockPart(b, a)
  BY <1>6, <1>7, <1>8, <1>9
<1>11. FlattenSeq(tt) = FlattenSeq(ss) \o tt[Len(tt)]
  BY <1>10, FlatAppend
<1> QED BY <1>1, <1>5, <1>10, <1>11

\* The blocks up to the i-th one.
Upto(c, i) == SubSeq(c, 1, i)

\* The first blocks of a chain.
LEMMA UptoFacts ==
  ASSUME NEW c \in Seq(Block), NEW i \in 0..Len(c)
  PROVE  /\ Upto(c, i) \in Seq(Block) /\ Len(Upto(c, i)) = i
         /\ \A k \in 1..i : Upto(c, i)[k] = c[k]
BY Firsts DEF Upto

\* The first blocks and one more.
LEMMA UptoNext ==
  ASSUME NEW c \in Seq(Block), NEW i \in 1..Len(c)
  PROVE  Upto(c, i) = Append(Upto(c, i - 1), c[i]) /\ c[i] \in Block
<1>1. i \in 0..Len(c) /\ i - 1 \in 0..Len(c) /\ i - 1 \in Nat /\ i \in Nat
  OBVIOUS
<1>2. PICK u \in Seq(Block), v \in Seq(Block) : u = Upto(c, i) /\ v = Upto(c, i - 1)
  BY <1>1, UptoFacts
<1>3. Len(u) = i /\ Len(v) = i - 1 /\ (\A k \in 1..i : u[k] = c[k]) /\ \A k \in 1..i - 1 : v[k] = c[k]
  BY <1>1, <1>2, UptoFacts
<1>4. PICK x \in Block : x = c[i]
  OBVIOUS
<1>5. PICK w \in Seq(Block) : w = Append(v, x)
  <2>1. Append(v, x) \in Seq(Block)
    BY <1>4
  <2> QED BY <2>1
<1>6. Len(w) = i /\ \A k \in 1..i : w[k] = c[k]
  BY <1>1, <1>3, <1>4, <1>5
<1>7. u = w
  BY <1>1, <1>3, <1>6, SeqEqual
<1> QED BY <1>2, <1>4, <1>5, <1>7

\* All blocks of a chain.
LEMMA UptoAll ==
  ASSUME NEW c \in Seq(Block)
  PROVE  Upto(c, Len(c)) = c
BY DEF Upto

\* The stack of a chain begins with that of its first blocks.
LEMMA StackBegins ==
  ASSUME NEW c \in Seq(Block), NEW i \in 0..Len(c), NEW a
  PROVE  Begins(Stack(Upto(c, i), a), Stack(c, a))
<1>1. PICK N \in Nat : N = Len(c)
  OBVIOUS
<1>2. PICK F : F = [k \in 0..N |-> Stack(Upto(c, k), a)]
  OBVIOUS
<1>3. \A k \in 0..N : F[k] \in Seq(StampSet)
  BY <1>1, <1>2, UptoFacts, StackTyped
<1>4. ASSUME NEW k \in 1..N
      PROVE  \E x \in Seq(StampSet) : F[k] = F[k - 1] \o x
  <2>1. k \in 0..N /\ k - 1 \in 0..N /\ c[k] \in Block
    BY <1>1
  <2>2. Upto(c, k) = Append(Upto(c, k - 1), c[k]) /\ Upto(c, k - 1) \in Seq(Block)
    BY <1>1, <2>1, UptoNext, UptoFacts
  <2>3. Stack(Upto(c, k), a) = Stack(Upto(c, k - 1), a) \o BlockPart(c[k], a)
    BY <2>1, <2>2, StackAppend
  <2>4. BlockPart(c[k], a) \in Seq(StampSet)
    BY <2>1, BlockPartTyped
  <2> QED BY <1>2, <2>1, <2>3, <2>4
<1>5. i \in 0..N /\ N \in 0..N /\ i <= N
  BY <1>1
<1>6. Begins(F[i], F[N])
  BY <1>3, <1>4, <1>5, GrowingBegins
<1> QED BY <1>1, <1>2, <1>5, <1>6, UptoAll

-------------------------------------------------------------------------------
(***************************************************************************)
(* Looking at the tables.                                                  *)
(***************************************************************************)
IsIndex(f, in, i) ==
  f = [k \in 1..i |-> IF k = 1 THEN in.ring[1] ELSE f[k - 1] + in.ring[k]]

IndexUpTo(f, in, n) ==
  /\ \A k \in 1..n : f[k] \in Nat
  /\ \A k \in 1..n : f[k] = IF k = 1 THEN in.ring[1] ELSE f[k - 1] + in.ring[k]

\* The recursive function of Absolute exists.
LEMMA IndexExists ==
  ASSUME NEW in, in.ring \in Seq(Nat), NEW i \in Ring(in)
  PROVE  \E f : IsIndex(f, in, i) /\ IndexUpTo(f, in, i)
<1>1. PICK N \in Nat, r \in Seq(Nat) : r = in.ring /\ N = Len(r) /\ i \in 1..N
  BY DEF Ring
<1> DEFINE T == {n \in Nat : n <= N => \E f : IndexUpTo(f, in, n)}
<1>2. 0 \in T
  <2>1. IndexUpTo(r, in, 0)
    BY DEF IndexUpTo
  <2> QED BY <2>1
<1>3. \A n \in Nat : n \in T => n + 1 \in T
  <2> SUFFICES ASSUME NEW n \in Nat, n \in T, n + 1 <= N PROVE \E g : IndexUpTo(g, in, n + 1)
    OBVIOUS
  <2>1. PICK f : IndexUpTo(f, in, n)
    BY <1>1
  <2>2. PICK m \in 1..N : m = n + 1
    OBVIOUS
  <2>3. PICK g : g = [k \in 1..m |-> IF k = 1 THEN r[1] ELSE f[k - 1] + r[k]]
    OBVIOUS
  <2>4. \A k \in 1..n : g[k] = f[k]
    BY <1>1, <2>1, <2>2, <2>3 DEF IndexUpTo
  <2>5. ASSUME NEW k \in 1..m
        PROVE  g[k] \in Nat /\ g[k] = IF k = 1 THEN r[1] ELSE g[k - 1] + r[k]
    <3>1. r[k] \in Nat
      BY <1>1, <2>2
    <3>2. CASE k = 1
      BY <2>3, <3>1, <3>2
    <3>3. CASE k # 1
      <4>1. k - 1 \in 1..n
        BY <2>2, <3>3
      <4>2. g[k - 1] = f[k - 1] /\ f[k - 1] \in Nat
        BY <2>1, <2>4, <4>1 DEF IndexUpTo
      <4>3. PICK x \in Nat, y \in Nat : x = f[k - 1] /\ y = r[k]
        BY <3>1, <4>2
      <4>4. g[k] = x + y /\ g[k - 1] = x
        BY <2>3, <3>3, <4>2, <4>3
      <4> QED BY <3>3, <4>3, <4>4
    <3> QED BY <3>2, <3>3
  <2> QED BY <1>1, <2>2, <2>5 DEF IndexUpTo
<1>4. i \in T
  <2> HIDE DEF T
  <2>1. i \in Nat
    BY <1>1
  <2> QED BY <1>2, <1>3, <2>1, Induction
<1>5. PICK f : IndexUpTo(f, in, i)
  BY <1>1, <1>4
<1>6. PICK g : g = [k \in 1..i |-> f[k]]
  OBVIOUS
<1>7. ASSUME NEW k \in 1..i
      PROVE  g[k] \in Nat /\ g[k] = IF k = 1 THEN in.ring[1] ELSE g[k - 1] + in.ring[k]
  <2>1. k # 1 => k - 1 \in 1..i
    BY <1>1
  <2> QED BY <1>5, <1>6, <2>1 DEF IndexUpTo
<1>8. PICK M : M = 1..i
  OBVIOUS
<1>9. g = [k \in M |-> IF k = 1 THEN in.ring[1] ELSE g[k - 1] + in.ring[k]]
  BY <1>6, <1>7, <1>8
<1> QED BY <1>7, <1>8, <1>9 DEF IsIndex, IndexUpTo

\* An absolute index is a number, and the first one that of the ring.
LEMMA AbsoluteIs ==
  ASSUME NEW in, in.ring \in Seq(Nat), NEW i \in Ring(in)
  PROVE  Absolute(in, i) \in Nat /\ (i = 1 => Absolute(in, i) = in.ring[1])
<1>1. PICK f : f = CHOOSE g : IsIndex(g, in, i)
  OBVIOUS
<1>2. IsIndex(f, in, i)
  BY <1>1, IndexExists
<1>3. Absolute(in, i) = f[i]
  BY <1>1 DEF Absolute, IsIndex
<1>4. PICK g : IsIndex(g, in, i) /\ IndexUpTo(g, in, i)
  BY IndexExists
<1>5. i \in 1..i /\ i \in Nat
  BY DEF Ring
<1> DEFINE T == {n \in Nat : n + 1 \in 1..i => f[n + 1] = g[n + 1]}
<1>0. /\ \A k \in 1..i : f[k] = IF k = 1 THEN in.ring[1] ELSE f[k - 1] + in.ring[k]
      /\ \A k \in 1..i : g[k] = IF k = 1 THEN in.ring[1] ELSE g[k - 1] + in.ring[k]
  BY <1>2, <1>4 DEF IsIndex
<1>6. 0 \in T
  BY <1>0
<1>7. \A n \in Nat : n \in T => n + 1 \in T
  <2> SUFFICES ASSUME NEW n \in Nat, n \in T, (n + 1) + 1 \in 1..i
               PROVE  f[(n + 1) + 1] = g[(n + 1) + 1]
    OBVIOUS
  <2>1. PICK k \in Nat : k = (n + 1) + 1
    OBVIOUS
  <2>2. k \in 1..i /\ k # 1 /\ k - 1 = n + 1 /\ n + 1 \in 1..i
    BY <1>5, <2>1
  <2>3. f[k - 1] = g[k - 1]
    BY <2>2
  <2>4. f[k] = g[k]
    BY <1>0, <2>2, <2>3
  <2> QED BY <2>1, <2>4
<1>8. i - 1 \in Nat /\ (i - 1) + 1 = i
  BY <1>5
<1>9. i - 1 \in T
  <2> HIDE DEF T
  <2> QED BY <1>6, <1>7, <1>8, Induction
<1>10. f[i] = g[i]
  BY <1>5, <1>8, <1>9
<1> QED BY <1>3, <1>4, <1>5, <1>10, <1>0 DEF IndexUpTo

\* Stacks of stamped outputs.
Stacks == [Amount -> Seq(StampSet)]

\* The outputs of an amount, by their global indices.
LEMMA KeysOf ==
  ASSUME NEW s, NEW stack \in Stacks, NEW S, StacksOf(s, stack, S), NEW a \in Amount
  PROVE  /\ \A g : <<a, g>> \in DOMAIN s.outputs <=> g \in Nat /\ g < Len(stack[a])
         /\ \A g \in Nat : g < Len(stack[a]) =>
              /\ stack[a][g + 1] \in StampSet
              /\ s.outputs[<<a, g>>] =
                   [key |-> stack[a][g + 1].key, unlock_time |-> stack[a][g + 1].unlock_time,
                    height |-> stack[a][g + 1].height, spent |-> <<a, g>> \in S]
<1>1. PICK N \in Nat : N = Len(stack[a]) /\ stack[a] \in Seq(StampSet)
  BY DEF Stacks
<1>2. ASSUME NEW g, <<a, g>> \in DOMAIN s.outputs
      PROVE  g \in Nat /\ g < N
  <2>1. PICK x \in Amount : <<a, g>> \in {<<x, n - 1>> : n \in 1..Len(stack[x])}
    BY <1>2 DEF StacksOf
  <2>2. PICK n \in 1..Len(stack[x]) : <<a, g>> = <<x, n - 1>>
    BY <2>1
  <2>3. a = x /\ g = n - 1
    BY <2>2
  <2> QED BY <1>1, <2>2, <2>3
<1>3. ASSUME NEW g \in Nat, g < N
      PROVE  <<a, g>> \in DOMAIN s.outputs
  <2>1. g + 1 \in 1..N /\ (g + 1) - 1 = g
    BY <1>3
  <2>2. <<a, g>> \in {<<a, n - 1>> : n \in 1..Len(stack[a])}
    BY <1>1, <2>1
  <2> QED BY <2>2 DEF StacksOf
<1>4. ASSUME NEW g \in Nat, g < N
      PROVE  /\ stack[a][g + 1] \in StampSet
             /\ s.outputs[<<a, g>>] =
                  [key |-> stack[a][g + 1].key, unlock_time |-> stack[a][g + 1].unlock_time,
                   height |-> stack[a][g + 1].height, spent |-> <<a, g>> \in S]
  <2>1. PICK n \in 1..N : n = g + 1 /\ n - 1 = g
    BY <1>4
  <2>2. s.outputs[<<a, n - 1>>] =
         [key |-> stack[a][n].key, unlock_time |-> stack[a][n].unlock_time,
          height |-> stack[a][n].height, spent |-> <<a, n - 1>> \in S]
    BY <1>1 DEF StacksOf
  <2>3. stack[a][n] \in StampSet
    BY <1>1
  <2> QED BY <2>1, <2>2, <2>3
<1> QED BY <1>1, <1>2, <1>3, <1>4

\* The next index of an amount is the height of its stack, cached or looked up.
LEMMA NextIndex ==
  ASSUME NEW s, NEW stack \in Stacks, NEW S, StacksOf(s, stack, S), NEW a \in Amount
  PROVE  next_global_index_for_amount(s, a) = Len(stack[a])
<1>1. PICK N \in Nat : N = Len(stack[a])
  BY DEF Stacks
<1>2. s.next_gi[a] \in {Unknown, N}
  BY <1>1 DEF StacksOf
<1>3. CASE s.next_gi[a] # Unknown
  BY <1>1, <1>2, <1>3 DEF next_global_index_for_amount
<1>4. CASE s.next_gi[a] = Unknown
  <2> DEFINE M == {-1} \cup {k[2] : k \in {x \in DOMAIN s.outputs : x[1] = a}}
  <2>1. next_global_index_for_amount(s, a) = Max(M) + 1
    BY <1>4 DEF next_global_index_for_amount
  <2>2. ASSUME NEW k \in DOMAIN s.outputs, k[1] = a
        PROVE  k[2] \in Nat /\ k[2] < N
    <3>1. PICK x \in Amount : k \in {<<x, n - 1>> : n \in 1..Len(stack[x])}
      BY <2>2 DEF StacksOf
    <3>2. PICK n \in 1..Len(stack[x]) : k = <<x, n - 1>>
      BY <3>1
    <3>3. x = a /\ k[2] = n - 1
      BY <2>2, <3>2
    <3> QED BY <1>1, <3>2, <3>3
  <2>3. M \subseteq {-1} \cup 0..N - 1
    <3> SUFFICES ASSUME NEW m \in M, m # -1 PROVE m \in 0..N - 1
      OBVIOUS
    <3>1. PICK k \in DOMAIN s.outputs : k[1] = a /\ m = k[2]
      OBVIOUS
    <3> QED BY <2>2, <3>1
  <2>4. N - 1 \in M
    <3>1. CASE N = 0
      BY <3>1
    <3>2. CASE N # 0
      <4>1. PICK k : k = <<a, N - 1>>
        OBVIOUS
      <4>2. N - 1 \in Nat /\ N - 1 < Len(stack[a])
        BY <1>1, <3>2
      <4>4. <<a, N - 1>> \in DOMAIN s.outputs
        BY <4>2, KeysOf
      <4>3. k[1] = a /\ k[2] = N - 1
        BY <4>1
      <4> QED BY <4>1, <4>3, <4>4
    <3> QED BY <3>1, <3>2
  <2> HIDE DEF M
  <2>5. N - 1 \in Int /\ \A m \in M : m \in Int /\ N - 1 >= m
    BY <2>3
  <2>6. PICK m : m = Max(M)
    OBVIOUS
  <2>7. m \in M /\ \A y \in M : m >= y
    BY <2>4, <2>5, <2>6 DEF Max
  <2>8. m = N - 1
    BY <2>4, <2>5, <2>7
  <2> QED BY <1>1, <2>1, <2>6, <2>8
<1> QED BY <1>3, <1>4

Slot(stack, a, g, S) ==
  [key |-> stack[a][g + 1].key, unlock_time |-> stack[a][g + 1].unlock_time,
   height |-> stack[a][g + 1].height, spent |-> <<a, g>> \in S]

\* What is stored for an output.
LEMMA SlotOf ==
  ASSUME NEW s, NEW stack \in Stacks, NEW S, StacksOf(s, stack, S), NEW a \in Amount,
         NEW g \in Nat, g < Len(stack[a])
  PROVE  s.outputs[<<a, g>>] = Slot(stack, a, g, S)
<1>1. PICK n \in 1..Len(stack[a]) : n = g + 1 /\ n - 1 = g
  <2>1. g + 1 \in 1..Len(stack[a]) /\ (g + 1) - 1 = g
    BY DEF Stacks
  <2> QED BY <2>1
<1>2. s.outputs[<<a, n - 1>>] =
        [key |-> stack[a][n].key, unlock_time |-> stack[a][n].unlock_time,
         height |-> stack[a][n].height, spent |-> <<a, n - 1>> \in S]
  BY DEF StacksOf
<1> QED BY <1>1, <1>2 DEF Slot

-------------------------------------------------------------------------------
(***************************************************************************)
(* The verdicts.                                                           *)
(***************************************************************************)
StacksIn(c) == [a \in Amount |-> Stack(c, a)]
KeyImagesIn(c) == {x.in.key_image : x \in AllInputs(c)}

\* The tables show what the verdicts depend on.
Shows(s, c) == DOMAIN s.keyimages = KeyImagesIn(c) /\ \E S : StacksOf(s, StacksIn(c), S)

GoodInput(c, in, height, time) ==
  /\ in.key_image \notin KeyImagesIn(c)
  /\ in.ring # <<>>
  /\ \A i \in Ring(in) :
       /\ Absolute(in, i) < Len(Stack(c, in.amount))
       /\ Unlocked(Stack(c, in.amount)[Absolute(in, i) + 1].unlock_time, height, time)
       /\ Stack(c, in.amount)[Absolute(in, i) + 1].key = in.keys[i]

\* A block is good when its inputs are and differ in their key images.
LEMMA GoodIs ==
  ASSUME NEW c, NEW b
  PROVE  Good(c, b) <=> /\ ~SharesKeyimage(b)
                        /\ \A in \in BlockInputs(b) : GoodInput(c, in, Height[b], Timestamp[b])
BY DEF Good, GoodInput, KeyImagesIn

\* The type of the stacks of a chain.
LEMMA StacksInTyped ==
  ASSUME NEW c \in Seq(Block)
  PROVE  StacksIn(c) \in Stacks /\ \A a \in Amount : StacksIn(c)[a] = Stack(c, a)
BY StackTyped DEF Stacks, StacksIn

\* The types of the inputs of a block.
LEMMA InputShape ==
  ASSUME NEW b \in Block, NEW in \in BlockInputs(b)
  PROVE  in.amount \in Amount /\ in.ring \in Seq(Nat)
<1>1. PICK t \in BlockTxs(b) : in \in KeyInputs(t)
  BY DEF BlockInputs
<1> QED BY <1>1, TransactionAssumption

\* A ring sees in the tables what the stacks of the chain hold.
LEMMA RingView ==
  ASSUME NEW s, NEW c \in Seq(Block), Shows(s, c), NEW b \in Block, NEW in \in BlockInputs(b),
         NEW i \in Ring(in)
  PROVE  LET g == Absolute(in, i)
             k == <<in.amount, g>>
         IN  /\ k \in DOMAIN s.outputs <=> g < Len(Stack(c, in.amount))
             /\ g < Len(Stack(c, in.amount)) =>
                  /\ s.outputs[k].unlock_time = Stack(c, in.amount)[g + 1].unlock_time
                  /\ s.outputs[k].key = Stack(c, in.amount)[g + 1].key
             /\ next_global_index_for_amount(s, in.amount) = Len(Stack(c, in.amount))
<1>1. PICK S : StacksOf(s, StacksIn(c), S)
  BY DEF Shows
<1>2. PICK a \in Amount, g \in Nat : a = in.amount /\ g = Absolute(in, i)
  BY InputShape, AbsoluteIs
<1>3. PICK st \in Stacks : st = StacksIn(c) /\ st[a] = Stack(c, a)
  BY StacksInTyped
<1>4. StacksOf(s, st, S)
  BY <1>1, <1>3
<1>5. <<a, g>> \in DOMAIN s.outputs <=> g < Len(st[a])
  BY <1>4, KeysOf
<1>6. ASSUME g < Len(st[a])
      PROVE  /\ s.outputs[<<a, g>>].unlock_time = st[a][g + 1].unlock_time
             /\ s.outputs[<<a, g>>].key = st[a][g + 1].key
  <2>1. s.outputs[<<a, g>>] = Slot(st, a, g, S)
    BY <1>4, <1>6, SlotOf
  <2> QED BY <2>1 DEF Slot
<1>7. next_global_index_for_amount(s, a) = Len(st[a])
  BY <1>4, NextIndex
<1> QED BY <1>2, <1>3, <1>5, <1>6, <1>7

\* The ring checker accepts the blocks of good inputs,
LEMMA CheckerAgrees ==
  ASSUME NEW s, NEW c \in Seq(Block), Shows(s, c), NEW b \in Block
  PROVE  Accepts(s, b) <=> \A in \in BlockInputs(b) : GoodInput(c, in, Height[b], Timestamp[b])
<1> DEFINE fine(in) ==
      /\ in.key_image \notin DOMAIN s.keyimages
      /\ in.ring # <<>>
      /\ \A i \in Ring(in) :
           LET k == <<in.amount, Absolute(in, i)>>
           IN  /\ k \in DOMAIN s.outputs
               /\ Unlocked(s.outputs[k].unlock_time, Height[b], Timestamp[b])
               /\ s.outputs[k].key = in.keys[i]
<1>1. Accepts(s, b) <=> \A in \in BlockInputs(b) : fine(in)
  BY DEF Accepts, start_work_get_error, signatures_valid
<1>2. ASSUME NEW in \in BlockInputs(b)
      PROVE  fine(in) <=> GoodInput(c, in, Height[b], Timestamp[b])
  <2>1. DOMAIN s.keyimages = KeyImagesIn(c)
    BY DEF Shows
  <2>2. ASSUME NEW i \in Ring(in)
        PROVE  LET k == <<in.amount, Absolute(in, i)>>
               IN  /\ k \in DOMAIN s.outputs
                   /\ Unlocked(s.outputs[k].unlock_time, Height[b], Timestamp[b])
                   /\ s.outputs[k].key = in.keys[i]
                 <=>
                   /\ Absolute(in, i) < Len(Stack(c, in.amount))
                   /\ Unlocked(Stack(c, in.amount)[Absolute(in, i) + 1].unlock_time, Height[b], Timestamp[b])
                   /\ Stack(c, in.amount)[Absolute(in, i) + 1].key = in.keys[i]
    <3>1. PICK g, st, k : g = Absolute(in, i) /\ st = Stack(c, in.amount) /\ k = <<in.amount, g>>
      OBVIOUS
    <3>2. (k \in DOMAIN s.outputs <=> g < Len(st)) /\ (g < Len(st) =>
            s.outputs[k].unlock_time = st[g + 1].unlock_time /\ s.outputs[k].key = st[g + 1].key)
      BY <3>1, RingView
    <3> QED BY <3>1, <3>2
  <2> QED BY <2>1, <2>2 DEF GoodInput
<1> QED BY <1>1, <1>2

\* and the memory pool takes the good transactions.
LEMMA PoolTakes ==
  ASSUME NEW s, NEW c \in Seq(Block), Shows(s, c), NEW b \in Block, NEW t \in BlockTxs(b), NEW h, NEW w
  PROVE  ~PoolRefuses(s, t, h, w) <=> \A in \in KeyInputs(t) : GoodInput(c, in, h, w)
<1> DEFINE fine(in) ==
      /\ in.key_image \notin DOMAIN s.keyimages
      /\ in.ring # <<>>
      /\ \A i \in Ring(in) :
           LET k == <<in.amount, Absolute(in, i)>>
           IN  /\ Absolute(in, i) < next_global_index_for_amount(s, in.amount)
               /\ Unlocked(s.outputs[k].unlock_time, h, w)
               /\ s.outputs[k].key = in.keys[i]
<1>1. ~PoolRefuses(s, t, h, w) <=> \A in \in KeyInputs(t) : fine(in)
  BY DEF PoolRefuses
<1>2. ASSUME NEW in \in KeyInputs(t)
      PROVE  fine(in) <=> GoodInput(c, in, h, w)
  <2>0. in \in BlockInputs(b)
    BY DEF BlockInputs
  <2>1. DOMAIN s.keyimages = KeyImagesIn(c)
    BY DEF Shows
  <2>2. ASSUME NEW i \in Ring(in)
        PROVE  LET k == <<in.amount, Absolute(in, i)>>
               IN  /\ Absolute(in, i) < next_global_index_for_amount(s, in.amount)
                   /\ Unlocked(s.outputs[k].unlock_time, h, w)
                   /\ s.outputs[k].key = in.keys[i]
                 <=>
                   /\ Absolute(in, i) < Len(Stack(c, in.amount))
                   /\ Unlocked(Stack(c, in.amount)[Absolute(in, i) + 1].unlock_time, h, w)
                   /\ Stack(c, in.amount)[Absolute(in, i) + 1].key = in.keys[i]
    <3>1. PICK g, st, k : g = Absolute(in, i) /\ st = Stack(c, in.amount) /\ k = <<in.amount, g>>
      OBVIOUS
    <3>2. /\ next_global_index_for_amount(s, in.amount) = Len(st)
          /\ g < Len(st) =>
               s.outputs[k].unlock_time = st[g + 1].unlock_time /\ s.outputs[k].key = st[g + 1].key
      BY <2>0, <3>1, RingView
    <3> QED BY <3>1, <3>2
  <2> QED BY <2>1, <2>2 DEF GoodInput
<1> QED BY <1>1, <1>2

\* They agree with one clock, since base transactions have no inputs.
LEMMA PoolAgrees ==
  ASSUME NEW s, NEW c \in Seq(Block), Shows(s, c), NEW b \in Block \ {Genesis},
         Len(c) = Height[b]
  PROVE  (\A i \in 2..Len(Txs[b]) : ~PoolRefuses(s, Txs[b][i], Len(c), Timestamp[b])) <=> Accepts(s, b)
<1>1. Len(Txs[b]) \in Nat \ {0}
  BY TxShape
<1>2. \A i \in 1..Len(Txs[b]) : Txs[b][i] \in BlockTxs(b)
  BY DEF BlockTxs
<1>3. KeyInputs(Txs[b][1]) = {}
  <2>1. Txs[b][1].inputs = <<>>
    BY <1>1, TransactionAssumption
  <2> QED BY <2>1 DEF KeyInputs
<1>4. \A i \in 2..Len(Txs[b]) : ~PoolRefuses(s, Txs[b][i], Len(c), Timestamp[b]) <=>
        \A in \in KeyInputs(Txs[b][i]) : GoodInput(c, in, Height[b], Timestamp[b])
  BY <1>1, <1>2, PoolTakes
<1>5. \A in : in \in BlockInputs(b) <=> \E i \in 2..Len(Txs[b]) : in \in KeyInputs(Txs[b][i])
  <2>1. ASSUME NEW in, in \in BlockInputs(b)
        PROVE  \E i \in 2..Len(Txs[b]) : in \in KeyInputs(Txs[b][i])
    <3>1. PICK i \in 1..Len(Txs[b]) : in \in KeyInputs(Txs[b][i])
      BY <2>1 DEF BlockInputs, BlockTxs
    <3>2. i # 1
      BY <1>3, <3>1
    <3>3. i \in 2..Len(Txs[b])
      BY <1>1, <3>2
    <3> QED BY <3>1, <3>3
  <2>2. ASSUME NEW i \in 2..Len(Txs[b]), NEW in \in KeyInputs(Txs[b][i])
        PROVE  in \in BlockInputs(b)
    <3>1. i \in 1..Len(Txs[b])
      BY <1>1
    <3> QED BY <1>2, <3>1 DEF BlockInputs
  <2> QED BY <2>1, <2>2
<1>6. Accepts(s, b) <=> \A in \in BlockInputs(b) : GoodInput(c, in, Height[b], Timestamp[b])
  BY CheckerAgrees
<1> QED BY <1>4, <1>5, <1>6

\* The clock of the pool matters only where the two clocks differ.
LEMMA PoolClock ==
  ASSUME NEW s, NEW c \in Seq(Block), Shows(s, c), NEW b \in Block \ {Genesis},
         Len(c) = Height[b], ~ClocksDiffer(s, b), NEW i \in 2..Len(Txs[b])
  PROVE  PoolRefuses(s, Txs[b][i], Len(c), Timestamp[b])
           <=> PoolRefuses(s, Txs[b][i], Len(c), Timestamp[Parent[b]])
<1>1. PICK t \in BlockTxs(b) : t = Txs[b][i]
  BY TxShape DEF BlockTxs
<1>2. ASSUME NEW in \in KeyInputs(t)
      PROVE  GoodInput(c, in, Len(c), Timestamp[b]) <=> GoodInput(c, in, Len(c), Timestamp[Parent[b]])
  <2>1. in \in BlockInputs(b)
    BY DEF BlockInputs
  <2>2. ASSUME NEW p \in Ring(in), Absolute(in, p) < Len(Stack(c, in.amount))
        PROVE  LET u == Stack(c, in.amount)[Absolute(in, p) + 1].unlock_time
               IN  Unlocked(u, Len(c), Timestamp[b]) <=> Unlocked(u, Len(c), Timestamp[Parent[b]])
    <3>1. PICK k, o, u : /\ k = <<in.amount, Absolute(in, p)>> /\ o = s.outputs[k]
                         /\ u = Stack(c, in.amount)[Absolute(in, p) + 1].unlock_time
      OBVIOUS
    <3>2. k \in DOMAIN s.outputs /\ o.unlock_time = u
      BY <2>1, <2>2, <3>1, RingView
    <3>3. Unlocked(o.unlock_time, Height[b], Timestamp[b])
            = Unlocked(o.unlock_time, Height[b], Timestamp[Parent[b]])
      BY <2>1, <3>1, <3>2 DEF ClocksDiffer
    <3> QED BY <3>1, <3>2, <3>3
  <2> QED BY <2>2 DEF GoodInput
<1> QED BY <1>1, <1>2, PoolTakes

\* What the first half of the ring checker's work looks at, and what the second.
Reaches(c, b) ==
  \A in \in BlockInputs(b) :
    /\ in.key_image \notin KeyImagesIn(c)
    /\ in.ring # <<>>
    /\ \A i \in Ring(in) :
         /\ Absolute(in, i) < Len(Stack(c, in.amount))
         /\ Unlocked(Stack(c, in.amount)[Absolute(in, i) + 1].unlock_time, Height[b], Timestamp[b])

Signed(c, b) ==
  \A in \in BlockInputs(b) : \A i \in Ring(in) :
    Stack(c, in.amount)[Absolute(in, i) + 1].key = in.keys[i]

AnswerOn(c, b) ==
  IF check_sigs(b) /\ ~Reaches(c, b) THEN "refuses"
  ELSE IF SharesKeyimage(b) THEN "throws"
  ELSE IF check_sigs(b) /\ ~Signed(c, b) THEN "refuses"
  ELSE "applies"

\* What redo_block answers is read from the blocks of the chain.
LEMMA AnswerIs ==
  ASSUME NEW s, NEW c \in Seq(Block), Shows(s, c), NEW b \in Block
  PROVE  Answer(s, b) = AnswerOn(c, b)
<1> DEFINE view(in, i) ==
      LET k == <<in.amount, Absolute(in, i)>>
          o == Stack(c, in.amount)[Absolute(in, i) + 1]
      IN  /\ k \in DOMAIN s.outputs <=> Absolute(in, i) < Len(Stack(c, in.amount))
          /\ k \in DOMAIN s.outputs =>
               s.outputs[k].unlock_time = o.unlock_time /\ s.outputs[k].key = o.key
<1>1. ASSUME NEW in \in BlockInputs(b), NEW i \in Ring(in)
      PROVE  view(in, i)
  <2>1. PICK g, st, k : g = Absolute(in, i) /\ st = Stack(c, in.amount) /\ k = <<in.amount, g>>
    OBVIOUS
  <2>2. (k \in DOMAIN s.outputs <=> g < Len(st)) /\ (g < Len(st) =>
          s.outputs[k].unlock_time = st[g + 1].unlock_time /\ s.outputs[k].key = st[g + 1].key)
    BY <2>1, RingView
  <2> QED BY <2>1, <2>2
<1>2. DOMAIN s.keyimages = KeyImagesIn(c)
  BY DEF Shows
<1>3. start_work_get_error(s, b) <=> ~Reaches(c, b)
  <2> DEFINE wrong(in) ==
        \/ in.key_image \in DOMAIN s.keyimages
        \/ in.ring = <<>>
        \/ \E i \in Ring(in) :
             LET k == <<in.amount, Absolute(in, i)>>
             IN  k \notin DOMAIN s.outputs
                   \/ ~Unlocked(s.outputs[k].unlock_time, Height[b], Timestamp[b])
             reaches(in) ==
        /\ in.key_image \notin KeyImagesIn(c)
        /\ in.ring # <<>>
        /\ \A i \in Ring(in) :
             /\ Absolute(in, i) < Len(Stack(c, in.amount))
             /\ Unlocked(Stack(c, in.amount)[Absolute(in, i) + 1].unlock_time,
                         Height[b], Timestamp[b])
  <2>1. ASSUME NEW in \in BlockInputs(b) PROVE wrong(in) <=> ~reaches(in)
    <3>1. \A i \in Ring(in) : view(in, i)
      BY <1>1
    <3> QED BY <1>2, <3>1
  <2> QED BY <2>1 DEF start_work_get_error, Reaches
<1>4. ASSUME Reaches(c, b)
      PROVE  signatures_valid(s, b) <=> Signed(c, b)
  <2>1. ASSUME NEW in \in BlockInputs(b), NEW i \in Ring(in)
        PROVE  s.outputs[<<in.amount, Absolute(in, i)>>].key
                 = Stack(c, in.amount)[Absolute(in, i) + 1].key
    <3>1. Absolute(in, i) < Len(Stack(c, in.amount))
      BY <1>4 DEF Reaches
    <3> QED BY <1>1, <3>1
  <2> QED BY <2>1 DEF signatures_valid, Signed
<1> QED BY <1>3, <1>4 DEF Answer, AnswerOn

\* With the signatures checked, what is applied is what is good.
LEMMA AppliedIsGood ==
  ASSUME NEW c, NEW b, check_sigs(b)
  PROVE  AnswerOn(c, b) = "applies" <=> Good(c, b)
<1>1. Good(c, b) <=> ~SharesKeyimage(b) /\ Reaches(c, b) /\ Signed(c, b)
  BY GoodIs DEF GoodInput, Reaches, Signed
<1> QED BY <1>1 DEF AnswerOn

-------------------------------------------------------------------------------
(***************************************************************************)
(* Chains.                                                                 *)
(***************************************************************************)
GoodChain(c) ==
  /\ IsChain(c)
  /\ \A i \in 1..Len(c) : Good(Upto(c, i - 1), c[i])

\* The height of a block is its place in the chain.
LEMMA ChainHeights ==
  ASSUME NEW c, IsChain(c)
  PROVE  c \in Seq(Block) /\ \A i \in 1..Len(c) : c[i] \in Block /\ Height[c[i]] = i - 1
<1>1. c \in Seq(Block) /\ \A i \in 1..Len(c) :
        IF i = 1 THEN c[1] = Genesis ELSE c[i] # Genesis /\ Parent[c[i]] = c[i - 1]
  BY DEF IsChain
<1>2. PICK N \in Nat : N = Len(c) /\ \A i \in 1..N : c[i] \in Block
  BY <1>1
<1> DEFINE T == {n \in Nat : n + 1 \in 1..N => Height[c[n + 1]] = n}
<1>3. 0 \in T
  BY <1>1, <1>2, BlockAssumption
<1>4. \A n \in Nat : n \in T => n + 1 \in T
  <2> SUFFICES ASSUME NEW n \in Nat, n \in T, (n + 1) + 1 \in 1..N
               PROVE  Height[c[(n + 1) + 1]] = n + 1
    OBVIOUS
  <2>1. PICK k \in 1..N : k = (n + 1) + 1 /\ k # 1 /\ k - 1 = n + 1 /\ n + 1 \in 1..N
    OBVIOUS
  <2>2. c[k] \in Block \ {Genesis} /\ Parent[c[k]] = c[k - 1]
    BY <1>1, <1>2, <2>1
  <2>3. Height[c[k]] = Height[c[k - 1]] + 1
    BY <2>2, BlockAssumption
  <2>4. Height[c[k - 1]] = n
    BY <2>1
  <2> QED BY <2>1, <2>3, <2>4
<1>5. ASSUME NEW i \in 1..N
      PROVE  Height[c[i]] = i - 1
  <2>1. i - 1 \in Nat /\ (i - 1) + 1 = i
    OBVIOUS
  <2>2. i - 1 \in T
    <3> HIDE DEF T
    <3> QED BY <1>3, <1>4, <2>1, Induction
  <2> QED BY <2>1, <2>2
<1> QED BY <1>1, <1>2, <1>5

\* A chain and one block more.
LEMMA AppendFacts ==
  ASSUME NEW c \in Seq(Block), NEW b \in Block
  PROVE  /\ Append(c, b) \in Seq(Block) /\ Len(Append(c, b)) = Len(c) + 1
         /\ Append(c, b)[Len(c) + 1] = b /\ \A i \in 1..Len(c) : Append(c, b)[i] = c[i]
         /\ \A i \in 0..Len(c) : Upto(Append(c, b), i) = Upto(c, i)
         /\ Upto(Append(c, b), Len(c)) = c
<1>1. PICK d \in Seq(Block), n \in Nat : d = Append(c, b) /\ n = Len(c)
  <2>1. Append(c, b) \in Seq(Block) /\ Len(c) \in Nat
    OBVIOUS
  <2> QED BY <2>1
<1>2. Len(d) = n + 1 /\ d[n + 1] = b /\ \A i \in 1..n : d[i] = c[i]
  BY <1>1
<1>3. ASSUME NEW i \in 0..n
      PROVE  Upto(d, i) = Upto(c, i)
  <2>1. i \in 0..Len(c) /\ i \in 0..Len(d) /\ i \in Nat
    BY <1>1, <1>2
  <2>2. PICK u \in Seq(Block), v \in Seq(Block) : u = Upto(d, i) /\ v = Upto(c, i)
    BY <2>1, UptoFacts
  <2>3. Len(u) = i /\ Len(v) = i /\ (\A k \in 1..i : u[k] = d[k]) /\ \A k \in 1..i : v[k] = c[k]
    BY <2>1, <2>2, UptoFacts
  <2>4. \A k \in 1..i : u[k] = v[k]
    BY <1>2, <2>1, <2>3
  <2>5. u = v
    BY <2>3, <2>4, SeqEqual
  <2> QED BY <2>2, <2>5
<1>4. Upto(d, n) = c
  BY <1>1, <1>3, UptoAll
<1> QED BY <1>1, <1>2, <1>3, <1>4

\* A good chain is one of good blocks.
LEMMA ChainAppend ==
  ASSUME NEW c \in Seq(Block), NEW b \in Block
  PROVE  GoodChain(Append(c, b)) <=> GoodChain(c) /\ IsChain(Append(c, b)) /\ Good(c, b)
<1>0. Append(c, b) \in Seq(Block) /\ Len(c) \in Nat
  BY AppendFacts
<1>1. PICK d \in Seq(Block), n \in Nat : d = Append(c, b) /\ n = Len(c)
  BY <1>0
<1>2. /\ Len(d) = n + 1 /\ d[n + 1] = b /\ \A i \in 1..n : d[i] = c[i]
      /\ (\A i \in 0..n : Upto(d, i) = Upto(c, i)) /\ Upto(d, n) = c
  BY <1>1, AppendFacts
<1>3. ASSUME IsChain(d) PROVE IsChain(c)
  <2>1. \A i \in 1..n + 1 : IF i = 1 THEN d[1] = Genesis ELSE d[i] # Genesis /\ Parent[d[i]] = d[i - 1]
    BY <1>2, <1>3 DEF IsChain
  <2>2. ASSUME NEW i \in 1..n
        PROVE  IF i = 1 THEN c[1] = Genesis ELSE c[i] # Genesis /\ Parent[c[i]] = c[i - 1]
    <3>1. i \in 1..n + 1 /\ c[i] = d[i] /\ (i # 1 => i - 1 \in 1..n)
      BY <1>2
    <3> QED BY <1>2, <2>1, <3>1
  <2> QED BY <1>1, <2>2 DEF IsChain
<1>4. (\A i \in 1..n + 1 : Good(Upto(d, i - 1), d[i])) <=> Good(c, b) /\ \A i \in 1..n : Good(Upto(c, i - 1), c[i])
  <2>1. ASSUME NEW i \in 1..n
        PROVE  Upto(d, i - 1) = Upto(c, i - 1) /\ d[i] = c[i]
    <3>1. i - 1 \in 0..n
      OBVIOUS
    <3> QED BY <1>2, <3>1
  <2>2. (n + 1) - 1 = n /\ n + 1 \in 1..n + 1 /\ \A i \in 1..n + 1 : i = n + 1 \/ i \in 1..n
    OBVIOUS
  <2>3. \A i \in 1..n : i \in 1..n + 1
    OBVIOUS
  <2> QED BY <1>2, <2>1, <2>2, <2>3
<1> QED BY <1>1, <1>2, <1>3, <1>4 DEF GoodChain

\* The inputs of a chain and one block more.
LEMMA InputsAppend ==
  ASSUME NEW c \in Seq(Block), NEW b \in Block
  PROVE  AllInputs(Append(c, b)) = AllInputs(c) \cup {[in |-> in, height |-> Height[b]] : in \in BlockInputs(b)}
<1>0. Append(c, b) \in Seq(Block) /\ Len(c) \in Nat
  BY AppendFacts
<1>1. PICK d \in Seq(Block), n \in Nat : d = Append(c, b) /\ n = Len(c)
  BY <1>0
<1>2. Len(d) = n + 1 /\ d[n + 1] = b /\ \A i \in 1..n : d[i] = c[i]
  BY <1>1, AppendFacts
<1> DEFINE of(x) == {[in |-> in, height |-> Height[x]] : in \in BlockInputs(x)}
<1>3. AllInputs(d) = UNION {of(d[i]) : i \in 1..n + 1} /\ AllInputs(c) = UNION {of(c[i]) : i \in 1..n}
  BY <1>1, <1>2 DEF AllInputs
<1>4. \A i : i \in 1..n + 1 <=> i \in 1..n \/ i = n + 1
  OBVIOUS
<1> HIDE DEF of
<1>5. UNION {of(d[i]) : i \in 1..n + 1} = (UNION {of(c[i]) : i \in 1..n}) \cup of(b)
  BY <1>2, <1>4
<1> QED BY <1>1, <1>3, <1>5 DEF of

\* The empty chain has none.
LEMMA NoInputs == AllInputs(<<>>) = {}
BY DEF AllInputs

\* An input with a ring of one names an output of the stack that holds its key.
Names(c, in) ==
  /\ in.ring[1] \in Nat /\ in.ring[1] < Len(Stack(c, in.amount))
  /\ Stack(c, in.amount)[in.ring[1] + 1].key = in.keys[1]

\* The single ring of a good input names an output with the signed key.
LEMMA NamesHere ==
  ASSUME NEW c, NEW b \in Block, Good(c, b), NEW in \in BlockInputs(b), Len(in.ring) = 1
  PROVE  Names(c, in)
<1>1. GoodInput(c, in, Height[b], Timestamp[b])
  BY GoodIs
<1>2. 1 \in Ring(in) /\ in.ring \in Seq(Nat)
  BY InputShape DEF Ring
<1>3. Absolute(in, 1) = in.ring[1] /\ in.ring[1] \in Nat
  BY <1>2, AbsoluteIs
<1> QED BY <1>1, <1>2, <1>3 DEF GoodInput, Names

\* It does so in every longer chain.
LEMMA NamesStay ==
  ASSUME NEW c \in Seq(Block), NEW i \in 0..Len(c), NEW in, Names(Upto(c, i), in)
  PROVE  Names(c, in)
<1>1. PICK u \in Seq(StampSet), v \in Seq(StampSet) : u = Stack(Upto(c, i), in.amount) /\ v = Stack(c, in.amount)
  BY UptoFacts, StackTyped
<1>2. Begins(u, v)
  BY <1>1, StackBegins
<1>3. PICK g \in Nat : g = in.ring[1] /\ g < Len(u) /\ u[g + 1].key = in.keys[1]
  BY <1>1 DEF Names
<1>4. g + 1 \in 1..Len(u) /\ Len(u) \in Nat /\ Len(v) \in Nat
  BY <1>3
<1>5. g < Len(v) /\ u[g + 1] = v[g + 1]
  BY <1>2, <1>3, <1>4 DEF Begins
<1> QED BY <1>1, <1>3, <1>5 DEF Names

\* So do the inputs of a chain.
LEMMA NamesBefore ==
  ASSUME NEW c, GoodChain(c), NEW x \in AllInputs(c), Len(x.in.ring) = 1
  PROVE  Names(c, x.in) /\ \E b \in Block : x.in \in BlockInputs(b)
<1>1. PICK i \in 1..Len(c) : x \in {[in |-> in, height |-> Height[c[i]]] : in \in BlockInputs(c[i])}
  BY DEF AllInputs
<1>2. x.in \in BlockInputs(c[i])
  BY <1>1
<1>3. c \in Seq(Block) /\ c[i] \in Block /\ Good(Upto(c, i - 1), c[i]) /\ i - 1 \in 0..Len(c)
  BY ChainHeights DEF GoodChain
<1>4. Names(Upto(c, i - 1), x.in)
  BY <1>2, <1>3, NamesHere
<1> QED BY <1>2, <1>3, <1>4, NamesStay

\* Two of them that name the same output have the same key image.
LEMMA SameOutput ==
  ASSUME NEW c, NEW b \in Block, NEW d \in Block, NEW x \in BlockInputs(b), NEW y \in BlockInputs(d),
         Len(x.ring) = 1, Len(y.ring) = 1, Names(c, x), Names(c, y),
         <<x.amount, x.ring[1]>> = <<y.amount, y.ring[1]>>
  PROVE  x.key_image = y.key_image
<1>1. x.keys[1] = y.keys[1]
  BY DEF Names
<1> QED BY <1>1, HashAssumption

-------------------------------------------------------------------------------
(***************************************************************************)
(* The delta of a block.                                                   *)
(***************************************************************************)
InputsUpto(b, j) == UNION {KeyInputs(Txs[b][i]) : i \in 1..j}
KeyImagesOf(S) == {in.key_image : in \in S}

\* The inputs of the first transactions of a block.
LEMMA InputsUptoFacts ==
  ASSUME NEW b \in Block
  PROVE  /\ InputsUpto(b, 0) = {} /\ InputsUpto(b, Len(Txs[b])) = BlockInputs(b)
         /\ \A j \in 1..Len(Txs[b]) : InputsUpto(b, j) = InputsUpto(b, j - 1) \cup KeyInputs(Txs[b][j])
         /\ \A j \in 0..Len(Txs[b]) : InputsUpto(b, j) \subseteq BlockInputs(b)
<1>1. PICK N \in Nat : N = Len(Txs[b])
  BY TxShape
<1>2. ASSUME NEW j \in 1..N
      PROVE  InputsUpto(b, j) = InputsUpto(b, j - 1) \cup KeyInputs(Txs[b][j])
  <2>1. \A i : i \in 1..j <=> i \in 1..j - 1 \/ i = j
    OBVIOUS
  <2> QED BY <2>1 DEF InputsUpto
<1>3. InputsUpto(b, N) = BlockInputs(b)
  BY <1>1 DEF InputsUpto, BlockInputs, BlockTxs
<1>4. ASSUME NEW j \in 0..N
      PROVE  InputsUpto(b, j) \subseteq InputsUpto(b, N)
  <2>1. \A i \in 1..j : i \in 1..N
    OBVIOUS
  <2> QED BY <2>1 DEF InputsUpto
<1>5. InputsUpto(b, 0) = {}
  BY DEF InputsUpto
<1> QED BY <1>1, <1>2, <1>3, <1>4, <1>5

\* The spent outputs of two sets of inputs.
LEMMA SpentParts ==
  ASSUME NEW A, NEW B
  PROVE  SpentIn(A \cup B) = SpentIn(A) \cup SpentIn(B) /\ SpentIn({}) = {}
BY DEF SpentIn

\* The key images of two sets of inputs.
LEMMA KeyImageParts ==
  ASSUME NEW A, NEW B
  PROVE  KeyImagesOf(A \cup B) = KeyImagesOf(A) \cup KeyImagesOf(B) /\ KeyImagesOf({}) = {}
BY DEF KeyImagesOf

\* No key image is twice in a block of which no two transactions share one.
LEMMA KeyImagesDiffer ==
  ASSUME NEW b \in Block, ~SharesKeyimage(b), NEW j \in 1..Len(Txs[b])
  PROVE  /\ KeyImagesOf(KeyInputs(Txs[b][j])) \cap KeyImagesOf(InputsUpto(b, j - 1)) = {}
         /\ \A m, n \in 1..Len(Txs[b][j].inputs) :
              Txs[b][j].inputs[m].key_image = Txs[b][j].inputs[n].key_image => m = n
<1>1. \A m, n \in 1..Len(Txs[b][j].inputs) :
        Txs[b][j].inputs[m].key_image = Txs[b][j].inputs[n].key_image => m = n
  <2>1. Txs[b][j] \in BlockTxs(b)
    BY DEF BlockTxs
  <2> QED BY <2>1, TransactionAssumption
<1>2. ASSUME NEW x \in KeyInputs(Txs[b][j]), NEW y \in InputsUpto(b, j - 1), x.key_image = y.key_image
      PROVE  FALSE
  <2>1. PICK k \in 1..j - 1 : y \in KeyInputs(Txs[b][k])
    BY DEF InputsUpto
  <2>2. k \in 1..Len(Txs[b]) /\ k # j
    BY TxShape
  <2> QED BY <1>2, <2>1, <2>2 DEF SharesKeyimage
<1> QED BY <1>1, <1>2 DEF KeyImagesOf

\* The global index of an output of a block on top of a stack.
IndexOf(stack, b, j, n) ==
  LET o == Txs[b][j].outputs[n]
  IN  Len(stack[o.amount]) + Len(BlockStack(b, j - 1, o.amount))
        + Len(OfAmount(SubSeq(Txs[b][j].outputs, 1, n - 1), o.amount))

\* The delta of the first j transactions.
DeltaOf(d, stack, b, j) ==
  /\ d.keyimages = KeyImagesOf(InputsUpto(b, j))
  /\ d.amounts = [a \in Amount |-> BlockStack(b, j, a)]
  /\ d.spent = SpentIn(InputsUpto(b, j))
  /\ d.indices \in Seq(Seq(Nat)) /\ Len(d.indices) = j
  /\ \A i \in 1..j : \A n \in 1..Len(Txs[b][i].outputs) : d.indices[i][n] = IndexOf(stack, b, i, n)
  /\ d.ok

\* The empty delta.
LEMMA DeltaEmpty ==
  ASSUME NEW stack, NEW b \in Block
  PROVE  DeltaOf(EmptyDelta, stack, b, 0)
<1>1. EmptyDelta.amounts = [a \in Amount |-> BlockStack(b, 0, a)]
  BY BlockStackFacts DEF EmptyDelta
<1>2. InputsUpto(b, 0) = {}
  BY InputsUptoFacts
<1> QED BY <1>1, <1>2, SpentParts, KeyImageParts DEF DeltaOf, EmptyDelta

\* A global index is a number.
LEMMA IndexTyped ==
  ASSUME NEW stack \in Stacks, NEW b \in Block, NEW j \in 1..Len(Txs[b]),
         NEW n \in 1..Len(Txs[b][j].outputs)
  PROVE  IndexOf(stack, b, j, n) \in Nat
<1>1. PICK t : t = Txs[b][j]
  OBVIOUS
<1>2. t.outputs \in Seq(OutputSet) /\ Len(t.outputs) \in Nat /\ t.outputs[n].amount \in Amount
  BY <1>1, TxShape
<1>3. PICK a \in Amount : a = t.outputs[n].amount
  BY <1>2
<1>4. PICK x \in Nat : x = Len(stack[a])
  BY DEF Stacks
<1>5. j - 1 \in 0..Len(Txs[b])
  BY TxShape
<1>6. PICK y \in Nat : y = Len(BlockStack(b, j - 1, a))
  <2>1. BlockStack(b, j - 1, a) \in Seq(OutputSet)
    BY <1>5, BlockStackFacts
  <2> QED BY <2>1
<1>7. n - 1 \in 0..Len(t.outputs)
  BY <1>1, <1>2
<1>8. SubSeq(t.outputs, 1, n - 1) \in Seq(OutputSet)
  BY <1>2, <1>7, Firsts
<1>9. OfAmount(SubSeq(t.outputs, 1, n - 1), a) \in Seq(OutputSet)
  BY <1>8, OfAmountTyped
<1>10. PICK z \in Nat : z = Len(OfAmount(SubSeq(t.outputs, 1, n - 1), a))
  BY <1>9
<1>11. IndexOf(stack, b, j, n) = (x + y) + z
  BY <1>1, <1>3, <1>4, <1>6, <1>10 DEF IndexOf
<1> QED BY <1>11

\* One transaction more.
LEMMA DeltaStep ==
  ASSUME NEW s, NEW stack \in Stacks, NEW S, StacksOf(s, stack, S),
         NEW b \in Block, ~SharesKeyimage(b), NEW j \in 1..Len(Txs[b]), NEW d, DeltaOf(d, stack, b, j - 1)
  PROVE  DeltaOf(redo_transaction(s, d, Txs[b][j]), stack, b, j)
<1>1. PICK t : t = Txs[b][j]
  OBVIOUS
<1>2. PICK e : e = redo_transaction(s, d, t)
  OBVIOUS
<1>3. t.outputs \in Seq(OutputSet) /\ \A n \in 1..Len(t.outputs) : t.outputs[n].amount \in Amount
  BY <1>1, TxShape
<1> DEFINE kis == {in.key_image : in \in KeyInputs(t)}
           index(n) == next_global_index_for_amount(s, t.outputs[n].amount)
                    + Len(d.amounts[t.outputs[n].amount])
                    + Len(OfAmount(SubSeq(t.outputs, 1, n - 1), t.outputs[n].amount))
<1>4. /\ e.keyimages = d.keyimages \cup kis
      /\ e.amounts = [a \in Amount |-> d.amounts[a] \o OutputsOf(t, a)]
      /\ e.spent = d.spent \cup {<<in.amount, in.ring[1]>> : in \in {x \in KeyInputs(t) : Len(x.ring) = 1}}
      /\ e.indices = Append(d.indices, [n \in 1..Len(t.outputs) |-> index(n)])
  BY <1>2 DEF redo_transaction
<1>5. e.ok <=> /\ d.ok
               /\ kis \cap d.keyimages = {}
               /\ \A m, n \in 1..Len(t.inputs) : t.inputs[m].key_image = t.inputs[n].key_image => m = n
  BY <1>2 DEF redo_transaction
<1>6. InputsUpto(b, j) = InputsUpto(b, j - 1) \cup KeyInputs(t)
  BY <1>1, InputsUptoFacts
<1>7. e.keyimages = KeyImagesOf(InputsUpto(b, j)) /\ e.spent = SpentIn(InputsUpto(b, j))
  BY <1>4, <1>6, SpentParts, KeyImageParts DEF DeltaOf, KeyImagesOf, SpentIn
<1>8. e.amounts = [a \in Amount |-> BlockStack(b, j, a)]
  <2>1. \A a \in Amount : d.amounts[a] = BlockStack(b, j - 1, a)
    BY DEF DeltaOf
  <2>2. \A a \in Amount : BlockStack(b, j, a) = BlockStack(b, j - 1, a) \o OutputsOf(t, a)
    BY <1>1, BlockStackFacts
  <2> QED BY <1>4, <2>1, <2>2
<1>9. \A n \in 1..Len(t.outputs) : index(n) = IndexOf(stack, b, j, n)
  <2> SUFFICES ASSUME NEW n \in 1..Len(t.outputs)
               PROVE  index(n) = IndexOf(stack, b, j, n)
    OBVIOUS
  <2>1. PICK a \in Amount : a = t.outputs[n].amount
    BY <1>3
  <2>2. next_global_index_for_amount(s, a) = Len(stack[a]) /\ d.amounts[a] = BlockStack(b, j - 1, a)
    BY NextIndex DEF DeltaOf
  <2> QED BY <1>1, <2>1, <2>2 DEF IndexOf
<1>10. PICK ix \in Seq(Nat) : ix = [n \in 1..Len(t.outputs) |-> IndexOf(stack, b, j, n)]
  <2>1. \A n \in 1..Len(t.outputs) : IndexOf(stack, b, j, n) \in Nat
    BY <1>1, IndexTyped
  <2>2. PICK M \in Nat : M = Len(t.outputs)
    BY <1>3
  <2>3. [n \in 1..M |-> IndexOf(stack, b, j, n)] \in [1..M -> Nat]
    BY <2>1, <2>2
  <2>4. [n \in 1..M |-> IndexOf(stack, b, j, n)] \in Seq(Nat)
    BY <2>3
  <2> QED BY <2>2, <2>4
<1>11. e.indices = Append(d.indices, ix)
  BY <1>4, <1>9, <1>10
<1>12. PICK v \in Seq(Seq(Nat)) : v = d.indices /\ Len(v) = j - 1
  BY DEF DeltaOf
<1>13. j \in Nat /\ (j - 1) + 1 = j
  OBVIOUS
<1>14. PICK w \in Seq(Seq(Nat)) : w = e.indices /\ w = Append(v, ix)
  <2>1. Append(v, ix) \in Seq(Seq(Nat))
    OBVIOUS
  <2> QED BY <1>11, <1>12, <2>1
<1>15. Len(w) = j /\ w[j] = ix /\ \A i \in 1..j - 1 : w[i] = v[i]
  BY <1>12, <1>13, <1>14
<1>16. \A i \in 1..j : \A n \in 1..Len(Txs[b][i].outputs) : w[i][n] = IndexOf(stack, b, i, n)
  <2> SUFFICES ASSUME NEW i \in 1..j, NEW n \in 1..Len(Txs[b][i].outputs)
               PROVE  w[i][n] = IndexOf(stack, b, i, n)
    OBVIOUS
  <2>1. CASE i = j
    BY <1>1, <1>10, <1>15, <2>1
  <2>2. CASE i # j
    <3>1. i \in 1..j - 1
      BY <2>2
    <3>2. w[i] = d.indices[i]
      BY <1>12, <1>15, <3>1
    <3>3. d.indices[i][n] = IndexOf(stack, b, i, n)
      BY <3>1 DEF DeltaOf
    <3> QED BY <3>2, <3>3
  <2> QED BY <2>1, <2>2
<1>17. e.ok
  BY <1>1, <1>5, KeyImagesDiffer DEF DeltaOf, KeyImagesOf
<1> QED BY <1>1, <1>2, <1>7, <1>8, <1>14, <1>15, <1>16, <1>17 DEF DeltaOf

IsDeltas(f, s, b) ==
  f = [j \in 0..Len(Txs[b]) |-> IF j = 0 THEN EmptyDelta ELSE redo_transaction(s, f[j - 1], Txs[b][j])]

DeltasUpTo(f, s, b, n) ==
  \A j \in 0..Len(Txs[b]) : j <= n =>
    f[j] = IF j = 0 THEN EmptyDelta ELSE redo_transaction(s, f[j - 1], Txs[b][j])

\* The recursive function of redo_transactions exists.
LEMMA DeltasExist ==
  ASSUME NEW s, NEW b \in Block
  PROVE  \E f : IsDeltas(f, s, b)
<1>0. PICK N \in Nat : N = Len(Txs[b])
  BY TxShape
<1> DEFINE T == {n \in Nat : \E f : DeltasUpTo(f, s, b, n)}
           next(f) == [j \in 0..N |-> IF j = 0 THEN EmptyDelta ELSE redo_transaction(s, f[j - 1], Txs[b][j])]
<1>1. 0 \in T
  <2>1. PICK f : f = [j \in 0..N |-> EmptyDelta]
    OBVIOUS
  <2>2. DeltasUpTo(f, s, b, 0)
    BY <1>0, <2>1 DEF DeltasUpTo
  <2> QED BY <2>2
<1>2. \A n \in Nat : n \in T => n + 1 \in T
  <2> SUFFICES ASSUME NEW n \in Nat, NEW f, DeltasUpTo(f, s, b, n) PROVE \E g : DeltasUpTo(g, s, b, n + 1)
    OBVIOUS
  <2>1. PICK g : g = next(f)
    OBVIOUS
  <2>2. \A j \in 0..N : j <= n => g[j] = f[j]
    BY <1>0, <2>1 DEF DeltasUpTo
  <2>3. ASSUME NEW j \in 0..N, j <= n + 1
        PROVE  g[j] = IF j = 0 THEN EmptyDelta ELSE redo_transaction(s, g[j - 1], Txs[b][j])
    <3>1. CASE j = 0
      BY <2>1, <3>1
    <3>2. CASE j # 0
      <4>1. j - 1 \in 0..N /\ j - 1 <= n
        BY <2>3, <3>2
      <4>2. g[j - 1] = f[j - 1]
        BY <2>2, <4>1
      <4> QED BY <2>1, <3>2, <4>2
    <3> QED BY <3>1, <3>2
  <2>4. DeltasUpTo(g, s, b, n + 1)
    BY <1>0, <2>3 DEF DeltasUpTo
  <2> QED BY <2>4
<1>3. N \in T
  <2> HIDE DEF T
  <2> QED BY <1>1, <1>2, Induction
<1>4. PICK f : DeltasUpTo(f, s, b, N)
  BY <1>3
<1>5. PICK g : g = next(f)
  OBVIOUS
<1>6. \A j \in 0..N : g[j] = f[j]
  BY <1>0, <1>4, <1>5 DEF DeltasUpTo
<1>7. g = next(g)
  <2>1. \A j \in 0..N : j # 0 => j - 1 \in 0..N
    OBVIOUS
  <2> QED BY <1>5, <1>6, <2>1
<1> QED BY <1>0, <1>7 DEF IsDeltas

\* The delta of a block.
LEMMA DeltaIs ==
  ASSUME NEW s, NEW stack \in Stacks, NEW S, StacksOf(s, stack, S), NEW b \in Block, ~SharesKeyimage(b)
  PROVE  DeltaOf(redo_transactions(s, b), stack, b, Len(Txs[b]))
<1>1. PICK f : f = CHOOSE g : IsDeltas(g, s, b)
  OBVIOUS
<1>2. IsDeltas(f, s, b)
  BY <1>1, DeltasExist
<1>3. redo_transactions(s, b) = f[Len(Txs[b])]
  BY <1>1 DEF redo_transactions, IsDeltas
<1>4. PICK N \in Nat : N = Len(Txs[b])
  BY TxShape
<1>5. \A j \in 0..N : f[j] = IF j = 0 THEN EmptyDelta ELSE redo_transaction(s, f[j - 1], Txs[b][j])
  BY <1>2, <1>4 DEF IsDeltas
<1> DEFINE T == {n \in Nat : n <= N => DeltaOf(f[n], stack, b, n)}
<1>6. 0 \in T
  <2>1. f[0] = EmptyDelta
    BY <1>5
  <2> QED BY <2>1, DeltaEmpty
<1>7. \A n \in Nat : n \in T => n + 1 \in T
  <2> SUFFICES ASSUME NEW n \in Nat, n \in T, n + 1 <= N
               PROVE  DeltaOf(f[n + 1], stack, b, n + 1)
    OBVIOUS
  <2>1. PICK j \in 1..N : j = n + 1 /\ j - 1 = n /\ j \in 0..N
    OBVIOUS
  <2>2. DeltaOf(f[j - 1], stack, b, j - 1)
    BY <2>1
  <2>3. f[j] = redo_transaction(s, f[j - 1], Txs[b][j])
    BY <1>5, <2>1
  <2>4. DeltaOf(redo_transaction(s, f[j - 1], Txs[b][j]), stack, b, j)
    BY <1>4, <2>2, DeltaStep
  <2> QED BY <2>1, <2>3, <2>4
<1>8. N \in T
  <2> HIDE DEF T
  <2> QED BY <1>6, <1>7, Induction
<1> QED BY <1>3, <1>4, <1>8

-------------------------------------------------------------------------------
(***************************************************************************)
(* The delta applied.                                                      *)
(***************************************************************************)
IsLedger(s) ==
  s = [keyimages |-> s.keyimages, outputs |-> s.outputs, indices |-> s.indices,
       txpos |-> s.txpos, times |-> s.times, next_gi |-> s.next_gi, ok |-> s.ok]

Applied(t, s, d, h) ==
  /\ IsLedger(t)
  /\ t.keyimages = Over([k \in d.keyimages |-> h], s.keyimages)
  /\ t.outputs = spend_output(Over(NewOutputs(s, d, h), s.outputs), d.spent, TRUE)
  /\ t.next_gi = [a \in Amount |->
        IF d.amounts[a] = <<>> THEN s.next_gi[a]
        ELSE next_global_index_for_amount(s, a) + Len(d.amounts[a])]
  /\ t.ok <=> /\ s.ok /\ d.ok
              /\ d.keyimages \cap DOMAIN s.keyimages = {}
              /\ DOMAIN NewOutputs(s, d, h) \cap DOMAIN s.outputs = {}
  /\ t.indices = s.indices /\ t.txpos = s.txpos /\ t.times = s.times

\* The fields of the ledger after apply.
LEMMA ApplyFields ==
  ASSUME NEW s, IsLedger(s), NEW d, NEW h
  PROVE  Applied(apply(s, d, h), s, d, h)
<1> DEFINE K == Over([k \in d.keyimages |-> h], s.keyimages)
           O == spend_output(Over(NewOutputs(s, d, h), s.outputs), d.spent, TRUE)
           G == [a \in Amount |->
                IF d.amounts[a] = <<>> THEN s.next_gi[a]
                ELSE next_global_index_for_amount(s, a) + Len(d.amounts[a])]
           P == /\ s.ok /\ d.ok
                /\ d.keyimages \cap DOMAIN s.keyimages = {}
                /\ DOMAIN NewOutputs(s, d, h) \cap DOMAIN s.outputs = {}
<1>1. PICK t : t = apply(s, d, h)
  OBVIOUS
<1>2. t = [s EXCEPT !.keyimages = K, !.outputs = O, !.next_gi = G, !.ok = P]
  BY <1>1 DEF apply
<1> HIDE DEF K, O, G, P
<1>3. /\ IsLedger(t) /\ t.keyimages = K /\ t.outputs = O /\ t.next_gi = G /\ t.ok = P
      /\ t.indices = s.indices /\ t.txpos = s.txpos /\ t.times = s.times
  BY <1>2 DEF IsLedger
<1> QED BY <1>1, <1>3 DEF K, O, G, P, Applied

\* The elements of two sequences.
LEMMA Concat ==
  ASSUME NEW S, NEW u \in Seq(S), NEW v \in Seq(S)
  PROVE  /\ u \o v \in Seq(S) /\ Len(u) \in Nat /\ Len(v) \in Nat /\ Len(u \o v) = Len(u) + Len(v)
         /\ \A n \in 1..Len(u) : (u \o v)[n] = u[n]
         /\ \A i \in 1..Len(v) : (u \o v)[Len(u) + i] = v[i]
<1>1. u \o v \in Seq(S) /\ Len(u) \in Nat /\ Len(v) \in Nat /\ Len(u \o v) = Len(u) + Len(v)
  OBVIOUS
<1>2. \A n \in 1..Len(u) : (u \o v)[n] = u[n]
  OBVIOUS
<1>3. ASSUME NEW i \in 1..Len(v)
      PROVE  (u \o v)[Len(u) + i] = v[i]
  <2>1. PICK m \in Nat : m = Len(u) + i /\ m > Len(u) /\ m <= Len(u) + Len(v) /\ m - Len(u) = i
    BY <1>1
  <2>2. (u \o v)[m] = v[m - Len(u)]
    BY <1>1, <2>1
  <2> QED BY <2>1, <2>2
<1> QED BY <1>1, <1>2, <1>3

Pushed(stack, d, h) == [a \in Amount |-> stack[a] \o Stamped(d.amounts[a], h)]

PushedIs(P, stack, d, h) ==
  \A a \in Amount :
    /\ Len(stack[a]) \in Nat /\ Len(d.amounts[a]) \in Nat
    /\ Len(P[a]) = Len(stack[a]) + Len(d.amounts[a])
    /\ \A n \in 1..Len(stack[a]) : P[a][n] = stack[a][n]
    /\ \A i \in 1..Len(d.amounts[a]) : P[a][Len(stack[a]) + i] = Stamp(d.amounts[a][i], h)

\* The stacks with the outputs of a delta on top.
LEMMA PushedFacts ==
  ASSUME NEW stack \in Stacks, NEW d, d.amounts \in [Amount -> Seq(OutputSet)], NEW h \in Nat
  PROVE  Pushed(stack, d, h) \in Stacks /\ PushedIs(Pushed(stack, d, h), stack, d, h)
<1>1. ASSUME NEW a \in Amount
      PROVE  /\ Pushed(stack, d, h)[a] \in Seq(StampSet)
             /\ Len(stack[a]) \in Nat /\ Len(d.amounts[a]) \in Nat
             /\ Len(Pushed(stack, d, h)[a]) = Len(stack[a]) + Len(d.amounts[a])
             /\ \A n \in 1..Len(stack[a]) : Pushed(stack, d, h)[a][n] = stack[a][n]
             /\ \A i \in 1..Len(d.amounts[a]) :
                  Pushed(stack, d, h)[a][Len(stack[a]) + i] = Stamp(d.amounts[a][i], h)
  <2>1. PICK u \in Seq(StampSet), x \in Seq(OutputSet) : u = stack[a] /\ x = d.amounts[a]
    BY DEF Stacks
  <2>2. PICK v \in Seq(StampSet) : /\ v = Stamped(x, h) /\ Len(v) = Len(x)
                                   /\ \A n \in 1..Len(x) : v[n] = Stamp(x[n], h)
    BY StampedFacts
  <2>3. Pushed(stack, d, h)[a] = u \o v
    BY <2>1, <2>2 DEF Pushed
  <2>4. /\ u \o v \in Seq(StampSet) /\ Len(u) \in Nat /\ Len(v) \in Nat /\ Len(u \o v) = Len(u) + Len(v)
        /\ \A n \in 1..Len(u) : (u \o v)[n] = u[n]
        /\ \A i \in 1..Len(v) : (u \o v)[Len(u) + i] = v[i]
    BY Concat
  <2>5. Pushed(stack, d, h)[a] \in Seq(StampSet) /\ Len(stack[a]) \in Nat /\ Len(d.amounts[a]) \in Nat
        /\ Len(Pushed(stack, d, h)[a]) = Len(stack[a]) + Len(d.amounts[a])
    BY <2>1, <2>2, <2>3, <2>4
  <2>6. \A n \in 1..Len(stack[a]) : Pushed(stack, d, h)[a][n] = stack[a][n]
    BY <2>1, <2>3, <2>4
  <2>7. ASSUME NEW i \in 1..Len(d.amounts[a])
        PROVE  Pushed(stack, d, h)[a][Len(stack[a]) + i] = Stamp(d.amounts[a][i], h)
    <3>1. i \in 1..Len(x) /\ i \in 1..Len(v)
      BY <2>1, <2>2
    <3>2. (u \o v)[Len(u) + i] = v[i] /\ v[i] = Stamp(x[i], h)
      BY <2>2, <2>4, <3>1
    <3> QED BY <2>1, <2>3, <3>2
  <2> QED BY <2>5, <2>6, <2>7
<1>2. Pushed(stack, d, h) \in Stacks
  BY <1>1 DEF Pushed, Stacks
<1> QED BY <1>1, <1>2 DEF PushedIs

\* The keys of the new outputs, and the outputs.
KeysAt(stack, d, a) == {<<a, Len(stack[a]) + i - 1>> : i \in 1..Len(d.amounts[a])}

NewIs(new, stack, d, h) ==
  /\ DOMAIN new = UNION {KeysAt(stack, d, a) : a \in Amount}
  /\ \A a \in Amount : \A i \in 1..Len(d.amounts[a]) :
       new[<<a, Len(stack[a]) + i - 1>>] =
         [key |-> d.amounts[a][i].key, unlock_time |-> d.amounts[a][i].unlock_time,
          height |-> h, spent |-> FALSE]

\* The new outputs have the indices above the stacks.
LEMMA NewKeys ==
  ASSUME NEW s, NEW stack \in Stacks, NEW S, StacksOf(s, stack, S),
         NEW d, d.amounts \in [Amount -> Seq(OutputSet)], NEW h \in Nat
  PROVE  NewIs(NewOutputs(s, d, h), stack, d, h)
<1> DEFINE new == NewOutputs(s, d, h)
           first(a) == next_global_index_for_amount(s, a)
           here(a) == {<<a, first(a) + i - 1>> : i \in 1..Len(d.amounts[a])}
           there(a) == KeysAt(stack, d, a)
           keys == UNION {here(a) : a \in Amount}
<1>1. \A a \in Amount : first(a) = Len(stack[a]) /\ first(a) \in Nat
  BY NextIndex DEF Stacks
<1>2. new = [k \in keys |-> LET o == d.amounts[k[1]][k[2] - first(k[1]) + 1]
                            IN  [key |-> o.key, unlock_time |-> o.unlock_time, height |-> h, spent |-> FALSE]]
  BY DEF NewOutputs
<1>3. keys = UNION {KeysAt(stack, d, a) : a \in Amount}
  <2> HIDE DEF first
  <2>1. \A a \in Amount : here(a) = there(a)
    BY <1>1 DEF KeysAt
  <2> HIDE DEF here, there
  <2>2. keys = UNION {there(a) : a \in Amount}
    BY <2>1
  <2> QED BY <2>2 DEF there
<1>4. ASSUME NEW a \in Amount, NEW i \in 1..Len(d.amounts[a])
      PROVE  new[<<a, Len(stack[a]) + i - 1>>] =
               [key |-> d.amounts[a][i].key, unlock_time |-> d.amounts[a][i].unlock_time,
                height |-> h, spent |-> FALSE]
  <2>1. PICK k : k = <<a, Len(stack[a]) + i - 1>>
    OBVIOUS
  <2>2. k \in keys
    <3>1. k \in there(a)
      BY <2>1 DEF KeysAt
    <3> HIDE DEF keys
    <3> QED BY <1>3, <3>1
  <2>3. k[1] = a /\ k[2] = Len(stack[a]) + i - 1
    BY <2>1
  <2>4. k[2] - first(k[1]) + 1 = i
    <3>1. PICK L \in Nat : L = Len(stack[a]) /\ first(a) = L
      BY <1>1
    <3>2. i \in Int
      OBVIOUS
    <3> HIDE DEF first
    <3>3. (L + i - 1) - L + 1 = i
      BY <3>1, <3>2
    <3> QED BY <2>3, <3>1, <3>3
  <2> HIDE DEF new, first, keys
  <2> QED BY <1>2, <2>1, <2>2, <2>3, <2>4
<1> QED BY <1>2, <1>3, <1>4 DEF NewIs

\* No output is stored twice.
LEMMA NewAreNew ==
  ASSUME NEW s, NEW stack \in Stacks, NEW S, StacksOf(s, stack, S),
         NEW d, d.amounts \in [Amount -> Seq(OutputSet)], NEW h \in Nat
  PROVE  DOMAIN NewOutputs(s, d, h) \cap DOMAIN s.outputs = {}
<1> SUFFICES ASSUME NEW k \in DOMAIN NewOutputs(s, d, h), k \in DOMAIN s.outputs PROVE FALSE
  OBVIOUS
<1>0. PICK new : new = NewOutputs(s, d, h)
  OBVIOUS
<1>1. k \in UNION {KeysAt(stack, d, a) : a \in Amount}
  <2>1. NewIs(new, stack, d, h) /\ k \in DOMAIN new
    BY <1>0, NewKeys
  <2> QED BY <2>1 DEF NewIs
<1>2. PICK a \in Amount : k \in KeysAt(stack, d, a)
  BY <1>1
<1>3. PICK i \in 1..Len(d.amounts[a]) : k = <<a, Len(stack[a]) + i - 1>>
  BY <1>2 DEF KeysAt
<1>4. PICK L \in Nat : L = Len(stack[a])
  BY DEF Stacks
<1>5. PICK g : g = L + i - 1 /\ <<a, g>> \in DOMAIN s.outputs
  BY <1>3, <1>4
<1>6. g < L
  BY <1>4, <1>5, KeysOf
<1> QED BY <1>4, <1>5, <1>6

\* The spent flag of an output is set.
LEMMA SlotSpent ==
  ASSUME NEW x, NEW y, NEW z, NEW p, NEW q
  PROVE  [[key |-> x, unlock_time |-> y, height |-> z, spent |-> p] EXCEPT !.spent = q]
           = [key |-> x, unlock_time |-> y, height |-> z, spent |-> q]
OBVIOUS

\* The keys of a stack.
StackKeys(stack, a) == {<<a, n - 1>> : n \in 1..Len(stack[a])}

\* The indices of the old and of the new outputs.
LEMMA KeysAdd ==
  ASSUME NEW P, NEW stack \in Stacks, NEW d, NEW h, PushedIs(P, stack, d, h), NEW a \in Amount
  PROVE  StackKeys(P, a) = StackKeys(stack, a) \cup KeysAt(stack, d, a)
<1>1. PICK L \in Nat, M \in Nat : L = Len(stack[a]) /\ M = Len(d.amounts[a]) /\ Len(P[a]) = L + M
  BY DEF PushedIs
<1>2. ASSUME NEW n \in 1..L + M
      PROVE  <<a, n - 1>> \in StackKeys(stack, a) \cup KeysAt(stack, d, a)
  <2>1. CASE n \in 1..L
    BY <1>1, <2>1 DEF StackKeys
  <2>2. CASE n \notin 1..L
    <3>1. n - L \in 1..M /\ n - 1 = L + (n - L) - 1
      BY <2>2
    <3> QED BY <1>1, <3>1 DEF KeysAt
  <2> QED BY <2>1, <2>2
<1>3. \A n \in 1..L : <<a, n - 1>> \in StackKeys(P, a)
  <2>1. \A n \in 1..L : n \in 1..L + M
    OBVIOUS
  <2> QED BY <1>1, <2>1 DEF StackKeys
<1>4. ASSUME NEW i \in 1..M
      PROVE  <<a, L + i - 1>> \in StackKeys(P, a)
  <2>1. PICK n \in 1..L + M : n - 1 = L + i - 1
    <3>1. L + i \in 1..L + M /\ (L + i) - 1 = L + i - 1
      OBVIOUS
    <3> QED BY <3>1
  <2> QED BY <1>1, <2>1 DEF StackKeys
<1>5. StackKeys(P, a) = {<<a, n - 1>> : n \in 1..L + M}
  BY <1>1 DEF StackKeys
<1>6. StackKeys(stack, a) = {<<a, n - 1>> : n \in 1..L} /\ KeysAt(stack, d, a) = {<<a, L + i - 1>> : i \in 1..M}
  BY <1>1 DEF StackKeys, KeysAt
<1> QED BY <1>2, <1>3, <1>4, <1>5, <1>6

\* apply pushes the outputs of the delta and marks the spent ones.
LEMMA ApplyStacks ==
  ASSUME NEW s, IsLedger(s), NEW stack \in Stacks, NEW S, StacksOf(s, stack, S),
         S \subseteq DOMAIN s.outputs,
         NEW d, d.amounts \in [Amount -> Seq(OutputSet)], NEW h \in Nat,
         d.spent \subseteq DOMAIN s.outputs
  PROVE  StacksOf(apply(s, d, h), Pushed(stack, d, h), S \cup d.spent)
<1>1. PICK t : t = apply(s, d, h)
  OBVIOUS
<1>2. PICK new : new = NewOutputs(s, d, h)
  OBVIOUS
<1>3. PICK P \in Stacks : P = Pushed(stack, d, h)
  BY PushedFacts
<1>4. /\ t.outputs = spend_output(Over(new, s.outputs), d.spent, TRUE)
      /\ t.next_gi = [a \in Amount |->
                IF d.amounts[a] = <<>> THEN s.next_gi[a]
                ELSE next_global_index_for_amount(s, a) + Len(d.amounts[a])]
  BY <1>1, <1>2, ApplyFields DEF Applied
<1>5. NewIs(new, stack, d, h)
  BY <1>2, NewKeys
<1>6. PushedIs(P, stack, d, h)
  BY <1>3, PushedFacts
<1>7. DOMAIN new \cap DOMAIN s.outputs = {}
  BY <1>2, NewAreNew
<1>8. /\ DOMAIN t.outputs = DOMAIN new \cup DOMAIN s.outputs
      /\ \A k \in DOMAIN s.outputs : t.outputs[k] =
           IF k \in d.spent THEN [s.outputs[k] EXCEPT !.spent = TRUE] ELSE s.outputs[k]
      /\ \A k \in DOMAIN new : t.outputs[k] = new[k]
  <2>1. PICK w, o : o = s.outputs /\ w = Over(new, o)
    OBVIOUS
  <2>2. /\ DOMAIN w = DOMAIN new \cup DOMAIN s.outputs
        /\ \A k \in DOMAIN w : w[k] = IF k \in DOMAIN new THEN new[k] ELSE s.outputs[k]
    <3>1. /\ DOMAIN Over(new, o) = (DOMAIN new) \cup (DOMAIN o)
          /\ \A k \in (DOMAIN new) \cup (DOMAIN o) : Over(new, o)[k] = IF k \in DOMAIN new THEN new[k] ELSE o[k]
      BY DEF Over
    <3> QED BY <2>1, <3>1
  <2>3. t.outputs = [k \in DOMAIN w |-> IF k \in d.spent THEN [w[k] EXCEPT !.spent = TRUE] ELSE w[k]]
    BY <1>4, <2>1 DEF spend_output
  <2>4. \A k \in DOMAIN s.outputs : w[k] = s.outputs[k]
    BY <1>7, <2>2
  <2>5. \A k \in DOMAIN new : w[k] = new[k] /\ k \notin d.spent
    BY <1>7, <2>2
  <2> QED BY <2>2, <2>3, <2>4, <2>5
<1>9. DOMAIN t.outputs = UNION {StackKeys(P, a) : a \in Amount}
  <2>1. \A a \in Amount : StackKeys(P, a) = StackKeys(stack, a) \cup KeysAt(stack, d, a)
    BY <1>6, KeysAdd
  <2>2. DOMAIN s.outputs = UNION {StackKeys(stack, a) : a \in Amount}
    BY DEF StacksOf, StackKeys
  <2>3. DOMAIN new = UNION {KeysAt(stack, d, a) : a \in Amount}
    BY <1>5 DEF NewIs
  <2> QED BY <1>8, <2>1, <2>2, <2>3
<1>10. ASSUME NEW a \in Amount, NEW n \in 1..Len(P[a])
       PROVE  t.outputs[<<a, n - 1>>] =
                [key |-> P[a][n].key, unlock_time |-> P[a][n].unlock_time,
                 height |-> P[a][n].height, spent |-> <<a, n - 1>> \in S \cup d.spent]
  <2>1. PICK L \in Nat, M \in Nat : L = Len(stack[a]) /\ M = Len(d.amounts[a]) /\ Len(P[a]) = L + M
    BY <1>6 DEF PushedIs
  <2>2. PICK k : k = <<a, n - 1>>
    OBVIOUS
  <2>3. CASE n \in 1..L
    <3>1. s.outputs[k] = [key |-> stack[a][n].key, unlock_time |-> stack[a][n].unlock_time,
                          height |-> stack[a][n].height, spent |-> k \in S]
      BY <2>1, <2>2, <2>3 DEF StacksOf
    <3>2. P[a][n] = stack[a][n]
      BY <1>6, <2>1, <2>3 DEF PushedIs
    <3>3. k \in DOMAIN s.outputs
      BY <2>1, <2>2, <2>3 DEF StacksOf
    <3>4. CASE k \in d.spent
      <4>1. t.outputs[k] = [s.outputs[k] EXCEPT !.spent = TRUE]
        BY <1>8, <3>3, <3>4
      <4>2. t.outputs[k] = [key |-> P[a][n].key, unlock_time |-> P[a][n].unlock_time,
                            height |-> P[a][n].height, spent |-> TRUE]
        <5>1. PICK p : s.outputs[k] = [key |-> stack[a][n].key, unlock_time |-> stack[a][n].unlock_time,
                                       height |-> stack[a][n].height, spent |-> p]
          BY <3>1
        <5>2. PICK x, y, z : x = stack[a][n].key /\ y = stack[a][n].unlock_time /\ z = stack[a][n].height
          OBVIOUS
        <5>3. t.outputs[k] = [[key |-> x, unlock_time |-> y, height |-> z, spent |-> p] EXCEPT !.spent = TRUE]
          BY <4>1, <5>1, <5>2
        <5>4. t.outputs[k] = [key |-> x, unlock_time |-> y, height |-> z, spent |-> TRUE]
          BY <5>3, SlotSpent
        <5> QED BY <3>2, <5>2, <5>4
      <4>3. (k \in S \cup d.spent) = TRUE
        BY <3>4
      <4> QED BY <2>2, <4>2, <4>3
    <3>5. CASE k \notin d.spent
      <4>1. t.outputs[k] = s.outputs[k]
        BY <1>8, <3>3, <3>5
      <4>2. (k \in S \cup d.spent) = (k \in S)
        BY <3>5
      <4> QED BY <2>2, <3>1, <3>2, <4>1, <4>2
    <3> QED BY <3>4, <3>5
  <2>4. CASE n \notin 1..L
    <3>1. PICK i \in 1..M : i = n - L /\ n = L + i /\ n - 1 = L + i - 1
      <4>1. n \in 1..L + M
        BY <2>1
      <4>2. n - L \in 1..M /\ n = L + (n - L) /\ n - 1 = L + (n - L) - 1
        BY <2>4, <4>1
      <4> QED BY <4>2
    <3>2. new[k] = [key |-> d.amounts[a][i].key, unlock_time |-> d.amounts[a][i].unlock_time,
                    height |-> h, spent |-> FALSE]
      BY <1>5, <2>1, <2>2, <3>1 DEF NewIs
    <3>3. k \in DOMAIN new
      <4>1. k \in KeysAt(stack, d, a)
        BY <2>1, <2>2, <3>1 DEF KeysAt
      <4> QED BY <1>5, <4>1 DEF NewIs
    <3>4. t.outputs[k] = new[k]
      BY <1>8, <3>3
    <3>5. P[a][n] = Stamp(d.amounts[a][i], h)
      <4>1. P[a][Len(stack[a]) + i] = Stamp(d.amounts[a][i], h)
        BY <1>6, <2>1, <3>1 DEF PushedIs
      <4> QED BY <2>1, <3>1, <4>1
    <3>6. P[a][n].key = d.amounts[a][i].key /\ P[a][n].unlock_time = d.amounts[a][i].unlock_time /\ P[a][n].height = h
      BY <3>5 DEF Stamp
    <3>7. (k \in S \cup d.spent) = FALSE
      BY <1>7, <3>3
    <3> QED BY <2>2, <3>2, <3>4, <3>6, <3>7
  <2> QED BY <2>3, <2>4
<1>11. ASSUME NEW a \in Amount
       PROVE  t.next_gi[a] \in {Unknown, Len(P[a])}
  <2>1. s.next_gi[a] \in {Unknown, Len(stack[a])}
    BY DEF StacksOf
  <2>2. next_global_index_for_amount(s, a) = Len(stack[a])
    BY NextIndex
  <2>3. d.amounts[a] = <<>> => Len(d.amounts[a]) = 0
    OBVIOUS
  <2>4. PICK L \in Nat, M \in Nat : L = Len(stack[a]) /\ M = Len(d.amounts[a]) /\ Len(P[a]) = L + M
    BY <1>6 DEF PushedIs
  <2>5. CASE d.amounts[a] = <<>>
    BY <1>4, <2>1, <2>3, <2>4, <2>5
  <2>6. CASE d.amounts[a] # <<>>
    BY <1>4, <2>2, <2>4, <2>6
  <2> QED BY <2>5, <2>6
<1> QED BY <1>1, <1>3, <1>9, <1>10, <1>11 DEF StacksOf, StackKeys

-------------------------------------------------------------------------------
(***************************************************************************)
(* What a block adds.                                                      *)
(***************************************************************************)
\* Outputs of the stacks of a chain.
Below(S, c) == \A k \in S : \E a \in Amount, g \in Nat : k = <<a, g>> /\ g < Len(Stack(c, a))

\* What a chain and a good block on top spend is on the stacks of the chain.
LEMMA SpentBelow ==
  ASSUME NEW c, GoodChain(c)
  PROVE  /\ Below(SpentOf(c), c)
         /\ \A b \in Block : Good(c, b) => Below(SpentIn(BlockInputs(b)), c)
<1>1. ASSUME NEW k \in SpentOf(c)
      PROVE  \E a \in Amount, g \in Nat : k = <<a, g>> /\ g < Len(Stack(c, a))
  <2>1. PICK in \in {x.in : x \in AllInputs(c)} : Len(in.ring) = 1 /\ k = <<in.amount, in.ring[1]>>
    BY DEF SpentOf, SpentIn
  <2>2. PICK x \in AllInputs(c) : in = x.in
    BY <2>1
  <2>3. Names(c, in) /\ \E b \in Block : in \in BlockInputs(b)
    BY <2>1, <2>2, NamesBefore
  <2>4. in.amount \in Amount
    BY <2>3, InputShape
  <2> QED BY <2>1, <2>3, <2>4 DEF Names
<1>2. ASSUME NEW b \in Block, Good(c, b), NEW k \in SpentIn(BlockInputs(b))
      PROVE  \E a \in Amount, g \in Nat : k = <<a, g>> /\ g < Len(Stack(c, a))
  <2>1. PICK in \in BlockInputs(b) : Len(in.ring) = 1 /\ k = <<in.amount, in.ring[1]>>
    BY DEF SpentIn
  <2>2. Names(c, in)
    BY <1>2, <2>1, NamesHere
  <2>3. in.amount \in Amount
    BY InputShape
  <2> QED BY <2>1, <2>2, <2>3 DEF Names
<1> QED BY <1>1, <1>2 DEF Below

\* They are in the tables.
LEMMA BelowStored ==
  ASSUME NEW s, NEW c \in Seq(Block), NEW S, StacksOf(s, StacksIn(c), S), NEW U, Below(U, c)
  PROVE  U \subseteq DOMAIN s.outputs
<1> SUFFICES ASSUME NEW k \in U PROVE k \in DOMAIN s.outputs
  OBVIOUS
<1>1. PICK a \in Amount, g \in Nat : k = <<a, g>> /\ g < Len(Stack(c, a))
  BY DEF Below
<1>2. PICK st \in Stacks : st = StacksIn(c) /\ st[a] = Stack(c, a)
  BY StacksInTyped
<1>3. StacksOf(s, st, S) /\ g < Len(st[a])
  BY <1>1, <1>2
<1>4. <<a, g>> \in DOMAIN s.outputs
  BY <1>3, KeysOf
<1> QED BY <1>1, <1>4

\* A block that extends a chain brings its own height, transactions, key images
\* and spent outputs.
LEMMA FreshHeight ==
  ASSUME NEW c \in Seq(Block), NEW b \in Block, IsChain(Append(c, b))
  PROVE  /\ Height[b] = Len(c) /\ IsChain(c)
         /\ \A i \in 1..Len(c) : c[i] \in Block /\ Height[c[i]] = i - 1 /\ Height[c[i]] # Height[b] /\ c[i] # b
<1>1. PICK d \in Seq(Block), n \in Nat : d = Append(c, b) /\ n = Len(c)
  <2>1. Append(c, b) \in Seq(Block) /\ Len(c) \in Nat
    BY AppendFacts
  <2> QED BY <2>1
<1>2. Len(d) = n + 1 /\ d[n + 1] = b /\ \A i \in 1..n : d[i] = c[i]
  BY <1>1, AppendFacts
<1>3. \A i \in 1..n + 1 : d[i] \in Block /\ Height[d[i]] = i - 1
  BY <1>1, <1>2, ChainHeights
<1>4. Height[b] = n
  <2>1. n + 1 \in 1..n + 1 /\ (n + 1) - 1 = n
    OBVIOUS
  <2> QED BY <1>2, <1>3, <2>1
<1>5. \A i \in 1..n : c[i] \in Block /\ Height[c[i]] = i - 1 /\ i - 1 # n
  <2>1. \A i \in 1..n : i \in 1..n + 1
    OBVIOUS
  <2> QED BY <1>2, <1>3, <2>1
<1>6. IsChain(c)
  <2>1. \A i \in 1..n + 1 : IF i = 1 THEN d[1] = Genesis ELSE d[i] # Genesis /\ Parent[d[i]] = d[i - 1]
    BY <1>1, <1>2 DEF IsChain
  <2>2. ASSUME NEW i \in 1..n
        PROVE  IF i = 1 THEN c[1] = Genesis ELSE c[i] # Genesis /\ Parent[c[i]] = c[i - 1]
    <3>1. i \in 1..n + 1 /\ c[i] = d[i] /\ (i # 1 => i - 1 \in 1..n)
      BY <1>2
    <3> QED BY <1>2, <2>1, <3>1
  <2> QED BY <1>1, <2>2 DEF IsChain
<1> QED BY <1>1, <1>4, <1>5, <1>6

\* The key images of a good block are new.
LEMMA FreshKeyImages ==
  ASSUME NEW c, NEW b \in Block, Good(c, b)
  PROVE  KeyImagesOf(BlockInputs(b)) \cap KeyImagesIn(c) = {}
BY GoodIs DEF GoodInput, KeyImagesOf

\* So are its transactions.
LEMMA FreshTids ==
  ASSUME NEW c \in Seq(Block), NEW b \in Block, IsChain(Append(c, b)), Good(c, b), NEW i \in 1..Len(c)
  PROVE  Tids(b) \cap Tids(c[i]) = {}
<1> SUFFICES ASSUME NEW m \in 1..Len(Txs[b]), NEW n \in 1..Len(Txs[c[i]]), Txs[b][m].tid = Txs[c[i]][n].tid
             PROVE  FALSE
  BY DEF Tids, Tid
<1>1. c[i] \in Block /\ Height[c[i]] # Height[b]
  BY FreshHeight
<1>2. Txs[b][m] = Txs[c[i]][n] /\ Txs[b][m].inputs # <<>>
  BY <1>1, HashAssumption
<1>3. PICK t : t = Txs[b][m] /\ t \in BlockTxs(b) /\ t \in BlockTxs(c[i]) /\ t.inputs # <<>>
  BY <1>2 DEF BlockTxs
<1>4. t.inputs \in Seq(KeyInputs(t))
  BY <1>3, TransactionAssumption
<1>5. t.inputs[1] \in KeyInputs(t)
  BY <1>3, <1>4
<1>6. PICK in : in \in BlockInputs(b) /\ in \in BlockInputs(c[i])
  BY <1>3, <1>5 DEF BlockInputs
<1>7. [in |-> in, height |-> Height[c[i]]] \in AllInputs(c)
  <2>1. [in |-> in, height |-> Height[c[i]]] \in {[in |-> y, height |-> Height[c[i]]] : y \in BlockInputs(c[i])}
    BY <1>6
  <2> QED BY <2>1 DEF AllInputs
<1>8. in.key_image \in KeyImagesIn(c)
  <2>1. PICK x \in AllInputs(c) : x.in = in
    BY <1>7
  <2> QED BY <2>1 DEF KeyImagesIn
<1> QED BY <1>6, <1>8, GoodIs DEF GoodInput

\* What the j-th transaction spends is spent neither on the chain nor by the
\* transactions before it.
LEMMA FreshSpent ==
  ASSUME NEW c, GoodChain(c), NEW b \in Block, Good(c, b), NEW j \in 1..Len(Txs[b])
  PROVE  SpentIn(KeyInputs(Txs[b][j])) \cap (SpentOf(c) \cup SpentIn(InputsUpto(b, j - 1))) = {}
<1> SUFFICES ASSUME NEW k, k \in SpentIn(KeyInputs(Txs[b][j])),
                    k \in SpentOf(c) \cup SpentIn(InputsUpto(b, j - 1))
             PROVE  FALSE
  OBVIOUS
<1>1. PICK x \in KeyInputs(Txs[b][j]) : Len(x.ring) = 1 /\ k = <<x.amount, x.ring[1]>>
  BY DEF SpentIn
<1>2. x \in BlockInputs(b)
  BY DEF BlockInputs, BlockTxs
<1>3. Names(c, x)
  BY <1>1, <1>2, NamesHere
<1>4. CASE k \in SpentOf(c)
  <2>1. PICK y \in {z.in : z \in AllInputs(c)} : Len(y.ring) = 1 /\ k = <<y.amount, y.ring[1]>>
    BY <1>4 DEF SpentOf, SpentIn
  <2>2. PICK z \in AllInputs(c) : y = z.in
    BY <2>1
  <2>3. PICK d \in Block : Names(c, y) /\ y \in BlockInputs(d)
    BY <2>1, <2>2, NamesBefore
  <2>4. x.key_image = y.key_image
    BY <1>1, <1>2, <1>3, <2>1, <2>3, SameOutput
  <2>5. y.key_image \in KeyImagesIn(c)
    BY <2>2 DEF KeyImagesIn
  <2> QED BY <1>2, <2>4, <2>5, GoodIs DEF GoodInput
<1>5. CASE k \in SpentIn(InputsUpto(b, j - 1))
  <2>1. PICK y \in InputsUpto(b, j - 1) : Len(y.ring) = 1 /\ k = <<y.amount, y.ring[1]>>
    BY <1>5 DEF SpentIn
  <2>2. j - 1 \in 0..Len(Txs[b])
    BY TxShape
  <2>3. y \in BlockInputs(b)
    BY <2>2, InputsUptoFacts
  <2>4. Names(c, y)
    BY <2>1, <2>3, NamesHere
  <2>5. x.key_image = y.key_image
    BY <1>1, <1>2, <1>3, <2>1, <2>3, <2>4, SameOutput
  <2> QED BY <2>5, KeyImagesDiffer, GoodIs DEF KeyImagesOf
<1> QED BY <1>4, <1>5

\* The index g leads to the output o of a block of height h.
HomeAt(g, u, o, h) ==
  /\ g \in Nat /\ g < Len(Stack(u, o.amount))
  /\ Stack(u, o.amount)[g + 1] = Stamp(o, h)

HomeIn(ix, u, b) ==
  \A j \in 1..Len(Txs[b]) : \A n \in 1..Len(Txs[b][j].outputs) :
    HomeAt(ix[j][n], u, Txs[b][j].outputs[n], Height[b])

\* The global index that redo_block stores for an output leads to it.
LEMMA IndexLeadsHome ==
  ASSUME NEW c \in Seq(Block), NEW b \in Block, NEW j \in 1..Len(Txs[b]),
         NEW n \in 1..Len(Txs[b][j].outputs)
  PROVE  HomeAt(IndexOf(StacksIn(c), b, j, n), Append(c, b), Txs[b][j].outputs[n], Height[b])
<1>1. PICK t, o : t = Txs[b][j] /\ o = t.outputs[n]
  OBVIOUS
<1>2. t.outputs \in Seq(OutputSet) /\ n \in 1..Len(t.outputs) /\ o.amount \in Amount
  BY <1>1, TxShape
<1>3. PICK a \in Amount : a = o.amount
  BY <1>2
<1>4. PICK N \in Nat : N = Len(Txs[b]) /\ j \in 1..N
  BY TxShape
<1>5. PICK F : F = [k \in 0..N |-> BlockStack(b, k, a)]
  OBVIOUS
<1>6. \A k \in 0..N : F[k] \in Seq(OutputSet)
  BY <1>4, <1>5, BlockStackFacts
<1>7. ASSUME NEW k \in 1..N
      PROVE  OutputsOf(Txs[b][k], a) \in Seq(OutputSet) /\ F[k] = F[k - 1] \o OutputsOf(Txs[b][k], a)
  <2>1. k \in 0..N /\ k - 1 \in 0..N
    OBVIOUS
  <2> QED BY <1>4, <1>5, <2>1, BlockStackFacts
<1>8. \A k \in 1..N : \E x \in Seq(OutputSet) : F[k] = F[k - 1] \o x
  BY <1>7
<1>9. j \in 0..N /\ j - 1 \in 0..N /\ N \in 0..N /\ j <= N
  BY <1>4
<1>10. Begins(F[j], F[N])
  BY <1>6, <1>8, <1>9, GrowingBegins
<1>11. PICK u \in Seq(OutputSet), v \in Seq(OutputSet), x \in Seq(OutputSet) :
         u = F[j - 1] /\ v = OutputsOf(t, a) /\ x = F[N] /\ F[j] = u \o v
  BY <1>1, <1>4, <1>6, <1>7, <1>9
<1>12. PICK m : m = Len(OfAmount(SubSeq(t.outputs, 1, n - 1), a))
  OBVIOUS
<1>13. m \in Nat /\ m < Len(v) /\ v[m + 1] = o
  BY <1>1, <1>2, <1>3, <1>11, <1>12, OfAmountAt DEF OutputsOf
<1>14. PICK l \in Nat : l = Len(u)
  OBVIOUS
<1>15. /\ Len(u \o v) = l + Len(v) /\ Len(v) \in Nat /\ Len(x) \in Nat
       /\ \A i \in 1..Len(v) : (u \o v)[Len(u) + i] = v[i]
  BY <1>14, Concat
<1>16. PICK q \in Nat : q = l + (m + 1)
  BY <1>13
<1>17. (u \o v)[q] = o /\ q \in 1..Len(u \o v)
  <2>1. m + 1 \in 1..Len(v)
    BY <1>13, <1>15
  <2>2. (u \o v)[l + (m + 1)] = v[m + 1]
    BY <1>14, <1>15, <2>1
  <2> QED BY <1>13, <1>15, <1>16, <2>1, <2>2
<1>18. x[q] = o /\ q \in 1..Len(x)
  <2>1. PICK w : w = u \o v
    OBVIOUS
  <2>2. Begins(w, x) /\ w[q] = o /\ q \in 1..Len(w) /\ Len(w) \in Nat
    BY <1>10, <1>11, <1>14, <1>15, <1>17, <2>1
  <2> QED BY <1>15, <2>2 DEF Begins
<1>19. PICK p \in Seq(StampSet) : p = BlockPart(b, a) /\ Len(p) = Len(x) /\ p[q] = Stamp(o, Height[b])
  <2>1. BlockPart(b, a) = Stamped(x, Height[b])
    BY <1>4, <1>5, <1>9, <1>11 DEF BlockPart
  <2>2. Height[b] \in Nat
    BY BlockAssumption
  <2> QED BY <1>18, <2>1, <2>2, StampedFacts
<1>20. PICK s0 \in Seq(StampSet) : s0 = Stack(c, a) /\ Stack(Append(c, b), a) = s0 \o p
  BY <1>19, StackTyped, StackAppend
<1>21. PICK L \in Nat : L = Len(s0)
  OBVIOUS
<1>22. /\ Len(s0 \o p) = L + Len(p)
       /\ \A i \in 1..Len(p) : (s0 \o p)[Len(s0) + i] = p[i]
  BY <1>21, Concat
<1>23. PICK g : g = IndexOf(StacksIn(c), b, j, n)
  OBVIOUS
<1>24. g = (L + l) + m
  <2>1. StacksIn(c)[a] = s0
    BY <1>20, StacksInTyped
  <2>2. BlockStack(b, j - 1, a) = u
    BY <1>5, <1>9, <1>11
  <2> QED BY <1>1, <1>3, <1>12, <1>14, <1>21, <1>23, <2>1, <2>2 DEF IndexOf
<1>25. g \in Nat /\ g + 1 = L + q /\ g < L + Len(p)
  BY <1>13, <1>15, <1>16, <1>18, <1>19, <1>24
<1>26. (s0 \o p)[g + 1] = Stamp(o, Height[b])
  <2>1. (s0 \o p)[L + q] = p[q]
    BY <1>18, <1>19, <1>21, <1>22
  <2> QED BY <1>19, <1>25, <2>1
<1> QED BY <1>1, <1>3, <1>20, <1>22, <1>23, <1>25, <1>26 DEF HomeAt

\* It does so in every longer chain.
LEMMA HomeGrows ==
  ASSUME NEW c \in Seq(Block), NEW i \in 0..Len(c), NEW g, NEW o, NEW h, HomeAt(g, Upto(c, i), o, h)
  PROVE  HomeAt(g, c, o, h)
<1>1. PICK u \in Seq(StampSet), v \in Seq(StampSet) : u = Stack(Upto(c, i), o.amount) /\ v = Stack(c, o.amount)
  BY UptoFacts, StackTyped
<1>2. Begins(u, v)
  BY <1>1, StackBegins
<1>3. g \in Nat /\ g < Len(u) /\ u[g + 1] = Stamp(o, h)
  BY <1>1 DEF HomeAt
<1>4. g + 1 \in 1..Len(u) /\ Len(u) \in Nat /\ Len(v) \in Nat
  BY <1>3
<1>5. g < Len(v) /\ u[g + 1] = v[g + 1]
  BY <1>2, <1>3, <1>4 DEF Begins
<1> QED BY <1>1, <1>3, <1>5 DEF HomeAt

-------------------------------------------------------------------------------
(***************************************************************************)
(* The invariant of a ledger and its chain.                                *)
(***************************************************************************)
Found(s, c) ==
  \A i \in 1..Len(c) : \A j \in 1..Len(Txs[c[i]]) :
    s.txpos[Tid(c[i], j)] = [height |-> i - 1, index |-> j - 1]

Home(s, c) == \A i \in 1..Len(c) : HomeIn(s.indices[c[i]], Upto(c, i), c[i])

LedInv(s, c) ==
  /\ GoodChain(c)
  /\ IsLedger(s) /\ s.ok /\ DOMAIN s.next_gi = Amount
  /\ TablesOf(s, c)
  /\ DOMAIN s.indices = {c[i] : i \in 1..Len(c)}
  /\ Home(s, c)
  /\ Found(s, c)

LeadsHome(s, b, j, n) ==
  LET o == Txs[b][j].outputs[n]
      k == <<o.amount, s.indices[b][j][n]>>
  IN  /\ k \in DOMAIN s.outputs
      /\ s.outputs[k].key = o.key
      /\ s.outputs[k].height = Height[b]

\* It holds what the properties ask for.
LEMMA LedgerHome ==
  ASSUME NEW s, NEW c, LedInv(s, c), NEW i \in 1..Len(c), NEW j \in 1..Len(Txs[c[i]]),
         NEW n \in 1..Len(Txs[c[i]][j].outputs)
  PROVE  LeadsHome(s, c[i], j, n)
<1>1. PICK o, g : o = Txs[c[i]][j].outputs[n] /\ g = s.indices[c[i]][j][n]
  OBVIOUS
<1>2. c \in Seq(Block) /\ c[i] \in Block /\ i \in 0..Len(c)
  BY ChainHeights DEF LedInv, GoodChain
<1>3. HomeAt(g, Upto(c, i), o, Height[c[i]])
  BY <1>1 DEF LedInv, Home, HomeIn
<1>4. HomeAt(g, c, o, Height[c[i]])
  BY <1>2, <1>3, HomeGrows
<1>5. PICK a \in Amount : a = o.amount
  BY <1>1, <1>2, TxShape
<1>6. PICK st \in Stacks : st = StacksIn(c) /\ st[a] = Stack(c, a)
  BY <1>2, StacksInTyped
<1>7. StacksOf(s, st, SpentOf(c))
  BY <1>6 DEF LedInv, TablesOf, StacksIn
<1>8. g \in Nat /\ g < Len(st[a]) /\ st[a][g + 1] = Stamp(o, Height[c[i]])
  BY <1>4, <1>5, <1>6 DEF HomeAt
<1>9. <<a, g>> \in DOMAIN s.outputs
  BY <1>7, <1>8, KeysOf
<1>10. s.outputs[<<a, g>>].key = st[a][g + 1].key /\ s.outputs[<<a, g>>].height = st[a][g + 1].height
  <2>1. s.outputs[<<a, g>>] = Slot(st, a, g, SpentOf(c))
    BY <1>7, <1>8, SlotOf
  <2> QED BY <2>1 DEF Slot
<1>11. Stamp(o, Height[c[i]]).key = o.key /\ Stamp(o, Height[c[i]]).height = Height[c[i]]
  BY DEF Stamp
<1>12. PICK k : k = <<a, g>>
  OBVIOUS
<1>13. k \in DOMAIN s.outputs /\ s.outputs[k].key = o.key /\ s.outputs[k].height = Height[c[i]]
  BY <1>8, <1>9, <1>10, <1>11, <1>12
<1> QED BY <1>1, <1>5, <1>12, <1>13 DEF LeadsHome

\* The tables of a chain show it to the checks.
LEMMA LedgerShows ==
  ASSUME NEW s, NEW c, TablesOf(s, c)
  PROVE  Shows(s, c) /\ StacksOf(s, StacksIn(c), SpentOf(c))
BY DEF TablesOf, Shows, StacksIn, KeyImagesIn

-------------------------------------------------------------------------------
(***************************************************************************)
(* redo_block.                                                             *)
(***************************************************************************)
IsRedone(t, u, d, s, b) ==
  /\ IsLedger(t)
  /\ t.keyimages = u.keyimages /\ t.outputs = u.outputs /\ t.next_gi = u.next_gi
  /\ t.indices = Over([x \in {b} |-> d.indices], s.indices)
  /\ t.times = s.times \cup {<<Timestamp[b], Height[b]>>}
  /\ t.txpos = Over(Positions(b), s.txpos)
  /\ t.ok <=> /\ u.ok
              /\ b \notin DOMAIN s.indices
              /\ <<Timestamp[b], Height[b]>> \notin s.times
              /\ Tids(b) \cap DOMAIN s.txpos = {}

\* The fields of the ledger after redo_block.
LEMMA RedoneFields ==
  ASSUME NEW s, IsLedger(s), NEW b
  PROVE  LET d == redo_transactions(s, b)
         IN  IsRedone(Redone(s, b), apply(s, d, Height[b]), d, s, b)
<1>1. PICK d, u, t : d = redo_transactions(s, b) /\ u = apply(s, d, Height[b]) /\ t = Redone(s, b)
  OBVIOUS
<1>2. /\ IsLedger(u) /\ u.indices = s.indices /\ u.txpos = s.txpos /\ u.times = s.times
  <2>1. Applied(u, s, d, Height[b])
    BY <1>1, ApplyFields
  <2> QED BY <2>1 DEF Applied
<1> DEFINE I == Over([x \in {b} |-> d.indices], s.indices)
           W == s.times \cup {<<Timestamp[b], Height[b]>>}
           X == Over(Positions(b), s.txpos)
           P == /\ u.ok
                /\ b \notin DOMAIN s.indices
                /\ <<Timestamp[b], Height[b]>> \notin s.times
                /\ Tids(b) \cap DOMAIN s.txpos = {}
<1>3. t = [u EXCEPT !.indices = I, !.times = W, !.txpos = X, !.ok = P]
  BY <1>1, <1>2 DEF Redone
<1> HIDE DEF I, W, X, P
<1>4. /\ IsLedger(t) /\ t.indices = I /\ t.times = W /\ t.txpos = X /\ t.ok = P
      /\ t.keyimages = u.keyimages /\ t.outputs = u.outputs /\ t.next_gi = u.next_gi
  BY <1>2, <1>3 DEF IsLedger
<1> QED BY <1>1, <1>4 DEF I, W, X, P, IsRedone

\* The stacks with the outputs of a block on top are those of the longer chain.
LEMMA PushedIsStack ==
  ASSUME NEW c \in Seq(Block), NEW b \in Block, NEW d, NEW stack, DeltaOf(d, stack, b, Len(Txs[b]))
  PROVE  Pushed(StacksIn(c), d, Height[b]) = StacksIn(Append(c, b))
<1>1. \A a \in Amount : d.amounts[a] = BlockStack(b, Len(Txs[b]), a)
  BY DEF DeltaOf
<1>2. ASSUME NEW a \in Amount
      PROVE  StacksIn(c)[a] \o Stamped(d.amounts[a], Height[b]) = Stack(Append(c, b), a)
  <2>1. Stack(Append(c, b), a) = Stack(c, a) \o BlockPart(b, a)
    BY StackAppend
  <2>2. StacksIn(c)[a] = Stack(c, a)
    BY DEF StacksIn
  <2> QED BY <1>1, <2>1, <2>2 DEF BlockPart
<1> QED BY <1>2 DEF Pushed, StacksIn

\* The inputs of a block, with its height.
Entries(b) == {[in |-> in, height |-> Height[b]] : in \in BlockInputs(b)}

\* The entries of a block are its inputs.
LEMMA EntriesAre ==
  ASSUME NEW b
  PROVE  /\ \A in \in BlockInputs(b) : \E x \in Entries(b) : x.in = in /\ x.height = Height[b]
         /\ \A x \in Entries(b) : x.in \in BlockInputs(b) /\ x.height = Height[b]
<1>1. ASSUME NEW in \in BlockInputs(b)
      PROVE  \E x \in Entries(b) : x.in = in /\ x.height = Height[b]
  <2>1. PICK x : x = [in |-> in, height |-> Height[b]]
    OBVIOUS
  <2>2. x \in Entries(b) /\ x.in = in /\ x.height = Height[b]
    BY <2>1 DEF Entries
  <2> QED BY <2>2
<1> QED BY <1>1 DEF Entries

\* The spent outputs of a chain and one block more.
LEMMA SpentAppend ==
  ASSUME NEW c \in Seq(Block), NEW b \in Block
  PROVE  SpentOf(Append(c, b)) = SpentOf(c) \cup SpentIn(BlockInputs(b))
<1>1. AllInputs(Append(c, b)) = AllInputs(c) \cup Entries(b)
  BY InputsAppend DEF Entries
<1>2. {x.in : x \in Entries(b)} = BlockInputs(b)
  BY EntriesAre
<1>3. {x.in : x \in AllInputs(c) \cup Entries(b)} = {x.in : x \in AllInputs(c)} \cup {x.in : x \in Entries(b)}
  OBVIOUS
<1> QED BY <1>1, <1>2, <1>3, SpentParts DEF SpentOf

\* Its key images.
LEMMA KeyImagesAppend ==
  ASSUME NEW c \in Seq(Block), NEW b \in Block
  PROVE  KeyImagesIn(Append(c, b)) = KeyImagesIn(c) \cup KeyImagesOf(BlockInputs(b))
<1>1. AllInputs(Append(c, b)) = AllInputs(c) \cup Entries(b)
  BY InputsAppend DEF Entries
<1>2. {x.in.key_image : x \in Entries(b)} = {in.key_image : in \in BlockInputs(b)}
  BY EntriesAre
<1>3. {x.in.key_image : x \in AllInputs(c) \cup Entries(b)}
        = {x.in.key_image : x \in AllInputs(c)} \cup {x.in.key_image : x \in Entries(b)}
  OBVIOUS
<1> QED BY <1>1, <1>2, <1>3 DEF KeyImagesIn, KeyImagesOf

\* Its blocks, times and transactions.
LEMMA BlocksAppend ==
  ASSUME NEW c \in Seq(Block), NEW b \in Block
  PROVE  /\ {Append(c, b)[i] : i \in 1..Len(Append(c, b))} = {c[i] : i \in 1..Len(c)} \cup {b}
         /\ {<<Timestamp[Append(c, b)[i]], Height[Append(c, b)[i]]>> : i \in 1..Len(Append(c, b))}
              = {<<Timestamp[c[i]], Height[c[i]]>> : i \in 1..Len(c)} \cup {<<Timestamp[b], Height[b]>>}
         /\ UNION {Tids(Append(c, b)[i]) : i \in 1..Len(Append(c, b))}
              = (UNION {Tids(c[i]) : i \in 1..Len(c)}) \cup Tids(b)
<1>1. PICK d \in Seq(Block), n \in Nat : d = Append(c, b) /\ n = Len(c)
  <2>1. Append(c, b) \in Seq(Block) /\ Len(c) \in Nat
    BY AppendFacts
  <2> QED BY <2>1
<1>2. Len(d) = n + 1 /\ d[n + 1] = b /\ \A i \in 1..n : d[i] = c[i]
  BY <1>1, AppendFacts
<1>3. \A i : i \in 1..n + 1 <=> i \in 1..n \/ i = n + 1
  OBVIOUS
<1>4. {d[i] : i \in 1..n + 1} = {c[i] : i \in 1..n} \cup {b}
  BY <1>2, <1>3
<1>5. {<<Timestamp[d[i]], Height[d[i]]>> : i \in 1..n + 1}
         = {<<Timestamp[c[i]], Height[c[i]]>> : i \in 1..n} \cup {<<Timestamp[b], Height[b]>>}
  BY <1>2, <1>3
<1>6. UNION {Tids(d[i]) : i \in 1..n + 1} = (UNION {Tids(c[i]) : i \in 1..n}) \cup Tids(b)
  BY <1>2, <1>3
<1> QED BY <1>1, <1>2, <1>4, <1>5, <1>6

\* The places of the transactions of a block.
LEMMA PositionsAre ==
  ASSUME NEW b \in Block
  PROVE  /\ DOMAIN Positions(b) = Tids(b)
         /\ \A j \in 1..Len(Txs[b]) : Positions(b)[Tid(b, j)] = [height |-> Height[b], index |-> j - 1]
<1>1. DOMAIN Positions(b) = Tids(b)
  BY DEF Positions
<1>2. ASSUME NEW j \in 1..Len(Txs[b])
      PROVE  Positions(b)[Tid(b, j)] = [height |-> Height[b], index |-> j - 1]
  <2>1. \A i \in 1..Len(Txs[b]) : Tid(b, i) = Tid(b, j) => i = j
    BY HashAssumption DEF Tid
  <2>2. PICK m : m = CHOOSE i \in 1..Len(Txs[b]) : Tid(b, i) = Tid(b, j)
    OBVIOUS
  <2>3. m \in 1..Len(Txs[b]) /\ Tid(b, m) = Tid(b, j)
    BY <2>2
  <2>4. m = j
    BY <2>1, <2>3
  <2>5. Tid(b, j) \in Tids(b)
    BY DEF Tids
  <2> QED BY <2>2, <2>4, <2>5 DEF Positions
<1> QED BY <1>1, <1>2

BlocksOf(c) == {c[i] : i \in 1..Len(c)}

\* The blocks of a chain and one block more.
LEMMA BlocksOfAppend ==
  ASSUME NEW c \in Seq(Block), NEW b \in Block
  PROVE  BlocksOf(Append(c, b)) = BlocksOf(c) \cup {b}
BY BlocksAppend DEF BlocksOf

TimesOf(c) == {<<Timestamp[c[i]], Height[c[i]]>> : i \in 1..Len(c)}

\* The times of a chain and one block more.
LEMMA TimesAppend ==
  ASSUME NEW c \in Seq(Block), NEW b \in Block
  PROVE  TimesOf(Append(c, b)) = TimesOf(c) \cup {<<Timestamp[b], Height[b]>>}
BY BlocksAppend DEF TimesOf

\* redo_block: the tables.
LEMMA RedoTables ==
  ASSUME NEW s, NEW c \in Seq(Block), LedInv(s, c), NEW b \in Block, IsChain(Append(c, b)), Good(c, b)
  PROVE  TablesOf(Redone(s, b), Append(c, b)) /\ IsLedger(Redone(s, b)) /\ Redone(s, b).ok
<1>1. PICK d, u, t, e, h : /\ d = redo_transactions(s, b) /\ u = apply(s, d, h) /\ t = Redone(s, b)
                           /\ e = Append(c, b) /\ h = Height[b]
  OBVIOUS
<1>2. PICK st \in Stacks : st = StacksIn(c) /\ StacksOf(s, st, SpentOf(c))
  BY StacksInTyped, LedgerShows DEF LedInv
<1>3. DeltaOf(d, st, b, Len(Txs[b]))
  BY <1>1, <1>2, DeltaIs, GoodIs
<1>4. IsRedone(t, u, d, s, b) /\ Applied(u, s, d, h)
  BY <1>1, RedoneFields, ApplyFields DEF LedInv
<1>5. h \in Nat /\ h = Len(c) /\ \A i \in 1..Len(c) : c[i] \in Block /\ Height[c[i]] # h /\ c[i] # b
  BY <1>1, FreshHeight
<1>6. InputsUpto(b, Len(Txs[b])) = BlockInputs(b)
  BY InputsUptoFacts
<1>7. /\ d.keyimages = KeyImagesOf(BlockInputs(b)) /\ d.spent = SpentIn(BlockInputs(b)) /\ d.ok
      /\ d.amounts \in [Amount -> Seq(OutputSet)]
  <2>1. Len(Txs[b]) \in 0..Len(Txs[b])
    BY TxShape
  <2>2. \A a \in Amount : BlockStack(b, Len(Txs[b]), a) \in Seq(OutputSet)
    BY <2>1, BlockStackFacts
  <2> QED BY <1>3, <1>6, <2>2 DEF DeltaOf
<1>8. SpentOf(c) \subseteq DOMAIN s.outputs /\ d.spent \subseteq DOMAIN s.outputs
  <2>1. Below(SpentOf(c), c) /\ Below(d.spent, c)
    BY <1>7, SpentBelow DEF LedInv
  <2> QED BY <1>2, <2>1, BelowStored
<1>9. StacksOf(t, StacksIn(e), SpentOf(e))
  <2>1. StacksOf(u, Pushed(st, d, h), SpentOf(c) \cup d.spent)
    BY <1>1, <1>2, <1>5, <1>7, <1>8, ApplyStacks DEF LedInv
  <2>2. Pushed(st, d, h) = StacksIn(e)
    BY <1>1, <1>2, <1>3, PushedIsStack
  <2>3. SpentOf(c) \cup d.spent = SpentOf(e)
    BY <1>1, <1>7, SpentAppend
  <2>4. t.outputs = u.outputs /\ t.next_gi = u.next_gi
    BY <1>4 DEF IsRedone
  <2>5. StacksOf(u, StacksIn(e), SpentOf(e))
    BY <2>1, <2>2, <2>3
  <2> QED BY <2>4, <2>5 DEF StacksOf
<1>10. /\ DOMAIN s.keyimages = KeyImagesIn(c) /\ \A x \in AllInputs(c) : s.keyimages[x.in.key_image] = x.height
       /\ s.times = {<<Timestamp[c[i]], Height[c[i]]>> : i \in 1..Len(c)}
       /\ DOMAIN s.txpos = UNION {Tids(c[i]) : i \in 1..Len(c)}
  BY DEF LedInv, TablesOf, KeyImagesIn
<1>11. d.keyimages \cap DOMAIN s.keyimages = {}
  BY <1>7, <1>10, FreshKeyImages
<1>12. /\ DOMAIN t.keyimages = KeyImagesIn(e)
       /\ \A x \in AllInputs(e) : t.keyimages[x.in.key_image] = x.height
  <2>1. PICK new : new = [k \in d.keyimages |-> h]
    OBVIOUS
  <2>2. t.keyimages = Over(new, s.keyimages)
    BY <1>4, <2>1 DEF IsRedone, Applied
  <2>3. PICK earlier : earlier = s.keyimages
    OBVIOUS
  <2>4. t.keyimages = Over(new, earlier)
    BY <2>2, <2>3
  <2>5. DOMAIN t.keyimages = (DOMAIN new) \cup (DOMAIN earlier)
        /\ \A k \in (DOMAIN new) \cup (DOMAIN earlier) : t.keyimages[k] = IF k \in DOMAIN new THEN new[k] ELSE earlier[k]
    BY <2>4 DEF Over
  <2>6. DOMAIN new = d.keyimages /\ \A k \in d.keyimages : new[k] = h
    BY <2>1
  <2>7. DOMAIN t.keyimages = KeyImagesIn(e)
    BY <1>1, <1>7, <1>10, <2>3, <2>5, <2>6, KeyImagesAppend
  <2>8. ASSUME NEW x \in AllInputs(e)
        PROVE  t.keyimages[x.in.key_image] = x.height
    <3>1. x \in AllInputs(c) \/ x \in Entries(b)
      BY <1>1, InputsAppend DEF Entries
    <3>2. CASE x \in AllInputs(c)
      <4>1. x.in.key_image \in DOMAIN earlier /\ x.in.key_image \notin DOMAIN new /\ earlier[x.in.key_image] = x.height
        BY <1>10, <1>11, <2>3, <2>6, <3>2 DEF KeyImagesIn
      <4> QED BY <2>5, <4>1
    <3>3. CASE x \in Entries(b)
      <4>1. x.in \in BlockInputs(b) /\ x.height = h
        BY <1>1, <3>3, EntriesAre
      <4>2. x.in.key_image \in d.keyimages
        BY <1>7, <4>1 DEF KeyImagesOf
      <4> QED BY <2>5, <2>6, <4>1, <4>2
    <3> QED BY <3>1, <3>2, <3>3
  <2> QED BY <2>7, <2>8
<1>13. t.times = {<<Timestamp[e[i]], Height[e[i]]>> : i \in 1..Len(e)}
  <2>1. t.times = s.times \cup {<<Timestamp[b], Height[b]>>}
    BY <1>4 DEF IsRedone
  <2>2. TimesOf(e) = TimesOf(c) \cup {<<Timestamp[b], Height[b]>>}
    BY <1>1, TimesAppend
  <2>3. s.times = TimesOf(c)
    BY <1>10 DEF TimesOf
  <2>4. t.times = TimesOf(e)
    BY <2>1, <2>2, <2>3
  <2> QED BY <2>4 DEF TimesOf
<1>14. DOMAIN t.txpos = UNION {Tids(e[i]) : i \in 1..Len(e)}
  <2>1. PICK p, q : p = Positions(b) /\ q = s.txpos
    OBVIOUS
  <2>2. DOMAIN Over(p, q) = (DOMAIN p) \cup (DOMAIN q)
    BY DEF Over
  <2>3. t.txpos = Over(p, q)
    BY <1>4, <2>1 DEF IsRedone
  <2>4. DOMAIN p = Tids(b)
    BY <2>1, PositionsAre
  <2>5. DOMAIN t.txpos = (UNION {Tids(c[i]) : i \in 1..Len(c)}) \cup Tids(b)
    BY <1>10, <2>1, <2>2, <2>3, <2>4
  <2> QED BY <1>1, <2>5, BlocksAppend
<1>15. t.ok
  <2>1. DOMAIN NewOutputs(s, d, h) \cap DOMAIN s.outputs = {}
    BY <1>2, <1>5, <1>7, NewAreNew
  <2>2. u.ok
    BY <1>4, <1>7, <1>11, <2>1 DEF Applied, LedInv
  <2>3. b \notin DOMAIN s.indices
    BY <1>5 DEF LedInv
  <2>4. <<Timestamp[b], Height[b]>> \notin s.times
    BY <1>1, <1>5, <1>10
  <2>5. Tids(b) \cap DOMAIN s.txpos = {}
    <3>1. \A i \in 1..Len(c) : Tids(b) \cap Tids(c[i]) = {}
      BY FreshTids
    <3> QED BY <1>10, <3>1
  <2> QED BY <1>4, <2>2, <2>3, <2>4, <2>5 DEF IsRedone
<1>16. TablesOf(t, e)
  BY <1>9, <1>12, <1>13, <1>14 DEF TablesOf, KeyImagesIn, StacksIn
<1> QED BY <1>1, <1>4, <1>15, <1>16 DEF IsRedone

\* redo_block: the indices of blocks and transactions.
LEMMA RedoIndices ==
  ASSUME NEW s, NEW c \in Seq(Block), LedInv(s, c), NEW b \in Block, IsChain(Append(c, b)), Good(c, b)
  PROVE  /\ DOMAIN Redone(s, b).indices = {Append(c, b)[i] : i \in 1..Len(Append(c, b))}
         /\ Home(Redone(s, b), Append(c, b)) /\ Found(Redone(s, b), Append(c, b))
<1>1. PICK d, t, e, n : d = redo_transactions(s, b) /\ t = Redone(s, b) /\ e = Append(c, b) /\ n = Len(c)
  OBVIOUS
<1>2. PICK st \in Stacks : st = StacksIn(c) /\ StacksOf(s, st, SpentOf(c))
  BY StacksInTyped, LedgerShows DEF LedInv
<1>3. DeltaOf(d, st, b, Len(Txs[b]))
  BY <1>1, <1>2, DeltaIs, GoodIs
<1>4. /\ t.indices = Over([x \in {b} |-> d.indices], s.indices)
      /\ t.txpos = Over(Positions(b), s.txpos)
  <2>1. PICK u : u = apply(s, d, Height[b])
    OBVIOUS
  <2>2. IsRedone(t, u, d, s, b)
    BY <1>1, <2>1, RedoneFields DEF LedInv
  <2> QED BY <2>2 DEF IsRedone
<1>5. Height[b] = n /\ n \in Nat /\ \A i \in 1..n : c[i] \in Block /\ c[i] # b
  BY <1>1, FreshHeight
<1>6. /\ e \in Seq(Block) /\ Len(e) = n + 1 /\ e[n + 1] = b /\ \A i \in 1..n : e[i] = c[i]
      /\ \A i \in 0..n : Upto(e, i) = Upto(c, i)
  BY <1>1, AppendFacts
<1>7. DOMAIN s.indices = {c[i] : i \in 1..n}
  BY <1>1 DEF LedInv
<1>8. /\ DOMAIN t.indices = {c[i] : i \in 1..n} \cup {b}
      /\ t.indices[b] = d.indices /\ \A i \in 1..n : t.indices[c[i]] = s.indices[c[i]]
  <2>1. PICK p, q : p = [x \in {b} |-> d.indices] /\ q = s.indices
    OBVIOUS
  <2>2. /\ DOMAIN t.indices = (DOMAIN p) \cup (DOMAIN q)
        /\ \A k \in (DOMAIN p) \cup (DOMAIN q) : t.indices[k] = IF k \in DOMAIN p THEN p[k] ELSE q[k]
    BY <1>4, <2>1 DEF Over
  <2>3. DOMAIN p = {b} /\ p[b] = d.indices
    BY <2>1
  <2> QED BY <1>5, <1>7, <2>1, <2>2, <2>3
<1>9. DOMAIN t.indices = {e[i] : i \in 1..Len(e)}
  BY <1>1, <1>8, BlocksAppend
<1>10. ASSUME NEW i \in 1..n + 1
       PROVE  HomeIn(t.indices[e[i]], Upto(e, i), e[i])
  <2>1. CASE i = n + 1
    <3>1. Upto(e, i) = e /\ e[i] = b /\ t.indices[e[i]] = d.indices
      BY <1>6, <1>8, <2>1, UptoAll
    <3>2. ASSUME NEW j \in 1..Len(Txs[b]), NEW m \in 1..Len(Txs[b][j].outputs)
          PROVE  HomeAt(d.indices[j][m], e, Txs[b][j].outputs[m], Height[b])
      <4>1. d.indices[j][m] = IndexOf(st, b, j, m)
        BY <1>3 DEF DeltaOf
      <4>2. HomeAt(IndexOf(StacksIn(c), b, j, m), Append(c, b), Txs[b][j].outputs[m], Height[b])
        BY IndexLeadsHome
      <4> QED BY <1>1, <1>2, <4>1, <4>2
    <3> QED BY <3>1, <3>2 DEF HomeIn
  <2>2. CASE i # n + 1
    <3>1. i \in 1..n /\ i \in 0..n
      BY <1>5, <2>2
    <3>2. HomeIn(s.indices[c[i]], Upto(c, i), c[i])
      BY <1>1, <3>1 DEF LedInv, Home
    <3> QED BY <1>6, <1>8, <3>1, <3>2
  <2> QED BY <2>1, <2>2
<1>11. ASSUME NEW i \in 1..n + 1, NEW j \in 1..Len(Txs[e[i]])
       PROVE  t.txpos[Tid(e[i], j)] = [height |-> i - 1, index |-> j - 1]
  <2>1. PICK p, q : p = Positions(b) /\ q = s.txpos
    OBVIOUS
  <2>2. \A k \in (DOMAIN p) \cup (DOMAIN q) : t.txpos[k] = IF k \in DOMAIN p THEN p[k] ELSE q[k]
    BY <1>4, <2>1 DEF Over
  <2>3. DOMAIN p = Tids(b)
    BY <2>1, PositionsAre
  <2>4. Tid(e[i], j) \in Tids(e[i])
    BY DEF Tids
  <2>5. CASE i = n + 1
    <3>1. e[i] = b /\ i - 1 = Height[b]
      BY <1>5, <1>6, <2>5
    <3>2. p[Tid(b, j)] = [height |-> Height[b], index |-> j - 1]
      BY <2>1, <3>1, PositionsAre
    <3> QED BY <2>2, <2>3, <2>4, <3>1, <3>2
  <2>6. CASE i # n + 1
    <3>1. i \in 1..n /\ e[i] = c[i]
      BY <1>5, <1>6, <2>6
    <3>2. Tids(b) \cap Tids(c[i]) = {}
      BY <1>1, <3>1, FreshTids
    <3>3. Tid(c[i], j) \in DOMAIN q
      BY <1>1, <2>1, <2>4, <3>1 DEF LedInv, TablesOf
    <3>4. s.txpos[Tid(c[i], j)] = [height |-> i - 1, index |-> j - 1]
      BY <1>1, <3>1 DEF LedInv, Found
    <3> QED BY <2>1, <2>2, <2>3, <2>4, <3>1, <3>2, <3>3, <3>4
  <2> QED BY <2>5, <2>6
<1> QED BY <1>1, <1>6, <1>9, <1>10, <1>11 DEF Home, Found

\* A good block on top of its chain keeps the invariant.
LEMMA RedoLedger ==
  ASSUME NEW s, NEW c \in Seq(Block), LedInv(s, c), NEW b \in Block, IsChain(Append(c, b)), Good(c, b)
  PROVE  LedInv(Redone(s, b), Append(c, b))
<1>1. GoodChain(Append(c, b))
  BY ChainAppend DEF LedInv
<1>2. DOMAIN Redone(s, b).next_gi = Amount
  <2>1. PICK d, u, t : d = redo_transactions(s, b) /\ u = apply(s, d, Height[b]) /\ t = Redone(s, b)
    OBVIOUS
  <2>2. IsRedone(t, u, d, s, b) /\ Applied(u, s, d, Height[b])
    BY <2>1, RedoneFields, ApplyFields DEF LedInv
  <2> QED BY <2>1, <2>2 DEF IsRedone, Applied
<1> QED BY <1>1, <1>2, RedoTables, RedoIndices DEF LedInv

-------------------------------------------------------------------------------
(***************************************************************************)
(* undo_block.  An output is popped from the top of its stack.             *)
(***************************************************************************)
SameButOutputs(t, s) ==
  /\ IsLedger(t) /\ DOMAIN t.next_gi = DOMAIN s.next_gi
  /\ t.keyimages = s.keyimages /\ t.indices = s.indices /\ t.txpos = s.txpos /\ t.times = s.times

IsPopped(t, s, o, k) ==
  /\ SameButOutputs(t, s)
  /\ t.outputs = Without(s.outputs, {k})
  /\ t.next_gi = [s.next_gi EXCEPT ![o.amount] = k[2]]
  /\ t.ok <=> /\ s.ok /\ k \in DOMAIN s.outputs /\ ~s.outputs[k].spent
              /\ s.outputs[k].key = o.key /\ s.outputs[k].unlock_time = o.unlock_time

\* The fields of the ledger after pop_amount_output.
LEMMA PopFields ==
  ASSUME NEW s, IsLedger(s), NEW o, NEW k,
         k = <<o.amount, next_global_index_for_amount(s, o.amount) - 1>>
  PROVE  IsPopped(pop_amount_output(s, o), s, o, k)
<1>1. PICK t : t = pop_amount_output(s, o)
  OBVIOUS
<1> DEFINE O == Without(s.outputs, {k})
           G == [s.next_gi EXCEPT ![o.amount] = k[2]]
           P == /\ s.ok /\ k \in DOMAIN s.outputs /\ ~s.outputs[k].spent
                /\ s.outputs[k].key = o.key /\ s.outputs[k].unlock_time = o.unlock_time
<1>2. t = [s EXCEPT !.outputs = O, !.next_gi = G, !.ok = P]
  <2>1. [s EXCEPT !.outputs = O, !.next_gi[o.amount] = k[2], !.ok = P]
          = [s EXCEPT !.outputs = O, !.next_gi = G, !.ok = P]
    BY DEF IsLedger
  <2> QED BY <1>1, <2>1 DEF pop_amount_output
<1>3. DOMAIN G = DOMAIN s.next_gi
  OBVIOUS
<1> HIDE DEF O, G, P
<1>4. /\ IsLedger(t) /\ t.outputs = O /\ t.next_gi = G /\ t.ok = P
      /\ t.keyimages = s.keyimages /\ t.indices = s.indices /\ t.txpos = s.txpos /\ t.times = s.times
  BY <1>2 DEF IsLedger
<1> QED BY <1>1, <1>3, <1>4 DEF O, G, P, SameButOutputs, IsPopped

\* The stack of one amount with one more output on top.
Grown(new, lower, a, y) ==
  /\ Len(new[a]) = Len(lower[a]) + 1 /\ new[a][Len(lower[a]) + 1] = y
  /\ \A n \in 1..Len(lower[a]) : new[a][n] = lower[a][n]
  /\ \A x \in Amount : x # a => new[x] = lower[x]

\* pop_amount_output finds the top of the stack, when it is not spent.
LEMMA PopStacks ==
  ASSUME NEW s, IsLedger(s), DOMAIN s.next_gi = Amount,
         NEW stack \in Stacks, NEW S, StacksOf(s, stack, S), NEW o, NEW a \in Amount, o.amount = a,
         NEW h, NEW lower \in Stacks, Grown(stack, lower, a, Stamp(o, h)), <<a, Len(lower[a])>> \notin S
  PROVE  LET t == pop_amount_output(s, o)
         IN  SameButOutputs(t, s) /\ StacksOf(t, lower, S) /\ (t.ok <=> s.ok)
<1>1. PICK t : t = pop_amount_output(s, o)
  OBVIOUS
<1>2. PICK L \in Nat : L = Len(lower[a]) /\ Len(stack[a]) = L + 1
  BY DEF Stacks, Grown
<1>3. next_global_index_for_amount(s, a) - 1 = L
  <2>1. next_global_index_for_amount(s, a) = Len(stack[a])
    BY NextIndex
  <2> QED BY <1>2, <2>1
<1>4. PICK k : k = <<a, L>>
  OBVIOUS
<1>5. /\ SameButOutputs(t, s)
      /\ t.outputs = Without(s.outputs, {k})
      /\ t.next_gi = [s.next_gi EXCEPT ![a] = L]
      /\ t.ok <=> /\ s.ok /\ k \in DOMAIN s.outputs /\ ~s.outputs[k].spent
                  /\ s.outputs[k].key = o.key /\ s.outputs[k].unlock_time = o.unlock_time
  <2>1. k = <<o.amount, next_global_index_for_amount(s, o.amount) - 1>> /\ k[2] = L
    BY <1>3, <1>4
  <2>2. IsPopped(t, s, o, k)
    BY <1>1, <2>1, PopFields
  <2> QED BY <2>1, <2>2 DEF IsPopped
<1>6. k \in DOMAIN s.outputs /\ ~s.outputs[k].spent
      /\ s.outputs[k].key = o.key /\ s.outputs[k].unlock_time = o.unlock_time
  <2>1. L < Len(stack[a]) /\ stack[a][L + 1] = Stamp(o, h)
    BY <1>2 DEF Grown
  <2>2. k \in DOMAIN s.outputs
    BY <1>4, <2>1, KeysOf
  <2>3. s.outputs[k] = Slot(stack, a, L, S)
    <3>1. s.outputs[<<a, L>>] = Slot(stack, a, L, S)
      <4>1. L \in Nat /\ L < Len(stack[a])
        BY <2>1
      <4> QED BY ONLY <4>1, stack \in Stacks, StacksOf(s, stack, S), a \in Amount, SlotOf
    <3> QED BY <1>4, <3>1
  <2>4. ~s.outputs[k].spent /\ s.outputs[k].key = stack[a][L + 1].key
        /\ s.outputs[k].unlock_time = stack[a][L + 1].unlock_time
    <3>1. PICK p : p = (<<a, L>> \in S)
      OBVIOUS
    <3>2. ~p
      BY <1>2, <3>1
    <3>3. PICK v : v = s.outputs[k]
      OBVIOUS
    <3>4. v = [key |-> stack[a][L + 1].key, unlock_time |-> stack[a][L + 1].unlock_time,
               height |-> stack[a][L + 1].height, spent |-> p]
      BY <2>3, <3>1, <3>3 DEF Slot
    <3>5. v.spent = p /\ v.key = stack[a][L + 1].key /\ v.unlock_time = stack[a][L + 1].unlock_time
      BY <3>4
    <3> QED BY <3>2, <3>3, <3>5
  <2>5. stack[a][L + 1].key = o.key /\ stack[a][L + 1].unlock_time = o.unlock_time
    BY <2>1 DEF Stamp
  <2> QED BY <2>2, <2>4, <2>5
<1>7. DOMAIN t.outputs = (DOMAIN s.outputs) \ {k} /\ \A i \in (DOMAIN s.outputs) \ {k} : t.outputs[i] = s.outputs[i]
  <2>1. PICK f : f = s.outputs
    OBVIOUS
  <2>2. t.outputs = Without(f, {k})
    BY <1>5, <2>1
  <2> QED BY <2>1, <2>2 DEF Without
<1>8. DOMAIN t.outputs = UNION {StackKeys(lower, x) : x \in Amount}
  <2>1. DOMAIN s.outputs = UNION {StackKeys(stack, x) : x \in Amount}
    BY DEF StacksOf, StackKeys
  <2>2. \A x \in Amount : x # a => StackKeys(stack, x) = StackKeys(lower, x) /\ k \notin StackKeys(lower, x)
    BY <1>4 DEF Grown, StackKeys
  <2>3. StackKeys(stack, a) = StackKeys(lower, a) \cup {k} /\ k \notin StackKeys(lower, a)
    <3>1. StackKeys(stack, a) = {<<a, n - 1>> : n \in 1..L + 1} /\ StackKeys(lower, a) = {<<a, n - 1>> : n \in 1..L}
      BY <1>2 DEF StackKeys
    <3>2. \A n : n \in 1..L + 1 <=> n \in 1..L \/ n = L + 1
      OBVIOUS
    <3>3. L = (L + 1) - 1 /\ \A n \in 1..L : n - 1 # L
      OBVIOUS
    <3> QED BY <1>4, <3>1, <3>2, <3>3
  <2> QED BY <1>7, <2>1, <2>2, <2>3
<1>9. ASSUME NEW x \in Amount, NEW n \in 1..Len(lower[x])
      PROVE  t.outputs[<<x, n - 1>>] =
               [key |-> lower[x][n].key, unlock_time |-> lower[x][n].unlock_time,
                height |-> lower[x][n].height, spent |-> <<x, n - 1>> \in S]
  <2>1. n \in 1..Len(stack[x]) /\ stack[x][n] = lower[x][n] /\ <<x, n - 1>> # k
    <3>1. CASE x = a
      BY <1>2, <1>4, <3>1 DEF Grown
    <3>2. CASE x # a
      BY <1>4, <3>2 DEF Grown
    <3> QED BY <3>1, <3>2
  <2>2. <<x, n - 1>> \in DOMAIN s.outputs
    BY <2>1 DEF StacksOf
  <2>3. s.outputs[<<x, n - 1>>] =
          [key |-> stack[x][n].key, unlock_time |-> stack[x][n].unlock_time,
           height |-> stack[x][n].height, spent |-> <<x, n - 1>> \in S]
    BY <2>1 DEF StacksOf
  <2>4. t.outputs[<<x, n - 1>>] = s.outputs[<<x, n - 1>>]
    BY <1>7, <2>1, <2>2
  <2> QED BY <2>1, <2>3, <2>4
<1>10. ASSUME NEW x \in Amount
       PROVE  t.next_gi[x] \in {Unknown, Len(lower[x])}
  <2>1. CASE x = a
    BY <1>2, <1>5, <2>1
  <2>2. CASE x # a
    <3>1. t.next_gi[x] = s.next_gi[x] /\ stack[x] = lower[x]
      BY <1>5, <2>2 DEF Grown
    <3>2. s.next_gi[x] \in {Unknown, Len(stack[x])}
      BY DEF StacksOf
    <3> QED BY <3>1, <3>2
  <2> QED BY <2>1, <2>2
<1>11. StacksOf(t, lower, S)
  BY <1>8, <1>9, <1>10 DEF StacksOf, StackKeys
<1> QED BY <1>1, <1>5, <1>6, <1>11

\* Outputs pushed on the stacks.
TopOn(stack, outs, h) == [a \in Amount |-> stack[a] \o Stamped(OfAmount(outs, a), h)]

\* Outputs of two sequences with their height.
LEMMA StampedConcat ==
  ASSUME NEW u \in Seq(OutputSet), NEW v \in Seq(OutputSet), NEW h \in Nat
  PROVE  Stamped(u \o v, h) = Stamped(u, h) \o Stamped(v, h)
<1>1. PICK w \in Seq(OutputSet), l \in Nat, m \in Nat :
        /\ w = u \o v /\ l = Len(u) /\ m = Len(v) /\ Len(w) = l + m
        /\ \A n \in 1..l : w[n] = u[n]
        /\ \A i \in 1..m : w[l + i] = v[i]
  <2>1. /\ u \o v \in Seq(OutputSet) /\ Len(u) \in Nat /\ Len(v) \in Nat /\ Len(u \o v) = Len(u) + Len(v)
        /\ \A n \in 1..Len(u) : (u \o v)[n] = u[n]
        /\ \A i \in 1..Len(v) : (u \o v)[Len(u) + i] = v[i]
    BY Concat
  <2> QED BY <2>1
<1>2. PICK x \in Seq(StampSet), y \in Seq(StampSet), z \in Seq(StampSet) :
        /\ x = Stamped(u, h) /\ Len(x) = l /\ \A n \in 1..l : x[n] = Stamp(u[n], h)
        /\ y = Stamped(v, h) /\ Len(y) = m /\ \A n \in 1..m : y[n] = Stamp(v[n], h)
        /\ z = Stamped(w, h) /\ Len(z) = l + m /\ \A n \in 1..l + m : z[n] = Stamp(w[n], h)
  <2>1. /\ Stamped(u, h) \in Seq(StampSet) /\ Len(Stamped(u, h)) = Len(u)
        /\ \A n \in 1..Len(u) : Stamped(u, h)[n] = Stamp(u[n], h)
    BY StampedFacts
  <2>2. /\ Stamped(v, h) \in Seq(StampSet) /\ Len(Stamped(v, h)) = Len(v)
        /\ \A n \in 1..Len(v) : Stamped(v, h)[n] = Stamp(v[n], h)
    BY StampedFacts
  <2>3. /\ Stamped(w, h) \in Seq(StampSet) /\ Len(Stamped(w, h)) = Len(w)
        /\ \A n \in 1..Len(w) : Stamped(w, h)[n] = Stamp(w[n], h)
    BY StampedFacts
  <2> QED BY <1>1, <2>1, <2>2, <2>3
<1>3. PICK q \in Seq(StampSet) :
        /\ q = x \o y /\ Len(q) = l + m
        /\ \A n \in 1..l : q[n] = x[n]
        /\ \A i \in 1..m : q[l + i] = y[i]
  <2>1. /\ x \o y \in Seq(StampSet) /\ Len(x \o y) = Len(x) + Len(y)
        /\ \A n \in 1..Len(x) : (x \o y)[n] = x[n]
        /\ \A i \in 1..Len(y) : (x \o y)[Len(x) + i] = y[i]
    BY Concat
  <2> QED BY <1>2, <2>1
<1>4. ASSUME NEW n \in 1..l + m
      PROVE  z[n] = q[n]
  <2>1. CASE n \in 1..l
    BY <1>1, <1>2, <1>3, <2>1
  <2>2. CASE n \notin 1..l
    <3>1. PICK i \in 1..m : n = l + i
      <4>1. n - l \in 1..m /\ n = l + (n - l)
        BY <2>2
      <4> QED BY <4>1
    <3> QED BY <1>1, <1>2, <1>3, <3>1
  <2> QED BY <2>1, <2>2
<1>5. z = q
  BY <1>2, <1>3, <1>4, SeqEqual
<1> QED BY <1>1, <1>2, <1>3, <1>5

\* No outputs.
LEMMA StampedNone == \A h : Stamped(<<>>, h) = <<>>
BY DEF Stamped

\* The type of stacks with outputs on top.
LEMMA TopTyped ==
  ASSUME NEW stack \in Stacks, NEW outs \in Seq(OutputSet), NEW h \in Nat
  PROVE  TopOn(stack, outs, h) \in Stacks
<1>1. ASSUME NEW a \in Amount
      PROVE  stack[a] \o Stamped(OfAmount(outs, a), h) \in Seq(StampSet)
  <2>1. PICK x \in Seq(OutputSet) : x = OfAmount(outs, a)
    BY OfAmountTyped
  <2>2. PICK u \in Seq(StampSet), v \in Seq(StampSet) : u = stack[a] /\ v = Stamped(x, h)
    BY StampedFacts DEF Stacks
  <2> QED BY <2>1, <2>2, Concat
<1> QED BY <1>1 DEF TopOn, Stacks

\* The last output is on the top of the stack of its amount.
LEMMA TopNext ==
  ASSUME NEW stack \in Stacks, NEW outs \in Seq(OutputSet), NEW n \in 1..Len(outs), NEW h \in Nat,
         NEW a \in Amount, a = outs[n].amount
  PROVE  Grown(TopOn(stack, SubSeq(outs, 1, n), h), TopOn(stack, SubSeq(outs, 1, n - 1), h), a,
               Stamp(outs[n], h))
<1>0. PICK o \in OutputSet : o = outs[n]
  OBVIOUS
<1>1. PICK p, q : p = SubSeq(outs, 1, n) /\ q = SubSeq(outs, 1, n - 1) /\ o = outs[n]
  BY <1>0
<1>2. q \in Seq(OutputSet)
  <2>1. n - 1 \in 0..Len(outs)
    OBVIOUS
  <2> QED BY <1>1, <2>1, Firsts
<1>3. \A x : OfAmount(p, x) = OfAmount(q, x) \o (IF o.amount = x THEN <<o>> ELSE <<>>)
  BY <1>1, OfAmountNext
<1>4. \A x : OfAmount(q, x) \in Seq(OutputSet)
  BY <1>2, OfAmountTyped
<1>5. PICK new, lower : new = TopOn(stack, p, h) /\ lower = TopOn(stack, q, h)
  OBVIOUS
<1>6. lower \in Stacks
  BY <1>2, <1>5, TopTyped
<1>7. ASSUME NEW x \in Amount, x # a
      PROVE  new[x] = lower[x]
  <2>1. PICK u \in Seq(OutputSet) : u = OfAmount(q, x)
    BY <1>4
  <2>2. OfAmount(p, x) = u \o <<>>
    BY <1>1, <1>3, <1>7, <2>1
  <2>3. OfAmount(p, x) = OfAmount(q, x)
    BY <2>1, <2>2
  <2> QED BY <1>5, <2>3 DEF TopOn
<1>8. PICK u \in Seq(OutputSet), one \in Seq(OutputSet) : u = OfAmount(q, a) /\ one = <<o>> /\ OfAmount(p, a) = u \o one
  <2>1. <<o>> \in Seq(OutputSet)
    OBVIOUS
  <2> QED BY <1>1, <1>3, <1>4, <2>1
<1>9. PICK s0 \in Seq(StampSet), s1 \in Seq(StampSet), s2 \in Seq(StampSet) :
        s0 = stack[a] /\ s1 = Stamped(u, h) /\ s2 = Stamped(one, h) /\ Len(s2) = 1 /\ s2[1] = Stamp(o, h)
  <2>1. stack[a] \in Seq(StampSet) /\ Stamped(u, h) \in Seq(StampSet) /\ Stamped(one, h) \in Seq(StampSet)
    BY StampedFacts DEF Stacks
  <2>2. Len(one) = 1 /\ one[1] = o
    BY <1>8
  <2>3. Len(Stamped(one, h)) = 1 /\ Stamped(one, h)[1] = Stamp(one[1], h)
    BY <2>2, StampedFacts
  <2> QED BY <2>1, <2>2, <2>3
<1>10. PICK r \in Seq(StampSet) : r = lower[a] /\ r = s0 \o s1
  BY <1>5, <1>6, <1>8, <1>9 DEF TopOn, Stacks
<1>11. new[a] = r \o s2
  <2>1. Stamped(u \o one, h) = s1 \o s2
    BY <1>9, StampedConcat
  <2>2. new[a] = s0 \o (s1 \o s2)
    BY <1>5, <1>8, <1>9, <2>1 DEF TopOn
  <2>3. s0 \o (s1 \o s2) = (s0 \o s1) \o s2
    BY SMTT(30)
  <2> QED BY <1>10, <2>2, <2>3
<1>12. /\ Len(r \o s2) = Len(r) + 1 /\ (r \o s2)[Len(r) + 1] = Stamp(o, h)
       /\ \A i \in 1..Len(r) : (r \o s2)[i] = r[i]
  <2>1. /\ Len(r \o s2) = Len(r) + Len(s2)
        /\ \A i \in 1..Len(r) : (r \o s2)[i] = r[i]
        /\ \A i \in 1..Len(s2) : (r \o s2)[Len(r) + i] = s2[i]
    BY Concat
  <2> QED BY <1>9, <2>1
<1> QED BY <1>1, <1>5, <1>7, <1>10, <1>11, <1>12 DEF Grown

\* Stacks with nothing on top.
LEMMA TopNone ==
  ASSUME NEW stack \in Stacks, NEW outs \in Seq(OutputSet), NEW h \in Nat
  PROVE  TopOn(stack, SubSeq(outs, 1, 0), h) = stack
<1>1. SubSeq(outs, 1, 0) = <<>>
  OBVIOUS
<1>2. \A a : OfAmount(<<>>, a) = <<>>
  <2>1. <<>> \in Seq(OutputSet)
    OBVIOUS
  <2> QED BY <2>1, OfAmountTyped
<1>3. \A a \in Amount : stack[a] \o <<>> = stack[a]
  BY DEF Stacks
<1>4. TopOn(stack, SubSeq(outs, 1, 0), h) = [a \in Amount |-> stack[a]]
  BY <1>1, <1>2, <1>3, StampedNone DEF TopOn
<1> QED BY <1>4 DEF Stacks

\* The outputs of a transaction are popped, the last one first.
IsPops(f, s, t) ==
  f = [n \in 0..Len(t.outputs) |->
         IF n = 0 THEN s ELSE pop_amount_output(f[n - 1], t.outputs[Len(t.outputs) - n + 1])]

PopsUpTo(f, s, t, n) ==
  \A i \in 0..Len(t.outputs) : i <= n =>
    f[i] = IF i = 0 THEN s ELSE pop_amount_output(f[i - 1], t.outputs[Len(t.outputs) - i + 1])

\* The recursive function of Popped exists.
LEMMA PopsExist ==
  ASSUME NEW s, NEW t, Len(t.outputs) \in Nat
  PROVE  \E f : IsPops(f, s, t)
<1>0. PICK N \in Nat : N = Len(t.outputs)
  OBVIOUS
<1> DEFINE T == {n \in Nat : \E f : PopsUpTo(f, s, t, n)}
           next(f) == [i \in 0..N |-> IF i = 0 THEN s ELSE pop_amount_output(f[i - 1], t.outputs[N - i + 1])]
<1>1. 0 \in T
  <2>1. PICK f : f = [i \in 0..N |-> s]
    OBVIOUS
  <2>2. PopsUpTo(f, s, t, 0)
    BY <1>0, <2>1 DEF PopsUpTo
  <2> QED BY <2>2
<1>2. \A n \in Nat : n \in T => n + 1 \in T
  <2> SUFFICES ASSUME NEW n \in Nat, NEW f, PopsUpTo(f, s, t, n) PROVE \E g : PopsUpTo(g, s, t, n + 1)
    OBVIOUS
  <2>1. PICK g : g = next(f)
    OBVIOUS
  <2>2. \A i \in 0..N : i <= n => g[i] = f[i]
    BY <1>0, <2>1 DEF PopsUpTo
  <2>3. ASSUME NEW i \in 0..N, i <= n + 1
        PROVE  g[i] = IF i = 0 THEN s ELSE pop_amount_output(g[i - 1], t.outputs[N - i + 1])
    <3>1. CASE i = 0
      BY <2>1, <3>1
    <3>2. CASE i # 0
      <4>1. i - 1 \in 0..N /\ i - 1 <= n
        BY <2>3, <3>2
      <4>2. g[i - 1] = f[i - 1]
        BY <2>2, <4>1
      <4> QED BY <2>1, <3>2, <4>2
    <3> QED BY <3>1, <3>2
  <2>4. PopsUpTo(g, s, t, n + 1)
    BY <1>0, <2>3 DEF PopsUpTo
  <2> QED BY <2>4
<1>3. N \in T
  <2> HIDE DEF T
  <2> QED BY <1>1, <1>2, Induction
<1>4. PICK f : PopsUpTo(f, s, t, N)
  BY <1>3
<1>5. PICK g : g = next(f)
  OBVIOUS
<1>6. \A i \in 0..N : g[i] = f[i]
  BY <1>0, <1>4, <1>5 DEF PopsUpTo
<1>7. g = next(g)
  <2>1. \A i \in 0..N : i # 0 => i - 1 \in 0..N
    OBVIOUS
  <2> QED BY <1>5, <1>6, <2>1
<1> QED BY <1>0, <1>7 DEF IsPops

\* What was pushed last, the first n of the outputs outs, is still there.
PoppedTo(u, s, base, outs, n, h, S) ==
  /\ SameButOutputs(u, s) /\ (u.ok <=> s.ok)
  /\ StacksOf(u, TopOn(base, SubSeq(outs, 1, n), h), S)

UnspentAbove(S, base) == \A a \in Amount, g \in Nat : g >= Len(base[a]) => <<a, g>> \notin S

\* Stacks with outputs on top are no lower.
LEMMA TopLength ==
  ASSUME NEW base \in Stacks, NEW outs \in Seq(OutputSet), NEW h \in Nat, NEW a \in Amount
  PROVE  /\ Len(TopOn(base, outs, h)[a]) \in Nat /\ Len(base[a]) \in Nat
         /\ Len(TopOn(base, outs, h)[a]) >= Len(base[a])
<1>1. PICK x \in Seq(OutputSet) : x = OfAmount(outs, a)
  BY OfAmountTyped
<1>2. PICK u \in Seq(StampSet), v \in Seq(StampSet) : u = base[a] /\ v = Stamped(x, h)
  BY StampedFacts DEF Stacks
<1>3. Len(u \o v) = Len(u) + Len(v) /\ Len(u) \in Nat /\ Len(v) \in Nat
  BY Concat
<1>4. TopOn(base, outs, h)[a] = u \o v
  BY <1>1, <1>2 DEF TopOn
<1> QED BY <1>2, <1>3, <1>4

\* One output is popped.
LEMMA PopStep ==
  ASSUME NEW s, DOMAIN s.next_gi = Amount, NEW base \in Stacks, NEW outs \in Seq(OutputSet),
         NEW n \in 1..Len(outs), outs[n].amount \in Amount, NEW h \in Nat, NEW S, UnspentAbove(S, base),
         NEW u, PoppedTo(u, s, base, outs, n, h, S)
  PROVE  PoppedTo(pop_amount_output(u, outs[n]), s, base, outs, n - 1, h, S)
<1>1. PICK a \in Amount : a = outs[n].amount
  OBVIOUS
<1>2. n \in 0..Len(outs) /\ n - 1 \in 0..Len(outs)
  OBVIOUS
<1>3. PICK p \in Seq(OutputSet), q \in Seq(OutputSet) : p = SubSeq(outs, 1, n) /\ q = SubSeq(outs, 1, n - 1)
  BY <1>2, Firsts
<1>4. PICK new \in Stacks, lower \in Stacks : new = TopOn(base, p, h) /\ lower = TopOn(base, q, h)
  BY TopTyped
<1>5. Grown(new, lower, a, Stamp(outs[n], h))
  BY <1>1, <1>3, <1>4, TopNext
<1>6. <<a, Len(lower[a])>> \notin S
  <2>1. Len(lower[a]) \in Nat /\ Len(lower[a]) >= Len(base[a])
    BY <1>4, TopLength
  <2> QED BY <2>1 DEF UnspentAbove
<1>7. IsLedger(u) /\ DOMAIN u.next_gi = Amount /\ StacksOf(u, new, S) /\ (u.ok <=> s.ok)
  BY <1>3, <1>4 DEF PoppedTo, SameButOutputs
<1>8. PICK t, o : t = pop_amount_output(u, o) /\ o = outs[n]
  OBVIOUS
<1>9. SameButOutputs(t, u) /\ StacksOf(t, lower, S) /\ (t.ok <=> u.ok)
  BY <1>1, <1>5, <1>6, <1>7, <1>8, PopStacks
<1> QED BY <1>3, <1>4, <1>7, <1>8, <1>9 DEF PoppedTo, SameButOutputs

\* The outputs of a transaction are popped.
LEMMA PoppedIs ==
  ASSUME NEW s, IsLedger(s), DOMAIN s.next_gi = Amount, NEW base \in Stacks, NEW t,
         t.outputs \in Seq(OutputSet), \A n \in 1..Len(t.outputs) : t.outputs[n].amount \in Amount,
         NEW h \in Nat, NEW S, UnspentAbove(S, base), StacksOf(s, TopOn(base, t.outputs, h), S)
  PROVE  SameButOutputs(Popped(s, t), s) /\ (Popped(s, t).ok <=> s.ok) /\ StacksOf(Popped(s, t), base, S)
<1>1. PICK N \in Nat : N = Len(t.outputs)
  OBVIOUS
<1>2. PICK f : f = CHOOSE g : IsPops(g, s, t)
  OBVIOUS
<1>3. IsPops(f, s, t)
  BY <1>1, <1>2, PopsExist
<1>4. Popped(s, t) = f[N]
  BY <1>1, <1>2 DEF Popped, IsPops
<1>5. \A i \in 0..N : f[i] = IF i = 0 THEN s ELSE pop_amount_output(f[i - 1], t.outputs[N - i + 1])
  BY <1>1, <1>3 DEF IsPops
<1>6. PICK outs \in Seq(OutputSet) : outs = t.outputs /\ Len(outs) = N /\ \A n \in 1..N : outs[n].amount \in Amount
  BY <1>1
<1> DEFINE T == {n \in Nat : n <= N => PoppedTo(f[n], s, base, outs, N - n, h, S)}
<1>7. 0 \in T
  <2>1. f[0] = s
    BY <1>5
  <2>2. SubSeq(outs, 1, N - 0) = outs
    <3>1. N - 0 = N /\ N = Len(outs)
      BY <1>6
    <3> QED BY <3>1, SubSeqFull
  <2> QED BY <1>6, <2>1, <2>2 DEF PoppedTo, SameButOutputs
<1>8. \A n \in Nat : n \in T => n + 1 \in T
  <2> SUFFICES ASSUME NEW n \in Nat, n \in T, n + 1 <= N
               PROVE  PoppedTo(f[n + 1], s, base, outs, N - (n + 1), h, S)
    OBVIOUS
  <2>1. PICK m \in 1..N : m = N - n /\ m - 1 = N - (n + 1) /\ m = N - (n + 1) + 1 /\ n + 1 \in 0..N
                          /\ n = (n + 1) - 1 /\ n + 1 # 0
    OBVIOUS
  <2>2. PoppedTo(f[n], s, base, outs, m, h, S)
    BY <2>1
  <2>3. f[n + 1] = pop_amount_output(f[n], outs[m])
    BY <1>5, <1>6, <2>1
  <2>4. PICK u : u = f[n]
    OBVIOUS
  <2>5. m \in 1..Len(outs) /\ outs[m].amount \in Amount /\ PoppedTo(u, s, base, outs, m, h, S)
    BY <1>6, <2>2, <2>4
  <2>6. PoppedTo(pop_amount_output(u, outs[m]), s, base, outs, m - 1, h, S)
    BY <2>5, PopStep
  <2> QED BY <2>1, <2>3, <2>4, <2>6
<1>9. PoppedTo(f[N], s, base, outs, 0, h, S)
  <2>1. N \in T
    <3> HIDE DEF T
    <3> QED BY <1>7, <1>8, Induction
  <2>2. N - N = 0
    OBVIOUS
  <2> QED BY <2>1, <2>2
<1>10. TopOn(base, SubSeq(outs, 1, 0), h) = base
  BY TopNone
<1> QED BY <1>4, <1>9, <1>10 DEF PoppedTo

\* The stacks of a chain and of the first j transactions of a block on top.
TopStacks(c, b, j) == [a \in Amount |-> Stack(c, a) \o Stamped(BlockStack(b, j, a), Height[b])]

\* The stacks before a transaction, and with its outputs on top.
LEMMA TopStacksFacts ==
  ASSUME NEW c \in Seq(Block), NEW b \in Block
  PROVE  /\ \A j \in 0..Len(Txs[b]) : TopStacks(c, b, j) \in Stacks
         /\ \A j \in 1..Len(Txs[b]) :
              TopStacks(c, b, j) = TopOn(TopStacks(c, b, j - 1), Txs[b][j].outputs, Height[b])
         /\ TopStacks(c, b, 0) = StacksIn(c)
         /\ TopStacks(c, b, Len(Txs[b])) = StacksIn(Append(c, b))
<1>1. PICK h \in Nat : h = Height[b]
  BY BlockAssumption
<1>2. \A a \in Amount : Stack(c, a) \in Seq(StampSet)
  BY StackTyped
<1>3. ASSUME NEW j \in 0..Len(Txs[b])
      PROVE  TopStacks(c, b, j) \in Stacks
  <2>1. ASSUME NEW a \in Amount
        PROVE  Stack(c, a) \o Stamped(BlockStack(b, j, a), h) \in Seq(StampSet)
    <3>1. PICK x \in Seq(OutputSet) : x = BlockStack(b, j, a)
      BY BlockStackFacts
    <3>2. PICK u \in Seq(StampSet), v \in Seq(StampSet) : u = Stack(c, a) /\ v = Stamped(x, h)
      BY <1>2, StampedFacts
    <3> QED BY <3>1, <3>2, Concat
  <2> QED BY <1>1, <2>1 DEF TopStacks, Stacks
<1>4. ASSUME NEW j \in 1..Len(Txs[b])
      PROVE  TopStacks(c, b, j) = TopOn(TopStacks(c, b, j - 1), Txs[b][j].outputs, Height[b])
  <2>1. PICK t, lower : t = Txs[b][j] /\ lower = TopStacks(c, b, j - 1)
    OBVIOUS
  <2>2. j - 1 \in 0..Len(Txs[b])
    BY TxShape
  <2>3. ASSUME NEW a \in Amount
        PROVE  Stack(c, a) \o Stamped(BlockStack(b, j, a), h) = lower[a] \o Stamped(OfAmount(t.outputs, a), h)
    <3>1. PICK x \in Seq(OutputSet), y \in Seq(OutputSet) :
            x = BlockStack(b, j - 1, a) /\ y = OutputsOf(t, a) /\ BlockStack(b, j, a) = x \o y
      BY <2>1, <2>2, BlockStackFacts
    <3>2. PICK u \in Seq(StampSet), v \in Seq(StampSet), w \in Seq(StampSet) :
            u = Stack(c, a) /\ v = Stamped(x, h) /\ w = Stamped(y, h)
      BY <1>2, StampedFacts
    <3>3. Stamped(x \o y, h) = v \o w
      BY <3>2, StampedConcat
    <3>4. lower[a] = u \o v
      BY <1>1, <2>1, <3>1, <3>2 DEF TopStacks
    <3>5. u \o (v \o w) = (u \o v) \o w
      BY SMTT(30)
    <3> QED BY <3>1, <3>2, <3>3, <3>4, <3>5 DEF OutputsOf
  <2> QED BY <1>1, <2>1, <2>3 DEF TopStacks, TopOn
<1>5. TopStacks(c, b, 0) = StacksIn(c)
  <2>1. \A a \in Amount : Stack(c, a) \o <<>> = Stack(c, a)
    BY <1>2
  <2>2. \A a \in Amount : Stamped(BlockStack(b, 0, a), h) = <<>>
    BY BlockStackFacts, StampedNone
  <2> QED BY <1>1, <2>1, <2>2 DEF TopStacks, StacksIn
<1>6. TopStacks(c, b, Len(Txs[b])) = StacksIn(Append(c, b))
  <2>1. \A a \in Amount : Stack(Append(c, b), a) = Stack(c, a) \o BlockPart(b, a)
    BY StackAppend
  <2> QED BY <2>1 DEF TopStacks, StacksIn, BlockPart
<1> QED BY <1>3, <1>4, <1>5, <1>6

\* Outputs that are no longer spent.
LEMMA SpendBack ==
  ASSUME NEW s, NEW stack \in Stacks, NEW S, StacksOf(s, stack, S), NEW U, NEW t,
         t.outputs = spend_output(s.outputs, U, FALSE), t.next_gi = s.next_gi
  PROVE  StacksOf(t, stack, S \ U)
<1>1. PICK f, g : f = s.outputs /\ g = t.outputs
  OBVIOUS
<1>2. DOMAIN g = DOMAIN f /\ \A k \in DOMAIN f : g[k] = IF k \in U THEN [f[k] EXCEPT !.spent = FALSE] ELSE f[k]
  BY <1>1 DEF spend_output
<1>3. ASSUME NEW a \in Amount, NEW n \in 1..Len(stack[a])
      PROVE  g[<<a, n - 1>>] = [key |-> stack[a][n].key, unlock_time |-> stack[a][n].unlock_time,
                                height |-> stack[a][n].height, spent |-> <<a, n - 1>> \in S \ U]
  <2>1. PICK k : k = <<a, n - 1>>
    OBVIOUS
  <2>2. PICK x, y, z : x = stack[a][n].key /\ y = stack[a][n].unlock_time /\ z = stack[a][n].height
    OBVIOUS
  <2>3. f[k] = [key |-> x, unlock_time |-> y, height |-> z, spent |-> k \in S]
    BY <1>1, <2>1, <2>2 DEF StacksOf
  <2>4. k \in DOMAIN f
    BY <1>1, <2>1 DEF StacksOf
  <2>5. CASE k \in U
    <3>1. g[k] = [f[k] EXCEPT !.spent = FALSE]
      BY <1>2, <2>4, <2>5
    <3>2. PICK p : f[k] = [key |-> x, unlock_time |-> y, height |-> z, spent |-> p]
      BY <2>3
    <3>3. g[k] = [key |-> x, unlock_time |-> y, height |-> z, spent |-> FALSE]
      <4>1. g[k] = [[key |-> x, unlock_time |-> y, height |-> z, spent |-> p] EXCEPT !.spent = FALSE]
        BY <3>1, <3>2
      <4> QED BY <4>1, SlotSpent
    <3>4. (k \in S \ U) = FALSE
      BY <2>5
    <3> QED BY <2>1, <2>2, <3>3, <3>4
  <2>6. CASE k \notin U
    <3>1. g[k] = f[k]
      BY <1>2, <2>4, <2>6
    <3>2. (k \in S \ U) = (k \in S)
      BY <2>6
    <3> QED BY <2>1, <2>2, <2>3, <3>1, <3>2
  <2> QED BY <2>5, <2>6
<1>4. DOMAIN g = UNION {StackKeys(stack, a) : a \in Amount}
  BY <1>1, <1>2 DEF StacksOf, StackKeys
<1>5. \A a \in Amount : t.next_gi[a] \in {Unknown, Len(stack[a])}
  BY DEF StacksOf
<1> QED BY <1>1, <1>3, <1>4, <1>5 DEF StacksOf, StackKeys

\* The fields after undo_transaction.
IsUndone(v, p, s, t) ==
  /\ IsLedger(v) /\ v.next_gi = p.next_gi
  /\ v.indices = p.indices /\ v.txpos = p.txpos /\ v.times = p.times
  /\ v.keyimages = Without(p.keyimages, KeyImagesOf(KeyInputs(t)))
  /\ v.outputs = spend_output(p.outputs, SpentIn(KeyInputs(t)), FALSE)
  /\ v.ok <=> p.ok /\ KeyImagesOf(KeyInputs(t)) \subseteq DOMAIN s.keyimages

\* The fields of the ledger after undo_transaction.
LEMMA UndoneFields ==
  ASSUME NEW s, NEW t, IsLedger(Popped(s, t))
  PROVE  IsUndone(undo_transaction(s, t), Popped(s, t), s, t)
<1>1. PICK p, v : p = Popped(s, t) /\ v = undo_transaction(s, t)
  OBVIOUS
<1> DEFINE K == Without(p.keyimages, KeyImagesOf(KeyInputs(t)))
           O == spend_output(p.outputs, SpentIn(KeyInputs(t)), FALSE)
           P == p.ok /\ KeyImagesOf(KeyInputs(t)) \subseteq DOMAIN s.keyimages
<1>2. v = [p EXCEPT !.keyimages = K, !.outputs = O, !.ok = P]
  BY <1>1 DEF undo_transaction, KeyImagesOf, SpentIn
<1> HIDE DEF K, O, P
<1>3. /\ IsLedger(v) /\ v.keyimages = K /\ v.outputs = O /\ v.ok = P /\ v.next_gi = p.next_gi
      /\ v.indices = p.indices /\ v.txpos = p.txpos /\ v.times = p.times
  BY <1>1, <1>2 DEF IsLedger
<1> QED BY <1>1, <1>3 DEF K, O, P, IsUndone

\* The ledger of a chain and of the first j transactions of a block on top, whose
\* block tables are still those of s.
UndoneTo(u, s, c, b, j) ==
  /\ IsLedger(u) /\ u.ok /\ DOMAIN u.next_gi = Amount
  /\ DOMAIN u.keyimages = KeyImagesIn(c) \cup KeyImagesOf(InputsUpto(b, j))
  /\ \A x \in AllInputs(c) : u.keyimages[x.in.key_image] = x.height
  /\ StacksOf(u, TopStacks(c, b, j), SpentOf(c) \cup SpentIn(InputsUpto(b, j)))
  /\ u.indices = s.indices /\ u.times = s.times /\ u.txpos = s.txpos

\* Whatever a block and its chain spend, the outputs of the block are unspent.
LEMMA SpentUnder ==
  ASSUME NEW c, GoodChain(c), NEW b \in Block, Good(c, b), NEW j \in 0..Len(Txs[b]),
         NEW i \in 0..Len(Txs[b])
  PROVE  UnspentAbove(SpentOf(c) \cup SpentIn(InputsUpto(b, j)), TopStacks(c, b, i))
<1>1. c \in Seq(Block)
  BY ChainHeights DEF GoodChain
<1>2. Below(SpentOf(c), c) /\ Below(SpentIn(BlockInputs(b)), c)
  BY SpentBelow
<1>3. SpentIn(InputsUpto(b, j)) \subseteq SpentIn(BlockInputs(b))
  <2>1. InputsUpto(b, j) \subseteq BlockInputs(b)
    BY InputsUptoFacts
  <2> QED BY <2>1 DEF SpentIn
<1>4. ASSUME NEW a \in Amount, NEW g \in Nat, g >= Len(TopStacks(c, b, i)[a])
      PROVE  <<a, g>> \notin SpentOf(c) \cup SpentIn(InputsUpto(b, j))
  <2>1. PICK x \in Seq(OutputSet) : x = BlockStack(b, i, a)
    BY BlockStackFacts
  <2>2. PICK u \in Seq(StampSet), v \in Seq(StampSet) : u = Stack(c, a) /\ v = Stamped(x, Height[b])
    <3>1. Height[b] \in Nat
      BY BlockAssumption
    <3> QED BY <1>1, <3>1, StampedFacts, StackTyped
  <2>3. TopStacks(c, b, i)[a] = u \o v
    BY <2>1, <2>2 DEF TopStacks
  <2>4. Len(u \o v) = Len(u) + Len(v) /\ Len(u) \in Nat /\ Len(v) \in Nat
    BY Concat
  <2>5. ~(g < Len(Stack(c, a)))
    BY <1>4, <2>2, <2>3, <2>4
  <2>6. \A S : Below(S, c) => <<a, g>> \notin S
    BY <2>5 DEF Below
  <2> QED BY <1>2, <1>3, <2>6
<1> QED BY <1>4 DEF UnspentAbove

\* undo_transaction takes back one transaction.
LEMMA UndoStep ==
  ASSUME NEW c, GoodChain(c), NEW b \in Block, Good(c, b), NEW j \in 1..Len(Txs[b]),
         NEW s, NEW u, UndoneTo(u, s, c, b, j)
  PROVE  UndoneTo(undo_transaction(u, Txs[b][j]), s, c, b, j - 1)
<1>1. c \in Seq(Block)
  BY ChainHeights DEF GoodChain
<1>2. PICK t, v, p : t = Txs[b][j] /\ v = undo_transaction(u, t) /\ p = Popped(u, t)
  OBVIOUS
<1>3. j \in 0..Len(Txs[b]) /\ j - 1 \in 0..Len(Txs[b])
  BY TxShape
<1>4. PICK st \in Stacks : st = TopStacks(c, b, j - 1) /\ TopStacks(c, b, j) = TopOn(st, t.outputs, Height[b])
  BY <1>1, <1>2, <1>3, TopStacksFacts
<1>5. PICK S : S = SpentOf(c) \cup SpentIn(InputsUpto(b, j))
  OBVIOUS
<1>6. UnspentAbove(S, st)
  BY <1>3, <1>4, <1>5, SpentUnder
<1>7. /\ IsLedger(u) /\ DOMAIN u.next_gi = Amount /\ t.outputs \in Seq(OutputSet)
      /\ \A n \in 1..Len(t.outputs) : t.outputs[n].amount \in Amount
      /\ Height[b] \in Nat /\ StacksOf(u, TopOn(st, t.outputs, Height[b]), S)
  BY <1>2, <1>4, <1>5, TxShape, BlockAssumption DEF UndoneTo
<1>8. SameButOutputs(p, u) /\ (p.ok <=> u.ok) /\ StacksOf(p, st, S)
  BY <1>2, <1>6, <1>7, PoppedIs
<1>9. IsUndone(v, p, u, t)
  BY <1>2, <1>8, UndoneFields DEF SameButOutputs
<1>10. PICK U : U = SpentIn(KeyInputs(t))
  OBVIOUS
<1>11. StacksOf(v, st, S \ U)
  BY <1>8, <1>9, <1>10, SpendBack DEF IsUndone
<1>12. S \ U = SpentOf(c) \cup SpentIn(InputsUpto(b, j - 1))
  <2>1. U \cap (SpentOf(c) \cup SpentIn(InputsUpto(b, j - 1))) = {}
    BY <1>2, <1>10, FreshSpent
  <2>2. SpentIn(InputsUpto(b, j)) = SpentIn(InputsUpto(b, j - 1)) \cup U
    BY <1>2, <1>10, InputsUptoFacts, SpentParts
  <2> QED BY <1>5, <2>1, <2>2
<1>13. PICK K : K = KeyImagesOf(KeyInputs(t))
  OBVIOUS
<1>14. /\ KeyImagesOf(InputsUpto(b, j)) = KeyImagesOf(InputsUpto(b, j - 1)) \cup K
       /\ K \cap KeyImagesOf(InputsUpto(b, j - 1)) = {}
       /\ K \cap KeyImagesIn(c) = {}
  <2>1. InputsUpto(b, j) = InputsUpto(b, j - 1) \cup KeyInputs(t)
    BY <1>2, InputsUptoFacts
  <2>2. KeyImagesOf(InputsUpto(b, j)) = KeyImagesOf(InputsUpto(b, j - 1)) \cup K
    BY <1>13, <2>1, KeyImageParts
  <2>3. K \cap KeyImagesOf(InputsUpto(b, j - 1)) = {}
    BY <1>2, <1>13, KeyImagesDiffer, GoodIs
  <2>4. K \subseteq KeyImagesOf(BlockInputs(b))
    <3>1. KeyInputs(t) \subseteq BlockInputs(b)
      BY <1>3, <2>1, InputsUptoFacts
    <3> QED BY <1>13, <3>1 DEF KeyImagesOf
  <2>5. KeyImagesOf(BlockInputs(b)) \cap KeyImagesIn(c) = {}
    BY FreshKeyImages
  <2> QED BY <2>2, <2>3, <2>4, <2>5
<1>15. /\ DOMAIN v.keyimages = KeyImagesIn(c) \cup KeyImagesOf(InputsUpto(b, j - 1))
       /\ \A x \in AllInputs(c) : v.keyimages[x.in.key_image] = x.height
       /\ K \subseteq DOMAIN u.keyimages
  <2>1. PICK f : f = u.keyimages
    OBVIOUS
  <2>2. v.keyimages = Without(f, K)
    BY <1>8, <1>9, <1>13, <2>1 DEF IsUndone, SameButOutputs
  <2>3. DOMAIN v.keyimages = (DOMAIN f) \ K /\ \A k \in (DOMAIN f) \ K : v.keyimages[k] = f[k]
    BY <2>2 DEF Without
  <2>4. DOMAIN f = KeyImagesIn(c) \cup KeyImagesOf(InputsUpto(b, j))
    BY <2>1 DEF UndoneTo
  <2>5. ASSUME NEW x \in AllInputs(c)
        PROVE  v.keyimages[x.in.key_image] = x.height
    <3>1. x.in.key_image \in KeyImagesIn(c)
      BY DEF KeyImagesIn
    <3>2. f[x.in.key_image] = x.height
      BY <2>1 DEF UndoneTo
    <3> QED BY <1>14, <2>3, <2>4, <3>1, <3>2
  <2> QED BY <1>14, <2>1, <2>3, <2>4, <2>5
<1>16. v.ok
  BY <1>8, <1>9, <1>13, <1>15 DEF IsUndone, UndoneTo
<1>17. IsLedger(v) /\ DOMAIN v.next_gi = Amount
       /\ v.indices = s.indices /\ v.times = s.times /\ v.txpos = s.txpos
  BY <1>7, <1>8, <1>9 DEF IsUndone, UndoneTo, SameButOutputs
<1> QED BY <1>2, <1>4, <1>11, <1>12, <1>15, <1>16, <1>17 DEF UndoneTo

\* The transactions of a block are undone, the last one first.
IsUndos(f, s, b) ==
  f = [n \in 0..Len(Txs[b]) |->
         IF n = 0 THEN s ELSE undo_transaction(f[n - 1], Txs[b][Len(Txs[b]) - n + 1])]

UndosUpTo(f, s, b, n) ==
  \A i \in 0..Len(Txs[b]) : i <= n =>
    f[i] = IF i = 0 THEN s ELSE undo_transaction(f[i - 1], Txs[b][Len(Txs[b]) - i + 1])

\* The recursive function of undo_block exists.
LEMMA UndosExist ==
  ASSUME NEW s, NEW b \in Block
  PROVE  \E f : IsUndos(f, s, b)
<1>0. PICK N \in Nat : N = Len(Txs[b])
  BY TxShape
<1> DEFINE T == {n \in Nat : \E f : UndosUpTo(f, s, b, n)}
           next(f) == [i \in 0..N |-> IF i = 0 THEN s ELSE undo_transaction(f[i - 1], Txs[b][N - i + 1])]
<1>1. 0 \in T
  <2>1. PICK f : f = [i \in 0..N |-> s]
    OBVIOUS
  <2>2. UndosUpTo(f, s, b, 0)
    BY <1>0, <2>1 DEF UndosUpTo
  <2> QED BY <2>2
<1>2. \A n \in Nat : n \in T => n + 1 \in T
  <2> SUFFICES ASSUME NEW n \in Nat, NEW f, UndosUpTo(f, s, b, n) PROVE \E g : UndosUpTo(g, s, b, n + 1)
    OBVIOUS
  <2>1. PICK g : g = next(f)
    OBVIOUS
  <2>2. \A i \in 0..N : i <= n => g[i] = f[i]
    BY <1>0, <2>1 DEF UndosUpTo
  <2>3. ASSUME NEW i \in 0..N, i <= n + 1
        PROVE  g[i] = IF i = 0 THEN s ELSE undo_transaction(g[i - 1], Txs[b][N - i + 1])
    <3>1. CASE i = 0
      BY <2>1, <3>1
    <3>2. CASE i # 0
      <4>1. i - 1 \in 0..N /\ i - 1 <= n
        BY <2>3, <3>2
      <4>2. g[i - 1] = f[i - 1]
        BY <2>2, <4>1
      <4> QED BY <2>1, <3>2, <4>2
    <3> QED BY <3>1, <3>2
  <2>4. UndosUpTo(g, s, b, n + 1)
    BY <1>0, <2>3 DEF UndosUpTo
  <2> QED BY <2>4
<1>3. N \in T
  <2> HIDE DEF T
  <2> QED BY <1>1, <1>2, Induction
<1>4. PICK f : UndosUpTo(f, s, b, N)
  BY <1>3
<1>5. PICK g : g = next(f)
  OBVIOUS
<1>6. \A i \in 0..N : g[i] = f[i]
  BY <1>0, <1>4, <1>5 DEF UndosUpTo
<1>7. g = next(g)
  <2>1. \A i \in 0..N : i # 0 => i - 1 \in 0..N
    OBVIOUS
  <2> QED BY <1>5, <1>6, <2>1
<1> QED BY <1>0, <1>7 DEF IsUndos

\* The ledger with the block is the ledger of the chain and all transactions.
LEMMA UndoStarts ==
  ASSUME NEW c \in Seq(Block), NEW b \in Block, NEW s, LedInv(s, Append(c, b))
  PROVE  UndoneTo(s, s, c, b, Len(Txs[b]))
<1>1. InputsUpto(b, Len(Txs[b])) = BlockInputs(b)
  BY InputsUptoFacts
<1>2. SpentOf(Append(c, b)) = SpentOf(c) \cup SpentIn(BlockInputs(b))
  BY SpentAppend
<1>3. KeyImagesIn(Append(c, b)) = KeyImagesIn(c) \cup KeyImagesOf(BlockInputs(b))
  BY KeyImagesAppend
<1>4. AllInputs(c) \subseteq AllInputs(Append(c, b))
  BY InputsAppend
<1>5. TopStacks(c, b, Len(Txs[b])) = StacksIn(Append(c, b))
  BY TopStacksFacts
<1>6. StacksOf(s, StacksIn(Append(c, b)), SpentOf(Append(c, b)))
  BY LedgerShows DEF LedInv
<1>7. DOMAIN s.keyimages = KeyImagesIn(Append(c, b))
      /\ \A x \in AllInputs(Append(c, b)) : s.keyimages[x.in.key_image] = x.height
  BY DEF LedInv, TablesOf, KeyImagesIn
<1>8. \A x \in AllInputs(c) : s.keyimages[x.in.key_image] = x.height
  BY <1>4, <1>7
<1>9. IsLedger(s) /\ s.ok /\ DOMAIN s.next_gi = Amount
  BY DEF LedInv
<1> QED BY <1>1, <1>2, <1>3, <1>5, <1>6, <1>7, <1>8, <1>9 DEF UndoneTo

\* undo_block takes back all transactions.
LEMMA UndoTransactions ==
  ASSUME NEW c, GoodChain(c), NEW b \in Block, Good(c, b), NEW s, UndoneTo(s, s, c, b, Len(Txs[b]))
  PROVE  \E u : UndoneTo(u, s, c, b, 0) /\ undo_block(s, b) = Erased(u, b)
<1>1. PICK N \in Nat : N = Len(Txs[b])
  BY TxShape
<1>2. PICK f : f = CHOOSE g : IsUndos(g, s, b)
  OBVIOUS
<1>3. IsUndos(f, s, b)
  BY <1>2, UndosExist
<1>4. undo_block(s, b) = Erased(f[N], b)
  BY <1>1, <1>2 DEF undo_block, IsUndos
<1>5. \A i \in 0..N : f[i] = IF i = 0 THEN s ELSE undo_transaction(f[i - 1], Txs[b][N - i + 1])
  BY <1>1, <1>3 DEF IsUndos
<1> DEFINE T == {n \in Nat : n <= N => UndoneTo(f[n], s, c, b, N - n)}
<1>6. 0 \in T
  <2>1. f[0] = s /\ N - 0 = N
    BY <1>5
  <2> QED BY <1>1, <2>1
<1>7. \A n \in Nat : n \in T => n + 1 \in T
  <2> SUFFICES ASSUME NEW n \in Nat, n \in T, n + 1 <= N
               PROVE  UndoneTo(f[n + 1], s, c, b, N - (n + 1))
    OBVIOUS
  <2>1. PICK m \in 1..N : m = N - n /\ m - 1 = N - (n + 1) /\ m = N - (n + 1) + 1 /\ n + 1 \in 0..N
                          /\ n = (n + 1) - 1 /\ n + 1 # 0
    OBVIOUS
  <2>2. PICK u : u = f[n]
    OBVIOUS
  <2>3. UndoneTo(u, s, c, b, m)
    BY <2>1, <2>2
  <2>4. f[n + 1] = undo_transaction(u, Txs[b][m])
    BY <1>5, <2>1, <2>2
  <2>5. m \in 1..Len(Txs[b])
    BY <1>1
  <2>6. UndoneTo(undo_transaction(u, Txs[b][m]), s, c, b, m - 1)
    BY <2>3, <2>5, UndoStep
  <2> QED BY <2>1, <2>4, <2>6
<1>8. UndoneTo(f[N], s, c, b, 0)
  <2>1. N \in T
    <3> HIDE DEF T
    <3> QED BY <1>6, <1>7, Induction
  <2>2. N - N = 0
    OBVIOUS
  <2> QED BY <2>1, <2>2
<1> QED BY <1>4, <1>8

IsErased(t, u, b) ==
  /\ IsLedger(t)
  /\ t.keyimages = u.keyimages /\ t.outputs = u.outputs /\ t.next_gi = u.next_gi
  /\ t.indices = Without(u.indices, {b})
  /\ t.times = u.times \ {<<Timestamp[b], Height[b]>>}
  /\ t.txpos = Without(u.txpos, Tids(b))
  /\ t.ok <=> /\ u.ok /\ b \in DOMAIN u.indices
              /\ <<Timestamp[b], Height[b]>> \in u.times
              /\ Tids(b) \subseteq DOMAIN u.txpos

\* The fields of the ledger after the block is erased.
LEMMA ErasedFields ==
  ASSUME NEW u, IsLedger(u), NEW b
  PROVE  IsErased(Erased(u, b), u, b)
<1>1. PICK t : t = Erased(u, b)
  OBVIOUS
<1> DEFINE I == Without(u.indices, {b})
           W == u.times \ {<<Timestamp[b], Height[b]>>}
           X == Without(u.txpos, Tids(b))
           P == /\ u.ok /\ b \in DOMAIN u.indices
                /\ <<Timestamp[b], Height[b]>> \in u.times
                /\ Tids(b) \subseteq DOMAIN u.txpos
<1>2. t = [u EXCEPT !.indices = I, !.times = W, !.txpos = X, !.ok = P]
  BY <1>1 DEF Erased
<1> HIDE DEF I, W, X, P
<1>3. /\ IsLedger(t) /\ t.indices = I /\ t.times = W /\ t.txpos = X /\ t.ok = P
      /\ t.keyimages = u.keyimages /\ t.outputs = u.outputs /\ t.next_gi = u.next_gi
  BY <1>2 DEF IsLedger
<1> QED BY <1>1, <1>3 DEF I, W, X, P, IsErased

\* undo_block: the tables.
LEMMA UndoTables ==
  ASSUME NEW c \in Seq(Block), NEW b \in Block, NEW s, LedInv(s, Append(c, b)),
         NEW u, UndoneTo(u, s, c, b, 0)
  PROVE  LET t == Erased(u, b)
         IN  IsErased(t, u, b) /\ t.ok /\ DOMAIN t.next_gi = Amount /\ TablesOf(t, c)
<1>1. PICK t : t = Erased(u, b)
  OBVIOUS
<1>2. IsErased(t, u, b)
  BY <1>1, ErasedFields DEF UndoneTo
<1>3. u.indices = s.indices /\ u.times = s.times /\ u.txpos = s.txpos
  BY DEF UndoneTo
<1>4. GoodChain(c) /\ IsChain(Append(c, b)) /\ Good(c, b)
  BY ChainAppend DEF LedInv
<1>5. \A i \in 1..Len(c) : c[i] \in Block /\ Height[c[i]] # Height[b] /\ c[i] # b
  BY <1>4, FreshHeight
<1>6. StacksOf(t, StacksIn(c), SpentOf(c))
  <2>1. InputsUpto(b, 0) = {} /\ SpentIn({}) = {}
    BY InputsUptoFacts, SpentParts
  <2>2. SpentOf(c) \cup SpentIn(InputsUpto(b, 0)) = SpentOf(c)
    BY <2>1
  <2>3. TopStacks(c, b, 0) = StacksIn(c)
    BY TopStacksFacts
  <2>4. StacksOf(u, StacksIn(c), SpentOf(c))
    BY <2>2, <2>3 DEF UndoneTo
  <2> QED BY <1>2, <2>4 DEF IsErased, StacksOf
<1>7. DOMAIN t.keyimages = KeyImagesIn(c) /\ \A x \in AllInputs(c) : t.keyimages[x.in.key_image] = x.height
  <2>1. InputsUpto(b, 0) = {} /\ KeyImagesOf({}) = {}
    BY InputsUptoFacts, KeyImageParts
  <2> QED BY <1>2, <2>1 DEF IsErased, UndoneTo
<1>8. TimesOf(c) \cup {<<Timestamp[b], Height[b]>>} = s.times /\ <<Timestamp[b], Height[b]>> \notin TimesOf(c)
  <2>1. s.times = TimesOf(Append(c, b))
    BY DEF LedInv, TablesOf, TimesOf
  <2>2. TimesOf(Append(c, b)) = TimesOf(c) \cup {<<Timestamp[b], Height[b]>>}
    BY TimesAppend
  <2>3. <<Timestamp[b], Height[b]>> \notin TimesOf(c)
    BY <1>5 DEF TimesOf
  <2> QED BY <2>1, <2>2, <2>3
<1>9. t.times = TimesOf(c) /\ <<Timestamp[b], Height[b]>> \in u.times
  BY <1>2, <1>3, <1>8 DEF IsErased
<1>10. DOMAIN t.txpos = UNION {Tids(c[i]) : i \in 1..Len(c)} /\ Tids(b) \subseteq DOMAIN u.txpos
  <2>1. DOMAIN s.txpos = (UNION {Tids(c[i]) : i \in 1..Len(c)}) \cup Tids(b)
    <3>1. DOMAIN s.txpos = UNION {Tids(Append(c, b)[i]) : i \in 1..Len(Append(c, b))}
      BY DEF LedInv, TablesOf
    <3> QED BY <3>1, BlocksAppend
  <2>2. \A i \in 1..Len(c) : Tids(b) \cap Tids(c[i]) = {}
    BY <1>4, FreshTids
  <2>3. PICK f : f = u.txpos
    OBVIOUS
  <2>4. t.txpos = Without(f, Tids(b))
    BY <1>2, <2>3 DEF IsErased
  <2>5. DOMAIN t.txpos = (DOMAIN f) \ Tids(b)
    BY <2>4 DEF Without
  <2> QED BY <1>3, <2>1, <2>2, <2>3, <2>5
<1>11. b \in DOMAIN u.indices
  <2>1. DOMAIN s.indices = {Append(c, b)[i] : i \in 1..Len(Append(c, b))}
    BY DEF LedInv
  <2>2. DOMAIN s.indices = {c[i] : i \in 1..Len(c)} \cup {b}
    BY <2>1, BlocksAppend
  <2>3. b \in DOMAIN s.indices
    BY <2>2
  <2> QED BY <1>3, <2>3
<1>12. t.ok /\ DOMAIN t.next_gi = Amount
  BY <1>2, <1>9, <1>10, <1>11 DEF IsErased, UndoneTo
<1>13. TablesOf(t, c)
  BY <1>6, <1>7, <1>9, <1>10 DEF TablesOf, KeyImagesIn, StacksIn, TimesOf
<1> QED BY <1>1, <1>2, <1>12, <1>13

\* undo_block: the indices of blocks and transactions.
LEMMA UndoIndices ==
  ASSUME NEW c \in Seq(Block), NEW b \in Block, NEW s, LedInv(s, Append(c, b)),
         NEW u, u.indices = s.indices, u.txpos = s.txpos, NEW t, IsErased(t, u, b)
  PROVE  DOMAIN t.indices = {c[i] : i \in 1..Len(c)} /\ Home(t, c) /\ Found(t, c)
<1>0. PICK n \in Nat : n = Len(c)
  OBVIOUS
<1>1. PICK e : e = Append(c, b) /\ n = Len(c)
  BY <1>0
<1>2. GoodChain(c) /\ IsChain(e) /\ Good(c, b)
  BY <1>1, ChainAppend DEF LedInv
<1>3. \A i \in 1..n : c[i] \in Block /\ c[i] # b
  BY <1>1, <1>2, FreshHeight
<1>4. /\ Len(e) = n + 1 /\ \A i \in 1..n : e[i] = c[i]
      /\ \A i \in 0..n : Upto(e, i) = Upto(c, i)
  BY <1>1, AppendFacts
<1>5. PICK f, p : f = s.indices /\ p = s.txpos
  OBVIOUS
<1>6. /\ DOMAIN t.indices = (DOMAIN f) \ {b} /\ \A k \in (DOMAIN f) \ {b} : t.indices[k] = f[k]
      /\ DOMAIN t.txpos = (DOMAIN p) \ Tids(b) /\ \A k \in (DOMAIN p) \ Tids(b) : t.txpos[k] = p[k]
  <2>1. t.indices = Without(f, {b}) /\ t.txpos = Without(p, Tids(b))
    BY <1>5 DEF IsErased
  <2>2. DOMAIN t.indices = (DOMAIN f) \ {b} /\ \A k \in (DOMAIN f) \ {b} : t.indices[k] = f[k]
    BY <2>1 DEF Without
  <2>3. DOMAIN t.txpos = (DOMAIN p) \ Tids(b) /\ \A k \in (DOMAIN p) \ Tids(b) : t.txpos[k] = p[k]
    BY <2>1 DEF Without
  <2> QED BY <2>2, <2>3
<1>7. DOMAIN f = {c[i] : i \in 1..n} \cup {b}
  <2>1. DOMAIN f = {e[i] : i \in 1..Len(e)}
    BY <1>1, <1>5 DEF LedInv
  <2>2. DOMAIN f = BlocksOf(e) /\ BlocksOf(e) = BlocksOf(c) \cup {b}
    BY <1>1, <2>1, BlocksOfAppend DEF BlocksOf
  <2> QED BY <1>1, <2>2 DEF BlocksOf
<1>8. DOMAIN t.indices = {c[i] : i \in 1..n}
  BY <1>3, <1>6, <1>7
<1>9. ASSUME NEW i \in 1..n
      PROVE  HomeIn(t.indices[c[i]], Upto(c, i), c[i])
  <2>1. i \in 1..Len(e) /\ i \in 0..n
    BY <1>4
  <2>2. HomeIn(f[e[i]], Upto(e, i), e[i])
    BY <1>1, <1>5, <2>1 DEF LedInv, Home
  <2>3. t.indices[c[i]] = f[c[i]]
    BY <1>3, <1>6, <1>7
  <2>4. e[i] = c[i] /\ Upto(e, i) = Upto(c, i)
    BY <1>4, <2>1
  <2> QED BY <2>2, <2>3, <2>4
<1>10. ASSUME NEW i \in 1..n, NEW j \in 1..Len(Txs[c[i]])
       PROVE  t.txpos[Tid(c[i], j)] = [height |-> i - 1, index |-> j - 1]
  <2>1. i \in 1..Len(e) /\ e[i] = c[i]
    BY <1>4
  <2>2. p[Tid(c[i], j)] = [height |-> i - 1, index |-> j - 1]
    BY <1>1, <1>5, <2>1 DEF LedInv, Found
  <2>3. Tid(c[i], j) \in Tids(c[i])
    BY DEF Tids
  <2>4. Tids(b) \cap Tids(c[i]) = {}
    BY <1>1, <1>2, FreshTids
  <2>5. Tid(c[i], j) \in DOMAIN p
    <3>1. DOMAIN p = UNION {Tids(e[k]) : k \in 1..Len(e)}
      BY <1>1, <1>5 DEF LedInv, TablesOf
    <3> QED BY <2>1, <2>3, <3>1
  <2> QED BY <1>6, <2>2, <2>3, <2>4, <2>5
<1> QED BY <1>1, <1>8, <1>9, <1>10 DEF Home, Found

\* The tip undone: the ledger is that of the chain below it.
LEMMA UndoLedger ==
  ASSUME NEW c \in Seq(Block), NEW b \in Block, NEW s, LedInv(s, Append(c, b))
  PROVE  LedInv(undo_block(s, b), c)
<1>1. GoodChain(c) /\ Good(c, b)
  BY ChainAppend DEF LedInv
<1>2. PICK u : UndoneTo(u, s, c, b, 0) /\ undo_block(s, b) = Erased(u, b)
  BY <1>1, UndoStarts, UndoTransactions
<1>3. PICK t : t = Erased(u, b)
  OBVIOUS
<1>4. IsErased(t, u, b) /\ t.ok /\ DOMAIN t.next_gi = Amount /\ TablesOf(t, c)
  BY <1>2, <1>3, UndoTables
<1>5. u.indices = s.indices /\ u.txpos = s.txpos
  BY <1>2 DEF UndoneTo
<1>6. DOMAIN t.indices = {c[i] : i \in 1..Len(c)} /\ Home(t, c) /\ Found(t, c)
  BY <1>4, <1>5, UndoIndices
<1>7. IsLedger(t)
  BY <1>4 DEF IsErased
<1> QED BY <1>1, <1>2, <1>3, <1>4, <1>6, <1>7 DEF LedInv

-------------------------------------------------------------------------------
(***************************************************************************)
(* The first ledger, and a ledger that was loaded.                         *)
(***************************************************************************)
LEMMA EmptyChain ==
  ASSUME NEW a
  PROVE  IsChain(<<>>) /\ Stack(<<>>, a) = <<>> /\ AllInputs(<<>>) = {}
<1>1. <<>> \in Seq(Block)
  OBVIOUS
<1>2. Stack(<<>>, a) = <<>>
  BY <1>1, StackTyped
<1> QED BY <1>1, <1>2, NoInputs DEF IsChain

\* No table has an entry before genesis.
LEMMA FirstLedger == LedInv(EmptyLedger, <<>>)
<1>1. PICK s, c : s = EmptyLedger /\ c = <<>>
  OBVIOUS
<1>2. /\ IsLedger(s) /\ s.ok /\ DOMAIN s.next_gi = Amount
      /\ s.keyimages = <<>> /\ s.outputs = <<>> /\ s.indices = <<>> /\ s.txpos = <<>> /\ s.times = {}
      /\ s.next_gi = NoCache
  BY <1>1 DEF EmptyLedger, IsLedger, NoCache
<1>3. DOMAIN <<>> = {} /\ 1..Len(c) = {}
  BY <1>1
<1>4. IsChain(c) /\ AllInputs(c) = {} /\ \A a \in Amount : Stack(c, a) = <<>>
  BY <1>1, EmptyChain
<1>5. GoodChain(c)
  BY <1>3, <1>4 DEF GoodChain
<1>6. StacksOf(s, StacksIn(c), SpentOf(c))
  <2>1. \A a \in Amount : StacksIn(c)[a] = <<>>
    BY <1>4 DEF StacksIn
  <2>2. \A a \in Amount : 1..Len(StacksIn(c)[a]) = {}
    BY <2>1
  <2>3. DOMAIN s.outputs = UNION {StackKeys(StacksIn(c), a) : a \in Amount}
    <3>1. \A a \in Amount : StackKeys(StacksIn(c), a) = {}
      BY <2>2 DEF StackKeys
    <3> QED BY <1>2, <1>3, <3>1
  <2>4. \A a \in Amount : s.next_gi[a] = Unknown
    BY <1>2 DEF NoCache
  <2> QED BY <2>2, <2>3, <2>4 DEF StacksOf, StackKeys
<1>7. TablesOf(s, c)
  BY <1>2, <1>3, <1>4, <1>6 DEF TablesOf, StacksIn
<1>8. DOMAIN s.indices = {c[i] : i \in 1..Len(c)} /\ Home(s, c) /\ Found(s, c)
  BY <1>2, <1>3 DEF Home, Found
<1> QED BY <1>1, <1>2, <1>5, <1>7, <1>8 DEF LedInv

\* The genesis block spends nothing.
LEMMA GenesisGood ==
  /\ IsChain(Append(<<>>, Genesis)) /\ Good(<<>>, Genesis) /\ Append(<<>>, Genesis) = <<Genesis>>
<1>1. Append(<<>>, Genesis) = <<Genesis>>
  OBVIOUS
<1>2. <<Genesis>> \in Seq(Block) /\ Len(<<Genesis>>) = 1 /\ <<Genesis>>[1] = Genesis
  BY BlockAssumption
<1>3. IsChain(<<Genesis>>)
  BY <1>2 DEF IsChain
<1>4. BlockInputs(Genesis) = {}
  <2>1. \A i \in 1..Len(Txs[Genesis]) : Txs[Genesis][i].inputs = <<>>
    BY TransactionAssumption, BlockAssumption
  <2>2. \A i \in 1..Len(Txs[Genesis]) : KeyInputs(Txs[Genesis][i]) = {}
    BY <2>1 DEF KeyInputs
  <2> QED BY <2>2 DEF BlockInputs, BlockTxs
<1>5. Good(<<>>, Genesis)
  <2>1. ~SharesKeyimage(Genesis)
    <3>1. \A i \in 1..Len(Txs[Genesis]) : KeyInputs(Txs[Genesis][i]) = {}
      BY <1>4 DEF BlockInputs, BlockTxs
    <3> QED BY <3>1 DEF SharesKeyimage
  <2> QED BY <1>4, <2>1, GoodIs
<1> QED BY <1>1, <1>3, <1>5

\* The ledger of genesis.
LEMMA InitLedger == LedInv(Redone(EmptyLedger, Genesis), <<Genesis>>)
<1>1. <<>> \in Seq(Block) /\ Genesis \in Block
  BY BlockAssumption
<1>2. LedInv(Redone(EmptyLedger, Genesis), Append(<<>>, Genesis))
  BY <1>1, FirstLedger, GenesisGood, RedoLedger
<1> QED BY <1>2, GenesisGood

\* A restart only forgets m_next_gi_for_amount.
LEMMA RestartLedger ==
  ASSUME NEW s, NEW c, LedInv(s, c)
  PROVE  LedInv([s EXCEPT !.next_gi = NoCache], c)
<1>1. PICK t : t = [s EXCEPT !.next_gi = NoCache]
  OBVIOUS
<1>2. PICK g : g = NoCache
  OBVIOUS
<1>3. /\ IsLedger(t) /\ t.next_gi = g
      /\ t.keyimages = s.keyimages /\ t.outputs = s.outputs /\ t.indices = s.indices
      /\ t.txpos = s.txpos /\ t.times = s.times /\ t.ok = s.ok
  BY <1>1, <1>2 DEF LedInv, IsLedger
<1>4. DOMAIN t.next_gi = Amount /\ \A a \in Amount : t.next_gi[a] = Unknown
  BY <1>2, <1>3 DEF NoCache
<1>5. StacksOf(t, StacksIn(c), SpentOf(c))
  <2>1. StacksOf(s, StacksIn(c), SpentOf(c))
    BY LedgerShows DEF LedInv
  <2> QED BY <1>3, <1>4, <2>1 DEF StacksOf
<1>6. TablesOf(t, c)
  BY <1>3, <1>5 DEF LedInv, TablesOf, StacksIn
<1>7. Home(t, c) /\ Found(t, c)
  BY <1>3 DEF LedInv, Home, Found
<1> QED BY <1>1, <1>3, <1>4, <1>6, <1>7 DEF LedInv

-------------------------------------------------------------------------------
(***************************************************************************)
(* The ledger in every behaviour.                                          *)
(***************************************************************************)
LEMMA Tip ==
  ASSUME NEW c \in Seq(Block), c # <<>>
  PROVE  /\ Last(c) = c[Len(c)] /\ Len(c) \in Nat \ {0} /\ Last(c) \in Block
         /\ Front(c) \in Seq(Block) /\ Len(Front(c)) = Len(c) - 1
         /\ c = Append(Front(c), Last(c))
<1>1. Len(c) \in Nat \ {0}
  OBVIOUS
<1>2. PICK n \in 1..Len(c) : n = Len(c) /\ n \in 0..Len(c) /\ n - 1 \in 0..Len(c)
  BY <1>1
<1>3. Last(c) = c[n] /\ Front(c) = Upto(c, n - 1)
  BY <1>2 DEF Last, Front, Upto
<1>4. Upto(c, n - 1) \in Seq(Block) /\ Len(Upto(c, n - 1)) = n - 1
  BY <1>2, UptoFacts
<1>5. Upto(c, n) = Append(Upto(c, n - 1), c[n]) /\ c[n] \in Block
  BY UptoNext
<1>6. Upto(c, n) = c
  BY <1>2, UptoAll
<1> QED BY <1>1, <1>2, <1>3, <1>4, <1>5, <1>6

\* redo_block applies the blocks that are good on top of the chain, the blocks
\* below the checkpoint included.
LEMMA Accepted ==
  ASSUME NEW s, NEW c, LedInv(s, c), c # <<>>, NEW b \in Block \ {Genesis}, Parent[b] = Last(c)
  PROVE  /\ IsChain(Append(c, b)) /\ Len(c) = Height[b]
         /\ Answer(s, b) = AnswerOn(c, b) /\ (Answer(s, b) = "applies" <=> Good(c, b))
<1>1. c \in Seq(Block) /\ IsChain(c)
  BY ChainHeights DEF LedInv, GoodChain
<1>2. PICK n \in Nat \ {0} : n = Len(c) /\ Parent[b] = c[n]
  BY <1>1, Tip
<1>3. PICK d \in Seq(Block) : d = Append(c, b) /\ Len(d) = n + 1 /\ d[n + 1] = b /\ \A i \in 1..n : d[i] = c[i]
  <2>1. /\ Append(c, b) \in Seq(Block) /\ Len(Append(c, b)) = Len(c) + 1
        /\ Append(c, b)[Len(c) + 1] = b /\ \A i \in 1..Len(c) : Append(c, b)[i] = c[i]
    BY <1>1, AppendFacts
  <2> QED BY <1>2, <2>1
<1>4. IsChain(d)
  <2>1. ASSUME NEW i \in 1..n + 1
        PROVE  IF i = 1 THEN d[1] = Genesis ELSE d[i] # Genesis /\ Parent[d[i]] = d[i - 1]
    <3>1. CASE i \in 1..n
      <4>1. IF i = 1 THEN c[1] = Genesis ELSE c[i] # Genesis /\ Parent[c[i]] = c[i - 1]
        BY <1>1, <1>2, <3>1 DEF IsChain
      <4>2. d[i] = c[i] /\ (i # 1 => d[i - 1] = c[i - 1])
        BY <1>3, <3>1
      <4> QED BY <4>1, <4>2
    <3>2. CASE i = n + 1
      <4>1. i # 1 /\ i - 1 = n /\ n \in 1..n
        BY <3>2
      <4> QED BY <1>2, <1>3, <3>2, <4>1
    <3> QED BY <3>1, <3>2
  <2> QED BY <1>3, <2>1 DEF IsChain
<1>5. Height[b] = n
  BY <1>1, <1>2, <1>3, <1>4, FreshHeight
<1>6. Answer(s, b) = AnswerOn(c, b)
  BY <1>1, LedgerShows, AnswerIs DEF LedInv
<1>7. AnswerOn(c, b) = "applies" <=> Good(c, b)
  <2>1. CASE check_sigs(b)
    BY <2>1, AppliedIsGood
  <2>2. CASE ~check_sigs(b)
    <3>1. c \in [1..Height[b] -> Block] /\ c[Height[b]] = Parent[b]
      BY <1>1, <1>2, <1>5
    <3>2. Good(c, b)
      BY <1>1, <2>2, <3>1, CheckpointAssumption
    <3> QED BY <2>2, <3>2, GoodIs DEF AnswerOn
  <2> QED BY <2>1, <2>2
<1> QED BY <1>2, <1>3, <1>4, <1>5, <1>6, <1>7

\* There is one chain to a block.
LEMMA OneChain ==
  ASSUME NEW c, NEW d, IsChain(c), IsChain(d), c # <<>>, d # <<>>, Last(c) = Last(d)
  PROVE  c = d
<1>1. /\ c \in Seq(Block) /\ \A i \in 1..Len(c) : c[i] \in Block /\ Height[c[i]] = i - 1
      /\ d \in Seq(Block) /\ \A i \in 1..Len(d) : d[i] \in Block /\ Height[d[i]] = i - 1
  BY ChainHeights
<1>2. PICK m \in Nat \ {0}, n \in Nat \ {0} : m = Len(c) /\ n = Len(d) /\ Last(c) = c[m] /\ Last(d) = d[n]
  BY <1>1, Tip
<1>3. m = n
  <2>1. m \in 1..m /\ n \in 1..n
    OBVIOUS
  <2>2. Height[c[m]] = m - 1 /\ Height[d[n]] = n - 1
    BY <1>1, <1>2, <2>1
  <2>3. m - 1 = n - 1
    BY <1>2, <2>2
  <2> QED BY <2>3
<1> DEFINE T == {k \in Nat : k < n => c[n - k] = d[n - k]}
<1>4. 0 \in T
  <2>1. n - 0 = n
    OBVIOUS
  <2> QED BY <1>2, <1>3, <2>1
<1>5. \A k \in Nat : k \in T => k + 1 \in T
  <2> SUFFICES ASSUME NEW k \in Nat, k \in T, k + 1 < n
               PROVE  c[n - (k + 1)] = d[n - (k + 1)]
    OBVIOUS
  <2>1. PICK i \in 1..n : i = n - k /\ i - 1 = n - (k + 1) /\ i # 1
    OBVIOUS
  <2>2. c[i] = d[i]
    BY <2>1
  <2>3. Parent[c[i]] = c[i - 1] /\ Parent[d[i]] = d[i - 1]
    BY <1>2, <1>3, <2>1 DEF IsChain
  <2> QED BY <2>1, <2>2, <2>3
<1>6. \A k \in Nat : k \in T
  <2> HIDE DEF T
  <2> QED BY <1>4, <1>5, Induction
<1>7. ASSUME NEW i \in 1..Len(c)
      PROVE  c[i] = d[i]
  <2>1. n - i \in Nat /\ n - i < n /\ n - (n - i) = i
    BY <1>2, <1>3
  <2>2. c[n - (n - i)] = d[n - (n - i)]
    BY <1>6, <2>1
  <2> QED BY <2>1, <2>2
<1> QED BY <1>1, <1>2, <1>3, <1>7, SeqEqual

\* A verdict is the answer for the block on top of the chain that ends in its parent.
VerdictOf(v) ==
  \E b \in Block \ {Genesis} : \E c :
    IsChain(c) /\ c # <<>> /\ Last(c) = Parent[b] /\ v = <<b, AnswerOn(c, b)>>

LedgerIInv ==
  /\ LedInv(ledger, chain) /\ chain # <<>>
  /\ LedInv(disk.ledger, disk.chain) /\ disk.chain # <<>>
  /\ \A v \in verdicts : VerdictOf(v)

\* The invariant at the start.
LEMMA LedgerStarts == Init => LedgerIInv
<1> SUFFICES ASSUME Init PROVE LedgerIInv
  OBVIOUS
<1>1. chain = <<Genesis>> /\ ledger = Redone(EmptyLedger, Genesis) /\ verdicts = {}
      /\ disk.chain = chain /\ disk.ledger = ledger
  BY DEF Init
<1>2. LedInv(ledger, chain) /\ LedInv(disk.ledger, disk.chain) /\ chain # <<>> /\ disk.chain # <<>>
  BY <1>1, InitLedger
<1> QED BY <1>1, <1>2 DEF LedgerIInv

\* A process that is started finds the ledger of the last commit.
LEMMA ReopenedLedger == LedgerIInv /\ Reopened => LedInv(ledger', chain') /\ chain' # <<>>
<1> SUFFICES ASSUME LedgerIInv, Reopened PROVE LedInv(ledger', chain') /\ chain' # <<>>
  OBVIOUS
<1>1. chain' = disk.chain /\ ledger' = [disk.ledger EXCEPT !.next_gi = NoCache]
  BY DEF Reopened
<1>2. LedInv(disk.ledger, disk.chain) /\ disk.chain # <<>>
  BY DEF LedgerIInv
<1>3. LedInv([disk.ledger EXCEPT !.next_gi = NoCache], disk.chain)
  BY <1>2, RestartLedger
<1> QED BY <1>1, <1>2, <1>3

\* redo_block keeps it, with its verdict.
LEMMA LedgerRedo ==
  ASSUME LedgerIInv, NEW b \in Block \ {Genesis}, redo_block(b)
  PROVE  LedgerIInv'
<1>1. LedInv(ledger, chain) /\ chain # <<>> /\ Parent[b] = Last(chain)
  BY DEF LedgerIInv, redo_block
<1>2. chain \in Seq(Block) /\ IsChain(chain)
  BY <1>1, ChainHeights DEF LedInv, GoodChain
<1>3. /\ IsChain(Append(chain, b)) /\ Answer(ledger, b) = AnswerOn(chain, b)
      /\ Answer(ledger, b) = "applies" <=> Good(chain, b)
  BY <1>1, Accepted
<1>4. LedInv(disk'.ledger, disk'.chain) /\ disk'.chain # <<>>
  BY DEF LedgerIInv, redo_block
<1>5. \A v \in verdicts' : VerdictOf(v)
  <2>1. verdicts' = verdicts \cup {<<b, AnswerOn(chain, b)>>}
    BY <1>3 DEF redo_block
  <2>2. VerdictOf(<<b, AnswerOn(chain, b)>>)
    BY <1>1, <1>2 DEF VerdictOf
  <2> QED BY <2>1, <2>2 DEF LedgerIInv
<1>6. LedInv(ledger', chain') /\ chain' # <<>>
  <2>1. CASE Answer(ledger, b) = "applies"
    <3>1. ledger' = Redone(ledger, b) /\ chain' = Append(chain, b)
      BY <2>1 DEF redo_block
    <3>2. LedInv(Redone(ledger, b), Append(chain, b))
      BY <1>1, <1>2, <1>3, <2>1, RedoLedger
    <3>3. Append(chain, b) # <<>>
      <4>1. chain \in Seq(Block) /\ b \in Block
        BY <1>2
      <4> QED BY <4>1, AppendProperties
    <3> QED BY <3>1, <3>2, <3>3
  <2>2. CASE Answer(ledger, b) = "refuses"
    BY <1>1, <2>2 DEF redo_block
  <2>3. CASE Answer(ledger, b) = "throws"
    <3>1. Reopened
      BY <2>3 DEF redo_block
    <3> QED BY <3>1, ReopenedLedger
  <2> QED BY <2>1, <2>2, <2>3 DEF Answer
<1> QED BY <1>4, <1>5, <1>6 DEF LedgerIInv

\* undo_block of the tip keeps it.
LEMMA LedgerUndo == LedgerIInv /\ UndoTip => LedgerIInv'
<1> SUFFICES ASSUME LedgerIInv, UndoTip PROVE LedgerIInv'
  OBVIOUS
<1>1. LedInv(ledger, chain) /\ chain # <<>> /\ Len(chain) > 1
  BY DEF LedgerIInv, UndoTip
<1>2. chain \in Seq(Block)
  BY <1>1, ChainHeights DEF LedInv, GoodChain
<1>3. PICK c \in Seq(Block), b \in Block : c = Front(chain) /\ b = Last(chain) /\ chain = Append(c, b) /\ Len(c) = Len(chain) - 1
  BY <1>1, <1>2, Tip
<1>4. ledger' = undo_block(ledger, b) /\ chain' = c /\ UNCHANGED <<disk, verdicts>>
  BY <1>3 DEF UndoTip
<1>5. LedInv(ledger', chain')
  BY <1>1, <1>3, <1>4, UndoLedger
<1>6. chain' # <<>>
  BY <1>1, <1>2, <1>3, <1>4
<1> QED BY <1>4, <1>5, <1>6 DEF LedgerIInv

\* Every step keeps it.
LEMMA LedgerStep == LedgerIInv /\ [MCNext]_all => LedgerIInv'
<1> SUFFICES ASSUME LedgerIInv, [MCNext]_all PROVE LedgerIInv'
  OBVIOUS
<1>1. CASE UNCHANGED vars
  BY <1>1 DEF vars, LedgerIInv
<1>2. CASE Next
  <2>1. CASE \E b \in Block \ {Genesis} : redo_block(b)
    BY <2>1, LedgerRedo
  <2>2. CASE UndoTip
    BY <2>2, LedgerUndo
  <2>3. CASE db_commit
    BY <2>3 DEF db_commit, LedgerIInv
  <2>4. CASE Restart
    <3>1. Reopened /\ UNCHANGED <<disk, verdicts>>
      BY <2>4 DEF Restart
    <3> QED BY <3>1, ReopenedLedger DEF LedgerIInv
  <2> QED BY <1>2, <2>1, <2>2, <2>3, <2>4 DEF Next
<1> QED BY <1>1, <1>2 DEF MCNext, all

\* It holds in every behaviour.
LEMMA LedgerInvariant == MCSpec => []LedgerIInv
<1>1. MCInit => LedgerIInv
  BY LedgerStarts DEF MCInit
<1> QED BY <1>1, LedgerStep, PTL DEF MCSpec

\* In every behaviour of the ledger, and after every restart, the tables are
\* those of the blocks of the chain alone, no assertion on them has failed, and the
\* global indices and the transaction index lead to the outputs and transactions
\* of the chain (redo_block and undo_block of BlockChainState.cpp).
THEOREM LedgerAlwaysExact == MCSpec => []LedgerExact
<1>1. LedgerIInv => LedgerExact
  <2> SUFFICES ASSUME LedgerIInv PROVE LedgerIsChain /\ AssertionsHold /\ IndicesLeadHome /\ TransactionsFound
    BY DEF LedgerExact
  <2>1. LedInv(ledger, chain) /\ LedInv(disk.ledger, disk.chain)
    BY DEF LedgerIInv
  <2>2. LedgerIsChain /\ AssertionsHold
    BY <2>1 DEF LedgerIsChain, AssertionsHold, LedInv
  <2>3. IndicesLeadHome
    <3> SUFFICES ASSUME NEW i \in 1..Len(chain), NEW j \in 1..Len(Txs[chain[i]]),
                        NEW n \in 1..Len(Txs[chain[i]][j].outputs)
                 PROVE  LeadsHome(ledger, chain[i], j, n)
      BY DEF IndicesLeadHome, LeadsHome
    <3>1. PICK s, c : s = ledger /\ c = chain
      OBVIOUS
    <3>2. LedInv(s, c) /\ i \in 1..Len(c) /\ j \in 1..Len(Txs[c[i]]) /\ n \in 1..Len(Txs[c[i]][j].outputs)
      BY <2>1, <3>1
    <3>3. LeadsHome(s, c[i], j, n)
      BY <3>2, LedgerHome
    <3> QED BY <3>1, <3>3
  <2>4. TransactionsFound
    BY <2>1 DEF LedInv, Found, TransactionsFound
  <2> QED BY <2>2, <2>3, <2>4
<1> QED BY <1>1, LedgerInvariant, PTL

\* redo_block gives one answer per block, whatever was applied and undone in
\* between, and the memory pool gives the same unless its clock and that of the
\* block differ on an output of a ring (start_work_get_error and
\* redo_transaction_get_error of BlockChainState.cpp).
THEOREM VerdictsAlwaysAgree == MCSpec => []VerdictsAgree
<1>1. LedgerIInv => VerdictsAgree
  <2> SUFFICES ASSUME LedgerIInv PROVE VerdictFixed /\ PoolAgreesWithBlock
    BY DEF VerdictsAgree
  <2>1. VerdictFixed
    <3> SUFFICES ASSUME NEW v \in verdicts, NEW w \in verdicts, v[1] = w[1] PROVE v = w
      BY DEF VerdictFixed
    <3>1. PICK b \in Block \ {Genesis} : \E c :
            IsChain(c) /\ c # <<>> /\ Last(c) = Parent[b] /\ v = <<b, AnswerOn(c, b)>>
      BY DEF LedgerIInv, VerdictOf
    <3>2. PICK e \in Block \ {Genesis} : \E d :
            IsChain(d) /\ d # <<>> /\ Last(d) = Parent[e] /\ w = <<e, AnswerOn(d, e)>>
      BY DEF LedgerIInv, VerdictOf
    <3>3. PICK c : IsChain(c) /\ c # <<>> /\ Last(c) = Parent[b] /\ v = <<b, AnswerOn(c, b)>>
      BY <3>1
    <3>4. PICK d : IsChain(d) /\ d # <<>> /\ Last(d) = Parent[e] /\ w = <<e, AnswerOn(d, e)>>
      BY <3>2
    <3>5. b = e
      BY <3>3, <3>4
    <3>6. c = d
      BY <3>3, <3>4, <3>5, OneChain
    <3> QED BY <3>3, <3>4, <3>5, <3>6
  <2>2. PoolAgreesWithBlock
    <3> SUFFICES ASSUME NEW b \in Block \ {Genesis}, Parent[b] = Last(chain), check_sigs(b),
                        ~ClocksDiffer(ledger, b)
                 PROVE  (\A i \in 2..Len(Txs[b]) :
                           ~PoolRefuses(ledger, Txs[b][i], Len(chain), Timestamp[Last(chain)]))
                          <=> Accepts(ledger, b)
      BY DEF PoolAgreesWithBlock
    <3>1. LedInv(ledger, chain) /\ chain # <<>>
      BY DEF LedgerIInv
    <3>2. chain \in Seq(Block)
      BY <3>1, ChainHeights DEF LedInv, GoodChain
    <3>3. Shows(ledger, chain) /\ Len(chain) = Height[b]
      BY <3>1, Accepted, LedgerShows DEF LedInv
    <3>4. \A i \in 2..Len(Txs[b]) :
            PoolRefuses(ledger, Txs[b][i], Len(chain), Timestamp[b])
              <=> PoolRefuses(ledger, Txs[b][i], Len(chain), Timestamp[Last(chain)])
      BY <3>2, <3>3, PoolClock
    <3> QED BY <3>2, <3>3, <3>4, PoolAgrees
  <2> QED BY <2>1, <2>2
<1> QED BY <1>1, LedgerInvariant, PTL
===============================================================================
