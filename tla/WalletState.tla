------------------------------ MODULE WalletState ------------------------------
(***************************************************************************)
(* WalletStateBasic and WalletState: what the wallet knows of the outputs, *)
(* key images and transactions of its addresses, kept so that the last     *)
(* blocks can be undone; it follows the chain of a node through            *)
(* reorganizations, views the node's memory pool, and keeps the payment    *)
(* queue, transactions that it sends until they are confirmed.  The cache  *)
(* data base is committed by a timer, while the files of the queue and of  *)
(* the wallet are written at once; the process may be killed at any point  *)
(* between two handlers.                                                   *)
(*                                                                         *)
(* A cache is a function from keys to values, as the data base is:         *)
(*   <<"un", h, o>>   output o of height h is spendable (un, uh)           *)
(*   <<"lk", o>>      output o is locked; the value is its height          *)
(*                    (lh or lt, and li)                                   *)
(*   <<"ul", h, o>>   o was unlocked by the block of height h; the value   *)
(*                    is the amount that it added                          *)
(*   <<"ki", k>>      the output that key image k spends: [h, o]           *)
(*   <<"ba", a>>      balance of address a, of all addresses for a = All   *)
(*   <<"tx", t>>      transaction t concerns us; the value is its height   *)
(* The amount and the global index in the keys of the code are the         *)
(* identity of an output; outputs are numbered in the order of amount and  *)
(* index, the order in which cursors meet them.                            *)
(***************************************************************************)
EXTENDS Locator, TLC

CONSTANTS
  Addr,       \* addresses
  All,        \* the empty address, under which the total balance is kept
  KeyImage,
  Tx,
  Output,     \* 1..n
  Amount,     \* of an output
  Owner,      \* the address it pays to
  Image,      \* the key image that spends it
  Lock,       \* [kind, at]: spendable "now", from a "height" or from a "time"
  Inputs,     \* the key images that a transaction spends
  Outputs,    \* its outputs, those of one address together
  TS, Median,  \* timestamp and median timestamp of a block
  BlockTxs,    \* its transactions, the coinbase first
  Claimed,     \* when a key was created, as the user first says
  Created,     \* when it really was created
  FutureLimit, \* block_future_time_limit
  Day,         \* expected_blocks_per_day
  InitialAddr, \* the addresses of a new wallet
  Payment,     \* transactions that may be put into the payment queue
  Pooled       \* transactions that the node's pool may hold

ASSUME CacheAssumption ==
  /\ Output = 1..Cardinality(Output)
  /\ \A o, p \in Output : o < p => Amount[o] <= Amount[p]
  /\ \A o \in Output : Amount[o] > 0 /\ Owner[o] \in Addr /\ Image[o] \in KeyImage

Branch(b) == {c \in Block : b \in Range(Path[c])}

\* Clocks are wrong by no more than the limit: nothing is paid to an address in a
\* block that looks older than it, or below a block that does; and no block above
\* one that concerns us looks older than that one, or the node would leave that
\* one out (FirstNotOlder).
ASSUME WalletAssumption ==
  /\ Payment \subseteq Tx /\ Pooled \subseteq Tx /\ Day > 0 /\ InitialAddr \subseteq Addr
  /\ \A b \in Block : \A i \in DOMAIN BlockTxs[b] : \A o \in Range(Outputs[BlockTxs[b][i]]) :
       \A d \in Branch(b) : TS[d] + FutureLimit >= Created[Owner[o]] /\ TS[d] >= TS[b]

VARIABLES
  db,            \* the cache
  chain,         \* headers and undo maps of the blocks from m_tail_height on
  m_tail_height,
  registered,    \* ADDRESSES_PREFIX: since when the cache was scanned for an address
  disk,          \* what the last commit left: db, chain, tail, registered
  m_wallet,      \* the wallet file: when the key of an address was created
  oldest,        \* m_oldest_timestamp
  mem,           \* m_memory_state: txs, unspents, used key images
  pool,          \* m_pool_hashes
  pq,            \* payment_queue: transaction -> remove_height
  files,         \* the files of the queue
  ok             \* every invariant(...) of the code held

vars == <<db, chain, m_tail_height, registered, disk, m_wallet, oldest, mem, pool, pq, files, ok>>

--------------------------------------------------------------------------------
\* The cache (WalletStateBasic).

\* The data base, the undo map of the block being applied, and whether every
\* nooverwrite and mustexist of the code was justified.
Cache(d, undo) == [db |-> d, undo |-> undo, ok |-> TRUE]

Has(s, k) == k \in DOMAIN s.db

record_undo(s, k) ==
  IF k \in DOMAIN s.undo THEN s.undo
  ELSE (k :> IF Has(s, k) THEN <<s.db[k]>> ELSE <<>>) @@ s.undo

put_with_undo(s, k, v, nooverwrite) ==
  [db |-> (k :> v) @@ s.db, undo |-> record_undo(s, k),
   ok |-> s.ok /\ ~(nooverwrite /\ Has(s, k))]

del_with_undo(s, k, mustexist) ==
  [db |-> [x \in DOMAIN s.db \ {k} |-> s.db[x]], undo |-> record_undo(s, k),
   ok |-> s.ok /\ (mustexist => Has(s, k))]

\* undo_db_state: every key of the undo map gets its value back.
undo_db_state(d, undo) ==
  [k \in {x \in DOMAIN d : x \notin DOMAIN undo} \cup
         {x \in DOMAIN undo : undo[x] # <<>>} |->
     IF k \in DOMAIN undo THEN undo[k][1] ELSE d[k]]
--------------------------------------------------------------------------------
Balance(d, a) == IF <<"ba", a>> \in DOMAIN d THEN d[<<"ba", a>>]
                 ELSE [locked |-> 0, spendable |-> 0]

combine_balance(b, o, locked_op, spendable_op) ==
  [locked |-> b.locked + locked_op * Amount[o],
   spendable |-> b.spendable + spendable_op * Amount[o]]

StoreBalance(s, a, b) ==
  IF b.locked = 0 /\ b.spendable = 0 THEN del_with_undo(s, <<"ba", a>>, FALSE)
  ELSE put_with_undo(s, <<"ba", a>>, b, FALSE)

ModifyOne(s, a, o, lop, sop) ==
  StoreBalance(s, a, combine_balance(Balance(s.db, a), o, lop, sop))

modify_balance(s, o, lop, sop) ==
  ModifyOne(ModifyOne(s, Owner[o], o, lop, sop), All, o, lop, sop)

add_to_lock_index(s, o, h) ==
  put_with_undo(modify_balance(s, o, 1, 0), <<"lk", o>>, h, TRUE)
remove_from_lock_index(s, o) ==
  del_with_undo(modify_balance(s, o, -1, 0), <<"lk", o>>, TRUE)

add_to_unspent_index(s, o, h) ==
  put_with_undo(modify_balance(s, o, 0, 1), <<"un", h, o>>, "", TRUE)
remove_from_unspent_index(s, e) ==
  del_with_undo(modify_balance(s, e.o, 0, -1), <<"un", e.h, e.o>>, TRUE)

\* read_by_keyimage, and read_from_unspent_index of what it found.
Known(s, k) == Has(s, <<"ki", k>>)
Found(s, k) == s.db[<<"ki", k>>]
Unspent(s, k) == Known(s, k) /\ Has(s, <<"un", Found(s, k).h, Found(s, k).o>>)

\* Of the outputs that share a key image only one can ever be spent: a spent
\* one rules out the others, of the unspent ones the largest counts.
AlreadySpent_mut(s, o) == FALSE
AlreadySpent(s, o) == Known(s, Image[o]) /\ ~Unspent(s, Image[o])
Outranked(s, o) ==
  /\ Known(s, Image[o])
  /\ \/ Amount[o] <= Amount[Found(s, Image[o]).o]
     \/ Owner[o] # Owner[Found(s, Image[o]).o]

try_add_incoming_output(s, o) ==
  ~AlreadySpent(s, o) /\ (Lock[o].kind # "now" \/ ~Outranked(s, o))

AddedAmount(s, o) ==
  IF AlreadySpent(s, o) \/ Outranked(s, o) THEN 0
  ELSE IF Known(s, Image[o]) THEN Amount[o] - Amount[Found(s, Image[o]).o]
  ELSE Amount[o]

Replaced(s, o) == IF Known(s, Image[o]) THEN remove_from_unspent_index(s, Found(s, Image[o])) ELSE s

add_incoming_output(s, o, h, just_unlocked) ==
  IF AlreadySpent(s, o) THEN s
  ELSE IF Lock[o].kind # "now" /\ ~just_unlocked THEN add_to_lock_index(s, o, h)
  ELSE IF Outranked(s, o) THEN s
  ELSE put_with_undo(add_to_unspent_index(Replaced(s, o), o, h),
                     <<"ki", Image[o]>>, [h |-> h, o |-> o], ~Known(s, Image[o]))

Locked(s) == {o \in Output : Has(s, <<"lk", o>>)}

unlock_output(s, now, o) ==
  LET r == remove_from_lock_index(s, o)
  IN  put_with_undo(add_incoming_output(r, o, s.db[<<"lk", o>>], TRUE),
                    <<"ul", now, o>>, AddedAmount(r, o), TRUE)

UnlockAll(s, now, S) ==
  FoldLeft(LAMBDA x, o : unlock_output(x, now, o), s, SetToSortSeq(S, <))

\* unlock: what the height and the median time of a block release.
unlock(s, height, median) ==
  UnlockAll(s, height,
    {o \in Locked(s) : \/ Lock[o].kind = "height" /\ Lock[o].at <= height
                       \/ Lock[o].kind = "time" /\ Lock[o].at <= median})

\* A key image spends locked outputs too: the node accepts it a little before
\* the lock ends.
SpendUnspent(s, k) == IF Unspent(s, k) THEN remove_from_unspent_index(s, Found(s, k)) ELSE s

add_incoming_keyimage(s, height, k) ==
  SpendUnspent(UnlockAll(s, height, {o \in Locked(s) : Image[o] = k}), k)

try_adding_incoming_keyimage(s, k) ==
  Unspent(s, k) \/ \E o \in Locked(s) : Image[o] = k

\* parse_raw_transaction: our outputs, those of them that count, and the inputs
\* that spend an output of ours.
Ours(t, addrs) == SelectSeq(Outputs[t], LAMBDA o : Owner[o] \in addrs)
Accepted(s, t, addrs) == SelectSeq(Ours(t, addrs), LAMBDA o : try_add_incoming_output(s, o))
Recognized(s, t) == {k \in Inputs[t] : try_adding_incoming_keyimage(s, k)}
our_transaction(s, t, addrs) == Ours(t, addrs) # <<>> \/ Recognized(s, t) # {}

\* redo_transaction with the data base as its delta_state.
WithOutputs(s, outs, h) ==
  FoldLeft(LAMBDA x, o : add_incoming_output(x, o, h, FALSE), s, outs)
WithInputs(s, ks, h) ==
  FoldLeft(LAMBDA x, k : add_incoming_keyimage(x, h, k), s, SetToSeq(ks))

redo_transaction(s, t, h, addrs) ==
  IF ~our_transaction(s, t, addrs) THEN s
  ELSE put_with_undo(
         WithInputs(WithOutputs(s, Accepted(s, t, addrs), h), Recognized(s, t), h),
         <<"tx", t>>, h, TRUE)

\* redo_block, with the coinbase as the first transaction.
redo_block(s, txs, height, median, addrs) ==
  unlock(FoldLeft(LAMBDA x, t : redo_transaction(x, t, height, addrs), s, txs),
         height, median)
--------------------------------------------------------------------------------
\* The chain as the handlers pass it on, with the wallet's records and age.
State(d, c, tail, recs, old, good) ==
  [db |-> d, chain |-> c, tail |-> tail, recs |-> recs, old |-> old, ok |-> good]
TipHeight(w) == w.tail + Len(w.chain) - 1
Tip(w) == Last(w.chain).b

push_chain(w, b, d, undo, good) ==
  [w EXCEPT !.db = d, !.chain = Append(@, [b |-> b, undo |-> undo]), !.ok = @ /\ good]
pop_chain(w) ==
  [w EXCEPT !.db = undo_db_state(@, Last(w.chain).undo), !.chain = Front(@)]
PopTo(w, n) ==
  FoldLeft(LAMBDA x, i : pop_chain(x), w, [i \in 1..(Len(w.chain) - n) |-> i])

reset_chain(w, height) == IF w.chain = <<>> THEN [w EXCEPT !.tail = height] ELSE w
fix_empty_chain(w) ==
  IF w.chain = <<>> THEN push_chain([w EXCEPT !.tail = 0], Genesis, w.db, <<>>, TRUE) ELSE w
--------------------------------------------------------------------------------
\* The memory state: transactions of the pool and of the queue that concern us.
NoMem == [txs |-> {}, unspents |-> <<>>, used |-> [k \in KeyImage |-> 0]]

CountInputs(used, t, d) == [k \in KeyImage |-> used[k] + (IF k \in Inputs[t] THEN d ELSE 0)]

MemAdd(m, d, t, addrs) ==
  IF t \in m.txs \/ ~our_transaction(Cache(d, <<>>), t, addrs) THEN m
  ELSE [txs |-> m.txs \cup {t},
        unspents |-> m.unspents \o Accepted(Cache(d, <<>>), t, addrs),
        used |-> CountInputs(m.used, t, 1)]

\* The first output with the key and the amount of o goes.
SameCoin(o, p) == Image[o] = Image[p] /\ Amount[o] = Amount[p]
RemoveCoin(us, o) ==
  LET I == {i \in DOMAIN us : SameCoin(us[i], o)}
  IN  IF I = {} THEN us ELSE RemoveAt(us, CHOOSE i \in I : \A j \in I : i <= j)

undo_transaction(m, t) ==
  IF t \notin m.txs THEN m
  ELSE [txs |-> m.txs \ {t},
        unspents |-> FoldLeft(RemoveCoin, m.unspents, Outputs[t]),
        used |-> CountInputs(m.used, t, -1)]

\* The memory side as the handlers pass it on.
Queue(m, p, q, f) == [mem |-> m, pool |-> p, pq |-> q, files |-> f]
in_blockchain(q, t) == q.pq[t] # 0
Queued(q) == DOMAIN q.pq

add_transaction_to_mempool(q, d, t, addrs) == [q EXCEPT !.mem = MemAdd(@, d, t, addrs)]

StillWanted(q, t) == t \in q.pool \/ (t \in Queued(q) /\ ~in_blockchain(q, t))
remove_transaction_from_mempool(q, t) ==
  IF StillWanted(q, t) THEN q ELSE [q EXCEPT !.mem = undo_transaction(@, t)]

DropHash(q, t) ==
  IF t \in q.pool
    THEN remove_transaction_from_mempool([q EXCEPT !.pool = @ \ {t}], t) ELSE q

\* What redo_block does to the memory side for a transaction of the block.
MemRedo(q, t) == [DropHash(q, t) EXCEPT !.mem = undo_transaction(@, t)]
--------------------------------------------------------------------------------
\* fix_payment_queue_after_undo_redo.
has_transaction(d, t) == <<"tx", t>> \in DOMAIN d
remove_height(d, t) == d[<<"tx", t>>] + Day

BackToQueue(q, w, t, addrs) ==
  add_transaction_to_mempool([q EXCEPT !.pq[t] = 0], w.db, t, addrs)
Confirmed(q, w, t) ==
  remove_transaction_from_mempool([q EXCEPT !.pq[t] = remove_height(w.db, t)], t)

Expire(q, S) ==
  [q EXCEPT !.pq = [t \in Queued(q) \ S |-> q.pq[t]], !.files = @ \ S]

ExpireOld_mut(q, height) == Expire(q, {t \in Queued(q) : in_blockchain(q, t)})
ExpireOld(q, height) ==
  Expire(q, {t \in Queued(q) : in_blockchain(q, t) /\ height >= q.pq[t]})

RemovedFromBc(q, w) == {t \in Queued(q) : in_blockchain(q, t) /\ ~has_transaction(w.db, t)}
AddedToBc(q, w) == {t \in Queued(q) : ~in_blockchain(q, t) /\ has_transaction(w.db, t)}

fix_payment_queue(q, w, addrs) ==
  ExpireOld(
    FoldLeft(LAMBDA x, t : Confirmed(x, w, t),
      FoldLeft(LAMBDA x, t : BackToQueue(x, w, t, addrs), q, SetToSeq(RemovedFromBc(q, w))),
      SetToSeq(AddedToBc(q, w))),
    TipHeight(w))

\* add_to_payment_queue, without the file.
Enqueue(q, d, t, addrs) ==
  IF t \in Queued(q) THEN q
  ELSE IF has_transaction(d, t)
    THEN [q EXCEPT !.pq = (t :> remove_height(d, t)) @@ @]
    ELSE add_transaction_to_mempool([q EXCEPT !.pq = (t :> 0) @@ @], d, t, addrs)
--------------------------------------------------------------------------------
\* The sparse chain of the wallet goes down to its tail and names genesis.
WalletSparse(w) ==
  LET n == Cardinality({m \in DOMAIN w.chain : Jump(m) < Len(w.chain)})
      path == [m \in 1..n |-> w.chain[Len(w.chain) - Jump(m)].b]
  IN  IF path[n] # Genesis THEN Append(path, Genesis) ELSE path

\* get_timestamp_lower_bound_block_index: the least (timestamp, height).
Before(b, c) == TS[b] < TS[c] \/ (TS[b] = TS[c] /\ Height[b] <= Height[c])
FirstNotOlder(n, ts) ==
  LET late == {b \in Range(Path[n]) : TS[b] >= ts}
  IN  IF late = {} THEN Height[n]
      ELSE Height[CHOOSE b \in late : \A c \in late : Before(b, c)]

\* Node::on_wallet_sync3 on the chain of tip n: from where the wallet's chain
\* parts, or from the first block not older than the wallet, if that is later.
From(n, ans, full) ==
  IF full >= ans.start + Len(ans.ids) THEN Answered(n, full)
  ELSE IF full > ans.start
    THEN [start |-> full, ids |-> SubSeq(ans.ids, full - ans.start + 1, Len(ans.ids))]
  ELSE ans

on_wallet_sync3(n, stored, w) ==
  From(n, get_sync_headers_chain(stored, n, WalletSparse(w)),
       FirstNotOlder(n, IF w.old < FutureLimit THEN 0 ELSE w.old - FutureLimit))
--------------------------------------------------------------------------------
\* sync_with_blockchain(SyncBlocks): how many blocks of the chain stay ...
Agrees(w, resp, i) ==
  /\ resp.start <= w.tail + i - 1
  /\ w.tail + i - 1 < resp.start + Len(resp.ids)
  /\ w.chain[i].b = resp.ids[w.tail + i - resp.start]
Highest(I) == IF I = {} THEN 0 ELSE CHOOSE i \in I : \A j \in I : j <= i
Kept(w, resp) == Highest({i \in DOMAIN w.chain : Agrees(w, resp, i)})

Popped(w, resp) == reset_chain(PopTo(w, Kept(w, resp)), resp.start)

\* ... and the blocks applied on top of them, those older than the wallet unread.
\* on_first_output_found: the first transaction in the cache makes the wallet as
\* young as its block.
on_first_output_found(w, ts) ==
  IF ts = 0 \/ w.old >= ts THEN w
  ELSE [w EXCEPT !.old = ts, !.recs = [a \in DOMAIN @ |-> IF @[a] < ts THEN ts ELSE @[a]]]

NoTransactions(d) == \A t \in Tx : <<"tx", t>> \notin DOMAIN d
IsOld(w, b) == TS[b] + FutureLimit < w.old

Applied(w, s, b) ==
  push_chain(IF NoTransactions(w.db) /\ ~NoTransactions(s.db)
               THEN on_first_output_found(w, TS[b]) ELSE w, b, s.db, s.undo, s.ok)
Redo(w, b) ==
  IF IsOld(w, b) THEN push_chain(w, b, w.db, <<>>, TRUE)
  ELSE Applied(w, redo_block(Cache(w.db, <<>>), BlockTxs[b], Height[b], Median[b],
                             DOMAIN w.recs), b)

MemRedoBlock(x, b) ==
  [w |-> Redo(x.w, b),
   q |-> IF IsOld(x.w, b) THEN x.q ELSE FoldLeft(MemRedo, x.q, Tail(BlockTxs[b]))]

NewBlocks(w, resp) == SubSeq(resp.ids, TipHeight(w) + 2 - resp.start, Len(resp.ids))

SyncedOn(w, q, resp) == FoldLeft(MemRedoBlock, [w |-> w, q |-> q], NewBlocks(w, resp))
sync_with_blockchain(w, q, resp) ==
  IF resp.ids = <<>> THEN [w |-> w, q |-> q] ELSE SyncedOn(Popped(w, resp), q, resp)

\* fix_payment_queue_after_undo_redo ends every handler that pops or pushes.
Fixed(x) == [x EXCEPT !.q = fix_payment_queue(@, x.w, DOMAIN x.w.recs)]

Now == State(db, chain, m_tail_height, m_wallet, oldest, ok)
NowQueue == Queue(mem, pool, pq, files)

BecomeQueue(q) == mem' = q.mem /\ pool' = q.pool /\ pq' = q.pq /\ files' = q.files
Become(x) ==
  /\ db' = x.w.db /\ chain' = x.w.chain /\ m_tail_height' = x.w.tail
  /\ m_wallet' = x.w.recs /\ oldest' = x.w.old /\ ok' = x.w.ok
  /\ BecomeQueue(x.q)
OnlyQueue == UNCHANGED <<db, chain, m_tail_height, registered, disk, m_wallet, oldest, ok>>

\* A node on tip n, which has these blocks, answers.
sync_blocks(n, stored) ==
  /\ Become(Fixed(sync_with_blockchain(Now, NowQueue, on_wallet_sync3(n, stored, Now))))
  /\ UNCHANGED <<registered, disk>>

\* sync_with_blockchain(SyncMemPool): the node's pool now is p.
AddHash(q, t, d, addrs) == add_transaction_to_mempool([q EXCEPT !.pool = @ \cup {t}], d, t, addrs)
sync_mem_pool(p) ==
  /\ BecomeQueue(
       FoldLeft(LAMBDA q, t : AddHash(q, t, db, DOMAIN m_wallet),
                FoldLeft(DropHash, NowQueue, SetToSeq(pool \ p)), SetToSeq(p \ pool)))
  /\ OnlyQueue

\* WalletNode::handle_send_transaction3: the file is saved before the queue changes.
add_to_payment_queue(t) ==
  /\ t \notin DOMAIN pq
  /\ BecomeQueue(Enqueue([NowQueue EXCEPT !.files = @ \cup {t}], db, t, DOMAIN m_wallet))
  /\ OnlyQueue

\* The node answers that an input of t is spent or gone, by a block Day or more
\* below our tip.
process_payment_queue_send_error(t, conflict_height) ==
  /\ t \in DOMAIN pq /\ pq[t] = 0
  /\ TipHeight(Now) > conflict_height + Day
  /\ BecomeQueue(remove_transaction_from_mempool(Expire(NowQueue, {t}), t))
  /\ OnlyQueue
--------------------------------------------------------------------------------
\* wallet_addresses_updated: back to before the oldest address that the cache
\* was not scanned for, and a commit.
Unscanned(recs, reg) == {a \in DOMAIN recs : a \notin DOMAIN reg \/ recs[a] < reg[a]}

PopYounger(w, ts) ==
  fix_empty_chain(PopTo(w, Highest({i \in DOMAIN w.chain : TS[w.chain[i].b] + FutureLimit < ts})))

Rescanned(w, reg) ==
  IF Unscanned(w.recs, reg) = {} THEN w
  ELSE PopYounger(w, Min({w.recs[a] : a \in Unscanned(w.recs, reg)}))

Registered(recs, reg) == [a \in Unscanned(recs, reg) |-> recs[a]] @@ reg

Snapshot(w, reg) == [db |-> w.db, chain |-> w.chain, tail |-> w.tail, registered |-> reg]

\* The cache and the queue after it.
Updated(w, q, reg) ==
  IF Unscanned(w.recs, reg) = {} THEN [w |-> w, q |-> q]
  ELSE Fixed([w |-> Rescanned(w, reg), q |-> q])

wallet_addresses_updated(w, reg) ==
  /\ registered' = Registered(w.recs, reg)
  /\ disk' = IF Unscanned(w.recs, reg) = {} THEN disk
             ELSE Snapshot(Rescanned(w, reg), Registered(w.recs, reg))

\* The process is killed, and the constructor opens what is on the disk: it scans
\* for new addresses, then loads the queue.
Reloaded(x, S) ==
  [x EXCEPT !.q = FoldLeft(LAMBDA q, t : Enqueue(q, x.w.db, t, DOMAIN x.w.recs), @, SetToSeq(S))]

Opened == State(disk.db, disk.chain, disk.tail, m_wallet, Min(Range(m_wallet)), ok)
Crash ==
  /\ wallet_addresses_updated(Opened, disk.registered)
  /\ Become(Reloaded(Updated(Opened, Queue(NoMem, {}, <<>>, files), disk.registered), files))

db_commit ==
  /\ disk' = Snapshot(Now, registered)
  /\ UNCHANGED <<db, chain, m_tail_height, registered, m_wallet, oldest, mem, pool, pq, files, ok>>

\* generate_new_addresses with the key of a.  A new key is only written to the
\* wallet file: what it received before is not looked for until the wallet is
\* opened again.  A key that is there and turns out to be older is.
ImportNew(a) ==
  /\ a \notin DOMAIN m_wallet
  /\ m_wallet' = (a :> Created[a]) @@ m_wallet
  /\ UNCHANGED <<db, chain, m_tail_height, registered, disk, oldest, mem, pool, pq, files, ok>>
Younger(a) == [Now EXCEPT !.recs[a] = Created[a], !.old = Min({@, Created[a]})]
ImportOlder(a) ==
  /\ a \in DOMAIN m_wallet /\ m_wallet[a] > Created[a]
  /\ wallet_addresses_updated(Younger(a), registered)
  /\ Become(Updated(Younger(a), NowQueue, registered))

Init ==
  /\ db = <<>> /\ m_tail_height = 0
  /\ chain = <<[b |-> Genesis, undo |-> <<>>]>>
  /\ m_wallet = [a \in InitialAddr |-> Claimed[a]]
  /\ registered = m_wallet
  /\ oldest = Min(Range(m_wallet))
  /\ disk = [db |-> db, chain |-> chain, tail |-> 0, registered |-> registered]
  /\ mem = NoMem /\ pool = {} /\ pq = <<>> /\ files = {} /\ ok = TRUE

Next ==
  \/ \E n \in Block : \E stored \in {Range(Path[n]), Block} : sync_blocks(n, stored)
  \/ \E p \in SUBSET Pooled : sync_mem_pool(p)
  \/ \E t \in Payment : add_to_payment_queue(t)
  \/ \E t \in Payment : \E h \in 0..TipHeight(Now) : process_payment_queue_send_error(t, h)
  \/ \E a \in Addr : ImportNew(a) \/ ImportOlder(a)
  \/ Crash
  \/ db_commit

Spec == Init /\ [][Next]_vars

\* The shape of the state: the chain is a part of one branch from m_tail_height
\* on, in memory and on the disk, and the wallet has records of what it scanned.
ChainOK(c, tail) == c # <<>> /\ \A i \in DOMAIN c : c[i].b = Path[Last(c).b][tail + i]
TypeOK ==
  /\ ChainOK(chain, m_tail_height) /\ ChainOK(disk.chain, disk.tail)
  /\ m_tail_height \in Nat /\ disk.tail \in Nat
  /\ DOMAIN registered \subseteq DOMAIN m_wallet /\ DOMAIN m_wallet \subseteq Addr
  /\ pool \subseteq Pooled /\ files = DOMAIN pq /\ files \subseteq Payment
  /\ \A a \in DOMAIN m_wallet : oldest <= m_wallet[a] \/ a \notin InitialAddr
--------------------------------------------------------------------------------
\* The cache after a scan of every block of a chain for these addresses.
Scanned(b, addrs) ==
  FoldLeft(LAMBDA d, c : redo_block(Cache(d, <<>>), BlockTxs[c], Height[c], Median[c], addrs).db,
           <<>>, Path[b])
FullScan == [b \in Block |-> [addrs \in SUBSET Addr |-> Scanned(b, addrs)]]

\* What a cache says of some addresses.
Concerns(d, k, addrs) ==
  CASE k[1] = "un" \/ k[1] = "ul" -> Owner[k[3]] \in addrs
    [] k[1] = "lk" -> Owner[k[2]] \in addrs
    [] k[1] = "ki" -> Owner[d[k].o] \in addrs
    [] k[1] = "ba" -> k[2] \in addrs
    [] k[1] = "tx" -> Ours(k[2], addrs) # <<>>
View(d, addrs) == [k \in {x \in DOMAIN d : Concerns(d, x, addrs)} |-> d[k]]

\* The addresses that the cache was scanned for from their creation on.
WellScanned == {a \in DOMAIN registered : registered[a] <= Created[a]}

\* In every state the cache holds, of the addresses it was scanned for, exactly
\* what a scan of the whole chain from genesis finds: skipped old blocks, undo
\* maps across forks, restarts and rescans leave no trace (pop_chain,
\* undo_db_state, sync_with_blockchain, wallet_addresses_updated).
CacheExact == View(db, WellScanned) = View(FullScan[Tip(Now)][WellScanned], WellScanned)

\* No database operation meets a key that it must not or must find: the code
\* answers a failed nooverwrite or mustexist with std::exit (put_with_undo,
\* del_with_undo).
NeverExits == ok

UnspentIn(d) == {k \in DOMAIN d : k[1] = "un"}
LockedIn(d) == {k \in DOMAIN d : k[1] = "lk"}
SumUnspent(S) == MapThenSumSet(LAMBDA k : Amount[k[3]], S)
SumLocked(S) == MapThenSumSet(LAMBDA k : Amount[k[2]], S)

\* The balances that modify_balance keeps by addition and subtraction are the
\* sums of the outputs in the unspent and lock indices, per address and in all.
BalanceIsSum ==
  \A a \in Addr \cup {All} :
    /\ Balance(db, a).spendable =
         SumUnspent({k \in UnspentIn(db) : a = All \/ Owner[k[3]] = a})
    /\ Balance(db, a).locked = SumLocked({k \in LockedIn(db) : a = All \/ Owner[k[2]] = a})

SpentBy(b) == UNION {Inputs[t] : t \in UNION {Range(BlockTxs[c]) : c \in Range(Path[b])}}

\* Outputs that share a key image can be spent only once: no two of them are
\* spendable together, and none is once the chain has spent one of them
\* (add_incoming_output, add_incoming_keyimage).
OneCoinPerKeyImage ==
  \A k \in UnspentIn(db) :
    /\ Owner[k[3]] \in WellScanned => Image[k[3]] \notin SpentBy(Tip(Now))
    /\ \A j \in UnspentIn(db) : Image[k[3]] = Image[j[3]] => j = k
--------------------------------------------------------------------------------
\* What the API tells, at a confirmed height c.
is_memory_spent(o) == mem.used[Image[o]] > 0
RecentlyUnlocked(c) == {k \in DOMAIN db : k[1] = "ul" /\ k[2] > c}
StoredHeight(o) == db[<<"ki", Image[o]>>].h
StillUnspent(o) == <<"ki", Image[o]>> \in DOMAIN db /\ <<"un", StoredHeight(o), o>> \in DOMAIN db

api_add_unspent(c) ==
  {k \in UnspentIn(db) : /\ k[2] <= c /\ ~is_memory_spent(k[3])
                         /\ \A u \in RecentlyUnlocked(c) : u[3] # k[3]}

\* Unlocked after c although confirmed before, and not spent since.
Withheld(c) ==
  {u \in RecentlyUnlocked(c) :
     StillUnspent(u[3]) /\ ~is_memory_spent(u[3]) /\ StoredHeight(u[3]) <= c}
Unconfirmed(c) == {k \in UnspentIn(db) : k[2] > c}

get_balance(c) ==
  [spendable |-> Balance(db, All).spendable - SumUnspent(Unconfirmed(c)) - SumUnspent(Withheld(c))
     - SumUnspent({k \in UnspentIn(db) : k[2] <= c /\ is_memory_spent(k[3])}),
   locked |-> Balance(db, All).locked + SumUnspent(Withheld(c))
     + SumUnspent({k \in Unconfirmed(c) : ~is_memory_spent(k[3])})
     + FoldLeft(LAMBDA n, o : n + Amount[o], 0, mem.unspents)]

\* The spendable balance is the sum of the outputs listed as spendable, at every
\* confirmed height and with any transactions in memory: get_balance subtracts
\* from a stored total what api_add_unspent leaves out one by one.
ApiAgrees ==
  \A c \in 0..TipHeight(Now) : get_balance(c).spendable = SumUnspent(api_add_unspent(c))

\* api_get_transfers over all addresses, forward, and the next_from_height of
\* handle_get_transfers3: whole blocks above from, until they hold the desired
\* count of transactions.
TxHeights == {db[k] : k \in {x \in DOMAIN db : x[1] = "tx"}}
CountIn(from, to) ==
  Cardinality({k \in DOMAIN db : k[1] = "tx" /\ db[k] > from /\ db[k] <= to})
Enough(from, to, count) ==
  {h \in TxHeights : h > from /\ h <= to /\ CountIn(from, h - 1) >= count}
Listed(from, to) == {h \in TxHeights : h > from /\ h <= to}
Page(from, cut) == [heights |-> Listed(from, cut - 1), next |-> cut - 1]
api_get_transfers(from, to, count) ==
  IF Enough(from, to, count) = {} THEN [heights |-> Listed(from, to), next |-> to]
  ELSE Page(from, Min(Enough(from, to, count)))

\* A client that asks again from next_from_height until it has reached the tip
\* gets every transaction once ("Can be used incrementally", "always returns full
\* blocks"): an answer holds every block up to where the next one starts, and the
\* next one starts higher.
TransfersComplete ==
  \A from \in 0..(TipHeight(Now) - 1), count \in 1..2 :
    LET page == api_get_transfers(from, TipHeight(Now), count)
    IN  page.next > from /\ page.heights = {h \in TxHeights : h > from /\ h <= page.next}
--------------------------------------------------------------------------------
Pending == pool \cup {t \in DOMAIN pq : pq[t] = 0}

\* The memory state is that of the transactions which the node's pool or the
\* queue holds: nothing of a transaction that left both stays, and every one that
\* pays to an address of the wallet is seen (undo_transaction, redo_block,
\* fix_payment_queue_after_undo_redo).
MemoryExact ==
  /\ mem.txs \subseteq Pending
  /\ \A t \in Pending : Ours(t, InitialAddr) # <<>> => t \in mem.txs
  /\ \A k \in KeyImage : mem.used[k] = Cardinality({t \in mem.txs : k \in Inputs[t]})
  /\ \A o \in Range(mem.unspents) : \E t \in mem.txs : o \in Range(Outputs[t])

\* Between handlers a payment counts as confirmed exactly when the cache has it,
\* also when its block was undone or the process restarted.  The height at which it
\* leaves the queue is set when it is confirmed and stays when a reorganization in one
\* handler only moves it to another height (fix_payment_queue_after_undo_redo).
BlocksWith(t) == {b \in Block : t \in Range(BlockTxs[b])}
QueueFollowsChain ==
  \A t \in DOMAIN pq :
    IF has_transaction(db, t) THEN pq[t] \in {Height[b] + Day : b \in BlocksWith(t)} ELSE pq[t] = 0

\* A payment leaves the queue, and its file the disk, only when the chain has it and
\* is Day blocks above a block that had it, or the node's refusal is as deep; a
\* restart finds it again.
PaymentKept ==
  [][\A t \in files : t \notin files' =>
       \/ /\ has_transaction(db', t)
          /\ \E b \in BlocksWith(t) : TipHeight(Now)' >= Height[b] + Day
       \/ ~has_transaction(db, t) /\ TipHeight(Now) > Day]_vars
================================================================================
