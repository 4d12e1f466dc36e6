------------------------------ MODULE BlockChain ------------------------------
(***************************************************************************)
(* The block tree and the chain selection of class BlockChain: add_block,  *)
(* reorganize_blocks with the walk of get_common_block, push_chain and     *)
(* pop_chain, the children counters and the tips index, db_commit, a crash *)
(* that loses everything since the last commit, and the constructor that   *)
(* reads the tip back.                                                     *)
(*                                                                         *)
(* The blocks the network can offer form a fixed tree; they arrive in any  *)
(* order, any number of times.  redo_block is virtual: what it does with a *)
(* block depends on the block and on the chain below it only, so there are *)
(* two unknown but fixed sets, the blocks that it does not apply (invalid) *)
(* and those of them on which it throws (fatal).  Every step of            *)
(* reorganize_blocks is an action, so that the process can be killed       *)
(* between any two of them.                                                *)
(* The operators that end in _mut are faulty variants of the definition    *)
(* that follows them; no specification uses them.                          *)
(***************************************************************************)
EXTENDS Integers, Sequences, FiniteSets

CONSTANTS
  Block,        \* the blocks (their hashes)
  Genesis,      \* m_genesis_bid
  NoBlock,      \* the zero hash
  Parent,       \* header.previous_block_hash
  Height,       \* BlockHeader.height
  CumDiff,      \* BlockHeader.cumulative_difficulty
  Window,       \* twice largest_window(): the bound on m_header_tip_window
  CommitEvery   \* COMMIT_EVERY_N_BLOCKS

\* check_standalone_consensus sets height = prev.height + 1 and rejects a
\* block of difficulty 0, so cumulative difficulty strictly increases.
ASSUME TreeAssumption ==
  /\ Genesis \in Block
  /\ NoBlock \notin Block
  /\ Parent \in [Block \ {Genesis} -> Block]
  /\ Height \in [Block -> Nat]
  /\ CumDiff \in [Block -> Nat \ {0}]
  /\ Height[Genesis] = 0
  /\ \A b \in Block \ {Genesis} :
       /\ Height[b] = Height[Parent[b]] + 1
       /\ CumDiff[b] > CumDiff[Parent[b]]

ASSUME BoundAssumption ==
  /\ Window \in Nat \ {0}
  /\ CommitEvery \in Nat \ {0}

VARIABLES
  db,           \* the open database transaction
  disk,         \* what the last commit_db_txn made durable
  m_tip_bid,
  m_tip_height,
  m_tip_cumulative_difficulty,
  m_header_tip_window,
  pc,           \* where the one thread of the node is
  reorg,        \* the locals of reorganize_blocks and get_common_block
  reply,        \* the last BroadcastAction of add_block
  entry,        \* history: m_tip_bid when the last add_block was entered
  invalid,      \* the blocks redo_block does not apply; never changes
  fatal         \* those of them on which it throws; never changes

mem == <<m_tip_bid, m_tip_height, m_tip_cumulative_difficulty,
         m_header_tip_window>>
fixed == <<invalid, fatal>>
vars == <<db, disk, mem, pc, reorg, reply, entry, fixed>>

-------------------------------------------------------------------------------
\* The database: BLOCK_PREFIX, HEADER_PREFIX, TIP_CHAIN_PREFIX (the block of
\* height h is chain[h + 1]), CHILDREN_PREFIX (1 when no key is stored) and
\* CD_TIPS_PREFIX.
DB == [blocks   : SUBSET Block,
       headers  : SUBSET Block,
       chain    : Seq(Block),
       children : [Block -> Int],
       tips     : SUBSET Block]

EmptyDB == [blocks |-> {}, headers |-> {}, chain |-> <<>>,
            children |-> [b \in Block |-> 1], tips |-> {}]

NoReorg == [recent |-> NoBlock, hid1 |-> NoBlock, hid2 |-> NoBlock,
            chain2 |-> <<>>]

LastOf(s) == s[Len(s)]
FrontOf(s) == SubSeq(s, 1, Len(s) - 1)

has_block(d, b) == b \in d.blocks
read_header(d, b) == b \in d.headers

store_block(d, b) == [d EXCEPT !.blocks = @ \cup {b}]
store_header(d, b) == [d EXCEPT !.headers = @ \cup {b}]

\* modify_children_counter: the key is deleted when the counter is 1 and the
\* block is in the tips index exactly when its counter is 0.
modify_children_counter(d, b, delta) ==
  LET counter == d.children[b] + delta
  IN  [d EXCEPT !.children = [@ EXCEPT ![b] = counter],
                !.tips = IF counter = 0 THEN @ \cup {b} ELSE @ \ {b}]

check_children_counter(d, b, value) ==
  /\ d.children[b] = value
  /\ (b \in d.tips) <=> (value = 0)

\* A variant that forgets the parent.
Counted_mut(d, b) ==
  store_header(IF has_block(d, b) THEN d ELSE store_block(d, b), b)

\* What add_block writes for a block whose parent's header is stored, before
\* it looks at the tip; Counted is the state check_children_counter sees.
Counted(d, b) ==
  LET s == store_header(IF has_block(d, b) THEN d ELSE store_block(d, b), b)
  IN  IF b = Genesis THEN s ELSE modify_children_counter(s, Parent[b], 1)

StoredBlock(d, b) == modify_children_counter(Counted(d, b), b, -1)

\* No `invariant' and no nooverwrite put of that prefix of add_block fails.
StoreOk(d, b) ==
  /\ ~read_header(d, b)
  /\ check_children_counter(Counted(d, b), b, 1)

-------------------------------------------------------------------------------
\* push_chain of b over the database d: the put must not find its key.
PushOk(d) == Len(d.chain) = m_tip_height + 1

\* A variant that drops the newest header instead of the oldest.
Trimmed_mut(w) == IF Len(w) > Window THEN SubSeq(w, 1, Window) ELSE w

Trimmed(w) == IF Len(w) > Window
              THEN SubSeq(w, Len(w) - Window + 1, Len(w)) ELSE w

push_chain(d, b) ==
  /\ db' = [d EXCEPT !.chain = Append(@, b)]
  /\ m_tip_bid' = b
  /\ m_tip_height' = m_tip_height + 1
  /\ m_tip_cumulative_difficulty' = CumDiff[b]
  /\ m_header_tip_window' = Trimmed(Append(m_header_tip_window, b))

\* pop_chain: the popped window is refilled with the new tip when it runs
\* empty, and get_tip insists that its last header is the new tip.
PoppedWindow(b) ==
  IF Len(m_header_tip_window) = 1 THEN <<b>> ELSE FrontOf(m_header_tip_window)

PopOk(b) ==
  /\ m_tip_height # 0
  /\ m_header_tip_window # <<>>
  /\ Len(db.chain) = m_tip_height + 1
  /\ db.chain[m_tip_height] = b
  /\ read_header(db, b)
  /\ LastOf(PoppedWindow(b)) = b

pop_chain(b) ==
  /\ db' = [db EXCEPT !.chain = FrontOf(@)]
  /\ m_tip_bid' = b
  /\ m_tip_height' = m_tip_height - 1
  /\ m_header_tip_window' = PoppedWindow(b)
  /\ m_tip_cumulative_difficulty' = CumDiff[LastOf(PoppedWindow(b))]

\* An exception inside add_block ends the process with NAZAD_DATABASE_ERROR: one
\* of this class ("exited"), or one of the virtual redo_block ("aborted").
Exit ==
  /\ pc' = "exited"
  /\ UNCHANGED <<db, disk, mem, reorg, reply, entry>>
Abort ==
  /\ pc' = "aborted"
  /\ UNCHANGED <<db, disk, mem, reorg, reply, entry>>

\* What redo_block does, and a variant that is not asked during a
\* reorganization.  DeltaState::store_keyimage throws for a block that passed
\* start_work_get_error and holds one key image twice.
redo_block_mut(b) == IF pc = "redo" \/ b \notin invalid THEN "applies" ELSE "refuses"

redo_block(b) ==
  IF b \notin invalid THEN "applies" ELSE IF b \in fatal THEN "throws" ELSE "refuses"

\* A variant that announces every change of the tip.
add_block_returns_mut(b) ==
  /\ pc' = "idle"
  /\ reorg' = NoReorg
  /\ disk' = IF m_tip_height' % CommitEvery = CommitEvery - 1 THEN db' ELSE disk
  /\ reply' = IF m_tip_bid' # entry THEN "BROADCAST_ALL" ELSE "NOTHING"

\* The tail of add_block: commit every CommitEvery blocks, then the reply.
add_block_returns(b) ==
  /\ pc' = "idle"
  /\ reorg' = NoReorg
  /\ disk' = IF m_tip_height' % CommitEvery = CommitEvery - 1 THEN db' ELSE disk
  /\ reply' = IF m_tip_bid' = b THEN "BROADCAST_ALL" ELSE "NOTHING"

\* The returns of add_block that skip that tail.
add_block_refuses(action) ==
  /\ reply' = action
  /\ UNCHANGED <<disk, mem, pc, reorg>>

-------------------------------------------------------------------------------
Init ==
  /\ db = EmptyDB
  /\ disk = EmptyDB
  /\ m_tip_bid = NoBlock
  /\ m_tip_height = -1
  /\ m_tip_cumulative_difficulty = 0
  /\ m_header_tip_window = <<>>
  /\ pc = "down"
  /\ reorg = NoReorg
  /\ reply = "NOTHING"
  /\ entry = NoBlock
  /\ invalid \in SUBSET (Block \ {Genesis})
  /\ fatal \in SUBSET invalid

\* The constructors on a database that has a chain: read_tip.
OpenExisting ==
  /\ pc = "down"
  /\ db.chain # <<>>
  /\ IF db.chain[1] = Genesis /\ read_header(db, LastOf(db.chain))
     THEN /\ m_tip_bid' = LastOf(db.chain)
          /\ m_tip_height' = Len(db.chain) - 1
          /\ m_tip_cumulative_difficulty' = CumDiff[LastOf(db.chain)]
          /\ m_header_tip_window' = <<LastOf(db.chain)>>
          /\ pc' = "idle"
          /\ entry' = LastOf(db.chain)
          /\ UNCHANGED <<db, disk, reorg, reply>>
     ELSE Exit
  /\ UNCHANGED fixed

\* The constructors on an empty database: add_block of the genesis block.
OpenEmpty ==
  /\ pc = "down"
  /\ db.chain = <<>>
  /\ IF StoreOk(db, Genesis) /\ PushOk(db) /\ redo_block(Genesis) = "applies"
     THEN /\ push_chain(StoredBlock(db, Genesis), Genesis)
          /\ add_block_returns(Genesis)
          /\ entry' = Genesis
     ELSE Exit
  /\ UNCHANGED fixed

\* add_block of a block that is already stored, or whose parent is unknown.
AddIgnored(b) ==
  /\ pc = "idle"
  /\ \/ read_header(db, b) /\ has_block(db, b)
     \/ b # Genesis /\ ~read_header(db, Parent[b])
  /\ add_block_refuses("NOTHING")
  /\ entry' = m_tip_bid
  /\ UNCHANGED <<db, fixed>>

\* add_block of a block that check_standalone_consensus refuses now (its
\* timestamp is compared with the clock, so it may be accepted later).
Offered(b) ==
  /\ pc = "idle"
  /\ ~(read_header(db, b) /\ has_block(db, b))
  /\ b # Genesis => read_header(db, Parent[b])

AddRefused(b) ==
  /\ Offered(b)
  /\ add_block_refuses("BAN")
  /\ entry' = m_tip_bid
  /\ UNCHANGED <<db, fixed>>

\* A variant that keeps the longest chain instead of the one of most work.
AddSide_mut(b) ==
  /\ Height[b] <= m_tip_height
  /\ db' = StoredBlock(db, b)
  /\ UNCHANGED mem
  /\ add_block_returns(b)
  /\ entry' = m_tip_bid

\* add_block of a block that passes the stand-alone checks.  It has no more
\* work than the tip: it is stored as a side block.
AddSide(b) ==
  /\ CumDiff[b] <= m_tip_cumulative_difficulty
  /\ db' = StoredBlock(db, b)
  /\ UNCHANGED mem
  /\ add_block_returns(b)
  /\ entry' = m_tip_bid

\* A variant that does not look whether the block extends the tip.
AddExtending_mut(b) ==
  /\ CumDiff[b] > m_tip_cumulative_difficulty
  /\ redo_block(b) = "applies"
  /\ PushOk(db)
  /\ push_chain(StoredBlock(db, b), b)
  /\ add_block_returns(b)
  /\ entry' = m_tip_bid

\* It has more work and extends the tip: redo_block, then push_chain.  A block
\* that redo_block rejects stays stored.
AddExtending(b) ==
  /\ CumDiff[b] > m_tip_cumulative_difficulty
  /\ Parent[b] = m_tip_bid
  /\ \/ /\ redo_block(b) = "refuses"
        /\ db' = StoredBlock(db, b)
        /\ add_block_refuses("BAN")
        /\ entry' = m_tip_bid
     \/ redo_block(b) = "throws" /\ Abort
     \/ /\ redo_block(b) = "applies"
        /\ IF PushOk(db)
           THEN /\ push_chain(StoredBlock(db, b), b)
                /\ add_block_returns(b)
                /\ entry' = m_tip_bid
           ELSE Exit

\* It has more work on another branch: reorganize_blocks is entered.
AddForking(b) ==
  /\ CumDiff[b] > m_tip_cumulative_difficulty
  /\ Parent[b] # m_tip_bid
  /\ db' = StoredBlock(db, b)
  /\ pc' = "common"
  /\ reorg' = [recent |-> b, hid1 |-> m_tip_bid, hid2 |-> b, chain2 |-> <<>>]
  /\ entry' = m_tip_bid
  /\ UNCHANGED <<disk, mem, reply>>

AddAccepted(b) ==
  /\ Offered(b)
  /\ IF StoreOk(db, b)
     THEN AddSide(b) \/ AddExtending(b) \/ AddForking(b)
     ELSE Exit
  /\ UNCHANGED fixed

-------------------------------------------------------------------------------
\* One turn of the three loops of get_common_block: the higher of the two
\* sides goes to its parent, both do when they are level.
Step1 == Height[reorg.hid1] >= Height[reorg.hid2]
Step2 == Height[reorg.hid2] >= Height[reorg.hid1]

\* A variant that collects the new branch from the wrong end, and one that does
\* not stop where the branches meet.
get_common_block_mut ==
  /\ pc = "common"
  /\ reorg.hid1 # reorg.hid2
  /\ reorg' = [reorg EXCEPT
       !.hid1 = IF Step1 THEN Parent[@] ELSE @,
       !.hid2 = IF Step2 THEN Parent[@] ELSE @,
       !.chain2 = IF Step2 THEN <<reorg.hid2>> \o @ ELSE @]
  /\ UNCHANGED <<db, disk, mem, pc, reply, entry, fixed>>

get_common_block_mut2 ==
  /\ pc = "common"
  /\ reorg.hid2 # Genesis
  /\ reorg' = [reorg EXCEPT
       !.hid1 = IF Step1 THEN Parent[@] ELSE @,
       !.hid2 = IF Step2 THEN Parent[@] ELSE @,
       !.chain2 = IF Step2 THEN Append(@, reorg.hid2) ELSE @]
  /\ UNCHANGED <<db, disk, mem, pc, reply, entry, fixed>>

get_common_block ==
  /\ pc = "common"
  /\ reorg.hid1 # reorg.hid2
  /\ LET hid1 == IF Step1 THEN Parent[reorg.hid1] ELSE reorg.hid1
         hid2 == IF Step2 THEN Parent[reorg.hid2] ELSE reorg.hid2
     IN  IF read_header(db, hid1) /\ read_header(db, hid2)
         THEN /\ reorg' = [reorg EXCEPT !.hid1 = hid1, !.hid2 = hid2,
                             !.chain2 = IF Step2 THEN Append(@, reorg.hid2)
                                                 ELSE @]
              /\ UNCHANGED <<db, disk, mem, pc, reply, entry>>
         ELSE Exit
  /\ UNCHANGED fixed

\* The walk has ended: give up when a block of the new branch is not stored.
CommonFound ==
  /\ pc = "common"
  /\ reorg.hid1 = reorg.hid2
  /\ UNCHANGED <<db, mem, entry, fixed>>
  /\ IF \A i \in 1..Len(reorg.chain2) : has_block(db, reorg.chain2[i])
     THEN pc' = "undo" /\ UNCHANGED <<disk, reorg, reply>>
     ELSE add_block_returns(reorg.recent)

\* A variant of the undo loop that goes by the height and one block too far.
Undo_mut ==
  /\ pc = "undo"
  /\ m_tip_height >= Height[reorg.hid1]
  /\ m_tip_bid # Genesis
  /\ pop_chain(Parent[m_tip_bid])
  /\ UNCHANGED <<disk, pc, reorg, reply, entry, fixed>>

\* One turn of the undo loop.
Undo ==
  /\ pc = "undo"
  /\ m_tip_bid # reorg.hid1
  /\ IF has_block(db, m_tip_bid) /\ PopOk(Parent[m_tip_bid])
     THEN /\ pop_chain(Parent[m_tip_bid])
          /\ UNCHANGED <<disk, pc, reorg, reply, entry>>
     ELSE Exit
  /\ UNCHANGED fixed

UndoDone ==
  /\ pc = "undo"
  /\ m_tip_bid = reorg.hid1
  /\ pc' = "redo"
  /\ UNCHANGED <<db, disk, mem, reorg, reply, entry, fixed>>

\* One turn of the redo loop: the blocks of chain2 from its back.  It stops at
\* the first block that redo_block rejects and leaves the tip below it.
Redo ==
  /\ pc = "redo"
  /\ reorg.chain2 # <<>>
  /\ LET b == LastOf(reorg.chain2)
     IN  IF b # reorg.recent /\ ~has_block(db, b)
         THEN UNCHANGED <<db, mem, entry>> /\ add_block_returns(reorg.recent)
         ELSE IF Parent[b] # m_tip_bid \/ ~read_header(db, b)
         THEN Exit
         ELSE IF redo_block(b) = "refuses"
         THEN UNCHANGED <<db, mem, entry>> /\ add_block_returns(reorg.recent)
         ELSE IF redo_block(b) = "throws"
         THEN Abort
         ELSE IF ~PushOk(db)
         THEN Exit
         ELSE /\ push_chain(db, b)
              /\ reorg' = [reorg EXCEPT !.chain2 = FrontOf(@)]
              /\ UNCHANGED <<disk, pc, reply, entry>>
  /\ UNCHANGED fixed

RedoDone ==
  /\ pc = "redo"
  /\ reorg.chain2 = <<>>
  /\ UNCHANGED <<db, mem, entry, fixed>>
  /\ add_block_returns(reorg.recent)

-------------------------------------------------------------------------------
\* The commit timer of Node: it fires between two handlers.
db_commit ==
  /\ pc = "idle"
  /\ disk' = db
  /\ UNCHANGED <<db, mem, pc, reorg, reply, entry, fixed>>

\* The process is killed, or started again after redo_block threw: the open
\* transaction and the memory are lost.
Crash ==
  /\ pc \notin {"down", "exited"}
  /\ db' = disk
  /\ m_tip_bid' = NoBlock
  /\ m_tip_height' = -1
  /\ m_tip_cumulative_difficulty' = 0
  /\ m_header_tip_window' = <<>>
  /\ pc' = "down"
  /\ reorg' = NoReorg
  /\ reply' = "NOTHING"
  /\ entry' = NoBlock
  /\ UNCHANGED <<disk, fixed>>

add_block(b) ==
  \/ AddIgnored(b)
  \/ AddRefused(b)
  \/ AddAccepted(b)

reorganize_blocks ==
  \/ get_common_block
  \/ CommonFound
  \/ Undo
  \/ UndoDone
  \/ Redo
  \/ RedoDone

Next ==
  \/ OpenExisting
  \/ OpenEmpty
  \/ \E b \in Block : add_block(b)
  \/ reorganize_blocks
  \/ db_commit
  \/ Crash

-------------------------------------------------------------------------------
Pcs == {"down", "idle", "common", "undo", "redo", "exited", "aborted"}

\* Every variable has the type its declaration in BlockChain.hpp gives it.
TypeOK ==
  /\ db \in DB
  /\ disk \in DB
  /\ m_tip_bid \in Block \cup {NoBlock}
  /\ m_tip_height \in Nat \cup {-1}
  /\ m_tip_cumulative_difficulty \in Nat
  /\ m_header_tip_window \in Seq(Block)
  /\ pc \in Pcs
  /\ reorg \in [recent : Block \cup {NoBlock}, hid1 : Block \cup {NoBlock},
                hid2 : Block \cup {NoBlock}, chain2 : Seq(Block)]
  /\ reply \in {"NOTHING", "BAN", "BROADCAST_ALL"}
  /\ entry \in Block \cup {NoBlock}
  /\ invalid \subseteq Block \ {Genesis}
  /\ fatal \subseteq invalid

\* No `invariant' of the class and no put or del of a key that must be absent or
\* present ever fails, also after a restart from what an exception of redo_block
\* left on disk: only redo_block itself can end the process with
\* NAZAD_DATABASE_ERROR, and the tip is then the parent of a block with two
\* transactions that share a key image.
OnlyLedgerThrows ==
  /\ pc # "exited"
  /\ pc = "aborted" => \E b \in fatal : Parent[b] = m_tip_bid

\* c is a path of the block tree that starts at the genesis block, and every
\* block of it is stored with its header.
Linked(c) ==
  /\ c # <<>> => c[1] = Genesis
  /\ \A i \in 2..Len(c) : c[i] # Genesis /\ Parent[c[i]] = c[i-1]

ChainStored(d) ==
  /\ Linked(d.chain)
  /\ \A i \in 1..Len(d.chain) : d.chain[i] \in d.blocks \cap d.headers

\* The best chain in the database, at every step of a reorganization and on
\* disk at every moment, is a linked path of stored blocks from genesis.
ChainLinked == ChainStored(db) /\ ChainStored(disk)

TipOK ==
  LET n == Len(db.chain)
      w == Len(m_header_tip_window)
  IN  /\ n > 0
      /\ m_tip_height = n - 1
      /\ m_tip_bid = db.chain[n]
      /\ m_tip_cumulative_difficulty = CumDiff[db.chain[n]]
      /\ w \in 1..n
      /\ w <= Window
      /\ \A i \in 1..w : m_header_tip_window[i] = db.chain[n - w + i]

\* The tip the node keeps in memory and its window of recent headers always
\* describe the end of the chain in the database, also between the steps of a
\* reorganization deeper than the window and after a restart.
TipMatchesChain == pc \notin {"down", "exited"} => TipOK

\* The children counters count the stored children of every stored block and
\* the tips index holds exactly the stored blocks without one: the
\* bookkeeping prune_branch relies on.
Children(d, b) == {c \in d.headers \ {Genesis} : Parent[c] = b}

ChildrenCounted(d) ==
  /\ \A b \in d.headers : d.children[b] = Cardinality(Children(d, b))
  /\ \A b \in Block \ d.headers : d.children[b] = 1
  /\ d.tips = {b \in d.headers : Children(d, b) = {}}

ChildrenIndex == ChildrenCounted(db) /\ ChildrenCounted(disk)

\* A block that redo_block rejects never becomes part of the best chain, in
\* the database or on disk, whatever reorganizations pass over it.
ChainValid ==
  \A i \in 1..Len(db.chain) : db.chain[i] \notin invalid

\* As long as no stored block is invalid, the node that is not inside a
\* handler is on a stored branch of the most work.  (Once a block was
\* rejected this is false: a reorganization that fails is not rolled back.)
HeaviestTip ==
  pc = "idle" /\ db.headers \cap invalid = {} =>
    \A b \in db.headers : CumDiff[b] <= m_tip_cumulative_difficulty

\* What add_block tells its caller: BROADCAST_ALL means the tip has more work
\* than before; otherwise the tip is the old one, unless a reorganization
\* stopped right below a block that redo_block rejected.
ReplyTellsTip ==
  pc = "idle" /\ entry # m_tip_bid =>
    \/ reply = "BROADCAST_ALL"
       /\ CumDiff[entry] < m_tip_cumulative_difficulty
    \/ reply = "NOTHING"
       /\ \E b \in db.headers \cap invalid : Parent[b] = m_tip_bid

\* A reorganization never undoes a block that it will redo: get_common_block
\* finds the highest common block.
MinimalReorg ==
  pc = "undo" =>
    \A i \in 1..Len(reorg.chain2), j \in 1..Len(db.chain) :
      reorg.chain2[i] # db.chain[j]

\* A reorganization ends: the three loops of get_common_block, the undo loop
\* and the redo loop all terminate, unless the process is killed.
ReorgEnds == pc = "common" ~> pc \notin {"common", "undo", "redo"}

-------------------------------------------------------------------------------
Spec == Init /\ [][Next]_vars

================================================================================
