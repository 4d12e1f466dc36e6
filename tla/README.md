# A verification project for naza

naza is a CryptoNote node (`nazad`) and a wallet server. This directory models
the parts of it whose correctness depends on the order in which things happen
(the choice of the best chain, the ledger, the memory pool, the thread pools,
the downloader, the peer lists and connections, the wallet and the loop in which
it follows a node, sockets, timers and the HTTP server and client), and the
parts that only compute but have many boundaries (codecs, amounts, hashes, curve
arithmetic, signatures). The models are TLA+ modules translated from the C++
source under `src/src`. TLC checks small instances of them; TLAPS proves the
central properties of chain selection, of the memory pool and the mining
templates, of both thread pools, of the peer lists and the connection loop and of
the circular buffer for every value of their constants.

## The system

| Component | State | Operations | Interacts with |
|---|---|---|---|
| Block chain (`Core/BlockChain.cpp`) | block and header tables, the best chain by height, children counters and the index of branch tips, all in one database transaction; tip, cumulative difficulty and a window of recent headers in memory | `add_block`, `reorganize_blocks`, `push_chain`, `pop_chain`, `db_commit`, opening, queries | calls the virtual `check_standalone_consensus`, `redo_block`, `undo_block`, `on_reorganization` of the ledger |
| Ledger (`Core/BlockChainState.cpp`) | key images, outputs per amount with spent flags, global indices of each block, median cache | `redo_block`, `undo_block`, the `DeltaState` overlay | asks the ring checker, removes from the pool |
| Consensus rules (`Core/BlockChainState.cpp`, `Currency.cpp`, `Difficulty.cpp`) | medians of the tip | `check_standalone_consensus`, difficulty, reward, penalty, mining templates | called by the chain and by miners |
| Memory pool (`Core/BlockChainState.cpp`) | transactions, by key image, by fee per byte, total size, version | `add_transaction`, `remove_from_pool`, `on_reorganization` | is emptied by blocks, read by mining templates and the API |
| Ring checker and wallet preparation (`RingCheckerMulticore.cpp`, `WalletPrepMulticore.cpp`) | queues, counters and results under one mutex each, two condition variables each | start, cancel, wait for results, thread loops, destructors | called by `redo_block` and by the wallet |
| Downloader (`Core/NodeDownloader.cpp`) | the chain to download, the blocks under way per peer, prepared blocks, preparation threads | `advance_chain`, `advance_download`, `on_idle`, `on_disconnect`, message handlers | peers; `add_block` |
| Node (`Core/Node.cpp`, `NodeLegacyAPI.cpp`) | connected clients, long-poll queue, commit timer | relay of blocks and transactions, API | everything above |
| P2P (`p2p/`) | connections, the peer data base with white and gray lists and bans | connection loop, handshake, time-outs, peer exchange, framing | node |
| Wallet (`Core/WalletState*.cpp`, `WalletSync.cpp`, `Wallet.cpp`) | own outputs by height and by lock, the wallet's copy of the chain with an undo map for each block, pool view, payment queue and its files | follow the node's chain, build and send transactions | node over HTTP |
| Network and HTTP (`platform/Network.cpp`, `http/`) | sockets with outstanding operations, buffers, timers; connections with a request in progress | reads, writes, accepts, completions; requests, retries, long poll | the event loop, everything above |
| Codecs and cryptography (`common/`, `crypto/`, `platform/DB*.cpp`) | buffers, JSON values, cursors, hash states | numbers, texts, hashes, signatures | everything |

What is hard here: blocks arrive in any order on several branches; a
reorganization is a long sequence of database writes that may fail half way and
is never rolled back; the process may be killed while only an old state is
durable; transactions conflict through several key images, and the pool is
rebuilt under a new chain; worker threads report on work that was given up in the
meantime; a disconnect runs inside the handler that caused it; completions of
closed sockets arrive later; peers and the wallet work from answers that may be
out of date, lost or repeated. The hazards, each at its line and with the
properties about it, are in `PROJECT.json`.

## How the project is laid out

A component has a module with its state, one action for each handler, critical
section or loop turn, and its properties. Modules that only TLC uses are the
`MC*` modules: each gives the constants their values and states the properties
that its runs check. Most of them hold several components that need the same
kind of instance. Where these interact through shared state, they are composed
(`P2P` on `PeerDB`, `Downloader`, `ChainSync` and `WalletState` on `Locator`, `Consensus` on `Amounts`, `HttpServer` and `P2PClient` on
`ByteQueue`). Where they do not, a variable `part` (`setting` in `Consensus`) says
which of them a behaviour is about, and the others stay as they are: such a run
checks each part by itself against everything its neighbours may do to it. A
property of such a run is a conjunction of the named properties of the component
modules, each documented there. Fairness conditions of different parts share one
formula, because only one part moves.

A definition is sometimes preceded by a faulty variant of it (`..._mut`, or a
name that says what is wrong). No specification refers to these; they are what
the properties are shown to notice, one for each property.

## Modules

### Chain, ledger, pool

`BlockChain.tla` models class `BlockChain`. `db` is the open database
transaction, `disk` the last committed one; `m_tip_bid`, `m_tip_height`,
`m_tip_cumulative_difficulty` and `m_header_tip_window` are the members of that
name. The locals of `reorganize_blocks` and of `get_common_block` are the record
`reorg`, and each turn of their loops is one action (`get_common_block`, `Undo`,
`Redo`), so a crash can fall between any two. `AddIgnored`, `AddRefused`,
`AddSide`, `AddExtending` and `AddForking` are the ways through `add_block`. A
failed `invariant`, or a put or del that finds the wrong state, is `Exit`, the
`std::exit` of its catch block. The blocks the network can offer form a constant
tree. `check_standalone_consensus` may refuse any block at any time (it reads
the clock); `redo_block` refuses the blocks of a fixed but unknown set (`invalid`) and
throws on a fixed part of them (`fatal`), which ends the process (`Abort`): a block
that passed `start_work_get_error` and has one key image in two transactions trips
the assertion of `DeltaState::store_keyimage`. The cumulative difficulty of a block is fixed; `HeadersSound` says when the code
grants that.

`Ledger.tla` models the tables that `redo_block` and `undo_block` change: key
images, the stack of outputs of every amount with their spent flags, the global
indices of each block, the transaction and timestamp indices, and the cache
`m_next_gi_for_amount`. The `DeltaState` that collects a block is a record that
goes through its transactions one by one and is then applied. The chain moves along any path
of a constant tree of blocks (redo a child of the tip, undo the tip, commit,
restart), which includes every reorganization of `BlockChain.tla`. An input
carries the output keys it was signed for, so it is good only on branches where
its global indices hold those keys. An output may be locked to a height or to a
moment (`Unlocked`); for the latter the pool asks with the timestamp of the tip and
`redo_block` with that of the block, so their verdicts may differ, but only where
`ClocksDiffer`. `Answer` is what `redo_block` does: it applies the block, refuses it,
or throws (`SharesKeyimage`), upon which the process is started again from its disk.
`VerdictFixed` is what entitles `BlockChain.tla` to treat these as fixed sets. Four
assumptions say what blocks are. `BlockAssumption`: a tree with heights.
`TransactionAssumption`: transactions have the form that `validate_semantic` leaves
them; that two transactions of a block have no key image in common is not assumed.
`HashAssumption`: a hash is that of one transaction, a base transaction holds its
height, and a key image is a function of the output key. `CheckpointAssumption`:
the blocks below the last checkpoint, whose inputs are not checked, are good.

`Consensus.tla` models `check_standalone_consensus` over a growing tree of
headers: versions, sizes, both timestamp limits, medians, both difficulty
algorithms with their windows, reward and penalty, and the mining template with
the loop that fits the coinbase to its own reward (`FitCoinbase`). Faults of form
are a set of defects, and `redo_block` may refuse a block that passed the checks.
A miner may ask for bytes in the extra field of the coinbase (`reserves`, up to 255 in
the code); they are not counted in the 600 bytes set aside for it, so a full template
with many of them can be larger than the limit, and its block is refused (`Outgrown`,
the exception of `WorkPaid`).
One template is outstanding at a time; applying and undoing blocks is left to the
modules above. Windows, limits and the word are small.

`TxPool.tla` models the memory pool inside class `BlockChainState`: its four
members are the record `pool`, and `add_transaction` is an operator from a pool
to a pool, an answer and whether the `invariant`s on the way hold. Of the chain
it keeps the transactions of each block. Hashes are numbers because the code
orders transactions by them.

`Mining.tla` models `m_mining_transactions`, `add_mined_block` and
`on_submitblock`. What is in the pool is free, and the tip moves to the same or
the next height. `insert` keeps the old height of a transaction that was in an
earlier template, so a template's transactions can be forgotten after fewer than
the "3 blocks" of the comment (`BlockChainState.cpp:596`); `TemplatesComplete` is
what still holds. A block whose transactions are gone is nevertheless sent to the
peers with those it has, and answered OK (`sent = "in part"`).

`RingChecker.tla` and `WalletPrep.tla` model the two thread pools. An action is
one critical section under `mu`; a wait on a condition variable ends by a
notification or spuriously.

### Download

`Locator.tla` has the two algorithms by which nodes find where their chains part
as operators: `get_sparse_chain` (the tip, ten blocks below it, then jumps that
double, and genesis) and `get_sync_headers_chain` (the best chain from the first
listed block that is stored, followed down to the best chain). `ChainSync.tla`
repeats that exchange between two nodes, while the other node may move to a
better branch between any two steps.

`Downloader.tla` models class `Node::DownloaderV11` and the handlers of `Node`
that call it. The members that only the main thread touches, the best chain and
the unanswered requests of each connection are the record `dl`, and every
handler is an operator from `dl` to `dl`. This makes the calls inside calls
explicit: a disconnect runs `on_disconnect` (`Disconnected`) and the
`advance_download` in it (`Pass`) before the handler that asked for it goes on.
The recursive disconnects of `advance_chain` are the recursion in `Dropped`. `thread`
and `prepared` belong to the preparation threads; `peer` is what the other nodes
have. A request is answered in order by the code of `Locator.tla` and
`on_msg_notify_request_objects`, or never. Left open: which client of those with
a block is asked (`Choice` stands for `m_who_downloaded_block`, speeds and
`crypto::rand`) and when a request is too old (`Late`). Left out: malformed or
invalid blocks, the delays noted in the peer data base, and the exchange of pool
transactions.

### Peers

`PeerDB.tla` models the lists of peers in memory (`white`, `gray`, exclusive
nodes) and in the data base (`dbw`, `dbg`), with every operation, trimming, bans,
delays and restarts. Entries that the indices order alike are taken in any order.
`set_peer_banned` has no caller in the code; it is modelled because the class
offers it. A seed that was trimmed and comes back can be in two lists, which
`OneList` excepts. `PeerAssumption` says that both periods of reconnection are no
longer than a ban (30 and 300 seconds against 600 in the code): otherwise an
entry that is unbanned could be due before the time that `NotTooOften` grants.

`P2P.tla` adds the connections: the connection loop (`connect_all_nodelay`, in
steps between which no handler runs), accepts, handshakes, pings, first messages
and disconnects from inside handlers. The number of failures after which the loop
waits is a constant (5 in the code). Two things the code does that a reader may
not expect, seen in the model and left as they are: `on_client_disconnected`
drops its `ban_reason`, so that a node that met itself keeps its own address; and
`set_peer_just_seen` lists an incoming peer that announced port 0.

`P2PClient.tla` is the framing of one connection in counts of bytes: headers and
bodies cut anywhere, the buffer of the socket, the queue of answers and the stop
of reading while it is not empty.

### Wallet

`WalletState.tla` has the tables of `WalletStateBasic` (outputs, locks, spent
outputs, balances, history, undo maps) as one function from keys to values, and
what the code does to them as operators; on top of it are the memory state, the
payment queue with its files, imported addresses, commits and
kills. Left out: view-only wallets, the split of balances into dust and the rest,
the per-address history index, send proofs and the check of the genesis block.
`WalletAssumption` says of the clocks of blocks what
`get_timestamp_lower_bound_block_index` relies on. `WalletExact` speaks of
addresses scanned from their creation on: `on_first_output_found` raises the
creation time of every key, also of one imported since (`Wallet.cpp:414`), and a
wallet opened after that is outside it. On the locked side the API and the
balance disagree about an output that replaced a smaller one with the same key
image (`WalletStateBasic.cpp:487`); `ApiAgrees` is about the spendable side. The
height at which a confirmed payment leaves the queue is set once: when one handler
undoes its block and redoes another that has it, the old height stays
(`WalletState.cpp:231`), so `PaymentKept` counts from a block that had the payment.

`WalletSync.tla` models the loop in which the wallet follows a node: requests,
reconnects and time-outs of the agent, the node's handlers, its long poll and its
restarts. A failed payment is tried again only after the next block. The node's pool
displaces `Rivals` (transactions that share a key image). Three changes are not told
to the wallet by the code, and the properties except exactly these: a displacement that ends in a refusal
removes transactions without a new version, until the next transaction enters
(`untold = "removal"`); a tip that comes back, by a kill or a reorganization that
failed, has the versions it had before (`untold = "repeat"`, with the history `had`);
and `on_msg_notify_new_block` does not advance the long poll after a failed
reorganization, so that a parked request waits for the next change (`"missed"`).
Peer counts in a status are left out, but not the calls of `advance_long_poll` that
they cause (`PeersChange`).

### Network

`CircularBuffer.tla` models the buffer of sockets with its two positions and its
copy loops (one action for each turn); `Fifo.tla` is the queue of bytes it
promises to be, which `StringStream.tla` implements as well. `TCPSocket.tla`
models the boost::asio socket: an `Impl` with its flags and buffers, the
operations the kernel holds (`Complete`) and their completions in the event loop
(`Handle`), `close`, which detaches an `Impl` whose operations are outstanding
and makes a new one, and the SSL handshake. `TCPAcceptor.tla` and `Timer.tla` are
the other two classes of `Network.cpp`. `ByteQueue.tla` has what the two ends of
a connection do with buffers in counts of bytes; `HttpServer.tla` is one
connection of the server with its program counter, the long poll included, and
`HttpAgent.tla` the client at the level of messages, with time-outs counted in
retries. Sockets are plain or SSL. `start_handshake` binds the handler of a handshake
to the bare object (`Network.cpp:642`), where all other operations keep theirs alive,
and on an accepted connection it is not a pending operation either. So a `close`
during a handshake, of a client or of an accepted socket, leaves a completion that
runs on memory that is free or used again, with any effect (`handle_stale`), against
"after close you are guaranteed that no handlers will be called" (`Network.hpp:213`).
The history `torn` records that this has happened to a socket; its properties hold as
long as it has not. `shutdown_both` with a full incoming buffer starts no
read, so that nobody notices the end (`Network.cpp:736`); `ShutdownHeard` has the
condition that a read is pending.

### Codecs and cryptography

| Module | What it models | Simplifications |
|---|---|---|
| `Amounts` | long arithmetic of `int-util.h`, the test of a proof of work, fees and `validate_semantic`, penalty, split into digits, printing and parsing | words of 6400 values, base 2 |
| `HttpText` | the parsers and printers of heads, character by character | a word is one character; 15 is the length that means none |
| `JsonText` | `JsonValue` from and to text | small alphabets with control characters, `\u` codes of one to three bytes, no raw bytes from 128 on, small integer range |
| `JsonUnion` | construction, copy, move, assignment and destruction of `JsonValue` with failing allocation | two values with abstract contents |
| `KeyValue` | cursors, prefixes and erasing of both data base wrappers; both readers and writers of variable length integers, in streams and in keys, whose bytes sort like the values | keys without values; the storage engine is external; in streams groups of 2 bits and values of 5, in keys values below 2^31 |
| `BlockHash` | buffering, counters and padding of skein, blake256, groestl, jh and keccak | an ideal compression function, blocks of 4 bytes; no partial bytes |
| `CurveOps` | formulas, encodings, recodings, window methods, subgroup test and hash-to-point of `crypto-ops.c` | field elements are numbers of a field of 37 elements; the unrolled exponent chains are checked with the real exponents modulo 18 primes |
| `Crypto` | key derivation, signatures, ring signatures, send proofs | a group of 8 * 10007 points, mixing hashes |

Where the code does not do what its reference says, the property names the case
and says that it is one exactly. A JSON text means what the grammar of JSON and the
encoding UTF-8 say, but a number without exponent at the very end of a text is
refused, and a `\u` code past ASCII becomes its bytes of UTF-8 from the last to the
first (`JsonValue.cpp:795-806`), which is another string (`ParsesMeaning`). A printed
amount has no zeros before the digits behind its cents, so it is read back as itself
exactly if none are needed. `blake256_update` loses or misplaces buffered bytes when a
piece of a block or more that does not fill the block follows a partial one, and when
the piece is empty (`NotJoined`, `blake256.c:131`); every caller here gives it whole
messages. Keccak takes nothing else.

## Runs

| Run | Module | What it shows |
|---|---|---|
| `chain` | `MCBlockChain` | chain, tip, window and index stay consistent through reorganizations, rejected blocks, commits and kills; only an exception of `redo_block` ends the process; results and wake-ups of both thread pools are never mixed up or lost, and waiting calls and joins end |
| `ledger` | `MCLedger` | redo and undo are inverse on every path of a tree of blocks, also when `redo_block` throws, and verdicts do not depend on history; the pool is sound; templates stay complete |
| `consensus` | `MCConsensus` | headers depend on their chain alone, chains can go on, templates are accepted unless reserved bytes outgrow the limit, and every coin is accounted for |
| `downloader` | `MCSync` (`Downloader.cfg`) | counters, pointers, windows and order of the downloader, with clients that come and go inside handlers |
| `sync` | `MCSync` | answers connect, every block leaves the window even if nobody answers, as long as `advance_download` keeps being run, and the node catches up if clients answer |
| `wallet` | `MCWallet` | the wallet holds what chain, pool and queue say, payments are kept, and its loop follows the node |
| `p2p` | `MCP2P` | the peer lists, stored and in memory, a connection loop that never gives up, and cursors of the data base that show every key once |
| `net` | `MCNet` | buffers are queues, completions belong to their connection, messages are handled whole, in order and once, and whoever waits is told |
| `codecs` | `MCCodecs` | the computing parts agree with reference definitions |
| `pool_refusal` | `MCLedger` | finding: a refused transaction can remove others from the pool |
| `accept_fails` | `MCNet` | finding: after a failed accept no connection is accepted again |
| `penalty` | `MCConsensus` | finding: a block may be larger than twice the median, which an assertion excludes |

### Bounds

`chain`: a branch of three light blocks, a fork from genesis whose second block
outweighs it, and a fork from the middle. Undoing three blocks with a window of
two empties the window, the new branch can be rejected at its first or second
block, and a branch can be tried again later; `CommitEvery` is 3, so both
commits (by height and by timer) happen. When there is a block on which `redo_block`
throws, at most `MaxWithFatal` (2) blocks are not applied. Three workers and three blocks let a
result of the first block arrive during the second or third; three answers do
the same for the wallet's two workers.

`ledger`: in a tree of twelve blocks two branches put different outputs at the same
global indices, with a transaction that is good on one of them only, outputs locked to
heights and to moments that lie on either side of the clocks of a block and of its
parent, a block with one key image in two transactions, and a block
that spends an output of the block before. With `CheckpointHeight` 2 the blocks of
heights 0 and 1 are not checked; they hold base transactions only, so that
`CheckpointAssumption` is met. In the pool transactions 4 and 5
conflict with two others each, one of them in the opposite order of its key
images; there are two ties of fees, and any two large transactions overfill it.
`MaxChain` and `MaxVersion` bound the length of behaviours only. Heights of
`Mining` pass the number of blocks remembered.

`consensus`: in the setting "times" both forks fall inside the chain, with
timestamps as early and as late as the rules allow; in "sizes" transactions lie
around the median and the penalty; in "reserving" miners ask for one reserved byte
or for more than they may; in "refusing" blocks have defects, or pass the
checks and are refused when they are applied, and a template meets a transaction
that cannot be applied again.

`downloader`, `sync`: the clients are on two branches, one of them lagging; the
chain of four blocks is longer than the window of three with two requests (in
`sync` three blocks, a window of two and one request). The exchange by itself has chains of up to fifteen blocks
with `Dense` 2 instead of 10, so that the jumps reach 8 and pass over genesis.
`MaxIds` is 7, less than the longest chain, but not less than the blocks sent
twice plus a branch heavier than the one to be left: the sparse chain lists the
best chain only, so with shorter answers the same blocks would be sent for ever
(the code's limit is 10000 ids).

`wallet`: two branches of three blocks, outputs locked to a height and to a time,
two outputs with one key image, an imported key, a payment at different heights of
the two branches; for the loop a fork, three transactions of which the middle one
conflicts with both others and one is in both branches, a node that begins with two of
them in its pool, and one fault (a lost connection, a refusal, a restart, or a
reorganization that fails).

`p2p`: a seed, a peer with a hidden port and the node's own address; lists of one
entry, times past the longest period; six keys over two bytes, one of them the
greatest, before, behind and under each of the starts, and a size of padding longer
than every key by one. `net`: buffers of 2 or 3 bytes, messages
longer than all buffers together, empty ones and bad ones; a socket has two
objects, one in use and one with completions queued. `codecs`: inputs around
every boundary of each definition; `MCCodecs.tla` lists them.

Symmetry (clients, threads, connections) is used only in runs that check
invariants. Deadlock is not checked where the bounds or the computation end a
behaviour; the cfg files say why.

### Fairness

`ReorgEnds` assumes that the node's thread goes on with the handler it is in;
nothing is assumed of the network, the commit timer or crashes. `ThreadsReturn`
assumes that the operating system runs every thread that is not waiting; a waiter
is never assumed to wake without a notification. `WaitersAreTold` assumes that
the kernel completes operations that it can complete, that the event loop runs
completions, that timers expire, and (strongly, for the acceptor) that a peer
whose turn keeps coming is accepted; peers need send nothing.
`WalletFollows` assumes that timers fire, answers are delivered, a running node
handles requests, and a stopped node is started again; faults are bounded in
number.

`CellsLeave` and `CatchesUp` assume that the event loop calls `on_idle`, threads
run and timers go off. Nothing is assumed of what clients send or of connections
being closed. The time-out of a block at the front of the window is tested by
`on_download_timer` if it is protected, and by `advance_download` otherwise, which no
timer runs: the timer of the timed sync is set again by every message that is sent
(`P2PClientBasic.cpp:85`), that of a connection without messages by every message
received (`:225`), so a client that only sends transactions can keep both from
firing. `CellsLeave` therefore has a condition, `KeepsBeingRun`: while the front waits
unprotected, something runs `advance_download` again and again, be it another client,
a relayed block, or an answer. Without it the property is violated. `CatchesUp` needs
no such condition, because in it clients answer. These conditions are written with
their guards and a variable `tick` that changes in every step, because `ENABLED` of
these handlers is too costly to evaluate.

## Findings

- `pool_refusal`: the loop of `add_transaction` that removes conflicting
  transactions can return `INCREASE_FEE` after it removed some, because the
  earlier loop stops at the first conflict and goes by the order of the inputs,
  while this one goes by the order of the key images. The comment at that return
  says "Never because checked above".
- `accept_fails`: `handle_accept` with an error neither tells the owner nor
  starts another accept; the header promises that the handler will fire.
- `penalty`: the limit on block sizes grows with the height past twice the
  median, where `get_penalized_amount` asserts otherwise and its subtraction
  wraps around.

## Proofs

`BlockChainProofs.tla` proves, for every block tree that satisfies
`TreeAssumption` and every `Window` and `CommitEvery`, that `TypeOK`,
`OnlyLedgerThrows`, `ChainLinked`, `TipMatchesChain`, `ChainValid`, `HeaviestTip`,
`ReplyTellsTip` and `MinimalReorg` are invariants of `Spec`.

None of them is inductive alone. `IndInv` adds what connects them: `DbOK`, for
the open transaction and for the disk (the chain is linked, stored and valid,
stored headers have stored parents, blocks and headers are stored together, and
the counter of a block that is not stored is 1 and not in the tips index, which
is why `check_children_counter` holds for a new block); `Heavy`, the disk's own
version of `HeaviestTip`, which a restart needs; `InReorg`, that during a
reorganization the two pointers of the walk are stored, that `chain2` is the
path from the new block down to the second pointer, that the first pointer is
in the chain, and that only the new block may be heavier than the tip the
reorganization started from; `WalkOK`, that no block already collected is in the
chain, by comparing heights; and `DownOK`, the state between a crash and the
next start. Assumptions: cumulative difficulty strictly increases along the tree
(`check_standalone_consensus` rejects a block of difficulty 0) and a height is
the parent's plus one.

`NetProofs.tla` is about the parts of the run `net`. Of `CircularBuffer` it
proves, for every size of the array and every set of bytes, that `BufferSound` is
an invariant and that the buffer implements `Fifo.tla` with the bytes between its
positions as the queue. The inductive invariant bounds the positions
(`read_pos < Size`, `write_pos` at most `Size` above it) and, while a copy loop
runs, relates what is left of it to its goal; the refinement needs lemmas about
how the queue changes when one contiguous piece is written or read, with and
without a wrap. `StringStream` implements `Fifo.tla` too, because its read
position never passes the end of its buffer.

The other theorems of the module are `OperationsMatch`, an invariant of `NetSpec`
for any sets of socket objects, connections and timers and all sizes, and
`HandlersInTime`, both for plain and for SSL sockets and without a condition beyond
the one they state, that the socket was not closed during its SSL handshake (`torn`,
see Network above). The invariant of the socket is `SocketOK` until then: the only steps
that may break it leave a handshake without its object, by `close` or by a connection
that was detached before its handshake began, and they set `torn`. It says of every object that
its flags are set exactly while the event loop holds an operation for it, one at
most, and that its bytes and operations are of its connection; of the object in
use, that none of its transfers was aborted, and that it is reading if it has room
and writing if it has bytes; of any other object with an operation, that its
owner has left it. The last two are why a late completion can call nobody: its
object is either in use, and then the operation is of the present connection, or
detached. `close` is the step to look at: it keeps the object if nothing is
outstanding and detaches it otherwise, and the lemmas `CloseCurrent` and `Finish`
carry the invariant through it and through each handler, which may call it.
`TimerInv` adds to `OneWaitEach` that the wait of an object that was not left is
the latest and not aborted; `AcceptorInv` says where each connection is.

`MessagesInOrder` is proved whole (`MessagesAlwaysInOrder`), for every sequence of
requests, messages and answers and all sizes of buffers. `ServerInv`: the requests
executed and those answered are the first ones, in order, and they differ by the one
that waits for its answer. `AgentInv`: while a request is outstanding it is in
exactly one place, on its way to the server, on its way back, or waiting for the
timer with no connection, and nothing of another request is under way; so a
cancelled one, whose connection is closed, leaves nothing behind that could be taken
for the answer to the next. `QueueInv`: after `advance_state` decides to read, at
most one answer waits, and it stays so until the message that was read adds the
second; `write` only shortens the queue, which is shown without knowing what the
sums in it are. `PeerInv`: there is a message j such that the bytes taken end where
it begins, or, while a body is received, in it by as much as was received, and the
messages before j are the ones handled; the bytes taken, in the buffer, in the
socket and in the network are all there are until the socket is told to shut down,
and never more. So a whole header in the buffer is the header of a message
(`HeaderBegins`; a stream out of step would take whatever bytes are there), and
a complete body ends where the next message begins (`MessageEnds`). Where a message
begins is a sum, `SumTo`, a recursive function: that it exists, grows by each number
and depends on the numbers only (`Sums`, `SumsGrow`, `SumsAgree`) is proved by
induction from `WFMin` of `WellFoundedInduction`, which needs no operator as a
parameter. The assumption is `ClientAssumption`: a header has at least one byte and
fits the buffers, lengths are natural numbers, and every message has an entry in
`Answer`.

`ThreadsProofs.tla` proves `ResultsExact` and `WakeupsKept` of the run `chain`
for every finite set of threads and every number of blocks, inputs and answers.
`RingInv` adds to the properties of `RingChecker` that a worker's copy of
`work_counter` is never ahead of it (so starting a block leaves nobody holding an
input of it), that a worker returns only after `quit`, that `total_counter` is
the number of inputs gone through, that `errors` are the bad inputs among those
counted, and that the applying thread sleeps only while results are missing. When
`ready_counter` reaches `total_counter` the queue and the set of holders are
empty by counting, so the verdict is about all inputs. `PrepInv` adds to those of
`WalletPrep` that what threads hold under the current counter, what is queued and
what is prepared belong to the answer being applied and to its heights; a result
under an older counter is dropped by the test at `WalletPrepMulticore.cpp:91`.

`ChildrenAlwaysCounted` in `BlockChainProofs.tla` is about counters that the code
keeps instead of counting: a finite set grows by one exactly when a child is
stored, in the open transaction and on disk alike, and a reorganization touches
neither.

`LedgerProofs.tla` proves `PoolSound` for every set of transactions over any key
images, fees and sizes, and `TemplatesComplete` for every tree of blocks and every
`Remember`. For the pool, `PoInv` says that each index is the other one read
backwards, that no two transactions share a key image, and, while blocks of a
reorganization are undone and redone, that the pool conflicts with none of the
blocks on the chain; every call is a sequence of removals and one insertion, each
of which keeps this (the `all_inserted` and `all_erased` invariants hold along the
way). For the templates, `TemplatesKept` is stronger than the property and
inductive: a transaction of a template is remembered under a height no lower than
the template's minus `Remember`, as long as no template was made on a higher tip.

`PoolBounded`, in the same module, is about a counter that the code keeps beside the
pool (`m_memory_state_total_size`). `SumSize` recurs over the subsets of a set; that
the function exists, and that any transaction may be the one added last, follows by
induction on the number of transactions (`SumsExist`, `SumTaken`), so a removal takes
exactly its size away. That the pool is over the limit by less than its lowest
transaction is not inductive, since that one may be mined or displaced: `SizedPool`
says it of every transaction, that those which outrank it are below the limit without
it. A transaction that leaves only helps the ones below it; the one that enters is
not evicted again, because in a full pool its fee was compared with the lowest one
(`AdmittedStays`). The assumption is that `MAX_POOL_SIZE` is not zero (2000000 in the code).

`LedgerExact` and `VerdictsAgree`, in the same module too, are about a state that is
compared with a chain of any length. `TablesOf` says it without a fold: every table
is given entry by entry by the blocks of the chain, where the stack of an amount is
the outputs of these blocks one after the other (`Stack`). The invariant is `LedgerIInv`. Of the
tables in memory and of those on disk it says `LedInv`: every block of the chain is
`Good` on the blocks below it, the tables are those of the chain, and the stored global
indices of a block lead to its outputs on the stacks as high as that block left them.
The first part is what makes undoing exact: to take back the spent flags
`undo_block` has to know that nobody below had spent those outputs, which follows
from the key images of the chain being distinct. Redoing: the checks of
`redo_block` against the tables are `Good` (`CheckerAgrees`), what it spends was
unspent (`FreshSpent`), the delta holds the new outputs in their order
(`DeltaIs`), and applying it gives the stacks of the longer chain (`ApplyStacks`).
Undoing, from the last transaction to the first, is the reverse at every step
(`SpentUnder`, `UndoStep`), so no assertion fails and the tables are those of the
shorter chain; a restart falls back to the disk and forgets only the cached next
indices. Whether a block is applied is `Good` on top of a chain that ends in the
block's parent (`VerdictOf`); so is the choice between refusing and throwing, which is about
the block's own transactions. There is one such chain (`OneChain`), so there is one
verdict of the three; a transaction of a checked block is refused by the pool's code
for the same reasons, unless an output of its ring is unlocked for one of the two clocks
only (`PoolAgrees`). The assumptions are the four of `Ledger.tla`; of them
that unchecked blocks are good is what the code itself does not establish. Integers are unlimited here; global indices in
the code have 32 bits.

`P2PProofs.tla` proves `ConnectionsSound` and `PeersSound` for every set of
addresses and clients, every limit, network and clock. `ConnInv` is about the
loop: clients that are outgoing are at most `OutCount` and at different addresses,
and either the loop is going on, or there are enough of them, or the timer runs;
the disconnects inside handlers re-enter it. In `PdInv` every call on the peer data
base is a sequence of changes each of which leaves an entry as it is or makes it
`Good`: stored under the same value, with a time of the next attempt no further
away than its last one allows, and, in the white list, with a ban that ends no
later than one delay after now. The assumptions are `P2PAssumption` and
`PeerAssumption`.

The same module proves `CursorsExact` for every finite set of keys, every start and
greatest byte, and both libraries. The comparison of byte strings is shown to be a
strict total order (`Irreflexive`, `Transitive`, `Total`, by the first place at which
two strings differ), in which the keys under a prefix are next to each other
(`Between`); a finite set has a first key in either direction (`FirstExists`). `Stands`
says of the key on which a cursor stands that it is the first of a set of keys, and
each way in which `DBlmdb.cpp` and `DBsqlite3.cpp` find one is shown to give it
(`OpenStands`, `NeighbourStands`, `ErasedStands`). For a backward cursor
this is where the padding with the greatest byte matters: the padded start comes after
every key before or under the start and before all others, since no key is as long as
`max_key_size` (`PaddedBounds`). The invariant `KvInv` then says of a walk what is in
`WalkExact`, that the cursor stands on the last key it has shown, and that only keys it
has shown are gone. The assumption is `KeysFit`: keys are not empty and shorter than
the padding.

`SyncProofs.tla` proves `AnswersConnect` for every tree of blocks, every length of
the dense part and every limit on the ids of an answer. `RoundsInv`: both nodes
have the parents of all that they have stored, a sparse chain under way is that of
the present tip (which moves only with an answer), and an answer satisfies
`AnswerOK`. That takes three steps. Two branches that have a block in common at one
height have it at all heights below (`SharedDown`), so there is one fork, and it is
the height that `get_sync_headers_chain` walks down to (`CommonIsFork`). The
distances of the entries of a sparse chain from its tip begin with 0, grow, and are
at most doubled, and two more, from one to the next (`Jumps`), so the first entry
that the other node knows is below the fork by no more than the tip is above it
(`StartIsNear`). And the blocks from the fork on have their parents in the answer
or stored (`StoreKeeps`). `Shift`, the code's `1 <<`, is a recursive function: that it
exists and doubles follows from `Induction` and `Recursion`, which are stated over
the elements of a set and so need no operator as a parameter. Integers are unlimited
here; `jump` in the code has 32 bits and is at most twice the height.
The assumption is `RoundsAssumption`, that the constants are a tree with its paths.

The same module proves `RequestsSound` and `DownloadSound` of the run `downloader`
for every tree of blocks, any clients, threads and peers' tips, every window and every
limit. All handlers are compositions of a few operations on `dl` (`stop_download`,
`start_download`, `Cleaned`, `Disconnected`, `add_block` and the loops around them), so
the invariant is about `dl` and has two grades. `Core` holds after each operation, inside
handlers too. Besides what the properties say it has: a client is set only on a cell that
is being downloaded (`Alive`); requests are among the first `MaxDownload` cells that
still have to be downloaded (`Early`); the known blocks have their parents, and every
chain was asked for with known blocks only (`Rooted`); there are no cells while a
chain is awaited or blocks are read from files (`Quiet`). `FrontServed` holds only
once the loop over the cells in `advance_download` has run, which is how every handler
ends (`AdvanceKeeps`). `Early` is what makes it true: while a cell waits in front of
one that is asked for, fewer than `MaxDownload` are asked for, so the loop, which goes
from the front, has a request for it. The loops are recursive
functions over the cells or over the number of clients too many (`Stopping`,
`Dropping`, `Assigning`, `Adding`); the counters are compared with cardinalities, which
change by one with each cell (`FS_AddElement`, `FS_RemoveElement`) and are kept when
the window moves (`AsMany`). An answer with a chain is cut at its last known block, since
the answering node begins it with a block of the sparse chain and that one is known
still (`ChainTaken`); so what is left begins on a known block, or on the last cell. A
block that comes unasked, or after its cell was given up, finds no cell (`BlockTaken`).
A handler may disconnect its own client or the client of the chain; `OnDisconnectKeeps`
and `Advanced` carry the invariant through these calls, and `Held`, what threads have or
have prepared, only matters for cells in preparation. The assumptions are
`DownloadAssumption` (`MaxDownload`, 400 in the code, is positive and less than `Window`,
2000 in the code; `MaxLagging` is a natural number) and `LocatorAssumption`, that the
constants are a tree with its paths.

`TypeOK` of each of these modules is part of the invariants, and all of them were
first checked by TLC as invariants of the runs.

Only model-checked, and why:

- every liveness property (`ReorgEnds`, `ThreadsReturn`, `CellsLeave`,
  `CatchesUp`, `WalletFollows`, `WaitersAreTold`): outside this prover;
- `WalletExact`, `HeadersSound`, `WorkPaid`: they compare a state with a fold over a
  chain or with a function that recurs over data other than the naturals, and have not
  been restated entry by entry as the ledger's tables are;
- `PaymentsKept`: what it says of a payment is about the chain folded with the pool.
  A fold of the community modules would first have to be shown equal to a recursive
  function, as `Shift` is;
- the codecs, which have no state that goes on: they are compared with reference
  definitions on every input up to a bound.

## Plan

1. Proofs: the wallet's tables, stated entry by entry and proved along the lines
   of `LedInv`.
2. The ledger as a refinement of an abstract set of unspent outputs, for which
   `LedgerAlwaysExact` gives the mapping.

## Not modelled

- Limb arithmetic of `crypto-ops.c`, the compression functions of the hashes,
  `oaes_lib.c` and the slow hash: number crunching in words far wider than a
  model checker or these provers handle, with nothing to interleave.
- The Qt and iOS variants of the network classes, which the node does not build
  with; name resolution; opening, backup and deletion of data base files.
- JSON-RPC method tables, the fields of messages and the descriptions of types to
  the serializers: data without control.
- Wallet file encryption, key derivation for addresses, the selection of unspent
  outputs; the relay of transactions between nodes.
- Logging, configuration, command line, program entry points, tests and tools.
- Of `BlockChain`: `internal_import`, `prune_branch` and `test_undo_everything`,
  which only tools and tests call.
