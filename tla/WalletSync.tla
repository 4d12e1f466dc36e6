------------------------------ MODULE WalletSync ------------------------------
(***************************************************************************)
(* WalletSync: the loop in which a wallet follows a node.  One request at  *)
(* a time goes through http::Agent, which connects again and repeats it    *)
(* when the connection is lost and gives it up after REQUEST_TIMEOUT; the  *)
(* node parks a status request that would tell nothing new (long poll).    *)
(* Of the wallet the module keeps the tip, the pool that it knows, and the *)
(* queue; WalletState tells how an answer changes them.  The node's side   *)
(* is Node.cpp; pools are numbered by a version that restarts at 2 with    *)
(* every block.  Tip and version do not tell every change of the pool: see *)
(* untold.                                                                 *)
(***************************************************************************)
EXTENDS Locator

CONSTANTS
  Tx,          \* numbered in the order of their hashes, from 1
  BlockTxs,    \* the transactions of a block
  Rivals,      \* the transactions that share a key image with one; of two rivals
               \* the one with the higher number pays the higher fee
  Payment,     \* those that may be in the wallet's queue
  MaxVersion,  \* bound of the pool version
  MaxFaults    \* how often the connection is lost, the node refuses, restarts or
               \* does not get through with a reorganization

SyncAssumption ==
  /\ Tx \subseteq Nat \ {0} /\ Payment \subseteq Tx
  /\ Rivals \in [Tx -> SUBSET Tx] /\ \A t \in Tx : \A u \in Rivals[t] : t # u /\ t \in Rivals[u]
  /\ BlockTxs \in [Block -> SUBSET Tx] /\ MaxVersion \in Nat /\ MaxFaults \in Nat

VARIABLES
  node,          \* tip, pool, ver (m_tx_pool_version), up
  w,             \* the wallet: tip, pool, ver, status, cursor (next_send_hash)
  pq,            \* the payments in the queue that the chain does not have
  sent_request,  \* of the agent, NoRequest if none
  wire,          \* what is on the connection: kind "idle", "closed", "request",
                 \* "parked", "missed" (parked, and the tip moved unannounced),
                 \* or an answer
  m_status_timer, reconnect_timer,
  offered,       \* payments that reached the node
  had,           \* history: the tips that the node had
  untold,        \* history: what the status does not tell of the pool, "nothing",
                 \* "removal" (until the next version), or "repeat" (this tip was
                 \* the tip before, and its versions start again)
  faults

vars == <<node, w, pq, sent_request, wire, m_status_timer, reconnect_timer, offered, had, untold, faults>>
wallet == <<w, pq>>
agent == <<sent_request, wire, m_status_timer, reconnect_timer>>
past == <<had, untold>>

Just(kind) == [kind |-> kind]
NoRequest == Just("none")
OnChain(b) == UNION {BlockTxs[c] : c \in Range(Path[b])}
Status(n) == [tip |-> n.tip, ver |-> n.ver]
Answers(kind, n, data) == [kind |-> kind, status |-> Status(n), data |-> data]

\* The request is written, or waits for a connection.
SetRequest(req) ==
  /\ sent_request' = req
  /\ m_status_timer' = FALSE
  /\ wire' = Just(IF node.up THEN "request" ELSE "closed")
  /\ reconnect_timer' = ~node.up

StatusTimer ==
  /\ m_status_timer' = TRUE
  /\ sent_request' = NoRequest /\ wire' = Just("idle") /\ reconnect_timer' = FALSE

\* get_next_from_sending_queue.
NextToSend(x, queue) == {t \in queue : t > x.cursor}

\* advance_sync, with the wallet and the queue after the handler that calls it.
StartOver(x) == [x EXCEPT !.cursor = 0]
advance_sync(x, queue) ==
  \/ /\ x.status.tip # x.tip
     /\ w' = StartOver(x)
     /\ SetRequest([kind |-> "blocks", locator |-> get_sparse_chain(x.tip)])
  \/ /\ x.status.tip = x.tip /\ NextToSend(x, queue) # {}
     /\ w' = [x EXCEPT !.cursor = Min(NextToSend(x, queue))]
     /\ SetRequest([kind |-> "send", tx |-> Min(NextToSend(x, queue))])
  \/ /\ x.status.tip = x.tip /\ NextToSend(x, queue) = {} /\ x.status.ver # x.ver
     /\ w' = x
     /\ SetRequest([kind |-> "pool"])
  \/ /\ x.status.tip = x.tip /\ NextToSend(x, queue) = {} /\ x.status.ver = x.ver
     /\ w' = x
     /\ StatusTimer

send_get_status ==
  /\ m_status_timer
  /\ SetRequest([kind |-> "status", status |-> [tip |-> w.tip, ver |-> w.ver]])
  /\ UNCHANGED <<node, wallet, offered, past, faults>>

\* sync_with_blockchain of WalletState: an answer that pushes or pops a block
\* makes the pool version unknown and drops what the new blocks contain.
LastOf(x, ans) == IF ans.ids = <<>> THEN x.tip ELSE Last(ans.ids)
Moved(x, tip) ==
  IF tip = x.tip THEN x
  ELSE [x EXCEPT !.tip = tip, !.pool = @ \ OnChain(tip), !.ver = 1]
PoolShown(x, ans) == [x EXCEPT !.pool = ans.data, !.ver = ans.status.ver]

Received(ans) ==
  LET x == [w EXCEPT !.status = ans.status]
  IN  \/ ans.kind = "status" /\ advance_sync(x, pq) /\ UNCHANGED pq
      \/ /\ ans.kind = "blocks"
         /\ pq' = pq \ OnChain(LastOf(x, ans.data))
         /\ advance_sync(Moved(x, LastOf(x, ans.data)), pq')
      \/ ans.kind = "pool" /\ advance_sync(PoolShown(x, ans), pq) /\ UNCHANGED pq
      \* a send tells no status; a refusal deep in the chain ends the payment
      \/ ans.kind = "sent" /\ advance_sync(w, pq) /\ UNCHANGED pq
      \/ /\ ans.kind = "refused" /\ pq' \in {pq, pq \ {sent_request.tx}}
         /\ advance_sync(w, pq')
      \* 401, 410, an exception in a handler
      \/ ans.kind = "error" /\ StatusTimer /\ UNCHANGED wallet

on_client_response ==
  /\ wire.kind \notin {"idle", "closed", "request", "parked", "missed"}
  /\ Received(wire)
  /\ UNCHANGED <<node, offered, past, faults>>

\* on_client_disconnect.
Disconnected ==
  /\ wire' = IF wire.kind = "idle" THEN wire ELSE Just("closed")
  /\ reconnect_timer' = (wire.kind # "idle")
  /\ UNCHANGED <<sent_request, m_status_timer>>

\* Ten seconds later the agent tries again, or gives up and the loop waits for
\* STATUS_ERROR_PERIOD.
on_reconnect_timer ==
  /\ reconnect_timer
  /\ \/ SetRequest(sent_request)
     \/ StatusTimer
  /\ UNCHANGED <<node, wallet, offered, past, faults>>
--------------------------------------------------------------------------------
\* advance_long_poll: a parked status request is answered when the status it
\* names is no longer the status.
Parked == wire.kind \in {"parked", "missed"}
advance_long_poll_mut(n) ==
  wire' = IF ~Parked THEN wire
          ELSE IF sent_request.status.tip # n.tip THEN Answers("status", n, 0) ELSE Just("parked")
advance_long_poll(n) ==
  wire' = IF ~Parked THEN wire
          ELSE IF sent_request.status # Status(n) THEN Answers("status", n, 0) ELSE Just("parked")

NodeOnly == UNCHANGED <<wallet, sent_request, m_status_timer, reconnect_timer>>

\* What stays in the pool when the chain ends at n: redo_block removes what n
\* contains or spends; of a reorganization's undone transactions any may come back.
PoolsAt(n) ==
  LET kept == {t \in node.pool : ({t} \cup Rivals[t]) \cap OnChain(n) = {}}
  IN  IF node.tip \in Range(Path[n]) THEN {kept}
      ELSE {p \in SUBSET (kept \cup (OnChain(node.tip) \ OnChain(n))) :
              \A t \in p : Rivals[t] \cap p = {}}
NewTip(n) ==
  /\ \E p \in PoolsAt(n) : node' = [node EXCEPT !.tip = n, !.pool = p, !.ver = 2]
  /\ had' = had \cup {n}
  /\ untold' = IF n \in had THEN "repeat" ELSE "nothing"

\* A block, or a reorganization to a higher tip.
NodeMoves(n) ==
  /\ node.up /\ Height[n] > Height[node.tip]
  /\ NewTip(n)
  /\ advance_long_poll(node')
  /\ NodeOnly /\ UNCHANGED <<offered, faults>>

\* A reorganization to the branch of n that ends at a block it cannot apply: the
\* blocks undone are not applied again.  add_block returns NOTHING, for which the
\* downloader advances the long poll and on_msg_notify_new_block does not.
ReorganizationFails(n) ==
  /\ node.up /\ faults < MaxFaults
  /\ Height[n] > Height[node.tip] /\ node.tip \notin Range(Path[n])
  /\ \E h \in CommonHeight(n, node.tip)..(Height[n] - 1) : NewTip(Path[n][h + 1])
  /\ \/ advance_long_poll(node')
     \/ wire' = IF Parked THEN Just("missed") ELSE wire
  /\ faults' = faults + 1
  /\ NodeOnly /\ UNCHANGED offered

\* A peer that comes or goes advances the long poll (after_handshake,
\* on_disconnect).
PeersChange ==
  /\ node.up /\ advance_long_poll(node)
  /\ NodeOnly /\ UNCHANGED <<node, offered, past, faults>>

\* The key images are neither spent nor used by a pool transaction with a higher fee.
Enters(t) ==
  /\ ({t} \cup Rivals[t]) \cap OnChain(node.tip) = {} /\ t \notin node.pool
  /\ \A u \in Rivals[t] \cap node.pool : u < t
NodeAdds(t) ==
  /\ Enters(t)
  /\ node' = [node EXCEPT !.pool = (@ \ Rivals[t]) \cup {t}, !.ver = @ + 1]
  /\ untold' = IF untold = "removal" THEN "nothing" ELSE untold

\* A transaction is refused when one of several rivals pays a higher fee: those found
\* before that one are gone, and the version is the same (INCREASE_FEE).
NodeRemoves(t) ==
  /\ ({t} \cup Rivals[t]) \cap OnChain(node.tip) = {} /\ t \notin node.pool
  /\ \E u \in Rivals[t] \cap node.pool : u > t
  /\ \E gone \in SUBSET {u \in Rivals[t] \cap node.pool : u < t} :
       /\ node' = [node EXCEPT !.pool = @ \ gone]
       /\ untold' = IF gone # {} /\ untold = "nothing" THEN "removal" ELSE untold

\* on_msg_notify_new_transactions: a refusal advances no long poll.
add_transaction(t) ==
  /\ node.up
  /\ \/ node.ver < MaxVersion /\ NodeAdds(t) /\ advance_long_poll(node')
     \/ NodeRemoves(t) /\ UNCHANGED wire
  /\ NodeOnly /\ UNCHANGED <<offered, had, faults>>

\* A node that is killed comes back with the chain of its last commit.
NodeStops ==
  /\ node.up /\ faults < MaxFaults
  /\ \E n \in Range(Path[node.tip]) :
       node' = [tip |-> n, pool |-> {}, ver |-> 2, up |-> FALSE]
  /\ untold' = "repeat" /\ faults' = faults + 1
  /\ Disconnected
  /\ UNCHANGED <<wallet, offered, had>>

NodeStarts ==
  /\ ~node.up /\ node' = [node EXCEPT !.up = TRUE]
  /\ UNCHANGED <<wallet, agent, offered, past, faults>>

ConnectionLost ==
  /\ wire.kind \notin {"idle", "closed"} /\ faults < MaxFaults
  /\ faults' = faults + 1
  /\ Disconnected
  /\ UNCHANGED <<node, wallet, offered, past>>

\* on_get_status3, on_wallet_sync3, on_sync_mempool3, handle_send_transaction3.
on_get_status3 ==
  /\ sent_request.kind = "status"
  /\ wire' = IF sent_request.status = Status(node) THEN Just("parked") ELSE Answers("status", node, 0)
  /\ UNCHANGED <<node, offered>>

on_wallet_sync3 ==
  /\ sent_request.kind = "blocks"
  /\ wire' = Answers("blocks", node, get_sync_headers_chain(Block, node.tip, sent_request.locator))
  /\ UNCHANGED <<node, offered>>

on_sync_mempool3 ==
  /\ sent_request.kind = "pool"
  /\ wire' = Answers("pool", node, node.pool)
  /\ UNCHANGED <<node, offered>>

\* INCREASE_FEE is answered like a success, whatever it removed.
handle_send_transaction3 ==
  /\ sent_request.kind = "send"
  /\ LET t == sent_request.tx
     IN  /\ offered' = offered \cup {t}
         /\ \/ NodeAdds(t) /\ wire' = Answers("sent", node', 0)
            \/ NodeRemoves(t) /\ wire' = Answers("sent", node, 0)
            \/ /\ t \in node.pool
               /\ UNCHANGED <<node, untold>> /\ wire' = Answers("sent", node, 0)
            \/ /\ t \notin node.pool
               /\ UNCHANGED <<node, untold>> /\ wire' = Answers("refused", node, 0)

NodeHandles ==
  /\ wire.kind = "request" /\ node.up
  /\ \/ (on_get_status3 \/ on_wallet_sync3 \/ on_sync_mempool3) /\ UNCHANGED untold
     \/ handle_send_transaction3
  /\ NodeOnly /\ UNCHANGED <<had, faults>>

\* 401, 410, or an error page.
NodeRefuses ==
  /\ wire.kind = "request" /\ node.up /\ faults < MaxFaults
  /\ wire' = Answers("error", node, 0)
  /\ faults' = faults + 1
  /\ NodeOnly /\ UNCHANGED <<node, offered, past>>

\* WalletNode::handle_send_transaction3 puts a payment into the queue; what it
\* sends by itself is left out, as if it were lost.
add_to_payment_queue(t) ==
  /\ t \notin pq \cup offered \cup OnChain(w.tip)
  /\ pq' = pq \cup {t}
  /\ UNCHANGED <<node, w, agent, offered, past, faults>>

Init ==
  /\ node \in [tip : Block, pool : SUBSET Tx, ver : {2}, up : {TRUE}]
  /\ \A t \in node.pool : ({t} \cup Rivals[t]) \cap (OnChain(node.tip) \cup (node.pool \ {t})) = {}
  /\ w = [tip |-> Genesis, pool |-> {}, ver |-> 1, cursor |-> 0,
          status |-> [tip |-> "none", ver |-> 0]]
  /\ pq \in SUBSET Payment
  \* the constructor calls advance_sync
  /\ sent_request = [kind |-> "blocks", locator |-> <<Genesis>>]
  /\ wire = Just("request") /\ m_status_timer = FALSE /\ reconnect_timer = FALSE
  /\ offered = {} /\ had = {node.tip} /\ untold = "nothing" /\ faults = 0

Next ==
  \/ send_get_status \/ on_client_response \/ on_reconnect_timer
  \/ NodeHandles \/ NodeRefuses \/ ConnectionLost \/ NodeStops \/ NodeStarts
  \/ PeersChange
  \/ \E n \in Block : NodeMoves(n) \/ ReorganizationFails(n)
  \/ \E t \in Tx : add_transaction(t)
  \/ \E t \in Payment : add_to_payment_queue(t)

\* Timers fire, answers are delivered, a running node handles requests, and a
\* node that was stopped is started again.
Fairness ==
  /\ WF_vars(send_get_status) /\ WF_vars(on_client_response) /\ WF_vars(on_reconnect_timer)
  /\ WF_vars(NodeHandles) /\ WF_vars(NodeStarts)

Spec == Init /\ [][Next]_vars
--------------------------------------------------------------------------------
\* Whenever tip and pool version of the wallet are those of the node, so is the
\* pool: versions are small numbers that every block starts again from 2, and the
\* wallet only compares them (advance_sync, create_status_response3).  They do not
\* tell two changes: what a refused transaction removed, until the next one enters
\* the pool, and that a kill or a failed reorganization brought back a tip the node
\* had before, whose versions start again.
PoolViewExact ==
  untold = "nothing" /\ w.tip = node.tip /\ w.ver = node.ver => w.pool = node.pool

\* The loop is never idle and never asks twice: either one request is with the
\* agent or the status timer runs (the agent's invariant "Agent is busy with
\* previous request"), and a lost connection has a timer to repeat the request.
LoopRuns ==
  /\ m_status_timer <=> sent_request = NoRequest
  /\ reconnect_timer <=> wire.kind = "closed"
  /\ wire.kind = "idle" <=> m_status_timer

\* A parked request has nothing to be told: the node answered every change of its
\* tip and of its version, but for a failed reorganization under
\* on_msg_notify_new_block, until the next call of advance_long_poll.
ParkedIsCurrent ==
  /\ wire.kind = "parked" => sent_request.status = Status(node)
  /\ wire.kind = "missed" => faults > 0

\* The node stops to change in the end; then the wallet reaches its tip, and its
\* pool unless the status does not tell it (untold), whatever was lost on the way.
\* A request left parked by a failed reorganization waits for the next change.
Follows ==
  wire.kind # "missed" => w.tip = node.tip /\ (untold = "nothing" => w.pool = node.pool)

\* A payment that is in the queue when the wallet learns of a new block reaches
\* the node, or is no longer wanted (next_send_hash starts over with every tip).
\* This needs a connection that holds: an attempt that fails is repeated only
\* after the next block, and none comes when the node is back at a tip it had,
\* the wallet's, and parks the request for its status.
PaymentOffered ==
  \A t \in Payment : (t \in pq /\ w.status.tip # w.tip /\ faults = MaxFaults)
                       ~> (t \in offered \/ t \notin pq \/ untold = "repeat")
================================================================================
