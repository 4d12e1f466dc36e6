SPECIFICATION MCSpec
CONSTANTS
  Addr = {"a1", "a2"}
  All = All
  InitialAddr = {"a1"}
  KeyImage <- MCKeyImage
  Tx <- MCTx
  Output <- MCOutput
  Amount <- MCAmount
  Owner <- MCOwner
  Image <- MCImage
  Lock <- MCLock
  Inputs <- MCInputs
  Outputs <- MCOutputs
  Block <- MCBlock
  Genesis = "g"
  Parent <- MCParent
  Height <- MCHeight
  Path <- MCPath
  Dense = 2
  MaxIds = 3
  TS <- MCTS
  Median <- MCMedian
  BlockTxs <- MCBlockTxs
  Claimed <- MCClaimed
  Created <- MCCreated
  FutureLimit = 5
  Day = 1
  Payment = {"pay"}
  Pooled = {"pay", "early"}
INVARIANT WalletExact
PROPERTIES PaymentsKept WalletFollows
\* the node's changes are bounded: in the end a parked request waits for ever
CHECK_DEADLOCK FALSE
