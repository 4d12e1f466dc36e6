SPECIFICATION MCSpec
CONSTANTS
  Block <- MCBlock
  Genesis = "g"
  Parent <- MCParent
  Height <- MCHeight
  Timestamp <- MCTimestamp
  Txs <- MCTxs
  Amount <- MCAmount
  max_block_height = 10
  AllowedDelta = 0
  AllowedSeconds = 1
  CheckpointHeight = 1
  Tx = {1, 2, 3, 4, 5}
  KeyImage = {1, 2, 3}
  Inputs <- MCInputs
  FeePerByte <- MCFeePerByte
  Size <- MCSize
  MAX_POOL_SIZE = 3
  MaxChain = 3
  MaxVersion = 5
  MinedTx = {"t1", "t2"}
  MinedOn = {"p0", "p1", "q1", "p2", "p3"}
  MinedHeight <- MCMinedHeight
  Remember = 1
  MaxTemplates = 1
  Parts = {"pool"}
PROPERTY
  RefusalKeepsPool
