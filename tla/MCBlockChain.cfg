SPECIFICATION MCSpec
CONSTANTS
  g = g
  a1 = a1
  a2 = a2
  a3 = a3
  b1 = b1
  b2 = b2
  c2 = c2
  none = none
  Genesis = g
  NoBlock = none
  Window = 2
  CommitEvery = 3
  Block <- MCBlock
  Parent <- MCParent
  Height <- MCHeight
  CumDiff <- MCCumDiff
  MaxWithFatal = 2
  RingWorker = {w1, w2, w3}
  MaxInputs = 3
  MaxBlocks = 3
  PrepWorker = {w1, w2}
  MaxHeight = 2
  MaxCalls = 3
INVARIANTS
  OnlyLedgerThrows
  ChainLinked
  TipMatchesChain
  ChildrenIndex
  ChainValid
  HeaviestTip
  ReplyTellsTip
  MinimalReorg
  ResultsExact
  WakeupsKept
PROPERTIES
  ReorgEnds
  ThreadsReturn
