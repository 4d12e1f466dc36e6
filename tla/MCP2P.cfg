SPECIFICATION MCSpec
CONSTANTS
  Addr <- MCAddr
  Seeds <- MCSeeds
  Priorities = {}
  Exclusive <- MCExclusive
  Self <- MCSelf
  Network <- MCNetwork
  WhiteLimit = 1
  GrayLimit = 1
  BAN_PERIOD = 1
  RECONNECT_PERIOD = 1
  PRIORITY_RECONNECT_PERIOD = 1
  MaxTime = 2
  Client = {c1, c2}
  OutCount = 2
  FailFactor = 1
  PdAddr <- MCPdAddr
  PdPriorities <- MCPdPriorities
  PdNetwork <- MCPdNetwork
  PdWhiteLimit = 1
  PdGrayLimit = 1
  PdBan = 2
  PdReconnect = 2
  PdPriorityReconnect = 1
  PdMaxTime = 3
  KvKey <- MCKvKey
  KvStart <- MCKvStart
  KvFF = 2
  KvMaxKeySize = 3
SYMMETRY MCSymmetry
INVARIANTS PeersSound ConnectionsSound CursorsExact
