CONSTANTS
  Block <- MCBlock
  Genesis = "g"
  Parent <- MCParent
  Height <- MCHeight
  Path <- MCPath
  Dense = 2
  MaxIds = 5
  CsBlock <- RoundsBlock
  CsGenesis = 0
  CsParent <- RoundsParent
  CsHeight <- RoundsHeight
  CsPath <- RoundsPath
  CsMaxIds = 7
  Client = {c1, c2}
  NoClient = none
  Thread = {t1}
  Idle = idle
  Window = 2
  MaxDownload = 1
  GoodLag = 1
  MaxLagging = 0
  MaxConnects = 2
  PeerTips = {"a3", "b2"}
  Imported = {"g"}
SPECIFICATION SyncSpec
INVARIANT AnswersConnect
PROPERTIES CellsLeave CatchesUp
