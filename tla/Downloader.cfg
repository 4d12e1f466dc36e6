CONSTANTS
  Block <- MCBlock
  Genesis = "g"
  Parent <- MCParent
  Height <- MCHeight
  Path <- MCPath
  Dense = 2
  MaxIds = 5
  CsBlock <- RoundsBlock
  CsGenesis = 0
  CsParent <- RoundsParent
  CsHeight <- RoundsHeight
  CsPath <- RoundsPath
  CsMaxIds = 7
  Client = {c1, c2}
  NoClient = none
  Thread = {t1, t2}
  Idle = idle
  Window = 3
  MaxDownload = 2
  GoodLag = 1
  MaxLagging = 0
  MaxConnects = 2
  PeerTips = {"a4", "b2"}
  Imported = {"g"}
SYMMETRY Symmetry
SPECIFICATION DownloadSpec
INVARIANTS RequestsSound DownloadSound
