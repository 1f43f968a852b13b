SPECIFICATION Spec
CONSTANTS
  p1 = p1
  p2 = p2
  p3 = p3
  Procs = {p1, p2, p3}
  Networks <- MCNetworks
  Circuits <- MCCircuits
  Scenes <- MCScenes
  Failures <- MCFailures
  MaxNonce = 3
  Nobody = Nobody
  AdminWallet = 3
  BaseSpreadBps = 50
  InventorySkewBps = 200
  MaxExposureBps = 2000
  RoundedDown <- MCRoundedDown
  Customers = {"buy", "sell", "sell2"}
  Want <- MCWant
  References = {1000, 1040}
  StartReference = 1000
  StartStock = 10
  StartNight = 2500
  Amounts = {1000}
  MaxMoves = 2
SYMMETRY MCSymmetry
INVARIANTS
  RecordedIsComplete
  KeysKept
  ColorMatchesAddress
  AdministratorKnown
  RestoredIsOurs
  PromiseShortByOutflow
  BootstrapRetired
PROPERTIES
  FairToTreasury
  QuotedFromTrade
CHECK_DEADLOCK FALSE
