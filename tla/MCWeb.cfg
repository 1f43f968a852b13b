SPECIFICATION Spec
CONSTANTS
  home = home
  t1 = t1
  t2 = t2
  order = order
  Home = home
  World = World
  Tabs = {home, t1, t2}
  Orders = {order}
  Supported <- MCSupported
  Foreign <- MCForeign
  Default = "preprod"
  MaxAttempts = 3
  MaxPolls = 2
  Scenes <- MCScenes
  Others = {"ask1", "ask2", "bid"}
  Terms <- MCTerms
  Prices = {2}
  MaxTrades = 2
  MaxCalls = 2
INVARIANTS
  OrphanIsInterrupted
  OneSettlementPerTab
  PendingIsOurs
  QuoteIsKept
  SettledIsNotAskedAgain
  ShownClosedIsClosed
  AppFollowsWallet
  NothingResurrected
  SwitchAndTxExclude
PROPERTIES
  SwitchEnds
  MarketHeals
CHECK_DEADLOCK FALSE
