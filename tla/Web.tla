--------------------------------- MODULE Web --------------------------------
(***************************************************************************)
(* A browser profile: trading in its tabs (WebTrade.tla), one of which has *)
(* the wallet session that is followed (WalletSession.tla) and may show    *)
(* the market (MarketView.tla); the wallets of the other tabs stay         *)
(* connected.  What users, networks and the wallet do of their own accord  *)
(* is a wish, and a run grants finitely many of each.                      *)
(***************************************************************************)
EXTENDS WalletSession, WebTrade, MarketView

CONSTANTS
  Home,     \* the tab whose wallet session and market page are followed
  World,    \* whoever is not in a tab
  Scenes    \* [wishes, sockets, profiles, intervals, open]: what may happen

ASSUME WebConstants ==
  /\ Home \in Tabs /\ World \notin Tabs
  /\ \A scene \in Scenes : scene.sockets \subseteq Tabs

VARIABLES
  wishes,     \* what may still happen of somebody's own accord
  intervals   \* the timers of the market page that are followed

vars == <<sessionVars, tradeVars, marketVars, wishes, intervals>>

Init ==
  \E scene \in Scenes :
    /\ SessionInit
    /\ [remembered |-> remembered, persisted |-> persisted, walletNet |-> walletNet]
         \in scene.profiles
    /\ TradeInit(scene.sockets)
    /\ MarketInit(scene.open)
    /\ wishes = scene.wishes /\ intervals = scene.intervals

Granted(who, wish) ==
  /\ <<who, wish>> \in DOMAIN wishes /\ wishes[<<who, wish>>] > 0
  /\ wishes' = [wishes EXCEPT ![<<who, wish>>] = @ - 1]
  /\ UNCHANGED intervals
Unasked == UNCHANGED <<wishes, intervals>>

-----------------------------------------------------------------------------
(* What the session lets a tab's hooks do *)

\* The checks of submit, cancelOrder and settleWithProtocol.
May(t) == t = Home => MaySubmit

\* What a render knows, and whether getConnectedApi returns one now.
Able(t) == t = Home => status = "connected" /\ info # NoNet /\ ~switching
Open(t) == t = Home => api # 0

SessionStays == UNCHANGED sessionVars
TradeStays == UNCHANGED tradeVars

\* setTxPending brackets submitCreateOrder.
PendingOver(a) ==
  IF a.tab = Home /\ a.kind = "create" /\ a.phase \in {"signing", "sent", "landed"}
  THEN EndTx ELSE SessionStays

-----------------------------------------------------------------------------
(* Actions *)

UserTrades(t, o) ==
  \/ /\ Submit(t, o) /\ Granted(t, "submit")
     /\ IF t = Home THEN BeginTx ELSE SessionStays
  \/ /\ May(t) /\ SessionStays
     /\ \/ Cancel(t, o) /\ Granted(t, "cancel")
        \/ Approve(t, o) /\ Granted(t, "approve")

TaskSteps(a) ==
  \/ /\ SessionStays
     /\ \/ /\ Unasked
           /\ \/ Call(a) \/ TakeReply(a) \/ Cancelled(a) \/ Tell(a) \/ Settled(a)
              \/ Check(a) \/ Decide(a, Open(a.tab))
        \/ Accept(a) /\ Granted(World, "accept")
  \/ /\ PendingOver(a)
     /\ \/ Disclose(a) /\ Unasked
        \/ BreakOff(a) /\ Granted(World, "fail")

TabSteps(t) ==
  \/ /\ SessionStays /\ MarketStays
     /\ \/ Unasked
           /\ \/ Deliver(t) \/ ApplyList(t)
              \/ \E o \in Orders : Start(t, o, Able(t))
        \/ SocketReturns(t) /\ Granted(t, "redial")
        \/ PollList(t) /\ Granted(t, "list")
  \/ /\ SocketDrops(t) /\ Granted(t, "drop") /\ SessionStays
     /\ IF t = Home THEN DropFeed ELSE MarketStays
  \/ /\ Reload(t) /\ Granted(t, "reload")
     /\ IF t = Home THEN ReloadSession /\ ReloadMarket ELSE SessionStays /\ MarketStays

OutsideSteps ==
  /\ SessionStays
  /\ \/ \E o \in Orders : Answer(o) /\ Unasked
     \/ \E x \in relayed :
          \/ Land(x) /\ Unasked
          \/ Discard(x) /\ Granted(World, "fail")
     \/ \E o \in Orders :
          \/ BookMoves(o) /\ Granted(World, "fate")
          \/ MatchSettles(o) /\ Granted(World, "settle")
          \/ LapseQuote(o) /\ Granted(World, "lapse")

Attempt(g) == AttemptStep(g) /\ TradeStays /\ Unasked

SessionSteps ==
  /\ TradeStays
  /\ \/ Unasked /\ (AutoConnect \/ \E k \in Polls : PollStep(k))
     \/ Hydrate /\ Granted(Home, "open")
     \/ Connect /\ Granted(Home, "connect")
     \/ Disconnect /\ Granted(Home, "disconnect")
     \/ WalletMoves /\ Granted(World, "move")
     \/ Granted(Home, "poll") /\ \E k \in Polls : StartTick(k)
     \/ \E net \in Supported : RequestSwitch(net) /\ Granted(Home, "switch")

\* Other traders, the treasury and the intervals do as the scene has it.
MarketMoves ==
  LET hears == Home \in linked IN
  \E o \in Others :
    \/ Granted(o, "place") /\ Place(o, hears)
    \/ Granted(o, "close") /\ Close(o, hears)
    \/ Granted(o, "fill") /\ \E p \in Prices : FillByProtocol(o, p, hears)

Fetched(f) ==
  \E c \in calls : c.fetch = f /\ (Read(c) \/ Apply(c)) /\ Unasked
Refresh(f) == f \in intervals /\ Tick(f) /\ Unasked
Heard == Receive /\ Unasked

MarketSteps ==
  \/ MarketMoves
  \/ Granted(World, "fund") /\ MoveTreasury(Home \in linked)
  \/ \E f \in DOMAIN Fetches : Fetched(f)
  \/ \E c \in calls : Lose(c) /\ Granted(World, "lose")
  \/ \E f \in Periodic : Refresh(f)
  \/ Granted(Home, "mount") /\ Mount
  \/ Granted(Home, "chart") /\ MountChart
  \/ Granted(Home, "unmount") /\ Unmount
  \/ Heard

\* The market page goes on by itself.
InMarket(A) == A /\ SessionStays /\ TradeStays

Next ==
  \/ \E t \in Tabs : TabSteps(t)
  \/ /\ MarketStays
     /\ \/ \E t \in Tabs, o \in Orders : UserTrades(t, o)
        \/ \E a \in tasks : TaskSteps(a)
        \/ OutsideSteps
        \/ \E g \in 1..MaxAttempts : Attempt(g)
        \/ SessionSteps
  \/ InMarket(MarketSteps)

\* The wallet answers or refuses every request, or the time of withTimeout is
\* up; the matcher answers some request of each kind, messages arrive, and the
\* browser's timers fire.
Fairness ==
  /\ \A g \in 1..MaxAttempts : WF_vars(Attempt(g) /\ MarketStays)
  /\ \A f \in Periodic : WF_vars(InMarket(Fetched(f))) /\ WF_vars(InMarket(Refresh(f)))
  /\ WF_vars(InMarket(Heard))

Spec == Init /\ [][Next]_vars /\ Fairness

-----------------------------------------------------------------------------
(* Property *)

\* Once the market is left alone, what a page shows of each part whose timer
\* runs becomes and stays what the matcher would answer, whatever was lost,
\* failed or overtaken before (use-market-data.ts: the timers are "a
\* reconciliation safety net against a missed WS message").
MarketHeals ==
  <>[]("market" \in mounted =>
         \A f \in intervals : \A part \in Fetches[f] :
           part \in DOMAIN page /\ page[part] = Current(part))
=============================================================================
