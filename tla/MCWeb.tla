-------------------------------- MODULE MCWeb -------------------------------
(* Scenes for TLC: trading in two tabs, cancelling, a cache, and a session. *)
EXTENDS Web, TLC

CONSTANTS home, t1, t2, order

MCSupported == {"preprod", "preview"}
MCForeign == {"mainnet"}

Stranger == [remembered |-> FALSE, persisted |-> NoNet, walletNet |-> "preprod"]
Regular == [remembered |-> TRUE, persisted |-> "preprod", walletNet |-> "preprod"]

\* What somebody may do, once each.
By(who, what) == [w \in {who} \X what |-> 1]

TradeScenes ==
  {[profiles |-> {Stranger}, sockets |-> {},
    wishes |-> By(t1, {"submit", "reload", "approve"}) @@ By(t2, {"reload", "approve"})
               @@ By(World, {"accept", "lapse", "settle"})
               @@ (<<World, "fate">> :> 3 @@ <<World, "fail">> :> 2)],
   [profiles |-> {Stranger}, sockets |-> {t1, t2},
    wishes |-> By(t1, {"submit", "cancel", "reload"}) @@ By(t2, {"approve"})
               @@ By(World, {"accept", "fail", "lapse"})],
   [profiles |-> {Stranger}, sockets |-> {t2},
    wishes |-> By(t1, {"submit", "cancel"}) @@ By(t2, {"list", "drop"})
               @@ By(World, {"accept", "settle"}) @@ (<<World, "fate">> :> 3)],
   [profiles |-> {Regular}, sockets |-> {},
    wishes |-> By(home, {"submit", "approve", "disconnect", "poll", "connect"})
               @@ By(World, {"accept", "fail", "lapse"})
               @@ (<<home, "open">> :> 2 @@ <<home, "reload">> :> 1)],
   [profiles |-> {[Regular EXCEPT !.persisted = "preview"]}, sockets |-> {},
    wishes |-> By(home, {"open", "connect", "disconnect", "switch", "poll", "submit"})
               @@ By(World, {"fail"})],
   [profiles |-> {Stranger}, sockets |-> {},
    wishes |-> By(home, {"open", "disconnect", "switch", "poll"}) @@ By(World, {"move"})
               @@ (<<home, "connect">> :> 2)],
   [profiles |-> {Stranger}, sockets |-> {},
    wishes |-> By(home, {"open", "disconnect"}) @@ By(World, {"move"})
               @@ (<<home, "connect">> :> 2 @@ <<home, "poll">> :> 2)],
   [profiles |-> {Stranger}, sockets |-> {},
    wishes |-> By(home, {"open", "connect", "switch"})
               @@ (<<World, "move">> :> 2 @@ <<home, "poll">> :> 3)]}

\* Two asks at one price, and a bid that meets one.
MCTerms ==
  [ask1 |-> [side |-> "SELL", price |-> 2, amount |-> 1],
   ask2 |-> [side |-> "SELL", price |-> 2, amount |-> 2],
   bid |-> [side |-> "BUY", price |-> 3, amount |-> 1]]

\* One timer of the market page at a time.
MarketScene(already, timers, granted) ==
  [profiles |-> {Stranger}, sockets |-> {home}, open |-> already,
   intervals |-> timers, wishes |-> granted]
MarketScenes ==
  {MarketScene({"ask1"}, {"refreshOrderBook"},
               By(home, {"mount", "drop", "redial"}) @@ By("ask1", {"close"}) @@ By("ask2", {"place"})),
   MarketScene({"ask1"}, {"refreshOrderBook"},
               By(home, {"mount"}) @@ By("bid", {"place"}) @@ By(World, {"lose"})),
   MarketScene({"ask1"}, {"refreshStats"}, By(home, {"mount"}) @@ By("bid", {"place"})),
   MarketScene({"ask1"}, {"refreshStats"}, By(home, {"mount", "chart"}) @@ By("ask1", {"fill"})),
   MarketScene({}, {"refreshTreasury"},
               By(home, {"unmount", "reload"}) @@ By(World, {"fund"})
               @@ (<<home, "mount">> :> 2))}

MCScenes ==
  MarketScenes \cup
  {[profiles |-> s.profiles, sockets |-> s.sockets, wishes |-> s.wishes,
    intervals |-> {}, open |-> {}] : s \in TradeScenes}
=============================================================================
