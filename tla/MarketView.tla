----------------------------- MODULE MarketView -----------------------------
(***************************************************************************)
(* The market of one asset and the page that shows it.  Other traders'     *)
(* orders rest at the matcher, meet, end or are filled by the protocol;    *)
(* the trade page fetches order book, trades, statistics and treasury once *)
(* and follows them by messages and by an interval each                    *)
(* (use-market-data.ts), and its chart the trades (use-candles.ts).        *)
(* Requests are read when the matcher gets to them and applied when the    *)
(* answer is in, which may be after a later one's.                         *)
(***************************************************************************)
EXTENDS Integers, Sequences, FiniteSets, FiniteSetsExt

CONSTANTS
  Others,     \* orders other traders may place
  Terms,      \* [side, price, amount] of each
  Prices,     \* what the protocol may quote
  MaxTrades,  \* how much of the trade tape is kept
  MaxCalls    \* bound: requests of a kind under way at a time

ASSUME MarketConstants ==
  /\ IsFiniteSet(Others)
  /\ Terms \in [Others -> [side: {"BUY", "SELL"}, price: Nat \ {0},
                           amount: Nat \ {0}]]
  /\ Prices \subseteq Nat \ {0}
  /\ MaxTrades \in Nat \ {0} /\ MaxCalls \in Nat \ {0}

VARIABLES
  unplaced,   \* orders nobody has placed yet
  resting,    \* the open ones
  trades,     \* the matches table, oldest first
  liquidity,  \* how often the treasury has changed
  feed,       \* messages on their way to the page
  calls,      \* requests of the page under way
  page,       \* what it shows of each part, those it has
  notice,     \* "loading", "failed" or neither
  mounted     \* the hooks on screen: of the market, and of its chart

marketVars ==
  <<unplaced, resting, trades, liquidity, feed, calls, page, notice, mounted>>
placeVars == <<unplaced, resting, trades, liquidity>>
pageVars == <<calls, page, notice, mounted>>
MarketStays == UNCHANGED marketVars

NoPrice == 0     \* null
NoTx == 0        \* the transaction of a protocol fill, always null

MarketInit(open) ==
  /\ resting = open /\ unplaced = Others \ open /\ trades = <<>> /\ liquidity = 0
  /\ feed = <<>> /\ calls = {} /\ page = <<>>
  /\ notice = "" /\ mounted = {}

-----------------------------------------------------------------------------
(* What the matcher answers *)

LevelOf(o) == <<Terms[o].side, Terms[o].price>>
AtLevel(open, l) == {o \in open : LevelOf(o) = l}

\* buildOrderBookSnapshot: a level is a side and a price, whose order is theirs.
Levels(open) ==
  [l \in {LevelOf(o) : o \in open} |->
     [amount |-> MapThenSumSet(LAMBDA o : Terms[o].amount, AtLevel(open, l)),
      orderCount |-> Cardinality(AtLevel(open, l))]]

Latest(tape) == SubSeq(tape, 1, IF Len(tape) < MaxTrades THEN Len(tape) ELSE MaxTrades)
NewestFirst(ts) == [i \in 1..Len(ts) |-> ts[Len(ts) + 1 - i]]

NoStats == [openPrice |-> NoPrice, lastPrice |-> NoPrice, high |-> NoPrice,
            low |-> NoPrice, volumeBase |-> 0, tradeCount |-> 0]

\* getMarketStats, over a window that holds every trade.
StatsOf(ts) ==
  LET prices == {ts[i].price : i \in 1..Len(ts)} IN
  IF ts = <<>> THEN NoStats
  ELSE [openPrice |-> ts[1].price, lastPrice |-> ts[Len(ts)].price,
        high |-> Max(prices), low |-> Min(prices),
        volumeBase |-> MapThenSumSet(LAMBDA i : ts[i].amount, 1..Len(ts)),
        tradeCount |-> Len(ts)]

Current(part) ==
  CASE part = "orderBook" -> Levels(resting)
    [] part \in {"trades", "chart"} -> Latest(NewestFirst(trades))
    [] part = "stats" -> StatsOf(trades)
    [] part \in {"treasury", "ppmStatus"} -> liquidity

-----------------------------------------------------------------------------
(* The matcher *)

Tells(hears, messages) == feed' = IF hears THEN feed \o messages ELSE feed

Crosses(o, m) ==
  /\ Terms[o].amount = Terms[m].amount
  /\ \/ Terms[o].side = "BUY" /\ Terms[m].side = "SELL"
        /\ Terms[o].price >= Terms[m].price
     \/ Terms[o].side = "SELL" /\ Terms[m].side = "BUY"
        /\ Terms[o].price <= Terms[m].price

Created(o) == [type |-> "order.created", order |-> o]

\* submitOrder: the order rests, or meets one that rests: which, and when none
\* will do (its own owner's, an expired one), is the subject of Matching.tla.
Place(o, hears) ==
  /\ o \in unplaced /\ unplaced' = unplaced \ {o}
  /\ UNCHANGED <<liquidity, pageVars>>
  /\ \/ /\ resting' = resting \cup {o} /\ UNCHANGED trades
        /\ Tells(hears, <<Created(o)>>)
     \/ \E m \in resting :
          LET sell == CHOOSE s \in {o, m} : Terms[s].side = "SELL"
              trade == [id |-> Len(trades) + 1, price |-> Terms[sell].price,
                        amount |-> Terms[o].amount]
          IN /\ Crosses(o, m)
             /\ resting' = resting \ {m} /\ trades' = Append(trades, trade)
             /\ Tells(hears, <<Created(o), [type |-> "order.matched", trade |-> trade]>>)

\* cancelOrder, or materializeExpiry.
Close(o, hears) ==
  /\ o \in resting /\ resting' = resting \ {o}
  /\ Tells(hears, <<[type |-> "order.cancelled", order |-> o]>>)
  /\ UNCHANGED <<unplaced, trades, liquidity, pageVars>>

\* reconcileProtocolFill: the fill is announced, at the price of the quote, and
\* kept in no table.
FillByProtocol(o, price, hears) ==
  /\ o \in resting /\ resting' = resting \ {o}
  /\ IF Terms[o].side = "BUY" THEN price <= Terms[o].price ELSE price >= Terms[o].price
  /\ Tells(hears, <<[type |-> "order.filled",
                    trade |-> [id |-> NoTx, price |-> price,
                               amount |-> Terms[o].amount]]>>)
  /\ UNCHANGED <<unplaced, trades, liquidity, pageVars>>

\* Funding, a reservation or its release is announced once it is on the chain;
\* the execution of a quote by its user's wallet is not.
MoveTreasury(hears) ==
  /\ liquidity' = liquidity + 1
  /\ Tells(hears, <<[type |-> "treasury"]>>) \/ UNCHANGED feed
  /\ UNCHANGED <<unplaced, resting, trades, pageVars>>

-----------------------------------------------------------------------------
(* Requests *)

Fetches ==
  [loadSnapshot |-> {"orderBook", "trades", "stats"},
   refreshTreasury |-> {"treasury", "ppmStatus"},
   refreshOrderBook |-> {"orderBook"},
   refreshStats |-> {"stats"},
   loadTrades |-> {"chart"}]

\* Slip: the treasury is only read again when a message says so.
PeriodicButTreasury == {"refreshOrderBook", "refreshStats"}
Periodic == {"refreshOrderBook", "refreshStats", "refreshTreasury"}

Free(f) == {n \in 1..MaxCalls : \A c \in calls : c.fetch = f => c.slot # n}
NewCall(f) == [fetch |-> f, slot |-> CHOOSE n \in Free(f) : TRUE, got |-> <<>>]

\* Requests go out while others are under way.
Requests(fetches, under) ==
  /\ \A f \in fetches : Free(f) # {}
  /\ calls' = under \cup {NewCall(f) : f \in fetches}

Updated(old, new) ==
  [p \in DOMAIN old \cup DOMAIN new |-> IF p \in DOMAIN new THEN new[p] ELSE old[p]]

Unread(c) == Fetches[c.fetch] \ DOMAIN c.got

\* The matcher answers one of the requests Promise.all waits for.
Read(c) ==
  /\ \E part \in Unread(c) :
       calls' = (calls \ {c}) \cup
         {[c EXCEPT !.got = Updated(@, [p \in {part} |-> Current(p)])]}
  /\ UNCHANGED <<placeVars, feed, page, notice, mounted>>

\* loadSnapshot goes on to the treasury, whether it failed or not.
CallOver(c) ==
  /\ IF c.fetch = "loadSnapshot" THEN Requests({"refreshTreasury"}, calls \ {c})
                                 ELSE calls' = calls \ {c}
  /\ UNCHANGED <<placeVars, feed, mounted>>

Apply(c) ==
  /\ Unread(c) = {} /\ CallOver(c)
  /\ page' = Updated(page, c.got)
  /\ notice' = IF c.fetch = "loadSnapshot" THEN "" ELSE notice

Lose(c) ==
  /\ CallOver(c) /\ UNCHANGED page
  /\ notice' = IF c.fetch = "loadSnapshot" THEN "failed" ELSE notice

Tick(f) ==
  /\ "market" \in mounted /\ Requests({f}, calls)
  /\ UNCHANGED <<placeVars, feed, page, notice, mounted>>

-----------------------------------------------------------------------------
(* The page *)

\* useMarketData begins from nothing.
Mount ==
  /\ "market" \notin mounted /\ mounted' = mounted \cup {"market"}
  /\ Requests({"loadSnapshot"}, calls)
  /\ page' = Updated(page, [p \in {"trades"} |-> <<>>]) /\ notice' = "loading"
  /\ UNCHANGED <<placeVars, feed>>

\* So does useCandles, beside it on the trade page.
MountChart ==
  /\ "chart" \notin mounted /\ mounted' = mounted \cup {"chart"}
  /\ Requests({"loadTrades"}, calls)
  /\ page' = Updated(page, [p \in {"chart"} |-> <<>>])
  /\ UNCHANGED <<placeVars, feed, notice>>

\* The effects' clean-up: what is still under way changes nothing any more.
Leave ==
  /\ mounted' = {} /\ calls' = {} /\ page' = <<>> /\ notice' = ""
  /\ UNCHANGED placeVars
Unmount == mounted # {} /\ Leave /\ UNCHANGED feed
ReloadMarket == Leave /\ feed' = <<>>
DropFeed == feed' = <<>> /\ UNCHANGED <<placeVars, pageVars>>

Without(book, l) == [k \in DOMAIN book \ {l} |-> book[k]]

applyLevelDelta(book, o, sign) ==
  LET l == LevelOf(o)
      was == IF l \in DOMAIN book THEN book[l] ELSE [amount |-> 0, orderCount |-> 0]
      next == [amount |-> was.amount + sign * Terms[o].amount,
               orderCount |-> was.orderCount + sign]
  IN IF next.amount <= 0 \/ next.orderCount <= 0
     THEN Without(book, l)
     ELSE Updated(book, [k \in {l} |-> next])

\* Null does not bound a price.
applyTradeToStats(s, t) ==
  [openPrice |-> IF s.openPrice = NoPrice THEN t.price ELSE s.openPrice,
   lastPrice |-> t.price,
   high |-> IF s.high = NoPrice \/ t.price > s.high THEN t.price ELSE s.high,
   low |-> IF s.low = NoPrice \/ t.price < s.low THEN t.price ELSE s.low,
   volumeBase |-> s.volumeBase + t.amount,
   tradeCount |-> s.tradeCount + 1]

OntoTape(tape, t) == Latest(<<t>> \o SelectSeq(tape, LAMBDA u : u.id # t.id))

\* What a message does to a part the page has.
Adjusted(m, part) ==
  CASE part = "orderBook" /\ m.type = "order.created" ->
         applyLevelDelta(page[part], m.order, 1)
    [] part = "orderBook" /\ m.type = "order.cancelled" ->
         applyLevelDelta(page[part], m.order, -1)
    [] part = "stats" /\ m.type \in {"order.matched", "order.filled"} ->
         applyTradeToStats(page[part], m.trade)
    [] part \in {"trades", "chart"} /\ m.type \in {"order.matched", "order.filled"} ->
         OntoTape(page[part], m.trade)
    [] OTHER -> page[part]

Refreshed(m) ==
  CASE "market" \notin mounted -> {}
    [] m.type \in {"order.matched", "order.filled"} -> {"refreshOrderBook"}
    [] m.type = "treasury" -> {"refreshTreasury"}
    [] OTHER -> {}

\* The listeners of subscribeMessages; a hook that is not mounted has no part.
Receive ==
  /\ feed # <<>> /\ feed' = Tail(feed)
  /\ page' = [part \in DOMAIN page |-> Adjusted(Head(feed), part)]
  /\ Requests(Refreshed(Head(feed)), calls)
  /\ UNCHANGED <<placeVars, notice, mounted>>
=============================================================================
