# ZEKURA: models and proofs

ZEKURA is an order exchange on Midnight. Wallets commit to private orders on a
Compact contract; a matcher process keeps the book, pairs orders and settles
them on the chain; what finds no user counterparty may be filled by the
protocol's own treasury (the PPM, protocol-provided market making). A web app
trades from the browser; an operator's scripts deploy, mint and fund. This
directory holds TLA+ models of these programs, model-checked with TLC on small
instances and, where marked, proved with TLAPS for every value of the
constants. Paths below are under `src/`.

## 1. The system

| Component | State it keeps | Operations | Talks to |
|---|---|---|---|
| Exchange contract `contracts/exchange.compact` | `orders`, `settledPairs`, `eventLog`, `treasuryBalances`, `treasuryReserved`, `admins`, `treasuryHistory`, `reservations`, coins | circuits `createOrder` ... `settleWithProtocol` | called by wallets, matcher, admins; read by everybody through the indexer |
| Order book and matching `matcher/src/orderbook`, `matcher/src/matcher` | per asset and side, price levels with FIFO queues | `add`, `remove`, `findMatch` (a generator over live arrays) | called by OrderService |
| OrderService `matcher/src/services/OrderService.ts` | `orders` and `matches` tables, the book | `submitOrder`, `cancelOrder`, `materializeExpiry`, the claim transaction, `reconcileProtocolFill` | reads the chain; hands matches to SettlementService; asks PPMService to fill |
| SettlementService, SettlementQueue, SettlementClient | `settlements` table, in-flight jobs | attempt, retry, verdict, recovery at start | submits `settle()`, reads the chain |
| PPMService, TreasuryClient | `ppm_reservations` table | `attemptFill`, `sweepExpiredReservations`, `markReservationExecuted` | submits `reserveLiquidity`, `releaseExpiredLiquidity` |
| PricingEngine, MarketDataService | none (pure over a snapshot) | `quote`, `getSnapshot` | PPMService |
| Admin routes, bootstrap prices `matcher/src/api`, `matcher/src/repository` | challenges in memory, treasury history and bootstrap price tables | challenge, deposit, withdraw | TreasuryClient |
| HTTP routes, SocketServer | subscriptions | routing, broadcast | OrderService, web |
| Web trading flow `web/src/hooks`, `web/src/services` | witness data and pending settlements in localStorage, a cache of orders per tab | submit, cancel, settle with the protocol, recover after a reload | contract, matcher, the other tabs through localStorage |
| Market data `web/src/hooks/use-market-data.ts`, `use-candles.ts` | what the page shows of order book, trades, statistics and treasury; requests under way | fetch once, apply deltas from messages, refetch on messages and by timer | market and treasury routes, SocketServer |
| Web wallet and network `web/src/wallet`, `web/src/network` | the session, its attempts, the network of app and wallet | connect, reconnect, switch, poll, disconnect | extension wallet, trading flow |
| Operator wallet `src/wallet.ts`, `src/wallet-state.ts` | per network, one file per child wallet and a fingerprint of the seed | create or restore, sync, checkpoint | network |
| Network state and scripts `src/*.ts`, `scripts/` | `.midnight-state.json`, `.midnight-tzkr.json` | resolve network, seed and secret; deploy, record, mint, fund, check | contracts, matcher |
| tZKR token `contracts/tzkr-token.compact` | owner | mint, owner only | operator |

What is hard here, and what makes each part correct:

* **Contract.** Money and life cycles: an order is consumed once, by one of two
  circuits; a reservation is opened and closed once; balances equal coins; what
  is reserved is there. Circuits run alone, so this is about *sequences* of
  calls, and about arithmetic (`Uint<128>`, the field).
* **Matching.** One `await` per submission (the chain read), several of them in
  flight, expiries that evict from arrays being walked, a crash after which the
  book is rebuilt from the table. Correct: the book is the table's OPEN orders,
  an order is claimed once, price-time priority.
* **Settlement.** A call may fail after its transaction was submitted; the
  transaction may land between the reads that decide its match's fate; owners
  cancel and expire meanwhile; the process crashes between two writes. Correct:
  no false fill, no split pair, no forgotten match, in the end a verdict.
* **PPM.** A quote spans three awaits during which the order may be matched,
  cancelled or expire; replies are lost; the contract does not tie a reservation
  to the order it was quoted for; a sweep competes with permissionless release.
  Correct: no false fill, no write-off of liquidity still held, reservations
  close; in numbers, whatever quotes, market and administrator do in between,
  the treasury does not trade below the price a quote started from.
* **Administration.** A challenge kept in memory, a transfer that lands or does
  not, three tables written after it; a bootstrap price that the first match
  retires, while a quote is being made from it. Correct: one answer per
  challenge, only real history, no quote from a retired price.
* **Scripts and wallet files.** Files read at one step and rewritten at a later
  one, by several programs, none of which locks them; a contract is on the chain
  before it is on record. Correct: keys outlive their contracts, records name
  complete contracts and their tokens, a wallet restores from its own seed.
* **Web trading.** An order lives on the chain, in the matcher, in localStorage
  and in the tabs, which are told of each other's doings late, twice or not at
  all. Correct: an order that is open can be managed, a quote is kept until it is
  used, an order is not settled twice.
* **Web wallet.** Attempts that overlap, time out and are granted late; a network
  switch while an order is created. Correct: the app is on its wallet's network,
  a switch ends, nothing survives a disconnect.
* **Market data.** Answers are read at different moments and applied in any order,
  among messages that are newer or older than they are; messages are lost with a
  socket. Correct: a delta is what the matcher would answer, and what went wrong is
  repaired by a timer.

## 2. Modules

| Module | Models |
|---|---|
| `ChainOrders` | Abstract specification: what the contract promises other programs, without money, prices or clocks. Also the *chain* the matcher's modules run against |
| `Exchange` | Every exported circuit of `exchange.compact`, one action each |
| `ExchangeProperties` | Its invariants, `PaymentIsExact`, and the refinement `Exchange => ChainOrders` |
| `OrderBook` | `Bucket`, `OrderBook`, the tests of `PriceTimePriorityStrategy`, and a reference definition of the best counterparty |
| `Matching` | `submitOrder`, the walk of `findMatch`, `cancelOrder`, expiry, claim, crash and rebuild, over `OrderBook` |
| `Settlement` | SettlementService with its queue and client, composed with `ChainOrders` |
| `ProtocolFill` | `attemptFill`, reconciliation and sweep, composed with `ChainOrders` |
| `Pricing` | `PricingEngine.quote` and the coverage checks, in integers |
| `Quoting` | several orders offered to the protocol at once, in prices and amounts, over `Pricing` |
| `TreasuryAdmin` | challenges, deposits and withdrawals with their rows; the bootstrap price, its retirement and the reference price of a quote |
| `StateFiles` | the operator's files, and what the code does to each |
| `Programs` | each program as the sequence of steps of its `main()` |
| `Scripts` | processes running those programs over `StateFiles` and the chain |
| `Operations` | `Scripts`, `TreasuryAdmin` and `Quoting` composed: the matcher is one of the programs |
| `WalletSession` | `WalletProvider`, `NetworkProvider` and the bridge between them, for one tab |
| `WebTrade` | `use-submit-order`, `use-order-actions`, the settlement effect, `matcherClient`'s cache and localStorage, in several tabs |
| `MarketView` | the market of one asset, the routes that answer for it, and `use-market-data` and `use-candles` on a page |
| `Web` | `WalletSession`, `WebTrade` and `MarketView` composed into a browser profile |
| `ExchangeProofs`, `MatchingProofs`, `SettlementProofs`, `ProtocolFillProofs`, `OperationsProofs`, `ScriptsProofs`, `QuotingProofs`, `WebProofs` | Theorems (section 5) |
| `MCExchange`, `MCMatching`, `MCSettlement`, `MCOperations`, `MCWeb` | Small instances |

Definitions whose comment starts with "Slip:" are faulty variants of the
definition that follows them, the way a plausible bug would write it; no
specification uses them. Each is there because substituting it breaks a
property, which is how the properties themselves are tested.

How the models correspond to the code:

* **Exchange.** A circuit whose assert fails leaves no trace, so each circuit is
  one action, its asserts the guard. `Uint<128>` is `0..MaxUint`, with casts and
  subtractions failing outside it; a `Field` product is taken `% FieldOrder`
  before the downcast, in the code's order. A commitment is modelled by the only
  details that open it. `treasuryHistory` keeps, per kind and asset, the total
  of the logged rows. `custody` counts the coins `receiveUnshielded` and
  `sendUnshielded` move; the code has no such variable, and `BalanceIsCustody`
  compares it with the one it has. Time is the block time of `blockTimeGte`.
* **OrderBook, Matching.** `findMatch` walks a JavaScript generator whose positions
  index arrays that `lookup` may splice. `level` and `pos` are those positions, and
  each visit (`Evict`, `TooDear`, `Skip`, `Take`, `NextLevel`, `EndOfBook`) is a
  step: an eviction shifts the queue under them exactly as `splice` does. On its one
  thread the code runs from the await of `submitOrder` to the claim without a
  break, so while a walk is on (`incoming`) no other handler may start; only the
  clock and a crash come between two visits, and a crash between the insert and the
  claim (a database transaction) is the one that separates writes. The rebuild after
  it adds the listed orders one by one (`listed`, `AddListed`), oldest `createdAt`
  first; the server listens afterwards. `createdAt` is taken before the await, so
  arrivals and stamps may disagree. `accepted` and `arrival` number the arrivals and
  `disturbed` says that this walk has evicted somebody; all three are history. A
  chain read that answers "unknown", "not open" or "other commitment" is
  `RejectByChain`, always possible.
* **Settlement.** A transaction is named by its pair and attempt number; it may
  execute or be discarded after its caller stopped listening. `landed` says
  that the current attempt's transaction has executed, which is what the
  awaiting call learns. `callFailed` and `transientError` have one action,
  `ReturnFailed`, because `attemptSettlement` treats them alike. The two reads
  of a failed attempt are separate steps. `CrashBeforeOutcome` is a crash between
  `markOrdersTerminal` and `recordOutcome`. `exhausted` records the warning
  `SettlementQueue.run` logs when it drops a job. Pairs share no order (that is
  `ClaimedOnce` of `Matching`).
* **ProtocolFill.** Each await ends an action. Clocks are the sets `pastOrders`
  and `pastQuotes`. `LoseReply` turns a success into a failure for the caller,
  before or after the transaction executes. `OwnQuotesOnly` states whether
  wallets use only quotes made for their own order; the contract does not
  enforce it. Amounts and prices, which only decide whether a quote is made,
  are left out: `NoQuote` is always possible.
* **Pricing, Quoting.** Prices, amounts and balances are numbers; the skew is the
  code's floor of a floating-point product, exact but for the utilizations in
  `RoundedDown`, where the float falls short of the integer. A deal passes the
  awaits of `attemptFill` one action at a time (`Consult`, `Price`, `ReadNight`,
  `Reserve`), so that market, administrator and other deals move in between.
  `spent` and `mark` are history variables: what has left the treasury, and what
  had when a seller's NIGHT was looked for.
* **TreasuryAdmin.** A request is named by the nonce it answers; its signature is
  left out, as is the text of the message; a request that is refused uses up its
  challenge or, when it is malformed or signed by another, leaves it. `cut` records a crash between the
  claim's transaction and the deletion of the bootstrap price. Trade statistics
  are read before the await of a quote, the price after it.
* **StateFiles, Programs, Scripts.** A program is a sequence of named steps; the
  action of a step is in `Scripts`, what it writes in `StateFiles`. A rewrite of
  a JSON file is read at one step and written at another; a cache is written one
  file at a time, in the code's order. Keys are numbers drawn in order. `lost`,
  `torn` and `overtaken` record the overlaps that the code does not guard
  against, and the properties name them where they matter.
* **Operations.** A process at step `serve` is the matcher; one at a time has the
  port. When it stops, its challenges and unsent quotes are gone. A transfer
  lands only if the secret the matcher read is its contract's administrator.
* **WalletSession.** React's generation counters appear as what they decide: the
  live attempt and the switch whose end is awaited. `setInterval` does not wait for
  the callback before, so several polls may be under way (`ticks`), and end in any
  order. `left` and `ghost` are history: attempts before the last disconnect, and a poll applied after one.
* **WebTrade, Web.** A hook's run is a task with phases, one per await. Storage is
  shared by the tabs, `view` and `shown` are each tab's copies, which the
  `storage` event does not refresh. A transaction may land after its caller gave
  up or its page was reloaded. `wishes` are what users, networks and wallets do
  of their own accord, finitely often in a run. The wallet session of the tab
  `Home` is followed; those of other tabs stay connected.
* **MarketView.** A `call` is one run of `loadSnapshot` or of a refresh: the requests
  its `Promise.all` waits for are answered one at a time, each with what the matcher
  would say then (`Current`), and the result is applied when all are in, in any order
  with other calls and with messages (`feed`, empty when the socket is down). The
  part `trades` is the page's tape, `chart` that of `useCandles`. A level of the
  book is its side and price, which fix its place. Leaving the page makes its calls
  void, as `cancelled` does. `MaxTrades` stands for the 50 (or 500) trades kept, the
  same for the route's limit; `MaxCalls` bounds the calls of a kind under way. The
  statistics' window holds every trade of a run; percentages, candles and the fields
  of the treasury are functions of what is modelled, and are left out (`liquidity`
  counts the treasury's changes). The price of a protocol fill is any of `Prices`
  within the order's limit (`Quoting` says which). `notice` is `loading` and `error`.

## 3. Runs

| Run | Shows | Instance |
|---|---|---|
| `exchange_trade` | An order is consumed once and with a counterparty (`EveryFillHasACounterparty`, `SettledPairsSound`), and the contract implements `ChainOrders` | 3 orders (a crossing pair, a buy only the protocol fills), 1 quote id with two possible terms, 2 time steps; about 560,000 states |
| `exchange_treasury` | Books equal coins, reserved equals the open reservations, the log explains what is reserved, reservations are covered (except in NIGHT) | 2 orders, 2 quotes, the payment asset itself tradable, 2 administrators, amounts 1 and 2, `MaxUint` 3 so that the range checks bite; about 580,000 states |
| `matching` | Book and table agree, FIFO per level until a restart, single claims, matches that `settle()` accepts, best counterparty for arrivals whose search evicts nobody | 5 orders (2 sells at one price, a dearer one, a buy that crosses all and one that does not, 2 amounts, shared owners, staggered expiry), 4 submissions, 1 crash; about 2,217,000 states |
| `settlement` | No false fill, no split pair, no match forgotten in silence, table rows that agree, and every match ends | 1 pair, 1 reservation that may consume either order, 2 attempts, 2 crashes; about 96,000 states |
| `ppm` | No false local fill, no row closed while the chain holds the liquidity, every remembered reservation closes | 2 orders, 1 quote id, 1 crash; about 167,000 states |
| `operations` | No script, stop or restart loses a contract's keys, records an incomplete contract or another token's color, uses another administrator, or restores another seed's wallet; a bootstrap price is retired by the first match, and no quote uses it after; the treasury gets at least the reference price of every quote, and NIGHT promised to a seller is missed only by what has flowed out since | 3 processes, 2 networks, 20 scenes (a fresh machine; a deployed one; a matcher with orders to quote), 3 challenges; quotes of two orders out of three over 10 tokens and 2500 NIGHT, 2 moves of market or administrator; about 1,296,000 states |
| `web` | An open order can be managed by the profile that made it unless its creation broke off; one settlement per tab and order; a quote is kept until it is used, and belongs to us; the effect asks for nothing that had landed; what is shown as over is over. The app is on its wallet's network, a disconnect ends every earlier attempt, no switch during a creation, every switch ends. What a page shows of the market becomes and stays what the matcher would answer (`MarketHeals`) | 3 tabs, 1 order, 3 connection attempts, 2 polls at a time, 2 supported networks and a foreign one, 8 scenes of trading and sessions; 5 scenes of a market of 3 orders (two at one level, one that crosses), 2 calls of a kind at a time; about 788,000 states |

Five runs exhibit a disagreement between the code and what it says of itself:

| Run | Counterexample |
|---|---|
| `exchange_payment` | `amount * price` beyond the field order wraps to a number that passes the 128-bit downcast: the fill moves a fraction of the payment (`exchange.compact:610-613`) |
| `matching_expiry` | Two sells at one price; the first expires; a crossing buy evicts it during the walk, and the walk skips the second (`MatchingStrategy.ts:21-30`, `Bucket.ts:88-93`) |
| `settlement_stuck` | The last attempt's chain read rejects: the job throws, its budget is spent, the orders stay MATCHED until a restart (`SettlementQueue.ts:53-69`) |
| `settlement_late` | The last attempt's transaction lands after (or between) its two reads: settled on the chain, FAILED in the table (`SettlementService.ts:128-154`) |
| `ppm_shared` | Another order executes the reservation; the order it was quoted for is recorded FILLED (`OrderService.ts:314-319`) |

**Bounds.** The contract's properties relate at most two orders, two
reservations and two assets; the third order of `exchange_trade` is one that only a
reservation fills, so that fills of both kinds occur in one run. Matching needs one order before and one behind an evicted one,
an alternative level, and an arrival; a fifth order brings another amount and a
price that does not reach the second level.
Settlement of different pairs shares nothing but the chain's orders, and pairs
are disjoint, so one pair shows what there is; the theorems cover any number.
Two attempts give a first and a last, two crashes a crash during recovery. One
`attemptFill` runs per order in its life, so one quote id suffices to see every
race of a quote; two orders compete for it. A scene of `operations` names the
programs that may run, each once or with one retry: pairs of programs that share
a file, the cache, a contract or the matcher, since each property relates at most
two writers and the state they left. A scene follows either the sources of
prices or the deals made at them, which share only the matcher's stop. The scenes
of deals have two sellers, of one token and of two, whose payments together exceed
the NIGHT, or a buyer and a seller. The smaller seller asks 994: it crosses the 995
that is bid at a reference of 1000 while nothing is reserved, and not the 991 that is
bid while the other order's two tokens are; the larger order is within the exposure
limit only while nothing is reserved. A scene of trading in `web` has one order,
because orders share nothing but the lists they are in, and gives each tab the moves
that can meet; three attempts are a connection, one that supersedes it, and one after
a disconnect; two polls at a time are what it takes for one to be answered after a
later one. A scene of the market follows one timer, since a part is refreshed by
one alone, and lets the orders do what disturbs that part; two calls of a kind are
what it takes for an answer to be overtaken. `MaxNonce`, `MaxMoves`, `MaxAttempts`, `MaxPolls`, `MaxRequests`, `MaxTime`, `MaxSeq`
and `MaxCrashes` bound runs: they appear in guards, and as the sizes of the tables they bound. Deadlock is not checked
in these runs, nor in `operations` and `web`: with every order closed, every
program ended and its bounds used up, the system may stop.

**Fairness.** `settlement` assumes `WF(JobStep(p))`: timers fire and each call or
read of a running process settles one way or the other (not: successfully).
`ppm` assumes weak fairness of the clock, of the sweep (a `setInterval`) and of
its call's return, and strong fairness of executing a release: the sweep submits
it again at every interval, and one that is submitted again and again is executed
in the end. `web` assumes `WF(Attempt(g))` for each connection attempt: the wallet
answers or refuses, or `withTimeout` ends (`WalletProvider.tsx`); the reads
after it (`loadWalletInfo`) are outside `withTimeout`, and are assumed to answer. For `MarketHeals` it assumes that timers fire
(`setInterval`, `use-market-data.ts:256-258`), that messages on an open socket
arrive, and that of the calls of a kind some are answered; which, and how many fail
or are overtaken before, is open.
`operations` assumes nothing. Nothing is assumed of users, owners or other
callers.

## 4. Observed divergences without a run of their own

Reading and modelling met these too. Each follows from the mapped definitions,
but no run is spent on it.

* `settleWithProtocol` (`exchange.compact:637`) checks the NIGHT balance without
  subtracting what is reserved in NIGHT. Hence `ReservationsCovered` excludes
  NIGHT. No circuit refuses NIGHT as an asset, though `exchange.compact:47-48`
  says it never appears there. For the same reason, concurrent SELL quotes may
  all pass one balance check (`PPMService.ts:135`).
* The NIGHT leg of a protocol fill has no row in `treasuryHistory`
  (`exchange.compact:642` against `240-243`).
* `Match.price` is always the sell's price (`MatchingEngine.ts:39`), also when
  the resting order is the buy (comment at `:37`).
* After a restart a level is queued by `created_at`, taken before the chain read,
  not by arrival (`index.ts:393`, `Bucket.ts:7`). The rebuild does not search
  either: an order inserted just before a crash rests beside orders it crosses.
* A crash between `markOrdersTerminal` and `recordOutcome` leaves the settlement
  row PENDING: recovery looks at MATCHED orders only
  (`SettlementService.ts:118`, `:163`). Hence the `crashes = 0` in `RowsAgree`.
* A rejection by a contract assert is retried while both orders read OPEN
  (`SettlementService.ts:144` against `MATCHER.md:77`), and after the last attempt
  such orders become FAILED, not OPEN (`Status.ts:3-6`).
* `attemptFill` does not look at the order again after its awaits
  (`PPMService.ts:154` against `:102-103`), so a MATCHED or CANCELLED order may be
  handed a quote.
* `getOrderReconciled` expires an order before it looks for a fill that preceded
  the expiry (`OrderService.ts:361-366`).
* A `reserveLiquidity` call that throws after its transaction was submitted leaves
  liquidity reserved without a local row (`PPMService.ts:149`); nothing sweeps it.
* A reservation released by somebody else keeps its local row OPEN: the sweep's own
  release fails at every interval (`PPMService.ts:219`).

Pricing and administration:

* With integer prices the base spread of 50 bps is 0 for a reference price below
  200, though `PricingEngine.ts:10` says it is applied regardless of inventory.
  Hence `FairToTreasury` says "at least", not "more".
* The skew is a floor of floats (`PricingEngine.ts:63`), which for some
  utilizations (1450, 2850, 2900, 5650, 5700, 5750, 5800 bps) is one less than
  the exact number, though `PricingEngine.ts:5-7` says no floats touch a price.
* A SELL quote reserves tokens the protocol is about to receive, so that buying
  needs token inventory. The exposure limit is per quote: overlapping quotes may
  each take a fifth of the same available liquidity.
* `bootstrapPriceRepo.clear` (`OrderService.ts:292`) runs after the claim's
  transaction: a crash in between leaves a price and a trade, which
  `MarketDataService.ts:71-74` and the schema say cannot coexist. `cut` in
  `BootstrapRetired` and `QuotedFromTrade` names it.
* A token without a trade for 24 hours has no last price
  (`OrderService.getMarketStats`) and no bootstrap price either, though
  `admin.ts:69-71` says a price is retired forever by real trading.
* A deposit that lands while the process stops has no row and no bootstrap price
  (`admin.ts:73`); its challenge is used up.

Scripts and files:

* The two JSON files are read and rewritten without a lock: of two programs, one
  undoes what the other wrote in between (`network.ts:113`). `lost` in `KeysKept`,
  `AdministratorKnown` and `ColorMatchesAddress` names it: a secret that was lost
  this way leaves a contract without its administrator.
* A mint merges its color into whatever token record the file has by then
  (`tzkr-state.ts:78-85`), also when the token was deployed anew since it read the
  record. `overtaken` in `ColorMatchesAddress` names it.
* `persistWalletState` skips a child that fails to serialise, and writes the
  fingerprint of the new seed all the same (`wallet.ts:294-310`), so that a
  child's file may be another seed's. `torn` in `RestoredIsOurs` names this, a
  save cut short, and a save that meets another save or a load.
* `npm run clean` deletes `.midnight-state.json` and leaves `.midnight-tzkr.json`.
* `getOrCreateSeed` also switches the active network when it generates a seed.
* A matcher keeps serving the contract it started with after a redeployment.
* The two deposits of `seed-treasury.ts:130` are independent; the first may land
  alone.

Web:

* A poll that began before a disconnect, and is applied after it, shows
  "connected" without a session, and reports its network
  (`WalletProvider.tsx:178-191`). `ghost` in `AppFollowsWallet` names it.
* `connectingWalletId` stays set when a disconnect supersedes an attempt
  (`WalletProvider.tsx:260-299`): no connection is possible until a reload.
* `orderStore` keeps an order's details only once the matcher has replied, though
  its comment says "every order this profile has created". An order whose creation
  broke off before is open and cannot be cancelled by its owner
  (`interrupted` in `OrphanIsInterrupted`).
* After a reload the settlement effect runs with what was rendered before the
  wallet reconnected, fails ("Connect your wallet"), and `started` prevents
  another try; the button still works. The effect runs again at every wallet
  poll, which cancels a freshness retry. An order whose cancellation the matcher
  was not told of is still asked for.
* Entries of expired quotes stay in `pendingSettlements` until they are checked.
* A polled list shows a closed order OPEN again when it was read before the event
  (`matcherClient.ts:167`); hence `ShownClosedIsClosed` has one direction only.
* The trade tape and the chart have no timer. A trade whose message is lost with the
  socket, or that is told before an older `/trades` answer is applied, is missing from
  them until the page is opened again, although the timers are there "against a
  missed WS message" (`use-market-data.ts:18-21`). Hence `MarketHeals` is about the
  parts a timer refreshes.
* Protocol fills are announced with `txId: null` (`OrderService.ts:337`;
  `web/src/types/matcher.ts:159` says string), which the page takes for the trade's
  id: the tape keeps one of them, the last, though `use-market-data.ts:220-226` says
  the fill is appended. They have no row in `matches`, so the next refresh takes them
  out of the statistics again, and a reload out of the tape.
* `error` is cleared by a snapshot alone: after a first one that failed, the page
  keeps showing it beside the data the timers have brought
  (`use-market-data.ts:143-147`, `:168`).
* Cancellation and settlement do not call `setTxPending`: a network switch may run
  meanwhile (`networkBridge.ts:79`). `SwitchAndTxExclude` is about creations.

## 5. Theorems

All are of the form `Spec => []P` or `Spec => [][A]_vars`, or say that a module
refines another (`ExchangeImplementsChainOrders`, `SettlementRunsOnTheContract`,
`FillRunsOnTheContract`); three are about operators (`CreationIsExact`,
`RemovalIsExact`, `TradeIsExact`). Three have a hypothesis: `LocalFillsAreReal` and
`ClosedRowsAreRealToo` assume `OwnQuotesOnly`, `PaymentsAreExact` assumes
`TermsFitField`; a run shows that it fails without. They hold for every value of the
constants that satisfies the named assumptions: `ExchangeConstants` (sets are of
their types, `Night` is an asset, `MaxUint` a number), `SettlementConstants`
(pairs of two different orders, no two sharing one, at least one attempt),
`ProtocolFillConstants` (`None` is neither an order nor a quote),
`PricingConstants` and `QuotingConstants` (numbers are numbers, an exposure limit
of at most all, `RoundedDown` only where the exact product is a positive whole
number, so that falling one short stays a number), `AdminConstants`,
`StateFileConstants`, `ScriptsConstants` (what an operator starts is one of the
programs, on a known network), `OrderBookConstants` (orders have their fields),
`MarketConstants` (finitely many orders, whose prices and amounts are positive),
`OperationsConstants`, `SessionConstants` and `WebConstants`
(special values are outside the sets they are special to).

* `TypeCorrect`: the ledger's types, balances within `Uint<128>`, never an empty
  set of administrators. One lemma per group of circuits;
  `ProtocolFillMovesMoney` treats the case that the traded asset is NIGHT apart.
* `BalancesAreBacked`, `HistoryIsFaithful`, `NonNightSolvent`: from
  `TreasuryInv == BalanceIsCustody /\ HistoryExplainsReserved /\ ReservationsCovered`,
  inductive together with `TypeOK`. Solvency needs the guards of withdrawal and
  reservation, and that an execution lowers balance and reserve alike.
* `EventLogIsFaithful`, `SettledPairsAreSound`: each inductive with `TypeOK`.
* `ReservedIsWhatIsOpen`, `FillsAreMatched`: a sum and a count over sets that a circuit
  changes in one element. A sum over a finite set is a fold, which is defined by
  choosing an element; that adding or removing any other element changes it by that
  element's amount is proved by a least failing cardinality instead of an induction
  rule. `ReservedInv` adds that the open reservations are finitely many, `CountInv`
  that the filled orders, settled pairs and executed quotes are.
* `EntriesAreKept`: an entry of the `orders` or `reservations` Map keeps the commitment or the
  terms it was made with, and is not written again once it has left OPEN.
* `PaymentsAreExact`: while no reservation's product leaves the field
  (`TermsFitField`), every fill of `settleWithProtocol` moves exactly amount times
  price. The run `exchange_payment` shows a fill that does not; together they say
  that the modulus is the only way to pay wrongly. It needs that a reservation holds
  the terms it was offered on (`TermsAreOffered`).
* `ExchangeImplementsChainOrders`: the refinement; each circuit maps to one step of
  `ChainOrders` or to a stutter. It is what entitles the matcher's modules to use
  `ChainOrders` for the contract.
* `MatchingInductive`: `MatchingInv`, for any number of orders, prices, crashes and
  concurrent submissions. `BookInv`: each side of the book is sorted, has no empty
  level, and holds exactly the waiting orders, each once, at its price. Its lemmas are about
  `AddTo` and `RemoveFrom` on any sequence of levels (what is inserted, removed, still
  sorted). `QueuesInv`: who is ahead in a queue arrived before. `WalkInv`: as
  long as the walk has evicted nobody, whoever it has passed is nobody the order may
  trade with; this is what an eviction breaks, and what makes the order it takes the
  best by price, then by arrival (`PriceTimePriority`; the reference chooses a least
  arrival, which exists because numbers are well-founded). `ClaimInv`: matched rows are
  the orders of the matches, each of one. `ThreadInv`: a walk, a start and the
  handlers exclude each other. From it `BookMirrors`, `QueuesKeepArrivalOrder`,
  `NoDoubleClaim`, `MatchesSettle`.
* `SettlementTypes`: types, so that no job passes its budget.
* `FillsAreReal`: a FILLED order is FILLED on the chain. It is not inductive by
  itself: the verdict rests on what a job has learnt earlier. `FilledInv` adds
  `FilledEvidence`: a landed transaction filled both orders, and a fill once
  read is still there. `FillsLast` (no step undoes a fill) carries both.
* `LegsMoveTogether`: the orders of a match share their fate; it needs disjoint
  pairs.
* `ClaimsAreNotForgotten`: a claimed match has a job until the queue logs that it
  gave up, from `InFlightInv == TypeOK /\ LegsAgree /\ ClaimedIsInFlight`
  (recovery looks at both orders, the property at one: `LegsAgree` links them).
* `RowsTellOrders`: a settlements row never contradicts its orders, with any number
  of crashes between the two writes. `RowsInv` adds `JobsAreClaimed` (jobs work on
  MATCHED pairs only, so a verdict never meets an order that has one), which
  recovery restores by `LegsAgree`.
* `VerdictsAreFinal`: neither a row nor an order with a verdict is written again, by a
  late or repeated attempt or by a job a restart made for a match whose outcome was
  half written. From it and the above, `SuccessIsReal`: a row that says SUCCESS
  stands for two fills on the chain.
* `SettlementsAreClaimed`: the chain never settles a pair the matcher's tables do not
  record as a match. `ClaimedInv` adds to `RowsInv` that every call under way and
  every transaction in flight is for a recorded match; a transaction may outlive
  the process that sent it, its record outlives both.
* `SettlementRunsOnTheContract`, `FillRunsOnTheContract`: every step of `Settlement` and
  of `ProtocolFill` is a step of `ChainOrders` or leaves the chain alone. With
  `ExchangeImplementsChainOrders` the contract and the two halves of the matcher meet
  at the same abstract chain: neither module gives the chain a step the contract
  does not have.
* `FillTypes`, then `BooksAreKept`, which holds whichever reservations the wallets use,
  the run `ppm_shared` included. `Books`: quote ids are drawn once (`QuotesAreFresh`), a quote
  and an order have at most one row (`RowsAreUnique`), replies and pending reads speak
  the truth (`AnswersAreTrue`), and a row RELEASED is released on the chain
  (`GivenBackIsReal`, also as the theorem `GivenBackIsReleased`). From it `RowsAreFinal`: a
  row keeps its order, and once closed is not written again.
* `LocalFillsAreReal` and `ClosedRowsAreRealToo`, both under `OwnQuotesOnly` (the run
  `ppm_shared` shows that the first fails without it). Either read of a
  reconciliation is evidence for two facts: the order is FILLED and its reservation
  EXECUTED. `Fills` makes them one: an executed reservation filled the order of its
  row, and a resting order that is filled was filled by its own
  (`FillsUseOwnQuotes`). Only this half needs the hypothesis.

* `AdministrationSafe`: `AdminInv`, inductive under every step of `Operations`.
  From it `HistoryIsReal` (every row of the local treasury history is on the
  chain), `OnlyTheNewestIsAnswered` (an accepted request answers the newest
  challenge, once), `PriceIsRetired` and `QuotesFollowTrades`. A quote reads
  statistics and price at different moments: the invariant relates what it has
  read to what may have happened since.
* `FilesInvariant`: `ScriptsInv`, for any number of processes, networks and
  circuits. Its first half is about the programs alone (`ProgramsAreWhole`): in each
  of them the network comes first, `seed` and `secret` come before any deployment,
  and `record` comes right after the step that completes a contract (`Whole`). The
  invariant says the same of what a process has left, so that what it still has to
  do decides what it must hold by now (`Ready`, `OnChain`); that its keys are on
  file or in the rewrite it is in the middle of (`Kept`); and that a rewrite of the
  state file drops no key it was read with (`SavesWell`). From it
  `RecordsAreComplete`, `KeysStay` and `AdministratorsKnown`: the last needs that the
  secret a contract was deployed with and the one a program read later are both the
  one on file, which no save changes once it is there.
* `WalletsAreTheirOwn`: `CachesInv` says, for every network without a torn save, that
  the files a save has written are its wallet's and that a cache nobody is writing
  belongs to one seed; the order in which a program takes its steps (network, seed,
  wallet, persist: `Orderly`) makes the wallet that is saved the seed's.
* `ColorsMatch`: `TokensInv` follows the one program that mints, from the address it
  read to the two saves: unless a deployment overtook it, the contract it minted is
  still the one on file.
* `QuotingSafe`: `QuotingInv`, with `PricedSafely` (a deal's price is on the
  treasury's side of its own reference price, whatever has moved since) and the
  promise to sellers. The first needs `PriceAt` to be at or above the reference for
  a buyer and at or below it for a seller, for every spread, skew and
  utilization, floats included: a lemma about floors of divisions. Then
  `TreasuryTradesFairly` and `PromisesAreMissedByOutflow`, for any number of
  orders, amounts and prices.
* `TakersTradeFairly` is the other side of the same fill: what it gains the treasury is
  at most its amount times (base spread + whole inventory skew) at the quote's
  reference price, and the price is within the order's limit. `TakerInv` says it of
  every outstanding deal (`QuotedWithinSpread`) and needs `HeldIsInStock`: utilization is at most
  all, because what is held for quotes is in stock, so that the skew never exceeds its
  maximum (`WidestSpread`).
* `ProfileSafe`: the inductive invariant of a browser profile, session and trading.
  `SessionTyped`, `TradeTyped`; `StaleAttemptsEnd` (from: the live attempt is
  newer than every one a disconnect left behind), `AppOnWalletsNetwork` (every
  read is reported, and nothing else moves the app while a session is held),
  `NoSwitchDuringCreation` (either side refuses while the other is under way),
  `OrdersAreKnown`, `SettledOnceAtATime`, `PendingCanBeSettled`,
  `LandedIsNotAskedAgain`: each for any number of tabs, orders and attempts.
* `ShownEndsAreReal`: a message of an order's end is still true when it arrives
  (`EndsTold`), since an end is final and lists only ever say OPEN.
* `QuotesStayPending`: `QuotesInv`. A quote's message may only be ignored by a tab that
  does not know the order; `OfferComesFirst` (while an order is on offer nobody has
  heard of its quote) and `BookedFirst` (whatever a profile holds of a quote is of an
  order the matcher has accepted) exclude that it comes before, and `OthersOver`
  that the effect takes a resting order for one that is over.
* `CreationIsExact`, `RemovalIsExact`: about operators, not behaviours. For every finite
  set of open orders, `applyLevelDelta` for a created (or ended) order turns the
  aggregated book into exactly that of the set with (or without) it: a page that has
  seen every message since its snapshot needs no refetch.
* `TradeIsExact`: the same of the statistics. `applyTradeToStats` for a trade turns
  `StatsOf` the trades into that of the trades and the new one, for every sequence of
  trades none of which leaves its window. The volume is the sum above, over an index
  range; that a finite set of prices has a highest and a lowest is proved as for the
  sums (`HasExtremes`). The three are why `MarketHeals` has to repair losses and
  overtaking only.

**Only model-checked.** Liveness (`EveryMatchEnds`, `EveryQuoteCloses`,
`SwitchEnds`, `MarketHeals`), which is out of the prover's reach. Every invariant
and every action property of a passing run is proved. The trade tape (`OntoTape`) is not the
subject of a theorem: it is a `SelectSeq`, a recursive definition. `TypeCorrect`'s invariant `TypeOK` is
not in a run: the theorem says it for every value of the constants.

## 6. Not modelled

* Zero-knowledge proofs and Merkle structures below the circuits, SDK wiring,
  logging, HTTP parsing, signatures, rate limits, WebSocket heartbeats.
* The web interface's pages and widgets: they derive what they show from the hooks
  and clients modelled, and keep no state of the system.
* Candles, percentages and the treasury's history as the browser shows them. The RESERVE, RELEASE and EXECUTE rows of the local
  treasury history, which only its own listing reads.
* The indexer's lag: a read of the chain answers with its present state.
* Loading the files of one cache is one step, though the code reads them one
  after another.
* Tests, which are read as documentation of intent.

`PROJECT.json` lists every component with its status and reason.

## 7. Plan

What would be worth adding, in order:

1. The indexer's lag in `ChainOrders`, as reads of an earlier state.
2. The treasury's row history (RESERVE, RELEASE, EXECUTE) against the chain's log.
3. Several assets in one matcher, sharing the orders table and the walk's thread.
