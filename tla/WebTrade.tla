------------------------------ MODULE WebTrade ------------------------------
(***************************************************************************)
(* One browser profile trading in several tabs: orders are created and     *)
(* disclosed (use-submit-order.ts), cancelled and settled with the         *)
(* protocol (use-order-actions.ts), the last by hand (orders-page.tsx) or  *)
(* by an effect (ppm-settlement-toast-effect.tsx).  Tabs share what is in  *)
(* localStorage and keep a cache of the matcher's orders                   *)
(* (matcherClient.ts).  The matcher and the chain are seen from here.      *)
(***************************************************************************)
EXTENDS Naturals, Sequences

CONSTANTS Tabs, Orders

VARIABLES
  chain,       \* the profile's orders on the chain
  relayed,     \* transactions the wallet has relayed
  book,        \* the matcher's row of each order
  offering,    \* orders the matcher is offering to the protocol
  quote,       \* the quote reserved for each order
  witness,     \* localStorage: details and blinding (orderStore.ts)
  pending,     \* localStorage: quotes to settle (pendingSettlements.ts)
  tasks,       \* asynchronous calls under way in the tabs
  view,        \* what each tab last rendered of `pending`
  started,     \* orders each tab's effect has taken up
  inFlight,    \* orders each tab marked as being settled
  linked,      \* tabs whose WebSocket is open
  news,        \* messages on their way to each tab
  shown,       \* each tab's cache of orders
  snapshot,    \* the list of open orders on its way to each tab
  interrupted  \* orders whose creation broke off after it was relayed

chainVars == <<chain, relayed>>
matcherVars == <<book, offering, quote>>
storageVars == <<witness, pending>>
tabVars == <<tasks, view, started, inFlight>>
cacheVars == <<linked, news, shown, snapshot>>
tradeVars ==
  <<chainVars, matcherVars, storageVars, tabVars, cacheVars, interrupted>>

Absent == "none"
Closed == {"FILLED", "FAILED", "CANCELLED", "EXPIRED"}
Resting == {o \in Orders : book[o] = "OPEN"}
NoList == {"none"}     \* no list under way; no order has this name

Message == [order: Orders, whole: BOOLEAN,
            status: Closed \cup {"OPEN", "MATCHED", "SETTLING", "quote"}]
Kinds == {"create", "cancel", "settle"}
Phases == {"reading", "OPEN", "other", "signing", "sent", "landed", "disclosing",
           "answered", "telling"}
Task == [tab: Tabs, order: Orders, kind: Kinds, phase: Phases,
         auto: BOOLEAN, able: BOOLEAN, late: BOOLEAN]

TradeInit(sockets) ==
  /\ chain = [o \in Orders |-> Absent] /\ relayed = {}
  /\ book = [o \in Orders |-> Absent] /\ offering = {}
  /\ quote = [o \in Orders |-> Absent]
  /\ witness = {} /\ pending = {}
  /\ tasks = {} /\ view = [t \in Tabs |-> {}]
  /\ started = [t \in Tabs |-> {}] /\ inFlight = [t \in Tabs |-> {}]
  /\ linked = sockets /\ news = [t \in Tabs |-> <<>>]
  /\ shown = [t \in Tabs |-> [o \in Orders |-> Absent]]
  /\ snapshot = [t \in Tabs |-> NoList]
  /\ interrupted = {}

-----------------------------------------------------------------------------
(* Helpers *)

Moves(a, phase) == tasks' = (tasks \ {a}) \cup {[a EXCEPT !.phase = phase]}
Ended(a) == tasks' = tasks \ {a}
Opened(t, o, kind, phase) ==
  [tab |-> t, order |-> o, kind |-> kind, phase |-> phase,
   auto |-> FALSE, able |-> TRUE, late |-> FALSE]

\* writeAll of pendingSettlements.ts: its listeners are those of the own tab.
Pending(t, entries) ==
  /\ pending' = entries
  /\ view' = [view EXCEPT ![t] = entries]

Unmarked(t, o) == inFlight' = [inFlight EXCEPT ![t] = @ \ {o}]

\* Broadcaster.broadcast, as the tabs receive it.
Broadcast(o, status, whole) ==
  news' = [t \in Tabs |->
    IF t \in linked
    THEN Append(news[t], [order |-> o, status |-> status, whole |-> whole])
    ELSE news[t]]

Books(o, status, whole) ==
  /\ book' = [book EXCEPT ![o] = status]
  /\ Broadcast(o, status, whole)
  /\ UNCHANGED <<linked, shown, snapshot>>

-----------------------------------------------------------------------------
(* The wallet and the chain *)

\* The witnesses of a cancellation or a settlement are read from storage.
Call(a) ==
  /\ a.phase = "signing"
  /\ a.kind # "create" => a.order \in witness
  /\ Moves(a, "sent")
  /\ relayed' = relayed \cup {[tab |-> a.tab, order |-> a.order, kind |-> a.kind]}
  /\ UNCHANGED <<chain, matcherVars, storageVars, view, started, inFlight,
                 cacheVars, interrupted>>

\* The contract's guards, and the state each circuit leaves.
Includes(x) ==
  CASE x.kind = "create" ->
         chain[x.order] = Absent /\ chain' = [chain EXCEPT ![x.order] = "OPEN"]
         /\ UNCHANGED quote
    [] x.kind = "cancel" ->
         chain[x.order] = "OPEN" /\ chain' = [chain EXCEPT ![x.order] = "CANCELLED"]
         /\ UNCHANGED quote
    [] x.kind = "settle" ->
         chain[x.order] = "OPEN" /\ chain' = [chain EXCEPT ![x.order] = "FILLED"]
         /\ quote[x.order] = "held" /\ quote' = [quote EXCEPT ![x.order] = "used"]

Land(x) ==
  /\ Includes(x) /\ relayed' = relayed \ {x}
  /\ tasks' = {IF [tab |-> a.tab, order |-> a.order, kind |-> a.kind] = x
                  /\ a.phase = "sent"
               THEN [a EXCEPT !.phase = "landed"] ELSE a : a \in tasks}
  /\ UNCHANGED <<book, offering, storageVars, view, started, inFlight,
                 cacheVars, interrupted>>

Discard(x) ==
  /\ relayed' = relayed \ {x}
  /\ UNCHANGED <<chain, matcherVars, storageVars, tabVars, cacheVars, interrupted>>

-----------------------------------------------------------------------------
(* useSubmitOrder *)

Submit(t, o) ==
  /\ chain[o] = Absent /\ ~\E a \in tasks : a.order = o
  /\ ~\E x \in relayed : x.order = o
  /\ tasks' = tasks \cup {Opened(t, o, "create", "signing")}
  /\ UNCHANGED <<chainVars, matcherVars, storageVars, view, started, inFlight,
                 cacheVars, interrupted>>

\* submitCreateOrder has returned; the order is disclosed until it is accepted.
Disclose(a) ==
  /\ a.kind = "create" /\ a.phase = "landed" /\ Moves(a, "disclosing")
  /\ UNCHANGED <<chainVars, matcherVars, storageVars, view, started, inFlight,
                 cacheVars, interrupted>>

\* OrderService.submitOrder up to the protocol's offer, and after it; the
\* matcher goes on when its client has left.
Accept(a) ==
  /\ a.kind = "create" /\ a.phase = "disclosing"
  /\ chain[a.order] = "OPEN" /\ book[a.order] = Absent
  /\ Books(a.order, "OPEN", TRUE)
  /\ offering' = offering \cup {a.order}
  /\ UNCHANGED <<chainVars, quote, storageVars, tabVars, interrupted>>

Answer(o) ==
  /\ o \in offering /\ offering' = offering \ {o}
  /\ \/ UNCHANGED <<quote, news>>
     \/ quote' = [quote EXCEPT ![o] = "held"] /\ Broadcast(o, "quote", FALSE)
  /\ tasks' = {IF a.order = o /\ a.phase = "disclosing"
               THEN [a EXCEPT !.phase = "answered"] ELSE a : a \in tasks}
  /\ UNCHANGED <<chainVars, book, storageVars, view, started, inFlight, linked,
                 shown, snapshot, interrupted>>

\* Slip: details are kept only if there is a quote to settle with them.
KeptIfQuoted(o) == IF quote[o] # Absent THEN witness \cup {o} ELSE witness
Kept(o) == witness \cup {o}

TakeReply(a) ==
  /\ a.phase = "answered" /\ Ended(a)
  /\ witness' = Kept(a.order)
  /\ IF quote[a.order] # Absent THEN Pending(a.tab, pending \cup {a.order})
                                ELSE UNCHANGED <<pending, view>>
  /\ UNCHANGED <<chainVars, matcherVars, started, inFlight, cacheVars, interrupted>>

-----------------------------------------------------------------------------
(* useOrderActions *)

\* handleCancel; a second click asks for the same thing again.
Cancel(t, o) ==
  /\ book[o] = "OPEN" /\ Opened(t, o, "cancel", "signing") \notin tasks
  /\ tasks' = tasks \cup {Opened(t, o, "cancel", "signing")}
  /\ UNCHANGED <<chainVars, matcherVars, storageVars, view, started, inFlight,
                 cacheVars, interrupted>>

Cancelled(a) ==
  /\ a.kind = "cancel" /\ a.phase = "landed"
  /\ witness' = witness \ {a.order} /\ Moves(a, "telling")
  /\ UNCHANGED <<chainVars, matcherVars, pending, view, started, inFlight,
                 cacheVars, interrupted>>

\* cancelOrderOffChain: the matcher may have closed the order, or not be heard.
Tell(a) ==
  /\ a.phase = "telling" /\ Ended(a)
  /\ \/ /\ book[a.order] = "OPEN"
        /\ book' = [book EXCEPT ![a.order] = "CANCELLED"]
        /\ Broadcast(a.order, "CANCELLED", TRUE)
        /\ shown' = [shown EXCEPT ![a.tab][a.order] = "CANCELLED"]
        /\ UNCHANGED <<linked, snapshot>>
     \/ UNCHANGED <<book, cacheVars>>
  /\ UNCHANGED <<chainVars, offering, quote, storageVars, view, started,
                 inFlight, interrupted>>

Marked(t, o) == o \in inFlight[t]

\* The Approve Settlement button, on what this tab last rendered.
Approve(t, o) ==
  /\ o \in view[t] /\ ~Marked(t, o)
  /\ inFlight' = [inFlight EXCEPT ![t] = @ \cup {o}]
  /\ tasks' = tasks \cup {Opened(t, o, "settle", "signing")}
  /\ UNCHANGED <<chainVars, matcherVars, storageVars, view, started, cacheVars,
                 interrupted>>

Settled(a) ==
  /\ a.kind = "settle" /\ a.phase = "landed" /\ Ended(a)
  /\ Pending(a.tab, pending \ {a.order}) /\ Unmarked(a.tab, a.order)
  /\ UNCHANGED <<chainVars, matcherVars, witness, started, cacheVars, interrupted>>

\* Slip: a settlement that failed is forgotten.
ForgottenOnFailure(a) == pending \ {a.order}
AfterFailure(a) == pending

\* The wallet refuses, or an answer does not come; what was relayed may land.
BreakOff(a) ==
  /\ a.phase \in {"signing", "sent", "landed", "disclosing", "answered"}
  /\ Ended(a)
  /\ IF a.kind = "settle"
     THEN Unmarked(a.tab, a.order) /\ pending' = AfterFailure(a)
     ELSE UNCHANGED <<inFlight, pending>>
  /\ interrupted' = IF a.kind = "create" /\ a.phase # "signing"
                    THEN interrupted \cup {a.order} ELSE interrupted
  /\ UNCHANGED <<chainVars, matcherVars, witness, view, started, cacheVars>>

-----------------------------------------------------------------------------
(* PpmSettlementToastEffect *)

\* The effect runs whenever its tab renders; `able` is what its render knew of
\* the wallet.
Start(t, o, able) ==
  /\ o \in view[t] \ started[t] /\ quote[o] # "lapsed" /\ ~Marked(t, o)
  /\ inFlight' = [inFlight EXCEPT ![t] = @ \cup {o}]
  /\ started' = [started EXCEPT ![t] = @ \cup {o}]
  /\ tasks' = tasks \cup
       {[Opened(t, o, "settle", "reading") EXCEPT
           !.auto = TRUE, !.able = able, !.late = chain[o] = "FILLED"]}
  /\ UNCHANGED <<chainVars, matcherVars, storageVars, view, cacheVars, interrupted>>

\* reconcileProtocolFill finds a fill the matcher has not heard of.
Unseen(o) == book[o] = "OPEN" /\ chain[o] = "FILLED"

\* Slip: the order is read without looking at the chain.
AsRecorded(o) == book[o]
Fresh(o) == IF Unseen(o) THEN "FILLED" ELSE book[o]

\* GET /orders/:id, retried; without an answer everything is left as it is.
Check(a) ==
  /\ a.phase = "reading"
  /\ \/ /\ Moves(a, IF Fresh(a.order) = "OPEN" THEN "OPEN" ELSE "other")
        /\ IF Fresh(a.order) # book[a.order]
           THEN Books(a.order, "FILLED", TRUE) ELSE UNCHANGED <<book, cacheVars>>
        /\ UNCHANGED inFlight
     \/ Ended(a) /\ Unmarked(a.tab, a.order) /\ UNCHANGED <<book, cacheVars>>
  /\ UNCHANGED <<chainVars, offering, quote, storageVars, view, started, interrupted>>

\* Slip: the mark is cleared when the settlement is asked for, not when it ends.
UnmarkedEarly(a) == inFlight[a.tab] \ {a.order}
StillMarked(a) == inFlight[a.tab]

\* shouldAutoSettle, then settleWithProtocol; `open` is whether the tab holds a
\* wallet's API now.
Decide(a, open) ==
  /\ a.phase \in {"OPEN", "other"}
  /\ IF a.phase = "other" \/ quote[a.order] = "lapsed"
     THEN /\ Ended(a) /\ Unmarked(a.tab, a.order)
          /\ Pending(a.tab, pending \ {a.order})
     ELSE /\ UNCHANGED <<pending, view>>
          /\ IF a.able /\ open
             THEN /\ Moves(a, "signing")
                  /\ inFlight' = [inFlight EXCEPT ![a.tab] = StillMarked(a)]
             ELSE Ended(a) /\ Unmarked(a.tab, a.order)
  /\ UNCHANGED <<chainVars, matcherVars, witness, started, cacheVars, interrupted>>

-----------------------------------------------------------------------------
(* The matcher and its broadcasts, and a quote's time *)

\* A match and its settlement, an expiry, and the sweep for protocol fills.
BookMoves(o) ==
  /\ \/ book[o] = "OPEN" /\ Books(o, "MATCHED", FALSE)
     \/ book[o] = "OPEN" /\ Books(o, "EXPIRED", TRUE)
     \/ book[o] = "MATCHED" /\ Books(o, "SETTLING", FALSE)
     \/ book[o] = "SETTLING" /\ chain[o] = "FILLED" /\ Books(o, "FILLED", FALSE)
     \/ book[o] = "SETTLING" /\ Books(o, "FAILED", FALSE)
     \/ Unseen(o) /\ Books(o, "FILLED", TRUE)
  /\ UNCHANGED <<chainVars, offering, quote, storageVars, tabVars, interrupted>>

MatchSettles(o) ==
  /\ book[o] = "SETTLING" /\ chain[o] = "OPEN"
  /\ chain' = [chain EXCEPT ![o] = "FILLED"]
  /\ UNCHANGED <<relayed, matcherVars, storageVars, tabVars, cacheVars, interrupted>>

LapseQuote(o) ==
  /\ quote[o] = "held" /\ quote' = [quote EXCEPT ![o] = "lapsed"]
  /\ UNCHANGED <<chainVars, book, offering, storageVars, tabVars, cacheVars,
                 interrupted>>

-----------------------------------------------------------------------------
(* MatcherClient *)

\* Slip: a quote is kept whoever made the order.
Anyones(o) == TRUE
Ours(o) == o \in witness

\* Slip: a match is shown as the fill it is expected to become.
FilledOnceMatched(m) == IF m.status = "MATCHED" THEN "FILLED" ELSE m.status
Status(m) == m.status

\* handleMessage: an upsert, or a status for an order already in the cache.
Deliver(t) ==
  /\ news[t] # <<>> /\ news' = [news EXCEPT ![t] = Tail(@)]
  /\ LET m == Head(news[t]) IN
     IF m.status = "quote"
     THEN /\ UNCHANGED shown
          /\ IF Ours(m.order) THEN Pending(t, pending \cup {m.order})
                              ELSE UNCHANGED <<pending, view>>
     ELSE /\ UNCHANGED <<pending, view>>
          /\ shown' = IF m.whole \/ shown[t][m.order] # Absent
                      THEN [shown EXCEPT ![t][m.order] = Status(m)] ELSE shown
  /\ UNCHANGED <<chainVars, matcherVars, witness, tasks, started, inFlight,
                 linked, snapshot, interrupted>>

\* The socket closes and what was on its way is lost; nothing is read again.
SocketDrops(t) ==
  /\ t \in linked /\ linked' = linked \ {t}
  /\ news' = [news EXCEPT ![t] = <<>>]
  /\ UNCHANGED <<chainVars, matcherVars, storageVars, tabVars, shown, snapshot,
                 interrupted>>

SocketReturns(t) ==
  /\ t \notin linked /\ linked' = linked \cup {t}
  /\ UNCHANGED <<chainVars, matcherVars, storageVars, tabVars, news, shown,
                 snapshot, interrupted>>

\* refreshOpenOrders, at load and from time to time.
PollList(t) ==
  /\ snapshot[t] = NoList /\ snapshot' = [snapshot EXCEPT ![t] = Resting]
  /\ UNCHANGED <<chainVars, matcherVars, storageVars, tabVars, linked, news,
                 shown, interrupted>>

ApplyList(t) ==
  /\ snapshot[t] # NoList /\ snapshot' = [snapshot EXCEPT ![t] = NoList]
  /\ shown' = [shown EXCEPT ![t] =
       [o \in Orders |-> IF o \in snapshot[t] THEN "OPEN" ELSE @[o]]]
  /\ UNCHANGED <<chainVars, matcherVars, storageVars, tabVars, linked, news,
                 interrupted>>

\* The tab is loaded again: localStorage is all that is left.
Reload(t) ==
  /\ tasks' = {a \in tasks : a.tab # t}
  /\ interrupted' = interrupted \cup
       {a.order : a \in {b \in tasks : b.tab = t /\ b.kind = "create"
                                       /\ b.phase # "signing"}}
  /\ view' = [view EXCEPT ![t] = pending]
  /\ started' = [started EXCEPT ![t] = {}]
  /\ inFlight' = [inFlight EXCEPT ![t] = {}]
  /\ news' = [news EXCEPT ![t] = <<>>]
  /\ shown' = [shown EXCEPT ![t] = [o \in Orders |-> Absent]]
  /\ snapshot' = [snapshot EXCEPT ![t] = NoList]
  /\ UNCHANGED <<chainVars, matcherVars, storageVars, linked>>

-----------------------------------------------------------------------------
(* Properties *)

TradeTypeOK ==
  /\ chain \in [Orders -> {Absent, "OPEN", "FILLED", "CANCELLED"}]
  /\ relayed \subseteq [tab: Tabs, order: Orders, kind: Kinds]
  /\ book \in [Orders -> Closed \cup {Absent, "OPEN", "MATCHED", "SETTLING"}]
  /\ quote \in [Orders -> {Absent, "held", "used", "lapsed"}]
  /\ {offering, witness, pending, interrupted} \subseteq SUBSET Orders
  /\ tasks \subseteq Task /\ linked \subseteq Tabs
  /\ {view, started, inFlight} \subseteq [Tabs -> SUBSET Orders]
  /\ news \in [Tabs -> Seq(Message)]
  /\ shown \in [Tabs -> [Orders -> Closed \cup {Absent, "OPEN", "MATCHED", "SETTLING"}]]
  /\ snapshot \in [Tabs -> (SUBSET Orders) \cup {NoList}]

\* An order that is open on the chain can be cancelled and settled from the
\* profile that made it, or its creation is still under way in some tab, or was
\* broken off by a reload or an error after the wallet had relayed it
\* (use-submit-order.ts stores the details after the matcher's reply).
OrphanIsInterrupted ==
  \A o \in Orders :
    chain[o] = "OPEN" =>
      o \in witness \cup interrupted \/ \E a \in tasks : a.order = o /\ a.kind = "create"

\* A tab's button and its effect never have the wallet settle one order twice
\* at a time (pendingSettlements.ts: they "can't both fire settleWithProtocol").
OneSettlementPerTab ==
  \A a, b \in tasks :
    a.kind = "settle" /\ b.kind = "settle" /\ a.tab = b.tab /\ a.order = b.order
      => a = b

\* A profile is asked to settle only orders it can settle, wherever the quote
\* came from and in whatever order cancellations and messages arrive: it has
\* the details, or the order is over.
PendingIsOurs ==
  \A o \in pending : o \in witness \/ chain[o] \in {"FILLED", "CANCELLED"}

\* Until a quote lapses, a resting order with a reservation keeps its entry
\* for approval, though settlements of it may fail or be started again.
QuoteIsKept ==
  \A o \in witness :
    quote[o] = "held" /\ book[o] = "OPEN" /\ chain[o] = "OPEN" => o \in pending

\* The effect never opens the wallet for a settlement that had landed when it
\* started, after a reload or in another tab (pendingSettlements.ts: a stale
\* read "lets a page reload re-trigger a settlement whose tx already landed").
SettledIsNotAskedAgain ==
  \A a \in tasks : a.auto /\ a.late => a.phase \in {"reading", "other"}

\* What a tab shows as over is over, and in that way, for the matcher; what it
\* shows as open may have ended (messages are lost with the socket).
ShownClosedIsClosed ==
  \A t \in Tabs, o \in Orders :
    shown[t][o] \in Closed => book[o] = shown[t][o]
=============================================================================
