------------------------------ MODULE Matching -----------------------------
(***************************************************************************)
(* Order intake and matching in the matcher: OrderService.submitOrder and  *)
(* cancelOrder, MatchingEngine, the SQLite order and match tables, and a   *)
(* crash with the rebuild of the book at the next start.                   *)
(*                                                                         *)
(* A submission has one await (the chain read) before anything is written. *)
(* What follows it has Node's one thread to itself: the insert, the walk   *)
(* over the opposite bucket, and the claim.  The walk is a live JavaScript *)
(* generator over two nested arrays, and the lookup it makes at each order *)
(* may splice those arrays (an expired order is evicted while it is        *)
(* visited), so its positions level and pos are part of the model, and     *)
(* each visit is a step: a crash, or the clock, may come between two.      *)
(* Without a PPM here, an unmatched order rests; PPM fills are a module of *)
(* their own.                                                              *)
(***************************************************************************)
EXTENDS OrderBook

CONSTANTS
  MaxRequests,   \* submissions a run makes, retries included; bounds runs
  MaxTime,       \* last second a run reaches; bounds runs
  MaxCrashes     \* crashes a run makes; bounds runs

VARIABLES
  requests,   \* <<order, createdAt>> of submissions awaiting the chain read
  received,   \* submissions received so far; the millisecond clock of createdAt
  status,     \* orders.status, "NONE" without a row
  createdAt,  \* orders.created_at
  matches,    \* rows of the matches table
  book,       \* the in-memory OrderBook of the asset
  listed,     \* rows of listOpen() the start has yet to add to the book
  incoming,   \* the order findMatch works for, or NoOrder
  level, pos, \* the generator's positions: price level, and order in its queue
  disturbed,  \* whether this walk has evicted an order (history)
  accepted,   \* orders accepted so far (history)
  arrival,    \* in which place each was, 0 for the others (history)
  now,        \* seconds
  crashes

tables == <<status, createdAt, matches>>
walk == <<incoming, level, pos, disturbed>>
history == <<accepted, arrival, crashes>>
vars == <<requests, received, tables, book, listed, walk, history, now>>

Statuses == {"NONE", "OPEN", "MATCHED", "CANCELLED", "EXPIRED"}

NotSearching == incoming = NoOrder /\ level = 1 /\ pos = 1 /\ disturbed = FALSE

Init ==
  /\ requests = {} /\ received = 0
  /\ status = [o \in Orders |-> "NONE"]
  /\ createdAt = [o \in Orders |-> 0]
  /\ matches = {}
  /\ book = EmptyBook /\ listed = {}
  /\ NotSearching
  /\ accepted = 0 /\ arrival = [o \in Orders |-> 0]
  /\ now = 0 /\ crashes = 0

\* No handler is running, and the server listens.
Idle == incoming = NoOrder /\ listed = {}

-----------------------------------------------------------------------------
(* Submission *)

\* submitOrder up to the await: the duplicate fast path, then createdAt.
Submit(o) ==
  /\ Idle /\ received < MaxRequests
  /\ status[o] = "NONE"
  /\ received' = received + 1
  /\ requests' = requests \cup {<<o, received + 1>>}
  /\ UNCHANGED <<tables, book, listed, walk, history, now>>

\* The chain does not know the order, or it is no longer open there, or the
\* commitment differs.
RejectByChain(r) ==
  /\ Idle
  /\ requests' = requests \ {r}
  /\ UNCHANGED <<received, tables, book, listed, walk, history, now>>

\* The order expired during the read, or another submission of it won the
\* primary key.
RejectLate(r) ==
  /\ ExpiredAt(r[1], now) \/ status[r[1]] # "NONE"
  /\ RejectByChain(r)

\* OrderRepository.insert, OrderBook.add, and the search begins.
Arrive(r) ==
  LET o == r[1]
  IN
  /\ Idle
  /\ ~ExpiredAt(o, now)
  /\ status[o] = "NONE"
  /\ requests' = requests \ {r}
  /\ status' = [status EXCEPT ![o] = "OPEN"]
  /\ createdAt' = [createdAt EXCEPT ![o] = r[2]]
  /\ book' = AddOrder(book, o)
  /\ incoming' = o /\ level' = 1 /\ pos' = 1 /\ disturbed' = FALSE
  /\ accepted' = accepted + 1
  /\ arrival' = [arrival EXCEPT ![o] = accepted + 1]
  /\ UNCHANGED <<received, matches, listed, crashes, now>>

-----------------------------------------------------------------------------
(* findMatch, its lookups, and the claim *)

Bucket == book[Opposite(OrderOf[incoming].side)]
Visits(c) ==
  /\ incoming # NoOrder
  /\ level \in DOMAIN Bucket /\ pos \in DOMAIN Bucket[level].ids
  /\ c = Bucket[level].ids[pos]

GoTo(i, j) == level' = i /\ pos' = j /\ incoming' = incoming
EndSearch == incoming' = NoOrder /\ level' = 1 /\ pos' = 1 /\ disturbed' = FALSE

\* Nothing but the walk moves.
JustWalk == UNCHANGED <<requests, received, tables, book, listed, history, now>>

\* The inner loop of iterateInPriorityOrder is through.
NextLevel ==
  /\ incoming # NoOrder
  /\ level \in DOMAIN Bucket /\ pos \notin DOMAIN Bucket[level].ids
  /\ GoTo(level + 1, 1) /\ UNCHANGED disturbed /\ JustWalk

\* The outer loop is: the order rests.
EndOfBook ==
  /\ incoming # NoOrder
  /\ level \notin DOMAIN Bucket
  /\ EndSearch /\ JustWalk

Due(o) == status[o] = "OPEN" /\ ExpiredAt(o, now)

\* The lookup finds the order expired: the arrays shrink under the generator,
\* whose next position is still pos + 1, or level + 1 if the level went.
Evict(c) ==
  /\ Visits(c) /\ Due(c)
  /\ status' = [status EXCEPT ![c] = "EXPIRED"]
  /\ book' = RemoveOrder(book, c)
  /\ IF ~PricesCross(incoming, c) THEN EndSearch
     ELSE /\ disturbed' = TRUE
          /\ IF Len(Bucket[level].ids) = 1 THEN GoTo(level + 1, 1)
                                           ELSE GoTo(level, pos + 1)
  /\ UNCHANGED <<requests, received, createdAt, matches, listed, history, now>>

\* From here on no order crosses.
TooDear(c) ==
  /\ Visits(c) /\ ~Due(c) /\ ~PricesCross(incoming, c)
  /\ EndSearch /\ JustWalk

Skip(c) ==
  /\ Visits(c) /\ ~Due(c) /\ PricesCross(incoming, c)
  /\ ~Eligible(incoming, c, status)
  /\ GoTo(level, pos + 1) /\ UNCHANGED disturbed /\ JustWalk

\* Match as MatchingEngine.onOrderArrived fills it in.
MatchOf(o, c) ==
  LET buy == IF OrderOf[o].side = "BUY" THEN o ELSE c
      sell == IF OrderOf[o].side = "BUY" THEN c ELSE o
  IN  [buy |-> buy, sell |-> sell, price |-> OrderOf[sell].price]

\* Slip: only the incoming order's row is set to MATCHED.
ClaimIncomingOnly(o, c) == [status EXCEPT ![o] = "MATCHED"]

\* The claim transaction's order rows.
Claim(o, c) == [status EXCEPT ![o] = "MATCHED", ![c] = "MATCHED"]

\* The counterparty is found, both are claimed, and leave the book.
Take(c) ==
  /\ Visits(c) /\ ~Due(c) /\ PricesCross(incoming, c)
  /\ Eligible(incoming, c, status)
  /\ status' = Claim(incoming, c)
  /\ matches' = matches \cup {MatchOf(incoming, c)}
  /\ book' = RemoveOrder(RemoveOrder(book, incoming), c)
  /\ EndSearch
  /\ UNCHANGED <<requests, received, createdAt, listed, history, now>>

-----------------------------------------------------------------------------
(* Expiry and cancellation *)

\* materializeExpiry, from any read of the order (GET /orders/:id, the open
\* list, an order book snapshot).
MaterializeExpiry(o) ==
  /\ Idle /\ Due(o)
  /\ status' = [status EXCEPT ![o] = "EXPIRED"]
  /\ book' = RemoveOrder(book, o)
  /\ UNCHANGED <<requests, received, createdAt, matches, listed, walk, history,
                 now>>

\* Slip: the cancelled order stays in the book.
CancelInDatabaseOnly(o) ==
  /\ Idle /\ status[o] = "OPEN" /\ ~ExpiredAt(o, now)
  /\ status' = [status EXCEPT ![o] = "CANCELLED"]
  /\ UNCHANGED <<requests, received, createdAt, matches, book, listed, walk,
                 history, now>>

\* DELETE /orders/:id of an open order that has not expired (an expired one
\* is materialized and the cancellation refused).
CancelOrder(o) ==
  /\ Idle /\ status[o] = "OPEN" /\ ~ExpiredAt(o, now)
  /\ status' = [status EXCEPT ![o] = "CANCELLED"]
  /\ book' = RemoveOrder(book, o)
  /\ UNCHANGED <<requests, received, createdAt, matches, listed, walk, history,
                 now>>

-----------------------------------------------------------------------------
(* Crash and restart: the tables survive, the rest is rebuilt *)

\* index.ts at startup: listOpen() expires what is due, the others are to be
\* added to an empty book.  The process may have stopped anywhere, before or
\* after an insert, in the middle of a walk or of an earlier start.
CrashAndRestart ==
  /\ crashes < MaxCrashes
  /\ crashes' = crashes + 1
  /\ requests' = {}
  /\ status' = [o \in Orders |-> IF Due(o) THEN "EXPIRED" ELSE status[o]]
  /\ listed' = {o \in Orders : status[o] = "OPEN" /\ ~Due(o)}
  /\ book' = EmptyBook
  /\ EndSearch
  /\ UNCHANGED <<received, createdAt, matches, accepted, arrival, now>>

\* One turn of the start's loop; listOpen() is ORDER BY created_at.
AddListed(o) ==
  /\ o \in listed /\ \A x \in listed : createdAt[o] <= createdAt[x]
  /\ listed' = listed \ {o}
  /\ book' = AddOrder(book, o)
  /\ UNCHANGED <<requests, received, tables, walk, history, now>>

Tick ==
  /\ now < MaxTime
  /\ now' = now + 1
  /\ UNCHANGED <<requests, received, tables, book, listed, walk, history>>

SearchStep ==
  \/ NextLevel \/ EndOfBook
  \/ \E c \in Orders : Evict(c) \/ TooDear(c) \/ Skip(c) \/ Take(c)

Next ==
  \/ \E o \in Orders :
       Submit(o) \/ MaterializeExpiry(o) \/ CancelOrder(o) \/ AddListed(o)
  \/ \E r \in requests : Arrive(r) \/ RejectByChain(r) \/ RejectLate(r)
  \/ SearchStep
  \/ CrashAndRestart
  \/ Tick

Spec == Init /\ [][Next]_vars

-----------------------------------------------------------------------------
(* Properties *)

\* One bucket agrees with the table: it holds exactly the OPEN orders of its
\* side that the start does not still have to add, each once, on non-empty
\* levels of their price, better prices first.
Mirrored(side) ==
  LET levels == book[side]
  IN
  /\ \A o \in Orders :
       Has(levels, o) <=>
         status[o] = "OPEN" /\ OrderOf[o].side = side /\ o \notin listed
  /\ \A i \in DOMAIN levels :
       /\ levels[i].ids # <<>>
       /\ IsInjective(levels[i].ids)
       /\ \A j \in DOMAIN levels[i].ids :
            OrderOf[levels[i].ids[j]].price = levels[i].price
       /\ \A k \in DOMAIN levels :
            i < k => Better(side, levels[i].price, levels[k].price)

\* The in-memory book and the table agree after every interleaving of
\* submissions, walks, cancellations, expiries, crashes and starts.
BookMirrorsTable == \A side \in Sides : Mirrored(side)

\* Until a restart, orders at one price wait in the order in which they were
\* accepted ("FIFO by arrival"), whatever was cancelled, matched or expired in
\* between.
TimePriorityKept ==
  crashes = 0 =>
    \A side \in Sides : \A i \in DOMAIN book[side] :
      LET ids == book[side][i].ids
      IN  \A j, k \in DOMAIN ids : j < k => arrival[ids[j]] < arrival[ids[k]]

\* No double claim: MATCHED orders are exactly the orders of the matches, and
\* no order is in two matches.
ClaimedOnce ==
  /\ {o \in Orders : status[o] = "MATCHED"} =
       UNION {{m.buy, m.sell} : m \in matches}
  /\ \A m1, m2 \in matches :
       {m1.buy, m1.sell} \cap {m2.buy, m2.sell} # {} => m1 = m2

\* Every match is a pair the contract's settle() accepts (but for expiry), at a
\* price within both limits: the matcher's skip conditions cover the circuit's
\* asserts.
MatchesAreSettleable ==
  \A m \in matches :
    LET b == OrderOf[m.buy]
        s == OrderOf[m.sell]
    IN  /\ b.side = "BUY" /\ s.side = "SELL"
        /\ b.amount = s.amount /\ b.owner # s.owner
        /\ s.price <= m.price /\ m.price <= b.price

\* What order o, whose search ends in this step, should get: the best price on
\* the other side and, at that price, the order that came first; it rests only
\* if nobody can trade with it.
TakesBest(o) ==
  LET cs == Counterparties(o, status, now)
  IN  IF cs = {} THEN status'[o] = "OPEN"
      ELSE \E c \in cs :
             /\ status'[o] = "MATCHED" /\ MatchOf(o, c) \in matches'
             /\ \A d \in cs \ {c} : Precedes(c, d, arrival)

SearchEnds == incoming # NoOrder /\ incoming' = NoOrder

\* Price-time priority of every search that evicts no expired order on its way,
\* until a restart.
UndisturbedArrivalTakesBest ==
  [][SearchEnds /\ crashes' = 0 /\ ~disturbed => TakesBest(incoming)]_vars

\* Price-time priority of every arrival ("first eligible candidate is by
\* construction the best available match", MatchingStrategy.ts).
ArrivalTakesBest ==
  [][SearchEnds /\ crashes' = 0 => TakesBest(incoming)]_vars
=============================================================================
