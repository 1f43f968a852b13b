----------------------------- MODULE OrderBook -----------------------------
(***************************************************************************)
(* One asset's order book in the matcher: a bucket per side, each a sorted *)
(* sequence of price levels with a first-in first-out queue of order ids   *)
(* (matcher/src/orderbook/Bucket.ts), and which of them an incoming order  *)
(* may trade with (matcher/src/matcher/MatchingStrategy.ts).               *)
(***************************************************************************)
EXTENDS Integers, Sequences, FiniteSets, SequencesExt

CONSTANTS
  Orders,    \* order ids
  OrderOf,   \* id -> [side, price, amount, owner, expiresAt], as disclosed
  NoOrder    \* findMatch's null

Sides == {"BUY", "SELL"}

ASSUME OrderBookConstants ==
  /\ OrderOf \in [Orders -> [side: Sides, price: Nat, amount: Nat,
                             owner: STRING, expiresAt: Nat]]
  /\ NoOrder \notin Orders

EmptyBook == [side \in Sides |-> <<>>]

Opposite(side) == IF side = "BUY" THEN "SELL" ELSE "BUY"

\* compareBetter: a is strictly better than b on this side.
Better(side, a, b) == IF side = "BUY" THEN a > b ELSE a < b

\* findLevelIndex: the level at this price, or where one goes.
PlaceFor(side, levels, price) ==
  CHOOSE k \in 1..(Len(levels) + 1) :
    /\ \A i \in 1..(k - 1) : Better(side, levels[i].price, price)
    /\ \A i \in k..Len(levels) : ~Better(side, levels[i].price, price)

\* Slip: a new order is put at the head of its level's queue.
AddAtHead(levels, o) ==
  LET price == OrderOf[o].price
      k == PlaceFor(OrderOf[o].side, levels, price)
  IN  IF k <= Len(levels) /\ levels[k].price = price
      THEN [levels EXCEPT ![k] = [price |-> price, ids |-> <<o>> \o @.ids]]
      ELSE InsertAt(levels, k, [price |-> price, ids |-> <<o>>])

\* Bucket.add
AddTo(levels, o) ==
  LET price == OrderOf[o].price
      k == PlaceFor(OrderOf[o].side, levels, price)
  IN  IF k <= Len(levels) /\ levels[k].price = price
      THEN [levels EXCEPT ![k] = [price |-> price, ids |-> Append(@.ids, o)]]
      ELSE InsertAt(levels, k, [price |-> price, ids |-> <<o>>])

\* Bucket.has
Has(levels, o) ==
  \E i \in DOMAIN levels : \E j \in DOMAIN levels[i].ids : levels[i].ids[j] = o

\* Bucket.remove: the id leaves its level, an emptied level leaves the bucket.
RemoveFrom(levels, o) ==
  IF ~Has(levels, o)
  THEN levels
  ELSE LET i == CHOOSE i \in DOMAIN levels :
                  \E j \in DOMAIN levels[i].ids : levels[i].ids[j] = o
           j == CHOOSE j \in DOMAIN levels[i].ids : levels[i].ids[j] = o
           left == RemoveAt(levels[i].ids, j)
       IN  IF left = <<>>
           THEN RemoveAt(levels, i)
           ELSE [levels EXCEPT ![i] = [price |-> @.price, ids |-> left]]

AddOrder(book, o) == [book EXCEPT ![OrderOf[o].side] = AddTo(@, o)]
RemoveOrder(book, o) == [book EXCEPT ![OrderOf[o].side] = RemoveFrom(@, o)]

-----------------------------------------------------------------------------
(* Who may trade with whom *)

PricesCross(o, c) ==
  IF OrderOf[o].side = "BUY" THEN OrderOf[o].price >= OrderOf[c].price
                             ELSE OrderOf[c].price >= OrderOf[o].price

ExpiredAt(o, now) == now >= OrderOf[o].expiresAt

\* Slip: findMatch forgets that fills are all or nothing.
EligibleAnyAmount(o, c, status) ==
  /\ OrderOf[c].owner # OrderOf[o].owner
  /\ status[c] = "OPEN"

\* Slip: equal prices do not trade.
EligibleAtOtherPrice(o, c, status) ==
  /\ OrderOf[c].owner # OrderOf[o].owner
  /\ status[c] = "OPEN"
  /\ OrderOf[c].amount = OrderOf[o].amount
  /\ OrderOf[c].price # OrderOf[o].price

\* The skip conditions of findMatch, after the price test.
Eligible(o, c, status) ==
  /\ OrderOf[c].owner # OrderOf[o].owner
  /\ status[c] = "OPEN"
  /\ OrderOf[c].amount = OrderOf[o].amount

-----------------------------------------------------------------------------
(* The reference the search is measured against *)

\* Orders the incoming order may trade with.
Counterparties(o, status, now) ==
  {c \in Orders :
     /\ OrderOf[c].side = Opposite(OrderOf[o].side)
     /\ PricesCross(o, c)
     /\ ~ExpiredAt(c, now)
     /\ status[c] = "OPEN"
     /\ OrderOf[c].owner # OrderOf[o].owner
     /\ OrderOf[c].amount = OrderOf[o].amount}

\* Better price first, and at one price the earlier arrival.
Precedes(c, d, arrival) ==
  \/ Better(OrderOf[c].side, OrderOf[c].price, OrderOf[d].price)
  \/ OrderOf[c].price = OrderOf[d].price /\ arrival[c] < arrival[d]
=============================================================================
