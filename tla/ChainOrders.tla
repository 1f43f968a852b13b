---------------------------- MODULE ChainOrders ----------------------------
(***************************************************************************)
(* What the exchange contract promises the programs around it, with money, *)
(* prices and clocks left out: an order leaves OPEN at most once; a fill   *)
(* takes two orders, or one order and one reservation, in a single step.   *)
(* Exchange.tla implements this specification; the matcher's modules use   *)
(* its actions as their chain.                                             *)
(***************************************************************************)

CONSTANTS
  OrderIds,     \* ids orders can be registered under
  QuoteIds      \* ids reservations can be opened under

VARIABLES
  orderState,         \* [OrderIds -> OrderStates]
  reservationState,   \* [QuoteIds -> ReservationStates]
  settledPairs        \* the <<buy, sell>> pairs settle() has executed

chainVars == <<orderState, reservationState, settledPairs>>

OrderStates == {"NONE", "OPEN", "FILLED", "CANCELLED", "EXPIRED"}
ReservationStates == {"NONE", "OPEN", "RELEASED", "EXECUTED"}

ChainInit ==
  /\ orderState = [o \in OrderIds |-> "NONE"]
  /\ reservationState = [q \in QuoteIds |-> "NONE"]
  /\ settledPairs = {}

ChainCreate(o) ==
  /\ orderState[o] = "NONE"
  /\ orderState' = [orderState EXCEPT ![o] = "OPEN"]
  /\ UNCHANGED <<reservationState, settledPairs>>

ChainClose(o, state) ==
  /\ orderState[o] = "OPEN"
  /\ orderState' = [orderState EXCEPT ![o] = state]
  /\ UNCHANGED <<reservationState, settledPairs>>

ChainSettle(b, s) ==
  /\ b # s
  /\ orderState[b] = "OPEN" /\ orderState[s] = "OPEN"
  /\ orderState' = [orderState EXCEPT ![b] = "FILLED", ![s] = "FILLED"]
  /\ settledPairs' = settledPairs \cup {<<b, s>>}
  /\ UNCHANGED reservationState

ChainReserve(q) ==
  /\ reservationState[q] = "NONE"
  /\ reservationState' = [reservationState EXCEPT ![q] = "OPEN"]
  /\ UNCHANGED <<orderState, settledPairs>>

ChainRelease(q) ==
  /\ reservationState[q] = "OPEN"
  /\ reservationState' = [reservationState EXCEPT ![q] = "RELEASED"]
  /\ UNCHANGED <<orderState, settledPairs>>

ChainSettleWithProtocol(o, q) ==
  /\ orderState[o] = "OPEN" /\ reservationState[q] = "OPEN"
  /\ orderState' = [orderState EXCEPT ![o] = "FILLED"]
  /\ reservationState' = [reservationState EXCEPT ![q] = "EXECUTED"]
  /\ UNCHANGED settledPairs

ChainNext ==
  \/ \E o \in OrderIds :
       \/ ChainCreate(o)
       \/ \E state \in {"CANCELLED", "EXPIRED"} : ChainClose(o, state)
  \/ \E b, s \in OrderIds : ChainSettle(b, s)
  \/ \E q \in QuoteIds :
       \/ ChainReserve(q)
       \/ ChainRelease(q)
       \/ \E o \in OrderIds : ChainSettleWithProtocol(o, q)

ChainSpec == ChainInit /\ [][ChainNext]_chainVars
=============================================================================
