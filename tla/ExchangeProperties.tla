------------------------ MODULE ExchangeProperties -------------------------
(***************************************************************************)
(* What must be true of the exchange contract, and the abstract            *)
(* specification it implements.                                            *)
(***************************************************************************)
EXTENDS Exchange, FiniteSetsExt

\* Every ledger field has its type; balances and reserved amounts stay within
\* Uint<128>, the admin set is never emptied by removeAdmin, and only a
\* registered order has a commitment.
TypeOK ==
  /\ orders \in [OrderIds -> [commitment: Commitments \cup {NoCommitment},
                              state: OrderStates]]
  /\ \A id \in OrderIds :
       orders[id].state # "NONE" => orders[id].commitment \in Commitments
  /\ settledPairs \subseteq OrderIds \X OrderIds
  /\ eventLog \subseteq EventKinds \X OrderIds
  /\ treasuryBalances \in [Assets -> 0..MaxUint]
  /\ treasuryReserved \in [Assets -> Nat]
  /\ admins \subseteq AdminIds /\ admins # {}
  /\ treasuryHistory \in [TxKinds -> [Assets -> Nat]]
  /\ treasuryHistorySeq \in 0..MaxSeq
  /\ reservations \in [QuoteIds -> [terms: Terms, state: ReservationStates]]
  /\ custody \in [Assets -> Int]
  /\ now \in 0..MaxTime

-----------------------------------------------------------------------------
(* Treasury *)

\* treasuryBalances is what the contract can really pay: for every asset it
\* equals the coins received minus the coins sent.  settleWithProtocol writes
\* two entries and moves two coins, and the two assets may be the same one.
BalanceIsCustody == \A a \in Assets : treasuryBalances[a] = custody[a]

OpenReservations(a) ==
  {q \in QuoteIds : reservations[q].state = "OPEN"
                    /\ reservations[q].terms.assetKey = a}

\* treasuryReserved holds exactly the amounts of the open reservations, so
\* liquidity is neither stranded after a release nor released twice.
ReservedIsSumOfOpen ==
  \A a \in Assets :
    treasuryReserved[a] =
      MapThenSumSet(LAMBDA q : reservations[q].terms.amount,
                    OpenReservations(a))

\* The audit log explains the reserved amounts: RESERVE rows less RELEASE and
\* EXECUTE rows.  recordTreasuryTx promises a log that cannot drift.
HistoryExplainsReserved ==
  \A a \in Assets :
    treasuryHistory["RESERVE"][a] =
      treasuryHistory["RELEASE"][a] + treasuryHistory["EXECUTE"][a]
        + treasuryReserved[a]

\* For every asset but the payment asset, open reservations are covered by
\* what the treasury holds, through deposits, withdrawals, fills and releases
\* in any order (the guards of withdrawTreasury and reserveLiquidity).
ReservationsCovered ==
  \A a \in Assets \ {Night} : treasuryReserved[a] <= treasuryBalances[a]

-----------------------------------------------------------------------------
(* Orders *)

FilledOrders == {id \in OrderIds : orders[id].state = "FILLED"}
ExecutedQuotes == {q \in QuoteIds : reservations[q].state = "EXECUTED"}

\* Nobody is filled without a counterparty: filled orders are two for each
\* settled pair and one for each executed reservation, whatever the order of
\* settle, settleWithProtocol, cancellations and expiries.
EveryFillHasACounterparty ==
  Cardinality(FilledOrders) =
    2 * Cardinality(settledPairs) + Cardinality(ExecutedQuotes)

\* A settled pair is two filled orders that cross, and no order is in two of
\* them: settle and settleWithProtocol cannot both consume an order.
SettledPairsSound ==
  /\ \A p \in settledPairs :
       /\ p[1] # p[2]
       /\ {p[1], p[2]} \subseteq FilledOrders
       /\ Crosses(Details(p[1]), Details(p[2]))
  /\ \A p1, p2 \in settledPairs :
       {p1[1], p1[2]} \cap {p2[1], p2[2]} # {} => p1 = p2

\* The event log tells the order's history: CREATED for every registered
\* order, CANCELLED and FILLED exactly for the orders in that state (expiry
\* leaves no event).  A log keyed by kind and order never loses an event.
EventLogTellsOrders ==
  \A id \in OrderIds :
    /\ <<"CREATED", id>> \in eventLog <=> orders[id].state # "NONE"
    /\ <<"CANCELLED", id>> \in eventLog <=> orders[id].state = "CANCELLED"
    /\ <<"FILLED", id>> \in eventLog <=> orders[id].state = "FILLED"

-----------------------------------------------------------------------------
(* Money that moves *)

\* Reservations that leave OPEN for EXECUTED in the current step.
ExecutedNow ==
  {q \in QuoteIds : /\ reservations[q].state = "OPEN"
                    /\ reservations'[q].state = "EXECUTED"}

\* A fill from the protocol moves NIGHT worth exactly amount times price
\* between the treasury and the trader, or is rejected (the comment on
\* paymentAmount: a payment that does not fit is rejected outright).
PaymentIsExact ==
  [][\A q \in ExecutedNow :
       LET r == reservations[q].terms
           paid == custody'[Night] - custody[Night]
       IN  r.assetKey # Night => paid \in {r.amount * r.price,
                                           -(r.amount * r.price)}]_vars

-----------------------------------------------------------------------------
(* The abstract specification *)

Chain == INSTANCE ChainOrders WITH
  orderState <- [id \in OrderIds |-> orders[id].state],
  reservationState <- [q \in QuoteIds |-> reservations[q].state]

\* The contract implements ChainOrders: an order leaves OPEN once, and every
\* fill takes both of its sides in one step.
ImplementsChainOrders == Chain!ChainSpec
=============================================================================
