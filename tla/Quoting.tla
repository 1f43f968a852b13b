------------------------------ MODULE Quoting ------------------------------
(***************************************************************************)
(* Orders that found no counterparty and are offered to the protocol at    *)
(* the same time: attemptFill of PPMService.ts for each of them, the       *)
(* reservations the contract makes of it, and the fills their owners       *)
(* submit.  The treasury is one token's balance and its NIGHT, in numbers; *)
(* the contract's circuits in full are in Exchange.tla.                    *)
(***************************************************************************)
EXTENDS Pricing

CONSTANTS
  Customers,    \* orders that may be offered
  Want,         \* their side, limit price and amount
  References,   \* reference prices the market may have; bounds runs
  StartReference, StartStock, StartNight,
  Amounts,      \* NIGHT an administrator may move; bounds runs
  MaxMoves      \* moves of the market and the administrator; bounds runs

Terms == [side: Sides, price: Nat \ {0}, amount: Nat \ {0}]

ASSUME QuotingConstants ==
  /\ Want \in [Customers -> Terms]
  /\ References \subseteq Nat /\ StartReference \in Nat /\ Amounts \subseteq Nat
  /\ StartStock \in Nat /\ StartNight \in Nat /\ MaxMoves \in Nat

VARIABLES
  stock, held,   \* treasuryBalances and treasuryReserved of the token
  night,         \* treasuryBalances of NIGHT
  spent,         \* NIGHT that has left the treasury so far
  reference,     \* MarketDataService.referencePrice
  deal,          \* what became of each order
  moves

quotingVars == <<stock, held, night, spent, reference, deal, moves>>
treasury == <<stock, held, night, spent>>
market == <<reference, moves>>

DealStages == {"absent", "resting", "pricing", "paying", "reserving", "reserved",
            "filled", "over"}
Deal == [stage: DealStages, reference: Nat, price: Int, mark: Nat]

QuotingInit(wanting) ==
  /\ stock = StartStock /\ held = 0 /\ night = StartNight /\ spent = 0
  /\ reference = StartReference /\ moves = 0
  /\ deal = [c \in Customers |->
       [stage |-> IF c \in wanting THEN "resting" ELSE "absent",
        reference |-> 0, price |-> NoPrice, mark |-> 0]]

Offered == \E c \in Customers : deal[c].stage # "absent"
Goes(c, stage) == deal' = [deal EXCEPT ![c].stage = stage]

Side(c) == Want[c].side
Amount(c) == Want[c].amount
Payment(c) == Amount(c) * deal[c].price

-----------------------------------------------------------------------------
(* attemptFill *)

\* getSnapshot up to its await.
Consult(c) ==
  /\ deal[c].stage = "resting"
  /\ deal' = [deal EXCEPT ![c].stage = "pricing", ![c].reference = reference]
  /\ UNCHANGED <<treasury, market>>

Crosses(c, price) ==
  IF Side(c) = "BUY" THEN Want[c].price >= price ELSE Want[c].price <= price

\* The token's liquidity is read, and the price is made from it.
Price(c) ==
  /\ deal[c].stage = "pricing"
  /\ LET price == Quoted(Side(c), Amount(c), deal[c].reference, stock, held) IN
     deal' = [deal EXCEPT ![c].price = price, ![c].stage =
       IF price = NoPrice \/ ~Crosses(c, price) THEN "over"
       ELSE IF Side(c) = "SELL" THEN "paying" ELSE "reserving"]
  /\ UNCHANGED <<treasury, market>>

\* Slip: the NIGHT for the seller is not looked for.
PaysAnyway(c) == TRUE
Pays(c) == Payment(c) <= night

\* For a seller the NIGHT is read as well; none of it is reserved.
ReadNight(c) ==
  /\ deal[c].stage = "paying"
  /\ deal' = [deal EXCEPT ![c].mark = spent,
                          ![c].stage = IF Pays(c) THEN "reserving" ELSE "over"]
  /\ UNCHANGED <<treasury, market>>

\* The matcher stops; what it had sent is on its way.
DropDeals ==
  /\ deal' = [c \in Customers |->
       IF deal[c].stage \in {"pricing", "paying"}
       THEN [deal[c] EXCEPT !.stage = "over"] ELSE deal[c]]
  /\ UNCHANGED <<treasury, market>>

-----------------------------------------------------------------------------
(* The contract *)

\* reserveLiquidity, also for a seller, whose tokens the protocol will get.
Reserve(c) ==
  /\ deal[c].stage = "reserving" /\ held + Amount(c) <= stock
  /\ held' = held + Amount(c) /\ Goes(c, "reserved")
  /\ UNCHANGED <<stock, night, spent, market>>

Decline(c) ==
  /\ deal[c].stage = "reserving" /\ Goes(c, "over")
  /\ UNCHANGED <<treasury, market>>

\* settleWithProtocol, which the order's owner submits.
Fill(c) ==
  /\ deal[c].stage = "reserved" /\ Goes(c, "filled")
  /\ Amount(c) <= held /\ held' = held - Amount(c)
  /\ IF Side(c) = "BUY"
     THEN /\ Amount(c) <= stock /\ stock' = stock - Amount(c)
          /\ night' = night + Payment(c) /\ UNCHANGED spent
     ELSE /\ stock' = stock + Amount(c)
          /\ Payment(c) <= night /\ night' = night - Payment(c)
          /\ spent' = spent + Payment(c)
  /\ UNCHANGED market

\* releaseLiquidity, releaseExpiredLiquidity.
Release(c) ==
  /\ deal[c].stage = "reserved" /\ Goes(c, "over")
  /\ Amount(c) <= held /\ held' = held - Amount(c)
  /\ UNCHANGED <<stock, night, spent, market>>

-----------------------------------------------------------------------------
(* The market and the administrator *)

MarketMoves ==
  /\ Offered /\ moves < MaxMoves /\ moves' = moves + 1
  /\ reference' \in References \ {reference}
  /\ UNCHANGED <<treasury, deal>>

\* depositTreasury and withdrawTreasury of NIGHT.
MoveNight ==
  /\ Offered /\ moves < MaxMoves /\ moves' = moves + 1
  /\ \E amount \in Amounts :
       \/ night' = night + amount /\ UNCHANGED spent
       \/ amount <= night /\ night' = night - amount /\ spent' = spent + amount
  /\ UNCHANGED <<stock, held, reference, deal>>

MatcherQuotes == \E c \in Customers : Consult(c) \/ Price(c) \/ ReadNight(c)
ChainQuotes == \E c \in Customers : Reserve(c) \/ Decline(c) \/ Fill(c) \/ Release(c)

-----------------------------------------------------------------------------
(* Properties *)

QuotingTypeOK ==
  /\ {stock, held, night, spent, reference, moves} \subseteq Nat
  /\ deal \in [Customers -> Deal]

\* Whatever other quotes overlap with a fill, and wherever the market has gone
\* since, the treasury gets at least as much as it gives, at the price its
\* quote started from (PricingEngine.ts: the taker pays the spread).
FairToTreasury ==
  [][\A c \in Customers :
       deal[c].stage = "reserved" /\ deal'[c].stage = "filled" =>
         (stock' - stock) * deal[c].reference + (night' - night) >= 0]_quotingVars

\* The NIGHT a seller was promised is short only by what has left the treasury
\* since it was looked for: by another fill or the administrator, as nothing
\* reserves it (PPMService.ts: "only quote it if the Treasury actually holds
\* enough NIGHT to cover the payment").
PromiseShortByOutflow ==
  \A c \in Customers :
    Side(c) = "SELL" /\ deal[c].stage \in {"reserving", "reserved"}
      => Payment(c) <= night + (spent - deal[c].mark)
=============================================================================
