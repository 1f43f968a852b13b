--------------------------- MODULE QuotingProofs ----------------------------
(***************************************************************************)
(* Theorems about the protocol's quotes (Pricing.tla, Quoting.tla) among   *)
(* the operator's programs, for any orders, amounts, prices and limits and *)
(* any moves of the market and the administrator.                          *)
(***************************************************************************)
EXTENDS Operations, TLAPS

\* Who buys at a quote's price pays no less than the reference price it was
\* made from, who sells gets no more.
PricedSafely(c) ==
  /\ deal[c].price > 0
  /\ Side(c) = "BUY" => deal[c].price >= deal[c].reference
  /\ Side(c) = "SELL" => deal[c].price <= deal[c].reference

QuotingInv ==
  /\ QuotingTypeOK /\ PromiseShortByOutflow
  /\ \A c \in Customers :
       /\ deal[c].mark <= spent
       /\ deal[c].stage \in {"paying", "reserving", "reserved"} => PricedSafely(c)

-----------------------------------------------------------------------------
(* The arithmetic of a price *)

LEMMA ProductsAreNatural == \A a, b \in Nat : a * b \in Nat
OBVIOUS

LEMMA ProductsGrow ==
  ASSUME NEW a \in Nat, NEW x \in Int, NEW y \in Int, x <= y
  PROVE  a * x <= a * y
<1>1. a * (y - x) >= 0 BY ProductsAreNatural
<1>2. a * (y - x) = a * y - a * x OBVIOUS
<1> QED BY <1>1, <1>2

LEMMA UtilizationIsNatural ==
  ASSUME NEW balance \in Nat, NEW reserved \in Nat
  PROVE  UtilizationBps(balance, reserved) \in Nat
<1>1. CASE balance > 0
  <2>1. reserved * 10000 \in Nat OBVIOUS
  <2>2. \A x \in Nat, y \in Nat \ {0} : x \div y \in Nat BY SMTT(30)
  <2> QED BY <1>1, <2>1, <2>2 DEF UtilizationBps, Bps
<1>2. CASE ~(balance > 0) BY <1>2 DEF UtilizationBps
<1> QED BY <1>1, <1>2

\* The floor of the floating-point product falls short of a positive number.
LEMMA SkewIsNatural == ASSUME NEW u \in Nat PROVE SkewBps(u) \in Nat
<1> DEFINE x == u * InventorySkewBps
<1>1. x \in Nat BY PricingConstants, ProductsAreNatural
<1>2. CASE u \in RoundedDown
  <2>1. x > 0 /\ x % Bps = 0
    <3>1. \A v \in RoundedDown :
            v * InventorySkewBps > 0 /\ (v * InventorySkewBps) % Bps = 0
      BY PricingConstants, Zenon
    <3> QED BY <1>2, <3>1, Zenon
  <2> HIDE DEF x
  <2>2. x \div 10000 \in Nat /\ x \div 10000 >= 1 BY <1>1, <2>1 DEF Bps
  <2>3. SkewBps(u) = (x \div 10000) - 1 BY <1>2 DEF SkewBps, Bps, x
  <2> QED BY <2>2, <2>3
<1>3. CASE u \notin RoundedDown
  <2> HIDE DEF x
  <2>1. x \div 10000 \in Nat BY <1>1
  <2>2. SkewBps(u) = (x \div 10000) - 0 BY <1>3 DEF SkewBps, Bps, x
  <2> QED BY <2>1, <2>2
<1> QED BY <1>2, <1>3

LEMMA SpreadIsNatural ==
  ASSUME NEW r \in Nat, NEW u \in Nat PROVE Spread(r, u) \in Nat
<1> DEFINE k == BaseSpreadBps + SkewBps(u)
           x == r * k
<1>1. k \in Nat BY SkewIsNatural, PricingConstants
<1> HIDE DEF k
<1>2. x \in Nat BY <1>1, ProductsAreNatural
<1> HIDE DEF x
<1>3. x \div 10000 \in Nat BY <1>2
<1> QED BY <1>3 DEF Spread, Bps, x, k

\* A quote that is made at all is on the treasury's side of its reference.
LEMMA QuotesAreSafe ==
  ASSUME NEW side \in Sides, NEW amount \in Nat, NEW r \in Nat,
         NEW balance \in Nat, NEW reserved \in Nat
  PROVE  LET q == Quoted(side, amount, r, balance, reserved) IN
         /\ q \in Nat
         /\ q # NoPrice => /\ side = "BUY" => q >= r
                           /\ side = "SELL" => q <= r
<1> DEFINE u == UtilizationBps(balance, reserved)
           s == Spread(r, u)
           price == PriceAt(side, r, u)
<1>1. s \in Nat BY UtilizationIsNatural, SpreadIsNatural
<1> HIDE DEF s
<1>2. price = IF side = "BUY" THEN r + s ELSE r - s BY DEF PriceAt, s
<1>3. price \in Int BY <1>1, <1>2
<1>4. Quoted(side, amount, r, balance, reserved) \in {price, NoPrice}
      /\ (Quoted(side, amount, r, balance, reserved) # NoPrice =>
            Quoted(side, amount, r, balance, reserved) = price /\ price > 0)
  BY DEF Quoted
<1> HIDE DEF price
<1> QED BY <1>1, <1>2, <1>3, <1>4 DEF NoPrice, Sides

-----------------------------------------------------------------------------
(* The steps of a deal *)

QuotingNext ==
  MatcherQuotes \/ ChainQuotes \/ MarketMoves \/ MoveNight \/ DropDeals

LEMMA TermsOf ==
  ASSUME NEW c \in Customers
  PROVE  Side(c) \in Sides /\ Amount(c) \in Nat /\ Amount(c) > 0
<1>1. Want[c] \in Terms BY QuotingConstants
<1> QED BY <1>1 DEF Terms, Side, Amount

LEMMA PaymentsAreNatural ==
  ASSUME QuotingInv, NEW c \in Customers,
         deal[c].stage \in {"paying", "reserving", "reserved"}
  PROVE  Payment(c) \in Nat /\ deal[c].price \in Nat
<1>1. deal[c].price \in Nat
  BY DEF QuotingInv, QuotingTypeOK, PricedSafely, Deal
<1> QED BY <1>1, TermsOf, ProductsAreNatural DEF Payment

\* Fills move goods and NIGHT at the deal's price.
LEMMA FillMoves ==
  ASSUME QuotingInv, NEW c \in Customers, Fill(c)
  PROVE  /\ Side(c) = "BUY" => /\ stock' - stock = -Amount(c)
                               /\ night' - night = Payment(c) /\ spent' = spent
         /\ Side(c) = "SELL" => /\ stock' - stock = Amount(c)
                                /\ night' - night = -Payment(c)
                                /\ spent' - spent = Payment(c)
         /\ Side(c) \in Sides
<1>1. /\ Payment(c) \in Nat /\ Amount(c) \in Nat /\ Side(c) \in Sides
      /\ stock \in Nat /\ night \in Nat /\ spent \in Nat
  BY PaymentsAreNatural, TermsOf DEF Fill, QuotingInv, QuotingTypeOK
<1> QED BY <1>1 DEF Fill, Sides

LEMMA FillIsFair ==
  ASSUME QuotingInv, NEW c \in Customers, Fill(c)
  PROVE  (stock' - stock) * deal[c].reference + (night' - night) >= 0
<1> DEFINE a == Amount(c)
           r == deal[c].reference
           q == deal[c].price
<1>1. a \in Nat /\ r \in Nat /\ q \in Nat
  BY TermsOf, PaymentsAreNatural DEF Fill, QuotingInv, QuotingTypeOK, Deal
<1>2. Payment(c) = a * q BY DEF Payment
<1>3. PricedSafely(c) BY DEF Fill, QuotingInv
<1>4. CASE Side(c) = "BUY"
  <2>1. r <= q BY <1>3, <1>4 DEF PricedSafely
  <2> HIDE DEF a, r, q
  <2>2. a * r <= a * q BY <1>1, <2>1, ProductsGrow
  <2>3. (-a) * r + a * q >= 0 BY <1>1, <2>2
  <2> QED BY <1>2, <1>4, <2>3, FillMoves DEF a, r
<1>5. CASE Side(c) = "SELL"
  <2>1. q <= r BY <1>3, <1>5 DEF PricedSafely
  <2> HIDE DEF a, r, q
  <2>2. a * q <= a * r BY <1>1, <2>1, ProductsGrow
  <2>3. a * r + (-(a * q)) >= 0 BY <1>1, <2>2
  <2> QED BY <1>2, <1>5, <2>3, FillMoves DEF a, r
<1> QED BY <1>4, <1>5, FillMoves DEF Sides

-----------------------------------------------------------------------------
(* The invariant *)

LEMMA QuotingStarts ==
  ASSUME NEW wanting, QuotingInit(wanting) PROVE QuotingInv
<1> USE QuotingConstants DEF QuotingInit
<1>1. \A c \in Customers : deal[c].stage \in {"absent", "resting"} /\ deal[c].mark = 0
  OBVIOUS
<1>2. deal \in [Customers -> Deal] BY DEF Deal, DealStages, NoPrice
<1>3. QuotingTypeOK BY <1>2 DEF QuotingTypeOK
<1>4. PromiseShortByOutflow BY <1>1 DEF PromiseShortByOutflow
<1> QED BY <1>1, <1>3, <1>4 DEF QuotingInv

\* A step that only takes deals further, and moves NIGHT, keeps the invariant
\* if what leaves the treasury is counted.
LEMMA SmallMoves ==
  ASSUME QuotingInv,
         ({stock, held, night, spent, reference, moves} \subseteq Nat)',
         spent <= spent', night + spent <= night' + spent',
         deal' \in [Customers -> Deal],
         \A c \in Customers :
           /\ deal'[c].price = deal[c].price /\ deal'[c].mark = deal[c].mark
           /\ deal'[c].reference = deal[c].reference
           /\ deal'[c].stage \in {"paying", "reserving", "reserved"} =>
                /\ deal[c].stage \in {"paying", "reserving", "reserved"}
                /\ deal'[c].stage # "paying" => deal[c].stage # "paying"
  PROVE  QuotingInv'
<1> USE DEF QuotingInv, QuotingTypeOK
<1>1. \A c \in Customers : Payment(c)' = Payment(c) BY DEF Payment, Amount
<1>2. PromiseShortByOutflow'
  <2> SUFFICES ASSUME NEW c \in Customers, Side(c) = "SELL",
                      deal'[c].stage \in {"reserving", "reserved"}
               PROVE  Payment(c)' <= night' + (spent' - deal'[c].mark)
    BY DEF PromiseShortByOutflow, Side
  <2>1. deal[c].stage \in {"reserving", "reserved"} OBVIOUS
  <2>2. Payment(c) <= night + (spent - deal[c].mark) BY <2>1 DEF PromiseShortByOutflow
  <2>3. deal[c].mark \in Nat BY DEF Deal
  <2>4. Payment(c) \in Nat BY <2>1, PaymentsAreNatural
  <2> QED BY <1>1, <2>2, <2>3, <2>4
<1>3. \A c \in Customers : (deal[c].mark <= spent)' BY DEF Deal
<1>4. \A c \in Customers :
        (deal[c].stage \in {"paying", "reserving", "reserved"} => PricedSafely(c))'
  BY DEF PricedSafely, Side
<1> QED BY <1>2, <1>3, <1>4

\* A step that moves one deal, and neither NIGHT nor stock, keeps the
\* invariant if that deal does.
LEMMA OneDealMoves ==
  ASSUME QuotingInv, NEW d \in Customers,
         UNCHANGED <<stock, held, night, spent, reference, moves>>,
         NEW e \in Deal, deal' = [deal EXCEPT ![d] = e],
         e.mark <= spent,
         e.stage \in {"paying", "reserving", "reserved"} =>
           /\ e.price > 0
           /\ Side(d) = "BUY" => e.price >= e.reference
           /\ Side(d) = "SELL" => e.price <= e.reference,
         Side(d) = "SELL" /\ e.stage \in {"reserving", "reserved"} =>
           Amount(d) * e.price <= night + (spent - e.mark)
  PROVE  QuotingInv'
<1> USE DEF QuotingInv, QuotingTypeOK
<1>1. deal' \in [Customers -> Deal] /\ deal'[d] = e
      /\ \A c \in Customers \ {d} : deal'[c] = deal[c]
  OBVIOUS
<1>2. ASSUME NEW c \in Customers, Side(c) = "SELL",
             deal'[c].stage \in {"reserving", "reserved"}
      PROVE  Amount(c) * deal'[c].price <= night + (spent - deal'[c].mark)
  BY <1>1, <1>2 DEF PromiseShortByOutflow, Payment
<1>3. PromiseShortByOutflow'
  BY <1>2 DEF PromiseShortByOutflow, Payment, Side, Amount
<1>4. \A c \in Customers : (deal[c].mark <= spent)' BY <1>1
<1>5. \A c \in Customers :
        (deal[c].stage \in {"paying", "reserving", "reserved"} => PricedSafely(c))'
  BY <1>1 DEF PricedSafely, Side
<1> QED BY <1>1, <1>3, <1>4, <1>5

LEMMA MatcherKeepsInv ==
  ASSUME QuotingInv, NEW d \in Customers, Consult(d) \/ Price(d) \/ ReadNight(d)
  PROVE  QuotingInv'
<1> USE DEF QuotingInv, QuotingTypeOK
<1>0. UNCHANGED <<stock, held, night, spent, reference, moves>> /\ deal[d] \in Deal
  BY DEF Consult, Price, ReadNight, treasury, market
<1>1. CASE Consult(d)
  <2> DEFINE e == [deal[d] EXCEPT !.stage = "pricing", !.reference = reference]
  <2>1. deal' = [deal EXCEPT ![d] = e] BY <1>1 DEF Consult
  <2>2. e \in Deal /\ e.stage = "pricing" /\ e.mark = deal[d].mark
    BY <1>0 DEF Deal, DealStages
  <2> HIDE DEF e
  <2> QED BY <1>0, <2>1, <2>2, OneDealMoves
<1>2. CASE Price(d)
  <2> DEFINE q == Quoted(Side(d), Amount(d), deal[d].reference, stock, held)
             s == IF q = NoPrice \/ ~Crosses(d, q) THEN "over"
                  ELSE IF Side(d) = "SELL" THEN "paying" ELSE "reserving"
             e == [stage |-> s, reference |-> deal[d].reference,
                   price |-> q, mark |-> deal[d].mark]
  <2>1. deal' = [deal EXCEPT ![d] = e] BY <1>0, <1>2 DEF Price, Deal
  <2>2. deal[d].reference \in Nat BY <1>0 DEF Deal
  <2>3. /\ q \in Nat
        /\ q # NoPrice => /\ Side(d) = "BUY" => q >= deal[d].reference
                          /\ Side(d) = "SELL" => q <= deal[d].reference
    BY <2>2, TermsOf, QuotesAreSafe
  <2>4. s \in {"over", "paying", "reserving"}
        /\ (s # "over" => q # NoPrice) /\ (s = "reserving" => Side(d) # "SELL")
    OBVIOUS
  <2> HIDE DEF q, s
  <2>5. /\ e \in Deal /\ e.stage = s /\ e.price = q
        /\ e.mark = deal[d].mark /\ e.reference = deal[d].reference
    BY <1>0, <2>3, <2>4 DEF Deal, DealStages
  <2> HIDE DEF e
  <2>6. e.stage \in {"paying", "reserving", "reserved"} =>
          /\ e.price > 0
          /\ Side(d) = "BUY" => e.price >= e.reference
          /\ Side(d) = "SELL" => e.price <= e.reference
    BY <2>3, <2>4, <2>5 DEF NoPrice
  <2>7. ~(Side(d) = "SELL" /\ e.stage \in {"reserving", "reserved"})
    BY <2>4, <2>5
  <2> QED BY <1>0, <2>1, <2>5, <2>6, <2>7, OneDealMoves
<1>3. CASE ReadNight(d)
  <2> DEFINE s == IF Pays(d) THEN "reserving" ELSE "over"
             e == [stage |-> s, reference |-> deal[d].reference,
                   price |-> deal[d].price, mark |-> spent]
  <2>1. deal' = [deal EXCEPT ![d] = e] BY <1>0, <1>3 DEF ReadNight, Deal
  <2>2. s \in {"over", "reserving"} /\ (s = "reserving" => Payment(d) <= night)
    BY DEF Pays
  <2> HIDE DEF s
  <2>3. /\ e \in Deal /\ e.stage = s /\ e.price = deal[d].price
        /\ e.mark = spent /\ e.reference = deal[d].reference
    BY <1>0, <2>2 DEF Deal, DealStages
  <2>4. PricedSafely(d) /\ Payment(d) \in Nat
    BY <1>3, PaymentsAreNatural DEF ReadNight
  <2>5. s = "reserving" => Amount(d) * e.price <= night + (spent - e.mark)
    BY <2>2, <2>3, <2>4 DEF Payment
  <2> HIDE DEF e
  <2>6. e.price > 0 /\ (Side(d) = "BUY" => e.price >= e.reference)
        /\ (Side(d) = "SELL" => e.price <= e.reference)
    BY <2>3, <2>4 DEF PricedSafely
  <2>7. e.stage # "reserved" /\ e.mark <= spent BY <2>2, <2>3
  <2> QED BY <1>0, <2>1, <2>3, <2>5, <2>6, <2>7, OneDealMoves
<1> QED BY <1>1, <1>2, <1>3

LEMMA ChainKeepsInv ==
  ASSUME QuotingInv, NEW d \in Customers,
         Reserve(d) \/ Decline(d) \/ Release(d) \/ Fill(d)
  PROVE  QuotingInv'
<1> DEFINE s == deal'[d].stage
<1> USE DEF QuotingInv, QuotingTypeOK
<1>1. /\ deal[d] \in Deal /\ deal' = [deal EXCEPT ![d].stage = s]
      /\ s \in {"reserved", "over", "filled"}
      /\ s = "reserved" => deal[d].stage = "reserving"
  BY DEF Reserve, Decline, Release, Fill, Goes, Deal
<1>2. /\ {stock, held, night, spent, reference, moves}' \subseteq Nat
      /\ spent <= spent' /\ night + spent <= night' + spent'
  <2>1. CASE Reserve(d) BY <2>1, TermsOf DEF Reserve, market
  <2>2. CASE Decline(d) BY <2>2 DEF Decline, market, treasury
  <2>3. CASE Release(d) BY <2>3, TermsOf DEF Release, market
  <2>4. CASE Fill(d)
    <3>1. /\ Payment(d) \in Nat /\ Amount(d) \in Nat /\ Side(d) \in Sides
      BY <2>4, PaymentsAreNatural, TermsOf DEF Fill
    <3> QED BY <2>4, <3>1 DEF Fill, market, Sides
  <2> QED BY <2>1, <2>2, <2>3, <2>4
<1> HIDE DEF s
<1>3. deal' \in [Customers -> Deal] BY <1>1 DEF Deal, DealStages
<1>4. \A c \in Customers :
        /\ deal'[c].price = deal[c].price /\ deal'[c].mark = deal[c].mark
        /\ deal'[c].reference = deal[c].reference
        /\ deal'[c].stage \in {"paying", "reserving", "reserved"} =>
             /\ deal[c].stage \in {"paying", "reserving", "reserved"}
             /\ deal'[c].stage # "paying" => deal[c].stage # "paying"
  BY <1>1 DEF Deal
<1> QED BY <1>2, <1>3, <1>4, SmallMoves

LEMMA MarketKeepsInv ==
  ASSUME QuotingInv, MarketMoves \/ MoveNight \/ DropDeals PROVE QuotingInv'
<1> USE DEF QuotingInv, QuotingTypeOK
<1>1. /\ {stock, held, night, spent, reference, moves}' \subseteq Nat
      /\ spent <= spent' /\ night + spent <= night' + spent'
  <2>1. CASE MarketMoves
    <3>1. /\ UNCHANGED <<stock, held, night, spent>>
          /\ reference' \in Nat /\ moves' = moves + 1
      BY <2>1, QuotingConstants DEF MarketMoves, treasury
    <3> QED BY <3>1
  <2>2. CASE MoveNight BY <2>2, QuotingConstants DEF MoveNight
  <2>3. CASE DropDeals BY <2>3 DEF DropDeals, treasury, market
  <2> QED BY <2>1, <2>2, <2>3
<1>2. /\ deal' \in [Customers -> Deal]
      /\ \A c \in Customers :
           /\ deal'[c].price = deal[c].price /\ deal'[c].mark = deal[c].mark
           /\ deal'[c].reference = deal[c].reference
           /\ deal'[c].stage \in {deal[c].stage, "over"}
  <2>1. CASE UNCHANGED deal BY <2>1
  <2>2. CASE DropDeals BY <2>2 DEF DropDeals, Deal, DealStages
  <2> QED BY <2>1, <2>2 DEF MarketMoves, MoveNight
<1> QED BY <1>1, <1>2, SmallMoves

LEMMA QuotingStep ==
  ASSUME QuotingInv, QuotingNext \/ UNCHANGED quotingVars PROVE QuotingInv'
<1>1. CASE UNCHANGED quotingVars
  BY <1>1 DEF quotingVars, QuotingInv, QuotingTypeOK, PromiseShortByOutflow,
              Payment, Side, Amount, PricedSafely
<1>2. CASE QuotingNext
  BY <1>2, MatcherKeepsInv, ChainKeepsInv, MarketKeepsInv
     DEF QuotingNext, MatcherQuotes, ChainQuotes
<1> QED BY <1>1, <1>2

-----------------------------------------------------------------------------
(* Among the operator's programs *)

LEMMA ProgramsQuote ==
  ASSUME [Next]_vars PROVE QuotingNext \/ UNCHANGED quotingVars
<1> SUFFICES ASSUME Next PROVE QuotingNext \/ UNCHANGED quotingVars BY DEF vars
<1>1. ASSUME NEW p \in Procs, StopProcess(p)
      PROVE  QuotingNext \/ UNCHANGED quotingVars
  BY <1>1 DEF StopProcess, QuotingNext
<1>2. ASSUME NEW p \in Procs,
             Serve(p) \/ AskChallenge(p) \/ Respond(p) \/ TakeAnswer(p) \/ Attend(p)
      PROVE  UNCHANGED quotingVars
  BY <1>2 DEF Serve, AskChallenge, Respond, TakeAnswer, Attend
<1>3. ASSUME NEW n \in Nonces, Transfer(n) PROVE UNCHANGED quotingVars
  BY <1>3 DEF Transfer
<1>4. CASE TradeMatched \/ QuotePrice \/ DayWithoutTrade
  BY <1>4 DEF TradeMatched, QuotePrice, DayWithoutTrade
<1>5. CASE QuoteDeals BY <1>5 DEF QuoteDeals, QuotingNext
<1> QED BY <1>1, <1>2, <1>3, <1>4, <1>5 DEF Next

\* The inductive invariant of the quotes.
THEOREM QuotingSafe == Spec => []QuotingInv
<1>1. Init => QuotingInv BY QuotingStarts DEF Init
<1>2. QuotingInv /\ [Next]_vars => QuotingInv' BY QuotingStep, ProgramsQuote
<1> QED BY <1>1, <1>2, PTL DEF Spec

\* The NIGHT promised to a seller falls short only by what has left the
\* treasury since PPMService.ts looked for it, for any number of quotes at once.
THEOREM PromisesAreMissedByOutflow == Spec => []PromiseShortByOutflow
<1>1. QuotingInv => PromiseShortByOutflow BY DEF QuotingInv
<1> QED BY <1>1, QuotingSafe, PTL

\* A deal is filled by its fill.
LEMMA OnlyFillFills ==
  ASSUME QuotingInv, QuotingNext, NEW c \in Customers,
         deal[c].stage = "reserved", deal'[c].stage = "filled"
  PROVE  Fill(c)
<1> USE DEF QuotingInv, QuotingTypeOK
<1>1. ASSUME NEW d \in Customers, Consult(d) \/ Price(d) \/ ReadNight(d)
      PROVE  FALSE
  <2>1. \E s \in {"pricing", "paying", "reserving", "over"} :
          deal'[d].stage = s /\ \A x \in Customers \ {d} : deal'[x] = deal[x]
    BY <1>1 DEF Consult, Price, ReadNight
  <2> QED BY <2>1
<1>2. ASSUME NEW d \in Customers, Reserve(d) \/ Decline(d) \/ Release(d)
      PROVE  FALSE
  <2>1. \E s \in {"reserved", "over"} :
          deal'[d].stage = s /\ \A x \in Customers \ {d} : deal'[x] = deal[x]
    BY <1>2 DEF Reserve, Decline, Release, Goes, Deal
  <2> QED BY <2>1
<1>3. ASSUME NEW d \in Customers, Fill(d) PROVE Fill(c)
  <2>1. d = c BY <1>3 DEF Fill, Goes
  <2> QED BY <1>3, <2>1
<1>4. CASE MarketMoves \/ MoveNight BY <1>4 DEF MarketMoves, MoveNight
<1>5. CASE DropDeals BY <1>5 DEF DropDeals
<1> QED BY <1>1, <1>2, <1>3, <1>4, <1>5
        DEF QuotingNext, MatcherQuotes, ChainQuotes

\* No fill of a quote loses at the reference price the quote was made from
\* (PricingEngine.ts, settleWithProtocol), whatever the spread, the amounts
\* and the utilization, and wherever the market has gone since.
THEOREM TreasuryTradesFairly == Spec => FairToTreasury
<1> DEFINE A == \A c \in Customers :
                  deal[c].stage = "reserved" /\ deal'[c].stage = "filled" =>
                    (stock' - stock) * deal[c].reference + (night' - night) >= 0
<1>1. ASSUME QuotingInv, QuotingNext PROVE A
  BY <1>1, OnlyFillFills, FillIsFair
<1>2. ASSUME QuotingInv, [Next]_vars PROVE [A]_quotingVars
  BY <1>1, <1>2, ProgramsQuote
<1>3. QuotingInv /\ [Next]_vars => [A]_quotingVars BY <1>2
<1> QED BY <1>3, QuotingSafe, PTL DEF Spec, FairToTreasury

-----------------------------------------------------------------------------
(* What a taker is charged *)

\* The spread of a treasury that has reserved all it has: the most the base
\* spread and the skew of PricingEngine.ts come to.
WidestSpread(r) == (r * (BaseSpreadBps + InventorySkewBps)) \div Bps

\* The contract reserves no more of the token than the treasury holds.
HeldIsInStock == held <= stock

\* A deal that goes on is within the order's limit, and no further from the
\* reference price it was made from than the widest spread, however many
\* reservations were made and spent between the read and the fill.
QuotedWithinSpread ==
  \A c \in Customers :
    deal[c].stage \in {"paying", "reserving", "reserved", "filled"} =>
      /\ Crosses(c, deal[c].price)
      /\ Side(c) = "BUY" =>
           deal[c].price <= deal[c].reference + WidestSpread(deal[c].reference)
      /\ Side(c) = "SELL" =>
           deal[c].price >= deal[c].reference - WidestSpread(deal[c].reference)

LEMMA QuotientsGrow ==
  ASSUME NEW x \in Int, NEW y \in Int, x <= y PROVE x \div 10000 <= y \div 10000
OBVIOUS

LEMMA UtilizationIsAFraction ==
  ASSUME NEW balance \in Nat, NEW reserved \in Nat, reserved <= balance
  PROVE  UtilizationBps(balance, reserved) <= 10000
<1>1. CASE balance > 0
  <2> DEFINE x == reserved * 10000
             u == x \div balance
  <2>1. x \in Nat /\ x <= balance * 10000 OBVIOUS
  <2> HIDE DEF x
  <2>2. \A n \in Nat, b \in Nat \ {0} : n \div b \in Nat /\ b * (n \div b) <= n
    BY SMTT(30)
  <2>3. u \in Nat /\ balance * u <= x BY <1>1, <2>1, <2>2
  <2> HIDE DEF u
  <2>4. ASSUME u >= 10001 PROVE FALSE
    <3>1. balance * 10001 <= balance * u BY <2>3, <2>4, ProductsGrow
    <3>2. balance * 10001 <= balance * 10000 BY <2>1, <2>3, <3>1, ProductsAreNatural
    <3> QED BY <1>1, <3>2
  <2>5. u <= 10000 BY <2>3, <2>4
  <2> QED BY <1>1, <2>5 DEF UtilizationBps, Bps, u, x
<1>2. CASE ~(balance > 0) BY <1>2 DEF UtilizationBps
<1> QED BY <1>1, <1>2

LEMMA SkewIsBounded ==
  ASSUME NEW u \in Nat, u <= 10000 PROVE SkewBps(u) <= InventorySkewBps
<1> DEFINE x == u * InventorySkewBps
<1>1. x \in Nat /\ InventorySkewBps \in Nat BY PricingConstants, ProductsAreNatural
<1>2. InventorySkewBps * u <= InventorySkewBps * 10000 BY <1>1, ProductsGrow
<1>3. x <= InventorySkewBps * 10000 BY <1>1, <1>2
<1> HIDE DEF x
<1>4. x \div 10000 \in Nat /\ x \div 10000 <= InventorySkewBps BY <1>1, <1>3
<1>5. SkewBps(u) \in {x \div 10000, (x \div 10000) - 1}
  <2>1. CASE u \in RoundedDown BY <2>1 DEF SkewBps, Bps, x
  <2>2. CASE u \notin RoundedDown
    <3>1. SkewBps(u) = (x \div 10000) - 0 BY <2>2 DEF SkewBps, Bps, x
    <3> QED BY <1>4, <3>1
  <2> QED BY <2>1, <2>2
<1> QED BY <1>1, <1>4, <1>5

LEMMA SpreadIsBounded ==
  ASSUME NEW r \in Nat, NEW u \in Nat, u <= 10000
  PROVE  Spread(r, u) \in Nat /\ WidestSpread(r) \in Nat
         /\ Spread(r, u) <= WidestSpread(r)
<1> DEFINE k == BaseSpreadBps + SkewBps(u)
           w == BaseSpreadBps + InventorySkewBps
           x == r * k
           y == r * w
<1>1. k \in Nat /\ w \in Nat /\ k <= w BY SkewIsNatural, SkewIsBounded, PricingConstants
<1>2. Spread(r, u) = x \div 10000 /\ WidestSpread(r) = y \div 10000
  BY DEF Spread, WidestSpread, Bps
<1> HIDE DEF k, w
<1>3. x \in Nat /\ y \in Nat /\ x <= y BY <1>1, ProductsAreNatural, ProductsGrow
<1> HIDE DEF x, y
<1>4. x \div 10000 \in Nat /\ y \div 10000 \in Nat BY <1>3
<1>5. x \div 10000 <= y \div 10000 BY <1>3, QuotientsGrow
<1> QED BY <1>2, <1>4, <1>5

\* A quote is never dearer than the widest spread makes it.
LEMMA QuotesAreBounded ==
  ASSUME NEW side \in Sides, NEW amount \in Nat, NEW r \in Nat,
         NEW balance \in Nat, NEW reserved \in Nat, reserved <= balance
  PROVE  LET q == Quoted(side, amount, r, balance, reserved) IN
         q # NoPrice => /\ side = "BUY" => q <= r + WidestSpread(r)
                        /\ side = "SELL" => q >= r - WidestSpread(r)
<1> DEFINE u == UtilizationBps(balance, reserved)
           s == Spread(r, u)
           w == WidestSpread(r)
           price == PriceAt(side, r, u)
<1>1. u \in Nat /\ u <= 10000 BY UtilizationIsNatural, UtilizationIsAFraction
<1> HIDE DEF u
<1>2. s \in Nat /\ w \in Nat /\ s <= w BY <1>1, SpreadIsBounded
<1>3. price = IF side = "BUY" THEN r + s ELSE r - s BY DEF PriceAt
<1>4. Quoted(side, amount, r, balance, reserved) \in {price, NoPrice}
  BY DEF Quoted, u
<1> HIDE DEF price, s, w
<1> QED BY <1>2, <1>3, <1>4 DEF w

TakerInv == HeldIsInStock /\ QuotedWithinSpread

\* A step that makes no price keeps what was charged.
LEMMA KeptDeals ==
  ASSUME QuotedWithinSpread,
         \A c \in Customers :
           deal'[c].stage \in {"paying", "reserving", "reserved", "filled"} =>
             /\ deal[c].stage \in {"paying", "reserving", "reserved", "filled"}
             /\ deal'[c].price = deal[c].price
             /\ deal'[c].reference = deal[c].reference
  PROVE  QuotedWithinSpread'
BY DEF QuotedWithinSpread, Crosses, Side

LEMMA HeldStep ==
  ASSUME QuotingInv, HeldIsInStock, QuotingNext PROVE HeldIsInStock'
<1> USE DEF HeldIsInStock
<1>1. stock \in Nat /\ held \in Nat BY DEF QuotingInv, QuotingTypeOK
<1>2. ASSUME NEW d \in Customers, Reserve(d) \/ Decline(d) \/ Release(d) \/ Fill(d)
      PROVE  held' <= stock'
  <2>1. Amount(d) \in Nat /\ Side(d) \in Sides BY TermsOf
  <2>2. CASE Reserve(d) BY <1>1, <2>1, <2>2 DEF Reserve
  <2>3. CASE Decline(d) BY <2>3 DEF Decline, treasury
  <2>4. CASE Release(d) BY <1>1, <2>1, <2>4 DEF Release
  <2>5. CASE Fill(d) BY <1>1, <2>1, <2>5 DEF Fill, Sides
  <2> QED BY <1>2, <2>2, <2>3, <2>4, <2>5
<1>3. CASE UNCHANGED <<stock, held>> BY <1>3
<1>4. \/ UNCHANGED <<stock, held>>
      \/ \E d \in Customers : Reserve(d) \/ Decline(d) \/ Release(d) \/ Fill(d)
  BY DEF QuotingNext, MatcherQuotes, ChainQuotes, Consult, Price, ReadNight,
         treasury, MarketMoves, MoveNight, DropDeals
<1> QED BY <1>2, <1>3, <1>4

LEMMA ChargedStep ==
  ASSUME QuotingInv, TakerInv, QuotingNext PROVE QuotedWithinSpread'
<1> USE DEF QuotingInv, QuotingTypeOK
<1> DEFINE Live == {"paying", "reserving", "reserved", "filled"}
<1>1. QuotedWithinSpread /\ HeldIsInStock /\ stock \in Nat /\ held \in Nat
      /\ deal \in [Customers -> Deal]
  BY DEF TakerInv
<1>2. ASSUME NEW d \in Customers, Price(d) PROVE QuotedWithinSpread'
  <2> DEFINE r == deal[d].reference
             q == Quoted(Side(d), Amount(d), r, stock, held)
  <2>1. r \in Nat /\ held <= stock BY <1>1 DEF Deal, HeldIsInStock
  <2>2. q # NoPrice => /\ Side(d) = "BUY" => q <= r + WidestSpread(r)
                       /\ Side(d) = "SELL" => q >= r - WidestSpread(r)
    BY <1>1, <2>1, TermsOf, QuotesAreBounded
  <2>3. /\ deal'[d].price = q /\ deal'[d].reference = r
        /\ deal'[d].stage \in Live => q # NoPrice /\ Crosses(d, q)
        /\ \A c \in Customers : c # d => deal'[c] = deal[c]
    BY <1>1, <1>2 DEF Price, Deal
  <2> HIDE DEF r, q
  <2> QED BY <1>1, <2>2, <2>3 DEF QuotedWithinSpread, Crosses, Side
<1>3. ASSUME NEW d \in Customers, Consult(d) PROVE QuotedWithinSpread'
  <2>1. deal'[d].stage = "pricing"
        /\ \A c \in Customers : c # d => deal'[c] = deal[c]
    BY <1>1, <1>3 DEF Consult, Deal
  <2> QED BY <1>1, <2>1, KeptDeals
<1>4. ASSUME NEW d \in Customers, ReadNight(d) PROVE QuotedWithinSpread'
  <2>1. /\ deal[d].stage \in Live /\ deal'[d].price = deal[d].price
        /\ deal'[d].reference = deal[d].reference
        /\ \A c \in Customers : c # d => deal'[c] = deal[c]
    BY <1>1, <1>4 DEF ReadNight, Deal
  <2> QED BY <1>1, <2>1, KeptDeals
<1>5. ASSUME NEW d \in Customers, Reserve(d) \/ Decline(d) \/ Release(d) \/ Fill(d)
      PROVE  QuotedWithinSpread'
  <2>1. /\ deal[d].stage \in Live /\ deal'[d].price = deal[d].price
        /\ deal'[d].reference = deal[d].reference
        /\ \A c \in Customers : c # d => deal'[c] = deal[c]
    BY <1>1, <1>5 DEF Reserve, Decline, Release, Fill, Goes, Deal
  <2> QED BY <1>1, <2>1, KeptDeals
<1>6. CASE DropDeals
  <2>1. \A c \in Customers : deal'[c] = deal[c] \/ deal'[c].stage = "over"
    BY <1>1, <1>6 DEF DropDeals, Deal
  <2> QED BY <1>1, <2>1, KeptDeals
<1>7. CASE UNCHANGED deal BY <1>1, <1>7, KeptDeals
<1> QED BY <1>2, <1>3, <1>4, <1>5, <1>6, <1>7
        DEF QuotingNext, MatcherQuotes, ChainQuotes, MarketMoves, MoveNight

LEMMA TakerInvariant == Spec => []TakerInv
<1>1. Init => TakerInv
  BY QuotingConstants
     DEF Init, QuotingInit, TakerInv, HeldIsInStock, QuotedWithinSpread
<1>2. ASSUME QuotingInv, TakerInv, [Next]_vars PROVE TakerInv'
  <2>1. CASE QuotingNext BY <1>2, <2>1, HeldStep, ChargedStep DEF TakerInv
  <2>2. CASE UNCHANGED quotingVars
    <3>1. UNCHANGED <<stock, held, deal>> BY <2>2 DEF quotingVars
    <3> QED BY <1>2, <3>1, KeptDeals DEF TakerInv, HeldIsInStock
  <2> QED BY <1>2, <2>1, <2>2, ProgramsQuote
<1>3. QuotingInv /\ TakerInv /\ [Next]_vars => TakerInv' BY <1>2
<1> QED BY <1>1, <1>3, QuotingSafe, PTL DEF Spec

\* The treasury gains at most the widest spread by a fill, at the reference
\* price its quote started from, and never beyond the order's limit price.
FairToTaker ==
  [][\A c \in Customers :
       deal[c].stage = "reserved" /\ deal'[c].stage = "filled" =>
         /\ (stock' - stock) * deal[c].reference + (night' - night)
              <= Amount(c) * WidestSpread(deal[c].reference)
         /\ Crosses(c, deal[c].price)]_quotingVars

LEMMA FillIsFairToTaker ==
  ASSUME QuotingInv, TakerInv, NEW c \in Customers, Fill(c)
  PROVE  /\ (stock' - stock) * deal[c].reference + (night' - night)
              <= Amount(c) * WidestSpread(deal[c].reference)
         /\ Crosses(c, deal[c].price)
<1> DEFINE a == Amount(c)
           r == deal[c].reference
           q == deal[c].price
           w == WidestSpread(deal[c].reference)
<1>1. a \in Nat /\ r \in Nat /\ q \in Nat
  BY TermsOf, PaymentsAreNatural DEF Fill, QuotingInv, QuotingTypeOK, Deal
<1>2. w \in Nat BY <1>1, SpreadIsBounded
<1>3. Payment(c) = a * q BY DEF Payment
<1>4. /\ Crosses(c, q)
      /\ Side(c) = "BUY" => q <= r + w
      /\ Side(c) = "SELL" => q >= r - w
  BY DEF Fill, TakerInv, QuotedWithinSpread
<1>5. CASE Side(c) = "BUY"
  <2>1. q <= r + w BY <1>4, <1>5
  <2> HIDE DEF a, r, q, w
  <2>2. a * q <= a * (r + w) BY <1>1, <1>2, <2>1, ProductsGrow
  <2>3. (-a) * r + a * q <= a * w BY <1>1, <1>2, <2>2
  <2> QED BY <1>3, <1>4, <1>5, <2>3, FillMoves DEF a, r, q, w
<1>6. CASE Side(c) = "SELL"
  <2>1. r <= q + w BY <1>1, <1>2, <1>4, <1>6
  <2> HIDE DEF a, r, q, w
  <2>2. a * r <= a * (q + w) BY <1>1, <1>2, <2>1, ProductsGrow
  <2>3. a * r + (-(a * q)) <= a * w BY <1>1, <1>2, <2>2
  <2> QED BY <1>3, <1>4, <1>6, <2>3, FillMoves DEF a, r, q, w
<1> QED BY <1>5, <1>6, FillMoves DEF Sides

\* And the other side of the bargain: no fill takes more from its owner than
\* the base spread and the whole skew, nor than the order's limit allows,
\* whatever other quotes reserved, filled or released in between.
THEOREM TakersTradeFairly == Spec => FairToTaker
<1> DEFINE A == \A c \in Customers :
       deal[c].stage = "reserved" /\ deal'[c].stage = "filled" =>
         /\ (stock' - stock) * deal[c].reference + (night' - night)
              <= Amount(c) * WidestSpread(deal[c].reference)
         /\ Crosses(c, deal[c].price)
<1>1. ASSUME QuotingInv, TakerInv, QuotingNext PROVE A
  BY <1>1, OnlyFillFills, FillIsFairToTaker
<1>2. QuotingInv /\ TakerInv /\ [Next]_vars => [A]_quotingVars
  BY <1>1, ProgramsQuote
<1> QED BY <1>2, QuotingSafe, TakerInvariant, PTL DEF Spec, FairToTaker
=============================================================================
