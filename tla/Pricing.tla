------------------------------ MODULE Pricing ------------------------------
(***************************************************************************)
(* What the protocol asks or bids for a token: PricingEngine.ts.  All of   *)
(* it is integer arithmetic in basis points, except that the skew is the   *)
(* floor of a product of two floating-point numbers: RoundedDown holds the *)
(* utilizations where that product falls just short of a whole number.     *)
(***************************************************************************)
EXTENDS Integers

CONSTANTS
  BaseSpreadBps, InventorySkewBps,   \* PricingConfig
  MaxExposureBps,                    \* maxExposureFraction, in basis points
  RoundedDown

Bps == 10000

ASSUME PricingConstants ==
  /\ BaseSpreadBps \in Nat /\ InventorySkewBps \in Nat
  /\ MaxExposureBps \in 0..Bps
  /\ RoundedDown \subseteq 1..Bps
  /\ \A u \in RoundedDown : /\ u * InventorySkewBps > 0
                            /\ (u * InventorySkewBps) % Bps = 0

Sides == {"BUY", "SELL"}
NoPrice == 0      \* null

\* Liquidity is what the treasury has of a token, and has reserved of it.
UtilizationBps(balance, reserved) ==
  IF balance > 0 THEN (reserved * Bps) \div balance ELSE 0

SkewBps(u) ==
  (u * InventorySkewBps) \div Bps - (IF u \in RoundedDown THEN 1 ELSE 0)

Spread(reference, u) == (reference * (BaseSpreadBps + SkewBps(u))) \div Bps

\* The risk limit: one quote takes a fraction of what is available.
Coverable(amount, balance, reserved) ==
  /\ amount > 0
  /\ amount <= ((balance - reserved) * MaxExposureBps) \div Bps

\* Slip: the spread is given to the taker.
PriceForTaker(side, reference, u) ==
  IF side = "BUY" THEN reference - Spread(reference, u)
                  ELSE reference + Spread(reference, u)

\* Whoever buys pays more than the reference price, whoever sells gets less.
PriceAt(side, reference, u) ==
  IF side = "BUY" THEN reference + Spread(reference, u)
                  ELSE reference - Spread(reference, u)

\* PricingEngine.quote.
Quoted(side, amount, reference, balance, reserved) ==
  LET price == PriceAt(side, reference, UtilizationBps(balance, reserved)) IN
  IF reference > 0 /\ Coverable(amount, balance, reserved) /\ price > 0
  THEN price ELSE NoPrice
=============================================================================
