---------------------------- MODULE MCExchange -----------------------------
(* Small instances of the exchange contract for TLC. *)
EXTENDS ExchangeProperties

CONSTANTS zkr, night, alice, bob

\* Alice buys and Bob sells one unit at crossing prices; Bob also buys, at a
\* price that crosses only the protocol's quote, and outlives the others.
TradeCommitments ==
  {[asset |-> zkr, isBuy |-> TRUE, price |-> 2, amount |-> 1,
    owner |-> alice, expiresAt |-> 1],
   [asset |-> zkr, isBuy |-> FALSE, price |-> 2, amount |-> 1,
    owner |-> bob, expiresAt |-> 2],
   [asset |-> zkr, isBuy |-> TRUE, price |-> 1, amount |-> 1,
    owner |-> bob, expiresAt |-> 2]}

TradeTerms ==
  {[assetKey |-> zkr, amount |-> 1, price |-> 1, expiresAt |-> 1],
   [assetKey |-> zkr, amount |-> 1, price |-> 2, expiresAt |-> 2]}

\* One order per side and asset, the payment asset itself included.
TreasuryCommitments ==
  {[asset |-> zkr, isBuy |-> FALSE, price |-> 1, amount |-> 1,
    owner |-> alice, expiresAt |-> 2],
   [asset |-> zkr, isBuy |-> TRUE, price |-> 2, amount |-> 1,
    owner |-> alice, expiresAt |-> 2],
   [asset |-> night, isBuy |-> TRUE, price |-> 2, amount |-> 1,
    owner |-> alice, expiresAt |-> 2]}

TreasuryTerms ==
  {[assetKey |-> zkr, amount |-> 1, price |-> 2, expiresAt |-> 1],
   [assetKey |-> night, amount |-> 1, price |-> 2, expiresAt |-> 1]}

\* Amounts and prices whose product exceeds the field: 13 * 9 = 117.
WideCommitments ==
  {[asset |-> zkr, isBuy |-> TRUE, price |-> 13, amount |-> 9,
    owner |-> alice, expiresAt |-> 1]}

WideTerms ==
  {[assetKey |-> zkr, amount |-> 9, price |-> p, expiresAt |-> 1] :
     p \in {1, 13}}
=============================================================================
