----------------------------- MODULE Exchange ------------------------------
(***************************************************************************)
(* The exchange contract, contracts/exchange.compact: order registry,      *)
(* settlement, treasury and reservations.  One action per circuit; a       *)
(* circuit runs alone and a failed assert undoes all of it, so a circuit   *)
(* is one step whose asserts are its guard.                                *)
(*                                                                         *)
(* A Uint<128> ranges over 0..MaxUint and a cast that does not fit, or a   *)
(* subtraction below zero, fails the circuit.  A Field is taken modulo     *)
(* FieldOrder.  A commitment hides and binds its preimage, so it is        *)
(* modelled by the details it was made from: the one witness that opens it.*)
(***************************************************************************)
EXTENDS Integers, FiniteSets

CONSTANTS
  OrderIds, QuoteIds, Assets, Owners, AdminIds,
  Night,          \* nativeToken(), the asset every payment is made in
  InitialAdmin,   \* the constructor's argument
  Commitments,    \* the order details wallets commit to
  QuoteTerms,     \* the terms reservations are opened on
  Amounts,        \* amounts deposited and withdrawn
  MaxUint,        \* largest Uint<128>
  FieldOrder,     \* order of the prime field the circuits compute in
  MaxSeq,         \* largest Uint<64> of treasuryHistorySeq; bounds runs
  MaxTime,        \* last block time a run reaches; bounds runs
  NoCommitment    \* stands for "no entry" in the orders Map

OrderDetails == [asset: Assets, isBuy: BOOLEAN, price: Nat, amount: Nat,
                 owner: Owners, expiresAt: Nat]
Terms == [assetKey: Assets, amount: Nat, price: Nat, expiresAt: Nat]

ASSUME ExchangeConstants ==
  /\ Night \in Assets /\ InitialAdmin \in AdminIds
  /\ Commitments \subseteq OrderDetails /\ NoCommitment \notin Commitments
  /\ QuoteTerms \subseteq Terms
  /\ Amounts \subseteq Nat
  /\ MaxUint \in Nat /\ FieldOrder \in Nat \ {0}
  /\ MaxSeq \in Nat /\ MaxTime \in Nat

VARIABLES
  orders,               \* orderId -> commitment and state
  settledPairs,         \* settlement ids: <<buyId, sellId>>
  eventLog,             \* set of <<kind, orderId>>
  treasuryBalances, treasuryReserved,   \* per asset, no entry read as 0
  admins,
  treasuryHistory,      \* kind -> asset -> total amount of the rows logged
  treasuryHistorySeq,
  reservations,         \* quoteId -> terms and state
  custody,              \* coins the contract really holds, per asset
  now                   \* block time

orderVars == <<orders, settledPairs, eventLog>>
treasuryVars == <<treasuryBalances, treasuryReserved, treasuryHistory,
                  treasuryHistorySeq, reservations, custody>>
vars == <<orderVars, treasuryVars, admins, now>>

OrderStates == {"NONE", "OPEN", "FILLED", "CANCELLED", "EXPIRED"}
EventKinds == {"CREATED", "CANCELLED", "FILLED"}
TxKinds == {"DEPOSIT", "WITHDRAW", "RESERVE", "RELEASE", "EXECUTE"}
ReservationStates == {"NONE", "OPEN", "RELEASED", "EXECUTED"}

\* The terms of a quoteId with no entry in the reservations Map.
NoTerms == [assetKey |-> Night, amount |-> 0, price |-> 0, expiresAt |-> 0]

Init ==
  /\ orders = [id \in OrderIds |->
                 [commitment |-> NoCommitment, state |-> "NONE"]]
  /\ settledPairs = {}
  /\ eventLog = {}
  /\ treasuryBalances = [a \in Assets |-> 0]
  /\ treasuryReserved = [a \in Assets |-> 0]
  /\ admins = {InitialAdmin}
  /\ treasuryHistory = [k \in TxKinds |-> [a \in Assets |-> 0]]
  /\ treasuryHistorySeq = 0
  /\ reservations = [q \in QuoteIds |-> [terms |-> NoTerms, state |-> "NONE"]]
  /\ custody = [a \in Assets |-> 0]
  /\ now = 0

-----------------------------------------------------------------------------
(* Helpers shared by the circuits *)

BlockTimeGte(t) == now >= t

\* Slip: an order already filled counts as open.
IsOpenOrFilled(id) == orders[id].state \in {"OPEN", "FILLED"}

IsOpen(id) == orders[id].state = "OPEN"

\* Slip: a released reservation can be released again.
IsHeldOrReleased(q) == reservations[q].state \in {"OPEN", "RELEASED"}

IsHeld(q) == reservations[q].state = "OPEN"
Details(id) == orders[id].commitment   \* verifyOrderCommitment

RecordEvents(kind, ids) == eventLog' = eventLog \cup ({kind} \X ids)

\* Slip: settleWithProtocol does not log its row.
RecordAllButExecute(kind, asset, amount) ==
  IF kind = "EXECUTE"
  THEN UNCHANGED <<treasuryHistorySeq, treasuryHistory>>
  ELSE /\ treasuryHistorySeq + 1 <= MaxSeq
       /\ treasuryHistorySeq' = treasuryHistorySeq + 1
       /\ treasuryHistory' = [treasuryHistory EXCEPT ![kind][asset] = @ + amount]

RecordTreasuryTx(kind, asset, amount) ==
  /\ treasuryHistorySeq + 1 <= MaxSeq
  /\ treasuryHistorySeq' = treasuryHistorySeq + 1
  /\ treasuryHistory' = [treasuryHistory EXCEPT ![kind][asset] = @ + amount]

\* Slip: the reserved amount is left out of the check.
AvailableUnreserved(asset, amount) == amount <= treasuryBalances[asset]

\* What may be withdrawn or reserved is what no open reservation holds.
Available(asset, amount) ==
  amount + treasuryReserved[asset] <= treasuryBalances[asset]

-----------------------------------------------------------------------------
(* Order registry *)

CreateOrder(id, commitment) ==
  /\ orders[id].state = "NONE"
  /\ orders' = [orders EXCEPT ![id] = [commitment |-> commitment,
                                       state |-> "OPEN"]]
  /\ RecordEvents("CREATED", {id})
  /\ UNCHANGED <<settledPairs, treasuryVars, admins, now>>

CancelOrder(caller, id) ==
  /\ IsOpen(id)
  /\ Details(id).owner = caller
  /\ orders' = [orders EXCEPT ![id].state = "CANCELLED"]
  /\ RecordEvents("CANCELLED", {id})
  /\ UNCHANGED <<settledPairs, treasuryVars, admins, now>>

\* Slip: the state is not checked, only that the order exists.
ExpireAnyOrder(id) ==
  /\ orders[id].state # "NONE"
  /\ BlockTimeGte(Details(id).expiresAt)
  /\ orders' = [orders EXCEPT ![id].state = "EXPIRED"]
  /\ UNCHANGED <<settledPairs, eventLog, treasuryVars, admins, now>>

ExpireOrder(id) ==
  /\ IsOpen(id)
  /\ BlockTimeGte(Details(id).expiresAt)
  /\ orders' = [orders EXCEPT ![id].state = "EXPIRED"]
  /\ UNCHANGED <<settledPairs, eventLog, treasuryVars, admins, now>>

Crosses(buy, sell) ==
  /\ buy.isBuy /\ ~sell.isBuy
  /\ buy.asset = sell.asset
  /\ buy.amount = sell.amount
  /\ buy.price >= sell.price
  /\ buy.owner # sell.owner

Settle(buyId, sellId) ==
  /\ buyId # sellId
  /\ IsOpen(buyId) /\ IsOpen(sellId)
  /\ <<buyId, sellId>> \notin settledPairs
  /\ ~BlockTimeGte(Details(buyId).expiresAt)
  /\ ~BlockTimeGte(Details(sellId).expiresAt)
  /\ Crosses(Details(buyId), Details(sellId))
  /\ settledPairs' = settledPairs \cup {<<buyId, sellId>>}
  /\ orders' = [orders EXCEPT ![buyId].state = "FILLED",
                              ![sellId].state = "FILLED"]
  /\ RecordEvents("FILLED", {buyId, sellId})
  /\ UNCHANGED <<treasuryVars, admins, now>>

-----------------------------------------------------------------------------
(* Treasury: administrators and funding *)

AddAdmin(caller, new) ==
  /\ caller \in admins
  /\ admins' = admins \cup {new}
  /\ UNCHANGED <<orderVars, treasuryVars, now>>

RemoveAdmin(caller, target) ==
  /\ caller \in admins /\ target \in admins
  /\ Cardinality(admins) > 1
  /\ admins' = admins \ {target}
  /\ UNCHANGED <<orderVars, treasuryVars, now>>

DepositTreasury(caller, asset, amount) ==
  /\ caller \in admins
  /\ amount > 0
  /\ treasuryBalances[asset] + amount <= MaxUint
  /\ custody' = [custody EXCEPT ![asset] = @ + amount]
  /\ treasuryBalances' = [treasuryBalances EXCEPT ![asset] = @ + amount]
  /\ RecordTreasuryTx("DEPOSIT", asset, amount)
  /\ UNCHANGED <<orderVars, treasuryReserved, reservations, admins, now>>

WithdrawTreasury(caller, asset, amount) ==
  /\ caller \in admins
  /\ amount > 0
  /\ Available(asset, amount)
  /\ treasuryBalances' = [treasuryBalances EXCEPT ![asset] = @ - amount]
  /\ custody' = [custody EXCEPT ![asset] = @ - amount]
  /\ RecordTreasuryTx("WITHDRAW", asset, amount)
  /\ UNCHANGED <<orderVars, treasuryReserved, reservations, admins, now>>

-----------------------------------------------------------------------------
(* Treasury: reservations *)

ReserveLiquidity(caller, q, terms) ==
  /\ caller \in admins
  /\ reservations[q].state = "NONE"
  /\ terms.amount > 0
  /\ Available(terms.assetKey, terms.amount)
  /\ reservations' = [reservations EXCEPT ![q] = [terms |-> terms,
                                                  state |-> "OPEN"]]
  /\ treasuryReserved' = [treasuryReserved EXCEPT ![terms.assetKey] =
                            @ + terms.amount]
  /\ RecordTreasuryTx("RESERVE", terms.assetKey, terms.amount)
  /\ UNCHANGED <<orderVars, treasuryBalances, custody, admins, now>>

\* The body releaseLiquidity and releaseExpiredLiquidity share.
Release(q) ==
  LET r == reservations[q].terms IN
  /\ IsHeld(q)
  /\ r.amount <= treasuryReserved[r.assetKey]
  /\ reservations' = [reservations EXCEPT ![q].state = "RELEASED"]
  /\ treasuryReserved' = [treasuryReserved EXCEPT ![r.assetKey] = @ - r.amount]
  /\ RecordTreasuryTx("RELEASE", r.assetKey, r.amount)
  /\ UNCHANGED <<orderVars, treasuryBalances, custody, admins, now>>

ReleaseLiquidity(caller, q) == caller \in admins /\ Release(q)

ReleaseExpiredLiquidity(q) ==
  BlockTimeGte(reservations[q].terms.expiresAt) /\ Release(q)

-----------------------------------------------------------------------------
(* Treasury: filling an order from protocol liquidity *)

\* The guards of settleWithProtocol that both sides share.
ProtocolFillAllowed(caller, d, r) ==
  /\ ~BlockTimeGte(r.expiresAt)
  /\ ~BlockTimeGte(d.expiresAt)
  /\ d.owner = caller
  /\ d.asset = r.assetKey
  /\ d.amount = r.amount
  /\ IF d.isBuy THEN d.price >= r.price ELSE d.price <= r.price

\* (amount as Field) * price, before the downcast to Uint<128>.
PaymentAmount(r) == (r.amount * r.price) % FieldOrder

\* A ledger of coins after `out` of one asset leaves it and `in` of another
\* enters it, the second entry read after the first is written.
PayOutThenIn(ledger, outAsset, out, inAsset, in) ==
  [[ledger EXCEPT ![outAsset] = @ - out] EXCEPT ![inAsset] = @ + in]

PayInThenOut(ledger, inAsset, in, outAsset, out) ==
  [[ledger EXCEPT ![inAsset] = @ + in] EXCEPT ![outAsset] = @ - out]

\* Slip: the NIGHT balance is read before the asset balance is written.
ProtocolSellsStale(r, payment) ==
  /\ r.amount <= treasuryBalances[r.assetKey]
  /\ treasuryBalances' =
       [a \in Assets |->
          IF a = Night THEN treasuryBalances[a] + payment
          ELSE IF a = r.assetKey THEN treasuryBalances[a] - r.amount
          ELSE treasuryBalances[a]]
  /\ treasuryBalances'[Night] <= MaxUint
  /\ custody' = PayOutThenIn(custody, r.assetKey, r.amount, Night, payment)

\* Protocol sells: the asset goes out, then the payment comes in.
ProtocolSells(r, payment) ==
  /\ r.amount <= treasuryBalances[r.assetKey]
  /\ treasuryBalances' =
       PayOutThenIn(treasuryBalances, r.assetKey, r.amount, Night, payment)
  /\ treasuryBalances'[Night] <= MaxUint
  /\ custody' = PayOutThenIn(custody, r.assetKey, r.amount, Night, payment)

\* Protocol buys: the asset comes in, then the payment goes out.
ProtocolBuys(r, payment) ==
  /\ treasuryBalances[r.assetKey] + r.amount <= MaxUint
  /\ treasuryBalances' =
       PayInThenOut(treasuryBalances, r.assetKey, r.amount, Night, payment)
  /\ treasuryBalances'[Night] >= 0
  /\ custody' = PayInThenOut(custody, r.assetKey, r.amount, Night, payment)

\* Slip: the reservation is left open.
SettleWithoutExecuting(caller, id, q) ==
  LET d == Details(id)
      r == reservations[q].terms
  IN
  /\ IsOpen(id)
  /\ IsHeld(q)
  /\ ProtocolFillAllowed(caller, d, r)
  /\ orders' = [orders EXCEPT ![id].state = "FILLED"]
  /\ PaymentAmount(r) <= MaxUint
  /\ IF d.isBuy THEN ProtocolSells(r, PaymentAmount(r))
                ELSE ProtocolBuys(r, PaymentAmount(r))
  /\ RecordTreasuryTx("EXECUTE", r.assetKey, r.amount)
  /\ RecordEvents("FILLED", {id})
  /\ UNCHANGED <<settledPairs, treasuryReserved, reservations, admins, now>>

SettleWithProtocol(caller, id, q) ==
  LET d == Details(id)
      r == reservations[q].terms
  IN
  /\ IsOpen(id)
  /\ IsHeld(q)
  /\ ProtocolFillAllowed(caller, d, r)
  /\ orders' = [orders EXCEPT ![id].state = "FILLED"]
  /\ reservations' = [reservations EXCEPT ![q].state = "EXECUTED"]
  /\ r.amount <= treasuryReserved[r.assetKey]
  /\ treasuryReserved' = [treasuryReserved EXCEPT ![r.assetKey] = @ - r.amount]
  /\ PaymentAmount(r) <= MaxUint
  /\ IF d.isBuy THEN ProtocolSells(r, PaymentAmount(r))
                ELSE ProtocolBuys(r, PaymentAmount(r))
  /\ RecordTreasuryTx("EXECUTE", r.assetKey, r.amount)
  /\ RecordEvents("FILLED", {id})
  /\ UNCHANGED <<settledPairs, admins, now>>

-----------------------------------------------------------------------------
(* A block: time passes *)

Tick ==
  /\ now < MaxTime
  /\ now' = now + 1
  /\ UNCHANGED <<orderVars, treasuryVars, admins>>

OrderCircuit ==
  \/ \E id \in OrderIds :
       \/ \E c \in Commitments : CreateOrder(id, c)
       \/ \E caller \in Owners : CancelOrder(caller, id)
       \/ ExpireOrder(id)
  \/ \E buyId, sellId \in OrderIds : Settle(buyId, sellId)

AdminCircuit ==
  \E caller, other \in AdminIds :
    AddAdmin(caller, other) \/ RemoveAdmin(caller, other)

FundingCircuit ==
  \E caller \in AdminIds, asset \in Assets, amount \in Amounts :
    \/ DepositTreasury(caller, asset, amount)
    \/ WithdrawTreasury(caller, asset, amount)

ReservationCircuit ==
  \E q \in QuoteIds :
    \/ \E caller \in AdminIds, terms \in QuoteTerms :
         ReserveLiquidity(caller, q, terms)
    \/ \E caller \in AdminIds : ReleaseLiquidity(caller, q)
    \/ ReleaseExpiredLiquidity(q)

ProtocolCircuit ==
  \E caller \in Owners, id \in OrderIds, q \in QuoteIds :
    SettleWithProtocol(caller, id, q)

Next ==
  \/ OrderCircuit
  \/ AdminCircuit
  \/ FundingCircuit
  \/ ReservationCircuit
  \/ ProtocolCircuit
  \/ Tick

Spec == Init /\ [][Next]_vars
=============================================================================
