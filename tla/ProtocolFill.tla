---------------------------- MODULE ProtocolFill ---------------------------
(***************************************************************************)
(* Filling an unmatched order from protocol liquidity: PPMService reserves *)
(* liquidity on the chain, the order owner's wallet settles against the    *)
(* reservation, OrderService reconciles its table with the chain, and a    *)
(* periodic sweep releases what expired.                                   *)
(*                                                                         *)
(* Each await lets every other handler run, so each is a point between two *)
(* actions here.  The chain is that of ChainOrders.tla; what is submitted  *)
(* may execute, fail or vanish, with or without its caller being told.     *)
(* Amounts and prices, which decide whether a quote is made, are left out. *)
(***************************************************************************)
EXTENDS ChainOrders, Naturals

CONSTANTS
  OwnQuotesOnly,  \* BOOLEAN: wallets settle only with quotes made for the order
  MaxCrashes,     \* crashes a run makes; bounds runs
  None            \* no order, or no quote

ASSUME ProtocolFillConstants ==
  /\ OwnQuotesOnly \in BOOLEAN /\ MaxCrashes \in Nat
  /\ None \notin OrderIds /\ None \notin QuoteIds

VARIABLES
  pastOrders,   \* orders past their expiresAt
  pastQuotes,   \* quotes past their expiresAt
  status,       \* orders.status
  row,          \* ppm_reservations: state and order_id of each quote
  filling,      \* each order's attemptFill: where it is, and its quote
  recon,        \* reconcileProtocolFill calls that await a read
  pool,         \* transactions submitted by the matcher and undecided
  replies,      \* their outcomes on the way to the awaiting call
  crashes

timeVars == <<pastOrders, pastQuotes>>
matcherVars == <<status, row, filling, recon>>
callVars == <<pool, replies>>
vars == <<chainVars, timeVars, matcherVars, callVars, crashes>>

Statuses == {"NONE", "OPEN", "MATCHED", "FILLED", "CANCELLED", "EXPIRED"}

NoRow == [state |-> "NONE", order |-> None]
NotFilling == [at |-> "no", quote |-> None]

Init ==
  /\ ChainInit
  /\ pastOrders = {} /\ pastQuotes = {}
  /\ status = [o \in OrderIds |-> "NONE"]
  /\ row = [q \in QuoteIds |-> NoRow]
  /\ filling = [o \in OrderIds |-> NotFilling]
  /\ recon = {} /\ pool = {} /\ replies = {}
  /\ crashes = 0

-----------------------------------------------------------------------------
(* The chain, the clock, and the people *)

Chain(A) == A /\ UNCHANGED <<timeVars, matcherVars, callVars, crashes>>

\* Owners create and cancel orders, and anyone expires them.
OwnerActs(o) ==
  Chain(\/ ChainCreate(o)
        \/ ChainClose(o, "CANCELLED")
        \/ o \in pastOrders /\ ChainClose(o, "EXPIRED"))

\* SettlementService settles a claimed match.
MatchSettles(b, s) ==
  /\ status[b] = "MATCHED" /\ status[s] = "MATCHED"
  /\ {b, s} \cap pastOrders = {}
  /\ Chain(ChainSettle(b, s))

\* The owner's wallet submits settleWithProtocol.  The contract does not tie
\* a reservation to an order: any fitting order may use it.
WalletSettles(o, q) ==
  /\ o \notin pastOrders /\ q \notin pastQuotes
  /\ OwnQuotesOnly => row[q].order = o
  /\ Chain(ChainSettleWithProtocol(o, q))

\* Somebody else calls the permissionless releaseExpiredLiquidity.
ReleaseElsewhere(q) == q \in pastQuotes /\ Chain(ChainRelease(q))

OrderExpires(o) ==
  /\ status[o] # "NONE"
  /\ pastOrders' = pastOrders \cup {o}
  /\ UNCHANGED <<chainVars, pastQuotes, matcherVars, callVars, crashes>>

QuoteExpires(q) ==
  /\ reservationState[q] # "NONE"
  /\ pastQuotes' = pastQuotes \cup {q}
  /\ UNCHANGED <<chainVars, pastOrders, matcherVars, callVars, crashes>>

-----------------------------------------------------------------------------
(* Transactions of the matcher's own wallet *)

Awaited(call, q) == [call |-> call, quote |-> q, awaited |-> TRUE]
Reply(call, q, ok) == [call |-> call, quote |-> q, ok |-> ok]

Answered(tx, ok) ==
  /\ pool' = pool \ {tx}
  /\ replies' = IF tx.awaited THEN replies \cup {Reply(tx.call, tx.quote, ok)}
                              ELSE replies
  /\ UNCHANGED <<timeVars, matcherVars, crashes>>

Execute(tx) ==
  /\ \/ tx.call = "reserve" /\ ChainReserve(tx.quote)
     \/ tx.call = "release" /\ tx.quote \in pastQuotes /\ ChainRelease(tx.quote)
  /\ Answered(tx, TRUE)

\* An assert of the circuit fails (no such liquidity, not open any more).
Reject(tx) == UNCHANGED chainVars /\ Answered(tx, FALSE)

\* The call throws although its transaction may still execute: the caller is
\* told it failed.
LoseReply(call, q) ==
  /\ \/ /\ Awaited(call, q) \in pool
        /\ pool' = (pool \ {Awaited(call, q)})
                     \cup {[Awaited(call, q) EXCEPT !.awaited = FALSE]}
        /\ replies' = replies \cup {Reply(call, q, FALSE)}
     \/ /\ Reply(call, q, TRUE) \in replies
        /\ replies' = (replies \ {Reply(call, q, TRUE)})
                        \cup {Reply(call, q, FALSE)}
        /\ UNCHANGED pool
  /\ UNCHANGED <<chainVars, timeVars, matcherVars, crashes>>

-----------------------------------------------------------------------------
(* OrderService and PPMService.attemptFill *)

\* submitOrder found no user counterparty: the order rests, attemptFill starts
\* and awaits the market snapshot.
Arrive(o) ==
  /\ status[o] = "NONE" /\ orderState[o] = "OPEN"
  /\ status' = [status EXCEPT ![o] = "OPEN"]
  /\ filling' = [filling EXCEPT ![o].at = "quoting"]
  /\ UNCHANGED <<chainVars, timeVars, row, recon, callVars, crashes>>

SetStatus(os, st) ==
  /\ status' = [o \in OrderIds |-> IF o \in os THEN st ELSE status[o]]
  /\ UNCHANGED <<chainVars, timeVars, row, filling, recon, callVars, crashes>>

\* A later arrival, or a cancellation, or an expiry, takes a resting order.
ClaimMatch(b, s) ==
  b # s /\ status[b] = "OPEN" /\ status[s] = "OPEN" /\ SetStatus({b, s}, "MATCHED")
CancelOrder(o) ==
  status[o] = "OPEN" /\ o \notin pastOrders /\ SetStatus({o}, "CANCELLED")
MaterializeExpiry(o) ==
  status[o] = "OPEN" /\ o \in pastOrders /\ SetStatus({o}, "EXPIRED")

\* No reference price, too little liquidity, or no crossing: the order rests.
NoQuote(o) ==
  /\ filling[o].at = "quoting"
  /\ filling' = [filling EXCEPT ![o] = NotFilling]
  /\ UNCHANGED <<chainVars, timeVars, status, row, recon, callVars, crashes>>

\* A quote: reserveLiquidity is called with a fresh random quote id.
RequestReserve(o, q) ==
  /\ filling[o].at = "quoting"
  /\ reservationState[q] = "NONE"
  /\ \A x \in OrderIds : filling[x].quote # q
  /\ \A tx \in pool : tx.quote # q
  /\ filling' = [filling EXCEPT ![o] = [at |-> "reserving", quote |-> q]]
  /\ pool' = pool \cup {Awaited("reserve", q)}
  /\ UNCHANGED <<chainVars, timeVars, status, row, recon, replies, crashes>>

\* The rest of attemptFill: on success the local row is inserted and the quote
\* handed to the owner, otherwise the order rests.
ReserveReturns(o, ok) ==
  LET q == filling[o].quote IN
  /\ filling[o].at = "reserving"
  /\ Reply("reserve", q, ok) \in replies
  /\ replies' = replies \ {Reply("reserve", q, ok)}
  /\ row' = IF ok THEN [row EXCEPT ![q] = [state |-> "OPEN", order |-> o]]
                  ELSE row
  /\ filling' = [filling EXCEPT ![o] = NotFilling]
  /\ UNCHANGED <<chainVars, timeVars, status, recon, pool, crashes>>

-----------------------------------------------------------------------------
(* OrderService.reconcileProtocolFill *)

\* findOpenByOrderId, then the first read is awaited.
StartReconcile(o, q) ==
  /\ status[o] = "OPEN"
  /\ row[q] = [state |-> "OPEN", order |-> o]
  /\ recon' = recon \cup {[order |-> o, quote |-> q, at |-> "order"]}
  /\ UNCHANGED <<chainVars, timeVars, status, row, filling, callVars, crashes>>

\* Slip: a reservation that is no longer open is taken for executed.
SettledIfClosed(r) ==
  \/ r.at = "order" /\ orderState[r.order] = "FILLED"
  \/ r.at = "reservation" /\ reservationState[r.quote] # "OPEN"

\* settled: the order is FILLED, or else the reservation is EXECUTED.
Settled(r) ==
  \/ r.at = "order" /\ orderState[r.order] = "FILLED"
  \/ r.at = "reservation" /\ reservationState[r.quote] = "EXECUTED"

\* The status CAS, then markReservationExecuted with a CAS of its own.
Materialize(r) ==
  /\ Settled(r)
  /\ recon' = recon \ {r}
  /\ IF status[r.order] = "OPEN"
     THEN /\ status' = [status EXCEPT ![r.order] = "FILLED"]
          /\ row' = [row EXCEPT ![r.quote].state =
                       IF @ = "OPEN" THEN "EXECUTED" ELSE @]
     ELSE UNCHANGED <<status, row>>
  /\ UNCHANGED <<chainVars, timeVars, filling, callVars, crashes>>

ReadOn(r) ==
  /\ r.at = "order" /\ ~Settled(r)
  /\ recon' = (recon \ {r}) \cup {[r EXCEPT !.at = "reservation"]}
  /\ UNCHANGED <<chainVars, timeVars, status, row, filling, callVars, crashes>>

\* Not settled after both reads, or a read throws.
GiveUp(r) ==
  /\ recon' = recon \ {r}
  /\ UNCHANGED <<chainVars, timeVars, status, row, filling, callVars, crashes>>

-----------------------------------------------------------------------------
(* PPMService.sweepExpiredReservations *)

Sweep(q) ==
  /\ row[q].state = "OPEN" /\ q \in pastQuotes
  /\ Awaited("release", q) \notin pool
  /\ \A ok \in BOOLEAN : Reply("release", q, ok) \notin replies
  /\ pool' = pool \cup {Awaited("release", q)}
  /\ UNCHANGED <<chainVars, timeVars, matcherVars, replies, crashes>>

\* Slip: the row is closed whatever the call returned.
ReleasedAnyway(q, ok) == "RELEASED"

\* updateState(RELEASED) with its CAS, on success only.
AfterRelease(q, ok) ==
  IF ok /\ row[q].state = "OPEN" THEN "RELEASED" ELSE row[q].state

SweepReturns(q, ok) ==
  /\ Reply("release", q, ok) \in replies
  /\ replies' = replies \ {Reply("release", q, ok)}
  /\ row' = [row EXCEPT ![q].state = AfterRelease(q, ok)]
  /\ UNCHANGED <<chainVars, timeVars, status, filling, recon, pool, crashes>>

-----------------------------------------------------------------------------
\* A crash ends every handler; tables and submitted transactions remain.
CrashAndRestart ==
  /\ crashes < MaxCrashes
  /\ crashes' = crashes + 1
  /\ filling' = [o \in OrderIds |-> NotFilling]
  /\ recon' = {} /\ replies' = {}
  /\ pool' = {[tx EXCEPT !.awaited = FALSE] : tx \in pool}
  /\ UNCHANGED <<chainVars, timeVars, status, row>>

Next ==
  \/ \E o \in OrderIds :
       \/ OwnerActs(o) \/ OrderExpires(o)
       \/ Arrive(o) \/ CancelOrder(o) \/ MaterializeExpiry(o) \/ NoQuote(o)
       \/ \E ok \in BOOLEAN : ReserveReturns(o, ok)
       \/ \E x \in OrderIds : ClaimMatch(o, x) \/ MatchSettles(o, x)
       \/ \E q \in QuoteIds :
            WalletSettles(o, q) \/ RequestReserve(o, q) \/ StartReconcile(o, q)
  \/ \E q \in QuoteIds :
       \/ QuoteExpires(q) \/ ReleaseElsewhere(q) \/ Sweep(q)
       \/ \E ok \in BOOLEAN : SweepReturns(q, ok)
       \/ \E call \in {"reserve", "release"} : LoseReply(call, q)
  \/ \E tx \in pool : Execute(tx) \/ Reject(tx)
  \/ \E r \in recon : Materialize(r) \/ ReadOn(r) \/ GiveUp(r)
  \/ CrashAndRestart

Spec == Init /\ [][Next]_vars

\* Time passes, the sweep's interval fires again and again and its call ends;
\* a release that is submitted time after time executes in the end.
FairSpec ==
  /\ Spec
  /\ \A q \in QuoteIds :
       /\ WF_vars(QuoteExpires(q))
       /\ WF_vars(Sweep(q))
       /\ WF_vars(\E ok \in BOOLEAN : SweepReturns(q, ok))
       /\ SF_vars(\E tx \in pool : tx.call = "release" /\ tx.quote = q
                                     /\ Execute(tx))

-----------------------------------------------------------------------------
(* Properties *)

TypeOK ==
  /\ orderState \in [OrderIds -> OrderStates]
  /\ reservationState \in [QuoteIds -> ReservationStates]
  /\ pastOrders \subseteq OrderIds /\ pastQuotes \subseteq QuoteIds
  /\ status \in [OrderIds -> Statuses]
  /\ row \in [QuoteIds -> [state: ReservationStates, order: OrderIds \cup {None}]]
  /\ filling \in [OrderIds -> [at: {"no", "quoting", "reserving"},
                               quote: QuoteIds \cup {None}]]
  /\ recon \subseteq [order: OrderIds, quote: QuoteIds,
                      at: {"order", "reservation"}]
  /\ pool \subseteq [call: {"reserve", "release"}, quote: QuoteIds,
                     awaited: BOOLEAN]
  /\ replies \subseteq [call: {"reserve", "release"}, quote: QuoteIds,
                        ok: BOOLEAN]
  /\ crashes \in 0..MaxCrashes

\* An order reconciled to FILLED is FILLED on the chain ("the on-chain state is
\* always the source of truth"), whichever of the two reads said so.
LocalFillIsReal ==
  \A o \in OrderIds : status[o] = "FILLED" => orderState[o] = "FILLED"

\* A reservation the matcher has closed is closed on the chain, the same way:
\* liquidity it has written off as spent or given back is not still held.
ClosedRowsAreReal ==
  \A q \in QuoteIds :
    row[q].state \in {"RELEASED", "EXECUTED"}
      => reservationState[q] = row[q].state

\* Liquidity reserved for a quote the matcher remembers is not held for ever:
\* it is spent, or the sweep gives it back.
EveryQuoteCloses ==
  \A q \in QuoteIds :
    row[q].state = "OPEN" ~> reservationState[q] # "OPEN"
=============================================================================
