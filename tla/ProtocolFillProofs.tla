------------------------- MODULE ProtocolFillProofs ------------------------
(***************************************************************************)
(* Theorems about ProtocolFill.tla, for any numbers of orders, quotes and  *)
(* crashes.  The books are kept whichever reservation a wallet settles     *)
(* with; fills are recorded truly while wallets use their own quotes.      *)
(***************************************************************************)
EXTENDS ProtocolFill, TLAPS

\* A quote id is drawn once: calls in progress do not share one.
QuotesAreFresh ==
  /\ \A o \in OrderIds : filling[o].at = "reserving" <=> filling[o].quote # None
  /\ \A o, x \in OrderIds :
       filling[o].quote # None /\ filling[o].quote = filling[x].quote => o = x
  /\ \A o \in OrderIds : status[o] = "NONE" => filling[o].at = "no"

\* Rows are written once for a quote and once for an order, after the chain
\* has made the reservation, by a call that is then over.
RowsAreUnique ==
  /\ \A q \in QuoteIds :
       LET o == row[q].order IN
       /\ o = None <=> row[q].state = "NONE"
       /\ o # None =>
            /\ reservationState[q] # "NONE"
            /\ status[o] # "NONE" /\ filling[o].at = "no"
            /\ \A x \in OrderIds : filling[x].quote # q
  /\ \A p, q \in QuoteIds :
       row[p].order # None /\ row[p].order = row[q].order => p = q

\* What a caller has been told, or has found a row for, is so.
AnswersAreTrue ==
  /\ \A q \in QuoteIds :
       /\ Reply("reserve", q, TRUE) \in replies => reservationState[q] # "NONE"
       /\ Reply("release", q, TRUE) \in replies => reservationState[q] = "RELEASED"
  /\ \A r \in recon : row[r.quote].order = r.order

\* Reservations are used by the orders they were quoted for, and resting
\* orders are filled by their own.
FillsUseOwnQuotes ==
  /\ \A q \in QuoteIds :
       reservationState[q] = "EXECUTED" =>
         row[q].order # None /\ orderState[row[q].order] = "FILLED"
  /\ \A o \in OrderIds :
       status[o] = "OPEN" /\ orderState[o] = "FILLED" =>
         \E q \in QuoteIds :
           row[q].order = o /\ reservationState[q] = "EXECUTED"
  /\ \A o \in OrderIds : status[o] = "NONE" => orderState[o] # "FILLED"

-----------------------------------------------------------------------------
(* Types *)

LEMMA TypeInit == Init => TypeOK
  BY ProtocolFillConstants DEF Init, ChainInit, TypeOK, OrderStates, Statuses,
     ReservationStates, NoRow, NotFilling

\* The chain's own steps.
ChainMoves ==
  \/ \E o \in OrderIds :
       \/ ChainCreate(o) \/ ChainClose(o, "CANCELLED") \/ ChainClose(o, "EXPIRED")
  \/ \E b, s \in OrderIds : ChainSettle(b, s)
  \/ \E q \in QuoteIds : ChainReserve(q) \/ ChainRelease(q)
  \/ \E o \in OrderIds, q \in QuoteIds : ChainSettleWithProtocol(o, q)

LEMMA ChainTyped ==
  ASSUME TypeOK, ChainMoves
  PROVE  /\ orderState' \in [OrderIds -> OrderStates]
         /\ reservationState' \in [QuoteIds -> ReservationStates]
  BY DEF TypeOK, ChainMoves, ChainCreate, ChainClose, ChainSettle, ChainReserve,
     ChainRelease, ChainSettleWithProtocol, OrderStates, ReservationStates

LEMMA TypeStep == TypeOK /\ [Next]_vars => TypeOK'
  <1> SUFFICES ASSUME TypeOK, [Next]_vars PROVE TypeOK'
    OBVIOUS
  <1> USE ProtocolFillConstants
  <1>1. ASSUME ChainMoves, UNCHANGED <<timeVars, matcherVars, callVars, crashes>>
        PROVE  TypeOK'
    BY <1>1, ChainTyped DEF TypeOK, timeVars, matcherVars, callVars
  <1>2. ASSUME NEW o \in OrderIds, OwnerActs(o) PROVE TypeOK'
    BY <1>1, <1>2 DEF OwnerActs, Chain, ChainMoves
  <1>3. ASSUME NEW o \in OrderIds, NEW x \in OrderIds, MatchSettles(o, x)
        PROVE  TypeOK'
    BY <1>1, <1>3 DEF MatchSettles, Chain, ChainMoves
  <1>4. ASSUME NEW o \in OrderIds, NEW q \in QuoteIds, WalletSettles(o, q)
        PROVE  TypeOK'
    BY <1>1, <1>4 DEF WalletSettles, Chain, ChainMoves
  <1>5. ASSUME NEW q \in QuoteIds, ReleaseElsewhere(q) PROVE TypeOK'
    BY <1>1, <1>5 DEF ReleaseElsewhere, Chain, ChainMoves
  <1>6. ASSUME NEW o \in OrderIds, OrderExpires(o) PROVE TypeOK'
    BY <1>6 DEF OrderExpires, TypeOK, chainVars, matcherVars, callVars
  <1>7. ASSUME NEW q \in QuoteIds, QuoteExpires(q) PROVE TypeOK'
    BY <1>7 DEF QuoteExpires, TypeOK, chainVars, matcherVars, callVars
  <1>8. ASSUME NEW tx \in pool, NEW ok \in BOOLEAN, Answered(tx, ok),
               ChainMoves \/ UNCHANGED chainVars
        PROVE  TypeOK'
    <2>1. tx \in [call: {"reserve", "release"}, quote: QuoteIds, awaited: BOOLEAN]
      BY DEF TypeOK
    <2>2. Reply(tx.call, tx.quote, ok)
            \in [call: {"reserve", "release"}, quote: QuoteIds, ok: BOOLEAN]
      BY <2>1 DEF Reply
    <2>3. /\ orderState' \in [OrderIds -> OrderStates]
          /\ reservationState' \in [QuoteIds -> ReservationStates]
      BY <1>8, ChainTyped DEF TypeOK, chainVars
    <2> QED
      BY <1>8, <2>2, <2>3 DEF Answered, TypeOK, timeVars, matcherVars
  <1>9. ASSUME NEW tx \in pool, Execute(tx) \/ Reject(tx) PROVE TypeOK'
    <2>1. tx.quote \in QuoteIds
      BY DEF TypeOK
    <2> QED
      BY <1>8, <1>9, <2>1 DEF Execute, Reject, ChainMoves
  <1>10. ASSUME NEW call \in {"reserve", "release"}, NEW q \in QuoteIds,
                LoseReply(call, q)
         PROVE  TypeOK'
    <2>1. [Awaited(call, q) EXCEPT !.awaited = FALSE]
            \in [call: {"reserve", "release"}, quote: QuoteIds, awaited: BOOLEAN]
      BY DEF Awaited
    <2>2. Reply(call, q, FALSE)
            \in [call: {"reserve", "release"}, quote: QuoteIds, ok: BOOLEAN]
      BY DEF Reply
    <2> QED
      BY <1>10, <2>1, <2>2 DEF LoseReply, TypeOK, chainVars, timeVars, matcherVars
  <1>11. ASSUME NEW o \in OrderIds, Arrive(o) \/ NoQuote(o) PROVE TypeOK'
    <2>1. filling' \in [OrderIds -> [at: {"no", "quoting", "reserving"},
                                     quote: QuoteIds \cup {None}]]
      BY <1>11 DEF Arrive, NoQuote, TypeOK, NotFilling
    <2>2. status' \in [OrderIds -> Statuses]
      BY <1>11 DEF Arrive, NoQuote, TypeOK, Statuses
    <2> QED
      BY <1>11, <2>1, <2>2 DEF Arrive, NoQuote, TypeOK, chainVars, timeVars, callVars
  <1>12. ASSUME NEW os, NEW st \in Statuses, SetStatus(os, st) PROVE TypeOK'
    BY <1>12 DEF SetStatus, TypeOK, chainVars, timeVars, callVars
  <1>13. ASSUME NEW o \in OrderIds, NEW x \in OrderIds,
                ClaimMatch(o, x) \/ CancelOrder(o) \/ MaterializeExpiry(o)
         PROVE  TypeOK'
    BY <1>12, <1>13 DEF ClaimMatch, CancelOrder, MaterializeExpiry, Statuses
  <1>14. ASSUME NEW o \in OrderIds, NEW q \in QuoteIds, RequestReserve(o, q)
         PROVE  TypeOK'
    <2>1. Awaited("reserve", q)
            \in [call: {"reserve", "release"}, quote: QuoteIds, awaited: BOOLEAN]
      BY DEF Awaited
    <2> QED
      BY <1>14, <2>1 DEF RequestReserve, TypeOK, chainVars, timeVars
  <1>15. ASSUME NEW o \in OrderIds, NEW ok \in BOOLEAN, ReserveReturns(o, ok)
         PROVE  TypeOK'
    <2>1. row' \in [QuoteIds -> [state: ReservationStates,
                                 order: OrderIds \cup {None}]]
      BY <1>15 DEF ReserveReturns, TypeOK, ReservationStates
    <2>2. filling' \in [OrderIds -> [at: {"no", "quoting", "reserving"},
                                     quote: QuoteIds \cup {None}]]
      BY <1>15 DEF ReserveReturns, TypeOK, NotFilling
    <2> QED
      BY <1>15, <2>1, <2>2 DEF ReserveReturns, TypeOK, chainVars, timeVars
  <1>16. ASSUME NEW o \in OrderIds, NEW q \in QuoteIds, StartReconcile(o, q)
         PROVE  TypeOK'
    BY <1>16 DEF StartReconcile, TypeOK, chainVars, timeVars, callVars
  <1>17. ASSUME NEW r \in recon, Materialize(r) PROVE TypeOK'
    <2>1. row' \in [QuoteIds -> [state: ReservationStates,
                                 order: OrderIds \cup {None}]]
      <3>1. PICK st \in ReservationStates :
              row' = row \/ row' = [row EXCEPT ![r.quote].state = st]
        <4>1. row[r.quote].state \in ReservationStates
          BY DEF TypeOK
        <4>2. CASE row[r.quote].state = "OPEN"
          BY <1>17, <4>2 DEF Materialize, ReservationStates
        <4>3. CASE row[r.quote].state # "OPEN"
          BY <1>17, <4>1, <4>3 DEF Materialize
        <4> QED
          BY <4>2, <4>3
      <3> QED
        BY <3>1 DEF TypeOK
    <2>2. status' \in [OrderIds -> Statuses] /\ recon' \subseteq recon
      BY <1>17 DEF Materialize, TypeOK, Statuses
    <2> QED
      BY <1>17, <2>1, <2>2 DEF Materialize, TypeOK, chainVars, timeVars, callVars
  <1>18. ASSUME NEW r \in recon, ReadOn(r) \/ GiveUp(r) PROVE TypeOK'
    <2>1. [r EXCEPT !.at = "reservation"]
            \in [order: OrderIds, quote: QuoteIds, at: {"order", "reservation"}]
      BY DEF TypeOK
    <2> QED
      BY <1>18, <2>1 DEF ReadOn, GiveUp, TypeOK, chainVars, timeVars, callVars
  <1>19. ASSUME NEW q \in QuoteIds, Sweep(q) PROVE TypeOK'
    <2>1. Awaited("release", q)
            \in [call: {"reserve", "release"}, quote: QuoteIds, awaited: BOOLEAN]
      BY DEF Awaited
    <2> QED
      BY <1>19, <2>1 DEF Sweep, TypeOK, chainVars, timeVars, matcherVars
  <1>20. ASSUME NEW q \in QuoteIds, NEW ok \in BOOLEAN, SweepReturns(q, ok)
         PROVE  TypeOK'
    <2>1. AfterRelease(q, ok) \in ReservationStates
      BY DEF AfterRelease, TypeOK, ReservationStates
    <2>2. row' \in [QuoteIds -> [state: ReservationStates,
                                 order: OrderIds \cup {None}]]
      BY <1>20, <2>1 DEF SweepReturns, TypeOK
    <2> QED
      BY <1>20, <2>2 DEF SweepReturns, TypeOK, chainVars, timeVars
  <1>21. CASE CrashAndRestart
    <2>1. ASSUME NEW tx \in pool
          PROVE  [tx EXCEPT !.awaited = FALSE]
                   \in [call: {"reserve", "release"}, quote: QuoteIds,
                       awaited: BOOLEAN]
      <3>1. tx \in [call: {"reserve", "release"}, quote: QuoteIds,
                    awaited: BOOLEAN]
        BY DEF TypeOK
      <3> QED
        BY <3>1
    <2>2. pool' \subseteq [call: {"reserve", "release"}, quote: QuoteIds,
                          awaited: BOOLEAN]
      BY <1>21, <2>1 DEF CrashAndRestart
    <2> QED
      BY <1>21, <2>2 DEF CrashAndRestart, TypeOK, NotFilling, chainVars, timeVars
  <1>22. CASE UNCHANGED vars
    BY <1>22 DEF vars, TypeOK, chainVars, timeVars, matcherVars, callVars
  <1> QED
    BY <1>2, <1>3, <1>4, <1>5, <1>6, <1>7, <1>9, <1>10, <1>11, <1>13, <1>14,
       <1>15, <1>16, <1>17, <1>18, <1>19, <1>20, <1>21, <1>22 DEF Next

\* Every variable keeps its type, in particular rows and quotes name known
\* orders only.
THEOREM FillTypes == Spec => []TypeOK
  BY TypeInit, TypeStep, PTL DEF Spec


-----------------------------------------------------------------------------
(* The matcher's books, whichever reservation a wallet uses *)

\* A reservation the matcher has written off as given back is given back.
GivenBackIsReal ==
  \A q \in QuoteIds :
    row[q].state = "RELEASED" => reservationState[q] = "RELEASED"

Books ==
  QuotesAreFresh /\ RowsAreUnique /\ AnswersAreTrue /\ GivenBackIsReal

\* Steps that leave the tables and the calls of attemptFill alone: whatever
\* happens on the chain, replies that are lost or true, reads that begin for a
\* row, move or end.
LEMMA OthersKeepBooks ==
  ASSUME TypeOK, Books, UNCHANGED <<status, row, filling>>,
         \A q \in QuoteIds :
           /\ reservationState[q] # "NONE" => reservationState'[q] # "NONE"
           /\ reservationState[q] = "RELEASED" => reservationState'[q] = "RELEASED"
           /\ Reply("reserve", q, TRUE) \in replies' =>
                \/ Reply("reserve", q, TRUE) \in replies
                \/ reservationState'[q] # "NONE"
           /\ Reply("release", q, TRUE) \in replies' =>
                \/ Reply("release", q, TRUE) \in replies
                \/ reservationState'[q] = "RELEASED",
         \A r \in recon' : r \in recon \/ row[r.quote].order = r.order
  PROVE  Books'
  <1>1. QuotesAreFresh'
    BY DEF Books, QuotesAreFresh
  <1>2. RowsAreUnique'
    <2>1. \A q \in QuoteIds :
            /\ row[q].order = None <=> row[q].state = "NONE"
            /\ row[q].order # None =>
                 /\ reservationState'[q] # "NONE"
                 /\ status[row[q].order] # "NONE" /\ filling[row[q].order].at = "no"
                 /\ \A x \in OrderIds : filling[x].quote # q
      BY DEF Books, RowsAreUnique
    <2>2. \A p, q \in QuoteIds :
            row[p].order # None /\ row[p].order = row[q].order => p = q
      BY DEF Books, RowsAreUnique
    <2> QED
      BY <2>1, <2>2 DEF RowsAreUnique
  <1>3. AnswersAreTrue'
    BY DEF Books, AnswersAreTrue
  <1>4. GivenBackIsReal'
    BY DEF Books, GivenBackIsReal
  <1> QED
    BY <1>1, <1>2, <1>3, <1>4 DEF Books

\* The chain moves by a step of its own: a reservation leaves OPEN for good.
LEMMA ChainKeepsBooks ==
  ASSUME TypeOK, Books, ChainMoves, UNCHANGED <<matcherVars, replies>>
  PROVE  Books'
  <1>1. \A q \in QuoteIds :
          /\ reservationState[q] # "NONE" => reservationState'[q] # "NONE"
          /\ reservationState[q] = "RELEASED" => reservationState'[q] = "RELEASED"
    BY DEF ChainMoves, ChainCreate, ChainClose, ChainSettle, ChainReserve,
       ChainRelease, ChainSettleWithProtocol, TypeOK
  <1>2. UNCHANGED <<status, row, filling, recon, replies>>
    BY DEF matcherVars
  <1> QED
    BY <1>1, <1>2, OthersKeepBooks

\* A transaction of the matcher's wallet executes or is rejected, and its
\* outcome is on the way to the caller, or lost.
LEMMA OutcomesKeepBooks ==
  ASSUME TypeOK, Books, NEW tx \in pool, Execute(tx) \/ Reject(tx)
  PROVE  Books'
  <1>1. tx.quote \in QuoteIds /\ tx.call \in {"reserve", "release"}
    BY DEF TypeOK
  <1>2. UNCHANGED <<status, row, filling, recon>>
    BY DEF Execute, Reject, Answered, matcherVars
  <1>3. CASE Execute(tx)
    <2>1. /\ replies' \subseteq replies \cup {Reply(tx.call, tx.quote, TRUE)}
          /\ \/ tx.call = "reserve" /\ ChainReserve(tx.quote)
             \/ tx.call = "release" /\ ChainRelease(tx.quote)
      BY <1>3 DEF Execute, Answered
    <2>2. ASSUME NEW q \in QuoteIds
          PROVE  /\ reservationState[q] # "NONE" => reservationState'[q] # "NONE"
                 /\ reservationState[q] = "RELEASED" =>
                      reservationState'[q] = "RELEASED"
                 /\ tx.quote = q => reservationState'[q] # "NONE"
                 /\ tx.quote = q /\ tx.call = "release" =>
                      reservationState'[q] = "RELEASED"
      BY <1>1, <2>1 DEF ChainReserve, ChainRelease, TypeOK
    <2>3. \A call \in {"reserve", "release"}, q \in QuoteIds :
            Reply(call, q, TRUE) \in replies' =>
              Reply(call, q, TRUE) \in replies \/ (tx.quote = q /\ tx.call = call)
      BY <2>1 DEF Reply
    <2> QED
      BY <1>2, <2>2, <2>3, OthersKeepBooks
  <1>4. CASE Reject(tx)
    <2>1. UNCHANGED chainVars
          /\ replies' \subseteq replies \cup {Reply(tx.call, tx.quote, FALSE)}
      BY <1>4 DEF Reject, Answered
    <2>2. \A call \in {"reserve", "release"}, q \in QuoteIds :
            Reply(call, q, TRUE) # Reply(tx.call, tx.quote, FALSE)
      BY DEF Reply
    <2> QED
      BY <1>2, <2>1, <2>2, OthersKeepBooks DEF chainVars
  <1> QED
    BY <1>3, <1>4

LEMMA LossKeepsBooks ==
  ASSUME TypeOK, Books, NEW call \in {"reserve", "release"}, NEW q \in QuoteIds,
         LoseReply(call, q)
  PROVE  Books'
  <1>1. UNCHANGED <<chainVars, matcherVars>>
        /\ replies' \subseteq replies \cup {Reply(call, q, FALSE)}
    BY DEF LoseReply
  <1>2. \A c \in {"reserve", "release"}, p \in QuoteIds :
          Reply(c, p, TRUE) # Reply(call, q, FALSE)
    BY DEF Reply
  <1> QED
    BY <1>1, <1>2, OthersKeepBooks DEF chainVars, matcherVars

\* Time passes, the sweep submits, reconciliations begin, read on or end.
LEMMA QuietKeepsBooks ==
  ASSUME TypeOK, Books,
         \/ \E o \in OrderIds : OrderExpires(o)
         \/ \E q \in QuoteIds : QuoteExpires(q) \/ Sweep(q)
         \/ \E o \in OrderIds, q \in QuoteIds : StartReconcile(o, q)
         \/ \E r \in recon : ReadOn(r) \/ GiveUp(r)
         \/ UNCHANGED vars
  PROVE  Books'
  <1>1. UNCHANGED <<reservationState, status, row, filling, replies>>
    BY DEF OrderExpires, QuoteExpires, Sweep, StartReconcile, ReadOn, GiveUp,
       chainVars, matcherVars, callVars, vars
  <1>2. \A r \in recon' : r \in recon \/ row[r.quote].order = r.order
    <2>1. ASSUME NEW r \in recon, ReadOn(r)
          PROVE  \A s \in recon' : s \in recon \/ row[s.quote].order = s.order
      <3>1. r \in [order: OrderIds, quote: QuoteIds, at: {"order", "reservation"}]
            /\ row[r.quote].order = r.order
        BY DEF TypeOK, Books, AnswersAreTrue
      <3> QED
        BY <2>1, <3>1 DEF ReadOn
    <2>2. ASSUME NEW o \in OrderIds, NEW q \in QuoteIds, StartReconcile(o, q)
          PROVE  \A s \in recon' : s \in recon \/ row[s.quote].order = s.order
      BY <2>2 DEF StartReconcile
    <2>3. CASE recon' \subseteq recon
      BY <2>3
    <2>4. \/ recon' \subseteq recon
          \/ \E o \in OrderIds, q \in QuoteIds : StartReconcile(o, q)
          \/ \E r \in recon : ReadOn(r)
      BY DEF OrderExpires, QuoteExpires, Sweep, GiveUp, matcherVars, vars
    <2> QED
      BY <2>1, <2>2, <2>3, <2>4
  <1> QED
    BY <1>1, <1>2, OthersKeepBooks

\* Resting orders are claimed, cancelled or expired.
LEMMA StatusKeepsBooks ==
  ASSUME TypeOK, Books, NEW os \in SUBSET OrderIds,
         NEW st \in {"MATCHED", "CANCELLED", "EXPIRED"},
         \A x \in os : status[x] = "OPEN", SetStatus(os, st)
  PROVE  Books'
  <1>1. UNCHANGED <<reservationState, row, filling, recon, replies>>
    BY DEF SetStatus, chainVars, callVars
  <1>2. \A x \in OrderIds : status'[x] = "NONE" <=> status[x] = "NONE"
    BY DEF SetStatus
  <1>3. RowsAreUnique'
    BY <1>1, <1>2 DEF Books, RowsAreUnique, TypeOK
  <1>4. QuotesAreFresh'
    BY <1>1, <1>2 DEF Books, QuotesAreFresh
  <1> QED
    BY <1>1, <1>3, <1>4 DEF Books, AnswersAreTrue, GivenBackIsReal

\* An order arrives, or its call ends without a quote.
LEMMA ArrivalKeepsBooks ==
  ASSUME TypeOK, Books, NEW o \in OrderIds, Arrive(o) \/ NoQuote(o)
  PROVE  Books'
  <1>1. UNCHANGED <<reservationState, row, recon, replies>>
    BY DEF Arrive, NoQuote, chainVars, callVars
  <1>2. \A x \in OrderIds :
          /\ filling'[x].quote \in {filling[x].quote, None}
          /\ x # o => filling'[x] = filling[x] /\ status'[x] = status[x]
    BY DEF Arrive, NoQuote, NotFilling, TypeOK
  <1>3. \/ /\ status[o] = "NONE" /\ status'[o] = "OPEN"
           /\ filling'[o] = [filling[o] EXCEPT !.at = "quoting"]
        \/ filling'[o] = NotFilling /\ status'[o] = status[o]
    BY DEF Arrive, NoQuote, TypeOK
  <1>4. filling'[o].at # "reserving" /\ filling'[o].quote = None
    BY <1>3 DEF Books, QuotesAreFresh, NotFilling, TypeOK
  <1>5. QuotesAreFresh'
    BY <1>2, <1>3, <1>4 DEF Books, QuotesAreFresh, NotFilling
  <1>6. RowsAreUnique'
    <2>1. ASSUME NEW q \in QuoteIds, row[q].order # None
          PROVE  /\ status'[row[q].order] # "NONE"
                 /\ filling'[row[q].order].at = "no"
                 /\ \A x \in OrderIds : filling'[x].quote # q
      BY <1>2, <1>3, <2>1, ProtocolFillConstants
         DEF Books, RowsAreUnique, NotFilling, TypeOK
    <2> QED
      BY <1>1, <2>1 DEF Books, RowsAreUnique
  <1> QED
    BY <1>1, <1>5, <1>6 DEF Books, AnswersAreTrue, GivenBackIsReal

\* A fresh quote id is drawn.
LEMMA RequestKeepsBooks ==
  ASSUME TypeOK, Books, NEW o \in OrderIds, NEW q \in QuoteIds,
         RequestReserve(o, q)
  PROVE  Books'
  <1>1. UNCHANGED <<reservationState, status, row, recon, replies>>
    BY DEF RequestReserve, chainVars
  <1>2. /\ filling[o].at = "quoting" /\ reservationState[q] = "NONE"
        /\ \A x \in OrderIds : filling[x].quote # q
        /\ filling' = [filling EXCEPT ![o] = [at |-> "reserving", quote |-> q]]
    BY DEF RequestReserve
  <1>3. QuotesAreFresh'
    BY <1>1, <1>2, ProtocolFillConstants DEF Books, QuotesAreFresh, TypeOK
  <1>4. RowsAreUnique'
    <2>1. ASSUME NEW p \in QuoteIds, row[p].order # None
          PROVE  /\ filling'[row[p].order].at = "no"
                 /\ \A x \in OrderIds : filling'[x].quote # p
      BY <1>2, <2>1 DEF Books, RowsAreUnique, TypeOK
    <2> QED
      BY <1>1, <2>1 DEF Books, RowsAreUnique
  <1>5. AnswersAreTrue' /\ GivenBackIsReal'
    BY <1>1 DEF Books, AnswersAreTrue, GivenBackIsReal
  <1> QED
    BY <1>3, <1>4, <1>5 DEF Books

\* What ReserveReturns does to the rows: its quote has none, nor has its order.
LEMMA ReserveReturnWrites ==
  ASSUME TypeOK, Books, NEW o \in OrderIds, NEW ok \in BOOLEAN,
         ReserveReturns(o, ok)
  PROVE  /\ filling[o].quote \in QuoteIds /\ row[filling[o].quote].order = None
         /\ \A p \in QuoteIds : row[p].order # o
         /\ \/ row' = row
            \/ /\ row' = [row EXCEPT ![filling[o].quote] =
                                       [state |-> "OPEN", order |-> o]]
               /\ reservationState[filling[o].quote] # "NONE"
         /\ \A p \in QuoteIds : row[p].order # None => row'[p] = row[p]
  <1> DEFINE q == filling[o].quote
  <1>1. filling[o].at = "reserving" /\ q \in QuoteIds
    BY DEF ReserveReturns, Books, QuotesAreFresh, TypeOK
  <1>2. row[q].order = None /\ \A p \in QuoteIds : row[p].order # o
    BY <1>1, ProtocolFillConstants DEF Books, RowsAreUnique
  <1>3. \/ row' = row
        \/ /\ row' = [row EXCEPT ![q] = [state |-> "OPEN", order |-> o]]
           /\ reservationState[q] # "NONE"
    BY <1>1 DEF ReserveReturns, Books, AnswersAreTrue
  <1>4. \A p \in QuoteIds : row[p].order # None => row'[p] = row[p]
    BY <1>2, <1>3 DEF TypeOK
  <1> QED
    BY <1>1, <1>2, <1>3, <1>4

\* The call that reserved ends; its quote is this order's and gets its row.
LEMMA ReserveReturnKeepsBooks ==
  ASSUME TypeOK, Books, NEW o \in OrderIds, NEW ok \in BOOLEAN,
         ReserveReturns(o, ok)
  PROVE  Books'
  <1> DEFINE q == filling[o].quote
  <1>1. UNCHANGED <<reservationState, status, recon>> /\ replies' \subseteq replies
    BY DEF ReserveReturns, chainVars
  <1>2. /\ filling[o].at = "reserving" /\ status[o] # "NONE"
        /\ filling' = [filling EXCEPT ![o] = NotFilling]
    BY DEF ReserveReturns, Books, QuotesAreFresh
  <1>3. /\ q \in QuoteIds /\ \A p \in QuoteIds : row[p].order # o
        /\ \/ row' = row
           \/ /\ row' = [row EXCEPT ![q] = [state |-> "OPEN", order |-> o]]
              /\ reservationState[q] # "NONE"
        /\ \A p \in QuoteIds : row[p].order # None => row'[p] = row[p]
    BY ReserveReturnWrites
  <1>4. QuotesAreFresh'
    BY <1>1, <1>2, ProtocolFillConstants
       DEF Books, QuotesAreFresh, NotFilling, TypeOK
  <1>5. \A x \in OrderIds :
          /\ filling'[x].quote # q
          /\ filling'[x].quote \in {filling[x].quote, None}
          /\ filling[x].at = "no" \/ x = o => filling'[x].at = "no"
    BY <1>2, <1>3, ProtocolFillConstants
       DEF Books, QuotesAreFresh, NotFilling, TypeOK
  <1>6. RowsAreUnique'
    <2>1. CASE row' = row
      BY <1>1, <1>5, <2>1, ProtocolFillConstants DEF Books, RowsAreUnique, TypeOK
    <2>2. CASE row' # row
      <3>1. /\ row'[q] = [state |-> "OPEN", order |-> o]
            /\ reservationState[q] # "NONE"
            /\ \A p \in QuoteIds : p # q => row'[p] = row[p]
        BY <1>3, <2>2 DEF TypeOK
      <3>2. ASSUME NEW p \in QuoteIds
            PROVE  /\ row'[p].order = None <=> row'[p].state = "NONE"
                   /\ row'[p].order # None =>
                        /\ reservationState'[p] # "NONE"
                        /\ status'[row'[p].order] # "NONE"
                        /\ filling'[row'[p].order].at = "no"
                        /\ \A x \in OrderIds : filling'[x].quote # p
        <4>1. CASE p = q
          BY <1>1, <1>2, <1>5, <3>1, <4>1, ProtocolFillConstants
        <4>2. CASE p # q
          BY <1>1, <1>5, <3>1, <4>2, ProtocolFillConstants
             DEF Books, RowsAreUnique, TypeOK
        <4> QED
          BY <4>1, <4>2
      <3>3. \A p, r \in QuoteIds :
              row'[p].order # None /\ row'[p].order = row'[r].order => p = r
        BY <1>3, <3>1 DEF Books, RowsAreUnique
      <3> QED
        BY <3>2, <3>3 DEF RowsAreUnique
    <2> QED
      BY <2>1, <2>2
  <1>7. AnswersAreTrue'
    <2>1. \A r \in recon : row'[r.quote].order = r.order
      BY <1>3, ProtocolFillConstants DEF Books, AnswersAreTrue, TypeOK
    <2> QED
      BY <1>1, <2>1 DEF Books, AnswersAreTrue
  <1>8. GivenBackIsReal'
    BY <1>1, <1>3 DEF Books, GivenBackIsReal, TypeOK
  <1> QED
    BY <1>4, <1>6, <1>7, <1>8 DEF Books

\* Rows are closed, but none appears or changes its order.
LEMMA ClosingKeepsBooks ==
  ASSUME TypeOK, Books,
         UNCHANGED <<reservationState, filling>>,
         \A p \in QuoteIds :
           /\ row'[p].order = row[p].order
           /\ row'[p].state = "NONE" <=> row[p].state = "NONE"
           /\ row'[p].state = "RELEASED" =>
                row[p].state = "RELEASED" \/ reservationState[p] = "RELEASED",
         \A x \in OrderIds : status'[x] = "NONE" <=> status[x] = "NONE",
         recon' \subseteq recon, replies' \subseteq replies
  PROVE  Books'
  <1>1. QuotesAreFresh'
    BY DEF Books, QuotesAreFresh
  <1>2. RowsAreUnique'
    <2>1. ASSUME NEW q \in QuoteIds
          PROVE  /\ row'[q].order = None <=> row'[q].state = "NONE"
                 /\ row'[q].order # None =>
                      /\ reservationState'[q] # "NONE"
                      /\ status'[row'[q].order] # "NONE"
                      /\ filling'[row'[q].order].at = "no"
                      /\ \A x \in OrderIds : filling'[x].quote # q
      <3>1. row[q].order \in OrderIds \cup {None} /\ row'[q].order = row[q].order
        BY DEF TypeOK
      <3>2. row[q].order = None <=> row[q].state = "NONE"
        BY DEF Books, RowsAreUnique
      <3>3. CASE row[q].order = None
        BY <3>1, <3>2, <3>3
      <3>4. CASE row[q].order # None
        <4>1. /\ reservationState[q] # "NONE"
              /\ status[row[q].order] # "NONE" /\ filling[row[q].order].at = "no"
              /\ \A x \in OrderIds : filling[x].quote # q
          BY <3>4 DEF Books, RowsAreUnique
        <4> QED
          BY <3>1, <3>2, <3>4, <4>1
      <3> QED
        BY <3>3, <3>4
    <2>2. \A p, q \in QuoteIds :
            row'[p].order # None /\ row'[p].order = row'[q].order => p = q
      BY DEF Books, RowsAreUnique
    <2> QED
      BY <2>1, <2>2 DEF RowsAreUnique
  <1>3. AnswersAreTrue'
    <2>1. \A r \in recon : r.quote \in QuoteIds /\ row[r.quote].order = r.order
      BY DEF Books, AnswersAreTrue, TypeOK
    <2>2. \A r \in recon' : row'[r.quote].order = r.order
      BY <2>1
    <2>3. \A q \in QuoteIds :
            /\ Reply("reserve", q, TRUE) \in replies' =>
                 reservationState'[q] # "NONE"
            /\ Reply("release", q, TRUE) \in replies' =>
                 reservationState'[q] = "RELEASED"
      BY DEF Books, AnswersAreTrue
    <2> QED
      BY <2>2, <2>3 DEF AnswersAreTrue
  <1>4. GivenBackIsReal'
    BY DEF Books, GivenBackIsReal
  <1> QED
    BY <1>1, <1>2, <1>3, <1>4 DEF Books

\* What Materialize writes.
LEMMA MaterializeWrites ==
  ASSUME TypeOK, Books, NEW r \in recon, Materialize(r)
  PROVE  /\ r.order \in OrderIds /\ r.quote \in QuoteIds
         /\ row[r.quote].order = r.order
         /\ UNCHANGED <<orderState, reservationState, filling, replies>>
         /\ recon' \subseteq recon
         /\ \/ UNCHANGED <<status, row>>
            \/ /\ status[r.order] = "OPEN"
               /\ status' = [status EXCEPT ![r.order] = "FILLED"]
               /\ \A p \in QuoteIds :
                    \/ row'[p] = row[p]
                    \/ /\ p = r.quote /\ row[p].state = "OPEN"
                       /\ row'[p].state = "EXECUTED" /\ row'[p].order = row[p].order
  <1>1. /\ r.order \in OrderIds /\ r.quote \in QuoteIds
        /\ row[r.quote].order = r.order
    BY DEF Books, AnswersAreTrue, TypeOK
  <1>2. UNCHANGED <<orderState, reservationState, filling, replies>>
        /\ recon' \subseteq recon
    BY DEF Materialize, chainVars, callVars
  <1>3. CASE status[r.order] # "OPEN"
    BY <1>1, <1>2, <1>3 DEF Materialize
  <1>4. CASE status[r.order] = "OPEN"
    BY <1>1, <1>2, <1>4 DEF Materialize, TypeOK
  <1> QED
    BY <1>3, <1>4

LEMMA MaterializeKeepsBooks ==
  ASSUME TypeOK, Books, NEW r \in recon, Materialize(r)
  PROVE  Books'
  <1>1. /\ UNCHANGED <<reservationState, filling, replies>> /\ recon' \subseteq recon
        /\ \A p \in QuoteIds :
             \/ row'[p] = row[p]
             \/ /\ row[p].state = "OPEN" /\ row'[p].state = "EXECUTED"
                /\ row'[p].order = row[p].order
    BY MaterializeWrites
  <1>2. \A x \in OrderIds : status'[x] = "NONE" <=> status[x] = "NONE"
    BY MaterializeWrites DEF TypeOK
  <1> QED
    BY <1>1, <1>2, ClosingKeepsBooks

\* What SweepReturns writes: a row it closes was given back.
LEMMA SweepReturnWrites ==
  ASSUME TypeOK, Books, NEW q \in QuoteIds, NEW ok \in BOOLEAN,
         SweepReturns(q, ok)
  PROVE  /\ UNCHANGED <<orderState, reservationState, status, filling, recon>>
         /\ replies' \subseteq replies
         /\ \A p \in QuoteIds :
              \/ row'[p] = row[p]
              \/ /\ p = q /\ row[p].state = "OPEN" /\ row'[p].state = "RELEASED"
                 /\ row'[p].order = row[p].order /\ reservationState[p] = "RELEASED"
  <1>1. ok => reservationState[q] = "RELEASED"
    BY DEF SweepReturns, Books, AnswersAreTrue
  <1>2. row' = [row EXCEPT ![q].state = AfterRelease(q, ok)]
    BY DEF SweepReturns
  <1>3. \A p \in QuoteIds :
          \/ row'[p] = row[p]
          \/ /\ p = q /\ row[p].state = "OPEN" /\ row'[p].state = "RELEASED"
             /\ row'[p].order = row[p].order /\ reservationState[p] = "RELEASED"
    BY <1>1, <1>2 DEF AfterRelease, TypeOK
  <1> QED
    BY <1>3 DEF SweepReturns, chainVars

LEMMA SweepReturnKeepsBooks ==
  ASSUME TypeOK, Books, NEW q \in QuoteIds, NEW ok \in BOOLEAN,
         SweepReturns(q, ok)
  PROVE  Books'
  BY SweepReturnWrites, ClosingKeepsBooks

\* Handlers are lost; tables and the chain are not.
LEMMA CrashKeepsBooks ==
  ASSUME TypeOK, Books, CrashAndRestart
  PROVE  Books'
  <1>1. UNCHANGED <<reservationState, status, row>>
    BY DEF CrashAndRestart, chainVars
  <1>2. /\ \A o \in OrderIds : filling'[o].at = "no" /\ filling'[o].quote = None
        /\ recon' = {} /\ replies' = {}
    BY DEF CrashAndRestart, NotFilling
  <1>3. QuotesAreFresh'
    BY <1>2 DEF QuotesAreFresh
  <1>4. RowsAreUnique'
    BY <1>1, <1>2, ProtocolFillConstants DEF Books, RowsAreUnique, TypeOK
  <1>5. AnswersAreTrue' /\ GivenBackIsReal'
    BY <1>1, <1>2 DEF Books, AnswersAreTrue, GivenBackIsReal
  <1> QED
    BY <1>3, <1>4, <1>5 DEF Books

LEMMA BooksStep ==
  ASSUME TypeOK, Books, [Next]_vars
  PROVE  Books'
  <1>1. ASSUME NEW o \in OrderIds,
               \/ OwnerActs(o) \/ \E x \in OrderIds : MatchSettles(o, x)
               \/ \E q \in QuoteIds : WalletSettles(o, q)
        PROVE  Books'
    <2>1. ChainMoves
      BY <1>1 DEF ChainMoves, OwnerActs, MatchSettles, WalletSettles, Chain
    <2>2. UNCHANGED <<matcherVars, replies>>
      BY <1>1 DEF OwnerActs, MatchSettles, WalletSettles, Chain, callVars
    <2> QED
      BY <2>1, <2>2, ChainKeepsBooks
  <1>2. ASSUME NEW q \in QuoteIds, ReleaseElsewhere(q) PROVE Books'
    <2>1. ChainMoves /\ UNCHANGED <<matcherVars, replies>>
      BY <1>2 DEF ChainMoves, ReleaseElsewhere, Chain, callVars
    <2> QED
      BY <2>1, ChainKeepsBooks
  <1>3. ASSUME NEW o \in OrderIds, NEW x \in OrderIds, ClaimMatch(o, x)
        PROVE  Books'
    <2>1. {o, x} \in SUBSET OrderIds /\ (\A y \in {o, x} : status[y] = "OPEN")
          /\ SetStatus({o, x}, "MATCHED")
      BY <1>3 DEF ClaimMatch
    <2> QED
      BY <2>1, StatusKeepsBooks
  <1>4. ASSUME NEW o \in OrderIds, CancelOrder(o) \/ MaterializeExpiry(o)
        PROVE  Books'
    <2>1. {o} \in SUBSET OrderIds /\ (\A y \in {o} : status[y] = "OPEN")
          /\ (SetStatus({o}, "CANCELLED") \/ SetStatus({o}, "EXPIRED"))
      BY <1>4 DEF CancelOrder, MaterializeExpiry
    <2> QED
      BY <2>1, StatusKeepsBooks
  <1>5. ASSUME NEW o \in OrderIds,
               \/ Arrive(o) \/ NoQuote(o)
               \/ \E ok \in BOOLEAN : ReserveReturns(o, ok)
               \/ \E q \in QuoteIds : RequestReserve(o, q)
        PROVE  Books'
    BY <1>5, ArrivalKeepsBooks, ReserveReturnKeepsBooks, RequestKeepsBooks
  <1>6. ASSUME NEW q \in QuoteIds,
               \/ \E ok \in BOOLEAN : SweepReturns(q, ok)
               \/ \E call \in {"reserve", "release"} : LoseReply(call, q)
        PROVE  Books'
    BY <1>6, SweepReturnKeepsBooks, LossKeepsBooks
  <1>7. ASSUME NEW tx \in pool, Execute(tx) \/ Reject(tx) PROVE Books'
    BY <1>7, OutcomesKeepBooks
  <1>8. ASSUME NEW r \in recon, Materialize(r) PROVE Books'
    BY <1>8, MaterializeKeepsBooks
  <1>9. CASE CrashAndRestart
    BY <1>9, CrashKeepsBooks
  <1>10. ASSUME \/ \E o \in OrderIds : OrderExpires(o)
                \/ \E q \in QuoteIds : QuoteExpires(q) \/ Sweep(q)
                \/ \E o \in OrderIds, q \in QuoteIds : StartReconcile(o, q)
                \/ \E r \in recon : ReadOn(r) \/ GiveUp(r)
                \/ UNCHANGED vars
         PROVE  Books'
    BY <1>10, QuietKeepsBooks
  <1> QED
    BY <1>1, <1>2, <1>3, <1>4, <1>5, <1>6, <1>7, <1>8, <1>9, <1>10 DEF Next

\* The matcher's books hold whichever reservations the wallets use: a quote id
\* is drawn once, an order gets one quote, and what a caller was told is so.
THEOREM BooksAreKept == Spec => []Books
  <1>1. Init => Books
    BY ProtocolFillConstants DEF Init, ChainInit, Books, QuotesAreFresh,
       RowsAreUnique, AnswersAreTrue, GivenBackIsReal, NoRow, NotFilling
  <1> QED
    BY <1>1, BooksStep, FillTypes, PTL DEF Spec

\* A row keeps the order it was quoted for, and once closed it stays as it is:
\* the sweep, a late reply and a reconciliation do not overwrite each other.
RowsStay ==
  \A q \in QuoteIds :
    row[q].state # "NONE" =>
      /\ row'[q].order = row[q].order
      /\ row[q].state # "OPEN" => row'[q] = row[q]

LEMMA RowsStayStep ==
  ASSUME TypeOK, Books, [Next]_vars PROVE RowsStay
  <1>1. CASE UNCHANGED row
    BY <1>1 DEF RowsStay
  <1>2. ASSUME NEW o \in OrderIds, NEW ok \in BOOLEAN, ReserveReturns(o, ok)
        PROVE  RowsStay
    <2>1. \A q \in QuoteIds : row[q].state # "NONE" => row[q].order # None
      BY DEF Books, RowsAreUnique
    <2> QED
      BY <1>2, <2>1, ReserveReturnWrites DEF RowsStay
  <1>3. ASSUME NEW r \in recon, Materialize(r) PROVE RowsStay
    BY <1>3, MaterializeWrites DEF RowsStay
  <1>4. ASSUME NEW q \in QuoteIds, NEW ok \in BOOLEAN, SweepReturns(q, ok)
        PROVE  RowsStay
    BY <1>4, SweepReturnWrites DEF RowsStay
  <1>5. \/ UNCHANGED row
        \/ \E o \in OrderIds, ok \in BOOLEAN : ReserveReturns(o, ok)
        \/ \E r \in recon : Materialize(r)
        \/ \E q \in QuoteIds, ok \in BOOLEAN : SweepReturns(q, ok)
    BY DEF Next, vars, matcherVars, OwnerActs, Chain, OrderExpires, Arrive,
       CancelOrder, MaterializeExpiry, SetStatus, NoQuote, ClaimMatch,
       MatchSettles, WalletSettles, RequestReserve, StartReconcile,
       QuoteExpires, ReleaseElsewhere, Sweep, LoseReply, Execute, Reject,
       Answered, ReadOn, GiveUp, CrashAndRestart
  <1> QED
    BY <1>1, <1>2, <1>3, <1>4, <1>5

\* The reservation rows are never overwritten, whoever shares a reservation,
\* and however replies are lost or late.
THEOREM RowsAreFinal == Spec => [][RowsStay]_vars
  <1>1. TypeOK /\ Books /\ [Next]_vars => [RowsStay]_vars
    BY RowsStayStep
  <1> QED
    BY <1>1, BooksAreKept, FillTypes, PTL DEF Spec

\* A reservation whose row says RELEASED is released, whoever settles with what.
THEOREM GivenBackIsReleased == Spec => []GivenBackIsReal
  <1>1. Books => GivenBackIsReal
    BY DEF Books
  <1> QED
    BY <1>1, BooksAreKept, PTL

-----------------------------------------------------------------------------
(* The matcher, the wallets and the sweep move the chain as the contract does *)

LEMMA ChainStep == TypeOK /\ [Next]_vars => [ChainNext]_chainVars
  <1> SUFFICES ASSUME TypeOK, [Next]_vars PROVE [ChainNext]_chainVars
    OBVIOUS
  <1>1. ASSUME NEW o \in OrderIds, OwnerActs(o) PROVE ChainNext
    BY <1>1, Zenon DEF OwnerActs, Chain, ChainNext
  <1>2. ASSUME NEW b \in OrderIds, NEW s \in OrderIds, MatchSettles(b, s)
        PROVE  ChainNext
    BY <1>2, Zenon DEF MatchSettles, Chain, ChainNext
  <1>3. ASSUME NEW o \in OrderIds, NEW q \in QuoteIds, WalletSettles(o, q)
        PROVE  ChainNext
    BY <1>3, Zenon DEF WalletSettles, Chain, ChainNext
  <1>4. ASSUME NEW q \in QuoteIds, ReleaseElsewhere(q) PROVE ChainNext
    BY <1>4, Zenon DEF ReleaseElsewhere, Chain, ChainNext
  <1>5. ASSUME NEW tx \in pool, Execute(tx) PROVE ChainNext
    <2>1. tx.quote \in QuoteIds
      BY DEF TypeOK
    <2> QED
      BY <1>5, <2>1, Zenon DEF Execute, ChainNext
  <1>6. \/ UNCHANGED chainVars
        \/ \E o \in OrderIds :
             \/ OwnerActs(o) \/ \E x \in OrderIds : MatchSettles(o, x)
             \/ \E q \in QuoteIds : WalletSettles(o, q)
        \/ \E q \in QuoteIds : ReleaseElsewhere(q)
        \/ \E tx \in pool : Execute(tx)
    BY DEF Next, vars, OrderExpires, Arrive, CancelOrder, MaterializeExpiry,
       SetStatus, NoQuote, ClaimMatch, ReserveReturns, RequestReserve,
       StartReconcile, QuoteExpires, Sweep, SweepReturns, LoseReply, Reject,
       Materialize, ReadOn, GiveUp, CrashAndRestart
  <1> QED
    BY <1>1, <1>2, <1>3, <1>4, <1>5, <1>6

\* The chain that reservations, fills and releases run against does no more
\* than the contract promises.
THEOREM FillRunsOnTheContract == Spec => ChainSpec
  <1>1. Init => ChainInit
    BY DEF Init
  <1> QED
    BY <1>1, ChainStep, FillTypes, PTL DEF Spec, ChainSpec

-----------------------------------------------------------------------------
(* What is recorded as filled or spent is so, while wallets use their own     *)
(* quotes                                                                    *)

Fills == FillsUseOwnQuotes /\ LocalFillIsReal /\ ClosedRowsAreReal

FillCore == Books /\ Fills

\* Steps that leave the chain and what the tables say of orders and rows alone.
LEMMA OthersKeepFills ==
  ASSUME Fills, UNCHANGED <<orderState, reservationState, status, row>>
  PROVE  Fills'
  BY DEF Fills, FillsUseOwnQuotes, LocalFillIsReal, ClosedRowsAreReal

\* Orders created and closed by their owners.
LEMMA OwnersKeepFills ==
  ASSUME TypeOK, Fills, NEW o \in OrderIds, OwnerActs(o)
  PROVE  Fills'
  <1>1. UNCHANGED <<reservationState, status, row>>
    BY DEF OwnerActs, Chain, matcherVars, ChainCreate, ChainClose
  <1>2. \A x \in OrderIds : orderState'[x] = "FILLED" <=> orderState[x] = "FILLED"
    BY DEF OwnerActs, Chain, ChainCreate, ChainClose, TypeOK
  <1>3. FillsUseOwnQuotes'
    BY <1>1, <1>2, ProtocolFillConstants DEF Fills, FillsUseOwnQuotes, TypeOK
  <1>4. LocalFillIsReal'
    BY <1>1, <1>2 DEF Fills, LocalFillIsReal
  <1> QED
    BY <1>1, <1>3, <1>4 DEF Fills, ClosedRowsAreReal

\* A claimed match settles: neither order rests in the matcher's table.
LEMMA MatchKeepsFills ==
  ASSUME TypeOK, Fills, NEW b \in OrderIds, NEW s \in OrderIds,
         MatchSettles(b, s)
  PROVE  Fills'
  <1>1. UNCHANGED <<reservationState, status, row>>
    BY DEF MatchSettles, Chain, matcherVars, ChainSettle
  <1>2. \A x \in OrderIds :
          /\ orderState[x] = "FILLED" => orderState'[x] = "FILLED"
          /\ orderState'[x] = "FILLED" =>
               orderState[x] = "FILLED" \/ status[x] = "MATCHED"
    BY DEF MatchSettles, Chain, ChainSettle, TypeOK
  <1>3. FillsUseOwnQuotes'
    BY <1>1, <1>2, ProtocolFillConstants DEF Fills, FillsUseOwnQuotes, TypeOK
  <1>4. LocalFillIsReal'
    BY <1>1, <1>2 DEF Fills, LocalFillIsReal
  <1> QED
    BY <1>1, <1>3, <1>4 DEF Fills, ClosedRowsAreReal

\* A wallet settles its order with a reservation that was quoted for it.
LEMMA WalletKeepsFills ==
  ASSUME OwnQuotesOnly, TypeOK, FillCore, NEW o \in OrderIds, NEW q \in QuoteIds,
         WalletSettles(o, q)
  PROVE  Fills'
  <1>1. UNCHANGED <<status, row>>
    BY DEF WalletSettles, Chain, matcherVars
  <1>2. row[q].order = o /\ reservationState[q] = "OPEN"
    BY DEF WalletSettles, Chain, ChainSettleWithProtocol
  <1>3. /\ orderState' = [orderState EXCEPT ![o] = "FILLED"]
        /\ reservationState' = [reservationState EXCEPT ![q] = "EXECUTED"]
    BY DEF WalletSettles, Chain, ChainSettleWithProtocol
  <1>4. Fills /\ status[o] # "NONE"
    BY <1>2, ProtocolFillConstants DEF FillCore, Books, RowsAreUnique
  <1>5. FillsUseOwnQuotes'
    <2>1. \A p \in QuoteIds :
            reservationState'[p] = "EXECUTED" =>
              row'[p].order # None /\ orderState'[row'[p].order] = "FILLED"
      BY <1>1, <1>2, <1>3, <1>4, ProtocolFillConstants
         DEF Fills, FillsUseOwnQuotes, TypeOK
    <2>2. \A x \in OrderIds :
            status'[x] = "OPEN" /\ orderState'[x] = "FILLED" =>
              \E p \in QuoteIds :
                row'[p].order = x /\ reservationState'[p] = "EXECUTED"
      BY <1>1, <1>2, <1>3, <1>4 DEF Fills, FillsUseOwnQuotes, TypeOK
    <2>3. \A x \in OrderIds : status'[x] = "NONE" => orderState'[x] # "FILLED"
      BY <1>1, <1>3, <1>4 DEF Fills, FillsUseOwnQuotes, TypeOK
    <2> QED
      BY <2>1, <2>2, <2>3 DEF FillsUseOwnQuotes
  <1>6. LocalFillIsReal' /\ ClosedRowsAreReal'
    BY <1>1, <1>2, <1>3, <1>4 DEF Fills, LocalFillIsReal, ClosedRowsAreReal, TypeOK
  <1> QED
    BY <1>5, <1>6 DEF Fills

\* A reservation is opened or released on the chain.
LEMMA ReservationKeepsFills ==
  ASSUME TypeOK, Fills, NEW q \in QuoteIds, ChainReserve(q) \/ ChainRelease(q),
         UNCHANGED matcherVars
  PROVE  Fills'
  <1>1. UNCHANGED <<orderState, status, row>>
    BY DEF matcherVars, ChainReserve, ChainRelease
  <1>2. \E st \in {"OPEN", "RELEASED"} :
          /\ reservationState' = [reservationState EXCEPT ![q] = st]
          /\ reservationState[q] \in {"NONE", "OPEN"}
    BY DEF ChainReserve, ChainRelease
  <1>3. FillsUseOwnQuotes'
    BY <1>1, <1>2 DEF Fills, FillsUseOwnQuotes, TypeOK
  <1>4. ClosedRowsAreReal'
    BY <1>1, <1>2 DEF Fills, ClosedRowsAreReal, TypeOK
  <1> QED
    BY <1>1, <1>3, <1>4 DEF Fills, LocalFillIsReal

\* Orders arrive, and resting orders are claimed, cancelled or expired: none
\* becomes FILLED, and one that has come to rest is not filled yet.
LEMMA StatusKeepsFills ==
  ASSUME Fills, UNCHANGED <<orderState, reservationState, row>>,
         \A x \in OrderIds :
           /\ status'[x] = "NONE" => status[x] = "NONE"
           /\ status'[x] = "FILLED" => status[x] = "FILLED"
           /\ status'[x] = "OPEN" => status[x] = "OPEN" \/ orderState[x] = "OPEN"
  PROVE  Fills'
  BY DEF Fills, FillsUseOwnQuotes, LocalFillIsReal, ClosedRowsAreReal

\* A row appears, for an order that had none.
LEMMA ReserveReturnKeepsFills ==
  ASSUME TypeOK, FillCore, NEW o \in OrderIds, NEW ok \in BOOLEAN,
         ReserveReturns(o, ok)
  PROVE  Fills'
  <1>1. UNCHANGED <<orderState, reservationState, status>>
    BY DEF ReserveReturns, chainVars
  <1>2. Books /\ Fills
    BY DEF FillCore
  <1>3. /\ filling[o].quote \in QuoteIds
        /\ \/ row' = row
           \/ row' = [row EXCEPT ![filling[o].quote] =
                                   [state |-> "OPEN", order |-> o]]
        /\ \A p \in QuoteIds : row[p].order # None => row'[p] = row[p]
    BY <1>2, ReserveReturnWrites
  <1>4. FillsUseOwnQuotes'
    BY <1>1, <1>2, <1>3, ProtocolFillConstants DEF Fills, FillsUseOwnQuotes
  <1>5. ClosedRowsAreReal'
    BY <1>1, <1>2, <1>3 DEF Fills, ClosedRowsAreReal, TypeOK
  <1> QED
    BY <1>1, <1>2, <1>4, <1>5 DEF Fills, LocalFillIsReal

\* Rows keep their orders.
LEMMA ClosingKeepsFillsOwn ==
  ASSUME FillsUseOwnQuotes, UNCHANGED <<orderState, reservationState>>,
         \A p \in QuoteIds : row'[p].order = row[p].order,
         \A x \in OrderIds :
           /\ status'[x] = "OPEN" => status[x] = "OPEN"
           /\ status'[x] = "NONE" => status[x] = "NONE"
  PROVE  FillsUseOwnQuotes'
  BY DEF FillsUseOwnQuotes

\* Either read of a reconciliation shows both the fill and the reservation's
\* use: the filled order is the one the reservation was quoted for.
LEMMA MaterializeKeepsFills ==
  ASSUME TypeOK, FillCore, NEW r \in recon, Materialize(r)
  PROVE  Fills'
  <1>1. Books /\ Fills /\ FillsUseOwnQuotes
    BY DEF FillCore, Fills
  <1>2. /\ r.order \in OrderIds /\ r.quote \in QuoteIds
        /\ row[r.quote].order = r.order
        /\ UNCHANGED <<orderState, reservationState>>
    BY <1>1, MaterializeWrites
  <1>3. CASE UNCHANGED <<status, row>>
    BY <1>1, <1>2, <1>3, OthersKeepFills
  <1>4. CASE ~ UNCHANGED <<status, row>>
    <2>1. /\ status[r.order] = "OPEN"
          /\ status' = [status EXCEPT ![r.order] = "FILLED"]
          /\ \A p \in QuoteIds :
               \/ row'[p] = row[p]
               \/ /\ p = r.quote /\ row[p].state = "OPEN"
                  /\ row'[p].state = "EXECUTED" /\ row'[p].order = row[p].order
      BY <1>1, <1>4, MaterializeWrites
    <2>2. orderState[r.order] = "FILLED" /\ reservationState[r.quote] = "EXECUTED"
      <3>1. CASE r.at = "order" /\ orderState[r.order] = "FILLED"
        <4>1. PICK p \in QuoteIds :
                row[p].order = r.order /\ reservationState[p] = "EXECUTED"
          BY <1>1, <1>2, <2>1, <3>1 DEF FillsUseOwnQuotes
        <4>2. p = r.quote
          BY <1>1, <1>2, <4>1, ProtocolFillConstants DEF Books, RowsAreUnique
        <4> QED
          BY <3>1, <4>1, <4>2
      <3>2. CASE reservationState[r.quote] = "EXECUTED"
        BY <1>1, <1>2, <3>2 DEF FillsUseOwnQuotes
      <3> QED
        BY <3>1, <3>2 DEF Materialize, Settled
    <2>3. FillsUseOwnQuotes'
      <3>1. \A p \in QuoteIds : row'[p].order = row[p].order
        BY <2>1
      <3>2. \A x \in OrderIds :
              /\ status'[x] = "OPEN" => status[x] = "OPEN"
              /\ status'[x] = "NONE" => status[x] = "NONE"
        BY <1>2, <2>1 DEF TypeOK
      <3> QED
        BY <1>1, <1>2, <3>1, <3>2, ClosingKeepsFillsOwn
    <2>4. LocalFillIsReal' /\ ClosedRowsAreReal'
      BY <1>1, <1>2, <2>1, <2>2
         DEF Fills, LocalFillIsReal, ClosedRowsAreReal, TypeOK
    <2> QED
      BY <2>3, <2>4 DEF Fills
  <1> QED
    BY <1>3, <1>4

\* The sweep's call ends.
LEMMA SweepReturnKeepsFills ==
  ASSUME TypeOK, FillCore, NEW q \in QuoteIds, NEW ok \in BOOLEAN,
         SweepReturns(q, ok)
  PROVE  Fills'
  <1>1. Books /\ Fills
    BY DEF FillCore
  <1>2. /\ UNCHANGED <<orderState, reservationState, status>>
        /\ \A p \in QuoteIds :
             \/ row'[p] = row[p]
             \/ /\ row'[p].state = "RELEASED" /\ reservationState[p] = "RELEASED"
                /\ row'[p].order = row[p].order
    BY <1>1, SweepReturnWrites
  <1>3. FillsUseOwnQuotes'
    BY <1>1, <1>2, ClosingKeepsFillsOwn DEF Fills
  <1>4. ClosedRowsAreReal'
    BY <1>1, <1>2 DEF Fills, ClosedRowsAreReal
  <1> QED
    BY <1>1, <1>2, <1>3, <1>4 DEF Fills, LocalFillIsReal

-----------------------------------------------------------------------------
LEMMA FillInit == Init => Fills
  BY ProtocolFillConstants DEF Init, ChainInit, Fills, FillsUseOwnQuotes,
     LocalFillIsReal, ClosedRowsAreReal, NoRow

LEMMA FillStep ==
  ASSUME OwnQuotesOnly, TypeOK, FillCore, [Next]_vars
  PROVE  Fills'
  <1>1. Books /\ Fills
    BY DEF FillCore
  <1>2. ASSUME NEW o \in OrderIds,
               \/ OwnerActs(o)
               \/ \E ok \in BOOLEAN : ReserveReturns(o, ok)
               \/ \E x \in OrderIds : MatchSettles(o, x)
               \/ \E q \in QuoteIds : WalletSettles(o, q)
        PROVE  Fills'
    BY <1>1, <1>2, OwnersKeepFills, ReserveReturnKeepsFills, MatchKeepsFills,
       WalletKeepsFills
  <1>3. ASSUME NEW o \in OrderIds,
               \/ Arrive(o) \/ CancelOrder(o) \/ MaterializeExpiry(o)
               \/ \E x \in OrderIds : ClaimMatch(o, x)
        PROVE  Fills'
    <2>1. UNCHANGED <<orderState, reservationState, row>>
      BY <1>3 DEF Arrive, CancelOrder, MaterializeExpiry, ClaimMatch, SetStatus,
         chainVars
    <2>2. \A x \in OrderIds :
            /\ status'[x] = "NONE" => status[x] = "NONE"
            /\ status'[x] = "FILLED" => status[x] = "FILLED"
            /\ status'[x] = "OPEN" => status[x] = "OPEN" \/ orderState[x] = "OPEN"
      BY <1>3 DEF Arrive, CancelOrder, MaterializeExpiry, ClaimMatch, SetStatus,
         TypeOK
    <2> QED
      BY <1>1, <2>1, <2>2, StatusKeepsFills
  <1>4. ASSUME NEW q \in QuoteIds,
               ReleaseElsewhere(q) \/ \E ok \in BOOLEAN : SweepReturns(q, ok)
        PROVE  Fills'
    <2>1. CASE ReleaseElsewhere(q)
      <3>1. ChainRelease(q) /\ UNCHANGED matcherVars
        BY <2>1 DEF ReleaseElsewhere, Chain
      <3> QED
        BY <1>1, <3>1, ReservationKeepsFills
    <2> QED
      BY <1>4, <2>1, SweepReturnKeepsFills
  <1>5. ASSUME NEW tx \in pool, Execute(tx) PROVE Fills'
    <2>1. /\ tx.quote \in QuoteIds /\ UNCHANGED matcherVars
          /\ ChainReserve(tx.quote) \/ ChainRelease(tx.quote)
      BY <1>5 DEF Execute, Answered, TypeOK
    <2> QED
      BY <1>1, <2>1, ReservationKeepsFills
  <1>6. ASSUME NEW r \in recon, Materialize(r) PROVE Fills'
    BY <1>6, MaterializeKeepsFills
  <1>7. CASE UNCHANGED <<orderState, reservationState, status, row>>
    BY <1>1, <1>7, OthersKeepFills
  <1>8. \/ UNCHANGED <<orderState, reservationState, status, row>>
        \/ \E o \in OrderIds :
             \/ OwnerActs(o)
             \/ \E ok \in BOOLEAN : ReserveReturns(o, ok)
             \/ \E x \in OrderIds : MatchSettles(o, x)
             \/ \E q \in QuoteIds : WalletSettles(o, q)
             \/ Arrive(o) \/ CancelOrder(o) \/ MaterializeExpiry(o)
             \/ \E x \in OrderIds : ClaimMatch(o, x)
        \/ \E q \in QuoteIds :
             ReleaseElsewhere(q) \/ \E ok \in BOOLEAN : SweepReturns(q, ok)
        \/ \E tx \in pool : Execute(tx)
        \/ \E r \in recon : Materialize(r)
    BY DEF Next, vars, chainVars, matcherVars, OrderExpires, NoQuote,
       RequestReserve, StartReconcile, QuoteExpires, Sweep, LoseReply, Reject,
       Answered, ReadOn, GiveUp, CrashAndRestart
  <1> QED
    BY <1>2, <1>3, <1>4, <1>5, <1>6, <1>7, <1>8

LEMMA FillsHold == OwnQuotesOnly => (Spec => []Fills)
  <1> SUFFICES ASSUME OwnQuotesOnly PROVE Spec => []Fills
    OBVIOUS
  <1>1. TypeOK /\ Books /\ Fills /\ [Next]_vars => Fills'
    BY FillStep DEF FillCore
  <1> QED
    BY <1>1, FillInit, FillTypes, BooksAreKept, PTL DEF Spec

\* While wallets use their own quotes, an order reconcileProtocolFill records
\* as FILLED is FILLED on the chain.
THEOREM LocalFillsAreReal == OwnQuotesOnly => (Spec => []LocalFillIsReal)
  <1> SUFFICES ASSUME OwnQuotesOnly PROVE Spec => []LocalFillIsReal
    OBVIOUS
  <1>1. Spec => []Fills
    BY FillsHold
  <1>2. Fills => LocalFillIsReal
    BY DEF Fills
  <1> QED
    BY <1>1, <1>2, PTL

\* And a reservation row that reconciliation or the sweep has closed is closed
\* the same way on the chain.
THEOREM ClosedRowsAreRealToo == OwnQuotesOnly => (Spec => []ClosedRowsAreReal)
  <1> SUFFICES ASSUME OwnQuotesOnly PROVE Spec => []ClosedRowsAreReal
    OBVIOUS
  <1>1. Spec => []Fills
    BY FillsHold
  <1>2. Fills => ClosedRowsAreReal
    BY DEF Fills
  <1> QED
    BY <1>1, <1>2, PTL
=============================================================================
