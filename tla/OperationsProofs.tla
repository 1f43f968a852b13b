--------------------------- MODULE OperationsProofs --------------------------
(***************************************************************************)
(* Theorems about the matcher's administration and prices                  *)
(* (TreasuryAdmin.tla) among the operator's programs (Operations.tla), for *)
(* any number of programs, networks and challenges and any agenda.         *)
(***************************************************************************)
EXTENDS Operations, TLAPS

\* What programs, clients and users do to the matcher's administration.
AdminNext ==
  \/ IssueChallenge \/ ClaimMatch \/ Quiet \/ StartQuote \/ FinishQuote
  \/ StopServing
  \/ \E n \in Nonces : Accept(n) \/ Refuse(n) \/ Land(n) \/ Fail(n) \/ Finish(n)

\* A live challenge is the newest; a deposit is waited for until it lands, and
\* a request that was answered has landed.
AdminInv ==
  /\ AdminTypeOK /\ RowsAreReal /\ BootstrapRetired
  /\ challenge \in {0, issued}
  /\ \A n \in Nonces : call[n] \in {"landed", "answered"} => n \in landed

-----------------------------------------------------------------------------
(* The administration by itself *)

LEMMA AdminStarts == AdminInit => AdminInv
<1> SUFFICES ASSUME AdminInit PROVE AdminInv OBVIOUS
<1> USE DEF AdminInit, NoChallenge, EmptyTables
<1>1. issued \in 0..MaxNonce /\ challenge \in 0..issued /\ challenge \in {0, issued}
  BY AdminConstants
<1>2. call \in [Nonces -> Stages] /\ landed \subseteq Nonces /\ rows \subseteq Nonces
  BY DEF Stages
<1>3. {bootstrap, traded, recent, cut} \subseteq BOOLEAN OBVIOUS
<1>4. quote \in {NoQuote, "recent", "quiet"}
      /\ priced \in {"last", "middle", "bootstrap", "unpriced"}
  OBVIOUS
<1>5. \A n \in Nonces : call[n] \in {"landed", "answered"} => n \in landed OBVIOUS
<1>6. RowsAreReal /\ BootstrapRetired BY DEF RowsAreReal, BootstrapRetired
<1> QED BY <1>1, <1>2, <1>3, <1>4, <1>5, <1>6 DEF AdminInv, AdminTypeOK

LEMMA ChallengesKeepInv ==
  ASSUME AdminInv,
         IssueChallenge \/ \E n \in Nonces : Accept(n) \/ Refuse(n)
  PROVE  AdminInv'
<1> USE AdminConstants DEF AdminInv, AdminTypeOK, RowsAreReal, BootstrapRetired,
      Nonces, Stages, pricing
<1>1. CASE IssueChallenge BY <1>1 DEF IssueChallenge
<1>2. ASSUME NEW n \in Nonces, Accept(n) PROVE AdminInv' BY <1>2 DEF Accept
<1>3. ASSUME NEW n \in Nonces, Refuse(n) PROVE AdminInv' BY <1>3 DEF Refuse
<1> QED BY <1>1, <1>2, <1>3

LEMMA DepositsKeepInv ==
  ASSUME AdminInv, NEW n \in Nonces, Land(n) \/ Fail(n) \/ Finish(n)
  PROVE  AdminInv'
<1> USE DEF AdminInv, AdminTypeOK, RowsAreReal, BootstrapRetired, Stages, pricing
<1>1. CASE Land(n) BY <1>1 DEF Land
<1>2. CASE Fail(n) BY <1>2 DEF Fail
<1>3. CASE Finish(n)
  <2>1. bootstrap' \in {bootstrap, bootstrap \/ ~traded} /\ n \in landed
    BY <1>3 DEF Finish, PriceWritten, Virgin, Done
  <2>2. BootstrapRetired' BY <1>3, <2>1 DEF Finish
  <2>3. bootstrap' \in BOOLEAN BY <2>1
  <2> QED BY <1>3, <2>1, <2>2, <2>3 DEF Finish
<1> QED BY <1>1, <1>2, <1>3

LEMMA PricesKeepInv ==
  ASSUME AdminInv, ClaimMatch \/ Quiet \/ StartQuote \/ FinishQuote
  PROVE  AdminInv'
<1> USE DEF AdminInv, AdminTypeOK, RowsAreReal, BootstrapRetired, Stages
<1>1. CASE ClaimMatch BY <1>1 DEF ClaimMatch, AfterMatch
<1>2. CASE Quiet BY <1>2 DEF Quiet
<1>3. CASE StartQuote BY <1>3 DEF StartQuote, NoQuote
<1>4. CASE FinishQuote
  <2>1. priced' \in {"last", "middle", "bootstrap", "unpriced"}
    BY <1>4 DEF FinishQuote, Prices
  <2> QED BY <1>4, <2>1 DEF FinishQuote
<1> QED BY <1>1, <1>2, <1>3, <1>4

\* The process stops at any point, those inside a handler included.
LEMMA StoppingKeepsInv ==
  ASSUME AdminInv, StopServing PROVE AdminInv'
<1> USE DEF AdminInv, AdminTypeOK, RowsAreReal, BootstrapRetired, Stages
<1>1. /\ challenge' = 0 /\ quote' = NoQuote
      /\ issued' = issued /\ rows' = rows /\ priced' = priced
  BY DEF StopServing
<1>2. call' \in [Nonces -> Stages] BY DEF StopServing
<1>3. landed \subseteq landed' /\ landed' \subseteq Nonces BY DEF StopServing
<1>4. \A n \in Nonces : call'[n] \in {"landed", "answered"} => n \in landed'
  BY <1>3 DEF StopServing
<1>5. BootstrapRetired' /\ {bootstrap, traded, recent, cut}' \subseteq BOOLEAN
  <2>1. CASE UNCHANGED <<bootstrap, traded, recent, cut>> BY <2>1
  <2>2. CASE PriceWritten /\ UNCHANGED <<traded, recent, cut>>
    <3>1. bootstrap' \in {bootstrap, bootstrap \/ ~traded}
      BY <2>2 DEF PriceWritten, Virgin
    <3> QED BY <2>2, <3>1
  <2>3. CASE /\ traded' = TRUE /\ recent' = TRUE
             /\ cut' = (cut \/ bootstrap) /\ UNCHANGED bootstrap
    BY <2>3
  <2> QED BY <2>1, <2>2, <2>3 DEF StopServing
<1>6. issued \in 0..MaxNonce BY DEF AdminInv
<1>7. NoQuote \in {NoQuote, "recent", "quiet"} OBVIOUS
<1> QED BY <1>1, <1>2, <1>3, <1>4, <1>5, <1>6, <1>7, AdminConstants

LEMMA AdminStep ==
  ASSUME AdminInv, AdminNext \/ UNCHANGED adminVars PROVE AdminInv'
<1>1. CASE UNCHANGED adminVars
  BY <1>1 DEF adminVars, AdminInv, AdminTypeOK, RowsAreReal, BootstrapRetired
<1>2. CASE AdminNext
  BY <1>2, ChallengesKeepInv, DepositsKeepInv, PricesKeepInv, StoppingKeepsInv
     DEF AdminNext
<1> QED BY <1>1, <1>2

-----------------------------------------------------------------------------
(* Among the operator's programs *)

\* Every step of the programs is one of the administration's, or leaves it as
\* it is.
LEMMA ProgramsAdminister ==
  ASSUME [Next]_vars PROVE AdminNext \/ UNCHANGED adminVars
<1> SUFFICES ASSUME Next PROVE AdminNext \/ UNCHANGED adminVars BY DEF vars
<1> USE DEF AdminNext
<1>1. ASSUME NEW p \in Procs, Serve(p) \/ Attend(p) \/ TakeAnswer(p)
      PROVE  UNCHANGED adminVars
  BY <1>1 DEF Serve, Attend, TakeAnswer
<1>2. ASSUME NEW p \in Procs, StopProcess(p) PROVE AdminNext \/ UNCHANGED adminVars
  BY <1>2 DEF StopProcess
<1>3. ASSUME NEW p \in Procs, AskChallenge(p) PROVE AdminNext BY <1>3 DEF AskChallenge
<1>4. ASSUME NEW p \in Procs, Respond(p) PROVE \E n \in Nonces : Accept(n) \/ Refuse(n)
  <2>1. nonce[p] \in Nonces /\ (Accept(nonce[p]) \/ Refuse(nonce[p])) BY <1>4 DEF Respond
  <2> QED BY <2>1
<1>5. ASSUME NEW n \in Nonces, Transfer(n) PROVE AdminNext BY <1>5 DEF Transfer
<1>6. CASE TradeMatched \/ QuotePrice \/ DayWithoutTrade \/ QuoteDeals
  BY <1>6 DEF TradeMatched, QuotePrice, DayWithoutTrade, QuoteDeals
<1> QED BY <1>1, <1>2, <1>3, <1>4, <1>5, <1>6 DEF Next

\* The inductive invariant of the administration.
THEOREM AdministrationSafe == Spec => []AdminInv
<1>1. Init => AdminInv BY AdminStarts DEF Init
<1>2. AdminInv /\ [Next]_vars => AdminInv' BY AdminStep, ProgramsAdminister
<1> QED BY <1>1, <1>2, PTL DEF Spec

\* The local history of deposits never shows one the chain does not, however
\* many programs, stops and lost answers (admin.ts: the row is written after
\* the contract's call has succeeded).
THEOREM HistoryIsReal == Spec => []RowsAreReal
<1>1. AdminInv => RowsAreReal BY DEF AdminInv
<1> QED BY <1>1, AdministrationSafe, PTL

\* A traded token's bootstrap price is gone, unless the matcher stopped between
\* the claim of its first match and the deletion (OrderService.ts:292).
THEOREM PriceIsRetired == Spec => []BootstrapRetired
<1>1. AdminInv => BootstrapRetired BY DEF AdminInv
<1> QED BY <1>1, AdministrationSafe, PTL

\* Only the response to the newest challenge is accepted (adminAuth.ts), for
\* any number of clients of the administrator's address.
THEOREM OnlyTheNewestIsAnswered == Spec => NewestChallengeOnly
<1> DEFINE A == \A n \in Nonces :
                  call[n] = "none" /\ call'[n] = "calling" => n = issued
<1>1. ASSUME AdminInv, AdminNext PROVE A
  <2> SUFFICES ASSUME NEW n \in Nonces, call[n] = "none", call'[n] = "calling"
               PROVE  n = issued
    OBVIOUS
  <2> USE <1>1 DEF AdminInv, AdminTypeOK
  <2>1. CASE IssueChallenge \/ ClaimMatch \/ Quiet \/ StartQuote \/ FinishQuote
    BY <2>1 DEF IssueChallenge, ClaimMatch, Quiet, StartQuote, FinishQuote
  <2>2. CASE StopServing BY <2>2 DEF StopServing
  <2>3. ASSUME NEW m \in Nonces, Accept(m) PROVE n = issued
    <3>1. m = n BY <2>3 DEF Accept
    <3> QED BY <2>3, <3>1 DEF Accept, Answers, Nonces
  <2>4. ASSUME NEW m \in Nonces, Refuse(m) \/ Land(m) \/ Fail(m) \/ Finish(m)
        PROVE  FALSE
    BY <2>4 DEF Refuse, Land, Fail, Finish
  <2> QED BY <1>1, <2>1, <2>2, <2>3, <2>4 DEF AdminNext
<1>2. ASSUME AdminInv, [Next]_vars PROVE [A]_adminVars
  BY <1>1, <1>2, ProgramsAdminister
<1>3. AdminInv /\ [Next]_vars => [A]_adminVars BY <1>2
<1> QED BY <1>3, AdministrationSafe, PTL DEF Spec, NewestChallengeOnly

\* No quote computed after the first match starts from the bootstrap price,
\* although statistics and price are read on either side of an await
\* (MarketDataService.ts), the crash above aside.
THEOREM QuotesFollowTrades == Spec => QuotedFromTrade
<1> DEFINE A == quote # NoQuote /\ quote' = NoQuote /\ priced' = "bootstrap"
                  => ~traded \/ cut \/ UNCHANGED priced
<1>1. ASSUME AdminInv, AdminNext PROVE A
  <2> SUFFICES ASSUME priced' = "bootstrap", traded PROVE cut \/ UNCHANGED priced
    OBVIOUS
  <2>1. CASE IssueChallenge \/ ClaimMatch \/ Quiet \/ StartQuote
    BY <2>1 DEF IssueChallenge, ClaimMatch, Quiet, StartQuote, pricing
  <2>2. CASE StopServing BY <2>2 DEF StopServing
  <2>3. ASSUME NEW m \in Nonces,
               Accept(m) \/ Refuse(m) \/ Land(m) \/ Fail(m) \/ Finish(m)
        PROVE  UNCHANGED priced
    BY <2>3 DEF Accept, Refuse, Land, Fail, Finish, pricing
  <2>4. CASE FinishQuote
    <3>1. "bootstrap" \in Prices BY <2>4 DEF FinishQuote
    <3>2. bootstrap BY <3>1 DEF Prices
    <3> QED BY <1>1, <3>2 DEF AdminInv, BootstrapRetired
  <2> QED BY <1>1, <2>1, <2>2, <2>3, <2>4 DEF AdminNext
<1>2. ASSUME AdminInv, [Next]_vars PROVE [A]_adminVars
  BY <1>1, <1>2, ProgramsAdminister
<1>3. AdminInv /\ [Next]_vars => [A]_adminVars BY <1>2
<1> QED BY <1>3, AdministrationSafe, PTL DEF Spec, QuotedFromTrade
=============================================================================
