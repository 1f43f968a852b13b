--------------------------- MODULE TreasuryAdmin ---------------------------
(***************************************************************************)
(* The matcher's administration of the treasury and the price its quotes   *)
(* start from: challenges (adminAuth.ts), withdrawals and deposits, which  *)
(* may bring a bootstrap price (admin.ts), the retirement of that price by *)
(* the first match (OrderService.ts) and the reference price of a quote    *)
(* (MarketDataService.ts), for one token and one administrator's address.  *)
(* Requests are known by the nonce of the challenge they answer.           *)
(***************************************************************************)
EXTENDS Naturals

CONSTANT MaxNonce    \* challenges issued in a run; bounds runs

ASSUME AdminConstants == MaxNonce \in Nat

VARIABLES
  challenge,   \* the nonce kept for the address, in memory; 0 for none
  issued,      \* challenges issued so far
  call,        \* what became of the request that answered each challenge
  landed,      \* deposits and withdrawals the chain shows
  rows,        \* treasury_events
  bootstrap,   \* the token has a row in bootstrap_prices
  traded,      \* the token has a row in matches
  recent,      \* ... within STATS_WINDOW_MS
  cut,         \* a crash fell between a match and the deletion of the price
  quote,       \* the trade statistics read for the quote under way
  priced       \* where the last quote's price came from

adminVars ==
  <<challenge, issued, call, landed, rows, bootstrap, traded, recent, cut,
    quote, priced>>

Nonces == 1..MaxNonce
Stages == {"none", "calling", "landed", "answered", "failed"}
NoQuote == "none"

NoChallenge == challenge = 0 /\ issued = 0 /\ call = [n \in Nonces |-> "none"]

\* A database and a treasury that have not been used.
EmptyTables ==
  /\ landed = {} /\ rows = {}
  /\ bootstrap = FALSE /\ traded = FALSE /\ recent = FALSE /\ cut = FALSE

AdminInit ==
  NoChallenge /\ EmptyTables /\ quote = NoQuote /\ priced = "unpriced"

pricing == <<bootstrap, traded, recent, cut, quote, priced>>

-----------------------------------------------------------------------------
(* Challenges *)

\* issueChallenge: the address has one challenge, its newest.
IssueChallenge ==
  /\ issued < MaxNonce
  /\ issued' = issued + 1
  /\ challenge' = issued + 1
  /\ UNCHANGED <<call, landed, rows, pricing>>

Answers(n) == challenge = n

\* verify: the challenge is used up when it was answered or had expired.  A
\* request that is malformed or signed by another leaves it; its client gives up.
Accept(n) ==
  /\ call[n] = "none" /\ Answers(n)
  /\ challenge' = 0
  /\ call' = [call EXCEPT ![n] = "calling"]
  /\ UNCHANGED <<issued, landed, rows, pricing>>

Refuse(n) ==
  /\ call[n] = "none"
  /\ challenge' \in {0, challenge}
  /\ call' = [call EXCEPT ![n] = "failed"]
  /\ UNCHANGED <<issued, landed, rows, pricing>>

-----------------------------------------------------------------------------
(* Deposits and withdrawals *)

Land(n) ==
  /\ call[n] = "calling"
  /\ landed' = landed \cup {n}
  /\ call' = [call EXCEPT ![n] = "landed"]
  /\ UNCHANGED <<challenge, issued, rows, pricing>>

\* callFailed or transientError: refused, or sent and never heard of again.
Fail(n) ==
  /\ call[n] \in {"calling", "landed"}
  /\ landed' \in {landed, landed \cup {n}}
  /\ call' = [call EXCEPT ![n] = "failed"]
  /\ UNCHANGED <<challenge, issued, rows, pricing>>

\* Slip: a bootstrap price is written whether or not the token has traded.
VirginOrNot == TRUE
Virgin == ~traded

\* A deposit may name a price; without one, and for a withdrawal, the rest of
\* the handler is the same.
PriceWritten == bootstrap' \in {bootstrap, bootstrap \/ Virgin}

Done(n) == call[n] = "landed"

\* The handler after its await: the price, then the row.
Finish(n) ==
  /\ Done(n) /\ PriceWritten
  /\ rows' = rows \cup {n}
  /\ call' = [call EXCEPT ![n] = "answered"]
  /\ UNCHANGED <<challenge, issued, landed, traded, recent, cut, quote, priced>>

-----------------------------------------------------------------------------
(* Matches and quotes *)

\* Slip: the first match leaves the bootstrap price in place.
KeptAfterMatch == bootstrap
AfterMatch == FALSE

\* The claim and the deletion after it; quotes that are being computed go on.
ClaimMatch ==
  /\ traded' = TRUE /\ recent' = TRUE
  /\ bootstrap' = AfterMatch
  /\ UNCHANGED <<challenge, issued, call, landed, rows, cut, quote, priced>>

\* A day without a match.
Quiet ==
  /\ recent /\ recent' = FALSE
  /\ UNCHANGED <<challenge, issued, call, landed, rows, bootstrap, traded, cut,
                 quote, priced>>

\* getSnapshot: the statistics before the await, the bootstrap price after it.
StartQuote ==
  /\ quote = NoQuote
  /\ quote' = IF recent THEN "recent" ELSE "quiet"
  /\ UNCHANGED <<challenge, issued, call, landed, rows, bootstrap, traded,
                 recent, cut, priced>>

\* referencePrice: the last trade, the middle of a two-sided book, the
\* bootstrap price, or no quote.
Prices ==
  IF quote = "recent" THEN {"last"}
  ELSE {"middle", IF bootstrap THEN "bootstrap" ELSE "unpriced"}

FinishQuote ==
  /\ quote # NoQuote /\ quote' = NoQuote
  /\ \E price \in Prices : priced' = price
  /\ UNCHANGED <<challenge, issued, call, landed, rows, bootstrap, traded,
                 recent, cut>>
-----------------------------------------------------------------------------
(* The process stops: between two handlers, between the two writes of a    *)
(* deposit, or between a match's claim and the deletion of the price.      *)

StopServing ==
  /\ challenge' = 0 /\ quote' = NoQuote
  /\ call' = [n \in Nonces |->
       IF call[n] \in {"calling", "landed"} THEN "failed" ELSE call[n]]
  /\ \E late \in SUBSET {n \in Nonces : call[n] = "calling"} :
       landed' = landed \cup late
  /\ \/ UNCHANGED <<bootstrap, traded, recent, cut>>
     \/ /\ \E n \in Nonces : Done(n)
        /\ PriceWritten /\ UNCHANGED <<traded, recent, cut>>
     \/ /\ traded' = TRUE /\ recent' = TRUE
        /\ cut' = (cut \/ bootstrap) /\ UNCHANGED bootstrap
  /\ UNCHANGED <<issued, rows, priced>>

-----------------------------------------------------------------------------
(* Properties *)

AdminTypeOK ==
  /\ issued \in 0..MaxNonce /\ challenge \in 0..issued
  /\ call \in [Nonces -> Stages]
  /\ landed \subseteq Nonces /\ rows \subseteq Nonces
  /\ {bootstrap, traded, recent, cut} \subseteq BOOLEAN
  /\ quote \in {NoQuote, "recent", "quiet"}
  /\ priced \in {"last", "middle", "bootstrap", "unpriced"}

\* The local history shows no transfer the chain does not, whichever answers
\* are lost and whenever the process stops (the converse does not hold).
RowsAreReal == rows \subseteq landed

\* A token that has traded has no bootstrap price, although a deposit may be
\* waiting for the chain while its first match is made; only a crash right
\* after that match leaves one (MarketDataService.ts: "the moment the asset
\* has a real match, its bootstrap row is deleted").
BootstrapRetired == bootstrap /\ traded => cut

\* Of the responses of two clients of the address, the one to the newest
\* challenge is accepted, and the other is not.
NewestChallengeOnly ==
  [][\A n \in Nonces :
       call[n] = "none" /\ call'[n] = "calling" => n = issued]_adminVars

\* No quote computed after a token's first match starts from its bootstrap
\* price, though statistics and price are read at different moments.
QuotedFromTrade ==
  [][quote # NoQuote /\ quote' = NoQuote /\ priced' = "bootstrap"
       => ~traded \/ cut \/ UNCHANGED priced]_adminVars
=============================================================================
