----------------------------- MODULE Operations ----------------------------
(***************************************************************************)
(* The operator's programs with the matcher among them: a process that     *)
(* reaches "serve" answers the administrator's scripts and quotes prices   *)
(* (TreasuryAdmin.tla, Quoting.tla) until it stops, and the transfers it   *)
(* submits land only if the secret it read is the one its contract knows.  *)
(* A scene follows the sources of prices, or the deals made at them.       *)
(***************************************************************************)
EXTENDS Scripts, TreasuryAdmin, Quoting

CONSTANTS
  Nobody,        \* not a process
  AdminWallet    \* the seed behind MATCHER_ADMIN_ADDRESSES

ASSUME OperationsConstants == Nobody \notin Procs

VARIABLES
  server,   \* the process that has the matcher's port
  nonce     \* the challenge each client was given

vars == <<scriptVars, adminVars, quotingVars, server, nonce>>

Init ==
  /\ \E scene \in Scenes : ScriptsInit(scene) /\ QuotingInit(scene.wanting)
  /\ AdminInit
  /\ server = Nobody /\ nonce = [p \in Procs |-> 0]

Serving == server # Nobody

\* A client's step changes nothing on disk or on the chain.
Proceeds(p) ==
  /\ Becomes(p, Advanced(p))
  /\ UNCHANGED <<fileVars, chainVars, fresh, agenda, historyVars>>

Serve(p) ==
  /\ At(p, "serve") /\ ~Serving
  /\ server' = p
  /\ UNCHANGED <<scriptVars, adminVars, quotingVars, nonce>>

StopProcess(p) ==
  /\ Stop(p)
  /\ nonce' = [nonce EXCEPT ![p] = 0]
  /\ IF server = p THEN server' = Nobody /\ StopServing /\ DropDeals
                   ELSE UNCHANGED <<server, adminVars, quotingVars>>

\* POST /admin/challenge; a wallet that is not on the list is refused.
AskChallenge(p) ==
  /\ At(p, "challenge") /\ Serving /\ proc[p].seed = AdminWallet
  /\ IssueChallenge /\ Proceeds(p)
  /\ nonce' = [nonce EXCEPT ![p] = issued + 1]
  /\ UNCHANGED <<quotingVars, server>>

\* POST /admin/treasury/deposit or /withdraw, and its answer; any other ends
\* the script.
Respond(p) ==
  /\ At(p, "respond") /\ Serving /\ nonce[p] \in Nonces
  /\ Accept(nonce[p]) \/ Refuse(nonce[p])
  /\ UNCHANGED <<scriptVars, quotingVars, server, nonce>>

TakeAnswer(p) ==
  /\ At(p, "respond") /\ call[nonce[p]] = "answered"
  /\ Proceeds(p)
  /\ UNCHANGED <<adminVars, quotingVars, server, nonce>>

\* The matcher's side of it, whether or not its client still waits.
Transfer(n) ==
  /\ Serving
  /\ \/ Land(n) /\ exchanges[proc[server].contract].admin = proc[server].secret
     \/ Fail(n) \/ Finish(n)
  /\ UNCHANGED <<scriptVars, quotingVars, server, nonce>>

\* An order that is posted, and one a wallet fills with a quote.
Attend(p) ==
  /\ At(p, "post") \/ At(p, "fill")
  /\ Serving /\ Proceeds(p)
  /\ UNCHANGED <<adminVars, quotingVars, server, nonce>>

\* Two users' orders match, or those of a script.
TradeMatched ==
  /\ Serving /\ ~Offered /\ ClaimMatch
  /\ \/ UNCHANGED scriptVars
     \/ \E p \in Procs : At(p, "match") /\ Proceeds(p)
  /\ UNCHANGED <<quotingVars, server, nonce>>

QuotePrice ==
  /\ Serving /\ ~Offered /\ (StartQuote \/ FinishQuote)
  /\ UNCHANGED <<scriptVars, quotingVars, server, nonce>>

DayWithoutTrade ==
  /\ ~Offered /\ Quiet
  /\ UNCHANGED <<scriptVars, quotingVars, server, nonce>>

\* Orders offered to the protocol, whose deals outlive the matcher.
QuoteDeals ==
  /\ \/ Serving /\ MatcherQuotes
     \/ ChainQuotes \/ MarketMoves \/ MoveNight
  /\ UNCHANGED <<scriptVars, adminVars, server, nonce>>

Next ==
  \/ \E p \in Procs :
       \/ /\ \/ \E l \in agenda : Launch(p, l)
             \/ ScriptStep(p)
          /\ UNCHANGED <<adminVars, quotingVars, server, nonce>>
       \/ Serve(p) \/ StopProcess(p)
       \/ AskChallenge(p) \/ Respond(p) \/ TakeAnswer(p) \/ Attend(p)
  \/ \E n \in Nonces : Transfer(n)
  \/ TradeMatched \/ QuotePrice \/ DayWithoutTrade \/ QuoteDeals

Spec == Init /\ [][Next]_vars

=============================================================================
