----------------------------- MODULE Settlement ----------------------------
(***************************************************************************)
(* How the matcher settles the matches it has claimed: SettlementService,  *)
(* the SettlementQueue that retries its jobs, SettlementClient, and the    *)
(* chain of ChainOrders.tla, on which the orders' owners act as well.      *)
(*                                                                         *)
(* A job gives up the thread at its awaits: the settle() call, and the two *)
(* reads of the chain after a failed call.  A call submits a transaction   *)
(* that may land, or be rejected, after the caller has stopped listening;  *)
(* a crash loses the queue but neither the tables nor what was submitted.  *)
(***************************************************************************)
EXTENDS ChainOrders, Integers

CONSTANTS
  Pairs,          \* the <<buy, sell>> pairs the matcher may claim
  MaxAttempts,    \* RetryPolicy.maxRetries + 1
  MaxCrashes      \* crashes a run makes; bounds runs

VARIABLES
  status,        \* orders.status
  settlement,    \* settlements.status, "NONE" without a row
  attempts,      \* settlements.attempts: names each settle() transaction
  job,           \* the queue's job of each pair
  pool,          \* <<pair, attempt>> transactions submitted and undecided
  landed,        \* pairs whose current attempt's transaction has executed
  exhausted,     \* pairs the queue has given up on without a verdict (logged)
  crashes

matcherVars == <<status, settlement, attempts, job, exhausted, crashes>>
callVars == <<pool, landed>>
vars == <<chainVars, matcherVars, callVars>>

Statuses == {"NONE", "OPEN", "MATCHED", "FILLED", "FAILED"}
Legs == {"buy", "sell"}

ASSUME SettlementConstants ==
  /\ Pairs \subseteq {p \in OrderIds \X OrderIds : p[1] # p[2]}
  /\ \A p, q \in Pairs :
       p # q => {p[1], p[2]} \cap {q[1], q[2]} = {}
  /\ MaxAttempts \in Nat \ {0}
  /\ MaxCrashes \in Nat

Members(p) == {p[1], p[2]}
OrderOfLeg(p, leg) == IF leg = "buy" THEN p[1] ELSE p[2]

Unread == [leg \in Legs |-> "NONE"]
NoJob == [at |-> "none", attempt |-> 0, seen |-> Unread]

\* A job about to make the given attempt, now or after its backoff.
DueAt(n) == [at |-> "due", attempt |-> n, seen |-> Unread]

Init ==
  /\ ChainInit
  /\ status = [o \in OrderIds |-> "NONE"]
  /\ settlement = [p \in Pairs |-> "NONE"]
  /\ attempts = [p \in Pairs |-> 0]
  /\ job = [p \in Pairs |-> NoJob]
  /\ pool = {} /\ landed = {}
  /\ exhausted = {}
  /\ crashes = 0

-----------------------------------------------------------------------------
(* The chain, as its users and its block producers move it *)

Owners ==
  /\ \/ \E o \in OrderIds :
          \/ ChainCreate(o)
          \/ \E state \in {"CANCELLED", "EXPIRED"} : ChainClose(o, state)
     \/ \E q \in QuoteIds : ChainReserve(q) \/ ChainRelease(q)
     \/ \E o \in OrderIds, q \in QuoteIds : ChainSettleWithProtocol(o, q)
  /\ UNCHANGED <<matcherVars, callVars>>

\* A submitted settle() transaction executes.
Land(tx) ==
  /\ ChainSettle(tx[1][1], tx[1][2])
  /\ pool' = pool \ {tx}
  /\ landed' = IF tx[2] = attempts[tx[1]] THEN landed \cup {tx[1]} ELSE landed
  /\ UNCHANGED matcherVars

\* Or an assert of settle() fails (an order is no longer OPEN, or is past its
\* expiry), or the transaction is never included in a block.
Discard(tx) ==
  /\ pool' = pool \ {tx}
  /\ UNCHANGED <<chainVars, matcherVars, landed>>

-----------------------------------------------------------------------------
(* OrderService, reduced to what settlement sees of it *)

Accept(o) ==
  /\ status[o] = "NONE" /\ orderState[o] = "OPEN"
  /\ status' = [status EXCEPT ![o] = "OPEN"]
  /\ UNCHANGED <<chainVars, settlement, attempts, job, exhausted, crashes, callVars>>

\* The claim transaction, then handleMatch: the job is enqueued.
ClaimMatch(p) ==
  /\ status[p[1]] = "OPEN" /\ status[p[2]] = "OPEN"
  /\ status' = [o \in OrderIds |-> IF o \in Members(p) THEN "MATCHED"
                                                       ELSE status[o]]
  /\ job' = [job EXCEPT ![p] = DueAt(1)]
  /\ UNCHANGED <<chainVars, settlement, attempts, exhausted, crashes, callVars>>

-----------------------------------------------------------------------------
(* attemptSettlement *)

\* recordAttemptStart's effect on settlements.status: it inserts the row, or
\* leaves its status alone.
StatusAtStart(p) == IF settlement[p] = "NONE" THEN "PENDING" ELSE settlement[p]

StartAttempt(p) ==
  /\ job[p].at = "due"
  /\ settlement' = [settlement EXCEPT ![p] = StatusAtStart(p)]
  /\ attempts' = [attempts EXCEPT ![p] = @ + 1]
  /\ job' = [job EXCEPT ![p].at = "calling"]
  /\ landed' = landed \ {p}
  /\ UNCHANGED <<chainVars, status, exhausted, crashes, pool>>

\* The call proves, balances and submits its transaction.
SubmitTx(p) ==
  /\ job[p].at = "calling"
  /\ pool' = pool \cup {<<p, attempts[p]>>}
  /\ job' = [job EXCEPT ![p].at = "awaiting"]
  /\ UNCHANGED <<chainVars, status, settlement, attempts, exhausted, crashes,
                 landed>>

\* settle() reports a failure, of whichever class: the awaited transaction
\* was rejected (callFailed), or the call threw before its submission or while
\* it waited, and its transaction may still execute (transientError).
ReturnFailed(p) ==
  /\ job[p].at \in {"calling", "awaiting"}
  /\ job' = [job EXCEPT ![p].at = "reading"]
  /\ UNCHANGED <<chainVars, status, settlement, attempts, exhausted, crashes,
                 callVars>>

\* One of the two concurrent getOnChainState reads answers.
ReadLeg(p, leg) ==
  /\ job[p].at = "reading" /\ job[p].seen[leg] = "NONE"
  /\ job' = [job EXCEPT ![p].seen[leg] = orderState[OrderOfLeg(p, leg)]]
  /\ UNCHANGED <<chainVars, status, settlement, attempts, exhausted, crashes,
                 callVars>>

\* What the job of p concludes, once it can.
Succeeded(p) == job[p].at = "awaiting" /\ p \in landed
ReadBoth(p) ==
  job[p].at = "reading" /\ \A leg \in Legs : job[p].seen[leg] # "NONE"

\* Slip: one filled order is taken for a settled pair.
SeenAnyFilled(p) ==
  ReadBoth(p) /\ \E leg \in Legs : job[p].seen[leg] = "FILLED"

SeenFilled(p) == ReadBoth(p) /\ \A leg \in Legs : job[p].seen[leg] = "FILLED"
SeenOpen(p) == ReadBoth(p) /\ \A leg \in Legs : job[p].seen[leg] = "OPEN"

\* isLastAttempt, and the end of SettlementQueue.run's loop.
IsLastAttempt(p) == job[p].attempt >= MaxAttempts

Retry(p) ==
  /\ SeenOpen(p) /\ ~IsLastAttempt(p)
  /\ settlement' = [settlement EXCEPT ![p] = "PENDING"]
  /\ job' = [job EXCEPT ![p] = DueAt(@.attempt + 1)]
  /\ UNCHANGED <<chainVars, status, attempts, exhausted, crashes, callVars>>

\* The terminal verdict, when the job has reached one.
Verdict(p, st) ==
  \/ st = "FILLED" /\ (Succeeded(p) \/ SeenFilled(p))
  \/ /\ st = "FAILED" /\ ReadBoth(p) /\ ~SeenFilled(p)
     /\ ~(SeenOpen(p) /\ ~IsLastAttempt(p))

\* Slip: only the buyer's order is closed.
TerminalBuyOnly(p, st) ==
  [status EXCEPT ![p[1]] = IF @ = "MATCHED" THEN st ELSE @]

\* markOrdersTerminal.
Terminal(p, st) ==
  [o \in OrderIds |-> IF o \in Members(p) /\ status[o] = "MATCHED"
                      THEN st ELSE status[o]]

\* Slip: the outcome of an attempt is written to a row still PENDING only on
\* success.
OutcomeOnSuccess(p, st) ==
  IF st = "FILLED" THEN [settlement EXCEPT ![p] = "SUCCESS"] ELSE settlement

\* recordOutcome.
Outcome(p, st) ==
  [settlement EXCEPT ![p] = IF st = "FILLED" THEN "SUCCESS" ELSE "FAILED"]

Finish(p, st) ==
  /\ Verdict(p, st)
  /\ status' = Terminal(p, st)
  /\ settlement' = Outcome(p, st)
  /\ job' = [job EXCEPT ![p] = NoJob]
  /\ UNCHANGED <<chainVars, attempts, exhausted, crashes, callVars>>

\* A read rejects, so the job throws, and SettlementQueue.run retries it while
\* its budget lasts; then it logs the exhausted budget and forgets the job.
ReadFails(p) ==
  /\ job[p].at = "reading" /\ \E leg \in Legs : job[p].seen[leg] = "NONE"
  /\ IF IsLastAttempt(p)
     THEN /\ job' = [job EXCEPT ![p] = NoJob]
          /\ exhausted' = exhausted \cup {p}
     ELSE /\ job' = [job EXCEPT ![p] = DueAt(@.attempt + 1)]
          /\ UNCHANGED exhausted
  /\ UNCHANGED <<chainVars, status, settlement, attempts, crashes, callVars>>

-----------------------------------------------------------------------------
(* Crash and restart *)

\* Slip: only matches that have a PENDING settlement row are recovered.
RecoverPendingRows(st, p) ==
  IF settlement[p] = "PENDING" /\ \E o \in Members(p) : st[o] = "MATCHED"
  THEN DueAt(1) ELSE NoJob

\* recoverPendingSettlements: a fresh job for every match with an order that
\* is still MATCHED.
Recover(st, p) ==
  IF \E o \in Members(p) : st[o] = "MATCHED" THEN DueAt(1) ELSE NoJob

RestartWith(st) ==
  /\ crashes < MaxCrashes
  /\ crashes' = crashes + 1
  /\ status' = st
  /\ job' = [p \in Pairs |-> Recover(st, p)]
  /\ exhausted' = {}
  /\ UNCHANGED <<chainVars, settlement, attempts, callVars>>

CrashAndRestart == RestartWith(status)

\* The process stops between markOrdersTerminal and recordOutcome.
CrashBeforeOutcome(p) ==
  \E st \in {"FILLED", "FAILED"} : Verdict(p, st) /\ RestartWith(Terminal(p, st))

-----------------------------------------------------------------------------
JobStep(p) ==
  \/ StartAttempt(p) \/ SubmitTx(p) \/ ReturnFailed(p)
  \/ \E leg \in Legs : ReadLeg(p, leg)
  \/ Retry(p)
  \/ \E st \in {"FILLED", "FAILED"} : Finish(p, st)
  \/ ReadFails(p)

Next ==
  \/ Owners
  \/ \E tx \in pool : Land(tx) \/ Discard(tx)
  \/ \E o \in OrderIds : Accept(o)
  \/ \E p \in Pairs : ClaimMatch(p) \/ JobStep(p) \/ CrashBeforeOutcome(p)
  \/ CrashAndRestart

Spec == Init /\ [][Next]_vars

\* A running process goes on with its jobs: timers fire, and every call and
\* every read settles one way or the other.
FairSpec == Spec /\ \A p \in Pairs : WF_vars(JobStep(p))

-----------------------------------------------------------------------------
(* Properties *)

Job == [at: {"none", "due", "calling", "awaiting", "reading"},
        attempt: 0..MaxAttempts, seen: [Legs -> OrderStates]]

TypeOK ==
  /\ orderState \in [OrderIds -> OrderStates]
  /\ reservationState \in [QuoteIds -> ReservationStates]
  /\ settledPairs \subseteq Pairs
  /\ status \in [OrderIds -> Statuses]
  /\ settlement \in [Pairs -> {"NONE", "PENDING", "SUCCESS", "FAILED"}]
  /\ attempts \in [Pairs -> Nat]
  /\ job \in [Pairs -> Job]
  /\ pool \subseteq Pairs \X Nat
  /\ landed \subseteq Pairs /\ exhausted \subseteq Pairs
  /\ crashes \in 0..MaxCrashes

\* An order the matcher reports FILLED is FILLED on the chain, whatever calls
\* were lost, repeated or overtaken by the owner's own transactions.
FilledOnChain ==
  \A o \in OrderIds : status[o] = "FILLED" => orderState[o] = "FILLED"

\* The two orders of a match are claimed, filled and failed together, across
\* crashes as well.
LegsAgree ==
  \A p \in Pairs :
    status[p[1]] \in {"MATCHED", "FILLED", "FAILED"}
      \/ status[p[2]] \in {"MATCHED", "FILLED", "FAILED"}
    => status[p[1]] = status[p[2]]

\* A claimed match always has a job that will settle it, also after a crash at
\* any point (recoverPendingSettlements), unless the queue has logged that its
\* retry budget is exhausted.
ClaimedIsInFlight ==
  \A p \in Pairs :
    status[p[1]] = "MATCHED" => job[p].at # "none" \/ p \in exhausted

\* A settlements row with a verdict never says other than its orders do, and
\* until a crash it says as much (the two are written one after the other).
RowsAgree ==
  \A p \in Pairs :
    /\ settlement[p] = "SUCCESS" => status[p[1]] = "FILLED"
    /\ settlement[p] = "FAILED" => status[p[1]] = "FAILED"
    /\ crashes = 0 /\ status[p[1]] = "FILLED" => settlement[p] = "SUCCESS"
    /\ crashes = 0 /\ status[p[1]] = "FAILED" => settlement[p] = "FAILED"

\* Every claimed match ends: with a verdict, or with the queue's warning that
\* its budget is exhausted.
EveryMatchEnds ==
  \A p \in Pairs :
    status[p[1]] = "MATCHED" ~>
      status[p[1]] \in {"FILLED", "FAILED"} \/ p \in exhausted

\* Every claimed match is settled one way or the other (ARCHITECTURE.md: when
\* the retries are exhausted, the orders are FAILED).
EveryMatchResolves ==
  \A p \in Pairs :
    status[p[1]] = "MATCHED" ~> status[p[1]] \in {"FILLED", "FAILED"}

\* A pair that settled on the chain is never reported failed (MATCHER.md:
\* "never leaving a truly-settled pair reported as failed").
SettledNeverFailed ==
  \A p \in Pairs : p \in settledPairs => status[p[1]] # "FAILED"
=============================================================================
