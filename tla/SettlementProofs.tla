-------------------------- MODULE SettlementProofs -------------------------
(***************************************************************************)
(* Theorems about Settlement.tla, for every set of matched pairs, every    *)
(* retry budget and any number of crashes.                                 *)
(***************************************************************************)
EXTENDS Settlement, TLAPS

\* Pairs are claimed from distinct orders and never share one.
LEMMA PairsAreDisjoint ==
  ASSUME NEW p \in Pairs
  PROVE  /\ p = <<p[1], p[2]>> /\ p[1] \in OrderIds /\ p[2] \in OrderIds
         /\ p[1] # p[2]
         /\ Members(p) = {p[1], p[2]}
         /\ \A q \in Pairs : q # p => Members(p) \cap Members(q) = {}
  BY SettlementConstants DEF Members

\* What the verdict "FILLED" rests on, beside the invariant itself: an executed
\* transaction filled both orders, and a fill that was read is still there.
FilledEvidence ==
  \A p \in Pairs :
    /\ p \in landed =>
         orderState[p[1]] = "FILLED" /\ orderState[p[2]] = "FILLED"
    /\ \A leg \in Legs :
         job[p].seen[leg] = "FILLED" =>
           orderState[OrderOfLeg(p, leg)] = "FILLED"

FilledInv == TypeOK /\ FilledEvidence /\ FilledOnChain

\* Jobs in the forms the actions write.
LEMMA JobForms ==
  /\ NoJob \in Job
  /\ \A n \in 1..MaxAttempts : DueAt(n) \in Job
  BY SettlementConstants DEF NoJob, DueAt, Job, Unread, Legs, OrderStates

-----------------------------------------------------------------------------
(* Types *)

LEMMA TypeInit == Init => TypeOK
  <1> SUFFICES ASSUME Init PROVE TypeOK
    OBVIOUS
  <1>1. job \in [Pairs -> Job]
    BY JobForms DEF Init
  <1> QED
    BY <1>1, SettlementConstants DEF Init, ChainInit, TypeOK, OrderStates,
       ReservationStates, Statuses

\* Every step of the chain keeps the chain's types.
LEMMA TypeChain ==
  ASSUME TypeOK, Owners
  PROVE  /\ orderState' \in [OrderIds -> OrderStates]
         /\ reservationState' \in [QuoteIds -> ReservationStates]
         /\ settledPairs' \subseteq Pairs
  BY DEF Owners, TypeOK, ChainCreate, ChainClose, ChainReserve, ChainRelease,
     ChainSettleWithProtocol, OrderStates, ReservationStates

LEMMA TypeStep == TypeOK /\ [Next]_vars => TypeOK'
  <1> SUFFICES ASSUME TypeOK, [Next]_vars PROVE TypeOK'
    OBVIOUS
  <1> USE SettlementConstants
  <1>1. CASE Owners
    BY <1>1, TypeChain DEF Owners, TypeOK, matcherVars, callVars
  <1>2. ASSUME NEW tx \in pool, Land(tx) \/ Discard(tx)
        PROVE TypeOK'
    <2>1. tx \in Pairs \X Nat /\ tx[1] \in Pairs /\ tx[1] = <<tx[1][1], tx[1][2]>>
      BY DEF TypeOK
    <2>2. UNCHANGED matcherVars /\ pool' = pool \ {tx} /\ landed' \subseteq Pairs
      BY <1>2, <2>1 DEF Land, Discard, TypeOK
    <2>3. /\ orderState' \in [OrderIds -> OrderStates]
          /\ reservationState' \in [QuoteIds -> ReservationStates]
          /\ settledPairs' \subseteq Pairs
      BY <1>2, <2>1 DEF Land, Discard, ChainSettle, chainVars, TypeOK,
         OrderStates
    <2> QED
      BY <2>2, <2>3 DEF TypeOK, matcherVars
  <1>3. ASSUME NEW o \in OrderIds, Accept(o) PROVE TypeOK'
    BY <1>3 DEF Accept, TypeOK, chainVars, callVars, Statuses
  <1>4. ASSUME NEW p \in Pairs, ClaimMatch(p) PROVE TypeOK'
    <2>1. job' \in [Pairs -> Job]
      BY <1>4, JobForms DEF ClaimMatch, TypeOK
    <2> QED
      BY <1>4, <2>1 DEF ClaimMatch, TypeOK, chainVars, callVars, Statuses
  <1>5. ASSUME NEW p \in Pairs, JobStep(p) PROVE TypeOK'
    <2>1. CASE StartAttempt(p)
      <3>1. job' \in [Pairs -> Job]
        <4>1. [job[p] EXCEPT !.at = "calling"] \in Job
          BY DEF TypeOK, Job
        <4> QED
          BY <2>1, <4>1 DEF StartAttempt, TypeOK
      <3>2. settlement' \in [Pairs -> {"NONE", "PENDING", "SUCCESS", "FAILED"}]
        BY <2>1 DEF StartAttempt, StatusAtStart, TypeOK
      <3>3. attempts' \in [Pairs -> Nat]
        BY <2>1 DEF StartAttempt, TypeOK
      <3>4. landed' \subseteq Pairs
        BY <2>1 DEF StartAttempt, TypeOK
      <3> QED
        BY <2>1, <3>1, <3>2, <3>3, <3>4 DEF StartAttempt, TypeOK, chainVars, callVars
    <2>2. CASE SubmitTx(p)
      <3>1. [job[p] EXCEPT !.at = "awaiting"] \in Job
        BY DEF TypeOK, Job
      <3>2. job' \in [Pairs -> Job]
        BY <2>2, <3>1 DEF SubmitTx, TypeOK
      <3>3. attempts[p] \in Nat
        BY DEF TypeOK
      <3>4. pool' \subseteq Pairs \X Nat
        BY <2>2, <3>3 DEF SubmitTx, TypeOK
      <3> QED
        BY <2>2, <3>2, <3>4 DEF SubmitTx, TypeOK, chainVars
    <2>3. CASE ReturnFailed(p)
      <3>1. [job[p] EXCEPT !.at = "reading"] \in Job
        BY DEF TypeOK, Job
      <3>2. job' \in [Pairs -> Job]
        BY <2>3, <3>1 DEF ReturnFailed, TypeOK
      <3> QED
        BY <2>3, <3>2 DEF ReturnFailed, TypeOK, chainVars, callVars
    <2>4. ASSUME NEW leg \in Legs, ReadLeg(p, leg) PROVE TypeOK'
      <3>1. OrderOfLeg(p, leg) \in OrderIds
        BY PairsAreDisjoint DEF OrderOfLeg
      <3>2. orderState[OrderOfLeg(p, leg)] \in OrderStates
        BY <3>1 DEF TypeOK
      <3>3. [job[p] EXCEPT !.seen[leg] = orderState[OrderOfLeg(p, leg)]] \in Job
        <4>1. job[p] \in Job /\ job[p].seen \in [Legs -> OrderStates]
          BY DEF TypeOK, Job
        <4>2. [job[p].seen EXCEPT ![leg] = orderState[OrderOfLeg(p, leg)]]
                \in [Legs -> OrderStates]
          BY <3>2, <4>1
        <4> QED
          BY <4>1, <4>2 DEF Job
      <3>4. job' \in [Pairs -> Job]
        BY <2>4, <3>3 DEF ReadLeg, TypeOK
      <3> QED
        BY <2>4, <3>4 DEF ReadLeg, TypeOK, chainVars, callVars
    <2>5. CASE Retry(p)
      <3>1. job[p].attempt + 1 \in 1..MaxAttempts
        BY <2>5 DEF Retry, IsLastAttempt, TypeOK, Job
      <3>2. job' \in [Pairs -> Job]
        BY <2>5, <3>1, JobForms DEF Retry, TypeOK
      <3> QED
        BY <2>5, <3>2 DEF Retry, TypeOK, chainVars, callVars
    <2>6. ASSUME NEW st \in {"FILLED", "FAILED"}, Finish(p, st) PROVE TypeOK'
      <3>1. job' \in [Pairs -> Job]
        BY <2>6, JobForms DEF Finish, TypeOK
      <3> QED
        BY <2>6, <3>1 DEF Finish, Terminal, Outcome, TypeOK, chainVars, callVars, Statuses
    <2>7. CASE ReadFails(p)
      <3>1. ~IsLastAttempt(p) => job[p].attempt + 1 \in 1..MaxAttempts
        BY DEF IsLastAttempt, TypeOK, Job
      <3>2. job' \in [Pairs -> Job]
        BY <2>7, <3>1, JobForms DEF ReadFails, TypeOK
      <3> QED
        BY <2>7, <3>2 DEF ReadFails, TypeOK, chainVars, callVars
    <2> QED
      BY <1>5, <2>1, <2>2, <2>3, <2>4, <2>5, <2>6, <2>7 DEF JobStep
  <1>6. ASSUME NEW st \in [OrderIds -> Statuses], RestartWith(st) PROVE TypeOK'
    <2>1. job' \in [Pairs -> Job]
      BY <1>6, JobForms DEF RestartWith, Recover
    <2> QED
      BY <1>6, <2>1 DEF RestartWith, TypeOK, chainVars, callVars
  <1>7. CASE CrashAndRestart
    BY <1>6, <1>7 DEF CrashAndRestart, TypeOK
  <1>8. ASSUME NEW p \in Pairs, CrashBeforeOutcome(p) PROVE TypeOK'
    <2>1. PICK st \in {"FILLED", "FAILED"} : RestartWith(Terminal(p, st))
      BY <1>8 DEF CrashBeforeOutcome
    <2>2. Terminal(p, st) \in [OrderIds -> Statuses]
      BY DEF Terminal, TypeOK, Statuses
    <2> QED
      BY <2>1, <2>2, <1>6
  <1>9. CASE UNCHANGED vars
    BY <1>9 DEF vars, chainVars, matcherVars, callVars, TypeOK
  <1> QED
    BY <1>1, <1>2, <1>3, <1>4, <1>5, <1>7, <1>8, <1>9 DEF Next

\* Settlement's variables keep their types: in particular a job never passes
\* its retry budget, and only matched pairs are ever settled.
THEOREM SettlementTypes == Spec => []TypeOK
  BY TypeInit, TypeStep, PTL DEF Spec

-----------------------------------------------------------------------------
(* What is reported filled is filled *)

\* No step of the chain takes a fill back.
LEMMA FillsLast ==
  ASSUME TypeOK, [Next]_vars, NEW o \in OrderIds, orderState[o] = "FILLED"
  PROVE  orderState'[o] = "FILLED"
  <1>1. CASE Owners
    BY <1>1 DEF Owners, ChainCreate, ChainClose, ChainReserve, ChainRelease,
       ChainSettleWithProtocol, TypeOK
  <1>2. ASSUME NEW tx \in pool, Land(tx) \/ Discard(tx)
        PROVE orderState'[o] = "FILLED"
    BY <1>2 DEF Land, Discard, ChainSettle, chainVars, TypeOK
  <1>3. CASE UNCHANGED chainVars
    BY <1>3 DEF chainVars
  <1>4. [Next]_vars => \/ Owners
                       \/ \E tx \in pool : Land(tx) \/ Discard(tx)
                       \/ UNCHANGED chainVars
    BY DEF Next, vars, Accept, ClaimMatch, JobStep, StartAttempt, SubmitTx,
       ReturnFailed, ReadLeg, Retry, Finish, ReadFails, RestartWith,
       CrashAndRestart, CrashBeforeOutcome
  <1> QED
    BY <1>1, <1>2, <1>3, <1>4

\* A transaction counts as executed only by executing.
LEMMA ExecutedByLanding ==
  ASSUME TypeOK, [Next]_vars, NEW p \in Pairs, p \in landed'
  PROVE  p \in landed \/ \E tx \in pool : tx[1] = p /\ Land(tx)
  <1>1. ASSUME NEW tx \in pool, Land(tx) \/ Discard(tx)
        PROVE  p \in landed \/ (tx[1] = p /\ Land(tx))
    BY <1>1 DEF Land, Discard
  <1>2. ASSUME NEW q \in Pairs, StartAttempt(q) PROVE p \in landed
    BY <1>2 DEF StartAttempt
  <1>3. CASE UNCHANGED landed
    BY <1>3
  <1>4. \/ \E tx \in pool : Land(tx) \/ Discard(tx)
        \/ \E q \in Pairs : StartAttempt(q)
        \/ UNCHANGED landed
    BY DEF Next, vars, callVars, Owners, Accept, ClaimMatch, JobStep, SubmitTx,
       ReturnFailed, ReadLeg, Retry, Finish, ReadFails, RestartWith,
       CrashAndRestart, CrashBeforeOutcome
  <1> QED
    BY <1>1, <1>2, <1>3, <1>4

\* A job only sees fills that are on the chain.
LEMMA SeenByReading ==
  ASSUME TypeOK, [Next]_vars, NEW p \in Pairs, NEW leg \in Legs,
         job'[p].seen[leg] = "FILLED"
  PROVE  \/ job[p].seen[leg] = "FILLED"
         \/ orderState[OrderOfLeg(p, leg)] = "FILLED"
  <1> USE DEF TypeOK
  <1>1. NoJob.seen[leg] = "NONE" /\ \A n : DueAt(n).seen[leg] = "NONE"
    BY DEF NoJob, DueAt, Unread
  <1>2. CASE UNCHANGED job
    BY <1>2
  <1>3. ASSUME NEW q \in Pairs, JobStep(q)
        PROVE  \/ job[p].seen[leg] = "FILLED"
               \/ orderState[OrderOfLeg(p, leg)] = "FILLED"
    <2>1. CASE StartAttempt(q) \/ ReturnFailed(q) \/ SubmitTx(q)
      <3>1. job'[p].seen = job[p].seen
        <4>1. job[p] \in Job /\ job[q] \in Job
          OBVIOUS
        <4>2. CASE StartAttempt(q)
          BY <4>1, <4>2 DEF StartAttempt, Job
        <4>3. CASE SubmitTx(q)
          BY <4>1, <4>3 DEF SubmitTx, Job
        <4>4. CASE ReturnFailed(q)
          BY <4>1, <4>4 DEF ReturnFailed, Job
        <4> QED
          BY <2>1, <4>2, <4>3, <4>4
      <3> QED
        BY <3>1
    <2>2. ASSUME NEW l \in Legs, ReadLeg(q, l)
          PROVE  \/ job[p].seen[leg] = "FILLED"
                 \/ orderState[OrderOfLeg(p, leg)] = "FILLED"
      <3>1. CASE p = q /\ l = leg
        <4>1. job[p].seen \in [Legs -> OrderStates]
          BY DEF Job
        <4>2. job'[p].seen[leg] = orderState[OrderOfLeg(p, leg)]
          BY <2>2, <3>1, <4>1 DEF ReadLeg, Job
        <4> QED
          BY <4>2
      <3>2. CASE ~(p = q /\ l = leg)
        <4>1. job[p].seen \in [Legs -> OrderStates]
          BY DEF Job
        <4>2. job'[p].seen[leg] = job[p].seen[leg]
          BY <2>2, <3>2, <4>1 DEF ReadLeg, Job
        <4> QED
          BY <4>2
      <3> QED
        BY <3>1, <3>2
    <2>3. CASE Retry(q) \/ ReadFails(q) \/ \E st \in {"FILLED", "FAILED"} : Finish(q, st)
      <3>1. job'[p] = job[p] \/ job'[p].seen[leg] = "NONE"
        BY <2>3, <1>1 DEF Retry, ReadFails, Finish
      <3> QED
        BY <3>1
    <2> QED
      BY <1>3, <2>1, <2>2, <2>3 DEF JobStep
  <1>4. ASSUME NEW q \in Pairs, ClaimMatch(q)
        PROVE  job[p].seen[leg] = "FILLED"
    BY <1>4, <1>1 DEF ClaimMatch
  <1>5. ASSUME NEW st, RestartWith(st) PROVE FALSE
    BY <1>5, <1>1 DEF RestartWith, Recover
  <1>6. \/ UNCHANGED job \/ \E st : RestartWith(st)
        \/ \E q \in Pairs : JobStep(q) \/ ClaimMatch(q)
    BY DEF Next, vars, matcherVars, Owners, Accept, Land, Discard,
       CrashAndRestart, CrashBeforeOutcome
  <1> QED
    BY <1>2, <1>3, <1>4, <1>5, <1>6

\* Orders are reported FILLED by a verdict of their own match only.
LEMMA FilledByVerdict ==
  ASSUME TypeOK, [Next]_vars, NEW o \in OrderIds, status'[o] = "FILLED"
  PROVE  \/ status[o] = "FILLED"
         \/ \E p \in Pairs : o \in Members(p) /\ Verdict(p, "FILLED")
  <1> USE DEF TypeOK
  <1>1. CASE UNCHANGED status
    BY <1>1
  <1>2. ASSUME NEW q \in OrderIds, Accept(q) PROVE status[o] = "FILLED"
    BY <1>2 DEF Accept
  <1>3. ASSUME NEW p \in Pairs, ClaimMatch(p) PROVE status[o] = "FILLED"
    BY <1>3 DEF ClaimMatch
  <1>4. ASSUME NEW p \in Pairs, NEW st \in {"FILLED", "FAILED"}, Verdict(p, st),
               status' = Terminal(p, st)
        PROVE  \/ status[o] = "FILLED"
               \/ o \in Members(p) /\ Verdict(p, "FILLED")
    BY <1>4 DEF Terminal
  <1>5. \/ UNCHANGED status
        \/ \E q \in OrderIds : Accept(q)
        \/ \E p \in Pairs : ClaimMatch(p)
        \/ \E p \in Pairs, st \in {"FILLED", "FAILED"} :
             Verdict(p, st) /\ status' = Terminal(p, st)
    BY DEF Next, vars, matcherVars, Owners, Land, Discard, JobStep,
       StartAttempt, SubmitTx, ReturnFailed, ReadLeg, Retry, Finish,
       ReadFails, RestartWith, CrashAndRestart, CrashBeforeOutcome
  <1> QED
    BY <1>1, <1>2, <1>3, <1>4, <1>5

LEMMA FilledStep ==
  ASSUME FilledInv, [Next]_vars
  PROVE  FilledEvidence' /\ FilledOnChain'
  <1>1. TypeOK /\ FilledEvidence /\ FilledOnChain
    BY DEF FilledInv
  <1>2. ASSUME NEW p \in Pairs, p \in landed'
        PROVE  orderState'[p[1]] = "FILLED" /\ orderState'[p[2]] = "FILLED"
    <2>1. CASE p \in landed
      BY <1>1, <2>1, FillsLast, PairsAreDisjoint DEF FilledEvidence
    <2>2. ASSUME NEW tx \in pool, tx[1] = p, Land(tx)
          PROVE  orderState'[p[1]] = "FILLED" /\ orderState'[p[2]] = "FILLED"
      BY <1>1, <2>2, PairsAreDisjoint DEF Land, ChainSettle, TypeOK
    <2> QED
      BY <1>1, <1>2, <2>1, <2>2, ExecutedByLanding
  <1>3. ASSUME NEW p \in Pairs, NEW leg \in Legs, job'[p].seen[leg] = "FILLED"
        PROVE  orderState'[OrderOfLeg(p, leg)] = "FILLED"
    <2>1. OrderOfLeg(p, leg) \in OrderIds
      BY PairsAreDisjoint DEF OrderOfLeg
    <2>2. orderState[OrderOfLeg(p, leg)] = "FILLED"
      BY <1>1, <1>3, SeenByReading DEF FilledEvidence
    <2> QED
      BY <1>1, <2>1, <2>2, FillsLast
  <1>4. ASSUME NEW p \in Pairs, NEW o \in Members(p), Verdict(p, "FILLED")
        PROVE  orderState[o] = "FILLED"
    <2>1. CASE Succeeded(p)
      BY <1>1, <1>4, <2>1 DEF Succeeded, FilledEvidence, Members
    <2>2. CASE SeenFilled(p)
      <3>1. orderState[OrderOfLeg(p, "buy")] = "FILLED"
            /\ orderState[OrderOfLeg(p, "sell")] = "FILLED"
        BY <1>1, <2>2 DEF SeenFilled, FilledEvidence, Legs
      <3> QED
        BY <1>4, <3>1 DEF OrderOfLeg, Members
    <2> QED
      BY <1>4, <2>1, <2>2 DEF Verdict
  <1>5. ASSUME NEW o \in OrderIds, status'[o] = "FILLED"
        PROVE  orderState'[o] = "FILLED"
    <2>1. orderState[o] = "FILLED"
      BY <1>1, <1>4, <1>5, FilledByVerdict DEF FilledOnChain
    <2> QED
      BY <1>1, <2>1, FillsLast
  <1>6. FilledEvidence'
    BY <1>2, <1>3 DEF FilledEvidence, OrderOfLeg
  <1> QED
    BY <1>5, <1>6 DEF FilledOnChain

\* Whatever is lost, repeated or overtaken, the matcher reports no order FILLED
\* that the chain does not show FILLED.
THEOREM FillsAreReal == Spec => []FilledOnChain
  <1>1. Init => FilledInv
    <2> SUFFICES ASSUME Init PROVE FilledInv
      OBVIOUS
    <2>1. FilledEvidence /\ FilledOnChain
      BY DEF Init, FilledEvidence, FilledOnChain, NoJob, Unread
    <2> QED
      BY <2>1, TypeInit DEF FilledInv
  <1>2. FilledInv /\ [Next]_vars => FilledInv'
    BY TypeStep, FilledStep DEF FilledInv
  <1>3. FilledInv => FilledOnChain
    BY DEF FilledInv
  <1> QED
    BY <1>1, <1>2, <1>3, PTL DEF Spec

-----------------------------------------------------------------------------
(* The two orders of a match, and its job *)

\* How one step can move the statuses of the orders.
StatusMove ==
  \/ UNCHANGED status
  \/ \E o \in OrderIds :
       status[o] = "NONE" /\ status' = [status EXCEPT ![o] = "OPEN"]
  \/ \E p \in Pairs :
       /\ status[p[1]] = "OPEN" /\ status[p[2]] = "OPEN"
       /\ status' = [o \in OrderIds |-> IF o \in Members(p) THEN "MATCHED"
                                                            ELSE status[o]]
  \/ \E p \in Pairs, st \in {"FILLED", "FAILED"} : status' = Terminal(p, st)

LEMMA StatusMoves == [Next]_vars => StatusMove
  BY DEF StatusMove, Next, vars, matcherVars, Owners, Land, Discard,
     Accept, ClaimMatch, JobStep, StartAttempt, SubmitTx, ReturnFailed,
     ReadLeg, Retry, Finish, ReadFails, RestartWith, CrashAndRestart,
     CrashBeforeOutcome

LEMMA LegsStep ==
  ASSUME TypeOK, LegsAgree, [Next]_vars PROVE LegsAgree'
  <1> DEFINE Taken == {"MATCHED", "FILLED", "FAILED"}
  <1> SUFFICES ASSUME NEW q \in Pairs,
                      status'[q[1]] \in Taken \/ status'[q[2]] \in Taken
               PROVE  status'[q[1]] = status'[q[2]]
    BY DEF LegsAgree
  <1>1. q[1] \in OrderIds /\ q[2] \in OrderIds
        /\ (status[q[1]] \in Taken \/ status[q[2]] \in Taken
              => status[q[1]] = status[q[2]])
    BY PairsAreDisjoint DEF LegsAgree
  <1>2. CASE UNCHANGED status
    BY <1>1, <1>2
  <1>3. ASSUME NEW o \in OrderIds, status[o] = "NONE",
               status' = [status EXCEPT ![o] = "OPEN"]
        PROVE  status'[q[1]] = status'[q[2]]
    BY <1>1, <1>3 DEF TypeOK
  <1>4. ASSUME NEW p \in Pairs,
               status' = [o \in OrderIds |-> IF o \in Members(p) THEN "MATCHED"
                                                                 ELSE status[o]]
        PROVE  status'[q[1]] = status'[q[2]]
    <2>1. CASE p = q
      BY <1>1, <1>4, <2>1 DEF Members
    <2>2. CASE p # q
      <3>1. q[1] \notin Members(p) /\ q[2] \notin Members(p)
        BY <2>2, PairsAreDisjoint
      <3> QED
        BY <1>1, <1>4, <3>1
    <2> QED
      BY <2>1, <2>2
  <1>5. ASSUME NEW p \in Pairs, NEW st \in {"FILLED", "FAILED"},
               status' = Terminal(p, st)
        PROVE  status'[q[1]] = status'[q[2]]
    <2>1. CASE p = q
      BY <1>1, <1>5, <2>1 DEF Members, Terminal
    <2>2. CASE p # q
      <3>1. q[1] \notin Members(p) /\ q[2] \notin Members(p)
        BY <2>2, PairsAreDisjoint
      <3> QED
        BY <1>1, <1>5, <3>1 DEF Terminal
    <2> QED
      BY <2>1, <2>2
  <1> QED
    BY <1>2, <1>3, <1>4, <1>5, StatusMoves DEF StatusMove

\* The two orders of a match are claimed, filled and failed together.
THEOREM LegsMoveTogether == Spec => []LegsAgree
  <1> DEFINE Inv == TypeOK /\ LegsAgree
  <1>1. Init => Inv
    BY TypeInit, PairsAreDisjoint DEF Init, LegsAgree
  <1>2. Inv /\ [Next]_vars => Inv'
    BY TypeStep, LegsStep
  <1>3. Inv => LegsAgree
    OBVIOUS
  <1> QED
    BY <1>1, <1>2, <1>3, PTL DEF Spec

InFlightInv == TypeOK /\ LegsAgree /\ ClaimedIsInFlight

LEMMA InFlightStep ==
  ASSUME InFlightInv, [Next]_vars
  PROVE  ClaimedIsInFlight'
  <1>1. TypeOK /\ LegsAgree /\ ClaimedIsInFlight
    BY DEF InFlightInv
  <1> DEFINE InFlight(p) == job[p].at # "none" \/ p \in exhausted
  <1> SUFFICES ASSUME NEW q \in Pairs, status'[q[1]] = "MATCHED"
               PROVE  InFlight(q)'
    BY DEF ClaimedIsInFlight
  <1>2. q[1] \in OrderIds /\ q[2] \in OrderIds /\ Members(q) = {q[1], q[2]}
        /\ \A p \in Pairs : p # q => q[1] \notin Members(p)
    BY PairsAreDisjoint
  <1>3. job[q] \in Job /\ job \in [Pairs -> Job] /\ status \in [OrderIds -> Statuses]
    BY <1>1 DEF TypeOK
  <1>4. \A n : DueAt(n).at = "due"
    BY DEF DueAt
  <1>5. status[q[1]] = "MATCHED" => InFlight(q)
    BY <1>1 DEF ClaimedIsInFlight
  <1>6. CASE UNCHANGED <<status, job, exhausted>>
    BY <1>5, <1>6
  <1>7. ASSUME NEW o \in OrderIds, Accept(o) PROVE InFlight(q)'
    BY <1>2, <1>3, <1>5, <1>7 DEF Accept
  <1>8. ASSUME NEW p \in Pairs, ClaimMatch(p) PROVE InFlight(q)'
    BY <1>2, <1>3, <1>4, <1>5, <1>8 DEF ClaimMatch
  <1>9. ASSUME NEW p \in Pairs, JobStep(p) PROVE InFlight(q)'
    <2>1. CASE StartAttempt(p) \/ SubmitTx(p) \/ ReturnFailed(p)
      <3>1. status[q[1]] = "MATCHED" /\ UNCHANGED exhausted
        BY <2>1 DEF StartAttempt, SubmitTx, ReturnFailed
      <3>2. job'[q].at = job[q].at \/ job'[q].at \in {"calling", "awaiting", "reading"}
        <4>1. CASE StartAttempt(p)
          BY <1>3, <4>1 DEF StartAttempt, Job
        <4>2. CASE SubmitTx(p)
          BY <1>3, <4>2 DEF SubmitTx, Job
        <4>3. CASE ReturnFailed(p)
          BY <1>3, <4>3 DEF ReturnFailed, Job
        <4> QED
          BY <2>1, <4>1, <4>2, <4>3
      <3> QED
        BY <1>5, <3>1, <3>2
    <2>2. ASSUME NEW leg \in Legs, ReadLeg(p, leg) PROVE InFlight(q)'
      <3>1. job'[q].at = job[q].at
        BY <1>3, <2>2 DEF ReadLeg, Job
      <3> QED
        BY <1>5, <2>2, <3>1 DEF ReadLeg
    <2>3. CASE Retry(p)
      BY <1>3, <1>4, <1>5, <2>3 DEF Retry
    <2>4. ASSUME NEW st \in {"FILLED", "FAILED"}, Finish(p, st)
          PROVE  InFlight(q)'
      <3>1. CASE p = q
        BY <1>2, <1>3, <2>4, <3>1 DEF Finish, Terminal
      <3>2. CASE p # q
        <4>1. status'[q[1]] = status[q[1]]
          BY <1>2, <2>4, <3>2 DEF Finish, Terminal
        <4> QED
          BY <1>3, <1>5, <2>4, <3>2, <4>1 DEF Finish
      <3> QED
        BY <3>1, <3>2
    <2>5. CASE ReadFails(p)
      BY <1>3, <1>4, <1>5, <2>5 DEF ReadFails
    <2> QED
      BY <1>9, <2>1, <2>2, <2>3, <2>4, <2>5 DEF JobStep
  <1>10. ASSUME NEW st, RestartWith(st) PROVE InFlight(q)'
    BY <1>2, <1>4, <1>10 DEF RestartWith, Recover
  <1> QED
    BY <1>6, <1>7, <1>8, <1>9, <1>10 DEF Next, vars, matcherVars, Owners, Land,
       Discard, CrashAndRestart, CrashBeforeOutcome

\* A claimed match is never without the job that settles it, whatever fails and
\* whenever the process crashes, unless the queue has logged that it gave up.
THEOREM ClaimsAreNotForgotten == Spec => []ClaimedIsInFlight
  <1>1. Init => InFlightInv
    BY TypeInit, PairsAreDisjoint DEF Init, LegsAgree, InFlightInv,
       ClaimedIsInFlight
  <1>2. InFlightInv /\ [Next]_vars => InFlightInv'
    BY TypeStep, LegsStep, InFlightStep DEF InFlightInv
  <1>3. InFlightInv => ClaimedIsInFlight
    BY DEF InFlightInv
  <1> QED
    BY <1>1, <1>2, <1>3, PTL DEF Spec

-----------------------------------------------------------------------------
(* The settlements rows *)

\* Jobs work on claimed matches only.
JobsAreClaimed ==
  \A p \in Pairs : job[p].at # "none" => status[p[1]] = "MATCHED"

RowsInv == TypeOK /\ LegsAgree /\ JobsAreClaimed /\ RowsAgree

\* A step that leaves the orders' statuses, and the number of crashes, alone.
LEMMA RowsByJobs ==
  ASSUME RowsInv, UNCHANGED <<status, crashes>>,
         \A p \in Pairs :
           /\ job'[p].at # "none" => job[p].at # "none"
           /\ \/ settlement'[p] = settlement[p]
              \/ settlement'[p] = "PENDING" /\ job[p].at # "none"
  PROVE  JobsAreClaimed' /\ RowsAgree'
  BY DEF RowsInv, JobsAreClaimed, RowsAgree

LEMMA JobsMove ==
  ASSUME TypeOK, NEW p \in Pairs,
         \/ StartAttempt(p) \/ SubmitTx(p) \/ ReturnFailed(p)
         \/ \E leg \in Legs : ReadLeg(p, leg)
         \/ Retry(p) \/ ReadFails(p)
  PROVE  /\ UNCHANGED <<status, crashes>>
         /\ \A q \in Pairs :
              /\ job'[q].at # "none" => job[q].at # "none"
              /\ \/ settlement'[q] = settlement[q]
                 \/ settlement'[q] = "PENDING" /\ job[q].at # "none"
  <1>1. job \in [Pairs -> Job] /\ job[p] \in Job
        /\ settlement \in [Pairs -> {"NONE", "PENDING", "SUCCESS", "FAILED"}]
    BY DEF TypeOK
  <1>2. CASE StartAttempt(p)
    BY <1>1, <1>2 DEF StartAttempt, StatusAtStart, Job
  <1>3. CASE SubmitTx(p)
    BY <1>1, <1>3 DEF SubmitTx, Job
  <1>4. CASE ReturnFailed(p)
    BY <1>1, <1>4 DEF ReturnFailed, Job
  <1>5. ASSUME NEW leg \in Legs, ReadLeg(p, leg)
        PROVE  /\ UNCHANGED <<status, crashes, settlement>>
               /\ \A q \in Pairs : job'[q].at = job[q].at
    BY <1>1, <1>5 DEF ReadLeg, Job
  <1>6. CASE Retry(p)
    <2>1. job[p].at # "none"
      BY <1>6 DEF Retry, SeenOpen, ReadBoth
    <2> QED
      BY <1>1, <1>6, <2>1 DEF Retry
  <1>7. CASE ReadFails(p)
    <2>1. job[p].at # "none"
      BY <1>7 DEF ReadFails
    <2>2. \A q \in Pairs \ {p} : job'[q] = job[q]
      BY <1>1, <1>7 DEF ReadFails
    <2> QED
      BY <1>7, <2>1, <2>2 DEF ReadFails
  <1> QED
    BY <1>2, <1>3, <1>4, <1>5, <1>6, <1>7

\* A verdict is written to orders that were still claimed.
LEMMA VerdictMeetsClaim ==
  ASSUME RowsInv, NEW p \in Pairs, NEW st \in {"FILLED", "FAILED"},
         Verdict(p, st), status' = Terminal(p, st)
  PROVE  /\ status'[p[1]] = st
         /\ \A q \in Pairs : q # p => status'[q[1]] = status[q[1]]
  <1>1. status[p[1]] = "MATCHED"
    BY DEF Verdict, Succeeded, SeenFilled, ReadBoth, RowsInv, JobsAreClaimed
  <1> QED
    BY <1>1, PairsAreDisjoint DEF Terminal

LEMMA RowsStep ==
  ASSUME RowsInv, [Next]_vars
  PROVE  JobsAreClaimed' /\ RowsAgree'
  <1>1. /\ TypeOK /\ LegsAgree /\ JobsAreClaimed /\ RowsAgree
        /\ TypeOK' /\ LegsAgree'
    BY TypeStep, LegsStep DEF RowsInv
  <1>2. job \in [Pairs -> Job] /\ status \in [OrderIds -> Statuses]
        /\ settlement \in [Pairs -> {"NONE", "PENDING", "SUCCESS", "FAILED"}]
        /\ crashes \in Nat
    BY <1>1, SettlementConstants DEF TypeOK
  <1>3. CASE UNCHANGED <<status, settlement, job, crashes>>
    BY <1>3, RowsByJobs
  <1>4. ASSUME NEW o \in OrderIds, Accept(o) PROVE JobsAreClaimed' /\ RowsAgree'
    <2>1. status[o] = "NONE" /\ UNCHANGED <<settlement, job, crashes>>
      BY <1>4 DEF Accept
    <2>2. \A x \in OrderIds :
            status'[x] = status[x] \/ (status[x] = "NONE" /\ status'[x] = "OPEN")
      BY <1>2, <1>4 DEF Accept
    <2> QED
      BY <1>1, <2>1, <2>2, PairsAreDisjoint DEF JobsAreClaimed, RowsAgree
  <1>5. ASSUME NEW p \in Pairs, ClaimMatch(p) PROVE JobsAreClaimed' /\ RowsAgree'
    <2>1. /\ status[p[1]] = "OPEN" /\ status'[p[1]] = "MATCHED"
          /\ \A q \in Pairs : q # p => status'[q[1]] = status[q[1]]
                                       /\ job'[q] = job[q]
          /\ UNCHANGED <<settlement, crashes>>
      BY <1>2, <1>5, PairsAreDisjoint DEF ClaimMatch
    <2> QED
      BY <1>1, <2>1 DEF JobsAreClaimed, RowsAgree
  <1>6. ASSUME NEW p \in Pairs, JobStep(p) PROVE JobsAreClaimed' /\ RowsAgree'
    <2>1. ASSUME NEW st \in {"FILLED", "FAILED"}, Finish(p, st)
          PROVE  JobsAreClaimed' /\ RowsAgree'
      <3>1. /\ status'[p[1]] = st
            /\ \A q \in Pairs : q # p => status'[q[1]] = status[q[1]]
        BY <2>1, VerdictMeetsClaim DEF Finish
      <3>2. /\ job'[p].at = "none"
            /\ settlement'[p] = IF st = "FILLED" THEN "SUCCESS" ELSE "FAILED"
            /\ \A q \in Pairs : q # p => job'[q] = job[q]
                                         /\ settlement'[q] = settlement[q]
            /\ UNCHANGED crashes
        BY <1>2, <2>1 DEF Finish, Outcome, NoJob
      <3> QED
        BY <1>1, <3>1, <3>2 DEF JobsAreClaimed, RowsAgree
    <2>2. CASE \/ StartAttempt(p) \/ SubmitTx(p) \/ ReturnFailed(p)
               \/ \E leg \in Legs : ReadLeg(p, leg)
               \/ Retry(p) \/ ReadFails(p)
      BY <1>1, <2>2, JobsMove, RowsByJobs
    <2> QED
      BY <1>6, <2>1, <2>2 DEF JobStep
  <1>7. ASSUME NEW st, RestartWith(st),
               \A p \in Pairs : st[p[1]] # status[p[1]] =>
                                  status[p[1]] = "MATCHED"
        PROVE  JobsAreClaimed' /\ RowsAgree'
    <2>1. status' = st /\ UNCHANGED settlement /\ crashes' # 0
          /\ job' = [p \in Pairs |-> Recover(st, p)]
      BY <1>2, <1>7 DEF RestartWith
    <2>2. JobsAreClaimed'
      BY <1>1, <2>1, PairsAreDisjoint
         DEF JobsAreClaimed, Recover, NoJob, LegsAgree
    <2>3. RowsAgree'
      BY <1>1, <1>7, <2>1 DEF RowsAgree
    <2> QED
      BY <2>2, <2>3
  <1>8. CASE CrashAndRestart
    BY <1>7, <1>8 DEF CrashAndRestart
  <1>9. ASSUME NEW p \in Pairs, CrashBeforeOutcome(p)
        PROVE  JobsAreClaimed' /\ RowsAgree'
    <2>1. PICK st \in {"FILLED", "FAILED"} :
            Verdict(p, st) /\ RestartWith(Terminal(p, st))
      BY <1>9 DEF CrashBeforeOutcome
    <2>2. \A q \in Pairs : Terminal(p, st)[q[1]] # status[q[1]] =>
                             status[q[1]] = "MATCHED"
      BY PairsAreDisjoint DEF Terminal
    <2> QED
      BY <1>7, <2>1, <2>2
  <1> QED
    BY <1>3, <1>4, <1>5, <1>6, <1>8, <1>9 DEF Next, vars, matcherVars, Owners,
       Land, Discard

LEMMA RowsInvariant == Spec => []RowsInv
  <1>1. Init => RowsInv
    BY TypeInit, PairsAreDisjoint DEF Init, LegsAgree, RowsInv, JobsAreClaimed,
       RowsAgree, NoJob
  <1>2. RowsInv /\ [Next]_vars => RowsInv'
    BY TypeStep, LegsStep, RowsStep DEF RowsInv
  <1> QED
    BY <1>1, <1>2, PTL DEF Spec

\* A settlements row with a verdict never says other than its orders do, though
\* recordOutcome follows markOrdersTerminal and a crash may come in between.
THEOREM RowsTellOrders == Spec => []RowsAgree
  <1>1. RowsInv => RowsAgree
    BY DEF RowsInv
  <1> QED
    BY <1>1, RowsInvariant, PTL

-----------------------------------------------------------------------------
(* What no step takes back *)

\* A verdict is final: a settlements row that names an outcome, and an order
\* that is FILLED or FAILED, are never rewritten (recordOutcome and
\* markOrdersTerminal run again after a crash or a retry; recordAttemptStart
\* upserts the row).
VerdictsStay ==
  /\ \A p \in Pairs :
       settlement[p] \in {"SUCCESS", "FAILED"} => settlement'[p] = settlement[p]
  /\ \A o \in OrderIds :
       status[o] \in {"FILLED", "FAILED"} => status'[o] = status[o]

\* Rows are written by the job of their match only.
LEMMA RowsWrittenByJobs ==
  ASSUME RowsInv, [Next]_vars, NEW p \in Pairs
  PROVE  \/ settlement'[p] = settlement[p]
         \/ settlement'[p] # "NONE" /\ status[p[1]] = "MATCHED"
  <1>1. TypeOK /\ JobsAreClaimed
        /\ settlement \in [Pairs -> {"NONE", "PENDING", "SUCCESS", "FAILED"}]
    BY DEF RowsInv, TypeOK
  <1>2. ASSUME NEW q \in Pairs, NEW st \in {"FILLED", "FAILED"}, Finish(q, st)
        PROVE  \/ settlement'[p] = settlement[p]
               \/ settlement'[p] # "NONE" /\ status[p[1]] = "MATCHED"
    <2>1. job[q].at # "none"
      BY <1>2 DEF Finish, Verdict, Succeeded, SeenFilled, ReadBoth
    <2>2. status[q[1]] = "MATCHED"
      BY <1>1, <2>1 DEF JobsAreClaimed
    <2> QED
      BY <1>1, <1>2, <2>2 DEF Finish, Outcome
  <1>3. ASSUME NEW q \in Pairs,
               \/ StartAttempt(q) \/ SubmitTx(q) \/ ReturnFailed(q)
               \/ \E leg \in Legs : ReadLeg(q, leg)
               \/ Retry(q) \/ ReadFails(q)
        PROVE  \/ settlement'[p] = settlement[p]
               \/ settlement'[p] # "NONE" /\ status[p[1]] = "MATCHED"
    BY <1>1, <1>3, JobsMove DEF JobsAreClaimed
  <1>4. \/ UNCHANGED settlement
        \/ \E q \in Pairs : JobStep(q)
    BY DEF Next, vars, matcherVars, Owners, Accept, Land, Discard, ClaimMatch,
       RestartWith, CrashAndRestart, CrashBeforeOutcome
  <1> QED
    BY <1>2, <1>3, <1>4 DEF JobStep

LEMMA VerdictsStep ==
  ASSUME RowsInv, [Next]_vars PROVE VerdictsStay
  <1>1. TypeOK /\ RowsAgree
    BY DEF RowsInv
  <1>2. ASSUME NEW p \in Pairs, settlement[p] \in {"SUCCESS", "FAILED"}
        PROVE  settlement'[p] = settlement[p]
    <2>1. status[p[1]] # "MATCHED"
      BY <1>1, <1>2 DEF RowsAgree
    <2> QED
      BY <2>1, RowsWrittenByJobs
  <1>3. ASSUME NEW o \in OrderIds, status[o] \in {"FILLED", "FAILED"}
        PROVE  status'[o] = status[o]
    <2>1. status \in [OrderIds -> Statuses]
      BY <1>1 DEF TypeOK
    <2>2. ASSUME NEW p \in Pairs, status[p[1]] = "OPEN", status[p[2]] = "OPEN"
          PROVE  o \notin Members(p)
      BY <1>3, <2>2 DEF Members
    <2> QED
      BY <1>3, <2>1, <2>2, StatusMoves DEF StatusMove, Terminal
  <1> QED
    BY <1>2, <1>3 DEF VerdictsStay

\* A verdict is never rewritten: not by a job that a restart made anew for a
\* match whose outcome was half written, not by a late or a repeated attempt.
THEOREM VerdictsAreFinal == Spec => [][VerdictsStay]_vars
  <1>1. RowsInv /\ [Next]_vars => [VerdictsStay]_vars
    BY VerdictsStep
  <1> QED
    BY <1>1, RowsInvariant, PTL DEF Spec

\* A row that says SUCCESS is a settlement the chain shows: both orders of the
\* pair are FILLED there.
SuccessIsOnChain ==
  \A p \in Pairs :
    settlement[p] = "SUCCESS" =>
      orderState[p[1]] = "FILLED" /\ orderState[p[2]] = "FILLED"

\* Whatever is written in two steps, lost or repeated, a row that says SUCCESS
\* stands for two fills on the chain.
THEOREM SuccessIsReal == Spec => []SuccessIsOnChain
  <1>1. ASSUME RowsAgree, LegsAgree, FilledOnChain PROVE SuccessIsOnChain
    <2> SUFFICES ASSUME NEW p \in Pairs, settlement[p] = "SUCCESS"
                 PROVE  orderState[p[1]] = "FILLED" /\ orderState[p[2]] = "FILLED"
      BY DEF SuccessIsOnChain
    <2>1. status[p[1]] = "FILLED" /\ status[p[2]] = "FILLED"
      BY <1>1 DEF RowsAgree, LegsAgree
    <2> QED
      BY <1>1, <2>1, PairsAreDisjoint DEF FilledOnChain
  <1> QED
    BY <1>1, RowsTellOrders, LegsMoveTogether, FillsAreReal, PTL

-----------------------------------------------------------------------------
(* What settles on the chain was claimed in the tables *)

\* The matcher has claimed the pair and has a row for it.
Claimed(p) ==
  status[p[1]] \in {"MATCHED", "FILLED", "FAILED"} /\ settlement[p] # "NONE"

\* A pair that settle() has executed is one the matcher claimed, with a row to
\* show for it, though the transaction may land long after its caller died.
SettledIsClaimed == \A p \in settledPairs : Claimed(p)

\* Every call under way, and every transaction in flight, is for such a pair.
CallsAreClaimed ==
  /\ \A p \in Pairs :
       job[p].at \in {"calling", "awaiting", "reading"} => settlement[p] # "NONE"
  /\ \A tx \in pool : Claimed(tx[1])

ClaimedInv == RowsInv /\ CallsAreClaimed /\ SettledIsClaimed

LEMMA ClaimsLast ==
  ASSUME RowsInv, [Next]_vars, NEW p \in Pairs, Claimed(p)
  PROVE  Claimed(p)'
  <1>1. TypeOK /\ status \in [OrderIds -> Statuses] /\ p[1] \in OrderIds
    BY PairsAreDisjoint DEF RowsInv, TypeOK
  <1>2. status'[p[1]] \in {"MATCHED", "FILLED", "FAILED"}
    <2>1. \A q \in Pairs : status[q[1]] = "OPEN" /\ status[q[2]] = "OPEN" =>
                             p[1] \notin Members(q)
      BY DEF Claimed, Members
    <2> QED
      BY <1>1, <2>1, StatusMoves DEF Claimed, StatusMove, Terminal
  <1>3. settlement'[p] # "NONE"
    BY RowsWrittenByJobs DEF Claimed
  <1> QED
    BY <1>2, <1>3 DEF Claimed

\* A call begins with its row written.
LEMMA CallsHaveRows ==
  ASSUME ClaimedInv, [Next]_vars, NEW p \in Pairs,
         job'[p].at \in {"calling", "awaiting", "reading"}
  PROVE  settlement'[p] # "NONE"
  <1>1. /\ job \in [Pairs -> Job]
        /\ settlement \in [Pairs -> {"NONE", "PENDING", "SUCCESS", "FAILED"}]
        /\ RowsInv /\ CallsAreClaimed
    BY DEF ClaimedInv, RowsInv, TypeOK
  <1>2. NoJob.at = "none" /\ \A n : DueAt(n).at = "due"
    BY DEF NoJob, DueAt
  <1>3. CASE job[p].at \in {"calling", "awaiting", "reading"}
    BY <1>1, <1>3, RowsWrittenByJobs DEF CallsAreClaimed
  <1>4. ASSUME NEW q \in Pairs, StartAttempt(q) PROVE settlement'[p] # "NONE"
    <2>1. CASE p = q
      BY <1>1, <1>4, <2>1 DEF StartAttempt, StatusAtStart
    <2>2. CASE p # q
      BY <1>1, <1>3, <1>4, <2>2 DEF StartAttempt
    <2> QED
      BY <2>1, <2>2
  <1>5. ASSUME NEW q \in Pairs, SubmitTx(q) \/ ReturnFailed(q)
        PROVE  job[p].at \in {"calling", "awaiting", "reading"}
    <2>1. CASE p = q
      BY <1>5, <2>1 DEF SubmitTx, ReturnFailed
    <2>2. CASE p # q
      BY <1>1, <1>5, <2>2 DEF SubmitTx, ReturnFailed
    <2> QED
      BY <2>1, <2>2
  <1>6. ASSUME NEW q \in Pairs, NEW leg \in Legs, ReadLeg(q, leg)
        PROVE  job[p].at \in {"calling", "awaiting", "reading"}
    <2>1. CASE p = q
      BY <1>6, <2>1 DEF ReadLeg
    <2>2. CASE p # q
      BY <1>1, <1>6, <2>2 DEF ReadLeg
    <2> QED
      BY <2>1, <2>2
  <1>7. ASSUME NEW q \in Pairs,
               \/ Retry(q) \/ ReadFails(q) \/ ClaimMatch(q)
               \/ \E st \in {"FILLED", "FAILED"} : Finish(q, st)
        PROVE  job[p].at \in {"calling", "awaiting", "reading"}
    <2>1. job'[p] = job[p] \/ job'[p].at \in {"none", "due"}
      BY <1>1, <1>2, <1>7 DEF Retry, ReadFails, ClaimMatch, Finish
    <2> QED
      BY <2>1
  <1>8. ASSUME NEW st, RestartWith(st) PROVE FALSE
    BY <1>2, <1>8 DEF RestartWith, Recover
  <1>9. \/ UNCHANGED job \/ \E st : RestartWith(st)
        \/ \E q \in Pairs : JobStep(q) \/ ClaimMatch(q)
    BY DEF Next, vars, matcherVars, Owners, Accept, Land, Discard,
       CrashAndRestart, CrashBeforeOutcome
  <1> QED
    BY <1>3, <1>4, <1>5, <1>6, <1>7, <1>8, <1>9 DEF JobStep

LEMMA ClaimedStep ==
  ASSUME ClaimedInv, [Next]_vars
  PROVE  CallsAreClaimed' /\ SettledIsClaimed'
  <1>1. /\ RowsInv /\ CallsAreClaimed /\ SettledIsClaimed /\ JobsAreClaimed
        /\ pool \subseteq Pairs \X Nat /\ settledPairs \subseteq Pairs
    BY DEF ClaimedInv, RowsInv, TypeOK
  <1>2. ASSUME NEW p \in Pairs, SubmitTx(p) PROVE Claimed(p)
    BY <1>1, <1>2 DEF SubmitTx, CallsAreClaimed, JobsAreClaimed, Claimed
  <1>3. ASSUME NEW tx \in pool' PROVE Claimed(tx[1])'
    <2>1. tx \in pool \/ \E p \in Pairs : SubmitTx(p) /\ tx[1] = p
      <3>1. \/ pool' \subseteq pool
            \/ \E p \in Pairs : SubmitTx(p)
        BY DEF Next, vars, callVars, Owners, Accept, Land, Discard, ClaimMatch,
           JobStep, StartAttempt, ReturnFailed, ReadLeg, Retry, Finish,
           ReadFails, RestartWith, CrashAndRestart, CrashBeforeOutcome
      <3> QED
        BY <1>3, <3>1 DEF SubmitTx
    <2>2. tx[1] \in Pairs /\ Claimed(tx[1])
      BY <1>1, <1>2, <2>1 DEF CallsAreClaimed
    <2> QED
      BY <1>1, <2>2, ClaimsLast
  <1>4. ASSUME NEW p \in settledPairs' PROVE Claimed(p)'
    <2>1. p \in settledPairs \/ \E tx \in pool : Land(tx) /\ p = <<tx[1][1], tx[1][2]>>
      <3>1. settledPairs' = settledPairs \/ \E tx \in pool : Land(tx)
        BY DEF Next, vars, chainVars, Owners, ChainCreate, ChainClose,
           ChainReserve, ChainRelease, ChainSettleWithProtocol, Accept, Discard,
           ClaimMatch, JobStep, StartAttempt, SubmitTx, ReturnFailed, ReadLeg,
           Retry, Finish, ReadFails, RestartWith, CrashAndRestart,
           CrashBeforeOutcome
      <3> QED
        BY <1>4, <3>1 DEF Land, ChainSettle
    <2>2. p \in Pairs /\ Claimed(p)
      <3>1. CASE p \in settledPairs
        BY <1>1, <3>1 DEF SettledIsClaimed
      <3>2. ASSUME NEW tx \in pool, p = <<tx[1][1], tx[1][2]>>
            PROVE  p \in Pairs /\ Claimed(p)
        <4>1. tx[1] \in Pairs /\ p = tx[1]
          BY <1>1, <3>2, PairsAreDisjoint
        <4> QED
          BY <1>1, <4>1 DEF CallsAreClaimed
      <3> QED
        BY <2>1, <3>1, <3>2
    <2> QED
      BY <1>1, <2>2, ClaimsLast
  <1>5. \A p \in Pairs : job'[p].at \in {"calling", "awaiting", "reading"} =>
                           settlement'[p] # "NONE"
    BY CallsHaveRows
  <1> QED
    BY <1>3, <1>4, <1>5 DEF CallsAreClaimed, SettledIsClaimed

\* The chain never settles a pair the matcher's tables know nothing of, however
\* late a transaction lands and however often the process has died since.
THEOREM SettlementsAreClaimed == Spec => []SettledIsClaimed
  <1>1. Init => CallsAreClaimed /\ SettledIsClaimed
    BY DEF Init, ChainInit, CallsAreClaimed, SettledIsClaimed, NoJob
  <1>2. RowsInv /\ CallsAreClaimed /\ SettledIsClaimed /\ [Next]_vars
          => CallsAreClaimed' /\ SettledIsClaimed'
    BY ClaimedStep DEF ClaimedInv
  <1> QED
    BY <1>1, <1>2, RowsInvariant, PTL DEF Spec

-----------------------------------------------------------------------------
(* The matcher and the owners move the chain as the contract lets them *)

LEMMA ChainStep == TypeOK /\ [Next]_vars => [ChainNext]_chainVars
  <1> SUFFICES ASSUME TypeOK, [Next]_vars PROVE [ChainNext]_chainVars
    OBVIOUS
  <1>1. CASE Owners
    BY <1>1, Zenon DEF Owners, ChainNext
  <1>2. ASSUME NEW tx \in pool, Land(tx) PROVE ChainNext
    <2>1. tx[1][1] \in OrderIds /\ tx[1][2] \in OrderIds
      BY PairsAreDisjoint DEF TypeOK
    <2> QED
      BY <1>2, <2>1, Zenon DEF Land, ChainNext
  <1>3. \/ Owners
        \/ \E tx \in pool : Land(tx)
        \/ UNCHANGED chainVars
    BY DEF Next, vars, Accept, Discard, ClaimMatch, JobStep, StartAttempt,
       SubmitTx, ReturnFailed, ReadLeg, Retry, Finish, ReadFails, RestartWith,
       CrashAndRestart, CrashBeforeOutcome
  <1> QED
    BY <1>1, <1>2, <1>3

\* The chain the matcher runs against does no more than the contract promises:
\* with ExchangeImplementsChainOrders, contract and matcher meet at the same
\* abstract chain.
THEOREM SettlementRunsOnTheContract == Spec => ChainSpec
  <1>1. Init => ChainInit
    BY DEF Init
  <1> QED
    BY <1>1, ChainStep, SettlementTypes, PTL DEF Spec, ChainSpec
=============================================================================
