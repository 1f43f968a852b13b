-------------------------- MODULE ExchangeProofs ---------------------------
(***************************************************************************)
(* Theorems about the exchange contract for any number of orders, quotes,  *)
(* assets and administrators, any integer width and any field.             *)
(***************************************************************************)
EXTENDS ExchangeProperties, FiniteSetTheorems, TLAPS

-----------------------------------------------------------------------------
(* The amounts of open reservations, added up.  MapThenSumSet is a fold by  *)
(* a recursive function; a claim about every finite set of quotes is proved *)
(* on the least set of which it would fail.                                 *)

\* Finite sets of quotes that are not none have a least one by inclusion.
LEMMA MinimalSet ==
  ASSUME NEW Bad \in SUBSET FiniteSubsetsOf(QuoteIds), Bad # {}
  PROVE  \E T \in Bad : \A U \in Bad : U \subseteq T => U = T
<1> DEFINE R == StrictSubsetOrdering(QuoteIds)
<1>1. IsWellFoundedOn(R, FiniteSubsetsOf(QuoteIds))
  BY FS_StrictSubsetOrderingWellFounded
<1>2. ASSUME NEW U \in Bad, NEW T \in Bad, U \subseteq T, U # T
      PROVE  <<U, T>> \in R
  <2> DEFINE p == <<U, T>>
  <2>1. p \in (SUBSET QuoteIds) \X (SUBSET QuoteIds) /\ p[1] = U /\ p[2] = T
    BY DEF FiniteSubsetsOf
  <2> HIDE DEF p
  <2>2. p \in R
    BY <1>2, <2>1 DEF StrictSubsetOrdering
  <2> QED BY <2>2 DEF p
<1> HIDE DEF R
<1>3. PICK T \in Bad : \A U \in Bad : ~(<<U, T>> \in R)
  BY <1>1, WFMin
<1> QED BY <1>2, <1>3

\* The order in which MapThenSumSet takes the elements of a set.
First(s) == CHOOSE x \in s : TRUE
Amount(w, q) == w[q].terms.amount
Total(w, S) == MapThenSumSet(LAMBDA q : w[q].terms.amount, S)
Adds(w, S, f) ==
  f = [s \in SUBSET S |->
         IF s = {} THEN 0 ELSE Amount(w, First(s)) + f[s \ {First(s)}]]

LEMMA TotalIsFold ==
  ASSUME NEW w, NEW S
  PROVE  Total(w, S) = (CHOOSE f : Adds(w, S, f))[S]
BY DEF Total, Adds, Amount, First, MapThenSumSet, MapThenFoldSet

LEMMA FirstOf ==
  ASSUME NEW s, s # {}
  PROVE  First(s) \in s
BY DEF First

LEMMA SubsetsFinite ==
  ASSUME NEW s \in FiniteSubsetsOf(QuoteIds), NEW u \in SUBSET s
  PROVE  u \in FiniteSubsetsOf(QuoteIds)
BY FS_Subset DEF FiniteSubsetsOf

\* One turn of the fold.
Unfolds(w, s) ==
  Total(w, s) = IF s = {} THEN 0
                ELSE Amount(w, First(s)) + Total(w, s \ {First(s)})

LEMMA TotalUnfolds ==
  ASSUME NEW w, NEW S \in FiniteSubsetsOf(QuoteIds)
  PROVE  Unfolds(w, S)
<1> DEFINE Bad == {s \in FiniteSubsetsOf(QuoteIds) : ~Unfolds(w, s)}
<1> SUFFICES ASSUME Bad # {} PROVE FALSE
  OBVIOUS
<1>1. PICK s \in Bad : \A u \in Bad : u \subseteq s => u = s
  <2>1. Bad \in SUBSET FiniteSubsetsOf(QuoteIds)
    OBVIOUS
  <2> HIDE DEF Bad
  <2> QED BY <2>1, MinimalSet
<1>2. s \in FiniteSubsetsOf(QuoteIds) /\ ~Unfolds(w, s)
  BY <1>1
<1>3. \A u \in SUBSET s : u # s => Unfolds(w, u)
  BY <1>1, <1>2, SubsetsFinite
<1> DEFINE e == IF s = {} THEN 0
                ELSE Amount(w, First(s)) + Total(w, s \ {First(s)})
           g == [u \in SUBSET s |-> IF u = s THEN e ELSE Total(w, u)]
<1> HIDE DEF Bad
\* A function that adds up exists for the least set of which the claim fails.
<1>4. \A u \in SUBSET s :
        g[u] = IF u = {} THEN 0 ELSE Amount(w, First(u)) + g[u \ {First(u)}]
  <2> TAKE u \in SUBSET s
  <2>1. CASE u = {}
    BY <1>3, <2>1 DEF Unfolds
  <2>2. CASE u # {}
    <3>1. First(u) \in u
      BY <2>2, FirstOf
    <3>2. u \ {First(u)} \in SUBSET s /\ u \ {First(u)} # s
      BY <3>1
    <3>3. g[u \ {First(u)}] = Total(w, u \ {First(u)})
      BY <3>2
    <3>4. CASE u = s
      BY <2>2, <3>3, <3>4
    <3>5. CASE u # s
      BY <1>3, <2>2, <3>3, <3>5 DEF Unfolds
    <3> QED BY <3>4, <3>5
  <2> QED BY <2>1, <2>2
<1>5. Adds(w, s, g)
  <2>1. g = [u \in SUBSET s |-> g[u]]
    OBVIOUS
  <2> HIDE DEF g
  <2> QED BY <1>4, <2>1 DEF Adds
<1> DEFINE h == CHOOSE f : Adds(w, s, f)
<1>6. Adds(w, s, h)
  BY <1>5
<1>7. Total(w, s) = h[s]
  BY TotalIsFold
<1> HIDE DEF h
\* It is the only one.
<1>8. \A u \in SUBSET s : h[u] = g[u]
  <2> DEFINE Differ == {u \in SUBSET s : h[u] # g[u]}
  <2> SUFFICES ASSUME Differ # {} PROVE FALSE
    OBVIOUS
  <2>1. Differ \in SUBSET FiniteSubsetsOf(QuoteIds)
    BY <1>2, SubsetsFinite
  <2>2. PICK u \in Differ : \A v \in Differ : v \subseteq u => v = u
    <3> HIDE DEF Differ
    <3> QED BY <2>1, MinimalSet
  <2>3. u \in SUBSET s /\ h[u] # g[u]
    BY <2>2
  <2>4. h[u] = IF u = {} THEN 0 ELSE Amount(w, First(u)) + h[u \ {First(u)}]
    BY <1>6, <2>3 DEF Adds
  <2>5. u # {} => h[u \ {First(u)}] = g[u \ {First(u)}]
    <3> HAVE u # {}
    <3>1. First(u) \in u
      BY FirstOf
    <3>2. u \ {First(u)} \in SUBSET s /\ u \ {First(u)} # u
      BY <2>3, <3>1
    <3>3. u \ {First(u)} \notin Differ
      BY <2>2, <3>2
    <3> HIDE DEF g
    <3> QED BY <3>2, <3>3
  <2> HIDE DEF g, Differ
  <2> QED BY <1>4, <2>3, <2>4, <2>5
<1>9. Total(w, s) = g[s]
  <2> HIDE DEF g
  <2> QED BY <1>7, <1>8
<1>10. g[s] = e
  OBVIOUS
<1> QED BY <1>2, <1>9, <1>10 DEF Unfolds

\* Amounts that are numbers add up to a number.
LEMMA TotalIsNat ==
  ASSUME NEW w, NEW S \in FiniteSubsetsOf(QuoteIds),
         \A q \in QuoteIds : Amount(w, q) \in Nat
  PROVE  Total(w, S) \in Nat
<1> DEFINE Bad == {s \in FiniteSubsetsOf(QuoteIds) : Total(w, s) \notin Nat}
<1> SUFFICES ASSUME Bad # {} PROVE FALSE
  OBVIOUS
<1>1. PICK s \in Bad : \A u \in Bad : u \subseteq s => u = s
  <2>1. Bad \in SUBSET FiniteSubsetsOf(QuoteIds)
    OBVIOUS
  <2> HIDE DEF Bad
  <2> QED BY <2>1, MinimalSet
<1>2. s \in FiniteSubsetsOf(QuoteIds) /\ Total(w, s) \notin Nat
  BY <1>1
<1>3. CASE s = {}
  <2>1. Total(w, s) = 0
    BY <1>2, <1>3, TotalUnfolds DEF Unfolds
  <2> HIDE DEF Bad
  <2> QED BY <1>2, <2>1
<1>4. CASE s # {}
  <2>1. First(s) \in s /\ First(s) \in QuoteIds
    BY <1>2, <1>4, FirstOf DEF FiniteSubsetsOf
  <2>2. s \ {First(s)} \in FiniteSubsetsOf(QuoteIds) /\ s \ {First(s)} # s
    BY <1>2, <2>1, SubsetsFinite
  <2>3. Total(w, s \ {First(s)}) \in Nat
    BY <1>1, <2>2
  <2>4. Total(w, s) = Amount(w, First(s)) + Total(w, s \ {First(s)})
    BY <1>2, <1>4, TotalUnfolds DEF Unfolds
  <2> QED BY <1>2, <2>1, <2>3, <2>4
<1> QED BY <1>3, <1>4

\* An element more adds its amount, in whatever order the others are taken.
LEMMA TotalWith ==
  ASSUME NEW w, NEW S \in FiniteSubsetsOf(QuoteIds), NEW q \in QuoteIds \ S,
         \A x \in QuoteIds : Amount(w, x) \in Nat
  PROVE  Total(w, S \cup {q}) = Total(w, S) + Amount(w, q)
<1> DEFINE Grows(s) == \A x \in QuoteIds \ s :
                         Total(w, s \cup {x}) = Total(w, s) + Amount(w, x)
           Bad == {s \in FiniteSubsetsOf(QuoteIds) : ~Grows(s)}
<1> SUFFICES ASSUME Bad # {} PROVE FALSE
  OBVIOUS
<1>1. PICK s \in Bad : \A u \in Bad : u \subseteq s => u = s
  <2>1. Bad \in SUBSET FiniteSubsetsOf(QuoteIds)
    OBVIOUS
  <2> HIDE DEF Bad
  <2> QED BY <2>1, MinimalSet
<1>2. s \in FiniteSubsetsOf(QuoteIds)
  BY <1>1
<1>3. ASSUME NEW x \in QuoteIds \ s
      PROVE  Total(w, s \cup {x}) = Total(w, s) + Amount(w, x)
  <2> DEFINE t == s \cup {x}
             y == First(t)
  <2>1. t \in FiniteSubsetsOf(QuoteIds) /\ t # {}
    BY <1>2, FS_AddElement DEF FiniteSubsetsOf
  <2>2. y \in t
    BY <2>1, FirstOf
  <2>3. Total(w, t) = Amount(w, y) + Total(w, t \ {y})
    BY <2>1, TotalUnfolds DEF Unfolds
  <2>4. Amount(w, x) \in Nat /\ Total(w, s) \in Nat
    BY <1>2, TotalIsNat
  <2> HIDE DEF y
  <2>5. CASE y = x
    <3>1. t \ {y} = s
      BY <2>5
    <3> QED BY <2>3, <2>4, <2>5, <3>1
  <2>6. CASE y # x
    <3> DEFINE u == s \ {y}
    <3>1. y \in s /\ y \in QuoteIds \ u /\ x \in QuoteIds \ u
      BY <1>2, <2>2, <2>6 DEF FiniteSubsetsOf
    <3>2. u \in FiniteSubsetsOf(QuoteIds) /\ u \subseteq s /\ u # s
      BY <1>2, <3>1, SubsetsFinite
    <3>3. u \notin Bad
      BY <1>1, <3>2
    <3>4. /\ Total(w, u \cup {x}) = Total(w, u) + Amount(w, x)
          /\ Total(w, u \cup {y}) = Total(w, u) + Amount(w, y)
      BY <3>1, <3>2, <3>3
    <3>5. t \ {y} = u \cup {x} /\ u \cup {y} = s
      BY <2>6, <3>1
    <3>6. Amount(w, y) \in Nat /\ Total(w, u) \in Nat
      BY <3>1, <3>2, TotalIsNat
    <3>7. Total(w, s) = Total(w, u) + Amount(w, y)
      BY <3>4, <3>5
    <3>8. Total(w, t) = Amount(w, y) + (Total(w, u) + Amount(w, x))
      BY <2>3, <3>4, <3>5
    <3>9. Total(w, t) = Total(w, s) + Amount(w, x)
      <4> HIDE DEF u, t, Bad
      <4> QED BY <2>4, <3>6, <3>7, <3>8
    <3> QED BY <3>9
  <2> QED BY <2>5, <2>6
<1> QED BY <1>1, <1>3

\* The total depends on the amounts of its elements only.
LEMMA TotalAgrees ==
  ASSUME NEW w, NEW v, NEW S \in FiniteSubsetsOf(QuoteIds),
         \A q \in S : Amount(w, q) = Amount(v, q)
  PROVE  Total(w, S) = Total(v, S)
<1> DEFINE Bad == {s \in FiniteSubsetsOf(QuoteIds) :
                     s \subseteq S /\ Total(w, s) # Total(v, s)}
<1> SUFFICES ASSUME Bad # {} PROVE FALSE
  OBVIOUS
<1>1. PICK s \in Bad : \A u \in Bad : u \subseteq s => u = s
  <2>1. Bad \in SUBSET FiniteSubsetsOf(QuoteIds)
    OBVIOUS
  <2> HIDE DEF Bad
  <2> QED BY <2>1, MinimalSet
<1>2. s \in FiniteSubsetsOf(QuoteIds) /\ s \subseteq S /\ Total(w, s) # Total(v, s)
  BY <1>1
<1>3. Unfolds(w, s) /\ Unfolds(v, s)
  BY <1>2, TotalUnfolds
<1>4. s # {}
  BY <1>2, <1>3 DEF Unfolds
<1>5. First(s) \in s
  BY <1>4, FirstOf
<1>6. s \ {First(s)} \in FiniteSubsetsOf(QuoteIds) /\ s \ {First(s)} # s
  BY <1>2, <1>5, SubsetsFinite
<1>7. Total(w, s \ {First(s)}) = Total(v, s \ {First(s)})
  BY <1>1, <1>2, <1>6
<1> HIDE DEF Bad
<1> QED BY <1>2, <1>3, <1>4, <1>5, <1>7 DEF Unfolds

-----------------------------------------------------------------------------
(* Arithmetic of the circuits *)

USE ExchangeConstants DEF ExchangeConstants

\* A payment computed in the field is a natural number below its order.
LEMMA PaymentIsNat ==
  ASSUME NEW r \in Terms
  PROVE  PaymentAmount(r) \in Nat
<1>1. r.amount \in Nat /\ r.price \in Nat
  BY DEF Terms
<1>2. r.amount * r.price \in Nat
  BY <1>1, SMT
<1>3. \A n \in Nat : n % FieldOrder \in Nat
  BY SMT
<1>4. QED
  BY <1>2, <1>3 DEF PaymentAmount

\* Removing an administrator while there are at least two leaves one.
LEMMA AnAdminRemains ==
  ASSUME NEW S, NEW x \in S, Cardinality(S) > 1
  PROVE  S \ {x} # {}
<1>1. SUFFICES ASSUME S \ {x} = {} PROVE FALSE
  OBVIOUS
<1>2. S = {x}
  BY <1>1
<1>3. Cardinality(S) = 1
  BY <1>2, FS_Singleton
<1>4. QED
  BY <1>3

-----------------------------------------------------------------------------
(* Type correctness *)

LEMMA InitTypeOK == Init => TypeOK
<1>1. NoTerms \in Terms
  BY DEF NoTerms, Terms
<1>2. {InitialAdmin} \subseteq AdminIds
  OBVIOUS
<1>3. QED
  BY <1>1, <1>2
     DEF Init, TypeOK, OrderStates, TxKinds, ReservationStates

\* An order's details, once it is open, are details somebody committed to.
LEMMA OpenOrderDetails ==
  ASSUME TypeOK, NEW id \in OrderIds, IsOpen(id)
  PROVE  /\ orders[id].commitment \in Commitments
         /\ orders[id].commitment \in OrderDetails
  BY DEF TypeOK, IsOpen

\* A row of the audit log keeps the log's type.
LEMMA HistoryTyped ==
  ASSUME TypeOK, NEW k \in TxKinds, NEW a \in Assets, NEW n \in Nat,
         RecordTreasuryTx(k, a, n)
  PROVE  /\ treasuryHistory' \in [TxKinds -> [Assets -> Nat]]
         /\ treasuryHistorySeq' \in 0..MaxSeq
<1>1. treasuryHistorySeq' \in 0..MaxSeq
  BY DEF TypeOK, RecordTreasuryTx
<1>2. treasuryHistory[k] \in [Assets -> Nat] /\ treasuryHistory[k][a] + n \in Nat
  BY DEF TypeOK
<1>3. treasuryHistory' \in [TxKinds -> [Assets -> Nat]]
  BY <1>2 DEF TypeOK, RecordTreasuryTx
<1>4. QED
  BY <1>1, <1>3

LEMMA OrderCircuitTyped == TypeOK /\ OrderCircuit => TypeOK'
<1> SUFFICES ASSUME TypeOK, OrderCircuit PROVE TypeOK'
  OBVIOUS
<1> USE DEF TypeOK, OrderStates, EventKinds, treasuryVars, RecordEvents, IsOpen
<1>1. ASSUME NEW id \in OrderIds, NEW c \in Commitments, CreateOrder(id, c)
      PROVE TypeOK'
  BY <1>1 DEF CreateOrder
<1>2. ASSUME NEW id \in OrderIds, NEW caller \in Owners,
             CancelOrder(caller, id)
      PROVE TypeOK'
  BY <1>2 DEF CancelOrder
<1>3. ASSUME NEW id \in OrderIds, ExpireOrder(id)
      PROVE TypeOK'
  BY <1>3 DEF ExpireOrder
<1>4. ASSUME NEW b \in OrderIds, NEW s \in OrderIds, Settle(b, s)
      PROVE TypeOK'
  <2>1. orders' \in [OrderIds -> [commitment: Commitments \cup {NoCommitment},
                                  state: {"NONE", "OPEN", "FILLED", "CANCELLED", "EXPIRED"}]]
    <3>1. \A id \in {b, s} :
            [orders[id] EXCEPT !.state = "FILLED"]
              \in [commitment: Commitments \cup {NoCommitment},
                   state: {"NONE", "OPEN", "FILLED", "CANCELLED", "EXPIRED"}]
      OBVIOUS
    <3> QED
      BY <1>4, <3>1 DEF Settle
  <2>2. \A id \in OrderIds : orders'[id].commitment = orders[id].commitment
    BY <1>4 DEF Settle
  <2>3. \A id \in OrderIds :
          orders'[id].state # "NONE" => orders'[id].commitment \in Commitments
    BY <1>4, <2>2 DEF Settle
  <2>4. settledPairs' \subseteq OrderIds \X OrderIds
    BY <1>4 DEF Settle
  <2>5. eventLog' \subseteq {"CREATED", "CANCELLED", "FILLED"} \X OrderIds
    BY <1>4 DEF Settle
  <2>6. QED
    BY <1>4, <2>1, <2>3, <2>4, <2>5 DEF Settle
<1>5. QED
  BY <1>1, <1>2, <1>3, <1>4 DEF OrderCircuit

LEMMA AdminCircuitTyped == TypeOK /\ AdminCircuit => TypeOK'
<1> SUFFICES ASSUME TypeOK, NEW caller \in AdminIds, NEW other \in AdminIds,
                    AddAdmin(caller, other) \/ RemoveAdmin(caller, other)
             PROVE  TypeOK'
  BY DEF AdminCircuit
<1>1. admins' \subseteq AdminIds /\ admins' # {}
  <2>1. CASE AddAdmin(caller, other)
    BY <2>1 DEF AddAdmin, TypeOK
  <2>2. CASE RemoveAdmin(caller, other)
    BY <2>2, AnAdminRemains DEF RemoveAdmin, TypeOK
  <2>3. QED
    BY <2>1, <2>2
<1>2. UNCHANGED <<orderVars, treasuryVars, now>>
  BY DEF AddAdmin, RemoveAdmin
<1>3. QED
  BY <1>1, <1>2 DEF TypeOK, orderVars, treasuryVars

LEMMA FundingCircuitTyped == TypeOK /\ FundingCircuit => TypeOK'
<1> SUFFICES ASSUME TypeOK, NEW caller \in AdminIds, NEW a \in Assets,
                    NEW n \in Amounts,
                    DepositTreasury(caller, a, n) \/ WithdrawTreasury(caller, a, n)
             PROVE  TypeOK'
  BY DEF FundingCircuit
<1>1. n \in Nat
  OBVIOUS
<1>2. treasuryHistory' \in [TxKinds -> [Assets -> Nat]] /\ treasuryHistorySeq' \in 0..MaxSeq
  BY <1>1, HistoryTyped DEF DepositTreasury, WithdrawTreasury, TxKinds
<1>3. treasuryBalances' \in [Assets -> 0..MaxUint] /\ custody' \in [Assets -> Int]
  <2>1. CASE DepositTreasury(caller, a, n)
    BY <1>1, <2>1 DEF DepositTreasury, TypeOK
  <2>2. CASE WithdrawTreasury(caller, a, n)
    BY <1>1, <2>2 DEF WithdrawTreasury, Available, TypeOK
  <2>3. QED
    BY <2>1, <2>2
<1>4. UNCHANGED <<orderVars, treasuryReserved, reservations, admins, now>>
  BY DEF DepositTreasury, WithdrawTreasury
<1>5. QED
  BY <1>2, <1>3, <1>4 DEF TypeOK, orderVars

LEMMA ReservationCircuitTyped == TypeOK /\ ReservationCircuit => TypeOK'
<1> SUFFICES ASSUME TypeOK, ReservationCircuit PROVE TypeOK'
  OBVIOUS
<1>1. ASSUME NEW caller \in AdminIds, NEW q \in QuoteIds, NEW t \in QuoteTerms,
             ReserveLiquidity(caller, q, t)
      PROVE  TypeOK'
  <2>1. t \in Terms /\ t.assetKey \in Assets /\ t.amount \in Nat
    BY DEF Terms
  <2>2. treasuryHistory' \in [TxKinds -> [Assets -> Nat]] /\ treasuryHistorySeq' \in 0..MaxSeq
    BY <1>1, <2>1, HistoryTyped DEF ReserveLiquidity, TxKinds
  <2>3. treasuryReserved' \in [Assets -> Nat]
    BY <1>1, <2>1 DEF ReserveLiquidity, TypeOK
  <2>4. reservations' \in [QuoteIds -> [terms: Terms, state: ReservationStates]]
    BY <1>1, <2>1 DEF ReserveLiquidity, TypeOK, ReservationStates
  <2>5. QED
    BY <1>1, <2>2, <2>3, <2>4 DEF ReserveLiquidity, TypeOK, orderVars
<1>2. ASSUME NEW q \in QuoteIds, Release(q)
      PROVE  TypeOK'
  <2> DEFINE r == reservations[q].terms
  <2>1. r.assetKey \in Assets /\ r.amount \in Nat
    BY DEF TypeOK, Terms
  <2>2. treasuryHistory' \in [TxKinds -> [Assets -> Nat]] /\ treasuryHistorySeq' \in 0..MaxSeq
    BY <1>2, <2>1, HistoryTyped DEF Release, TxKinds
  <2>3. treasuryReserved' \in [Assets -> Nat]
    BY <1>2, <2>1 DEF Release, TypeOK
  <2>4. reservations' \in [QuoteIds -> [terms: Terms, state: ReservationStates]]
    BY <1>2 DEF Release, TypeOK, ReservationStates
  <2>5. QED
    BY <1>2, <2>2, <2>3, <2>4 DEF Release, TypeOK, orderVars
<1>3. QED
  BY <1>1, <1>2 DEF ReservationCircuit, ReleaseLiquidity, ReleaseExpiredLiquidity

\* What settleWithProtocol does to the treasury, whichever side it fills: the
\* balances move exactly as the coins do, the reserved amount falls by the
\* reservation, and no asset but NIGHT loses more than was reserved of it.
LEMMA ProtocolFillMovesMoney ==
  ASSUME TypeOK, NEW caller \in Owners, NEW id \in OrderIds, NEW q \in QuoteIds,
         SettleWithProtocol(caller, id, q)
  PROVE  LET r == reservations[q].terms
             held(a) == IF a = r.assetKey THEN r.amount ELSE 0
         IN  /\ treasuryBalances' \in [Assets -> 0..MaxUint]
             /\ custody' \in [Assets -> Int]
             /\ treasuryReserved' \in [Assets -> Nat]
             /\ \A a \in Assets :
                  /\ treasuryBalances'[a] - treasuryBalances[a]
                       = custody'[a] - custody[a]
                  /\ treasuryReserved'[a] = treasuryReserved[a] - held(a)
                  /\ a # Night =>
                       treasuryBalances'[a] >= treasuryBalances[a] - held(a)
<1> DEFINE r == reservations[q].terms
           payment == PaymentAmount(r)
           held(a) == IF a = r.assetKey THEN r.amount ELSE 0
           paid(a) == IF a = Night THEN payment ELSE 0
<1>1. r \in Terms /\ r.assetKey \in Assets /\ r.amount \in Nat
  BY DEF TypeOK, Terms
<1>2. payment \in Nat
  BY <1>1, PaymentIsNat
<1>3. /\ treasuryBalances \in [Assets -> Int]
      /\ \A a \in Assets : treasuryBalances[a] \in 0..MaxUint
      /\ custody \in [Assets -> Int]
      /\ treasuryReserved \in [Assets -> Nat]
  BY DEF TypeOK
<1>4. /\ treasuryReserved' \in [Assets -> Nat]
      /\ \A a \in Assets : treasuryReserved'[a] = treasuryReserved[a] - held(a)
  BY <1>1, <1>3 DEF SettleWithProtocol
<1>5. Night \in Assets
  OBVIOUS
<1> DEFINE Moved ==
      /\ treasuryBalances' \in [Assets -> 0..MaxUint]
      /\ custody' \in [Assets -> Int]
      /\ \A a \in Assets :
           /\ treasuryBalances'[a] - treasuryBalances[a] = custody'[a] - custody[a]
           /\ a # Night => treasuryBalances'[a] >= treasuryBalances[a] - held(a)
<1>6. ASSUME ProtocolSells(r, payment) PROVE Moved
  <2>1. /\ treasuryBalances' \in [Assets -> Int] /\ custody' \in [Assets -> Int]
        /\ \A a \in Assets :
             /\ treasuryBalances'[a] = treasuryBalances[a] - held(a) + paid(a)
             /\ custody'[a] = custody[a] - held(a) + paid(a)
    <3>1. /\ treasuryBalances' = PayOutThenIn(treasuryBalances, r.assetKey, r.amount, Night, payment)
          /\ custody' = PayOutThenIn(custody, r.assetKey, r.amount, Night, payment)
      BY <1>6 DEF ProtocolSells
    <3> HIDE DEF r, payment
    <3>2. /\ treasuryBalances' \in [Assets -> Int]
          /\ \A a \in Assets : treasuryBalances'[a] = treasuryBalances[a] - held(a) + paid(a)
      BY <1>1, <1>2, <1>3, <1>5, <3>1 DEF PayOutThenIn
    <3>3. /\ custody' \in [Assets -> Int]
          /\ \A a \in Assets : custody'[a] = custody[a] - held(a) + paid(a)
      BY <1>1, <1>2, <1>3, <1>5, <3>1 DEF PayOutThenIn
    <3>4. QED
      BY <3>2, <3>3
  <2>2. r.amount <= treasuryBalances[r.assetKey] /\ treasuryBalances'[Night] <= MaxUint
    BY <1>6 DEF ProtocolSells
  <2>3. \A a \in Assets : treasuryBalances'[a] \in 0..MaxUint
    BY <1>1, <1>2, <1>3, <2>1, <2>2
  <2>4. treasuryBalances' \in [Assets -> 0..MaxUint]
    BY <2>1, <2>3
  <2> HIDE DEF r, payment
  <2>5. QED
    BY <1>1, <1>2, <1>3, <2>1, <2>4
<1>7. ASSUME ProtocolBuys(r, payment) PROVE Moved
  <2>1. /\ treasuryBalances' \in [Assets -> Int] /\ custody' \in [Assets -> Int]
        /\ \A a \in Assets :
             /\ treasuryBalances'[a] = treasuryBalances[a] + held(a) - paid(a)
             /\ custody'[a] = custody[a] + held(a) - paid(a)
    <3>1. /\ treasuryBalances' = PayInThenOut(treasuryBalances, r.assetKey, r.amount, Night, payment)
          /\ custody' = PayInThenOut(custody, r.assetKey, r.amount, Night, payment)
      BY <1>7 DEF ProtocolBuys
    <3> HIDE DEF r, payment
    <3>2. /\ treasuryBalances' \in [Assets -> Int]
          /\ \A a \in Assets : treasuryBalances'[a] = treasuryBalances[a] + held(a) - paid(a)
      BY <1>1, <1>2, <1>3, <1>5, <3>1 DEF PayInThenOut
    <3>3. /\ custody' \in [Assets -> Int]
          /\ \A a \in Assets : custody'[a] = custody[a] + held(a) - paid(a)
      BY <1>1, <1>2, <1>3, <1>5, <3>1 DEF PayInThenOut
    <3>4. QED
      BY <3>2, <3>3
  <2>2. /\ treasuryBalances[r.assetKey] + r.amount <= MaxUint
        /\ treasuryBalances'[Night] >= 0
    BY <1>7 DEF ProtocolBuys
  <2>3. \A a \in Assets : treasuryBalances'[a] \in 0..MaxUint
    BY <1>1, <1>2, <1>3, <2>1, <2>2
  <2>4. treasuryBalances' \in [Assets -> 0..MaxUint]
    BY <2>1, <2>3
  <2> HIDE DEF r, payment
  <2>5. QED
    BY <1>1, <1>2, <1>3, <2>1, <2>4
<1>8. ProtocolSells(r, payment) \/ ProtocolBuys(r, payment)
  BY DEF SettleWithProtocol
<1>9. QED
  BY <1>4, <1>6, <1>7, <1>8

LEMMA ProtocolCircuitTyped == TypeOK /\ ProtocolCircuit => TypeOK'
<1> SUFFICES ASSUME TypeOK, NEW caller \in Owners, NEW id \in OrderIds,
                    NEW q \in QuoteIds, SettleWithProtocol(caller, id, q)
             PROVE  TypeOK'
  BY DEF ProtocolCircuit
<1> DEFINE r == reservations[q].terms
<1>1. r.assetKey \in Assets /\ r.amount \in Nat
  BY DEF TypeOK, Terms
<1>2. treasuryHistory' \in [TxKinds -> [Assets -> Nat]] /\ treasuryHistorySeq' \in 0..MaxSeq
  BY <1>1, HistoryTyped DEF SettleWithProtocol, TxKinds
<1>3. /\ treasuryBalances' \in [Assets -> 0..MaxUint]
      /\ custody' \in [Assets -> Int]
      /\ treasuryReserved' \in [Assets -> Nat]
  BY ProtocolFillMovesMoney
<1>4. /\ orders' \in [OrderIds -> [commitment: Commitments \cup {NoCommitment},
                                   state: OrderStates]]
      /\ \A o \in OrderIds :
           orders'[o].state # "NONE" => orders'[o].commitment \in Commitments
  <2>1. orders' = [orders EXCEPT ![id].state = "FILLED"] /\ orders[id].state = "OPEN"
    BY DEF SettleWithProtocol, IsOpen
  <2>2. /\ orders \in [OrderIds -> [commitment: Commitments \cup {NoCommitment},
                                    state: OrderStates]]
        /\ \A o \in OrderIds :
             orders[o].state # "NONE" => orders[o].commitment \in Commitments
    BY DEF TypeOK
  <2>3. orders[id].commitment \in Commitments /\ "FILLED" \in OrderStates
    BY <2>1, <2>2 DEF OrderStates
  <2>4. orders' \in [OrderIds -> [commitment: Commitments \cup {NoCommitment},
                                 state: OrderStates]]
    BY <2>1, <2>2, <2>3
  <2>5. \A o \in OrderIds :
          orders'[o].state # "NONE" => orders'[o].commitment \in Commitments
    BY <2>1, <2>2, <2>3
  <2> QED BY <2>4, <2>5
<1>5. reservations' \in [QuoteIds -> [terms: Terms, state: ReservationStates]]
  BY DEF SettleWithProtocol, TypeOK, ReservationStates
<1>6. eventLog' \subseteq EventKinds \X OrderIds
  BY DEF SettleWithProtocol, TypeOK, RecordEvents, EventKinds
<1>7. UNCHANGED <<settledPairs, admins, now>>
  BY DEF SettleWithProtocol
<1>8. QED
  BY <1>2, <1>3, <1>4, <1>5, <1>6, <1>7 DEF TypeOK

\* The contract's type invariant holds in every reachable state: balances
\* never leave Uint<128>, and the admin set is never empty.
THEOREM TypeCorrect == Spec => []TypeOK
<1>1. Init => TypeOK
  BY InitTypeOK
<1>2. TypeOK /\ [Next]_vars => TypeOK'
  <2> SUFFICES ASSUME TypeOK, [Next]_vars PROVE TypeOK'
    OBVIOUS
  <2>1. CASE Tick
    BY <2>1 DEF Tick, TypeOK, orderVars, treasuryVars
  <2>2. CASE UNCHANGED vars
    BY <2>2 DEF vars, orderVars, treasuryVars, TypeOK
  <2>3. QED
    BY <2>1, <2>2, OrderCircuitTyped, AdminCircuitTyped, FundingCircuitTyped,
       ReservationCircuitTyped, ProtocolCircuitTyped DEF Next
<1>3. QED
  BY <1>1, <1>2, PTL DEF Spec

-----------------------------------------------------------------------------
(* The treasury *)

TreasuryInv == BalanceIsCustody /\ HistoryExplainsReserved /\ ReservationsCovered

\* One row more in the audit log, read entry by entry.
LEMMA HistoryGrows ==
  ASSUME TypeOK, NEW k \in TxKinds, NEW a \in Assets, NEW n \in Nat,
         RecordTreasuryTx(k, a, n)
  PROVE  \A kind \in TxKinds, b \in Assets :
           treasuryHistory'[kind][b] =
             treasuryHistory[kind][b] + (IF kind = k /\ b = a THEN n ELSE 0)
<1>1. \A kind \in TxKinds, b \in Assets : treasuryHistory[kind][b] \in Nat
  BY DEF TypeOK
<1>2. treasuryHistory \in [TxKinds -> [Assets -> Nat]]
  BY DEF TypeOK
<1>3. QED
  BY <1>1, <1>2 DEF RecordTreasuryTx

\* Steps that leave the treasury's books alone keep what they say.
LEMMA TreasuryUntouched ==
  TreasuryInv /\ UNCHANGED treasuryVars => TreasuryInv'
  BY DEF treasuryVars, TreasuryInv, BalanceIsCustody, HistoryExplainsReserved,
         ReservationsCovered

LEMMA FundingKeepsTreasury ==
  ASSUME TypeOK, TreasuryInv, FundingCircuit
  PROVE  TreasuryInv'
<1>1. PICK caller \in AdminIds, a \in Assets, n \in Amounts :
        DepositTreasury(caller, a, n) \/ WithdrawTreasury(caller, a, n)
  BY DEF FundingCircuit
<1>2. n \in Nat
  OBVIOUS
<1>3. BalanceIsCustody'
  BY <1>1, <1>2 DEF DepositTreasury, WithdrawTreasury, TypeOK, TreasuryInv,
                    BalanceIsCustody
<1>4. HistoryExplainsReserved'
  <2>1. \A k \in {"RESERVE", "RELEASE", "EXECUTE"}, b \in Assets :
          treasuryHistory'[k][b] = treasuryHistory[k][b]
    BY <1>1, <1>2, HistoryGrows
       DEF DepositTreasury, WithdrawTreasury, TxKinds, TypeOK
  <2>2. treasuryReserved' = treasuryReserved
    BY <1>1 DEF DepositTreasury, WithdrawTreasury
  <2>3. QED
    BY <2>1, <2>2 DEF TreasuryInv, HistoryExplainsReserved
<1>5. ReservationsCovered'
  BY <1>1, <1>2 DEF DepositTreasury, WithdrawTreasury, Available, TypeOK,
                    TreasuryInv, ReservationsCovered
<1>6. QED
  BY <1>3, <1>4, <1>5 DEF TreasuryInv

LEMMA ReserveKeepsTreasury ==
  ASSUME TypeOK, TreasuryInv, NEW caller \in AdminIds, NEW q \in QuoteIds,
         NEW t \in QuoteTerms, ReserveLiquidity(caller, q, t)
  PROVE  TreasuryInv'
<1>1. t.assetKey \in Assets /\ t.amount \in Nat
  BY DEF Terms
<1>2. BalanceIsCustody'
  BY DEF ReserveLiquidity, TreasuryInv, BalanceIsCustody
<1>3. HistoryExplainsReserved'
  <2>1. \A b \in Assets :
          /\ treasuryHistory'["RESERVE"][b] = treasuryHistory["RESERVE"][b]
               + (IF b = t.assetKey THEN t.amount ELSE 0)
          /\ treasuryHistory'["RELEASE"][b] = treasuryHistory["RELEASE"][b]
          /\ treasuryHistory'["EXECUTE"][b] = treasuryHistory["EXECUTE"][b]
    BY <1>1, HistoryGrows DEF ReserveLiquidity, TxKinds, TypeOK
  <2>2. \A b \in Assets : treasuryReserved'[b] = treasuryReserved[b]
               + (IF b = t.assetKey THEN t.amount ELSE 0)
    BY <1>1 DEF ReserveLiquidity, TypeOK
  <2>3. \A b \in Assets : /\ treasuryHistory["RESERVE"][b] \in Nat
                          /\ treasuryHistory["RELEASE"][b] \in Nat
                          /\ treasuryHistory["EXECUTE"][b] \in Nat
                          /\ treasuryReserved[b] \in Nat
    BY DEF TypeOK, TxKinds
  <2>4. QED
    BY <1>1, <2>1, <2>2, <2>3 DEF TreasuryInv, HistoryExplainsReserved
<1>4. ReservationsCovered'
  BY <1>1 DEF ReserveLiquidity, Available, TypeOK, TreasuryInv,
              ReservationsCovered
<1>5. QED
  BY <1>2, <1>3, <1>4 DEF TreasuryInv

LEMMA ReleaseKeepsTreasury ==
  ASSUME TypeOK, TreasuryInv, NEW q \in QuoteIds, Release(q)
  PROVE  TreasuryInv'
<1> DEFINE r == reservations[q].terms
<1>1. r.assetKey \in Assets /\ r.amount \in Nat
  BY DEF TypeOK, Terms
<1>2. BalanceIsCustody'
  BY DEF Release, TreasuryInv, BalanceIsCustody
<1>3. HistoryExplainsReserved'
  <2>1. \A b \in Assets :
          /\ treasuryHistory'["RESERVE"][b] = treasuryHistory["RESERVE"][b]
          /\ treasuryHistory'["RELEASE"][b] = treasuryHistory["RELEASE"][b]
               + (IF b = r.assetKey THEN r.amount ELSE 0)
          /\ treasuryHistory'["EXECUTE"][b] = treasuryHistory["EXECUTE"][b]
    BY <1>1, HistoryGrows DEF Release, TxKinds, TypeOK
  <2>2. \A b \in Assets : treasuryReserved'[b] = treasuryReserved[b]
               - (IF b = r.assetKey THEN r.amount ELSE 0)
    BY <1>1 DEF Release, TypeOK
  <2>3. \A b \in Assets : /\ treasuryHistory["RESERVE"][b] \in Nat
                          /\ treasuryHistory["RELEASE"][b] \in Nat
                          /\ treasuryHistory["EXECUTE"][b] \in Nat
                          /\ treasuryReserved[b] \in Nat
    BY DEF TypeOK, TxKinds
  <2> HIDE DEF r
  <2>4. QED
    BY <1>1, <2>1, <2>2, <2>3 DEF TreasuryInv, HistoryExplainsReserved
<1>4. ReservationsCovered'
  BY <1>1 DEF Release, TypeOK, TreasuryInv, ReservationsCovered
<1>5. QED
  BY <1>2, <1>3, <1>4 DEF TreasuryInv

LEMMA ProtocolFillKeepsTreasury ==
  ASSUME TypeOK, TreasuryInv, ProtocolCircuit
  PROVE  TreasuryInv'
<1>1. PICK caller \in Owners, id \in OrderIds, q \in QuoteIds :
        SettleWithProtocol(caller, id, q)
  BY DEF ProtocolCircuit
<1> DEFINE r == reservations[q].terms
           held(a) == IF a = r.assetKey THEN r.amount ELSE 0
<1>2. r.assetKey \in Assets /\ r.amount \in Nat
  BY DEF TypeOK, Terms
<1>3. /\ treasuryBalances' \in [Assets -> 0..MaxUint]
      /\ custody' \in [Assets -> Int]
      /\ treasuryReserved' \in [Assets -> Nat]
      /\ \A a \in Assets :
           /\ treasuryBalances'[a] - treasuryBalances[a] = custody'[a] - custody[a]
           /\ treasuryReserved'[a] = treasuryReserved[a] - held(a)
           /\ a # Night =>
                treasuryBalances'[a] >= treasuryBalances[a] - held(a)
  BY <1>1, ProtocolFillMovesMoney
<1>4. /\ \A a \in Assets : held(a) \in Nat
      /\ treasuryBalances \in [Assets -> 0..MaxUint]
      /\ custody \in [Assets -> Int] /\ treasuryReserved \in [Assets -> Nat]
  BY <1>2 DEF TypeOK
<1>5. \A b \in Assets :
        /\ treasuryHistory'["RESERVE"][b] = treasuryHistory["RESERVE"][b]
        /\ treasuryHistory'["RELEASE"][b] = treasuryHistory["RELEASE"][b]
        /\ treasuryHistory'["EXECUTE"][b] = treasuryHistory["EXECUTE"][b] + held(b)
  BY <1>1, <1>2, HistoryGrows DEF SettleWithProtocol, TxKinds, TypeOK
<1>6. \A b \in Assets : /\ treasuryHistory["RESERVE"][b] \in Nat
                        /\ treasuryHistory["RELEASE"][b] \in Nat
                        /\ treasuryHistory["EXECUTE"][b] \in Nat
  BY DEF TypeOK, TxKinds
<1> HIDE DEF held
<1>7. BalanceIsCustody'
  BY <1>3, <1>4 DEF TreasuryInv, BalanceIsCustody
<1>8. HistoryExplainsReserved'
  <2>1. ASSUME NEW b \in Assets
        PROVE  treasuryHistory'["RESERVE"][b] =
                 treasuryHistory'["RELEASE"][b] + treasuryHistory'["EXECUTE"][b]
                   + treasuryReserved'[b]
    <3>1. treasuryHistory["RESERVE"][b] =
            treasuryHistory["RELEASE"][b] + treasuryHistory["EXECUTE"][b]
              + treasuryReserved[b]
      BY DEF TreasuryInv, HistoryExplainsReserved
    <3>2. treasuryReserved[b] \in Nat /\ held(b) \in Nat
      BY <1>4
    <3>3. treasuryReserved'[b] = treasuryReserved[b] - held(b)
      BY <1>3
    <3>4. QED
      BY <1>5, <1>6, <3>1, <3>2, <3>3
  <2>2. QED
    BY <2>1 DEF HistoryExplainsReserved
<1>9. ReservationsCovered'
  BY <1>3, <1>4 DEF TreasuryInv, ReservationsCovered
<1>10. QED
  BY <1>7, <1>8, <1>9 DEF TreasuryInv

LEMMA TreasuryInvariant == Spec => []TreasuryInv
<1>1. Init => TreasuryInv
  BY DEF Init, TreasuryInv, BalanceIsCustody, HistoryExplainsReserved,
         ReservationsCovered, TxKinds
<1>2. TypeOK /\ TreasuryInv /\ [Next]_vars => TreasuryInv'
  <2> SUFFICES ASSUME TypeOK, TreasuryInv, [Next]_vars PROVE TreasuryInv'
    OBVIOUS
  <2>1. CASE OrderCircuit \/ AdminCircuit \/ Tick \/ UNCHANGED vars
    <3>1. UNCHANGED treasuryVars
      BY <2>1 DEF OrderCircuit, CreateOrder, CancelOrder, ExpireOrder, Settle,
                  AdminCircuit, AddAdmin, RemoveAdmin, Tick, vars
    <3>2. QED
      BY <3>1, TreasuryUntouched
  <2>2. CASE FundingCircuit
    BY <2>2, FundingKeepsTreasury
  <2>3. CASE ReservationCircuit
    BY <2>3, ReserveKeepsTreasury, ReleaseKeepsTreasury
       DEF ReservationCircuit, ReleaseLiquidity, ReleaseExpiredLiquidity
  <2>4. CASE ProtocolCircuit
    BY <2>4, ProtocolFillKeepsTreasury
  <2>5. QED
    BY <2>1, <2>2, <2>3, <2>4 DEF Next
<1>3. QED
  BY <1>1, <1>2, TypeCorrect, PTL DEF Spec

\* Whatever is deposited, withdrawn, reserved, released and filled, in any
\* order: the book balance of every asset is the coins really held.
THEOREM BalancesAreBacked == Spec => []BalanceIsCustody
<1>1. TreasuryInv => BalanceIsCustody
  BY DEF TreasuryInv
<1>2. QED
  BY <1>1, TreasuryInvariant, PTL

\* The audit log always explains the reserved amounts.
THEOREM HistoryIsFaithful == Spec => []HistoryExplainsReserved
<1>1. TreasuryInv => HistoryExplainsReserved
  BY DEF TreasuryInv
<1>2. QED
  BY <1>1, TreasuryInvariant, PTL

\* Open reservations of every asset but NIGHT are always covered.
THEOREM NonNightSolvent == Spec => []ReservationsCovered
<1>1. TreasuryInv => ReservationsCovered
  BY DEF TreasuryInv
<1>2. QED
  BY <1>1, TreasuryInvariant, PTL

-----------------------------------------------------------------------------
(* The order registry: what the event log and the settled pairs say, and    *)
(* that the contract implements ChainOrders.                               *)

\* What each step does to the order registry; nothing else writes it.
RegistryStep ==
  \/ \E id \in OrderIds, c \in Commitments : CreateOrder(id, c)
  \/ \E id \in OrderIds, caller \in Owners : CancelOrder(caller, id)
  \/ \E id \in OrderIds : ExpireOrder(id)
  \/ \E b, s \in OrderIds : Settle(b, s)
  \/ \E caller \in Owners, id \in OrderIds, q \in QuoteIds :
       SettleWithProtocol(caller, id, q)
  \/ UNCHANGED orderVars

LEMMA OnlyRegistrySteps == [Next]_vars => RegistryStep
  BY DEF Next, vars, RegistryStep, OrderCircuit, ProtocolCircuit, AdminCircuit,
         AddAdmin, RemoveAdmin, FundingCircuit, DepositTreasury,
         WithdrawTreasury, ReservationCircuit, ReserveLiquidity,
         ReleaseLiquidity, ReleaseExpiredLiquidity, Release, Tick

-----------------------------------------------------------------------------
LEMMA EventLogStep ==
  ASSUME TypeOK, EventLogTellsOrders, RegistryStep
  PROVE  EventLogTellsOrders'
<1> USE DEF TypeOK, EventLogTellsOrders, RecordEvents, IsOpen, OrderStates
<1>1. ASSUME NEW id \in OrderIds, NEW c \in Commitments, CreateOrder(id, c)
      PROVE  EventLogTellsOrders'
  BY <1>1 DEF CreateOrder
<1>2. ASSUME NEW id \in OrderIds, NEW caller \in Owners, CancelOrder(caller, id)
      PROVE  EventLogTellsOrders'
  BY <1>2 DEF CancelOrder
<1>3. ASSUME NEW id \in OrderIds, ExpireOrder(id)
      PROVE  EventLogTellsOrders'
  BY <1>3 DEF ExpireOrder
<1>4. ASSUME NEW b \in OrderIds, NEW s \in OrderIds, Settle(b, s)
      PROVE  EventLogTellsOrders'
  <2>1. \A o \in OrderIds :
          orders'[o].state = IF o \in {b, s} THEN "FILLED" ELSE orders[o].state
    BY <1>4 DEF Settle
  <2>2. orders[b].state = "OPEN" /\ orders[s].state = "OPEN"
    BY <1>4 DEF Settle
  <2>3. eventLog' = eventLog \cup {<<"FILLED", b>>, <<"FILLED", s>>}
    BY <1>4 DEF Settle
  <2>4. QED
    BY <2>1, <2>2, <2>3
<1>5. ASSUME NEW caller \in Owners, NEW id \in OrderIds, NEW q \in QuoteIds,
             SettleWithProtocol(caller, id, q)
      PROVE  EventLogTellsOrders'
  <2>1. \A o \in OrderIds :
          orders'[o].state = IF o = id THEN "FILLED" ELSE orders[o].state
    BY <1>5 DEF SettleWithProtocol
  <2>2. orders[id].state = "OPEN" /\ eventLog' = eventLog \cup {<<"FILLED", id>>}
    BY <1>5 DEF SettleWithProtocol
  <2>3. QED
    BY <2>1, <2>2
<1>6. CASE UNCHANGED orderVars
  BY <1>6 DEF orderVars
<1>7. QED
  BY <1>1, <1>2, <1>3, <1>4, <1>5, <1>6 DEF RegistryStep

\* For every order, the event log and the registry tell the same story.
THEOREM EventLogIsFaithful == Spec => []EventLogTellsOrders
<1>1. Init => EventLogTellsOrders
  BY DEF Init, EventLogTellsOrders
<1>2. TypeOK /\ EventLogTellsOrders /\ [Next]_vars => EventLogTellsOrders'
  BY OnlyRegistrySteps, EventLogStep
<1>3. QED
  BY <1>1, <1>2, TypeCorrect, PTL DEF Spec

-----------------------------------------------------------------------------
LEMMA SettledPairsStep ==
  ASSUME TypeOK, SettledPairsSound, RegistryStep
  PROVE  SettledPairsSound'
<1> USE DEF Details, FilledOrders
\* A step that settles no pair and touches no filled order keeps the pairs.
<1>1. ASSUME settledPairs' = settledPairs,
             \A o \in FilledOrders : orders'[o] = orders[o]
      PROVE  SettledPairsSound'
  BY <1>1 DEF SettledPairsSound, TypeOK
<1>2. ASSUME NEW id \in OrderIds, NEW c \in Commitments, CreateOrder(id, c)
      PROVE  SettledPairsSound'
  BY <1>1, <1>2 DEF CreateOrder, TypeOK
<1>3. ASSUME NEW id \in OrderIds, NEW caller \in Owners, CancelOrder(caller, id)
      PROVE  SettledPairsSound'
  BY <1>1, <1>3 DEF CancelOrder, IsOpen, TypeOK
<1>4. ASSUME NEW id \in OrderIds, ExpireOrder(id)
      PROVE  SettledPairsSound'
  BY <1>1, <1>4 DEF ExpireOrder, IsOpen, TypeOK
<1>5. ASSUME NEW caller \in Owners, NEW id \in OrderIds, NEW q \in QuoteIds,
             SettleWithProtocol(caller, id, q)
      PROVE  SettledPairsSound'
  BY <1>1, <1>5 DEF SettleWithProtocol, IsOpen, TypeOK
<1>6. ASSUME NEW b \in OrderIds, NEW s \in OrderIds, Settle(b, s)
      PROVE  SettledPairsSound'
  <2>1. /\ b # s /\ orders[b].state = "OPEN" /\ orders[s].state = "OPEN"
        /\ settledPairs' = settledPairs \cup {<<b, s>>}
        /\ Crosses(Details(b), Details(s))
    BY <1>6 DEF Settle, IsOpen
  <2>2. \A o \in OrderIds :
          /\ orders'[o].commitment = orders[o].commitment
          /\ orders'[o].state = IF o \in {b, s} THEN "FILLED" ELSE orders[o].state
    BY <1>6 DEF Settle, TypeOK
  <2>3. \A p \in settledPairs :
          /\ p[1] \in OrderIds /\ p[2] \in OrderIds
          /\ orders[p[1]].state = "FILLED" /\ orders[p[2]].state = "FILLED"
          /\ p[1] # p[2] /\ Crosses(Details(p[1]), Details(p[2]))
    BY DEF SettledPairsSound, TypeOK
  <2>4. \A p \in settledPairs : {p[1], p[2]} \cap {b, s} = {}
    BY <2>1, <2>3
  <2>5. \A p \in settledPairs' :
          /\ p[1] # p[2] /\ {p[1], p[2]} \subseteq FilledOrders'
          /\ Crosses(orders'[p[1]].commitment, orders'[p[2]].commitment)
    BY <2>1, <2>2, <2>3
  <2>6. \A p1, p2 \in settledPairs' :
          {p1[1], p1[2]} \cap {p2[1], p2[2]} # {} => p1 = p2
    BY <2>1, <2>4 DEF SettledPairsSound
  <2>7. QED
    BY <2>5, <2>6 DEF SettledPairsSound, Crosses
<1>7. CASE UNCHANGED orderVars
  BY <1>1, <1>7 DEF orderVars
<1>8. QED
  BY <1>2, <1>3, <1>4, <1>5, <1>6, <1>7 DEF RegistryStep

\* Settled pairs are always two filled, crossing orders, and no order is ever
\* in two of them.
THEOREM SettledPairsAreSound == Spec => []SettledPairsSound
<1>1. Init => SettledPairsSound
  BY DEF Init, SettledPairsSound
<1>2. TypeOK /\ SettledPairsSound /\ [Next]_vars => SettledPairsSound'
  BY OnlyRegistrySteps, SettledPairsStep
<1>3. QED
  BY <1>1, <1>2, TypeCorrect, PTL DEF Spec

-----------------------------------------------------------------------------
(* The contract implements ChainOrders *)

States == [id \in OrderIds |-> orders[id].state]
QuoteStates == [q \in QuoteIds |-> reservations[q].state]

ChainStep == [Chain!ChainNext]_(Chain!chainVars)

\* What the type invariant says of the registry's rows.
LEMMA OrdersAreRecords ==
  ASSUME TypeOK
  PROVE  /\ DOMAIN orders = OrderIds
         /\ \A id \in OrderIds :
              /\ orders[id] = [commitment |-> orders[id].commitment,
                              state |-> orders[id].state]
              /\ DOMAIN orders[id] = {"commitment", "state"}
BY DEF TypeOK

\* The registry's states when one of its orders changes.
LEMMA StateSet ==
  ASSUME NEW id \in OrderIds, NEW state,
         \A x \in OrderIds :
           orders'[x].state = IF x = id THEN state ELSE orders[x].state
  PROVE  States' = [States EXCEPT ![id] = state]
BY DEF States

\* The same when two of them are filled at once.
LEMMA FilledTwice ==
  ASSUME NEW b \in OrderIds, NEW s \in OrderIds,
         \A id \in OrderIds :
           orders'[id].state =
             IF id = b \/ id = s THEN "FILLED" ELSE orders[id].state
  PROVE  States' = [States EXCEPT ![b] = "FILLED", ![s] = "FILLED"]
BY DEF States

LEMMA OrderCircuitImplements ==
  ASSUME TypeOK, OrderCircuit
  PROVE  ChainStep
<1> USE DEF ChainStep, Chain!ChainNext, Chain!chainVars
<1>0. ASSUME UNCHANGED treasuryVars PROVE QuoteStates' = QuoteStates
  BY <1>0 DEF treasuryVars, QuoteStates
<1>1. ASSUME NEW id \in OrderIds, NEW c \in Commitments, CreateOrder(id, c)
      PROVE  ChainStep
  <2>1. /\ orders[id].state = "NONE" /\ settledPairs' = settledPairs
        /\ QuoteStates' = QuoteStates
        /\ States' = [States EXCEPT ![id] = "OPEN"]
    BY <1>0, <1>1 DEF CreateOrder, States, TypeOK
  <2>2. Chain!ChainCreate(id)
    BY <2>1 DEF Chain!ChainCreate, States, QuoteStates
  <2>3. QED
    BY <2>2
<1>2. ASSUME NEW id \in OrderIds, NEW state \in {"CANCELLED", "EXPIRED"},
             IsOpen(id), orders' = [orders EXCEPT ![id].state = state],
             settledPairs' = settledPairs, UNCHANGED treasuryVars
      PROVE  ChainStep
  <2>1. orders[id].state = "OPEN" /\ QuoteStates' = QuoteStates
    BY <1>0, <1>2 DEF IsOpen
  <2>2. \A x \in OrderIds :
          orders'[x].state = IF x = id THEN state ELSE orders[x].state
    BY <1>2, OrdersAreRecords
  <2>3. States' = [States EXCEPT ![id] = state]
    BY <2>2, StateSet
  <2>4. Chain!ChainClose(id, state)
    BY <1>2, <2>1, <2>3 DEF Chain!ChainClose, States, QuoteStates
  <2>5. QED
    BY <2>4
<1>3. ASSUME NEW b \in OrderIds, NEW s \in OrderIds, Settle(b, s)
      PROVE  ChainStep
  <2>1. /\ b # s /\ orders[b].state = "OPEN" /\ orders[s].state = "OPEN"
        /\ settledPairs' = settledPairs \cup {<<b, s>>}
        /\ QuoteStates' = QuoteStates
    BY <1>0, <1>3 DEF Settle, IsOpen
  <2>2. States' = [States EXCEPT ![b] = "FILLED", ![s] = "FILLED"]
    <3>1. orders' = [orders EXCEPT ![b].state = "FILLED",
                                   ![s].state = "FILLED"]
      BY <1>3 DEF Settle
    <3>2. \A id \in OrderIds :
            orders'[id].state =
              IF id = b \/ id = s THEN "FILLED" ELSE orders[id].state
      BY <2>1, <3>1, OrdersAreRecords
    <3> QED BY <3>2, FilledTwice
  <2>3. Chain!ChainSettle(b, s)
    BY <2>1, <2>2 DEF Chain!ChainSettle, States, QuoteStates
  <2>4. QED
    BY <2>3
<1>4. QED
  BY <1>1, <1>2, <1>3 DEF OrderCircuit, CancelOrder, ExpireOrder

LEMMA ReservationCircuitImplements ==
  ASSUME TypeOK, ReservationCircuit
  PROVE  ChainStep
<1> USE DEF ChainStep, Chain!ChainNext, Chain!chainVars
<1>1. ASSUME NEW caller \in AdminIds, NEW q \in QuoteIds, NEW t \in QuoteTerms,
             ReserveLiquidity(caller, q, t)
      PROVE  ChainStep
  <2>1. /\ reservations[q].state = "NONE" /\ UNCHANGED <<orders, settledPairs>>
        /\ QuoteStates' = [QuoteStates EXCEPT ![q] = "OPEN"]
    BY <1>1 DEF ReserveLiquidity, QuoteStates, TypeOK, orderVars
  <2>2. Chain!ChainReserve(q)
    BY <2>1 DEF Chain!ChainReserve, QuoteStates
  <2>3. QED
    BY <2>2
<1>2. ASSUME NEW q \in QuoteIds, Release(q)
      PROVE  ChainStep
  <2>1. /\ reservations[q].state = "OPEN" /\ UNCHANGED <<orders, settledPairs>>
        /\ QuoteStates' = [QuoteStates EXCEPT ![q] = "RELEASED"]
    BY <1>2 DEF Release, IsHeld, QuoteStates, TypeOK, orderVars
  <2>2. Chain!ChainRelease(q)
    BY <2>1 DEF Chain!ChainRelease, QuoteStates
  <2>3. QED
    BY <2>2
<1>3. QED
  BY <1>1, <1>2 DEF ReservationCircuit, ReleaseLiquidity, ReleaseExpiredLiquidity

LEMMA ProtocolCircuitImplements ==
  ASSUME TypeOK, ProtocolCircuit
  PROVE  ChainStep
<1>1. PICK caller \in Owners, id \in OrderIds, q \in QuoteIds :
        SettleWithProtocol(caller, id, q)
  BY DEF ProtocolCircuit
<1>2. /\ orders[id].state = "OPEN" /\ reservations[q].state = "OPEN"
      /\ settledPairs' = settledPairs
  BY <1>1 DEF SettleWithProtocol, IsOpen, IsHeld
<1>3. States' = [States EXCEPT ![id] = "FILLED"]
  <2>1. orders' = [orders EXCEPT ![id].state = "FILLED"]
    BY <1>1 DEF SettleWithProtocol
  <2>2. \A x \in OrderIds :
          orders'[x].state = IF x = id THEN "FILLED" ELSE orders[x].state
    BY <2>1, OrdersAreRecords
  <2> QED BY <2>2, StateSet
<1>4. QuoteStates' = [QuoteStates EXCEPT ![q] = "EXECUTED"]
  BY <1>1 DEF SettleWithProtocol, QuoteStates, TypeOK
<1>5. Chain!ChainSettleWithProtocol(id, q)
  BY <1>2, <1>3, <1>4 DEF Chain!ChainSettleWithProtocol, States, QuoteStates
<1>6. QED
  BY <1>5 DEF ChainStep, Chain!ChainNext

\* Every step of the contract is a step of ChainOrders or leaves it alone: an
\* order leaves OPEN once, and a fill takes both of its sides at once.
THEOREM ExchangeImplementsChainOrders == Spec => ImplementsChainOrders
<1>1. Init => Chain!ChainInit
  BY DEF Init, Chain!ChainInit
<1>2. TypeOK /\ [Next]_vars => ChainStep
  <2> SUFFICES ASSUME TypeOK, [Next]_vars PROVE ChainStep
    OBVIOUS
  <2>1. CASE AdminCircuit \/ FundingCircuit \/ Tick \/ UNCHANGED vars
    <3>1. UNCHANGED <<orders, settledPairs, reservations>>
      BY <2>1 DEF AdminCircuit, AddAdmin, RemoveAdmin, FundingCircuit,
                  DepositTreasury, WithdrawTreasury, Tick, vars, orderVars,
                  treasuryVars
    <3>2. QED
      BY <3>1 DEF ChainStep, Chain!chainVars
  <2>2. QED
    BY <2>1, OrderCircuitImplements, ReservationCircuitImplements,
       ProtocolCircuitImplements DEF Next
<1>3. QED
  BY <1>1, <1>2, TypeCorrect, PTL
     DEF Spec, ChainStep, ImplementsChainOrders, Chain!ChainSpec

-----------------------------------------------------------------------------
(* What is reserved *)

\* Reserved amounts are those of the open reservations, which are finitely
\* many.
ReservedInv ==
  /\ \A a \in Assets : IsFiniteSet(OpenReservations(a))
  /\ \A a \in Assets :
       treasuryReserved[a] = Total(reservations, OpenReservations(a))

LEMMA ReservedIsTotal ==
  ReservedIsSumOfOpen <=>
    \A a \in Assets :
      treasuryReserved[a] = Total(reservations, OpenReservations(a))
BY DEF ReservedIsSumOfOpen, Total, MapThenSumSet, MapThenFoldSet

LEMMA OpenIsFinite ==
  ASSUME ReservedInv, NEW a \in Assets
  PROVE  OpenReservations(a) \in FiniteSubsetsOf(QuoteIds)
BY DEF ReservedInv, OpenReservations, FiniteSubsetsOf

\* Amounts are numbers in every state of the right type.
LEMMA AmountsAreNat ==
  ASSUME TypeOK
  PROVE  \A q \in QuoteIds : Amount(reservations, q) \in Nat
<1>1. \A q \in QuoteIds : reservations[q].terms \in Terms
  BY DEF TypeOK
<1>2. \A r \in Terms : r.amount \in Nat
  BY DEF Terms
<1> QED BY <1>1, <1>2 DEF Amount

\* A reservation opens.
LEMMA ReserveAddsUp ==
  ASSUME TypeOK, TypeOK', ReservedInv, NEW q \in QuoteIds, NEW terms \in Terms,
         reservations[q].state = "NONE",
         reservations' = [reservations EXCEPT ![q] = [terms |-> terms,
                                                      state |-> "OPEN"]],
         treasuryReserved' = [treasuryReserved EXCEPT ![terms.assetKey] =
                                @ + terms.amount]
  PROVE  ReservedInv'
<1> SUFFICES ASSUME NEW a \in Assets
             PROVE  /\ IsFiniteSet(OpenReservations(a)')
                    /\ treasuryReserved'[a] =
                         Total(reservations', OpenReservations(a)')
  BY DEF ReservedInv
<1> DEFINE S == OpenReservations(a)
<1>1. S \in FiniteSubsetsOf(QuoteIds) /\ IsFiniteSet(S) /\ q \notin S
  BY OpenIsFinite DEF OpenReservations, FiniteSubsetsOf
<1>2. treasuryReserved[a] = Total(reservations, S)
  BY DEF ReservedInv
<1>3. /\ reservations'[q] = [terms |-> terms, state |-> "OPEN"]
      /\ \A x \in QuoteIds : x # q => reservations'[x] = reservations[x]
  BY DEF TypeOK
<1>4. \A x \in S : Amount(reservations, x) = Amount(reservations', x)
  BY <1>1, <1>3 DEF Amount, FiniteSubsetsOf
<1>5. Total(reservations, S) = Total(reservations', S)
  BY <1>1, <1>4, TotalAgrees
<1>6. CASE a = terms.assetKey
  <2>1. S' = S \cup {q}
    BY <1>3, <1>6 DEF OpenReservations
  <2>2. Amount(reservations', q) = terms.amount
    BY <1>3 DEF Amount
  <2>3. \A x \in QuoteIds : Amount(reservations', x) \in Nat
    <3>1. \A x \in QuoteIds : reservations'[x].terms \in Terms
      BY DEF TypeOK
    <3>2. \A r \in Terms : r.amount \in Nat
      BY DEF Terms
    <3> QED BY <3>1, <3>2 DEF Amount
  <2> HIDE DEF S
  <2>4. Total(reservations', S \cup {q}) =
          Total(reservations', S) + Amount(reservations', q)
    BY <1>1, <2>3, TotalWith
  <2>5. treasuryReserved'[a] = treasuryReserved[a] + terms.amount
    BY <1>6 DEF TypeOK
  <2>6. IsFiniteSet(S')
    BY <1>1, <2>1, FS_AddElement
  <2> QED BY <1>2, <1>5, <2>1, <2>2, <2>4, <2>5, <2>6 DEF S
<1>7. CASE a # terms.assetKey
  <2>1. S' = S
    BY <1>3, <1>7 DEF OpenReservations
  <2>2. treasuryReserved'[a] = treasuryReserved[a]
    BY <1>7 DEF TypeOK
  <2> HIDE DEF S
  <2> QED BY <1>1, <1>2, <1>5, <2>1, <2>2 DEF S
<1> QED BY <1>6, <1>7

\* A reservation closes, released or executed.
LEMMA CloseAddsUp ==
  ASSUME TypeOK, ReservedInv, NEW q \in QuoteIds,
         NEW state \in {"RELEASED", "EXECUTED"},
         reservations[q].state = "OPEN",
         reservations' = [reservations EXCEPT ![q].state = state],
         treasuryReserved' =
           [treasuryReserved EXCEPT ![reservations[q].terms.assetKey] =
              @ - reservations[q].terms.amount]
  PROVE  ReservedInv'
<1> SUFFICES ASSUME NEW a \in Assets
             PROVE  /\ IsFiniteSet(OpenReservations(a)')
                    /\ treasuryReserved'[a] =
                         Total(reservations', OpenReservations(a)')
  BY DEF ReservedInv
<1> DEFINE S == OpenReservations(a)
           T == S \ {q}
<1>1. S \in FiniteSubsetsOf(QuoteIds) /\ IsFiniteSet(S)
  BY OpenIsFinite DEF FiniteSubsetsOf
<1>2. treasuryReserved[a] = Total(reservations, S)
  BY DEF ReservedInv
<1>3. /\ reservations'[q].state = state
      /\ reservations'[q].terms = reservations[q].terms
      /\ \A x \in QuoteIds : x # q => reservations'[x] = reservations[x]
  BY DEF TypeOK
<1>4. \A x \in QuoteIds : Amount(reservations, x) = Amount(reservations', x)
  BY <1>3 DEF Amount
<1>5. T \in FiniteSubsetsOf(QuoteIds) /\ IsFiniteSet(T)
  BY <1>1, FS_RemoveElement DEF FiniteSubsetsOf
<1>6. Total(reservations, T) = Total(reservations', T)
  <2>1. \A x \in T : Amount(reservations, x) = Amount(reservations', x)
    BY <1>4, <1>5 DEF FiniteSubsetsOf
  <2> HIDE DEF T
  <2> QED BY <1>5, <2>1, TotalAgrees
<1>7. S' = T
  BY <1>3 DEF OpenReservations
<1>8. CASE a = reservations[q].terms.assetKey
  <2>1. q \in S
    BY <1>8 DEF OpenReservations
  <2>2. S = T \cup {q} /\ q \in QuoteIds \ T
    BY <2>1
  <2>3. treasuryReserved'[a] = treasuryReserved[a] - reservations[q].terms.amount
    BY <1>8 DEF TypeOK
  <2> HIDE DEF S, T
  <2>4. Total(reservations, T \cup {q}) =
          Total(reservations, T) + Amount(reservations, q)
    BY <1>5, <2>2, AmountsAreNat, TotalWith
  <2>5. Total(reservations, T) \in Nat /\ Amount(reservations, q) \in Nat
    BY <1>5, AmountsAreNat, TotalIsNat
  <2>6. reservations[q].terms.amount = Amount(reservations, q)
    BY DEF Amount
  <2>7. Total(reservations, S) = Total(reservations, T) + Amount(reservations, q)
    BY <2>2, <2>4
  <2>8. treasuryReserved'[a] = Total(reservations, T)
    BY <1>2, <2>3, <2>5, <2>6, <2>7
  <2> QED BY <1>5, <1>6, <1>7, <2>8 DEF S
<1>9. CASE a # reservations[q].terms.assetKey
  <2>1. T = S
    BY <1>9 DEF OpenReservations
  <2>2. treasuryReserved'[a] = treasuryReserved[a]
    BY <1>9 DEF TypeOK
  <2> HIDE DEF T, S
  <2> QED BY <1>2, <1>5, <1>6, <1>7, <2>1, <2>2 DEF S
<1> QED BY <1>8, <1>9

LEMMA InitReservedInv == Init => ReservedInv
<1> SUFFICES ASSUME Init, NEW a \in Assets
             PROVE  /\ IsFiniteSet(OpenReservations(a))
                    /\ treasuryReserved[a] = Total(reservations, OpenReservations(a))
  BY DEF ReservedInv
<1>1. OpenReservations(a) = {}
  BY DEF Init, OpenReservations
<1>2. IsFiniteSet({}) /\ {} \in FiniteSubsetsOf(QuoteIds)
  BY FS_EmptySet DEF FiniteSubsetsOf
<1>3. Total(reservations, {}) = 0
  BY <1>2, TotalUnfolds DEF Unfolds
<1>4. treasuryReserved[a] = 0
  BY DEF Init
<1> QED BY <1>1, <1>2, <1>3, <1>4

LEMMA ReleaseAddsUp ==
  ASSUME TypeOK, ReservedInv, NEW q \in QuoteIds, Release(q)
  PROVE  ReservedInv'
<1>1. /\ reservations[q].state = "OPEN"
      /\ reservations' = [reservations EXCEPT ![q].state = "RELEASED"]
      /\ treasuryReserved' =
           [treasuryReserved EXCEPT ![reservations[q].terms.assetKey] =
              @ - reservations[q].terms.amount]
  BY DEF Release, IsHeld
<1> QED BY <1>1, CloseAddsUp

LEMMA ExecuteAddsUp ==
  ASSUME TypeOK, ReservedInv, ProtocolCircuit
  PROVE  ReservedInv'
<1>1. PICK caller \in Owners, id \in OrderIds, q \in QuoteIds :
        SettleWithProtocol(caller, id, q)
  BY DEF ProtocolCircuit
<1>2. /\ reservations[q].state = "OPEN"
      /\ reservations' = [reservations EXCEPT ![q].state = "EXECUTED"]
      /\ treasuryReserved' =
           [treasuryReserved EXCEPT ![reservations[q].terms.assetKey] =
              @ - reservations[q].terms.amount]
  BY <1>1 DEF SettleWithProtocol, IsHeld
<1> QED BY <1>2, CloseAddsUp

LEMMA ReservationCircuitAddsUp ==
  ASSUME TypeOK, TypeOK', ReservedInv, ReservationCircuit
  PROVE  ReservedInv'
<1>1. PICK q \in QuoteIds :
        \/ \E caller \in AdminIds, terms \in QuoteTerms :
             ReserveLiquidity(caller, q, terms)
        \/ \E caller \in AdminIds : ReleaseLiquidity(caller, q)
        \/ ReleaseExpiredLiquidity(q)
  BY DEF ReservationCircuit
<1>2. ASSUME NEW caller \in AdminIds, NEW terms \in QuoteTerms,
             ReserveLiquidity(caller, q, terms)
      PROVE  ReservedInv'
  <2>1. terms \in Terms
    OBVIOUS
  <2>2. /\ reservations[q].state = "NONE"
        /\ reservations' = [reservations EXCEPT ![q] = [terms |-> terms,
                                                        state |-> "OPEN"]]
        /\ treasuryReserved' = [treasuryReserved EXCEPT ![terms.assetKey] =
                                  @ + terms.amount]
    BY <1>2 DEF ReserveLiquidity
  <2> QED BY <2>1, <2>2, ReserveAddsUp
<1>3. Release(q) => ReservedInv'
  BY ReleaseAddsUp
<1> QED BY <1>1, <1>2, <1>3 DEF ReleaseLiquidity, ReleaseExpiredLiquidity

LEMMA OthersKeepReserved ==
  ASSUME ReservedInv,
         OrderCircuit \/ AdminCircuit \/ FundingCircuit \/ Tick
           \/ UNCHANGED vars
  PROVE  ReservedInv'
<1>1. UNCHANGED <<treasuryReserved, reservations>>
  <2>1. CASE OrderCircuit
    BY <2>1 DEF OrderCircuit, CreateOrder, CancelOrder, ExpireOrder, Settle,
                treasuryVars
  <2>2. CASE AdminCircuit
    BY <2>2 DEF AdminCircuit, AddAdmin, RemoveAdmin, treasuryVars
  <2>3. CASE FundingCircuit
    BY <2>3 DEF FundingCircuit, DepositTreasury, WithdrawTreasury
  <2>4. CASE Tick \/ UNCHANGED vars
    BY <2>4 DEF Tick, vars, treasuryVars
  <2> QED BY <2>1, <2>2, <2>3, <2>4
<1>2. \A a \in Assets : OpenReservations(a)' = OpenReservations(a)
  BY <1>1 DEF OpenReservations
<1> QED BY <1>1, <1>2 DEF ReservedInv

\* treasuryReserved is, in every reachable state and for any number of quotes,
\* the sum of the amounts of the open reservations: nothing stays reserved for
\* a reservation that was released or executed, and nothing is released twice.
THEOREM ReservedIsWhatIsOpen == Spec => []ReservedIsSumOfOpen
<1>1. TypeOK /\ TypeOK' /\ ReservedInv /\ [Next]_vars => ReservedInv'
  BY ReservationCircuitAddsUp, ExecuteAddsUp, OthersKeepReserved DEF Next
<1>2. ReservedInv => ReservedIsSumOfOpen
  BY ReservedIsTotal DEF ReservedInv
<1> QED BY <1>1, <1>2, InitReservedInv, TypeCorrect, PTL DEF Spec

-----------------------------------------------------------------------------
(* Fills and their counterparties, counted *)

\* What is counted is finite.
CountInv ==
  /\ IsFiniteSet(FilledOrders)
  /\ IsFiniteSet(settledPairs)
  /\ IsFiniteSet(ExecutedQuotes)
  /\ EveryFillHasACounterparty

\* An element more counts one more.
LEMMA OneMore ==
  ASSUME NEW S, NEW x, IsFiniteSet(S), x \notin S
  PROVE  /\ IsFiniteSet(S \cup {x})
         /\ Cardinality(S \cup {x}) = Cardinality(S) + 1
         /\ Cardinality(S) \in Nat
BY FS_AddElement, FS_CardinalityType

LEMMA InitCountInv == Init => CountInv
<1> SUFFICES ASSUME Init PROVE CountInv
  OBVIOUS
<1>1. FilledOrders = {} /\ settledPairs = {} /\ ExecutedQuotes = {}
  BY DEF Init, FilledOrders, ExecutedQuotes
<1>2. IsFiniteSet({}) /\ Cardinality({}) = 0
  BY FS_EmptySet
<1>3. 0 = 2 * 0 + 0
  OBVIOUS
<1> QED BY <1>1, <1>2, <1>3 DEF CountInv, EveryFillHasACounterparty

\* settle fills two orders and adds one pair.
LEMMA SettleCounts ==
  ASSUME TypeOK, CountInv, NEW buyId \in OrderIds, NEW sellId \in OrderIds,
         Settle(buyId, sellId)
  PROVE  CountInv'
<1>1. /\ buyId # sellId
      /\ orders[buyId].state = "OPEN" /\ orders[sellId].state = "OPEN"
      /\ <<buyId, sellId>> \notin settledPairs
      /\ settledPairs' = settledPairs \cup {<<buyId, sellId>>}
      /\ orders' = [orders EXCEPT ![buyId].state = "FILLED",
                                  ![sellId].state = "FILLED"]
      /\ reservations' = reservations
  BY DEF Settle, IsOpen, treasuryVars
<1>2. FilledOrders' = (FilledOrders \cup {buyId}) \cup {sellId}
  BY <1>1 DEF FilledOrders, TypeOK
<1>3. buyId \notin FilledOrders /\ sellId \notin FilledOrders \cup {buyId}
  BY <1>1 DEF FilledOrders
<1>4. /\ IsFiniteSet(FilledOrders \cup {buyId})
      /\ Cardinality(FilledOrders \cup {buyId}) = Cardinality(FilledOrders) + 1
      /\ Cardinality(FilledOrders) \in Nat
  BY <1>3, OneMore DEF CountInv
<1>5. /\ IsFiniteSet(FilledOrders')
      /\ Cardinality(FilledOrders') = Cardinality(FilledOrders \cup {buyId}) + 1
  BY <1>2, <1>3, <1>4, OneMore
<1>6. /\ IsFiniteSet(settledPairs')
      /\ Cardinality(settledPairs') = Cardinality(settledPairs) + 1
      /\ Cardinality(settledPairs) \in Nat
  BY <1>1, OneMore DEF CountInv
<1>7. ExecutedQuotes' = ExecutedQuotes
  BY <1>1 DEF ExecutedQuotes
<1>8. Cardinality(ExecutedQuotes) \in Nat
  BY FS_CardinalityType DEF CountInv
<1>9. EveryFillHasACounterparty'
  BY <1>4, <1>5, <1>6, <1>7, <1>8 DEF CountInv, EveryFillHasACounterparty
<1> QED BY <1>5, <1>6, <1>7, <1>9 DEF CountInv

\* settleWithProtocol fills one order and executes one reservation.
LEMMA ProtocolCounts ==
  ASSUME TypeOK, CountInv, ProtocolCircuit
  PROVE  CountInv'
<1>1. PICK caller \in Owners, id \in OrderIds, q \in QuoteIds :
        SettleWithProtocol(caller, id, q)
  BY DEF ProtocolCircuit
<1>2. /\ orders[id].state = "OPEN" /\ reservations[q].state = "OPEN"
      /\ orders' = [orders EXCEPT ![id].state = "FILLED"]
      /\ reservations' = [reservations EXCEPT ![q].state = "EXECUTED"]
      /\ settledPairs' = settledPairs
  BY <1>1 DEF SettleWithProtocol, IsOpen, IsHeld
<1>3. FilledOrders' = FilledOrders \cup {id} /\ id \notin FilledOrders
  BY <1>2 DEF FilledOrders, TypeOK
<1>4. ExecutedQuotes' = ExecutedQuotes \cup {q} /\ q \notin ExecutedQuotes
  BY <1>2 DEF ExecutedQuotes, TypeOK
<1>5. /\ IsFiniteSet(FilledOrders')
      /\ Cardinality(FilledOrders') = Cardinality(FilledOrders) + 1
      /\ Cardinality(FilledOrders) \in Nat
  BY <1>3, OneMore DEF CountInv
<1>6. /\ IsFiniteSet(ExecutedQuotes')
      /\ Cardinality(ExecutedQuotes') = Cardinality(ExecutedQuotes) + 1
      /\ Cardinality(ExecutedQuotes) \in Nat
  BY <1>4, OneMore DEF CountInv
<1>7. Cardinality(settledPairs) \in Nat
  BY FS_CardinalityType DEF CountInv
<1>8. EveryFillHasACounterparty'
  BY <1>2, <1>5, <1>6, <1>7 DEF CountInv, EveryFillHasACounterparty
<1> QED BY <1>2, <1>5, <1>6, <1>8 DEF CountInv

\* Nothing else fills an order or executes a reservation.
LEMMA SameCounts ==
  ASSUME CountInv, FilledOrders' = FilledOrders,
         settledPairs' = settledPairs, ExecutedQuotes' = ExecutedQuotes
  PROVE  CountInv'
BY DEF CountInv, EveryFillHasACounterparty

LEMMA OrderCircuitCounts ==
  ASSUME TypeOK, CountInv, OrderCircuit
  PROVE  CountInv'
<1>1. ASSUME NEW id \in OrderIds, NEW c \in Commitments, CreateOrder(id, c)
      PROVE  CountInv'
  <2>1. FilledOrders' = FilledOrders
    BY <1>1 DEF CreateOrder, FilledOrders, TypeOK
  <2>2. settledPairs' = settledPairs /\ ExecutedQuotes' = ExecutedQuotes
    BY <1>1 DEF CreateOrder, treasuryVars, ExecutedQuotes
  <2> QED BY <2>1, <2>2, SameCounts
<1>2. ASSUME NEW id \in OrderIds, NEW caller \in Owners, CancelOrder(caller, id)
      PROVE  CountInv'
  <2>1. FilledOrders' = FilledOrders
    BY <1>2 DEF CancelOrder, IsOpen, FilledOrders, TypeOK
  <2>2. settledPairs' = settledPairs /\ ExecutedQuotes' = ExecutedQuotes
    BY <1>2 DEF CancelOrder, treasuryVars, ExecutedQuotes
  <2> QED BY <2>1, <2>2, SameCounts
<1>3. ASSUME NEW id \in OrderIds, ExpireOrder(id)
      PROVE  CountInv'
  <2>1. FilledOrders' = FilledOrders
    BY <1>3 DEF ExpireOrder, IsOpen, FilledOrders, TypeOK
  <2>2. settledPairs' = settledPairs /\ ExecutedQuotes' = ExecutedQuotes
    BY <1>3 DEF ExpireOrder, treasuryVars, ExecutedQuotes
  <2> QED BY <2>1, <2>2, SameCounts
<1>4. ASSUME NEW buyId \in OrderIds, NEW sellId \in OrderIds,
             Settle(buyId, sellId)
      PROVE  CountInv'
  BY <1>4, SettleCounts
<1> QED BY <1>1, <1>2, <1>3, <1>4 DEF OrderCircuit

LEMMA ReservationCircuitCounts ==
  ASSUME TypeOK, CountInv, ReservationCircuit
  PROVE  CountInv'
<1>1. PICK q \in QuoteIds :
        \/ \E caller \in AdminIds, terms \in QuoteTerms :
             ReserveLiquidity(caller, q, terms)
        \/ \E caller \in AdminIds : ReleaseLiquidity(caller, q)
        \/ ReleaseExpiredLiquidity(q)
  BY DEF ReservationCircuit
<1>2. ASSUME NEW caller \in AdminIds, NEW terms \in QuoteTerms,
             ReserveLiquidity(caller, q, terms)
      PROVE  CountInv'
  <2>1. ExecutedQuotes' = ExecutedQuotes
    BY <1>2 DEF ReserveLiquidity, ExecutedQuotes, TypeOK
  <2>2. settledPairs' = settledPairs /\ FilledOrders' = FilledOrders
    BY <1>2 DEF ReserveLiquidity, orderVars, FilledOrders
  <2> QED BY <2>1, <2>2, SameCounts
<1>3. ASSUME Release(q) PROVE CountInv'
  <2>1. ExecutedQuotes' = ExecutedQuotes
    BY <1>3 DEF Release, IsHeld, ExecutedQuotes, TypeOK
  <2>2. settledPairs' = settledPairs /\ FilledOrders' = FilledOrders
    BY <1>3 DEF Release, orderVars, FilledOrders
  <2> QED BY <2>1, <2>2, SameCounts
<1> QED BY <1>1, <1>2, <1>3 DEF ReleaseLiquidity, ReleaseExpiredLiquidity

LEMMA OthersCount ==
  ASSUME CountInv, AdminCircuit \/ FundingCircuit \/ Tick \/ UNCHANGED vars
  PROVE  CountInv'
<1>1. UNCHANGED <<orders, settledPairs, reservations>>
  BY DEF AdminCircuit, AddAdmin, RemoveAdmin, FundingCircuit, DepositTreasury,
         WithdrawTreasury, Tick, vars, orderVars, treasuryVars
<1> QED BY <1>1, SameCounts DEF FilledOrders, ExecutedQuotes

\* In every reachable state, and for any number of orders and quotes, the
\* filled orders are two for each settled pair and one for each executed
\* reservation: no circuit fills an order without its counterparty.
THEOREM FillsAreMatched == Spec => []EveryFillHasACounterparty
<1>1. TypeOK /\ CountInv /\ [Next]_vars => CountInv'
  BY OrderCircuitCounts, ReservationCircuitCounts, ProtocolCounts, OthersCount
     DEF Next
<1>2. CountInv => EveryFillHasACounterparty
  BY DEF CountInv
<1> QED BY <1>1, <1>2, InitCountInv, TypeCorrect, PTL DEF Spec

-----------------------------------------------------------------------------
(* What a protocol fill pays *)

\* No reservation's product leaves the field the circuits compute in.
TermsFitField == \A t \in QuoteTerms : t.amount * t.price < FieldOrder

\* A reservation holds the terms it was offered on.
TermsAreOffered ==
  \A q \in QuoteIds :
    reservations[q].state # "NONE" => reservations[q].terms \in QuoteTerms

\* An entry of the orders or the reservations Map keeps the commitment or the
\* terms it was made with, and is not written again once it has left OPEN: no
\* id is registered twice, and a fill is on the terms that were reserved.
EntriesStay ==
  /\ \A id \in OrderIds :
       orders[id].state # "NONE" =>
         /\ orders'[id].commitment = orders[id].commitment
         /\ orders[id].state # "OPEN" => orders'[id] = orders[id]
  /\ \A q \in QuoteIds :
       reservations[q].state # "NONE" =>
         /\ reservations'[q].terms = reservations[q].terms
         /\ reservations[q].state # "OPEN" => reservations'[q] = reservations[q]

LEMMA EntriesStep == TypeOK /\ [Next]_vars => EntriesStay
<1> SUFFICES ASSUME TypeOK, [Next]_vars PROVE EntriesStay
  OBVIOUS
<1>1. /\ orders \in [OrderIds -> [commitment: Commitments \cup {NoCommitment},
                                  state: OrderStates]]
      /\ reservations \in [QuoteIds -> [terms: Terms, state: ReservationStates]]
  BY DEF TypeOK
<1>2. CASE OrderCircuit
  <2>1. UNCHANGED reservations
    BY <1>2 DEF OrderCircuit, CreateOrder, CancelOrder, ExpireOrder, Settle,
       treasuryVars
  <2>2. ASSUME NEW id \in OrderIds, orders[id].state # "NONE"
        PROVE  /\ orders'[id].commitment = orders[id].commitment
               /\ orders[id].state # "OPEN" => orders'[id] = orders[id]
    <3>1. ASSUME NEW x \in OrderIds, NEW c \in Commitments, CreateOrder(x, c)
          PROVE  orders'[id] = orders[id]
      BY <1>1, <2>2, <3>1 DEF CreateOrder
    <3>2. ASSUME NEW x \in OrderIds, NEW st,
                 orders[x].state = "OPEN", orders' = [orders EXCEPT ![x].state = st]
          PROVE  /\ orders'[id].commitment = orders[id].commitment
                 /\ orders[id].state # "OPEN" => orders'[id] = orders[id]
      BY <1>1, <3>2
    <3>3. ASSUME NEW b \in OrderIds, NEW s \in OrderIds, Settle(b, s)
          PROVE  /\ orders'[id].commitment = orders[id].commitment
                 /\ orders[id].state # "OPEN" => orders'[id] = orders[id]
      <4>1. /\ orders' = [orders EXCEPT ![b].state = "FILLED", ![s].state = "FILLED"]
            /\ orders[b].state = "OPEN" /\ orders[s].state = "OPEN"
        BY <3>3 DEF Settle, IsOpen
      <4> QED
        BY <1>1, <4>1
    <3>4. \/ \E x \in OrderIds, c \in Commitments : CreateOrder(x, c)
          \/ \E x \in OrderIds, st \in {"CANCELLED", "EXPIRED"} :
               orders[x].state = "OPEN" /\ orders' = [orders EXCEPT ![x].state = st]
          \/ \E b, s \in OrderIds : Settle(b, s)
      BY <1>2 DEF OrderCircuit, CancelOrder, ExpireOrder, IsOpen
    <3> QED
      BY <3>1, <3>2, <3>3, <3>4
  <2> QED
    BY <2>1, <2>2 DEF EntriesStay
<1>3. CASE ReservationCircuit
  <2>1. UNCHANGED orders
    BY <1>3 DEF ReservationCircuit, ReserveLiquidity, ReleaseLiquidity,
       ReleaseExpiredLiquidity, Release, orderVars
  <2>2. ASSUME NEW q \in QuoteIds, reservations[q].state # "NONE"
        PROVE  /\ reservations'[q].terms = reservations[q].terms
               /\ reservations[q].state # "OPEN" => reservations'[q] = reservations[q]
    BY <1>1, <1>3, <2>2 DEF ReservationCircuit, ReserveLiquidity,
       ReleaseLiquidity, ReleaseExpiredLiquidity, Release, IsHeld
  <2> QED
    BY <2>1, <2>2 DEF EntriesStay
<1>4. CASE ProtocolCircuit
  <2>1. PICK caller \in Owners, id \in OrderIds, q \in QuoteIds :
          SettleWithProtocol(caller, id, q)
    BY <1>4 DEF ProtocolCircuit
  <2>2. /\ orders[id].state = "OPEN" /\ reservations[q].state = "OPEN"
        /\ orders' = [orders EXCEPT ![id].state = "FILLED"]
        /\ reservations' = [reservations EXCEPT ![q].state = "EXECUTED"]
    BY <2>1 DEF SettleWithProtocol, IsOpen, IsHeld
  <2> QED
    BY <1>1, <2>2 DEF EntriesStay
<1>5. CASE UNCHANGED <<orders, reservations>>
  BY <1>5 DEF EntriesStay
<1>6. \/ OrderCircuit \/ ReservationCircuit \/ ProtocolCircuit
      \/ UNCHANGED <<orders, reservations>>
  BY DEF Next, vars, orderVars, treasuryVars, AdminCircuit, AddAdmin, RemoveAdmin,
     FundingCircuit, DepositTreasury, WithdrawTreasury, Tick
<1> QED
  BY <1>2, <1>3, <1>4, <1>5, <1>6

\* No circuit rewrites what an order or a reservation was made with, or brings
\* back one that has ended.
THEOREM EntriesAreKept == Spec => [][EntriesStay]_vars
<1>1. TypeOK /\ [Next]_vars => [EntriesStay]_vars
  BY EntriesStep
<1> QED
  BY <1>1, TypeCorrect, PTL DEF Spec

\* Reservations appear by reserveLiquidity, and end as EXECUTED by a fill.
LEMMA ReservationMoves ==
  ASSUME TypeOK, [Next]_vars, NEW q \in QuoteIds
  PROVE  \/ reservations'[q] = reservations[q]
         \/ reservations[q].state = "NONE" /\ reservations'[q].terms \in QuoteTerms
            /\ reservations'[q].state = "OPEN"
         \/ /\ reservations[q].state = "OPEN"
            /\ reservations'[q] = [reservations[q] EXCEPT !.state = "RELEASED"]
         \/ /\ \E caller \in Owners, id \in OrderIds : SettleWithProtocol(caller, id, q)
            /\ reservations[q].state = "OPEN"
            /\ reservations'[q] = [reservations[q] EXCEPT !.state = "EXECUTED"]
<1>1. reservations \in [QuoteIds -> [terms: Terms, state: ReservationStates]]
  BY DEF TypeOK
<1>2. CASE ReservationCircuit
  BY <1>1, <1>2 DEF ReservationCircuit, ReserveLiquidity, ReleaseLiquidity,
     ReleaseExpiredLiquidity, Release, IsHeld
<1>3. CASE ProtocolCircuit
  <2>1. PICK caller \in Owners, id \in OrderIds, p \in QuoteIds :
          SettleWithProtocol(caller, id, p)
    BY <1>3 DEF ProtocolCircuit
  <2>2. reservations[p].state = "OPEN"
        /\ reservations' = [reservations EXCEPT ![p].state = "EXECUTED"]
    BY <2>1 DEF SettleWithProtocol, IsHeld
  <2>3. CASE p = q
    BY <1>1, <2>1, <2>2, <2>3
  <2>4. CASE p # q
    BY <1>1, <2>2, <2>4
  <2> QED
    BY <2>3, <2>4
<1>4. CASE UNCHANGED reservations
  BY <1>4
<1>5. ReservationCircuit \/ ProtocolCircuit \/ UNCHANGED reservations
  BY DEF Next, vars, treasuryVars, OrderCircuit, CreateOrder, CancelOrder,
     ExpireOrder, Settle, AdminCircuit, AddAdmin, RemoveAdmin, FundingCircuit,
     DepositTreasury, WithdrawTreasury, Tick
<1> QED
  BY <1>2, <1>3, <1>4, <1>5

LEMMA TermsStep ==
  TypeOK /\ TermsAreOffered /\ [Next]_vars => TermsAreOffered'
<1> SUFFICES ASSUME TypeOK, TermsAreOffered, [Next]_vars,
                    NEW q \in QuoteIds, reservations'[q].state # "NONE"
             PROVE  reservations'[q].terms \in QuoteTerms
  BY DEF TermsAreOffered
<1>1. reservations[q] \in [terms: Terms, state: ReservationStates]
  BY DEF TypeOK
<1>2. reservations[q].state # "NONE" => reservations[q].terms \in QuoteTerms
  BY DEF TermsAreOffered
<1>3. \/ reservations'[q] = reservations[q]
      \/ reservations'[q].terms \in QuoteTerms
      \/ reservations[q].state = "OPEN"
         /\ reservations'[q].terms = reservations[q].terms
  BY <1>1, ReservationMoves
<1> QED
  BY <1>2, <1>3

LEMMA SmallRemainders ==
  ASSUME NEW x \in Nat, NEW n \in Nat \ {0}, x < n PROVE x % n = x
  OBVIOUS

\* The payment moves between trader and treasury as settleWithProtocol computed
\* it.
LEMMA FillPays ==
  ASSUME TypeOK, NEW caller \in Owners, NEW id \in OrderIds, NEW q \in QuoteIds,
         SettleWithProtocol(caller, id, q),
         reservations[q].terms.assetKey # Night
  PROVE  LET payment == PaymentAmount(reservations[q].terms)
         IN  custody'[Night] - custody[Night] \in {payment, -payment}
<1> DEFINE r == reservations[q].terms
           payment == PaymentAmount(r)
<1>1. r.assetKey \in Assets /\ r.amount \in Nat /\ Night \in Assets
      /\ custody \in [Assets -> Int]
  BY ExchangeConstants DEF TypeOK, Terms
<1>2. payment \in Nat
  BY PaymentIsNat DEF TypeOK, Terms
<1>3. \/ custody' = PayOutThenIn(custody, r.assetKey, r.amount, Night, payment)
      \/ custody' = PayInThenOut(custody, r.assetKey, r.amount, Night, payment)
  BY DEF SettleWithProtocol, ProtocolSells, ProtocolBuys
<1> HIDE DEF r, payment
<1>4. r.assetKey # Night
  BY DEF r
<1>5. custody'[Night] \in {custody[Night] + payment, custody[Night] - payment}
  BY <1>1, <1>2, <1>3, <1>4 DEF PayOutThenIn, PayInThenOut
<1>6. custody[Night] \in Int
  BY <1>1
<1>7. custody'[Night] - custody[Night] \in {payment, -payment}
  BY <1>2, <1>5, <1>6
<1> QED
  BY <1>7 DEF r, payment

\* The modulus is the only way a fill can be paid wrongly: while no product of
\* amount and price leaves the field, every fill of settleWithProtocol moves
\* exactly amount times price, in one direction or the other.
THEOREM PaymentsAreExact == TermsFitField => (Spec => PaymentIsExact)
<1> SUFFICES ASSUME TermsFitField PROVE Spec => PaymentIsExact
  OBVIOUS
<1> DEFINE Exact ==
      \A q \in ExecutedNow :
        LET r == reservations[q].terms
            paid == custody'[Night] - custody[Night]
        IN  r.assetKey # Night => paid \in {r.amount * r.price,
                                            -(r.amount * r.price)}
<1>1. ASSUME TypeOK, TermsAreOffered, [Next]_vars PROVE Exact
  <2> SUFFICES ASSUME NEW q \in ExecutedNow, reservations[q].terms.assetKey # Night
               PROVE  custody'[Night] - custody[Night]
                        \in {reservations[q].terms.amount * reservations[q].terms.price,
                             -(reservations[q].terms.amount * reservations[q].terms.price)}
    OBVIOUS
  <2>1. q \in QuoteIds /\ reservations[q].state = "OPEN"
        /\ reservations'[q].state = "EXECUTED"
        /\ reservations[q] \in [terms: Terms, state: ReservationStates]
    BY <1>1 DEF ExecutedNow, TypeOK
  <2>2. \E caller \in Owners, id \in OrderIds : SettleWithProtocol(caller, id, q)
    BY <1>1, <2>1, ReservationMoves
  <2> DEFINE t == reservations[q].terms
             x == t.amount * t.price
  <2>3. t \in QuoteTerms /\ t.amount \in Nat /\ t.price \in Nat
    BY <1>1, <2>1 DEF TermsAreOffered, Terms
  <2>4. x < FieldOrder
    BY <2>3 DEF TermsFitField
  <2>5. custody'[Night] - custody[Night] \in {PaymentAmount(t), -PaymentAmount(t)}
    BY <1>1, <2>1, <2>2, FillPays
  <2>6. PaymentAmount(t) = x % FieldOrder
    BY DEF PaymentAmount
  <2> HIDE DEF t
  <2>7. x \in Nat
    BY <2>3
  <2> HIDE DEF x
  <2>8. x % FieldOrder = x
    BY <2>4, <2>7, SmallRemainders, ExchangeConstants
  <2> QED
    BY <2>5, <2>6, <2>8 DEF t, x
<1>2. TypeOK /\ TermsAreOffered /\ [Next]_vars => [Exact]_vars
  BY <1>1
<1>3. Init => TermsAreOffered
  BY DEF Init, TermsAreOffered
<1> QED
  BY <1>2, <1>3, TermsStep, TypeCorrect, PTL DEF Spec, PaymentIsExact
=============================================================================
