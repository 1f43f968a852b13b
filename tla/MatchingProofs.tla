--------------------------- MODULE MatchingProofs --------------------------
(***************************************************************************)
(* Theorems about order intake and matching, for any number of orders,     *)
(* submissions, crashes and seconds.  The first half is about one bucket:  *)
(* what adding an order and removing one do to a tidy sequence of levels.  *)
(***************************************************************************)
EXTENDS Matching, SequenceTheorems, WellFoundedInduction, TLAPS

-----------------------------------------------------------------------------
(* Sequences *)

\* A set of numbers that is not empty has a least element.
LEMMA LeastNumber ==
  ASSUME NEW T \in SUBSET Nat, T # {}
  PROVE  \E x \in T : \A y \in T : x <= y
<1> DEFINE R == {p \in Nat \X Nat : p[1] < p[2]}
<1>1. R = OpToRel(<, Nat)
  BY DEF OpToRel
<1>2. IsWellFoundedOn(R, Nat)
  BY <1>1, NatLessThanWellFounded
<1>3. ASSUME NEW x \in Nat, NEW y \in Nat, y < x PROVE <<y, x>> \in R
  <2> DEFINE p == <<y, x>>
  <2>1. p \in Nat \X Nat /\ p[1] = y /\ p[2] = x
    OBVIOUS
  <2> HIDE DEF p
  <2>2. p \in R
    BY <1>3, <2>1
  <2> QED BY <2>2 DEF p
<1> HIDE DEF R
<1>4. PICK x \in T : \A y \in T : ~(<<y, x>> \in R)
  BY <1>2, WFMin
<1>5. ASSUME NEW y \in T PROVE x <= y
  <2>1. ~(<<y, x>> \in R)
    BY <1>4
  <2>2. ~(y < x)
    BY <1>3, <2>1
  <2> QED BY <2>2
<1> QED BY <1>4, <1>5

\* What splice(i, 1) leaves.
LEMMA Removal ==
  ASSUME NEW S, NEW s \in Seq(S), NEW i \in 1..Len(s)
  PROVE  /\ RemoveAt(s, i) \in Seq(S)
         /\ Len(RemoveAt(s, i)) = Len(s) - 1
         /\ DOMAIN RemoveAt(s, i) = 1..(Len(s) - 1)
         /\ \A j \in 1..(i - 1) : RemoveAt(s, i)[j] = s[j]
         /\ \A j \in i..(Len(s) - 1) : RemoveAt(s, i)[j] = s[j + 1]
<1> DEFINE a == SubSeq(s, 1, i - 1)
           b == SubSeq(s, i + 1, Len(s))
<1>1. a \in Seq(S) /\ Len(a) = i - 1 /\ \A j \in 1..(i - 1) : a[j] = s[j]
  OBVIOUS
<1>2. /\ b \in Seq(S) /\ Len(b) = Len(s) - i
      /\ \A j \in 1..(Len(s) - i) : b[j] = s[i + j]
  OBVIOUS
<1>3. RemoveAt(s, i) = a \o b
  BY DEF RemoveAt
<1> HIDE DEF a, b
<1>4. a \o b \in Seq(S) /\ Len(a \o b) = Len(s) - 1
  <2>1. a \o b \in Seq(S) /\ Len(a \o b) = Len(a) + Len(b)
    BY <1>1, <1>2, ConcatProperties
  <2> QED BY <1>1, <1>2, <2>1
<1>5. \A j \in 1..(i - 1) : (a \o b)[j] = s[j]
  BY <1>1, <1>2
<1>6. ASSUME NEW j \in i..(Len(s) - 1) PROVE (a \o b)[j] = s[j + 1]
  <2>1. (a \o b)[j] = b[j - (i - 1)]
    BY <1>1, <1>2
  <2>2. b[j - (i - 1)] = s[j + 1]
    BY <1>2
  <2> QED BY <2>1, <2>2
<1> QED BY <1>3, <1>4, <1>5, <1>6

\* What splice(i, 0, e) leaves.
LEMMA Insertion ==
  ASSUME NEW S, NEW s \in Seq(S), NEW i \in 1..(Len(s) + 1), NEW e \in S
  PROVE  /\ InsertAt(s, i, e) \in Seq(S)
         /\ Len(InsertAt(s, i, e)) = Len(s) + 1
         /\ DOMAIN InsertAt(s, i, e) = 1..(Len(s) + 1)
         /\ InsertAt(s, i, e)[i] = e
         /\ \A j \in 1..(i - 1) : InsertAt(s, i, e)[j] = s[j]
         /\ \A j \in (i + 1)..(Len(s) + 1) : InsertAt(s, i, e)[j] = s[j - 1]
<1> DEFINE a == SubSeq(s, 1, i - 1)
           b == SubSeq(s, i, Len(s))
           m == a \o <<e>>
<1>1. a \in Seq(S) /\ Len(a) = i - 1 /\ \A j \in 1..(i - 1) : a[j] = s[j]
  OBVIOUS
<1>2. /\ b \in Seq(S) /\ Len(b) = Len(s) - i + 1
      /\ \A j \in 1..(Len(s) - i + 1) : b[j] = s[i + j - 1]
  OBVIOUS
<1>3. InsertAt(s, i, e) = m \o b
  BY DEF InsertAt
<1> HIDE DEF a, b
<1>4. /\ m \in Seq(S) /\ Len(m) = i /\ m[i] = e
      /\ \A j \in 1..(i - 1) : m[j] = s[j]
  BY <1>1
<1> HIDE DEF m
<1>5. m \o b \in Seq(S) /\ Len(m \o b) = Len(s) + 1
  <2>1. m \o b \in Seq(S) /\ Len(m \o b) = Len(m) + Len(b)
    BY <1>2, <1>4, ConcatProperties
  <2> QED BY <1>2, <1>4, <2>1
<1>6. (m \o b)[i] = e /\ \A j \in 1..(i - 1) : (m \o b)[j] = s[j]
  BY <1>2, <1>4
<1>7. ASSUME NEW j \in (i + 1)..(Len(s) + 1) PROVE (m \o b)[j] = s[j - 1]
  <2>1. (m \o b)[j] = b[j - i]
    BY <1>2, <1>4
  <2>2. b[j - i] = s[j - 1]
    BY <1>2
  <2> QED BY <2>1, <2>2
<1> QED BY <1>3, <1>5, <1>6, <1>7

-----------------------------------------------------------------------------
(* Buckets *)

Level == [price: Nat, ids: Seq(Orders)]

TidyLevel(l) ==
  /\ l.ids # <<>>
  /\ IsInjective(l.ids)
  /\ \A j \in DOMAIN l.ids : OrderOf[l.ids[j]].price = l.price

\* What Mirrored says of a bucket's shape.
Tidy(side, levels) ==
  /\ levels \in Seq(Level)
  /\ \A i \in DOMAIN levels : TidyLevel(levels[i])
  /\ \A i, k \in DOMAIN levels :
       i < k => Better(side, levels[i].price, levels[k].price)

\* Order a waits in front of b, at one price.
Ahead(levels, a, b) ==
  \E i \in DOMAIN levels : \E j, k \in DOMAIN levels[i].ids :
    j < k /\ levels[i].ids[j] = a /\ levels[i].ids[k] = b

\* The bucket left is levels with order o at the back of its queue.
Gains(side, levels, o, left) ==
  /\ Tidy(side, left)
  /\ \A x : Has(left, x) <=> Has(levels, x) \/ x = o
  /\ \A a, b : Ahead(left, a, b) => \/ Ahead(levels, a, b)
                                    \/ Has(levels, a) /\ b = o

\* The bucket left is levels without order o.
Loses(side, levels, o, left) ==
  /\ Tidy(side, left)
  /\ \A x : Has(left, x) <=> Has(levels, x) /\ x # o
  /\ \A a, b : Ahead(left, a, b) => Ahead(levels, a, b)

\* "Better" is a strict order of the numbers.
LEMMA BetterOrders ==
  ASSUME NEW side, NEW a \in Nat, NEW b \in Nat, NEW c \in Nat
  PROVE  /\ ~Better(side, a, a)
         /\ Better(side, a, b) /\ Better(side, b, c) => Better(side, a, c)
         /\ Better(side, a, b) /\ ~Better(side, c, b) => Better(side, a, c)
         /\ ~Better(side, a, b) /\ a # b => Better(side, b, a)
BY DEF Better

\* The types of a bucket's levels.
LEMMA LevelTypes ==
  ASSUME NEW levels \in Seq(Level), NEW i \in DOMAIN levels
  PROVE  /\ i \in 1..Len(levels) /\ levels[i] \in Level
         /\ levels[i].price \in Nat /\ levels[i].ids \in Seq(Orders)
         /\ levels[i] = [price |-> levels[i].price, ids |-> levels[i].ids]
         /\ DOMAIN levels[i].ids = 1..Len(levels[i].ids)
         /\ \A j \in DOMAIN levels[i].ids : levels[i].ids[j] \in Orders
<1>1. i \in 1..Len(levels)
  OBVIOUS
<1>2. levels[i] \in Level
  BY <1>1, ElementOfSeq
<1>3. \A l \in Level : /\ l.price \in Nat /\ l.ids \in Seq(Orders)
                      /\ l = [price |-> l.price, ids |-> l.ids]
  BY DEF Level
<1>4. \A q \in Seq(Orders) : /\ DOMAIN q = 1..Len(q)
                            /\ \A j \in DOMAIN q : q[j] \in Orders
  OBVIOUS
<1> HIDE DEF Level
<1> QED BY <1>1, <1>2, <1>3, <1>4

\* findLevelIndex finds the place a price has among sorted levels.
LEMMA PlaceFound ==
  ASSUME NEW side, NEW levels, Tidy(side, levels), NEW price \in Nat
  PROVE  LET k == PlaceFor(side, levels, price)
         IN  /\ k \in 1..(Len(levels) + 1)
             /\ \A i \in 1..(k - 1) : Better(side, levels[i].price, price)
             /\ \A i \in k..Len(levels) : ~Better(side, levels[i].price, price)
<1> DEFINE n == Len(levels)
           T == {i \in 1..(n + 1) :
                   i = n + 1 \/ ~Better(side, levels[i].price, price)}
<1>1. n \in Nat /\ DOMAIN levels = 1..n
  BY DEF Tidy
<1>2. \A i \in 1..n : levels[i].price \in Nat
  BY <1>1, LevelTypes DEF Tidy
<1>3. T \in SUBSET Nat /\ n + 1 \in T
  BY <1>1
<1>4. PICK m \in T : \A i \in T : m <= i
  BY <1>3, LeastNumber
<1>5. m \in 1..(n + 1)
  OBVIOUS
<1>6. \A i \in 1..(m - 1) : Better(side, levels[i].price, price)
  <2> TAKE i \in 1..(m - 1)
  <2>1. i \in 1..(n + 1) /\ i # n + 1 /\ i \notin T
    BY <1>1, <1>4, <1>5
  <2> QED BY <2>1
<1>7. \A i \in m..n : ~Better(side, levels[i].price, price)
  <2> TAKE i \in m..n
  <2>1. i \in 1..n /\ m \in 1..n /\ m # n + 1
    BY <1>1, <1>5
  <2>2. ~Better(side, levels[m].price, price)
    BY <2>1
  <2>3. i # m => Better(side, levels[m].price, levels[i].price)
    BY <1>1, <2>1 DEF Tidy
  <2> QED BY <1>2, <2>1, <2>2, <2>3, BetterOrders
<1> QED BY <1>5, <1>6, <1>7 DEF PlaceFor

\* A queue with an order more.
LEMMA QueueGrows ==
  ASSUME NEW q \in Seq(Orders), NEW o \in Orders,
         IsInjective(q), \A j \in DOMAIN q : q[j] # o
  PROVE  /\ Append(q, o) \in Seq(Orders) /\ Append(q, o) # <<>>
         /\ IsInjective(Append(q, o))
         /\ Len(Append(q, o)) = Len(q) + 1
         /\ \A j \in 1..Len(q) : Append(q, o)[j] = q[j]
         /\ Append(q, o)[Len(q) + 1] = o
<1>1. /\ Append(q, o) \in Seq(Orders) /\ Append(q, o) # <<>>
      /\ Len(Append(q, o)) = Len(q) + 1
      /\ \A j \in 1..Len(q) : Append(q, o)[j] = q[j]
      /\ Append(q, o)[Len(q) + 1] = o
  OBVIOUS
<1> DEFINE r == Append(q, o)
<1> HIDE DEF r
<1>2. DOMAIN r = 1..(Len(q) + 1) /\ DOMAIN q = 1..Len(q) /\ Len(q) \in Nat
  BY <1>1 DEF r
<1>3. (\A j \in 1..Len(q) : r[j] = q[j]) /\ r[Len(q) + 1] = o
  BY <1>1 DEF r
<1>4. IsInjective(r)
  BY <1>2, <1>3 DEF IsInjective
<1> QED BY <1>1, <1>4 DEF r

\* A queue with an order less.
LEMMA QueueShrinks ==
  ASSUME NEW q \in Seq(Orders), NEW i \in DOMAIN q, IsInjective(q)
  PROVE  LET r == RemoveAt(q, i)
         IN  /\ r \in Seq(Orders) /\ IsInjective(r)
             /\ (r = <<>>) <=> (Len(q) = 1)
             /\ \A x : (\E j \in DOMAIN r : r[j] = x) <=>
                       (\E j \in DOMAIN q : q[j] = x) /\ x # q[i]
             /\ \A j, k \in DOMAIN r : j < k =>
                  \E m, n \in DOMAIN q : m < n /\ q[m] = r[j] /\ q[n] = r[k]
<1>0. /\ Len(q) \in Nat /\ DOMAIN q = 1..Len(q)
      /\ q \in Seq(Orders) /\ i \in 1..Len(q)
  <2>1. Len(q) \in Nat /\ DOMAIN q = 1..Len(q)
    OBVIOUS
  <2> QED BY <2>1, Zenon
<1> DEFINE r == RemoveAt(q, i)
<1>a. /\ r \in Seq(Orders) /\ Len(r) = Len(q) - 1
      /\ DOMAIN r = 1..(Len(q) - 1)
      /\ \A j \in 1..(i - 1) : r[j] = q[j]
      /\ \A j \in i..(Len(q) - 1) : r[j] = q[j + 1]
  BY <1>0, Removal, Zenon
<1> HIDE DEF r
<1> DEFINE At(j) == IF j < i THEN j ELSE j + 1
<1>1. /\ r \in Seq(Orders) /\ Len(r) = Len(q) - 1 /\ Len(q) \in Nat
      /\ DOMAIN q = 1..Len(q) /\ DOMAIN r = 1..(Len(q) - 1)
      /\ \A j \in 1..(i - 1) : r[j] = q[j]
      /\ \A j \in i..(Len(q) - 1) : r[j] = q[j + 1]
  BY <1>0, <1>a
<1>2. \A j \in DOMAIN r : At(j) \in DOMAIN q /\ At(j) # i /\ r[j] = q[At(j)]
  <2> TAKE j \in DOMAIN r
  <2>1. CASE j < i
    BY <1>1, <2>1
  <2>2. CASE ~(j < i)
    <3>1. j \in i..(Len(q) - 1)
      BY <1>1, <2>2
    <3> QED BY <1>1, <2>2, <3>1
  <2> QED BY <2>1, <2>2
<1>3. \A j, k \in DOMAIN r : j < k => At(j) < At(k)
  BY <1>1
<1>4. \A m \in DOMAIN q : m # i => \E j \in DOMAIN r : At(j) = m
  <2> TAKE m \in DOMAIN q
  <2> HAVE m # i
  <2>1. CASE m < i
    BY <1>1, <2>1
  <2>2. CASE m > i
    <3>1. m - 1 \in DOMAIN r /\ At(m - 1) = m
      BY <1>1, <2>2
    <3> QED BY <3>1
  <2> QED BY <1>1, <2>1, <2>2
<1> HIDE DEF At
<1>5. IsInjective(r)
  <2> SUFFICES ASSUME NEW j \in DOMAIN r, NEW k \in DOMAIN r, r[j] = r[k]
               PROVE  j = k
    BY DEF IsInjective
  <2>1. At(j) = At(k)
    BY <1>2 DEF IsInjective
  <2>2. ~(j < k) /\ ~(k < j)
    BY <1>1, <1>2, <1>3, <2>1
  <2> QED BY <1>1, <2>2
<1>6. (r = <<>>) <=> (Len(q) = 1)
  BY <1>1
<1>7. ASSUME NEW x
      PROVE  (\E j \in DOMAIN r : r[j] = x) <=>
             (\E j \in DOMAIN q : q[j] = x) /\ x # q[i]
  BY <1>2, <1>4 DEF IsInjective
<1>8. ASSUME NEW j \in DOMAIN r, NEW k \in DOMAIN r, j < k
      PROVE  \E m, n \in DOMAIN q : m < n /\ q[m] = r[j] /\ q[n] = r[k]
  BY <1>2, <1>3, <1>8
<1> QED BY <1>1, <1>5, <1>6, <1>7, <1>8 DEF r

\* A level replaced by one of its price.
LEMMA LevelSet ==
  ASSUME NEW side, NEW levels, Tidy(side, levels), NEW k \in DOMAIN levels,
         NEW l \in Level, TidyLevel(l), l.price = levels[k].price
  PROVE  LET left == [levels EXCEPT ![k] = l]
         IN  /\ Tidy(side, left) /\ DOMAIN left = DOMAIN levels
             /\ left[k] = l
             /\ \A i \in DOMAIN levels : i # k => left[i] = levels[i]
<1> DEFINE left == [levels EXCEPT ![k] = l]
<1>1. levels \in Seq(Level)
  BY DEF Tidy
<1>2. left \in Seq(Level) /\ DOMAIN left = DOMAIN levels /\ left[k] = l
  BY <1>1
<1>3. \A i \in DOMAIN levels : i # k => left[i] = levels[i]
  BY <1>1
<1> HIDE DEF left
<1>4. \A i \in DOMAIN left : TidyLevel(left[i])
  BY <1>2, <1>3 DEF Tidy
<1>5. \A i \in DOMAIN left : left[i].price = levels[i].price
  BY <1>2, <1>3
<1>6. ASSUME NEW i \in DOMAIN left, NEW m \in DOMAIN left, i < m
      PROVE  Better(side, left[i].price, left[m].price)
  BY <1>2, <1>5, <1>6 DEF Tidy
<1> QED BY <1>2, <1>3, <1>4, <1>6 DEF Tidy, left

\* A level put where its price belongs.
LEMMA LevelInserted ==
  ASSUME NEW side, NEW levels, Tidy(side, levels), NEW k \in 1..(Len(levels) + 1),
         NEW l \in Level, TidyLevel(l),
         \A i \in 1..(k - 1) : Better(side, levels[i].price, l.price),
         \A i \in k..Len(levels) : Better(side, l.price, levels[i].price)
  PROVE  LET left == InsertAt(levels, k, l)
             From(i) == IF i < k THEN i ELSE i - 1
             To(i) == IF i < k THEN i ELSE i + 1
         IN  /\ Tidy(side, left)
             /\ k \in DOMAIN left /\ left[k] = l
             /\ \A i \in DOMAIN left :
                  i # k => From(i) \in DOMAIN levels /\ left[i] = levels[From(i)]
             /\ \A i \in DOMAIN levels :
                  To(i) \in DOMAIN left /\ To(i) # k /\ left[To(i)] = levels[i]
<1> DEFINE left == InsertAt(levels, k, l)
           From(i) == IF i < k THEN i ELSE i - 1
           To(i) == IF i < k THEN i ELSE i + 1
           n == Len(levels)
<1>1. levels \in Seq(Level) /\ n \in Nat /\ DOMAIN levels = 1..n
  BY DEF Tidy
<1>2. /\ left \in Seq(Level) /\ DOMAIN left = 1..(n + 1) /\ left[k] = l
      /\ \A i \in 1..(k - 1) : left[i] = levels[i]
      /\ \A i \in (k + 1)..(n + 1) : left[i] = levels[i - 1]
  <2>1. /\ left \in Seq(Level) /\ Len(left) = n + 1 /\ left[k] = l
        /\ DOMAIN left = 1..(n + 1)
    BY <1>1, Insertion
  <2>2. \A i \in 1..(k - 1) : left[i] = levels[i]
    BY <1>1, Insertion
  <2>3. \A i \in (k + 1)..(n + 1) : left[i] = levels[i - 1]
    BY <1>1, Insertion
  <2> QED BY <2>1, <2>2, <2>3
<1> HIDE DEF left, n
<1>3. \A i \in DOMAIN left :
        i # k => From(i) \in DOMAIN levels /\ left[i] = levels[From(i)]
  <2> TAKE i \in DOMAIN left
  <2> HAVE i # k
  <2>1. CASE i < k
    <3>1. i \in 1..(k - 1) /\ i \in 1..n
      BY <1>1, <1>2, <2>1 DEF n
    <3> QED BY <1>1, <1>2, <2>1, <3>1
  <2>2. CASE ~(i < k)
    <3>1. i \in (k + 1)..(n + 1) /\ i - 1 \in 1..n
      BY <1>1, <1>2, <2>2 DEF n
    <3> QED BY <1>1, <1>2, <2>2, <3>1
  <2> QED BY <2>1, <2>2
<1>4. \A i \in DOMAIN levels :
        To(i) \in DOMAIN left /\ To(i) # k /\ left[To(i)] = levels[i]
  <2> TAKE i \in DOMAIN levels
  <2>1. CASE i < k
    BY <1>1, <1>2, <2>1
  <2>2. CASE ~(i < k)
    <3>1. i + 1 \in (k + 1)..(n + 1) /\ (i + 1) - 1 = i
      BY <1>1, <2>2 DEF n
    <3> QED BY <1>1, <1>2, <2>2, <3>1
  <2> QED BY <2>1, <2>2
<1>5. \A i \in DOMAIN left : TidyLevel(left[i])
  BY <1>2, <1>3 DEF Tidy
<1>6. ASSUME NEW i \in DOMAIN left, NEW m \in DOMAIN left, i < m
      PROVE  Better(side, left[i].price, left[m].price)
  <2>1. CASE i = k
    <3>1. m - 1 \in k..n /\ left[m] = levels[m - 1]
      BY <1>1, <1>2, <1>6, <2>1
    <3> QED BY <1>2, <2>1, <3>1 DEF n
  <2>2. CASE m = k
    <3>1. i \in 1..(k - 1) /\ left[i] = levels[i]
      BY <1>1, <1>2, <1>6, <2>2
    <3> QED BY <1>2, <2>2, <3>1
  <2>3. CASE i # k /\ m # k
    <3>1. From(i) < From(m)
      BY <1>1, <1>2, <1>6, <2>3
    <3> HIDE DEF From
    <3> QED BY <1>3, <2>3, <3>1 DEF Tidy
  <2> QED BY <2>1, <2>2, <2>3
<1> HIDE DEF From, To
<1>7. Tidy(side, left)
  BY <1>2, <1>5, <1>6 DEF Tidy
<1> QED BY <1>1, <1>2, <1>3, <1>4, <1>7 DEF left, From, To

\* A level taken out.
LEMMA LevelDropped ==
  ASSUME NEW side, NEW levels, Tidy(side, levels), NEW k \in DOMAIN levels
  PROVE  LET left == RemoveAt(levels, k)
             From(i) == IF i < k THEN i ELSE i + 1
             To(i) == IF i < k THEN i ELSE i - 1
         IN  /\ Tidy(side, left)
             /\ \A i \in DOMAIN left :
                  /\ From(i) \in DOMAIN levels /\ From(i) # k
                  /\ left[i] = levels[From(i)]
             /\ \A i \in DOMAIN levels :
                  i # k => To(i) \in DOMAIN left /\ left[To(i)] = levels[i]
<1> DEFINE left == RemoveAt(levels, k)
           From(i) == IF i < k THEN i ELSE i + 1
           To(i) == IF i < k THEN i ELSE i - 1
           n == Len(levels)
<1>1. levels \in Seq(Level) /\ n \in Nat /\ DOMAIN levels = 1..n /\ k \in 1..n
  BY DEF Tidy
<1>2. /\ left \in Seq(Level) /\ DOMAIN left = 1..(n - 1)
      /\ \A i \in 1..(k - 1) : left[i] = levels[i]
      /\ \A i \in k..(n - 1) : left[i] = levels[i + 1]
  BY <1>1, Removal
<1> HIDE DEF left, n
<1>3. \A i \in DOMAIN left :
        /\ From(i) \in DOMAIN levels /\ From(i) # k
        /\ left[i] = levels[From(i)]
  BY <1>1, <1>2
<1>4. \A i \in DOMAIN levels :
        i # k => To(i) \in DOMAIN left /\ left[To(i)] = levels[i]
  <2> TAKE i \in DOMAIN levels
  <2> HAVE i # k
  <2>1. CASE i < k
    BY <1>1, <1>2, <2>1
  <2>2. CASE ~(i < k)
    <3>1. i - 1 \in k..(n - 1) /\ (i - 1) + 1 = i
      BY <1>1, <2>2
    <3> QED BY <1>1, <1>2, <2>2, <3>1
  <2> QED BY <2>1, <2>2
<1>5. \A i \in DOMAIN left : TidyLevel(left[i])
  BY <1>3 DEF Tidy
<1>6. ASSUME NEW i \in DOMAIN left, NEW m \in DOMAIN left, i < m
      PROVE  Better(side, left[i].price, left[m].price)
  <2>1. From(i) < From(m)
    BY <1>1, <1>2, <1>6
  <2> HIDE DEF From
  <2> QED BY <1>3, <2>1 DEF Tidy
<1> HIDE DEF From, To
<1>7. Tidy(side, left)
  BY <1>2, <1>5, <1>6 DEF Tidy
<1> QED BY <1>1, <1>2, <1>3, <1>4, <1>7 DEF left, From, To

\* The prices, queues and orders of a tidy bucket.
LEMMA TidyTypes ==
  ASSUME NEW side, NEW levels, Tidy(side, levels), NEW i \in DOMAIN levels
  PROVE  /\ levels \in Seq(Level)
         /\ levels[i].price \in Nat /\ levels[i].ids \in Seq(Orders)
         /\ levels[i] = [price |-> levels[i].price, ids |-> levels[i].ids]
         /\ levels[i].ids # <<>> /\ IsInjective(levels[i].ids)
         /\ \A j \in DOMAIN levels[i].ids :
              /\ levels[i].ids[j] \in Orders
              /\ OrderOf[levels[i].ids[j]].price = levels[i].price
<1>1. levels \in Seq(Level) /\ TidyLevel(levels[i])
  BY DEF Tidy
<1>2. /\ levels[i].ids # <<>> /\ IsInjective(levels[i].ids)
      /\ \A j \in DOMAIN levels[i].ids :
           OrderOf[levels[i].ids[j]].price = levels[i].price
  BY <1>1 DEF TidyLevel
<1>3. /\ levels[i].price \in Nat /\ levels[i].ids \in Seq(Orders)
      /\ levels[i] = [price |-> levels[i].price, ids |-> levels[i].ids]
      /\ \A j \in DOMAIN levels[i].ids : levels[i].ids[j] \in Orders
  BY <1>1, LevelTypes
<1> QED BY <1>1, <1>2, <1>3

\* An order's disclosed terms.
LEMMA OrderTypes ==
  ASSUME NEW o \in Orders
  PROVE  /\ OrderOf[o].side \in Sides /\ OrderOf[o].price \in Nat
         /\ OrderOf[o].amount \in Nat /\ OrderOf[o].expiresAt \in Nat
<1>1. OrderOf[o] \in [side: Sides, price: Nat, amount: Nat, owner: STRING,
                      expiresAt: Nat]
  BY OrderBookConstants
<1> QED BY <1>1

\* Bucket.add where there is a level of that price.
LEMMA PushGains ==
  ASSUME NEW side, NEW levels, Tidy(side, levels), NEW o \in Orders,
         ~Has(levels, o), NEW k \in DOMAIN levels,
         levels[k].price = OrderOf[o].price
  PROVE  Gains(side, levels, o,
               [levels EXCEPT ![k] = [price |-> OrderOf[o].price,
                                      ids |-> Append(@.ids, o)]])
<1> DEFINE q == levels[k].ids
           r == Append(q, o)
           l == [price |-> OrderOf[o].price, ids |-> r]
           left == [levels EXCEPT ![k] = l]
<1>1. /\ levels \in Seq(Level) /\ q \in Seq(Orders) /\ IsInjective(q)
      /\ levels[k].price \in Nat
      /\ \A j \in DOMAIN q : q[j] \in Orders /\ OrderOf[q[j]].price = levels[k].price
  BY TidyTypes
<1>2. \A j \in DOMAIN q : q[j] # o
  BY DEF Has
<1>3. Len(q) \in Nat /\ DOMAIN q = 1..Len(q)
  BY <1>1
<1> HIDE DEF q
<1>4. /\ r \in Seq(Orders) /\ r # <<>> /\ IsInjective(r)
      /\ DOMAIN r = 1..(Len(q) + 1)
      /\ \A j \in DOMAIN q : r[j] = q[j]
      /\ r[Len(q) + 1] = o
  <2>1. /\ r \in Seq(Orders) /\ r # <<>> /\ IsInjective(r)
        /\ Len(r) = Len(q) + 1
        /\ \A j \in 1..Len(q) : r[j] = q[j]
        /\ r[Len(q) + 1] = o
    BY <1>1, <1>2, QueueGrows, Zenon
  <2> HIDE DEF r
  <2>2. DOMAIN r = 1..(Len(q) + 1)
    BY <2>1
  <2> QED BY <1>3, <2>1, <2>2, Zenon
<1> HIDE DEF r
<1>5. l \in Level /\ l.ids = r /\ l.price = OrderOf[o].price
  BY <1>1, <1>4 DEF Level
<1> HIDE DEF l
<1>6. \A j \in DOMAIN r : (j \in DOMAIN q /\ r[j] = q[j]) \/ (j = Len(q) + 1 /\ r[j] = o)
  BY <1>3, <1>4
<1>7. TidyLevel(l)
  BY <1>1, <1>4, <1>5, <1>6 DEF TidyLevel
<1>8. /\ Tidy(side, left) /\ DOMAIN left = DOMAIN levels /\ left[k].ids = r
      /\ \A i \in DOMAIN levels : i # k => left[i] = levels[i]
  BY <1>5, <1>7, LevelSet
<1> HIDE DEF left
<1>9. ASSUME NEW x PROVE Has(left, x) <=> Has(levels, x) \/ x = o
  <2>1. ASSUME Has(left, x) PROVE Has(levels, x) \/ x = o
    <3>1. PICK i \in DOMAIN left : \E j \in DOMAIN left[i].ids : left[i].ids[j] = x
      BY <2>1 DEF Has
    <3>2. CASE i = k
      <4>1. PICK j \in DOMAIN r : r[j] = x
        BY <1>8, <3>1, <3>2
      <4> QED BY <1>6, <4>1 DEF Has, q
    <3>3. CASE i # k
      BY <1>8, <3>1, <3>3 DEF Has
    <3> QED BY <3>2, <3>3
  <2>2. ASSUME Has(levels, x) PROVE Has(left, x)
    <3>1. PICK i \in DOMAIN levels : \E j \in DOMAIN levels[i].ids : levels[i].ids[j] = x
      BY <2>2 DEF Has
    <3>2. CASE i = k
      <4>1. PICK j \in DOMAIN q : q[j] = x
        BY <3>1, <3>2 DEF q
      <4>2. j \in DOMAIN r /\ r[j] = x
        BY <1>3, <1>4, <4>1
      <4> QED BY <1>8, <4>2 DEF Has
    <3>3. CASE i # k
      BY <1>8, <3>1, <3>3 DEF Has
    <3> QED BY <3>2, <3>3
  <2>3. Has(left, o)
    <3>1. Len(q) + 1 \in DOMAIN r
      BY <1>3, <1>4
    <3> QED BY <1>4, <1>8, <3>1 DEF Has
  <2> QED BY <2>1, <2>2, <2>3
<1>10. ASSUME NEW a, NEW b, Ahead(left, a, b)
       PROVE  \/ Ahead(levels, a, b)
              \/ Has(levels, a) /\ b = o
  <2>1. PICK i \in DOMAIN left : \E j, m \in DOMAIN left[i].ids :
          j < m /\ left[i].ids[j] = a /\ left[i].ids[m] = b
    BY <1>10 DEF Ahead
  <2>2. CASE i # k
    BY <1>8, <2>1, <2>2 DEF Ahead
  <2>3. CASE i = k
    <3>1. PICK j \in DOMAIN r, m \in DOMAIN r : j < m /\ r[j] = a /\ r[m] = b
      BY <1>8, <2>1, <2>3
    <3>2. j \in DOMAIN q /\ q[j] = a
      BY <1>3, <1>4, <3>1
    <3>3. CASE m \in DOMAIN q
      <4>1. q[m] = b
        BY <1>4, <3>1, <3>3
      <4> QED BY <3>1, <3>2, <3>3, <4>1 DEF Ahead, q
    <3>4. CASE m \notin DOMAIN q
      <4>1. b = o
        BY <1>6, <3>1, <3>4
      <4> QED BY <3>2, <4>1 DEF Has, q
    <3> QED BY <3>3, <3>4
  <2> QED BY <2>2, <2>3
<1>11. Gains(side, levels, o, left)
  BY <1>8, <1>9, <1>10 DEF Gains
<1> QED BY <1>11 DEF left, l, r, q

\* Bucket.add where there is none.
LEMMA InsertGains ==
  ASSUME NEW side, NEW levels, Tidy(side, levels), NEW o \in Orders,
         NEW k \in 1..(Len(levels) + 1),
         \A i \in 1..(k - 1) : Better(side, levels[i].price, OrderOf[o].price),
         \A i \in k..Len(levels) : Better(side, OrderOf[o].price, levels[i].price)
  PROVE  Gains(side, levels, o,
               InsertAt(levels, k, [price |-> OrderOf[o].price, ids |-> <<o>>]))
<1> DEFINE r == <<o>>
           l == [price |-> OrderOf[o].price, ids |-> r]
           left == InsertAt(levels, k, l)
           From(i) == IF i < k THEN i ELSE i - 1
           To(i) == IF i < k THEN i ELSE i + 1
<1>1. r \in Seq(Orders) /\ r # <<>> /\ DOMAIN r = {1} /\ r[1] = o
  OBVIOUS
<1> HIDE DEF r
<1>2. l \in Level /\ l.ids = r /\ l.price = OrderOf[o].price
  BY <1>1, OrderTypes DEF Level
<1> HIDE DEF l
<1>3. TidyLevel(l)
  BY <1>1, <1>2 DEF TidyLevel, IsInjective
<1>4. /\ Tidy(side, left)
      /\ k \in DOMAIN left /\ left[k] = l
      /\ \A i \in DOMAIN left :
           i # k => From(i) \in DOMAIN levels /\ left[i] = levels[From(i)]
      /\ \A i \in DOMAIN levels :
           To(i) \in DOMAIN left /\ To(i) # k /\ left[To(i)] = levels[i]
  BY <1>2, <1>3, LevelInserted
<1> HIDE DEF left, From, To
<1>5. ASSUME NEW x PROVE Has(left, x) <=> Has(levels, x) \/ x = o
  <2>1. ASSUME Has(left, x) PROVE Has(levels, x) \/ x = o
    <3>1. PICK i \in DOMAIN left : \E j \in DOMAIN left[i].ids : left[i].ids[j] = x
      BY <2>1 DEF Has
    <3>2. CASE i = k
      BY <1>1, <1>2, <1>4, <3>1, <3>2
    <3>3. CASE i # k
      BY <1>4, <3>1, <3>3 DEF Has
    <3> QED BY <3>2, <3>3
  <2>2. ASSUME Has(levels, x) PROVE Has(left, x)
    BY <1>4, <2>2 DEF Has
  <2>3. Has(left, o)
    BY <1>1, <1>2, <1>4 DEF Has
  <2> QED BY <2>1, <2>2, <2>3
<1>6. ASSUME NEW a, NEW b, Ahead(left, a, b)
      PROVE  Ahead(levels, a, b)
  <2>1. PICK i \in DOMAIN left : \E j, m \in DOMAIN left[i].ids :
          j < m /\ left[i].ids[j] = a /\ left[i].ids[m] = b
    BY <1>6 DEF Ahead
  <2>2. i # k
    BY <1>1, <1>2, <1>4, <2>1
  <2> QED BY <1>4, <2>1, <2>2 DEF Ahead
<1>7. Gains(side, levels, o, left)
  BY <1>4, <1>5, <1>6 DEF Gains
<1> QED BY <1>7 DEF left, l, r

\* Bucket.add puts an order at the end of its price's queue, and keeps the
\* bucket tidy.
LEMMA AddGains ==
  ASSUME NEW side \in Sides, NEW levels, Tidy(side, levels), NEW o \in Orders,
         OrderOf[o].side = side, ~Has(levels, o)
  PROVE  Gains(side, levels, o, AddTo(levels, o))
<1> DEFINE price == OrderOf[o].price
           k == PlaceFor(side, levels, price)
<1>1. price \in Nat
  BY OrderTypes
<1>2. /\ k \in 1..(Len(levels) + 1)
      /\ \A i \in 1..(k - 1) : Better(side, levels[i].price, price)
      /\ \A i \in k..Len(levels) : ~Better(side, levels[i].price, price)
  BY <1>1, PlaceFound
<1>3. /\ AddTo(levels, o) =
           IF k <= Len(levels) /\ levels[k].price = price
           THEN [levels EXCEPT ![k] = [price |-> price, ids |-> Append(@.ids, o)]]
           ELSE InsertAt(levels, k, [price |-> price, ids |-> <<o>>])
  BY DEF AddTo
<1>4. DOMAIN levels = 1..Len(levels) /\ Len(levels) \in Nat
  BY DEF Tidy
<1> HIDE DEF k
<1>5. CASE k <= Len(levels) /\ levels[k].price = price
  <2>1. k \in DOMAIN levels
    BY <1>2, <1>4, <1>5
  <2>2. AddTo(levels, o) =
          [levels EXCEPT ![k] = [price |-> price, ids |-> Append(@.ids, o)]]
    BY <1>3, <1>5
  <2>3. levels[k].price = price
    BY <1>5
  <2>4. Gains(side, levels, o,
              [levels EXCEPT ![k] = [price |-> price, ids |-> Append(@.ids, o)]])
    BY <2>1, <2>3, PushGains
  <2> QED BY <2>2, <2>4
<1>6. CASE ~(k <= Len(levels) /\ levels[k].price = price)
  <2>1. ASSUME NEW i \in k..Len(levels) PROVE Better(side, price, levels[i].price)
    <3>1. i \in DOMAIN levels /\ k \in DOMAIN levels
      BY <1>2, <1>4
    <3>2. levels[i].price \in Nat /\ levels[k].price \in Nat
      BY <3>1, TidyTypes
    <3>3. levels[k].price # price /\ ~Better(side, levels[k].price, price)
      BY <1>2, <1>4, <1>6, <3>1
    <3>4. Better(side, price, levels[k].price)
      BY <1>1, <3>2, <3>3, BetterOrders
    <3>5. i # k => Better(side, levels[k].price, levels[i].price)
      BY <1>4, <3>1 DEF Tidy
    <3>6. CASE i = k
      BY <3>4, <3>6
    <3>7. CASE i # k
      BY <1>1, <3>2, <3>4, <3>5, <3>7, BetterOrders
    <3> QED BY <3>6, <3>7
  <2>2. \A i \in 1..(k - 1) : Better(side, levels[i].price, price)
    BY <1>2
  <2>3. AddTo(levels, o) =
          InsertAt(levels, k, [price |-> price, ids |-> <<o>>])
    BY <1>3, <1>6
  <2>4. Gains(side, levels, o,
              InsertAt(levels, k, [price |-> price, ids |-> <<o>>]))
    BY <1>2, <2>1, <2>2, InsertGains
  <2> QED BY <2>3, <2>4
<1> QED BY <1>5, <1>6

\* Bucket.remove of an order that is there.
LEMMA RemoveLoses ==
  ASSUME NEW side, NEW levels, Tidy(side, levels), NEW o, Has(levels, o)
  PROVE  Loses(side, levels, o, RemoveFrom(levels, o))
<1> DEFINE k == CHOOSE i \in DOMAIN levels :
                  \E j \in DOMAIN levels[i].ids : levels[i].ids[j] = o
           q == levels[k].ids
           p == CHOOSE j \in DOMAIN q : q[j] = o
           r == RemoveAt(q, p)
           l == [price |-> levels[k].price, ids |-> r]
<1>1. k \in DOMAIN levels /\ \E j \in DOMAIN q : q[j] = o
  BY DEF Has
<1>2. p \in DOMAIN q /\ q[p] = o
  BY <1>1
<1>3. RemoveFrom(levels, o) =
        IF r = <<>> THEN RemoveAt(levels, k) ELSE [levels EXCEPT ![k] = l]
  BY DEF RemoveFrom
<1> HIDE DEF k, p
<1>4. /\ levels \in Seq(Level) /\ q \in Seq(Orders) /\ IsInjective(q)
      /\ levels[k].price \in Nat
      /\ \A j \in DOMAIN q : q[j] \in Orders /\ OrderOf[q[j]].price = levels[k].price
  BY <1>1, TidyTypes
<1>5. Len(q) \in Nat /\ DOMAIN q = 1..Len(q)
  BY <1>4
<1> HIDE DEF q
<1>6. /\ r \in Seq(Orders) /\ IsInjective(r)
      /\ (r = <<>>) <=> (Len(q) = 1)
      /\ \A x : (\E j \in DOMAIN r : r[j] = x) <=>
                (\E j \in DOMAIN q : q[j] = x) /\ x # o
      /\ \A j, m \in DOMAIN r : j < m =>
           \E g, h \in DOMAIN q : g < h /\ q[g] = r[j] /\ q[h] = r[m]
  <2>1. /\ r \in Seq(Orders) /\ IsInjective(r)
        /\ (r = <<>>) <=> (Len(q) = 1)
        /\ \A x : (\E j \in DOMAIN r : r[j] = x) <=>
                  (\E j \in DOMAIN q : q[j] = x) /\ x # q[p]
        /\ \A j, m \in DOMAIN r : j < m =>
             \E g, h \in DOMAIN q : g < h /\ q[g] = r[j] /\ q[h] = r[m]
    BY <1>2, <1>4, QueueShrinks, Zenon
  <2> HIDE DEF r
  <2> QED BY <1>2, <2>1
<1> HIDE DEF r
\* No other level has the order, for its price is another.
<1>7. ASSUME NEW i \in DOMAIN levels, i # k, NEW j \in DOMAIN levels[i].ids
      PROVE  levels[i].ids[j] # o
  <2>1. levels[i].price \in Nat /\ levels[k].price \in Nat
    BY <1>1, TidyTypes
  <2>2. i < k \/ k < i
    BY <1>1, <1>4, <1>7
  <2>3. \/ Better(side, levels[i].price, levels[k].price)
        \/ Better(side, levels[k].price, levels[i].price)
    BY <1>1, <2>2 DEF Tidy
  <2>4. levels[i].price # levels[k].price
    BY <2>1, <2>3, BetterOrders
  <2>5. OrderOf[levels[i].ids[j]].price = levels[i].price
    BY TidyTypes
  <2> QED BY <1>2, <1>4, <2>4, <2>5
<1>8. CASE r = <<>>
  <2> DEFINE left == RemoveAt(levels, k)
             From(i) == IF i < k THEN i ELSE i + 1
             To(i) == IF i < k THEN i ELSE i - 1
  <2>1. /\ Tidy(side, left)
        /\ \A i \in DOMAIN left :
             /\ From(i) \in DOMAIN levels /\ From(i) # k
             /\ left[i] = levels[From(i)]
        /\ \A i \in DOMAIN levels :
             i # k => To(i) \in DOMAIN left /\ left[To(i)] = levels[i]
    BY <1>1, LevelDropped
  <2> HIDE DEF left, From, To
  <2>2. ASSUME NEW x PROVE Has(left, x) <=> Has(levels, x) /\ x # o
    <3>1. ASSUME Has(left, x) PROVE Has(levels, x) /\ x # o
      BY <1>7, <2>1, <3>1 DEF Has
    <3>2. ASSUME Has(levels, x), x # o PROVE Has(left, x)
      <4>1. PICK i \in DOMAIN levels : \E j \in DOMAIN levels[i].ids :
              levels[i].ids[j] = x
        BY <3>2 DEF Has
      <4>2. i # k
        <5>1. ~\E j \in DOMAIN r : r[j] = x
          BY <1>8
        <5>2. ~\E j \in DOMAIN q : q[j] = x
          BY <1>6, <3>2, <5>1
        <5> QED BY <4>1, <5>2 DEF q
      <4> QED BY <2>1, <4>1, <4>2 DEF Has
    <3> QED BY <3>1, <3>2
  <2>3. ASSUME NEW a, NEW b, Ahead(left, a, b) PROVE Ahead(levels, a, b)
    BY <2>1, <2>3 DEF Ahead
  <2>4. Loses(side, levels, o, left)
    BY <2>1, <2>2, <2>3 DEF Loses
  <2> QED BY <1>3, <1>8, <2>4 DEF left
<1>9. CASE r # <<>>
  <2> DEFINE left == [levels EXCEPT ![k] = l]
  <2>1. l \in Level /\ l.ids = r /\ l.price = levels[k].price
    BY <1>4, <1>6 DEF Level
  <2> HIDE DEF l
  <2>2. TidyLevel(l)
    <3>1. \A j \in DOMAIN r : OrderOf[r[j]].price = levels[k].price
      <4> TAKE j \in DOMAIN r
      <4>1. PICK i \in DOMAIN q : q[i] = r[j]
        BY <1>6, Zenon
      <4> QED BY <1>4, <4>1, Zenon
    <3> QED BY <1>6, <1>9, <2>1, <3>1, Zenon DEF TidyLevel
  <2>3. /\ Tidy(side, left) /\ DOMAIN left = DOMAIN levels /\ left[k].ids = r
        /\ \A i \in DOMAIN levels : i # k => left[i] = levels[i]
    BY <1>1, <2>1, <2>2, LevelSet
  <2> HIDE DEF left
  <2>4. ASSUME NEW x PROVE Has(left, x) <=> Has(levels, x) /\ x # o
    <3>1. ASSUME Has(left, x) PROVE Has(levels, x) /\ x # o
      <4>1. PICK i \in DOMAIN left : \E j \in DOMAIN left[i].ids : left[i].ids[j] = x
        BY <3>1 DEF Has
      <4>2. CASE i = k
        <5>1. \E j \in DOMAIN r : r[j] = x
          BY <2>3, <4>1, <4>2
        <5>2. (\E j \in DOMAIN q : q[j] = x) /\ x # o
          BY <1>6, <5>1
        <5> QED BY <1>1, <5>2 DEF Has, q
      <4>3. CASE i # k
        BY <1>7, <2>3, <4>1, <4>3 DEF Has
      <4> QED BY <4>2, <4>3
    <3>2. ASSUME Has(levels, x), x # o PROVE Has(left, x)
      <4>1. PICK i \in DOMAIN levels : \E j \in DOMAIN levels[i].ids :
              levels[i].ids[j] = x
        BY <3>2 DEF Has
      <4>2. CASE i = k
        <5>1. \E j \in DOMAIN r : r[j] = x
          BY <1>6, <3>2, <4>1, <4>2 DEF q
        <5> QED BY <1>1, <2>3, <5>1 DEF Has
      <4>3. CASE i # k
        BY <2>3, <4>1, <4>3 DEF Has
      <4> QED BY <4>2, <4>3
    <3> QED BY <3>1, <3>2
  <2>5. ASSUME NEW a, NEW b, Ahead(left, a, b) PROVE Ahead(levels, a, b)
    <3>1. PICK i \in DOMAIN left : \E j, m \in DOMAIN left[i].ids :
            j < m /\ left[i].ids[j] = a /\ left[i].ids[m] = b
      BY <2>5 DEF Ahead
    <3>2. CASE i # k
      BY <2>3, <3>1, <3>2 DEF Ahead
    <3>3. CASE i = k
      <4>1. PICK j \in DOMAIN r, m \in DOMAIN r : j < m /\ r[j] = a /\ r[m] = b
        BY <2>3, <3>1, <3>3
      <4>2. \E g, h \in DOMAIN q : g < h /\ q[g] = a /\ q[h] = b
        BY <1>6, <4>1
      <4> QED BY <1>1, <4>2 DEF Ahead, q
    <3> QED BY <3>2, <3>3
  <2>6. Loses(side, levels, o, left)
    BY <2>3, <2>4, <2>5 DEF Loses
  <2> QED BY <1>3, <1>9, <2>6 DEF left
<1> QED BY <1>8, <1>9

-----------------------------------------------------------------------------
(* Both sides of the book *)

\* The book holds exactly the orders of this set, each on its side.
Keeps(b, orders) ==
  /\ b \in [Sides -> Seq(Level)]
  /\ \A side \in Sides :
       /\ Tidy(side, b[side])
       /\ \A o : Has(b[side], o) <=> o \in orders /\ OrderOf[o].side = side

LEMMA EmptyBookKeeps == Keeps(EmptyBook, {})
<1>1. \A side \in Sides : EmptyBook[side] = <<>>
  BY DEF EmptyBook
<1>2. EmptyBook \in [Sides -> Seq(Level)]
  BY DEF EmptyBook
<1>3. \A side : Tidy(side, <<>>)
  BY DEF Tidy
<1>4. \A o : ~Has(<<>>, o)
  BY DEF Has
<1> QED BY <1>1, <1>2, <1>3, <1>4 DEF Keeps

\* OrderBook.add of an order the book does not have.
LEMMA AddKeeps ==
  ASSUME NEW b, NEW orders \in SUBSET Orders, Keeps(b, orders),
         NEW o \in Orders, o \notin orders
  PROVE  /\ Keeps(AddOrder(b, o), orders \cup {o})
         /\ \A side \in Sides : \A x, y : Ahead(AddOrder(b, o)[side], x, y) =>
              \/ Ahead(b[side], x, y)
              \/ x \in orders /\ y = o
<1> DEFINE s == OrderOf[o].side
           new == AddOrder(b, o)
<1>1. s \in Sides
  BY OrderTypes
<1>2. b \in [Sides -> Seq(Level)] /\ Tidy(s, b[s]) /\ ~Has(b[s], o)
  BY <1>1 DEF Keeps
<1>3. Gains(s, b[s], o, AddTo(b[s], o))
  BY <1>1, <1>2, AddGains
<1>4. AddTo(b[s], o) \in Seq(Level)
  BY <1>3 DEF Gains, Tidy
<1>5. /\ new \in [Sides -> Seq(Level)] /\ new[s] = AddTo(b[s], o)
      /\ \A side \in Sides : side # s => new[side] = b[side]
  <2> DEFINE l == AddTo(b[s], o)
  <2>1. new = [b EXCEPT ![s] = l]
    BY DEF AddOrder
  <2>2. l \in Seq(Level)
    BY <1>4
  <2> HIDE DEF l, new, s
  <2>3. /\ new \in [Sides -> Seq(Level)] /\ new[s] = l
        /\ \A side \in Sides : side # s => new[side] = b[side]
    BY <1>1, <1>2, <2>1, <2>2
  <2> QED BY <2>3 DEF l
<1> HIDE DEF new
<1>6. ASSUME NEW side \in Sides
      PROVE  /\ Tidy(side, new[side])
             /\ \A x : Has(new[side], x) <=>
                         x \in orders \cup {o} /\ OrderOf[x].side = side
             /\ \A x, y : Ahead(new[side], x, y) =>
                            Ahead(b[side], x, y) \/ (x \in orders /\ y = o)
  <2>1. CASE side = s
    BY <1>1, <1>3, <1>5, <2>1 DEF Gains, Keeps
  <2>2. CASE side # s
    BY <1>5, <2>2 DEF Keeps
  <2> QED BY <2>1, <2>2
<1>7. Keeps(new, orders \cup {o})
  BY <1>5, <1>6 DEF Keeps
<1> QED BY <1>6, <1>7 DEF new

\* OrderBook.remove of an order the book has.
LEMMA RemoveKeeps ==
  ASSUME NEW b, NEW orders \in SUBSET Orders, Keeps(b, orders), NEW o \in orders
  PROVE  /\ Keeps(RemoveOrder(b, o), orders \ {o})
         /\ \A side \in Sides : \A x, y :
              Ahead(RemoveOrder(b, o)[side], x, y) => Ahead(b[side], x, y)
<1> DEFINE s == OrderOf[o].side
           new == RemoveOrder(b, o)
<1>1. s \in Sides
  BY OrderTypes
<1>2. b \in [Sides -> Seq(Level)] /\ Tidy(s, b[s]) /\ Has(b[s], o)
  BY <1>1 DEF Keeps
<1>3. Loses(s, b[s], o, RemoveFrom(b[s], o))
  BY <1>2, RemoveLoses
<1>4. RemoveFrom(b[s], o) \in Seq(Level)
  BY <1>3 DEF Loses, Tidy
<1>5. /\ new \in [Sides -> Seq(Level)] /\ new[s] = RemoveFrom(b[s], o)
      /\ \A side \in Sides : side # s => new[side] = b[side]
  <2> DEFINE l == RemoveFrom(b[s], o)
  <2>1. new = [b EXCEPT ![s] = l]
    BY DEF RemoveOrder
  <2>2. l \in Seq(Level)
    BY <1>4
  <2> HIDE DEF l, new, s
  <2>3. /\ new \in [Sides -> Seq(Level)] /\ new[s] = l
        /\ \A side \in Sides : side # s => new[side] = b[side]
    BY <1>1, <1>2, <2>1, <2>2
  <2> QED BY <2>3 DEF l
<1> HIDE DEF new
<1>6. ASSUME NEW side \in Sides
      PROVE  /\ Tidy(side, new[side])
             /\ \A x : Has(new[side], x) <=>
                         x \in orders \ {o} /\ OrderOf[x].side = side
             /\ \A x, y : Ahead(new[side], x, y) => Ahead(b[side], x, y)
  <2>1. CASE side = s
    BY <1>1, <1>3, <1>5, <2>1 DEF Loses, Keeps
  <2>2. CASE side # s
    BY <1>5, <2>2 DEF Keeps
  <2> QED BY <2>1, <2>2
<1>7. Keeps(new, orders \ {o})
  BY <1>5, <1>6 DEF Keeps
<1> QED BY <1>6, <1>7 DEF new

-----------------------------------------------------------------------------
(* The invariant *)

TypeOK ==
  /\ requests \subseteq Orders \X Nat /\ received \in Nat
  /\ status \in [Orders -> Statuses] /\ createdAt \in [Orders -> Nat]
  /\ matches \subseteq [buy: Orders, sell: Orders, price: Nat]
  /\ listed \subseteq Orders
  /\ incoming \in Orders \cup {NoOrder}
  /\ level \in Nat \ {0} /\ pos \in Nat \ {0} /\ disturbed \in BOOLEAN
  /\ accepted \in Nat /\ arrival \in [Orders -> Nat]
  /\ now \in Nat /\ crashes \in Nat

\* What the book should hold: open orders, but for those of an unfinished start.
Waiting == {o \in Orders : status[o] = "OPEN"} \ listed

\* A start lists open orders, and a search is for one, when no start is on.
ThreadInv ==
  /\ \A o \in listed : status[o] = "OPEN"
  /\ crashes = 0 => listed = {}
  /\ incoming # NoOrder => listed = {} /\ status[incoming] = "OPEN"

\* Arrivals are counted.
ArrivalInv == \A o \in Orders : arrival[o] <= accepted

QueuesInv ==
  crashes = 0 =>
    \A side \in Sides : \A x, y :
      Ahead(book[side], x, y) => arrival[x] < arrival[y]

\* An undisturbed walk has passed nobody the order may trade with.
WalkInv ==
  incoming # NoOrder /\ ~disturbed =>
    \A i \in DOMAIN Bucket : \A j \in DOMAIN Bucket[i].ids :
      i < level \/ (i = level /\ j < pos) =>
        Bucket[i].ids[j] \notin Counterparties(incoming, status, now)

BookInv == Keeps(book, Waiting)

Claimed(o) == \E m \in matches : o = m.buy \/ o = m.sell

\* Matched rows and match rows.
ClaimInv ==
  /\ \A o \in Orders : status[o] = "MATCHED" <=> Claimed(o)
  /\ \A m1, m2 \in matches :
       (\E o : (o = m1.buy \/ o = m1.sell) /\ (o = m2.buy \/ o = m2.sell)) => m1 = m2

MatchingInv ==
  /\ TypeOK /\ ThreadInv /\ BookInv /\ ArrivalInv /\ QueuesInv
  /\ ClaimInv /\ MatchesAreSettleable /\ WalkInv

\* The parts that a step which leaves the walk alone, or ends it, cannot break.
TableInv ==
  /\ TypeOK /\ ThreadInv /\ BookInv /\ ArrivalInv /\ QueuesInv
  /\ ClaimInv /\ MatchesAreSettleable

\* The walk's positions at its start.
LEMMA FromTheTop ==
  ASSUME level' = 1, pos' = 1
  PROVE  level' \in Nat \ {0} /\ pos' \in Nat \ {0}
OBVIOUS

\* No search is on in the new state.
LEMMA NobodyWalks ==
  ASSUME incoming' = NoOrder
  PROVE  WalkInv'
BY DEF WalkInv

LEMMA InitMatching == Init => MatchingInv
<1> SUFFICES ASSUME Init PROVE MatchingInv
  OBVIOUS
<1>1. TypeOK
  <2>1. status \in [Orders -> Statuses]
    BY DEF Init, Statuses
  <2>2. createdAt \in [Orders -> Nat] /\ arrival \in [Orders -> Nat]
    BY DEF Init
  <2>3. level \in Nat \ {0} /\ pos \in Nat \ {0}
    BY DEF Init, NotSearching
  <2> QED BY <2>1, <2>2, <2>3 DEF Init, NotSearching, TypeOK
<1>2. ThreadInv /\ ArrivalInv /\ WalkInv
  BY DEF Init, NotSearching, ThreadInv, ArrivalInv, WalkInv
<1>3. BookInv
  <2>1. Waiting = {}
    BY DEF Init, Waiting
  <2> QED BY <2>1, EmptyBookKeeps DEF Init, BookInv
<1>4. QueuesInv
  <2>1. \A side \in Sides : book[side] = <<>>
    BY DEF Init, EmptyBook
  <2> QED BY <2>1 DEF QueuesInv, Ahead
<1>5. ClaimInv /\ MatchesAreSettleable
  BY DEF Init, ClaimInv, Claimed, MatchesAreSettleable
<1> QED BY <1>1, <1>2, <1>3, <1>4, <1>5 DEF MatchingInv

\* A waiting order leaves the book.
LEMMA WaitingLeaves ==
  ASSUME BookInv, QueuesInv, NEW o \in Waiting, book' = RemoveOrder(book, o),
         Waiting' = Waiting \ {o}, UNCHANGED <<arrival, crashes>>
  PROVE  BookInv' /\ QueuesInv'
<1>1. Waiting \in SUBSET Orders
  BY DEF Waiting
<1>2. /\ Keeps(book', Waiting')
      /\ \A side \in Sides : \A x, y :
           Ahead(book'[side], x, y) => Ahead(book[side], x, y)
  BY <1>1, RemoveKeeps DEF BookInv
<1> QED BY <1>2 DEF BookInv, QueuesInv

\* A waiting order becomes EXPIRED or CANCELLED and leaves the book.
LEMMA OrderEnds ==
  ASSUME TableInv, NEW o \in Orders, NEW end \in {"EXPIRED", "CANCELLED"},
         status[o] = "OPEN", o \notin listed, o # incoming,
         status' = [status EXCEPT ![o] = end], book' = RemoveOrder(book, o),
         incoming' \in {incoming, NoOrder},
         level' \in Nat \ {0}, pos' \in Nat \ {0}, disturbed' \in BOOLEAN,
         UNCHANGED <<requests, received, createdAt, matches, listed, history, now>>
  PROVE  TableInv'
<1>1. status' \in [Orders -> Statuses] /\ status'[o] = end
      /\ \A x \in Orders : x # o => status'[x] = status[x]
  BY DEF TableInv, TypeOK, Statuses
<1>2. TypeOK'
  BY <1>1 DEF TableInv, TypeOK, history
<1>3. ThreadInv'
  BY <1>1 DEF TableInv, TypeOK, ThreadInv, history
<1>4. o \in Waiting /\ Waiting' = Waiting \ {o}
  BY <1>1 DEF Waiting
<1>5. BookInv' /\ QueuesInv'
  BY <1>4, WaitingLeaves DEF TableInv, history
<1>6. ArrivalInv' /\ MatchesAreSettleable'
  BY DEF TableInv, ArrivalInv, MatchesAreSettleable, history
<1>7. ClaimInv'
  <2>1. \A x : Claimed(x)' <=> Claimed(x)
    BY DEF Claimed
  <2>2. \A x \in Orders : status'[x] = "MATCHED" <=> status[x] = "MATCHED"
    BY <1>1
  <2>3. \A x \in Orders : status'[x] = "MATCHED" <=> Claimed(x)'
    BY <2>1, <2>2 DEF TableInv, ClaimInv
  <2> QED BY <2>3 DEF TableInv, ClaimInv
<1> QED BY <1>2, <1>3, <1>5, <1>6, <1>7 DEF TableInv

\* The order a search visits: it waits in the book, on the other side.
LEMMA VisitedWaits ==
  ASSUME TableInv, NEW c, Visits(c)
  PROVE  /\ incoming \in Orders /\ c \in Orders /\ status[c] = "OPEN"
         /\ listed = {} /\ status[incoming] = "OPEN" /\ c # incoming
         /\ OrderOf[c].side = Opposite(OrderOf[incoming].side)
         /\ OrderOf[incoming].side \in Sides
         /\ Tidy(OrderOf[c].side, Bucket)
         /\ OrderOf[c].price = Bucket[level].price
<1> DEFINE s == Opposite(OrderOf[incoming].side)
<1>1. /\ incoming # NoOrder /\ incoming \in Orders /\ listed = {}
      /\ status[incoming] = "OPEN"
  BY DEF Visits, TableInv, ThreadInv, TypeOK
<1>2. OrderOf[incoming].side \in Sides /\ s \in Sides /\ s # OrderOf[incoming].side
  BY <1>1, OrderTypes DEF Sides, Opposite
<1>3. Tidy(s, Bucket) /\ \A o : Has(Bucket, o) <=> o \in Waiting /\ OrderOf[o].side = s
  BY <1>2 DEF TableInv, BookInv, Keeps, Bucket
<1>4. Has(Bucket, c)
  BY DEF Visits, Has
<1>5. c \in Waiting /\ OrderOf[c].side = s
  BY <1>3, <1>4
<1>6. OrderOf[c].price = Bucket[level].price
  BY <1>3, TidyTypes DEF Visits
<1> QED BY <1>1, <1>2, <1>3, <1>5, <1>6 DEF Waiting

-----------------------------------------------------------------------------
(* Every step keeps the invariant *)

LEMMA SubmitKeeps ==
  ASSUME MatchingInv, NEW o \in Orders, Submit(o)
  PROVE  MatchingInv'
<1>1. TypeOK'
  BY DEF MatchingInv, TypeOK, Submit, tables, walk, history
<1>2. UNCHANGED <<status, createdAt, matches, book, listed, incoming, level, pos,
                  disturbed, accepted, arrival, crashes, now>>
  BY DEF Submit, tables, walk, history
<1>3. ThreadInv' /\ ArrivalInv' /\ QueuesInv' /\ MatchesAreSettleable'
  BY <1>2 DEF MatchingInv, ThreadInv, ArrivalInv, QueuesInv, MatchesAreSettleable
<1>4. BookInv' /\ ClaimInv'
  BY <1>2 DEF MatchingInv, BookInv, Waiting, ClaimInv, Claimed
<1>5. WalkInv'
  BY <1>2 DEF MatchingInv, WalkInv, Bucket
<1> QED BY <1>1, <1>3, <1>4, <1>5 DEF MatchingInv

LEMMA RejectKeeps ==
  ASSUME MatchingInv, NEW r \in requests, RejectByChain(r)
  PROVE  MatchingInv'
<1>1. TypeOK'
  BY DEF MatchingInv, TypeOK, RejectByChain, tables, walk, history
<1>2. UNCHANGED <<status, createdAt, matches, book, listed, incoming, level, pos,
                  disturbed, accepted, arrival, crashes, now>>
  BY DEF RejectByChain, tables, walk, history
<1>3. ThreadInv' /\ ArrivalInv' /\ QueuesInv' /\ MatchesAreSettleable'
  BY <1>2 DEF MatchingInv, ThreadInv, ArrivalInv, QueuesInv, MatchesAreSettleable
<1>4. BookInv' /\ ClaimInv'
  BY <1>2 DEF MatchingInv, BookInv, Waiting, ClaimInv, Claimed
<1>5. WalkInv'
  BY <1>2 DEF MatchingInv, WalkInv, Bucket
<1> QED BY <1>1, <1>3, <1>4, <1>5 DEF MatchingInv

LEMMA TickKeeps ==
  ASSUME MatchingInv, Tick
  PROVE  MatchingInv'
<1>1. UNCHANGED <<requests, received, status, createdAt, matches, book, listed,
                  incoming, level, pos, disturbed, accepted, arrival, crashes>>
  BY DEF Tick, tables, walk, history
<1>2. now \in Nat /\ now' = now + 1
  BY DEF Tick, MatchingInv, TypeOK
<1>3. TypeOK'
  BY <1>1, <1>2 DEF MatchingInv, TypeOK
<1>4. ThreadInv' /\ ArrivalInv' /\ QueuesInv' /\ MatchesAreSettleable'
  BY <1>1 DEF MatchingInv, ThreadInv, ArrivalInv, QueuesInv, MatchesAreSettleable
<1>5. BookInv' /\ ClaimInv'
  BY <1>1 DEF MatchingInv, BookInv, Waiting, ClaimInv, Claimed
\* The clock only makes counterparties fewer.
<1>6. Counterparties(incoming', status', now') \subseteq
        Counterparties(incoming, status, now)
  <2>1. \A c \in Orders : ExpiredAt(c, now) => ExpiredAt(c, now')
    BY <1>2, OrderTypes DEF ExpiredAt
  <2> QED BY <1>1, <2>1 DEF Counterparties
<1>7. WalkInv'
  BY <1>1, <1>6 DEF MatchingInv, WalkInv, Bucket
<1> QED BY <1>3, <1>4, <1>5, <1>7 DEF MatchingInv

LEMMA ArriveKeeps ==
  ASSUME MatchingInv, NEW r \in requests, Arrive(r)
  PROVE  MatchingInv'
<1> DEFINE o == r[1]
<1>1. o \in Orders /\ r[2] \in Nat
  BY DEF MatchingInv, TypeOK
<1>2. /\ incoming = NoOrder /\ listed = {} /\ listed' = {}
      /\ status[o] = "NONE" /\ status' = [status EXCEPT ![o] = "OPEN"]
      /\ createdAt' = [createdAt EXCEPT ![o] = r[2]]
      /\ requests' = requests \ {r}
      /\ book' = AddOrder(book, o)
      /\ incoming' = o /\ level' = 1 /\ pos' = 1 /\ disturbed' = FALSE
      /\ accepted' = accepted + 1
      /\ arrival' = [arrival EXCEPT ![o] = accepted + 1]
      /\ UNCHANGED <<received, matches, listed, crashes, now>>
  BY DEF Arrive, Idle
<1> HIDE DEF o
<1>3. /\ status' \in [Orders -> Statuses] /\ status'[o] = "OPEN"
      /\ \A x \in Orders : x # o => status'[x] = status[x]
  BY <1>1, <1>2 DEF MatchingInv, TypeOK, Statuses
<1>4. /\ arrival' \in [Orders -> Nat] /\ arrival'[o] = accepted + 1
      /\ \A x \in Orders : x # o => arrival'[x] = arrival[x]
      /\ accepted \in Nat
  BY <1>1, <1>2 DEF MatchingInv, TypeOK
<1>5. TypeOK'
  <2>1. createdAt' \in [Orders -> Nat]
    BY <1>1, <1>2 DEF MatchingInv, TypeOK
  <2>2. level' \in Nat \ {0} /\ pos' \in Nat \ {0} /\ accepted' \in Nat
    BY <1>2, <1>4, FromTheTop
  <2> QED BY <1>1, <1>2, <1>3, <1>4, <2>1, <2>2 DEF MatchingInv, TypeOK
<1>6. ThreadInv'
  BY <1>1, <1>2, <1>3 DEF ThreadInv
<1>7. ArrivalInv'
  <2>1. \A x \in Orders : arrival[x] <= accepted /\ arrival[x] \in Nat
    BY DEF MatchingInv, ArrivalInv, TypeOK
  <2> QED BY <1>2, <1>4, <2>1 DEF ArrivalInv
<1>8. Waiting' = Waiting \cup {o} /\ o \notin Waiting /\ Waiting \subseteq Orders
  BY <1>1, <1>2, <1>3 DEF Waiting
<1>9. /\ Keeps(book', Waiting')
      /\ \A side \in Sides : \A x, y : Ahead(book'[side], x, y) =>
           Ahead(book[side], x, y) \/ (x \in Waiting /\ y = o)
  BY <1>1, <1>2, <1>8, AddKeeps DEF MatchingInv, BookInv
<1>10. BookInv'
  BY <1>9 DEF BookInv
\* Those in the queue came before.
<1>11. QueuesInv'
  <2> SUFFICES ASSUME crashes = 0, NEW side \in Sides, NEW x, NEW y,
                      Ahead(book'[side], x, y)
               PROVE  arrival'[x] < arrival'[y]
    BY <1>2 DEF QueuesInv
  <2>1. \A z : Has(book[side], z) => z \in Waiting
    BY DEF MatchingInv, BookInv, Keeps
  <2>2. CASE Ahead(book[side], x, y)
    <3>1. x \in Waiting /\ y \in Waiting
      BY <2>1, <2>2 DEF Ahead, Has
    <3>2. arrival[x] < arrival[y]
      BY <2>2 DEF MatchingInv, QueuesInv
    <3> QED BY <1>4, <1>8, <3>1, <3>2
  <2>3. CASE x \in Waiting /\ y = o
    <3>1. arrival[x] <= accepted /\ arrival[x] \in Nat
      BY <1>8, <2>3 DEF MatchingInv, ArrivalInv, TypeOK
    <3> QED BY <1>4, <1>8, <2>3, <3>1
  <2> QED BY <1>9, <2>2, <2>3
<1>12. ClaimInv'
  <2>1. \A x : Claimed(x)' <=> Claimed(x)
    BY <1>2 DEF Claimed
  <2>2. \A x \in Orders : status'[x] = "MATCHED" <=> status[x] = "MATCHED"
    BY <1>2, <1>3
  <2>3. \A x \in Orders : status'[x] = "MATCHED" <=> Claimed(x)'
    BY <2>1, <2>2 DEF MatchingInv, ClaimInv
  <2> QED BY <1>2, <2>3 DEF MatchingInv, ClaimInv
<1>13. MatchesAreSettleable'
  BY <1>2 DEF MatchingInv, MatchesAreSettleable
\* The walk has passed nobody yet.
<1>14. WalkInv'
  <2>1. \A side \in Sides : \A i \in DOMAIN book'[side] : i >= 1
    BY <1>9, LevelTypes DEF Keeps, Tidy
  <2>2. \A side \in Sides : \A i \in DOMAIN book'[side] :
          \A j \in DOMAIN book'[side][i].ids : j >= 1
    <3> TAKE side \in Sides
    <3> TAKE i \in DOMAIN book'[side]
    <3>1. DOMAIN book'[side][i].ids = 1..Len(book'[side][i].ids)
      BY <1>9, LevelTypes DEF Keeps, Tidy
    <3> QED BY <3>1
  <2>3. Opposite(OrderOf[o].side) \in Sides
    BY <1>1, OrderTypes DEF Opposite, Sides
  <2> DEFINE s == Opposite(OrderOf[o].side)
  <2>4. Bucket' = book'[s]
    BY <1>2 DEF Bucket
  <2>5. ASSUME NEW i \in DOMAIN book'[s], NEW j \in DOMAIN book'[s][i].ids
        PROVE  ~(i < level' \/ (i = level' /\ j < pos'))
    <3>1. i >= 1 /\ j >= 1 /\ i \in Nat /\ j \in Nat
      BY <2>1, <2>2, <2>3, <1>9, LevelTypes DEF Keeps, Tidy
    <3> QED BY <1>2, <3>1
  <2> QED BY <2>4, <2>5 DEF WalkInv
<1> QED BY <1>5, <1>6, <1>7, <1>10, <1>11, <1>12, <1>13, <1>14 DEF MatchingInv

\* A step of the walk that only moves its positions, or ends it.
LEMMA WalkMoves ==
  ASSUME TableInv, JustWalk, incoming' \in {incoming, NoOrder},
         level' \in Nat \ {0}, pos' \in Nat \ {0}, disturbed' \in BOOLEAN
  PROVE  TableInv'
<1>1. UNCHANGED <<requests, received, status, createdAt, matches, book, listed,
                  accepted, arrival, crashes, now>>
  BY DEF JustWalk, tables, history
<1>2. TypeOK'
  BY <1>1 DEF TableInv, TypeOK
<1>3. ThreadInv' /\ ArrivalInv' /\ QueuesInv' /\ MatchesAreSettleable'
  BY <1>1 DEF TableInv, ThreadInv, ArrivalInv, QueuesInv, MatchesAreSettleable
<1>4. BookInv' /\ ClaimInv'
  BY <1>1 DEF TableInv, BookInv, Waiting, ClaimInv, Claimed
<1> QED BY <1>2, <1>3, <1>4 DEF TableInv

LEMMA SameInvariant == MatchingInv <=> TableInv /\ WalkInv
BY DEF MatchingInv, TableInv

LEMMA SameInvariantNext == MatchingInv' <=> TableInv' /\ WalkInv'
BY DEF MatchingInv, TableInv

\* What ends a search ends the duties of the walk.
LEMMA SearchOver ==
  ASSUME MatchingInv, JustWalk, EndSearch
  PROVE  MatchingInv'
<1>1. /\ incoming' \in {incoming, NoOrder} /\ disturbed' \in BOOLEAN
      /\ level' \in Nat \ {0} /\ pos' \in Nat \ {0}
  BY FromTheTop DEF EndSearch
<1>2. TableInv'
  BY <1>1, WalkMoves, SameInvariant
<1> QED BY <1>2, NobodyWalks, SameInvariantNext DEF EndSearch

\* The bucket searched is tidy.
LEMMA BucketTidy ==
  ASSUME TableInv, incoming # NoOrder
  PROVE  /\ incoming \in Orders
         /\ Opposite(OrderOf[incoming].side) \in Sides
         /\ Tidy(Opposite(OrderOf[incoming].side), Bucket)
<1>1. incoming \in Orders
  BY DEF TableInv, TypeOK
<1>2. Opposite(OrderOf[incoming].side) \in Sides
  BY <1>1, OrderTypes DEF Sides, Opposite
<1> QED BY <1>1, <1>2 DEF TableInv, BookInv, Keeps, Bucket

\* The positions of a bucket are numbers.
LEMMA Positions ==
  ASSUME TableInv, incoming # NoOrder, NEW i \in DOMAIN Bucket
  PROVE  /\ i \in Nat \ {0}
         /\ DOMAIN Bucket[i].ids = 1..Len(Bucket[i].ids)
         /\ Len(Bucket[i].ids) \in Nat
         /\ \A j \in DOMAIN Bucket[i].ids : Bucket[i].ids[j] \in Orders
<1>1. Bucket \in Seq(Level)
  BY BucketTidy DEF Tidy
<1>2. i \in 1..Len(Bucket) /\ Len(Bucket) \in Nat
  BY <1>1
<1>3. Bucket[i].ids \in Seq(Orders)
  BY <1>1, LevelTypes
<1> HIDE DEF Bucket
<1> QED BY <1>2, <1>3

LEMMA NextLevelKeeps ==
  ASSUME MatchingInv, NextLevel
  PROVE  MatchingInv'
<1>1. /\ incoming # NoOrder /\ level \in DOMAIN Bucket
      /\ pos \notin DOMAIN Bucket[level].ids
      /\ level' = level + 1 /\ pos' = 1 /\ incoming' = incoming
      /\ disturbed' = disturbed /\ JustWalk
  BY DEF NextLevel, GoTo
<1>2. level \in Nat \ {0} /\ pos \in Nat \ {0} /\ disturbed \in BOOLEAN
  BY DEF MatchingInv, TypeOK
<1>3. TableInv'
  BY <1>1, <1>2, WalkMoves, SameInvariant
<1>4. UNCHANGED <<status, book, now>> /\ Bucket' = Bucket
  BY <1>1 DEF JustWalk, tables, Bucket
<1>5. ASSUME NEW i \in DOMAIN Bucket, NEW j \in DOMAIN Bucket[i].ids,
             i < level' \/ (i = level' /\ j < pos')
      PROVE  i < level \/ (i = level /\ j < pos)
  <2>1. i \in Nat \ {0} /\ j \in Nat \ {0} /\ j <= Len(Bucket[i].ids)
    BY <1>1, Positions, SameInvariant
  <2>2. DOMAIN Bucket[i].ids = 1..Len(Bucket[i].ids) /\ Len(Bucket[i].ids) \in Nat
    BY <1>1, Positions, SameInvariant
  <2>3. i < level \/ i = level
    BY <1>1, <1>2, <1>5, <2>1
  <2>4. i = level => j < pos
    BY <1>1, <1>2, <2>1, <2>2
  <2> QED BY <2>3, <2>4
<1>6. WalkInv'
  BY <1>1, <1>4, <1>5 DEF MatchingInv, WalkInv
<1> QED BY <1>3, <1>6, SameInvariantNext

LEMMA SkipKeeps ==
  ASSUME MatchingInv, NEW c, Skip(c)
  PROVE  MatchingInv'
<1>1. /\ Visits(c) /\ ~Due(c) /\ ~Eligible(incoming, c, status)
      /\ level' = level /\ pos' = pos + 1 /\ incoming' = incoming
      /\ disturbed' = disturbed /\ JustWalk
  BY DEF Skip, GoTo
<1>2. level \in Nat \ {0} /\ pos \in Nat \ {0} /\ disturbed \in BOOLEAN
  BY DEF MatchingInv, TypeOK
<1>3. TableInv'
  BY <1>1, <1>2, WalkMoves, SameInvariant
<1>4. UNCHANGED <<status, book, now>> /\ Bucket' = Bucket
  BY <1>1 DEF JustWalk, tables, Bucket
<1>5. /\ incoming # NoOrder /\ level \in DOMAIN Bucket
      /\ pos \in DOMAIN Bucket[level].ids /\ c = Bucket[level].ids[pos]
  BY <1>1 DEF Visits
<1>6. c \notin Counterparties(incoming, status, now)
  BY <1>1 DEF Eligible, Counterparties
<1>7. ASSUME NEW i \in DOMAIN Bucket, NEW j \in DOMAIN Bucket[i].ids,
             i < level' \/ (i = level' /\ j < pos')
      PROVE  (i < level \/ (i = level /\ j < pos)) \/ (i = level /\ j = pos)
  <2>1. j \in Nat \ {0} /\ i \in Nat \ {0}
    BY <1>5, Positions, SameInvariant
  <2> QED BY <1>1, <1>2, <1>7, <2>1
<1>8. ASSUME ~disturbed, NEW i \in DOMAIN Bucket, NEW j \in DOMAIN Bucket[i].ids,
             i < level' \/ (i = level' /\ j < pos')
      PROVE  Bucket[i].ids[j] \notin Counterparties(incoming, status, now)
  BY <1>5, <1>6, <1>7, <1>8 DEF MatchingInv, WalkInv
<1>9. WalkInv'
  BY <1>1, <1>4, <1>8 DEF WalkInv
<1> QED BY <1>3, <1>9, SameInvariantNext

\* An evicted order either ends the search or disturbs the walk.
LEMMA EvictKeeps ==
  ASSUME MatchingInv, NEW c, Evict(c)
  PROVE  MatchingInv'
<1>1. /\ c \in Orders /\ status[c] = "OPEN" /\ c \notin listed /\ c # incoming
  BY VisitedWaits, SameInvariant DEF Evict
<1>2. level \in Nat \ {0} /\ pos \in Nat \ {0} /\ disturbed \in BOOLEAN
  BY DEF MatchingInv, TypeOK
<1>3. \/ incoming' = NoOrder /\ level' = 1 /\ pos' = 1 /\ disturbed' = FALSE
      \/ /\ incoming' = incoming /\ disturbed' = TRUE
         /\ level' \in {level, level + 1} /\ pos' \in {1, pos + 1}
  BY DEF Evict, EndSearch, GoTo
<1>4. /\ incoming' \in {incoming, NoOrder} /\ disturbed' \in BOOLEAN
      /\ level' \in Nat \ {0} /\ pos' \in Nat \ {0}
  <2>1. level + 1 \in Nat \ {0} /\ pos + 1 \in Nat \ {0}
    BY <1>2
  <2>2. 1 \in Nat \ {0}
    OBVIOUS
  <2> QED BY <1>2, <1>3, <2>1, <2>2, Zenon
<1>5. TableInv'
  BY <1>1, <1>4, OrderEnds, SameInvariant DEF Evict
<1>6. WalkInv'
  BY <1>3 DEF WalkInv
<1> QED BY <1>5, <1>6, SameInvariantNext

LEMMA MaterializeKeeps ==
  ASSUME MatchingInv, NEW o \in Orders, MaterializeExpiry(o)
  PROVE  MatchingInv'
<1>1. /\ incoming = NoOrder /\ listed = {} /\ status[o] = "OPEN"
      /\ UNCHANGED <<incoming, level, pos, disturbed>>
  BY DEF MaterializeExpiry, Idle, Due, walk
<1>2. o # incoming
  BY <1>1, OrderBookConstants
<1>3. level' \in Nat \ {0} /\ pos' \in Nat \ {0} /\ disturbed' \in BOOLEAN
  BY <1>1 DEF MatchingInv, TypeOK
<1>4. TableInv'
  BY <1>1, <1>2, <1>3, OrderEnds, SameInvariant DEF MaterializeExpiry
<1> QED BY <1>1, <1>4, NobodyWalks, SameInvariantNext

LEMMA CancelKeeps ==
  ASSUME MatchingInv, NEW o \in Orders, CancelOrder(o)
  PROVE  MatchingInv'
<1>1. /\ incoming = NoOrder /\ listed = {} /\ status[o] = "OPEN"
      /\ UNCHANGED <<incoming, level, pos, disturbed>>
  BY DEF CancelOrder, Idle, walk
<1>2. o # incoming
  BY <1>1, OrderBookConstants
<1>3. level' \in Nat \ {0} /\ pos' \in Nat \ {0} /\ disturbed' \in BOOLEAN
  BY <1>1 DEF MatchingInv, TypeOK
<1>4. TableInv'
  BY <1>1, <1>2, <1>3, OrderEnds, SameInvariant DEF CancelOrder
<1> QED BY <1>1, <1>4, NobodyWalks, SameInvariantNext

\* The match of an eligible pair is one the contract accepts.
LEMMA EligiblePair ==
  ASSUME NEW o \in Orders, NEW c \in Orders,
         OrderOf[c].side = Opposite(OrderOf[o].side), OrderOf[o].side \in Sides,
         PricesCross(o, c), Eligible(o, c, status)
  PROVE  LET m == MatchOf(o, c)
         IN  /\ m \in [buy: Orders, sell: Orders, price: Nat]
             /\ \A x : (x = m.buy \/ x = m.sell) <=> (x = o \/ x = c)
             /\ OrderOf[m.buy].side = "BUY" /\ OrderOf[m.sell].side = "SELL"
             /\ OrderOf[m.buy].amount = OrderOf[m.sell].amount
             /\ OrderOf[m.buy].owner # OrderOf[m.sell].owner
             /\ OrderOf[m.sell].price <= m.price
             /\ m.price <= OrderOf[m.buy].price
<1> DEFINE m == MatchOf(o, c)
<1>1. OrderOf[o].price \in Nat /\ OrderOf[c].price \in Nat
  BY OrderTypes
<1>2. CASE OrderOf[o].side = "BUY"
  <2>1. m = [buy |-> o, sell |-> c, price |-> OrderOf[c].price]
    BY <1>2 DEF MatchOf
  <2>2. m.buy = o /\ m.sell = c /\ m.price = OrderOf[c].price
    BY <2>1
  <2>3. m \in [buy: Orders, sell: Orders, price: Nat]
    BY <1>1, <2>1
  <2> HIDE DEF m
  <2>4. /\ OrderOf[m.sell].side = "SELL" /\ m.price <= OrderOf[m.buy].price
        /\ OrderOf[m.sell].price <= m.price
    BY <1>1, <1>2, <2>2 DEF Opposite, PricesCross
  <2> QED BY <1>2, <2>2, <2>3, <2>4 DEF Eligible, m
<1>3. CASE OrderOf[o].side = "SELL"
  <2>1. m = [buy |-> c, sell |-> o, price |-> OrderOf[o].price]
    BY <1>3 DEF MatchOf
  <2>2. m.buy = c /\ m.sell = o /\ m.price = OrderOf[o].price
    BY <2>1
  <2>3. m \in [buy: Orders, sell: Orders, price: Nat]
    BY <1>1, <2>1
  <2> HIDE DEF m
  <2>4. /\ OrderOf[m.buy].side = "BUY" /\ m.price <= OrderOf[m.buy].price
        /\ OrderOf[m.sell].price <= m.price
    BY <1>1, <1>3, <2>2 DEF Opposite, PricesCross
  <2> QED BY <1>3, <2>2, <2>3, <2>4 DEF Eligible, m
<1> QED BY <1>2, <1>3 DEF Sides

LEMMA TakeKeeps ==
  ASSUME MatchingInv, NEW c, Take(c)
  PROVE  MatchingInv'
<1> DEFINE o == incoming
           m == MatchOf(o, c)
<1>1. /\ o \in Orders /\ c \in Orders /\ status[c] = "OPEN"
      /\ listed = {} /\ status[o] = "OPEN" /\ c # o
      /\ OrderOf[c].side = Opposite(OrderOf[o].side)
      /\ OrderOf[o].side \in Sides
  BY VisitedWaits, SameInvariant DEF Take
<1>2. /\ PricesCross(o, c) /\ Eligible(o, c, status)
      /\ status' = [status EXCEPT ![o] = "MATCHED", ![c] = "MATCHED"]
      /\ matches' = matches \cup {m}
      /\ book' = RemoveOrder(RemoveOrder(book, o), c)
      /\ incoming' = NoOrder /\ level' = 1 /\ pos' = 1 /\ disturbed' = FALSE
      /\ UNCHANGED <<requests, received, createdAt, listed, accepted, arrival,
                     crashes, now>>
  BY DEF Take, Claim, EndSearch, history
<1>3. /\ m \in [buy: Orders, sell: Orders, price: Nat]
      /\ \A x : (x = m.buy \/ x = m.sell) <=> (x = o \/ x = c)
      /\ OrderOf[m.buy].side = "BUY" /\ OrderOf[m.sell].side = "SELL"
      /\ OrderOf[m.buy].amount = OrderOf[m.sell].amount
      /\ OrderOf[m.buy].owner # OrderOf[m.sell].owner
      /\ OrderOf[m.sell].price <= m.price /\ m.price <= OrderOf[m.buy].price
  BY <1>1, <1>2, EligiblePair
<1> HIDE DEF o, m
<1>4. /\ status' \in [Orders -> Statuses]
      /\ status'[o] = "MATCHED" /\ status'[c] = "MATCHED"
      /\ \A x \in Orders : x # o /\ x # c => status'[x] = status[x]
  BY <1>1, <1>2 DEF MatchingInv, TypeOK, Statuses
<1>5. TypeOK'
  <2>1. level' \in Nat \ {0} /\ pos' \in Nat \ {0}
    BY <1>2, FromTheTop
  <2>2. matches' \subseteq [buy: Orders, sell: Orders, price: Nat]
    BY <1>2, <1>3 DEF MatchingInv, TypeOK
  <2> QED BY <1>2, <1>4, <2>1, <2>2 DEF MatchingInv, TypeOK
<1>6. ThreadInv' /\ ArrivalInv'
  BY <1>1, <1>2 DEF MatchingInv, ThreadInv, ArrivalInv
<1>7. o \in Waiting /\ c \in Waiting \ {o} /\ Waiting' = (Waiting \ {o}) \ {c}
  BY <1>1, <1>2, <1>4 DEF Waiting
<1>8. BookInv' /\ QueuesInv'
  <2> DEFINE b == RemoveOrder(book, o)
  <2>1. Waiting \in SUBSET Orders /\ Waiting \ {o} \in SUBSET Orders
    BY DEF Waiting
  <2>2. /\ Keeps(b, Waiting \ {o})
        /\ \A side \in Sides : \A x, y :
             Ahead(b[side], x, y) => Ahead(book[side], x, y)
    BY <1>7, <2>1, RemoveKeeps DEF MatchingInv, BookInv
  <2> HIDE DEF b
  <2>3. /\ Keeps(RemoveOrder(b, c), (Waiting \ {o}) \ {c})
        /\ \A side \in Sides : \A x, y :
             Ahead(RemoveOrder(b, c)[side], x, y) => Ahead(b[side], x, y)
    BY <1>7, <2>1, <2>2, RemoveKeeps
  <2>4. book' = RemoveOrder(b, c)
    BY <1>2 DEF b
  <2> QED BY <1>2, <1>7, <2>2, <2>3, <2>4 DEF MatchingInv, BookInv, QueuesInv
\* Open orders are in no match, so neither was.
<1>9. ClaimInv'
  <2>1. ~Claimed(o) /\ ~Claimed(c)
    BY <1>1 DEF MatchingInv, ClaimInv
  <2>2. \A x : Claimed(x)' <=> Claimed(x) \/ x = o \/ x = c
    BY <1>2, <1>3 DEF Claimed
  <2>3. \A x \in Orders : status'[x] = "MATCHED" <=> Claimed(x)'
    BY <1>4, <2>2 DEF MatchingInv, ClaimInv
  <2>4. \A m1 \in matches : \A x : (x = m1.buy \/ x = m1.sell) => x # o /\ x # c
    BY <2>1 DEF Claimed
  <2>5. \A m1, m2 \in matches' :
          (\E x : (x = m1.buy \/ x = m1.sell) /\ (x = m2.buy \/ x = m2.sell))
            => m1 = m2
    <3>1. \A m1, m2 \in matches :
            (\E x : (x = m1.buy \/ x = m1.sell) /\ (x = m2.buy \/ x = m2.sell))
              => m1 = m2
      BY DEF MatchingInv, ClaimInv
    <3>2. PICK n : matches' = matches \cup {n} /\ n.buy \in {o, c} /\ n.sell \in {o, c}
      BY <1>2, <1>3
    <3> QED BY <2>4, <3>1, <3>2
  <2> QED BY <2>3, <2>5 DEF ClaimInv
<1>10. MatchesAreSettleable'
  BY <1>2, <1>3 DEF MatchingInv, MatchesAreSettleable
<1> QED BY <1>2, <1>5, <1>6, <1>8, <1>9, <1>10, NobodyWalks DEF MatchingInv

LEMMA CrashKeeps ==
  ASSUME MatchingInv, CrashAndRestart
  PROVE  MatchingInv'
<1>1. /\ crashes' = crashes + 1 /\ requests' = {}
      /\ status' = [o \in Orders |-> IF Due(o) THEN "EXPIRED" ELSE status[o]]
      /\ listed' = {o \in Orders : status[o] = "OPEN" /\ ~Due(o)}
      /\ book' = EmptyBook
      /\ incoming' = NoOrder /\ level' = 1 /\ pos' = 1 /\ disturbed' = FALSE
      /\ UNCHANGED <<received, createdAt, matches, accepted, arrival, now>>
  BY DEF CrashAndRestart, EndSearch
<1>2. crashes \in Nat /\ status \in [Orders -> Statuses]
  BY DEF MatchingInv, TypeOK
<1>3. /\ status' \in [Orders -> Statuses]
      /\ \A o \in Orders : status'[o] = IF Due(o) THEN "EXPIRED" ELSE status[o]
  BY <1>1, <1>2 DEF Statuses
<1>4. TypeOK'
  <2>1. level' \in Nat \ {0} /\ pos' \in Nat \ {0} /\ crashes' \in Nat
    BY <1>1, <1>2, FromTheTop
  <2> QED BY <1>1, <1>3, <2>1 DEF MatchingInv, TypeOK
<1>5. ThreadInv' /\ ArrivalInv' /\ MatchesAreSettleable'
  BY <1>1, <1>2, <1>3 DEF MatchingInv, ThreadInv, ArrivalInv, MatchesAreSettleable
<1>6. BookInv'
  <2>1. Waiting' = {}
    BY <1>1, <1>3 DEF Waiting
  <2> QED BY <1>1, <2>1, EmptyBookKeeps DEF BookInv
<1>7. QueuesInv'
  BY <1>1, <1>2 DEF QueuesInv
<1>8. ClaimInv'
  <2>1. \A x : Claimed(x)' <=> Claimed(x)
    BY <1>1 DEF Claimed
  <2>2. \A x \in Orders : status'[x] = "MATCHED" <=> status[x] = "MATCHED"
    BY <1>3 DEF Due
  <2>3. \A x \in Orders : status'[x] = "MATCHED" <=> Claimed(x)'
    BY <2>1, <2>2 DEF MatchingInv, ClaimInv
  <2> QED BY <1>1, <2>3 DEF MatchingInv, ClaimInv
<1> QED BY <1>1, <1>4, <1>5, <1>6, <1>7, <1>8, NobodyWalks DEF MatchingInv

LEMMA AddListedKeeps ==
  ASSUME MatchingInv, NEW o \in Orders, AddListed(o)
  PROVE  MatchingInv'
<1>1. /\ o \in listed /\ listed' = listed \ {o} /\ book' = AddOrder(book, o)
      /\ UNCHANGED <<requests, received, status, createdAt, matches, incoming,
                     level, pos, disturbed, accepted, arrival, crashes, now>>
  BY DEF AddListed, tables, walk, history
<1>2. TypeOK'
  BY <1>1 DEF MatchingInv, TypeOK
<1>3. incoming = NoOrder /\ crashes # 0 /\ status[o] = "OPEN"
  BY <1>1 DEF MatchingInv, ThreadInv
<1>4. ThreadInv' /\ ArrivalInv' /\ MatchesAreSettleable'
  BY <1>1, <1>3 DEF MatchingInv, ThreadInv, ArrivalInv, MatchesAreSettleable
<1>5. /\ Waiting' = Waiting \cup {o} /\ o \notin Waiting
      /\ Waiting \in SUBSET Orders
  BY <1>1, <1>3 DEF Waiting
<1>6. BookInv'
  BY <1>1, <1>5, AddKeeps DEF MatchingInv, BookInv
<1>7. QueuesInv' /\ ClaimInv'
  BY <1>1, <1>3 DEF MatchingInv, QueuesInv, ClaimInv, Claimed
<1> QED BY <1>1, <1>2, <1>3, <1>4, <1>6, <1>7, NobodyWalks DEF MatchingInv

LEMMA StutterKeeps ==
  ASSUME MatchingInv, UNCHANGED vars
  PROVE  MatchingInv'
<1>1. UNCHANGED <<requests, received, status, createdAt, matches, book, listed,
                  incoming, level, pos, disturbed, accepted, arrival, crashes,
                  now>>
  BY DEF vars, tables, walk, history
<1>2. TypeOK' /\ ThreadInv' /\ ArrivalInv' /\ QueuesInv' /\ MatchesAreSettleable'
  BY <1>1 DEF MatchingInv, TypeOK, ThreadInv, ArrivalInv, QueuesInv,
              MatchesAreSettleable
<1>3. BookInv' /\ ClaimInv' /\ WalkInv'
  BY <1>1 DEF MatchingInv, BookInv, Waiting, ClaimInv, Claimed, WalkInv, Bucket
<1> QED BY <1>2, <1>3 DEF MatchingInv

LEMMA NextKeeps ==
  ASSUME MatchingInv, [Next]_vars
  PROVE  MatchingInv'
<1>1. ASSUME NEW o \in Orders, Submit(o) PROVE MatchingInv'
  BY <1>1, SubmitKeeps
<1>2. ASSUME NEW o \in Orders, MaterializeExpiry(o) PROVE MatchingInv'
  BY <1>2, MaterializeKeeps
<1>3. ASSUME NEW o \in Orders, CancelOrder(o) PROVE MatchingInv'
  BY <1>3, CancelKeeps
<1>4. ASSUME NEW o \in Orders, AddListed(o) PROVE MatchingInv'
  BY <1>4, AddListedKeeps
<1>5. ASSUME NEW r \in requests, Arrive(r) PROVE MatchingInv'
  BY <1>5, ArriveKeeps
<1>6. ASSUME NEW r \in requests, RejectByChain(r) \/ RejectLate(r)
      PROVE  MatchingInv'
  BY <1>6, RejectKeeps DEF RejectLate
<1>7. CASE SearchStep
  <2>1. CASE NextLevel
    BY <2>1, NextLevelKeeps
  <2>2. CASE EndOfBook
    BY <2>2, SearchOver DEF EndOfBook
  <2>3. ASSUME NEW c \in Orders, Evict(c) PROVE MatchingInv'
    BY <2>3, EvictKeeps
  <2>4. ASSUME NEW c \in Orders, TooDear(c) PROVE MatchingInv'
    BY <2>4, SearchOver DEF TooDear
  <2>5. ASSUME NEW c \in Orders, Skip(c) PROVE MatchingInv'
    BY <2>5, SkipKeeps
  <2>6. ASSUME NEW c \in Orders, Take(c) PROVE MatchingInv'
    BY <2>6, TakeKeeps
  <2> QED BY <1>7, <2>1, <2>2, <2>3, <2>4, <2>5, <2>6 DEF SearchStep
<1>8. CASE CrashAndRestart
  BY <1>8, CrashKeeps
<1>9. CASE Tick
  BY <1>9, TickKeeps
<1>10. CASE UNCHANGED vars
  BY <1>10, StutterKeeps
<1> QED BY <1>1, <1>2, <1>3, <1>4, <1>5, <1>6, <1>7, <1>8, <1>9, <1>10 DEF Next

\* The invariant all results of this module rest on: types, a book that holds
\* the waiting orders, queues in order of arrival, matches as claimed, and a
\* walk that has passed nobody it should have taken.
THEOREM MatchingInductive == Spec => []MatchingInv
<1>1. Init => MatchingInv
  BY InitMatching
<1>2. MatchingInv /\ [Next]_vars => MatchingInv'
  BY NextKeeps
<1> QED BY <1>1, <1>2, PTL DEF Spec

-----------------------------------------------------------------------------
(* What the invariant says of the properties *)

LEMMA InvMirrors == MatchingInv => BookMirrorsTable
<1> SUFFICES ASSUME MatchingInv, NEW side \in Sides PROVE Mirrored(side)
  BY DEF BookMirrorsTable
<1> DEFINE levels == book[side]
<1>1. Tidy(side, levels) /\ \A o : Has(levels, o) <=>
                                     o \in Waiting /\ OrderOf[o].side = side
  BY DEF MatchingInv, BookInv, Keeps
<1> HIDE DEF levels
<1>2. \A o \in Orders : Has(levels, o) <=>
        status[o] = "OPEN" /\ OrderOf[o].side = side /\ o \notin listed
  BY <1>1 DEF Waiting
<1>3. \A i \in DOMAIN levels :
        /\ levels[i].ids # <<>>
        /\ IsInjective(levels[i].ids)
        /\ \A j \in DOMAIN levels[i].ids :
             OrderOf[levels[i].ids[j]].price = levels[i].price
        /\ \A k \in DOMAIN levels :
             i < k => Better(side, levels[i].price, levels[k].price)
  BY <1>1 DEF Tidy, TidyLevel
<1> QED BY <1>2, <1>3 DEF Mirrored, levels

LEMMA InvQueues == MatchingInv => TimePriorityKept
BY DEF MatchingInv, QueuesInv, Ahead, TimePriorityKept

LEMMA InvClaims == MatchingInv => ClaimedOnce
<1> SUFFICES ASSUME MatchingInv PROVE ClaimedOnce
  OBVIOUS
<1>1. matches \subseteq [buy: Orders, sell: Orders, price: Nat]
  BY DEF MatchingInv, TypeOK
<1>2. \A m \in matches : m.buy \in Orders /\ m.sell \in Orders
  BY <1>1
<1>3. \A o : o \in UNION {{m.buy, m.sell} : m \in matches} <=> Claimed(o)
  BY DEF Claimed
<1>4. \A o : Claimed(o) => o \in Orders
  BY <1>2 DEF Claimed
<1>5. \A o : o \in {x \in Orders : status[x] = "MATCHED"} <=> Claimed(o)
  BY <1>4 DEF MatchingInv, ClaimInv
<1>6. {o \in Orders : status[o] = "MATCHED"} =
        UNION {{m.buy, m.sell} : m \in matches}
  BY <1>3, <1>5
<1>7. ASSUME NEW m1 \in matches, NEW m2 \in matches,
             {m1.buy, m1.sell} \cap {m2.buy, m2.sell} # {}
      PROVE  m1 = m2
  <2>1. PICK o : o \in {m1.buy, m1.sell} /\ o \in {m2.buy, m2.sell}
    BY <1>7
  <2> QED BY <2>1 DEF MatchingInv, ClaimInv
<1> QED BY <1>6, <1>7 DEF ClaimedOnce

\* The in-memory book is the table's open orders, whatever is submitted,
\* cancelled, matched, expired, evicted in mid-walk or lost in a crash
\* (OrderService.ts, OrderBook.ts).
THEOREM BookMirrors == Spec => []BookMirrorsTable
BY MatchingInductive, InvMirrors, PTL

\* First in, first out at every price, until a restart (Bucket.ts).
THEOREM QueuesKeepArrivalOrder == Spec => []TimePriorityKept
BY MatchingInductive, InvQueues, PTL

\* No order is claimed twice, and no row is MATCHED without a match
\* (OrderService.submitOrder's transaction).
THEOREM NoDoubleClaim == Spec => []ClaimedOnce
BY MatchingInductive, InvClaims, PTL

\* Every match passes the asserts of the circuit settle() on side, amount,
\* owner and price.
THEOREM MatchesSettle == Spec => []MatchesAreSettleable
<1>1. MatchingInv => MatchesAreSettleable
  BY DEF MatchingInv
<1> QED BY <1>1, MatchingInductive, PTL

-----------------------------------------------------------------------------
(* Price-time priority *)

\* A counterparty an undisturbed walk has not passed is where it still comes.
LEMMA StillAhead ==
  ASSUME MatchingInv, incoming # NoOrder, ~disturbed,
         NEW d \in Counterparties(incoming, status, now)
  PROVE  \E i \in DOMAIN Bucket : \E j \in DOMAIN Bucket[i].ids :
           /\ Bucket[i].ids[j] = d
           /\ i > level \/ (i = level /\ j >= pos)
<1>1. /\ d \in Orders /\ status[d] = "OPEN"
      /\ OrderOf[d].side = Opposite(OrderOf[incoming].side)
  BY DEF Counterparties
<1>2. listed = {} /\ TableInv
  BY SameInvariant DEF MatchingInv, ThreadInv
<1>3. Opposite(OrderOf[incoming].side) \in Sides
  BY <1>2, BucketTidy
<1>4. Has(Bucket, d)
  BY <1>1, <1>2, <1>3 DEF MatchingInv, BookInv, Keeps, Waiting, Bucket
<1>5. PICK i \in DOMAIN Bucket : \E j \in DOMAIN Bucket[i].ids : Bucket[i].ids[j] = d
  BY <1>4 DEF Has
<1>6. PICK j \in DOMAIN Bucket[i].ids : Bucket[i].ids[j] = d
  BY <1>5
<1>7. ~(i < level \/ (i = level /\ j < pos))
  BY <1>6 DEF MatchingInv, WalkInv
<1>8. i \in Nat /\ level \in Nat /\ pos \in Nat /\ j \in Nat
  <2>1. i \in Nat /\ j \in 1..Len(Bucket[i].ids) /\ Len(Bucket[i].ids) \in Nat
    BY <1>2, Positions
  <2> QED BY <2>1 DEF MatchingInv, TypeOK
<1> QED BY <1>6, <1>7, <1>8

\* Where one order of a tidy bucket does not cross, none after it does.
LEMMA NobodyBeyond ==
  ASSUME MatchingInv, ~disturbed, NEW c, Visits(c), ~PricesCross(incoming, c)
  PROVE  Counterparties(incoming, status, now) = {}
<1> SUFFICES ASSUME NEW d \in Counterparties(incoming, status, now) PROVE FALSE
  OBVIOUS
<1> DEFINE s == OrderOf[c].side
<1>1. TableInv /\ incoming # NoOrder /\ level \in DOMAIN Bucket
  BY SameInvariant DEF Visits
<1>2. /\ incoming \in Orders /\ c \in Orders /\ Tidy(s, Bucket)
      /\ s = Opposite(OrderOf[incoming].side) /\ OrderOf[incoming].side \in Sides
      /\ OrderOf[c].price = Bucket[level].price
  BY <1>1, VisitedWaits
<1>3. PICK i \in DOMAIN Bucket : \E j \in DOMAIN Bucket[i].ids :
        /\ Bucket[i].ids[j] = d
        /\ i > level \/ (i = level /\ j >= pos)
  BY <1>1, StillAhead
<1>4. OrderOf[d].price = Bucket[i].price
  BY <1>2, <1>3, TidyTypes
<1>5. i \in Nat /\ level \in Nat
  BY <1>1, Positions
<1>6. i = level \/ Better(s, Bucket[level].price, Bucket[i].price)
  BY <1>1, <1>2, <1>3, <1>5 DEF Tidy
<1>7. d \in Orders /\ PricesCross(incoming, d)
  BY DEF Counterparties
<1>8. /\ OrderOf[c].price \in Nat /\ OrderOf[d].price \in Nat
      /\ OrderOf[incoming].price \in Nat
  BY <1>2, <1>7, OrderTypes
<1>9. OrderOf[d].price = OrderOf[c].price \/ Better(s, OrderOf[c].price, OrderOf[d].price)
  BY <1>2, <1>4, <1>6
<1> HIDE DEF s
<1> QED BY <1>2, <1>7, <1>8, <1>9 DEF Better, PricesCross, Opposite, Sides

\* Who rests has found nobody.
LEMMA RestsAlone ==
  ASSUME MatchingInv, Counterparties(incoming, status, now) = {},
         status'[incoming] = "OPEN"
  PROVE  TakesBest(incoming)
BY DEF TakesBest

LEMMA EndRests ==
  ASSUME MatchingInv, EndOfBook, ~disturbed
  PROVE  TakesBest(incoming)
<1>1. incoming # NoOrder /\ level \notin DOMAIN Bucket /\ status' = status
  BY DEF EndOfBook, JustWalk, tables
<1>2. Counterparties(incoming, status, now) = {}
  <2> SUFFICES ASSUME NEW d \in Counterparties(incoming, status, now) PROVE FALSE
    OBVIOUS
  <2>1. PICK i \in DOMAIN Bucket : i > level \/ i = level
    BY <1>1, StillAhead
  <2>2. Bucket \in Seq(Level)
    BY <1>1, BucketTidy, SameInvariant DEF Tidy
  <2>3. level \in Nat \ {0}
    BY DEF MatchingInv, TypeOK
  <2> HIDE DEF Bucket
  <2>4. level \in DOMAIN Bucket
    BY <2>1, <2>2, <2>3
  <2> QED BY <1>1, <2>4
<1>3. status'[incoming] = "OPEN"
  BY <1>1 DEF MatchingInv, ThreadInv
<1> QED BY <1>2, <1>3, RestsAlone

LEMMA TooDearRests ==
  ASSUME MatchingInv, NEW c, TooDear(c), ~disturbed
  PROVE  TakesBest(incoming)
<1>1. Visits(c) /\ ~PricesCross(incoming, c) /\ status' = status
  BY DEF TooDear, JustWalk, tables
<1>2. status'[incoming] = "OPEN"
  BY <1>1, VisitedWaits, SameInvariant
<1> QED BY <1>1, <1>2, NobodyBeyond, RestsAlone

LEMMA EvictRests ==
  ASSUME MatchingInv, NEW c, Evict(c), SearchEnds, ~disturbed
  PROVE  TakesBest(incoming)
<1>1. Visits(c) /\ status' = [status EXCEPT ![c] = "EXPIRED"]
  BY DEF Evict
<1>2. ~PricesCross(incoming, c)
  BY DEF Evict, SearchEnds, GoTo
<1>3. c # incoming /\ status[incoming] = "OPEN" /\ incoming \in Orders
  BY <1>1, VisitedWaits, SameInvariant
<1>4. status'[incoming] = "OPEN"
  BY <1>1, <1>3 DEF MatchingInv, TypeOK
<1> QED BY <1>1, <1>2, <1>4, NobodyBeyond, RestsAlone

\* Who is taken comes before everybody who is still to come.
LEMMA TakeIsBest ==
  ASSUME MatchingInv, NEW c, Take(c), ~disturbed, crashes = 0
  PROVE  TakesBest(incoming)
<1> DEFINE cs == Counterparties(incoming, status, now)
<1>1. /\ Visits(c) /\ ~Due(c) /\ PricesCross(incoming, c)
      /\ Eligible(incoming, c, status)
      /\ status' = [status EXCEPT ![incoming] = "MATCHED", ![c] = "MATCHED"]
      /\ MatchOf(incoming, c) \in matches'
  BY DEF Take, Claim
<1>2. TableInv /\ incoming # NoOrder /\ level \in DOMAIN Bucket
      /\ pos \in DOMAIN Bucket[level].ids /\ c = Bucket[level].ids[pos]
  BY <1>1, SameInvariant DEF Visits
<1>3. /\ incoming \in Orders /\ c \in Orders /\ status[c] = "OPEN"
      /\ OrderOf[c].side = Opposite(OrderOf[incoming].side)
      /\ OrderOf[incoming].side \in Sides
      /\ Tidy(OrderOf[c].side, Bucket)
      /\ OrderOf[c].price = Bucket[level].price
  BY <1>1, <1>2, VisitedWaits
<1>4. c \in cs
  BY <1>1, <1>3 DEF Counterparties, Eligible, Due
<1>5. status'[incoming] = "MATCHED"
  BY <1>1, <1>3 DEF MatchingInv, TypeOK
<1>6. ASSUME NEW d \in cs \ {c} PROVE Precedes(c, d, arrival)
  <2>1. PICK i \in DOMAIN Bucket : \E j \in DOMAIN Bucket[i].ids :
          /\ Bucket[i].ids[j] = d
          /\ i > level \/ (i = level /\ j >= pos)
    BY <1>2, StillAhead
  <2>2. PICK j \in DOMAIN Bucket[i].ids :
          /\ Bucket[i].ids[j] = d
          /\ i > level \/ (i = level /\ j >= pos)
    BY <2>1
  <2>3. OrderOf[d].price = Bucket[i].price
    BY <1>3, <2>2, TidyTypes
  <2>4. /\ i \in Nat /\ j \in Nat /\ level \in Nat /\ pos \in Nat
    <3>1. i \in Nat /\ j \in 1..Len(Bucket[i].ids) /\ Len(Bucket[i].ids) \in Nat
      BY <1>2, Positions
    <3> QED BY <3>1 DEF MatchingInv, TypeOK
  <2>5. CASE i > level
    <3>1. Better(OrderOf[c].side, Bucket[level].price, Bucket[i].price)
      BY <1>2, <1>3, <2>4, <2>5 DEF Tidy
    <3> QED BY <1>3, <2>3, <3>1 DEF Precedes
  <2>6. CASE i = level /\ j >= pos
    <3>1. pos < j
      BY <1>2, <2>2, <2>4, <2>6
    <3>2. Ahead(Bucket, c, d)
      <4>1. j \in DOMAIN Bucket[level].ids /\ Bucket[level].ids[j] = d
        BY <2>2, <2>6
      <4>2. /\ level \in DOMAIN Bucket /\ pos \in DOMAIN Bucket[level].ids
            /\ Bucket[level].ids[pos] = c
        BY <1>2, Zenon
      <4> QED BY <3>1, <4>1, <4>2, Zenon DEF Ahead
    <3>3. arrival[c] < arrival[d]
      BY <1>2, <3>2, BucketTidy DEF MatchingInv, QueuesInv, Bucket
    <3> QED BY <1>3, <2>3, <2>6, <3>3 DEF Precedes
  <2> QED BY <2>2, <2>5, <2>6
<1> HIDE DEF cs
<1> QED BY <1>1, <1>4, <1>5, <1>6 DEF TakesBest, cs

\* A search ends in a step of its own, or in a crash.
LEMMA EndingsAreBest ==
  ASSUME MatchingInv, [Next]_vars, SearchEnds, crashes' = 0, ~disturbed
  PROVE  TakesBest(incoming)
<1>1. incoming # NoOrder /\ incoming' = NoOrder
  BY DEF SearchEnds
<1>2. listed = {} /\ crashes \in Nat
  BY <1>1 DEF MatchingInv, ThreadInv, TypeOK
<1>3. SearchStep
  <2>1. \A o \in Orders : ~Submit(o) /\ ~MaterializeExpiry(o) /\ ~CancelOrder(o)
    BY <1>1 DEF Submit, MaterializeExpiry, CancelOrder, Idle
  <2>2. \A o \in Orders : ~AddListed(o)
    BY <1>2 DEF AddListed
  <2>3. \A r \in requests : ~Arrive(r) /\ ~RejectByChain(r) /\ ~RejectLate(r)
    BY <1>1 DEF Arrive, RejectByChain, RejectLate, Idle
  <2>4. ~CrashAndRestart
    BY <1>2 DEF CrashAndRestart
  <2>5. ~Tick /\ ~UNCHANGED vars
    BY <1>1 DEF Tick, vars, walk
  <2> QED BY <2>1, <2>2, <2>3, <2>4, <2>5 DEF Next
<1>4. ~NextLevel
  BY <1>1 DEF NextLevel, GoTo
<1>5. \A c \in Orders : ~Skip(c)
  BY <1>1 DEF Skip, GoTo
<1>6. ASSUME NEW c \in Orders, Take(c) PROVE crashes = 0
  BY <1>6 DEF Take, history
<1> QED BY <1>3, <1>4, <1>5, <1>6, EndRests, TooDearRests, EvictRests,
           TakeIsBest DEF SearchStep

\* Price-time priority of every search that evicts no expired order on its
\* way, for any book: the order taken is the best price and, at that price, the
\* first arrival, and an order rests only if nobody could trade with it
\* (MatchingStrategy.ts, Bucket.iterateInPriorityOrder).
THEOREM PriceTimePriority == Spec => UndisturbedArrivalTakesBest
<1>1. MatchingInv /\ [Next]_vars =>
        [SearchEnds /\ crashes' = 0 /\ ~disturbed => TakesBest(incoming)]_vars
  BY EndingsAreBest
<1> QED BY <1>1, MatchingInductive, PTL DEF Spec, UndisturbedArrivalTakesBest
=============================================================================
