---------------------------- MODULE MCMatching -----------------------------
(* A small instance of order intake and matching for TLC. *)
EXTENDS Matching

Order(side, price, amount, owner, expiresAt) ==
  [side |-> side, price |-> price, amount |-> amount, owner |-> owner,
   expiresAt |-> expiresAt]

\* Two sells at one price, the first of which expires early, a dearer one, a
\* buy that crosses them all, and a buy that does not, of another amount, whose
\* owner also sells.
CrossingOrders ==
  [o \in {"s1", "s2", "s3", "b1", "b2"} |->
     CASE o = "s1" -> Order("SELL", 1, 1, "ann", 1)
       [] o = "s2" -> Order("SELL", 1, 1, "bea", 2)
       [] o = "s3" -> Order("SELL", 2, 1, "ann", 3)
       [] o = "b1" -> Order("BUY", 2, 1, "cat", 3)
       [] o = "b2" -> Order("BUY", 1, 2, "bea", 3)]

CrossingOrdersIds == DOMAIN CrossingOrders
=============================================================================
