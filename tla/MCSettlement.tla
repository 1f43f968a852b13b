--------------------------- MODULE MCSettlement ----------------------------
(* Small instances of settlement for TLC. *)
EXTENDS Settlement

CONSTANTS b1, s1

OnePair == {<<b1, s1>>}
=============================================================================
