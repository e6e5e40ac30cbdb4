--------------------------- MODULE MCSettlement ---------------------------
(* Small instances of Settlement for TLC. *)
EXTENDS SettlementPages, TLC

CONSTANTS r1, r2, b1, b2

MCSymmetry == Permutations({r1, r2}) \cup Permutations({b1, b2})
===========================================================================
