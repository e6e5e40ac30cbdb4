--------------------------- MODULE MCAuctionEdits ---------------------------
(* Small instances of AuctionEdits for TLC. *)
EXTENDS AuctionEdits

MCAmounts == {4, 6}
=============================================================================
