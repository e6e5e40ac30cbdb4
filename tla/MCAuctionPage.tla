--------------------------- MODULE MCAuctionPage ---------------------------
(* Small instances of AuctionPage for TLC. *)
EXTENDS AuctionPage
============================================================================
