----------------------------- MODULE MCAuction -----------------------------
(* Small instances of Auction for TLC. *)
EXTENDS Auction
=============================================================================
