--------------------------- MODULE MCMarketplace ---------------------------
(* Small instances of Marketplace for TLC.  The suppliers are not            *)
(* interchangeable: they differ in status, port and stock.                   *)
EXTENDS Marketplace
=============================================================================
