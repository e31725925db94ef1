------------------------- MODULE MCMarketplaceRace -------------------------
(* Small instances of MarketplaceRace for TLC. *)
EXTENDS MarketplaceRace, TLC

\* Sessions are interchangeable.
TxSymmetry == Permutations(Tx)
=============================================================================
