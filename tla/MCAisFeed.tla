----------------------------- MODULE MCAisFeed -----------------------------
(* Small instances of AisFeed for TLC. *)
EXTENDS AisFeed

\* Every vessel shuttles between two ports.
Shuttles == [v \in Vessels |-> 2]
=============================================================================
