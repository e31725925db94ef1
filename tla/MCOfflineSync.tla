---------------------------- MODULE MCOfflineSync ----------------------------
EXTENDS OfflineSync

\* Orders that may want the same reference, and between them one that the database
\* always refuses; in the other instance one order, and nothing it refuses.
OrderShape == <<"bare", "applied", "broken", "applied">>
QuietShape == <<"applied", "conflict", "refused">>

OrderShapes == [a \in Actions |-> OrderShape[a]]
QuietShapes == [a \in Actions |-> QuietShape[a]]

=============================================================================
