------------------------------- MODULE MCRules -------------------------------
(***************************************************************************)
(* A small instance of the five rule parts.                                *)
(***************************************************************************)
EXTENDS Rules

CONSTANTS o1, o2, paint, meat, flare, ship1, ship2

\* The first is no worse in anything, and better in all but quality.
Steady == [price |-> 2, lead |-> 1, rel |-> 4, qual |-> 5]
Dear == [price |-> 7, lead |-> 3, rel |-> 0, qual |-> 5]

MCIds == {1, 2}
MCOffers == {Steady, Dear}
MCSimulated == {<<NoBid, NoBid>>, <<Dear, Steady>>}

\* One under which both scores round to the same number; one that prefers the
\* dear and the unreliable, and under which a quote alone scores -1 or less; one
\* with a sum below zero.
MCWeights ==
    {[price |-> 4, lead |-> 12, rel |-> 4, qual |-> 80, other |-> 0],
     [price |-> -1, lead |-> 0, rel |-> -9, qual |-> 0, other |-> 11],
     [price |-> -2, lead |-> 0, rel |-> 1, qual |-> 0, other |-> 0]}

RequestSymmetry == Permutations(Comparers)

Port(from, until, narrow, vessel, selects, holds, fails, severe) ==
    [from |-> from, until |-> until, narrow |-> narrow, vessel |-> vessel,
     selects |-> selects, holds |-> holds, fails |-> fails, severe |-> severe]

\* A narrow rule, a blocking one that ends after the first day, one about the
\* whole order with a condition from the second day on, one for other vessels,
\* one that cannot be evaluated.
MCPortRules ==
    {Port(0, 1, TRUE, TRUE, {meat}, Products, {}, FALSE),
     Port(0, 0, TRUE, TRUE, {paint, flare}, {paint, flare}, {}, TRUE),
     Port(1, 1, FALSE, TRUE, Products, {meat}, {}, FALSE),
     Port(1, 1, TRUE, FALSE, Products, Products, {}, TRUE),
     Port(1, 1, TRUE, TRUE, {flare}, {}, {flare}, FALSE)}

Country(from, until, selects, byImpa, impa, severe) ==
    [from |-> from, until |-> until, selects |-> selects, byImpa |-> byImpa,
     impa |-> impa, severe |-> severe]

MCCountryRules ==
    {Country(0, 1, {meat}, FALSE, {}, TRUE),
     Country(1, 1, {flare}, TRUE, {paint}, FALSE)}

\* One supplier that its on-time rate decides on, one that the hash does.
MCBook ==
    [farm |-> [price |-> 8, days |-> 1, rating |-> 46, onTime |-> 80],
     grocer |-> [price |-> 10, days |-> 2, rating |-> 40, onTime |-> 92]]

MCDraw(seed, n, s) == ((seed + n + Book[s].days) % 3) - 1

MCCounterOffers == {[price |-> NoCap, days |-> NoCap], [price |-> 700, days |-> 0]}

MCStaff ==
    [boss |-> [role |-> "super_admin", vessel |-> Ashore],
     buyer |-> [role |-> "purchasing_officer", vessel |-> ship1],
     chandler |-> [role |-> "supplier", vessel |-> Ashore]]
=============================================================================
