----------------------------- MODULE OrderedOnce -----------------------------
(***************************************************************************)
(* What offline sync promises: the changes a vessel makes without a link    *)
(* take effect on the server once each, and never before a change that the  *)
(* vessel made earlier.                                                     *)
(***************************************************************************)
EXTENDS Integers

CONSTANT Actions    \* the changes, numbered in the order they are made

VARIABLES
    submitted,  \* made on board
    applied     \* in effect on the server

absVars == <<submitted, applied>>

AbsInit ==
    /\ submitted = {}
    /\ applied = {}

Submit ==
    /\ \E a \in Actions \ submitted :
         /\ \A x \in Actions : x < a => x \in submitted
         /\ submitted' = submitted \cup {a}
    /\ UNCHANGED applied

Apply ==
    /\ \E S \in SUBSET (submitted \ applied) :
         /\ S # {}
         /\ \A y \in S, x \in Actions : x < y => x \in S \cup applied
         /\ applied' = applied \cup S
    /\ UNCHANGED submitted

AbsNext == Submit \/ Apply

AbsSpec == AbsInit /\ [][AbsNext]_absVars
=============================================================================
