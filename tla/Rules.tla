--------------------------------- MODULE Rules ---------------------------------
(***************************************************************************)
(* Comparison, Bidding, Customs, Access and Throttle share no state, so    *)
(* they are put side by side: `topic` says which of the five a behaviour   *)
(* is about, and the others stay in their initial states.                  *)
(***************************************************************************)
EXTENDS Comparison, Bidding, Customs, Access, Throttle

VARIABLE topic

ruleVars == <<comparisonVars, biddingVars, customsVars, accessVars, throttleVars>>

RulesInit ==
    /\ topic \in {"comparison", "bidding", "customs", "access", "throttle"}
    /\ ComparisonInit
    /\ BiddingInit
    /\ topic # "bidding" => coin = [s \in Undecided |-> FALSE]
    /\ CustomsInit
    /\ AccessInit
    /\ ThrottleInit

RulesNext ==
    \/ /\ topic = "comparison"
       /\ ComparisonNext
       /\ UNCHANGED <<topic, biddingVars, customsVars, accessVars, throttleVars>>
    \/ /\ topic = "bidding"
       /\ BiddingNext
       /\ UNCHANGED <<topic, comparisonVars, customsVars, accessVars, throttleVars>>
    \/ /\ topic = "customs"
       /\ CustomsNext
       /\ UNCHANGED <<topic, comparisonVars, biddingVars, accessVars, throttleVars>>
    \/ /\ topic = "access"
       /\ AccessNext
       /\ UNCHANGED <<topic, comparisonVars, biddingVars, customsVars, throttleVars>>
    \/ /\ topic = "throttle"
       /\ ThrottleNext
       /\ UNCHANGED <<topic, comparisonVars, biddingVars, customsVars, accessVars>>

RulesSpec == RulesInit /\ [][RulesNext]_<<topic, ruleVars>>

\* The types of all five parts.
RulesTypeOK ==
    /\ ComparisonTypeOK
    /\ BiddingTypeOK
    /\ CustomsTypeOK
    /\ AccessTypeOK
    /\ ThrottleTypeOK
=============================================================================
