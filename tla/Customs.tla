-------------------------------- MODULE Customs --------------------------------
(***************************************************************************)
(* The port and customs rules (services/customs.py), asked twice about the *)
(* same order: once while POST /orders creates it, whose answer is stored  *)
(* on the order, and again whenever somebody opens the order's page        *)
(* (GET /customs/evaluate/{id}).                                           *)
(*                                                                         *)
(* The two callers load different relations before they ask, and reading a *)
(* relation that was not loaded is an error in an asynchronous session.    *)
(* The creation swallows that error and leaves the clearance flag what the *)
(* column starts with, set; the page answers 500.                          *)
(*                                                                         *)
(* What a rule's lists and patterns say of a product is data: a rule names *)
(* the products it selects, those its condition holds for, and those whose *)
(* condition cannot be evaluated (it compares a missing value).  One port  *)
(* and one vessel; the day advances between calls.                         *)
(***************************************************************************)
EXTENDS Naturals, FiniteSets

CONSTANTS
    Orders,       \* the orders that may be created
    Products,     \* catalogue products
    FreeText,     \* the line without a product, described by an IMPA code
    CodedProducts,\* the products that have an IMPA code
    PortRules,    \* the rules of the port
    CountryRules, \* the customs rules of its country
    LastDay       \* bound on the calendar

CONSTANTS NotCreated, NotAsked

Lines == Products \cup {FreeText}
Days == 0..LastDay

PortRule ==
    [from : Days, until : Days, narrow : BOOLEAN, vessel : BOOLEAN,
     selects : SUBSET Products, holds : SUBSET Products, fails : SUBSET Products,
     severe : BOOLEAN]

CountryRule ==
    [from : Days, until : Days, selects : SUBSET Products, byImpa : BOOLEAN,
     impa : SUBSET Products, severe : BOOLEAN]

\* What stands for the issues when the engine fails.
Unavailable == {[error |-> "Regulation engine unavailable"]}

ASSUME CustomsAssumption ==
    /\ FreeText \notin Products
    /\ CodedProducts \subseteq Products
    /\ PortRules \subseteq PortRule
    /\ CountryRules \subseteq CountryRule
    /\ LastDay \in Nat

VARIABLES
    today,      \* the day of the clock
    saved,      \* each order: its lines, the day it was created, what was stored
    page        \* what the order's page last said, and on which day

customsVars == <<today, saved, page>>

-----------------------------------------------------------------------------
(* The rule engine *)

Active(r, day) == r.from <= day /\ day <= r.until

\* A rule whose type and flag lists exclude the vessel selects nothing.  The
\* list of IMPA codes is never looked at, it only makes the rule narrow.
Applies(r, p) == p \in r.selects /\ r.vessel

PortMatchesEverything(r, lines) ==
    IF \A p \in lines : p \in Products /\ Applies(r, p) /\ p \in r.holds
      THEN lines \cap Products ELSE {}

PortMatches(r, lines) ==
    {p \in lines \cap Products : Applies(r, p) /\ p \in r.holds}

\* A narrow rule needs a match; any other is about the whole order, also when
\* its condition holds for none of the products.
PortIssues(lines, day) ==
    {[rule |-> r,
      about |-> IF PortMatches(r, lines) = {} THEN lines ELSE PortMatches(r, lines)] :
       r \in {q \in PortRules : /\ Active(q, day)
                                /\ PortMatches(q, lines) # {} \/ ~q.narrow}}

\* HS code and category come first; the IMPA pattern is for what they leave.
CountryMatches(r, lines) ==
    {p \in lines \cap Products :
       p \in r.selects \/ (r.byImpa /\ p \in r.impa)}

CountryIssues(lines, day) ==
    {[rule |-> r, about |-> CountryMatches(r, lines)] :
       r \in {q \in CountryRules : Active(q, day) /\ CountryMatches(q, lines) # {}}}

\* The relations of a product the caller loaded; neither caller loads its IMPA
\* code, and a product without one needs no query to say so.
Raises(lines, day, loaded) ==
    LET products == lines \cap Products
    IN  \/ "category" \notin loaded /\ products # {}
        \/ \E r \in PortRules, p \in products :
             Active(r, day) /\ Applies(r, p) /\ p \in r.fails
        \/ \E r \in CountryRules, p \in products \cap CodedProducts :
             /\ Active(r, day)
             /\ r.byImpa /\ p \notin r.selects
             /\ "impa" \notin loaded

\* evaluate_order: the issues, or an error.
Evaluate(lines, day, loaded) ==
    IF Raises(lines, day, loaded) THEN Unavailable
    ELSE PortIssues(lines, day) \cup CountryIssues(lines, day)

Blocking(issues) == \E i \in issues : i.rule.severe

-----------------------------------------------------------------------------
(* The callers *)

CustomsInit ==
    /\ today = 0
    /\ saved = [o \in Orders |-> NotCreated]
    /\ page = [o \in Orders |-> NotAsked]

CreateOrderUnflagged(o) ==
    /\ saved[o] = NotCreated
    /\ \E lines \in SUBSET Lines \ {{}} :
         LET issues == Evaluate(lines, today, {})
         IN  saved' = [saved EXCEPT ![o] =
               [lines |-> lines, day |-> today, warnings |-> issues,
                clearance |-> /\ issues # Unavailable
                              /\ Blocking(issues) \/ issues # {}]]
    /\ UNCHANGED <<today, page>>

\* An order has at least one line; what the engine answers is stored, an error
\* leaves the clearance flag at its default, TRUE.
CreateOrder(o) ==
    /\ saved[o] = NotCreated
    /\ \E lines \in SUBSET Lines \ {{}} :
         LET issues == Evaluate(lines, today, {})
         IN  saved' = [saved EXCEPT ![o] =
               [lines |-> lines, day |-> today, warnings |-> issues,
                clearance |-> \/ issues = Unavailable
                              \/ Blocking(issues)
                              \/ issues # {}]]
    /\ UNCHANGED <<today, page>>

\* The order's page.
EvaluateRoute(o) ==
    /\ saved[o] # NotCreated
    /\ page' = [page EXCEPT ![o] =
                  [day |-> today,
                   issues |-> Evaluate(saved[o].lines, today, {"category"})]]
    /\ UNCHANGED <<today, saved>>

NextDay ==
    /\ today < LastDay
    /\ today' = today + 1
    /\ UNCHANGED <<saved, page>>

CustomsNext ==
    \/ \E o \in Orders : CreateOrder(o) \/ EvaluateRoute(o)
    \/ NextDay

CustomsSpec == CustomsInit /\ [][CustomsNext]_customsVars

-----------------------------------------------------------------------------
(* Properties *)

Asked(o) == page[o] # NotAsked

\* Issues name rules of the port or the country and lines of the order.
CustomsTypeOK ==
    /\ today \in Days
    /\ \A o \in Orders :
         /\ saved[o] # NotCreated =>
              /\ saved[o].lines \subseteq Lines
              /\ saved[o].day \in 0..today
              /\ saved[o].warnings # Unavailable =>
                   \A i \in saved[o].warnings :
                     /\ i.rule \in PortRules \cup CountryRules
                     /\ i.about \subseteq saved[o].lines
         /\ Asked(o) => saved[o] # NotCreated /\ page[o].day \in saved[o].day..today

\* An order that needs no clearance was clear: whenever its page is opened it
\* answers, and lists no rule that was in force on the day of the order.  The
\* check that clears an order and the page load different relations and fail on
\* different orders, and the day has gone on between them (create_order's
\* preflight, models/order.py's default, /customs/evaluate).
UnflaggedIsClear ==
    \A o \in Orders :
      Asked(o) /\ ~saved[o].clearance =>
        /\ page[o].issues # Unavailable
        /\ \A i \in page[o].issues : ~Active(i.rule, saved[o].day)

\* An order that holds every line of another and is looked at on the same day
\* raises every rule the other does: a line can bring an issue and never hide
\* one, and when it hides all of them the page says that it failed
\* (evaluate_order's rules about matches and about the whole order).
LinesOnlyAddIssues ==
    \A o, q \in Orders :
      /\ Asked(o) /\ Asked(q) /\ page[o].day = page[q].day
      /\ saved[o].lines \subseteq saved[q].lines
      /\ page[o].issues # Unavailable /\ page[q].issues # Unavailable
      => {i.rule : i \in page[o].issues} \subseteq {i.rule : i \in page[q].issues}
=============================================================================
