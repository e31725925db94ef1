---------------------------- MODULE Marketplace ----------------------------
(***************************************************************************)
(* Orders, RFQs and supplier quotes: the transactional core of the         *)
(* backend, one action per reachable HTTP handler or background step.      *)
(* A handler is one database transaction and is atomic here; the           *)
(* interleaving of two handlers' reads and writes is MarketplaceRace.      *)
(*                                                                         *)
(* Wording, references, notifications, audit rows and the timestamps no    *)
(* handler reads (sent_at, closed_at, submitted_at) are left out.  A price *)
(* is the markup percentage a quote's customer_facing_total carries.       *)
(***************************************************************************)
EXTENDS Integers, FiniteSets

CONSTANTS
    Orders,           \* order rows that may be created
    RFQs,             \* RFQ rows that may be created
    Suppliers,        \* supplier rows
    ActiveSuppliers,  \* the rows whose status is ACTIVE (no code changes it)
    PortSuppliers,    \* the rows with a SupplierPort link to the orders' port
    Stockists,        \* the rows whose stock covers every line of an order
    Markups,          \* percentages an admin may type
    ManualStatuses,   \* statuses an operator sets with /transition
    MaxEdits,         \* bound: edits of one draft order
    MaxQuoteRows,     \* bound: quote rows one supplier inserts in one RFQ
    SimInvited        \* the 10_000 the simulator raises invited_count to

OrderStatuses ==
    {"draft", "pending_approval", "rfq_sent", "rfq_closed", "approved",
     "rejected", "cancelled", "awaiting_confirmation",
     "awaiting_clarification", "in_transit", "delivered", "completed"}

RFQStatuses ==
    {"draft", "open", "sent", "closed", "awarded", "cancelled", "expired"}

ASSUME SupplierAssumption ==
    /\ IsFiniteSet(Suppliers)
    /\ ActiveSuppliers \subseteq Suppliers
    /\ PortSuppliers \subseteq Suppliers
    /\ Stockists \subseteq Suppliers

ASSUME InputAssumption ==
    /\ Markups \subseteq 0..100
    /\ ManualStatuses \subseteq OrderStatuses
    /\ MaxEdits \in Nat
    /\ MaxQuoteRows \in Nat
    /\ SimInvited \in Nat

VARIABLES
    order,   \* order rows: status, number of edits, whether approved_at is set
    asked,   \* history: orders with a question nobody has resolved
    rfq,     \* RFQ rows
    quote    \* quote[r][s]: the row of (rfq_id, supplier_id), at most one

vars == <<order, asked, rfq, quote>>

Absent == "absent"                 \* the row does not exist (yet)
NoAward == <<>>                    \* awarded_quote_id IS NULL
Unpriced == -1                     \* marked_up_total still at its default 0
NoQuote == [row |-> 0, pct |-> Unpriced]

Order == [status: OrderStatuses \cup {Absent}, edits: Nat, approvedAt: BOOLEAN]

Quote == [row: Nat, pct: {Unpriced, 0} \cup Markups]

RFQ == [status: RFQStatuses \cup {Absent},
        order: Orders \cup {Absent},
        edits: Nat,                \* the edition of the order its lines copy
        late: BOOLEAN,             \* now > response_deadline
        markup: {0} \cup Markups,
        invited: SUBSET Suppliers,
        invitedCount: Nat,
        responded: Nat,
        awardedAt: BOOLEAN,
        award: {NoAward} \cup (Suppliers \X Nat)]

TypeOK ==
    /\ order \in [Orders -> Order]
    /\ asked \in SUBSET Orders
    /\ rfq \in [RFQs -> RFQ]
    /\ quote \in [RFQs -> [Suppliers -> Quote]]

-----------------------------------------------------------------------------

OrderRow(o) == order[o].status # Absent
RFQRow(r) == rfq[r].status # Absent

\* The suppliers that have a quote row in RFQ r.
Quoters(r) == {s \in Suppliers : quote[r][s].row > 0}

\* Every ACTIVE supplier linked to the port.
Invitees == ActiveSuppliers \cap PortSuppliers

\* The simulator's bidders: suppliers without a quote of their own that can
\* supply every line.
EligibleSuppliers(r) == (Invitees \cap Stockists) \ Quoters(r)

\* What a newly loaded Order shows of its clarification thread: the column is
\* gone from the table, so getattr(order, "clarification", None) is None.
StoredQuestions(o) == {}
HasUnresolvedClarifications(o) == StoredQuestions(o) # {}

SetOrder(o, status) == order' = [order EXCEPT ![o].status = status]

Init ==
    /\ order = [o \in Orders |->
                  [status |-> Absent, edits |-> 0, approvedAt |-> FALSE]]
    /\ asked = {}
    /\ rfq = [r \in RFQs |->
                [status |-> Absent, order |-> Absent, edits |-> 0, late |-> FALSE,
                 markup |-> 0, invited |-> {}, invitedCount |-> 0,
                 responded |-> 0, awardedAt |-> FALSE, award |-> NoAward]]
    /\ quote = [r \in RFQs |-> [s \in Suppliers |-> NoQuote]]

-----------------------------------------------------------------------------
(* Faulty variants of the handlers below: bugs the properties must expose.  *)

\* The portal looks at the deadline but not at the RFQ's status.
SubmitWhateverStatus(r, s) ==
    /\ s \in rfq[r].invited \cap ActiveSuppliers
    /\ ~rfq[r].late
    /\ quote[r][s].row < MaxQuoteRows
    /\ rfq' = [rfq EXCEPT ![r].responded =
                  IF s \in Quoters(r) THEN @ ELSE @ + 1]
    /\ quote' = [quote EXCEPT ![r][s] = [row |-> @.row + 1, pct |-> 0]]
    /\ UNCHANGED <<order, asked>>

\* A later markup reaches only the quotes that came in since the last one.
MarkupSkipsPriced(r) ==
    /\ rfq[r].status = "sent"
    /\ \E pct \in Markups :
         /\ rfq' = [rfq EXCEPT ![r].markup = pct]
         /\ quote' = [quote EXCEPT ![r] =
                        [s \in Suppliers |->
                           IF s \in Quoters(r) /\ quote[r][s].pct <= 0
                             THEN [row |-> quote[r][s].row, pct |-> pct]
                             ELSE quote[r][s]]]
    /\ UNCHANGED <<order, asked>>

\* The markup may be changed after the decision.
MarkupWhateverStatus(r) ==
    /\ RFQRow(r)
    /\ \E pct \in Markups :
         /\ rfq' = [rfq EXCEPT ![r].markup = pct]
         /\ quote' = [quote EXCEPT ![r] =
                        [s \in Suppliers |->
                           IF s \in Quoters(r)
                             THEN [row |-> quote[r][s].row, pct |-> pct]
                             ELSE quote[r][s]]]
    /\ UNCHANGED <<order, asked>>

\* Reopening for a simulation also wipes the record of the award.
SimulateWipesAward(r, dryRun) ==
    /\ RFQRow(r)
    /\ rfq[r].status \notin {"cancelled", "expired"}
    /\ dryRun
    /\ rfq' = [rfq EXCEPT
                 ![r].status = IF @ \in {"awarded", "closed"} THEN "open" ELSE @,
                 ![r].awardedAt = FALSE]
    /\ UNCHANGED <<order, asked, quote>>

\* The sweeper's query joins the order and wants it PENDING_APPROVAL.
ExpiredPendingOnly ==
    {r \in RFQs : /\ rfq[r].status = "sent"
                  /\ rfq[r].late
                  /\ order[rfq[r].order].status = "pending_approval"}

-----------------------------------------------------------------------------
(* Orders *)

CreateOrder(o) ==
    /\ ~OrderRow(o)
    /\ SetOrder(o, "draft")
    /\ UNCHANGED <<asked, rfq, quote>>

\* Only DRAFT orders are editable.
UpdateOrder(o) ==
    /\ order[o].status = "draft"
    /\ order[o].edits < MaxEdits
    /\ order' = [order EXCEPT ![o].edits = @ + 1]
    /\ UNCHANGED <<asked, rfq, quote>>

\* Submitting does not look at the status the order has.
SubmitOrder(o) ==
    /\ OrderRow(o)
    /\ SetOrder(o, "pending_approval")
    /\ UNCHANGED <<asked, rfq, quote>>

TransitionOrder(o) ==
    /\ OrderRow(o)
    /\ \E status \in ManualStatuses : SetOrder(o, status)
    /\ UNCHANGED <<asked, rfq, quote>>

\* The entry is appended to an attribute of the loaded object that no column
\* backs; only the status change reaches the database.
AskClarification(o) ==
    /\ OrderRow(o)
    /\ IF order[o].status \in {"draft", "rfq_sent", "rfq_closed",
                               "awaiting_clarification"}
         THEN SetOrder(o, "awaiting_clarification")
         ELSE UNCHANGED order
    /\ asked' = asked \cup {o}
    /\ UNCHANGED <<rfq, quote>>

-----------------------------------------------------------------------------
(* RFQs *)

\* POST /rfq/for-order: the fan-out of services/marketplace.py.
FanOutRFQ(o, r) ==
    /\ ~HasUnresolvedClarifications(o)
    /\ order[o].status \in {"draft", "awaiting_clarification", "pending_approval"}
    /\ ~RFQRow(r)
    /\ rfq' = [rfq EXCEPT ![r] =
                 [status |-> "sent", order |-> o, edits |-> order[o].edits,
                  late |-> FALSE, markup |-> 0, invited |-> Invitees,
                  invitedCount |-> Cardinality(Invitees), responded |-> 0,
                  awardedAt |-> FALSE, award |-> NoAward]]
    /\ SetOrder(o, "pending_approval")
    /\ UNCHANGED <<asked, quote>>

\* Supplier portal: a resubmission deletes the supplier's row and inserts a
\* new one; responded_count goes down and up again.
SupplierSubmitQuote(r, s) ==
    /\ s \in rfq[r].invited
    /\ rfq[r].status \in {"sent", "closed"}
    /\ ~rfq[r].late
    /\ s \in ActiveSuppliers
    /\ quote[r][s].row < MaxQuoteRows
    /\ LET replaced == IF s \in Quoters(r) /\ rfq[r].responded > 0 THEN 1 ELSE 0
       IN  rfq' = [rfq EXCEPT ![r].responded = (@ - replaced) + 1]
    /\ quote' = [quote EXCEPT ![r][s] = [row |-> @.row + 1, pct |-> 0]]
    /\ UNCHANGED <<order, asked>>

\* POST /rfq/quotes: no invitation check, no replacement (the unique
\* constraint rejects a second row), no marked-up price, and the RFQ closes by
\* itself when every invitation is answered.
SubmitQuote(r, s) ==
    /\ rfq[r].status \in {"sent", "open"}
    /\ ~rfq[r].late
    /\ s \in ActiveSuppliers \ Quoters(r)
    /\ MaxQuoteRows > 0
    /\ LET answered == rfq[r].responded + 1
       IN  rfq' = [rfq EXCEPT
                     ![r].responded = answered,
                     ![r].status = IF answered >= rfq[r].invitedCount
                                     THEN "closed" ELSE @]
    /\ quote' = [quote EXCEPT ![r][s] = [row |-> 1, pct |-> Unpriced]]
    /\ UNCHANGED <<order, asked>>

\* The markup is written to the RFQ and to the quotes that exist now.
ApplyMarkup(r) ==
    /\ rfq[r].status = "sent"
    /\ \E pct \in Markups :
         /\ rfq' = [rfq EXCEPT ![r].markup = pct]
         /\ quote' = [quote EXCEPT ![r] =
                        [s \in Suppliers |->
                           IF s \in Quoters(r) THEN [row |-> quote[r][s].row,
                                                     pct |-> pct]
                                               ELSE quote[r][s]]]
    /\ UNCHANGED <<order, asked>>

SendToPurchaser(r) ==
    /\ rfq[r].status = "sent"
    /\ rfq' = [rfq EXCEPT ![r].status = "closed"]
    /\ SetOrder(rfq[r].order, "rfq_closed")
    /\ UNCHANGED <<asked, quote>>

Rows(r) == {<<s, quote[r][s].row>> : s \in Quoters(r)}

\* "The first quote" of a SELECT without ORDER BY: any of them.
Approve(r) ==
    /\ rfq[r].status = "closed"
    /\ \E award \in IF Rows(r) = {} THEN {rfq[r].award} ELSE Rows(r) :
         rfq' = [rfq EXCEPT ![r].status = "awarded",
                            ![r].awardedAt = TRUE,
                            ![r].award = award]
    /\ order' = [order EXCEPT ![rfq[r].order].status = "approved",
                              ![rfq[r].order].approvedAt = TRUE]
    /\ UNCHANGED <<asked, quote>>

Reject(r) ==
    /\ rfq[r].status = "closed"
    /\ rfq' = [rfq EXCEPT ![r].status = "cancelled"]
    /\ SetOrder(rfq[r].order, "draft")
    /\ UNCHANGED <<asked, quote>>

\* POST /rfq/{id}/compare with save=false; the default save=true names a class
\* that no longer exists and its transaction is rolled back.  The RFQ's status
\* is not looked at.  Which quote scores best is left open.
CompareQuotes(r) ==
    /\ RFQRow(r)
    /\ \E award \in Rows(r) :
         rfq' = [rfq EXCEPT ![r].status = "awarded",
                            ![r].awardedAt = TRUE,
                            ![r].award = award,
                            ![r].responded = Cardinality(Quoters(r))]
    /\ UNCHANGED <<order, asked, quote>>

\* POST /rfq/{id}/simulate.  A committed run leaves no quotes behind: a dry run
\* bids in memory, and a real run that stores a bid ends in the failing
\* comparison.  A run that finds no bidder returns before invited_count is
\* restored.
Simulate(r, dryRun) ==
    /\ RFQRow(r)
    /\ rfq[r].status \notin {"cancelled", "expired"}
    /\ LET eligible == EligibleSuppliers(r)
           commits == \/ dryRun
                      \/ eligible = {}
                      \/ rfq[r].late /\ Quoters(r) = {}
           raised == IF rfq[r].invitedCount < SimInvited
                       THEN SimInvited ELSE rfq[r].invitedCount
       IN  /\ commits
           /\ rfq' = [rfq EXCEPT
                        ![r].status = IF @ \in {"awarded", "closed"}
                                        THEN "open" ELSE @,
                        ![r].responded = IF rfq[r].status = "closed"
                                           THEN 0 ELSE @,
                        ![r].invitedCount = IF eligible = {}
                                              THEN raised ELSE @]
    /\ UNCHANGED <<order, asked, quote>>

-----------------------------------------------------------------------------
(* Time and the background sweeper *)

DeadlinePasses(r) ==
    /\ RFQRow(r)
    /\ ~rfq[r].late
    /\ rfq' = [rfq EXCEPT ![r].late = TRUE]
    /\ UNCHANGED <<order, asked, quote>>

Expired == {r \in RFQs : rfq[r].status = "sent" /\ rfq[r].late}

\* One tick handles every expired RFQ in one transaction.
SweepRFQDeadlines ==
    /\ Expired # {}
    /\ rfq' = [r \in RFQs |-> IF r \in Expired
                                THEN [rfq[r] EXCEPT !.status = "closed"]
                                ELSE rfq[r]]
    /\ order' = [o \in Orders |->
                   IF /\ order[o].status = "pending_approval"
                      /\ \E r \in Expired : rfq[r].order = o
                     THEN [order[o] EXCEPT !.status = "rfq_closed"]
                     ELSE order[o]]
    /\ UNCHANGED <<asked, quote>>

-----------------------------------------------------------------------------

OrderStep(o) ==
    \/ CreateOrder(o)
    \/ UpdateOrder(o)
    \/ SubmitOrder(o)
    \/ TransitionOrder(o)
    \/ AskClarification(o)
    \/ \E r \in RFQs : FanOutRFQ(o, r)

RFQStep(r) ==
    \/ \E s \in Suppliers : SupplierSubmitQuote(r, s)
    \/ \E s \in Suppliers : SubmitQuote(r, s)
    \/ ApplyMarkup(r)
    \/ SendToPurchaser(r)
    \/ Approve(r)
    \/ Reject(r)
    \/ CompareQuotes(r)
    \/ \E dryRun \in BOOLEAN : Simulate(r, dryRun)

Next ==
    \/ \E o \in Orders : OrderStep(o)
    \/ \E r \in RFQs : RFQStep(r)
    \/ \E r \in RFQs : DeadlinePasses(r)
    \/ SweepRFQDeadlines

Spec == Init /\ [][Next]_vars

\* The clock runs and the sweeper ticks every five minutes whatever happened in
\* the previous tick; people are under no obligation to act.
Fairness ==
    /\ \A r \in RFQs : WF_vars(DeadlinePasses(r))
    /\ WF_vars(SweepRFQDeadlines)

FairSpec == Spec /\ Fairness

-----------------------------------------------------------------------------
(* Properties *)

\* An awarded RFQ points at a quote row that still exists, or had no quote at
\* all: resubmissions delete rows, so this needs every path that can replace a
\* row to be closed while an award stands.
AwardNamesLiveQuote ==
    \A r \in RFQs :
        rfq[r].status = "awarded" =>
            \/ rfq[r].award \in Rows(r)
            \/ rfq[r].award = NoAward /\ Quoters(r) = {}

\* responded_count never exceeds the number of suppliers with a quote, whatever
\* mix of resubmissions, legacy quotes, comparisons and reopened rounds ran: the
\* legacy route closes the RFQ on this counter, so an excess would shut out
\* suppliers that have not answered.
RespondedWithinQuotes ==
    \A r \in RFQs : rfq[r].responded <= Cardinality(Quoters(r))

\* A quote shows its raw price or the RFQ's current markup, never one that has
\* been changed since.
MarkupNeverStale ==
    \A r \in RFQs : \A s \in Quoters(r) :
        quote[r][s].pct \in {Unpriced, 0, rfq[r].markup}

\* approved_at on an order means that one of its RFQs was awarded, although an
\* RFQ may since have been reopened, closed and decided again.
ApprovedOrderWasAwarded ==
    \A o \in Orders :
        order[o].approvedAt =>
            \E r \in RFQs : rfq[r].order = o /\ rfq[r].awardedAt

\* While an RFQ is awarded or cancelled its quotes and their prices stay what
\* the purchaser decided on.
DecidedQuotesFrozen ==
    [][\A r \in RFQs :
         rfq[r].status \in {"awarded", "cancelled"} =>
             quote'[r] = quote[r] /\ rfq'[r].markup = rfq[r].markup]_vars

\* An RFQ does not stay SENT for ever: its deadline passes and the sweeper, if
\* nobody else, closes it, whatever has become of its order.
SentRFQIsClosed ==
    \A r \in RFQs : rfq[r].status = "sent" ~> rfq[r].status # "sent"
=============================================================================
