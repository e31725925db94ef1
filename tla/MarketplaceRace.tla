-------------------------- MODULE MarketplaceRace --------------------------
(***************************************************************************)
(* The handlers of Marketplace that act on one RFQ which is out to its      *)
(* suppliers, with every handler split where other sessions can get in     *)
(* between: it loads the RFQ, runs its further SELECTs, and commits.       *)
(*                                                                         *)
(* PostgreSQL runs them READ COMMITTED and the code takes no row locks and *)
(* keeps no row versions, so each SELECT sees what is committed at that    *)
(* moment.  At the commit the ORM writes the columns whose new value       *)
(* differs from the one the session loaded, whatever is in the row by now. *)
(*                                                                         *)
(* Handlers that act on the order alone and the market simulator are left  *)
(* to Marketplace.                                                         *)
(***************************************************************************)
EXTENDS Integers, FiniteSets, Sequences

CONSTANTS
    Tx,             \* sessions that may be open at the same time
    Kinds,          \* bound: the handlers of the instance
    Suppliers,      \* ACTIVE suppliers
    Invited,        \* those the fan-out invited
    Markups,        \* percentages an admin may type
    MaxQuoteRows    \* bound: quote rows one supplier inserts

AllKinds == {"portal", "legacy", "markup", "send", "approve", "reject",
             "compare", "sweep"}

ASSUME RaceAssumption ==
    /\ Kinds \subseteq AllKinds
    /\ IsFiniteSet(Suppliers)
    /\ Invited \subseteq Suppliers
    /\ Markups \subseteq 0..100
    /\ MaxQuoteRows \in Nat

VARIABLES
    rfq,     \* the committed RFQ row
    order,   \* the committed status of its order
    quote,   \* the committed quote rows, at most one per supplier
    late,    \* now > response_deadline
    tx       \* the sessions: what each has loaded and has yet to load

vars == <<rfq, order, quote, late, tx>>

NoAward == <<>>
Unpriced == -1
NoQuote == [row |-> 0, pct |-> Unpriced]
NoQuotes == [s \in Suppliers |-> NoQuote]
Nobody == "nobody"

OrderStatuses == {"draft", "pending_approval", "rfq_closed", "approved"}
RFQStatuses == {"sent", "open", "closed", "awarded", "cancelled"}

RFQ == [status: RFQStatuses,
        markup: {0} \cup Markups,
        responded: Nat,
        award: {NoAward} \cup (Suppliers \X Nat)]

Quotes == [Suppliers -> [row: Nat, pct: {Unpriced, 0} \cup Markups]]

SentRFQ == [status |-> "sent", markup |-> 0, responded |-> 0, award |-> NoAward]

Session == [kind: AllKinds \cup {"idle"},
            by: Suppliers \cup {Nobody},
            todo: Seq({"order", "quotes"}),
            rfq: RFQ,
            order: OrderStatuses,
            rows: Quotes]

Idle == [kind |-> "idle", by |-> Nobody, todo |-> <<>>, rfq |-> SentRFQ,
         order |-> "draft", rows |-> NoQuotes]

TypeOK ==
    /\ rfq \in RFQ
    /\ order \in OrderStatuses
    /\ quote \in Quotes
    /\ late \in BOOLEAN
    /\ tx \in [Tx -> Session]

InvitedCount == Cardinality(Invited)

Quoters == {s \in Suppliers : quote[s].row > 0}

\* The suppliers whose quotes session t has loaded.
Seen(t) == {s \in Suppliers : tx[t].rows[s].row > 0}

Init ==
    /\ rfq = SentRFQ
    /\ order = "pending_approval"
    /\ quote = NoQuotes
    /\ late = FALSE
    /\ tx = [t \in Tx |-> Idle]

-----------------------------------------------------------------------------
(* Loading *)

\* What a handler checks on the RFQ it has loaded.
Accepts(kind, s) ==
    CASE kind = "portal"  -> s \in Invited /\ rfq.status \in {"sent", "closed"} /\ ~late
      [] kind = "legacy"  -> s \in Suppliers /\ rfq.status \in {"sent", "open"} /\ ~late
      [] kind = "markup"  -> s = Nobody /\ rfq.status = "sent"
      [] kind = "send"    -> s = Nobody /\ rfq.status = "sent"
      [] kind = "approve" -> s = Nobody /\ rfq.status = "closed"
      [] kind = "reject"  -> s = Nobody /\ rfq.status = "closed"
      [] kind = "compare" -> s = Nobody
      [] kind = "sweep"   -> s = Nobody /\ rfq.status = "sent" /\ late

\* The SELECTs that follow.  apply_markup's come on top of the quotes that
\* _load_rfq has already brought in.
Selects ==
    [portal  |-> <<"quotes">>,
     legacy  |-> <<>>,
     markup  |-> <<"quotes", "quotes">>,
     send    |-> <<"order">>,
     approve |-> <<"order", "quotes">>,
     reject  |-> <<"order">>,
     compare |-> <<"quotes">>,
     sweep   |-> <<"order">>]

Load(t) ==
    /\ tx[t].kind = "idle"
    /\ \E kind \in Kinds, s \in Suppliers \cup {Nobody} :
         /\ Accepts(kind, s)
         /\ tx' = [tx EXCEPT ![t] = [Idle EXCEPT !.kind = kind,
                                                 !.by = s,
                                                 !.todo = Selects[kind],
                                                 !.rfq = rfq]]
    /\ UNCHANGED <<rfq, order, quote, late>>

Select(t, table) ==
    /\ tx[t].todo # <<>>
    /\ Head(tx[t].todo) = table
    /\ UNCHANGED <<rfq, order, quote, late>>

SelectOrder(t) ==
    /\ Select(t, "order")
    /\ tx' = [tx EXCEPT ![t].todo = Tail(@), ![t].order = order]

\* The portal asks for its own supplier's quote only.  A row that the session
\* already holds keeps the values it was loaded with.
SelectQuotes(t) ==
    /\ Select(t, "quotes")
    /\ tx' = [tx EXCEPT
                ![t].todo = Tail(@),
                ![t].rows =
                  [s \in Suppliers |->
                     IF tx[t].kind = "portal" /\ s # tx[t].by THEN NoQuote
                     ELSE IF tx[t].rows[s].row = quote[s].row THEN tx[t].rows[s]
                     ELSE quote[s]]]

-----------------------------------------------------------------------------
(* Committing *)

Written(current, loaded, new) == IF new # loaded THEN new ELSE current

WriteRFQ(t, new) ==
    LET loaded == tx[t].rfq
    IN  rfq' = [status    |-> Written(rfq.status, loaded.status, new.status),
                markup    |-> Written(rfq.markup, loaded.markup, new.markup),
                responded |-> Written(rfq.responded, loaded.responded, new.responded),
                award     |-> Written(rfq.award, loaded.award, new.award)]

WriteOrder(t, status) == order' = Written(order, tx[t].order, status)

Ready(t, kind) ==
    /\ tx[t].kind = kind
    /\ tx[t].todo = <<>>

Commit(t) ==
    /\ tx' = [tx EXCEPT ![t] = Idle]
    /\ UNCHANGED late

InsertQuote(s, pct) ==
    /\ quote[s].row < MaxQuoteRows
    /\ quote' = [quote EXCEPT ![s] = [row |-> @.row + 1, pct |-> pct]]
    /\ UNCHANGED order

(* Faulty variants. *)

\* A resubmission is counted as one more answer.
PortalCountsTwice(t) ==
    /\ Ready(t, "portal")
    /\ quote[tx[t].by].row = tx[t].rows[tx[t].by].row
    /\ InsertQuote(tx[t].by, 0)
    /\ WriteRFQ(t, [tx[t].rfq EXCEPT !.responded = @ + 1])
    /\ Commit(t)

\* The deletion is committed before the new quote is validated.
PortalDeletesFirst(t) ==
    /\ Ready(t, "portal")
    /\ quote[tx[t].by].row = tx[t].rows[tx[t].by].row
    /\ quote' = [quote EXCEPT ![tx[t].by] = NoQuote]
    /\ UNCHANGED <<rfq, order>>
    /\ Commit(t)

\* The threshold is compared after a second increment.
LegacyClosesEarly(t) ==
    LET answered == tx[t].rfq.responded + 1
    IN  /\ Ready(t, "legacy")
        /\ quote[tx[t].by].row = 0
        /\ InsertQuote(tx[t].by, Unpriced)
        /\ WriteRFQ(t, [tx[t].rfq EXCEPT
                          !.responded = answered,
                          !.status = IF answered + 1 >= InvitedCount
                                       THEN "closed" ELSE @])
        /\ Commit(t)

(* The handlers. *)

\* DELETE, INSERT and the counter.  The unique (rfq_id, supplier_id) lets only
\* one of two submissions that saw the same row commit.  The counter goes down
\* and up again; if the lines need an IMPA lookup in between, the autoflush of
\* that SELECT (the portal's session has it on) writes it although it ends where
\* it began.
CommitPortal(t) ==
    LET s == tx[t].by
        loaded == tx[t].rfq.responded
        replaces == s \in Seen(t)
        answered == (IF replaces /\ loaded > 0 THEN loaded - 1 ELSE loaded) + 1
    IN  /\ Ready(t, "portal")
        /\ quote[s].row = tx[t].rows[s].row
        /\ InsertQuote(s, 0)
        /\ \/ WriteRFQ(t, [tx[t].rfq EXCEPT !.responded = answered])
           \/ replaces /\ rfq' = [rfq EXCEPT !.responded = answered]
        /\ Commit(t)

CommitLegacy(t) ==
    LET s == tx[t].by
        answered == tx[t].rfq.responded + 1
    IN  /\ Ready(t, "legacy")
        /\ quote[s].row = 0
        /\ InsertQuote(s, Unpriced)
        /\ WriteRFQ(t, [tx[t].rfq EXCEPT
                          !.responded = answered,
                          !.status = IF answered >= InvitedCount
                                       THEN "closed" ELSE @])
        /\ Commit(t)

\* Quotes whose price changes are written, and so are some whose float price is
\* not exactly the stored decimal.  A row that is gone by now fails the commit.
CommitMarkup(t) ==
    /\ Ready(t, "markup")
    /\ \E pct \in Markups, written \in SUBSET Seen(t) :
         /\ \A s \in Seen(t) \ written : tx[t].rows[s].pct = pct
         /\ \A s \in written : quote[s].row = tx[t].rows[s].row
         /\ quote' = [s \in Suppliers |->
                        IF s \in written THEN [row |-> quote[s].row, pct |-> pct]
                                         ELSE quote[s]]
         /\ \/ WriteRFQ(t, [tx[t].rfq EXCEPT !.markup = pct])
            \/ rfq' = [rfq EXCEPT !.markup = pct]
    /\ UNCHANGED order
    /\ Commit(t)

CommitSend(t) ==
    /\ Ready(t, "send")
    /\ WriteRFQ(t, [tx[t].rfq EXCEPT !.status = "closed"])
    /\ WriteOrder(t, "rfq_closed")
    /\ UNCHANGED quote
    /\ Commit(t)

SeenRows(t) == {<<s, tx[t].rows[s].row>> : s \in Seen(t)}

CommitApprove(t) ==
    /\ Ready(t, "approve")
    /\ \E award \in IF Seen(t) = {} THEN {tx[t].rfq.award} ELSE SeenRows(t) :
         WriteRFQ(t, [tx[t].rfq EXCEPT !.status = "awarded", !.award = award])
    /\ WriteOrder(t, "approved")
    /\ UNCHANGED quote
    /\ Commit(t)

CommitReject(t) ==
    /\ Ready(t, "reject")
    /\ WriteRFQ(t, [tx[t].rfq EXCEPT !.status = "cancelled"])
    /\ WriteOrder(t, "draft")
    /\ UNCHANGED quote
    /\ Commit(t)

\* A quote whose score and award are what they were is not written, so a row that
\* is gone by now need not fail the commit.
CommitCompare(t) ==
    /\ Ready(t, "compare")
    /\ \E award \in SeenRows(t) :
         WriteRFQ(t, [tx[t].rfq EXCEPT !.status = "awarded",
                                       !.award = award,
                                       !.responded = Cardinality(Seen(t))])
    /\ UNCHANGED <<order, quote>>
    /\ Commit(t)

CommitSweep(t) ==
    /\ Ready(t, "sweep")
    /\ WriteRFQ(t, [tx[t].rfq EXCEPT !.status = "closed"])
    /\ IF tx[t].order = "pending_approval"
         THEN WriteOrder(t, "rfq_closed")
         ELSE UNCHANGED order
    /\ UNCHANGED quote
    /\ Commit(t)

\* A refused commit, a deadlock victim, a dropped connection: rolled back.
Rollback(t) ==
    /\ tx[t].kind # "idle"
    /\ tx' = [tx EXCEPT ![t] = Idle]
    /\ UNCHANGED <<rfq, order, quote, late>>

DeadlinePasses ==
    /\ ~late
    /\ late' = TRUE
    /\ UNCHANGED <<rfq, order, quote, tx>>

Step(t) ==
    \/ Load(t)
    \/ SelectOrder(t)
    \/ SelectQuotes(t)
    \/ CommitPortal(t)
    \/ CommitLegacy(t)
    \/ CommitMarkup(t)
    \/ CommitSend(t)
    \/ CommitApprove(t)
    \/ CommitReject(t)
    \/ CommitCompare(t)
    \/ CommitSweep(t)
    \/ Rollback(t)

Next == DeadlinePasses \/ \E t \in Tx : Step(t)

Spec == Init /\ [][Next]_vars

-----------------------------------------------------------------------------
(* Properties *)

\* Whatever updates of responded_count are lost, it never exceeds the number of
\* suppliers that have a quote: sessions write back counts they loaded before
\* others committed.
CountWithinQuotes == rfq.responded <= Cardinality(Quoters)

\* Even when a race replaces the awarded row, the supplier it belonged to has a
\* quote in the RFQ, so the award can be found again.
AwardedSupplierQuotes == rfq.award # NoAward => rfq.award[1] \in Quoters

\* The legacy route never closes the RFQ on a stale or doubled count while fewer
\* suppliers have quoted than were invited.
AutoCloseIsComplete ==
    [][quote' # quote /\ rfq.status # "closed" /\ rfq'.status = "closed" =>
         Cardinality(Quoters') >= InvitedCount]_vars

-----------------------------------------------------------------------------
(* What the repository says of the program and interleaved handlers do not   *)
(* keep.                                                                       *)

\* An awarded RFQ rejects any further quote: else a supplier could change the
\* price of what has been accepted.
AwardedQuotesFrozen == [][rfq.status = "awarded" => quote' = quote]_vars
=============================================================================
