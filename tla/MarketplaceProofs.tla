------------------------- MODULE MarketplaceProofs -------------------------
(***************************************************************************)
(* Proofs about Marketplace for every set of orders, RFQs and suppliers,   *)
(* every markup and every bound.                                           *)
(***************************************************************************)
EXTENDS Marketplace, FiniteSetTheorems, TLAPS

-----------------------------------------------------------------------------
(* Sets of suppliers are finite, so that their cardinalities are numbers.    *)

LEMMA SuppliersFinite ==
    ASSUME NEW S, S \subseteq Suppliers
    PROVE  IsFiniteSet(S) /\ Cardinality(S) \in Nat
BY SupplierAssumption, FS_Subset, FS_CardinalityType

\* The portal and the legacy route change nobody's row but the submitter's.
LEMMA SubmissionAddsQuoter ==
    ASSUME TypeOK, NEW r \in RFQs, NEW s \in Suppliers, NEW q \in Quote,
           q.row > 0, quote' = [quote EXCEPT ![r][s] = q]
    PROVE  /\ Quoters(r)' = Quoters(r) \cup {s}
           /\ \A r2 \in RFQs \ {r} : Quoters(r2)' = Quoters(r2)
BY DEF TypeOK, Quoters

\* What the portal does to responded_count: a replaced row is counted once,
\* and a count that was reset in the meantime restarts at one.
LEMMA PortalSubmission ==
    ASSUME TypeOK, NEW r \in RFQs, NEW s \in Suppliers, SupplierSubmitQuote(r, s)
    PROVE  \E n \in Nat :
             /\ rfq' = [rfq EXCEPT ![r].responded = n]
             /\ \/ n = rfq[r].responded
                \/ n = 1 /\ s \in Quoters(r)
                \/ n = rfq[r].responded + 1 /\ s \notin Quoters(r)
<1>1. rfq[r].responded \in Nat
  BY DEF TypeOK, RFQ
<1> DEFINE replaced == IF s \in Quoters(r) /\ rfq[r].responded > 0 THEN 1 ELSE 0
           count == (rfq[r].responded - replaced) + 1
<1>2. rfq' = [rfq EXCEPT ![r].responded = count]
  BY DEF SupplierSubmitQuote
<1>3. CASE s \in Quoters(r) /\ rfq[r].responded > 0
  <2>1. count = rfq[r].responded
    BY <1>1, <1>3
  <2> QED BY ONLY <1>1, <1>2, <2>1
<1>4. CASE s \in Quoters(r) /\ ~(rfq[r].responded > 0)
  <2>1. count = 1
    BY <1>1, <1>4
  <2> QED BY ONLY <1>1, <1>2, <1>4, <2>1
<1>5. CASE s \notin Quoters(r)
  <2>1. count = rfq[r].responded + 1
    BY <1>1, <1>5
  <2>2. count \in Nat
    BY <1>1, <2>1
  <2> HIDE DEF count
  <2> QED BY ONLY <2>2, <1>1, <1>2, <1>5, <2>1
<1> QED BY <1>3, <1>4, <1>5

\* Writing columns of an RFQ row leaves a row.
LEMMA RFQColumns ==
    ASSUME NEW row \in RFQ
    PROVE  /\ \A n \in Nat : [row EXCEPT !.responded = n] \in RFQ
           /\ \A n \in Nat, status \in RFQStatuses :
                [row EXCEPT !.responded = n, !.status = status] \in RFQ
           /\ \A award \in {NoAward} \cup (Suppliers \X Nat) :
                [row EXCEPT !.status = "awarded", !.awardedAt = TRUE,
                            !.award = award] \in RFQ
           /\ \A award \in {NoAward} \cup (Suppliers \X Nat), n \in Nat :
                [row EXCEPT !.status = "awarded", !.awardedAt = TRUE,
                            !.award = award, !.responded = n] \in RFQ
           /\ \A status \in RFQStatuses \cup {Absent}, n \in Nat, m \in Nat :
                [row EXCEPT !.status = status, !.responded = n,
                            !.invitedCount = m] \in RFQ
           /\ [row EXCEPT !.late = TRUE] \in RFQ
<1>1. "awarded" \in RFQStatuses
  BY DEF RFQStatuses
<1> QED BY <1>1 DEF RFQ

\* What a simulation leaves behind in the RFQ's row.
LEMMA Simulation ==
    ASSUME TypeOK, NEW r \in RFQs, \E dryRun \in BOOLEAN : Simulate(r, dryRun)
    PROVE  \E row \in RFQ :
             /\ rfq' = [rfq EXCEPT ![r] = row]
             /\ row.responded <= rfq[r].responded
             /\ row.status # "awarded" /\ row.status \in {"open", rfq[r].status}
             /\ row.order = rfq[r].order
             /\ row.markup = rfq[r].markup
             /\ row.award = rfq[r].award
             /\ row.awardedAt = rfq[r].awardedAt
<1> DEFINE status == IF rfq[r].status \in {"awarded", "closed"}
                       THEN "open" ELSE rfq[r].status
           n == IF rfq[r].status = "closed" THEN 0 ELSE rfq[r].responded
           raised == IF rfq[r].invitedCount < SimInvited
                       THEN SimInvited ELSE rfq[r].invitedCount
           m == IF EligibleSuppliers(r) = {} THEN raised ELSE rfq[r].invitedCount
           row == [rfq[r] EXCEPT !.status = status, !.responded = n,
                                 !.invitedCount = m]
<1>1. /\ rfq[r] \in RFQ
      /\ rfq[r].status \in RFQStatuses \cup {Absent}
      /\ rfq[r].responded \in Nat
      /\ rfq[r].invitedCount \in Nat
  BY DEF TypeOK, RFQ
<1>2. /\ status \in RFQStatuses \cup {Absent}
      /\ status # "awarded"
      /\ status \in {"open", rfq[r].status}
  BY <1>1 DEF RFQStatuses
<1>3. n \in Nat /\ n <= rfq[r].responded /\ m \in Nat
  BY <1>1, InputAssumption
<1>4. rfq' = [rfq EXCEPT ![r] = row]
  BY DEF Simulate
<1> HIDE DEF status, n, raised, m
<1>5. row \in RFQ
  BY <1>1, <1>2, <1>3, RFQColumns
<1>6. /\ row.responded = n
      /\ row.status = status
      /\ row.order = rfq[r].order
      /\ row.markup = rfq[r].markup
      /\ row.award = rfq[r].award
      /\ row.awardedAt = rfq[r].awardedAt
  BY <1>1 DEF RFQ
<1> HIDE DEF row
<1> QED BY <1>2, <1>3, <1>4, <1>5, <1>6

-----------------------------------------------------------------------------
(* Type correctness *)

LEMMA TypeStep == TypeOK /\ [Next]_vars => TypeOK'
<1> SUFFICES ASSUME TypeOK, [Next]_vars
             PROVE  TypeOK'
  OBVIOUS
<1>a. order \in [Orders -> Order]
  BY DEF TypeOK
<1>b. asked \in SUBSET Orders
  BY DEF TypeOK
<1>c. rfq \in [RFQs -> RFQ]
  BY DEF TypeOK
<1>d. quote \in [RFQs -> [Suppliers -> Quote]]
  BY DEF TypeOK
<1>1. ASSUME NEW o \in Orders, CreateOrder(o)
      PROVE  TypeOK'
  BY <1>a, <1>b, <1>c, <1>d, <1>1 DEF TypeOK, CreateOrder, SetOrder, Order, OrderStatuses
<1>2. ASSUME NEW o \in Orders, UpdateOrder(o)
      PROVE  TypeOK'
  BY <1>a, <1>b, <1>c, <1>d, <1>2 DEF TypeOK, UpdateOrder, Order
<1>3. ASSUME NEW o \in Orders, SubmitOrder(o)
      PROVE  TypeOK'
  BY <1>a, <1>b, <1>c, <1>d, <1>3 DEF TypeOK, SubmitOrder, SetOrder, Order, OrderStatuses
<1>4. ASSUME NEW o \in Orders, TransitionOrder(o)
      PROVE  TypeOK'
  BY <1>a, <1>b, <1>c, <1>d, <1>4, InputAssumption DEF TypeOK, TransitionOrder, SetOrder, Order
<1>5. ASSUME NEW o \in Orders, AskClarification(o)
      PROVE  TypeOK'
  BY <1>a, <1>b, <1>c, <1>d, <1>5 DEF TypeOK, AskClarification, SetOrder, Order, OrderStatuses
<1>6. ASSUME NEW o \in Orders, NEW r \in RFQs, FanOutRFQ(o, r)
      PROVE  TypeOK'
  <2>1. Invitees \in SUBSET Suppliers /\ Cardinality(Invitees) \in Nat
    BY SupplierAssumption, SuppliersFinite DEF Invitees
  <2>2. order' \in [Orders -> Order]
    BY <1>a, <1>6 DEF FanOutRFQ, SetOrder, Order, OrderStatuses
  <2>3. rfq' \in [RFQs -> RFQ]
    <3> DEFINE row == [status |-> "sent", order |-> o, edits |-> order[o].edits,
                       late |-> FALSE, markup |-> 0, invited |-> Invitees,
                       invitedCount |-> Cardinality(Invitees), responded |-> 0,
                       awardedAt |-> FALSE, award |-> NoAward]
    <3>1. row \in RFQ
      BY <1>a, <2>1 DEF RFQ, RFQStatuses, Order
    <3>2. rfq' = [rfq EXCEPT ![r] = row]
      BY <1>6 DEF FanOutRFQ
    <3> QED BY <1>c, <3>1, <3>2
  <2> QED BY <1>a, <1>b, <1>c, <1>d, <1>6, <2>2, <2>3 DEF TypeOK, FanOutRFQ
<1>7. ASSUME NEW r \in RFQs, NEW s \in Suppliers, SupplierSubmitQuote(r, s)
      PROVE  TypeOK'
  <2>1. PICK n \in Nat : rfq' = [rfq EXCEPT ![r].responded = n]
    BY <1>7, PortalSubmission
  <2>2. rfq' \in [RFQs -> RFQ]
    BY <1>c, <2>1 DEF RFQ
  <2>3. quote' \in [RFQs -> [Suppliers -> Quote]]
    BY <1>d, <1>7 DEF SupplierSubmitQuote, Quote
  <2> QED BY <1>a, <1>b, <1>c, <1>d, <1>7, <2>2, <2>3 DEF TypeOK, SupplierSubmitQuote
<1>8. ASSUME NEW r \in RFQs, NEW s \in Suppliers, SubmitQuote(r, s)
      PROVE  TypeOK'
  <2>1. PICK n \in Nat, status \in RFQStatuses :
          rfq' = [rfq EXCEPT ![r].responded = n, ![r].status = status]
    <3> DEFINE n == rfq[r].responded + 1
               status == IF n >= rfq[r].invitedCount THEN "closed"
                                                     ELSE rfq[r].status
    <3>1. rfq' = [rfq EXCEPT ![r].responded = n, ![r].status = status]
      BY <1>a, <1>b, <1>c, <1>d, <1>8 DEF SubmitQuote
    <3>2. n \in Nat /\ status \in RFQStatuses
      BY <1>a, <1>b, <1>c, <1>d, <1>8 DEF SubmitQuote, RFQ, RFQStatuses
    <3> HIDE DEF n, status
    <3> QED BY <3>1, <3>2
  <2>2. rfq' \in [RFQs -> RFQ]
    BY <1>c, <2>1, RFQColumns
  <2>3. quote' \in [RFQs -> [Suppliers -> Quote]]
    BY <1>d, <1>8 DEF SubmitQuote, Quote
  <2> QED BY <1>a, <1>b, <1>c, <1>d, <1>8, <2>2, <2>3 DEF TypeOK, SubmitQuote
<1>9. ASSUME NEW r \in RFQs, ApplyMarkup(r)
      PROVE  TypeOK'
  <2>1. PICK pct \in Markups :
          /\ rfq' = [rfq EXCEPT ![r].markup = pct]
          /\ quote' = [quote EXCEPT ![r] =
                         [s \in Suppliers |->
                            IF s \in Quoters(r) THEN [row |-> quote[r][s].row,
                                                      pct |-> pct]
                                                ELSE quote[r][s]]]
    BY <1>9 DEF ApplyMarkup
  <2>2. rfq' \in [RFQs -> RFQ]
    BY <1>c, <2>1 DEF RFQ
  <2>3. quote' \in [RFQs -> [Suppliers -> Quote]]
    BY <1>d, <2>1 DEF Quote
  <2> QED BY <1>a, <1>b, <1>c, <1>d, <1>9, <2>2, <2>3 DEF TypeOK, ApplyMarkup
<1>10. ASSUME NEW r \in RFQs, SendToPurchaser(r)
       PROVE  TypeOK'
  <2>1. rfq' \in [RFQs -> RFQ]
    BY <1>c, <1>10 DEF SendToPurchaser, RFQ, RFQStatuses
  <2>2. order' \in [Orders -> Order]
    BY <1>a, <1>10 DEF SendToPurchaser, SetOrder, Order, OrderStatuses
  <2> QED BY <1>a, <1>b, <1>c, <1>d, <1>10, <2>1, <2>2 DEF TypeOK, SendToPurchaser
<1>11. ASSUME NEW r \in RFQs, Approve(r)
       PROVE  TypeOK'
  <2>1. PICK award \in IF Rows(r) = {} THEN {rfq[r].award} ELSE Rows(r) :
          rfq' = [rfq EXCEPT ![r].status = "awarded",
                             ![r].awardedAt = TRUE,
                             ![r].award = award]
    BY <1>11 DEF Approve
  <2>2. award \in {NoAward} \cup (Suppliers \X Nat)
    BY <1>a, <1>b, <1>c, <1>d DEF Rows, Quoters, RFQ, Quote
  <2>3. rfq' \in [RFQs -> RFQ]
    BY <1>c, <2>1, <2>2, RFQColumns
  <2>4. order' \in [Orders -> Order]
    BY <1>a, <1>11 DEF Approve, Order, OrderStatuses
  <2> QED BY <1>a, <1>b, <1>c, <1>d, <1>11, <2>3, <2>4 DEF TypeOK, Approve
<1>12. ASSUME NEW r \in RFQs, Reject(r)
       PROVE  TypeOK'
  <2>1. rfq' \in [RFQs -> RFQ]
    BY <1>c, <1>12 DEF Reject, RFQ, RFQStatuses
  <2>2. order' \in [Orders -> Order]
    BY <1>a, <1>12 DEF Reject, SetOrder, Order, OrderStatuses
  <2> QED BY <1>a, <1>b, <1>c, <1>d, <1>12, <2>1, <2>2 DEF TypeOK, Reject
<1>13. ASSUME NEW r \in RFQs, CompareQuotes(r)
       PROVE  TypeOK'
  <2>1. PICK award \in Rows(r) :
          rfq' = [rfq EXCEPT ![r].status = "awarded",
                             ![r].awardedAt = TRUE,
                             ![r].award = award,
                             ![r].responded = Cardinality(Quoters(r))]
    BY <1>13 DEF CompareQuotes
  <2>2. award \in Suppliers \X Nat
    BY <1>a, <1>b, <1>c, <1>d DEF Rows, Quoters, Quote
  <2>3. Cardinality(Quoters(r)) \in Nat
    BY SuppliersFinite DEF Quoters
  <2>4. rfq' \in [RFQs -> RFQ]
    BY <1>c, <2>1, <2>2, <2>3, RFQColumns
  <2> QED BY <1>a, <1>b, <1>c, <1>d, <1>13, <2>4 DEF TypeOK, CompareQuotes
<1>14. ASSUME NEW r \in RFQs, \E dryRun \in BOOLEAN : Simulate(r, dryRun)
       PROVE  TypeOK'
  <2>1. PICK row \in RFQ : rfq' = [rfq EXCEPT ![r] = row]
    BY <1>14, Simulation
  <2>2. rfq' \in [RFQs -> RFQ]
    BY <1>c, <2>1
  <2> QED BY <1>a, <1>b, <1>c, <1>d, <1>14, <2>2 DEF TypeOK, Simulate
<1>15. ASSUME NEW r \in RFQs, DeadlinePasses(r)
       PROVE  TypeOK'
  <2>1. rfq' \in [RFQs -> RFQ]
    BY <1>c, <1>15, RFQColumns DEF DeadlinePasses
  <2> QED BY <1>a, <1>b, <1>c, <1>d, <1>15, <2>1 DEF TypeOK, DeadlinePasses
<1>16. ASSUME SweepRFQDeadlines
       PROVE  TypeOK'
  <2>1. rfq' \in [RFQs -> RFQ]
    BY <1>c, <1>16 DEF SweepRFQDeadlines, RFQ, RFQStatuses
  <2>2. order' \in [Orders -> Order]
    BY <1>a, <1>16 DEF SweepRFQDeadlines, Order, OrderStatuses
  <2> QED BY <1>a, <1>b, <1>c, <1>d, <1>16, <2>1, <2>2 DEF TypeOK, SweepRFQDeadlines
<1>17. CASE UNCHANGED vars
  BY <1>a, <1>b, <1>c, <1>d, <1>17 DEF TypeOK, vars
<1> QED
  BY <1>1, <1>2, <1>3, <1>4, <1>5, <1>6, <1>7, <1>8, <1>9, <1>10, <1>11, <1>12,
     <1>13, <1>14, <1>15, <1>16, <1>17
     DEF Next, OrderStep, RFQStep

\* Every reachable row has the columns and enumerated values of its table.
THEOREM TypeCorrect == Spec => []TypeOK
<1>1. Init => TypeOK
  BY DEF Init, TypeOK, Order, RFQ, Quote, NoAward, NoQuote
<1> QED
  BY <1>1, TypeStep, PTL DEF Spec

-----------------------------------------------------------------------------
(* Awards, counters and prices: an invariant of each RFQ with its quotes.    *)

\* The strengthening: the second conjunct keeps an approval that finds no quote
\* from leaving an old award behind, the last one says that a row's quotes and
\* dates start with the row.
RFQInv(r) ==
    /\ rfq[r].status = "awarded" =>
          \/ rfq[r].award \in Rows(r)
          \/ rfq[r].award = NoAward /\ Quoters(r) = {}
    /\ Quoters(r) = {} => rfq[r].award = NoAward
    /\ rfq[r].responded <= Cardinality(Quoters(r))
    /\ \A s \in Quoters(r) : quote[r][s].pct \in {Unpriced, 0, rfq[r].markup}
    /\ ~RFQRow(r) => Quoters(r) = {} /\ ~rfq[r].awardedAt

LEMMA UntouchedRFQ ==
    ASSUME NEW r \in RFQs, RFQInv(r), rfq'[r] = rfq[r], quote'[r] = quote[r]
    PROVE  RFQInv(r)'
BY DEF RFQInv, Quoters, Rows, RFQRow

LEMMA SameQuotes ==
    ASSUME NEW r \in RFQs, quote'[r] = quote[r]
    PROVE  Quoters(r)' = Quoters(r) /\ Rows(r)' = Rows(r)
BY DEF Quoters, Rows

LEMMA CountQuoters ==
    ASSUME NEW r \in RFQs, NEW s \in Suppliers
    PROVE  /\ Cardinality(Quoters(r)) \in Nat
           /\ s \in Quoters(r) =>
                /\ Quoters(r) \cup {s} = Quoters(r)
                /\ Cardinality(Quoters(r)) >= 1
           /\ s \notin Quoters(r) =>
                Cardinality(Quoters(r) \cup {s}) = Cardinality(Quoters(r)) + 1
<1>1. IsFiniteSet(Quoters(r)) /\ Cardinality(Quoters(r)) \in Nat
  BY SuppliersFinite DEF Quoters
<1>2. s \in Quoters(r) => Cardinality(Quoters(r)) # 0
  BY <1>1, FS_EmptySet
<1>3. s \notin Quoters(r) =>
        Cardinality(Quoters(r) \cup {s}) = Cardinality(Quoters(r)) + 1
  BY <1>1, FS_AddElement
<1> QED BY <1>1, <1>2, <1>3

LEMMA FanOutKeepsInv ==
    ASSUME TypeOK, NEW o \in Orders, NEW r \in RFQs, RFQInv(r), FanOutRFQ(o, r)
    PROVE  RFQInv(r)'
<1>1. rfq'[r] = [status |-> "sent", order |-> o, edits |-> order[o].edits,
                 late |-> FALSE, markup |-> 0, invited |-> Invitees,
                 invitedCount |-> Cardinality(Invitees), responded |-> 0,
                 awardedAt |-> FALSE, award |-> NoAward]
  BY DEF TypeOK, FanOutRFQ
<1>2. Quoters(r) = {} /\ Quoters(r)' = {}
  BY SameQuotes DEF FanOutRFQ, RFQInv
<1>3. Cardinality(Quoters(r)') = 0
  BY <1>2, FS_EmptySet
<1> QED BY <1>1, <1>2, <1>3 DEF RFQInv, RFQRow, Absent

\* Either route: one more row, or a newer one, for one supplier.
LEMMA SubmissionKeepsInv ==
    ASSUME TypeOK, NEW r \in RFQs, NEW s \in Suppliers, RFQInv(r), NEW q \in Quote,
           quote' = [quote EXCEPT ![r][s] = q],
           q.row > 0, q.pct \in {Unpriced, 0},
           rfq'[r].markup = rfq[r].markup,
           rfq'[r].status \notin {"awarded", Absent},
           \/ rfq'[r].responded = rfq[r].responded
           \/ rfq'[r].responded = 1 /\ s \in Quoters(r)
           \/ /\ rfq'[r].responded = rfq[r].responded + 1
              /\ s \notin Quoters(r)
    PROVE  RFQInv(r)'
<1>1. Quoters(r)' = Quoters(r) \cup {s}
  BY SubmissionAddsQuoter
<1>2. rfq[r].responded \in Nat /\ rfq[r].responded <= Cardinality(Quoters(r))
  BY DEF TypeOK, RFQ, RFQInv
<1>3. rfq'[r].responded <= Cardinality(Quoters(r)')
  <2>1. CASE s \in Quoters(r)
    <3>1. /\ Cardinality(Quoters(r)') = Cardinality(Quoters(r))
          /\ Cardinality(Quoters(r)) >= 1
      BY <1>1, <2>1, CountQuoters
    <3> QED BY <1>2, <2>1, <3>1
  <2>2. CASE s \notin Quoters(r)
    <3>1. /\ Cardinality(Quoters(r)') = Cardinality(Quoters(r)) + 1
          /\ Cardinality(Quoters(r)) \in Nat
      BY <1>1, <2>2, CountQuoters
    <3> QED BY <1>2, <2>2, <3>1
  <2> QED BY <2>1, <2>2
<1>4. ASSUME NEW s2 \in Quoters(r)'
      PROVE  quote'[r][s2].pct \in {Unpriced, 0, rfq'[r].markup}
  <2>1. s2 \in Suppliers /\ (s2 = s \/ s2 \in Quoters(r))
    BY <1>1, <1>4 DEF Quoters
  <2>2. quote'[r][s2] = IF s2 = s THEN q ELSE quote[r][s2]
    BY <2>1 DEF TypeOK
  <2> QED BY <2>1, <2>2 DEF RFQInv
<1> QED BY <1>1, <1>3, <1>4 DEF RFQInv, RFQRow

LEMMA PortalKeepsInv ==
    ASSUME TypeOK, NEW r \in RFQs, NEW s \in Suppliers, RFQInv(r),
           SupplierSubmitQuote(r, s)
    PROVE  RFQInv(r)'
<1> DEFINE q == [row |-> quote[r][s].row + 1, pct |-> 0]
<1>1. PICK n \in Nat :
        /\ rfq' = [rfq EXCEPT ![r].responded = n]
        /\ \/ n = rfq[r].responded
           \/ n = 1 /\ s \in Quoters(r)
           \/ n = rfq[r].responded + 1 /\ s \notin Quoters(r)
  BY PortalSubmission
<1>2. q \in Quote /\ q.row > 0 /\ q.pct \in {Unpriced, 0}
  BY DEF TypeOK, Quote
<1>3. quote' = [quote EXCEPT ![r][s] = q]
  BY DEF SupplierSubmitQuote
<1>4. /\ rfq'[r].responded = n
      /\ rfq'[r].markup = rfq[r].markup
      /\ rfq'[r].status \notin {"awarded", Absent}
  BY <1>1 DEF TypeOK, RFQ, SupplierSubmitQuote, Absent
<1> HIDE DEF q
<1> QED BY <1>1, <1>2, <1>3, <1>4, SubmissionKeepsInv

LEMMA LegacyKeepsInv ==
    ASSUME TypeOK, NEW r \in RFQs, NEW s \in Suppliers, RFQInv(r),
           SubmitQuote(r, s)
    PROVE  RFQInv(r)'
<1> DEFINE q == [row |-> 1, pct |-> Unpriced]
<1>1. q \in Quote /\ q.row > 0 /\ q.pct \in {Unpriced, 0}
  BY DEF Quote
<1>2. quote' = [quote EXCEPT ![r][s] = q] /\ s \notin Quoters(r)
  BY DEF SubmitQuote
<1>3. /\ rfq'[r].responded = rfq[r].responded + 1
      /\ rfq'[r].markup = rfq[r].markup
      /\ rfq'[r].status \notin {"awarded", Absent}
  BY DEF TypeOK, RFQ, SubmitQuote, Absent
<1> HIDE DEF q
<1> QED BY <1>1, <1>2, <1>3, SubmissionKeepsInv

LEMMA MarkupKeepsInv ==
    ASSUME TypeOK, NEW r \in RFQs, RFQInv(r), ApplyMarkup(r)
    PROVE  RFQInv(r)'
<1>1. PICK pct \in Markups :
        /\ rfq' = [rfq EXCEPT ![r].markup = pct]
        /\ quote' = [quote EXCEPT ![r] =
                       [s \in Suppliers |->
                          IF s \in Quoters(r) THEN [row |-> quote[r][s].row,
                                                    pct |-> pct]
                                              ELSE quote[r][s]]]
  BY DEF ApplyMarkup
<1>2. /\ rfq'[r].markup = pct
      /\ rfq'[r].responded = rfq[r].responded
      /\ rfq'[r].award = rfq[r].award
      /\ rfq'[r].status = "sent"
  BY <1>1 DEF TypeOK, RFQ, ApplyMarkup
<1>3. \A s \in Suppliers :
        /\ quote'[r][s].row = quote[r][s].row
        /\ s \in Quoters(r) => quote'[r][s].pct = pct
  BY <1>1 DEF TypeOK
<1>4. Quoters(r)' = Quoters(r)
  BY <1>3 DEF Quoters
<1>5. Quoters(r) \subseteq Suppliers
  BY DEF Quoters
<1> QED BY <1>2, <1>3, <1>4, <1>5 DEF RFQInv, RFQRow, Absent

\* The other steps leave the quotes and the markup alone.  One that awards
\* chooses a row, or finds none and keeps the award it has.
LEMMA DecisionKeepsInv ==
    ASSUME TypeOK, NEW r \in RFQs, RFQInv(r), RFQRow(r), RFQRow(r)',
           quote'[r] = quote[r],
           rfq'[r].markup = rfq[r].markup,
           rfq'[r].responded <= Cardinality(Quoters(r)),
           \/ rfq'[r].award \in Rows(r)
           \/ rfq'[r].award = rfq[r].award /\ Quoters(r) = {}
           \/ rfq'[r].award = rfq[r].award /\ rfq'[r].status # "awarded"
           \/ /\ rfq'[r].award = rfq[r].award
              /\ rfq'[r].status = rfq[r].status
    PROVE  RFQInv(r)'
<1>1. Quoters(r)' = Quoters(r) /\ Rows(r)' = Rows(r)
  BY SameQuotes
<1>2. Quoters(r) = {} => Rows(r) = {}
  BY DEF Rows
<1> QED BY <1>1, <1>2 DEF RFQInv

IInv == TypeOK /\ \A r \in RFQs : RFQInv(r)

LEMMA RFQInvStep ==
    ASSUME IInv, [Next]_vars
    PROVE  \A r \in RFQs : RFQInv(r)'
<1> SUFFICES ASSUME NEW r \in RFQs
             PROVE  RFQInv(r)'
  OBVIOUS
<1>a. TypeOK /\ RFQInv(r)
  BY DEF IInv
<1>b. rfq[r] \in RFQ /\ rfq \in [RFQs -> RFQ] /\ quote \in [RFQs -> [Suppliers -> Quote]]
  BY <1>a DEF TypeOK
<1>1. ASSUME UNCHANGED <<rfq, quote>>
      PROVE  RFQInv(r)'
  BY <1>a, <1>1, UntouchedRFQ
<1>2. ASSUME NEW o \in Orders, OrderStep(o)
      PROVE  RFQInv(r)'
  <2>1. ASSUME NEW r2 \in RFQs, FanOutRFQ(o, r2)
        PROVE  RFQInv(r)'
    <3>1. CASE r2 = r
      BY <1>a, <2>1, <3>1, FanOutKeepsInv
    <3>2. CASE r2 # r
      BY <1>a, <1>b, <2>1, <3>2, UntouchedRFQ DEF FanOutRFQ
    <3> QED BY <3>1, <3>2
  <2>2. CASE \/ CreateOrder(o) \/ UpdateOrder(o) \/ SubmitOrder(o)
             \/ TransitionOrder(o) \/ AskClarification(o)
    BY <1>1, <2>2 DEF CreateOrder, UpdateOrder, SubmitOrder, TransitionOrder,
                      AskClarification
  <2> QED BY <1>2, <2>1, <2>2 DEF OrderStep
<1>3. ASSUME NEW r2 \in RFQs \ {r}, RFQStep(r2) \/ DeadlinePasses(r2)
      PROVE  RFQInv(r)'
  <2>1. rfq'[r] = rfq[r]
    BY <1>b, <1>3 DEF RFQStep, SupplierSubmitQuote, SubmitQuote, ApplyMarkup,
       SendToPurchaser, Approve, Reject, CompareQuotes, Simulate, DeadlinePasses
  <2>2. quote'[r] = quote[r]
    BY <1>b, <1>3 DEF RFQStep, SupplierSubmitQuote, SubmitQuote, ApplyMarkup,
       SendToPurchaser, Approve, Reject, CompareQuotes, Simulate, DeadlinePasses
  <2> QED BY <1>a, <2>1, <2>2, UntouchedRFQ
<1>4. ASSUME RFQStep(r)
      PROVE  RFQInv(r)'
  <2>1. ASSUME NEW s \in Suppliers, SupplierSubmitQuote(r, s)
        PROVE  RFQInv(r)'
    BY <1>a, <2>1, PortalKeepsInv
  <2>2. ASSUME NEW s \in Suppliers, SubmitQuote(r, s)
        PROVE  RFQInv(r)'
    BY <1>a, <2>2, LegacyKeepsInv
  <2>3. CASE ApplyMarkup(r)
    BY <1>a, <2>3, MarkupKeepsInv
  <2>4. CASE SendToPurchaser(r)
    <3>1. /\ rfq'[r] = [rfq[r] EXCEPT !.status = "closed"]
          /\ quote' = quote /\ rfq[r].status = "sent"
      BY <1>b, <2>4 DEF SendToPurchaser
    <3> QED BY <1>a, <1>b, <3>1, DecisionKeepsInv DEF RFQ, RFQRow, Absent, RFQInv
  <2>5. CASE Approve(r)
    <3>1. PICK award \in IF Rows(r) = {} THEN {rfq[r].award} ELSE Rows(r) :
            rfq' = [rfq EXCEPT ![r].status = "awarded",
                               ![r].awardedAt = TRUE,
                               ![r].award = award]
      BY <2>5 DEF Approve
    <3>2. rfq'[r] = [rfq[r] EXCEPT !.status = "awarded", !.awardedAt = TRUE,
                                   !.award = award]
      BY <1>b, <3>1
    <3>3. award \in Rows(r) \/ (award = rfq[r].award /\ Quoters(r) = {})
      BY DEF Rows
    <3>4. quote' = quote /\ rfq[r].status = "closed"
      BY <2>5 DEF Approve
    <3> QED BY <1>a, <1>b, <3>2, <3>3, <3>4, DecisionKeepsInv
            DEF RFQ, RFQRow, Absent, RFQInv
  <2>6. CASE Reject(r)
    <3>1. /\ rfq'[r] = [rfq[r] EXCEPT !.status = "cancelled"]
          /\ quote' = quote /\ rfq[r].status = "closed"
      BY <1>b, <2>6 DEF Reject
    <3> QED BY <1>a, <1>b, <3>1, DecisionKeepsInv DEF RFQ, RFQRow, Absent, RFQInv
  <2>7. CASE CompareQuotes(r)
    <3>1. PICK award \in Rows(r) :
            rfq' = [rfq EXCEPT ![r].status = "awarded",
                               ![r].awardedAt = TRUE,
                               ![r].award = award,
                               ![r].responded = Cardinality(Quoters(r))]
      BY <2>7 DEF CompareQuotes
    <3>2. rfq'[r] = [rfq[r] EXCEPT !.status = "awarded", !.awardedAt = TRUE,
                                   !.award = award,
                                   !.responded = Cardinality(Quoters(r))]
      BY <1>b, <3>1
    <3>3. Cardinality(Quoters(r)) \in Nat
      BY SuppliersFinite DEF Quoters
    <3>4. quote' = quote /\ RFQRow(r)
      BY <2>7 DEF CompareQuotes
    <3>5. /\ rfq'[r].award = award
          /\ rfq'[r].responded = Cardinality(Quoters(r))
          /\ rfq'[r].markup = rfq[r].markup
          /\ rfq'[r].status = "awarded"
      BY <1>b, <3>2 DEF RFQ
    <3>6. rfq'[r].award \in Rows(r) /\ rfq'[r].responded <= Cardinality(Quoters(r))
      BY <3>1, <3>3, <3>5
    <3>7. RFQRow(r)' /\ quote'[r] = quote[r]
      BY <3>4, <3>5 DEF RFQRow, Absent
    <3> QED BY <1>a, <3>4, <3>5, <3>6, <3>7, DecisionKeepsInv
  <2>8. ASSUME \E dryRun \in BOOLEAN : Simulate(r, dryRun)
        PROVE  RFQInv(r)'
    <3>1. PICK row \in RFQ :
            /\ rfq' = [rfq EXCEPT ![r] = row]
            /\ row.responded <= rfq[r].responded
            /\ row.status # "awarded" /\ row.status \in {"open", rfq[r].status}
            /\ row.order = rfq[r].order
            /\ row.markup = rfq[r].markup
            /\ row.award = rfq[r].award
            /\ row.awardedAt = rfq[r].awardedAt
      BY <1>a, <2>8, Simulation
    <3>2. quote' = quote /\ RFQRow(r)
      BY <2>8 DEF Simulate
    <3>3. rfq'[r] = row
      BY <1>b, <3>1
    <3>4. rfq'[r].responded <= Cardinality(Quoters(r))
      <4>1. Cardinality(Quoters(r)) \in Nat
        BY SuppliersFinite DEF Quoters
      <4>2. rfq[r].responded \in Nat /\ row.responded \in Nat
        BY <1>b, <3>1 DEF RFQ
      <4>3. rfq[r].responded <= Cardinality(Quoters(r))
        BY <1>a DEF RFQInv
      <4> QED BY <3>1, <3>3, <4>1, <4>2, <4>3
    <3> QED BY <1>a, <3>1, <3>2, <3>3, <3>4, DecisionKeepsInv DEF RFQRow, Absent
  <2> QED BY <1>4, <2>1, <2>2, <2>3, <2>4, <2>5, <2>6, <2>7, <2>8 DEF RFQStep
<1>5. ASSUME DeadlinePasses(r)
      PROVE  RFQInv(r)'
  <2>1. /\ rfq'[r] = [rfq[r] EXCEPT !.late = TRUE]
        /\ quote' = quote /\ RFQRow(r)
    BY <1>b, <1>5 DEF DeadlinePasses
  <2> QED BY <1>a, <1>b, <2>1, DecisionKeepsInv DEF RFQ, RFQRow, RFQInv
<1>6. ASSUME SweepRFQDeadlines
      PROVE  RFQInv(r)'
  <2>1. CASE r \in Expired
    <3>1. /\ rfq'[r] = [rfq[r] EXCEPT !.status = "closed"]
          /\ quote' = quote /\ rfq[r].status = "sent"
      BY <1>6, <2>1 DEF SweepRFQDeadlines, Expired
    <3> QED BY <1>a, <1>b, <3>1, DecisionKeepsInv DEF RFQ, RFQRow, Absent, RFQInv
  <2>2. CASE r \notin Expired
    BY <1>a, <1>6, <2>2, UntouchedRFQ DEF SweepRFQDeadlines
  <2> QED BY <2>1, <2>2
<1> QED
  <2>1. CASE UNCHANGED vars
    BY <1>1, <2>1 DEF vars
  <2>2. CASE Next
    <3>1. ASSUME NEW r2 \in RFQs, RFQStep(r2) \/ DeadlinePasses(r2)
          PROVE  RFQInv(r)'
      BY <1>3, <1>4, <1>5, <3>1
    <3> QED BY <1>2, <1>6, <2>2, <3>1 DEF Next
  <2> QED BY <2>1, <2>2

LEMMA Invariance == Spec => []IInv
<1>1. Init => IInv
  <2>1. Init => TypeOK
    BY DEF Init, TypeOK, Order, RFQ, Quote, NoAward, NoQuote
  <2>2. ASSUME Init, NEW r \in RFQs
        PROVE  RFQInv(r)
    <3>1. Quoters(r) = {} /\ Rows(r) = {}
      BY <2>2 DEF Init, Quoters, Rows, NoQuote
    <3>2. Cardinality(Quoters(r)) = 0
      BY <3>1, FS_EmptySet
    <3> QED BY <2>2, <3>1, <3>2 DEF Init, RFQInv, Absent
  <2> QED BY <2>1, <2>2 DEF IInv
<1>2. IInv /\ [Next]_vars => IInv'
  BY RFQInvStep, TypeStep DEF IInv
<1> QED
  BY <1>1, <1>2, PTL DEF Spec

\* No award ever points at a quote that a resubmission has deleted.
THEOREM AwardsNameLiveQuotes == Spec => []AwardNamesLiveQuote
<1>1. IInv => AwardNamesLiveQuote
  BY DEF IInv, RFQInv, AwardNamesLiveQuote
<1> QED BY <1>1, Invariance, PTL

\* responded_count is at most the number of quotes, so the legacy route never
\* closes an RFQ because it counted somebody twice.
THEOREM RespondedCountIsBounded == Spec => []RespondedWithinQuotes
<1>1. IInv => RespondedWithinQuotes
  BY DEF IInv, RFQInv, RespondedWithinQuotes
<1> QED BY <1>1, Invariance, PTL

\* No quote shows a markup that has been changed since.
THEOREM MarkupIsCurrent == Spec => []MarkupNeverStale
<1>1. IInv => MarkupNeverStale
  BY DEF IInv, RFQInv, MarkupNeverStale
<1> QED BY <1>1, Invariance, PTL

-----------------------------------------------------------------------------
(* Approvals and awards: an invariant across orders and their RFQs.          *)

\* A row keeps its order, and the fact that it was once awarded.
LEMMA AwardsAreRemembered ==
    ASSUME IInv, [Next]_vars, NEW r \in RFQs, rfq[r].awardedAt
    PROVE  rfq'[r].awardedAt /\ rfq'[r].order = rfq[r].order
<1>a. /\ rfq \in [RFQs -> RFQ] /\ rfq[r] \in RFQ
      /\ RFQRow(r)
  BY DEF IInv, TypeOK, RFQInv
<1>1. ASSUME NEW o \in Orders, OrderStep(o)
      PROVE  rfq'[r] = rfq[r]
  <2>1. ASSUME NEW r2 \in RFQs, FanOutRFQ(o, r2)
        PROVE  rfq'[r] = rfq[r]
    BY <1>a, <2>1 DEF FanOutRFQ
  <2> QED BY <1>1, <2>1 DEF OrderStep, CreateOrder, UpdateOrder, SubmitOrder,
                           TransitionOrder, AskClarification
<1>2. ASSUME NEW r2 \in RFQs, RFQStep(r2)
      PROVE  rfq'[r].awardedAt /\ rfq'[r].order = rfq[r].order
  <2>1. CASE r2 # r
    BY <1>a, <1>2, <2>1 DEF RFQStep, SupplierSubmitQuote, SubmitQuote, ApplyMarkup,
       SendToPurchaser, Approve, Reject, CompareQuotes, Simulate
  <2>2. CASE r2 = r
    <3>1. ASSUME \E dryRun \in BOOLEAN : Simulate(r, dryRun)
          PROVE  rfq'[r].awardedAt /\ rfq'[r].order = rfq[r].order
      BY <1>a, <3>1, Simulation DEF IInv
    <3>2. ASSUME NEW s \in Suppliers,
                 SupplierSubmitQuote(r, s) \/ SubmitQuote(r, s)
          PROVE  rfq'[r].awardedAt /\ rfq'[r].order = rfq[r].order
      BY <1>a, <3>2 DEF RFQ, SupplierSubmitQuote, SubmitQuote
    <3>3. CASE ApplyMarkup(r) \/ SendToPurchaser(r) \/ Reject(r)
      BY <1>a, <3>3 DEF RFQ, ApplyMarkup, SendToPurchaser, Reject
    <3>4. CASE Approve(r)
      BY <1>a, <3>4 DEF RFQ, Approve
    <3>5. CASE CompareQuotes(r)
      BY <1>a, <3>5 DEF RFQ, CompareQuotes
    <3> QED BY <1>2, <2>2, <3>1, <3>2, <3>3, <3>4, <3>5 DEF RFQStep
  <2> QED BY <2>1, <2>2
<1>3. ASSUME NEW r2 \in RFQs, DeadlinePasses(r2)
      PROVE  rfq'[r].awardedAt /\ rfq'[r].order = rfq[r].order
  BY <1>a, <1>3 DEF RFQ, DeadlinePasses
<1>4. ASSUME SweepRFQDeadlines
      PROVE  rfq'[r].awardedAt /\ rfq'[r].order = rfq[r].order
  BY <1>a, <1>4 DEF RFQ, SweepRFQDeadlines
<1> QED BY <1>1, <1>2, <1>3, <1>4 DEF Next, vars

\* Only an approval stamps an order.
LEMMA OnlyApprovalStamps ==
    ASSUME TypeOK, [Next]_vars, NEW o \in Orders,
           order'[o].approvedAt, ~order[o].approvedAt
    PROVE  \E r \in RFQs : Approve(r) /\ rfq[r].order = o
<1>a. order \in [Orders -> Order] /\ order[o] \in Order
  BY DEF TypeOK
<1> SUFFICES ASSUME ~\E r \in RFQs : Approve(r) /\ rfq[r].order = o
             PROVE  order'[o].approvedAt = order[o].approvedAt
  OBVIOUS
<1>1. ASSUME NEW o2 \in Orders, OrderStep(o2)
      PROVE  order'[o].approvedAt = order[o].approvedAt
  BY <1>a, <1>1 DEF Order, OrderStep, CreateOrder, UpdateOrder, SubmitOrder,
     TransitionOrder, AskClarification, FanOutRFQ, SetOrder
<1>2. ASSUME NEW r \in RFQs, RFQStep(r)
      PROVE  order'[o].approvedAt = order[o].approvedAt
  <2>1. CASE SendToPurchaser(r) \/ Reject(r)
    BY <1>a, <2>1 DEF Order, SendToPurchaser, Reject, SetOrder
  <2>2. CASE Approve(r)
    BY <1>a, <2>2 DEF Order, Approve
  <2> QED BY <1>2, <2>1, <2>2 DEF RFQStep, SupplierSubmitQuote, SubmitQuote,
             ApplyMarkup, CompareQuotes, Simulate
<1>3. ASSUME SweepRFQDeadlines
      PROVE  order'[o].approvedAt = order[o].approvedAt
  BY <1>a, <1>3 DEF Order, SweepRFQDeadlines
<1>4. ASSUME NEW r \in RFQs, DeadlinePasses(r)
      PROVE  order'[o].approvedAt = order[o].approvedAt
  BY <1>4 DEF DeadlinePasses
<1> QED BY <1>1, <1>2, <1>3, <1>4 DEF Next, vars

\* An order's approval date is never without an award, in whatever order its
\* RFQs are decided, reopened and decided again.
THEOREM ApprovalsAreAwards == Spec => []ApprovedOrderWasAwarded
<1>1. Init => ApprovedOrderWasAwarded
  BY DEF Init, ApprovedOrderWasAwarded
<1>2. IInv /\ ApprovedOrderWasAwarded /\ [Next]_vars => ApprovedOrderWasAwarded'
  <2> SUFFICES ASSUME IInv, ApprovedOrderWasAwarded, [Next]_vars,
                      NEW o \in Orders, order'[o].approvedAt
               PROVE  \E r \in RFQs : rfq'[r].order = o /\ rfq'[r].awardedAt
    BY DEF ApprovedOrderWasAwarded
  <2>1. CASE order[o].approvedAt
    <3>1. PICK r \in RFQs : rfq[r].order = o /\ rfq[r].awardedAt
      BY <2>1 DEF ApprovedOrderWasAwarded
    <3> QED BY <3>1, AwardsAreRemembered
  <2>2. CASE ~order[o].approvedAt
    <3>1. PICK r \in RFQs : Approve(r) /\ rfq[r].order = o
      BY <2>2, OnlyApprovalStamps DEF IInv
    <3>2. rfq'[r].order = o /\ rfq'[r].awardedAt
      BY <3>1 DEF IInv, TypeOK, RFQ, Approve
    <3> QED BY <3>2
  <2> QED BY <2>1, <2>2
<1> QED BY <1>1, <1>2, Invariance, PTL DEF Spec

-----------------------------------------------------------------------------
(* What a step may never do *)

\* A step that touches a quote or a markup of RFQ r is an offer or a markup, and
\* those look at the RFQ's status first.
THEOREM DecisionsFreezeQuotes == Spec => DecidedQuotesFrozen
<1>1. ASSUME TypeOK, [Next]_vars, NEW r \in RFQs,
             rfq[r].status \in {"awarded", "cancelled"}
      PROVE  quote'[r] = quote[r] /\ rfq'[r].markup = rfq[r].markup
  <2>a. /\ rfq \in [RFQs -> RFQ] /\ rfq[r] \in RFQ
        /\ quote \in [RFQs -> [Suppliers -> Quote]]
    BY <1>1 DEF TypeOK
  <2>1. ASSUME NEW o \in Orders, OrderStep(o)
        PROVE  quote'[r] = quote[r] /\ rfq'[r].markup = rfq[r].markup
    <3>1. ASSUME NEW r2 \in RFQs, FanOutRFQ(o, r2)
          PROVE  quote'[r] = quote[r] /\ rfq'[r].markup = rfq[r].markup
      BY <1>1, <2>a, <3>1 DEF FanOutRFQ, RFQRow, Absent
    <3> QED BY <2>1, <3>1 DEF OrderStep, CreateOrder, UpdateOrder, SubmitOrder,
               TransitionOrder, AskClarification
  <2>2. ASSUME NEW r2 \in RFQs, RFQStep(r2) \/ DeadlinePasses(r2)
        PROVE  quote'[r] = quote[r] /\ rfq'[r].markup = rfq[r].markup
    <3>1. CASE r2 # r
      BY <2>a, <2>2, <3>1 DEF RFQStep, SupplierSubmitQuote, SubmitQuote,
         ApplyMarkup, SendToPurchaser, Approve, Reject, CompareQuotes, Simulate,
         DeadlinePasses
    <3>2. CASE r2 = r
      <4>1. CASE \E dryRun \in BOOLEAN : Simulate(r, dryRun)
        <5>1. rfq'[r].markup = rfq[r].markup
          BY <1>1, <2>a, <4>1, Simulation
        <5> QED BY <4>1, <5>1 DEF Simulate
      <4>2. CASE CompareQuotes(r)
        BY <2>a, <4>2 DEF RFQ, CompareQuotes
      <4>3. CASE DeadlinePasses(r)
        BY <2>a, <4>3 DEF RFQ, DeadlinePasses
      <4> QED BY <1>1, <2>2, <3>2, <4>1, <4>2, <4>3 DEF RFQStep,
                 SupplierSubmitQuote, SubmitQuote, ApplyMarkup, SendToPurchaser,
                 Approve, Reject
    <3> QED BY <3>1, <3>2
  <2>3. ASSUME SweepRFQDeadlines
        PROVE  quote'[r] = quote[r] /\ rfq'[r].markup = rfq[r].markup
    BY <1>1, <2>3 DEF SweepRFQDeadlines, Expired
  <2> QED BY <1>1, <2>1, <2>2, <2>3 DEF Next, vars
<1>2. TypeOK /\ [Next]_vars =>
        [\A r \in RFQs :
           rfq[r].status \in {"awarded", "cancelled"} =>
             quote'[r] = quote[r] /\ rfq'[r].markup = rfq[r].markup]_vars
  BY <1>1
<1> QED BY <1>2, TypeCorrect, PTL DEF Spec, DecidedQuotesFrozen
=============================================================================
