----------------------- MODULE MarketplaceRaceProofs -----------------------
(***************************************************************************)
(* Proofs about MarketplaceRace for any number of sessions, every subset   *)
(* of the handlers and every set of suppliers.                             *)
(***************************************************************************)
EXTENDS MarketplaceRace, FiniteSetTheorems, TLAPS

LEMMA SuppliersFinite ==
    ASSUME NEW S, S \subseteq Suppliers
    PROVE  IsFiniteSet(S) /\ Cardinality(S) \in Nat
BY RaceAssumption, FS_Subset, FS_CardinalityType

LEMMA SmallerQuoters ==
    ASSUME NEW S, NEW T, S \subseteq T, T \subseteq Suppliers
    PROVE  Cardinality(S) <= Cardinality(T)
BY SuppliersFinite, FS_Subset

\* The parts of a session that has just been closed.
LEMMA IdleSession ==
    /\ Idle \in Session
    /\ Idle.kind = "idle"
    /\ Idle.rfq.responded = 0 /\ Idle.rfq.award = NoAward
    /\ \A s \in Suppliers : Idle.rows[s].row = 0
<1>1. SentRFQ \in RFQ
  BY DEF SentRFQ, RFQ, RFQStatuses
<1>2. NoQuotes \in Quotes
  BY DEF NoQuotes, NoQuote, Quotes
<1>3. "draft" \in OrderStatuses /\ <<>> \in Seq({"order", "quotes"})
  BY DEF OrderStatuses
<1>4. Idle \in Session
  BY <1>1, <1>2, <1>3 DEF Idle, Session
<1> QED BY <1>4 DEF Idle, SentRFQ, NoQuotes, NoQuote

\* Each column an UPDATE leaves in the row is the committed or the new value.
LEMMA WriteMixes ==
    ASSUME TypeOK, NEW t \in Tx, NEW new \in RFQ, WriteRFQ(t, new)
    PROVE  /\ rfq' \in RFQ
           /\ rfq'.status \in {rfq.status, new.status}
           /\ rfq'.responded \in {rfq.responded, new.responded}
           /\ rfq'.award \in {rfq.award, new.award}
BY DEF TypeOK, RFQ, WriteRFQ, Written

\* What the sessions have loaded are rows.
LEMMA LoadedRows ==
    ASSUME TypeOK, NEW t \in Tx
    PROVE  /\ tx[t] \in Session
           /\ tx[t].rfq \in RFQ
           /\ tx[t].rfq.responded \in Nat
           /\ tx[t].rfq.award \in {NoAward} \cup (Suppliers \X Nat)
           /\ tx[t].rows \in Quotes
           /\ tx[t].order \in OrderStatuses
           /\ \A s \in Suppliers : tx[t].rows[s].row \in Nat
<1>1. tx[t] \in Session
  BY DEF TypeOK
<1> QED BY <1>1 DEF Session, RFQ, Quotes

\* The rows a purchaser may award are rows of suppliers.
LEMMA SeenAreRows ==
    ASSUME TypeOK, NEW t \in Tx
    PROVE  SeenRows(t) \subseteq Suppliers \X Nat
BY LoadedRows DEF SeenRows, Seen

-----------------------------------------------------------------------------
(* Type correctness *)

\* A commit that leaves typed rows leaves a typed state.
LEMMA CommitTyped ==
    ASSUME TypeOK, NEW t \in Tx, Commit(t), rfq' \in RFQ,
           order' \in OrderStatuses, quote' \in Quotes
    PROVE  TypeOK'
BY IdleSession DEF TypeOK, Commit

LEMMA InsertTyped ==
    ASSUME TypeOK, NEW s \in Suppliers, NEW pct \in {Unpriced, 0} \cup Markups,
           InsertQuote(s, pct)
    PROVE  /\ quote' \in Quotes /\ order' \in OrderStatuses
           /\ Quoters' = Quoters \cup {s}
<1>1. \A x \in Suppliers : quote[x].row \in Nat
  BY DEF TypeOK, Quotes
<1> QED BY <1>1 DEF TypeOK, InsertQuote, Quotes, Quoters

LEMMA OrderTyped ==
    ASSUME TypeOK, NEW t \in Tx, NEW status \in OrderStatuses, WriteOrder(t, status)
    PROVE  order' \in OrderStatuses
BY DEF TypeOK, WriteOrder, Written

\* Every value the handlers store in a row belongs to its column.
LEMMA Columns ==
    ASSUME NEW row \in RFQ
    PROVE  /\ \A n \in Nat : [row EXCEPT !.responded = n] \in RFQ
           /\ \A n \in Nat, status \in RFQStatuses :
                [row EXCEPT !.responded = n, !.status = status] \in RFQ
           /\ \A pct \in Markups : [row EXCEPT !.markup = pct] \in RFQ
           /\ \A status \in RFQStatuses : [row EXCEPT !.status = status] \in RFQ
           /\ \A award \in {NoAward} \cup (Suppliers \X Nat) :
                [row EXCEPT !.status = "awarded", !.award = award] \in RFQ
           /\ \A award \in {NoAward} \cup (Suppliers \X Nat), n \in Nat :
                [row EXCEPT !.status = "awarded", !.award = award,
                            !.responded = n] \in RFQ
<1>1. "awarded" \in RFQStatuses
  BY DEF RFQStatuses
<1> QED BY <1>1 DEF RFQ

\* They leave the other columns alone.
LEMMA OtherColumns ==
    ASSUME NEW row \in RFQ, NEW n, NEW status, NEW pct, NEW award
    PROVE  /\ LET new == [row EXCEPT !.responded = n, !.status = status]
              IN  new.responded = n /\ new.award = row.award
           /\ LET new == [row EXCEPT !.markup = pct]
              IN  new.responded = row.responded /\ new.award = row.award
           /\ LET new == [row EXCEPT !.status = status]
              IN  new.responded = row.responded /\ new.award = row.award
           /\ LET new == [row EXCEPT !.status = "awarded", !.award = award]
              IN  new.responded = row.responded /\ new.award = award
           /\ LET new == [row EXCEPT !.status = "awarded", !.award = award,
                                     !.responded = n]
              IN  new.responded = n /\ new.award = award
BY DEF RFQ

-----------------------------------------------------------------------------
(* The inductive invariant: what a session has loaded is no longer current, but *)
(* still bounded by the quotes there are now, for no commit removes a supplier. *)

SessionInv(t) ==
    /\ Seen(t) \subseteq Quoters
    /\ tx[t].rfq.responded <= Cardinality(Quoters)
    /\ tx[t].rfq.award # NoAward => tx[t].rfq.award[1] \in Quoters
    /\ tx[t].kind \in {"portal", "legacy"} => tx[t].by \in Suppliers

RaceInv ==
    /\ TypeOK
    /\ CountWithinQuotes
    /\ AwardedSupplierQuotes
    /\ \A t \in Tx : SessionInv(t)

\* What the invariant asks of the rows a commit leaves behind.
LeavesGoodRows ==
    /\ rfq' \in RFQ
    /\ order' \in OrderStatuses
    /\ quote' \in Quotes
    /\ Quoters \subseteq Quoters'
    /\ CountWithinQuotes'
    /\ AwardedSupplierQuotes'

LEMMA RaceInit == Init => RaceInv
<1> SUFFICES ASSUME Init
             PROVE  RaceInv
  OBVIOUS
<1>1. SentRFQ \in RFQ /\ SentRFQ.responded = 0 /\ SentRFQ.award = NoAward
  BY DEF SentRFQ, RFQ, RFQStatuses
<1>2. NoQuotes \in Quotes /\ "pending_approval" \in OrderStatuses
  BY DEF NoQuotes, NoQuote, Quotes, OrderStatuses
<1>3. TypeOK
  BY <1>1, <1>2, IdleSession DEF Init, TypeOK
<1>4. Cardinality(Quoters) \in Nat
  BY SuppliersFinite DEF Quoters
<1>5. \A t \in Tx : SessionInv(t)
  BY <1>4, IdleSession DEF Init, SessionInv, Seen, Idle
<1> QED BY <1>1, <1>3, <1>4, <1>5
        DEF Init, RaceInv, CountWithinQuotes, AwardedSupplierQuotes

\* Closing a session keeps what the others have loaded within bounds, since
\* suppliers with quotes only become more.
LEMMA CommitKeepsInv ==
    ASSUME RaceInv, NEW t \in Tx, Commit(t), LeavesGoodRows
    PROVE  RaceInv'
<1>1. TypeOK'
  BY CommitTyped DEF RaceInv, LeavesGoodRows
<1>2. Quoters \subseteq Quoters' /\ Quoters' \subseteq Suppliers
  BY DEF LeavesGoodRows, Quoters
<1>3. /\ Cardinality(Quoters) \in Nat /\ Cardinality(Quoters') \in Nat
      /\ Cardinality(Quoters) <= Cardinality(Quoters')
  BY <1>2, SuppliersFinite, SmallerQuoters
<1>4. ASSUME NEW u \in Tx
      PROVE  SessionInv(u)'
  <2>1. CASE u = t
    <3>1. tx'[u] = Idle
      BY <2>1 DEF Commit, RaceInv, TypeOK
    <3>2. Seen(u)' = {}
      BY <3>1, IdleSession DEF Seen
    <3> QED BY <1>3, <3>1, <3>2, IdleSession DEF SessionInv
  <2>2. CASE u # t
    <3>1. tx'[u] = tx[u]
      BY <2>2 DEF Commit, RaceInv, TypeOK
    <3>2. Seen(u)' = Seen(u)
      BY <3>1 DEF Seen
    <3>3. SessionInv(u) /\ tx[u].rfq.responded \in Nat
      BY LoadedRows DEF RaceInv
    <3> QED BY <1>2, <1>3, <3>1, <3>2, <3>3 DEF SessionInv
  <2> QED BY <2>1, <2>2
<1> QED BY <1>1, <1>4 DEF RaceInv, LeavesGoodRows

\* Quotes untouched: enough that the new count and award are within the quotes.
LEMMA WriteKeepsRowsGood ==
    ASSUME RaceInv, NEW t \in Tx, NEW new \in RFQ, WriteRFQ(t, new),
           order' \in OrderStatuses, quote' \in Quotes, Quoters \subseteq Quoters',
           new.responded <= Cardinality(Quoters'),
           new.award = tx[t].rfq.award \/ new.award \in SeenRows(t)
    PROVE  LeavesGoodRows
<1>1. /\ rfq' \in RFQ
      /\ rfq'.responded \in {rfq.responded, new.responded}
      /\ rfq'.award \in {rfq.award, new.award}
  BY WriteMixes DEF RaceInv
<1>2. Quoters' \subseteq Suppliers
  BY DEF Quoters
<1>3. /\ Cardinality(Quoters) \in Nat /\ Cardinality(Quoters') \in Nat
      /\ Cardinality(Quoters) <= Cardinality(Quoters')
  BY <1>2, SuppliersFinite, SmallerQuoters
<1>4. CountWithinQuotes'
  <2>1. rfq.responded <= Cardinality(Quoters) /\ rfq.responded \in Nat
    BY DEF RaceInv, CountWithinQuotes, TypeOK, RFQ
  <2> QED BY <1>1, <1>3, <2>1 DEF CountWithinQuotes
<1>5. AwardedSupplierQuotes'
  <2>1. CASE rfq'.award = rfq.award
    BY <2>1 DEF RaceInv, AwardedSupplierQuotes
  <2>2. CASE rfq'.award = new.award /\ new.award = tx[t].rfq.award
    BY <2>2 DEF RaceInv, SessionInv, AwardedSupplierQuotes
  <2>3. CASE rfq'.award = new.award /\ new.award \in SeenRows(t)
    BY <2>3 DEF RaceInv, SessionInv, SeenRows, AwardedSupplierQuotes
  <2> QED BY <1>1, <2>1, <2>2, <2>3
<1> QED BY <1>1, <1>4, <1>5 DEF LeavesGoodRows

-----------------------------------------------------------------------------
(* The commits, one lemma each. *)

\* The counter a submission of s may write: s is a new quoter, or the count
\* stays, or it restarts at one.
LEMMA CountFits ==
    ASSUME RaceInv, NEW t \in Tx, NEW s \in Suppliers, NEW n \in Nat,
           Quoters' = Quoters \cup {s},
           \/ n = tx[t].rfq.responded
           \/ n = 1
           \/ n = tx[t].rfq.responded + 1 /\ s \notin Quoters
    PROVE  n <= Cardinality(Quoters')
<1>1. Quoters \subseteq Suppliers
  BY DEF Quoters
<1>2. /\ IsFiniteSet(Quoters) /\ Cardinality(Quoters) \in Nat
      /\ Cardinality(Quoters') \in Nat
  BY <1>1, SuppliersFinite
<1>3. Cardinality(Quoters) <= Cardinality(Quoters')
  BY <1>1, SmallerQuoters
<1>4. tx[t].rfq.responded <= Cardinality(Quoters) /\ tx[t].rfq.responded \in Nat
  BY LoadedRows DEF RaceInv, SessionInv
<1>5. CASE n = tx[t].rfq.responded
  BY <1>2, <1>3, <1>4, <1>5
<1>6. CASE n = 1
  <2>1. Quoters' # {}
    OBVIOUS
  <2>2. IsFiniteSet(Quoters')
    BY <1>1, SuppliersFinite
  <2>3. Cardinality(Quoters') # 0
    BY <2>1, <2>2, FS_EmptySet
  <2> QED BY <1>2, <1>6, <2>3
<1>7. CASE n = tx[t].rfq.responded + 1 /\ s \notin Quoters
  <2>1. Cardinality(Quoters') = Cardinality(Quoters) + 1
    BY <1>2, <1>7, FS_AddElement
  <2> QED BY <1>2, <1>4, <1>7, <2>1
<1> QED BY <1>5, <1>6, <1>7

LEMMA PortalGood ==
    ASSUME RaceInv, NEW t \in Tx, CommitPortal(t)
    PROVE  LeavesGoodRows
<1> DEFINE s == tx[t].by
           loaded == tx[t].rfq.responded
           replaces == s \in Seen(t)
           down == IF replaces /\ loaded > 0 THEN loaded - 1 ELSE loaded
           answered == down + 1
           new == [tx[t].rfq EXCEPT !.responded = answered]
<1>1. s \in Suppliers /\ SessionInv(t) /\ TypeOK
  BY DEF CommitPortal, Ready, RaceInv, SessionInv
<1>2. tx[t].rfq \in RFQ /\ loaded \in Nat
  BY <1>1, LoadedRows
<1>3. /\ quote' \in Quotes /\ order' \in OrderStatuses
      /\ Quoters' = Quoters \cup {s}
  BY <1>1, InsertTyped DEF CommitPortal
<1>4. s \in Quoters <=> replaces
  BY <1>1 DEF CommitPortal, Quoters, Seen
<1>5. /\ answered \in Nat
      /\ \/ answered = loaded /\ loaded > 0 /\ replaces
         \/ answered = 1
         \/ answered = loaded + 1 /\ ~replaces
  BY <1>2
<1> HIDE DEF down
<1>6. answered <= Cardinality(Quoters')
  BY <1>1, <1>3, <1>4, <1>5, CountFits
<1>7. CASE WriteRFQ(t, new)
  <2>1. new \in RFQ /\ new.responded = answered /\ new.award = tx[t].rfq.award
    BY <1>2, <1>5, Columns DEF RFQ
  <2> HIDE DEF new, answered, s
  <2> QED BY <1>3, <1>6, <1>7, <2>1, WriteKeepsRowsGood
<1>8. CASE rfq' = [rfq EXCEPT !.responded = answered]
  <2>1. rfq \in RFQ
    BY <1>1 DEF TypeOK
  <2>2. rfq' \in RFQ /\ rfq'.responded = answered /\ rfq'.award = rfq.award
    BY <1>5, <1>8, <2>1, Columns DEF RFQ
  <2> HIDE DEF answered
  <2> QED BY <1>3, <1>6, <2>2
          DEF LeavesGoodRows, CountWithinQuotes, AwardedSupplierQuotes, RaceInv
<1>9. WriteRFQ(t, new) \/ rfq' = [rfq EXCEPT !.responded = answered]
  BY DEF CommitPortal, down
<1> QED BY <1>7, <1>8, <1>9

LEMMA LegacyGood ==
    ASSUME RaceInv, NEW t \in Tx, CommitLegacy(t)
    PROVE  LeavesGoodRows
<1> DEFINE s == tx[t].by
           answered == tx[t].rfq.responded + 1
           status == IF answered >= InvitedCount THEN "closed" ELSE tx[t].rfq.status
           new == [tx[t].rfq EXCEPT !.responded = answered, !.status = status]
<1>1. s \in Suppliers /\ TypeOK
  BY DEF CommitLegacy, Ready, RaceInv, SessionInv
<1>2. tx[t].rfq \in RFQ /\ tx[t].rfq.responded \in Nat
  BY <1>1, LoadedRows
<1>3. /\ quote' \in Quotes /\ order' \in OrderStatuses
      /\ Quoters' = Quoters \cup {s}
  BY <1>1, InsertTyped DEF CommitLegacy
<1>4. s \notin Quoters
  BY DEF CommitLegacy, Quoters
<1>5. answered \in Nat
  BY <1>2
<1>6. answered <= Cardinality(Quoters')
  BY <1>1, <1>3, <1>4, <1>5, CountFits
<1>7. status \in RFQStatuses
  BY <1>2 DEF RFQ, RFQStatuses
<1>8. WriteRFQ(t, new)
  BY DEF CommitLegacy
<1> HIDE DEF status, answered
<1>9. new \in RFQ
  BY <1>2, <1>7, <1>5, Columns
<1>10. new.responded = answered /\ new.award = tx[t].rfq.award
  BY <1>2, OtherColumns
<1> HIDE DEF new, s
<1> QED BY <1>3, <1>6, <1>8, <1>9, <1>10, WriteKeepsRowsGood

LEMMA MarkupGood ==
    ASSUME RaceInv, NEW t \in Tx, CommitMarkup(t)
    PROVE  LeavesGoodRows
<1>1. PICK pct \in Markups, written \in SUBSET Seen(t) :
        /\ quote' = [s \in Suppliers |->
                       IF s \in written THEN [row |-> quote[s].row, pct |-> pct]
                                        ELSE quote[s]]
        /\ \/ WriteRFQ(t, [tx[t].rfq EXCEPT !.markup = pct])
           \/ rfq' = [rfq EXCEPT !.markup = pct]
  BY DEF CommitMarkup
<1>2. TypeOK /\ order' \in OrderStatuses
  BY DEF CommitMarkup, RaceInv, TypeOK
<1>3. quote' \in Quotes
  BY <1>1, <1>2 DEF TypeOK, Quotes
<1>4. Quoters' = Quoters
  BY <1>1, <1>2 DEF TypeOK, Quotes, Quoters
<1>5. CASE WriteRFQ(t, [tx[t].rfq EXCEPT !.markup = pct])
  <2> DEFINE new == [tx[t].rfq EXCEPT !.markup = pct]
  <2>1. tx[t].rfq \in RFQ
    BY <1>2, LoadedRows
  <2>2. /\ new \in RFQ /\ new.responded = tx[t].rfq.responded
        /\ new.award = tx[t].rfq.award
    BY <2>1, Columns, OtherColumns
  <2>3. new.responded <= Cardinality(Quoters')
    BY <1>4, <2>2 DEF RaceInv, SessionInv
  <2> HIDE DEF new
  <2> QED BY <1>2, <1>3, <1>4, <1>5, <2>2, <2>3, WriteKeepsRowsGood DEF new
<1>6. CASE rfq' = [rfq EXCEPT !.markup = pct]
  <2>1. rfq \in RFQ
    BY <1>2 DEF TypeOK
  <2>2. /\ rfq' \in RFQ /\ rfq'.responded = rfq.responded
        /\ rfq'.award = rfq.award
    BY <1>6, <2>1, Columns, OtherColumns
  <2> QED BY <1>2, <1>3, <1>4, <2>2
          DEF LeavesGoodRows, CountWithinQuotes, AwardedSupplierQuotes, RaceInv
<1> QED BY <1>1, <1>5, <1>6

\* Sending, rejecting and sweeping: a new status for the RFQ and, possibly, the
\* order.
LEMMA StatusGood ==
    ASSUME RaceInv, NEW t \in Tx, NEW status \in RFQStatuses,
           WriteRFQ(t, [tx[t].rfq EXCEPT !.status = status]),
           quote' = quote, order' \in OrderStatuses
    PROVE  LeavesGoodRows
<1> DEFINE new == [tx[t].rfq EXCEPT !.status = status]
<1>1. TypeOK /\ SessionInv(t)
  BY DEF RaceInv
<1>2. tx[t].rfq \in RFQ
  BY <1>1, LoadedRows
<1>3. /\ new \in RFQ /\ new.responded = tx[t].rfq.responded
      /\ new.award = tx[t].rfq.award
  BY <1>2, Columns, OtherColumns
<1>4. quote' \in Quotes /\ Quoters' = Quoters
  BY <1>1 DEF TypeOK, Quoters
<1>5. new.responded <= Cardinality(Quoters')
  BY <1>1, <1>3, <1>4 DEF SessionInv
<1> HIDE DEF new
<1> QED BY <1>3, <1>4, <1>5, WriteKeepsRowsGood DEF new

LEMMA ApproveGood ==
    ASSUME RaceInv, NEW t \in Tx, CommitApprove(t)
    PROVE  LeavesGoodRows
<1>1. PICK award \in IF Seen(t) = {} THEN {tx[t].rfq.award} ELSE SeenRows(t) :
        WriteRFQ(t, [tx[t].rfq EXCEPT !.status = "awarded", !.award = award])
  BY DEF CommitApprove
<1> DEFINE new == [tx[t].rfq EXCEPT !.status = "awarded", !.award = award]
<1>2. TypeOK /\ SessionInv(t)
  BY DEF RaceInv
<1>3. award \in {NoAward} \cup (Suppliers \X Nat)
  BY <1>2, LoadedRows, SeenAreRows
<1>4. tx[t].rfq \in RFQ
  BY <1>2, LoadedRows
<1>5. new \in RFQ
  BY <1>3, <1>4, Columns
<1>6. new.responded = tx[t].rfq.responded /\ new.award = award
  BY <1>4, OtherColumns
<1>7. new.award = tx[t].rfq.award \/ new.award \in SeenRows(t)
  BY <1>6
<1>8. quote' \in Quotes /\ Quoters' = Quoters /\ order' \in OrderStatuses
  BY <1>2, OrderTyped DEF CommitApprove, TypeOK, Quoters, OrderStatuses
<1>9. new.responded <= Cardinality(Quoters')
  BY <1>2, <1>6, <1>8 DEF SessionInv
<1> HIDE DEF new
<1> QED BY <1>1, <1>6, <1>7, <1>8, <1>9, <1>5, WriteKeepsRowsGood DEF new

LEMMA CompareGood ==
    ASSUME RaceInv, NEW t \in Tx, CommitCompare(t)
    PROVE  LeavesGoodRows
<1> DEFINE n == Cardinality(Seen(t))
<1>1. PICK award \in SeenRows(t) :
        WriteRFQ(t, [tx[t].rfq EXCEPT !.status = "awarded", !.award = award,
                                      !.responded = n])
  BY DEF CommitCompare
<1> DEFINE new == [tx[t].rfq EXCEPT !.status = "awarded", !.award = award,
                                    !.responded = n]
<1>2. TypeOK /\ SessionInv(t)
  BY DEF RaceInv
<1>3. award \in {NoAward} \cup (Suppliers \X Nat)
  BY <1>2, SeenAreRows
<1>4. Seen(t) \subseteq Suppliers /\ Quoters \subseteq Suppliers
  BY DEF Seen, Quoters
<1>5. n \in Nat
  BY <1>4, SuppliersFinite
<1>6. quote' \in Quotes /\ Quoters' = Quoters /\ order' \in OrderStatuses
  BY <1>2 DEF CommitCompare, TypeOK, Quoters
<1>7. n <= Cardinality(Quoters')
  BY <1>2, <1>4, <1>6, SmallerQuoters DEF SessionInv
<1> HIDE DEF n
<1>8. tx[t].rfq \in RFQ
  BY <1>2, LoadedRows
<1>9. new \in RFQ
  BY <1>3, <1>5, <1>8, Columns
<1>10. new.responded = n /\ new.award = award
  BY <1>8, OtherColumns
<1> HIDE DEF new
<1> QED BY <1>1, <1>6, <1>7, <1>9, <1>10, WriteKeepsRowsGood DEF new

-----------------------------------------------------------------------------
(* Loading *)

\* A session that changes by itself, the rows staying as they are.
LEMMA SessionChange ==
    ASSUME RaceInv, NEW t \in Tx, NEW session \in Session,
           tx' = [tx EXCEPT ![t] = session],
           UNCHANGED <<rfq, order, quote, late>>,
           {s \in Suppliers : session.rows[s].row > 0} \subseteq Quoters,
           session.rfq = rfq \/ session.rfq = tx[t].rfq \/ session.rfq = SentRFQ,
           session.kind \in {"portal", "legacy"} => session.by \in Suppliers
    PROVE  RaceInv'
<1>1. TypeOK /\ TypeOK'
  BY DEF RaceInv, TypeOK
<1>2. Quoters' = Quoters /\ Cardinality(Quoters) \in Nat
  BY SuppliersFinite DEF Quoters
<1>3. CountWithinQuotes' /\ AwardedSupplierQuotes'
  BY <1>2 DEF RaceInv, CountWithinQuotes, AwardedSupplierQuotes
<1>4. ASSUME NEW u \in Tx
      PROVE  SessionInv(u)'
  <2>1. CASE u = t
    <3>1. tx'[u] = session
      BY <1>1, <2>1 DEF TypeOK
    <3>2. Seen(u)' \subseteq Quoters'
      BY <1>2, <3>1 DEF Seen
    <3>3. /\ session.rfq.responded <= Cardinality(Quoters)
          /\ session.rfq.award # NoAward => session.rfq.award[1] \in Quoters
      <4>1. CASE session.rfq = rfq
        BY <4>1 DEF RaceInv, CountWithinQuotes, AwardedSupplierQuotes
      <4>2. CASE session.rfq = tx[t].rfq
        BY <4>2 DEF RaceInv, SessionInv
      <4>3. CASE session.rfq = SentRFQ
        BY <1>2, <4>3 DEF SentRFQ
      <4> QED BY <4>1, <4>2, <4>3
    <3> QED BY <1>2, <3>1, <3>2, <3>3 DEF SessionInv
  <2>2. CASE u # t
    <3>1. tx'[u] = tx[u]
      BY <1>1, <2>2 DEF TypeOK
    <3>2. Seen(u)' = Seen(u)
      BY <3>1 DEF Seen
    <3> QED BY <1>2, <3>1, <3>2 DEF RaceInv, SessionInv
  <2> QED BY <2>1, <2>2
<1> QED BY <1>1, <1>3, <1>4 DEF RaceInv

LEMMA LoadKeepsInv ==
    ASSUME RaceInv, NEW t \in Tx, Load(t)
    PROVE  RaceInv'
<1>1. PICK kind \in Kinds, s \in Suppliers \cup {Nobody} :
        /\ Accepts(kind, s)
        /\ tx' = [tx EXCEPT ![t] = [Idle EXCEPT !.kind = kind, !.by = s,
                                                !.todo = Selects[kind],
                                                !.rfq = rfq]]
  BY DEF Load
<1> DEFINE session == [Idle EXCEPT !.kind = kind, !.by = s,
                                   !.todo = Selects[kind], !.rfq = rfq]
<1>2. kind \in AllKinds
  BY RaceAssumption
<1>3. Selects[kind] \in Seq({"order", "quotes"})
  <2>1. /\ Selects["portal"] = <<"quotes">> /\ Selects["legacy"] = <<>>
        /\ Selects["markup"] = <<"quotes", "quotes">>
        /\ Selects["send"] = <<"order">>
        /\ Selects["approve"] = <<"order", "quotes">>
        /\ Selects["reject"] = <<"order">> /\ Selects["compare"] = <<"quotes">>
        /\ Selects["sweep"] = <<"order">>
    BY DEF Selects
  <2>2. /\ <<"quotes", "quotes">> \in Seq({"order", "quotes"})
        /\ <<"order", "quotes">> \in Seq({"order", "quotes"})
        /\ <<"quotes">> \in Seq({"order", "quotes"})
        /\ <<"order">> \in Seq({"order", "quotes"})
        /\ <<>> \in Seq({"order", "quotes"})
    OBVIOUS
  <2> QED BY <1>2, <2>1, <2>2, Zenon DEF AllKinds
<1>4. rfq \in RFQ /\ Idle \in Session
  BY IdleSession DEF RaceInv, TypeOK
<1>5. /\ session.kind = kind /\ session.by = s /\ session.rfq = rfq
      /\ session.rows = Idle.rows
  BY <1>4 DEF Session
<1>6. session \in Session
  BY <1>2, <1>3, <1>4 DEF Session
<1>7. kind \in {"portal", "legacy"} => s \in Suppliers
  BY <1>1, RaceAssumption DEF Accepts
<1>8. {x \in Suppliers : session.rows[x].row > 0} = {}
  BY <1>5, IdleSession
<1>9. UNCHANGED <<rfq, order, quote, late>> /\ tx' = [tx EXCEPT ![t] = session]
  BY <1>1 DEF Load
<1> HIDE DEF session
<1> QED BY <1>5, <1>6, <1>7, <1>8, <1>9, SessionChange

LEMMA SelectOrderKeepsInv ==
    ASSUME RaceInv, NEW t \in Tx, SelectOrder(t)
    PROVE  RaceInv'
<1> DEFINE session == [tx[t] EXCEPT !.todo = Tail(@), !.order = order]
<1>1. tx[t] \in Session /\ order \in OrderStatuses /\ tx \in [Tx -> Session]
  BY LoadedRows DEF RaceInv, TypeOK
<1>2. tx[t].todo \in Seq({"order", "quotes"}) /\ tx[t].todo # <<>>
  BY <1>1 DEF Session, SelectOrder, Select
<1>3. Tail(tx[t].todo) \in Seq({"order", "quotes"})
  BY <1>2
<1>4. session \in Session
  BY <1>1, <1>3 DEF Session
<1>5. /\ session.kind = tx[t].kind /\ session.by = tx[t].by
      /\ session.rfq = tx[t].rfq /\ session.rows = tx[t].rows
  BY <1>1 DEF Session
<1>6. UNCHANGED <<rfq, order, quote, late>> /\ tx' = [tx EXCEPT ![t] = session]
  BY <1>1 DEF SelectOrder, Select
<1>7. SessionInv(t)
  BY DEF RaceInv
<1>8. {s \in Suppliers : session.rows[s].row > 0} \subseteq Quoters
  BY <1>5, <1>7 DEF SessionInv, Seen
<1>9. session.kind \in {"portal", "legacy"} => session.by \in Suppliers
  BY <1>5, <1>7 DEF SessionInv
<1> HIDE DEF session
<1> QED BY <1>4, <1>5, <1>6, <1>8, <1>9, SessionChange

LEMMA SelectQuotesKeepsInv ==
    ASSUME RaceInv, NEW t \in Tx, SelectQuotes(t)
    PROVE  RaceInv'
<1> DEFINE rows == [s \in Suppliers |->
                      IF tx[t].kind = "portal" /\ s # tx[t].by THEN NoQuote
                      ELSE IF tx[t].rows[s].row = quote[s].row THEN tx[t].rows[s]
                      ELSE quote[s]]
           session == [tx[t] EXCEPT !.todo = Tail(@), !.rows = rows]
<1>1. tx[t] \in Session /\ tx[t].rows \in Quotes /\ quote \in Quotes
  BY LoadedRows DEF RaceInv, TypeOK
<1>2. tx[t].todo \in Seq({"order", "quotes"}) /\ tx[t].todo # <<>>
  BY <1>1 DEF Session, SelectQuotes, Select
<1>3. Tail(tx[t].todo) \in Seq({"order", "quotes"})
  BY <1>2
<1>4. rows \in Quotes
  BY <1>1 DEF Quotes, NoQuote
<1>5. \A s \in Suppliers : rows[s].row > 0 => s \in Quoters
  <2> SUFFICES ASSUME NEW s \in Suppliers, rows[s].row > 0
               PROVE  quote[s].row > 0
    BY DEF Quoters
  <2> QED BY DEF NoQuote
<1>6. tx' = [tx EXCEPT ![t] = session]
  BY DEF SelectQuotes
<1> HIDE DEF rows
<1>7. session \in Session
  BY <1>1, <1>3, <1>4 DEF Session
<1>8. /\ session.kind = tx[t].kind /\ session.by = tx[t].by
      /\ session.rfq = tx[t].rfq /\ session.rows = rows
  BY <1>1 DEF Session
<1>9. session.kind \in {"portal", "legacy"} => session.by \in Suppliers
  BY <1>8 DEF RaceInv, SessionInv
<1>10. UNCHANGED <<rfq, order, quote, late>>
  BY DEF SelectQuotes, Select
<1>11. {s \in Suppliers : session.rows[s].row > 0} \subseteq Quoters
  BY <1>5, <1>8
<1> HIDE DEF session
<1> QED BY <1>6, <1>7, <1>8, <1>9, <1>10, <1>11, SessionChange

-----------------------------------------------------------------------------

LEMMA StepKeepsInv ==
    ASSUME RaceInv, NEW t \in Tx, Step(t)
    PROVE  RaceInv'
<1>0. TypeOK
  BY DEF RaceInv
<1>1. CASE Load(t)
  BY <1>1, LoadKeepsInv
<1>2. CASE SelectOrder(t)
  BY <1>2, SelectOrderKeepsInv
<1>3. CASE SelectQuotes(t)
  BY <1>3, SelectQuotesKeepsInv
<1>4. CASE CommitPortal(t)
  BY <1>4, PortalGood, CommitKeepsInv DEF CommitPortal
<1>5. CASE CommitLegacy(t)
  BY <1>5, LegacyGood, CommitKeepsInv DEF CommitLegacy
<1>6. CASE CommitMarkup(t)
  BY <1>6, MarkupGood, CommitKeepsInv DEF CommitMarkup
<1>7. CASE CommitSend(t)
  <2>1. order' \in OrderStatuses
    BY <1>0, <1>7, OrderTyped DEF CommitSend, OrderStatuses
  <2>2. LeavesGoodRows
    BY <1>7, <2>1, StatusGood DEF CommitSend, RFQStatuses
  <2> QED BY <1>7, <2>2, CommitKeepsInv DEF CommitSend
<1>8. CASE CommitApprove(t)
  BY <1>8, ApproveGood, CommitKeepsInv DEF CommitApprove
<1>9. CASE CommitReject(t)
  <2>1. order' \in OrderStatuses
    BY <1>0, <1>9, OrderTyped DEF CommitReject, OrderStatuses
  <2>2. LeavesGoodRows
    BY <1>9, <2>1, StatusGood DEF CommitReject, RFQStatuses
  <2> QED BY <1>9, <2>2, CommitKeepsInv DEF CommitReject
<1>10. CASE CommitCompare(t)
  BY <1>10, CompareGood, CommitKeepsInv DEF CommitCompare
<1>11. CASE CommitSweep(t)
  <2>1. order' \in OrderStatuses
    BY <1>0, <1>11, OrderTyped DEF CommitSweep, OrderStatuses, TypeOK
  <2>2. LeavesGoodRows
    BY <1>11, <2>1, StatusGood DEF CommitSweep, RFQStatuses
  <2> QED BY <1>11, <2>2, CommitKeepsInv DEF CommitSweep
<1>12. CASE Rollback(t)
  <2>1. tx' = [tx EXCEPT ![t] = Idle] /\ UNCHANGED <<rfq, order, quote, late>>
    BY <1>12 DEF Rollback
  <2>2. Idle.rfq = SentRFQ /\ Idle.kind = "idle"
    BY DEF Idle
  <2>3. {s \in Suppliers : Idle.rows[s].row > 0} = {}
    BY IdleSession
  <2> QED BY <2>1, <2>2, <2>3, IdleSession, SessionChange
<1> QED BY <1>1, <1>2, <1>3, <1>4, <1>5, <1>6, <1>7, <1>8, <1>9, <1>10, <1>11,
           <1>12 DEF Step

LEMMA RaceStep == RaceInv /\ [Next]_vars => RaceInv'
<1> SUFFICES ASSUME RaceInv, [Next]_vars
             PROVE  RaceInv'
  OBVIOUS
<1>1. CASE DeadlinePasses
  BY <1>1 DEF DeadlinePasses, RaceInv, TypeOK, CountWithinQuotes,
              AwardedSupplierQuotes, SessionInv, Seen, Quoters
<1>2. CASE \E t \in Tx : Step(t)
  BY <1>2, StepKeepsInv
<1>3. CASE UNCHANGED vars
  BY <1>3 DEF vars, RaceInv, TypeOK, CountWithinQuotes, AwardedSupplierQuotes,
              SessionInv, Seen, Quoters
<1> QED BY <1>1, <1>2, <1>3 DEF Next

LEMMA RaceInvariant == Spec => []RaceInv
BY RaceInit, RaceStep, PTL DEF Spec

\* The tables and what the sessions hold keep their types.
THEOREM RaceTypeCorrect == Spec => []TypeOK
<1>1. RaceInv => TypeOK
  BY DEF RaceInv
<1> QED BY <1>1, RaceInvariant, PTL

\* However responded_count's updates are lost (services/rfq.py and
\* marketplace_simple.py add one to the value they loaded), the count stays
\* within the number of quotes.
THEOREM CountSurvivesRaces == Spec => []CountWithinQuotes
<1>1. RaceInv => CountWithinQuotes
  BY DEF RaceInv
<1> QED BY <1>1, RaceInvariant, PTL

\* A resubmission that races an award leaves the awarded supplier a quote.
THEOREM AwardKeepsItsSupplier == Spec => []AwardedSupplierQuotes
<1>1. RaceInv => AwardedSupplierQuotes
  BY DEF RaceInv
<1> QED BY <1>1, RaceInvariant, PTL

\* Only the legacy route both stores a quote and closes the RFQ, and then as
\* many suppliers have quoted as were invited.
LEMMA AutoCloseStep ==
    ASSUME RaceInv, [Next]_vars, quote' # quote, rfq.status # "closed",
           rfq'.status = "closed"
    PROVE  Cardinality(Quoters') >= InvitedCount
<1>1. PICK t \in Tx : CommitPortal(t) \/ CommitLegacy(t) \/ CommitMarkup(t)
  BY DEF Next, Step, vars, DeadlinePasses, Load, SelectOrder, SelectQuotes,
         Select, CommitSend, CommitApprove, CommitReject, CommitCompare,
         CommitSweep, Rollback
<1>2. TypeOK /\ SessionInv(t)
  BY DEF RaceInv
<1>3. tx[t].rfq \in RFQ /\ tx[t].rfq.responded \in Nat /\ rfq \in RFQ
  BY <1>2, LoadedRows DEF TypeOK
<1>4. ~CommitPortal(t)
  <2> SUFFICES ASSUME CommitPortal(t)
               PROVE  rfq'.status = rfq.status
    OBVIOUS
  <2> QED BY <1>3 DEF CommitPortal, WriteRFQ, Written, RFQ
<1>5. ~CommitMarkup(t)
  <2> SUFFICES ASSUME CommitMarkup(t)
               PROVE  rfq'.status = rfq.status
    OBVIOUS
  <2> QED BY <1>3 DEF CommitMarkup, WriteRFQ, Written, RFQ
<1>6. CommitLegacy(t)
  BY <1>1, <1>4, <1>5
<1> DEFINE answered == tx[t].rfq.responded + 1
<1>7. answered >= InvitedCount
  <2> SUFFICES ASSUME ~(answered >= InvitedCount)
               PROVE  rfq'.status = rfq.status
    OBVIOUS
  <2>1. WriteRFQ(t, [tx[t].rfq EXCEPT !.responded = answered,
                                      !.status = tx[t].rfq.status])
    BY <1>6 DEF CommitLegacy
  <2> QED BY <1>3, <2>1 DEF WriteRFQ, Written, RFQ
<1>8. tx[t].by \in Suppliers /\ tx[t].by \notin Quoters
  BY <1>2, <1>6 DEF CommitLegacy, Ready, SessionInv, Quoters
<1>9. Quoters' = Quoters \cup {tx[t].by}
  BY <1>2, <1>6, <1>8, InsertTyped DEF CommitLegacy
<1>10. answered <= Cardinality(Quoters')
  BY <1>3, <1>8, <1>9, CountFits
<1>11. InvitedCount \in Nat /\ Cardinality(Quoters') \in Nat
  BY RaceAssumption, SuppliersFinite DEF InvitedCount, Quoters
<1> QED BY <1>3, <1>7, <1>10, <1>11

\* An RFQ is never closed early by the counter, whatever was lost on the way.
THEOREM AutoCloseNeverEarly == Spec => AutoCloseIsComplete
<1>1. RaceInv /\ [Next]_vars =>
        [quote' # quote /\ rfq.status # "closed" /\ rfq'.status = "closed" =>
           Cardinality(Quoters') >= InvitedCount]_vars
  BY AutoCloseStep
<1> QED BY <1>1, RaceInvariant, PTL DEF Spec, AutoCloseIsComplete
=============================================================================
