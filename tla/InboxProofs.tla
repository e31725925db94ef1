---------------------------- MODULE InboxProofs ----------------------------
(***************************************************************************)
(* Proofs about Inbox for any number of notifications and requests in      *)
(* flight and any page size.                                               *)
(*                                                                         *)
(* What they rest on: a row is never unread again, so that a list, however *)
(* late its answer comes, shows nothing as read that the table does not.   *)
(***************************************************************************)
EXTENDS Inbox, FiniteSetTheorems, TLAPS

\* The list answers on their way lag behind the table, never ahead of it.
PagesLag ==
    \A c \in Calls : \A n \in Notes :
        /\ call[c].page[n] # "none" => row[n] # "none"
        /\ call[c].page[n] = "read" => row[n] = "read"

ItemsExist == \A n \in Notes : items[n] # "none" => row[n] # "none"

MarksNamed == \A c \in Calls : call[c].kind = "mark" => call[c].note \in Notes

InboxInv ==
    /\ TypeOK
    /\ MarksNamed
    /\ PagesLag
    /\ ItemsExist
    /\ ShownReadIsRead
    /\ SpinnerEnds

\* No row is deleted, and no row that is read becomes unread.
RowsGoOn ==
    /\ row' \in List
    /\ \A n \in Notes :
         /\ row[n] # "none" => row'[n] # "none"
         /\ row[n] = "read" => row'[n] = "read"

-----------------------------------------------------------------------------
(* Facts about the operators *)

LEMMA ReadGoesOn ==
    ASSUME TypeOK, NEW S, row' = Read(S)
    PROVE  /\ RowsGoOn
           /\ \A n \in Notes \cap S : row[n] # "none" => row'[n] = "read"
BY DEF TypeOK, Read, RowsGoOn, List, Marks

LEMMA SameRows ==
    ASSUME TypeOK, UNCHANGED row
    PROVE  RowsGoOn
BY DEF TypeOK, RowsGoOn

LEMMA Requested ==
    ASSUME NEW kind \in {"idle", "list", "count", "mark", "markAll"},
           NEW n \in Notes \cup {0}
    PROVE  /\ Request(kind, n) \in Call
           /\ Request(kind, n).kind = kind
           /\ Request(kind, n).note = n
           /\ ~Request(kind, n).done
           /\ \A m \in Notes : Request(kind, n).page[m] = "none"
BY DEF Request, Call, NoList, List, Marks

LEMMA CountIsNat ==
    ASSUME TypeOK
    PROVE  Cardinality(UnreadRows) \in Nat
<1>1. IsFiniteSet(Notes)
  BY InboxAssumption, FS_Interval DEF Notes
<1>2. IsFiniteSet(UnreadRows)
  BY <1>1, FS_Subset DEF UnreadRows
<1> QED BY <1>2, FS_CardinalityType

-----------------------------------------------------------------------------
(* The invariant *)

\* One request changes to q; it is idle, sent, answered or turned into another.
LEMMA CallChanges ==
    ASSUME InboxInv, NEW c \in Calls, NEW q \in Call,
           call' = [call EXCEPT ![c] = q],
           q.kind = "mark" => q.note \in Notes,
           RowsGoOn,
           \A n \in Notes : /\ q.page[n] # "none" => row'[n] # "none"
                            /\ q.page[n] = "read" => row'[n] = "read",
           items' \in List,
           \A n \in Notes : items'[n] # "none" => row'[n] # "none",
           badge' \in Nat,
           loading' \in BOOLEAN,
           loading' => q.kind = "list" \/ (loading /\ call[c].kind # "list"),
           panelOpen' \in BOOLEAN,
           doubtful' \in SUBSET Notes,
           doubtful \subseteq doubtful',
           \A n \in Notes : items'[n] = "read" /\ row'[n] # "read" =>
               \/ n \in doubtful'
               \/ Marking(q, n)
               \/ items[n] = "read" /\ ~Marking(call[c], n)
    PROVE  InboxInv'
<1>1. /\ call'[c] = q
      /\ \A d \in Calls : d # c => call'[d] = call[d]
  BY DEF InboxInv, TypeOK
<1>2. TypeOK' /\ MarksNamed'
  BY <1>1 DEF InboxInv, TypeOK, RowsGoOn, MarksNamed
<1>3. PagesLag'
  <2> SUFFICES ASSUME NEW d \in Calls, NEW n \in Notes
               PROVE  /\ call'[d].page[n] # "none" => row'[n] # "none"
                      /\ call'[d].page[n] = "read" => row'[n] = "read"
    BY DEF PagesLag
  <2>1. CASE d = c
    BY <1>1, <2>1
  <2>2. CASE d # c
    BY <1>1, <2>2 DEF InboxInv, PagesLag, RowsGoOn
  <2> QED BY <2>1, <2>2
<1>4. ItemsExist'
  BY DEF ItemsExist
<1>5. ShownReadIsRead'
  <2> SUFFICES ASSUME NEW n \in Notes, items'[n] = "read", row'[n] # "read"
               PROVE  n \in doubtful' \/ \E d \in Calls : Marking(call'[d], n)
    BY DEF ShownReadIsRead, Marking
  <2>1. CASE n \in doubtful' \/ Marking(q, n)
    BY <1>1, <2>1
  <2>2. CASE items[n] = "read" /\ ~Marking(call[c], n)
    <3>1. row[n] # "read"
      BY DEF RowsGoOn
    <3>2. n \in doubtful \/ \E d \in Calls : Marking(call[d], n)
      BY <2>2, <3>1 DEF InboxInv, ShownReadIsRead
    <3> QED BY <1>1, <2>2, <3>2
  <2> QED BY <2>1, <2>2
<1>6. SpinnerEnds'
  <2> SUFFICES ASSUME loading'
               PROVE  \E d \in Calls : call'[d].kind = "list"
    BY DEF SpinnerEnds
  <2>1. CASE q.kind = "list"
    BY <1>1, <2>1
  <2>2. CASE loading /\ call[c].kind # "list"
    BY <1>1, <2>2 DEF InboxInv, SpinnerEnds
  <2> QED BY <2>1, <2>2
<1> QED BY <1>2, <1>3, <1>4, <1>5, <1>6 DEF InboxInv

\* The table moves on by itself.
LEMMA TableMoves ==
    ASSUME InboxInv, RowsGoOn,
           UNCHANGED <<items, badge, loading, panelOpen, call, doubtful>>
    PROVE  InboxInv'
<1>1. TypeOK' /\ MarksNamed'
  BY DEF InboxInv, TypeOK, RowsGoOn, MarksNamed
<1>2. PagesLag' /\ ItemsExist'
  BY DEF InboxInv, PagesLag, ItemsExist, RowsGoOn
<1>3. ShownReadIsRead'
  BY DEF InboxInv, ShownReadIsRead, RowsGoOn
<1>4. SpinnerEnds'
  BY DEF InboxInv, SpinnerEnds
<1> QED BY <1>1, <1>2, <1>3, <1>4 DEF InboxInv

LEMMA InitInv == Init => InboxInv
<1> SUFFICES ASSUME Init PROVE InboxInv
  OBVIOUS
<1>1. Idle \in Call /\ \A m \in Notes : Idle.page[m] = "none"
  BY Requested DEF Idle
<1>2. TypeOK
  BY <1>1 DEF Init, TypeOK, NoList, List, Marks
<1>3. MarksNamed /\ PagesLag /\ ItemsExist /\ ShownReadIsRead /\ SpinnerEnds
  BY <1>1, Requested DEF Init, Idle, MarksNamed, PagesLag, ItemsExist, ShownReadIsRead, SpinnerEnds, NoList
<1> QED BY <1>2, <1>3 DEF InboxInv

LEMMA ServeInv ==
    ASSUME InboxInv, NEW c \in Calls, Serve(c)
    PROVE  InboxInv'
<1> DEFINE old == call[c]
<1>1. /\ old \in Call
      /\ old.kind = "mark" => old.note \in Notes
      /\ \A n \in Notes : /\ old.page[n] # "none" => row[n] # "none"
                          /\ old.page[n] = "read" => row[n] = "read"
  BY DEF InboxInv, TypeOK, PagesLag, MarksNamed
<1>2. TypeOK
  BY DEF InboxInv
<1>3. CASE ListNotifications(c)
  <2> DEFINE page == [n \in Notes |-> IF n \in Newest THEN row[n] ELSE "none"]
             q == [old EXCEPT !.done = TRUE, !.page = page]
  <2>1. page \in List
    BY <1>2 DEF TypeOK, List, Marks
  <2> HIDE DEF page
  <2>2. q \in Call /\ q.page = page /\ q.kind = old.kind /\ q.note = old.note /\ q.done
    BY <1>1, <2>1 DEF Call
  <2>3. call' = [call EXCEPT ![c] = q]
    BY <1>3 DEF ListNotifications, page
  <2>4. \A n \in Notes : page[n] \in {"none", row[n]}
    BY DEF page
  <2>5. \A n \in Notes : ~Marking(old, n)
    BY <1>3 DEF ListNotifications, Served, Marking
  <2>6. RowsGoOn
    BY <1>2, <1>3, SameRows DEF ListNotifications
  <2>7. UNCHANGED <<row, items, badge, loading, panelOpen, doubtful>> /\ old.kind = "list"
    BY <1>3 DEF ListNotifications, Served
  <2>8. \A n \in Notes : items[n] # "none" => row[n] # "none"
    BY DEF InboxInv, ItemsExist
  <2>9. /\ items' \in List /\ badge' \in Nat /\ loading' \in BOOLEAN
        /\ panelOpen' \in BOOLEAN
        /\ doubtful' \in SUBSET Notes /\ doubtful \subseteq doubtful'
        /\ \A n \in Notes : items'[n] # "none" => row'[n] # "none"
        /\ q.kind = "list"
    BY <1>1, <1>2, <2>2, <2>7, <2>8 DEF TypeOK
  <2>10. \A n \in Notes : /\ q.page[n] # "none" => row'[n] # "none"
                          /\ q.page[n] = "read" => row'[n] = "read"
    BY <2>2, <2>4, <2>7
  <2>11. \A n \in Notes : items'[n] = "read" => items[n] = "read" /\ ~Marking(old, n)
    BY <2>5, <2>7
  <2> HIDE DEF q
  <2> QED BY <2>2, <2>3, <2>6, <2>9, <2>10, <2>11, CallChanges
<1>4. CASE UnreadCount(c)
  <2> DEFINE q == [old EXCEPT !.done = TRUE, !.count = Cardinality(UnreadRows)]
  <2>1. Cardinality(UnreadRows) \in Nat
    BY <1>2, CountIsNat
  <2>2. q \in Call /\ q.page = old.page /\ q.kind = old.kind /\ q.note = old.note /\ q.done
    BY <1>1, <2>1 DEF Call
  <2>3. call' = [call EXCEPT ![c] = q]
    BY <1>4 DEF UnreadCount
  <2>4. \A n \in Notes : ~Marking(old, n)
    BY <1>4 DEF UnreadCount, Served, Marking
  <2>5. RowsGoOn
    BY <1>2, <1>4, SameRows DEF UnreadCount
  <2>6. UNCHANGED <<row, items, badge, loading, panelOpen, doubtful>> /\ old.kind = "count"
    BY <1>4 DEF UnreadCount, Served
  <2>7. \A n \in Notes : items[n] # "none" => row[n] # "none"
    BY DEF InboxInv, ItemsExist
  <2>8. /\ items' \in List /\ badge' \in Nat /\ loading' \in BOOLEAN
        /\ panelOpen' \in BOOLEAN
        /\ doubtful' \in SUBSET Notes /\ doubtful \subseteq doubtful'
        /\ \A n \in Notes : items'[n] # "none" => row'[n] # "none"
        /\ loading' => loading /\ old.kind # "list"
        /\ q.kind # "mark"
    BY <1>1, <1>2, <2>2, <2>6, <2>7 DEF TypeOK
  <2>9. \A n \in Notes : /\ q.page[n] # "none" => row'[n] # "none"
                         /\ q.page[n] = "read" => row'[n] = "read"
    BY <1>1, <2>2, <2>6
  <2>10. \A n \in Notes : items'[n] = "read" => items[n] = "read" /\ ~Marking(old, n)
    BY <2>4, <2>6
  <2> HIDE DEF q
  <2> QED BY <2>2, <2>3, <2>5, <2>8, <2>9, <2>10, CallChanges
<1>5. CASE MarkRead(c) \/ MarkAllRead(c)
  <2> DEFINE q == [old EXCEPT !.done = TRUE]
             S == IF old.kind = "mark" THEN {old.note} ELSE Notes
  <2>1. q \in Call /\ q.page = old.page /\ q.kind = old.kind /\ q.note = old.note /\ q.done
    BY <1>1 DEF Call
  <2>2. call' = [call EXCEPT ![c] = q] /\ row' = Read(S) /\ q.kind # "list"
    BY <1>5, <2>1 DEF MarkRead, MarkAllRead, Served
  <2>3. RowsGoOn /\ \A n \in Notes \cap S : row[n] # "none" => row'[n] = "read"
    BY <1>2, <2>2, ReadGoesOn
  <2>4. \A n \in Notes : Marking(old, n) => n \in S
    BY DEF Marking
  <2>5. UNCHANGED <<items, badge, loading, panelOpen, doubtful>>
    BY <1>5 DEF MarkRead, MarkAllRead
  <2>6. \A n \in Notes : items[n] # "none" => row'[n] # "none"
    BY <2>3 DEF InboxInv, ItemsExist, RowsGoOn
  <2>7. \A n \in Notes : /\ q.page[n] # "none" => row'[n] # "none"
                         /\ q.page[n] = "read" => row'[n] = "read"
    BY <1>1, <2>1, <2>3 DEF RowsGoOn
  <2>8. \A n \in Notes : items[n] = "read" /\ row'[n] # "read" => ~Marking(old, n)
    BY <2>3, <2>4 DEF InboxInv, ItemsExist
  <2> HIDE DEF q, S
  <2>9. old.kind # "list"
    BY <2>1, <2>2
  <2> QED
    BY <1>1, <1>2, <2>1, <2>2, <2>3, <2>5, <2>6, <2>7, <2>8, <2>9, CallChanges
       DEF InboxInv, TypeOK
<1> QED BY <1>3, <1>4, <1>5 DEF Serve

\* The tab sends a request or takes an answer, and the table stays as it is.
LEMMA TabInv ==
    ASSUME InboxInv, NEW c \in Calls,
           Poll(c) \/ Receive(c) \/ UserStep(c) \/ Fail(c)
    PROVE  InboxInv'
<1>1. /\ TypeOK
      /\ call[c] \in Call
      /\ \A n \in Notes : items[n] # "none" => row[n] # "none"
  BY DEF InboxInv, TypeOK, ItemsExist
<1>2. Idle.kind = "idle" /\ Idle \in Call /\ \A m \in Notes : Idle.page[m] = "none"
  BY Requested DEF Idle
<1>3. ASSUME UNCHANGED row PROVE RowsGoOn
  BY <1>1, <1>3, SameRows
<1>4. ASSUME call[c].kind \notin {"mark", "markAll"}, NEW n \in Notes
      PROVE  ~Marking(call[c], n)
  BY <1>4 DEF Marking
<1>5. CASE Poll(c)
  <2> DEFINE q == Request("count", 0)
  <2>0. /\ q \in Call /\ q.kind = "count" /\ q.note = 0 /\ ~q.done
        /\ \A n \in Notes : q.page[n] = "none"
    BY Requested
  <2>1. call' = [call EXCEPT ![c] = q] /\ call[c].kind = "idle"
    BY <1>2, <1>5 DEF Poll
  <2>2. UNCHANGED <<row, items, badge, loading, panelOpen, doubtful>>
    BY <1>5 DEF Poll
  <2> HIDE DEF q
  <2> QED BY <1>1, <1>3, <1>4, <2>0, <2>1, <2>2, CallChanges DEF TypeOK
<1>6. CASE OpenPanel(c)
  <2> DEFINE q == Request("list", 0)
  <2>0. /\ q \in Call /\ q.kind = "list" /\ q.note = 0 /\ ~q.done
        /\ \A n \in Notes : q.page[n] = "none"
    BY Requested
  <2>1. call' = [call EXCEPT ![c] = q] /\ call[c].kind = "idle"
    BY <1>2, <1>6 DEF OpenPanel
  <2>2. UNCHANGED <<row, items, badge, doubtful>> /\ loading' /\ panelOpen' \in BOOLEAN
        /\ loading' \in BOOLEAN
    BY <1>6 DEF OpenPanel
  <2> HIDE DEF q
  <2> QED BY <1>1, <1>3, <1>4, <2>0, <2>1, <2>2, CallChanges DEF TypeOK
<1>7. CASE ClickMarkAll(c)
  <2> DEFINE q == Request("markAll", 0)
  <2>0. /\ q \in Call /\ q.kind = "markAll" /\ q.note = 0 /\ ~q.done
        /\ \A n \in Notes : q.page[n] = "none"
    BY Requested
  <2> DEFINE marked == [n \in Notes |-> IF items[n] = "unread" THEN "read" ELSE items[n]]
  <2>1. call' = [call EXCEPT ![c] = q] /\ call[c].kind = "idle"
    BY <1>2, <1>7 DEF ClickMarkAll
  <2>2. /\ UNCHANGED <<row, loading, panelOpen, doubtful>>
        /\ badge' = 0 /\ items' = marked
    BY <1>7 DEF ClickMarkAll
  <2>3. marked \in List /\ \A n \in Notes : marked[n] # "none" => items[n] # "none"
    BY <1>1 DEF TypeOK, List, Marks
  <2>4. \A n \in Notes : Marking(q, n)
    BY <2>0 DEF Marking
  <2> HIDE DEF q, marked
  <2> QED BY <1>1, <1>3, <2>0, <2>1, <2>2, <2>3, <2>4, CallChanges DEF TypeOK
<1>8. ASSUME NEW m \in Notes, ClickRow(c, m) PROVE InboxInv'
  <2> DEFINE q == Request("mark", m)
  <2>0. /\ q \in Call /\ q.kind = "mark" /\ q.note = m /\ ~q.done
        /\ \A n \in Notes : q.page[n] = "none"
    BY Requested
  <2>1. call' = [call EXCEPT ![c] = q] /\ call[c].kind = "idle"
    BY <1>2, <1>8 DEF ClickRow
  <2>2. /\ UNCHANGED <<row, loading, doubtful>>
        /\ badge' \in Nat /\ panelOpen' \in BOOLEAN
        /\ items' = [items EXCEPT ![m] = "read"]
        /\ items[m] = "unread"
    BY <1>1, <1>8 DEF ClickRow, TypeOK
  <2>3. /\ items' \in List
        /\ \A n \in Notes : items'[n] # "none" => items[n] # "none"
        /\ \A n \in Notes : n # m => items'[n] = items[n]
    BY <1>1, <2>2 DEF TypeOK, List, Marks
  <2>4. Marking(q, m)
    BY <2>0 DEF Marking
  <2>5. \A n \in Notes : items'[n] = "read" =>
          Marking(q, n) \/ (items[n] = "read" /\ ~Marking(call[c], n))
    BY <1>4, <2>1, <2>3, <2>4
  <2>6. /\ RowsGoOn
        /\ \A n \in Notes : /\ q.page[n] # "none" => row'[n] # "none"
                            /\ q.page[n] = "read" => row'[n] = "read"
        /\ \A n \in Notes : items'[n] # "none" => row'[n] # "none"
    BY <1>1, <1>3, <2>0, <2>2, <2>3
  <2>7. /\ badge' \in Nat /\ loading' \in BOOLEAN /\ panelOpen' \in BOOLEAN
        /\ loading' => q.kind = "list" \/ (loading /\ call[c].kind # "list")
        /\ doubtful' \in SUBSET Notes /\ doubtful \subseteq doubtful'
    BY <1>1, <2>1, <2>2 DEF TypeOK
  <2>8. q.kind = "mark" => q.note \in Notes
    BY <2>0
  <2>9. \A n \in Notes : items'[n] = "read" /\ row'[n] # "read" =>
          \/ n \in doubtful'
          \/ Marking(q, n)
          \/ items[n] = "read" /\ ~Marking(call[c], n)
    BY <2>5
  <2>10. q \in Call /\ call' = [call EXCEPT ![c] = q] /\ items' \in List
    BY <2>0, <2>1, <2>3
  <2> HIDE DEF q
  <2> QED BY <2>6, <2>7, <2>8, <2>9, <2>10, CallChanges
<1>9. CASE ReceiveList(c)
  <2>1. call' = [call EXCEPT ![c] = Idle] /\ call[c].kind = "list"
    BY <1>9 DEF ReceiveList
  <2>2. UNCHANGED <<row, badge, panelOpen, doubtful>> /\ items' = call[c].page /\ ~loading'
        /\ loading' \in BOOLEAN
    BY <1>9 DEF ReceiveList
  <2>3. /\ items' \in List
        /\ \A n \in Notes : items'[n] # "none" => row[n] # "none"
        /\ \A n \in Notes : items'[n] = "read" => row[n] = "read"
    BY <1>1, <2>2 DEF InboxInv, PagesLag, Call
  <2> QED BY <1>1, <1>2, <1>3, <2>1, <2>2, <2>3, CallChanges DEF TypeOK
<1>10. CASE ReceiveCount(c)
  <2>1. call' = [call EXCEPT ![c] = Idle] /\ call[c].kind = "count"
    BY <1>10 DEF ReceiveCount
  <2>2. UNCHANGED <<row, items, loading, panelOpen, doubtful>> /\ badge' \in Nat
    BY <1>1, <1>10 DEF ReceiveCount, Call
  <2> QED BY <1>1, <1>2, <1>3, <1>4, <2>1, <2>2, CallChanges DEF TypeOK
<1>11. CASE ReceiveMarked(c)
  <2>1. call' = [call EXCEPT ![c] = Idle] /\ call[c].kind # "list"
    BY <1>11 DEF ReceiveMarked
  <2>2. UNCHANGED <<row, items, badge, loading, panelOpen, doubtful>>
    BY <1>11 DEF ReceiveMarked
  <2>3. \A n \in Notes : ~Marking(call[c], n)
    BY <1>11 DEF ReceiveMarked, Marking
  <2> QED BY <1>1, <1>2, <1>3, <2>1, <2>2, <2>3, CallChanges DEF TypeOK
<1>12. CASE FailList(c)
  <2>1. call' = [call EXCEPT ![c] = Idle] /\ call[c].kind = "list"
    BY <1>12 DEF FailList
  <2>2. UNCHANGED <<row, items, badge, panelOpen, doubtful>> /\ ~loading'
        /\ loading' \in BOOLEAN
    BY <1>12 DEF FailList
  <2> QED BY <1>1, <1>2, <1>3, <1>4, <2>1, <2>2, CallChanges DEF TypeOK
<1>13. CASE FailCount(c)
  <2>1. call' = [call EXCEPT ![c] = Idle] /\ call[c].kind = "count"
    BY <1>13 DEF FailCount
  <2>2. UNCHANGED <<row, items, badge, loading, panelOpen, doubtful>>
    BY <1>13 DEF FailCount
  <2> QED BY <1>1, <1>2, <1>3, <1>4, <2>1, <2>2, CallChanges DEF TypeOK
<1>14. CASE FailMark(c)
  <2> DEFINE q == Request("count", 0)
  <2>0. /\ q \in Call /\ q.kind = "count" /\ q.note = 0 /\ ~q.done
        /\ \A n \in Notes : q.page[n] = "none"
    BY Requested
  <2>1. call' = [call EXCEPT ![c] = q] /\ call[c].kind # "list"
    BY <1>14 DEF FailMark
  <2>2. UNCHANGED <<row, items, badge, loading, panelOpen>>
    BY <1>14 DEF FailMark
  <2>3. doubtful' \in SUBSET Notes /\ doubtful \subseteq doubtful'
    <3>1. CASE call[c].kind = "mark"
      <4>1. doubtful' = doubtful \cup {call[c].note}
        BY <1>14, <3>1 DEF FailMark
      <4>2. call[c].note \in Notes
        BY <3>1 DEF InboxInv, MarksNamed
      <4> QED BY <1>1, <4>1, <4>2 DEF TypeOK
    <3>2. CASE call[c].kind # "mark"
      BY <1>1, <1>14, <3>2 DEF FailMark, TypeOK
    <3> QED BY <3>1, <3>2
  <2>4. \A n \in Notes : items[n] = "read" /\ Marking(call[c], n) => n \in doubtful'
    BY <1>14 DEF FailMark, Marking
  <2> HIDE DEF q
  <2> QED BY <1>1, <1>3, <2>0, <2>1, <2>2, <2>3, <2>4, CallChanges DEF TypeOK
<1> QED
  BY <1>5, <1>6, <1>7, <1>8, <1>9, <1>10, <1>11, <1>12, <1>13, <1>14
     DEF Receive, UserStep, Fail

LEMMA ReloadInv ==
    ASSUME InboxInv, Reload
    PROVE  InboxInv'
<1>1. Idle \in Call /\ Idle.kind = "idle" /\ \A m \in Notes : Idle.page[m] = "none"
  BY Requested DEF Idle
<1>2. TypeOK'
  BY <1>1 DEF Reload, InboxInv, TypeOK, NoList, List, Marks
<1>3. MarksNamed' /\ PagesLag' /\ ItemsExist' /\ ShownReadIsRead' /\ SpinnerEnds'
  BY <1>1 DEF Reload, MarksNamed, PagesLag, ItemsExist, ShownReadIsRead,
              SpinnerEnds, NoList
<1> QED BY <1>2, <1>3 DEF InboxInv

LEMMA InboxStep == InboxInv /\ [Next]_vars => InboxInv'
<1> SUFFICES ASSUME InboxInv, [Next]_vars PROVE InboxInv'
  OBVIOUS
<1>1. CASE SystemStep
  BY <1>1, ServeInv, TabInv DEF SystemStep
<1>2. ASSUME NEW c \in Calls, UserStep(c) \/ Fail(c) PROVE InboxInv'
  BY <1>2, TabInv
<1>3. CASE ClosePanel
  BY <1>3 DEF ClosePanel, InboxInv, TypeOK, MarksNamed, PagesLag, ItemsExist,
              ShownReadIsRead, SpinnerEnds
<1>4. CASE Reload
  BY <1>4, ReloadInv
<1>5. ASSUME NEW n \in Notes, CreateNotification(n) PROVE InboxInv'
  <2>1. RowsGoOn
    BY <1>5 DEF CreateNotification, InboxInv, TypeOK, RowsGoOn, List, Marks
  <2> QED BY <1>5, <2>1, TableMoves DEF CreateNotification
<1>6. ASSUME NEW S \in SUBSET Notes, ReadElsewhere(S) PROVE InboxInv'
  <2>1. RowsGoOn
    BY <1>6, ReadGoesOn DEF ReadElsewhere, InboxInv
  <2> QED BY <1>6, <2>1, TableMoves DEF ReadElsewhere
<1>7. CASE UNCHANGED vars
  BY <1>7 DEF vars, InboxInv, TypeOK, MarksNamed, PagesLag, ItemsExist,
              ShownReadIsRead, SpinnerEnds
<1> QED BY <1>1, <1>2, <1>3, <1>4, <1>5, <1>6, <1>7 DEF Next

LEMMA InboxInvariant == Spec => []InboxInv
<1> QED BY InitInv, InboxStep, PTL DEF Spec

-----------------------------------------------------------------------------
(* The theorems *)

\* The rows, the store and the requests keep their types; in particular the
\* badge never goes below zero.
THEOREM InboxTypeCorrect == Spec => []TypeOK
<1>1. InboxInv => TypeOK
  BY DEF InboxInv
<1> QED BY <1>1, InboxInvariant, PTL

\* No optimistic mark is forgotten: what the store shows as read is read, being
\* marked, or known to have failed.
THEOREM MarksAreKept == Spec => []ShownReadIsRead
<1>1. InboxInv => ShownReadIsRead
  BY DEF InboxInv
<1> QED BY <1>1, InboxInvariant, PTL

\* The spinner of the panel never outlives the list requests.
THEOREM SpinnerNeverStuck == Spec => []SpinnerEnds
<1>1. InboxInv => SpinnerEnds
  BY DEF InboxInv
<1> QED BY <1>1, InboxInvariant, PTL
=============================================================================
