------------------------------- MODULE Inbox -------------------------------
(***************************************************************************)
(* One user's notifications: the rows, the four endpoints, and the store   *)
(* of a browser tab with its badge, its panel, its optimistic updates and  *)
(* its poll.  Requests overlap, their answers come in any order and any of *)
(* them may fail.                                                          *)
(*                                                                         *)
(* Titles, bodies and the rendering of a row are left out.  Other tabs and *)
(* devices of the user appear through what they mark as read.              *)
(***************************************************************************)
EXTENDS Integers, FiniteSets

CONSTANTS
    MaxNotes,   \* bound: notifications the user receives
    PageSize,   \* limit of listNotifications
    Calls       \* requests the tab may have in flight

ASSUME InboxAssumption ==
    /\ MaxNotes \in Nat
    /\ PageSize \in Nat \ {0}

VARIABLES
    row,        \* notifications rows of the user: read_at set or not
    items,      \* the store's list
    badge,      \* unreadCount
    loading,
    panelOpen,
    call,       \* the requests in flight
    doubtful    \* history: notifications whose marking has failed

vars == <<row, items, badge, loading, panelOpen, call, doubtful>>

Notes == 1..MaxNotes               \* in the order of created_at
Marks == {"none", "unread", "read"}
List == [Notes -> Marks]
NoList == [n \in Notes |-> "none"]

Call == [kind: {"idle", "list", "count", "mark", "markAll"},
         note: Notes \cup {0},
         done: BOOLEAN,            \* the server has handled it
         count: Nat,               \* its answers
         page: List]

Request(kind, n) == [kind |-> kind, note |-> n, done |-> FALSE, count |-> 0,
                     page |-> NoList]
Idle == Request("idle", 0)

TypeOK ==
    /\ row \in List
    /\ items \in List
    /\ badge \in Nat
    /\ loading \in BOOLEAN
    /\ panelOpen \in BOOLEAN
    /\ call \in [Calls -> Call]
    /\ doubtful \in SUBSET Notes

Init ==
    /\ row \in List
    /\ items = NoList
    /\ badge = 0
    /\ loading = FALSE
    /\ panelOpen = FALSE
    /\ call = [c \in Calls |-> Idle]
    /\ doubtful = {}

-----------------------------------------------------------------------------
(* The table *)

Existing == {n \in Notes : row[n] # "none"}
UnreadRows == {n \in Notes : row[n] = "unread"}

\* The newest rows, read or not.
Newest == {n \in Existing : Cardinality({m \in Existing : m > n}) < PageSize}

Read(S) == [n \in Notes |-> IF n \in S /\ row[n] = "unread" THEN "read" ELSE row[n]]

\* Rows become visible in the order of their commits, not of created_at.
CreateNotification(n) ==
    /\ row[n] = "none"
    /\ row' = [row EXCEPT ![n] = "unread"]
    /\ UNCHANGED <<items, badge, loading, panelOpen, call, doubtful>>

\* Another tab marks one notification or all of them, or a request of this tab
\* from before a reload arrives.
ReadElsewhere(S) ==
    /\ S \in {UnreadRows} \cup {{n} : n \in UnreadRows}
    /\ row' = Read(S)
    /\ UNCHANGED <<items, badge, loading, panelOpen, call, doubtful>>

-----------------------------------------------------------------------------
(* The endpoints *)

Served(c, kind) ==
    /\ call[c].kind = kind
    /\ ~call[c].done

(* Faulty variants, for the properties to expose. *)

\* The badge counts what the panel lists.
CountsThePage(c) ==
    /\ Served(c, "count")
    /\ call' = [call EXCEPT ![c].done = TRUE,
                            ![c].count = Cardinality(UnreadRows \cap Newest)]
    /\ UNCHANGED <<row, items, badge, loading, panelOpen, doubtful>>

\* The flag is toggled instead of set.
ToggleRead(c) ==
    /\ Served(c, "mark")
    /\ call' = [call EXCEPT ![c].done = TRUE]
    /\ row' = [row EXCEPT ![call[c].note] = IF @ = "read" THEN "unread" ELSE "read"]
    /\ UNCHANGED <<items, badge, loading, panelOpen, doubtful>>

(* The code. *)

ListNotifications(c) ==
    /\ Served(c, "list")
    /\ call' = [call EXCEPT ![c].done = TRUE,
                            ![c].page = [n \in Notes |->
                                IF n \in Newest THEN row[n] ELSE "none"]]
    /\ UNCHANGED <<row, items, badge, loading, panelOpen, doubtful>>

UnreadCount(c) ==
    /\ Served(c, "count")
    /\ call' = [call EXCEPT ![c].done = TRUE,
                            ![c].count = Cardinality(UnreadRows)]
    /\ UNCHANGED <<row, items, badge, loading, panelOpen, doubtful>>

\* Idempotent: a row that is read keeps its read_at.
MarkRead(c) ==
    /\ Served(c, "mark")
    /\ call' = [call EXCEPT ![c].done = TRUE]
    /\ row' = Read({call[c].note})
    /\ UNCHANGED <<items, badge, loading, panelOpen, doubtful>>

\* One UPDATE of whatever is unread by then, seen or not.
MarkAllRead(c) ==
    /\ Served(c, "markAll")
    /\ call' = [call EXCEPT ![c].done = TRUE]
    /\ row' = Read(Notes)
    /\ UNCHANGED <<items, badge, loading, panelOpen, doubtful>>

-----------------------------------------------------------------------------
(* The store *)

\* Every 30 seconds, whatever has become of earlier polls.
Poll(c) ==
    /\ call[c] = Idle
    /\ call' = [call EXCEPT ![c] = Request("count", 0)]
    /\ UNCHANGED <<row, items, badge, loading, panelOpen, doubtful>>

\* A click on the bell while the panel is open closes it on mousedown and opens
\* it again.
OpenPanel(c) ==
    /\ call[c] = Idle
    /\ panelOpen' = TRUE
    /\ loading' = TRUE
    /\ call' = [call EXCEPT ![c] = Request("list", 0)]
    /\ UNCHANGED <<row, items, badge, doubtful>>

ClosePanel ==
    /\ panelOpen
    /\ panelOpen' = FALSE
    /\ UNCHANGED <<row, items, badge, loading, call, doubtful>>

\* A row that names an order also closes the panel.
ClickRow(c, n) ==
    /\ panelOpen
    /\ items[n] = "unread"
    /\ call[c] = Idle
    /\ items' = [items EXCEPT ![n] = "read"]
    /\ badge' = IF badge = 0 THEN 0 ELSE badge - 1
    /\ panelOpen' \in BOOLEAN
    /\ call' = [call EXCEPT ![c] = Request("mark", n)]
    /\ UNCHANGED <<row, loading, doubtful>>

\* The button is disabled while the badge shows nothing.
ClickMarkAll(c) ==
    /\ panelOpen
    /\ badge > 0
    /\ call[c] = Idle
    /\ items' = [n \in Notes |-> IF items[n] = "unread" THEN "read" ELSE items[n]]
    /\ badge' = 0
    /\ call' = [call EXCEPT ![c] = Request("markAll", 0)]
    /\ UNCHANGED <<row, loading, panelOpen, doubtful>>

ReceiveList(c) ==
    /\ call[c].kind = "list"
    /\ call[c].done
    /\ items' = call[c].page
    /\ loading' = FALSE
    /\ call' = [call EXCEPT ![c] = Idle]
    /\ UNCHANGED <<row, badge, panelOpen, doubtful>>

ReceiveCount(c) ==
    /\ call[c].kind = "count"
    /\ call[c].done
    /\ badge' = call[c].count
    /\ call' = [call EXCEPT ![c] = Idle]
    /\ UNCHANGED <<row, items, loading, panelOpen, doubtful>>

ReceiveMarked(c) ==
    /\ call[c].kind \in {"mark", "markAll"}
    /\ call[c].done
    /\ call' = [call EXCEPT ![c] = Idle]
    /\ UNCHANGED <<row, items, badge, loading, panelOpen, doubtful>>

\* A failure says nothing of whether the server has handled the request.
FailList(c) ==
    /\ call[c].kind = "list"
    /\ loading' = FALSE
    /\ call' = [call EXCEPT ![c] = Idle]
    /\ UNCHANGED <<row, items, badge, panelOpen, doubtful>>

FailCount(c) ==
    /\ call[c].kind = "count"
    /\ call' = [call EXCEPT ![c] = Idle]
    /\ UNCHANGED <<row, items, badge, loading, panelOpen, doubtful>>

\* The badge is asked for again; the list keeps its optimistic marks.
FailMark(c) ==
    /\ call[c].kind \in {"mark", "markAll"}
    /\ call' = [call EXCEPT ![c] = Request("count", 0)]
    /\ doubtful' = doubtful \cup
         (IF call[c].kind = "mark" THEN {call[c].note}
                                   ELSE {n \in Notes : items[n] # "none"})
    /\ UNCHANGED <<row, items, badge, loading, panelOpen>>

\* The store lives in memory.
Reload ==
    /\ items' = NoList
    /\ badge' = 0
    /\ loading' = FALSE
    /\ panelOpen' = FALSE
    /\ call' = [c \in Calls |-> Idle]
    /\ doubtful' = {}
    /\ UNCHANGED row

-----------------------------------------------------------------------------

Serve(c) ==
    \/ ListNotifications(c)
    \/ UnreadCount(c)
    \/ MarkRead(c)
    \/ MarkAllRead(c)

Receive(c) ==
    \/ ReceiveList(c)
    \/ ReceiveCount(c)
    \/ ReceiveMarked(c)

UserStep(c) ==
    \/ OpenPanel(c)
    \/ ClickMarkAll(c)
    \/ \E n \in Notes : ClickRow(c, n)

Fail(c) ==
    \/ FailList(c)
    \/ FailCount(c)
    \/ FailMark(c)

SystemStep == \E c \in Calls : Poll(c) \/ Serve(c) \/ Receive(c)

Next ==
    \/ SystemStep
    \/ \E c \in Calls : UserStep(c) \/ Fail(c)
    \/ ClosePanel
    \/ Reload
    \/ \E n \in Notes : CreateNotification(n)
    \/ \E S \in SUBSET Notes : ReadElsewhere(S)

Spec == Init /\ [][Next]_vars

\* The poll is a timer; the server answers and the tab takes the answers.
FairSpec ==
    /\ Spec
    /\ WF_vars(\E c \in Calls : Poll(c))
    /\ \A c \in Calls : WF_vars(Serve(c)) /\ WF_vars(Receive(c))

-----------------------------------------------------------------------------
(* Properties *)

\* Request q is to mark n, and the server has not handled it.
Marking(q, n) ==
    /\ ~q.done
    /\ \/ q.kind = "mark" /\ q.note = n
       \/ q.kind = "markAll"

\* What the panel shows as read is read in the table, or its marking is still
\* on its way or has failed: an optimistic mark is never just forgotten, however
\* lists, marks and their answers overtake one another.
ShownReadIsRead ==
    \A n \in Notes :
        items[n] = "read" /\ row[n] # "read" =>
            \/ n \in doubtful
            \/ \E c \in Calls : Marking(call[c], n)

\* The spinner never outlives the list requests, even when they overlap and the
\* first answer clears it.
SpinnerEnds == loading => \E c \in Calls : call[c].kind = "list"

\* Once nothing but polls, the server and its answers is at work, the badge
\* comes to show the number of unread rows, whatever optimistic updates, lost
\* marks and late answers have made of it.
BadgeSettles ==
    <>[][SystemStep]_vars => <>[](badge = Cardinality(UnreadRows))
=============================================================================
