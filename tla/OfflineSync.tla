----------------------------- MODULE OfflineSync -----------------------------
(***************************************************************************)
(* The offline queue of one vessel's browser and its replay on the server.  *)
(*                                                                         *)
(* IndexedDB is shared by the browser's tabs; each runs its own drainQueue, *)
(* whose `syncing` flag is a variable of the tab.  A drain reads the whole  *)
(* queue, posts it in batches and removes what was answered with a 200; at  *)
(* the first error it marks the batch and stops.  The server replays a      *)
(* batch in one transaction, so an error of the database anywhere in it     *)
(* rolls all of it back.                                                    *)
(***************************************************************************)
EXTENDS Integers, FiniteSets

CONSTANTS
    Actions,     \* queued changes, numbered by created_at
    Shape,       \* what the replay of each comes to
    Tabs,        \* open tabs
    BatchSize,   \* BATCH_SIZE
    MaxFaults    \* bound: lost messages, server errors and reloads

\* applied: done as asked.  bare: the order row is there, its lines are not
\* (a line without product_id).  refused: no vessel, no port, no such order.
\* conflict: the server's row is newer.  broken: the database refuses the row or
\* the batch whenever it comes (a user without a vessel, an unknown port or
\* product).
Shapes == {"applied", "bare", "refused", "conflict", "broken"}

ASSUME SyncAssumption ==
    /\ Actions \subseteq Nat
    /\ Shape \in [Actions -> Shapes]
    /\ BatchSize \in Nat \ {0}
    /\ MaxFaults \in Nat

VARIABLES
    submitted,   \* what the crew has queued so far
    queue,       \* IndexedDB order_queue
    committed,   \* offline_actions by client_action_id
    made,        \* orders created for each action
    stamped,     \* an order bears this second's reference
    tab,         \* the drain of each tab
    orphans,     \* batches under way that no tab waits for
    faults       \* faults so far

server == <<committed, made, stamped>>
vars == <<submitted, queue, server, tab, orphans, faults>>

Drain == [pc: {"idle", "loop", "waiting", "removing", "marking", "putting"},
          todo: SUBSET Actions,      \* the rest of `pending`; putting: the row
          batch: SUBSET Actions,     \* what is left to do of the batch
          reply: {"none", "ok", "error"}]

AtRest == [pc |-> "idle", todo |-> {}, batch |-> {}, reply |-> "none"]

TypeOK ==
    /\ submitted \in SUBSET Actions
    /\ queue \in SUBSET Actions
    /\ committed \in SUBSET Actions
    /\ made \in [Actions -> Nat]
    /\ stamped \in BOOLEAN
    /\ tab \in [Tabs -> Drain]
    /\ orphans \in SUBSET (SUBSET Actions)
    /\ faults \in Nat

Init ==
    /\ submitted = {}
    /\ queue = {}
    /\ committed = {}
    /\ made = [a \in Actions |-> 0]
    /\ stamped = FALSE
    /\ tab = [t \in Tabs |-> AtRest]
    /\ orphans = {}
    /\ faults = 0

-----------------------------------------------------------------------------
(* The server *)

Orders(batch) == {a \in batch : Shape[a] \in {"applied", "bare"}}

\* Every reference made in one second is the same: the six characters taken
\* from the client's id are "orders".
ReferenceTaken(batch) ==
    Cardinality(Orders(batch)) > (IF stamped THEN 0 ELSE 1)

\* Faulty variant: without the unique client_action_id a retried batch is replayed again.
ReplaysAgain(batch) ==
    /\ committed' = committed \cup batch
    /\ made' = [a \in Actions |->
                  IF a \in Orders(batch) THEN made[a] + 1 ELSE made[a]]
    /\ stamped' = (stamped \/ Orders(batch) # {})

Broken(batch) == \E a \in batch : Shape[a] = "broken"

\* A replay whose ids are new and whose references are, too, unless the clock
\* happens to turn between its orders.
Replayed(batch) ==
    /\ ~Broken(batch)
    /\ batch \cap committed = {}
    /\ committed' = committed \cup batch
    /\ made' = [a \in Actions |->
                  IF a \in Orders(batch) THEN made[a] + 1 ELSE made[a]]
    /\ stamped' = (stamped \/ Orders(batch) # {})

RolledBack(batch) ==
    /\ Broken(batch) \/ batch \cap committed # {} \/ ReferenceTaken(batch)
    /\ UNCHANGED server

SecondTurns ==
    /\ stamped
    /\ stamped' = FALSE
    /\ UNCHANGED <<submitted, queue, committed, made, tab, orphans, faults>>

-----------------------------------------------------------------------------
(* The browser *)

Enqueue ==
    /\ \E a \in Actions \ submitted :
         /\ \A x \in Actions : x < a => x \in submitted
         /\ submitted' = submitted \cup {a}
         /\ queue' = queue \cup {a}
    /\ UNCHANGED <<server, tab, orphans, faults>>

Oldest(batch) == {a \in batch : \A x \in batch : a <= x}

Go(t, pc, todo, batch) ==
    tab' = [tab EXCEPT ![t] = [pc |-> pc, todo |-> todo, batch |-> batch,
                               reply |-> "none"]]

StartDrain(t) ==
    /\ tab[t].pc = "idle"
    /\ queue # {}
    /\ Go(t, "loop", queue, {})
    /\ UNCHANGED <<submitted, queue, server, orphans, faults>>

\* pending.slice(i, i + BATCH_SIZE)
Slices(todo) ==
    {b \in SUBSET todo :
        /\ b # {}
        /\ IF b = todo THEN Cardinality(b) <= BatchSize
                       ELSE Cardinality(b) = BatchSize
        /\ \A x \in b, y \in todo \ b : x < y}

Post(t) ==
    /\ tab[t].pc = "loop"
    /\ \E b \in Slices(tab[t].todo) : Go(t, "waiting", tab[t].todo \ b, b)
    /\ UNCHANGED <<submitted, queue, server, orphans, faults>>

Answer(t, reply) ==
    /\ tab[t].pc = "waiting"
    /\ tab[t].reply = "none"
    /\ tab' = [tab EXCEPT ![t].reply = reply]
    /\ UNCHANGED <<submitted, queue, orphans>>

ReplayCommits(t) ==
    /\ Answer(t, "ok")
    /\ Replayed(tab[t].batch)
    /\ UNCHANGED faults

ReplayRollsBack(t) ==
    /\ Answer(t, "error")
    /\ RolledBack(tab[t].batch)
    /\ UNCHANGED faults

(* Faulty variants of what follows. *)

\* A failed batch is tried again at once.
RetriesAtOnce(t) ==
    /\ tab[t].reply = "error"
    /\ Go(t, "loop", tab[t].batch \cup tab[t].todo, {})
    /\ UNCHANGED <<submitted, queue, server, orphans, faults>>

\* The drain goes on after a failed batch.
GoesOnAfterError(t) ==
    /\ tab[t].reply = "error"
    /\ Go(t, "loop", tab[t].todo, {})
    /\ UNCHANGED <<submitted, queue, server, orphans, faults>>

\* The rows are removed whether or not the post succeeded.
RemovesOnError(t) ==
    /\ tab[t].reply = "error"
    /\ Go(t, "removing", tab[t].todo, tab[t].batch)
    /\ UNCHANGED <<submitted, queue, server, orphans, faults>>

(* The drain goes on. *)

\* A 200 whatever became of the single actions: they are not told apart.
ReceiveOk(t) ==
    /\ tab[t].reply = "ok"
    /\ Go(t, "removing", tab[t].todo, tab[t].batch)
    /\ UNCHANGED <<submitted, queue, server, orphans, faults>>

ReceiveError(t) ==
    /\ tab[t].reply = "error"
    /\ Go(t, "marking", {}, tab[t].batch)
    /\ UNCHANGED <<submitted, queue, server, orphans, faults>>

\* removeAction, one after the other
Remove(t) ==
    /\ tab[t].pc = "removing"
    /\ \E a \in Oldest(tab[t].batch) :
         /\ queue' = queue \ {a}
         /\ Go(t, "removing", tab[t].todo, tab[t].batch \ {a})
    /\ UNCHANGED <<submitted, server, orphans, faults>>

NextBatch(t) ==
    /\ tab[t].pc = "removing"
    /\ tab[t].batch = {}
    /\ Go(t, "loop", tab[t].todo, {})
    /\ UNCHANGED <<submitted, queue, server, orphans, faults>>

\* markAction: get the row, then put it back.  Its status is not looked at by
\* any later drain.
MarkGet(t) ==
    /\ tab[t].pc = "marking"
    /\ \E a \in Oldest(tab[t].batch) :
         IF a \in queue THEN Go(t, "putting", {a}, tab[t].batch \ {a})
                        ELSE Go(t, "marking", {}, tab[t].batch \ {a})
    /\ UNCHANGED <<submitted, queue, server, orphans, faults>>

MarkPut(t) ==
    /\ tab[t].pc = "putting"
    /\ queue' = queue \cup tab[t].todo
    /\ Go(t, "marking", {}, tab[t].batch)
    /\ UNCHANGED <<submitted, server, orphans, faults>>

Finish(t) ==
    /\ \/ tab[t].pc = "loop" /\ tab[t].todo = {}
       \/ tab[t].pc = "marking" /\ tab[t].batch = {}
    /\ Go(t, "idle", {}, {})
    /\ UNCHANGED <<submitted, queue, server, orphans, faults>>

-----------------------------------------------------------------------------
(* Faults *)

Fault ==
    /\ faults < MaxFaults
    /\ faults' = faults + 1

\* The tab no longer waits.  A request that has not been handled may be lost or
\* still on its way, and the uplink may send it again.
Abandon(t) ==
    \/ UNCHANGED orphans
    \/ /\ tab[t].pc = "waiting"
       /\ tab[t].reply = "none"
       /\ orphans' = orphans \cup {tab[t].batch}

ConnectionLost(t) ==
    /\ Fault
    /\ tab[t].pc = "waiting"
    /\ Abandon(t)
    /\ Go(t, "marking", {}, tab[t].batch)
    /\ UNCHANGED <<submitted, queue, server>>

ServerFails(t) ==
    /\ Fault
    /\ Answer(t, "error")
    /\ UNCHANGED server

Reload(t) ==
    /\ Fault
    /\ tab[t].pc # "idle"
    /\ Abandon(t)
    /\ Go(t, "idle", {}, {})
    /\ UNCHANGED <<submitted, queue, server>>

OrphanReplayed ==
    /\ \E b \in orphans : Replayed(b)
    /\ UNCHANGED <<submitted, queue, tab, orphans, faults>>

-----------------------------------------------------------------------------

TabStep(t) ==
    \/ StartDrain(t)
    \/ Post(t)
    \/ ReplayCommits(t)
    \/ ReplayRollsBack(t)
    \/ ReceiveOk(t)
    \/ ReceiveError(t)
    \/ Remove(t)
    \/ NextBatch(t)
    \/ MarkGet(t)
    \/ MarkPut(t)
    \/ Finish(t)

FaultStep(t) == ConnectionLost(t) \/ ServerFails(t) \/ Reload(t)

Next ==
    \/ Enqueue
    \/ SecondTurns
    \/ OrphanReplayed
    \/ \E t \in Tabs : TabStep(t) \/ FaultStep(t)

Spec == Init /\ [][Next]_vars

\* The 30 s interval, the event loop, the server that answers and the clock.
Fairness ==
    /\ WF_vars(SecondTurns)
    /\ \A t \in Tabs : WF_vars(TabStep(t))

FairSpec == Spec /\ Fairness

-----------------------------------------------------------------------------
(* Properties *)

\* However often a batch is posted again - by a retry, by another tab, by the
\* uplink - an action creates at most one order.
AtMostOnce == \A a \in Actions : made[a] <= 1

\* A queued action stays in IndexedDB until its id is on the server, whatever
\* tabs, crashes and lost replies do in between.
NothingVanishes == submitted \subseteq queue \cup committed

\* No action reaches the server before one that was queued earlier: a drain
\* stops at the first batch that fails, and so no later batch overtakes it.
OldestFirst ==
    \A y \in committed, x \in Actions : x < y => x \in committed

\* The two together, as a refinement.
Promise == INSTANCE OrderedOnce WITH applied <- committed
KeepsPromise == Promise!AbsSpec

\* A drain comes to an end, whatever goes wrong: `syncing` does not stay set and
\* keep the next drains out.
DrainEnds == \A t \in Tabs : tab[t].pc # "idle" ~> tab[t].pc = "idle"

\* The readme's offline flow: the action drains, the row disappears.  It need
\* not: once the answer to a batch is lost, the replay is no longer idempotent
\* but fails on the first id it knows, each time.
RowDisappears == \A a \in Actions : a \in queue ~> a \notin queue
=============================================================================
