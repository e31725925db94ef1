-------------------------- MODULE OfflineSyncProofs --------------------------
(***************************************************************************)
(* OfflineSync keeps the promise of OrderedOnce for any number of actions,  *)
(* tabs and faults.                                                         *)
(*                                                                         *)
(* The strengthening says of every batch that may still reach the server    *)
(* that all older actions are in it or committed already: `Ordered`.  For a *)
(* batch that is under way this is enough, since `committed` only grows;    *)
(* the rest of the drain's snapshot is ordered once that batch is in.       *)
(***************************************************************************)
EXTENDS OfflineSync, FiniteSetTheorems, TLAPS

\* Everything older than a member of S is in S or committed.
Ordered(S) == \A y \in S, x \in Actions : x < y => x \in S \cup committed

\* What the drain of tab t may still do to the queue and to the server.
DrainInv(t) ==
    /\ tab[t].pc = "idle" => tab[t].reply = "none"
    /\ tab[t].pc = "loop" => Ordered(tab[t].todo)
    /\ tab[t].pc = "waiting" =>
         /\ Ordered(tab[t].batch)
         /\ Ordered(tab[t].batch \cup tab[t].todo)
    /\ tab[t].pc = "removing" =>
         tab[t].batch \subseteq committed /\ Ordered(tab[t].todo)
    /\ tab[t].reply # "none" => tab[t].pc = "waiting"
    /\ tab[t].reply = "ok" => tab[t].batch \subseteq committed
    /\ tab[t].todo \cup tab[t].batch \subseteq submitted

SyncInv ==
    /\ TypeOK
    /\ queue \cup committed \subseteq submitted
    /\ Ordered(submitted)
    /\ NothingVanishes
    /\ OldestFirst
    /\ \A a \in Actions : made[a] <= IF a \in committed THEN 1 ELSE 0
    /\ \A t \in Tabs : DrainInv(t)
    /\ \A b \in orphans : Ordered(b) /\ b \subseteq submitted

-----------------------------------------------------------------------------
(* The drains *)

\* A drain that changes keeps its type.
LEMMA GoTyped ==
    ASSUME TypeOK, NEW t \in Tabs, NEW pc, NEW todo \in SUBSET Actions,
           NEW batch \in SUBSET Actions, Go(t, pc, todo, batch),
           pc \in {"idle", "loop", "waiting", "removing", "marking", "putting"}
    PROVE  /\ tab' \in [Tabs -> Drain]
           /\ tab'[t].pc = pc /\ tab'[t].todo = todo /\ tab'[t].batch = batch
           /\ tab'[t].reply = "none"
           /\ \A u \in Tabs \ {t} : tab'[u] = tab[u]
BY DEF Go, TypeOK, Drain

\* When the server is as before and the crew adds nothing, only the drain that
\* moved has to be looked at.
LEMMA OthersKeepInv ==
    ASSUME SyncInv, NEW t \in Tabs, committed' = committed, submitted' = submitted,
           \A u \in Tabs \ {t} : tab'[u] = tab[u], DrainInv(t)'
    PROVE  \A u \in Tabs : DrainInv(u)'
<1> SUFFICES ASSUME NEW u \in Tabs \ {t}
             PROVE  DrainInv(u)'
  OBVIOUS
<1>1. DrainInv(u) /\ tab'[u] = tab[u]
  BY DEF SyncInv
<1> QED BY <1>1 DEF DrainInv, Ordered

\* A step of a tab that leaves the server alone.
LEMMA BrowserStep ==
    ASSUME SyncInv, NEW t \in Tabs, UNCHANGED <<submitted, server>>,
           tab' \in [Tabs -> Drain], \A u \in Tabs \ {t} : tab'[u] = tab[u],
           DrainInv(t)',
           queue' \subseteq submitted, submitted \subseteq queue' \cup committed,
           faults' \in Nat,
           orphans' \subseteq orphans \cup {tab[t].batch},
           orphans' \subseteq orphans \/ Ordered(tab[t].batch)
    PROVE  SyncInv'
<1>1. \A u \in Tabs : DrainInv(u)'
  BY OthersKeepInv DEF server
<1>2. tab[t] \in Drain /\ tab[t].batch \subseteq submitted
  BY DEF SyncInv, TypeOK, DrainInv
<1>3. TypeOK'
  BY <1>2 DEF SyncInv, TypeOK, server, Drain
<1>4. \A b \in orphans' : Ordered(b) /\ b \subseteq submitted
  BY <1>2 DEF SyncInv
<1>5. \A b \in orphans' : Ordered(b)' /\ b \subseteq submitted'
  BY <1>4 DEF Ordered, server
<1> QED BY <1>1, <1>3, <1>5
        DEF SyncInv, server, NothingVanishes, OldestFirst, Ordered

\* Batches are committed whole, oldest first, and none twice.
LEMMA ServerStep ==
    ASSUME SyncInv, NEW b \in SUBSET Actions, b \subseteq submitted,
           Ordered(b), Replayed(b)
    PROVE  /\ committed' \in SUBSET submitted
           /\ committed \subseteq committed'
           /\ OldestFirst'
           /\ made' \in [Actions -> Nat]
           /\ \A a \in Actions : made'[a] <= IF a \in committed' THEN 1 ELSE 0
           /\ stamped' \in BOOLEAN
           /\ \A S \in SUBSET Actions : Ordered(S) => Ordered(S)'
<1>1. committed' = committed \cup b /\ b \cap committed = {}
  BY DEF Replayed
<1>2. OldestFirst'
  BY <1>1 DEF SyncInv, OldestFirst, Ordered
<1>3. made' \in [Actions -> Nat]
  BY DEF Replayed, SyncInv, TypeOK
<1>4. ASSUME NEW a \in Actions
      PROVE  made'[a] <= IF a \in committed' THEN 1 ELSE 0
  <2>1. made[a] \in Nat /\ made[a] <= IF a \in committed THEN 1 ELSE 0
    BY DEF SyncInv, TypeOK
  <2>2. made'[a] = IF a \in Orders(b) THEN made[a] + 1 ELSE made[a]
    BY DEF Replayed
  <2>3. Orders(b) \subseteq b
    BY DEF Orders
  <2> QED BY <1>1, <2>1, <2>2, <2>3
<1>5. stamped' \in BOOLEAN
  BY DEF Replayed, SyncInv, TypeOK
<1> QED BY <1>1, <1>2, <1>3, <1>4, <1>5 DEF SyncInv, Ordered

-----------------------------------------------------------------------------
(* One lemma for each kind of step *)

LEMMA InitInv == Init => SyncInv
<1> SUFFICES ASSUME Init
             PROVE  SyncInv
  OBVIOUS
<1>1. TypeOK
  BY DEF Init, TypeOK, Drain, AtRest
<1>2. \A t \in Tabs : DrainInv(t)
  BY DEF Init, DrainInv, AtRest
<1>3. \A a \in Actions : made[a] <= IF a \in committed THEN 1 ELSE 0
  BY DEF Init
<1> QED BY <1>1, <1>2, <1>3
        DEF Init, SyncInv, Ordered, NothingVanishes, OldestFirst

LEMMA EnqueueInv ==
    ASSUME SyncInv, Enqueue
    PROVE  SyncInv'
<1>1. PICK a \in Actions \ submitted :
        /\ \A x \in Actions : x < a => x \in submitted
        /\ submitted' = submitted \cup {a}
        /\ queue' = queue \cup {a}
  BY DEF Enqueue
<1>2. UNCHANGED <<committed, made, stamped, tab, orphans, faults>>
  BY DEF Enqueue, server
<1>3. TypeOK'
  BY <1>1, <1>2 DEF SyncInv, TypeOK
<1>4. \A t \in Tabs : DrainInv(t)'
  BY <1>1, <1>2 DEF SyncInv, DrainInv, Ordered
<1>5. Ordered(submitted)'
  BY <1>1, <1>2 DEF SyncInv, Ordered
<1> QED BY <1>1, <1>2, <1>3, <1>4, <1>5
        DEF SyncInv, Ordered, NothingVanishes, OldestFirst

\* A replay commits the batch of a tab, or one that no tab waits for.
LEMMA CommitInv ==
    ASSUME SyncInv, NEW b \in SUBSET Actions, b \subseteq submitted,
           Ordered(b), Replayed(b),
           UNCHANGED <<submitted, queue, orphans, faults>>,
           tab' \in [Tabs -> Drain],
           \A u \in Tabs :
              \/ tab'[u] = tab[u]
              \/ /\ tab[u].pc = "waiting" /\ tab[u].batch = b
                 /\ tab'[u] = [tab[u] EXCEPT !.reply = "ok"]
    PROVE  SyncInv'
<1>1. /\ committed' \in SUBSET submitted
      /\ committed \subseteq committed'
      /\ OldestFirst'
      /\ made' \in [Actions -> Nat]
      /\ \A a \in Actions : made'[a] <= IF a \in committed' THEN 1 ELSE 0
      /\ stamped' \in BOOLEAN
      /\ \A S \in SUBSET Actions : Ordered(S) => Ordered(S)'
  BY ServerStep
<1>2. TypeOK'
  BY <1>1 DEF SyncInv, TypeOK
<1>3. ASSUME NEW u \in Tabs
      PROVE  DrainInv(u)'
  <2>1. /\ tab[u] \in Drain /\ DrainInv(u)
        /\ tab[u].todo \in SUBSET Actions /\ tab[u].batch \in SUBSET Actions
        /\ tab[u].batch \cup tab[u].todo \in SUBSET Actions
    BY DEF SyncInv, TypeOK, Drain
  <2>2. CASE tab'[u] = tab[u]
    BY <1>1, <2>1, <2>2 DEF DrainInv, Ordered
  <2>3. CASE /\ tab[u].pc = "waiting" /\ tab[u].batch = b
             /\ tab'[u] = [tab[u] EXCEPT !.reply = "ok"]
    <3>1. /\ tab'[u].pc = "waiting" /\ tab'[u].batch = b
          /\ tab'[u].todo = tab[u].todo /\ tab'[u].reply = "ok"
      BY <2>1, <2>3 DEF Drain
    <3>2. b \subseteq committed'
      BY DEF Replayed
    <3> QED BY <1>1, <2>1, <2>3, <3>1, <3>2 DEF DrainInv, Ordered
  <2> QED BY <2>2, <2>3
<1>4. \A o \in orphans' : Ordered(o)' /\ o \subseteq submitted'
  BY <1>1 DEF SyncInv, TypeOK
<1>5. Ordered(submitted)'
  BY <1>1 DEF SyncInv, TypeOK, Ordered
<1> QED BY <1>1, <1>2, <1>3, <1>4, <1>5 DEF SyncInv, NothingVanishes

\* A step that only gives a tab an error for an answer.
LEMMA ErrorInv ==
    ASSUME SyncInv, NEW t \in Tabs, Answer(t, "error"), UNCHANGED server,
           faults' \in Nat
    PROVE  SyncInv'
<1>1. /\ tab[t] \in Drain /\ tab[t].pc = "waiting"
      /\ tab' = [tab EXCEPT ![t].reply = "error"]
      /\ UNCHANGED <<submitted, queue, orphans>> /\ tab \in [Tabs -> Drain]
  BY DEF SyncInv, TypeOK, Answer
<1>2. /\ tab' \in [Tabs -> Drain]
      /\ tab'[t] = [tab[t] EXCEPT !.reply = "error"]
      /\ \A u \in Tabs \ {t} : tab'[u] = tab[u]
  BY <1>1 DEF Drain
<1>3. DrainInv(t)'
  BY <1>1, <1>2 DEF SyncInv, DrainInv, Drain, Ordered, server
<1> QED BY <1>1, <1>2, <1>3, BrowserStep DEF SyncInv, NothingVanishes

-----------------------------------------------------------------------------
(* The steps of one tab *)

\* What a tab that only moves on in its drain has to show.
LEMMA GoInv ==
    ASSUME SyncInv, NEW t \in Tabs, NEW pc, NEW todo \in SUBSET submitted,
           NEW batch \in SUBSET submitted, Go(t, pc, todo, batch),
           UNCHANGED <<submitted, server>>,
           queue' \subseteq submitted, submitted \subseteq queue' \cup committed,
           faults' \in Nat,
           orphans' \subseteq orphans \cup {tab[t].batch},
           orphans' \subseteq orphans \/ Ordered(tab[t].batch),
           \/ pc \in {"idle", "marking", "putting"}
           \/ pc = "loop" /\ Ordered(todo)
           \/ pc = "waiting" /\ Ordered(batch) /\ Ordered(batch \cup todo)
           \/ pc = "removing" /\ batch \subseteq committed /\ Ordered(todo)
    PROVE  SyncInv'
<1>1. todo \in SUBSET Actions /\ batch \in SUBSET Actions /\ TypeOK
  BY DEF SyncInv, TypeOK
<1>2. /\ tab' \in [Tabs -> Drain]
      /\ tab'[t].pc = pc /\ tab'[t].todo = todo /\ tab'[t].batch = batch
      /\ tab'[t].reply = "none"
      /\ \A u \in Tabs \ {t} : tab'[u] = tab[u]
  BY <1>1, GoTyped
<1>3. DrainInv(t)'
  BY <1>2 DEF DrainInv, Ordered, server
<1> QED BY <1>2, <1>3, BrowserStep

LEMMA TabStepInv ==
    ASSUME SyncInv, NEW t \in Tabs, TabStep(t)
    PROVE  SyncInv'
<1>0. /\ tab[t] \in Drain /\ TypeOK /\ DrainInv(t)
      /\ tab[t].todo \in SUBSET submitted /\ tab[t].batch \in SUBSET submitted
      /\ queue \subseteq submitted /\ submitted \subseteq queue \cup committed
      /\ committed \subseteq submitted
  BY DEF SyncInv, TypeOK, DrainInv, NothingVanishes
<1>1. CASE StartDrain(t)
  <2>1. Ordered(queue)
    BY <1>0 DEF SyncInv, Ordered
  <2> QED BY <1>0, <1>1, <2>1, GoInv DEF StartDrain, TypeOK
<1>2. CASE Post(t)
  <2>1. PICK b \in Slices(tab[t].todo) : Go(t, "waiting", tab[t].todo \ b, b)
    BY <1>2 DEF Post
  <2>2. /\ b \subseteq tab[t].todo
        /\ \A x \in b, y \in tab[t].todo \ b : x < y
    BY DEF Slices
  <2>3. Ordered(tab[t].todo)
    BY <1>0, <1>2 DEF DrainInv, Post
  <2>4. Ordered(b)
    <3> SUFFICES ASSUME NEW y \in b, NEW x \in Actions, x < y
                 PROVE  x \in b \cup committed
      BY DEF Ordered
    <3>1. x \in tab[t].todo \cup committed
      BY <2>2, <2>3 DEF Ordered
    <3>2. x \in Nat /\ y \in Nat
      BY <1>0, <2>2, SyncAssumption DEF TypeOK, Drain
    <3> QED BY <2>2, <3>1, <3>2
  <2>5. b \cup (tab[t].todo \ b) = tab[t].todo
    BY <2>2
  <2> QED BY <1>0, <1>2, <2>1, <2>2, <2>3, <2>4, <2>5, GoInv DEF Post, TypeOK
<1>3. CASE ReplayCommits(t)
  <2>1. /\ tab[t].pc = "waiting" /\ Replayed(tab[t].batch)
        /\ tab' = [tab EXCEPT ![t].reply = "ok"]
        /\ UNCHANGED <<submitted, queue, orphans, faults>>
    BY <1>3 DEF ReplayCommits, Answer
  <2>2. Ordered(tab[t].batch) /\ tab[t].batch \in SUBSET Actions
    BY <1>0, <2>1 DEF DrainInv, Drain
  <2>3. tab' \in [Tabs -> Drain]
    BY <1>0, <2>1 DEF Drain, TypeOK
  <2>4. \A u \in Tabs :
          \/ tab'[u] = tab[u]
          \/ /\ tab[u].pc = "waiting" /\ tab[u].batch = tab[t].batch
             /\ tab'[u] = [tab[u] EXCEPT !.reply = "ok"]
    BY <1>0, <2>1 DEF TypeOK
  <2> QED BY <1>0, <2>1, <2>2, <2>3, <2>4, CommitInv
<1>4. CASE ReplayRollsBack(t)
  BY <1>0, <1>4, ErrorInv DEF ReplayRollsBack, RolledBack, TypeOK
<1>5. CASE ReceiveOk(t)
  <2>1. tab[t].pc = "waiting" /\ tab[t].batch \subseteq committed
    BY <1>0, <1>5 DEF DrainInv, ReceiveOk
  <2>2. Ordered(tab[t].todo)
    BY <1>0, <2>1 DEF DrainInv, Ordered
  <2> QED BY <1>0, <1>5, <2>1, <2>2, GoInv DEF ReceiveOk, TypeOK
<1>6. CASE ReceiveError(t)
  BY <1>0, <1>6, GoInv DEF ReceiveError, TypeOK
<1>7. CASE Remove(t)
  <2>1. PICK a \in tab[t].batch :
          /\ queue' = queue \ {a}
          /\ Go(t, "removing", tab[t].todo, tab[t].batch \ {a})
    BY <1>7 DEF Remove, Oldest
  <2>2. tab[t].batch \subseteq committed /\ Ordered(tab[t].todo)
    BY <1>0, <1>7 DEF DrainInv, Remove
  <2> QED BY <1>0, <1>7, <2>1, <2>2, GoInv DEF Remove, TypeOK
<1>8. CASE NextBatch(t)
  <2>1. Ordered(tab[t].todo)
    BY <1>0, <1>8 DEF DrainInv, NextBatch
  <2> QED BY <1>0, <1>8, <2>1, GoInv DEF NextBatch, TypeOK
<1>9. CASE MarkGet(t)
  <2>1. PICK a \in tab[t].batch :
          \/ Go(t, "putting", {a}, tab[t].batch \ {a})
          \/ Go(t, "marking", {}, tab[t].batch \ {a})
    BY <1>9 DEF MarkGet, Oldest
  <2>2. /\ UNCHANGED <<submitted, queue, server, orphans>>
        /\ faults' \in Nat /\ {a} \in SUBSET submitted
        /\ tab[t].batch \ {a} \in SUBSET submitted
    BY <1>0, <1>9 DEF MarkGet, TypeOK
  <2>3. CASE Go(t, "putting", {a}, tab[t].batch \ {a})
    BY <1>0, <2>2, <2>3, GoInv
  <2>4. CASE Go(t, "marking", {}, tab[t].batch \ {a})
    BY <1>0, <2>2, <2>4, GoInv
  <2> QED BY <2>1, <2>3, <2>4
<1>10. CASE MarkPut(t)
  BY <1>0, <1>10, GoInv DEF MarkPut, TypeOK
<1>11. CASE Finish(t)
  BY <1>0, <1>11, GoInv DEF Finish, TypeOK
<1> QED BY <1>1, <1>2, <1>3, <1>4, <1>5, <1>6, <1>7, <1>8, <1>9, <1>10, <1>11
        DEF TabStep, TypeOK

LEMMA FaultStepInv ==
    ASSUME SyncInv, NEW t \in Tabs, FaultStep(t)
    PROVE  SyncInv'
<1>0. /\ tab[t] \in Drain /\ TypeOK /\ DrainInv(t)
      /\ tab[t].todo \in SUBSET submitted /\ tab[t].batch \in SUBSET submitted
      /\ queue \subseteq submitted /\ submitted \subseteq queue \cup committed
  BY DEF SyncInv, TypeOK, DrainInv, NothingVanishes
<1>1. faults' \in Nat
  BY <1>0 DEF FaultStep, ConnectionLost, ServerFails, Reload, Fault, TypeOK
<1>2. ASSUME Abandon(t)
      PROVE  /\ orphans' \subseteq orphans \cup {tab[t].batch}
             /\ orphans' \subseteq orphans \/ Ordered(tab[t].batch)
  BY <1>0, <1>2 DEF Abandon, DrainInv
<1>3. CASE ConnectionLost(t)
  BY <1>0, <1>1, <1>2, <1>3, GoInv DEF ConnectionLost
<1>4. CASE ServerFails(t)
  BY <1>0, <1>1, <1>4, ErrorInv DEF ServerFails
<1>5. CASE Reload(t)
  <2>1. Go(t, "idle", {}, {}) /\ Abandon(t) /\ UNCHANGED <<submitted, queue, server>>
    BY <1>5 DEF Reload
  <2> QED BY <1>0, <1>1, <1>2, <2>1, GoInv
<1> QED BY <1>3, <1>4, <1>5 DEF FaultStep

LEMMA SyncStep == SyncInv /\ [Next]_vars => SyncInv'
<1> SUFFICES ASSUME SyncInv, [Next]_vars
             PROVE  SyncInv'
  OBVIOUS
<1>1. CASE Enqueue
  BY <1>1, EnqueueInv
<1>2. CASE SecondTurns
  BY <1>2 DEF SecondTurns, SyncInv, TypeOK, DrainInv, Ordered, NothingVanishes,
              OldestFirst
<1>3. CASE OrphanReplayed
  <2>1. PICK b \in orphans : Replayed(b)
    BY <1>3 DEF OrphanReplayed
  <2>2. b \in SUBSET Actions /\ b \subseteq submitted /\ Ordered(b)
    BY DEF SyncInv, TypeOK
  <2>3. tab' \in [Tabs -> Drain] /\ \A u \in Tabs : tab'[u] = tab[u]
    BY <1>3 DEF OrphanReplayed, SyncInv, TypeOK
  <2> QED BY <1>3, <2>1, <2>2, <2>3, CommitInv DEF OrphanReplayed
<1>4. CASE \E t \in Tabs : TabStep(t) \/ FaultStep(t)
  BY <1>4, TabStepInv, FaultStepInv
<1>5. CASE UNCHANGED vars
  BY <1>5 DEF vars, server, SyncInv, TypeOK, DrainInv, Ordered, NothingVanishes,
              OldestFirst
<1> QED BY <1>1, <1>2, <1>3, <1>4, <1>5 DEF Next

-----------------------------------------------------------------------------
(* Theorems *)

\* In every instance the invariant holds that the theorems below rest on.
THEOREM SyncInvariant == Spec => []SyncInv
BY InitInv, SyncStep, PTL DEF Spec

\* Types, in every instance: drainQueue, replay_actions and the queue.
THEOREM SyncTypeCorrect == Spec => []TypeOK
<1>1. SyncInv => TypeOK
  BY DEF SyncInv
<1> QED BY <1>1, SyncInvariant, PTL

\* However many tabs, retries and re-sent batches there are, replay_actions
\* creates at most one order for an action.
THEOREM OrdersOnce == Spec => []AtMostOnce
<1>1. SyncInv => AtMostOnce
  BY DEF SyncInv, TypeOK, AtMostOnce
<1> QED BY <1>1, SyncInvariant, PTL

\* No action is removed from IndexedDB before the server has its id.
THEOREM NoActionVanishes == Spec => []NothingVanishes
<1>1. SyncInv => NothingVanishes
  BY DEF SyncInv
<1> QED BY <1>1, SyncInvariant, PTL

\* No action reaches the server before an older one.
THEOREM ServerSeesOldestFirst == Spec => []OldestFirst
<1>1. SyncInv => OldestFirst
  BY DEF SyncInv
<1> QED BY <1>1, SyncInvariant, PTL

\* Every step is one of OrderedOnce's, or leaves its variables as they are.
LEMMA StepRefines == SyncInv /\ [Next]_vars => [Promise!AbsNext]_<<submitted, committed>>
<1> SUFFICES ASSUME SyncInv, Next
             PROVE  Promise!AbsNext \/ UNCHANGED <<submitted, committed>>
  BY DEF vars, server
<1>1. ASSUME NEW b \in SUBSET Actions, b \subseteq submitted, Ordered(b),
             Replayed(b), UNCHANGED submitted
      PROVE  Promise!AbsNext \/ UNCHANGED <<submitted, committed>>
  <2>1. b \in SUBSET (submitted \ committed) /\ committed' = committed \cup b
    BY <1>1 DEF Replayed
  <2> QED BY <1>1, <2>1 DEF Ordered, Promise!AbsNext, Promise!Apply
<1>2. CASE Enqueue
  BY <1>2 DEF Enqueue, server, Promise!AbsNext, Promise!Submit
<1>3. CASE OrphanReplayed
  <2>1. PICK b \in orphans : Replayed(b)
    BY <1>3 DEF OrphanReplayed
  <2> QED BY <1>1, <1>3, <2>1 DEF OrphanReplayed, SyncInv, TypeOK
<1>4. ASSUME NEW t \in Tabs, ReplayCommits(t)
      PROVE  Promise!AbsNext \/ UNCHANGED <<submitted, committed>>
  <2>1. /\ Replayed(tab[t].batch) /\ tab[t].pc = "waiting" /\ UNCHANGED submitted
    BY <1>4 DEF ReplayCommits, Answer
  <2>2. /\ tab[t].batch \in SUBSET Actions /\ tab[t].batch \subseteq submitted
        /\ Ordered(tab[t].batch)
    BY <2>1 DEF SyncInv, TypeOK, DrainInv, Drain
  <2> QED BY <1>1, <2>1, <2>2
<1>5. ASSUME NEW t \in Tabs, TabStep(t) \/ FaultStep(t), ~ReplayCommits(t)
      PROVE  UNCHANGED <<submitted, committed>>
  BY <1>5 DEF TabStep, FaultStep, StartDrain, Post, ReplayRollsBack, RolledBack,
              ReceiveOk, ReceiveError, Remove, NextBatch, MarkGet, MarkPut, Finish,
              ConnectionLost, ServerFails, Reload, Answer, server
<1>6. CASE SecondTurns
  BY <1>6 DEF SecondTurns
<1> QED BY <1>2, <1>3, <1>4, <1>5, <1>6 DEF Next

\* drainQueue and replay_actions together implement OrderedOnce: the changes take
\* effect once each and in the order in which they were made.
THEOREM SyncKeepsPromise == Spec => KeepsPromise
<1>1. Init => Promise!AbsInit
  BY DEF Init, Promise!AbsInit
<1>2. SyncInv /\ [Next]_vars => [Promise!AbsNext]_Promise!absVars
  BY StepRefines DEF Promise!absVars
<1> QED BY <1>1, <1>2, SyncInvariant, PTL DEF Spec, KeepsPromise, Promise!AbsSpec

-----------------------------------------------------------------------------
(* The way to the end of a drain *)

\* A bound on the steps until a drain is over: six for a row that waits its turn,
\* up to two for a row of the batch under way, and those of the batch itself.
StepsLeft(t) ==
    LET n == Cardinality(tab[t].todo)
        b == Cardinality(tab[t].batch)
    IN  CASE tab[t].pc = "idle"     -> 0
          [] tab[t].pc = "loop"     -> 6 * n + 1
          [] tab[t].pc = "waiting"  -> 6 * n + 2 * b + (IF tab[t].reply = "none" THEN 4 ELSE 3)
          [] tab[t].pc = "removing" -> 6 * n + b + 2
          [] tab[t].pc = "marking"  -> 2 * b + 1
          [] tab[t].pc = "putting"  -> 2 * b + 2

\* A drain starts with the queue as it finds it.  From there each step of its tab,
\* faults included, brings it nearer to its end, and no other step changes that.
DrainDescends ==
    \A t \in Tabs :
        IF ~(TabStep(t) \/ FaultStep(t)) THEN StepsLeft(t)' = StepsLeft(t)
        ELSE IF tab[t].pc = "idle" THEN StepsLeft(t)' = 6 * Cardinality(queue) + 1
        ELSE StepsLeft(t)' < StepsLeft(t)

\* Nothing infinite is ever queued, sent or left to do.
FiniteWork ==
    /\ IsFiniteSet(queue)
    /\ \A t \in Tabs : IsFiniteSet(tab[t].todo) /\ IsFiniteSet(tab[t].batch)

\* How many rows a drain has before it is a number.
LEMMA WorkCounted ==
    ASSUME FiniteWork
    PROVE  /\ Cardinality(queue) \in Nat
           /\ \A t \in Tabs : /\ Cardinality(tab[t].todo) \in Nat
                              /\ Cardinality(tab[t].batch) \in Nat
BY FS_CardinalityType DEF FiniteWork

\* A slice leaves the rest of the snapshot for later.
LEMMA SliceCounted ==
    ASSUME NEW S, IsFiniteSet(S), NEW b \in Slices(S)
    PROVE  /\ IsFiniteSet(b) /\ IsFiniteSet(S \ b)
           /\ Cardinality(b) \in Nat \ {0} /\ Cardinality(S \ b) \in Nat
           /\ Cardinality(S) = Cardinality(b) + Cardinality(S \ b)
<1>1. b \in SUBSET S /\ b # {}
  BY DEF Slices
<1>2. IsFiniteSet(b) /\ IsFiniteSet(S \ b)
  BY <1>1, FS_Subset
<1>3. Cardinality(b) \in Nat /\ Cardinality(S \ b) \in Nat /\ Cardinality(b) # 0
  BY <1>1, <1>2, FS_CardinalityType, FS_EmptySet
<1>4. Cardinality(S \ b) = Cardinality(S) - Cardinality(b)
  <2>1. S \cap b = b
    BY <1>1
  <2> QED BY <2>1, FS_Difference
<1>5. Cardinality(S) \in Nat
  BY FS_CardinalityType
<1> QED BY <1>2, <1>3, <1>4, <1>5

\* A row done is one row less.
LEMMA RowCounted ==
    ASSUME NEW b, IsFiniteSet(b), NEW a \in b
    PROVE  /\ IsFiniteSet(b \ {a})
           /\ Cardinality(b \ {a}) \in Nat
           /\ Cardinality(b) = Cardinality(b \ {a}) + 1
<1>1. IsFiniteSet(b \ {a}) /\ Cardinality(b \ {a}) = Cardinality(b) - 1
  BY FS_RemoveElement
<1> QED BY <1>1, FS_CardinalityType

\* Steps that move one drain, or none, keep the work finite.
LEMMA WorkStep == SyncInv /\ FiniteWork /\ [Next]_vars => FiniteWork'
<1> SUFFICES ASSUME SyncInv, FiniteWork, [Next]_vars
             PROVE  FiniteWork'
  OBVIOUS
<1>0. TypeOK
  BY DEF SyncInv
<1>1. CASE Enqueue
  <2>1. PICK a : queue' = queue \cup {a}
    BY <1>1 DEF Enqueue
  <2>2. IsFiniteSet(queue')
    BY <2>1, FS_AddElement DEF FiniteWork
  <2> QED BY <1>1, <2>2 DEF Enqueue, FiniteWork
<1>2. CASE SecondTurns \/ OrphanReplayed \/ UNCHANGED vars
  BY <1>2 DEF SecondTurns, OrphanReplayed, vars, FiniteWork
<1>3. ASSUME NEW t \in Tabs, TabStep(t) \/ FaultStep(t)
      PROVE  FiniteWork'
  <2> DEFINE todo == tab[t].todo
             batch == tab[t].batch
  <2>1. IsFiniteSet(queue) /\ IsFiniteSet(todo) /\ IsFiniteSet(batch)
    BY DEF FiniteWork
  <2>2. IsFiniteSet({})
    BY FS_EmptySet
  <2> HIDE DEF todo, batch
  <2>3. ASSUME NEW pc, NEW T, IsFiniteSet(T), NEW B, IsFiniteSet(B), Go(t, pc, T, B),
               IsFiniteSet(queue')
        PROVE  FiniteWork'
    BY <1>0, <2>3 DEF Go, TypeOK, FiniteWork
  <2>4. CASE StartDrain(t)
    BY <2>1, <2>2, <2>3, <2>4 DEF StartDrain
  <2>5. CASE Post(t)
    <3>1. PICK b \in Slices(todo) : Go(t, "waiting", todo \ b, b)
      BY <2>5 DEF Post, todo
    <3>2. IsFiniteSet(b) /\ IsFiniteSet(todo \ b)
      BY <2>1, SliceCounted
    <3>3. queue' = queue
      BY <2>5 DEF Post
    <3> QED BY <2>1, <2>3, <3>1, <3>2, <3>3
  <2>6. CASE ReplayCommits(t) \/ ReplayRollsBack(t) \/ ServerFails(t)
    <3>1. PICK reply : Answer(t, reply)
      BY <2>6 DEF ReplayCommits, ReplayRollsBack, ServerFails
    <3> QED BY <1>0, <3>1 DEF Answer, TypeOK, Drain, FiniteWork
  <2>7. CASE ReceiveOk(t) \/ ReceiveError(t) \/ NextBatch(t) \/ Finish(t)
             \/ ConnectionLost(t) \/ Reload(t)
    <3>1. queue' = queue
      BY <2>7 DEF ReceiveOk, ReceiveError, NextBatch, Finish, ConnectionLost, Reload
    <3>2. \/ Go(t, "removing", todo, batch) \/ Go(t, "marking", {}, batch)
          \/ Go(t, "loop", todo, {}) \/ Go(t, "idle", {}, {})
      BY <2>7
         DEF ReceiveOk, ReceiveError, NextBatch, Finish, ConnectionLost, Reload, todo, batch
    <3> QED BY <2>1, <2>2, <2>3, <3>1, <3>2
  <2>8. CASE Remove(t)
    <3>1. PICK a \in Oldest(batch) : /\ queue' = queue \ {a}
                                     /\ Go(t, "removing", todo, batch \ {a})
      BY <2>8 DEF Remove, todo, batch
    <3>2. IsFiniteSet(queue') /\ IsFiniteSet(batch \ {a})
      BY <2>1, <3>1, FS_Subset
    <3> QED BY <2>1, <2>3, <3>1, <3>2
  <2>9. CASE MarkGet(t)
    <3>1. PICK a \in Oldest(batch) :
            Go(t, "putting", {a}, batch \ {a}) \/ Go(t, "marking", {}, batch \ {a})
      BY <2>9 DEF MarkGet, batch
    <3>2. IsFiniteSet({a}) /\ IsFiniteSet(batch \ {a}) /\ queue' = queue
      BY <2>1, <2>9, FS_Subset, FS_Singleton DEF MarkGet
    <3> QED BY <2>1, <2>2, <2>3, <3>1, <3>2
  <2>10. CASE MarkPut(t)
    <3>1. queue' = queue \cup todo /\ Go(t, "marking", {}, batch)
      BY <2>10 DEF MarkPut, todo, batch
    <3>2. IsFiniteSet(queue')
      BY <2>1, <3>1, FS_Union
    <3> QED BY <2>1, <2>2, <2>3, <3>1, <3>2
  <2> QED BY <1>3, <2>4, <2>5, <2>6, <2>7, <2>8, <2>9, <2>10 DEF TabStep, FaultStep
<1> QED BY <1>1, <1>2, <1>3 DEF Next

\* What is left of a drain is a number, and nothing only between two drains.
LEMMA StepsLeftCounted ==
    ASSUME SyncInv, FiniteWork, NEW t \in Tabs
    PROVE  StepsLeft(t) \in Nat /\ (StepsLeft(t) = 0 <=> tab[t].pc = "idle")
BY WorkCounted DEF SyncInv, TypeOK, Drain, StepsLeft

\* Where a drain goes decides what is left of it.
LEMMA GoCounts ==
    ASSUME TypeOK, NEW t \in Tabs, NEW pc, NEW T, NEW B, Go(t, pc, T, B)
    PROVE  /\ pc = "idle"     => StepsLeft(t)' = 0
           /\ pc = "loop"     => StepsLeft(t)' = 6 * Cardinality(T) + 1
           /\ pc = "waiting"  => StepsLeft(t)' = 6 * Cardinality(T) + 2 * Cardinality(B) + 4
           /\ pc = "removing" => StepsLeft(t)' = 6 * Cardinality(T) + Cardinality(B) + 2
           /\ pc = "marking"  => StepsLeft(t)' = 2 * Cardinality(B) + 1
           /\ pc = "putting"  => StepsLeft(t)' = 2 * Cardinality(B) + 2
<1>1. tab'[t] = [pc |-> pc, todo |-> T, batch |-> B, reply |-> "none"]
  BY DEF Go, TypeOK
<1> QED BY <1>1 DEF StepsLeft

\* Each step of a tab whose drain is under way, and each fault of it, comes nearer
\* to the end of the drain.
LEMMA DrainStepDescends ==
    ASSUME SyncInv, FiniteWork, NEW t \in Tabs, tab[t].pc # "idle",
           TabStep(t) \/ FaultStep(t)
    PROVE  StepsLeft(t)' < StepsLeft(t)
<1>0. TypeOK /\ tab[t] \in Drain /\ (tab[t].reply # "none" => tab[t].pc = "waiting")
  BY DEF SyncInv, TypeOK, DrainInv
<1> DEFINE n == Cardinality(tab[t].todo)
           b == Cardinality(tab[t].batch)
<1>1. /\ n \in Nat /\ b \in Nat
      /\ IsFiniteSet(tab[t].todo) /\ IsFiniteSet(tab[t].batch)
  BY WorkCounted DEF FiniteWork
<1>2. /\ tab[t].pc = "loop"     => StepsLeft(t) = 6 * n + 1
      /\ tab[t].pc = "waiting" /\ tab[t].reply = "none" =>
           StepsLeft(t) = 6 * n + 2 * b + 4
      /\ tab[t].pc = "waiting" /\ tab[t].reply # "none" =>
           StepsLeft(t) = 6 * n + 2 * b + 3
      /\ tab[t].pc = "removing" => StepsLeft(t) = 6 * n + b + 2
      /\ tab[t].pc = "marking"  => StepsLeft(t) = 2 * b + 1
      /\ tab[t].pc = "putting"  => StepsLeft(t) = 2 * b + 2
  BY DEF StepsLeft
<1> HIDE DEF n, b
<1>3. CASE Post(t)
  <2>1. PICK s \in Slices(tab[t].todo) : Go(t, "waiting", tab[t].todo \ s, s)
    BY <1>3 DEF Post
  <2>2. /\ Cardinality(s) \in Nat \ {0} /\ Cardinality(tab[t].todo \ s) \in Nat
        /\ n = Cardinality(s) + Cardinality(tab[t].todo \ s)
    BY <1>1, SliceCounted DEF n
  <2>3. StepsLeft(t)' = 6 * Cardinality(tab[t].todo \ s) + 2 * Cardinality(s) + 4
    BY <1>0, <2>1, GoCounts
  <2>4. StepsLeft(t) = 6 * n + 1
    BY <1>2, <1>3 DEF Post
  <2> QED BY <2>2, <2>3, <2>4
<1>4. CASE ReplayCommits(t) \/ ReplayRollsBack(t) \/ ServerFails(t)
  <2>1. PICK reply \in {"ok", "error"} : Answer(t, reply)
    BY <1>4 DEF ReplayCommits, ReplayRollsBack, ServerFails
  <2>2. tab'[t] = [tab[t] EXCEPT !.reply = reply]
    BY <1>0, <2>1 DEF Answer, TypeOK
  <2>3. /\ tab'[t].pc = "waiting" /\ tab'[t].reply # "none"
        /\ tab'[t].todo = tab[t].todo /\ tab'[t].batch = tab[t].batch
    BY <1>0, <2>1, <2>2 DEF Answer, Drain
  <2>4. StepsLeft(t)' = 6 * n + 2 * b + 3
    BY <2>3 DEF StepsLeft, n, b
  <2>5. StepsLeft(t) = 6 * n + 2 * b + 4
    BY <1>2, <2>1 DEF Answer
  <2> QED BY <1>1, <2>4, <2>5
<1>5. CASE ReceiveOk(t)
  <2>1. Go(t, "removing", tab[t].todo, tab[t].batch) /\ tab[t].reply = "ok"
    BY <1>5 DEF ReceiveOk
  <2>2. StepsLeft(t)' = 6 * n + b + 2
    BY <1>0, <2>1, GoCounts DEF n, b
  <2> QED BY <1>0, <1>1, <1>2, <2>1, <2>2
<1>6. CASE ReceiveError(t) \/ ConnectionLost(t)
  <2>1. Go(t, "marking", {}, tab[t].batch) /\ tab[t].pc = "waiting"
    BY <1>0, <1>6 DEF ReceiveError, ConnectionLost
  <2>2. StepsLeft(t)' = 2 * b + 1
    BY <1>0, <2>1, GoCounts DEF b
  <2> QED BY <1>1, <1>2, <2>1, <2>2
<1>7. CASE Remove(t)
  <2>1. PICK a \in Oldest(tab[t].batch) : Go(t, "removing", tab[t].todo, tab[t].batch \ {a})
    BY <1>7 DEF Remove
  <2>2. Cardinality(tab[t].batch \ {a}) \in Nat /\ b = Cardinality(tab[t].batch \ {a}) + 1
    BY <1>1, RowCounted DEF Oldest, b
  <2>3. StepsLeft(t)' = 6 * n + Cardinality(tab[t].batch \ {a}) + 2
    BY <1>0, <2>1, GoCounts DEF n
  <2>4. StepsLeft(t) = 6 * n + b + 2
    BY <1>2, <1>7 DEF Remove
  <2> QED BY <1>1, <2>2, <2>3, <2>4
<1>8. CASE NextBatch(t)
  <2>1. Go(t, "loop", tab[t].todo, {}) /\ tab[t].pc = "removing"
    BY <1>8 DEF NextBatch
  <2>2. StepsLeft(t)' = 6 * n + 1
    BY <1>0, <2>1, GoCounts DEF n
  <2> QED BY <1>1, <1>2, <2>1, <2>2
<1>9. CASE MarkGet(t)
  <2>1. PICK a \in Oldest(tab[t].batch) :
          Go(t, "putting", {a}, tab[t].batch \ {a}) \/ Go(t, "marking", {}, tab[t].batch \ {a})
    BY <1>9 DEF MarkGet
  <2>2. Cardinality(tab[t].batch \ {a}) \in Nat /\ b = Cardinality(tab[t].batch \ {a}) + 1
    BY <1>1, RowCounted DEF Oldest, b
  <2>3. StepsLeft(t)' \in {2 * Cardinality(tab[t].batch \ {a}) + 2,
                           2 * Cardinality(tab[t].batch \ {a}) + 1}
    BY <1>0, <2>1, GoCounts
  <2>4. StepsLeft(t) = 2 * b + 1
    BY <1>2, <1>9 DEF MarkGet
  <2> QED BY <2>2, <2>3, <2>4
<1>10. CASE MarkPut(t)
  <2>1. Go(t, "marking", {}, tab[t].batch) /\ tab[t].pc = "putting"
    BY <1>10 DEF MarkPut
  <2>2. StepsLeft(t)' = 2 * b + 1
    BY <1>0, <2>1, GoCounts DEF b
  <2> QED BY <1>1, <1>2, <2>1, <2>2
<1>11. CASE Finish(t) \/ Reload(t)
  <2>1. Go(t, "idle", {}, {})
    BY <1>11 DEF Finish, Reload
  <2>2. StepsLeft(t)' = 0
    BY <1>0, <2>1, GoCounts
  <2>3. StepsLeft(t) \in Nat /\ StepsLeft(t) # 0
    BY StepsLeftCounted
  <2> QED BY <2>2, <2>3
<1> QED BY <1>3, <1>4, <1>5, <1>6, <1>7, <1>8, <1>9, <1>10, <1>11
       DEF TabStep, FaultStep, StartDrain

\* A drain of n queued actions is over after at most 6 * n + 1 steps of its tab,
\* faults included, whatever other tabs and the network do meanwhile: `syncing` is
\* set for no longer.  That the steps are taken is the fairness under which
\* DrainEnds is checked.
THEOREM DrainIsBounded ==
    Spec => /\ [](\A t \in Tabs : StepsLeft(t) \in Nat
                                  /\ (StepsLeft(t) = 0 <=> tab[t].pc = "idle"))
            /\ [][DrainDescends]_vars
<1>1. Init => FiniteWork
  BY FS_EmptySet DEF Init, FiniteWork, AtRest
<1>2. SyncInv /\ FiniteWork => \A t \in Tabs : StepsLeft(t) \in Nat
                                  /\ (StepsLeft(t) = 0 <=> tab[t].pc = "idle")
  BY StepsLeftCounted
<1>3. SyncInv /\ FiniteWork /\ Next => DrainDescends
  <2> SUFFICES ASSUME SyncInv, FiniteWork, Next, NEW t \in Tabs
               PROVE  IF ~(TabStep(t) \/ FaultStep(t)) THEN StepsLeft(t)' = StepsLeft(t)
                      ELSE IF tab[t].pc = "idle"
                             THEN StepsLeft(t)' = 6 * Cardinality(queue) + 1
                             ELSE StepsLeft(t)' < StepsLeft(t)
    BY DEF DrainDescends
  <2>0. TypeOK /\ StepsLeft(t) \in Nat /\ (tab[t].pc = "idle" => tab[t].reply = "none")
    BY StepsLeftCounted DEF SyncInv, DrainInv
  <2>1. CASE TabStep(t) \/ FaultStep(t)
    <3>1. CASE tab[t].pc = "idle"
      <4>1. Go(t, "loop", queue, {})
        BY <2>0, <2>1, <3>1
           DEF TabStep, FaultStep, StartDrain, Post, ReplayCommits, ReplayRollsBack,
               Answer, ReceiveOk, ReceiveError, Remove, NextBatch, MarkGet, MarkPut,
               Finish, ConnectionLost, ServerFails, Reload
      <4>2. StepsLeft(t)' = 6 * Cardinality(queue) + 1
        BY <2>0, <4>1, GoCounts
      <4> QED BY <2>1, <3>1, <4>2
    <3>2. CASE tab[t].pc # "idle"
      <4>1. StepsLeft(t)' < StepsLeft(t)
        BY <2>1, <3>2, DrainStepDescends
      <4> QED BY <2>1, <3>2, <4>1
    <3> QED BY <3>1, <3>2
  <2>2. CASE ~(TabStep(t) \/ FaultStep(t))
    <3>1. tab'[t] = tab[t]
      <4>1. ASSUME NEW u \in Tabs \ {t}, TabStep(u) \/ FaultStep(u)
            PROVE  tab'[t] = tab[t]
        BY <2>0, <4>1
           DEF TypeOK, TabStep, FaultStep, StartDrain, Post, ReplayCommits,
               ReplayRollsBack, Answer, ReceiveOk, ReceiveError, Remove, NextBatch,
               MarkGet, MarkPut, Finish, ConnectionLost, ServerFails, Reload, Go
      <4> QED BY <2>2, <4>1 DEF Next, Enqueue, SecondTurns, OrphanReplayed
    <3>2. StepsLeft(t)' = StepsLeft(t)
      BY <3>1 DEF StepsLeft
    <3> QED BY <2>2, <3>2
  <2> QED BY <2>1, <2>2
<1> QED BY <1>1, <1>2, <1>3, WorkStep, SyncInvariant, PTL DEF Spec
=============================================================================
