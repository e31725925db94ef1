------------------------------ MODULE AisFeed ------------------------------
(***************************************************************************)
(* The AIS simulator and the table it feeds: vessels that lie in port and  *)
(* sail, the batch their reports gather in, the client that posts a batch  *)
(* with retries, the network, and the ingest endpoint.                     *)
(*                                                                         *)
(* Positions, speeds and ETAs are left out: whether a vessel under way     *)
(* arrives in a tick, and whether its ETA jumps, is open.  Time is counted *)
(* in ticks.  A batch is a set, since it is stored in one transaction and  *)
(* read by timestamp; --dry-run, which sends nothing, is left out.         *)
(***************************************************************************)
EXTENDS Integers, FiniteSets

CONSTANTS
    Vessels,
    Calls,          \* Calls[v]: how many ports the circular schedule of v has
    MaxDwell,       \* port_dwell_minutes, in ticks
    MaxBatch,       \* max_batch_size
    FlushTicks,     \* flush_interval_seconds, in ticks
    MaxRetries,     \* max_retries of BackendClient
    MaxIterations   \* max_iterations of run_loop

ASSUME FleetAssumption ==
    /\ IsFiniteSet(Vessels)
    /\ Calls \in [Vessels -> Nat \ {0, 1}]

ASSUME SettingsAssumption ==
    /\ MaxDwell \in Nat
    /\ MaxBatch \in Nat \ {0}
    /\ FlushTicks \in Nat
    /\ MaxRetries \in Nat
    /\ MaxIterations \in Nat \ {0}

VARIABLES
    ship,        \* VesselState and the route index of each vessel
    clock,       \* ticks so far; every row of a tick carries it as event_ts
    batch,       \* rows not yet sent
    sinceFlush,  \* ticks_since_flush
    sender,      \* where run_loop, _flush and send_batch are
    stopped,     \* stop_event
    stats,       \* emitted and accepted rows; failed counts the lost flushes
    wire,        \* requests the server has not handled
    stored       \* requests whose rows are in ais_position_reports

vars == <<ship, clock, batch, sinceFlush, sender, stopped, stats, wire, stored>>

Ports == Nat                       \* a port is its place in the schedule
EventTypes == {"port_arrival", "port_departure", "eta_change"}

Ship == [inPort: BOOLEAN, leg: Nat, dwell: Nat]

Row == [ts: Nat, mmsi: Vessels, type: {"position_report"} \cup EventTypes,
        port: Ports]

Request == [flush: Nat, attempt: 0..MaxRetries, rows: SUBSET Row]

Sender == [pc: {"top", "post", "waiting", "pace", "done"},
           attempt: 0..MaxRetries,
           reply: {"none", "ok", "busy", "refused"},
           final: BOOLEAN]         \* the flush is the one after the loop

TypeOK ==
    /\ ship \in [Vessels -> Ship]
    /\ clock \in Nat
    /\ batch \in SUBSET Row
    /\ sinceFlush \in Nat
    /\ sender \in Sender
    /\ stopped \in BOOLEAN
    /\ stats \in [emitted: Nat, accepted: Nat, failed: Nat]
    /\ wire \in SUBSET Request
    /\ stored \in SUBSET Request

-----------------------------------------------------------------------------
(* The world *)

Origin(v, s) == s.leg
Destination(v, s) == (s.leg + 1) % Calls[v]

AtLeast1(n) == IF n < 1 THEN 1 ELSE n
Dwells == AtLeast1(MaxDwell \div 2)..AtLeast1(MaxDwell)

(* Faulty variants, for the properties to expose. *)

\* The arrival is built after the switch to the next route.
ArriveNamesNext(v, s) ==
    LET next == (s.leg + 1) % Calls[v]
    IN  {[to |-> [inPort |-> TRUE, leg |-> next, dwell |-> d],
          events |-> {<<"port_arrival", (next + 1) % Calls[v]>>}] : d \in Dwells}

(* The code. *)

\* What one tick can do to a vessel: its next state and the events it emits,
\* each an event type with the port it names.
InPort(v, s) ==
    IF s.dwell = 0
      THEN {[to |-> [s EXCEPT !.inPort = FALSE],
             events |-> {<<"port_departure", Origin(v, s)>>}]}
      ELSE {[to |-> [s EXCEPT !.dwell = @ - 1], events |-> {}]}

\* An arriving vessel switches to the next route of its schedule.
Arrive(v, s) ==
    {[to |-> [inPort |-> TRUE, leg |-> (s.leg + 1) % Calls[v], dwell |-> d],
      events |-> {<<"port_arrival", Destination(v, s)>>}] : d \in Dwells}

Underway(v, s) ==
    {[to |-> s, events |-> E] :
       E \in {{}, {<<"eta_change", Destination(v, s)>>}}}
    \cup Arrive(v, s)

Moves(v) == IF ship[v].inPort THEN InPort(v, ship[v]) ELSE Underway(v, ship[v])

\* The report is made after the move and names the destination that then holds.
Emitted(v, move, ts) ==
    {[ts |-> ts, mmsi |-> v, type |-> "position_report",
      port |-> Destination(v, move.to)]}
    \cup {[ts |-> ts, mmsi |-> v, type |-> e[1], port |-> e[2]] : e \in move.events}

\* One step of the whole fleet.
Courses ==
    {c \in [Vessels -> UNION {Moves(v) : v \in Vessels}] :
       \A v \in Vessels : c[v] \in Moves(v)}

NewRows(c) == UNION {Emitted(v, c[v], clock + 1) : v \in Vessels}

Init ==
    /\ ship \in [Vessels -> [inPort: {TRUE}, leg: {0}, dwell: 0..MaxDwell]]
    /\ clock = 0
    /\ batch = {}
    /\ sinceFlush = 0
    /\ sender = [pc |-> "top", attempt |-> 0, reply |-> "none", final |-> FALSE]
    /\ stopped \in BOOLEAN
    /\ stats = [emitted |-> 0, accepted |-> 0, failed |-> 0]
    /\ wire = {}
    /\ stored = {}

-----------------------------------------------------------------------------
(* run_loop *)

Goto(pc) == sender' = [sender EXCEPT !.pc = pc]

(* Faulty variants. *)

\* The final flush is forgotten.
LeaveAtOnce == Goto("done")

(* The code. *)

\* A whole tick is added before the batch is looked at.
Due(rows, ticks) ==
    \/ Cardinality(rows) >= MaxBatch
    \/ ticks >= FlushTicks /\ rows # {}

Tick ==
    /\ sender.pc = "top"
    /\ ~stopped
    /\ clock' = clock + 1
    /\ \E c \in Courses :
         /\ ship' = [v \in Vessels |-> c[v].to]
         /\ batch' = batch \cup NewRows(c)
         /\ stats' = [stats EXCEPT !.emitted = @ + Cardinality(NewRows(c))]
    /\ sinceFlush' = sinceFlush + 1
    /\ Goto(IF Due(batch', sinceFlush') THEN "post" ELSE "pace")
    /\ UNCHANGED <<stopped, wire, stored>>

\* Leaving the loop: one more flush if anything is left.
Leave ==
    sender' = [sender EXCEPT !.pc = IF batch = {} THEN "done" ELSE "post",
                             !.final = batch # {}]

StopAtTop ==
    /\ sender.pc = "top"
    /\ stopped
    /\ Leave
    /\ UNCHANGED <<ship, clock, batch, sinceFlush, stopped, stats, wire, stored>>

\* The sleep until the next deadline ends early when the loop is stopped; a loop
\* behind schedule does not look at stop_event here.
StopInSleep ==
    /\ sender.pc = "pace"
    /\ stopped
    /\ Leave
    /\ UNCHANGED <<ship, clock, batch, sinceFlush, stopped, stats, wire, stored>>

NextDeadline ==
    /\ sender.pc = "pace"
    /\ IF clock >= MaxIterations THEN Leave ELSE Goto("top")
    /\ UNCHANGED <<ship, clock, batch, sinceFlush, stopped, stats, wire, stored>>

Signal ==
    /\ ~stopped
    /\ sender.pc # "done"
    /\ stopped' = TRUE
    /\ UNCHANGED <<ship, clock, batch, sinceFlush, sender, stats, wire, stored>>

-----------------------------------------------------------------------------
(* _flush and send_batch *)

\* At most one flush follows a tick, so its tick names it.
Posted == [flush |-> clock, attempt |-> sender.attempt, rows |-> batch]

Post ==
    /\ sender.pc = "post"
    /\ wire' = wire \cup {Posted}
    /\ Goto("waiting")
    /\ UNCHANGED <<ship, clock, batch, sinceFlush, stopped, stats, stored>>

\* The batch is cleared whether or not it was sent.
EndFlush ==
    /\ batch' = {}
    /\ sinceFlush' = 0
    /\ sender' = [pc |-> IF sender.final THEN "done" ELSE "pace", attempt |-> 0,
                  reply |-> "none", final |-> FALSE]
    /\ UNCHANGED <<ship, clock, stopped, wire, stored>>

(* Faulty variants. *)

\* The rows of a failed flush stay for the next one.
KeepsFailedBatch ==
    /\ sinceFlush' = 0
    /\ sender' = [pc |-> IF sender.final THEN "done" ELSE "pace", attempt |-> 0,
                  reply |-> "none", final |-> FALSE]
    /\ stats' = [stats EXCEPT !.failed = @ + 1]
    /\ UNCHANGED <<ship, clock, batch, stopped, wire, stored>>

\* The attempts are not counted.
RetryForEver ==
    /\ sender' = [sender EXCEPT !.pc = "post", !.reply = "none"]
    /\ UNCHANGED <<ship, clock, batch, sinceFlush, stopped, stats, wire, stored>>

(* The code. *)

FlushFails ==
    /\ EndFlush
    /\ stats' = [stats EXCEPT !.failed = @ + 1]

Retry ==
    IF sender.attempt < MaxRetries
      THEN /\ sender' = [sender EXCEPT !.pc = "post", !.attempt = @ + 1,
                                       !.reply = "none"]
           /\ UNCHANGED <<ship, clock, batch, sinceFlush, stopped, stats, wire, stored>>
      ELSE FlushFails

\* Every event type of the simulator is known to the endpoint: no row of a stored
\* batch is rejected.
ReceiveOk ==
    /\ sender.reply = "ok"
    /\ EndFlush
    /\ stats' = [stats EXCEPT !.accepted = @ + Cardinality(batch)]

ReceiveRefused == sender.reply = "refused" /\ FlushFails

ReceiveBusy == sender.reply = "busy" /\ Retry

\* TransportError: a timeout or a broken connection, whatever the server did with
\* the request, does or is still going to do.
TransportError == sender.pc = "waiting" /\ Retry

-----------------------------------------------------------------------------
(* The network and ingest_batch *)

\* The client still waits for an answer to the request.
Awaited(q) ==
    /\ sender.pc = "waiting"
    /\ sender.reply = "none"
    /\ q = Posted

Respond(q, reply) ==
    IF Awaited(q) THEN sender' = [sender EXCEPT !.reply = reply]
                  ELSE UNCHANGED sender

\* One transaction for the batch, no idempotency key.
IngestBatch(q) ==
    /\ stored' = stored \cup {q}
    /\ wire' = wire \ {q}
    /\ Respond(q, "ok")
    /\ UNCHANGED <<ship, clock, batch, sinceFlush, stopped, stats>>

\* 429 or 5xx, or one of the client errors that are not retried.
IngestFails(q) ==
    /\ wire' = wire \ {q}
    /\ \E reply \in {"busy", "refused"} : Respond(q, reply)
    /\ UNCHANGED <<ship, clock, batch, sinceFlush, stopped, stats, stored>>

RequestLost(q) ==
    /\ wire' = wire \ {q}
    /\ UNCHANGED <<ship, clock, batch, sinceFlush, sender, stopped, stats, stored>>

-----------------------------------------------------------------------------

RunnerStep ==
    \/ Tick
    \/ StopAtTop
    \/ StopInSleep
    \/ NextDeadline
    \/ Post
    \/ ReceiveOk
    \/ ReceiveRefused
    \/ ReceiveBusy
    \/ TransportError

RequestStep(q) == IngestBatch(q) \/ IngestFails(q) \/ RequestLost(q)

Next == RunnerStep \/ Signal \/ \E q \in wire : RequestStep(q)

Spec == Init /\ [][Next]_vars

\* The runner goes on: its event loop turns and httpx times out.
FairSpec == Spec /\ WF_vars(RunnerStep)

-----------------------------------------------------------------------------
(* Properties *)

Table == UNION {q.rows : q \in stored}

\* A row is stored at most once per attempt of the one flush it was part of: a
\* retry of a request that did arrive, or arrives late, can do no worse.
CopiesBounded ==
    \A row \in Table :
        Cardinality({q \in stored : row \in q.rows}) <= MaxRetries + 1

\* A batch is over its cap by less than a tick of the fleet.
BatchBounded == Cardinality(batch) < MaxBatch + 2 * Cardinality(Vessels)

\* What the client counts as accepted has been stored, whichever answers were
\* lost, doubled by a retry or late: no flush is counted on another's rows.
AcceptedWereStored == stats.accepted <= Cardinality(Table)

\* If no flush failed, every emitted row was accepted or waits in the batch, and
\* none waits once the loop has ended.
NothingForgotten ==
    stats.failed = 0 =>
        stats.emitted = stats.accepted +
                          (IF sender.pc = "done" THEN 0 ELSE Cardinality(batch))

\* Whoever reads the table and sees a vessel's destination change between two
\* consecutive reports finds the arrival that explains it, whatever batches were
\* lost: a report and the events of its tick share a request.
ArrivalsExplain ==
    \A p, q \in Table :
        /\ p.type = "position_report" /\ q.type = "position_report"
        /\ p.mmsi = q.mmsi /\ q.ts = p.ts + 1
        /\ p.port # q.port
        => [ts |-> q.ts, mmsi |-> q.mmsi, type |-> "port_arrival",
            port |-> p.port] \in Table

\* Once it is stopped the simulator ends, however the backend behaves.
StopEnds == stopped ~> sender.pc = "done"
=============================================================================
