---------------------------- MODULE AisFeedProofs ----------------------------
(***************************************************************************)
(* Proofs about AisFeed for any fleet, cap, interval and number of retries. *)
(*                                                                         *)
(* `Timing` is what the others rest on.  A request carries the tick of its *)
(* flush, and a flush empties the batch whatever comes of it: a row is     *)
(* younger than all earlier flushes and no younger than its own, so that   *)
(* two requests share a row only if they are attempts of one flush.        *)
(***************************************************************************)
EXTENDS AisFeed, FiniteSetTheorems, TLAPS

Requests == wire \cup stored

Sending == sender.pc \in {"post", "waiting"}

\* Rows and requests are ordered by the ticks they are of.
Aged ==
    /\ \A row \in batch : row.ts <= clock
    /\ \A q \in Requests : q.flush <= clock /\ \A row \in q.rows : row.ts <= q.flush

Separated ==
    /\ \A q \in Requests : q.flush < clock => \A row \in batch : q.flush < row.ts
    /\ \A q, r \in Requests : q.flush < r.flush => \A row \in r.rows : q.flush < row.ts
    /\ \A q, r \in Requests : q.flush = r.flush => q.rows = r.rows

\* The requests of the current tick carry the batch being sent, or it is gone.
Current ==
    \A q \in Requests :
        q.flush = clock => IF Sending THEN q.rows = batch ELSE batch = {}

Timing ==
    /\ TypeOK
    /\ IsFiniteSet(batch)
    /\ sender.reply # "none" => sender.pc = "waiting"
    /\ Aged
    /\ Separated
    /\ Current

-----------------------------------------------------------------------------
(* Facts about the operators *)

\* The image of a finite set is no larger than the set.
LEMMA ImageBound ==
    ASSUME NEW S, IsFiniteSet(S), NEW f, f \in [S -> {f[x] : x \in S}]
    PROVE  /\ IsFiniteSet({f[x] : x \in S})
           /\ Cardinality({f[x] : x \in S}) <= Cardinality(S)
<1> DEFINE T == {f[x] : x \in S}
<1>1. f \in Surjection(S, T)
  BY DEF Surjection
<1> HIDE DEF T
<1>2. IsFiniteSet(T) /\ Cardinality(T) <= Cardinality(S)
  BY <1>1, FS_Surjection
<1> QED BY <1>2 DEF T

\* What a vessel does in a tick: it stays on its route or arrives where the
\* route leads, and emits at most one event.
LEMMA MoveFacts ==
    ASSUME TypeOK, NEW v \in Vessels, NEW m \in Moves(v)
    PROVE  /\ m.to \in Ship
           /\ \/ m.events = {}
              \/ \E type \in EventTypes, port \in Ports : m.events = {<<type, port>>}
           /\ \/ m.to.leg = ship[v].leg
              \/ <<"port_arrival", Destination(v, ship[v])>> \in m.events
<1>1. ship[v] \in Ship /\ Calls[v] \in Nat \ {0, 1}
  BY FleetAssumption DEF TypeOK
<1>2. (ship[v].leg + 1) % Calls[v] \in Nat
  BY <1>1 DEF Ship
<1>3. Dwells \subseteq Nat
  <2>1. MaxDwell \div 2 \in Int
    BY SettingsAssumption
  <2> QED BY <2>1, SettingsAssumption DEF Dwells, AtLeast1
<1> DEFINE s == ship[v]
<1>4. CASE ship[v].inPort
  <2>1. m \in InPort(v, s)
    BY <1>4 DEF Moves
  <2>2. CASE s.dwell = 0
    <3>1. m.to = [s EXCEPT !.inPort = FALSE]
          /\ m.events = {<<"port_departure", s.leg>>}
      BY <2>1, <2>2 DEF InPort, Origin
    <3>2. s \in Ship /\ s.leg \in Ports
      BY <1>1 DEF Ship, Ports
    <3>3. m.to \in Ship /\ m.to.leg = s.leg
      BY <3>1, <3>2 DEF Ship
    <3> QED BY <3>1, <3>2, <3>3 DEF EventTypes
  <2>3. CASE s.dwell # 0
    <3>1. m.to = [s EXCEPT !.dwell = s.dwell - 1] /\ m.events = {}
      BY <2>1, <2>3 DEF InPort
    <3>2. m.to \in Ship /\ m.to.leg = s.leg
      BY <1>1, <2>3, <3>1 DEF Ship
    <3> QED BY <3>1, <3>2
  <2> QED BY <2>2, <2>3
<1>5. CASE ~ship[v].inPort
  <2>1. m \in Underway(v, ship[v])
    BY <1>5 DEF Moves
  <2>2. CASE m \in Arrive(v, ship[v])
    <3>1. PICK d \in Dwells :
            m = [to |-> [inPort |-> TRUE, leg |-> (s.leg + 1) % Calls[v], dwell |-> d],
                 events |-> {<<"port_arrival", Destination(v, s)>>}]
      BY <2>2 DEF Arrive
    <3>2. m.events = {<<"port_arrival", Destination(v, s)>>}
      BY <3>1
    <3>3. m.to \in Ship
      BY <1>2, <1>3, <3>1 DEF Ship
    <3>4. Destination(v, s) \in Ports
      BY <1>2 DEF Destination, Ports
    <3> QED BY <3>2, <3>3, <3>4 DEF EventTypes
  <2>3. CASE m \notin Arrive(v, ship[v])
    <3>1. m.to = s /\ (m.events = {} \/ m.events = {<<"eta_change", Destination(v, s)>>})
      BY <2>1, <2>3 DEF Underway
    <3>2. Destination(v, s) \in Ports
      BY <1>2 DEF Destination, Ports
    <3> QED BY <1>1, <3>1, <3>2 DEF EventTypes
  <2> QED BY <2>2, <2>3
<1> QED BY <1>4, <1>5

\* The rows of a tick bear its number, and each vessel reports once.
LEMMA RowFacts ==
    ASSUME TypeOK, NEW c \in Courses, NEW row \in NewRows(c)
    PROVE  /\ row \in Row
           /\ row.ts = clock + 1
           /\ row.type = "position_report" =>
                row.port = Destination(row.mmsi, c[row.mmsi].to)
<1>1. PICK v \in Vessels : row \in Emitted(v, c[v], clock + 1)
  BY DEF NewRows
<1>2. c[v] \in Moves(v)
  BY DEF Courses
<1>3. /\ c[v].to \in Ship
      /\ \/ c[v].events = {}
         \/ \E type \in EventTypes, port \in Ports : c[v].events = {<<type, port>>}
  BY <1>2, MoveFacts
<1>4. Destination(v, c[v].to) \in Ports
  BY <1>3, FleetAssumption DEF Destination, Ship, Ports
<1>5. CASE row = [ts |-> clock + 1, mmsi |-> v, type |-> "position_report",
                  port |-> Destination(v, c[v].to)]
  BY <1>4, <1>5 DEF Row, TypeOK, Ports
<1>6. CASE \E e \in c[v].events :
             row = [ts |-> clock + 1, mmsi |-> v, type |-> e[1], port |-> e[2]]
  BY <1>3, <1>6 DEF Row, TypeOK, Ports, EventTypes
<1> QED BY <1>1, <1>5, <1>6 DEF Emitted

\* A tick adds at most two rows for each vessel.
LEMMA TickSize ==
    ASSUME TypeOK, NEW c \in Courses
    PROVE  /\ IsFiniteSet(NewRows(c))
           /\ Cardinality(NewRows(c)) \in Nat
           /\ Cardinality(NewRows(c)) <= 2 * Cardinality(Vessels)
<1> DEFINE report == [v \in Vessels |->
                        [ts |-> clock + 1, mmsi |-> v, type |-> "position_report",
                         port |-> Destination(v, c[v].to)]]
           event == [v \in Vessels |->
                       IF c[v].events = {} THEN report[v]
                       ELSE LET e == CHOOSE e \in c[v].events : TRUE
                            IN  [ts |-> clock + 1, mmsi |-> v,
                                 type |-> e[1], port |-> e[2]]]
           R == {report[v] : v \in Vessels}
           E == {event[v] : v \in Vessels}
<1>1. NewRows(c) \subseteq R \cup E
  <2> SUFFICES ASSUME NEW v \in Vessels, NEW row \in Emitted(v, c[v], clock + 1)
               PROVE  row \in R \cup E
    BY DEF NewRows
  <2>1. CASE row = [ts |-> clock + 1, mmsi |-> v, type |-> "position_report",
                    port |-> Destination(v, c[v].to)]
    BY <2>1
  <2>2. CASE \E e \in c[v].events :
               row = [ts |-> clock + 1, mmsi |-> v, type |-> e[1], port |-> e[2]]
    <3>1. c[v] \in Moves(v)
      BY DEF Courses
    <3>2. PICK e \in c[v].events : c[v].events = {e} /\
            row = [ts |-> clock + 1, mmsi |-> v, type |-> e[1], port |-> e[2]]
      BY <2>2, <3>1, MoveFacts
    <3>3. (CHOOSE d \in c[v].events : TRUE) = e
      BY <3>2
    <3>4. event[v] = row
      BY <3>2, <3>3
    <3> QED BY <3>4
  <2> QED BY <2>1, <2>2 DEF Emitted
<1>2. report \in [Vessels -> R] /\ event \in [Vessels -> E]
  OBVIOUS
<1> HIDE DEF report, event
<1>3. /\ IsFiniteSet(R) /\ Cardinality(R) <= Cardinality(Vessels)
      /\ IsFiniteSet(E) /\ Cardinality(E) <= Cardinality(Vessels)
  BY <1>2, FleetAssumption, ImageBound
<1> HIDE DEF R, E
<1>4. /\ IsFiniteSet(R \cup E) /\ Cardinality(R \cup E) \in Nat
      /\ Cardinality(R \cup E) = Cardinality(R) + Cardinality(E) - Cardinality(R \cap E)
      /\ Cardinality(R \cap E) \in Nat
      /\ Cardinality(R) \in Nat /\ Cardinality(E) \in Nat
      /\ Cardinality(Vessels) \in Nat
  <2>1. IsFiniteSet(R \cap E)
    BY <1>3, FS_Subset
  <2> QED BY <1>3, <2>1, FS_Union, FS_CardinalityType, FleetAssumption
<1>5. IsFiniteSet(NewRows(c)) /\ Cardinality(NewRows(c)) <= Cardinality(R \cup E)
  BY <1>1, <1>4, FS_Subset
<1>6. Cardinality(NewRows(c)) \in Nat
  BY <1>5, FS_CardinalityType
<1> QED BY <1>3, <1>4, <1>5, <1>6

-----------------------------------------------------------------------------
(* Timing is inductive *)

\* A step that keeps the clock and the batch and makes no request.
LEMMA NoNewRequest ==
    ASSUME Timing, TypeOK', clock' = clock, batch' = batch,
           Requests' \subseteq Requests,
           sender'.reply # "none" => sender'.pc = "waiting",
           \A q \in Requests :
             q.flush = clock => IF Sending' THEN q.rows = batch ELSE batch = {}
    PROVE  Timing'
<1>1. Aged'
  BY DEF Timing, Aged
<1>2. Separated'
  BY DEF Timing, Separated
<1>3. Current'
  BY DEF Timing, Current
<1> QED BY <1>1, <1>2, <1>3 DEF Timing

LEMMA InitTiming == Init => Timing
<1> SUFFICES ASSUME Init
             PROVE  Timing
  OBVIOUS
<1>1. ship \in [Vessels -> Ship]
  <2>1. 0..MaxDwell \subseteq Nat
    BY SettingsAssumption
  <2>2. [inPort: {TRUE}, leg: {0}, dwell: 0..MaxDwell] \subseteq Ship
    <3> SUFFICES ASSUME NEW s \in [inPort: {TRUE}, leg: {0}, dwell: 0..MaxDwell]
                 PROVE  s \in Ship
      OBVIOUS
    <3>1. PICK n \in 0..MaxDwell : s = [inPort |-> TRUE, leg |-> 0, dwell |-> n]
      OBVIOUS
    <3> QED BY <2>1, <3>1 DEF Ship
  <2> QED BY <2>2 DEF Init
<1>2. sender \in Sender
  BY SettingsAssumption DEF Init, Sender
<1>3. TypeOK
  BY <1>1, <1>2 DEF Init, TypeOK
<1> QED BY <1>3, FS_EmptySet
        DEF Init, Timing, Aged, Separated, Current, Requests

LEMMA TickTiming ==
    ASSUME Timing, Tick
    PROVE  Timing'
<1>1. PICK c \in Courses :
        /\ ship' = [v \in Vessels |-> c[v].to]
        /\ batch' = batch \cup NewRows(c)
        /\ stats' = [stats EXCEPT !.emitted = @ + Cardinality(NewRows(c))]
  BY DEF Tick
<1>2. /\ clock' = clock + 1 /\ sinceFlush' = sinceFlush + 1
      /\ sender.pc = "top" /\ sender' \in {[sender EXCEPT !.pc = "post"],
                                           [sender EXCEPT !.pc = "pace"]}
      /\ UNCHANGED <<stopped, wire, stored>>
  BY DEF Tick, Goto
<1>3. /\ \A row \in NewRows(c) : row \in Row /\ row.ts = clock + 1
      /\ IsFiniteSet(NewRows(c)) /\ Cardinality(NewRows(c)) \in Nat
  BY RowFacts, TickSize DEF Timing
<1>4. TypeOK'
  <2>1. ship' \in [Vessels -> Ship]
    BY <1>1, MoveFacts DEF Timing, Courses
  <2>2. sender' \in Sender
    BY <1>2 DEF Timing, TypeOK, Sender
  <2>3. stats' \in [emitted: Nat, accepted: Nat, failed: Nat]
    BY <1>1, <1>3 DEF Timing, TypeOK
  <2>4. batch' \in SUBSET Row
    BY <1>1, <1>3 DEF Timing, TypeOK
  <2> QED BY <1>2, <2>1, <2>2, <2>3, <2>4 DEF Timing, TypeOK
<1>5. IsFiniteSet(batch')
  BY <1>1, <1>3, FS_Union DEF Timing
<1>6. \A row \in batch : row.ts \in Nat
  BY DEF Timing, TypeOK, Row
<1>7. \A q \in Requests : q.flush \in Nat /\ \A row \in q.rows : row.ts \in Nat
  BY DEF Timing, TypeOK, Requests, Request, Row
<1>8. clock \in Nat /\ Requests' = Requests
  BY <1>2 DEF Timing, TypeOK, Requests
<1>9. Aged'
  BY <1>1, <1>2, <1>3, <1>6, <1>7, <1>8 DEF Timing, Aged
<1>10. \A q \in Requests : \A row \in batch' : q.flush < row.ts
  <2> SUFFICES ASSUME NEW q \in Requests, NEW row \in batch'
               PROVE  q.flush < row.ts
    OBVIOUS
  <2>1. q.flush \in Nat /\ q.flush <= clock
    BY <1>7 DEF Timing, Aged
  <2>2. CASE row \in NewRows(c)
    BY <1>3, <1>8, <2>1, <2>2
  <2>3. CASE row \in batch
    <3>1. q.flush # clock
      BY <1>2, <2>3 DEF Timing, Current, Sending
    <3> QED BY <1>8, <2>1, <2>3, <3>1 DEF Timing, Separated
  <2> QED BY <1>1, <2>2, <2>3
<1>11. Separated'
  BY <1>8, <1>10 DEF Timing, Separated
<1>12. Current'
  BY <1>2, <1>7, <1>8 DEF Timing, Aged, Current
<1>13. sender'.reply # "none" => sender'.pc = "waiting"
  BY <1>2 DEF Timing, TypeOK, Sender
<1> QED BY <1>4, <1>5, <1>9, <1>11, <1>12, <1>13 DEF Timing

\* Leaving the loop, or going round, starts a flush only if the batch has rows,
\* and then no flush of this tick has been made.
LEMMA LoopTiming ==
    ASSUME Timing, StopAtTop \/ StopInSleep \/ NextDeadline \/ Signal
    PROVE  Timing'
<1>1. /\ UNCHANGED <<ship, clock, batch, sinceFlush, stats, wire, stored>>
      /\ stopped' \in BOOLEAN
  BY DEF StopAtTop, StopInSleep, NextDeadline, Signal, Timing, TypeOK
<1>2. sender' \in Sender
  BY DEF StopAtTop, StopInSleep, NextDeadline, Signal, Leave, Goto, Timing,
         TypeOK, Sender
<1>3. Sending' => Sending \/ batch # {}
  BY DEF StopAtTop, StopInSleep, NextDeadline, Signal, Leave, Goto, Sending,
         Timing, TypeOK, Sender
<1>4. Sending => Sending'
  BY DEF StopAtTop, StopInSleep, NextDeadline, Signal, Sending
<1>5. TypeOK'
  BY <1>1, <1>2 DEF Timing, TypeOK
<1>6. Requests' = Requests
  BY <1>1 DEF Requests
<1>7. ASSUME NEW q \in Requests, q.flush = clock
      PROVE  IF Sending' THEN q.rows = batch ELSE batch = {}
  BY <1>3, <1>4, <1>7 DEF Timing, Current
<1>8. sender'.reply # "none" => sender'.pc = "waiting"
  BY DEF StopAtTop, StopInSleep, NextDeadline, Signal, Leave, Goto, Timing,
         TypeOK, Sender
<1> QED BY <1>1, <1>5, <1>6, <1>7, <1>8, NoNewRequest

LEMMA PostTiming ==
    ASSUME Timing, Post
    PROVE  Timing'
<1>1. /\ UNCHANGED <<ship, clock, batch, sinceFlush, stopped, stats, stored>>
      /\ wire' = wire \cup {Posted}
      /\ sender.pc = "post" /\ sender' = [sender EXCEPT !.pc = "waiting"]
  BY DEF Post, Goto
<1>2. Posted \in Request /\ Posted.flush = clock /\ Posted.rows = batch
  BY DEF Posted, Request, Timing, TypeOK, Sender
<1>3. TypeOK'
  BY <1>1, <1>2 DEF Timing, TypeOK, Sender
<1>4. Requests' = Requests \cup {Posted}
  BY <1>1 DEF Requests
<1>5. Sending /\ Sending'
  BY <1>1 DEF Sending, Timing, TypeOK, Sender
<1>6. /\ clock \in Nat
      /\ \A q \in Requests : q.flush \in Nat /\ q.flush <= clock
      /\ \A q \in Requests : q.flush = clock => q.rows = batch
  BY <1>5 DEF Timing, TypeOK, Aged, Current, Requests, Request
<1>7. Aged'
  BY <1>1, <1>2, <1>4, <1>6 DEF Timing, Aged
<1>8. Separated'
  BY <1>1, <1>2, <1>4, <1>6 DEF Timing, Separated
<1>9. Current'
  BY <1>1, <1>2, <1>4, <1>5, <1>6 DEF Timing, Current
<1>10. sender'.pc = "waiting"
  BY <1>1 DEF Timing, TypeOK, Sender
<1> QED BY <1>1, <1>3, <1>7, <1>8, <1>9, <1>10 DEF Timing

\* After a flush the batch is empty, and its requests are of this tick.
LEMMA EndTiming ==
    ASSUME Timing, EndFlush, stats' \in [emitted: Nat, accepted: Nat, failed: Nat]
    PROVE  Timing'
<1>1. /\ UNCHANGED <<ship, clock, stopped, wire, stored>>
      /\ batch' = {} /\ sinceFlush' = 0
  BY DEF EndFlush
<1>2. sender' \in Sender /\ sender'.pc \in {"done", "pace"} /\ sender'.reply = "none"
  BY SettingsAssumption DEF EndFlush, Sender
<1>3. TypeOK'
  BY <1>1, <1>2 DEF Timing, TypeOK
<1>4. Requests' = Requests
  BY <1>1 DEF Requests
<1>5. Aged' /\ Separated'
  BY <1>1, <1>4 DEF Timing, Aged, Separated
<1>6. Current'
  BY <1>1, <1>2 DEF Current, Sending
<1> QED BY <1>1, <1>2, <1>3, <1>5, <1>6, FS_EmptySet DEF Timing

\* The size of what is being sent is a number.
LEMMA BatchSize ==
    ASSUME Timing
    PROVE  Cardinality(batch) \in Nat
BY FS_CardinalityType DEF Timing

LEMMA AnswerTiming ==
    ASSUME Timing, ReceiveOk \/ ReceiveRefused \/ ReceiveBusy \/ TransportError
    PROVE  Timing' /\ sender.pc = "waiting"
<1>0. sender.pc = "waiting"
  BY DEF ReceiveOk, ReceiveRefused, ReceiveBusy, TransportError, Timing
<1>1. CASE ReceiveOk
  <2>1. stats' \in [emitted: Nat, accepted: Nat, failed: Nat]
    BY <1>1, BatchSize DEF ReceiveOk, Timing, TypeOK
  <2> QED BY <1>0, <1>1, <2>1, EndTiming DEF ReceiveOk
<1>2. CASE FlushFails
  <2>1. stats' \in [emitted: Nat, accepted: Nat, failed: Nat]
    BY <1>2 DEF FlushFails, Timing, TypeOK
  <2> QED BY <1>0, <1>2, <2>1, EndTiming DEF FlushFails
<1>3. CASE Retry /\ sender.attempt < MaxRetries
  <2>1. /\ UNCHANGED <<ship, clock, batch, sinceFlush, stopped, stats, wire, stored>>
        /\ sender' = [sender EXCEPT !.pc = "post", !.attempt = @ + 1, !.reply = "none"]
    BY <1>3 DEF Retry
  <2>2. sender' \in Sender /\ Sending /\ Sending' /\ sender'.reply = "none"
    <3>1. sender \in Sender
      BY DEF Timing, TypeOK
    <3>2. sender.attempt + 1 \in 0..MaxRetries
      BY <1>3, <3>1, SettingsAssumption DEF Sender
    <3>3. sender' \in Sender /\ sender'.pc = "post" /\ sender'.reply = "none"
      BY <2>1, <3>1, <3>2 DEF Sender
    <3> QED BY <1>0, <3>3 DEF Sending
  <2>3. TypeOK' /\ Requests' = Requests
    BY <2>1, <2>2 DEF Timing, TypeOK, Requests
  <2>4. \A q \in Requests : q.flush = clock => q.rows = batch
    BY <2>2 DEF Timing, Current
  <2> QED BY <1>0, <2>1, <2>2, <2>3, <2>4, NoNewRequest
<1> QED BY <1>0, <1>1, <1>2, <1>3
        DEF ReceiveRefused, ReceiveBusy, TransportError, Retry

LEMMA ServerTiming ==
    ASSUME Timing, NEW q \in wire, RequestStep(q)
    PROVE  Timing'
<1>1. /\ UNCHANGED <<ship, clock, batch, sinceFlush, stopped, stats>>
      /\ wire' = wire \ {q}
      /\ stored' = stored \/ stored' = stored \cup {q}
  BY DEF RequestStep, IngestBatch, IngestFails, RequestLost
<1>2. /\ sender' \in Sender /\ sender'.pc = sender.pc
      /\ sender'.reply # sender.reply => sender.pc = "waiting"
  BY DEF RequestStep, IngestBatch, IngestFails, RequestLost, Respond, Awaited,
         Timing, TypeOK, Sender
<1>3. TypeOK'
  BY <1>1, <1>2 DEF Timing, TypeOK
<1>4. Requests' \subseteq Requests
  BY <1>1 DEF Requests
<1>5. \A r \in Requests :
        r.flush = clock => IF Sending' THEN r.rows = batch ELSE batch = {}
  BY <1>2 DEF Timing, Current, Sending
<1>6. sender'.reply # "none" => sender'.pc = "waiting"
  BY <1>2 DEF Timing
<1> QED BY <1>1, <1>3, <1>4, <1>5, <1>6, NoNewRequest

\* Every step preserves Timing.
LEMMA TimingStep ==
    ASSUME Timing, [Next]_vars
    PROVE  Timing'
<1>1. CASE Tick
  BY <1>1, TickTiming
<1>2. CASE StopAtTop \/ StopInSleep \/ NextDeadline \/ Signal
  BY <1>2, LoopTiming
<1>3. CASE Post
  BY <1>3, PostTiming
<1>4. CASE ReceiveOk \/ ReceiveRefused \/ ReceiveBusy \/ TransportError
  BY <1>4, AnswerTiming
<1>5. CASE \E q \in wire : RequestStep(q)
  BY <1>5, ServerTiming
<1>6. CASE UNCHANGED vars
  BY <1>6 DEF vars, Timing, TypeOK, Aged, Separated, Current, Requests, Sending
<1> QED BY <1>1, <1>2, <1>3, <1>4, <1>5, <1>6 DEF Next, RunnerStep

\* Timing holds in every state.
THEOREM TimingHolds == Spec => []Timing
BY InitTiming, TimingStep, PTL DEF Spec

-----------------------------------------------------------------------------
(* What follows from Timing alone *)

\* The types of the world, the loop and the network.
THEOREM FeedTypeCorrect == Spec => []TypeOK
<1>1. Timing => TypeOK
  BY DEF Timing
<1> QED BY <1>1, TimingHolds, PTL

\* However requests are repeated or delayed, a row is stored at most once for each
\* attempt of its flush.
THEOREM RowsNotMultiplied == Spec => []CopiesBounded
<1>1. Timing => CopiesBounded
  <2> SUFFICES ASSUME Timing, NEW row \in Table
               PROVE  Cardinality({q \in stored : row \in q.rows}) <= MaxRetries + 1
    BY DEF CopiesBounded
  <2>1. PICK q0 \in stored : row \in q0.rows
    BY DEF Table
  <2> DEFINE A == 0..MaxRetries
             f == [k \in A |-> [flush |-> q0.flush, attempt |-> k, rows |-> q0.rows]]
             F == {f[k] : k \in A}
             S == {q \in stored : row \in q.rows}
  <2>2. S \subseteq F
    <3> SUFFICES ASSUME NEW q \in stored, row \in q.rows
                 PROVE  q \in F
      OBVIOUS
    <3>1. q \in Request /\ q0 \in Request /\ q \in Requests /\ q0 \in Requests
      BY DEF Timing, TypeOK, Requests
    <3>2. q.flush \in Nat /\ q0.flush \in Nat /\ row.ts \in Nat
      BY <2>1, <3>1 DEF Request, Row
    <3>3. row.ts <= q.flush /\ row.ts <= q0.flush
      BY <2>1, <3>1 DEF Timing, Aged
    <3>4. ~(q.flush < q0.flush) /\ ~(q0.flush < q.flush)
      BY <2>1, <3>1, <3>2, <3>3 DEF Timing, Separated
    <3>5. q.flush = q0.flush /\ q.rows = q0.rows
      BY <3>1, <3>2, <3>4 DEF Timing, Separated
    <3>6. q.attempt \in A /\ q = f[q.attempt]
      BY <3>1, <3>5 DEF Request
    <3> QED BY <3>6
  <2>3. f \in [A -> F]
    OBVIOUS
  <2>4. IsFiniteSet(A) /\ Cardinality(A) = MaxRetries + 1
    BY FS_Interval, SettingsAssumption
  <2> HIDE DEF f, A
  <2>5. IsFiniteSet(F) /\ Cardinality(F) <= Cardinality(A)
    BY <2>3, <2>4, ImageBound
  <2> HIDE DEF F
  <2>6. IsFiniteSet(S) /\ Cardinality(S) <= Cardinality(F)
    BY <2>2, <2>5, FS_Subset
  <2>7. Cardinality(S) \in Nat /\ Cardinality(F) \in Nat /\ MaxRetries \in Nat
    BY <2>5, <2>6, FS_CardinalityType, SettingsAssumption
  <2> QED BY <2>4, <2>5, <2>6, <2>7
<1> QED BY <1>1, TimingHolds, PTL

-----------------------------------------------------------------------------
(* Arrivals *)

Known == batch \cup UNION {q.rows : q \in Requests}

\* The newest report of a vessel names the destination it is bound for.
LatestReports ==
    \A row \in Known :
        row.type = "position_report" /\ row.ts = clock =>
            row.port = Destination(row.mmsi, ship[row.mmsi])

\* A report in S that is the first with a new destination has its arrival in S.
Explains(S) ==
    \A p \in Known, q \in S :
        /\ p.type = "position_report" /\ q.type = "position_report"
        /\ p.mmsi = q.mmsi /\ q.ts = p.ts + 1
        /\ p.port # q.port
        => [ts |-> q.ts, mmsi |-> q.mmsi, type |-> "port_arrival",
            port |-> p.port] \in S

VoyageInv ==
    /\ LatestReports
    /\ Explains(batch)
    /\ \A r \in Requests : Explains(r.rows)

\* Except in a tick rows are only passed on, all of a batch together, or dropped.
LEMMA RowsPassedOn ==
    ASSUME Timing, [Next]_vars, ~Tick
    PROVE  /\ UNCHANGED <<ship, clock>>
           /\ batch' \in {batch, {}}
           /\ \A r \in Requests' : r \in Requests \/ r.rows = batch
<1>1. CASE StopAtTop \/ StopInSleep \/ NextDeadline \/ Signal
  BY <1>1 DEF StopAtTop, StopInSleep, NextDeadline, Signal, Requests
<1>2. CASE Post
  BY <1>2 DEF Post, Posted, Requests
<1>3. CASE ReceiveOk \/ ReceiveRefused \/ ReceiveBusy \/ TransportError
  BY <1>3 DEF ReceiveOk, ReceiveRefused, ReceiveBusy, TransportError, Retry,
              FlushFails, EndFlush, Requests
<1>4. CASE \E q \in wire : RequestStep(q)
  BY <1>4 DEF RequestStep, IngestBatch, IngestFails, RequestLost, Requests
<1>5. CASE UNCHANGED vars
  BY <1>5 DEF vars, Requests
<1> QED BY <1>1, <1>2, <1>3, <1>4, <1>5 DEF Next, RunnerStep

LEMMA TickVoyage ==
    ASSUME Timing, VoyageInv, Tick
    PROVE  VoyageInv'
<1>1. PICK c \in Courses :
        /\ ship' = [v \in Vessels |-> c[v].to]
        /\ batch' = batch \cup NewRows(c)
  BY DEF Tick
<1>2. clock \in Nat /\ clock' = clock + 1 /\ Requests' = Requests
  BY DEF Tick, Timing, TypeOK, Requests
<1>3. \A row \in NewRows(c) :
        /\ row \in Row /\ row.ts = clock + 1
        /\ row.type = "position_report" => row.port = Destination(row.mmsi, c[row.mmsi].to)
  BY RowFacts DEF Timing
<1>4. \A row \in Known : row \in Row /\ row.ts <= clock
  <2>1. \A q \in Requests : q \in Request /\ q.flush <= clock /\ q.flush \in Nat
    BY DEF Timing, TypeOK, Aged, Requests, Request
  <2>2. \A q \in Requests : \A row \in q.rows : row \in Row /\ row.ts <= q.flush
    BY <2>1 DEF Timing, Aged, Request
  <2>3. \A row \in batch : row \in Row /\ row.ts <= clock
    BY DEF Timing, TypeOK, Aged
  <2> QED BY <1>2, <2>1, <2>2, <2>3 DEF Known, Row
<1>5. Known' = Known \cup NewRows(c)
  BY <1>1, <1>2 DEF Known
<1>6. LatestReports'
  <2> SUFFICES ASSUME NEW row \in Known', row.type = "position_report",
                      row.ts = clock + 1
               PROVE  row.port = Destination(row.mmsi, ship'[row.mmsi])
    BY <1>2 DEF LatestReports, Destination
  <2>1. row \in NewRows(c)
    BY <1>2, <1>4, <1>5 DEF Row
  <2>2. row.mmsi \in Vessels /\ ship'[row.mmsi] = c[row.mmsi].to
    BY <1>1, <1>3, <2>1 DEF Row
  <2> QED BY <1>3, <2>1, <2>2
<1>7. \A r \in Requests : Explains(r.rows)'
  <2> SUFFICES ASSUME NEW r \in Requests, NEW p \in Known', NEW q \in r.rows,
                      p.type = "position_report", q.type = "position_report",
                      p.mmsi = q.mmsi, q.ts = p.ts + 1, p.port # q.port
               PROVE  [ts |-> q.ts, mmsi |-> q.mmsi, type |-> "port_arrival",
                       port |-> p.port] \in r.rows
    BY DEF Explains
  <2>1. q \in Known
    BY DEF Known
  <2>2. p \in Known
    BY <1>2, <1>3, <1>4, <1>5, <2>1 DEF Row
  <2> QED BY <2>2 DEF VoyageInv, Explains
<1>8. Explains(batch)'
  <2> SUFFICES ASSUME NEW p \in Known', NEW q \in batch',
                      p.type = "position_report", q.type = "position_report",
                      p.mmsi = q.mmsi, q.ts = p.ts + 1, p.port # q.port
               PROVE  [ts |-> q.ts, mmsi |-> q.mmsi, type |-> "port_arrival",
                       port |-> p.port] \in batch'
    BY DEF Explains
  <2>1. CASE q \in batch
    <3>1. q \in Known
      BY <2>1 DEF Known
    <3>2. p \in Known
      BY <1>2, <1>3, <1>4, <1>5, <3>1 DEF Row
    <3> QED BY <1>1, <2>1, <3>2 DEF VoyageInv, Explains
  <2>2. CASE q \in NewRows(c)
    <3>1. p \in Known /\ p.ts = clock
      BY <1>2, <1>3, <1>4, <1>5, <2>2 DEF Row
    <3>2. q.mmsi \in Vessels /\ q.port = Destination(q.mmsi, c[q.mmsi].to)
      BY <1>3, <2>2 DEF Row
    <3>3. p.port = Destination(q.mmsi, ship[q.mmsi])
      BY <3>1 DEF VoyageInv, LatestReports
    <3> DEFINE v == q.mmsi
    <3>4. c[v] \in Moves(v)
      BY <3>2 DEF Courses
    <3>5. <<"port_arrival", p.port>> \in c[v].events
      <4>1. c[v].to.leg # ship[v].leg
        BY <3>2, <3>3 DEF Destination
      <4> QED BY <3>2, <3>3, <3>4, <4>1, MoveFacts DEF Timing
    <3>6. [ts |-> clock + 1, mmsi |-> v, type |-> "port_arrival", port |-> p.port]
            \in Emitted(v, c[v], clock + 1)
      BY <3>5 DEF Emitted
    <3>7. q.ts = clock + 1
      BY <1>3, <2>2
    <3> QED BY <1>1, <3>2, <3>6, <3>7 DEF NewRows
  <2> QED BY <1>1, <2>1, <2>2
<1> QED BY <1>2, <1>6, <1>7, <1>8 DEF VoyageInv

\* A change of destination between two consecutive reports in the table comes
\* with its arrival, for any fleet, schedule, loss, retry and delay.
THEOREM ArrivalsAreExplained == Spec => []ArrivalsExplain
<1>1. Init => VoyageInv
  BY DEF Init, VoyageInv, LatestReports, Explains, Known, Requests
<1>2. Timing /\ VoyageInv /\ [Next]_vars => VoyageInv'
  <2> SUFFICES ASSUME Timing, VoyageInv, [Next]_vars, ~Tick
               PROVE  VoyageInv'
    BY TickVoyage
  <2>1. /\ UNCHANGED <<ship, clock>>
        /\ batch' \in {batch, {}}
        /\ \A r \in Requests' : r \in Requests \/ r.rows = batch
    BY RowsPassedOn
  <2>2. Known' \subseteq Known
    BY <2>1 DEF Known
  <2>3. LatestReports'
    BY <2>1, <2>2 DEF VoyageInv, LatestReports, Destination
  <2>4. Explains(batch)' /\ \A r \in Requests' : Explains(r.rows)'
    BY <2>1, <2>2 DEF VoyageInv, Explains
  <2> QED BY <2>3, <2>4 DEF VoyageInv
<1>3. VoyageInv => ArrivalsExplain
  <2> SUFFICES ASSUME VoyageInv, NEW p \in Table, NEW q \in Table,
                      p.type = "position_report", q.type = "position_report",
                      p.mmsi = q.mmsi, q.ts = p.ts + 1, p.port # q.port
               PROVE  [ts |-> q.ts, mmsi |-> q.mmsi, type |-> "port_arrival",
                       port |-> p.port] \in Table
    BY DEF ArrivalsExplain
  <2>1. PICK r \in stored : q \in r.rows
    BY DEF Table
  <2>2. p \in Known /\ Explains(r.rows)
    BY DEF Table, Known, Requests, VoyageInv
  <2>3. [ts |-> q.ts, mmsi |-> q.mmsi, type |-> "port_arrival",
         port |-> p.port] \in r.rows
    BY <2>1, <2>2 DEF Explains
  <2> QED BY <2>3 DEF Table
<1> QED BY <1>1, <1>2, <1>3, TimingHolds, PTL DEF Spec

-----------------------------------------------------------------------------
(* The cap of the batch and the counters *)

\* Between ticks the batch is under its cap, or it is being sent.
Capped ==
    /\ BatchBounded
    /\ sender.pc \in {"top", "pace"} => Cardinality(batch) < MaxBatch
    /\ sender.pc = "done" => batch = {}

\* While no flush has failed the counters add up.
Balanced ==
    stats.failed = 0 => stats.emitted = stats.accepted + Cardinality(batch)

\* What has been accepted is in the table beside the batch that is being sent, and
\* that one is in the table once it is acknowledged.
Counted ==
    /\ IsFiniteSet(Table)
    /\ \A q \in wire : IsFiniteSet(q.rows)
    /\ sender.reply = "ok" => batch \subseteq Table
    /\ stats.accepted <= Cardinality(Table \ batch)

BooksInv == Capped /\ Balanced /\ Counted

LEMMA TickBooks ==
    ASSUME Timing, BooksInv, Tick
    PROVE  BooksInv'
<1>1. PICK c \in Courses :
        /\ batch' = batch \cup NewRows(c)
        /\ stats' = [stats EXCEPT !.emitted = @ + Cardinality(NewRows(c))]
  BY DEF Tick
<1>2. /\ UNCHANGED <<wire, stored>>
      /\ sender.pc = "top" /\ sender.reply = "none"
      /\ sender' = [sender EXCEPT !.pc =
                       IF Due(batch', sinceFlush') THEN "post" ELSE "pace"]
  BY DEF Tick, Goto, Timing
<1>3. /\ \A row \in NewRows(c) : row.ts = clock + 1
      /\ IsFiniteSet(NewRows(c)) /\ Cardinality(NewRows(c)) \in Nat
      /\ Cardinality(NewRows(c)) <= 2 * Cardinality(Vessels)
  BY RowFacts, TickSize DEF Timing
<1>4. clock \in Nat /\ \A row \in batch \cup Table : row.ts \in Nat /\ row.ts <= clock
  <2>1. clock \in Nat /\ \A row \in batch : row.ts \in Nat /\ row.ts <= clock
    BY DEF Timing, TypeOK, Aged, Row
  <2>2. \A q \in stored : q \in Request /\ q.flush <= clock /\
          \A row \in q.rows : row.ts <= q.flush
    BY DEF Timing, TypeOK, Aged, Requests
  <2>3. \A q \in stored : \A row \in q.rows :
          row.ts \in Nat /\ row.ts <= q.flush /\ q.flush \in Nat /\ q.flush <= clock
    BY <2>2 DEF Request, Row
  <2> QED BY <2>1, <2>3 DEF Table
<1>5. batch \cap NewRows(c) = {} /\ Table \ batch' = Table \ batch
  BY <1>1, <1>3, <1>4
<1>6. /\ Cardinality(batch') = Cardinality(batch) + Cardinality(NewRows(c))
      /\ Cardinality(batch) \in Nat
  <2>1. Cardinality(batch') =
          Cardinality(batch) + Cardinality(NewRows(c)) - Cardinality({})
    BY <1>1, <1>3, <1>5, FS_Union DEF Timing
  <2> QED BY <1>3, <2>1, BatchSize, FS_EmptySet
<1>7. /\ MaxBatch \in Nat /\ Cardinality(Vessels) \in Nat
      /\ Cardinality(batch) < MaxBatch
  BY <1>2, FleetAssumption, SettingsAssumption, FS_CardinalityType DEF BooksInv, Capped
<1>8. BatchBounded'
  BY <1>3, <1>6, <1>7 DEF BatchBounded
<1>9. sender'.pc \in {"post", "pace"} /\ sender'.reply = "none"
  BY <1>2 DEF Timing, TypeOK, Sender
<1>10. sender'.pc = "pace" => Cardinality(batch') < MaxBatch
  <2>1. sender'.pc = "pace" => ~Due(batch', sinceFlush')
    BY <1>2 DEF Timing, TypeOK, Sender
  <2> QED BY <1>3, <1>6, <1>7, <2>1 DEF Due
<1>11. Capped'
  BY <1>8, <1>9, <1>10 DEF Capped
<1>12. Balanced'
  <2>1. stats \in [emitted: Nat, accepted: Nat, failed: Nat]
    BY DEF Timing, TypeOK
  <2> QED BY <1>1, <1>3, <1>6, <2>1 DEF BooksInv, Balanced
<1>13. Counted'
  <2>1. Table' = Table /\ stats'.accepted = stats.accepted
    BY <1>1, <1>2 DEF Table, Timing, TypeOK
  <2> QED BY <1>2, <1>5, <1>9, <2>1 DEF BooksInv, Counted
<1> QED BY <1>11, <1>12, <1>13 DEF BooksInv

\* Steps of the loop and the post: nothing is counted.
LEMMA LoopBooks ==
    ASSUME Timing, BooksInv, Timing',
           StopAtTop \/ StopInSleep \/ NextDeadline \/ Signal \/ Post
    PROVE  BooksInv'
<1>1. UNCHANGED <<batch, stats, stored>> /\ wire' \in {wire, wire \cup {Posted}}
  BY DEF StopAtTop, StopInSleep, NextDeadline, Signal, Post
<1>2. sender'.reply = sender.reply
  BY DEF StopAtTop, StopInSleep, NextDeadline, Signal, Post, Leave, Goto, Timing,
         TypeOK, Sender
<1>3. sender'.pc \in {"top", "pace"} => sender.pc \in {"top", "pace"}
  BY DEF StopAtTop, StopInSleep, NextDeadline, Signal, Post, Leave, Goto, Timing,
         TypeOK, Sender
<1>4. sender'.pc = "done" => batch = {}
  BY DEF StopAtTop, StopInSleep, NextDeadline, Signal, Post, Leave, Goto, Timing,
         TypeOK, Sender
<1>5. Capped'
  BY <1>1, <1>3, <1>4 DEF BooksInv, Capped, BatchBounded
<1>6. Balanced'
  BY <1>1 DEF BooksInv, Balanced
<1>7. IsFiniteSet(Posted.rows)
  BY DEF Posted, Timing
<1>8. Counted'
  BY <1>1, <1>2, <1>7 DEF BooksInv, Counted, Table
<1> QED BY <1>5, <1>6, <1>8 DEF BooksInv

LEMMA AnswerBooks ==
    ASSUME Timing, BooksInv,
           ReceiveOk \/ ReceiveRefused \/ ReceiveBusy \/ TransportError
    PROVE  BooksInv'
<1>1. /\ stats \in [emitted: Nat, accepted: Nat, failed: Nat]
      /\ sender \in Sender /\ sender.pc = "waiting"
      /\ Cardinality(batch) \in Nat
      /\ MaxBatch \in Nat \ {0} /\ Cardinality(Vessels) \in Nat
  BY AnswerTiming, BatchSize, FleetAssumption, SettingsAssumption, FS_CardinalityType
     DEF Timing, TypeOK
<1>2. Cardinality({}) = 0
  BY FS_EmptySet
<1>3. ASSUME EndFlush
      PROVE  Capped' /\ Table' = Table /\ wire' = wire /\ sender'.reply = "none"
  <2>1. /\ batch' = {} /\ wire' = wire /\ stored' = stored
        /\ sender'.pc \in {"done", "pace"} /\ sender'.reply = "none"
    BY <1>3 DEF EndFlush
  <2> QED BY <1>1, <1>2, <2>1 DEF Capped, BatchBounded, Table
<1>4. /\ IsFiniteSet(Table) /\ Cardinality(Table) \in Nat
      /\ IsFiniteSet(Table \ batch) /\ Cardinality(Table \ batch) \in Nat
      /\ Cardinality(Table \ batch) <= Cardinality(Table)
      /\ stats.accepted <= Cardinality(Table \ batch)
  BY FS_Subset, FS_CardinalityType DEF BooksInv, Counted
<1>5. CASE ReceiveOk
  <2>1. /\ EndFlush /\ batch' = {} /\ sender.reply = "ok"
        /\ stats' = [stats EXCEPT !.accepted = @ + Cardinality(batch)]
    BY <1>5 DEF ReceiveOk, EndFlush
  <2>2. Cardinality(Table) = Cardinality(Table \ batch) + Cardinality(batch)
    <3>1. batch \subseteq Table
      BY <2>1 DEF BooksInv, Counted
    <3>2. Cardinality(Table \ batch) = Cardinality(Table) - Cardinality(Table \cap batch)
      BY <1>4, FS_Difference
    <3>3. Table \cap batch = batch
      BY <3>1
    <3>4. Cardinality(Table \cap batch) = Cardinality(batch)
      BY <3>3
    <3> QED BY <1>1, <1>4, <3>2, <3>4
  <2>3. Balanced'
    BY <1>1, <1>2, <2>1 DEF BooksInv, Balanced
  <2>4. stats'.accepted <= Cardinality(Table)
    BY <1>1, <1>4, <2>1, <2>2
  <2>5. Table \ {} = Table
    OBVIOUS
  <2> QED BY <1>3, <2>1, <2>3, <2>4, <2>5 DEF BooksInv, Counted
<1>6. CASE FlushFails
  <2>1. EndFlush /\ batch' = {} /\ stats' = [stats EXCEPT !.failed = @ + 1]
    BY <1>6 DEF FlushFails, EndFlush
  <2>2. Balanced'
    BY <1>1, <2>1 DEF Balanced
  <2>3. stats'.accepted <= Cardinality(Table)
    BY <1>1, <1>4, <2>1
  <2>4. Table \ {} = Table
    OBVIOUS
  <2> QED BY <1>3, <2>1, <2>2, <2>3, <2>4 DEF BooksInv, Counted
<1>7. CASE Retry /\ sender.attempt < MaxRetries
  <2>1. /\ UNCHANGED <<batch, stats, wire, stored>>
        /\ sender' = [sender EXCEPT !.pc = "post", !.attempt = @ + 1, !.reply = "none"]
    BY <1>7 DEF Retry
  <2>2. sender'.pc = "post" /\ sender'.reply = "none"
    BY <1>1, <2>1 DEF Sender
  <2> QED BY <2>1, <2>2
          DEF BooksInv, Capped, BatchBounded, Balanced, Counted, Table
<1> QED BY <1>5, <1>6, <1>7 DEF ReceiveRefused, ReceiveBusy, TransportError, Retry

\* The table only grows, by whole requests; the awaited one is the batch.
LEMMA ServerBooks ==
    ASSUME Timing, BooksInv, NEW q \in wire, RequestStep(q)
    PROVE  BooksInv'
<1>1. /\ UNCHANGED <<batch, stats>> /\ wire' = wire \ {q}
      /\ \/ stored' = stored /\ sender'.reply \in {sender.reply, "busy", "refused"}
         \/ /\ stored' = stored \cup {q}
            /\ sender'.reply = "ok" => sender.reply = "ok" \/ q = Posted
  BY DEF RequestStep, IngestBatch, IngestFails, RequestLost, Respond, Awaited, Timing,
         TypeOK, Sender
<1>2. sender'.pc = sender.pc
  BY DEF RequestStep, IngestBatch, IngestFails, RequestLost, Respond, Timing,
         TypeOK, Sender
<1>3. Capped' /\ Balanced'
  BY <1>1, <1>2 DEF BooksInv, Capped, BatchBounded, Balanced
<1>4. Table \subseteq Table' /\ Table' \subseteq Table \cup q.rows
  BY <1>1 DEF Table
<1>5. IsFiniteSet(Table')
  <2>1. IsFiniteSet(Table \cup q.rows)
    BY FS_Union DEF BooksInv, Counted
  <2> QED BY <1>4, <2>1, FS_Subset
<1>6. sender'.reply = "ok" => batch' \subseteq Table'
  <2>1. Posted.rows = batch
    BY DEF Posted
  <2> QED BY <1>1, <1>4, <2>1 DEF BooksInv, Counted, Table
<1>7. stats'.accepted <= Cardinality(Table' \ batch')
  <2>1. Table \ batch \subseteq Table' \ batch' /\ IsFiniteSet(Table' \ batch')
    BY <1>1, <1>4, <1>5, FS_Subset
  <2>2. /\ Cardinality(Table \ batch) <= Cardinality(Table' \ batch')
        /\ IsFiniteSet(Table \ batch)
    BY <2>1, FS_Subset
  <2>3. Cardinality(Table \ batch) \in Nat /\ Cardinality(Table' \ batch') \in Nat
    BY <2>1, <2>2, FS_CardinalityType
  <2>4. stats.accepted \in Nat /\ stats.accepted <= Cardinality(Table \ batch)
    BY DEF BooksInv, Counted, Timing, TypeOK
  <2> QED BY <1>1, <2>2, <2>3, <2>4
<1>8. Counted'
  BY <1>1, <1>5, <1>6, <1>7 DEF BooksInv, Counted
<1> QED BY <1>3, <1>8 DEF BooksInv

LEMMA BooksHold == Spec => []BooksInv
<1>1. Init => BooksInv
  <2> SUFFICES ASSUME Init
               PROVE  BooksInv
    OBVIOUS
  <2>1. /\ batch = {} /\ Table = {} /\ wire = {}
        /\ sender.pc = "top" /\ sender.reply = "none"
        /\ stats = [emitted |-> 0, accepted |-> 0, failed |-> 0]
    BY DEF Init, Table
  <2>2. Cardinality(Vessels) \in Nat /\ MaxBatch \in Nat \ {0}
    BY FleetAssumption, SettingsAssumption, FS_CardinalityType
  <2>3. IsFiniteSet({}) /\ Cardinality({}) = 0 /\ {} \ {} = {}
    BY FS_EmptySet
  <2> QED BY <2>1, <2>2, <2>3
          DEF BooksInv, Capped, BatchBounded, Balanced, Counted
<1>2. Timing /\ Timing' /\ BooksInv /\ [Next]_vars => BooksInv'
  <2> SUFFICES ASSUME Timing, Timing', BooksInv, [Next]_vars
               PROVE  BooksInv'
    OBVIOUS
  <2>1. CASE Tick
    BY <2>1, TickBooks
  <2>2. CASE StopAtTop \/ StopInSleep \/ NextDeadline \/ Signal \/ Post
    BY <2>2, LoopBooks
  <2>3. CASE ReceiveOk \/ ReceiveRefused \/ ReceiveBusy \/ TransportError
    BY <2>3, AnswerBooks
  <2>4. CASE \E q \in wire : RequestStep(q)
    BY <2>4, ServerBooks
  <2>5. CASE UNCHANGED vars
    BY <2>5 DEF vars, BooksInv, Capped, BatchBounded, Balanced, Counted, Table
  <2> QED BY <2>1, <2>2, <2>3, <2>4, <2>5 DEF Next, RunnerStep
<1> QED BY <1>1, <1>2, TimingHolds, PTL DEF Spec

\* The batch exceeds its cap by less than one tick of the fleet.
THEOREM BatchStaysBounded == Spec => []BatchBounded
<1>1. BooksInv => BatchBounded
  BY DEF BooksInv, Capped
<1> QED BY <1>1, BooksHold, PTL

\* No row is counted as accepted that has not been stored.
THEOREM AcceptedRowsAreStored == Spec => []AcceptedWereStored
<1>1. Timing /\ BooksInv => AcceptedWereStored
  <2> SUFFICES ASSUME Timing, BooksInv
               PROVE  AcceptedWereStored
    OBVIOUS
  <2>1. /\ Cardinality(Table) \in Nat /\ Cardinality(Table \ batch) \in Nat
        /\ Cardinality(Table \ batch) <= Cardinality(Table)
    BY FS_Subset, FS_CardinalityType DEF BooksInv, Counted
  <2> QED BY <2>1 DEF BooksInv, Counted, AcceptedWereStored, Timing, TypeOK
<1> QED BY <1>1, TimingHolds, BooksHold, PTL

\* Nothing is forgotten while no flush fails, nor at the end of the loop.
THEOREM NoRowForgotten == Spec => []NothingForgotten
<1>1. Timing /\ BooksInv => NothingForgotten
  <2> SUFFICES ASSUME Timing, BooksInv, stats.failed = 0
               PROVE  stats.emitted = stats.accepted +
                        (IF sender.pc = "done" THEN 0 ELSE Cardinality(batch))
    BY DEF NothingForgotten
  <2>1. stats.emitted = stats.accepted + Cardinality(batch)
    BY DEF BooksInv, Balanced
  <2>2. sender.pc = "done" => Cardinality(batch) = 0
    BY FS_EmptySet DEF BooksInv, Capped
  <2> QED BY <2>1, <2>2
<1> QED BY <1>1, TimingHolds, BooksHold, PTL

-----------------------------------------------------------------------------
(* The way to the end *)

\* The steps of the runner to its end once it is stopped: those of the attempts
\* left to the flush under way and, unless this is the flush after the loop, those
\* of the way to that one and of all its attempts.
FlushSteps(attempts) == 2 * attempts

StepsLeft ==
    LET last == FlushSteps(MaxRetries + 1)
        rest == FlushSteps(MaxRetries - sender.attempt)
    IN  CASE sender.pc = "done" -> 0
          [] sender.pc = "top"  -> last + 1
          [] sender.pc = "pace" -> last + 2
          [] Sending -> rest + (IF sender.pc = "post" THEN 2 ELSE 1)
                             + (IF sender.final THEN 0 ELSE last + 2)

\* After the stop each step of the runner brings it nearer to its end, and nothing
\* the network or the backend does takes it further away.
StopDescends ==
    stopped => IF RunnerStep THEN StepsLeft' < StepsLeft ELSE StepsLeft' = StepsLeft

\* What is left is a number, and nothing only at the end.
LEMMA StepsLeftCounted ==
    ASSUME Timing
    PROVE  /\ StepsLeft \in 0..(4 * MaxRetries + 6)
           /\ StepsLeft = 0 <=> sender.pc = "done"
BY SettingsAssumption DEF Timing, TypeOK, Sender, StepsLeft, FlushSteps, Sending

\* At the end of the loop one flush is left, or nothing.
LEMMA LeaveDescends ==
    ASSUME Timing, sender.pc \in {"top", "pace"}, Leave
    PROVE  StepsLeft' < StepsLeft
<1>. USE SettingsAssumption
<1>1. /\ sender.attempt \in 0..MaxRetries
      /\ sender' = [sender EXCEPT !.pc = IF batch = {} THEN "done" ELSE "post",
                                  !.final = batch # {}]
  BY DEF Timing, TypeOK, Sender, Leave
<1>2. StepsLeft \in {2 * (MaxRetries + 1) + 1, 2 * (MaxRetries + 1) + 2}
  BY DEF StepsLeft, FlushSteps, Sending
<1>3. CASE batch = {}
  <2>1. sender'.pc = "done"
    BY <1>1, <1>3 DEF Timing, TypeOK, Sender
  <2>2. StepsLeft' = 0
    BY <2>1 DEF StepsLeft, Sending
  <2> QED BY <1>2, <2>2
<1>4. CASE batch # {}
  <2>1. /\ sender'.pc = "post" /\ sender'.final = TRUE
        /\ sender'.attempt = sender.attempt
    BY <1>1, <1>4 DEF Timing, TypeOK, Sender
  <2>2. StepsLeft' = 2 * (MaxRetries - sender.attempt) + 2
    BY <1>1, <2>1 DEF StepsLeft, FlushSteps, Sending
  <2> QED BY <1>1, <1>2, <2>2
<1> QED BY <1>3, <1>4

\* Whatever became of a request: it is repeated while attempts are left, and
\* otherwise the flush is over.
LEMMA AnswerDescends ==
    ASSUME Timing, sender.pc = "waiting", EndFlush \/ Retry
    PROVE  StepsLeft' < StepsLeft
<1>. USE SettingsAssumption
<1> DEFINE rest == IF sender.final THEN 0 ELSE 2 * (MaxRetries + 1) + 2
<1>1. sender.attempt \in 0..MaxRetries /\ sender.final \in BOOLEAN
  BY DEF Timing, TypeOK, Sender
<1>2. StepsLeft = 2 * (MaxRetries - sender.attempt) + 1 + rest
  BY <1>1 DEF StepsLeft, FlushSteps, Sending
<1>3. rest \in Nat
  OBVIOUS
<1>4. CASE EndFlush
  <2>1. sender'.pc = IF sender.final THEN "done" ELSE "pace"
    BY <1>4 DEF EndFlush
  <2>2. StepsLeft' = rest
    BY <1>1, <2>1 DEF StepsLeft, FlushSteps, Sending
  <2> QED BY <1>1, <1>2, <1>3, <2>2
<1>5. CASE Retry /\ sender.attempt < MaxRetries
  <2>1. sender' = [sender EXCEPT !.pc = "post", !.attempt = @ + 1, !.reply = "none"]
    BY <1>5 DEF Retry
  <2>2. /\ sender'.pc = "post" /\ sender'.attempt = sender.attempt + 1
        /\ sender'.final = sender.final
    BY <2>1 DEF Timing, TypeOK, Sender
  <2>3. StepsLeft' = 2 * (MaxRetries - (sender.attempt + 1)) + 2 + rest
    BY <1>1, <2>2 DEF StepsLeft, FlushSteps, Sending
  <2> QED BY <1>1, <1>2, <1>3, <2>3
<1> QED BY <1>4, <1>5 DEF Retry, FlushFails

\* Once run_loop is told to stop, it is at most 4 * max_retries + 6 steps from its
\* end, whatever becomes of its requests, and takes each of them at most once.
\* That it takes them is the fairness under which StopEnds is checked.
THEOREM StopIsBounded ==
    Spec => /\ [](StepsLeft \in 0..(4 * MaxRetries + 6))
            /\ [](StepsLeft = 0 <=> sender.pc = "done")
            /\ [][StopDescends]_vars
<1>1. Timing => /\ StepsLeft \in 0..(4 * MaxRetries + 6)
                /\ StepsLeft = 0 <=> sender.pc = "done"
  BY StepsLeftCounted
<1>2. Timing /\ Next => StopDescends
  <2> SUFFICES ASSUME Timing, Next, stopped
               PROVE  IF RunnerStep THEN StepsLeft' < StepsLeft ELSE StepsLeft' = StepsLeft
    BY DEF StopDescends
  <2>1. CASE RunnerStep
    <3>1. CASE Tick
      BY <3>1 DEF Tick
    <3>2. CASE StopAtTop \/ StopInSleep
      <4>1. sender.pc \in {"top", "pace"} /\ Leave
        BY <3>2 DEF StopAtTop, StopInSleep
      <4> QED BY <2>1, <4>1, LeaveDescends
    <3>3. CASE NextDeadline
      <4>1. CASE Leave
        <5>1. sender.pc \in {"top", "pace"}
          BY <3>3 DEF NextDeadline
        <5> QED BY <2>1, <4>1, <5>1, LeaveDescends
      <4>2. CASE Goto("top")
        BY <2>1, <3>3, <4>2, SettingsAssumption
           DEF NextDeadline, Goto, Timing, TypeOK, Sender, StepsLeft, FlushSteps, Sending
      <4> QED BY <3>3, <4>1, <4>2 DEF NextDeadline
    <3>4. CASE Post
      BY <2>1, <3>4, SettingsAssumption
         DEF Post, Goto, Timing, TypeOK, Sender, StepsLeft, FlushSteps, Sending
    <3>5. CASE ReceiveOk \/ ReceiveRefused \/ ReceiveBusy \/ TransportError
      <4>1. sender.pc = "waiting"
        BY <3>5 DEF Timing, ReceiveOk, ReceiveRefused, ReceiveBusy, TransportError
      <4>2. EndFlush \/ Retry
        BY <3>5 DEF ReceiveOk, ReceiveRefused, ReceiveBusy, TransportError, FlushFails
      <4> QED BY <2>1, <4>1, <4>2, AnswerDescends
    <3> QED BY <2>1, <3>1, <3>2, <3>3, <3>4, <3>5 DEF RunnerStep
  <2>2. CASE ~RunnerStep
    <3>1. PICK q \in wire : RequestStep(q)
      BY <2>2 DEF Next, Signal
    <3>2. \/ sender' = sender
          \/ \E reply \in {"ok", "busy", "refused"} : sender' = [sender EXCEPT !.reply = reply]
      BY <3>1 DEF RequestStep, IngestBatch, IngestFails, RequestLost, Respond
    <3>3. sender' = sender \/ (/\ sender'.pc = sender.pc
                               /\ sender'.attempt = sender.attempt
                               /\ sender'.final = sender.final)
      BY <3>2 DEF Timing, TypeOK, Sender
    <3>4. StepsLeft' = StepsLeft
      BY <3>3 DEF StepsLeft, Sending, FlushSteps
    <3> QED BY <2>2, <3>4
  <2> QED BY <2>1, <2>2
<1> QED BY <1>1, <1>2, TimingHolds, PTL DEF Spec
=============================================================================
