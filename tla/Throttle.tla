------------------------------- MODULE Throttle -------------------------------
(***************************************************************************)
(* The rate limit of the middleware (core/ids.py, main.py): every request  *)
(* is recorded under its address in a sliding window held in memory, then  *)
(* refused when the window holds more than the limit.  The refused request *)
(* has been recorded like any other.  Loopback addresses are recorded and  *)
(* never refused.  A restart of the backend starts with empty windows.     *)
(*                                                                         *)
(* `records` is the deque the code keeps and trims; `log` remembers what    *)
(* happened, so that the limit can be stated without it.                   *)
(***************************************************************************)
EXTENDS Integers, Sequences, FiniteSets, SequencesExt

CONSTANTS
    Addresses,    \* clients
    Exempt,       \* RATE_LIMIT_EXEMPT_IPS
    Limit,        \* RATE_LIMIT_REQUESTS
    Window,       \* minutes a request stays in the window
    LastMinute,   \* bound on the clock
    MaxRequests   \* bound on the requests of one address

ASSUME ThrottleAssumption ==
    /\ Exempt \subseteq Addresses
    /\ Limit \in Nat \ {0}
    /\ Window \in Nat
    /\ LastMinute \in Nat
    /\ MaxRequests \in Nat

VARIABLES
    minute,    \* the clock
    records,   \* rate_window: the minutes of the requests, oldest first
    log        \* each request this process saw: when, and whether it was served

throttleVars == <<minute, records, log>>

ThrottleInit ==
    /\ minute = 0
    /\ records = [a \in Addresses |-> << >>]
    /\ log = [a \in Addresses |-> << >>]

\* Records older than the cutoff leave from the front, up to the first that is
\* not.
Trim(window) ==
    LET recent == {k \in DOMAIN window : minute - window[k] <= Window}
    IN  IF recent = {} THEN << >> ELSE SubSeq(window, Min(recent), Len(window))

RecordAllowed(a) ==
    IF Len(Trim(records[a])) >= Limit THEN Trim(records[a])
                                      ELSE Append(Trim(records[a]), minute)

RecordRequest(a) == Append(Trim(records[a]), minute)

IsRateLimited(a, window) == a \notin Exempt /\ Len(window) > Limit

\* One request passes the middleware: recorded, then served or refused.
Dispatch(a) ==
    /\ Len(log[a]) < MaxRequests
    /\ records' = [records EXCEPT ![a] = RecordRequest(a)]
    /\ log' = [log EXCEPT ![a] =
                 Append(@, [at |-> minute,
                            served |-> ~IsRateLimited(a, RecordRequest(a))])]
    /\ UNCHANGED minute

MinutePasses ==
    /\ minute < LastMinute
    /\ minute' = minute + 1
    /\ UNCHANGED <<records, log>>

\* The window lives in the process.
Restart ==
    /\ records' = [a \in Addresses |-> << >>]
    /\ log' = [a \in Addresses |-> << >>]
    /\ UNCHANGED minute

ThrottleNext ==
    \/ \E a \in Addresses : Dispatch(a)
    \/ MinutePasses
    \/ Restart

ThrottleSpec == ThrottleInit /\ [][ThrottleNext]_throttleVars

-----------------------------------------------------------------------------
(* Properties *)

\* The windows hold minutes of the past in order, each of a request that came.
ThrottleTypeOK ==
    /\ minute \in 0..LastMinute
    /\ \A a \in Addresses :
         /\ IsSorted(records[a], <=)
         /\ ToSet(records[a]) \subseteq {log[a][k].at : k \in DOMAIN log[a]}
         /\ ToSet(records[a]) \subseteq 0..minute
         /\ Len(records[a]) <= Len(log[a])

\* However the requests are spread, no stretch of time as long as the window
\* lets more than Limit requests of one client through (record_request trims
\* from the front of a deque that also holds the refused requests).
NeverOverLimit ==
    \A a \in Addresses \ Exempt : \A first \in 0..minute :
      Cardinality({k \in DOMAIN log[a] :
                     log[a][k].served /\ log[a][k].at \in first..(first + Window)})
        <= Limit

\* A refused client had sent Limit requests before that one within the window:
\* nobody is turned away early, and nobody on the loopback at all.
RefusedAfterLimit ==
    \A a \in Addresses : \A k \in DOMAIN log[a] :
      ~log[a][k].served =>
        /\ a \notin Exempt
        /\ Cardinality({j \in 1..(k - 1) : log[a][j].at >= log[a][k].at - Window})
             >= Limit

\* The limit is neither exceeded nor applied early (is_rate_limited after
\* record_request).
LimitIsExact == NeverOverLimit /\ RefusedAfterLimit
=============================================================================
