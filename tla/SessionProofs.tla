--------------------------- MODULE SessionProofs ---------------------------
(***************************************************************************)
(* Proofs about Session for any number of users, tabs, requests in flight, *)
(* tokens and faults.                                                      *)
(*                                                                         *)
(* What they rest on: /auth/me and the count are only asked for with a     *)
(* token, so that a 401 means that a token has expired, and until one does *)
(* the cookie of the last sign-in is in the jar.                           *)
(***************************************************************************)
EXTENDS Session, TLAPS

\* Asking without any token never happens, only asking leads to a wait, and
\* somebody signs in.
AskedWithToken ==
    \A t \in Tabs : \A c \in Calls :
        /\ call[t][c].kind \in {"me", "count"} => call[t][c].cred # 0
        /\ call[t][c].waiting => call[t][c].kind \in {"me", "count"}
        /\ call[t][c].kind = "login" => call[t][c].user \in Users

\* The cookie lasts as long as its token.
CookieLasts == expired = 0 /\ Len(issued) > 0 => jar # 0

Asking ==
    /\ TypeOK
    /\ AskedWithToken
    /\ CookieLasts

SessionInv ==
    /\ Asking
    /\ WaitersAreRefreshed
    /\ UnknownUserIsAskedFor

-----------------------------------------------------------------------------
(* Facts about the operators *)

LEMMA Requested ==
    ASSUME NEW kind \in {"idle", "login", "me", "count"}, NEW u \in Someone,
           NEW k \in Token
    PROVE  /\ Request(kind, u, k) \in Call
           /\ Request(kind, u, k).kind = kind
           /\ Request(kind, u, k).user = u
           /\ Request(kind, u, k).cred = k
           /\ ~Request(kind, u, k).waiting
BY DEF Request, Call

LEMMA Idling ==
    /\ Idle \in Call
    /\ Idle.kind = "idle"
    /\ Idle.cred = 0
    /\ ~Idle.waiting
<1>1. 0 \in Token /\ NoUser \in Someone
  BY SessionAssumption DEF Token, Someone
<1> QED BY <1>1, Requested DEF Idle

LEMMA Sent ==
    ASSUME TypeOK, NEW t \in Tabs
    PROVE  /\ Credential(t) \in 0..Len(issued)
           /\ Credential(t) \in Token
           /\ token[t] # 0 => Credential(t) # 0
BY SessionAssumption DEF TypeOK, Credential, Token

\* A refused request carried a token that has expired.
LEMMA RefusedHasExpired ==
    ASSUME Asking, NEW t \in Tabs, NEW c \in Calls, call[t][c].waiting,
           Dead(call[t][c].cred)
    PROVE  expired > 0
BY DEF Asking, TypeOK, AskedWithToken, Dead, Call, Token

\* An answered request names a user.
LEMMA Answered ==
    ASSUME TypeOK, NEW t \in Tabs, NEW c \in Calls, ~Dead(call[t][c].cred)
    PROVE  issued[call[t][c].cred] \in Users
<1>1. call[t][c].cred \in 1..Len(issued)
  BY DEF TypeOK, Dead, Call, Token
<1> QED BY <1>1 DEF TypeOK

LEMMA TokenAppended ==
    ASSUME TypeOK, NEW u \in Users, Len(issued) < MaxLogins,
           issued' = Append(issued, u)
    PROVE  /\ issued' \in Seq(Users)
           /\ Len(issued') = Len(issued) + 1
           /\ Len(issued') \in Token
BY SessionAssumption DEF TypeOK, Token

-----------------------------------------------------------------------------
(* Steps that change the requests of one tab *)

\* The requests of tab t become f.
LEMMA CallsChange ==
    ASSUME TypeOK, NEW t \in Tabs, NEW f \in [Calls -> Call],
           call' = [call EXCEPT ![t] = f],
           NEW n \in Nat, n >= Len(issued),
           \A c \in Calls : f[c].cred <= n
    PROVE  /\ call' \in [Tabs -> [Calls -> Call]]
           /\ call'[t] = f
           /\ \A s \in Tabs : s # t => call'[s] = call[s]
           /\ \A s \in Tabs : \A c \in Calls : call'[s][c].cred <= n
<1>1. /\ call' \in [Tabs -> [Calls -> Call]]
      /\ call'[t] = f
      /\ \A s \in Tabs : s # t => call'[s] = call[s]
  BY DEF TypeOK
<1>2. \A s \in Tabs : \A c \in Calls : call'[s][c].cred <= n
  <2> SUFFICES ASSUME NEW s \in Tabs, NEW c \in Calls
               PROVE  call'[s][c].cred <= n
    OBVIOUS
  <2>1. CASE s = t
    BY <1>1, <2>1
  <2>2. CASE s # t
    <3>1. call[s][c].cred \in Nat /\ call[s][c].cred <= Len(issued) /\ Len(issued) \in Nat
      BY DEF TypeOK, Call, Token
    <3> QED BY <1>1, <2>2, <3>1
  <2> QED BY <2>1, <2>2
<1> QED BY <1>1, <1>2

LEMMA OneCallChanges ==
    ASSUME TypeOK, NEW t \in Tabs, NEW c \in Calls, NEW q \in Call,
           call' = [call EXCEPT ![t][c] = q],
           q.cred <= Len(issued)
    PROVE  /\ call' \in [Tabs -> [Calls -> Call]]
           /\ call'[t][c] = q
           /\ \A s \in Tabs : \A d \in Calls :
                s # t \/ d # c => call'[s][d] = call[s][d]
           /\ \A s \in Tabs : \A d \in Calls : call'[s][d].cred <= Len(issued)
<1>1. /\ call' \in [Tabs -> [Calls -> Call]]
      /\ call'[t][c] = q
      /\ \A s \in Tabs : \A d \in Calls :
           s # t \/ d # c => call'[s][d] = call[s][d]
  BY DEF TypeOK
<1> QED BY <1>1 DEF TypeOK

-----------------------------------------------------------------------------
(* The invariant *)

\* Request c of tab t becomes q, which does not wait, and nothing signs in or out.
LEMMA CallStep1 ==
    ASSUME SessionInv, NEW t \in Tabs, NEW c \in Calls, NEW q \in Call,
           call' = [call EXCEPT ![t][c] = q],
           ~q.waiting, ~call[t][c].waiting,
           q.cred <= Len(issued),
           q.kind \in {"me", "count"} => q.cred # 0,
           q.kind = "login" => q.user \in Users,
           UNCHANGED <<backend, jar, token, refreshing>>,
           badge' \in [Tabs -> Someone],
           shown' \in [Tabs -> Someone],
           \A s \in Tabs : shown'[s] = NoUser => shown[s] = NoUser,
           faults' \in 0..MaxFaults, faults' >= faults,
           call[t][c].kind = "me" => faults' > 0 \/ shown'[t] # NoUser
    PROVE  SessionInv'
<1> USE DEF SessionInv, Asking
<1>1. UNCHANGED <<issued, expired>>
  BY DEF backend
<1>2. /\ call' \in [Tabs -> [Calls -> Call]]
      /\ call'[t][c] = q
      /\ \A s \in Tabs : \A d \in Calls :
           s # t \/ d # c => call'[s][d] = call[s][d]
      /\ \A s \in Tabs : \A d \in Calls : call'[s][d].cred <= Len(issued)
  BY OneCallChanges
<1>3. TypeOK'
  BY <1>1, <1>2 DEF TypeOK
<1>4. AskedWithToken'
  BY <1>2 DEF AskedWithToken
<1>5. CookieLasts'
  BY <1>1 DEF CookieLasts
<1>6. WaitersAreRefreshed'
  <2>1. \A s \in Tabs : Waiting(s)' = Waiting(s)
    BY <1>2 DEF Waiting
  <2>2. \A s \in Tabs : \A d \in Waiting(s) : call'[s][d] = call[s][d]
    BY <1>2 DEF Waiting
  <2> QED BY <1>1, <2>1, <2>2 DEF WaitersAreRefreshed, Dead
<1>7. UnknownUserIsAskedFor'
  <2> SUFFICES ASSUME NEW s \in Tabs, token[s] # 0, shown'[s] = NoUser, faults' = 0
               PROVE  \E d \in Calls : call'[s][d].kind = "me"
    BY DEF UnknownUserIsAskedFor
  <2>1. shown[s] = NoUser /\ faults = 0
    BY DEF TypeOK
  <2>2. PICK d \in Calls : call[s][d].kind = "me"
    BY <2>1 DEF UnknownUserIsAskedFor
  <2>3. s # t \/ d # c
    BY <2>2
  <2> QED BY <1>2, <2>2, <2>3
<1> QED BY <1>3, <1>4, <1>5, <1>6, <1>7

LEMMA SubmitStep ==
    ASSUME SessionInv, NEW t \in Tabs, NEW c \in Calls, NEW u \in Users,
           Submit(t, c, u)
    PROVE  SessionInv'
<1> DEFINE q == Request("login", u, Credential(t))
<1>1. TypeOK /\ u \in Someone
  BY DEF SessionInv, Asking, Someone
<1>2. /\ q \in Call /\ q.kind = "login" /\ ~q.waiting /\ q.user = u
      /\ q.cred = Credential(t)
  BY <1>1, Sent, Requested
<1>3. q.cred <= Len(issued)
  BY <1>1, <1>2, Sent DEF TypeOK
<1>4. call' = [call EXCEPT ![t][c] = q] /\ call[t][c] = Idle
  BY DEF Submit
<1>5. UNCHANGED <<backend, jar, token, shown, badge, refreshing, faults>>
  BY DEF Submit, store
<1>6. /\ faults \in 0..MaxFaults /\ faults >= faults
      /\ badge \in [Tabs -> Someone] /\ shown \in [Tabs -> Someone]
  BY <1>1 DEF TypeOK
<1>7. ~call[t][c].waiting /\ call[t][c].kind # "me"
  BY <1>4, Idling
<1> HIDE DEF q
<1> QED BY <1>1, <1>2, <1>3, <1>4, <1>5, <1>6, <1>7, CallStep1

LEMMA PollStep ==
    ASSUME SessionInv, NEW t \in Tabs, NEW c \in Calls, Poll(t, c)
    PROVE  SessionInv'
<1> DEFINE q == Request("count", NoUser, Credential(t))
<1>1. TypeOK /\ NoUser \in Someone
  BY DEF SessionInv, Asking, Someone
<1>2. /\ q \in Call /\ q.kind = "count" /\ ~q.waiting
      /\ q.cred = Credential(t)
  BY <1>1, Sent, Requested
<1>3. q.cred <= Len(issued) /\ q.cred # 0
  BY <1>1, <1>2, Sent DEF TypeOK, Poll
<1>4. call' = [call EXCEPT ![t][c] = q] /\ call[t][c] = Idle
  BY DEF Poll
<1>5. UNCHANGED <<backend, jar, token, shown, badge, refreshing, faults>>
  BY DEF Poll, store
<1>6. /\ faults \in 0..MaxFaults /\ faults >= faults
      /\ badge \in [Tabs -> Someone] /\ shown \in [Tabs -> Someone]
  BY <1>1 DEF TypeOK
<1>7. ~call[t][c].waiting /\ call[t][c].kind # "me"
  BY <1>4, Idling
<1> HIDE DEF q
<1> QED BY <1>1, <1>2, <1>3, <1>4, <1>5, <1>6, <1>7, CallStep1

\* A request that ends.
LEMMA FinishStep ==
    ASSUME SessionInv, NEW t \in Tabs, NEW c \in Calls, Finish(t, c),
           ~call[t][c].waiting,
           UNCHANGED <<backend, jar, token, refreshing>>,
           badge' \in [Tabs -> Someone],
           shown' \in [Tabs -> Someone],
           \A s \in Tabs : shown'[s] = NoUser => shown[s] = NoUser,
           faults' \in 0..MaxFaults, faults' >= faults,
           call[t][c].kind = "me" => faults' > 0 \/ shown'[t] # NoUser
    PROVE  SessionInv'
<1>1. Idle.cred <= Len(issued)
  BY Idling DEF SessionInv, Asking, TypeOK
<1>2. call' = [call EXCEPT ![t][c] = Idle]
  BY DEF Finish
<1> QED BY <1>1, <1>2, Idling, CallStep1

LEMMA LoginRefusedStep ==
    ASSUME SessionInv, NEW t \in Tabs, NEW c \in Calls, LoginRefused(t, c)
    PROVE  SessionInv'
<1>1. /\ Finish(t, c) /\ ~call[t][c].waiting /\ call[t][c].kind = "login"
      /\ UNCHANGED <<backend, jar, token, shown, badge, refreshing, faults>>
  BY DEF LoginRefused, In, store
<1>2. /\ badge \in [Tabs -> Someone] /\ shown \in [Tabs -> Someone]
      /\ faults \in 0..MaxFaults /\ faults >= faults
  BY DEF SessionInv, Asking, TypeOK
<1> QED BY <1>1, <1>2, FinishStep

LEMMA MeStep ==
    ASSUME SessionInv, NEW t \in Tabs, NEW c \in Calls, Me(t, c)
    PROVE  SessionInv'
<1> DEFINE u == issued[call[t][c].cred]
<1>1. /\ Finish(t, c) /\ ~call[t][c].waiting
      /\ UNCHANGED <<backend, jar, token, badge, refreshing, faults>>
      /\ shown' = [shown EXCEPT ![t] = u]
  BY DEF Me, In
<1>2. u \in Users
  BY Answered DEF Me, SessionInv, Asking
<1> HIDE DEF u
<1>3. /\ badge \in [Tabs -> Someone] /\ shown \in [Tabs -> Someone]
      /\ faults \in 0..MaxFaults /\ faults >= faults
  BY DEF SessionInv, Asking, TypeOK
<1>4. /\ shown' \in [Tabs -> Someone]
      /\ shown'[t] # NoUser
      /\ \A s \in Tabs : shown'[s] = NoUser => shown[s] = NoUser
  BY <1>1, <1>2, <1>3, SessionAssumption DEF Someone
<1> QED BY <1>1, <1>3, <1>4, FinishStep

LEMMA CountedStep ==
    ASSUME SessionInv, NEW t \in Tabs, NEW c \in Calls, Counted(t, c)
    PROVE  SessionInv'
<1> DEFINE u == issued[call[t][c].cred]
<1>1. /\ Finish(t, c) /\ ~call[t][c].waiting /\ call[t][c].kind = "count"
      /\ UNCHANGED <<backend, jar, token, shown, refreshing, faults>>
      /\ badge' = [badge EXCEPT ![t] = u]
  BY DEF Counted, In
<1>2. u \in Users
  BY Answered DEF Counted, SessionInv, Asking
<1> HIDE DEF u
<1>3. /\ badge \in [Tabs -> Someone] /\ shown \in [Tabs -> Someone]
      /\ faults \in 0..MaxFaults /\ faults >= faults
  BY DEF SessionInv, Asking, TypeOK
<1>4. badge' \in [Tabs -> Someone]
  BY <1>1, <1>2, <1>3 DEF Someone
<1> QED BY <1>1, <1>3, <1>4, FinishStep

LEMMA LostStep ==
    ASSUME SessionInv, NEW t \in Tabs, NEW c \in Calls, Lost(t, c)
    PROVE  SessionInv'
<1>1. /\ Finish(t, c) /\ ~call[t][c].waiting
      /\ UNCHANGED <<backend, jar, token, shown, badge, refreshing>>
      /\ faults < MaxFaults /\ faults' = faults + 1
  BY DEF Lost, store
<1>2. badge \in [Tabs -> Someone] /\ shown \in [Tabs -> Someone]
  BY DEF SessionInv, Asking, TypeOK
<1>3. faults' \in 0..MaxFaults /\ faults' >= faults /\ faults' > 0
  BY <1>1, SessionAssumption DEF SessionInv, Asking, TypeOK
<1> QED BY <1>1, <1>2, <1>3, FinishStep

LEMMA UnauthorizedStep ==
    ASSUME SessionInv, NEW t \in Tabs, NEW c \in Calls, Unauthorized(t, c)
    PROVE  SessionInv'
<1> USE DEF SessionInv, Asking
<1> DEFINE q == [call[t][c] EXCEPT !.waiting = TRUE]
<1>1. /\ call' = [call EXCEPT ![t][c] = q]
      /\ refreshing' = [refreshing EXCEPT ![t] = TRUE]
      /\ UNCHANGED <<issued, expired, jar, token, shown, badge, faults>>
      /\ call[t][c].kind \in {"me", "count"}
      /\ Dead(call[t][c].cred)
  BY DEF Unauthorized, backend, store, TypeOK, Call
<1>2. /\ q \in Call /\ q.kind = call[t][c].kind /\ q.cred = call[t][c].cred
      /\ q.waiting /\ q.user = call[t][c].user /\ q.cred <= Len(issued)
  <2>1. call[t][c] \in Call /\ call[t][c].cred <= Len(issued)
    BY DEF TypeOK
  <2> QED BY <2>1 DEF Call
<1> HIDE DEF q
<1>3. /\ call' \in [Tabs -> [Calls -> Call]]
      /\ call'[t][c] = q
      /\ \A s \in Tabs : \A d \in Calls :
           s # t \/ d # c => call'[s][d] = call[s][d]
      /\ \A s \in Tabs : \A d \in Calls : call'[s][d].cred <= Len(issued)
  BY <1>1, <1>2, OneCallChanges
<1>4. TypeOK'
  BY <1>1, <1>3 DEF TypeOK
<1>5. AskedWithToken'
  BY <1>1, <1>2, <1>3 DEF AskedWithToken
<1>6. CookieLasts'
  BY <1>1 DEF CookieLasts
<1>7. WaitersAreRefreshed'
  <2>1. Waiting(t)' = Waiting(t) \cup {c}
    BY <1>2, <1>3 DEF Waiting
  <2>2. \A s \in Tabs : s # t => Waiting(s)' = Waiting(s)
    BY <1>3 DEF Waiting
  <2>3. \A s \in Tabs : \A d \in Calls : call'[s][d].cred = call[s][d].cred
    BY <1>2, <1>3
  <2>4. refreshing'[t] /\ \A s \in Tabs : s # t => refreshing'[s] = refreshing[s]
    BY <1>1 DEF TypeOK
  <2>5. \A s \in Tabs : refreshing'[s] <=> Waiting(s)' # {}
    BY <2>1, <2>2, <2>4 DEF WaitersAreRefreshed
  <2>6. \A s \in Tabs : \A d \in Waiting(s)' : Dead(call[s][d].cred)
    BY <1>1, <2>1, <2>2 DEF WaitersAreRefreshed
  <2>7. \A s \in Tabs : \A d \in Waiting(s)' : d \in Calls
    BY <2>1, <2>2 DEF Waiting
  <2> QED BY <1>1, <2>3, <2>5, <2>6, <2>7 DEF WaitersAreRefreshed, Dead
<1>8. UnknownUserIsAskedFor'
  <2>1. \A s \in Tabs : \A d \in Calls : call'[s][d].kind = call[s][d].kind
    BY <1>2, <1>3
  <2> QED BY <1>1, <2>1 DEF UnknownUserIsAskedFor
<1> QED BY <1>4, <1>5, <1>6, <1>7, <1>8

\* The requests of tab t become f, none of which waits, the session of no other
\* tab changes, and t shows nobody only if it has asked.
LEMMA TabStarts ==
    ASSUME SessionInv, NEW t \in Tabs, NEW f \in [Calls -> Call],
           call' = [call EXCEPT ![t] = f],
           issued' \in Seq(Users), Len(issued') \in Nat,
           Len(issued') >= Len(issued), Len(issued') <= MaxLogins,
           expired' = expired,
           jar' \in 0..Len(issued'),
           expired = 0 /\ Len(issued') > 0 => jar' # 0,
           NEW k \in 0..Len(issued'), token' = [token EXCEPT ![t] = k],
           NEW u \in Someone, shown' = [shown EXCEPT ![t] = u],
           badge' \in [Tabs -> Someone],
           refreshing' \in [Tabs -> BOOLEAN],
           refreshing'[t] <=> \E c \in Calls : f[c].waiting,
           \A s \in Tabs : s # t => refreshing'[s] = refreshing[s],
           faults' \in 0..MaxFaults, faults' >= faults,
           \A c \in Calls :
             /\ f[c].cred <= Len(issued')
             /\ f[c].kind \in {"me", "count"} => f[c].cred # 0
             /\ f[c].waiting => f[c] = call[t][c]
             /\ f[c].kind = "login" => f[c].user \in Users,
           k # 0 /\ u = NoUser /\ faults' = 0 => \E c \in Calls : f[c].kind = "me"
    PROVE  SessionInv'
<1> USE DEF SessionInv, Asking
<1>1. /\ call' \in [Tabs -> [Calls -> Call]]
      /\ call'[t] = f
      /\ \A s \in Tabs : s # t => call'[s] = call[s]
      /\ \A s \in Tabs : \A c \in Calls : call'[s][c].cred <= Len(issued')
  BY CallsChange
<1>2. Len(issued) \in Nat /\ expired \in 0..Len(issued) /\ faults \in 0..MaxFaults
  BY DEF TypeOK
<1>3. TypeOK'
  <2>1. token' \in [Tabs -> 0..Len(issued')]
    <3>1. token \in [Tabs -> 0..Len(issued)]
      BY DEF TypeOK
    <3>2. 0..Len(issued) \subseteq 0..Len(issued')
      BY <1>2
    <3> QED BY <3>1, <3>2
  <2>2. shown' \in [Tabs -> Someone]
    BY DEF TypeOK
  <2>3. expired' \in 0..Len(issued')
    BY <1>2
  <2> QED BY <1>1, <1>2, <2>1, <2>2, <2>3 DEF TypeOK
<1>4. AskedWithToken'
  BY <1>1 DEF AskedWithToken
<1>5. CookieLasts'
  BY DEF CookieLasts
<1>6. WaitersAreRefreshed'
  <2>1. \A s \in Tabs : s # t => Waiting(s)' = Waiting(s)
    BY <1>1 DEF Waiting
  <2>2. Waiting(t)' = {c \in Calls : f[c].waiting}
    BY <1>1 DEF Waiting
  <2>3. \A s \in Tabs : refreshing'[s] <=> Waiting(s)' # {}
    BY <2>1, <2>2 DEF WaitersAreRefreshed
  <2>4. \A c \in Waiting(t)' : c \in Waiting(t) /\ call'[t][c] = call[t][c]
    BY <1>1, <2>2 DEF Waiting
  <2>5. \A s \in Tabs : \A c \in Waiting(s)' : c \in Waiting(s) /\ call'[s][c] = call[s][c]
    BY <1>1, <2>1, <2>4
  <2> QED BY <2>3, <2>5 DEF WaitersAreRefreshed, Dead
<1>7. UnknownUserIsAskedFor'
  <2> SUFFICES ASSUME NEW s \in Tabs, token'[s] # 0, shown'[s] = NoUser, faults' = 0
               PROVE  \E d \in Calls : call'[s][d].kind = "me"
    BY DEF UnknownUserIsAskedFor
  <2>1. CASE s = t
    <3>1. token'[t] = k /\ shown'[t] = u
      BY DEF TypeOK
    <3> QED BY <1>1, <2>1, <3>1
  <2>2. CASE s # t
    <3>1. token'[s] = token[s] /\ shown'[s] = shown[s]
      BY <2>2 DEF TypeOK
    <3> QED BY <1>1, <1>2, <2>2, <3>1 DEF UnknownUserIsAskedFor
  <2> QED BY <2>1, <2>2
<1> QED BY <1>3, <1>4, <1>5, <1>6, <1>7

LEMMA SignedInStep ==
    ASSUME SessionInv, NEW t \in Tabs, NEW c \in Calls, NEW d \in Calls,
           SignedIn(t, c, d)
    PROVE  SessionInv'
<1> DEFINE new == Len(issued) + 1
           me == Request("me", NoUser, new)
           f == [e \in Calls |->
                   IF e = c \/ (e = d /\ shown[t] = NoUser) THEN me ELSE call[t][e]]
<1>1. TypeOK /\ AskedWithToken /\ CookieLasts /\ WaitersAreRefreshed
  BY DEF SessionInv, Asking
<1>2. /\ call[t] \in [Calls -> Call]
      /\ \A e \in Calls : call[t][e].cred <= Len(issued)
      /\ Len(issued) \in Nat /\ faults \in 0..MaxFaults
      /\ shown \in [Tabs -> Someone] /\ badge \in [Tabs -> Someone]
      /\ refreshing \in [Tabs -> BOOLEAN] /\ token \in [Tabs -> 0..Len(issued)]
  BY <1>1 DEF TypeOK
<1>3. /\ c # d /\ ~call[t][c].waiting /\ call[t][c].kind = "login"
      /\ shown[t] = NoUser => call[t][d] = Idle
      /\ new <= MaxLogins
      /\ issued' = Append(issued, call[t][c].user)
      /\ jar' = new
      /\ token' = [token EXCEPT ![t] = new]
      /\ UNCHANGED <<expired, shown, badge, refreshing, faults>>
  BY DEF SignedIn, In
<1>4. call' = [call EXCEPT ![t] = f]
  BY DEF SignedIn
<1>5. issued' \in Seq(Users) /\ Len(issued') = new /\ new \in Token
  BY <1>1, <1>2, <1>3, TokenAppended, SessionAssumption DEF AskedWithToken
<1>6. NoUser \in Someone /\ shown[t] \in Someone
  BY <1>2 DEF Someone
<1>7. me \in Call /\ me.kind = "me" /\ me.cred = new /\ ~me.waiting
  BY <1>5, <1>6, Requested
<1> HIDE DEF me
<1>8. /\ f \in [Calls -> Call]
      /\ f[c] = me
      /\ \A e \in Calls : f[e] = me \/ f[e] = call[t][e]
      /\ \A e \in Calls : e # c /\ call[t][e].waiting => f[e] = call[t][e]
  BY <1>2, <1>3, <1>7, Idling
<1> HIDE DEF f, new
<1>9. \A e \in Calls : f[e].waiting <=> call[t][e].waiting
  BY <1>3, <1>7, <1>8
<1>10. refreshing[t] <=> \E e \in Calls : f[e].waiting
  BY <1>1, <1>9 DEF WaitersAreRefreshed, Waiting
<1>11. /\ new >= Len(issued) /\ new # 0 /\ new \in 0..Len(issued')
  BY <1>2, <1>5 DEF new
<1>12. \A e \in Calls :
         /\ f[e].cred <= Len(issued')
         /\ f[e].kind \in {"me", "count"} => f[e].cred # 0
         /\ f[e].waiting => f[e] = call[t][e]
         /\ f[e].kind = "login" => f[e].user \in Users
  <2> SUFFICES ASSUME NEW e \in Calls
               PROVE  /\ f[e].cred <= Len(issued')
                      /\ f[e].kind \in {"me", "count"} => f[e].cred # 0
                      /\ f[e].waiting => f[e] = call[t][e]
                      /\ f[e].kind = "login" => f[e].user \in Users
    OBVIOUS
  <2>1. CASE f[e] = me
    BY <1>5, <1>7, <1>11, <2>1 DEF Token
  <2>2. CASE f[e] = call[t][e]
    <3>1. call[t][e].cred \in Nat
      BY <1>2 DEF Call, Token
    <3> QED BY <1>1, <1>2, <1>5, <1>11, <2>2, <3>1 DEF AskedWithToken, Token
  <2> QED BY <1>8, <2>1, <2>2
<1>13. /\ jar' \in 0..Len(issued') /\ jar' # 0
       /\ Len(issued') \in Nat /\ Len(issued') >= Len(issued)
       /\ Len(issued') <= MaxLogins
  BY <1>2, <1>3, <1>5, <1>11
<1>14. /\ shown' = [shown EXCEPT ![t] = shown[t]]
       /\ badge' \in [Tabs -> Someone] /\ refreshing' \in [Tabs -> BOOLEAN]
       /\ \A s \in Tabs : s # t => refreshing'[s] = refreshing[s]
       /\ refreshing'[t] <=> \E e \in Calls : f[e].waiting
       /\ faults' \in 0..MaxFaults /\ faults' >= faults
  BY <1>2, <1>3, <1>10
<1>15. \E e \in Calls : f[e].kind = "me"
  BY <1>7, <1>8
<1>16. /\ token' = [token EXCEPT ![t] = new] /\ expired' = expired
       /\ expired = 0 /\ Len(issued') > 0 => jar' # 0
       /\ new # 0 /\ shown[t] = NoUser /\ faults' = 0 => \E e \in Calls : f[e].kind = "me"
  BY <1>3, <1>13, <1>15
<1> QED BY <1>4, <1>5, <1>6, <1>8, <1>11, <1>12, <1>13, <1>14, <1>16, TabStarts

\* Tab t signs out; its requests go on.
LEMMA ClearStep ==
    ASSUME SessionInv, NEW t \in Tabs, Clear(t)
    PROVE  SessionInv'
<1> USE DEF SessionInv, Asking
<1>1. /\ token' = [token EXCEPT ![t] = 0]
      /\ shown' = [shown EXCEPT ![t] = NoUser]
      /\ UNCHANGED <<issued, expired, jar, badge, call, refreshing, faults>>
  BY DEF Clear, backend
<1>2. TypeOK'
  BY <1>1 DEF TypeOK, Someone
<1>3. AskedWithToken' /\ CookieLasts' /\ WaitersAreRefreshed'
  BY <1>1 DEF AskedWithToken, CookieLasts, WaitersAreRefreshed, Waiting, Dead
<1>4. UnknownUserIsAskedFor'
  BY <1>1 DEF UnknownUserIsAskedFor, TypeOK
<1> QED BY <1>2, <1>3, <1>4

LEMMA WaitersLeave ==
    ASSUME SessionInv, NEW t \in Tabs, EndWaiting(t)
    PROVE  /\ call' \in [Tabs -> [Calls -> Call]]
           /\ Waiting(t)' = {}
           /\ \A s \in Tabs : \A c \in Calls :
                /\ call'[s][c] = call[s][c] \/ call'[s][c] = Idle
                /\ s # t => call'[s][c] = call[s][c]
<1> DEFINE f == [c \in Calls |-> IF call[t][c].waiting THEN Idle ELSE call[t][c]]
<1>1. call \in [Tabs -> [Calls -> Call]]
  BY DEF SessionInv, Asking, TypeOK
<1>2. call' = [call EXCEPT ![t] = f]
  BY DEF EndWaiting
<1>3. /\ f \in [Calls -> Call]
      /\ \A c \in Calls : ~f[c].waiting
      /\ \A c \in Calls : f[c] = call[t][c] \/ f[c] = Idle
  BY <1>1, Idling
<1> HIDE DEF f
<1>4. call'[t] = f /\ \A s \in Tabs : s # t => call'[s] = call[s]
  BY <1>1, <1>2
<1> QED BY <1>1, <1>2, <1>3, <1>4 DEF Waiting

\* The refresh of tab t is over.
LEMMA RefreshEnds ==
    ASSUME SessionInv, NEW t \in Tabs, EndWaiting(t),
           refreshing' = [refreshing EXCEPT ![t] = FALSE],
           UNCHANGED <<issued, expired, jar>>,
           token' \in [Tabs -> 0..Len(issued)],
           shown' \in [Tabs -> Someone], badge' \in [Tabs -> Someone],
           faults' \in 0..MaxFaults,
           \A s \in Tabs : token'[s] # 0 /\ shown'[s] = NoUser /\ faults' = 0 =>
               s # t /\ token[s] # 0 /\ shown[s] = NoUser /\ faults = 0
    PROVE  SessionInv'
<1> USE DEF SessionInv, Asking
<1>1. /\ call' \in [Tabs -> [Calls -> Call]]
      /\ Waiting(t)' = {}
      /\ \A s \in Tabs : \A c \in Calls :
           /\ call'[s][c] = call[s][c] \/ call'[s][c] = Idle
           /\ s # t => call'[s][c] = call[s][c]
  BY WaitersLeave
<1>2. TypeOK'
  <2>1. \A s \in Tabs : \A c \in Calls : call'[s][c].cred <= Len(issued)
    BY <1>1, Idling DEF TypeOK
  <2> QED BY <1>1, <2>1 DEF TypeOK
<1>3. AskedWithToken'
  BY <1>1, Idling DEF AskedWithToken
<1>4. CookieLasts'
  BY DEF CookieLasts
<1>5. WaitersAreRefreshed'
  <2>1. \A s \in Tabs : s # t => Waiting(s)' = Waiting(s)
    BY <1>1 DEF Waiting
  <2>2. ~refreshing'[t] /\ \A s \in Tabs : s # t => refreshing'[s] = refreshing[s]
    BY DEF TypeOK
  <2>3. \A s \in Tabs : refreshing'[s] <=> Waiting(s)' # {}
    BY <1>1, <2>1, <2>2 DEF WaitersAreRefreshed
  <2>4. \A s \in Tabs : \A c \in Waiting(s)' :
          c \in Waiting(s) /\ call'[s][c] = call[s][c]
    BY <1>1, <2>1 DEF Waiting
  <2> QED BY <2>3, <2>4 DEF WaitersAreRefreshed, Dead
<1>6. UnknownUserIsAskedFor'
  BY <1>1 DEF UnknownUserIsAskedFor
<1> QED BY <1>2, <1>3, <1>4, <1>5, <1>6

LEMMA RefreshFailsStep ==
    ASSUME SessionInv, NEW t \in Tabs, RefreshFails(t)
    PROVE  SessionInv'
<1>1. TypeOK
  BY DEF SessionInv, Asking
<1>2. /\ token' = [token EXCEPT ![t] = 0]
      /\ shown' = [shown EXCEPT ![t] = NoUser]
      /\ refreshing' = [refreshing EXCEPT ![t] = FALSE]
      /\ EndWaiting(t)
      /\ UNCHANGED <<issued, expired, jar, badge, faults>>
  BY DEF RefreshFails, backend
<1>3. /\ token' \in [Tabs -> 0..Len(issued)]
      /\ shown' \in [Tabs -> Someone] /\ badge' \in [Tabs -> Someone]
      /\ faults' \in 0..MaxFaults
  BY <1>1, <1>2 DEF TypeOK, Someone
<1>4. \A s \in Tabs : token'[s] # 0 /\ shown'[s] = NoUser /\ faults' = 0 =>
          s # t /\ token[s] # 0 /\ shown[s] = NoUser /\ faults = 0
  BY <1>1, <1>2 DEF TypeOK
<1> QED BY <1>2, <1>3, <1>4, RefreshEnds

LEMMA RefreshLostStep ==
    ASSUME SessionInv, NEW t \in Tabs, RefreshLost(t)
    PROVE  SessionInv'
<1>1. TypeOK
  BY DEF SessionInv, Asking
<1>2. /\ faults < MaxFaults /\ faults' = faults + 1
      /\ refreshing' = [refreshing EXCEPT ![t] = FALSE]
      /\ EndWaiting(t)
      /\ UNCHANGED <<issued, expired, jar, token, shown, badge>>
  BY DEF RefreshLost, backend, store
<1>3. /\ token' \in [Tabs -> 0..Len(issued)]
      /\ shown' \in [Tabs -> Someone] /\ badge' \in [Tabs -> Someone]
  BY <1>1, <1>2 DEF TypeOK
<1>4. faults' \in 0..MaxFaults /\ faults' # 0
  BY <1>1, <1>2, SessionAssumption DEF TypeOK
<1> QED BY <1>2, <1>3, <1>4, RefreshEnds

LEMMA LoadStep ==
    ASSUME SessionInv, NEW t \in Tabs, NEW c \in Calls, Load(t, c)
    PROVE  SessionInv'
<1> DEFINE me == Request("me", NoUser, jar)
           f == [d \in Calls |-> IF d = c /\ jar # 0 THEN me ELSE Idle]
<1>1. TypeOK /\ CookieLasts
  BY DEF SessionInv, Asking
<1>2. /\ token' = [token EXCEPT ![t] = jar]
      /\ shown' = [shown EXCEPT ![t] = NoUser]
      /\ badge' = [badge EXCEPT ![t] = NoUser]
      /\ refreshing' = [refreshing EXCEPT ![t] = FALSE]
      /\ UNCHANGED <<issued, expired, jar, faults>>
  BY DEF Load, backend
<1>3. call' = [call EXCEPT ![t] = f]
  BY DEF Load
<1>4. /\ issued \in Seq(Users) /\ Len(issued) \in Nat /\ Len(issued) <= MaxLogins
      /\ jar \in 0..Len(issued) /\ faults \in 0..MaxFaults /\ faults >= faults
      /\ badge \in [Tabs -> Someone] /\ refreshing \in [Tabs -> BOOLEAN]
      /\ NoUser \in Someone
  BY <1>1 DEF TypeOK, Someone
<1>5. jar \in Token
  BY <1>4, SessionAssumption DEF Token
<1>6. me \in Call /\ me.kind = "me" /\ me.cred = jar /\ ~me.waiting
  BY <1>4, <1>5, Requested
<1> HIDE DEF me
<1>7. /\ f \in [Calls -> Call]
      /\ \A d \in Calls : f[d] = Idle \/ (jar # 0 /\ f[d] = me)
      /\ jar # 0 => f[c] = me
  BY <1>6, Idling
<1> HIDE DEF f
<1>8. \A d \in Calls :
         /\ f[d].cred <= Len(issued')
         /\ f[d].kind \in {"me", "count"} => f[d].cred # 0
         /\ f[d].waiting => f[d] = call[t][d]
         /\ f[d].kind = "login" => f[d].user \in Users
  BY <1>2, <1>4, <1>6, <1>7, Idling
<1>9. jar # 0 /\ NoUser = NoUser /\ faults' = 0 => \E d \in Calls : f[d].kind = "me"
  BY <1>6, <1>7
<1>10. /\ \A d \in Calls : ~f[d].waiting
       /\ ~refreshing'[t]
       /\ badge' \in [Tabs -> Someone] /\ refreshing' \in [Tabs -> BOOLEAN]
       /\ \A s \in Tabs : s # t => refreshing'[s] = refreshing[s]
  BY <1>2, <1>4, <1>6, <1>7, Idling
<1>11. /\ issued' \in Seq(Users) /\ Len(issued') \in Nat /\ expired' = expired
       /\ Len(issued') >= Len(issued) /\ Len(issued') <= MaxLogins
       /\ jar' \in 0..Len(issued') /\ jar \in 0..Len(issued')
       /\ faults' \in 0..MaxFaults /\ faults' >= faults
       /\ expired = 0 /\ Len(issued') > 0 => jar' # 0
       /\ refreshing'[t] <=> \E d \in Calls : f[d].waiting
  BY <1>1, <1>2, <1>4, <1>10 DEF CookieLasts
<1> QED BY <1>2, <1>3, <1>4, <1>7, <1>8, <1>9, <1>10, <1>11, TabStarts

LEMMA SignedInElsewhereStep ==
    ASSUME SessionInv, NEW u \in Users, SignedInElsewhere(u)
    PROVE  SessionInv'
<1> USE DEF SessionInv, Asking
<1>1. /\ Len(issued) < MaxLogins /\ issued' = Append(issued, u)
      /\ jar' = Len(issued')
      /\ UNCHANGED <<expired, token, shown, badge, call, refreshing, faults>>
  BY DEF SignedInElsewhere, store
<1>2. /\ issued' \in Seq(Users) /\ Len(issued') = Len(issued) + 1
      /\ Len(issued) \in Nat /\ MaxLogins \in Nat
  BY <1>1, TokenAppended, SessionAssumption DEF TypeOK
<1>3. TypeOK'
  <2>1. token' \in [Tabs -> 0..Len(issued')]
    <3>1. 0..Len(issued) \subseteq 0..Len(issued')
      BY <1>2
    <3> QED BY <1>1, <3>1 DEF TypeOK
  <2>2. \A t \in Tabs : \A c \in Calls : call'[t][c].cred <= Len(issued')
    <3>1. \A t \in Tabs : \A c \in Calls :
            call[t][c].cred \in Nat /\ call[t][c].cred <= Len(issued)
      BY DEF TypeOK, Call, Token
    <3> QED BY <1>1, <1>2, <3>1
  <2>3. expired' \in 0..Len(issued') /\ jar' \in 0..Len(issued') /\ Len(issued') <= MaxLogins
    BY <1>1, <1>2 DEF TypeOK
  <2> QED BY <1>1, <1>2, <2>1, <2>2, <2>3 DEF TypeOK
<1>4. AskedWithToken' /\ WaitersAreRefreshed' /\ UnknownUserIsAskedFor'
  BY <1>1 DEF AskedWithToken, WaitersAreRefreshed, Waiting, Dead, UnknownUserIsAskedFor
<1>5. CookieLasts'
  BY <1>1, <1>2 DEF CookieLasts
<1> QED BY <1>3, <1>4, <1>5

LEMMA ExpireStep ==
    ASSUME SessionInv, Expire
    PROVE  SessionInv'
<1> USE DEF SessionInv, Asking
<1>1. /\ expired < Len(issued) /\ expired' = expired + 1
      /\ jar' = IF jar <= expired' THEN 0 ELSE jar
      /\ UNCHANGED <<issued, token, shown, badge, call, refreshing, faults>>
  BY DEF Expire, store
<1>2. expired \in 0..Len(issued) /\ Len(issued) \in Nat
  BY DEF TypeOK
<1>3. TypeOK'
  BY <1>1, <1>2 DEF TypeOK
<1>4. AskedWithToken' /\ UnknownUserIsAskedFor'
  BY <1>1 DEF AskedWithToken, UnknownUserIsAskedFor
<1>5. CookieLasts'
  BY <1>1, <1>2 DEF CookieLasts
<1>6. WaitersAreRefreshed'
  <2>1. \A t \in Tabs : Waiting(t)' = Waiting(t)
    BY <1>1 DEF Waiting
  <2>2. \A t \in Tabs : \A c \in Waiting(t) : call[t][c].cred \in Nat
    BY DEF TypeOK, Call, Token, Waiting
  <2> QED BY <1>1, <1>2, <2>1, <2>2 DEF WaitersAreRefreshed, Dead
<1> QED BY <1>3, <1>4, <1>5, <1>6

LEMMA InitHolds == Init => SessionInv
<1> SUFFICES ASSUME Init PROVE SessionInv
  OBVIOUS
<1>1. TypeOK
  BY Idling, SessionAssumption DEF Init, TypeOK, Someone
<1>2. AskedWithToken /\ CookieLasts
  BY Idling DEF Init, AskedWithToken, CookieLasts
<1>3. WaitersAreRefreshed /\ UnknownUserIsAskedFor
  BY Idling DEF Init, WaitersAreRefreshed, Waiting, UnknownUserIsAskedFor
<1> QED BY <1>1, <1>2, <1>3 DEF SessionInv, Asking

LEMMA StutterHolds == SessionInv /\ UNCHANGED vars => SessionInv'
<1> SUFFICES ASSUME SessionInv, UNCHANGED vars PROVE SessionInv'
  OBVIOUS
<1>1. TypeOK'
  BY DEF SessionInv, Asking, TypeOK, vars
<1>2. AskedWithToken' /\ CookieLasts'
  BY DEF SessionInv, Asking, AskedWithToken, CookieLasts, vars
<1>3. WaitersAreRefreshed' /\ UnknownUserIsAskedFor'
  BY DEF SessionInv, Asking, WaitersAreRefreshed, Waiting, Dead, UnknownUserIsAskedFor, vars
<1> QED BY <1>1, <1>2, <1>3 DEF SessionInv, Asking

LEMMA TabStepHolds ==
    ASSUME SessionInv, NEW t \in Tabs, TabStep(t)
    PROVE  SessionInv'
<1>1. ASSUME NEW c \in Calls, CallStep(t, c) PROVE SessionInv'
  BY <1>1, SubmitStep, PollStep, LostStep, LoadStep, SignedInStep, LoginRefusedStep,
     MeStep, CountedStep, UnauthorizedStep DEF CallStep, Answer
<1> QED BY <1>1, RefreshFailsStep, RefreshLostStep, ClearStep DEF TabStep

LEMMA NextHolds == SessionInv /\ [Next]_vars => SessionInv'
BY TabStepHolds, SignedInElsewhereStep, ExpireStep, StutterHolds DEF Next

\* The inductive invariant.
THEOREM SessionHolds == Spec => []SessionInv
BY InitHolds, NextHolds, PTL DEF Spec

\* Type correctness.
THEOREM SessionTypes == Spec => []TypeOK
<1>1. SessionInv => TypeOK
  BY DEF SessionInv, Asking
<1> QED BY <1>1, SessionHolds, PTL

\* A refused request waits for a refresh that is under way, and only a token that
\* has expired starts one.
THEOREM Refreshed == Spec => []WaitersAreRefreshed
<1>1. SessionInv => WaitersAreRefreshed
  BY DEF SessionInv
<1> QED BY <1>1, SessionHolds, PTL

\* A tab that does not know who has signed in has asked.
THEOREM AskedWho == Spec => []UnknownUserIsAskedFor
<1>1. SessionInv => UnknownUserIsAskedFor
  BY DEF SessionInv
<1> QED BY <1>1, SessionHolds, PTL

-----------------------------------------------------------------------------
(* What a step may never do *)

\* Before the first expiry no refresh is under way and the jar has the cookie of
\* every tab's session, so that only signing out takes one away.
LEMMA StepSignsOut ==
    ASSUME SessionInv, [Next]_vars, NEW t \in Tabs,
           token[t] # 0, token'[t] = 0, expired = 0
    PROVE  Clear(t)
<1>1. TypeOK /\ CookieLasts /\ WaitersAreRefreshed /\ Asking
  BY DEF SessionInv, Asking
<1>2. token \in [Tabs -> 0..Len(issued)] /\ Len(issued) \in Nat
  BY <1>1 DEF TypeOK
<1>3. jar # 0
  BY <1>1, <1>2 DEF CookieLasts
<1>4. \A s \in Tabs : ~refreshing[s]
  <2> SUFFICES ASSUME NEW s \in Tabs, refreshing[s] PROVE FALSE
    OBVIOUS
  <2>1. PICK c \in Calls : call[s][c].waiting /\ Dead(call[s][c].cred)
    BY <1>1 DEF WaitersAreRefreshed, Waiting
  <2> QED BY <1>1, <2>1, RefusedHasExpired DEF TypeOK
<1>5. ASSUME NEW s \in Tabs, TabStep(s) PROVE Clear(t)
  <2>1. ASSUME NEW c \in Calls, CallStep(s, c) PROVE FALSE
    <3>1. ASSUME UNCHANGED token PROVE FALSE
      BY <3>1
    <3>2. ASSUME Load(s, c) PROVE FALSE
      BY <1>2, <1>3, <3>2 DEF Load
    <3>3. ASSUME NEW d \in Calls, SignedIn(s, c, d) PROVE FALSE
      BY <1>2, <3>3 DEF SignedIn
    <3> QED BY <2>1, <3>1, <3>2, <3>3 DEF CallStep, Answer, Submit, LoginRefused, Me,
              Counted, Unauthorized, Poll, Lost, store
  <2>2. ~RefreshFails(s) /\ ~RefreshLost(s)
    BY <1>4 DEF RefreshFails, RefreshLost
  <2>3. ASSUME Clear(s) PROVE s = t
    BY <1>2, <2>3 DEF Clear
  <2> QED BY <1>5, <2>1, <2>2, <2>3 DEF TabStep
<1>6. UNCHANGED token => FALSE
  OBVIOUS
<1> QED BY <1>5, <1>6 DEF Next, SignedInElsewhere, Expire, store, vars

\* Until a token expires only its user signs a tab out.
THEOREM ExpirySignsOut == Spec => OnlyExpirySignsOut
<1>1. SessionInv /\ [Next]_vars =>
        [\A t \in Tabs :
           token[t] # 0 /\ token'[t] = 0 /\ expired = 0 => Clear(t)]_vars
  BY StepSignsOut
<1> QED BY <1>1, SessionHolds, PTL DEF Spec, OnlyExpirySignsOut

LEMMA StepSignsIn ==
    ASSUME SessionInv, [Next]_vars, NEW t \in Tabs, token[t] = 0, token'[t] # 0
    PROVE  \E c \in Calls : Load(t, c) \/ \E d \in Calls : SignedIn(t, c, d)
<1>1. token \in [Tabs -> 0..Len(issued)]
  BY DEF SessionInv, Asking, TypeOK
<1>2. ASSUME UNCHANGED token PROVE FALSE
  BY <1>2
<1>3. ASSUME NEW s \in Tabs, TabStep(s)
      PROVE  \E c \in Calls : Load(t, c) \/ \E d \in Calls : SignedIn(t, c, d)
  <2>1. ASSUME NEW c \in Calls, CallStep(s, c)
        PROVE  Load(t, c) \/ \E d \in Calls : SignedIn(t, c, d)
    <3>1. ASSUME Load(s, c) PROVE s = t
      BY <1>1, <3>1 DEF Load
    <3>2. ASSUME NEW d \in Calls, SignedIn(s, c, d) PROVE s = t
      BY <1>1, <3>2 DEF SignedIn
    <3> QED BY <1>2, <2>1, <3>1, <3>2 DEF CallStep, Answer, Submit, LoginRefused, Me,
              Counted, Unauthorized, Poll, Lost, store
  <2>2. ~RefreshFails(s) /\ ~RefreshLost(s) /\ ~Clear(s)
    BY <1>1, <1>2 DEF RefreshFails, RefreshLost, Clear, store
  <2> QED BY <1>3, <2>1, <2>2 DEF TabStep
<1> QED BY <1>2, <1>3 DEF Next, SignedInElsewhere, Expire, store, vars

\* No answer of an old session brings it back.
THEOREM SignedOutStays == Spec => SignOutLasts
<1>1. SessionInv /\ [Next]_vars =>
        [\A t \in Tabs :
           token[t] = 0 /\ token'[t] # 0 =>
             \E c \in Calls : Load(t, c) \/ \E d \in Calls : SignedIn(t, c, d)]_vars
  BY StepSignsIn
<1> QED BY <1>1, SessionHolds, PTL DEF Spec, SignOutLasts

=============================================================================
