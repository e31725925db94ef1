------------------------------ MODULE Session ------------------------------
(***************************************************************************)
(* Signing in and out: tabs of one browser with their auth stores and the  *)
(* cookie jar they share with its other tabs, the requests they have in    *)
(* flight, the access tokens the backend issues and their expiry.          *)
(*                                                                         *)
(* Tokens are numbered in the order of issue and all live equally long, so *)
(* they also expire in that order.  The backend takes the cookie before    *)
(* the Authorization header.  /auth/refresh answers every request with an  *)
(* error: 401 without the cookie, and 500 with it, because the handler     *)
(* uses a name it does not import.  The refresh cookie is therefore left   *)
(* out, and so is what a tab would do with a refreshed token.              *)
(***************************************************************************)
EXTENDS Integers, Sequences

CONSTANTS
    Users,
    NoUser,
    Tabs,
    Calls,      \* bound: requests a tab may have in flight
    MaxLogins,  \* bound: tokens issued
    MaxFaults   \* bound: requests or answers lost

ASSUME SessionAssumption ==
    /\ NoUser \notin Users
    /\ MaxLogins \in Nat
    /\ MaxFaults \in Nat

VARIABLES
    issued,     \* the owners of the tokens, in the order of issue
    expired,    \* tokens 1..expired have expired
    jar,        \* the access_token cookie, 0 if there is none
    token,      \* the stores' accessToken, 0 for null
    shown,      \* the stores' user
    badge,      \* whose unread count the bell shows
    call,       \* the requests in flight
    refreshing, \* refreshPromise is pending
    faults

vars == <<issued, expired, jar, token, shown, badge, call, refreshing, faults>>

store == <<token, shown, badge>>
backend == <<issued, expired>>

Token == 0..MaxLogins
Someone == Users \cup {NoUser}

Call == [kind: {"idle", "login", "me", "count"},
         user: Someone,         \* who signs in
         cred: Token,           \* what the request was sent with
         waiting: BOOLEAN]      \* for the refresh, after a 401

Request(kind, u, k) == [kind |-> kind, user |-> u, cred |-> k, waiting |-> FALSE]
Idle == Request("idle", NoUser, 0)

TypeOK ==
    /\ issued \in Seq(Users)
    /\ Len(issued) <= MaxLogins
    /\ expired \in 0..Len(issued)
    /\ jar \in 0..Len(issued)
    /\ token \in [Tabs -> 0..Len(issued)]
    /\ shown \in [Tabs -> Someone]
    /\ badge \in [Tabs -> Someone]
    /\ call \in [Tabs -> [Calls -> Call]]
    /\ \A t \in Tabs : \A c \in Calls : call[t][c].cred <= Len(issued)
    /\ refreshing \in [Tabs -> BOOLEAN]
    /\ faults \in 0..MaxFaults

Init ==
    /\ issued = <<>>
    /\ expired = 0
    /\ jar = 0
    /\ token = [t \in Tabs |-> 0]
    /\ shown = [t \in Tabs |-> NoUser]
    /\ badge = [t \in Tabs |-> NoUser]
    /\ call = [t \in Tabs |-> [c \in Calls |-> Idle]]
    /\ refreshing = [t \in Tabs |-> FALSE]
    /\ faults = 0

-----------------------------------------------------------------------------
(* Tokens and requests *)

Dead(k) == k <= expired             \* no token (0), or one that has expired

\* The cookie travels with every request; the header counts without it.
Credential(t) == IF jar # 0 THEN jar ELSE token[t]

In(t, c, kind) == call[t][c].kind = kind /\ ~call[t][c].waiting

Finish(t, c) == call' = [call EXCEPT ![t][c] = Idle]

Waiting(t) == {c \in Calls : call[t][c].waiting}

\* The awaiting requests end with the answer they had.
EndWaiting(t) ==
    call' = [call EXCEPT ![t] = [c \in Calls |->
               IF call[t][c].waiting THEN Idle ELSE call[t][c]]]

\* The access token expires, and its cookie with it.
Expire ==
    /\ expired < Len(issued)
    /\ expired' = expired + 1
    /\ jar' = IF jar <= expired' THEN 0 ELSE jar
    /\ UNCHANGED <<issued, store, call, refreshing, faults>>

-----------------------------------------------------------------------------
(* Signing in *)

\* The login page is what a tab without a token shows, and its button is
\* disabled while it waits.
Submit(t, c, u) ==
    /\ token[t] = 0
    /\ call[t][c] = Idle
    /\ \A d \in Calls : call[t][d].kind # "login"
    /\ call' = [call EXCEPT ![t][c] = Request("login", u, Credential(t))]
    /\ UNCHANGED <<backend, jar, store, refreshing, faults>>

(* A faulty variant. *)

\* The page relies on the application to ask who has signed in, which it only
\* does for a tab that shows nobody yet.
SignedInWithoutMe(t, c, d) ==
    LET new == Len(issued) + 1 IN
    /\ In(t, c, "login")
    /\ d # c
    /\ shown[t] = NoUser => call[t][d] = Idle
    /\ new <= MaxLogins
    /\ issued' = Append(issued, call[t][c].user)
    /\ jar' = new
    /\ token' = [token EXCEPT ![t] = new]
    /\ call' = [call EXCEPT ![t][c] = Idle]
    /\ UNCHANGED <<expired, shown, badge, refreshing, faults>>

(* The code. *)

\* The answer sets the cookie and the store.  The page then asks who has signed
\* in, and so does the application if the store has no user.
SignedIn(t, c, d) ==
    LET new == Len(issued) + 1 IN
    /\ In(t, c, "login")
    /\ d # c
    /\ shown[t] = NoUser => call[t][d] = Idle
    /\ new <= MaxLogins
    /\ issued' = Append(issued, call[t][c].user)
    /\ jar' = new
    /\ token' = [token EXCEPT ![t] = new]
    /\ call' = [call EXCEPT ![t] = [e \in Calls |->
                  IF e = c \/ (e = d /\ shown[t] = NoUser)
                  THEN Request("me", NoUser, new) ELSE call[t][e]]]
    /\ UNCHANGED <<expired, shown, badge, refreshing, faults>>

\* A tab that is not among Tabs signs in: only its cookie concerns the others.
SignedInElsewhere(u) ==
    /\ Len(issued) < MaxLogins
    /\ issued' = Append(issued, u)
    /\ jar' = Len(issued')
    /\ UNCHANGED <<expired, store, call, refreshing, faults>>

\* Wrong credentials: no refresh is tried for this path.
LoginRefused(t, c) ==
    /\ In(t, c, "login")
    /\ Finish(t, c)
    /\ UNCHANGED <<backend, jar, store, refreshing, faults>>

\* Whoever the request was sent for is shown, even in a tab that has meanwhile
\* signed out or signed in as someone else.
Me(t, c) ==
    /\ In(t, c, "me")
    /\ ~Dead(call[t][c].cred)
    /\ shown' = [shown EXCEPT ![t] = issued[call[t][c].cred]]
    /\ Finish(t, c)
    /\ UNCHANGED <<backend, jar, token, badge, refreshing, faults>>

-----------------------------------------------------------------------------
(* The poll of the bell *)

(* A faulty variant. *)

\* The count is fetched when the page opens and not again.
PollOnce(t, c) ==
    /\ token[t] # 0
    /\ shown[t] # NoUser
    /\ badge[t] = NoUser
    /\ call[t][c] = Idle
    /\ call' = [call EXCEPT ![t][c] = Request("count", NoUser, Credential(t))]
    /\ UNCHANGED <<backend, jar, store, refreshing, faults>>

(* The code. *)

\* When the shown user changes, and every 30 seconds.
Poll(t, c) ==
    /\ token[t] # 0
    /\ shown[t] # NoUser
    /\ call[t][c] = Idle
    /\ call' = [call EXCEPT ![t][c] = Request("count", NoUser, Credential(t))]
    /\ UNCHANGED <<backend, jar, store, refreshing, faults>>

Counted(t, c) ==
    /\ In(t, c, "count")
    /\ ~Dead(call[t][c].cred)
    /\ badge' = [badge EXCEPT ![t] = issued[call[t][c].cred]]
    /\ Finish(t, c)
    /\ UNCHANGED <<backend, jar, token, shown, refreshing, faults>>

-----------------------------------------------------------------------------
(* A 401 and the refresh *)

(* A faulty variant. *)

\* The promise of an earlier refresh that is over is awaited again.
UnauthorizedAfter(t, c) ==
    /\ call[t][c].kind \in {"me", "count"}
    /\ ~call[t][c].waiting
    /\ Dead(call[t][c].cred)
    /\ call' = [call EXCEPT ![t][c].waiting = TRUE]
    /\ refreshing' = [refreshing EXCEPT ![t] = faults = 0]
    /\ UNCHANGED <<backend, jar, store, faults>>

(* The code. *)

\* The first starts the refresh, the others share it.
Unauthorized(t, c) ==
    /\ call[t][c].kind \in {"me", "count"}
    /\ ~call[t][c].waiting
    /\ Dead(call[t][c].cred)
    /\ call' = [call EXCEPT ![t][c].waiting = TRUE]
    /\ refreshing' = [refreshing EXCEPT ![t] = TRUE]
    /\ UNCHANGED <<backend, jar, store, faults>>

(* Faulty variants. *)

\* The tab keeps the session the refresh could not renew.
RefreshFailsQuietly(t) ==
    /\ refreshing[t]
    /\ refreshing' = [refreshing EXCEPT ![t] = FALSE]
    /\ EndWaiting(t)
    /\ UNCHANGED <<backend, jar, store, faults>>

\* The backend renews the session, and the tab takes the new token whatever has
\* become of the session it had.
RefreshRenews(t) ==
    LET new == Len(issued) + 1 IN
    /\ refreshing[t]
    /\ new <= MaxLogins
    /\ issued' = Append(issued, issued[Len(issued)])
    /\ jar' = new
    /\ token' = [token EXCEPT ![t] = new]
    /\ refreshing' = [refreshing EXCEPT ![t] = FALSE]
    /\ EndWaiting(t)
    /\ UNCHANGED <<expired, shown, badge, faults>>

(* The code. *)

\* Whatever session the tab has by now is cleared.
RefreshFails(t) ==
    /\ refreshing[t]
    /\ token' = [token EXCEPT ![t] = 0]
    /\ shown' = [shown EXCEPT ![t] = NoUser]
    /\ refreshing' = [refreshing EXCEPT ![t] = FALSE]
    /\ EndWaiting(t)
    /\ UNCHANGED <<backend, jar, badge, faults>>

-----------------------------------------------------------------------------
(* Lost requests and answers *)

(* A faulty variant. *)

\* A lost request is taken for one that was refused.
LostIsUnauthorized(t, c) ==
    /\ faults < MaxFaults
    /\ call[t][c] # Idle
    /\ ~call[t][c].waiting
    /\ faults' = faults + 1
    /\ call' = [call EXCEPT ![t][c].waiting = TRUE]
    /\ refreshing' = [refreshing EXCEPT ![t] = TRUE]
    /\ UNCHANGED <<backend, jar, store>>

(* The code. *)

Lost(t, c) ==
    /\ faults < MaxFaults
    /\ call[t][c] # Idle
    /\ ~call[t][c].waiting
    /\ faults' = faults + 1
    /\ Finish(t, c)
    /\ UNCHANGED <<backend, jar, store, refreshing>>

\* The session stays as it is.
RefreshLost(t) ==
    /\ faults < MaxFaults
    /\ refreshing[t]
    /\ faults' = faults + 1
    /\ refreshing' = [refreshing EXCEPT ![t] = FALSE]
    /\ EndWaiting(t)
    /\ UNCHANGED <<backend, jar, store>>

-----------------------------------------------------------------------------
(* Signing out and starting over *)

\* Sign out empties the store; the cookies, the requests in flight and the
\* notifications stay.
Clear(t) ==
    /\ token[t] # 0
    /\ token' = [token EXCEPT ![t] = 0]
    /\ shown' = [shown EXCEPT ![t] = NoUser]
    /\ UNCHANGED <<backend, jar, badge, call, refreshing, faults>>

\* A page load reads the cookie and, if there is one, asks whose it is.
Load(t, c) ==
    /\ token' = [token EXCEPT ![t] = jar]
    /\ shown' = [shown EXCEPT ![t] = NoUser]
    /\ badge' = [badge EXCEPT ![t] = NoUser]
    /\ call' = [call EXCEPT ![t] = [d \in Calls |->
                  IF d = c /\ jar # 0 THEN Request("me", NoUser, jar) ELSE Idle]]
    /\ refreshing' = [refreshing EXCEPT ![t] = FALSE]
    /\ UNCHANGED <<backend, jar, faults>>

-----------------------------------------------------------------------------

\* An answer to request c.
Answer(t, c) ==
    \/ \E d \in Calls : SignedIn(t, c, d)
    \/ LoginRefused(t, c)
    \/ Me(t, c)
    \/ Counted(t, c)
    \/ Unauthorized(t, c)

CallStep(t, c) ==
    \/ \E u \in Users : Submit(t, c, u)
    \/ Answer(t, c)
    \/ Poll(t, c)
    \/ Lost(t, c)
    \/ Load(t, c)

TabStep(t) ==
    \/ \E c \in Calls : CallStep(t, c)
    \/ RefreshFails(t)
    \/ RefreshLost(t)
    \/ Clear(t)

Next ==
    \/ \E t \in Tabs : TabStep(t)
    \/ \E u \in Users : SignedInElsewhere(u)
    \/ Expire

Spec == Init /\ [][Next]_vars

\* Requests are answered and the poll is a timer.  Strong fairness is for people
\* who reload the page over and over: now and then they wait for an answer.
\* Nobody has to sign in or out, and no token has to expire.
Fairness ==
    /\ \A t \in Tabs : \A c \in Calls : SF_vars(Answer(t, c)) /\ SF_vars(Poll(t, c))
    /\ \A t \in Tabs : WF_vars(RefreshFails(t))

FairSpec == Spec /\ Fairness

-----------------------------------------------------------------------------
(* Properties *)

\* A request that was refused waits for a refresh that is under way, and a
\* refresh that is under way has been started by a request sent without a live
\* token: the promise is shared, reset and never awaited once it is over.
WaitersAreRefreshed ==
    \A t \in Tabs :
        /\ refreshing[t] <=> Waiting(t) # {}
        /\ \A c \in Waiting(t) : Dead(call[t][c].cred)

\* A tab that is signed in and does not know as whom has asked, unless a request
\* was lost: nothing else would ever make it ask again.
UnknownUserIsAskedFor ==
    \A t \in Tabs :
        token[t] # 0 /\ shown[t] = NoUser /\ faults = 0 =>
            \E c \in Calls : call[t][c].kind = "me"

\* Until a token expires a tab only loses its session when its user signs out,
\* however requests of earlier sessions, lost ones and other tabs interfere.
OnlyExpirySignsOut ==
    [][\A t \in Tabs :
         token[t] # 0 /\ token'[t] = 0 /\ expired = 0 => Clear(t)]_vars

\* A tab that has signed out stays so until someone signs in there or loads the
\* page again: no answer of the old session brings it back.
SignOutLasts ==
    [][\A t \in Tabs :
         token[t] = 0 /\ token'[t] # 0 =>
             \E c \in Calls : Load(t, c) \/ \E d \in Calls : SignedIn(t, c, d)]_vars

\* Without losses nobody stays in a tab that does not know who it is for.
UserComesToBeKnown ==
    \A t \in Tabs :
        token[t] # 0 /\ shown[t] = NoUser ~>
            token[t] = 0 \/ shown[t] # NoUser \/ faults > 0

\* When a session has expired and nobody has signed in elsewhere, the tab that
\* shows it comes to the login page.
ExpiredSessionEnds ==
    \A t \in Tabs :
        token[t] # 0 /\ shown[t] # NoUser /\ jar = 0 ~> token[t] = 0 \/ jar # 0

JarOf(u) == jar # 0 /\ issued[jar] = u

\* The bell comes to show the count of the user whose cookie the tab works with,
\* although signing out leaves the last user's count in place.
BellFollowsUser ==
    \A t \in Tabs : \A u \in Users :
        token[t] # 0 /\ shown[t] # NoUser /\ JarOf(u) ~>
            badge[t] = u \/ token[t] = 0 \/ shown[t] = NoUser \/ ~JarOf(u)
=============================================================================
