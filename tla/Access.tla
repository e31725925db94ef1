-------------------------------- MODULE Access --------------------------------
(***************************************************************************)
(* Roles, permissions and vessel scope.  A token carries the roles, the    *)
(* permissions and the vessel its user had when it was issued              *)
(* (auth.py _token_pair).  Most routes judge the token (deps/auth.py), the *)
(* marketplace and portal routes read the roles from the database, and the *)
(* permissions page shows both: they must not contradict each other.       *)
(*                                                                         *)
(* The second half is the list of RFQs, which filters by vessel in its     *)
(* query and is read page by page, against the routes that take one RFQ,   *)
(* which judge its vessel by themselves.                                   *)
(*                                                                         *)
(* Only the permissions a route asks for are kept.  Grants are written by  *)
(* the seed in one commit and accounts by the scripts; no route changes    *)
(* either.  One life of a database is modelled.                            *)
(***************************************************************************)
EXTENDS Integers, Sequences, FiniteSets

CONSTANTS
    Staff,      \* the accounts scripts know of: name -> [role, vessel]
    Vessels,    \* vessels orders are for
    Ashore,     \* the vessel of an account without one
    Nobody,     \* no token
    PageSize,   \* the `limit` of the list
    MaxRFQs     \* bound on the RFQs created

Roles == {"super_admin", "fleet_admin", "vessel_captain", "purchasing_officer",
          "chief_steward", "supplier", "port_authority", "viewer"}

Permissions ==
    {<<"rfq", "read", "own">>, <<"rfq", "create", "own">>, <<"rfq", "simulate", "own">>,
     <<"quotes", "submit", "own">>, <<"quotes", "compare", "own">>,
     <<"marketplace", "compose", "global">>, <<"marketplace", "approve", "own">>,
     <<"marketplace", "clarify", "global">>, <<"marketplace", "drop", "global">>}

Grants == [Roles -> SUBSET Permissions]

ASSUME AccessAssumption ==
    /\ \A u \in DOMAIN Staff :
         Staff[u].role \in Roles /\ Staff[u].vessel \in Vessels \cup {Ashore}
    /\ Ashore \notin Vessels
    /\ PageSize \in Nat \ {0}
    /\ MaxRFQs \in Nat

VARIABLES
    granted,   \* whether the rows of role_permissions have been seeded
    account,   \* users: none, bare (without a row in user_roles) or full
    cookie,    \* the token the browser sends
    rfqs,      \* the vessel each RFQ's order is for, oldest RFQ first
    view       \* the list a page has read so far

accessVars == <<granted, account, cookie, rfqs, view>>

Users == DOMAIN Staff

Accounts == [Users -> {"none", "bare", "full"}]

-----------------------------------------------------------------------------
(* Grants and tokens *)

\* role_perms of the seed, and everything for super_admin.
GrantsOf(role) ==
    CASE role = "super_admin" -> Permissions
      [] role = "purchasing_officer" ->
           {<<"rfq", "create", "own">>, <<"rfq", "read", "own">>,
            <<"rfq", "simulate", "own">>, <<"quotes", "compare", "own">>,
            <<"marketplace", "approve", "own">>}
      [] role = "supplier" -> {<<"rfq", "read", "own">>, <<"quotes", "submit", "own">>}
      [] OTHER -> {}

\* What the tables say of a user.
RolesOf(u) == IF account[u] = "full" THEN {Staff[u].role} ELSE {}

\* The matrix of the permissions page.
Matrix == [r \in Roles |-> IF granted THEN GrantsOf(r) ELSE {}]

PermissionsOf(u) == UNION {Matrix[r] : r \in RolesOf(u)}

Token(u) ==
    [user |-> u, roles |-> RolesOf(u), permissions |-> PermissionsOf(u),
     vessel |-> Staff[u].vessel]

Tokens ==
    [user : Users, roles : SUBSET Roles, permissions : SUBSET Permissions,
     vessel : Vessels \cup {Ashore}]

\* What the permissions page tells the bearer of a token, without a query.
MyPermissions(t) == [roles |-> t.roles, vessel |-> t.vessel, permissions |-> t.permissions]

-----------------------------------------------------------------------------
(* Guards *)

Scopes == <<"own", "vessel", "fleet", "global">>

\* A permission counts at the scope asked for and at every broader one.
HasPermission(t, res, act, scope) ==
    \E i, j \in DOMAIN Scopes :
      Scopes[i] = scope /\ i <= j /\ <<res, act, Scopes[j]>> \in t.permissions

HasAnyRole(t, names) == t.roles \cap names # {}

Admins == {"super_admin", "fleet_admin"}
HasVesselAccess(t, v) == HasAnyRole(t, Admins) \/ (t.vessel # Ashore /\ t.vessel = v)

-----------------------------------------------------------------------------
(* Lists *)

\* The vessel filter of the list, which is part of its query.
InList(t, v) ==
    \/ HasAnyRole(t, Admins)
    \/ t.vessel # Ashore /\ v = t.vessel

\* The RFQs a list holds, named by their place in rfqs.
Listed(t) == {k \in DOMAIN rfqs : InList(t, rfqs[k])}

PageThenFilter(t, offset) ==
    {k \in Listed(t) : Len(rfqs) - k \in offset..(offset + PageSize - 1)}

\* The list is newest first: this many of its rows come before RFQ k.
RowsAhead(t, k) == Cardinality({j \in Listed(t) : j > k})

Page(t, offset) ==
    {k \in Listed(t) : RowsAhead(t, k) \in offset..(offset + PageSize - 1)}

\* The guards of GET /rfq/{id}.
Opens(t, k) ==
    HasPermission(t, "rfq", "read", "own") /\ HasVesselAccess(t, rfqs[k])

NoList == [token |-> Nobody, from |-> 0, seen |-> {}, offset |-> 0, ended |-> FALSE]

-----------------------------------------------------------------------------
AccessInit ==
    /\ granted = FALSE
    /\ account = [u \in Users |-> "none"]
    /\ cookie = Nobody
    /\ rfqs = << >>
    /\ view = NoList

\* Roles, permissions and grants are one commit of the seed.
SeedGrants ==
    /\ ~granted
    /\ granted' = TRUE
    /\ UNCHANGED <<account, cookie, rfqs, view>>

AddAccountAgain(u) ==
    /\ account[u] \in {"none", "bare"}
    /\ account' = [account EXCEPT ![u] = IF granted THEN "full" ELSE "bare"]
    /\ UNCHANGED <<granted, cookie, rfqs, view>>

\* A script adds a user with its role, or without one when there are no roles
\* yet; a user that exists is left as it is.
AddAccount(u) ==
    /\ account[u] = "none"
    /\ account' = [account EXCEPT ![u] = IF granted THEN "full" ELSE "bare"]
    /\ UNCHANGED <<granted, cookie, rfqs, view>>

\* POST /auth/login, in this tab or in another one: the cookie is theirs both.
SignIn(u) ==
    /\ account[u] # "none"
    /\ cookie' = Token(u)
    /\ UNCHANGED <<granted, account, rfqs, view>>

\* Somebody sends an order of vessel v out.
CreateRFQ(v) ==
    /\ Len(rfqs) < MaxRFQs
    /\ rfqs' = Append(rfqs, v)
    /\ UNCHANGED <<granted, account, cookie, view>>

CanList(t) == t # Nobody /\ HasPermission(t, "rfq", "read", "own")

\* GET /rfq: the first page, or the next one of the same caller's list.
ReadFirst ==
    /\ CanList(cookie)
    /\ view' = [token |-> cookie, from |-> Len(rfqs), seen |-> Page(cookie, 0),
                offset |-> PageSize, ended |-> Cardinality(Page(cookie, 0)) < PageSize]
    /\ UNCHANGED <<granted, account, cookie, rfqs>>

ReadNext ==
    /\ CanList(cookie)
    /\ view.token = cookie
    /\ ~view.ended
    /\ view' = [view EXCEPT !.seen = @ \cup Page(cookie, view.offset),
                            !.offset = @ + PageSize,
                            !.ended = Cardinality(Page(cookie, view.offset)) < PageSize]
    /\ UNCHANGED <<granted, account, cookie, rfqs>>

AccessNext ==
    \/ SeedGrants
    \/ \E u \in Users : AddAccount(u) \/ SignIn(u)
    \/ \E v \in Vessels : CreateRFQ(v)
    \/ ReadFirst
    \/ ReadNext

AccessSpec == AccessInit /\ [][AccessNext]_accessVars

-----------------------------------------------------------------------------
(* Properties *)

\* Tokens are tokens of users that exist, and a list is of RFQs that exist.
AccessTypeOK ==
    /\ granted \in BOOLEAN
    /\ Matrix \in Grants
    /\ account \in Accounts
    /\ cookie \in Tokens \cup {Nobody}
    /\ cookie # Nobody => account[cookie.user] # "none"
    /\ rfqs \in Seq(Vessels)
    /\ view.seen \subseteq DOMAIN rfqs
    /\ view.from \in 0..Len(rfqs)

\* A token never contradicts the tables, however accounts, grants and logins
\* are interleaved: the routes that judge the token and those that read the
\* user's roles agree, and so do the two halves of the permissions page.
TokenIsTheTables ==
    \A t \in {cookie, view.token} \ {Nobody} :
      MyPermissions(t) = MyPermissions(Token(t.user))

\* No route refuses a caller an RFQ of its own list: the filter in the query and
\* the check of the single RFQ agree, whatever was created meanwhile.
ListedOpens ==
    \A k \in view.seen : Opens(view.token, k)

\* A caller who reads page after page to the end has seen every RFQ that was
\* there when it began and that it may open, though new ones push the rows
\* towards later pages between two requests.
PagesMissNothing ==
    view.ended => \A k \in 1..view.from : Opens(view.token, k) => k \in view.seen

\* The list, read to its end, and the routes of single RFQs show a caller the
\* same RFQs (the filter in list_rfqs and the check in get_rfq).
ListIsWhatOpens == ListedOpens /\ PagesMissNothing
=============================================================================
