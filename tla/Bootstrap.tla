----------------------------- MODULE Bootstrap -----------------------------
(***************************************************************************)
(* Setting up a database by hand, as the quickstart does it: alembic, the  *)
(* seed script with or without --skip-if-populated, and the scripts that   *)
(* add demo accounts.  Commands are run one at a time, in any order, and   *)
(* may be killed at any point.                                             *)
(*                                                                         *)
(* A database is either empty or has been brought to some revision by      *)
(* earlier versions of the code.  The seed commits after every part.       *)
(***************************************************************************)
EXTENDS Migrations

CONSTANTS MaxCommands   \* bound: commands run

ASSUME BootstrapAssumption == MaxCommands \in Nat

VARIABLES
    models,     \* the models the database began with
    schema,     \* as committed
    rev,        \* alembic_version, as committed
    job,        \* the command that is running
    alembic,    \* what its transaction has made so far
    next,       \* the part the seed or script comes to next
    copies,     \* how often each part is in the tables
    freeText,   \* some order item names no product
    cut,        \* a seed ended early after it had committed the products
    exit,       \* how the last command ended
    commands

vars == <<models, schema, rev, job, alembic, next, copies, freeText, cut, exit, commands>>

database == <<models, schema, rev>>
data == <<copies, freeText>>

\* What the seed commits at once: "safe" parts are inserted ON CONFLICT DO NOTHING or
\* are updates, "unique" ones meet a unique constraint if they are there already, and
\* "plain" ones do not.  Each looks up the rows of other parts.
Part(name, kind, needs) == [name |-> name, kind |-> kind, needs |-> needs]

RolesPart == Part("roles", "safe", {})
CountriesPart == Part("countries", "safe", {})
PortsPart == Part("ports", "safe", {"countries"})
VesselsPart == Part("vessels", "safe", {})
CategoriesPart == Part("categories", "safe", {})
ProductsPart == Part("products", "unique", {"categories"})
ImpaCodesPart == Part("impaCodes", "unique", {"products"})
ImpaLinksPart == Part("impaLinks", "safe", {"products", "impaCodes"})
IssaCodesPart == Part("issaCodes", "unique", {})
IssaLinksPart == Part("issaLinks", "safe", {"products", "issaCodes"})
TsvectorsPart == Part("tsvectors", "safe", {"products"})
RegulationsPart == Part("regulations", "plain", {"countries", "ports"})
SuppliersPart == Part("suppliers", "safe", {})
SupplierLinksPart == Part("supplierLinks", "unique", {"suppliers", "ports", "products"})
NationalitiesPart == Part("nationalities", "unique", {})
MenusPart == Part("menus", "unique", {"nationalities", "products"})
UsersPart == Part("users", "unique", {"roles", "vessels"})

\* In the order of main.
Plan == <<RolesPart, CountriesPart, PortsPart, VesselsPart, CategoriesPart, ProductsPart,
          ImpaCodesPart, ImpaLinksPart, IssaCodesPart, IssaLinksPart, TsvectorsPart,
          RegulationsPart, SuppliersPart, SupplierLinksPart, NationalitiesPart, MenusPart,
          UsersPart>>

Steps == 1..Len(Plan)
Seeded == {Plan[i].name : i \in Steps}
Extra == {"demoUsers", "demoSuppliers", "demoLinks", "missingUsers"}
Parts == Seeded \cup Extra

There(p) == copies[p] > 0
Populated == There("products")
ProductsAt == 6

Idle == [to |-> 0, rev |-> 0, pc |-> 1, schema |-> {}]

TypeOK ==
    /\ rev \in Revision
    /\ job \in {"none", "alembic", "seed", "demo", "missing"}
    /\ alembic.to \in Revision
    /\ alembic.rev \in Revision
    /\ alembic.pc \in Nat
    /\ next \in 1..(Len(Plan) + 1)
    /\ copies \in [Parts -> Nat]
    /\ freeText \in BOOLEAN
    /\ cut \in BOOLEAN
    /\ exit \in {"none", "migrated", "unmigrated", "seeded", "added", "failed", "killed"}
    /\ commands \in 0..MaxCommands

Init ==
    /\ \/ models = Today /\ rev = 0
       \/ models = Early /\ rev \in 1..8
    /\ schema = SchemaAt(models)[rev]
    /\ job = "none"
    /\ alembic = Idle
    /\ next = 1
    /\ copies = [p \in Parts |-> 0]
    /\ freeText = FALSE
    /\ cut = FALSE
    /\ exit = "none"
    /\ commands = 0

\* A command is started.
Run(j) ==
    /\ job = "none"
    /\ commands < MaxCommands
    /\ job' = j
    /\ commands' = commands + 1

\* It ends.
End(e) ==
    /\ job' = "none"
    /\ exit' = e
    /\ alembic' = Idle
    /\ next' = 1
    /\ UNCHANGED <<models, commands>>

-----------------------------------------------------------------------------
(* Alembic *)

Migrate(r) ==
    /\ Run("alembic")
    /\ r # rev
    /\ alembic' = [to |-> r, rev |-> rev, pc |-> 1, schema |-> schema]
    /\ UNCHANGED <<database, next, data, cut, exit>>

Going == IF alembic.rev < alembic.to THEN "up" ELSE "down"

\* The revision the script under way leads to.
Towards == IF Going = "up" THEN alembic.rev + 1 ELSE alembic.rev - 1

Script == IF Going = "up" THEN Upgrade(Towards) ELSE Downgrade(alembic.rev)

Nulls == IF freeText THEN {NotNull("order_items", "product_id")} ELSE {}

AtWork == job = "alembic" /\ alembic.rev # alembic.to

(* A faulty variant. *)

\* Every statement is its own transaction.
StatementCommitted ==
    /\ AtWork
    /\ alembic.pc <= Len(Script)
    /\ CanRun(alembic.schema, Script[alembic.pc], Nulls)
    /\ alembic' = [alembic EXCEPT !.schema = After(@, Script[alembic.pc]), !.pc = @ + 1]
    /\ schema' = After(alembic.schema, Script[alembic.pc])
    /\ UNCHANGED <<models, rev, job, next, data, cut, exit, commands>>

(* The code. *)

\* The transaction ends before the labels of 0008 are added.
Statement ==
    /\ AtWork
    /\ alembic.pc <= Len(Script)
    /\ CanRun(alembic.schema, Script[alembic.pc], Nulls)
    /\ alembic' = [alembic EXCEPT !.schema = After(@, Script[alembic.pc]), !.pc = @ + 1]
    /\ IF Script[alembic.pc] = Commit
       THEN schema' = alembic.schema /\ rev' = alembic.rev
       ELSE UNCHANGED <<schema, rev>>
    /\ UNCHANGED <<models, job, next, data, cut, exit, commands>>

\* The script is through, and alembic_version is updated in the same transaction.
\* 0001 creates what the models say.
Migrated ==
    /\ AtWork
    /\ alembic.pc > Len(Script)
    /\ alembic' = [alembic EXCEPT !.rev = Towards, !.pc = 1,
                                  !.schema = IF Towards = 1 /\ Going = "up" THEN models ELSE @]
    /\ UNCHANGED <<database, job, next, data, cut, exit, commands>>

\* All revisions that were asked for are committed at once.  The rows go with
\* their tables.
MigrationEnds ==
    /\ job = "alembic"
    /\ alembic.rev = alembic.to
    /\ schema' = alembic.schema
    /\ rev' = alembic.rev
    /\ IF Products \in schema'
       THEN UNCHANGED <<data, cut>>
       ELSE copies' = [p \in Parts |-> 0] /\ freeText' = FALSE /\ cut' = FALSE
    /\ End("migrated")

\* A statement fails and everything since the last commit is rolled back.
MigrationFails ==
    /\ AtWork
    /\ alembic.pc <= Len(Script)
    /\ ~CanRun(alembic.schema, Script[alembic.pc], Nulls)
    /\ End("unmigrated")
    /\ UNCHANGED <<schema, rev, data, cut>>

-----------------------------------------------------------------------------
(* The seed *)

Tables == Products \in schema

(* Faulty variants. *)

\* A database counts as populated once it has roles.
SeedUnlessRoles(skip) ==
    /\ Run("seed")
    /\ next' = IF skip /\ There("roles") THEN Len(Plan) + 1 ELSE 1
    /\ UNCHANGED <<database, alembic, data, cut, exit>>

(* The code. *)

\* With --skip-if-populated and products there is nothing left to do.
Seed(skip) ==
    /\ Run("seed")
    /\ next' = IF skip /\ Populated THEN Len(Plan) + 1 ELSE 1
    /\ UNCHANGED <<database, alembic, data, cut, exit>>

\* Accounts with the same mail addresses, and the ports of the same suppliers.
Clash(p) ==
    \/ p = "users" /\ (There("demoUsers") \/ There("missingUsers"))
    \/ p = "supplierLinks" /\ There("demoLinks")

CanInsert(part) ==
    /\ Tables
    /\ part.kind = "unique" => ~There(part.name)
    /\ ~Clash(part.name)

Inserted(part) ==
    [copies EXCEPT ![part.name] = IF part.kind = "plain" THEN @ + 1 ELSE 1]

(* A faulty variant. *)

\* What is there already is left alone, and the regulations, which nothing tells
\* apart, are added once more.
SeedPartLenient ==
    /\ job = "seed"
    /\ next \in Steps
    /\ Tables
    /\ copies' = Inserted(Plan[next])
    /\ next' = next + 1
    /\ UNCHANGED <<database, job, alembic, freeText, cut, exit, commands>>

(* The code. *)

SeedPart ==
    /\ job = "seed"
    /\ next \in Steps
    /\ CanInsert(Plan[next])
    /\ copies' = Inserted(Plan[next])
    /\ next' = next + 1
    /\ UNCHANGED <<database, job, alembic, freeText, cut, exit, commands>>

\* The products are in, and something after them is not.
Halfway == job = "seed" /\ next \in (ProductsAt + 1)..Len(Plan)

SeedFails ==
    /\ job = "seed"
    /\ next \in Steps
    /\ ~CanInsert(Plan[next])
    /\ cut' = (cut \/ Halfway)
    /\ End("failed")
    /\ UNCHANGED <<schema, rev, data>>

SeedEnds ==
    /\ job = "seed"
    /\ next = Len(Plan) + 1
    /\ End("seeded")
    /\ UNCHANGED <<schema, rev, data, cut>>

-----------------------------------------------------------------------------
(* The scripts that add accounts *)

\* seed_demo_accounts: users first, then suppliers, which are linked to their port
\* and to two more, drawn anew each time: another run may add others, to the links
\* of the seed as well.
Demo ==
    /\ Run("demo")
    /\ UNCHANGED <<database, alembic, next, data, cut, exit>>

DemoUsers ==
    /\ job = "demo"
    /\ next = 1
    /\ Tables
    /\ copies' = [copies EXCEPT !["demoUsers"] = IF There("users") THEN @ ELSE 1]
    /\ next' = 2
    /\ UNCHANGED <<database, job, alembic, freeText, cut, exit, commands>>

DemoSuppliers ==
    /\ job = "demo"
    /\ next = 2
    /\ \E more \in {0, 1} :
         /\ more = 1 => There("ports")
         /\ more = 0 => (There("ports") => There("demoLinks") \/ There("supplierLinks"))
         /\ copies' = [copies EXCEPT !["demoSuppliers"] = 1, !["demoLinks"] = @ + more]
    /\ End("added")
    /\ UNCHANGED <<schema, rev, freeText, cut>>

\* add_missing_users: only users whose role is there.
Missing ==
    /\ Run("missing")
    /\ UNCHANGED <<database, alembic, next, data, cut, exit>>

MissingUsers ==
    /\ job = "missing"
    /\ Tables
    /\ copies' = [copies EXCEPT !["missingUsers"] =
                    IF There("roles") /\ ~There("users") THEN 1 ELSE @]
    /\ End("added")
    /\ UNCHANGED <<schema, rev, freeText, cut>>

ScriptFails ==
    /\ job \in {"demo", "missing"}
    /\ ~Tables
    /\ End("failed")
    /\ UNCHANGED <<schema, rev, data, cut>>

-----------------------------------------------------------------------------

Killed ==
    /\ job # "none"
    /\ cut' = (cut \/ Halfway)
    /\ End("killed")
    /\ UNCHANGED <<schema, rev, data>>

\* The application stores an order with an item that names no product.
OrderFreeText ==
    /\ job = "none"
    /\ Tables
    /\ NotNull("order_items", "product_id") \notin schema
    /\ ~freeText
    /\ freeText' = TRUE
    /\ UNCHANGED <<database, job, alembic, next, copies, cut, exit, commands>>

Next ==
    \/ \E r \in Revision : Migrate(r)
    \/ Statement
    \/ Migrated
    \/ MigrationEnds
    \/ MigrationFails
    \/ \E skip \in BOOLEAN : Seed(skip)
    \/ SeedPart
    \/ SeedFails
    \/ SeedEnds
    \/ Demo
    \/ DemoUsers
    \/ DemoSuppliers
    \/ Missing
    \/ MissingUsers
    \/ ScriptFails
    \/ Killed
    \/ OrderFreeText

Spec == Init /\ [][Next]_vars

-----------------------------------------------------------------------------
(* Properties *)

\* The recorded revision tells the schema: whatever was upgraded, downgraded,
\* failed or killed, the objects are those of a database that was only ever
\* upgraded to that revision, so that the next command starts from what its
\* scripts expect.
RevisionTellsSchema == schema = SchemaAt(models)[rev]

\* Rows go only with the whole schema, and only in a database that began with
\* today's models: downgrading an earlier one to nothing fails on a table those do
\* not know, before anything is committed.
RowsGoWithSchema ==
    [][(\E p \in Parts : copies'[p] < copies[p]) =>
         /\ models = Today /\ rev' = 0 /\ schema' = {}
         /\ \A p \in Parts : copies'[p] = 0]_vars

\* Whatever the seed comes to finds the rows it looks up, with those of killed and
\* failed seeds before it and whatever the other scripts have added: nothing is left
\* without its vessel, port or role because they were not there yet.
LookupsSucceed ==
    job = "seed" /\ next \in Steps /\ Tables => \A p \in Plan[next].needs : There(p)

\* The administrator, without whom nobody can set anything right, is there only in
\* a database that has all the demo data.
AdminMeansAll == There("users") => \A p \in Seeded : There(p)

\* Nothing is seeded twice, with or without the flag and however often a seed was
\* killed, although the regulations have no constraint against it; only the ports of
\* the demo suppliers grow with each run of their script.
NothingTwice == \A p \in Parts \ {"demoLinks"} : copies[p] <= 1

\* A seed that ends well leaves all the demo data behind, unless an earlier one
\* ended between its products and its users: then the flag skips the rest for ever.
SeededUnlessCut == exit = "seeded" /\ ~cut /\ job = "none" => \A p \in Seeded : There(p)

\* The quickstart begins with "alembic upgrade head" on an empty database: it does
\* not fail.
FirstUpgradeWorks == models = Today => exit # "unmigrated"
=============================================================================
