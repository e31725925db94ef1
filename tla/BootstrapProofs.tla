--------------------------- MODULE BootstrapProofs ---------------------------
(***************************************************************************)
(* What setting up a database preserves, for any number of commands: first *)
(* the rows, whatever the schema, then the schema, statement by statement  *)
(* of every revision, and that rows go only with all of it.                *)
(***************************************************************************)
EXTENDS Bootstrap, WellFoundedInduction, TLAPS


-----------------------------------------------------------------------------
(* The inductive invariant *)

\* What no command adds twice.
Single == Parts \ {"demoLinks"}

Complete == \A p \in Seeded : There(p)

\* An alembic job has these four fields and no other.
JobShape == alembic = [to |-> alembic.to, rev |-> alembic.rev,
                       pc |-> alembic.pc, schema |-> alembic.schema]

\* What a running seed has come past is in the tables.
SeedSoFar == job = "seed" /\ next \in Steps => \A i \in 1..(next - 1) : There(Plan[i].name)

\* A seed with nothing left to do has come to the end or met products.
SeedThrough == job = "seed" /\ next \notin Steps => Complete \/ (Populated /\ cut)

\* Products without the rest: a seed is on its way, or one ended too early.
Stranded == Populated /\ ~cut => Complete \/ (job = "seed" /\ next > ProductsAt)

\* The regulations come after the products, the only thing that keeps a second
\* seed from adding them again.
RulesAfterProducts == There("regulations") => Populated
RulesStillMissing == job = "seed" /\ next \in (ProductsAt + 1)..12 => ~There("regulations")

IInv ==
    /\ TypeOK
    /\ JobShape
    /\ SeedSoFar
    /\ SeedThrough
    /\ Stranded
    /\ RulesAfterProducts
    /\ RulesStillMissing
    /\ AdminMeansAll
    /\ NothingTwice
    /\ SeededUnlessCut

-----------------------------------------------------------------------------
(* The plan *)

\* There are 17 parts, and where the ones stand that the argument names.
LEMMA PlanFacts ==
    /\ Len(Plan) = 17
    /\ Steps = 1..17
    /\ \A i \in 1..17 : Plan[i].name = "products" <=> i = 6
    /\ \A i \in 1..17 : Plan[i].name = "regulations" <=> i = 12
    /\ \A i \in 1..17 : Plan[i].name = "users" <=> i = 17
    /\ \A i \in 1..17 : Plan[i].kind = "plain" <=> i = 12
    /\ Plan[6].kind = "unique"
    /\ \A i \in 1..17 : Plan[i].name \notin Extra
  <1>1. Len(Plan) = 17
    BY DEF Plan
  <1>2. Steps = 1..17
    BY <1>1 DEF Steps
  <1>3. \A i \in 1..17 : \/ i = 1 \/ i = 2 \/ i = 3 \/ i = 4 \/ i = 5 \/ i = 6
                         \/ i = 7 \/ i = 8 \/ i = 9 \/ i = 10 \/ i = 11 \/ i = 12
                         \/ i = 13 \/ i = 14 \/ i = 15 \/ i = 16 \/ i = 17
    OBVIOUS
  <1>4. /\ Plan[1].name = "roles" /\ Plan[2].name = "countries"
        /\ Plan[3].name = "ports" /\ Plan[4].name = "vessels"
        /\ Plan[5].name = "categories" /\ Plan[6].name = "products"
        /\ Plan[7].name = "impaCodes" /\ Plan[8].name = "impaLinks"
        /\ Plan[9].name = "issaCodes" /\ Plan[10].name = "issaLinks"
        /\ Plan[11].name = "tsvectors" /\ Plan[12].name = "regulations"
        /\ Plan[13].name = "suppliers" /\ Plan[14].name = "supplierLinks"
        /\ Plan[15].name = "nationalities" /\ Plan[16].name = "menus"
        /\ Plan[17].name = "users"
    BY DEF Plan, Part, RolesPart, CountriesPart, PortsPart, VesselsPart, CategoriesPart,
           ProductsPart, ImpaCodesPart, ImpaLinksPart, IssaCodesPart, IssaLinksPart,
           TsvectorsPart, RegulationsPart, SuppliersPart, SupplierLinksPart,
           NationalitiesPart, MenusPart, UsersPart
  <1>5. /\ Plan[1].kind = "safe" /\ Plan[2].kind = "safe"
        /\ Plan[3].kind = "safe" /\ Plan[4].kind = "safe"
        /\ Plan[5].kind = "safe" /\ Plan[6].kind = "unique"
        /\ Plan[7].kind = "unique" /\ Plan[8].kind = "safe"
        /\ Plan[9].kind = "unique" /\ Plan[10].kind = "safe"
        /\ Plan[11].kind = "safe" /\ Plan[12].kind = "plain"
        /\ Plan[13].kind = "safe" /\ Plan[14].kind = "unique"
        /\ Plan[15].kind = "unique" /\ Plan[16].kind = "unique"
        /\ Plan[17].kind = "unique"
    BY DEF Plan, Part, RolesPart, CountriesPart, PortsPart, VesselsPart, CategoriesPart,
           ProductsPart, ImpaCodesPart, ImpaLinksPart, IssaCodesPart, IssaLinksPart,
           TsvectorsPart, RegulationsPart, SuppliersPart, SupplierLinksPart,
           NationalitiesPart, MenusPart, UsersPart
  <1>6. ASSUME NEW i \in 1..17
        PROVE  /\ Plan[i].name = "products" <=> i = 6
               /\ Plan[i].name = "regulations" <=> i = 12
               /\ Plan[i].name = "users" <=> i = 17
    BY <1>3, <1>4
  <1>7. ASSUME NEW i \in 1..17
        PROVE  Plan[i].kind = "plain" <=> i = 12
    BY <1>3, <1>5
  <1>8. ASSUME NEW i \in 1..17
        PROVE  Plan[i].name \notin Extra
    BY <1>3, <1>4 DEF Extra
  <1> QED
    BY <1>1, <1>2, <1>5, <1>6, <1>7, <1>8

\* A part is named for one of the seeded things, and each of those is a part.
LEMMA PlanNames ==
    /\ \A i \in 1..17 : Plan[i].name \in Seeded /\ Plan[i].name \notin Extra
    /\ \A p \in Seeded : \E i \in 1..17 : p = Plan[i].name
    /\ "products" \in Seeded /\ "regulations" \in Seeded /\ "users" \in Seeded
    /\ Seeded \subseteq Parts
    /\ Extra \subseteq Parts
  <1>1. /\ \A i \in 1..17 : Plan[i].name \in Seeded
        /\ \A p \in Seeded : \E i \in 1..17 : p = Plan[i].name
    BY PlanFacts DEF Seeded
  <1>2. \A i \in 1..17 : Plan[i].name \notin Extra
    BY PlanFacts
  <1>3. "products" \in Seeded /\ "regulations" \in Seeded /\ "users" \in Seeded
    <2>1. Plan[6].name = "products" /\ Plan[12].name = "regulations" /\ Plan[17].name = "users"
      BY PlanFacts
    <2> QED
      BY <1>1, <2>1
  <1> QED
    BY <1>1, <1>2, <1>3 DEF Parts

\* Whatever a part looks up comes before it.
LEMMA PlanNeeds ==
  ASSUME NEW i \in 1..17, NEW p \in Plan[i].needs
  PROVE  \E j \in 1..(i - 1) : Plan[j].name = p
  <1>1. \/ i = 1 \/ i = 2 \/ i = 3 \/ i = 4 \/ i = 5 \/ i = 6
        \/ i = 7 \/ i = 8 \/ i = 9 \/ i = 10 \/ i = 11 \/ i = 12
        \/ i = 13 \/ i = 14 \/ i = 15 \/ i = 16 \/ i = 17
    OBVIOUS
  <1>2. /\ Plan[1].name = "roles" /\ Plan[2].name = "countries"
        /\ Plan[3].name = "ports" /\ Plan[4].name = "vessels"
        /\ Plan[5].name = "categories" /\ Plan[6].name = "products"
        /\ Plan[7].name = "impaCodes" /\ Plan[9].name = "issaCodes"
        /\ Plan[13].name = "suppliers" /\ Plan[15].name = "nationalities"
    BY DEF Plan, Part, RolesPart, CountriesPart, PortsPart, VesselsPart, CategoriesPart,
           ProductsPart, ImpaCodesPart, ImpaLinksPart, IssaCodesPart, IssaLinksPart,
           TsvectorsPart, RegulationsPart, SuppliersPart, SupplierLinksPart,
           NationalitiesPart, MenusPart, UsersPart
  <1>3. /\ Plan[1].needs = {} /\ Plan[2].needs = {} /\ Plan[3].needs = {"countries"}
        /\ Plan[4].needs = {} /\ Plan[5].needs = {} /\ Plan[6].needs = {"categories"}
        /\ Plan[7].needs = {"products"} /\ Plan[8].needs = {"products", "impaCodes"}
        /\ Plan[9].needs = {} /\ Plan[10].needs = {"products", "issaCodes"}
        /\ Plan[11].needs = {"products"} /\ Plan[12].needs = {"countries", "ports"}
        /\ Plan[13].needs = {} /\ Plan[14].needs = {"suppliers", "ports", "products"}
        /\ Plan[15].needs = {} /\ Plan[16].needs = {"nationalities", "products"}
        /\ Plan[17].needs = {"roles", "vessels"}
    BY DEF Plan, Part, RolesPart, CountriesPart, PortsPart, VesselsPart, CategoriesPart,
           ProductsPart, ImpaCodesPart, ImpaLinksPart, IssaCodesPart, IssaLinksPart,
           TsvectorsPart, RegulationsPart, SuppliersPart, SupplierLinksPart,
           NationalitiesPart, MenusPart, UsersPart
  <1>4. CASE i <= 9
    BY <1>1, <1>2, <1>3, <1>4
  <1>5. CASE i > 9
    BY <1>1, <1>2, <1>3, <1>5
  <1> QED
    BY <1>4, <1>5

-----------------------------------------------------------------------------
(* Types *)

\* There are 17 parts.
LEMMA Length == Len(Plan) = 17
  BY PlanFacts

\* Types at the start.
LEMMA InitTypes ==
  ASSUME Init
  PROVE  TypeOK /\ JobShape
  <1>1. rev \in Revision
    BY DEF Init, Revision, LastRevision
  <1>2. /\ alembic = [to |-> 0, rev |-> 0, pc |-> 1, schema |-> {}]
        /\ alembic.to = 0 /\ alembic.rev = 0 /\ alembic.pc = 1
    BY DEF Init, Idle
  <1>3. next \in 1..(Len(Plan) + 1)
    BY Length DEF Init
  <1>4. commands \in 0..MaxCommands
    BY BootstrapAssumption DEF Init
  <1>5. 0 \in Revision
    BY DEF Revision, LastRevision
  <1>6. /\ copies \in [Parts -> Nat]
        /\ freeText \in BOOLEAN /\ cut \in BOOLEAN /\ exit = "none" /\ job = "none"
    BY DEF Init
  <1>7. JobShape
    BY <1>2 DEF JobShape
  <1> QED
    BY <1>1, <1>2, <1>3, <1>4, <1>5, <1>6, <1>7 DEF TypeOK

\* How a command starts and how it ends.
LEMMA RunTypes ==
  ASSUME TypeOK, NEW j \in {"alembic", "seed", "demo", "missing"}, Run(j)
  PROVE  commands' \in 0..MaxCommands
         /\ job' \in {"none", "alembic", "seed", "demo", "missing"}
  <1>1. commands \in 0..MaxCommands /\ commands < MaxCommands /\ commands' = commands + 1
    BY DEF Run, TypeOK
  <1>2. job' = j
    BY DEF Run
  <1> QED
    BY <1>1, <1>2, BootstrapAssumption

\* Types when a command has ended.
LEMMA EndTypes ==
  ASSUME TypeOK, NEW e \in {"migrated", "unmigrated", "seeded", "added", "failed", "killed"},
         End(e), rev' \in Revision, copies' \in [Parts -> Nat], freeText' \in BOOLEAN,
         cut' \in BOOLEAN
  PROVE  TypeOK' /\ JobShape'
  <1>1. alembic' = Idle /\ next' = 1 /\ exit' = e /\ job' = "none" /\ commands' = commands
    BY DEF End
  <1>2. JobShape'
    BY <1>1 DEF Idle, JobShape
  <1>3. alembic'.to \in Revision /\ alembic'.rev \in Revision /\ alembic'.pc \in Nat
    <2>1. /\ alembic' = [to |-> 0, rev |-> 0, pc |-> 1, schema |-> {}]
          /\ alembic'.to = 0 /\ alembic'.rev = 0 /\ alembic'.pc = 1
      BY <1>1 DEF Idle
    <2> QED
      BY <2>1 DEF Revision, LastRevision
  <1>4. next' \in 1..(Len(Plan) + 1)
    BY <1>1, Length
  <1> QED
    BY <1>1, <1>2, <1>3, <1>4 DEF TypeOK

\* What the insertion of a part leaves of the counts.
LEMMA RowTypes ==
  ASSUME TypeOK, NEW i \in 1..17
  PROVE  /\ Inserted(Plan[i]) \in [Parts -> Nat]
         /\ Inserted(Plan[i])[Plan[i].name] = IF i = 12 THEN copies[Plan[i].name] + 1 ELSE 1
         /\ \A p \in Parts : p # Plan[i].name => Inserted(Plan[i])[p] = copies[p]
  <1>1. Plan[i].name \in Parts
    BY PlanNames
  <1>2. copies \in [Parts -> Nat]
    BY DEF TypeOK
  <1>3. Plan[i].kind = "plain" <=> i = 12
    BY PlanFacts
  <1> QED
    BY <1>1, <1>2, <1>3 DEF Inserted

\* Every step keeps the types.
LEMMA TypeStep ==
  ASSUME TypeOK, JobShape, Next
  PROVE  TypeOK' /\ JobShape'
  <1>1. ASSUME NEW r \in Revision, Migrate(r) PROVE TypeOK' /\ JobShape'
    <2>1. Run("alembic")
      BY <1>1 DEF Migrate
    <2>2. alembic' = [to |-> r, rev |-> rev, pc |-> 1, schema |-> schema]
          /\ UNCHANGED <<rev, next, copies, freeText, cut, exit>>
      BY <1>1 DEF Migrate, database, data
    <2>3. alembic'.to = r /\ alembic'.rev = rev /\ alembic'.pc = 1 /\ JobShape'
      BY <2>2 DEF JobShape
    <2> QED
      BY <2>1, <2>2, <2>3, RunTypes DEF TypeOK
  <1>2. CASE Statement
    <2>1. /\ alembic' = [alembic EXCEPT !.schema = After(@, Script[alembic.pc]), !.pc = @ + 1]
          /\ rev' = rev \/ rev' = alembic.rev
          /\ UNCHANGED <<job, next, copies, freeText, cut, exit, commands>>
      BY <1>2 DEF Statement, data
    <2>2. alembic' = [to |-> alembic.to, rev |-> alembic.rev, pc |-> alembic.pc + 1,
                      schema |-> After(alembic.schema, Script[alembic.pc])]
      BY <2>1 DEF JobShape
    <2>3. alembic'.to = alembic.to /\ alembic'.rev = alembic.rev
          /\ alembic'.pc = alembic.pc + 1 /\ JobShape'
      BY <2>2 DEF JobShape
    <2>4. alembic.pc + 1 \in Nat
      BY DEF TypeOK
    <2>5. rev' \in Revision
      BY <2>1 DEF TypeOK
    <2> QED
      BY <2>1, <2>3, <2>4, <2>5 DEF TypeOK
  <1>3. CASE Migrated
    <2>1. Towards \in Revision
      <3>1. alembic.rev \in 0..9 /\ alembic.to \in 0..9 /\ alembic.rev # alembic.to
        BY <1>3 DEF Migrated, AtWork, TypeOK, Revision, LastRevision
      <3>2. Towards = IF alembic.rev < alembic.to THEN alembic.rev + 1 ELSE alembic.rev - 1
        BY DEF Towards, Going
      <3> QED
        BY <3>1, <3>2 DEF Revision, LastRevision
    <2>2. PICK sch : alembic' = [alembic EXCEPT !.rev = Towards, !.pc = 1, !.schema = sch]
      BY <1>3 DEF Migrated
    <2>3. UNCHANGED <<rev, job, next, copies, freeText, cut, exit, commands>>
      BY <1>3 DEF Migrated, database, data
    <2>4. alembic' = [to |-> alembic.to, rev |-> Towards, pc |-> 1, schema |-> sch]
      BY <2>2 DEF JobShape
    <2>5. alembic'.to = alembic.to /\ alembic'.rev = Towards /\ alembic'.pc = 1 /\ JobShape'
      BY <2>4 DEF JobShape
    <2> QED
      BY <2>1, <2>3, <2>5 DEF TypeOK
  <1>4. CASE MigrationEnds
    <2>1. rev' = alembic.rev /\ End("migrated")
      BY <1>4 DEF MigrationEnds
    <2>2. \/ UNCHANGED <<copies, freeText, cut>>
          \/ copies' = [p \in Parts |-> 0] /\ freeText' = FALSE /\ cut' = FALSE
      BY <1>4 DEF MigrationEnds, data
    <2>3. [p \in Parts |-> 0] \in [Parts -> Nat]
      OBVIOUS
    <2>4. copies' \in [Parts -> Nat]
      BY <2>2, <2>3 DEF TypeOK
    <2>5. rev' \in Revision
      BY <2>1 DEF TypeOK
    <2>6. freeText' \in BOOLEAN /\ cut' \in BOOLEAN
      BY <2>2 DEF TypeOK
    <2> QED
      BY <2>1, <2>4, <2>5, <2>6, EndTypes
  <1>5. CASE MigrationFails
    <2>1. End("unmigrated") /\ rev' \in Revision /\ copies' \in [Parts -> Nat]
          /\ freeText' \in BOOLEAN /\ cut' \in BOOLEAN
      BY <1>5 DEF MigrationFails, data, TypeOK
    <2> QED
      BY <2>1, EndTypes
  <1>6. ASSUME NEW skip \in BOOLEAN, Seed(skip) PROVE TypeOK' /\ JobShape'
    <2>1. Run("seed") /\ UNCHANGED <<rev, alembic, copies, freeText, cut, exit>>
      BY <1>6 DEF Seed, database, data
    <2>2. next' \in 1..(Len(Plan) + 1)
      BY <1>6, PlanFacts DEF Seed
    <2> QED
      BY <2>1, <2>2, RunTypes DEF TypeOK, JobShape
  <1>7. CASE SeedPart
    <2>1. /\ next \in 1..17
          /\ copies' = Inserted(Plan[next])
          /\ next' = next + 1
          /\ UNCHANGED <<rev, job, alembic, freeText, cut, exit, commands>>
      BY <1>7, PlanFacts DEF SeedPart, database
    <2>2. copies' \in [Parts -> Nat]
      BY <2>1, RowTypes
    <2>3. next' \in 1..(Len(Plan) + 1)
      BY <2>1, Length
    <2> QED
      BY <2>1, <2>2, <2>3 DEF TypeOK, JobShape
  <1>8. CASE SeedFails
    <2>1. End("failed") /\ rev' \in Revision /\ copies' \in [Parts -> Nat]
          /\ freeText' \in BOOLEAN /\ cut' \in BOOLEAN
      BY <1>8 DEF SeedFails, data, TypeOK
    <2> QED
      BY <2>1, EndTypes
  <1>9. CASE SeedEnds
    <2>1. End("seeded") /\ rev' \in Revision /\ copies' \in [Parts -> Nat]
          /\ freeText' \in BOOLEAN /\ cut' \in BOOLEAN
      BY <1>9 DEF SeedEnds, data, TypeOK
    <2> QED
      BY <2>1, EndTypes
  <1>10. CASE Demo
    <2>1. Run("demo") /\ UNCHANGED <<rev, alembic, next, copies, freeText, cut, exit>>
      BY <1>10 DEF Demo, database, data
    <2> QED
      BY <2>1, RunTypes DEF TypeOK, JobShape
  <1>11. CASE DemoUsers
    <2>1. /\ copies' = [copies EXCEPT !["demoUsers"] = IF There("users") THEN @ ELSE 1]
          /\ next' = 2
          /\ UNCHANGED <<rev, job, alembic, freeText, cut, exit, commands>>
      BY <1>11 DEF DemoUsers, database
    <2>2. copies' \in [Parts -> Nat]
      BY <2>1 DEF TypeOK
    <2>3. next' \in 1..(Len(Plan) + 1)
      BY <2>1, Length
    <2> QED
      BY <2>1, <2>2, <2>3 DEF TypeOK, JobShape
  <1>12. CASE DemoSuppliers
    <2>1. End("added") /\ UNCHANGED <<rev, freeText, cut>>
      BY <1>12 DEF DemoSuppliers
    <2>2. \E more \in {0, 1} :
             copies' = [copies EXCEPT !["demoSuppliers"] = 1, !["demoLinks"] = @ + more]
      BY <1>12 DEF DemoSuppliers
    <2>3. copies \in [Parts -> Nat] /\ "demoLinks" \in Parts /\ "demoSuppliers" \in Parts
      BY DEF TypeOK, Parts, Extra
    <2>4. copies' \in [Parts -> Nat]
      BY <2>2, <2>3
    <2>5. rev' \in Revision /\ freeText' \in BOOLEAN /\ cut' \in BOOLEAN
      BY <2>1 DEF TypeOK
    <2> QED
      BY <2>1, <2>4, <2>5, EndTypes
  <1>13. CASE Missing
    <2>1. Run("missing") /\ UNCHANGED <<rev, alembic, next, copies, freeText, cut, exit>>
      BY <1>13 DEF Missing, database, data
    <2> QED
      BY <2>1, RunTypes DEF TypeOK, JobShape
  <1>14. CASE MissingUsers
    <2>1. End("added") /\ UNCHANGED <<rev, freeText, cut>>
      BY <1>14 DEF MissingUsers
    <2>2. copies' = [copies EXCEPT !["missingUsers"] =
                        IF There("roles") /\ ~There("users") THEN 1 ELSE @]
      BY <1>14 DEF MissingUsers
    <2>3. rev' \in Revision /\ copies' \in [Parts -> Nat]
          /\ freeText' \in BOOLEAN /\ cut' \in BOOLEAN
      BY <2>1, <2>2 DEF TypeOK
    <2> QED
      BY <2>1, <2>3, EndTypes
  <1>15. CASE ScriptFails
    <2>1. End("failed") /\ rev' \in Revision /\ copies' \in [Parts -> Nat]
          /\ freeText' \in BOOLEAN /\ cut' \in BOOLEAN
      BY <1>15 DEF ScriptFails, data, TypeOK
    <2> QED
      BY <2>1, EndTypes
  <1>16. CASE Killed
    <2>1. End("killed") /\ rev' \in Revision /\ copies' \in [Parts -> Nat]
          /\ freeText' \in BOOLEAN /\ cut' \in BOOLEAN
      BY <1>16 DEF Killed, data, TypeOK
    <2> QED
      BY <2>1, EndTypes
  <1>17. CASE OrderFreeText
    BY <1>17 DEF OrderFreeText, database, TypeOK, JobShape
  <1> QED
    BY <1>1, <1>2, <1>3, <1>4, <1>5, <1>6, <1>7, <1>8, <1>9, <1>10, <1>11, <1>12, <1>13,
       <1>14, <1>15, <1>16, <1>17 DEF Next

-----------------------------------------------------------------------------
(* The steps *)

\* What leaves the seeded rows alone, starts no seed and ends none well.
LEMMA Quiet ==
  ASSUME IInv, TypeOK', JobShape',
         \A p \in Seeded : copies'[p] = copies[p],
         \A p \in Single : copies'[p] <= 1,
         cut \/ Halfway => cut',
         job' # "seed",
         exit' # "seeded" \/ job' # "none" \/ (exit' = exit /\ job' = job)
  PROVE  IInv'
  <1>1. \A p \in Seeded : There(p)' <=> There(p)
    BY DEF There
  <1>2. (Populated' <=> Populated) /\ (Complete' <=> Complete)
        /\ (There("regulations")' <=> There("regulations")) /\ (There("users")' <=> There("users"))
    BY <1>1, PlanNames DEF Populated, Complete
  <1>3. SeedSoFar' /\ SeedThrough' /\ RulesStillMissing'
    BY DEF SeedSoFar, SeedThrough, RulesStillMissing
  <1>4. RulesAfterProducts'
    BY <1>2 DEF IInv, RulesAfterProducts
  <1>5. Populated /\ ~cut' => Complete
    <2>1. SUFFICES ASSUME Populated, ~cut, ~Halfway PROVE Complete
      OBVIOUS
    <2>2. CASE job = "seed" /\ next > ProductsAt
      <3>1. next \in 1..18
        BY Length DEF IInv, TypeOK
      <3>2. next = 18
        BY <2>1, <2>2, <3>1, Length DEF Halfway, ProductsAt
      <3>3. next \notin Steps
        BY <3>2, Length DEF Steps
      <3> QED
        BY <2>1, <2>2, <3>3 DEF IInv, SeedThrough
    <2> QED
      BY <2>1, <2>2 DEF IInv, Stranded
  <1>6. Stranded'
    BY <1>2, <1>5 DEF Stranded
  <1>7. AdminMeansAll'
    BY <1>1, <1>2 DEF IInv, AdminMeansAll
  <1>8. NothingTwice'
    BY DEF NothingTwice, Single
  <1>9. SeededUnlessCut'
    BY <1>1 DEF IInv, SeededUnlessCut
  <1> QED
    BY <1>3, <1>4, <1>6, <1>7, <1>8, <1>9 DEF IInv

\* A part is in the tables once or not at all.
LEMMA Counted ==
  ASSUME IInv, NEW p \in Single
  PROVE  copies[p] \in Nat /\ copies[p] <= 1
  BY DEF IInv, TypeOK, NothingTwice, Single

\* A part of the seed is committed.
LEMMA PartStep ==
  ASSUME IInv, SeedPart, TypeOK', JobShape'
  PROVE  IInv'
  <1>1. /\ job = "seed" /\ next \in 1..17
        /\ CanInsert(Plan[next])
        /\ copies' = Inserted(Plan[next])
        /\ next' = next + 1
        /\ UNCHANGED <<job, cut, exit>>
    BY PlanFacts DEF SeedPart, database
  <1> DEFINE n == Plan[next].name
  <1>2. /\ copies'[n] = IF next = 12 THEN copies[n] + 1 ELSE 1
        /\ \A p \in Parts : p # n => copies'[p] = copies[p]
    BY <1>1, RowTypes DEF IInv
  <1>3. n \in Seeded /\ n \in Parts
    BY <1>1, PlanNames
  <1>4. next = 12 => copies[n] = 0
    <2>1. SUFFICES ASSUME next = 12 PROVE copies[n] = 0
      OBVIOUS
    <2>2. n = "regulations"
      BY <1>1, <2>1, PlanFacts
    <2>3. ~There("regulations")
      BY <1>1, <2>1 DEF IInv, RulesStillMissing, ProductsAt
    <2>4. n \in Single
      BY <1>3, PlanNames DEF Single, Extra
    <2> QED
      BY <2>2, <2>3, <2>4, Counted DEF There
  <1>5. copies'[n] = 1
    BY <1>2, <1>4
  <1>6. \A p \in Single : /\ copies'[p] >= copies[p] /\ copies'[p] <= 1
                          /\ copies[p] \in Nat /\ copies'[p] \in Nat
                          /\ p \in Parts
    BY <1>2, <1>5, Counted DEF Single
  <1>7. \A p \in Seeded : p = n \/ There(p) => There(p)'
    <2>1. SUFFICES ASSUME NEW p \in Seeded, p = n \/ copies[p] > 0 PROVE copies'[p] > 0
      BY DEF There
    <2>2. p \in Single
      BY PlanNames DEF Single, Extra
    <2>3. CASE p = n
      BY <1>5, <2>3
    <2>4. CASE copies[p] > 0
      BY <1>6, <2>2, <2>4
    <2> QED
      BY <2>1, <2>3, <2>4
  <1>8. Complete => Complete'
    BY <1>7 DEF Complete
  <1>9. \A i \in 1..next : There(Plan[i].name)'
    <2>1. \A i \in 1..(next - 1) : There(Plan[i].name) /\ Plan[i].name \in Seeded
      BY <1>1, PlanFacts, PlanNames DEF IInv, SeedSoFar
    <2>2. SUFFICES ASSUME NEW i \in 1..next PROVE There(Plan[i].name)'
      OBVIOUS
    <2>3. CASE i = next
      BY <1>3, <1>7, <2>3
    <2>4. CASE i \in 1..(next - 1)
      BY <1>7, <2>1, <2>4
    <2> QED
      BY <1>1, <2>3, <2>4
  <1>10. SeedSoFar'
    BY <1>1, <1>9 DEF SeedSoFar
  <1>11. next = 17 => Complete'
    <2>1. SUFFICES ASSUME next = 17, NEW p \in Seeded PROVE There(p)'
      BY DEF Complete
    <2>2. PICK i \in 1..17 : p = Plan[i].name
      BY PlanNames
    <2> QED
      BY <1>9, <2>1, <2>2
  <1>12. SeedThrough'
    <2>1. next' \notin Steps => next = 17
      BY <1>1, PlanFacts
    <2> QED
      BY <1>11, <2>1 DEF SeedThrough
  <1>13. Populated' => Populated \/ next = 6
    <2>1. CASE next = 6
      BY <2>1
    <2>2. CASE next # 6
      <3>1. n # "products"
        BY <1>1, <2>2, PlanFacts
      <3>2. copies'["products"] = copies["products"]
        BY <1>2, <3>1, PlanNames
      <3> QED
        BY <3>2 DEF Populated, There
    <2> QED
      BY <2>1, <2>2
  <1>14. Stranded'
    <2>1. SUFFICES ASSUME Populated', ~cut PROVE Complete' \/ next' > 6
      BY <1>1 DEF Stranded, ProductsAt
    <2>2. next = 6 => next' > 6
      BY <1>1
    <2>3. Populated => Complete \/ next > 6
      BY <2>1 DEF IInv, Stranded, ProductsAt
    <2> QED
      BY <1>1, <1>8, <1>13, <2>1, <2>2, <2>3
  <1>15. There("regulations")' => There("regulations") \/ next = 12
    <2>1. CASE next # 12
      <3>1. n # "regulations"
        BY <1>1, <2>1, PlanFacts
      <3>2. copies'["regulations"] = copies["regulations"]
        BY <1>2, <3>1, PlanNames
      <3> QED
        BY <3>2 DEF There
    <2> QED
      BY <2>1
  <1>16. RulesAfterProducts'
    <2>1. There("regulations") => Populated
      BY DEF IInv, RulesAfterProducts
    <2>2. Populated => Populated'
      BY <1>7, PlanNames DEF Populated
    <2>3. next = 12 => Populated'
      <3>1. Plan[6].name = "products"
        BY PlanFacts
      <3> QED
        BY <1>1, <1>9, <3>1 DEF Populated
    <2> QED
      BY <1>15, <2>1, <2>2, <2>3 DEF RulesAfterProducts
  <1>17. RulesStillMissing'
    <2>1. SUFFICES ASSUME next' \in 7..12 PROVE ~There("regulations")'
      BY DEF RulesStillMissing, ProductsAt
    <2>2. next \in 6..11
      BY <1>1, <2>1
    <2>3. next \in 7..12 => ~There("regulations")
      BY <1>1 DEF IInv, RulesStillMissing, ProductsAt
    <2>4. next = 6 => ~There("regulations")
      <3>1. SUFFICES ASSUME next = 6 PROVE ~Populated
        BY DEF IInv, RulesAfterProducts
      <3>2. Plan[6].kind = "unique" /\ Plan[6].name = "products"
        BY PlanFacts
      <3> QED
        BY <1>1, <3>1, <3>2 DEF CanInsert, Populated
    <2> QED
      BY <1>15, <2>2, <2>3, <2>4
  <1>18. AdminMeansAll'
    <2>1. CASE next = 17
      BY <1>11, <2>1 DEF Complete, AdminMeansAll
    <2>2. CASE next # 17
      <3>1. n # "users"
        BY <1>1, <2>2, PlanFacts
      <3>2. copies'["users"] = copies["users"]
        BY <1>2, <3>1, PlanNames
      <3>3. There("users")' => There("users")
        BY <3>2 DEF There
      <3> QED
        BY <1>7, <3>3 DEF IInv, AdminMeansAll
    <2> QED
      BY <2>1, <2>2
  <1>19. NothingTwice'
    BY <1>6 DEF NothingTwice, Single
  <1>20. SeededUnlessCut'
    BY <1>1 DEF SeededUnlessCut
  <1> QED
    BY <1>10, <1>12, <1>14, <1>16, <1>17, <1>18, <1>19, <1>20 DEF IInv

\* A seed starts from the beginning, or has nothing to do.
LEMMA SeedStep ==
  ASSUME IInv, NEW skip \in BOOLEAN, Seed(skip), TypeOK', JobShape'
  PROVE  IInv'
  <1>1. /\ job = "none" /\ job' = "seed"
        /\ UNCHANGED <<copies, cut, exit>>
        /\ next' = IF skip /\ Populated THEN 18 ELSE 1
    BY Length DEF Seed, Run, database, data
  <1>2. /\ Populated' <=> Populated
        /\ Complete' <=> Complete
        /\ There("regulations")' <=> There("regulations")
    BY <1>1 DEF Populated, Complete, There
  <1>3. Populated => Complete \/ cut
    BY <1>1 DEF IInv, Stranded
  <1>4. SeedSoFar'
    <2>1. next' \in Steps => next' = 1
      BY <1>1, PlanFacts
    <2> QED
      BY <2>1 DEF SeedSoFar
  <1>5. SeedThrough'
    <2>1. next' \notin Steps => Populated
      BY <1>1, PlanFacts
    <2> QED
      BY <1>1, <1>2, <1>3, <2>1 DEF SeedThrough
  <1>6. Stranded'
    BY <1>1, <1>2, <1>3 DEF Stranded
  <1>7. RulesAfterProducts'
    BY <1>2 DEF IInv, RulesAfterProducts
  <1>8. RulesStillMissing'
    BY <1>1 DEF RulesStillMissing, ProductsAt
  <1>9. AdminMeansAll' /\ NothingTwice' /\ SeededUnlessCut'
    BY <1>1 DEF IInv, AdminMeansAll, NothingTwice, SeededUnlessCut, There
  <1> QED
    BY <1>4, <1>5, <1>6, <1>7, <1>8, <1>9 DEF IInv

\* A seed that ends well has come to its end, or had nothing to do.
LEMMA SeedEndStep ==
  ASSUME IInv, SeedEnds, TypeOK', JobShape'
  PROVE  IInv'
  <1>1. /\ job = "seed" /\ next = 18 /\ job' = "none"
        /\ UNCHANGED <<copies, cut>>
    BY Length DEF SeedEnds, End, data
  <1>2. Populated => Complete \/ cut
    BY <1>1, PlanFacts DEF IInv, SeedThrough
  <1>3. Complete \/ cut
    BY <1>1, PlanFacts DEF IInv, SeedThrough
  <1>4. /\ Populated' <=> Populated
        /\ Complete' <=> Complete
        /\ There("regulations")' <=> There("regulations")
    BY <1>1 DEF Populated, Complete, There
  <1>5. SeedSoFar' /\ SeedThrough' /\ RulesStillMissing'
    BY <1>1 DEF SeedSoFar, SeedThrough, RulesStillMissing
  <1>6. Stranded'
    BY <1>1, <1>2, <1>4 DEF Stranded
  <1>7. RulesAfterProducts'
    BY <1>4 DEF IInv, RulesAfterProducts
  <1>8. AdminMeansAll' /\ NothingTwice'
    BY <1>1 DEF IInv, AdminMeansAll, NothingTwice, There
  <1>9. SeededUnlessCut'
    BY <1>1, <1>3 DEF SeededUnlessCut, Complete, There
  <1> QED
    BY <1>5, <1>6, <1>7, <1>8, <1>9 DEF IInv

\* A migration keeps the rows or takes them all.
LEMMA MigratedStep ==
  ASSUME IInv, MigrationEnds, TypeOK', JobShape'
  PROVE  IInv'
  <1>1. /\ job = "alembic" /\ job' = "none" /\ exit' = "migrated"
        /\ (copies' = copies /\ cut' = cut) \/ copies' = [p \in Parts |-> 0]
    BY DEF MigrationEnds, End, data
  <1>2. CASE copies' = copies /\ cut' = cut
    <2>1. \A p \in Single : copies'[p] <= 1
      BY <1>2, Counted
    <2>2. cut \/ Halfway => cut'
      BY <1>1, <1>2 DEF Halfway
    <2> QED
      BY <1>1, <1>2, <2>1, <2>2, Quiet
  <1>3. CASE copies' = [p \in Parts |-> 0]
    <2>1. \A p \in Parts : copies'[p] = 0
      BY <1>3
    <2>2. \A p \in Seeded : ~There(p)'
      BY <2>1, PlanNames DEF There
    <2>3. ~There("users")' /\ ~There("regulations")' /\ ~Populated'
      BY <2>2, PlanNames DEF Populated
    <2>4. AdminMeansAll' /\ RulesAfterProducts' /\ Stranded'
      BY <2>3 DEF AdminMeansAll, RulesAfterProducts, Stranded
    <2>5. SeedSoFar' /\ SeedThrough' /\ RulesStillMissing' /\ SeededUnlessCut'
      BY <1>1 DEF SeedSoFar, SeedThrough, RulesStillMissing, SeededUnlessCut
    <2>6. NothingTwice'
      BY <2>1 DEF NothingTwice
    <2> QED
      BY <2>4, <2>5, <2>6 DEF IInv
  <1> QED
    BY <1>1, <1>2, <1>3

\* What the seed brings, no other script brings.
LEMMA SeededNotExtra == \A p \in Seeded : p \notin Extra
  BY PlanNames

\* Scripts and failures, orders and kills.
LEMMA OtherStep ==
  ASSUME IInv, Next, TypeOK', JobShape',
         ~SeedPart, ~SeedEnds, ~MigrationEnds, \A skip \in BOOLEAN : ~Seed(skip)
  PROVE  IInv'
  <1> DEFINE Alone == /\ cut \/ Halfway => cut'
                      /\ job' # "seed"
                      /\ exit' # "seeded" \/ job' # "none" \/ (exit' = exit /\ job' = job)
             Kept == /\ \A p \in Seeded : copies'[p] = copies[p]
                     /\ \A p \in Single : copies'[p] <= 1
  <1> SUFFICES Alone /\ Kept
    BY Quiet
  <1>1. copies' = copies => Kept
    BY Counted
  <1>2. ASSUME NEW r \in Revision, Migrate(r) PROVE Alone /\ Kept
    BY <1>1, <1>2 DEF Migrate, Run, data, Halfway
  <1>3. CASE Statement
    BY <1>1, <1>3 DEF Statement, AtWork, data, Halfway
  <1>4. CASE Migrated
    BY <1>1, <1>4 DEF Migrated, AtWork, data, Halfway
  <1>5. CASE MigrationFails
    BY <1>1, <1>5 DEF MigrationFails, AtWork, End, data, Halfway
  <1>6. CASE SeedFails
    BY <1>1, <1>6 DEF SeedFails, End, data
  <1>7. CASE Demo
    BY <1>1, <1>7 DEF Demo, Run, data, Halfway
  <1>8. CASE Missing
    BY <1>1, <1>8 DEF Missing, Run, data, Halfway
  <1>9. CASE ScriptFails
    BY <1>1, <1>9 DEF ScriptFails, End, data, Halfway
  <1>10. CASE Killed
    BY <1>1, <1>10 DEF Killed, End, data
  <1>11. CASE OrderFreeText
    BY <1>1, <1>11 DEF OrderFreeText, Halfway
  <1>12. /\ copies \in [Parts -> Nat]
         /\ \A p \in Single : p \in Parts /\ copies[p] <= 1 /\ p # "demoLinks"
         /\ \A p \in Seeded : /\ p \in Parts /\ p # "demoUsers" /\ p # "demoSuppliers"
                              /\ p # "demoLinks" /\ p # "missingUsers"
    BY Counted, SeededNotExtra, PlanNames DEF IInv, TypeOK, Extra, Single
  <1>13. CASE DemoUsers
    <2>1. /\ copies' = [copies EXCEPT !["demoUsers"] = IF There("users") THEN @ ELSE 1]
          /\ job = "demo" /\ UNCHANGED <<job, cut, exit>>
      BY <1>13 DEF DemoUsers, database
    <2>2. Kept
      BY <1>12, <2>1
    <2> QED
      BY <2>1, <2>2 DEF Halfway
  <1>14. CASE DemoSuppliers
    <2>1. /\ \E more \in {0, 1} :
                copies' = [copies EXCEPT !["demoSuppliers"] = 1, !["demoLinks"] = @ + more]
          /\ job = "demo" /\ job' = "none" /\ exit' = "added" /\ cut' = cut
      BY <1>14 DEF DemoSuppliers, End
    <2>2. Kept
      BY <1>12, <2>1
    <2> QED
      BY <2>1, <2>2 DEF Halfway
  <1>15. CASE MissingUsers
    <2>1. /\ copies' = [copies EXCEPT !["missingUsers"] =
                           IF There("roles") /\ ~There("users") THEN 1 ELSE @]
          /\ job = "missing" /\ job' = "none" /\ exit' = "added" /\ cut' = cut
      BY <1>15 DEF MissingUsers, End
    <2>2. Kept
      BY <1>12, <2>1
    <2> QED
      BY <2>1, <2>2 DEF Halfway
  <1> QED
    BY <1>2, <1>3, <1>4, <1>5, <1>6, <1>7, <1>8, <1>9, <1>10, <1>11, <1>13, <1>14, <1>15
       DEF Next

\* Every step keeps the invariant of the rows.
LEMMA InvStep ==
  ASSUME IInv, [Next]_vars
  PROVE  IInv'
  <1>1. CASE Next
    <2>1. TypeOK' /\ JobShape'
      BY <1>1, TypeStep DEF IInv
    <2> QED
      BY <1>1, <2>1, PartStep, SeedEndStep, MigratedStep, SeedStep, OtherStep
  <1>2. CASE UNCHANGED vars
    BY <1>2 DEF vars, IInv, TypeOK, JobShape, SeedSoFar, SeedThrough, Stranded,
       RulesAfterProducts, RulesStillMissing, AdminMeansAll, NothingTwice, SeededUnlessCut,
       Complete, Populated, There
  <1> QED
    BY <1>1, <1>2

\* It holds before any command.
LEMMA InvInit ==
  ASSUME Init
  PROVE  IInv
  <1>1. job = "none" /\ exit = "none" /\ copies = [p \in Parts |-> 0]
    BY DEF Init
  <1>2. \A p \in Seeded : ~There(p)
    BY <1>1, PlanNames DEF There
  <1>3. ~There("users") /\ ~There("regulations") /\ ~Populated
    BY <1>2, PlanNames DEF Populated
  <1>4. NothingTwice
    BY <1>1 DEF NothingTwice
  <1>5. AdminMeansAll /\ RulesAfterProducts /\ Stranded
    BY <1>3 DEF AdminMeansAll, RulesAfterProducts, Stranded
  <1>6. SeedSoFar /\ SeedThrough /\ RulesStillMissing /\ SeededUnlessCut
    BY <1>1 DEF SeedSoFar, SeedThrough, RulesStillMissing, SeededUnlessCut
  <1> QED
    BY <1>4, <1>5, <1>6, InitTypes DEF IInv

-----------------------------------------------------------------------------
(* The theorems *)

\* The inductive invariant holds in every reachable state.
THEOREM BootstrapHolds == Spec => []IInv
  <1>1. Init => IInv
    BY InvInit
  <1>2. IInv /\ [Next]_vars => IInv'
    BY InvStep
  <1> QED
    BY <1>1, <1>2, PTL DEF Spec

\* Types of the database, the running command and the rows.
THEOREM BootstrapTypes == Spec => []TypeOK
  <1>1. IInv => TypeOK
    BY DEF IInv
  <1> QED
    BY <1>1, BootstrapHolds, PTL

\* Wherever there is an administrator, all the demo data is there too.
THEOREM AdminComesLast == Spec => []AdminMeansAll
  <1>1. IInv => AdminMeansAll
    BY DEF IInv
  <1> QED
    BY <1>1, BootstrapHolds, PTL

\* However often the seed runs, fails or is killed, nothing is in the tables twice.
THEOREM SeededOnce == Spec => []NothingTwice
  <1>1. IInv => NothingTwice
    BY DEF IInv
  <1> QED
    BY <1>1, BootstrapHolds, PTL

\* A seed that ends well leaves everything behind, unless one was cut before.
THEOREM SeedIsComplete == Spec => []SeededUnlessCut
  <1>1. IInv => SeededUnlessCut
    BY DEF IInv
  <1> QED
    BY <1>1, BootstrapHolds, PTL

\* Every part of a seed finds the rows it looks up.
THEOREM LookupsHold == Spec => []LookupsSucceed
  <1>1. IInv => LookupsSucceed
    <2> SUFFICES ASSUME IInv, job = "seed", next \in Steps, NEW p \in Plan[next].needs
                 PROVE  There(p)
      BY DEF LookupsSucceed
    <2>1. next \in 1..17
      BY PlanFacts
    <2>2. PICK j \in 1..(next - 1) : Plan[j].name = p
      BY <2>1, PlanNeeds
    <2> QED
      BY <2>2 DEF IInv, SeedSoFar
  <1> QED
    BY <1>1, BootstrapHolds, PTL

-----------------------------------------------------------------------------
(* Scripts of statements *)

\* A set of naturals with a member has a least one.
LEMMA LeastNumber ==
    ASSUME NEW T, T \subseteq Nat, T # {}
    PROVE  \E x \in T : \A y \in T : x <= y
<1> DEFINE Below == {pair \in Nat \X Nat : pair[1] < pair[2]}
<1>1. IsWellFoundedOn(Below, Nat)
  BY NatLessThanWellFounded, Zenon DEF OpToRel
<1>2. \A x, y \in Nat : x < y => <<x, y>> \in Below
  OBVIOUS
<1> HIDE DEF Below
<1>3. PICK x \in T : \A y \in T : ~ (<<y, x>> \in Below)
  BY <1>1, WFMin
<1>4. \A y \in T : ~ (y < x)
  BY <1>2, <1>3
<1>5. \A y \in T : x <= y
  BY <1>4
<1> QED BY <1>5

\* A statement takes an object away.
Removes(st, x) == st.op \in {"drop", "dropExisting"} /\ GoesWith(x, st.obj)

\* What the first n statements make of s: the objects of s that none of them removes, and
\* those one of them adds and no later one removes.
Made(s, script, n) ==
    {x \in s : \A i \in 1..n : ~Removes(script[i], x)}
    \cup {script[i].obj : i \in {k \in 1..n :
              /\ script[k].op = "add"
              /\ \A j \in (k + 1)..n : ~Removes(script[j], script[k].obj)}}

\* What statements do.
Ops == {"add", "drop", "dropExisting", "commit"}

\* No statement, no change.
LEMMA MadeNone ==
    ASSUME NEW s, NEW script
    PROVE  Made(s, script, 0) = s
BY DEF Made

\* One more statement makes of it what the statement does.
LEMMA MadeStep ==
    ASSUME NEW s, NEW script, NEW n \in Nat, script[n + 1].op \in Ops
    PROVE  Made(s, script, n + 1) = After(Made(s, script, n), script[n + 1])
<1> DEFINE st == script[n + 1]
           Kept(m) == {x \in s : \A i \in 1..m : ~Removes(script[i], x)}
           Last(m) == {k \in 1..m :
                         /\ script[k].op = "add"
                         /\ \A j \in (k + 1)..m : ~Removes(script[j], script[k].obj)}
           Put(m) == {script[i].obj : i \in Last(m)}
<1>1. \A m : Made(s, script, m) = Kept(m) \cup Put(m)
  BY DEF Made
<1>2. Kept(n + 1) = {x \in Kept(n) : ~Removes(st, x)}
  OBVIOUS
<1>3. \A k \in 1..n : k \in Last(n + 1) <=> k \in Last(n) /\ ~Removes(st, script[k].obj)
  OBVIOUS
<1>4. n + 1 \in Last(n + 1) <=> st.op = "add"
  OBVIOUS
<1>5. Last(n) \subseteq 1..n /\ Last(n + 1) \subseteq 1..(n + 1)
  OBVIOUS
<1> HIDE DEF Last, Kept
<1>6. Put(n + 1) = {x \in Put(n) : ~Removes(st, x)}
                   \cup (IF st.op = "add" THEN {st.obj} ELSE {})
  <2>1. \A k \in Last(n + 1) : k \in 1..n \/ k = n + 1
    BY <1>5
  <2>2. n + 1 \notin 1..n
    OBVIOUS
  <2> HIDE DEF st
  <2>3. ASSUME NEW x \in Put(n + 1)
        PROVE  x \in {y \in Put(n) : ~Removes(st, y)} \cup (IF st.op = "add" THEN {st.obj} ELSE {})
    <3>1. PICK k \in Last(n + 1) : x = script[k].obj
      OBVIOUS
    <3>2. CASE k \in 1..n
      BY <3>1, <3>2, <1>3
    <3>3. CASE k = n + 1
      BY <3>1, <3>3, <1>4 DEF st
    <3> QED BY <2>1, <3>2, <3>3
  <2>4. ASSUME NEW x \in Put(n), ~Removes(st, x)
        PROVE  x \in Put(n + 1)
    <3>1. PICK k \in Last(n) : x = script[k].obj
      OBVIOUS
    <3>2. k \in Last(n + 1)
      BY <3>1, <1>3, <1>5, <2>4
    <3> QED BY <3>1, <3>2
  <2>5. st.op = "add" => st.obj \in Put(n + 1)
    BY <1>4 DEF st
  <2> QED BY <2>3, <2>4, <2>5
<1> HIDE DEF Put, st
<1>7. Made(s, script, n + 1) = {x \in Made(s, script, n) : ~Removes(st, x)}
                               \cup (IF st.op = "add" THEN {st.obj} ELSE {})
  BY <1>1, <1>2, <1>6
<1>8. st.op \in Ops
  BY DEF st
<1>9. After(Made(s, script, n), st) = {x \in Made(s, script, n) : ~Removes(st, x)}
                                      \cup (IF st.op = "add" THEN {st.obj} ELSE {})
  <2>1. CASE st.op = "add"
    BY <2>1 DEF After, Removes
  <2>2. CASE st.op \in {"drop", "dropExisting"}
    BY <2>2 DEF After, Removes
  <2>3. CASE st.op = "commit"
    BY <2>3 DEF After, Removes
  <2> QED BY <1>8, <2>1, <2>2, <2>3 DEF Ops
<1> QED BY <1>7, <1>9 DEF st

\* The model's recursive Result is what all its statements make.
LEMMA ResultIsMade ==
    ASSUME NEW s, NEW script, Len(script) \in Nat,
           \A i \in 1..Len(script) : script[i].op \in Ops
    PROVE  Result(s, script) = Made(s, script, Len(script))
<1> DEFINE N == Len(script)
           Good(f) == f = [i \in 0..N |-> IF i = 0 THEN s ELSE After(f[i - 1], script[i])]
           g == [i \in 0..N |-> Made(s, script, i)]
           h == CHOOSE f : Good(f)
<1>1. Result(s, script) = h[N]
  BY Zenon DEF Result
<1>2. Good(g)
  <2>1. ASSUME NEW i \in 1..N PROVE Made(s, script, i) = After(Made(s, script, i - 1), script[i])
    <3>1. i - 1 \in Nat /\ (i - 1) + 1 = i
      OBVIOUS
    <3>2. script[(i - 1) + 1].op \in Ops
      BY <3>1
    <3>3. Made(s, script, (i - 1) + 1) = After(Made(s, script, i - 1), script[(i - 1) + 1])
      BY <3>1, <3>2, MadeStep
    <3> QED BY <3>1, <3>3
  <2>2. \A i \in 0..N : i = 0 \/ (i \in 1..N /\ i - 1 \in 0..N)
    OBVIOUS
  <2>3. Made(s, script, 0) = s
    BY MadeNone
  <2> QED BY <2>1, <2>2, <2>3
<1> HIDE DEF Good
<1>3. Good(h)
  BY <1>2
<1> HIDE DEF h
<1>4. h = [i \in 0..N |-> IF i = 0 THEN s ELSE After(h[i - 1], script[i])]
  BY <1>3 DEF Good
<1>5. g = [i \in 0..N |-> IF i = 0 THEN s ELSE After(g[i - 1], script[i])]
  BY <1>2 DEF Good
<1>6. \A i \in 0..N : h[i] = g[i]
  <2> DEFINE T == {i \in 0..N : h[i] # g[i]}
  <2>1. SUFFICES ASSUME T # {} PROVE FALSE
    OBVIOUS
  <2>0. T \subseteq Nat
    OBVIOUS
  <2>2. PICK i \in T : \A k \in T : i <= k
    BY <2>0, <2>1, LeastNumber
  <2> HIDE DEF g
  <2>3. i # 0
    BY <2>2, <1>4, <1>5
  <2>4. i - 1 \in 0..N /\ i - 1 \notin T
    BY <2>2, <2>3
  <2>5. h[i - 1] = g[i - 1]
    BY <2>4
  <2>6. h[i] = After(h[i - 1], script[i]) /\ g[i] = After(g[i - 1], script[i])
    BY <2>2, <2>3, <1>4, <1>5
  <2> QED BY <2>2, <2>5, <2>6
<1> QED BY <1>1, <1>6

-----------------------------------------------------------------------------
\* A sequence of whatever it holds.
IsList(os) == os \in Seq(ToSetOf(os))

\* Sequences that are written out.
LEMMA ShortLists ==
    /\ \A a : IsList(<<a>>) /\ ToSetOf(<<a>>) = {a} /\ Len(<<a>>) = 1
    /\ \A a, b : IsList(<<a, b>>) /\ ToSetOf(<<a, b>>) = {a, b} /\ Len(<<a, b>>) = 2
    /\ \A a, b, c : IsList(<<a, b, c>>) /\ ToSetOf(<<a, b, c>>) = {a, b, c} /\ Len(<<a, b, c>>) = 3
    /\ \A a, b, c, d : IsList(<<a, b, c, d>>) /\ ToSetOf(<<a, b, c, d>>) = {a, b, c, d}
                       /\ Len(<<a, b, c, d>>) = 4
<1>1. 1..1 = {1} /\ 1..2 = {1, 2} /\ 1..3 = {1, 2, 3} /\ 1..4 = {1, 2, 3, 4}
  OBVIOUS
<1>2. ASSUME NEW a PROVE ToSetOf(<<a>>) = {a} /\ Len(<<a>>) = 1
  BY <1>1 DEF ToSetOf
<1>3. ASSUME NEW a, NEW b PROVE ToSetOf(<<a, b>>) = {a, b} /\ Len(<<a, b>>) = 2
  BY <1>1 DEF ToSetOf
<1>4. ASSUME NEW a, NEW b, NEW c PROVE ToSetOf(<<a, b, c>>) = {a, b, c} /\ Len(<<a, b, c>>) = 3
  BY <1>1 DEF ToSetOf
<1>5. ASSUME NEW a, NEW b, NEW c, NEW d
      PROVE  ToSetOf(<<a, b, c, d>>) = {a, b, c, d} /\ Len(<<a, b, c, d>>) = 4
  BY <1>1 DEF ToSetOf
<1>6. ASSUME NEW a PROVE IsList(<<a>>)
  <2>1. <<a>> \in Seq({a})
    OBVIOUS
  <2> QED BY <2>1, <1>2 DEF IsList
<1>7. ASSUME NEW a, NEW b PROVE IsList(<<a, b>>)
  <2>1. <<a, b>> \in Seq({a, b})
    OBVIOUS
  <2> QED BY <2>1, <1>3 DEF IsList
<1>8. ASSUME NEW a, NEW b, NEW c PROVE IsList(<<a, b, c>>)
  <2>1. <<a, b, c>> \in Seq({a, b, c})
    OBVIOUS
  <2> QED BY <2>1, <1>4 DEF IsList
<1>9. ASSUME NEW a, NEW b, NEW c, NEW d PROVE IsList(<<a, b, c, d>>)
  <2>1. <<a, b, c, d>> \in Seq({a, b, c, d})
    OBVIOUS
  <2> QED BY <2>1, <1>5 DEF IsList
<1> QED BY <1>2, <1>3, <1>4, <1>5, <1>6, <1>7, <1>8, <1>9

\* One list after the other.
LEMMA Concatenated ==
    ASSUME NEW a, IsList(a), NEW b, IsList(b)
    PROVE  /\ IsList(a \o b)
           /\ ToSetOf(a \o b) = ToSetOf(a) \cup ToSetOf(b)
           /\ Len(a \o b) = Len(a) + Len(b)
           /\ \A i \in 1..Len(a) : (a \o b)[i] = a[i]
           /\ \A i \in 1..Len(b) : (a \o b)[i + Len(a)] = b[i]
<1> DEFINE X == ToSetOf(a) \cup ToSetOf(b)
<1>0. a \in Seq(X) /\ b \in Seq(X)
  <2> DEFINE A == ToSetOf(a)
             B == ToSetOf(b)
  <2>1. a \in Seq(A) /\ b \in Seq(B)
    BY DEF IsList
  <2> HIDE DEF A, B
  <2>2. a \in Seq(A \cup B) /\ b \in Seq(A \cup B)
    BY <2>1
  <2> QED BY <2>2 DEF A, B
<1> HIDE DEF X
<1>1. Len(a \o b) = Len(a) + Len(b) /\ a \o b \in Seq(X) /\ Len(a) \in Nat /\ Len(b) \in Nat
  BY <1>0
<1>2. \A i \in 1..Len(a) : i \in 1..Len(a \o b) /\ (a \o b)[i] = a[i]
  BY <1>0
<1>3. \A i \in 1..Len(b) : i + Len(a) \in 1..Len(a \o b) /\ (a \o b)[i + Len(a)] = b[i]
  BY <1>0
<1>4. \A i \in 1..Len(a \o b) :
        i \in 1..Len(a) \/ (i - Len(a) \in 1..Len(b) /\ (i - Len(a)) + Len(a) = i)
  BY <1>1
<1>5. ToSetOf(a \o b) \subseteq ToSetOf(a) \cup ToSetOf(b)
  <2>1. ASSUME NEW i \in 1..Len(a \o b) PROVE (a \o b)[i] \in ToSetOf(a) \cup ToSetOf(b)
    <3>1. CASE i \in 1..Len(a)
      BY <3>1, <1>2 DEF ToSetOf
    <3>2. CASE i - Len(a) \in 1..Len(b) /\ (i - Len(a)) + Len(a) = i
      <4> DEFINE j == i - Len(a)
      <4>1. (a \o b)[i] = b[j]
        BY <3>2, <1>3
      <4>2. j \in 1..Len(b)
        BY <3>2
      <4> HIDE DEF j
      <4> QED BY <4>1, <4>2 DEF ToSetOf
    <3> QED BY <3>1, <3>2, <1>4
  <2> QED BY <2>1 DEF ToSetOf
<1>6. ToSetOf(a) \subseteq ToSetOf(a \o b)
  BY <1>2, Zenon DEF ToSetOf
<1>7. ToSetOf(b) \subseteq ToSetOf(a \o b)
  BY <1>3, Zenon DEF ToSetOf
<1>8. ToSetOf(a \o b) = X
  BY <1>5, <1>6, <1>7 DEF X
<1>9. IsList(a \o b)
  BY <1>8, <1>1 DEF IsList
<1> QED BY <1>1, <1>2, <1>3, <1>8, <1>9 DEF X

\* A list that is built index by index.
LEMMA Listed ==
    ASSUME NEW n \in Nat, NEW os, os = [i \in 1..n |-> os[i]]
    PROVE  IsList(os) /\ Len(os) = n /\ ToSetOf(os) = {os[i] : i \in 1..n}
<1> DEFINE X == {os[i] : i \in 1..n}
<1>1. \A i \in 1..n : os[i] \in X
  OBVIOUS
<1> HIDE DEF X
<1>2. os \in Seq(X) /\ Len(os) = n
  BY <1>1
<1>3. ToSetOf(os) = X
  BY <1>2 DEF ToSetOf, X
<1> QED BY <1>2, <1>3 DEF IsList, X

\* The statements that add or drop the objects of a list.
LEMMA StatementLists ==
    ASSUME NEW os, IsList(os)
    PROVE  /\ IsList(Adds(os)) /\ IsList(Drops(os)) /\ IsList(DropsBack(os))
           /\ Len(Adds(os)) = Len(os) /\ Len(Drops(os)) = Len(os) /\ Len(DropsBack(os)) = Len(os)
           /\ ToSetOf(Adds(os)) = {Add(o) : o \in ToSetOf(os)}
           /\ ToSetOf(Drops(os)) = {Drop(o) : o \in ToSetOf(os)}
           /\ ToSetOf(DropsBack(os)) = {Drop(o) : o \in ToSetOf(os)}
           /\ \A i \in 1..Len(os) : Adds(os)[i] = Add(os[i]) /\ Drops(os)[i] = Drop(os[i])
<1> DEFINE N == Len(os)
<1>1. N \in Nat
  BY DEF IsList
<1>2. Adds(os) = [i \in 1..N |-> Add(os[i])] /\ Drops(os) = [i \in 1..N |-> Drop(os[i])]
      /\ DropsBack(os) = [i \in 1..N |-> Drop(os[N + 1 - i])]
  BY DEF Adds, Drops, DropsBack, N
<1>3. ToSetOf(os) = {os[i] : i \in 1..N}
  BY DEF ToSetOf, N
<1> HIDE DEF N
<1>4. \A i \in 1..N : N + 1 - i \in 1..N /\ N + 1 - (N + 1 - i) = i
  BY <1>1
<1>5. IsList(Adds(os)) /\ Len(Adds(os)) = N /\ ToSetOf(Adds(os)) = {Add(o) : o \in ToSetOf(os)}
  <2>1. Adds(os) = [i \in 1..N |-> Adds(os)[i]]
    BY <1>2
  <2>2. IsList(Adds(os)) /\ Len(Adds(os)) = N /\ ToSetOf(Adds(os)) = {Adds(os)[i] : i \in 1..N}
    BY <2>1, <1>1, Listed
  <2>3. {Adds(os)[i] : i \in 1..N} = {Add(os[i]) : i \in 1..N}
    BY <1>2
  <2>4. {Add(os[i]) : i \in 1..N} = {Add(o) : o \in ToSetOf(os)}
    BY <1>3
  <2> QED BY <2>2, <2>3, <2>4
<1>6. IsList(Drops(os)) /\ Len(Drops(os)) = N /\ ToSetOf(Drops(os)) = {Drop(o) : o \in ToSetOf(os)}
  <2>1. Drops(os) = [i \in 1..N |-> Drops(os)[i]]
    BY <1>2
  <2>2. IsList(Drops(os)) /\ Len(Drops(os)) = N /\ ToSetOf(Drops(os)) = {Drops(os)[i] : i \in 1..N}
    BY <2>1, <1>1, Listed
  <2>3. {Drops(os)[i] : i \in 1..N} = {Drop(os[i]) : i \in 1..N}
    BY <1>2
  <2>4. {Drop(os[i]) : i \in 1..N} = {Drop(o) : o \in ToSetOf(os)}
    BY <1>3
  <2> QED BY <2>2, <2>3, <2>4
<1>7. IsList(DropsBack(os)) /\ Len(DropsBack(os)) = N
       /\ ToSetOf(DropsBack(os)) = {Drop(o) : o \in ToSetOf(os)}
  <2>1. DropsBack(os) = [i \in 1..N |-> DropsBack(os)[i]]
    BY <1>2
  <2>2. /\ IsList(DropsBack(os)) /\ Len(DropsBack(os)) = N
        /\ ToSetOf(DropsBack(os)) = {DropsBack(os)[i] : i \in 1..N}
    BY <2>1, <1>1, Listed
  <2>3. {Drop(os[N + 1 - i]) : i \in 1..N} = {Drop(os[i]) : i \in 1..N}
    BY <1>4
  <2>4. {DropsBack(os)[i] : i \in 1..N} = {Drop(os[N + 1 - i]) : i \in 1..N}
    BY <1>2
  <2>5. {Drop(os[i]) : i \in 1..N} = {Drop(o) : o \in ToSetOf(os)}
    BY <1>3
  <2> QED BY <2>2, <2>3, <2>4, <2>5
<1> QED BY <1>2, <1>5, <1>6, <1>7 DEF N

\* The constraints that 0007 lifts.
Lifted == {NotNull("order_items", "product_id"), NotNull("rfq_items", "product_id")}

\* What revision r brings.
Gained(r) ==
    CASE r = 2 -> ToSetOf(AisReports)
      [] r = 3 -> ToSetOf(SimEvents)
      [] r = 4 -> ToSetOf(Visibility)
      [] r = 5 -> ToSetOf(OrderColumns) \cup {OrdersIndex} \cup ToSetOf(RfqImpa)
                  \cup ToSetOf(QuoteColumns) \cup {MethodCheck, DeadlineIndex}
                  \cup ToSetOf(LineStatus) \cup ToSetOf(Decisions) \cup ToSetOf(Assignments)
      [] r = 7 -> {Departure} \cup ToSetOf(OrderImpa) \cup ToSetOf(DeclineColumns)
                  \cup {DeclineCheck}
      [] OTHER -> {}

\* The lists of objects the revisions are written with.
LEMMA RevisionLists ==
    /\ IsList(AisReports) /\ ToSetOf(AisReports) = {AisReports[1], AisReports[2]}
    /\ IsList(SimEvents) /\ ToSetOf(SimEvents) = {SimEvents[1], SimEvents[2]}
    /\ IsList(Visibility)
    /\ ToSetOf(Visibility) = {Visibility[1], Visibility[2], Visibility[3], Visibility[4]}
    /\ IsList(RfqImpa) /\ ToSetOf(RfqImpa) = {RfqImpa[1], RfqImpa[2]}
    /\ IsList(OrderImpa) /\ ToSetOf(OrderImpa) = {OrderImpa[1], OrderImpa[2]}
    /\ IsList(LineStatus) /\ ToSetOf(LineStatus) = {LineStatus[1], LineStatus[2], LineStatus[3]}
    /\ IsList(Decisions) /\ ToSetOf(Decisions) = {Decisions[1], Decisions[2]}
    /\ IsList(Assignments)
    /\ ToSetOf(Assignments) = {Assignments[1], Assignments[2], Assignments[3]}
    /\ IsList(OrderColumns)
    /\ ToSetOf(OrderColumns) = {OrderColumns[1], OrderColumns[2], OrderColumns[3]}
    /\ IsList(QuoteColumns)
    /\ ToSetOf(QuoteColumns) = {QuoteColumns[1], QuoteColumns[2], QuoteColumns[3]}
    /\ IsList(DeclineColumns)
    /\ ToSetOf(DeclineColumns) = {DeclineColumns[1], DeclineColumns[2], DeclineColumns[3]}
    /\ IsList(Markup) /\ Len(Markup) = 3 /\ Len(DeclineColumns) = 3
<1>1. IsList(AisReports) /\ ToSetOf(AisReports) = {AisReports[1], AisReports[2]}
  BY ShortLists DEF AisReports
<1>2. IsList(SimEvents) /\ ToSetOf(SimEvents) = {SimEvents[1], SimEvents[2]}
  BY ShortLists DEF SimEvents
<1>3. /\ IsList(Visibility)
      /\ ToSetOf(Visibility) = {Visibility[1], Visibility[2], Visibility[3], Visibility[4]}
  BY ShortLists DEF Visibility
<1>4. IsList(RfqImpa) /\ ToSetOf(RfqImpa) = {RfqImpa[1], RfqImpa[2]}
  BY ShortLists DEF RfqImpa
<1>5. IsList(OrderImpa) /\ ToSetOf(OrderImpa) = {OrderImpa[1], OrderImpa[2]}
  BY ShortLists DEF OrderImpa
<1>6. IsList(LineStatus) /\ ToSetOf(LineStatus) = {LineStatus[1], LineStatus[2], LineStatus[3]}
  BY ShortLists DEF LineStatus
<1>7. IsList(Decisions) /\ ToSetOf(Decisions) = {Decisions[1], Decisions[2]}
  BY ShortLists DEF Decisions
<1>8. /\ IsList(Assignments)
      /\ ToSetOf(Assignments) = {Assignments[1], Assignments[2], Assignments[3]}
  BY ShortLists DEF Assignments
<1>9. /\ IsList(OrderColumns)
      /\ ToSetOf(OrderColumns) = {OrderColumns[1], OrderColumns[2], OrderColumns[3]}
  BY ShortLists DEF OrderColumns
<1>10. /\ IsList(QuoteColumns)
       /\ ToSetOf(QuoteColumns) = {QuoteColumns[1], QuoteColumns[2], QuoteColumns[3]}
  BY ShortLists DEF QuoteColumns
<1>11. /\ IsList(DeclineColumns) /\ Len(DeclineColumns) = 3
       /\ ToSetOf(DeclineColumns) = {DeclineColumns[1], DeclineColumns[2], DeclineColumns[3]}
  BY ShortLists DEF DeclineColumns
<1>12. IsList(Markup) /\ Len(Markup) = 3
  BY ShortLists DEF Markup
<1> QED BY <1>1, <1>2, <1>3, <1>4, <1>5, <1>6, <1>7, <1>8, <1>9, <1>10, <1>11, <1>12

\* They are lists.
LEMMA Lists ==
    /\ IsList(AisReports)
    /\ IsList(SimEvents)
    /\ IsList(Visibility)
    /\ IsList(RfqImpa)
    /\ IsList(OrderImpa)
    /\ IsList(LineStatus)
    /\ IsList(Decisions)
    /\ IsList(Assignments)
    /\ IsList(OrderColumns)
    /\ IsList(QuoteColumns)
    /\ IsList(DeclineColumns)
    /\ IsList(Markup)
BY RevisionLists, Zenon

\* A list of drops at the end of a script.
LEMMA DropsAppended ==
    ASSUME NEW a, IsList(a), NEW os, IsList(os)
    PROVE  /\ IsList(a \o DropsBack(os))
           /\ ToSetOf(a \o DropsBack(os)) = ToSetOf(a) \cup {Drop(o) : o \in ToSetOf(os)}
<1>1. IsList(DropsBack(os)) /\ ToSetOf(DropsBack(os)) = {Drop(o) : o \in ToSetOf(os)}
  BY StatementLists
<1> QED BY <1>1, Concatenated

\* The statements of the revisions, in no order.
LEMMA Upgrades ==
    /\ \A r \in 2..5 : IsList(Upgrade(r)) /\ ToSetOf(Upgrade(r)) = {Add(o) : o \in Gained(r)}
    /\ IsList(Upgrade(6)) /\ ToSetOf(Upgrade(6)) = {}
    /\ IsList(Upgrade(7))
    /\ ToSetOf(Upgrade(7)) = {Add(o) : o \in Gained(7)} \cup {DropExisting(o) : o \in Lifted}
    /\ IsList(Upgrade(8)) /\ ToSetOf(Upgrade(8)) = {Commit}
<1>1. \A r \in 2..4 : IsList(Upgrade(r)) /\ ToSetOf(Upgrade(r)) = {Add(o) : o \in Gained(r)}
  <2>1. IsList(Upgrade(2)) /\ ToSetOf(Upgrade(2)) = {Add(o) : o \in Gained(2)}
    BY RevisionLists, StatementLists DEF Upgrade, Gained
  <2>2. IsList(Upgrade(3)) /\ ToSetOf(Upgrade(3)) = {Add(o) : o \in Gained(3)}
    BY RevisionLists, StatementLists DEF Upgrade, Gained
  <2>3. IsList(Upgrade(4)) /\ ToSetOf(Upgrade(4)) = {Add(o) : o \in Gained(4)}
    BY RevisionLists, StatementLists DEF Upgrade, Gained
  <2>4. \A r \in 2..4 : r = 2 \/ r = 3 \/ r = 4
    OBVIOUS
  <2> QED BY <2>1, <2>2, <2>3, <2>4, Zenon
<1>2. IsList(Upgrade(5)) /\ ToSetOf(Upgrade(5)) = {Add(o) : o \in Gained(5)}
  <2> DEFINE a == OrderColumns \o <<OrdersIndex>>
             b == a \o RfqImpa
             c == b \o QuoteColumns
             d == c \o <<MethodCheck, DeadlineIndex>>
             e == d \o LineStatus
             f == e \o Decisions
             g == f \o Assignments
  <2>1. IsList(a) /\ ToSetOf(a) = ToSetOf(OrderColumns) \cup {OrdersIndex}
    <3>1. IsList(<<OrdersIndex>>) /\ ToSetOf(<<OrdersIndex>>) = {OrdersIndex}
      BY ShortLists
    <3> QED BY <3>1, Lists, Concatenated
  <2> HIDE DEF a
  <2>2. IsList(b) /\ ToSetOf(b) = ToSetOf(a) \cup ToSetOf(RfqImpa)
    BY <2>1, Lists, Concatenated
  <2> HIDE DEF b
  <2>3. IsList(c) /\ ToSetOf(c) = ToSetOf(b) \cup ToSetOf(QuoteColumns)
    BY <2>2, Lists, Concatenated
  <2> HIDE DEF c
  <2>4. IsList(d) /\ ToSetOf(d) = ToSetOf(c) \cup {MethodCheck, DeadlineIndex}
    BY <2>3, ShortLists, Concatenated
  <2> HIDE DEF d
  <2>5. IsList(e) /\ ToSetOf(e) = ToSetOf(d) \cup ToSetOf(LineStatus)
    BY <2>4, Lists, Concatenated
  <2> HIDE DEF e
  <2>6. IsList(f) /\ ToSetOf(f) = ToSetOf(e) \cup ToSetOf(Decisions)
    BY <2>5, Lists, Concatenated
  <2> HIDE DEF f
  <2>7. IsList(g) /\ ToSetOf(g) = ToSetOf(f) \cup ToSetOf(Assignments)
    BY <2>6, Lists, Concatenated
  <2>8. ToSetOf(g) = Gained(5)
    <3>1. Gained(5) = ToSetOf(OrderColumns) \cup {OrdersIndex} \cup ToSetOf(RfqImpa)
                      \cup ToSetOf(QuoteColumns) \cup {MethodCheck, DeadlineIndex}
                      \cup ToSetOf(LineStatus) \cup ToSetOf(Decisions) \cup ToSetOf(Assignments)
      BY DEF Gained
    <3> QED BY <2>1, <2>2, <2>3, <2>4, <2>5, <2>6, <2>7, <3>1, Zenon
  <2>9. Upgrade(5) = Adds(g)
    <3>1. Upgrade(5) = Upgrade0005
      BY DEF Upgrade
    <3> QED BY <3>1, Zenon DEF Upgrade0005, a, b, c, d, e, f
  <2> HIDE DEF g
  <2> QED BY <2>7, <2>8, <2>9, StatementLists
<1>3. IsList(Upgrade(6)) /\ ToSetOf(Upgrade(6)) = {}
  BY DEF Upgrade, IsList, ToSetOf
<1>4. IsList(Upgrade(8)) /\ ToSetOf(Upgrade(8)) = {Commit}
  BY ShortLists DEF Upgrade
<1>5. /\ IsList(Upgrade(7))
      /\ ToSetOf(Upgrade(7)) = {Add(o) : o \in Gained(7)} \cup {DropExisting(o) : o \in Lifted}
  <2> DEFINE a == <<Add(Departure), DropExisting(NotNull("order_items", "product_id"))>>
             b == a \o Adds(OrderImpa)
             l == <<DropExisting(NotNull("rfq_items", "product_id"))>>
             c == b \o l
             k == DeclineColumns \o <<DeclineCheck>>
             d == c \o Adds(k)
  <2>1. IsList(a)
        /\ ToSetOf(a) = {Add(Departure), DropExisting(NotNull("order_items", "product_id"))}
    BY ShortLists
  <2> HIDE DEF a
  <2>2. IsList(Adds(OrderImpa)) /\ ToSetOf(Adds(OrderImpa)) = {Add(o) : o \in ToSetOf(OrderImpa)}
    BY RevisionLists, StatementLists
  <2>3. IsList(b) /\ ToSetOf(b) = ToSetOf(a) \cup {Add(o) : o \in ToSetOf(OrderImpa)}
    BY <2>1, <2>2, Concatenated
  <2> HIDE DEF b
  <2>4. IsList(l) /\ ToSetOf(l) = {DropExisting(NotNull("rfq_items", "product_id"))}
    BY ShortLists
  <2> HIDE DEF l
  <2>5. IsList(c) /\ ToSetOf(c) = ToSetOf(b) \cup ToSetOf(l)
    BY <2>3, <2>4, Concatenated
  <2> HIDE DEF c
  <2>6. IsList(k) /\ ToSetOf(k) = ToSetOf(DeclineColumns) \cup {DeclineCheck}
    <3>1. IsList(<<DeclineCheck>>) /\ ToSetOf(<<DeclineCheck>>) = {DeclineCheck}
      BY ShortLists
    <3> QED BY <3>1, Lists, Concatenated
  <2> HIDE DEF k
  <2>7. IsList(Adds(k)) /\ ToSetOf(Adds(k)) = {Add(o) : o \in ToSetOf(k)}
    BY <2>6, StatementLists
  <2>8. IsList(d) /\ ToSetOf(d) = ToSetOf(c) \cup {Add(o) : o \in ToSetOf(k)}
    BY <2>5, <2>7, Concatenated
  <2>9. Upgrade(7) = d
    <3>1. Upgrade(7) = Upgrade0007
      BY DEF Upgrade
    <3> QED BY <3>1, Zenon DEF Upgrade0007, a, b, c, l, k
  <2> HIDE DEF d
  <2>10. Gained(7) = {Departure} \cup ToSetOf(OrderImpa) \cup ToSetOf(k)
    BY <2>6 DEF Gained
  <2>11. ToSetOf(d) = {Add(Departure), DropExisting(NotNull("order_items", "product_id"))}
                      \cup {Add(o) : o \in ToSetOf(OrderImpa)}
                      \cup {DropExisting(NotNull("rfq_items", "product_id"))}
                      \cup {Add(o) : o \in ToSetOf(k)}
    BY <2>1, <2>3, <2>4, <2>5, <2>8
  <2>12. {DropExisting(o) : o \in Lifted} = {DropExisting(NotNull("order_items", "product_id")),
                                            DropExisting(NotNull("rfq_items", "product_id"))}
    BY DEF Lifted
  <2>13. {Add(o) : o \in Gained(7)} = {Add(Departure)} \cup {Add(o) : o \in ToSetOf(OrderImpa)}
                                      \cup {Add(o) : o \in ToSetOf(k)}
    BY <2>10
  <2> QED BY <2>8, <2>9, <2>11, <2>12, <2>13
<1>6. \A r \in 2..5 : r \in 2..4 \/ r = 5
  OBVIOUS
<1> QED BY <1>1, <1>2, <1>3, <1>4, <1>5, <1>6

\* The statements of the downgrades.
LEMMA Downgrades ==
    /\ \A r \in 2..5 : IsList(Downgrade(r)) /\ ToSetOf(Downgrade(r)) = {Drop(o) : o \in Gained(r)}
    /\ IsList(Downgrade(6)) /\ ToSetOf(Downgrade(6)) = {}
    /\ IsList(Downgrade(7))
    /\ ToSetOf(Downgrade(7)) = {Drop(o) : o \in Gained(7)} \cup {Add(o) : o \in Lifted}
    /\ IsList(Downgrade(8)) /\ ToSetOf(Downgrade(8)) = {}
<1>1. \A r \in 2..4 : IsList(Downgrade(r)) /\ ToSetOf(Downgrade(r)) = {Drop(o) : o \in Gained(r)}
  <2>1. IsList(Downgrade(2)) /\ ToSetOf(Downgrade(2)) = {Drop(o) : o \in Gained(2)}
    BY RevisionLists, StatementLists DEF Downgrade, Gained
  <2>2. IsList(Downgrade(3)) /\ ToSetOf(Downgrade(3)) = {Drop(o) : o \in Gained(3)}
    BY RevisionLists, StatementLists DEF Downgrade, Gained
  <2>3. IsList(Downgrade(4)) /\ ToSetOf(Downgrade(4)) = {Drop(o) : o \in Gained(4)}
    BY RevisionLists, StatementLists DEF Downgrade, Gained
  <2>4. \A r \in 2..4 : r = 2 \/ r = 3 \/ r = 4
    OBVIOUS
  <2> QED BY <2>1, <2>2, <2>3, <2>4, Zenon
<1>2. IsList(Downgrade(5)) /\ ToSetOf(Downgrade(5)) = {Drop(o) : o \in Gained(5)}
  <2> DEFINE m == <<LineStatus[3], LineStatus[2], LineStatus[1], DeadlineIndex, MethodCheck>>
             a == DropsBack(Assignments) \o DropsBack(Decisions)
             b == a \o Drops(m)
             c == b \o DropsBack(QuoteColumns)
             d == c \o DropsBack(RfqImpa)
             o == <<OrdersIndex>>
             e == d \o Drops(o)
             f == e \o DropsBack(OrderColumns)
             S(x) == {Drop(y) : y \in x}
  <2>1. IsList(a) /\ ToSetOf(a) = S(ToSetOf(Assignments)) \cup S(ToSetOf(Decisions))
    <3>1. IsList(DropsBack(Assignments)) /\ ToSetOf(DropsBack(Assignments)) = S(ToSetOf(Assignments))
      BY Lists, StatementLists
    <3> QED BY <3>1, Lists, DropsAppended
  <2> HIDE DEF a
  <2>2. IsList(m) /\ ToSetOf(m) = ToSetOf(LineStatus) \cup {MethodCheck, DeadlineIndex}
    <3>1. m \in Seq({LineStatus[3], LineStatus[2], LineStatus[1], DeadlineIndex, MethodCheck})
      OBVIOUS
    <3>2. Len(m) = 5 /\ 1..5 = {1, 2, 3, 4, 5}
      OBVIOUS
    <3>3. ToSetOf(m) = {LineStatus[3], LineStatus[2], LineStatus[1], DeadlineIndex, MethodCheck}
      BY <3>2 DEF ToSetOf
    <3> QED BY <3>1, <3>3, RevisionLists DEF IsList
  <2> HIDE DEF m
  <2>3. IsList(b) /\ ToSetOf(b) = ToSetOf(a) \cup S(ToSetOf(m))
    BY <2>1, <2>2, StatementLists, Concatenated
  <2> HIDE DEF b
  <2>4. IsList(c) /\ ToSetOf(c) = ToSetOf(b) \cup S(ToSetOf(QuoteColumns))
    BY <2>3, Lists, DropsAppended
  <2> HIDE DEF c
  <2>5. IsList(d) /\ ToSetOf(d) = ToSetOf(c) \cup S(ToSetOf(RfqImpa))
    BY <2>4, Lists, DropsAppended
  <2> HIDE DEF d
  <2>6. IsList(o) /\ ToSetOf(o) = {OrdersIndex}
    BY ShortLists
  <2> HIDE DEF o
  <2>7. IsList(e) /\ ToSetOf(e) = ToSetOf(d) \cup S(ToSetOf(o))
    BY <2>5, <2>6, StatementLists, Concatenated
  <2> HIDE DEF e
  <2>8. IsList(f) /\ ToSetOf(f) = ToSetOf(e) \cup S(ToSetOf(OrderColumns))
    BY <2>7, Lists, DropsAppended
  <2>9. Downgrade(5) = f
    <3>1. Downgrade(5) = Downgrade0005
      BY DEF Downgrade
    <3> QED BY <3>1, Zenon DEF Downgrade0005, a, b, c, d, e, m, o
  <2> HIDE DEF f
  <2>10. Gained(5) = ToSetOf(OrderColumns) \cup ToSetOf(o) \cup ToSetOf(RfqImpa)
                     \cup ToSetOf(QuoteColumns) \cup ToSetOf(m)
                     \cup ToSetOf(Decisions) \cup ToSetOf(Assignments)
    <3>1. Gained(5) = ToSetOf(OrderColumns) \cup {OrdersIndex} \cup ToSetOf(RfqImpa)
                      \cup ToSetOf(QuoteColumns) \cup {MethodCheck, DeadlineIndex}
                      \cup ToSetOf(LineStatus) \cup ToSetOf(Decisions) \cup ToSetOf(Assignments)
      BY DEF Gained
    <3> QED BY <3>1, <2>2, <2>6, Zenon
  <2>11. \A x, y : S(x \cup y) = S(x) \cup S(y)
    OBVIOUS
  <2>12. S(Gained(5)) = S(ToSetOf(OrderColumns)) \cup S(ToSetOf(o)) \cup S(ToSetOf(RfqImpa))
                     \cup S(ToSetOf(QuoteColumns)) \cup S(ToSetOf(m))
                     \cup S(ToSetOf(Decisions)) \cup S(ToSetOf(Assignments))
    <3> HIDE DEF S
    <3> DEFINE g1 == ToSetOf(OrderColumns) \cup ToSetOf(o)
               g2 == g1 \cup ToSetOf(RfqImpa)
               g3 == g2 \cup ToSetOf(QuoteColumns)
               g4 == g3 \cup ToSetOf(m)
               g5 == g4 \cup ToSetOf(Decisions)
               g6 == g5 \cup ToSetOf(Assignments)
    <3>1. Gained(5) = g6
      BY <2>10
    <3>2. S(g1) = S(ToSetOf(OrderColumns)) \cup S(ToSetOf(o))
      BY <2>11, Zenon
    <3> HIDE DEF g1
    <3>3. S(g2) = S(g1) \cup S(ToSetOf(RfqImpa))
      BY <2>11, Zenon
    <3> HIDE DEF g2
    <3>4. S(g3) = S(g2) \cup S(ToSetOf(QuoteColumns))
      BY <2>11, Zenon
    <3> HIDE DEF g3
    <3>5. S(g4) = S(g3) \cup S(ToSetOf(m))
      BY <2>11, Zenon
    <3> HIDE DEF g4
    <3>6. S(g5) = S(g4) \cup S(ToSetOf(Decisions))
      BY <2>11, Zenon
    <3> HIDE DEF g5
    <3>7. S(g6) = S(g5) \cup S(ToSetOf(Assignments))
      BY <2>11, Zenon
    <3> HIDE DEF g6
    <3> QED BY <3>1, <3>2, <3>3, <3>4, <3>5, <3>6, <3>7
  <2>13. ToSetOf(f) = S(Gained(5))
    <3> HIDE DEF S
    <3> QED BY <2>1, <2>3, <2>4, <2>5, <2>7, <2>8, <2>12, Zenon
  <2> QED BY <2>8, <2>9, <2>13
<1>3. IsList(Downgrade(6)) /\ ToSetOf(Downgrade(6)) = {}
  BY DEF Downgrade, IsList, ToSetOf
<1>4. IsList(Downgrade(8)) /\ ToSetOf(Downgrade(8)) = {}
  BY DEF Downgrade, IsList, ToSetOf
<1>5. /\ IsList(Downgrade(7))
      /\ ToSetOf(Downgrade(7)) = {Drop(o) : o \in Gained(7)} \cup {Add(o) : o \in Lifted}
  <2> DEFINE n1 == NotNull("order_items", "product_id")
             n2 == NotNull("rfq_items", "product_id")
             k == <<DeclineCheck>>
             a == Drops(k) \o DropsBack(DeclineColumns)
             l == <<Add(n2)>>
             b == a \o l
             c == b \o DropsBack(OrderImpa)
             z == <<Add(n1), Drop(Departure)>>
             d == c \o z
             S(x) == {Drop(y) : y \in x}
  <2>1. IsList(k) /\ ToSetOf(k) = {DeclineCheck}
    BY ShortLists
  <2> HIDE DEF k
  <2>2. IsList(a) /\ ToSetOf(a) = S(ToSetOf(k)) \cup S(ToSetOf(DeclineColumns))
    <3>1. IsList(Drops(k)) /\ ToSetOf(Drops(k)) = S(ToSetOf(k))
      BY <2>1, StatementLists
    <3> QED BY <3>1, Lists, DropsAppended
  <2> HIDE DEF a
  <2>3. IsList(l) /\ ToSetOf(l) = {Add(n2)}
    BY ShortLists
  <2> HIDE DEF l
  <2>4. IsList(b) /\ ToSetOf(b) = ToSetOf(a) \cup ToSetOf(l)
    BY <2>2, <2>3, Concatenated
  <2> HIDE DEF b
  <2>5. IsList(c) /\ ToSetOf(c) = ToSetOf(b) \cup S(ToSetOf(OrderImpa))
    BY <2>4, Lists, DropsAppended
  <2> HIDE DEF c
  <2>6. IsList(z) /\ ToSetOf(z) = {Add(n1), Drop(Departure)}
    BY ShortLists
  <2> HIDE DEF z
  <2>7. IsList(d) /\ ToSetOf(d) = ToSetOf(c) \cup ToSetOf(z)
    BY <2>5, <2>6, Concatenated
  <2>8. Downgrade(7) = d
    <3>1. Downgrade(7) = Downgrade0007
      BY DEF Downgrade
    <3> QED BY <3>1, Zenon DEF Downgrade0007, a, b, c, l, k, z
  <2> HIDE DEF d
  <2>9. Gained(7) = {Departure} \cup ToSetOf(OrderImpa) \cup ToSetOf(DeclineColumns) \cup ToSetOf(k)
    BY <2>1 DEF Gained
  <2>10. S(Gained(7)) = {Drop(Departure)} \cup S(ToSetOf(OrderImpa)) \cup S(ToSetOf(DeclineColumns))
                        \cup S(ToSetOf(k))
    BY <2>9
  <2>11. {Add(y) : y \in Lifted} = {Add(n1), Add(n2)}
    BY DEF Lifted
  <2>12. ToSetOf(d) = S(Gained(7)) \cup {Add(y) : y \in Lifted}
    <3> HIDE DEF S, n1, n2
    <3> QED BY <2>2, <2>3, <2>4, <2>5, <2>6, <2>7, <2>10, <2>11
  <2> QED BY <2>7, <2>8, <2>12
<1>6. \A r \in 2..5 : r \in 2..4 \/ r = 5
  OBVIOUS
<1> QED BY <1>1, <1>2, <1>3, <1>4, <1>5, <1>6

-----------------------------------------------------------------------------
(* What the scripts make *)

\* A script that removes nothing it adds makes the same whatever the order.
LEMMA MadeInAnyOrder ==
    ASSUME NEW s, NEW script, IsList(script),
           \A st \in ToSetOf(script) : st.op \in Ops,
           \A st, later \in ToSetOf(script) : st.op = "add" => ~Removes(later, st.obj)
    PROVE  Result(s, script) =
               {x \in s : \A st \in ToSetOf(script) : ~Removes(st, x)}
               \cup {st.obj : st \in {z \in ToSetOf(script) : z.op = "add"}}
<1> DEFINE N == Len(script)
<1>1. N \in Nat /\ \A i \in 1..N : script[i] \in ToSetOf(script)
  BY DEF IsList, ToSetOf
<1>2. ToSetOf(script) = {script[i] : i \in 1..N}
  BY DEF ToSetOf
<1>3. Result(s, script) = Made(s, script, N)
  BY <1>1, ResultIsMade
<1> HIDE DEF N
<1>4. \A i \in 1..N : \A j \in (i + 1)..N : j \in 1..N
  BY <1>1
<1>5. \A i \in 1..N : script[i].op = "add" =>
                        \A j \in (i + 1)..N : ~Removes(script[j], script[i].obj)
  BY <1>1, <1>4
<1>6. {k \in 1..N : /\ script[k].op = "add"
                    /\ \A j \in (k + 1)..N : ~Removes(script[j], script[k].obj)}
      = {k \in 1..N : script[k].op = "add"}
  BY <1>5
<1>7. {script[i].obj : i \in {k \in 1..N : script[k].op = "add"}}
      = {st.obj : st \in {z \in ToSetOf(script) : z.op = "add"}}
  BY <1>2
<1>8. {x \in s : \A i \in 1..N : ~Removes(script[i], x)}
      = {x \in s : \A st \in ToSetOf(script) : ~Removes(st, x)}
  BY <1>2
<1> QED BY <1>3, <1>6, <1>7, <1>8 DEF Made

\* Adding things.
LEMMA AddsMade ==
    ASSUME NEW s, NEW script, NEW os, IsList(script), ToSetOf(script) = {Add(o) : o \in os}
    PROVE  Result(s, script) = s \cup os
<1>1. \A o : Add(o).op = "add" /\ Add(o).obj = o
  BY DEF Add
<1>2. \A st \in ToSetOf(script) : st.op = "add"
  BY <1>1
<1>3. \A st \in ToSetOf(script) : \A x : ~Removes(st, x)
  BY <1>2 DEF Removes
<1>4. {st.obj : st \in {z \in ToSetOf(script) : z.op = "add"}} = os
  BY <1>1
<1>5. Result(s, script) =
               {x \in s : \A st \in ToSetOf(script) : ~Removes(st, x)}
               \cup {st.obj : st \in {z \in ToSetOf(script) : z.op = "add"}}
  BY <1>2, <1>3, MadeInAnyOrder DEF Ops
<1> QED BY <1>3, <1>4, <1>5

\* Dropping things.
LEMMA DropsMade ==
    ASSUME NEW s, NEW script, NEW os, IsList(script), ToSetOf(script) = {Drop(o) : o \in os}
    PROVE  Result(s, script) = {x \in s : \A o \in os : ~GoesWith(x, o)}
<1>1. \A o : Drop(o).op = "drop" /\ Drop(o).obj = o
  BY DEF Drop
<1>2. \A st \in ToSetOf(script) : st.op = "drop"
  BY <1>1
<1>3. \A o, x : Removes(Drop(o), x) <=> GoesWith(x, o)
  BY <1>1 DEF Removes
<1>5. Result(s, script) =
               {x \in s : \A st \in ToSetOf(script) : ~Removes(st, x)}
               \cup {st.obj : st \in {z \in ToSetOf(script) : z.op = "add"}}
  BY <1>2, MadeInAnyOrder DEF Ops
<1>6. {z \in ToSetOf(script) : z.op = "add"} = {}
  BY <1>2
<1>7. \A x : (\A st \in ToSetOf(script) : ~Removes(st, x)) <=> (\A o \in os : ~GoesWith(x, o))
  BY <1>3
<1> QED BY <1>5, <1>6, <1>7

-----------------------------------------------------------------------------
(* Objects that have nothing to do with each other *)

\* Names of what an early version has.
EarlyTables == {"products", "suppliers", "orders", "rfqs", "order_items", "rfq_items",
                "supplier_quotes", "quote_items", "bid_comparisons"}
EarlyColumns == {"score", "is_awarded", "is_rejected", "rejection_reason"}

\* What an early version has.
LEMMA EarlyProfile ==
    \A x \in Early :
        \/ x.kind = "table" /\ x.table = x.name /\ x.name \in EarlyTables
        \/ x.kind = "column" /\ x.table = "supplier_quotes" /\ x.name \in EarlyColumns
        \/ x.kind = "notNull" /\ x.table \in {"order_items", "rfq_items"} /\ x \in Lifted
<1>1. \A x \in Shared : x.kind = "table" /\ x.table = x.name /\ x.name \in EarlyTables
  BY DEF Shared, Products, Table, EarlyTables
<1>2. \A x \in Columns("supplier_quotes", {"score", "is_awarded", "is_rejected", "rejection_reason"}) :
        x.kind = "column" /\ x.table = "supplier_quotes" /\ x.name \in EarlyColumns
  BY DEF Columns, Column, EarlyColumns
<1>3. \A x \in {Table("bid_comparisons", {"rfqs"})} :
        x.kind = "table" /\ x.table = x.name /\ x.name \in EarlyTables
  BY DEF Table, EarlyTables
<1>4. \A x \in Lifted : x.kind = "notNull" /\ x.table \in {"order_items", "rfq_items"}
  BY DEF Lifted, NotNull
<1> QED BY <1>1, <1>2, <1>3, <1>4, Zenon DEF Early, Lifted

\* What 0002 to 0004 bring.
LEMMA EventsProfile ==
    /\ \A x \in Gained(2) : x.table = "ais_position_reports"
                            /\ (x.kind = "table" => x.name = x.table)
                            /\ x.kind \in {"table", "key"} /\ x.on = {}
    /\ \A x \in Gained(3) : /\ x.table = "market_sim_events"
                            /\ \/ x.kind = "table" /\ x.name = x.table
                               \/ x.kind = "key" /\ x.name = "indexes" /\ x.on = {}
    /\ \A x \in Gained(4) : /\ x.table = "market_sim_events"
                            /\ \/ x.kind = "column"
                               \/ x.kind = "key" /\ x.name # "indexes"
<1>1. Gained(2) = {AisReports[1], AisReports[2]}
  BY RevisionLists DEF Gained
<1>2. Gained(3) = {SimEvents[1], SimEvents[2]}
  BY RevisionLists DEF Gained
<1>3. Gained(4) = {Visibility[1], Visibility[2], Visibility[3], Visibility[4]}
  BY RevisionLists DEF Gained
<1>4. \A x \in {AisReports[1], AisReports[2]} : x.table = "ais_position_reports"
                            /\ (x.kind = "table" => x.name = x.table)
                            /\ x.kind \in {"table", "key"} /\ x.on = {}
  BY DEF AisReports, Table, Key
<1>5. \A x \in {SimEvents[1], SimEvents[2]} :
                            /\ x.table = "market_sim_events"
                            /\ \/ x.kind = "table" /\ x.name = x.table
                               \/ x.kind = "key" /\ x.name = "indexes" /\ x.on = {}
  BY DEF SimEvents, Table, Key
<1>6. \A x \in {Visibility[1], Visibility[2], Visibility[3], Visibility[4]} :
                            /\ x.table = "market_sim_events"
                            /\ \/ x.kind = "column"
                               \/ x.kind = "key" /\ x.name # "indexes"
  BY DEF Visibility, Column, Key
<1> QED BY <1>1, <1>2, <1>3, <1>4, <1>5, <1>6

\* What 0005 and 0007 bring.
LEMMA DecisionsProfile ==
    /\ \A x \in Gained(5) :
         \/ /\ x.kind = "table" /\ x.name = x.table
            /\ x.name \in {"order_decisions", "supplier_line_assignments"}
         \/ /\ x.kind = "key"
            /\ \/ x.table \notin {"order_items", "supplier_quotes"}
               \/ x.table = "supplier_quotes" /\ x.name # DeclineCheck.name
                  /\ x.on \subseteq {"decision_method", "preparation_deadline"}
            /\ x.table \notin {"ais_position_reports", "market_sim_events"}
            /\ x.table = "orders" => x.on = {}
         \/ x.kind = "column" /\ x.table = "orders" /\ x.name # "etd_at_port"
         \/ x.kind = "column" /\ x.table \in {"rfq_items", "quote_items"}
         \/ /\ x.kind = "column" /\ x.table = "supplier_quotes"
            /\ x.name \in {"decision_method", "confirmed_at", "preparation_deadline"}
    /\ \A x \in Gained(7) :
         \/ x.kind = "column" /\ x.table = "orders" /\ x.name = "etd_at_port"
         \/ x.kind \in {"column", "key"} /\ x.table = "order_items"
         \/ /\ x.kind = "column" /\ x.table = "supplier_quotes"
            /\ x.name \in {"can_deliver_in_window", "declined_at", "decline_reason"}
         \/ x.kind = "key" /\ x.table = "supplier_quotes" /\ x.name = DeclineCheck.name
<1> DEFINE P(x) ==
         \/ /\ x.kind = "table" /\ x.name = x.table
            /\ x.name \in {"order_decisions", "supplier_line_assignments"}
         \/ /\ x.kind = "key"
            /\ \/ x.table \notin {"order_items", "supplier_quotes"}
               \/ x.table = "supplier_quotes" /\ x.name # DeclineCheck.name
                  /\ x.on \subseteq {"decision_method", "preparation_deadline"}
            /\ x.table \notin {"ais_position_reports", "market_sim_events"}
            /\ x.table = "orders" => x.on = {}
         \/ x.kind = "column" /\ x.table = "orders" /\ x.name # "etd_at_port"
         \/ x.kind = "column" /\ x.table \in {"rfq_items", "quote_items"}
         \/ /\ x.kind = "column" /\ x.table = "supplier_quotes"
            /\ x.name \in {"decision_method", "confirmed_at", "preparation_deadline"}
<1>1. \A x \in {OrderColumns[1], OrderColumns[2], OrderColumns[3]} : P(x)
  BY DEF OrderColumns, Column
<1>2. \A x \in {OrdersIndex, MethodCheck, DeadlineIndex} : P(x)
  BY DEF OrdersIndex, MethodCheck, DeadlineIndex, DeclineCheck, Key
<1>3. \A x \in {RfqImpa[1], RfqImpa[2]} : P(x)
  BY DEF RfqImpa, Column, Key
<1>4. \A x \in {QuoteColumns[1], QuoteColumns[2], QuoteColumns[3]} : P(x)
  BY DEF QuoteColumns, Column
<1>5. \A x \in {LineStatus[1], LineStatus[2], LineStatus[3]} : P(x)
  BY DEF LineStatus, Column, Key
<1>6. \A x \in {Decisions[1], Decisions[2]} : P(x)
  BY DEF Decisions, Table, Key
<1>7. \A x \in {Assignments[1], Assignments[2], Assignments[3]} : P(x)
  BY DEF Assignments, Table, Key
<1> HIDE DEF P
<1>8. Gained(5) = ToSetOf(OrderColumns) \cup {OrdersIndex} \cup ToSetOf(RfqImpa)
                  \cup ToSetOf(QuoteColumns) \cup {MethodCheck, DeadlineIndex}
                  \cup ToSetOf(LineStatus) \cup ToSetOf(Decisions) \cup ToSetOf(Assignments)
  BY DEF Gained
<1>9. \A x \in Gained(5) : P(x)
  BY <1>1, <1>2, <1>3, <1>4, <1>5, <1>6, <1>7, <1>8, RevisionLists
<1> DEFINE Q(x) ==
         \/ x.kind = "column" /\ x.table = "orders" /\ x.name = "etd_at_port"
         \/ x.kind \in {"column", "key"} /\ x.table = "order_items"
         \/ /\ x.kind = "column" /\ x.table = "supplier_quotes"
            /\ x.name \in {"can_deliver_in_window", "declined_at", "decline_reason"}
         \/ x.kind = "key" /\ x.table = "supplier_quotes" /\ x.name = DeclineCheck.name
<1>10. Q(Departure) /\ Q(DeclineCheck)
  BY DEF Departure, DeclineCheck, Column, Key
<1>11. \A x \in {OrderImpa[1], OrderImpa[2]} : Q(x)
  BY DEF OrderImpa, Column, Key
<1>12. \A x \in {DeclineColumns[1], DeclineColumns[2], DeclineColumns[3]} : Q(x)
  BY DEF DeclineColumns, Column
<1> HIDE DEF Q
<1>13. Gained(7) = {Departure} \cup ToSetOf(OrderImpa) \cup ToSetOf(DeclineColumns)
                  \cup {DeclineCheck}
  BY DEF Gained
<1>14. \A x \in Gained(7) : Q(x)
  BY <1>10, <1>11, <1>12, <1>13, RevisionLists
<1> QED BY <1>9, <1>14 DEF P, Q

\* Nothing in a set goes with any object of another one.
Apart(s, os) == \A x \in s : \A o \in os : ~GoesWith(x, o)

\* Whatever a revision brings is apart from all that was there before it.
LEMMA AllApart ==
    /\ \A r \in {2, 3, 4, 5, 7} : Apart(Early, Gained(r))
    /\ \A r \in {3, 4, 5, 7} : Apart(Gained(2), Gained(r))
    /\ \A r \in {4, 5, 7} : Apart(Gained(3), Gained(r))
    /\ \A r \in {5, 7} : Apart(Gained(4), Gained(r))
    /\ Apart(Gained(5), Gained(7))
<1> USE DEF GoesWith, Same
<1>1. Apart(Early, Gained(2)) /\ Apart(Early, Gained(3)) /\ Apart(Early, Gained(4))
  BY EarlyProfile, EventsProfile DEF Apart, EarlyTables
<1>2. Apart(Early, Gained(5))
  BY EarlyProfile, DecisionsProfile DEF Apart, EarlyTables, EarlyColumns
<1>3. Apart(Early, Gained(7))
  BY EarlyProfile, DecisionsProfile DEF Apart, EarlyColumns
<1>4. Apart(Gained(2), Gained(3)) /\ Apart(Gained(2), Gained(4)) /\ Apart(Gained(3), Gained(4))
  BY EventsProfile DEF Apart
<1>5. Apart(Gained(2), Gained(5)) /\ Apart(Gained(3), Gained(5)) /\ Apart(Gained(4), Gained(5))
  BY EventsProfile, DecisionsProfile DEF Apart
<1>6. Apart(Gained(2), Gained(7)) /\ Apart(Gained(3), Gained(7)) /\ Apart(Gained(4), Gained(7))
  BY EventsProfile, DecisionsProfile DEF Apart
<1>7. Apart(Gained(5), Gained(7))
  BY DecisionsProfile DEF Apart
<1> QED BY <1>1, <1>2, <1>3, <1>4, <1>5, <1>6, <1>7

\* What is apart stays, what is dropped itself goes.
LEMMA BackAgain ==
    ASSUME NEW s, NEW os, Apart(s, os)
    PROVE  {x \in s \cup os : \A o \in os : ~GoesWith(x, o)} = s
<1>1. \A x : GoesWith(x, x)
  BY DEF GoesWith, Same
<1> QED BY <1>1 DEF Apart

-----------------------------------------------------------------------------
(* The schema at each revision *)

\* The recursion of SchemaAt: there is such a function, written out revision by revision.
LEMMA SchemaSteps ==
    ASSUME NEW m
    PROVE  /\ SchemaAt(m)[0] = {} /\ SchemaAt(m)[1] = m
           /\ \A r \in 2..9 : SchemaAt(m)[r] = Result(SchemaAt(m)[r - 1], Upgrade(r))
<1> DEFINE Good(f) == f = [r \in Revision |-> IF r = 0 THEN {}
                                              ELSE IF r = 1 THEN m
                                              ELSE Result(f[r - 1], Upgrade(r))]
<1>1. SchemaAt(m) = CHOOSE f : Good(f)
  BY Zenon DEF SchemaAt
<1>2. \E f : Good(f)
  <2> DEFINE s2 == Result(m, Upgrade(2))
             s3 == Result(s2, Upgrade(3))
             s4 == Result(s3, Upgrade(4))
             s5 == Result(s4, Upgrade(5))
             s6 == Result(s5, Upgrade(6))
             s7 == Result(s6, Upgrade(7))
             s8 == Result(s7, Upgrade(8))
             s9 == Result(s8, Upgrade(9))
             w == [r \in Revision |->
                     CASE r = 0 -> {} [] r = 1 -> m [] r = 2 -> s2 [] r = 3 -> s3 [] r = 4 -> s4
                       [] r = 5 -> s5 [] r = 6 -> s6 [] r = 7 -> s7 [] r = 8 -> s8 [] r = 9 -> s9]
  <2>1. Good(w)
    BY DEF Revision, LastRevision
  <2> QED BY <2>1
<1>3. Good(SchemaAt(m))
  <2> HIDE DEF Good
  <2> QED BY <1>1, <1>2
<1> DEFINE f == SchemaAt(m)
<1>4. f = [r \in Revision |-> IF r = 0 THEN {} ELSE IF r = 1 THEN m
                              ELSE Result(f[r - 1], Upgrade(r))]
  BY <1>3
<1> HIDE DEF f
<1>5. /\ f[0] = {} /\ f[1] = m
      /\ \A r \in 2..9 : f[r] = Result(f[r - 1], Upgrade(r))
  BY <1>4 DEF Revision, LastRevision
<1> QED BY <1>5 DEF f

\* The schema of an early version's database at each revision.
At == SchemaAt(Early)

\* What an early version's database has at each revision.
LEMMA EarlySchemas ==
    /\ At[1] = Early
    /\ \A r \in 2..5 : At[r] = At[r - 1] \cup Gained(r)
    /\ At[6] = At[5]
    /\ At[7] = (At[6] \ Lifted) \cup Gained(7)
    /\ At[8] = At[7]
    /\ \A r \in 2..5 : Apart(At[r - 1], Gained(r))
    /\ Apart(At[6], Gained(7))
    /\ Lifted \subseteq At[6]
    /\ \A x \in At[6] : x.kind = "notNull" => x \in Lifted
<1>1. /\ At[1] = Early
      /\ \A r \in 2..9 : At[r] = Result(At[r - 1], Upgrade(r))
  BY SchemaSteps DEF At
<1>2. ASSUME NEW r \in 2..5 PROVE At[r] = At[r - 1] \cup Gained(r)
  <2>1. At[r] = Result(At[r - 1], Upgrade(r))
    BY <1>1
  <2> QED BY <2>1, Upgrades, AddsMade
<1>3. At[6] = At[5]
  <2>1. At[6] = Result(At[5], Upgrade(6))
    BY <1>1
  <2>2. ToSetOf(Upgrade(6)) = {Add(o) : o \in {}} /\ IsList(Upgrade(6))
    BY Upgrades
  <2>3. At[6] = At[5] \cup {}
    <3> DEFINE none == {}
    <3>1. ToSetOf(Upgrade(6)) = {Add(o) : o \in none}
      BY <2>2
    <3> HIDE DEF none
    <3>2. Result(At[5], Upgrade(6)) = At[5] \cup none
      BY <2>2, <3>1, AddsMade
    <3> QED BY <2>1, <3>2 DEF none
  <2> QED BY <2>3
<1>4. At[2] = Early \cup Gained(2)
  BY <1>1, <1>2
<1>5. At[3] = Early \cup Gained(2) \cup Gained(3)
  BY <1>2, <1>4
<1>6. At[4] = Early \cup Gained(2) \cup Gained(3) \cup Gained(4)
  BY <1>2, <1>5
<1>7. At[6] = Early \cup Gained(2) \cup Gained(3) \cup Gained(4) \cup Gained(5)
  BY <1>2, <1>3, <1>6
<1>8. \A r \in 2..5 : Apart(At[r - 1], Gained(r))
  <2>1. Apart(At[1], Gained(2)) /\ Apart(At[2], Gained(3)) /\ Apart(At[3], Gained(4))
        /\ Apart(At[4], Gained(5))
    BY <1>1, <1>4, <1>5, <1>6, AllApart DEF Apart
  <2>2. \A r \in 2..5 : r = 2 \/ r = 3 \/ r = 4 \/ r = 5
    OBVIOUS
  <2> QED BY <2>1, <2>2
<1>9. Apart(At[6], Gained(7))
  BY <1>7, AllApart DEF Apart
<1>10. Lifted \subseteq At[6]
  BY <1>7 DEF Early, Lifted
<1>11. \A x \in At[6] : x.kind = "notNull" => x \in Lifted
  BY <1>7, EarlyProfile, EventsProfile, DecisionsProfile
<1>12. At[7] = (At[6] \ Lifted) \cup Gained(7)
  <2> DEFINE up == Upgrade(7)
  <2>1. IsList(up)
        /\ ToSetOf(up) = {Add(o) : o \in Gained(7)} \cup {DropExisting(o) : o \in Lifted}
    BY Upgrades
  <2>2. At[7] = Result(At[6], up)
    BY <1>1
  <2> HIDE DEF up
  <2>3. /\ \A o : Add(o).op = "add" /\ Add(o).obj = o
        /\ \A o : DropExisting(o).op = "dropExisting" /\ DropExisting(o).obj = o
    BY DEF Add, DropExisting
  <2>4. \A st \in ToSetOf(up) : st.op \in Ops
    BY <2>1, <2>3 DEF Ops
  <2>5. \A o \in Lifted : \A x : GoesWith(x, o) => x.kind = "notNull"
    BY DEF GoesWith, Same, Lifted, NotNull
  <2>6. \A x \in Gained(7) : x.kind # "notNull"
    BY DecisionsProfile
  <2>7. \A st, later \in ToSetOf(up) : st.op = "add" => ~Removes(later, st.obj)
    BY <2>1, <2>3, <2>5, <2>6 DEF Removes
  <2>8. \A x : GoesWith(x, x)
    BY DEF GoesWith, Same
  <2>9. \A x \in At[6] : (\A st \in ToSetOf(up) : ~Removes(st, x)) <=> x \notin Lifted
    <3>1. ASSUME NEW x \in At[6], NEW o \in Lifted, GoesWith(x, o) PROVE x \in Lifted
      BY <3>1, <2>5, <1>11
    <3>2. ASSUME NEW x \in Lifted PROVE \E st \in ToSetOf(up) : Removes(st, x)
      <4>1. DropExisting(x) \in ToSetOf(up)
        BY <2>1
      <4>2. Removes(DropExisting(x), x)
        BY <2>3, <2>8 DEF Removes
      <4> QED BY <4>1, <4>2
    <3>3. ASSUME NEW x \in At[6], NEW st \in ToSetOf(up), Removes(st, x) PROVE x \in Lifted
      BY <3>1, <3>3, <2>1, <2>3 DEF Removes
    <3> QED BY <3>2, <3>3
  <2>10. {st.obj : st \in {z \in ToSetOf(up) : z.op = "add"}} = Gained(7)
    <3>1. {z \in ToSetOf(up) : z.op = "add"} = {Add(o) : o \in Gained(7)}
      BY <2>1, <2>3
    <3> QED BY <3>1, <2>3
  <2>11. Result(At[6], up) = {x \in At[6] : \A st \in ToSetOf(up) : ~Removes(st, x)}
                             \cup {st.obj : st \in {z \in ToSetOf(up) : z.op = "add"}}
    BY <2>1, <2>4, <2>7, MadeInAnyOrder
  <2> QED BY <2>2, <2>9, <2>10, <2>11
<1>13. At[8] = At[7]
  <2> DEFINE up == Upgrade(8)
  <2>1. IsList(up) /\ ToSetOf(up) = {Commit} /\ Commit.op = "commit"
    BY Upgrades DEF Commit
  <2>2. At[8] = Result(At[7], up)
    BY <1>1
  <2> HIDE DEF up
  <2>3. Result(At[7], up) = {x \in At[7] : \A st \in ToSetOf(up) : ~Removes(st, x)}
                             \cup {st.obj : st \in {z \in ToSetOf(up) : z.op = "add"}}
    BY <2>1, MadeInAnyOrder DEF Ops
  <2>4. \A x : ~Removes(Commit, x)
    BY <2>1 DEF Removes
  <2> QED BY <2>1, <2>2, <2>3, <2>4
<1> QED BY <1>1, <1>2, <1>3, <1>8, <1>9, <1>10, <1>11, <1>12, <1>13

\* A downgrade leads back to what the revision before it has.
LEMMA DowngradeUndoes ==
    \A r \in 2..8 : Result(At[r], Downgrade(r)) = At[r - 1]
<1>1. ASSUME NEW r \in 2..5 PROVE Result(At[r], Downgrade(r)) = At[r - 1]
  <2>1. IsList(Downgrade(r)) /\ ToSetOf(Downgrade(r)) = {Drop(o) : o \in Gained(r)}
    BY Downgrades
  <2>2. Result(At[r], Downgrade(r)) = {x \in At[r] : \A o \in Gained(r) : ~GoesWith(x, o)}
    BY <2>1, DropsMade
  <2>3. At[r] = At[r - 1] \cup Gained(r) /\ Apart(At[r - 1], Gained(r))
    BY EarlySchemas
  <2> QED BY <2>2, <2>3, BackAgain
<1>2. ASSUME NEW s, NEW script, IsList(script), ToSetOf(script) = {} PROVE Result(s, script) = s
  <2> DEFINE none == {}
  <2>1. ToSetOf(script) = {Add(o) : o \in none}
    BY <1>2
  <2> HIDE DEF none
  <2>2. Result(s, script) = s \cup none
    BY <1>2, <2>1, AddsMade
  <2> QED BY <2>2 DEF none
<1>3. Result(At[6], Downgrade(6)) = At[5]
  BY <1>2, Downgrades, EarlySchemas
<1>4. Result(At[8], Downgrade(8)) = At[7]
  BY <1>2, Downgrades, EarlySchemas
<1>5. Result(At[7], Downgrade(7)) = At[6]
  <2> DEFINE down == Downgrade(7)
             kept == At[6] \ Lifted
  <2>1. IsList(down)
        /\ ToSetOf(down) = {Drop(o) : o \in Gained(7)} \cup {Add(o) : o \in Lifted}
    BY Downgrades
  <2> HIDE DEF down
  <2>2. /\ \A o : Add(o).op = "add" /\ Add(o).obj = o
        /\ \A o : Drop(o).op = "drop" /\ Drop(o).obj = o
    BY DEF Add, Drop
  <2>3. \A st \in ToSetOf(down) : st.op \in Ops
    BY <2>1, <2>2 DEF Ops
  <2>4. Lifted \subseteq At[6] /\ Apart(At[6], Gained(7)) /\ At[7] = kept \cup Gained(7)
    BY EarlySchemas
  <2>5. \A st, later \in ToSetOf(down) : st.op = "add" => ~Removes(later, st.obj)
    BY <2>1, <2>2, <2>4 DEF Removes, Apart
  <2>6. Result(At[7], down) = {x \in At[7] : \A st \in ToSetOf(down) : ~Removes(st, x)}
                             \cup {st.obj : st \in {z \in ToSetOf(down) : z.op = "add"}}
    BY <2>1, <2>3, <2>5, MadeInAnyOrder
  <2>7. {st.obj : st \in {z \in ToSetOf(down) : z.op = "add"}} = Lifted
    <3>1. {z \in ToSetOf(down) : z.op = "add"} = {Add(o) : o \in Lifted}
      BY <2>1, <2>2
    <3> QED BY <3>1, <2>2
  <2>8. \A x : (\A st \in ToSetOf(down) : ~Removes(st, x)) <=> \A o \in Gained(7) : ~GoesWith(x, o)
    BY <2>1, <2>2 DEF Removes
  <2>9. {x \in kept \cup Gained(7) : \A o \in Gained(7) : ~GoesWith(x, o)} = kept
    <3>1. Apart(kept, Gained(7))
      BY <2>4 DEF Apart
    <3> HIDE DEF kept
    <3> QED BY <3>1, BackAgain
  <2>10. Result(At[7], down) = kept \cup Lifted
    BY <2>4, <2>6, <2>7, <2>8, <2>9
  <2> QED BY <2>4, <2>10 DEF down
<1>6. \A r \in 2..8 : r \in 2..5 \/ r = 6 \/ r = 7 \/ r = 8
  OBVIOUS
<1> QED BY <1>1, <1>3, <1>4, <1>5, <1>6

-----------------------------------------------------------------------------
(* The two scripts that never come to their end *)

\* 0009: where its first additions, the deadline's column and the deadline's index stand.
LEMMA LastUpgrade ==
    /\ IsList(Upgrade(9))
    /\ \A st \in ToSetOf(Upgrade(9)) : st.op \in {"add", "drop"}
    /\ Len(Upgrade(9)) > 16
    /\ Upgrade(9)[14] = Drop(QuoteColumns[3])
    /\ Upgrade(9)[16] = Drop(DeadlineIndex)
    /\ \A i \in 1..15 : Upgrade(9)[i].op = "add" => \E k \in 1..3 : Upgrade(9)[i].obj = Markup[k]
<1> DEFINE checks == <<MethodCheck, DeclineCheck>>
           old == <<Column("supplier_quotes", "score"), Column("supplier_quotes", "is_awarded"),
                    Column("supplier_quotes", "is_rejected"),
                    Column("supplier_quotes", "rejection_reason"), QuoteColumns[1]>>
           rest == <<QuoteColumns[3], QuoteColumns[2], DeadlineIndex>>
           end == <<Table("bid_comparisons", {}), SimEvents[1], OrderColumns[1], OrderColumns[2],
                    Departure, OrderColumns[3], OrdersIndex>>
           o == old \o DeclineColumns
           k == o \o rest
           a == Adds(Markup)
           b == a \o Drops(checks)
           c == b \o Drops(k)
           d == c \o DropsBack(Decisions)
           e == d \o DropsBack(Assignments)
           f == e \o Drops(end)
<1> DEFINE Ok(s) == IsList(s) /\ \A st \in ToSetOf(s) : st.op \in {"add", "drop"}
           Joined(u, s, t) == /\ Len(u) = Len(s) + Len(t)
                              /\ \A i \in 1..Len(s) : u[i] = s[i]
                              /\ \A i \in 1..Len(t) : u[i + Len(s)] = t[i]
<1>1. \A os : IsList(os) => Ok(Adds(os)) /\ Ok(Drops(os)) /\ Ok(DropsBack(os))
  BY StatementLists DEF Add, Drop
<1>2. \A s, t : IsList(s) /\ IsList(t) => IsList(s \o t) /\ Joined(s \o t, s, t)
  BY Concatenated
<1>3. \A s, t : Ok(s) /\ Ok(t) => Ok(s \o t) /\ Joined(s \o t, s, t)
  BY <1>2, Concatenated
<1>4. IsList(checks) /\ Len(checks) = 2 /\ IsList(rest) /\ Len(rest) = 3
  BY ShortLists
<1>5. IsList(old) /\ Len(old) = 5
  <2>1. old = [i \in 1..5 |-> old[i]]
    OBVIOUS
  <2> HIDE DEF old
  <2> QED BY <2>1, Listed
<1>6. IsList(end) /\ Len(end) = 7
  <2>1. end = [i \in 1..7 |-> end[i]]
    OBVIOUS
  <2> HIDE DEF end
  <2> QED BY <2>1, Listed
<1>7. rest[1] = QuoteColumns[3] /\ rest[3] = DeadlineIndex
  OBVIOUS
<1>8. Upgrade(9) = f
  <2>1. Upgrade(9) = Upgrade0009
    BY DEF Upgrade
  <2> QED BY <2>1, Zenon DEF Upgrade0009, checks, old, rest, end, o, k, a, b, c, d, e
<1>9. Len(Decisions) = 2 /\ Len(Assignments) = 3 /\ Len(DeclineColumns) = 3 /\ Len(Markup) = 3
  BY ShortLists DEF Decisions, Assignments, DeclineColumns, Markup
<1> HIDE DEF checks, old, rest, end, Ok, Joined
<1>10. IsList(k) /\ Len(k) = 11 /\ k[9] = QuoteColumns[3] /\ k[11] = DeadlineIndex
  <2>1. IsList(o) /\ Joined(o, old, DeclineColumns)
    BY <1>2, <1>5, Lists, Zenon
  <2>2. Len(o) = 8
    BY <2>1, <1>5, <1>9 DEF Joined
  <2> HIDE DEF o
  <2>3. IsList(k) /\ Joined(k, o, rest)
    BY <1>2, <1>4, <2>1, Zenon
  <2> HIDE DEF k
  <2>4. Len(k) = 11 /\ k[1 + 8] = rest[1] /\ k[3 + 8] = rest[3]
    BY <2>2, <2>3, <1>4 DEF Joined
  <2> QED BY <2>3, <2>4, <1>7
<1> HIDE DEF k
<1>11. Ok(a) /\ Len(a) = 3 /\ \A i \in 1..3 : a[i] = Add(Markup[i])
  <2>1. Ok(a)
    BY <1>1, Lists, Zenon
  <2>2. Len(a) = Len(Markup) /\ \A i \in 1..Len(Markup) : a[i] = Add(Markup[i])
    BY Lists, StatementLists, Zenon
  <2> QED BY <2>1, <2>2, <1>9
<1> HIDE DEF a
<1>12. /\ Ok(b) /\ Len(b) = 5 /\ \A i \in 1..3 : b[i] = a[i]
       /\ \A i \in 1..2 : b[i + 3] = Drop(checks[i])
  <2> DEFINE t == Drops(checks)
  <2>1. Ok(t) /\ Len(t) = 2 /\ \A i \in 1..2 : t[i] = Drop(checks[i])
    BY <1>1, <1>4, StatementLists
  <2>2. Ok(b) /\ Joined(b, a, t)
    BY <1>3, <1>11, <2>1, Zenon
  <2> HIDE DEF t, b
  <2> QED BY <2>1, <2>2, <1>11 DEF Joined
<1> HIDE DEF b
<1>13. /\ Ok(c) /\ Len(c) = 16 /\ \A i \in 1..5 : c[i] = b[i]
       /\ \A i \in 1..11 : c[i + 5] = Drop(k[i])
  <2> DEFINE t == Drops(k)
  <2>1. Ok(t) /\ Len(t) = 11 /\ \A i \in 1..11 : t[i] = Drop(k[i])
    BY <1>1, <1>10, StatementLists
  <2>2. Ok(c) /\ Joined(c, b, t)
    BY <1>3, <1>12, <2>1, Zenon
  <2> HIDE DEF t, c
  <2> QED BY <2>1, <2>2, <1>12 DEF Joined
<1> HIDE DEF c
<1>14. Ok(d) /\ Len(d) = 18 /\ \A i \in 1..16 : d[i] = c[i]
  <2> DEFINE t == DropsBack(Decisions)
  <2>1. Ok(t) /\ Len(t) = 2
    BY <1>1, <1>9, Lists, StatementLists
  <2>2. Ok(d) /\ Joined(d, c, t)
    BY <1>3, <1>13, <2>1, Zenon
  <2> HIDE DEF t, d
  <2> QED BY <2>1, <2>2, <1>13 DEF Joined
<1> HIDE DEF d
<1>15. Ok(e) /\ Len(e) = 21 /\ \A i \in 1..16 : e[i] = d[i]
  <2> DEFINE t == DropsBack(Assignments)
  <2>1. Ok(t) /\ Len(t) = 3
    BY <1>1, <1>9, Lists, StatementLists
  <2>2. Ok(e) /\ Joined(e, d, t)
    BY <1>3, <1>14, <2>1, Zenon
  <2> HIDE DEF t, e
  <2> QED BY <2>1, <2>2, <1>14 DEF Joined
<1> HIDE DEF e
<1>16. Ok(f) /\ Len(f) = 28 /\ \A i \in 1..16 : f[i] = e[i]
  <2> DEFINE t == Drops(end)
  <2>1. Ok(t) /\ Len(t) = 7
    BY <1>1, <1>6, StatementLists
  <2>2. Ok(f) /\ Joined(f, e, t)
    BY <1>3, <1>15, <2>1, Zenon
  <2> HIDE DEF t, f
  <2> QED BY <2>1, <2>2, <1>15 DEF Joined
<1> HIDE DEF f
<1>17. \A i \in 1..16 : f[i] = c[i]
  BY <1>14, <1>15, <1>16
<1>18. f[14] = Drop(QuoteColumns[3]) /\ f[16] = Drop(DeadlineIndex)
  <2>1. c[9 + 5] = Drop(k[9]) /\ c[11 + 5] = Drop(k[11])
    BY <1>13
  <2> QED BY <2>1, <1>10, <1>17
<1>19. ASSUME NEW i \in 1..15, f[i].op = "add" PROVE \E j \in 1..3 : f[i].obj = Markup[j]
  <2>1. \A x : Drop(x).op = "drop" /\ Add(x).obj = x
    BY DEF Drop, Add
  <2>2. CASE i \in 1..3
    BY <2>1, <2>2, <1>11, <1>12, <1>13, <1>17
  <2>3. CASE i \in 4..5
    <3>1. i - 3 \in 1..2 /\ (i - 3) + 3 = i /\ i \in 1..5
      BY <2>3
    <3>2. f[i] = Drop(checks[i - 3])
      BY <3>1, <1>12, <1>13, <1>17
    <3> QED BY <3>2, <2>1, <1>19
  <2>4. CASE i \in 6..15
    <3>1. i - 5 \in 1..11 /\ (i - 5) + 5 = i
      BY <2>4
    <3>2. f[i] = Drop(k[i - 5])
      BY <3>1, <1>13, <1>17
    <3> QED BY <3>2, <2>1, <1>19
  <2> QED BY <2>2, <2>3, <2>4
<1>20. IsList(f) /\ (\A st \in ToSetOf(f) : st.op \in {"add", "drop"}) /\ Len(f) > 16
  BY <1>16 DEF Ok
<1>21. \A i \in 1..15 : f[i].op = "add" => \E j \in 1..3 : f[i].obj = Markup[j]
  BY <1>19
<1> QED BY <1>8, <1>18, <1>20, <1>21, Zenon

\* The index of the deadline has gone with its column.
LEMMA LastUpgradeBlocked ==
    ASSUME NEW nulls
    PROVE  ~CanRun(Made(At[8], Upgrade(9), 15), Upgrade(9)[16], nulls)
<1> DEFINE S == Made(At[8], Upgrade(9), 15)
<1>1. Upgrade(9)[16].op = "drop" /\ Upgrade(9)[16].obj = DeadlineIndex
      /\ Upgrade(9)[14].op = "drop" /\ Upgrade(9)[14].obj = QuoteColumns[3]
  BY LastUpgrade DEF Drop
<1>2. SUFFICES ASSUME NEW x \in S, Same(x, DeadlineIndex) PROVE FALSE
  BY <1>1 DEF CanRun, CanDrop, Present
<1>3. x.kind = "key" /\ x.table = "supplier_quotes" /\ x.name = "ix_supplier_quotes_prep_deadline"
  BY <1>2 DEF Same, DeadlineIndex, Key
<1>4. CASE x \in At[8] /\ \A i \in 1..15 : ~Removes(Upgrade(9)[i], x)
  <2>1. ~GoesWith(x, QuoteColumns[3])
    BY <1>1, <1>4 DEF Removes
  <2>2. x \in Early \/ x \in Gained(2) \/ x \in Gained(3) \/ x \in Gained(4)
        \/ x \in Gained(5) \/ x \in Gained(7)
    <3>1. x \in At[6] \/ x \in Gained(7)
      BY <1>4, EarlySchemas
    <3>2. x \in At[6] => x \in At[4] \/ x \in Gained(5)
      BY EarlySchemas
    <3>3. x \in At[4] => x \in At[2] \/ x \in Gained(3) \/ x \in Gained(4)
      BY EarlySchemas
    <3>4. x \in At[2] => x \in Early \/ x \in Gained(2)
      BY EarlySchemas
    <3> QED BY <3>1, <3>2, <3>3, <3>4
  <2>3. x \in Gained(5)
    BY <2>2, <1>3, EarlyProfile, EventsProfile, DecisionsProfile DEF DeclineCheck, Key
  <2>4. x = DeadlineIndex
    <3>1. Gained(5) = ToSetOf(OrderColumns) \cup {OrdersIndex} \cup ToSetOf(RfqImpa)
                  \cup ToSetOf(QuoteColumns) \cup {MethodCheck, DeadlineIndex}
                  \cup ToSetOf(LineStatus) \cup ToSetOf(Decisions) \cup ToSetOf(Assignments)
      BY DEF Gained
    <3>2. x \notin ToSetOf(OrderColumns) /\ x \notin ToSetOf(QuoteColumns)
      BY <1>3, RevisionLists DEF OrderColumns, QuoteColumns, Column
    <3>3. x # OrdersIndex /\ x # MethodCheck
      BY <1>3 DEF OrdersIndex, MethodCheck, Key
    <3>4. x \notin ToSetOf(RfqImpa) /\ x \notin ToSetOf(LineStatus)
      BY <1>3, RevisionLists DEF RfqImpa, LineStatus, Column, Key
    <3>5. x \notin ToSetOf(Decisions) /\ x \notin ToSetOf(Assignments)
      BY <1>3, RevisionLists DEF Decisions, Assignments, Table, Key
    <3> QED BY <2>3, <3>1, <3>2, <3>3, <3>4, <3>5
  <2>5. GoesWith(DeadlineIndex, QuoteColumns[3])
    BY DEF GoesWith, DeadlineIndex, QuoteColumns, Column, Key
  <2> QED BY <2>1, <2>4, <2>5
<1>5. CASE \E i \in 1..15 : Upgrade(9)[i].op = "add" /\ x = Upgrade(9)[i].obj
  <2>1. PICK j \in 1..3 : x = Markup[j]
    BY <1>5, LastUpgrade
  <2>2. Markup[1].kind = "column" /\ Markup[2].kind = "column" /\ Markup[3].kind = "column"
    BY DEF Markup, Column
  <2>3. j = 1 \/ j = 2 \/ j = 3
    OBVIOUS
  <2> QED BY <2>1, <2>2, <2>3, <1>3
<1> QED BY <1>2, <1>4, <1>5 DEF Made

\* The tables of today's models.
TodaysTables == {"products", "suppliers", "orders", "rfqs", "order_items", "rfq_items",
                 "supplier_quotes", "quote_items", "market_sim_events",
                 "ais_position_reports"}

\* All that today's models say is about those.
LEMMA TodaysProfile == \A x \in Today : x.table \in TodaysTables
<1>1. \A x \in Shared : x.table \in TodaysTables
  BY DEF Shared, Products, Table, TodaysTables
<1>2. \A x \in ToSetOf(AisReports) \cup ToSetOf(SimEvents) : x.table \in TodaysTables
  BY ShortLists DEF AisReports, SimEvents, Table, Key, TodaysTables
<1>3. \A x \in ToSetOf(RfqImpa) \cup ToSetOf(OrderImpa) : x.table \in TodaysTables
  BY ShortLists DEF RfqImpa, OrderImpa, Column, Key, TodaysTables
<1>4. \A x \in ToSetOf(LineStatus) \cup ToSetOf(Markup) : x.table \in TodaysTables
  BY ShortLists DEF LineStatus, Markup, Column, Key, TodaysTables
<1>5. \A x \in {Visibility[1], Visibility[2], Visibility[3]} : x.table \in TodaysTables
  BY DEF Visibility, Column, Key, TodaysTables
<1>6. \A x \in Today : \/ x \in Shared
                     \/ x \in ToSetOf(AisReports) \cup ToSetOf(SimEvents)
                     \/ x \in ToSetOf(RfqImpa) \cup ToSetOf(OrderImpa)
                     \/ x \in ToSetOf(LineStatus) \cup ToSetOf(Markup)
                     \/ x \in {Visibility[1], Visibility[2], Visibility[3]}
  <2> DEFINE lists == {AisReports, SimEvents, RfqImpa, OrderImpa, LineStatus, Markup}
         here == {Visibility[1], Visibility[2], Visibility[3]}
  <2>1. Today = (Shared \cup (UNION {ToSetOf(os) : os \in lists})) \cup here
    BY Zenon DEF Today
  <2>2. \A x \in (UNION {ToSetOf(os) : os \in lists}) : \E os \in lists : x \in ToSetOf(os)
    OBVIOUS
  <2>3. \A x \in Today : \/ x \in Shared \/ x \in here
                       \/ \E os \in lists : x \in ToSetOf(os)
    <3> HIDE DEF lists, here
    <3> QED BY <2>1, <2>2
  <2> QED BY <2>3
<1> QED BY <1>1, <1>2, <1>3, <1>4, <1>5, <1>6

\* The downgrade of 0001 comes to the RFQs seventh, and has dropped neither them nor the bids.
LEMMA FirstDowngrade ==
    /\ IsList(Downgrade(1)) /\ Len(Downgrade(1)) = 10
    /\ \A i \in 1..10 : Downgrade(1)[i].op = "dropExisting"
    /\ \A i \in 1..6 : ~Removes(Downgrade(1)[i], Table("rfqs", {"orders"}))
                       /\ ~Removes(Downgrade(1)[i], Table("bid_comparisons", {"rfqs"}))
    /\ Downgrade(1)[7].obj = Table("rfqs", {})
    /\ \A t \in TodaysTables : \E i \in 1..10 : Downgrade(1)[i].obj.kind = "table"
                                             /\ Downgrade(1)[i].obj.name = t
<1> DEFINE ts == <<"quote_items", "supplier_quotes", "rfq_items", "order_items",
                   "market_sim_events", "ais_position_reports", "rfqs", "orders",
                   "suppliers", "products">>
<1>1. Downgrade(1) = [i \in 1..Len(ts) |-> DropExisting(Table(ts[i], {}))]
  BY DEF Downgrade, Downgrade0001
<1>2. Len(ts) = 10
  OBVIOUS
<1>3. ts[7] = "rfqs" /\ \A i \in 1..6 : ts[i] # "rfqs" /\ ts[i] # "bid_comparisons"
  OBVIOUS
<1>9. \A t \in TodaysTables : \E i \in 1..10 : ts[i] = t
  <2>1. /\ ts[1] = "quote_items" /\ ts[2] = "supplier_quotes" /\ ts[3] = "rfq_items"
        /\ ts[4] = "order_items" /\ ts[5] = "market_sim_events"
        /\ ts[6] = "ais_position_reports" /\ ts[7] = "rfqs" /\ ts[8] = "orders"
        /\ ts[9] = "suppliers" /\ ts[10] = "products"
    OBVIOUS
  <2>2. /\ 1 \in 1..10 /\ 2 \in 1..10 /\ 3 \in 1..10 /\ 4 \in 1..10 /\ 5 \in 1..10
        /\ 6 \in 1..10 /\ 7 \in 1..10 /\ 8 \in 1..10 /\ 9 \in 1..10 /\ 10 \in 1..10
    OBVIOUS
  <2> HIDE DEF ts
  <2> QED BY <2>1, <2>2 DEF TodaysTables
<1> HIDE DEF ts
<1>4. Downgrade(1) = [i \in 1..10 |-> DropExisting(Table(ts[i], {}))]
  BY <1>1, <1>2
<1>5. \A i \in 1..10 : Downgrade(1)[i] = DropExisting(Table(ts[i], {}))
  BY <1>4
<1>6. IsList(Downgrade(1)) /\ Len(Downgrade(1)) = 10
  <2>1. Downgrade(1) = [i \in 1..10 |-> Downgrade(1)[i]]
    BY <1>4
  <2> QED BY <2>1, Listed
<1>7. \A o : DropExisting(o).op = "dropExisting" /\ DropExisting(o).obj = o
  BY DEF DropExisting
<1>8. ASSUME NEW i \in 1..6
      PROVE  ~Removes(Downgrade(1)[i], Table("rfqs", {"orders"}))
             /\ ~Removes(Downgrade(1)[i], Table("bid_comparisons", {"rfqs"}))
  <2>1. Downgrade(1)[i].obj = Table(ts[i], {})
    BY <1>5, <1>7
  <2>2. ~GoesWith(Table("rfqs", {"orders"}), Table(ts[i], {}))
        /\ ~GoesWith(Table("bid_comparisons", {"rfqs"}), Table(ts[i], {}))
    BY <1>3 DEF GoesWith, Same, Table
  <2> QED BY <2>1, <2>2 DEF Removes
<1>10. \A t \in TodaysTables : \E i \in 1..10 : Downgrade(1)[i].obj.kind = "table"
                                             /\ Downgrade(1)[i].obj.name = t
  <2>1. \A i \in 1..10 : Downgrade(1)[i].obj = Table(ts[i], {})
    BY <1>5, <1>7
  <2>2. \A i \in 1..10 : Table(ts[i], {}).kind = "table" /\ Table(ts[i], {}).name = ts[i]
    BY DEF Table
  <2> QED BY <1>9, <2>1, <2>2
<1> QED BY <1>3, <1>5, <1>6, <1>7, <1>8, <1>10

\* The table of the bids of an early version stands in the way.
LEMMA FirstDowngradeBlocked ==
    ASSUME NEW nulls
    PROVE  ~CanRun(Made(At[1], Downgrade(1), 6), Downgrade(1)[7], nulls)
<1> DEFINE S == Made(At[1], Downgrade(1), 6)
           rfqs == Table("rfqs", {"orders"})
           bids == Table("bid_comparisons", {"rfqs"})
<1>1. rfqs \in Early /\ bids \in Early
  BY DEF Early, Shared
<1>2. rfqs \in S /\ bids \in S
  BY <1>1, EarlySchemas, FirstDowngrade DEF Made
<1> HIDE DEF S
<1>3. Present(S, Table("rfqs", {}))
  BY <1>2 DEF Present, Same, Table
<1>4. Referenced(S, "rfqs")
  BY <1>2 DEF Referenced, Table
<1>5. ~CanDrop(S, Table("rfqs", {}))
  BY <1>4 DEF CanDrop, Table
<1>6. Downgrade(1)[7].op = "dropExisting" /\ Downgrade(1)[7].obj = Table("rfqs", {})
  BY FirstDowngrade
<1>7. ~CanRun(S, Downgrade(1)[7], nulls)
  BY <1>3, <1>5, <1>6 DEF CanRun
<1> QED BY <1>7 DEF S

\* Today's models have the reports that 0002 brings.
LEMMA SecondUpgradeBlocked ==
    ASSUME NEW nulls
    PROVE  Len(Upgrade(2)) = 2 /\ ~CanRun(Today, Upgrade(2)[1], nulls)
<1>1. Len(Upgrade(2)) = 2 /\ Upgrade(2)[1] = Add(AisReports[1])
  <2>1. Len(AisReports) = 2
    BY ShortLists DEF AisReports
  <2>2. Upgrade(2) = Adds(AisReports)
    BY DEF Upgrade
  <2> QED BY <2>1, <2>2, Lists, StatementLists
<1>2. AisReports[1] \in Today
  BY RevisionLists DEF Today
<1>3. Present(Today, AisReports[1])
  BY <1>2 DEF Present, Same
<1>4. Add(AisReports[1]).op = "add" /\ Add(AisReports[1]).obj = AisReports[1]
  BY DEF Add
<1> QED BY <1>1, <1>3, <1>4 DEF CanRun, CanAdd

\* Statements are of four kinds, and only the first of a script ends a transaction.
LEMMA ScriptOps ==
    /\ \A r \in 2..9 :
         /\ IsList(Upgrade(r)) /\ Len(Upgrade(r)) \in Nat
         /\ \A i \in 1..Len(Upgrade(r)) : /\ Upgrade(r)[i].op \in Ops
                                          /\ Upgrade(r)[i].op = "commit" => i = 1
    /\ \A r \in 1..8 :
         /\ IsList(Downgrade(r)) /\ Len(Downgrade(r)) \in Nat
         /\ \A i \in 1..Len(Downgrade(r)) : /\ Downgrade(r)[i].op \in Ops
                                            /\ Downgrade(r)[i].op # "commit"
<1> DEFINE Plain(s) == IsList(s) /\ \A st \in ToSetOf(s) : st.op \in Ops /\ st.op # "commit"
           Fine(s) == IsList(s) /\ \A i \in 1..Len(s) : s[i].op \in Ops /\ (s[i].op = "commit" => i = 1)
<1>1. \A o : Add(o).op = "add" /\ Drop(o).op = "drop" /\ DropExisting(o).op = "dropExisting"
  BY DEF Add, Drop, DropExisting
<1>2. \A r \in 2..8 : r \in 2..5 \/ r = 6 \/ r = 7 \/ r = 8
  OBVIOUS
<1>3. \A r \in 2..5 : Plain(Upgrade(r)) /\ Plain(Downgrade(r))
  BY <1>1, Upgrades, Downgrades DEF Ops
<1>4. Plain(Upgrade(6)) /\ Plain(Downgrade(6)) /\ Plain(Downgrade(8))
  BY Upgrades, Downgrades
<1>5. Plain(Upgrade(7)) /\ Plain(Downgrade(7))
  BY <1>1, Upgrades, Downgrades DEF Ops
<1>6. Plain(Upgrade(9))
  BY LastUpgrade DEF Ops
<1>7. \A s : \A i \in 1..Len(s) : s[i] \in ToSetOf(s)
  BY DEF ToSetOf
<1>8. Plain(Downgrade(1))
  <2>1. ToSetOf(Downgrade(1)) = {Downgrade(1)[i] : i \in 1..10}
    BY FirstDowngrade DEF ToSetOf
  <2> QED BY <2>1, FirstDowngrade DEF Ops
<1>9. Fine(Upgrade(8))
  <2>1. Upgrade(8) = <<Commit>>
    BY DEF Upgrade
  <2>2. Commit.op = "commit"
    BY DEF Commit
  <2>3. Len(Upgrade(8)) = 1 /\ Upgrade(8)[1] = Commit
    BY <2>1
  <2> QED BY <2>2, <2>3, Upgrades DEF Ops
<1>10. \A s : Plain(s) => Fine(s) /\ \A i \in 1..Len(s) : s[i].op # "commit"
  BY <1>7
<1>11. \A s : IsList(s) => Len(s) \in Nat
  BY DEF IsList
<1> HIDE DEF Plain
<1>12. \A r \in 2..9 : Fine(Upgrade(r))
  <2>1. \A r \in 2..9 : r \in 2..5 \/ r = 6 \/ r = 7 \/ r = 8 \/ r = 9
    OBVIOUS
  <2> HIDE DEF Fine
  <2> QED BY <2>1, <1>3, <1>4, <1>5, <1>6, <1>9, <1>10
<1>13. \A r \in 1..8 : /\ Fine(Downgrade(r))
                       /\ \A i \in 1..Len(Downgrade(r)) : Downgrade(r)[i].op # "commit"
  <2>1. \A r \in 1..8 : r = 1 \/ r \in 2..5 \/ r = 6 \/ r = 7 \/ r = 8
    OBVIOUS
  <2>2. \A r \in 1..8 : Plain(Downgrade(r))
    BY <2>1, <1>3, <1>4, <1>5, <1>8
  <2> HIDE DEF Fine
  <2> QED BY <2>2, <1>10
<1> QED BY <1>11, <1>12, <1>13

-----------------------------------------------------------------------------
(* Databases and the commands under way *)

\* The script between one revision and the next on the way from a to t.
Path(a, t) == IF a < t THEN Upgrade(a + 1) ELSE Downgrade(a)

\* The script under way, now and after a step.
LEMMA ScriptIsPath ==
    /\ Script = Path(alembic.rev, alembic.to)
    /\ Script' = Path(alembic'.rev, alembic'.to)
BY DEF Script, Path, Going, Towards

\* Scripts are lists of statements.
LEMMA PathFacts ==
    ASSUME NEW a \in 1..8, NEW t \in Revision
    PROVE  /\ Len(Path(a, t)) \in Nat
           /\ \A i \in 1..Len(Path(a, t)) : /\ Path(a, t)[i].op \in Ops
                                            /\ Path(a, t)[i].op = "commit" => i = 1
           /\ IsList(Path(a, t))
<1>1. CASE a < t
  <2>1. a + 1 \in 2..9
    OBVIOUS
  <2> QED BY <2>1, <1>1, ScriptOps DEF Path
<1>2. CASE ~(a < t)
  BY <1>2, ScriptOps DEF Path, Revision, LastRevision
<1> QED BY <1>1, <1>2

\* What a whole script makes of the schema at a revision.
LEMMA PathLeads ==
    ASSUME NEW a \in 1..8, NEW t \in Revision
    PROVE  /\ a < t /\ a < 8 => Made(At[a], Path(a, t), Len(Path(a, t))) = At[a + 1]
           /\ ~(a < t) /\ a > 1 => Made(At[a], Path(a, t), Len(Path(a, t))) = At[a - 1]
<1>1. Made(At[a], Path(a, t), Len(Path(a, t))) = Result(At[a], Path(a, t))
  BY PathFacts, ResultIsMade
<1>2. CASE a < t /\ a < 8
  <2>1. a + 1 \in 2..9 /\ (a + 1) - 1 = a
    OBVIOUS
  <2>2. At[a + 1] = Result(At[a], Upgrade(a + 1))
    BY <2>1, SchemaSteps DEF At
  <2> QED BY <2>2, <1>1, <1>2 DEF Path
<1>3. CASE ~(a < t) /\ a > 1
  <2>1. a \in 2..8
    BY <1>3
  <2>2. Result(At[a], Downgrade(a)) = At[a - 1]
    BY <2>1, DowngradeUndoes
  <2> QED BY <2>2, <1>1, <1>3 DEF Path
<1> QED BY <1>2, <1>3

\* An early version's database is at one of the first eight revisions, and a command under
\* way has made what the statements so far make of one of them.
Underway ==
    /\ alembic.rev \in 1..8
    /\ alembic.pc \in 1..(Len(Script) + 1)
    /\ alembic.rev = alembic.to => alembic.pc = 1
    /\ alembic.schema = Made(At[alembic.rev], Script, alembic.pc - 1)
    /\ alembic.rev = 8 /\ alembic.rev < alembic.to => alembic.pc <= 16
    /\ alembic.rev = 1 /\ alembic.to < alembic.rev => alembic.pc <= 7

EarlyDatabase ==
    /\ models = Early
    /\ rev \in 1..8
    /\ schema = At[rev]
    /\ job = "alembic" => Underway

\* One that begins with today's models is empty or at the first revision: an upgrade
\* gets no further, and a downgrade from there takes everything.
TodaysDatabase ==
    /\ models = Today
    /\ (rev = 0 /\ schema = {}) \/ (rev = 1 /\ schema = Today)
    /\ job = "alembic" =>
         \/ alembic.rev = 0 /\ alembic.pc = 1 /\ alembic.schema = {}
         \/ /\ alembic.rev = 1
            /\ alembic.pc \in 1..11
            /\ (1 <= alembic.to => alembic.pc = 1)
            /\ alembic.schema = Made(Today, Downgrade(1), alembic.pc - 1)

\* The inductive invariant.
SchemaInv == EarlyDatabase \/ TodaysDatabase

\* It holds of an empty database and of one at any of the revisions.
LEMMA SchemaInit ==
    ASSUME Init
    PROVE  SchemaInv
<1>1. CASE models = Today /\ rev = 0
  <2>1. schema = {}
    BY <1>1, SchemaSteps DEF Init
  <2>2. job # "alembic"
    BY DEF Init
  <2> QED BY <1>1, <2>1, <2>2 DEF SchemaInv, TodaysDatabase
<1>2. CASE models = Early /\ rev \in 1..8
  BY <1>2 DEF Init, SchemaInv, EarlyDatabase, At
<1> QED BY <1>1, <1>2 DEF Init

\* The steps of alembic in an early version's database.
LEMMA EarlyAlembicStep ==
    ASSUME IInv, EarlyDatabase,
           \/ \E r \in Revision : Migrate(r)
           \/ Statement \/ Migrated \/ MigrationEnds \/ MigrationFails
    PROVE  EarlyDatabase'
<1>0. /\ alembic.rev \in Revision /\ alembic.to \in Revision /\ alembic.pc \in Nat
      /\ alembic = [to |-> alembic.to, rev |-> alembic.rev,
                    pc |-> alembic.pc, schema |-> alembic.schema]
      /\ models = Early /\ rev \in 1..8 /\ schema = At[rev]
  BY DEF IInv, TypeOK, JobShape, EarlyDatabase
<1>1. ASSUME NEW r \in Revision, Migrate(r) PROVE EarlyDatabase'
  <2>1. alembic'.to = r /\ alembic'.rev = rev /\ alembic'.pc = 1 /\ alembic'.schema = schema
        /\ rev # r
    BY <1>1 DEF Migrate
  <2>2. models' = models /\ rev' = rev /\ schema' = schema /\ job' = "alembic"
    BY <1>1 DEF Migrate, Run, database
  <2>3. Len(Script') \in Nat
    BY <2>1, <1>0, PathFacts, ScriptIsPath
  <2>4. alembic'.schema = Made(At[alembic'.rev], Script', alembic'.pc - 1)
    <3>1. alembic'.pc - 1 = 0
      BY <2>1
    <3> QED BY <3>1, <2>1, <1>0, MadeNone
  <2>5. Underway'
    BY <2>1, <2>3, <2>4, <1>0 DEF Underway
  <2> QED BY <2>2, <2>5, <1>0 DEF EarlyDatabase
<1>2. ASSUME Statement PROVE EarlyDatabase'
  <2> DEFINE st == Script[alembic.pc]
  <2>1. /\ job = "alembic" /\ alembic.rev # alembic.to /\ alembic.pc <= Len(Script)
        /\ CanRun(alembic.schema, st, Nulls)
        /\ alembic' = [alembic EXCEPT !.schema = After(@, st), !.pc = @ + 1]
        /\ models' = models /\ job' = job
    BY <1>2 DEF Statement, AtWork
  <2>2. Underway
    BY <2>1 DEF EarlyDatabase
  <2>3. /\ alembic'.rev = alembic.rev /\ alembic'.to = alembic.to /\ alembic'.pc = alembic.pc + 1
        /\ alembic'.schema = After(alembic.schema, st)
    BY <2>1, <1>0
  <2>4. alembic.rev \in 1..8 /\ alembic.pc \in 1..Len(Script)
        /\ alembic.schema = Made(At[alembic.rev], Script, alembic.pc - 1)
    BY <2>1, <2>2, <1>0 DEF Underway
  <2>5. /\ Len(Script) \in Nat /\ st.op \in Ops
        /\ st.op = "commit" => alembic.pc = 1
    BY <2>4, <1>0, PathFacts, ScriptIsPath
  <2>6. Script' = Script
    BY <2>3, ScriptIsPath
  <2>7. alembic'.schema = Made(At[alembic'.rev], Script', alembic'.pc - 1)
    <3>1. /\ alembic.pc - 1 \in Nat
          /\ (alembic.pc - 1) + 1 = alembic.pc /\ (alembic.pc + 1) - 1 = alembic.pc
      BY <2>4
    <3>2. Made(At[alembic.rev], Script, (alembic.pc - 1) + 1)
          = After(Made(At[alembic.rev], Script, alembic.pc - 1), Script[(alembic.pc - 1) + 1])
      <4>1. Script[(alembic.pc - 1) + 1].op \in Ops
        BY <3>1, <2>5
      <4> QED BY <4>1, <3>1, MadeStep
    <3> QED BY <3>1, <3>2, <2>3, <2>4, <2>6
  <2>8. alembic'.rev = 8 /\ alembic'.rev < alembic'.to => alembic'.pc <= 16
    <3>1. SUFFICES ASSUME alembic.rev = 8, alembic.rev < alembic.to PROVE alembic.pc < 16
      BY <2>3, <2>4
    <3>2. alembic.pc <= 16
      BY <3>1, <2>2 DEF Underway
    <3>3. alembic.pc # 16
      <4>1. SUFFICES ASSUME alembic.pc = 16 PROVE FALSE
        OBVIOUS
      <4>2. Script = Upgrade(9)
        BY <3>1, ScriptIsPath DEF Path
      <4>3. alembic.schema = Made(At[8], Upgrade(9), 15)
        BY <4>1, <4>2, <3>1, <2>4
      <4> QED BY <4>1, <4>2, <4>3, <2>1, LastUpgradeBlocked
    <3> QED BY <3>2, <3>3, <2>4
  <2>9. alembic'.rev = 1 /\ alembic'.to < alembic'.rev => alembic'.pc <= 7
    <3>1. SUFFICES ASSUME alembic.rev = 1, alembic.to < alembic.rev PROVE alembic.pc < 7
      BY <2>3, <2>4
    <3>2. alembic.pc <= 7
      BY <3>1, <2>2 DEF Underway
    <3>3. alembic.pc # 7
      <4>1. SUFFICES ASSUME alembic.pc = 7 PROVE FALSE
        OBVIOUS
      <4>2. Script = Downgrade(1)
        BY <3>1, <1>0, ScriptIsPath DEF Path, Revision, LastRevision
      <4>3. alembic.schema = Made(At[1], Downgrade(1), 6)
        BY <4>1, <4>2, <3>1, <2>4
      <4> QED BY <4>1, <4>2, <4>3, <2>1, FirstDowngradeBlocked
    <3> QED BY <3>2, <3>3, <2>4
  <2>10. Underway'
    BY <2>1, <2>3, <2>4, <2>5, <2>6, <2>7, <2>8, <2>9 DEF Underway
  <2>11. CASE st = Commit
    <3>1. st.op = "commit"
      BY <2>11 DEF Commit
    <3>2. alembic.schema = At[alembic.rev]
      <4>1. alembic.pc - 1 = 0
        BY <3>1, <2>5
      <4> QED BY <4>1, <2>4, MadeNone
    <3>3. schema' = alembic.schema /\ rev' = alembic.rev
      BY <1>2, <2>11 DEF Statement
    <3> QED BY <3>2, <3>3, <2>1, <2>4, <2>10, <1>0 DEF EarlyDatabase
  <2>12. CASE st # Commit
    <3>1. schema' = schema /\ rev' = rev
      BY <1>2, <2>12 DEF Statement
    <3> QED BY <3>1, <2>1, <2>10, <1>0 DEF EarlyDatabase
  <2> QED BY <2>11, <2>12
<1>3. ASSUME Migrated PROVE EarlyDatabase'
  <2>1. /\ job = "alembic" /\ alembic.rev # alembic.to /\ alembic.pc > Len(Script)
        /\ models' = models /\ rev' = rev /\ schema' = schema /\ job' = job
        /\ alembic' = [alembic EXCEPT !.rev = Towards, !.pc = 1,
                          !.schema = IF Towards = 1 /\ Going = "up" THEN models ELSE @]
    BY <1>3 DEF Migrated, AtWork, database
  <2>2. Underway
    BY <2>1 DEF EarlyDatabase
  <2>3. /\ alembic.rev \in 1..8 /\ Len(Script) \in Nat
        /\ alembic.pc - 1 = Len(Script)
        /\ alembic.schema = Made(At[alembic.rev], Script, Len(Script))
    <3>1. alembic.rev \in 1..8
      BY <2>2 DEF Underway
    <3>2. Len(Script) \in Nat
      BY <3>1, <1>0, PathFacts, ScriptIsPath
    <3>3. alembic.pc - 1 = Len(Script)
      BY <2>1, <2>2, <3>2 DEF Underway
    <3> QED BY <3>1, <3>2, <3>3, <2>2 DEF Underway
  <2>4. CASE alembic.rev < alembic.to
    <3>1. Going = "up" /\ Towards = alembic.rev + 1 /\ Towards # 1
      BY <2>3, <2>4 DEF Going, Towards
    <3>2. alembic'.rev = alembic.rev + 1 /\ alembic'.to = alembic.to /\ alembic'.pc = 1
          /\ alembic'.schema = alembic.schema
      BY <2>1, <3>1, <1>0
    <3>3. alembic.rev # 8
      <4>1. SUFFICES ASSUME alembic.rev = 8 PROVE FALSE
        OBVIOUS
      <4>2. alembic.pc <= 16
        BY <4>1, <2>2, <2>4 DEF Underway
      <4>3. Script = Upgrade(9)
        BY <4>1, <2>4, ScriptIsPath DEF Path
      <4> QED BY <4>2, <4>3, <2>1, <2>3, <1>0, LastUpgrade
    <3>4. alembic'.schema = At[alembic'.rev]
      BY <3>2, <3>3, <2>3, <2>4, <1>0, PathLeads, ScriptIsPath
    <3>5. alembic'.rev \in 1..8 /\ alembic'.to \in Revision
      BY <3>2, <3>3, <2>3, <1>0
    <3>6. Len(Script') \in Nat
      BY <3>5, PathFacts, ScriptIsPath
    <3>7. alembic'.schema = Made(At[alembic'.rev], Script', alembic'.pc - 1)
      <4>1. alembic'.pc - 1 = 0
        BY <3>2
      <4> QED BY <4>1, <3>4, MadeNone
    <3>8. Underway'
      BY <3>2, <3>5, <3>6, <3>7 DEF Underway
    <3> QED BY <3>8, <2>1, <1>0 DEF EarlyDatabase
  <2>5. CASE ~(alembic.rev < alembic.to)
    <3>1. Going = "down" /\ Towards = alembic.rev - 1
      BY <2>3, <2>5 DEF Going, Towards
    <3>2. alembic'.rev = alembic.rev - 1 /\ alembic'.to = alembic.to /\ alembic'.pc = 1
          /\ alembic'.schema = alembic.schema
      BY <2>1, <3>1, <1>0
    <3>3. alembic.rev # 1
      <4>1. SUFFICES ASSUME alembic.rev = 1 PROVE FALSE
        OBVIOUS
      <4>2. alembic.to < alembic.rev
        BY <4>1, <2>1, <2>5, <1>0 DEF Revision, LastRevision
      <4>3. alembic.pc <= 7
        BY <4>1, <4>2, <2>2 DEF Underway
      <4>4. Script = Downgrade(1)
        BY <4>1, <2>5, ScriptIsPath DEF Path
      <4> QED BY <4>3, <4>4, <2>1, <1>0, FirstDowngrade
    <3>4. alembic'.schema = At[alembic'.rev]
      BY <3>2, <3>3, <2>3, <2>5, <1>0, PathLeads, ScriptIsPath
    <3>5. alembic'.rev \in 1..8 /\ alembic'.to \in Revision
      BY <3>2, <3>3, <2>3, <1>0
    <3>6. Len(Script') \in Nat
      BY <3>5, PathFacts, ScriptIsPath
    <3>7. alembic'.schema = Made(At[alembic'.rev], Script', alembic'.pc - 1)
      <4>1. alembic'.pc - 1 = 0
        BY <3>2
      <4> QED BY <4>1, <3>4, MadeNone
    <3>8. Underway'
      BY <3>2, <3>5, <3>6, <3>7 DEF Underway
    <3> QED BY <3>8, <2>1, <1>0 DEF EarlyDatabase
  <2> QED BY <2>4, <2>5
<1>4. ASSUME MigrationEnds PROVE EarlyDatabase'
  <2>1. /\ job = "alembic" /\ alembic.rev = alembic.to
        /\ schema' = alembic.schema /\ rev' = alembic.rev
        /\ models' = models /\ job' = "none"
    BY <1>4 DEF MigrationEnds, End
  <2>2. Underway
    BY <2>1 DEF EarlyDatabase
  <2>3. alembic.rev \in 1..8 /\ alembic.schema = At[alembic.rev]
    <3>1. alembic.pc - 1 = 0
      BY <2>1, <2>2 DEF Underway
    <3> QED BY <3>1, <2>2, MadeNone DEF Underway
  <2> QED BY <2>1, <2>3, <1>0 DEF EarlyDatabase
<1>5. ASSUME MigrationFails PROVE EarlyDatabase'
  BY <1>5, <1>0 DEF MigrationFails, End, EarlyDatabase
<1> QED BY <1>1, <1>2, <1>3, <1>4, <1>5

\* The first downgrade drops every table of today's models.
LEMMA FirstDowngradeTakesAll == Made(Today, Downgrade(1), 10) = {}
<1> DEFINE D == Downgrade(1)
<1>1. \A i \in 1..10 : D[i].op # "add"
  BY FirstDowngrade
<1>2. Made(Today, D, 10) = {x \in Today : \A i \in 1..10 : ~Removes(D[i], x)}
  BY <1>1 DEF Made
<1>3. ASSUME NEW x \in Today
      PROVE  \E i \in 1..10 : Removes(D[i], x)
  <2>1. \E i \in 1..10 : D[i].obj.kind = "table" /\ D[i].obj.name = x.table
    BY TodaysProfile, FirstDowngrade
  <2>2. PICK i \in 1..10 : D[i].obj.kind = "table" /\ D[i].obj.name = x.table
    BY <2>1
  <2> QED BY <2>2, FirstDowngrade DEF Removes, GoesWith
<1> QED BY <1>2, <1>3

\* Alembic in a database that begins with today's models: it never gets past 0002.
LEMMA TodaysAlembicStep ==
    ASSUME IInv, TodaysDatabase,
           \/ \E r \in Revision : Migrate(r)
           \/ Statement \/ Migrated \/ MigrationEnds \/ MigrationFails
    PROVE  TodaysDatabase'
<1>0. /\ alembic.rev \in Revision /\ alembic.to \in Revision /\ alembic.pc \in Nat
      /\ alembic = [to |-> alembic.to, rev |-> alembic.rev,
                    pc |-> alembic.pc, schema |-> alembic.schema]
      /\ models = Today /\ Revision = 0..9
      /\ (rev = 0 /\ schema = {}) \/ (rev = 1 /\ schema = Today)
  BY DEF IInv, TypeOK, JobShape, TodaysDatabase, Revision, LastRevision
<1>1. Len(Upgrade(2)) = 2 /\ ~CanRun(Today, Upgrade(2)[1], Nulls)
  BY SecondUpgradeBlocked
<1>2. Len(Upgrade(1)) = 0
  BY DEF Upgrade
<1>3. Made(Today, Downgrade(1), 0) = Today
  BY MadeNone
<1>4. Len(Downgrade(1)) = 10 /\ \A i \in 1..10 : Downgrade(1)[i].op = "dropExisting"
  BY FirstDowngrade
<1>5. AtWork => \/ /\ alembic.rev = 0 /\ alembic.pc = 1 /\ alembic.schema = {}
                   /\ Script = Upgrade(1) /\ Going = "up" /\ Towards = 1
                \/ /\ alembic.rev = 1 /\ alembic.pc = 1 /\ alembic.schema = Today
                   /\ Script = Upgrade(2)
                \/ /\ alembic.rev = 1 /\ alembic.to = 0 /\ alembic.pc \in 1..11
                   /\ alembic.schema = Made(Today, Downgrade(1), alembic.pc - 1)
                   /\ Script = Downgrade(1) /\ Going = "down" /\ Towards = 0
  <2> SUFFICES ASSUME AtWork
               PROVE  \/ /\ alembic.rev = 0 /\ alembic.pc = 1 /\ alembic.schema = {}
                         /\ Script = Upgrade(1) /\ Going = "up" /\ Towards = 1
                      \/ /\ alembic.rev = 1 /\ alembic.pc = 1 /\ alembic.schema = Today
                         /\ Script = Upgrade(2)
                      \/ /\ alembic.rev = 1 /\ alembic.to = 0 /\ alembic.pc \in 1..11
                         /\ alembic.schema = Made(Today, Downgrade(1), alembic.pc - 1)
                         /\ Script = Downgrade(1) /\ Going = "down" /\ Towards = 0
    OBVIOUS
  <2>1. job = "alembic" /\ alembic.rev # alembic.to
    BY DEF AtWork
  <2>2. CASE alembic.rev = 0 /\ alembic.pc = 1 /\ alembic.schema = {}
    <3>1. alembic.rev < alembic.to
      BY <2>1, <2>2, <1>0
    <3> QED BY <2>2, <3>1 DEF Script, Going, Towards
  <2>3. CASE /\ alembic.rev = 1 /\ alembic.pc \in 1..11
             /\ (1 <= alembic.to => alembic.pc = 1)
             /\ alembic.schema = Made(Today, Downgrade(1), alembic.pc - 1)
    <3>1. CASE alembic.to = 0
      <4>1. ~(alembic.rev < alembic.to)
        BY <2>3, <3>1
      <4> QED BY <2>3, <3>1, <4>1 DEF Script, Going, Towards
    <3>2. CASE alembic.to # 0
      <4>1. alembic.rev < alembic.to /\ alembic.pc = 1
        BY <2>1, <2>3, <3>2, <1>0
      <4>2. alembic.pc - 1 = 0
        BY <4>1
      <4>3. alembic.schema = Today
        BY <2>3, <4>2, <1>3
      <4> QED BY <2>3, <4>1, <4>3 DEF Script, Going, Towards
    <3> QED BY <3>1, <3>2
  <2> QED BY <2>1, <2>2, <2>3 DEF TodaysDatabase
<1>6. ASSUME NEW r \in Revision, Migrate(r) PROVE TodaysDatabase'
  <2>1. /\ alembic'.to = r /\ alembic'.rev = rev /\ alembic'.pc = 1
        /\ alembic'.schema = schema /\ alembic'.pc - 1 = 0
    BY <1>6 DEF Migrate
  <2>2. models' = models /\ rev' = rev /\ schema' = schema
    BY <1>6 DEF Migrate, database
  <2> QED BY <2>1, <2>2, <1>0, <1>3 DEF TodaysDatabase
<1>7. ASSUME Statement PROVE TodaysDatabase'
  <2>1. /\ AtWork /\ alembic.pc <= Len(Script)
        /\ CanRun(alembic.schema, Script[alembic.pc], Nulls)
        /\ alembic' = [alembic EXCEPT !.schema = After(@, Script[alembic.pc]), !.pc = @ + 1]
        /\ models' = models /\ job' = job
    BY <1>7 DEF Statement
  <2>2. /\ alembic.rev = 1 /\ alembic.to = 0 /\ alembic.pc \in 1..10
        /\ alembic.schema = Made(Today, Downgrade(1), alembic.pc - 1)
        /\ Script = Downgrade(1)
    BY <2>1, <1>1, <1>2, <1>4, <1>5
  <2>3. Script[alembic.pc].op = "dropExisting"
    BY <2>2, <1>4
  <2>4. schema' = schema /\ rev' = rev
    <3>1. Script[alembic.pc] # Commit
      BY <2>3 DEF Commit
    <3> QED BY <3>1, <1>7 DEF Statement
  <2>5. /\ alembic'.rev = 1 /\ alembic'.to = 0 /\ alembic'.pc = alembic.pc + 1
        /\ alembic'.schema = After(alembic.schema, Downgrade(1)[alembic.pc])
    BY <2>1, <2>2, <1>0
  <2>6. alembic'.schema = Made(Today, Downgrade(1), alembic.pc)
    <3> DEFINE n == alembic.pc - 1
    <3>1. n \in Nat /\ n + 1 = alembic.pc
      BY <2>2
    <3>2. Downgrade(1)[n + 1].op \in Ops
      BY <3>1, <2>2, <2>3 DEF Ops
    <3>3. Made(Today, Downgrade(1), n + 1) = After(Made(Today, Downgrade(1), n), Downgrade(1)[n + 1])
      BY <3>1, <3>2, MadeStep
    <3> QED BY <2>2, <2>5, <3>1, <3>3
  <2>7. alembic'.pc \in 1..11 /\ alembic'.pc - 1 = alembic.pc
    BY <2>2, <2>5
  <2> QED BY <2>1, <2>4, <2>5, <2>6, <2>7, <1>0 DEF TodaysDatabase
<1>8. ASSUME Migrated PROVE TodaysDatabase'
  <2>1. /\ AtWork /\ alembic.pc > Len(Script)
        /\ models' = models /\ rev' = rev /\ schema' = schema
        /\ alembic' = [alembic EXCEPT !.rev = Towards, !.pc = 1,
                          !.schema = IF Towards = 1 /\ Going = "up" THEN models ELSE @]
    BY <1>8 DEF Migrated, database
  <2>2. CASE alembic.rev = 0 /\ Going = "up" /\ Towards = 1
    <3>1. alembic'.rev = 1 /\ alembic'.pc = 1 /\ alembic'.schema = Today
          /\ alembic'.pc - 1 = 0
      BY <2>1, <2>2, <1>0
    <3> QED BY <2>1, <3>1, <1>0, <1>3 DEF TodaysDatabase
  <2>3. CASE /\ alembic.pc \in 1..11 /\ Script = Downgrade(1) /\ Going = "down" /\ Towards = 0
             /\ alembic.schema = Made(Today, Downgrade(1), alembic.pc - 1)
    <3>1. alembic.pc = 11 /\ alembic.pc - 1 = 10
      BY <2>1, <2>3, <1>4
    <3>2. alembic.schema = {}
      BY <2>3, <3>1, FirstDowngradeTakesAll
    <3>3. alembic'.rev = 0 /\ alembic'.pc = 1 /\ alembic'.schema = {}
      BY <2>1, <2>3, <3>2, <1>0
    <3> QED BY <2>1, <3>3, <1>0 DEF TodaysDatabase
  <2> QED BY <2>1, <2>2, <2>3, <1>1, <1>5
<1>9. ASSUME MigrationEnds PROVE TodaysDatabase'
  <2>1. /\ job = "alembic" /\ alembic.rev = alembic.to /\ schema' = alembic.schema
        /\ rev' = alembic.rev /\ models' = models /\ job' = "none"
    BY <1>9 DEF MigrationEnds, End
  <2>2. CASE alembic.rev = 0 /\ alembic.schema = {}
    <3>1. models' = Today /\ rev' = 0 /\ schema' = {} /\ job' # "alembic"
      BY <2>1, <2>2, <1>0
    <3> QED BY <3>1 DEF TodaysDatabase
  <2>3. CASE /\ alembic.rev = 1 /\ (1 <= alembic.to => alembic.pc = 1)
             /\ alembic.schema = Made(Today, Downgrade(1), alembic.pc - 1)
    <3>1. alembic.pc - 1 = 0
      BY <2>1, <2>3
    <3> QED BY <2>1, <2>3, <3>1, <1>0, <1>3 DEF TodaysDatabase
  <2> QED BY <2>1, <2>2, <2>3 DEF TodaysDatabase
<1>10. ASSUME MigrationFails PROVE TodaysDatabase'
  <2>1. models' = models /\ rev' = rev /\ schema' = schema /\ job' = "none"
    BY <1>10 DEF MigrationFails, End
  <2> QED BY <2>1, <1>0 DEF TodaysDatabase
<1> QED BY <1>6, <1>7, <1>8, <1>9, <1>10

\* What is not a step of alembic.
OtherStart == (\E skip \in BOOLEAN : Seed(skip)) \/ Demo \/ Missing
OtherWork == SeedPart \/ DemoUsers \/ DemoSuppliers \/ MissingUsers
OtherEnd == SeedFails \/ SeedEnds \/ ScriptFails \/ Killed \/ OrderFreeText

\* Seeds and scripts leave the schema alone.
LEMMA OtherKeepsSchema ==
    ASSUME OtherStart \/ OtherWork \/ OtherEnd
    PROVE  job' # "alembic" /\ UNCHANGED <<models, rev, schema>>
<1>1. ASSUME NEW skip \in BOOLEAN, Seed(skip)
      PROVE  job' # "alembic" /\ UNCHANGED <<models, rev, schema>>
  BY <1>1 DEF Seed, Run, database
<1>2. Demo \/ Missing => job' # "alembic" /\ UNCHANGED <<models, rev, schema>>
  BY DEF Demo, Missing, Run, database
<1>3. SeedPart \/ DemoUsers => job' # "alembic" /\ UNCHANGED <<models, rev, schema>>
  BY DEF SeedPart, DemoUsers, database
<1>4. DemoSuppliers \/ MissingUsers => job' # "alembic" /\ UNCHANGED <<models, rev, schema>>
  BY DEF DemoSuppliers, MissingUsers, End
<1>5. OtherEnd => job' # "alembic" /\ UNCHANGED <<models, rev, schema>>
  BY DEF OtherEnd, SeedFails, SeedEnds, ScriptFails, Killed, OrderFreeText, End, database
<1> QED BY <1>1, <1>2, <1>3, <1>4, <1>5 DEF OtherStart, OtherWork

\* There are no other steps.
LEMMA StepKinds ==
    ASSUME Next
    PROVE  \/ (\E r \in Revision : Migrate(r)) \/ Statement \/ Migrated \/ MigrationEnds
              \/ MigrationFails
           \/ OtherStart \/ OtherWork \/ OtherEnd
BY DEF Next, OtherStart, OtherWork, OtherEnd

\* Every step keeps the invariant.
LEMMA SchemaStep ==
    ASSUME IInv, SchemaInv, [Next]_vars
    PROVE  SchemaInv'
<1>1. CASE UNCHANGED vars
  <2>1. Script' = Script
    BY <1>1, ScriptIsPath DEF vars
  <2>2. EarlyDatabase => EarlyDatabase'
    BY <1>1, <2>1 DEF vars, EarlyDatabase, Underway
  <2>3. TodaysDatabase => TodaysDatabase'
    BY <1>1 DEF vars, TodaysDatabase
  <2> QED BY <2>2, <2>3 DEF SchemaInv
<1>2. CASE (\E r \in Revision : Migrate(r)) \/ Statement \/ Migrated \/ MigrationEnds
           \/ MigrationFails
  BY <1>2, EarlyAlembicStep, TodaysAlembicStep DEF SchemaInv
<1>3. CASE OtherStart \/ OtherWork \/ OtherEnd
  <2>1. EarlyDatabase => EarlyDatabase'
    BY <1>3, OtherKeepsSchema DEF EarlyDatabase
  <2>2. TodaysDatabase => TodaysDatabase'
    BY <1>3, OtherKeepsSchema DEF TodaysDatabase
  <2> QED BY <2>1, <2>2 DEF SchemaInv
<1> QED BY <1>1, <1>2, <1>3, StepKinds

\* Each of the first eight revisions of an early version has the products.
LEMMA ProductsThere ==
    \A r \in 1..8 : Products \in At[r]
<1>1. Products \in Early /\ Products \notin Lifted
  BY DEF Early, Shared, Lifted, Products, Table, NotNull
<1>2. Products \in At[1] /\ Products \in At[2] /\ Products \in At[3] /\ Products \in At[4]
      /\ Products \in At[5]
  <2>1. At[2] = At[1] \cup Gained(2) /\ At[3] = At[2] \cup Gained(3)
        /\ At[4] = At[3] \cup Gained(4) /\ At[5] = At[4] \cup Gained(5)
    BY EarlySchemas
  <2> QED BY <1>1, <2>1, EarlySchemas
<1>3. Products \in At[6] /\ Products \in At[7] /\ Products \in At[8]
  BY <1>1, <1>2, EarlySchemas
<1>4. \A r \in 1..8 : r = 1 \/ r = 2 \/ r = 3 \/ r = 4 \/ r = 5 \/ r = 6 \/ r = 7 \/ r = 8
  OBVIOUS
<1> QED BY <1>2, <1>3, <1>4

\* A step that takes a row away ends a downgrade of a database that began with today's
\* models, and takes all of them.
LEMMA RowsStep ==
    ASSUME IInv, SchemaInv, [Next]_vars
    PROVE  (\E p \in Parts : copies'[p] < copies[p]) =>
             /\ models = Today /\ rev' = 0 /\ schema' = {}
             /\ \A p \in Parts : copies'[p] = 0
<1> DEFINE Stay == \A p \in Parts : ~(copies'[p] < copies[p])
           Gone == /\ models = Today /\ rev' = 0 /\ schema' = {}
                   /\ \A p \in Parts : copies'[p] = 0
<1> SUFFICES Stay \/ Gone
  OBVIOUS
<1>1. /\ copies \in [Parts -> Nat] /\ \A p \in Parts : copies[p] \in Nat
      /\ \A p \in Parts : p # "demoLinks" => copies[p] <= 1
  BY Counted DEF IInv, TypeOK, Single
<1>2. copies' = copies => Stay
  BY <1>1
<1>3. CASE UNCHANGED vars
  BY <1>2, <1>3 DEF vars
<1>4. CASE MigrationEnds
  <2>1. SchemaInv'
    BY SchemaStep
  <2>2. models' = models
    BY <1>4 DEF MigrationEnds, End
  <2>3. CASE EarlyDatabase'
    <3>1. Products \in schema'
      BY <2>3, ProductsThere DEF EarlyDatabase
    <3> QED BY <1>2, <1>4, <3>1 DEF MigrationEnds, data
  <2>4. CASE TodaysDatabase' /\ rev' = 1 /\ schema' = Today
    <3>1. Products \in schema'
      BY <2>4 DEF Today, Shared
    <3> QED BY <1>2, <1>4, <3>1 DEF MigrationEnds, data
  <2>5. CASE TodaysDatabase' /\ rev' = 0 /\ schema' = {}
    <3>1. copies' = [p \in Parts |-> 0]
      BY <1>4, <2>5 DEF MigrationEnds
    <3> QED BY <2>2, <2>5, <3>1 DEF TodaysDatabase
  <2> QED BY <2>1, <2>3, <2>4, <2>5 DEF SchemaInv, TodaysDatabase
<1>5. CASE (\E r \in Revision : Migrate(r)) \/ Statement \/ Migrated \/ MigrationFails
  BY <1>2, <1>5 DEF Migrate, Statement, Migrated, MigrationFails, data
<1>6. CASE OtherStart \/ OtherEnd
  BY <1>2, <1>6 DEF OtherStart, OtherEnd, Seed, Demo, Missing, SeedFails, SeedEnds, ScriptFails,
                    Killed, OrderFreeText, data
<1>7. CASE SeedPart
  <2>1. next \in 1..17 /\ copies' = Inserted(Plan[next])
    BY <1>7, PlanFacts DEF SeedPart
  <2>2. Plan[next].name \in Parts /\ Plan[next].name # "demoLinks"
    BY <2>1, PlanNames DEF Extra
  <2>3. /\ copies'[Plan[next].name] = (IF next = 12 THEN copies[Plan[next].name] + 1 ELSE 1)
        /\ \A p \in Parts : p # Plan[next].name => copies'[p] = copies[p]
    BY <2>1, RowTypes DEF IInv
  <2> HIDE DEF Stay
  <2>4. Stay
    BY <1>1, <2>2, <2>3 DEF Stay
  <2> QED BY <2>4
<1>8. CASE DemoUsers
  BY <1>1, <1>8 DEF DemoUsers
<1>9. CASE DemoSuppliers
  <2>1. PICK more \in {0, 1} :
          copies' = [copies EXCEPT !["demoSuppliers"] = 1, !["demoLinks"] = @ + more]
    BY <1>9 DEF DemoSuppliers
  <2> QED BY <1>1, <2>1
<1>10. CASE MissingUsers
  <2>1. copies' = [copies EXCEPT !["missingUsers"] =
                      IF There("roles") /\ ~There("users") THEN 1 ELSE @]
    BY <1>10 DEF MissingUsers
  <2> QED BY <1>1, <2>1
<1> QED BY <1>3, <1>4, <1>5, <1>6, <1>7, <1>8, <1>9, <1>10, StepKinds DEF OtherWork

\* The invariant of the schema holds in every reachable state.
THEOREM SchemaHolds == Spec => []SchemaInv
<1>1. Init => SchemaInv
  BY SchemaInit
<1>2. IInv /\ SchemaInv /\ [Next]_vars => SchemaInv'
  BY SchemaStep
<1> QED
  BY <1>1, <1>2, BootstrapHolds, PTL DEF Spec

\* The recorded revision tells the schema, whatever was upgraded, downgraded, failed or
\* killed and for any number of commands.
THEOREM RevisionIsTrue == Spec => []RevisionTellsSchema
<1>1. SchemaInv => RevisionTellsSchema
  BY SchemaSteps DEF SchemaInv, EarlyDatabase, TodaysDatabase, RevisionTellsSchema, At
<1> QED
  BY <1>1, SchemaHolds, PTL

\* No step takes a row away but the end of a downgrade that takes the whole schema of a
\* database that began with today's models.
THEOREM RowsAreKept == Spec => RowsGoWithSchema
<1>1. IInv /\ SchemaInv /\ [Next]_vars =>
        [(\E p \in Parts : copies'[p] < copies[p]) =>
            /\ models = Today /\ rev' = 0 /\ schema' = {}
            /\ \A p \in Parts : copies'[p] = 0]_vars
  BY RowsStep
<1> QED
  BY <1>1, BootstrapHolds, SchemaHolds, PTL DEF Spec, RowsGoWithSchema
=============================================================================
