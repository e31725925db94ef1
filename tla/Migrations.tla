----------------------------- MODULE Migrations -----------------------------
(***************************************************************************)
(* The Alembic revisions 0001 to 0009 and an alembic command that takes a  *)
(* database up or down through them, statement by statement, and may be    *)
(* killed at any one.                                                      *)
(*                                                                         *)
(* A schema is a set of objects: tables, the columns, indexes and checks   *)
(* that some revision adds or drops, and NOT NULL constraints it changes.  *)
(* Dropping a column takes its indexes and checks with it, and a table     *)
(* that another one references cannot be dropped.  Enum labels are left    *)
(* out: they are added IF NOT EXISTS, never dropped, and nothing in a      *)
(* revision depends on them.                                               *)
(*                                                                         *)
(* 0001 creates the tables of the models as they are when it runs.  A      *)
(* database is therefore told apart by the models it began with: those of  *)
(* an early version (Early), or today's (Today).                           *)
(***************************************************************************)
EXTENDS Integers, Sequences

Table(t, refs) == [kind |-> "table", table |-> t, name |-> t, on |-> refs]
Column(t, c) == [kind |-> "column", table |-> t, name |-> c, on |-> {}]
Key(t, n, cs) == [kind |-> "key", table |-> t, name |-> n, on |-> cs]
NotNull(t, c) == [kind |-> "notNull", table |-> t, name |-> c, on |-> {}]

Columns(t, cs) == {Column(t, c) : c \in cs}

Add(o) == [op |-> "add", obj |-> o]
Drop(o) == [op |-> "drop", obj |-> o]
DropExisting(o) == [op |-> "dropExisting", obj |-> o]
Commit == [op |-> "commit", obj |-> Table("alembic_version", {})]

Adds(os) == [i \in 1..Len(os) |-> Add(os[i])]
Drops(os) == [i \in 1..Len(os) |-> Drop(os[i])]
DropsBack(os) == [i \in 1..Len(os) |-> Drop(os[Len(os) + 1 - i])]

-----------------------------------------------------------------------------
(* What the models say *)

Products == Table("products", {})

Shared ==
    {Products, Table("suppliers", {}), Table("orders", {}), Table("rfqs", {"orders"}),
     Table("order_items", {"orders"}), Table("rfq_items", {"rfqs"}),
     Table("supplier_quotes", {"rfqs", "suppliers"}),
     Table("quote_items", {"supplier_quotes", "rfq_items"})}

AisReports == <<Table("ais_position_reports", {}),
                Key("ais_position_reports", "indexes", {})>>

SimEvents == <<Table("market_sim_events", {"rfqs", "suppliers"}),
               Key("market_sim_events", "indexes", {})>>

Visibility == <<Column("market_sim_events", "visibility"),
                Column("market_sim_events", "visible_to_supplier_ids"),
                Key("market_sim_events", "ck_visibility", {"visibility"}),
                Key("market_sim_events", "ix_visibility", {"visibility"})>>

RfqImpa == <<Column("rfq_items", "impa_code"),
             Key("rfq_items", "ix_impa_code", {"impa_code"})>>

OrderImpa == <<Column("order_items", "impa_code"),
               Key("order_items", "ix_impa_code", {"impa_code"})>>

LineStatus == <<Column("quote_items", "line_status"),
                Column("quote_items", "quoted_quantity"),
                Key("quote_items", "ck_line_status", {"line_status"})>>

Markup == <<Column("rfqs", "markup_pct"),
            Column("supplier_quotes", "marked_up_total"),
            Column("supplier_quotes", "customer_facing_total")>>

ToSetOf(os) == {os[i] : i \in 1..Len(os)}

\* Inferred from what the later revisions find and change.
Early ==
    Shared
    \cup {Table("bid_comparisons", {"rfqs"})}
    \cup Columns("supplier_quotes", {"score", "is_awarded", "is_rejected", "rejection_reason"})
    \cup {NotNull("order_items", "product_id"), NotNull("rfq_items", "product_id")}

Today ==
    Shared
    \cup (UNION {ToSetOf(os) : os \in {AisReports, SimEvents, RfqImpa, OrderImpa,
                                       LineStatus, Markup}})
    \cup {Visibility[1], Visibility[2], Visibility[3]}

-----------------------------------------------------------------------------
(* The revisions *)

OrdersIndex == Key("orders", "ix_orders_status_order_date", {})
DeadlineIndex == Key("supplier_quotes", "ix_supplier_quotes_prep_deadline",
                     {"preparation_deadline"})
MethodCheck == Key("supplier_quotes", "ck_supplier_quotes_decision_method",
                   {"decision_method"})
DeclineCheck == Key("supplier_quotes", "ck_supplier_quotes_decline_consistency",
                    {"can_deliver_in_window", "declined_at"})
Decisions == <<Table("order_decisions",
                     {"orders", "rfq_items", "suppliers", "supplier_quotes"}),
               Key("order_decisions", "ix_order_decisions_order_rfq_item", {})>>
Assignments == <<Table("supplier_line_assignments",
                       {"orders", "rfq_items", "suppliers", "supplier_quotes",
                        "order_decisions"}),
                 Key("supplier_line_assignments", "ix_supplier_line_assignments_order", {}),
                 Key("supplier_line_assignments", "ix_supplier_line_assignments_deadline", {})>>

OrderColumns == <<Column("orders", "company_margin_pct"), Column("orders", "eta_at_port"),
                  Column("orders", "clarification")>>
QuoteColumns == <<Column("supplier_quotes", "decision_method"),
                  Column("supplier_quotes", "confirmed_at"),
                  Column("supplier_quotes", "preparation_deadline")>>
DeclineColumns == <<Column("supplier_quotes", "can_deliver_in_window"),
                    Column("supplier_quotes", "declined_at"),
                    Column("supplier_quotes", "decline_reason")>>
Departure == Column("orders", "etd_at_port")

(* A faulty variant. *)

\* The table of an early version is dropped as well.
Downgrade0001Whole ==
    LET ts == <<"bid_comparisons", "quote_items", "supplier_quotes", "rfq_items",
                "order_items", "market_sim_events", "ais_position_reports", "rfqs",
                "orders", "suppliers", "products">>
    IN  [i \in 1..Len(ts) |-> DropExisting(Table(ts[i], {}))]

(* The code. *)

\* drop_all leaves out the tables it does not know and those that are not there.
Downgrade0001 ==
    LET ts == <<"quote_items", "supplier_quotes", "rfq_items", "order_items",
                "market_sim_events", "ais_position_reports", "rfqs", "orders",
                "suppliers", "products">>
    IN  [i \in 1..Len(ts) |-> DropExisting(Table(ts[i], {}))]

Upgrade0005 ==
    Adds(OrderColumns \o <<OrdersIndex>> \o RfqImpa \o QuoteColumns
         \o <<MethodCheck, DeadlineIndex>> \o LineStatus \o Decisions \o Assignments)

Downgrade0005 ==
    DropsBack(Assignments) \o DropsBack(Decisions)
    \o Drops(<<LineStatus[3], LineStatus[2], LineStatus[1], DeadlineIndex, MethodCheck>>)
    \o DropsBack(QuoteColumns) \o DropsBack(RfqImpa)
    \o Drops(<<OrdersIndex>>) \o DropsBack(OrderColumns)

Upgrade0007 ==
    <<Add(Departure), DropExisting(NotNull("order_items", "product_id"))>>
    \o Adds(OrderImpa)
    \o <<DropExisting(NotNull("rfq_items", "product_id"))>>
    \o Adds(DeclineColumns \o <<DeclineCheck>>)

Downgrade0007 ==
    Drops(<<DeclineCheck>>) \o DropsBack(DeclineColumns)
    \o <<Add(NotNull("rfq_items", "product_id"))>>
    \o DropsBack(OrderImpa)
    \o <<Add(NotNull("order_items", "product_id")), Drop(Departure)>>

\* The index has gone with its column by the time it is dropped.
Upgrade0009 ==
    Adds(Markup) \o Drops(<<MethodCheck, DeclineCheck>>)
    \o Drops(<<Column("supplier_quotes", "score"), Column("supplier_quotes", "is_awarded"),
               Column("supplier_quotes", "is_rejected"),
               Column("supplier_quotes", "rejection_reason"), QuoteColumns[1]>>
             \o DeclineColumns \o <<QuoteColumns[3], QuoteColumns[2], DeadlineIndex>>)
    \o DropsBack(Decisions) \o DropsBack(Assignments)
    \o Drops(<<Table("bid_comparisons", {}), SimEvents[1], OrderColumns[1], OrderColumns[2],
               Departure, OrderColumns[3], OrdersIndex>>)

LastRevision == 9
Revision == 0..LastRevision

\* 0001 is not a list of statements: see Creates.  0006 only adds labels, and so
\* does 0008, which first commits what has been done.
Upgrade(r) ==
    CASE r = 2 -> Adds(AisReports)
      [] r = 3 -> Adds(SimEvents)
      [] r = 4 -> Adds(Visibility)
      [] r = 5 -> Upgrade0005
      [] r = 7 -> Upgrade0007
      [] r = 8 -> <<Commit>>
      [] r = 9 -> Upgrade0009
      [] OTHER -> <<>>

\* 0009 is never reached, so its downgrade is not either.
Downgrade(r) ==
    CASE r = 1 -> Downgrade0001
      [] r = 2 -> DropsBack(AisReports)
      [] r = 3 -> DropsBack(SimEvents)
      [] r = 4 -> DropsBack(Visibility)
      [] r = 5 -> Downgrade0005
      [] r = 7 -> Downgrade0007
      [] OTHER -> <<>>

-----------------------------------------------------------------------------
(* What a statement does *)

Same(x, o) == x.kind = o.kind /\ x.table = o.table /\ x.name = o.name

Present(s, o) == \E x \in s : Same(x, o)

HasTable(s, t) == Present(s, Table(t, {}))

Referenced(s, t) == \E x \in s : x.kind = "table" /\ x.name # t /\ t \in x.on

CanAdd(s, o) ==
    /\ ~Present(s, o)
    /\ IF o.kind = "table"
       THEN \A t \in o.on : HasTable(s, t)
       ELSE /\ HasTable(s, o.table)
            /\ \A c \in o.on : Present(s, Column(o.table, c))

CanDrop(s, o) == Present(s, o) /\ (o.kind = "table" => ~Referenced(s, o.name))

GoesWith(x, o) ==
    \/ Same(x, o)
    \/ o.kind = "table" /\ x.table = o.name
    \/ o.kind = "column" /\ x.table = o.table /\ x.kind = "key" /\ o.name \in x.on

\* nulls: the NOT NULL constraints some row stands against.
CanRun(s, st, nulls) ==
    CASE st.op = "add" -> CanAdd(s, st.obj) /\ st.obj \notin nulls
      [] st.op = "drop" -> CanDrop(s, st.obj)
      [] st.op = "dropExisting" -> Present(s, st.obj) => CanDrop(s, st.obj)
      [] st.op = "commit" -> TRUE

After(s, st) ==
    CASE st.op = "add" -> s \cup {st.obj}
      [] st.op \in {"drop", "dropExisting"} -> {x \in s : ~GoesWith(x, st.obj)}
      [] st.op = "commit" -> s

\* The schema a script makes of s.
Result(s, script) ==
    LET f[i \in 0..Len(script)] == IF i = 0 THEN s ELSE After(f[i - 1], script[i])
    IN  f[Len(script)]

\* The schema of a database that began with the given models and was only ever
\* upgraded, at each revision.
SchemaAt(models) ==
    LET f[r \in Revision] == IF r = 0 THEN {}
                             ELSE IF r = 1 THEN models
                             ELSE Result(f[r - 1], Upgrade(r))
    IN  f
=============================================================================
