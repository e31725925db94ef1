# Ship-supply platform: TLA+ verification project

This directory models the core of the repository in TLA+, model-checks it with
TLC on small instances, and proves its main invariants with TLAPS for every
value of the constants.  Every definition is translated from the source; the
`map` of `PROJECT.json` names the lines each one stands for.

## 1. Inventory

| Component | State it keeps | Operations | Hard behaviours | What makes it correct |
|---|---|---|---|---|
| Orders (`api/v1/orders.py`) | `orders`, `order_items` | create, edit (DRAFT only), submit, transition | submit and transition look at no status | an approval is backed by an award |
| RFQs and quotes (`services/marketplace.py`, `marketplace_simple.py`, `rfq.py`) | `rfqs`, `rfq_items`, `supplier_quotes` | fan-out, portal quote, legacy quote, markup, send, approve, reject, compare | two quote routes with different guards; a resubmission deletes a row another table points to; a counter closes the RFQ; no row locks, no versions | awards point at live quotes, the counter is bounded, prices follow the markup, decided quotes are frozen |
| Clarification thread (`services/clarification.py`) | an attribute without a column | ask, answer, resolve, check | what a request writes is gone in the next | the fan-out waits for answers (it does not) |
| Deadline sweeper (`main.py`, `sweep_rfq_deadlines`) | none | a tick every 5 minutes | races every handler; must eventually close | no RFQ stays SENT |
| Market simulator (`services/market_sim.py`) | the RFQ's row, its round and seed in `rfqs.extra`, `simulation_events` | dry run, real run, counter-offer | reopens decided RFQs, returns early before its clean-up; rounds that overlap overwrite each other's counter; strategies by a salted hash | the trail of rounds has no gap, a round can be replayed, counter-offers only squeeze |
| Offline queue (`frontend/src/offline`) and replay (`services/sync.py`) | IndexedDB `order_queue`; `offline_actions`, `sync_conflicts`, `orders` | enqueue, drain, replay | lost response, retry, several tabs, one transaction for a batch, unique key | each order at most once and in order; nothing vanishes; the drain ends |
| AIS simulator (`sim/`) and ingest (`api/v1/internal/ais.py`) | vessel states, event batch, `ais_position_reports` | tick, flush, retry, ingest, stop | lost, repeated and late batches, batch cap, shutdown | rows not multiplied, arrivals explained, batch bounded, the simulator stops |
| Notifications (`services/notifications.py`, `api/v1/notifications.py`, `store/notifications.js`, the panel and the poll) | `notifications`; the store of a tab | create, list, count, mark, mark all; poll, open, click | optimistic updates, overlapping requests, late and failed answers | no mark is forgotten, the badge settles, the spinner ends |
| Login and token refresh (`api/client.js`, `store/auth.js`, `api/v1/auth.py`) | the store of each tab, the cookie all tabs share, one shared promise | login, me, request, 401, refresh, expiry, sign-out, reload | concurrent 401s, answers of an old session in a new one, another tab's login | only expiry signs out, a sign-out lasts, everybody comes to be known, the bell follows the user |
| ETA snapshot (`services/eta.py`) | two columns of an order | snapshot at fan-out | two clocks, two queries | ETA and ETD of one report, fresh |
| Permissions and scopes (`deps/auth.py`, `permissions.py`, the list of RFQs) | roles, grants, tokens, pages of a list | seed, add account, login, list, open | tokens against tables, a filter against a guard, rows that move between two pages | the two readings agree, the list is what opens |
| Comparison and redaction (`services/rfq.py`, `rfq_serializers.py`, `redaction.py`) | the award and counters of an RFQ | quote, compare, dry run | ties after rounding, weights of either sign, comparisons and quotes that overlap | the award is not dominated among the quotes that were compared, the sealed table tells one bidder's terms only |
| Customs rules (`services/customs.py`) | what was stored on an order | preflight, evaluate | two callers with different relations loaded, an error that is swallowed, rules that begin and end | an order that needs no clearance was clear, lines only add issues |
| Rate limiting (`core/ids.py`, `main.py`) | sliding windows in memory | record, trim, refuse, restart | window edges | the limit is neither exceeded nor applied early |
| Migrations, seed and scripts (`db/migrations`, `scripts/`) | the schema, the rows | upgrade, downgrade, seed, add accounts | a command killed between two statements or commits, run again, or in another order | the revision tells the schema, rows go only with the schema, nothing is seeded twice, a seed is whole or known to be cut |
| Catering, catalogue and search | menus, products | reads | - | - |
| Dashboard, users, vessels, ports | tables | reads and plain inserts | - | - |

Components interact through the database: handlers are independent transactions
(READ COMMITTED, no row locks, no version counters), the sweeper is one more
transaction on a timer, and the frontend and the AIS simulator call handlers
over HTTP, with queues, retries and optimistic state of their own.

What could go wrong and a test would hardly reach is listed, line by line, under
`hazards` in `PROJECT.json`, each with the properties that would catch it or the
reason why none does yet.

## 2. Modules

| Component | Specification | Instances for TLC | Proofs |
|---|---|---|---|
| Orders, RFQs, quotes, sweeper, what simulations leave | `Marketplace` | `MCMarketplace` | `MarketplaceProofs` |
| The handlers of one RFQ, interleaved | `MarketplaceRace` | `MCMarketplaceRace` | `MarketplaceRaceProofs` |
| Offline sync | `OfflineSync`, which implements `OrderedOnce` | `MCOfflineSync` | `OfflineSyncProofs` |
| AIS simulator and ingest | `AisFeed` | `MCAisFeed` | `AisFeedProofs` |
| Notifications | `Inbox` | `MCInbox` | `InboxProofs` |
| Login, refresh, sign-out | `Session` | `MCSession` | `SessionProofs` |
| Migrations; seed and account scripts on top of them | `Migrations`, which `Bootstrap` extends | `MCBootstrap` | `BootstrapProofs` |
| Comparison and redaction; the simulator's bid war; permissions; customs rules; rate limit | `Comparison`, `Bidding`, `Access`, `Customs`, `Throttle`, side by side in `Rules` | `MCRules` | `RulesProofs` |

Each specification also holds a few *faulty variants* of its actions, marked as
such, beside the code's own: plausible bugs (a dropped guard, a missing reset, an
off-by-one) that no specification uses and that show, one per property, that the
property does depend on the code.

### Marketplace

`order[o]` is an `orders` row (status, how often its lines were edited, whether
`approved_at` is set), `rfq[r]` an `rfqs` row, `quote[r][s]` the row of
`supplier_quotes` for that pair; `row` counts the insertions, so that a replaced
row is a different one.  A price is the markup percentage its
`customer_facing_total` contains.  `asked` is a history variable.

Actions are whole handlers, each one transaction.  The live flow is create
(DRAFT), submit (PENDING_APPROVAL), `POST /rfq/for-order` (RFQ SENT), portal
quotes, markup, send to purchaser (CLOSED), approve or reject.  Beside it the
legacy routes (`/rfq/quotes`, `/rfq/{id}/compare`, `/rfq/{id}/simulate`) and the
sweeper act on the same rows.  Any handler may be called at any time by anybody
that some role allows: what a page offers is narrower and is not modelled.

Left out, because they cannot commit anything: `marketplace_simple.fan_out_rfq`
and `/rfqs/{id}/send` (no code commits a DRAFT RFQ), compose and purchaser-approve
(`OrderDecision` no longer exists: NameError, rollback), comparing with
`save=true` (`BidComparison`, likewise: `Comparison` has the `save=false`
variant), a portal line with status `none` (`quoted_quantity = 0` violates a
CHECK), answering and resolving a question (the thread is empty: always 404),
`sweep_preparation_timeouts` (a no-op), the supplier router of
`marketplace_simple.py` (never included).  The schema is that of the models'
metadata, which migration 0001 creates.

### MarketplaceRace

The same handlers, for one RFQ that is out to its suppliers, split where another
session can get in between: `Load` is the SELECT of the RFQ, `SelectOrder` and
`SelectQuotes` are the later SELECTs, and `Commit...` is the rest of the handler
with its commit.  `WriteRFQ` and `WriteOrder` model the ORM's unit of work: only
columns whose new value differs from the loaded one are written, onto whatever
the row holds by then.  The locks that UPDATE takes are folded into the atomic
commit; a transaction that PostgreSQL would abort (deadlock, unique or foreign
key) is `Rollback`.  Handlers that act on the order alone and the simulator are
left to `Marketplace`.

### OfflineSync and OrderedOnce

`queue` is IndexedDB's `order_queue`, `tab[t]` the drain of each tab at every
point where it awaits (`waiting` for the server, `removing`, `marking` and
`putting` for IndexedDB), `committed` the ids in `offline_actions`, `made` the
orders created.  A batch is replayed in one transaction: a duplicate id
invalidates the session and rolls the whole of it back, as does a second order
with the same reference, which has a resolution of one second.  An action's
payload is abstracted to what its replay comes to (`Shapes`): the order page
produces `bare`, and `broken` is one that the database refuses, and the batch with
it, whenever it comes (a user without a vessel, an unknown port).  Requests nobody waits for any more (`orphans`) may still
reach the server.  Device registration and the summary row of a batch are left out.

`OrderedOnce` is what all this is for: changes take effect once each and never
before an older one.  `OfflineSync` implements it with `applied <- committed`.

### AisFeed

`ship[v]` is a vessel's place in its circular schedule and its remaining dwell,
`batch` the rows not yet sent, `sender` the point `run_loop`, `_flush` and
`send_batch` are at, `wire` the requests the server has not handled, `stored`
the requests whose rows are in the table.  A tick moves every vessel and collects
its report and events.  Positions, speeds and ETAs are open: a vessel under way
may arrive in any tick and its ETA may jump in any.  A batch is a set, since it
is stored in one transaction and read by timestamp.  `--dry-run` and an
unreadable body of a 200 are left out; `MaxIterations` is `run_loop`'s own
parameter, and its unlimited setting is not instantiated.

### Inbox

`row` is the `notifications` table of one user (`read_at` set or not), `items`,
`badge`, `loading` and `panelOpen` are the store of a tab, `call` its requests in
flight with the server's answer once it is handled.  `doubtful` remembers marks
that failed.  Rows become visible in the order of their commits, not of their
`created_at`.  Other tabs and devices act through `ReadElsewhere`.  The read
session of the endpoints points at the same database, so there is no replica
lag.  Clicking the bell while the panel is open closes it on mousedown and opens
it again.  Who is notified of what is left out; a change of user without
a reload is in `Session`.

### Session

`jar` is the access cookie all tabs of a browser share, `token[t]`, `shown[t]`
and `badge[t]` are the stores of tab `t`, `call[t]` its requests with the
credential each was sent with, `refreshing[t]` the shared promise of
`client.js`.  Tokens are numbered in the order of issue, so `expired` is one
number.  The backend takes the cookie before the header, which is how an answer
can be about another user than the one the tab shows.  `/auth/refresh` uses
`UUID` without importing it: every refresh ends in an error, signs the tab out,
and that is what `RefreshFails` models.  Passwords, lockout, the refresh cookie
and `/auth/logout`, which no page calls, are left out.

### Migrations and Bootstrap

`Migrations` is the nine revisions as sequences of statements on a schema, a set
of objects.  `env.py` runs a command in one transaction, but for 0008's
`autocommit_block`, which commits the seven revisions before it.  `Bootstrap`
adds the rows: `copies[p]` says how often each part of the seed is there, `job`,
`next` and `cut` where the running command is and whether a seed has ended
between products and users.  Alembic may be told to go to any revision; a downgrade
to nothing takes the rows with their tables.  Commands are run one at a time, as the manual
quickstart does; each may be killed or fail between any two statements or
commits.  The docker entrypoint is not modelled: its environment name `docker`
is none that `Settings` accepts, so it never gets that far.  `seed_clean.py`
always fails and is left out; 0009 always fails (it drops an index that went
with its column), so no database reaches it.

### Comparison, Bidding, Access, Customs and Throttle

They share no state.  `Rules` puts them side by side: `topic` chooses the part a
behaviour is about, and the others stay in their initial states, so that one run of
`MCRules` checks each property over all behaviours of its part and a theorem about
a part is a theorem about `Rules`.

* `Comparison`: quotes, weights and the answer of the last comparison or dry run.
  A request to quote or to compare reads the RFQ in one step (`ReadToQuote`,
  `ReadToCompare`) and writes in another what differs from what it read, so a quote
  may be stored after the award and two comparisons may overlap.  A score is an exact
  fraction, rounded where the code rounds; the winner is chosen before rounding and
  the table is ordered after it.  Weights are integers of either sign, because the
  route takes any number; a quote that scores -1 or less does not win, so there may
  be no winner (`CompareInVain`).  `grounds` remembers what the award was chosen
  among, and by which weights.  A dry run divides by a negative sum as well
  (`Turned`); it is one step.
* `Bidding`: `extra` is the round and seed in the RFQ's JSON column, read when a
  run begins and written back when it commits (`call`), `trail` the events of the
  runs that committed.  The jitter is an arbitrary function of seed, round and
  supplier.  `coin` is how a process's salted string hash splits the suppliers the
  ratings do not decide on; it is drawn anew at a restart.
* `Access`: whether the grants are seeded, the accounts, the token the browser
  sends, the RFQs with their vessels and the pages of a list read so far.
* `Customs`: the rules as sets of products, the lines and stored warnings of each
  order, and what its page said on which day.  The preflight sees a product
  without its category (not loaded: the error is swallowed, no issue is stored and
  the clearance flag keeps its default, TRUE); the page loads it.
* `Throttle`: the deque of each address, trimmed from the front, and a log from
  which the limit can be stated without it.

## 3. Runs

| Run | What it shows | Instance, and why it is enough |
|---|---|---|
| `marketplace` | awards name live quotes, markups are never stale, `DecidedQuotesFrozen` | 1 order, 1 RFQ, 3 suppliers (one outside the port, one with stock), 2 markups so that a stale one can differ, 2 rows per supplier so that a replaced row exists: 260 000 states |
| `marketplace_two_rfqs` | `ApprovedOrderWasAwarded`; `SentRFQIsClosed` under fairness | 2 RFQs of 1 order, so that one can be reopened after the other was awarded; 1 supplier: 171 000 states |
| `race` | what survives lost updates and stale reads | 2 sessions of all 8 handlers, 2 suppliers, both invited, 2 rows each: every pair of handlers overlaps in every way: 2.8 million states up to the symmetry of sessions |
| `race_award` | an awarded quote is replaced | 2 sessions of 3 handlers |
| `sync` | at most once, in order, nothing lost, the refinement, and that drains end | 4 actions in batches of 2, so that a batch can be split and regrouped, the third of which the database always refuses, 2 tabs, 2 faults: 386 000 states |
| `sync_stuck` | a row need not ever leave the queue | 1 tab, batches of 25, 1 fault, 3 actions none of which the database refuses by itself |
| `ais` | what a reader of the table can rely on, and that the simulator stops | 2 vessels of 2 ports, a cap of 7 that one tick can exceed, flushes every 3 ticks, 1 retry, 4 iterations: flushes on the cap, on the interval and at the end: 517 000 states |
| `inbox` | the store against the table | 2 notifications with a page of 1, so that a row can be unread and not listed, 2 requests in flight: 85 000 states.  3 notifications with a page of 2 (2.9 million states) pass as well |
| `session` | who is signed in, who is shown and whose bell it is | 1 tab and the cookies of its browser's other tabs, 2 users, 2 requests in flight so that two can share a refresh, 3 logins so that an old session's answer can meet a new session of the other user and of the same one, 1 lost request: 115 000 states |
| `bootstrap` | what commands do to a database, in any order and killed anywhere | 3 commands, enough for a killed seed, a repeated one and a script between them, on an empty database and on every revision of an earlier version, with every revision as a target: 364 000 states |
| `bootstrap_first` | the quickstart's first command fails | 1 command |
| `rules` | the five parts without shared state, one in each behaviour | 2 quotes of 2 offers, one of which is better in all but quality, 2 overlapping comparisons, and 3 weightings: one under which two scores tie after rounding, one with a negative weight and a score of exactly -1, one with a negative sum; 2 overlapping dry runs, 4 in all, over 1 restart, with and without a counter-offer that caps the lead time below a day; 2 orders over 3 products and 7 rules, 2 days; 3 accounts, 3 RFQs of 2 vessels in pages of 1; a limit of 2 in a window of 2 over 6 minutes and 4 requests: 1.3 million states up to the symmetry of comparisons |

Bounds that are not the program's own: `MaxEdits` (edits of a draft),
`MaxQuoteRows` (rows a supplier inserts in one RFQ), `SimInvited` (the 10 000 of
the simulator, smaller but above the number of suppliers), `Kinds` (the handlers
of an instance), `MaxFaults` (lost messages, server errors and reloads),
`MaxNotes` (notifications received), `Calls` (requests in flight), `MaxLogins`,
`MaxCommands`, `MaxRuns` and `MaxProcesses` (dry runs that commit, restarts),
`MaxRFQs`, `LastDay`, `LastMinute`, `MaxRequests`.  The proofs hold for any value
of them.

Each of `Marketplace`, `MarketplaceRace`, `OfflineSync`, `AisFeed`, `Inbox`,
`Session` and `Bootstrap` has a type invariant that is proved, not run;
`RulesTypeOK` is proved and runs those of the five rule parts.

`CHECK_DEADLOCK FALSE` stands where the system comes to rest: every action is
submitted and the queue is drained (`sync*`), the simulator has ended and the
wire is empty (`ais`), both sessions and the row budget are used up (`race_award`),
all commands have been run (`bootstrap*`), or the runs, days and requests of one
part have come to their bounds (`rules`).

### Fairness

* `Marketplace`: the clock passes deadlines, and the sweeper ticks for as long as
  the process runs (its loop catches every exception of a tick and sleeps five
  minutes).  People are under no obligation.
* `OfflineSync`: seconds turn; each tab's step, because of the 30 s interval, the
  event loop, and a server that answers or a client that gives up.  The crew, the
  network's faults and late requests are under no obligation.
* `AisFeed`: the runner's step: its event loop turns and httpx times out.
  Nothing is assumed of the network or the backend.
* `Inbox`: the poll is a timer, the server handles what it is sent, the tab
  takes the answers.  Users and failures are under no obligation, and
  `BadgeSettles` is about the time after they have stopped.
* `Session`: an answer comes or the client gives up, the poll is a timer: weak
  fairness, but strong for both (`Answer`, `Poll`), because a user who reloads
  over and over disables them again and again and is assumed to wait now and
  then.  A failed refresh is handled (weak).  Nobody has to sign in or out, and no
  token has to expire.
* `Bootstrap`, `MarketplaceRace` and the rule parts have no liveness property and
  no fairness.

### Where code and documents differ

Three runs expect a violation; `findings` quotes the sentence and says what
happens: a resubmission replaces an awarded quote (`race_award`), the
quickstart's first command fails (`bootstrap_first`), and a batch whose answer was
lost stays in the queue for ever, since its replay is not idempotent but fails
(`sync_stuck`).

Seen while modelling, in the modules and without a run of their own.

*Marketplace.*  A late quote reaches the purchaser without the markup; the
fan-out does not wait for an open question.  The sweeper never looks at OPEN, the
status in which a simulation leaves an RFQ; a sweep, send or approval that
overlaps another overwrites its status; approve and reject can both commit; a
markup applied while a quote is being submitted misses it; the legacy quote route
accepts suppliers outside the port.

*Offline sync.*  Two orders of one batch get the same reference and roll the batch
back every time; an action the database refuses does so with every batch it is in
and holds up the younger ones.  Failed actions are removed with the rest of their
batch, although `docs/architecture/04-offline-first.md:47` keeps them for the next
retry.

*Comparison.*  When two scores round to the same number the purchaser's card may
show a total of 0 and no lead time, since it takes the first row of the sealed
table (the comment at `rfq_serializers.py:21` takes rank 1 for the winner).
`save=true`, which the page sends by default (`RFQ.jsx:52`), ends in a NameError,
weights that sum to nothing positive in an error.  Single weights may be negative:
by such a weight the dearer or slower quote wins (`Beats` counts it that way), and
when every score is -1 or less there is no winner, and the answer shows the terms of
a row with the best score all the same; the purchaser's card calls it rank 1.  A
quote that read the RFQ before a comparison committed is stored after the award and
was not compared.  A dry run without a bidder leaves `invited_count` at
10 000.  `GET /rfq/{id}` reads `q.score`, which is no column: an error for every
RFQ with quotes.

*Bidding.*  The stored round may go backwards when runs overlap.  Each run takes
the last seed plus 1, although `rfq.py:470` says that the same seed gives the same
bids; the strategy of a supplier the ratings do not decide on changes with the
process, although `market_sim.py:209` calls it stable.  No simulation ever stores a
quote, so the filter of round 2, drop-outs and the winner of a counter-offer come to
something only where a client has posted a quote with `source` set to `sim` itself
(`/rfq/quotes` takes any), which the module leaves out.

*Session.*  `client.js:5` says that a 401 is refreshed; every refresh fails.  A
late answer of `/auth/me` may put the last user's name on a new session; the query
cache is not cleared on sign-out.

*Access.*  `Layout.jsx` offers composing to fleet_admin, whom the seed grants
nothing, as it does port_authority and viewer; `UserRole.expires_at` is not looked
at.  The supplier portal filters its list after the limit of 50.

*Customs.*  `applies_to_impa_codes` makes a port rule a narrow one and selects no
line, although the docstring lists it as a filter.  The preflight fails for every
catalogue product: such an order stores no issue and its clearance flag stays true,
the column's default, whether or not there is anything to clear; a country
rule by IMPA code that meets one makes the page an error.

*Throttle.*  Refused requests are recorded, so a client that keeps asking stays
refused; `Retry-After` says 60 and `RATE_LIMIT_WINDOW` 60 seconds where the window
is 15 minutes.

*Bootstrap.*  0001's downgrade fails on databases of an early version
(`bid_comparisons` references `rfqs`), 0007's when there are free-text items.
`seed_demo_accounts.py` draws two more ports for its suppliers on every run
(lines 172-186) and adds those that are new, although line 4 calls it idempotent:
`DemoSuppliers` lets them grow and `NothingTwice` leaves them out.  Accounts added before the roles stay without one.

Outside the modules: the comment on a position report's timestamp says wall clock
where the simulation's clock is used.

## 4. Proofs

All of it holds for every value of the constants that the named assumptions
admit: sets of suppliers and vessels are finite, the special suppliers are among
them, markups are percentages, actions are numbered, a batch and a page are not
empty, a schedule has two ports, quotes and list prices are natural numbers and
weights are integers of either sign, a
supplier's jitter is within its band, bounds are numbers.

**Marketplace.**  `TypeOK`, `AwardNamesLiveQuote`, `RespondedWithinQuotes`,
`MarkupNeverStale`, `ApprovedOrderWasAwarded` and `DecidedQuotesFrozen`.  The
inductive invariant `IInv` is `TypeOK` and, for each RFQ, `RFQInv`: the three
properties of an RFQ with its quotes and two facts they need.  An RFQ with no
quotes has no award (else an approval that finds no quote would leave an old award
standing), and a row that does not exist has no quotes and no award date (else a
fan-out would inherit quotes).  `RFQInv(r)` speaks of one RFQ only, so a step
preserves it trivially for all RFQs but the one it acts on.
`ApprovedOrderWasAwarded` then follows from two lemmas: award dates are never
erased, and only an approval stamps an order.
All of this is about handlers one after the other: of the two statements about
awarded quotes neither survives interleaved sessions (`race_award`), and what does
is proved in `MarketplaceRaceProofs`.

**MarketplaceRace.**  `TypeOK`, `CountWithinQuotes`, `AwardedSupplierQuotes`,
`AutoCloseIsComplete`.  `RaceInv` adds what each session has loaded: its quotes
belong to suppliers that still have one, its count is at most their number and
its award names one of them.  Loaded values go stale, but the set of suppliers
with a quote only grows, so these bounds survive other sessions' commits.

**OfflineSync.**  `TypeOK`, `AtMostOnce`, `NothingVanishes`, `OldestFirst` and
the refinement `KeepsPromise`.  `SyncInv` says of every batch under way that it is
`Ordered`: everything older than a member is in it or on the server, which stays
true since the server never forgets; the rest of a drain's snapshot is ordered
together with the batch before it.  A replay of new ids is then a step `Apply` of
`OrderedOnce`, and every other step stutters or is `Submit`.  `DrainIsBounded` is
what of `DrainEnds` is safety: `StepsLeft(t)` starts at six steps for each row of
the queue and one more, every step and every fault of tab `t` lowers it, and no
other tab, orphan or clock touches it.

**AisFeed.**  `TypeOK`, `CopiesBounded`, `BatchBounded`, `AcceptedWereStored`,
`NothingForgotten`, `ArrivalsExplain`.  `Timing`: a flush empties the batch
whatever comes of it, so rows are younger than all earlier flushes and no younger
than their own, and two requests share a row only if they are attempts of one
flush.  `BooksInv` adds the counters, `VoyageInv` that a report with a new
destination and the arrival that explains it are always in the same request.
`StopIsBounded` is what of `StopEnds` is safety: once stopped, the runner is at most
`4 * MaxRetries + 6` steps from its end and each of its steps takes it nearer, since
at most the flush under way and the last one are left and their attempts are counted.

**Inbox.**  `TypeOK` (the badge is never negative), `ShownReadIsRead` and
`SpinnerEnds`.  `InboxInv` adds that answers under way lag behind the table and
never run ahead of it, because no row that is read becomes unread.

**Session.**  `TypeOK`, `WaitersAreRefreshed`, `UnknownUserIsAskedFor`,
`OnlyExpirySignsOut`, `SignOutLasts`.  `SessionInv` adds that `/auth/me` and the
count are only asked for with a token (`AskedWithToken`), so that a 401 means that
one has expired, and that until one does the cookie of the last sign-in is in the
jar (`CookieLasts`).

**Bootstrap.**  `TypeOK`, `LookupsSucceed`, `AdminMeansAll`, `NothingTwice`,
`SeededUnlessCut`, `RevisionTellsSchema`, `RowsGoWithSchema`.  `IInv` says what a
running seed has come past (`SeedSoFar`, `SeedThrough`), that products without the rest mean that a seed is on its way or
was cut (`Stranded`), and that the regulations, the one part no constraint protects,
come after the products that make a second seed skip (`RulesAfterProducts`,
`RulesStillMissing`).

`RevisionTellsSchema` and `RowsGoWithSchema` rest on `SchemaInv`: the database is
either an early one, at one of its eight revisions, or began with today's models and
is empty or at the first; and every point a command can be at, statement by
statement, is one the scripts lead to from a revision it may start at.  The schema
there is `Made`, what the first statements of a list make of a set of objects,
defined without recursion and equal to the model's recursive `Result`
(`ResultIsMade`, from the least number at which the two could differ).  Scripts
that add and drop each object once can be taken in any order (`MadeInAnyOrder`),
and what a revision brings is apart from what was there (`AllApart`), so each
downgrade undoes its upgrade (`DowngradeUndoes`).  The invariant has to follow the
statements because three scripts never end: 0009 stops at the index that went with
its column, 0001's downgrade on an early database at a table that is referenced,
and 0002 on a database that today's models created.  A database never gets past
one of these, and that is why its revision stays true.  On a database that today's
models created 0001's downgrade does end, and is the one command that takes rows.

**Comparison.**  `ComparisonTypeOK`, `AwardNotBeaten`, `SealedTable`,
`CardTellsAward`.  `ComparisonInv` says that the last answer is one of `Replies` to
some quotes by some weights, and that the award is the winner of one to `grounds`.
The rest is arithmetic: where one offer beats another its score before rounding is
greater (`BeatsScoresMore`), since the difference of two scores is the weighted
difference of the terms (`FinesDiffer`), the extremes being those of the same round;
and rounding is monotone (`RoundedMonotone`), so the winner's row shows a best score.

**Bidding.**  `BiddingTypeOK`, `TrailHasNoGap`, `ReplayAgrees`, `SqueezeHolds`.
`BiddingInv` counts the calls under way against the bound, says that a call's round
is at most one more than the events and that all rounds before it have happened, so
a stale write of the column still names a round of the trail, and that every bid of
this process, and every one the ratings decide, is what `GenerateBid` answers now.

**Access.**  `AccessTypeOK`, `TokenIsTheTables`, `ListIsWhatOpens`.  A token in use
is what the tables say of an account that exists; it survives the seed because an
account with a role is only made after the grants.  `ViewInv` says of the pages
read so far that they show nothing but the caller's list and, of the rows that were
there when reading began, miss none with fewer than `offset` rows ahead of it.
That a next page keeps this, rows having been added in between, and that a page
that is not full ends the list is a counting argument: an RFQ's place is the number
of rows ahead of it, two RFQs have different places, and every place below the
number of rows is filled.

**Customs.**  `CustomsTypeOK`, `UnflaggedIsClear`, `LinesOnlyAddIssues`.  `CustomsInv`
says that an order is what its creation stored on some day, and its page what the
engine answered for the same lines on that day or a later one.  An order without the
clearance flag is one whose preflight answered, which it does only for lines without
a product, and of those the page finds no more on the day of the order
(`UnflaggedIsClear`); `LinesOnlyAddIssues` comes from each rule's selection of lines being monotone.

**Throttle.**  `ThrottleTypeOK`, `LimitIsExact`.  The deque of an address is the
recent end of its log, in the log's order: trimming from the front loses no more
than what has left the window, because the log is in order of time.

**Rules.**  `RulesTypeOK`, and `RulesAreTheFive`: a behaviour of `Rules` is in each
part a behaviour of that part's own specification.

Where a fact would call for an induction (what a recursive operator makes of a list,
the place of a row in a list, the end of a log), the proofs take the least number at
which it fails, which exists because the naturals are well founded
(`LeastNumber`, from the library's `WellFoundedInduction`), and contradict it.

Only model-checked: liveness (`SentRFQIsClosed`, `DrainEnds`,
`StopEnds`, `BadgeSettles`, `UserComesToBeKnown`, `ExpiredSessionEnds`,
`BellFollowsUser`), which is out of the prover's reach: it needs ENABLED and
fairness.  `DrainIsBounded` and `StopIsBounded` leave of two of them that the steps
are taken at all.  Every safety invariant and every action property of a passing run is
stated by a theorem.

## 5. What is not modelled

`PROJECT.json` lists every component with its status.

* **Catering planner**: generating a plan always ends in an error, because it reads a
  template's items that were not loaded (`services/catering.py:113`).  What is left
  are reads.
* **ETA snapshot**: it sets two attributes that are no columns of today's `Order`;
  nothing is kept.
* **Catalogue and search, dashboard, users, vessels, ports**: reads of one statement
  and plain inserts; ranking is the database's.
* **Frontend pages of the marketplace**: what a page lets a person click is narrower
  than what the handlers accept, and the modules let anybody call any handler at any
  time.  What a tab does on its own is in `Session`, `Inbox` and `OfflineSync`.
* Parts of modelled components: who is notified of what, device registration, the
  fields a serializer leaves out, permissions no modelled route asks for, enum labels
  and 0009's downgrade, database resets under tokens of the old database, `sim/geo.py`
  and the speeds of vessels (floating point).

Possible next steps: `CountWithinQuotes` and the markup in one module with three
sessions; measures that fall, as for the drain and the stop, for the badge and for
a tab that comes to know its user; the simulator's events as the notifications and pages show them, once simulated quotes
are stored.
