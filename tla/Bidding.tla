------------------------------- MODULE Bidding -------------------------------
(***************************************************************************)
(* The bid war of the market simulator (services/market_sim.py,            *)
(* POST /rfq/{id}/simulate) as a sequence of dry runs on one RFQ: which    *)
(* round and seed a run takes, who bids, what a bid says, and the trail of *)
(* events that is left.  How the bids are scored is Comparison's subject.  *)
(*                                                                         *)
(* Round and seed are kept in one JSON column.  A run reads it with the    *)
(* RFQ, looks for suppliers, and writes the column back when it commits:   *)
(* of two runs that overlap the last one wins.  A run that is to award     *)
(* ends in an error and leaves nothing (Fail).  No simulation ever stores  *)
(* a quote, so every round is open to all agents, unless a client itself   *)
(* has posted one whose source is `sim`, which is left out; and agents are *)
(* made anew in every run, so none has dropped out.                        *)
(*                                                                         *)
(* Prices are in hundredths of the unit list prices are in.  An RFQ of one *)
(* line stands for all: a total is a sum over lines that are alike.        *)
(***************************************************************************)
EXTENDS Integers, FiniteSets

CONSTANTS
    Book,         \* suppliers of the port that stock the lines:
                  \* name -> [price, days, rating, onTime], rating in tenths
    Draw(_, _, _),\* the jitter of (seed, round, supplier), in per cent
    Seeds,        \* seeds a caller may ask for
    CounterOffers, \* counter-offer terms: [price, days]
    NoCap,        \* a term that is not set
    Calls,        \* requests that may overlap
    Idle,
    MaxRuns,      \* bound on the runs that commit
    MaxProcesses  \* bound on the restarts of the backend

JitterBand == 2
MinLeadDays == 1

\* A supplier of the port with its price and lead time for the line.
Listing == [price : Nat \ {0}, days : Nat, rating : Nat, onTime : Nat]

ASSUME BiddingAssumption ==
    /\ \A s \in DOMAIN Book : Book[s] \in Listing
    /\ Seeds \subseteq Nat
    /\ CounterOffers \subseteq [price : Nat \cup {NoCap}, days : Nat \cup {NoCap}]
    /\ \A s \in DOMAIN Book, n \in 1..MaxRuns, base \in Seeds :
         Draw(base + n - 1, n, s) \in -JitterBand..JitterBand
    /\ Idle \notin [round : Nat, seed : Nat, offer : CounterOffers, eligible : SUBSET DOMAIN Book]
    /\ NoCap \notin Nat
    /\ MaxRuns \in Nat
    /\ MaxProcesses \in Nat

VARIABLES
    extra,    \* rfqs.extra: the last round and its seed
    quoted,   \* suppliers that have sent a quote of their own
    process,  \* which process of the backend is running
    coin,     \* how this process's hash splits the suppliers
    call,     \* what each request has read
    trail     \* the events of the runs that committed, one record per run

biddingVars == <<extra, quoted, process, coin, call, trail>>

Suppliers == DOMAIN Book

-----------------------------------------------------------------------------
(* One bid *)

StrategyParams ==
    [aggressive |-> [price |-> -10, days |-> -2],
     balanced |-> [price |-> -5, days |-> 0],
     premium |-> [price |-> 8, days |-> 3],
     slow_but_cheap |-> [price |-> -18, days |-> 7]]

\* The ratings decide for the best and the latest suppliers, the hash of a mail
\* address for the others; string hashes differ from process to process.
Premium(s) == Book[s].rating >= 45 /\ Book[s].onTime >= 95
Slow(s) == Book[s].onTime < 88

Undecided == {s \in Suppliers : ~Premium(s) /\ ~Slow(s)}

HashedStrategy(s) == IF coin[s] THEN "aggressive" ELSE "balanced"

DeriveStrategy(s) ==
    CASE Premium(s) -> "premium"
      [] ~Premium(s) /\ Slow(s) -> "slow_but_cheap"
      [] OTHER -> HashedStrategy(s)

AtMost(n, cap) == IF cap # NoCap /\ cap < n THEN cap ELSE n
AtLeast(n, floor) == IF n < floor THEN floor ELSE n

UnitPriceSalted(s, seed, n, offer) ==
    AtMost(Book[s].price * (100 + StrategyParams[DeriveStrategy(s)].price
                              + Draw(seed + process, n, s)),
           offer.price)

UnitPrice(s, seed, n, offer) ==
    AtMost(Book[s].price * (100 + StrategyParams[DeriveStrategy(s)].price + Draw(seed, n, s)),
           offer.price)

SqueezedLead(s, offer) ==
    AtMost(AtLeast(Book[s].days + StrategyParams[DeriveStrategy(s)].days, MinLeadDays),
           offer.days)

\* The cap comes after the floor of a day, and the floor once more after it.
LeadTime(s, offer) == AtLeast(SqueezedLead(s, offer), MinLeadDays)

GenerateBid(s, seed, n, offer) ==
    [price |-> UnitPrice(s, seed, n, offer), days |-> LeadTime(s, offer)]

-----------------------------------------------------------------------------
(* One run *)

SeedAskedPlusOne(base) == IF extra.round >= 1 THEN base + 1 ELSE base

\* The first run takes the seed it is asked for, later ones the last seed + 1.
SeedFromPayload(base) == IF extra.round >= 1 THEN extra.seed + 1 ELSE base

BiddingInit ==
    /\ extra = [round |-> 0, seed |-> 0]
    /\ quoted = {}
    /\ process = 1
    /\ coin \in [Undecided -> BOOLEAN]
    /\ call = [c \in Calls |-> Idle]
    /\ trail = {}

Runs == Cardinality(trail)

\* The RFQ is loaded, and with it the round and the seed.
Begin(c, base, offer) ==
    /\ call[c] = Idle
    /\ Runs + Cardinality({d \in Calls : call[d] # Idle}) < MaxRuns
    /\ call' = [call EXCEPT ![c] = [round |-> extra.round + 1,
                                    seed |-> SeedFromPayload(base),
                                    offer |-> offer, eligible |-> {}]]
    /\ UNCHANGED <<extra, quoted, process, coin, trail>>

\* The suppliers that have not quoted; without any the run returns early and
\* stores neither round nor event.
FindSuppliers(c) ==
    /\ call[c] # Idle
    /\ call[c].eligible = {}
    /\ IF Suppliers \ quoted = {}
         THEN call' = [call EXCEPT ![c] = Idle]
         ELSE call' = [call EXCEPT ![c].eligible = Suppliers \ quoted]
    /\ UNCHANGED <<extra, quoted, process, coin, trail>>

Batch(r) ==
    [process |-> process, run |-> Runs, round |-> r.round, seed |-> r.seed, offer |-> r.offer,
     bids |-> [s \in r.eligible |-> GenerateBid(s, r.seed, r.round, r.offer)]]

\* Every agent bids; the events and the column are one commit.
Finish(c) ==
    /\ call[c] # Idle
    /\ call[c].eligible # {}
    /\ trail' = trail \cup {Batch(call[c])}
    /\ extra' = [round |-> call[c].round, seed |-> call[c].seed]
    /\ call' = [call EXCEPT ![c] = Idle]
    /\ UNCHANGED <<quoted, process, coin>>

\* An error rolls everything back.
Fail(c) ==
    /\ call[c] # Idle
    /\ call' = [call EXCEPT ![c] = Idle]
    /\ UNCHANGED <<extra, quoted, process, coin, trail>>

\* A supplier answers for itself, in the portal or by POST /rfq/quotes.
Quote(s) ==
    /\ s \notin quoted
    /\ quoted' = quoted \cup {s}
    /\ UNCHANGED <<extra, process, coin, call, trail>>

\* Requests die with the process, and the next one hashes by another salt.
RestartBackend ==
    /\ process < MaxProcesses
    /\ process' = process + 1
    /\ coin' \in [Undecided -> BOOLEAN]
    /\ call' = [c \in Calls |-> Idle]
    /\ UNCHANGED <<extra, quoted, trail>>

BiddingNext ==
    \/ \E c \in Calls :
         \/ \E base \in Seeds, offer \in CounterOffers : Begin(c, base, offer)
         \/ FindSuppliers(c)
         \/ Finish(c)
         \/ Fail(c)
    \/ \E s \in Suppliers : Quote(s)
    \/ RestartBackend

BiddingSpec == BiddingInit /\ [][BiddingNext]_biddingVars

-----------------------------------------------------------------------------
(* Properties *)

\* What is kept of the runs, and no supplier bids that had quoted when the run
\* looked for suppliers.
BiddingTypeOK ==
    /\ extra \in [round : 0..MaxRuns, seed : Nat]
    /\ quoted \subseteq Suppliers
    /\ \A c \in Calls : call[c] # Idle => call[c].eligible \subseteq Suppliers
    /\ \A b \in trail : DOMAIN b.bids \subseteq Suppliers /\ DOMAIN b.bids # {}
    /\ coin \in [Undecided -> BOOLEAN]

\* However runs overlap, whose writes of the column overwrite each other, the
\* trail has every round up to the one stored, the stored pair is that of a run
\* that took place, and every seed counts up from one somebody asked for.
TrailHasNoGap ==
    /\ \A n \in 1..extra.round : \E b \in trail : b.round = n
    /\ extra.round > 0 =>
         \E b \in trail : b.round = extra.round /\ b.seed = extra.seed
    /\ \A b \in trail : b.seed - (b.round - 1) \in Seeds

\* Two runs of one round with one seed and the same terms got the same bids
\* from every supplier that was asked in both; after a restart only from those
\* whose ratings decide how they bid.
ReplayAgrees ==
    \A b, d \in trail :
      b.round = d.round /\ b.seed = d.seed /\ b.offer = d.offer =>
        \A s \in DOMAIN b.bids \cap DOMAIN d.bids :
          b.process = d.process \/ s \notin Undecided => b.bids[s] = d.bids[s]

\* A counter-offer squeezes: no bid exceeds a price or a lead time it caps
\* (a day at least), none is for less than a day, and no supplier asks more
\* under terms than it asked in the same round with the same seed without them.
SqueezeHolds ==
    \A b \in trail : \A s \in DOMAIN b.bids :
      /\ b.bids[s].days >= MinLeadDays
      /\ b.offer.price # NoCap => b.bids[s].price <= b.offer.price
      /\ b.offer.days # NoCap => b.bids[s].days <= AtLeast(b.offer.days, MinLeadDays)
      /\ \A d \in trail :
           d.round = b.round /\ d.seed = b.seed /\ d.process = b.process
           /\ d.offer = [price |-> NoCap, days |-> NoCap] /\ s \in DOMAIN d.bids =>
             b.bids[s].price <= d.bids[s].price /\ b.bids[s].days <= d.bids[s].days
=============================================================================
