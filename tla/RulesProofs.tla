----------------------------- MODULE RulesProofs ------------------------------
(***************************************************************************)
(* Proofs about the rule parts of the marketplace, for every value of      *)
(* their constants.                                                        *)
(*                                                                         *)
(* Comparison: what an answer says and whom it awards, for every set of    *)
(* quotes, every offer in natural numbers, weights of either sign and any  *)
(* precision.  The invariant says where the state comes from: the last     *)
(* answer is one of Replies to some quotes, and the award is the winner of *)
(* one of the Replies to its grounds, the quotes that were compared when   *)
(* it was chosen.  The rest is about Replies: arithmetic first, then       *)
(* ranks, then the three properties of an answer.                          *)
(*                                                                         *)
(* Bidding: the trail of the dry runs, for every book of suppliers and any *)
(* number of overlapping runs and restarts.  The invariant counts the runs *)
(* that are under way, says that a run's round is at most one more than    *)
(* the events there are and that all rounds before it have happened, and   *)
(* that every bid of this process, and every bid the ratings decide, is    *)
(* what GenerateBid answers now.                                           *)
(*                                                                         *)
(* Access: tokens against the tables they were made from, and the list of  *)
(* RFQs against the single ones.  The invariant of a list says that none   *)
(* of the rows before `offset` is missing; that a page which is not full   *)
(* is the last one is a fact about counting (PlacesFilled).                *)
(*                                                                         *)
(* Customs: an order is what its creation stored, its page what the engine *)
(* answered on a day since.  An order without the clearance flag has no    *)
(* line with a product (ClearedLines); the rest is about the engine.       *)
(*                                                                         *)
(* Throttle: the deque is the recent end of the requests that came, so its *)
(* length counts the window.                                               *)
(*                                                                         *)
(* Rules: a behaviour of the five side by side is a behaviour of each.     *)
(***************************************************************************)
EXTENDS Rules, FiniteSetTheorems, SequenceTheorems, WellFoundedInduction, TLAPS

-----------------------------------------------------------------------------
(* Arithmetic *)

\* The least-number principle, from the well-foundedness of the naturals.
LEMMA LeastNumber ==
    ASSUME NEW T, T \subseteq Nat, T # {}
    PROVE  \E x \in T : \A y \in T : x <= y
<1> DEFINE Below == {pair \in Nat \X Nat : pair[1] < pair[2]}
<1>1. IsWellFoundedOn(Below, Nat)
  BY NatLessThanWellFounded, Zenon DEF OpToRel
<1>2. \A x, y \in Nat : x < y => <<x, y>> \in Below
  OBVIOUS
<1> HIDE DEF Below
<1>3. PICK x \in T : \A y \in T : ~ (<<y, x>> \in Below)
  BY <1>1, WFMin
<1>4. \A y \in T : ~ (y < x)
  BY <1>2, <1>3
<1>5. \A y \in T : x <= y
  BY <1>4
<1> QED BY <1>5

\* A set of numbers up to a bound has a largest one.
LEMMA GreatestNumber ==
    ASSUME NEW n \in Nat, NEW T, T \subseteq 0..n, T # {}
    PROVE  \E x \in T : \A y \in T : y <= x
<1> DEFINE Rest == {n - x : x \in T}
<1>1. Rest \subseteq Nat /\ Rest # {}
  <2>1. \A x \in T : n - x \in Nat
    OBVIOUS
  <2> QED BY <2>1
<1>2. PICK r \in Rest : \A q \in Rest : r <= q
  BY <1>1, LeastNumber
<1>3. PICK x \in T : r = n - x
  BY <1>2
<1>4. ASSUME NEW y \in T PROVE y <= x
  <2>1. n - y \in Rest
    OBVIOUS
  <2> QED BY <1>2, <1>3, <2>1
<1> QED BY <1>4

\* Min returns the least number.
LEMMA MinIsLeast ==
    ASSUME NEW T, T \subseteq Nat, T # {}
    PROVE  Min(T) \in T /\ \A y \in T : Min(T) <= y
BY LeastNumber DEF Min

\* Products of naturals are naturals, and of positive ones positive.
LEMMA ProductNat ==
    ASSUME NEW a \in Nat, NEW c \in Nat
    PROVE  a * c \in Nat /\ (a > 0 /\ c > 0 => a * c > 0)
BY SMT

\* A factor goes into a difference.
LEMMA Distributes ==
    ASSUME NEW a \in Int, NEW c \in Int, NEW k \in Int
    PROVE  a * k - c * k = (a - c) * k /\ a * k \in Int /\ c * k \in Int
BY SMT

\* A positive factor keeps a sign.
LEMMA ScaledSign ==
    ASSUME NEW a \in Int, NEW k \in Nat, k > 0
    PROVE  a * k \in Int /\ (a >= 0 => a * k >= 0) /\ (a > 0 => a * k > 0)
BY SMT

\* Whole division keeps an order.
LEMMA DivMonotone ==
    ASSUME NEW m \in Int, NEW n \in Int, NEW d \in Nat, d > 0, m <= n
    PROVE  m \div d <= n \div d /\ m \div d \in Int /\ n \div d \in Int
BY SMT

\* Rounding keeps an order: what is better before it is no worse after it.
LEMMA RoundedMonotone ==
    ASSUME NEW m \in Int, NEW n \in Int, NEW d \in Nat, d > 0, m <= n
    PROVE  Rounded(m, d) <= Rounded(n, d) /\ Rounded(m, d) \in Int
                                          /\ Rounded(n, d) \in Int
<1>1. 2 * Precision \in Nat /\ 2 * Precision > 0
  BY ComparisonAssumption, SMT
<1>2. n * (2 * Precision) - m * (2 * Precision) = (n - m) * (2 * Precision)
  BY <1>1, Distributes
<1>3. (n - m) * (2 * Precision) >= 0
  BY <1>1, ScaledSign
<1>4. /\ 2 * Precision * m = m * (2 * Precision)
      /\ 2 * Precision * n = n * (2 * Precision)
      /\ m * (2 * Precision) \in Int /\ n * (2 * Precision) \in Int
  BY <1>1, SMT
<1>5. /\ 2 * Precision * m + d \in Int
      /\ 2 * Precision * n + d \in Int
      /\ 2 * Precision * m + d <= 2 * Precision * n + d
  BY <1>2, <1>3, <1>4, SMT
<1>6. 2 * d \in Nat /\ 2 * d > 0
  BY SMT
<1>. QED  BY <1>5, <1>6, DivMonotone DEF Rounded

\* The extremes of a set of naturals give a positive span, and gains that differ
\* as the members do, the other way round.
LEMMA ExtremesScale ==
    ASSUME NEW N, N \subseteq Nat, NEW e \in Extremes(N), NEW n \in N, NEW k \in N
    PROVE  /\ Span(e) \in Nat /\ Span(e) > 0
           /\ Gain(n, e) \in Int /\ Gain(k, e) \in Int
           /\ Gain(n, e) - Gain(k, e) = k - n
<1>1. /\ e[1] \in Nat /\ e[2] \in Nat /\ n \in Nat /\ k \in Nat
      /\ e[1] <= n /\ n <= e[2] /\ e[1] <= k /\ k <= e[2]
  BY DEF Extremes
<1>2. Span(e) \in Nat /\ Span(e) > 0
  BY <1>1, SMT DEF Span
<1>3. /\ Gain(n, e) \in Int /\ Gain(k, e) \in Int
      /\ Gain(n, e) - Gain(k, e) = k - n
  BY <1>1, SMT DEF Gain
<1>. QED  BY <1>2, <1>3

\* What one quote says and what one caller asks for are numbers.
LEMMA TermFields ==
    ASSUME NEW o \in Terms
    PROVE  /\ o.price \in Nat /\ o.lead \in Nat /\ o.rel \in Nat /\ o.qual \in Nat
BY DEF Terms

LEMMA WeighingFields ==
    ASSUME NEW w \in Weighing
    PROVE  /\ w.price \in Int /\ w.lead \in Int /\ w.rel \in Int /\ w.qual \in Int
           /\ w.other \in Int
BY DEF Weighing

\* Turning the signs gives a weighting.
LEMMA TurnedWeighs ==
    ASSUME NEW w \in Weighing
    PROVE  Turned(w) \in Weighing
BY WeighingFields DEF Turned, Weighing

\* The denominators of the scores are positive.
LEMMA WholePositive ==
    ASSUME NEW w \in Weighing, NEW p, NEW l, Span(p) \in Nat, Span(p) > 0,
           Span(l) \in Nat, Span(l) > 0
    PROVE  Whole(w, p, l) \in Nat /\ Whole(w, p, l) > 0
<1>1. Span(p) * Span(l) \in Nat /\ Span(p) * Span(l) > 0
  BY ProductNat
<1>2. Total(w) \in Nat /\ Total(w) > 0
  <2>1. /\ w.price \in Int /\ w.lead \in Int /\ w.rel \in Int /\ w.qual \in Int
        /\ w.other \in Int
    BY WeighingFields
  <2>2. WeightSum(w) \in Int
    BY <2>1 DEF WeightSum
  <2>. QED  BY <2>2 DEF Total
<1>3. 5 * Total(w) \in Nat /\ 5 * Total(w) > 0
  BY <1>2, SMT
<1>. QED  BY <1>1, <1>3, ProductNat DEF Whole

\* A criterion's part of two scores differs as the terms do.
LEMMA PartsDiffer ==
    ASSUME NEW v \in Int, NEW g \in Int, NEW h \in Int, NEW x \in Int, NEW k \in Int,
           g - h = x
    PROVE  /\ (5 * v * g) * k \in Int /\ (5 * v * h) * k \in Int
           /\ (5 * v * g) * k - (5 * v * h) * k = (5 * (v * x)) * k
<1>1. g * v - h * v = x * v /\ g * v \in Int /\ h * v \in Int
  BY Distributes
<1>2. /\ 5 * v * g \in Int /\ 5 * v * h \in Int
      /\ 5 * v * g = 5 * (g * v) /\ 5 * v * h = 5 * (h * v) /\ v * x = x * v
  BY SMT
<1>3. 5 * v * g - 5 * v * h = 5 * (v * x)
  BY <1>1, <1>2, SMT
<1>4. (5 * v * g) * k - (5 * v * h) * k = (5 * v * g - 5 * v * h) * k
      /\ (5 * v * g) * k \in Int /\ (5 * v * h) * k \in Int
  BY <1>2, Distributes
<1>. QED  BY <1>3, <1>4

\* Two scores before rounding differ by the weighted difference of the terms.
AheadByTerms(o, a, w, p, l) ==
    Fine(o, w, p, l) - Fine(a, w, p, l) =
    (5 * (w.price * (a.price - o.price))) * Span(l)
      + (5 * (w.lead * (a.lead - o.lead))) * Span(p)
      + (w.rel * (o.rel - a.rel) + w.qual * (o.qual - a.qual)) * (Span(p) * Span(l))

\* A score before rounding is a number, and of two scores the difference is the
\* weighted difference of the terms.
LEMMA FinesDiffer ==
    ASSUME NEW N, N \subseteq Nat, NEW M, M \subseteq Nat,
           NEW p \in Extremes(N), NEW l \in Extremes(M),
           NEW w \in Weighing, NEW o \in Terms, NEW a \in Terms,
           o.price \in N, a.price \in N, o.lead \in M, a.lead \in M
    PROVE  /\ Fine(o, w, p, l) \in Int /\ Fine(a, w, p, l) \in Int
           /\ AheadByTerms(o, a, w, p, l)
<1>. DEFINE price(x) == (5 * w.price * Gain(x.price, p)) * Span(l)
            lead(x) == (5 * w.lead * Gain(x.lead, l)) * Span(p)
            rating(x) == (w.rel * x.rel + w.qual * x.qual) * (Span(p) * Span(l))
            byRating == w.rel * (o.rel - a.rel) + w.qual * (o.qual - a.qual)
<1>1. /\ o.price \in Nat /\ o.lead \in Nat /\ o.rel \in Nat /\ o.qual \in Nat
      /\ a.price \in Nat /\ a.lead \in Nat /\ a.rel \in Nat /\ a.qual \in Nat
      /\ w.price \in Int /\ w.lead \in Int /\ w.rel \in Int /\ w.qual \in Int
  BY TermFields, WeighingFields
<1>2. /\ Span(p) \in Int /\ Span(l) \in Int /\ Span(p) * Span(l) \in Int
      /\ Gain(o.price, p) \in Int /\ Gain(a.price, p) \in Int
      /\ Gain(o.lead, l) \in Int /\ Gain(a.lead, l) \in Int
      /\ Gain(o.price, p) - Gain(a.price, p) = a.price - o.price
      /\ Gain(o.lead, l) - Gain(a.lead, l) = a.lead - o.lead
  <2>1. /\ Span(p) \in Nat /\ Gain(o.price, p) \in Int /\ Gain(a.price, p) \in Int
        /\ Gain(o.price, p) - Gain(a.price, p) = a.price - o.price
    BY ExtremesScale
  <2>2. /\ Span(l) \in Nat /\ Gain(o.lead, l) \in Int /\ Gain(a.lead, l) \in Int
        /\ Gain(o.lead, l) - Gain(a.lead, l) = a.lead - o.lead
    BY ExtremesScale
  <2>3. Span(p) * Span(l) \in Int
    BY <2>1, <2>2, ProductNat
  <2>. QED  BY <2>1, <2>2, <2>3
<1>3. /\ price(o) \in Int /\ price(a) \in Int
      /\ price(o) - price(a) = (5 * (w.price * (a.price - o.price))) * Span(l)
  <2>1. a.price - o.price \in Int
    BY <1>1
  <2>. QED  BY <1>1, <1>2, <2>1, PartsDiffer
<1>4. /\ lead(o) \in Int /\ lead(a) \in Int
      /\ lead(o) - lead(a) = (5 * (w.lead * (a.lead - o.lead))) * Span(p)
  <2>1. a.lead - o.lead \in Int
    BY <1>1
  <2>. QED  BY <1>1, <1>2, <2>1, PartsDiffer
<1>5. /\ rating(o) \in Int /\ rating(a) \in Int
      /\ rating(o) - rating(a) = byRating * (Span(p) * Span(l))
  <2>1. /\ o.rel * w.rel - a.rel * w.rel = (o.rel - a.rel) * w.rel
        /\ o.qual * w.qual - a.qual * w.qual = (o.qual - a.qual) * w.qual
    BY <1>1, Distributes
  <2>2. /\ w.rel * o.rel = o.rel * w.rel /\ w.rel * a.rel = a.rel * w.rel
        /\ w.qual * o.qual = o.qual * w.qual /\ w.qual * a.qual = a.qual * w.qual
        /\ w.rel * (o.rel - a.rel) = (o.rel - a.rel) * w.rel
        /\ w.qual * (o.qual - a.qual) = (o.qual - a.qual) * w.qual
        /\ o.rel * w.rel \in Int /\ a.rel * w.rel \in Int
        /\ o.qual * w.qual \in Int /\ a.qual * w.qual \in Int
    BY <1>1, SMT
  <2>3. /\ w.rel * o.rel + w.qual * o.qual \in Int
        /\ w.rel * a.rel + w.qual * a.qual \in Int
        /\ (w.rel * o.rel + w.qual * o.qual) - (w.rel * a.rel + w.qual * a.qual) = byRating
    BY <2>1, <2>2, SMT
  <2>. QED  BY <1>2, <2>3, Distributes
<1>6. /\ Fine(o, w, p, l) = price(o) + lead(o) + rating(o)
      /\ Fine(a, w, p, l) = price(a) + lead(a) + rating(a)
  BY DEF Fine
<1>. HIDE DEF price, lead, rating
<1>7. /\ Fine(o, w, p, l) \in Int /\ Fine(a, w, p, l) \in Int
      /\ Fine(o, w, p, l) - Fine(a, w, p, l) =
           (5 * (w.price * (a.price - o.price))) * Span(l)
             + (5 * (w.lead * (a.lead - o.lead))) * Span(p)
             + byRating * (Span(p) * Span(l))
  BY <1>3, <1>4, <1>5, <1>6, SMT
<1>. QED  BY <1>7, Zenon DEF AheadByTerms

\* A quote that beats another scores more before rounding.
LEMMA BeatsScoresMore ==
    ASSUME NEW N, N \subseteq Nat, NEW M, M \subseteq Nat,
           NEW p \in Extremes(N), NEW l \in Extremes(M),
           NEW w \in Weighing, NEW o \in Terms, NEW a \in Terms,
           o.price \in N, a.price \in N, o.lead \in M, a.lead \in M,
           Beats(o, a, w)
    PROVE  Fine(o, w, p, l) > Fine(a, w, p, l)
<1>0. /\ Fine(o, w, p, l) \in Int /\ Fine(a, w, p, l) \in Int
      /\ AheadByTerms(o, a, w, p, l)
  <2>1. /\ N \subseteq Nat /\ M \subseteq Nat
        /\ p \in Extremes(N) /\ l \in Extremes(M)
        /\ o.price \in N /\ a.price \in N /\ o.lead \in M /\ a.lead \in M
        /\ w \in Weighing /\ o \in Terms /\ a \in Terms
    OBVIOUS
  <2>2. Fine(o, w, p, l) \in Int
    BY <2>1, FinesDiffer
  <2>3. Fine(a, w, p, l) \in Int
    BY <2>1, FinesDiffer
  <2>4. AheadByTerms(o, a, w, p, l)
    BY <2>1, FinesDiffer
  <2>. QED  BY <2>2, <2>3, <2>4
<1>. DEFINE byPrice == w.price * (a.price - o.price)
            byLead == w.lead * (a.lead - o.lead)
            byRel == w.rel * (o.rel - a.rel)
            byQual == w.qual * (o.qual - a.qual)
<1>1. byPrice \in Int /\ byLead \in Int /\ byRel \in Int /\ byQual \in Int
  <2>1. /\ a.price - o.price \in Int /\ a.lead - o.lead \in Int
        /\ o.rel - a.rel \in Int /\ o.qual - a.qual \in Int
        /\ w.price \in Int /\ w.lead \in Int /\ w.rel \in Int /\ w.qual \in Int
    BY TermFields, WeighingFields, SMT
  <2>. QED  BY <2>1, SMT
<1>2. /\ byPrice >= 0 /\ byLead >= 0 /\ byRel >= 0 /\ byQual >= 0
      /\ byPrice > 0 \/ byLead > 0 \/ byRel > 0 \/ byQual > 0
  BY DEF Beats
<1>3. /\ Span(p) \in Nat /\ Span(p) > 0 /\ Span(l) \in Nat /\ Span(l) > 0
      /\ Span(p) * Span(l) \in Nat /\ Span(p) * Span(l) > 0
  BY ExtremesScale, ProductNat
<1>4. /\ Fine(o, w, p, l) \in Int /\ Fine(a, w, p, l) \in Int
      /\ Fine(o, w, p, l) - Fine(a, w, p, l) =
           (5 * byPrice) * Span(l) + (5 * byLead) * Span(p)
             + (byRel + byQual) * (Span(p) * Span(l))
  BY <1>0, Zenon DEF AheadByTerms
<1>. HIDE DEF byPrice, byLead, byRel, byQual
<1>5. /\ (5 * byPrice) * Span(l) \in Int /\ (5 * byPrice) * Span(l) >= 0
      /\ byPrice > 0 => (5 * byPrice) * Span(l) > 0
  <2>1. 5 * byPrice \in Int /\ 5 * byPrice >= 0 /\ (byPrice > 0 => 5 * byPrice > 0)
    BY <1>1, <1>2, SMT
  <2>. QED  BY <2>1, <1>3, ScaledSign
<1>6. /\ (5 * byLead) * Span(p) \in Int /\ (5 * byLead) * Span(p) >= 0
      /\ byLead > 0 => (5 * byLead) * Span(p) > 0
  <2>1. 5 * byLead \in Int /\ 5 * byLead >= 0 /\ (byLead > 0 => 5 * byLead > 0)
    BY <1>1, <1>2, SMT
  <2>. QED  BY <2>1, <1>3, ScaledSign
<1>7. /\ (byRel + byQual) * (Span(p) * Span(l)) \in Int
      /\ (byRel + byQual) * (Span(p) * Span(l)) >= 0
      /\ byRel > 0 \/ byQual > 0 => (byRel + byQual) * (Span(p) * Span(l)) > 0
  <2>1. /\ byRel + byQual \in Int /\ byRel + byQual >= 0
        /\ (byRel > 0 \/ byQual > 0 => byRel + byQual > 0)
    BY <1>1, <1>2, SMT
  <2>. QED  BY <2>1, <1>3, ScaledSign
<1>. QED  BY <1>2, <1>4, <1>5, <1>6, <1>7, SMT

-----------------------------------------------------------------------------
(* Ranks *)

\* Ranks are natural numbers.
LEMMA RankNat ==
    ASSUME NEW S, IsFiniteSet(S), NEW s \in [S -> Int], NEW i \in S
    PROVE  Rank(s, i) \in Nat
<1>1. {j \in DOMAIN s : Before(s, j, i)} \subseteq S
  OBVIOUS
<1>2. IsFiniteSet({j \in DOMAIN s : Before(s, j, i)})
  BY <1>1, FS_Subset
<1>. QED  BY <1>2, FS_CardinalityType DEF Rank

\* Whoever comes before another has a lower rank.
LEMMA RankFollows ==
    ASSUME NEW S, S \subseteq Nat, IsFiniteSet(S), NEW s \in [S -> Int],
           NEW i \in S, NEW j \in S, Before(s, j, i)
    PROVE  Rank(s, j) < Rank(s, i)
<1>. DEFINE Ahead(x) == {k \in DOMAIN s : Before(s, k, x)}
<1>1. Ahead(j) \subseteq Ahead(i)
  <2>1. ASSUME NEW k \in S, Before(s, k, j)
        PROVE  Before(s, k, i)
    <3>1. /\ s[k] \in Int /\ s[j] \in Int /\ s[i] \in Int
          /\ k \in Nat /\ j \in Nat /\ i \in Nat
      OBVIOUS
    <3>. QED  BY <2>1, <3>1, SMT DEF Before
  <2>. QED  BY <2>1
<1>2. j \in Ahead(i) /\ j \notin Ahead(j)
  BY SMT DEF Before
<1>3. IsFiniteSet(Ahead(i)) /\ IsFiniteSet(Ahead(j))
  <2>1. Ahead(i) \subseteq S /\ Ahead(j) \subseteq S
    OBVIOUS
  <2>. QED  BY <2>1, FS_Subset
<1>4. Cardinality(Ahead(j)) <= Cardinality(Ahead(i)) 
      /\ (Cardinality(Ahead(j)) = Cardinality(Ahead(i)) => Ahead(j) = Ahead(i))
  BY <1>1, <1>3, FS_Subset
<1>5. Cardinality(Ahead(i)) \in Nat /\ Cardinality(Ahead(j)) \in Nat
  BY <1>3, FS_CardinalityType
<1>6. Rank(s, i) = 1 + Cardinality(Ahead(i)) /\ Rank(s, j) = 1 + Cardinality(Ahead(j))
  BY DEF Rank
<1>7. Ahead(j) # Ahead(i)
  BY <1>2
<1>. HIDE DEF Ahead
<1>. QED  BY <1>4, <1>5, <1>6, <1>7

\* Two bidders are always in one order or the other.
LEMMA BeforeTotal ==
    ASSUME NEW S, S \subseteq Nat, NEW s \in [S -> Int], NEW i \in S, NEW j \in S,
           i # j
    PROVE  Before(s, i, j) \/ Before(s, j, i)
<1>1. i \in Nat /\ j \in Nat /\ s[i] \in Int /\ s[j] \in Int
  OBVIOUS
<1>. QED  BY <1>1, SMT DEF Before

-----------------------------------------------------------------------------
(* Answers *)

Quotes == [Ids -> Offers \cup {NoBid}]

\* Who has quoted has an offer.
LEMMA BidderOffers ==
    ASSUME NEW b \in Quotes, NEW i \in Bidders(b)
    PROVE  b[i] \in Offers /\ b[i] \in Terms /\ i \in Ids /\ i \in Nat /\ i # None
<1>1. \A n \in Nat : n # None
  BY SMT DEF None
<1>. QED  BY <1>1, ComparisonAssumption DEF Bidders, Quotes

\* What an answer is made of.
Made(r, b, w, p, l, fine, s, win, told, top) ==
    /\ p \in Extremes(Prices(b))
    /\ l \in Extremes(Leads(b))
    /\ fine = [i \in Bidders(b) |-> Fine(b[i], w, p, l)]
    /\ s = [i \in Bidders(b) |-> Rounded(fine[i], Whole(w, p, l))]
    /\ win # None => /\ win \in Bidders(b) /\ told = win
                     /\ \A j \in Bidders(b) : fine[j] <= fine[win]
    /\ win = None => /\ told \in Bidders(b)
                     /\ \A j \in Bidders(b) : s[j] <= s[told]
    /\ top \in Bidders(b) /\ Rank(s, top) = 1
    /\ r = [rows |-> [i \in Bidders(b) |-> Row(b, s, told, i)], winner |-> win,
            card |-> Card([i \in Bidders(b) |-> Row(b, s, told, i)], top)]

\* A reply is one of the Answers to some reading of the extremes.
LEMMA ReplyMade ==
    ASSUME NEW b, NEW w, NEW r \in Replies(b, w)
    PROVE  \E p, l, fine, s, win, told, top :
             Made(r, b, w, p, l, fine, s, win, told, top)
<1>1. PICK p \in Extremes(Prices(b)), l \in Extremes(Leads(b)) :
        r \in Answers(b, w, p, l)
  BY DEF Replies
<1>. DEFINE d == Whole(w, p, l)
            fine == Fines(b, w, p, l)
            s == Scores(fine, d)
<1>2. PICK win \in Winners(fine, d) : r \in Naming(b, s, win)
  BY <1>1 DEF Answers
<1>3. PICK told \in Told(s, win), top \in {i \in Bidders(b) : Rank(s, i) = 1} :
        r = Reply(b, s, win, told, top)
  BY <1>2 DEF Naming
<1>4. /\ fine = [i \in Bidders(b) |-> Fine(b[i], w, p, l)]
      /\ DOMAIN fine = Bidders(b)
  BY DEF Fines
<1>5. s = [i \in Bidders(b) |-> Rounded(fine[i], Whole(w, p, l))] /\ DOMAIN s = Bidders(b)
  BY <1>4 DEF Scores
<1>. HIDE DEF fine, s, d
<1>6. win # None => /\ win \in Bidders(b) /\ told = win
                    /\ \A j \in Bidders(b) : fine[j] <= fine[win]
  BY <1>2, <1>3, <1>4 DEF Winners, Told
<1>7. win = None => /\ told \in Bidders(b)
                    /\ \A j \in Bidders(b) : s[j] <= s[told]
  BY <1>3, <1>5 DEF Told
<1>8. r = [rows |-> [i \in Bidders(b) |-> Row(b, s, told, i)], winner |-> win,
           card |-> Card([i \in Bidders(b) |-> Row(b, s, told, i)], top)]
  BY <1>3 DEF Reply, Table
<1>9. Made(r, b, w, p, l, fine, s, win, told, top)
  BY <1>1, <1>3, <1>4, <1>5, <1>6, <1>7, <1>8 DEF Made
<1>. QED  BY <1>9

\* What an answer is made of has its types, and the row that is told is one of
\* those that show the best score.
LEMMA MadeFacts ==
    ASSUME NEW b \in Quotes, NEW w \in Weighing, NEW r, NEW p, NEW l, NEW fine,
           NEW s, NEW win, NEW told, NEW top,
           Made(r, b, w, p, l, fine, s, win, told, top)
    PROVE  /\ fine \in [Bidders(b) -> Int]
           /\ s \in [Bidders(b) -> Int]
           /\ told \in Bidders(b) /\ \A i \in Bidders(b) : s[i] <= s[told]
           /\ IsFiniteSet(Bidders(b)) /\ Bidders(b) \subseteq Nat
<1>1. Prices(b) \subseteq Nat /\ Leads(b) \subseteq Nat
  BY BidderOffers, TermFields DEF Prices, Leads
<1>2. p \in Extremes(Prices(b)) /\ l \in Extremes(Leads(b)) /\ top \in Bidders(b)
  BY DEF Made
<1>3. \A i \in Bidders(b) : /\ b[i] \in Terms
                            /\ b[i].price \in Prices(b) /\ b[i].lead \in Leads(b)
  BY BidderOffers DEF Prices, Leads
<1>4. \A i \in Bidders(b) : Fine(b[i], w, p, l) \in Int
  BY <1>1, <1>2, <1>3, FinesDiffer
<1>5. Whole(w, p, l) \in Nat /\ Whole(w, p, l) > 0
  <2>1. Span(p) \in Nat /\ Span(p) > 0 /\ Span(l) \in Nat /\ Span(l) > 0
    BY <1>1, <1>2, <1>3, ExtremesScale
  <2>. QED  BY <2>1, WholePositive
<1>6. fine \in [Bidders(b) -> Int]
  BY <1>4 DEF Made
<1>7. \A i, j \in Bidders(b) : fine[i] <= fine[j] =>
         /\ Rounded(fine[i], Whole(w, p, l)) <= Rounded(fine[j], Whole(w, p, l))
         /\ Rounded(fine[i], Whole(w, p, l)) \in Int
  BY <1>5, <1>6, RoundedMonotone
<1>8. \A i \in Bidders(b) : Rounded(fine[i], Whole(w, p, l)) \in Int
  BY <1>6, <1>7
<1>9. s \in [Bidders(b) -> Int]
      /\ \A i, j \in Bidders(b) : fine[i] <= fine[j] => s[i] <= s[j]
  BY <1>7, <1>8 DEF Made
<1>10. told \in Bidders(b) /\ \A i \in Bidders(b) : s[i] <= s[told]
  BY <1>9 DEF Made
<1>11. IsFiniteSet(Bidders(b)) /\ Bidders(b) \subseteq Nat
  BY ComparisonAssumption, FS_Subset DEF Bidders
<1>. QED  BY <1>6, <1>9, <1>10, <1>11

\* The properties of an answer, and its type.
Tabled(r) ==
    /\ \A i \in DOMAIN r.rows : i \in Ids /\ r.rows[i] \in RowType
    /\ \A i, j \in DOMAIN r.rows :
          /\ r.rows[i].rank < r.rows[j].rank => r.rows[i].score >= r.rows[j].score
          /\ r.rows[i].rank = r.rows[j].rank => i = j
          /\ r.rows[i].total # None => r.rows[i].score >= r.rows[j].score
          /\ r.rows[i].total # None /\ r.rows[j].total # None => i = j
    /\ \E i \in DOMAIN r.rows : r.rows[i].total # None
    /\ r.winner # None => r.rows[r.winner].total # None

Carded(r) ==
    \/ r.winner = None
    \/ /\ r.card.total = r.rows[r.winner].total
       /\ r.card.lead = r.rows[r.winner].lead
    \/ \E i \in DOMAIN r.rows \ {r.winner} :
         r.rows[i].score = r.rows[r.winner].score

\* Every reply is a table in the order of the scores, and its winner a bidder.
LEMMA RepliesTabled ==
    ASSUME NEW b \in Quotes, NEW w \in Weighing, NEW r \in Replies(b, w)
    PROVE  Tabled(r) /\ r.winner \in Bidders(b) \cup {None}
<1>1. PICK p, l, fine, s, win, told, top :
        Made(r, b, w, p, l, fine, s, win, told, top)
  BY ReplyMade
<1>2. /\ s \in [Bidders(b) -> Int]
      /\ told \in Bidders(b) /\ \A i \in Bidders(b) : s[i] <= s[told]
      /\ IsFiniteSet(Bidders(b)) /\ Bidders(b) \subseteq Nat
  BY <1>1, MadeFacts
<1>3. /\ r.winner = win /\ win \in Bidders(b) \cup {None}
      /\ win # None => told = win
      /\ r.rows = [i \in Bidders(b) |-> Row(b, s, told, i)]
  BY <1>1 DEF Made
<1>4. \A i \in Bidders(b) :
        /\ r.rows[i].rank = Rank(s, i)
        /\ r.rows[i].score = s[i]
        /\ r.rows[i].total = IF i = told THEN b[i].price ELSE None
        /\ r.rows[i].lead = IF i = told THEN b[i].lead ELSE None
        /\ r.rows[i] = [rank |-> Rank(s, i), score |-> s[i],
                        total |-> IF i = told THEN b[i].price ELSE None,
                        lead |-> IF i = told THEN b[i].lead ELSE None]
  BY <1>3 DEF Row
<1>5. \A i \in Bidders(b) : /\ Rank(s, i) \in Nat
                            /\ b[i].price \in Nat /\ b[i].lead \in Nat
                            /\ i \in Ids /\ s[i] \in Int
  BY <1>2, RankNat, BidderOffers, TermFields
<1>6. \A i \in Bidders(b) : r.rows[i] \in RowType
  <2>1. ASSUME NEW i \in Bidders(b)
        PROVE  r.rows[i] \in RowType
    <3>1. /\ (IF i = told THEN b[i].price ELSE None) \in Nat \cup {None}
          /\ (IF i = told THEN b[i].lead ELSE None) \in Nat \cup {None}
      BY <1>5
    <3>2. [rank |-> Rank(s, i), score |-> s[i],
           total |-> IF i = told THEN b[i].price ELSE None,
           lead |-> IF i = told THEN b[i].lead ELSE None] \in RowType
      BY <1>5, <3>1 DEF RowType
    <3>. QED  BY <1>4, <3>2
  <2>. QED  BY <2>1
<1>7. ASSUME NEW i \in Bidders(b), NEW j \in Bidders(b)
      PROVE  /\ Rank(s, i) < Rank(s, j) => s[i] >= s[j]
             /\ Rank(s, i) = Rank(s, j) => i = j
  <2>1. Rank(s, i) \in Nat /\ Rank(s, j) \in Nat /\ s[i] \in Int /\ s[j] \in Int
    BY <1>5
  <2>2. CASE i = j
    BY <2>1, <2>2
  <2>3. CASE Before(s, i, j)
    <3>1. Rank(s, i) < Rank(s, j)
      BY <1>2, <2>3, RankFollows
    <3>2. s[i] >= s[j]
      BY <2>1, <2>3, SMT DEF Before
    <3>. QED  BY <2>1, <3>1, <3>2
  <2>4. CASE Before(s, j, i)
    <3>1. Rank(s, j) < Rank(s, i)
      BY <1>2, <2>4, RankFollows
    <3>. QED  BY <2>1, <3>1
  <2>. QED  BY <1>2, <2>2, <2>3, <2>4, BeforeTotal
<1>8. \A i \in Bidders(b) : r.rows[i].total # None <=> i = told
  <2>1. \A n \in Nat : n # None
    BY SMT DEF None
  <2>. QED  BY <1>4, <1>5, <2>1
<1>9. DOMAIN r.rows = Bidders(b)
  BY <1>3
<1>10. \A i, j \in Bidders(b) : i = told => s[i] >= s[j]
  BY <1>2, <1>5
<1>11. \A i \in DOMAIN r.rows : i \in Ids /\ r.rows[i] \in RowType
  BY <1>5, <1>6, <1>9
<1>12. ASSUME NEW i \in DOMAIN r.rows, NEW j \in DOMAIN r.rows
       PROVE  /\ r.rows[i].rank < r.rows[j].rank => r.rows[i].score >= r.rows[j].score
              /\ r.rows[i].rank = r.rows[j].rank => i = j
              /\ r.rows[i].total # None => r.rows[i].score >= r.rows[j].score
              /\ r.rows[i].total # None /\ r.rows[j].total # None => i = j
  <2>1. i \in Bidders(b) /\ j \in Bidders(b)
    BY <1>9
  <2>2. /\ r.rows[i].rank = Rank(s, i) /\ r.rows[j].rank = Rank(s, j)
        /\ r.rows[i].score = s[i] /\ r.rows[j].score = s[j]
    BY <1>4, <2>1
  <2>3. /\ Rank(s, i) < Rank(s, j) => s[i] >= s[j]
        /\ Rank(s, i) = Rank(s, j) => i = j
    BY <1>7, <2>1
  <2>4. /\ r.rows[i].total # None <=> i = told
        /\ r.rows[j].total # None <=> j = told
        /\ i = told => s[i] >= s[j]
    BY <1>8, <1>10, <2>1
  <2>. QED  BY <2>2, <2>3, <2>4, Zenon
<1>13. \E i \in DOMAIN r.rows : r.rows[i].total # None
  BY <1>2, <1>8, <1>9
<1>14. r.winner # None => r.rows[r.winner].total # None
  BY <1>2, <1>3, <1>8
<1>. QED  BY <1>3, <1>11, <1>12, <1>13, <1>14 DEF Tabled

\* And it carries the card of its winner.
LEMMA RepliesCarded ==
    ASSUME NEW b \in Quotes, NEW w \in Weighing, NEW r \in Replies(b, w)
    PROVE  Carded(r)
<1>. SUFFICES ASSUME r.winner # None PROVE Carded(r)
  BY DEF Carded
<1>1. PICK p, l, fine, s, win, told, top :
        Made(r, b, w, p, l, fine, s, win, told, top)
  BY ReplyMade
<1>2. /\ r.winner = win /\ win \in Bidders(b) /\ top \in Bidders(b) /\ told = win
      /\ r.rows = [i \in Bidders(b) |-> Row(b, s, win, i)]
      /\ r.card = Card(r.rows, top)
      /\ Rank(s, top) = 1
  BY <1>1 DEF Made
<1>3. /\ s \in [Bidders(b) -> Int]
      /\ \A i \in Bidders(b) : s[i] <= s[win]
      /\ IsFiniteSet(Bidders(b)) /\ Bidders(b) \subseteq Nat
  BY <1>1, <1>2, MadeFacts
<1>4. r.rows[win].score = s[win] /\ r.rows[top].score = s[top]
  BY <1>2 DEF Row
<1>5. CASE top = win
  <2>1. r.rows[win].total = b[win].price /\ b[win].price \in Nat
    BY <1>2, BidderOffers, TermFields DEF Row
  <2>2. r.rows[top].total # None
    BY <1>5, <2>1 DEF None
  <2>. QED  BY <1>2, <1>5, <2>2 DEF Carded, Card
<1>6. CASE top # win
  <2>1. ~Before(s, win, top)
    <3>1. SUFFICES ASSUME Before(s, win, top) PROVE FALSE
      OBVIOUS
    <3>2. Rank(s, win) < Rank(s, top)
      BY <1>2, <1>3, <3>1, RankFollows
    <3>3. Rank(s, win) \in Nat /\ Rank(s, win) >= 1
      <4>1. IsFiniteSet({j \in DOMAIN s : Before(s, j, win)})
        <5>1. {j \in DOMAIN s : Before(s, j, win)} \subseteq Bidders(b)
          BY <1>3
        <5>. QED  BY <1>3, <5>1, FS_Subset
      <4>. QED  BY <4>1, FS_CardinalityType DEF Rank
    <3>. QED  BY <1>2, <3>2, <3>3
  <2>2. s[top] >= s[win]
    <3>1. Before(s, top, win)
      BY <1>2, <1>3, <1>6, <2>1, BeforeTotal
    <3>2. s[top] \in Int /\ s[win] \in Int
      BY <1>2, <1>3
    <3>. QED  BY <3>1, <3>2, SMT DEF Before
  <2>3. s[top] = s[win]
    <3>1. s[top] \in Int /\ s[win] \in Int /\ s[top] <= s[win]
      BY <1>2, <1>3
    <3>. QED  BY <2>2, <3>1
  <2>4. top \in DOMAIN r.rows \ {r.winner}
    BY <1>2, <1>6
  <2>. QED  BY <1>2, <1>4, <2>3, <2>4 DEF Carded
<1>. QED  BY <1>5, <1>6

\* Nobody beats the winner of an answer.
LEMMA RepliesUnbeaten ==
    ASSUME NEW b \in Quotes, NEW w \in Weighing, NEW r \in Replies(b, w),
           r.winner # None, NEW i \in Bidders(b)
    PROVE  ~Beats(b[i], b[r.winner], w)
<1>. SUFFICES ASSUME Beats(b[i], b[r.winner], w) PROVE FALSE
  OBVIOUS
<1>1. PICK p, l, fine, s, win, told, top :
        Made(r, b, w, p, l, fine, s, win, told, top)
  BY ReplyMade
<1>2. /\ r.winner = win /\ win \in Bidders(b)
      /\ fine[i] <= fine[win]
      /\ fine[i] = Fine(b[i], w, p, l) /\ fine[win] = Fine(b[win], w, p, l)
      /\ fine[i] \in Int /\ fine[win] \in Int
  <2>1. r.winner = win /\ win # None
    BY <1>1 DEF Made
  <2>2. fine \in [Bidders(b) -> Int]
    BY <1>1, MadeFacts
  <2>. QED  BY <1>1, <2>1, <2>2 DEF Made
<1>3. /\ Prices(b) \subseteq Nat /\ Leads(b) \subseteq Nat
      /\ b[i].price \in Prices(b) /\ b[win].price \in Prices(b)
      /\ b[i].lead \in Leads(b) /\ b[win].lead \in Leads(b)
  BY <1>2, BidderOffers, TermFields DEF Prices, Leads
<1>4. p \in Extremes(Prices(b)) /\ l \in Extremes(Leads(b))
  BY <1>1 DEF Made
<1>5. b[i] \in Terms /\ b[win] \in Terms
  BY <1>2, BidderOffers
<1>6. Fine(b[i], w, p, l) > Fine(b[win], w, p, l)
  BY <1>2, <1>3, <1>4, <1>5, BeatsScoresMore
<1>. QED  BY <1>2, <1>6

-----------------------------------------------------------------------------
(* The RFQ *)

\* What a request may have read before it writes: quotes are only added, and an
\* award once made is never taken away.
ReadToComparing ==
    [responded : Nat, status : {"sent", "open", "closed", "awarded"},
     award : Ids \cup {None}, bid : Quotes]

ReadBefore(c) ==
    comparing[c] # Unread =>
      /\ comparing[c] \in ReadToComparing
      /\ Bidders(comparing[c].bid) \subseteq Bidders(bid)
      /\ comparing[c].award # None => award # None

\* The last answer is silence or an answer to some quotes, and the award is the
\* winner of the comparison that is its grounds.
ReplyIsReplies ==
    \/ reply = Silence
    \/ \E b \in Quotes, w \in Weighing : reply \in Replies(b, w)

AwardIsWinner ==
    award # None =>
      /\ grounds.bid \in Quotes /\ grounds.weights \in Weighing
      /\ \E r \in Replies(grounds.bid, grounds.weights) : award = r.winner

Columns ==
    /\ bid \in Quotes
    /\ status \in {"sent", "open", "closed", "awarded"}
    /\ invited \in Nat
    /\ responded \in Nat
    /\ award \in Bidders(bid) \cup {None}
    /\ status = "awarded" => award # None

Readings ==
    /\ posted \in [Ids -> [responded : Nat, invited : Nat] \cup {Unread}]
    /\ comparing \in [Comparers -> ReadToComparing \cup {Unread}]
    /\ \A c \in Comparers : ReadBefore(c)

ComparisonInv == Columns /\ Readings /\ ReplyIsReplies /\ AwardIsWinner

\* Weights and simulated rounds have their types.
LEMMA WeightsWeigh ==
    /\ Weights \subseteq Weighing
    /\ Simulated \subseteq Quotes
BY ComparisonAssumption DEF Quotes

\* The invariant holds at first.
LEMMA InvInit == ComparisonInit => ComparisonInv
<1>. SUFFICES ASSUME ComparisonInit PROVE ComparisonInv
  OBVIOUS
<1>1. Columns
  BY ComparisonAssumption DEF ComparisonInit, Columns, Quotes
<1>2. Readings
  BY DEF ComparisonInit, Readings, ReadBefore
<1>3. ReplyIsReplies /\ AwardIsWinner
  BY DEF ComparisonInit, ReplyIsReplies, AwardIsWinner
<1>. QED  BY <1>1, <1>2, <1>3 DEF ComparisonInv

\* A step that only ends a request to compare keeps the other requests.
LEMMA ComparersStay ==
    ASSUME Readings, NEW c \in Comparers,
           comparing' = [comparing EXCEPT ![c] = Unread], posted' = posted,
           Bidders(bid)' = Bidders(bid), award # None => award' # None
    PROVE  Readings'
<1>1. comparing' \in [Comparers -> ReadToComparing \cup {Unread}]
  BY DEF Readings
<1>2. ASSUME NEW d \in Comparers PROVE ReadBefore(d)'
  <2>1. CASE d = c
    BY <2>1 DEF Readings, ReadBefore
  <2>2. CASE d # c
    BY <2>2 DEF Readings, ReadBefore
  <2>. QED  BY <2>1, <2>2
<1>. QED  BY <1>1, <1>2 DEF Readings

\* Every step keeps the invariant.
LEMMA InvNext ==
    ComparisonInv /\ [ComparisonNext]_comparisonVars => ComparisonInv'
<1>. SUFFICES ASSUME ComparisonInv, [ComparisonNext]_comparisonVars
              PROVE  ComparisonInv'
  OBVIOUS
<1>1. ASSUME NEW i \in Ids, ReadToQuote(i)
      PROVE  ComparisonInv'
  <2>1. /\ UNCHANGED <<bid, status, invited, responded, award, comparing, grounds, reply>>
        /\ posted' = [posted EXCEPT ![i] = [responded |-> responded, invited |-> invited]]
    BY <1>1 DEF ReadToQuote, rfqVars
  <2>2. [responded |-> responded, invited |-> invited] \in [responded : Nat, invited : Nat]
    BY DEF ComparisonInv, Columns
  <2>3. posted' \in [Ids -> [responded : Nat, invited : Nat] \cup {Unread}]
    BY <2>1, <2>2 DEF ComparisonInv, Readings
  <2>4. Columns'
    BY <2>1 DEF ComparisonInv, Columns
  <2>5. Readings'
    BY <2>1, <2>3 DEF ComparisonInv, Readings, ReadBefore
  <2>6. ReplyIsReplies' /\ AwardIsWinner'
    BY <2>1 DEF ComparisonInv, ReplyIsReplies, AwardIsWinner
  <2>. QED  BY <2>4, <2>5, <2>6 DEF ComparisonInv
<1>2. ASSUME NEW i \in Ids, NEW o \in Offers, Submit(i, o)
      PROVE  ComparisonInv'
  <2>1. posted[i] \in [responded : Nat, invited : Nat]
    BY <1>2 DEF Submit, ComparisonInv, Readings
  <2>2. bid' \in Quotes /\ Bidders(bid) \subseteq Bidders(bid)'
    BY <1>2 DEF ComparisonInv, Columns, Submit, Quotes, Bidders
  <2>3. /\ UNCHANGED <<invited, award, comparing, grounds, reply>>
        /\ responded' = posted[i].responded + 1
        /\ status' \in {"closed", status}
        /\ posted' = [posted EXCEPT ![i] = Unread]
    BY <1>2 DEF Submit
  <2>4. responded' \in Nat
    BY <2>1, <2>3
  <2>5. Columns'
    BY <2>2, <2>3, <2>4 DEF ComparisonInv, Columns
  <2>6. posted' \in [Ids -> [responded : Nat, invited : Nat] \cup {Unread}]
    BY <2>3 DEF ComparisonInv, Readings
  <2>7. Readings'
    BY <2>2, <2>3, <2>6 DEF ComparisonInv, Readings, ReadBefore
  <2>8. ReplyIsReplies' /\ AwardIsWinner'
    BY <2>3 DEF ComparisonInv, ReplyIsReplies, AwardIsWinner
  <2>. QED  BY <2>5, <2>7, <2>8 DEF ComparisonInv
<1>3. ASSUME NEW c \in Comparers, ReadToCompare(c)
      PROVE  ComparisonInv'
  <2>. DEFINE read == [responded |-> responded, status |-> status,
                       award |-> award, bid |-> bid]
  <2>1. /\ UNCHANGED <<bid, status, invited, responded, award, posted, grounds, reply>>
        /\ comparing' = [comparing EXCEPT ![c] = read]
    BY <1>3 DEF ReadToCompare, rfqVars
  <2>2. read \in ReadToComparing
    BY DEF ComparisonInv, Columns, ReadToComparing, Bidders
  <2>3. read.bid = bid /\ read.award = award
    OBVIOUS
  <2>. HIDE DEF read
  <2>4. comparing' \in [Comparers -> ReadToComparing \cup {Unread}]
    BY <2>1, <2>2 DEF ComparisonInv, Readings
  <2>5. ASSUME NEW d \in Comparers PROVE ReadBefore(d)'
    <3>1. CASE d = c
      BY <3>1, <2>1, <2>2, <2>3 DEF ComparisonInv, Readings, ReadBefore
    <3>2. CASE d # c
      BY <3>2, <2>1 DEF ComparisonInv, Readings, ReadBefore
    <3>. QED  BY <3>1, <3>2
  <2>6. Readings'
    BY <2>1, <2>4, <2>5 DEF ComparisonInv, Readings
  <2>7. Columns' /\ ReplyIsReplies' /\ AwardIsWinner'
    BY <2>1 DEF ComparisonInv, Columns, ReplyIsReplies, AwardIsWinner
  <2>. QED  BY <2>6, <2>7 DEF ComparisonInv
<1>4. ASSUME NEW c \in Comparers, NEW w \in Weights, Compare(c, w)
      PROVE  ComparisonInv'
  <2>1. /\ comparing[c] \in ReadToComparing /\ comparing[c].bid \in Quotes
        /\ Bidders(comparing[c].bid) \subseteq Bidders(bid)
        /\ comparing[c].award # None => award # None
        /\ w \in Weighing
    BY <1>4, WeightsWeigh DEF Compare, ComparisonInv, Readings, ReadBefore, ReadToComparing
  <2>2. /\ reply' \in Replies(comparing[c].bid, w) /\ reply'.winner # None
        /\ award' = IF comparing[c].award = reply'.winner THEN award ELSE reply'.winner
        /\ grounds' = IF award' = reply'.winner
                        THEN [bid |-> comparing[c].bid, weights |-> w] ELSE grounds
        /\ status' \in {"awarded", status}
        /\ comparing' = [comparing EXCEPT ![c] = Unread]
        /\ UNCHANGED <<bid, invited, posted>>
    BY <1>4 DEF Compare
  <2>3. reply'.winner \in Bidders(comparing[c].bid)
    BY <2>1, <2>2, RepliesTabled
  <2>4. award' # None /\ award' \in Bidders(bid)'
    <3>1. award \in Bidders(bid) \cup {None} /\ bid' = bid
      BY <2>2 DEF ComparisonInv, Columns
    <3>2. CASE comparing[c].award = reply'.winner
      BY <3>1, <3>2, <2>1, <2>2
    <3>3. CASE comparing[c].award # reply'.winner
      BY <3>1, <3>3, <2>1, <2>2, <2>3
    <3>. QED  BY <3>2, <3>3
  <2>5. responded' \in Nat
    <3>1. IsFiniteSet(Bidders(comparing[c].bid))
      BY ComparisonAssumption, FS_Subset DEF Bidders
    <3>2. Cardinality(Bidders(comparing[c].bid)) \in Nat
      BY <3>1, FS_CardinalityType
    <3>. QED  BY <1>4, <3>2 DEF Compare, ComparisonInv, Columns
  <2>6. Columns'
    BY <2>2, <2>4, <2>5 DEF ComparisonInv, Columns
  <2>7. Readings'
    <3>1. Bidders(bid)' = Bidders(bid)
      BY <2>2
    <3>. QED  BY <2>2, <2>4, <3>1, ComparersStay DEF ComparisonInv
  <2>8. ReplyIsReplies'
    BY <2>1, <2>2 DEF ReplyIsReplies
  <2>9. AwardIsWinner'
    <3>1. CASE award' = reply'.winner
      <4>1. grounds'.bid = comparing[c].bid /\ grounds'.weights = w
        BY <3>1, <2>2
      <4>. QED  BY <3>1, <4>1, <2>1, <2>2 DEF AwardIsWinner
    <3>2. CASE award' # reply'.winner
      <4>1. award' = award /\ grounds' = grounds
        BY <3>2, <2>2
      <4>. QED  BY <4>1, <2>4 DEF ComparisonInv, AwardIsWinner
    <3>. QED  BY <3>1, <3>2
  <2>. QED  BY <2>6, <2>7, <2>8, <2>9 DEF ComparisonInv
<1>5. ASSUME NEW c \in Comparers, NEW w \in Weights, CompareInVain(c, w)
      PROVE  ComparisonInv'
  <2>1. /\ UNCHANGED <<bid, status, invited, responded, award, posted, grounds>>
        /\ comparing' = [comparing EXCEPT ![c] = Unread]
        /\ reply' \in Replies(comparing[c].bid, w)
    BY <1>5 DEF CompareInVain, rfqVars
  <2>2. comparing[c].bid \in Quotes /\ w \in Weighing
    BY <1>5, WeightsWeigh DEF CompareInVain, ComparisonInv, Readings, ReadToComparing
  <2>3. ReplyIsReplies'
    BY <2>1, <2>2 DEF ReplyIsReplies
  <2>4. Readings'
    <3>1. Bidders(bid)' = Bidders(bid)
      BY <2>1
    <3>. QED  BY <2>1, <3>1, ComparersStay DEF ComparisonInv
  <2>5. Columns' /\ AwardIsWinner'
    BY <2>1 DEF ComparisonInv, Columns, AwardIsWinner
  <2>. QED  BY <2>3, <2>4, <2>5 DEF ComparisonInv
<1>6. ASSUME NEW c \in Comparers, CompareNothing(c)
      PROVE  ComparisonInv'
  <2>1. /\ UNCHANGED <<bid, status, invited, responded, award, posted, grounds>>
        /\ comparing' = [comparing EXCEPT ![c] = Unread]
        /\ reply' = Silence
    BY <1>6 DEF CompareNothing, rfqVars
  <2>2. Readings'
    <3>1. Bidders(bid)' = Bidders(bid)
      BY <2>1
    <3>. QED  BY <2>1, <3>1, ComparersStay DEF ComparisonInv
  <2>3. Columns' /\ AwardIsWinner' /\ ReplyIsReplies'
    BY <2>1 DEF ComparisonInv, Columns, AwardIsWinner, ReplyIsReplies
  <2>. QED  BY <2>2, <2>3 DEF ComparisonInv
<1>7. ASSUME NEW w \in Weights, NEW b \in Simulated, DryRun(w, b)
      PROVE  ComparisonInv'
  <2>1. b \in Quotes /\ Turned(w) \in Weighing
    BY <1>7, WeightsWeigh, TurnedWeighs
  <2>2. /\ UNCHANGED <<bid, award, posted, comparing, grounds>>
        /\ status' \in {"sent", "open"}
        /\ responded' \in {0, responded}
        /\ invited' \in {SimInvited, invited}
        /\ reply' = Silence \/ reply' \in Replies(b, Turned(w))
    BY <1>7 DEF DryRun, ComparisonInv, Columns
  <2>3. Columns'
    BY <2>2 DEF ComparisonInv, Columns, SimInvited
  <2>4. ReplyIsReplies'
    BY <2>1, <2>2 DEF ReplyIsReplies
  <2>5. Readings' /\ AwardIsWinner'
    BY <2>2 DEF ComparisonInv, Readings, ReadBefore, AwardIsWinner
  <2>. QED  BY <2>3, <2>4, <2>5 DEF ComparisonInv
<1>8. CASE UNCHANGED comparisonVars
  <2>1. UNCHANGED <<bid, status, invited, responded, award, posted, comparing, grounds, reply>>
    BY <1>8 DEF comparisonVars, rfqVars
  <2>. QED  BY <2>1 DEF ComparisonInv, Columns, Readings, ReadBefore, ReplyIsReplies,
                       AwardIsWinner
<1>. QED  BY <1>1, <1>2, <1>3, <1>4, <1>5, <1>6, <1>7, <1>8 DEF ComparisonNext

\* Where answers and awards come from, in every reachable state.
THEOREM ComparisonHolds == ComparisonSpec => []ComparisonInv
<1>. QED  BY InvInit, InvNext, PTL DEF ComparisonSpec

\* Every row, count and status is well formed, and an awarded RFQ names one of
\* its quotes, however quotes and comparisons overlap (compare_quotes,
\* submit_quote, seal_results).
THEOREM ComparisonTypes == ComparisonSpec => []ComparisonTypeOK
<1>1. ComparisonInv => ComparisonTypeOK
  <2>. SUFFICES ASSUME ComparisonInv PROVE ComparisonTypeOK
    OBVIOUS
  <2>1. \A i \in DOMAIN reply.rows : i \in Ids /\ reply.rows[i] \in RowType
    <3>1. CASE reply = Silence
      BY <3>1 DEF Silence
    <3>2. CASE reply # Silence
      BY <3>2, RepliesTabled DEF ComparisonInv, ReplyIsReplies, Tabled
    <3>. QED  BY <3>1, <3>2
  <2>. QED  BY <2>1 DEF ComparisonTypeOK, ComparisonInv, Columns, Quotes
<1>. QED  BY <1>1, ComparisonHolds, PTL

\* No quote that was compared with the awarded one beats it, for any weights, also
\* negative ones, and however comparisons and quotes overlap (compare_quotes).
THEOREM AwardUnbeaten == ComparisonSpec => []AwardNotBeaten
<1>1. ComparisonInv => AwardNotBeaten
  <2>. SUFFICES ASSUME ComparisonInv, award # None, NEW i \in Bidders(grounds.bid)
                PROVE  ~Beats(grounds.bid[i], grounds.bid[award], grounds.weights)
    BY DEF AwardNotBeaten
  <2>1. /\ grounds.bid \in Quotes /\ grounds.weights \in Weighing
        /\ \E r \in Replies(grounds.bid, grounds.weights) : award = r.winner
    BY DEF ComparisonInv, AwardIsWinner
  <2>2. PICK r \in Replies(grounds.bid, grounds.weights) : award = r.winner
    BY <2>1
  <2>. QED  BY <2>1, <2>2, RepliesUnbeaten
<1>. QED  BY <1>1, ComparisonHolds, PTL

\* The sealed table ranks by score, and exactly one row tells its terms: one with
\* the best score, and the winner's where there is one (seal_results).
THEOREM TableIsSealed == ComparisonSpec => []SealedTable
<1>1. ComparisonInv => SealedTable
  <2>. SUFFICES ASSUME ComparisonInv PROVE SealedTable
    OBVIOUS
  <2>1. CASE reply = Silence
    BY <2>1 DEF Silence, SealedTable
  <2>2. CASE reply # Silence
    <3>1. Tabled(reply)
      BY <2>2, RepliesTabled DEF ComparisonInv, ReplyIsReplies
    <3>. QED  BY <3>1 DEF Tabled, SealedTable
  <2>. QED  BY <2>1, <2>2
<1>. QED  BY <1>1, ComparisonHolds, PTL

\* The purchaser's card tells the winner's terms unless two scores round to the
\* same number (seal_rfq_award_for_purchaser).
THEOREM CardIsAward == ComparisonSpec => []CardTellsAward
<1>1. ComparisonInv => CardTellsAward
  <2>. SUFFICES ASSUME ComparisonInv PROVE CardTellsAward
    OBVIOUS
  <2>1. CASE reply = Silence
    BY <2>1 DEF Silence, CardTellsAward
  <2>2. CASE reply # Silence
    <3>1. Carded(reply)
      BY <2>2, RepliesCarded DEF ComparisonInv, ReplyIsReplies
    <3>. QED  BY <3>1 DEF Carded, CardTellsAward
  <2>. QED  BY <2>1, <2>2
<1>. QED  BY <1>1, ComparisonHolds, PTL

-----------------------------------------------------------------------------
(* Bidding: the invariant *)

Requests ==
    [round : Nat, seed : Nat, offer : CounterOffers, eligible : SUBSET Suppliers]

Busy == {d \in Calls : call[d] # Idle}

\* A pair of round and seed that counts up from a seed somebody asked for.
Counted(n, seed) == n \in 1..MaxRuns /\ seed - (n - 1) \in Seeds

Happened(n) == \E b \in trail : b.round = n

\* What an event of this or an earlier process says of the bids.
Replayed(b) ==
    \A s \in DOMAIN b.bids :
      b.process = process \/ s \notin Undecided =>
        b.bids[s] = GenerateBid(s, b.seed, b.round, b.offer)

Played(b) ==
    /\ b.process \in 1..process
    /\ b.run \in Nat
    /\ b.offer \in CounterOffers
    /\ b.seed \in Nat
    /\ Counted(b.round, b.seed)
    /\ DOMAIN b.bids \subseteq Suppliers
    /\ DOMAIN b.bids # {}
    /\ Replayed(b)

CallInv(c) ==
    /\ call[c].round <= Runs + 1
    /\ Counted(call[c].round, call[c].seed)
    /\ \A n \in 1..(call[c].round - 1) : Happened(n)

\* Types, and the bound on the runs.
Counters ==
    /\ extra \in [round : Nat, seed : Nat]
    /\ quoted \subseteq Suppliers
    /\ process \in Nat \ {0}
    /\ coin \in [Undecided -> BOOLEAN]
    /\ call \in [Calls -> Requests \cup {Idle}]
    /\ IsFiniteSet(trail)
    /\ IsFiniteSet(Busy)
    /\ Runs + Cardinality(Busy) <= MaxRuns
    /\ extra.round <= Runs

\* The properties, for one event and for two.
Squeezed(b) ==
    \A s \in DOMAIN b.bids :
      /\ b.bids[s].days >= MinLeadDays
      /\ b.offer.price # NoCap => b.bids[s].price <= b.offer.price
      /\ b.offer.days # NoCap => b.bids[s].days <= AtLeast(b.offer.days, MinLeadDays)

Undercuts(b, d) ==
    \A s \in DOMAIN b.bids :
      d.round = b.round /\ d.seed = b.seed /\ d.process = b.process
      /\ d.offer = [price |-> NoCap, days |-> NoCap] /\ s \in DOMAIN d.bids =>
        b.bids[s].price <= d.bids[s].price /\ b.bids[s].days <= d.bids[s].days

Agree(b, d) ==
    b.round = d.round /\ b.seed = d.seed /\ b.offer = d.offer =>
      \A s \in DOMAIN b.bids \cap DOMAIN d.bids :
        b.process = d.process \/ s \notin Undecided => b.bids[s] = d.bids[s]

Pairs == \A b, d \in trail : Squeezed(b) /\ Undercuts(b, d) /\ Agree(b, d)

BiddingInv ==
    /\ Counters
    /\ \A b \in trail : Played(b) /\ b.run < Runs
    /\ \A c \in Busy : CallInv(c)
    /\ TrailHasNoGap
    /\ Pairs

-----------------------------------------------------------------------------

\* The number of events is a natural number.
LEMMA RunsType == ASSUME IsFiniteSet(trail) PROVE Runs \in Nat
BY FS_CardinalityType DEF Runs

\* With a request under way their number is at least one.
LEMMA BusyOne ==
    ASSUME Counters, NEW c \in Busy
    PROVE  Cardinality(Busy) \in Nat /\ Cardinality(Busy) >= 1
<1>1. Cardinality(Busy) \in Nat
  BY FS_CardinalityType DEF Counters
<1>2. Cardinality(Busy) # 0
  BY FS_EmptySet DEF Counters
<1> QED BY <1>1, <1>2

\* A call that is under way leaves room for its run.
LEMMA RoomForOne ==
    ASSUME Counters, NEW c \in Busy
    PROVE  Runs + 1 <= MaxRuns /\ Runs \in Nat
BY BusyOne, RunsType, BiddingAssumption DEF Counters

\* Bids do not depend on the process where the ratings decide.
LEMMA SameBid ==
    ASSUME NEW s \in Suppliers, s \notin Undecided, NEW n, NEW seed, NEW offer
    PROVE  GenerateBid(s, seed, n, offer)' = GenerateBid(s, seed, n, offer)
<1>1. DeriveStrategy(s)' = DeriveStrategy(s)
  BY DEF DeriveStrategy, Undecided, Premium, Slow, Suppliers
<1> QED BY <1>1 DEF GenerateBid, UnitPrice, LeadTime, SqueezedLead, AtMost, AtLeast

\* The seeds asked for and the bound on the runs are natural numbers.
LEMMA SeedsAreNumbers == Seeds \subseteq Nat /\ MaxRuns \in Nat
BY BiddingAssumption

\* Every supplier has one of the four strategies.
LEMMA StrategyType ==
    ASSUME NEW s \in Suppliers, coin \in [Undecided -> BOOLEAN]
    PROVE  DeriveStrategy(s) \in {"aggressive", "balanced", "premium", "slow_but_cheap"}
BY DEF DeriveStrategy, HashedStrategy

\* What a bid is computed from are integers and caps.
LEMMA BidTypes ==
    ASSUME NEW s \in Suppliers, coin \in [Undecided -> BOOLEAN],
           NEW n, NEW seed, Counted(n, seed), seed \in Nat, NEW offer \in CounterOffers
    PROVE  /\ Book[s].days + StrategyParams[DeriveStrategy(s)].days \in Int
           /\ Book[s].price * (100 + StrategyParams[DeriveStrategy(s)].price + Draw(seed, n, s))
                \in Int
           /\ offer.price \in Nat \cup {NoCap}
           /\ offer.days \in Nat \cup {NoCap}
           /\ NoCap \notin Nat
<1>1. /\ Book[s].days \in Nat
      /\ Book[s].price \in Nat
  BY BiddingAssumption DEF Listing, Suppliers
<1>2. /\ StrategyParams[DeriveStrategy(s)].days \in Int
      /\ StrategyParams[DeriveStrategy(s)].price \in Int
  BY StrategyType DEF StrategyParams
<1>3. Draw(seed, n, s) \in Int
  <2>1. PICK first \in Seeds : first = seed - (n - 1)
    BY DEF Counted
  <2>2. first \in Nat /\ n \in Int /\ n \in 1..MaxRuns
    BY SeedsAreNumbers DEF Counted
  <2>3. first + n - 1 = seed
    BY <2>1, <2>2
  <2>4. Draw(first + n - 1, n, s) \in -JitterBand..JitterBand
    BY <2>2, BiddingAssumption DEF Suppliers
  <2> QED BY <2>3, <2>4 DEF JitterBand
<1>4. offer.price \in Nat \cup {NoCap} /\ offer.days \in Nat \cup {NoCap} /\ NoCap \notin Nat
  BY BiddingAssumption
<1>5. ASSUME NEW p \in Nat, NEW m \in Int, NEW d \in Int
      PROVE  p * (100 + m + d) \in Int
  BY <1>5
<1>6. Book[s].price * (100 + StrategyParams[DeriveStrategy(s)].price + Draw(seed, n, s)) \in Int
  BY <1>1, <1>2, <1>3, <1>5
<1> QED BY <1>1, <1>2, <1>4, <1>6

\* One bid keeps to the caps, to the floor of a day, and to the bid without caps.
LEMMA Squeezes ==
    ASSUME NEW s \in Suppliers, coin \in [Undecided -> BOOLEAN],
           NEW n, NEW seed, Counted(n, seed), seed \in Nat, NEW offer \in CounterOffers
    PROVE  LET made == GenerateBid(s, seed, n, offer)
               free == GenerateBid(s, seed, n, [price |-> NoCap, days |-> NoCap])
           IN  /\ made.days \in Int /\ made.price \in Int
               /\ made.days >= MinLeadDays
               /\ offer.price # NoCap => made.price <= offer.price
               /\ offer.days # NoCap => made.days <= AtLeast(offer.days, MinLeadDays)
               /\ made.price <= free.price
               /\ made.days <= free.days
<1> DEFINE lead == Book[s].days + StrategyParams[DeriveStrategy(s)].days
           price == Book[s].price * (100 + StrategyParams[DeriveStrategy(s)].price + Draw(seed, n, s))
           none == [price |-> NoCap, days |-> NoCap]
<1>1. /\ lead \in Int /\ price \in Int
      /\ offer.price \in Nat \cup {NoCap}
      /\ offer.days \in Nat \cup {NoCap}
      /\ NoCap \notin Nat
  BY BidTypes
<1>2. /\ GenerateBid(s, seed, n, offer) =
           [price |-> AtMost(price, offer.price),
            days |-> AtLeast(AtMost(AtLeast(lead, MinLeadDays), offer.days), MinLeadDays)]
      /\ GenerateBid(s, seed, n, none) =
           [price |-> AtMost(price, NoCap),
            days |-> AtLeast(AtMost(AtLeast(lead, MinLeadDays), NoCap), MinLeadDays)]
  BY DEF GenerateBid, UnitPrice, LeadTime, SqueezedLead
<1> HIDE DEF lead, price
<1>3. ASSUME NEW m \in Int, NEW cap \in Nat \cup {NoCap}
      PROVE  /\ AtMost(m, cap) \in Int
             /\ AtMost(m, cap) <= m
             /\ AtMost(m, NoCap) = m
             /\ cap # NoCap => AtMost(m, cap) <= cap
             /\ AtLeast(m, MinLeadDays) \in Int
             /\ AtLeast(m, MinLeadDays) >= MinLeadDays
             /\ m >= MinLeadDays => AtLeast(m, MinLeadDays) = m
  BY <1>1, <1>3 DEF AtMost, AtLeast, MinLeadDays
<1>4. ASSUME NEW m \in Int, NEW k \in Int, m <= k
      PROVE  AtLeast(m, MinLeadDays) <= AtLeast(k, MinLeadDays)
  BY <1>4 DEF AtLeast, MinLeadDays
<1> DEFINE floored == AtLeast(lead, MinLeadDays)
           capped == AtMost(floored, offer.days)
<1>5. floored \in Int /\ floored >= MinLeadDays
  BY <1>1, <1>3
<1>6. /\ capped \in Int /\ capped <= floored
      /\ offer.days # NoCap => capped <= offer.days
      /\ AtMost(floored, NoCap) = floored
  BY <1>1, <1>3, <1>5
<1>7. /\ AtLeast(capped, MinLeadDays) \in Int
      /\ AtLeast(capped, MinLeadDays) >= MinLeadDays
      /\ AtLeast(capped, MinLeadDays) <= AtLeast(floored, MinLeadDays)
      /\ offer.days # NoCap => AtLeast(capped, MinLeadDays) <= AtLeast(offer.days, MinLeadDays)
  <2>1. offer.days # NoCap => offer.days \in Int
    BY <1>1
  <2> QED BY <1>3, <1>4, <1>5, <1>6, <2>1
<1>8. /\ AtMost(price, offer.price) \in Int
      /\ AtMost(price, offer.price) <= AtMost(price, NoCap)
      /\ offer.price # NoCap => AtMost(price, offer.price) <= offer.price
  BY <1>1, <1>3
<1> HIDE DEF floored, capped
<1>9. GenerateBid(s, seed, n, offer) = [price |-> AtMost(price, offer.price), days |-> AtLeast(capped, MinLeadDays)]
  BY <1>2 DEF capped, floored
<1>10. GenerateBid(s, seed, n, none) = [price |-> AtMost(price, NoCap), days |-> AtLeast(floored, MinLeadDays)]
  BY <1>2, <1>6 DEF floored
<1> QED BY <1>7, <1>8, <1>9, <1>10

\* An event of this process agrees with every other, squeezes and undercuts.
LEMMA NewPairs ==
    ASSUME coin \in [Undecided -> BOOLEAN], NEW e, Played(e), e.process = process
    PROVE  /\ Squeezed(e)
           /\ \A d : Played(d) => /\ Undercuts(e, d) /\ Undercuts(d, e)
                                  /\ Agree(e, d) /\ Agree(d, e)
<1> DEFINE none == [price |-> NoCap, days |-> NoCap]
<1>1. ASSUME NEW b, Played(b), NEW s \in DOMAIN b.bids, b.process = process
      PROVE  /\ b.bids[s].days >= MinLeadDays
             /\ b.offer.price # NoCap => b.bids[s].price <= b.offer.price
             /\ b.offer.days # NoCap => b.bids[s].days <= AtLeast(b.offer.days, MinLeadDays)
             /\ b.bids[s].price <= GenerateBid(s, b.seed, b.round, none).price
             /\ b.bids[s].days <= GenerateBid(s, b.seed, b.round, none).days
  <2>1. /\ s \in Suppliers /\ b.seed \in Nat /\ Counted(b.round, b.seed)
        /\ b.offer \in CounterOffers
        /\ b.bids[s] = GenerateBid(s, b.seed, b.round, b.offer)
    BY <1>1 DEF Played, Replayed
  <2> QED BY <2>1, Squeezes
<1>2. Squeezed(e)
  BY <1>1 DEF Squeezed
<1>3. ASSUME NEW b, Played(b), NEW d, Played(d), b.process = process
      PROVE  Undercuts(b, d)
  <2> SUFFICES ASSUME NEW s \in DOMAIN b.bids, d.round = b.round, d.seed = b.seed,
                      d.process = b.process, d.offer = none, s \in DOMAIN d.bids
               PROVE  b.bids[s].price <= d.bids[s].price /\ b.bids[s].days <= d.bids[s].days
    BY DEF Undercuts
  <2>1. d.bids[s] = GenerateBid(s, b.seed, b.round, none)
    BY <1>3 DEF Played, Replayed
  <2> QED BY <1>1, <1>3, <2>1
<1>4. ASSUME NEW d, Played(d)
      PROVE  Undercuts(d, e)
  <2>1. CASE d.process = process
    BY <2>1, <1>3, <1>4
  <2>2. CASE d.process # process
    BY <2>2 DEF Undercuts
  <2> QED BY <2>1, <2>2
<1>5. ASSUME NEW b, Played(b), NEW d, Played(d), b.process = process \/ d.process = process
      PROVE  Agree(b, d)
  <2> SUFFICES ASSUME b.round = d.round, b.seed = d.seed, b.offer = d.offer,
                      NEW s \in DOMAIN b.bids \cap DOMAIN d.bids,
                      b.process = d.process \/ s \notin Undecided
               PROVE  b.bids[s] = d.bids[s]
    BY DEF Agree
  <2>1. b.bids[s] = GenerateBid(s, b.seed, b.round, b.offer)
    BY <1>5 DEF Played, Replayed
  <2>2. d.bids[s] = GenerateBid(s, b.seed, b.round, b.offer)
    BY <1>5 DEF Played, Replayed
  <2> QED BY <2>1, <2>2
<1> QED BY <1>2, <1>3, <1>4, <1>5

-----------------------------------------------------------------------------
(* Steps *)

\* An event stays what it was while process and coin do.
LEMMA PlayedStays ==
    ASSUME UNCHANGED <<process, coin>>, NEW b, Played(b)
    PROVE  Played(b)'
<1>1. ASSUME NEW s PROVE DeriveStrategy(s)' = DeriveStrategy(s)
  BY DEF DeriveStrategy, HashedStrategy
<1>2. ASSUME NEW s, NEW seed, NEW n, NEW offer
      PROVE  GenerateBid(s, seed, n, offer)' = GenerateBid(s, seed, n, offer)
  BY <1>1 DEF GenerateBid, UnitPrice, LeadTime, SqueezedLead, AtMost, AtLeast
<1> QED BY <1>2 DEF Played, Replayed

\* A step that leaves the events and the process alone.
LEMMA EventsStay ==
    ASSUME BiddingInv, UNCHANGED <<trail, process, coin>>
    PROVE  /\ \A b \in trail' : (Played(b) /\ b.run < Runs)'
           /\ Pairs'
           /\ Runs' = Runs
           /\ \A n : Happened(n)' <=> Happened(n)
<1>1. Runs' = Runs /\ Pairs'
  BY DEF BiddingInv, Runs, Pairs
<1>2. ASSUME NEW n PROVE Happened(n)' <=> Happened(n)
  BY DEF Happened
<1>3. ASSUME NEW b, Played(b) PROVE Played(b)'
  BY <1>3, PlayedStays
<1>4. \A b \in trail : Played(b) /\ b.run < Runs
  BY DEF BiddingInv
<1> QED BY <1>1, <1>2, <1>3, <1>4

\* The invariant holds at first.
LEMMA InitInv == BiddingInit => BiddingInv
<1> SUFFICES ASSUME BiddingInit PROVE BiddingInv
  OBVIOUS
<1>1. IsFiniteSet({}) /\ Cardinality({}) = 0
  BY FS_EmptySet
<1>2. Busy = {} /\ trail = {} /\ Runs = 0
  BY <1>1 DEF BiddingInit, Busy, Runs
<1>3. Counters
  BY <1>1, <1>2, BiddingAssumption DEF BiddingInit, Counters
<1>4. TrailHasNoGap /\ Pairs
  BY <1>2 DEF BiddingInit, TrailHasNoGap, Pairs
<1> QED BY <1>2, <1>3, <1>4 DEF BiddingInv

\* A new round follows the one that is stored.
LEMMA BeginInv ==
    ASSUME BiddingInv, NEW c \in Calls, NEW first \in Seeds, NEW offer \in CounterOffers,
           Begin(c, first, offer)
    PROVE  BiddingInv'
<1> DEFINE r == [round |-> extra.round + 1, seed |-> SeedFromPayload(first),
                 offer |-> offer, eligible |-> {}]
<1>1. /\ Counters /\ TrailHasNoGap
      /\ call' = [call EXCEPT ![c] = r]
      /\ UNCHANGED <<extra, quoted, process, coin, trail>>
  BY DEF BiddingInv, Begin
<1>2. /\ \A b \in trail' : (Played(b) /\ b.run < Runs)'
      /\ Pairs' /\ Runs' = Runs
      /\ \A n : Happened(n)' <=> Happened(n)
  BY <1>1, EventsStay
<1>3. Runs \in Nat /\ Cardinality(Busy) \in Nat /\ Runs + Cardinality(Busy) < MaxRuns /\ MaxRuns \in Nat
  BY RunsType, FS_CardinalityType, BiddingAssumption DEF Counters, BiddingInv, Begin, Busy
<1>4. Counted(r.round, r.seed) /\ r.seed \in Nat /\ r.round \in Nat
  <2>1. extra.round \in Nat /\ extra.seed \in Nat /\ extra.round <= Runs
    BY <1>1 DEF Counters
  <2>2. r.round \in 1..MaxRuns
    BY <2>1, <1>3
  <2>3. CASE extra.round >= 1
    <3>1. PICK b \in trail : b.round = extra.round /\ b.seed = extra.seed
      BY <2>1, <2>3, <1>1 DEF TrailHasNoGap
    <3>2. b.seed - (b.round - 1) \in Seeds
      BY <1>1 DEF TrailHasNoGap
    <3>3. r.seed = extra.seed + 1
      BY <2>3 DEF SeedFromPayload
    <3> QED BY <2>1, <2>2, <3>1, <3>2, <3>3 DEF Counted
  <2>4. CASE ~(extra.round >= 1)
    <3>1. extra.round = 0 /\ r.seed = first /\ first \in Nat
      BY <2>1, <2>4, SeedsAreNumbers DEF SeedFromPayload
    <3> QED BY <2>1, <2>2, <3>1 DEF Counted
  <2> QED BY <2>3, <2>4
<1>5. r \in Requests
  BY <1>4 DEF Requests
<1>6. call[c] = Idle /\ r # Idle
  BY <1>5, BiddingAssumption DEF Begin, Requests, Suppliers
<1>7. Busy' = Busy \cup {c} /\ c \notin Busy
  BY <1>1, <1>6 DEF Busy, Counters
<1>8. IsFiniteSet(Busy') /\ Cardinality(Busy') = Cardinality(Busy) + 1
  BY <1>1, <1>7, FS_AddElement DEF Counters
<1>9. Counters'
  BY <1>1, <1>2, <1>3, <1>5, <1>8 DEF Counters
<1>10. ASSUME NEW d \in Busy' PROVE CallInv(d)'
  <2>1. CASE d = c
    <3>1. call'[c] = r
      BY <1>1 DEF Counters
    <3>2. \A n \in 1..(r.round - 1) : Happened(n)
      BY <1>1 DEF TrailHasNoGap, Happened, Counters
    <3> QED BY <2>1, <3>1, <3>2, <1>1, <1>2, <1>3, <1>4 DEF CallInv, Counters, Counted
  <2>2. CASE d # c
    <3>1. d \in Busy /\ call'[d] = call[d] /\ CallInv(d)
      BY <1>1, <1>7, <2>2 DEF Counters, Busy, BiddingInv
    <3> QED BY <3>1, <1>2 DEF CallInv, Counted
  <2> QED BY <2>1, <2>2
<1>11. TrailHasNoGap'
  BY <1>1 DEF TrailHasNoGap
<1> QED BY <1>2, <1>9, <1>10, <1>11 DEF BiddingInv

\* A request that ends, or goes on with its round and seed, leaves the rest be.
LEMMA CallChangeInv ==
    ASSUME BiddingInv, NEW c \in Busy, NEW r \in Requests \cup {Idle},
           r # Idle => r.round = call[c].round /\ r.seed = call[c].seed,
           call' = [call EXCEPT ![c] = r],
           UNCHANGED <<extra, quoted, process, coin, trail>>
    PROVE  BiddingInv'
<1>1. Counters /\ c \in Calls
  BY DEF BiddingInv, Busy
<1>2. /\ \A b \in trail' : (Played(b) /\ b.run < Runs)'
      /\ Pairs' /\ Runs' = Runs
      /\ \A n : Happened(n)' <=> Happened(n)
  BY EventsStay
<1>3. Busy' = IF r = Idle THEN Busy \ {c} ELSE Busy
  BY <1>1 DEF Busy, Counters
<1>4. IsFiniteSet(Busy') /\ Cardinality(Busy') <= Cardinality(Busy) /\ Cardinality(Busy') \in Nat
  <2>1. Cardinality(Busy) \in Nat
    BY <1>1, FS_CardinalityType DEF Counters
  <2>2. IsFiniteSet(Busy \ {c}) /\ Cardinality(Busy \ {c}) = Cardinality(Busy) - 1
    BY <1>1, FS_RemoveElement DEF Counters
  <2>3. Cardinality(Busy) >= 1
    BY <1>1, BusyOne
  <2> QED BY <1>1, <1>3, <2>1, <2>2, <2>3 DEF Counters
<1>5. Counters'
  <2>1. Runs \in Nat /\ Cardinality(Busy) \in Nat /\ MaxRuns \in Nat
    BY <1>1, RoomForOne, BusyOne, BiddingAssumption
  <2> QED BY <1>1, <1>2, <1>4, <2>1 DEF Counters
<1>6. ASSUME NEW d \in Busy' PROVE CallInv(d)'
  <2>1. d \in Busy /\ CallInv(d)
    BY <1>3 DEF BiddingInv
  <2>2. call'[d].round = call[d].round /\ call'[d].seed = call[d].seed
    <3>1. CASE d = c
      BY <3>1, <1>1, <1>3 DEF Counters
    <3>2. CASE d # c
      BY <3>2, <1>1, <2>1 DEF Counters, Busy
    <3> QED BY <3>1, <3>2
  <2> QED BY <2>1, <2>2, <1>2 DEF CallInv, Counted
<1>7. TrailHasNoGap'
  BY DEF BiddingInv, TrailHasNoGap
<1> QED BY <1>2, <1>5, <1>6, <1>7 DEF BiddingInv

\* Looking for suppliers keeps the invariant.
LEMMA FindSuppliersInv ==
    ASSUME BiddingInv, NEW c \in Calls, FindSuppliers(c) PROVE BiddingInv'
<1>1. c \in Busy /\ call[c] \in Requests /\ Counters
  BY DEF FindSuppliers, Busy, BiddingInv, Counters
<1>2. CASE call' = [call EXCEPT ![c] = Idle]
  BY <1>1, <1>2, CallChangeInv DEF FindSuppliers
<1>3. CASE call' = [call EXCEPT ![c].eligible = Suppliers \ quoted]
  <2> DEFINE r == [call[c] EXCEPT !.eligible = Suppliers \ quoted]
  <2>1. r \in Requests /\ r.round = call[c].round /\ r.seed = call[c].seed
    BY <1>1 DEF Requests
  <2>2. call' = [call EXCEPT ![c] = r]
    BY <1>3
  <2> HIDE DEF r
  <2> QED BY <1>1, <2>1, <2>2, CallChangeInv DEF FindSuppliers
<1> QED BY <1>2, <1>3 DEF FindSuppliers

\* A failed run keeps the invariant.
LEMMA FailInv ==
    ASSUME BiddingInv, NEW c \in Calls, Fail(c) PROVE BiddingInv'
BY CallChangeInv DEF Fail, Busy

\* A supplier that quotes for itself keeps the invariant.
LEMMA QuoteInv ==
    ASSUME BiddingInv, NEW s \in Suppliers, Quote(s) PROVE BiddingInv'
<1>1. UNCHANGED <<extra, process, coin, call, trail>> /\ quoted' \subseteq Suppliers
  BY DEF Quote, BiddingInv, Counters
<1>2. /\ \A b \in trail' : (Played(b) /\ b.run < Runs)'
      /\ Pairs' /\ Runs' = Runs
      /\ \A n : Happened(n)' <=> Happened(n)
  BY <1>1, EventsStay
<1>3. Busy' = Busy
  BY <1>1 DEF Busy
<1>4. Counters'
  BY <1>1, <1>2, <1>3 DEF BiddingInv, Counters
<1>5. \A c \in Busy' : CallInv(c)'
  BY <1>1, <1>2, <1>3 DEF BiddingInv, CallInv, Counted
<1>6. TrailHasNoGap'
  BY <1>1 DEF BiddingInv, TrailHasNoGap
<1> QED BY <1>2, <1>4, <1>5, <1>6 DEF BiddingInv

\* The run that commits adds one event, of the round after those before it.
LEMMA FinishInv ==
    ASSUME BiddingInv, NEW c \in Calls, Finish(c) PROVE BiddingInv'
<1> DEFINE r == call[c]
           e == Batch(call[c])
<1>1. /\ c \in Busy /\ r \in Requests /\ Counters /\ CallInv(c) /\ r.eligible # {}
      /\ trail' = trail \cup {e}
      /\ extra' = [round |-> r.round, seed |-> r.seed]
      /\ call' = [call EXCEPT ![c] = Idle]
      /\ UNCHANGED <<quoted, process, coin>>
  BY DEF Finish, Busy, BiddingInv, Counters
<1>2. /\ e.process = process /\ e.run = Runs /\ e.round = r.round /\ e.seed = r.seed
      /\ e.offer = r.offer
      /\ e.bids = [s \in r.eligible |-> GenerateBid(s, r.seed, r.round, r.offer)]
  BY DEF Batch
<1> HIDE DEF e
<1>3. /\ r.eligible \subseteq Suppliers /\ r.seed \in Nat /\ r.round \in Nat
      /\ r.offer \in CounterOffers
      /\ Counted(r.round, r.seed) /\ r.round <= Runs + 1
      /\ \A n \in 1..(r.round - 1) : Happened(n)
  BY <1>1 DEF Requests, CallInv
<1> HIDE DEF r
<1>4. Runs \in Nat /\ Runs + 1 <= MaxRuns /\ MaxRuns \in Nat
  BY <1>1, RoomForOne, BiddingAssumption
<1>5. Played(e)
  BY <1>1, <1>2, <1>3, <1>4 DEF Played, Replayed, Counters
<1>6. e \notin trail
  BY <1>2, <1>4 DEF BiddingInv
<1>7. IsFiniteSet(trail') /\ Runs' = Runs + 1
  BY <1>1, <1>6, FS_AddElement DEF Counters, Runs
<1>8. ASSUME NEW b \in trail' PROVE (Played(b) /\ b.run < Runs)'
  <2>1. Played(b) /\ b.run < Runs + 1
    BY <1>1, <1>2, <1>4, <1>5 DEF BiddingInv, Played
  <2> QED BY <1>1, <1>7, <2>1, PlayedStays
<1>9. Pairs'
  <2>1. ASSUME NEW b \in trail', NEW d \in trail'
        PROVE  Squeezed(b) /\ Undercuts(b, d) /\ Agree(b, d)
    <3>1. coin \in [Undecided -> BOOLEAN] /\ Played(b) /\ Played(d)
      BY <1>1, <1>5 DEF Counters, BiddingInv
    <3>2. CASE b = e
      BY <3>1, <3>2, <1>2, <1>5, NewPairs
    <3>3. CASE b \in trail /\ d = e
      BY <3>1, <3>3, <1>2, <1>5, NewPairs DEF BiddingInv, Pairs
    <3>4. CASE b \in trail /\ d \in trail
      BY <3>4 DEF BiddingInv, Pairs
    <3> QED BY <1>1, <3>2, <3>3, <3>4
  <2> QED BY <2>1 DEF Pairs, Squeezed, Undercuts, Agree
<1>10. Busy' = Busy \ {c}
  BY <1>1 DEF Busy, Counters
<1>11. IsFiniteSet(Busy') /\ Cardinality(Busy') = Cardinality(Busy) - 1
  BY <1>1, <1>10, FS_RemoveElement DEF Counters
<1>12. Counters'
  <2>1. Cardinality(Busy) \in Nat /\ Runs + Cardinality(Busy) <= MaxRuns
    BY <1>1, FS_CardinalityType DEF Counters
  <2>2. (Runs + Cardinality(Busy) <= MaxRuns)'
    BY <1>4, <1>7, <1>11, <2>1
  <2>3. call' \in [Calls -> Requests \cup {Idle}]
    BY <1>1 DEF Counters
  <2>4. extra' \in [round : Nat, seed : Nat] /\ extra'.round <= Runs'
    BY <1>1, <1>3, <1>4, <1>7
  <2> QED BY <1>1, <1>7, <1>11, <2>2, <2>3, <2>4 DEF Counters
<1>13. ASSUME NEW d \in Busy' PROVE CallInv(d)'
  <2>1. d \in Busy /\ call'[d] = call[d] /\ CallInv(d)
    BY <1>1, <1>10 DEF Counters, Busy, BiddingInv
  <2>2. call[d] \in Requests
    BY <1>1, <2>1 DEF Counters, Busy
  <2>3. \A n : Happened(n) => Happened(n)'
    BY <1>1 DEF Happened
  <2>4. call[d].round \in Nat
    BY <2>2 DEF Requests
  <2> QED BY <1>4, <1>7, <2>1, <2>3, <2>4 DEF CallInv, Counted
<1>14. TrailHasNoGap'
  <2>1. ASSUME NEW n \in 1..extra'.round PROVE \E b \in trail' : b.round = n
    <3>1. CASE n = r.round
      BY <3>1, <1>1, <1>2
    <3>2. CASE n # r.round
      <4>1. n \in 1..(r.round - 1)
        BY <3>2, <1>1, <1>3
      <4> QED BY <4>1, <1>1, <1>3 DEF Happened
    <3> QED BY <3>1, <3>2
  <2>2. \E b \in trail' : b.round = extra'.round /\ b.seed = extra'.seed
    BY <1>1, <1>2
  <2>3. ASSUME NEW b \in trail' PROVE b.seed - (b.round - 1) \in Seeds
    BY <1>1, <1>2, <1>3 DEF BiddingInv, TrailHasNoGap, Counted
  <2> QED BY <2>1, <2>2, <2>3 DEF TrailHasNoGap
<1> QED BY <1>8, <1>9, <1>12, <1>13, <1>14 DEF BiddingInv

\* After a restart only the bids the ratings decide can be replayed.
LEMMA RestartInv ==
    ASSUME BiddingInv, RestartBackend PROVE BiddingInv'
<1>1. /\ Counters /\ process' = process + 1
      /\ coin' \in [Undecided -> BOOLEAN]
      /\ call' = [c \in Calls |-> Idle]
      /\ UNCHANGED <<extra, quoted, trail>>
  BY DEF BiddingInv, RestartBackend
<1>2. Runs' = Runs /\ Runs \in Nat
  BY <1>1, RunsType DEF Runs, Counters
<1>3. ASSUME NEW b \in trail' PROVE (Played(b) /\ b.run < Runs)'
  <2>1. Played(b) /\ b.run < Runs
    BY <1>1 DEF BiddingInv
  <2>2. process \in Nat \ {0} /\ b.process \in 1..process
    BY <1>1, <2>1 DEF Counters, Played
  <2>3. b.process # process' /\ b.process \in 1..process'
    BY <1>1, <2>2
  <2>4. ASSUME NEW s \in DOMAIN b.bids, s \notin Undecided
        PROVE  b.bids[s] = GenerateBid(s, b.seed, b.round, b.offer)'
    <3>1. s \in Suppliers /\ b.bids[s] = GenerateBid(s, b.seed, b.round, b.offer)
      BY <2>1, <2>4 DEF Played, Replayed
    <3> QED BY <2>4, <3>1, SameBid
  <2>5. Replayed(b)'
    BY <2>3, <2>4 DEF Replayed
  <2> QED BY <1>2, <2>1, <2>3, <2>5 DEF Played, Counted
<1>4. Busy' = {}
  BY <1>1 DEF Busy
<1>5. Cardinality(Busy) \in Nat
  BY <1>1, FS_CardinalityType DEF Counters
<1>6. Counters'
  BY <1>1, <1>2, <1>4, <1>5, FS_EmptySet, BiddingAssumption DEF Counters
<1>7. Pairs' /\ TrailHasNoGap'
  BY <1>1 DEF BiddingInv, Pairs, TrailHasNoGap, Squeezed, Undercuts, Agree
<1> QED BY <1>3, <1>4, <1>6, <1>7 DEF BiddingInv

\* So does a step that changes nothing.
LEMMA BiddingStays ==
    ASSUME BiddingInv, UNCHANGED biddingVars PROVE BiddingInv'
<1>1. UNCHANGED <<extra, quoted, process, coin, call, trail>>
  BY DEF biddingVars
<1>2. /\ \A b \in trail' : (Played(b) /\ b.run < Runs)'
      /\ Pairs' /\ Runs' = Runs
      /\ \A n : Happened(n)' <=> Happened(n)
  BY <1>1, EventsStay
<1>3. Busy' = Busy
  BY <1>1 DEF Busy
<1>4. Counters' /\ TrailHasNoGap'
  BY <1>1, <1>2, <1>3 DEF BiddingInv, Counters, TrailHasNoGap
<1>5. \A c \in Busy' : CallInv(c)'
  BY <1>1, <1>2, <1>3 DEF BiddingInv, CallInv, Counted
<1> QED BY <1>2, <1>4, <1>5 DEF BiddingInv

\* Every step keeps the invariant.
LEMMA BiddingStep ==
    ASSUME BiddingInv, [BiddingNext]_biddingVars PROVE BiddingInv'
BY BeginInv, FindSuppliersInv, FinishInv, FailInv, QuoteInv, RestartInv, BiddingStays
   DEF BiddingNext

\* The inductive invariant of the dry runs holds of every behaviour.
THEOREM BiddingInvariant == BiddingSpec => []BiddingInv
<1>1. BiddingInit => BiddingInv
  BY InitInv
<1>2. BiddingInv /\ [BiddingNext]_biddingVars => BiddingInv'
  BY BiddingStep
<1> QED BY <1>1, <1>2, PTL DEF BiddingSpec

\* Every kept round is within the bound, and no bid is by a stranger.
THEOREM BiddingTypes == BiddingSpec => []BiddingTypeOK
<1>1. BiddingInv => BiddingTypeOK
  <2> SUFFICES ASSUME BiddingInv PROVE BiddingTypeOK
    OBVIOUS
  <2>1. Counters /\ \A b \in trail : Played(b)
    BY DEF BiddingInv
  <2>2. extra.round \in 0..MaxRuns /\ extra.seed \in Nat
    BY <2>1, RunsType, FS_CardinalityType, BiddingAssumption DEF Counters
  <2>3. extra = [round |-> extra.round, seed |-> extra.seed]
    BY <2>1 DEF Counters
  <2>4. extra \in [round : 0..MaxRuns, seed : Nat]
    BY <2>2, <2>3
  <2> QED BY <2>1, <2>4 DEF BiddingTypeOK, Counters, Requests, Played
<1> QED BY <1>1, BiddingInvariant, PTL

\* However runs overlap, the trail has every round up to the stored one.
THEOREM TrailIsWhole == BiddingSpec => []TrailHasNoGap
<1>1. BiddingInv => TrailHasNoGap
  BY DEF BiddingInv
<1> QED BY <1>1, BiddingInvariant, PTL

\* A round replayed with its seed and terms gets the same bids.
THEOREM ReplayIsFaithful == BiddingSpec => []ReplayAgrees
<1>1. BiddingInv => ReplayAgrees
  BY DEF BiddingInv, Pairs, Agree, ReplayAgrees
<1> QED BY <1>1, BiddingInvariant, PTL

\* A counter-offer caps every bid and never makes one worse.
THEOREM CounterOfferSqueezes == BiddingSpec => []SqueezeHolds
<1>1. BiddingInv => SqueezeHolds
  BY DEF BiddingInv, Pairs, Squeezed, Undercuts, SqueezeHolds
<1> QED BY <1>1, BiddingInvariant, PTL

-----------------------------------------------------------------------------
(* Access: tokens *)

\* A token is what the tables say of its user, whom they know.
Current(t) == \E u \in Users : t = Token(u) /\ account[u] # "none"

AccessInv ==
    /\ account \in Accounts
    /\ granted \in BOOLEAN
    /\ \A u \in Users : account[u] = "full" => granted
    /\ cookie = Nobody \/ Current(cookie)
    /\ DOMAIN view = {"token", "from", "seen", "offset", "ended"}
    /\ view.token = Nobody \/ Current(view.token)

\* A step keeps tokens current when it keeps the accounts that exist, and when
\* grants appear only while no account has a role.
LEMMA TokenStays ==
    ASSUME NEW u \in Users, account[u] # "none",
           account'[u] = account[u],
           granted' = granted \/ account[u] # "full"
    PROVE  Token(u)' = Token(u)
<1>1. RolesOf(u)' = RolesOf(u)
  BY DEF RolesOf
<1>2. PermissionsOf(u)' = PermissionsOf(u)
  <2>1. CASE account[u] = "full"
    <3>1. Matrix' = Matrix
      BY <2>1 DEF Matrix, GrantsOf
    <3> QED BY <1>1, <3>1 DEF PermissionsOf
  <2>2. CASE account[u] # "full"
    <3>1. RolesOf(u) = {}
      BY <2>2 DEF RolesOf
    <3> QED BY <1>1, <3>1 DEF PermissionsOf
  <2> QED BY <2>1, <2>2
<1> QED BY <1>1, <1>2 DEF Token

\* The same of every token that is current.
LEMMA CurrentStays ==
    ASSUME NEW t, Current(t),
           \A u \in Users : account[u] # "none" =>
             account'[u] = account[u] /\ (granted' = granted \/ account[u] # "full")
    PROVE  Current(t)'
<1>1. PICK u \in Users : t = Token(u) /\ account[u] # "none"
  BY DEF Current
<1>2. Token(u)' = Token(u) /\ account'[u] # "none"
  BY <1>1, TokenStays
<1> QED BY <1>1, <1>2 DEF Current

\* Every step keeps tokens current.
LEMMA AccessStep ==
    ASSUME AccessInv, [AccessNext]_accessVars PROVE AccessInv'
<1>1. CASE SeedGrants
  <2>1. \A t : Current(t) => Current(t)'
    BY <1>1, CurrentStays DEF SeedGrants, AccessInv
  <2> QED BY <1>1, <2>1 DEF SeedGrants, AccessInv
<1>2. ASSUME NEW u \in Users, AddAccount(u) PROVE AccessInv'
  <2>1. \A w \in Users : account[w] # "none" => account'[w] = account[w]
    BY <1>2 DEF AddAccount, AccessInv, Accounts
  <2>2. \A t : Current(t) => Current(t)'
    BY <1>2, <2>1, CurrentStays DEF AddAccount
  <2> QED BY <1>2, <2>2 DEF AddAccount, AccessInv, Accounts
<1>3. ASSUME NEW u \in Users, SignIn(u) PROVE AccessInv'
  <2>1. \A t : Current(t) => Current(t)'
    BY <1>3, CurrentStays DEF SignIn
  <2>2. Current(Token(u))
    BY <1>3 DEF SignIn, Current
  <2> QED BY <1>3, <2>1, <2>2 DEF SignIn, AccessInv
<1>4. ASSUME UNCHANGED <<granted, account, cookie>>,
             view' = view \/ view'.token \in {cookie, view.token},
             DOMAIN view' = {"token", "from", "seen", "offset", "ended"}
      PROVE  AccessInv'
  <2>1. \A t : Current(t) => Current(t)'
    BY <1>4, CurrentStays
  <2> QED BY <1>4, <2>1 DEF AccessInv
<1>5. CASE \E v \in Vessels : CreateRFQ(v)
  BY <1>4, <1>5 DEF CreateRFQ, AccessInv
<1>6. CASE ReadFirst
  BY <1>4, <1>6 DEF ReadFirst
<1>7. CASE ReadNext
  <2> DEFINE seen == view.seen \cup Page(cookie, view.offset)
             offset == view.offset + PageSize
             ended == Cardinality(Page(cookie, view.offset)) < PageSize
  <2>1. view' = [view EXCEPT !.seen = seen, !.offset = offset, !.ended = ended]
    BY <1>7 DEF ReadNext
  <2> HIDE DEF seen, offset, ended
  <2>2. DOMAIN view' = DOMAIN view /\ view'.token = view.token
    BY <2>1 DEF AccessInv
  <2> QED BY <1>4, <1>7, <2>2 DEF ReadNext, AccessInv
<1>8. CASE UNCHANGED accessVars
  BY <1>4, <1>8 DEF accessVars, AccessInv
<1> QED BY <1>1, <1>2, <1>3, <1>5, <1>6, <1>7, <1>8 DEF AccessNext

\* A token never contradicts the tables, and so the two halves of the permissions
\* page agree (auth.py _token_pair, permissions.py).
THEOREM TokensAgree == AccessSpec => []TokenIsTheTables
<1>1. AccessInit => AccessInv
  <2> SUFFICES ASSUME AccessInit PROVE AccessInv
    OBVIOUS
  <2>1. account \in Accounts /\ \A u \in Users : account[u] # "full"
    BY DEF AccessInit, Accounts
  <2>2. view.token = Nobody /\ DOMAIN view = {"token", "from", "seen", "offset", "ended"}
    BY DEF AccessInit, NoList
  <2> QED BY <2>1, <2>2 DEF AccessInit, AccessInv
<1>2. AccessInv /\ [AccessNext]_accessVars => AccessInv'
  BY AccessStep
<1>3. AccessInv => TokenIsTheTables
  <2> SUFFICES ASSUME AccessInv, NEW t \in {cookie, view.token} \ {Nobody}
               PROVE  MyPermissions(t) = MyPermissions(Token(t.user))
    BY DEF TokenIsTheTables
  <2>1. PICK u \in Users : t = Token(u)
    BY DEF AccessInv, Current
  <2>2. t.user = u
    BY <2>1 DEF Token
  <2> QED BY <2>1, <2>2
<1> QED BY <1>1, <1>2, <1>3, PTL DEF AccessSpec

-----------------------------------------------------------------------------
(* Access: the list, page by page *)

\* Where a page stands: what it has seen is of the caller's list, nothing of the
\* first `offset` rows is missing, and at the end nothing at all.
ViewInv ==
    /\ rfqs \in Seq(Vessels)
    /\ view.from \in 0..Len(rfqs)
    /\ view.offset \in Nat
    /\ view.seen \subseteq Listed(view.token)
    /\ view.seen # {} => CanList(view.token)
    /\ \A k \in Listed(view.token) \cap 1..view.from :
         view.ended \/ RowsAhead(view.token, k) < view.offset => k \in view.seen

\* The list is finite, and a row is named by its place in rfqs.
LEMMA ListedFinite ==
    ASSUME NEW t, rfqs \in Seq(Vessels)
    PROVE  /\ Len(rfqs) \in Nat /\ DOMAIN rfqs = 1..Len(rfqs)
           /\ Listed(t) \subseteq 1..Len(rfqs)
           /\ \A T \in SUBSET Listed(t) : IsFiniteSet(T) /\ Cardinality(T) \in Nat
<1>1. Len(rfqs) \in Nat /\ DOMAIN rfqs = 1..Len(rfqs)
  BY LenProperties
<1>2. Listed(t) \subseteq 1..Len(rfqs)
  BY <1>1 DEF Listed
<1>3. IsFiniteSet(1..Len(rfqs))
  BY <1>1, FS_Interval
<1>4. ASSUME NEW T \in SUBSET Listed(t) PROVE IsFiniteSet(T) /\ Cardinality(T) \in Nat
  BY <1>2, <1>3, FS_Subset, FS_CardinalityType
<1> QED BY <1>1, <1>2, <1>4

\* Every place before a row's own is some row's place.
LEMMA PlacesFilled ==
    ASSUME NEW t, rfqs \in Seq(Vessels), NEW k \in Listed(t), NEW p \in Nat,
           p < RowsAhead(t, k)
    PROVE  \E j \in Listed(t) : RowsAhead(t, j) = p
<1> DEFINE Early == {j \in Listed(t) : RowsAhead(t, j) <= p}
<1>1. /\ Len(rfqs) \in Nat /\ Listed(t) \subseteq 1..Len(rfqs)
      /\ \A T \in SUBSET Listed(t) : IsFiniteSet(T) /\ Cardinality(T) \in Nat
  BY ListedFinite
<1>2. \A j \in Listed(t) : RowsAhead(t, j) \in Nat
  BY <1>1 DEF RowsAhead
<1>3. Early # {}
  <2>1. PICK newest \in Listed(t) : \A j \in Listed(t) : j <= newest
    <3>1. Listed(t) \subseteq 0..Len(rfqs)
      BY <1>1
    <3> QED BY <1>1, <3>1, GreatestNumber
  <2>2. {j \in Listed(t) : j > newest} = {}
    BY <2>1, <1>1
  <2>3. RowsAhead(t, newest) = 0
    BY <2>2, FS_EmptySet DEF RowsAhead
  <2> QED BY <2>1, <2>3
<1>4. PICK oldest \in Early : \A j \in Early : oldest <= j
  <2>1. Early \subseteq Nat
    BY <1>1
  <2> HIDE DEF Early
  <2> QED BY <1>3, <2>1, LeastNumber
<1>5. CASE RowsAhead(t, oldest) = p
  BY <1>5
<1>6. CASE RowsAhead(t, oldest) < p
  <2> DEFINE Older == {j \in Listed(t) : j < oldest}
  <2>1. k \in Older
    <3>1. k \in 1..Len(rfqs) /\ oldest \in 1..Len(rfqs)
      BY <1>1
    <3>2. ~(oldest <= k)
      <4> SUFFICES ASSUME oldest <= k PROVE FALSE
        OBVIOUS
      <4>1. {j \in Listed(t) : j > k} \subseteq {j \in Listed(t) : j > oldest}
        BY <3>1, <1>1
      <4>2. RowsAhead(t, k) <= RowsAhead(t, oldest)
        BY <4>1, <1>1, FS_Subset DEF RowsAhead
      <4> QED BY <4>2, <1>2, <1>6
    <3> QED BY <3>1, <3>2
  <2>2. PICK next \in Older : \A j \in Older : j <= next
    <3>1. Older \subseteq 0..Len(rfqs)
      BY <1>1
    <3> HIDE DEF Older
    <3> QED BY <1>1, <2>1, <3>1, GreatestNumber
  <2> DEFINE Newer(n) == {j \in Listed(t) : j > n}
  <2>3. Newer(next) = Newer(oldest) \cup {oldest}
    <3>1. \A j \in Listed(t) : j > next <=> j > oldest \/ j = oldest
      BY <2>2, <1>1
    <3> QED BY <3>1
  <2>4. RowsAhead(t, next) = RowsAhead(t, oldest) + 1
    <3>1. oldest \notin Newer(oldest)
      BY <1>1
    <3>2. IsFiniteSet(Newer(oldest))
      BY <1>1
    <3>3. Cardinality(Newer(oldest) \cup {oldest}) = Cardinality(Newer(oldest)) + 1
      <4> HIDE DEF Newer
      <4> QED BY <3>1, <3>2, FS_AddElement
    <3> QED BY <2>3, <3>3 DEF RowsAhead
  <2>5. next \in Early
    BY <2>4, <1>2, <1>6
  <2> QED BY <2>2, <2>5, <1>1, <1>4
<1> QED BY <1>2, <1>4, <1>5, <1>6

\* A page that is not full is the last one.
LEMMA ShortPageIsLast ==
    ASSUME NEW t, rfqs \in Seq(Vessels), NEW offset \in Nat,
           Cardinality(Page(t, offset)) < PageSize, NEW k \in Listed(t)
    PROVE  RowsAhead(t, k) < offset + PageSize
<1> SUFFICES ASSUME ~(RowsAhead(t, k) < offset + PageSize) PROVE FALSE
  OBVIOUS
<1> DEFINE places == offset..(offset + PageSize - 1)
           rows == Page(t, offset)
           place == [j \in rows |-> RowsAhead(t, j)]
<1>1. PageSize \in Nat \ {0}
  BY AccessAssumption
<1>2. rows \subseteq Listed(t) /\ IsFiniteSet(rows) /\ Cardinality(rows) \in Nat
  BY ListedFinite DEF Page
<1>3. RowsAhead(t, k) \in Nat
  BY ListedFinite DEF RowsAhead
<1>4. place \in Surjection(rows, places)
  <2>1. \A j \in rows : RowsAhead(t, j) \in places
    BY DEF Page
  <2>2. ASSUME NEW p \in places PROVE \E j \in rows : place[j] = p
    <3>1. p \in Nat /\ p < RowsAhead(t, k)
      BY <1>1, <1>3
    <3>2. PICK j \in Listed(t) : RowsAhead(t, j) = p
      BY <3>1, PlacesFilled
    <3>3. j \in rows
      BY <3>2 DEF Page
    <3> QED BY <3>2, <3>3
  <2> HIDE DEF rows, places
  <2> QED BY <2>1, <2>2 DEF Surjection
<1>5. Cardinality(places) <= Cardinality(rows)
  <2> HIDE DEF rows, places, place
  <2> QED BY <1>2, <1>4, FS_Surjection
<1>6. Cardinality(places) = PageSize
  <2>1. offset \in Int /\ offset + PageSize - 1 \in Int
    BY <1>1
  <2>2. Cardinality(places) = (offset + PageSize - 1) - offset + 1
    BY <1>1, <2>1, FS_Interval
  <2> QED BY <1>1, <2>2
<1> QED BY <1>1, <1>2, <1>5, <1>6

\* A row is listed for a caller as long as it exists, and only gets older.
LEMMA ListGrows ==
    ASSUME NEW t, rfqs \in Seq(Vessels), NEW v \in Vessels, rfqs' = Append(rfqs, v)
    PROVE  /\ rfqs' \in Seq(Vessels) /\ Len(rfqs') = Len(rfqs) + 1
           /\ \A k \in 1..Len(rfqs) : k \in Listed(t) <=> k \in Listed(t)'
           /\ \A k \in Listed(t) : RowsAhead(t, k) <= RowsAhead(t, k)'
<1>1. /\ Len(rfqs) \in Nat /\ rfqs' \in Seq(Vessels) /\ Len(rfqs') = Len(rfqs) + 1
      /\ \A k \in 1..Len(rfqs) : rfqs'[k] = rfqs[k]
  BY LenProperties, AppendProperties
<1>2. DOMAIN rfqs = 1..Len(rfqs) /\ DOMAIN rfqs' = 1..(Len(rfqs) + 1)
  BY <1>1, LenProperties
<1>3. \A k \in 1..Len(rfqs) : k \in Listed(t) <=> k \in Listed(t)'
  <2> SUFFICES ASSUME NEW k \in 1..Len(rfqs) PROVE k \in Listed(t) <=> k \in Listed(t)'
    OBVIOUS
  <2>1. k \in DOMAIN rfqs /\ k \in DOMAIN rfqs' /\ rfqs'[k] = rfqs[k]
    BY <1>1, <1>2
  <2> QED BY <2>1 DEF Listed, InList
<1>4. Listed(t) \subseteq Listed(t)'
  BY <1>2, <1>3 DEF Listed
<1>5. ASSUME NEW k \in Listed(t) PROVE RowsAhead(t, k) <= RowsAhead(t, k)'
  <2> DEFINE before == {j \in Listed(t) : j > k}
             after == {j \in Listed(t)' : j > k}
  <2>1. before \subseteq after
    BY <1>4
  <2>2. IsFiniteSet(after)
    <3>1. after \subseteq 1..(Len(rfqs) + 1)
      BY <1>2 DEF Listed
    <3>2. IsFiniteSet(1..(Len(rfqs) + 1))
      BY <1>1, FS_Interval
    <3> HIDE DEF after
    <3> QED BY <3>1, <3>2, FS_Subset
  <2>3. Cardinality(before) <= Cardinality(after)
    <3> HIDE DEF before, after
    <3> QED BY <2>1, <2>2, FS_Subset
  <2> QED BY <2>3 DEF RowsAhead
<1> QED BY <1>1, <1>3, <1>5

\* What a page has read stays what it was while no RFQ comes.
LEMMA ViewStays ==
    ASSUME ViewInv, UNCHANGED <<rfqs, view>> PROVE ViewInv'
BY DEF ViewInv, Listed, InList, RowsAhead

\* One more page, or the first one.
LEMMA PageRead ==
    ASSUME NEW t, NEW offset \in Nat, NEW seen, NEW from \in 0..Len(rfqs),
           rfqs \in Seq(Vessels), rfqs' = rfqs, CanList(t),
           seen \subseteq Listed(t),
           \A k \in Listed(t) \cap 1..from : RowsAhead(t, k) < offset => k \in seen,
           view'.token = t, view'.from = from, view'.offset = offset + PageSize,
           view'.seen = seen \cup Page(t, offset),
           view'.ended = (Cardinality(Page(t, offset)) < PageSize)
    PROVE  ViewInv'
<1>1. /\ Listed(t)' = Listed(t)
      /\ \A k : RowsAhead(t, k)' = RowsAhead(t, k)
  BY DEF Listed, InList, RowsAhead
<1>2. view'.seen \subseteq Listed(t)
  BY DEF Page
<1>3. ASSUME NEW k \in Listed(t) \cap 1..from,
             view'.ended \/ RowsAhead(t, k) < view'.offset
      PROVE  k \in view'.seen
  <2>1. PageSize \in Nat \ {0}
    BY AccessAssumption
  <2>2. RowsAhead(t, k) < offset + PageSize
    BY <1>3, ShortPageIsLast
  <2>3. RowsAhead(t, k) \in Nat
    BY ListedFinite DEF RowsAhead
  <2>4. CASE RowsAhead(t, k) < offset
    BY <2>4
  <2>5. CASE ~(RowsAhead(t, k) < offset)
    <3>1. RowsAhead(t, k) \in offset..(offset + PageSize - 1)
      BY <2>1, <2>2, <2>3, <2>5
    <3> QED BY <3>1 DEF Page
  <2> QED BY <2>4, <2>5
<1>4. CanList(t)'
  BY DEF CanList, HasPermission
<1>5. offset + PageSize \in Nat
  BY AccessAssumption
<1>6. RowsAhead(t, 0)' = RowsAhead(t, 0)
  BY <1>1
<1> QED BY <1>1, <1>2, <1>3, <1>4, <1>5 DEF ViewInv, Listed, InList, RowsAhead

\* Every step keeps what a page has read right.
LEMMA ViewStep ==
    ASSUME AccessInv, ViewInv, [AccessNext]_accessVars PROVE ViewInv'
<1>1. ASSUME UNCHANGED <<rfqs, view>> PROVE ViewInv'
  BY <1>1, ViewStays
<1>2. CASE SeedGrants
  BY <1>1, <1>2 DEF SeedGrants
<1>3. CASE \E u \in Users : AddAccount(u) \/ SignIn(u)
  BY <1>1, <1>3 DEF AddAccount, SignIn
<1>4. ASSUME NEW v \in Vessels, CreateRFQ(v) PROVE ViewInv'
  <2>1. rfqs' = Append(rfqs, v) /\ view' = view
    BY <1>4 DEF CreateRFQ
  <2>9. PICK t : t = view.token
    OBVIOUS
  <2>2. /\ rfqs' \in Seq(Vessels) /\ Len(rfqs') = Len(rfqs) + 1
        /\ \A k \in 1..Len(rfqs) : k \in Listed(t) <=> k \in Listed(t)'
        /\ \A k \in Listed(t) : RowsAhead(t, k) <= RowsAhead(t, k)'
    BY <2>1, <2>9, ListGrows DEF ViewInv
  <2>3. Len(rfqs) \in Nat /\ Listed(t) \subseteq 1..Len(rfqs)
    BY <2>9, ListedFinite DEF ViewInv
  <2>4. \A k \in Listed(t) : RowsAhead(t, k) \in Nat /\ RowsAhead(t, k)' \in Nat
    <3>1. \A k \in Listed(t) : RowsAhead(t, k) \in Nat
      BY ListedFinite DEF ViewInv, RowsAhead
    <3>2. \A k \in Listed(t) : RowsAhead(t, k)' \in Nat
      <4> DEFINE after(k) == {j \in Listed(t)' : j > k}
      <4>1. IsFiniteSet(Listed(t)')
        <5>1. Listed(t)' \subseteq 1..Len(rfqs')
          BY <2>2, LenProperties DEF Listed
        <5>2. IsFiniteSet(1..Len(rfqs'))
          BY <2>2, <2>3, FS_Interval
        <5> QED BY <5>1, <5>2, FS_Subset
      <4>2. \A k \in Listed(t) : Cardinality(after(k)) \in Nat
        BY <4>1, FS_Subset, FS_CardinalityType
      <4> QED BY <4>2, <2>1 DEF RowsAhead
    <3> QED BY <3>1, <3>2
  <2>5. view.from \in 0..Len(rfqs) /\ view.offset \in Nat
    BY DEF ViewInv
  <2>6. ASSUME NEW k \in Listed(t)' \cap 1..view.from,
               view.ended \/ RowsAhead(t, k)' < view.offset
        PROVE  k \in view.seen
    <3>1. k \in 1..Len(rfqs)
      BY <2>3, <2>5
    <3>2. k \in Listed(t)
      BY <2>2, <3>1
    <3>3. view.ended \/ RowsAhead(t, k) < view.offset
      BY <2>2, <2>4, <2>5, <2>6, <3>2
    <3> QED BY <2>9, <3>2, <3>3 DEF ViewInv
  <2>7. view.seen \subseteq Listed(t)'
    BY <2>2, <2>3, <2>9 DEF ViewInv
  <2>8. view.seen # {} => CanList(view.token)
    BY DEF ViewInv
  <2>10. view'.token = t
    BY <2>1, <2>9
  <2>11. Listed(view.token)' = Listed(t)'
    BY <2>10 DEF Listed, InList
  <2>12. \A k : RowsAhead(view.token, k)' = RowsAhead(t, k)'
    BY <2>10 DEF RowsAhead, Listed, InList
  <2>13. CanList(view.token)' = CanList(view.token)
    BY <2>1 DEF CanList, HasPermission
  <2> QED BY <2>1, <2>2, <2>3, <2>5, <2>6, <2>7, <2>8, <2>11, <2>12, <2>13 DEF ViewInv
<1>5. CASE ReadFirst
  <2> DEFINE nothing == {}
             start == 0
  <2>1. /\ CanList(cookie) /\ rfqs' = rfqs
        /\ view'.token = cookie /\ view'.from = Len(rfqs)
        /\ view'.seen = nothing \cup Page(cookie, start)
        /\ view'.offset = start + PageSize
        /\ view'.ended = (Cardinality(Page(cookie, start)) < PageSize)
    BY <1>5, AccessAssumption DEF ReadFirst
  <2>2. rfqs \in Seq(Vessels) /\ Len(rfqs) \in 0..Len(rfqs)
    BY LenProperties DEF ViewInv
  <2>3. \A k \in Listed(cookie) \cap 1..Len(rfqs) : ~(RowsAhead(cookie, k) < start)
    <3>1. \A k : RowsAhead(cookie, k) \in Nat
      BY <2>2, ListedFinite DEF RowsAhead
    <3> QED BY <3>1
  <2>4. nothing \subseteq Listed(cookie) /\ start \in Nat
    OBVIOUS
  <2> HIDE DEF nothing, start
  <2> QED BY <2>1, <2>2, <2>3, <2>4, PageRead
<1>6. CASE ReadNext
  <2> DEFINE ended == Cardinality(Page(cookie, view.offset)) < PageSize
             seen == view.seen \cup Page(cookie, view.offset)
             offset == view.offset + PageSize
  <2>1. /\ view' = [view EXCEPT !.seen = seen, !.offset = offset, !.ended = ended]
        /\ CanList(cookie) /\ view.token = cookie /\ ~view.ended /\ rfqs' = rfqs
    BY <1>6 DEF ReadNext
  <2> HIDE DEF seen, offset, ended
  <2>2. /\ view'.token = cookie /\ view'.from = view.from
        /\ view'.seen = seen /\ view'.offset = offset /\ view'.ended = ended
    BY <2>1 DEF AccessInv
  <2>3. /\ rfqs \in Seq(Vessels) /\ view.offset \in Nat /\ view.from \in 0..Len(rfqs)
        /\ view.seen \subseteq Listed(cookie)
        /\ \A k \in Listed(cookie) \cap 1..view.from :
             RowsAhead(cookie, k) < view.offset => k \in view.seen
    BY <2>1 DEF ViewInv
  <2> QED BY <2>1, <2>2, <2>3, PageRead DEF seen, offset, ended
<1>7. CASE UNCHANGED accessVars
  BY <1>1, <1>7 DEF accessVars
<1> QED BY <1>2, <1>3, <1>4, <1>5, <1>6, <1>7 DEF AccessNext

\* Lists are what the single routes open, whatever is created between two pages.
THEOREM AccessHolds == AccessSpec => [](AccessInv /\ ViewInv)
<1>1. AccessInit => AccessInv /\ ViewInv
  <2> SUFFICES ASSUME AccessInit PROVE AccessInv /\ ViewInv
    OBVIOUS
  <2>1. AccessInv
    <3>1. account \in Accounts /\ \A u \in Users : account[u] # "full"
      BY DEF AccessInit, Accounts
    <3>2. view.token = Nobody /\ DOMAIN view = {"token", "from", "seen", "offset", "ended"}
      BY DEF AccessInit, NoList
    <3> QED BY <3>1, <3>2 DEF AccessInit, AccessInv
  <2>2. rfqs = << >> /\ rfqs \in Seq(Vessels) /\ Len(rfqs) = 0
    BY EmptySeq DEF AccessInit
  <2>3. view.from = 0 /\ view.offset = 0 /\ view.seen = {}
    BY DEF AccessInit, NoList
  <2> QED BY <2>1, <2>2, <2>3 DEF ViewInv
<1>2. AccessInv /\ ViewInv /\ [AccessNext]_accessVars => (AccessInv /\ ViewInv)'
  BY AccessStep, ViewStep
<1> QED BY <1>1, <1>2, PTL DEF AccessSpec

\* Types of grants, accounts, tokens and lists.
LEMMA AccessTypes ==
    ASSUME AccessInv, ViewInv PROVE AccessTypeOK
<1>1. Matrix \in Grants
  <2>1. \A r \in Roles : GrantsOf(r) \subseteq Permissions
    BY DEF GrantsOf, Roles, Permissions
  <2> QED BY <2>1 DEF Matrix, Grants
<1>2. ASSUME cookie # Nobody
      PROVE  cookie \in Tokens /\ account[cookie.user] # "none"
  <2>1. PICK u \in Users : cookie = Token(u) /\ account[u] # "none"
    BY <1>2 DEF AccessInv, Current
  <2>2. RolesOf(u) \subseteq Roles /\ Staff[u].vessel \in Vessels \cup {Ashore}
    BY AccessAssumption DEF RolesOf, Users
  <2>3. PermissionsOf(u) \subseteq Permissions
    BY <1>1, <2>2 DEF PermissionsOf, Grants
  <2> QED BY <2>1, <2>2, <2>3 DEF Token, Tokens
<1>3. view.seen \subseteq DOMAIN rfqs
  BY DEF ViewInv, Listed
<1> QED BY <1>1, <1>2, <1>3 DEF AccessTypeOK, AccessInv, ViewInv

\* Page after page, a caller sees every RFQ it may open, and may open every RFQ
\* it sees (list_rfqs and get_rfq).
THEOREM ListShowsWhatOpens == AccessSpec => []ListIsWhatOpens
<1>1. ViewInv => ListedOpens
  <2> SUFFICES ASSUME ViewInv, NEW k \in view.seen PROVE Opens(view.token, k)
    BY DEF ListedOpens
  <2>1. InList(view.token, rfqs[k]) /\ CanList(view.token)
    BY DEF ViewInv, Listed
  <2> QED BY <2>1 DEF InList, CanList, Opens, HasVesselAccess
<1>2. ViewInv => PagesMissNothing
  <2> SUFFICES ASSUME ViewInv, view.ended, NEW k \in 1..view.from, Opens(view.token, k)
               PROVE  k \in view.seen
    BY DEF PagesMissNothing
  <2>1. k \in DOMAIN rfqs
    <3>1. Len(rfqs) \in Nat /\ DOMAIN rfqs = 1..Len(rfqs) /\ view.from \in 0..Len(rfqs)
      BY LenProperties DEF ViewInv
    <3> QED BY <3>1
  <2>2. InList(view.token, rfqs[k])
    BY DEF Opens, HasVesselAccess, InList
  <2>3. k \in Listed(view.token)
    BY <2>1, <2>2 DEF Listed
  <2> QED BY <2>3 DEF ViewInv
<1> QED BY <1>1, <1>2, AccessHolds, PTL DEF ListIsWhatOpens

-----------------------------------------------------------------------------
(* Customs: what is stored and what is answered *)

\* What POST /orders stores on a day, and what the page then answers.
Stored(lines, day) ==
    LET issues == Evaluate(lines, day, {})
    IN  [lines |-> lines, day |-> day, warnings |-> issues,
         clearance |-> issues = Unavailable \/ Blocking(issues) \/ issues # {}]

Answered(lines, day) == [day |-> day, issues |-> Evaluate(lines, day, {"category"})]

\* An order is what its creation stored and its page what the engine said of it
\* on a day since.
OrderInv(o) ==
    /\ saved[o] # NotCreated =>
         \E lines \in SUBSET Lines : \E day \in 0..today : saved[o] = Stored(lines, day)
    /\ Asked(o) =>
         /\ saved[o] # NotCreated
         /\ \E day \in saved[o].day..today : page[o] = Answered(saved[o].lines, day)

CustomsInv ==
    /\ today \in Days
    /\ saved \in [Orders -> {saved[o] : o \in Orders}]
    /\ page \in [Orders -> {page[o] : o \in Orders}]
    /\ \A o \in Orders : OrderInv(o)

-----------------------------------------------------------------------------
(* Customs: the engine *)

\* The preflight only answers for orders without products, and of those the page
\* says the same on any day: the rules about whole orders that are in force then.
LEMMA ClearedLines ==
    ASSUME NEW lines \in SUBSET Lines, NEW day, NEW seen,
           Evaluate(lines, day, {}) # Unavailable, Evaluate(lines, day, {}) = {}
    PROVE  /\ Evaluate(lines, seen, {"category"}) # Unavailable
           /\ \A i \in Evaluate(lines, seen, {"category"}) : ~Active(i.rule, day)
<1>1. ~Raises(lines, day, {})
  BY DEF Evaluate
<1>2. lines \cap Products = {}
  BY <1>1 DEF Raises
<1>3. ~Raises(lines, seen, {"category"})
  BY <1>2 DEF Raises
<1>4. \A r : PortMatches(r, lines) = {} /\ CountryMatches(r, lines) = {}
  BY <1>2 DEF PortMatches, CountryMatches
<1>5. Evaluate(lines, seen, {"category"}) = PortIssues(lines, seen)
  BY <1>3, <1>4 DEF Evaluate, CountryIssues
<1>6. ASSUME NEW i \in PortIssues(lines, seen)
      PROVE  i = [rule |-> i.rule, about |-> lines] /\ ~Active(i.rule, day)
  <2>1. PICK r \in PortRules : /\ i = [rule |-> r, about |-> lines]
                               /\ ~r.narrow
    BY <1>4, <1>6 DEF PortIssues
  <2>2. i = [rule |-> i.rule, about |-> lines]
    BY <2>1
  <2>3. ASSUME Active(r, day) PROVE FALSE
    <3>1. [rule |-> r, about |-> lines] \in PortIssues(lines, day)
      BY <1>4, <2>1, <2>3 DEF PortIssues
    <3>2. PortIssues(lines, day) \subseteq {}
      BY <1>1 DEF Evaluate
    <3> QED BY <3>1, <3>2
  <2> QED BY <2>1, <2>2, <2>3
<1>7. PortIssues(lines, seen) # Unavailable
  <2>1. \A r : [rule |-> r, about |-> lines] # [error |-> "Regulation engine unavailable"]
    <3>1. \A r : DOMAIN [rule |-> r, about |-> lines] = {"rule", "about"}
      OBVIOUS
    <3>2. DOMAIN [error |-> "Regulation engine unavailable"] = {"error"}
      OBVIOUS
    <3> QED BY <3>1, <3>2
  <2> QED BY <1>6, <2>1 DEF Unavailable
<1> QED BY <1>5, <1>6, <1>7

\* More lines are matched by whatever matched fewer.
LEMMA MatchesGrow ==
    ASSUME NEW r, NEW few, NEW many, few \subseteq many
    PROVE  /\ PortMatches(r, few) \subseteq PortMatches(r, many)
           /\ CountryMatches(r, few) \subseteq CountryMatches(r, many)
BY DEF PortMatches, CountryMatches

\* The rules an answer names.
PortRulesNamed(lines, day) ==
    {q \in PortRules : Active(q, day) /\ (PortMatches(q, lines) # {} \/ ~q.narrow)}

CountryRulesNamed(lines, day) ==
    {q \in CountryRules : Active(q, day) /\ CountryMatches(q, lines) # {}}

\* And they are the rules of its issues.
LEMMA RulesNamed ==
    ASSUME NEW lines, NEW day, Evaluate(lines, day, {"category"}) # Unavailable
    PROVE  {i.rule : i \in Evaluate(lines, day, {"category"})} =
             PortRulesNamed(lines, day) \cup CountryRulesNamed(lines, day)
<1>1. Evaluate(lines, day, {"category"}) = PortIssues(lines, day) \cup CountryIssues(lines, day)
  BY DEF Evaluate
<1> DEFINE PI(r) == [rule |-> r,
                     about |-> IF PortMatches(r, lines) = {} THEN lines ELSE PortMatches(r, lines)]
           CI(r) == [rule |-> r, about |-> CountryMatches(r, lines)]
<1>2. /\ PortIssues(lines, day) = {PI(r) : r \in PortRulesNamed(lines, day)}
      /\ CountryIssues(lines, day) = {CI(r) : r \in CountryRulesNamed(lines, day)}
  BY DEF PortIssues, CountryIssues, PortRulesNamed, CountryRulesNamed
<1>3. \A r : PI(r).rule = r /\ CI(r).rule = r
  OBVIOUS
<1> HIDE DEF PI, CI
<1>4. {i.rule : i \in Evaluate(lines, day, {"category"})}
        \subseteq PortRulesNamed(lines, day) \cup CountryRulesNamed(lines, day)
  BY <1>1, <1>2, <1>3
<1>5. PortRulesNamed(lines, day) \cup CountryRulesNamed(lines, day)
        \subseteq {i.rule : i \in Evaluate(lines, day, {"category"})}
  <2>1. ASSUME NEW r \in PortRulesNamed(lines, day)
        PROVE  \E i \in Evaluate(lines, day, {"category"}) : r = i.rule
    <3>1. PI(r) \in Evaluate(lines, day, {"category"})
      BY <1>1, <1>2, <2>1
    <3> QED BY <1>3, <3>1
  <2>2. ASSUME NEW r \in CountryRulesNamed(lines, day)
        PROVE  \E i \in Evaluate(lines, day, {"category"}) : r = i.rule
    <3>1. CI(r) \in Evaluate(lines, day, {"category"})
      BY <1>1, <1>2, <2>2
    <3> QED BY <1>3, <3>1
  <2> QED BY <2>1, <2>2
<1> QED BY <1>4, <1>5

\* A line never hides a rule.
LEMMA RulesGrow ==
    ASSUME NEW few, NEW many, NEW day, few \subseteq many,
           Evaluate(few, day, {"category"}) # Unavailable,
           Evaluate(many, day, {"category"}) # Unavailable
    PROVE  {i.rule : i \in Evaluate(few, day, {"category"})}
             \subseteq {i.rule : i \in Evaluate(many, day, {"category"})}
<1>1. PortRulesNamed(few, day) \subseteq PortRulesNamed(many, day)
  BY MatchesGrow DEF PortRulesNamed
<1>2. CountryRulesNamed(few, day) \subseteq CountryRulesNamed(many, day)
  BY MatchesGrow DEF CountryRulesNamed
<1>3. /\ {i.rule : i \in Evaluate(few, day, {"category"})} =
           PortRulesNamed(few, day) \cup CountryRulesNamed(few, day)
      /\ {i.rule : i \in Evaluate(many, day, {"category"})} =
           PortRulesNamed(many, day) \cup CountryRulesNamed(many, day)
  BY RulesNamed
<1> QED BY <1>1, <1>2, <1>3

\* Issues name rules that exist and lines of the order.
LEMMA IssuesTyped ==
    ASSUME NEW lines, NEW day, NEW loaded, Evaluate(lines, day, loaded) # Unavailable,
           NEW i \in Evaluate(lines, day, loaded)
    PROVE  i.rule \in PortRules \cup CountryRules /\ i.about \subseteq lines
<1>1. i \in PortIssues(lines, day) \cup CountryIssues(lines, day)
  BY DEF Evaluate
<1>2. CASE i \in PortIssues(lines, day)
  BY <1>2 DEF PortIssues, PortMatches
<1>3. CASE i \in CountryIssues(lines, day)
  BY <1>3 DEF CountryIssues, CountryMatches
<1> QED BY <1>1, <1>2, <1>3

-----------------------------------------------------------------------------
(* Customs: the invariant *)

\* Every step keeps the orders and the pages.
LEMMA CustomsStep ==
    ASSUME CustomsInv, [CustomsNext]_customsVars
    PROVE  CustomsInv'
<1>1. ASSUME NEW o \in Orders, CreateOrder(o) PROVE CustomsInv'
  <2>1. PICK lines \in SUBSET Lines : saved' = [saved EXCEPT ![o] = Stored(lines, today)]
    BY <1>1 DEF CreateOrder, Stored
  <2>2. saved[o] = NotCreated /\ UNCHANGED <<today, page>>
    BY <1>1 DEF CreateOrder
  <2>3. today \in 0..today
    BY CustomsAssumption DEF CustomsInv, Days
  <2>4. ASSUME NEW q \in Orders PROVE OrderInv(q)'
    <3>1. CASE q = o
      BY <3>1, <2>1, <2>2, <2>3 DEF CustomsInv, OrderInv, Asked
    <3>2. CASE q # o
      BY <3>2, <2>1, <2>2 DEF CustomsInv, OrderInv, Asked
    <3> QED BY <3>1, <3>2
  <2> QED BY <2>1, <2>2, <2>4 DEF CustomsInv
<1>2. ASSUME NEW o \in Orders, EvaluateRoute(o) PROVE CustomsInv'
  <2>1. /\ saved[o] # NotCreated
        /\ page' = [page EXCEPT ![o] = Answered(saved[o].lines, today)]
        /\ UNCHANGED <<today, saved>>
    BY <1>2 DEF EvaluateRoute, Answered
  <2>2. PICK lines \in SUBSET Lines, day \in 0..today : saved[o] = Stored(lines, day)
    BY <2>1 DEF CustomsInv, OrderInv
  <2>3. today \in saved[o].day..today
    BY <2>2, CustomsAssumption DEF CustomsInv, Days, Stored
  <2>4. ASSUME NEW q \in Orders PROVE OrderInv(q)'
    <3>1. CASE q = o
      BY <3>1, <2>1, <2>3 DEF CustomsInv, OrderInv, Asked
    <3>2. CASE q # o
      BY <3>2, <2>1 DEF CustomsInv, OrderInv, Asked
    <3> QED BY <3>1, <3>2
  <2> QED BY <2>1, <2>4 DEF CustomsInv
<1>3. CASE NextDay
  <2>1. today' \in Days /\ today \in Nat /\ today' = today + 1 /\ UNCHANGED <<saved, page>>
    BY <1>3, CustomsAssumption DEF NextDay, CustomsInv, Days
  <2>2. ASSUME NEW q \in Orders PROVE OrderInv(q)'
    <3>1. /\ 0..today \subseteq 0..today'
          /\ Asked(q) => saved[q].day..today \subseteq saved[q].day..today'
      <4>1. Asked(q) => saved[q].day \in Nat
        BY <2>1, <2>2 DEF CustomsInv, OrderInv, Stored
      <4> QED BY <2>1, <4>1
    <3> QED BY <2>1, <3>1 DEF CustomsInv, OrderInv, Asked
  <2> QED BY <2>1, <2>2 DEF CustomsInv
<1>4. CASE UNCHANGED customsVars
  BY <1>4 DEF customsVars, CustomsInv, OrderInv, Asked
<1> QED BY <1>1, <1>2, <1>3, <1>4 DEF CustomsNext

\* Orders and pages are what the engine answered, whatever the rules and the days.
THEOREM CustomsHolds == CustomsSpec => []CustomsInv
<1>1. CustomsInit => CustomsInv
  BY CustomsAssumption DEF CustomsInit, CustomsInv, OrderInv, Asked, Days
<1>2. CustomsInv /\ [CustomsNext]_customsVars => CustomsInv'
  BY CustomsStep
<1> QED BY <1>1, <1>2, PTL DEF CustomsSpec

\* Types of the orders and of the answers: issues name rules and lines that exist.
THEOREM CustomsTypes == CustomsSpec => []CustomsTypeOK
<1>1. CustomsInv => CustomsTypeOK
  <2> SUFFICES ASSUME CustomsInv, NEW o \in Orders
               PROVE  /\ saved[o] # NotCreated =>
                           /\ saved[o].lines \subseteq Lines
                           /\ saved[o].day \in 0..today
                           /\ saved[o].warnings # Unavailable =>
                                \A i \in saved[o].warnings :
                                  /\ i.rule \in PortRules \cup CountryRules
                                  /\ i.about \subseteq saved[o].lines
                      /\ Asked(o) => saved[o] # NotCreated /\ page[o].day \in saved[o].day..today
    BY DEF CustomsTypeOK, CustomsInv
  <2>1. OrderInv(o)
    BY DEF CustomsInv
  <2>2. ASSUME saved[o] # NotCreated
        PROVE  /\ saved[o].lines \subseteq Lines
               /\ saved[o].day \in 0..today
               /\ saved[o].warnings # Unavailable =>
                    \A i \in saved[o].warnings :
                      /\ i.rule \in PortRules \cup CountryRules
                      /\ i.about \subseteq saved[o].lines
    <3>1. PICK lines \in SUBSET Lines, day \in 0..today : saved[o] = Stored(lines, day)
      BY <2>1, <2>2 DEF OrderInv
    <3>2. /\ saved[o].lines = lines /\ saved[o].day = day
          /\ saved[o].warnings = Evaluate(lines, day, {})
      BY <3>1 DEF Stored
    <3> QED BY <3>2, IssuesTyped
  <2>3. Asked(o) => saved[o] # NotCreated /\ page[o].day \in saved[o].day..today
    <3>1. \A lines, day : Answered(lines, day).day = day
      BY DEF Answered
    <3> QED BY <2>1, <3>1 DEF OrderInv
  <2> QED BY <2>2, <2>3
<1> QED BY <1>1, CustomsHolds, PTL

\* An order stored as needing no clearance was clear on its day, whatever its page
\* lists later (create_order, models/order.py and GET /customs/evaluate/{id}).
THEOREM UnflaggedWasClear == CustomsSpec => []UnflaggedIsClear
<1>1. CustomsInv => UnflaggedIsClear
  <2> SUFFICES ASSUME CustomsInv, NEW o \in Orders, Asked(o), ~saved[o].clearance
               PROVE  /\ page[o].issues # Unavailable
                      /\ \A i \in page[o].issues : ~Active(i.rule, saved[o].day)
    BY DEF UnflaggedIsClear
  <2>1. OrderInv(o)
    BY DEF CustomsInv
  <2>2. PICK lines \in SUBSET Lines, day \in 0..today : saved[o] = Stored(lines, day)
    BY <2>1 DEF OrderInv
  <2>3. PICK seen \in saved[o].day..today : page[o] = Answered(saved[o].lines, seen)
    BY <2>1 DEF OrderInv
  <2>4. /\ saved[o].lines = lines /\ saved[o].day = day
        /\ \/ Evaluate(lines, day, {}) = Unavailable
           \/ Blocking(Evaluate(lines, day, {}))
           \/ Evaluate(lines, day, {}) # {}
           => saved[o].clearance
    <3> DEFINE flag == \/ Evaluate(lines, day, {}) = Unavailable
                       \/ Blocking(Evaluate(lines, day, {}))
                       \/ Evaluate(lines, day, {}) # {}
    <3>1. saved[o] = [lines |-> lines, day |-> day,
                      warnings |-> Evaluate(lines, day, {}), clearance |-> flag]
      BY <2>2 DEF Stored
    <3> HIDE DEF flag
    <3>2. saved[o].lines = lines /\ saved[o].day = day /\ saved[o].clearance = flag
      BY <3>1
    <3> QED BY <3>2 DEF flag
  <2>5. page[o].issues = Evaluate(lines, seen, {"category"})
    BY <2>3, <2>4 DEF Answered
  <2>6. Evaluate(lines, day, {}) # Unavailable /\ Evaluate(lines, day, {}) = {}
    BY <2>4
  <2> QED BY <2>4, <2>5, <2>6, ClearedLines
<1> QED BY <1>1, CustomsHolds, PTL

\* Seen on the same day, an order that holds all lines of another one raises every
\* rule the other does (evaluate_order).
THEOREM LinesRaiseRules == CustomsSpec => []LinesOnlyAddIssues
<1>1. CustomsInv => LinesOnlyAddIssues
  <2> SUFFICES ASSUME CustomsInv, NEW o \in Orders, NEW q \in Orders,
                      Asked(o), Asked(q), page[o].day = page[q].day,
                      saved[o].lines \subseteq saved[q].lines,
                      page[o].issues # Unavailable, page[q].issues # Unavailable
               PROVE  {i.rule : i \in page[o].issues} \subseteq {i.rule : i \in page[q].issues}
    BY DEF LinesOnlyAddIssues
  <2>1. ASSUME NEW p \in {o, q}
        PROVE  page[p].issues = Evaluate(saved[p].lines, page[p].day, {"category"})
    BY <2>1 DEF CustomsInv, OrderInv, Answered
  <2> QED BY <2>1, RulesGrow
<1> QED BY <1>1, CustomsHolds, PTL

-----------------------------------------------------------------------------
(* Throttle: the window *)

LogEntries == [at : 0..LastMinute, served : BOOLEAN]

\* The requests among the first k that the k-th is counted with.
Within(history, k) ==
    {j \in 1..k : history[j].at >= history[k].at - Window}

\* The deque holds the times of the last requests, and what it dropped had left
\* the window.
Remembers(window, history) ==
    \E d \in 0..Len(history) :
      /\ window = [i \in 1..(Len(history) - d) |-> history[d + i].at]
      /\ \A j \in 1..d : history[j].at < minute - Window

AddressInv(a) ==
    /\ log[a] \in Seq(LogEntries)
    /\ \A k \in 1..Len(log[a]) : log[a][k].at <= minute
    /\ \A j, k \in 1..Len(log[a]) : j <= k => log[a][j].at <= log[a][k].at
    /\ Remembers(records[a], log[a])
    /\ \A k \in 1..Len(log[a]) :
         log[a][k].served <=> a \in Exempt \/ Cardinality(Within(log[a], k)) <= Limit

ThrottleInv ==
    /\ minute \in 0..LastMinute
    /\ records \in [Addresses -> {records[a] : a \in Addresses}]
    /\ log \in [Addresses -> {log[a] : a \in Addresses}]
    /\ \A a \in Addresses : AddressInv(a)

\* What is trimmed and recorded is the last requests and the new one, and it is
\* as long as the window has requests.
LEMMA TrimKeepsRecent ==
    ASSUME NEW history \in Seq(LogEntries), NEW window,
           minute \in 0..LastMinute,
           \A j, k \in 1..Len(history) : j <= k => history[j].at <= history[k].at,
           Remembers(window, history)
    PROVE  \E d \in 0..Len(history) :
             /\ Trim(window) = [i \in 1..(Len(history) - d) |-> history[d + i].at]
             /\ \A j \in 1..d : history[j].at < minute - Window
             /\ \A j \in (d + 1)..Len(history) : history[j].at >= minute - Window
<1> DEFINE n == Len(history)
           recent == {k \in DOMAIN window : minute - window[k] <= Window}
<1>1. n \in Nat /\ \A j \in 1..n : history[j].at \in 0..LastMinute
  <2>1. n \in Nat /\ \A j \in 1..n : history[j] \in LogEntries
    BY LenProperties, ElementOfSeq
  <2> QED BY <2>1 DEF LogEntries
<1>2. PICK d \in 0..n :
        /\ window = [i \in 1..(n - d) |-> history[d + i].at]
        /\ \A j \in 1..d : history[j].at < minute - Window
  BY DEF Remembers
<1>3. /\ DOMAIN window = 1..(n - d)
      /\ \A i \in 1..(n - d) : window[i] = history[d + i].at /\ d + i \in 1..n
      /\ \A i \in 1..(n - d) : window[i] \in 0..LastMinute
  BY <1>1, <1>2
<1>4. LastMinute \in Nat /\ Window \in Nat /\ minute \in Nat
  BY ThrottleAssumption
<1>5. window \in Seq(Nat) /\ Len(window) = n - d
  BY <1>1, <1>3, <1>2, <1>4, IsASeq
<1>6. CASE recent = {}
  <2>1. Trim(window) = << >>
    BY <1>6 DEF Trim
  <2>2. \A j \in 1..n : history[j].at < minute - Window
    <3> SUFFICES ASSUME NEW j \in 1..n PROVE history[j].at < minute - Window
      OBVIOUS
    <3>1. CASE j <= d
      BY <1>2, <3>1
    <3>2. CASE j > d
      <4>1. j - d \in 1..(n - d) /\ window[j - d] = history[j].at
        BY <3>2, <1>1, <1>3
      <4>2. ~(minute - window[j - d] <= Window)
        BY <4>1, <1>3, <1>6
      <4> QED BY <4>1, <4>2, <1>1, <1>4
    <3> QED BY <3>1, <3>2
  <2>3. [i \in 1..(n - n) |-> history[n + i].at] = << >>
    BY <1>1
  <2> QED BY <2>1, <2>2, <2>3, <1>1
<1>7. CASE recent # {}
  <2> DEFINE first == Min(recent)
  <2>1. first \in recent /\ \A k \in recent : first <= k
    <3>1. recent \subseteq Nat
      BY <1>3, <1>1
    <3> HIDE DEF recent
    <3> QED BY <3>1, <1>7, MinIsLeast
  <2> HIDE DEF first
  <2>2. first \in 1..(n - d) /\ minute - window[first] <= Window
    BY <2>1, <1>3
  <2> DEFINE e == d + first - 1
  <2>3. e \in 0..n /\ n - e = (n - d) - first + 1
    BY <2>2, <1>1
  <2>4. Trim(window) = SubSeq(window, first, n - d)
    BY <1>5, <1>7 DEF Trim, first
  <2>5. /\ SubSeq(window, first, n - d) \in Seq(Nat)
        /\ Len(SubSeq(window, first, n - d)) = n - e
        /\ \A i \in 1..(n - e) : SubSeq(window, first, n - d)[i] = window[first + i - 1]
    <3>1. \A i \in first..(n - d) : window[i] \in Nat
      BY <1>3, <2>2
    <3> QED BY <3>1, <2>2, <2>3, <1>1, SubSeqProperties
  <2>6. Trim(window) = [i \in 1..(n - e) |-> history[e + i].at]
    <3>1. /\ DOMAIN Trim(window) = 1..(n - e)
          /\ Trim(window) = [i \in DOMAIN Trim(window) |-> Trim(window)[i]]
      BY <2>4, <2>5, LenProperties
    <3>2. ASSUME NEW i \in 1..(n - e) PROVE Trim(window)[i] = history[e + i].at
      <4>1. first + i - 1 \in 1..(n - d) /\ d + (first + i - 1) = e + i
        BY <2>2, <2>3, <1>1
      <4> QED BY <4>1, <2>4, <2>5, <1>3
    <3> QED BY <3>1, <3>2
  <2>7. ASSUME NEW j \in 1..e PROVE history[j].at < minute - Window
    <3>1. CASE j <= d
      BY <1>2, <3>1
    <3>2. CASE j > d
      <4>1. j - d \in 1..(n - d) /\ window[j - d] = history[j].at /\ j - d < first
        BY <3>2, <1>1, <1>3, <2>2
      <4>2. ~(minute - window[j - d] <= Window)
        <5>1. j - d \notin recent
          <6> HIDE DEF recent
          <6>1. first \in Int /\ j - d \in Int
            BY <2>2, <4>1, <1>1
          <6> QED BY <4>1, <2>1, <6>1
        <5> QED BY <5>1, <4>1, <1>3
      <4>3. j \in 1..n
        BY <2>3, <1>1
      <4> QED BY <4>1, <4>2, <4>3, <1>1, <1>4
    <3> QED BY <3>1, <3>2, <2>3
  <2>8. ASSUME NEW j \in (e + 1)..n PROVE history[j].at >= minute - Window
    <3>1. d + first \in 1..n /\ d + first <= j /\ j \in 1..n
      BY <2>2, <1>1, <2>3
    <3>2. history[d + first].at <= history[j].at
      BY <3>1
    <3>3. window[first] = history[d + first].at
      BY <2>2, <1>3
    <3>4. minute - history[d + first].at <= Window
      BY <3>3, <2>2
    <3>5. history[d + first].at \in Int /\ history[j].at \in Int
      BY <3>1, <1>1
    <3> QED BY <3>2, <3>4, <3>5, <1>4
  <2> QED BY <2>3, <2>6, <2>7, <2>8
<1> QED BY <1>6, <1>7

\* A request's window: how many requests count, however the deque is trimmed.
LEMMA RecordedWithin ==
    ASSUME NEW history \in Seq(LogEntries), NEW window, NEW entry \in LogEntries,
           minute \in 0..LastMinute, entry.at = minute,
           \A k \in 1..Len(history) : history[k].at <= minute,
           \A j, k \in 1..Len(history) : j <= k => history[j].at <= history[k].at,
           Remembers(window, history)
    PROVE  LET longer == Append(history, entry)
           IN  /\ Remembers(Append(Trim(window), minute), longer)
               /\ Len(Append(Trim(window), minute)) =
                    Cardinality(Within(longer, Len(longer)))
<1> DEFINE n == Len(history)
           longer == Append(history, entry)
<1>1. /\ n \in Nat /\ Len(longer) = n + 1
      /\ \A j \in 1..n : history[j] \in LogEntries /\ longer[j] = history[j]
      /\ longer[n + 1] = entry
  BY LenProperties, ElementOfSeq, AppendProperties
<1>2. \A j \in 1..n : history[j].at \in 0..LastMinute
  BY <1>1 DEF LogEntries
<1>3. minute \in Nat /\ Window \in Nat
  BY ThrottleAssumption
<1>4. PICK d \in 0..n :
        /\ Trim(window) = [i \in 1..(n - d) |-> history[d + i].at]
        /\ \A j \in 1..d : history[j].at < minute - Window
        /\ \A j \in (d + 1)..n : history[j].at >= minute - Window
  BY TrimKeepsRecent
<1>5. Trim(window) \in Seq(Nat) /\ Len(Trim(window)) = n - d
  <2>1. \A i \in 1..(n - d) : d + i \in 1..n /\ history[d + i].at \in Nat
    BY <1>1, <1>2, <1>4
  <2>2. n - d \in Nat
    BY <1>1
  <2>3. [i \in 1..(n - d) |-> history[d + i].at] \in Seq(Nat)
    BY <2>1, <2>2, SeqDef
  <2> QED BY <1>4, <2>2, <2>3, LenProperties
<1> DEFINE recorded == Append(Trim(window), minute)
<1>6. /\ recorded \in Seq(Nat) /\ Len(recorded) = (n + 1) - d
      /\ \A i \in 1..(n - d) : recorded[i] = Trim(window)[i]
      /\ recorded[n - d + 1] = minute
  BY <1>1, <1>3, <1>4, <1>5, AppendProperties
<1>7. recorded = [i \in 1..((n + 1) - d) |-> longer[d + i].at]
  <2>1. /\ DOMAIN recorded = 1..((n + 1) - d)
        /\ recorded = [i \in DOMAIN recorded |-> recorded[i]]
    BY <1>6, LenProperties
  <2>2. ASSUME NEW i \in 1..((n + 1) - d) PROVE recorded[i] = longer[d + i].at
    <3>1. CASE i \in 1..(n - d)
      <4>1. d + i \in 1..n /\ Trim(window)[i] = history[d + i].at
        BY <3>1, <1>1, <1>4
      <4> QED BY <3>1, <4>1, <1>1, <1>6
    <3>2. CASE i = n - d + 1
      <4>1. d + i = n + 1
        BY <3>2, <1>1
      <4> QED BY <3>2, <4>1, <1>1, <1>6
    <3>3. i \in 1..(n - d) \/ i = n - d + 1
      BY <1>1
    <3> QED BY <3>1, <3>2, <3>3
  <2> HIDE DEF recorded, longer, n
  <2> QED BY <2>1, <2>2
<1>8. Remembers(recorded, longer)
  <2>1. d \in 0..Len(longer) /\ \A j \in 1..d : longer[j].at < minute - Window
    BY <1>1, <1>4
  <2> HIDE DEF recorded, longer
  <2> QED BY <2>1, <1>7, <1>1 DEF Remembers
<1>9. Within(longer, n + 1) = (d + 1)..(n + 1)
  <2>1. ASSUME NEW j \in 1..(n + 1)
        PROVE  longer[j].at >= minute - Window <=> j > d
    <3>1. CASE j = n + 1
      BY <3>1, <1>1, <1>3
    <3>2. CASE j \in 1..n /\ j <= d
      <4>1. longer[j].at = history[j].at /\ history[j].at < minute - Window
        BY <3>2, <1>1, <1>4
      <4> QED BY <3>2, <4>1, <1>2, <1>3
    <3>3. CASE j \in 1..n /\ j > d
      <4>1. longer[j].at = history[j].at /\ history[j].at >= minute - Window
        BY <3>3, <1>1, <1>4
      <4> QED BY <3>3, <4>1
    <3> QED BY <3>1, <3>2, <3>3, <1>1
  <2>2. longer[n + 1].at = minute
    BY <1>1
  <2> HIDE DEF longer
  <2> QED BY <2>1, <2>2, <1>1 DEF Within
<1>10. Cardinality((d + 1)..(n + 1)) = (n + 1) - d
  BY <1>1, FS_Interval
<1> HIDE DEF recorded, longer
<1> QED BY <1>1, <1>6, <1>8, <1>9, <1>10 DEF recorded, longer

\* What earlier requests counted does not change when one is added.
LEMMA WithinStays ==
    ASSUME NEW history \in Seq(LogEntries), NEW entry \in LogEntries, NEW k \in 1..Len(history)
    PROVE  Within(Append(history, entry), k) = Within(history, k)
<1>1. /\ Len(history) \in Nat
      /\ \A j \in 1..Len(history) : Append(history, entry)[j] = history[j]
  BY LenProperties, AppendProperties
<1>2. \A j \in 1..k : j \in 1..Len(history)
  BY <1>1
<1> QED BY <1>1, <1>2 DEF Within

\* One request keeps its address's invariant.
LEMMA DispatchStep ==
    ASSUME ThrottleInv, NEW a \in Addresses, Dispatch(a)
    PROVE  AddressInv(a)'
<1> DEFINE n == Len(log[a])
           recorded == RecordRequest(a)
           entry == [at |-> minute, served |-> ~IsRateLimited(a, recorded)]
<1>1. /\ records'[a] = recorded
      /\ log'[a] = Append(log[a], entry)
      /\ minute' = minute
  BY DEF Dispatch, ThrottleInv
<1>2. AddressInv(a) /\ minute \in 0..LastMinute
  BY DEF ThrottleInv
<1>3. entry \in LogEntries /\ entry.at = minute
  BY <1>2 DEF LogEntries, IsRateLimited
<1>4. /\ log'[a] \in Seq(LogEntries)
      /\ n \in Nat /\ Len(log'[a]) = n + 1
      /\ \A k \in 1..n : log'[a][k] = log[a][k]
      /\ log'[a][n + 1] = entry
  <2>1. log[a] \in Seq(LogEntries)
    BY <1>2 DEF AddressInv
  <2> HIDE DEF entry
  <2> QED BY <2>1, <1>1, <1>3, LenProperties, AppendProperties
<1>5. /\ Remembers(recorded, log'[a])
      /\ Len(recorded) = Cardinality(Within(log'[a], n + 1))
  <2>1. recorded = Append(Trim(records[a]), minute)
    BY DEF RecordRequest
  <2> HIDE DEF entry, recorded
  <2>2. /\ log[a] \in Seq(LogEntries)
        /\ \A k \in 1..Len(log[a]) : log[a][k].at <= minute
        /\ \A j, k \in 1..Len(log[a]) : j <= k => log[a][j].at <= log[a][k].at
        /\ Remembers(records[a], log[a])
    BY <1>2 DEF AddressInv
  <2>3. /\ Remembers(Append(Trim(records[a]), minute), Append(log[a], entry))
        /\ Len(Append(Trim(records[a]), minute)) =
             Cardinality(Within(Append(log[a], entry), Len(Append(log[a], entry))))
    BY <2>2, <1>2, <1>3, RecordedWithin
  <2> QED BY <2>1, <2>3, <1>1, <1>4
<1>6. Remembers(records[a], log[a])'
  BY <1>1, <1>5 DEF Remembers
<1>7. \A k \in 1..n : Within(log'[a], k) = Within(log[a], k)
  <2> HIDE DEF entry
  <2> QED BY <1>1, <1>2, <1>3, WithinStays DEF AddressInv
<1>8. \A k \in 1..(n + 1) : log'[a][k].at <= minute
  BY <1>2, <1>3, <1>4 DEF AddressInv
<1>9. \A j, k \in 1..(n + 1) : j <= k => log'[a][j].at <= log'[a][k].at
  <2> SUFFICES ASSUME NEW j \in 1..(n + 1), NEW k \in 1..(n + 1), j <= k
               PROVE  log'[a][j].at <= log'[a][k].at
    OBVIOUS
  <2>1. CASE k = n + 1
    BY <2>1, <1>3, <1>4, <1>8
  <2>2. CASE k # n + 1
    <3>1. j \in 1..n /\ k \in 1..n
      BY <2>2, <1>4
    <3> QED BY <3>1, <1>2, <1>4 DEF AddressInv
  <2> QED BY <2>1, <2>2
<1>10. ASSUME NEW k \in 1..(n + 1)
       PROVE  log'[a][k].served <=>
                a \in Exempt \/ Cardinality(Within(log'[a], k)) <= Limit
  <2>1. CASE k = n + 1
    <3>1. log'[a][k].served <=> ~(a \notin Exempt /\ Len(recorded) > Limit)
      <4>1. log'[a][k].served = ~IsRateLimited(a, recorded)
        BY <2>1, <1>4
      <4> HIDE DEF recorded
      <4> QED BY <4>1 DEF IsRateLimited
    <3>2. Len(recorded) = Cardinality(Within(log'[a], k)) /\ Len(recorded) \in Nat
      <4>1. IsFiniteSet(1..k) /\ Within(log'[a], k) \subseteq 1..k
        BY <2>1, <1>4, FS_Interval DEF Within
      <4> QED BY <2>1, <1>5, <4>1, FS_Subset, FS_CardinalityType
    <3> HIDE DEF recorded
    <3> QED BY <3>1, <3>2, ThrottleAssumption
  <2>2. CASE k # n + 1
    <3>1. k \in 1..n
      BY <2>2, <1>4
    <3> QED BY <3>1, <1>2, <1>4, <1>7 DEF AddressInv
  <2> QED BY <2>1, <2>2
<1> HIDE DEF recorded, entry
<1> QED BY <1>1, <1>4, <1>6, <1>8, <1>9, <1>10 DEF AddressInv, Within

\* A window is finite.
LEMMA WithinFinite ==
    ASSUME NEW history, NEW k \in Int
    PROVE  IsFiniteSet(Within(history, k)) /\ Cardinality(Within(history, k)) \in Nat
<1>1. IsFiniteSet(1..k) /\ Within(history, k) \subseteq 1..k
  <2>1. IsFiniteSet(1..k)
    BY FS_Interval
  <2>2. Within(history, k) \subseteq 1..k
    BY DEF Within
  <2> QED BY <2>1, <2>2
<1> QED BY <1>1, FS_Subset, FS_CardinalityType

\* An address keeps its invariant while nothing of it changes.
LEMMA AddressStays ==
    ASSUME NEW a, AddressInv(a), minute' = minute,
           records'[a] = records[a], log'[a] = log[a]
    PROVE  AddressInv(a)'
<1>1. Remembers(records[a], log[a])'
  BY DEF AddressInv, Remembers
<1> QED BY <1>1 DEF AddressInv, Within

\* Every step keeps the windows.
LEMMA ThrottleStep ==
    ASSUME ThrottleInv, [ThrottleNext]_throttleVars
    PROVE  ThrottleInv'
<1>1. ASSUME NEW a \in Addresses, Dispatch(a) PROVE ThrottleInv'
  <2>1. AddressInv(a)'
    BY <1>1, DispatchStep
  <2>2. minute' = minute /\ \A b \in Addresses : b # a =>
          records'[b] = records[b] /\ log'[b] = log[b]
    BY <1>1 DEF Dispatch, ThrottleInv
  <2>3. ASSUME NEW b \in Addresses, b # a PROVE AddressInv(b)'
    BY <2>2, <2>3, AddressStays DEF ThrottleInv
  <2>4. records' \in [Addresses -> {records'[b] : b \in Addresses}]
    BY <1>1 DEF Dispatch, ThrottleInv
  <2>5. log' \in [Addresses -> {log'[b] : b \in Addresses}]
    BY <1>1 DEF Dispatch, ThrottleInv
  <2> QED BY <2>1, <2>2, <2>3, <2>4, <2>5 DEF ThrottleInv
<1>2. CASE MinutePasses
  <2>1. /\ minute \in Nat /\ minute' = minute + 1 /\ minute' \in 0..LastMinute
        /\ UNCHANGED <<records, log>>
    BY <1>2, ThrottleAssumption DEF MinutePasses, ThrottleInv
  <2>2. ASSUME NEW a \in Addresses PROVE AddressInv(a)'
    <3>1. AddressInv(a)
      BY DEF ThrottleInv
    <3>2. \A k \in 1..Len(log[a]) : log[a][k].at \in Int
      <4>1. Len(log[a]) \in Nat /\ \A k \in 1..Len(log[a]) : log[a][k] \in LogEntries
        BY <3>1, LenProperties, ElementOfSeq DEF AddressInv
      <4> QED BY <4>1, ThrottleAssumption DEF LogEntries
    <3>3. Remembers(records[a], log[a])'
      <4>1. PICK d \in 0..Len(log[a]) :
              /\ records[a] = [i \in 1..(Len(log[a]) - d) |-> log[a][d + i].at]
              /\ \A j \in 1..d : log[a][j].at < minute - Window
        BY <3>1 DEF AddressInv, Remembers
      <4>2. \A j \in 1..d : log[a][j].at < minute' - Window
        <5>1. Len(log[a]) \in Nat
          BY <3>1, LenProperties DEF AddressInv
        <5>2. \A j \in 1..d : j \in 1..Len(log[a])
          BY <5>1
        <5> QED BY <2>1, <3>2, <4>1, <5>2, ThrottleAssumption
      <4> QED BY <2>1, <4>1, <4>2 DEF Remembers
    <3> QED BY <2>1, <3>1, <3>2, <3>3 DEF AddressInv, Within
  <2> QED BY <2>1, <2>2 DEF ThrottleInv
<1>3. CASE Restart
  <2>1. /\ minute' = minute
        /\ \A a \in Addresses : records'[a] = << >> /\ log'[a] = << >>
    BY <1>3 DEF Restart
  <2>2. ASSUME NEW a \in Addresses PROVE AddressInv(a)'
    <3>1. log'[a] = << >> /\ log'[a] \in Seq(LogEntries) /\ Len(log'[a]) = 0
      BY <2>1, EmptySeq
    <3>2. Remembers(records[a], log[a])'
      BY <2>1, <3>1 DEF Remembers
    <3> QED BY <3>1, <3>2 DEF AddressInv
  <2>3. /\ records' \in [Addresses -> {records'[a] : a \in Addresses}]
        /\ log' \in [Addresses -> {log'[a] : a \in Addresses}]
    BY <1>3 DEF Restart
  <2> QED BY <2>1, <2>2, <2>3 DEF ThrottleInv
<1>4. CASE UNCHANGED throttleVars
  <2>1. \A a \in Addresses : AddressInv(a)'
    BY <1>4, AddressStays DEF throttleVars, ThrottleInv
  <2> QED BY <1>4, <2>1 DEF throttleVars, ThrottleInv
<1> QED BY <1>1, <1>2, <1>3, <1>4 DEF ThrottleNext

\* The deque is the recent end of what happened, whatever the requests and the clock.
THEOREM ThrottleHolds == ThrottleSpec => []ThrottleInv
<1>1. ThrottleInit => ThrottleInv
  <2> SUFFICES ASSUME ThrottleInit PROVE ThrottleInv
    OBVIOUS
  <2>1. minute \in 0..LastMinute
    BY ThrottleAssumption DEF ThrottleInit
  <2>2. ASSUME NEW a \in Addresses PROVE AddressInv(a)
    <3>1. log[a] = << >> /\ log[a] \in Seq(LogEntries) /\ Len(log[a]) = 0 /\ records[a] = << >>
      BY EmptySeq DEF ThrottleInit
    <3> QED BY <3>1 DEF AddressInv, Remembers
  <2> QED BY <2>1, <2>2 DEF ThrottleInit, ThrottleInv
<1>2. ThrottleInv /\ [ThrottleNext]_throttleVars => ThrottleInv'
  BY ThrottleStep
<1> QED BY <1>1, <1>2, PTL DEF ThrottleSpec

\* Types of the clock and of the windows, which hold requests that came, in order.
LEMMA ThrottleTypes ==
    ASSUME ThrottleInv
    PROVE  ThrottleTypeOK
<1>1. minute \in 0..LastMinute /\ LastMinute \in Nat
  BY ThrottleAssumption DEF ThrottleInv
<1>2. ASSUME NEW a \in Addresses
      PROVE  /\ \A i, j \in 1..Len(records[a]) : i < j => records[a][i] <= records[a][j]
             /\ ToSet(records[a]) \subseteq {log[a][k].at : k \in DOMAIN log[a]}
             /\ ToSet(records[a]) \subseteq 0..minute
             /\ Len(records[a]) <= Len(log[a])
  <2>1. AddressInv(a)
    BY DEF ThrottleInv
  <2>2. /\ Len(log[a]) \in Nat /\ DOMAIN log[a] = 1..Len(log[a])
        /\ \A k \in 1..Len(log[a]) : log[a][k] \in LogEntries
    BY <2>1, LenProperties, ElementOfSeq DEF AddressInv
  <2>3. \A k \in 1..Len(log[a]) : log[a][k].at \in 0..minute
    BY <2>1, <2>2, <1>1 DEF AddressInv, LogEntries
  <2>4. PICK d \in 0..Len(log[a]) :
          records[a] = [i \in 1..(Len(log[a]) - d) |-> log[a][d + i].at]
    BY <2>1 DEF AddressInv, Remembers
  <2>5. /\ DOMAIN records[a] = 1..(Len(log[a]) - d)
        /\ \A i \in 1..(Len(log[a]) - d) :
             d + i \in 1..Len(log[a]) /\ records[a][i] = log[a][d + i].at
    BY <2>2, <2>4
  <2>6. records[a] \in Seq(Nat)
    BY <2>2, <2>3, <2>4, <2>5, SeqDef
  <2>7. Len(records[a]) = Len(log[a]) - d
    BY <2>2, <2>4, <2>6
  <2>8. \A i, j \in 1..Len(records[a]) : i < j => records[a][i] <= records[a][j]
    BY <2>1, <2>2, <2>5, <2>7 DEF AddressInv
  <2>9. ToSet(records[a]) \subseteq {log[a][k].at : k \in DOMAIN log[a]}
    BY <2>2, <2>5 DEF ToSet
  <2>10. ToSet(records[a]) \subseteq 0..minute
    <3>1. \A m \in ToSet(records[a]) : \E k \in 1..Len(log[a]) : m = log[a][k].at
      BY <2>2, <2>9
    <3> QED BY <2>3, <3>1
  <2> QED BY <2>2, <2>7, <2>8, <2>9, <2>10
<1> QED BY <1>1, <1>2 DEF ThrottleTypeOK, IsSorted

\* No stretch of time as long as the window serves one client more than Limit
\* requests, and whoever is refused had sent Limit within the window
\* (record_request and is_rate_limited of the middleware).
THEOREM LimitHolds == ThrottleSpec => []LimitIsExact
<1>1. ThrottleInv => NeverOverLimit
  <2> SUFFICES ASSUME ThrottleInv, NEW a \in Addresses \ Exempt, NEW first \in 0..minute
               PROVE  Cardinality({k \in DOMAIN log[a] :
                        log[a][k].served /\ log[a][k].at \in first..(first + Window)}) <= Limit
    BY DEF NeverOverLimit
  <2> DEFINE served == {k \in DOMAIN log[a] :
                          log[a][k].served /\ log[a][k].at \in first..(first + Window)}
  <2>1. AddressInv(a)
    BY DEF ThrottleInv
  <2>2. /\ Len(log[a]) \in Nat /\ DOMAIN log[a] = 1..Len(log[a])
    BY <2>1, LenProperties DEF AddressInv
  <2>3. CASE served = {}
    BY <2>3, FS_EmptySet, ThrottleAssumption
  <2>4. CASE served # {}
    <3>1. PICK last \in served : \A k \in served : k <= last
      <4>1. served \subseteq 0..Len(log[a])
        BY <2>2
      <4> HIDE DEF served
      <4> QED BY <4>1, <2>2, <2>4, GreatestNumber
    <3>2. last \in 1..Len(log[a]) /\ log[a][last].served
      BY <2>2
    <3>3. Cardinality(Within(log[a], last)) <= Limit
      BY <3>2, <2>1 DEF AddressInv
    <3>4. served \subseteq Within(log[a], last)
      <4> SUFFICES ASSUME NEW k \in served PROVE k \in Within(log[a], last)
        OBVIOUS
      <4>1. k \in 1..last
        BY <3>1, <3>2, <2>2
      <4>2. log[a][k].at >= log[a][last].at - Window
        BY ThrottleAssumption
      <4> QED BY <4>1, <4>2 DEF Within
    <3>5. IsFiniteSet(Within(log[a], last)) /\ Cardinality(Within(log[a], last)) \in Nat
      BY <3>2, WithinFinite
    <3>6. /\ Cardinality(served) <= Cardinality(Within(log[a], last))
          /\ Cardinality(served) \in Nat
      <4> HIDE DEF served
      <4> QED BY <3>4, <3>5, FS_Subset, FS_CardinalityType
    <3> QED BY <3>3, <3>5, <3>6, ThrottleAssumption
  <2> QED BY <2>3, <2>4
<1>2. ThrottleInv => RefusedAfterLimit
  <2> SUFFICES ASSUME ThrottleInv, NEW a \in Addresses, NEW k \in DOMAIN log[a],
                      ~log[a][k].served
               PROVE  /\ a \notin Exempt
                      /\ Cardinality({j \in 1..(k - 1) : log[a][j].at >= log[a][k].at - Window})
                           >= Limit
    BY DEF RefusedAfterLimit
  <2> DEFINE before == {j \in 1..(k - 1) : log[a][j].at >= log[a][k].at - Window}
  <2>1. AddressInv(a)
    BY DEF ThrottleInv
  <2>2. k \in 1..Len(log[a]) /\ Len(log[a]) \in Nat
    BY <2>1, LenProperties DEF AddressInv
  <2>3. a \notin Exempt /\ ~(Cardinality(Within(log[a], k)) <= Limit)
    BY <2>1, <2>2 DEF AddressInv
  <2>4. Within(log[a], k) = before \cup {k}
    <3>1. log[a][k].at \in Int
      <4>1. log[a][k] \in LogEntries
        BY <2>1, <2>2, ElementOfSeq DEF AddressInv
      <4> QED BY <4>1, ThrottleAssumption DEF LogEntries
    <3>2. \A j : j \in 1..k <=> j \in 1..(k - 1) \/ j = k
      BY <2>2
    <3>3. log[a][k].at >= log[a][k].at - Window
      BY <3>1, ThrottleAssumption
    <3> QED BY <3>2, <3>3 DEF Within
  <2>5. IsFiniteSet(before) /\ Cardinality(before) \in Nat
    <3>1. before \subseteq 1..(k - 1)
      OBVIOUS
    <3>2. IsFiniteSet(1..(k - 1))
      <4> k - 1 \in Int /\ 1 \in Int
        BY <2>2
      <4> QED BY FS_Interval
    <3> HIDE DEF before
    <3> QED BY <3>1, <3>2, FS_Subset, FS_CardinalityType
  <2>6. Cardinality(before \cup {k}) <= Cardinality(before) + 1
    <3> HIDE DEF before
    <3>1. Cardinality(before \cup {k}) =
            IF k \in before THEN Cardinality(before) ELSE Cardinality(before) + 1
      BY <2>5, FS_AddElement
    <3> QED BY <2>5, <3>1
  <2>7. Cardinality(before \cup {k}) \in Nat
    <3> HIDE DEF before
    <3>1. k \in Int
      BY <2>2
    <3> QED BY <3>1, <2>4, WithinFinite
  <2> HIDE DEF before
  <2>8. Cardinality(before) >= Limit
    BY <2>3, <2>4, <2>5, <2>6, <2>7, ThrottleAssumption
  <2> QED BY <2>3, <2>8 DEF before
<1>3. ThrottleInv => LimitIsExact
  BY <1>1, <1>2 DEF LimitIsExact
<1> QED BY <1>3, ThrottleHolds, PTL

-----------------------------------------------------------------------------
(* The five side by side *)

\* A behaviour of the five side by side is a behaviour of each of them.
THEOREM RulesAreTheFive ==
    RulesSpec => /\ ComparisonSpec /\ BiddingSpec /\ CustomsSpec
                 /\ AccessSpec /\ ThrottleSpec
<1>1. RulesInit => /\ ComparisonInit /\ BiddingInit /\ CustomsInit
                   /\ AccessInit /\ ThrottleInit
  BY DEF RulesInit
<1>2. ASSUME [RulesNext]_<<topic, ruleVars>>
      PROVE  /\ [ComparisonNext]_comparisonVars
             /\ [BiddingNext]_biddingVars
             /\ [CustomsNext]_customsVars
             /\ [AccessNext]_accessVars
             /\ [ThrottleNext]_throttleVars
  BY <1>2 DEF RulesNext, ruleVars
<1> QED BY <1>1, <1>2, PTL DEF RulesSpec, ComparisonSpec, BiddingSpec, CustomsSpec,
                               AccessSpec, ThrottleSpec

\* Types of the five parts.
THEOREM RulesTypes == RulesSpec => []RulesTypeOK
<1>1. AccessInv /\ ViewInv => AccessTypeOK
  BY AccessTypes
<1>2. ThrottleInv => ThrottleTypeOK
  BY ThrottleTypes
<1>3. ComparisonTypeOK /\ BiddingTypeOK /\ CustomsTypeOK /\ AccessTypeOK /\ ThrottleTypeOK
        => RulesTypeOK
  BY DEF RulesTypeOK
<1> QED BY <1>1, <1>2, <1>3, RulesAreTheFive, ComparisonTypes, BiddingTypes,
           CustomsTypes, AccessHolds, ThrottleHolds, PTL
=============================================================================
