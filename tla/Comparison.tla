------------------------------ MODULE Comparison ------------------------------
(***************************************************************************)
(* How the quotes of one RFQ are scored, who wins, and what the answer     *)
(* shows: services/rfq.py compare_quotes, the dry-run scorer of            *)
(* services/market_sim.py, the sealed table of services/rfq_serializers.py *)
(* and the purchaser's card of services/redaction.py.                      *)
(*                                                                         *)
(* A score is a fraction of integers here: the weighted sum of four terms  *)
(* over the common denominator Whole, rounded to 1/Precision as the code   *)
(* rounds to six places.  The winner is chosen before rounding, the table  *)
(* is ordered after it.  Weights are whatever numbers the caller sends, so *)
(* they may be negative, and a quote that scores -1 or less never wins.    *)
(*                                                                         *)
(* How suppliers come to quote through the portal is Marketplace's         *)
(* subject; a quote arrives here by POST /rfq/quotes.  Quoting and         *)
(* comparing read the RFQ in one step and write, in another, the columns   *)
(* that differ from what they read.  A comparison with save = true ends in *)
(* an error whenever there are quotes (it names a table that was removed), *)
(* so a comparison is one with save = false, and a simulation is a dry run *)
(* for the same reason.  A dry run is one step here.                       *)
(***************************************************************************)
EXTENDS Integers, FiniteSets

CONSTANTS
    Ids,        \* quotes, ordered as their ids are
    Offers,     \* what a quote can say: [price, lead, rel, qual]
    Weights,    \* what a caller can ask for: [price, lead, rel, qual, other]
    Comparers,  \* requests to compare that may overlap
    Simulated,  \* rounds of bids a dry run can make up, functions like bid
    Invited,    \* suppliers invited when the RFQ was sent
    Precision   \* the scores shown are multiples of 1/Precision

Terms == [price : Nat, lead : Nat, rel : Nat, qual : Nat]

\* `other` is what the caller sent under names that no criterion has.
Weighing == [price : Int, lead : Int, rel : Int, qual : Int, other : Int]

SimInvited == 10000
None == -1
NoBid == [price |-> None]
Unread == [responded |-> None]

ASSUME ComparisonAssumption ==
    /\ Ids \subseteq Nat
    /\ IsFiniteSet(Ids)
    /\ Offers \subseteq Terms
    /\ Weights \subseteq Weighing
    /\ Simulated \subseteq [Ids -> Offers \cup {NoBid}]
    /\ Invited \in Nat
    /\ Precision \in Nat \ {0}

VARIABLES
    bid,        \* the quotes of the RFQ
    status,     \* its status
    invited,    \* its invited_count
    responded,  \* its responded_count
    award,      \* its awarded_quote_id
    posted,     \* what each request to quote has read, Unread outside one
    comparing,  \* what each request to compare has read, Unread outside one
    grounds,    \* the quotes and weights of the comparison that chose the award
    reply       \* what the last comparison or simulation answered

rfqVars == <<bid, status, invited, responded, award>>
comparisonVars == <<rfqVars, posted, comparing, grounds, reply>>

-----------------------------------------------------------------------------
(* Scoring *)

Bidders(b) == {i \in Ids : b[i] # NoBid}

Prices(b) == {b[i].price : i \in Bidders(b)}
Leads(b) == {b[i].lead : i \in Bidders(b)}

\* The least and the greatest member of a set of numbers, as a pair.
Extremes(N) == {e \in N \X N : \A n \in N : e[1] <= n /\ n <= e[2]}

\* max - min, and what a number is short of the max; both 1 when all agree.
Span(e) == IF e[2] > e[1] THEN e[2] - e[1] ELSE 1
Gain(n, e) == IF e[2] > e[1] THEN e[2] - n ELSE 1

WeightSum(w) == w.price + w.lead + w.rel + w.qual + w.other

\* What the weights are divided by; a dry run divides by 1 when the sum is zero.
Total(w) == IF WeightSum(w) > 0 THEN WeightSum(w) ELSE 1

\* A dry run divides by a negative sum too, which turns every sign.
Turned(w) ==
    IF WeightSum(w) < 0
      THEN [price |-> -w.price, lead |-> -w.lead, rel |-> -w.rel,
            qual |-> -w.qual, other |-> -w.other]
      ELSE w

FineUpward(o, w, p, l) ==
    (5 * w.price * Gain(o.price, p)) * Span(l)
      + (5 * w.lead * (o.lead - l[1])) * Span(p)
      + (w.rel * o.rel + w.qual * o.qual) * (Span(p) * Span(l))

\* Price and lead time between the extremes p and l, the ratings out of five.
Fine(o, w, p, l) ==
    (5 * w.price * Gain(o.price, p)) * Span(l)
      + (5 * w.lead * Gain(o.lead, l)) * Span(p)
      + (w.rel * o.rel + w.qual * o.qual) * (Span(p) * Span(l))

Whole(w, p, l) == (5 * Total(w)) * (Span(p) * Span(l))

Rounded(n, d) == (2 * Precision * n + d) \div (2 * d)

-----------------------------------------------------------------------------
(* What the caller sees *)

BeforeRising(s, j, i) == s[j] < s[i] \/ (s[j] = s[i] /\ j < i)

\* By score from the highest, then by id.
Before(s, j, i) == s[j] > s[i] \/ (s[j] = s[i] /\ j < i)

Rank(s, i) == 1 + Cardinality({j \in DOMAIN s : Before(s, j, i)})

RowFirstPriced(b, s, told, i) ==
    [rank |-> Rank(s, i), score |-> s[i],
     total |-> IF Rank(s, i) = 1 THEN b[i].price ELSE None,
     lead |-> IF Rank(s, i) = 1 THEN b[i].lead ELSE None]

\* A row of the sealed table: every bidder keeps its score, one its terms.
Row(b, s, told, i) ==
    [rank |-> Rank(s, i), score |-> s[i],
     total |-> IF i = told THEN b[i].price ELSE None,
     lead |-> IF i = told THEN b[i].lead ELSE None]

\* The purchaser's card is made of the sealed table, whose rows have no ids any
\* more: it takes the first row, and shows 0 where that row hides its total.
Card(rows, top) ==
    [total |-> IF rows[top].total = None THEN 0 ELSE rows[top].total,
     lead |-> rows[top].lead,
     score |-> rows[top].score]

Silence == [rows |-> << >>, winner |-> None, card |-> << >>]

\* The scores before and after rounding, a bidder each.
Fines(b, w, p, l) == [i \in Bidders(b) |-> Fine(b[i], w, p, l)]

Scores(f, d) == [i \in DOMAIN f |-> Rounded(f[i], d)]

\* Any of the quotes that score best before rounding may win, the code keeps the
\* first it meets, but not with a score of -1 or less.
Winners(f, d) ==
    IF \A i \in DOMAIN f : f[i] <= -d
      THEN {None} ELSE {i \in DOMAIN f : \A j \in DOMAIN f : f[j] <= f[i]}

\* Whose terms the table tells: the winner's, and without one those of some row
\* that shows the best score.
Told(s, win) ==
    IF win = None THEN {i \in DOMAIN s : \A j \in DOMAIN s : s[j] <= s[i]}
                  ELSE {win}

Table(b, s, told) == [i \in Bidders(b) |-> Row(b, s, told, i)]

Reply(b, s, win, told, top) ==
    [rows |-> Table(b, s, told), winner |-> win,
     card |-> Card(Table(b, s, told), top)]

\* The answers that name the winner win.
Naming(b, s, win) ==
    {Reply(b, s, win, told, top) :
       told \in Told(s, win), top \in {i \in Bidders(b) : Rank(s, i) = 1}}

\* The answers when prices and lead times lie between the extremes p and l.
Answers(b, w, p, l) ==
    LET f == Fines(b, w, p, l)
        d == Whole(w, p, l)
        s == Scores(f, d)
    IN  UNION {Naming(b, s, win) : win \in Winners(f, d)}

\* The answers to a comparison of the quotes b.
Replies(b, w) ==
    UNION {Answers(b, w, p, l) : p \in Extremes(Prices(b)), l \in Extremes(Leads(b))}

-----------------------------------------------------------------------------
(* The RFQ *)

ComparisonInit ==
    /\ bid = [i \in Ids |-> NoBid]
    /\ status = "sent"
    /\ invited = Invited
    /\ responded = 0
    /\ award = None
    /\ posted = [i \in Ids |-> Unread]
    /\ comparing = [c \in Comparers |-> Unread]
    /\ grounds = [bid |-> bid, weights |-> [price |-> 0]]
    /\ reply = Silence

\* POST /rfq/quotes before the deadline: the RFQ is read and takes quotes,
ReadToQuote(i) ==
    /\ posted[i] = Unread
    /\ status \in {"sent", "open"}
    /\ posted' = [posted EXCEPT ![i] = [responded |-> responded, invited |-> invited]]
    /\ UNCHANGED <<rfqVars, comparing, grounds, reply>>

\* ... and whatever has become of it the quote is stored, one per supplier.
Submit(i, o) ==
    /\ posted[i] # Unread
    /\ bid[i] = NoBid
    /\ bid' = [bid EXCEPT ![i] = o]
    /\ responded' = posted[i].responded + 1
    /\ status' = IF posted[i].responded + 1 >= posted[i].invited
                   THEN "closed" ELSE status
    /\ posted' = [posted EXCEPT ![i] = Unread]
    /\ UNCHANGED <<invited, award, comparing, grounds, reply>>

\* POST /rfq/{id}/compare, whatever the RFQ's status: the RFQ and its quotes are
\* read,
ReadToCompare(c) ==
    /\ comparing[c] = Unread
    /\ comparing' =
         [comparing EXCEPT ![c] =
            [responded |-> responded, status |-> status, award |-> award, bid |-> bid]]
    /\ UNCHANGED <<rfqVars, posted, grounds, reply>>

\* ... and the winner among them is awarded.  Weights that do not sum to
\* something positive are an error; so is a criterion without a weight.
Compare(c, w) ==
    /\ comparing[c] # Unread
    /\ WeightSum(w) > 0
    /\ Bidders(comparing[c].bid) # {}
    /\ reply' \in Replies(comparing[c].bid, w)
    /\ reply'.winner # None
    /\ status' = IF comparing[c].status = "awarded" THEN status ELSE "awarded"
    /\ award' = IF comparing[c].award = reply'.winner THEN award ELSE reply'.winner
    /\ responded' = IF comparing[c].responded = Cardinality(Bidders(comparing[c].bid))
                      THEN responded ELSE Cardinality(Bidders(comparing[c].bid))
    /\ grounds' = IF award' = reply'.winner
                    THEN [bid |-> comparing[c].bid, weights |-> w] ELSE grounds
    /\ comparing' = [comparing EXCEPT ![c] = Unread]
    /\ UNCHANGED <<bid, invited, posted>>

\* Without a winner the scores are answered and the RFQ stays what it was.
CompareInVain(c, w) ==
    /\ comparing[c] # Unread
    /\ WeightSum(w) > 0
    /\ Bidders(comparing[c].bid) # {}
    /\ reply' \in Replies(comparing[c].bid, w)
    /\ reply'.winner = None
    /\ comparing' = [comparing EXCEPT ![c] = Unread]
    /\ UNCHANGED <<rfqVars, posted, grounds>>

\* With nothing to compare nothing is written.
CompareNothing(c) ==
    /\ comparing[c] # Unread
    /\ Bidders(comparing[c].bid) = {}
    /\ reply' = Silence
    /\ comparing' = [comparing EXCEPT ![c] = Unread]
    /\ UNCHANGED <<rfqVars, posted, grounds>>

DryRunAwards(w, b) ==
    /\ Bidders(b) # {}
    /\ status' = "awarded"
    /\ reply' \in Replies(b, Turned(w))
    /\ UNCHANGED <<bid, invited, responded, award, posted, comparing, grounds>>

\* POST /rfq/{id}/simulate as a dry run: the RFQ takes quotes again, the bids b
\* are made up for this answer and forgotten.  Without a bidder the early return
\* leaves invited_count raised.
DryRun(w, b) ==
    /\ status' = IF status \in {"awarded", "closed"} THEN "open" ELSE status
    /\ responded' = IF status = "closed" THEN 0 ELSE responded
    /\ IF Bidders(b) = {}
         THEN /\ invited' = IF invited < SimInvited THEN SimInvited ELSE invited
              /\ reply' = Silence
         ELSE /\ invited' = invited
              /\ reply' \in Replies(b, Turned(w))
    /\ UNCHANGED <<bid, award, posted, comparing, grounds>>

ComparisonNext ==
    \/ \E i \in Ids : ReadToQuote(i)
    \/ \E i \in Ids, o \in Offers : Submit(i, o)
    \/ \E c \in Comparers : ReadToCompare(c)
    \/ \E c \in Comparers, w \in Weights : Compare(c, w)
    \/ \E c \in Comparers, w \in Weights : CompareInVain(c, w)
    \/ \E c \in Comparers : CompareNothing(c)
    \/ \E w \in Weights, b \in Simulated : DryRun(w, b)

ComparisonSpec == ComparisonInit /\ [][ComparisonNext]_comparisonVars

-----------------------------------------------------------------------------
(* Properties *)

RowType == [rank : Nat, score : Int, total : Nat \cup {None}, lead : Nat \cup {None}]

\* Rows, counts and statuses are what the tables and the answers hold.
ComparisonTypeOK ==
    /\ bid \in [Ids -> Offers \cup {NoBid}]
    /\ status \in {"sent", "open", "closed", "awarded"}
    /\ invited \in Nat
    /\ responded \in Nat
    /\ award \in Bidders(bid) \cup {None}
    /\ status = "awarded" => award # None
    /\ \A i \in DOMAIN reply.rows : i \in Ids /\ reply.rows[i] \in RowType

\* The weights count nothing against o, and something for it: where a weight is
\* negative, o is no better than a.
Beats(o, a, w) ==
    /\ w.price * (a.price - o.price) >= 0
    /\ w.lead * (a.lead - o.lead) >= 0
    /\ w.rel * (o.rel - a.rel) >= 0
    /\ w.qual * (o.qual - a.qual) >= 0
    /\ \/ w.price * (a.price - o.price) > 0
       \/ w.lead * (a.lead - o.lead) > 0
       \/ w.rel * (o.rel - a.rel) > 0
       \/ w.qual * (o.qual - a.qual) > 0

\* The awarded quote was chosen among quotes none of which beats it by the
\* weights of that comparison, whatever comparisons overlap with it and whatever
\* was stored in between: the normalisation between the extremes of the round
\* never turns a dominated quote into the winner, and no comparison leaves
\* another one's award as its own (compare_quotes).  A quote stored after the
\* comparison has read the RFQ was not compared and may be better.
AwardNotBeaten ==
    award # None =>
      \A i \in Bidders(grounds.bid) :
        ~Beats(grounds.bid[i], grounds.bid[award], grounds.weights)

\* The sealed table a bidder's rival may read is a ranking (a better rank never
\* has a lower score, and no rank is given twice) in which exactly one row tells
\* its terms: one with the best score, and the winner's where there is a winner
\* (seal_results).
SealedTable ==
    LET rows == reply.rows
    IN  /\ \A i, j \in DOMAIN rows :
             /\ rows[i].rank < rows[j].rank => rows[i].score >= rows[j].score
             /\ rows[i].rank = rows[j].rank => i = j
             /\ rows[i].total # None => rows[i].score >= rows[j].score
             /\ rows[i].total # None /\ rows[j].total # None => i = j
        /\ DOMAIN rows # {} => \E i \in DOMAIN rows : rows[i].total # None
        /\ reply.winner # None => rows[reply.winner].total # None

\* The purchaser's card shows the terms of the winner unless another bid shows
\* the same rounded score (seal_rfq_award_for_purchaser reads the first row of
\* the sealed table, and the winner was chosen before rounding).
CardTellsAward ==
    \/ reply.winner = None
    \/ /\ reply.card.total = reply.rows[reply.winner].total
       /\ reply.card.lead = reply.rows[reply.winner].lead
    \/ \E i \in DOMAIN reply.rows \ {reply.winner} :
         reply.rows[i].score = reply.rows[reply.winner].score
=============================================================================
