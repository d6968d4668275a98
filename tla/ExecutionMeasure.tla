-------------------------- MODULE ExecutionMeasure ---------------------------
(***************************************************************************)
(* What the execution research measures of an order book and what it makes *)
(* of the measurements: the walk through the levels for an amount of       *)
(* money, the depth within a band, the percentiles of the history and the  *)
(* suitability they stand for (lbank_execution.py, lbank_execution_stats.py*)
(* and lbank_execution_suitability.py).  Prices and amounts are small      *)
(* integers; a quotient is rounded down to hundredths of a percent.        *)
(***************************************************************************)
EXTENDS Integers, Sequences, FiniteSets

CONSTANTS
    Books,              \* order books the exchange may show
    Notional,           \* the money the cost is measured for
    Band,               \* the band of the depth, in basis points
    Scale,              \* a common multiple of the prices
    MinSamples, MinSpan,    \* what makes the evidence sufficient
    Suitable, Marginal, \* the two envelopes
    MaxSamples

Envelope == [availability : Nat, cost : Nat, spread : Nat, depth : Nat]
Positive == Nat \ {0}
Levels == Positive \X Positive

\* A side lists its best price first, as the exchange's library sorts it.
MeasureAssumption ==
    /\ Suitable \in Envelope /\ Marginal \in Envelope
    /\ {Notional, Band, Scale, MinSamples} \subseteq Positive /\ MinSpan \in Nat
    /\ MaxSamples \in Nat
    /\ \A b \in Books :
          /\ {b.bids, b.asks} \subseteq Seq(Levels)
          /\ \A side \in {b.bids, b.asks} : \A i \in 1..Len(side) :
                Scale % side[i][1] = 0
          /\ \A i, j \in 1..Len(b.bids) : i < j => b.bids[i][1] >= b.bids[j][1]
          /\ \A i, j \in 1..Len(b.asks) : i < j => b.asks[i][1] <= b.asks[j][1]

VARIABLES
    book,       \* the book the exchange shows now
    samples,    \* the history of one contract, oldest first
    suitability

vars == <<book, samples, suitability>>

None == -1
Grades == {"UNKNOWN", "POOR", "MARGINAL", "SUITABLE"}
Sample == [observed : BOOLEAN, spread : Int, cost : Int, depth : Int, at : Nat]
TypeOK ==
    /\ book \in Books /\ Len(samples) <= MaxSamples
    /\ \A i \in 1..Len(samples) : samples[i] \in Sample
    /\ suitability \in Grades

-----------------------------------------------------------------------------
(* One order book: sides are sequences of <<price, amount>>, best first.    *)

Smaller(a, b) == IF a < b THEN a ELSE b

\* One level takes of the money what it can.
Filled(fill, level) ==
    LET taken == Smaller(fill.left, level[1] * level[2])
    IN IF fill.left <= 0 THEN fill
       ELSE [left |-> fill.left - taken, spent |-> fill.spent + taken,
             base |-> fill.base + taken * (Scale \div level[1])]
Unfilled(notional) == [left |-> notional, spent |-> 0, base |-> 0]
Walk(side, notional) ==
    LET after[n \in 0..Len(side)] ==
            IF n = 0 THEN Unfilled(notional) ELSE Filled(after[n - 1], side[n])
    IN after[Len(side)]
Complete(fill) == fill.left <= 0

\* The average price of a complete fill against the best price.
Slippage(side, notional) ==
    LET w == Walk(side, notional)
        atBest == side[1][1] * w.base
        atPaid == w.spent * Scale
        gap == IF atBest > atPaid THEN atBest - atPaid ELSE atPaid - atBest
    IN (gap * 10000) \div atBest

Total(f, m) ==
    LET sum[n \in 0..m] == IF n = 0 THEN 0 ELSE sum[n - 1] + f[n]
    IN sum[m]

\* _bounded_depth_usdt: the levels within the band of the best price.
Within(side, l, direction) ==
    LET away == direction * (l[1] - side[1][1])
    IN 0 <= away /\ away * 10000 <= side[1][1] * Band
Depth(side, direction) ==
    Total([i \in 1..Len(side) |->
             IF Within(side, side[i], direction) THEN side[i][1] * side[i][2] ELSE 0],
          Len(side))
MinDepth(b) == Smaller(Depth(b.bids, -1), Depth(b.asks, 1))

Measurable(b) ==
    b.mark > 0 /\ b.bids # <<>> /\ b.asks # <<>> /\ b.bids[1][1] < b.asks[1][1]
Spread(b) ==
    ((b.asks[1][1] - b.bids[1][1]) * 20000) \div (b.asks[1][1] + b.bids[1][1])

\* measure_orderbook: the cost of crossing both ways is unknown when either
\* side cannot fill it.
Cost(b) ==
    IF Complete(Walk(b.bids, Notional)) /\ Complete(Walk(b.asks, Notional))
    THEN Spread(b) + Slippage(b.bids, Notional) + Slippage(b.asks, Notional)
    ELSE None

-----------------------------------------------------------------------------
(* The history of a contract.                                               *)

\* What was measured, and what of it could fill both sides.
Successes(h) == {i \in 1..Len(h) : h[i].observed}
Costed(h) == {i \in Successes(h) : h[i].cost # None}
Spreads(h) == [i \in Successes(h) |-> h[i].spread]
CostsOf(h) == [i \in Costed(h) |-> h[i].cost]
Depths(h) == [i \in Successes(h) |-> h[i].depth]

\* Mutant.
AtRank_AsStored(values, k) ==
    values[CHOOSE i \in DOMAIN values :
             Cardinality({j \in DOMAIN values : j <= i}) = k]
\* The k-th of the values when they are sorted.
AtRank(values, k) ==
    CHOOSE v \in {values[i] : i \in DOMAIN values} :
        /\ Cardinality({i \in DOMAIN values : values[i] < v}) < k
        /\ Cardinality({i \in DOMAIN values : values[i] <= v}) >= k

\* The p-th percentile in hundredths, interpolated between two ranks.
Percentile(values, p) ==
    LET position == (Cardinality(DOMAIN values) - 1) * p
        lower == AtRank(values, (position \div 100) + 1)
        upper == AtRank(values, ((position + 99) \div 100) + 1)
    IN 100 * lower + (upper - lower) * (position % 100)

\* evidence_sufficiency: enough measurements over enough time.
Sufficient(h) ==
    /\ Cardinality(Successes(h)) >= MinSamples
    /\ \E i, j \in Successes(h) : h[j].at - h[i].at >= MinSpan

Inside(h, envelope) ==
    /\ 100 * Cardinality(Successes(h)) >= envelope.availability * Len(h)
    /\ Percentile(CostsOf(h), 90) <= 100 * envelope.cost
    /\ Percentile(Spreads(h), 90) <= 100 * envelope.spread
    /\ Percentile(Depths(h), 50) >= 100 * envelope.depth

\* classify_summary
Classify(h) ==
    IF ~Sufficient(h) \/ Costed(h) = {} THEN "UNKNOWN"
    ELSE IF Inside(h, Suitable) THEN "SUITABLE"
    ELSE IF Inside(h, Marginal) THEN "MARGINAL" ELSE "POOR"

-----------------------------------------------------------------------------
Init == book \in Books /\ samples = <<>> /\ suitability = "UNKNOWN"

Move(b) == b # book /\ book' = b /\ UNCHANGED <<samples, suitability>>

\* An observation is stored, measured or not, and the contract is classified
\* from all it has.
Store(sample) ==
    /\ Len(samples) < MaxSamples
    /\ samples' = Append(samples, sample)
    /\ suitability' = Classify(samples')
    /\ UNCHANGED book

Observe ==
    /\ Measurable(book)
    /\ Store([observed |-> TRUE, spread |-> Spread(book), cost |-> Cost(book),
              depth |-> MinDepth(book), at |-> Len(samples)])
Unavailable ==
    Store([observed |-> FALSE, spread |-> None, cost |-> None, depth |-> None,
           at |-> Len(samples)])

Next == (\E b \in Books : Move(b)) \/ Observe \/ Unavailable
Spec == Init /\ [][Next]_vars

-----------------------------------------------------------------------------
\* The walk takes the best of the book: no other way of taking the same money
\* from the levels sells less, or buys more, and it fills the money whenever
\* the book holds it.
WaysToTake(side, notional) ==
    {w \in [1..Len(side) -> 0..notional] :
        /\ Total(w, Len(side)) = notional
        /\ \A i \in 1..Len(side) : w[i] <= side[i][1] * side[i][2]}
BaseOf(side, w) ==
    Total([i \in 1..Len(side) |-> w[i] * (Scale \div side[i][1])], Len(side))
WalkIsBest ==
    LET bids == WaysToTake(book.bids, Notional)
        asks == WaysToTake(book.asks, Notional)
        sold == Walk(book.bids, Notional)
        bought == Walk(book.asks, Notional)
    IN /\ Complete(sold) = (bids # {}) /\ Complete(bought) = (asks # {})
       /\ Complete(sold) => /\ sold.spent = Notional
                            /\ \A w \in bids : sold.base <= BaseOf(book.bids, w)
       /\ Complete(bought) => /\ bought.spent = Notional
                              /\ \A w \in asks : bought.base >= BaseOf(book.asks, w)

\* A contract is admitted on what is typical of it: measured often enough, all
\* but the worst tenth of its known costs and of its spreads within the
\* envelope and half of its depths, whatever the interpolation between the
\* ranks makes of them.
FewOf(chosen, all) == 10 * Cardinality(chosen) < Cardinality(all) + 9
AdmittedOnTypicalCost ==
    LET envelope == IF suitability = "SUITABLE" THEN Suitable ELSE Marginal
        Costly == {i \in Costed(samples) : samples[i].cost > envelope.cost}
        Wide == {i \in Successes(samples) : samples[i].spread > envelope.spread}
        Thin == {i \in Successes(samples) : samples[i].depth < envelope.depth}
    IN suitability \in {"SUITABLE", "MARGINAL"} =>
        /\ Cardinality(Successes(samples)) >= MinSamples
        /\ FewOf(Costly, Costed(samples)) /\ FewOf(Wide, Successes(samples))
        /\ 2 * Cardinality(Thin) <= Cardinality(Successes(samples))

\* What a contract costs and what is made of it are both true to the books.
CostIsHonest == WalkIsBest /\ AdmittedOnTypicalCost
=============================================================================
