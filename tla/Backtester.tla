----------------------------- MODULE Backtester -----------------------------
(***************************************************************************)
(* The automatic backtester: it risks a share of its capital on each       *)
(* signal, walks the candles that followed, books the result and learns    *)
(* from the losses.  A trade is booked by three or four transactions and   *)
(* the memory between them: the row of the trade, the point of the equity  *)
(* curve, the mistakes, the calibration.  Any of them may fail, which ends *)
(* the call with no result and keeps what was done before; a restart reads *)
(* the memory back from the tables.                                        *)
(* Prices are distances from the entry, positive in favour of the trade,   *)
(* so a long and a short trade are one case.  Shares are eighths of the    *)
(* position, scores tenths of a point, money is in whole units.            *)
(***************************************************************************)
EXTENDS Integers, Sequences, FiniteSets

CONSTANTS
    Signals,        \* [ready, flaws, plan |-> [stop, targets]]
    Histories,      \* sequences of candles [best, worst, close]
    InitialCapital,
    RiskPerTrade,   \* in percent of the capital
    ReviewEvery,    \* trades between two calibrations
    Repeated,       \* how often a mistake is made before it counts
    Proven,         \* trades before the win rate counts
    MaxTrades,      \* bound: trades
    MaxFaults       \* bound: failed writes

DefaultMinimum == 700
HighestMinimum == 850
HighestAdjustment == 100
WeakScore == 750

Candles == [best : Int, worst : Int, close : Int]

\* A plan's targets lie on the other side of the entry than its stop, and a
\* candle closes between its extremes.
BacktesterAssumption ==
    /\ InitialCapital \in Nat /\ RiskPerTrade \in Nat
    /\ \A s \in Signals :
          /\ s.plan.stop \in Nat
          /\ \A i \in 1..3 : s.plan.targets[i] \in Nat \ {0}
    /\ Histories \subseteq Seq(Candles)
    /\ \A h \in Histories : \A i \in 1..Len(h) :
          h[i].worst <= h[i].close /\ h[i].close <= h[i].best
    /\ ReviewEvery \in Nat \ {0} /\ Repeated \in Nat /\ Proven \in Nat \ {0}
    /\ MaxTrades \in Nat /\ MaxFaults \in Nat

Kinds == {"low_readiness", "cross_exchange_false", "cascade_incomplete",
          "bad_timing", "chasing_price", "adverse_market", "timeout_loss"}
Outcomes == {"win_tp1", "win_tp2", "win_tp3", "loss_sl", "loss_timeout"}
Wins == {"win_tp1", "win_tp2", "win_tp3"}

VARIABLES
    memory,       \* what the object holds
    trades,       \* backtest_trades: [outcome, pnl, risk]
    equity,       \* backtest_equity: [capital, total], and upto, auxiliary:
                  \* the trades there were when the point was written
    mistakes,     \* backtest_mistakes, counted by kind
    calibration,  \* backtest_calibration, as a set of at most one row
    forgotten,    \* auxiliary: the trades a restart left out of the capital
    faults

vars == <<memory, trades, equity, mistakes, calibration, forgotten, faults>>

TypeOK ==
    /\ memory.capital \in Int /\ memory.total \in 0..MaxTrades
    /\ memory.minimum \in DefaultMinimum..HighestMinimum
    /\ memory.adjustment \in 0..HighestAdjustment
    /\ trades \in Seq([outcome : Outcomes, pnl : Int, risk : Nat])
    /\ Len(trades) <= MaxTrades
    /\ equity # <<>>
    /\ mistakes \in [Kinds -> Nat] /\ DOMAIN memory.patterns = Kinds
    /\ forgotten \subseteq 1..Len(trades)
    /\ faults \in 0..MaxFaults

-----------------------------------------------------------------------------
(* The walk through the candles.                                           *)

\* What a target closes: half, a quarter of the rest, and the rest.
Closes == <<4, 1, 3>>

Untouched == [open |-> 8, gained |-> 0, targets |-> 0, stopped |-> FALSE]
StopOf(walk, plan) == IF walk.targets = 0 THEN -plan.stop ELSE 0

\* Mutant.
AfterCandle_AtWorst(walk, plan, candle) ==
    IF walk.stopped \/ walk.targets = 3 THEN walk
    ELSE IF candle.worst <= StopOf(walk, plan)
    THEN [walk EXCEPT !.stopped = TRUE,
                      !.gained = @ + walk.open * candle.worst, !.open = 0]
    ELSE IF candle.best >= plan.targets[walk.targets + 1]
    THEN [walk EXCEPT !.targets = @ + 1,
                      !.gained = @ + Closes[walk.targets + 1] * plan.targets[walk.targets + 1],
                      !.open = @ - Closes[walk.targets + 1]]
    ELSE walk
\* One candle: the stop first, at most one target, and after the first target
\* the stop stands at the entry.
AfterCandle(walk, plan, candle) ==
    IF walk.stopped \/ walk.targets = 3 THEN walk
    ELSE IF candle.worst <= StopOf(walk, plan)
    THEN [walk EXCEPT !.stopped = TRUE,
                      !.gained = @ + walk.open * StopOf(walk, plan), !.open = 0]
    ELSE IF candle.best >= plan.targets[walk.targets + 1]
    THEN [walk EXCEPT !.targets = @ + 1,
                      !.gained = @ + Closes[walk.targets + 1] * plan.targets[walk.targets + 1],
                      !.open = @ - Closes[walk.targets + 1]]
    ELSE walk

Walked(plan, history) ==
    LET after[n \in 0..Len(history)] ==
            IF n = 0 THEN Untouched ELSE AfterCandle(after[n - 1], plan, history[n])
    IN after[Len(history)]
Newest(s) == s[Len(s)]

\* What is left is closed at the last price.
Gain(plan, history) ==
    Walked(plan, history).gained + Walked(plan, history).open * Newest(history).close

OutcomeOf(plan, history) ==
    LET walk == Walked(plan, history)
    IN IF walk.stopped THEN "loss_sl"
       ELSE IF walk.targets = 3 THEN "win_tp3"
       ELSE IF walk.targets = 2 THEN "win_tp2"
       ELSE IF walk.targets = 1 THEN "win_tp1"
       ELSE "loss_timeout"

-----------------------------------------------------------------------------
(* What a trade does to the memory.                                        *)

\* calculate_position_size: the shares risk this much down to the stop.
RiskAmount == (memory.capital * RiskPerTrade) \div 100
RowOf(signal, history) ==
    [outcome |-> OutcomeOf(signal.plan, history), risk |-> RiskAmount,
     pnl |-> (Gain(signal.plan, history) * RiskAmount) \div (8 * signal.plan.stop)]

Larger(a, b) == IF a > b THEN a ELSE b
Smaller(a, b) == IF a < b THEN a ELSE b

Booked(row) ==
    LET capital == memory.capital + row.pnl
        peak == Larger(memory.peak, capital)
    IN [memory EXCEPT
            !.capital = capital, !.total = @ + 1,
            !.wins = IF row.outcome \in Wins THEN @ + 1 ELSE @,
            !.losses = IF row.outcome \in Wins THEN @ ELSE @ + 1,
            !.peak = peak, !.drawdown = Larger(@, peak - capital)]

Flaws(signal, row) ==
    IF row.outcome \in Wins THEN {}
    ELSE signal.flaws
        \cup (IF signal.ready < WeakScore THEN {"low_readiness"} ELSE {})
        \cup (IF row.outcome = "loss_timeout" THEN {"timeout_loss"} ELSE {})
Counted(counts, kinds) ==
    [k \in Kinds |-> IF k \in kinds THEN counts[k] + 1 ELSE counts[k]]

\* _recalibrate: mistakes made again and again raise the bar, a good win rate
\* lowers it.
Often(m, k) == m.patterns[k] >= Repeated
Frequent(m, k) == Often(m, k) /\ 10 * m.patterns[k] > 3 * Larger(m.losses, 1)
Raised(m, kind, by) ==
    IF kind THEN [m EXCEPT !.minimum = Smaller(HighestMinimum, @ + by)] ELSE m
Strained(m) ==
    IF Frequent(m, "cross_exchange_false")
    THEN [m EXCEPT !.adjustment = Smaller(HighestAdjustment, @ + 5)] ELSE m
Relaxed(m) ==
    IF m.total >= Proven /\ 100 * m.wins >= 55 * m.total
    THEN [m EXCEPT !.minimum = Larger(DefaultMinimum, @ - 5),
                   !.adjustment = Larger(0, @ - 2)]
    ELSE m
Recalibrated(m) ==
    IF m.total % ReviewEvery # 0 \/ (\A k \in Kinds : m.patterns[k] = 0) THEN m
    ELSE LET weak == Strained(Raised(m, Frequent(m, "low_readiness"), 10))
             late == Raised(weak, Often(m, "chasing_price"), 5)
         IN Relaxed(Raised(late, Often(m, "bad_timing"), 5))

-----------------------------------------------------------------------------
(* The transactions.                                                       *)

\* Mutant.
Point_Before(booked) ==
    [capital |-> memory.capital, total |-> booked.total, upto |-> Len(trades) + 1]
Point(booked) ==
    [capital |-> booked.capital, total |-> booked.total, upto |-> Len(trades) + 1]

\* Skipped without a trace: no ENTRY_READY, a score under the bar, no distance
\* to the stop, no capital left, no candles.
Taken(signal, history) ==
    /\ Len(trades) < MaxTrades
    /\ signal.ready >= memory.minimum + memory.adjustment
    /\ signal.plan.stop > 0 /\ memory.capital > 0 /\ history # <<>>

\* run_signal_trade as far as its first `done' transactions: the row of the
\* trade, the point of the curve, the mistakes, the calibration.
Written(signal, history, done) ==
    LET row == RowOf(signal, history)
        booked == Booked(row)
        learned == [booked EXCEPT !.patterns = Counted(@, Flaws(signal, row))]
        reviewed == Recalibrated(learned)
        changed == <<reviewed.minimum, reviewed.adjustment>>
                        # <<memory.minimum, memory.adjustment>>
    IN /\ done = 2 => row.outcome \notin Wins
       /\ done = 3 => changed
       /\ trades' = Append(trades, row)
       /\ memory' = IF done = 1 THEN booked ELSE IF done = 2 THEN learned ELSE reviewed
       /\ equity' = IF done >= 2 THEN Append(equity, Point(booked)) ELSE equity
       /\ mistakes' =
            IF done >= 3 THEN Counted(mistakes, Flaws(signal, row)) ELSE mistakes
       /\ calibration' =
            IF done = 4 /\ changed
            THEN {[minimum |-> reviewed.minimum, adjustment |-> reviewed.adjustment]}
            ELSE calibration
       /\ UNCHANGED forgotten

Trade(signal, history) ==
    /\ Taken(signal, history)
    /\ Written(signal, history, 4)
    /\ UNCHANGED faults

\* The next transaction fails: the exception is logged and the call returns
\* nothing.
TradeFails(signal, history, done) ==
    /\ Taken(signal, history)
    /\ faults < MaxFaults
    /\ Written(signal, history, done)
    /\ faults' = faults + 1

\* _load_state, _load_calibration: the capital and the count come from the
\* last point of the curve, the wins and losses from the trades.
CountOf(outcomes) == Cardinality({i \in DOMAIN trades : trades[i].outcome \in outcomes})
Extended(c, capital) ==
    LET peak == Larger(c.peak, capital)
    IN [peak |-> peak, drawdown |-> Larger(c.drawdown, peak - capital)]
CurveOf(points) ==
    LET upTo[n \in 0..Len(points)] ==
            IF n = 0 THEN [peak |-> InitialCapital, drawdown |-> 0]
            ELSE Extended(upTo[n - 1], points[n].capital)
    IN upTo[Len(points)]
Curve == CurveOf(equity)
Restart ==
    LET learned == [minimum |-> DefaultMinimum, adjustment |-> 0]
        kept == IF calibration = {} THEN learned ELSE CHOOSE row \in calibration : TRUE
    IN memory' = [capital |-> Newest(equity).capital, total |-> Newest(equity).total,
                  wins |-> CountOf(Wins), losses |-> CountOf(Outcomes \ Wins),
                  peak |-> Curve.peak, drawdown |-> Curve.drawdown,
                  patterns |-> mistakes,
                  minimum |-> kept.minimum, adjustment |-> kept.adjustment]
    /\ forgotten' = forgotten \cup (Newest(equity).upto + 1 .. Len(trades))
    /\ UNCHANGED <<trades, equity, mistakes, calibration, faults>>

Fresh ==
    [capital |-> InitialCapital, total |-> 0, wins |-> 0, losses |-> 0,
     peak |-> InitialCapital, drawdown |-> 0, patterns |-> [k \in Kinds |-> 0],
     minimum |-> DefaultMinimum, adjustment |-> 0]
FirstPoint == [capital |-> InitialCapital, total |-> 0, upto |-> 0]

Init ==
    /\ memory = Fresh
    /\ trades = <<>> /\ equity = <<FirstPoint>>
    /\ mistakes = [k \in Kinds |-> 0] /\ calibration = {}
    /\ forgotten = {} /\ faults = 0

\* A crash between the deletes and the first point of the new curve ends the
\* same way: a start with an empty curve writes that point.
Reset ==
    /\ memory' = Fresh
    /\ trades' = <<>> /\ equity' = <<FirstPoint>>
    /\ mistakes' = [k \in Kinds |-> 0] /\ calibration' = {}
    /\ forgotten' = {}
    /\ UNCHANGED faults

Next ==
    \/ Restart \/ Reset
    \/ \E signal \in Signals, history \in Histories :
            \/ Trade(signal, history)
            \/ \E done \in 1..3 : TradeFails(signal, history, done)

Spec == Init /\ [][Next]_vars

-----------------------------------------------------------------------------
(* Properties                                                              *)

\* What the chosen trades earned.
Earned(rows, chosen) ==
    LET sum[n \in 0..Len(rows)] ==
            IF n = 0 THEN 0
            ELSE IF n \in chosen THEN sum[n - 1] + rows[n].pnl ELSE sum[n - 1]
    IN sum[Len(rows)]

\* compute_metrics: the report reads the trades and the curve, not the memory.
Report ==
    [total |-> Len(trades), drawdown |-> Curve.drawdown,
     wins |-> Cardinality({i \in DOMAIN trades : trades[i].pnl > 0}),
     losses |-> Cardinality({i \in DOMAIN trades : trades[i].pnl < 0}),
     profit |-> Earned(trades, DOMAIN trades)]

\* Every trade is in the capital once, whichever write failed before: what a
\* failed point of the curve left out the next point brings back, and only a
\* restart before it leaves a trade out for good.  The report and the memory
\* then differ by just those trades.
EveryResultCounted ==
    /\ memory.capital
        = InitialCapital + Report.profit - Earned(trades, forgotten)
    /\ memory.total = Report.total - Cardinality(forgotten)
    /\ memory.wins + memory.losses = Report.total
    /\ memory.drawdown >= Report.drawdown
    /\ Cardinality(forgotten) <= faults

\* However the candles run, a trade loses no more than the amount it set out
\* to risk, and one that was counted as a win after its second target gains:
\* something, unless the amount is too small to show in whole units of money.
Fine(amount) == \A s \in Signals : amount >= 8 * s.plan.stop
RiskIsBounded ==
    \A i \in DOMAIN trades :
        /\ trades[i].pnl >= -trades[i].risk
        /\ trades[i].outcome \in {"win_tp2", "win_tp3"} =>
              trades[i].pnl >= (IF Fine(trades[i].risk) THEN 1 ELSE 0)

\* The books of the backtester hold through failed writes and restarts.
CapitalIsAccounted == EveryResultCounted /\ RiskIsBounded
=============================================================================
