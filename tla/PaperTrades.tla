---------------------------- MODULE PaperTrades ----------------------------
(***************************************************************************)
(* The per-signal backtest: an evaluation that finds ENTRY_READY opens one *)
(* paper trade per symbol, in memory only, and every evaluation settles    *)
(* all open trades against the live prices.  The closed trades of one pass *)
(* are written in one transaction and forgotten after it; a failed write   *)
(* leaves all of them open, a restart loses them.                          *)
(***************************************************************************)
EXTENDS Integers, FiniteSets

CONSTANTS
    Symbols,
    MaxTrades,     \* bound: trades opened per symbol
    MaxFaults      \* bound: failed writes and restarts

TradesAssumption ==
    /\ IsFiniteSet(Symbols) /\ MaxTrades \in Nat /\ MaxFaults \in Nat

\* Where the live price stands relative to the levels of the open trade;
\* "gone" when no price is known, the symbol having left the universe.
Prices == {"stop", "between", "tp1", "tp2", "gone"}

VARIABLES
    price,      \* of each symbol
    open,       \* the trade in _backtest_active_trades, 0 for none
    overdue,    \* the symbols whose open trade is older than a day
    opened,     \* how many trades were opened for each symbol
    table,      \* the rows of bt_v2_trades: [symbol, trade, outcome]
    faults

vars == <<price, open, overdue, opened, table, faults>>

Outcomes == {"loss_sl", "win_tp2", "win_tp1", "timeout"}
Rows == [symbol : Symbols, trade : 1..MaxTrades, outcome : Outcomes]

TypeOK ==
    /\ price \in [Symbols -> Prices]
    /\ open \in [Symbols -> 0..MaxTrades]
    /\ overdue \subseteq Symbols
    /\ opened \in [Symbols -> 0..MaxTrades]
    /\ table \subseteq Rows
    /\ faults \in 0..MaxFaults

Init ==
    /\ price \in [Symbols -> {"between"}]
    /\ open = [s \in Symbols |-> 0]
    /\ overdue = {}
    /\ opened = [s \in Symbols |-> 0]
    /\ table = {}
    /\ faults = 0

\* The market moves, or the symbol leaves and rejoins the universe.
Move(s, p) ==
    /\ price[s] # p
    /\ price' = [price EXCEPT ![s] = p]
    /\ UNCHANGED <<open, overdue, opened, table, faults>>

\* A day passes for an open trade.
Elapse(s) ==
    /\ open[s] # 0 /\ s \notin overdue
    /\ overdue' = overdue \cup {s}
    /\ UNCHANGED <<price, open, opened, table, faults>>

\* _start_backtest_trade: a symbol has at most one open trade.
Started(s) ==
    IF open[s] = 0 THEN [open EXCEPT ![s] = opened[s] + 1] ELSE open

\* Mutant.
OutcomeOf_LivePrice(s) ==
    CASE price[s] = "stop" -> "loss_sl"
      [] price[s] = "tp2" -> "win_tp2"
      [] price[s] = "tp1" -> "win_tp1"
      [] price[s] = "between" /\ s \in overdue -> "timeout"
      [] OTHER -> "none"
\* The tests of one open trade, the stop first.
OutcomeOf(s) ==
    CASE price[s] = "stop" -> "loss_sl"
      [] price[s] = "tp2" -> "win_tp2"
      [] price[s] = "tp1" -> "win_tp1"
      [] price[s] \in {"between", "gone"} /\ s \in overdue -> "timeout"
      [] OTHER -> "none"
Settled(trades) == {s \in Symbols : trades[s] # 0 /\ OutcomeOf(s) # "none"}

\* Mutant.
Settlement_Forgets(trades) ==
    /\ table' = table \cup
            {[symbol |-> s, trade |-> trades[s], outcome |-> OutcomeOf(s)] :
                s \in Settled(trades)}
    /\ open' = trades
    /\ overdue' = overdue
\* What the pass does to the open trades and the table.
Settlement(trades) ==
    /\ table' = table \cup
            {[symbol |-> s, trade |-> trades[s], outcome |-> OutcomeOf(s)] :
                s \in Settled(trades)}
    /\ open' = [s \in Symbols |-> IF s \in Settled(trades) THEN 0 ELSE trades[s]]
    /\ overdue' = overdue \ Settled(trades)

\* An evaluation of a symbol: it may open its trade, and settles all.
Opens(s, ready) == IF ready THEN Started(s) ELSE open
Count(trades) == [r \in Symbols |->
                    IF trades[r] > opened[r] THEN trades[r] ELSE opened[r]]
Evaluation(s, ready) ==
    /\ ready => opened[s] < MaxTrades \/ open[s] # 0
    /\ Settlement(Opens(s, ready))
    /\ opened' = Count(Opens(s, ready))
    /\ UNCHANGED <<price, faults>>
SettlementFails(s, ready) ==
    /\ ready => opened[s] < MaxTrades \/ open[s] # 0
    /\ Settled(Opens(s, ready)) # {}
    /\ faults < MaxFaults
    /\ open' = Opens(s, ready)
    /\ opened' = Count(Opens(s, ready))
    /\ faults' = faults + 1
    /\ UNCHANGED <<price, overdue, table>>

\* A restart after the commit and before the trades are forgotten is the same
\* as one after both: nothing in memory survives.
Restart ==
    /\ faults < MaxFaults
    /\ open' = [s \in Symbols |-> 0]
    /\ overdue' = {}
    /\ faults' = faults + 1
    /\ UNCHANGED <<price, opened, table>>

Next ==
    \/ Restart
    \/ \E s \in Symbols : Elapse(s)
    \/ \E s \in Symbols, p \in Prices : Move(s, p)
    \/ \E s \in Symbols, ready \in BOOLEAN :
            Evaluation(s, ready) \/ SettlementFails(s, ready)

\* The loop evaluates the symbols of the universe again and again.
Fairness ==
    /\ \A s \in Symbols : WF_vars(Elapse(s))
    /\ WF_vars(\E s \in Symbols : Evaluation(s, FALSE))
Spec == Init /\ [][Next]_vars /\ Fairness

-----------------------------------------------------------------------------
(* Properties                                                              *)

\* No trade is counted twice, neither under two outcomes nor after a failed
\* write, and the table never holds a trade that is still open.
CountedOnce ==
    /\ \A r1, r2 \in table :
            (r1.symbol = r2.symbol /\ r1.trade = r2.trade) => r1 = r2
    /\ \A r \in table : open[r.symbol] # r.trade

\* An open trade ends: its symbol may have left the universe for good, its
\* price may never reach a level, and only a restart loses it.
OpenTradeEnds ==
    \A s \in Symbols, n \in 1..MaxTrades :
        (open[s] = n) ~> (open[s] # n)

\* A trade comes to an end and into the table at most once.
TradesSettle == []CountedOnce /\ OpenTradeEnds
=============================================================================
