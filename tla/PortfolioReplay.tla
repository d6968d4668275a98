--------------------------- MODULE PortfolioReplay ---------------------------
(***************************************************************************)
(* Execution plans of short positions and the replay of a portfolio that   *)
(* opens them, each in isolated margin (execution_planning.py,             *)
(* portfolio_replay.py; the laboratory of routes_backtest_lab.py calls the *)
(* replay).  A plan is sized by the risk at its stop, and the replay       *)
(* checks again, with the portfolio as it is then, that it may be opened.  *)
(* Money, prices and contracts are integers, rates are per mille, and      *)
(* every division rounds down.  Hashes that bind a plan to its policies    *)
(* are the field intact of a plan.                                         *)
(***************************************************************************)
EXTENDS Integers, FiniteSets, FiniteSetsExt

CONSTANTS
    Events,         \* the events a request may hold
    MaxEvents,      \* the number of events of a request
    InitialEquity,
    Policy,         \* the risk policy, rates per mille
    Costs,          \* the cost policy, rates per mille
    Market          \* the filters of the contract and its risk parameters

Mille == 1000
Least(S) == CHOOSE x \in S : \A y \in S : x <= y
Greatest(S) == CHOOSE x \in S : \A y \in S : x >= y
Floor(x, step) == (x \div step) * step
Ceiling(x, step) == ((x + step - 1) \div step) * step

VARIABLES
    submitted,      \* the events of the request not yet applied
    cash, peak, drawdown,
    positions,      \* the open positions, by id
    closed,         \* what was closed, and how
    skipped,        \* the signals that were not opened, and why
    failed          \* the replay raised an error

vars == <<submitted, cash, peak, drawdown, positions, closed, skipped, failed>>

-----------------------------------------------------------------------------
(* The plan of a signal.                                                    *)

\* The public filters and the risk parameters together: the older of the two
\* times, the earlier of the two ends.
ObservedAt(o) == Least({o.seenAt, Market.provenAt})
ExpiresAt(o) == Least({o.seenAt + Market.maxAge + 1, Market.provenUntil})
ConstraintsUsable(o) ==
    /\ o.at >= o.seenAt /\ o.at - o.seenAt <= Market.maxAge
    /\ Market.provenAt <= o.at /\ o.at < Market.provenUntil
    /\ ObservedAt(o) <= o.at /\ o.at < ExpiresAt(o)

\* The entry of a short is rounded down, its targets and its stop up.
Levels(o) ==
    [entry |-> Floor(o.entry, Market.tick), tp1 |-> Ceiling(o.tp1, Market.tick),
     tp2 |-> Ceiling(o.tp2, Market.tick), stop |-> Ceiling(o.stop, Market.tick)]
Ordered(l) == 0 < l.tp2 /\ l.tp2 < l.tp1 /\ l.tp1 < l.entry /\ l.entry < l.stop
InBand(o, l) ==
    \A price \in {l.entry, l.tp1, l.tp2, l.stop} :
        /\ price * Mille >= o.mark * (Mille - Market.lower)
        /\ price * Mille <= o.mark * (Mille + Market.upper)

SafeLeverage(o) == Least(o.bounds \cup {o.exchangeMax})
LeverageBlocked(o) ==
    \/ o.exchangeMax > Market.maximumLeverage
    \/ SafeLeverage(o) < Policy.minimumLeverage

LiquidationPrice(entry, quantity, margin, rate) ==
    ((margin + quantity * entry) * Mille)
        \div (quantity * (Mille + rate + Market.liquidationFee))

\* The lowest price among the tiers whose notional covers it; no tier is an
\* error.
LiquidationPrices(entry, quantity, margin) ==
    {p \in {LiquidationPrice(entry, quantity, margin, t.rate) : t \in Market.tiers} :
        \E t \in Market.tiers :
            /\ p = LiquidationPrice(entry, quantity, margin, t.rate)
            /\ quantity * p >= t.floor /\ quantity * p < t.cap}

FundingRate == Greatest({-Costs.funding, 0})
EntryRate == Costs.taker + Costs.entrySlippage
StopRate == Costs.taker + Costs.exitSlippage + FundingRate
TargetRate == Costs.maker + Costs.exitSlippage + FundingRate

\* What a contract loses at the stop, costs included, times a thousand.
RiskPerContract(l) ==
    (l.stop - l.entry) * Mille + l.entry * EntryRate + l.stop * StopRate
Equity(o) == o.cash + Least({o.unrealized, 0})
Leverage(o) == Least({Policy.maximumLeverage, SafeLeverage(o)})
Quantity(o, l) ==
    Floor(Least({(Equity(o) * o.rate) \div RiskPerContract(l),
                 (Equity(o) * Policy.positionMargin * Leverage(o))
                     \div (l.entry * Mille)}), Market.step)

Margin(o, l) == (Quantity(o, l) * l.entry) \div Leverage(o)

\* What the caps say of one more position, given what is open.
Locked(open) == MapThenSumSet(LAMBDA p : p.margin, open)
Risk(open) == MapThenSumSet(LAMBDA p : p.risk, open)
OfCluster(open, cluster) == {p \in open : p.cluster = cluster}
PortfolioReasons(open, equity, cluster, margin, risk) ==
    (IF Cardinality(open) >= Policy.slots THEN {"SLOT_CAP"} ELSE {})
    \cup (IF (Locked(open) + margin) * Mille > equity * Policy.lockedMargin
          THEN {"LOCKED_MARGIN_CAP"} ELSE {})
    \cup (IF (equity - Locked(open) - margin) * Mille < equity * Policy.reserve
          THEN {"FREE_RESERVE"} ELSE {})
    \cup (IF (Risk(open) + risk) * Mille > equity * Policy.openRisk
          THEN {"OPEN_RISK_CAP"} ELSE {})
    \cup (IF (Risk(OfCluster(open, cluster)) + risk) * Mille > equity * Policy.clusterRisk
          THEN {"CLUSTER_RISK_CAP"} ELSE {})

PlanReasons(o, l, quantity, margin, risk) ==
    PortfolioReasons(o.exposures, Equity(o), o.cluster, margin, risk)
    \cup (IF (Least(LiquidationPrices(l.entry, quantity, margin)) - l.stop) * Mille
                < l.entry * Costs.buffer
          THEN {"LIQUIDATION_BUFFER"} ELSE {})
    \cup (IF (quantity * ((l.entry - l.tp2) * Mille - l.entry * EntryRate
                - l.tp2 * TargetRate)) < Policy.rewardRisk * risk
          THEN {"NET_REWARD_RISK"} ELSE {})

Blocked == [status |-> "BLOCKED"]
Plan(o) ==
    LET l == Levels(o)
        quantity == Quantity(o, l)
        margin == Margin(o, l)
        risk == (quantity * RiskPerContract(l)) \div Mille
    IN  IF \/ ~ConstraintsUsable(o) \/ ~Ordered(l) \/ LeverageBlocked(o)
           \/ Equity(o) <= 0 \/ o.rate <= 0 \/ o.rate > Policy.positionRisk
           \/ quantity < Market.minQuantity
           \/ quantity * l.entry < Market.minNotional \/ ~InBand(o, l)
        THEN Blocked
        ELSE IF PlanReasons(o, l, quantity, margin, risk) # {} THEN Blocked
        ELSE [status |-> "READY", at |-> o.at, signal |-> o.signal,
              cluster |-> o.cluster, entry |-> l.entry, quantity |-> quantity,
              margin |-> margin, risk |-> risk,
              cost |-> (quantity * l.entry * EntryRate) \div Mille,
              liquidation |-> Least(LiquidationPrices(l.entry, quantity, margin))]

\* The state of a request: events of a sound shape.  The planner raises where
\* no tier covers the liquidation, so such a plan reaches no event; and what
\* is filled of an order is never nothing, which rounding must not make it.
OfferShaped(o) ==
    /\ o.entry \in Nat /\ o.tp1 \in Nat /\ o.tp2 \in Nat /\ o.stop \in Nat
    /\ o.exchangeMax \in Nat /\ o.rate \in Nat /\ o.bounds \subseteq Nat
    /\ o.cash \in Int /\ o.unrealized \in Int
Shaped(e) ==
    /\ e.type = "OPEN" =>
          /\ e.rejected <=> e.fill = 0
          /\ e.fill \in 0..Mille /\ OfferShaped(e.offer)
    /\ e.type = "FUNDING" => e.amount \in Int
    /\ e.type \in {"MARK", "CLOSE"} => e.price \in Nat \ {0} /\ e.cost \in Nat
Filled(e) ==
    LET plan == Plan(e.offer)
        l == Levels(e.offer)
    IN  plan.status = "READY" /\ ~e.rejected =>
            /\ LiquidationPrices(l.entry, plan.quantity, plan.margin) # {}
            /\ (plan.quantity * e.fill) \div Mille > 0
            /\ (plan.margin * e.fill) \div Mille > 0
PolicyAssumption ==
    /\ Policy.minimumLeverage \in Nat \ {0} /\ Policy.maximumLeverage \in Nat \ {0}
    /\ Policy.positionMargin \in Nat
    /\ Costs.taker \in Nat /\ Costs.entrySlippage \in Nat
    /\ Costs.exitSlippage \in Nat /\ Costs.funding \in Int
    /\ Market.tick \in Nat \ {0} /\ Market.step \in Nat \ {0}
    /\ Market.minQuantity \in Nat \ {0} /\ Market.liquidationFee \in Nat
    /\ \A t \in Market.tiers : t.rate \in Nat
PortfolioAssumption ==
    /\ PolicyAssumption
    /\ \A e \in Events : Shaped(e)
    /\ \A e, f \in Events : e.id = f.id => e = f
    /\ InitialEquity \in Nat \ {0}
    /\ \A e \in Events : e.type = "OPEN" => Filled(e)

-----------------------------------------------------------------------------
(* The replay.                                                              *)

Init ==
    /\ submitted \in {s \in SUBSET Events : Cardinality(s) <= MaxEvents}
    /\ cash = InitialEquity /\ peak = InitialEquity /\ drawdown = 0
    /\ positions = {} /\ closed = {} /\ skipped = {} /\ failed = FALSE

\* At one time funding is booked first, then closes, opens and marks.
Priority(type) ==
    CASE type = "FUNDING" -> 10 [] type = "CLOSE" -> 20
      [] type = "OPEN" -> 30 [] OTHER -> 40
Before(e, f) ==
    \/ e.at < f.at
    \/ e.at = f.at /\ Priority(e.type) < Priority(f.type)
    \/ e.at = f.at /\ Priority(e.type) = Priority(f.type) /\ e.id <= f.id

Unrealized(open) ==
    MapThenSumSet(LAMBDA p : p.quantity * (p.entry - p.mark), open)
Conservative == cash + Least({Unrealized(positions), 0})
At(id) == {p \in positions : p.id = id}

\* What is filled of a plan.
Position(e, plan) ==
    [id |-> e.position, signal |-> plan.signal, cluster |-> plan.cluster,
     quantity |-> (plan.quantity * e.fill) \div Mille,
     entry |-> plan.entry, mark |-> plan.entry,
     margin |-> (plan.margin * e.fill) \div Mille,
     risk |-> (plan.risk * e.fill) \div Mille,
     cost |-> (plan.cost * e.fill) \div Mille,
     liquidation |-> plan.liquidation, funding |-> 0]

PlanUnbound(e, plan) ==
    \/ ~e.intact \/ plan.signal # e.signal \/ plan.cluster # e.cluster
    \/ plan.at > e.at

CapacityReasons(p) ==
    (IF Conservative <= 0 THEN {"EQUITY_EXHAUSTED"} ELSE {})
    \cup (IF p.margin * Mille > Conservative * Policy.positionMargin
          THEN {"POSITION_MARGIN_CAP"} ELSE {})
    \cup PortfolioReasons(positions, Conservative, p.cluster, p.margin, p.risk)

Booked(cashNow, open) ==
    LET equity == cashNow + Unrealized(open)
        top == Greatest({peak, equity})
    IN  /\ cash' = cashNow /\ positions' = open
        /\ peak' = top
        /\ drawdown' = IF top > 0
                       THEN Greatest({drawdown, ((top - equity) * Mille) \div top})
                       ELSE drawdown

Skip(e, reason) ==
    /\ skipped' = skipped \cup {[signal |-> e.signal, reason |-> reason]}
    /\ Booked(cash, positions) /\ UNCHANGED <<closed, failed>>

Open(e) ==
    LET plan == Plan(e.offer)
        position == Position(e, plan)
    IN  IF e.rejected THEN Skip(e, "ORDER_REJECTED")
        ELSE IF plan.status # "READY" THEN Skip(e, "PLAN_NOT_READY")
        ELSE IF PlanUnbound(e, plan) THEN Skip(e, "PLAN_UNBOUND")
        ELSE IF At(e.position) # {} THEN Skip(e, "POSITION_ALREADY_OPEN")
        ELSE IF CapacityReasons(position) # {} THEN Skip(e, "PORTFOLIO")
        ELSE /\ Booked(cash - position.cost, positions \cup {position})
             /\ UNCHANGED <<closed, skipped, failed>>

Ignored == Booked(cash, positions) /\ UNCHANGED <<closed, skipped, failed>>

\* Funding moves the margin of the position, and with it the price at which
\* it is liquidated; an exhausted margin raises, and so does a missing tier.
Relevered_Stale(p, margin) ==
    [p EXCEPT !.margin = margin]
Relevered(p, margin) ==
    [p EXCEPT !.margin = margin,
              !.liquidation = Least(LiquidationPrices(p.entry, p.quantity, margin))]

Funding(e) ==
    IF At(e.position) = {} THEN Ignored
    ELSE \E p \in At(e.position) :
        LET margin == p.margin + e.amount
        IN  IF margin <= 0 \/ LiquidationPrices(p.entry, p.quantity, margin) = {}
            THEN failed' = TRUE
                 /\ UNCHANGED <<cash, peak, drawdown, positions, closed, skipped>>
            ELSE /\ Booked(cash + e.amount,
                       (positions \ {p})
                       \cup {[Relevered(p, margin) EXCEPT !.funding = @ + e.amount]})
                 /\ UNCHANGED <<closed, skipped, failed>>

ExitPrice(p, price) == IF price >= p.liquidation THEN p.liquidation ELSE price

Closed(e, p) ==
    LET gross == p.quantity * (p.entry - ExitPrice(p, e.price))
    IN  /\ closed' = closed \cup
              {[id |-> p.id, by |-> e.id, gross |-> gross, funding |-> p.funding,
                staked |-> p.margin - p.funding,
                liquidated |-> e.price >= p.liquidation]}
        /\ Booked(cash + gross - e.cost, positions \ {p})
        /\ UNCHANGED <<skipped, failed>>

Mark(e) ==
    IF At(e.position) = {} THEN Ignored
    ELSE \E p \in At(e.position) :
        IF e.price < p.liquidation
        THEN /\ Booked(cash, (positions \ {p}) \cup {[p EXCEPT !.mark = e.price]})
             /\ UNCHANGED <<closed, skipped, failed>>
        ELSE Closed(e, p)

Close(e) ==
    IF At(e.position) = {} THEN Ignored
    ELSE \E p \in At(e.position) : Closed(e, p)

Replay ==
    \E e \in submitted :
        /\ ~failed
        /\ \A f \in submitted : Before(e, f)
        /\ submitted' = submitted \ {e}
        /\ \/ e.type = "OPEN" /\ Open(e)
           \/ e.type = "FUNDING" /\ Funding(e)
           \/ e.type = "MARK" /\ Mark(e)
           \/ e.type = "CLOSE" /\ Close(e)

Next == Replay
Spec == Init /\ [][Next]_vars

-----------------------------------------------------------------------------
TypeOK ==
    /\ submitted \subseteq Events /\ failed \in BOOLEAN
    /\ cash \in Int /\ peak >= InitialEquity /\ drawdown \in Nat
    /\ \A p, q \in positions : p.id = q.id => p = q
    /\ \A p \in positions : p.margin > 0 /\ p.mark > 0

\* A position in isolated margin never costs more than what was staked on it:
\* what it lost by price and paid as funding together are covered by its own
\* margin, however far the price of an event had already run beyond its
\* liquidation and however funding had moved it (portfolio_replay.py
\* _apply_funding, _apply_mark, _apply_close, _close).
LossIsIsolated ==
    \A c \in closed : c.gross + c.funding >= -c.staked
=============================================================================
