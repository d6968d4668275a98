----------------------------- MODULE TradePlan -----------------------------
(***************************************************************************)
(* PositionCalculator and the leverage advisory of risk_manager: the       *)
(* levels of a short position and the leverage its evidence supports.      *)
(* Prices are integers, percentages are basis points, readiness is in      *)
(* points; a state is one set of inputs.                                   *)
(***************************************************************************)
EXTENDS Integers, FiniteSetsExt

CONSTANTS
    Entries, Highs, Atrs, Frictions, Ticks, Readinesses, ExchangeMaxima
        \* the values of the inputs that are tried
PlanAssumption ==
    /\ Entries \subseteq Nat \ {0} /\ Highs \subseteq Nat /\ Atrs \subseteq Nat
    /\ Frictions \subseteq Nat /\ Ticks \subseteq Nat \ {0}
    /\ Readinesses \subseteq 0..100 /\ ExchangeMaxima \subseteq Nat

Suitabilities == {"SUITABLE", "MARGINAL", "POOR"}
Inputs == [entry : Entries,      \* the price after entry slippage and fee
           high : Highs,         \* the recent high; 0: none
           atr : Atrs,           \* the reference ATR; 0: none
           friction : Frictions, \* the worst of spread and slippages
           tick : Ticks,         \* price increment of the venue
           readiness : Readinesses, suitability : Suitabilities,
           exchange : ExchangeMaxima]  \* leverage the venue allows; 0: unknown

VARIABLE input
vars == <<input>>
Init == input \in Inputs
Next == UNCHANGED vars
Spec == Init /\ [][Next]_vars
TypeOK == input \in Inputs

Larger(a, b) == IF a < b THEN b ELSE a
Plus(price, points) == (price * (10000 + points)) \div 10000

\* avoid_round_level: off the decade, its halves and its quarters, upwards.
Decade(price) == Max({d \in {1, 10, 100, 1000, 10000, 100000} : d <= price})
Nearest(price, step) == ((2 * price + step) \div (2 * step)) * step
Near(price, step, parts) ==
    LET gap == price - Nearest(price, step)
    IN gap * parts <= step /\ -gap * parts <= step
AvoidRound(price) ==
    LET d == Decade(price)
        away(step) == Nearest(price, step) +
                      Larger((price * 8) \div 10000, (step * 4) \div 1000)
    IN IF Near(price, d, 500) THEN away(d)
       ELSE IF Near(2 * price, d, 1000) THEN away(d \div 2)
       ELSE IF Near(4 * price, d, 1000) THEN away(d \div 4)
       ELSE price

\* The stop: two percent, or beyond the recent high, or 1.2 ATR, the farthest.
Structural(i) == IF i.high <= i.entry THEN Plus(i.entry, 200) ELSE Plus(i.high, 20)
AtrFloor(i) == Plus(i.entry, (i.atr * 12) \div 10)
\* Mutant.
BaseStop_StructureOnly(i) == Structural(i)
BaseStop(i) == Larger(Structural(i), AtrFloor(i))
Stop(i) == AvoidRound(BaseStop(i))

\* What a stopped trade costs with slippage and fee, and the two targets that
\* earn one and two times that after the carrying cost.
Fee == 6
Carry == 2 + 1 + 5
Risk(i) == Plus(Plus(Stop(i), i.friction), Fee) - i.entry
Target(i, times) ==
    i.entry - times * Risk(i) - (i.entry * (Carry + i.friction)) \div 10000

Aligned(price, tick) == Nearest(price, tick)
Levels(i) ==
    [entry |-> Aligned(i.entry, i.tick), stop |-> Aligned(Stop(i), i.tick),
     tp1 |-> Aligned(AvoidRound(Larger(1, Target(i, 1))), i.tick),
     tp2 |-> Aligned(AvoidRound(Larger(1, Target(i, 2))), i.tick)]
Ready(i) ==
    /\ 0 < Risk(i)
    /\ 0 < Target(i, 2) /\ Target(i, 2) < Target(i, 1) /\ Target(i, 1) < i.entry
    /\ LET l == Levels(i)
       IN 0 < l.tp2 /\ l.tp2 < l.tp1 /\ l.tp1 < l.entry /\ l.entry < l.stop

\* recommend_signal_leverage: the least of independent bounds.
LeverageMin == 4
LeverageMax == 18
ReadinessFloor == 70
ReadinessBound(readiness) ==
    Min({LeverageMax, LeverageMin + ((readiness - ReadinessFloor) * 14) \div 25})
StopBound(l) == (36 * l.entry) \div (100 * (l.stop - l.entry))
VolatilityBound(atr) == (18 * 250) \div (250 + Larger(atr - 50, 0))
FrictionBound(friction) ==
    IF friction <= 5 THEN 18
    ELSE IF friction <= 10 THEN 15
    ELSE IF friction <= 15 THEN 12
    ELSE IF friction <= 22 THEN 9
    ELSE IF friction <= 30 THEN 6
    ELSE 3
SuitabilityBound(s) ==
    IF s = "SUITABLE" THEN 18 ELSE IF s = "MARGINAL" THEN 10 ELSE 4
ExchangeBound(m) == IF m = 0 THEN 18 ELSE m
Bound(i) ==
    Min({LeverageMax, ReadinessBound(i.readiness), StopBound(Levels(i)),
         VolatilityBound(i.atr), FrictionBound(i.friction),
         SuitabilityBound(i.suitability), ExchangeBound(i.exchange)})
\* 0: not available, or not recommended.
Leverage(i) ==
    IF Ready(i) /\ i.atr > 0 /\ i.readiness >= ReadinessFloor /\ Bound(i) >= LeverageMin
    THEN Bound(i) ELSE 0

-----------------------------------------------------------------------------
(* Property                                                                *)

\* The stop of a plan lies outside the noise: at least 1.2 ATR from the entry,
\* half a tick of rounding of each level aside.
StopOutsideNoise ==
    Ready(input) => Levels(input).stop + input.tick >= AtrFloor(input)

\* With the advised leverage a stop costs at most 36 percent of the margin.
LossIsBounded ==
    LET l == Levels(input)
    IN Leverage(input) * (l.stop - l.entry) * 100 <= 36 * l.entry

\* Worse evidence never gets more leverage: not a lower readiness, not a worse
\* suitability (the minimum of independent bounds).
WorseEvidence ==
    {[input EXCEPT !.readiness = r] : r \in {r \in Readinesses : r <= input.readiness}}
    \cup {[input EXCEPT !.suitability = "POOR"]}
WorseIsNeverLeveredMore ==
    \A worse \in WorseEvidence : Leverage(worse) <= Leverage(input)

\* A plan and its leverage limit what a wrong signal costs.
LossIsLimited == StopOutsideNoise /\ LossIsBounded /\ WorseIsNeverLeveredMore
=============================================================================
