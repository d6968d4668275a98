--------------------------- MODULE EvidenceScore ---------------------------
(***************************************************************************)
(* ScoreV2: the points of the evidence for a short, in thousandths of a    *)
(* point.  Ratios and percentages are hundredths, the funding rate is in   *)
(* units of one thousandth of a percent.  The inputs are enumerated: a     *)
(* state is one packet of evidence.                                        *)
(***************************************************************************)
EXTENDS Integers

CONSTANTS
    Fundings, Percentiles, Interests, Takers, Crowds, Momenta
        \* the values of the derivatives packet that are tried
ScoreAssumption ==
    /\ Fundings \subseteq Int /\ Percentiles \subseteq Nat
    /\ Interests \subseteq Int /\ Takers \subseteq Nat /\ Crowds \subseteq Nat
    /\ Momenta \subseteq Int

Timeframes == {"4h", "1h", "15m", "5m"}
Structure == {"hype", "support", "lower high", "pullback", "bearish", "volume"}
Friction == {"sellers", "footprint", "depth", "cheap"}

VARIABLES
    packet,     \* the derivatives packet and the candles beside it
    momentum    \* the change of the taker ratio in the last hour

vars == <<packet, momentum>>
Packets == [funding : Fundings, percentile : Percentiles, interest : Interests,
            taker : Takers, crowd : Crowds, bearish : BOOLEAN]

Init == packet \in Packets /\ momentum \in Momenta
Next == UNCHANGED vars
Spec == Init /\ [][Next]_vars
TypeOK == packet \in Packets /\ momentum \in Momenta

AtLeast(a, b) == IF a < b THEN b ELSE a
AtMost(a, b) == IF a < b THEN a ELSE b
Bounded(v, maximum) == AtLeast(0, AtMost(v, maximum))
Ramp(v, lower, upper, maximum) ==
    Bounded(((v - lower) * maximum) \div (upper - lower), maximum)

\* _oi_short_behavior
OpenInterest(change, bearish) ==
    IF ~bearish THEN (IF change < 0 THEN 400 ELSE 0)
    ELSE IF change >= 50 THEN 3000
    ELSE IF change > 0 THEN 2000
    ELSE IF change <= -50 THEN 2300
    ELSE IF change <= -25 THEN 1700
    ELSE 900

\* Mutant.
Pressure_ActiveBase(taker) ==
    IF taker <= 80 THEN 5000
    ELSE IF taker <= 90 THEN 4000 + Ramp(90 - taker, 0, 10, 1000)
    ELSE IF taker <= 110 THEN 1500 + Ramp(110 - taker, 0, 20, 2500)
    ELSE IF taker <= 150 THEN 1500 + Ramp(150 - taker, 0, 40, 1250)
    ELSE 0
\* _taker_short_pressure
Pressure(taker) ==
    IF taker <= 80 THEN 5000
    ELSE IF taker <= 90 THEN 4000 + Ramp(90 - taker, 0, 10, 1000)
    ELSE IF taker <= 110 THEN 1500 + Ramp(110 - taker, 0, 20, 2500)
    ELSE IF taker <= 150 THEN 250 + Ramp(150 - taker, 0, 40, 1250)
    ELSE 0
\* _apply_taker_momentum; an unknown change counts as none.
Modifier(change) ==
    IF change <= -40 THEN 750
    ELSE IF change <= -20 THEN 350
    ELSE IF change < 20 THEN 0
    ELSE IF change < 40 THEN -350
    ELSE -750
WithMomentum(pressure, change) == Bounded(pressure + Modifier(change), 5000)
\* _crowding_modifier
Crowding(crowd) ==
    IF crowd <= 120 THEN 0
    ELSE IF crowd <= 150 THEN Ramp(crowd, 120, 150, 1000)
    ELSE IF crowd <= 200 THEN 1000 + Ramp(crowd, 150, 200, 2000)
    ELSE 3000
Crowded(crowd, taker) ==
    IF taker <= 110 THEN Crowding(crowd)
    ELSE IF taker <= 150
    THEN (Crowding(crowd) * (500 + Ramp(150 - taker, 0, 40, 500))) \div 1000
    ELSE 0

\* _derivatives
Derivatives(p, change) ==
    Bounded(Ramp(p.funding, 0, 50, 1500) + Ramp(p.percentile, 50, 95, 2500)
            + OpenInterest(p.interest, p.bearish)
            + WithMomentum(Pressure(p.taker), change)
            + Crowded(p.crowd, p.taker), 15000)

\* _structural, _timing, _execution: weights of what is so.
Worth(x, facts, points) == IF x \in facts THEN points ELSE 0
Structural(facts) ==
    Worth("hype", facts, 8000) + Worth("support", facts, 7000)
    + Worth("lower high", facts, 5000) + Worth("pullback", facts, 10000)
    + Worth("bearish", facts, 3000) + Worth("volume", facts, 2000)
Timing(signals) ==
    Worth("1h", signals, 8000) + Worth("15m", signals, 7000) + Worth("5m", signals, 5000)
Execution(facts) ==
    Worth("sellers", facts, 5000) + Worth("footprint", facts, 5000)
    + Worth("depth", facts, 5000) + Worth("cheap", facts, 5000)
\* evaluate, when every gate holds.
Score(structure, signals, facts, p, change, belowVwap) ==
    Structural(structure) + Timing(signals) + Execution(facts)
    + Derivatives(p, change) + 5000 + (IF belowVwap THEN 5000 ELSE 0)

\* evaluate_watch: the parts that can be measured, on the scale of those.
Parts == {"structural", "1h", "15m", "5m", "execution", "derivatives", "cross",
          "location"}
Maximum(part) ==
    IF part = "structural" THEN 35000
    ELSE IF part = "execution" THEN 20000
    ELSE IF part = "derivatives" THEN 15000
    ELSE IF part \in {"cross", "location"} THEN 5000
    ELSE Timing({part})
Points(part, structure, signals, facts, p, change, cross, belowVwap) ==
    IF part = "structural" THEN Structural(structure)
    ELSE IF part = "execution" THEN Execution(facts)
    ELSE IF part = "derivatives" THEN Derivatives(p, change)
    ELSE IF part = "cross" THEN (IF cross THEN 5000 ELSE 0)
    ELSE IF part = "location" THEN (IF belowVwap THEN 5000 ELSE 0)
    ELSE IF part \in signals THEN Timing({part}) ELSE 0
\* What the measured parts add up to.
Over(measured, points) ==
    Worth("structural", measured, points["structural"])
    + Worth("1h", measured, points["1h"]) + Worth("15m", measured, points["15m"])
    + Worth("5m", measured, points["5m"])
    + Worth("execution", measured, points["execution"])
    + Worth("derivatives", measured, points["derivatives"])
    + Worth("cross", measured, points["cross"])
    + Worth("location", measured, points["location"])
Maxima == [part \in Parts |-> Maximum(part)]
WatchScore(measured, structure, signals, facts, p, change, cross, belowVwap) ==
    LET available == Over(measured, Maxima)
        points == [part \in Parts |->
            Points(part, structure, signals, facts, p, change, cross, belowVwap)]
    IN IF available = 0 THEN {}
       ELSE {(Over(measured, points) * 100) \div (available \div 1000)}

-----------------------------------------------------------------------------
(* Property                                                                *)

\* Crowded longs never outweigh active buying: whatever else a packet says,
\* a higher ratio of buyers to sellers among the takers never adds points
\* (the promise of _derivatives), and the score stays on its scale.
BuyingNeverAdds ==
    \A taker \in Takers :
        taker >= packet.taker =>
            Derivatives([packet EXCEPT !.taker = taker], momentum)
                <= Derivatives(packet, momentum)
OnTheScale(score) == 0 <= score /\ score <= 100000
ScoreOnItsScale ==
    LET least == Score({}, {}, {}, packet, momentum, FALSE)
        most == Score(Structure, Timeframes \ {"4h"}, Friction, packet, momentum, TRUE)
    IN 5000 <= least /\ least <= most /\ OnTheScale(most)
\* The score of a watched symbol is on the same scale whatever could not be
\* measured, and the one of an entry when all of it was.
WatchOnTheScale ==
    LET hours == Timeframes \ {"4h"}
        watch(measured) ==
            WatchScore(measured, Structure, hours, Friction, packet, momentum, TRUE, TRUE)
    IN /\ watch(Parts) = {Score(Structure, hours, Friction, packet, momentum, TRUE)}
       /\ \A x \in Parts : \A score \in watch(Parts \ {x}) : OnTheScale(score)
       /\ watch({}) = {}
BuyingNeverHelpsAShort == BuyingNeverAdds /\ ScoreOnItsScale /\ WatchOnTheScale
=============================================================================
