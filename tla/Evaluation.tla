----------------------------- MODULE Evaluation -----------------------------
(***************************************************************************)
(* What one evaluation of a candidate rests on, as one specification: the  *)
(* streams of Evidence, the stages the symbol has shown, the venues its    *)
(* evidence is taken from, the points of the evidence, the levels of the   *)
(* position and the settings of the operator.  Every behaviour is one of   *)
(* them while the others stay where they start, so that their states add   *)
(* up instead of multiplying.                                              *)
(***************************************************************************)
EXTENDS Evidence, StageLifecycle

CONSTANTS
    QuietPacket, QuietInput,    \* where a machine that does not run starts
    Chain, Futures, RequiredNoHype, CoinGlass,
    Fundings, Percentiles, Interests, Takers, Crowds, Momenta,
    Entries, Highs, Atrs, Frictions, Ticks, Readinesses, ExchangeMaxima,
    Level, CacheTime

VARIABLES
    step, position, unusable, quiet, loud, slot, selected, asks, refused,
    derivatives, benchmark, outcome,
    packet, momentum,
    input,
    stored, audited, cache, reading, used, inForce, faulted

V == INSTANCE SymbolEvaluation
E == INSTANCE EvidenceScore
P == INSTANCE TradePlan
R == INSTANCE RuntimeSettings

ASSUME EvaluationsAssumption ==
    /\ LifecycleAssumption /\ V!EvaluationAssumption
    /\ E!ScoreAssumption /\ P!PlanAssumption /\ R!SettingsAssumption

venues == <<step, position, unusable, quiet, loud, slot, selected, asks,
            refused, derivatives, benchmark, outcome>>
points == <<packet, momentum>>
levels == <<input>>
settings == <<stored, audited, cache, reading, used, inForce, faulted>>
evaluation == <<vars, venues, points, levels, settings>>

EvaluationInit ==
    /\ \/ machine = "points" /\ E!Init /\ input = QuietInput
       \/ machine = "levels" /\ P!Init /\ packet = QuietPacket /\ momentum = 0
       \/ /\ machine \in Machines \cup {"stages", "venues", "settings"}
          /\ packet = QuietPacket /\ momentum = 0 /\ input = QuietInput
    /\ Quiet /\ Init /\ V!Init /\ R!Init

StreamsNext == EvidenceNext /\ UNCHANGED evaluation
StagesNext == /\ machine = "stages" /\ Next
              /\ UNCHANGED <<evidence, venues, points, levels, settings>>
VenuesNext == /\ machine = "venues" /\ V!Next
              /\ UNCHANGED <<evidence, vars, points, levels, settings>>
PointsNext == /\ machine = "points" /\ E!Next
              /\ UNCHANGED <<evidence, vars, venues, levels, settings>>
LevelsNext == /\ machine = "levels" /\ P!Next
              /\ UNCHANGED <<evidence, vars, venues, points, settings>>
SettingsNext == /\ machine = "settings" /\ R!Next
                /\ UNCHANGED <<evidence, vars, venues, points, levels>>
EvaluationNext == StreamsNext \/ StagesNext \/ VenuesNext \/ PointsNext
                      \/ LevelsNext \/ SettingsNext
EvaluationSpec ==
    EvaluationInit /\ [][EvaluationNext]_<<evidence, evaluation>> /\ Fairness

\* A verdict rests on the evidence of one venue, and a symbol is only kept at
\* WATCH when no venue showed hype or failed (SymbolEvaluation).
VerdictIsWarranted == V!VerdictIsWarranted
\* More buying never adds points for a short (EvidenceScore).
BuyingNeverHelpsAShort ==
    machine = "points" => E!BuyingNeverHelpsAShort
\* A plan and its leverage limit what a wrong signal costs (TradePlan).
LossIsLimited == machine = "levels" => P!LossIsLimited
\* A decision rests on settings the cache may still hold (RuntimeSettings).
DecidesOnRecentSettings == R!DecidesOnRecentSettings
\* What is stored is what the history tells (RuntimeSettings).
EveryChangeAudited == R!EveryChangeAudited
=============================================================================
