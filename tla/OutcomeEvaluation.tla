------------------------- MODULE OutcomeEvaluation -------------------------
(***************************************************************************)
(* LBankSignalOutcomeEvaluator: how a short position's day of one minute   *)
(* candles becomes an outcome.  A candle is abstracted to the levels its   *)
(* high and low touch; minute 0 is the minute of the trigger, of which a   *)
(* part lies before the signal, and the minutes 1..Horizon are the window. *)
(***************************************************************************)
EXTENDS Integers

CONSTANT Horizon     \* the minutes of the window
HorizonAssumption == Horizon \in Nat \ {0}

Window == 1..Horizon
Minutes == 0..Horizon

\* What a closed candle touched; the second target lies beyond the first.
Touches == {"nothing", "tp1", "tp2", "stop", "stop tp1", "stop tp2"}
HitStop(t) == t \in {"stop", "stop tp1", "stop tp2"}
HitTp1(t) == t \in {"tp1", "tp2", "stop tp1", "stop tp2"}
HitTp2(t) == t \in {"tp2", "stop tp2"}

\* A packet of candles: what it says of each minute, "missing" included.
Packets == [Minutes -> Touches \cup {"missing"}]
Complete(p) == \A t \in Minutes : p[t] # "missing"

\* The loop stops at the first minute that touches the stop or the second
\* target.
Decides(p, t) == HitStop(p[t]) \/ HitTp2(p[t])
FirstDecided(p, t) ==
    /\ t \in Window /\ Decides(p, t)
    /\ \A u \in Window : u < t => ~Decides(p, u)
Tp1Before(p, t) == \E u \in Window : u < t /\ HitTp1(p[u])

\* Mutant.
VerdictAt_TargetFirst(p, t) ==
    CASE HitTp1(p[t]) ->
            IF Tp1Before(p, t) THEN "TP2_AFTER_TP1" ELSE "TP2_FIRST"
      [] OTHER -> IF Tp1Before(p, t) THEN "TP1_THEN_STOP" ELSE "STOP_FIRST"
VerdictAt(p, t) ==
    CASE HitStop(p[t]) /\ HitTp1(p[t]) -> "AMBIGUOUS_INTRACANDLE_PATH"
      [] HitStop(p[t]) /\ ~HitTp1(p[t]) ->
            IF Tp1Before(p, t) THEN "TP1_THEN_STOP" ELSE "STOP_FIRST"
      [] ~HitStop(p[t]) ->
            IF Tp1Before(p, t) THEN "TP2_AFTER_TP1" ELSE "TP2_FIRST"

TriggerMinuteTouched(p) == HitStop(p[0]) \/ HitTp1(p[0])

Evaluate(levelsValid, p) ==
    IF ~levelsValid THEN "UNRESOLVABLE_SIGNAL_LEVELS"
    ELSE IF ~Complete(p) THEN "DATA_INCOMPLETE"
    ELSE IF TriggerMinuteTouched(p) THEN "UNRESOLVABLE_TRIGGER_MINUTE"
    ELSE IF \E t \in Window : Decides(p, t)
         THEN VerdictAt(p, CHOOSE t \in Window : FirstDecided(p, t))
    ELSE IF \E t \in Window : HitTp1(p[t]) THEN "TP1_ONLY_24H"
    ELSE "NO_LEVEL_HIT_24H"

Verdicts ==
    {"UNRESOLVABLE_SIGNAL_LEVELS", "DATA_INCOMPLETE",
     "UNRESOLVABLE_TRIGGER_MINUTE", "AMBIGUOUS_INTRACANDLE_PATH",
     "TP1_THEN_STOP", "STOP_FIRST", "TP2_AFTER_TP1", "TP2_FIRST",
     "TP1_ONLY_24H", "NO_LEVEL_HIT_24H"}

\* How the decision outcome counts a verdict.
Classification(verdict) ==
    CASE verdict = "STOP_FIRST" -> "STOP"
      [] verdict = "NO_LEVEL_HIT_24H" -> "TIMEOUT"
      [] verdict \in {"TP1_ONLY_24H", "TP1_THEN_STOP", "TP2_FIRST",
                      "TP2_AFTER_TP1"} -> "WIN"
      [] OTHER -> "UNAVAILABLE"
=============================================================================
