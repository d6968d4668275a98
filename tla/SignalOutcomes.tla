--------------------------- MODULE SignalOutcomes ---------------------------
(***************************************************************************)
(* LBankSignalSettlementWorker: natural signals wait a day and are then    *)
(* settled once, the oldest batch of pending signals in every cycle, from  *)
(* the one minute candles of the exchange each was captured from.  The     *)
(* exchange may answer nothing, or a part of the window when a page of the *)
(* fetch comes back empty.                                                 *)
(***************************************************************************)
EXTENDS OutcomeEvaluation, FiniteSets

CONSTANTS
    Signals,       \* ids of trade_signals, by trigger time
    Sourceless,    \* those whose exchange or symbol was not captured
    Levelless,     \* those whose levels are no short position
    Paths,         \* of each signal, the price paths it may see
    BatchSize,
    MaxFaults      \* bound: failed appends, cancelled cycles, restarts

SignalsAssumption ==
    /\ IsFiniteSet(Signals) /\ Signals \subseteq Nat
    /\ Sourceless \subseteq Signals /\ Levelless \subseteq Signals
    /\ BatchSize \in Nat \ {0} /\ MaxFaults \in Nat
PathsAssumption == Paths \in [Signals -> SUBSET [Minutes -> Touches]]

VARIABLES
    path,      \* of each signal, what its minutes touch; never changes
    mature,    \* the signals whose window and close delay have passed
    reach,     \* what its exchange answers: "nothing", "part", "all"
    outcome,   \* the appended outcome, or "none"
    batch,     \* the signals the running cycle has yet to settle
    faults

vars == <<path, mature, reach, outcome, batch, faults>>

TypeOK ==
    /\ path \in [Signals -> [Minutes -> Touches]]
    /\ mature \subseteq Signals
    /\ reach \in [Signals -> {"nothing", "part", "all"}]
    /\ outcome \in [Signals -> Verdicts \cup
                        {"none", "UNRESOLVABLE_SIGNAL_SOURCE"}]
    /\ batch \subseteq Signals
    /\ faults \in 0..MaxFaults

Init ==
    /\ path \in [Signals -> [Minutes -> Touches]]
    /\ \A s \in Signals : path[s] \in Paths[s]
    /\ mature = {}
    /\ reach = [s \in Signals |-> "all"]
    /\ outcome = [s \in Signals |-> "none"]
    /\ batch = {}
    /\ faults = 0

\* The window of a signal closes; those of older signals have closed.
Ripen(s) ==
    /\ s \notin mature /\ \A r \in Signals : r < s => r \in mature
    /\ mature' = mature \cup {s}
    /\ UNCHANGED <<path, reach, outcome, batch, faults>>

\* The exchange answers differently from now on.
Answers(s, r) ==
    /\ reach[s] # r /\ outcome[s] = "none"
    /\ reach' = [reach EXCEPT ![s] = r]
    /\ UNCHANGED <<path, mature, outcome, batch, faults>>

Pending == {s \in Signals : s \in mature /\ outcome[s] = "none"}
\* Mutant.
Oldest_Newest == {s \in Pending :
    Cardinality({r \in Pending : r > s}) < BatchSize}
\* The oldest pending signals, in the order of their triggers.
Oldest == {s \in Pending :
            Cardinality({r \in Pending : r < s}) < BatchSize}

Read ==
    /\ batch = {} /\ Pending # {}
    /\ batch' = Oldest
    /\ UNCHANGED <<path, mature, reach, outcome, faults>>

\* The pages of the fetch: an empty page ends it with what it has.
Fetched(s) ==
    IF reach[s] = "all" THEN path[s]
    ELSE [t \in Minutes |-> IF t < Horizon THEN path[s][t] ELSE "missing"]

Verdict(s) ==
    IF s \in Sourceless THEN "UNRESOLVABLE_SIGNAL_SOURCE"
    ELSE Evaluate(s \notin Levelless, Fetched(s))

\* A fetch that fails or finds no candle leaves the signal for a later cycle.
NoAnswer(s) == s \notin Sourceless /\ reach[s] = "nothing"

Turn(s) == s \in batch /\ \A r \in batch : s <= r
Skip(s) ==
    /\ Turn(s) /\ NoAnswer(s)
    /\ batch' = batch \ {s}
    /\ UNCHANGED <<path, mature, reach, outcome, faults>>
Settle(s) ==
    /\ Turn(s) /\ ~NoAnswer(s)
    /\ batch' = batch \ {s}
    /\ outcome' = [outcome EXCEPT ![s] = IF @ = "none" THEN Verdict(s) ELSE @]
    /\ UNCHANGED <<path, mature, reach, faults>>

\* The append fails, the cycle is cancelled or the process restarts.
Restart ==
    /\ batch # {} /\ faults < MaxFaults
    /\ batch' = {}
    /\ faults' = faults + 1
    /\ UNCHANGED <<path, mature, reach, outcome>>

Cycle == Read \/ \E s \in Signals : Skip(s) \/ Settle(s)
Next ==
    \/ Cycle \/ Restart
    \/ \E s \in Signals : Ripen(s)
    \/ \E s \in Signals, r \in {"nothing", "part", "all"} : Answers(s, r)

Spec == Init /\ [][Next]_vars /\ WF_vars(Cycle)

-----------------------------------------------------------------------------
(* Properties                                                              *)

\* A win rests on the price path itself: the minute that touched the first
\* target came after the signal, and no minute up to it touched the stop;
\* neither a missing candle, nor the trigger minute, nor a minute that touched
\* both counts for the trade (evaluate, the order of its tests).
Win(s) == Classification(outcome[s]) = "WIN"
WinIsEarned ==
    \A s \in Signals : Win(s) =>
        \E t \in Window :
            /\ HitTp1(path[s][t])
            /\ \A u \in 0..t : ~HitStop(path[s][u])
            /\ \A u \in 0..(t - 1) : ~HitTp1(path[s][u])

\* A stop is counted only when the price went to the stop before any target.
StopIsReal ==
    \A s \in Signals : Classification(outcome[s]) = "STOP" =>
        \E t \in Window :
            /\ HitStop(path[s][t])
            /\ \A u \in 0..t : ~HitTp1(path[s][u])

\* What is counted for or against a signal is what its price path did.
CountsWhatHappened == WinIsEarned /\ StopIsReal

\* A signal whose exchange answers is settled as long as fewer signals before
\* it than a batch holds stay without an answer; a full batch of them would
\* crowd it out for ever (the oldest are read first, and skipped).
Stuck(s) == outcome[s] = "none" /\ NoAnswer(s)
Reachable(s) ==
    /\ s \in mature /\ ~Stuck(s)
    /\ Cardinality({r \in mature : r < s /\ Stuck(r)}) < BatchSize
SettledUnlessCrowdedOut ==
    \A s \in Signals : (<>[]Reachable(s)) => <>(outcome[s] # "none")
=============================================================================
