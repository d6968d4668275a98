------------------------- MODULE MCDecisionPipeline -------------------------
(***************************************************************************)
(* Small instances of DecisionPipeline for TLC.  MCSpec has two sets of    *)
(* behaviours of the same variables: "race", whose bounds the .cfg gives,  *)
(* with few kinds of evidence, a relisting and a fault; and "evidence",    *)
(* with every kind of evidence and validation, both operator policies and  *)
(* an event table an earlier release left behind.                          *)
(***************************************************************************)
EXTENDS DecisionPipeline

VARIABLE scenario

MCDefault ==
    [version |-> "entry_policy_v2_calibrated",
     forming_minimum |-> 1, entry_ready_minimum |-> 2,
     gate_cascade_required |-> TRUE, gate_cross_exchange_required |-> TRUE,
     gate_timing_required |-> TRUE, gate_execution_required |-> TRUE,
     gate_anti_chase_enabled |-> TRUE, gate_freshness_required |-> TRUE]
MCTuned ==
    [MCDefault EXCEPT !.version = "entry_policy_v2_operator_tuned",
                      !.gate_freshness_required = FALSE]
OnlyDefault == {MCDefault}
DefaultAndTuned == {MCDefault, MCTuned}

\* readiness 0, 1 and 2: below FORMING, FORMING and ENTRY_READY
Ready ==
    [stale |-> {}, veto |-> FALSE, extended |-> FALSE, cascade |-> TRUE,
     readiness |-> 2, coverage |-> TRUE, direction |-> TRUE, timing |-> TRUE,
     execution |-> "OK", cross |-> TRUE,
     plan |-> [kind |-> "open", expires_at |-> 0], leverage |-> 5]
Repriced == [Ready EXCEPT !.leverage = 6]
Expiring == [Ready EXCEPT !.plan = [kind |-> "expiring", expires_at |-> 1]]
Ended == [Ready EXCEPT !.plan = [kind |-> "expiring", expires_at |-> 0]]
Weak == [Ready EXCEPT !.readiness = 1]
Low == [Ready EXCEPT !.readiness = 0, !.plan = NoPlan]
Chased == [Ready EXCEPT !.extended = TRUE]
LowChased == [Low EXCEPT !.extended = TRUE]
Stale == [Ready EXCEPT !.stale = {"STALE_REFERENCE"}]
Blind == [Ready EXCEPT !.execution = "MISSING"]

FewEvidences == {Expiring, Stale}
LiveEvidences == {Ready, Expiring}
ManyEvidences == {Ready, Repriced, Ended, Weak, Chased, LowChased, Stale,
                  Blind}

Suggests(status) ==
    [valid |-> TRUE, suggested |-> status, observation |-> "NONE"]
Observes(status) ==
    [valid |-> FALSE, suggested |-> "REJECTED", observation |-> status]
TriggerValidations == {Suggests("ARMED"), Suggests("TRIGGERED")}
AllValidations ==
    {Suggests("ARMED"), Suggests("TRIGGERED"), Observes("NONE")}

\* what a release without late_origin may have left behind
LegacyLate ==
    [decision |-> "LATE", lifecycle |-> 1, status |-> "ARMED", readiness |-> 0,
     block_reasons |-> {"ANTI_CHASE_HARD_BLOCK"}, late_origin |-> NoOrigin,
     plan |-> NoPlan, leverage |-> 0, policy |-> MCDefault, evaluated_at |-> 0]
NoHistory == {<<>>}
LegacyHistory == {<<>>, <<LegacyLate>>}

E == INSTANCE DecisionPipeline WITH
        Policies <- DefaultAndTuned, Evidences <- ManyEvidences,
        Validations <- AllValidations, Histories <- LegacyHistory,
        MaxEvents <- 2, MaxSignals <- 1, MaxLifecycle <- 1, Horizon <- 0,
        MaxFaults <- 0

allVars == <<scenario, vars>>
Race(A) == scenario = "race" /\ A /\ UNCHANGED scenario
MCInit == \/ scenario = "race" /\ Init
          \/ scenario = "evidence" /\ E!Init
MCNext == Race(Next) \/ (scenario = "evidence" /\ E!Next /\ UNCHANGED scenario)
MCSpec ==
    /\ MCInit /\ [][MCNext]_allVars
    /\ WF_allVars(Race(Evaluation)) /\ WF_allVars(Race(Maintenance))
RaceSpec == scenario = "race" /\ Init /\ [][Race(Next)]_allVars

\* With a fair loop and maintenance pass no entry stays past its expiry
\* (DecisionPipeline.EventuallyRetired); nothing is fair about the evidence.
RaceEventuallyRetired == scenario = "race" => EventuallyRetired
=============================================================================
