---------------------------- MODULE EntryDecision ----------------------------
(***************************************************************************)
(* The entry decision engine, core/entry_decision.py: a pure function from *)
(* the evidence of one evaluation, the operator's policy and the decision  *)
(* last recorded for the symbol to the next decision packet.               *)
(*                                                                         *)
(* The scoring arithmetic is left out: evidence carries its results.       *)
(* Readiness keeps its order against the policy's two thresholds; every    *)
(* other measurement appears as the answer the decision asks of it.        *)
(***************************************************************************)
EXTENDS Naturals

Terminals  == {"LATE", "INVALIDATED", "EXPIRED"}
Actionable == {"ENTRY_READY", "ACTIVE"}
Decisions  == Terminals \cup Actionable \cup {"NO_TRADE", "FORMING"}

ObservationStates == {"WATCH", "FUEL-RICH", "PRE-TRIGGER"}
ActiveStatuses    == ObservationStates \cup {"ARMED", "TRIGGERED"}
Statuses          == ActiveStatuses \cup {"EXHAUSTED", "INVALIDATED"}

Reasons == {"STALE_ANALYSIS", "STALE_REFERENCE", "STRUCTURE_INVALIDATED",
            "DETERMINISTIC_MARKET_DATA_VETO", "ANTI_CHASE_HARD_BLOCK",
            "EXECUTION_UNAVAILABLE", "TRADE_PLAN_EXPIRED",
            "ENTRY_READY_PREDECESSOR_REQUIRED", "ENTRY_CONDITIONS_LOST",
            "CANDIDATE_NO_LONGER_ACTIVE"}

\* trade_plan: absent, without expires_at, or with one.
Plans    == [kind : {"none", "open", "expiring"}, expires_at : Nat]
NoPlan   == [kind |-> "none", expires_at |-> 0]

NoOrigin    == "none"
LateOrigins == {NoOrigin, "ANTI_CHASE", "LIFECYCLE_EXHAUSTED"}

Policy == [version : STRING,
           forming_minimum : Nat, entry_ready_minimum : Nat,
           gate_cascade_required : BOOLEAN, gate_cross_exchange_required : BOOLEAN,
           gate_timing_required : BOOLEAN, gate_execution_required : BOOLEAN,
           gate_anti_chase_enabled : BOOLEAN, gate_freshness_required : BOOLEAN]

\* What one evaluation measured.  stale: the ages beyond the policy's limits;
\* extended: the move reached anti_chase_hard_block_atr; leverage: the
\* advisory stored with the packet.
Evidence == [stale : SUBSET {"STALE_ANALYSIS", "STALE_REFERENCE"},
             veto : BOOLEAN, extended : BOOLEAN, cascade : BOOLEAN,
             readiness : Nat, coverage : BOOLEAN, direction : BOOLEAN,
             timing : BOOLEAN, execution : {"OK", "DEGRADED", "MISSING"},
             cross : BOOLEAN, plan : Plans, leverage : Nat]

Packet == [decision : Decisions, lifecycle : Nat, status : Statuses,
           readiness : Nat, block_reasons : SUBSET Reasons,
           late_origin : LateOrigins, plan : Plans, leverage : Nat,
           policy : Policy, evaluated_at : Nat]

\* previous_decision is None: the symbol has no recorded decision.
NoPacket == [decision |-> "NONE"]

\* Evidence when no venue had a fresh reference price: the metrics hold only
\* an error, so nothing is available.
NoReference ==
    [stale |-> {"STALE_REFERENCE"}, veto |-> FALSE, extended |-> FALSE,
     cascade |-> FALSE, readiness |-> 0, coverage |-> FALSE,
     direction |-> FALSE, timing |-> FALSE, execution |-> "MISSING",
     cross |-> FALSE, plan |-> NoPlan, leverage |-> 0]

----------------------------------------------------------------------------
(* Blockers and the decision of this evaluation alone.                     *)

AntiChaseLate(evidence, policy) ==
    policy.gate_anti_chase_enabled /\ evidence.extended

PlanExpired(plan, now) == plan.kind = "expiring" /\ now >= plan.expires_at

BlockReasons(evidence, status, policy, now) ==
    evidence.stale
    \cup {r \in {"STRUCTURE_INVALIDATED"} : status = "INVALIDATED"}
    \cup {r \in {"DETERMINISTIC_MARKET_DATA_VETO"} : evidence.veto}
    \cup {r \in {"ANTI_CHASE_HARD_BLOCK"} : AntiChaseLate(evidence, policy)}
    \cup {r \in {"EXECUTION_UNAVAILABLE"} : evidence.execution = "MISSING"}
    \cup {r \in {"TRADE_PLAN_EXPIRED"} : PlanExpired(evidence.plan, now)}

\* A mutant for the checks: freshness no longer blocks.
HardBlockReasons_NoFreshness(policy) ==
    {"DETERMINISTIC_MARKET_DATA_VETO", "TRADE_PLAN_EXPIRED"}
    \cup {r \in {"EXECUTION_UNAVAILABLE"} : policy.gate_execution_required}

HardBlockReasons(policy) ==
    {"DETERMINISTIC_MARKET_DATA_VETO", "TRADE_PLAN_EXPIRED"}
    \cup {r \in {"STALE_ANALYSIS", "STALE_REFERENCE"} : policy.gate_freshness_required}
    \cup {r \in {"EXECUTION_UNAVAILABLE"} : policy.gate_execution_required}

GatesPass(evidence, policy) ==
    /\ evidence.readiness >= policy.entry_ready_minimum
    /\ evidence.coverage
    /\ evidence.direction
    /\ evidence.plan # NoPlan
    /\ policy.gate_timing_required => evidence.timing
    /\ policy.gate_execution_required => evidence.execution = "OK"
    /\ policy.gate_cross_exchange_required => evidence.cross

BaseDecision(evidence, status, policy, blocks) ==
    CASE status = "EXHAUSTED" -> "LATE"
      [] status # "EXHAUSTED" /\ "STRUCTURE_INVALIDATED" \in blocks -> "INVALIDATED"
      [] OTHER ->
           IF \/ policy.gate_cascade_required /\ ~evidence.cascade
              \/ HardBlockReasons(policy) \cap blocks # {}
           THEN "NO_TRADE"
           ELSE IF AntiChaseLate(evidence, policy) THEN "LATE"
           ELSE IF GatesPass(evidence, policy)
                THEN IF status = "TRIGGERED" THEN "ACTIVE" ELSE "ENTRY_READY"
           ELSE IF evidence.readiness >= policy.forming_minimum
                THEN "FORMING" ELSE "NO_TRADE"

\* A mutant: any earlier entry will do, also one of a former lifecycle.
PredecessorMissing_AnyLifecycle(decision, previous, lifecycle) ==
    decision = "ACTIVE" /\ previous.decision \notin Actionable

\* ACTIVE needs an entry announced earlier in the same lifecycle.
PredecessorMissing(decision, previous, lifecycle) ==
    /\ decision = "ACTIVE"
    /\ \/ previous.decision \notin Actionable
       \/ previous.lifecycle # lifecycle

CurrentLateOrigin(decision, status, antiChase) ==
    IF decision # "LATE" THEN NoOrigin
    ELSE IF status = "EXHAUSTED" THEN "LIFECYCLE_EXHAUSTED"
    ELSE IF antiChase THEN "ANTI_CHASE" ELSE NoOrigin

----------------------------------------------------------------------------
(* What the last recorded decision makes of it.                            *)

PreviousLateOrigin(previous) ==
    IF previous.late_origin # NoOrigin THEN previous.late_origin
    ELSE IF previous.status = "EXHAUSTED" THEN "LIFECYCLE_EXHAUSTED"
    ELSE IF "ANTI_CHASE_HARD_BLOCK" \in previous.block_reasons THEN "ANTI_CHASE"
    ELSE NoOrigin

\* a LATE packet of a release that did not record late_origin
LegacyLowReadinessLate(previous, policy) ==
    /\ previous.decision = "LATE"
    /\ previous.late_origin = NoOrigin
    /\ previous.status # "EXHAUSTED"
    /\ previous.readiness < policy.forming_minimum
    /\ previous.block_reasons = {"ANTI_CHASE_HARD_BLOCK"}


\* A mutant: an entry in progress may become a new one.
ValidEntryTransition_Reentry(before, decision) ==
    decision \in Terminals \/ (before \in Actionable /\ decision \in Actionable)

ValidEntryTransition(before, decision) ==
    \/ decision \in Terminals
    \/ before = "ENTRY_READY" /\ decision \in Actionable
    \/ before = "ACTIVE" /\ decision = "ACTIVE"

Verdict(decision, blocks, origin) ==
    [decision |-> decision, block_reasons |-> blocks, late_origin |-> origin]

Retained(previous, fresh) ==
    IF fresh.decision = previous.decision
    THEN Verdict(previous.decision, fresh.block_reasons,
                 IF previous.decision # "LATE" THEN NoOrigin
                 ELSE IF fresh.late_origin # NoOrigin THEN fresh.late_origin
                 ELSE PreviousLateOrigin(previous))
    ELSE Verdict(previous.decision, previous.block_reasons,
                 IF previous.decision = "LATE" THEN PreviousLateOrigin(previous)
                 ELSE NoOrigin)

ApplyPreviousTransition(previous, fresh, lifecycle, policy, now) ==
    IF \/ previous.decision = "NONE"
       \/ previous.lifecycle # lifecycle
    THEN fresh
    ELSE IF previous.decision \in Terminals
    THEN IF \/ fresh.decision \in {"FORMING"} \cup Actionable
            \/ LegacyLowReadinessLate(previous, policy)
         THEN fresh
         ELSE Retained(previous, fresh)
    ELSE IF previous.decision \notin Actionable THEN fresh
    ELSE IF PlanExpired(previous.plan, now)
    THEN Verdict("EXPIRED", {"TRADE_PLAN_EXPIRED"}, NoOrigin)
    ELSE IF ValidEntryTransition(previous.decision, fresh.decision)
    THEN fresh
    ELSE Verdict("INVALIDATED", fresh.block_reasons \cup {"ENTRY_CONDITIONS_LOST"},
                 NoOrigin)

FreshVerdict(evidence, status, policy, now, lifecycle, previous) ==
    LET blocks  == BlockReasons(evidence, status, policy, now)
        base    == BaseDecision(evidence, status, policy, blocks)
        missing == PredecessorMissing(base, previous, lifecycle)
        decided == IF missing THEN "NO_TRADE" ELSE base
    IN  Verdict(decided,
                blocks \cup {r \in {"ENTRY_READY_PREDECESSOR_REQUIRED"} : missing},
                CurrentLateOrigin(decided, status, AntiChaseLate(evidence, policy)))

BuildEntryDecision(evidence, status, policy, now, lifecycle, previous) ==
    LET fresh == FreshVerdict(evidence, status, policy, now, lifecycle, previous)
        final == ApplyPreviousTransition(previous, fresh, lifecycle, policy, now)
    IN  [decision |-> final.decision, lifecycle |-> lifecycle, status |-> status,
         readiness |-> evidence.readiness, block_reasons |-> final.block_reasons,
         late_origin |-> IF final.decision = "LATE" THEN final.late_origin ELSE NoOrigin,
         plan |-> evidence.plan, leverage |-> evidence.leverage,
         policy |-> policy, evaluated_at |-> now]

----------------------------------------------------------------------------
(* Decisions the maintenance pass derives from a recorded one.             *)

Expirable(previous, now) ==
    previous.decision \in Actionable /\ PlanExpired(previous.plan, now)

BuildExpired(previous, now) ==
    [previous EXCEPT !.decision = "EXPIRED", !.block_reasons = {"TRADE_PLAN_EXPIRED"},
                     !.evaluated_at = now]

BuildInvalidated(previous, reason, now) ==
    [previous EXCEPT !.decision = "INVALIDATED", !.block_reasons = {reason},
                     !.evaluated_at = now]

\* what must differ for a packet to be recorded as a new event
MaterialProjection(packet) ==
    [decision |-> packet.decision, lifecycle |-> packet.lifecycle,
     status |-> packet.status, late_origin |-> packet.late_origin,
     block_reasons |-> packet.block_reasons,
     policy_version |-> packet.policy.version,
     leverage |-> packet.leverage, has_plan |-> packet.plan # NoPlan]
=============================================================================
