------------------------ MODULE DecisionPipelineProofs ------------------------
(***************************************************************************)
(* Proofs about DecisionPipeline, for any evidence, validations, policies, *)
(* histories and bounds.                                                   *)
(***************************************************************************)
EXTENDS DecisionPipeline, TLAPS

-----------------------------------------------------------------------------
(* The entry decision engine                                               *)

Verdicts == [decision : Decisions, block_reasons : SUBSET Reasons,
             late_origin : LateOrigins]

LEMMA BlockReasonsType ==
  ASSUME NEW evidence \in Evidence, NEW status \in Statuses,
         NEW policy \in Policy, NEW moment \in Nat
  PROVE  BlockReasons(evidence, status, policy, moment) \in SUBSET Reasons
BY DEF BlockReasons, Evidence, Reasons

LEMMA BaseDecisionType ==
  ASSUME NEW evidence, NEW status, NEW policy, NEW blocks
  PROVE  BaseDecision(evidence, status, policy, blocks) \in Decisions
BY DEF BaseDecision, Decisions, Terminals, Actionable

\* With the freshness and the execution gate in force the base decision is
\* actionable only when nothing blocks.
LEMMA BaseFailClosed ==
  ASSUME NEW evidence \in Evidence, NEW status \in Statuses,
         NEW policy \in Policy, NEW moment \in Nat,
         policy.gate_freshness_required, policy.gate_execution_required,
         BaseDecision(evidence, status, policy,
                      BlockReasons(evidence, status, policy, moment)) \in Actionable
  PROVE  BlockReasons(evidence, status, policy, moment) = {}
<1> DEFINE blocks == BlockReasons(evidence, status, policy, moment)
<1>1. /\ "STRUCTURE_INVALIDATED" \notin blocks
      /\ HardBlockReasons(policy) \cap blocks = {}
      /\ ~AntiChaseLate(evidence, policy)
  BY DEF BaseDecision, Actionable
<1>2. HardBlockReasons(policy) =
        {"DETERMINISTIC_MARKET_DATA_VETO", "TRADE_PLAN_EXPIRED", "STALE_ANALYSIS",
         "STALE_REFERENCE", "EXECUTION_UNAVAILABLE"}
  BY DEF HardBlockReasons
<1>3. evidence.stale \subseteq {"STALE_ANALYSIS", "STALE_REFERENCE"}
  BY DEF Evidence
<1> QED
  BY <1>1, <1>2, <1>3 DEF BlockReasons

\* FreshVerdict is a verdict; it is ACTIVE only after an entry announced in the
\* same lifecycle, and actionable only with the blockers of its evidence.
LEMMA FreshVerdictFacts ==
  ASSUME NEW evidence \in Evidence, NEW status \in Statuses,
         NEW policy \in Policy, NEW moment \in Nat, NEW lifecycle \in Nat,
         NEW previous \in Packet \cup {NoPacket}
  PROVE  LET fresh == FreshVerdict(evidence, status, policy, moment, lifecycle, previous)
         IN  /\ fresh \in Verdicts
             /\ fresh.decision = "ACTIVE" =>
                  previous.decision \in Actionable /\ previous.lifecycle = lifecycle
             /\ (fresh.decision \in Actionable /\ policy.gate_freshness_required
                 /\ policy.gate_execution_required) => fresh.block_reasons = {}
<1> DEFINE blocks  == BlockReasons(evidence, status, policy, moment)
           base    == BaseDecision(evidence, status, policy, blocks)
           missing == PredecessorMissing(base, previous, lifecycle)
           decided == IF missing THEN "NO_TRADE" ELSE base
           fresh   == FreshVerdict(evidence, status, policy, moment, lifecycle, previous)
           origin  == CurrentLateOrigin(decided, status, AntiChaseLate(evidence, policy))
<1>1. blocks \in SUBSET Reasons /\ base \in Decisions
  BY BlockReasonsType, BaseDecisionType
<1>2. decided \in Decisions
  BY <1>1 DEF Decisions
<1>3. origin \in LateOrigins
  BY DEF CurrentLateOrigin, LateOrigins, NoOrigin
<1>4. fresh = [decision |-> decided,
               block_reasons |-> blocks \cup
                 {r \in {"ENTRY_READY_PREDECESSOR_REQUIRED"} : missing},
               late_origin |-> origin]
  BY DEF FreshVerdict, Verdict
<1>5. fresh \in Verdicts
  BY <1>1, <1>2, <1>3, <1>4 DEF Verdicts, Reasons
<1>6. fresh.decision = "ACTIVE" =>
        previous.decision \in Actionable /\ previous.lifecycle = lifecycle
  BY <1>4 DEF PredecessorMissing
<1>7. ASSUME fresh.decision \in Actionable, policy.gate_freshness_required,
             policy.gate_execution_required
      PROVE  fresh.block_reasons = {}
  <2>1. ~missing /\ base \in Actionable
    BY <1>4, <1>7 DEF Actionable
  <2>2. blocks = {}
    BY <1>7, <2>1, BaseFailClosed
  <2> QED
    BY <1>4, <2>1, <2>2
<1> QED
  BY <1>5, <1>6, <1>7

\* The previous decision of the lifecycle keeps its terminal, turns an entry
\* into a terminal, or lets the fresh verdict through.
LEMMA ApplyPreviousTransitionFacts ==
  ASSUME NEW previous \in Packet \cup {NoPacket}, NEW fresh \in Verdicts,
         NEW lifecycle \in Nat, NEW policy \in Policy, NEW moment \in Nat
  PROVE  LET final == ApplyPreviousTransition(previous, fresh, lifecycle, policy, moment)
         IN  /\ final \in Verdicts
             /\ final.decision \in Actionable => final = fresh
             /\ (previous.decision \in Actionable /\ previous.lifecycle = lifecycle)
                => \/ final.decision \in Terminals \cup {"ACTIVE"}
                   \/ previous.decision = "ENTRY_READY" /\ final.decision = "ENTRY_READY"
<1> DEFINE final == ApplyPreviousTransition(previous, fresh, lifecycle, policy, moment)
<1>1. CASE previous.decision = "NONE" \/ previous.lifecycle # lifecycle
  <2>1. final = fresh
    BY <1>1 DEF ApplyPreviousTransition
  <2> QED
    BY <1>1, <2>1 DEF Actionable
<1>2. CASE previous.decision # "NONE" /\ previous.lifecycle = lifecycle
  <2>0. previous \in Packet
    BY <1>2 DEF NoPacket
  <2>1. CASE previous.decision \in Terminals
    <3>1. PreviousLateOrigin(previous) \in LateOrigins
      BY <2>0 DEF PreviousLateOrigin, LateOrigins, NoOrigin, Packet
    <3>2. /\ Retained(previous, fresh) \in Verdicts
          /\ Retained(previous, fresh).decision = previous.decision
      BY <2>0, <3>1 DEF Retained, Verdict, Verdicts, Packet, LateOrigins, NoOrigin
    <3>3. final \in {fresh, Retained(previous, fresh)}
      BY <1>2, <2>1 DEF ApplyPreviousTransition
    <3> QED
      BY <2>1, <3>2, <3>3 DEF Terminals, Actionable
  <2>2. CASE previous.decision \in Actionable
    <3>1. CASE PlanExpired(previous.plan, moment)
      <4>1. final = Verdict("EXPIRED", {"TRADE_PLAN_EXPIRED"}, NoOrigin)
        BY <1>2, <2>2, <3>1 DEF ApplyPreviousTransition, Terminals, Actionable
      <4> QED
        BY <4>1 DEF Verdict, Verdicts, Decisions, Terminals, Actionable, Reasons,
                    LateOrigins, NoOrigin
    <3>2. CASE ~PlanExpired(previous.plan, moment) /\
               ValidEntryTransition(previous.decision, fresh.decision)
      <4>1. final = fresh
        BY <1>2, <2>2, <3>2 DEF ApplyPreviousTransition, Terminals, Actionable
      <4> QED
        BY <2>2, <3>2, <4>1 DEF ValidEntryTransition, Actionable
    <3>3. CASE ~PlanExpired(previous.plan, moment) /\
               ~ValidEntryTransition(previous.decision, fresh.decision)
      <4>1. final = Verdict("INVALIDATED",
                      fresh.block_reasons \cup {"ENTRY_CONDITIONS_LOST"}, NoOrigin)
        BY <1>2, <2>2, <3>3 DEF ApplyPreviousTransition, Terminals, Actionable
      <4>2. fresh.block_reasons \cup {"ENTRY_CONDITIONS_LOST"} \in SUBSET Reasons
        BY DEF Verdicts, Reasons
      <4> QED
        BY <4>1, <4>2 DEF Verdict, Verdicts, Decisions, Terminals, Actionable,
                          LateOrigins, NoOrigin
    <3> QED
      BY <3>1, <3>2, <3>3
  <2>3. CASE previous.decision \notin Terminals \cup Actionable
    <3>1. final = fresh
      BY <1>2, <2>3 DEF ApplyPreviousTransition
    <3> QED
      BY <2>3, <3>1
  <2> QED
    BY <2>1, <2>2, <2>3
<1> QED
  BY <1>1, <1>2

\* What every packet built from evidence owes to the previous one.
LEMMA BuildEntryDecisionFacts ==
  ASSUME NEW evidence \in Evidence, NEW status \in Statuses,
         NEW policy \in Policy, NEW moment \in Nat, NEW lifecycle \in Nat,
         NEW previous \in Packet \cup {NoPacket}
  PROVE  LET packet == BuildEntryDecision(evidence, status, policy, moment, lifecycle, previous)
         IN  /\ packet \in Packet
             /\ packet.lifecycle = lifecycle
             /\ (/\ packet.decision \in Actionable
                 /\ packet.policy.gate_freshness_required
                 /\ packet.policy.gate_execution_required) => packet.block_reasons = {}
             /\ packet.decision = "ACTIVE" =>
                  previous.decision \in Actionable /\ previous.lifecycle = lifecycle
             /\ (previous.decision \in Actionable /\ previous.lifecycle = lifecycle)
                => \/ packet.decision \in Terminals \cup {"ACTIVE"}
                   \/ previous.decision = "ENTRY_READY" /\ packet.decision = "ENTRY_READY"
<1> DEFINE fresh  == FreshVerdict(evidence, status, policy, moment, lifecycle, previous)
           final  == ApplyPreviousTransition(previous, fresh, lifecycle, policy, moment)
           origin == IF final.decision = "LATE" THEN final.late_origin ELSE NoOrigin
           packet == BuildEntryDecision(evidence, status, policy, moment, lifecycle, previous)
<1>1. /\ fresh \in Verdicts
      /\ fresh.decision = "ACTIVE" =>
           previous.decision \in Actionable /\ previous.lifecycle = lifecycle
      /\ (fresh.decision \in Actionable /\ policy.gate_freshness_required
          /\ policy.gate_execution_required) => fresh.block_reasons = {}
  BY FreshVerdictFacts
<1>2. /\ final \in Verdicts
      /\ final.decision \in Actionable => final = fresh
      /\ (previous.decision \in Actionable /\ previous.lifecycle = lifecycle)
         => \/ final.decision \in Terminals \cup {"ACTIVE"}
            \/ previous.decision = "ENTRY_READY" /\ final.decision = "ENTRY_READY"
  BY <1>1, ApplyPreviousTransitionFacts
<1>3. packet = [decision |-> final.decision, lifecycle |-> lifecycle, status |-> status,
                readiness |-> evidence.readiness, block_reasons |-> final.block_reasons,
                late_origin |-> origin, plan |-> evidence.plan,
                leverage |-> evidence.leverage, policy |-> policy,
                evaluated_at |-> moment]
  BY DEF BuildEntryDecision
<1>4. final.decision \in Decisions /\ final.block_reasons \in SUBSET Reasons
      /\ origin \in LateOrigins
  BY <1>2 DEF Verdicts, LateOrigins, NoOrigin
<1>5. /\ evidence.readiness \in Nat /\ evidence.plan \in Plans
      /\ evidence.leverage \in Nat
  BY DEF Evidence
<1>6. packet \in Packet
  BY <1>3, <1>4, <1>5 DEF Packet
<1> HIDE DEF fresh, final, origin, packet
<1>7. packet.decision = "ACTIVE" =>
        previous.decision \in Actionable /\ previous.lifecycle = lifecycle
  BY <1>1, <1>2, <1>3 DEF Actionable
<1>8. (/\ packet.decision \in Actionable
       /\ packet.policy.gate_freshness_required
       /\ packet.policy.gate_execution_required) => packet.block_reasons = {}
  BY <1>1, <1>2, <1>3
<1>9. packet.lifecycle = lifecycle /\ packet.decision = final.decision
  BY <1>3
<1> QED
  BY <1>2, <1>6, <1>7, <1>8, <1>9 DEF packet

\* Expiry and invalidation only change the decision and its reason.
LEMMA RetirementType ==
  ASSUME NEW previous \in Packet, NEW reason \in Reasons, NEW moment \in Nat
  PROVE  /\ BuildExpired(previous, moment) \in Packet
         /\ BuildExpired(previous, moment).decision = "EXPIRED"
         /\ BuildInvalidated(previous, reason, moment) \in Packet
         /\ BuildInvalidated(previous, reason, moment).decision = "INVALIDATED"
BY DEF BuildExpired, BuildInvalidated, Packet, Decisions, Terminals, Reasons

-----------------------------------------------------------------------------
(* The decision store and the passes over it                               *)

\* What the invariant says of the tables an append writes.
TablesInv ==
    /\ events \in Seq(Packet)
    /\ alerts \subseteq DOMAIN events
    /\ captures \subseteq DOMAIN events
    /\ NoSecondAlertWhileOpen /\ OpenEntryInv /\ ActionableWasAnnounced
    /\ NoSilentDisappearance /\ ActionableIsUnblocked

\* What a packet must satisfy to be appended.
Appendable(packet) ==
    /\ packet \in Packet
    /\ FailClosed(packet)
    /\ Follows(Latest, packet)
    /\ packet.decision = "ACTIVE" => AnnouncedIn(packet.lifecycle)
    /\ packet.decision \in Terminals \/ packet.lifecycle = catalog.lifecycle

LEMMA AppendType ==
  ASSUME NEW S, NEW s \in Seq(S), NEW e \in S
  PROVE  Append(s, e) \in Seq(S)
OBVIOUS

LEMMA LatestType ==
  ASSUME events \in Seq(Packet)
  PROVE  /\ Latest \in Packet \cup {NoPacket}
         /\ Latest.decision \in Actionable => Latest \in Packet /\ events # <<>>
<1>1. CASE events = <<>>
  BY <1>1 DEF Latest, NoPacket, Actionable
<1>2. CASE events # <<>>
  <2>1. Len(events) \in 1..Len(events)
    BY <1>2
  <2>2. Latest = events[Len(events)]
    BY <1>2 DEF Latest
  <2> QED
    BY <1>2, <2>1, <2>2
<1> QED
  BY <1>1, <1>2

\* A transaction leaves the events alone or adds one behind them.
LEMMA TransactShape ==
  ASSUME events \in Seq(Packet), NEW write \in Write, WriteInv(write), Transact(write)
  PROVE  \/ /\ events' = events /\ alerts' = alerts
            /\ captures' \subseteq captures \cup DOMAIN events
         \/ /\ write.step = "append"
            /\ events' = Append(events, write.packet)
            /\ alerts' = alerts \cup
                 {i \in {Len(events) + 1} : EntryReadyTransition(write.packet)}
            /\ captures' = captures
<1>1. CASE write.step = "append" /\ AppendIfChanged(write.packet)
  BY <1>1 DEF AppendIfChanged, tables
<1>2. CASE write.step = "repair" /\ UNCHANGED tables
  BY <1>2 DEF tables
<1>3. CASE write.step = "capture" /\ PersistOutcomeCapture(write.packet, write.target)
  BY <1>3 DEF PersistOutcomeCapture, AppendOutcomeCapture, tables, WriteInv
<1> QED
  BY <1>1, <1>2, <1>3 DEF Transact

\* What follows a transaction is no append, and targets an event.
LEMMA RemainingType ==
  ASSUME events \in Seq(Packet), NEW write \in Write, write # NoWrite, WriteInv(write),
         Transact(write), NEW rest, rest = Remaining(write)
  PROVE  /\ rest \in Write /\ rest.step # "append"
         /\ WriteInv(rest)'
<1> DEFINE packet == write.packet
<1>1. /\ packet \in Packet /\ write.step \in {"append", "repair", "capture"}
      /\ Len(events) \in Nat
  BY DEF Write
<1>2. ASSUME Unchanged(packet), UNCHANGED events
      PROVE  /\ Len(events) \in DOMAIN events'
             /\ MaterialProjection(events[Len(events)])' = MaterialProjection(packet)
  <2>1. events # <<>> /\ MaterialProjection(events[Len(events)]) = MaterialProjection(packet)
    BY <1>2 DEF Unchanged, Latest
  <2> QED
    BY <1>2, <2>1 DEF MaterialProjection
<1> HIDE DEF packet
<1>3. ASSUME NEW id \in DOMAIN events', rest = CaptureOf(packet, id)
      PROVE  rest \in Write /\ rest.step # "append" /\ WriteInv(rest)'
  <2>1. id \in Nat
    <3>1. events' \in Seq(Packet)
      BY <1>1, TransactShape, AppendType DEF packet
    <3> QED
      BY <3>1
  <2>2. rest = [step |-> "capture", packet |-> packet, target |-> id]
    BY <1>3 DEF CaptureOf
  <2> QED
    BY <1>1, <2>1, <2>2 DEF Write, WriteInv
<1>4. CASE write.step = "append" /\ AppendIfChanged(packet)
  <2>1. CASE Unchanged(packet)
    <3>1. PICK id : id = Len(events)
      OBVIOUS
    <3>2. rest = [step |-> "repair", packet |-> packet, target |-> id] /\ UNCHANGED events
      BY <1>4, <2>1, <3>1 DEF packet, Remaining, Appended, AppendIfChanged, tables, RepairOf
    <3>3. /\ id \in Nat /\ id \in DOMAIN events'
          /\ MaterialProjection(events[id])' = MaterialProjection(packet)
      BY <1>1, <1>2, <2>1, <3>1, <3>2 DEF MaterialProjection
    <3> QED
      BY <1>1, <3>2, <3>3 DEF Write, WriteInv
  <2>2. CASE ~Unchanged(packet)
    <3>1. PICK id : id = Len(events) + 1
      OBVIOUS
    <3>2. rest = CaptureOf(packet, id) /\ events' = Append(events, packet)
      BY <1>4, <2>2, <3>1 DEF packet, Remaining, Appended, AppendIfChanged
    <3>3. id \in DOMAIN events'
      BY <1>1, <3>1, <3>2
    <3> QED
      BY <1>3, <3>2, <3>3
  <2> QED
    BY <2>1, <2>2
<1>5. CASE write.step = "repair" /\ UNCHANGED tables
  <2>1. CASE Unchanged(packet)
    <3>1. PICK id : id = Len(events)
      OBVIOUS
    <3>2. rest = CaptureOf(packet, id) /\ UNCHANGED events
      BY <1>5, <2>1, <3>1 DEF packet, Remaining, RepairCaptureTarget, tables
    <3>3. id \in DOMAIN events'
      BY <1>2, <2>1, <3>1, <3>2
    <3> QED
      BY <1>3, <3>2, <3>3
  <2>2. CASE ~Unchanged(packet)
    <3>1. rest = NoWrite
      BY <1>5, <2>2 DEF packet, Remaining, RepairCaptureTarget
    <3> QED
      BY <3>1 DEF NoWrite, Write, WriteInv
  <2> QED
    BY <2>1, <2>2
<1>6. CASE write.step = "capture"
  <2>1. rest = NoWrite
    BY <1>6 DEF Remaining
  <2> QED
    BY <2>1 DEF NoWrite, Write, WriteInv
<1> QED
  BY <1>4, <1>5, <1>6 DEF packet, Transact

\* The other thread's transaction leaves a write its target.
LEMMA TargetStays ==
  ASSUME events \in Seq(Packet), NEW write \in Write, WriteInv(write), Transact(write),
         NEW other, WriteInv(other)
  PROVE  WriteInv(other)'
<1>1. write.step = "append" => write.packet \in Packet
  BY DEF Write, NoWrite
<1>2. \A i \in DOMAIN events : i \in DOMAIN events' /\ events'[i] = events[i]
  BY <1>1, TransactShape
<1> QED
  BY <1>2 DEF WriteInv, MaterialProjection

\* A transaction keeps the promises of the event table and of its outbox rows.
LEMMA TransactPreserves ==
  ASSUME TablesInv, NEW write \in Write, WriteInv(write),
         write.step = "append" => Appendable(write.packet),
         Transact(write), UNCHANGED catalog, catalog.lifecycle \in Nat
  PROVE  TablesInv'
<1>1. events \in Seq(Packet)
  BY DEF TablesInv
<1>2. CASE /\ events' = events /\ alerts' = alerts
           /\ captures' \subseteq captures \cup DOMAIN events
  BY <1>2 DEF TablesInv, NoSecondAlertWhileOpen, OpenEntryInv, Latest,
              ActionableWasAnnounced, Live, NoSilentDisappearance, ActionableIsUnblocked
<1>3. CASE /\ write.step = "append"
           /\ events' = Append(events, write.packet)
           /\ alerts' = alerts \cup {i \in {Len(events) + 1} : EntryReadyTransition(write.packet)}
           /\ captures' = captures
  <2> DEFINE packet == write.packet
  <2>0. PICK n \in Nat : n = Len(events)
    BY <1>1
  <2>a. Appendable(packet) /\ packet \in Packet
    BY <1>3 DEF Appendable
  <2>b. /\ events' = Append(events, packet)
        /\ alerts' = alerts \cup {i \in {n + 1} : EntryReadyTransition(packet)}
    BY <1>3, <2>0
  <2> HIDE DEF packet
  <2>1. /\ DOMAIN events = 1..n /\ DOMAIN events' = 1..(n + 1)
        /\ events'[n + 1] = packet
        /\ \A i \in 1..n : events'[i] = events[i]
        /\ events' \in Seq(Packet) /\ Len(events') = n + 1
    BY <1>1, <2>0, <2>a, <2>b
  <2>2. /\ n > 0 => Latest = events[n]
        /\ n = 0 => Latest = NoPacket
        /\ Latest' = packet
    BY <1>1, <2>0, <2>1 DEF Latest
  <2>5. alerts \subseteq 1..n
    BY <2>1 DEF TablesInv
  <2>4. \A i \in 1..n : events[i] \in Packet /\ events[i].lifecycle \in Nat
    <3>1. \A i \in 1..n : events[i] \in Packet
      BY <1>1, <2>1
    <3>2. \A p \in Packet : p.lifecycle \in Nat
      BY DEF Packet
    <3> QED
      BY <3>1, <3>2
  <2>6. NoSecondAlertWhileOpen' /\ OpenEntryInv'
    <3>1. ASSUME NEW a \in alerts, a < n + 1, EntryReadyTransition(packet),
                 events[a].lifecycle = packet.lifecycle
          PROVE  \E i \in (a + 1)..n : events[i].decision \in Terminals
      <4> SUFFICES ASSUME \A i \in (a + 1)..n : events[i].decision \notin Terminals
                   PROVE  FALSE
        OBVIOUS
      <4>1. /\ events[a].lifecycle <= Latest.lifecycle
            /\ Latest.lifecycle <= catalog.lifecycle
            /\ events[a].lifecycle = Latest.lifecycle => Latest.decision \in Actionable
        BY <2>0 DEF TablesInv, OpenEntryInv
      <4>2. /\ packet.decision = "ENTRY_READY"
            /\ Latest.decision # "ENTRY_READY" \/ Latest.lifecycle # packet.lifecycle
        BY <3>1 DEF EntryReadyTransition
      <4>3. packet.lifecycle = catalog.lifecycle
        BY <2>a, <4>2 DEF Appendable, Terminals
      <4>4. a \in 1..n /\ n > 0 /\ Latest.lifecycle \in Nat
        BY <2>2, <2>4, <2>5
      <4>5. Latest.lifecycle = packet.lifecycle /\ Latest.decision \in Actionable
        BY <3>1, <4>1, <4>3, <4>4
      <4>6. Follows(Latest, packet)
        BY <2>a DEF Appendable
      <4> QED
        BY <4>2, <4>5, <4>6 DEF Follows, Actionable, Terminals
    <3>2. NoSecondAlertWhileOpen'
      <4> SUFFICES ASSUME NEW a \in alerts', NEW b \in alerts', a < b,
                          events'[a].lifecycle = events'[b].lifecycle
                   PROVE  \E i \in (a + 1)..(b - 1) : events'[i].decision \in Terminals
        BY DEF NoSecondAlertWhileOpen
      <4>1. a \in alerts /\ a \in 1..n /\ b \in 1..(n + 1)
        BY <2>b, <2>5
      <4>2. CASE b \in alerts
        <5>1. PICK i \in (a + 1)..(b - 1) : events[i].decision \in Terminals
          BY <2>1, <2>5, <4>1, <4>2 DEF TablesInv, NoSecondAlertWhileOpen
        <5> QED
          BY <2>1, <2>5, <4>1, <4>2, <5>1
      <4>3. CASE b = n + 1 /\ EntryReadyTransition(packet)
        <5>1. PICK i \in (a + 1)..n : events[i].decision \in Terminals
          BY <2>1, <3>1, <4>1, <4>3
        <5> QED
          BY <2>1, <4>1, <4>3, <5>1
      <4> QED
        BY <2>b, <4>2, <4>3
    <3>3. OpenEntryInv'
      <4> SUFFICES ASSUME NEW a \in alerts',
                          \A i \in (a + 1)..(n + 1) : events'[i].decision \notin Terminals
                   PROVE  /\ events'[a].lifecycle <= packet.lifecycle
                          /\ packet.lifecycle <= catalog.lifecycle
                          /\ events'[a].lifecycle = packet.lifecycle
                             => packet.decision \in Actionable
        BY <2>1, <2>2 DEF OpenEntryInv
      <4>1. CASE a = n + 1 /\ EntryReadyTransition(packet)
        <5>1. packet.decision = "ENTRY_READY" /\ packet.lifecycle \in Nat
          BY <2>a, <4>1 DEF EntryReadyTransition, Packet
        <5>2. packet.lifecycle = catalog.lifecycle
          BY <2>a, <5>1 DEF Appendable, Terminals
        <5> QED
          BY <2>1, <4>1, <5>1, <5>2 DEF Actionable
      <4>2. CASE a \in alerts
        <5>1. a \in 1..n /\ n > 0 /\ packet.decision \notin Terminals
          BY <2>1, <2>5, <4>2
        <5>2. \A i \in (a + 1)..n : events[i].decision \notin Terminals
          BY <2>1, <5>1
        <5>3. /\ events[a].lifecycle <= Latest.lifecycle
              /\ Latest.lifecycle <= catalog.lifecycle
              /\ events[a].lifecycle = Latest.lifecycle => Latest.decision \in Actionable
          BY <2>0, <4>2, <5>2 DEF TablesInv, OpenEntryInv
        <5>4. packet.lifecycle = catalog.lifecycle /\ Follows(Latest, packet)
          BY <2>a, <5>1 DEF Appendable
        <5>5. /\ events'[a].lifecycle = events[a].lifecycle
              /\ Latest.lifecycle \in Nat /\ events[a].lifecycle \in Nat
          BY <2>1, <2>2, <2>4, <5>1
        <5>6. ASSUME events[a].lifecycle = packet.lifecycle
              PROVE  packet.decision \in Actionable
          <6>1. Latest.lifecycle = packet.lifecycle /\ Latest.decision \in Actionable
            BY <5>3, <5>4, <5>5, <5>6
          <6> QED
            BY <5>1, <5>4, <6>1 DEF Follows, Actionable
        <5>7. packet.lifecycle \in Nat
          BY <2>a DEF Packet
        <5> QED
          BY <5>3, <5>4, <5>5, <5>6, <5>7
      <4> QED
        BY <2>b, <4>1, <4>2
    <3> QED
      BY <3>2, <3>3
  <2>7. alerts' \subseteq DOMAIN events' /\ captures' \subseteq DOMAIN events'
    BY <1>3, <2>b, <2>1, <2>5 DEF TablesInv
  <2>8. ActionableWasAnnounced'
    <3> SUFFICES ASSUME NEW i \in 1..(n + 1), events'[i].decision \in Actionable
                 PROVE  \E a \in alerts' : a <= i /\ events'[a].lifecycle = events'[i].lifecycle
      BY <2>1 DEF ActionableWasAnnounced, Live
    <3>1. \A a \in alerts : a \in alerts' /\ a \in 1..n /\ events'[a] = events[a]
      BY <2>b, <2>1, <2>5
    <3>2. CASE i \in 1..n
      BY <2>1, <3>1, <3>2 DEF TablesInv, ActionableWasAnnounced, Live
    <3>3. CASE i = n + 1 /\ packet.decision = "ACTIVE"
      BY <2>1, <2>a, <2>5, <3>1, <3>3 DEF Appendable, AnnouncedIn
    <3>4. CASE i = n + 1 /\ packet.decision = "ENTRY_READY" /\ EntryReadyTransition(packet)
      BY <2>b, <2>1, <3>4
    <3>5. CASE i = n + 1 /\ packet.decision = "ENTRY_READY" /\ ~EntryReadyTransition(packet)
      <4>1. Latest.decision = "ENTRY_READY" /\ Latest.lifecycle = packet.lifecycle
        BY <3>5 DEF EntryReadyTransition
      <4>2. n > 0 /\ events[n].decision \in Actionable
        BY <2>1, <2>2, <4>1 DEF NoPacket, Actionable
      <4>3. PICK a \in alerts : a <= n /\ events[a].lifecycle = events[n].lifecycle
        BY <2>1, <4>2 DEF TablesInv, ActionableWasAnnounced, Live
      <4> QED
        BY <2>1, <2>2, <3>1, <3>5, <4>1, <4>2, <4>3
    <3> QED
      BY <2>1, <3>2, <3>3, <3>4, <3>5 DEF Actionable
  <2>9. NoSilentDisappearance'
    <3> SUFFICES ASSUME NEW i \in 1..n PROVE Follows(events[i], events[i + 1])'
      BY <2>1 DEF NoSilentDisappearance
    <3>1. CASE i = n
      BY <2>1, <2>2, <2>a, <3>1 DEF Appendable, Follows
    <3>2. CASE i # n
      BY <2>1, <3>2 DEF TablesInv, NoSilentDisappearance, Follows
    <3> QED
      BY <3>1, <3>2
  <2>10. ActionableIsUnblocked'
    BY <2>1, <2>a DEF TablesInv, Appendable, ActionableIsUnblocked, FailClosed
  <2> QED
    BY <2>1, <2>6, <2>7, <2>8, <2>9, <2>10 DEF TablesInv
<1> QED
  BY <1>1, <1>2, <1>3, TransactShape

\* A retirement may be appended at any time: it is not actionable.
LEMMA RetirementAppendable ==
  ASSUME NEW packet \in Packet, packet.decision \in {"EXPIRED", "INVALIDATED"}
  PROVE  Appendable(packet)
BY DEF Appendable, FailClosed, Follows, Actionable, Terminals

\* What the evaluation waits with stays appendable when maintenance appends a
\* retirement first.
LEMMA RetirementKeepsTaskPacket ==
  ASSUME TablesInv, TaskPacketInv, UNCHANGED task,
         NEW write \in Write, WriteInv(write), Transact(write),
         write.step = "append" => write.packet.decision \in {"EXPIRED", "INVALIDATED"}
  PROVE  TaskPacketInv'
<1>1. events \in Seq(Packet) /\ alerts \subseteq DOMAIN events
  BY DEF TablesInv
<1>2. CASE events' = events /\ alerts' = alerts
  BY <1>2 DEF TaskPacketInv, Latest, AnnouncedIn, Follows, FailClosed
<1>3. CASE /\ write.step = "append"
           /\ events' = Append(events, write.packet) /\ alerts \subseteq alerts'
  <2> DEFINE packet == write.packet
  <2>0. packet \in Packet /\ packet.decision \in {"EXPIRED", "INVALIDATED"}
    BY <1>3 DEF Write, NoWrite
  <2>a. events' = Append(events, packet)
    BY <1>3
  <2> HIDE DEF packet
  <2>1. Latest' = packet
    BY <1>1, <2>0, <2>a DEF Latest
  <2>2. \A lifecycle : AnnouncedIn(lifecycle) => AnnouncedIn(lifecycle)'
    BY <1>1, <1>3, <2>0, <2>a DEF AnnouncedIn
  <2>3. AnnouncedIn(task.lifecycle) => AnnouncedIn(task.lifecycle)'
    BY <2>2 DEF AnnouncedIn
  <2> QED
    BY <2>0, <2>1, <2>3 DEF TaskPacketInv, Follows, FailClosed, Actionable
<1> QED
  BY <1>1, <1>2, <1>3, TransactShape

----------------------------------------------------------------------------
(* The parts of the invariant and what leaves each of them alone.          *)

SignalsInv == SignalOfCurrentLifecycle /\ TriggeredHasSignal
WritesInv  == WriteInv(task.write) /\ WriteInv(maintenance.write)

LEMMA Parts ==
  IInv <=> /\ TypeOK /\ TablesInv
           /\ TaskPacketInv /\ MaintenancePacketInv /\ WritesInv
           /\ FenceInv /\ SignalsInv
BY DEF IInv, TypeOK, TablesInv, SignalsInv, WritesInv

LEMMA PartsNext ==
  ASSUME TypeOK', TablesInv', TaskPacketInv', MaintenancePacketInv', WritesInv',
         FenceInv', SignalsInv'
  PROVE  IInv'
BY DEF IInv, TypeOK, TablesInv, SignalsInv, WritesInv

\* The tables keep their promises while the lifecycle of the row only grows.
LEMMA TablesKept ==
  ASSUME TablesInv, UNCHANGED tables, CatalogType, CatalogType',
         catalog.lifecycle <= catalog'.lifecycle
  PROVE  TablesInv'
<1>1. OpenEntryInv'
  <2> SUFFICES ASSUME NEW a \in alerts,
                      \A i \in (a + 1)..Len(events) : events[i].decision \notin Terminals
               PROVE  /\ events[a].lifecycle <= Latest.lifecycle
                      /\ Latest.lifecycle <= catalog'.lifecycle
                      /\ events[a].lifecycle = Latest.lifecycle => Latest.decision \in Actionable
    BY DEF OpenEntryInv, tables, Latest
  <2>1. /\ events[a].lifecycle <= Latest.lifecycle
        /\ Latest.lifecycle <= catalog.lifecycle
        /\ events[a].lifecycle = Latest.lifecycle => Latest.decision \in Actionable
    BY DEF TablesInv, OpenEntryInv
  <2>2. Latest.lifecycle \in Nat
    <3>1. events \in Seq(Packet) /\ a \in DOMAIN events
      BY DEF TablesInv
    <3>2. events # <<>> /\ Len(events) \in DOMAIN events
      BY <3>1
    <3>3. Latest \in Packet
      BY <3>1, <3>2 DEF Latest
    <3> QED
      BY <3>3 DEF Packet
  <2>3. catalog.lifecycle \in Nat /\ catalog'.lifecycle \in Nat
    BY DEF CatalogType
  <2> QED
    BY <2>1, <2>2, <2>3
<1> QED
  BY <1>1 DEF TablesInv, tables, NoSecondAlertWhileOpen, ActionableWasAnnounced, Live,
              NoSilentDisappearance, ActionableIsUnblocked, Follows, FailClosed

LEMMA TablesUnchanged == TablesInv /\ UNCHANGED <<tables, catalog>> => TablesInv'
BY DEF TablesInv, tables, NoSecondAlertWhileOpen, OpenEntryInv, Latest,
       ActionableWasAnnounced, Live, NoSilentDisappearance, ActionableIsUnblocked,
       Follows, FailClosed

LEMMA TaskPacketUnchanged ==
  TaskPacketInv /\ UNCHANGED <<task, tables>> => TaskPacketInv'
BY DEF TaskPacketInv, tables, Latest, AnnouncedIn, Follows, FailClosed

LEMMA WritesUnchanged ==
  WritesInv /\ UNCHANGED <<task, maintenance, tables>> => WritesInv'
BY DEF WritesInv, WriteInv, tables

LEMMA FenceUnchanged == FenceInv /\ UNCHANGED <<catalog, active, task>> => FenceInv'
BY DEF FenceInv, InUniverse, LifecycleCurrent

LEMMA SignalsUnchanged == SignalsInv /\ UNCHANGED <<catalog, signals>> => SignalsInv'
BY DEF SignalsInv, SignalOfCurrentLifecycle, TriggeredHasSignal

\* A packet about to be appended.
LEMMA AppendOfType ==
  ASSUME NEW packet \in Packet
  PROVE  /\ AppendOf(packet) \in Write /\ AppendOf(packet) # NoWrite
         /\ AppendOf(packet).step = "append" /\ AppendOf(packet).packet = packet
BY DEF AppendOf, Write, NoWrite

LEMMA NoWriteType == NoWrite \in Write /\ NoWrite.step = "none"
BY DEF Write, NoWrite

\* The tables of a step that keeps TablesInv have their types.
LEMMA TypeFromParts ==
  ASSUME TablesInv', CatalogType', TaskType', MaintenanceType', CandidatesType',
         active' \in Nat, now' \in Nat, faults' \in Nat,
         signals' \in Seq([lifecycle : Nat, evaluated : Nat]),
         task'.phase # "idle" => task'.status \in ActiveStatuses,
         task'.phase = "appending" <=> task'.write # NoWrite,
         maintenance'.phase \in {"expire", "retire"} <=> maintenance'.write # NoWrite
  PROVE  TypeOK'
BY DEF TypeOK, TablesInv

LEMMA InitIInv == Init => IInv
<1> SUFFICES ASSUME Init PROVE IInv
  OBVIOUS
<1> USE DEF Init
<1>1. events \in Seq(Packet) /\ Live(events) = {}
  BY HistoriesAssumption
<1>2. TypeOK
  BY <1>1, NoWriteType
     DEF TypeOK, CatalogType, TaskType, MaintenanceType, CandidatesType, Idle, Rest,
         NoSnapshot, Phases, Results, ActiveStatuses, ObservationStates
<1>3. TablesInv
  <2>1. \A i \in DOMAIN events : events[i].decision \notin Actionable
    BY <1>1 DEF Live
  <2> QED
    BY <1>1, <2>1 DEF TablesInv, NoSecondAlertWhileOpen, OpenEntryInv,
                      ActionableWasAnnounced, Live, NoSilentDisappearance, Follows,
                      ActionableIsUnblocked, FailClosed, Actionable
<1>4. TaskPacketInv /\ MaintenancePacketInv /\ WritesInv /\ FenceInv /\ SignalsInv
  BY NoWriteType
     DEF TaskPacketInv, MaintenancePacketInv, WritesInv, WriteInv, FenceInv, SignalsInv,
         Idle, Rest, SignalOfCurrentLifecycle, TriggeredHasSignal
<1> QED
  BY <1>2, <1>3, <1>4, Parts

----------------------------------------------------------------------------
(* One lemma for each action.                                              *)

LEMMA StutterStep == IInv /\ UNCHANGED vars => IInv'
<1> SUFFICES ASSUME IInv, UNCHANGED vars PROVE IInv'
  OBVIOUS
<1>1. TypeOK'
  BY Parts DEF vars, TypeOK, CatalogType, TaskType, MaintenanceType, CandidatesType
<1>2. MaintenancePacketInv'
  BY Parts DEF vars, MaintenancePacketInv
<1>3. TablesInv' /\ TaskPacketInv' /\ WritesInv' /\ FenceInv' /\ SignalsInv'
  BY Parts, TablesUnchanged, TaskPacketUnchanged, WritesUnchanged, FenceUnchanged,
     SignalsUnchanged
     DEF vars, tables
<1> QED
  BY <1>1, <1>2, <1>3, PartsNext

LEMMA TickStep == IInv /\ Tick => IInv'
<1> SUFFICES ASSUME IInv, Tick PROVE IInv'
  OBVIOUS
<1>1. TypeOK'
  BY Parts DEF Tick, tables, TypeOK, CatalogType, TaskType, MaintenanceType, CandidatesType
<1>2. MaintenancePacketInv'
  BY Parts DEF Tick, MaintenancePacketInv
<1>3. TablesInv' /\ TaskPacketInv' /\ WritesInv' /\ FenceInv' /\ SignalsInv'
  BY Parts, TablesUnchanged, TaskPacketUnchanged, WritesUnchanged, FenceUnchanged,
     SignalsUnchanged
     DEF Tick, tables
<1> QED
  BY <1>1, <1>2, <1>3, PartsNext

LEMMA CrashStep == IInv /\ Crash => IInv'
<1> SUFFICES ASSUME IInv, Crash PROVE IInv'
  OBVIOUS
<1> USE DEF Crash, Idle, Rest, NoSnapshot
<1>1. TablesInv' /\ SignalsInv'
  BY Parts, TablesUnchanged, SignalsUnchanged
<1>2. TypeOK'
  BY Parts, NoWriteType
     DEF Fault, tables, TypeOK, CatalogType, TaskType, MaintenanceType, CandidatesType,
         Phases, Results
<1>3. TaskPacketInv' /\ MaintenancePacketInv' /\ WritesInv' /\ FenceInv'
  BY NoWriteType DEF TaskPacketInv, MaintenancePacketInv, WritesInv, WriteInv, FenceInv
<1> QED
  BY <1>1, <1>2, <1>3, PartsNext

\* A refresh runs while no evaluation is past its last await, and leaves no
\* token current.
LEMMA RefreshStep ==
  ASSUME IInv, NEW listed \in BOOLEAN, NEW eligible \in BOOLEAN,
         NEW written \in BOOLEAN, NEW readable \in BOOLEAN,
         Refresh(listed, eligible, written, readable)
  PROVE  IInv'
<1>1. TypeOK /\ CatalogType /\ TaskType
  BY Parts DEF TypeOK
<1>2. \/ catalog' = catalog
      \/ catalog' = Relisted(eligible)
      \/ catalog' = [catalog EXCEPT !.missing = 0]
      \/ catalog' = [catalog EXCEPT !.missing = catalog.missing + 1]
      \/ catalog' = [status |-> "REMOVED", lifecycle |-> catalog.lifecycle,
                     eligible |-> FALSE, missing |-> catalog.missing + 1]
  BY DEF Refresh, UpdateCandidates, RecordMissing
<1>3. /\ CatalogType' /\ catalog.lifecycle <= catalog'.lifecycle
      /\ \/ catalog'.status \in {"WATCH", "REMOVED"}
         \/ catalog'.status = catalog.status /\ catalog'.lifecycle = catalog.lifecycle
  <2> USE <1>1 DEF CatalogType, ActiveStatuses, ObservationStates
  <2>1. CASE catalog' = catalog
    BY <2>1
  <2>2. CASE catalog' = Relisted(eligible)
    BY <2>2 DEF Relisted
  <2>3. CASE \E m \in Nat : catalog' = [catalog EXCEPT !.missing = m]
    BY <2>3
  <2>4. CASE catalog' = [status |-> "REMOVED", lifecycle |-> catalog.lifecycle,
                         eligible |-> FALSE, missing |-> catalog.missing + 1]
    BY <2>4
  <2> QED
    BY <1>2, <2>1, <2>2, <2>3, <2>4
<1>4. /\ active' # 0 => /\ active' = catalog'.lifecycle
                        /\ catalog'.eligible /\ catalog'.status \in ActiveStatuses
      /\ active' \in Nat
      /\ task' = [task EXCEPT !.token = FALSE]
      /\ task.phase \notin {"appending", "finishing"}
  BY <1>3 DEF Refresh, Swap, LoopFree, CatalogType
<1>5. /\ TaskType' /\ task'.phase = task.phase /\ task'.status = task.status
      /\ task'.token = FALSE /\ task'.write = task.write
  BY <1>1, <1>4 DEF TaskType
<1>6. UNCHANGED <<candidates, maintenance, tables, signals, now>> /\ faults' \in Nat
  BY <1>1 DEF Refresh, Fault, TypeOK, tables
<1>7. TablesInv'
  BY <1>1, <1>3, <1>6, Parts, TablesKept
<1>8. TypeOK'
  BY <1>1, <1>3, <1>4, <1>5, <1>6, <1>7, TypeFromParts
     DEF TypeOK, MaintenanceType, CandidatesType
<1>9. FenceInv' /\ TaskPacketInv' /\ MaintenancePacketInv'
  BY <1>1, <1>4, <1>5, <1>6, Parts, NoWriteType
     DEF TypeOK, FenceInv, InUniverse, TaskPacketInv, MaintenancePacketInv
<1>11. WritesInv'
  BY <1>5, <1>6, Parts DEF WritesInv, WriteInv, tables
<1>10. SignalsInv'
  BY <1>3, <1>6, Parts DEF SignalsInv, SignalOfCurrentLifecycle, TriggeredHasSignal
<1> QED
  BY <1>7, <1>8, <1>9, <1>10, <1>11, PartsNext

\* A step of the evaluation that writes no table.
LEMMA TaskMove ==
  ASSUME IInv, UNCHANGED <<catalog, active, candidates, maintenance, tables, signals, now>>,
         faults' \in Nat, TaskType', TaskPacketInv', FenceInv',
         task'.phase # "idle" => task'.status \in ActiveStatuses,
         task'.phase = "appending" <=> task'.write # NoWrite,
         task'.write.step \in {"none", "append"}
  PROVE  IInv'
<1>1. TablesInv' /\ SignalsInv'
  BY Parts, TablesUnchanged, SignalsUnchanged
<1>2. MaintenancePacketInv' /\ WritesInv'
  BY Parts DEF MaintenancePacketInv, WritesInv, WriteInv, tables
<1>3. TypeOK'
  BY <1>1, Parts, TypeFromParts DEF TypeOK, CatalogType, MaintenanceType, CandidatesType
<1> QED
  BY <1>1, <1>2, <1>3, PartsNext

LEMMA IdleStep ==
  ASSUME IInv, UNCHANGED <<catalog, active, candidates, maintenance, tables, signals, now>>,
         faults' \in Nat, task' = Idle
  PROVE  IInv'
<1>1. TaskType'
  BY NoWriteType DEF TaskType, Idle, Phases, Results
<1>2. TaskPacketInv'
  BY NoWriteType DEF TaskPacketInv, Idle
<1>3. FenceInv'
  BY Parts DEF FenceInv, Idle, InUniverse, LifecycleCurrent
<1>4. task'.phase = "idle" /\ task'.write = NoWrite /\ task'.write.step = "none"
  BY NoWriteType DEF Idle
<1> QED
  BY <1>1, <1>2, <1>3, <1>4, TaskMove

LEMMA BeginStep == IInv /\ Begin => IInv'
<1> SUFFICES ASSUME IInv, Begin PROVE IInv'
  OBVIOUS
<1>1. /\ TypeOK /\ FenceInv
      /\ candidates.status \in ActiveStatuses /\ candidates.lifecycle \in Nat \ {0}
  BY Parts DEF Begin, TypeOK, CandidatesType
<1>2. task' = [phase |-> "validating", status |-> candidates.status,
               lifecycle |-> candidates.lifecycle, token |-> TRUE, at |-> 0,
               result |-> "NONE", write |-> NoWrite]
  BY DEF Begin, Idle
<1>3. UNCHANGED <<catalog, active, candidates, maintenance, tables, signals, now>>
      /\ faults' \in Nat
  BY <1>1 DEF Begin, TypeOK
<1>4. TaskType' /\ TaskPacketInv'
  BY <1>1, <1>2, NoWriteType DEF TaskType, TaskPacketInv, Phases, Results
<1>5. LifecycleCurrent(candidates.lifecycle)
  BY <1>1 DEF Begin, FenceInv, InUniverse, LifecycleCurrent, ActiveStatuses, ObservationStates
<1>6. FenceInv'
  BY <1>1, <1>2, <1>3, <1>5 DEF FenceInv, InUniverse, LifecycleCurrent
<1> QED
  BY <1>1, <1>2, <1>3, <1>4, <1>6, TaskMove, NoWriteType

LEMMA DiscardStep == IInv /\ Discard => IInv'
  BY IdleStep, Parts DEF Discard, TaskStep, TypeOK

LEMMA EvaluationFailsStep == IInv /\ EvaluationFails => IInv'
  BY IdleStep, Parts DEF EvaluationFails, TaskStep, TypeOK, Fault

LEMMA ValidateStep == IInv /\ Validate => IInv'
<1> SUFFICES ASSUME IInv, Validate PROVE IInv'
  OBVIOUS
<1>1. TypeOK /\ TaskType /\ FenceInv
  BY Parts DEF TypeOK
<1>2. /\ UNCHANGED <<catalog, active, candidates, maintenance, tables, signals, now>>
      /\ faults' \in Nat
  BY <1>1 DEF Validate, TaskStep, TypeOK
<1>3. task' = [phase |-> "enriching", status |-> task.status, lifecycle |-> task.lifecycle,
               token |-> task.token, at |-> now, result |-> task.result,
               write |-> NoWrite]
  BY <1>1 DEF Validate, TypeOK, TaskType
<1>4. TaskType' /\ TaskPacketInv'
  BY <1>1, <1>3, NoWriteType DEF TypeOK, TaskType, TaskPacketInv, Phases
<1>5. FenceInv'
  BY <1>1, <1>2, <1>3 DEF Validate, FenceInv, InUniverse, LifecycleCurrent
<1> QED
  BY <1>1, <1>2, <1>3, <1>4, <1>5, TaskMove, NoWriteType DEF Validate, TypeOK

\* What a packet built for the task owes to the latest decision is what
\* TaskPacketInv asks of it.
LEMMA BuiltForTask ==
  ASSUME IInv, NEW evidence \in Evidence, NEW status \in Statuses,
         NEW policy \in Policy, NEW at \in Nat, NEW packet,
         packet = BuildEntryDecision(evidence, status, policy, at, task.lifecycle, Latest)
  PROVE  /\ packet \in Packet
         /\ packet.lifecycle = task.lifecycle
         /\ FailClosed(packet)
         /\ Follows(Latest, packet)
         /\ packet.decision = "ACTIVE" => AnnouncedIn(task.lifecycle)
<1>1. /\ TablesInv /\ events \in Seq(Packet) /\ task.lifecycle \in Nat
      /\ alerts \subseteq DOMAIN events
  BY Parts DEF TypeOK, TaskType
<1>2. Latest \in Packet \cup {NoPacket}
  BY <1>1, LatestType
<1>3. /\ packet \in Packet
      /\ packet.lifecycle = task.lifecycle
      /\ (/\ packet.decision \in Actionable
          /\ packet.policy.gate_freshness_required
          /\ packet.policy.gate_execution_required) => packet.block_reasons = {}
      /\ packet.decision = "ACTIVE" =>
           Latest.decision \in Actionable /\ Latest.lifecycle = task.lifecycle
      /\ (Latest.decision \in Actionable /\ Latest.lifecycle = task.lifecycle)
         => \/ packet.decision \in Terminals \cup {"ACTIVE"}
            \/ Latest.decision = "ENTRY_READY" /\ packet.decision = "ENTRY_READY"
  BY <1>1, <1>2, BuildEntryDecisionFacts
<1>4. ASSUME packet.decision = "ACTIVE" PROVE AnnouncedIn(task.lifecycle)
  <2>1. Latest.decision \in Actionable /\ Latest.lifecycle = task.lifecycle
    BY <1>3, <1>4
  <2>2. events # <<>> /\ Latest = events[Len(events)]
    BY <1>1, <2>1, LatestType DEF Latest
  <2>3. Len(events) \in Live(events)
    BY <1>1, <2>1, <2>2 DEF Live
  <2>4. PICK a \in alerts : events[a].lifecycle = events[Len(events)].lifecycle
    BY <1>1, <2>3 DEF TablesInv, ActionableWasAnnounced
  <2> QED
    BY <2>1, <2>2, <2>4 DEF AnnouncedIn
<1> QED
  BY <1>3, <1>4 DEF FailClosed, Follows

LEMMA PacketForTask ==
  ASSUME UNCHANGED tables, NEW packet,
         packet.lifecycle = task.lifecycle, FailClosed(packet), Follows(Latest, packet),
         packet.decision = "ACTIVE" => AnnouncedIn(task.lifecycle),
         task'.write.packet = packet, task'.lifecycle = task.lifecycle
  PROVE  TaskPacketInv'
BY DEF TaskPacketInv, tables, Latest, FailClosed, Follows, AnnouncedIn

LEMMA ReferenceFailureStep == IInv /\ ReferenceFailure => IInv'
<1> SUFFICES ASSUME IInv, ReferenceFailure PROVE IInv'
  OBVIOUS
<1>0. PICK packet : packet = BuildEntryDecision(NoReference, "WATCH", DefaultPolicy, now,
                                              task.lifecycle, Latest)
  OBVIOUS
<1>1. TypeOK /\ TaskType /\ FenceInv /\ now \in Nat
  BY Parts DEF TypeOK
<1>2. /\ UNCHANGED <<catalog, active, candidates, maintenance, tables, signals, now>>
      /\ faults' \in Nat
  BY <1>1 DEF ReferenceFailure, TaskStep, TypeOK
<1>3. NoReference \in Evidence /\ "WATCH" \in Statuses /\ DefaultPolicy \in Policy
  BY PoliciesAssumption DEF NoReference, Evidence, NoPlan, Plans, Statuses, ActiveStatuses,
                            ObservationStates
<1>4. /\ packet \in Packet
      /\ packet.lifecycle = task.lifecycle
      /\ FailClosed(packet)
      /\ Follows(Latest, packet)
      /\ packet.decision = "ACTIVE" => AnnouncedIn(task.lifecycle)
  BY <1>0, <1>1, <1>3, BuiltForTask
<1>5. /\ task.phase = "validating" /\ task.token
      /\ task' = IF Latest.decision \in Actionable
                 THEN [task EXCEPT !.phase = "appending", !.at = now,
                                   !.result = "UNAVAILABLE", !.write = AppendOf(packet)]
                 ELSE [task EXCEPT !.phase = "finishing", !.result = "UNAVAILABLE"]
  BY <1>0 DEF ReferenceFailure
<1>6. \/ task' = [phase |-> "appending", status |-> task.status,
                  lifecycle |-> task.lifecycle, token |-> task.token, at |-> now,
                  result |-> "UNAVAILABLE", write |-> AppendOf(packet)]
      \/ task' = [phase |-> "finishing", status |-> task.status,
                  lifecycle |-> task.lifecycle, token |-> task.token, at |-> task.at,
                  result |-> "UNAVAILABLE", write |-> NoWrite]
  BY <1>1, <1>5 DEF TypeOK, TaskType
<1>7. TaskType'
  BY <1>1, <1>4, <1>6, AppendOfType, NoWriteType DEF TaskType, Phases, Results
<1>8. TaskPacketInv'
  <2>1. CASE task'.write = AppendOf(packet)
    <3>1. task'.write.packet = packet /\ task'.lifecycle = task.lifecycle
      BY <1>4, <1>6, <2>1, AppendOfType
    <3> QED
      BY <1>2, <1>4, <3>1, PacketForTask
  <2>2. CASE task'.write = NoWrite
    BY <2>2, NoWriteType DEF TaskPacketInv
  <2> QED
    BY <1>6, <2>1, <2>2
<1>9. FenceInv'
  BY <1>1, <1>2, <1>5, <1>6 DEF FenceInv, InUniverse, LifecycleCurrent
<1>10. /\ task'.phase # "idle" => task'.status \in ActiveStatuses
       /\ task'.phase = "appending" <=> task'.write # NoWrite
       /\ task'.write.step \in {"none", "append"}
  BY <1>1, <1>4, <1>5, <1>6, AppendOfType, NoWriteType DEF TypeOK
<1> QED
  BY <1>2, <1>7, <1>8, <1>9, <1>10, TaskMove

LEMMA DecideStep == IInv /\ Decide => IInv'
<1> SUFFICES ASSUME IInv, Decide PROVE IInv'
  OBVIOUS
<1>1. TypeOK /\ TaskType /\ FenceInv /\ task.status \in ActiveStatuses
  BY Parts DEF TypeOK, Decide
<1>2. PICK evidence \in Evidences, validation \in Validations, policy \in Policies :
        task' = [task EXCEPT
             !.phase = "appending",
             !.result = Result(validation, evidence.veto),
             !.write = AppendOf(BuildEntryDecision(evidence, DecisionState(validation),
                                          policy, task.at, task.lifecycle, Latest))]
  BY DEF Decide
<1>3. /\ UNCHANGED <<catalog, active, candidates, maintenance, tables, signals, now>>
      /\ faults' \in Nat
  BY <1>1 DEF Decide, TaskStep, TypeOK
<1>4. PICK packet : packet = BuildEntryDecision(evidence, DecisionState(validation),
                                                policy, task.at, task.lifecycle, Latest)
  OBVIOUS
<1>5. /\ validation.suggested \in ActiveStatuses \cup {"REJECTED"}
      /\ validation.valid => validation.suggested # "REJECTED"
  BY ValidationsAssumption DEF Validation
<1>6. DecisionState(validation) \in Statuses
  BY <1>1, <1>5 DEF DecisionState, Statuses, ActiveStatuses
<1>7. Result(validation, evidence.veto) \in Results
  BY <1>5 DEF Result, Results, ActiveStatuses
<1>8. /\ packet \in Packet
      /\ packet.lifecycle = task.lifecycle
      /\ FailClosed(packet)
      /\ Follows(Latest, packet)
      /\ packet.decision = "ACTIVE" => AnnouncedIn(task.lifecycle)
  <2>1. evidence \in Evidence /\ policy \in Policy /\ task.at \in Nat
    BY <1>1, EvidencesAssumption, PoliciesAssumption DEF TaskType
  <2> QED
    BY <1>4, <1>6, <2>1, BuiltForTask
<1>9. task' = [phase |-> "appending", status |-> task.status,
               lifecycle |-> task.lifecycle, token |-> task.token, at |-> task.at,
               result |-> Result(validation, evidence.veto), write |-> AppendOf(packet)]
  BY <1>1, <1>2, <1>4 DEF TaskType
<1>10. TaskType'
  BY <1>1, <1>7, <1>8, <1>9, AppendOfType DEF TaskType, Phases
<1>11. TaskPacketInv'
  <2>1. task'.write.packet = packet /\ task'.lifecycle = task.lifecycle
    BY <1>8, <1>9, AppendOfType
  <2> QED
    BY <1>3, <1>8, <2>1, PacketForTask
<1>12. FenceInv'
  BY <1>1, <1>3, <1>9 DEF Decide, FenceInv, InUniverse, LifecycleCurrent
<1> QED
  BY <1>1, <1>3, <1>8, <1>9, <1>10, <1>11, <1>12, TaskMove, AppendOfType

LEMMA AppendDecisionStep == IInv /\ AppendDecision => IInv'
<1> SUFFICES ASSUME IInv, AppendDecision PROVE IInv'
  OBVIOUS
<1>0. PICK write : write = task.write
  OBVIOUS
<1>1. /\ TypeOK /\ TaskType /\ CatalogType /\ FenceInv /\ TablesInv /\ TaskPacketInv
      /\ WritesInv /\ events \in Seq(Packet) /\ catalog.lifecycle \in Nat
      /\ task.phase = "appending" /\ write # NoWrite /\ write \in Write
      /\ WriteInv(write) /\ task.status \in ActiveStatuses
  BY <1>0, Parts DEF TypeOK, TaskType, CatalogType, AppendDecision, WritesInv
<1>2. UNCHANGED <<catalog, active, candidates, maintenance, signals, now>>
  BY DEF AppendDecision, TaskStep
<1>3. LifecycleCurrent(task.lifecycle)
  BY <1>1 DEF FenceInv
<1>4. /\ Transact(write)
      /\ task' = [task EXCEPT
           !.phase = IF Remaining(write) = NoWrite THEN "finishing" ELSE @,
           !.write = Remaining(write)]
  BY <1>0, <1>3 DEF AppendDecision
<1>5. PICK rest : rest = Remaining(write)
  OBVIOUS
<1>6. rest \in Write /\ rest.step # "append" /\ WriteInv(rest)'
  BY <1>1, <1>4, <1>5, RemainingType
<1>7. task' = [phase |-> IF rest = NoWrite THEN "finishing" ELSE "appending",
               status |-> task.status, lifecycle |-> task.lifecycle, token |-> task.token,
               at |-> task.at, result |-> task.result, write |-> rest]
  BY <1>1, <1>4, <1>5 DEF TaskType
<1>8. TablesInv'
  <2>1. write.step = "append" => Appendable(write.packet)
    BY <1>0, <1>1, <1>3, NoWriteType DEF TaskPacketInv, Appendable, LifecycleCurrent, Write
  <2> QED
    BY <1>1, <1>2, <1>4, <2>1, TransactPreserves
<1>9. TaskType' /\ TaskPacketInv'
  BY <1>1, <1>6, <1>7 DEF TaskType, Phases, TaskPacketInv
<1>10. faults' \in Nat
  BY <1>1, <1>4 DEF Transact, PersistOutcomeCapture, Fault, TypeOK
<1>11. TypeOK'
  BY <1>1, <1>2, <1>7, <1>8, <1>9, <1>10, TypeFromParts
     DEF TypeOK, CatalogType, MaintenanceType, CandidatesType
<1>12. FenceInv'
  BY <1>1, <1>2, <1>3, <1>7 DEF FenceInv, InUniverse, LifecycleCurrent
<1>13. SignalsInv' /\ MaintenancePacketInv'
  BY <1>2, Parts, SignalsUnchanged DEF MaintenancePacketInv
<1>14. WritesInv'
  <2>1. PICK other : other = maintenance.write
    OBVIOUS
  <2>2. WriteInv(other)'
    BY <1>1, <1>4, <2>1, TargetStays DEF WritesInv
  <2> QED
    BY <1>2, <1>6, <1>7, <2>1, <2>2 DEF WritesInv, WriteInv
<1> QED
  BY <1>8, <1>9, <1>11, <1>12, <1>13, <1>14, PartsNext

\* The tail of an evaluation stores an observation or, with its signal, the
\* trigger of the lifecycle the fence has kept it in.
LEMMA FinishStep == IInv /\ Finish => IInv'
<1> SUFFICES ASSUME IInv, Finish PROVE IInv'
  OBVIOUS
<1>1. /\ TypeOK /\ CatalogType /\ FenceInv /\ task.phase = "finishing"
      /\ task.lifecycle = catalog.lifecycle /\ task.lifecycle \in Nat
      /\ signals \in Seq([lifecycle : Nat, evaluated : Nat])
  BY Parts DEF TypeOK, Finish, FenceInv, LifecycleCurrent, TaskType
<1>2. /\ UNCHANGED <<active, candidates, maintenance, tables, now>>
      /\ task' = Idle
  BY DEF Finish
<1>3. \/ UNCHANGED <<catalog, signals>>
      \/ /\ \E status \in ObservationStates \cup {"ARMED"} :
              catalog' = [catalog EXCEPT !.status = status]
         /\ UNCHANGED signals
      \/ /\ catalog' = [catalog EXCEPT !.status = "TRIGGERED"]
         /\ signals' = Append(signals, [lifecycle |-> catalog.lifecycle,
                                        evaluated |-> task.lifecycle])
  BY DEF Finish, UpdateCandidateState, PersistTrigger, KeepStatus, ObservationStates
<1>4. faults' \in Nat
  BY <1>1 DEF Finish, UpdateCandidateState, PersistTrigger, KeepStatus, Fault, TypeOK
<1>5. /\ CatalogType' /\ catalog'.lifecycle = catalog.lifecycle
      /\ catalog'.eligible = catalog.eligible
      /\ catalog.status \in ActiveStatuses => catalog'.status \in ActiveStatuses
      /\ signals' \in Seq([lifecycle : Nat, evaluated : Nat])
  <2>1. \/ catalog' = catalog
        \/ \E status \in ActiveStatuses : catalog' = [catalog EXCEPT !.status = status]
    BY <1>3 DEF ActiveStatuses
  <2>2. /\ CatalogType' /\ catalog'.lifecycle = catalog.lifecycle
        /\ catalog'.eligible = catalog.eligible
        /\ catalog.status \in ActiveStatuses => catalog'.status \in ActiveStatuses
    BY <1>1, <2>1 DEF CatalogType
  <2>3. signals' \in Seq([lifecycle : Nat, evaluated : Nat])
    <3>1. PICK signal \in [lifecycle : Nat, evaluated : Nat] :
            signal = [lifecycle |-> catalog.lifecycle, evaluated |-> task.lifecycle]
      BY <1>1
    <3>2. signals' = signals \/ signals' = Append(signals, signal)
      BY <1>3, <3>1
    <3>3. signals \in Seq([lifecycle : Nat, evaluated : Nat])
      BY <1>1
    <3> QED
      BY <3>2, <3>3, AppendType
  <2> QED
    BY <2>2, <2>3
<1>6. FenceInv'
  BY <1>1, <1>2, <1>5 DEF FenceInv, InUniverse, Idle
<1>7. TablesInv'
  <2>1. catalog.lifecycle <= catalog'.lifecycle
    BY <1>1, <1>5 DEF CatalogType
  <2> QED
    BY <1>1, <1>2, <1>5, <2>1, Parts, TablesKept
<1>8. /\ TaskType' /\ TaskPacketInv' /\ MaintenancePacketInv' /\ WritesInv'
      /\ task'.phase = "idle" /\ task'.write = NoWrite
  BY <1>2, Parts, NoWriteType
     DEF TaskType, TaskPacketInv, MaintenancePacketInv, WritesInv, WriteInv, tables, Idle,
         Phases, Results
<1>9. TypeOK'
  BY <1>1, <1>2, <1>4, <1>5, <1>7, <1>8, TypeFromParts
     DEF TypeOK, MaintenanceType, CandidatesType
<1>10. SignalsInv'
  <2>1. CASE signals' = signals
    BY <1>1, <1>3, <1>5, <2>1, Parts
       DEF SignalsInv, SignalOfCurrentLifecycle, TriggeredHasSignal, ObservationStates,
           CatalogType
  <2>2. CASE signals' = Append(signals, [lifecycle |-> catalog.lifecycle,
                                         evaluated |-> task.lifecycle])
    <3>1. PICK n \in Nat : n = Len(signals)
      BY <1>1
    <3>2. /\ DOMAIN signals = 1..n /\ DOMAIN signals' = 1..(n + 1)
          /\ \A i \in 1..n : signals'[i] = signals[i]
          /\ signals'[n + 1].lifecycle = catalog.lifecycle
          /\ signals'[n + 1].evaluated = task.lifecycle
      BY <1>1, <2>2, <3>1
    <3>3. SignalOfCurrentLifecycle'
      BY <1>1, <3>2, Parts DEF SignalsInv, SignalOfCurrentLifecycle
    <3>4. TriggeredHasSignal'
      BY <1>5, <3>2 DEF TriggeredHasSignal
    <3> QED
      BY <3>3, <3>4 DEF SignalsInv
  <2> QED
    BY <1>3, <2>1, <2>2
<1> QED
  BY <1>6, <1>7, <1>8, <1>9, <1>10, PartsNext

----------------------------------------------------------------------------
(* The maintenance pass.                                                   *)

\* A step of the maintenance pass that writes no table.
LEMMA MaintenanceMove ==
  ASSUME IInv, UNCHANGED <<catalog, active, task, tables, signals, now>>,
         faults' \in Nat, MaintenanceType', CandidatesType', MaintenancePacketInv',
         maintenance'.phase \in {"expire", "retire"} <=> maintenance'.write # NoWrite,
         maintenance'.write.step \in {"none", "append"}
  PROVE  IInv'
<1>1. TablesInv' /\ SignalsInv' /\ FenceInv' /\ TaskPacketInv'
  BY Parts, TablesUnchanged, SignalsUnchanged, FenceUnchanged, TaskPacketUnchanged
<1>2. WritesInv'
  BY Parts DEF WritesInv, WriteInv, tables
<1>3. TypeOK'
  BY <1>1, Parts, TypeFromParts DEF TypeOK, CatalogType, TaskType
<1> QED
  BY <1>1, <1>2, <1>3, PartsNext

\* A transaction of the maintenance pass that records a retirement.
LEMMA RetirementStep ==
  ASSUME IInv, NEW phase \in {"expire", "retire"}, NEW then \in {"snapshot", "rest"},
         Reconcile(phase, then)
  PROVE  IInv'
<1>0. PICK write : write = maintenance.write
  OBVIOUS
<1>1. /\ TypeOK /\ MaintenanceType /\ TablesInv /\ TaskPacketInv /\ WritesInv
      /\ CatalogType /\ catalog.lifecycle \in Nat /\ events \in Seq(Packet)
      /\ write # NoWrite /\ write \in Write /\ WriteInv(write)
      /\ write.step = "append" => write.packet.decision \in {"EXPIRED", "INVALIDATED"}
  BY <1>0, Parts
     DEF TypeOK, MaintenanceType, CatalogType, MaintenancePacketInv, Reconcile, WritesInv
<1>2. /\ UNCHANGED <<catalog, active, candidates, task, signals, now>>
      /\ Transact(write)
  BY <1>0 DEF Reconcile, MaintenanceStep
<1>3. PICK rest : rest = Remaining(write)
  OBVIOUS
<1>4. rest \in Write /\ rest.step # "append" /\ WriteInv(rest)'
  BY <1>1, <1>2, <1>3, RemainingType
<1>5. maintenance' = [phase |-> IF rest = NoWrite THEN then ELSE phase, write |-> rest]
  BY <1>0, <1>3 DEF Reconcile
<1>6. TablesInv' /\ TaskPacketInv'
  <2>1. write.step = "append" => Appendable(write.packet)
    BY <1>1, RetirementAppendable DEF Write, NoWrite
  <2> QED
    BY <1>1, <1>2, <2>1, TransactPreserves, RetirementKeepsTaskPacket
<1>7. /\ MaintenanceType' /\ MaintenancePacketInv'
      /\ maintenance'.phase \in {"expire", "retire"} <=> maintenance'.write # NoWrite
  BY <1>4, <1>5 DEF MaintenanceType, MaintenancePacketInv
<1>8. faults' \in Nat
  BY <1>1, <1>2 DEF Transact, PersistOutcomeCapture, Fault, TypeOK
<1>9. TypeOK'
  BY <1>1, <1>2, <1>6, <1>7, <1>8, TypeFromParts DEF TypeOK, CatalogType, TaskType, CandidatesType
<1>10. FenceInv' /\ SignalsInv'
  BY <1>2, Parts, FenceUnchanged, SignalsUnchanged
<1>11. WritesInv'
  <2>1. PICK other : other = task.write
    OBVIOUS
  <2>2. WriteInv(other)'
    BY <1>1, <1>2, <2>1, TargetStays DEF WritesInv
  <2> QED
    BY <1>2, <1>4, <1>5, <2>1, <2>2 DEF WritesInv, WriteInv
<1> QED
  BY <1>6, <1>7, <1>9, <1>10, <1>11, PartsNext

LEMMA ExpireStep == IInv /\ (Expire \/ Retire) => IInv'
BY RetirementStep DEF Expire, Retire

LEMMA ReadStep == IInv /\ (ReadExpirations \/ ReadInactive) => IInv'
<1> SUFFICES ASSUME IInv, ReadExpirations \/ ReadInactive PROVE IInv'
  OBVIOUS
<1>1. TypeOK /\ Latest.decision \in Actionable => Latest \in Packet
  BY LatestType DEF TypeOK
<1>2. /\ TypeOK /\ now \in Nat
      /\ UNCHANGED <<catalog, active, task, tables, signals, now>>
      /\ UNCHANGED candidates /\ faults' \in Nat
  BY Parts DEF ReadExpirations, ReadInactive, MaintenanceStep, TypeOK
<1>3. \/ maintenance' = [phase |-> "snapshot", write |-> NoWrite]
      \/ maintenance' = Rest
      \/ \E packet \in Packet :
            /\ packet.decision = "EXPIRED"
            /\ maintenance' = [phase |-> "expire", write |-> AppendOf(packet)]
      \/ \E packet \in Packet :
            /\ packet.decision = "INVALIDATED"
            /\ maintenance' = [phase |-> "retire", write |-> AppendOf(packet)]
  <2>1. ASSUME Latest \in Packet
        PROVE  /\ BuildExpired(Latest, now) \in Packet
               /\ BuildExpired(Latest, now).decision = "EXPIRED"
               /\ BuildInvalidated(Latest, "CANDIDATE_NO_LONGER_ACTIVE", now) \in Packet
               /\ BuildInvalidated(Latest, "CANDIDATE_NO_LONGER_ACTIVE", now).decision
                    = "INVALIDATED"
    BY <1>2, <2>1, RetirementType DEF Reasons
  <2> QED
    BY <1>1, <1>2, <2>1 DEF ReadExpirations, ReadInactive, Expirable, Invalidatable
<1>4. /\ MaintenanceType' /\ MaintenancePacketInv'
      /\ maintenance'.phase \in {"expire", "retire"} <=> maintenance'.write # NoWrite
      /\ maintenance'.write.step \in {"none", "append"}
  BY <1>3, AppendOfType, NoWriteType DEF MaintenanceType, MaintenancePacketInv, Rest
<1>5. CandidatesType'
  BY <1>2 DEF TypeOK, CandidatesType
<1> QED
  BY <1>2, <1>4, <1>5, MaintenanceMove

LEMMA SnapshotStep ==
  ASSUME IInv, NEW readable \in BOOLEAN, SnapshotCandidates(readable) \/ MaintenanceFails
  PROVE  IInv'
<1>1. /\ TypeOK
      /\ UNCHANGED <<catalog, active, task, tables, signals, now>>
      /\ faults' \in Nat
  BY Parts DEF SnapshotCandidates, MaintenanceFails, MaintenanceStep, Fault, TypeOK
<1>2. CandidatesType'
  BY <1>1 DEF SnapshotCandidates, MaintenanceFails, TypeOK, CandidatesType, CatalogType,
              InUniverse
<1>3. maintenance' \in {Rest, [phase |-> "reconcile", write |-> NoWrite]}
  BY DEF SnapshotCandidates, MaintenanceFails, Rest
<1>4. /\ MaintenanceType' /\ MaintenancePacketInv'
      /\ maintenance'.phase \in {"expire", "retire"} <=> maintenance'.write # NoWrite
      /\ maintenance'.write.step \in {"none", "append"}
  BY <1>3, NoWriteType DEF MaintenanceType, MaintenancePacketInv, Rest
<1> QED
  BY <1>1, <1>2, <1>4, MaintenanceMove

----------------------------------------------------------------------------
(* Every step preserves the invariant.                                     *)

LEMMA Step == IInv /\ [Next]_vars => IInv'
<1> SUFFICES ASSUME IInv, [Next]_vars PROVE IInv'
  OBVIOUS
<1>1. CASE Evaluation
  BY <1>1, DiscardStep, ValidateStep, ReferenceFailureStep, DecideStep,
     AppendDecisionStep, FinishStep DEF Evaluation
<1>2. CASE Maintenance
  BY <1>2, ReadStep, ExpireStep, SnapshotStep DEF Maintenance
<1>3. CASE EvaluationFails \/ MaintenanceFails \/ Begin \/ Crash \/ Tick
  BY <1>3, EvaluationFailsStep, SnapshotStep, BeginStep, CrashStep, TickStep
<1>4. ASSUME NEW listed \in BOOLEAN, NEW eligible \in BOOLEAN,
             NEW written \in BOOLEAN, NEW readable \in BOOLEAN,
             Refresh(listed, eligible, written, readable)
      PROVE  IInv'
  BY <1>4, RefreshStep
<1>5. CASE UNCHANGED vars
  BY <1>5, StutterStep
<1> QED
  BY <1>1, <1>2, <1>3, <1>4, <1>5 DEF Next

\* The invariant holds in every reachable state.
THEOREM Invariance == Spec => []IInv
<1>1. Init => IInv
  BY InitIInv
<1>2. IInv /\ [Next]_vars => IInv'
  BY Step
<1> QED
  BY <1>1, <1>2, PTL DEF Spec

\* Every variable keeps its type.
THEOREM TypeCorrect == Spec => []TypeOK
<1>1. IInv => TypeOK
  BY DEF IInv
<1> QED
  BY <1>1, Invariance, PTL

\* Between two alerts of one lifecycle a terminal decision was recorded, however
\* relistings and late retirements come in between.
THEOREM OneAlertWhileOpen == Spec => []NoSecondAlertWhileOpen
<1>1. IInv => NoSecondAlertWhileOpen
  BY DEF IInv
<1> QED
  BY <1>1, Invariance, PTL

\* Every actionable decision was announced in its own lifecycle.
THEOREM Announced == Spec => []ActionableWasAnnounced
<1>1. IInv => ActionableWasAnnounced
  BY DEF IInv
<1> QED
  BY <1>1, Invariance, PTL

\* An actionable decision ends in an explicit transition.
THEOREM ExplicitTransitions == Spec => []NoSilentDisappearance
<1>1. IInv => NoSilentDisappearance
  BY DEF IInv
<1> QED
  BY <1>1, Invariance, PTL

\* With both evidence gates in force nothing actionable is hard-blocked.
THEOREM Unblocked == Spec => []ActionableIsUnblocked
<1>1. IInv => ActionableIsUnblocked
  BY DEF IInv
<1> QED
  BY <1>1, Invariance, PTL

\* The ledger holds no signal of a former lifecycle, and a TRIGGERED candidate
\* has a signal of its own.
THEOREM Signals == Spec => [](SignalOfCurrentLifecycle /\ TriggeredHasSignal)
<1>1. IInv => SignalOfCurrentLifecycle /\ TriggeredHasSignal
  BY DEF IInv
<1> QED
  BY <1>1, Invariance, PTL

\* The ledger grows only when an eligible candidate becomes TRIGGERED.
THEOREM SignalTransitions == Spec => SignalIsTransition
<1>1. IInv /\ [Next]_vars =>
        [signals' # signals => /\ catalog.eligible /\ catalog.status # "TRIGGERED"
                               /\ catalog'.status = "TRIGGERED"]_vars
  <2> SUFFICES ASSUME IInv, [Next]_vars, signals' # signals
               PROVE  /\ catalog.eligible /\ catalog.status # "TRIGGERED"
                      /\ catalog'.status = "TRIGGERED"
    OBVIOUS
  <2>1. Finish
    BY DEF Next, Evaluation, Maintenance, vars, Begin, Discard, Validate, ReferenceFailure,
           Decide, AppendDecision, TaskStep, EvaluationFails, ReadExpirations, ReadInactive,
           Expire, Retire, Reconcile, SnapshotCandidates, MaintenanceStep, MaintenanceFails,
           Refresh, Crash, Tick
  <2>2. PersistTrigger /\ task.status # "TRIGGERED"
    BY <2>1 DEF Finish, UpdateCandidateState, KeepStatus
  <2>3. TriggerAllowed /\ catalog' = [catalog EXCEPT !.status = "TRIGGERED"]
    BY <2>2 DEF PersistTrigger, KeepStatus
  <2>4. CatalogType
    BY DEF IInv, TypeOK
  <2> QED
    BY <2>2, <2>3, <2>4 DEF TriggerAllowed, CatalogType
<1> QED
  BY <1>1, Invariance, PTL DEF Spec, SignalIsTransition

\* The last transaction of a write without a fault captures its event, unless
\* the second found another decision or the event is later than the packet.
LEMMA LastTransaction ==
  ASSUME events \in Seq(Packet), faults \in Nat, NEW write \in Write, write # NoWrite,
         write.step # "append", WriteInv(write),
         Transact(write), Remaining(write) = NoWrite, faults' = faults
  PROVE  Settled(write)
<1>1. /\ write.packet \in Packet /\ write.packet.evaluated_at \in Nat
      /\ write.step \in {"repair", "capture"} /\ write.target \in DOMAIN events
      /\ events[write.target].evaluated_at \in Nat
  <2>1. write.packet \in Packet /\ write.step \in {"repair", "capture"}
    BY DEF Write
  <2>2. write.target \in DOMAIN events
    BY <2>1 DEF WriteInv
  <2>3. events[write.target] \in Packet
    BY <2>2
  <2> QED
    BY <2>1, <2>2, <2>3 DEF Packet
<1>2. CASE write.step = "repair"
  <2>1. ~Unchanged(write.packet)
    BY <1>2 DEF Remaining, RepairCaptureTarget, CaptureOf, NoWrite
  <2>2. MaterialProjection(events[write.target]) = MaterialProjection(write.packet)
    BY <1>2 DEF WriteInv
  <2>3. Len(events) # write.target
    BY <1>1, <2>1, <2>2 DEF Unchanged, Latest
  <2> QED
    BY <1>2, <2>3 DEF Settled
<1>3. CASE write.step = "capture"
  <2>1. AppendOutcomeCapture(write.packet, write.target)
    BY <1>3 DEF Transact, PersistOutcomeCapture, Fault
  <2> QED
    BY <1>1, <2>1 DEF AppendOutcomeCapture, Settled
<1> QED
  BY <1>1, <1>2, <1>3

\* A write that ends without a fault has captured its event, for both writers.
THEOREM CaptureRepairs == Spec => CaptureRepaired
<1>1. IInv /\ [Next]_vars =>
        [faults' = faults =>
          /\ (task.write.step # "append" /\ task.write # NoWrite /\ task'.phase = "finishing")
             => Settled(task.write)
          /\ (/\ maintenance.write.step # "append" /\ maintenance.write # NoWrite
              /\ maintenance'.write = NoWrite)
             => Settled(maintenance.write)]_vars
  <2> SUFFICES ASSUME IInv, [Next]_vars, faults' = faults
               PROVE  /\ (/\ task.write.step # "append" /\ task.write # NoWrite
                          /\ task'.phase = "finishing")
                         => Settled(task.write)
                      /\ (/\ maintenance.write.step # "append" /\ maintenance.write # NoWrite
                          /\ maintenance'.write = NoWrite)
                         => Settled(maintenance.write)
    OBVIOUS
  <2>1. /\ TypeOK /\ TaskType /\ MaintenanceType /\ faults \in Nat
        /\ events \in Seq(Packet) /\ WriteInv(task.write) /\ WriteInv(maintenance.write)
    BY DEF IInv, TypeOK
  <2>2. ASSUME task.write.step # "append", task.write # NoWrite, task'.phase = "finishing"
        PROVE  Settled(task.write)
    <3>0. PICK write : write = task.write
      OBVIOUS
    <3>1. task.phase = "appending" /\ task' # task /\ task' # Idle
      BY <2>1, <2>2 DEF TypeOK, Idle
    <3>2. AppendDecision
      BY <2>1, <2>2, <3>1
         DEF Next, Evaluation, Maintenance, vars, Begin, Discard, Validate,
             ReferenceFailure, Decide, Finish, EvaluationFails, ReadExpirations,
             ReadInactive, Expire, Retire, Reconcile, SnapshotCandidates, MaintenanceStep,
             MaintenanceFails, Refresh, LoopFree, Crash, Tick
    <3>3. /\ Transact(write)
          /\ task' = [task EXCEPT
               !.phase = IF Remaining(write) = NoWrite THEN "finishing" ELSE @,
               !.write = Remaining(write)]
      BY <2>2, <3>0, <3>2 DEF AppendDecision
    <3>4. Remaining(write) = NoWrite
      BY <2>1, <2>2, <3>1, <3>3 DEF TaskType
    <3>5. write \in Write /\ write # NoWrite /\ write.step # "append" /\ WriteInv(write)
      BY <2>1, <2>2, <3>0 DEF TaskType
    <3> QED
      BY <2>1, <3>0, <3>3, <3>4, <3>5, LastTransaction
  <2>3. ASSUME maintenance.write.step # "append", maintenance.write # NoWrite,
               maintenance'.write = NoWrite
        PROVE  Settled(maintenance.write)
    <3>0. PICK write : write = maintenance.write
      OBVIOUS
    <3>1. maintenance.phase \in {"expire", "retire"} /\ maintenance' # maintenance
      BY <2>1, <2>3 DEF TypeOK
    <3>2. Expire \/ Retire
      <4>1. ~Crash /\ ~MaintenanceFails
        BY <2>1 DEF Crash, MaintenanceFails, Fault
      <4>2. ~ReadExpirations /\ ~ReadInactive
            /\ ~\E readable \in BOOLEAN : SnapshotCandidates(readable)
        BY <3>1 DEF ReadExpirations, ReadInactive, SnapshotCandidates
      <4>3. Evaluation \/ EvaluationFails \/ Begin \/ Tick => maintenance' = maintenance
        BY DEF Evaluation, Begin, Discard, Validate, ReferenceFailure, Decide,
               AppendDecision, TaskStep, Finish, EvaluationFails, Tick
      <4>4. \A listed, eligible, written, readable \in BOOLEAN :
              Refresh(listed, eligible, written, readable) => maintenance' = maintenance
        BY DEF Refresh
      <4> QED
        BY <3>1, <4>1, <4>2, <4>3, <4>4 DEF Next, Maintenance, vars
    <3>3. /\ Transact(write)
          /\ \E then \in {"snapshot", "rest"}, phase \in {"expire", "retire"} :
               maintenance' = [phase |-> IF Remaining(write) = NoWrite THEN then ELSE phase,
                               write |-> Remaining(write)]
      BY <3>0, <3>2 DEF Expire, Retire, Reconcile
    <3>4. Remaining(write) = NoWrite
      BY <2>3, <3>3
    <3>5. write \in Write /\ write # NoWrite /\ write.step # "append" /\ WriteInv(write)
      BY <2>1, <2>3, <3>0 DEF MaintenanceType
    <3> QED
      BY <2>1, <3>0, <3>3, <3>4, <3>5, LastTransaction
  <2> QED
    BY <2>2, <2>3
<1> QED
  BY <1>1, Invariance, PTL DEF Spec, CaptureRepaired
=============================================================================
