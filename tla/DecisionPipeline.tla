-------------------------- MODULE DecisionPipeline --------------------------
(***************************************************************************)
(* The life of one symbol's entry decisions: the catalogue row that says   *)
(* whether the symbol may be scanned, the hunter task that evaluates it,   *)
(* the maintenance pass that retires decisions, and the tables they write: *)
(* entry_decision_events, entry_notification_outbox, the outcome captures  *)
(* and the signal ledger.                                                  *)
(*                                                                         *)
(* The event loop runs one piece of code at a time, up to its next await;  *)
(* the maintenance pass reads and writes the database from other threads,  *)
(* between any two transactions of the evaluation.  Symbols share only the *)
(* hunter's slots, so one symbol shows every interleaving.                 *)
(***************************************************************************)
EXTENDS EntryDecision, Sequences

CONSTANTS
    Evidences,      \* what an evaluation may measure
    Validations,    \* what the validator may suggest
    Policies,       \* operator settings in force at a decision
    DefaultPolicy,  \* EntryDecisionPolicy()
    Histories,      \* decisions an earlier release left in the table
    MaxEvents,      \* bound: no evaluation starts on a longer event table
    MaxSignals,     \* bound: nor on a longer signal ledger
    MaxLifecycle,   \* bound on lifecycle_id
    Horizon,        \* bound on the clock
    MaxFaults       \* bound on crashes and database errors

\* A valid result suggests a status, any other one is REJECTED.
Validation ==
    {v \in [valid : BOOLEAN, suggested : ActiveStatuses \cup {"REJECTED"},
            observation : ActiveStatuses \cup {"NONE"}] :
       v.valid <=> v.suggested # "REJECTED"}

Live(packets) == {i \in DOMAIN packets : packets[i].decision \in Actionable}

ASSUME EvidencesAssumption   == Evidences \subseteq Evidence
ASSUME ValidationsAssumption == Validations \subseteq Validation
ASSUME PoliciesAssumption    == Policies \subseteq Policy /\ DefaultPolicy \in Policy
ASSUME HistoriesAssumption   ==
    \A h \in Histories : h \in Seq(Packet) /\ Live(h) = {}
ASSUME BoundsAssumption      ==
    {MaxEvents, MaxSignals, MaxLifecycle, Horizon, MaxFaults} \subseteq Nat

VARIABLES
    catalog,     \* the row of lbank_catalog
    active,      \* scanner.active_candidates[symbol]: its lifecycle_id, 0 if absent
    candidates,  \* the hunter's snapshot of the row, taken by maintenance
    task,        \* the evaluation in flight
    maintenance, \* the maintenance pass of hunter_loop
    events,      \* entry_decision_events of the symbol
    alerts,      \* ids of the events with an outbox row
    captures,    \* ids of the events with an outcome capture
    signals,     \* lbank_signal_ledger: lifecycle of the row and of the evaluation
    now,         \* the wall clock
    faults       \* crashes and database errors so far

vars == <<catalog, active, candidates, task, maintenance, events, alerts,
          captures, signals, now, faults>>
tables == <<events, alerts, captures>>

NoSnapshot == [status |-> "NONE", lifecycle |-> 0]

\* A call of append_if_changed_with_capture: the transaction it is about to
\* run, its packet, and the event the packet became or was found to repeat.
NoWrite == [step |-> "none", packet |-> NoPacket, target |-> 0]
AppendOf(packet) == [step |-> "append", packet |-> packet, target |-> 0]
RepairOf(packet, id) == [step |-> "repair", packet |-> packet, target |-> id]
CaptureOf(packet, id) == [step |-> "capture", packet |-> packet, target |-> id]

Idle == [phase |-> "idle", status |-> "NONE", lifecycle |-> 0, token |-> FALSE,
         at |-> 0, result |-> "NONE", write |-> NoWrite]
Rest == [phase |-> "rest", write |-> NoWrite]

Latest == IF events = <<>> THEN NoPacket ELSE events[Len(events)]


InUniverse == catalog.eligible /\ catalog.status \in ActiveStatuses
Fault == faults < MaxFaults /\ faults' = faults + 1

Init ==
    /\ catalog = [status |-> "WATCH", lifecycle |-> 1, eligible |-> TRUE, missing |-> 0]
    /\ active = 0
    /\ candidates = NoSnapshot
    /\ task = Idle
    /\ maintenance = Rest
    /\ events \in Histories
    /\ alerts = {}
    /\ captures = DOMAIN events
    /\ signals = <<>>
    /\ now = 0
    /\ faults = 0

----------------------------------------------------------------------------
(* EntryDecisionStore.append_if_changed_with_capture: up to three          *)
(* transactions, and the other thread's may come between any two of them.  *)

Unchanged(packet) ==
    /\ events # <<>>
    /\ MaterialProjection(Latest) = MaterialProjection(packet)

EntryReadyTransition(packet) ==
    /\ packet.decision = "ENTRY_READY"
    /\ \/ Latest.decision # "ENTRY_READY"
       \/ Latest.lifecycle # packet.lifecycle

\* The first appends a packet that is new and, for a transition into
\* ENTRY_READY, its outbox row.
AppendIfChanged(packet) ==
    IF Unchanged(packet) THEN UNCHANGED tables
    ELSE /\ events' = Append(events, packet)
         /\ alerts' = alerts \cup {i \in {Len(events) + 1} : EntryReadyTransition(packet)}
         /\ UNCHANGED captures

Appended(packet) ==
    IF Unchanged(packet) THEN RepairOf(packet, Len(events))
    ELSE CaptureOf(packet, Len(events) + 1)

\* The second, for a repeated packet, reads the latest event again: if another
\* decision was appended in between there is nothing to repair.
RepairCaptureTarget(packet) ==
    IF Unchanged(packet) THEN CaptureOf(packet, Len(events)) ELSE NoWrite

\* A mutant: the capture is stored for the latest event instead of the one the
\* append returned.
AppendOutcomeCapture_Latest(packet, target) ==
    captures' = captures \cup {Len(events)} /\ UNCHANGED <<events, alerts>>

\* The last stores the capture, unless the event is later than the packet ...
AppendOutcomeCapture(packet, target) ==
    /\ captures' = captures \cup
         {i \in {target} : packet.evaluated_at >= events[i].evaluated_at}
    /\ UNCHANGED <<events, alerts>>

\* ... best effort: an error is logged and ignored.
PersistOutcomeCapture(packet, target) ==
    \/ AppendOutcomeCapture(packet, target) /\ UNCHANGED faults
    \/ Fault /\ UNCHANGED tables

\* One transaction of the call, and what remains of it.
Transact(write) ==
    \/ write.step = "append" /\ AppendIfChanged(write.packet) /\ UNCHANGED faults
    \/ write.step = "repair" /\ UNCHANGED <<tables, faults>>
    \/ write.step = "capture" /\ PersistOutcomeCapture(write.packet, write.target)

Remaining(write) ==
    IF write.step = "append" THEN Appended(write.packet)
    ELSE IF write.step = "repair" THEN RepairCaptureTarget(write.packet)
    ELSE NoWrite

\* the expected_lifecycle_id check of append_if_changed
LifecycleCurrent(lifecycle) ==
    /\ catalog.lifecycle = lifecycle
    /\ catalog.eligible
    /\ catalog.status # "REMOVED"

----------------------------------------------------------------------------
(* LBankScanner.update_catalog: one await fetches the listing, the rest    *)
(* runs without another one, so no evaluation is past its last await.      *)

\* A mutant: an await was slipped between the decision and the ledger write.
LoopFree_Awaiting == task.phase # "appending"

LoopFree == task.phase \notin {"appending", "finishing"}


Relisted(eligible) ==
    [status |-> "WATCH", lifecycle |-> catalog.lifecycle + 1,
     eligible |-> eligible, missing |-> 0]

\* db.update_candidates: a relisting or a flip of eligibility opens a new
\* lifecycle.
UpdateCandidates(eligible) ==
    catalog' = IF catalog.status = "REMOVED" \/ catalog.eligible # eligible
               THEN Relisted(eligible)
               ELSE [catalog EXCEPT !.missing = 0]

\* db.record_missing_symbols with removal_after = 2
RecordMissing ==
    catalog' = IF catalog.status = "REMOVED" THEN catalog
               ELSE IF catalog.missing + 1 >= 2
               THEN [status |-> "REMOVED", lifecycle |-> catalog.lifecycle,
                     eligible |-> FALSE, missing |-> catalog.missing + 1]
               ELSE [catalog EXCEPT !.missing = catalog.missing + 1]


\* The dictionary is replaced, so a token taken before is no longer current.
Swap(lifecycle) ==
    /\ active' = lifecycle
    /\ task' = [task EXCEPT !.token = FALSE]

\* written, readable: whether the two database calls of the refresh succeed;
\* both swallow their errors.
Refresh(listed, eligible, written, readable) ==
    /\ LoopFree
    /\ IF written /\ readable THEN UNCHANGED faults ELSE Fault
    /\ IF ~written THEN UNCHANGED catalog
       ELSE IF listed THEN UpdateCandidates(eligible) ELSE RecordMissing
    /\ catalog'.lifecycle <= MaxLifecycle
    /\ LET row == catalog' IN
       Swap(IF /\ listed /\ eligible /\ readable
               /\ row.eligible /\ row.status \in ActiveStatuses
            THEN row.lifecycle ELSE 0)
    /\ UNCHANGED <<candidates, maintenance, events, alerts, captures, signals, now>>

----------------------------------------------------------------------------
(* evaluate_candidate, one action per stretch between two awaits.          *)

\* hunter_loop starts due candidates between its own awaits, from its
\* snapshot of the catalogue.
Begin ==
    /\ task.phase = "idle"
    /\ maintenance.phase = "rest"
    /\ candidates # NoSnapshot
    /\ active = candidates.lifecycle
    /\ Len(events) < MaxEvents /\ Len(signals) < MaxSignals
    /\ task' = [Idle EXCEPT !.phase = "validating", !.status = candidates.status,
                            !.lifecycle = candidates.lifecycle, !.token = TRUE]
    /\ UNCHANGED <<catalog, active, candidates, maintenance, tables, signals, now, faults>>

TaskStep == UNCHANGED <<catalog, active, candidates, maintenance, now>>

\* _candidate_evaluation_token_is_current fails after an await
Discard ==
    /\ task.phase \in {"validating", "enriching"}
    /\ ~task.token
    /\ task' = Idle
    /\ TaskStep /\ UNCHANGED <<tables, signals, faults>>

\* cross_check_symbol returned: the decision clock is read here, and the
\* execution suitability is then awaited.
Validate ==
    /\ task.phase = "validating" /\ task.token
    /\ task' = [task EXCEPT !.phase = "enriching", !.at = now]
    /\ TaskStep /\ UNCHANGED <<tables, signals, faults>>

\* No venue has a fresh reference price: an actionable decision is
\* re-evaluated without evidence, anything else is left as it is.
ReferenceFailure ==
    /\ task.phase = "validating" /\ task.token
    /\ LET packet == BuildEntryDecision(NoReference, "WATCH", DefaultPolicy, now,
                                        task.lifecycle, Latest)
       IN  task' = IF Latest.decision \in Actionable
                   THEN [task EXCEPT !.phase = "appending", !.at = now,
                                     !.result = "UNAVAILABLE", !.write = AppendOf(packet)]
                   ELSE [task EXCEPT !.phase = "finishing", !.result = "UNAVAILABLE"]
    /\ TaskStep /\ UNCHANGED <<tables, signals, faults>>

DecisionState(validation) ==
    CASE validation.suggested \in ActiveStatuses -> validation.suggested
      [] /\ validation.suggested \notin ActiveStatuses
         /\ validation.observation \in ObservationStates \cup {"ARMED"}
            -> validation.observation
      [] OTHER -> task.status

\* What the tail of the evaluation will do with the candidate's status.
Result(validation, vetoed) ==
    IF validation.valid
    THEN IF validation.suggested = "TRIGGERED" /\ vetoed /\ task.status # "TRIGGERED"
         THEN "VETOED" ELSE validation.suggested
    ELSE IF validation.observation \in ObservationStates
         THEN validation.observation ELSE "UNAVAILABLE"

\* The last await is over: the latest decision is read and the next built.
Decide ==
    /\ task.phase = "enriching" /\ task.token
    /\ \E evidence \in Evidences, validation \in Validations, policy \in Policies :
         task' = [task EXCEPT
             !.phase = "appending",
             !.result = Result(validation, evidence.veto),
             !.write = AppendOf(BuildEntryDecision(evidence, DecisionState(validation),
                                          policy, task.at, task.lifecycle, Latest))]
    /\ TaskStep /\ UNCHANGED <<tables, signals, faults>>

\* A transaction of the decision's write.  A packet of a lifecycle that is no
\* longer current ends the evaluation with StaleCandidateLifecycleError.
AppendDecision ==
    /\ task.phase = "appending"
    /\ IF task.write.step = "append" /\ ~LifecycleCurrent(task.lifecycle)
       THEN task' = Idle /\ UNCHANGED <<tables, faults>>
       ELSE /\ Transact(task.write)
            /\ task' = [task EXCEPT
                 !.phase = IF Remaining(task.write) = NoWrite THEN "finishing" ELSE @,
                 !.write = Remaining(task.write)]
    /\ TaskStep /\ UNCHANGED signals

\* db.update_candidate_state; a failed write is logged and ignored
UpdateCandidateState(status) ==
    \/ /\ catalog' = IF catalog.eligible THEN [catalog EXCEPT !.status = status]
                    ELSE catalog
       /\ UNCHANGED <<signals, faults>>
    \/ Fault /\ UNCHANGED <<catalog, signals>>

KeepStatus == UNCHANGED <<catalog, signals, faults>>


\* LBankSignalLedger.persist_trigger: the row is compared with the status the
\* evaluation started from, then the signal is appended.
TriggerAllowed == catalog.eligible /\ catalog.status = task.status

PersistTrigger ==
    \/ /\ TriggerAllowed
       /\ catalog' = [catalog EXCEPT !.status = "TRIGGERED"]
       /\ signals' = Append(signals, [lifecycle |-> catalog.lifecycle,
                                      evaluated |-> task.lifecycle])
       /\ UNCHANGED faults
    \/ KeepStatus     \* its metadata or the row's status is refused
    \/ Fault /\ UNCHANGED <<catalog, signals>>

Finish ==
    /\ task.phase = "finishing"
    /\ \/ /\ task.result \in ObservationStates \cup {"ARMED"}
          /\ IF task.status # task.result THEN UpdateCandidateState(task.result)
             ELSE KeepStatus
       \/ /\ task.result = "UNAVAILABLE"
          /\ IF task.status # "WATCH" THEN UpdateCandidateState("WATCH")
             ELSE KeepStatus
       \/ task.result = "VETOED" /\ UpdateCandidateState("WATCH")
       \/ /\ task.result = "TRIGGERED"
          /\ IF task.status # "TRIGGERED" THEN PersistTrigger ELSE KeepStatus
    /\ task' = Idle
    /\ UNCHANGED <<active, candidates, maintenance, tables, now>>

\* An error of the database ends the evaluation; evaluate_scheduled logs it.
EvaluationFails ==
    /\ task.phase # "idle"
    /\ Fault
    /\ task' = Idle
    /\ TaskStep /\ UNCHANGED <<tables, signals>>

----------------------------------------------------------------------------
(* The maintenance pass of hunter_loop: three calls in worker threads.     *)

MaintenanceStep == UNCHANGED <<catalog, active, task, signals, now>>

\* _reconcile_explicit_entry_expirations reads every latest decision ...
ReadExpirations ==
    /\ maintenance.phase = "rest"
    /\ maintenance' =
         IF Expirable(Latest, now)
         THEN [phase |-> "expire", write |-> AppendOf(BuildExpired(Latest, now))]
         ELSE [phase |-> "snapshot", write |-> NoWrite]
    /\ MaintenanceStep /\ UNCHANGED <<candidates, tables, faults>>

\* ... and records each expiry later, without a look at the lifecycle.
Reconcile(phase, then) ==
    /\ maintenance.phase = phase
    /\ Transact(maintenance.write)
    /\ maintenance' =
         [phase |-> IF Remaining(maintenance.write) = NoWrite THEN then ELSE phase,
          write |-> Remaining(maintenance.write)]
    /\ MaintenanceStep /\ UNCHANGED candidates

Expire == Reconcile("expire", "snapshot")

\* db.get_all_active_candidates; an error reads as an empty universe
SnapshotCandidates(readable) ==
    /\ maintenance.phase = "snapshot"
    /\ candidates' = IF readable /\ InUniverse
                     THEN [status |-> catalog.status, lifecycle |-> catalog.lifecycle]
                     ELSE NoSnapshot
    /\ IF readable THEN UNCHANGED faults ELSE Fault
    /\ maintenance' = [Rest EXCEPT !.phase = "reconcile"]
    /\ MaintenanceStep /\ UNCHANGED tables

\* A mutant: only announced entries are retired, not entries in progress.
Invalidatable_ReadyOnly == Latest.decision = "ENTRY_READY"

Invalidatable == Latest.decision \in Actionable

\* _reconcile_inactive_actionable_decisions
ReadInactive ==
    /\ maintenance.phase = "reconcile"
    /\ maintenance' =
         IF candidates = NoSnapshot /\ Invalidatable
         THEN [phase |-> "retire",
               write |-> AppendOf(BuildInvalidated(Latest, "CANDIDATE_NO_LONGER_ACTIVE", now))]
         ELSE Rest
    /\ MaintenanceStep /\ UNCHANGED <<candidates, tables, faults>>

Retire == Reconcile("retire", "rest")

MaintenanceFails ==
    /\ maintenance.phase # "rest"
    /\ Fault
    /\ maintenance' = Rest
    /\ MaintenanceStep /\ UNCHANGED <<candidates, tables>>

----------------------------------------------------------------------------
(* The process dies and restarts; the tables stay.                         *)
Crash ==
    /\ Fault
    /\ active' = 0
    /\ candidates' = NoSnapshot
    /\ task' = Idle
    /\ maintenance' = Rest
    /\ UNCHANGED <<catalog, tables, signals, now>>

Tick ==
    /\ now < Horizon
    /\ now' = now + 1
    /\ UNCHANGED <<catalog, active, candidates, task, maintenance, tables, signals, faults>>

Evaluation ==
    \/ Discard \/ Validate \/ ReferenceFailure \/ Decide
    \/ AppendDecision \/ Finish

Maintenance ==
    \/ ReadExpirations \/ Expire \/ ReadInactive \/ Retire
    \/ \E readable \in BOOLEAN : SnapshotCandidates(readable)

Next ==
    \/ Begin \/ Evaluation \/ EvaluationFails
    \/ Maintenance \/ MaintenanceFails
    \/ \E listed, eligible, written, readable \in BOOLEAN :
          Refresh(listed, eligible, written, readable)
    \/ Crash \/ Tick

Spec == Init /\ [][Next]_vars

\* The event loop keeps running tasks whose await has ended, and hunter_loop
\* keeps its maintenance interval.
FairSpec == Spec /\ WF_vars(Evaluation) /\ WF_vars(Maintenance)

----------------------------------------------------------------------------
(* Correctness.                                                            *)

Phases == {"idle", "validating", "enriching", "appending", "finishing"}
Results == ActiveStatuses \cup {"NONE", "UNAVAILABLE", "VETOED"}

CatalogType ==
    catalog \in [status : ActiveStatuses \cup {"REMOVED"}, lifecycle : Nat \ {0},
                 eligible : BOOLEAN, missing : Nat]
Write ==
    {NoWrite} \cup [step : {"append", "repair", "capture"}, packet : Packet, target : Nat]
TaskType ==
    task \in [phase : Phases, status : ActiveStatuses \cup {"NONE"}, lifecycle : Nat,
              token : BOOLEAN, at : Nat, result : Results, write : Write]
MaintenanceType ==
    maintenance \in [phase : {"rest", "expire", "snapshot", "reconcile", "retire"},
                     write : Write]
CandidatesType ==
    candidates \in [status : ActiveStatuses, lifecycle : Nat \ {0}] \cup {NoSnapshot}

\* The type invariant: among others, only statuses the hunter may scan or
\* REMOVED are stored, and a write under way holds a whole packet.
TypeOK ==
    /\ CatalogType /\ TaskType /\ MaintenanceType /\ CandidatesType
    /\ active \in Nat
    /\ events \in Seq(Packet)
    /\ alerts \subseteq DOMAIN events
    /\ captures \subseteq DOMAIN events
    /\ signals \in Seq([lifecycle : Nat, evaluated : Nat])
    /\ now \in Nat /\ faults \in Nat
    /\ task.phase # "idle" => task.status \in ActiveStatuses
    /\ task.phase = "appending" <=> task.write # NoWrite
    /\ maintenance.phase \in {"expire", "retire"} <=> maintenance.write # NoWrite

\* An open entry is announced once: however evaluations, relistings and late
\* retirements are interleaved, between two alerts of one lifecycle a terminal
\* decision was recorded.
NoSecondAlertWhileOpen ==
    \A a, b \in alerts :
        (a < b /\ events[a].lifecycle = events[b].lifecycle)
        => \E i \in (a + 1)..(b - 1) : events[i].decision \in Terminals

\* "ACTIVE means an earlier entry-ready event is now in progress": every
\* actionable decision has an alert in its own lifecycle, at or before it.
ActionableWasAnnounced ==
    \A i \in Live(events) :
        \E a \in alerts : a <= i /\ events[a].lifecycle = events[i].lifecycle

\* "It does not silently disappear": within its lifecycle an actionable
\* decision is followed only by an explicit transition, never by FORMING or
\* NO_TRADE and never by a step back from ACTIVE to ENTRY_READY.
Follows(before, after) ==
    (before.decision \in Actionable /\ after.lifecycle = before.lifecycle)
    => \/ after.decision \in Terminals \cup {"ACTIVE"}
       \/ before.decision = "ENTRY_READY" /\ after.decision = "ENTRY_READY"
NoSilentDisappearance ==
    \A i \in DOMAIN events :
        i + 1 \in DOMAIN events => Follows(events[i], events[i + 1])

\* "A packet must never advertise an actionable decision while it is
\* simultaneously hard-blocked": true of every policy that keeps the
\* freshness and the execution gate.
FailClosed(packet) ==
    (/\ packet.decision \in Actionable
     /\ packet.policy.gate_freshness_required
     /\ packet.policy.gate_execution_required)
    => packet.block_reasons = {}
ActionableIsUnblocked == \A i \in DOMAIN events : FailClosed(events[i])

\* persist_trigger compares only the status, so a signal of an evaluation
\* started in a former lifecycle must be stopped before it: by the token, by
\* the append and by the absence of an await after them.
SignalOfCurrentLifecycle ==
    \A i \in DOMAIN signals : signals[i].lifecycle = signals[i].evaluated

\* A candidate shown TRIGGERED has its immutable signal in the ledger.
TriggeredHasSignal ==
    catalog.status = "TRIGGERED" =>
        \E i \in DOMAIN signals : signals[i].lifecycle = catalog.lifecycle

\* A stale snapshot of the status never produces a second signal: each signal
\* takes an eligible candidate from another status to TRIGGERED.
SignalIsTransition ==
    [][signals' # signals =>
          /\ catalog.eligible /\ catalog.status # "TRIGGERED"
          /\ catalog'.status = "TRIGGERED"]_vars

\* A call of append_if_changed_with_capture that ends without a fault has the
\* event it appended captured, whatever the other thread appended meanwhile,
\* and so the one it repeated, unless another decision came in between or the
\* event is later than the packet.
Settled(write) ==
    \/ write.target \in captures'
    \/ write.step = "repair" /\ Len(events) # write.target
    \/ events[write.target].evaluated_at > write.packet.evaluated_at
CaptureRepaired ==
    [][faults' = faults =>
          /\ (task.write.step # "append" /\ task.write # NoWrite /\ task'.phase = "finishing")
             => Settled(task.write)
          /\ (/\ maintenance.write.step # "append" /\ maintenance.write # NoWrite
              /\ maintenance'.write = NoWrite)
             => Settled(maintenance.write)]_vars

\* An actionable decision past its explicit expiry, or of a symbol outside
\* the scan universe, does not stay the latest one for ever.
Lapsed ==
    /\ Latest.decision \in Actionable
    /\ PlanExpired(Latest.plan, now) \/ ~InUniverse
EventuallyRetired == []<>~Lapsed

----------------------------------------------------------------------------
(* The inductive invariant: the properties above, with what a packet under *)
(* way owes to the table it will be appended to.                           *)

AnnouncedIn(lifecycle) == \E a \in alerts : events[a].lifecycle = lifecycle

\* An announced entry with no terminal decision since is still the business
\* of the latest event, or of a newer lifecycle.
OpenEntryInv ==
    \A a \in alerts :
        (\A i \in (a + 1)..Len(events) : events[i].decision \notin Terminals)
        => /\ events[a].lifecycle <= Latest.lifecycle
           /\ Latest.lifecycle <= catalog.lifecycle
           /\ events[a].lifecycle = Latest.lifecycle => Latest.decision \in Actionable

\* Between the read and the append only the maintenance threads write, and
\* they leave no actionable decision behind.
TaskPacketInv ==
    task.write.step = "append" =>
        /\ task.write.packet.lifecycle = task.lifecycle
        /\ FailClosed(task.write.packet)
        /\ Follows(Latest, task.write.packet)
        /\ task.write.packet.decision = "ACTIVE" => AnnouncedIn(task.lifecycle)

MaintenancePacketInv ==
    maintenance.write.step = "append" =>
        maintenance.write.packet.decision \in {"EXPIRED", "INVALIDATED"}

\* A call knows the event of its packet, and the one its packet repeats.
WriteInv(write) ==
    /\ write.step \in {"repair", "capture"} => write.target \in DOMAIN events
    /\ write.step = "repair" =>
         MaterialProjection(events[write.target]) = MaterialProjection(write.packet)

\* The token fence alone keeps an evaluation in the current lifecycle: the
\* check inside the append never fires in a single process.
FenceInv ==
    /\ active # 0 => active = catalog.lifecycle /\ InUniverse
    /\ (task.phase \in {"validating", "enriching"} /\ task.token)
       => LifecycleCurrent(task.lifecycle)
    /\ task.phase \in {"appending", "finishing"} => LifecycleCurrent(task.lifecycle)

IInv ==
    /\ TypeOK
    /\ NoSecondAlertWhileOpen /\ OpenEntryInv /\ ActionableWasAnnounced
    /\ NoSilentDisappearance /\ ActionableIsUnblocked
    /\ TaskPacketInv /\ MaintenancePacketInv
    /\ WriteInv(task.write) /\ WriteInv(maintenance.write)
    /\ FenceInv
    /\ SignalOfCurrentLifecycle /\ TriggeredHasSignal

----------------------------------------------------------------------------
(* What the documentation says and the code does otherwise.                *)

\* A symbol that never left the active universe keeps its entry: leaving it
\* ends the lifecycle, so no decision of the lifecycle the symbol is still
\* active in was invalidated for inactivity.
ActiveSymbolNotInvalidated ==
    \A i \in DOMAIN events :
        "CANDIDATE_NO_LONGER_ACTIVE" \in events[i].block_reasons
        => ~(InUniverse /\ catalog.lifecycle = events[i].lifecycle)
=============================================================================
