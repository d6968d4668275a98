--------------------------- MODULE LifecycleShadow ---------------------------
(***************************************************************************)
(* The second lifecycle, run in the shadow of the first: after every       *)
(* evaluation the state stored last for the symbol's episode is moved by   *)
(* the evidence of that evaluation, and the move is appended to a log next *)
(* to the state of the first lifecycle (lifecycle_v2_shadow.py,            *)
(* lifecycle_v2_shadow_store.py, persist_lifecycle_v2_shadow in main.py).  *)
(* The evaluations of a symbol are sequential and the log is ordered by    *)
(* their clock, which is taken not to step back.                           *)
(***************************************************************************)
EXTENDS Integers, Sequences

CONSTANTS
    Evidences,      \* what an evaluation may have found
    FirstStates,    \* the states of the first lifecycle
    MaxEpisode, MaxEvents, MaxFaults

Answers == {"yes", "no", "unknown"}
\* extension is the distance already travelled below support: within the
\* chase limit, beyond it, or at the hard block; setup, closed and the rest
\* are answers of the evaluation.
EvidenceType ==
    [profile : {"STRICT", "EXPERIMENTAL"},
     clock : {"fresh", "stale", "unknown"},
     extension : {"near", "late", "blocked", "unknown"},
     fuel : Answers, structure : Answers, flow : Answers, relative : Answers,
     setup : Answers, closed : Answers, execution : Answers, confirmed : Answers]
ShadowAssumption ==
    /\ Evidences \subseteq EvidenceType
    /\ MaxEpisode \in Nat \ {0} /\ MaxEvents \in Nat /\ MaxFaults \in Nat

VARIABLES
    episode,        \* the lifecycle the symbol is in, counted from 1
    log,            \* the stored events, oldest first
    shadowFaults

vars == <<episode, log, shadowFaults>>

Terminal == {"LATE", "EXHAUSTED", "INVALIDATED", "EXPIRED", "EXECUTION_BLOCKED"}
States == {"WATCH", "FUEL_RICH", "PRE_TRIGGER", "ARMED", "TRIGGERED"} \cup Terminal
Reasons ==
    {"TERMINAL_EPISODE_IMMUTABLE", "INSUFFICIENT_EVIDENCE", "DATA_STALE",
     "ANTI_CHASE_HARD_BLOCK", "LATE_EXTENSION", "FUEL_EXPANSION_CONFIRMED",
     "FUEL_RICH_NOT_CONFIRMED", "STRUCTURE_AND_WEAKNESS_CONFIRMED",
     "STRUCTURE_NOT_CONFIRMED", "STRICT_SETUP_NOT_READY",
     "TRIGGER_ALREADY_CLOSED_BEFORE_ARMING", "EXECUTION_NOT_POSSIBLE",
     "EXPERIMENTAL_PROFILE_OBSERVATIONAL_ONLY", "STRICT_SETUP_ARMED",
     "CLOSED_TRIGGER_CONFIRMED", "TRIGGER_NOT_CLOSED", "NO_FORWARD_TRANSITION"}
Events ==
    [episode : 1..MaxEpisode, from : States, to : States, reasons : SUBSET Reasons,
     first : FirstStates, profile : {"STRICT", "EXPERIMENTAL"}, open : BOOLEAN]
TypeOK ==
    /\ episode \in 1..MaxEpisode /\ shadowFaults \in 0..MaxFaults
    /\ log \in Seq(Events) /\ Len(log) <= MaxEvents

Init == episode = 1 /\ log = <<>> /\ shadowFaults = 0

-----------------------------------------------------------------------------
Move(to, reasons) == [to |-> to, reasons |-> reasons]

\* Evidence that may not exist: it is stale, or an end of the episode.
\* Invalidation, expiry, exhaustion and a liquidity shock are never set by
\* the facts of an evaluation, so only the extension ends an episode.
Ended(e) ==
    IF e.extension = "blocked"
    THEN Move("EXECUTION_BLOCKED", {"ANTI_CHASE_HARD_BLOCK"})
    ELSE Move("LATE", {"LATE_EXTENSION"})

FromWatch(e) ==
    IF e.fuel = "unknown" THEN Move("WATCH", {"INSUFFICIENT_EVIDENCE"})
    ELSE IF e.fuel = "yes" THEN Move("FUEL_RICH", {"FUEL_EXPANSION_CONFIRMED"})
    ELSE Move("WATCH", {"FUEL_RICH_NOT_CONFIRMED"})

FromFuelRich(e) ==
    IF e.structure = "unknown" \/ (e.flow = "unknown" /\ e.relative = "unknown")
    THEN Move("FUEL_RICH", {"INSUFFICIENT_EVIDENCE"})
    ELSE IF e.structure = "yes" /\ "yes" \in {e.flow, e.relative}
    THEN Move("PRE_TRIGGER", {"STRUCTURE_AND_WEAKNESS_CONFIRMED"})
    ELSE Move("FUEL_RICH", {"STRUCTURE_NOT_CONFIRMED"})

\* Arming asks for a setup that is ready before its trigger closes, and for
\* an execution that is possible; "execution" stands for the constraints, the
\* book, the levels, the cost, the depth, the capacity and the distance.
Obstacles(e) ==
    (IF e.setup = "no" THEN {"STRICT_SETUP_NOT_READY"} ELSE {})
      \cup (IF e.closed = "yes" THEN {"TRIGGER_ALREADY_CLOSED_BEFORE_ARMING"} ELSE {})
      \cup (IF e.execution = "no" THEN {"EXECUTION_NOT_POSSIBLE"} ELSE {})
FromPreTrigger(e) ==
    IF "unknown" \in {e.setup, e.closed, e.execution}
    THEN Move("PRE_TRIGGER", {"INSUFFICIENT_EVIDENCE"})
    ELSE IF e.profile = "EXPERIMENTAL"
    THEN Move("PRE_TRIGGER", {"EXPERIMENTAL_PROFILE_OBSERVATIONAL_ONLY"})
    ELSE IF Obstacles(e) # {} THEN Move("PRE_TRIGGER", Obstacles(e))
    ELSE Move("ARMED", {"STRICT_SETUP_ARMED"})

FromArmed(e) ==
    IF "unknown" \in {e.closed, e.confirmed}
    THEN Move("ARMED", {"INSUFFICIENT_EVIDENCE"})
    ELSE IF e.closed = "yes" /\ e.confirmed = "yes"
    THEN Move("TRIGGERED", {"CLOSED_TRIGGER_CONFIRMED"})
    ELSE Move("ARMED", {"TRIGGER_NOT_CLOSED"})

\* _next_state
NextState(state, e) ==
    IF state \in Terminal THEN Move(state, {"TERMINAL_EPISODE_IMMUTABLE"})
    ELSE IF "unknown" \in {e.extension, e.clock}
    THEN Move(state, {"INSUFFICIENT_EVIDENCE"})
    ELSE IF e.clock = "stale" THEN Move(state, {"DATA_STALE"})
    ELSE IF e.extension # "near" THEN Ended(e)
    ELSE IF state = "WATCH" THEN FromWatch(e)
    ELSE IF state = "FUEL_RICH" THEN FromFuelRich(e)
    ELSE IF state = "PRE_TRIGGER" THEN FromPreTrigger(e)
    ELSE IF state = "ARMED" THEN FromArmed(e)
    ELSE Move(state, {"NO_FORWARD_TRANSITION"})

-----------------------------------------------------------------------------
\* The events of an episode that lie before a place in the log, and the newest.
EventsBefore(n, i) == {j \in 1..(i - 1) : log[j].episode = n}
EventsOf(n) == EventsBefore(n, Len(log) + 1)
Newest(places) == CHOOSE i \in places : \A j \in places : j <= i

\* latest_state: of this episode, WATCH when nothing is stored.
LatestState_AnyEpisode(n) == IF log = <<>> THEN "WATCH" ELSE log[Len(log)].to
LatestState(n) == IF EventsOf(n) = {} THEN "WATCH" ELSE log[Newest(EventsOf(n))].to

\* append_comparison: a move that stays for the reasons stored last is not
\* stored again.
Append_(event) ==
    LET same == EventsOf(event.episode) IN
    IF event.from = event.to /\ same # {} /\ log[Newest(same)].reasons = event.reasons
    THEN UNCHANGED log
    ELSE Len(log) < MaxEvents /\ log' = Append(log, event)

\* The shadow of an evaluation that left the first lifecycle at v1.
Persist(e, v1) ==
    LET from == LatestState(episode)
        move == NextState(from, e)
    IN /\ Append_([episode |-> episode, from |-> from, to |-> move.to,
                   reasons |-> move.reasons, first |-> v1, profile |-> e.profile,
                   open |-> e.closed = "no"])
       /\ UNCHANGED <<episode, shadowFaults>>

\* The log cannot be read or written: the evaluation goes on without it.
PersistFails ==
    /\ shadowFaults < MaxFaults /\ shadowFaults' = shadowFaults + 1
    /\ UNCHANGED <<episode, log>>

\* The symbol leaves and comes back: a new lifecycle.
NewEpisode ==
    /\ episode < MaxEpisode /\ episode' = episode + 1
    /\ UNCHANGED <<log, shadowFaults>>

Next ==
    \/ \E e \in Evidences, v1 \in FirstStates : Persist(e, v1)
    \/ PersistFails \/ NewEpisode

Spec == Init /\ [][Next]_vars

-----------------------------------------------------------------------------
\* The log of an episode is one path of the lifecycle: it starts at WATCH,
\* every event goes on where the one before ended, in spite of events that
\* were not stored and of episodes before it, nothing follows an end, and a
\* trigger is only reached from an arming that found the trigger still open
\* under the strict profile.
EpisodeIsAPath ==
    \A i \in 1..Len(log) :
        LET event == log[i]
            before == EventsBefore(event.episode, i)
        IN
        /\ event.from = IF before = {} THEN "WATCH" ELSE log[Newest(before)].to
        /\ event.from \in Terminal => event.to = event.from
        /\ event.to = "TRIGGERED" => \E j \in before :
              /\ log[j].from = "PRE_TRIGGER" /\ log[j].to = "ARMED"
              /\ log[j].open /\ log[j].profile = "STRICT"
=============================================================================
