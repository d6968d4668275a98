--------------------------- MODULE HunterSchedule ---------------------------
(***************************************************************************)
(* The hunter's scheduler: hunter_loop with HunterDeadlineSchedule.  It    *)
(* keeps a snapshot of the candidates, a due time for each, and a limited  *)
(* number of evaluations in flight.                                        *)
(*                                                                         *)
(* Only differences of times matter to the code, so times are kept         *)
(* relative to the present: how long until a symbol is due (negative: it   *)
(* is overdue), how long since it was started.  A pass of the loop takes   *)
(* no time; time goes by while the loop sleeps.  Dictionaries are          *)
(* functions whose domain is the set of their keys.                        *)
(***************************************************************************)
EXTENDS Integers, FiniteSets

CONSTANTS
    Symbols,
    Seen,                 \* statuses a candidate may be read with
    ActiveInterval, PreTriggerInterval, FuelRichInterval, WatchInterval,
    Slots,                \* DEFAULT_EVALUATION_CONCURRENCY
    MaintenanceInterval,
    MaxStay,              \* bound: the longest an evaluation takes
    Late                  \* bound: how far back times are told apart

Statuses == {"TRIGGERED", "ARMED", "PRE-TRIGGER", "FUEL-RICH", "WATCH"}

\* evaluation_interval_seconds
Interval == [status \in Statuses |->
    CASE status \in {"TRIGGERED", "ARMED"} -> ActiveInterval
      [] status = "PRE-TRIGGER" -> PreTriggerInterval
      [] status = "FUEL-RICH" -> FuelRichInterval
      [] status = "WATCH" -> WatchInterval]

ASSUME ScheduleAssumption ==
    /\ IsFiniteSet(Symbols)
    /\ Seen \subseteq Statuses
    /\ Interval \in [Statuses -> Nat \ {0}]
    /\ Slots \in Nat \ {0}
    /\ MaintenanceInterval \in Nat \ {0}
    /\ MaxStay \in Nat
    /\ Late \in Nat /\ \A status \in Statuses : Interval[status] < Late

VARIABLES
    candidates,       \* symbol -> status, as read by the last maintenance
    next_due_at,      \* symbol -> time until it is due
    last_started_at,  \* symbol -> time since it was started
    in_flight,        \* symbol -> age of its evaluation
    finished,         \* evaluations in flight that have ended
    phase,            \* where hunter_loop stands
    maintenance_at,   \* time until the next maintenance
    wake_at,          \* time until the sleep times out
    stopped,          \* ~_hunter_running, with the stop event set
    synced            \* history: the schedule has seen the snapshot

schedule == <<next_due_at, last_started_at>>
flight   == <<in_flight, finished>>
vars == <<candidates, schedule, flight, phase, maintenance_at, wake_at, stopped, synced>>

Empty == [s \in {} |-> 0]
Smaller(a, b) == IF a < b THEN a ELSE b

Init ==
    /\ candidates = Empty
    /\ next_due_at = Empty /\ last_started_at = Empty
    /\ in_flight = Empty /\ finished = {}
    /\ phase = "top"
    /\ maintenance_at = 0
    /\ wake_at = 0
    /\ stopped = FALSE
    /\ synced = TRUE

----------------------------------------------------------------------------
(* HunterDeadlineSchedule                                                  *)

\* _STATE_PRIORITY
Priority(status) ==
    CASE status = "TRIGGERED" -> 0 [] status = "ARMED" -> 1
      [] status = "PRE-TRIGGER" -> 2 [] status = "FUEL-RICH" -> 3
      [] status = "WATCH" -> 4

\* sync: a new candidate is due now, a promoted one is due as its new status
\* asks, a demoted one keeps its time, the others are forgotten.
SyncedDue(s) ==
    IF s \notin DOMAIN next_due_at THEN 0
    ELSE IF s \notin DOMAIN last_started_at THEN next_due_at[s]
    ELSE Smaller(next_due_at[s], Interval[candidates[s]] - last_started_at[s])


StillStarted == DOMAIN candidates \cap DOMAIN last_started_at

Sync ==
    /\ next_due_at' = [s \in DOMAIN candidates |-> SyncedDue(s)]
    /\ last_started_at' = [s \in StillStarted |-> last_started_at[s]]

\* the tasks that have not ended; the loop drops the others when it looks
Running == [s \in DOMAIN in_flight \ finished |-> in_flight[s]]

\* due_candidates, with the due time each symbol has after sync.  Symbols
\* equal in priority and due time are told apart by their last observation
\* and their name: any order of them is possible.
DueNow == {s \in DOMAIN candidates \ DOMAIN Running : SyncedDue(s) <= 0}

Before(s, t) ==
    \/ Priority(candidates[s]) < Priority(candidates[t])
    \/ /\ Priority(candidates[s]) = Priority(candidates[t])
       /\ SyncedDue(s) < SyncedDue(t)

\* the first limit symbols of some such order
Leading(due, limit) ==
    {chosen \in SUBSET due :
        /\ Cardinality(chosen) = Smaller(limit, Cardinality(due))
        /\ \A s \in chosen, t \in due \ chosen : ~Before(t, s)}

Watching(set) == {s \in set : candidates[s] = "WATCH"}

\* a task whose symbol is no longer a candidate counts as WATCH
WatchInFlight ==
    \E s \in DOMAIN Running : s \in DOMAIN candidates => candidates[s] = "WATCH"

\* A mutant: no slot is kept for WATCH.
WatchReservation_None(due, chosen) == {chosen}


\* If no WATCH symbol is in flight or chosen, the first one that is due
\* takes the place of the last chosen one.
WatchReservation(due, chosen) ==
    IF WatchInFlight \/ Watching(due) = {} \/ Watching(chosen) # {}
    THEN {chosen}
    ELSE {(chosen \ {last}) \cup {watch} :
            last  \in {s \in chosen : \A t \in chosen : ~Before(s, t)},
            watch \in {s \in Watching(due) : \A t \in Watching(due) : ~Before(t, s)}}

DueCandidates(limit) ==
    UNION {WatchReservation(DueNow, chosen) : chosen \in Leading(DueNow, limit)}

\* sync, then mark_started and a new task for each selected symbol
Start(selected) ==
    /\ next_due_at' = [s \in DOMAIN candidates |->
                        IF s \in selected THEN Interval[candidates[s]] ELSE SyncedDue(s)]
    /\ last_started_at' = [s \in StillStarted \cup selected |->
                            IF s \in selected THEN 0 ELSE last_started_at[s]]

----------------------------------------------------------------------------
(* hunter_loop                                                             *)

Top ==
    /\ phase = "top"
    /\ phase' = IF stopped THEN "drain"
                ELSE IF maintenance_at <= 0 THEN "maintain" ELSE "dispatch"
    /\ UNCHANGED <<candidates, schedule, flight, maintenance_at, wake_at, stopped, synced>>

\* The expiry pass fails: the snapshot stays as it is.
MaintenanceFails ==
    /\ phase = "maintain"
    /\ maintenance_at' = MaintenanceInterval
    /\ phase' = "dispatch"
    /\ UNCHANGED <<candidates, schedule, flight, wake_at, stopped, synced>>

\* get_all_active_candidates: the catalogue may hold anything by now, and an
\* unreadable one reads as empty.
ReadCandidates ==
    /\ phase = "maintain"
    /\ \E active \in SUBSET Symbols : candidates' \in [active -> Seen]
    /\ synced' = FALSE
    /\ phase' = "reconcile"
    /\ UNCHANGED <<schedule, flight, maintenance_at, wake_at, stopped>>

\* _reconcile_inactive_actionable_decisions, then sync; if it fails the
\* schedule is not synced with the new snapshot.
Reconcile(fails) ==
    /\ phase = "reconcile"
    /\ IF fails THEN UNCHANGED <<schedule, synced>> ELSE Sync /\ synced' = TRUE
    /\ maintenance_at' = MaintenanceInterval
    /\ phase' = "dispatch"
    /\ UNCHANGED <<candidates, flight, wake_at, stopped>>

Dispatch ==
    /\ phase = "dispatch"
    /\ LET free == Slots - Cardinality(DOMAIN Running) IN
       IF free > 0 /\ candidates # Empty
       THEN \E selected \in DueCandidates(free) :
              /\ Start(selected) /\ synced' = TRUE
              /\ in_flight' = [s \in DOMAIN Running \cup selected |->
                                 IF s \in selected THEN 0 ELSE Running[s]]
       ELSE in_flight' = Running /\ UNCHANGED <<schedule, synced>>
    /\ finished' = {}
    /\ phase' = "pause"
    /\ UNCHANGED <<candidates, maintenance_at, wake_at, stopped>>

\* Other tasks run; a stop is noticed before the loop goes to sleep.
Pause ==
    /\ phase = "pause"
    /\ phase' = IF stopped THEN "drain" ELSE "arm"
    /\ UNCHANGED <<candidates, schedule, flight, maintenance_at, wake_at, stopped, synced>>

\* seconds_until_next_due
Waiting == (DOMAIN candidates \cap DOMAIN next_due_at) \ DOMAIN Running

\* A mutant: with a free slot the loop still sleeps until maintenance.
Delays_MaintenanceOnly == {maintenance_at}

\* What the sleep must not outlast.
Delays ==
    {maintenance_at} \cup
    {next_due_at[s] : s \in IF Cardinality(DOMAIN Running) < Slots THEN Waiting ELSE {}}

Arm ==
    /\ phase = "arm"
    /\ in_flight' = Running /\ finished' = {}
    /\ \E first \in Delays :
         /\ \A other \in Delays : first <= other
         /\ wake_at' = IF first < 0 THEN 0 ELSE first
    /\ phase' = "asleep"
    /\ UNCHANGED <<candidates, schedule, maintenance_at, stopped, synced>>

\* asyncio.wait ends: time is up, an evaluation has ended, or the stop event
Awake == wake_at = 0 \/ finished # {} \/ stopped

Wake ==
    /\ phase = "asleep" /\ Awake
    /\ phase' = "top"
    /\ wake_at' = 0
    /\ UNCHANGED <<candidates, schedule, flight, maintenance_at, stopped, synced>>

\* A mutant: the loop waits until no task is left in its dictionary.
Drained_Emptied == in_flight = Empty

Drained == finished = DOMAIN in_flight

\* The finally block: every evaluation ends, by itself or cancelled after the
\* grace time, before the loop returns.
Drain ==
    /\ phase = "drain" /\ Drained
    /\ phase' = "ended"
    /\ UNCHANGED <<candidates, schedule, flight, maintenance_at, wake_at, stopped, synced>>

----------------------------------------------------------------------------
(* The rest of the process.                                                *)

\* evaluate_candidate returns, raises or is cancelled.
Finish(s) ==
    /\ s \in DOMAIN Running
    /\ finished' = finished \cup {s}
    /\ UNCHANGED <<candidates, schedule, in_flight, phase, maintenance_at, wake_at,
                   stopped, synced>>

\* shutdown_event
Shutdown ==
    /\ ~stopped
    /\ stopped' = TRUE
    /\ UNCHANGED <<candidates, schedule, flight, phase, maintenance_at, wake_at, synced>>

Tick ==
    /\ phase = "asleep" /\ ~Awake
    /\ \A s \in DOMAIN in_flight : in_flight[s] < MaxStay
    /\ next_due_at' = [s \in DOMAIN next_due_at |->
                         IF next_due_at[s] = -Late THEN -Late ELSE next_due_at[s] - 1]
    /\ last_started_at' = [s \in DOMAIN last_started_at |->
                             Smaller(Late, last_started_at[s] + 1)]
    /\ in_flight' = [s \in DOMAIN in_flight |-> in_flight[s] + 1]
    /\ maintenance_at' = maintenance_at - 1
    /\ wake_at' = wake_at - 1
    /\ UNCHANGED <<candidates, finished, phase, stopped, synced>>

Loop ==
    \/ Top \/ MaintenanceFails \/ ReadCandidates
    \/ \E fails \in BOOLEAN : Reconcile(fails)
    \/ Dispatch \/ Pause \/ Arm \/ Wake \/ Drain

Next ==
    \/ Loop \/ Shutdown \/ Tick
    \/ \E s \in Symbols : Finish(s)

Spec == Init /\ [][Next]_vars

\* The loop goes on, the clock does, and every evaluation ends: its awaits
\* have timeouts.
Fairness ==
    /\ WF_vars(Loop) /\ WF_vars(Tick)
    /\ \A s \in Symbols : WF_vars(Finish(s))

FairSpec == Spec /\ Fairness

----------------------------------------------------------------------------
(* Correctness.                                                            *)

Phases == {"top", "maintain", "reconcile", "dispatch", "pause", "arm", "asleep",
           "drain", "ended"}

\* The type invariant: only started symbols have a start time, only tasks in
\* flight end, and the sleep never outlasts the maintenance interval.
TypeOK ==
    /\ DOMAIN candidates \subseteq Symbols
    /\ candidates \in [DOMAIN candidates -> Seen]
    /\ DOMAIN last_started_at \subseteq DOMAIN next_due_at
    /\ DOMAIN next_due_at \subseteq Symbols
    /\ next_due_at \in [DOMAIN next_due_at -> -Late..Late]
    /\ last_started_at \in [DOMAIN last_started_at -> 0..Late]
    /\ DOMAIN in_flight \subseteq Symbols
    /\ in_flight \in [DOMAIN in_flight -> 0..MaxStay]
    /\ finished \subseteq DOMAIN in_flight
    /\ phase \in Phases
    /\ maintenance_at \in 0..MaintenanceInterval
    /\ wake_at \in 0..MaintenanceInterval
    /\ stopped \in BOOLEAN
    /\ synced \in BOOLEAN

\* The reserved WATCH slot is taken from the chosen symbols, never added:
\* no more than Slots evaluations are in flight.
SlotsBounded == Cardinality(DOMAIN in_flight) <= Slots

\* While the loop sleeps with a slot free, every candidate was last started
\* no longer ago than its present status asks, also one promoted while it
\* was in flight or while all slots were taken.  (A maintenance pass that
\* fails after its read leaves the schedule unsynced with the new snapshot
\* until the next dispatch that finds a slot free.)
EvaluatedInTime ==
    (phase = "asleep" /\ ~Awake /\ synced /\ Cardinality(DOMAIN in_flight) < Slots)
    => \A s \in DOMAIN candidates \ DOMAIN in_flight :
          /\ s \in DOMAIN last_started_at
          /\ last_started_at[s] < Interval[candidates[s]]

\* Promotion only brings the next evaluation forward to a status's interval
\* after the last start: a symbol the schedule knows is not started sooner
\* after its last start than some status's interval, whatever statuses the
\* snapshots went through.
StartToStart ==
    [][\A s \in DOMAIN Running' \ DOMAIN Running :
          s \in DOMAIN last_started_at
          => \E status \in Statuses : last_started_at[s] >= Interval[status]]_vars

\* The inductive invariant.  A symbol never started is due; while the schedule
\* is synced it covers the snapshot and no due time is later than the present
\* status asks; a due time is some status's interval after the last start.
SyncedInv ==
    /\ \A s \in DOMAIN next_due_at \ DOMAIN last_started_at : next_due_at[s] <= 0
    /\ synced =>
         /\ DOMAIN next_due_at = DOMAIN candidates
         /\ \A s \in DOMAIN last_started_at :
               next_due_at[s] <= Interval[candidates[s]] - last_started_at[s]

StartInv ==
    \A s \in DOMAIN last_started_at :
        \/ last_started_at[s] = Late
        \/ \E status \in Statuses :
              next_due_at[s] + last_started_at[s] = Interval[status]

\* The sleep outlasts neither the maintenance time nor a due time that a free
\* slot could serve.
WakeInv ==
    phase = "asleep" =>
        /\ wake_at <= maintenance_at
        /\ Cardinality(DOMAIN in_flight) < Slots =>
             \A s \in (DOMAIN candidates \cap DOMAIN next_due_at) \ DOMAIN in_flight :
                 wake_at = 0 \/ wake_at <= next_due_at[s]

IInv == TypeOK /\ SlotsBounded /\ SyncedInv /\ StartInv /\ WakeInv

\* A due WATCH symbol is started in the end, however many symbols of the
\* more urgent statuses are due all the time.
WatchServed ==
    \A s \in Symbols :
        (/\ s \in DOMAIN candidates /\ candidates[s] = "WATCH"
         /\ s \in DOMAIN next_due_at /\ next_due_at[s] <= 0)
        ~> \/ s \in DOMAIN in_flight
           \/ s \notin DOMAIN candidates \/ candidates[s] # "WATCH"
           \/ stopped

\* A stop ends the loop from wherever it stands.
StopEnds == stopped ~> phase = "ended"
=============================================================================
