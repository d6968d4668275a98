------------------------ MODULE HunterScheduleProofs ------------------------
(***************************************************************************)
(* Theorems about HunterSchedule, for any symbols, slots and intervals.    *)
(***************************************************************************)
EXTENDS HunterSchedule, FiniteSetTheorems, TLAPS

\* What the proofs use of the assumption on the constants.
LEMMA Constants ==
    /\ IsFiniteSet(Symbols)
    /\ Seen \subseteq Statuses
    /\ \A status \in Statuses :
          Interval[status] \in Nat /\ 0 < Interval[status] /\ Interval[status] < Late
    /\ Slots \in Nat /\ 0 < Slots
    /\ MaintenanceInterval \in Nat /\ 0 < MaintenanceInterval
    /\ MaxStay \in Nat
    /\ Late \in Nat
BY ScheduleAssumption DEF ScheduleAssumption

\* Two finite sets with nothing in common together count both.
LEMMA DisjointUnion ==
    ASSUME NEW S, NEW T, IsFiniteSet(S), IsFiniteSet(T), S \cap T = {}
    PROVE  Cardinality(S \cup T) = Cardinality(S) + Cardinality(T)
<1>1. Cardinality(S) \in Nat /\ Cardinality(T) \in Nat
  BY FS_CardinalityType
<1>2. Cardinality(S \cap T) = 0
  BY FS_EmptySet
<1>3. Cardinality(S \cup T) = Cardinality(S) + Cardinality(T) - Cardinality(S \cap T)
  BY FS_Union
<1> QED
  BY <1>1, <1>2, <1>3

\* The tasks still running are among the tasks in flight.
LEMMA RunningFacts ==
    ASSUME TypeOK
    PROVE  /\ DOMAIN Running = DOMAIN in_flight \ finished
           /\ \A s \in DOMAIN Running : Running[s] = in_flight[s]
           /\ Running \in [DOMAIN Running -> 0..MaxStay]
           /\ IsFiniteSet(DOMAIN in_flight) /\ IsFiniteSet(DOMAIN Running)
           /\ Cardinality(DOMAIN in_flight) \in Nat
           /\ Cardinality(DOMAIN Running) \in Nat
           /\ Cardinality(DOMAIN Running) <= Cardinality(DOMAIN in_flight)
<1>1. DOMAIN Running = DOMAIN in_flight \ finished
  BY DEF Running
<1>2. IsFiniteSet(DOMAIN in_flight) /\ IsFiniteSet(DOMAIN Running)
  BY <1>1, Constants, FS_Subset DEF TypeOK
<1>3. Cardinality(DOMAIN Running) <= Cardinality(DOMAIN in_flight)
  BY <1>1, <1>2, FS_Subset
<1> QED
  BY <1>1, <1>2, <1>3, FS_CardinalityType DEF TypeOK, Running

\* due_candidates returns symbols that are due and not running, at most limit
\* of them: the reserved WATCH symbol replaces another one.
LEMMA SelectionFacts ==
    ASSUME TypeOK, NEW limit \in Nat, NEW selected \in DueCandidates(limit)
    PROVE  /\ selected \subseteq DueNow
           /\ IsFiniteSet(selected)
           /\ Cardinality(selected) \in Nat
           /\ Cardinality(selected) <= limit
<1>1. IsFiniteSet(DueNow)
  BY Constants, FS_Subset DEF DueNow, TypeOK
<1>2. PICK chosen \in Leading(DueNow, limit) :
        selected \in WatchReservation(DueNow, chosen)
  BY DEF DueCandidates
<1>3. /\ chosen \subseteq DueNow /\ IsFiniteSet(chosen)
      /\ Cardinality(chosen) \in Nat /\ Cardinality(chosen) <= limit
  <2>1. /\ chosen \subseteq DueNow
        /\ Cardinality(chosen) = Smaller(limit, Cardinality(DueNow))
    BY DEF Leading
  <2>2. IsFiniteSet(chosen)
    BY <1>1, <2>1, FS_Subset
  <2> QED
    BY <1>1, <2>1, <2>2, FS_CardinalityType DEF Smaller
<1>4. CASE selected = chosen
  BY <1>3, <1>4
<1>5. CASE selected # chosen
  <2>1. PICK last \in chosen, watch \in Watching(DueNow) :
          selected = (chosen \ {last}) \cup {watch}
    BY <1>2, <1>5 DEF WatchReservation
  <2>2. watch \in DueNow
    BY DEF Watching
  <2>3. /\ IsFiniteSet(chosen \ {last})
        /\ Cardinality(chosen \ {last}) = Cardinality(chosen) - 1
    BY <1>3, FS_RemoveElement
  <2>4. /\ IsFiniteSet(selected)
        /\ \/ Cardinality(selected) = Cardinality(chosen \ {last})
           \/ Cardinality(selected) = Cardinality(chosen \ {last}) + 1
    BY <2>1, <2>3, FS_AddElement
  <2>5. Cardinality(selected) \in Nat
    BY <2>4, FS_CardinalityType
  <2> QED
    BY <1>3, <2>1, <2>2, <2>3, <2>4, <2>5
<1> QED
  BY <1>4, <1>5

\* sync keeps the due times of a started symbol an interval after its start,
\* no later than the present status asks.
LEMMA SyncedDueFacts ==
    ASSUME TypeOK, SyncedInv, StartInv, NEW s \in DOMAIN candidates
    PROVE  /\ SyncedDue(s) \in -Late..Late
           /\ s \notin DOMAIN last_started_at => SyncedDue(s) <= 0
           /\ s \in DOMAIN last_started_at =>
                /\ SyncedDue(s) <= Interval[candidates[s]] - last_started_at[s]
                /\ \/ last_started_at[s] = Late
                   \/ \E status \in Statuses :
                         SyncedDue(s) + last_started_at[s] = Interval[status]
<1> DEFINE interval == Interval[candidates[s]]
<1>1. candidates[s] \in Statuses /\ interval \in Nat /\ 0 < interval /\ interval < Late
  BY Constants DEF TypeOK
<1>2. Late \in Nat
  BY Constants
<1>3. CASE s \notin DOMAIN next_due_at
  BY <1>1, <1>2, <1>3 DEF SyncedDue, TypeOK
<1>4. CASE s \in DOMAIN next_due_at /\ s \notin DOMAIN last_started_at
  <2>1. SyncedDue(s) = next_due_at[s] /\ next_due_at[s] \in -Late..Late
    BY <1>4 DEF SyncedDue, TypeOK
  <2> QED
    BY <1>4, <2>1 DEF SyncedInv
<1>5. CASE s \in DOMAIN next_due_at /\ s \in DOMAIN last_started_at
  <2>1. next_due_at[s] \in -Late..Late /\ last_started_at[s] \in 0..Late
    BY <1>5 DEF TypeOK
  <2>2. SyncedDue(s) = Smaller(next_due_at[s], interval - last_started_at[s])
    BY <1>5 DEF SyncedDue
  <2>3. CASE next_due_at[s] < interval - last_started_at[s]
    <3>1. SyncedDue(s) = next_due_at[s]
      BY <2>2, <2>3 DEF Smaller
    <3> QED
      BY <1>1, <1>2, <1>5, <2>1, <2>3, <3>1 DEF StartInv
  <2>4. CASE ~(next_due_at[s] < interval - last_started_at[s])
    <3>1. SyncedDue(s) = interval - last_started_at[s]
      BY <2>2, <2>4 DEF Smaller
    <3>2. SyncedDue(s) + last_started_at[s] = interval
      BY <1>1, <2>1, <3>1
    <3>3. SyncedDue(s) \in -Late..Late
      BY <1>1, <1>2, <2>1, <3>1
    <3> QED
      BY <1>1, <1>2, <1>5, <2>1, <3>1, <3>2, <3>3
  <2> QED
    BY <2>3, <2>4
<1> QED
  BY <1>3, <1>4, <1>5 DEF TypeOK

----------------------------------------------------------------------------
(* The inductive invariant, one lemma per action.                          *)

\* Before the first pass nothing is known and the first maintenance is due.
LEMMA InitInv == Init => IInv
<1> SUFFICES ASSUME Init PROVE IInv
  OBVIOUS
<1>1. /\ DOMAIN candidates = {} /\ DOMAIN next_due_at = {}
      /\ DOMAIN last_started_at = {} /\ DOMAIN in_flight = {}
  BY DEF Init, Empty
<1>2. TypeOK
  <2>1. \A range : Empty \in [{} -> range]
    BY DEF Empty
  <2>2. /\ candidates \in [DOMAIN candidates -> Seen]
        /\ next_due_at \in [DOMAIN next_due_at -> -Late..Late]
        /\ last_started_at \in [DOMAIN last_started_at -> 0..Late]
        /\ in_flight \in [DOMAIN in_flight -> 0..MaxStay]
    BY <1>1, <2>1 DEF Init
  <2>3. 0 \in 0..MaintenanceInterval
    BY Constants
  <2> QED
    BY <1>1, <2>2, <2>3 DEF Init, TypeOK, Phases
<1>3. SlotsBounded
  BY <1>1, Constants, FS_EmptySet DEF SlotsBounded
<1> QED
  BY <1>1, <1>2, <1>3 DEF Init, IInv, SyncedInv, StartInv, WakeInv

\* Steps that leave the schedule, the snapshot and the tasks in flight alone,
\* and leave the loop awake, only owe the types of the rest.
LEMMA AwakeSteps ==
    ASSUME IInv, Top \/ MaintenanceFails \/ Pause \/ Wake \/ Drain
    PROVE  IInv'
<1> USE DEF schedule, flight
<1>1. /\ UNCHANGED <<candidates, schedule, flight, stopped, synced>>
      /\ phase' \in Phases \ {"asleep"}
      /\ maintenance_at' \in 0..MaintenanceInterval
      /\ wake_at' \in 0..MaintenanceInterval
  BY Constants DEF IInv, TypeOK, Top, MaintenanceFails, Pause, Wake, Drain, Phases
<1>2. TypeOK'
  BY <1>1 DEF IInv, TypeOK
<1> QED
  BY <1>1, <1>2 DEF IInv, SlotsBounded, SyncedInv, StartInv, WakeInv

\* Evaluations end and stops come at any time; neither touches what the
\* invariant relates.
LEMMA OutsideSteps ==
    ASSUME IInv, Shutdown \/ (\E s \in Symbols : Finish(s)) \/ UNCHANGED vars
    PROVE  IInv'
<1> USE DEF schedule, flight, vars
<1>1. /\ UNCHANGED <<candidates, schedule, in_flight, phase, maintenance_at, wake_at, synced>>
      /\ finished' \subseteq DOMAIN in_flight
      /\ stopped' \in BOOLEAN
  BY RunningFacts DEF IInv, TypeOK, Shutdown, Finish
<1>2. TypeOK'
  BY <1>1 DEF IInv, TypeOK
<1> QED
  BY <1>1, <1>2 DEF IInv, SlotsBounded, SyncedInv, StartInv, WakeInv

\* A new snapshot: the schedule is out of step with it until the next sync.
LEMMA ReadStep ==
    ASSUME IInv, ReadCandidates
    PROVE  IInv'
<1> USE DEF schedule, flight
<1>1. /\ UNCHANGED <<schedule, flight, maintenance_at, wake_at, stopped>>
      /\ synced' = FALSE /\ phase' = "reconcile"
      /\ DOMAIN candidates' \subseteq Symbols
      /\ candidates' \in [DOMAIN candidates' -> Seen]
  BY DEF ReadCandidates
<1>2. TypeOK'
  BY <1>1 DEF IInv, TypeOK, Phases
<1> QED
  BY <1>1, <1>2 DEF IInv, SlotsBounded, SyncedInv, StartInv, WakeInv

\* sync brings the schedule in step with the snapshot.
LEMMA ReconcileStep ==
    ASSUME IInv, NEW fails \in BOOLEAN, Reconcile(fails)
    PROVE  IInv'
<1> USE DEF schedule, flight
<1>1. /\ UNCHANGED <<candidates, flight, wake_at, stopped>>
      /\ maintenance_at' = MaintenanceInterval
      /\ phase' = "dispatch"
  BY DEF Reconcile
<1>2. maintenance_at' \in 0..MaintenanceInterval
  BY <1>1, Constants
<1>3. CASE fails
  <2>1. UNCHANGED <<schedule, synced>>
    BY <1>3 DEF Reconcile
  <2>2. TypeOK'
    BY <1>1, <1>2, <2>1 DEF IInv, TypeOK, Phases
  <2> QED
    BY <1>1, <2>1, <2>2 DEF IInv, SlotsBounded, SyncedInv, StartInv, WakeInv
<1>4. CASE ~fails
  <2>1. /\ next_due_at' = [s \in DOMAIN candidates |-> SyncedDue(s)]
        /\ last_started_at' = [s \in StillStarted |-> last_started_at[s]]
        /\ synced' = TRUE
    BY <1>4 DEF Reconcile, Sync
  <2>2. /\ DOMAIN next_due_at' = DOMAIN candidates
        /\ DOMAIN last_started_at' = DOMAIN candidates \cap DOMAIN last_started_at
        /\ \A s \in DOMAIN candidates : next_due_at'[s] = SyncedDue(s)
        /\ \A s \in DOMAIN last_started_at' : last_started_at'[s] = last_started_at[s]
    BY <2>1 DEF StillStarted
  <2>3. TypeOK'
    BY <1>1, <1>2, <2>1, <2>2, SyncedDueFacts DEF IInv, TypeOK, Phases
  <2>4. SyncedInv'
    BY <1>1, <2>1, <2>2, SyncedDueFacts DEF IInv, SyncedInv
  <2>5. StartInv'
    BY <2>2, SyncedDueFacts DEF IInv, StartInv
  <2> QED
    BY <1>1, <2>3, <2>4, <2>5 DEF IInv, SlotsBounded, WakeInv
<1> QED
  BY <1>3, <1>4

\* The new tasks take free slots, and each started symbol is due a whole
\* interval of its status after its start.
LEMMA DispatchStep ==
    ASSUME IInv, Dispatch
    PROVE  IInv'
<1> USE DEF schedule, flight
<1> DEFINE free == Slots - Cardinality(DOMAIN Running)
<1>1. /\ UNCHANGED <<candidates, maintenance_at, wake_at, stopped>>
      /\ finished' = {} /\ phase' = "pause"
  BY DEF Dispatch
<1>2. CASE ~(free > 0 /\ candidates # Empty)
  <2>1. in_flight' = Running /\ UNCHANGED <<next_due_at, last_started_at, synced>>
    BY <1>2 DEF Dispatch
  <2>2. TypeOK'
    BY <1>1, <2>1, RunningFacts DEF IInv, TypeOK, Phases
  <2>3. SlotsBounded'
    BY <2>1, RunningFacts, Constants DEF IInv, SlotsBounded
  <2> QED
    BY <1>1, <2>1, <2>2, <2>3 DEF IInv, SyncedInv, StartInv, WakeInv
<1>3. CASE free > 0 /\ candidates # Empty
  <2>1. PICK selected \in DueCandidates(free) :
          /\ Start(selected) /\ synced' = TRUE
          /\ in_flight' = [s \in DOMAIN Running \cup selected |->
                              IF s \in selected THEN 0 ELSE Running[s]]
    BY <1>3 DEF Dispatch
  <2>2. TypeOK /\ SlotsBounded /\ SyncedInv /\ StartInv
    BY DEF IInv
  <2>3. free \in Nat
    BY <1>3, <2>2, RunningFacts, Constants
  <2> HIDE DEF free
  <2>4. /\ selected \subseteq DueNow /\ IsFiniteSet(selected)
        /\ Cardinality(selected) \in Nat /\ Cardinality(selected) <= free
    BY <2>1, <2>2, <2>3, SelectionFacts
  <2>5. selected \subseteq DOMAIN candidates /\ selected \cap DOMAIN Running = {}
    BY <2>4 DEF DueNow
  <2>6. \A s \in DOMAIN candidates :
           /\ candidates[s] \in Statuses
           /\ Interval[candidates[s]] \in Nat
           /\ Interval[candidates[s]] \in -Late..Late
    BY <2>2, Constants DEF TypeOK
  <2>7. /\ DOMAIN next_due_at' = DOMAIN candidates
        /\ \A s \in DOMAIN candidates \ selected : next_due_at'[s] = SyncedDue(s)
        /\ \A s \in selected : next_due_at'[s] = Interval[candidates[s]]
    BY <2>1, <2>5 DEF Start
  <2>8. /\ DOMAIN last_started_at' =
             (DOMAIN candidates \cap DOMAIN last_started_at) \cup selected
        /\ \A s \in DOMAIN last_started_at' \ selected :
              last_started_at'[s] = last_started_at[s]
        /\ \A s \in selected : last_started_at'[s] = 0
    BY <2>1 DEF Start, StillStarted
  <2>9. TypeOK'
    <3>1. next_due_at' \in [DOMAIN next_due_at' -> -Late..Late]
      <4>1. \A s \in DOMAIN candidates : next_due_at'[s] \in -Late..Late
        BY <2>2, <2>6, <2>7, SyncedDueFacts
      <4> QED
        BY <2>1, <2>7, <4>1 DEF Start
    <3>2. last_started_at' \in [DOMAIN last_started_at' -> 0..Late]
      <4>1. \A s \in DOMAIN last_started_at' : last_started_at'[s] \in 0..Late
        BY <2>2, <2>8, Constants DEF TypeOK
      <4> QED
        BY <2>1, <4>1 DEF Start
    <3>3. /\ DOMAIN last_started_at' \subseteq DOMAIN next_due_at'
          /\ DOMAIN next_due_at' \subseteq Symbols
      BY <2>2, <2>5, <2>7, <2>8 DEF TypeOK
    <3>4. /\ DOMAIN in_flight' \subseteq Symbols
          /\ in_flight' \in [DOMAIN in_flight' -> 0..MaxStay]
      <4>1. DOMAIN in_flight' = DOMAIN Running \cup selected
        BY <2>1
      <4>2. \A s \in DOMAIN in_flight' : in_flight'[s] \in 0..MaxStay
        BY <2>1, <2>2, RunningFacts, Constants
      <4> QED
        BY <2>1, <2>2, <2>5, <4>1, <4>2, RunningFacts DEF TypeOK
    <3> QED
      BY <1>1, <2>1, <2>2, <3>1, <3>2, <3>3, <3>4 DEF TypeOK, Phases
  <2>10. SlotsBounded'
    <3>1. DOMAIN in_flight' = DOMAIN Running \cup selected
      BY <2>1
    <3>2. Cardinality(DOMAIN Running \cup selected)
            = Cardinality(DOMAIN Running) + Cardinality(selected)
      BY <2>2, <2>4, <2>5, RunningFacts, DisjointUnion
    <3>3. Cardinality(selected) <= Slots - Cardinality(DOMAIN Running)
      BY <2>4 DEF free
    <3> QED
      BY <2>2, <2>4, <3>1, <3>2, <3>3, RunningFacts, Constants DEF SlotsBounded
  <2>11. SyncedInv'
    <3>1. \A s \in DOMAIN next_due_at' \ DOMAIN last_started_at' : next_due_at'[s] <= 0
      BY <2>2, <2>7, <2>8, SyncedDueFacts
    <3>2. \A s \in DOMAIN last_started_at' :
             next_due_at'[s] <= Interval[candidates[s]] - last_started_at'[s]
      <4> TAKE s \in DOMAIN last_started_at'
      <4>1. CASE s \in selected
        BY <2>5, <2>6, <2>7, <2>8, <4>1
      <4>2. CASE s \notin selected
        BY <2>2, <2>7, <2>8, <4>2, SyncedDueFacts
      <4> QED
        BY <4>1, <4>2
    <3> QED
      BY <1>1, <2>7, <3>1, <3>2 DEF SyncedInv
  <2>12. StartInv'
    <3> SUFFICES ASSUME NEW s \in DOMAIN last_started_at'
                 PROVE  \/ last_started_at'[s] = Late
                        \/ \E status \in Statuses :
                              next_due_at'[s] + last_started_at'[s] = Interval[status]
      BY DEF StartInv
    <3>1. CASE s \in selected
      BY <2>5, <2>6, <2>7, <2>8, <3>1
    <3>2. CASE s \notin selected
      BY <2>2, <2>7, <2>8, <3>2, SyncedDueFacts
    <3> QED
      BY <3>1, <3>2
  <2> QED
    BY <1>1, <2>9, <2>10, <2>11, <2>12 DEF IInv, WakeInv
<1> QED
  BY <1>2, <1>3

\* The loop falls asleep for no longer than the nearest time it is needed.
LEMMA ArmStep ==
    ASSUME IInv, Arm
    PROVE  IInv'
<1> USE DEF schedule, flight
<1>1. /\ UNCHANGED <<candidates, schedule, maintenance_at, stopped, synced>>
      /\ in_flight' = Running /\ finished' = {} /\ phase' = "asleep"
  BY DEF Arm
<1>2. PICK first \in Delays :
        /\ \A other \in Delays : first <= other
        /\ wake_at' = IF first < 0 THEN 0 ELSE first
  BY DEF Arm
<1>3. maintenance_at \in Delays /\ first <= maintenance_at
  BY <1>2 DEF Delays
<1>4. /\ maintenance_at \in Nat /\ first \in Int
      /\ maintenance_at \in 0..MaintenanceInterval
  BY <1>2, Constants DEF IInv, TypeOK, Delays, Waiting
<1>5. /\ wake_at' \in 0..MaintenanceInterval
      /\ wake_at' <= maintenance_at
      /\ wake_at' = 0 \/ wake_at' = first
  BY <1>2, <1>3, <1>4, Constants
<1>6. TypeOK'
  BY <1>1, <1>5, RunningFacts DEF IInv, TypeOK, Phases
<1>7. SlotsBounded'
  BY <1>1, RunningFacts, Constants DEF IInv, SlotsBounded
<1>8. WakeInv'
  <2> SUFFICES ASSUME Cardinality(DOMAIN Running) < Slots,
                      NEW s \in (DOMAIN candidates \cap DOMAIN next_due_at) \ DOMAIN Running
               PROVE  wake_at' = 0 \/ wake_at' <= next_due_at[s]
    BY <1>1, <1>5 DEF WakeInv
  <2>1. next_due_at[s] \in Delays
    BY DEF Delays, Waiting
  <2> QED
    BY <1>2, <1>5, <2>1
<1> QED
  BY <1>1, <1>6, <1>7, <1>8 DEF IInv, SyncedInv, StartInv

\* A tick shifts every time alike; a time that is no longer told apart (at
\* -Late or Late) moves no further, and none of those is being slept for.
LEMMA TickStep ==
    ASSUME IInv, Tick
    PROVE  IInv'
<1>1. /\ UNCHANGED <<candidates, finished, phase, stopped, synced>>
      /\ phase = "asleep" /\ wake_at # 0
      /\ maintenance_at' = maintenance_at - 1 /\ wake_at' = wake_at - 1
      /\ \A s \in DOMAIN in_flight : in_flight[s] < MaxStay
      /\ in_flight' = [s \in DOMAIN in_flight |-> in_flight[s] + 1]
  BY DEF Tick, Awake
<1>2. /\ DOMAIN next_due_at' = DOMAIN next_due_at
      /\ \A s \in DOMAIN next_due_at :
            next_due_at'[s] = IF next_due_at[s] = -Late THEN -Late ELSE next_due_at[s] - 1
      /\ next_due_at' \in [DOMAIN next_due_at' -> -Late..Late]
  BY Constants DEF Tick, IInv, TypeOK
<1>3. /\ DOMAIN last_started_at' = DOMAIN last_started_at
      /\ \A s \in DOMAIN last_started_at :
            last_started_at'[s] = IF last_started_at[s] = Late THEN Late
                                  ELSE last_started_at[s] + 1
      /\ last_started_at' \in [DOMAIN last_started_at' -> 0..Late]
  <2>1. \A s \in DOMAIN last_started_at :
          /\ last_started_at[s] \in 0..Late
          /\ Smaller(Late, last_started_at[s] + 1) \in 0..Late
          /\ Smaller(Late, last_started_at[s] + 1)
               = IF last_started_at[s] = Late THEN Late ELSE last_started_at[s] + 1
    BY Constants DEF IInv, TypeOK, Smaller
  <2> QED
    BY <2>1 DEF Tick
<1>4. /\ wake_at \in Nat /\ maintenance_at \in Nat /\ wake_at <= maintenance_at
      /\ wake_at' \in 0..MaintenanceInterval /\ maintenance_at' \in 0..MaintenanceInterval
  BY <1>1, Constants DEF IInv, TypeOK, WakeInv
<1>5. DOMAIN in_flight' = DOMAIN in_flight /\ in_flight' \in [DOMAIN in_flight' -> 0..MaxStay]
  BY <1>1, Constants DEF IInv, TypeOK
<1>6. TypeOK'
  BY <1>1, <1>2, <1>3, <1>4, <1>5 DEF IInv, TypeOK
<1>7. \A s \in DOMAIN next_due_at : next_due_at[s] \in -Late..Late
  BY DEF IInv, TypeOK
<1>8. \A s \in DOMAIN last_started_at :
         s \in DOMAIN next_due_at /\ last_started_at[s] \in 0..Late
  BY DEF IInv, TypeOK
<1>9. SyncedInv'
  <2>1. \A s \in DOMAIN next_due_at \ DOMAIN last_started_at : next_due_at'[s] <= 0
    BY <1>2, <1>7, Constants DEF IInv, SyncedInv
  <2>2. ASSUME synced, NEW s \in DOMAIN last_started_at
        PROVE  next_due_at'[s] <= Interval[candidates[s]] - last_started_at'[s]
    <3>1. next_due_at[s] <= Interval[candidates[s]] - last_started_at[s]
      BY <2>2 DEF IInv, SyncedInv
    <3>2. Interval[candidates[s]] \in Nat
      <4>1. s \in DOMAIN candidates
        BY <1>8, <2>2 DEF IInv, SyncedInv
      <4> QED
        BY <4>1, Constants DEF IInv, TypeOK
    <3> QED
      BY <1>2, <1>3, <1>7, <1>8, <3>1, <3>2, Constants
  <2> QED
    BY <1>1, <1>2, <1>3, <2>1, <2>2 DEF IInv, SyncedInv
<1>10. StartInv'
  <2> SUFFICES ASSUME NEW s \in DOMAIN last_started_at, last_started_at'[s] # Late
               PROVE  \E status \in Statuses :
                         next_due_at'[s] + last_started_at'[s] = Interval[status]
    BY <1>3 DEF StartInv
  <2>1. last_started_at[s] # Late /\ last_started_at'[s] = last_started_at[s] + 1
    BY <1>3
  <2>2. PICK status \in Statuses : next_due_at[s] + last_started_at[s] = Interval[status]
    BY <2>1 DEF IInv, StartInv
  <2>3. next_due_at[s] # -Late
    BY <1>8, <2>1, <2>2, Constants
  <2>4. next_due_at'[s] + last_started_at'[s] = Interval[status]
    BY <1>2, <1>7, <1>8, <2>1, <2>2, <2>3, Constants
  <2> QED
    BY <2>4
<1>11. WakeInv'
  <2> SUFFICES ASSUME Cardinality(DOMAIN in_flight) < Slots,
                      NEW s \in (DOMAIN candidates \cap DOMAIN next_due_at) \ DOMAIN in_flight
               PROVE  wake_at' <= next_due_at'[s]
    BY <1>1, <1>2, <1>4, <1>5 DEF WakeInv
  <2>1. wake_at <= next_due_at[s]
    BY <1>1 DEF IInv, WakeInv
  <2>2. next_due_at[s] # -Late
    BY <1>1, <1>4, <2>1, Constants
  <2> QED
    BY <1>1, <1>2, <1>4, <1>7, <2>1, <2>2, Constants
<1> QED
  BY <1>5, <1>6, <1>9, <1>10, <1>11 DEF IInv, SlotsBounded

\* The inductive invariant of the hunter's loop.
THEOREM Invariance == Spec => []IInv
<1>1. IInv /\ [Next]_vars => IInv'
  BY AwakeSteps, OutsideSteps, ReadStep, ReconcileStep, DispatchStep, ArmStep, TickStep
     DEF Next, Loop
<1> QED
  BY InitInv, <1>1, PTL DEF Spec

\* Every reachable state has its types: only started symbols have a start
\* time, only tasks in flight end.
THEOREM TypeCorrect == Spec => []TypeOK
<1>1. IInv => TypeOK
  BY DEF IInv
<1> QED
  BY Invariance, <1>1, PTL

\* However evaluations end and candidates come and go, no more of them are in
\* flight than there are slots, with the WATCH reservation too.
THEOREM NeverMoreThanSlots == Spec => []SlotsBounded
<1>1. IInv => SlotsBounded
  BY DEF IInv
<1> QED
  BY Invariance, <1>1, PTL

\* Whatever the snapshots say, the loop never sleeps with a free slot past
\* the time at which a candidate's present status asks for an evaluation.
THEOREM NeverAsleepPastDue == Spec => []EvaluatedInTime
<1>1. IInv => EvaluatedInTime
  <2> SUFFICES ASSUME IInv, phase = "asleep", ~Awake, synced,
                      Cardinality(DOMAIN in_flight) < Slots,
                      NEW s \in DOMAIN candidates \ DOMAIN in_flight
               PROVE  /\ s \in DOMAIN last_started_at
                      /\ last_started_at[s] < Interval[candidates[s]]
    BY DEF EvaluatedInTime
  <2>1. DOMAIN next_due_at = DOMAIN candidates
    BY DEF IInv, SyncedInv
  <2>2. wake_at # 0 /\ wake_at <= next_due_at[s]
    BY <2>1 DEF IInv, WakeInv, Awake
  <2>3. wake_at \in Nat /\ next_due_at[s] \in Int /\ 0 < next_due_at[s]
    BY <2>1, <2>2, Constants DEF IInv, TypeOK
  <2>4. s \in DOMAIN last_started_at
    BY <2>1, <2>3 DEF IInv, SyncedInv
  <2>5. next_due_at[s] <= Interval[candidates[s]] - last_started_at[s]
    BY <2>4 DEF IInv, SyncedInv
  <2>6. Interval[candidates[s]] \in Nat /\ last_started_at[s] \in Int
    BY <2>4, Constants DEF IInv, TypeOK
  <2> QED
    BY <2>3, <2>4, <2>5, <2>6
<1> QED
  BY Invariance, <1>1, PTL

\* Whatever statuses the snapshots go through, a symbol is never started again
\* before some status's interval has passed since its last start.
THEOREM NeverStartedTooSoon == Spec => StartToStart
<1> DEFINE Paced ==
      \A s \in DOMAIN Running' \ DOMAIN Running :
          s \in DOMAIN last_started_at
          => \E status \in Statuses : last_started_at[s] >= Interval[status]
<1>1. ASSUME IInv, Dispatch
      PROVE  Paced
  <2> SUFFICES ASSUME NEW s \in DOMAIN Running' \ DOMAIN Running,
                      s \in DOMAIN last_started_at
               PROVE  \E status \in Statuses : last_started_at[s] >= Interval[status]
    OBVIOUS
  <2>1. DOMAIN Running' = DOMAIN in_flight'
    BY <1>1 DEF Dispatch, Running
  <2>2. s \in DOMAIN in_flight' /\ in_flight' # Running
    BY <2>1
  <2>3. Slots - Cardinality(DOMAIN Running) > 0
    BY <1>1, <2>2 DEF Dispatch
  <2>4. Slots - Cardinality(DOMAIN Running) \in Nat
    BY <1>1, <2>3, RunningFacts, Constants DEF IInv
  <2>5. PICK selected \in DueCandidates(Slots - Cardinality(DOMAIN Running)) :
          in_flight' = [t \in DOMAIN Running \cup selected |->
                          IF t \in selected THEN 0 ELSE Running[t]]
    BY <1>1, <2>2 DEF Dispatch
  <2>6. s \in selected /\ selected \subseteq DueNow
    BY <1>1, <2>2, <2>4, <2>5, SelectionFacts DEF IInv
  <2>7. s \in DOMAIN candidates /\ SyncedDue(s) <= 0
    BY <2>6 DEF DueNow
  <2>8. /\ SyncedDue(s) \in Int /\ last_started_at[s] \in Int
        /\ \/ last_started_at[s] = Late
           \/ \E status \in Statuses : SyncedDue(s) + last_started_at[s] = Interval[status]
    BY <1>1, <2>7, SyncedDueFacts, Constants DEF IInv, TypeOK
  <2>9. "WATCH" \in Statuses
    BY DEF Statuses
  <2> QED
    BY <2>7, <2>8, <2>9, Constants
<1>2. ASSUME IInv, [Next]_vars, ~Dispatch
      PROVE  DOMAIN Running' \subseteq DOMAIN Running
  <2>1. \/ DOMAIN in_flight' \subseteq DOMAIN in_flight \ finished
        \/ DOMAIN in_flight' = DOMAIN in_flight /\ finished \subseteq finished'
    <3>1. CASE Arm
      BY <3>1 DEF Arm, Running
    <3>2. CASE Tick
      BY <3>2 DEF Tick
    <3>3. CASE UNCHANGED vars
      BY <3>3 DEF vars, flight
    <3>4. CASE Next /\ ~Arm /\ ~Tick
      BY <1>2, <3>4
         DEF Next, Loop, Top, MaintenanceFails, ReadCandidates, Reconcile, Pause, Wake,
             Drain, Shutdown, Finish, flight
    <3> QED
      BY <1>2, <3>1, <3>2, <3>3, <3>4
  <2> QED
    BY <2>1 DEF Running
<1>3. IInv /\ [Next]_vars => [Paced]_vars
  BY <1>1, <1>2
<1> QED
  BY Invariance, <1>3, PTL DEF Spec, StartToStart
=============================================================================
