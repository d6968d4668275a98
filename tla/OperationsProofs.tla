-------------------------- MODULE OperationsProofs --------------------------
(***************************************************************************)
(* Theorems about Operations, for every value of the constants that its    *)
(* assumption admits: however many sessions, steps, releases, migration    *)
(* commands and callers of the watchdog there are.  A step of the whole is *)
(* a step of one of its machines, or leaves that machine as it is.         *)
(***************************************************************************)
EXTENDS Operations, Sequences, FiniteSetTheorems, TLAPS

\* Every step is a step of each machine or leaves it as it is.
LEMMA OneMachineSteps ==
    ASSUME [Next]_vars
    PROVE  /\ [W!Next]_(W!vars)
           /\ [M!Next]_(M!vars)
           /\ [D!Next]_(D!vars)
           /\ [C!Next]_(C!vars)
           /\ machine' = machine
           /\ machine # "migration" => UNCHANGED M!vars
           /\ machine # "deployment" => UNCHANGED D!vars
<1> USE DEF Next, vars, Watches, Migrates, Deploys, Continues
<1>1. [W!Next]_(W!vars)
  BY DEF W!vars, watchdog
<1>2. [M!Next]_(M!vars) /\ (machine # "migration" => UNCHANGED M!vars)
  BY DEF M!vars, M!database, migration
<1>3. [D!Next]_(D!vars) /\ (machine # "deployment" => UNCHANGED D!vars)
  BY DEF D!vars, D!plan, D!containers, D!installed, D!flags, D!records,
         D!verdict, deployment
<1>4. [C!Next]_(C!vars)
  BY DEF C!vars, C!work, continuity
<1>5. machine' = machine
  OBVIOUS
<1> QED
  BY <1>1, <1>2, <1>3, <1>4, <1>5

\* Every machine starts as it does alone.
LEMMA MachinesStart == Init => W!Init /\ M!Init /\ D!Init /\ C!Init
BY DEF Init

-----------------------------------------------------------------------------
(* MissionContinuity                                                       *)

\* The phases in which a session holds the mission lock; those in which it has
\* a step in hand; and those of them in which the step has not been done yet.
Locking == {"hash", "hash_working", "point", "point_working", "comment", "publish"}
Ahead == {"working", "hash_working", "point_working", "started"}
InHand == Ahead \cup {"acted"}
Open == C!InProgress(journal)

MissionTypes ==
    /\ phase \in [Sessions -> C!Phases] /\ lock \in Sessions \cup {C!Nobody}
    /\ mission \in C!Missions /\ journal \in C!Journals
    /\ revision \in 0 .. MaxDrift /\ effects \in [1 .. Steps -> Nat]
    /\ draft \in [mission : C!Missions]
    /\ files \in Seq(C!Checkpoints) /\ latest \in 1 .. Len(files)
    /\ published \in [body : Nat, comments : Seq(Nat), pointer : Nat]

\* The lock is held where it should be, and by nobody else.
LockHeld == \A s \in Sessions : phase[s] \in Locking <=> lock = s

\* Steps are started and completed in order, at most one is open, and no
\* record of the next step runs ahead of the completed ones.
InOrder(done, begun) ==
    /\ done <= begun /\ begun <= done + 1 /\ begun <= Steps
    /\ journal.started = 1 .. begun /\ journal.completed = 1 .. done
    /\ mission.next <= done + 1 /\ draft.mission.next <= done + 1
    /\ \A i \in 1 .. Len(files) : files[i].mission.next <= done + 1
StepsInOrder == \E done, begun \in Nat : InOrder(done, begun)

\* A step takes effect at most once and only after its start is journalled; one
\* session at a time has it in hand, and has not done it before it has.
InOneHand ==
    /\ \A k \in 1 .. Steps :
          effects[k] <= 1 /\ (effects[k] > 0 => k \in journal.started)
    /\ \A s \in Sessions : phase[s] \in InHand => Open # {}
    /\ \A s \in Sessions : phase[s] \in Ahead => \A k \in Open : effects[k] = 0
    /\ \A s, t \in Sessions : phase[s] \in InHand /\ phase[t] \in InHand => s = t

\* A checkpoint is of one instant as far as the journal goes.
FilesAgree == \A i \in 1 .. Len(files) : files[i].digests.journal = files[i].journal

\* What the mirror's comments name is written, in order, and before the pointer.
MirrorInv ==
    /\ \A i \in 1 .. Len(published.comments) : published.comments[i] <= latest
    /\ \A s \in Sessions : phase[s] = "publish" =>
          \E i \in 1 .. Len(published.comments) : published.comments[i] = latest
    /\ C!PublishedIsRecorded

MissionInv ==
    MissionTypes /\ LockHeld /\ StepsInOrder /\ InOneHand /\ FilesAgree /\ MirrorInv


\* A checkpoint that is written is a checkpoint.
LEMMA FilesType ==
    ASSUME MissionTypes
    PROVE  /\ \A i \in 1 .. Len(files) : files[i] \in C!Checkpoints
           /\ latest \in 1 .. Len(files)
           /\ Len(files) \in Nat
BY DEF MissionTypes

\* Nothing is started at the beginning; the first checkpoint is written.
LEMMA MissionStarts == C!Init => MissionInv
<1> SUFFICES ASSUME C!Init PROVE MissionInv
  OBVIOUS
<1> USE DEF C!Init
<1>1. /\ Steps \in Nat \ {0} /\ MaxDrift \in Nat /\ C!Nobody \notin Sessions
      /\ mission \in C!Missions /\ journal \in C!Journals
  BY OperationsAssumption DEF C!ContinuityAssumption, C!Missions, C!Journals
<1>2. files \in Seq(C!Checkpoints) /\ Len(files) = 1
  BY <1>1 DEF C!Checkpoints, C!StateFiles
<1>3. MissionTypes
  BY <1>1, <1>2 DEF MissionTypes, C!Phases
<1>4. LockHeld
  BY <1>1 DEF LockHeld, Locking
<1>9. FilesAgree
  <2>1. files[1].digests.journal = files[1].journal
    BY DEF C!StateFiles
  <2>2. 1 .. Len(files) = {1}
    BY <1>2
  <2> QED
    BY <2>1, <2>2 DEF FilesAgree
<1>5. InOrder(0, 0)
  BY <1>1 DEF InOrder
<1>6. StepsInOrder
  BY <1>5 DEF StepsInOrder
<1>7. InOneHand
  BY <1>1 DEF InOneHand, InHand, Ahead
<1>8. MirrorInv
  BY DEF MirrorInv, C!PublishedIsRecorded
<1> QED
  BY <1>3, <1>4, <1>6, <1>7, <1>8, <1>9 DEF MissionInv

\* The number of completed steps names the next one (EditState).
LEMMA NextStep ==
    ASSUME NEW done \in Nat, journal.completed = 1 .. done
    PROVE  C!Cardinality(journal.completed) + 1 = done + 1
<1>1. Cardinality(1 .. done) = IF 1 > done THEN 0 ELSE done - 1 + 1
  BY FS_Interval
<1>2. Cardinality(1 .. done) = done
  BY <1>1
<1>3. C!Cardinality(journal.completed) = Cardinality(1 .. done)
  BY DEF C!Cardinality, Cardinality
<1> QED
  BY <1>2, <1>3

\* Where a step comes from: a command or the work of one session, or a change
\* of the repository.
SessionStep(s) ==
    \/ C!LoadState(s) \/ C!WriteCheckpoint(s) \/ C!WritePointer(s)
    \/ C!StepStart(s) \/ C!Act(s) \/ C!StepComplete(s) \/ C!EditState(s)
    \/ C!Resume(s) \/ C!Reconcile(s)
    \/ C!EditMissionIssue(s) \/ C!Comment(s) \/ C!EditPointerIssue(s)
    \/ C!SyncFails(s) \/ C!Crash(s)

LEMMA SessionSteps ==
    ASSUME [C!Next]_(C!vars)
    PROVE  \/ \E s \in Sessions : SessionStep(s)
           \/ C!RevisionChanges
           \/ UNCHANGED C!vars
BY DEF C!Next, SessionStep


\* Every command writes values of the right kind.
LEMMA MissionTypesKept ==
    ASSUME MissionInv, [C!Next]_(C!vars)
    PROVE  MissionTypes'
<1> USE DEF MissionTypes
<1>1. Steps \in Nat \ {0} /\ MaxDrift \in Nat
  BY OperationsAssumption DEF C!ContinuityAssumption
<1>2. MissionTypes
  BY DEF MissionInv
<1>3. ASSUME NEW s \in Sessions, SessionStep(s)
      PROVE  MissionTypes'
  <2>1. CASE C!LoadState(s)
    BY <1>2, <2>1 DEF C!LoadState, C!work, C!Phases
  <2>2. CASE C!WriteCheckpoint(s)
    <3>1. [mission |-> draft.mission, journal |-> journal, digests |-> C!StateFiles]
             \in C!Checkpoints
      BY <1>2 DEF C!Checkpoints, C!StateFiles
    <3> QED
      BY <1>2, <2>2, <3>1 DEF C!WriteCheckpoint, C!work, C!Phases
  <2>3. CASE C!WritePointer(s)
    BY <1>2, <2>3 DEF C!WritePointer, C!work, C!Phases
  <2>4. CASE C!StepStart(s)
    <3>1. files[latest].mission \in C!Missions
      <4>1. files[latest] \in C!Checkpoints
        BY <1>2, FilesType
      <4> QED
        BY <4>1 DEF C!Checkpoints
    <3>2. PICK next \in {files[latest].mission.next, mission.next} :
            \/ /\ next <= Steps
               /\ journal' = [journal EXCEPT !.started = @ \cup {next}]
            \/ UNCHANGED journal
      BY <2>4 DEF C!StepStart
    <3>3. next \in 1 .. Steps + 1
      BY <1>1, <1>2, <3>1, <3>2 DEF C!Missions
    <3>4. journal' \in C!Journals
      <4>1. journal \in C!Journals
        BY <1>2
      <4> QED
        BY <1>1, <3>2, <3>3, <4>1 DEF C!Journals
    <3>5. PICK p \in C!Phases : phase' = [phase EXCEPT ![s] = p]
      BY <2>4 DEF C!StepStart, C!Phases
    <3> QED
      BY <1>2, <2>4, <3>4, <3>5 DEF C!StepStart
  <2>5. CASE C!Act(s)
    <3>1. PICK k \in C!InProgress(journal) : effects' = [effects EXCEPT ![k] = @ + 1]
      BY <2>5 DEF C!Act
    <3>2. k \in 1 .. Steps
      BY <1>2, <3>1 DEF C!InProgress, C!Journals
    <3>3. effects' \in [1 .. Steps -> Nat]
      BY <1>2, <3>1, <3>2
    <3> QED
      BY <1>2, <2>5, <3>3 DEF C!Act, C!Phases
  <2>6. CASE C!StepComplete(s)
    BY <1>2, <2>6 DEF C!StepComplete, C!Phases, C!Journals
  <2>7. CASE C!EditState(s)
    <3>1. PICK done, begun \in Nat : InOrder(done, begun)
      BY DEF MissionInv, StepsInOrder
    <3>2. C!Cardinality(journal.completed) + 1 \in 1 .. Steps + 1
      BY <1>1, <3>1, NextStep DEF InOrder
    <3>3. mission' \in C!Missions
      BY <1>2, <2>7, <3>2 DEF C!EditState, C!Missions
    <3> QED
      BY <1>2, <2>7, <3>3 DEF C!EditState, C!Phases
  <2>8. CASE C!Resume(s)
    BY <1>2, <2>8 DEF C!Resume, C!work, C!Phases
  <2>9. CASE C!Reconcile(s)
    BY <1>2, <2>9 DEF C!Reconcile, C!work, C!Phases
  <2>10. CASE C!EditMissionIssue(s)
    BY <1>2, <2>10 DEF C!EditMissionIssue, C!work, C!Phases
  <2>11. CASE C!Comment(s)
    <3>1. latest \in Nat
      BY <1>2
    <3>2. published' \in [body : Nat, comments : Seq(Nat), pointer : Nat]
      <4>1. published.comments \in Seq(Nat)
        BY <1>2
      <4>2. Append(published.comments, latest) \in Seq(Nat)
        BY <3>1, <4>1
      <4>3. \/ published' = published
            \/ published' = [published EXCEPT !.comments =
                                Append(published.comments, latest)]
        BY <2>11 DEF C!Comment
      <4> QED
        BY <1>2, <4>2, <4>3
    <3> QED
      BY <1>2, <2>11, <3>2 DEF C!Comment, C!work, C!Phases
  <2>12. CASE C!EditPointerIssue(s)
    BY SMTT(30), <1>2, <2>12 DEF C!EditPointerIssue, C!work, C!Phases
  <2>13. CASE C!SyncFails(s)
    BY <1>2, <2>13 DEF C!SyncFails, C!work, C!Phases
  <2>14. CASE C!Crash(s)
    BY <1>2, <2>14 DEF C!Crash, C!work, C!Phases
  <2> QED
    BY <1>3, <2>1, <2>2, <2>3, <2>4, <2>5, <2>6, <2>7, <2>8, <2>9, <2>10,
       <2>11, <2>12, <2>13, <2>14 DEF SessionStep
<1>4. CASE C!RevisionChanges
  BY <1>1, <1>2, <1>4 DEF C!RevisionChanges
<1>5. CASE UNCHANGED C!vars
  BY <1>2, <1>5 DEF C!vars, C!work
<1> QED
  BY <1>3, <1>4, <1>5, SessionSteps

\* A session takes the lock where the lock is free, and gives it back with it.
LEMMA LockKept ==
    ASSUME MissionInv, [C!Next]_(C!vars)
    PROVE  LockHeld'
<1> USE DEF LockHeld, Locking
<1>1. /\ C!Nobody \notin Sessions /\ phase \in [Sessions -> C!Phases]
      /\ LockHeld /\ lock \in Sessions \cup {C!Nobody}
  BY OperationsAssumption DEF C!ContinuityAssumption, MissionInv, MissionTypes
<1>2. ASSUME NEW s \in Sessions,
             C!LoadState(s) \/ C!EditMissionIssue(s)
      PROVE  LockHeld'
  <2>1. lock = C!Nobody /\ lock' = s
    BY <1>2 DEF C!LoadState, C!EditMissionIssue
  <2>2. \E p \in Locking : phase' = [phase EXCEPT ![s] = p]
    BY <1>2 DEF C!LoadState, C!EditMissionIssue
  <2> QED
    BY <1>1, <2>1, <2>2
<1>3. ASSUME NEW s \in Sessions,
             C!WritePointer(s) \/ C!EditPointerIssue(s) \/ C!SyncFails(s) \/ C!Crash(s)
      PROVE  LockHeld'
  <2>1. lock' = IF lock = s THEN C!Nobody ELSE lock
    BY <1>1, <1>3 DEF C!WritePointer, C!EditPointerIssue, C!SyncFails, C!Crash
  <2>2. PICK p \in {"synced", "started", "idle"} : phase' = [phase EXCEPT ![s] = p]
    BY <1>3 DEF C!WritePointer, C!EditPointerIssue, C!SyncFails, C!Crash
  <2> QED
    BY <1>1, <2>1, <2>2
<1>4. ASSUME NEW s \in Sessions, C!WriteCheckpoint(s) \/ C!Comment(s)
      PROVE  LockHeld'
  <2>1. phase[s] \in Locking /\ lock' = lock
    BY <1>4 DEF C!WriteCheckpoint, C!Comment
  <2>2. PICK p \in Locking : phase' = [phase EXCEPT ![s] = p]
    BY <1>4 DEF C!WriteCheckpoint, C!Comment
  <2> QED
    BY <1>1, <2>1, <2>2
<1>5. ASSUME NEW s \in Sessions,
             \/ C!StepStart(s) \/ C!Act(s) \/ C!StepComplete(s)
             \/ C!EditState(s) \/ C!Resume(s) \/ C!Reconcile(s)
      PROVE  LockHeld'
  <2>1. phase[s] \notin Locking /\ lock' = lock
    BY <1>5 DEF C!StepStart, C!Act, C!StepComplete, C!EditState, C!Resume, C!Reconcile
  <2>2. PICK p \in C!Phases \ Locking : phase' = [phase EXCEPT ![s] = p]
    BY <1>5 DEF C!StepStart, C!Act, C!StepComplete, C!EditState, C!Resume,
                C!Reconcile, C!Phases
  <2> QED
    BY <1>1, <2>1, <2>2
<1>6. CASE UNCHANGED <<phase, lock>>
  BY <1>1, <1>6
<1>7. C!RevisionChanges \/ UNCHANGED C!vars => UNCHANGED <<phase, lock>>
  BY DEF C!RevisionChanges, C!vars
<1> QED
  BY <1>2, <1>3, <1>4, <1>5, <1>6, <1>7, SessionSteps DEF SessionStep


\* A step is started when the one before it is completed, and every record of
\* the next step is made after that (journal_step_start, build_checkpoint).
LEMMA OrderKept ==
    ASSUME MissionInv, [C!Next]_(C!vars)
    PROVE  StepsInOrder'
<1>1. PICK done, begun \in Nat : InOrder(done, begun)
  BY DEF MissionInv, StepsInOrder
<1>2. /\ mission.next \in 1 .. Steps + 1 /\ draft.mission.next \in 1 .. Steps + 1
      /\ \A i \in 1 .. Len(files) : files[i].mission.next \in 1 .. Steps + 1
      /\ files \in Seq(C!Checkpoints) /\ latest \in 1 .. Len(files)
      /\ journal \in C!Journals /\ mission \in C!Missions
      /\ Steps \in Nat \ {0} /\ MissionTypes
  <2>1. MissionTypes /\ Steps \in Nat \ {0}
    BY OperationsAssumption DEF C!ContinuityAssumption, MissionInv
  <2>2. mission.next \in 1 .. Steps + 1 /\ draft.mission.next \in 1 .. Steps + 1
    BY <2>1 DEF MissionTypes, C!Missions
  <2>3. \A i \in 1 .. Len(files) : files[i].mission.next \in 1 .. Steps + 1
    BY <2>1, FilesType DEF C!Missions, C!Checkpoints
  <2> QED
    BY <2>1, <2>2, <2>3 DEF MissionTypes
<1>3. ASSUME UNCHANGED journal,
             mission' = mission \/ mission'.next = done + 1,
             draft' = draft \/ draft'.mission = mission,
             UNCHANGED files \/ \E c \in C!Checkpoints :
                c.mission = draft.mission /\ files' = Append(files, c)
      PROVE  StepsInOrder'
  <2>1. mission'.next <= done + 1 /\ draft'.mission.next <= done + 1
    BY <1>1, <1>2, <1>3 DEF InOrder
  <2>2. CASE UNCHANGED files
    BY <1>1, <1>3, <2>1, <2>2 DEF StepsInOrder, InOrder
  <2>3. CASE ~UNCHANGED files
    <3>1. PICK c \in C!Checkpoints :
             c.mission = draft.mission /\ files' = Append(files, c)
      BY <1>3, <2>3
    <3>2. \A i \in 1 .. Len(files') :
             files'[i] = c \/ (i \in 1 .. Len(files) /\ files'[i] = files[i])
      BY SMTT(30), <1>2, <3>1
    <3>3. \A i \in 1 .. Len(files') : files'[i].mission.next <= done + 1
      BY <1>1, <3>1, <3>2 DEF InOrder
    <3> QED
      BY <1>1, <1>3, <2>1, <3>3 DEF StepsInOrder, InOrder
  <2> QED
    BY <2>2, <2>3
<1>4. ASSUME NEW s \in Sessions, C!StepStart(s)
      PROVE  StepsInOrder'
  <2>1. UNCHANGED <<mission, draft, files>>
    BY <1>4 DEF C!StepStart
  <2>2. CASE UNCHANGED journal
    BY <1>3, <2>1, <2>2
  <2>3. CASE ~UNCHANGED journal
    <3>1. PICK next \in {files[latest].mission.next, mission.next} :
            /\ next <= Steps /\ next \notin journal.started
            /\ journal' = [journal EXCEPT !.started = @ \cup {next}]
      BY <1>4, <2>3 DEF C!StepStart, C!MayStart
    <3>2. next \in 1 .. Steps /\ next <= done + 1
      BY SMTT(30), <1>1, <1>2, <3>1 DEF InOrder, MissionTypes
    <3>3. begun = done /\ next = done + 1
      BY <1>1, <3>1, <3>2 DEF InOrder
    <3>4. journal'.started = 1 .. done + 1 /\ journal'.completed = 1 .. done
      BY SMTT(30), <1>1, <1>2, <3>1, <3>3 DEF InOrder, MissionTypes, C!Journals
    <3>5. done + 1 \in Nat /\ InOrder(done, done + 1)'
      BY <1>1, <2>1, <3>1, <3>2, <3>3, <3>4 DEF InOrder
    <3> QED
      BY <3>5 DEF StepsInOrder
  <2> QED
    BY <2>2, <2>3
<1>5. ASSUME NEW s \in Sessions, C!StepComplete(s)
      PROVE  StepsInOrder'
  <2>1. /\ journal'.started = 1 .. begun /\ journal'.completed = 1 .. begun
        /\ UNCHANGED <<mission, draft, files>>
    BY <1>1, <1>2, <1>5 DEF C!StepComplete, InOrder, MissionTypes, C!Journals
  <2>2. \A i \in 1 .. Len(files) : files[i].mission.next \in Nat
    BY <1>2
  <2>3. InOrder(begun, begun)'
    BY SMTT(30), <1>1, <1>2, <2>1, <2>2 DEF InOrder
  <2> QED
    BY <2>3 DEF StepsInOrder
<1>6. ASSUME NEW s \in Sessions, C!EditState(s)
      PROVE  StepsInOrder'
  <2>1. mission'.next = done + 1
    BY <1>1, <1>6, NextStep DEF C!EditState, InOrder
  <2> QED
    BY <1>3, <1>6, <2>1 DEF C!EditState
<1>7. ASSUME NEW s \in Sessions, C!WriteCheckpoint(s)
      PROVE  StepsInOrder'
  <2>1. [mission |-> draft.mission, journal |-> journal, digests |-> C!StateFiles]
           \in C!Checkpoints
    BY <1>2 DEF MissionTypes, C!Checkpoints, C!StateFiles
  <2> QED
    BY <1>3, <1>7, <2>1 DEF C!WriteCheckpoint, C!work
<1>8. ASSUME NEW s \in Sessions, C!LoadState(s)
      PROVE  StepsInOrder'
  <2>1. draft'.mission = mission
    BY <1>8 DEF C!LoadState
  <2> QED
    BY <1>3, <1>8, <2>1 DEF C!LoadState, C!work
<1>9. ASSUME UNCHANGED <<journal, mission, draft, files>>
      PROVE  StepsInOrder'
  BY <1>3, <1>9
<1>10. ASSUME NEW s \in Sessions,
              \/ C!WritePointer(s) \/ C!Act(s) \/ C!Resume(s) \/ C!Reconcile(s)
              \/ C!EditMissionIssue(s) \/ C!Comment(s) \/ C!EditPointerIssue(s)
              \/ C!SyncFails(s) \/ C!Crash(s)
       PROVE  StepsInOrder'
  BY <1>9, <1>10 DEF C!WritePointer, C!Act, C!Resume, C!Reconcile, C!work,
     C!EditMissionIssue, C!Comment, C!EditPointerIssue, C!SyncFails, C!Crash
<1>11. C!RevisionChanges \/ UNCHANGED C!vars
         => UNCHANGED <<journal, mission, draft, files>>
  BY DEF C!RevisionChanges, C!vars, C!work
<1> QED
  BY <1>4, <1>5, <1>6, <1>7, <1>8, <1>9, <1>10, <1>11, SessionSteps DEF SessionStep


\* What is open is one step of the mission.
LEMMA OpenStep ==
    ASSUME MissionTypes, StepsInOrder
    PROVE  \A j, k \in Open : j = k /\ k \in 1 .. Steps
<1>1. PICK done, begun \in Nat : InOrder(done, begun)
  BY DEF StepsInOrder
<1>2. \A k \in Open : k = done + 1 /\ k \in 1 .. Steps
  BY <1>1, OperationsAssumption
     DEF InOrder, Open, C!InProgress, C!ContinuityAssumption
<1> QED
  BY <1>2

\* A step that is started is not another session's, and has no effect yet.
LEMMA StartKeepsHand ==
    ASSUME MissionInv, NEW s \in Sessions, C!StepStart(s)
    PROVE  InOneHand'
<1>1. PICK done, begun \in Nat : InOrder(done, begun)
  BY DEF MissionInv, StepsInOrder
<1>2. /\ phase \in [Sessions -> C!Phases] /\ journal \in C!Journals
      /\ effects \in [1 .. Steps -> Nat] /\ InOneHand
      /\ mission.next \in 1 .. Steps + 1
      /\ files[latest].mission.next \in 1 .. Steps + 1 /\ latest \in 1 .. Len(files)
      /\ Steps \in Nat \ {0}
  <2>1. MissionTypes /\ InOneHand /\ Steps \in Nat \ {0}
    BY OperationsAssumption DEF C!ContinuityAssumption, MissionInv
  <2> QED
    BY <2>1, FilesType DEF MissionTypes, C!Missions, C!Checkpoints
<1>3. UNCHANGED effects /\ phase[s] \in {"ready", "synced"}
  BY DEF C!StepStart
<1>4. CASE UNCHANGED journal
  <2>1. phase' = [phase EXCEPT ![s] = "idle"]
    <3>1. SUFFICES ASSUME NEW next \in {files[latest].mission.next, mission.next},
                          next \notin journal.started,
                          journal' = [journal EXCEPT !.started = @ \cup {next}]
                   PROVE  FALSE
      BY DEF C!StepStart, C!MayStart
    <3> QED
      BY <1>2, <1>4, <3>1 DEF C!Journals
  <2> QED
    BY <1>2, <1>3, <1>4, <2>1 DEF InOneHand, Ahead, InHand, Open, C!InProgress
<1>5. CASE ~UNCHANGED journal
  <2>1. PICK next \in {files[latest].mission.next, mission.next} :
          /\ next <= Steps /\ next \notin journal.started
          /\ journal' = [journal EXCEPT !.started = @ \cup {next}]
    BY <1>5 DEF C!StepStart, C!MayStart
  <2>2. PICK p \in {"working", "started"} : phase' = [phase EXCEPT ![s] = p]
    BY <1>5 DEF C!StepStart
  <2>3. next \in 1 .. Steps /\ next <= done + 1
    BY <1>1, <1>2, <2>1 DEF InOrder
  <2>4. begun = done /\ next = done + 1
    BY <1>1, <2>1, <2>3 DEF InOrder
  <2>5. Open = {} /\ Open' = {next}
    <3>1. journal.started = journal.completed
      BY <1>1, <2>4 DEF InOrder
    <3>2. journal'.started = journal.started \cup {next}
          /\ journal'.completed = journal.completed
      BY <1>2, <2>1 DEF C!Journals
    <3> QED
      BY <2>1, <3>1, <3>2 DEF Open, C!InProgress
  <2>6. \A t \in Sessions : phase[t] \notin InHand
    BY <1>2, <2>5 DEF InOneHand
  <2>7. effects[next] = 0
    BY <1>2, <2>1, <2>3 DEF InOneHand
  <2>8. \A k \in 1 .. Steps :
           effects'[k] <= 1 /\ (effects'[k] > 0 => k \in journal'.started)
    BY <1>2, <1>3, <2>1 DEF InOneHand, C!Journals
  <2>9. \A t \in Sessions : phase'[t] \in InHand => t = s
    BY <1>2, <2>2, <2>6
  <2> QED
    BY <1>3, <2>5, <2>7, <2>8, <2>9 DEF InOneHand, Ahead, InHand
<1> QED
  BY <1>4, <1>5

\* A step that takes effect was open and had taken none.
LEMMA ActKeepsHand ==
    ASSUME MissionInv, NEW s \in Sessions, C!Act(s)
    PROVE  InOneHand'
<1>1. /\ phase \in [Sessions -> C!Phases] /\ journal \in C!Journals
      /\ effects \in [1 .. Steps -> Nat] /\ InOneHand
      /\ MissionTypes /\ StepsInOrder
  BY DEF MissionInv, MissionTypes
<1>2. PICK k \in Open : effects' = [effects EXCEPT ![k] = @ + 1]
  BY DEF C!Act, Open
<1>3. /\ phase[s] = "started" /\ phase' = [phase EXCEPT ![s] = "acted"]
      /\ UNCHANGED journal
  BY DEF C!Act
<1>4. k \in 1 .. Steps /\ effects[k] = 0 /\ k \in journal.started
  BY <1>1, <1>2, <1>3, OpenStep DEF InOneHand, Ahead, Open, C!InProgress
<1>5. \A t \in Sessions : phase'[t] \in InHand => phase[t] \in InHand
  BY <1>1, <1>3 DEF InHand, Ahead
<1>6. \A t \in Sessions : phase'[t] \in InHand => t = s
  BY <1>1, <1>3, <1>5 DEF InOneHand, InHand, Ahead
<1>7. \A j \in 1 .. Steps :
         effects'[j] <= 1 /\ (effects'[j] > 0 => j \in journal'.started)
  BY <1>1, <1>2, <1>3, <1>4 DEF InOneHand
<1>8. phase'[s] = "acted" /\ Open' # {}
  BY <1>1, <1>2, <1>3 DEF Open
<1> QED
  BY <1>6, <1>7, <1>8 DEF InOneHand, InHand, Ahead

\* A session that finds an open step on resuming takes it as far as it went.
LEMMA ReconcileKeepsHand ==
    ASSUME MissionInv, NEW s \in Sessions, C!Reconcile(s)
    PROVE  InOneHand'
<1>1. /\ phase \in [Sessions -> C!Phases] /\ effects \in [1 .. Steps -> Nat]
      /\ InOneHand /\ MissionTypes /\ StepsInOrder
  BY DEF MissionInv, MissionTypes
<1>2. UNCHANGED <<journal, effects>>
  BY DEF C!Reconcile, C!work
<1>3. PICK p \in {"completed", "acted", "started"} :
        /\ phase' = [phase EXCEPT ![s] = p]
        /\ p # "completed" => Open # {}
        /\ p = "started" => ~\E k \in Open : effects[k] > 0
  BY DEF C!Reconcile, Open
<1>4. \A t \in Sessions : phase'[t] \in InHand => t = s
  BY <1>1, <1>3 DEF C!Reconcile, InHand, Ahead
<1>5. p = "started" => \A k \in Open : effects[k] = 0
  BY <1>1, <1>3, OpenStep
<1>6. phase'[s] = p
  BY <1>1, <1>3
<1> QED
  BY <1>1, <1>2, <1>3, <1>4, <1>5, <1>6
     DEF InOneHand, InHand, Ahead, Open, C!InProgress

\* The rest of a session's work leaves the step in the hand it is in, or puts
\* it down.
LEMMA HandKept ==
    ASSUME MissionInv, [C!Next]_(C!vars)
    PROVE  InOneHand'
<1>1. /\ phase \in [Sessions -> C!Phases] /\ journal \in C!Journals
      /\ effects \in [1 .. Steps -> Nat] /\ InOneHand
  BY DEF MissionInv, MissionTypes
<1>2. ASSUME UNCHANGED <<journal, effects>>,
             \A t \in Sessions : phase'[t] \in InHand => phase[t] \in InHand,
             \A t \in Sessions : phase'[t] \in Ahead => phase[t] \in Ahead
      PROVE  InOneHand'
  BY <1>1, <1>2 DEF InOneHand, Open, C!InProgress
<1>3. ASSUME NEW s \in Sessions,
             \/ C!LoadState(s) \/ C!WriteCheckpoint(s) \/ C!WritePointer(s)
             \/ C!EditState(s) \/ C!Resume(s)
             \/ C!EditMissionIssue(s) \/ C!Comment(s) \/ C!EditPointerIssue(s)
             \/ C!SyncFails(s) \/ C!Crash(s)
      PROVE  InOneHand'
  <2>1. UNCHANGED <<journal, effects>>
    BY <1>3 DEF C!LoadState, C!WriteCheckpoint, C!WritePointer, C!EditState, C!Resume,
       C!EditMissionIssue, C!Comment, C!EditPointerIssue, C!SyncFails, C!Crash, C!work
  <2>2. PICK p \in C!Phases :
          /\ phase' = [phase EXCEPT ![s] = p]
          /\ p \in InHand => p \in Ahead /\ phase[s] \in Ahead
    BY <1>3 DEF C!LoadState, C!WriteCheckpoint, C!WritePointer, C!EditState, C!Resume,
       C!EditMissionIssue, C!Comment, C!EditPointerIssue, C!SyncFails, C!Crash,
       C!Phases, InHand, Ahead
  <2> QED
    BY <1>1, <1>2, <2>1, <2>2 DEF InHand
<1>4. ASSUME NEW s \in Sessions, C!StepComplete(s)
      PROVE  InOneHand'
  <2>1. /\ phase[s] = "acted" /\ phase' = [phase EXCEPT ![s] = "completed"]
        /\ journal'.started = journal.started /\ UNCHANGED effects
    BY <1>1, <1>4 DEF C!StepComplete, C!Journals
  <2>2. \A t \in Sessions : phase'[t] \notin InHand
    BY <1>1, <2>1 DEF InOneHand, InHand, Ahead
  <2> QED
    BY <1>1, <2>1, <2>2 DEF InOneHand, InHand
<1>5. C!RevisionChanges \/ UNCHANGED C!vars => UNCHANGED <<journal, effects, phase>>
  BY DEF C!RevisionChanges, C!vars, C!work
<1> QED
  BY <1>2, <1>3, <1>4, <1>5, StartKeepsHand, ActKeepsHand, ReconcileKeepsHand,
     SessionSteps DEF SessionStep


\* The journal of a checkpoint and the digest of its file are read under the
\* lock, and only the lock's holders write the journal (build_checkpoint).
LEMMA FilesKept ==
    ASSUME MissionInv, [C!Next]_(C!vars)
    PROVE  FilesAgree'
<1>1. FilesAgree /\ files \in Seq(C!Checkpoints)
  BY DEF MissionInv, MissionTypes
<1>2. CASE UNCHANGED files
  BY <1>1, <1>2 DEF FilesAgree
<1>3. ASSUME NEW s \in Sessions, C!WriteCheckpoint(s)
      PROVE  FilesAgree'
  <2>1. PICK c \in C!Checkpoints :
           c.digests.journal = c.journal /\ files' = Append(files, c)
    <3>1. [mission |-> draft.mission, journal |-> journal, digests |-> C!StateFiles]
             \in C!Checkpoints
      BY DEF MissionInv, MissionTypes, C!Checkpoints, C!StateFiles
    <3> QED
      BY <1>3, <3>1 DEF C!WriteCheckpoint, C!StateFiles
  <2>2. \A i \in 1 .. Len(files') :
           files'[i] = c \/ (i \in 1 .. Len(files) /\ files'[i] = files[i])
    BY <1>1, <2>1
  <2> QED
    BY <1>1, <2>1, <2>2 DEF FilesAgree
<1>4. ASSUME NEW s \in Sessions, SessionStep(s), ~C!WriteCheckpoint(s)
      PROVE  UNCHANGED files
  BY <1>4 DEF SessionStep, C!LoadState, C!WritePointer, C!StepStart, C!Act,
     C!StepComplete, C!EditState, C!Resume, C!Reconcile, C!EditMissionIssue,
     C!Comment, C!EditPointerIssue, C!SyncFails, C!Crash
<1>5. C!RevisionChanges \/ UNCHANGED C!vars => UNCHANGED files
  BY DEF C!RevisionChanges, C!vars
<1> QED
  BY <1>2, <1>3, <1>4, <1>5, SessionSteps

\* While the mirror is written the lock keeps the latest checkpoint in place.
LEMMA MirrorKept ==
    ASSUME MissionInv, [C!Next]_(C!vars)
    PROVE  MirrorInv'
<1> USE DEF MirrorInv, C!PublishedIsRecorded
<1>1. /\ phase \in [Sessions -> C!Phases] /\ LockHeld /\ MirrorInv
      /\ published \in [body : Nat, comments : Seq(Nat), pointer : Nat]
      /\ latest \in Nat /\ Len(files) \in Nat /\ latest <= Len(files)
  BY FilesType DEF MissionInv, MissionTypes
<1>2. ASSUME UNCHANGED <<published, latest>>,
             \A t \in Sessions : phase'[t] = "publish" => phase[t] = "publish"
      PROVE  MirrorInv'
  BY <1>1, <1>2
<1>3. ASSUME NEW s \in Sessions, C!WritePointer(s)
      PROVE  MirrorInv'
  <2>1. latest <= latest' /\ UNCHANGED published
    BY <1>1, <1>3 DEF C!WritePointer
  <2>2. lock = s /\ \A t \in Sessions : phase'[t] # "publish"
    BY <1>1, <1>3 DEF C!WritePointer, LockHeld, Locking
  <2>3. latest' \in Nat
    BY <1>1, <1>3 DEF C!WritePointer
  <2>4. \A i \in 1 .. Len(published.comments) : published.comments[i] <= latest'
    BY <1>1, <2>1, <2>3
  <2> QED
    BY <1>1, <2>1, <2>2, <2>4
<1>4. ASSUME NEW s \in Sessions, C!EditMissionIssue(s)
      PROVE  MirrorInv'
  <2>1. /\ published'.comments = published.comments
        /\ published'.pointer = published.pointer
        /\ UNCHANGED latest /\ phase' = [phase EXCEPT ![s] = "comment"]
    BY <1>1, <1>4 DEF C!EditMissionIssue
  <2> QED
    BY <1>1, <2>1
<1>5. ASSUME NEW s \in Sessions, C!Comment(s)
      PROVE  MirrorInv'
  <2>1. phase' = [phase EXCEPT ![s] = "publish"] /\ UNCHANGED latest
    BY <1>5 DEF C!Comment
  <2>2. CASE C!AlreadyRecorded
    <3>1. UNCHANGED published
      BY <1>5, <2>2 DEF C!Comment
    <3>2. \E i \in 1 .. Len(published.comments) : published.comments[i] = latest
      BY <1>1, <2>2 DEF C!AlreadyRecorded
    <3> QED
      BY <1>1, <2>1, <3>1, <3>2
  <2>3. CASE ~C!AlreadyRecorded
    <3> DEFINE old == published.comments
    <3>1. /\ published'.comments = Append(old, latest)
          /\ published'.pointer = published.pointer /\ old \in Seq(Nat)
      BY <1>1, <1>5, <2>3 DEF C!Comment
    <3>2. \A i \in 1 .. Len(old) : old[i] < latest
      BY <1>1, <2>3, <3>1 DEF C!AlreadyRecorded
    <3> HIDE DEF old
    <3>3. /\ Len(Append(old, latest)) = Len(old) + 1 /\ Len(old) \in Nat
          /\ Append(old, latest)[Len(old) + 1] = latest
          /\ \A i \in 1 .. Len(old) : Append(old, latest)[i] = old[i]
      BY <1>1, <3>1
    <3>4. \A i \in 1 .. Len(old) + 1 :
             i = Len(old) + 1 \/ i \in 1 .. Len(old)
      BY <3>3
    <3>5. \A i \in 1 .. Len(published'.comments) : published'.comments[i] <= latest'
      BY <1>1, <2>1, <3>1, <3>2, <3>3, <3>4
    <3>6. \E i \in 1 .. Len(published'.comments) : published'.comments[i] = latest'
      BY <2>1, <3>1, <3>3
    <3>7. \A i \in 1 .. Len(published'.comments) - 1 :
             published'.comments[i] < published'.comments[i + 1]
      <4>1. \A i \in 1 .. Len(old) - 1 : old[i] < old[i + 1]
        BY <1>1 DEF old
      <4>2. TAKE i \in 1 .. Len(published'.comments) - 1
      <4>3. CASE i = Len(old)
        BY <3>1, <3>2, <3>3, <4>3
      <4>4. CASE i # Len(old)
        <5>1. i \in 1 .. Len(old) - 1 /\ i + 1 \in 1 .. Len(old)
          BY <3>1, <3>3, <4>4
        <5> QED
          BY <3>1, <3>3, <4>1, <5>1
      <4> QED
        BY <4>3, <4>4
    <3>8. published'.pointer > 0 =>
             \E i \in DOMAIN published'.comments :
                published'.comments[i] = published'.pointer
      <4>1. SUFFICES ASSUME published.pointer > 0
                     PROVE  \E i \in DOMAIN published'.comments :
                               published'.comments[i] = published.pointer
        BY <3>1
      <4>2. PICK i \in 1 .. Len(old) : old[i] = published.pointer
        BY <1>1, <3>1, <4>1 DEF old
      <4>3. i \in DOMAIN published'.comments
        BY <3>1, <3>3
      <4> QED
        BY <3>1, <3>3, <4>2, <4>3
    <3> QED
      BY <3>5, <3>6, <3>7, <3>8
  <2> QED
    BY <2>2, <2>3
<1>6. ASSUME NEW s \in Sessions, C!EditPointerIssue(s)
      PROVE  MirrorInv'
  <2>1. /\ published'.comments = published.comments
        /\ published'.pointer = latest
        /\ UNCHANGED latest /\ phase' = [phase EXCEPT ![s] = "synced"]
        /\ phase[s] = "publish"
    BY <1>1, <1>6 DEF C!EditPointerIssue
  <2>2. \E i \in DOMAIN published.comments : published.comments[i] = latest
    BY <1>1, <2>1
  <2> QED
    BY <1>1, <2>1, <2>2
<1>7. ASSUME NEW s \in Sessions,
             \/ C!LoadState(s) \/ C!WriteCheckpoint(s) \/ C!StepStart(s)
             \/ C!Act(s) \/ C!StepComplete(s) \/ C!EditState(s) \/ C!Resume(s)
             \/ C!Reconcile(s) \/ C!SyncFails(s) \/ C!Crash(s)
      PROVE  MirrorInv'
  <2>1. UNCHANGED <<published, latest>>
    BY <1>7 DEF C!LoadState, C!WriteCheckpoint, C!StepStart, C!Act, C!StepComplete,
       C!EditState, C!Resume, C!Reconcile, C!SyncFails, C!Crash
  <2>2. PICK p \in C!Phases : phase' = [phase EXCEPT ![s] = p] /\ p # "publish"
    BY <1>7 DEF C!LoadState, C!WriteCheckpoint, C!StepStart, C!Act, C!StepComplete,
       C!EditState, C!Resume, C!Reconcile, C!SyncFails, C!Crash, C!Phases
  <2> QED
    BY <1>1, <1>2, <2>1, <2>2
<1>8. C!RevisionChanges \/ UNCHANGED C!vars => UNCHANGED <<published, latest, phase>>
  BY DEF C!RevisionChanges, C!vars
<1> QED
  BY <1>2, <1>3, <1>4, <1>5, <1>6, <1>7, <1>8, SessionSteps DEF SessionStep

\* A session is told to go on only where the checkpoint it goes on from knows
\* all that happened (resume_guard).
LEMMA ReadyStep ==
    ASSUME MissionInv, [C!Next]_(C!vars), NEW s \in Sessions,
           phase[s] = "idle", phase'[s] = "ready"
    PROVE  {k \in 1 .. Steps : effects[k] > 0} \subseteq files[latest].journal.completed
<1>1. /\ phase \in [Sessions -> C!Phases] /\ InOneHand /\ FilesAgree
      /\ latest \in 1 .. Len(files)
  BY DEF MissionInv, MissionTypes
<1>2. C!Resume(s)
  <2>1. PICK t \in Sessions : SessionStep(t)
    BY SessionSteps DEF C!RevisionChanges, C!vars
  <2>2. PICK p : phase' = [phase EXCEPT ![t] = p] /\ (p = "ready" => C!Resume(t))
    BY <2>1 DEF SessionStep, C!LoadState, C!WriteCheckpoint, C!WritePointer,
       C!StepStart, C!Act, C!StepComplete, C!EditState, C!Resume, C!Reconcile,
       C!EditMissionIssue, C!Comment, C!EditPointerIssue, C!SyncFails, C!Crash
  <2> QED
    BY <1>1, <2>2
<1>3. C!Disposition = "RESUME_READY"
  BY <1>1, <1>2 DEF C!Resume
<1>4. ~C!Interrupted(files[latest]) /\ ~C!StateFilesChanged(files[latest])
  BY <1>3 DEF C!Disposition
<1>5. Open = {} /\ files[latest].digests.journal = journal
  BY <1>4 DEF C!Interrupted, C!StateFilesChanged, C!StateFiles, Open
<1>6. files[latest].journal = journal
  BY <1>1, <1>5 DEF FilesAgree
<1>7. journal.started \subseteq journal.completed
  BY <1>5 DEF Open, C!InProgress
<1> QED
  BY <1>1, <1>6, <1>7 DEF InOneHand

\* Sessions keep the mission's invariant, whoever dies or resumes.
THEOREM MissionInvariance == Spec => []MissionInv
<1>1. Init => MissionInv
  BY MachinesStart, MissionStarts
<1>2. MissionInv /\ [Next]_vars => MissionInv'
  BY OneMachineSteps, MissionTypesKept, LockKept, OrderKept, HandKept, FilesKept,
     MirrorKept DEF MissionInv
<1> QED
  BY <1>1, <1>2, PTL DEF Spec

\* Sessions that crash, race and resume neither repeat work nor go on from a
\* state that does not know it (journal_step_start, resume_guard, sync_github).
THEOREM MissionIsContinued == Spec => MissionIsSafe
<1>1. MissionInv => C!NothingRepeated
  BY DEF MissionInv, InOneHand, MirrorInv, MissionTypes, C!NothingRepeated, C!StepsOnce
<1>2. MissionInv /\ [Next]_vars => [C!SettledWhenReady]_(C!vars)
  BY OneMachineSteps, ReadyStep DEF C!SettledWhenReady
<1>3. Spec => []C!NothingRepeated
  BY <1>1, MissionInvariance, PTL
<1>4. Spec => C!ReadyIsSettled
  BY <1>2, MissionInvariance, PTL DEF Spec, C!ReadyIsSettled
<1> QED
  BY <1>3, <1>4 DEF MissionIsSafe, C!MissionIsSafe

-----------------------------------------------------------------------------
(* SchemaMigration                                                         *)

\* Every migration recorded has created its objects and no later one has; what
\* an old installation brought is there only as the contract says.
ShapesFollow ==
    /\ shape \in [M!Objects -> {"absent", "sound", "drifted"}]
    /\ \A v \in 1 .. M!Latest : v # 2 =>
          \A o \in M!Creates[v] : IF v <= history THEN M!Sound(o) ELSE M!Absent(o)
    /\ history # M!NoHistory =>
          /\ \A o \in M!Creates[2] :
                IF history >= 2 THEN M!Sound(o) ELSE M!Sound(o) \/ M!Absent(o)
          /\ M!Absent("baseline") => M!Absent("optional")
VersionFollows ==
    /\ history \in {M!NoHistory} \cup 0 .. M!Latest
    /\ version = IF history = M!NoHistory THEN 0 ELSE history

\* A command is past the classification only where there is a history, or the
\* file was one it may bring into one; it read a history that there was.
CommandsFollow ==
    /\ stage \in [Runners -> M!Stages]
    /\ rows \in [Runners -> {M!Unread} \cup 0 .. M!Latest]
    /\ \A r \in Runners :
          /\ stage[r] \notin {"idle", "bootstrap"} => history # M!NoHistory
          /\ stage[r] = "bootstrap" => history # M!NoHistory \/ M!LegacyAccepted
          /\ stage[r] = "apply" => rows[r] \in 0 .. M!Latest - 1
MigrationInv == VersionFollows /\ ShapesFollow /\ CommandsFollow

\* The ten migrations and the objects they create.
LEMMA ObjectsCreated ==
    /\ M!Creates = <<{"probe"}, {"baseline", "optional"}, {"metadata"}, {"decisions"},
                     {"shadow"}, {"entries"}, {"advisories"}, {"capture"},
                     {"resolution"}, {"indexes"}>>
    /\ M!Objects = {"probe", "baseline", "optional", "metadata", "decisions",
                    "shadow", "entries", "advisories", "capture", "resolution",
                    "indexes"}
    /\ M!Tables = M!Objects \ {"probe", "indexes"}
    /\ M!Added = M!Tables \ {"baseline", "optional"}
<1>1. 1 .. 10 = {1, 2, 3, 4, 5, 6, 7, 8, 9, 10}
  OBVIOUS
<1>2. \A o : o \in M!Objects <=> \E v \in 1 .. 10 : o \in M!Creates[v]
  BY DEF M!Objects, M!Latest
<1>3. \A o : o \in M!Objects <=>
        \/ o \in M!Creates[1] \/ o \in M!Creates[2] \/ o \in M!Creates[3]
        \/ o \in M!Creates[4] \/ o \in M!Creates[5] \/ o \in M!Creates[6]
        \/ o \in M!Creates[7] \/ o \in M!Creates[8] \/ o \in M!Creates[9]
        \/ o \in M!Creates[10]
  BY <1>1, <1>2
<1>4. \A o : o \in M!Objects <=>
        o \in {"probe", "baseline", "optional", "metadata", "decisions", "shadow",
               "entries", "advisories", "capture", "resolution", "indexes"}
  BY <1>3 DEF M!Creates
<1> QED
  BY <1>4 DEF M!Creates, M!Tables, M!Added

\* The shapes object by object.
LEMMA ShapesByObject ==
    ASSUME ShapesFollow
    PROVE  /\ IF 1 <= history THEN M!Sound("probe") ELSE M!Absent("probe")
           /\ IF 3 <= history THEN M!Sound("metadata") ELSE M!Absent("metadata")
           /\ IF 4 <= history THEN M!Sound("decisions") ELSE M!Absent("decisions")
           /\ IF 5 <= history THEN M!Sound("shadow") ELSE M!Absent("shadow")
           /\ IF 6 <= history THEN M!Sound("entries") ELSE M!Absent("entries")
           /\ IF 7 <= history THEN M!Sound("advisories") ELSE M!Absent("advisories")
           /\ IF 8 <= history THEN M!Sound("capture") ELSE M!Absent("capture")
           /\ IF 9 <= history THEN M!Sound("resolution") ELSE M!Absent("resolution")
           /\ IF 10 <= history THEN M!Sound("indexes") ELSE M!Absent("indexes")
           /\ history # M!NoHistory =>
                 /\ M!Sound("baseline") \/ M!Absent("baseline")
                 /\ M!Sound("optional") \/ M!Absent("optional")
                 /\ M!Absent("baseline") => M!Absent("optional")
                 /\ history >= 2 => M!Sound("baseline") /\ M!Sound("optional")
<1>1. \A v \in 1 .. 10 : v # 2 =>
          \A o \in M!Creates[v] : IF v <= history THEN M!Sound(o) ELSE M!Absent(o)
  BY DEF ShapesFollow, M!Latest
<1>2. /\ M!Creates[1] = {"probe"} /\ M!Creates[2] = {"baseline", "optional"}
      /\ M!Creates[3] = {"metadata"} /\ M!Creates[4] = {"decisions"}
      /\ M!Creates[5] = {"shadow"} /\ M!Creates[6] = {"entries"}
      /\ M!Creates[7] = {"advisories"} /\ M!Creates[8] = {"capture"}
      /\ M!Creates[9] = {"resolution"} /\ M!Creates[10] = {"indexes"}
  BY ObjectsCreated
<1>3. /\ IF 1 <= history THEN M!Sound("probe") ELSE M!Absent("probe")
      /\ IF 3 <= history THEN M!Sound("metadata") ELSE M!Absent("metadata")
      /\ IF 4 <= history THEN M!Sound("decisions") ELSE M!Absent("decisions")
  BY <1>1, <1>2
<1>4. /\ IF 5 <= history THEN M!Sound("shadow") ELSE M!Absent("shadow")
      /\ IF 6 <= history THEN M!Sound("entries") ELSE M!Absent("entries")
      /\ IF 7 <= history THEN M!Sound("advisories") ELSE M!Absent("advisories")
  BY <1>1, <1>2
<1>5. /\ IF 8 <= history THEN M!Sound("capture") ELSE M!Absent("capture")
      /\ IF 9 <= history THEN M!Sound("resolution") ELSE M!Absent("resolution")
      /\ IF 10 <= history THEN M!Sound("indexes") ELSE M!Absent("indexes")
  BY <1>1, <1>2
<1>6. history # M!NoHistory =>
         /\ M!Sound("baseline") \/ M!Absent("baseline")
         /\ M!Sound("optional") \/ M!Absent("optional")
         /\ M!Absent("baseline") => M!Absent("optional")
         /\ history >= 2 => M!Sound("baseline") /\ M!Sound("optional")
  BY <1>2 DEF ShapesFollow
<1> QED
  BY <1>3, <1>4, <1>5, <1>6

\* Whatever prefix is applied, its branch of the preflight accepts what it
\* finds, and the next migration does too.
LEMMA PrefixesAreAccepted ==
    ASSUME ShapesFollow, VersionFollows, history > 0
    PROVE  M!NeverStranded
<1>0. /\ version = history /\ history \in 1 .. 10 /\ M!Latest = 10
      /\ M!Sound("probe") /\ ~M!Absent("probe")
  BY ShapesByObject DEF VersionFollows, M!NoHistory, M!Latest, M!Sound, M!Absent
<1>1. M!PrefixAccepted(history)
  <2>1. CASE history = 1
    <3>1. CASE M!Absent("baseline")
      <4>1. \A o \in M!Tables : M!Absent(o)
        BY <2>1, <3>1, ShapesByObject, ObjectsCreated DEF M!NoHistory
      <4> QED
        BY <2>1, <4>1 DEF M!PrefixAccepted
    <3>2. CASE ~M!Absent("baseline")
      <4>1. M!SchemaValid(M!Tables, M!Added \cup {"optional"}, TRUE)
        BY <2>1, <3>2, ShapesByObject, ObjectsCreated
           DEF M!NoHistory, M!SchemaValid
      <4>2. M!MayMiss(1) = M!Added \cup {"optional"}
        BY DEF M!MayMiss
      <4> QED
        BY <1>0, <2>1, <4>1, <4>2 DEF M!PrefixAccepted, M!SchemaValid
    <3> QED
      BY <3>1, <3>2
  <2>2. CASE history = 2
    BY <2>2, ShapesByObject DEF M!PrefixAccepted, M!SchemaValid, M!NoHistory,
       M!Sound, M!Absent
  <2>3. CASE history \in 3 .. 10
    <3>1. \A o \in M!Tables : IF M!Absent(o) THEN o \in M!MayMiss(history) ELSE M!Sound(o)
      <4>1. CASE history = 3
        <5>1. M!MayMiss(3) = M!Added \ {"metadata"}
          BY DEF M!MayMiss
        <5> QED
          BY <4>1, <5>1, ShapesByObject, ObjectsCreated DEF M!NoHistory, M!Sound, M!Absent
      <4>2. CASE history = 4
        <5>1. M!MayMiss(4) = M!Added \ {"metadata", "decisions"}
          BY DEF M!MayMiss
        <5> QED
          BY <4>2, <5>1, ShapesByObject, ObjectsCreated DEF M!NoHistory, M!Sound, M!Absent
      <4>3. CASE history = 5
        <5>1. M!MayMiss(5) = {"entries", "advisories", "capture", "resolution"}
          BY DEF M!MayMiss
        <5> QED
          BY <4>3, <5>1, ShapesByObject, ObjectsCreated DEF M!NoHistory, M!Sound, M!Absent
      <4>4. CASE history = 6
        <5>1. M!MayMiss(6) = {"advisories", "capture", "resolution"}
          BY DEF M!MayMiss
        <5> QED
          BY <4>4, <5>1, ShapesByObject, ObjectsCreated DEF M!NoHistory, M!Sound, M!Absent
      <4>5. CASE history = 7
        <5>1. M!MayMiss(7) = {"capture", "resolution"}
          BY DEF M!MayMiss
        <5> QED
          BY <4>5, <5>1, ShapesByObject, ObjectsCreated DEF M!NoHistory, M!Sound, M!Absent
      <4>6. CASE history = 8
        <5>1. M!MayMiss(8) = {"resolution"}
          BY DEF M!MayMiss
        <5> QED
          BY <4>6, <5>1, ShapesByObject, ObjectsCreated DEF M!NoHistory, M!Sound, M!Absent
      <4>7. CASE history \in {9, 10}
        BY <4>7, ShapesByObject, ObjectsCreated
           DEF M!MayMiss, M!NoHistory, M!Sound, M!Absent
      <4> QED
        BY <2>3, <4>1, <4>2, <4>3, <4>4, <4>5, <4>6, <4>7
    <3>2. history < 10 \/ M!Sound("indexes")
      BY <2>3, ShapesByObject
    <3> QED
      BY <1>0, <2>3, <3>1, <3>2 DEF M!PrefixAccepted, M!SchemaValid
  <2> QED
    BY <1>0, <2>1, <2>2, <2>3
<1>2. M!MigratedAccepted(history)
  BY <1>0, <1>1 DEF M!MigratedAccepted
<1>3. history < 10 => ~M!Clashes(history + 1)
  BY <1>0 DEF M!Clashes, ShapesFollow
<1>4. history = 10 => M!RuntimeAccepts
  <2>1. SUFFICES ASSUME history = 10 PROVE M!RuntimeAccepts
    OBVIOUS
  <2>2. \A o \in M!Tables : M!Sound(o) /\ ~M!Absent(o)
    BY <2>1, ShapesByObject, ObjectsCreated DEF M!NoHistory, M!Sound, M!Absent
  <2>3. M!Sound("indexes")
    BY <2>1, ShapesByObject
  <2> QED
    BY <1>0, <2>1, <2>2, <2>3 DEF M!RuntimeAccepts, M!SchemaValid
<1> QED
  BY <1>0, <1>2, <1>3, <1>4 DEF M!NeverStranded

\* What the invariant says of the promises.
LEMMA MigrationsAreSafeWhere ==
    ASSUME MigrationInv
    PROVE  M!MigrationsAreSafe
<1>1. M!NeverStranded
  BY PrefixesAreAccepted DEF MigrationInv, M!NeverStranded
<1>2. ASSUME history # M!NoHistory, NEW o \in M!Objects
      PROVE  shape[o] # "drifted"
  <2>1. M!Sound(o) \/ M!Absent(o)
    BY <1>2, ShapesByObject, ObjectsCreated DEF MigrationInv
  <2> QED
    BY <2>1 DEF M!Sound, M!Absent
<1>3. M!DriftNeverAdopted
  BY <1>2 DEF MigrationInv, VersionFollows, M!DriftNeverAdopted
<1> QED
  BY <1>1, <1>3 DEF M!MigrationsAreSafe

\* A new file, or one of an old installation.
LEMMA MigrationStarts == M!Init => MigrationInv
<1> SUFFICES ASSUME M!Init PROVE MigrationInv
  OBVIOUS
<1>1. PICK old, optional \in {"absent", "sound", "drifted"} :
        shape = [o \in M!Objects |-> IF o = "baseline" THEN old
                                     ELSE IF o = "optional" THEN optional
                                     ELSE "absent"]
  BY DEF M!Init
<1>2. history = M!NoHistory /\ version = 0
  BY DEF M!Init
<1>3. \A v \in 1 .. M!Latest : v # 2 =>
         \A o \in M!Creates[v] :
            o \in M!Objects /\ o # "baseline" /\ o # "optional"
  <2>1. \A v \in 1 .. M!Latest : \A o \in M!Creates[v] : o \in M!Objects
    BY DEF M!Objects
  <2>2. "baseline" \notin UNION {M!Creates[v] : v \in (1 .. 10) \ {2}}
        /\ "optional" \notin UNION {M!Creates[v] : v \in (1 .. 10) \ {2}}
    BY ObjectsCreated
  <2> QED
    BY <2>1, <2>2 DEF M!Latest
<1>4. ShapesFollow
  BY <1>1, <1>2, <1>3 DEF ShapesFollow, M!NoHistory, M!Absent
<1>5. VersionFollows /\ CommandsFollow
  BY <1>2 DEF M!Init, VersionFollows, CommandsFollow, M!Stages
<1> QED
  BY <1>4, <1>5 DEF MigrationInv

\* A command that fails, ends or reads leaves the file alone.
LEMMA ReadersLeaveTheFile ==
    ASSUME NEW r,
           \/ M!Start(r) \/ M!ReadRows(r) \/ M!ReadVersion(r) \/ M!CheckSchema(r)
           \/ M!SetWal(r) \/ M!Outcome(r) \/ M!Fails(r)
    PROVE  UNCHANGED <<shape, history, version>>
BY DEF M!Start, M!ReadRows, M!ReadVersion, M!CheckSchema, M!SetWal, M!Outcome,
   M!Fails, M!Keep, M!database

\* The history begins over a file that was classified as one it may begin over.
LEMMA BootstrapKeepsFile ==
    ASSUME MigrationInv, NEW r \in Runners, M!Bootstrap(r)
    PROVE  ShapesFollow' /\ VersionFollows'
<1>1. /\ shape' = shape /\ version' = version
      /\ history' = IF history = M!NoHistory THEN 0 ELSE history
      /\ history # M!NoHistory \/ M!LegacyAccepted
  BY DEF M!Bootstrap, MigrationInv, CommandsFollow
<1>2. CASE history # M!NoHistory
  BY <1>1, <1>2 DEF MigrationInv, ShapesFollow, VersionFollows, M!Sound, M!Absent
<1>3. CASE history = M!NoHistory
  <2>1. /\ M!LegacyAccepted /\ ShapesFollow /\ M!NoHistory = -1
        /\ version = 0 /\ history' = 0
    BY <1>1, <1>3 DEF MigrationInv, M!NoHistory, VersionFollows
  <2>2. /\ M!Sound("baseline") \/ M!Absent("baseline")
        /\ M!Sound("optional") \/ M!Absent("optional")
        /\ M!Absent("baseline") => M!Absent("optional")
    <3>1. CASE \A o \in M!Objects : M!Absent(o)
      BY <3>1, ObjectsCreated
    <3>2. CASE M!SchemaValid(M!Tables, M!Added \cup {"optional"}, TRUE)
      BY <3>2, ObjectsCreated DEF M!SchemaValid, M!Sound, M!Absent
    <3> QED
      BY <2>1, <3>1, <3>2 DEF M!LegacyAccepted
  <2>3. M!Creates[2] = {"baseline", "optional"}
    BY ObjectsCreated
  <2>4. \A v \in 1 .. M!Latest : v # 2 =>
           \A o \in M!Creates[v] : ~(v <= history) /\ M!Absent(o)
    BY <1>3, <2>1 DEF ShapesFollow, M!NoHistory
  <2>5. \A v \in 1 .. M!Latest : ~(v <= history')
    BY <2>1 DEF M!Latest
  <2> QED
    BY <1>1, <2>1, <2>2, <2>3, <2>4, <2>5
       DEF ShapesFollow, VersionFollows, M!Sound, M!Absent, M!Latest
<1> QED
  BY <1>2, <1>3

\* The transaction of one migration: its objects, its row and its version.
LEMMA ApplyKeepsFile ==
    ASSUME MigrationInv, NEW r \in Runners, M!ApplyOne(r)
    PROVE  ShapesFollow' /\ VersionFollows'
<1>1. ShapesFollow /\ VersionFollows
  BY DEF MigrationInv
<1>2. CASE UNCHANGED <<shape, history, version>>
  BY <1>1, <1>2 DEF ShapesFollow, VersionFollows, M!Sound, M!Absent
<1>3. CASE ~UNCHANGED <<shape, history, version>>
  <2> DEFINE v == history + 1
  <2>1. /\ rows[r] \in 0 .. M!Latest - 1 /\ rows[r] + 1 = history + 1
        /\ history' = v /\ version' = v
        /\ shape' = [o \in M!Objects |->
                       IF o \in M!Creates[v] /\ M!Absent(o) THEN "sound" ELSE shape[o]]
    BY <1>3 DEF M!ApplyOne, MigrationInv, CommandsFollow, M!database
  <2>2. v \in 1 .. 10 /\ history \in 0 .. 9 /\ history # M!NoHistory /\ M!Latest = 10
    BY <1>1, <2>1 DEF VersionFollows, M!Latest, M!NoHistory
  <2> HIDE DEF v
  <2>3. \A u \in 1 .. 10 : \A o \in M!Creates[u] : o \in M!Objects
    BY DEF M!Objects, M!Latest
  <2>4. \A u, w \in 1 .. 10 : u # w => M!Creates[u] \cap M!Creates[w] = {}
    BY ObjectsCreated
  <2>5. \A o \in M!Objects :
           shape'[o] = IF o \in M!Creates[v] /\ M!Absent(o) THEN "sound" ELSE shape[o]
    BY <2>1
  <2>6. \A u \in 1 .. 10 : u # 2 =>
           \A o \in M!Creates[u] : IF u <= v THEN shape'[o] = "sound" ELSE shape'[o] = "absent"
    <3>1. TAKE u \in 1 .. 10
    <3>2. SUFFICES ASSUME u # 2, NEW o \in M!Creates[u]
                   PROVE  IF u <= v THEN shape'[o] = "sound" ELSE shape'[o] = "absent"
      OBVIOUS
    <3>3. IF u <= history THEN shape[o] = "sound" ELSE shape[o] = "absent"
      BY <1>1, <2>2, <3>2 DEF ShapesFollow, M!Sound, M!Absent
    <3>4. o \in M!Objects
      BY <2>3
    <3>5. CASE u = v
      BY <2>2, <2>5, <3>3, <3>4, <3>5 DEF M!Absent, v
    <3>6. CASE u # v
      <4>1. o \notin M!Creates[v]
        BY <2>2, <2>4, <3>6
      <4>2. shape'[o] = shape[o]
        BY <2>5, <3>4, <4>1
      <4>3. u <= v <=> u <= history
        BY <2>2, <3>6 DEF v
      <4> QED
        BY <3>3, <4>2, <4>3
    <3> QED
      BY <3>5, <3>6
  <2>7. \A o \in M!Creates[2] :
           IF v >= 2 THEN shape'[o] = "sound" ELSE shape'[o] \in {"sound", "absent"}
    <3>1. SUFFICES ASSUME NEW o \in M!Creates[2]
                   PROVE  IF v >= 2 THEN shape'[o] = "sound"
                          ELSE shape'[o] \in {"sound", "absent"}
      OBVIOUS
    <3>2. /\ o \in M!Objects /\ shape[o] \in {"sound", "absent"}
          /\ history >= 2 => shape[o] = "sound"
      BY <1>1, <2>2, <2>3 DEF ShapesFollow, M!Sound, M!Absent
    <3>3. CASE v = 2
      BY <2>5, <3>2, <3>3 DEF M!Absent
    <3>4. CASE v # 2
      BY <2>2, <2>5, <3>2, <3>4 DEF M!Absent, v
    <3> QED
      BY <3>3, <3>4
  <2>8. shape'["baseline"] = "absent" => shape'["optional"] = "absent"
    <3>1. {"baseline", "optional"} \subseteq M!Objects
          /\ M!Creates[2] = {"baseline", "optional"}
      BY ObjectsCreated
    <3>2. CASE v >= 2
      BY <2>7, <3>1, <3>2
    <3>3. CASE ~(v >= 2)
      <4>1. v # 2 /\ v \in 1 .. 10
        BY <2>2, <3>3
      <4>2. M!Creates[2] \cap M!Creates[v] = {}
        BY <2>4, <4>1
      <4>3. shape'["baseline"] = shape["baseline"] /\ shape'["optional"] = shape["optional"]
        BY <2>5, <3>1, <4>2
      <4> QED
        BY <1>1, <2>2, <4>3 DEF ShapesFollow, M!Absent
    <3> QED
      BY <3>2, <3>3
  <2>9. shape' \in [M!Objects -> {"absent", "sound", "drifted"}]
    BY <1>1, <2>1 DEF ShapesFollow
  <2>10. ShapesFollow'
    BY <2>1, <2>2, <2>6, <2>7, <2>8, <2>9 DEF ShapesFollow, M!Sound, M!Absent
  <2> QED
    BY <2>1, <2>2, <2>10 DEF VersionFollows, M!NoHistory
<1> QED
  BY <1>2, <1>3

\* A command goes on only with what it read of a history that was there.
LEMMA CommandsKept ==
    ASSUME MigrationInv, [M!Next]_(M!vars)
    PROVE  CommandsFollow'
<1>1. CommandsFollow /\ VersionFollows
  BY DEF MigrationInv
<1>2. ASSUME NEW r \in Runners,
             history' = history \/ history' # M!NoHistory,
             UNCHANGED <<shape, version>> \/ history' # M!NoHistory,
             \E to \in M!Stages :
                  /\ stage' = [stage EXCEPT ![r] = to]
                  /\ to \notin {"idle", "bootstrap"} => history' # M!NoHistory
                  /\ to = "bootstrap" => history' # M!NoHistory \/ M!LegacyAccepted
                  /\ to = "apply" => rows'[r] \in 0 .. M!Latest - 1,
             \E read \in {M!Unread} \cup 0 .. M!Latest :
                  rows' = [rows EXCEPT ![r] = read]
      PROVE  CommandsFollow'
  BY <1>1, <1>2 DEF CommandsFollow, M!LegacyAccepted, M!SchemaValid, M!Sound, M!Absent
<1>3. ASSUME NEW r \in Runners, rows[r] \in {M!Unread} \cup 0 .. M!Latest,
             UNCHANGED rows
      PROVE  \E read \in {M!Unread} \cup 0 .. M!Latest :
                  rows' = [rows EXCEPT ![r] = read]
  BY <1>1, <1>3 DEF CommandsFollow
<1>4. \A r \in Runners : rows[r] \in {M!Unread} \cup 0 .. M!Latest
  BY <1>1 DEF CommandsFollow
<1>5. ASSUME NEW r \in Runners, M!Start(r)
      PROVE  CommandsFollow'
  <2>1. PICK to \in {"preflight", "bootstrap", "idle"} :
          /\ stage' = [stage EXCEPT ![r] = to]
          /\ to = "preflight" => history # M!NoHistory
          /\ to = "bootstrap" => M!LegacyAccepted
          /\ UNCHANGED <<rows, shape, version, history>>
    BY <1>5 DEF M!Start, M!Go, M!End, M!database
  <2> QED
    BY <1>2, <1>3, <1>4, <2>1 DEF M!Stages
<1>6. ASSUME NEW r \in Runners, M!ReadRows(r)
      PROVE  CommandsFollow'
  <2>1. /\ UNCHANGED <<stage, shape, version, history>>
        /\ rows' = [rows EXCEPT ![r] = history] /\ M!Reading(r)
    BY <1>6 DEF M!ReadRows, M!Keep, M!database
  <2>2. history \in 0 .. M!Latest /\ stage[r] # "apply"
    BY <1>1, <2>1 DEF CommandsFollow, VersionFollows, M!Reading
  <2> QED
    BY <1>1, <2>1, <2>2 DEF CommandsFollow, M!LegacyAccepted, M!SchemaValid,
       M!Sound, M!Absent
<1>7. ASSUME NEW r \in Runners, M!ReadVersion(r)
      PROVE  CommandsFollow'
  <2>1. /\ UNCHANGED <<shape, version, history>> /\ M!Reading(r)
        /\ rows[r] # M!Unread
    BY <1>7 DEF M!ReadVersion, M!database
  <2>2. history # M!NoHistory
    BY <1>1, <2>1 DEF CommandsFollow, M!Reading
  <2>3. CASE version = rows[r]
    <3>1. /\ stage' = [stage EXCEPT ![r] = M!Agreed(r)]
          /\ rows' = [rows EXCEPT ![r] =
                        IF M!Agreed(r) \in {"verify", "wal"} THEN M!Unread ELSE rows[r]]
      BY <1>7, <2>3 DEF M!ReadVersion, M!Go
    <3>2. /\ M!Agreed(r) \in M!Stages \ {"bootstrap"}
          /\ M!Agreed(r) = "apply" => rows[r] # M!Latest
      BY DEF M!Agreed, M!Stages
    <3>3. M!Agreed(r) = "apply" => rows'[r] \in 0 .. M!Latest - 1
      BY <1>1, <1>4, <2>1, <3>1, <3>2 DEF CommandsFollow, M!Latest
    <3>4. \E read \in {M!Unread} \cup 0 .. M!Latest :
             rows' = [rows EXCEPT ![r] = read]
      BY <1>4, <3>1
    <3> HIDE DEF M!Agreed
    <3> QED
      BY <1>2, <2>1, <2>2, <3>1, <3>2, <3>3, <3>4
  <2>4. CASE version # rows[r]
    <3>1. /\ stage' = [stage EXCEPT ![r] = "idle"]
          /\ rows' = [rows EXCEPT ![r] = M!Unread]
      BY <1>7, <2>4 DEF M!ReadVersion, M!Go, M!End
    <3> QED
      BY <1>2, <2>1, <3>1 DEF M!Stages
  <2> QED
    BY <2>3, <2>4
<1>8. ASSUME NEW r \in Runners, M!CheckSchema(r) \/ M!Outcome(r) \/ M!Fails(r)
      PROVE  CommandsFollow'
  <2>1. PICK to \in {"bootstrap", "idle"} :
          /\ stage' = [stage EXCEPT ![r] = to]
          /\ rows' = [rows EXCEPT ![r] = M!Unread]
          /\ to = "bootstrap" => stage[r] = "schema"
          /\ UNCHANGED <<shape, version, history>>
    BY <1>8 DEF M!CheckSchema, M!Outcome, M!Fails, M!Go, M!End, M!database
  <2>2. to = "bootstrap" => history # M!NoHistory
    BY <1>1, <2>1 DEF CommandsFollow
  <2> QED
    BY <1>2, <2>1, <2>2 DEF M!Stages
<1>9. ASSUME NEW r \in Runners, M!Bootstrap(r)
      PROVE  CommandsFollow'
  <2>1. /\ stage' = [stage EXCEPT ![r] = "loop"] /\ UNCHANGED rows
        /\ history' # M!NoHistory
    BY <1>9 DEF M!Bootstrap, M!Go, M!NoHistory
  <2> QED
    BY <1>2, <1>3, <1>4, <2>1 DEF M!Stages
<1>10. ASSUME NEW r \in Runners, M!ApplyOne(r)
       PROVE  CommandsFollow'
  <2>1. history # M!NoHistory
    BY <1>1, <1>10 DEF M!ApplyOne, CommandsFollow
  <2>2. PICK to \in {"loop", "idle"} :
          /\ stage' = [stage EXCEPT ![r] = to]
          /\ rows' = [rows EXCEPT ![r] = M!Unread]
    BY <1>10 DEF M!ApplyOne, M!Go, M!End
  <2>3. history' # M!NoHistory
    BY <1>10, <2>1, ApplyKeepsFile, <1>1 DEF M!ApplyOne, M!database, CommandsFollow,
       M!NoHistory, M!Latest
  <2> QED
    BY <1>2, <2>2, <2>3 DEF M!Stages
<1>11. ASSUME NEW r \in Runners, M!SetWal(r)
       PROVE  CommandsFollow'
  <2>1. /\ stage[r] = "wal" /\ stage' = [stage EXCEPT ![r] = "postflight"]
        /\ UNCHANGED <<rows, shape, version, history>>
    BY <1>11 DEF M!SetWal, M!Go, M!database
  <2>2. history # M!NoHistory
    BY <1>1, <2>1 DEF CommandsFollow
  <2> QED
    BY <1>2, <1>3, <1>4, <2>1, <2>2 DEF M!Stages
<1>12. CASE UNCHANGED M!vars
  BY <1>1, <1>12 DEF M!vars, M!database, CommandsFollow, M!LegacyAccepted,
     M!SchemaValid, M!Sound, M!Absent
<1> QED
  BY <1>5, <1>6, <1>7, <1>8, <1>9, <1>10, <1>11, <1>12 DEF M!Next

\* The file keeps what was said of it, whoever writes it.
LEMMA FileKept ==
    ASSUME MigrationInv, [M!Next]_(M!vars)
    PROVE  ShapesFollow' /\ VersionFollows'
<1>1. ASSUME UNCHANGED <<shape, history, version>>
      PROVE  ShapesFollow' /\ VersionFollows'
  BY <1>1 DEF MigrationInv, ShapesFollow, VersionFollows, M!Sound, M!Absent
<1>2. UNCHANGED M!vars => UNCHANGED <<shape, history, version>>
  BY DEF M!vars, M!database
<1> QED
  BY <1>1, <1>2, ReadersLeaveTheFile, BootstrapKeepsFile, ApplyKeepsFile DEF M!Next

\* Migration commands keep their invariant, however they overlap, fail or die.
THEOREM MigrationInvariance == Spec => []MigrationInv
<1>1. Init => MigrationInv
  BY MachinesStart, MigrationStarts
<1>2. MigrationInv /\ [Next]_vars => MigrationInv'
  BY OneMachineSteps, CommandsKept, FileKept DEF MigrationInv
<1> QED
  BY <1>1, <1>2, PTL DEF Spec

\* A file a command leaves behind is never refused afterwards, and a drifted
\* file is never written (_applied_runtime_schema_valid, classify_database).
THEOREM MigrationsAreNeverStranded == Spec => []MigrationsAreSafe
<1>1. MigrationInv => MigrationsAreSafe
  BY MigrationsAreSafeWhere DEF MigrationsAreSafe
<1> QED
  BY <1>1, MigrationInvariance, PTL

-----------------------------------------------------------------------------
(* Deployment                                                              *)

\* The steps that have migrated the database, started the new release or named
\* it to the host; those before that; and those that put the host back.
Migrated == {"migrated", "removed", "up", "healthy", "promoted", "activated", "pruned"}
Installed == {"up", "healthy", "promoted", "activated", "pruned"}
Promoted == {"promoted", "activated", "pruned"}
Unpromoted == {"locked", "pinned", "checked", "loaded", "backed up", "migrated",
               "removed", "up", "healthy"}
HostSteps == {"host", "host stopped", "cleanup"}

\* Nothing is backed up that was not attempted.
Attempted ==
    /\ release \in 0 .. MaxReleases
    /\ \A r \in DOMAIN backups : r \in Nat /\ r <= release
\* The certified backup is kept, and so is the one of a deployment that may have
\* to go back to it.
BackupsFollow ==
    /\ certificate \in DOMAIN backups
    /\ mutated \/ step = "backed up" => release \in DOMAIN backups
    /\ step \in Migrated \cup {"restoring"} => mutated

\* What a deployment has put in place by the step it is at.
InstallFollows ==
    /\ step \in (Migrated \cup {"checked", "loaded", "backed up"}) => checkout = release
    /\ step \in Migrated => schema = D!SchemaOf(release)
    /\ step \in Installed => image = release /\ running
    /\ step \in Promoted => override = release
    /\ outcome = "certified" => step = "idle" /\ D!Agree /\ (service => running)

\* What a deployment that began in agreement can go back to: the release that
\* was pinned, which the override names or its snapshot does.
RollbackFollows ==
    /\ outcome = "rolled back" => step \in HostSteps \cup {"idle"}
    /\ step \in {"accepted", "emptied", "back up"} => checkout = previous
    /\ step = "host stopped" => host # {} /\ ~service
    /\ step \in HostSteps /\ outcome = "rolled back" =>
          checkout = previous /\ schema = D!SchemaOf(previous)
    /\ step \in {"host", "host stopped"} /\ outcome = "rolled back" => image = previous
    /\ step = "host" /\ outcome = "rolled back" => running
    /\ step = "cleanup" /\ outcome = "rolled back" => (service => running)
SoundFollows ==
    /\ step = "locked" => image = override /\ image # D!None
    /\ step \notin {"idle", "locked"} =>
          /\ \A h \in host : h.override = previous
          /\ host = {} => override = previous
    /\ step = "cleanup" /\ outcome = "rolled back" =>
          override = previous /\ image = previous
    /\ step = "idle" /\ outcome = "rolled back" => D!Agree /\ (service => running)
DeploymentInv ==
    /\ Attempted /\ BackupsFollow /\ InstallFollows /\ RollbackFollows
    /\ override \in D!Releases
    /\ \A h \in host : h.override \in D!Releases
    /\ step \in Unpromoted => host = {}
    /\ soundBefore => SoundFollows

\* Nothing is deployed yet and everything agrees.
LEMMA DeploymentStarts == D!Init => DeploymentInv
<1>1. MaxReleases \in Nat
  BY OperationsAssumption DEF D!DeploymentAssumption
<1>2. D!Init => Attempted
  BY <1>1 DEF D!Init, Attempted
<1>3. D!Init => override \in D!Releases
  BY <1>1 DEF D!Init, D!Releases
<1>4. D!Init => image = override /\ image # D!None
  BY DEF D!Init, D!None
<1> QED
  BY <1>2, <1>3, <1>4 DEF D!Init, DeploymentInv, BackupsFollow, InstallFollows,
     RollbackFollows, SoundFollows, Unpromoted, Migrated, Installed, Promoted, HostSteps

\* Releases are counted up.
LEMMA ReleasesAreNumbers ==
    ASSUME Attempted
    PROVE  /\ MaxReleases \in Nat /\ release \in Nat
           /\ \A r \in DOMAIN backups : r \in Nat
BY OperationsAssumption DEF Attempted, D!DeploymentAssumption

\* Pruning keeps the backup of the newest release and the certified one.
LEMMA PruneKeeps ==
    ASSUME Attempted, D!Prune, UNCHANGED certificate
    PROVE  /\ DOMAIN backups' \subseteq DOMAIN backups
           /\ certificate \in DOMAIN backups => certificate \in DOMAIN backups'
           /\ release \in DOMAIN backups => release \in DOMAIN backups'
<1>1. DOMAIN backups' = D!Kept(DOMAIN backups)
  BY DEF D!Prune
<1>2. ASSUME release \in DOMAIN backups
      PROVE  release \in D!Newest(DOMAIN backups)
  <2>1. {q \in DOMAIN backups : q > release} = {}
    <3>1. \A q \in DOMAIN backups : ~(q > release)
      BY ReleasesAreNumbers DEF Attempted
    <3> QED
      BY <3>1
  <2>2. Cardinality({}) = 0
    BY FS_EmptySet
  <2>3. D!Cardinality({q \in DOMAIN backups : q > release}) = 0
    BY <2>1, <2>2 DEF D!Cardinality, Cardinality
  <2>4. Retention > 0
    BY OperationsAssumption DEF D!DeploymentAssumption
  <2> QED
    BY <1>2, <2>3, <2>4 DEF D!Newest
<1> QED
  BY <1>1, <1>2 DEF D!Kept, D!Newest

\* What is installed, snapshotted and backed up stays within what was attempted.
LEMMA AttemptedKept ==
    ASSUME Attempted, [D!Next]_(D!vars)
    PROVE  Attempted'
<1> USE DEF D!plan, D!containers, D!installed, D!flags, D!records, D!verdict, D!Step
<1>1. CASE D!Begin
  <2>1. release' = release + 1 /\ release < MaxReleases /\ UNCHANGED backups
    BY <1>1 DEF D!Begin
  <2>2. release' \in 0 .. MaxReleases
    BY <2>1, ReleasesAreNumbers DEF Attempted
  <2>3. \A r \in DOMAIN backups : r <= release'
    BY <2>1, ReleasesAreNumbers DEF Attempted
  <2> QED
    BY <2>1, <2>2, <2>3, ReleasesAreNumbers DEF Attempted
<1>2. CASE D!Backup
  <2>1. DOMAIN backups' = DOMAIN backups \cup {release} /\ UNCHANGED release
    BY <1>2 DEF D!Backup
  <2> QED
    BY <2>1, ReleasesAreNumbers DEF Attempted
<1>3. CASE D!CleanUp \/ D!Finish \/ D!Contender
  <2>1. D!Prune /\ UNCHANGED <<certificate, release>>
    BY <1>3 DEF D!CleanUp, D!Finish, D!Contender
  <2> QED
    BY <2>1, PruneKeeps DEF Attempted
<1>4. CASE UNCHANGED <<release, backups>>
  BY <1>4 DEF Attempted
<1>5. D!Next => \/ D!Begin \/ D!Backup \/ D!CleanUp \/ D!Finish \/ D!Contender
                \/ UNCHANGED <<release, backups>>
  BY DEF D!Next, D!Pin, D!Checkout, D!Load, D!Migrate, D!Remove, D!Up, D!Healthy,
     D!Promote, D!Activate, D!Certify, D!Fail, D!Abort, D!StopForRestore, D!Restore,
     D!PreviousAccepts, D!Quarantine, D!RemoveForRollback, D!RollBackUp, D!RolledBack,
     D!RollbackFails, D!HostStop, D!HostStart, D!Killed, D!Reboot, D!HealthCheck
<1>6. UNCHANGED D!vars => UNCHANGED <<release, backups>>
  BY DEF D!vars
<1> QED
  BY <1>1, <1>2, <1>3, <1>4, <1>5, <1>6

\* Every step of a deployment, of the host or of another deployment.
LEMMA DeploymentKept ==
    ASSUME DeploymentInv, [D!Next]_(D!vars)
    PROVE  DeploymentInv'
<1> DEFINE Rest == /\ BackupsFollow /\ InstallFollows /\ RollbackFollows
                   /\ override \in D!Releases
                   /\ \A h \in host : h.override \in D!Releases
                   /\ step \in Unpromoted => host = {}
                   /\ soundBefore => SoundFollows
<1>0. Rest /\ Attempted
  BY DEF DeploymentInv
<1>a. release \in D!Releases /\ D!None \notin D!Releases
  BY <1>0, ReleasesAreNumbers DEF Attempted, D!Releases, D!None
<1>b. SUFFICES Rest'
  BY <1>0, AttemptedKept DEF DeploymentInv
<1> HIDE DEF Rest
<1> USE DEF Rest, BackupsFollow, InstallFollows, RollbackFollows, SoundFollows,
            Unpromoted, Migrated, Installed, Promoted, HostSteps, D!Agree,
            D!plan, D!containers, D!installed, D!flags, D!records, D!verdict, D!Step
<1>1. CASE D!Begin
  BY <1>0, <1>1, <1>a DEF D!Begin
<1>2. CASE D!Pin
  BY <1>0, <1>2 DEF D!Pin
<1>3. CASE D!Checkout
  BY <1>0, <1>3 DEF D!Checkout
<1>4. CASE D!Load
  BY <1>0, <1>4 DEF D!Load
<1>5. CASE D!Backup
  <2>1. DOMAIN backups' = DOMAIN backups \cup {release}
    BY <1>5 DEF D!Backup
  <2> QED
    BY <1>0, <1>5, <2>1 DEF D!Backup
<1>6. CASE D!Migrate
  BY <1>0, <1>6 DEF D!Migrate
<1>7. CASE D!Remove
  BY <1>0, <1>7 DEF D!Remove
<1>8. CASE D!Up
  BY <1>0, <1>8 DEF D!Up, D!ComposeUp
<1>9. CASE D!Healthy
  BY <1>0, <1>9 DEF D!Healthy, D!Serves
<1>10. CASE D!Promote
  <2>1. host' = {[override |-> override, service |-> service]}
    BY <1>10 DEF D!Promote
  <2>2. \A h \in host' : h.override = override
    BY <2>1
  <2> QED
    BY <1>0, <1>a, <1>10, <2>1, <2>2 DEF D!Promote
<1>11. CASE D!Activate
  BY <1>0, <1>11 DEF D!Activate, D!ComposeUp
<1>12. CASE D!CleanUp
  BY <1>0, <1>12, PruneKeeps DEF D!CleanUp
<1>13. CASE D!Certify
  BY <1>0, <1>13 DEF D!Certify
<1>14. CASE D!Fail
  BY <1>0, <1>14 DEF D!Fail, D!Pinned
<1>15. CASE D!Abort
  BY <1>0, <1>15 DEF D!Abort
<1>16. CASE D!StopForRestore
  BY <1>0, <1>16 DEF D!StopForRestore
<1>17. CASE D!Restore
  BY <1>0, <1>17 DEF D!Restore
<1>18. CASE D!PreviousAccepts
  BY <1>0, <1>18 DEF D!PreviousAccepts
<1>19. CASE D!Quarantine
  BY <1>0, <1>19 DEF D!Quarantine
<1>20. CASE D!RemoveForRollback
  BY <1>0, <1>20 DEF D!RemoveForRollback
<1>21. CASE D!RollBackUp
  BY <1>0, <1>21 DEF D!RollBackUp, D!ComposeUp
<1>22. CASE D!RolledBack
  BY <1>0, <1>22 DEF D!RolledBack, D!Serves
<1>23. CASE D!RollbackFails
  BY <1>0, <1>23 DEF D!RollbackFails
<1>24. CASE D!HostStop
  BY <1>0, <1>24 DEF D!HostStop
<1>25. CASE D!HostStart
  <2>1. PICK h \in host :
          /\ override' = h.override
          /\ \/ /\ service' = h.service /\ UNCHANGED outcome
                /\ IF h.service THEN D!ComposeUp(h.override) ELSE UNCHANGED D!containers
             \/ /\ service' = FALSE /\ UNCHANGED D!containers
                /\ outcome' = IF outcome = "rolled back" THEN "uncertified" ELSE outcome
    BY <1>25 DEF D!HostStart, D!Restored
  <2>2. UNCHANGED <<D!plan, schema, checkout, D!flags, D!records, soundBefore>>
        /\ step = "host stopped" /\ step' = "cleanup"
    BY <1>25 DEF D!HostStart
  <2> QED
    BY <1>0, <2>1, <2>2 DEF D!ComposeUp
<1>26. CASE D!Finish
  BY <1>0, <1>26, PruneKeeps DEF D!Finish
<1>27. CASE D!Killed
  BY <1>0, <1>27 DEF D!Killed
<1>28. CASE D!Reboot
  BY <1>0, <1>28 DEF D!Reboot, D!ComposeUp
<1>29. CASE D!HealthCheck
  BY <1>0, <1>29 DEF D!HealthCheck
<1>30. CASE D!Contender
  BY ZenonT(30), <1>0, <1>30, PruneKeeps DEF D!Contender
<1>31. CASE UNCHANGED D!vars
  BY ZenonT(30), <1>0, <1>31 DEF D!vars
<1> QED
  BY <1>1, <1>2, <1>3, <1>4, <1>5, <1>6, <1>7, <1>8, <1>9, <1>10, <1>11, <1>12,
     <1>13, <1>14, <1>15, <1>16, <1>17, <1>18, <1>19, <1>20, <1>21, <1>22, <1>23,
     <1>24, <1>25, <1>26, <1>27, <1>28, <1>29, <1>30, <1>31 DEF D!Next

\* Deployments keep their invariant, whoever fails, kills, restarts or reboots.
THEOREM DeploymentInvariance == Spec => []DeploymentInv
<1>1. Init => DeploymentInv
  BY MachinesStart, DeploymentStarts
<1>2. DeploymentInv /\ [Next]_vars => DeploymentInv'
  BY OneMachineSteps, DeploymentKept
<1> QED
  BY <1>1, <1>2, PTL DEF Spec

\* What a deployment certified can be relied on and undone: its backup is kept,
\* and release, override, checkout and schema agree again also after a rollback
\* (certify_deployment, prune_database_backups, rollback_previous_revision).
THEOREM DeploymentsAreRecoverable == Spec => []CertifiedIsRecoverable
<1>1. DeploymentInv => D!BackupsKept
  BY DEF DeploymentInv, BackupsFollow, Migrated, D!BackupsKept
<1>2. DeploymentInv => D!EndsInAgreement
  BY DEF DeploymentInv, InstallFollows, SoundFollows, D!EndsInAgreement
<1>3. DeploymentInv => CertifiedIsRecoverable
  BY <1>1, <1>2 DEF CertifiedIsRecoverable, D!CertifiedIsRecoverable
<1> QED
  BY <1>3, DeploymentInvariance, PTL

=============================================================================
