------------------------- MODULE MissionContinuity -------------------------
(***************************************************************************)
(* The mission controller of scripts/wfh_mission.py: durable checkpoints,  *)
(* the step journal, the resume guard and the GitHub mirror.               *)
(*                                                                         *)
(* Sessions are disposable agents that share one mission directory.  Every *)
(* command takes the mission lock, which the operating system releases     *)
(* when its holder dies; the mission state is edited by the sessions       *)
(* themselves, without the lock.  A step is one material action: its       *)
(* effect happens outside, between the journal's start and its completion. *)
(***************************************************************************)
EXTENDS Integers, Sequences, FiniteSets

CONSTANTS
    Sessions,    \* agent sessions working on the mission
    Steps,       \* the mission has the steps 1 .. Steps
    MaxFiles,    \* bound on checkpoints written
    MaxDrift     \* bound on changes of the repository from outside

Nobody == "nobody"

ContinuityAssumption ==
    /\ IsFiniteSet(Sessions) /\ Nobody \notin Sessions
    /\ {Steps, MaxFiles} \subseteq Nat \ {0}
    /\ MaxDrift \in Nat

VARIABLES
    phase,       \* [Sessions -> where the session is in its work]
    lock,        \* holder of .mission-control.lock
    mission,     \* MISSION_STATE.json: the next step and the revision it knows
    journal,     \* STEP_JOURNAL.json: the steps started and those completed
    revision,    \* the repository's real revision
    effects,     \* [1 .. Steps -> how often the step's effect happened]
    draft,       \* the checkpoint the lock's holder is building
    files,       \* checkpoints/CP-n.json, in order of n
    latest,      \* LATEST_CHECKPOINT.json: the checkpoint it names, 0: none
    published    \* the mission issue, its comments and the pointer issue

vars == <<phase, lock, mission, journal, revision, effects, draft, files,
          latest, published>>
work == <<mission, journal, revision, effects>>

Phases == {"idle", "ready", "check", "started", "acted", "completed", "edited",
           "working", "hash", "hash_working", "point", "point_working",
           "synced", "comment", "publish"}
Missions == [next : 1 .. Steps + 1, revision : 0 .. MaxDrift]
Journals == [started : SUBSET (1 .. Steps), completed : SUBSET (1 .. Steps)]
Checkpoints == [mission : Missions, journal : Journals,
                digests : [mission : Missions, journal : Journals]]
TypeOK ==
    /\ phase \in [Sessions -> Phases] /\ lock \in Sessions \cup {Nobody}
    /\ mission \in Missions /\ journal \in Journals
    /\ revision \in 0 .. MaxDrift /\ effects \in [1 .. Steps -> Nat]
    /\ draft \in [mission : Missions]
    /\ files \in Seq(Checkpoints) /\ Len(files) <= MaxFiles
    /\ latest \in 0 .. Len(files)
    /\ {published.body, published.pointer} \subseteq 0 .. Len(files)
    /\ published.comments \in Seq(1 .. Len(files))

InProgress(j) == j.started \ j.completed

(***************************************************************************)
(* Checkpoints                                                             *)
(***************************************************************************)
\* The digests of the durable state files stand for the files themselves.
StateFiles == [mission |-> mission, journal |-> journal]

\* The state is validated, then read; the journal and the digests follow.
LoadState(s) ==
    /\ phase[s] \in {"working", "edited"}
    /\ lock = Nobody
    /\ Len(files) < MaxFiles
    /\ lock' = s
    /\ draft' = [mission |-> mission]
    /\ phase' = [phase EXCEPT ![s] =
                    IF @ = "working" THEN "hash_working" ELSE "hash"]
    /\ UNCHANGED <<work, files, latest, published>>

WriteCheckpoint(s) ==
    /\ phase[s] \in {"hash", "hash_working"}
    /\ files' = Append(files, [mission |-> draft.mission, journal |-> journal,
                               digests |-> StateFiles])
    /\ phase' = [phase EXCEPT ![s] =
                    IF @ = "hash" THEN "point" ELSE "point_working"]
    /\ UNCHANGED <<lock, work, draft, latest, published>>

\* The pointer names the checkpoint just written; the projection for a human
\* reader follows and nothing reads it.
WritePointer(s) ==
    /\ phase[s] \in {"point", "point_working"}
    /\ latest' = Len(files)
    /\ lock' = Nobody
    /\ phase' = [phase EXCEPT ![s] =
                    IF @ = "point" THEN "synced" ELSE "started"]
    /\ UNCHANGED <<work, draft, files, published>>

\* The latest checkpoint can be loaded: there is one, and the pointer does not
\* lag behind the highest numbered file.
Loads == latest > 0 /\ latest = Len(files)

(***************************************************************************)
(* The step journal                                                        *)
(***************************************************************************)
\* Mutant: a step id may be started again.
MayStart_Again(step) == step \notin InProgress(journal)

MayStart(step) == step \notin journal.started

StepStart(s) ==
    /\ phase[s] \in {"ready", "synced"}
    /\ lock = Nobody
    /\ LET next == IF phase[s] = "ready" THEN files[latest].mission.next
                                         ELSE mission.next
       IN  IF next <= Steps /\ MayStart(next)
           THEN /\ journal' = [journal EXCEPT !.started = @ \cup {next}]
                /\ \E p \in {"working", "started"} :
                      phase' = [phase EXCEPT ![s] = p]
           ELSE phase' = [phase EXCEPT ![s] = "idle"] /\ UNCHANGED journal
    /\ UNCHANGED <<lock, mission, revision, effects, draft, files, latest,
                   published>>

\* The step itself: what it changes outside is not under the lock.
Act(s) ==
    /\ phase[s] = "started"
    /\ \E step \in InProgress(journal) :
          effects' = [effects EXCEPT ![step] = @ + 1]
    /\ phase' = [phase EXCEPT ![s] = "acted"]
    /\ UNCHANGED <<lock, mission, journal, revision, draft, files, latest,
                   published>>

StepComplete(s) ==
    /\ phase[s] = "acted"
    /\ lock = Nobody
    /\ journal' = [journal EXCEPT !.completed = journal.started]
    /\ phase' = [phase EXCEPT ![s] = "completed"]
    /\ UNCHANGED <<lock, mission, revision, effects, draft, files, latest,
                   published>>

\* The session records what it did: the next step, and the revision it sees.
EditState(s) ==
    /\ phase[s] = "completed"
    /\ mission' = [next |-> Cardinality(journal.completed) + 1,
                   revision |-> revision]
    /\ phase' = [phase EXCEPT ![s] = "edited"]
    /\ UNCHANGED <<lock, journal, revision, effects, draft, files, latest,
                   published>>

(***************************************************************************)
(* The resume guard                                                        *)
(***************************************************************************)
Interrupted(checkpoint) ==
    InProgress(journal) # {} \/ InProgress(checkpoint.journal) # {}
\* Mutant: the journal is not among the files compared.
StateFilesChanged_NoJournal(checkpoint) ==
    checkpoint.digests.mission # mission

StateFilesChanged(checkpoint) == checkpoint.digests # StateFiles
Drift(checkpoint) == checkpoint.mission.revision # revision

\* An observation or a capability may be unavailable, or a precondition unmet:
\* the session asks again.
Disposition ==
    IF ~Loads THEN "RESUME_BLOCKED"
    ELSE LET checkpoint == files[latest]
         IN  IF Interrupted(checkpoint) \/ StateFilesChanged(checkpoint)
             THEN "RECONCILIATION_REQUIRED"
             ELSE IF Drift(checkpoint) THEN "DRIFT_DETECTED"
             ELSE "RESUME_READY"

Resume(s) ==
    /\ phase[s] = "idle"
    /\ lock = Nobody
    /\ phase' = [phase EXCEPT ![s] =
                    IF Disposition = "RESUME_READY" THEN "ready" ELSE "check"]
    /\ UNCHANGED <<lock, work, draft, files, latest, published>>

\* A session that was not ready looks at what the interrupted one left, once
\* nobody else is in the middle of something.
Reconcile(s) ==
    /\ phase[s] = "check"
    /\ \A t \in Sessions \ {s} : phase[t] \in {"idle", "ready", "check"}
    /\ LET open == InProgress(journal)
           next == IF open = {} THEN "completed"
                   ELSE IF \E step \in open : effects[step] > 0 THEN "acted"
                   ELSE "started"
       IN  phase' = [phase EXCEPT ![s] = next]
    /\ UNCHANGED <<lock, work, draft, files, latest, published>>

(***************************************************************************)
(* The GitHub mirror: evidence first, the pointer issue last               *)
(***************************************************************************)
\* The body of the mission issue is replaced; it refuses when the latest
\* checkpoint does not load.
EditMissionIssue(s) ==
    /\ phase[s] = "synced"
    /\ lock = Nobody
    /\ Loads
    /\ lock' = s
    /\ published' = [published EXCEPT !.body = latest]
    /\ phase' = [phase EXCEPT ![s] = "comment"]
    /\ UNCHANGED <<work, draft, files, latest>>


AlreadyRecorded == \E i \in DOMAIN published.comments :
                      published.comments[i] = latest

Comment(s) ==
    /\ phase[s] = "comment"
    /\ published' = IF AlreadyRecorded THEN published
                    ELSE [published EXCEPT !.comments = Append(@, latest)]
    /\ phase' = [phase EXCEPT ![s] = "publish"]
    /\ UNCHANGED <<lock, work, draft, files, latest>>

EditPointerIssue(s) ==
    /\ phase[s] = "publish"
    /\ published' = [published EXCEPT !.pointer = latest]
    /\ lock' = Nobody
    /\ phase' = [phase EXCEPT ![s] = "synced"]
    /\ UNCHANGED <<work, draft, files, latest>>

\* A request fails, before or after GitHub has carried it out.
SyncFails(s) ==
    /\ phase[s] \in {"comment", "publish"}
    /\ lock' = Nobody
    /\ phase' = [phase EXCEPT ![s] = "synced"]
    /\ UNCHANGED <<work, draft, files, latest, published>>

(***************************************************************************)
Crash(s) ==
    /\ phase[s] # "idle"
    /\ phase' = [phase EXCEPT ![s] = "idle"]
    /\ lock' = IF lock = s THEN Nobody ELSE lock
    /\ UNCHANGED <<work, draft, files, latest, published>>

RevisionChanges ==
    /\ revision < MaxDrift
    /\ revision' = revision + 1
    /\ UNCHANGED <<phase, lock, mission, journal, effects, draft, files,
                   latest, published>>

Init ==
    /\ phase = [s \in Sessions |-> "idle"]
    /\ lock = Nobody
    /\ mission = [next |-> 1, revision |-> 0]
    /\ journal = [started |-> {}, completed |-> {}]
    /\ revision = 0
    /\ effects = [step \in 1 .. Steps |-> 0]
    /\ draft = [mission |-> mission]
    /\ files = <<[mission |-> mission, journal |-> journal,
                  digests |-> StateFiles]>>
    /\ latest = 1
    /\ published = [body |-> 0, comments |-> <<>>, pointer |-> 0]

Next ==
    \/ \E s \in Sessions :
          \/ LoadState(s) \/ WriteCheckpoint(s) \/ WritePointer(s)
          \/ StepStart(s) \/ Act(s) \/ StepComplete(s) \/ EditState(s)
          \/ Resume(s) \/ Reconcile(s)
          \/ EditMissionIssue(s) \/ Comment(s) \/ EditPointerIssue(s)
          \/ SyncFails(s) \/ Crash(s)
    \/ RevisionChanges

Spec == Init /\ [][Next]_vars

(***************************************************************************)
(* Properties                                                              *)
(***************************************************************************)
\* No step happens twice, whichever sessions die or resume at the same time.
StepsOnce == \A step \in DOMAIN effects : effects[step] <= 1

\* The pointer issue only names a checkpoint whose comment is recorded, and the
\* comments record each checkpoint at most once and in order.
PublishedIsRecorded ==
    /\ published.pointer > 0 =>
          \E i \in DOMAIN published.comments :
             published.comments[i] = published.pointer
    /\ \A i \in 1 .. Len(published.comments) - 1 :
          published.comments[i] < published.comments[i + 1]

\* Neither a step nor its publication happens twice (journal_step_start,
\* resume_guard, sync_github).
NothingRepeated == StepsOnce /\ PublishedIsRecorded

\* A session is told RESUME_READY only over settled work: whatever happened so
\* far, in whichever session, is completed in the journal and the checkpoint
\* it resumes from knows it.
SettledWhenReady ==
    \A s \in Sessions :
        phase[s] = "idle" /\ phase'[s] = "ready" =>
            {step \in 1 .. Steps : effects[step] > 0}
                \subseteq files[latest].journal.completed
ReadyIsSettled == [][SettledWhenReady]_vars

\* Sessions that crash, race and resume neither repeat work nor go on from a
\* state that does not know it.
MissionIsSafe == []NothingRepeated /\ ReadyIsSettled
=============================================================================
