----------------------------- MODULE Operations -----------------------------
(***************************************************************************)
(* What keeps the program running and changes it, as one specification:    *)
(* the watchdog, the migration commands, the deployment of releases and    *)
(* the mission controller of the people and agents who work on it.  Every  *)
(* behaviour is one of them while the others stay where they start.        *)
(***************************************************************************)
EXTENDS Integers

CONSTANTS
    Threshold, MaxCalls,        \* Watchdog
    Runners,                    \* SchemaMigration
    MaxReleases, Retention,     \* Deployment
    Sessions, Steps, MaxFiles, MaxDrift     \* MissionContinuity

VARIABLES machine,
    healthy, failures, wants, telling, state, told, lost, calls,
    shape, history, version, stage, rows, verdict,
    step, release, previous, bundle, image, running, schema, override,
    checkout, service, mutated, host, backups, certificate, outcome,
    soundBefore,
    phase, lock, mission, journal, revision, effects, draft, files, latest,
    published

W == INSTANCE Watchdog
M == INSTANCE SchemaMigration
D == INSTANCE Deployment
C == INSTANCE MissionContinuity

ASSUME OperationsAssumption ==
    /\ W!WatchdogAssumption /\ M!RunnersAssumption
    /\ D!DeploymentAssumption /\ C!ContinuityAssumption

watchdog == <<healthy, failures, wants, telling, state, told, lost, calls>>
migration == <<shape, history, version, stage, rows, verdict>>
deployment == <<step, release, previous, bundle, image, running, schema,
                override, checkout, service, mutated, host, backups,
                certificate, outcome, soundBefore>>
continuity == <<phase, lock, mission, journal, revision, effects, draft,
                files, latest, published>>
vars == <<machine, watchdog, migration, deployment, continuity>>

Init ==
    /\ machine \in {"watchdog", "migration", "deployment", "continuity"}
    /\ W!Init /\ M!Init /\ D!Init /\ C!Init
    /\ machine # "migration" => \A o \in M!Objects : shape[o] = "absent"
    /\ machine # "deployment" => service

Watches(A) == /\ machine = "watchdog" /\ A
              /\ UNCHANGED <<machine, migration, deployment, continuity>>
Migrates(A) == /\ machine = "migration" /\ A
               /\ UNCHANGED <<machine, watchdog, deployment, continuity>>
Deploys(A) == /\ machine = "deployment" /\ A
              /\ UNCHANGED <<machine, watchdog, migration, continuity>>
Continues(A) == /\ machine = "continuity" /\ A
                /\ UNCHANGED <<machine, watchdog, migration, deployment>>
Next == Watches(W!Next) \/ Migrates(M!Next) \/ Deploys(D!Next)
            \/ Continues(C!Next)

\* The fairness of the watchdog is the one its module states.
Fairness ==
    /\ WF_vars(Watches(W!Probe))
    /\ \A t \in W!Threads :
          SF_vars(Watches(W!Transition(t))) /\ WF_vars(Watches(W!Told(t)))
Spec == Init /\ [][Next]_vars /\ Fairness

\* The operator is told what the backend is (Watchdog).
EventuallyTold == machine = "watchdog" => W!EventuallyTold
\* A file a command leaves behind is never refused afterwards, and a drifted
\* file is never written (SchemaMigration).
MigrationsAreSafe == machine = "migration" => M!MigrationsAreSafe
\* A deployment that ends certified leaves everything in agreement, and the
\* backup its certificate names exists (Deployment).
CertifiedIsRecoverable == D!CertifiedIsRecoverable
\* Nothing runs in quarantine (Deployment).
QuarantineHolds == D!QuarantineHolds
\* No step and no publication of a mission happens twice, and it is resumed
\* only over settled work (MissionContinuity).
MissionIsSafe == C!MissionIsSafe
=============================================================================
