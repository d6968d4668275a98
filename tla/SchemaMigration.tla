--------------------------- MODULE SchemaMigration ---------------------------
(***************************************************************************)
(* The migration command on one SQLite file: the read-only preflight, the  *)
(* runner that applies the packaged migrations one transaction each, and   *)
(* the postflight.  Commands may overlap, fail or be killed at any point,  *)
(* and be given again.  A table with its indexes, triggers and constraints *)
(* is one object: absent, sound or drifted from the schema contract.       *)
(***************************************************************************)
EXTENDS Integers, FiniteSets

CONSTANTS Runners        \* the migration commands that may overlap
RunnersAssumption == IsFiniteSet(Runners)

Latest == 10             \* CURRENT_RUNTIME_SCHEMA_VERSION
\* What each migration creates; the optional objects are the three tables an
\* early installation may lack.
Creates == <<{"probe"}, {"baseline", "optional"}, {"metadata"}, {"decisions"},
             {"shadow"}, {"entries"}, {"advisories"}, {"capture"},
             {"resolution"}, {"indexes"}>>
Objects == UNION {Creates[v] : v \in 1..Latest}
\* The indexes of version 10 belong to tables of earlier ones.
Tables == Objects \ {"probe", "indexes"}
Added == Tables \ {"baseline", "optional"}

NoHistory == -1          \* schema_migrations does not exist
Unread == -2
Stages == {"idle", "preflight", "schema", "bootstrap", "loop", "apply",
           "verify", "wal", "postflight", "outcome"}

VARIABLES
    shape,      \* of each object: absent, sound or drifted
    history,    \* the newest row of schema_migrations; 0: it is empty
    version,    \* PRAGMA user_version
    stage,      \* where each command is
    rows,       \* the history a command read, before it reads user_version
    verdict     \* how its newest run ended

database == <<shape, history, version>>
vars == <<database, stage, rows, verdict>>

TypeOK ==
    /\ shape \in [Objects -> {"absent", "sound", "drifted"}]
    /\ history \in {NoHistory} \cup 0..Latest /\ version \in 0..Latest
    /\ stage \in [Runners -> Stages]
    /\ rows \in [Runners -> {Unread} \cup 0..Latest]
    /\ verdict \in [Runners -> {"none", "ok", "refused", "failed", "disagrees"}]

\* A new file, or one an installation without migrations wrote.
Init ==
    /\ \E old, optional \in {"absent", "sound", "drifted"} :
        shape = [o \in Objects |-> IF o = "baseline" THEN old
                                   ELSE IF o = "optional" THEN optional
                                   ELSE "absent"]
    /\ history = NoHistory /\ version = 0
    /\ stage = [r \in Runners |-> "idle"]
    /\ rows = [r \in Runners |-> Unread]
    /\ verdict = [r \in Runners |-> "none"]

\* verify_managed_schema_connection over the required tables: what exists has
\* its columns, indexes, keys, checks and triggers; what is absent may be.
Absent(o) == shape[o] = "absent"
Sound(o) == shape[o] = "sound"
\* Mutant.
SchemaValid_NamesOnly(required, mayMiss, indexesMayMiss) ==
    /\ \A o \in required : Absent(o) => o \in mayMiss
    /\ indexesMayMiss \/ ~Absent("indexes")
SchemaValid(required, mayMiss, indexesMayMiss) ==
    /\ \A o \in required : IF Absent(o) THEN o \in mayMiss ELSE Sound(o)
    /\ indexesMayMiss \/ Sound("indexes")

\* The preflight of a file without history: nothing at all, or the baseline.
LegacyAccepted ==
    \/ \A o \in Objects : Absent(o)
    \/ /\ version = 0
       /\ SchemaValid(Tables, Added \cup {"optional"}, TRUE)
\* What the branch written for each prefix of the history lets be absent; the
\* one of version 2 asks for its own tables only.
\* Mutant: the newest table was not added to an older branch.
MayMiss_NewestForgotten(applied) ==
    UNION {Creates[v] : v \in (applied + 1)..(Latest - 1)}
        \ (IF applied = 7 THEN {"resolution"} ELSE {})
MayMiss(applied) ==
    <<Added \cup {"optional"}, {},
      Added \ {"metadata"}, Added \ {"metadata", "decisions"},
      {"entries", "advisories", "capture", "resolution"},
      {"advisories", "capture", "resolution"}, {"capture", "resolution"},
      {"resolution"}, {}, {}>>[applied]
PrefixAccepted(applied) ==
    \/ applied = 1 /\ \A o \in Tables : Absent(o)
    \/ applied = 2 /\ SchemaValid({"baseline", "optional"}, {}, TRUE)
    \/ applied # 2 /\ SchemaValid(Tables, MayMiss(applied), applied < Latest)
\* _classify_migrated: version 1 brings the probe table, and the version must
\* still be the one the history told.
MigratedAccepted(applied) ==
    applied # 0 /\ ~Absent("probe") /\ version = applied /\ PrefixAccepted(applied)

\* What a backend that starts asks of its file.
RuntimeAccepts == SchemaValid(Tables, {}, FALSE) /\ version = Latest

Go(r, to) == stage' = [stage EXCEPT ![r] = to]
End(r, how) == Go(r, "idle") /\ verdict' = [verdict EXCEPT ![r] = how]
Keep == UNCHANGED <<database, verdict>>

\* classify_database: which way depends on whether there is a history.
Start(r) ==
    /\ stage[r] = "idle"
    /\ IF history # NoHistory THEN Go(r, "preflight") /\ UNCHANGED verdict
       ELSE IF LegacyAccepted THEN Go(r, "bootstrap") /\ UNCHANGED verdict
       ELSE End(r, "refused")
    /\ UNCHANGED <<database, rows>>

\* _verify_state outside a transaction: two statements, and another command
\* may commit between them.
Reading(r) == stage[r] \in {"preflight", "loop", "verify", "postflight"}
ReadRows(r) ==
    /\ Reading(r) /\ rows[r] = Unread
    /\ rows' = [rows EXCEPT ![r] = history]
    /\ Keep /\ UNCHANGED stage
Agreed(r) ==
    IF stage[r] = "loop" THEN IF rows[r] = Latest THEN "verify" ELSE "apply"
    ELSE IF stage[r] = "verify" THEN "wal"
    ELSE IF stage[r] = "preflight" THEN "schema" ELSE "outcome"
ReadVersion(r) ==
    /\ Reading(r) /\ rows[r] # Unread
    /\ IF version = rows[r]
       THEN /\ Go(r, Agreed(r)) /\ UNCHANGED verdict
            /\ rows' = [rows EXCEPT ![r] = IF Agreed(r) \in {"verify", "wal"} THEN Unread ELSE @]
       ELSE End(r, "disagrees") /\ rows' = [rows EXCEPT ![r] = Unread]
    /\ UNCHANGED database

\* The second handle of the preflight and of the postflight.
CheckSchema(r) ==
    /\ stage[r] = "schema"
    /\ IF MigratedAccepted(rows[r]) THEN Go(r, "bootstrap") /\ UNCHANGED verdict
       ELSE End(r, "refused")
    /\ rows' = [rows EXCEPT ![r] = Unread]
    /\ UNCHANGED database
Outcome(r) ==
    /\ stage[r] = "outcome"
    /\ End(r, IF MigratedAccepted(rows[r]) /\ rows[r] = Latest THEN "ok" ELSE "failed")
    /\ rows' = [rows EXCEPT ![r] = Unread]
    /\ UNCHANGED database

\* _bootstrap_history, one transaction: the table and its two triggers.
Bootstrap(r) ==
    /\ stage[r] = "bootstrap"
    /\ history' = IF history = NoHistory THEN 0 ELSE history
    /\ Go(r, "loop") /\ UNCHANGED <<shape, version, rows, verdict>>

\* _apply_one, one transaction: the state is verified again under the lock.
Clashes(v) == v # 2 /\ \E o \in Creates[v] : ~Absent(o)
ApplyOne(r) ==
    LET v == rows[r] + 1 IN
    /\ stage[r] = "apply"
    /\ \/ v <= history /\ Go(r, "loop") /\ UNCHANGED <<database, verdict>>
       \/ /\ v = history + 1 /\ history = version /\ ~Clashes(v)
          /\ shape' = [o \in Objects |-> IF o \in Creates[v] /\ Absent(o) THEN "sound" ELSE shape[o]]
          /\ history' = v /\ version' = v
          /\ Go(r, "loop") /\ UNCHANGED verdict
       \/ /\ v = history + 1 /\ (history # version \/ Clashes(v))
          /\ End(r, "failed") /\ UNCHANGED database
    /\ rows' = [rows EXCEPT ![r] = Unread]

\* _set_wal_mode.
SetWal(r) ==
    /\ stage[r] = "wal" /\ Go(r, "postflight")
    /\ UNCHANGED <<database, rows, verdict>>

\* A locked file, a full disk: the transaction is rolled back and the command
\* reports it.  Or the command is killed, and reports nothing.
Fails(r) ==
    /\ stage[r] # "idle"
    /\ \E how \in {"failed", verdict[r]} : End(r, how)
    /\ rows' = [rows EXCEPT ![r] = Unread]
    /\ UNCHANGED database

Next ==
    \E r \in Runners :
        \/ Start(r) \/ ReadRows(r) \/ ReadVersion(r) \/ CheckSchema(r)
        \/ Bootstrap(r) \/ ApplyOne(r) \/ SetWal(r) \/ Outcome(r) \/ Fails(r)

Spec == Init /\ [][Next]_vars

-----------------------------------------------------------------------------
(* Properties                                                              *)

\* Wherever a command ends or is killed, and however commands overlap, the
\* next one is not refused and can go on: the branch the preflight keeps for
\* the prefix accepts what the migrations up to there leave behind, for a new
\* file and for one of an old installation, and nothing the next migration
\* creates is there already.  The one state that is refused for ever is an
\* empty history: a command that ended between the bootstrap and the first
\* migration (_applied_runtime_schema_valid, _classify_migrated, _apply_one).
NeverStranded ==
    history > 0 =>
        /\ MigratedAccepted(history)
        /\ history < Latest => ~Clashes(history + 1)
        /\ history = Latest => RuntimeAccepts

\* A file with an object that is not what the schema contract says is never
\* written, also when a command overlaps another (classify_database).
DriftNeverAdopted ==
    (\E o \in Objects : shape[o] = "drifted") => history = NoHistory /\ version = 0

\* Commands that fail, are killed or overlap leave every file either as it was
\* or where a later command can go on.
MigrationsAreSafe == NeverStranded /\ DriftNeverAdopted

=============================================================================
