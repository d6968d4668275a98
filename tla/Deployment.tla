----------------------------- MODULE Deployment -----------------------------
(***************************************************************************)
(* deploy_production.sh: a release replaces the previous one step by step, *)
(* with a backup before the migration, and any failure from then on rolls  *)
(* back.  Around it: the once-a-minute health check, which restarts what   *)
(* it finds stopped, a second deployment that does not get the lock, and a *)
(* host that may kill the script or reboot between any two steps.          *)
(* The three application containers are one; releases are counted up.      *)
(***************************************************************************)
EXTENDS Integers, FiniteSets

CONSTANTS
    MaxReleases,      \* bound: deployments attempted
    Retention         \* WFH_DEPLOY_BACKUP_RETENTION_COUNT
DeploymentAssumption == MaxReleases \in Nat /\ Retention \in Nat \ {0}

Releases == 0..MaxReleases
None == -1
\* Every release brings two migrations, so one of them may be left half-way.
SchemaOf(r) == 2 * r
Schemas == 0..SchemaOf(MaxReleases)

VARIABLES
    step,          \* of the running deployment
    release,       \* the newest release attempted
    previous,      \* PREVIOUS_SHA
    bundle,        \* its image bundle is in incoming
    image,         \* release of the containers; None: removed
    running,
    schema,        \* of the database
    override,      \* release the production image override names
    checkout,
    service,       \* waterfallhunter.service is active, and its timer
    mutated,       \* MIGRATION_MAY_HAVE_MUTATED
    host,          \* the snapshot of the host once it has been changed
    backups,       \* of each backup kept, by release: the schema in it
    certificate,   \* last-successful-deploy.txt: the release; its backup has its name
    outcome,
    soundBefore    \* history: everything agreed when the deployment began

plan == <<release, bundle>>
containers == <<image, running>>
installed == <<override, checkout, service>>
flags == <<previous, mutated, host>>
records == <<backups, certificate>>
verdict == <<outcome, soundBefore>>
vars == <<step, plan, containers, schema, installed, flags, records, verdict>>

Pinned == {"pinned", "checked", "loaded", "backed up", "migrated", "removed",
           "up", "healthy", "promoted", "activated", "pruned"}
Places == Pinned \cup
         {"idle", "locked", "failing", "restoring", "restored", "accepted", "emptied", "back up",
          "host", "host stopped", "cleanup"}
TypeOK ==
    /\ step \in Places /\ release \in Releases /\ checkout \in Releases
    /\ previous \in Releases \cup {None} /\ image \in Releases \cup {None}
    /\ bundle \in BOOLEAN /\ running \in BOOLEAN /\ schema \in Schemas
    /\ override \in Releases /\ service \in BOOLEAN /\ mutated \in BOOLEAN
    /\ host \in SUBSET [override : Releases, service : BOOLEAN]
    /\ backups \in UNION {[rs -> Schemas] : rs \in SUBSET Releases}
    /\ certificate \in Releases
    /\ outcome \in {"none", "certified", "aborted", "rolled back", "uncertified", "quarantined"}
    /\ soundBefore \in BOOLEAN

Agree == image = override /\ checkout = override /\ schema = SchemaOf(override)
Init ==
    /\ step = "idle" /\ release = 0 /\ previous = None /\ bundle = FALSE
    /\ image = 0 /\ running = TRUE /\ schema = SchemaOf(0)
    /\ override = 0 /\ checkout = 0 /\ service \in BOOLEAN
    /\ mutated = FALSE /\ host = {}
    /\ backups = [r \in {0} |-> 0] /\ certificate = 0
    /\ outcome = "none" /\ soundBefore = TRUE

\* prune_database_backups: the newest ones, and the certified one.
Newest(rs) == {r \in rs : Cardinality({q \in rs : q > r}) < Retention}
\* Mutant.
Kept_NewestOnly(rs) == Newest(rs)
Kept(rs) == Newest(rs) \cup (rs \cap {certificate})
Prune == backups' = [r \in Kept(DOMAIN backups) |-> backups[r]]

Step(from, to) == step = from /\ step' = to

\* The wrapper stages the bundle; the script takes the lock.
Begin ==
    /\ release < MaxReleases /\ Step("idle", "locked")
    /\ release' = release + 1 /\ bundle' = TRUE
    /\ previous' = None /\ mutated' = FALSE /\ host' = {}
    /\ outcome' = "none" /\ soundBefore' = (Agree /\ running)
    /\ UNCHANGED <<containers, schema, installed, records>>
\* resolve_previous_revision and pin_previous_running_images: the previous
\* release is what the containers say, running or not.
Pin ==
    /\ step = "locked"
    /\ IF image # None
       THEN step' = "pinned" /\ previous' = image /\ UNCHANGED <<checkout, outcome>>
       ELSE /\ step' = "idle" /\ outcome' = "aborted"
            /\ checkout' = certificate /\ UNCHANGED previous
    /\ UNCHANGED <<plan, containers, schema, override, service, mutated, host, records, soundBefore>>
Checkout ==
    /\ Step("pinned", "checked") /\ checkout' = release
    /\ UNCHANGED <<plan, containers, schema, override, service, flags, records, verdict>>
Load ==
    /\ Step("checked", "loaded") /\ bundle
    /\ UNCHANGED <<plan, containers, schema, installed, flags, records, verdict>>
Backup ==
    /\ Step("loaded", "backed up")
    /\ backups' = [r \in DOMAIN backups \cup {release} |->
                     IF r = release THEN schema ELSE backups[r]]
    /\ UNCHANGED <<plan, containers, schema, installed, flags, certificate, verdict>>
\* The preflight of the new images, then their apply; what runs keeps running.
Migrate ==
    /\ step = "backed up" /\ schema <= SchemaOf(release)
    /\ \E reached \in schema..SchemaOf(release) :
        /\ schema' = reached
        /\ step' = IF reached = SchemaOf(release) THEN "migrated" ELSE "failing"
    /\ mutated' = TRUE
    /\ UNCHANGED <<plan, containers, installed, previous, host, records, verdict>>
Removed == image' = None /\ running' = FALSE
ComposeUp(r) == image' = r /\ running' = TRUE
Remove ==
    /\ Step("migrated", "removed") /\ Removed
    /\ UNCHANGED <<plan, schema, installed, flags, records, verdict>>
Up ==
    /\ Step("removed", "up") /\ ComposeUp(release)
    /\ UNCHANGED <<plan, schema, installed, flags, records, verdict>>
\* readyz answers, healthy containers, the right revision: a backend starts
\* only on the schema it was built for.
Serves(r) == image = r /\ running /\ schema = SchemaOf(r)
Healthy ==
    /\ Step("up", "healthy") /\ Serves(release)
    /\ UNCHANGED <<plan, containers, schema, installed, flags, records, verdict>>
\* snapshot_host_integration_state, promote_target_image_override, the units
\* and the site.
Promote ==
    /\ Step("healthy", "promoted")
    /\ host' = {[override |-> override, service |-> service]}
    /\ override' = release
    /\ UNCHANGED <<plan, containers, schema, checkout, service, previous, mutated, records, verdict>>
\* Starting a service that is active does nothing.
Activate ==
    /\ Step("promoted", "activated") /\ service' = TRUE
    /\ IF service THEN UNCHANGED containers ELSE ComposeUp(override)
    /\ UNCHANGED <<plan, schema, override, checkout, flags, records, verdict>>
CleanUp ==
    /\ Step("activated", "pruned") /\ Prune /\ bundle' = FALSE
    /\ UNCHANGED <<release, containers, schema, installed, flags, certificate, verdict>>
Certify ==
    /\ Step("pruned", "idle")
    /\ certificate' = release /\ outcome' = "certified"
    /\ UNCHANGED <<plan, containers, schema, installed, flags, backups, soundBefore>>

\* A command fails or a signal comes: terminate_with_cleanup.
Fail ==
    /\ step \in Pinned /\ step' = "failing"
    /\ UNCHANGED <<plan, containers, schema, installed, flags, records, verdict>>
\* Nothing has changed yet: the workspace goes back.
Abort ==
    /\ Step("failing", "cleanup") /\ ~mutated
    /\ checkout' = previous /\ outcome' = "aborted"
    /\ UNCHANGED <<plan, containers, schema, override, service, flags, records, soundBefore>>
\* restore_database_backup: stop, then copy the backup over the database.
StopForRestore ==
    /\ Step("failing", "restoring") /\ mutated /\ running' = FALSE
    /\ UNCHANGED <<plan, image, schema, installed, flags, records, verdict>>
Restore ==
    /\ Step("restoring", "restored") /\ release \in DOMAIN backups
    /\ schema' = backups[release]
    /\ UNCHANGED <<plan, containers, installed, flags, records, verdict>>
\* previous_revision_accepts_current_schema.
PreviousAccepts ==
    /\ Step("restored", "accepted") /\ schema <= SchemaOf(previous)
    /\ checkout' = previous
    /\ UNCHANGED <<plan, containers, schema, override, service, flags, records, verdict>>
\* The restore failed, or the previous release refuses what was restored.
Quarantine ==
    /\ step \in {"restoring", "restored"} /\ step' = "host"
    /\ running' = FALSE /\ checkout' = release /\ outcome' = "quarantined"
    /\ UNCHANGED <<plan, image, schema, override, service, flags, records, soundBefore>>
RemoveForRollback ==
    /\ Step("accepted", "emptied") /\ Removed
    /\ UNCHANGED <<plan, schema, installed, flags, records, verdict>>
RollBackUp ==
    /\ Step("emptied", "back up") /\ ComposeUp(previous)
    /\ UNCHANGED <<plan, schema, installed, flags, records, verdict>>
RolledBack ==
    /\ Step("back up", "host") /\ Serves(previous) /\ outcome' = "rolled back"
    /\ UNCHANGED <<plan, containers, schema, installed, flags, records, soundBefore>>
RollbackFails ==
    /\ step \in {"accepted", "emptied", "back up"} /\ step' = "host"
    /\ outcome' = "uncertified"
    /\ UNCHANGED <<plan, containers, schema, installed, flags, records, soundBefore>>
\* restore_host_integration_state, also after a quarantine: the service is
\* stopped, which stops the containers; the override goes back; what was
\* active before is started.
HostStop ==
    /\ step = "host"
    /\ IF host = {} THEN step' = "cleanup" /\ UNCHANGED <<running, service>>
       ELSE /\ step' = "host stopped" /\ service' = FALSE
            /\ running' = (running /\ ~service)
    /\ UNCHANGED <<plan, image, schema, override, checkout, flags, records, verdict>>
Restored(h) == h.override
HostStart ==
    /\ Step("host stopped", "cleanup")
    /\ \E h \in host :
        /\ override' = Restored(h)
        /\ \/ /\ service' = h.service /\ UNCHANGED outcome
              /\ IF h.service THEN ComposeUp(Restored(h)) ELSE UNCHANGED containers
           \/ /\ h.service /\ service' = FALSE /\ UNCHANGED containers
              /\ outcome' = IF outcome = "rolled back" THEN "uncertified" ELSE outcome
    /\ UNCHANGED <<plan, schema, checkout, flags, records, soundBefore>>
Finish ==
    /\ Step("cleanup", "idle") /\ Prune /\ bundle' = FALSE
    /\ UNCHANGED <<release, containers, schema, installed, flags, certificate, verdict>>

\* The script is killed; or the host reboots, and the service brings up what
\* the override names.
Killed ==
    /\ step # "idle" /\ step' = "idle" /\ outcome' = "none"
    /\ UNCHANGED <<plan, containers, schema, installed, flags, records, soundBefore>>
Reboot ==
    /\ service /\ ComposeUp(override)
    /\ step' = "idle" /\ outcome' = IF step = "idle" THEN outcome ELSE "none"
    /\ UNCHANGED <<plan, schema, installed, flags, records, soundBefore>>
\* healthcheck_simple.py: what is stopped, not what is gone, is restarted.
HealthCheck ==
    /\ service /\ image # None /\ ~running /\ running' = TRUE
    /\ UNCHANGED <<step, plan, image, schema, installed, flags, records, verdict>>
\* Another deployment fails to take the lock, and cleans up all the same.
Contender ==
    /\ step # "idle" /\ Prune /\ bundle' = FALSE
    /\ UNCHANGED <<step, release, containers, schema, installed, flags, certificate, verdict>>

Next ==
    \/ Begin \/ Pin \/ Checkout \/ Load \/ Backup \/ Migrate \/ Remove \/ Up \/ Healthy
    \/ Promote \/ Activate \/ CleanUp \/ Certify
    \/ Fail \/ Abort \/ StopForRestore \/ Restore \/ PreviousAccepts \/ Quarantine
    \/ RemoveForRollback \/ RollBackUp \/ RolledBack \/ RollbackFails
    \/ HostStop \/ HostStart \/ Finish
    \/ Killed \/ Reboot \/ HealthCheck \/ Contender

Spec == Init /\ [][Next]_vars

-----------------------------------------------------------------------------
(* Properties                                                              *)

\* The backup the newest certificate names is there, whatever failed, was
\* killed or ran beside; and so is the one a rollback under way will need
\* (prune_database_backups, the order of pruning and certifying).
BackupsKept ==
    /\ certificate \in DOMAIN backups
    /\ step \in {"migrated", "removed", "up", "healthy", "promoted", "activated", "pruned",
                 "restoring"} => release \in DOMAIN backups

\* A deployment that began with everything in agreement and certified its
\* success or its rollback leaves everything in agreement again: containers,
\* image override, checkout and schema are of one release, also when it
\* failed after the override was promoted, and they run if the service did
\* (rollback_previous_revision, restore_host_integration_state).
EndsInAgreement ==
    step = "idle" /\ soundBefore /\ outcome \in {"certified", "rolled back"} =>
        /\ Agree
        /\ service => running

\* What a deployment certified can be relied on and undone: both of the above
\* (certify_deployment, prune_database_backups).
CertifiedIsRecoverable == BackupsKept /\ EndsInAgreement

\* "otherwise the release containers remain quarantined": nothing runs after a
\* deployment that could not prove its rollback.
QuarantineHolds == step = "idle" /\ outcome = "quarantined" => ~running
=============================================================================
