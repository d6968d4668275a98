------------------------- MODULE NotificationOutbox -------------------------
(***************************************************************************)
(* The durable notification outbox and the workers that drain it           *)
(* (core/notification_delivery.py), with the Telegram transport of         *)
(* canonical entry alerts (core/notifier.py, TelegramSignalTransport).     *)
(*                                                                         *)
(* A row is inserted with the decision it announces.  A worker's           *)
(* dispatch_once reads the clock ONCE and then runs recover, grace, claim, *)
(* deliver and complete, each in a thread or an await of its own, so every *)
(* step of one worker interleaves with the steps of the others and with    *)
(* the clock, and all of them use the timestamp read at the start.         *)
(*                                                                         *)
(* Several worker instances may run (a restarted process overlapping the   *)
(* old one); they may carry the same worker_id, which is what the row      *)
(* stores as its lease owner.                                              *)
(***************************************************************************)
EXTENDS Integers, FiniteSets

CONSTANTS
  Events,           \* outbox rows, numbered: event_id is the last sort key
  Workers,          \* running instances of DurableNotificationWorker
  WorkerId,         \* the worker_id each instance was configured with
  LeaseSeconds, MaxAttempts, BaseBackoff, MaxBackoff, AdvisoryWait,
  MaxEntryAge,      \* TelegramSignalTransport.max_entry_age_seconds
  CutoverAt,        \* TelegramSignalTransport.cutover_at
  RetryAfters,      \* retry_after values a 429 may carry
  InsertLag,        \* how long before its insert a decision was evaluated
  Horizon,          \* bound: the clock passes it only while a row awaits time
  MaxFaults         \* bound: crashes and database errors

ASSUME OutboxAssumption ==
  /\ Events \subseteq Nat
  /\ IsFiniteSet(Events)
  /\ LeaseSeconds \in Nat \ {0}
  /\ MaxAttempts \in Nat \ {0}
  /\ BaseBackoff \in Nat \ {0}
  /\ MaxBackoff \in Nat /\ MaxBackoff >= BaseBackoff
  /\ AdvisoryWait \in Nat
  /\ MaxEntryAge \in Nat \ {0}
  /\ CutoverAt \in Nat
  /\ RetryAfters \subseteq Int
  /\ InsertLag \in Nat
  /\ Horizon \in Nat
  /\ MaxFaults \in Nat

\* The worker_id of main.py: every process that runs the entry loop has it.
EntryWorkerId == [w \in Workers |-> "canonical-entry-telegram"]

VARIABLES
  clock,
  \* columns of the outbox table, one function per column
  status, attempt_count, available_at, lease_owner, lease_expires_at,
  event_at, created_at,
  advisory,         \* decisions that have a row in entry_decision_advisories
  \* local state of dispatch_once, per worker instance
  phase, timestamp, job, jobAttempt,
  \* the outside world, and the history of what a worker was told
  request,          \* fate of the HTTP request of each attempt of each event
  verdict,          \* the DeliveryResult dispatch_once got for each attempt
  faults

columns == <<status, attempt_count, available_at, lease_owner,
             lease_expires_at, event_at, created_at>>
local   == <<phase, timestamp, job, jobAttempt>>
vars    == <<clock, columns, advisory, local, request, verdict, faults>>

NoLease == -1       \* NULL in lease_expires_at
Nobody  == "nobody" \* NULL in lease_owner

Statuses == {"ABSENT", "PENDING", "SENDING", "RETRY_WAIT", "DELIVERED",
             "DEAD_LETTER", "DELIVERY_UNCERTAIN"}
Terminal == {"DELIVERED", "DEAD_LETTER", "DELIVERY_UNCERTAIN"}

Dispositions == {"DELIVERED", "RATE_LIMITED", "DELIVERY_UNCERTAIN",
                 "TRANSIENT_FAILURE", "PERMANENT_FAILURE"}
Retryable == {"TRANSIENT_FAILURE", "RATE_LIMITED"}

Phases == {"idle", "recover", "grace", "claim", "check", "send", "await",
           "complete", "down"}
Attempts == 1..MaxAttempts

\* phases in which a worker carries a claimed event in memory
Holding == {"check", "send", "await", "complete"}

-----------------------------------------------------------------------------
Init ==
  /\ clock = 0
  /\ status = [e \in Events |-> "ABSENT"]
  /\ attempt_count = [e \in Events |-> 0]
  /\ available_at = [e \in Events |-> 0]
  /\ lease_owner = [e \in Events |-> Nobody]
  /\ lease_expires_at = [e \in Events |-> NoLease]
  /\ event_at = [e \in Events |-> 0]
  /\ created_at = [e \in Events |-> 0]
  /\ advisory = {}
  /\ phase = [w \in Workers |-> "idle"]
  /\ timestamp = [w \in Workers |-> 0]
  /\ job = [w \in Workers |-> 0]
  /\ jobAttempt = [w \in Workers |-> 0]
  /\ request = [e \in Events |-> [a \in Attempts |-> "none"]]
  /\ verdict = [e \in Events |-> [a \in Attempts |-> "none"]]
  /\ faults = 0

(***************************************************************************)
(* Producers: the decision store and the AI advisory refresh.              *)
(***************************************************************************)

\* EntryDecisionStore.append_if_changed inserts the row: it is available from
\* the moment the decision was evaluated, and created_at is the insert's clock.
InsertOutbox(e) ==
  /\ status[e] = "ABSENT"
  /\ \E lag \in 0..InsertLag :
       /\ lag <= clock
       /\ event_at' = [event_at EXCEPT ![e] = clock - lag]
       /\ available_at' = [available_at EXCEPT ![e] = clock - lag]
  /\ created_at' = [created_at EXCEPT ![e] = clock]
  /\ status' = [status EXCEPT ![e] = "PENDING"]
  /\ UNCHANGED <<clock, attempt_count, lease_owner, lease_expires_at,
                 advisory, local, request, verdict, faults>>

AppendAdvisory(e) ==
  /\ status[e] # "ABSENT"
  /\ e \notin advisory
  /\ advisory' = advisory \cup {e}
  /\ UNCHANGED <<clock, columns, local, request, verdict, faults>>

(***************************************************************************)
(* dispatch_once, one action per thread call or await.                     *)
(***************************************************************************)

Goto(w, p) == phase' = [phase EXCEPT ![w] = p]

\* dispatch_once returns, raises or dies: its local variables are gone
Leave(w, p) ==
  /\ Goto(w, p)
  /\ timestamp' = [timestamp EXCEPT ![w] = 0]
  /\ job' = [job EXCEPT ![w] = 0]
  /\ jobAttempt' = [jobAttempt EXCEPT ![w] = 0]

Start(w) ==
  /\ phase[w] = "idle"
  /\ timestamp' = [timestamp EXCEPT ![w] = clock]
  /\ Goto(w, "recover")
  /\ UNCHANGED <<clock, columns, advisory, job, jobAttempt, request, verdict,
                 faults>>

\* Mutant: the recovery of expired leases is forgotten.
Expired_Never(now) == {e \in Events : status[e] = "SENDING" /\ now < 0}

Expired(now) == {e \in Events : /\ status[e] = "SENDING"
                                /\ lease_expires_at[e] # NoLease
                                /\ lease_expires_at[e] <= now}


RecoverExpiredLeases(w) ==
  /\ phase[w] = "recover"
  /\ LET expired == Expired(timestamp[w]) IN
       /\ status' = [e \in Events |-> IF e \in expired
                       THEN "DELIVERY_UNCERTAIN" ELSE status[e]]
       /\ lease_owner' = [e \in Events |-> IF e \in expired
                            THEN Nobody ELSE lease_owner[e]]
       /\ lease_expires_at' = [e \in Events |-> IF e \in expired
                                 THEN NoLease ELSE lease_expires_at[e]]
  /\ Goto(w, "grace")
  /\ UNCHANGED <<clock, attempt_count, available_at, event_at, created_at,
                 advisory, timestamp, job, jobAttempt, request, verdict, faults>>

\* ORDER BY available_at, created_at, event_id
Precedes(e, f) ==
  \/ available_at[e] < available_at[f]
  \/ /\ available_at[e] = available_at[f]
     /\ \/ created_at[e] < created_at[f]
        \/ created_at[e] = created_at[f] /\ e < f

IsFirst(e, S) == e \in S /\ \A f \in S \ {e} : Precedes(e, f)

\* Mutants: a claim also takes over leased rows, or rows left uncertain.
Waiting_TakesOver(now) ==
  {e \in Events : /\ status[e] \in {"PENDING", "RETRY_WAIT", "SENDING"}
                  /\ available_at[e] <= now}
Waiting_RetriesUncertain(now) ==
  {e \in Events : /\ status[e] \in {"PENDING", "RETRY_WAIT", "DELIVERY_UNCERTAIN"}
                  /\ available_at[e] <= now}

Waiting(now) == {e \in Events : /\ status[e] \in {"PENDING", "RETRY_WAIT"}
                                /\ available_at[e] <= now}

GraceElapsed(e, now) == created_at[e] + AdvisoryWait <= now

Unadvised(now) ==
  {e \in Waiting(now) : GraceElapsed(e, now) /\ e \notin advisory}

\* The fallback advisory of the first due row whose grace is over.  Any error
\* is logged and swallowed, so the advisory may not be written.
EnsureExpiredAdvisoryGrace(w) ==
  /\ phase[w] = "grace"
  /\ \/ UNCHANGED advisory
     \/ /\ AdvisoryWait > 0
        /\ \E e \in Events : /\ IsFirst(e, Unadvised(timestamp[w]))
                             /\ advisory' = advisory \cup {e}
  /\ Goto(w, "claim")
  /\ UNCHANGED <<clock, columns, timestamp, job, jobAttempt, request, verdict,
                 faults>>


Claimable(now) ==
  {e \in Waiting(now) : /\ lease_expires_at[e] <= now
                        /\ \/ AdvisoryWait = 0
                           \/ GraceElapsed(e, now)
                           \/ e \in advisory}


Claim(w, e) ==
  /\ status' = [status EXCEPT ![e] = "SENDING"]
  /\ attempt_count' = [attempt_count EXCEPT ![e] = @ + 1]
  /\ lease_owner' = [lease_owner EXCEPT ![e] = WorkerId[w]]
  /\ lease_expires_at' =
       [lease_expires_at EXCEPT ![e] = timestamp[w] + LeaseSeconds]
  /\ job' = [job EXCEPT ![w] = e]
  /\ jobAttempt' = [jobAttempt EXCEPT ![w] = attempt_count[e] + 1]
  /\ Goto(w, "check")
  /\ UNCHANGED <<available_at, event_at, created_at, timestamp>>

\* The table's CHECK(updated_at >= created_at) aborts a claim whose timestamp
\* was read before the row was inserted: DELIVERY_CLAIM_FAILED.
ClaimNext(w) ==
  /\ phase[w] = "claim"
  /\ LET due == Claimable(timestamp[w]) IN
       \/ /\ due = {}
          /\ Leave(w, "idle")
          /\ UNCHANGED columns
       \/ \E e \in Events :
            /\ IsFirst(e, due)
            /\ \/ timestamp[w] >= created_at[e] /\ Claim(w, e)
               \/ /\ timestamp[w] < created_at[e]
                  /\ Leave(w, "idle")
                  /\ UNCHANGED columns
  /\ UNCHANGED <<clock, advisory, request, verdict, faults>>

\* the DeliveryResult that ends transport.deliver
Told(w, d) ==
  /\ verdict' = [verdict EXCEPT ![job[w]][jobAttempt[w]] = d]
  /\ Goto(w, "complete")

Current(e) == event_at[e] <= clock /\ clock - event_at[e] <= MaxEntryAge

\* deliver up to the HTTP call.  An invalid payload is permanent, an unreadable
\* decision table transient.  A suppressed entry ends DELIVERED: a stale or
\* pre-cutover one always, and any entry may be (its plan has expired, its
\* packet or identity is not usable, its symbol has no decision).
CheckDeliverable(w) ==
  /\ phase[w] = "check"
  /\ \/ Told(w, "PERMANENT_FAILURE")
     \/ Told(w, "DELIVERED")
     \/ Current(job[w]) /\ Told(w, "TRANSIENT_FAILURE")
     \/ /\ Current(job[w]) /\ event_at[job[w]] >= CutoverAt
        /\ Goto(w, "send") /\ UNCHANGED verdict
  /\ UNCHANGED <<clock, columns, advisory, timestamp, job, jobAttempt,
                 request, faults>>

\* the POST leaves, or fails before anything was sent (ConnectTimeout,
\* PoolTimeout)
Send(w) ==
  /\ phase[w] = "send"
  /\ \/ /\ request' = [request EXCEPT ![job[w]][jobAttempt[w]] = "inflight"]
        /\ Goto(w, "await")
        /\ UNCHANGED verdict
     \/ Told(w, "TRANSIENT_FAILURE") /\ UNCHANGED request
  /\ UNCHANGED <<clock, columns, advisory, timestamp, job, jobAttempt, faults>>

\* Telegram handles a request that is on the wire, whoever still waits for it.
RemoteHandles(e, a, fate) ==
  /\ request[e][a] = "inflight"
  /\ request' = [request EXCEPT ![e][a] = fate]
  /\ UNCHANGED <<clock, columns, advisory, local, verdict, faults>>

\* what deliver makes of the response, or of its absence
Readings(fate) ==
  CASE fate = "accepted" -> {"DELIVERED", "TRANSIENT_FAILURE",
                             "DELIVERY_UNCERTAIN"}
    [] fate = "rejected" -> {"RATE_LIMITED", "PERMANENT_FAILURE",
                             "TRANSIENT_FAILURE", "DELIVERY_UNCERTAIN"}
    [] OTHER             -> {"TRANSIENT_FAILURE", "DELIVERY_UNCERTAIN"}

ReadResponse(w) ==
  /\ phase[w] = "await"
  /\ \E d \in Readings(request[job[w]][jobAttempt[w]]) : Told(w, d)
  /\ UNCHANGED <<clock, columns, advisory, timestamp, job, jobAttempt,
                 request, faults>>

\* asyncio.wait_for gives up on transport.deliver wherever it is
TransportTimeout(w) ==
  /\ phase[w] \in {"check", "send", "await"}
  /\ Told(w, "DELIVERY_UNCERTAIN")
  /\ UNCHANGED <<clock, columns, advisory, timestamp, job, jobAttempt,
                 request, faults>>

\* ceil(base * (1 + 0.2 * jitter)) for jitter in [0, 1]
Backoff(attempt) ==
  LET doubled == BaseBackoff * 2^(attempt - 1)
      base == IF doubled > MaxBackoff THEN MaxBackoff ELSE doubled
  IN  {d \in 1..(2 * MaxBackoff) : base <= d /\ 10 * d <= 12 * base + 9}

RateLimitDelay(retryAfter) ==
  LET atLeastOne == IF retryAfter < 1 THEN 1 ELSE retryAfter
  IN  IF atLeastOne > MaxBackoff THEN MaxBackoff ELSE atLeastOne

NextStates_RetryUncertain(d, attempt, now) ==
  CASE d = "DELIVERED" -> {<<d, now>>}
    [] d = "PERMANENT_FAILURE" \/ attempt >= MaxAttempts
         -> {<<"DEAD_LETTER", now>>}
    [] OTHER -> {<<"RETRY_WAIT", now + delay>> : delay \in Backoff(attempt)}

\* _next_state: the possible <<status, available_at>> for a result
NextStates(d, attempt, now) ==
  LET retries == d \in Retryable /\ attempt < MaxAttempts IN
  CASE d \in {"DELIVERED", "DELIVERY_UNCERTAIN"} -> {<<d, now>>}
    [] d = "PERMANENT_FAILURE" \/ (d \in Retryable /\ ~retries)
         -> {<<"DEAD_LETTER", now>>}
    [] d = "RATE_LIMITED" /\ retries
         -> {<<"RETRY_WAIT", now + RateLimitDelay(r)>> :
               r \in RetryAfters \cup {BaseBackoff}}
    [] d = "TRANSIENT_FAILURE" /\ retries
         -> {<<"RETRY_WAIT", now + delay>> : delay \in Backoff(attempt)}


\* the WHERE clause of _complete
HoldsLease(w) ==
  /\ status[job[w]] = "SENDING"
  /\ lease_owner[job[w]] = WorkerId[w]
  /\ attempt_count[job[w]] = jobAttempt[w]

\* _complete: when the row is no longer this claim's, the result is dropped
\* (DELIVERY_COMPLETION_CAS_FAILED).
Complete(w) ==
  /\ phase[w] = "complete"
  /\ LET e == job[w]
         d == verdict[e][jobAttempt[w]]
     IN \/ /\ HoldsLease(w)
           /\ \E next \in NextStates(d, jobAttempt[w], timestamp[w]) :
                /\ status' = [status EXCEPT ![e] = next[1]]
                /\ available_at' = [available_at EXCEPT ![e] = next[2]]
           /\ lease_owner' = [lease_owner EXCEPT ![e] = Nobody]
           /\ lease_expires_at' = [lease_expires_at EXCEPT ![e] = NoLease]
           /\ UNCHANGED <<attempt_count, event_at, created_at>>
        \/ ~HoldsLease(w) /\ UNCHANGED columns
  /\ Leave(w, "idle")
  /\ UNCHANGED <<clock, advisory, request, verdict, faults>>

(***************************************************************************)
(* Faults and time.                                                        *)
(***************************************************************************)

\* a database error in recover, claim or complete ends dispatch_once; the
\* loop logs it and starts again
DatabaseError(w) ==
  /\ phase[w] \in {"recover", "claim", "complete"}
  /\ faults < MaxFaults
  /\ faults' = faults + 1
  /\ Leave(w, "idle")
  /\ UNCHANGED <<clock, columns, advisory, request, verdict>>

\* the process dies, or the loop's task is cancelled at shutdown
Crash(w) ==
  /\ phase[w] # "down"
  /\ faults < MaxFaults
  /\ faults' = faults + 1
  /\ Leave(w, "down")
  /\ UNCHANGED <<clock, columns, advisory, request, verdict>>

Restart(w) ==
  /\ phase[w] = "down"
  /\ Goto(w, "idle")
  /\ UNCHANGED <<clock, columns, advisory, timestamp, job, jobAttempt,
                 request, verdict, faults>>

TimeAwaited ==
  \E e \in Events :
    \/ status[e] = "SENDING" /\ lease_expires_at[e] > clock
    \/ status[e] \in {"PENDING", "RETRY_WAIT"}
         /\ (available_at[e] > clock \/ ~GraceElapsed(e, clock))

Tick ==
  /\ clock < Horizon \/ TimeAwaited
  /\ clock' = clock + 1
  /\ UNCHANGED <<columns, advisory, local, request, verdict, faults>>

-----------------------------------------------------------------------------
WorkerStep(w) ==
  \/ Start(w) \/ RecoverExpiredLeases(w) \/ EnsureExpiredAdvisoryGrace(w)
  \/ ClaimNext(w) \/ CheckDeliverable(w) \/ Send(w) \/ ReadResponse(w)
  \/ TransportTimeout(w) \/ Complete(w) \/ Restart(w)

Next ==
  \/ Tick
  \/ \E e \in Events : InsertOutbox(e) \/ AppendAdvisory(e)
  \/ \E w \in Workers : WorkerStep(w) \/ DatabaseError(w) \/ Crash(w)
  \/ \E e \in Events, a \in Attempts, fate \in {"accepted", "rejected"} :
       RemoteHandles(e, a, fate)

Spec == Init /\ [][Next]_vars

\* The loop always runs dispatch_once again, wait_for ends every delivery, the
\* process supervisor restarts the process, and time passes.
Fairness == WF_vars(Tick) /\ \A w \in Workers : WF_vars(WorkerStep(w))

FairSpec == Spec /\ Fairness

-----------------------------------------------------------------------------
Fates == {"none", "inflight", "accepted", "rejected"}

TypeOK ==
  /\ clock \in Nat
  /\ status \in [Events -> Statuses]
  /\ attempt_count \in [Events -> 0..MaxAttempts]
  /\ available_at \in [Events -> Nat]
  /\ lease_owner \in [Events -> {WorkerId[w] : w \in Workers} \cup {Nobody}]
  /\ lease_expires_at \in [Events -> Nat \cup {NoLease}]
  /\ event_at \in [Events -> Nat]
  /\ created_at \in [Events -> Nat]
  /\ advisory \subseteq Events
  /\ phase \in [Workers -> Phases]
  /\ timestamp \in [Workers -> Nat]
  /\ job \in [Workers -> Events \cup {0}]
  /\ jobAttempt \in [Workers -> 0..MaxAttempts]
  /\ request \in [Events -> [Attempts -> Fates]]
  /\ verdict \in [Events -> [Attempts -> Dispositions \cup {"none"}]]
  /\ faults \in Nat

\* "SENDING: leased to one worker. Another worker cannot claim it."  No two
\* worker instances ever carry the same event, whatever leases expired and
\* even when both carry the same worker_id.
SoleHolder ==
  \A v, w \in Workers :
    v # w /\ phase[v] \in Holding /\ phase[w] \in Holding => job[v] # job[w]

\* A second request for an event leaves only when the transport had reported
\* the earlier attempt as failed: neither a crash, nor an expired lease, nor a
\* timeout whose request may already have been accepted causes a re-send.
ResendOnlyAfterReportedFailure ==
  \A e \in Events : \A a, b \in Attempts :
    a < b /\ request[e][b] # "none" =>
      verdict[e][a] \in {"TRANSIENT_FAILURE", "RATE_LIMITED"}

\* A recipient sees a second copy of an alert only if the transport had called
\* an accepted earlier copy a transient failure (a broken connection, a 5xx, an
\* unreadable 2xx).  Rate limits, crashes and leases never duplicate an alert.
DuplicateOnlyAfterMisreportedAcceptance ==
  \A e \in Events : \A a, b \in Attempts :
    a < b /\ request[e][a] = "accepted" /\ request[e][b] = "accepted" =>
      verdict[e][a] = "TRANSIENT_FAILURE"

\* A row waits for another attempt only while attempts are left: a row that
\* used them all is never left where a worker would skip or re-send it.
WaitingHasAttemptsLeft ==
  \A e \in Events :
    status[e] \in {"PENDING", "RETRY_WAIT"} => attempt_count[e] < MaxAttempts

(***************************************************************************)
(* The strengthening that makes the invariants above inductive.            *)
(***************************************************************************)
\* what a worker remembers of its claim is still true of the row, up to the
\* recovery of its lease by somebody else
HolderMatchesRow ==
  \A w \in Workers : phase[w] \in Holding =>
    /\ job[w] \in Events
    /\ jobAttempt[w] \in Attempts
    /\ jobAttempt[w] = attempt_count[job[w]]
    /\ status[job[w]] \in {"SENDING", "DELIVERY_UNCERTAIN"}
    /\ phase[w] = "complete" <=>
         verdict[job[w]][jobAttempt[w]] \in Dispositions

NothingBeyondLastAttempt ==
  \A e \in Events : \A a \in Attempts : a > attempt_count[e] =>
    request[e][a] = "none" /\ verdict[e][a] = "none"

EarlierAttemptsFailed ==
  \A e \in Events : \A a \in Attempts :
    \/ a < attempt_count[e]
    \/ a = attempt_count[e] /\ status[e] \in {"PENDING", "RETRY_WAIT"}
    => verdict[e][a] \in Retryable

RateLimitedWasRejected ==
  \A e \in Events : \A a \in Attempts :
    verdict[e][a] = "RATE_LIMITED" => request[e][a] = "rejected"

AbsentUntried == \A e \in Events : status[e] = "ABSENT" => attempt_count[e] = 0

IInv ==
  /\ TypeOK
  /\ SoleHolder
  /\ WaitingHasAttemptsLeft
  /\ HolderMatchesRow
  /\ NothingBeyondLastAttempt
  /\ EarlierAttemptsFailed
  /\ RateLimitedWasRejected
  /\ AbsentUntried

\* DELIVERED, DEAD_LETTER and DELIVERY_UNCERTAIN rows are never touched again:
\* not by the late answer of a worker whose lease was recovered, not by a claim.
TerminalIsFinal ==
  [][\A e \in Events : status[e] \in Terminal =>
       /\ status'[e] = status[e]
       /\ attempt_count'[e] = attempt_count[e]]_vars


(***************************************************************************)
(* Refinement of the abstract alert.                                       *)
(***************************************************************************)
Stage(s) ==
  CASE s = "ABSENT"                    -> "absent"
    [] s \in {"PENDING", "RETRY_WAIT"} -> "queued"
    [] s = "SENDING"                   -> "trying"
    [] s = "DELIVERED"                 -> "delivered"
    [] s = "DEAD_LETTER"               -> "failed"
    [] OTHER                           -> "uncertain"

Alert == INSTANCE AlertDelivery WITH
           Alerts <- Events, MaxTries <- MaxAttempts,
           stage <- [e \in Events |-> Stage(status[e])], tries <- attempt_count

\* The outbox with its workers, leases, faults and retries does only what
\* AlertDelivery allows: a bounded number of tries, settled once and for ever.
ImplementsAlertDelivery == Alert!Spec

\* Every inserted alert is eventually settled: no order of crashes, expired
\* leases, swallowed advisory failures or retries leaves it waiting for ever.
EventuallySettled ==
  \A e \in Events : status[e] = "PENDING" ~> status[e] \in Terminal
=============================================================================
