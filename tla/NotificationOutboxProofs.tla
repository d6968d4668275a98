---------------------- MODULE NotificationOutboxProofs ----------------------
(***************************************************************************)
(* Proofs about NotificationOutbox, for any number of events and worker    *)
(* instances, any assignment of worker ids and any timing constants.       *)
(***************************************************************************)
EXTENDS NotificationOutbox, TLAPS

\* _next_state sends a row back to RETRY_WAIT only after a retryable result and
\* with attempts left.
LEMMA NextStatesShape ==
  ASSUME NEW d \in Dispositions, NEW attempt \in Attempts, NEW now \in Nat,
         NEW next \in NextStates(d, attempt, now)
  PROVE  /\ next[1] \in Statuses /\ next[1] # "ABSENT"
         /\ next[1] \notin {"PENDING", "SENDING"}
         /\ next[2] \in Nat
         /\ next[1] = "RETRY_WAIT" => d \in Retryable /\ attempt < MaxAttempts
<1> USE OutboxAssumption DEF Statuses, Retryable, Attempts
<1>1. CASE d \in {"DELIVERED", "DELIVERY_UNCERTAIN"}
  BY <1>1 DEF NextStates
<1>2. CASE \/ d = "PERMANENT_FAILURE"
           \/ d \in Retryable /\ attempt >= MaxAttempts
  BY <1>2 DEF NextStates
<1>3. CASE d = "RATE_LIMITED" /\ attempt < MaxAttempts
  <2>1. PICK r \in RetryAfters \cup {BaseBackoff} :
               next = <<"RETRY_WAIT", now + RateLimitDelay(r)>>
    BY <1>3 DEF NextStates
  <2>2. RateLimitDelay(r) \in Nat
    BY <2>1 DEF RateLimitDelay
  <2> QED
    BY <1>3, <2>1, <2>2
<1>4. CASE d = "TRANSIENT_FAILURE" /\ attempt < MaxAttempts
  <2>1. PICK delay \in Backoff(attempt) : next = <<"RETRY_WAIT", now + delay>>
    BY <1>4 DEF NextStates
  <2>2. delay \in Nat
    BY <2>1 DEF Backoff
  <2> QED
    BY <1>4, <2>1, <2>2
<1> QED
  BY <1>1, <1>2, <1>3, <1>4 DEF Dispositions

LEMMA InitIInv == Init => IInv
  BY OutboxAssumption
  DEF Init, IInv, TypeOK, SoleHolder, WaitingHasAttemptsLeft, HolderMatchesRow,
      NothingBeyondLastAttempt, EarlierAttemptsFailed, RateLimitedWasRejected,
      AbsentUntried, Holding, Statuses, Phases, Fates, Attempts, Retryable

\* What a worker in the middle of a delivery may rely on.
LEMMA HolderFacts ==
  ASSUME IInv, NEW w \in Workers, phase[w] \in Holding
  PROVE  /\ job[w] \in Events
         /\ jobAttempt[w] \in Attempts
         /\ jobAttempt[w] = attempt_count[job[w]]
         /\ status[job[w]] \in {"SENDING", "DELIVERY_UNCERTAIN"}
         /\ phase[w] = "complete" <=>
              verdict[job[w]][jobAttempt[w]] \in Dispositions
BY DEF IInv, HolderMatchesRow

\* The answer of the transport changes one verdict and moves one worker.
LEMMA ToldTypes ==
  ASSUME TypeOK, NEW w \in Workers, job[w] \in Events, jobAttempt[w] \in Attempts,
         NEW d \in Dispositions, Told(w, d)
  PROVE  /\ verdict' \in [Events -> [Attempts -> Dispositions \cup {"none"}]]
         /\ phase' \in [Workers -> Phases]
<1> DEFINE row == [verdict[job[w]] EXCEPT ![jobAttempt[w]] = d]
<1>1. verdict \in [Events -> [Attempts -> Dispositions \cup {"none"}]]
      /\ phase \in [Workers -> Phases]
  BY DEF TypeOK
<1>2. row \in [Attempts -> Dispositions \cup {"none"}]
  BY <1>1
<1>3. verdict' = [verdict EXCEPT ![job[w]] = row]
  BY DEF Told
<1>4. "complete" \in Phases
  BY DEF Phases
<1> QED
  BY <1>1, <1>2, <1>3, <1>4 DEF Told, Goto

\* Type correctness is preserved by every step.
LEMMA TypeStep == IInv /\ [Next]_vars => TypeOK'
<1> SUFFICES ASSUME IInv, [Next]_vars PROVE TypeOK'
  OBVIOUS
<1> USE OutboxAssumption DEF IInv, TypeOK
<1>1. CASE UNCHANGED vars
  BY <1>1 DEF vars, columns, local
<1>2. CASE Tick
  BY <1>2 DEF Tick, columns, local
<1>3. ASSUME NEW e \in Events, InsertOutbox(e) PROVE TypeOK'
  BY <1>3 DEF InsertOutbox, local, Statuses
<1>4. ASSUME NEW e \in Events, AppendAdvisory(e) PROVE TypeOK'
  BY <1>4 DEF AppendAdvisory, columns, local
<1>5. ASSUME NEW w \in Workers, Start(w) PROVE TypeOK'
  BY <1>5 DEF Start, Goto, columns, Phases
<1>6. ASSUME NEW w \in Workers, RecoverExpiredLeases(w) PROVE TypeOK'
  BY <1>6 DEF RecoverExpiredLeases, Goto, Phases, Statuses
<1>7. ASSUME NEW w \in Workers, EnsureExpiredAdvisoryGrace(w) PROVE TypeOK'
  BY <1>7 DEF EnsureExpiredAdvisoryGrace, Goto, columns, Phases
<1>8. ASSUME NEW w \in Workers, ClaimNext(w) PROVE TypeOK'
  <2>1. CASE UNCHANGED columns /\ Leave(w, "idle")
    BY <1>8, <2>1 DEF ClaimNext, Leave, Goto, columns, Phases
  <2>2. ASSUME NEW e \in Events, IsFirst(e, Claimable(timestamp[w])), Claim(w, e)
        PROVE TypeOK'
    <3>1. attempt_count[e] < MaxAttempts
      BY <2>2 DEF IsFirst, Claimable, Waiting, WaitingHasAttemptsLeft
    <3>2. attempt_count[e] + 1 \in Attempts /\ attempt_count[e] + 1 \in 0..MaxAttempts
      BY <3>1 DEF Attempts
    <3>3. /\ status' \in [Events -> Statuses]
          /\ attempt_count' \in [Events -> 0..MaxAttempts]
          /\ phase' \in [Workers -> Phases]
      BY <2>2, <3>2 DEF Claim, Goto, Statuses, Phases
    <3>4. /\ lease_owner' \in [Events -> {WorkerId[v] : v \in Workers} \cup {Nobody}]
          /\ lease_expires_at' \in [Events -> Nat \cup {NoLease}]
      BY <2>2 DEF Claim
    <3>5. /\ job' \in [Workers -> Events \cup {0}]
          /\ jobAttempt' \in [Workers -> 0..MaxAttempts]
      BY <2>2, <3>2 DEF Claim
    <3> QED
      BY <1>8, <2>2, <3>3, <3>4, <3>5 DEF ClaimNext, Claim
  <2> QED
    BY <1>8, <2>1, <2>2 DEF ClaimNext
<1>9. ASSUME NEW w \in Workers,
             \/ CheckDeliverable(w) \/ Send(w)
             \/ ReadResponse(w) \/ TransportTimeout(w)
      PROVE TypeOK'
  <2>1. /\ phase[w] \in {"check", "send", "await"}
        /\ UNCHANGED <<clock, columns, advisory, timestamp, job, jobAttempt,
                       faults>>
    BY <1>9 DEF CheckDeliverable, Send, ReadResponse, TransportTimeout
  <2>2. job[w] \in Events /\ jobAttempt[w] \in Attempts
    BY <2>1, HolderFacts DEF Holding
  <2>3. \/ \E d \in Dispositions : Told(w, d)
        \/ \E p \in Phases : Goto(w, p) /\ UNCHANGED verdict
    BY <1>9 DEF CheckDeliverable, Send, ReadResponse, TransportTimeout, Readings,
                Dispositions, Phases
  <2>4. /\ verdict' \in [Events -> [Attempts -> Dispositions \cup {"none"}]]
        /\ phase' \in [Workers -> Phases]
    <3>1. CASE \E d \in Dispositions : Told(w, d)
      BY <2>2, <3>1, ToldTypes DEF IInv
    <3>2. CASE \E p \in Phases : Goto(w, p) /\ UNCHANGED verdict
      BY <3>2 DEF Goto, IInv, TypeOK
    <3> QED
      BY <2>3, <3>1, <3>2
  <2>5. request' \in [Events -> [Attempts -> Fates]]
    <3>1. CASE UNCHANGED request
      BY <3>1 DEF IInv, TypeOK
    <3>2. CASE request' = [request EXCEPT ![job[w]][jobAttempt[w]] = "inflight"]
      <4>1. [request[job[w]] EXCEPT ![jobAttempt[w]] = "inflight"]
              \in [Attempts -> Fates]
        BY <2>2 DEF IInv, TypeOK, Fates
      <4> QED
        BY <2>2, <3>2, <4>1 DEF IInv, TypeOK
    <3> QED
      BY <1>9, <3>1, <3>2 DEF CheckDeliverable, Send, ReadResponse,
                              TransportTimeout
  <2> QED
    BY <2>1, <2>4, <2>5 DEF IInv, TypeOK, columns
<1>10. ASSUME NEW w \in Workers, Complete(w) PROVE TypeOK'
  <2> DEFINE e == job[w]
  <2>1. /\ phase[w] = "complete"
        /\ Leave(w, "idle")
        /\ UNCHANGED <<clock, advisory, request, verdict, faults>>
    BY <1>10 DEF Complete
  <2>2. e \in Events /\ jobAttempt[w] \in Attempts
        /\ verdict[e][jobAttempt[w]] \in Dispositions
    BY <2>1, HolderFacts DEF Holding
  <2>3. CASE UNCHANGED columns
    BY <2>1, <2>3 DEF Leave, Goto, columns, Phases
  <2>4. CASE HoldsLease(w)
    <3>1. PICK next \in NextStates(verdict[e][jobAttempt[w]], jobAttempt[w],
                                   timestamp[w]) :
             /\ status' = [status EXCEPT ![e] = next[1]]
             /\ available_at' = [available_at EXCEPT ![e] = next[2]]
      BY <1>10, <2>4 DEF Complete
    <3>2. next[1] \in Statuses /\ next[2] \in Nat
      BY <2>2, NextStatesShape
    <3>3. /\ lease_owner' = [lease_owner EXCEPT ![e] = Nobody]
          /\ lease_expires_at' = [lease_expires_at EXCEPT ![e] = NoLease]
          /\ UNCHANGED <<attempt_count, event_at, created_at>>
      BY <1>10, <2>4 DEF Complete
    <3> QED
      BY <2>1, <2>2, <3>1, <3>2, <3>3 DEF Leave, Goto, Phases
  <2> QED
    BY <1>10, <2>3, <2>4 DEF Complete
<1>11. ASSUME NEW w \in Workers,
              Restart(w) \/ DatabaseError(w) \/ Crash(w) PROVE TypeOK'
  <2>1. CASE Restart(w)
    BY <2>1 DEF Restart, Goto, columns, Phases
  <2>2. CASE DatabaseError(w) \/ Crash(w)
    <3>1. \E p \in Phases : Leave(w, p)
      BY <2>2 DEF DatabaseError, Crash, Phases
    <3>2. /\ phase' \in [Workers -> Phases]
          /\ timestamp' \in [Workers -> Nat]
          /\ job' \in [Workers -> Events \cup {0}]
          /\ jobAttempt' \in [Workers -> 0..MaxAttempts]
      BY <3>1 DEF Leave, Goto
    <3>3. /\ faults' = faults + 1
          /\ UNCHANGED <<clock, columns, advisory, request, verdict>>
      BY <2>2 DEF DatabaseError, Crash
    <3> QED
      BY <3>2, <3>3 DEF columns
  <2> QED
    BY <1>11, <2>1, <2>2
<1>12. ASSUME NEW e \in Events, NEW a \in Attempts,
              NEW fate \in {"accepted", "rejected"}, RemoteHandles(e, a, fate)
       PROVE TypeOK'
  <2>1. [request[e] EXCEPT ![a] = fate] \in [Attempts -> Fates]
    BY DEF Fates
  <2> QED
    BY <1>12, <2>1 DEF RemoteHandles, columns, local
<1> HIDE DEF IInv, TypeOK
<1>13. ASSUME NEW w \in Workers, WorkerStep(w) PROVE TypeOK'
  BY <1>5, <1>6, <1>7, <1>8, <1>9, <1>10, <1>11, <1>13 DEF WorkerStep
<1> QED
  BY <1>1, <1>2, <1>3, <1>4, <1>11, <1>12, <1>13 DEF Next
(***************************************************************************)
(* The rest of the inductive invariant, in two parts: what workers know    *)
(* about rows, and what the rows' histories show.                          *)
(***************************************************************************)
HolderInv == SoleHolder /\ HolderMatchesRow

RowInv == /\ WaitingHasAttemptsLeft
          /\ NothingBeyondLastAttempt
          /\ EarlierAttemptsFailed
          /\ RateLimitedWasRejected
          /\ AbsentUntried

LEMMA IInvParts == IInv <=> TypeOK /\ HolderInv /\ RowInv
BY DEF IInv, HolderInv, RowInv

LEMMA RowFrame ==
  ASSUME RowInv, UNCHANGED <<status, attempt_count, request, verdict>>
  PROVE  RowInv'
BY DEF RowInv, WaitingHasAttemptsLeft, NothingBeyondLastAttempt,
       EarlierAttemptsFailed, RateLimitedWasRejected, AbsentUntried

\* A worker that carries no claim cannot disturb what the others know.
LEMMA HolderFrame ==
  ASSUME HolderInv, UNCHANGED <<status, attempt_count, verdict>>,
         NEW w \in Workers, phase'[w] \notin Holding,
         \A v \in Workers \ {w} : /\ phase'[v] = phase[v]
                                  /\ job'[v] = job[v]
                                  /\ jobAttempt'[v] = jobAttempt[v]
  PROVE  HolderInv'
<1>1. SoleHolder'
  BY DEF HolderInv, SoleHolder
<1>2. HolderMatchesRow'
  BY DEF HolderInv, HolderMatchesRow
<1> QED
  BY <1>1, <1>2 DEF HolderInv

\* The steps of a worker that holds nothing afterwards and changes no row.
LEMMA QuietStep ==
  ASSUME IInv, NEW w \in Workers, NEW p \in Phases \ Holding,
         \/ Leave(w, p)
         \/ Goto(w, p) /\ UNCHANGED <<job, jobAttempt>>,
         UNCHANGED <<status, attempt_count, request, verdict>>
  PROVE  HolderInv' /\ RowInv'
<1>1. phase \in [Workers -> Phases]
      /\ job \in [Workers -> Events \cup {0}]
      /\ jobAttempt \in [Workers -> 0..MaxAttempts]
  BY DEF IInv, TypeOK
<1>2. phase'[w] = p /\ \A v \in Workers \ {w} : phase'[v] = phase[v]
  BY <1>1 DEF Leave, Goto
<1>3. \A v \in Workers \ {w} : /\ job'[v] = job[v]
                               /\ jobAttempt'[v] = jobAttempt[v]
  BY <1>1 DEF Leave
<1>4. HolderInv'
  BY <1>2, <1>3, IInvParts, HolderFrame
<1>5. RowInv'
  BY IInvParts, RowFrame
<1> QED
  BY <1>4, <1>5

LEMMA InsertStep ==
  ASSUME IInv, NEW e \in Events, InsertOutbox(e)
  PROVE  HolderInv' /\ RowInv'
<1>1. /\ status[e] = "ABSENT" /\ status' = [status EXCEPT ![e] = "PENDING"]
      /\ UNCHANGED <<attempt_count, phase, job, jobAttempt, request, verdict>>
  BY DEF InsertOutbox, local
<1>2. status \in [Events -> Statuses] /\ attempt_count \in [Events -> 0..MaxAttempts]
  BY DEF IInv, TypeOK
<1>3. HolderInv'
  BY <1>1, <1>2 DEF IInv, HolderInv, SoleHolder, HolderMatchesRow
<1>4. attempt_count[e] = 0
  BY <1>1 DEF IInv, AbsentUntried
<1>5. RowInv'
  BY <1>1, <1>2, <1>4, OutboxAssumption
  DEF IInv, RowInv, WaitingHasAttemptsLeft, NothingBeyondLastAttempt,
      EarlierAttemptsFailed, RateLimitedWasRejected, AbsentUntried, Attempts
<1> QED
  BY <1>3, <1>5

LEMMA RecoverStep ==
  ASSUME IInv, NEW w \in Workers, RecoverExpiredLeases(w)
  PROVE  HolderInv' /\ RowInv'
<1>1. /\ phase[w] = "recover" /\ phase' = [phase EXCEPT ![w] = "grace"]
      /\ UNCHANGED <<attempt_count, job, jobAttempt, request, verdict>>
  BY DEF RecoverExpiredLeases, Goto
<1>2. /\ phase \in [Workers -> Phases] /\ status \in [Events -> Statuses]
  BY DEF IInv, TypeOK
<1>3. \A e \in Events : \/ status'[e] = status[e]
                        \/ status[e] = "SENDING" /\ status'[e] = "DELIVERY_UNCERTAIN"
  BY DEF RecoverExpiredLeases, Expired
<1>4. SoleHolder'
  BY <1>1, <1>2 DEF IInv, SoleHolder, Holding
<1>5. HolderMatchesRow'
  BY <1>1, <1>2, <1>3 DEF IInv, HolderMatchesRow, Holding
<1>6. RowInv'
  BY <1>1, <1>3
  DEF IInv, RowInv, WaitingHasAttemptsLeft, NothingBeyondLastAttempt,
      EarlierAttemptsFailed, RateLimitedWasRejected, AbsentUntried
<1> QED
  BY <1>4, <1>5, <1>6 DEF HolderInv

\* No worker carries a row that is waiting, so a claim makes its worker the
\* only holder, of an attempt nothing is known about.
LEMMA ClaimStep ==
  ASSUME IInv, NEW w \in Workers, NEW e \in Events, Claim(w, e),
         e \in Waiting(timestamp[w]), phase[w] = "claim",
         UNCHANGED <<request, verdict>>
  PROVE  HolderInv' /\ RowInv'
<1>1. /\ status[e] \in {"PENDING", "RETRY_WAIT"}
      /\ status' = [status EXCEPT ![e] = "SENDING"]
      /\ attempt_count' = [attempt_count EXCEPT ![e] = @ + 1]
      /\ phase' = [phase EXCEPT ![w] = "check"]
      /\ job' = [job EXCEPT ![w] = e]
      /\ jobAttempt' = [jobAttempt EXCEPT ![w] = attempt_count[e] + 1]
  BY DEF Claim, Goto, Waiting
<1>2. /\ phase \in [Workers -> Phases] /\ status \in [Events -> Statuses]
      /\ attempt_count \in [Events -> 0..MaxAttempts]
      /\ job \in [Workers -> Events \cup {0}]
      /\ jobAttempt \in [Workers -> 0..MaxAttempts]
  BY DEF IInv, TypeOK
<1>3. attempt_count[e] < MaxAttempts
  BY <1>1 DEF IInv, WaitingHasAttemptsLeft
<1>4. attempt_count[e] + 1 \in Attempts
  BY <1>2, <1>3, OutboxAssumption DEF Attempts
<1>5. \A v \in Workers : phase[v] \in Holding => job[v] # e
  BY <1>1 DEF IInv, HolderMatchesRow
<1>6. SoleHolder'
  BY <1>1, <1>2, <1>5 DEF IInv, SoleHolder
<1>7. request[e][attempt_count[e] + 1] = "none"
      /\ verdict[e][attempt_count[e] + 1] = "none"
  BY <1>2, <1>4 DEF IInv, NothingBeyondLastAttempt
<1>8. HolderMatchesRow'
  <2> SUFFICES ASSUME NEW v \in Workers, phase'[v] \in Holding
               PROVE  /\ job'[v] \in Events
                      /\ jobAttempt'[v] \in Attempts
                      /\ jobAttempt'[v] = attempt_count'[job'[v]]
                      /\ status'[job'[v]] \in {"SENDING", "DELIVERY_UNCERTAIN"}
                      /\ phase'[v] = "complete" <=>
                           verdict'[job'[v]][jobAttempt'[v]] \in Dispositions
    BY DEF HolderMatchesRow
  <2>1. CASE v = w
    BY <1>1, <1>2, <1>4, <1>7, <2>1 DEF Dispositions
  <2>2. CASE v # w
    BY <1>1, <1>2, <1>5, <2>2 DEF IInv, HolderMatchesRow
  <2> QED
    BY <2>1, <2>2
<1>9. RowInv'
  <2>1. WaitingHasAttemptsLeft' /\ AbsentUntried' /\ RateLimitedWasRejected'
    BY <1>1, <1>2 DEF IInv, WaitingHasAttemptsLeft, AbsentUntried,
                      RateLimitedWasRejected
  <2>2. NothingBeyondLastAttempt'
    BY <1>1, <1>2 DEF IInv, NothingBeyondLastAttempt, Attempts
  <2>3. EarlierAttemptsFailed'
    <3> SUFFICES ASSUME NEW f \in Events, NEW a \in Attempts,
                        \/ a < attempt_count'[f]
                        \/ /\ a = attempt_count'[f]
                           /\ status'[f] \in {"PENDING", "RETRY_WAIT"}
                 PROVE  verdict[f][a] \in Retryable
      BY DEF EarlierAttemptsFailed
    <3>1. CASE f = e
      <4>1. a \in Nat /\ a < attempt_count[e] + 1
        BY <1>1, <1>2, <3>1 DEF Attempts
      <4>2. a < attempt_count[e] \/ a = attempt_count[e]
        BY <1>2, <4>1
      <4> QED
        BY <1>1, <3>1, <4>2 DEF IInv, EarlierAttemptsFailed
    <3>2. CASE f # e
      BY <1>1, <1>2, <3>2 DEF IInv, EarlierAttemptsFailed
    <3> QED
      BY <3>1, <3>2
  <2> QED
    BY <2>1, <2>2, <2>3 DEF RowInv
<1> QED
  BY <1>6, <1>8, <1>9 DEF HolderInv
\* A result of the transport is the first one recorded for the attempt, and a
\* rate limit is read off a rejected request only.
LEMMA ToldStep ==
  ASSUME IInv, NEW w \in Workers, phase[w] \in {"check", "send", "await"},
         NEW d \in Dispositions, Told(w, d),
         d = "RATE_LIMITED" => request[job[w]][jobAttempt[w]] = "rejected",
         UNCHANGED <<status, attempt_count, job, jobAttempt, request>>
  PROVE  HolderInv' /\ RowInv'
<1> DEFINE e == job[w]
           b == jobAttempt[w]
<1>1. /\ e \in Events /\ b \in Attempts /\ b = attempt_count[e]
      /\ status[e] \in {"SENDING", "DELIVERY_UNCERTAIN"}
  BY HolderFacts DEF Holding
<1>2. /\ phase \in [Workers -> Phases]
      /\ verdict \in [Events -> [Attempts -> Dispositions \cup {"none"}]]
      /\ attempt_count \in [Events -> 0..MaxAttempts]
  BY DEF IInv, TypeOK
<1>3. phase' = [phase EXCEPT ![w] = "complete"]
  BY DEF Told, Goto
<1>4. /\ verdict'[e][b] = d
      /\ \A f \in Events, a \in Attempts :
           f # e \/ a # b => verdict'[f][a] = verdict[f][a]
  <2>1. verdict' = [verdict EXCEPT ![e] = [verdict[e] EXCEPT ![b] = d]]
    BY DEF Told
  <2>2. verdict[e] \in [Attempts -> Dispositions \cup {"none"}]
    BY <1>1, <1>2
  <2> QED
    BY <1>1, <1>2, <2>1, <2>2
<1>5. SoleHolder'
  BY <1>2, <1>3 DEF IInv, SoleHolder, Holding
<1>6. HolderMatchesRow'
  <2> SUFFICES ASSUME NEW v \in Workers, phase'[v] \in Holding
               PROVE  /\ job[v] \in Events
                      /\ jobAttempt[v] \in Attempts
                      /\ jobAttempt[v] = attempt_count[job[v]]
                      /\ status[job[v]] \in {"SENDING", "DELIVERY_UNCERTAIN"}
                      /\ phase'[v] = "complete" <=>
                           verdict'[job[v]][jobAttempt[v]] \in Dispositions
    BY DEF HolderMatchesRow
  <2>1. CASE v = w
    BY <1>1, <1>2, <1>3, <1>4, <2>1
  <2>2. CASE v # w
    <3>1. phase'[v] = phase[v] /\ phase[v] \in Holding
      BY <1>2, <1>3, <2>2
    <3>2. job[v] # e
      BY <2>2, <3>1 DEF IInv, SoleHolder, Holding
    <3> QED
      BY <1>4, <3>1, <3>2, HolderFacts
  <2> QED
    BY <2>1, <2>2
<1>7. WaitingHasAttemptsLeft' /\ AbsentUntried'
  BY DEF IInv, WaitingHasAttemptsLeft, AbsentUntried
<1>8. NothingBeyondLastAttempt'
  BY <1>1, <1>2, <1>4 DEF IInv, NothingBeyondLastAttempt, Attempts
<1>9. EarlierAttemptsFailed'
  BY <1>1, <1>2, <1>4 DEF IInv, EarlierAttemptsFailed, Attempts
<1>10. RateLimitedWasRejected'
  BY <1>1, <1>4 DEF IInv, RateLimitedWasRejected
<1> QED
  BY <1>5, <1>6, <1>7, <1>8, <1>9, <1>10 DEF HolderInv, RowInv

\* Sending: the request of the attempt leaves, its verdict is still open.
LEMMA SendStep ==
  ASSUME IInv, NEW w \in Workers, phase[w] = "send", Goto(w, "await"),
         request' = [request EXCEPT ![job[w]][jobAttempt[w]] = "inflight"],
         UNCHANGED <<status, attempt_count, job, jobAttempt, verdict>>
  PROVE  HolderInv' /\ RowInv'
<1> DEFINE e == job[w]
           b == jobAttempt[w]
<1>1. /\ e \in Events /\ b \in Attempts /\ b = attempt_count[e]
      /\ verdict[e][b] \notin Dispositions
  BY HolderFacts DEF Holding
<1>2. /\ phase \in [Workers -> Phases]
      /\ request \in [Events -> [Attempts -> Fates]]
      /\ attempt_count \in [Events -> 0..MaxAttempts]
  BY DEF IInv, TypeOK
<1>3. phase' = [phase EXCEPT ![w] = "await"]
  BY DEF Goto
<1>4. \A f \in Events, a \in Attempts :
        f # e \/ a # b => request'[f][a] = request[f][a]
  <2>1. request' = [request EXCEPT ![e] = [request[e] EXCEPT ![b] = "inflight"]]
    OBVIOUS
  <2>2. request[e] \in [Attempts -> Fates]
    BY <1>1, <1>2
  <2> QED
    BY <1>1, <1>2, <2>1, <2>2
<1>5. SoleHolder'
  BY <1>2, <1>3 DEF IInv, SoleHolder, Holding
<1>6. HolderMatchesRow'
  BY <1>2, <1>3 DEF IInv, HolderMatchesRow, Holding
<1>7. WaitingHasAttemptsLeft' /\ AbsentUntried' /\ EarlierAttemptsFailed'
  BY DEF IInv, WaitingHasAttemptsLeft, AbsentUntried, EarlierAttemptsFailed
<1>8. NothingBeyondLastAttempt'
  BY <1>1, <1>2, <1>4 DEF IInv, NothingBeyondLastAttempt, Attempts
<1>9. RateLimitedWasRejected'
  BY <1>1, <1>4 DEF IInv, RateLimitedWasRejected, Dispositions
<1> QED
  BY <1>5, <1>6, <1>7, <1>8, <1>9 DEF HolderInv, RowInv

\* Passing the checks changes nothing but the worker's place.
LEMMA CheckedStep ==
  ASSUME IInv, NEW w \in Workers, phase[w] = "check", Goto(w, "send"),
         UNCHANGED <<status, attempt_count, job, jobAttempt, request, verdict>>
  PROVE  HolderInv' /\ RowInv'
<1>1. phase \in [Workers -> Phases] /\ phase' = [phase EXCEPT ![w] = "send"]
  BY DEF IInv, TypeOK, Goto
<1>2. SoleHolder' /\ HolderMatchesRow'
  BY <1>1 DEF IInv, SoleHolder, HolderMatchesRow, Holding
<1>3. RowInv'
  BY IInvParts, RowFrame
<1> QED
  BY <1>2, <1>3 DEF HolderInv

\* Telegram's decision does not touch a verdict already given.
LEMMA RemoteStep ==
  ASSUME IInv, NEW e \in Events, NEW b \in Attempts,
         NEW fate \in {"accepted", "rejected"}, RemoteHandles(e, b, fate)
  PROVE  HolderInv' /\ RowInv'
<1>1. /\ request[e][b] = "inflight"
      /\ UNCHANGED <<status, attempt_count, phase, job, jobAttempt, verdict>>
  BY DEF RemoteHandles, columns, local
<1>2. /\ request \in [Events -> [Attempts -> Fates]]
  BY DEF IInv, TypeOK
<1>3. \A f \in Events, a \in Attempts :
        f # e \/ a # b => request'[f][a] = request[f][a]
  <2>1. request' = [request EXCEPT ![e] = [request[e] EXCEPT ![b] = fate]]
    BY DEF RemoteHandles
  <2> QED
    BY <1>2, <2>1
<1>4. HolderInv'
  BY <1>1 DEF IInv, HolderInv, SoleHolder, HolderMatchesRow
<1>5. WaitingHasAttemptsLeft' /\ AbsentUntried' /\ EarlierAttemptsFailed'
  BY <1>1 DEF IInv, WaitingHasAttemptsLeft, AbsentUntried, EarlierAttemptsFailed
<1>6. NothingBeyondLastAttempt'
  BY <1>1, <1>3 DEF IInv, NothingBeyondLastAttempt
<1>7. RateLimitedWasRejected'
  BY <1>1, <1>3 DEF IInv, RateLimitedWasRejected
<1> QED
  BY <1>4, <1>5, <1>6, <1>7 DEF RowInv
\* The shape of a completion that still holds its lease.
LEMMA CompletionFacts ==
  ASSUME IInv, NEW w \in Workers, Complete(w), HoldsLease(w)
  PROVE  /\ job[w] \in Events
         /\ jobAttempt[w] = attempt_count[job[w]]
         /\ status[job[w]] = "SENDING"
         /\ UNCHANGED attempt_count
         /\ \E s \in Statuses \ {"ABSENT", "PENDING", "SENDING"} :
              /\ status' = [status EXCEPT ![job[w]] = s]
              /\ s = "RETRY_WAIT" =>
                   /\ verdict[job[w]][attempt_count[job[w]]] \in Retryable
                   /\ attempt_count[job[w]] < MaxAttempts
<1> DEFINE e == job[w]
           d == verdict[e][jobAttempt[w]]
<1>1. /\ e \in Events /\ jobAttempt[w] \in Attempts
      /\ jobAttempt[w] = attempt_count[e] /\ d \in Dispositions
  BY HolderFacts DEF Complete, Holding
<1>2. timestamp[w] \in Nat
  BY DEF IInv, TypeOK
<1>3. PICK next \in NextStates(d, jobAttempt[w], timestamp[w]) :
        status' = [status EXCEPT ![e] = next[1]]
  BY DEF Complete
<1>4. /\ next[1] \in Statuses \ {"ABSENT", "PENDING", "SENDING"}
      /\ next[1] = "RETRY_WAIT" => d \in Retryable /\ jobAttempt[w] < MaxAttempts
  BY <1>1, <1>2, NextStatesShape
<1>5. status[e] = "SENDING" /\ UNCHANGED attempt_count
  BY DEF Complete, HoldsLease
<1> QED
  BY <1>1, <1>3, <1>4, <1>5

LEMMA CompleteStep ==
  ASSUME IInv, NEW w \in Workers, Complete(w)
  PROVE  HolderInv' /\ RowInv'
<1>1. /\ phase[w] = "complete" /\ Leave(w, "idle")
      /\ UNCHANGED <<request, verdict>>
  BY DEF Complete
<1>2. CASE UNCHANGED columns
  BY <1>1, <1>2, QuietStep DEF columns, Phases, Holding
<1>3. CASE HoldsLease(w)
  <2> DEFINE e == job[w]
  <2>1. /\ e \in Events /\ UNCHANGED attempt_count
        /\ status[e] = "SENDING"
    BY <1>3, CompletionFacts
  <2>2. PICK s \in Statuses \ {"ABSENT", "PENDING", "SENDING"} :
          /\ status' = [status EXCEPT ![e] = s]
          /\ s = "RETRY_WAIT" => /\ verdict[e][attempt_count[e]] \in Retryable
                                 /\ attempt_count[e] < MaxAttempts
    BY <1>3, CompletionFacts
  <2>3. /\ phase \in [Workers -> Phases] /\ status \in [Events -> Statuses]
        /\ job \in [Workers -> Events \cup {0}]
        /\ jobAttempt \in [Workers -> 0..MaxAttempts]
        /\ attempt_count \in [Events -> 0..MaxAttempts]
    BY DEF IInv, TypeOK
  <2>4. /\ phase'[w] \notin Holding
        /\ \A v \in Workers \ {w} : /\ phase'[v] = phase[v] /\ job'[v] = job[v]
                                    /\ jobAttempt'[v] = jobAttempt[v]
    BY <1>1, <2>3 DEF Leave, Goto, Holding
  <2>5. SoleHolder'
    BY <2>4 DEF IInv, SoleHolder
  <2>6. HolderMatchesRow'
    <3> SUFFICES ASSUME NEW v \in Workers, phase'[v] \in Holding
                 PROVE  /\ job'[v] \in Events
                        /\ jobAttempt'[v] \in Attempts
                        /\ jobAttempt'[v] = attempt_count'[job'[v]]
                        /\ status'[job'[v]] \in {"SENDING", "DELIVERY_UNCERTAIN"}
                        /\ phase'[v] = "complete" <=>
                             verdict'[job'[v]][jobAttempt'[v]] \in Dispositions
      BY DEF HolderMatchesRow
    <3>1. v # w /\ phase[v] \in Holding /\ job'[v] = job[v]
          /\ jobAttempt'[v] = jobAttempt[v] /\ phase'[v] = phase[v]
      BY <2>4
    <3>2. job[v] # e
      BY <1>1, <3>1 DEF IInv, SoleHolder, Holding
    <3>3. job[v] \in Events /\ status'[job[v]] = status[job[v]]
      BY <2>2, <2>3, <3>1, <3>2, HolderFacts
    <3> QED
      BY <1>1, <2>1, <3>1, <3>3, HolderFacts
  <2>7. WaitingHasAttemptsLeft' /\ AbsentUntried'
    BY <2>1, <2>2, <2>3 DEF IInv, WaitingHasAttemptsLeft, AbsentUntried
  <2>8. NothingBeyondLastAttempt' /\ RateLimitedWasRejected'
    BY <1>1, <2>1 DEF IInv, NothingBeyondLastAttempt, RateLimitedWasRejected
  <2>9. EarlierAttemptsFailed'
    BY <1>1, <2>1, <2>2, <2>3 DEF IInv, EarlierAttemptsFailed
  <2> QED
    BY <2>5, <2>6, <2>7, <2>8, <2>9 DEF HolderInv, RowInv
<1> QED
  BY <1>2, <1>3 DEF Complete

LEMMA NextStep == IInv /\ [Next]_vars => IInv'
<1> SUFFICES ASSUME IInv, [Next]_vars PROVE HolderInv' /\ RowInv'
  BY TypeStep, IInvParts DEF IInv, HolderInv, RowInv
<1>1. CASE UNCHANGED vars \/ Tick
  <2>1. UNCHANGED <<status, attempt_count, phase, job, jobAttempt, request, verdict>>
    BY <1>1 DEF vars, columns, local, Tick
  <2> QED
    BY <2>1, IInvParts, RowFrame
    DEF IInv, HolderInv, SoleHolder, HolderMatchesRow
<1>2. ASSUME NEW e \in Events, InsertOutbox(e) PROVE HolderInv' /\ RowInv'
  BY <1>2, InsertStep
<1>3. ASSUME NEW e \in Events, AppendAdvisory(e) PROVE HolderInv' /\ RowInv'
  <2>1. UNCHANGED <<status, attempt_count, phase, job, jobAttempt, request, verdict>>
    BY <1>3 DEF AppendAdvisory, columns, local
  <2> QED
    BY <2>1, IInvParts, RowFrame
    DEF IInv, HolderInv, SoleHolder, HolderMatchesRow
<1>4. ASSUME NEW w \in Workers,
             \/ Start(w) \/ EnsureExpiredAdvisoryGrace(w) \/ Restart(w)
      PROVE HolderInv' /\ RowInv'
  <2>1. /\ \E p \in Phases \ Holding : Goto(w, p) /\ UNCHANGED <<job, jobAttempt>>
        /\ UNCHANGED <<status, attempt_count, request, verdict>>
    BY <1>4 DEF Start, EnsureExpiredAdvisoryGrace, Restart, columns, Phases, Holding
  <2> QED
    BY <2>1, QuietStep
<1>5. ASSUME NEW w \in Workers, DatabaseError(w) \/ Crash(w)
      PROVE HolderInv' /\ RowInv'
  <2>1. /\ \E p \in Phases \ Holding : Leave(w, p)
        /\ UNCHANGED <<status, attempt_count, request, verdict>>
    BY <1>5 DEF DatabaseError, Crash, columns, Phases, Holding
  <2> QED
    BY <2>1, QuietStep
<1>6. ASSUME NEW w \in Workers, ClaimNext(w) PROVE HolderInv' /\ RowInv'
  <2>1. phase[w] = "claim" /\ UNCHANGED <<request, verdict>>
    BY <1>6 DEF ClaimNext
  <2>2. CASE Leave(w, "idle") /\ UNCHANGED columns
    BY <2>1, <2>2, QuietStep DEF columns, Phases, Holding
  <2>3. ASSUME NEW e \in Events, IsFirst(e, Claimable(timestamp[w])), Claim(w, e)
        PROVE HolderInv' /\ RowInv'
    BY <2>1, <2>3, ClaimStep DEF IsFirst, Claimable
  <2> QED
    BY <1>6, <2>2, <2>3 DEF ClaimNext
<1>7. ASSUME NEW w \in Workers, CheckDeliverable(w) PROVE HolderInv' /\ RowInv'
  <2>1. /\ phase[w] = "check"
        /\ UNCHANGED <<status, attempt_count, job, jobAttempt, request>>
        /\ \/ \E d \in Dispositions \ {"RATE_LIMITED"} : Told(w, d)
           \/ Goto(w, "send") /\ UNCHANGED verdict
    BY <1>7 DEF CheckDeliverable, columns, Dispositions
  <2> QED
    BY <2>1, ToldStep, CheckedStep
<1>8. ASSUME NEW w \in Workers, Send(w) PROVE HolderInv' /\ RowInv'
  <2>1. CASE Told(w, "TRANSIENT_FAILURE") /\ UNCHANGED request
    BY <1>8, <2>1, ToldStep DEF Send, columns, Dispositions
  <2>2. CASE /\ request' = [request EXCEPT ![job[w]][jobAttempt[w]] = "inflight"]
             /\ Goto(w, "await") /\ UNCHANGED verdict
    BY <1>8, <2>2, SendStep DEF Send, columns
  <2> QED
    BY <1>8, <2>1, <2>2 DEF Send
<1>9. ASSUME NEW w \in Workers, ReadResponse(w) \/ TransportTimeout(w)
      PROVE HolderInv' /\ RowInv'
  <2>1. /\ phase[w] \in {"check", "send", "await"}
        /\ UNCHANGED <<status, attempt_count, job, jobAttempt, request>>
        /\ \E d \in Dispositions :
             /\ Told(w, d)
             /\ d = "RATE_LIMITED" => request[job[w]][jobAttempt[w]] = "rejected"
    BY <1>9 DEF ReadResponse, TransportTimeout, Readings, columns, Dispositions
  <2> QED
    BY <2>1, ToldStep
<1>10. ASSUME NEW w \in Workers, WorkerStep(w) PROVE HolderInv' /\ RowInv'
  BY <1>4, <1>6, <1>7, <1>8, <1>9, <1>10, RecoverStep, CompleteStep DEF WorkerStep
<1> QED
  BY <1>1, <1>2, <1>3, <1>5, <1>10, RemoteStep DEF Next

\* The rows, the holders of their leases and what the transport was given stay
\* consistent through claims, crashes and late completions (the outbox and its
\* delivery worker).
THEOREM Invariance == Spec => []IInv
<1> QED
  BY InitIInv, NextStep, PTL DEF Spec

\* Every variable keeps its type, so no row is tried more than MaxAttempts times.
THEOREM TypeCorrect == Spec => []TypeOK
<1>1. IInv => TypeOK
  BY DEF IInv
<1> QED
  BY <1>1, Invariance, PTL

\* No two worker instances ever carry the same event, with any worker ids.
THEOREM OneHolder == Spec => []SoleHolder
<1>1. IInv => SoleHolder
  BY DEF IInv
<1> QED
  BY <1>1, Invariance, PTL

\* No crash, lease expiry or timeout makes the outbox send an alert again.
THEOREM ResendSafety == Spec => []ResendOnlyAfterReportedFailure
<1>1. IInv => ResendOnlyAfterReportedFailure
  <2> SUFFICES ASSUME IInv, NEW e \in Events, NEW a \in Attempts, NEW b \in Attempts,
                      a < b, request[e][b] # "none"
               PROVE  verdict[e][a] \in Retryable
    BY DEF ResendOnlyAfterReportedFailure, Retryable
  <2>1. attempt_count[e] \in 0..MaxAttempts
    BY DEF IInv, TypeOK
  <2>2. b <= attempt_count[e]
    BY <2>1 DEF IInv, NothingBeyondLastAttempt, Attempts
  <2>3. a < attempt_count[e]
    BY <2>1, <2>2 DEF Attempts
  <2> QED
    BY <2>3 DEF IInv, EarlierAttemptsFailed
<1> QED
  BY <1>1, Invariance, PTL

\* A duplicate on the recipient's side takes an accepted request that the
\* transport reported as a transient failure.
THEOREM DuplicateSafety == Spec => []DuplicateOnlyAfterMisreportedAcceptance
<1>1. IInv /\ ResendOnlyAfterReportedFailure =>
        DuplicateOnlyAfterMisreportedAcceptance
  BY DEF IInv, RateLimitedWasRejected, ResendOnlyAfterReportedFailure,
         DuplicateOnlyAfterMisreportedAcceptance
<1> QED
  BY <1>1, Invariance, ResendSafety, PTL
\* What one step may do to one row: the table the last two theorems read.
LEMMA RowSteps ==
  ASSUME IInv, [Next]_vars
  PROVE  \/ UNCHANGED <<status, attempt_count>>
         \/ \E e \in Events : /\ status[e] = "ABSENT"
                             /\ status' = [status EXCEPT ![e] = "PENDING"]
                             /\ UNCHANGED attempt_count
         \/ \E lost \in SUBSET Events :
              /\ \A e \in lost : status[e] = "SENDING"
              /\ status' = [e \in Events |-> IF e \in lost
                              THEN "DELIVERY_UNCERTAIN" ELSE status[e]]
              /\ UNCHANGED attempt_count
         \/ \E e \in Events :
              /\ status[e] \in {"PENDING", "RETRY_WAIT"}
              /\ attempt_count[e] < MaxAttempts
              /\ status' = [status EXCEPT ![e] = "SENDING"]
              /\ attempt_count' = [attempt_count EXCEPT ![e] = @ + 1]
         \/ \E e \in Events : \E s \in Statuses \ {"ABSENT", "PENDING", "SENDING"} :
              /\ status[e] = "SENDING"
              /\ s = "RETRY_WAIT" => attempt_count[e] < MaxAttempts
              /\ status' = [status EXCEPT ![e] = s]
              /\ UNCHANGED attempt_count
<1> DEFINE Goal ==
      \/ UNCHANGED <<status, attempt_count>>
      \/ \E e \in Events : /\ status[e] = "ABSENT"
                          /\ status' = [status EXCEPT ![e] = "PENDING"]
                          /\ UNCHANGED attempt_count
      \/ \E lost \in SUBSET Events :
           /\ \A e \in lost : status[e] = "SENDING"
           /\ status' = [e \in Events |-> IF e \in lost
                           THEN "DELIVERY_UNCERTAIN" ELSE status[e]]
           /\ UNCHANGED attempt_count
      \/ \E e \in Events :
           /\ status[e] \in {"PENDING", "RETRY_WAIT"}
           /\ attempt_count[e] < MaxAttempts
           /\ status' = [status EXCEPT ![e] = "SENDING"]
           /\ attempt_count' = [attempt_count EXCEPT ![e] = @ + 1]
      \/ \E e \in Events : \E s \in Statuses \ {"ABSENT", "PENDING", "SENDING"} :
           /\ status[e] = "SENDING"
           /\ s = "RETRY_WAIT" => attempt_count[e] < MaxAttempts
           /\ status' = [status EXCEPT ![e] = s]
           /\ UNCHANGED attempt_count
<1> SUFFICES Goal
  OBVIOUS
<1>1. CASE UNCHANGED vars \/ Tick
  BY <1>1 DEF vars, columns, Tick
<1>2. ASSUME NEW e \in Events, InsertOutbox(e) PROVE Goal
  BY <1>2 DEF InsertOutbox
<1>3. ASSUME NEW e \in Events, AppendAdvisory(e) PROVE Goal
  BY <1>3 DEF AppendAdvisory, columns
<1>4. ASSUME NEW w \in Workers, RecoverExpiredLeases(w) PROVE Goal
  <2>1. Expired(timestamp[w]) \in SUBSET Events
        /\ \A e \in Expired(timestamp[w]) : status[e] = "SENDING"
    BY DEF Expired
  <2> QED
    BY <1>4, <2>1 DEF RecoverExpiredLeases
<1>5. ASSUME NEW w \in Workers, ClaimNext(w) PROVE Goal
  <2>1. ASSUME NEW e \in Events, IsFirst(e, Claimable(timestamp[w])), Claim(w, e)
        PROVE Goal
    BY <2>1 DEF Claim, IsFirst, Claimable, Waiting, IInv, WaitingHasAttemptsLeft
  <2> QED
    BY <1>5, <2>1 DEF ClaimNext, columns
<1>6. ASSUME NEW w \in Workers, Complete(w) PROVE Goal
  <2>1. CASE HoldsLease(w)
    BY <1>6, <2>1, CompletionFacts
  <2> QED
    BY <1>6, <2>1 DEF Complete, columns
<1>7. ASSUME NEW w \in Workers,
             \/ Start(w) \/ EnsureExpiredAdvisoryGrace(w) \/ CheckDeliverable(w)
             \/ Send(w) \/ ReadResponse(w) \/ TransportTimeout(w) \/ Restart(w)
      PROVE Goal
  BY <1>7 DEF Start, EnsureExpiredAdvisoryGrace, CheckDeliverable, Send,
              ReadResponse, TransportTimeout, Restart, columns
<1>8. ASSUME NEW w \in Workers, DatabaseError(w) \/ Crash(w) PROVE Goal
  BY <1>8 DEF DatabaseError, Crash, columns
<1>9. ASSUME NEW e \in Events, NEW a \in Attempts,
             NEW fate \in {"accepted", "rejected"}, RemoteHandles(e, a, fate)
      PROVE Goal
  BY <1>9 DEF RemoteHandles, columns
<1> HIDE DEF Goal
<1>10. ASSUME NEW w \in Workers, WorkerStep(w) PROVE Goal
  BY <1>4, <1>5, <1>6, <1>7, <1>10 DEF WorkerStep
<1> QED
  BY <1>1, <1>2, <1>3, <1>8, <1>9, <1>10 DEF Next

\* A settled alert is never claimed, re-queued or re-labelled again.
THEOREM TerminalSafety == Spec => TerminalIsFinal
<1>1. IInv /\ [Next]_vars =>
        [\A e \in Events : status[e] \in Terminal =>
           /\ status'[e] = status[e]
           /\ attempt_count'[e] = attempt_count[e]]_vars
  <2> SUFFICES ASSUME IInv, [Next]_vars, NEW e \in Events, status[e] \in Terminal
               PROVE  status'[e] = status[e] /\ attempt_count'[e] = attempt_count[e]
    OBVIOUS
  <2>1. /\ status \in [Events -> Statuses]
        /\ attempt_count \in [Events -> 0..MaxAttempts]
    BY DEF IInv, TypeOK
  <2> QED
    BY <2>1, RowSteps DEF Terminal
<1> QED
  BY <1>1, Invariance, PTL DEF Spec, TerminalIsFinal

\* The outbox implements the abstract alert.
THEOREM OutboxImplementsAlert == Spec => ImplementsAlertDelivery
<1> DEFINE abstract == [e \in Events |-> Stage(status[e])]
<1>1. Init => Alert!Init
  BY DEF Init, Alert!Init, Stage
<1>2. IInv /\ [Next]_vars => [Alert!Next]_(Alert!alertVars)
  <2> SUFFICES ASSUME IInv, [Next]_vars PROVE [Alert!Next]_(Alert!alertVars)
    OBVIOUS
  <2>1. /\ status \in [Events -> Statuses]
        /\ attempt_count \in [Events -> 0..MaxAttempts]
    BY DEF IInv, TypeOK
  <2>2. CASE UNCHANGED <<status, attempt_count>>
    BY <2>2 DEF Alert!alertVars
  <2>3. ASSUME NEW e \in Events, status[e] = "ABSENT",
               status' = [status EXCEPT ![e] = "PENDING"], UNCHANGED attempt_count
        PROVE Alert!Next
    <3>1. Alert!Announce(e)
      BY <2>1, <2>3 DEF Alert!Announce, Stage
    <3> QED
      BY <3>1 DEF Alert!Next
  <2>4. ASSUME NEW lost \in SUBSET Events, \A e \in lost : status[e] = "SENDING",
               status' = [e \in Events |-> IF e \in lost
                           THEN "DELIVERY_UNCERTAIN" ELSE status[e]],
               UNCHANGED attempt_count
        PROVE Alert!Next
    <3>1. Alert!Abandon(lost)
      BY <2>1, <2>4 DEF Alert!Abandon, Stage
    <3> QED
      BY <3>1 DEF Alert!Next
  <2>5. ASSUME NEW e \in Events, status[e] \in {"PENDING", "RETRY_WAIT"},
               attempt_count[e] < MaxAttempts,
               status' = [status EXCEPT ![e] = "SENDING"],
               attempt_count' = [attempt_count EXCEPT ![e] = @ + 1]
        PROVE Alert!Next
    <3>1. Alert!Try(e)
      BY <2>1, <2>5 DEF Alert!Try, Stage
    <3> QED
      BY <3>1 DEF Alert!Next
  <2>6. ASSUME NEW e \in Events,
               NEW s \in Statuses \ {"ABSENT", "PENDING", "SENDING"},
               status[e] = "SENDING",
               s = "RETRY_WAIT" => attempt_count[e] < MaxAttempts,
               status' = [status EXCEPT ![e] = s], UNCHANGED attempt_count
        PROVE Alert!Next
    <3>1. CASE s = "RETRY_WAIT"
      <4>1. Alert!TryAgainLater(e)
        BY <2>1, <2>6, <3>1 DEF Alert!TryAgainLater, Stage
      <4> QED
        BY <4>1 DEF Alert!Next
    <3>2. CASE s \in Terminal
      <4>1. Stage(s) \in Alert!Settled
        BY <3>2 DEF Stage, Terminal, Alert!Settled
      <4>2. Alert!Settle(e, Stage(s))
        BY <2>1, <2>6, <3>2 DEF Alert!Settle, Stage, Terminal
      <4> QED
        BY <4>1, <4>2 DEF Alert!Next
    <3> QED
      BY <3>1, <3>2 DEF Statuses, Terminal
  <2> QED
    BY <2>2, <2>3, <2>4, <2>5, <2>6, RowSteps
<1> QED
  BY <1>1, <1>2, Invariance, PTL
  DEF Spec, ImplementsAlertDelivery, Alert!Spec
=============================================================================
