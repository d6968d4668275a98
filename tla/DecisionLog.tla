----------------------------- MODULE DecisionLog -----------------------------
(***************************************************************************)
(* The log that compares the volume gate with the measured suitability of  *)
(* every symbol the hunter evaluates: evaluations are counted in memory,   *)
(* one row per bucket and symbol, and a worker thread adds the rows to the *)
(* table while new evaluations go on (lbank_execution_decision.py, the     *)
(* suitability cache of lbank_execution_candidate.py, and the flushes of   *)
(* hunter_loop in main.py).                                                *)
(***************************************************************************)
EXTENDS Integers, Functions

CONSTANTS
    Symbols,
    Statuses,           \* of an execution suitability packet
    MaxBucket,          \* the last bucket of the clock
    Retention,          \* buckets a row is kept
    MaxEvaluations,
    MaxFaults           \* faults of the database

LogAssumption ==
    /\ Statuses \subseteq {"SUITABLE", "MARGINAL", "POOR", "UNKNOWN"}
    /\ MaxBucket \in Nat /\ Retention \in Nat \ {0}

VARIABLES
    clock,
    packet,         \* the cached suitability of a symbol, or "none"
    evaluating,     \* the symbols an evaluation is in flight for
    pending,        \* rows counted in memory: key -> [count, kind]
    flight,         \* the rows the flush thread took
    table,          \* hunter rows on disk
    catalogue,      \* the buckets whose catalogue snapshot is on disk
    wanted,         \* flush_requested
    loop,           \* "running", "draining", "flushing last", "stopped"
                    \* or "stopped short", when the last flush failed
    observed,       \* evaluations ever counted, by key
    lost,           \* of these, the ones a kill or the retention dropped
    faults

vars == <<clock, packet, evaluating, pending, flight, table, catalogue,
          wanted, loop, observed, lost, faults>>

Kinds == {"AGREE_ACCEPT", "AGREE_REJECT", "VOLUME_PASS_EXECUTION_REJECT",
          "VOLUME_REJECT_EXECUTION_ACCEPT", "UNKNOWN"}
Keys == (0..MaxBucket) \X Symbols
NoRow == [count |-> 0, kind |-> "UNKNOWN"]
NoRows == [k \in Keys |-> NoRow]
Idle == [busy |-> FALSE, rows |-> NoRows]

\* What the gate and the measured suitability say of each other.
ComparisonKind(gate, status) ==
    LET admits == status \in {"SUITABLE", "MARGINAL"} IN
    IF status = "UNKNOWN" THEN "UNKNOWN" ELSE
    CASE gate /\ admits -> "AGREE_ACCEPT"
      [] ~gate /\ ~admits -> "AGREE_REJECT"
      [] gate /\ ~admits -> "VOLUME_PASS_EXECUTION_REJECT"
      [] ~gate /\ admits -> "VOLUME_REJECT_EXECUTION_ACCEPT"

TypeOK ==
    /\ clock \in 0..MaxBucket /\ packet \in [Symbols -> Statuses \cup {"none"}]
    /\ evaluating \subseteq Symbols /\ catalogue \subseteq 0..MaxBucket
    /\ {pending, table, flight.rows} \subseteq
            [Keys -> [count : 0..MaxEvaluations, kind : Kinds]]
    /\ {wanted, flight.busy} \subseteq BOOLEAN
    /\ loop \in {"running", "draining", "flushing last", "stopped",
                "stopped short"}
    /\ {observed, lost} \subseteq [Keys -> 0..MaxEvaluations]
    /\ faults \in 0..MaxFaults

Init ==
    /\ clock = 0 /\ packet = [s \in Symbols |-> "none"] /\ evaluating = {}
    /\ pending = NoRows /\ table = NoRows /\ flight = Idle /\ catalogue = {}
    /\ wanted = FALSE /\ loop = "running" /\ faults = 0
    /\ observed = [k \in Keys |-> 0] /\ lost = [k \in Keys |-> 0]

-----------------------------------------------------------------------------
\* A row added to what its key already counts: the counts add up and the row
\* given says the rest.
Added(row, to) == [row EXCEPT !.count = @ + to.count]
AddedAll(rows, to) ==
    [k \in Keys |-> IF rows[k].count > 0 THEN Added(rows[k], to[k]) ELSE to[k]]

\* for_symbol: the cached packet, or a fresh one from the statistics, which
\* are unknown when they cannot be read; either is cached.
Suitability(s, status) ==
    /\ packet[s] = "none" \/ packet[s] = status
    /\ packet' = [packet EXCEPT ![s] = status]

\* The cache entry gets older than its time to live.
PacketExpires(s) ==
    /\ packet[s] # "none"
    /\ packet' = [packet EXCEPT ![s] = "none"]
    /\ UNCHANGED <<clock, evaluating, pending, flight, table, catalogue,
                   wanted, loop, observed, lost, faults>>

\* The hunter dispatches an evaluation.
Dispatch(s) ==
    /\ loop = "running" /\ s \notin evaluating
    /\ evaluating' = evaluating \cup {s}
    /\ UNCHANGED <<clock, packet, pending, flight, table, catalogue, wanted,
                   loop, observed, lost, faults>>

\* It ends: observe_evaluation counts it in the bucket of now, under the
\* lock, and the scheduler asks for a flush when it was the thirtieth.
Observe(s, gate, status) ==
    LET k == <<clock, s>> IN
    /\ s \in evaluating
    /\ FoldFunction(+, 0, observed) < MaxEvaluations
    /\ Suitability(s, status)
    /\ evaluating' = evaluating \ {s}
    /\ pending' = [pending EXCEPT
           ![k] = Added([count |-> 1, kind |-> ComparisonKind(gate, status)], @)]
    /\ observed' = [observed EXCEPT ![k] = @ + 1]
    /\ wanted' \in {wanted, TRUE}
    /\ UNCHANGED <<clock, flight, table, catalogue, loop, lost, faults>>

\* It fails before it is counted.
EvaluationFails(s) ==
    /\ s \in evaluating
    /\ evaluating' = evaluating \ {s}
    /\ wanted' \in {wanted, TRUE}
    /\ UNCHANGED <<clock, packet, pending, flight, table, catalogue, loop,
                   observed, lost, faults>>

-----------------------------------------------------------------------------
\* flush_evaluations takes every pending row under the lock.
TakePending == flight' = [busy |-> TRUE, rows |-> pending] /\ pending' = NoRows

\* The loop starts a flush when one was asked for and none is running.
StartFlush ==
    /\ loop = "running" /\ wanted /\ ~flight.busy
    /\ TakePending /\ wanted' = FALSE
    /\ UNCHANGED <<clock, packet, evaluating, table, catalogue, loop, observed,
                   lost, faults>>

\* The rows are added to the table in one transaction ...
FlushCommits ==
    /\ flight.busy
    /\ table' = AddedAll(flight.rows, table)
    /\ flight' = Idle
    /\ loop' = IF loop = "flushing last" THEN "stopped" ELSE loop
    /\ UNCHANGED <<clock, packet, evaluating, pending, catalogue, wanted,
                   observed, lost, faults>>

\* ... or it fails as a whole and the rows go back to memory, where rows of
\* the same keys may have been counted meanwhile.
MergedBack_Overwrites(rows) ==
    [k \in Keys |-> IF rows[k].count > 0 THEN rows[k] ELSE pending[k]]
MergedBack(rows) == AddedAll(rows, pending)
FlushFails ==
    /\ flight.busy /\ faults < MaxFaults
    /\ pending' = MergedBack(flight.rows)
    /\ flight' = Idle
    /\ loop' = IF loop = "flushing last" THEN "stopped short" ELSE loop
    /\ faults' = faults + 1
    /\ UNCHANGED <<clock, packet, evaluating, table, catalogue, wanted,
                   observed, lost>>

\* record_universe_snapshot at the end of a maintenance pass: once per bucket,
\* and rows older than the retention are dropped in the same transaction.
Expired(b) == b < clock - Retention
Snapshot ==
    LET old == {k \in Keys : Expired(k[1])} IN
    /\ loop = "running" /\ clock \notin catalogue
    /\ catalogue' = {b \in catalogue \cup {clock} : ~Expired(b)}
    /\ table' = [k \in Keys |-> IF k \in old THEN NoRow ELSE table[k]]
    /\ lost' = [k \in Keys |-> lost[k] + IF k \in old THEN table[k].count ELSE 0]
    /\ UNCHANGED <<clock, packet, evaluating, pending, flight, wanted, loop,
                   observed, faults>>

-----------------------------------------------------------------------------
\* The loop is told to stop: it awaits the evaluations in flight, then the
\* flush in flight, and flushes once more.
Stop ==
    /\ loop = "running" /\ loop' = "draining"
    /\ UNCHANGED <<clock, packet, evaluating, pending, flight, table, catalogue,
                   wanted, observed, lost, faults>>

Drained == evaluating = {} /\ ~flight.busy
LastFlush ==
    /\ loop = "draining" /\ Drained
    /\ TakePending
    /\ loop' = "flushing last"
    /\ UNCHANGED <<clock, packet, evaluating, table, catalogue, wanted,
                   observed, lost, faults>>

\* A kill loses what is not on disk; the process starts again.
Kill ==
    /\ faults < MaxFaults /\ faults' = faults + 1
    /\ lost' = [k \in Keys |-> lost[k] + pending[k].count + flight.rows[k].count]
    /\ pending' = NoRows /\ flight' = Idle /\ evaluating' = {}
    /\ packet' = [s \in Symbols |-> "none"]
    /\ wanted' = FALSE /\ loop' = "running"
    /\ UNCHANGED <<clock, table, catalogue, observed>>

NextBucket ==
    /\ clock < MaxBucket /\ clock' = clock + 1
    /\ UNCHANGED <<packet, evaluating, pending, flight, table, catalogue,
                   wanted, loop, observed, lost, faults>>

Next ==
    \/ \E s \in Symbols :
        \/ PacketExpires(s) \/ Dispatch(s) \/ EvaluationFails(s)
        \/ \E gate \in BOOLEAN, status \in Statuses : Observe(s, gate, status)
    \/ StartFlush \/ FlushCommits \/ FlushFails \/ Snapshot
    \/ Stop \/ LastFlush \/ Kill \/ NextBucket

Spec == Init /\ [][Next]_vars

-----------------------------------------------------------------------------
\* Every evaluation counted is in exactly one place: in memory, in the hands
\* of the flush, or on disk, unless a kill or the retention dropped it.  A
\* flush that fails while evaluations of the same symbol and bucket go on
\* neither loses them nor counts them twice.
CountsAreExact ==
    \A k \in Keys :
        observed[k] = pending[k].count + flight.rows[k].count + table[k].count
                        + lost[k]
=============================================================================
