---------------------------- MODULE FeatureReplay ----------------------------
(***************************************************************************)
(* Production evidence and its replay: every evaluation stores the packet  *)
(* its decision was taken from, at most one per symbol and bucket, and the *)
(* final decisions of the trigger path besides; a worker replays the       *)
(* packets with the production analyzers and stores whether the same       *)
(* decision comes out (production_evidence.py, feature_replay.py).         *)
(***************************************************************************)
EXTENDS Integers, Sequences, SequencesExt, FiniteSets

CONSTANTS
    Symbols,
    Packets,            \* what an evaluation may hand over, see PacketType
    MaxBucket,          \* the last bucket of the clock
    MaxSnapshots,
    Batch,              \* packets replayed in a round
    MaxFaults

\* What of a packet the recorder and the replay tell apart: the replay context
\* and whether it agrees with the decision and the contract, when the inputs
\* were observed (the decision is at 1), the raw inputs that were captured,
\* whether the trigger path was taken, the code that decided, and whether this
\* code decides the same from the same inputs.
Contexts == {"complete", "absent", "incomplete", "tampered"}
Inputs == {"ohlcv", "confirmation", "trades", "orderbooks", "filters",
           "derivatives", "provenance", "position"}
PacketType ==
    [context : Contexts, observed : 0..2, inputs : SUBSET Inputs, attempted : BOOLEAN,
     code : {"this", "audited", "other"}, same : BOOLEAN]

ReplayAssumption ==
    /\ Packets \subseteq PacketType
    /\ {MaxSnapshots, Batch} \subseteq Nat \ {0}

VARIABLES
    clock,
    snapshots,      \* the table, in the order of its ids
    finals,         \* final decisions taken: pairs of a symbol and an instant
    results,        \* for each snapshot its replay, or "none"
    worker,         \* "idle", "counting", "querying", "replaying" or "dead"
    frontier,       \* _next_snapshot_id, 0 for None
    counted,        \* the next id that was read before the first query
    batch,          \* ids still to replay in this round
    recordFaults

vars == <<clock, snapshots, finals, results, worker, frontier, counted, batch,
          recordFaults>>

Verdicts == {"EQUIVALENT", "MISMATCH", "NOT_REPLAYABLE", "ERROR"}
Ids == 1..Len(snapshots)

TypeOK ==
    /\ clock \in 0..MaxBucket
    /\ Len(snapshots) <= MaxSnapshots /\ Len(results) = Len(snapshots)
    /\ \A i \in Ids : /\ snapshots[i].packet \in Packets
                      /\ snapshots[i].symbol \in Symbols
                      /\ results[i] \in Verdicts \cup {"none"}
    /\ worker \in {"idle", "counting", "querying", "replaying", "dead"}
    /\ {frontier, counted} \subseteq 0..(MaxSnapshots + 1)
    /\ ToSet(batch) \subseteq Ids /\ recordFaults \in 0..MaxFaults

Init ==
    /\ clock = 0 /\ snapshots = <<>> /\ finals = {} /\ results = <<>>
    /\ worker = "idle" /\ frontier = 0 /\ counted = 0 /\ batch = <<>>
    /\ recordFaults = 0

-----------------------------------------------------------------------------
(* What a packet is worth.                                                  *)

\* An input observed after the decision has no age: it is not causal.
Causal(decision, observed) == observed <= decision

\* _replay_status: the context must be there, whole, causal and untampered.
ReplayComplete(p) == p.context = "complete" /\ Causal(1, p.observed)

FeatureReady(p) ==
    {"ohlcv", "confirmation", "trades", "orderbooks", "filters"} \subseteq p.inputs
PositionReady(p) == p.attempted => "position" \in p.inputs

\* replay: the packet is refused for its context, its code or its inputs;
\* otherwise the analyzers run again and every difference is a mismatch.
Refused(p) == ~ReplayComplete(p) \/ p.code = "other" \/ ~FeatureReady(p)
Replay(p) ==
    IF Refused(p) \/ ~PositionReady(p) THEN "NOT_REPLAYABLE"
    ELSE IF p.same THEN "EQUIVALENT" ELSE "MISMATCH"

-----------------------------------------------------------------------------
(* The recorder.                                                            *)

\* An ordinary packet is keyed by its bucket, a final decision by an instant
\* of its own, below zero so that it never meets a bucket.
KeyOf(final, instant) == IF final THEN -instant ELSE clock

\* INSERT OR IGNORE on the key; a write that fails is counted and forgotten.
Store(s, p, final, instant) ==
    LET row == [key |-> KeyOf(final, instant), symbol |-> s, packet |-> p,
                final |-> final]
    IN IF \E i \in Ids : snapshots[i].key = row.key /\ snapshots[i].symbol = s
       THEN UNCHANGED <<snapshots, results>>
       ELSE /\ snapshots' = Append(snapshots, row)
            /\ results' = Append(results, "none")

Record(s, p) ==
    /\ Len(snapshots) < MaxSnapshots
    /\ Store(s, p, FALSE, 0)
    /\ UNCHANGED <<clock, finals, worker, frontier, counted, batch, recordFaults>>

RecordFinal(s, p) ==
    LET instant == Cardinality(finals) + 1 IN
    /\ Len(snapshots) < MaxSnapshots /\ p.attempted
    /\ finals' = finals \cup {<<s, instant>>}
    /\ Store(s, p, TRUE, instant)
    /\ UNCHANGED <<clock, worker, frontier, counted, batch, recordFaults>>

NextBucket ==
    /\ clock < MaxBucket /\ clock' = clock + 1
    /\ UNCHANGED <<snapshots, finals, results, worker, frontier, counted, batch,
                   recordFaults>>

-----------------------------------------------------------------------------
(* The replay worker; each step is a call into a thread of its own.         *)

StartRound ==
    /\ worker = "idle"
    /\ worker' = IF frontier = 0 THEN "counting" ELSE "querying"
    /\ UNCHANGED <<clock, snapshots, finals, results, frontier, counted, batch,
                   recordFaults>>

\* Without a frontier the end of the table is read before its backlog.
CountSnapshots ==
    /\ worker = "counting"
    /\ counted' = Len(snapshots) + 1
    /\ worker' = "querying"
    /\ UNCHANGED <<clock, snapshots, finals, results, frontier, batch, recordFaults>>

\* pending: the oldest packets from the frontier on that have no result.
Pending ==
    {i \in Ids : i >= frontier /\ results[i] = "none"}
Oldest(ids) == SelectSeq([i \in 1..Len(snapshots) |-> i], LAMBDA i : i \in ids)

\* An empty backlog moves the frontier to the end that was read before it.
NewFrontier == IF frontier = 0 THEN counted ELSE frontier
QueryPending ==
    /\ worker = "querying"
    /\ IF Pending = {}
       THEN worker' = "idle" /\ frontier' = NewFrontier /\ UNCHANGED batch
       ELSE /\ worker' = "replaying"
            /\ batch' = SubSeq(Oldest(Pending), 1,
                               IF Cardinality(Pending) < Batch
                               THEN Cardinality(Pending) ELSE Batch)
            /\ UNCHANGED frontier
    /\ UNCHANGED <<clock, snapshots, finals, results, counted, recordFaults>>

\* One packet is replayed and its result appended.  A replay that raises is
\* stored as an error.
AppendResult(verdict) ==
    LET i == Head(batch) IN
    /\ worker = "replaying"
    /\ verdict \in {Replay(snapshots[i].packet), "ERROR"}
    /\ verdict = "ERROR" => recordFaults < MaxFaults
    /\ recordFaults' = IF verdict = "ERROR" THEN recordFaults + 1 ELSE recordFaults
    /\ results' = [results EXCEPT ![i] = verdict]
    /\ frontier' = i + 1
    /\ batch' = Tail(batch)
    /\ worker' = IF batch' = <<>> THEN "idle" ELSE "replaying"
    /\ UNCHANGED <<clock, snapshots, finals, counted>>

\* The table refuses the row: the round ends and the packet is tried again.
AfterRefusal_Advances(i) == i + 1
AfterRefusal(i) == i
AppendRefused ==
    /\ worker = "replaying" /\ recordFaults < MaxFaults
    /\ recordFaults' = recordFaults + 1
    /\ frontier' = AfterRefusal(Head(batch)) /\ batch' = <<>> /\ worker' = "idle"
    /\ UNCHANGED <<clock, snapshots, finals, results, counted>>

\* Any other database error leaves run_forever: nothing replays until the
\* process starts again.
WorkerDies ==
    /\ worker \in {"counting", "querying", "replaying"} /\ recordFaults < MaxFaults
    /\ recordFaults' = recordFaults + 1
    /\ worker' = "dead" /\ batch' = <<>>
    /\ UNCHANGED <<clock, snapshots, finals, results, frontier, counted>>

Restart ==
    /\ worker' = "idle" /\ frontier' = 0 /\ counted' = 0 /\ batch' = <<>>
    /\ worker = "dead"
    /\ UNCHANGED <<clock, snapshots, finals, results, recordFaults>>

Recorder ==
    \/ \E s \in Symbols, p \in Packets : Record(s, p) \/ RecordFinal(s, p)
    \/ NextBucket
Worker ==
    \/ StartRound \/ CountSnapshots \/ QueryPending \/ AppendRefused
    \/ \E v \in Verdicts : AppendResult(v)
Next == Recorder \/ Worker \/ WorkerDies \/ Restart

Spec == Init /\ [][Next]_vars /\ WF_vars(Worker)

-----------------------------------------------------------------------------
\* Every packet is replayed, unless an error ended the worker: the worker
\* catches up with what is recorded, and a packet recorded while it looks for
\* its frontier is not passed over.
EveryPacketReplayed ==
    []<>(worker = "dead" \/ \A i \in Ids : results[i] # "none")
=============================================================================
