-------------------------- MODULE DecisionOutcomes --------------------------
(***************************************************************************)
(* The resolution of outcome captures: every recorded entry decision has   *)
(* one capture, and EntryOutcomeResolutionWorker, a single background task,*)
(* appends its final observation once a day of candles has closed.  A      *)
(* cycle scans one bounded batch per lane, the captures that need candles  *)
(* ("provider") and those whose outcome is known without them ("local"),   *)
(* each from a cursor kept in memory, and then resolves the loaded         *)
(* captures one after the other.  A capture may fail to resolve and stays  *)
(* pending; the process may restart at any step and lose both cursors.     *)
(* Candles are asked for at LBank only, which the gateway does not serve:  *)
(* what LBank has never arrives.                                           *)
(***************************************************************************)
EXTENDS Integers, FiniteSets

CONSTANTS
    Captures,         \* the row ids of decision_outcome_capture
    Provider,         \* those with a complete exact-contract record
    Tampered,         \* those whose stored hash does not match
    ProviderBatch,    \* batch_size of the worker
    LocalBatch,       \* local_batch_size of the worker
    MaxFaults         \* bound: restarts and failed writes

CapturesAssumption ==
    /\ IsFiniteSet(Captures) /\ Captures \subseteq Nat \ {0}
    /\ Provider \subseteq Captures /\ Tampered \subseteq Captures
BatchAssumption ==
    ProviderBatch \in Nat \ {0} /\ LocalBatch \in Nat \ {0} /\ MaxFaults \in Nat

Lanes == {"provider", "local"}
LaneOf(c) == IF c \in Provider THEN "provider" ELSE "local"
Limit(lane) == IF lane = "provider" THEN ProviderBatch ELSE LocalBatch

Nothing == [lane \in Lanes |-> {}]

VARIABLES
    age,         \* of each capture: fresh (or not yet written), mature or exhausted
    candles,     \* what LBank has of its minutes now: nothing, a gap, the window
    resolution,  \* the appended resolution, or "none"
    terminal,    \* history: those whose resolver raised a terminal failure
    cursor,      \* per lane, the highest id scanned (lost by a restart)
    queue,       \* per lane, the loaded captures still to resolve
    step,        \* where run_once stands
    faults

vars == <<age, candles, resolution, terminal, cursor, queue, step, faults>>

Ages == {"fresh", "mature", "exhausted"}
TypeOK ==
    /\ age \in [Captures -> Ages]
    /\ candles \in [Captures -> {"nothing", "gap", "window"}]
    /\ resolution \in [Captures -> {"none", "OBSERVED", "UNAVAILABLE"}]
    /\ terminal \subseteq Captures
    /\ cursor \in [Lanes -> Nat]
    /\ queue \in [Lanes -> SUBSET Captures]
    /\ step \in {"scan provider", "scan local", "resolve"}
    /\ faults \in 0..MaxFaults

Init ==
    /\ age = [c \in Captures |-> "fresh"]
    /\ candles = [c \in Captures |-> "nothing"]
    /\ resolution = [c \in Captures |-> "none"]
    /\ terminal = {}
    /\ cursor = [lane \in Lanes |-> 0]
    /\ queue = Nothing
    /\ step = "scan provider"
    /\ faults = 0

-----------------------------------------------------------------------------
(* The recorder, the clock and the exchange.                               *)

\* A day and the close delay pass, then the 72 hours of retries; an older
\* capture is never younger.
Stage(a) == CASE a = "fresh" -> 0 [] a = "mature" -> 1 [] a = "exhausted" -> 2
Older(a) == IF a = "fresh" THEN "mature" ELSE "exhausted"
Ripen(c) ==
    /\ age[c] \in {"fresh", "mature"}
    /\ \A d \in Captures : d < c => Stage(age[d]) > Stage(age[c])
    /\ age' = [age EXCEPT ![c] = Older(age[c])]
    /\ UNCHANGED <<candles, resolution, terminal, cursor, queue, step, faults>>

\* LBank's history of the window is another from now on.
Answers(c, answer) ==
    /\ c \in Provider /\ resolution[c] = "none" /\ candles[c] # answer
    /\ candles' = [candles EXCEPT ![c] = answer]
    /\ UNCHANGED <<age, resolution, terminal, cursor, queue, step, faults>>

-----------------------------------------------------------------------------
(* A cycle of the worker.                                                  *)

Pending(lane) ==
    {c \in Captures : /\ LaneOf(c) = lane
                      /\ age[c] \in {"mature", "exhausted"}
                      /\ resolution[c] = "none"}
\* ORDER BY id LIMIT: the rows of one scan after a cursor.
Rows(lane, after) ==
    LET beyond == {c \in Pending(lane) : c > after}
    IN {c \in beyond : Cardinality({d \in beyond : d < c}) < Limit(lane)}
Verified(rows) == rows \ Tampered

\* Mutant.
ScannedThrough_Valid(rows, after) ==
    IF Verified(rows) = {} THEN after
    ELSE CHOOSE c \in Verified(rows) : \A d \in Verified(rows) : d <= c
\* The cursor moves over every row read, also over those that fail their hash.
ScannedThrough(rows, after) ==
    IF rows = {} THEN after ELSE CHOOSE c \in rows : \A d \in rows : d <= c

\* A scan that moves the cursor is the batch; one that does not starts again
\* from the first id.
LaneStart(lane) ==
    IF Rows(lane, cursor[lane]) # {} THEN cursor[lane] ELSE 0
LoadLane(lane) ==
    LET after == LaneStart(lane)
        rows == Rows(lane, after)
    IN /\ cursor' = [cursor EXCEPT ![lane] = ScannedThrough(rows, after)]
       /\ queue' = [queue EXCEPT ![lane] = Verified(rows)]

LoadProvider ==
    /\ step = "scan provider"
    /\ LoadLane("provider")
    /\ step' = "scan local"
    /\ UNCHANGED <<age, candles, resolution, terminal, faults>>

LoadLocal ==
    /\ step = "scan local"
    /\ LoadLane("local")
    /\ step' = "resolve"
    /\ UNCHANGED <<age, candles, resolution, terminal, faults>>

\* fetch_ohlcv_from_source asks only the venues of the gateway's chain; the
\* resolver asks for LBank, whatever venue the capture's decision was made on.
PriorityChain == {"binance", "bybit", "kucoin", "okx", "mexc", "bingx", "gateio",
                  "bitget", "htx"}
Fetched(exchange, c) ==
    IF exchange \in PriorityChain THEN candles[c] ELSE "nothing"

\* Mutant.
Resolver_AnyAge(c) ==
    IF c \notin Provider \/ Fetched("lbank", c) # "window"
    THEN "UNAVAILABLE" ELSE "OBSERVED"
\* What the resolver returns for a capture: None keeps it pending.
Resolver(c) ==
    LET answer == Fetched("lbank", c)
    IN  IF c \notin Provider THEN "UNAVAILABLE"
        ELSE IF answer = "nothing"
        THEN IF age[c] = "exhausted" THEN "UNAVAILABLE" ELSE "none"
        ELSE IF answer = "gap" THEN "none" ELSE "OBSERVED"

\* The loaded captures are resolved in turn, the provider's batch first, each
\* batch by id.
Turn(c, lane) ==
    /\ step = "resolve"
    /\ lane = "local" => queue["provider"] = {}
    /\ c \in queue[lane] /\ \A d \in queue[lane] : c <= d
    /\ queue' = [queue EXCEPT ![lane] = @ \ {c}]

\* The resolution is appended once: the table is unique by decision.
AppendOnce(c, outcome) ==
    resolution' = [resolution EXCEPT ![c] = IF @ = "none" THEN outcome ELSE @]
Resolve(c, lane) ==
    /\ Turn(c, lane)
    /\ AppendOnce(c, Resolver(c))
    /\ UNCHANGED <<age, candles, terminal, cursor, step, faults>>

\* The resolver raises or the write fails.  A retryable failure keeps the
\* capture pending, as does any failed write; only a failure that calls itself
\* terminal is appended as UNAVAILABLE.
ResolveFails(c, lane) ==
    /\ Turn(c, lane)
    /\ faults < MaxFaults /\ faults' = faults + 1
    /\ \/ UNCHANGED <<resolution, terminal>>
       \/ AppendOnce(c, "UNAVAILABLE") /\ terminal' = terminal \cup {c}
    /\ UNCHANGED <<age, candles, cursor, step>>

\* The cycle ends; the next one comes after the interval.
Cycle ==
    /\ step = "resolve" /\ queue = Nothing
    /\ step' = "scan provider"
    /\ UNCHANGED <<age, candles, resolution, terminal, cursor, queue, faults>>

\* A cycle ends with an error of its scan, or the process restarts.
Restart ==
    /\ faults < MaxFaults
    /\ cursor' = [lane \in Lanes |-> 0]
    /\ queue' = Nothing /\ step' = "scan provider"
    /\ faults' = faults + 1
    /\ UNCHANGED <<age, candles, resolution, terminal>>
ScanFails ==
    /\ step \in {"scan provider", "scan local"} /\ faults < MaxFaults
    /\ queue' = Nothing /\ step' = "scan provider"
    /\ faults' = faults + 1
    /\ UNCHANGED <<age, candles, resolution, terminal, cursor>>

Worker ==
    \/ LoadProvider \/ LoadLocal \/ Cycle
    \/ \E lane \in Lanes, c \in Captures : Resolve(c, lane)
Environment ==
    \/ \E c \in Captures : Ripen(c)
    \/ \E c \in Captures, answer \in {"nothing", "gap", "window"} :
            Answers(c, answer)
    \/ \E lane \in Lanes, c \in Captures : ResolveFails(c, lane)
    \/ ScanFails \/ Restart
Next == Worker \/ Environment

Spec == Init /\ [][Next]_vars /\ WF_vars(Worker)

-----------------------------------------------------------------------------
(* Properties                                                              *)

\* An exact-contract capture whose retries are used up is settled, whatever
\* happens to the others: rows that fail their hash, captures still retried and
\* restarts do not keep the scan from reaching it (_load_lane_batch and its
\* two cursors).
ExactSettled ==
    \A c \in Provider \ Tampered : (age[c] = "exhausted") ~> (resolution[c] # "none")

\* A capture whose outcome is known without candles never waits for them.
LocalNeverWaits ==
    \A c \in Captures \ (Provider \cup Tampered) :
        (age[c] = "mature") ~> (resolution[c] # "none")

\* No capture is given up early: an exact-contract capture is UNAVAILABLE only
\* when its 72 hours are over or its resolver failed for good, not by a failed
\* write, a restart or a failure that may pass; a capture that fails its hash is
\* never resolved, and a resolution once appended stays.
NoneGivenUpEarly ==
    [][\A c \in Captures :
        resolution'[c] # resolution[c] =>
            /\ resolution[c] = "none"
            /\ c \notin Tampered
            /\ (c \in Provider /\ resolution'[c] = "UNAVAILABLE")
                    => (age[c] = "exhausted" \/ c \in terminal')]_vars

\* Every capture that can be settled is, and none is given up early.
CapturesSettled == ExactSettled /\ LocalNeverWaits /\ NoneGivenUpEarly

\* "Resolve an exact LBank perpetual capture from a complete closed 1m window."
\* (_resolve_entry_outcome): an exact capture is not called unavailable by the
\* resolver while LBank has all the minutes of its window.
ExactWindowIsObserved ==
    [][\A c \in Provider : (resolution'[c] # resolution[c] /\ candles[c] = "window")
            => (resolution'[c] = "OBSERVED" \/ c \in terminal')]_vars
==============================================================================
