--------------------------- MODULE ExecutionQueue ----------------------------
(***************************************************************************)
(* The queue of the execution research: a worker takes a small batch of    *)
(* listed contracts, measures their order books one after the other and    *)
(* stores each measurement with the time of the next                       *)
(* (lbank_execution_shadow.py, get_queue and record_observation of         *)
(* lbank_execution_store.py, the wiring in main.py).                       *)
(***************************************************************************)
EXTENDS Integers, Sequences, SequencesExt, FiniteSets

CONSTANTS
    Contracts,          \* numbered: the number is the order of their names
    Memes,              \* the meme coins of them
    Volume,             \* their traded volume
    BatchSize,
    SuccessRecheck,     \* ticks until a measured contract is due again
    FailureRecheck,     \* and one that could not be measured
    MaxWriteFaults

QueueAssumption ==
    /\ Contracts \subseteq Nat /\ IsFiniteSet(Contracts) /\ Memes \subseteq Contracts
    /\ Volume \in [Contracts -> Nat]
    /\ {BatchSize, SuccessRecheck, FailureRecheck} \subseteq Nat \ {0}

VARIABLES
    listing,        \* "traded", "dear" (a price above 1) or "removed"
    observedOrder,  \* contracts with a stored observation, oldest first
    status,         \* of the last one: "UNKNOWN", "OBSERVED" or "UNAVAILABLE"
    wait,           \* ticks until a contract is due
    measuring,      \* the batch being measured
    shadow,         \* "running" or "stopped"
    writeFaults

vars == <<listing, observedOrder, status, wait, measuring, shadow, writeFaults>>

TypeOK ==
    /\ listing \in [Contracts -> {"traded", "dear", "removed"}]
    /\ ToSet(observedOrder) = {c \in Contracts : status[c] # "UNKNOWN"}
    /\ Len(observedOrder) = Cardinality(ToSet(observedOrder))
    /\ status \in [Contracts -> {"UNKNOWN", "OBSERVED", "UNAVAILABLE"}]
    /\ wait \in [Contracts -> Nat]
    /\ ToSet(measuring) \subseteq Contracts /\ Len(measuring) <= BatchSize
    /\ shadow \in {"running", "stopped"} /\ writeFaults \in 0..MaxWriteFaults

Init ==
    /\ listing = [c \in Contracts |-> "traded"]
    /\ observedOrder = <<>> /\ status = [c \in Contracts |-> "UNKNOWN"]
    /\ wait = [c \in Contracts |-> 0] /\ measuring = <<>>
    /\ shadow = "running" /\ writeFaults = 0

-----------------------------------------------------------------------------
\* Without an observation first, then the oldest observation; memes, volume
\* and the name only decide between contracts never observed.
Age(c) == IF status[c] = "UNKNOWN" THEN 0
          ELSE CHOOSE i \in 1..Len(observedOrder) : observedOrder[i] = c
LessPopular(c, d) ==
    \/ c \notin Memes /\ d \in Memes
    \/ /\ (c \in Memes) = (d \in Memes)
       /\ Volume[c] < Volume[d] \/ (Volume[c] = Volume[d] /\ d < c)
Before_PopularFirst(c, d) == LessPopular(d, c)
Before(c, d) == Age(c) < Age(d) \/ (Age(c) = Age(d) /\ LessPopular(d, c))

Eligible(c) == listing[c] = "traded"
DueContracts == {c \in Contracts : Eligible(c) /\ wait[c] = 0}
Queue == SetToSortSeq(DueContracts, Before)
FirstBatch(q) == SubSeq(q, 1, IF Len(q) < BatchSize THEN Len(q) ELSE BatchSize)

\* run_once reads the queue; with nothing due the round is over.
StartBatch ==
    /\ shadow = "running" /\ measuring = <<>> /\ DueContracts # {}
    /\ measuring' = FirstBatch(Queue)
    /\ UNCHANGED <<listing, observedOrder, status, wait, shadow, writeFaults>>

\* The measurements are back: some contracts were measured; none when the
\* exchange could not be reached.  Each is stored in a transaction of its own,
\* and one that cannot be stored stays as it was.
FinishBatch(measured, unwritten) ==
    LET written == SelectSeq(measuring, LAMBDA c : c \notin unwritten) IN
    /\ measuring # <<>>
    /\ measured \cup unwritten \subseteq ToSet(measuring)
    /\ writeFaults + Cardinality(unwritten) <= MaxWriteFaults
    /\ writeFaults' = writeFaults + Cardinality(unwritten)
    /\ observedOrder' =
           SelectSeq(observedOrder, LAMBDA c : c \notin ToSet(written)) \o written
    /\ status' = [c \in Contracts |->
           IF c \notin ToSet(written) THEN status[c]
           ELSE IF c \in measured THEN "OBSERVED" ELSE "UNAVAILABLE"]
    /\ wait' = [c \in Contracts |->
           IF c \notin ToSet(written) THEN wait[c]
           ELSE IF c \in measured THEN SuccessRecheck ELSE FailureRecheck]
    /\ measuring' = <<>>
    /\ UNCHANGED <<listing, shadow>>

Tick ==
    /\ \E c \in Contracts : wait[c] > 0
    /\ wait' = [c \in Contracts |-> IF wait[c] > 0 THEN wait[c] - 1 ELSE 0]
    /\ UNCHANGED <<listing, observedOrder, status, measuring, shadow, writeFaults>>

\* The catalogue follows the exchange; what was observed stays stored.
Relist(c, l) ==
    /\ l \in {"traded", "dear", "removed"} \ {listing[c]}
    /\ listing' = [listing EXCEPT ![c] = l]
    /\ UNCHANGED <<observedOrder, status, wait, measuring, shadow, writeFaults>>

\* Shutdown stops the worker; the exchange is closed under the batch in
\* flight, which is not stored.  Startup begins with what the table says.
StopShadow ==
    /\ shadow = "running" /\ shadow' = "stopped" /\ measuring' = <<>>
    /\ UNCHANGED <<listing, observedOrder, status, wait, writeFaults>>
StartShadow ==
    /\ shadow = "stopped" /\ shadow' = "running"
    /\ UNCHANGED <<listing, observedOrder, status, wait, measuring, writeFaults>>

Finish == \E measured, unwritten \in SUBSET ToSet(measuring) :
              FinishBatch(measured, unwritten)
Next ==
    \/ StartBatch \/ Finish \/ Tick \/ StopShadow \/ StartShadow
    \/ \E c \in Contracts, l \in {"traded", "dear", "removed"} : Relist(c, l)

Spec ==
    /\ Init /\ [][Next]_vars
    /\ WF_vars(StartBatch) /\ WF_vars(Finish) /\ WF_vars(Tick)

-----------------------------------------------------------------------------
\* No contract is starved: as long as the worker runs and a contract is
\* traded, it is measured again and again, whatever others are more popular,
\* fail or come and go.
EveryoneMeasured ==
    \A c \in Contracts :
        []<>(c \in ToSet(measuring) \/ ~Eligible(c) \/ shadow = "stopped")
=============================================================================
