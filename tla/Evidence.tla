------------------------------ MODULE Evidence ------------------------------
(***************************************************************************)
(* The streams of WebSocketManager as one specification: every behaviour   *)
(* is one of the shared generations, of the direct streams, of the         *)
(* liquidation exchanges or of the caches.  A symbol's evidence moves      *)
(* between the first two as SharedEvidence's "direct" says; the four are   *)
(* otherwise independent, and the other three stay where they start.       *)
(***************************************************************************)
EXTENDS Integers, Sequences

CONSTANTS
    Candidates, Limit,          \* of the shared generations
    Symbols,                    \* of a venue's direct streams and liquidations
    MaxFaults,
    MaxNow, CacheRows, BookTtl, HistoryLimit, Count, Span, Window, Retention,
    TradeLimit                  \* of the caches

VARIABLES machine,
    capable, wanted, subscribers, unsupported, fallbacks, direct, exchange,
    active, consumers, lingering, young, dirty, at, snapshot, sharedFaults,
    task, feed, ending, retire, venueExchange, streamFaults,
    noLiquidations, liqTask, owned, closing, liqSubscribers, liqShared,
    sharedOwned, sharedClosing, leaked,
    cacheTime, history, trades, events, stamp

G == INSTANCE SharedEvidence WITH Symbols <- Candidates, faults <- sharedFaults
D == INSTANCE DirectStreams WITH exchange <- venueExchange, faults <- streamFaults
L == INSTANCE LiquidationClients WITH
        unsupported <- noLiquidations, task <- liqTask,
        subscribers <- liqSubscribers, shared <- liqShared
C == INSTANCE EvidenceCaches WITH now <- cacheTime, Rows <- CacheRows

ASSUME StreamsAssumption ==
    G!EvidenceAssumption /\ D!FaultsAssumption /\ C!CacheAssumption

generations ==
    <<capable, wanted, subscribers, unsupported, fallbacks, direct, exchange,
      active, consumers, lingering, young, dirty, at, snapshot, sharedFaults>>
streams == <<task, feed, ending, retire, venueExchange, streamFaults>>
liquidations ==
    <<noLiquidations, liqTask, owned, closing, liqSubscribers, liqShared,
      sharedOwned, sharedClosing, leaked>>
caches == <<cacheTime, history, trades, events, stamp>>
evidence == <<machine, generations, streams, liquidations, caches>>

Machines == {"generations", "streams", "liquidations", "caches"}
Quiet == G!Init /\ D!Init /\ L!Init /\ C!Init
             /\ (machine # "generations" => capable)
EvidenceInit == machine \in Machines /\ Quiet
GenerationsStep(A) ==
    machine = "generations" /\ A /\ UNCHANGED <<machine, streams, liquidations, caches>>
StreamsStep(A) ==
    machine = "streams" /\ A /\ UNCHANGED <<machine, generations, liquidations, caches>>
EvidenceNext ==
    \/ GenerationsStep(G!Next)
    \/ StreamsStep(D!Next)
    \/ machine = "liquidations" /\ L!Next /\ UNCHANGED <<machine, generations, streams, caches>>
    \/ machine = "caches" /\ C!Next
       /\ UNCHANGED <<machine, generations, streams, liquidations>>

\* The tasks of the event loop go on and time passes; the hunter evaluates every
\* candidate again and again; the lock of a venue is handed over in order.
Fairness ==
    /\ WF_evidence(GenerationsStep(G!Reconciler))
    /\ WF_evidence(GenerationsStep(G!Grow))
    /\ WF_evidence(GenerationsStep(G!LingererEnds))
    /\ \A s \in Candidates : WF_evidence(GenerationsStep(G!Sync(s, wanted[s])))
    /\ \A s \in Symbols :
        /\ WF_evidence(StreamsStep(D!Progress(s)))
        /\ SF_evidence(StreamsStep(D!LockWaiter(s)))
EvidenceSpec == EvidenceInit /\ [][EvidenceNext]_evidence /\ Fairness

\* Two feeds of one stream never run side by side and none goes on unnoticed:
\* generations do not overlap, a successor is not unwatched by the retirement
\* before it, and a liquidation stream has one exchange.
OneFeedPerStream ==
    /\ G!NoOverlappingGenerations /\ G!NoLostWakeup
    /\ D!SuccessorNotUnwatched
    /\ L!OneClientPerStream
\* A candidate that keeps asking for evidence gets it (SharedEvidence), and a
\* stream that stays subscribed is fed again and again (DirectStreams).
EventuallyServed == G!EventuallyServed /\ D!StreamRecovers
\* Direct streams belong to symbols that are wanted (SharedEvidence).
NoOrphanStream == G!NoOrphanStream
\* What the caches hand out is no snapshot and no liquidation twice
\* (EvidenceCaches).
EvidenceCountsOnce == machine = "caches" => C!EvidenceCountsOnce
=============================================================================
