--------------------------- MODULE SharedEvidence ---------------------------
(***************************************************************************)
(* WebSocketManager's evidence of one venue.  The lifecycle of candidates  *)
(* only states which symbols it wants shared evidence for; one reconciler  *)
(* task brings the transport to that set by replacing whole generations:   *)
(* cancel the three consumers, close the exchange, start a fresh one with  *)
(* the symbols wanted now.  Every step below runs from one await of the    *)
(* reconciler to the next; in between, candidates come, go and change      *)
(* their state.  A venue without the shared methods is found out only when *)
(* its first generation starts; its symbols then get direct streams.       *)
(***************************************************************************)
EXTENDS Integers

CONSTANTS
    Symbols,
    Limit,         \* shared_evidence_symbol_limit
    MaxFaults      \* bound: consumers that die or hang, closes that fail or hang

EvidenceAssumption == Limit \in Nat \ {0} /\ MaxFaults \in Nat

VARIABLES
    capable,      \* whether the venue offers the shared methods
    wanted,       \* the evidence each candidate's last evaluation asked for
    subscribers,  \* shared_evidence_subscribers
    unsupported,  \* the venue is in unsupported_shared_evidence_exchanges
    fallbacks,    \* shared_evidence_direct_fallbacks
    direct,       \* the symbols with direct streams in active_tasks
    exchange,     \* the pool holds an exchange instance
    active,       \* shared_evidence_active_symbols of that instance
    consumers,    \* its three tasks: "running", "broken" or "none"
    lingering,    \* cancelled consumers that have not ended
    young,        \* the generation is younger than the minimum interval
    dirty,        \* _shared_evidence_reconcile_dirty
    at,           \* where the reconciler task stands
    snapshot,     \* the symbols it starts a generation for
    faults

vars == <<capable, wanted, subscribers, unsupported, fallbacks, direct, exchange,
          active, consumers, lingering, young, dirty, at, snapshot, faults>>
venue == <<capable, unsupported>>
pool == <<exchange, active, consumers, lingering, young>>
lifecycle == <<wanted, subscribers, fallbacks, direct>>

Steps == {"off", "run", "wait", "once", "settle", "close", "start",
          "fall back", "ended"}
TypeOK ==
    /\ capable \in BOOLEAN /\ unsupported \in BOOLEAN
    /\ wanted \in [Symbols -> {"nothing", "shared", "direct"}]
    /\ subscribers \subseteq Symbols /\ fallbacks \subseteq Symbols
    /\ direct \subseteq Symbols /\ active \subseteq Symbols
    /\ exchange \in BOOLEAN /\ young \in BOOLEAN /\ dirty \in BOOLEAN
    /\ consumers \in {"running", "broken", "none"}
    /\ lingering \in BOOLEAN
    /\ at \in Steps /\ snapshot \subseteq Symbols
    /\ faults \in 0..MaxFaults

Init ==
    /\ capable \in BOOLEAN /\ unsupported = FALSE
    /\ wanted = [s \in Symbols |-> "nothing"]
    /\ subscribers = {} /\ fallbacks = {} /\ direct = {}
    /\ exchange = FALSE /\ active = {} /\ consumers = "none"
    /\ lingering = FALSE /\ young = FALSE
    /\ dirty = FALSE /\ at = "off" /\ snapshot = {}
    /\ faults = 0

Size(S) == IF S = {} THEN 0 ELSE IF \E s \in S : S = {s} THEN 1 ELSE 2

\* _schedule_shared_evidence_reconcile: mark the venue dirty, wake a waiting
\* task, create one unless one is running.
Schedule ==
    /\ dirty' = TRUE
    /\ at' = IF at \in {"off", "ended"} THEN "run"
             ELSE IF at = "wait" THEN "once" ELSE at
Unscheduled == UNCHANGED <<dirty, at>>

\* Mutant: a generation that lost a consumer is not noticed.
Stale_NewOnly(s) == s \notin subscribers
\* subscribe_shared_evidence, which also notices a generation that has lost a
\* consumer.
Stale(s) == s \notin subscribers \/ consumers # "running"
Room(s) == s \in subscribers \/ \E n \in 0..(Limit - 1) : Size(subscribers) = n
SubscribeShared(s) ==
    IF unsupported
    THEN /\ fallbacks' = fallbacks \cup {s}
         /\ direct' = IF s \in fallbacks THEN direct ELSE direct \cup {s}
         /\ Unscheduled /\ UNCHANGED subscribers
    ELSE /\ subscribers' = IF Room(s) THEN subscribers \cup {s} ELSE subscribers
         /\ IF Room(s) /\ Stale(s) THEN Schedule ELSE Unscheduled
         /\ direct' = direct \ {s}
         /\ UNCHANGED fallbacks

\* unsubscribe_shared_evidence, then what follows for the direct streams.
UnsubscribeShared(s, streams) ==
    /\ fallbacks' = fallbacks \ {s}
    /\ direct' = streams
    /\ IF s \in fallbacks
       THEN Unscheduled /\ UNCHANGED subscribers
       ELSE /\ subscribers' = subscribers \ {s}
            /\ IF s \in subscribers THEN Schedule ELSE Unscheduled

\* An evaluation, or the removal, of the candidate of a symbol:
\* _sync_websocket_evidence_subscription.
Sync(s, kind) ==
    /\ wanted' = [wanted EXCEPT ![s] = kind]
    /\ CASE kind = "shared" -> SubscribeShared(s)
         [] kind = "direct" -> UnsubscribeShared(s, direct \cup {s})
         [] kind = "nothing" -> UnsubscribeShared(s, direct \ {s})
    /\ UNCHANGED <<venue, pool, snapshot, faults>>

-----------------------------------------------------------------------------
(* The reconciler.                                                         *)

\* _run_shared_evidence_reconciler: the task ends when nothing is dirty, and
\* its callback looks at the marker once more.
Run ==
    /\ at = "run"
    /\ dirty' = FALSE
    /\ at' = IF dirty THEN "wait" ELSE "ended"
    /\ UNCHANGED <<lifecycle, venue, pool, snapshot, faults>>
Callback ==
    /\ at = "ended"
    /\ at' = IF dirty THEN "run" ELSE "off"
    /\ UNCHANGED <<lifecycle, venue, pool, dirty, snapshot, faults>>

\* A healthy young generation is kept until the interval has passed; an empty,
\* missing or broken one is not waited for.
Delayed ==
    /\ subscribers # {} /\ exchange /\ active # {} /\ consumers = "running"
    /\ subscribers # active /\ young
EndWait ==
    /\ at = "wait" /\ ~Delayed
    /\ at' = "once"
    /\ UNCHANGED <<lifecycle, venue, pool, dirty, snapshot, faults>>
\* A wake-up while the reconciler waits only has it compute the delay again.
Woken ==
    /\ at = "once" /\ dirty /\ Delayed
    /\ dirty' = FALSE /\ at' = "wait"
    /\ UNCHANGED <<lifecycle, venue, pool, snapshot, faults>>
Grow ==
    /\ young /\ young' = FALSE
    /\ UNCHANGED <<lifecycle, venue, exchange, active, consumers, lingering, dirty,
                   at, snapshot, faults>>

Current == subscribers # {} /\ exchange /\ subscribers = active /\ consumers = "running"
Exists == exchange \/ active # {} \/ consumers # "none"

\* The start of a replacement: the desired symbols are read again.
Begin ==
    /\ snapshot' = subscribers
    /\ at' = IF subscribers = {} \/ unsupported THEN "run" ELSE "start"

\* _reconcile_shared_evidence_once, up to its first await.
Once ==
    /\ at = "once" /\ ~(dirty /\ Delayed)
    /\ IF Current \/ (subscribers = {} /\ ~Exists)
       THEN at' = "run" /\ UNCHANGED <<snapshot, consumers, lingering>>
       ELSE IF Exists
       THEN /\ at' = "settle"
            /\ consumers' = "none"
            /\ lingering' = (lingering \/ consumers # "none")
            /\ UNCHANGED snapshot
       ELSE Begin /\ UNCHANGED <<consumers, lingering>>
    /\ UNCHANGED <<lifecycle, venue, exchange, active, young, dirty, faults>>

\* The cancelled consumers end, or one of them outlives its time.
Settle ==
    /\ at = "settle" /\ at' = "close"
    /\ lingering' = FALSE
    /\ UNCHANGED <<lifecycle, venue, exchange, active, consumers, young, dirty,
                   snapshot, faults>>
SettleTimesOut ==
    /\ at = "settle" /\ lingering /\ faults < MaxFaults
    /\ at' = "close" /\ faults' = faults + 1
    /\ UNCHANGED <<lifecycle, venue, pool, dirty, snapshot>>

\* Mutant: consumers that have not ended do not keep the generation in place.
Retired_Pending(pending, close, empty) ==
    close \in {"ended", "timed out"} /\ (empty \/ close = "timed out")
\* The close ends, raises or times out, and the consumers that still linger are
\* waited for once more.  A close that times out is abandoned; one that raises,
\* or leaves a consumer or a socket, keeps the old generation in place.
Retired(pending, close, empty) ==
    ~pending /\ close \in {"ended", "timed out"} /\ (empty \/ close = "timed out")
Close(pending, close, empty) ==
    /\ at = "close"
    /\ pending => lingering
    /\ faults' = faults + (IF pending \/ close # "ended" \/ ~empty THEN 1 ELSE 0)
    /\ faults' <= MaxFaults
    /\ lingering' = pending
    /\ IF Retired(pending, close, empty)
       THEN /\ exchange' = FALSE /\ active' = {} /\ young' = FALSE
            /\ Begin
       ELSE /\ at' = "run" /\ UNCHANGED <<exchange, active, young, snapshot>>
    /\ UNCHANGED <<lifecycle, venue, consumers, dirty>>

\* A fresh exchange: its markets are shared, its methods are looked at.
Start ==
    /\ at = "start" /\ capable
    /\ exchange' = TRUE /\ active' = snapshot /\ young' = TRUE
    /\ consumers' = "running"
    /\ at' = IF subscribers # snapshot THEN "once" ELSE "run"
    /\ UNCHANGED <<lifecycle, venue, lingering, dirty, snapshot, faults>>
StartUnsupported ==
    /\ at = "start" /\ ~capable
    /\ unsupported' = TRUE
    /\ subscribers' = {}
    /\ at' = "fall back"
    /\ UNCHANGED <<wanted, fallbacks, direct, capable, pool, dirty, snapshot, faults>>
\* When the close of that exchange returns, the symbols read before it get their
\* direct streams.
FallBack ==
    /\ at = "fall back" /\ at' = "run"
    /\ fallbacks' = fallbacks \cup snapshot
    /\ direct' = direct \cup (snapshot \ fallbacks)
    /\ UNCHANGED <<wanted, subscribers, venue, pool, dirty, snapshot, faults>>

\* A consumer raises outside its guarded await and is gone.
ConsumerDies ==
    /\ consumers = "running" /\ faults < MaxFaults
    /\ consumers' = "broken" /\ faults' = faults + 1
    /\ UNCHANGED <<lifecycle, venue, exchange, active, lingering, young, dirty, at,
                   snapshot>>
\* A consumer that outlived its cancellation ends at last.
LingererEnds ==
    /\ lingering /\ at \notin {"settle", "close"}
    /\ lingering' = FALSE
    /\ UNCHANGED <<lifecycle, venue, exchange, active, consumers, young, dirty, at,
                   snapshot, faults>>

Reconciler ==
    \/ Run \/ Callback \/ EndWait \/ Woken \/ Once \/ Settle \/ Start
    \/ StartUnsupported \/ FallBack
    \/ Close(FALSE, "ended", TRUE)
Faults ==
    \/ SettleTimesOut \/ ConsumerDies
    \/ \E pending, empty \in BOOLEAN, close \in {"ended", "timed out", "raised"} :
            Close(pending, close, empty)
Next ==
    \/ Reconciler \/ Faults \/ Grow \/ LingererEnds
    \/ \E s \in Symbols, kind \in {"nothing", "shared", "direct"} : Sync(s, kind)

-----------------------------------------------------------------------------
(* Properties                                                              *)

\* Consumers of a retired generation, which may still deliver, and those of its
\* replacement never run side by side (_retire_shared_evidence_generation).
NoOverlappingGenerations == lingering => consumers = "none"

\* No change of the wanted symbols is lost: when the reconciler rests, the
\* generation in place carries exactly the wanted symbols, or its retirement
\* has failed or a consumer died, which the next evaluation notices.
NoLostWakeup ==
    (at = "off" /\ consumers = "running") => (subscribers = active /\ ~dirty)

\* A candidate whose state keeps asking for evidence gets it, shared or direct,
\* whatever dies, hangs or fails to close and however the others come and go.
Served(s) ==
    \/ s \in direct
    \/ s \in active /\ consumers = "running"
    \/ s \notin subscribers /\ ~unsupported /\ ~Room(s)
EventuallyServed ==
    \A s \in Symbols :
        (<>[](wanted[s] # "nothing")) => []<>Served(s)

\* A venue that turns out to be unsupported leaks no transport: direct streams
\* belong to symbols that are still wanted.
NoOrphanStream == \A s \in direct : wanted[s] # "nothing"
=============================================================================
