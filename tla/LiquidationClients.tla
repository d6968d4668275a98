------------------------- MODULE LiquidationClients -------------------------
(***************************************************************************)
(* The exchanges WebSocketManager owns for liquidations.  CCXT offers no   *)
(* unwatch for them, so a stream that is given up takes its exchange with  *)
(* it, which is closed in the background for as long as that takes.  Two   *)
(* kinds: one exchange per symbol of a venue, and, for the venue with an   *)
(* all-market stream, one exchange for all its subscribers.                *)
(***************************************************************************)
EXTENDS Integers

CONSTANTS Symbols

VARIABLES
    unsupported,   \* the venues in unsupported_liquidation_exchanges
    task,          \* per symbol: "none", "waiting" for an exchange, "watching"
    owned,         \* liquidation_exchanges
    closing,       \* the exchanges of a symbol that are being closed
    subscribers,   \* liquidation_subscribers of the all-market venue
    shared,        \* its task
    sharedOwned,   \* shared_liquidation_exchanges
    sharedClosing, \* _shared_liquidation_retire_tasks
    leaked         \* exchanges popped and never closed

Venues == {"per symbol", "all market"}
perSymbol == <<task, owned, closing>>
allMarket == <<subscribers, shared, sharedOwned, sharedClosing, leaked>>
vars == <<unsupported, perSymbol, allMarket>>
States == {"none", "waiting", "watching"}

TypeOK ==
    /\ unsupported \subseteq Venues
    /\ task \in [Symbols -> States]
    /\ owned \subseteq Symbols
    /\ closing \in [Symbols -> Nat]
    /\ subscribers \subseteq Symbols
    /\ shared \in States
    /\ sharedOwned \in BOOLEAN /\ sharedClosing \in BOOLEAN
    /\ leaked \in BOOLEAN

Init ==
    /\ unsupported = {}
    /\ task = [s \in Symbols |-> "none"]
    /\ owned = {} /\ closing = [s \in Symbols |-> 0]
    /\ subscribers = {} /\ shared = "none"
    /\ sharedOwned = FALSE /\ sharedClosing = FALSE
    /\ leaked = FALSE

\* subscribe_liquidations.
Subscribe(s) ==
    /\ "per symbol" \notin unsupported /\ task[s] = "none"
    /\ task' = [task EXCEPT ![s] = "waiting"]
    /\ UNCHANGED <<unsupported, owned, closing, allMarket>>

\* _schedule_liquidation_exchange_retire.
Retire(s) ==
    /\ owned' = owned \ {s}
    /\ closing' = [closing EXCEPT ![s] = @ + (IF s \in owned THEN 1 ELSE 0)]
Unsubscribe(s) ==
    /\ task' = [task EXCEPT ![s] = "none"]
    /\ Retire(s)
    /\ UNCHANGED <<unsupported, allMarket>>

\* Mutant: a closing exchange is not waited for.
MayOpen_Any(s) == TRUE
\* _get_liquidation_exchange: not while an exchange of the venue is closing;
\* a venue found without the stream ends the task, which retires its exchange.
MayOpen(s) == \A other \in Symbols : closing[other] = 0
Open(s, supported) ==
    /\ task[s] = "waiting" /\ MayOpen(s)
    /\ IF supported
       THEN /\ owned' = owned \cup {s}
            /\ task' = [task EXCEPT ![s] = "watching"]
            /\ UNCHANGED <<unsupported, closing>>
       ELSE /\ unsupported' = unsupported \cup {"per symbol"}
            /\ task' = [task EXCEPT ![s] = "none"]
            /\ closing' = [closing EXCEPT ![s] = @ + 1]
            /\ UNCHANGED owned
    /\ UNCHANGED allMarket
\* _close_exchange_instance: the cancelled task has ended or timed out, and the
\* original close has ended, in time or not.
Closed(s) ==
    /\ closing[s] > 0
    /\ closing' = [closing EXCEPT ![s] = @ - 1]
    /\ UNCHANGED <<unsupported, task, owned, allMarket>>
\* refresh_liquidation_capability.
RefreshCapability(venue) ==
    /\ unsupported' = unsupported \ {venue}
    /\ UNCHANGED <<perSymbol, allMarket>>

-----------------------------------------------------------------------------
(* The all-market stream.                                                  *)

SubscribeShared(s) ==
    /\ "all market" \notin unsupported
    /\ subscribers' = subscribers \cup {s}
    /\ shared' = IF shared = "none" THEN "waiting" ELSE shared
    /\ UNCHANGED <<unsupported, perSymbol, sharedOwned, sharedClosing, leaked>>

\* _schedule_shared_liquidation_retire takes the exchange from the pool before
\* it finds out that another retirement is running.
RetireShared ==
    /\ sharedOwned' = FALSE
    /\ sharedClosing' = (sharedClosing \/ sharedOwned)
    /\ leaked' = (leaked \/ (sharedOwned /\ sharedClosing))
\* _detach_shared_liquidation_subscriber: the last one ends the stream.
UnsubscribeShared(s) ==
    /\ subscribers' = subscribers \ {s}
    /\ IF s \in subscribers /\ subscribers = {s}
       THEN shared' = "none" /\ RetireShared
       ELSE UNCHANGED <<shared, sharedOwned, sharedClosing, leaked>>
    /\ UNCHANGED <<unsupported, perSymbol>>

\* _watch_shared_liquidations_stream, up to its loop.
SharedMayOpen == ~sharedClosing
OpenShared(supported) ==
    /\ shared = "waiting" /\ SharedMayOpen
    /\ IF supported
       THEN /\ sharedOwned' = TRUE /\ shared' = "watching"
            /\ UNCHANGED <<unsupported, subscribers, sharedClosing>>
       ELSE /\ unsupported' = unsupported \cup {"all market"}
            /\ subscribers' = {} /\ shared' = "none" /\ sharedClosing' = TRUE
            /\ UNCHANGED sharedOwned
    /\ UNCHANGED <<perSymbol, leaked>>
ClosedShared ==
    /\ sharedClosing /\ sharedClosing' = FALSE
    /\ UNCHANGED <<unsupported, perSymbol, subscribers, shared, sharedOwned, leaked>>

Next ==
    \/ \E s \in Symbols :
        \/ Subscribe(s) \/ Unsubscribe(s) \/ Closed(s)
        \/ \E supported \in BOOLEAN : Open(s, supported)
        \/ SubscribeShared(s) \/ UnsubscribeShared(s)
    \/ \E venue \in Venues : RefreshCapability(venue)
    \/ \E supported \in BOOLEAN : OpenShared(supported)
    \/ ClosedShared

-----------------------------------------------------------------------------
(* Properties                                                              *)

\* However fast a symbol comes and goes, and however long a close takes, at most
\* one exchange exists for each stream, and none is forgotten unclosed.
OneClientPerStream ==
    /\ \A s \in Symbols : closing[s] + (IF s \in owned THEN 1 ELSE 0) <= 1
    /\ ~(sharedOwned /\ sharedClosing) /\ ~leaked
=============================================================================
