---------------------------- MODULE DirectStreams ----------------------------
(***************************************************************************)
(* The direct streams of one venue in WebSocketManager.  All symbols share *)
(* one exchange instance; a symbol that is given up has its tasks          *)
(* cancelled at once and is retired in the background: wait for the        *)
(* cancelled tasks, take the venue's lock, unwatch the symbol.  A symbol   *)
(* subscribed again meanwhile must neither start under that retirement nor *)
(* be unwatched by it.  The three streams of a symbol (order book, ticker, *)
(* trades) are started, cancelled and retired together: one stream stands  *)
(* for them.                                                               *)
(***************************************************************************)
EXTENDS Integers

CONSTANTS
    Symbols,
    MaxFaults      \* bound: failures of a watch, of an unwatch, of a cancellation

FaultsAssumption == MaxFaults \in Nat

VARIABLES
    task,          \* the task in active_tasks: "none", "starting", "watching", "pausing"
    feed,          \* the exchange has a subscription for the symbol
    ending,        \* a cancelled task has not ended
    retire,        \* _direct_symbol_retire_tasks: "none", "settling", "unwatching"
    exchange,      \* the pool has the venue's exchange
    faults

vars == <<task, feed, ending, retire, exchange, faults>>

TypeOK ==
    /\ task \in [Symbols -> {"none", "starting", "watching", "pausing"}]
    /\ feed \in [Symbols -> BOOLEAN]
    /\ ending \in [Symbols -> BOOLEAN]
    /\ retire \in [Symbols -> {"none", "settling", "unwatching"}]
    /\ exchange \in BOOLEAN
    /\ faults \in 0..MaxFaults

Init ==
    /\ task = [s \in Symbols |-> "none"]
    /\ feed = [s \in Symbols |-> FALSE]
    /\ ending = [s \in Symbols |-> FALSE]
    /\ retire = [s \in Symbols |-> "none"]
    /\ exchange = FALSE
    /\ faults = 0

LockFree == \A s \in Symbols : retire[s] # "unwatching"

\* subscribe_direct_evidence.
Subscribe(s) ==
    /\ task[s] = "none"
    /\ task' = [task EXCEPT ![s] = "starting"]
    /\ UNCHANGED <<feed, ending, retire, exchange, faults>>

\* unsubscribe and retain_liquidations_only: a task that is still starting ends
\* at once; one that watches or pauses has to be waited for.  Without an
\* exchange and a cancelled task there is nothing to retire, and a retirement
\* that runs is not joined by a second one.
Unsubscribe(s) ==
    /\ task' = [task EXCEPT ![s] = "none"]
    /\ ending' = [ending EXCEPT ![s] = @ \/ task[s] \in {"watching", "pausing"}]
    /\ retire' = IF (exchange \/ task[s] # "none") /\ retire[s] = "none"
                 THEN [retire EXCEPT ![s] = "settling"] ELSE retire
    /\ UNCHANGED <<feed, exchange, faults>>

\* _direct_exchange_for_start: after the symbol's retirement, under the lock.
MayStart(s) == retire[s] = "none" /\ LockFree
Start(s) ==
    /\ task[s] = "starting" /\ MayStart(s)
    /\ task' = [task EXCEPT ![s] = "watching"]
    /\ feed' = [feed EXCEPT ![s] = TRUE]
    /\ exchange' = TRUE
    /\ UNCHANGED <<ending, retire, faults>>

-----------------------------------------------------------------------------
(* The retirement of a symbol.                                             *)

Ends(s) ==
    /\ ending[s]
    /\ ending' = [ending EXCEPT ![s] = FALSE]
    /\ UNCHANGED <<task, feed, retire, exchange, faults>>
\* The cancelled tasks have ended, or are waited for no longer.
Settled(s, late) ==
    /\ retire[s] = "settling" /\ LockFree
    /\ late = ending[s] /\ (late => faults < MaxFaults)
    /\ retire' = [retire EXCEPT ![s] = IF exchange THEN "unwatching" ELSE "none"]
    /\ faults' = faults + (IF late THEN 1 ELSE 0)
    /\ UNCHANGED <<task, feed, ending, exchange>>
\* The unwatch calls and the closing of idle clients; one may fail.
Unwatched(s, fails) ==
    /\ retire[s] = "unwatching"
    /\ retire' = [retire EXCEPT ![s] = "none"]
    /\ fails => faults < MaxFaults
    /\ feed' = [feed EXCEPT ![s] = @ /\ fails]
    /\ faults' = faults + (IF fails THEN 1 ELSE 0)
    /\ UNCHANGED <<task, ending, exchange>>

-----------------------------------------------------------------------------
(* The watch loop.  Its circuit breaker decides how long a pause lasts.      *)

\* The subscription is lost with its connection, or an update raises.
WatchFails(s) ==
    /\ task[s] = "watching" /\ feed[s] /\ faults < MaxFaults
    /\ task' = [task EXCEPT ![s] = "pausing"]
    /\ feed' = [feed EXCEPT ![s] = FALSE]
    /\ faults' = faults + 1
    /\ UNCHANGED <<ending, retire, exchange>>
WatchAgain(s) ==
    /\ task[s] = "pausing"
    /\ task' = [task EXCEPT ![s] = "watching"]
    /\ feed' = [feed EXCEPT ![s] = TRUE]
    /\ UNCHANGED <<ending, retire, exchange, faults>>

Next ==
    \E s \in Symbols :
        \/ Subscribe(s) \/ Unsubscribe(s) \/ Start(s) \/ Ends(s)
        \/ \E late \in BOOLEAN : Settled(s, late)
        \/ \E fails \in BOOLEAN : Unwatched(s, fails)
        \/ WatchFails(s) \/ WatchAgain(s)

\* What the tasks of the manager do by themselves: those that wait for the venue's
\* lock, which is handed over in the order of the waiters, and the others.
LockWaiter(s) == Start(s) \/ Settled(s, FALSE)
Progress(s) == Ends(s) \/ Unwatched(s, FALSE) \/ WatchAgain(s)

-----------------------------------------------------------------------------
(* Properties                                                              *)

\* A retirement unwatches only what it was asked to give up: the stream of a
\* symbol that was subscribed again is not running yet (_retire_direct_symbol).
SuccessorNotUnwatched ==
    \A s \in Symbols :
        retire[s] = "unwatching" => task[s] \notin {"watching", "pausing"}

\* A symbol that stays subscribed is fed again and again, whatever retirements,
\* failures and other symbols it shares the exchange with.
StreamRecovers ==
    \A s \in Symbols :
        <>[](task[s] # "none") => []<>(task[s] = "watching" /\ feed[s])
=============================================================================
