------------------------------ MODULE Watchdog ------------------------------
(***************************************************************************)
(* The watchdog process: its own probe of the backend's health and the     *)
(* webhook Alertmanager calls move one state under a lock, and every move  *)
(* tells the operator before the lock is given back.                       *)
(***************************************************************************)
EXTENDS Integers

CONSTANTS
    Threshold,       \* failed probes in a row that mean down
    MaxCalls         \* bound: calls of the webhook
WatchdogAssumption == Threshold \in Nat \ {0} /\ MaxCalls \in Nat

Threads == {"monitor", "webhook"}
None == "none"
Verdicts == {"down", "up"}

VARIABLES
    healthy,         \* does the backend answer
    failures,        \* probes that failed in a row, up to the threshold
    wants,           \* of each thread, the verdict it goes to the lock with
    telling,         \* of each thread, the verdict it is telling the operator
    state,           \* backend_down, as a verdict
    told,            \* the newest verdict the operator was sent
    lost,            \* history: the newest message was not delivered
    calls

vars == <<healthy, failures, wants, telling, state, told, lost, calls>>
TypeOK ==
    /\ healthy \in BOOLEAN /\ failures \in 0..Threshold
    /\ wants \in [Threads -> Verdicts \cup {None}]
    /\ telling \in [Threads -> Verdicts \cup {None}]
    /\ state \in Verdicts /\ told \in Verdicts /\ lost \in BOOLEAN
    /\ calls \in 0..MaxCalls

Init ==
    /\ healthy = TRUE /\ failures = 0
    /\ wants = [t \in Threads |-> None] /\ telling = [t \in Threads |-> None]
    /\ state = "up" /\ told = "up" /\ lost = FALSE
    /\ calls = 0

BackendChanges ==
    /\ healthy' = ~healthy
    /\ UNCHANGED <<failures, wants, telling, state, told, lost, calls>>

Idle(t) == wants[t] = None /\ telling[t] = None
Go(t, verdict) == wants' = [wants EXCEPT ![t] = verdict]

\* monitor_loop: every probe that fails at the threshold goes to the lock.
Probe ==
    /\ Idle("monitor")
    /\ IF healthy THEN failures' = 0 /\ Go("monitor", "up")
       ELSE /\ failures' = IF failures < Threshold THEN failures + 1 ELSE failures
            /\ IF failures' = Threshold THEN Go("monitor", "down") ELSE UNCHANGED wants
    /\ UNCHANGED <<healthy, telling, state, told, lost, calls>>

\* AlertmanagerWebhook.do_POST: firing alerts win over resolved ones; another
\* alert, or a payload it cannot read, moves nothing.
Webhook(firing, resolved) ==
    /\ Idle("webhook") /\ calls < MaxCalls
    /\ calls' = calls + 1
    /\ \/ firing /\ Go("webhook", "down")
       \/ ~firing /\ resolved /\ Go("webhook", "up")
       \/ ~firing /\ ~resolved /\ UNCHANGED wants
    /\ UNCHANGED <<healthy, failures, telling, state, told, lost>>

\* transition: nothing to tell when the state is that already.
\* Mutant.
LockFree_WhileTelling == TRUE
LockFree == \A t \in Threads : telling[t] = None
Transition(t) ==
    /\ wants[t] # None /\ LockFree
    /\ state' = wants[t]
    /\ telling' = [telling EXCEPT ![t] = IF state = wants[t] THEN None ELSE wants[t]]
    /\ wants' = [wants EXCEPT ![t] = None]
    /\ UNCHANGED <<healthy, failures, told, lost, calls>>
\* send_alert: a message that is not delivered is logged and never sent again.
Told(t) ==
    /\ telling[t] # None
    /\ \/ told' = telling[t] /\ lost' = FALSE
       \/ lost' = TRUE /\ UNCHANGED told
    /\ telling' = [telling EXCEPT ![t] = None]
    /\ UNCHANGED <<healthy, failures, wants, state, calls>>

Next ==
    \/ BackendChanges \/ Probe
    \/ \E firing, resolved \in BOOLEAN : Webhook(firing, resolved)
    \/ \E t \in Threads : Transition(t) \/ Told(t)

Spec == Init /\ [][Next]_vars
\* The loops run; a message is sent or fails within its timeout, and a thread
\* that waits for the lock gets it.
Fairness ==
    /\ WF_vars(Probe)
    /\ \A t \in Threads : SF_vars(Transition(t)) /\ WF_vars(Told(t))

-----------------------------------------------------------------------------
(* Property                                                                *)

\* The operator's newest message says what the watchdog believes, unless it
\* was the newest that got lost: messages are never sent out of order.  And
\* what the watchdog believes is in the end what the backend is, whatever
\* Alertmanager said (AlertState.transition, monitor_loop).
EventuallyTold ==
    /\ []((\A t \in Threads : telling[t] = None) => lost \/ told = state)
    /\ <>[]~healthy => <>[](lost \/ told = "down")
    /\ <>[]healthy => <>[](lost \/ told = "up")
=============================================================================
