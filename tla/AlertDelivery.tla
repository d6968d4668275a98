---------------------------- MODULE AlertDelivery ----------------------------
(***************************************************************************)
(* What the outbox promises of every alert, without workers, leases or     *)
(* clocks: an alert is announced once, tried a bounded number of times,    *)
(* and settled for ever in one of three ways, only while it was being      *)
(* tried.                                                                  *)
(***************************************************************************)
EXTENDS Integers

CONSTANTS Alerts, MaxTries

VARIABLES stage, tries

alertVars == <<stage, tries>>

Settled == {"delivered", "failed", "uncertain"}

Init ==
  /\ stage = [a \in Alerts |-> "absent"]
  /\ tries = [a \in Alerts |-> 0]

Announce(a) ==
  /\ stage[a] = "absent"
  /\ stage' = [stage EXCEPT ![a] = "queued"]
  /\ UNCHANGED tries

Try(a) ==
  /\ stage[a] = "queued"
  /\ tries[a] < MaxTries
  /\ stage' = [stage EXCEPT ![a] = "trying"]
  /\ tries' = [tries EXCEPT ![a] = @ + 1]

TryAgainLater(a) ==
  /\ stage[a] = "trying"
  /\ tries[a] < MaxTries
  /\ stage' = [stage EXCEPT ![a] = "queued"]
  /\ UNCHANGED tries

Settle(a, outcome) ==
  /\ stage[a] = "trying"
  /\ stage' = [stage EXCEPT ![a] = outcome]
  /\ UNCHANGED tries

\* every try nobody answers for is given up in one step
Abandon(lost) ==
  /\ \A a \in lost : stage[a] = "trying"
  /\ stage' = [a \in Alerts |-> IF a \in lost THEN "uncertain" ELSE stage[a]]
  /\ UNCHANGED tries

Next ==
  \/ \E a \in Alerts : Announce(a) \/ Try(a) \/ TryAgainLater(a)
  \/ \E a \in Alerts, outcome \in Settled : Settle(a, outcome)
  \/ \E lost \in SUBSET Alerts : Abandon(lost)

Spec == Init /\ [][Next]_alertVars
=============================================================================
