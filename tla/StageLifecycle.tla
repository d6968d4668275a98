--------------------------- MODULE StageLifecycle ---------------------------
(***************************************************************************)
(* StageLifecycleStore: the hype, damage and setup a symbol has shown so   *)
(* far, each remembered for a while, so that a trigger may complete a      *)
(* chain that no single evaluation sees whole.  Evaluations run in worker  *)
(* threads: each reads the clock, then waits for its turn to write, and    *)
(* the symbol may be delisted or relisted meanwhile.                       *)
(***************************************************************************)
EXTENDS Integers, FiniteSets

CONSTANTS
    MaxWaiting,                    \* threads that evaluate the symbol at once
    HypeTtl, DamageTtl, SetupTtl,  \* how long a stage is remembered
    Snapshots,                     \* the stages one evaluation may see
    MaxTime, MaxLifecycle,         \* bounds: clock, relistings
    MaxShown                       \* bound: the stages that were stored

LifecycleAssumption ==
    /\ HypeTtl \in Nat /\ DamageTtl \in Nat /\ SetupTtl \in Nat
    /\ MaxWaiting \in Nat /\ MaxTime \in Nat /\ MaxLifecycle \in Nat \ {0}
    /\ MaxShown \in Nat
    /\ Snapshots \subseteq SUBSET {"hype", "damage", "setup", "trigger"}

Never == -1
Times == 0..MaxTime
Seen == Times \cup {Never}
Lifecycles == 1..MaxLifecycle
Stages == {"hype", "damage", "setup", "trigger"}
\* A row of lbank_stage_lifecycle.
Rows == [hype : Seen, damage : Seen, setup : Seen, trigger : Seen,
         updated : Seen]
NoRow == [hype |-> Never, damage |-> Never, setup |-> Never,
          trigger |-> Never, updated |-> Never]
Observations == [lifecycle : Lifecycles, at : Times, stages : SUBSET Stages]

VARIABLES
    now,
    lifecycle, eligible,  \* what the catalogue says of the symbol
    row,                  \* of each lifecycle, its row
    waiting,              \* what evaluations observed and have yet to store
    passed,               \* the confirmed chain just answered: <<lifecycle, time>>
    log                   \* history: <<lifecycle, time, stage>> of what was stored

vars == <<now, lifecycle, eligible, row, waiting, passed, log>>
TypeOK ==
    /\ now \in Times
    /\ lifecycle \in Lifecycles /\ eligible \in BOOLEAN
    /\ row \in [Lifecycles -> Rows]
    /\ waiting \subseteq Observations
    /\ passed \subseteq Lifecycles \X Times
    /\ log \subseteq Lifecycles \X Times \X Stages

Init ==
    /\ now = 0
    /\ lifecycle = 1 /\ eligible = TRUE
    /\ row = [l \in Lifecycles |-> NoRow]
    /\ waiting = {}
    /\ passed = {} /\ log = {}

Tick ==
    /\ now < MaxTime
    /\ now' = now + 1 /\ passed' = {}
    /\ UNCHANGED <<lifecycle, eligible, row, waiting, log>>

Delist ==
    /\ eligible
    /\ eligible' = FALSE /\ passed' = {}
    /\ UNCHANGED <<now, lifecycle, row, waiting, log>>
Relist ==
    /\ ~eligible /\ lifecycle < MaxLifecycle
    /\ lifecycle' = lifecycle + 1 /\ eligible' = TRUE /\ passed' = {}
    /\ UNCHANGED <<now, row, waiting, log>>

\* The thread starts: the lifecycle was read with the candidate, the clock now.
Observe(stages) ==
    /\ eligible /\ Cardinality(log) < MaxShown
    /\ Cardinality(waiting) < MaxWaiting
    /\ waiting' = waiting \cup
            {[lifecycle |-> lifecycle, at |-> now, stages |-> stages]}
    /\ passed' = {}
    /\ UNCHANGED <<now, lifecycle, eligible, row, log>>

\* A row at a time: a stage past its time takes the later ones with it.
Outlived(at, seen, ttl) == seen # Never /\ at - seen > ttl
\* Mutant.
Remembered_StageAlone(r, at) ==
    [r EXCEPT
        !.hype = IF Outlived(at, @, HypeTtl) THEN Never ELSE @,
        !.damage = IF Outlived(at, @, DamageTtl) THEN Never ELSE @,
        !.setup = IF Outlived(at, @, SetupTtl) THEN Never ELSE @]
Remembered(r, at) ==
    CASE Outlived(at, r.hype, HypeTtl) -> [NoRow EXCEPT !.updated = r.updated]
      [] /\ ~Outlived(at, r.hype, HypeTtl)
         /\ Outlived(at, r.damage, DamageTtl) ->
            [r EXCEPT !.damage = Never, !.setup = Never, !.trigger = Never]
      [] /\ ~Outlived(at, r.hype, HypeTtl)
         /\ ~Outlived(at, r.damage, DamageTtl)
         /\ Outlived(at, r.setup, SetupTtl) ->
            [r EXCEPT !.setup = Never, !.trigger = Never]
      [] OTHER -> r

\* A stage counts only on top of the earlier ones; a trigger counts now or
\* never.
Complete(r, stages) ==
    /\ "trigger" \in stages
    /\ r.hype # Never /\ r.damage # Never /\ r.setup # Never
Advanced(r, at, stages) ==
    LET hype == IF "hype" \in stages THEN at ELSE r.hype
        damage == IF "damage" \in stages /\ hype # Never THEN at ELSE r.damage
        setup == IF "setup" \in stages /\ damage # Never THEN at ELSE r.setup
        shown == [r EXCEPT !.hype = hype, !.damage = damage, !.setup = setup,
                           !.updated = at]
    IN [shown EXCEPT !.trigger = IF Complete(shown, stages) THEN at ELSE @]

\* The answer "stale": another lifecycle, not scanned, or out of order.
Stale(o) ==
    \/ o.lifecycle # lifecycle
    \/ ~eligible
    \/ o.at < row[o.lifecycle].updated

\* advance, one transaction.
Store(o) ==
    LET r == Advanced(Remembered(row[o.lifecycle], o.at), o.at, o.stages) IN
    /\ waiting' = waiting \ {o}
    /\ \/ /\ Stale(o)
          /\ passed' = {}
          /\ UNCHANGED <<row, log>>
       \/ /\ ~Stale(o)
          /\ row' = [row EXCEPT ![o.lifecycle] = r]
          /\ log' = log \cup {<<o.lifecycle, o.at, s>> : s \in o.stages}
          /\ passed' = {p \in {<<o.lifecycle, o.at>>} : Complete(r, o.stages)}
    /\ UNCHANGED <<now, lifecycle, eligible>>

\* The transaction fails: persistence unavailable, nothing is confirmed.
StoreFails(o) ==
    /\ waiting' = waiting \ {o} /\ passed' = {}
    /\ UNCHANGED <<now, lifecycle, eligible, row, log>>

Next ==
    \/ Tick \/ Delist \/ Relist
    \/ \E stages \in Snapshots : Observe(stages)
    \/ \E o \in waiting : Store(o) \/ StoreFails(o)

Spec == Init /\ [][Next]_vars

-----------------------------------------------------------------------------
(* Property                                                                *)

\* A chain is confirmed only if this lifecycle showed it: a setup shown not
\* too long ago while a damage was remembered, which was shown while a hype
\* was, without a gap since, however the observations were delayed, reordered
\* or cut off by a relisting (advance: what gates a strict trigger).
Shown(l, at, stage) == <<l, at, stage>> \in log
HypeAlive(l, at) == \E h \in Times : Shown(l, h, "hype") /\ h <= at /\ at <= h + HypeTtl
DamageAlive(l, at) ==
    \E d \in Times : /\ Shown(l, d, "damage") /\ d <= at /\ at <= d + DamageTtl
                      /\ \A t \in d..at : HypeAlive(l, t)
SetupAlive(l, at) ==
    \E s \in Times : /\ Shown(l, s, "setup") /\ s <= at /\ at <= s + SetupTtl
                      /\ \A t \in s..at : DamageAlive(l, t)
PassedChainWasShown ==
    \A p \in passed : Shown(p[1], p[2], "trigger") /\ SetupAlive(p[1], p[2])
=============================================================================
