-------------------------- MODULE EvaluationProofs --------------------------
(***************************************************************************)
(* Theorems about Evaluation, for every value of the constants that its    *)
(* assumption admits.  A step of the whole is a step of one machine, or    *)
(* leaves that machine as it is; what a machine's own steps keep, the      *)
(* whole keeps.                                                            *)
(***************************************************************************)
EXTENDS Evaluation, SequenceTheorems, FiniteSetTheorems, TLAPS

\* Every step is a step of each machine or leaves it as it is.
LEMMA OneMachineSteps ==
    ASSUME [EvaluationNext]_<<evidence, evaluation>>
    PROVE  /\ [Next]_vars
           /\ [V!Next]_(V!vars)
           /\ [R!Next]_(R!vars)
<1> USE DEF EvaluationNext, StreamsNext, StagesNext, VenuesNext, PointsNext,
            LevelsNext, SettingsNext, evaluation
<1>1. [Next]_vars
  OBVIOUS
<1>2. [V!Next]_(V!vars)
  BY DEF V!vars, venues
<1>3. [R!Next]_(R!vars)
  BY DEF R!vars, settings
<1> QED
  BY <1>1, <1>2, <1>3

\* Every machine starts as it does alone.
LEMMA MachinesStart == EvaluationInit => Init /\ V!Init /\ R!Init
BY DEF EvaluationInit

-----------------------------------------------------------------------------
(* StageLifecycle: a chain that is confirmed was shown.  A row only keeps  *)
(* the last time each stage was shown, so the argument is about what the   *)
(* row tells of the history: up to the time it was updated, no gap is      *)
(* hidden between the stages it still remembers.  The history is a         *)
(* parameter: the lemmas are used before and after a step.                 *)

HypeIn(K, l, time) ==
    \E h \in Times : <<l, h, "hype">> \in K /\ h <= time /\ time <= h + HypeTtl
DamageIn(K, l, time) ==
    \E d \in Times : /\ <<l, d, "damage">> \in K /\ d <= time /\ time <= d + DamageTtl
                     /\ \A t \in d..time : HypeIn(K, l, t)
SetupIn(K, l, time) ==
    \E s \in Times : /\ <<l, s, "setup">> \in K /\ s <= time /\ time <= s + SetupTtl
                     /\ \A t \in s..time : DamageIn(K, l, t)

\* What a row says of the history up to a time.
HypeTold(K, l, r, time) ==
    r.hype # Never =>
        <<l, r.hype, "hype">> \in K /\ r.hype <= time /\ time <= r.hype + HypeTtl
DamageTold(K, l, r, time) ==
    r.damage # Never =>
        /\ r.hype # Never
        /\ <<l, r.damage, "damage">> \in K
        /\ r.damage <= time /\ time <= r.damage + DamageTtl
        /\ \A t \in r.damage..time : HypeIn(K, l, t)
SetupTold(K, l, r, time) ==
    r.setup # Never =>
        /\ r.damage # Never
        /\ <<l, r.setup, "setup">> \in K
        /\ r.setup <= time /\ time <= r.setup + SetupTtl
        /\ \A t \in r.setup..time : DamageIn(K, l, t)
Told(K, l, r, time) ==
    HypeTold(K, l, r, time) /\ DamageTold(K, l, r, time) /\ SetupTold(K, l, r, time)

RowsTellTheHistory ==
    \A l \in Lifecycles : Told(log, l, row[l], row[l].updated)

LEMMA TimeFacts ==
    ASSUME LifecycleAssumption
    PROVE  /\ Times \subseteq Nat /\ Seen \subseteq Int
           /\ HypeTtl \in Nat /\ DamageTtl \in Nat /\ SetupTtl \in Nat
           /\ Never = -1 /\ Never \notin Times
           /\ \A t \in Seen : t # Never => t \in Times
BY DEF LifecycleAssumption, Times, Seen, Never

\* More history never takes an answer back.
LEMMA MoreHistory ==
    ASSUME NEW K, NEW M, K \subseteq M, NEW l, NEW r, NEW time
    PROVE  Told(K, l, r, time) => Told(M, l, r, time)
<1>1. \A t : HypeIn(K, l, t) => HypeIn(M, l, t)
  BY DEF HypeIn
<1>2. \A t : DamageIn(K, l, t) => DamageIn(M, l, t)
  BY <1>1 DEF DamageIn
<1>3. HypeTold(K, l, r, time) => HypeTold(M, l, r, time)
  BY DEF HypeTold
<1>4. DamageTold(K, l, r, time) => DamageTold(M, l, r, time)
  BY <1>1 DEF DamageTold
<1>5. SetupTold(K, l, r, time) => SetupTold(M, l, r, time)
  BY <1>2 DEF SetupTold
<1> QED
  BY <1>3, <1>4, <1>5 DEF Told

\* A hype that is not past its time was alive ever since it was shown.
LEMMA HypeSince ==
    ASSUME LifecycleAssumption, NEW K, NEW l, NEW h \in Times, NEW time \in Times,
           <<l, h, "hype">> \in K, time <= h + HypeTtl
    PROVE  \A t \in h..time : HypeIn(K, l, t)
BY TimeFacts DEF HypeIn

\* So was a damage, while a hype was.
LEMMA DamageSince ==
    ASSUME LifecycleAssumption, NEW K, NEW l, NEW d \in Times, NEW time \in Times,
           <<l, d, "damage">> \in K, time <= d + DamageTtl,
           \A t \in d..time : HypeIn(K, l, t)
    PROVE  \A t \in d..time : DamageIn(K, l, t)
<1> SUFFICES ASSUME NEW t \in d..time PROVE DamageIn(K, l, t)
  OBVIOUS
<1>1. d <= t /\ t <= d + DamageTtl
  BY TimeFacts
<1>2. \A u \in d..t : HypeIn(K, l, u)
  BY TimeFacts
<1> QED
  BY <1>1, <1>2 DEF DamageIn

\* Forgetting what is past its time: what is left tells the history up to
\* the later time.
LEMMA RememberedTells ==
    ASSUME LifecycleAssumption, NEW K, NEW l, NEW r \in Rows, NEW time \in Times,
           r.updated <= time, Told(K, l, r, r.updated)
    PROVE  Told(K, l, Remembered(r, time), time)
<1> DEFINE u == r.updated
<1>1. /\ u \in Int /\ time \in Nat
      /\ \A t \in {r.hype, r.damage, r.setup} : t # Never => t \in Times /\ t \in Nat
      /\ Never = -1
  BY TimeFacts DEF Rows
<1>2. ASSUME r.hype # Never, ~Outlived(time, r.hype, HypeTtl)
      PROVE  /\ <<l, r.hype, "hype">> \in K /\ r.hype <= u
             /\ r.hype <= time /\ time <= r.hype + HypeTtl
             /\ \A t \in r.hype..time : HypeIn(K, l, t)
  <2>1. /\ <<l, r.hype, "hype">> \in K /\ r.hype <= u
        /\ r.hype <= time /\ time <= r.hype + HypeTtl
    BY <1>1, <1>2, TimeFacts DEF Outlived, Told, HypeTold
  <2> QED
    BY <1>1, <1>2, <2>1, HypeSince
<1>3. ASSUME r.damage # Never, ~Outlived(time, r.hype, HypeTtl),
             ~Outlived(time, r.damage, DamageTtl)
      PROVE  /\ r.hype # Never /\ <<l, r.damage, "damage">> \in K /\ r.damage <= u
             /\ r.damage <= time /\ time <= r.damage + DamageTtl
             /\ \A t \in r.damage..time : HypeIn(K, l, t)
             /\ \A t \in r.damage..time : DamageIn(K, l, t)
  <2>1. /\ r.hype # Never /\ <<l, r.damage, "damage">> \in K /\ r.damage <= u
        /\ r.damage <= time /\ time <= r.damage + DamageTtl
    BY <1>1, <1>3, TimeFacts DEF Outlived, Told, DamageTold
  <2>2. ASSUME NEW t \in r.damage..time PROVE HypeIn(K, l, t)
    <3>1. CASE t <= u
      BY <1>1, <1>3, <2>2, <3>1 DEF Told, DamageTold
    <3>2. CASE u < t
      <4>1. t \in r.hype..time
        BY <1>1, <1>2, <1>3, <2>1, <2>2, <3>2
      <4> QED
        BY <1>2, <1>3, <2>1, <4>1
    <3> QED
      BY <1>1, <3>1, <3>2
  <2> QED
    BY <1>1, <1>3, <2>1, <2>2, DamageSince
<1>4. ASSUME r.setup # Never, ~Outlived(time, r.hype, HypeTtl),
             ~Outlived(time, r.damage, DamageTtl), ~Outlived(time, r.setup, SetupTtl)
      PROVE  /\ r.damage # Never /\ <<l, r.setup, "setup">> \in K
             /\ r.setup <= time /\ time <= r.setup + SetupTtl
             /\ \A t \in r.setup..time : DamageIn(K, l, t)
  <2>1. /\ r.damage # Never /\ <<l, r.setup, "setup">> \in K
        /\ r.setup <= time /\ time <= r.setup + SetupTtl
    BY <1>1, <1>4, TimeFacts DEF Outlived, Told, SetupTold
  <2>2. ASSUME NEW t \in r.setup..time PROVE DamageIn(K, l, t)
    <3>1. CASE t <= u
      BY <1>1, <1>4, <2>2, <3>1 DEF Told, SetupTold
    <3>2. CASE u < t
      <4>1. t \in r.damage..time
        BY <1>1, <1>3, <1>4, <2>1, <2>2, <3>2
      <4> QED
        BY <1>3, <1>4, <2>1, <4>1
    <3> QED
      BY <1>1, <3>1, <3>2
  <2> QED
    BY <2>1, <2>2
<1> DEFINE m == Remembered(r, time)
<1>5. CASE Outlived(time, r.hype, HypeTtl)
  <2>1. m.hype = Never /\ m.damage = Never /\ m.setup = Never
    BY <1>5 DEF Remembered, NoRow
  <2> QED
    BY <2>1 DEF Told, HypeTold, DamageTold, SetupTold
<1>6. CASE ~Outlived(time, r.hype, HypeTtl) /\ Outlived(time, r.damage, DamageTtl)
  <2>1. m.hype = r.hype /\ m.damage = Never /\ m.setup = Never
    BY <1>6 DEF Remembered, Rows
  <2> QED
    BY <1>2, <1>6, <2>1 DEF Told, HypeTold, DamageTold, SetupTold
<1>7. CASE /\ ~Outlived(time, r.hype, HypeTtl) /\ ~Outlived(time, r.damage, DamageTtl)
           /\ Outlived(time, r.setup, SetupTtl)
  <2>1. m.hype = r.hype /\ m.damage = r.damage /\ m.setup = Never
    BY <1>7 DEF Remembered, Rows
  <2> QED
    BY <1>2, <1>3, <1>7, <2>1 DEF Told, HypeTold, DamageTold, SetupTold
<1>8. CASE /\ ~Outlived(time, r.hype, HypeTtl) /\ ~Outlived(time, r.damage, DamageTtl)
           /\ ~Outlived(time, r.setup, SetupTtl)
  <2>1. Remembered(r, time) = r
    BY <1>8 DEF Remembered
  <2> QED
    BY <1>2, <1>3, <1>4, <1>8, <2>1 DEF Told, HypeTold, DamageTold, SetupTold
<1> QED
  BY <1>5, <1>6, <1>7, <1>8

LEMMA RememberedType ==
    ASSUME NEW r \in Rows, NEW time
    PROVE  Remembered(r, time) \in Rows
BY DEF Remembered, Rows, NoRow, Seen

LEMMA AdvancedType ==
    ASSUME NEW r \in Rows, NEW time \in Times, NEW stages
    PROVE  /\ Advanced(r, time, stages) \in Rows
           /\ Advanced(r, time, stages).updated = time
<1> DEFINE hype == IF "hype" \in stages THEN time ELSE r.hype
           damage == IF "damage" \in stages /\ hype # Never THEN time ELSE r.damage
           setup == IF "setup" \in stages /\ damage # Never THEN time ELSE r.setup
           shown == [r EXCEPT !.hype = hype, !.damage = damage, !.setup = setup,
                              !.updated = time]
<1>1. {hype, damage, setup, time} \subseteq Seen
  BY DEF Rows, Seen
<1>2. Advanced(r, time, stages) =
        [shown EXCEPT !.trigger = IF Complete(shown, stages) THEN time ELSE @]
  BY DEF Advanced
<1> HIDE DEF hype, damage, setup
<1>3. shown \in Rows /\ shown.updated = time
  BY <1>1 DEF Rows
<1> HIDE DEF shown
<1> QED
  BY <1>1, <1>2, <1>3 DEF Rows

\* Advancing a row at a time: a stage that counts now tops a chain without a
\* gap.
LEMMA AdvancedTells ==
    ASSUME LifecycleAssumption, NEW K, NEW l, NEW r \in Rows, NEW time \in Times,
           NEW stages, Told(K, l, r, time), \A s \in stages : <<l, time, s>> \in K
    PROVE  Told(K, l, Advanced(r, time, stages), time)
<1> DEFINE hype == IF "hype" \in stages THEN time ELSE r.hype
           damage == IF "damage" \in stages /\ hype # Never THEN time ELSE r.damage
           setup == IF "setup" \in stages /\ damage # Never THEN time ELSE r.setup
<1>1. /\ Advanced(r, time, stages).hype = hype
      /\ Advanced(r, time, stages).damage = damage
      /\ Advanced(r, time, stages).setup = setup
  BY DEF Advanced, Rows
<1>2. /\ time \in Nat /\ time # Never
      /\ \A t \in {r.hype, r.damage, r.setup} : t # Never => t \in Times
      /\ \A t \in time..time : t = time
  BY TimeFacts DEF Rows
<1>3. hype # Never =>
        <<l, hype, "hype">> \in K /\ hype <= time /\ time <= hype + HypeTtl
  BY <1>2, TimeFacts DEF Told, HypeTold
<1>4. hype # Never => HypeIn(K, l, time)
  BY <1>2, <1>3 DEF HypeIn
<1>5. damage # Never =>
        /\ hype # Never
        /\ <<l, damage, "damage">> \in K
        /\ damage <= time /\ time <= damage + DamageTtl
        /\ \A t \in damage..time : HypeIn(K, l, t)
  <2>1. CASE "damage" \in stages /\ hype # Never
    BY <1>2, <1>4, <2>1, TimeFacts
  <2>2. CASE ~("damage" \in stages /\ hype # Never)
    BY <1>2, <2>2 DEF Told, DamageTold
  <2> QED
    BY <2>1, <2>2
<1>6. damage # Never => DamageIn(K, l, time)
  BY <1>2, <1>5 DEF DamageIn
<1>7. setup # Never =>
        /\ damage # Never
        /\ <<l, setup, "setup">> \in K
        /\ setup <= time /\ time <= setup + SetupTtl
        /\ \A t \in setup..time : DamageIn(K, l, t)
  <2>1. CASE "setup" \in stages /\ damage # Never
    BY <1>2, <1>6, <2>1, TimeFacts
  <2>2. CASE ~("setup" \in stages /\ damage # Never)
    BY <1>2, <2>2 DEF Told, SetupTold
  <2> QED
    BY <2>1, <2>2
<1> HIDE DEF hype, damage, setup
<1> QED
  BY <1>1, <1>3, <1>5, <1>7 DEF Told, HypeTold, DamageTold, SetupTold

\* A complete chain: its setup is alive at the time it completes.
LEMMA CompleteIsAlive ==
    ASSUME LifecycleAssumption, NEW K, NEW l, NEW r \in Rows, NEW time \in Times,
           NEW stages, Told(K, l, r, time), Complete(r, stages)
    PROVE  "trigger" \in stages /\ SetupIn(K, l, time)
<1>1. r.setup \in Times /\ "trigger" \in stages /\ r.setup # Never
  BY TimeFacts DEF Complete, Rows
<1> QED
  BY <1>1 DEF Told, SetupTold, SetupIn

-----------------------------------------------------------------------------

PassedWasShownIn ==
    \A p \in passed : <<p[1], p[2], "trigger">> \in log /\ SetupIn(log, p[1], p[2])

StagesInv == TypeOK /\ RowsTellTheHistory /\ PassedWasShownIn

LEMMA StagesStart ==
    ASSUME LifecycleAssumption
    PROVE  Init => StagesInv
<1> SUFFICES ASSUME Init PROVE StagesInv
  OBVIOUS
<1>1. TypeOK
  BY DEF Init, TypeOK, Rows, NoRow, Seen, Times, Lifecycles, LifecycleAssumption
<1>2. RowsTellTheHistory
  BY DEF Init, RowsTellTheHistory, Told, HypeTold, DamageTold, SetupTold, NoRow
<1>3. PassedWasShownIn
  BY DEF Init, PassedWasShownIn
<1> QED
  BY <1>1, <1>2, <1>3 DEF StagesInv

\* An evaluation stored its observation.
LEMMA StoreKeepsStages ==
    ASSUME LifecycleAssumption, StagesInv, NEW o \in waiting, Store(o)
    PROVE  StagesInv'
<1> DEFINE r == Remembered(row[o.lifecycle], o.at)
           a == Advanced(r, o.at, o.stages)
<1>1. /\ TypeOK /\ RowsTellTheHistory /\ PassedWasShownIn
      /\ waiting' = waiting \ {o} /\ UNCHANGED <<now, lifecycle, eligible>>
  BY DEF StagesInv, Store
<1>2. /\ o.lifecycle \in Lifecycles /\ o.at \in Times /\ o.stages \subseteq Stages
      /\ row[o.lifecycle] \in Rows
  BY <1>1 DEF TypeOK, Observations
<1>3. CASE passed' = {} /\ UNCHANGED <<row, log>>
  BY <1>1, <1>3 DEF StagesInv, TypeOK, RowsTellTheHistory, PassedWasShownIn
<1>4. CASE /\ ~Stale(o)
           /\ row' = [row EXCEPT ![o.lifecycle] = a]
           /\ log' = log \cup {<<o.lifecycle, o.at, s>> : s \in o.stages}
           /\ passed' = {p \in {<<o.lifecycle, o.at>>} : Complete(a, o.stages)}
  <2>1. row[o.lifecycle].updated <= o.at
    BY <1>2, <1>4, TimeFacts DEF Stale, Rows
  <2>2. log \subseteq log' /\ \A s \in o.stages : <<o.lifecycle, o.at, s>> \in log'
    BY <1>4
  <2>3. r \in Rows /\ Told(log', o.lifecycle, r, o.at)
    <3>1. Told(log, o.lifecycle, r, o.at)
      BY <1>1, <1>2, <2>1, RememberedTells DEF RowsTellTheHistory
    <3> QED
      BY <1>2, <2>2, <3>1, RememberedType, MoreHistory
  <2> HIDE DEF r
  <2>4. a \in Rows /\ a.updated = o.at /\ Told(log', o.lifecycle, a, o.at)
    BY <1>2, <2>2, <2>3, AdvancedType, AdvancedTells
  <2> HIDE DEF a
  <2>5. TypeOK'
    <3>1. log' \subseteq Lifecycles \X Times \X Stages
      BY <1>1, <1>2, <1>4 DEF TypeOK
    <3>2. passed' \subseteq Lifecycles \X Times
      BY <1>2, <1>4
    <3>3. row' \in [Lifecycles -> Rows]
      BY <1>1, <1>4, <2>4 DEF TypeOK
    <3> QED
      BY <1>1, <3>1, <3>2, <3>3 DEF TypeOK
  <2>6. ASSUME NEW l \in Lifecycles PROVE Told(log', l, row'[l], row'[l].updated)
    <3>1. CASE l = o.lifecycle
      <4>1. row'[l] = a
        BY <1>1, <1>2, <1>4, <3>1 DEF TypeOK
      <4> QED
        BY <2>4, <3>1, <4>1
    <3>2. CASE l # o.lifecycle
      <4>1. row'[l] = row[l]
        BY <1>1, <1>4, <3>2 DEF TypeOK
      <4>2. Told(log, l, row[l], row[l].updated)
        BY <1>1 DEF RowsTellTheHistory
      <4> QED
        BY <2>2, <4>1, <4>2, MoreHistory
    <3> QED
      BY <3>1, <3>2
  <2>7. PassedWasShownIn'
    <3> SUFFICES ASSUME NEW p \in passed'
                 PROVE  <<p[1], p[2], "trigger">> \in log' /\ SetupIn(log', p[1], p[2])
      BY DEF PassedWasShownIn
    <3>1. p = <<o.lifecycle, o.at>> /\ Complete(a, o.stages)
      BY <1>4
    <3>2. "trigger" \in o.stages /\ SetupIn(log', o.lifecycle, o.at)
      BY <1>2, <2>4, <3>1, CompleteIsAlive
    <3> QED
      BY <2>2, <3>1, <3>2
  <2> QED
    BY <2>5, <2>6, <2>7 DEF StagesInv, RowsTellTheHistory
<1> QED
  BY <1>3, <1>4 DEF Store

\* What neither stores nor answers.
LEMMA QuietStepKeepsStages ==
    ASSUME StagesInv, TypeOK', UNCHANGED <<row, log>>, passed' \subseteq passed
    PROVE  StagesInv'
BY DEF StagesInv, RowsTellTheHistory, PassedWasShownIn

\* Every step of the clock, the catalogue and the evaluations.
LEMMA StagesKept ==
    ASSUME LifecycleAssumption, StagesInv, [Next]_vars
    PROVE  StagesInv'
<1>1. TypeOK
  BY DEF StagesInv
<1>2. CASE Tick
  <2>1. TypeOK'
    BY <1>1, <1>2 DEF Tick, TypeOK, Times, LifecycleAssumption
  <2> QED
    BY <1>2, <2>1, QuietStepKeepsStages DEF Tick
<1>3. CASE Delist
  <2>1. TypeOK'
    BY <1>1, <1>3 DEF Delist, TypeOK
  <2> QED
    BY <1>3, <2>1, QuietStepKeepsStages DEF Delist
<1>4. CASE Relist
  <2>1. TypeOK'
    BY <1>1, <1>4 DEF Relist, TypeOK, Lifecycles, LifecycleAssumption
  <2> QED
    BY <1>4, <2>1, QuietStepKeepsStages DEF Relist
<1>5. ASSUME NEW stages \in Snapshots, Observe(stages) PROVE StagesInv'
  <2>1. [lifecycle |-> lifecycle, at |-> now, stages |-> stages] \in Observations
    BY <1>1 DEF TypeOK, Observations, LifecycleAssumption, Stages
  <2>2. TypeOK'
    BY <1>1, <1>5, <2>1 DEF Observe, TypeOK
  <2> QED
    BY <1>5, <2>2, QuietStepKeepsStages DEF Observe
<1>6. ASSUME NEW o \in waiting, Store(o) PROVE StagesInv'
  BY <1>6, StoreKeepsStages
<1>7. ASSUME NEW o \in waiting, StoreFails(o) PROVE StagesInv'
  <2>1. TypeOK'
    BY <1>1, <1>7 DEF StoreFails, TypeOK
  <2> QED
    BY <1>7, <2>1, QuietStepKeepsStages DEF StoreFails
<1>8. CASE UNCHANGED vars
  <2>1. TypeOK'
    BY <1>1, <1>8 DEF vars, TypeOK
  <2> QED
    BY <1>8, <2>1, QuietStepKeepsStages DEF vars
<1> QED
  BY <1>2, <1>3, <1>4, <1>5, <1>6, <1>7, <1>8 DEF Next

\* The rows of the symbol tell its history, in every reachable state.
THEOREM StagesInvariance == EvaluationSpec => []StagesInv
<1>1. EvaluationInit => StagesInv
  BY MachinesStart, StagesStart, EvaluationsAssumption DEF EvaluationsAssumption
<1>2. StagesInv /\ [EvaluationNext]_<<evidence, evaluation>> => StagesInv'
  BY OneMachineSteps, StagesKept, EvaluationsAssumption DEF EvaluationsAssumption
<1> QED
  BY <1>1, <1>2, PTL DEF EvaluationSpec

\* Every row, observation and answer has its type.
THEOREM StagesTypeCorrect == EvaluationSpec => []TypeOK
<1>1. StagesInv => TypeOK
  BY DEF StagesInv
<1> QED
  BY <1>1, StagesInvariance, PTL

\* A chain is confirmed only if this lifecycle showed it without a gap,
\* whatever the times to live, the delays and the order of the evaluations
\* (advance).
THEOREM ChainsWereShown == EvaluationSpec => []PassedChainWasShown
<1>1. StagesInv => PassedChainWasShown
  BY DEF StagesInv, PassedWasShownIn, PassedChainWasShown, Shown,
         SetupAlive, DamageAlive, HypeAlive, SetupIn, DamageIn, HypeIn
<1> QED
  BY <1>1, StagesInvariance, PTL

-----------------------------------------------------------------------------
(* RuntimeSettings                                                         *)

\* A copy of the settings that still counts was in force when its read began,
\* or is what that read answered when it failed.
Grounded(copy) ==
    copy.age \in R!Recent =>
        /\ R!Coherent(copy.value)
        /\ \/ copy.value \in inForce[copy.age]
           \/ copy.value = R!Defaults /\ copy.age \in faulted
SettingsInv ==
    /\ R!TypeOK
    /\ R!Coherent(stored) /\ stored \in inForce[0]
    /\ Grounded(cache) /\ \A r \in reading : Grounded(r)
    /\ R!DecidesOnRecentSettings

\* The ages that count, and the defaults.
LEMMA SettingsFacts ==
    ASSUME R!SettingsAssumption
    PROVE  /\ CacheTime \in Nat /\ CacheTime # 0 /\ CacheTime \notin R!Recent
           /\ 0 \in R!Recent /\ R!Recent \subseteq R!Ages
           /\ \A a \in R!Ages : a < CacheTime <=> a \in R!Recent
           /\ R!Defaults \in R!Settings /\ R!Coherent(R!Defaults)
<1>1. /\ CacheTime \in Nat /\ CacheTime # 0 /\ CacheTime \notin R!Recent
      /\ 0 \in R!Recent /\ R!Recent \subseteq R!Ages
      /\ \A a \in R!Ages : a < CacheTime <=> a \in R!Recent
  BY DEF R!SettingsAssumption, R!Recent, R!Ages
<1>2. R!Defaults \in R!Settings /\ R!Coherent(R!Defaults)
  BY DEF R!SettingsAssumption, R!Defaults, R!Settings, R!Coherent, R!Knobs
<1> QED
  BY <1>1, <1>2

\* The defaults are stored and nothing is cached.
LEMMA SettingsStart ==
    ASSUME R!SettingsAssumption
    PROVE  R!Init => SettingsInv
<1> SUFFICES ASSUME R!Init PROVE SettingsInv
  OBVIOUS
<1>1. R!TypeOK
  BY SettingsFacts DEF R!Init, R!TypeOK, R!NoCache, R!Copy, R!Copies, R!Ages
<1>2. stored \in inForce[0] /\ R!Coherent(stored)
  BY SettingsFacts DEF R!Init
<1>3. Grounded(cache)
  BY SettingsFacts DEF R!Init, R!NoCache, R!Copy, Grounded
<1> QED
  BY <1>1, <1>2, <1>3 DEF R!Init, SettingsInv, R!DecidesOnRecentSettings

\* What current answers is grounded: the cache while it is fresh, or a read.
LEMMA CurrentIsGrounded ==
    ASSUME R!SettingsAssumption, SettingsInv, NEW v \in R!Settings, R!Current(v)
    PROVE  /\ R!Remembered(v) \in R!Copies
           /\ R!Coherent(v) /\ R!Remembered(v).age \in R!Recent
           /\ R!Remembered(v).value = v
           /\ v \in inForce[R!Remembered(v).age]
                \/ (v = R!Defaults /\ R!Remembered(v).age \in faulted')
           /\ faulted \subseteq faulted' /\ faulted' \subseteq R!Recent
<1>1. /\ cache \in R!Copies /\ faulted \subseteq R!Recent
      /\ R!Coherent(stored) /\ stored \in inForce[0] /\ Grounded(cache)
  BY DEF SettingsInv, R!TypeOK
<1>2. CASE R!Fresh
  <2>1. v = cache.value /\ UNCHANGED faulted /\ R!Remembered(v) = cache
    BY <1>2 DEF R!Current, R!Remembered
  <2>2. cache.age \in R!Recent
    BY <1>1, <1>2, SettingsFacts DEF R!Fresh, R!Copies
  <2>3. /\ R!Coherent(cache.value)
        /\ cache.value \in inForce[cache.age]
             \/ (cache.value = R!Defaults /\ cache.age \in faulted)
    BY <1>1, <2>2 DEF Grounded
  <2> QED
    BY <1>1, <2>1, <2>2, <2>3
<1>3. CASE ~R!Fresh
  <2>1. R!Reads(v) /\ R!Remembered(v) = R!Copy(v, 0)
    BY <1>3 DEF R!Current, R!Remembered
  <2>2. R!Copy(v, 0) \in R!Copies /\ R!Copy(v, 0).age = 0 /\ R!Copy(v, 0).value = v
    BY SettingsFacts DEF R!Copy, R!Copies
  <2>3. CASE v = stored /\ UNCHANGED faulted
    <3>1. R!Coherent(v) /\ v \in inForce[0]
      BY <1>1, <2>3
    <3> QED
      BY <1>1, <2>1, <2>2, <2>3, <3>1, SettingsFacts
  <2>4. CASE v = R!Defaults /\ faulted' = faulted \cup {0}
    BY <1>1, <2>1, <2>2, <2>4, SettingsFacts
  <2> QED
    BY <2>1, <2>3, <2>4 DEF R!Reads
<1> QED
  BY <1>2, <1>3

\* What is in force only grows within a time: copies stay grounded.
LEMMA StillGrounded ==
    ASSUME faulted \subseteq faulted', \A a \in R!Recent : inForce[a] \subseteq inForce'[a],
           NEW copy, Grounded(copy)
    PROVE  Grounded(copy)'
BY DEF Grounded

\* Time passes: the copies age with what was in force.
LEMMA TickKeepsSettings ==
    ASSUME R!SettingsAssumption, SettingsInv, R!Tick
    PROVE  SettingsInv'
<1>1. /\ R!TypeOK /\ R!Coherent(stored) /\ Grounded(cache)
      /\ \A r \in reading : Grounded(r)
  BY DEF SettingsInv
<1>2. ASSUME NEW copy \in R!Copies
      PROVE  /\ R!Older(copy) \in R!Copies /\ R!Older(copy).value = copy.value
             /\ R!Older(copy).age \in R!Recent =>
                    copy.age \in R!Recent /\ R!Older(copy).age = copy.age + 1
  BY <1>2, SettingsFacts DEF R!Older, R!Copies, R!Ages, R!Recent
<1>3. ASSUME NEW copy \in R!Copies, Grounded(copy)
      PROVE  Grounded(R!Older(copy))'
  <2> SUFFICES ASSUME R!Older(copy).age \in R!Recent
               PROVE  /\ R!Coherent(R!Older(copy).value)
                      /\ \/ R!Older(copy).value \in inForce'[R!Older(copy).age]
                         \/ /\ R!Older(copy).value = R!Defaults
                            /\ R!Older(copy).age \in faulted'
    BY DEF Grounded, R!Older
  <2>1. /\ copy.age \in R!Recent /\ R!Older(copy).age = copy.age + 1
        /\ R!Older(copy).value = copy.value /\ copy.age \in Nat
    BY <1>2 DEF R!Recent
  <2>2. inForce'[copy.age + 1] = inForce[copy.age]
    BY <2>1 DEF R!Tick
  <2>3. copy.age \in faulted => copy.age + 1 \in faulted'
    BY <2>1 DEF R!Tick
  <2> QED
    BY <1>3, <2>1, <2>2, <2>3 DEF Grounded
<1>4. R!TypeOK'
  <2>1. cache' \in R!Copies /\ reading' \in SUBSET R!Copies
    BY <1>1, <1>2 DEF R!Tick, R!TypeOK
  <2>2. inForce' \in [R!Recent -> SUBSET R!Settings]
    <3>1. ASSUME NEW a \in R!Recent, a # 0 PROVE a - 1 \in R!Recent
      BY <3>1, SettingsFacts DEF R!Recent
    <3> QED
      BY <1>1, <3>1 DEF R!Tick, R!TypeOK
  <2> QED
    BY <1>1, <2>1, <2>2 DEF R!Tick, R!TypeOK
<1>5. Grounded(cache)'
  <2>1. cache \in R!Copies /\ cache' = R!Older(cache)
    BY <1>1 DEF R!TypeOK, R!Tick
  <2> QED
    BY <1>1, <1>3, <2>1 DEF Grounded
<1>6. ASSUME NEW r \in reading' PROVE Grounded(r)'
  <2>1. PICK c \in reading : r = R!Older(c)
    BY <1>6 DEF R!Tick
  <2> QED
    BY <1>1, <1>3, <2>1 DEF R!TypeOK
<1>7. stored' \in inForce'[0] /\ R!Coherent(stored)'
  BY <1>1, SettingsFacts DEF R!Tick, R!Coherent
<1>8. R!DecidesOnRecentSettings'
  BY DEF R!Tick, R!DecidesOnRecentSettings
<1> QED
  BY <1>4, <1>5, <1>6, <1>7, <1>8 DEF SettingsInv

\* A step that leaves the row alone, and whose copies are grounded.
LEMMA ReadKeepsSettings ==
    ASSUME R!SettingsAssumption, SettingsInv, UNCHANGED <<stored, audited, inForce>>,
           faulted \subseteq faulted', faulted' \subseteq R!Recent,
           cache' \in R!Copies, reading' \in SUBSET R!Copies,
           Grounded(cache)', \A r \in reading' : Grounded(r)',
           used' \in SUBSET R!Settings, R!DecidesOnRecentSettings'
    PROVE  SettingsInv'
<1>1. R!TypeOK'
  BY DEF SettingsInv, R!TypeOK
<1>2. stored' \in inForce'[0] /\ R!Coherent(stored)'
  BY DEF SettingsInv, R!Coherent
<1> QED
  BY <1>1, <1>2 DEF SettingsInv

\* What a decision remembers is grounded, and so are the copies of a worker.
LEMMA RememberedStays ==
    ASSUME R!SettingsAssumption, SettingsInv, NEW v \in R!Settings, R!Current(v),
           \A a \in R!Recent : inForce[a] \subseteq inForce'[a],
           cache' = R!Remembered(v)
    PROVE  Grounded(cache)'
<1>1. /\ R!Coherent(v) /\ cache'.age \in R!Recent /\ cache'.value = v
      /\ v \in inForce[cache'.age] \/ (v = R!Defaults /\ cache'.age \in faulted')
  BY CurrentIsGrounded
<1>2. v \in inForce'[cache'.age] \/ (v = R!Defaults /\ cache'.age \in faulted')
  BY <1>1
<1>3. R!Coherent(cache'.value)
  BY <1>1, Zenon
<1> QED
  BY <1>1, <1>2, <1>3 DEF Grounded, R!Coherent

\* The copies of a worker stay grounded while nothing is forgotten.
LEMMA ReadingStays ==
    ASSUME SettingsInv, faulted \subseteq faulted',
           \A a \in R!Recent : inForce[a] \subseteq inForce'[a],
           UNCHANGED reading
    PROVE  \A r \in reading' : Grounded(r)'
<1> SUFFICES ASSUME NEW r \in reading' PROVE Grounded(r)'
  OBVIOUS
<1>1. Grounded(r)
  BY DEF SettingsInv
<1> QED
  BY <1>1, StillGrounded

\* A decision uses what current answers, and remembers it.
LEMMA DecideKeepsSettings ==
    ASSUME R!SettingsAssumption, SettingsInv, R!Decide
    PROVE  SettingsInv'
<1>1. PICK v \in R!Settings :
        /\ R!Current(v) /\ cache' = R!Remembered(v) /\ used' = {v}
        /\ UNCHANGED <<stored, audited, reading, inForce>>
  BY DEF R!Decide
<1>2. Grounded(cache)' /\ \A r \in reading' : Grounded(r)'
  BY <1>1, CurrentIsGrounded, RememberedStays, ReadingStays
<1>3. R!DecidesOnRecentSettings'
  <2>1. /\ R!Coherent(v) /\ cache'.age \in R!Recent
        /\ v \in inForce'[cache'.age] \/ (v = R!Defaults /\ cache'.age \in faulted')
    BY <1>1, CurrentIsGrounded
  <2>2. R!Coherent(v)'
    BY <2>1 DEF R!Coherent
  <2> QED
    BY <1>1, <2>1, <2>2 DEF R!DecidesOnRecentSettings, R!Coherent
<1>4. /\ cache' \in R!Copies /\ reading' \in SUBSET R!Copies
      /\ faulted \subseteq faulted' /\ faulted' \subseteq R!Recent
  BY <1>1, CurrentIsGrounded DEF SettingsInv, R!TypeOK
<1> QED
  BY <1>1, <1>2, <1>3, <1>4, ReadKeepsSettings

\* A change is merged into what current answers.
LEMMA WriteKeepsSettings ==
    ASSUME R!SettingsAssumption, SettingsInv, NEW v \in R!Settings, R!Current(v),
           NEW changes, DOMAIN changes \subseteq R!Knobs,
           \A k \in DOMAIN changes : changes[k] \in 0..Level,
           R!Write(v, changes), used' = {}, UNCHANGED reading
    PROVE  SettingsInv'
<1> DEFINE candidate == R!Merged(v, changes)
           differing == {k \in DOMAIN changes : v[k] # changes[k]}
<1>1. candidate \in R!Settings
  BY DEF R!Merged, R!Settings
<1>2. faulted \subseteq faulted' /\ faulted' \subseteq R!Recent
  BY CurrentIsGrounded
<1>3. R!DecidesOnRecentSettings'
  BY DEF R!DecidesOnRecentSettings
<1>4. R!TypeOK
  BY DEF SettingsInv
<1>5. CASE R!Coherent(candidate) /\ differing # {}
  <2>1. /\ stored' = candidate /\ cache' = R!NoCache
        /\ audited' = [k \in R!Knobs |-> IF k \in differing THEN changes[k] ELSE audited[k]]
        /\ inForce' = [inForce EXCEPT ![0] = @ \cup {candidate}]
    BY <1>5 DEF R!Write
  <2> HIDE DEF candidate
  <2>2. R!TypeOK'
    <3>1. cache' \in R!Copies
      BY <2>1, SettingsFacts DEF R!NoCache, R!Copy, R!Copies, R!Ages
    <3>2. audited' \in R!Settings
      BY <1>4, <2>1 DEF R!TypeOK, R!Settings
    <3>3. inForce' \in [R!Recent -> SUBSET R!Settings]
      BY <1>1, <1>4, <2>1, SettingsFacts DEF R!TypeOK
    <3> QED
      BY <1>1, <1>2, <1>4, <2>1, <3>1, <3>2, <3>3 DEF R!TypeOK
  <2>3. /\ \A a \in R!Recent : inForce[a] \subseteq inForce'[a]
        /\ stored' \in inForce'[0]
    BY <1>4, <2>1, SettingsFacts DEF R!TypeOK
  <2>4. R!Coherent(stored)'
    BY <1>5, <2>1 DEF R!Coherent
  <2>5. Grounded(cache)'
    BY <2>1, SettingsFacts DEF Grounded, R!NoCache, R!Copy
  <2>6. \A r \in reading' : Grounded(r)'
    BY <1>2, <2>3, ReadingStays
  <2> QED
    BY <1>3, <2>2, <2>3, <2>4, <2>5, <2>6 DEF SettingsInv
<1>6. CASE ~(R!Coherent(candidate) /\ differing # {})
  <2>1. cache' = R!Remembered(v) /\ UNCHANGED <<stored, audited, inForce>>
    BY <1>6 DEF R!Write
  <2>2. Grounded(cache)' /\ \A r \in reading' : Grounded(r)'
    BY <1>2, <2>1, RememberedStays, ReadingStays
  <2>3. cache' \in R!Copies /\ reading' \in SUBSET R!Copies
    BY <1>4, <2>1, CurrentIsGrounded DEF R!TypeOK
  <2> QED
    BY <1>2, <1>3, <2>1, <2>2, <2>3, ReadKeepsSettings
<1> QED
  BY <1>5, <1>6

\* A reset applies the defaults of what has drifted.
LEMMA ResetKeepsSettings ==
    ASSUME R!SettingsAssumption, SettingsInv, R!Reset
    PROVE  SettingsInv'
<1>1. PICK v \in R!Settings :
        /\ R!Current(v) /\ used' = {} /\ UNCHANGED reading
        /\ LET drifted == {k \in R!Knobs : v[k] # R!Defaults[k]}
           IN IF drifted = {}
              THEN cache' = R!Remembered(v) /\ UNCHANGED <<stored, audited, inForce>>
              ELSE R!Write(v, R!Restrict(R!Defaults, drifted))
  BY DEF R!Reset
<1> DEFINE drifted == {k \in R!Knobs : v[k] # R!Defaults[k]}
           changes == R!Restrict(R!Defaults, drifted)
<1>2. CASE drifted = {}
  <2>1. cache' = R!Remembered(v) /\ UNCHANGED <<stored, audited, inForce>>
    BY <1>1, <1>2
  <2>2. /\ cache' \in R!Copies /\ reading' \in SUBSET R!Copies
        /\ faulted \subseteq faulted' /\ faulted' \subseteq R!Recent
    BY <1>1, <2>1, CurrentIsGrounded DEF SettingsInv, R!TypeOK
  <2>3. Grounded(cache)' /\ \A r \in reading' : Grounded(r)'
    BY <1>1, <2>1, <2>2, RememberedStays, ReadingStays
  <2>4. R!DecidesOnRecentSettings'
    BY <1>1 DEF R!DecidesOnRecentSettings
  <2> QED
    BY <1>1, <2>1, <2>2, <2>3, <2>4, ReadKeepsSettings
<1>3. CASE drifted # {}
  <2>1. /\ DOMAIN changes \subseteq R!Knobs
        /\ \A k \in DOMAIN changes : changes[k] \in 0..Level
    BY SettingsFacts DEF R!Restrict, R!Settings
  <2>2. R!Write(v, changes)
    BY <1>1, <1>3
  <2> QED
    BY <1>1, <2>1, <2>2, WriteKeepsSettings
<1> QED
  BY <1>2, <1>3

\* The worker keeps the time its read began.
LEMMA WorkerKeepsSettings ==
    ASSUME R!SettingsAssumption, SettingsInv, R!WorkerReads \/ R!WorkerCaches
    PROVE  SettingsInv'
<1>1. R!TypeOK
  BY DEF SettingsInv
<1>2. R!DecidesOnRecentSettings'
  BY DEF R!WorkerReads, R!WorkerCaches, R!DecidesOnRecentSettings
<1>3. CASE R!WorkerReads
  <2>1. PICK v \in R!Settings :
          R!Reads(v) /\ reading' = {R!Copy(v, 0)} /\ ~R!Fresh
    BY <1>3 DEF R!WorkerReads
  <2>2. used' = {} /\ UNCHANGED <<stored, audited, cache, inForce>>
    BY <1>3 DEF R!WorkerReads
  <2>3. R!Current(v) /\ R!Remembered(v) = R!Copy(v, 0)
    BY <2>1 DEF R!Current, R!Remembered
  <2>4. /\ R!Copy(v, 0) \in R!Copies
        /\ faulted \subseteq faulted' /\ faulted' \subseteq R!Recent
        /\ R!Coherent(R!Copy(v, 0).value)
        /\ \/ R!Copy(v, 0).value \in inForce[R!Copy(v, 0).age]
           \/ R!Copy(v, 0).value = R!Defaults /\ R!Copy(v, 0).age \in faulted'
    BY <2>3, CurrentIsGrounded, Zenon
  <2>5. ASSUME NEW r \in reading' PROVE Grounded(r)'
    BY <2>1, <2>2, <2>4 DEF Grounded, R!Coherent
  <2>6. Grounded(cache)'
    <3>1. Grounded(cache)
      BY DEF SettingsInv
    <3> QED
      BY <2>2, <2>4, <3>1 DEF Grounded
  <2> QED
    BY <1>1, <1>2, <2>1, <2>2, <2>4, <2>5, <2>6, ReadKeepsSettings DEF R!TypeOK
<1>4. CASE R!WorkerCaches
  <2>1. PICK r \in reading : cache' = r
    BY <1>4 DEF R!WorkerCaches, R!Caches
  <2>2. reading' = {} /\ used' = {} /\ UNCHANGED <<stored, audited, inForce, faulted>>
    BY <1>4 DEF R!WorkerCaches
  <2>3. Grounded(cache)'
    <3>1. Grounded(r)
      BY DEF SettingsInv
    <3> QED
      BY <2>1, <2>2, <3>1 DEF Grounded
  <2> QED
    BY <1>1, <1>2, <2>1, <2>2, <2>3, ReadKeepsSettings DEF R!TypeOK
<1> QED
  BY <1>3, <1>4

\* The row stays when the process ends.
LEMMA RestartKeepsSettings ==
    ASSUME R!SettingsAssumption, SettingsInv, R!Restart
    PROVE  SettingsInv'
<1>1. /\ cache' = R!NoCache /\ reading' = {} /\ used' = {}
      /\ UNCHANGED <<stored, audited, inForce, faulted>>
  BY DEF R!Restart
<1>2. Grounded(cache)' /\ cache' \in R!Copies
  BY <1>1, SettingsFacts DEF Grounded, R!NoCache, R!Copy, R!Copies, R!Ages
<1>3. R!DecidesOnRecentSettings'
  BY <1>1 DEF R!DecidesOnRecentSettings
<1>4. faulted' \subseteq R!Recent
  BY <1>1 DEF SettingsInv, R!TypeOK
<1> QED
  BY <1>1, <1>2, <1>3, <1>4, ReadKeepsSettings

\* Every step of the clock, the operator, the event loop and the worker.
LEMMA SettingsKept ==
    ASSUME R!SettingsAssumption, SettingsInv, [R!Next]_(R!vars)
    PROVE  SettingsInv'
<1>1. ASSUME NEW changes \in R!Changes, R!Apply(changes)
      PROVE  SettingsInv'
  <2>1. PICK v \in R!Settings : R!Current(v) /\ R!Write(v, changes)
    BY <1>1 DEF R!Apply
  <2>2. used' = {} /\ UNCHANGED reading
    BY <1>1 DEF R!Apply
  <2>3. PICK ks \in SUBSET R!Knobs : changes \in [ks -> 0..Level]
    BY DEF R!Changes
  <2> QED
    BY <2>1, <2>2, <2>3, WriteKeepsSettings
<1>2. CASE UNCHANGED R!vars
  <2>1. Grounded(cache)' /\ \A r \in reading' : Grounded(r)'
    BY <1>2 DEF R!vars, SettingsInv, Grounded
  <2> QED
    BY <1>2, <2>1 DEF R!vars, SettingsInv, R!TypeOK, R!Coherent,
                      R!DecidesOnRecentSettings
<1> QED
  BY <1>1, <1>2, TickKeepsSettings, DecideKeepsSettings, ResetKeepsSettings,
     WorkerKeepsSettings, RestartKeepsSettings DEF R!Next

\* The copies of the settings are grounded in every reachable state.
THEOREM SettingsInvariance == EvaluationSpec => []SettingsInv
<1>1. EvaluationInit => SettingsInv
  BY MachinesStart, SettingsStart, EvaluationsAssumption DEF EvaluationsAssumption
<1>2. SettingsInv /\ [EvaluationNext]_<<evidence, evaluation>> => SettingsInv'
  BY OneMachineSteps, SettingsKept, EvaluationsAssumption DEF EvaluationsAssumption
<1> QED
  BY <1>1, <1>2, PTL DEF EvaluationSpec

\* A decision never rests on settings older than the cache allows, also when a
\* worker cached late what it read before a change (current, apply).
THEOREM SettingsAreRecent == EvaluationSpec => []DecidesOnRecentSettings
<1>1. SettingsInv => DecidesOnRecentSettings
  BY DEF SettingsInv, DecidesOnRecentSettings
<1> QED
  BY <1>1, SettingsInvariance, PTL

-----------------------------------------------------------------------------
(* SymbolEvaluation                                                        *)

\* A source of derivatives of one of the venues an evaluation may rest on.
From(ask, venue) == ask[1] \in {"direct", "coinglass"} /\ ask[2] \in {venue, Futures}
\* The aggregator is asked for a venue after the venue itself.
DirectFirst(queue, given) ==
    \A i \in 1..Len(queue) : queue[i][1] = "coinglass" =>
        \/ <<"direct", queue[i][2]>> \in given
        \/ \E j \in 1..(i - 1) : queue[j] = <<"direct", queue[i][2]>>
\* What is selected is the venue the waterfall stands at; those it rejected
\* lie before it.
Passed == \A v \in unusable : \E i \in 1..(position - 1) : v = Chain[i]
Selected ==
    /\ selected # V!None
    /\ selected \notin unusable
    /\ asks \in Seq(V!Sources)
    /\ \A i \in 1..Len(asks) : From(asks[i], selected)
    /\ DirectFirst(asks, refused)
    /\ derivatives # <<V!None>> =>
        /\ From(derivatives, selected)
        /\ derivatives[1] = "coinglass" => <<"direct", derivatives[2]>> \in refused
NothingSelected == selected = V!None /\ derivatives = <<V!None>>
VenuesInv ==
    /\ position \in 1..(Len(Chain) + 1) /\ loud \in BOOLEAN
    /\ step \in {"idle", "hint", "probe", "venue"} => NothingSelected
    /\ step = "idle" => position = 1 /\ unusable = {}
    /\ step \in {"idle", "hint"} => ~loud
    /\ step = "probe" => (loud => unusable # {})
    /\ step \in {"venue"} => Passed
    /\ step \in {"derivatives", "benchmark", "judge"} => Selected
    /\ step # "done" => outcome = V!NoOutcome
    /\ outcome.valid => Selected /\ derivatives # <<V!None>>
    /\ V!KeptOnlyWhenQuiet

\* The chain names every venue once.
LEMMA ChainFacts ==
    ASSUME V!EvaluationAssumption
    PROVE  /\ Len(Chain) \in Nat
           /\ \A i \in 1..Len(Chain) : Chain[i] \in V!Venues /\ Chain[i] # V!None
           /\ \A i, j \in 1..Len(Chain) : Chain[i] = Chain[j] => i = j
           /\ Futures \in V!Venues
BY DEF V!EvaluationAssumption, V!Venues, V!Range, V!IsInjective, V!None

\* A venue that is not beyond the chain has a next position.
LEMMA NextPosition ==
    ASSUME NEW n \in Nat, NEW p \in 1..(n + 1), ~(p > n)
    PROVE  p + 1 \in 1..(n + 1)
OBVIOUS

\* Nothing is selected and nothing is told at the start.
LEMMA VenuesStart ==
    ASSUME V!EvaluationAssumption
    PROVE  V!Init => VenuesInv
<1> SUFFICES ASSUME V!Init PROVE VenuesInv
  OBVIOUS
<1>1. position \in 1..(Len(Chain) + 1) /\ loud = FALSE
  BY ChainFacts DEF V!Init
<1>2. outcome = V!NoOutcome /\ outcome.valid = FALSE /\ outcome.status = V!None
  BY DEF V!Init, V!NoOutcome
<1> QED
  BY <1>1, <1>2 DEF V!Init, VenuesInv, NothingSelected, V!KeptOnlyWhenQuiet, V!None

\* A full validation begins at the head of the chain.
LEMMA FullBegins ==
    ASSUME V!EvaluationAssumption, V!Full, NothingSelected', outcome' = V!NoOutcome,
           loud' \in BOOLEAN
    PROVE  VenuesInv'
<1>1. step' = "venue" /\ position' = 1 /\ unusable' = {}
  BY DEF V!Full
<1>2. position' \in 1..(Len(Chain) + 1)
  BY <1>1, ChainFacts
<1>3. outcome'.valid = FALSE /\ outcome'.status = V!None
  BY DEF V!NoOutcome
<1> QED
  BY <1>1, <1>2, <1>3 DEF VenuesInv, Passed, V!KeptOnlyWhenQuiet, V!None

\* A symbol is kept at WATCH when its probe was quiet.
LEMMA ClaimKeepsVenues ==
    ASSUME V!EvaluationAssumption, VenuesInv, NEW due \in BOOLEAN, V!ClaimOrKeep(due),
           step \in {"hint", "probe"}, loud' = FALSE, quiet' # {},
           UNCHANGED <<selected, asks, refused, derivatives>>
    PROVE  VenuesInv'
<1>1. NothingSelected' /\ outcome = V!NoOutcome
  BY DEF VenuesInv, NothingSelected
<1>2. CASE due /\ slot
  BY <1>1, <1>2, FullBegins DEF V!ClaimOrKeep
<1>3. CASE ~(due /\ slot)
  <2>1. /\ step' = "done" /\ outcome' = V!Observed("WATCH")
        /\ UNCHANGED <<slot, position, unusable>>
    BY <1>3 DEF V!ClaimOrKeep
  <2>2. outcome'.valid = FALSE
    BY <2>1 DEF V!Observed, V!NoOutcome
  <2>3. position' \in 1..(Len(Chain) + 1) /\ loud' \in BOOLEAN
    BY <2>1 DEF VenuesInv
  <2> QED
    BY <1>1, <2>1, <2>2, <2>3 DEF VenuesInv, NothingSelected, V!KeptOnlyWhenQuiet
<1> QED
  BY <1>2, <1>3

\* watch_prefilter.
LEMMA HintKeepsVenues ==
    ASSUME V!EvaluationAssumption, VenuesInv, NEW v \in V!Venues,
           NEW answer \in {"unusable", "hype", "no hype"}, NEW due \in BOOLEAN,
           V!Hint(v, answer, due)
    PROVE  VenuesInv'
<1>0. step \in {"hint", "probe"} => NothingSelected /\ outcome = V!NoOutcome
  BY DEF VenuesInv
<1>1. /\ step = "hint" /\ UNCHANGED <<selected, asks, refused, derivatives>>
      /\ loud' \in BOOLEAN
  BY DEF V!Hint, V!evidence, VenuesInv
<1>2. CASE V!Full /\ UNCHANGED outcome
  BY <1>0, <1>1, <1>2, FullBegins DEF NothingSelected
<1>3. CASE V!ClaimOrKeep(due) /\ quiet' = {v} /\ UNCHANGED loud
  <2>1. loud' = FALSE /\ quiet' # {}
    BY <1>1, <1>3 DEF VenuesInv
  <2> QED
    BY <1>1, <1>3, <2>1, ClaimKeepsVenues
<1> QED
  BY <1>2, <1>3 DEF V!Hint

\* watch_prefilter_waterfall, a venue that shows no hype.
LEMMA ProbeKeepsVenues ==
    ASSUME V!EvaluationAssumption, VenuesInv,
           NEW answer \in {"incompatible", "unusable", "no hype"}, V!Probe(answer)
    PROVE  VenuesInv'
<1>0. step \in {"hint", "probe"} => NothingSelected /\ outcome = V!NoOutcome
  BY DEF VenuesInv
<1>1. /\ step = "probe" /\ ~V!Exhausted /\ position' = position + 1
      /\ UNCHANGED <<step, selected, asks, refused, derivatives, outcome>>
      /\ loud' = (loud \/ answer = "unusable")
  BY DEF V!Probe, V!evidence
<1>2. /\ answer = "unusable" => unusable' # {}
      /\ unusable \subseteq unusable'
  BY DEF V!Probe
<1>3. position' \in 1..(Len(Chain) + 1)
  <2>1. position \in 1..(Len(Chain) + 1) /\ ~(position > Len(Chain))
    BY <1>1 DEF VenuesInv, V!Exhausted
  <2>2. Len(Chain) \in Nat /\ position' = position + 1
    BY ChainFacts DEF V!Probe
  <2> QED
    BY <2>1, <2>2, NextPosition
<1>4. loud' \in BOOLEAN /\ (loud' => unusable' # {})
  BY <1>1, <1>2 DEF VenuesInv
<1>5. NothingSelected' /\ outcome' = V!NoOutcome
  BY <1>0, <1>1 DEF NothingSelected
<1>6. outcome'.valid = FALSE /\ outcome'.status = V!None
  BY <1>5 DEF V!NoOutcome
<1> QED
  BY <1>1, <1>3, <1>4, <1>5, <1>6 DEF VenuesInv, V!KeptOnlyWhenQuiet, V!None

\* The hype of a venue ends the probe.
LEMMA ProbeHypeKeepsVenues ==
    ASSUME V!EvaluationAssumption, VenuesInv, V!ProbeHype
    PROVE  VenuesInv'
<1>1. step = "probe" /\ V!Full /\ UNCHANGED <<selected, derivatives, outcome>>
  BY DEF V!ProbeHype, V!evidence
<1>2. loud' \in BOOLEAN
  BY DEF V!ProbeHype
<1> QED
  BY <1>1, <1>2, FullBegins DEF VenuesInv, NothingSelected

\* The end of the chain: quiet, or not conclusive.
LEMMA ProbeEndsKeepsVenues ==
    ASSUME V!EvaluationAssumption, VenuesInv, V!ProbeEnds
    PROVE  VenuesInv'
<1>0. step \in {"hint", "probe"} => NothingSelected /\ outcome = V!NoOutcome
  BY DEF VenuesInv
<1>1. step = "probe" /\ UNCHANGED <<selected, asks, refused, derivatives, quiet, loud>>
  BY DEF V!ProbeEnds, V!evidence
<1>2. CASE V!Conclusive
  <2>1. unusable = {} /\ Cardinality(quiet) >= RequiredNoHype
    BY <1>2 DEF V!Conclusive, V!Cardinality, Cardinality
  <2>2. RequiredNoHype \in Nat /\ RequiredNoHype # 0
    BY DEF V!EvaluationAssumption
  <2>3. quiet # {} /\ loud = FALSE
    <3>1. ASSUME quiet = {} PROVE FALSE
      <4>1. Cardinality(quiet) = 0
        BY <3>1, FS_EmptySet
      <4> QED
        BY <2>1, <2>2, <4>1
    <3> QED
      BY <1>1, <2>1, <3>1 DEF VenuesInv
  <2> QED
    BY <1>1, <1>2, <2>3, ClaimKeepsVenues DEF V!ProbeEnds
<1>3. CASE ~V!Conclusive
  <2>1. V!Full /\ UNCHANGED outcome /\ loud' \in BOOLEAN
    BY <1>1, <1>3 DEF V!ProbeEnds, VenuesInv
  <2> QED
    BY <1>0, <1>1, <2>1, FullBegins DEF NothingSelected
<1> QED
  BY <1>2, <1>3

\* The venues of the chain in turn, up to the first with a complete packet.
LEMMA WaterfallKeepsVenues ==
    ASSUME V!EvaluationAssumption, VenuesInv, NEW answer,
           V!Skip(answer) \/ V!Unavailable
    PROVE  VenuesInv'
<1>1. /\ step = "venue" /\ NothingSelected /\ outcome = V!NoOutcome /\ Passed
      /\ position \in 1..(Len(Chain) + 1) /\ loud \in BOOLEAN
  BY DEF VenuesInv, V!Skip, V!Unavailable
<1>2. CASE V!Skip(answer)
  <2>1. /\ UNCHANGED <<step, loud, outcome, selected, derivatives>>
        /\ position' = position + 1 /\ ~(position > Len(Chain))
        /\ unusable' \subseteq unusable \cup {Chain[position]}
    BY <1>2 DEF V!Skip, V!Exhausted, V!evidence, V!Here
  <2>2. position' \in 1..(Len(Chain) + 1)
    <3>1. Len(Chain) \in Nat
      BY ChainFacts
    <3> QED
      BY <1>1, <2>1, <3>1
  <2>3. Passed'
    <3> SUFFICES ASSUME NEW v \in unusable'
                 PROVE  \E i \in 1..(position' - 1) : v = Chain[i]
      BY DEF Passed
    <3>1. CASE v \in unusable
      BY <1>1, <2>1, <3>1 DEF Passed
    <3>2. CASE v = Chain[position]
      BY <1>1, <2>1, <3>2
    <3> QED
      BY <2>1, <3>1, <3>2
  <2>4. outcome'.valid = FALSE /\ outcome'.status = V!None
    BY <1>1, <2>1 DEF V!NoOutcome
  <2> QED
    BY <1>1, <2>1, <2>2, <2>3, <2>4 DEF VenuesInv, NothingSelected, V!KeptOnlyWhenQuiet,
                                      V!None
<1>3. CASE V!Unavailable
  <2>1. step' = "done" /\ outcome' = V!Observed("REJECTED") /\ UNCHANGED <<position, loud>>
    BY <1>3 DEF V!Unavailable
  <2>2. outcome'.valid = FALSE /\ outcome'.status = "REJECTED"
    BY <2>1 DEF V!Observed, V!NoOutcome
  <2> QED
    BY <1>1, <2>1, <2>2 DEF VenuesInv, V!KeptOnlyWhenQuiet
<1> QED
  BY <1>2, <1>3

\* The sources of a venue or two: each directly, then each at the aggregator.
LEMMA QueueIsGrounded ==
    ASSUME V!EvaluationAssumption, selected' \in V!Venues, NEW compatible \in BOOLEAN
    PROVE  LET queue == V!Queue(compatible) IN
           /\ queue \in Seq(V!Sources)
           /\ \A i \in 1..Len(queue) : From(queue[i], selected')
           /\ \A given : DirectFirst(queue, given)
<1> DEFINE venues_ == IF selected' = Futures \/ ~compatible THEN <<selected'>>
                      ELSE <<Futures, selected'>>
           direct_ == [i \in 1..Len(venues_) |-> <<"direct", venues_[i]>>]
           indirect == [i \in 1..Len(venues_) |-> <<"coinglass", venues_[i]>>]
           queue == V!Queue(compatible)
<1>1. /\ venues_ \in Seq(V!Venues) /\ Len(venues_) \in Nat
      /\ \A i \in 1..Len(venues_) : venues_[i] \in {selected', Futures}
                                 /\ venues_[i] \in V!Venues
  BY ChainFacts
<1>2. queue = direct_ \o (IF CoinGlass THEN indirect ELSE <<>>)
  BY DEF V!Queue
<1> HIDE DEF venues_, queue
<1>3. /\ direct_ \in Seq(V!Sources) /\ Len(direct_) = Len(venues_)
      /\ indirect \in Seq(V!Sources) /\ Len(indirect) = Len(venues_)
  BY <1>1 DEF V!Sources
<1>4. /\ \A i \in 1..Len(venues_) : direct_[i] = <<"direct", venues_[i]>>
      /\ \A i \in 1..Len(venues_) : indirect[i] = <<"coinglass", venues_[i]>>
  OBVIOUS
<1> HIDE DEF direct_, indirect
<1>5. CASE CoinGlass
  <2>1. queue = direct_ \o indirect
    BY <1>2, <1>5
  <2>2. /\ queue \in Seq(V!Sources) /\ Len(queue) = Len(venues_) + Len(venues_)
        /\ \A i \in 1..Len(queue) :
              queue[i] = IF i <= Len(venues_) THEN direct_[i]
                         ELSE indirect[i - Len(venues_)]
    <3>1. /\ direct_ \o indirect \in Seq(V!Sources)
          /\ Len(direct_ \o indirect) = Len(direct_) + Len(indirect)
          /\ \A i \in 1..Len(direct_) + Len(indirect) :
                (direct_ \o indirect)[i] = IF i <= Len(direct_) THEN direct_[i]
                                          ELSE indirect[i - Len(direct_)]
      BY <1>3, ConcatProperties
    <3> QED
      BY <1>3, <2>1, <3>1
  <2>3. ASSUME NEW i \in 1..Len(queue)
        PROVE  /\ From(queue[i], selected')
               /\ queue[i][1] = "coinglass" =>
                    \E j \in 1..(i - 1) : queue[j] = <<"direct", queue[i][2]>>
    <3>1. CASE i <= Len(venues_)
      <4>1. i \in 1..Len(venues_) /\ queue[i] = <<"direct", venues_[i]>>
        BY <1>1, <1>4, <2>2, <2>3, <3>1
      <4> QED
        BY <1>1, <4>1 DEF From
    <3>2. CASE ~(i <= Len(venues_))
      <4> DEFINE k == i - Len(venues_)
      <4>1. /\ k \in 1..Len(venues_) /\ k \in 1..(i - 1) /\ k \in 1..Len(queue)
            /\ k <= Len(venues_)
        BY <1>1, <2>2, <2>3, <3>2
      <4>2. queue[i] = <<"coinglass", venues_[k]>>
        BY <1>4, <2>2, <2>3, <3>2, <4>1
      <4>3. queue[k] = <<"direct", venues_[k]>>
        BY <1>4, <2>2, <4>1
      <4> HIDE DEF k
      <4> QED
        BY <1>1, <4>1, <4>2, <4>3 DEF From
    <3> QED
      BY <3>1, <3>2
  <2> QED
    BY <2>2, <2>3 DEF DirectFirst, queue
<1>6. CASE ~CoinGlass
  <2>1. queue = direct_
    BY <1>2, <1>3, <1>6, ConcatEmptySeq
  <2> QED
    BY <1>1, <1>3, <1>4, <2>1 DEF DirectFirst, From, queue
<1> QED
  BY <1>5, <1>6

\* The venue selected is none that was rejected before it.
LEMMA SelectKeepsVenues ==
    ASSUME V!EvaluationAssumption, VenuesInv, NEW compatible \in BOOLEAN,
           V!Select(compatible)
    PROVE  VenuesInv'
<1>1. /\ NothingSelected /\ outcome = V!NoOutcome /\ Passed
      /\ position \in 1..(Len(Chain) + 1) /\ loud \in BOOLEAN
      /\ Len(Chain) \in Nat
  BY ChainFacts DEF VenuesInv, V!Select
<1>2. /\ selected' = Chain[position] /\ ~(position > Len(Chain))
      /\ step' = "derivatives" /\ asks' = V!Queue(compatible)
      /\ UNCHANGED <<position, unusable, loud, refused, derivatives, outcome>>
  BY DEF V!Select, V!Exhausted, V!Here
<1>3. position \in 1..Len(Chain)
  BY <1>1, <1>2
<1>4. selected' \in V!Venues /\ selected' # V!None
  BY <1>2, <1>3, ChainFacts
<1>5. selected' \notin unusable'
  <2> SUFFICES ASSUME selected' \in unusable PROVE FALSE
    BY <1>2
  <2>1. PICK i \in 1..(position - 1) : Chain[position] = Chain[i]
    BY <1>1, <1>2 DEF Passed
  <2>2. i \in 1..Len(Chain) /\ i # position
    BY <1>1, <1>3
  <2> QED
    BY <1>3, <2>1, <2>2, ChainFacts
<1>6. /\ asks' \in Seq(V!Sources)
      /\ \A i \in 1..Len(asks') : From(asks'[i], selected')
      /\ DirectFirst(asks', refused')
  BY <1>2, <1>4, QueueIsGrounded
<1>7. Selected'
  BY <1>1, <1>2, <1>4, <1>5, <1>6 DEF Selected, NothingSelected, V!None
<1>8. outcome'.valid = FALSE /\ outcome'.status = V!None
  BY <1>1, <1>2 DEF V!NoOutcome
<1> QED
  BY <1>1, <1>2, <1>7, <1>8 DEF VenuesInv, V!KeptOnlyWhenQuiet, V!None

\* A source answers, or is refused and the next one asked.
LEMMA AskKeepsVenues ==
    ASSUME V!EvaluationAssumption, VenuesInv, NEW ok \in BOOLEAN, V!Ask(ok)
    PROVE  VenuesInv'
<1>1. /\ step = "derivatives" /\ asks # <<>> /\ Selected /\ outcome = V!NoOutcome
      /\ position \in 1..(Len(Chain) + 1) /\ loud \in BOOLEAN
      /\ UNCHANGED <<step, position, unusable, loud, selected, outcome>>
  BY DEF VenuesInv, V!Ask
<1>2. /\ asks \in Seq(V!Sources) /\ Len(asks) \in Nat /\ 1 \in 1..Len(asks)
      /\ \A i \in 1..Len(asks) : From(asks[i], selected)
      /\ DirectFirst(asks, refused)
  BY <1>1 DEF Selected
<1>3. CASE ok
  <2>1. derivatives' = asks[1] /\ asks' = <<>> /\ UNCHANGED refused
    BY <1>3 DEF V!Ask
  <2>2. asks[1][1] = "coinglass" => <<"direct", asks[1][2]>> \in refused
    BY <1>2 DEF DirectFirst
  <2>3. From(derivatives', selected') /\ asks' \in Seq(V!Sources) /\ Len(asks') = 0
    BY <1>1, <1>2, <2>1
  <2>4. DirectFirst(asks', refused') /\ \A i \in 1..Len(asks') : From(asks'[i], selected')
    BY <2>3 DEF DirectFirst
  <2>5. Selected'
    BY <1>1, <2>1, <2>2, <2>3, <2>4 DEF Selected
  <2> QED
    BY <1>1, <2>5 DEF VenuesInv, V!KeptOnlyWhenQuiet, V!NoOutcome, V!None
<1>4. CASE ~ok
  <2>1. asks' = Tail(asks) /\ refused' = refused \cup {asks[1]} /\ UNCHANGED derivatives
    BY <1>4 DEF V!Ask
  <2>2. /\ asks' \in Seq(V!Sources) /\ Len(asks') = Len(asks) - 1
        /\ \A i \in 1..Len(asks') : asks'[i] = asks[i + 1] /\ i + 1 \in 1..Len(asks)
    BY <1>1, <1>2, <2>1, HeadTailProperties
  <2>3. \A i \in 1..Len(asks') : From(asks'[i], selected)
    BY <1>2, <2>2
  <2>4. ASSUME NEW i \in 1..Len(asks'), asks'[i][1] = "coinglass"
        PROVE  \/ <<"direct", asks'[i][2]>> \in refused'
               \/ \E j \in 1..(i - 1) : asks'[j] = <<"direct", asks'[i][2]>>
    <3>1. asks'[i] = asks[i + 1] /\ i + 1 \in 1..Len(asks)
      BY <2>2, <2>4
    <3>2. CASE <<"direct", asks[i + 1][2]>> \in refused
      BY <2>1, <3>1, <3>2
    <3>3. ASSUME NEW j \in 1..i, asks[j] = <<"direct", asks[i + 1][2]>>
          PROVE  \/ <<"direct", asks'[i][2]>> \in refused'
                 \/ \E h \in 1..(i - 1) : asks'[h] = <<"direct", asks'[i][2]>>
      <4>1. CASE j = 1
        BY <2>1, <3>1, <3>3, <4>1
      <4>2. CASE j # 1
        <5>1. j - 1 \in 1..(i - 1) /\ j - 1 \in 1..Len(asks') /\ (j - 1) + 1 = j
          BY <2>2, <2>4, <3>1, <3>3, <4>2
        <5>2. asks'[j - 1] = asks[j]
          BY <2>2, <5>1
        <5> QED
          BY <3>1, <3>3, <5>1, <5>2
      <4> QED
        BY <4>1, <4>2
    <3>4. \/ <<"direct", asks[i + 1][2]>> \in refused
          \/ \E j \in 1..i : asks[j] = <<"direct", asks[i + 1][2]>>
      <4>1. (i + 1) - 1 = i
        BY <2>2
      <4>2. asks[i + 1][1] = "coinglass"
        BY <2>4, <3>1
      <4> QED
        BY <1>2, <3>1, <4>1, <4>2 DEF DirectFirst
    <3> QED
      BY <3>2, <3>3, <3>4
  <2>5. DirectFirst(asks', refused')
    BY <2>4 DEF DirectFirst
  <2>6. derivatives' # <<V!None>> /\ derivatives'[1] = "coinglass"
          => <<"direct", derivatives'[2]>> \in refused'
    BY <1>1, <2>1 DEF Selected
  <2>7. Selected'
    BY <1>1, <2>1, <2>2, <2>3, <2>5, <2>6 DEF Selected, From
  <2> QED
    BY <1>1, <2>7 DEF VenuesInv, V!KeptOnlyWhenQuiet, V!NoOutcome, V!None
<1> QED
  BY <1>3, <1>4

\* What leaves the evidence and the verdict alone.
LEMMA QuietStepKeepsVenues ==
    ASSUME VenuesInv,
           UNCHANGED <<position, unusable, quiet, loud, selected, asks, refused,
                       derivatives, outcome>>,
           \/ step' = step
           \/ step = "idle" /\ step' \in {"hint", "probe", "venue"}
           \/ step = "derivatives" /\ step' = "benchmark"
           \/ step = "benchmark" /\ step' = "judge"
    PROVE  VenuesInv'
<1>1. Passed' <=> Passed
  BY DEF Passed
<1>2. Selected' <=> Selected
  BY DEF Selected
<1>3. NothingSelected' <=> NothingSelected
  BY DEF NothingSelected
<1>4. V!KeptOnlyWhenQuiet' <=> V!KeptOnlyWhenQuiet
  BY DEF V!KeptOnlyWhenQuiet
<1>5. step = "idle" => Passed
  BY DEF VenuesInv, Passed
<1> QED
  BY <1>1, <1>2, <1>3, <1>4, <1>5 DEF VenuesInv

\* An alert needs a derivatives packet.
LEMMA JudgeKeepsVenues ==
    ASSUME VenuesInv, NEW gates, NEW stages, NEW persisted, NEW level \in V!Levels,
           NEW high, NEW ready, V!Judge(gates, stages, persisted, level, high, ready)
    PROVE  VenuesInv'
<1>1. /\ step = "judge" /\ step' = "done" /\ Selected
      /\ outcome' = V!Verdict(gates, stages, persisted, level, high, ready)
      /\ UNCHANGED <<position, unusable, quiet, loud, selected, asks, refused, derivatives>>
      /\ position \in 1..(Len(Chain) + 1) /\ loud \in BOOLEAN
  BY DEF VenuesInv, V!Judge, V!evidence
<1>2. Selected'
  BY <1>1 DEF Selected
<1>3. /\ outcome'.valid => derivatives # <<V!None>>
      /\ ~outcome'.valid => outcome'.status = "REJECTED"
  BY <1>1 DEF V!Verdict, V!Observed, V!NoOutcome
<1> QED
  BY <1>1, <1>2, <1>3 DEF VenuesInv, V!KeptOnlyWhenQuiet

\* Every step of an evaluation.
LEMMA VenuesKept ==
    ASSUME V!EvaluationAssumption, VenuesInv, [V!Next]_(V!vars)
    PROVE  VenuesInv'
<1>1. ASSUME NEW watched \in BOOLEAN, NEW known \in BOOLEAN, V!Begin(watched, known)
      PROVE  VenuesInv'
  BY <1>1, QuietStepKeepsVenues DEF V!Begin, V!evidence
<1>2. CASE V!SlotOpens
  BY <1>2, QuietStepKeepsVenues DEF V!SlotOpens, V!evidence
<1>3. CASE V!Asked
  BY <1>3, QuietStepKeepsVenues DEF V!Asked, V!evidence
<1>4. ASSUME NEW fetched \in BOOLEAN, V!Benchmark(fetched)
      PROVE  VenuesInv'
  BY <1>4, QuietStepKeepsVenues DEF V!Benchmark, V!evidence
<1>5. ASSUME NEW v \in V!Venues, V!BenchmarkExpires(v)
      PROVE  VenuesInv'
  BY <1>5, QuietStepKeepsVenues DEF V!BenchmarkExpires, V!evidence
<1>6. CASE V!Finish
  <2>1. /\ step' = "idle" /\ position' = 1 /\ unusable' = {} /\ loud' = FALSE
        /\ NothingSelected' /\ outcome' = V!NoOutcome
    BY <1>6 DEF V!Finish, NothingSelected, V!None
  <2>2. outcome'.valid = FALSE /\ outcome'.status = V!None
    BY <2>1 DEF V!NoOutcome
  <2>3. position' \in 1..(Len(Chain) + 1)
    BY <2>1, ChainFacts
  <2> QED
    BY <2>1, <2>2, <2>3 DEF VenuesInv, V!KeptOnlyWhenQuiet, V!None
<1>7. CASE UNCHANGED V!vars
  BY <1>7, QuietStepKeepsVenues DEF V!vars
<1>8. CASE V!Unavailable
  BY <1>8, WaterfallKeepsVenues
<1>9. ASSUME NEW answer, V!Skip(answer)
      PROVE  VenuesInv'
  BY <1>9, WaterfallKeepsVenues
<1> QED
  BY <1>1, <1>2, <1>3, <1>4, <1>5, <1>6, <1>7, <1>8, <1>9, HintKeepsVenues,
     ProbeKeepsVenues, ProbeHypeKeepsVenues, ProbeEndsKeepsVenues,
     SelectKeepsVenues, AskKeepsVenues, JudgeKeepsVenues DEF V!Next

\* What an evaluation holds, at each of its steps, of one venue.
THEOREM VenuesInvariance == EvaluationSpec => []VenuesInv
<1>1. EvaluationInit => VenuesInv
  BY MachinesStart, VenuesStart, EvaluationsAssumption DEF EvaluationsAssumption
<1>2. VenuesInv /\ [EvaluationNext]_<<evidence, evaluation>> => VenuesInv'
  BY OneMachineSteps, VenuesKept, EvaluationsAssumption DEF EvaluationsAssumption
<1> QED
  BY <1>1, <1>2, PTL DEF EvaluationSpec

\* An alert rests on the evidence of one venue, with derivatives of it or of the
\* futures venue, and a symbol is kept at WATCH unseen only when it was seen to
\* be quiet (cross_check_symbol, watch_prefilter_waterfall).
THEOREM VerdictsAreWarranted == EvaluationSpec => []VerdictIsWarranted
<1>1. VenuesInv => VerdictIsWarranted
  BY DEF VenuesInv, Selected, From, VerdictIsWarranted, V!VerdictIsWarranted,
         V!EvidenceOfOneVenue
<1> QED
  BY <1>1, VenuesInvariance, PTL

-----------------------------------------------------------------------------
(* The points of the evidence (EvidenceScore).                              *)

\* A number of points on a scale.
Scaled(x, maximum) == x \in Int /\ 0 <= x /\ x <= maximum

\* A bound, and a ramp that climbs from nothing to its maximum.
LEMMA BoundedFacts ==
    ASSUME NEW v \in Int, NEW m \in Nat
    PROVE  Scaled(E!Bounded(v, m), m)
BY DEF E!Bounded, E!AtLeast, E!AtMost, Scaled

\* A bound keeps the order.
LEMMA BoundedGrows ==
    ASSUME NEW v \in Int, NEW w \in Int, v <= w, NEW m \in Nat
    PROVE  E!Bounded(v, m) <= E!Bounded(w, m)
BY DEF E!Bounded, E!AtLeast, E!AtMost

\* The open interest and the crowd have a scale of their own.
LEMMA InterestFacts ==
    ASSUME NEW change \in Int, NEW bearish \in BOOLEAN
    PROVE  Scaled(E!OpenInterest(change, bearish), 3000)
BY DEF E!OpenInterest, Scaled

LEMMA CrowdingFacts ==
    ASSUME NEW crowd \in Int PROVE Scaled(E!Crowding(crowd), 3000)
BY DEF E!Crowding, E!Ramp, E!Bounded, E!AtLeast, E!AtMost, Scaled

\* More buying, less pressure.
LEMMA PressureFalls ==
    ASSUME NEW t \in Int, NEW u \in Int, t <= u
    PROVE  /\ Scaled(E!Pressure(t), 5000) /\ E!Pressure(u) \in Int
           /\ E!Pressure(u) <= E!Pressure(t)
<1>1. \A x \in Int : x > 80 /\ x <= 90 =>
        E!Ramp(90 - x, 0, 10, 1000) = 1000 - (x - 80) * 100
  BY DEF E!Ramp, E!Bounded, E!AtLeast, E!AtMost
<1>2. \A x \in Int : x > 90 /\ x <= 110 =>
        E!Ramp(110 - x, 0, 20, 2500) = (110 - x) * 125
  BY DEF E!Ramp, E!Bounded, E!AtLeast, E!AtMost
<1>3. \A x \in Int : x > 110 /\ x <= 150 =>
        E!Ramp(150 - x, 0, 40, 1250) = ((150 - x) * 1250) \div 40
  BY DEF E!Ramp, E!Bounded, E!AtLeast, E!AtMost
<1>4. \A x \in Int :
        E!Pressure(x) = IF x <= 80 THEN 5000
                        ELSE IF x <= 90 THEN 5000 - (x - 80) * 100
                        ELSE IF x <= 110 THEN 1500 + (110 - x) * 125
                        ELSE IF x <= 150 THEN 250 + ((150 - x) * 1250) \div 40
                        ELSE 0
  BY <1>1, <1>2, <1>3 DEF E!Pressure
<1> QED
  BY <1>4 DEF Scaled

\* Beyond balance, what the crowd adds fades.
LEMMA CrowdFades ==
    ASSUME NEW crowd \in Int, NEW t \in Int, NEW u \in Int, t <= u
    PROVE  /\ Scaled(E!Crowded(crowd, t), 3000) /\ E!Crowded(crowd, u) \in Int
           /\ E!Crowded(crowd, u) <= E!Crowded(crowd, t)
<1> DEFINE c == E!Crowding(crowd)
           share(x) == 500 + E!Ramp(150 - x, 0, 40, 500)
<1>1. c \in Int /\ 0 <= c /\ c <= 3000
  BY CrowdingFacts DEF Scaled
<1>2. \A x \in Int : x > 110 /\ x <= 150 =>
         share(x) \in Int /\ 500 <= share(x) /\ share(x) <= 1000
  BY DEF E!Ramp, E!Bounded, E!AtLeast, E!AtMost
<1>3. \A x, y \in Int : x > 110 /\ x <= y /\ y <= 150 => share(y) <= share(x)
  BY DEF E!Ramp, E!Bounded, E!AtLeast, E!AtMost
<1>4. \A x \in Int :
        E!Crowded(crowd, x) = IF x <= 110 THEN c
                              ELSE IF x <= 150 THEN (c * share(x)) \div 1000 ELSE 0
  BY DEF E!Crowded
<1> HIDE DEF c, share
<1>5. ASSUME NEW a \in Int, NEW b \in Int, 0 <= a, a <= b, b <= 1000
      PROVE  /\ (c * b) \div 1000 \in Int /\ 0 <= (c * b) \div 1000
             /\ (c * b) \div 1000 <= c /\ (c * a) \div 1000 <= (c * b) \div 1000
             /\ (c * a) \div 1000 \in Int
  <2>1. c * a \in Int /\ c * b \in Int /\ 0 <= c * b
        /\ c * a <= c * b /\ c * b <= c * 1000
    BY <1>1, <1>5
  <2> DEFINE x == c * a
             y == c * b
  <2> HIDE DEF x, y
  <2>2. x \in Int /\ y \in Int /\ 0 <= y /\ x <= y /\ y <= c * 1000
    BY <2>1 DEF x, y
  <2>3. /\ y \div 1000 \in Int /\ 0 <= y \div 1000 /\ y \div 1000 <= c
        /\ x \div 1000 <= y \div 1000 /\ x \div 1000 \in Int
    BY <1>1, <2>2
  <2> QED
    BY <2>3 DEF x, y
<1>6. CASE u <= 110
  BY <1>1, <1>4, <1>6 DEF Scaled
<1>7. CASE u > 110 /\ u <= 150
  <2>1. CASE t <= 110
    BY <1>1, <1>2, <1>4, <1>5, <1>7, <2>1 DEF Scaled
  <2>2. CASE t > 110
    BY <1>1, <1>2, <1>3, <1>4, <1>5, <1>7, <2>2 DEF Scaled
  <2> QED
    BY <2>1, <2>2
<1>8. CASE u > 150
  <2>1. Scaled(E!Crowded(crowd, t), 3000)
    BY <1>1, <1>2, <1>4, <1>5 DEF Scaled
  <2> QED
    BY <1>4, <1>8, <2>1 DEF Scaled
<1> QED
  BY <1>6, <1>7, <1>8

\* The derivatives score, its parts by name.
LEMMA DerivativesFacts ==
    ASSUME NEW p \in E!Packets, NEW change \in Int, E!ScoreAssumption
    PROVE  /\ Scaled(E!Derivatives(p, change), 15000)
           /\ \A t \in Takers : t >= p.taker =>
                E!Derivatives([p EXCEPT !.taker = t], change) <= E!Derivatives(p, change)
<1> DEFINE base == E!Ramp(p.funding, 0, 50, 1500) + E!Ramp(p.percentile, 50, 95, 2500)
                   + E!OpenInterest(p.interest, p.bearish)
           taken(t) == E!WithMomentum(E!Pressure(t), change)
           crowd(t) == E!Crowded(p.crowd, t)
           total(t) == base + taken(t) + crowd(t)
<1>1. /\ p.funding \in Int /\ p.percentile \in Int /\ p.interest \in Int
      /\ p.bearish \in BOOLEAN /\ p.taker \in Int /\ p.crowd \in Int /\ Takers \subseteq Int
  <2>1. /\ p.funding \in Fundings /\ p.percentile \in Percentiles
        /\ p.interest \in Interests /\ p.taker \in Takers /\ p.crowd \in Crowds
    BY DEF E!Packets
  <2>2. p.bearish \in BOOLEAN
    BY DEF E!Packets
  <2>3. /\ Fundings \subseteq Int /\ Percentiles \subseteq Int /\ Interests \subseteq Int
        /\ Takers \subseteq Int /\ Crowds \subseteq Int
    BY DEF E!ScoreAssumption
  <2> QED
    BY <2>1, <2>2, <2>3
<1>2. base \in Int
  <2>1. E!OpenInterest(p.interest, p.bearish) \in Int
    BY <1>1, InterestFacts DEF Scaled
  <2>2. E!Ramp(p.funding, 0, 50, 1500) \in Int
    BY <1>1 DEF E!Ramp, E!Bounded, E!AtLeast, E!AtMost
  <2>3. E!Ramp(p.percentile, 50, 95, 2500) \in Int
    BY <1>1 DEF E!Ramp, E!Bounded, E!AtLeast, E!AtMost
  <2> QED
    BY <2>1, <2>2, <2>3
<1>3. ASSUME NEW t \in Int, NEW u \in Int, t <= u
      PROVE  total(t) \in Int /\ total(u) \in Int /\ total(u) <= total(t)
  <2>1. /\ E!Pressure(t) \in Int /\ E!Pressure(u) \in Int
        /\ E!Pressure(u) <= E!Pressure(t)
    BY <1>3, PressureFalls DEF Scaled
  <2> DEFINE d == E!Modifier(change)
             v == E!Pressure(t) + d
             w == E!Pressure(u) + d
  <2>2. d \in Int
    BY DEF E!Modifier
  <2>3. v \in Int /\ w \in Int /\ w <= v
    <3> HIDE DEF d
    <3> QED
      BY <2>1, <2>2
  <2>4. taken(t) = E!Bounded(v, 5000) /\ taken(u) = E!Bounded(w, 5000)
    BY DEF E!WithMomentum
  <2>5. taken(t) \in Int /\ taken(u) \in Int /\ taken(u) <= taken(t)
    <3> HIDE DEF taken, v, w
    <3>1. /\ E!Bounded(v, 5000) \in Int /\ E!Bounded(w, 5000) \in Int
          /\ E!Bounded(w, 5000) <= E!Bounded(v, 5000)
      BY <2>3 DEF E!Bounded, E!AtLeast, E!AtMost
    <3> QED
      BY <2>4, <3>1
  <2>6. crowd(t) \in Int /\ crowd(u) \in Int /\ crowd(u) <= crowd(t)
    <3> DEFINE c == p.crowd
    <3>1. c \in Int
      BY <1>1
    <3>2. /\ E!Crowded(c, t) \in Int /\ E!Crowded(c, u) \in Int
          /\ E!Crowded(c, u) <= E!Crowded(c, t)
      <4> HIDE DEF c
      <4> QED
        BY <1>3, <3>1, CrowdFades DEF Scaled
    <3> QED
      BY <3>2
  <2> HIDE DEF base, taken, crowd
  <2> QED
    BY <1>2, <2>5, <2>6
<1>4. /\ E!Derivatives(p, change) = E!Bounded(total(p.taker), 15000)
      /\ \A t : E!Derivatives([p EXCEPT !.taker = t], change) = E!Bounded(total(t), 15000)
  <2>1. ASSUME NEW t
        PROVE  E!Derivatives([p EXCEPT !.taker = t], change) = E!Bounded(total(t), 15000)
    <3> DEFINE q == [p EXCEPT !.taker = t]
    <3>1. /\ q.funding = p.funding /\ q.percentile = p.percentile /\ q.interest = p.interest
          /\ q.bearish = p.bearish /\ q.taker = t /\ q.crowd = p.crowd
      BY DEF E!Packets
    <3> HIDE DEF q
    <3>2. E!Derivatives(q, change) = E!Bounded(total(t), 15000)
      BY <3>1 DEF E!Derivatives
    <3> QED
      BY <3>2 DEF q
  <2> QED
    BY <2>1 DEF E!Derivatives
<1> HIDE DEF total
<1>5. Scaled(E!Derivatives(p, change), 15000)
  <2>1. total(p.taker) \in Int
    BY <1>1, <1>3
  <2>2. Scaled(E!Bounded(total(p.taker), 15000), 15000)
    BY <2>1, BoundedFacts
  <2> QED
    BY <1>4, <2>2
<1>6. ASSUME NEW t \in Takers, t >= p.taker
      PROVE  E!Derivatives([p EXCEPT !.taker = t], change) <= E!Derivatives(p, change)
  <2>1. /\ total(p.taker) \in Int /\ total(t) \in Int /\ total(t) <= total(p.taker)
    BY <1>1, <1>3, <1>6
  <2>2. E!Bounded(total(t), 15000) <= E!Bounded(total(p.taker), 15000)
    BY <2>1, BoundedGrows
  <2> QED
    BY <1>4, <2>2
<1> QED
  BY <1>5, <1>6

\* What the facts are worth, whichever they are; a watch sums the same weights.
LEMMA WeightFacts ==
    /\ E!Structural({}) = 0 /\ E!Timing({}) = 0 /\ E!Execution({}) = 0
    /\ E!Structural(E!Structure) = 35000 /\ E!Execution(E!Friction) = 20000
    /\ E!Timing(E!Timeframes \ {"4h"}) = 20000
    /\ E!Timing({"1h"}) = 8000 /\ E!Timing({"15m"}) = 7000 /\ E!Timing({"5m"}) = 5000
<1>1. E!Structural({}) = 0 /\ E!Timing({}) = 0 /\ E!Execution({}) = 0
  BY DEF E!Structural, E!Timing, E!Execution, E!Worth
<1>2. E!Structural(E!Structure) = 35000
  BY DEF E!Structural, E!Structure, E!Worth
<1>3. E!Execution(E!Friction) = 20000
  BY DEF E!Execution, E!Friction, E!Worth
<1>4. E!Timing(E!Timeframes \ {"4h"}) = 20000
  BY DEF E!Timing, E!Timeframes, E!Worth
<1>5. E!Timing({"1h"}) = 8000 /\ E!Timing({"15m"}) = 7000 /\ E!Timing({"5m"}) = 5000
  BY DEF E!Timing, E!Worth
<1> QED
  BY <1>1, <1>2, <1>3, <1>4, <1>5

\* What is measured is summed part by part, a part at most once.
Share(x, measured, weight) == IF x \in measured THEN weight ELSE 0
Measured(measured, derivatives_) ==
    Share("structural", measured, 35000) + Share("1h", measured, 8000)
    + Share("15m", measured, 7000) + Share("5m", measured, 5000)
    + Share("execution", measured, 20000) + Share("derivatives", measured, derivatives_)
    + Share("cross", measured, 5000) + Share("location", measured, 5000)

Percent(available, earned) ==
    IF available = 0 THEN {} ELSE {(earned * 100) \div (available \div 1000)}
Watched(measured) ==
    E!WatchScore(measured, E!Structure, E!Timeframes \ {"4h"}, E!Friction, packet,
                 momentum, TRUE, TRUE)

\* A packet with every fact in its favour is measured against its maxima.
LEMMA WatchFacts ==
    ASSUME NEW measured
    PROVE  Watched(measured) = Percent(Measured(measured, 15000),
                    Measured(measured, E!Derivatives(packet, momentum)))
<1> DEFINE hours == E!Timeframes \ {"4h"}
           earned == [part \in E!Parts |->
              E!Points(part, E!Structure, hours, E!Friction, packet, momentum, TRUE, TRUE)]
<1>1. E!Over(measured, E!Maxima) = Measured(measured, 15000)
  <2>1. /\ E!Maxima["structural"] = 35000 /\ E!Maxima["execution"] = 20000
        /\ E!Maxima["derivatives"] = 15000
        /\ E!Maxima["cross"] = 5000 /\ E!Maxima["location"] = 5000
    BY DEF E!Maxima, E!Maximum, E!Parts
  <2>2. /\ E!Maxima["1h"] = E!Timing({"1h"}) /\ E!Maxima["15m"] = E!Timing({"15m"})
        /\ E!Maxima["5m"] = E!Timing({"5m"})
    BY DEF E!Maxima, E!Maximum, E!Parts
  <2> QED
    BY <2>1, <2>2, WeightFacts DEF E!Over, Measured, E!Worth, Share
<1>2. E!Over(measured, earned) = Measured(measured, E!Derivatives(packet, momentum))
  <2>1. /\ earned["structural"] = E!Structural(E!Structure)
        /\ earned["execution"] = E!Execution(E!Friction)
        /\ earned["derivatives"] = E!Derivatives(packet, momentum)
        /\ earned["cross"] = 5000 /\ earned["location"] = 5000
    BY DEF E!Points, E!Parts
  <2>2. "1h" \in hours /\ "15m" \in hours /\ "5m" \in hours
    BY DEF E!Timeframes
  <2>3. /\ earned["1h"] = E!Timing({"1h"}) /\ earned["15m"] = E!Timing({"15m"})
        /\ earned["5m"] = E!Timing({"5m"})
    BY <2>2 DEF E!Points, E!Parts
  <2> HIDE DEF earned
  <2> QED
    BY <2>1, <2>3, WeightFacts DEF E!Over, Measured, E!Worth, Share
<1>3. Watched(measured) = Percent(E!Over(measured, E!Maxima), E!Over(measured, earned))
  BY DEF E!WatchScore, Percent, Watched
<1> HIDE DEF earned
<1> DEFINE most == Measured(measured, 15000)
<1>4. E!Over(measured, E!Maxima) = most
  BY <1>1
<1> HIDE DEF most
<1>5. Watched(measured) = Percent(most, Measured(measured, E!Derivatives(packet, momentum)))
  BY <1>2, <1>3, <1>4, Zenon
<1> QED
  BY <1>5 DEF most

\* What a packet is scored at the least and at the most.
Lowest(x) == x + 5000
Highest(x) == x + 85000
LEMMA ScoreFacts ==
    ASSUME E!Derivatives(packet, momentum) \in Int
    PROVE  /\ E!Score({}, {}, {}, packet, momentum, FALSE)
                = Lowest(E!Derivatives(packet, momentum))
           /\ E!Score(E!Structure, E!Timeframes \ {"4h"}, E!Friction, packet, momentum, TRUE)
                = Highest(E!Derivatives(packet, momentum))
<1>1. E!Score({}, {}, {}, packet, momentum, FALSE)
        = Lowest(E!Derivatives(packet, momentum))
  BY WeightFacts DEF E!Score, Lowest
<1>2. E!Score(E!Structure, E!Timeframes \ {"4h"}, E!Friction, packet, momentum, TRUE)
        = Highest(E!Derivatives(packet, momentum))
  BY WeightFacts DEF E!Score, Highest
<1> QED
  BY <1>1, <1>2

\* The points of a packet of the domain.
LEMMA PacketIsScored ==
    ASSUME packet \in E!Packets, momentum \in Momenta, E!ScoreAssumption
    PROVE  E!BuyingNeverHelpsAShort
<1> DEFINE x == E!Derivatives(packet, momentum)
<1>1. momentum \in Int
  BY DEF E!ScoreAssumption
<1>2. E!BuyingNeverAdds
  BY <1>1, DerivativesFacts DEF E!BuyingNeverAdds
<1>3. x \in Int /\ 0 <= x /\ x <= 15000
  BY <1>1, DerivativesFacts DEF Scaled
<1> HIDE DEF x
<1>4. 5000 <= Lowest(x) /\ Lowest(x) <= Highest(x) /\ E!OnTheScale(Highest(x))
  BY <1>3 DEF Lowest, Highest, E!OnTheScale
<1> DEFINE least == E!Score({}, {}, {}, packet, momentum, FALSE)
           most == E!Score(E!Structure, E!Timeframes \ {"4h"}, E!Friction, packet, momentum, TRUE)
<1>0. least = Lowest(x) /\ most = Highest(x)
  <2>1. E!Derivatives(packet, momentum) \in Int
    BY <1>3 DEF x
  <2>2. /\ least = Lowest(E!Derivatives(packet, momentum))
        /\ most = Highest(E!Derivatives(packet, momentum))
    BY <2>1, ScoreFacts
  <2> QED
    BY <2>2 DEF x
<1>5. E!ScoreOnItsScale
  <2>1. E!ScoreOnItsScale <=> 5000 <= least /\ least <= most /\ E!OnTheScale(most)
    BY DEF E!ScoreOnItsScale
  <2> HIDE DEF least, most
  <2> QED
    BY <1>0, <1>4, <2>1
<1>6. \A measured : Watched(measured) = Percent(Measured(measured, 15000), Measured(measured, x))
  BY WatchFacts DEF x
<1>7. Watched(E!Parts) = {Highest(x)}
  <2>1. Measured(E!Parts, 15000) = 100000 /\ Measured(E!Parts, x) = x + 85000
    BY <1>3 DEF Measured, Share, E!Parts, E!Timeframes
  <2>2. ((x + 85000) * 100) \div (100000 \div 1000) = x + 85000
    BY <1>3
  <2>3. Percent(100000, x + 85000) = {Highest(x)}
    BY <2>2 DEF Percent, Highest
  <2> QED
    BY <1>6, <2>1, <2>3
<1>8. Watched({}) = {}
  <2>1. Measured({}, 15000) = 0
    BY DEF Measured, Share
  <2> QED
    BY <1>6, <2>1 DEF Percent
<1>9. ASSUME NEW y \in E!Parts PROVE \A score \in Watched(E!Parts \ {y}) : E!OnTheScale(score)
  <2> DEFINE a == Measured(E!Parts \ {y}, 15000)
             e == Measured(E!Parts \ {y}, x)
  <2>1. /\ a \in {65000, 92000, 93000, 95000, 80000, 85000}
        /\ e \in Int /\ 0 <= e /\ e <= a
    BY <1>3 DEF Measured, Share, E!Parts, E!Timeframes
  <2>2. Watched(E!Parts \ {y}) = Percent(a, e)
    BY <1>6
  <2> HIDE DEF a, e
  <2>3. \A score \in Percent(a, e) : E!OnTheScale(score)
    BY <2>1 DEF Percent, E!OnTheScale
  <2> QED
    BY <2>2, <2>3
<1>10. Watched(E!Parts)
        = {E!Score(E!Structure, E!Timeframes \ {"4h"}, E!Friction, packet, momentum, TRUE)}
  BY <1>0, <1>7, Zenon
<1>11. E!WatchOnTheScale
  BY <1>8, <1>9, <1>10, Zenon DEF E!WatchOnTheScale, Watched
<1> QED
  BY <1>2, <1>5, <1>11 DEF E!BuyingNeverHelpsAShort

-----------------------------------------------------------------------------
(* The plan of a position and its leverage (TradePlan).                     *)

\* Rounding to the nearest step moves a price by at most half a step.
LEMMA NearestFacts ==
    ASSUME NEW x \in Int, NEW s \in Nat \ {0}
    PROVE  /\ P!Nearest(x, s) \in Int /\ x <= P!Nearest(x, s) + s
           /\ x >= 0 => P!Nearest(x, s) >= 0
<1> DEFINE n == 2 * x + s
           d == 2 * s
           k == n \div d
<1>1. n \in Int /\ d \in Nat \ {0}
  OBVIOUS
<1>2. k \in Int /\ n < k * d + d /\ (n >= 0 => k >= 0)
  <2> HIDE DEF n, d
  <2> QED
    BY <1>1
<1>3. P!Nearest(x, s) = k * s
  BY DEF P!Nearest
<1> HIDE DEF k
<1>4. k * d = 2 * (k * s) /\ k * s \in Int
  BY <1>2
<1>5. x <= k * s + s
  BY <1>2, <1>4
<1>6. x >= 0 => k * s >= 0
  BY <1>2
<1> QED
  BY <1>3, <1>4, <1>5, <1>6

\* Where a price near a multiple of a width is moved.
Away(x, width) ==
    P!Nearest(x, width) + P!Larger((x * 8) \div 10000, (width * 4) \div 1000)

Decades == {1, 10, 100, 1000, 10000, 100000}

\* A level moved off the round prices never moves down, whichever the decade.
LEMMA AwayIsUp ==
    ASSUME NEW x \in Nat \ {0}, NEW d \in Decades
    PROVE  /\ P!Near(x, d, 500) => Away(x, d) \in Int /\ x <= Away(x, d)
           /\ ~P!Near(x, d, 500) /\ P!Near(2 * x, d, 1000) =>
                Away(x, d \div 2) \in Int /\ x <= Away(x, d \div 2)
           /\ ~P!Near(x, d, 500) /\ ~P!Near(2 * x, d, 1000) /\ P!Near(4 * x, d, 1000) =>
                Away(x, d \div 4) \in Int /\ x <= Away(x, d \div 4)
<1>1. CASE d = 1
  BY <1>1 DEF Away, P!Near, P!Nearest, P!Larger
<1>2. CASE d = 10
  BY <1>2 DEF Away, P!Near, P!Nearest, P!Larger
<1>3. CASE d = 100
  BY <1>3 DEF Away, P!Near, P!Nearest, P!Larger
<1>4. CASE d = 1000
  BY <1>4 DEF Away, P!Near, P!Nearest, P!Larger
<1>5. CASE d = 10000
  BY <1>5 DEF Away, P!Near, P!Nearest, P!Larger
<1>6. CASE d = 100000
  BY <1>6 DEF Away, P!Near, P!Nearest, P!Larger
<1> QED
  BY <1>1, <1>2, <1>3, <1>4, <1>5, <1>6 DEF Decades

\* The decade of a price is one of the six.
LEMMA DecadeFacts ==
    ASSUME NEW x \in Nat \ {0} PROVE P!Decade(x) \in Decades
<1> DEFINE S == {d \in Decades : d <= x}
<1>1. \E m \in S : \A y \in S : m >= y
  <2>1. CASE x < 10
    <3>1. S = {1}
      BY <2>1 DEF Decades
    <3> QED
      BY <3>1
  <2>2. CASE x >= 10 /\ x < 100
    <3>1. S = {1, 10}
      BY <2>2 DEF Decades
    <3> QED
      BY <3>1
  <2>3. CASE x >= 100 /\ x < 1000
    <3>1. S = {1, 10, 100}
      BY <2>3 DEF Decades
    <3> QED
      BY <3>1
  <2>4. CASE x >= 1000 /\ x < 10000
    <3>1. S = {1, 10, 100, 1000}
      BY <2>4 DEF Decades
    <3> QED
      BY <3>1
  <2>5. CASE x >= 10000 /\ x < 100000
    <3>1. S = {1, 10, 100, 1000, 10000}
      BY <2>5 DEF Decades
    <3> QED
      BY <3>1
  <2>6. CASE x >= 100000
    <3>1. 100000 \in S /\ \A y \in S : 100000 >= y
      BY <2>6 DEF Decades
    <3> QED
      BY <3>1
  <2> QED
    BY <2>1, <2>2, <2>3, <2>4, <2>5, <2>6
<1>2. P!Decade(x) = CHOOSE m \in S : \A y \in S : m >= y
  BY DEF P!Decade, P!Max, Decades
<1>3. P!Decade(x) \in S
  <2> HIDE DEF S
  <2> QED
    BY <1>1, <1>2
<1> QED
  BY <1>3

LEMMA AvoidRoundIsUp ==
    ASSUME NEW x \in Nat \ {0}
    PROVE  P!AvoidRound(x) \in Nat \ {0} /\ x <= P!AvoidRound(x)
<1> DEFINE d == P!Decade(x)
<1>0. d \in Decades
  BY DecadeFacts
<1>2. P!AvoidRound(x) = IF P!Near(x, d, 500) THEN Away(x, d)
                        ELSE IF P!Near(2 * x, d, 1000) THEN Away(x, d \div 2)
                        ELSE IF P!Near(4 * x, d, 1000) THEN Away(x, d \div 4)
                        ELSE x
  BY DEF P!AvoidRound, Away
<1> HIDE DEF d
<1>1. /\ P!Near(x, d, 500) => Away(x, d) \in Int /\ x <= Away(x, d)
      /\ ~P!Near(x, d, 500) /\ P!Near(2 * x, d, 1000) =>
           Away(x, d \div 2) \in Int /\ x <= Away(x, d \div 2)
      /\ ~P!Near(x, d, 500) /\ ~P!Near(2 * x, d, 1000) /\ P!Near(4 * x, d, 1000) =>
           Away(x, d \div 4) \in Int /\ x <= Away(x, d \div 4)
  BY <1>0, AwayIsUp
<1>3. P!AvoidRound(x) \in Int /\ x <= P!AvoidRound(x)
  BY <1>1, <1>2
<1> QED
  BY <1>3

\* A price plus so many basis points is not less.
LEMMA PlusFacts ==
    ASSUME NEW x \in Nat, NEW b \in Nat
    PROVE  P!Plus(x, b) \in Nat /\ x <= P!Plus(x, b)
<1> DEFINE n == x * (10000 + b)
<1>1. n = x * 10000 + x * b /\ x * b \in Nat /\ n \in Nat
  OBVIOUS
<1>2. n >= x * 10000
  BY <1>1
<1> HIDE DEF n
<1>3. n \div 10000 \in Int /\ x <= n \div 10000
  BY <1>1, <1>2
<1> QED
  BY <1>3 DEF P!Plus, n

\* The inputs of a plan are numbers.
LEMMA InputFacts ==
    ASSUME NEW i \in P!Inputs, P!PlanAssumption
    PROVE  /\ i.entry \in Nat \ {0} /\ i.high \in Nat /\ i.atr \in Nat
           /\ i.friction \in Nat /\ i.tick \in Nat \ {0}
           /\ i.readiness \in Nat /\ i.exchange \in Nat
<1>1. /\ i.entry \in Entries /\ i.high \in Highs /\ i.atr \in Atrs
      /\ i.friction \in Frictions /\ i.tick \in Ticks
      /\ i.readiness \in Readinesses /\ i.exchange \in ExchangeMaxima
  BY DEF P!Inputs
<1>2. /\ Entries \subseteq Nat \ {0} /\ Highs \subseteq Nat /\ Atrs \subseteq Nat
      /\ Frictions \subseteq Nat /\ Ticks \subseteq Nat \ {0} /\ ExchangeMaxima \subseteq Nat
  BY DEF P!PlanAssumption
<1>3. Readinesses \subseteq Nat
  BY DEF P!PlanAssumption
<1> QED
  BY <1>1, <1>2, <1>3

\* The stop is not below the floor of the noise, nor below the entry.
LEMMA StopFacts ==
    ASSUME NEW i \in P!Inputs, P!PlanAssumption
    PROVE  P!Stop(i) \in Nat \ {0} /\ P!AtrFloor(i) \in Nat /\ P!AtrFloor(i) <= P!Stop(i)
<1>1. /\ i.entry \in Nat \ {0} /\ i.high \in Nat /\ i.atr \in Nat
  BY InputFacts
<1> DEFINE e == i.entry
           h == i.high
           a == (i.atr * 12) \div 10
           s == P!Structural(i)
           f == P!AtrFloor(i)
<1>2. a \in Nat
  BY <1>1
<1>3. s \in Nat /\ f \in Nat /\ e <= f
  <2>1. s = IF h <= e THEN P!Plus(e, 200) ELSE P!Plus(h, 20)
    BY DEF P!Structural
  <2>2. f = P!Plus(e, a)
    BY DEF P!AtrFloor
  <2>3. e \in Nat /\ h \in Nat
    BY <1>1
  <2> HIDE DEF e, h, a, s, f
  <2>4. P!Plus(e, 200) \in Nat /\ P!Plus(h, 20) \in Nat
    BY ZenonT(30), <2>3, PlusFacts
  <2>5. P!Plus(e, a) \in Nat /\ e <= P!Plus(e, a)
    BY <1>2, <2>3, PlusFacts
  <2> QED
    BY <2>1, <2>2, <2>4, <2>5
<1> DEFINE b == P!Larger(s, f)
<1>4. P!Stop(i) = P!AvoidRound(b)
  BY DEF P!Stop, P!BaseStop
<1>5. e \in Nat \ {0}
  BY <1>1
<1> HIDE DEF e, s, f, b
<1>6. b \in Int /\ f <= b
  BY <1>3 DEF b, P!Larger
<1>7. b \in Nat \ {0}
  BY <1>3, <1>5, <1>6
<1>8. P!AvoidRound(b) \in Nat \ {0} /\ b <= P!AvoidRound(b)
  BY <1>7, AvoidRoundIsUp
<1>9. P!Stop(i) \in Nat \ {0} /\ f \in Nat /\ f <= P!Stop(i)
  BY <1>3, <1>4, <1>6, <1>7, <1>8
<1> QED
  BY <1>9 DEF f

\* The levels of a plan are numbers, the stop less than a tick below its place.
LEMMA PlanLevels ==
    ASSUME NEW i \in P!Inputs, P!PlanAssumption
    PROVE  /\ P!Levels(i).entry \in Nat /\ P!Levels(i).stop \in Nat
           /\ P!Stop(i) <= P!Levels(i).stop + i.tick
<1> DEFINE e == i.entry
           t == i.tick
           s == P!Stop(i)
<1>1. e \in Int /\ e >= 0 /\ t \in Nat \ {0} /\ s \in Int /\ s >= 0
  BY InputFacts, StopFacts
<1>2. P!Levels(i).entry = P!Nearest(e, t) /\ P!Levels(i).stop = P!Nearest(s, t)
  BY DEF P!Levels, P!Aligned
<1> HIDE DEF e, t, s
<1>3. P!Nearest(e, t) \in Int /\ P!Nearest(e, t) >= 0
  BY <1>1, NearestFacts
<1>4. P!Nearest(s, t) \in Int /\ P!Nearest(s, t) >= 0 /\ s <= P!Nearest(s, t) + t
  BY <1>1, NearestFacts
<1>5. /\ P!Levels(i).entry \in Nat /\ P!Levels(i).stop \in Nat
      /\ s <= P!Levels(i).stop + t
  BY <1>2, <1>3, <1>4
<1> QED
  BY <1>5 DEF s, t

\* Adding a number to a set with a least one leaves it with a least one.
HasLeast(S) == \E m \in S : \A y \in S : m <= y
LEMMA OneMore ==
    ASSUME NEW S \in SUBSET Int, HasLeast(S), NEW x \in Int
    PROVE  HasLeast(S \cup {x})
<1>1. PICK m \in S : \A y \in S : m <= y
  BY DEF HasLeast
<1>2. CASE m <= x
  BY <1>1, <1>2 DEF HasLeast
<1>3. CASE ~(m <= x)
  BY <1>1, <1>3 DEF HasLeast
<1> QED
  BY <1>2, <1>3

\* The least of a set is in it and below the others.
LEMMA MinFacts ==
    ASSUME NEW S \in SUBSET Int, HasLeast(S)
    PROVE  P!Min(S) \in S /\ P!Min(S) \in Int /\ \A x \in S : P!Min(S) <= x
<1>1. \E m \in S : \A y \in S : m <= y
  BY DEF HasLeast
<1>2. P!Min(S) = CHOOSE m \in S : \A y \in S : m <= y
  BY DEF P!Min
<1> QED
  BY <1>1, <1>2

\* Seven bounds and the least of them.
Seven(a, b, c, d, e, f, g) == {a, b, c, d, e, f, g}
LEMMA SevenFacts ==
    ASSUME NEW a \in Int, NEW b \in Int, NEW c \in Int, NEW d \in Int, NEW e \in Int,
           NEW f \in Int, NEW g \in Int
    PROVE  LET S == Seven(a, b, c, d, e, f, g) IN
           P!Min(S) \in S /\ P!Min(S) \in Int /\ \A x \in S : P!Min(S) <= x
<1>1. HasLeast({a})
  BY DEF HasLeast
<1>2. HasLeast({a} \cup {b})
  BY <1>1, OneMore
<1>3. HasLeast(({a} \cup {b}) \cup {c})
  BY <1>2, OneMore
<1>4. HasLeast((({a} \cup {b}) \cup {c}) \cup {d})
  BY <1>3, OneMore
<1>5. HasLeast(((({a} \cup {b}) \cup {c}) \cup {d}) \cup {e})
  BY <1>4, OneMore
<1>6. HasLeast((((({a} \cup {b}) \cup {c}) \cup {d}) \cup {e}) \cup {f})
  BY <1>5, OneMore
<1>7. HasLeast(((((({a} \cup {b}) \cup {c}) \cup {d}) \cup {e}) \cup {f}) \cup {g})
  BY <1>6, OneMore
<1>8. Seven(a, b, c, d, e, f, g)
        = (((((({a} \cup {b}) \cup {c}) \cup {d}) \cup {e}) \cup {f}) \cup {g})
  BY DEF Seven
<1>9. HasLeast(Seven(a, b, c, d, e, f, g)) /\ Seven(a, b, c, d, e, f, g) \in SUBSET Int
  BY <1>7, <1>8 DEF Seven
<1> QED
  BY <1>9, MinFacts

\* What the bounds that do not depend on the levels are.
LEMMA BoundsAreNumbers ==
    ASSUME NEW i \in P!Inputs, P!PlanAssumption
    PROVE  /\ P!LeverageMax \in Int /\ P!VolatilityBound(i.atr) \in Int
           /\ P!FrictionBound(i.friction) \in Int /\ P!ExchangeBound(i.exchange) \in Int
           /\ \A s : P!SuitabilityBound(s) \in Int /\ P!SuitabilityBound("POOR") <= P!SuitabilityBound(s)
<1>1. P!LeverageMax \in Int
  BY DEF P!LeverageMax
<1>2. P!VolatilityBound(i.atr) \in Int
  <2> DEFINE d == 250 + P!Larger(i.atr - 50, 0)
  <2>1. d \in Nat \ {0}
    BY InputFacts DEF P!Larger
  <2> HIDE DEF d
  <2>2. 4500 \div d \in Int /\ 18 * 250 = 4500
    BY <2>1
  <2>3. P!VolatilityBound(i.atr) = (18 * 250) \div d
    BY DEF P!VolatilityBound, d
  <2> QED
    BY <2>2, <2>3
<1>3. P!FrictionBound(i.friction) \in Int
  BY DEF P!FrictionBound
<1>4. P!ExchangeBound(i.exchange) \in Int
  BY InputFacts DEF P!ExchangeBound
<1>5. \A s : P!SuitabilityBound(s) \in Int /\ P!SuitabilityBound("POOR") <= P!SuitabilityBound(s)
  BY DEF P!SuitabilityBound
<1> QED
  BY <1>1, <1>2, <1>3, <1>4, <1>5

\* More readiness, more leverage.
LEMMA ReadinessGrows ==
    ASSUME NEW r \in Nat, NEW q \in Nat, r <= q
    PROVE  /\ P!ReadinessBound(r) \in Int /\ P!ReadinessBound(q) \in Int
           /\ P!ReadinessBound(r) <= P!ReadinessBound(q)
<1> DEFINE a == 4 + ((r - 70) * 14) \div 25
           b == 4 + ((q - 70) * 14) \div 25
<1>1. a \in Int /\ b \in Int /\ a <= b
  OBVIOUS
<1>2. P!ReadinessBound(r) = P!Min({18, a}) /\ P!ReadinessBound(q) = P!Min({18, b})
  BY DEF P!ReadinessBound, P!LeverageMax, P!LeverageMin, P!ReadinessFloor
<1> HIDE DEF a, b
<1>3. ASSUME NEW x \in Int PROVE P!Min({18, x}) = IF x <= 18 THEN x ELSE 18
  <2>1. CASE x <= 18
    BY <2>1 DEF P!Min
  <2>2. CASE ~(x <= 18)
    BY <2>2 DEF P!Min
  <2> QED
    BY <2>1, <2>2
<1> QED
  BY <1>1, <1>2, <1>3

\* The stop of a plan that is ready bounds its leverage.
LEMMA StopBoundFacts ==
    ASSUME NEW i \in P!Inputs, P!PlanAssumption, P!Ready(i)
    PROVE  LET l == P!Levels(i)
               b == P!StopBound(l)
           IN  b \in Int /\ b * (l.stop - l.entry) * 100 <= 36 * l.entry
<1> DEFINE l == P!Levels(i)
           x == l.stop - l.entry
           n == 36 * l.entry
           b == n \div (100 * x)
<1>1. l.entry \in Nat /\ l.stop \in Nat
  BY PlanLevels
<1>2. l.entry < l.stop
  BY DEF P!Ready
<1>3. x \in Nat \ {0} /\ n \in Nat /\ P!StopBound(l) = b
  BY <1>1, <1>2 DEF P!StopBound
<1> DEFINE d == 100 * x
<1>4. d \in Nat \ {0}
  BY <1>3
<1>5. b \in Int /\ b * d <= n
  <2> HIDE DEF n, d
  <2>1. n \div d \in Int /\ (n \div d) * d <= n
    BY <1>3, <1>4
  <2> QED
    BY <2>1 DEF d
<1>6. b * d = b * x * 100
  <2> HIDE DEF b, x
  <2> QED
    BY <1>3, <1>5
<1> QED
  BY <1>3, <1>5, <1>6

\* The bounds of a plan and the least of them.
BoundsOf(i) ==
    Seven(P!LeverageMax, P!ReadinessBound(i.readiness), P!StopBound(P!Levels(i)),
          P!VolatilityBound(i.atr), P!FrictionBound(i.friction),
          P!SuitabilityBound(i.suitability), P!ExchangeBound(i.exchange))
LEMMA BoundFacts ==
    ASSUME NEW i \in P!Inputs, P!PlanAssumption, P!Ready(i)
    PROVE  P!Bound(i) \in Int /\ P!Bound(i) \in BoundsOf(i) /\ \A x \in BoundsOf(i) : P!Bound(i) <= x
<1>1. P!Bound(i) = P!Min(BoundsOf(i))
  BY DEF P!Bound, BoundsOf, Seven
<1>2. P!ReadinessBound(i.readiness) \in Int
  BY InputFacts, ReadinessGrows
<1>3. P!StopBound(P!Levels(i)) \in Int
  BY StopBoundFacts
<1> DEFINE a == P!LeverageMax
           b == P!ReadinessBound(i.readiness)
           c == P!StopBound(P!Levels(i))
           d == P!VolatilityBound(i.atr)
           e == P!FrictionBound(i.friction)
           f == P!SuitabilityBound(i.suitability)
           g == P!ExchangeBound(i.exchange)
<1>4. /\ a \in Int /\ b \in Int /\ c \in Int /\ d \in Int /\ e \in Int /\ f \in Int
      /\ g \in Int
  BY <1>2, <1>3, BoundsAreNumbers
<1>5. BoundsOf(i) = Seven(a, b, c, d, e, f, g)
  BY DEF BoundsOf
<1> HIDE DEF a, b, c, d, e, f, g
<1> DEFINE S == Seven(a, b, c, d, e, f, g)
<1>6. P!Min(S) \in S /\ P!Min(S) \in Int /\ \A x \in S : P!Min(S) <= x
  BY <1>4, SevenFacts
<1> HIDE DEF S
<1>7. BoundsOf(i) = S
  BY <1>5 DEF S
<1> QED
  BY <1>1, <1>6, <1>7

\* Two sets of inputs that differ only in their evidence have the same levels.
LEMMA SameLevels ==
    ASSUME NEW i, NEW j, j.entry = i.entry, j.high = i.high, j.atr = i.atr,
           j.friction = i.friction, j.tick = i.tick
    PROVE  P!Levels(j) = P!Levels(i) /\ (P!Ready(j) <=> P!Ready(i))
<1>1. P!Stop(j) = P!Stop(i)
  BY DEF P!Stop, P!BaseStop, P!Structural, P!AtrFloor
<1>2. P!Risk(j) = P!Risk(i)
  BY <1>1 DEF P!Risk
<1>3. P!Target(j, 1) = P!Target(i, 1) /\ P!Target(j, 2) = P!Target(i, 2)
  BY <1>2 DEF P!Target
<1>4. P!Levels(j) = P!Levels(i)
  BY <1>1, <1>3 DEF P!Levels
<1>5. P!Ready(j) <=> P!Ready(i)
  BY <1>2, <1>3, <1>4 DEF P!Ready
<1> QED
  BY <1>4, <1>5

\* What an advised leverage is.
LEMMA LeverageFacts ==
    ASSUME NEW i \in P!Inputs, P!PlanAssumption
    PROVE  /\ P!Leverage(i) \in Nat
           /\ P!Leverage(i) # 0 =>
                /\ P!Ready(i) /\ i.atr > 0 /\ i.readiness >= P!ReadinessFloor
                /\ P!Bound(i) >= P!LeverageMin /\ P!Leverage(i) = P!Bound(i)
<1>1. CASE P!Ready(i) /\ i.atr > 0 /\ i.readiness >= P!ReadinessFloor
           /\ P!Bound(i) >= P!LeverageMin
  <2>1. P!Bound(i) \in Int
    BY <1>1, BoundFacts
  <2>2. P!Bound(i) \in Nat
    BY <1>1, <2>1 DEF P!LeverageMin
  <2> QED
    BY <1>1, <2>2 DEF P!Leverage
<1>2. CASE ~(P!Ready(i) /\ i.atr > 0 /\ i.readiness >= P!ReadinessFloor
             /\ P!Bound(i) >= P!LeverageMin)
  BY <1>2 DEF P!Leverage
<1> QED
  BY <1>1, <1>2

\* Worse evidence, and no more leverage.
LEMMA WorseFacts ==
    ASSUME NEW i \in P!Inputs, NEW w \in P!Inputs, P!PlanAssumption,
           w.entry = i.entry, w.high = i.high, w.atr = i.atr, w.friction = i.friction,
           w.tick = i.tick, w.exchange = i.exchange, w.readiness <= i.readiness,
           P!SuitabilityBound(w.suitability) <= P!SuitabilityBound(i.suitability)
    PROVE  P!Leverage(w) <= P!Leverage(i)
<1>1. P!Leverage(w) \in Nat /\ P!Leverage(i) \in Nat
  BY LeverageFacts
<1>2. CASE P!Leverage(w) = 0
  BY <1>1, <1>2
<1>3. CASE P!Leverage(w) # 0
  <2>1. /\ P!Ready(w) /\ w.atr > 0 /\ w.readiness >= P!ReadinessFloor
        /\ P!Bound(w) >= P!LeverageMin /\ P!Leverage(w) = P!Bound(w)
    BY <1>3, LeverageFacts
  <2>2. P!Ready(i) /\ P!Levels(w) = P!Levels(i)
    BY <2>1, SameLevels
  <2>3. w.readiness \in Nat /\ i.readiness \in Nat
    BY InputFacts
  <2>4. /\ P!ReadinessBound(w.readiness) \in Int /\ P!ReadinessBound(i.readiness) \in Int
        /\ P!ReadinessBound(w.readiness) <= P!ReadinessBound(i.readiness)
    <3> DEFINE r == w.readiness
               q == i.readiness
    <3>1. r \in Nat /\ q \in Nat /\ r <= q
      BY <2>3
    <3> HIDE DEF r, q
    <3>2. /\ P!ReadinessBound(r) \in Int /\ P!ReadinessBound(q) \in Int
          /\ P!ReadinessBound(r) <= P!ReadinessBound(q)
      BY <3>1, ReadinessGrows
    <3> QED
      BY <3>2 DEF r, q
  <2>5. P!Bound(w) \in Int /\ \A x \in BoundsOf(w) : P!Bound(w) <= x
    BY <2>1, BoundFacts
  <2>6. P!Bound(i) \in Int /\ P!Bound(i) \in BoundsOf(i)
    BY <2>2, BoundFacts
  <2>7. \A x \in BoundsOf(i) : \E y \in BoundsOf(w) : y <= x /\ y \in Int /\ x \in Int
    <3> DEFINE a == P!LeverageMax
               b == P!ReadinessBound(i.readiness)
               c == P!StopBound(P!Levels(i))
               d == P!VolatilityBound(i.atr)
               e == P!FrictionBound(i.friction)
               f == P!SuitabilityBound(i.suitability)
               g == P!ExchangeBound(i.exchange)
               b1 == P!ReadinessBound(w.readiness)
               f1 == P!SuitabilityBound(w.suitability)
    <3>1. BoundsOf(i) = {a, b, c, d, e, f, g}
      BY DEF BoundsOf, Seven
    <3>2. BoundsOf(w) = {a, b1, c, d, e, f1, g}
      BY <2>2 DEF BoundsOf, Seven
    <3>3. /\ a \in Int /\ b \in Int /\ c \in Int /\ d \in Int /\ e \in Int /\ f \in Int
          /\ g \in Int /\ b1 \in Int /\ f1 \in Int
      BY <2>2, <2>4, StopBoundFacts, BoundsAreNumbers
    <3>4. b1 <= b /\ f1 <= f
      BY <2>4
    <3> HIDE DEF a, b, c, d, e, f, g, b1, f1
    <3>5. a <= a /\ c <= c /\ d <= d /\ e <= e /\ g <= g
      BY <3>3
    <3> QED
      BY <3>1, <3>2, <3>3, <3>4, <3>5
  <2>8. P!Bound(w) <= P!Bound(i)
    <3>1. PICK y \in BoundsOf(w) : y <= P!Bound(i) /\ y \in Int
      BY <2>6, <2>7
    <3>2. P!Bound(w) <= y
      BY <2>5
    <3> QED
      BY <2>5, <2>6, <3>1, <3>2
  <2>9. P!LeverageMin \in Int
    BY DEF P!LeverageMin
  <2>10. P!Bound(i) >= P!LeverageMin
    BY <2>1, <2>5, <2>6, <2>8, <2>9
  <2>11. i.readiness >= P!ReadinessFloor
    BY <2>1, <2>3 DEF P!ReadinessFloor
  <2>12. P!Leverage(i) = P!Bound(i)
    BY <2>1, <2>2, <2>10, <2>11 DEF P!Leverage
  <2> QED
    BY <2>1, <2>8, <2>12
<1> QED
  BY <1>2, <1>3

\* The plan of an input of the domain limits what a wrong signal costs.
LEMMA InputIsLimited ==
    ASSUME input \in P!Inputs, P!PlanAssumption PROVE P!LossIsLimited
<1>1. P!StopOutsideNoise
  <2> DEFINE s == P!Levels(input).stop
             t == input.tick
             f == P!AtrFloor(input)
             x == P!Stop(input)
  <2>1. s \in Int /\ t \in Int /\ f \in Int /\ x \in Int /\ f <= x /\ x <= s + t
    BY PlanLevels, StopFacts, InputFacts
  <2>2. s + t >= f
    <3> HIDE DEF s, t, f, x
    <3> QED
      BY <2>1
  <2> QED
    BY <2>2 DEF P!StopOutsideNoise
<1>2. P!LossIsBounded
  <2> DEFINE l == P!Levels(input)
             x == l.stop - l.entry
             v == P!Leverage(input)
  <2>1. l.entry \in Nat /\ l.stop \in Nat /\ x \in Int
    BY PlanLevels
  <2>2. CASE v = 0
    <3>1. v * x * 100 = 0 /\ 0 <= 36 * l.entry
      BY <2>1, <2>2
    <3> QED
      BY <3>1 DEF P!LossIsBounded
  <2>3. CASE v # 0
    <3>1. P!Ready(input) /\ v = P!Bound(input)
      BY <2>3, LeverageFacts
    <3> DEFINE b == P!StopBound(l)
    <3>2. b \in Int /\ b * x * 100 <= 36 * l.entry
      BY <3>1, StopBoundFacts
    <3>3. v \in Int /\ v <= b
      <4>1. b \in BoundsOf(input)
        BY DEF BoundsOf, Seven
      <4> QED
        BY <3>1, <4>1, BoundFacts
    <3>4. x >= 0
      BY <2>1, <3>1 DEF P!Ready
    <3>5. v * x * 100 <= b * x * 100
      <4> HIDE DEF v, x, b
      <4>1. v * x <= b * x
        BY <2>1, <3>2, <3>3, <3>4
      <4> QED
        BY <2>1, <3>2, <3>3, <4>1
    <3>6. v * x * 100 <= 36 * l.entry
      <4> DEFINE e == 36 * l.entry
      <4>1. e \in Int
        BY <2>1
      <4> HIDE DEF v, x, b, e
      <4>2. v * x * 100 \in Int /\ b * x * 100 \in Int
        BY <2>1, <3>2, <3>3
      <4>3. b * x * 100 <= e
        BY <3>2 DEF e
      <4>4. v * x * 100 <= e
        BY <3>5, <4>1, <4>2, <4>3
      <4> QED
        BY <4>4 DEF e
    <3> QED
      BY <3>6 DEF P!LossIsBounded
  <2> QED
    BY <2>2, <2>3
<1>3. P!WorseIsNeverLeveredMore
  <2>1. ASSUME NEW r \in Readinesses, r <= input.readiness
        PROVE  P!Leverage([input EXCEPT !.readiness = r]) <= P!Leverage(input)
    <3> DEFINE w == [input EXCEPT !.readiness = r]
    <3>1. /\ w \in P!Inputs /\ w.entry = input.entry /\ w.high = input.high
          /\ w.atr = input.atr /\ w.friction = input.friction /\ w.tick = input.tick
          /\ w.exchange = input.exchange /\ w.readiness = r
          /\ w.suitability = input.suitability
      BY DEF P!Inputs
    <3>2. P!SuitabilityBound(w.suitability) <= P!SuitabilityBound(input.suitability)
      BY <3>1 DEF P!SuitabilityBound
    <3> HIDE DEF w
    <3>3. P!Leverage(w) <= P!Leverage(input)
      BY <2>1, <3>1, <3>2, WorseFacts
    <3> QED
      BY <3>3 DEF w
  <2>2. P!Leverage([input EXCEPT !.suitability = "POOR"]) <= P!Leverage(input)
    <3> DEFINE w == [input EXCEPT !.suitability = "POOR"]
    <3>1. /\ w \in P!Inputs /\ w.entry = input.entry /\ w.high = input.high
          /\ w.atr = input.atr /\ w.friction = input.friction /\ w.tick = input.tick
          /\ w.exchange = input.exchange /\ w.readiness = input.readiness
          /\ w.suitability = "POOR"
      BY DEF P!Inputs, P!Suitabilities
    <3>2. P!SuitabilityBound(w.suitability) <= P!SuitabilityBound(input.suitability)
      BY <3>1 DEF P!SuitabilityBound
    <3>3. w.readiness <= input.readiness
      BY <3>1, InputFacts
    <3> HIDE DEF w
    <3>4. P!Leverage(w) <= P!Leverage(input)
      BY <3>1, <3>2, <3>3, WorseFacts
    <3> QED
      BY <3>4 DEF w
  <2> QED
    BY <2>1, <2>2 DEF P!WorseIsNeverLeveredMore, P!WorseEvidence
<1> QED
  BY <1>1, <1>2, <1>3 DEF P!LossIsLimited

-----------------------------------------------------------------------------
(* A packet and a plan are what the machine that scores or places them was *)
(* given at the start.                                                     *)
GivenInv ==
    /\ machine = "points" => packet \in E!Packets /\ momentum \in Momenta
    /\ machine = "levels" => input \in P!Inputs

\* A packet and a plan stay what they were given as (ScoreV2, PositionCalculator).
THEOREM GivenInvariance == EvaluationSpec => []GivenInv
<1>1. EvaluationInit => GivenInv
  BY DEF EvaluationInit, GivenInv, E!Init, P!Init, Machines
<1>2. GivenInv /\ [EvaluationNext]_<<evidence, evaluation>> => GivenInv'
  <2> SUFFICES ASSUME GivenInv, [EvaluationNext]_<<evidence, evaluation>> PROVE GivenInv'
    OBVIOUS
  <2>1. machine' = machine
    BY DEF EvaluationNext, StreamsNext, EvidenceNext, GenerationsStep, StreamsStep,
           StagesNext, VenuesNext, PointsNext, LevelsNext, SettingsNext, evidence
  <2>2. UNCHANGED <<packet, momentum, input>>
    BY DEF EvaluationNext, StreamsNext, StagesNext, VenuesNext, PointsNext, LevelsNext,
           SettingsNext, evaluation, points, levels, E!Next, E!vars, P!Next, P!vars
  <2> QED
    BY <2>1, <2>2 DEF GivenInv
<1> QED
  BY <1>1, <1>2, PTL DEF EvaluationSpec

\* More buying never adds points for a short, and the points of an entry and of
\* a watch stay on their scale (ScoreV2._derivatives, evaluate, evaluate_watch).
THEOREM BuyingNeverHelps == EvaluationSpec => []BuyingNeverHelpsAShort
<1>1. GivenInv => BuyingNeverHelpsAShort
  BY PacketIsScored, EvaluationsAssumption
     DEF GivenInv, BuyingNeverHelpsAShort, EvaluationsAssumption
<1> QED
  BY <1>1, GivenInvariance, PTL

\* The stop of a plan lies outside the noise, a stop costs at most 36 percent of
\* the margin at the advised leverage, and worse evidence gets no more of it
\* (calculate_short_position, recommend_signal_leverage).
THEOREM LossesAreLimited == EvaluationSpec => []LossIsLimited
<1>1. GivenInv => LossIsLimited
  BY InputIsLimited, EvaluationsAssumption DEF GivenInv, LossIsLimited, EvaluationsAssumption
<1> QED
  BY <1>1, GivenInvariance, PTL
=============================================================================
