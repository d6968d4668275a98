--------------------------- MODULE OutcomesProofs ---------------------------
(***************************************************************************)
(* Theorems about Outcomes, for every value of the constants that its      *)
(* assumption admits.  A step of the whole is a step of one machine, or    *)
(* leaves that machine as it is; what a machine's own steps keep, the      *)
(* whole keeps.                                                            *)
(***************************************************************************)
EXTENDS Outcomes, Sequences, FiniteSetTheorems, WellFoundedInduction, TLAPS

\* Every step is a step of each machine or leaves it as it is.
LEMMA OneMachineSteps ==
    ASSUME [OutcomesNext]_everything
    PROVE  /\ [Next]_vars
           /\ [L!Next]_(L!vars)
           /\ [H!Next]_(H!vars)
           /\ [F!Next]_(F!vars)
           /\ [B!Next]_(B!vars)
           /\ [M!Next]_(M!vars)
           /\ [P!Next]_(P!vars)
           /\ [D!Next]_(D!vars)
<1> USE DEF OutcomesNext, everything, Only, Still, Machines
<1>1. [Next]_vars
  OBVIOUS
<1>2. [L!Next]_(L!vars)
  BY DEF L!vars, logs
<1>3. [H!Next]_(H!vars)
  BY DEF H!vars, shadows
<1>4. [F!Next]_(F!vars)
  BY DEF F!vars, portfolio
<1>5. [B!Next]_(B!vars)
  BY DEF B!vars, backtests
<1>6. [M!Next]_(M!vars)
  BY DEF M!vars, measures
<1>7. [P!Next]_(P!vars)
  BY DEF P!vars, paper
<1>8. [D!Next]_(D!vars)
  BY DEF D!vars, captures
<1> QED
  BY <1>1, <1>2, <1>3, <1>4, <1>5, <1>6, <1>7, <1>8

\* Every machine starts as it does alone.
LEMMA MachinesStart ==
    OutcomesInit => /\ Init /\ L!Init /\ H!Init /\ F!Init /\ B!Init /\ M!Init
                    /\ P!Init /\ D!Init
BY DEF OutcomesInit

-----------------------------------------------------------------------------
(* SignalOutcomes                                                          *)

\* The minutes and the window are intervals of the natural numbers.
LEMMA MinuteFacts ==
    ASSUME HorizonAssumption
    PROVE  /\ Horizon \in Nat /\ 0 < Horizon
           /\ Window \subseteq Nat /\ Minutes \subseteq Nat
           /\ Window \subseteq Minutes /\ 0 \in Minutes
           /\ \A t \in Minutes : t = 0 \/ t \in Window
BY DEF HorizonAssumption, Window, Minutes

\* A nonempty set of minutes has a first one.
LEMMA FirstMinute ==
    ASSUME NEW T, T \subseteq Nat, T # {}
    PROVE  \E t \in T : \A u \in T : t <= u
<1>1. PICK t \in T : \A u \in T : <<u, t>> \notin OpToRel(<, Nat)
  BY NatLessThanWellFounded, WFMin
<1>2. ASSUME NEW u \in T PROVE t <= u
  <2>1. <<u, t>> \notin OpToRel(<, Nat)
    BY <1>1
  <2>2. u \in Nat /\ t \in Nat
    OBVIOUS
  <2>3. ~(u < t)
    BY <2>1, <2>2 DEF OpToRel
  <2> QED
    BY <2>2, <2>3
<1> QED
  BY <1>2

\* Some minute decides only if there is a first one.
LEMMA FirstDecidedExists ==
    ASSUME HorizonAssumption, NEW p, \E t \in Window : Decides(p, t)
    PROVE  FirstDecided(p, CHOOSE t \in Window : FirstDecided(p, t))
<1> DEFINE T == {t \in Window : Decides(p, t)}
<1>1. T \subseteq Nat /\ T # {}
  BY MinuteFacts
<1>2. PICK t \in T : \A u \in T : t <= u
  BY <1>1, FirstMinute
<1>3. FirstDecided(p, t)
  <2>1. t \in Window /\ Decides(p, t)
    OBVIOUS
  <2>2. ASSUME NEW u \in Window, u < t PROVE ~Decides(p, u)
    BY <1>2, <2>1, <2>2, MinuteFacts
  <2> QED
    BY <2>1, <2>2 DEF FirstDecided
<1> QED
  BY <1>3 DEF FirstDecided

\* The trigger minute of a packet that was not refused touched nothing.
LEMMA QuietStart ==
    ASSUME NEW p, ~TriggerMinuteTouched(p)
    PROVE  ~HitStop(p[0]) /\ ~HitTp1(p[0])
BY DEF TriggerMinuteTouched

\* No minute before the first that decides touched the stop.
LEMMA NoEarlierStop ==
    ASSUME HorizonAssumption, NEW p, ~TriggerMinuteTouched(p), NEW t, FirstDecided(p, t)
    PROVE  \A u \in 0..(t - 1) : ~HitStop(p[u])
<1>1. t \in Window /\ t \in Nat
  BY MinuteFacts DEF FirstDecided
<1> SUFFICES ASSUME NEW u \in 0..(t - 1) PROVE ~HitStop(p[u])
  OBVIOUS
<1>2. CASE u = 0
  BY <1>2, QuietStart
<1>3. CASE u # 0
  <2>1. u \in Window /\ u < t
    BY <1>1, <1>3, MinuteFacts DEF Window
  <2> QED
    BY <2>1 DEF FirstDecided, Decides
<1> QED
  BY <1>2, <1>3

\* The first minute that touched the target.
LEMMA FirstTarget ==
    ASSUME HorizonAssumption, NEW p, ~TriggerMinuteTouched(p),
           NEW T, T \subseteq Window, \E t \in T : HitTp1(p[t]),
           \A t \in T : \A u \in Window : u < t => u \in T
    PROVE  \E t \in T : /\ HitTp1(p[t])
                        /\ \A u \in 0..(t - 1) : ~HitTp1(p[u])
<1> DEFINE Touched == {t \in T : HitTp1(p[t])}
<1>1. Touched \subseteq Nat /\ Touched # {}
  BY MinuteFacts
<1>2. PICK t \in Touched : \A u \in Touched : t <= u
  BY <1>1, FirstMinute
<1>3. t \in Window /\ t \in Nat /\ t \in T /\ HitTp1(p[t])
  BY <1>1
<1>4. ASSUME NEW u \in 0..(t - 1) PROVE ~HitTp1(p[u])
  <2>1. CASE u = 0
    BY <2>1, QuietStart
  <2>2. CASE u # 0
    <3>1. u \in Window /\ u < t /\ u \in Nat
      BY <1>3, <2>2, MinuteFacts DEF Window
    <3>2. u \in T
      BY <1>3, <3>1
    <3> QED
      BY <1>2, <1>3, <3>1, <3>2
  <2> QED
    BY <2>1, <2>2
<1> QED
  BY <1>3, <1>4

\* What a path must have done for its verdict to count as a win or a stop.
Earned(p) ==
    \E t \in Window :
        /\ HitTp1(p[t])
        /\ \A u \in 0..t : ~HitStop(p[u])
        /\ \A u \in 0..(t - 1) : ~HitTp1(p[u])
Stopped(p) ==
    \E t \in Window :
        /\ HitStop(p[t])
        /\ \A u \in 0..t : ~HitTp1(p[u])

\* Evaluate, for every packet of candles: a verdict that counts as a win was
\* earned by the path, one that counts as a stop was a stop (evaluate).
THEOREM EvaluationCountsWhatHappened ==
    ASSUME HorizonAssumption, NEW levels \in BOOLEAN, NEW p
    PROVE  /\ Classification(Evaluate(levels, p)) = "WIN" => Earned(p)
           /\ Classification(Evaluate(levels, p)) = "STOP" => Stopped(p)
<1> DEFINE v == Evaluate(levels, p)
<1>1. CASE ~levels \/ ~Complete(p) \/ TriggerMinuteTouched(p)
  <2>1. v \in {"UNRESOLVABLE_SIGNAL_LEVELS", "DATA_INCOMPLETE",
               "UNRESOLVABLE_TRIGGER_MINUTE"}
    BY <1>1 DEF Evaluate
  <2> QED
    BY <2>1 DEF Classification
<1>2. CASE /\ levels /\ Complete(p) /\ ~TriggerMinuteTouched(p)
           /\ \E t \in Window : Decides(p, t)
  <2> DEFINE t == CHOOSE t \in Window : FirstDecided(p, t)
  <2>1. FirstDecided(p, t)
    BY <1>2, FirstDecidedExists
  <2> HIDE DEF t
  <2>2. v = VerdictAt(p, t)
    BY <1>2 DEF Evaluate, t
  <2>3. t \in Window /\ t \in Nat /\ Decides(p, t)
    BY <2>1, MinuteFacts DEF FirstDecided
  <2>4. \A u \in 0..(t - 1) : ~HitStop(p[u])
    BY <1>2, <2>1, NoEarlierStop
  <2>5. CASE HitStop(p[t]) /\ HitTp1(p[t])
    BY <2>2, <2>5 DEF VerdictAt, Classification
  <2>6. CASE Tp1Before(p, t)
    <3> DEFINE T == {u \in Window : u < t}
    <3>1. PICK s \in T : /\ HitTp1(p[s])
                         /\ \A u \in 0..(s - 1) : ~HitTp1(p[u])
      <4>1. \E u \in T : HitTp1(p[u])
        BY <2>6 DEF Tp1Before
      <4>2. \A w \in T : \A u \in Window : u < w => u \in T
        BY <2>3, MinuteFacts
      <4> HIDE DEF T
      <4>3. T \subseteq Window
        BY DEF T
      <4> QED
        BY <1>2, <4>1, <4>2, <4>3, FirstTarget
    <3>2. s \in Window /\ s \in Nat /\ s < t
      BY MinuteFacts
    <3>3. \A u \in 0..s : ~HitStop(p[u])
      BY <2>3, <2>4, <3>2
    <3>4. Earned(p)
      BY <3>1, <3>2, <3>3 DEF Earned
    <3>5. v # "STOP_FIRST"
      BY <2>2, <2>6 DEF VerdictAt
    <3>6. Classification(v) # "STOP"
      BY <2>2, <3>5 DEF VerdictAt, Classification
    <3> QED
      BY <3>4, <3>6
  <2>7. CASE ~Tp1Before(p, t) /\ HitStop(p[t]) /\ ~HitTp1(p[t])
    <3>1. v = "STOP_FIRST"
      BY <2>2, <2>7 DEF VerdictAt
    <3>2. ASSUME NEW u \in 0..t PROVE ~HitTp1(p[u])
      <4>1. CASE u = 0
        BY <1>2, <4>1, QuietStart
      <4>2. CASE u = t
        BY <2>7, <4>2
      <4>3. CASE u # 0 /\ u # t
        <5>1. u \in Window /\ u < t
          BY <2>3, <4>3, MinuteFacts DEF Window
        <5> QED
          BY <2>7, <5>1 DEF Tp1Before
      <4> QED
        BY <4>1, <4>2, <4>3
    <3>3. Stopped(p)
      BY <2>3, <2>7, <3>2 DEF Stopped
    <3> QED
      BY <3>1, <3>3 DEF Classification
  <2>8. CASE ~Tp1Before(p, t) /\ ~HitStop(p[t])
    <3>1. v = "TP2_FIRST"
      BY <2>2, <2>8 DEF VerdictAt
    <3>2. HitTp1(p[t])
      BY <2>3, <2>8 DEF Decides, HitTp2, HitTp1
    <3>3. \A u \in 0..t : ~HitStop(p[u])
      BY <2>3, <2>4, <2>8
    <3>4. ASSUME NEW u \in 0..(t - 1) PROVE ~HitTp1(p[u])
      <4>1. CASE u = 0
        BY <1>2, <4>1, QuietStart
      <4>2. CASE u # 0
        <5>1. u \in Window /\ u < t
          BY <2>3, <4>2, MinuteFacts DEF Window
        <5> QED
          BY <2>8, <5>1 DEF Tp1Before
      <4> QED
        BY <4>1, <4>2
    <3>5. Earned(p)
      BY <2>3, <3>2, <3>3, <3>4 DEF Earned
    <3> QED
      BY <3>1, <3>5 DEF Classification
  <2> QED
    BY <2>5, <2>6, <2>7, <2>8
<1>3. CASE /\ levels /\ Complete(p) /\ ~TriggerMinuteTouched(p)
           /\ ~\E t \in Window : Decides(p, t)
  <2>1. CASE \E t \in Window : HitTp1(p[t])
    <3>1. v = "TP1_ONLY_24H"
      BY <1>3, <2>1 DEF Evaluate
    <3>2. PICK t \in Window : /\ HitTp1(p[t])
                              /\ \A u \in 0..(t - 1) : ~HitTp1(p[u])
      BY <1>3, <2>1, FirstTarget
    <3>3. ASSUME NEW u \in 0..t PROVE ~HitStop(p[u])
      <4>1. u \in Minutes
        BY MinuteFacts DEF Window, Minutes
      <4>2. CASE u = 0
        BY <1>3, <4>2, QuietStart
      <4>3. CASE u \in Window
        BY <1>3, <4>3 DEF Decides
      <4> QED
        BY <4>1, <4>2, <4>3, MinuteFacts
    <3>4. Earned(p)
      BY <3>2, <3>3 DEF Earned
    <3> QED
      BY <3>1, <3>4 DEF Classification
  <2>2. CASE ~\E t \in Window : HitTp1(p[t])
    <3>1. v = "NO_LEVEL_HIT_24H"
      BY <1>3, <2>2 DEF Evaluate
    <3> QED
      BY <3>1 DEF Classification
  <2> QED
    BY <2>1, <2>2
<1> QED
  BY <1>1, <1>2, <1>3

-----------------------------------------------------------------------------

\* A packet that lost its tail counts neither way.
LEMMA PartCountsNothing ==
    ASSUME NEW levels \in BOOLEAN, NEW p, ~Complete(p)
    PROVE  Classification(Evaluate(levels, p)) = "UNAVAILABLE"
BY DEF Evaluate, Classification

\* What a settlement counts is what the path did, however much was fetched.
LEMMA VerdictCounts ==
    ASSUME HorizonAssumption, TypeOK, NEW s \in Signals
    PROVE  /\ Classification(Verdict(s)) = "WIN" => Earned(path[s])
           /\ Classification(Verdict(s)) = "STOP" => Stopped(path[s])
<1>1. CASE s \in Sourceless
  BY <1>1 DEF Verdict, Classification
<1>2. CASE s \notin Sourceless /\ reach[s] = "all"
  <2>1. Verdict(s) = Evaluate(s \notin Levelless, path[s])
    BY <1>2 DEF Verdict, Fetched
  <2> QED
    BY <2>1, EvaluationCountsWhatHappened
<1>3. CASE s \notin Sourceless /\ reach[s] # "all"
  <2> DEFINE p == Fetched(s)
  <2>1. p = [t \in Minutes |-> IF t < Horizon THEN path[s][t] ELSE "missing"]
    BY <1>3 DEF Fetched
  <2>2. Horizon \in Minutes /\ p[Horizon] = "missing"
    BY <2>1, MinuteFacts DEF Minutes
  <2>3. ~Complete(p)
    BY <2>2 DEF Complete
  <2>4. Verdict(s) = Evaluate(s \notin Levelless, p)
    BY <1>3 DEF Verdict
  <2> QED
    BY <2>3, <2>4, PartCountsNothing
<1> QED
  BY <1>1, <1>2, <1>3

\* A verdict is one of the named outcomes.
LEMMA VerdictType ==
    ASSUME NEW s \in Signals
    PROVE  Verdict(s) \in Verdicts \cup {"none", "UNRESOLVABLE_SIGNAL_SOURCE"}
BY DEF Verdict, Evaluate, VerdictAt, Verdicts

\* What is counted so far is what the paths did.
CountedAsEarned ==
    \A s \in Signals :
        /\ Classification(outcome[s]) = "WIN" => Earned(path[s])
        /\ Classification(outcome[s]) = "STOP" => Stopped(path[s])
SignalsInv == TypeOK /\ CountedAsEarned

\* Nothing is settled at the start.
LEMMA SignalsStart ==
    ASSUME SignalsAssumption
    PROVE  Init => SignalsInv
<1>1. Init => TypeOK
  BY DEF Init, TypeOK, SignalsAssumption
<1>2. Init => CountedAsEarned
  BY DEF Init, CountedAsEarned, Classification
<1> QED
  BY <1>1, <1>2 DEF SignalsInv

\* Every step of the settlement keeps its invariant.
LEMMA SignalsStep ==
    ASSUME HorizonAssumption, SignalsAssumption, SignalsInv, [Next]_vars
    PROVE  SignalsInv'
<1>0. TypeOK /\ CountedAsEarned
  BY DEF SignalsInv
<1>1. TypeOK'
  <2> USE <1>0 DEF TypeOK
  <2>1. CASE Read
    BY <2>1 DEF Read, Oldest, Pending
  <2>2. ASSUME NEW s \in Signals, Skip(s) PROVE TypeOK'
    BY <2>2 DEF Skip
  <2>3. ASSUME NEW s \in Signals, Settle(s) PROVE TypeOK'
    BY <2>3, VerdictType DEF Settle
  <2>4. CASE Restart
    BY <2>4 DEF Restart, SignalsAssumption
  <2>5. ASSUME NEW s \in Signals, Ripen(s) PROVE TypeOK'
    BY <2>5 DEF Ripen
  <2>6. ASSUME NEW s \in Signals, NEW r \in {"nothing", "part", "all"},
               Answers(s, r)
        PROVE TypeOK'
    BY <2>6 DEF Answers
  <2>7. CASE UNCHANGED vars
    BY <2>7 DEF vars
  <2> QED
    BY <2>1, <2>2, <2>3, <2>4, <2>5, <2>6, <2>7 DEF Next, Cycle
<1>2. ASSUME NEW s \in Signals
      PROVE  /\ Classification(outcome'[s]) = "WIN" => Earned(path'[s])
             /\ Classification(outcome'[s]) = "STOP" => Stopped(path'[s])
  <2>1. path' = path
    BY DEF Next, Cycle, Read, Skip, Settle, Restart, Ripen, Answers, vars
  <2>2. \/ outcome'[s] = outcome[s]
        \/ outcome'[s] = Verdict(s)
    BY <1>0 DEF Next, Cycle, Read, Skip, Settle, Restart, Ripen, Answers, vars, TypeOK
  <2> QED
    BY <1>0, <2>1, <2>2, VerdictCounts DEF CountedAsEarned
<1> QED
  BY <1>1, <1>2 DEF SignalsInv, CountedAsEarned

\* Every outcome recorded so far is what the path of its signal earned
\* (settle_once, append_outcome).
THEOREM SignalsInvariance == OutcomesSpec => []SignalsInv
<1>1. OutcomesInit => SignalsInv
  BY MachinesStart, SignalsStart, OutcomesAssumption DEF OutcomesAssumption
<1>2. SignalsInv /\ [OutcomesNext]_everything => SignalsInv'
  BY OneMachineSteps, SignalsStep, OutcomesAssumption DEF OutcomesAssumption
<1> QED
  BY <1>1, <1>2, PTL DEF OutcomesSpec

\* Every state of the settlement has its type.
THEOREM SignalsTypeCorrect == OutcomesSpec => []TypeOK
<1>1. SignalsInv => TypeOK
  BY DEF SignalsInv
<1> QED
  BY <1>1, SignalsInvariance, PTL

\* What is counted for or against a signal is what its price path did, for a
\* window of any length and any answers of the exchange (evaluate,
\* append_outcome).
THEOREM CountsWhatHappenedHolds == OutcomesSpec => []CountsWhatHappened
<1>1. SignalsInv => CountsWhatHappened
  BY DEF SignalsInv, CountedAsEarned, CountsWhatHappened, WinIsEarned,
         StopIsReal, Win, Earned, Stopped
<1> QED
  BY <1>1, SignalsInvariance, PTL

-----------------------------------------------------------------------------
(* DecisionLog                                                             *)

\* What the bounds of TypeOK do not need: the counts are numbers.  That no
\* row exceeds MaxEvaluations follows from the theorem below, not the other
\* way round.
LogRow == [count : Nat, kind : L!Kinds]
LogRows == [L!Keys -> LogRow]
Counting ==
    /\ logClock \in 0..MaxBucket
    /\ pending \in LogRows /\ logTable \in LogRows /\ flight \in [busy : BOOLEAN, rows : LogRows]
    /\ observed \in [L!Keys -> Nat] /\ lost \in [L!Keys -> Nat]

\* A flush that is not under way holds no row.
NothingHeldWhenIdle == ~flight.busy => flight.rows = L!NoRows

LogInv == Counting /\ NothingHeldWhenIdle /\ L!CountsAreExact

\* A table without counts adds nothing.
LEMMA NoRowsCountNothing ==
    /\ L!NoRows \in LogRows
    /\ \A k \in L!Keys : L!NoRows[k].count = 0
BY DEF L!NoRows, L!NoRow, LogRows, LogRow, L!Kinds

\* Two sets of rows added key by key: the counts of both, and rows again.
LEMMA CountsAddUp ==
    ASSUME NEW rows \in LogRows, NEW to \in LogRows
    PROVE  /\ L!AddedAll(rows, to) \in LogRows
           /\ \A k \in L!Keys :
                 L!AddedAll(rows, to)[k].count = rows[k].count + to[k].count
<1>1. ASSUME NEW k \in L!Keys
      PROVE  /\ L!AddedAll(rows, to)[k] \in LogRow
             /\ L!AddedAll(rows, to)[k].count = rows[k].count + to[k].count
  <2>1. rows[k] \in LogRow /\ to[k] \in LogRow
    BY DEF LogRows
  <2>2. CASE rows[k].count > 0
    BY <2>1, <2>2 DEF L!AddedAll, L!Added, LogRow
  <2>3. CASE rows[k].count = 0
    BY <2>1, <2>3 DEF L!AddedAll, LogRow
  <2> QED
    BY <2>1, <2>2, <2>3 DEF LogRow
<1>2. L!AddedAll(rows, to) = [k \in L!Keys |-> L!AddedAll(rows, to)[k]]
  BY DEF L!AddedAll
<1> QED
  BY <1>1, <1>2 DEF LogRows

\* Nothing is counted at the start.
LEMMA LogStarts ==
    ASSUME L!LogAssumption
    PROVE  L!Init => LogInv
<1> SUFFICES ASSUME L!Init PROVE LogInv
  OBVIOUS
<1>1. Counting
  BY NoRowsCountNothing DEF L!Init, Counting, L!Idle, L!LogAssumption
<1>2. NothingHeldWhenIdle
  BY DEF L!Init, NothingHeldWhenIdle, L!Idle
<1>3. L!CountsAreExact
  BY NoRowsCountNothing DEF L!Init, L!CountsAreExact, L!Idle
<1> QED
  BY <1>1, <1>2, <1>3 DEF LogInv

\* What a comparison can have been.
LEMMA KindsOfComparison ==
    ASSUME NEW gate \in BOOLEAN, NEW answer
    PROVE  L!ComparisonKind(gate, answer) \in L!Kinds
BY DEF L!ComparisonKind, L!Kinds

\* An evaluation counted: one more in its row, and one more observed.
LEMMA ObserveKeepsLog ==
    ASSUME LogInv, NEW s \in Symbols, NEW gate \in BOOLEAN, NEW answer \in Statuses,
           L!Observe(s, gate, answer)
    PROVE  LogInv'
<1> DEFINE k == <<logClock, s>>
           kind == L!ComparisonKind(gate, answer)
           row == L!Added([count |-> 1, kind |-> kind], pending[k])
<1>1. Counting /\ NothingHeldWhenIdle /\ L!CountsAreExact
  BY DEF LogInv
<1>2. k \in L!Keys /\ pending[k] \in LogRow
  BY <1>1 DEF Counting, L!Keys, LogRows
<1>3. kind \in L!Kinds
  BY KindsOfComparison
<1>4. /\ pending' = [pending EXCEPT ![k] = row]
      /\ observed' = [observed EXCEPT ![k] = observed[k] + 1]
      /\ UNCHANGED <<logClock, flight, logTable, lost>>
  BY DEF L!Observe
<1> HIDE DEF kind
<1>5. row \in LogRow /\ row.count = 1 + pending[k].count
  BY <1>2, <1>3 DEF L!Added, LogRow
<1> HIDE DEF row, k
<1>6. Counting'
  BY <1>1, <1>2, <1>4, <1>5 DEF Counting, LogRows
<1>7. NothingHeldWhenIdle'
  BY <1>1, <1>4 DEF NothingHeldWhenIdle
<1>8. ASSUME NEW j \in L!Keys
      PROVE  observed'[j] = pending'[j].count + flight'.rows[j].count
                              + logTable'[j].count + lost'[j]
  <2>1. /\ pending[j].count \in Nat /\ flight.rows[j].count \in Nat
        /\ logTable[j].count \in Nat /\ lost[j] \in Nat /\ observed[j] \in Nat
    BY <1>1 DEF Counting, LogRows, LogRow
  <2>2. observed[j] = pending[j].count + flight.rows[j].count
                        + logTable[j].count + lost[j]
    BY <1>1 DEF L!CountsAreExact
  <2>3. CASE j = k
    <3>1. /\ pending'[j].count = 1 + pending[j].count
          /\ observed'[j] = observed[j] + 1
      BY <1>1, <1>2, <1>4, <1>5, <2>3 DEF Counting, LogRows
    <3> QED
      BY <1>4, <2>1, <2>2, <3>1
  <2>4. CASE j # k
    <3>1. pending'[j] = pending[j] /\ observed'[j] = observed[j]
      BY <1>1, <1>4, <2>4 DEF Counting, LogRows
    <3> QED
      BY <1>4, <2>2, <3>1
  <2> QED
    BY <2>3, <2>4
<1> QED
  BY <1>6, <1>7, <1>8 DEF LogInv, L!CountsAreExact

\* What memory held is in the hands of the flush: nothing was, before.
LEMMA TakingKeepsLog ==
    ASSUME LogInv, ~flight.busy, L!TakePending,
           UNCHANGED <<logClock, logTable, observed, lost>>
    PROVE  LogInv'
<1>1. Counting /\ NothingHeldWhenIdle /\ L!CountsAreExact
  BY DEF LogInv
<1>2. flight.rows = L!NoRows
  BY <1>1 DEF NothingHeldWhenIdle
<1>3. Counting' /\ NothingHeldWhenIdle'
  BY <1>1, NoRowsCountNothing DEF L!TakePending, Counting, NothingHeldWhenIdle
<1>4. ASSUME NEW j \in L!Keys
      PROVE  observed'[j] = pending'[j].count + flight'.rows[j].count
                              + logTable'[j].count + lost'[j]
  <2>1. pending[j].count \in Nat /\ logTable[j].count \in Nat /\ lost[j] \in Nat
    BY <1>1 DEF Counting, LogRows, LogRow
  <2>2. observed[j] = pending[j].count + 0 + logTable[j].count + lost[j]
    BY <1>1, <1>2, NoRowsCountNothing DEF L!CountsAreExact
  <2>3. pending'[j].count = 0 /\ flight'.rows[j].count = pending[j].count
    BY NoRowsCountNothing DEF L!TakePending
  <2> QED
    BY <2>1, <2>2, <2>3
<1> QED
  BY <1>3, <1>4 DEF LogInv, L!CountsAreExact

\* The rows of a flush reach the table.
LEMMA CommitKeepsLog ==
    ASSUME LogInv, L!FlushCommits
    PROVE  LogInv'
<1>1. Counting /\ NothingHeldWhenIdle /\ L!CountsAreExact
  BY DEF LogInv
<1>2. /\ logTable' = L!AddedAll(flight.rows, logTable) /\ flight' = L!Idle
      /\ UNCHANGED <<logClock, pending, observed, lost>>
  BY DEF L!FlushCommits
<1>3. flight.rows \in LogRows /\ logTable \in LogRows
  BY <1>1 DEF Counting
<1>4. Counting' /\ NothingHeldWhenIdle'
  BY <1>1, <1>2, <1>3, CountsAddUp, NoRowsCountNothing
     DEF Counting, NothingHeldWhenIdle, L!Idle
<1>5. ASSUME NEW j \in L!Keys
      PROVE  observed'[j] = pending'[j].count + flight'.rows[j].count
                              + logTable'[j].count + lost'[j]
  <2>1. /\ pending[j].count \in Nat /\ flight.rows[j].count \in Nat
        /\ logTable[j].count \in Nat /\ lost[j] \in Nat
    BY <1>1 DEF Counting, LogRows, LogRow
  <2>2. logTable'[j].count = flight.rows[j].count + logTable[j].count
    BY <1>2, <1>3, CountsAddUp
  <2>3. flight'.rows[j].count = 0
    BY <1>2, NoRowsCountNothing DEF L!Idle
  <2>4. observed[j] = pending[j].count + flight.rows[j].count
                        + logTable[j].count + lost[j]
    BY <1>1 DEF L!CountsAreExact
  <2> QED
    BY <1>2, <2>1, <2>2, <2>3, <2>4
<1> QED
  BY <1>4, <1>5 DEF LogInv, L!CountsAreExact

\* The rows of a flush that failed go back, beside those counted meanwhile.
LEMMA FailureKeepsLog ==
    ASSUME LogInv, L!FlushFails
    PROVE  LogInv'
<1>1. Counting /\ NothingHeldWhenIdle /\ L!CountsAreExact
  BY DEF LogInv
<1>2. /\ pending' = L!AddedAll(flight.rows, pending) /\ flight' = L!Idle
      /\ UNCHANGED <<logClock, logTable, observed, lost>>
  BY DEF L!FlushFails, L!MergedBack
<1>3. flight.rows \in LogRows /\ pending \in LogRows
  BY <1>1 DEF Counting
<1>4. Counting' /\ NothingHeldWhenIdle'
  BY <1>1, <1>2, <1>3, CountsAddUp, NoRowsCountNothing
     DEF Counting, NothingHeldWhenIdle, L!Idle
<1>5. ASSUME NEW j \in L!Keys
      PROVE  observed'[j] = pending'[j].count + flight'.rows[j].count
                              + logTable'[j].count + lost'[j]
  <2>1. /\ pending[j].count \in Nat /\ flight.rows[j].count \in Nat
        /\ logTable[j].count \in Nat /\ lost[j] \in Nat
    BY <1>1 DEF Counting, LogRows, LogRow
  <2>2. pending'[j].count = flight.rows[j].count + pending[j].count
    BY <1>2, <1>3, CountsAddUp
  <2>3. flight'.rows[j].count = 0
    BY <1>2, NoRowsCountNothing DEF L!Idle
  <2>4. observed[j] = pending[j].count + flight.rows[j].count
                        + logTable[j].count + lost[j]
    BY <1>1 DEF L!CountsAreExact
  <2> QED
    BY <1>2, <2>1, <2>2, <2>3, <2>4
<1> QED
  BY <1>4, <1>5 DEF LogInv, L!CountsAreExact

\* The retention drops whole rows, and what they counted is lost.
LEMMA SnapshotKeepsLog ==
    ASSUME LogInv, L!Snapshot
    PROVE  LogInv'
<1> DEFINE old == {k \in L!Keys : L!Expired(k[1])}
<1>1. Counting /\ NothingHeldWhenIdle /\ L!CountsAreExact
  BY DEF LogInv
<1>2. /\ logTable' = [k \in L!Keys |-> IF k \in old THEN L!NoRow ELSE logTable[k]]
      /\ lost' = [k \in L!Keys |-> lost[k] + IF k \in old THEN logTable[k].count ELSE 0]
      /\ UNCHANGED <<logClock, pending, flight, observed>>
  BY DEF L!Snapshot
<1> HIDE DEF old
<1>3. ASSUME NEW j \in L!Keys
      PROVE  /\ logTable'[j] \in LogRow /\ lost'[j] \in Nat
             /\ logTable'[j].count + lost'[j] = logTable[j].count + lost[j]
  <2>1. logTable[j] \in LogRow /\ lost[j] \in Nat
    BY <1>1 DEF Counting, LogRows
  <2>2. CASE j \in old
    <3>1. logTable'[j] = L!NoRow /\ lost'[j] = lost[j] + logTable[j].count
      BY <1>2, <2>2
    <3> QED
      BY <2>1, <3>1 DEF LogRow, L!NoRow, L!Kinds
  <2>3. CASE j \notin old
    <3>1. logTable'[j] = logTable[j] /\ lost'[j] = lost[j] + 0
      BY <1>2, <2>3
    <3> QED
      BY <2>1, <3>1 DEF LogRow
  <2> QED
    BY <2>2, <2>3
<1>4. Counting'
  <2>1. logTable' \in LogRows /\ lost' \in [L!Keys -> Nat]
    BY <1>2, <1>3 DEF LogRows
  <2> QED
    BY <1>1, <1>2, <2>1 DEF Counting
<1>5. NothingHeldWhenIdle'
  BY <1>1, <1>2 DEF NothingHeldWhenIdle
<1>6. ASSUME NEW j \in L!Keys
      PROVE  observed'[j] = pending'[j].count + flight'.rows[j].count
                              + logTable'[j].count + lost'[j]
  <2>1. /\ pending[j].count \in Nat /\ flight.rows[j].count \in Nat
        /\ logTable[j].count \in Nat /\ lost[j] \in Nat
        /\ logTable'[j].count \in Nat /\ lost'[j] \in Nat
    BY <1>1, <1>4 DEF Counting, LogRows, LogRow
  <2>2. observed[j] = pending[j].count + flight.rows[j].count
                        + logTable[j].count + lost[j]
    BY <1>1 DEF L!CountsAreExact
  <2>3. logTable'[j].count + lost'[j] = logTable[j].count + lost[j]
    BY <1>3
  <2>4. UNCHANGED <<pending, flight, observed>>
    BY <1>2
  <2> QED
    BY <2>1, <2>2, <2>3, <2>4
<1> QED
  BY <1>4, <1>5, <1>6 DEF LogInv, L!CountsAreExact

\* A kill loses what memory and the flush held, and only that.
LEMMA KillKeepsLog ==
    ASSUME LogInv, L!Kill
    PROVE  LogInv'
<1>1. Counting /\ NothingHeldWhenIdle /\ L!CountsAreExact
  BY DEF LogInv
<1>2. /\ lost' = [k \in L!Keys |-> lost[k] + pending[k].count + flight.rows[k].count]
      /\ pending' = L!NoRows /\ flight' = L!Idle
      /\ UNCHANGED <<logClock, logTable, observed>>
  BY DEF L!Kill
<1>3. ASSUME NEW j \in L!Keys
      PROVE  /\ pending[j].count \in Nat /\ flight.rows[j].count \in Nat
             /\ logTable[j].count \in Nat /\ lost[j] \in Nat
             /\ lost'[j] = lost[j] + pending[j].count + flight.rows[j].count
  BY <1>1, <1>2 DEF Counting, LogRows, LogRow
<1>4. Counting' /\ NothingHeldWhenIdle'
  <2>1. lost' \in [L!Keys -> Nat]
    BY <1>2, <1>3
  <2> QED
    BY <1>1, <1>2, <2>1, NoRowsCountNothing DEF Counting, NothingHeldWhenIdle, L!Idle
<1>5. ASSUME NEW j \in L!Keys
      PROVE  observed'[j] = pending'[j].count + flight'.rows[j].count
                              + logTable'[j].count + lost'[j]
  <2>1. pending'[j].count = 0 /\ flight'.rows[j].count = 0
    BY <1>2, NoRowsCountNothing DEF L!Idle
  <2>2. observed[j] = pending[j].count + flight.rows[j].count
                        + logTable[j].count + lost[j]
    BY <1>1 DEF L!CountsAreExact
  <2> QED
    BY <1>2, <1>3, <2>1, <2>2
<1> QED
  BY <1>4, <1>5 DEF LogInv, L!CountsAreExact

\* What leaves the rows and their counts alone.
LEMMA QuietStepKeepsLog ==
    ASSUME LogInv, UNCHANGED <<pending, flight, logTable, observed, lost>>,
           logClock' \in 0..MaxBucket
    PROVE  LogInv'
BY DEF LogInv, Counting, NothingHeldWhenIdle, L!CountsAreExact

\* Every step of the log keeps its invariant.
LEMMA LogStep ==
    ASSUME L!LogAssumption, LogInv, [L!Next]_(L!vars)
    PROVE  LogInv'
<1>1. logClock \in 0..MaxBucket
  BY DEF LogInv, Counting
<1>2. ASSUME NEW s \in Symbols, L!PacketExpires(s) \/ L!Dispatch(s) \/ L!EvaluationFails(s)
      PROVE  LogInv'
  BY <1>1, <1>2, QuietStepKeepsLog DEF L!PacketExpires, L!Dispatch, L!EvaluationFails
<1>3. ASSUME NEW s \in Symbols, NEW gate \in BOOLEAN, NEW answer \in Statuses,
             L!Observe(s, gate, answer)
      PROVE  LogInv'
  BY <1>3, ObserveKeepsLog
<1>4. CASE L!StartFlush
  BY <1>4, TakingKeepsLog DEF L!StartFlush
<1>5. CASE L!FlushCommits
  BY <1>5, CommitKeepsLog
<1>6. CASE L!FlushFails
  BY <1>6, FailureKeepsLog
<1>7. CASE L!Snapshot
  BY <1>7, SnapshotKeepsLog
<1>8. CASE L!Stop
  BY <1>1, <1>8, QuietStepKeepsLog DEF L!Stop
<1>9. CASE L!LastFlush
  BY <1>9, TakingKeepsLog DEF L!LastFlush, L!Drained
<1>10. CASE L!Kill
  BY <1>10, KillKeepsLog
<1>11. CASE L!NextBucket
  <2>1. logClock' \in 0..MaxBucket
    BY <1>1, <1>11 DEF L!NextBucket, L!LogAssumption
  <2> QED
    BY <1>11, <2>1, QuietStepKeepsLog DEF L!NextBucket
<1>12. CASE UNCHANGED L!vars
  BY <1>1, <1>12, QuietStepKeepsLog DEF L!vars
<1> QED
  BY <1>2, <1>3, <1>4, <1>5, <1>6, <1>7, <1>8, <1>9, <1>10, <1>11, <1>12 DEF L!Next

\* Counts are numbers, and a flush that is not under way holds no row
\* (flush, _merge_back).
THEOREM LogInvariance == OutcomesSpec => []LogInv
<1>1. OutcomesInit => LogInv
  BY MachinesStart, LogStarts, OutcomesAssumption DEF OutcomesAssumption
<1>2. LogInv /\ [OutcomesNext]_everything => LogInv'
  BY OneMachineSteps, LogStep, OutcomesAssumption DEF OutcomesAssumption
<1> QED
  BY <1>1, <1>2, PTL DEF OutcomesSpec

\* Every evaluation counted is in memory, in the hands of the flush, on disk,
\* or among those a kill or the retention dropped, in exactly one of them
\* (observe_evaluation, flush_evaluations).
THEOREM CountsHold == OutcomesSpec => []CountsAreExact
<1>1. LogInv => CountsAreExact
  BY DEF LogInv, CountsAreExact
<1> QED
  BY <1>1, LogInvariance, PTL

-----------------------------------------------------------------------------
(* LifecycleShadow                                                         *)

\* The fields of a piece of evidence that decide a move.
LEMMA EvidenceFields ==
    ASSUME NEW e \in H!EvidenceType
    PROVE  /\ e.profile \in {"STRICT", "EXPERIMENTAL"}
           /\ e.clock \in {"fresh", "stale", "unknown"}
           /\ e.extension \in {"near", "late", "blocked", "unknown"}
           /\ e.closed \in {"yes", "no", "unknown"}
BY DEF H!EvidenceType, H!Answers

\* Where a move may end (_next_state).
LEMMA MoveTo ==
    ASSUME NEW from \in H!States, NEW e \in H!EvidenceType
    PROVE  LET to == H!NextState(from, e).to IN
           /\ to \in H!States
           /\ from \in H!Terminal => to = from
           /\ to = "TRIGGERED" => from \in {"ARMED", "TRIGGERED"}
           /\ to = "ARMED" =>
                \/ from = "ARMED"
                \/ from = "PRE_TRIGGER" /\ e.closed = "no" /\ e.profile = "STRICT"
<1> DEFINE to == H!NextState(from, e).to
<1>1. CASE from \in H!Terminal
  <2>1. to = from
    BY <1>1 DEF H!NextState, H!Move
  <2> QED
    BY <1>1, <2>1 DEF H!Terminal
<1>2. CASE from \notin H!Terminal /\ ("unknown" \in {e.extension, e.clock} \/ e.clock = "stale")
  <2>1. to = from
    BY <1>2 DEF H!NextState, H!Move
  <2> QED
    BY <1>2, <2>1
<1>3. CASE from \notin H!Terminal /\ "unknown" \notin {e.extension, e.clock} /\ e.clock # "stale"
  <2>1. CASE e.extension # "near"
    <3>1. to \in {"EXECUTION_BLOCKED", "LATE"}
      BY <1>3, <2>1 DEF H!NextState, H!Ended, H!Move
    <3> QED
      BY <1>3, <3>1 DEF H!States, H!Terminal
  <2>2. CASE e.extension = "near" /\ from = "WATCH"
    <3>1. to \in {"WATCH", "FUEL_RICH"}
      BY <1>3, <2>2 DEF H!NextState, H!FromWatch, H!Move
    <3> QED
      BY <1>3, <3>1 DEF H!States
  <2>3. CASE e.extension = "near" /\ from = "FUEL_RICH"
    <3>1. to \in {"PRE_TRIGGER", "FUEL_RICH"}
      BY <1>3, <2>3 DEF H!NextState, H!FromFuelRich, H!Move
    <3> QED
      BY <1>3, <3>1 DEF H!States
  <2>4. CASE e.extension = "near" /\ from = "PRE_TRIGGER"
    <3>1. \/ to = "PRE_TRIGGER"
          \/ to = "ARMED" /\ e.closed = "no" /\ e.profile = "STRICT"
      BY <1>3, <2>4, EvidenceFields DEF H!NextState, H!FromPreTrigger, H!Obstacles, H!Move
    <3> QED
      BY <1>3, <2>4, <3>1 DEF H!States
  <2>5. CASE e.extension = "near" /\ from = "ARMED"
    <3>1. to \in {"ARMED", "TRIGGERED"}
      BY <1>3, <2>5 DEF H!NextState, H!FromArmed, H!Move
    <3> QED
      BY <1>3, <2>5, <3>1 DEF H!States
  <2>6. CASE e.extension = "near" /\ from \notin {"WATCH", "FUEL_RICH", "PRE_TRIGGER", "ARMED"}
    <3>1. to = from
      BY <1>3, <2>6 DEF H!NextState, H!Move
    <3> QED
      BY <1>3, <2>6, <3>1 DEF H!States
  <2> QED
    BY <2>1, <2>2, <2>3, <2>4, <2>5, <2>6
<1> QED
  BY <1>1, <1>2, <1>3

\* The reasons a move may have.
LEMMA MoveReasons ==
    ASSUME NEW from, NEW e
    PROVE  H!NextState(from, e).reasons \in SUBSET H!Reasons
<1>1. H!Obstacles(e) \in SUBSET H!Reasons
  BY DEF H!Obstacles, H!Reasons
<1>2. /\ H!Ended(e).reasons \in SUBSET H!Reasons
      /\ H!FromWatch(e).reasons \in SUBSET H!Reasons
      /\ H!FromFuelRich(e).reasons \in SUBSET H!Reasons
      /\ H!FromArmed(e).reasons \in SUBSET H!Reasons
  BY DEF H!Ended, H!FromWatch, H!FromFuelRich, H!FromArmed, H!Move, H!Reasons
<1>3. H!FromPreTrigger(e).reasons \in SUBSET H!Reasons
  BY <1>1 DEF H!FromPreTrigger, H!Move, H!Reasons
<1> QED
  BY <1>2, <1>3 DEF H!NextState, H!Move, H!Reasons

\* A nonempty set of places has a newest one.
LEMMA NewestFacts ==
    ASSUME NEW n \in Nat, NEW T, T \subseteq 1..n, T # {}
    PROVE  H!Newest(T) \in T /\ \A j \in T : j <= H!Newest(T)
<1> DEFINE Ahead == {n - j : j \in T}
<1>1. Ahead \subseteq Nat /\ Ahead # {}
  <2>1. \A j \in T : j \in Int /\ n - j \in Nat
    OBVIOUS
  <2> QED
    BY <2>1
<1>2. PICK r \in Ahead : \A u \in Ahead : r <= u
  BY <1>1, FirstMinute
<1>3. PICK i \in T : r = n - i
  BY <1>2
<1>4. ASSUME NEW j \in T PROVE j <= i
  <2>1. n - i <= n - j
    BY <1>2, <1>3
  <2> QED
    BY <2>1
<1> QED
  BY <1>4 DEF H!Newest

\* An event that armed the episode.
Arms(j) ==
    /\ log[j].from = "PRE_TRIGGER" /\ log[j].to = "ARMED"
    /\ log[j].open /\ log[j].profile = "STRICT"

\* Every event goes on where the newest before it in its episode ended; an
\* event that leaves the episode armed or triggered has an arming behind it.
GoesOn(i) ==
    LET before == H!EventsBefore(log[i].episode, i) IN
    /\ log[i].from = IF before = {} THEN "WATCH" ELSE log[H!Newest(before)].to
    /\ log[i].from \in H!Terminal => log[i].to = log[i].from
    /\ log[i].to = "TRIGGERED" => log[i].from \in {"ARMED", "TRIGGERED"}
    /\ log[i].to \in {"ARMED", "TRIGGERED"} => \E j \in before \cup {i} : Arms(j)
PathSoFar == \A i \in 1..Len(log) : GoesOn(i)
ShadowInv == H!TypeOK /\ PathSoFar

\* The empty log is a path.
LEMMA ShadowStarts ==
    ASSUME H!ShadowAssumption
    PROVE  H!Init => ShadowInv
BY DEF H!Init, ShadowInv, H!TypeOK, PathSoFar, H!ShadowAssumption

\* What leaves the log alone.
LEMMA SameLogGoesOn ==
    ASSUME UNCHANGED log, PathSoFar
    PROVE  PathSoFar'
<1>1. \A m, i : H!EventsBefore(m, i)' = H!EventsBefore(m, i)
  BY DEF H!EventsBefore
<1>2. \A j : Arms(j)' <=> Arms(j)
  BY DEF Arms
<1>3. ASSUME NEW i \in 1..Len(log) PROVE GoesOn(i)'
  <2>1. GoesOn(i)
    BY DEF PathSoFar
  <2>2. H!EventsBefore(log[i].episode, i)' = H!EventsBefore(log[i].episode, i)
    BY <1>1
  <2> QED
    BY <1>2, <2>1, <2>2 DEF GoesOn
<1> QED
  BY <1>3 DEF PathSoFar

\* What is appended goes on where the newest event of its episode ended.
LEMMA PersistKeepsShadow ==
    ASSUME H!ShadowAssumption, ShadowInv, NEW e \in Evidences, NEW v1 \in FirstStates,
           H!Persist(e, v1)
    PROVE  ShadowInv'
<1> DEFINE n == Len(log)
           last == H!EventsOf(episode)
           from == H!LatestState(episode)
           move == H!NextState(from, e)
           event == [episode |-> episode, from |-> from, to |-> move.to,
                     reasons |-> move.reasons, first |-> v1, profile |-> e.profile,
                     open |-> e.closed = "no"]
<1>1. /\ H!TypeOK /\ PathSoFar /\ e \in H!EvidenceType
      /\ log \in Seq(H!Events) /\ n \in Nat
      /\ \A i \in 1..n : log[i] \in H!Events
  BY DEF ShadowInv, H!TypeOK, H!ShadowAssumption
<1>2. UNCHANGED <<episode, shadowFaults>>
  BY DEF H!Persist
<1>3. /\ last \subseteq 1..n
      /\ last = {} => from = "WATCH"
      /\ last # {} => H!Newest(last) \in last /\ from = log[H!Newest(last)].to
  <2>1. last \subseteq 1..n
    BY <1>1 DEF H!EventsOf, H!EventsBefore
  <2> QED
    BY <1>1, <2>1, NewestFacts DEF H!LatestState
<1>4. from \in H!States
  <2>1. CASE last = {}
    BY <1>3, <2>1 DEF H!States
  <2>2. CASE last # {}
    BY <1>1, <1>3, <2>2 DEF H!Events
  <2> QED
    BY <2>1, <2>2
<1>5. event \in H!Events
  BY <1>1, <1>4, MoveTo, MoveReasons, EvidenceFields DEF H!Events, H!TypeOK
<1>6. CASE UNCHANGED log
  BY <1>1, <1>2, <1>6, SameLogGoesOn DEF ShadowInv, H!TypeOK
<1>7. CASE Len(log) < MaxEvents /\ log' = Append(log, event)
  <2> HIDE DEF event, move, from, last
  <2>1. /\ Len(log') = n + 1
        /\ log'[n + 1] = event
        /\ \A i \in 1..n : log'[i] = log[i]
        /\ log' \in Seq(H!Events)
    BY <1>1, <1>5, <1>7
  <2>2. H!TypeOK'
    BY <1>1, <1>2, <1>7, <2>1 DEF H!TypeOK, H!ShadowAssumption
  <2>4. H!EventsBefore(episode, n + 1) = last
    BY DEF H!EventsOf, last
  <2>5. ASSUME NEW i \in 1..n
        PROVE  GoesOn(i)'
    <3> DEFINE before == H!EventsBefore(log[i].episode, i)
    <3>1. log'[i] = log[i] /\ H!EventsBefore(log[i].episode, i)' = before
      <4>1. log'[i] = log[i] /\ i \in 1..(n + 1)
        BY <1>1, <2>1
      <4>2. H!EventsBefore(log[i].episode, i)' = H!EventsBefore(log[i].episode, i)
        BY <1>1, <4>1, <2>1 DEF H!EventsBefore
      <4> QED
        BY <4>1, <4>2
    <3>2. before \subseteq 1..n /\ (before # {} => H!Newest(before) \in before)
      <4>1. before \subseteq 1..n
        BY <1>1 DEF H!EventsBefore
      <4> QED
        BY <1>1, <4>1, NewestFacts
    <3>3. \A j \in before \cup {i} : Arms(j) => Arms(j)'
      BY <2>1, <3>2 DEF Arms
    <3>4. GoesOn(i)
      BY <1>1 DEF PathSoFar
    <3>5. before # {} => log'[H!Newest(before)] = log[H!Newest(before)]
      BY <2>1, <3>2
    <3> QED
      BY <3>1, <3>3, <3>4, <3>5 DEF GoesOn
  <2>6. /\ event.from = IF last = {} THEN "WATCH" ELSE log'[H!Newest(last)].to
        /\ event.from \in H!Terminal => event.to = event.from
        /\ event.to = "TRIGGERED" => event.from \in {"ARMED", "TRIGGERED"}
    <3>1. event.from = from /\ event.to = H!NextState(from, e).to
      BY DEF event, move
    <3>2. last # {} => log'[H!Newest(last)] = log[H!Newest(last)]
      BY <1>3, <2>1
    <3>3. /\ event.from \in H!Terminal => event.to = event.from
          /\ event.to = "TRIGGERED" => event.from \in {"ARMED", "TRIGGERED"}
      BY <1>1, <1>4, <3>1, MoveTo
    <3> QED
      BY <1>3, <3>1, <3>2, <3>3
  <2>7. ASSUME event.to \in {"ARMED", "TRIGGERED"}
        PROVE  \E j \in last \cup {n + 1} : Arms(j)'
    <3>1. /\ event.from = from /\ event.to = H!NextState(from, e).to
          /\ event.profile = e.profile /\ event.open = (e.closed = "no")
      BY DEF event, move
    <3>2. CASE from \notin {"ARMED", "TRIGGERED"}
      <4>1. /\ event.to = "ARMED" /\ from = "PRE_TRIGGER"
            /\ e.closed = "no" /\ e.profile = "STRICT"
        BY <1>1, <1>4, <2>7, <3>1, <3>2, MoveTo
      <4>2. /\ event.from = "PRE_TRIGGER" /\ event.to = "ARMED"
            /\ event.profile = "STRICT" /\ event.open
        BY <3>1, <4>1
      <4>3. /\ log'[n + 1].from = "PRE_TRIGGER" /\ log'[n + 1].to = "ARMED"
            /\ log'[n + 1].open /\ log'[n + 1].profile = "STRICT"
        BY <2>1, <4>2
      <4>4. PICK k \in last \cup {n + 1} : k = n + 1
        OBVIOUS
      <4>5. Arms(k)'
        BY <4>3, <4>4 DEF Arms
      <4> QED
        BY <4>4, <4>5
    <3>3. CASE from \in {"ARMED", "TRIGGERED"}
      <4> DEFINE k == H!Newest(last)
      <4>1. last # {} /\ k \in last /\ k \in 1..n /\ log[k].to = from
        BY <1>3, <3>3
      <4>2. log[k].episode = episode
        BY <4>1 DEF last, H!EventsOf, H!EventsBefore
      <4>3. PICK j \in H!EventsBefore(episode, k) \cup {k} : Arms(j)
        BY <1>1, <3>3, <4>1, <4>2 DEF PathSoFar, GoesOn
      <4>4. j \in last /\ j \in 1..n
        BY <1>1, <4>1, <4>2, <4>3 DEF last, H!EventsOf, H!EventsBefore
      <4>5. Arms(j)'
        BY <2>1, <4>3, <4>4 DEF Arms
      <4> QED
        BY <4>4, <4>5
    <3> QED
      BY <3>2, <3>3
  <2>8. PathSoFar'
    <3> SUFFICES ASSUME NEW i \in 1..(n + 1) PROVE GoesOn(i)'
      BY <2>1 DEF PathSoFar
    <3>1. CASE i \in 1..n
      BY <2>5, <3>1
    <3>2. CASE i = n + 1
      <4>1. event.episode = episode
        BY DEF event
      <4>2. H!EventsBefore(log[i].episode, i)' = last
        BY <1>1, <2>1, <2>4, <3>2, <4>1 DEF H!EventsBefore
      <4> QED
        BY <2>1, <2>6, <2>7, <3>2, <4>2 DEF GoesOn
    <3> QED
      BY <1>1, <3>1, <3>2
  <2> QED
    BY <2>2, <2>8 DEF ShadowInv
<1> QED
  BY <1>6, <1>7 DEF H!Persist, H!Append_

\* Only persisting touches the log.
LEMMA ShadowStep ==
    ASSUME H!ShadowAssumption, ShadowInv, [H!Next]_(H!vars)
    PROVE  ShadowInv'
<1>1. ASSUME NEW e \in Evidences, NEW v1 \in FirstStates, H!Persist(e, v1)
      PROVE  ShadowInv'
  BY <1>1, PersistKeepsShadow
<1>2. ASSUME UNCHANGED log, H!TypeOK' PROVE ShadowInv'
  BY <1>2, SameLogGoesOn DEF ShadowInv
<1>3. CASE H!PersistFails
  <2>1. H!TypeOK'
    BY <1>3 DEF H!PersistFails, ShadowInv, H!TypeOK, H!ShadowAssumption
  <2> QED
    BY <1>2, <1>3, <2>1 DEF H!PersistFails
<1>4. CASE H!NewEpisode
  <2>1. H!TypeOK'
    BY <1>4 DEF H!NewEpisode, ShadowInv, H!TypeOK, H!ShadowAssumption
  <2> QED
    BY <1>2, <1>4, <2>1 DEF H!NewEpisode
<1>5. CASE UNCHANGED H!vars
  <2>1. H!TypeOK'
    BY <1>5 DEF H!vars, ShadowInv, H!TypeOK
  <2> QED
    BY <1>2, <1>5, <2>1 DEF H!vars
<1> QED
  BY <1>1, <1>3, <1>4, <1>5 DEF H!Next

\* A trigger is an event that armed nothing itself: its arming lies before it.
LEMMA PathIsAPath == ASSUME ShadowInv PROVE H!EpisodeIsAPath
<1> SUFFICES ASSUME NEW i \in 1..Len(log)
             PROVE  LET before == H!EventsBefore(log[i].episode, i) IN
        /\ log[i].from = IF before = {} THEN "WATCH" ELSE log[H!Newest(before)].to
        /\ log[i].from \in H!Terminal => log[i].to = log[i].from
        /\ log[i].to = "TRIGGERED" => \E j \in before : Arms(j)
  BY DEF H!EpisodeIsAPath, Arms
<1> DEFINE before == H!EventsBefore(log[i].episode, i)
<1>1. /\ PathSoFar /\ log \in Seq(H!Events) /\ Len(log) \in Nat
      /\ before \subseteq 1..Len(log)
  BY DEF ShadowInv, H!TypeOK, H!EventsBefore
<1>2. ASSUME log[i].to = "TRIGGERED" PROVE \E j \in before : Arms(j)
  <2>1. \E j \in before \cup {i} : Arms(j)
    BY <1>1, <1>2 DEF PathSoFar, GoesOn
  <2>2. ~Arms(i)
    BY <1>2 DEF Arms
  <2> QED
    BY <2>1, <2>2
<1> QED
  BY <1>1, <1>2 DEF PathSoFar, GoesOn

\* The shadow log is well formed and every event in it goes on the path of its
\* episode (append_comparison).
THEOREM ShadowInvariance == OutcomesSpec => []ShadowInv
<1>1. OutcomesInit => ShadowInv
  BY MachinesStart, ShadowStarts, OutcomesAssumption DEF OutcomesAssumption
<1>2. ShadowInv /\ [OutcomesNext]_everything => ShadowInv'
  BY OneMachineSteps, ShadowStep, OutcomesAssumption DEF OutcomesAssumption
<1> QED
  BY <1>1, <1>2, PTL DEF OutcomesSpec

\* The log of an episode is one path of the lifecycle: nothing follows an end,
\* and a trigger is only reached from an arming that found it still open
\* (persist_lifecycle_v2_shadow, _next_state, append_comparison).
THEOREM EpisodesArePaths == OutcomesSpec => []EpisodeIsAPath
<1>1. ShadowInv => EpisodeIsAPath
  BY PathIsAPath DEF EpisodeIsAPath
<1> QED
  BY <1>1, ShadowInvariance, PTL

-----------------------------------------------------------------------------
(* A position in isolated margin (PortfolioReplay).                         *)

\* A set of naturals has a least element.
LEMMA LeastOfNaturals ==
    ASSUME NEW S \in SUBSET Nat, S # {}
    PROVE  F!Least(S) \in S /\ \A x \in S : F!Least(S) <= x
<1>1. PICK m \in S : \A k \in S : <<k, m>> \notin OpToRel(<, Nat)
  BY NatLessThanWellFounded, WFMin
<1>2. ASSUME NEW k \in S, k < m PROVE FALSE
  <2>1. <<k, m>> \in OpToRel(<, Nat)
    BY <1>2 DEF OpToRel
  <2> QED
    BY <1>1, <2>1
<1>3. \A k \in S : m <= k
  <2>1. \A k \in S : ~(k < m) /\ k \in Nat /\ m \in Nat
    BY <1>2
  <2> QED
    BY <2>1
<1> QED
  BY <1>3 DEF F!Least

\* The smaller of two numbers is one of them.
LEMMA LeastOfTwo ==
    ASSUME NEW x \in Int, NEW y \in Int
    PROVE  /\ F!Least({x, y}) \in {x, y}
           /\ F!Least({x, y}) <= x /\ F!Least({x, y}) <= y
<1>1. CASE x <= y
  BY <1>1 DEF F!Least
<1>2. CASE ~(x <= y)
  BY <1>2 DEF F!Least
<1> QED
  BY <1>1, <1>2

\* The greater of two numbers is one of them.
LEMMA GreatestOfTwo ==
    ASSUME NEW x \in Int, NEW y \in Int
    PROVE  /\ F!Greatest({x, y}) \in {x, y}
           /\ x <= F!Greatest({x, y}) /\ y <= F!Greatest({x, y})
<1>1. CASE x <= y
  BY <1>1 DEF F!Greatest
<1>2. CASE ~(x <= y)
  BY <1>2 DEF F!Greatest
<1> QED
  BY <1>1, <1>2

\* What a division that rounds down gives.
LEMMA RoundedDown ==
    ASSUME NEW n \in Int, NEW d \in Nat \ {0}
    PROVE  /\ n \div d \in Int
           /\ (n \div d) * d <= n /\ n < (n \div d) * d + d
           /\ n >= 0 => n \div d >= 0
OBVIOUS

\* How far the price may run before the margin of a short is gone.
Covers(quantity, entry, margin, limit) == quantity * (limit - entry) <= margin

\* A share of a position is covered by the same share of its margin.
LEMMA ShareIsCovered ==
    ASSUME NEW q \in Nat, NEW m \in Nat, NEW e \in Nat, NEW p \in Nat,
           NEW f \in Nat, Covers(q, e, m, p)
    PROVE  Covers((q * f) \div 1000, e, (m * f) \div 1000, p)
<1> DEFINE s == (q * f) \div 1000
           r == (m * f) \div 1000
           d == p - e
<1>0. q * f \in Nat /\ m * f \in Nat /\ 1000 \in Nat \ {0}
  OBVIOUS
<1>1. s \in Int /\ s >= 0 /\ s * 1000 <= q * f
  BY <1>0, RoundedDown
<1>2. r \in Int /\ r >= 0 /\ m * f < r * 1000 + 1000
  BY <1>0, RoundedDown
<1>3. d \in Int /\ q * d <= m
  BY DEF Covers
<1> HIDE DEF s, r, d
<1>4. CASE d <= 0
  <2>1. s * d <= 0
    BY <1>1, <1>3, <1>4
  <2> QED
    BY <1>2, <2>1 DEF Covers, s, r, d
<1>5. CASE d > 0
  <2>1. (s * 1000) * d <= (q * f) * d
    BY <1>0, <1>1, <1>3, <1>5
  <2>2. (q * d) * f <= m * f
    BY <1>3
  <2>3. (q * f) * d = (q * d) * f
    BY <1>3
  <2>4. (s * 1000) * d = (s * d) * 1000 /\ s * d \in Int
    BY <1>1, <1>3
  <2>5. (s * d) * 1000 < r * 1000 + 1000
    BY <1>0, <1>1, <1>2, <1>3, <2>1, <2>2, <2>3, <2>4
  <2>6. s * d <= r
    BY <1>2, <2>4, <2>5
  <2> QED
    BY <2>6 DEF Covers, s, r, d
<1> QED
  BY <1>3, <1>4, <1>5

\* Where a short is liquidated its margin still covers the loss.
LEMMA LiquidationIsCovered ==
    ASSUME NEW q \in Nat \ {0}, NEW m \in Nat, NEW e \in Nat, NEW r \in Nat,
           F!PolicyAssumption
    PROVE  /\ F!LiquidationPrice(e, q, m, r) \in Nat
           /\ Covers(q, e, m, F!LiquidationPrice(e, q, m, r))
<1> DEFINE v == 1000 + r + Market.liquidationFee
           n == (m + q * e) * 1000
           p == n \div (q * v)
<1>1. v \in Nat /\ v >= 1000 /\ q * e \in Nat /\ q * v \in Nat \ {0} /\ n \in Nat
  BY DEF F!PolicyAssumption
<1>2. p \in Nat /\ p * (q * v) <= n
  BY <1>1, RoundedDown
<1>3. F!LiquidationPrice(e, q, m, r) = p
  BY DEF F!LiquidationPrice, F!Mille
<1> HIDE DEF v, p
<1>4. p * (q * v) = (q * p) * v /\ q * p \in Nat
  BY <1>1, <1>2
<1>5. (q * p) * 1000 <= (q * p) * v
  BY <1>1, <1>4
<1>6. q * p <= m + q * e
  BY <1>1, <1>2, <1>4, <1>5
<1>7. q * (p - e) = q * p - q * e
  BY <1>2
<1> QED
  BY <1>1, <1>2, <1>3, <1>4, <1>6, <1>7 DEF Covers

\* And so it does at the lowest of the prices of the tiers.
LEMMA TierIsCovered ==
    ASSUME NEW q \in Nat \ {0}, NEW m \in Nat, NEW e \in Nat,
           F!PolicyAssumption, F!LiquidationPrices(e, q, m) # {}
    PROVE  /\ F!Least(F!LiquidationPrices(e, q, m)) \in Nat
           /\ Covers(q, e, m, F!Least(F!LiquidationPrices(e, q, m)))
<1> DEFINE S == F!LiquidationPrices(e, q, m)
<1>1. \A t \in Market.tiers : t.rate \in Nat
  BY DEF F!PolicyAssumption
<1>2. \A x \in S : \E t \in Market.tiers : x = F!LiquidationPrice(e, q, m, t.rate)
  BY DEF F!LiquidationPrices
<1>3. ASSUME NEW x \in S PROVE x \in Nat /\ Covers(q, e, m, x)
  <2>1. PICK t \in Market.tiers : x = F!LiquidationPrice(e, q, m, t.rate)
    BY <1>2
  <2> QED
    BY <1>1, <2>1, LiquidationIsCovered
<1>4. F!Least(S) \in S
  BY <1>3, LeastOfNaturals
<1> QED
  BY <1>3, <1>4

-----------------------------------------------------------------------------

\* The leverage of a plan that is not blocked.
LEMMA LeverageIsPositive ==
    ASSUME NEW o, F!PolicyAssumption, F!OfferShaped(o), ~F!LeverageBlocked(o)
    PROVE  F!Leverage(o) \in Nat \ {0}
<1> DEFINE S == o.bounds \cup {o.exchangeMax}
<1>1. S \in SUBSET Nat /\ S # {}
  BY DEF F!OfferShaped
<1>2. F!Least(S) \in Nat
  BY <1>1, LeastOfNaturals
<1>3. Policy.minimumLeverage \in Nat \ {0} /\ Policy.maximumLeverage \in Nat \ {0}
  BY DEF F!PolicyAssumption
<1>4. F!SafeLeverage(o) \in Nat \ {0}
  BY <1>2, <1>3 DEF F!LeverageBlocked, F!SafeLeverage
<1>5. F!Leverage(o) = F!Least({Policy.maximumLeverage, F!SafeLeverage(o)})
  BY DEF F!Leverage
<1>6. ASSUME NEW x \in Int, NEW y \in Int PROVE F!Least({x, y}) \in {x, y}
  BY LeastOfTwo
<1>7. F!Leverage(o) \in {Policy.maximumLeverage, F!SafeLeverage(o)}
  BY <1>3, <1>4, <1>5, <1>6
<1> QED
  BY <1>3, <1>4, <1>7

\* A multiple of a step.
LEMMA FloorIsNumber ==
    ASSUME NEW x \in Int, NEW d \in Nat \ {0} PROVE F!Floor(x, d) \in Int
BY RoundedDown DEF F!Floor

\* And so is the next above it.
LEMMA CeilingIsNumber ==
    ASSUME NEW x \in Int, NEW d \in Nat \ {0} PROVE F!Ceiling(x, d) \in Int
<1>1. x + d - 1 \in Int
  OBVIOUS
<1> QED
  BY <1>1, RoundedDown DEF F!Ceiling

\* The levels of a plan are numbers.
LEMMA LevelsAreNumbers ==
    ASSUME NEW o, F!PolicyAssumption, F!OfferShaped(o)
    PROVE  LET l == F!Levels(o) IN
           l.entry \in Int /\ l.tp1 \in Int /\ l.tp2 \in Int /\ l.stop \in Int
<1>1. Market.tick \in Nat \ {0}
  BY DEF F!PolicyAssumption
<1>2. o.entry \in Int /\ o.tp1 \in Int /\ o.tp2 \in Int /\ o.stop \in Int
  BY DEF F!OfferShaped
<1>3. /\ F!Floor(o.entry, Market.tick) \in Int
      /\ F!Ceiling(o.tp1, Market.tick) \in Int
      /\ F!Ceiling(o.tp2, Market.tick) \in Int
      /\ F!Ceiling(o.stop, Market.tick) \in Int
  BY <1>1, <1>2, FloorIsNumber, CeilingIsNumber
<1> QED
  BY <1>3 DEF F!Levels

\* What a contract loses at the stop of a short is a positive number.
LEMMA RiskIsPositive ==
    ASSUME NEW o, F!PolicyAssumption, F!OfferShaped(o), F!Ordered(F!Levels(o))
    PROVE  F!RiskPerContract(F!Levels(o)) \in Nat \ {0}
<1> DEFINE l == F!Levels(o)
           a == F!EntryRate
           b == F!StopRate
<1>1. l.entry \in Int /\ l.tp1 \in Int /\ l.tp2 \in Int /\ l.stop \in Int
  BY LevelsAreNumbers
<1>2. l.entry \in Nat /\ l.stop \in Nat /\ l.stop - l.entry \in Nat \ {0}
  BY <1>1 DEF F!Ordered
<1>3. F!FundingRate \in Nat
  <2> DEFINE c == -Costs.funding
  <2>1. c \in Int
    BY DEF F!PolicyAssumption
  <2>2. F!FundingRate = F!Greatest({c, 0})
    BY DEF F!FundingRate
  <2> HIDE DEF c
  <2>3. F!Greatest({c, 0}) \in {c, 0} /\ 0 <= F!Greatest({c, 0})
    BY <2>1, GreatestOfTwo
  <2> QED
    BY <2>1, <2>2, <2>3
<1>4. a \in Nat /\ b \in Nat
  BY <1>3 DEF F!EntryRate, F!StopRate, F!PolicyAssumption
<1>5. F!RiskPerContract(l) = (l.stop - l.entry) * 1000 + l.entry * a + l.stop * b
  BY DEF F!RiskPerContract, F!Mille
<1> HIDE DEF l, a, b
<1>6. l.entry * a \in Nat /\ l.stop * b \in Nat
  BY <1>2, <1>4
<1>7. (l.stop - l.entry) * 1000 \in Nat \ {0}
  BY <1>2
<1>8. F!RiskPerContract(l) \in Nat \ {0}
  BY <1>5, <1>6, <1>7
<1> QED
  BY <1>8 DEF l

\* What is planned is a number of contracts.
LEMMA QuantityIsNumber ==
    ASSUME NEW o, F!PolicyAssumption, F!OfferShaped(o), F!Ordered(F!Levels(o)),
           ~F!LeverageBlocked(o)
    PROVE  F!Quantity(o, F!Levels(o)) \in Int
<1> DEFINE l == F!Levels(o)
           byRisk == F!Equity(o) * o.rate
           byMargin == F!Equity(o) * Policy.positionMargin * F!Leverage(o)
<1>1. F!Equity(o) \in Int
  <2> DEFINE u == o.unrealized
  <2>0. u \in Int
    BY DEF F!OfferShaped
  <2>1. F!Least({u, 0}) \in {u, 0}
    <3> HIDE DEF u
    <3> QED
      BY <2>0, LeastOfTwo
  <2>2. F!Least({o.unrealized, 0}) \in Int /\ o.cash \in Int
    BY <2>1 DEF F!OfferShaped
  <2> QED
    BY <2>2 DEF F!Equity
<1>2. byRisk \in Int
  BY <1>1 DEF F!OfferShaped
<1>3. byMargin \in Int
  BY <1>1, LeverageIsPositive DEF F!PolicyAssumption
<1>4. l.entry * 1000 \in Nat \ {0}
  BY LevelsAreNumbers DEF F!Ordered
<1>5. F!RiskPerContract(l) \in Nat \ {0}
  BY RiskIsPositive
<1> DEFINE x == byRisk \div F!RiskPerContract(l)
           y == byMargin \div (l.entry * 1000)
<1>6. x \in Int /\ y \in Int
  <2> HIDE DEF byRisk, byMargin
  <2> QED
    BY <1>2, <1>3, <1>4, <1>5, RoundedDown
<1>7. F!Quantity(o, l) = F!Floor(F!Least({x, y}), Market.step)
  BY DEF F!Quantity, F!Mille
<1> HIDE DEF x, y
<1>8. F!Least({x, y}) \in Int
  BY <1>6, LeastOfTwo
<1>9. Market.step \in Nat \ {0}
  BY DEF F!PolicyAssumption
<1> QED
  BY <1>7, <1>8, <1>9, FloorIsNumber

\* What a plan that is ready says of its position.
LEMMA PlanFacts ==
    ASSUME NEW o, F!PolicyAssumption, F!OfferShaped(o), F!Plan(o).status = "READY"
    PROVE  LET plan == F!Plan(o)
               l == F!Levels(o)
           IN  /\ plan.quantity \in Nat \ {0} /\ plan.margin \in Nat
               /\ plan.entry \in Nat /\ plan.entry = l.entry
               /\ plan.liquidation =
                      F!Least(F!LiquidationPrices(l.entry, plan.quantity, plan.margin))
<1> DEFINE l == F!Levels(o)
           q == F!Quantity(o, l)
           m == F!Margin(o, l)
<1>1. F!Blocked.status # "READY"
  BY DEF F!Blocked
<1>2. /\ F!Ordered(l) /\ ~F!LeverageBlocked(o) /\ ~(q < Market.minQuantity)
      /\ F!Plan(o).quantity = q /\ F!Plan(o).margin = m /\ F!Plan(o).entry = l.entry
      /\ F!Plan(o).liquidation = F!Least(F!LiquidationPrices(l.entry, q, m))
  BY <1>1 DEF F!Plan
<1>3. q \in Int
  BY <1>2, QuantityIsNumber
<1>4. q \in Nat \ {0}
  BY <1>2, <1>3 DEF F!PolicyAssumption
<1>5. l.entry \in Nat
  BY <1>2, LevelsAreNumbers DEF F!Ordered
<1>6. F!Leverage(o) \in Nat \ {0}
  BY <1>2, LeverageIsPositive
<1>7. m \in Nat
  <2>1. q * l.entry \in Nat
    BY <1>4, <1>5
  <2>2. m = (q * l.entry) \div F!Leverage(o)
    BY DEF F!Margin
  <2> QED
    BY <1>6, <2>1, <2>2, RoundedDown
<1> QED
  BY <1>2, <1>4, <1>5, <1>7

-----------------------------------------------------------------------------

\* Every open position still covers its loss at its liquidation.
Sound(p) ==
    /\ p.quantity \in Nat \ {0} /\ p.entry \in Nat
    /\ p.margin \in Nat \ {0} /\ p.liquidation \in Nat /\ p.funding \in Int
    /\ Covers(p.quantity, p.entry, p.margin, p.liquidation)
Isolated(c) == c.gross + c.funding >= -c.staked
PositionsInv ==
    /\ submitted \subseteq Requests
    /\ \A p \in positions : Sound(p)
    /\ \A c \in closed : Isolated(c)

\* What is filled of a plan is covered by its share of the margin.
LEMMA FilledIsSound ==
    ASSUME NEW e \in Requests, e.type = "OPEN", ~e.rejected,
           F!Plan(e.offer).status = "READY", F!PortfolioAssumption
    PROVE  Sound(F!Position(e, F!Plan(e.offer)))
<1> DEFINE plan == F!Plan(e.offer)
           p == F!Position(e, plan)
<1>1. F!PolicyAssumption /\ F!Shaped(e) /\ F!Filled(e)
  BY DEF F!PortfolioAssumption
<1>2. F!OfferShaped(e.offer) /\ e.fill \in 0..1000
  BY <1>1 DEF F!Shaped, F!Mille
<1>0. e.fill \in Nat
  BY SMTT(60), <1>2
<1>3. /\ plan.quantity \in Nat \ {0} /\ plan.margin \in Nat /\ plan.entry \in Nat
      /\ plan.entry = F!Levels(e.offer).entry
      /\ plan.liquidation = F!Least(F!LiquidationPrices(F!Levels(e.offer).entry,
                                                      plan.quantity, plan.margin))
  BY <1>1, <1>2, PlanFacts
<1>4. /\ F!LiquidationPrices(F!Levels(e.offer).entry, plan.quantity, plan.margin) # {}
      /\ (plan.quantity * e.fill) \div 1000 > 0 /\ (plan.margin * e.fill) \div 1000 > 0
  BY <1>1 DEF F!Filled, F!Mille
<1>5. /\ plan.liquidation \in Nat
      /\ Covers(plan.quantity, plan.entry, plan.margin, plan.liquidation)
  BY <1>1, <1>3, <1>4, TierIsCovered
<1>6. /\ p.quantity = (plan.quantity * e.fill) \div 1000
      /\ p.margin = (plan.margin * e.fill) \div 1000
      /\ p.entry = plan.entry /\ p.liquidation = plan.liquidation /\ p.funding = 0
  BY DEF F!Position, F!Mille
<1> HIDE DEF plan, p
<1>7. p.quantity \in Nat \ {0} /\ p.margin \in Nat \ {0}
  <2>0. \A x, y \in Nat : x * y \in Int
    OBVIOUS
  <2>1. plan.quantity * e.fill \in Int /\ plan.margin * e.fill \in Int /\ 1000 \in Nat \ {0}
    BY <1>0, <1>3, <2>0
  <2>2. p.quantity \in Int /\ p.margin \in Int
    BY <1>6, <2>1, RoundedDown
  <2> QED
    BY <1>4, <1>6, <2>2
<1>8. Covers(p.quantity, p.entry, p.margin, p.liquidation)
  <2> DEFINE q == plan.quantity
             m == plan.margin
             x == plan.entry
             y == plan.liquidation
             f == e.fill
  <2>1. Covers((q * f) \div 1000, x, (m * f) \div 1000, y)
    <3>1. q \in Nat /\ m \in Nat /\ x \in Nat /\ y \in Nat /\ f \in Nat /\ Covers(q, x, m, y)
      BY <1>0, <1>3, <1>5
    <3> HIDE DEF q, m, x, y, f
    <3> QED
      BY <3>1, ShareIsCovered
  <2> QED
    BY <1>6, <2>1
<1>9. Sound(p)
  BY <1>3, <1>5, <1>6, <1>7, <1>8 DEF Sound
<1> QED
  BY <1>9 DEF p, plan

\* Whatever the price of the event, a position is closed within its margin.
LEMMA ClosedIsIsolated ==
    ASSUME PositionsInv, NEW e, e.price \in Nat, NEW p \in positions, F!Closed(e, p)
    PROVE  /\ \A c \in closed' : Isolated(c)
           /\ positions' \subseteq positions
<1> DEFINE x == F!ExitPrice(p, e.price)
           g == p.quantity * (p.entry - x)
           c == [id |-> p.id, by |-> e.id, gross |-> g, funding |-> p.funding,
                 staked |-> p.margin - p.funding,
                 liquidated |-> e.price >= p.liquidation]
<1>1. Sound(p)
  BY DEF PositionsInv
<1>2. x \in Nat /\ x <= p.liquidation
  BY <1>1 DEF Sound, F!ExitPrice
<1>3. closed' = closed \cup {c} /\ positions' = positions \ {p}
  BY DEF F!Closed, F!Booked
<1>4. c.gross = g /\ c.funding = p.funding /\ c.staked = p.margin - p.funding
  OBVIOUS
<1> HIDE DEF x, c
<1>5. p.quantity * (x - p.entry) <= p.quantity * (p.liquidation - p.entry)
  BY <1>1, <1>2 DEF Sound
<1>6. g = -(p.quantity * (x - p.entry)) /\ p.quantity * (x - p.entry) \in Int
  BY <1>1, <1>2 DEF Sound
<1>7. p.quantity * (p.liquidation - p.entry) <= p.margin
      /\ p.quantity * (p.liquidation - p.entry) \in Int
  BY <1>1 DEF Sound, Covers
<1>8. g \in Int /\ g >= -p.margin /\ p.margin \in Int /\ p.funding \in Int
  BY <1>1, <1>5, <1>6, <1>7 DEF Sound
<1>9. Isolated(c)
  <2> HIDE DEF g
  <2> QED
    BY <1>4, <1>8 DEF Isolated
<1> QED
  BY <1>3, <1>9 DEF PositionsInv

\* A replay starts with nothing open or closed.
LEMMA PortfolioStart == F!Init => PositionsInv
BY DEF F!Init, PositionsInv

\* An opened position is sound, and nothing else changes.
LEMMA OpenKeeps ==
    ASSUME PositionsInv, F!PortfolioAssumption, NEW e \in Requests, e.type = "OPEN",
           F!Open(e)
    PROVE  (\A p \in positions' : Sound(p)) /\ closed' = closed
<1> DEFINE p == F!Position(e, F!Plan(e.offer))
<1>1. \/ UNCHANGED <<positions, closed>>
      \/ /\ positions' = positions \cup {p} /\ closed' = closed
         /\ ~e.rejected /\ F!Plan(e.offer).status = "READY"
  <2> HIDE DEF p
  <2>1. \A reason : F!Skip(e, reason) => UNCHANGED <<positions, closed>>
    BY DEF F!Skip, F!Booked
  <2>2. \A cost : F!Booked(cost, positions \cup {p}) => positions' = positions \cup {p}
    BY DEF F!Booked
  <2> QED
    BY <2>1, <2>2 DEF F!Open, p
<1> QED
  BY <1>1, FilledIsSound DEF PositionsInv

\* Funding moves the liquidation with the margin.
LEMMA FundingKeeps ==
    ASSUME PositionsInv, F!PortfolioAssumption, NEW e \in Requests, e.type = "FUNDING",
           F!Funding(e)
    PROVE  (\A p \in positions' : Sound(p)) /\ closed' = closed
<1>1. CASE F!At(e.position) = {}
  BY <1>1 DEF F!Funding, F!Ignored, F!Booked, PositionsInv
<1>2. CASE F!At(e.position) # {}
  <2>1. PICK p \in F!At(e.position) :
            LET margin == p.margin + e.amount IN
            IF margin <= 0 \/ F!LiquidationPrices(p.entry, p.quantity, margin) = {}
            THEN failed' = TRUE
                 /\ UNCHANGED <<cash, peak, drawdown, positions, closed, skipped>>
            ELSE /\ F!Booked(cash + e.amount, (positions \ {p}) \cup
                       {[F!Relevered(p, margin) EXCEPT !.funding = @ + e.amount]})
                 /\ UNCHANGED <<closed, skipped, failed>>
    BY <1>2 DEF F!Funding
  <2> DEFINE m == p.margin + e.amount
             r == [F!Relevered(p, m) EXCEPT !.funding = @ + e.amount]
  <2>2. p \in positions /\ Sound(p)
    BY DEF F!At, PositionsInv
  <2>3. e.amount \in Int /\ F!PolicyAssumption
    BY DEF F!PortfolioAssumption, F!Shaped
  <2>4. CASE m <= 0 \/ F!LiquidationPrices(p.entry, p.quantity, m) = {}
    BY <2>1, <2>4 DEF PositionsInv
  <2>5. CASE ~(m <= 0 \/ F!LiquidationPrices(p.entry, p.quantity, m) = {})
    <3>1. m \in Nat \ {0}
      BY <2>2, <2>3, <2>5 DEF Sound
    <3> DEFINE x == F!Least(F!LiquidationPrices(p.entry, p.quantity, m))
    <3>2. x \in Nat /\ Covers(p.quantity, p.entry, m, x)
      BY <2>2, <2>3, <2>5, <3>1, TierIsCovered DEF Sound
    <3>3. /\ r.quantity = p.quantity /\ r.entry = p.entry /\ r.margin = m
          /\ r.liquidation = x /\ r.funding = p.funding + e.amount
      BY DEF F!Relevered
    <3>4. Sound(r)
      <4> HIDE DEF r, x, m
      <4> QED
        BY <2>2, <2>3, <3>1, <3>2, <3>3 DEF Sound
    <3>5. closed' = closed /\ positions' = (positions \ {p}) \cup {r}
      BY <2>1, <2>5 DEF F!Booked
    <3> QED
      BY <3>4, <3>5 DEF PositionsInv
  <2> QED
    BY <2>4, <2>5
<1> QED
  BY <1>1, <1>2

\* A price marks a position or closes it.
LEMMA PricesKeep ==
    ASSUME PositionsInv, F!PortfolioAssumption, NEW e \in Requests,
           e.type \in {"MARK", "CLOSE"}, F!Mark(e) \/ F!Close(e)
    PROVE  (\A p \in positions' : Sound(p)) /\ (\A c \in closed' : Isolated(c))
<1>1. e.price \in Nat
  BY DEF F!PortfolioAssumption, F!Shaped
<1>2. CASE F!Ignored
  BY <1>2 DEF F!Ignored, F!Booked, PositionsInv
<1>3. ASSUME NEW p \in F!At(e.position), F!Closed(e, p)
      PROVE  (\A q \in positions' : Sound(q)) /\ (\A c \in closed' : Isolated(c))
  <2>1. p \in positions
    BY DEF F!At
  <2> QED
    BY <1>1, <1>3, <2>1, ClosedIsIsolated DEF PositionsInv
<1>4. ASSUME NEW p \in F!At(e.position),
             F!Booked(cash, (positions \ {p}) \cup {[p EXCEPT !.mark = e.price]}),
             UNCHANGED <<closed, skipped, failed>>
      PROVE  (\A q \in positions' : Sound(q)) /\ (\A c \in closed' : Isolated(c))
  <2> DEFINE r == [p EXCEPT !.mark = e.price]
  <2>1. p \in positions /\ Sound(p)
    BY DEF F!At, PositionsInv
  <2>2. /\ r.quantity = p.quantity /\ r.entry = p.entry /\ r.margin = p.margin
        /\ r.liquidation = p.liquidation /\ r.funding = p.funding
    OBVIOUS
  <2>3. Sound(r)
    BY <2>1, <2>2 DEF Sound
  <2>4. closed' = closed /\ positions' = (positions \ {p}) \cup {r}
    BY <1>4 DEF F!Booked
  <2> QED
    BY <2>3, <2>4 DEF PositionsInv
<1>5. \/ F!Ignored
      \/ \E p \in F!At(e.position) : F!Closed(e, p)
      \/ \E p \in F!At(e.position) :
            /\ F!Booked(cash, (positions \ {p}) \cup {[p EXCEPT !.mark = e.price]})
            /\ UNCHANGED <<closed, skipped, failed>>
  BY DEF F!Mark, F!Close
<1> QED
  BY <1>2, <1>3, <1>4, <1>5

\* Every event of a replay keeps the invariant.
LEMMA PortfolioStep ==
    ASSUME PositionsInv, [F!Next]_(F!vars), F!PortfolioAssumption PROVE PositionsInv'
<1>1. CASE UNCHANGED F!vars
  BY <1>1 DEF F!vars, PositionsInv
<1>2. CASE F!Next
  <2>1. PICK e \in submitted :
           /\ submitted' = submitted \ {e}
           /\ \/ e.type = "OPEN" /\ F!Open(e)
              \/ e.type = "FUNDING" /\ F!Funding(e)
              \/ e.type = "MARK" /\ F!Mark(e)
              \/ e.type = "CLOSE" /\ F!Close(e)
    BY <1>2 DEF F!Next, F!Replay
  <2>2. e \in Requests /\ submitted' \subseteq Requests
    BY <2>1 DEF PositionsInv
  <2>3. (\A p \in positions' : Sound(p)) /\ (\A c \in closed' : Isolated(c))
    BY <2>1, <2>2, OpenKeeps, FundingKeeps, PricesKeep DEF PositionsInv
  <2> QED
    BY <2>2, <2>3 DEF PositionsInv
<1> QED
  BY <1>1, <1>2

\* Every open position covers its loss at its liquidation, and every closed one
\* did, through fills in part, funding and marks (_apply_open, _apply_funding,
\* _apply_mark, _apply_close, tiered_isolated_short_liquidation).
THEOREM PositionsInvariance == OutcomesSpec => []PositionsInv
<1>1. OutcomesInit => PositionsInv
  BY MachinesStart, PortfolioStart
<1>2. PositionsInv /\ [OutcomesNext]_everything => PositionsInv'
  BY OneMachineSteps, PortfolioStep, OutcomesAssumption DEF OutcomesAssumption
<1> QED
  BY <1>1, <1>2, PTL DEF OutcomesSpec

\* A position in isolated margin never costs more than what was staked on it,
\* its price and its funding together (_apply_funding, _close).
THEOREM LossesAreIsolated == OutcomesSpec => []LossIsIsolated
<1>1. PositionsInv => LossIsIsolated
  BY DEF PositionsInv, LossIsIsolated, F!LossIsIsolated, Isolated
<1> QED
  BY <1>1, PositionsInvariance, PTL

-----------------------------------------------------------------------------
(* Backtester                                                              *)

\* Induction over the natural numbers, for a set of them.
LEMMA NatInduct ==
    ASSUME NEW S, 0 \in S, \A n \in Nat : n \in S => n + 1 \in S
    PROVE  Nat \subseteq S
<1> SUFFICES ASSUME Nat \ S # {} PROVE FALSE
  OBVIOUS
<1> DEFINE T == Nat \ S
<1>1. T \subseteq Nat /\ T # {}
  OBVIOUS
<1>2. PICK m \in T : \A k \in T : <<k, m>> \notin OpToRel(<, Nat)
  BY <1>1, NatLessThanWellFounded, WFMin
<1>3. m \in Nat /\ m # 0 /\ m - 1 \in Nat
  OBVIOUS
<1>4. m - 1 \notin S
  BY <1>3
<1>5. <<m - 1, m>> \in OpToRel(<, Nat)
  BY <1>3 DEF OpToRel
<1> QED
  BY <1>2, <1>3, <1>4, <1>5

\* What m steps make of a start, one value after the other.
Follows(f, start, steps, m) ==
    \A n \in 0..m : f[n] = IF n = 0 THEN start ELSE steps[n][f[n - 1]]

\* Steps on a set lead somewhere in it.
LEMMA StepsLead ==
    ASSUME NEW V, NEW start \in V, NEW m \in Nat, NEW steps \in [1..m -> [V -> V]]
    PROVE  \E f \in [0..m -> V] : Follows(f, start, steps, m)
<1> DEFINE S == {n \in Nat : n <= m =>
                    \E f \in [0..n -> V] : Follows(f, start, steps, n)}
<1>1. 0 \in S
  <2>1. [n \in 0..0 |-> start] \in [0..0 -> V]
    OBVIOUS
  <2>2. Follows([n \in 0..0 |-> start], start, steps, 0)
    BY DEF Follows
  <2> QED
    BY <2>1, <2>2
<1>2. ASSUME NEW n \in Nat, n \in S PROVE n + 1 \in S
  <2> SUFFICES ASSUME n + 1 <= m
               PROVE  \E f \in [0..(n + 1) -> V] : Follows(f, start, steps, n + 1)
    OBVIOUS
  <2>1. PICK f \in [0..n -> V] : Follows(f, start, steps, n)
    BY <1>2
  <2> DEFINE g == [k \in 0..(n + 1) |-> IF k <= n THEN f[k] ELSE steps[n + 1][f[n]]]
  <2>2. steps[n + 1][f[n]] \in V
    <3>1. n + 1 \in 1..m /\ n \in 0..n
      OBVIOUS
    <3>2. steps[n + 1] \in [V -> V] /\ f[n] \in V
      BY <3>1
    <3> QED
      BY <3>2
  <2>3. g \in [0..(n + 1) -> V]
    <3>1. ASSUME NEW k \in 0..(n + 1) PROVE g[k] \in V
      BY <2>2
    <3> QED
      BY <3>1
  <2>4. ASSUME NEW k \in 0..(n + 1)
        PROVE  g[k] = IF k = 0 THEN start ELSE steps[k][g[k - 1]]
    <3>1. CASE k <= n
      <4>1. g[k] = f[k] /\ (k # 0 => g[k - 1] = f[k - 1])
        BY <3>1
      <4> QED
        BY <2>1, <3>1, <4>1 DEF Follows
    <3>2. CASE k = n + 1
      <4>1. g[k] = steps[n + 1][f[n]] /\ g[n] = f[n] /\ k - 1 = n /\ k # 0
        BY <3>2
      <4> HIDE DEF g
      <4> QED
        BY <3>2, <4>1
    <3> QED
      BY <3>1, <3>2
  <2> HIDE DEF g
  <2> QED
    BY <2>3, <2>4 DEF Follows
<1> HIDE DEF S
<1>3. Nat \subseteq S
  BY <1>1, <1>2, NatInduct
<1> QED
  BY <1>3 DEF S

\* They lead nowhere else.
LEMMA StepsLeadOneWay ==
    ASSUME NEW start, NEW m \in Nat, NEW steps,
           NEW f, Follows(f, start, steps, m), NEW g, Follows(g, start, steps, m)
    PROVE  g[m] = f[m]
<1> DEFINE S == {n \in Nat : n <= m => g[n] = f[n]}
<1>1. 0 \in S
  BY DEF Follows
<1>2. ASSUME NEW n \in Nat, n \in S PROVE n + 1 \in S
  <2> SUFFICES ASSUME n + 1 <= m PROVE g[n + 1] = f[n + 1]
    OBVIOUS
  <2>1. g[n] = f[n]
    BY <1>2
  <2>2. n + 1 \in 0..m /\ n + 1 # 0 /\ (n + 1) - 1 = n
    OBVIOUS
  <2>3. g[n + 1] = steps[n + 1][g[n]] /\ f[n + 1] = steps[n + 1][f[n]]
    BY <2>2 DEF Follows
  <2> QED
    BY <2>1, <2>3
<1> HIDE DEF S
<1>3. Nat \subseteq S
  BY <1>1, <1>2, NatInduct
<1> QED
  BY <1>3 DEF S

-----------------------------------------------------------------------------
\* The steps of the sum of the chosen trades.
Booking == [outcome : B!Outcomes, pnl : Int, risk : Nat]
Adding(rows, chosen) ==
    [n \in 1..Len(rows) |-> [v \in Int |->
        IF n \in chosen THEN v + rows[n].pnl ELSE v]]

\* A row of trades gives a function to walk the sums with.
LEMMA AddingIsAStep ==
    ASSUME NEW rows \in Seq(Booking), NEW chosen
    PROVE  Len(rows) \in Nat /\ Adding(rows, chosen) \in [1..Len(rows) -> [Int -> Int]]
<1>1. ASSUME NEW n \in 1..Len(rows)
      PROVE  [v \in Int |-> IF n \in chosen THEN v + rows[n].pnl ELSE v] \in [Int -> Int]
  <2>1. rows[n] \in Booking
    OBVIOUS
  <2>2. rows[n].pnl \in Int
    BY <2>1 DEF Booking
  <2> QED
    BY <2>2
<1> QED
  BY <1>1 DEF Adding

\* The sum is what these steps lead to.
LEMMA EarnedFacts ==
    ASSUME NEW rows \in Seq(Booking), NEW chosen
    PROVE  \E f \in [0..Len(rows) -> Int] :
              /\ Follows(f, 0, Adding(rows, chosen), Len(rows))
              /\ B!Earned(rows, chosen) = f[Len(rows)]
<1> DEFINE steps == Adding(rows, chosen)
           m == Len(rows)
           total == CHOOSE f : f = [n \in 0..Len(rows) |->
                    IF n = 0 THEN 0
                    ELSE IF n \in chosen THEN f[n - 1] + rows[n].pnl ELSE f[n - 1]]
<1>1. m \in Nat /\ steps \in [1..m -> [Int -> Int]]
  BY AddingIsAStep
<1>2. PICK f \in [0..m -> Int] : Follows(f, 0, steps, m)
  <2>1. 0 \in Int
    OBVIOUS
  <2> HIDE DEF m, steps
  <2> QED
    BY <1>1, <2>1, StepsLead
<1>3. f = [n \in 0..Len(rows) |->
                    IF n = 0 THEN 0
                    ELSE IF n \in chosen THEN f[n - 1] + rows[n].pnl ELSE f[n - 1]]
  <2>1. ASSUME NEW n \in 0..m
        PROVE  f[n] = IF n = 0 THEN 0
                      ELSE IF n \in chosen THEN f[n - 1] + rows[n].pnl ELSE f[n - 1]
    <3>1. CASE n = 0
      BY <1>2, <3>1 DEF Follows
    <3>2. CASE n # 0
      <4>1. n \in 1..m /\ n - 1 \in 0..m
        BY <1>1, <3>2
      <4>2. f[n - 1] \in Int
        BY <1>2, <4>1
      <4>3. f[n] = steps[n][f[n - 1]]
        BY <1>2, <3>2 DEF Follows
      <4> QED
        BY <3>2, <4>1, <4>2, <4>3 DEF Adding
    <3> QED
      BY <3>1, <3>2
  <2> QED
    BY <1>2, <2>1
<1>4. total = [n \in 0..Len(rows) |->
                    IF n = 0 THEN 0
                    ELSE IF n \in chosen THEN total[n - 1] + rows[n].pnl ELSE total[n - 1]]
  BY <1>3
<1>5. B!Earned(rows, chosen) = total[m]
  BY DEF B!Earned
<1> HIDE DEF total
<1>6. ASSUME NEW n \in 0..m PROVE total[n] = f[n]
  <2> DEFINE S == {k \in Nat : k <= m => total[k] = f[k]}
  <2>1. 0 \in S
    BY <1>1, <1>3, <1>4
  <2>2. ASSUME NEW k \in Nat, k \in S PROVE k + 1 \in S
    <3> SUFFICES ASSUME k + 1 <= m PROVE total[k + 1] = f[k + 1]
      OBVIOUS
    <3>1. k + 1 \in 0..Len(rows) /\ k + 1 # 0 /\ (k + 1) - 1 = k /\ total[k] = f[k]
      BY <1>1, <2>2
    <3>2. f[k + 1] = IF k + 1 \in chosen THEN f[k] + rows[k + 1].pnl ELSE f[k]
      BY <1>3, <3>1
    <3>3. total[k + 1] = IF k + 1 \in chosen THEN total[k] + rows[k + 1].pnl ELSE total[k]
      BY <1>4, <3>1
    <3> QED
      BY <3>1, <3>2, <3>3
  <2> HIDE DEF S
  <2>3. Nat \subseteq S
    BY <2>1, <2>2, NatInduct
  <2> QED
    BY <1>1, <2>3 DEF S
<1>7. total[m] = f[m]
  BY <1>1, <1>6
<1> QED
  BY <1>2, <1>5, <1>7

\* What two sets of trades earned adds up.
LEMMA EarnedAddsUp ==
    ASSUME NEW rows \in Seq(Booking), NEW T, NEW U, T \cap U = {}
    PROVE  /\ B!Earned(rows, T) \in Int /\ B!Earned(rows, U) \in Int
           /\ B!Earned(rows, T \cup U) = B!Earned(rows, T) + B!Earned(rows, U)
<1> DEFINE m == Len(rows)
<1>1. PICK f \in [0..m -> Int] :
          Follows(f, 0, Adding(rows, T), m) /\ B!Earned(rows, T) = f[m]
  BY EarnedFacts
<1>2. PICK g \in [0..m -> Int] :
          Follows(g, 0, Adding(rows, U), m) /\ B!Earned(rows, U) = g[m]
  BY EarnedFacts
<1>3. PICK h \in [0..m -> Int] :
          Follows(h, 0, Adding(rows, T \cup U), m) /\ B!Earned(rows, T \cup U) = h[m]
  BY EarnedFacts
<1>4. m \in Nat
  OBVIOUS
<1> DEFINE S == {n \in Nat : n <= m => h[n] = f[n] + g[n]}
<1>5. 0 \in S
  BY <1>1, <1>2, <1>3, <1>4 DEF Follows
<1>6. ASSUME NEW n \in Nat, n \in S PROVE n + 1 \in S
  <2> SUFFICES ASSUME n + 1 <= m PROVE h[n + 1] = f[n + 1] + g[n + 1]
    OBVIOUS
  <2>1. n + 1 \in 0..m /\ n + 1 # 0 /\ (n + 1) - 1 = n /\ n + 1 \in 1..m /\ n \in 0..m
    BY <1>4
  <2>2. f[n] \in Int /\ g[n] \in Int /\ h[n] \in Int /\ h[n] = f[n] + g[n]
    BY <1>6, <2>1
  <2>3. f[n + 1] = Adding(rows, T)[n + 1][f[n]]
    BY <1>1, <2>1 DEF Follows
  <2>4. g[n + 1] = Adding(rows, U)[n + 1][g[n]]
    BY <1>2, <2>1 DEF Follows
  <2>5. h[n + 1] = Adding(rows, T \cup U)[n + 1][h[n]]
    BY <1>3, <2>1 DEF Follows
  <2>6. f[n + 1] = IF n + 1 \in T THEN f[n] + rows[n + 1].pnl ELSE f[n]
    BY <2>1, <2>2, <2>3 DEF Adding
  <2>7. g[n + 1] = IF n + 1 \in U THEN g[n] + rows[n + 1].pnl ELSE g[n]
    BY <2>1, <2>2, <2>4 DEF Adding
  <2>8. h[n + 1] = IF n + 1 \in T \cup U THEN h[n] + rows[n + 1].pnl ELSE h[n]
    BY <2>1, <2>2, <2>5 DEF Adding
  <2>9. rows[n + 1].pnl \in Int
    <3>1. rows[n + 1] \in Booking
      BY <2>1
    <3> QED
      BY <3>1 DEF Booking
  <2> DEFINE won == rows[n + 1].pnl
             now == n + 1
  <2>10. ~(now \in T /\ now \in U) /\ (now \in T \cup U <=> now \in T \/ now \in U)
    OBVIOUS
  <2>11. /\ now \in T => f[now] = f[n] + won /\ g[now] = g[n] /\ h[now] = h[n] + won
         /\ now \in U => f[now] = f[n] /\ g[now] = g[n] + won /\ h[now] = h[n] + won
         /\ ~(now \in T \/ now \in U) => f[now] = f[n] /\ g[now] = g[n] /\ h[now] = h[n]
    BY <2>6, <2>7, <2>8, <2>10
  <2>12. won \in Int
    BY <2>9
  <2>13. CASE now \in T
    BY <2>2, <2>11, <2>12, <2>13
  <2>14. CASE now \in U
    BY <2>2, <2>11, <2>12, <2>14
  <2>15. CASE ~(now \in T \/ now \in U)
    BY <2>2, <2>11, <2>12, <2>15
  <2> QED
    BY <2>13, <2>14, <2>15
<1> HIDE DEF S
<1>7. Nat \subseteq S
  BY <1>5, <1>6, NatInduct
<1>8. m \in 0..m
  BY <1>4
<1> QED
  BY <1>1, <1>2, <1>3, <1>4, <1>7, <1>8 DEF S

\* Only trades there are earn something.
LEMMA EarnedByThose ==
    ASSUME NEW rows \in Seq(Booking), NEW T, NEW U,
           T \cap (1..Len(rows)) = U \cap (1..Len(rows))
    PROVE  B!Earned(rows, T) = B!Earned(rows, U)
<1> DEFINE m == Len(rows)
           steps == Adding(rows, T)
<1>1. PICK f \in [0..m -> Int] :
          Follows(f, 0, Adding(rows, T), m) /\ B!Earned(rows, T) = f[m]
  BY EarnedFacts
<1>2. PICK g \in [0..m -> Int] :
          Follows(g, 0, Adding(rows, U), m) /\ B!Earned(rows, U) = g[m]
  BY EarnedFacts
<1>3. Adding(rows, U) = steps
  <2>1. ASSUME NEW n \in 1..Len(rows) PROVE n \in U <=> n \in T
    OBVIOUS
  <2> QED
    BY <2>1 DEF Adding
<1>4. m \in Nat
  OBVIOUS
<1>5. Follows(f, 0, steps, m) /\ Follows(g, 0, steps, m)
  BY <1>1, <1>2, <1>3
<1>6. f[m] = g[m]
  <2> DEFINE none == 0
  <2>1. Follows(f, none, steps, m) /\ Follows(g, none, steps, m)
    BY <1>5
  <2> HIDE DEF steps, m, none
  <2> QED
    BY SMTT(60), <1>4, <2>1, StepsLeadOneWay
<1> QED
  BY <1>1, <1>2, <1>6

\* One more trade changes what the earlier ones earned only if it is chosen too.
LEMMA EarnedGoesOn ==
    ASSUME NEW rows \in Seq(Booking), NEW row \in Booking, NEW T
    PROVE  /\ Append(rows, row) \in Seq(Booking)
           /\ B!Earned(rows, T) \in Int
           /\ B!Earned(Append(rows, row), T) =
                IF Len(rows) + 1 \in T THEN B!Earned(rows, T) + row.pnl
                ELSE B!Earned(rows, T)
<1> DEFINE m == Len(rows)
           longer == Append(rows, row)
           steps == Adding(longer, T)
<1>1. m \in Nat /\ longer \in Seq(Booking) /\ Len(longer) = m + 1
  OBVIOUS
<1>2. PICK g \in [0..m -> Int] :
          Follows(g, 0, Adding(rows, T), m) /\ B!Earned(rows, T) = g[m]
  BY EarnedFacts
<1>3. PICK f \in [0..(m + 1) -> Int] :
          Follows(f, 0, steps, m + 1) /\ B!Earned(longer, T) = f[m + 1]
  <2> HIDE DEF longer
  <2> QED
    BY <1>1, EarnedFacts
<1>4. steps \in [1..(m + 1) -> [Int -> Int]]
  <2> HIDE DEF longer
  <2> QED
    BY <1>1, AddingIsAStep
<1>5. Follows(g, 0, steps, m)
  <2> SUFFICES ASSUME NEW n \in 0..m
               PROVE  g[n] = IF n = 0 THEN 0 ELSE steps[n][g[n - 1]]
    BY DEF Follows
  <2>1. CASE n = 0
    BY <1>2, <2>1 DEF Follows
  <2>2. CASE n # 0
    <3>1. n \in 1..m /\ n - 1 \in 0..m /\ n \in 1..(m + 1)
      BY <1>1, <2>2
    <3>2. g[n] = Adding(rows, T)[n][g[n - 1]]
      BY <1>2, <2>2 DEF Follows
    <3>3. longer[n] = rows[n]
      BY <3>1
    <3>4. Adding(rows, T)[n] = steps[n]
      BY <1>1, <3>1, <3>3 DEF Adding
    <3> QED
      BY <2>2, <3>2, <3>4
  <2> QED
    BY <2>1, <2>2
<1>6. g[m] = f[m]
  <2>1. Follows(f, 0, steps, m)
    BY <1>1, <1>3 DEF Follows
  <2>2. m \in Nat
    BY <1>1
  <2> HIDE DEF steps, longer, m
  <2> QED
    BY SMTT(60), <1>5, <2>1, <2>2, StepsLeadOneWay
<1>7. f[m + 1] = steps[m + 1][f[m]]
  <2>1. m + 1 \in 0..(m + 1) /\ m + 1 # 0 /\ (m + 1) - 1 = m
    BY <1>1
  <2> QED
    BY <1>3, <2>1 DEF Follows
<1>8. longer[m + 1] = row /\ m + 1 \in 1..Len(longer) /\ f[m] \in Int
  BY <1>1, <1>3
<1>9. steps[m + 1][f[m]] = IF m + 1 \in T THEN f[m] + row.pnl ELSE f[m]
  BY <1>8 DEF Adding
<1>10. g[m] \in Int
  BY <1>1, <1>2
<1> QED
  BY <1>1, <1>2, <1>3, <1>6, <1>7, <1>9, <1>10

\* The steps of the curve through the points of the capital.
Pointing == [capital : Int, total : Int, upto : Nat]
Curves == [peak : Int, drawdown : Int]
Flat == [peak |-> InitialCapital, drawdown |-> 0]
Extending(points) ==
    [n \in 1..Len(points) |-> [c \in Curves |-> B!Extended(c, points[n].capital)]]

\* A point of the curve gives a function to walk the peaks with.
LEMMA ExtendingIsAStep ==
    ASSUME NEW points \in Seq(Pointing)
    PROVE  Len(points) \in Nat /\ Extending(points) \in [1..Len(points) -> [Curves -> Curves]]
<1>1. ASSUME NEW n \in 1..Len(points), NEW c \in Curves
      PROVE  B!Extended(c, points[n].capital) \in Curves
  <2>1. points[n] \in Pointing
    OBVIOUS
  <2>2. points[n].capital \in Int /\ c.peak \in Int /\ c.drawdown \in Int
    BY <2>1 DEF Pointing, Curves
  <2> QED
    BY <2>2 DEF B!Extended, B!Larger, Curves
<1>2. ASSUME NEW n \in 1..Len(points)
      PROVE  [c \in Curves |-> B!Extended(c, points[n].capital)] \in [Curves -> Curves]
  BY <1>1
<1> QED
  BY <1>2 DEF Extending

\* The curve is what these steps lead to.
LEMMA CurveFacts ==
    ASSUME NEW points \in Seq(Pointing), InitialCapital \in Nat
    PROVE  \E f \in [0..Len(points) -> Curves] :
              /\ Follows(f, Flat, Extending(points), Len(points))
              /\ B!CurveOf(points) = f[Len(points)]
<1> DEFINE steps == Extending(points)
           m == Len(points)
           curve == CHOOSE f : f = [n \in 0..Len(points) |->
                    IF n = 0 THEN [peak |-> InitialCapital, drawdown |-> 0]
                    ELSE B!Extended(f[n - 1], points[n].capital)]
<1>1. m \in Nat /\ steps \in [1..m -> [Curves -> Curves]] /\ Flat \in Curves
  <2>1. m \in Nat /\ steps \in [1..m -> [Curves -> Curves]]
    BY ExtendingIsAStep
  <2>2. Flat \in Curves
    BY DEF Flat, Curves
  <2> QED
    BY <2>1, <2>2
<1>2. PICK f \in [0..m -> Curves] : Follows(f, Flat, steps, m)
  <2> HIDE DEF m, steps
  <2> QED
    BY <1>1, StepsLead
<1>3. ASSUME NEW n \in 0..m
      PROVE  f[n] = IF n = 0 THEN Flat ELSE B!Extended(f[n - 1], points[n].capital)
  <2>1. CASE n = 0
    BY <1>2, <2>1 DEF Follows
  <2>2. CASE n # 0
    <3>1. n \in 1..m /\ n - 1 \in 0..m
      BY <1>1, <2>2
    <3>2. f[n - 1] \in Curves
      BY <1>2, <3>1
    <3>3. f[n] = steps[n][f[n - 1]]
      BY <1>2, <2>2 DEF Follows
    <3> QED
      BY <2>2, <3>1, <3>2, <3>3 DEF Extending
  <2> QED
    BY <2>1, <2>2
<1>4. f = [n \in 0..Len(points) |->
              IF n = 0 THEN [peak |-> InitialCapital, drawdown |-> 0]
              ELSE B!Extended(f[n - 1], points[n].capital)]
  BY <1>2, <1>3 DEF Flat
<1>5. curve = [n \in 0..Len(points) |->
              IF n = 0 THEN [peak |-> InitialCapital, drawdown |-> 0]
              ELSE B!Extended(curve[n - 1], points[n].capital)]
  BY <1>4
<1>6. B!CurveOf(points) = curve[m]
  BY DEF B!CurveOf
<1> HIDE DEF curve
<1> DEFINE S == {n \in Nat : n <= m => curve[n] = f[n]}
<1>7. 0 \in S
  BY <1>1, <1>4, <1>5
<1>8. ASSUME NEW n \in Nat, n \in S PROVE n + 1 \in S
  <2> SUFFICES ASSUME n + 1 <= m PROVE curve[n + 1] = f[n + 1]
    OBVIOUS
  <2>1. n + 1 \in 0..Len(points) /\ n + 1 # 0 /\ (n + 1) - 1 = n /\ curve[n] = f[n]
    BY <1>1, <1>8
  <2>2. f[n + 1] = B!Extended(f[n], points[n + 1].capital)
    BY <1>4, <2>1
  <2>3. curve[n + 1] = B!Extended(curve[n], points[n + 1].capital)
    BY <1>5, <2>1
  <2> QED
    BY <2>1, <2>2, <2>3
<1> HIDE DEF S
<1>9. Nat \subseteq S
  BY <1>7, <1>8, NatInduct
<1>10. curve[m] = f[m]
  BY <1>1, <1>9 DEF S
<1> QED
  BY <1>2, <1>6, <1>10

\* One more point extends the curve.
LEMMA CurveGoesOn ==
    ASSUME NEW points \in Seq(Pointing), NEW point \in Pointing, InitialCapital \in Nat
    PROVE  /\ Append(points, point) \in Seq(Pointing)
           /\ B!CurveOf(points) \in Curves
           /\ B!CurveOf(Append(points, point))
                = B!Extended(B!CurveOf(points), point.capital)
<1> DEFINE m == Len(points)
           longer == Append(points, point)
           steps == Extending(longer)
<1>1. m \in Nat /\ longer \in Seq(Pointing) /\ Len(longer) = m + 1
  OBVIOUS
<1>2. PICK g \in [0..m -> Curves] :
          Follows(g, Flat, Extending(points), m) /\ B!CurveOf(points) = g[m]
  BY CurveFacts
<1>3. PICK f \in [0..(m + 1) -> Curves] :
          Follows(f, Flat, steps, m + 1) /\ B!CurveOf(longer) = f[m + 1]
  <2> HIDE DEF longer
  <2> QED
    BY <1>1, CurveFacts
<1>4. Follows(g, Flat, steps, m)
  <2> SUFFICES ASSUME NEW n \in 0..m
               PROVE  g[n] = IF n = 0 THEN Flat ELSE steps[n][g[n - 1]]
    BY DEF Follows
  <2>1. CASE n = 0
    BY <1>2, <2>1 DEF Follows
  <2>2. CASE n # 0
    <3>1. n \in 1..m /\ n \in 1..(m + 1)
      BY <1>1, <2>2
    <3>2. g[n] = Extending(points)[n][g[n - 1]]
      BY <1>2, <2>2 DEF Follows
    <3>3. longer[n] = points[n]
      BY <3>1
    <3>4. Extending(points)[n] = steps[n]
      BY <1>1, <3>1, <3>3 DEF Extending
    <3> QED
      BY <2>2, <3>2, <3>4
  <2> QED
    BY <2>1, <2>2
<1>5. g[m] = f[m]
  <2>1. Follows(f, Flat, steps, m)
    BY <1>1, <1>3 DEF Follows
  <2>2. m \in Nat
    BY <1>1
  <2> HIDE DEF steps, longer, m
  <2> QED
    BY <1>4, <2>1, <2>2, StepsLeadOneWay
<1>6. f[m + 1] = steps[m + 1][f[m]]
  <2>1. m + 1 \in 0..(m + 1) /\ m + 1 # 0 /\ (m + 1) - 1 = m
    BY <1>1
  <2> QED
    BY <1>3, <2>1 DEF Follows
<1>7. longer[m + 1] = point /\ m + 1 \in 1..Len(longer) /\ f[m] \in Curves
  BY <1>1, <1>3
<1>8. steps[m + 1][f[m]] = B!Extended(f[m], point.capital)
  BY <1>7 DEF Extending
<1>9. g[m] \in Curves
  BY <1>1, <1>2
<1> QED
  BY <1>1, <1>2, <1>3, <1>5, <1>6, <1>8, <1>9

\* A plan and the candles that followed it, of a sound shape.
PlanShaped(plan) ==
    plan.stop \in Nat /\ \A i \in 1..3 : plan.targets[i] \in Nat \ {0}
History(h) ==
    /\ h \in Seq(B!Candles)
    /\ \A i \in 1..Len(h) : h[i].worst <= h[i].close /\ h[i].close <= h[i].best

\* How far a walk has come: what each target closed, and where it was stopped.
Walks == [open : Int, gained : Int, targets : 0..3, stopped : BOOLEAN]
Paid(plan, walk) ==
    IF walk.targets = 0 THEN walk.open = 8 /\ walk.gained = 0
    ELSE IF walk.targets = 1 THEN walk.open = 4 /\ walk.gained = 4 * plan.targets[1]
    ELSE IF walk.targets = 2
    THEN walk.open = 3 /\ walk.gained = 4 * plan.targets[1] + plan.targets[2]
    ELSE walk.open = 0
         /\ walk.gained = 4 * plan.targets[1] + plan.targets[2] + 3 * plan.targets[3]
WalkSound(plan, walk) ==
    /\ walk \in Walks
    /\ walk.stopped => walk.open = 0 /\ walk.gained >= -8 * plan.stop
    /\ ~walk.stopped => Paid(plan, walk)
\* Where the price stood at the end of a candle that did not stop it.
Standing(plan, walk, candle) ==
    ~walk.stopped /\ walk.targets # 3 =>
        candle.close > (IF walk.targets = 2 THEN 0 ELSE -plan.stop)

\* A candle keeps both.
LEMMA CandleKeepsWalk ==
    ASSUME NEW plan, PlanShaped(plan), NEW candle \in B!Candles,
           candle.worst <= candle.close, NEW walk, WalkSound(plan, walk)
    PROVE  /\ WalkSound(plan, B!AfterCandle(walk, plan, candle))
           /\ Standing(plan, B!AfterCandle(walk, plan, candle), candle)
<1> DEFINE after == B!AfterCandle(walk, plan, candle)
<1>1. /\ candle.worst \in Int /\ candle.close \in Int /\ candle.best \in Int
      /\ candle.worst <= candle.close
  BY DEF B!Candles
<1>2. /\ plan.stop \in Nat
      /\ plan.targets[1] \in Nat \ {0} /\ plan.targets[2] \in Nat \ {0}
      /\ plan.targets[3] \in Nat \ {0}
  BY DEF PlanShaped
<1>3. /\ walk = [open |-> walk.open, gained |-> walk.gained,
                 targets |-> walk.targets, stopped |-> walk.stopped]
      /\ walk.open \in Int /\ walk.gained \in Int /\ walk.targets \in 0..3
      /\ walk.stopped \in BOOLEAN
  BY DEF WalkSound, Walks
<1>4. CASE walk.stopped \/ walk.targets = 3
  <2>1. after = walk
    BY <1>4 DEF B!AfterCandle
  <2> QED
    BY <1>4, <2>1 DEF WalkSound, Standing
<1>5. CASE ~walk.stopped /\ walk.targets # 3 /\ candle.worst <= B!StopOf(walk, plan)
  <2>1. after = [open |-> 0,
                 gained |-> walk.gained + walk.open * B!StopOf(walk, plan),
                 targets |-> walk.targets, stopped |-> TRUE]
    BY <1>3, <1>5 DEF B!AfterCandle
  <2>2. walk.gained + walk.open * B!StopOf(walk, plan) \in Int
        /\ walk.gained + walk.open * B!StopOf(walk, plan) >= -8 * plan.stop
    BY <1>2, <1>3, <1>5 DEF WalkSound, Paid, B!StopOf
  <2> QED
    BY <1>3, <2>1, <2>2 DEF WalkSound, Walks, Standing
<1>6. CASE /\ ~walk.stopped /\ walk.targets # 3 /\ ~(candle.worst <= B!StopOf(walk, plan))
           /\ candle.best >= plan.targets[walk.targets + 1]
  <2> DEFINE t == walk.targets + 1
  <2>1. after = [open |-> walk.open - B!Closes[t],
                 gained |-> walk.gained + B!Closes[t] * plan.targets[t],
                 targets |-> t, stopped |-> FALSE]
    BY <1>3, <1>6 DEF B!AfterCandle
  <2>2. t \in 1..3 /\ (t = 1 \/ t = 2 \/ t = 3)
    BY <1>3, <1>6
  <2>3. B!Closes[1] = 4 /\ B!Closes[2] = 1 /\ B!Closes[3] = 3
    BY DEF B!Closes
  <2>4. candle.close > B!StopOf(walk, plan) /\ B!StopOf(walk, plan) \in Int
    BY <1>1, <1>2, <1>6 DEF B!StopOf
  <2>5. Paid(plan, walk)
    BY <1>6 DEF WalkSound
  <2>9. walk.targets = t - 1
    BY <1>3
  <2> HIDE DEF t
  <2>6. CASE t = 1
    <3>1. walk.targets = 0 /\ walk.open = 8 /\ walk.gained = 0
      BY <2>5, <2>6, <2>9 DEF Paid
    <3>2. after = [open |-> 4, gained |-> 4 * plan.targets[1], targets |-> 1, stopped |-> FALSE]
      <4>1. after = [open |-> 8 - 4,
                     gained |-> 0 + 4 * plan.targets[1],
                     targets |-> 1, stopped |-> FALSE]
        BY <2>1, <2>3, <2>6, <3>1
      <4>2. 8 - 4 = 4 /\ 0 + 4 * plan.targets[1] = 4 * plan.targets[1]
        BY <1>2
      <4> QED
        BY <4>1, <4>2
    <3> QED
      BY <1>2, <2>4, <3>1, <3>2 DEF WalkSound, Walks, Standing, Paid, B!StopOf
  <2>7. CASE t = 2
    <3>1. walk.targets = 1 /\ walk.open = 4 /\ walk.gained = 4 * plan.targets[1]
      BY <2>5, <2>7, <2>9 DEF Paid
    <3>2. after = [open |-> 3, gained |-> 4 * plan.targets[1] + plan.targets[2],
                   targets |-> 2, stopped |-> FALSE]
      <4>1. after = [open |-> 4 - 1,
                     gained |-> 4 * plan.targets[1] + 1 * plan.targets[2],
                     targets |-> 2, stopped |-> FALSE]
        BY <2>1, <2>3, <2>7, <3>1
      <4>2. 4 - 1 = 3 /\ 1 * plan.targets[2] = plan.targets[2]
        BY <1>2
      <4> QED
        BY <4>1, <4>2
    <3> QED
      BY <1>2, <2>4, <3>1, <3>2 DEF WalkSound, Walks, Standing, Paid, B!StopOf
  <2>8. CASE t = 3
    <3>1. walk.targets = 2 /\ walk.open = 3
          /\ walk.gained = 4 * plan.targets[1] + plan.targets[2]
      BY <2>5, <2>8, <2>9 DEF Paid
    <3>2. after = [open |-> 0,
                   gained |-> 4 * plan.targets[1] + plan.targets[2] + 3 * plan.targets[3],
                   targets |-> 3, stopped |-> FALSE]
      <4>1. after = [open |-> 3 - 3,
                     gained |-> 4 * plan.targets[1] + plan.targets[2] + 3 * plan.targets[3],
                     targets |-> 3, stopped |-> FALSE]
        BY <2>1, <2>3, <2>8, <3>1
      <4> QED
        BY <1>2, <4>1
    <3> QED
      BY <1>2, <3>2 DEF WalkSound, Walks, Standing, Paid
  <2> QED
    BY <2>2, <2>6, <2>7, <2>8
<1>7. CASE /\ ~walk.stopped /\ walk.targets # 3 /\ ~(candle.worst <= B!StopOf(walk, plan))
           /\ ~(candle.best >= plan.targets[walk.targets + 1])
  <2>1. after = walk
    BY <1>7 DEF B!AfterCandle
  <2>2. candle.close > B!StopOf(walk, plan)
    BY <1>1, <1>2, <1>7 DEF B!StopOf
  <2>3. candle.close > 0 \/ (walk.targets = 0 /\ candle.close > -plan.stop)
    BY <1>3, <2>2 DEF B!StopOf
  <2>4. -plan.stop <= 0 /\ -plan.stop \in Int
    BY <1>2
  <2>5. candle.close > -plan.stop /\ (walk.targets = 2 => candle.close > 0)
    BY <1>1, <2>3, <2>4
  <2>6. Standing(plan, walk, candle)
    BY <2>5 DEF Standing
  <2>7. WalkSound(plan, after)
    BY <2>1
  <2> QED
    BY <2>1, <2>6, <2>7
<1> QED
  BY <1>4, <1>5, <1>6, <1>7

\* So does a walk through all candles.
LEMMA WalkFacts ==
    ASSUME NEW plan, PlanShaped(plan), NEW h, History(h), h # <<>>
    PROVE  /\ WalkSound(plan, B!Walked(plan, h))
           /\ Standing(plan, B!Walked(plan, h), B!Newest(h))
           /\ B!Newest(h) \in B!Candles
<1> DEFINE m == Len(h)
           V == {w \in Walks : WalkSound(plan, w)}
           steps == [n \in 1..m |-> [w \in V |-> B!AfterCandle(w, plan, h[n])]]
           walks == CHOOSE f : f = [n \in 0..Len(h) |->
                      IF n = 0 THEN B!Untouched
                      ELSE B!AfterCandle(f[n - 1], plan, h[n])]
<1>1. m \in Nat /\ m # 0 /\ m \in 1..m /\ B!Newest(h) = h[m]
  BY DEF History, B!Newest
<1>2. ASSUME NEW n \in 1..m
      PROVE  h[n] \in B!Candles /\ h[n].worst <= h[n].close
  BY DEF History
<1>3. ASSUME NEW n \in 1..m, NEW w \in V
      PROVE  /\ B!AfterCandle(w, plan, h[n]) \in V
             /\ Standing(plan, B!AfterCandle(w, plan, h[n]), h[n])
  <2>1. WalkSound(plan, w)
    OBVIOUS
  <2>2. WalkSound(plan, B!AfterCandle(w, plan, h[n]))
        /\ Standing(plan, B!AfterCandle(w, plan, h[n]), h[n])
    BY <1>2, <2>1, CandleKeepsWalk
  <2>3. B!AfterCandle(w, plan, h[n]) \in Walks
    BY <2>2 DEF WalkSound
  <2> QED
    BY <2>2, <2>3
<1>4. B!Untouched \in V
  <2>1. B!Untouched \in Walks
    BY DEF B!Untouched, Walks
  <2>2. ~B!Untouched.stopped /\ Paid(plan, B!Untouched)
    BY DEF B!Untouched, Paid
  <2> QED
    BY <2>1, <2>2 DEF WalkSound
<1> HIDE DEF V
<1>5. steps \in [1..m -> [V -> V]]
  BY <1>3
<1>6. PICK f \in [0..m -> V] : Follows(f, B!Untouched, steps, m)
  <2> HIDE DEF m, steps
  <2> QED
    BY <1>1, <1>4, <1>5, StepsLead
<1>7. ASSUME NEW n \in 0..m
      PROVE  f[n] = IF n = 0 THEN B!Untouched ELSE B!AfterCandle(f[n - 1], plan, h[n])
  <2>1. CASE n = 0
    BY <1>6, <2>1 DEF Follows
  <2>2. CASE n # 0
    <3>1. n \in 1..m /\ n - 1 \in 0..m
      BY <1>1, <2>2
    <3>2. f[n - 1] \in V
      BY <1>6, <3>1
    <3>3. f[n] = steps[n][f[n - 1]]
      BY <1>6, <2>2 DEF Follows
    <3> QED
      BY <2>2, <3>1, <3>2, <3>3
  <2> QED
    BY <2>1, <2>2
<1>8. f = [n \in 0..Len(h) |->
              IF n = 0 THEN B!Untouched ELSE B!AfterCandle(f[n - 1], plan, h[n])]
  BY <1>6, <1>7
<1>9. walks = [n \in 0..Len(h) |->
              IF n = 0 THEN B!Untouched ELSE B!AfterCandle(walks[n - 1], plan, h[n])]
  BY <1>8
<1>10. B!Walked(plan, h) = walks[m]
  BY DEF B!Walked
<1> HIDE DEF walks
<1> DEFINE S == {n \in Nat : n <= m => walks[n] = f[n]}
<1>11. 0 \in S
  BY <1>1, <1>8, <1>9
<1>12. ASSUME NEW n \in Nat, n \in S PROVE n + 1 \in S
  <2> SUFFICES ASSUME n + 1 <= m PROVE walks[n + 1] = f[n + 1]
    OBVIOUS
  <2>1. n + 1 \in 0..Len(h) /\ n + 1 # 0 /\ (n + 1) - 1 = n /\ walks[n] = f[n]
    BY <1>1, <1>12
  <2>2. f[n + 1] = B!AfterCandle(f[n], plan, h[n + 1])
    BY <1>8, <2>1
  <2>3. walks[n + 1] = B!AfterCandle(walks[n], plan, h[n + 1])
    BY <1>9, <2>1
  <2> QED
    BY <2>1, <2>2, <2>3
<1> HIDE DEF S
<1>13. Nat \subseteq S
  BY <1>11, <1>12, NatInduct
<1>14. walks[m] = f[m]
  BY <1>1, <1>13 DEF S
<1>15. f[m] = B!AfterCandle(f[m - 1], plan, h[m]) /\ f[m - 1] \in V /\ f[m] \in V
  <2>1. m \in 0..m /\ m - 1 \in 0..m
    BY <1>1
  <2> QED
    BY <1>1, <1>6, <1>7, <2>1
<1>16. Standing(plan, f[m], h[m])
  BY <1>1, <1>3, <1>15
<1>17. WalkSound(plan, f[m])
  BY <1>15 DEF V
<1> QED
  BY <1>1, <1>2, <1>10, <1>14, <1>16, <1>17

\* What a trade gains: no less than its stop costs, and after the second target
\* something.
LEMMA GainFacts ==
    ASSUME NEW plan, PlanShaped(plan), NEW h, History(h), h # <<>>
    PROVE  /\ B!Gain(plan, h) \in Int /\ B!Gain(plan, h) >= -8 * plan.stop
           /\ B!OutcomeOf(plan, h) \in B!Outcomes
           /\ B!OutcomeOf(plan, h) \in {"win_tp2", "win_tp3"} => B!Gain(plan, h) >= 1
<1> DEFINE walk == B!Walked(plan, h)
           last == B!Newest(h).close
<1>1. WalkSound(plan, walk) /\ Standing(plan, walk, B!Newest(h))
  BY WalkFacts
<1>2. last \in Int
  BY WalkFacts DEF B!Candles
<1>3. /\ plan.stop \in Nat
      /\ plan.targets[1] \in Nat \ {0} /\ plan.targets[2] \in Nat \ {0}
      /\ plan.targets[3] \in Nat \ {0}
  BY DEF PlanShaped
<1>4. /\ walk.open \in Int /\ walk.gained \in Int /\ walk.targets \in 0..3
      /\ walk.stopped \in BOOLEAN
  BY <1>1 DEF WalkSound, Walks
<1>5. B!Gain(plan, h) = walk.gained + walk.open * last
  BY DEF B!Gain
<1>6. /\ B!OutcomeOf(plan, h) \in B!Outcomes
      /\ B!OutcomeOf(plan, h) \in {"win_tp2", "win_tp3"} =>
            ~walk.stopped /\ walk.targets \in {2, 3}
  BY <1>4 DEF B!OutcomeOf, B!Outcomes
<1>7. walk.stopped => walk.open = 0 /\ walk.gained >= -8 * plan.stop
  BY <1>1 DEF WalkSound
<1>8. ~walk.stopped => Paid(plan, walk)
  BY <1>1 DEF WalkSound
<1>9. ~walk.stopped /\ walk.targets # 3 => last > (IF walk.targets = 2 THEN 0 ELSE -plan.stop)
  BY <1>1 DEF Standing
<1> DEFINE t1 == plan.targets[1]
           t2 == plan.targets[2]
           t3 == plan.targets[3]
           gain == B!Gain(plan, h)
           stop == plan.stop
<1>16. ~walk.stopped =>
         \/ walk.targets = 0 /\ walk.open = 8 /\ walk.gained = 0
         \/ walk.targets = 1 /\ walk.open = 4 /\ walk.gained = 4 * t1
         \/ walk.targets = 2 /\ walk.open = 3 /\ walk.gained = 4 * t1 + t2
         \/ walk.targets = 3 /\ walk.open = 0 /\ walk.gained = 4 * t1 + t2 + 3 * t3
  BY <1>4, <1>8 DEF Paid
<1>17. /\ stop \in Nat /\ t1 \in Nat \ {0} /\ t2 \in Nat \ {0} /\ t3 \in Nat \ {0}
  BY <1>3
<1>18. walk.stopped => walk.open = 0 /\ walk.gained >= -8 * stop
  BY <1>7
<1>19. ~walk.stopped /\ walk.targets # 3 => last > (IF walk.targets = 2 THEN 0 ELSE -stop)
  BY <1>9
<1>20. gain = walk.gained + walk.open * last
  BY <1>5
<1> HIDE DEF walk, last, t1, t2, t3, stop, gain
<1>21. gain \in Int /\ gain >= -8 * stop
  <2>1. CASE walk.stopped
    BY <1>2, <1>4, <1>17, <1>18, <1>20, <2>1
  <2>2. CASE ~walk.stopped
    <3>1. CASE walk.targets = 0 /\ walk.open = 8 /\ walk.gained = 0
      <4>1. gain = 8 * last /\ last > -stop
        BY <1>2, <1>19, <1>20, <2>2, <3>1
      <4> QED
        BY <1>2, <1>17, <4>1
    <3>2. CASE walk.targets = 1 /\ walk.open = 4 /\ walk.gained = 4 * t1
      <4>1. gain = 4 * t1 + 4 * last /\ last > -stop
        BY <1>2, <1>19, <1>20, <2>2, <3>2
      <4> QED
        BY <1>2, <1>17, <4>1
    <3>3. CASE walk.targets = 2 /\ walk.open = 3 /\ walk.gained = 4 * t1 + t2
      <4>1. gain = 4 * t1 + t2 + 3 * last /\ last > 0
        BY <1>2, <1>19, <1>20, <2>2, <3>3
      <4> QED
        BY <1>2, <1>17, <4>1
    <3>4. CASE walk.targets = 3 /\ walk.open = 0 /\ walk.gained = 4 * t1 + t2 + 3 * t3
      <4>1. gain = 4 * t1 + t2 + 3 * t3
        BY <1>2, <1>17, <1>20, <3>4
      <4> QED
        BY <1>17, <4>1
    <3> QED
      BY <1>16, <2>2, <3>1, <3>2, <3>3, <3>4
  <2> QED
    BY <2>1, <2>2
<1>22. ~walk.stopped /\ walk.targets \in {2, 3} => gain >= 1
  BY SMTT(60), <1>2, <1>4, <1>16, <1>17, <1>19, <1>20
<1> QED
  BY <1>6, <1>21, <1>22 DEF gain, stop

\* The row of a trade that was taken.
Bounded(row) ==
    /\ row \in Booking
    /\ row.pnl >= -row.risk
    /\ row.outcome \in {"win_tp2", "win_tp3"} =>
          row.pnl >= (IF B!Fine(row.risk) THEN 1 ELSE 0)

\* The row a trade writes loses no more than its risk (run_signal_trade).
LEMMA RowIsBounded ==
    ASSUME NEW signal \in Backtested, NEW h, PlanShaped(signal.plan), History(h), h # <<>>,
           signal.plan.stop > 0, memory.capital \in Int, memory.capital > 0,
           RiskPerTrade \in Nat
    PROVE  Bounded(B!RowOf(signal, h))
<1> DEFINE gain == B!Gain(signal.plan, h)
           risk == B!RiskAmount
           d == 8 * signal.plan.stop
           row == B!RowOf(signal, h)
<1>1. /\ gain \in Int /\ gain >= -d
      /\ B!OutcomeOf(signal.plan, h) \in B!Outcomes
      /\ B!OutcomeOf(signal.plan, h) \in {"win_tp2", "win_tp3"} => gain >= 1
  BY GainFacts DEF PlanShaped
<1>2. risk \in Nat
  <2>1. memory.capital * RiskPerTrade \in Int /\ memory.capital * RiskPerTrade >= 0
    OBVIOUS
  <2> QED
    BY <2>1 DEF B!RiskAmount
<1>3. d \in Nat \ {0}
  BY DEF PlanShaped
<1>4. /\ row.outcome = B!OutcomeOf(signal.plan, h) /\ row.risk = risk
      /\ row.pnl = (gain * risk) \div d
      /\ row = [outcome |-> B!OutcomeOf(signal.plan, h), risk |-> risk,
                pnl |-> (gain * risk) \div d]
  BY DEF B!RowOf
<1>5. B!Fine(risk) => risk >= d
  BY DEF B!Fine
<1> HIDE DEF gain, risk, d, row
<1>6. gain * risk \in Int /\ gain * risk >= (-risk) * d
  <2>1. (gain + d) * risk >= 0
    BY <1>1, <1>2, <1>3
  <2>2. (gain + d) * risk = gain * risk + d * risk /\ d * risk = -((-risk) * d)
    BY <1>1, <1>2, <1>3
  <2> QED
    BY <1>1, <1>2, <1>3, <2>1, <2>2
<1> DEFINE x == gain * risk
           quotient == x \div d
<1>7. x \in Int
  BY <1>6
<1>8. quotient \in Int /\ quotient * d <= x /\ x < quotient * d + d
      /\ (x >= 0 => quotient >= 0)
  <2> HIDE DEF x
  <2> QED
    BY <1>3, <1>7, RoundedDown
<1> HIDE DEF quotient
<1>9. quotient >= -risk
  <2> SUFFICES ASSUME quotient + 1 <= -risk PROVE FALSE
    BY <1>2, <1>8
  <2>1. (quotient + 1) * d <= (-risk) * d
    BY <1>2, <1>3, <1>8
  <2>2. (quotient + 1) * d = quotient * d + d
    BY <1>3, <1>8
  <2> QED
    BY <1>2, <1>3, <1>6, <1>7, <1>8, <2>1, <2>2
<1>10. ASSUME gain >= 1
       PROVE  quotient >= 0 /\ (risk >= d => quotient >= 1)
  <2>1. x >= risk /\ x >= 0
    BY <1>1, <1>2, <1>10
  <2>2. quotient >= 0
    BY <1>8, <2>1
  <2>3. ASSUME risk >= d, quotient = 0 PROVE FALSE
    <3>1. x < d
      BY <1>3, <1>8, <2>3
    <3> QED
      BY <1>2, <1>3, <1>7, <2>1, <2>3, <3>1
  <2> QED
    BY <1>8, <2>2, <2>3
<1>11. row.pnl = quotient
  BY <1>4 DEF quotient
<1>12. row \in Booking
  BY <1>1, <1>2, <1>4, <1>8, <1>11 DEF Booking
<1>13. row.pnl >= -row.risk
  BY <1>4, <1>9, <1>11
<1>14. row.outcome \in {"win_tp2", "win_tp3"} =>
          row.pnl >= (IF B!Fine(row.risk) THEN 1 ELSE 0)
  BY <1>1, <1>4, <1>5, <1>10, <1>11
<1> QED
  BY <1>12, <1>13, <1>14 DEF Bounded, row

-----------------------------------------------------------------------------
\* What the memory holds is what the tables say, but for the trades that no
\* point of the curve covers (Missed): each of them is a write that failed.
Memories ==
    [capital : Int, total : Int, wins : Int, losses : Int, peak : Int,
     drawdown : Int, patterns : [B!Kinds -> Nat], minimum : Int, adjustment : Int]
BooksTyped ==
    /\ memory \in Memories /\ trades \in Seq(Booking)
    /\ equity \in Seq(Pointing) /\ equity # <<>>
    /\ mistakes \in [B!Kinds -> Nat]
    /\ calibration \subseteq [minimum : Int, adjustment : Int]
    /\ forgotten \subseteq 1..Len(trades) /\ bookFaults \in Nat
Covered == B!Newest(equity).upto
Remembered(last) == (1..last) \ forgotten
CapitalKept ==
    /\ Covered <= Len(trades)
    /\ memory.capital = InitialCapital + B!Earned(trades, Remembered(Len(trades)))
    /\ B!Newest(equity).capital = InitialCapital + B!Earned(trades, Remembered(Covered))
TotalKept ==
    /\ memory.total = Cardinality(Remembered(Len(trades)))
    /\ B!Newest(equity).total = Cardinality(Remembered(Covered))
    /\ memory.wins + memory.losses = Len(trades)
Missed == forgotten \cup (Covered + 1 .. Len(trades))
MissedByFaults == Cardinality(Missed) <= bookFaults
DrawdownKept ==
    /\ memory.peak >= B!CurveOf(equity).peak
    /\ memory.drawdown >= B!CurveOf(equity).drawdown
RowsBounded == \A i \in 1..Len(trades) : Bounded(trades[i])
BooksInv ==
    BooksTyped /\ CapitalKept /\ TotalKept /\ MissedByFaults /\ DrawdownKept /\ RowsBounded

\* The newest row of a sequence that another one was appended to.
LEMMA NewestOne ==
    ASSUME NEW S, NEW s \in Seq(S), NEW x \in S
    PROVE  /\ Append(s, x) \in Seq(S) /\ Append(s, x) # <<>>
           /\ B!Newest(Append(s, x)) = x /\ Len(Append(s, x)) = Len(s) + 1
           /\ Append(s, x)[Len(s) + 1] = x
           /\ \A i \in 1..Len(s) : Append(s, x)[i] = s[i]
BY DEF B!Newest

\* The newest of a sequence is in it.
LEMMA NewestIsIn ==
    ASSUME NEW S, NEW s \in Seq(S), s # <<>> PROVE B!Newest(s) \in S
BY DEF B!Newest

\* What empty books say.
LEMMA EmptyBooks ==
    ASSUME InitialCapital \in Nat
    PROVE  /\ B!Fresh \in Memories
           /\ <<>> \in Seq(Booking) /\ Len(<<>>) = 0
           /\ <<B!FirstPoint>> \in Seq(Pointing) /\ <<B!FirstPoint>> # <<>>
           /\ B!Newest(<<B!FirstPoint>>) = B!FirstPoint
           /\ [k \in B!Kinds |-> 0] \in [B!Kinds -> Nat]
           /\ \A T : B!Earned(<<>>, T) = 0
           /\ B!CurveOf(<<B!FirstPoint>>) = Flat
           /\ 1..0 = {} /\ Cardinality({}) = 0
<1>1. B!Fresh \in Memories
  BY DEF B!Fresh, Memories, B!DefaultMinimum
<1>2. B!FirstPoint \in Pointing
  BY DEF B!FirstPoint, Pointing
<1>3. <<>> \in Seq(Booking) /\ Len(<<>>) = 0 /\ 1..0 = {}
  OBVIOUS
<1>4. /\ <<B!FirstPoint>> \in Seq(Pointing) /\ <<B!FirstPoint>> # <<>>
      /\ B!Newest(<<B!FirstPoint>>) = B!FirstPoint
  BY <1>2 DEF B!Newest
<1>5. ASSUME NEW T PROVE B!Earned(<<>>, T) = 0
  <2> DEFINE rows == <<>>
  <2>1. rows \in Seq(Booking) /\ Len(rows) = 0 /\ 0 \in 0..0
    BY <1>3
  <2> HIDE DEF rows
  <2>2. PICK f \in [0..Len(rows) -> Int] :
            Follows(f, 0, Adding(rows, T), Len(rows)) /\ B!Earned(rows, T) = f[Len(rows)]
    BY <2>1, EarnedFacts
  <2>3. B!Earned(rows, T) = 0
    BY <2>1, <2>2 DEF Follows
  <2> QED
    BY <2>3 DEF rows
<1>6. B!CurveOf(<<>>) = Flat
  <2> DEFINE points == <<>>
  <2>1. points \in Seq(Pointing) /\ Len(points) = 0 /\ 0 \in 0..0
    OBVIOUS
  <2> HIDE DEF points
  <2>2. PICK f \in [0..Len(points) -> Curves] :
            /\ Follows(f, Flat, Extending(points), Len(points))
            /\ B!CurveOf(points) = f[Len(points)]
    BY <2>1, CurveFacts
  <2>3. B!CurveOf(points) = Flat
    BY <2>1, <2>2 DEF Follows
  <2> QED
    BY <2>3 DEF points
<1>7. B!CurveOf(<<B!FirstPoint>>) = Flat
  <2>1. <<>> \in Seq(Pointing) /\ Append(<<>>, B!FirstPoint) = <<B!FirstPoint>>
    OBVIOUS
  <2>2. B!CurveOf(Append(<<>>, B!FirstPoint))
            = B!Extended(B!CurveOf(<<>>), B!FirstPoint.capital)
    BY <1>2, <2>1, CurveGoesOn
  <2>3. B!Extended(Flat, InitialCapital) = Flat
    BY DEF B!Extended, B!Larger, Flat
  <2>4. B!FirstPoint.capital = InitialCapital
    BY DEF B!FirstPoint
  <2> QED
    BY <1>6, <2>1, <2>2, <2>3, <2>4
<1>8. [k \in B!Kinds |-> 0] \in [B!Kinds -> Nat]
  OBVIOUS
<1>9. Cardinality({}) = 0
  BY FS_EmptySet
<1> QED
  BY <1>1, <1>3, <1>4, <1>5, <1>7, <1>8, <1>9

\* The books are empty at the start, and after a reset.
LEMMA BooksStart ==
    ASSUME B!Init, B!BacktesterAssumption PROVE BooksInv
<1>1. InitialCapital \in Nat
  BY DEF B!BacktesterAssumption
<1>2. /\ memory = B!Fresh /\ trades = <<>> /\ equity = <<B!FirstPoint>>
      /\ mistakes = [k \in B!Kinds |-> 0] /\ calibration = {} /\ forgotten = {}
      /\ bookFaults = 0
  BY DEF B!Init
<1>3. B!FirstPoint.upto = 0 /\ B!FirstPoint.total = 0
      /\ B!FirstPoint.capital = InitialCapital
  BY DEF B!FirstPoint
<1>4. /\ memory.capital = InitialCapital /\ memory.total = 0 /\ memory.wins = 0
      /\ memory.losses = 0 /\ memory.peak = InitialCapital /\ memory.drawdown = 0
  BY <1>2 DEF B!Fresh
<1>5. Covered = 0 /\ Len(trades) = 0 /\ Remembered(0) = {} /\ Missed = {}
  BY <1>1, <1>2, <1>3, EmptyBooks DEF Covered, Remembered, Missed
<1>6. BooksTyped
  BY <1>1, <1>2, EmptyBooks DEF BooksTyped
<1>7. CapitalKept
  BY <1>1, <1>2, <1>3, <1>4, <1>5, EmptyBooks DEF CapitalKept, Remembered
<1>8. TotalKept
  BY <1>1, <1>2, <1>3, <1>4, <1>5, EmptyBooks DEF TotalKept, Remembered
<1>9. MissedByFaults
  BY <1>1, <1>2, <1>5, EmptyBooks DEF MissedByFaults
<1>10. DrawdownKept
  BY <1>1, <1>2, <1>4, EmptyBooks DEF DrawdownKept, Flat
<1>11. RowsBounded
  BY <1>5 DEF RowsBounded
<1> QED
  BY <1>6, <1>7, <1>8, <1>9, <1>10, <1>11 DEF BooksInv

\* A reset empties the books (reset).
LEMMA ResetKeeps ==
    ASSUME BooksInv, B!Reset, B!BacktesterAssumption PROVE BooksInv'
<1>1. InitialCapital \in Nat
  BY DEF B!BacktesterAssumption
<1>2. /\ memory' = B!Fresh /\ trades' = <<>> /\ equity' = <<B!FirstPoint>>
      /\ mistakes' = [k \in B!Kinds |-> 0] /\ calibration' = {} /\ forgotten' = {}
      /\ bookFaults' = bookFaults /\ bookFaults \in Nat
  BY DEF B!Reset, BooksInv, BooksTyped
<1>3. B!FirstPoint.upto = 0 /\ B!FirstPoint.total = 0
      /\ B!FirstPoint.capital = InitialCapital
  BY DEF B!FirstPoint
<1>4. /\ memory'.capital = InitialCapital /\ memory'.total = 0 /\ memory'.wins = 0
      /\ memory'.losses = 0 /\ memory'.peak = InitialCapital /\ memory'.drawdown = 0
  BY <1>2 DEF B!Fresh
<1>5. Covered' = 0 /\ Len(trades') = 0 /\ Remembered(0)' = {} /\ Missed' = {}
  BY <1>1, <1>2, <1>3, EmptyBooks DEF Covered, Remembered, Missed
<1>6. BooksTyped'
  BY <1>1, <1>2, EmptyBooks DEF BooksTyped
<1>7. CapitalKept'
  BY <1>1, <1>2, <1>3, <1>4, <1>5, EmptyBooks DEF CapitalKept, Remembered
<1>8. TotalKept'
  BY <1>1, <1>2, <1>3, <1>4, <1>5, EmptyBooks DEF TotalKept, Remembered
<1>9. MissedByFaults'
  BY <1>1, <1>2, <1>5, EmptyBooks DEF MissedByFaults
<1>10. DrawdownKept'
  BY <1>1, <1>2, <1>4, EmptyBooks DEF DrawdownKept, Flat
<1>11. RowsBounded'
  BY <1>5 DEF RowsBounded
<1> QED
  BY <1>6, <1>7, <1>8, <1>9, <1>10, <1>11 DEF BooksInv

\* A memory that differs in what was learned only.
Reviewed(m, n) ==
    /\ n \in Memories
    /\ \A field \in {"capital", "total", "wins", "losses", "peak", "drawdown"} :
          n[field] = m[field]

\* A review changes the bar and nothing else.
LEMMA ReviewKeeps ==
    ASSUME NEW m \in Memories, Proven \in Nat, ReviewEvery \in Nat \ {0}
    PROVE  Reviewed(m, B!Recalibrated(m))
<1>1. ASSUME NEW x \in Memories, NEW kind \in BOOLEAN, NEW by \in Nat
      PROVE  Reviewed(x, B!Raised(x, kind, by))
  <2>1. x.minimum \in Int
    BY DEF Memories
  <2>2. B!Smaller(B!HighestMinimum, x.minimum + by) \in Int
    BY <2>1 DEF B!Smaller, B!HighestMinimum
  <2> QED
    BY <2>2 DEF B!Raised, Reviewed, Memories
<1>2. ASSUME NEW x \in Memories PROVE Reviewed(x, B!Strained(x))
  <2>1. x.adjustment \in Int
    BY DEF Memories
  <2>2. B!Smaller(B!HighestAdjustment, x.adjustment + 5) \in Int
    BY <2>1 DEF B!Smaller, B!HighestAdjustment
  <2> QED
    BY <2>2 DEF B!Strained, Reviewed, Memories
<1>3. ASSUME NEW x \in Memories PROVE Reviewed(x, B!Relaxed(x))
  <2>1. x.adjustment \in Int /\ x.minimum \in Int
    BY DEF Memories
  <2>2. B!Larger(B!DefaultMinimum, x.minimum - 5) \in Int /\ B!Larger(0, x.adjustment - 2) \in Int
    BY <2>1 DEF B!Larger, B!DefaultMinimum
  <2> QED
    BY <2>2 DEF B!Relaxed, Reviewed, Memories
<1>4. ASSUME NEW x, NEW y, NEW z, Reviewed(x, y), Reviewed(y, z) PROVE Reviewed(x, z)
  BY <1>4 DEF Reviewed
<1>5. B!Recalibrated(m) = m
      \/ LET weak == B!Strained(B!Raised(m, B!Frequent(m, "low_readiness"), 10))
             late == B!Raised(weak, B!Often(m, "chasing_price"), 5)
         IN B!Recalibrated(m) = B!Relaxed(B!Raised(late, B!Often(m, "bad_timing"), 5))
  BY DEF B!Recalibrated
<1> DEFINE weak == B!Strained(B!Raised(m, B!Frequent(m, "low_readiness"), 10))
           late == B!Raised(weak, B!Often(m, "chasing_price"), 5)
           last == B!Raised(late, B!Often(m, "bad_timing"), 5)
<1>6. CASE B!Recalibrated(m) = m
  BY <1>6 DEF Reviewed
<1>7. CASE B!Recalibrated(m) = B!Relaxed(last)
  <2>1. /\ B!Frequent(m, "low_readiness") \in BOOLEAN
        /\ B!Often(m, "chasing_price") \in BOOLEAN /\ B!Often(m, "bad_timing") \in BOOLEAN
    BY DEF B!Frequent, B!Often
  <2> DEFINE first == B!Raised(m, B!Frequent(m, "low_readiness"), 10)
  <2>2. Reviewed(m, first) /\ first \in Memories
    BY <1>1, <2>1 DEF Reviewed
  <2>3. weak = B!Strained(first)
    OBVIOUS
  <2>4. Reviewed(first, weak) /\ weak \in Memories
    BY <1>2, <2>2, <2>3 DEF Reviewed
  <2>5. Reviewed(weak, late) /\ late \in Memories
    BY <1>1, <2>1, <2>4 DEF Reviewed
  <2>6. Reviewed(late, last) /\ last \in Memories
    BY <1>1, <2>1, <2>5 DEF Reviewed
  <2>7. Reviewed(last, B!Relaxed(last))
    BY <1>3, <2>6
  <2> HIDE DEF first, weak, late, last
  <2> QED
    BY <1>4, <1>7, <2>2, <2>4, <2>5, <2>6, <2>7
<1> QED
  BY <1>5, <1>6, <1>7

\* A new row, the memory that follows it and what may follow that.
LEMMA BookedFacts ==
    ASSUME BooksTyped, NEW row \in Booking, NEW signal, Proven \in Nat,
           ReviewEvery \in Nat \ {0},
           NEW learned, learned = [B!Booked(row) EXCEPT
                            !.patterns = B!Counted(@, B!Flaws(signal, row))]
    PROVE  /\ B!Booked(row) \in Memories
           /\ Reviewed(B!Booked(row), learned)
           /\ Reviewed(B!Booked(row), B!Recalibrated(learned))
           /\ B!Booked(row).capital = memory.capital + row.pnl
           /\ B!Booked(row).total = memory.total + 1
           /\ B!Booked(row).wins + B!Booked(row).losses = memory.wins + memory.losses + 1
           /\ B!Booked(row).peak = B!Larger(memory.peak, memory.capital + row.pnl)
           /\ B!Booked(row).drawdown
                = B!Larger(memory.drawdown, B!Booked(row).peak - (memory.capital + row.pnl))
<1>1. row.pnl \in Int /\ row.outcome \in B!Outcomes
  BY DEF Booking
<1>2. /\ memory \in Memories
      /\ memory.capital \in Int /\ memory.total \in Int /\ memory.wins \in Int
      /\ memory.losses \in Int /\ memory.peak \in Int /\ memory.drawdown \in Int
      /\ memory.patterns \in [B!Kinds -> Nat]
  BY DEF BooksTyped, Memories
<1> DEFINE b == B!Booked(row)
           capital == memory.capital + row.pnl
           top == B!Larger(memory.peak, capital)
           deep == B!Larger(memory.drawdown, top - capital)
           won == IF row.outcome \in B!Wins THEN memory.wins + 1 ELSE memory.wins
           gone == IF row.outcome \in B!Wins THEN memory.losses ELSE memory.losses + 1
           count == memory.total + 1
<1>3. b = [memory EXCEPT !.capital = capital, !.total = count,
              !.wins = won, !.losses = gone, !.peak = top, !.drawdown = deep]
  BY DEF B!Booked
<1>4. /\ capital \in Int /\ top \in Int /\ deep \in Int /\ won \in Int /\ gone \in Int
      /\ count \in Int
  BY <1>1, <1>2 DEF B!Larger
<1>5. won + gone = memory.wins + memory.losses + 1
  BY <1>2
<1> HIDE DEF capital, top, deep, won, gone, count
<1>6. /\ b \in Memories
      /\ b.capital = capital /\ b.total = count /\ b.wins = won /\ b.losses = gone
      /\ b.peak = top /\ b.drawdown = deep
  BY ZenonT(60), <1>2, <1>3, <1>4 DEF Memories
<1>7. Reviewed(b, learned) /\ learned \in Memories
  <2>1. b.patterns \in [B!Kinds -> Nat]
    BY <1>6 DEF Memories
  <2>2. B!Counted(b.patterns, B!Flaws(signal, row)) \in [B!Kinds -> Nat]
    BY <2>1 DEF B!Counted
  <2> HIDE DEF b
  <2> QED
    BY <1>6, <2>2 DEF Reviewed, Memories, b
<1>8. Reviewed(learned, B!Recalibrated(learned))
  BY <1>7, ReviewKeeps
<1>9. Reviewed(b, B!Recalibrated(learned))
  BY <1>7, <1>8 DEF Reviewed
<1> QED
  BY <1>5, <1>6, <1>7, <1>9 DEF capital, top, deep, count

\* Sets of trades are finite, and one more trade is one more.
LEMMA CountingFacts ==
    ASSUME BooksTyped
    PROVE  /\ Len(trades) \in Nat /\ Covered \in Nat
           /\ \A last \in Nat : IsFiniteSet(Remembered(last))
           /\ IsFiniteSet(Missed) /\ IsFiniteSet(forgotten)
<1>1. Len(trades) \in Nat /\ forgotten \subseteq 1..Len(trades)
  BY DEF BooksTyped
<1>2. Covered \in Nat
  <2>1. B!Newest(equity) \in Pointing
    BY NewestIsIn DEF BooksTyped
  <2> QED
    BY <2>1 DEF Covered, Pointing
<1>3. ASSUME NEW last \in Nat PROVE IsFiniteSet(Remembered(last))
  <2>1. IsFiniteSet(1..last)
    BY FS_Interval
  <2> QED
    BY <2>1, FS_Subset DEF Remembered
<1>4. IsFiniteSet(1..Len(trades))
  BY <1>1, FS_Interval
<1>5. IsFiniteSet(Missed) /\ IsFiniteSet(forgotten)
  <2>1. Missed \in SUBSET (1..Len(trades)) /\ forgotten \in SUBSET (1..Len(trades))
    <3>1. (Covered + 1 .. Len(trades)) \subseteq 1..Len(trades)
      BY <1>1, <1>2
    <3> QED
      BY <1>1, <3>1 DEF Missed
  <2> QED
    BY <1>4, <2>1, FS_Subset
<1> QED
  BY <1>1, <1>2, <1>3, <1>5

\* Booking a trade keeps the books, whichever of its transactions fails.
LEMMA WrittenKeeps ==
    ASSUME BooksInv, B!BacktesterAssumption, NEW signal \in Backtested, NEW h \in Histories,
           NEW done \in 1..4, B!Taken(signal, h), B!Written(signal, h, done),
           bookFaults' \in Nat, bookFaults' >= bookFaults,
           done = 1 => bookFaults' = bookFaults + 1
    PROVE  BooksInv'
<1> DEFINE n == Len(trades)
           row == B!RowOf(signal, h)
           booked == B!Booked(row)
           learned == [booked EXCEPT !.patterns = B!Counted(@, B!Flaws(signal, row))]
           point == B!Point(booked)
<1>1. /\ BooksTyped /\ CapitalKept /\ TotalKept /\ MissedByFaults /\ DrawdownKept
      /\ RowsBounded
  BY DEF BooksInv
<1>2. /\ InitialCapital \in Nat /\ RiskPerTrade \in Nat /\ Proven \in Nat
      /\ ReviewEvery \in Nat \ {0}
      /\ PlanShaped(signal.plan) /\ History(h)
  BY DEF B!BacktesterAssumption, PlanShaped, History
<1>3. Bounded(row) /\ row \in Booking
  <2>1. signal.plan.stop > 0 /\ memory.capital > 0 /\ h # <<>>
    BY DEF B!Taken
  <2>2. memory.capital \in Int
    BY <1>1 DEF BooksTyped, Memories
  <2>3. Bounded(row)
    BY <1>2, <2>1, <2>2, RowIsBounded
  <2> QED
    BY <2>3 DEF Bounded
<1>4. /\ trades' = Append(trades, row)
      /\ memory' = IF done = 1 THEN booked
                   ELSE IF done = 2 THEN learned ELSE B!Recalibrated(learned)
      /\ equity' = IF done >= 2 THEN Append(equity, point) ELSE equity
      /\ mistakes' = IF done >= 3 THEN B!Counted(mistakes, B!Flaws(signal, row))
                     ELSE mistakes
      /\ calibration' = calibration
         \/ calibration' = {[minimum |-> B!Recalibrated(learned).minimum,
                             adjustment |-> B!Recalibrated(learned).adjustment]}
      /\ forgotten' = forgotten
  BY DEF B!Written
<1>5. /\ booked \in Memories /\ Reviewed(booked, learned)
      /\ Reviewed(booked, B!Recalibrated(learned))
      /\ booked.capital = memory.capital + row.pnl
      /\ booked.total = memory.total + 1
      /\ booked.wins + booked.losses = memory.wins + memory.losses + 1
      /\ booked.peak = B!Larger(memory.peak, memory.capital + row.pnl)
      /\ booked.drawdown = B!Larger(memory.drawdown, booked.peak - (memory.capital + row.pnl))
  BY <1>1, <1>2, <1>3, BookedFacts
<1>6. Reviewed(booked, memory')
  BY <1>4, <1>5 DEF Reviewed
<1>7. /\ n \in Nat /\ Covered \in Nat /\ Covered <= n
      /\ forgotten \subseteq 1..n
  BY <1>1, CountingFacts DEF CapitalKept, BooksTyped
<1>8. /\ trades' \in Seq(Booking) /\ Len(trades') = n + 1 /\ trades'[n + 1] = row
      /\ \A i \in 1..n : trades'[i] = trades[i]
  <2>1. trades \in Seq(Booking)
    BY <1>1 DEF BooksTyped
  <2> QED
    BY <1>3, <1>4, <2>1, NewestOne
<1>9. point \in Pointing
      /\ point.capital = booked.capital /\ point.total = booked.total /\ point.upto = n + 1
  BY <1>5, <1>7 DEF B!Point, Pointing, Memories
<1>10. /\ equity \in Seq(Pointing) /\ equity # <<>>
       /\ Append(equity, point) \in Seq(Pointing) /\ Append(equity, point) # <<>>
       /\ B!Newest(Append(equity, point)) = point
  <2>1. equity \in Seq(Pointing) /\ equity # <<>>
    BY <1>1 DEF BooksTyped
  <2> HIDE DEF point
  <2> QED
    BY <1>9, <2>1, NewestOne
<1>11. Covered' = IF done >= 2 THEN n + 1 ELSE Covered
  BY <1>4, <1>9, <1>10 DEF Covered
<1> HIDE DEF n, row, booked, learned, point
<1>12. BooksTyped'
  <2>1. memory' \in Memories
    BY <1>6 DEF Reviewed
  <2>2. mistakes' \in [B!Kinds -> Nat]
    <3>1. mistakes \in [B!Kinds -> Nat]
      BY <1>1 DEF BooksTyped
    <3> QED
      BY <1>4, <3>1 DEF B!Counted
  <2>3. calibration' \subseteq [minimum : Int, adjustment : Int]
    <3>1. B!Recalibrated(learned).minimum \in Int /\ B!Recalibrated(learned).adjustment \in Int
      BY <1>5 DEF Reviewed, Memories
    <3>2. calibration \subseteq [minimum : Int, adjustment : Int]
      BY <1>1 DEF BooksTyped
    <3> QED
      BY <1>4, <3>1, <3>2
  <2>4. forgotten' \subseteq 1..Len(trades')
    BY <1>4, <1>7, <1>8
  <2>5. equity' \in Seq(Pointing) /\ equity' # <<>>
    BY <1>4, <1>10
  <2> QED
    BY <1>8, <2>1, <2>2, <2>3, <2>4, <2>5 DEF BooksTyped
<1>13. /\ Remembered(n + 1) = Remembered(n) \cup {n + 1} /\ n + 1 \notin Remembered(n)
       /\ \A k \in Nat : Remembered(k)' = Remembered(k)
       /\ n + 1 \notin Remembered(Covered) /\ n + 1 \in Remembered(n + 1)
  BY <1>4, <1>7 DEF Remembered
<1>14. CapitalKept'
  <2>1. trades \in Seq(Booking)
    BY <1>1 DEF BooksTyped
  <2>2. /\ memory.capital = InitialCapital + B!Earned(trades, Remembered(n))
        /\ B!Newest(equity).capital = InitialCapital + B!Earned(trades, Remembered(Covered))
    BY <1>1 DEF CapitalKept, n
  <2> DEFINE before == Remembered(n)
             after == Remembered(n + 1)
             point0 == Remembered(Covered)
  <2>3. B!Earned(trades', after) = B!Earned(trades, after) + row.pnl
    BY <1>3, <1>4, <1>13, <2>1, EarnedGoesOn DEF n
  <2>4. B!Earned(trades, after) = B!Earned(trades, before)
    <3>1. after \cap (1..Len(trades)) = before \cap (1..Len(trades))
      BY <1>7, <1>13 DEF n
    <3> HIDE DEF after, before
    <3> QED
      BY <2>1, <3>1, EarnedByThose
  <2>5. B!Earned(trades', point0) = B!Earned(trades, point0)
    BY <1>3, <1>4, <1>13, <2>1, EarnedGoesOn DEF n
  <2>6. B!Earned(trades, before) \in Int /\ row.pnl \in Int
    <3>1. B!Earned(trades, before) \in Int
      BY <1>3, <2>1, EarnedGoesOn
    <3> QED
      BY <1>3, <3>1 DEF Booking
  <2>7. memory'.capital = memory.capital + row.pnl
    BY <1>5, <1>6 DEF Reviewed
  <2>8. memory'.capital = InitialCapital + B!Earned(trades', after)
    BY <1>2, <2>2, <2>3, <2>4, <2>6, <2>7
  <2>9. CASE done >= 2
    <3>1. Covered' = n + 1 /\ B!Newest(equity').capital = memory'.capital
      BY <1>4, <1>5, <1>6, <1>9, <1>10, <1>11, <2>9 DEF Reviewed
    <3> QED
      BY <1>7, <1>8, <1>13, <2>8, <3>1 DEF CapitalKept
  <2>10. CASE ~(done >= 2)
    <3>1. Covered' = Covered /\ equity' = equity
      BY <1>4, <1>11, <2>10
    <3> QED
      BY <1>7, <1>8, <1>13, <2>2, <2>5, <2>8, <3>1 DEF CapitalKept
  <2> QED
    BY <2>9, <2>10
<1>15. TotalKept'
  <2>1. /\ memory.total = Cardinality(Remembered(n))
        /\ B!Newest(equity).total = Cardinality(Remembered(Covered))
        /\ memory.wins + memory.losses = n
    BY <1>1 DEF TotalKept, n
  <2>2. Cardinality(Remembered(n + 1)) = Cardinality(Remembered(n)) + 1
    BY <1>1, <1>7, <1>13, CountingFacts, FS_AddElement
  <2>3. memory'.total = Cardinality(Remembered(n + 1))
    BY <1>5, <1>6, <2>1, <2>2 DEF Reviewed
  <2>4. memory'.wins + memory'.losses = n + 1
    BY <1>5, <1>6, <2>1 DEF Reviewed
  <2>5. CASE done >= 2
    <3>1. Covered' = n + 1 /\ B!Newest(equity').total = memory'.total
      BY <1>4, <1>5, <1>6, <1>9, <1>10, <1>11, <2>5 DEF Reviewed
    <3> QED
      BY <1>7, <1>8, <1>13, <2>3, <2>4, <3>1 DEF TotalKept
  <2>6. CASE ~(done >= 2)
    <3>1. Covered' = Covered /\ equity' = equity
      BY <1>4, <1>11, <2>6
    <3> QED
      BY <1>7, <1>8, <1>13, <2>1, <2>3, <2>4, <3>1 DEF TotalKept
  <2> QED
    BY <2>5, <2>6
<1>16. MissedByFaults'
  <2>1. Cardinality(Missed) <= bookFaults /\ bookFaults \in Nat
    BY <1>1 DEF MissedByFaults, BooksTyped
  <2>2. IsFiniteSet(Missed) /\ Cardinality(Missed) \in Nat
    BY <1>1, CountingFacts, FS_CardinalityType
  <2>3. CASE done >= 2
    <3>1. Missed' \in SUBSET Missed
      BY <1>4, <1>7, <1>8, <1>11, <2>3 DEF Missed
    <3>2. Cardinality(Missed') <= Cardinality(Missed) /\ Cardinality(Missed') \in Nat
      BY <2>2, <3>1, FS_Subset, FS_CardinalityType
    <3> QED
      BY <2>1, <2>2, <3>2 DEF MissedByFaults
  <2>4. CASE ~(done >= 2)
    <3>1. Missed' = Missed \cup {n + 1}
      BY <1>4, <1>7, <1>8, <1>11, <2>4 DEF Missed, n
    <3>2. Cardinality(Missed') <= Cardinality(Missed) + 1 /\ Cardinality(Missed') \in Nat
      <4>1. /\ IsFiniteSet(Missed \cup {n + 1})
            /\ \/ Cardinality(Missed \cup {n + 1}) = Cardinality(Missed)
               \/ Cardinality(Missed \cup {n + 1}) = Cardinality(Missed) + 1
        BY <2>2, FS_AddElement
      <4> QED
        BY <2>2, <3>1, <4>1
    <3>3. bookFaults' = bookFaults + 1
      BY <2>4
    <3> QED
      BY <2>1, <2>2, <3>2, <3>3 DEF MissedByFaults
  <2> QED
    BY <2>3, <2>4
<1>17. DrawdownKept'
  <2> DEFINE c == B!CurveOf(equity)
             capital == memory.capital + row.pnl
  <2>1. /\ memory.peak >= c.peak /\ memory.drawdown >= c.drawdown
        /\ memory.peak \in Int /\ memory.drawdown \in Int /\ capital \in Int
    BY <1>1, <1>3 DEF DrawdownKept, BooksTyped, Memories, Booking
  <2>2. /\ memory'.peak = B!Larger(memory.peak, capital)
        /\ memory'.drawdown = B!Larger(memory.drawdown, memory'.peak - capital)
    BY <1>5, <1>6 DEF Reviewed
  <2>3. c \in Curves /\ c.peak \in Int /\ c.drawdown \in Int
    BY <1>2, <1>9, <1>10, CurveGoesOn DEF Curves
  <2>4. CASE done >= 2
    <3>1. B!CurveOf(equity') = B!Extended(c, capital)
      BY <1>2, <1>4, <1>5, <1>9, <1>10, <2>4, CurveGoesOn
    <3> HIDE DEF c, capital
    <3>2. /\ B!CurveOf(equity').peak = B!Larger(c.peak, capital)
          /\ B!CurveOf(equity').drawdown
                = B!Larger(c.drawdown, B!Larger(c.peak, capital) - capital)
      BY <3>1 DEF B!Extended
    <3> QED
      BY <2>1, <2>2, <2>3, <3>2 DEF DrawdownKept, B!Larger
  <2>5. CASE ~(done >= 2)
    <3>1. equity' = equity
      BY <1>4, <2>5
    <3> HIDE DEF capital
    <3> QED
      BY <2>1, <2>2, <2>3, <3>1 DEF DrawdownKept, B!Larger
  <2> QED
    BY <2>4, <2>5
<1>18. RowsBounded'
  <2>1. ASSUME NEW i \in 1..(n + 1) PROVE Bounded(trades'[i])
    <3>1. i = n + 1 \/ i \in 1..n
      BY <1>7
    <3> QED
      BY <1>1, <1>3, <1>8, <3>1 DEF RowsBounded, n
  <2> QED
    BY <1>8, <2>1 DEF RowsBounded
<1> QED
  BY <1>12, <1>14, <1>15, <1>16, <1>17, <1>18 DEF BooksInv

\* The module counts as this one does.
LEMMA SameCount ==
    ASSUME NEW S PROVE B!Cardinality(S) = Cardinality(S)
BY DEF B!Cardinality, Cardinality

\* A restart reads the books back, without the trades no point covers.
LEMMA RestartKeeps ==
    ASSUME BooksInv, B!Restart, B!BacktesterAssumption PROVE BooksInv'
<1> DEFINE n == Len(trades)
           c == B!CurveOf(equity)
           row == CHOOSE r \in calibration : TRUE
           learned == [minimum |-> B!DefaultMinimum, adjustment |-> 0]
           kept == IF calibration = {} THEN learned ELSE row
<1>1. /\ BooksTyped /\ CapitalKept /\ TotalKept /\ MissedByFaults /\ DrawdownKept
      /\ RowsBounded
  BY DEF BooksInv
<1>2. /\ InitialCapital \in Nat /\ Flat \in Curves
  BY DEF B!BacktesterAssumption, Flat, Curves
<1>3. /\ trades \in Seq(Booking) /\ equity \in Seq(Pointing) /\ equity # <<>>
      /\ mistakes \in [B!Kinds -> Nat] /\ bookFaults \in Nat
      /\ forgotten \subseteq 1..n
      /\ calibration \subseteq [minimum : Int, adjustment : Int]
  BY <1>1 DEF BooksTyped
<1>4. /\ memory' = [capital |-> B!Newest(equity).capital, total |-> B!Newest(equity).total,
                    wins |-> B!CountOf(B!Wins), losses |-> B!CountOf(B!Outcomes \ B!Wins),
                    peak |-> c.peak, drawdown |-> c.drawdown, patterns |-> mistakes,
                    minimum |-> kept.minimum, adjustment |-> kept.adjustment]
      /\ forgotten' = forgotten \cup (Covered + 1 .. n)
      /\ trades' = trades /\ equity' = equity /\ mistakes' = mistakes
      /\ calibration' = calibration /\ bookFaults' = bookFaults
  BY DEF B!Restart, B!Curve, Covered
<1>5. n \in Nat /\ Covered \in Nat /\ Covered <= n
  BY <1>1, CountingFacts DEF CapitalKept
<1>6. B!CountOf(B!Wins) \in Nat /\ B!CountOf(B!Outcomes \ B!Wins) \in Nat
      /\ B!CountOf(B!Wins) + B!CountOf(B!Outcomes \ B!Wins) = n
  <2> DEFINE won == {i \in DOMAIN trades : trades[i].outcome \in B!Wins}
             gone == {i \in DOMAIN trades : trades[i].outcome \in B!Outcomes \ B!Wins}
  <2>1. DOMAIN trades = 1..n /\ \A i \in 1..n : trades[i].outcome \in B!Outcomes
    <3>1. DOMAIN trades = 1..n /\ \A i \in 1..n : trades[i] \in Booking
      BY <1>3
    <3> QED
      BY <3>1 DEF Booking
  <2>2. won \cup gone = 1..n /\ won \cap gone = {}
    BY <2>1 DEF B!Wins, B!Outcomes
  <2>3. IsFiniteSet(1..n) /\ Cardinality(1..n) = n
    <3> HIDE DEF n
    <3> QED
      BY <1>5, FS_Interval
  <2>4. won \in SUBSET (1..n) /\ gone \in SUBSET (1..n)
    BY <2>1
  <2>5. B!CountOf(B!Wins) = Cardinality(won)
        /\ B!CountOf(B!Outcomes \ B!Wins) = Cardinality(gone)
    BY SameCount DEF B!CountOf
  <2> HIDE DEF won, gone, n
  <2>6. IsFiniteSet(won) /\ IsFiniteSet(gone)
    BY <2>3, <2>4, FS_Subset
  <2>7. Cardinality(won) \in Nat /\ Cardinality(gone) \in Nat
    BY <2>6, FS_CardinalityType
  <2>8. Cardinality(won \cup gone)
            = Cardinality(won) + Cardinality(gone) - Cardinality(won \cap gone)
    BY <2>6, FS_Union
  <2>9. Cardinality(won \cap gone) = 0
    BY <2>2, FS_EmptySet
  <2>10. Cardinality(won) + Cardinality(gone) = n
    <3>1. Cardinality(won \cup gone) = n
      BY <2>2, <2>3
    <3> HIDE DEF won, gone
    <3> QED
      BY <2>7, <2>8, <2>9, <3>1
  <2> QED
    BY <2>5, <2>7, <2>10
<1>7. c \in Curves /\ c.peak \in Int /\ c.drawdown \in Int
  <2>1. PICK f \in [0..Len(equity) -> Curves] :
            /\ Follows(f, Flat, Extending(equity), Len(equity))
            /\ B!CurveOf(equity) = f[Len(equity)]
    BY <1>2, <1>3, CurveFacts
  <2>2. Len(equity) \in 0..Len(equity)
    BY <1>3
  <2>3. c \in Curves
    BY <2>1, <2>2
  <2> QED
    BY <2>3 DEF Curves
<1>8. kept.minimum \in Int /\ kept.adjustment \in Int
  <2>1. CASE calibration = {}
    BY <2>1 DEF B!DefaultMinimum
  <2>2. CASE calibration # {}
    <3>1. row \in calibration
      BY <2>2
    <3>2. row \in [minimum : Int, adjustment : Int]
      BY <1>3, <3>1
    <3> HIDE DEF row
    <3> QED
      BY <2>2, <3>2
  <2> QED
    BY <2>1, <2>2
<1>9. B!Newest(equity).capital \in Int /\ B!Newest(equity).total \in Int
  <2>1. B!Newest(equity) \in Pointing
    BY <1>3, NewestIsIn
  <2> QED
    BY <2>1 DEF Pointing
<1> HIDE DEF n, c, row, learned, kept
<1>10. (Covered + 1 .. n) \subseteq 1..n
  BY <1>5
<1>11. Covered' = Covered /\ Missed' = Missed
  <2>1. Covered' = Covered
    BY <1>4 DEF Covered
  <2>2. Missed = forgotten \cup (Covered + 1 .. n)
    BY DEF Missed, n
  <2>3. Missed' = forgotten' \cup (Covered + 1 .. n)
    BY <1>4, <2>1 DEF Missed, n
  <2> QED
    BY <1>4, <2>1, <2>2, <2>3
<1>12. Remembered(n)' = Remembered(Covered) /\ Remembered(Covered)' = Remembered(Covered)
  <2>1. ASSUME NEW i \in Nat
        PROVE  /\ i \in 1..n /\ i \notin forgotten' <=> i \in 1..Covered /\ i \notin forgotten
               /\ i \in 1..Covered /\ i \notin forgotten'
                    <=> i \in 1..Covered /\ i \notin forgotten
    BY <1>4, <1>5
  <2>2. (1..n) \ forgotten' = (1..Covered) \ forgotten
        /\ (1..Covered) \ forgotten' = (1..Covered) \ forgotten
    BY <2>1
  <2>3. n' = n
    BY <1>4 DEF n
  <2> QED
    BY <1>11, <2>2, <2>3 DEF Remembered
<1>13. BooksTyped'
  <2>1. memory' \in Memories
    BY <1>3, <1>4, <1>6, <1>7, <1>8, <1>9 DEF Memories
  <2>2. forgotten' \subseteq 1..Len(trades')
    BY <1>3, <1>4, <1>10 DEF n
  <2> QED
    BY <1>3, <1>4, <2>1, <2>2 DEF BooksTyped
<1>14. CapitalKept'
  <2>1. B!Newest(equity).capital = InitialCapital + B!Earned(trades, Remembered(Covered))
    BY <1>1 DEF CapitalKept
  <2>2. memory'.capital = B!Newest(equity).capital
    BY <1>4
  <2>3. n' = n
    BY <1>4 DEF n
  <2> QED
    BY <1>4, <1>5, <1>11, <1>12, <2>1, <2>2, <2>3 DEF CapitalKept, n
<1>15. TotalKept'
  <2>1. B!Newest(equity).total = Cardinality(Remembered(Covered))
    BY <1>1 DEF TotalKept
  <2>2. memory'.total = B!Newest(equity).total /\ memory'.wins + memory'.losses = n
    BY <1>4, <1>6
  <2>3. n' = n
    BY <1>4 DEF n
  <2> QED
    BY <1>4, <1>11, <1>12, <2>1, <2>2, <2>3 DEF TotalKept, n
<1>16. MissedByFaults'
  BY <1>1, <1>4, <1>11 DEF MissedByFaults
<1>17. DrawdownKept'
  <2>1. memory'.peak = c.peak /\ memory'.drawdown = c.drawdown
    BY <1>4
  <2> QED
    BY <1>4, <1>7, <2>1 DEF DrawdownKept, c
<1>18. RowsBounded'
  BY <1>1, <1>4 DEF RowsBounded
<1> QED
  BY <1>13, <1>14, <1>15, <1>16, <1>17, <1>18 DEF BooksInv

\* Every step keeps the books.
LEMMA BooksStep ==
    ASSUME BooksInv, [B!Next]_(B!vars), B!BacktesterAssumption PROVE BooksInv'
<1>1. CASE UNCHANGED B!vars
  BY <1>1 DEF B!vars, BooksInv, BooksTyped, CapitalKept, TotalKept, MissedByFaults,
              DrawdownKept, RowsBounded, Covered, Remembered, Missed
<1>2. CASE B!Restart
  BY <1>2, RestartKeeps
<1>3. CASE B!Reset
  BY <1>3, ResetKeeps
<1>4. bookFaults \in Nat
  BY DEF BooksInv, BooksTyped
<1>5. ASSUME NEW signal \in Backtested, NEW h \in Histories, B!Trade(signal, h)
      PROVE  BooksInv'
  <2>1. B!Taken(signal, h) /\ B!Written(signal, h, 4) /\ bookFaults' = bookFaults
    BY <1>5 DEF B!Trade
  <2>2. 4 \in 1..4 /\ bookFaults' \in Nat /\ bookFaults' >= bookFaults /\ 4 # 1
    BY <1>4, <2>1
  <2> QED
    BY <2>1, <2>2, WrittenKeeps
<1>6. ASSUME NEW signal \in Backtested, NEW h \in Histories, NEW done \in 1..3,
             B!TradeFails(signal, h, done)
      PROVE  BooksInv'
  <2>1. B!Taken(signal, h) /\ B!Written(signal, h, done) /\ bookFaults' = bookFaults + 1
    BY <1>6 DEF B!TradeFails
  <2>2. done \in 1..4 /\ bookFaults' \in Nat /\ bookFaults' >= bookFaults
    BY <1>4, <2>1
  <2> QED
    BY <2>1, <2>2, WrittenKeeps
<1> QED
  BY <1>1, <1>2, <1>3, <1>5, <1>6 DEF B!Next

\* The books that are kept say what the property says of them.
LEMMA BooksAreAccounted ==
    ASSUME BooksInv, B!BacktesterAssumption PROVE B!CapitalIsAccounted
<1> DEFINE n == Len(trades)
<1>1. /\ BooksTyped /\ CapitalKept /\ TotalKept /\ MissedByFaults /\ DrawdownKept
      /\ RowsBounded
  BY DEF BooksInv
<1>2. /\ trades \in Seq(Booking) /\ DOMAIN trades = 1..n /\ n \in Nat
      /\ forgotten \subseteq 1..n /\ bookFaults \in Nat /\ InitialCapital \in Nat
  BY <1>1 DEF BooksTyped, B!BacktesterAssumption
<1>3. /\ B!Report.total = n /\ B!Report.drawdown = B!CurveOf(equity).drawdown
      /\ B!Report.profit = B!Earned(trades, 1..n)
  BY <1>2 DEF B!Report, B!Curve
<1>4. memory.capital = InitialCapital + B!Earned(trades, 1..n) - B!Earned(trades, forgotten)
  <2> DEFINE rest == Remembered(n)
  <2>1. rest \cap forgotten = {} /\ rest \cup forgotten = 1..n
    BY <1>2 DEF Remembered
  <2>2. memory.capital = InitialCapital + B!Earned(trades, rest)
    BY <1>1 DEF CapitalKept
  <2> DEFINE all == 1..n
  <2> HIDE DEF rest, n
  <2>3. /\ B!Earned(trades, rest) \in Int /\ B!Earned(trades, forgotten) \in Int
        /\ B!Earned(trades, rest \cup forgotten)
              = B!Earned(trades, rest) + B!Earned(trades, forgotten)
    BY <1>2, <2>1, EarnedAddsUp
  <2>4. B!Earned(trades, all) = B!Earned(trades, rest) + B!Earned(trades, forgotten)
    BY <2>1, <2>3
  <2>5. InitialCapital \in Int
    BY <1>2
  <2> HIDE DEF all
  <2>6. memory.capital
            = InitialCapital + B!Earned(trades, all) - B!Earned(trades, forgotten)
    BY <2>2, <2>3, <2>4, <2>5
  <2> QED
    BY <2>6 DEF all
<1>5. memory.total = n - Cardinality(forgotten)
  <2>1. IsFiniteSet(1..n) /\ Cardinality(1..n) = n
    <3>1. n \in Int
      BY <1>2
    <3> HIDE DEF n
    <3>2. IsFiniteSet(1..n) /\ Cardinality(1..n) = IF 1 > n THEN 0 ELSE n - 1 + 1
      BY <3>1, FS_Interval
    <3> QED
      BY <1>2, <3>2
  <2>2. Cardinality((1..n) \ forgotten)
            = Cardinality(1..n) - Cardinality((1..n) \cap forgotten)
    BY <2>1, FS_Difference
  <2>3. (1..n) \cap forgotten = forgotten
    BY <1>2
  <2> QED
    BY <1>1, <2>1, <2>2, <2>3 DEF TotalKept, Remembered
<1>6. Cardinality(forgotten) <= bookFaults
  <2>1. IsFiniteSet(Missed) /\ forgotten \in SUBSET Missed
    BY <1>1, CountingFacts DEF Missed
  <2>2. /\ Cardinality(forgotten) <= Cardinality(Missed) /\ Cardinality(Missed) \in Nat
        /\ Cardinality(forgotten) \in Nat
    BY <2>1, FS_Subset, FS_CardinalityType
  <2> QED
    BY <1>1, <1>2, <2>2 DEF MissedByFaults
<1>7. B!EveryResultCounted
  BY <1>1, <1>3, <1>4, <1>5, <1>6, SameCount DEF B!EveryResultCounted, TotalKept, DrawdownKept
<1>8. B!RiskIsBounded
  BY <1>1, <1>2 DEF B!RiskIsBounded, RowsBounded, Bounded
<1> QED
  BY <1>7, <1>8 DEF B!CapitalIsAccounted

\* The books of the backtester hold through every write that fails, every
\* restart and every reset (run_signal_trade, _record_equity, _load_state, reset).
THEOREM BooksInvariance == OutcomesSpec => []BooksInv
<1>1. OutcomesInit => BooksInv
  BY MachinesStart, BooksStart, OutcomesAssumption DEF OutcomesAssumption
<1>2. BooksInv /\ [OutcomesNext]_everything => BooksInv'
  BY OneMachineSteps, BooksStep, OutcomesAssumption DEF OutcomesAssumption
<1> QED
  BY <1>1, <1>2, PTL DEF OutcomesSpec

\* Every result is in the capital once but for those a failed write and a restart
\* left out, and no trade loses more than it set out to risk (run_signal_trade,
\* _simulate_trade, _load_state, compute_metrics).
THEOREM ResultsAreCounted == OutcomesSpec => []CapitalIsAccounted
<1>1. BooksInv => CapitalIsAccounted
  BY BooksAreAccounted, OutcomesAssumption DEF OutcomesAssumption, CapitalIsAccounted
<1> QED
  BY <1>1, BooksInvariance, PTL

-----------------------------------------------------------------------------
(* ExecutionMeasure                                                        *)

\* A finite nonempty set has a member of the greatest value.
LEMMA HasGreatest ==
    ASSUME NEW I, IsFiniteSet(I), I # {}, NEW values \in [I -> Int]
    PROVE  \E i \in I : \A j \in I : values[j] <= values[i]
<1> DEFINE UpTo(i) == {j \in I : values[j] <= values[i]}
           Left == {Cardinality(I) - Cardinality(UpTo(i)) : i \in I}
<1>1. ASSUME NEW i \in I
      PROVE  /\ IsFiniteSet(UpTo(i)) /\ Cardinality(UpTo(i)) \in Nat
             /\ Cardinality(UpTo(i)) <= Cardinality(I) /\ Cardinality(I) \in Nat
  <2>1. UpTo(i) \subseteq I
    OBVIOUS
  <2> HIDE DEF UpTo
  <2>2. IsFiniteSet(UpTo(i)) /\ Cardinality(UpTo(i)) <= Cardinality(I)
    BY <2>1, FS_Subset
  <2> QED
    BY <2>2, FS_CardinalityType
<1>2. Left \subseteq Nat /\ Left # {}
  <2> HIDE DEF UpTo
  <2> QED
    BY <1>1
<1> HIDE DEF UpTo
<1>3. PICK i \in I : \A j \in I :
          <<Cardinality(I) - Cardinality(UpTo(j)), Cardinality(I) - Cardinality(UpTo(i))>>
            \notin OpToRel(<, Nat)
  <2>1. PICK l \in Left : \A k \in Left : <<k, l>> \notin OpToRel(<, Nat)
    BY <1>2, NatLessThanWellFounded, WFMin
  <2> QED
    BY <2>1
<1>4. ASSUME NEW j \in I, ~(values[j] <= values[i]) PROVE FALSE
  <2>1. UpTo(i) \subseteq UpTo(j) /\ UpTo(i) # UpTo(j)
    <3>1. values[i] < values[j] /\ values[i] \in Int /\ values[j] \in Int
      BY <1>4
    <3>2. ASSUME NEW k \in I, values[k] <= values[i] PROVE values[k] <= values[j]
      BY <3>1, <3>2
    <3>3. j \in UpTo(j) /\ j \notin UpTo(i)
      BY <3>1 DEF UpTo
    <3> QED
      BY <3>2, <3>3 DEF UpTo
  <2>2. Cardinality(UpTo(i)) < Cardinality(UpTo(j))
    <3>1. Cardinality(UpTo(i)) <= Cardinality(UpTo(j))
          /\ (Cardinality(UpTo(i)) = Cardinality(UpTo(j)) => UpTo(i) = UpTo(j))
      BY <1>1, <2>1, FS_Subset
    <3> QED
      BY <1>1, <2>1, <3>1
  <2>3. <<Cardinality(I) - Cardinality(UpTo(j)), Cardinality(I) - Cardinality(UpTo(i))>>
            \in OpToRel(<, Nat)
    BY <1>1, <2>2 DEF OpToRel
  <2> QED
    BY <1>3, <2>3
<1> QED
  BY <1>4

\* What is in order before a value, and what is not after it.
Below(values, v) == {i \in DOMAIN values : values[i] < v}
UpToIt(values, v) == {i \in DOMAIN values : values[i] <= v}

\* Both are finite, and one lies within the other.
LEMMA BelowFacts ==
    ASSUME NEW I, IsFiniteSet(I), NEW values \in [I -> Int], NEW v \in Int
    PROVE  /\ IsFiniteSet(Below(values, v)) /\ IsFiniteSet(UpToIt(values, v))
           /\ Below(values, v) \subseteq UpToIt(values, v) /\ UpToIt(values, v) \subseteq I
           /\ Cardinality(Below(values, v)) \in Nat
           /\ Cardinality(UpToIt(values, v)) \in Nat
           /\ Cardinality(Below(values, v)) <= Cardinality(UpToIt(values, v))
           /\ Cardinality(UpToIt(values, v)) <= Cardinality(I)
           /\ Cardinality(I) \in Nat
<1>1. Below(values, v) \subseteq UpToIt(values, v) /\ UpToIt(values, v) \subseteq I
  BY DEF Below, UpToIt
<1> QED
  BY <1>1, FS_Subset, FS_CardinalityType

\* There is a k-th value in order (_percentile_from_ordered).
LEMMA RankExists ==
    ASSUME NEW I, IsFiniteSet(I), NEW values \in [I -> Int], NEW k \in Nat,
           k # 0, k <= Cardinality(I)
    PROVE  \E i \in I : /\ Cardinality(Below(values, values[i])) < k
                        /\ Cardinality(UpToIt(values, values[i])) >= k
<1> DEFINE Enough == {i \in I : Cardinality(UpToIt(values, values[i])) >= k}
           turned == [i \in Enough |-> -values[i]]
<1>1. IsFiniteSet(Enough)
  <2>1. Enough \subseteq I
    OBVIOUS
  <2> HIDE DEF Enough
  <2> QED
    BY <2>1, FS_Subset
<1>2. Enough # {}
  <2>1. I # {}
    BY FS_EmptySet
  <2>2. PICK i \in I : \A j \in I : values[j] <= values[i]
    BY <2>1, HasGreatest
  <2>3. UpToIt(values, values[i]) = I
    BY <2>2 DEF UpToIt
  <2> QED
    BY <2>3
<1>3. turned \in [Enough -> Int]
  OBVIOUS
<1>4. PICK i \in Enough : \A j \in Enough : turned[j] <= turned[i]
  <2> HIDE DEF Enough, turned
  <2> QED
    BY <1>1, <1>2, <1>3, HasGreatest
<1>5. i \in I /\ values[i] \in Int /\ \A j \in Enough : values[i] <= values[j]
  BY <1>4
<1>6. Cardinality(Below(values, values[i])) < k
  <2> DEFINE E == Below(values, values[i])
             within == [j \in E |-> values[j]]
  <2>1. IsFiniteSet(E) /\ Cardinality(E) \in Nat /\ E \subseteq I
    BY <1>5, BelowFacts
  <2>2. within \in [E -> Int]
    BY <2>1
  <2>3. CASE E = {}
    BY <2>3, FS_EmptySet
  <2>4. CASE E # {}
    <3>1. PICK j \in E : \A l \in E : within[l] <= within[j]
      <4> HIDE DEF E, within
      <4> QED
        BY <2>1, <2>2, <2>4, HasGreatest
    <3>2. j \in I /\ values[j] < values[i] /\ values[j] \in Int
          /\ \A l \in E : values[l] <= values[j]
      BY <2>1, <3>1 DEF Below
    <3>3. j \notin Enough
      BY <1>5, <3>2
    <3>4. UpToIt(values, values[j]) = E
      <4>1. ASSUME NEW l \in I, values[l] <= values[j] PROVE values[l] < values[i]
        BY <1>5, <3>2, <4>1
      <4> QED
        BY <3>2, <4>1 DEF UpToIt, Below
    <3>5. ~(Cardinality(E) >= k)
      BY <3>2, <3>3, <3>4
    <3> QED
      BY <2>1, <3>5
  <2> QED
    BY <2>3, <2>4
<1> QED
  BY <1>4, <1>5, <1>6

\* What the k-th value in order is.
LEMMA RankFacts ==
    ASSUME NEW I, IsFiniteSet(I), NEW values \in [I -> Int], NEW k \in Nat,
           k # 0, k <= Cardinality(I)
    PROVE  /\ M!AtRank(values, k) \in Int
           /\ Cardinality(Below(values, M!AtRank(values, k))) < k
           /\ Cardinality(UpToIt(values, M!AtRank(values, k))) >= k
<1> DEFINE here == {values[i] : i \in DOMAIN values}
           Right(v) == /\ Cardinality(Below(values, v)) < k
                       /\ Cardinality(UpToIt(values, v)) >= k
<1>1. M!AtRank(values, k) = CHOOSE v \in here : Right(v)
  <2>1. \A v : M!Cardinality({i \in DOMAIN values : values[i] < v})
                  = Cardinality(Below(values, v))
               /\ M!Cardinality({i \in DOMAIN values : values[i] <= v})
                  = Cardinality(UpToIt(values, v))
    BY DEF Below, UpToIt, M!Cardinality, Cardinality
  <2> QED
    BY <2>1 DEF M!AtRank
<1>2. \E v \in here : Right(v)
  <2>1. PICK i \in I : Right(values[i])
    BY RankExists
  <2>2. values[i] \in here
    OBVIOUS
  <2> QED
    BY <2>1, <2>2
<1>3. here \subseteq Int
  OBVIOUS
<1> HIDE DEF here
<1>4. M!AtRank(values, k) \in here /\ Right(M!AtRank(values, k))
  BY <1>1, <1>2
<1> QED
  BY <1>3, <1>4

\* A later rank is not a smaller value.
LEMMA RanksGrow ==
    ASSUME NEW I, IsFiniteSet(I), NEW values \in [I -> Int], NEW k \in Nat, NEW l \in Nat,
           k # 0, k <= l, l <= Cardinality(I)
    PROVE  M!AtRank(values, k) <= M!AtRank(values, l)
<1> DEFINE a == M!AtRank(values, k)
           b == M!AtRank(values, l)
<1>1. Cardinality(I) \in Nat
  BY FS_CardinalityType
<1>2. a \in Int /\ Cardinality(Below(values, a)) < k
  <2>1. k <= Cardinality(I)
    BY <1>1
  <2> QED
    BY <2>1, RankFacts
<1>3. b \in Int /\ Cardinality(UpToIt(values, b)) >= l
  <2>1. l # 0
    OBVIOUS
  <2> QED
    BY <2>1, RankFacts
<1> HIDE DEF a, b
<1>4. ASSUME b < a PROVE FALSE
  <2>1. UpToIt(values, b) \subseteq Below(values, a)
    <3>1. ASSUME NEW i \in I, values[i] <= b PROVE values[i] < a
      BY <1>2, <1>3, <1>4, <3>1
    <3> QED
      BY <3>1 DEF UpToIt, Below
  <2>2. /\ IsFiniteSet(Below(values, a)) /\ Cardinality(Below(values, a)) \in Nat
        /\ Cardinality(UpToIt(values, b)) \in Nat
    BY <1>2, <1>3, BelowFacts
  <2>3. Cardinality(UpToIt(values, b)) <= Cardinality(Below(values, a))
    BY <2>1, <2>2, FS_Subset
  <2> QED
    BY <1>2, <1>3, <2>2, <2>3
<1> QED
  BY <1>2, <1>3, <1>4 DEF a, b

\* A percentile lies between the ranks it is interpolated from.
LEMMA PercentileFacts ==
    ASSUME NEW I, IsFiniteSet(I), I # {}, NEW values \in [I -> Int], NEW p \in 0..100
    PROVE  LET n == Cardinality(I)
               low == ((n - 1) * p) \div 100
               high == ((n - 1) * p + 99) \div 100
           IN /\ n \in Nat /\ n >= 1 /\ low \in Nat /\ high \in Nat
              /\ low <= high /\ high <= n - 1
              /\ 100 * low > (n - 1) * p - 100 /\ 100 * high <= (n - 1) * p + 99
              /\ M!AtRank(values, low + 1) \in Int /\ M!AtRank(values, high + 1) \in Int
              /\ 100 * M!AtRank(values, low + 1) <= M!Percentile(values, p)
              /\ M!Percentile(values, p) <= 100 * M!AtRank(values, high + 1)
              /\ M!Percentile(values, p) \in Int
<1> DEFINE n == Cardinality(I)
           position == (n - 1) * p
           low == position \div 100
           high == (position + 99) \div 100
           part == position % 100
           a == M!AtRank(values, low + 1)
           b == M!AtRank(values, high + 1)
<1>1. n \in Nat /\ n >= 1
  <2>1. n \in Nat /\ n # 0
    BY FS_CardinalityType, FS_EmptySet
  <2> QED
    BY <2>1
<1>2. DOMAIN values = I /\ M!Cardinality(I) = n
  BY DEF M!Cardinality, Cardinality
<1>3. M!Percentile(values, p) = 100 * a + (b - a) * part
  BY <1>2 DEF M!Percentile
<1> HIDE DEF n
<1>4. position \in Nat /\ position <= 100 * (n - 1)
  <2> DEFINE q == n - 1
  <2>1. q \in Nat
    BY <1>1
  <2> HIDE DEF q
  <2>2. q * p \in Nat /\ q * p <= q * 100
    BY <2>1
  <2> QED
    BY <2>1, <2>2 DEF q
<1> HIDE DEF position
<1>5. /\ low \in Nat /\ high \in Nat /\ part \in 0..99
      /\ 100 * low <= position /\ position < 100 * low + 100
      /\ 100 * high <= position + 99 /\ position + 99 < 100 * high + 100
  BY <1>4
<1> HIDE DEF low, high, part
<1>6. low <= high /\ high <= n - 1
  BY <1>1, <1>4, <1>5
<1>7. a \in Int /\ b \in Int /\ a <= b
  <2> DEFINE k == low + 1
             l == high + 1
  <2>1. k \in Nat /\ l \in Nat /\ k # 0 /\ l # 0 /\ k <= l /\ l <= n /\ k <= n
    BY <1>1, <1>5, <1>6
  <2> HIDE DEF k, l
  <2>2. M!AtRank(values, k) \in Int
    BY <2>1, RankFacts DEF n
  <2>3. M!AtRank(values, l) \in Int
    BY <2>1, RankFacts DEF n
  <2>4. M!AtRank(values, k) <= M!AtRank(values, l)
    BY <2>1, RanksGrow DEF n
  <2> QED
    BY <2>2, <2>3, <2>4 DEF k, l
<1> HIDE DEF a, b
<1>8. 0 <= (b - a) * part /\ (b - a) * part <= 100 * (b - a) /\ (b - a) * part \in Int
  <2> DEFINE gap == b - a
  <2>1. gap \in Nat
    BY <1>7
  <2> HIDE DEF gap
  <2>2. gap * part \in Nat /\ gap * part <= gap * 100
    BY <1>5, <2>1
  <2> QED
    BY <2>1, <2>2 DEF gap
<1>9. /\ 100 * a <= M!Percentile(values, p) /\ M!Percentile(values, p) <= 100 * b
      /\ M!Percentile(values, p) \in Int
  BY <1>3, <1>7, <1>8
<1>10. 100 * low > position - 100
  BY <1>4, <1>5
<1> QED
  BY <1>1, <1>5, <1>6, <1>7, <1>9, <1>10 DEF n, position, low, high, a, b

\* Of values whose ninetieth percentile is within a limit, few are beyond it.
LEMMA FewBeyond ==
    ASSUME NEW I, IsFiniteSet(I), I # {}, NEW values \in [I -> Int], NEW limit \in Int,
           M!Percentile(values, 90) <= 100 * limit
    PROVE  M!FewOf({i \in I : values[i] > limit}, I)
<1> DEFINE n == Cardinality(I)
           low == ((n - 1) * 90) \div 100
           a == M!AtRank(values, low + 1)
           Over == {i \in I : values[i] > limit}
<1>1. /\ n \in Nat /\ n >= 1 /\ low \in Nat /\ low <= n - 1
      /\ 100 * low > (n - 1) * 90 - 100
      /\ a \in Int /\ 100 * a <= M!Percentile(values, 90)
      /\ M!Percentile(values, 90) \in Int
  <2> DEFINE p == 90
             high == ((n - 1) * 90 + 99) \div 100
  <2>1. p \in 0..100
    OBVIOUS
  <2>2. /\ n \in Nat /\ n >= 1 /\ low \in Nat /\ high \in Nat
        /\ low <= high /\ high <= n - 1
        /\ 100 * low > (n - 1) * 90 - 100
        /\ a \in Int /\ 100 * a <= M!Percentile(values, 90)
        /\ M!Percentile(values, 90) \in Int
    BY SMTT(60), <2>1, PercentileFacts
  <2> HIDE DEF n, low, a, high
  <2> QED
    BY <2>2
<1>2. a <= limit
  BY <1>1
<1>3. Cardinality(UpToIt(values, a)) >= low + 1
  <2> DEFINE k == low + 1
  <2>1. k \in Nat /\ k # 0 /\ k <= n
    BY <1>1
  <2> HIDE DEF k, low
  <2>2. Cardinality(UpToIt(values, M!AtRank(values, k))) >= k
    BY <2>1, RankFacts
  <2> QED
    BY <2>2 DEF k
<1> HIDE DEF a, low
<1>4. IsFiniteSet(Over) /\ Cardinality(Over) \in Nat /\ Cardinality(Over) <= n - (low + 1)
  <2> DEFINE rest == I \ UpToIt(values, a)
  <2>1. UpToIt(values, a) \subseteq I /\ Cardinality(UpToIt(values, a)) \in Nat
    BY <1>1, BelowFacts
  <2>2. IsFiniteSet(rest) /\ Cardinality(rest) = n - Cardinality(UpToIt(values, a))
    <3>1. I \cap UpToIt(values, a) = UpToIt(values, a)
      BY <2>1
    <3> QED
      BY <3>1, FS_Difference
  <2>3. Over \subseteq rest
    <3>1. ASSUME NEW i \in I, values[i] > limit PROVE ~(values[i] <= a)
      BY <1>1, <1>2, <3>1
    <3> QED
      BY <3>1 DEF UpToIt
  <2> HIDE DEF Over, rest
  <2>4. IsFiniteSet(Over) /\ Cardinality(Over) <= Cardinality(rest)
    BY <2>2, <2>3, FS_Subset
  <2>5. Cardinality(Over) \in Nat
    BY <2>4, FS_CardinalityType
  <2> QED
    BY <1>1, <1>3, <2>1, <2>2, <2>4, <2>5
<1> HIDE DEF Over, n
<1>5. 10 * Cardinality(Over) < n + 9
  BY <1>1, <1>4
<1>6. M!Cardinality(Over) = Cardinality(Over) /\ M!Cardinality(I) = n
  BY DEF M!Cardinality, Cardinality, n
<1> QED
  BY <1>5, <1>6 DEF M!FewOf, Over

\* Of values whose median reaches a limit, at most half stay under it.
LEMMA HalfUnder ==
    ASSUME NEW I, IsFiniteSet(I), I # {}, NEW values \in [I -> Int], NEW limit \in Int,
           M!Percentile(values, 50) >= 100 * limit
    PROVE  2 * Cardinality({i \in I : values[i] < limit}) <= Cardinality(I)
<1> DEFINE n == Cardinality(I)
           high == ((n - 1) * 50 + 99) \div 100
           b == M!AtRank(values, high + 1)
           Under == {i \in I : values[i] < limit}
<1>1. /\ n \in Nat /\ n >= 1 /\ high \in Nat /\ high <= n - 1
      /\ 100 * high <= (n - 1) * 50 + 99
      /\ b \in Int /\ M!Percentile(values, 50) <= 100 * b
      /\ M!Percentile(values, 50) \in Int
  <2> DEFINE p == 50
             low == ((n - 1) * 50) \div 100
  <2>1. p \in 0..100
    OBVIOUS
  <2>2. /\ n \in Nat /\ n >= 1 /\ low \in Nat /\ high \in Nat
        /\ low <= high /\ high <= n - 1
        /\ 100 * high <= (n - 1) * 50 + 99
        /\ b \in Int /\ M!Percentile(values, 50) <= 100 * b
        /\ M!Percentile(values, 50) \in Int
    BY SMTT(60), <2>1, PercentileFacts
  <2> HIDE DEF n, low, b, high
  <2> QED
    BY <2>2
<1>2. limit <= b
  BY <1>1
<1>3. Cardinality(Below(values, b)) < high + 1
  <2> DEFINE k == high + 1
  <2>1. k \in Nat /\ k # 0 /\ k <= n
    BY <1>1
  <2> HIDE DEF k, high
  <2>2. Cardinality(Below(values, M!AtRank(values, k))) < k
    BY <2>1, RankFacts
  <2> QED
    BY <2>2 DEF k
<1> HIDE DEF b, high
<1>4. Cardinality(Under) \in Nat /\ Cardinality(Under) <= high
  <2>1. IsFiniteSet(Below(values, b)) /\ Cardinality(Below(values, b)) \in Nat
    BY <1>1, BelowFacts
  <2>2. Under \subseteq Below(values, b)
    <3>1. ASSUME NEW i \in I, values[i] < limit PROVE values[i] < b
      BY <1>1, <1>2, <3>1
    <3> QED
      BY <3>1 DEF Below
  <2> HIDE DEF Under
  <2>3. IsFiniteSet(Under) /\ Cardinality(Under) <= Cardinality(Below(values, b))
    BY <2>1, <2>2, FS_Subset
  <2>4. Cardinality(Under) \in Nat
    BY <2>3, FS_CardinalityType
  <2> QED
    BY <1>1, <1>3, <2>1, <2>3, <2>4
<1> HIDE DEF Under, n
<1>5. 2 * Cardinality(Under) <= n
  BY <1>1, <1>4
<1> QED
  BY <1>5 DEF Under, n

\* What is observed of a history, and what of it could be filled, are finite
\* sets of integers.
LEMMA HistoryFacts ==
    ASSUME NEW h \in Seq(M!Sample)
    PROVE  /\ IsFiniteSet(M!Successes(h)) /\ IsFiniteSet(M!Costed(h))
           /\ M!Costed(h) \subseteq M!Successes(h)
           /\ M!Spreads(h) \in [M!Successes(h) -> Int]
           /\ M!Depths(h) \in [M!Successes(h) -> Int]
           /\ M!CostsOf(h) \in [M!Costed(h) -> Int]
<1>1. M!Costed(h) \subseteq M!Successes(h) /\ M!Successes(h) \subseteq 1..Len(h)
  BY DEF M!Costed, M!Successes
<1>2. IsFiniteSet(1..Len(h))
  <2> DEFINE one == 1
             m == Len(h)
  <2>1. one \in Int /\ m \in Int
    OBVIOUS
  <2> HIDE DEF one, m
  <2>2. IsFiniteSet(one..m)
    BY <2>1, FS_Interval
  <2> QED
    BY <2>2 DEF one, m
<1>3. \A i \in M!Successes(h) : h[i].spread \in Int /\ h[i].cost \in Int /\ h[i].depth \in Int
  <2> SUFFICES ASSUME NEW i \in M!Successes(h)
               PROVE  h[i].spread \in Int /\ h[i].cost \in Int /\ h[i].depth \in Int
    OBVIOUS
  <2>1. h[i] \in M!Sample
    BY <1>1
  <2> QED
    BY <2>1 DEF M!Sample
<1> QED
  BY <1>1, <1>2, <1>3, FS_Subset DEF M!Spreads, M!Depths, M!CostsOf

\* A history inside an envelope is typically within it (classify_summary).
LEMMA InsideIsTypical ==
    ASSUME NEW h \in Seq(M!Sample), NEW envelope \in M!Envelope, M!Inside(h, envelope),
           M!Costed(h) # {}
    PROVE  /\ M!FewOf({i \in M!Costed(h) : h[i].cost > envelope.cost}, M!Costed(h))
           /\ M!FewOf({i \in M!Successes(h) : h[i].spread > envelope.spread}, M!Successes(h))
           /\ 2 * Cardinality({i \in M!Successes(h) : h[i].depth < envelope.depth})
                <= Cardinality(M!Successes(h))
<1>1. /\ envelope.cost \in Int /\ envelope.spread \in Int /\ envelope.depth \in Int
  BY DEF M!Envelope
<1>2. M!Successes(h) # {}
  BY HistoryFacts
<1>3. {i \in M!Costed(h) : M!CostsOf(h)[i] > envelope.cost}
        = {i \in M!Costed(h) : h[i].cost > envelope.cost}
  BY DEF M!CostsOf
<1>4. {i \in M!Successes(h) : M!Spreads(h)[i] > envelope.spread}
        = {i \in M!Successes(h) : h[i].spread > envelope.spread}
  BY DEF M!Spreads
<1>5. {i \in M!Successes(h) : M!Depths(h)[i] < envelope.depth}
        = {i \in M!Successes(h) : h[i].depth < envelope.depth}
  BY DEF M!Depths
<1>6. M!FewOf({i \in M!Costed(h) : M!CostsOf(h)[i] > envelope.cost}, M!Costed(h))
  <2> DEFINE limit == envelope.cost
             I == M!Costed(h)
             values == M!CostsOf(h)
  <2>1. /\ limit \in Int /\ IsFiniteSet(I) /\ I # {} /\ values \in [I -> Int]
        /\ M!Percentile(values, 90) <= 100 * limit
    BY <1>1, HistoryFacts DEF M!Inside
  <2> HIDE DEF limit, I, values
  <2>2. M!FewOf({i \in I : values[i] > limit}, I)
    BY <2>1, FewBeyond
  <2> QED
    BY <2>2 DEF limit, I, values
<1>7. M!FewOf({i \in M!Successes(h) : M!Spreads(h)[i] > envelope.spread}, M!Successes(h))
  <2> DEFINE limit == envelope.spread
             I == M!Successes(h)
             values == M!Spreads(h)
  <2>1. /\ limit \in Int /\ IsFiniteSet(I) /\ I # {} /\ values \in [I -> Int]
        /\ M!Percentile(values, 90) <= 100 * limit
    BY <1>1, <1>2, HistoryFacts DEF M!Inside
  <2> HIDE DEF limit, I, values
  <2>2. M!FewOf({i \in I : values[i] > limit}, I)
    BY <2>1, FewBeyond
  <2> QED
    BY <2>2 DEF limit, I, values
<1>8. 2 * Cardinality({i \in M!Successes(h) : M!Depths(h)[i] < envelope.depth})
        <= Cardinality(M!Successes(h))
  <2> DEFINE limit == envelope.depth
             I == M!Successes(h)
             values == M!Depths(h)
  <2>1. /\ limit \in Int /\ IsFiniteSet(I) /\ I # {} /\ values \in [I -> Int]
        /\ M!Percentile(values, 50) >= 100 * limit
    BY <1>1, <1>2, HistoryFacts DEF M!Inside
  <2> HIDE DEF limit, I, values
  <2>2. 2 * Cardinality({i \in I : values[i] < limit}) <= Cardinality(I)
    BY <2>1, HalfUnder
  <2> QED
    BY <2>2 DEF limit, I, values
<1> QED
  BY <1>3, <1>4, <1>5, <1>6, <1>7, <1>8

\* So a grade is given on what is typical (classify_summary).
LEMMA GradeIsTypical ==
    ASSUME samples \in Seq(M!Sample), suitability = M!Classify(samples), M!MeasureAssumption
    PROVE  M!AdmittedOnTypicalCost
<1> SUFFICES ASSUME suitability \in {"SUITABLE", "MARGINAL"}
             PROVE  M!AdmittedOnTypicalCost
  BY DEF M!AdmittedOnTypicalCost
<1> DEFINE envelope == IF suitability = "SUITABLE" THEN Suitable ELSE Marginal
<1>1. M!Sufficient(samples) /\ M!Costed(samples) # {}
  BY DEF M!Classify
<1>2. M!Inside(samples, envelope) /\ envelope \in M!Envelope
  BY DEF M!Classify, M!MeasureAssumption
<1> HIDE DEF envelope
<1>3. /\ M!FewOf({i \in M!Costed(samples) : samples[i].cost > envelope.cost},
                 M!Costed(samples))
      /\ M!FewOf({i \in M!Successes(samples) : samples[i].spread > envelope.spread},
                 M!Successes(samples))
      /\ 2 * Cardinality({i \in M!Successes(samples) : samples[i].depth < envelope.depth})
                <= Cardinality(M!Successes(samples))
  BY <1>1, <1>2, InsideIsTypical
<1>4. M!Cardinality(M!Successes(samples)) >= MinSamples
  BY <1>1 DEF M!Sufficient
<1>5. M!Cardinality(M!Successes(samples)) = Cardinality(M!Successes(samples))
      /\ M!Cardinality({i \in M!Successes(samples) : samples[i].depth < envelope.depth})
       = Cardinality({i \in M!Successes(samples) : samples[i].depth < envelope.depth})
  BY DEF M!Cardinality, Cardinality
<1> QED
  BY <1>3, <1>4, <1>5 DEF M!AdmittedOnTypicalCost, envelope

\* A total runs through the numbers it adds.
LEMMA TotalFacts ==
    ASSUME NEW m \in Nat, NEW f \in [1..m -> Int]
    PROVE  \E g \in [0..m -> Int] :
              /\ g[0] = 0 /\ M!Total(f, m) = g[m]
              /\ \A n \in 1..m : g[n] = g[n - 1] + f[n]
<1> DEFINE none == 0
           steps == [n \in 1..m |-> [v \in Int |-> v + f[n]]]
           sum == CHOOSE g : g = [n \in 0..m |-> IF n = 0 THEN 0 ELSE g[n - 1] + f[n]]
<1>1. steps \in [1..m -> [Int -> Int]] /\ none \in Int
  OBVIOUS
<1>2. PICK g \in [0..m -> Int] : Follows(g, none, steps, m)
  <2> HIDE DEF steps, none
  <2> QED
    BY <1>1, StepsLead
<1>3. ASSUME NEW n \in 0..m PROVE g[n] = IF n = 0 THEN 0 ELSE g[n - 1] + f[n]
  <2>1. CASE n = 0
    BY <1>2, <2>1 DEF Follows
  <2>2. CASE n # 0
    <3>1. n \in 1..m /\ n - 1 \in 0..m
      BY <2>2
    <3>2. g[n - 1] \in Int
      BY <1>2, <3>1
    <3>3. g[n] = steps[n][g[n - 1]]
      BY <1>2, <2>2 DEF Follows
    <3> QED
      BY <2>2, <3>1, <3>2, <3>3
  <2> QED
    BY <2>1, <2>2
<1>4. g = [n \in 0..m |-> IF n = 0 THEN 0 ELSE g[n - 1] + f[n]]
  BY <1>2, <1>3
<1>5. sum = [n \in 0..m |-> IF n = 0 THEN 0 ELSE sum[n - 1] + f[n]]
  BY <1>4
<1>6. M!Total(f, m) = sum[m]
  BY DEF M!Total
<1> HIDE DEF sum
<1> DEFINE S == {n \in Nat : n <= m => sum[n] = g[n]}
<1>7. 0 \in S
  BY <1>4, <1>5
<1>8. ASSUME NEW n \in Nat, n \in S PROVE n + 1 \in S
  <2> SUFFICES ASSUME n + 1 <= m PROVE sum[n + 1] = g[n + 1]
    OBVIOUS
  <2>1. n + 1 \in 0..m /\ n + 1 # 0 /\ (n + 1) - 1 = n /\ sum[n] = g[n]
    BY <1>8
  <2>2. sum[n + 1] = sum[n] + f[n + 1]
    BY <1>5, <2>1
  <2>3. g[n + 1] = g[n] + f[n + 1]
    BY <1>4, <2>1
  <2> QED
    BY <2>1, <2>2, <2>3
<1> HIDE DEF S
<1>9. Nat \subseteq S
  BY <1>7, <1>8, NatInduct
<1>10. sum[m] = g[m]
  BY <1>9 DEF S
<1>11. g[0] = 0 /\ \A n \in 1..m : g[n] = g[n - 1] + f[n]
  BY <1>3
<1> QED
  BY <1>2, <1>6, <1>10, <1>11

\* What one unit of money takes of a level.
Rate(level) == Scale \div level[1]

\* A rate is positive and the smaller the price is, the larger it is.
LEMMA RateFacts ==
    ASSUME NEW a \in M!Levels, NEW b \in M!Levels, Scale \in M!Positive,
           Scale % a[1] = 0
    PROVE  /\ Rate(a) \in Nat /\ Rate(a) >= 1 /\ Rate(b) \in Nat
           /\ a[1] >= b[1] => Rate(a) <= Rate(b)
<1> DEFINE p == a[1]
           q == b[1]
           x == Scale \div p
           y == Scale \div q
<1>1. Scale \in Nat /\ Scale >= 1 /\ p \in Nat /\ p >= 1 /\ q \in Nat /\ q >= 1
  BY DEF M!Levels, M!Positive
<1>2. Scale % p = 0
  OBVIOUS
<1>3. Rate(a) = x /\ Rate(b) = y
  BY DEF Rate
<1> HIDE DEF p, q
<1>4. x \in Nat /\ p * x = Scale
  BY <1>1, <1>2
<1>5. y \in Nat /\ q * y <= Scale /\ Scale < q * (y + 1)
  BY <1>1
<1> HIDE DEF x, y
<1>6. x >= 1
  <2>1. ASSUME x = 0 PROVE FALSE
    BY <1>1, <1>4, <2>1
  <2> QED
    BY <1>4, <2>1
<1>7. ASSUME p >= q, x > y PROVE FALSE
  <2>1. q * (y + 1) <= q * x
    BY <1>1, <1>4, <1>5, <1>7
  <2>2. q * x <= p * x
    BY <1>1, <1>4, <1>7
  <2>3. q * x \in Int /\ q * (y + 1) \in Int /\ p * x \in Int
    BY <1>1, <1>4, <1>5
  <2> QED
    BY <1>1, <1>4, <1>5, <2>1, <2>2, <2>3
<1> QED
  BY <1>3, <1>4, <1>5, <1>6, <1>7 DEF p, q

\* What a level holds, and what it gives.
Held(level) == level[1] * level[2]
TakenBy(fill, level) == IF fill.left <= 0 THEN 0 ELSE M!Smaller(fill.left, Held(level))
Fills == [left : Nat, spent : Nat, base : Nat]
Sided(side) ==
    side \in Seq(M!Levels) /\ \A i \in 1..Len(side) : Scale % side[i][1] = 0

\* A level moves what it gives from what is left to what is spent.
LEMMA FillingMoves ==
    ASSUME NEW fill \in Fills, NEW level \in M!Levels, Scale \in M!Positive,
           Scale % level[1] = 0
    PROVE  LET taken == TakenBy(fill, level) after == M!Filled(fill, level)
           IN /\ taken \in Nat /\ taken <= fill.left /\ taken <= Held(level)
              /\ Held(level) \in Nat
              /\ taken = fill.left \/ taken = Held(level)
              /\ after \in Fills
              /\ after.left = fill.left - taken /\ after.spent = fill.spent + taken
              /\ after.base = fill.base + taken * Rate(level)
<1> DEFINE taken == TakenBy(fill, level)
           after == M!Filled(fill, level)
           rate == Rate(level)
           held == Held(level)
<1>1. fill.left \in Nat /\ fill.spent \in Nat /\ fill.base \in Nat
      /\ fill = [left |-> fill.left, spent |-> fill.spent, base |-> fill.base]
  BY DEF Fills
<1>2. held \in Nat
  <2>1. level[1] \in Nat /\ level[2] \in Nat
    BY DEF M!Levels, M!Positive
  <2> QED
    BY <2>1 DEF Held
<1>3. rate \in Nat
  BY RateFacts
<1>4. CASE fill.left <= 0
  <2>1. taken = 0 /\ after = fill
    BY <1>4 DEF TakenBy, M!Filled
  <2>2. 0 * rate = 0
    BY <1>3
  <2> HIDE DEF taken, after, rate, held
  <2>3. /\ taken \in Nat /\ taken <= fill.left /\ taken <= held /\ held \in Nat
        /\ taken = fill.left \/ taken = held
        /\ after \in Fills
        /\ after.left = fill.left - taken /\ after.spent = fill.spent + taken
        /\ after.base = fill.base + taken * rate
    BY <1>1, <1>2, <1>4, <2>1, <2>2
  <2> QED
    BY <2>3 DEF taken, after, rate, held
<1>5. CASE ~(fill.left <= 0)
  <2>1. taken = IF fill.left < held THEN fill.left ELSE held
    BY <1>5 DEF TakenBy, M!Smaller
  <2>2. after = [left |-> fill.left - taken, spent |-> fill.spent + taken,
                 base |-> fill.base + taken * rate]
    BY <1>5, <2>1 DEF M!Filled, M!Smaller, Rate, Held
  <2> HIDE DEF taken, after, rate, held
  <2>3. taken \in Nat /\ taken <= fill.left /\ taken <= held
        /\ (taken = fill.left \/ taken = held)
    BY <1>1, <1>2, <2>1
  <2>4. taken * rate \in Nat
    BY <1>3, <2>3
  <2>5. fill.left - taken \in Nat /\ fill.spent + taken \in Nat
        /\ fill.base + taken * rate \in Nat
    BY <1>1, <2>3, <2>4
  <2>6. after \in Fills
    BY <2>2, <2>5 DEF Fills
  <2>7. /\ taken \in Nat /\ taken <= fill.left /\ taken <= held /\ held \in Nat
        /\ taken = fill.left \/ taken = held
        /\ after \in Fills
        /\ after.left = fill.left - taken /\ after.spent = fill.spent + taken
        /\ after.base = fill.base + taken * rate
    BY <1>2, <2>2, <2>3, <2>6
  <2> QED
    BY <2>7 DEF taken, after, rate, held
<1> QED
  BY <1>4, <1>5

\* The walk runs through the levels (_vwap_for_notional).
LEMMA WalkRuns ==
    ASSUME NEW side, Sided(side), NEW money \in Nat, Scale \in M!Positive
    PROVE  \E g \in [0..Len(side) -> Fills] :
              /\ g[0] = M!Unfilled(money) /\ M!Walk(side, money) = g[Len(side)]
              /\ \A n \in 1..Len(side) : g[n] = M!Filled(g[n - 1], side[n])
<1> DEFINE m == Len(side)
           start == M!Unfilled(money)
           steps == [n \in 1..m |-> [fill \in Fills |-> M!Filled(fill, side[n])]]
           fills == CHOOSE g : g = [n \in 0..Len(side) |->
                      IF n = 0 THEN M!Unfilled(money) ELSE M!Filled(g[n - 1], side[n])]
<1>1. m \in Nat
  BY DEF Sided
<1>2. start \in Fills
  BY DEF M!Unfilled, Fills
<1>3. ASSUME NEW n \in 1..m, NEW fill \in Fills PROVE M!Filled(fill, side[n]) \in Fills
  <2> DEFINE level == side[n]
  <2>1. level \in M!Levels /\ Scale % level[1] = 0
    BY DEF Sided
  <2> HIDE DEF level
  <2>2. M!Filled(fill, level) \in Fills
    BY <2>1, FillingMoves
  <2> QED
    BY <2>2 DEF level
<1>4. steps \in [1..m -> [Fills -> Fills]]
  BY <1>3
<1>5. PICK g \in [0..m -> Fills] : Follows(g, start, steps, m)
  <2> HIDE DEF m, steps, start
  <2> QED
    BY <1>1, <1>2, <1>4, StepsLead
<1>6. ASSUME NEW n \in 0..m
      PROVE  g[n] = IF n = 0 THEN M!Unfilled(money) ELSE M!Filled(g[n - 1], side[n])
  <2>1. CASE n = 0
    BY <1>5, <2>1 DEF Follows
  <2>2. CASE n # 0
    <3>1. n \in 1..m /\ n - 1 \in 0..m
      BY <1>1, <2>2
    <3>2. g[n - 1] \in Fills
      BY <1>5, <3>1
    <3>3. g[n] = steps[n][g[n - 1]]
      BY <1>5, <2>2 DEF Follows
    <3> QED
      BY <2>2, <3>1, <3>2, <3>3
  <2> QED
    BY <2>1, <2>2
<1>7. g = [n \in 0..Len(side) |->
              IF n = 0 THEN M!Unfilled(money) ELSE M!Filled(g[n - 1], side[n])]
  BY <1>5, <1>6
<1>8. fills = [n \in 0..Len(side) |->
              IF n = 0 THEN M!Unfilled(money) ELSE M!Filled(fills[n - 1], side[n])]
  BY <1>7
<1>9. M!Walk(side, money) = fills[m]
  BY DEF M!Walk
<1> HIDE DEF fills
<1> DEFINE S == {n \in Nat : n <= m => fills[n] = g[n]}
<1>10. 0 \in S
  BY <1>1, <1>7, <1>8
<1>11. ASSUME NEW n \in Nat, n \in S PROVE n + 1 \in S
  <2> SUFFICES ASSUME n + 1 <= m PROVE fills[n + 1] = g[n + 1]
    OBVIOUS
  <2>1. n + 1 \in 0..Len(side) /\ n + 1 # 0 /\ (n + 1) - 1 = n /\ fills[n] = g[n]
    BY <1>1, <1>11
  <2>2. fills[n + 1] = M!Filled(fills[n], side[n + 1])
    BY <1>8, <2>1
  <2>3. g[n + 1] = M!Filled(g[n], side[n + 1])
    BY <1>7, <2>1
  <2> QED
    BY <2>1, <2>2, <2>3
<1> HIDE DEF S
<1>12. Nat \subseteq S
  BY <1>10, <1>11, NatInduct
<1>13. fills[m] = g[m]
  BY <1>1, <1>12 DEF S
<1>14. g[0] = M!Unfilled(money) /\ \A n \in 1..Len(side) : g[n] = M!Filled(g[n - 1], side[n])
  BY <1>1, <1>6
<1> QED
  BY <1>5, <1>9, <1>13, <1>14

\* What the walk keeps at every level: no money is lost, and what it took costs
\* at least a unit each.
LEMMA WalkKeeps ==
    ASSUME NEW side, Sided(side), NEW money \in Nat, Scale \in M!Positive,
           NEW g \in [0..Len(side) -> Fills], g[0] = M!Unfilled(money),
           \A n \in 1..Len(side) : g[n] = M!Filled(g[n - 1], side[n])
    PROVE  \A n \in 0..Len(side) :
              g[n].left + g[n].spent = money /\ g[n].base >= g[n].spent
<1> DEFINE m == Len(side)
           S == {n \in Nat : n <= m =>
                    g[n].left + g[n].spent = money /\ g[n].base >= g[n].spent}
<1>1. m \in Nat
  BY DEF Sided
<1>2. 0 \in S
  <2>1. g[0].left = money /\ g[0].spent = 0 /\ g[0].base = 0
    BY DEF M!Unfilled
  <2> QED
    BY <2>1
<1>3. ASSUME NEW n \in Nat, n \in S PROVE n + 1 \in S
  <2> SUFFICES ASSUME n + 1 <= m
               PROVE  /\ g[n + 1].left + g[n + 1].spent = money
                      /\ g[n + 1].base >= g[n + 1].spent
    OBVIOUS
  <2> DEFINE fill == g[n]
             after == g[n + 1]
             level == side[n + 1]
             taken == TakenBy(fill, level)
             rate == Rate(level)
  <2>1. n + 1 \in 1..m /\ (n + 1) - 1 = n /\ n \in 0..m
    BY <1>1
  <2>2. fill \in Fills /\ level \in M!Levels /\ Scale % level[1] = 0
        /\ after = M!Filled(fill, level)
    BY <2>1 DEF Sided
  <2>3. fill.left + fill.spent = money /\ fill.base >= fill.spent
    BY <1>1, <1>3, <2>1
  <2> HIDE DEF fill, after, level
  <2>4. taken \in Nat /\ after.left = fill.left - taken /\ after.spent = fill.spent + taken
        /\ after.base = fill.base + taken * rate
    BY <2>2, FillingMoves
  <2>5. rate \in Nat /\ rate >= 1
    BY <2>2, RateFacts
  <2>6. fill.left \in Nat /\ fill.spent \in Nat /\ fill.base \in Nat
    BY <2>2 DEF Fills
  <2> HIDE DEF taken, rate
  <2>7. taken * rate >= taken /\ taken * rate \in Nat
    <3>1. taken * rate >= taken * 1
      BY <2>4, <2>5
    <3> QED
      BY <2>4, <2>5, <3>1
  <2>8. after.left + after.spent = money /\ after.base >= after.spent
    BY SMTT(60), <2>3, <2>4, <2>6, <2>7
  <2> QED
    BY <2>8 DEF after
<1> HIDE DEF S
<1>4. Nat \subseteq S
  BY <1>2, <1>3, NatInduct
<1> QED
  BY <1>1, <1>4 DEF S

\* A level that takes more of the money at no more than a later rate.
LEMMA Exchanged ==
    ASSUME NEW s \in Int, s = 1 \/ s = -1, NEW base \in Int, NEW u \in Int,
           NEW more \in Int, NEW taken \in Int, NEW w \in Int, NEW c \in Int, NEW d \in Int,
           s * base <= s * u + more * (s * c), more + taken - w >= 0, s * c <= d
    PROVE  s * (base + taken * c) <= s * (u + w * c) + (more + taken - w) * d
<1> DEFINE e == s * c
           x == s * base
           y == s * u
           ahead == more + taken - w
<1>1. e \in Int /\ x \in Int /\ y \in Int /\ ahead \in Nat
  BY DEF e
<1>2. s * (base + taken * c) = x + taken * e
  <2>1. CASE s = 1
    BY <2>1
  <2>2. CASE s = -1
    BY <2>2
  <2> QED
    BY <2>1, <2>2
<1>3. s * (u + w * c) = y + w * e
  <2>1. CASE s = 1
    BY <2>1
  <2>2. CASE s = -1
    BY <2>2
  <2> QED
    BY <2>1, <2>2
<1>4. x <= y + more * e /\ e <= d
  OBVIOUS
<1> HIDE DEF e, x, y
<1>5. more * e + taken * e = w * e + ahead * e
  BY <1>1
<1>6. ahead * e <= ahead * d
  <2> HIDE DEF ahead
  <2> QED
    BY <1>1, <1>4
<1>7. /\ more * e \in Int /\ taken * e \in Int /\ w * e \in Int /\ ahead * e \in Int
      /\ ahead * d \in Int
  BY <1>1
<1> HIDE DEF ahead
<1>8. x + taken * e <= y + w * e + ahead * d
  BY <1>1, <1>4, <1>5, <1>6, <1>7
<1> QED
  BY <1>2, <1>3, <1>8 DEF ahead

\* No prefix of a way to take the money takes more than all of it.
LEMMA PrefixesTakeLess ==
    ASSUME NEW m \in Nat, NEW money \in Nat, NEW w \in [1..m -> 0..money],
           NEW t \in [0..m -> Int], t[m] = money, \A n \in 1..m : t[n] = t[n - 1] + w[n]
    PROVE  \A n \in 0..m : t[n] <= money
<1> DEFINE S == {k \in Nat : k <= m => t[m - k] <= money}
<1>1. 0 \in S
  OBVIOUS
<1>2. ASSUME NEW k \in Nat, k \in S PROVE k + 1 \in S
  <2> SUFFICES ASSUME k + 1 <= m PROVE t[m - (k + 1)] <= money
    OBVIOUS
  <2> DEFINE n == m - k
  <2>1. n \in 1..m /\ n - 1 = m - (k + 1) /\ n - 1 \in 0..m /\ n \in 0..m
    OBVIOUS
  <2>2. t[n] <= money
    BY <1>2
  <2> HIDE DEF n
  <2>3. t[n] = t[n - 1] + w[n] /\ w[n] \in Nat /\ t[n - 1] \in Int
    BY <2>1
  <2>4. t[n - 1] <= money
    BY <2>2, <2>3
  <2> QED
    BY <2>1, <2>4
<1> HIDE DEF S
<1>3. Nat \subseteq S
  BY <1>1, <1>2, NatInduct
<1>4. ASSUME NEW n \in 0..m PROVE t[n] <= money
  <2>1. m - n \in Nat /\ m - n <= m /\ m - (m - n) = n
    OBVIOUS
  <2> QED
    BY <1>3, <2>1 DEF S
<1> QED
  BY <1>4

\* The money can be taken this way.
Way(side, money, w) ==
    /\ w \in [1..Len(side) -> 0..money] /\ M!Total(w, Len(side)) = money
    /\ \A i \in 1..Len(side) : w[i] <= Held(side[i])

\* Whatever way there is, the walk fills the money, and no way does better where
\* the rates, turned by s, only grow (_vwap_for_notional).
LEMMA WalkBeats ==
    ASSUME NEW side, Sided(side), NEW money \in Nat, Scale \in M!Positive,
           NEW w, Way(side, money, w), NEW s \in Int, s = 1 \/ s = -1,
           \A i, j \in 1..Len(side) : i < j => s * Rate(side[i]) <= s * Rate(side[j])
    PROVE  /\ M!Walk(side, money).left = 0
           /\ s * M!Walk(side, money).base <= s * M!BaseOf(side, w)
<1> DEFINE m == Len(side)
           costs == [i \in 1..m |-> w[i] * Rate(side[i])]
<1>1. m \in Nat
  BY DEF Sided
<1>2. ASSUME NEW i \in 1..m
      PROVE  /\ side[i] \in M!Levels /\ Scale % side[i][1] = 0
             /\ Rate(side[i]) \in Nat /\ w[i] \in Nat /\ w[i] <= money
             /\ w[i] <= Held(side[i])
  <2> DEFINE level == side[i]
  <2>1. level \in M!Levels /\ Scale % level[1] = 0
    BY DEF Sided
  <2>2. w[i] \in Nat /\ w[i] <= money /\ w[i] <= Held(side[i])
    BY DEF Way
  <2> HIDE DEF level
  <2>3. Rate(level) \in Nat
    BY <2>1, RateFacts
  <2> QED
    BY <2>1, <2>2, <2>3 DEF level
<1>3. PICK g \in [0..m -> Fills] :
          /\ g[0] = M!Unfilled(money) /\ M!Walk(side, money) = g[m]
          /\ \A n \in 1..m : g[n] = M!Filled(g[n - 1], side[n])
  BY WalkRuns
<1>4. w \in [1..m -> Int] /\ w \in [1..m -> 0..money]
  BY DEF Way
<1>5. PICK t \in [0..m -> Int] :
          /\ t[0] = 0 /\ M!Total(w, m) = t[m]
          /\ \A n \in 1..m : t[n] = t[n - 1] + w[n]
  <2> HIDE DEF m
  <2> QED
    BY <1>1, <1>4, TotalFacts
<1>6. costs \in [1..m -> Int]
  BY <1>2
<1>7. PICK u \in [0..m -> Int] :
          /\ u[0] = 0 /\ M!Total(costs, m) = u[m]
          /\ \A n \in 1..m : u[n] = u[n - 1] + costs[n]
  <2> HIDE DEF m, costs
  <2> QED
    BY <1>1, <1>6, TotalFacts
<1>8. M!BaseOf(side, w) = u[m] /\ t[m] = money
  BY <1>5, <1>7 DEF M!BaseOf, Rate, Way
<1>9. \A n \in 0..m : t[n] <= money
  <2> HIDE DEF m
  <2> QED
    BY <1>1, <1>4, <1>5, <1>8, PrefixesTakeLess
<1>10. \A n \in 0..m : g[n].left + g[n].spent = money
  BY <1>3, WalkKeeps
<1> DEFINE S == {n \in Nat : n <= m =>
                   /\ t[n] <= g[n].spent
                   /\ \A d \in Int : (n = 0 \/ s * Rate(side[n]) <= d) =>
                        s * g[n].base <= s * u[n] + (g[n].spent - t[n]) * d}
<1>11. 0 \in S
  <2>1. g[0].spent = 0 /\ g[0].base = 0
    BY <1>3 DEF M!Unfilled
  <2>2. s * 0 = 0 /\ \A d \in Int : 0 * d = 0
    OBVIOUS
  <2> QED
    BY <1>5, <1>7, <2>1, <2>2
<1>12. ASSUME NEW n \in Nat, n \in S PROVE n + 1 \in S
  <2> SUFFICES ASSUME n + 1 <= m
               PROVE  /\ t[n + 1] <= g[n + 1].spent
                      /\ \A d \in Int : s * Rate(side[n + 1]) <= d =>
                           s * g[n + 1].base
                             <= s * u[n + 1] + (g[n + 1].spent - t[n + 1]) * d
    OBVIOUS
  <2> DEFINE next == n + 1
             fill == g[n]
             after == g[next]
             level == side[next]
             taken == TakenBy(fill, level)
             rate == Rate(level)
             held == Held(level)
             part == w[next]
             tn == t[n]
             un == u[n]
  <2>1. next \in 1..m /\ next - 1 = n /\ n \in 0..m /\ next \in 0..m
    BY <1>1
  <2>2. level \in M!Levels /\ Scale % level[1] = 0 /\ rate \in Nat
        /\ part \in Nat /\ part <= held
    BY <1>2, <2>1
  <2>3. fill \in Fills /\ after = M!Filled(fill, level)
    BY <1>3, <2>1
  <2>4. t[next] = tn + part /\ u[next] = un + part * rate /\ tn \in Int /\ un \in Int
    BY <1>5, <1>7, <2>1
  <2>5. tn <= fill.spent /\ t[next] <= money /\ fill.left + fill.spent = money
    BY <1>1, <1>9, <1>10, <1>12, <2>1
  <2>6. s * fill.base <= s * un + (fill.spent - tn) * (s * rate)
    <3>1. n = 0 \/ s * Rate(side[n]) <= s * rate
      <4>1. CASE n # 0
        <5>1. n \in 1..m /\ n < next
          BY <2>1, <4>1
        <5> QED
          BY <2>1, <5>1
      <4> QED
        BY <4>1
    <3>2. s * rate \in Int
      BY <2>2
    <3>3. \A d \in Int : (n = 0 \/ s * Rate(side[n]) <= d) =>
                        s * g[n].base <= s * u[n] + (g[n].spent - t[n]) * d
      BY <1>12, <2>1
    <3> HIDE DEF rate
    <3> QED
      BY <3>1, <3>2, <3>3
  <2> HIDE DEF fill, after, level, part, tn, un
  <2>7. /\ taken \in Nat /\ taken <= fill.left /\ held \in Nat
        /\ taken = fill.left \/ taken = held
        /\ after.spent = fill.spent + taken
        /\ after.base = fill.base + taken * rate
    BY <2>2, <2>3, FillingMoves
  <2>8. fill.left \in Nat /\ fill.spent \in Nat /\ fill.base \in Nat
    BY <2>3 DEF Fills
  <2> HIDE DEF taken, rate, held
  <2>9. tn + part <= fill.spent + taken
    BY <2>2, <2>4, <2>5, <2>7, <2>8
  <2>10. ASSUME NEW d \in Int, s * rate <= d
         PROVE  s * after.base <= s * u[next] + (after.spent - t[next]) * d
    <3> DEFINE base == fill.base
               more == fill.spent - tn
    <3>1. base \in Int /\ more \in Int /\ more + taken - part >= 0
      BY SMTT(60), <2>2, <2>4, <2>7, <2>8, <2>9
    <3>2. s * base <= s * un + more * (s * rate)
      BY <2>6
    <3>3. /\ un \in Int /\ taken \in Int /\ part \in Int /\ rate \in Int
      BY <2>2, <2>4, <2>7
    <3>4. after.spent - t[next] = more + taken - part
      BY <2>2, <2>4, <2>7, <2>8
    <3> HIDE DEF base, more
    <3>5. s * (base + taken * rate) <= s * (un + part * rate) + (more + taken - part) * d
      BY <2>10, <3>1, <3>2, <3>3, Exchanged
    <3> QED
      BY <2>4, <2>7, <3>4, <3>5 DEF base
  <2> QED
    BY <2>4, <2>7, <2>9, <2>10 DEF after, rate, level
<1> HIDE DEF S
<1>13. Nat \subseteq S
  BY <1>11, <1>12, NatInduct
<1>14. m \in 0..m /\ g[m] \in Fills
  BY <1>1, <1>3
<1>15. g[m].spent = money /\ g[m].left = 0
  <2>1. t[m] <= g[m].spent
    BY <1>1, <1>13 DEF S
  <2>2. g[m].left \in Nat /\ g[m].spent \in Nat
    BY <1>14 DEF Fills
  <2> QED
    BY <1>8, <1>10, <1>14, <2>1, <2>2
<1>16. s * g[m].base <= s * u[m]
  <2> DEFINE d == s * Rate(side[m])
  <2>1. CASE m = 0
    BY <1>3, <1>7, <2>1 DEF M!Unfilled
  <2>2. CASE m # 0
    <3>1. d \in Int
      BY <1>1, <1>2, <2>2
    <3>2. s * g[m].base <= s * u[m] + (g[m].spent - t[m]) * d
      <4>1. s * Rate(side[m]) <= d
        BY <3>1
      <4> HIDE DEF d
      <4> QED
        BY <1>1, <1>13, <3>1, <4>1 DEF S
    <3>3. g[m].spent - t[m] = 0
      BY <1>8, <1>15
    <3> HIDE DEF d
    <3>4. (g[m].spent - t[m]) * d = 0
      BY <3>1, <3>3
    <3>5. s * u[m] \in Int
      BY <1>7, <1>14
    <3> QED
      BY <3>2, <3>4, <3>5
  <2> QED
    BY <2>1, <2>2
<1> QED
  BY <1>3, <1>8, <1>15, <1>16

\* What the walk takes of each level is a way, when it fills the money.
LEMMA WalkIsAWay ==
    ASSUME NEW side, Sided(side), NEW money \in Nat, Scale \in M!Positive,
           M!Complete(M!Walk(side, money))
    PROVE  /\ \E w : Way(side, money, w)
           /\ M!Walk(side, money).spent = money
<1> DEFINE m == Len(side)
<1>1. m \in Nat
  BY DEF Sided
<1>2. PICK g \in [0..m -> Fills] :
          /\ g[0] = M!Unfilled(money) /\ M!Walk(side, money) = g[m]
          /\ \A n \in 1..m : g[n] = M!Filled(g[n - 1], side[n])
  BY WalkRuns
<1>3. \A n \in 0..m : g[n].left + g[n].spent = money
  BY <1>2, WalkKeeps
<1>4. ASSUME NEW n \in 0..m
      PROVE  g[n].left \in Nat /\ g[n].spent \in Nat /\ g[n].spent <= money
  <2>1. g[n] \in Fills
    BY <1>2
  <2>2. g[n].left \in Nat /\ g[n].spent \in Nat
    BY <2>1 DEF Fills
  <2> QED
    BY <1>3, <2>2
<1>5. g[m].spent = money
  <2>1. m \in 0..m /\ g[m].left <= 0
    BY <1>1, <1>2 DEF M!Complete
  <2>2. g[m].left \in Nat /\ g[m].spent \in Nat /\ g[m].left + g[m].spent = money
    BY <1>3, <1>4, <2>1
  <2> QED
    BY <2>1, <2>2
<1> DEFINE w == [i \in 1..m |-> g[i].spent - g[i - 1].spent]
<1>6. ASSUME NEW i \in 1..m
      PROVE  w[i] \in 0..money /\ w[i] <= Held(side[i])
  <2> DEFINE fill == g[i - 1]
             after == g[i]
             level == side[i]
             taken == TakenBy(fill, level)
  <2>1. level \in M!Levels /\ Scale % level[1] = 0 /\ i - 1 \in 0..m /\ i \in 0..m
    BY <1>1 DEF Sided
  <2>2. fill \in Fills /\ after = M!Filled(fill, level)
    BY <1>2, <2>1
  <2>3. fill.left \in Nat /\ fill.spent \in Nat /\ fill.left + fill.spent = money
    BY <1>3, <1>4, <2>1
  <2>4. w[i] = after.spent - fill.spent
    OBVIOUS
  <2> HIDE DEF fill, after, level, w
  <2>5. taken \in Nat /\ taken <= fill.left /\ taken <= Held(level)
        /\ after.spent = fill.spent + taken
    BY <2>1, <2>2, FillingMoves
  <2> HIDE DEF taken
  <2>6. w[i] = taken
    BY <2>3, <2>4, <2>5
  <2>7. taken \in 0..money
    BY <2>3, <2>5
  <2> QED
    BY <2>5, <2>6, <2>7 DEF level
<1>7. w \in [1..m -> 0..money]
  BY <1>6
<1>8. w \in [1..m -> Int]
  BY <1>7
<1>9. PICK t \in [0..m -> Int] :
          /\ t[0] = 0 /\ M!Total(w, m) = t[m]
          /\ \A n \in 1..m : t[n] = t[n - 1] + w[n]
  <2> HIDE DEF m, w
  <2> QED
    BY <1>1, <1>8, TotalFacts
<1> DEFINE S == {n \in Nat : n <= m => t[n] = g[n].spent}
<1>10. 0 \in S
  BY <1>2, <1>9 DEF M!Unfilled
<1>11. ASSUME NEW n \in Nat, n \in S PROVE n + 1 \in S
  <2> SUFFICES ASSUME n + 1 <= m PROVE t[n + 1] = g[n + 1].spent
    OBVIOUS
  <2> DEFINE next == n + 1
  <2>1. next \in 1..m /\ next - 1 = n /\ n \in 0..m /\ next \in 0..m
    BY <1>1
  <2>2. t[n] = g[n].spent /\ g[n].spent \in Nat /\ g[next].spent \in Nat
    BY <1>1, <1>4, <1>11, <2>1
  <2>3. w[next] = g[next].spent - g[n].spent
    BY <2>1
  <2>4. t[next] = t[n] + w[next]
    BY <1>9, <2>1
  <2> HIDE DEF next, w
  <2>5. t[next] = g[next].spent
    BY <2>2, <2>3, <2>4
  <2> QED
    BY <2>5 DEF next
<1> HIDE DEF S
<1>12. Nat \subseteq S
  BY <1>10, <1>11, NatInduct
<1>13. t[m] = money
  BY <1>1, <1>5, <1>12 DEF S
<1>14. \A i \in 1..m : w[i] <= Held(side[i])
  BY <1>6
<1> HIDE DEF w
<1>15. Way(side, money, w)
  BY <1>7, <1>9, <1>13, <1>14 DEF Way
<1> QED
  BY <1>2, <1>5, <1>15

\* The books are shaped as a walk needs them.
LEMMA BookFacts ==
    ASSUME M!MeasureAssumption, NEW b \in Books
    PROVE  /\ Sided(b.bids) /\ Sided(b.asks)
           /\ Scale \in M!Positive /\ Notional \in Nat /\ Notional >= 1
           /\ \A i, j \in 1..Len(b.bids) :
                i < j => 1 * Rate(b.bids[i]) <= 1 * Rate(b.bids[j])
           /\ \A i, j \in 1..Len(b.asks) :
                i < j => (-1) * Rate(b.asks[i]) <= (-1) * Rate(b.asks[j])
<1>1. /\ Sided(b.bids) /\ Sided(b.asks)
      /\ Scale \in M!Positive /\ Notional \in Nat /\ Notional >= 1
  BY DEF M!MeasureAssumption, M!Positive, Sided
<1>2. ASSUME NEW i \in 1..Len(b.bids), NEW j \in 1..Len(b.bids), i < j
      PROVE  1 * Rate(b.bids[i]) <= 1 * Rate(b.bids[j])
  <2> DEFINE x == b.bids[i]
             y == b.bids[j]
  <2>1. x \in M!Levels /\ y \in M!Levels /\ Scale % x[1] = 0
    BY <1>1 DEF Sided
  <2>2. x[1] >= y[1]
    BY <1>2 DEF M!MeasureAssumption
  <2> HIDE DEF x, y
  <2>3. Rate(x) \in Nat /\ Rate(y) \in Nat /\ Rate(x) <= Rate(y)
    BY <1>1, <2>1, <2>2, RateFacts
  <2>4. 1 * Rate(x) <= 1 * Rate(y)
    BY <2>3
  <2> QED
    BY <2>4 DEF x, y
<1>3. ASSUME NEW i \in 1..Len(b.asks), NEW j \in 1..Len(b.asks), i < j
      PROVE  (-1) * Rate(b.asks[i]) <= (-1) * Rate(b.asks[j])
  <2> DEFINE x == b.asks[i]
             y == b.asks[j]
  <2>1. x \in M!Levels /\ y \in M!Levels /\ Scale % y[1] = 0
    BY <1>1 DEF Sided
  <2>2. x[1] <= y[1]
    BY <1>3 DEF M!MeasureAssumption
  <2>3. x[1] \in Int /\ y[1] \in Int
    BY <2>1 DEF M!Levels, M!Positive
  <2>4. y[1] >= x[1]
    BY <2>2, <2>3
  <2> HIDE DEF x, y
  <2>5. Rate(x) \in Nat /\ Rate(y) \in Nat /\ Rate(y) <= Rate(x)
    BY <1>1, <2>1, <2>4, RateFacts
  <2>6. (-1) * Rate(x) <= (-1) * Rate(y)
    BY <2>5
  <2> QED
    BY <2>6 DEF x, y
<1> QED
  BY <1>1, <1>2, <1>3

\* The walk is complete when there is a way, and takes the best one.
LEMMA WalkIsTheBest ==
    ASSUME M!MeasureAssumption, book \in Books
    PROVE  M!WalkIsBest
<1>1. /\ Sided(book.bids) /\ Sided(book.asks)
      /\ Scale \in M!Positive /\ Notional \in Nat /\ Notional >= 1
      /\ \A i, j \in 1..Len(book.bids) :
            i < j => 1 * Rate(book.bids[i]) <= 1 * Rate(book.bids[j])
      /\ \A i, j \in 1..Len(book.asks) :
            i < j => (-1) * Rate(book.asks[i]) <= (-1) * Rate(book.asks[j])
  BY BookFacts
<1>2. ASSUME NEW side, NEW w
      PROVE  w \in M!WaysToTake(side, Notional) <=> Way(side, Notional, w)
  BY DEF M!WaysToTake, Way, Held
<1>3. ASSUME NEW side, Sided(side), NEW w, Way(side, Notional, w)
      PROVE  M!Walk(side, Notional).base \in Int /\ M!BaseOf(side, w) \in Int
  <2> DEFINE m == Len(side)
             costs == [i \in 1..m |-> w[i] * Rate(side[i])]
  <2>1. m \in Nat /\ m \in 0..m
    BY <1>3 DEF Sided
  <2>2. PICK g \in [0..m -> Fills] : M!Walk(side, Notional) = g[m]
    BY <1>1, <1>3, WalkRuns
  <2>3. M!Walk(side, Notional).base \in Int
    <3>1. g[m] \in Fills
      BY <2>1, <2>2
    <3> QED
      BY <2>2, <3>1 DEF Fills
  <2>4. costs \in [1..m -> Int]
    <3>1. ASSUME NEW i \in 1..m PROVE w[i] * Rate(side[i]) \in Int
      <4> DEFINE level == side[i]
      <4>1. level \in M!Levels /\ Scale % level[1] = 0
        BY <1>3 DEF Sided
      <4>2. w[i] \in Int
        BY <1>1, <1>3 DEF Way
      <4> HIDE DEF level
      <4>3. Rate(level) \in Int
        BY <1>1, <4>1, RateFacts
      <4> QED
        BY <4>2, <4>3 DEF level
    <3> QED
      BY <3>1
  <2>5. M!BaseOf(side, w) = M!Total(costs, m)
    BY DEF M!BaseOf, Rate
  <2>6. M!Total(costs, m) \in Int
    <3> HIDE DEF m, costs
    <3>1. PICK u \in [0..m -> Int] : M!Total(costs, m) = u[m]
      BY <2>1, <2>4, TotalFacts
    <3> QED
      BY <2>1, <3>1
  <2> QED
    BY <2>3, <2>5, <2>6
<1>4. ASSUME NEW w, Way(book.bids, Notional, w)
      PROVE  /\ M!Walk(book.bids, Notional).left = 0
             /\ M!Walk(book.bids, Notional).base <= M!BaseOf(book.bids, w)
  <2> DEFINE side == book.bids
             s == 1
  <2>1. /\ s \in Int /\ (s = 1 \/ s = -1) /\ Sided(side) /\ Way(side, Notional, w)
        /\ \A i, j \in 1..Len(side) : i < j => s * Rate(side[i]) <= s * Rate(side[j])
    BY <1>1, <1>4
  <2> HIDE DEF s, side
  <2>2. /\ M!Walk(side, Notional).left = 0
        /\ s * M!Walk(side, Notional).base <= s * M!BaseOf(side, w)
    BY <1>1, <2>1, WalkBeats
  <2>3. M!Walk(side, Notional).base \in Int /\ M!BaseOf(side, w) \in Int
    BY <1>3, <2>1
  <2>4. M!Walk(side, Notional).base <= M!BaseOf(side, w)
    BY <2>2, <2>3 DEF s
  <2> QED
    BY <2>2, <2>4 DEF side
<1>5. ASSUME NEW w, Way(book.asks, Notional, w)
      PROVE  /\ M!Walk(book.asks, Notional).left = 0
             /\ M!Walk(book.asks, Notional).base >= M!BaseOf(book.asks, w)
  <2> DEFINE side == book.asks
             s == -1
  <2>1. /\ s \in Int /\ (s = 1 \/ s = -1) /\ Sided(side) /\ Way(side, Notional, w)
        /\ \A i, j \in 1..Len(side) : i < j => s * Rate(side[i]) <= s * Rate(side[j])
    BY <1>1, <1>5
  <2> HIDE DEF s, side
  <2>2. /\ M!Walk(side, Notional).left = 0
        /\ s * M!Walk(side, Notional).base <= s * M!BaseOf(side, w)
    BY <1>1, <2>1, WalkBeats
  <2>3. M!Walk(side, Notional).base \in Int /\ M!BaseOf(side, w) \in Int
    BY <1>3, <2>1
  <2>4. M!Walk(side, Notional).base >= M!BaseOf(side, w)
    BY <2>2, <2>3 DEF s
  <2> QED
    BY <2>2, <2>4 DEF side
<1>6. /\ M!Complete(M!Walk(book.bids, Notional)) =>
            /\ \E w : Way(book.bids, Notional, w)
            /\ M!Walk(book.bids, Notional).spent = Notional
      /\ M!Complete(M!Walk(book.asks, Notional)) =>
            /\ \E w : Way(book.asks, Notional, w)
            /\ M!Walk(book.asks, Notional).spent = Notional
  BY <1>1, WalkIsAWay
<1>7. /\ M!Complete(M!Walk(book.bids, Notional))
            = (M!WaysToTake(book.bids, Notional) # {})
      /\ M!Complete(M!Walk(book.asks, Notional))
            = (M!WaysToTake(book.asks, Notional) # {})
  <2>1. M!Complete(M!Walk(book.bids, Notional))
            <=> M!WaysToTake(book.bids, Notional) # {}
    BY <1>2, <1>4, <1>6 DEF M!Complete
  <2>2. M!Complete(M!Walk(book.asks, Notional))
            <=> M!WaysToTake(book.asks, Notional) # {}
    BY <1>2, <1>5, <1>6 DEF M!Complete
  <2> QED
    BY <2>1, <2>2 DEF M!Complete
<1>8. \A w \in M!WaysToTake(book.bids, Notional) :
          M!Walk(book.bids, Notional).base <= M!BaseOf(book.bids, w)
  BY <1>2, <1>4
<1>9. \A w \in M!WaysToTake(book.asks, Notional) :
          M!Walk(book.asks, Notional).base >= M!BaseOf(book.asks, w)
  BY <1>2, <1>5
<1> QED
  BY <1>6, <1>7, <1>8, <1>9 DEF M!WalkIsBest

\* What is observed of a book are numbers (measure_orderbook).
LEMMA ObservedFacts ==
    ASSUME M!MeasureAssumption, NEW b \in Books, M!Measurable(b)
    PROVE  M!Spread(b) \in Int /\ M!Cost(b) \in Int /\ M!MinDepth(b) \in Int
<1>1. Sided(b.bids) /\ Sided(b.asks) /\ Scale \in M!Positive /\ Notional \in Nat /\ Notional >= 1
  BY BookFacts
<1>2. ASSUME NEW side, Sided(side), side # <<>>
      PROVE  /\ 1 \in 1..Len(side) /\ side[1] \in M!Levels
             /\ side[1][1] \in Nat /\ side[1][1] >= 1
  <2>1. side \in Seq(M!Levels) /\ 1 \in 1..Len(side)
    BY <1>2 DEF Sided
  <2>2. side[1] \in M!Levels
    BY <2>1
  <2> QED
    BY <2>1, <2>2 DEF M!Levels, M!Positive
<1>3. b.bids # <<>> /\ b.asks # <<>>
  BY DEF M!Measurable
<1>4. M!Spread(b) \in Int
  <2> DEFINE ask == b.asks[1][1]
             bid == b.bids[1][1]
  <2>1. ask \in Nat /\ ask >= 1 /\ bid \in Nat /\ bid >= 1
    BY <1>1, <1>2, <1>3
  <2>2. M!Spread(b) = ((ask - bid) * 20000) \div (ask + bid)
    BY DEF M!Spread
  <2> HIDE DEF ask, bid
  <2>3. (ask - bid) * 20000 \in Int /\ ask + bid \in Nat /\ ask + bid > 0
    BY <2>1
  <2> QED
    BY <2>2, <2>3
<1>5. ASSUME NEW side, Sided(side), side # <<>>, M!Complete(M!Walk(side, Notional))
      PROVE  M!Slippage(side, Notional) \in Int
  <2> DEFINE m == Len(side)
             walked == M!Walk(side, Notional)
             best == side[1][1]
             atBest == best * walked.base
             atPaid == walked.spent * Scale
             gap == IF atBest > atPaid THEN atBest - atPaid ELSE atPaid - atBest
  <2>1. PICK g \in [0..m -> Fills] :
          /\ g[0] = M!Unfilled(Notional) /\ walked = g[m]
          /\ \A n \in 1..m : g[n] = M!Filled(g[n - 1], side[n])
    BY <1>1, <1>5, WalkRuns
  <2>2. m \in 0..m
    BY <1>5 DEF Sided
  <2>3. walked \in Fills
    BY <2>1, <2>2
  <2>4. walked.base >= walked.spent
    <3>1. \A n \in 0..m : g[n].base >= g[n].spent
      BY <1>1, <1>5, <2>1, WalkKeeps
    <3> QED
      BY <2>1, <2>2, <3>1
  <2>5. walked.spent = Notional
    BY <1>1, <1>5, WalkIsAWay
  <2>6. best \in Nat /\ best >= 1
    BY <1>2, <1>5
  <2>7. walked.base \in Nat /\ walked.base >= 1 /\ walked.spent \in Nat /\ Scale \in Nat
    BY <1>1, <2>3, <2>4, <2>5 DEF Fills, M!Positive
  <2>8. M!Slippage(side, Notional) = (gap * 10000) \div atBest
    BY DEF M!Slippage
  <2> HIDE DEF walked, best
  <2>9. atBest \in Nat /\ atBest > 0 /\ atPaid \in Nat
    BY <2>6, <2>7
  <2> HIDE DEF atBest, atPaid
  <2>10. gap * 10000 \in Int
    BY <2>9
  <2> HIDE DEF gap
  <2> QED
    BY <2>8, <2>9, <2>10
<1>6. M!Cost(b) \in Int
  <2>1. CASE M!Complete(M!Walk(b.bids, Notional)) /\ M!Complete(M!Walk(b.asks, Notional))
    <3>1. M!Slippage(b.bids, Notional) \in Int /\ M!Slippage(b.asks, Notional) \in Int
      BY <1>1, <1>3, <1>5, <2>1
    <3> QED
      BY <1>4, <2>1, <3>1 DEF M!Cost
  <2>2. CASE ~(M!Complete(M!Walk(b.bids, Notional)) /\ M!Complete(M!Walk(b.asks, Notional)))
    BY <2>2 DEF M!Cost, M!None
  <2> QED
    BY <2>1, <2>2
<1>7. ASSUME NEW side, Sided(side), NEW direction PROVE M!Depth(side, direction) \in Int
  <2> DEFINE m == Len(side)
             held == [i \in 1..Len(side) |->
                 IF M!Within(side, side[i], direction) THEN side[i][1] * side[i][2] ELSE 0]
  <2>1. m \in Nat /\ m \in 0..m
    BY <1>7 DEF Sided
  <2>2. held \in [1..m -> Int]
    <3>1. ASSUME NEW i \in 1..m PROVE side[i][1] * side[i][2] \in Int
      <4>1. side[i] \in M!Levels
        BY <1>7 DEF Sided
      <4>2. side[i][1] \in Int /\ side[i][2] \in Int
        BY <4>1 DEF M!Levels, M!Positive
      <4> QED
        BY <4>2
    <3> QED
      BY <3>1
  <2>3. M!Depth(side, direction) = M!Total(held, m)
    BY DEF M!Depth
  <2> HIDE DEF held, m
  <2>4. PICK u \in [0..m -> Int] : M!Total(held, m) = u[m]
    BY <2>1, <2>2, TotalFacts
  <2> QED
    BY <2>1, <2>3, <2>4
<1>8. M!MinDepth(b) \in Int
  <2>1. M!Depth(b.bids, -1) \in Int /\ M!Depth(b.asks, 1) \in Int
    BY <1>1, <1>7
  <2> QED
    BY <2>1 DEF M!MinDepth, M!Smaller
<1> QED
  BY <1>4, <1>6, <1>8

\* The history is one of measurements, and the grade is the one it earns.
MeasureInv ==
    /\ book \in Books /\ samples \in Seq(M!Sample)
    /\ suitability = M!Classify(samples)

\* Without a history the grade is unknown.
LEMMA MeasureStart ==
    ASSUME M!Init PROVE MeasureInv
<1>1. M!Costed(<<>>) = {}
  BY DEF M!Costed, M!Successes
<1>2. M!Classify(<<>>) = "UNKNOWN"
  BY <1>1 DEF M!Classify
<1> QED
  BY <1>2 DEF M!Init, MeasureInv

\* Every measurement is added to the history and graded (observe, classify_summary).
LEMMA MeasureStep ==
    ASSUME MeasureInv, [M!Next]_(M!vars), M!MeasureAssumption PROVE MeasureInv'
<1>1. CASE UNCHANGED M!vars
  BY <1>1 DEF M!vars, MeasureInv
<1>2. ASSUME NEW b \in Books, M!Move(b) PROVE MeasureInv'
  BY <1>2 DEF M!Move, MeasureInv
<1>3. ASSUME NEW sample \in M!Sample, M!Store(sample) PROVE MeasureInv'
  <2>1. Append(samples, sample) \in Seq(M!Sample)
    BY DEF MeasureInv
  <2> QED
    BY <1>3, <2>1 DEF M!Store, MeasureInv
<1>4. Len(samples) \in Nat
  BY DEF MeasureInv
<1>5. CASE M!Observe
  <2> DEFINE sample == [observed |-> TRUE, spread |-> M!Spread(book), cost |-> M!Cost(book),
                        depth |-> M!MinDepth(book), at |-> Len(samples)]
  <2>1. M!Spread(book) \in Int /\ M!Cost(book) \in Int /\ M!MinDepth(book) \in Int
    BY <1>5, ObservedFacts DEF M!Observe, MeasureInv
  <2>2. sample \in M!Sample
    BY <1>4, <2>1 DEF M!Sample
  <2>3. M!Store(sample)
    BY <1>5 DEF M!Observe
  <2> HIDE DEF sample
  <2> QED
    BY <1>3, <2>2, <2>3
<1>6. CASE M!Unavailable
  <2> DEFINE sample == [observed |-> FALSE, spread |-> M!None, cost |-> M!None,
                        depth |-> M!None, at |-> Len(samples)]
  <2>1. sample \in M!Sample
    BY <1>4 DEF M!Sample, M!None
  <2>2. M!Store(sample)
    BY <1>6 DEF M!Unavailable
  <2> HIDE DEF sample
  <2> QED
    BY <1>3, <2>1, <2>2
<1> QED
  BY <1>1, <1>2, <1>5, <1>6 DEF M!Next

\* The history of every contract earns its grade, whatever its books were
\* (measure_orderbook, classify_summary).
THEOREM MeasureInvariance == OutcomesSpec => []MeasureInv
<1>1. OutcomesInit => MeasureInv
  BY MachinesStart, MeasureStart
<1>2. MeasureInv /\ [OutcomesNext]_everything => MeasureInv'
  BY OneMachineSteps, MeasureStep, OutcomesAssumption DEF OutcomesAssumption
<1> QED
  BY <1>1, <1>2, PTL DEF OutcomesSpec

\* The cost of a trade is the best the book allows, and a contract is admitted on
\* its typical costs, spreads and depths (_vwap_for_notional, _percentile_from_ordered,
\* classify_summary).
THEOREM CostsAreHonest == OutcomesSpec => []CostIsHonest
<1>1. MeasureInv => CostIsHonest
  <2>1. M!MeasureAssumption
    BY OutcomesAssumption DEF OutcomesAssumption
  <2>2. MeasureInv => M!WalkIsBest
    BY <2>1, WalkIsTheBest DEF MeasureInv
  <2>3. MeasureInv => M!AdmittedOnTypicalCost
    BY <2>1, GradeIsTypical DEF MeasureInv
  <2> QED
    BY <2>2, <2>3 DEF CostIsHonest, M!CostIsHonest
<1> QED
  BY <1>1, MeasureInvariance, PTL

-----------------------------------------------------------------------------
(* PaperTrades                                                             *)

\* Trades are numbered in the order they were opened: what is open or in the
\* table has a number that was given, and what is open is not in the table.
PaperInv ==
    /\ open \in [Traded -> Nat] /\ opened \in [Traded -> Nat]
    /\ \A s \in Traded : open[s] <= opened[s]
    /\ \A r \in table : /\ r.symbol \in Traded /\ r.trade \in Nat \ {0}
                        /\ r.trade <= opened[r.symbol]
    /\ P!CountedOnce

\* Before a pass settles its trades, each has a number of its own.
LEMMA OpensFacts ==
    ASSUME PaperInv, NEW s \in Traded, NEW ready \in BOOLEAN
    PROVE  LET running == P!Opens(s, ready) count == P!Count(running)
           IN /\ running \in [Traded -> Nat] /\ count \in [Traded -> Nat]
              /\ \A q \in Traded : running[q] <= count[q] /\ opened[q] <= count[q]
              /\ \A r \in table : running[r.symbol] # r.trade
<1> DEFINE running == P!Opens(s, ready)
           count == P!Count(running)
<1>1. ASSUME NEW q \in Traded
      PROVE  /\ open[q] \in Nat /\ opened[q] \in Nat /\ open[q] <= opened[q]
             /\ running[q] = open[q] \/ running[q] = opened[q] + 1
  BY DEF PaperInv, P!Opens, P!Started
<1>2. running \in [Traded -> Nat]
  <2>1. opened[s] + 1 \in Nat
    BY <1>1
  <2> QED
    BY <2>1 DEF PaperInv, P!Opens, P!Started
<1> HIDE DEF running
<1>3. ASSUME NEW q \in Traded
      PROVE  /\ count[q] \in Nat /\ running[q] <= count[q] /\ opened[q] <= count[q]
  BY <1>1, <1>2 DEF P!Count
<1>4. count \in [Traded -> Nat]
  BY <1>3 DEF P!Count
<1>5. ASSUME NEW r \in table PROVE running[r.symbol] # r.trade
  <2> DEFINE q == r.symbol
             n == r.trade
  <2>1. q \in Traded /\ n \in Nat /\ n <= opened[q] /\ open[q] # n
    BY DEF PaperInv, P!CountedOnce
  <2> HIDE DEF q, n
  <2>2. running[q] # n
    BY <1>1, <2>1
  <2> QED
    BY <2>2 DEF q, n
<1> HIDE DEF count
<1> QED
  BY <1>2, <1>3, <1>4, <1>5 DEF running, count

\* A pass counts what it closes once (_check_backtest_trades).
LEMMA PassKeeps ==
    ASSUME PaperInv, NEW s \in Traded, NEW ready \in BOOLEAN,
           P!Settlement(P!Opens(s, ready)), opened' = P!Count(P!Opens(s, ready))
    PROVE  PaperInv'
<1> DEFINE running == P!Opens(s, ready)
           settled == P!Settled(running)
           fresh == {[symbol |-> q, trade |-> running[q], outcome |-> P!OutcomeOf(q)] :
                        q \in settled}
<1>1. /\ running \in [Traded -> Nat] /\ opened' \in [Traded -> Nat]
      /\ \A q \in Traded : running[q] <= opened'[q] /\ opened[q] <= opened'[q]
      /\ \A r \in table : running[r.symbol] # r.trade
  BY OpensFacts
<1>2. /\ table' = table \cup fresh
      /\ open' = [q \in Traded |-> IF q \in settled THEN 0 ELSE running[q]]
  BY DEF P!Settlement
<1>3. settled \subseteq Traded /\ \A q \in settled : running[q] # 0
  BY DEF P!Settled
<1> HIDE DEF running, settled
<1>4. ASSUME NEW r \in fresh
      PROVE  r.symbol \in settled /\ r.symbol \in Traded /\ r.trade = running[r.symbol]
             /\ r.trade \in Nat \ {0} /\ r.outcome = P!OutcomeOf(r.symbol)
             /\ r = [symbol |-> r.symbol, trade |-> running[r.symbol],
                     outcome |-> P!OutcomeOf(r.symbol)]
  BY <1>1, <1>3
<1> HIDE DEF fresh
<1>5. open' \in [Traded -> Nat] /\ \A q \in Traded : open'[q] <= opened'[q]
  BY <1>1, <1>2
<1>6. ASSUME NEW r \in table'
      PROVE  /\ r.symbol \in Traded /\ r.trade \in Nat \ {0}
             /\ r.trade <= opened'[r.symbol] /\ open'[r.symbol] # r.trade
  <2>1. CASE r \in table
    <3>1. /\ r.symbol \in Traded /\ r.trade \in Nat \ {0}
          /\ r.trade <= opened[r.symbol] /\ running[r.symbol] # r.trade
      BY <1>1, <2>1 DEF PaperInv
    <3>2. opened[r.symbol] \in Nat
      BY <3>1 DEF PaperInv
    <3>3. open'[r.symbol] = 0 \/ open'[r.symbol] = running[r.symbol]
      BY <1>2, <3>1
    <3>4. opened[r.symbol] <= opened'[r.symbol] /\ opened'[r.symbol] \in Nat
      BY <1>1, <3>1
    <3> DEFINE n == r.trade
               a == opened[r.symbol]
               b == opened'[r.symbol]
    <3>5. n <= b
      <4>1. n \in Nat /\ a \in Nat /\ b \in Nat /\ n <= a /\ a <= b
        BY <3>1, <3>2, <3>4
      <4> HIDE DEF n, a, b
      <4> QED
        BY <4>1
    <3> QED
      BY <3>1, <3>3, <3>5
  <2>2. CASE r \in fresh
    BY <1>1, <1>2, <1>4, <2>2
  <2> QED
    BY <1>2, <2>1, <2>2
<1>7. ASSUME NEW r \in table', NEW q \in table', r.symbol = q.symbol, r.trade = q.trade
      PROVE  r = q
  <2>1. CASE r \in table /\ q \in table
    BY <1>7, <2>1 DEF PaperInv, P!CountedOnce
  <2>2. CASE r \in table /\ q \in fresh
    BY <1>1, <1>4, <1>7, <2>2
  <2>3. CASE r \in fresh /\ q \in table
    BY <1>1, <1>4, <1>7, <2>3
  <2>4. CASE r \in fresh /\ q \in fresh
    BY <1>4, <1>7, <2>4
  <2> QED
    BY <1>2, <2>1, <2>2, <2>3, <2>4
<1> QED
  BY <1>1, <1>5, <1>6, <1>7 DEF PaperInv, P!CountedOnce

\* No step counts a trade twice.
LEMMA PaperStep ==
    ASSUME PaperInv, [P!Next]_(P!vars) PROVE PaperInv'
<1>1. CASE UNCHANGED P!vars
  BY <1>1 DEF P!vars, PaperInv, P!CountedOnce
<1>2. CASE P!Restart
  <2>1. open' = [s \in Traded |-> 0] /\ UNCHANGED <<opened, table>>
    BY <1>2 DEF P!Restart
  <2> QED
    BY <2>1 DEF PaperInv, P!CountedOnce
<1>3. ASSUME NEW s \in Traded, P!Elapse(s) PROVE PaperInv'
  BY <1>3 DEF P!Elapse, PaperInv, P!CountedOnce
<1>4. ASSUME NEW s \in Traded, NEW p \in P!Prices, P!Move(s, p) PROVE PaperInv'
  BY <1>4 DEF P!Move, PaperInv, P!CountedOnce
<1>5. ASSUME NEW s \in Traded, NEW ready \in BOOLEAN, P!Evaluation(s, ready) PROVE PaperInv'
  BY <1>5, PassKeeps DEF P!Evaluation
<1>6. ASSUME NEW s \in Traded, NEW ready \in BOOLEAN, P!SettlementFails(s, ready)
      PROVE  PaperInv'
  <2>1. open' = P!Opens(s, ready) /\ opened' = P!Count(P!Opens(s, ready)) /\ table' = table
    BY <1>6 DEF P!SettlementFails
  <2>2. /\ open' \in [Traded -> Nat] /\ opened' \in [Traded -> Nat]
        /\ \A q \in Traded : open'[q] <= opened'[q] /\ opened[q] <= opened'[q]
        /\ \A r \in table : open'[r.symbol] # r.trade
    BY <2>1, OpensFacts
  <2>3. ASSUME NEW r \in table PROVE r.trade <= opened'[r.symbol]
    <3> DEFINE q == r.symbol
               n == r.trade
    <3>1. q \in Traded /\ n \in Nat /\ n <= opened[q] /\ opened[q] \in Nat
      BY DEF PaperInv
    <3>2. opened[q] <= opened'[q] /\ opened'[q] \in Nat
      BY <2>2, <3>1
    <3> HIDE DEF q, n
    <3>3. n <= opened'[q]
      BY <3>1, <3>2
    <3> QED
      BY <3>3 DEF q, n
  <2> QED
    BY <2>1, <2>2, <2>3 DEF PaperInv, P!CountedOnce
<1> QED
  BY <1>1, <1>2, <1>3, <1>4, <1>5, <1>6 DEF P!Next

\* A paper trade is in the table at most once and never while it is open, whatever
\* write fails and whenever the process restarts (_check_backtest_trades).
THEOREM PaperTradesCountOnce == OutcomesSpec => []P!CountedOnce
<1>1. OutcomesInit => PaperInv
  <2>1. P!Init => PaperInv
    BY DEF P!Init, PaperInv, P!CountedOnce
  <2> QED
    BY <2>1, MachinesStart
<1>2. PaperInv /\ [OutcomesNext]_everything => PaperInv'
  BY OneMachineSteps, PaperStep
<1>3. PaperInv => P!CountedOnce
  BY DEF PaperInv
<1> QED
  BY <1>1, <1>2, <1>3, PTL DEF OutcomesSpec

-----------------------------------------------------------------------------
(* DecisionOutcomes                                                        *)

\* Only captures whose stored hash matches are ever loaded.
CapturesInv ==
    /\ candles \in [Captures -> {"nothing", "gap", "window"}]
    /\ \A lane \in D!Lanes : queue[lane] \subseteq Captures \ Tampered
    /\ DOMAIN queue = D!Lanes

\* A scan loads what it verified (scan_pending_outcome_captures).
LEMMA CapturesStep ==
    ASSUME CapturesInv, [D!Next]_(D!vars) PROVE CapturesInv'
<1>1. CASE UNCHANGED D!vars
  BY <1>1 DEF D!vars, CapturesInv
<1>2. ASSUME NEW lane \in D!Lanes, D!LoadLane(lane), candles' = candles PROVE CapturesInv'
  <2> DEFINE rows == D!Rows(lane, D!LaneStart(lane))
  <2>1. rows \subseteq Captures
    BY DEF D!Rows, D!Pending
  <2>2. queue' = [queue EXCEPT ![lane] = rows \ Tampered]
    BY <1>2 DEF D!LoadLane, D!Verified
  <2> HIDE DEF rows
  <2> QED
    BY <1>2, <2>1, <2>2 DEF CapturesInv
<1>3. CASE D!LoadProvider
  BY <1>2, <1>3 DEF D!LoadProvider, D!Lanes
<1>4. CASE D!LoadLocal
  BY <1>2, <1>4 DEF D!LoadLocal, D!Lanes
<1>5. CASE D!Cycle
  BY <1>5 DEF D!Cycle, CapturesInv
<1>6. ASSUME NEW lane \in D!Lanes, NEW c \in Captures,
             queue' = [queue EXCEPT ![lane] = @ \ {c}], candles' = candles
      PROVE  CapturesInv'
  BY <1>6 DEF CapturesInv
<1>7. ASSUME NEW lane \in D!Lanes, NEW c \in Captures, D!Resolve(c, lane) PROVE CapturesInv'
  BY <1>6, <1>7 DEF D!Resolve, D!Turn
<1>8. ASSUME NEW lane \in D!Lanes, NEW c \in Captures, D!ResolveFails(c, lane)
      PROVE  CapturesInv'
  BY <1>6, <1>8 DEF D!ResolveFails, D!Turn
<1>9. ASSUME NEW c \in Captures, D!Ripen(c) PROVE CapturesInv'
  BY <1>9 DEF D!Ripen, CapturesInv
<1>10. ASSUME NEW c \in Captures, NEW answer \in {"nothing", "gap", "window"},
              D!Answers(c, answer)
       PROVE  CapturesInv'
  BY <1>10 DEF D!Answers, CapturesInv
<1>11. CASE D!ScanFails \/ D!Restart
  <2>1. queue' = D!Nothing /\ candles' = candles
    BY <1>11 DEF D!ScanFails, D!Restart
  <2> QED
    BY <2>1 DEF CapturesInv, D!Nothing
<1> QED
  BY <1>1, <1>3, <1>4, <1>5, <1>7, <1>8, <1>9, <1>10, <1>11
     DEF D!Next, D!Worker, D!Environment

\* What a step may do to the resolutions.
NoneEarly ==
    \A c \in Captures :
        resolution'[c] # resolution[c] =>
            /\ resolution[c] = "none"
            /\ c \notin Tampered
            /\ (c \in Provider /\ resolution'[c] = "UNAVAILABLE")
                    => (age[c] = "exhausted" \/ c \in terminal')

\* A step settles a loaded capture by its age or by a terminal failure of its
\* resolver (_resolve_entry_outcome, _resolve_pending_capture).
LEMMA NoStepGivesUpEarly ==
    ASSUME CapturesInv, [D!Next]_(D!vars) PROVE NoneEarly
<1>1. CASE resolution' = resolution
  BY <1>1 DEF NoneEarly
<1>2. ASSUME NEW lane \in D!Lanes, NEW c \in Captures, NEW answered,
             D!Turn(c, lane), D!AppendOnce(c, answered),
             (c \in Provider /\ answered = "UNAVAILABLE")
                 => (age[c] = "exhausted" \/ c \in terminal')
      PROVE  NoneEarly
  <2>1. c \in queue[lane] /\ c \notin Tampered
    BY <1>2 DEF D!Turn, CapturesInv
  <2>2. resolution' = [resolution EXCEPT ![c] = IF @ = "none" THEN answered ELSE @]
    BY <1>2 DEF D!AppendOnce
  <2>3. ASSUME NEW d \in Captures, resolution'[d] # resolution[d]
        PROVE  d = c /\ resolution[d] = "none" /\ resolution'[d] = answered
    BY <2>2, <2>3
  <2> QED
    BY <1>2, <2>1, <2>3 DEF NoneEarly
<1>3. ASSUME NEW lane \in D!Lanes, NEW c \in Captures, D!Resolve(c, lane)
      PROVE  NoneEarly
  <2> DEFINE answered == D!Resolver(c)
  <2>1. (c \in Provider /\ answered = "UNAVAILABLE") => age[c] = "exhausted"
    BY DEF D!Resolver, D!Fetched, D!PriorityChain
  <2>2. D!Turn(c, lane) /\ D!AppendOnce(c, answered)
    BY <1>3 DEF D!Resolve
  <2> HIDE DEF answered
  <2> QED
    BY <1>2, <2>1, <2>2
<1>4. ASSUME NEW lane \in D!Lanes, NEW c \in Captures, D!ResolveFails(c, lane),
             resolution' # resolution
      PROVE  NoneEarly
  <2>1. D!Turn(c, lane) /\ D!AppendOnce(c, "UNAVAILABLE") /\ c \in terminal'
    BY <1>4 DEF D!ResolveFails
  <2> QED
    BY <1>2, <2>1
<1>5. \/ resolution' = resolution
      \/ \E lane \in D!Lanes, c \in Captures : D!Resolve(c, lane) \/ D!ResolveFails(c, lane)
  BY DEF D!Next, D!Worker, D!Environment, D!vars, D!LoadProvider, D!LoadLocal, D!Cycle,
         D!Ripen, D!Answers, D!ScanFails, D!Restart
<1> QED
  BY <1>1, <1>3, <1>4, <1>5

\* A capture is given up only when its 72 hours are over or its resolver failed
\* for good, and a resolution once appended stays (resolve_outcome_capture).
THEOREM NoCaptureGivenUpEarly == OutcomesSpec => D!NoneGivenUpEarly
<1>1. OutcomesInit => CapturesInv
  <2>1. D!Init => CapturesInv
    BY DEF D!Init, CapturesInv, D!Nothing
  <2> QED
    BY <2>1, MachinesStart
<1>2. CapturesInv /\ [OutcomesNext]_everything => CapturesInv'
  BY OneMachineSteps, CapturesStep
<1>3. CapturesInv /\ [OutcomesNext]_everything => [NoneEarly]_(D!vars)
  BY OneMachineSteps, NoStepGivesUpEarly
<1>4. OutcomesSpec => [][NoneEarly]_(D!vars)
  BY <1>1, <1>2, <1>3, PTL DEF OutcomesSpec
<1>5. [][NoneEarly]_(D!vars) => D!NoneGivenUpEarly
  BY DEF D!NoneGivenUpEarly, NoneEarly
<1> QED
  BY <1>4, <1>5

=============================================================================
