--------------------------- MODULE EvidenceProofs ---------------------------
(***************************************************************************)
(* Theorems about Evidence, for every value of the constants that its      *)
(* assumption admits: however many candidates, symbols and faults there    *)
(* are.  A step of the whole is a step of one of its machines, or leaves   *)
(* that machine as it is.                                                  *)
(***************************************************************************)
EXTENDS Evidence, WellFoundedInduction, TLAPS

\* Every step is a step of each machine or leaves it as it is.
LEMMA OneMachineSteps ==
    ASSUME [EvidenceNext]_evidence
    PROVE  /\ [G!Next]_(G!vars)
           /\ [D!Next]_(D!vars)
           /\ [L!Next]_(L!vars)
           /\ [C!Next]_(C!vars)
<1> USE DEF EvidenceNext, evidence, GenerationsStep, StreamsStep
<1>1. [G!Next]_(G!vars)
  BY DEF G!vars, generations
<1>2. [D!Next]_(D!vars)
  BY DEF D!vars, streams
<1>3. [L!Next]_(L!vars)
  BY DEF L!vars, L!perSymbol, L!allMarket, liquidations
<1>4. [C!Next]_(C!vars)
  BY DEF C!vars, caches
<1> QED
  BY <1>1, <1>2, <1>3, <1>4

\* Every machine starts as it does alone.
LEMMA MachinesStart == EvidenceInit => G!Init /\ D!Init /\ L!Init /\ C!Init
BY DEF EvidenceInit, Quiet

-----------------------------------------------------------------------------
(* SharedEvidence                                                          *)

\* Consumers belong to an exchange, and a generation is replaced only when
\* nothing of the one before it is left.
OneGeneration ==
    /\ consumers # "none" => exchange /\ ~lingering
    /\ lingering => exchange
    /\ at \in {"settle", "close", "start", "fall back"} => consumers = "none"
    /\ at = "start" => ~lingering
\* A change of the wanted symbols that no generation carries yet is marked, or
\* the reconciler is on its way to it; it does not rest on a mark.
NothingForgotten ==
    /\ at \in {"off", "ended", "run"} /\ consumers = "running" /\ ~dirty
         => subscribers = active
    /\ at = "off" => ~dirty
GenerationsInv == OneGeneration /\ NothingForgotten

\* Nothing runs and nothing is wanted at the start.
LEMMA GenerationsStart == G!Init => GenerationsInv
BY DEF G!Init, GenerationsInv, OneGeneration, NothingForgotten

\* A candidate that comes, goes or changes its state (subscribe_shared_evidence,
\* unsubscribe_shared_evidence): what changes the wanted symbols marks the venue.
LEMMA SyncKeepsGenerations ==
    ASSUME GenerationsInv, NEW s \in Candidates,
           NEW kind \in {"nothing", "shared", "direct"}, G!Sync(s, kind)
    PROVE  GenerationsInv'
<1> USE DEF GenerationsInv, OneGeneration, NothingForgotten, G!Schedule, G!Unscheduled
<1>1. UNCHANGED <<exchange, active, consumers, lingering>>
  BY DEF G!Sync, G!pool
<1>2. CASE kind = "shared"
  <2>1. G!SubscribeShared(s)
    BY <1>2 DEF G!Sync
  <2>2. CASE unsupported
    BY <1>1, <2>1, <2>2 DEF G!SubscribeShared
  <2>3. CASE ~unsupported /\ G!Room(s) /\ G!Stale(s)
    BY <1>1, <2>1, <2>3 DEF G!SubscribeShared
  <2>4. CASE ~unsupported /\ ~(G!Room(s) /\ G!Stale(s))
    <3>1. UNCHANGED <<dirty, at, subscribers>>
      BY <2>1, <2>4 DEF G!SubscribeShared, G!Stale
    <3> QED
      BY <1>1, <3>1
  <2> QED
    BY <2>2, <2>3, <2>4
<1>3. CASE kind # "shared"
  <2>1. PICK kept : G!UnsubscribeShared(s, kept)
    BY <1>3 DEF G!Sync
  <2>2. CASE s \in subscribers /\ s \notin fallbacks
    BY <1>1, <2>1, <2>2 DEF G!UnsubscribeShared
  <2>3. CASE ~(s \in subscribers /\ s \notin fallbacks)
    <3>1. UNCHANGED <<dirty, at, subscribers>>
      BY <2>1, <2>3 DEF G!UnsubscribeShared
    <3> QED
      BY <1>1, <3>1
  <2> QED
    BY <2>2, <2>3
<1> QED
  BY <1>2, <1>3

\* A generation is replaced when none of its consumers lingers.
LEMMA CloseKeepsGenerations ==
    ASSUME GenerationsInv, NEW pending \in BOOLEAN, NEW empty \in BOOLEAN,
           NEW close, G!Close(pending, close, empty)
    PROVE  GenerationsInv'
BY DEF GenerationsInv, OneGeneration, NothingForgotten, G!Close, G!Retired, G!Begin,
       G!lifecycle, G!venue

\* _reconcile_shared_evidence_once.
LEMMA OnceKeepsGenerations ==
    ASSUME GenerationsInv, G!Once
    PROVE  GenerationsInv'
BY DEF GenerationsInv, OneGeneration, NothingForgotten, G!Once, G!Current, G!Exists,
       G!Begin, G!lifecycle, G!venue

\* Every step of the candidates, the reconciler and the faults.
LEMMA GenerationsKept ==
    ASSUME GenerationsInv, [G!Next]_(G!vars)
    PROVE  GenerationsInv'
<1>1. ASSUME NEW s \in Candidates, NEW kind \in {"nothing", "shared", "direct"},
             G!Sync(s, kind)
      PROVE  GenerationsInv'
  BY <1>1, SyncKeepsGenerations
<1>2. ASSUME NEW pending \in BOOLEAN, NEW empty \in BOOLEAN, NEW close,
             G!Close(pending, close, empty)
      PROVE  GenerationsInv'
  BY <1>2, CloseKeepsGenerations
<1>3. CASE G!Once
  BY <1>3, OnceKeepsGenerations
<1> USE DEF GenerationsInv, OneGeneration, NothingForgotten, G!lifecycle, G!venue, G!pool
<1>4. CASE G!Run
  BY <1>4 DEF G!Run
<1>5. CASE G!Callback
  BY <1>5 DEF G!Callback
<1>6. CASE G!EndWait
  BY <1>6 DEF G!EndWait
<1>7. CASE G!Woken
  BY <1>7 DEF G!Woken
<1>8. CASE G!Settle
  BY <1>8 DEF G!Settle
<1>9. CASE G!SettleTimesOut
  BY <1>9 DEF G!SettleTimesOut
<1>10. CASE G!LingererEnds
  BY <1>10 DEF G!LingererEnds
<1>11. CASE G!Start
  BY <1>11 DEF G!Start
<1>12. CASE G!StartUnsupported
  BY <1>12 DEF G!StartUnsupported
<1>13. CASE G!FallBack
  BY <1>13 DEF G!FallBack
<1>14. CASE G!ConsumerDies
  BY <1>14 DEF G!ConsumerDies
<1>15. CASE G!Grow
  BY <1>15 DEF G!Grow
<1>16. CASE UNCHANGED G!vars
  BY <1>16 DEF G!vars
<1> QED
  BY <1>1, <1>2, <1>3, <1>4, <1>5, <1>6, <1>7, <1>8, <1>9, <1>10, <1>11, <1>12,
     <1>13, <1>14, <1>15, <1>16
     DEF G!Next, G!Reconciler, G!Faults

-----------------------------------------------------------------------------
(* DirectStreams                                                           *)

\* A symbol that is being retired has no task beyond one that waits for the
\* retirement.
RetiredFirst ==
    /\ task \in [Symbols -> {"none", "starting", "watching", "pausing"}]
    /\ retire \in [Symbols -> {"none", "settling", "unwatching"}]
    /\ \A s \in Symbols :
        retire[s] # "none" => task[s] \notin {"watching", "pausing"}

\* Nothing is retired at the start.
LEMMA StreamsStart == D!Init => RetiredFirst
BY DEF D!Init, RetiredFirst

\* A task runs after the retirement, and ends before the next.
LEMMA StreamsKept ==
    ASSUME RetiredFirst, [D!Next]_(D!vars)
    PROVE  RetiredFirst'
<1> USE DEF RetiredFirst
<1>1. ASSUME NEW s \in Symbols, D!Subscribe(s)
      PROVE  RetiredFirst'
  BY <1>1 DEF D!Subscribe
<1>2. ASSUME NEW s \in Symbols, D!Unsubscribe(s)
      PROVE  RetiredFirst'
  BY <1>2 DEF D!Unsubscribe
<1>3. ASSUME NEW s \in Symbols, D!Start(s)
      PROVE  RetiredFirst'
  BY <1>3 DEF D!Start, D!MayStart
<1>4. ASSUME NEW s \in Symbols, NEW late \in BOOLEAN, D!Settled(s, late)
      PROVE  RetiredFirst'
  BY <1>4 DEF D!Settled
<1>5. ASSUME NEW s \in Symbols, NEW fails \in BOOLEAN, D!Unwatched(s, fails)
      PROVE  RetiredFirst'
  BY <1>5 DEF D!Unwatched
<1>6. ASSUME NEW s \in Symbols, D!WatchFails(s)
      PROVE  RetiredFirst'
  BY <1>6 DEF D!WatchFails
<1>7. ASSUME NEW s \in Symbols, D!WatchAgain(s)
      PROVE  RetiredFirst'
  BY <1>7 DEF D!WatchAgain
<1>8. ASSUME NEW s \in Symbols, D!Ends(s)
      PROVE  RetiredFirst'
  BY <1>8 DEF D!Ends
<1>9. CASE UNCHANGED D!vars
  BY <1>9 DEF D!vars
<1> QED
  BY <1>1, <1>2, <1>3, <1>4, <1>5, <1>6, <1>7, <1>8, <1>9 DEF D!Next

-----------------------------------------------------------------------------
(* LiquidationClients                                                      *)

\* An exchange in a pool belongs to a task that watches; a task watches only an
\* exchange that was opened after every close.
OwnersWatch ==
    /\ liqTask \in [Symbols -> L!States]
    /\ closing \in [Symbols -> Nat]
    /\ \A s \in Symbols :
        /\ s \in owned => liqTask[s] = "watching" /\ closing[s] = 0
        /\ closing[s] <= 1
    /\ sharedOwned \in BOOLEAN /\ sharedClosing \in BOOLEAN /\ leaked \in BOOLEAN
    /\ sharedOwned => liqShared = "watching" /\ ~sharedClosing
    /\ ~leaked

\* There are no exchanges at the start.
LEMMA ClientsStart == L!Init => OwnersWatch
<1> SUFFICES ASSUME L!Init PROVE OwnersWatch
  OBVIOUS
<1>1. liqTask \in [Symbols -> L!States] /\ closing \in [Symbols -> Nat]
  BY DEF L!Init, L!States
<1>2. \A s \in Symbols : s \notin owned /\ closing[s] <= 1
  BY DEF L!Init
<1> QED
  BY <1>1, <1>2 DEF L!Init, OwnersWatch

\* The exchanges of single symbols.
LEMMA SymbolKeepsClients ==
    ASSUME OwnersWatch, NEW s \in Symbols,
           \/ L!Subscribe(s) \/ L!Unsubscribe(s) \/ L!Closed(s)
           \/ \E supported \in BOOLEAN : L!Open(s, supported)
    PROVE  OwnersWatch'
<1> USE DEF OwnersWatch, L!States, L!allMarket
<1>1. CASE L!Subscribe(s)
  BY <1>1 DEF L!Subscribe
<1>2. CASE L!Unsubscribe(s)
  BY <1>2 DEF L!Unsubscribe, L!Retire
<1>3. CASE L!Closed(s)
  BY <1>3 DEF L!Closed
<1>4. ASSUME NEW supported \in BOOLEAN, L!Open(s, supported)
      PROVE  OwnersWatch'
  <2>1. closing[s] = 0 /\ s \notin owned
    BY <1>4 DEF L!Open, L!MayOpen
  <2>2. CASE supported
    BY <1>4, <2>1, <2>2 DEF L!Open
  <2>3. CASE ~supported
    <3>1. /\ liqTask' = [liqTask EXCEPT ![s] = "none"] /\ owned' = owned
          /\ closing' = [closing EXCEPT ![s] = @ + 1]
          /\ UNCHANGED <<liqShared, sharedOwned, sharedClosing, leaked>>
      BY <1>4, <2>3 DEF L!Open
    <3> QED
      BY <2>1, <3>1
  <2> QED
    BY <2>2, <2>3
<1> QED
  BY <1>1, <1>2, <1>3, <1>4

\* The exchange of the all-market stream.
LEMMA SharedKeepsClients ==
    ASSUME OwnersWatch,
           \/ \E s \in Symbols : L!SubscribeShared(s) \/ L!UnsubscribeShared(s)
           \/ \E supported \in BOOLEAN : L!OpenShared(supported)
           \/ L!ClosedShared
    PROVE  OwnersWatch'
<1> USE DEF OwnersWatch, L!perSymbol
<1>1. ASSUME NEW s \in Symbols, L!SubscribeShared(s)
      PROVE  OwnersWatch'
  BY <1>1 DEF L!SubscribeShared
<1>2. ASSUME NEW s \in Symbols, L!UnsubscribeShared(s)
      PROVE  OwnersWatch'
  BY <1>2 DEF L!UnsubscribeShared, L!RetireShared
<1>3. ASSUME NEW supported \in BOOLEAN, L!OpenShared(supported)
      PROVE  OwnersWatch'
  BY <1>3 DEF L!OpenShared, L!SharedMayOpen
<1>4. CASE L!ClosedShared
  BY <1>4 DEF L!ClosedShared
<1> QED
  BY <1>1, <1>2, <1>3, <1>4

\* Every step of the tasks, the closes and the capability refresh.
LEMMA ClientsKept ==
    ASSUME OwnersWatch, [L!Next]_(L!vars)
    PROVE  OwnersWatch'
<1>1. ASSUME UNCHANGED <<liqTask, owned, closing, liqShared, sharedOwned,
                         sharedClosing, leaked>>
      PROVE  OwnersWatch'
  BY <1>1 DEF OwnersWatch
<1>2. ASSUME NEW venue, L!RefreshCapability(venue)
      PROVE  OwnersWatch'
  BY <1>1, <1>2 DEF L!RefreshCapability, L!perSymbol, L!allMarket
<1>3. CASE UNCHANGED L!vars
  BY <1>1, <1>3 DEF L!vars, L!perSymbol, L!allMarket
<1> QED
  BY <1>2, <1>3, SymbolKeepsClients, SharedKeepsClients DEF L!Next

-----------------------------------------------------------------------------
\* The three kinds of streams keep their invariants side by side.
StreamsInv == GenerationsInv /\ RetiredFirst /\ OwnersWatch

\* And so does the whole, whichever of them a step belongs to (ws_streamer.py).
THEOREM StreamsInvariance == EvidenceSpec => []StreamsInv
<1>1. EvidenceInit => StreamsInv
  BY MachinesStart, GenerationsStart, StreamsStart, ClientsStart DEF StreamsInv
<1>2. StreamsInv /\ [EvidenceNext]_evidence => StreamsInv'
  BY OneMachineSteps, GenerationsKept, StreamsKept, ClientsKept DEF StreamsInv
<1> QED
  BY <1>1, <1>2, PTL DEF EvidenceSpec

\* Two feeds of one stream never run side by side and none goes on unnoticed
\* (_retire_shared_evidence_generation, _retire_direct_symbol,
\* _get_liquidation_exchange).
THEOREM FeedsAreSingle == EvidenceSpec => []OneFeedPerStream
<1>1. GenerationsInv => G!NoOverlappingGenerations /\ G!NoLostWakeup
  BY DEF GenerationsInv, OneGeneration, NothingForgotten,
         G!NoOverlappingGenerations, G!NoLostWakeup
<1>2. RetiredFirst => D!SuccessorNotUnwatched
  BY DEF RetiredFirst, D!SuccessorNotUnwatched
<1>3. OwnersWatch => L!OneClientPerStream
  BY DEF OwnersWatch, L!OneClientPerStream
<1>4. StreamsInv => OneFeedPerStream
  BY <1>1, <1>2, <1>3 DEF StreamsInv, OneFeedPerStream
<1> QED
  BY <1>4, StreamsInvariance, PTL
-----------------------------------------------------------------------------
(* EvidenceCaches                                                          *)

\* Induction over the natural numbers, for sets.
LEMMA NatInduct ==
    ASSUME NEW S, 0 \in S, \A n \in Nat : n \in S => n + 1 \in S
    PROVE  Nat \subseteq S
<1> SUFFICES ASSUME Nat \ S # {} PROVE FALSE
  OBVIOUS
<1> DEFINE T == Nat \ S
<1>1. T \subseteq Nat /\ T # {}
  OBVIOUS
<1>2. PICK m \in T : \A k \in T : <<k, m>> \notin OpToRel(<, Nat)
  BY <1>1, NatLessThanWellFounded, WFMin
<1>3. m \in Nat /\ m # 0 /\ m - 1 \in Nat
  OBVIOUS
<1>4. m - 1 \notin S
  BY <1>3
<1>5. <<m - 1, m>> \in OpToRel(<, Nat)
  BY <1>3 DEF OpToRel
<1> QED
  BY <1>2, <1>3, <1>4, <1>5

\* What is kept of the first n times of a sequence, given what is kept of fewer.
KeptOf(kept, s, T, n) ==
    IF n = 0 THEN <<>>
    ELSE IF s[n] \in T THEN Append(kept[n - 1], s[n]) ELSE kept[n - 1]
Filters(kept, s, T, m) == kept = [n \in 0..m |-> KeptOf(kept, s, T, n)]
Ascending(s) == \A i, j \in 1..Len(s) : i <= j => s[i] <= s[j]

\* The filter of a sequence is well defined.
LEMMA FilterExists ==
    ASSUME NEW s, NEW T, NEW m \in Nat
    PROVE  \E kept : Filters(kept, s, T, m)
<1> DEFINE S == {n \in Nat : \E kept : Filters(kept, s, T, n)}
<1>1. 0 \in S
  <2>1. Filters([n \in 0..0 |-> <<>>], s, T, 0)
    BY DEF Filters, KeptOf
  <2> QED
    BY <2>1
<1>2. ASSUME NEW n \in Nat, n \in S PROVE n + 1 \in S
  <2>1. PICK kept : Filters(kept, s, T, n)
    BY <1>2
  <2> DEFINE more == [k \in 0..(n + 1) |->
                        IF k <= n THEN kept[k] ELSE KeptOf(kept, s, T, n + 1)]
  <2>2. ASSUME NEW k \in 0..(n + 1) PROVE more[k] = KeptOf(more, s, T, k)
    <3>1. CASE k <= n
      <4>1. kept[k] = KeptOf(kept, s, T, k)
        BY <2>1, <3>1 DEF Filters
      <4>2. k # 0 => more[k - 1] = kept[k - 1]
        BY <3>1
      <4> QED
        BY <4>1, <4>2, <3>1 DEF KeptOf
    <3>2. CASE k = n + 1
      <4>1. more[n] = kept[n] /\ k # 0 /\ k - 1 = n
        BY <3>2
      <4> QED
        BY <4>1, <3>2 DEF KeptOf
    <3> QED
      BY <3>1, <3>2
  <2>3. Filters(more, s, T, n + 1)
    BY <2>2 DEF Filters
  <2> QED
    BY <2>3
<1> HIDE DEF S
<1>3. Nat \subseteq S
  BY <1>1, <1>2, NatInduct
<1> QED
  BY <1>3 DEF S

\* What is kept of n times: some of them, ascending and of the period.
KeptWell(f, s, T, n) ==
    /\ f \in Seq(Nat \cap T)
    /\ \A i, j \in 1..Len(f) : i <= j => f[i] <= f[j]
    /\ \A i \in 1..Len(f) : \E j \in 1..n : f[i] = s[j]

\* The next time that is of the period is kept behind those before it.
LEMMA KeepsWell ==
    ASSUME NEW s \in Seq(Nat), Ascending(s), NEW T, NEW n \in Nat, n + 1 <= Len(s),
           NEW f, KeptWell(f, s, T, n)
    PROVE  /\ KeptWell(f, s, T, n + 1)
           /\ s[n + 1] \in T => KeptWell(Append(f, s[n + 1]), s, T, n + 1)
<1>1. \A i \in 1..Len(f) : \E j \in 1..(n + 1) : f[i] = s[j]
  BY DEF KeptWell
<1>2. KeptWell(f, s, T, n + 1)
  BY <1>1 DEF KeptWell
<1>3. ASSUME s[n + 1] \in T PROVE KeptWell(Append(f, s[n + 1]), s, T, n + 1)
  <2> DEFINE x == s[n + 1]
             g == Append(f, x)
  <2>1. n + 1 \in 1..Len(s) /\ x \in Nat \cap T
    BY <1>3
  <2>2. ASSUME NEW i \in 1..Len(f) PROVE f[i] <= x
    <3>1. PICK j \in 1..n : f[i] = s[j]
      BY DEF KeptWell
    <3>2. j \in 1..Len(s) /\ j <= n + 1
      OBVIOUS
    <3> QED
      BY <2>1, <3>1, <3>2 DEF Ascending
  <2>3. /\ g \in Seq(Nat \cap T) /\ Len(g) = Len(f) + 1 /\ Len(f) \in Nat
        /\ g[Len(f) + 1] = x /\ \A i \in 1..Len(f) : g[i] = f[i]
    BY <2>1 DEF KeptWell
  <2>4. \A i \in 1..Len(f) : f[i] \in Nat
    BY DEF KeptWell
  <2> HIDE DEF x, g
  <2>5. ASSUME NEW i \in 1..Len(g), NEW j \in 1..Len(g), i <= j PROVE g[i] <= g[j]
    <3>1. CASE j = Len(f) + 1
      <4>1. g[j] = x /\ x <= x
        BY <2>1, <2>3, <3>1
      <4>2. i = Len(f) + 1 \/ i \in 1..Len(f)
        BY <2>3
      <4>3. i \in 1..Len(f) => g[i] = f[i] /\ f[i] <= x
        BY <2>2, <2>3
      <4> QED
        BY <3>1, <4>1, <4>2, <4>3
    <3>2. CASE j # Len(f) + 1
      <4>1. i \in 1..Len(f) /\ j \in 1..Len(f)
        BY <2>3, <2>5, <3>2
      <4>2. f[i] <= f[j]
        BY <4>1, <2>5 DEF KeptWell
      <4> QED
        BY <4>1, <4>2, <2>3
    <3> QED
      BY <3>1, <3>2
  <2>6. ASSUME NEW i \in 1..Len(g) PROVE \E j \in 1..(n + 1) : g[i] = s[j]
    <3>1. CASE i = Len(f) + 1
      BY <2>3, <3>1 DEF x
    <3>2. CASE i # Len(f) + 1
      <4>1. i \in 1..Len(f)
        BY <2>3, <3>2
      <4>2. PICK j \in 1..(n + 1) : f[i] = s[j]
        BY <1>1, <4>1
      <4> QED
        BY <2>3, <4>1, <4>2
    <3> QED
      BY <3>1, <3>2
  <2>7. KeptWell(g, s, T, n + 1)
    BY <2>3, <2>5, <2>6 DEF KeptWell
  <2> QED
    BY <2>7 DEF g, x
<1> QED
  BY <1>2, <1>3

\* What a filter keeps of ascending times are ascending times of the period.
LEMMA WithinFacts ==
    ASSUME NEW s \in Seq(Nat), Ascending(s), NEW T
    PROVE  /\ C!Within(s, T) \in Seq(Nat \cap T) /\ Ascending(C!Within(s, T))
           /\ \A i \in 1..Len(C!Within(s, T)) :
                \E j \in 1..Len(s) : C!Within(s, T)[i] = s[j]
<1> DEFINE F == CHOOSE kept : kept = [n \in 0..Len(s) |->
                    IF n = 0 THEN <<>>
                    ELSE IF s[n] \in T THEN Append(kept[n - 1], s[n])
                    ELSE kept[n - 1]]
<1>0. Len(s) \in Nat
  OBVIOUS
<1>1. Filters(F, s, T, Len(s))
  <2>1. PICK kept : Filters(kept, s, T, Len(s))
    BY <1>0, FilterExists
  <2> QED
    BY <2>1 DEF Filters, KeptOf
<1>2. C!Within(s, T) = F[Len(s)]
  BY DEF C!Within
<1> HIDE DEF F
<1> DEFINE S == {n \in Nat : n <= Len(s) => KeptWell(F[n], s, T, n)}
<1>3. 0 \in S
  <2>1. F[0] = <<>>
    BY <1>0, <1>1 DEF Filters, KeptOf
  <2>2. <<>> \in Seq(Nat \cap T) /\ 1..Len(<<>>) = {}
    OBVIOUS
  <2>3. KeptWell(<<>>, s, T, 0)
    BY <2>2 DEF KeptWell
  <2> QED
    BY <2>1, <2>3
<1>4. ASSUME NEW n \in Nat, n \in S PROVE n + 1 \in S
  <2> SUFFICES ASSUME n + 1 <= Len(s) PROVE KeptWell(F[n + 1], s, T, n + 1)
    OBVIOUS
  <2>1. KeptWell(F[n], s, T, n)
    BY <1>0, <1>4
  <2>2. F[n + 1] = IF s[n + 1] \in T THEN Append(F[n], s[n + 1]) ELSE F[n]
    <3>1. n + 1 \in 0..Len(s) /\ n + 1 # 0 /\ (n + 1) - 1 = n
      BY <1>0
    <3> QED
      BY <1>1, <3>1 DEF Filters, KeptOf
  <2> QED
    BY <2>1, <2>2, KeepsWell
<1> HIDE DEF S
<1>5. Nat \subseteq S
  BY <1>3, <1>4, NatInduct
<1>6. KeptWell(F[Len(s)], s, T, Len(s))
  BY <1>0, <1>5 DEF S
<1> QED
  BY <1>2, <1>6 DEF KeptWell, Ascending

-----------------------------------------------------------------------------

\* Snapshots are kept in the order of their arrival, a liquidation once.
SnapshotsInOrder ==
    /\ cacheTime \in Nat /\ history \in Seq(Nat) /\ Ascending(history)
    /\ \A i \in 1..Len(history) : history[i] <= cacheTime
RowsOnce == events \in [CacheRows -> 0..1] /\ stamp \in [CacheRows -> Nat]
CachesInv == SnapshotsInOrder /\ RowsOnce

\* Nothing is kept at the start.
LEMMA CachesStart == C!Init => CachesInv
<1> SUFFICES ASSUME C!Init PROVE CachesInv
  OBVIOUS
<1>1. history = <<>> /\ 1..Len(<<>>) = {} /\ <<>> \in Seq(Nat) /\ cacheTime = 1
  BY DEF C!Init
<1>2. SnapshotsInOrder
  BY <1>1 DEF SnapshotsInOrder, Ascending
<1> QED
  BY <1>2 DEF CachesInv, RowsOnce, C!Init

\* The end of an ascending sequence ascends.
LEMMA LastAscends ==
    ASSUME NEW s \in Seq(Nat), Ascending(s), NEW n \in Nat \ {0}
    PROVE  /\ C!Last(s, n) \in Seq(Nat) /\ Ascending(C!Last(s, n))
           /\ \A i \in 1..Len(C!Last(s, n)) :
                \E j \in 1..Len(s) : C!Last(s, n)[i] = s[j]
<1>1. CASE ~(Len(s) > n)
  <2>1. C!Last(s, n) = s
    BY <1>1 DEF C!Last
  <2> QED
    BY <2>1
<1>2. CASE Len(s) > n
  <2> DEFINE a == Len(s) - n
             e == SubSeq(s, a + 1, Len(s))
  <2>1. a \in Nat /\ Len(s) \in Nat /\ a + n = Len(s)
    BY <1>2
  <2>2. C!Last(s, n) = e
    BY <1>2 DEF C!Last
  <2>3. /\ e \in Seq(Nat) /\ Len(e) = n
        /\ \A i \in 1..n : e[i] = s[a + i] /\ a + i \in 1..Len(s)
    BY <2>1
  <2> HIDE DEF e, a
  <2>4. \A i, j \in 1..n : i <= j => a + i <= a + j
    BY <2>1
  <2>5. Ascending(e)
    BY <2>3, <2>4 DEF Ascending
  <2> QED
    BY <2>2, <2>3, <2>5
<1> QED
  BY <1>1, <1>2

\* A snapshot arrives after those that are kept.
LEMMA IngestKeepsOrder ==
    ASSUME SnapshotsInOrder, C!IngestOrderbook
    PROVE  SnapshotsInOrder'
<1> DEFINE s == Append(history, cacheTime)
<1>0. /\ cacheTime \in Nat /\ history \in Seq(Nat) /\ Ascending(history)
      /\ \A i \in 1..Len(history) : history[i] <= cacheTime
  BY DEF SnapshotsInOrder
<1>1. /\ s \in Seq(Nat) /\ Len(s) = Len(history) + 1 /\ Len(history) \in Nat
      /\ s[Len(history) + 1] = cacheTime
      /\ \A i \in 1..Len(history) : s[i] = history[i]
  BY <1>0
<1>2. history' = C!Last(s, HistoryLimit) /\ cacheTime' = cacheTime
  BY DEF C!IngestOrderbook
<1> HIDE DEF s
<1>3. ASSUME NEW i \in 1..Len(s) PROVE s[i] <= cacheTime
  <2>1. i = Len(history) + 1 \/ i \in 1..Len(history)
    BY <1>1
  <2>2. cacheTime <= cacheTime
    BY <1>0
  <2> QED
    BY <1>0, <1>1, <2>1, <2>2
<1>4. ASSUME NEW i \in 1..Len(s), NEW j \in 1..Len(s), i <= j PROVE s[i] <= s[j]
  <2>1. CASE j = Len(history) + 1
    BY <1>1, <1>3, <2>1
  <2>2. CASE j # Len(history) + 1
    <3>1. i \in 1..Len(history) /\ j \in 1..Len(history)
      BY <1>1, <1>4, <2>2
    <3> QED
      BY <1>0, <1>1, <1>4, <3>1 DEF Ascending
  <2> QED
    BY <2>1, <2>2
<1>5. Ascending(s)
  BY <1>4 DEF Ascending
<1>6. HistoryLimit \in Nat \ {0}
  BY StreamsAssumption DEF C!CacheAssumption
<1>7. /\ history' \in Seq(Nat) /\ Ascending(history')
      /\ \A i \in 1..Len(history') : \E j \in 1..Len(s) : history'[i] = s[j]
  BY <1>1, <1>2, <1>5, <1>6, LastAscends
<1> QED
  BY <1>0, <1>2, <1>3, <1>7 DEF SnapshotsInOrder, Ascending

\* Each step keeps the order of the snapshots and counts a row once.
LEMMA CachesKept ==
    ASSUME CachesInv, [C!Next]_(C!vars)
    PROVE  CachesInv'
<1> USE DEF CachesInv
<1>0. /\ cacheTime \in Nat /\ history \in Seq(Nat) /\ Ascending(history)
      /\ \A i \in 1..Len(history) : history[i] <= cacheTime
  BY DEF SnapshotsInOrder
<1>1. CASE C!Tick
  <2>1. cacheTime' = cacheTime + 1 /\ UNCHANGED <<history, events, stamp>>
    BY <1>1 DEF C!Tick
  <2>2. \A i \in 1..Len(history) : history[i] <= cacheTime + 1
    BY <1>0
  <2>3. SnapshotsInOrder'
    BY <1>0, <2>1, <2>2 DEF SnapshotsInOrder, Ascending
  <2> QED
    BY <2>1, <2>3 DEF RowsOnce
<1>2. CASE C!IngestOrderbook
  BY <1>2, IngestKeepsOrder DEF C!IngestOrderbook, RowsOnce
<1>3. CASE C!Prune
  <2> DEFINE T == cacheTime - BookTtl .. MaxNow
             w == C!Within(history, T)
  <2>1. history' = w /\ cacheTime' = cacheTime
    BY <1>3 DEF C!Prune
  <2>2. /\ w \in Seq(Nat \cap T) /\ Ascending(w)
        /\ \A i \in 1..Len(w) : \E j \in 1..Len(history) : w[i] = history[j]
    <3> HIDE DEF T
    <3> QED
      BY <1>0, WithinFacts
  <2> HIDE DEF w
  <2>3. w \in Seq(Nat)
    <3> HIDE DEF T
    <3> QED
      BY <2>2
  <2>4. SnapshotsInOrder'
    BY <1>0, <2>1, <2>2, <2>3 DEF SnapshotsInOrder, Ascending
  <2>5. RowsOnce'
    BY <1>3 DEF C!Prune, RowsOnce
  <2> QED
    BY <2>4, <2>5
<1>4. ASSUME NEW id \in CacheRows, C!Happens(id)
      PROVE  CachesInv'
  <2>1. PICK skew \in {0, 1} : stamp' = [stamp EXCEPT ![id] = cacheTime + skew]
    BY <1>4 DEF C!Happens
  <2>2. cacheTime + skew \in Nat
    BY <1>0
  <2> QED
    BY <1>4, <2>1, <2>2 DEF C!Happens, SnapshotsInOrder, Ascending, RowsOnce
<1>5. ASSUME NEW ids, C!IngestTrades(ids)
      PROVE  CachesInv'
  BY <1>5 DEF C!IngestTrades, SnapshotsInOrder, Ascending, RowsOnce
<1>6. ASSUME NEW payload, C!IngestLiquidations(payload)
      PROVE  CachesInv'
  BY <1>6 DEF C!IngestLiquidations, C!Seen, SnapshotsInOrder, Ascending, RowsOnce
<1>7. CASE UNCHANGED C!vars
  BY <1>7 DEF C!vars, SnapshotsInOrder, Ascending, RowsOnce
<1> QED
  BY <1>1, <1>2, <1>3, <1>4, <1>5, <1>6, <1>7 DEF C!Next

-----------------------------------------------------------------------------

\* A quotient and its remainder.
LEMMA Quotient ==
    ASSUME NEW n \in Nat, NEW d \in Nat \ {0}
    PROVE  n \div d \in Nat /\ n % d \in 0..(d - 1) /\ n = d * (n \div d) + (n % d)
OBVIOUS

\* A factor keeps the order.
LEMMA Multiplied ==
    ASSUME NEW d \in Nat \ {0}, NEW a \in Nat, NEW b \in Nat, a <= b
    PROVE  d * a <= d * b
OBVIOUS

\* Rounding is off by half the divisor at most.
LEMMA RoundBounds ==
    ASSUME NEW n \in Nat, NEW d \in Nat \ {0}
    PROVE  /\ C!Round(n, d) \in Nat
           /\ 2 * n - d <= 2 * (d * C!Round(n, d))
           /\ 2 * (d * C!Round(n, d)) <= 2 * n + d
<1> DEFINE q == n \div d
           m == n % d
<1>1. q \in Nat /\ m \in 0..(d - 1) /\ n = d * q + m
  BY Quotient
<1>2. \/ C!Round(n, d) = q /\ 2 * m <= d
      \/ C!Round(n, d) = q + 1 /\ 2 * m >= d
  BY <1>1 DEF C!Round
<1> HIDE DEF q, m
<1>3. d * (q + 1) = d * q + d
  BY <1>1
<1> QED
  BY <1>1, <1>2, <1>3

\* Numbers further apart than the divisor are rounded to different ones.
LEMMA RoundGrows ==
    ASSUME NEW x \in Nat, NEW y \in Nat, NEW d \in Nat \ {0}, x + d < y
    PROVE  C!Round(x, d) < C!Round(y, d)
<1> DEFINE a == C!Round(x, d)
           b == C!Round(y, d)
<1>1. /\ a \in Nat /\ b \in Nat
      /\ 2 * (d * a) <= 2 * x + d /\ 2 * y - d <= 2 * (d * b)
  BY RoundBounds
<1> HIDE DEF a, b
<1>2. d * a \in Nat /\ d * b \in Nat
  BY <1>1
<1>3. ~(b <= a)
  BY <1>1, <1>2, Multiplied
<1> QED
  BY <1>1, <1>3 DEF a, b

\* A multiple of the divisor is rounded to its factor.
LEMMA RoundExact ==
    ASSUME NEW k \in Nat, NEW d \in Nat \ {0}
    PROVE  C!Round(k * d, d) = k
<1> DEFINE a == C!Round(k * d, d)
<1>1. k * d \in Nat
  OBVIOUS
<1>2. a \in Nat /\ 2 * (d * a) <= 2 * (k * d) + d /\ 2 * (k * d) - d <= 2 * (d * a)
  BY <1>1, RoundBounds
<1> HIDE DEF a
<1>3. /\ d * a \in Nat /\ k * d = d * k
      /\ d * (k + 1) = d * k + d /\ d * (a + 1) = d * a + d
  BY <1>2
<1>4. ~(a + 1 <= k)
  BY <1>2, <1>3, Multiplied
<1>5. ~(k + 1 <= a)
  BY <1>2, <1>3, Multiplied
<1> QED
  BY <1>2, <1>4, <1>5 DEF a

\* Of the places where a long enough window starts, one is the last.
LEMMA LastStart ==
    ASSUME NEW S, NEW n \in Nat, S \subseteq 1..n, S # {}
    PROVE  \E i \in S : \A j \in S : j <= i
<1> DEFINE T == {n - i : i \in S}
<1>1. T \subseteq Nat /\ T # {}
  <2>1. \A i \in S : n - i \in Nat
    OBVIOUS
  <2> QED
    BY <2>1
<1>2. PICK t \in T : \A u \in T : <<u, t>> \notin OpToRel(<, Nat)
  BY <1>1, NatLessThanWellFounded, WFMin
<1>3. PICK i \in S : t = n - i
  OBVIOUS
<1>4. ASSUME NEW j \in S PROVE j <= i
  <2>1. n - j \in T /\ n - j \in Nat /\ t \in Nat
    BY <1>1
  <2>2. ~(n - j < t)
    BY <1>2, <2>1 DEF OpToRel
  <2> QED
    BY <1>3, <2>1, <2>2
<1> QED
  BY <1>4

\* The samples taken from a start that leaves room are different, and the last
\* of them is the newest.
LEMMA SpreadOut ==
    ASSUME NEW m \in Nat, NEW d \in Nat \ {0}, d <= m
    PROVE  /\ C!Round(d * m, d) = m /\ C!Round(0 * m, d) = 0
           /\ \A p \in 1..d :
                /\ C!Round((p - 1) * m, d) \in Nat /\ C!Round(p * m, d) <= m
                /\ C!Round((p - 1) * m, d) < C!Round(p * m, d)
<1>1. m \in Nat /\ d <= m
  OBVIOUS
<1>2. d * m = m * d /\ C!Round(m * d, d) = m
  BY <1>1, RoundExact
<1>3. 0 * m = 0 * d /\ C!Round(0 * d, d) = 0
  BY <1>1, RoundExact
<1>4. ASSUME NEW p \in 1..d
      PROVE  C!Round((p - 1) * m, d) \in Nat /\ C!Round((p - 1) * m, d) < C!Round(p * m, d)
  <2>1. p - 1 \in Nat /\ p \in Nat /\ (p - 1) * m \in Nat /\ p * m = (p - 1) * m + m
    BY <1>1
  <2>2. C!Round((p - 1) * m, d) \in Nat
    BY <2>1, RoundBounds
  <2>3. CASE m = d
    <3>1. C!Round((p - 1) * d, d) = p - 1 /\ C!Round(p * d, d) = p
      BY <2>1, RoundExact
    <3> QED
      BY <2>1, <2>2, <2>3, <3>1
  <2>4. CASE m # d
    <3>1. (p - 1) * m + d < p * m /\ p * m \in Nat
      BY <1>1, <2>1, <2>4
    <3> QED
      BY <2>1, <2>2, <3>1, RoundGrows
  <2> QED
    BY <2>3, <2>4
<1>5. ASSUME NEW p \in 1..d PROVE C!Round(p * m, d) <= m
  <2>1. p * m \in Nat /\ p * m <= d * m
    BY <1>1
  <2>2. C!Round(p * m, d) \in Nat /\ 2 * (d * C!Round(p * m, d)) <= 2 * (p * m) + d
    BY <2>1, RoundBounds
  <2> DEFINE r == C!Round(p * m, d)
  <2> HIDE DEF r
  <2>3. r \in Nat /\ 2 * (d * r) <= 2 * (d * m) + d /\ d * m \in Nat /\ d * r \in Nat
    BY <1>1, <2>1, <2>2 DEF r
  <2>4. ~(m + 1 <= r)
    <3>1. d * (m + 1) = d * m + d /\ m + 1 \in Nat
      BY <1>1
    <3> QED
      BY <2>3, <3>1, Multiplied
  <2> QED
    BY <1>1, <2>3, <2>4 DEF r
<1> QED
  BY <1>2, <1>3, <1>4, <1>5

\* What is fresh arrived in order.
LEMMA FreshAscends ==
    ASSUME CachesInv
    PROVE  C!Fresh \in Seq(Nat) /\ Ascending(C!Fresh)
<1> DEFINE T == cacheTime - BookTtl .. cacheTime
           w == C!Within(history, T)
<1>1. C!Fresh = w
  BY DEF C!Fresh
<1> HIDE DEF T
<1>2. w \in Seq(Nat \cap T) /\ Ascending(w)
  BY WithinFacts DEF CachesInv, SnapshotsInOrder
<1> HIDE DEF w
<1>3. w \in Seq(Nat)
  BY <1>2
<1> QED
  BY <1>1, <1>2, <1>3 DEF Ascending

\* The reader of samples gets different snapshots that span what it asks for, or
\* none where none do.
LEMMA SamplesAreSpread ==
    ASSUME CachesInv
    PROVE  C!SamplesSpread
<1> DEFINE F == C!Fresh
           n == Len(F)
           d == Count - 1
           m == n - C!Start
<1>1. /\ F \in Seq(Nat) /\ n \in Nat
      /\ \A i, j \in 1..n : i <= j => F[i] <= F[j]
      /\ \A i \in 1..n : F[i] \in Nat
  BY FreshAscends DEF Ascending
<1>2. Count \in Nat /\ 2 <= Count /\ Span \in Nat /\ d \in Nat \ {0} /\ d + 1 = Count
  BY StreamsAssumption DEF C!CacheAssumption
<1>3. CASE n < Count
  <2>1. C!Samples = <<>>
    BY <1>3 DEF C!Samples
  <2> QED
    BY <1>3, <2>1 DEF C!SamplesSpread
<1>4. CASE ~(n < Count) /\ Span = 0
  <2>1. C!Samples = [p \in 1..Count |-> n - Count + p]
    BY <1>4 DEF C!Samples
  <2> DEFINE s == C!Samples
             F1 == F[n] - F[s[1]]
  <2>2. s # <<>> /\ s[Count] = n /\ s[1] \in 1..n
        /\ \A p \in 1..(Count - 1) : s[p] < s[p + 1]
    <3> HIDE DEF n
    <3>1. DOMAIN s = 1..Count /\ DOMAIN <<>> = {} /\ 1 \in 1..Count /\ Count \in 1..Count
      BY <1>2, <2>1
    <3>2. \A p \in 1..Count : s[p] = n - Count + p
      BY <2>1
    <3>3. \A p \in 1..(Count - 1) : p \in 1..Count /\ p + 1 \in 1..Count
      BY <1>2
    <3>4. s # <<>>
      BY <3>1
    <3>5. s[Count] = n /\ s[1] \in 1..n
      BY <1>1, <1>2, <1>4, <3>1, <3>2
    <3>6. \A p \in 1..(Count - 1) : s[p] < s[p + 1]
      BY <1>1, <1>2, <3>2, <3>3
    <3> QED
      BY <3>4, <3>5, <3>6
  <2>3. F[n] - F[s[1]] >= Span
    <3> HIDE DEF F, n, s
    <3>1. n \in 1..n /\ s[1] <= n
      BY <1>1, <2>2
    <3> QED
      BY <1>1, <1>4, <2>2, <3>1
  <2> QED
    BY <2>2, <2>3 DEF C!SamplesSpread
<1>5. CASE ~(n < Count) /\ Span # 0 /\ C!Starts = {}
  <2>1. C!Samples = <<>>
    BY <1>5 DEF C!Samples
  <2>2. ASSUME NEW i \in 1..n, n - i + 1 >= Count PROVE F[n] - F[i] < Span
    <3>1. i \in 1..(n - Count + 1)
      BY <1>1, <1>2, <2>2
    <3>2. ~(F[n] - F[i] >= Span)
      BY <1>5, <3>1 DEF C!Starts
    <3> HIDE DEF F, n
    <3>3. F[n] \in Nat /\ F[i] \in Nat
      BY <1>1
    <3> QED
      BY <1>2, <3>2, <3>3
  <2> QED
    BY <2>1, <2>2 DEF C!SamplesSpread
<1>6. CASE ~(n < Count) /\ Span # 0 /\ C!Starts # {}
  <2> DEFINE S == C!Starts
             a == C!Start
             s == C!Samples
  <2>1. S \subseteq 1..n
    BY <1>1, <1>2 DEF C!Starts
  <2>2. \E i \in S : \A j \in S : j <= i
    BY <1>1, <1>6, <2>1, LastStart
  <2>3. a \in C!Starts
    BY <2>2 DEF C!Start
  <2>4. a \in 1..(n - Count + 1) /\ F[n] - F[a] >= Span
    BY <2>3 DEF C!Starts
  <2>5. s = [p \in 1..Count |-> a + C!Round((p - 1) * m, d)]
    BY <1>6 DEF C!Samples
  <2> HIDE DEF F, n, a, s, S
  <2>6. m \in Nat /\ d <= m /\ a + m = n /\ a \in Nat
    BY <1>1, <1>2, <2>4 DEF a
  <2> HIDE DEF m, d
  <2>7. /\ C!Round(d * m, d) = m /\ C!Round(0 * m, d) = 0
        /\ \A p \in 1..d :
             /\ C!Round((p - 1) * m, d) \in Nat /\ C!Round(p * m, d) <= m
             /\ C!Round((p - 1) * m, d) < C!Round(p * m, d)
    BY <1>2, <2>6, SpreadOut
  <2>8. s # <<>>
    <3>1. DOMAIN s = 1..Count /\ DOMAIN <<>> = {} /\ 1 \in 1..Count
      BY <1>2, <2>5
    <3> QED
      BY <3>1
  <2>9. s[Count] = n
    <3>1. Count \in 1..Count /\ Count - 1 = d
      BY <1>2
    <3>2. s[Count] = a + C!Round(d * m, d)
      BY <2>5, <3>1
    <3> QED
      BY <2>6, <2>7, <3>2
  <2>10. s[1] = a
    <3>1. 1 \in 1..Count /\ 1 - 1 = 0
      BY <1>2
    <3>2. s[1] = a + C!Round(0 * m, d)
      BY <2>5, <3>1
    <3> QED
      BY <2>6, <2>7, <3>2
  <2>11. ASSUME NEW p \in 1..(Count - 1) PROVE s[p] < s[p + 1]
    <3>1. p \in 1..Count /\ p + 1 \in 1..Count /\ (p + 1) - 1 = p /\ p \in 1..d
      BY <1>2
    <3>2. s[p] = a + C!Round((p - 1) * m, d) /\ s[p + 1] = a + C!Round(p * m, d)
      BY <2>5, <3>1
    <3>3. /\ C!Round((p - 1) * m, d) \in Nat /\ C!Round(p * m, d) \in Int
          /\ C!Round((p - 1) * m, d) < C!Round(p * m, d)
      <4>1. p * m \in Nat
        BY <2>6, <3>1
      <4>2. C!Round(p * m, d) \in Nat
        BY <1>2, <4>1, RoundBounds
      <4> QED
        BY <2>7, <3>1, <4>2
    <3> QED
      BY <2>6, <3>2, <3>3
  <2> QED
    BY <2>4, <2>8, <2>9, <2>10, <2>11 DEF C!SamplesSpread, F, n, s
<1> QED
  BY <1>3, <1>4, <1>5, <1>6

\* A row counts once and in one window.
LEMMA FlowIsCountedOnce ==
    ASSUME CachesInv
    PROVE  C!FlowCountsOnce
<1>1. Window \in Nat /\ Retention \in Nat /\ Window <= Retention
  BY StreamsAssumption DEF C!CacheAssumption
<1>2. ASSUME NEW id \in CacheRows
      PROVE  /\ events[id] <= 1
             /\ id \in C!Current => id \notin C!Baseline
             /\ id \in C!Current \cup C!Baseline
                  => stamp[id] \in (cacheTime - Retention + 1)..cacheTime
  <2>1. events[id] \in 0..1 /\ stamp[id] \in Nat /\ cacheTime \in Nat
    BY DEF CachesInv, SnapshotsInOrder, RowsOnce
  <2> QED
    BY <1>1, <2>1 DEF C!Current, C!Baseline, C!Age
<1> QED
  BY <1>2 DEF C!FlowCountsOnce

\* The caches keep their order whatever the streams bring.
THEOREM CachesInvariance == EvidenceSpec => []CachesInv
<1>1. EvidenceInit => CachesInv
  BY MachinesStart, CachesStart
<1>2. CachesInv /\ [EvidenceNext]_evidence => CachesInv'
  BY OneMachineSteps, CachesKept
<1> QED
  BY <1>1, <1>2, PTL DEF EvidenceSpec

\* What an evaluation is given is no snapshot and no liquidation twice, however
\* rows are repeated, reordered or stamped (get_realtime_orderbook_samples,
\* _ingest_liquidations, get_realtime_liquidation_flow).
THEOREM NothingCountsTwice == EvidenceSpec => []EvidenceCountsOnce
<1>1. CachesInv => EvidenceCountsOnce
  BY SamplesAreSpread, FlowIsCountedOnce DEF EvidenceCountsOnce, C!EvidenceCountsOnce
<1> QED
  BY <1>1, CachesInvariance, PTL
=============================================================================
