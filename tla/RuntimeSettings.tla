--------------------------- MODULE RuntimeSettings ---------------------------
(***************************************************************************)
(* RuntimeSettingsStore: the decision settings an operator can turn, kept  *)
(* in one row with a history of the changes and read through a cache.      *)
(* The event loop decides on candidates and serves the operator; a worker  *)
(* thread projects the dashboard and reads the settings meanwhile, through *)
(* the same cache.  Two knobs stand for all: a threshold that may not      *)
(* exceed another.                                                         *)
(***************************************************************************)
EXTENDS Integers, Functions

CONSTANTS
    Level,          \* the highest value of a knob
    CacheTime       \* cache_seconds
SettingsAssumption == Level \in Nat \ {0} /\ CacheTime \in Nat \ {0}

Knobs == {"forming", "ready"}
Settings == [Knobs -> 0..Level]
Defaults == [k \in Knobs |-> IF k = "forming" THEN 0 ELSE Level]
\* The changes of a request; coerce has refused values out of range.
Changes == UNION {[ks -> 0..Level] : ks \in (SUBSET Knobs) \ {{}}}
Coherent(s) == s["forming"] <= s["ready"]

\* Times are told as ages; what is as old as the cache allows no longer counts.
Ages == 0..CacheTime
Recent == 0..(CacheTime - 1)
Copy(value, age) == [value |-> value, age |-> age]
NoCache == Copy(Defaults, CacheTime)
Copies == [value : Settings, age : Ages]

VARIABLES
    stored,      \* the row; Defaults while there is none
    audited,     \* of each knob, the newest value the history tells
    cache,
    reading,     \* the worker's read: when it began and what it found
    used,        \* the settings of a decision just taken
    inForce,     \* history: of each recent age, the settings stored then
    faulted      \* history: the recent ages at which a read began that failed

vars == <<stored, audited, cache, reading, used, inForce, faulted>>
TypeOK ==
    /\ stored \in Settings /\ audited \in Settings
    /\ cache \in Copies /\ reading \in SUBSET Copies
    /\ used \in SUBSET Settings
    /\ inForce \in [Recent -> SUBSET Settings] /\ faulted \subseteq Recent

Init ==
    /\ stored = Defaults /\ audited = Defaults
    /\ cache = NoCache /\ reading = {}
    /\ used = {}
    /\ inForce = [a \in Recent |-> IF a = 0 THEN {Defaults} ELSE {}]
    /\ faulted = {}

Older(copy) == [copy EXCEPT !.age = IF @ < CacheTime THEN @ + 1 ELSE @]
Tick ==
    /\ cache' = Older(cache) /\ reading' = {Older(r) : r \in reading}
    /\ inForce' = [a \in Recent |-> IF a = 0 THEN {stored} ELSE inForce[a - 1]]
    /\ faulted' = {a \in Recent : a - 1 \in faulted}
    /\ used' = {}
    /\ UNCHANGED <<stored, audited>>

Fresh == cache.age < CacheTime
\* A read answers with the defaults when it fails.
Reads(v) ==
    \/ v = stored /\ UNCHANGED faulted
    \/ v = Defaults /\ faulted' = faulted \cup {0}
\* current, without a pause: on the event loop.
Current(v) ==
    \/ Fresh /\ v = cache.value /\ UNCHANGED faulted
    \/ ~Fresh /\ Reads(v)
Remembered(v) == IF Fresh THEN cache ELSE Copy(v, 0)

\* A candidate is decided on.
Decide ==
    \E v \in Settings :
        /\ Current(v)
        /\ cache' = Remembered(v) /\ used' = {v}
        /\ UNCHANGED <<stored, audited, reading, inForce>>

\* apply: the changes are merged into what current answers; what differs from
\* that is written, with a history, in one transaction.
Merged(v, changes) == [k \in Knobs |-> IF k \in DOMAIN changes THEN changes[k] ELSE v[k]]
Write(v, changes) ==
    LET candidate == Merged(v, changes)
        differing == {k \in DOMAIN changes : v[k] # changes[k]}
    IN IF Coherent(candidate) /\ differing # {}
       THEN /\ stored' = candidate
            /\ audited' = [k \in Knobs |-> IF k \in differing THEN changes[k] ELSE audited[k]]
            /\ inForce' = [inForce EXCEPT ![0] = @ \cup {candidate}]
            /\ cache' = NoCache
       ELSE cache' = Remembered(v) /\ UNCHANGED <<stored, audited, inForce>>
Apply(changes) ==
    \E v \in Settings :
        /\ Current(v) /\ Write(v, changes)
        /\ used' = {} /\ UNCHANGED reading
\* reset: what differs from the defaults is applied.
Reset ==
    \E v \in Settings :
        /\ Current(v)
        /\ LET drifted == {k \in Knobs : v[k] # Defaults[k]}
           IN IF drifted = {} THEN cache' = Remembered(v) /\ UNCHANGED <<stored, audited, inForce>>
              ELSE Write(v, Restrict(Defaults, drifted))
        /\ used' = {} /\ UNCHANGED reading
\* The worker's current in steps: the clock, the database, the cache.
WorkerReads ==
    /\ reading = {} /\ ~Fresh
    /\ \E v \in Settings : Reads(v) /\ reading' = {Copy(v, 0)}
    /\ used' = {} /\ UNCHANGED <<stored, audited, cache, inForce>>
\* Mutant.
Caches_AsOfNow(r) == Copy(r.value, 0)
Caches(r) == r
WorkerCaches ==
    /\ \E r \in reading : cache' = Caches(r)
    /\ reading' = {} /\ used' = {}
    /\ UNCHANGED <<stored, audited, inForce, faulted>>

\* The process ends and starts again: the row stays.
Restart ==
    /\ cache' = NoCache /\ reading' = {} /\ used' = {}
    /\ UNCHANGED <<stored, audited, inForce, faulted>>

Next ==
    \/ Tick \/ Decide \/ Reset \/ Restart
    \/ WorkerReads \/ WorkerCaches
    \/ \E changes \in Changes : Apply(changes)

Spec == Init /\ [][Next]_vars

-----------------------------------------------------------------------------
(* Properties                                                              *)

\* A decision never rests on settings older than the cache allows: they were
\* in force within that time, also when a worker read them before a change
\* and cached them after it, or they are the defaults for a read that failed
\* within that time; and they are coherent (current, apply).
DecidesOnRecentSettings ==
    \A v \in used :
        /\ Coherent(v)
        /\ (\E a \in Recent : v \in inForce[a]) \/ (v = Defaults /\ faulted # {})

\* "A calibration change that is not in this table did not happen through the
\* supported path": what is stored is what the history tells.
EveryChangeAudited == stored = audited
=============================================================================
