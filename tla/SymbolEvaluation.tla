-------------------------- MODULE SymbolEvaluation --------------------------
(***************************************************************************)
(* One evaluation of a candidate: the cheap 4h prefilter that may keep a   *)
(* WATCH symbol where it is, the waterfall of venues in which the first    *)
(* with a complete packet is selected, the derivatives and the benchmark   *)
(* asked for beside it, and the verdict on what was found.  What a venue   *)
(* answers is chosen anew in every step; packets are abstracted to which   *)
(* of their parts are complete and what the gates say of them.             *)
(***************************************************************************)
EXTENDS Integers, Sequences, FiniteSets, SequencesExt

CONSTANTS
    Chain,            \* the venues in their order of priority
    Futures,          \* the one whose derivatives can be read directly
    RequiredNoHype,   \* venues the waterfall prefilter needs
    CoinGlass         \* is the aggregator configured

EvaluationAssumption ==
    /\ Chain \in Seq(STRING) /\ Futures \in Range(Chain)
    /\ IsInjective(Chain) /\ "none" \notin Range(Chain)
    /\ RequiredNoHype \in Nat \ {0} /\ CoinGlass \in BOOLEAN

Venues == Range(Chain)
None == "none"
Stages == {"hype", "damage", "setup", "trigger"}
Gates == {"candles", "flow", "sellers", "confirmed", "location"}
Levels == {"low", "armed", "triggered"}
\* The answers of the gates a verdict tells apart: all hold, or all but the
\* one the experimental trigger does without, or another is missing.
GateAnswers == {Gates, Gates \ {"confirmed"}, Gates \ {"flow"}}
\* The stages of one evaluation a verdict tells apart.
StageAnswers == {{}, {"hype"}, {"trigger"}, {"hype", "trigger"}, Stages}

VARIABLES
    step,         \* where the evaluation is
    position,     \* the venue of the chain that is asked next
    unusable,     \* venues the running waterfall rejected, with a reason
    quiet,        \* venues in which the prefilter saw no hype
    loud,         \* the prefilter saw hype, or could not see (history)
    slot,         \* a full revalidation of WATCH symbols may start
    selected,     \* the venue of the evidence
    asks,         \* the derivatives sources still to be asked
    refused,      \* those that had nothing
    derivatives,  \* the source of the derivatives packet
    benchmark,    \* the venues whose benchmark packet is in the cache
    outcome       \* the verdict

vars == <<step, position, unusable, quiet, loud, slot, selected, asks, refused,
          derivatives, benchmark, outcome>>

NoOutcome == [status |-> None, valid |-> FALSE, eligible |-> FALSE,
              profile |-> None]
Sources == {"direct", "coinglass"} \X Venues
TypeOK ==
    /\ step \in {"idle", "hint", "probe", "venue", "derivatives", "benchmark",
                 "judge", "done"}
    /\ position \in 1..(Len(Chain) + 1)
    /\ unusable \subseteq Venues /\ quiet \subseteq Venues
    /\ loud \in BOOLEAN /\ slot \in BOOLEAN
    /\ selected \in Venues \cup {None}
    /\ asks \in Seq(Sources) /\ refused \subseteq Sources
    /\ derivatives \in Sources \cup {<<None>>}
    /\ benchmark \subseteq Venues
    /\ outcome.eligible \in BOOLEAN /\ outcome.valid \in BOOLEAN

evidence == <<selected, asks, refused, derivatives>>

Init ==
    /\ step = "idle" /\ position = 1
    /\ unusable = {} /\ quiet = {} /\ loud = FALSE /\ slot = TRUE
    /\ selected = None /\ asks = <<>> /\ refused = {} /\ derivatives = <<None>>
    /\ benchmark = {}
    /\ outcome = NoOutcome

Here == Chain[position]
Exhausted == position > Len(Chain)
\* The full validation starts at the head of the chain.
Full == step' = "venue" /\ position' = 1 /\ unusable' = {}
Observed(status) == [NoOutcome EXCEPT !.status = status]

\* A WATCH symbol without an open decision is probed first, at the source of
\* its last full validation when it is known.
Begin(watched, known) ==
    /\ step = "idle"
    /\ step' = IF ~watched THEN "venue" ELSE IF known THEN "hint" ELSE "probe"
    /\ UNCHANGED <<position, unusable, quiet, loud, slot, evidence, benchmark, outcome>>

\* The slot of full revalidations: taken it is closed for a while.
ClaimOrKeep(due) ==
    IF due /\ slot
    THEN Full /\ slot' = FALSE /\ UNCHANGED outcome
    ELSE /\ step' = "done" /\ outcome' = Observed("WATCH")
         /\ UNCHANGED <<slot, position, unusable>>
SlotOpens ==
    /\ ~slot /\ slot' = TRUE
    /\ UNCHANGED <<step, position, unusable, quiet, loud, evidence, benchmark, outcome>>

\* watch_prefilter: one venue, the one the symbol was fully validated at.
Hint(v, answer, due) ==
    /\ step = "hint"
    /\ \/ answer \in {"unusable", "hype"} /\ Full /\ loud' = TRUE
          /\ UNCHANGED <<slot, outcome, quiet>>
       \/ answer = "no hype" /\ ClaimOrKeep(due) /\ quiet' = {v}
          /\ UNCHANGED loud
    /\ UNCHANGED <<evidence, benchmark>>

\* watch_prefilter_waterfall: every compatible venue must answer, none hype.
Probe(answer) ==
    /\ step = "probe" /\ ~Exhausted
    /\ \/ answer = "incompatible" /\ UNCHANGED <<unusable, quiet>>
       \/ answer = "unusable" /\ unusable' = unusable \cup {Here} /\ UNCHANGED quiet
       \/ answer = "no hype" /\ quiet' = quiet \cup {Here} /\ UNCHANGED unusable
    /\ position' = position + 1
    /\ loud' = (loud \/ answer = "unusable")
    /\ UNCHANGED <<step, slot, evidence, benchmark, outcome>>
ProbeHype ==
    /\ step = "probe" /\ ~Exhausted
    /\ Full /\ loud' = TRUE
    /\ UNCHANGED <<quiet, slot, evidence, benchmark, outcome>>
\* Mutant.
Conclusive_IgnoresInvalid == Cardinality(quiet) >= RequiredNoHype
Conclusive == unusable = {} /\ Cardinality(quiet) >= RequiredNoHype
ProbeEnds ==
    /\ step = "probe" /\ Exhausted
    /\ IF Conclusive THEN ClaimOrKeep(TRUE) ELSE Full /\ UNCHANGED <<slot, outcome>>
    /\ UNCHANGED <<quiet, loud, evidence, benchmark>>

\* cross_check_symbol: a venue that has no compatible market is not counted;
\* one without order book, fresh flow or all timeframes gives a reason.
Skip(answer) ==
    /\ step = "venue" /\ ~Exhausted
    /\ unusable' = IF answer = "incompatible" THEN unusable ELSE unusable \cup {Here}
    /\ position' = position + 1
    /\ UNCHANGED <<step, quiet, loud, slot, evidence, benchmark, outcome>>
\* The derivatives are asked for at the futures venue while its price agrees,
\* at the selected venue, and at the aggregator for each of the two.
Queue(compatible) ==
    LET venues == IF selected' = Futures \/ ~compatible THEN <<selected'>>
                  ELSE <<Futures, selected'>>
    IN [i \in 1..Len(venues) |-> <<"direct", venues[i]>>] \o
       IF CoinGlass THEN [i \in 1..Len(venues) |-> <<"coinglass", venues[i]>>]
       ELSE <<>>
Select(compatible) ==
    /\ step = "venue" /\ ~Exhausted
    /\ selected' = Here
    /\ step' = "derivatives" /\ asks' = Queue(compatible)
    /\ UNCHANGED <<position, unusable, quiet, loud, slot, refused, derivatives,
                   benchmark, outcome>>
Unavailable ==
    /\ step = "venue" /\ Exhausted
    /\ step' = "done" /\ outcome' = Observed("REJECTED")
    /\ UNCHANGED <<position, unusable, quiet, loud, slot, evidence, benchmark>>

\* Only the futures venue has a packet of its own.
Ask(ok) ==
    /\ step = "derivatives" /\ asks # <<>>
    /\ ok => asks[1][1] = "coinglass" \/ asks[1][2] = Futures
    /\ IF ok
       THEN derivatives' = asks[1] /\ asks' = <<>> /\ UNCHANGED refused
       ELSE asks' = Tail(asks) /\ refused' = refused \cup {asks[1]}
            /\ UNCHANGED derivatives
    /\ UNCHANGED <<step, position, unusable, quiet, loud, slot, selected, benchmark, outcome>>
Asked ==
    /\ step = "derivatives" /\ asks = <<>>
    /\ step' = "benchmark"
    /\ UNCHANGED <<position, unusable, quiet, loud, slot, evidence, benchmark, outcome>>

\* _benchmark_context: a packet, complete or not, is kept for a while; a fetch
\* that cannot start leaves none, and nothing here stops the evaluation.
Benchmark(fetched) ==
    /\ step = "benchmark"
    /\ step' = "judge"
    /\ benchmark' = benchmark \cup {v \in {selected} : fetched}
    /\ UNCHANGED <<position, unusable, quiet, loud, slot, evidence, outcome>>
BenchmarkExpires(v) ==
    /\ v \in benchmark
    /\ benchmark' = benchmark \ {v}
    /\ UNCHANGED <<step, position, unusable, quiet, loud, slot, evidence, outcome>>

\* _observational_status.
Observational(stages) ==
    IF "hype" \notin stages THEN "WATCH"
    ELSE IF stages = {"hype"} THEN "FUEL-RICH" ELSE "PRE-TRIGGER"
\* The chain of this evaluation, or the persisted one with a trigger now.
ChainComplete(stages, persisted) ==
    stages = Stages \/ (persisted /\ "trigger" \in stages)
Strict(gates, stages, persisted) ==
    gates = Gates /\ ChainComplete(stages, persisted)
\* The experimental trigger, when enabled and the observation scores high
\* enough, does without confirmation and chain.
Experimental(high, gates, stages) ==
    /\ high
    /\ Observational(stages) = "PRE-TRIGGER" /\ "trigger" \in stages
    /\ Gates \ {"confirmed"} \subseteq gates
\* A position that cannot be set up takes the alert back to WATCH.
Placed(status, ready) ==
    IF status \in {"ARMED", "TRIGGERED"} /\ ~ready THEN "WATCH" ELSE status
Suggested(level) ==
    CASE level = "triggered" -> "TRIGGERED"
      [] level = "armed" -> "ARMED"
      [] level = "low" -> "WATCH"

Verdict(gates, stages, persisted, level, high, ready) ==
    IF derivatives = <<None>> THEN Observed("REJECTED")
    ELSE IF Strict(gates, stages, persisted)
    THEN [status |-> Placed(Suggested(level), ready), valid |-> TRUE,
          eligible |-> TRUE, profile |-> "strict"]
    ELSE IF Experimental(high, gates, stages)
    THEN [status |-> Placed("TRIGGERED", ready), valid |-> TRUE,
          eligible |-> FALSE, profile |-> "experimental"]
    ELSE Observed("REJECTED")

Judge(gates, stages, persisted, level, high, ready) ==
    /\ step = "judge"
    /\ step' = "done"
    /\ outcome' = Verdict(gates, stages, persisted, level, high, ready)
    /\ UNCHANGED <<position, unusable, quiet, loud, slot, evidence, benchmark>>

\* The result is handed to the hunter and the next evaluation may begin.
Finish ==
    /\ step = "done"
    /\ step' = "idle" /\ position' = 1 /\ unusable' = {} /\ quiet' = {}
    /\ loud' = FALSE /\ selected' = None /\ asks' = <<>> /\ refused' = {}
    /\ derivatives' = <<None>> /\ outcome' = NoOutcome
    /\ UNCHANGED <<slot, benchmark>>

Next ==
    \/ \E watched, known \in BOOLEAN : Begin(watched, known)
    \/ SlotOpens \/ ProbeHype \/ ProbeEnds \/ Unavailable \/ Asked \/ Finish
    \/ \E v \in Venues, answer \in {"unusable", "hype", "no hype"}, due \in BOOLEAN :
        Hint(v, answer, due)
    \/ \E answer \in {"incompatible", "unusable", "no hype"} : Probe(answer)
    \/ \E answer \in {"incompatible", "unusable"} : Skip(answer)
    \/ \E b \in BOOLEAN : Select(b) \/ Ask(b) \/ Benchmark(b)
    \/ \E v \in Venues : BenchmarkExpires(v)
    \/ \E gates \in GateAnswers, stages \in StageAnswers, level \in Levels,
          persisted, high, ready \in BOOLEAN :
        Judge(gates, stages, persisted, level, high, ready)

Spec == Init /\ [][Next]_vars

-----------------------------------------------------------------------------
(* Properties                                                              *)

\* What an evaluation reports rests on evidence of the one selected venue,
\* never on a mixture: an alert has a derivatives packet of that venue or of
\* the futures venue, the aggregator's only after the direct source had
\* nothing (cross_check_symbol, _derivatives_context).
EvidenceOfOneVenue ==
    outcome.valid =>
        /\ selected # None /\ selected \notin unusable
        /\ derivatives # <<None>> /\ derivatives[2] \in {selected, Futures}
        /\ derivatives[1] = "coinglass" => <<"direct", derivatives[2]>> \in refused

\* A symbol is kept at WATCH without its full validation only if no venue
\* that was asked showed hype or failed to answer: what cannot be seen is
\* never taken for quiet (watch_prefilter, watch_prefilter_waterfall).
KeptOnlyWhenQuiet ==
    outcome.status = "WATCH" /\ ~outcome.valid =>
        ~loud /\ selected = None /\ quiet # {}

\* The verdict of an evaluation is warranted by what it saw.
VerdictIsWarranted == EvidenceOfOneVenue /\ KeptOnlyWhenQuiet
=============================================================================
