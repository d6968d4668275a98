---------------------------- MODULE MCEvaluation ----------------------------
(***************************************************************************)
(* Small instances of the machines of Evaluation for TLC, with the sizes   *)
(* of Evaluation.cfg: three candidates for two places, two symbols of a    *)
(* venue, one row of trades over six instants, three venues.               *)
(***************************************************************************)
EXTENDS Evaluation

\* A hype, a damage with its setup, and a hype that triggers.
SomeStages == {{"hype"}, {"damage", "setup"}, {"hype", "trigger"}}
MCChain == <<"okx", "binance", "htx">>
MCInterests == {-50, -25, 0, 50}
MCMomenta == {-40, 0, 20}
SomePacket == [funding |-> 0, percentile |-> 50, interest |-> 0,
               taker |-> 100, crowd |-> 120, bearish |-> FALSE]
SomeInput == [entry |-> 9990, high |-> 0, atr |-> 50, friction |-> 5,
              tick |-> 1, readiness |-> 70, suitability |-> "SUITABLE",
              exchange |-> 0]
=============================================================================
