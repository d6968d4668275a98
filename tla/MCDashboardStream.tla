-------------------------- MODULE MCDashboardStream --------------------------
(***************************************************************************)
(* Two small instances of DashboardStream for TLC, each a set of           *)
(* behaviours of the same variables: "order", whose bounds the .cfg gives, *)
(* with heartbeats enough to fill a queue and to exhaust the replay        *)
(* window; and "restart", with a restart and a failed aggregation.         *)
(***************************************************************************)
EXTENDS DashboardStream

VARIABLE scenario

OneClient == {"b1"}
MCContents == {"before", "after"}

R == INSTANCE DashboardStream WITH
        MaxBeats <- 1, MaxConnects <- 2, MaxRestarts <- 1, MaxFaults <- 1

Order(A) == scenario = "order" /\ A /\ UNCHANGED scenario
Restarted(A) == scenario = "restart" /\ A /\ UNCHANGED scenario
allVars == <<scenario, vars>>
MCInit == scenario \in {"order", "restart"} /\ Init
MCNext == Order(Next) \/ Restarted(R!Next)
MCSpec ==
    /\ MCInit /\ [][MCNext]_allVars
    /\ WF_allVars(Order(SnapshotStep) \/ Restarted(R!SnapshotStep))
    /\ WF_allVars(Order(HeartbeatStep) \/ Restarted(R!HeartbeatStep))
    /\ \A b \in Builders :
        /\ WF_allVars(Order(Aggregate(b)) \/ Restarted(R!Aggregate(b)))
        /\ WF_allVars(Order(Publish(b)) \/ Restarted(R!Publish(b)))

\* While a browser stays connected, the newest snapshot ends up with the business
\* state that stopped changing; in the other instance heartbeats without changes
\* push that snapshot out of the window (DashboardStream.EventuallyCurrent).
RestartEventuallyCurrent == scenario = "restart" => EventuallyCurrent
=============================================================================
