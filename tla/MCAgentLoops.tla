---------------------------- MODULE MCAgentLoops ----------------------------
(* The loops of an agent, for one run: a behaviour is of the one that      *)
(* restarts a crashed instance or of the one that sends heartbeats, with   *)
(* what becomes of the metrics in them.                                    *)
EXTENDS AutoRestart, Metrics

\* The waits of the five attempts grow with the default delay of 10 s: the last is 160 s
\* and the cap 5 min.  The hypothesis under which OperatorsProofs proves one restart at
\* a time.
ASSUME MCWaits == WaitsGrow

VARIABLE part

all == <<vars, metricsVars, part>>

MCInit ==
    /\ Init /\ MetricsInit
    /\ part \in {"restarts", "heartbeats"}
    /\ part = "heartbeats" => state = "stopped"

RestartStep == part = "restarts" /\ Next /\ UNCHANGED <<metricsVars, part>>
HeartbeatStep == part = "heartbeats" /\ MetricsNext /\ UNCHANGED <<vars, part>>

\* The metrics end at their bounds; the restarts have none and must not get stuck.
AtBound == part = "heartbeats" /\ UNCHANGED all

MCNext == RestartStep \/ HeartbeatStep \/ AtBound

MCSpec == MCInit /\ [][MCNext]_all /\ Fairness
=============================================================================
