---------------------------- MODULE MCDetectors ----------------------------
(* TLC instance of the detectors node: a topic that speaks, watched for    *)
(* silence and for its rate; one that only comes and goes on the graph;    *)
(* and the CPU metric.                                                     *)
EXTENDS Detectors

CONSTANTS scan, odom, cpu

MCOneTopic == {scan}

MCTwoTopics == {scan, odom}

MCMaxCount == [t \in MCTwoTopics |-> IF t = scan THEN 2 ELSE 0]

MCMetrics == {cpu}

MCReadings == {40, 90}
============================================================================
