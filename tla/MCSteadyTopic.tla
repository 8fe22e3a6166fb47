--------------------------- MODULE MCSteadyTopic ---------------------------
(* TLC instance: one steady topic, four units to a tick. *)
EXTENDS SteadyTopic

CONSTANTS scan, cpu

MCOneTopic == {scan}

MCMetrics == {cpu}

MCMaxCount == [t \in MCOneTopic |-> 3]

MCReadings == {40}
=============================================================================
