---------------------------- MODULE MCPhmSystem ----------------------------
(* TLC instance of the whole pipeline: two detectors for the safety run,   *)
(* one, with a poisoned score added, for the liveness run.                 *)
EXTENDS PhmSystem

CONSTANTS ood, freq

MCPair == {ood, freq}

MCOne == {ood}

MCScores == {10, STOP_THRESHOLD}

MCWireActions == {ACTION_STOP_AND_HOLD}

Say(score, violating) ==
  [score |-> score, violating |-> violating, action |-> ACTION_STOP_AND_HOLD]

MCHealthyOrStop == {Say(10, FALSE), Say(STOP_THRESHOLD, TRUE)}

MCAlsoPoisoned == MCHealthyOrStop \cup {Say(NonFinite, TRUE)}
=============================================================================
