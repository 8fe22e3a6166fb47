------------------------------ MODULE MCArbiter ------------------------------
(* TLC instance of the arbiter: two sources, a score inside the OK band    *)
(* and the two edges that change what recovery does, and an action that is *)
(* and one that is not in the allowlist.                                   *)
EXTENDS ArbiterLoop

CONSTANTS ood, freq

MCScores == {10, INTERVENE_THRESHOLD, STOP_THRESHOLD}

MCWireActions == {ACTION_REWIND, 200}

MCDetectors == {ood, freq}
=============================================================================
