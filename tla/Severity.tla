------------------------------ MODULE Severity ------------------------------
(***************************************************************************)
(* The shared severity scale of phm_core (severity.hpp, severity.cpp): the *)
(* health states, the suggested actions and the score bands every detector *)
(* verdict is read with.  Pure operators, no state.                        *)
(*                                                                         *)
(* A score is an integer number of hundredths: the band edges 0.25, 0.50   *)
(* and 0.80 are exact, and every comparison the code makes between scores  *)
(* is kept.  NonFinite stands for NaN and both infinities.                 *)
(***************************************************************************)
EXTENDS Integers

CONSTANT NonFinite      \* a score that is NaN, +inf or -inf

ASSUME NonFiniteAssumption == NonFinite \notin Int

STATE_OK        == 0
STATE_DEGRADED  == 1
STATE_INTERVENE == 2
STATE_STOP      == 3

SeverityStates == STATE_OK .. STATE_STOP

ACTION_NONE          == 0
ACTION_LOG_ONLY      == 1
ACTION_HOLD          == 2
ACTION_STOP_AND_HOLD == 3
ACTION_REWIND        == 4

AllowedActions == ACTION_NONE .. ACTION_REWIND

DEGRADED_THRESHOLD  == 25
INTERVENE_THRESHOLD == 50
STOP_THRESHOLD      == 80
BAD_INPUT_SCORE     == 50

(***************************************************************************)
(* score_to_state: the band of a finite score.  The clamp to [0, 1] that   *)
(* classify applies first moves no score across an edge.                   *)
(***************************************************************************)
ScoreToState(score) ==
  CASE score >= STOP_THRESHOLD      -> STATE_STOP
    [] score \in INTERVENE_THRESHOLD .. STOP_THRESHOLD - 1     -> STATE_INTERVENE
    [] score \in DEGRADED_THRESHOLD .. INTERVENE_THRESHOLD - 1 -> STATE_DEGRADED
    [] score < DEGRADED_THRESHOLD   -> STATE_OK

AtLeast(floor, value) == IF value >= floor THEN value ELSE floor
=============================================================================
