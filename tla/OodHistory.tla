----------------------------- MODULE OodHistory -----------------------------
(***************************************************************************)
(* The OOD core with an observer of its judgements.  The observer counts   *)
(* accepted frames, the time the detector runs on; it never reads the      *)
(* frame counter, the hysteresis run or the cached verdict of the core.    *)
(* Its counters stop at Horizon, beyond which no property compares them.   *)
(***************************************************************************)
EXTENDS OodCore

VARIABLES lowFor,       \* frames since the run of low spreads began
          unbroken,     \* low judgements in a row, poison breaking the row
          calm,         \* frames on a full window since a judgement was not low
          toxic         \* frames for which the full window has held poison

observer == <<lowFor, unbroken, calm, toxic>>

historyVars == <<oodVars, observer>>

Horizon == MinConsecutive * ComputeEvery

Up(counter) == IF counter < Horizon THEN counter + 1 ELSE counter

Full == filled = Window

PoisonInside == \E i \in Slots : ring[i] \in Poisoned

\* One accepted frame; judgement is "none", "low", "high" or "poison".
Observe(judgement) ==
  /\ lowFor' = CASE ~Full' \/ judgement = "high" -> 0
                 [] Full' /\ judgement = "low"    -> Up(lowFor)
                 [] Full' /\ judgement \in {"none", "poison"} ->
                      IF lowFor = 0 THEN 0 ELSE Up(lowFor)
  /\ unbroken' = CASE ~Full' \/ judgement \in {"high", "poison"} -> 0
                   [] Full' /\ judgement = "none" -> unbroken
                   [] Full' /\ judgement = "low"  ->
                        IF unbroken < MinConsecutive THEN unbroken + 1 ELSE unbroken
  /\ calm' = IF Full' /\ judgement \in {"none", "low"} THEN Up(calm) ELSE 0
  /\ toxic' = IF Full' /\ PoisonInside' THEN Up(toxic) ELSE 0

ObservedInit ==
  /\ Init
  /\ lowFor = 0 /\ unbroken = 0 /\ calm = 0 /\ toxic = 0

ObservedReject(f) == Reject(f) /\ UNCHANGED observer

ObservedSkip(f) == (WarmUp(f) \/ Replay(f)) /\ Observe("none")

ObservedPoison(f) == JudgePoison(f) /\ Observe("poison")

ObservedSpread(f) ==
  \E spread \in Spreads \cup {0} :
    JudgeSpread(f, spread) /\ Observe(IF Below(spread) THEN "low" ELSE "high")

ObservedReset ==
  /\ Reset
  /\ lowFor' = 0 /\ unbroken' = 0 /\ calm' = 0 /\ toxic' = 0

ObservedSetThreshold == SetThreshold /\ UNCHANGED observer

ObservedNext ==
  \/ \E f \in Frame : ObservedReject(f)
  \/ \E f \in Frame : ObservedSkip(f)
  \/ \E f \in Frame : ObservedPoison(f)
  \/ \E f \in Frame : ObservedSpread(f)
  \/ ObservedReset
  \/ ObservedSetThreshold

ObservedSpec == ObservedInit /\ [][ObservedNext]_historyVars
-----------------------------------------------------------------------------
Floored == verdict # NoVerdict /\ BelowFloor(verdict.score)

(***************************************************************************)
(* No alarm comes from a noisy frame: at an alarm no spread has been       *)
(* healthy for as many frames as MinConsecutive computed spreads take at   *)
(* the least, whatever frames were refused, skipped or poisoned in between *)
(* and however often the window started over (README.md:22,                *)
(* ood_core.hpp:8, 18-20).                                                 *)
(***************************************************************************)
NoEarlyAlarm == Alarming => lowFor >= Earliest

(***************************************************************************)
(* config/phm_ood.yaml:23-24: an alarm needs consecutive violating frames. *)
(* A poisoned frame is not a violating one.                                *)
(***************************************************************************)
ConsecutiveConfirm == Alarming => unbroken >= MinConsecutive

(***************************************************************************)
(* An alarm is not late: once every computed spread of a full window has   *)
(* been low for MinConsecutive periods of the compute gate, the verdict of *)
(* an accepted frame is an alarm, unless it is below the severity floor.   *)
(***************************************************************************)
AlarmIsTimely ==
  accepted /\ calm >= MinConsecutive * ComputeEvery => Alarming \/ Floored

(***************************************************************************)
(* A poisoned window reads as bad input after one period of the gate at    *)
(* the latest and for as long as it is poisoned: the gate carries the bad  *)
(* input forward, never the last good verdict (ood_core.cpp:149-153).      *)
(***************************************************************************)
PoisonSurfaces == accepted /\ toxic >= ComputeEvery => verdict = BadInput

=============================================================================
