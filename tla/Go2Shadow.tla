------------------------------ MODULE Go2Shadow ------------------------------
(***************************************************************************)
(* The Go2 integration's two programs with a stale-input check: the        *)
(* standalone monitor, and the shadow embedder with stale_check, which     *)
(* runs a policy on the readings and can be told to inject a fault.        *)
(*                                                                         *)
(* Both sample the newest /lowstate at each tick of a timer and give what  *)
(* they show (the embedder: after the fault) to a StaleSignalAdapter.  A   *)
(* reading gives each channel group a content, NaN when one of its         *)
(* channels is NaN.  The policy and its last-action term are external;     *)
(* the reading an observation is assembled from is what the check sees.    *)
(* The runs of the adapter are unbounded ints; here they stop one past the *)
(* score's saturation, where only the group named in the reason can still  *)
(* change.                                                                 *)
(***************************************************************************)
EXTENDS Severity, FiniteSets, Sequences, FiniteSetsExt

CONSTANTS Groups,         \* channel groups
          Gyro, Calf,     \* the groups the stuck faults hold
          Limit,          \* max_repeats of each group
          Contents,       \* contents of a group that are numbers
          NaN,            \* the content of a group with a NaN in it
          NoReading,      \* nothing received, shown or frozen yet
          NoVerdict       \* nothing published

ASSUME Go2Assumption ==
  /\ {Gyro, Calf} \subseteq Groups /\ IsFiniteSet(Groups)
  /\ Limit \in [Groups -> Nat \ {0}]
  /\ NaN \notin Contents
  /\ NoVerdict \notin [score : 0 .. 100, violating : BOOLEAN, action : AllowedActions]

VARIABLES program, fault, \* which program was launched, and its parameter
          faultActive,    \* fault_after_sec has passed
          latest,         \* the newest reading, NoReading while have_ is false
          frozen, frozenReading,  \* of the stepper
          input,          \* the reading of the last observation
          prev, runs,     \* of the adapter
          verdict,        \* what the last tick published
          shown,          \* the last contents shown of each group (history)
          quietFor,       \* ticks since a message (history)
          faultFor        \* observations since the fault was injected (history)

config  == <<program, fault>>
stepper == <<frozen, frozenReading, input>>
adapter == <<prev, runs, shown>>

go2Vars == <<config, faultActive, latest, stepper, adapter, verdict, quietFor, faultFor>>

Held == {"freeze_sensors", "gyro_stuck", "joint_stuck"}

Faults == {"none", "freeze_obs", "stop"} \cup Held

Reading == [Groups -> Contents \cup {NaN}]

ASSUME NoReadingAssumption == NoReading \notin Reading

\* Histories are kept no longer than the slowest group needs.
LongEnough == 2 + Max({Limit[g] : g \in Groups})

-----------------------------------------------------------------------------
AtMost(ceiling, value) == IF value > ceiling THEN ceiling ELSE value

\* classify(score).suggested_action.
SuggestedAction(score) ==
  CASE ScoreToState(score) = STATE_STOP      -> ACTION_STOP_AND_HOLD
    [] ScoreToState(score) = STATE_INTERVENE -> ACTION_HOLD
    [] ScoreToState(score) = STATE_DEGRADED  -> ACTION_LOG_ONLY
    [] ScoreToState(score) = STATE_OK        -> ACTION_NONE

\* Equal to the value before, as numbers are.
Repeats(content, before) == content # NaN /\ content = before

Extended(g, stale) == IF stale THEN AtMost(2 * Limit[g] + 1, runs[g] + 1) ELSE 0

\* Mutated: the longest run is the worst, whatever its limit.
IsWorstByLength(g, run) == \A h \in Groups : run[h] <= run[g]

\* The highest run relative to its limit.
IsWorst(g, run) == \A h \in Groups : run[h] * Limit[g] <= run[g] * Limit[h]

\* Mutated: violating where the score saturates.
OverAtFullScore(g, run) == run[g] > 2 * Limit[g]

Over(g, run) == run[g] > Limit[g]

\* StaleSignalAdapter::update's verdict on the worst group.  Groups that
\* tie for the worst give the same verdict.
StaleVerdict(run) ==
  LET worst == CHOOSE g \in Groups : IsWorst(g, run)
      score == AtMost(100, (run[worst] * 100) \div (2 * Limit[worst]))
  IN  [score |-> score, violating |-> Over(worst, run), action |-> SuggestedAction(score)]

Recent(g, contents) ==
  IF Len(contents) > Limit[g] + 2 THEN Tail(contents) ELSE contents

\* StaleSignalAdapter::update on a reading, and its verdict published.
Check(reading) ==
  /\ runs' = [g \in Groups |->
       Extended(g, prev # NoReading /\ Repeats(reading[g], prev[g]))]
  /\ prev' = reading
  /\ verdict' = StaleVerdict(runs')
  /\ shown' = [g \in Groups |-> Recent(g, Append(shown[g], reading[g]))]
-----------------------------------------------------------------------------
Init ==
  /\ program \in {"stale_monitor", "shadow_embedder"}
  /\ fault \in IF program = "stale_monitor" THEN {"none"} ELSE Faults
  /\ faultActive \in BOOLEAN
  /\ fault = "none" => ~faultActive
  /\ latest = NoReading
  /\ frozen = FALSE /\ frozenReading = NoReading /\ input = NoReading
  /\ prev = NoReading /\ runs = [g \in Groups |-> 0]
  /\ verdict = NoVerdict
  /\ shown = [g \in Groups |-> <<>>]
  /\ quietFor = 0 /\ faultFor = 0

\* fault_after_sec passes.
FaultTime ==
  /\ fault # "none" /\ ~faultActive
  /\ faultActive' = TRUE
  /\ UNCHANGED <<config, latest, stepper, adapter, verdict, quietFor, faultFor>>

\* on_lowstate: best-effort, so any reading may be the next to arrive.
LowState ==
  /\ latest' \in Reading
  /\ quietFor' = 0
  /\ UNCHANGED <<config, faultActive, stepper, adapter, verdict, faultFor>>

\* A tick before any message.
Wait == latest = NoReading /\ UNCHANGED <<stepper, adapter, verdict, faultFor>>

\* StaleMonitor::tick.
MonitorTick ==
  /\ program = "stale_monitor" /\ latest # NoReading
  /\ Check(latest)
  /\ UNCHANGED <<stepper, faultFor>>

Stopped == faultActive /\ fault = "stop"

\* The policy that stopped: no embedding, no verdict.
Silent ==
  /\ program = "shadow_embedder" /\ latest # NoReading /\ Stopped
  /\ verdict' = NoVerdict
  /\ UNCHANGED <<stepper, adapter, faultFor>>

\* The reading as a fault that holds sensors shows it.
HeldInput(reading) ==
  CASE fault = "freeze_sensors" -> reading
    [] fault = "gyro_stuck"     -> [latest EXCEPT ![Gyro] = reading[Gyro]]
    [] fault = "joint_stuck"    -> [latest EXCEPT ![Calf] = reading[Calf]]

StepHeld ==
  /\ faultActive /\ fault \in Held
  /\ frozen' = TRUE
  /\ frozenReading' = IF frozen THEN frozenReading ELSE latest
  /\ input' = HeldInput(frozenReading')

\* Mutated: every tick takes a new snapshot.
StepFreezeObsAnew ==
  /\ faultActive /\ fault = "freeze_obs"
  /\ frozen' = TRUE
  /\ input' = latest
  /\ UNCHANGED frozenReading

\* The first observation under freeze_obs is kept.
StepFreezeObs ==
  /\ faultActive /\ fault = "freeze_obs"
  /\ frozen' = TRUE
  /\ input' = IF frozen THEN input ELSE latest
  /\ UNCHANGED frozenReading

StepLive ==
  /\ ~faultActive
  /\ input' = latest
  /\ UNCHANGED <<frozen, frozenReading>>

\* PhoenixShadowEmbedder::tick around ShadowStepper::step.
EmbedderTick ==
  /\ program = "shadow_embedder" /\ latest # NoReading
  /\ StepHeld \/ StepFreezeObs \/ StepLive
  /\ Check(input')
  /\ faultFor' = IF frozen' THEN AtMost(LongEnough, faultFor + 1) ELSE 0

Tick ==
  /\ Wait \/ MonitorTick \/ Silent \/ EmbedderTick
  /\ quietFor' = AtMost(LongEnough, quietFor + 1)
  /\ UNCHANGED <<config, faultActive, latest>>

Next == FaultTime \/ LowState \/ Tick

Spec == Init /\ [][Next]_go2Vars
-----------------------------------------------------------------------------
Alarming == verdict # NoVerdict /\ verdict.violating

Unchanged(g) ==
  /\ Len(shown[g]) = Limit[g] + 2
  /\ \A i \in 1 .. Limit[g] + 2 : shown[g][i] # NaN /\ shown[g][i] = shown[g][1]

HeldGroups ==
  CASE fault \in {"freeze_obs", "freeze_sensors"} -> Groups
    [] fault = "gyro_stuck"                       -> {Gyro}
    [] fault = "joint_stuck"                      -> {Calf}
    [] fault \in {"none", "stop"}                 -> {}

(***************************************************************************)
(* While verdicts are published, there is an alarm exactly when some group *)
(* has been shown unchanged for more than its limit of ticks: the one      *)
(* verdict on the worst group hides no other group, and no group alarms    *)
(* through a reading that changed (adapters.cpp:317-337).                  *)
(***************************************************************************)
StaleIsExact == verdict # NoVerdict => (Alarming <=> \E g \in Groups : Unchanged(g))

(***************************************************************************)
(* A robot state that stops arriving alarms after the limit of any group   *)
(* that is a number, with a fault or without, although the programs never  *)
(* look at the age of a message (stale_monitor_node.cpp:94-99).            *)
(***************************************************************************)
SilenceSurfaces ==
  latest # NoReading /\ ~Stopped =>
    \A g \in Groups : quietFor > Limit[g] + 1 /\ prev[g] # NaN => Alarming

(***************************************************************************)
(* An injected sensor fault is seen by the embedder's own check within     *)
(* its group's limit, while the rest of the reading stays live, as the     *)
(* sessions measured it (README.md:178-179, 246-249).                      *)
(***************************************************************************)
StuckIsFlagged ==
  \A g \in HeldGroups : faultFor > Limit[g] + 1 /\ prev[g] # NaN => Alarming
=============================================================================
