------------------------------ MODULE Detectors ------------------------------
(***************************************************************************)
(* phm_detectors: DetectorsNode over phm_core's FrequencyDropAdapter,      *)
(* StaticThresholdAdapter and DeadTopicAdapter.  One single-threaded       *)
(* executor: a message, a tick and a binding attempt are one step each.    *)
(*                                                                         *)
(* Time passes in units, TickUnits of them to a tick of the node's timer,  *)
(* which may run up to Late units after it was due without shifting the    *)
(* ticks that follow.  Ages replace the stored monotonic times.  Rates are *)
(* in messages per Scale units, so that count / elapsed is exact, and a    *)
(* baseline is kept as the total of its learning samples.  The alerted_    *)
(* flag of the dead-topic adapter only throttles a log line and is left    *)
(* out.  A subscription that throws is left missing and retried like a     *)
(* topic that is not on the graph.  What the graph shows, and the values   *)
(* of the host metrics, come from outside the repository.                  *)
(***************************************************************************)
EXTENDS Severity

CONSTANTS Topics,            \* watched topics
          DeadTopics,        \* dead_topics
          FreqTopics,        \* freq_topics
          Metrics,           \* host metrics
          CpuPercent,        \* the metric read as a difference
          Readings,          \* values of a metric, in hundredths of twice its limit
          NoReading,         \* the host cannot report the metric
          NoVerdict,         \* nothing published
          TickUnits, Late,
          Timeout,           \* dead_timeout_sec, in units
          Grace,             \* dead_startup_grace_sec, in units
          LearningSamples,   \* kFrequencyLearningSamples
          Tolerance,         \* freq_tolerance_percent
          MinConsecutive,    \* of both hysteresis counters
          Scale,
          MaxCount           \* bound on the messages of one window, by topic

ASSUME DetectorsAssumption ==
  /\ DeadTopics \cup FreqTopics = Topics
  /\ CpuPercent \in Metrics
  /\ Readings \subseteq Nat /\ NoReading \notin Nat
  /\ TickUnits \in Nat \ {0} /\ Late \in 0 .. TickUnits - 1
  /\ Timeout \in Nat \ {0} /\ Grace \in Nat
  /\ LearningSamples \in Nat \ {0} /\ MinConsecutive \in Nat \ {0}
  /\ Tolerance \in 0 .. 100
  /\ MaxCount \in [Topics -> Nat]
  /\ Scale \in Nat /\ \A e \in 1 .. TickUnits + Late : Scale % e = 0

ASSUME NoVerdictAssumption ==
  NoVerdict \notin [score : 0 .. 100, violating : BOOLEAN, action : AllowedActions]

VARIABLES phase, due,     \* units since a tick was due; it has not run yet
          graph,          \* topics with a known type on the graph (external)
          bound,          \* topics with a subscription
          resolving,      \* the binding retry timer runs
          seen, silence,  \* Watch::seen; units since Watch::last_seen
          open, windowAge, count,   \* the frequency window
          samples, total, \* learning samples taken, and their sum
          freqRun,        \* hysteresis of the frequency adapters
          hasPrev,        \* a previous CPU reading exists
          metricRun,      \* hysteresis of the threshold adapters
          deadSaid, metricSaid, freqSaid   \* verdicts of the last tick

timing   == <<phase, due>>
binding  == <<graph, bound, resolving>>
watching == <<seen, silence, open, windowAge, count>>
judging  == <<samples, total, freqRun, hasPrev, metricRun>>
said     == <<deadSaid, metricSaid, freqSaid>>

detectorVars == <<timing, binding, watching, judging, said>>

\* The longest a silence can be without a frequency alarm: a window with a
\* message in it, the learning ticks and MinConsecutive more, the last late.
LearnAndJudge == (LearningSamples + MinConsecutive + 1) * TickUnits + Late

Later(a, b) == IF a > b THEN a ELSE b

\* Ages are compared with nothing beyond this, and no score grows past it.
LongAgo ==
  1 + Later(LearnAndJudge, Later(2 * Timeout, Timeout + Grace + TickUnits + Late))

-----------------------------------------------------------------------------
AtMost(ceiling, value) == IF value > ceiling THEN ceiling ELSE value

\* classify(score).suggested_action.
SuggestedAction(score) ==
  CASE ScoreToState(score) = STATE_STOP      -> ACTION_STOP_AND_HOLD
    [] ScoreToState(score) = STATE_INTERVENE -> ACTION_HOLD
    [] ScoreToState(score) = STATE_DEGRADED  -> ACTION_LOG_ONLY
    [] ScoreToState(score) = STATE_OK        -> ACTION_NONE

Judged(score, violating) ==
  [score |-> score, violating |-> violating, action |-> SuggestedAction(score)]

\* Hysteresis::observe.
Extended(run, violating) == IF violating THEN AtMost(MinConsecutive, run + 1) ELSE 0

\* DeadTopicAdapter::update.
DeadVerdict(elapsed) ==
  LET score == AtMost(100, (elapsed * 100) \div (2 * Timeout))
  IN  IF elapsed > Timeout
        THEN [score |-> score, violating |-> TRUE, action |-> ACTION_STOP_AND_HOLD]
        ELSE Judged(score, FALSE)

\* Mutated: the grace covers every topic until it is over.
InGraceUntilOver(t) == silence[t] < Grace

(***************************************************************************)
(* Nothing received yet and the start-up grace is on.  last_seen is the    *)
(* start time until a first message, so silence is the node's age here.    *)
(***************************************************************************)
InGrace(t) == ~seen[t] /\ silence[t] < Grace

\* The frequency sample of a tick.
Rate(t) ==
  IF open[t] /\ windowAge[t] > 0 THEN (count[t] * Scale) \div windowAge[t] ELSE 0

Learning(t) == samples[t] < LearningSamples

\* hz < baseline * (1 - tolerance / 100).
RateLow(t) == Rate(t) * LearningSamples * 100 < total[t] * (100 - Tolerance)

\* normalize(hz, baseline, 0), 0 without a baseline.
RateScore(t) ==
  IF total[t] = 0 \/ Rate(t) * LearningSamples >= total[t] THEN 0
  ELSE ((total[t] - Rate(t) * LearningSamples) * 100) \div total[t]
-----------------------------------------------------------------------------
\* try_bind_watch_subs: what is on the graph is bound; the retry timer
\* stops once nothing is missing.
Bound == bound \cup graph

Init ==
  /\ phase = 0 /\ due = FALSE
  /\ graph \in SUBSET Topics
  /\ bound = graph
  /\ resolving = (graph # Topics)
  /\ seen = [t \in Topics |-> FALSE] /\ silence = [t \in Topics |-> 0]
  /\ open = [t \in Topics |-> FALSE]
  /\ windowAge = [t \in Topics |-> 0] /\ count = [t \in Topics |-> 0]
  /\ samples = [t \in Topics |-> 0] /\ total = [t \in Topics |-> 0]
  /\ freqRun = [t \in Topics |-> 0]
  /\ hasPrev = FALSE
  /\ metricRun = [m \in Metrics |-> 0]
  /\ deadSaid = [t \in Topics |-> NoVerdict]
  /\ metricSaid = [m \in Metrics |-> NoVerdict]
  /\ freqSaid = [t \in Topics |-> NoVerdict]

\* Time passes; a tick that is due runs before it is Late + 1 units late.
Elapse ==
  /\ due => phase < Late
  /\ phase' = (phase + 1) % TickUnits
  /\ due' = (due \/ phase' = 0)
  /\ silence' = [t \in Topics |->
       IF t \in DeadTopics THEN AtMost(LongAgo, silence[t] + 1) ELSE 0]
  /\ windowAge' = [t \in Topics |-> IF open[t] THEN windowAge[t] + 1 ELSE 0]
  /\ UNCHANGED <<binding, seen, open, count, judging, said>>

\* Topics come and go on the graph (external).
GraphChange ==
  /\ graph' \in SUBSET Topics
  /\ UNCHANGED <<timing, bound, resolving, watching, judging, said>>

\* Mutated: the retry timer stops once something new was bound.
ResolveAny ==
  /\ resolving
  /\ bound' = Bound
  /\ resolving' = (bound' = bound)
  /\ UNCHANGED <<timing, graph, watching, judging, said>>

\* The retry timer fires.
Resolve ==
  /\ resolving
  /\ bound' = Bound
  /\ resolving' = (bound' # Topics)
  /\ UNCHANGED <<timing, graph, watching, judging, said>>

\* on_message: a dead-topic watch is seen, a frequency watch counts.
OnMessage(t) ==
  /\ t \in bound
  /\ count[t] < MaxCount[t]
  /\ IF t \in DeadTopics
       THEN /\ seen' = [seen EXCEPT ![t] = TRUE]
            /\ silence' = [silence EXCEPT ![t] = 0]
       ELSE UNCHANGED <<seen, silence>>
  /\ IF t \in FreqTopics
       THEN /\ open' = [open EXCEPT ![t] = TRUE]
            /\ count' = [count EXCEPT ![t] = @ + 1]
       ELSE UNCHANGED <<open, count>>
  /\ UNCHANGED <<timing, binding, windowAge, judging, said>>

\* The dead-topic part of a tick.
CheckDead ==
  deadSaid' = [t \in Topics |->
    IF t \notin DeadTopics \/ InGrace(t) THEN NoVerdict ELSE DeadVerdict(silence[t])]

(***************************************************************************)
(* The host-metric part: a metric that cannot be read says nothing and     *)
(* keeps its run.  The CPU share needs an earlier reading to subtract.     *)
(***************************************************************************)
CheckMetrics ==
  \E reading \in [Metrics -> Readings \cup {NoReading}] :
    LET value == [m \in Metrics |->
                    IF m = CpuPercent /\ ~hasPrev THEN NoReading ELSE reading[m]]
        high(m) == value[m] > 50
    IN  /\ hasPrev' = (hasPrev \/ reading[CpuPercent] # NoReading)
        /\ metricRun' = [m \in Metrics |->
             IF value[m] = NoReading THEN metricRun[m] ELSE Extended(metricRun[m], high(m))]
        /\ metricSaid' = [m \in Metrics |->
             IF value[m] = NoReading THEN NoVerdict
             ELSE Judged(AtMost(100, value[m]), metricRun'[m] >= MinConsecutive)]

\* Mutated: a window without messages is not sampled.
SampledWhenBusy(t) == t \in FreqTopics /\ count[t] > 0

\* A tick samples every frequency topic, silent or not bound as well.
Sampled(t) == t \in FreqTopics

\* The frequency part: learn or judge this window, and open the next one.
CheckFrequency ==
  LET learns(t) == Sampled(t) /\ Learning(t)
      judges(t) == Sampled(t) /\ ~Learning(t)
  IN  /\ samples' = [t \in Topics |-> IF learns(t) THEN samples[t] + 1 ELSE samples[t]]
      /\ total' = [t \in Topics |-> IF learns(t) THEN total[t] + Rate(t) ELSE total[t]]
      /\ freqRun' = [t \in Topics |->
           IF judges(t) THEN Extended(freqRun[t], RateLow(t)) ELSE freqRun[t]]
      /\ freqSaid' = [t \in Topics |->
           IF judges(t) THEN Judged(RateScore(t), freqRun'[t] >= MinConsecutive)
           ELSE NoVerdict]
      /\ open' = [t \in Topics |-> open[t] \/ t \in FreqTopics]
      /\ count' = [t \in Topics |-> 0]
      /\ windowAge' = [t \in Topics |-> IF t \in FreqTopics THEN 0 ELSE windowAge[t]]

Tick ==
  /\ due
  /\ due' = FALSE
  /\ CheckDead
  /\ CheckMetrics
  /\ CheckFrequency
  /\ UNCHANGED <<phase, binding, seen, silence>>

Next ==
  \/ Elapse
  \/ GraphChange
  \/ Resolve
  \/ \E t \in Topics : OnMessage(t)
  \/ Tick

Spec == Init /\ [][Next]_detectorVars

\* The retry timer fires while it runs; nothing is assumed of the topics, nor
\* of the other timer.
Fairness == WF_detectorVars(Resolve)

FairSpec == Spec /\ Fairness
-----------------------------------------------------------------------------
Alarmed(v) == v # NoVerdict /\ v.violating

(***************************************************************************)
(* A silent topic is reported dead, with a STOP_AND_HOLD, within one tick  *)
(* of the timeout (of the grace, if that ends later and nothing was ever   *)
(* received), bound or not: a topic that spoke once is not covered by the  *)
(* grace any more, one that never came is still reported                   *)
(* (detectors_node.cpp:60-65, 217-222).                                    *)
(***************************************************************************)
DeadInTime ==
  \A t \in DeadTopics :
    silence[t] > TickUnits + Late + (IF seen[t] THEN Timeout ELSE Later(Timeout, Grace))
      => Alarmed(deadSaid[t]) /\ deadSaid[t].action = ACTION_STOP_AND_HOLD

(***************************************************************************)
(* Once a rate above zero has been learned, a topic that goes silent also  *)
(* fails its frequency check, at full score, however many messages its     *)
(* windows held before, whichever ticks ran late, and also when it went    *)
(* silent halfway through the learning phase (adapters.cpp:36-67, 233-252  *)
(* of detectors_node.cpp).                                                 *)
(***************************************************************************)
SilenceFailsFrequency ==
  \A t \in DeadTopics \cap FreqTopics :
    /\ total[t] > 0 /\ Tolerance < 100
    /\ silence[t] > LearnAndJudge
    => Alarmed(freqSaid[t]) /\ freqSaid[t].score = 100

(***************************************************************************)
(* A topic that stays on the graph is eventually subscribed to, however    *)
(* late it appears and however often it came and went before               *)
(* (detectors_node.hpp:5-8).                                               *)
(***************************************************************************)
PresentTopicsBind ==
  \A t \in Topics : <>[](t \in graph) => <>[](t \in bound)
=============================================================================
