-------------------------- MODULE DetectorsProofs ---------------------------
(***************************************************************************)
(* Proofs about the detectors node: how long a topic can be silent before  *)
(* its dead-topic check and its frequency check say so, for any topics,    *)
(* tick, lateness, timeout, grace, learning phase and hysteresis.          *)
(***************************************************************************)
EXTENDS Detectors, TLAPS

\* What the theorems need of the types; LearnsFirst orders the two phases.
Typed ==
  /\ phase \in 0 .. TickUnits - 1 /\ due \in BOOLEAN
  /\ seen \in [Topics -> BOOLEAN] /\ silence \in [Topics -> Nat]
  /\ open \in [Topics -> BOOLEAN]
  /\ windowAge \in [Topics -> Nat] /\ count \in [Topics -> Nat]
  /\ samples \in [Topics -> 0 .. LearningSamples] /\ total \in [Topics -> Nat]
  /\ freqRun \in [Topics -> 0 .. MinConsecutive]
  /\ DOMAIN deadSaid = Topics /\ DOMAIN freqSaid = Topics

LearnsFirst == \A t \in Topics : Learning(t) => freqRun[t] = 0

\* The longest time since the last tick ran, or since the start.
SinceTick == IF due THEN TickUnits + phase ELSE phase

LatenessIsBounded == due => phase <= Late

\* Silence a tick has had no chance to judge yet.
Allowed(t) == IF seen[t] THEN Timeout ELSE Later(Timeout, Grace)

SaysDead(v) == Alarmed(v) /\ v.action = ACTION_STOP_AND_HOLD

(***************************************************************************)
(* DeadInTime as it is inductive: what the last tick saw of a silence is   *)
(* the silence less the time since that tick.                              *)
(***************************************************************************)
DeadTicks ==
  \A t \in DeadTopics : silence[t] > SinceTick + Allowed(t) => SaysDead(deadSaid[t])

\* Ticks done of those a topic needs: learning ones, then the run.
Progress(t) == samples[t] + freqRun[t]

HasBaseline(t) == total[t] > 0 /\ Tolerance < 100

\* Topics whose messages are both counted and timed.
BothWatched == DeadTopics \cap FreqTopics

(***************************************************************************)
(* SilenceFailsFrequency as it is inductive.  A window with a message in   *)
(* it is no older than the last tick.  Every tick after that window makes  *)
(* progress, so a silence is bounded by the progress made unless the run   *)
(* is full; and with a full run, a silence older than the window before    *)
(* the last tick was judged by that tick.                                  *)
(***************************************************************************)
BusyIsFresh == \A t \in BothWatched : count[t] > 0 => silence[t] <= SinceTick

SilenceProgresses ==
  \A t \in BothWatched :
    HasBaseline(t) /\ freqRun[t] < MinConsecutive /\ count[t] = 0
      => silence[t] <= SinceTick + (Progress(t) + 1) * TickUnits

SaysSlow(v) == Alarmed(v) /\ v.score = 100

FullRunSaysSlow ==
  \A t \in BothWatched :
    HasBaseline(t) /\ freqRun[t] = MinConsecutive /\ silence[t] > SinceTick + TickUnits
      => SaysSlow(freqSaid[t])

SilenceInv ==
  /\ Typed /\ LearnsFirst /\ LatenessIsBounded
  /\ DeadTicks
  /\ BusyIsFresh /\ SilenceProgresses /\ FullRunSaysSlow
-----------------------------------------------------------------------------
(* Numbers. *)
LEMMA Numbers ==
  /\ TickUnits \in Nat /\ TickUnits >= 1 /\ Late \in Nat /\ Late < TickUnits
  /\ Timeout \in Nat /\ Timeout >= 1 /\ Grace \in Nat
  /\ LearningSamples \in Nat /\ LearningSamples >= 1
  /\ MinConsecutive \in Nat /\ MinConsecutive >= 1
  /\ Tolerance \in 0 .. 100 /\ Scale \in Nat
  /\ DeadTopics \subseteq Topics /\ BothWatched \subseteq Topics
  /\ BothWatched \subseteq FreqTopics
  /\ LongAgo \in Nat
BY DetectorsAssumption DEF LongAgo, LearnAndJudge, BothWatched, Later

\* The score of a silence is a share of twice the timeout, 1 at most.
LEMMA DeadScore ==
  ASSUME NEW elapsed \in Nat
  PROVE  AtMost(100, (elapsed * 100) \div (2 * Timeout)) \in 0 .. 100
<1> DEFINE q == (elapsed * 100) \div (2 * Timeout)
<1>1. q \in Nat
  <2>1. 2 * Timeout \in Nat /\ 2 * Timeout > 0 /\ elapsed * 100 \in Nat
    BY Numbers
  <2> QED BY <2>1, Z3
<1> HIDE DEF q
<1>2. AtMost(100, q) \in 0 .. 100
  BY <1>1 DEF AtMost
<1> QED BY <1>2 DEF q

\* Longer than the timeout is an alarm, whatever the score.
LEMMA TooLongIsDead ==
  ASSUME NEW elapsed \in Nat, elapsed > Timeout
  PROVE  SaysDead(DeadVerdict(elapsed))
<1> DEFINE score == AtMost(100, (elapsed * 100) \div (2 * Timeout))
           v == [score |-> score, violating |-> TRUE, action |-> ACTION_STOP_AND_HOLD]
<1>1. score \in 0 .. 100
  BY DeadScore
<1>2. DeadVerdict(elapsed) = v
  BY DEF DeadVerdict
<1> HIDE DEF score
<1>3. v \in [score : 0 .. 100, violating : BOOLEAN, action : AllowedActions]
  BY <1>1 DEF AllowedActions, ACTION_STOP_AND_HOLD, ACTION_NONE, ACTION_REWIND
<1>4. v.violating /\ v.action = ACTION_STOP_AND_HOLD
  OBVIOUS
<1> HIDE DEF v
<1>5. v # NoVerdict
  BY <1>3, NoVerdictAssumption
<1> QED BY <1>2, <1>4, <1>5 DEF SaysDead, Alarmed

\* The rate of a window, and that of an empty one.
LEMMA RateType ==
  ASSUME Typed, NEW t \in Topics
  PROVE  Rate(t) \in Nat /\ (count[t] = 0 => Rate(t) = 0)
<1>1. windowAge[t] \in Nat /\ count[t] \in Nat /\ Scale \in Nat
  BY Numbers DEF Typed
<1>2. count[t] * Scale \in Nat /\ (count[t] = 0 => count[t] * Scale = 0)
  BY <1>1, Z3
<1>3. CASE open[t] /\ windowAge[t] > 0
  <2> DEFINE n == count[t] * Scale
             a == windowAge[t]
  <2>1. n \in Nat /\ a \in Nat /\ a > 0
    BY <1>1, <1>2, <1>3
  <2>2. Rate(t) = n \div a
    BY <1>3 DEF Rate
  <2>3. n = 0 <=> count[t] * Scale = 0
    OBVIOUS
  <2> HIDE DEF n, a
  <2>4. n \div a \in Nat /\ (n = 0 => n \div a = 0)
    BY <2>1, Z3
  <2> QED BY <1>2, <2>2, <2>3, <2>4
<1>4. CASE ~(open[t] /\ windowAge[t] > 0)
  BY <1>4 DEF Rate
<1> QED BY <1>3, <1>4

\* An empty window against a baseline: low, and as low as it gets.
LEMMA EmptyIsLow ==
  ASSUME Typed, NEW t \in Topics, count[t] = 0, HasBaseline(t)
  PROVE  RateLow(t) /\ RateScore(t) = 100
<1>1. Rate(t) = 0 /\ LearningSamples \in Nat /\ total[t] \in Nat /\ total[t] > 0
      /\ Tolerance \in 0 .. 100 /\ Tolerance < 100
  BY RateType, Numbers DEF Typed, HasBaseline
<1>2. Rate(t) * LearningSamples = 0
  BY <1>1
<1>3. total[t] * (100 - Tolerance) > 0
  BY <1>1, Z3
<1>4. RateLow(t)
  BY <1>2, <1>3 DEF RateLow
<1>5. RateScore(t) = ((total[t] - 0) * 100) \div total[t]
  BY <1>1, <1>2 DEF RateScore
<1>6. ((total[t] - 0) * 100) \div total[t] = 100
  <2> DEFINE n == total[t]
  <2>1. n \in Nat /\ n > 0
    BY <1>1
  <2> HIDE DEF n
  <2>2. ((n - 0) * 100) \div n = 100
    BY <2>1, Z3
  <2> QED BY <2>2 DEF n
<1> QED BY <1>4, <1>5, <1>6

LEMMA SlowIsSaid == SaysSlow(Judged(100, TRUE))
<1>1. ScoreToState(100) = STATE_STOP
  BY DEF ScoreToState, STOP_THRESHOLD, INTERVENE_THRESHOLD, DEGRADED_THRESHOLD
<1>2. SuggestedAction(100) = ACTION_STOP_AND_HOLD
  BY <1>1 DEF SuggestedAction, STATE_STOP, STATE_INTERVENE, STATE_DEGRADED, STATE_OK
<1> DEFINE v == [score |-> 100, violating |-> TRUE, action |-> ACTION_STOP_AND_HOLD]
<1>3. Judged(100, TRUE) = v
  BY <1>2 DEF Judged
<1>4. v \in [score : 0 .. 100, violating : BOOLEAN, action : AllowedActions]
  BY DEF AllowedActions, ACTION_STOP_AND_HOLD, ACTION_NONE, ACTION_REWIND
<1>5. v.violating /\ v.score = 100
  OBVIOUS
<1> HIDE DEF v
<1>6. v # NoVerdict
  BY <1>4, NoVerdictAssumption
<1> QED BY <1>3, <1>5, <1>6 DEF SaysSlow, Alarmed

LEMMA SinceTickType ==
  ASSUME Typed, LatenessIsBounded
  PROVE  SinceTick \in Nat /\ SinceTick <= TickUnits + Late
BY Numbers DEF Typed, LatenessIsBounded, SinceTick

-----------------------------------------------------------------------------
(* The steps. *)

\* One unit more since the last tick, due or not.
LEMMA ElapseAges ==
  ASSUME Typed, LatenessIsBounded, Elapse
  PROVE  /\ phase' \in 0 .. TickUnits - 1 /\ due' \in BOOLEAN /\ LatenessIsBounded'
         /\ SinceTick' = SinceTick + 1
<1>1. /\ TickUnits \in Nat /\ TickUnits >= 1 /\ Late \in Nat /\ Late < TickUnits
      /\ phase \in 0 .. TickUnits - 1 /\ due \in BOOLEAN
  BY Numbers DEF Typed
<1>2. phase' = IF phase = TickUnits - 1 THEN 0 ELSE phase + 1
  <2>1. phase' = (phase + 1) % TickUnits
    BY DEF Elapse
  <2>2. CASE phase = TickUnits - 1
    <3>1. (TickUnits - 1 + 1) % TickUnits = 0
      BY <1>1, Z3
    <3> QED BY <2>1, <2>2, <3>1
  <2>3. CASE phase # TickUnits - 1
    <3>1. phase + 1 \in 0 .. TickUnits - 1
      BY <1>1, <2>3
    <3>2. (phase + 1) % TickUnits = phase + 1
      BY <1>1, <3>1, Z3
    <3> QED BY <2>1, <2>3, <3>2
  <2> QED BY <2>2, <2>3
<1>3. due' = (due \/ phase' = 0) /\ (due => phase < Late)
  BY DEF Elapse
<1>4. CASE due
  <2>1. phase < Late /\ phase' = phase + 1
    BY <1>1, <1>2, <1>3, <1>4
  <2>2. due' = TRUE
    BY <1>3, <1>4, Zenon
  <2> QED BY <1>1, <1>4, <2>1, <2>2 DEF LatenessIsBounded, SinceTick
<1>5. CASE ~due
  <2>1. due' <=> phase' = 0
    BY <1>3, <1>5
  <2>2. due' \in BOOLEAN
    BY <1>3
  <2> QED BY <1>1, <1>2, <1>5, <2>1, <2>2 DEF LatenessIsBounded, SinceTick
<1> QED BY <1>1, <1>4, <1>5

LEMMA ElapseKeeps ==
  ASSUME SilenceInv, Elapse
  PROVE  SilenceInv'
<1>1. /\ Typed /\ LatenessIsBounded
      /\ LongAgo \in Nat /\ DeadTopics \subseteq Topics /\ BothWatched \subseteq Topics
  BY Numbers DEF SilenceInv
<1>2. /\ phase' \in 0 .. TickUnits - 1 /\ due' \in BOOLEAN /\ LatenessIsBounded'
      /\ SinceTick' = SinceTick + 1 /\ SinceTick \in Nat
  BY <1>1, ElapseAges, SinceTickType
<1>3. UNCHANGED <<seen, open, count, samples, total, freqRun, deadSaid, freqSaid>>
  BY DEF Elapse, judging, said
<1>4. /\ silence' \in [Topics -> Nat] /\ windowAge' \in [Topics -> Nat]
      /\ \A t \in Topics : silence[t] \in Nat /\ silence'[t] <= silence[t] + 1
  BY <1>1 DEF Elapse, Typed, AtMost
<1>5. Typed' /\ LearnsFirst'
  BY <1>1, <1>2, <1>3, <1>4 DEF SilenceInv, Typed, LearnsFirst, Learning
<1>6. DeadTicks'
  <2> SUFFICES ASSUME NEW t \in DeadTopics, silence'[t] > SinceTick' + Allowed(t)'
               PROVE  SaysDead(deadSaid'[t])
    BY DEF DeadTicks, SaysDead, Alarmed
  <2>1. Allowed(t)' = Allowed(t) /\ Allowed(t) \in Nat
    BY <1>3, Numbers DEF Allowed, Later
  <2>2. silence[t] \in Nat /\ silence'[t] <= silence[t] + 1 /\ silence'[t] \in Nat
    BY <1>1, <1>4
  <2>3. silence[t] > SinceTick + Allowed(t)
    BY <1>2, <2>1, <2>2
  <2> QED BY <1>3, <2>3 DEF SilenceInv, DeadTicks
<1>7. ASSUME NEW t \in BothWatched
      PROVE  silence[t] \in Nat /\ silence'[t] \in Nat /\ silence'[t] <= silence[t] + 1
  BY <1>1, <1>4, <1>7
<1>8. BusyIsFresh'
  BY <1>2, <1>3, <1>7 DEF SilenceInv, BusyIsFresh
<1>9. SilenceProgresses'
  <2> SUFFICES ASSUME NEW t \in BothWatched, HasBaseline(t), freqRun[t] < MinConsecutive,
                      count[t] = 0
               PROVE  silence'[t] <= SinceTick' + (Progress(t) + 1) * TickUnits
    BY <1>3 DEF SilenceProgresses, HasBaseline, Progress
  <2>1. silence[t] <= SinceTick + (Progress(t) + 1) * TickUnits
    BY DEF SilenceInv, SilenceProgresses
  <2>2. (Progress(t) + 1) * TickUnits \in Nat
    <3>1. Progress(t) \in Nat /\ TickUnits \in Nat
      BY <1>1, Numbers DEF Typed, Progress
    <3> QED BY <3>1, Z3
  <2> QED BY <1>2, <1>7, <2>1, <2>2
<1>10. FullRunSaysSlow'
  <2> SUFFICES ASSUME NEW t \in BothWatched, HasBaseline(t), freqRun[t] = MinConsecutive,
                      silence'[t] > SinceTick' + TickUnits
               PROVE  SaysSlow(freqSaid[t])
    BY <1>3 DEF FullRunSaysSlow, HasBaseline, SaysSlow, Alarmed
  <2>1. silence[t] > SinceTick + TickUnits
    BY <1>2, <1>7, Numbers
  <2> QED BY <2>1 DEF SilenceInv, FullRunSaysSlow
<1> QED BY <1>2, <1>5, <1>6, <1>8, <1>9, <1>10 DEF SilenceInv

LEMMA MessageKeeps ==
  ASSUME SilenceInv, NEW t \in Topics, OnMessage(t)
  PROVE  SilenceInv'
<1>1. Typed /\ LatenessIsBounded /\ SinceTick \in Nat
  BY SinceTickType DEF SilenceInv
<1>2. /\ UNCHANGED <<phase, due, windowAge, samples, total, freqRun, deadSaid, freqSaid>>
      /\ SinceTick' = SinceTick
  BY DEF OnMessage, timing, judging, said, SinceTick
<1>3. /\ seen' \in [Topics -> BOOLEAN] /\ silence' \in [Topics -> Nat]
      /\ open' \in [Topics -> BOOLEAN] /\ count' \in [Topics -> Nat]
      /\ t \in DeadTopics => silence'[t] = 0
      /\ \A u \in Topics \ {t} :
           seen'[u] = seen[u] /\ silence'[u] = silence[u] /\ count'[u] = count[u]
  <2>1. seen \in [Topics -> BOOLEAN] /\ silence \in [Topics -> Nat]
        /\ open \in [Topics -> BOOLEAN] /\ count \in [Topics -> Nat]
    BY <1>1 DEF Typed
  <2>2. \/ t \in DeadTopics /\ seen' = [seen EXCEPT ![t] = TRUE]
           /\ silence' = [silence EXCEPT ![t] = 0]
        \/ t \notin DeadTopics /\ seen' = seen /\ silence' = silence
    BY DEF OnMessage
  <2>3. \/ open' = [open EXCEPT ![t] = TRUE] /\ count' = [count EXCEPT ![t] = @ + 1]
        \/ open' = open /\ count' = count
    BY DEF OnMessage
  <2>4. /\ silence' \in [Topics -> Nat] /\ (t \in DeadTopics => silence'[t] = 0)
        /\ \A u \in Topics \ {t} : silence'[u] = silence[u]
    BY <2>1, <2>2
  <2>5. seen' \in [Topics -> BOOLEAN] /\ \A u \in Topics \ {t} : seen'[u] = seen[u]
    BY <2>1, <2>2, Zenon
  <2>6. count' \in [Topics -> Nat] /\ \A u \in Topics \ {t} : count'[u] = count[u]
    BY <2>1, <2>3
  <2>7. open' \in [Topics -> BOOLEAN]
    BY <2>1, <2>3
  <2> QED BY <2>4, <2>5, <2>6, <2>7
<1>4. Typed' /\ LearnsFirst' /\ LatenessIsBounded'
  BY <1>1, <1>2, <1>3 DEF SilenceInv, Typed, LearnsFirst, Learning, LatenessIsBounded
<1>5. DeadTicks'
  <2> SUFFICES ASSUME NEW u \in DeadTopics, silence'[u] > SinceTick + Allowed(u)'
               PROVE  SaysDead(deadSaid[u])
    BY <1>2 DEF DeadTicks, SaysDead, Alarmed
  <2>1. Allowed(u)' \in Nat
    BY Numbers DEF Allowed, Later
  <2>2. u # t
    BY <1>1, <1>3, <2>1
  <2>3. silence'[u] = silence[u] /\ Allowed(u)' = Allowed(u)
    BY <1>3, <2>2, Numbers DEF Allowed
  <2> QED BY <2>3 DEF SilenceInv, DeadTicks
<1>6. ASSUME NEW u \in BothWatched
      PROVE  (silence'[u] = 0) \/ (silence'[u] = silence[u] /\ count'[u] = count[u])
  BY <1>3, Numbers DEF BothWatched
<1>7. BusyIsFresh'
  BY <1>1, <1>2, <1>6 DEF SilenceInv, BusyIsFresh
<1>8. SilenceProgresses'
  <2> SUFFICES ASSUME NEW u \in BothWatched, HasBaseline(u), freqRun[u] < MinConsecutive,
                      count'[u] = 0
               PROVE  silence'[u] <= SinceTick + (Progress(u) + 1) * TickUnits
    BY <1>2 DEF SilenceProgresses, HasBaseline, Progress
  <2>1. (Progress(u) + 1) * TickUnits \in Nat
    <3>1. Progress(u) \in Nat /\ TickUnits \in Nat
      BY <1>1, Numbers DEF Typed, Progress
    <3> QED BY <3>1, Z3
  <2>2. CASE silence'[u] = 0
    BY <1>1, <2>1, <2>2
  <2>3. CASE silence'[u] = silence[u] /\ count'[u] = count[u]
    BY <2>3 DEF SilenceInv, SilenceProgresses
  <2> QED BY <1>6, <2>2, <2>3
<1>9. FullRunSaysSlow'
  <2> SUFFICES ASSUME NEW u \in BothWatched, HasBaseline(u), freqRun[u] = MinConsecutive,
                      silence'[u] > SinceTick + TickUnits
               PROVE  SaysSlow(freqSaid[u])
    BY <1>2 DEF FullRunSaysSlow, HasBaseline, SaysSlow, Alarmed
  <2>1. silence'[u] = silence[u]
    BY <1>1, <1>6, Numbers
  <2> QED BY <2>1 DEF SilenceInv, FullRunSaysSlow
<1> QED BY <1>4, <1>5, <1>7, <1>8, <1>9 DEF SilenceInv

\* What a tick does to the frequency check of one topic.
LEMMA TickJudges ==
  ASSUME Typed, LearnsFirst, Tick, NEW t \in Topics, t \in FreqTopics
  PROVE  /\ count'[t] = 0
         /\ Learning(t) =>
              samples'[t] = samples[t] + 1 /\ total'[t] = total[t] + Rate(t)
              /\ freqRun'[t] = 0 /\ freqRun[t] = 0
         /\ ~Learning(t) =>
              samples'[t] = samples[t] /\ total'[t] = total[t]
              /\ freqRun'[t] = Extended(freqRun[t], RateLow(t))
              /\ freqSaid'[t] = Judged(RateScore(t), freqRun'[t] >= MinConsecutive)
<1> USE DEF Tick, CheckFrequency, Sampled
<1>1. count'[t] = 0
  OBVIOUS
<1>2. CASE Learning(t)
  <2>1. samples'[t] = samples[t] + 1 /\ total'[t] = total[t] + Rate(t)
    BY <1>2
  <2>2. freqRun'[t] = freqRun[t]
    BY <1>2
  <2>3. freqRun[t] = 0
    BY <1>2 DEF LearnsFirst
  <2> QED BY <1>1, <1>2, <2>1, <2>2, <2>3
<1>3. CASE ~Learning(t)
  <2>1. samples'[t] = samples[t] /\ total'[t] = total[t]
    BY <1>3
  <2>2. freqRun'[t] = Extended(freqRun[t], RateLow(t))
    BY <1>3
  <2>3. freqSaid'[t] = Judged(RateScore(t), freqRun'[t] >= MinConsecutive)
    BY <1>3
  <2> QED BY <1>1, <1>3, <2>1, <2>2, <2>3
<1> QED BY <1>2, <1>3

LEMMA TickKeepsTypes ==
  ASSUME SilenceInv, Tick
  PROVE  Typed' /\ LearnsFirst'
<1>1. Typed /\ LearnsFirst
  BY DEF SilenceInv
<1>2. UNCHANGED <<phase, seen, silence>> /\ due' = FALSE
  BY DEF Tick
<1>3. /\ open' \in [Topics -> BOOLEAN] /\ windowAge' \in [Topics -> Nat]
      /\ count' \in [Topics -> Nat]
  BY <1>1 DEF Typed, Tick, CheckFrequency
<1>4. /\ DOMAIN samples' = Topics /\ DOMAIN total' = Topics /\ DOMAIN freqRun' = Topics
      /\ DOMAIN deadSaid' = Topics /\ DOMAIN freqSaid' = Topics
      /\ samples' = [t \in Topics |-> samples'[t]]
      /\ total' = [t \in Topics |-> total'[t]]
      /\ freqRun' = [t \in Topics |-> freqRun'[t]]
  BY DEF Tick, CheckFrequency, CheckDead
<1>5. ASSUME NEW t \in Topics
      PROVE  /\ samples'[t] \in 0 .. LearningSamples /\ total'[t] \in Nat
             /\ freqRun'[t] \in 0 .. MinConsecutive
             /\ samples'[t] < LearningSamples => freqRun'[t] = 0
  <2>1. /\ samples[t] \in 0 .. LearningSamples /\ total[t] \in Nat
        /\ freqRun[t] \in 0 .. MinConsecutive /\ Rate(t) \in Nat
        /\ samples[t] < LearningSamples => freqRun[t] = 0
    BY <1>1, RateType DEF Typed, LearnsFirst, Learning
  <2>2. CASE t \in FreqTopics /\ Learning(t)
    <3>1. samples'[t] = samples[t] + 1 /\ total'[t] = total[t] + Rate(t) /\ freqRun'[t] = 0
      BY <1>1, <2>2, TickJudges
    <3> QED BY <2>1, <2>2, <3>1, Numbers DEF Learning
  <2>3. CASE t \in FreqTopics /\ ~Learning(t)
    <3>1. /\ samples'[t] = samples[t] /\ total'[t] = total[t]
          /\ freqRun'[t] = Extended(freqRun[t], RateLow(t))
      BY <1>1, <2>3, TickJudges
    <3>2. freqRun'[t] \in 0 .. MinConsecutive
      BY <2>1, <3>1, Numbers DEF Extended, AtMost
    <3> QED BY <2>1, <2>3, <3>1, <3>2 DEF Learning
  <2>4. CASE t \notin FreqTopics
    <3>1. samples'[t] = samples[t] /\ total'[t] = total[t] /\ freqRun'[t] = freqRun[t]
      BY <2>4 DEF Tick, CheckFrequency, Sampled
    <3> QED BY <2>1, <3>1
  <2> QED BY <2>2, <2>3, <2>4
<1>6. /\ samples' \in [Topics -> 0 .. LearningSamples] /\ total' \in [Topics -> Nat]
      /\ freqRun' \in [Topics -> 0 .. MinConsecutive]
  BY <1>4, <1>5
<1>7. LearnsFirst'
  BY <1>5 DEF LearnsFirst, Learning
<1>8. Typed'
  BY <1>1, <1>2, <1>3, <1>4, <1>6 DEF Typed
<1> QED BY <1>7, <1>8

LEMMA TickKeeps ==
  ASSUME SilenceInv, Tick
  PROVE  SilenceInv'
<1>1. Typed /\ LearnsFirst /\ LatenessIsBounded /\ Typed' /\ LearnsFirst'
  BY TickKeepsTypes DEF SilenceInv
<1>2. UNCHANGED <<phase, seen, silence>> /\ due /\ ~due' /\ phase \in Nat /\ due' \in BOOLEAN
  BY <1>1 DEF Tick, Typed
<1>3. LatenessIsBounded' /\ SinceTick = TickUnits + phase /\ SinceTick' = phase
  BY <1>2 DEF LatenessIsBounded, SinceTick
<1>4. DeadTicks'
  <2> SUFFICES ASSUME NEW t \in DeadTopics, silence[t] > phase + Allowed(t)
               PROVE  SaysDead(deadSaid'[t])
    BY <1>2, <1>3 DEF DeadTicks, SaysDead, Alarmed, Allowed
  <2>1. silence[t] \in Nat /\ t \in Topics
    BY <1>1, Numbers DEF Typed
  <2>2. silence[t] > Timeout /\ (~seen[t] => silence[t] >= Grace)
    BY <1>2, <2>1, Numbers DEF Allowed, Later
  <2>3. ~InGrace(t)
    BY <2>1, <2>2, Numbers DEF InGrace
  <2>4. deadSaid'[t] = DeadVerdict(silence[t])
    BY <2>1, <2>3 DEF Tick, CheckDead
  <2> QED BY <2>1, <2>2, <2>4, TooLongIsDead
<1>5. ASSUME NEW t \in BothWatched
      PROVE  /\ t \in Topics /\ t \in FreqTopics /\ count[t] \in Nat /\ silence[t] \in Nat
             /\ count'[t] = 0
             /\ samples[t] \in 0 .. LearningSamples /\ freqRun[t] \in 0 .. MinConsecutive
             /\ total[t] \in Nat
             /\ samples'[t] \in 0 .. LearningSamples /\ freqRun'[t] \in 0 .. MinConsecutive
             /\ count[t] > 0 => silence[t] <= TickUnits + phase
  <2>1. t \in Topics /\ t \in FreqTopics
    BY Numbers
  <2>2. count'[t] = 0
    BY <1>1, <2>1, TickJudges
  <2>3. count[t] > 0 => silence[t] <= TickUnits + phase
    BY <1>3 DEF SilenceInv, BusyIsFresh
  <2> QED BY <1>1, <2>1, <2>2, <2>3 DEF Typed
<1>6. BusyIsFresh'
  BY <1>5 DEF BusyIsFresh
\* An empty window keeps the baseline and makes progress.
<1>7. ASSUME NEW t \in BothWatched, HasBaseline(t)', count[t] = 0
      PROVE  /\ HasBaseline(t)
             /\ ~Learning(t) =>
                  /\ freqRun'[t] = AtMost(MinConsecutive, freqRun[t] + 1)
                  /\ freqRun'[t] = MinConsecutive => SaysSlow(freqSaid'[t])
             /\ freqRun'[t] < MinConsecutive =>
                  freqRun[t] < MinConsecutive /\ Progress(t)' = Progress(t) + 1
  <2>1. Rate(t) = 0 /\ t \in Topics /\ t \in FreqTopics
    BY <1>1, <1>5, <1>7, RateType
  <2>2. total'[t] = total[t]
    BY <1>1, <1>5, <2>1, TickJudges
  <2>3. HasBaseline(t)
    BY <1>7, <2>2 DEF HasBaseline
  <2>4. RateLow(t) /\ RateScore(t) = 100
    BY <1>1, <1>7, <2>1, <2>3, EmptyIsLow
  <2>5. ASSUME ~Learning(t) PROVE freqRun'[t] = AtMost(MinConsecutive, freqRun[t] + 1)
    <3>1. freqRun'[t] = Extended(freqRun[t], RateLow(t))
      BY <1>1, <2>1, <2>5, TickJudges
    <3> QED BY <2>4, <3>1 DEF Extended
  <2>6. ASSUME ~Learning(t), freqRun'[t] = MinConsecutive PROVE SaysSlow(freqSaid'[t])
    <3>1. freqSaid'[t] = Judged(100, freqRun'[t] >= MinConsecutive)
      BY <1>1, <2>1, <2>4, <2>6, TickJudges
    <3>2. (freqRun'[t] >= MinConsecutive) = TRUE
      BY <2>6, Numbers
    <3>3. freqSaid'[t] = Judged(100, TRUE)
      BY <3>1, <3>2
    <3> QED BY <3>3, SlowIsSaid
  <2>7. ASSUME freqRun'[t] < MinConsecutive
        PROVE  freqRun[t] < MinConsecutive /\ Progress(t)' = Progress(t) + 1
    <3>1. CASE Learning(t)
      <4>1. samples'[t] = samples[t] + 1 /\ freqRun'[t] = 0 /\ freqRun[t] = 0
        BY <1>1, <2>1, <3>1, TickJudges
      <4> QED BY <1>5, <4>1, Numbers DEF Progress
    <3>2. CASE ~Learning(t)
      <4>1. samples'[t] = samples[t]
        BY <1>1, <2>1, <3>2, TickJudges
      <4>2. freqRun'[t] = freqRun[t] + 1 /\ freqRun[t] < MinConsecutive
        BY <1>5, <2>5, <2>7, <3>2, Numbers DEF AtMost
      <4> QED BY <1>5, <4>1, <4>2 DEF Progress
    <3> QED BY <3>1, <3>2
  <2> QED BY <2>3, <2>5, <2>6, <2>7
<1>8. SilenceProgresses'
  <2> SUFFICES ASSUME NEW t \in BothWatched, HasBaseline(t)', freqRun'[t] < MinConsecutive
               PROVE  silence[t] <= phase + (Progress(t)' + 1) * TickUnits
    BY <1>2, <1>3 DEF SilenceProgresses
  <2>1. /\ silence[t] \in Nat /\ Progress(t) \in Nat /\ Progress(t)' \in Nat /\ TickUnits \in Nat
        /\ count[t] \in Nat
    BY <1>5, Numbers DEF Progress
  <2>2. CASE count[t] > 0
    <3>1. silence[t] <= TickUnits + phase
      BY <1>5, <2>2
    <3>2. (Progress(t)' + 1) * TickUnits >= TickUnits /\ (Progress(t)' + 1) * TickUnits \in Nat
      BY <2>1, Z3
    <3> QED BY <1>2, <2>1, <3>1, <3>2
  <2>3. CASE count[t] = 0
    <3>1. HasBaseline(t) /\ freqRun[t] < MinConsecutive /\ Progress(t)' = Progress(t) + 1
      BY <1>7, <2>3
    <3>2. silence[t] <= TickUnits + phase + (Progress(t) + 1) * TickUnits
      BY <1>3, <2>3, <3>1 DEF SilenceInv, SilenceProgresses
    <3>3. (Progress(t) + 1 + 1) * TickUnits = (Progress(t) + 1) * TickUnits + TickUnits
          /\ (Progress(t) + 1) * TickUnits \in Nat
      BY <2>1, Z3
    <3>4. (Progress(t)' + 1) * TickUnits = (Progress(t) + 1) * TickUnits + TickUnits
      BY <3>1, <3>3
    <3> QED BY <1>2, <2>1, <3>2, <3>3, <3>4
  <2> QED BY <2>1, <2>2, <2>3
<1>9. FullRunSaysSlow'
  <2> SUFFICES ASSUME NEW t \in BothWatched, HasBaseline(t)', freqRun'[t] = MinConsecutive,
                      silence[t] > phase + TickUnits
               PROVE  SaysSlow(freqSaid'[t])
    BY <1>2, <1>3 DEF FullRunSaysSlow, SaysSlow, Alarmed
  <2>1. count[t] = 0
    BY <1>2, <1>5, Numbers
  <2>2. ~Learning(t)
    <3> SUFFICES ASSUME Learning(t) PROVE freqRun'[t] = 0
      BY Numbers
    <3> QED BY <1>1, <1>5, TickJudges
  <2> QED BY <1>7, <2>1, <2>2
<1> QED BY <1>1, <1>3, <1>4, <1>6, <1>8, <1>9 DEF SilenceInv

LEMMA OtherKeeps ==
  ASSUME SilenceInv, UNCHANGED <<timing, watching, judging, said>>
  PROVE  SilenceInv'
<1> USE DEF timing, watching, judging, said
<1>1. Typed' /\ LearnsFirst' /\ LatenessIsBounded' /\ BusyIsFresh'
  BY DEF SilenceInv, Typed, LearnsFirst, Learning, LatenessIsBounded, BusyIsFresh, SinceTick
<1>2. DeadTicks'
  BY DEF SilenceInv, DeadTicks, SinceTick, Allowed, SaysDead, Alarmed
<1>3. SilenceProgresses' /\ FullRunSaysSlow'
  BY DEF SilenceInv, SilenceProgresses, FullRunSaysSlow, SinceTick, HasBaseline, Progress,
         SaysSlow, Alarmed
<1> QED BY <1>1, <1>2, <1>3 DEF SilenceInv

LEMMA InitSilence == Init => SilenceInv
<1> SUFFICES ASSUME Init PROVE SilenceInv
  OBVIOUS
<1>1. Typed
  <2>1. due \in BOOLEAN /\ seen \in [Topics -> BOOLEAN] /\ open \in [Topics -> BOOLEAN]
    BY DEF Init
  <2>2. /\ phase \in 0 .. TickUnits - 1 /\ silence \in [Topics -> Nat]
        /\ windowAge \in [Topics -> Nat] /\ count \in [Topics -> Nat]
    BY Numbers DEF Init
  <2>3. /\ samples \in [Topics -> 0 .. LearningSamples] /\ total \in [Topics -> Nat]
        /\ freqRun \in [Topics -> 0 .. MinConsecutive]
    BY Numbers DEF Init
  <2>4. DOMAIN deadSaid = Topics /\ DOMAIN freqSaid = Topics
    BY DEF Init
  <2> QED BY <2>1, <2>2, <2>3, <2>4 DEF Typed
<1>2. LearnsFirst /\ LatenessIsBounded /\ BusyIsFresh
  BY Numbers DEF Init, LearnsFirst, LatenessIsBounded, BusyIsFresh
<1>3. DeadTicks
  <2> SUFFICES ASSUME NEW t \in DeadTopics PROVE ~(silence[t] > SinceTick + Allowed(t))
    BY DEF DeadTicks
  <2>1. silence[t] = 0 /\ SinceTick = 0 /\ Allowed(t) \in Nat
    BY Numbers DEF Init, SinceTick, Allowed, Later
  <2> QED BY <2>1
<1>4. SilenceProgresses /\ FullRunSaysSlow
  BY Numbers DEF Init, SilenceProgresses, FullRunSaysSlow, HasBaseline
<1> QED BY <1>1, <1>2, <1>3, <1>4 DEF SilenceInv

LEMMA StepSilence == SilenceInv /\ [Next]_detectorVars => SilenceInv'
<1> SUFFICES ASSUME SilenceInv, [Next]_detectorVars PROVE SilenceInv'
  OBVIOUS
<1>1. CASE GraphChange \/ Resolve \/ UNCHANGED detectorVars
  <2>1. UNCHANGED <<timing, watching, judging, said>>
    BY <1>1 DEF GraphChange, Resolve, detectorVars
  <2> QED BY <2>1, OtherKeeps
<1> QED BY <1>1, ElapseKeeps, MessageKeeps, TickKeeps DEF Next

LEMMA AlwaysSilence == Spec => []SilenceInv
BY InitSilence, StepSilence, PTL DEF Spec

(***************************************************************************)
(* A silent topic is reported dead, with a STOP_AND_HOLD, at the first     *)
(* tick after its timeout (after the grace, if it never spoke and that     *)
(* ends later), however late the tick runs (detectors_node.cpp:215-231).   *)
(***************************************************************************)
THEOREM DeadTopicsAreReported == Spec => []DeadInTime
<1>1. SilenceInv => DeadInTime
  <2> SUFFICES ASSUME SilenceInv, NEW t \in DeadTopics,
                      silence[t] > TickUnits + Late + Allowed(t)
               PROVE  SaysDead(deadSaid[t])
    BY DEF DeadInTime, Allowed, SaysDead
  <2>1. SinceTick \in Nat /\ SinceTick <= TickUnits + Late
    BY SinceTickType DEF SilenceInv
  <2>2. silence[t] \in Nat /\ Allowed(t) \in Nat
    BY Numbers DEF SilenceInv, Typed, Allowed, Later
  <2>3. silence[t] > SinceTick + Allowed(t)
    BY <2>1, <2>2, Numbers
  <2> QED BY <2>3 DEF SilenceInv, DeadTicks
<1> QED BY AlwaysSilence, <1>1, PTL

(***************************************************************************)
(* A topic with a learned rate that goes silent fails its frequency check  *)
(* at full score by the tick that ends the learning ticks and the run it   *)
(* has left, one window later at most for the messages it was silent after *)
(* (adapters.cpp:36-67, detectors_node.cpp:233-252).                       *)
(***************************************************************************)
THEOREM SilentTopicsAreSlow == Spec => []SilenceFailsFrequency
<1>1. SilenceInv => SilenceFailsFrequency
  <2> SUFFICES ASSUME SilenceInv, NEW t \in BothWatched, HasBaseline(t),
                      silence[t] > LearnAndJudge
               PROVE  SaysSlow(freqSaid[t])
    BY DEF SilenceFailsFrequency, BothWatched, HasBaseline, SaysSlow
  <2>1. SinceTick \in Nat /\ SinceTick <= TickUnits + Late
    BY SinceTickType DEF SilenceInv
  <2>2. /\ silence[t] \in Nat /\ samples[t] \in 0 .. LearningSamples /\ count[t] \in Nat
        /\ freqRun[t] \in 0 .. MinConsecutive
        /\ TickUnits \in Nat /\ TickUnits >= 1 /\ Late \in Nat
        /\ LearningSamples \in Nat /\ LearningSamples >= 1
        /\ MinConsecutive \in Nat /\ MinConsecutive >= 1
    BY Numbers DEF SilenceInv, Typed
  <2> DEFINE whole == LearningSamples + MinConsecutive
  <2>3. /\ (whole + 1) * TickUnits = whole * TickUnits + TickUnits
        /\ whole * TickUnits \in Nat /\ whole * TickUnits >= 2 * TickUnits
    <3>1. whole \in Nat /\ whole >= 2
      BY <2>2
    <3> HIDE DEF whole
    <3> QED BY <2>2, <3>1, Z3
  <2>4. LearnAndJudge = whole * TickUnits + TickUnits + Late
    BY <2>3 DEF LearnAndJudge
  <2>5. silence[t] > SinceTick + TickUnits /\ silence[t] > SinceTick + whole * TickUnits
    <3> HIDE DEF whole
    <3> QED BY <2>1, <2>2, <2>3, <2>4
  <2>6. count[t] = 0
    BY <2>1, <2>2, <2>5 DEF SilenceInv, BusyIsFresh
  <2>7. freqRun[t] = MinConsecutive
    <3> SUFFICES ASSUME freqRun[t] < MinConsecutive PROVE FALSE
      BY <2>2
    <3>1. silence[t] <= SinceTick + (Progress(t) + 1) * TickUnits
      BY <2>6 DEF SilenceInv, SilenceProgresses
    <3>2. Progress(t) + 1 \in Nat /\ Progress(t) + 1 <= whole
      BY <2>2 DEF Progress
    <3>3. (Progress(t) + 1) * TickUnits <= whole * TickUnits
          /\ (Progress(t) + 1) * TickUnits \in Nat
      <4>1. whole \in Nat
        BY <2>2
      <4> HIDE DEF whole
      <4> QED BY <2>2, <3>2, <4>1, Z3
    <3> HIDE DEF whole
    <3> QED BY <2>1, <2>2, <2>3, <2>5, <3>1, <3>3
  <2> QED BY <2>5, <2>7 DEF SilenceInv, FullRunSaysSlow
<1> QED BY AlwaysSilence, <1>1, PTL
=============================================================================
