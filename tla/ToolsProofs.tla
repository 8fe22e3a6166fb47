----------------------------- MODULE ToolsProofs -----------------------------
(***************************************************************************)
(* Proofs about the tools: the simulated stream collapses once, for any    *)
(* number of healthy frames; what the chain benchmark calls missing and    *)
(* whom it credits, for any phases and any lateness of the timer and of    *)
(* the monitor; what the probe records of a trial; that a threshold has    *)
(* its share of the calibration below it, and a fold counts each window    *)
(* once; that a directory of trials is counted trial by trial; that a      *)
(* calibration file, and a line of JSON, is read whole or refused; and of  *)
(* the random generators that no word is handed out twice, for any mix of  *)
(* calls, and that a shuffle is fair.                                      *)
(***************************************************************************)
EXTENDS SimStream, ChainBench, Recorder, SessionDir, Calibration, Npz, Json, NumpyRandom,
        FiniteSetTheorems, SequenceTheorems, TLAPS

-----------------------------------------------------------------------------
(* The simulated stream. *)

\* Until the collapse every frame published was a healthy one.
StreamInv ==
  /\ StreamTypeOK
  /\ CollapsesOnce
  /\ ~InOodPhase => healthySent = frameIndex

\* The schedule: publishing a frame keeps the invariant.
LEMMA TickKeeps ==
  ASSUME StreamInv, StreamTick
  PROVE  StreamInv'
<1> USE StreamAssumption DEF StreamInv, StreamTypeOK, CollapsesOnce, InOodPhase, StreamTick
<1>1. CASE InOodPhase
  BY <1>1
<1>2. CASE ~InOodPhase
  BY <1>2
<1> QED
  BY <1>1, <1>2

\* The service: a call keeps it, in either phase.
LEMMA TriggerKeeps ==
  ASSUME StreamInv, TriggerOod
  PROVE  StreamInv'
<1> USE StreamAssumption DEF StreamInv, StreamTypeOK, CollapsesOnce, InOodPhase, TriggerOod
<1>1. CASE InOodPhase
  BY <1>1
<1>2. CASE ~InOodPhase
  BY <1>2
<1> QED
  BY <1>1, <1>2

(***************************************************************************)
(* The policy collapses once: no healthy frame after the first collapsed   *)
(* one, and an early collapse was announced to exactly one caller of the   *)
(* service (sim.cpp:33-52, embedding_publisher.cpp:67-101).                *)
(***************************************************************************)
THEOREM PolicyCollapsesOnce == StreamSpec => []CollapsesOnce
<1>1. StreamInit => StreamInv
  <2> SUFFICES ASSUME StreamInit
               PROVE  StreamInv
    OBVIOUS
  <2>1. ~InOodPhase
    BY StreamAssumption DEF StreamInit, InOodPhase
  <2> QED
    <3>1. StreamTypeOK
      BY DEF StreamInit, StreamTypeOK
    <3>2. healthySent <= NInDist /\ collapsed = FALSE /\ answers = 0 /\ healthySent = frameIndex
      BY StreamAssumption DEF StreamInit
    <3> QED
      BY <2>1, <3>1, <3>2 DEF StreamInv, CollapsesOnce
<1>2. StreamInv /\ [StreamNext]_streamVars => StreamInv'
  <2> SUFFICES ASSUME StreamInv, [StreamNext]_streamVars
               PROVE  StreamInv'
    OBVIOUS
  <2>1. CASE StreamTick
    BY <2>1, TickKeeps
  <2>2. CASE TriggerOod
    BY <2>2, TriggerKeeps
  <2>3. CASE UNCHANGED streamVars
    BY <2>3 DEF streamVars, StreamInv, StreamTypeOK, CollapsesOnce, InOodPhase
  <2> QED
    BY <2>1, <2>2, <2>3 DEF StreamNext
<1>3. StreamInv => CollapsesOnce
  BY DEF StreamInv
<1> QED
  BY <1>1, <1>2, <1>3, PTL DEF StreamSpec

-----------------------------------------------------------------------------
(* What the chain benchmark calls missing. *)

\* The frames still counted on.
Due == {f \in inFlight : f.counted}

(***************************************************************************)
(* MissingIsLost as it is inductive.  A frame in flight is older than the  *)
(* next one; the counted ones are within what was sent and not answered;   *)
(* and until the table is cleared it holds every frame in flight, so that  *)
(* an answer is a measurement.                                             *)
(***************************************************************************)
MissingInv ==
  /\ {seq, sentAfterWarmup, latencies, answered} \subseteq Nat
  /\ IsFiniteSet(inFlight)
  /\ \A f \in inFlight : f.seq \in 1 .. seq /\ f.counted \in BOOLEAN
  /\ answered + Cardinality(Due) <= sentAfterWarmup
  /\ latencies <= answered
  /\ ~cleared => inFlight \subseteq sentTimes /\ latencies = answered

LEMMA DueIsFinite ==
  MissingInv => IsFiniteSet(Due) /\ Cardinality(Due) \in Nat
BY FS_Subset, FS_CardinalityType DEF MissingInv, Due

LEMMA PublishKeeps ==
  ASSUME MissingInv, Publish, UNCHANGED <<latencies, answered>>
  PROVE  MissingInv'
<1>1. PICK frame : frame = [seq |-> seq + 1, time |-> benchClock,
                            counted |-> benchClock >= WarmUpTime /\ ~InFault]
  OBVIOUS
<1>2. /\ frame.seq = seq + 1 /\ frame.counted \in BOOLEAN
      /\ seq' = seq + 1 /\ inFlight' = inFlight \cup {frame}
      /\ sentAfterWarmup' = sentAfterWarmup + (IF frame.counted THEN 1 ELSE 0)
      /\ ~cleared' => ~cleared /\ sentTimes' = sentTimes \cup {frame}
  BY <1>1 DEF Publish
<1>3. frame \notin inFlight
  BY <1>2 DEF MissingInv
<1>4. IsFiniteSet(inFlight')
  BY <1>2, FS_AddElement DEF MissingInv
<1>5. \A f \in inFlight' : f.seq \in 1 .. seq' /\ f.counted \in BOOLEAN
  BY <1>2 DEF MissingInv
<1>6. answered' + Cardinality(Due') <= sentAfterWarmup' /\ sentAfterWarmup' \in Nat
  <2>1. IsFiniteSet(Due) /\ Cardinality(Due) \in Nat
    BY DueIsFinite
  <2>2. CASE frame.counted
    <3>1. Due' = Due \cup {frame} /\ frame \notin Due
      BY <1>2, <1>3, <2>2 DEF Due
    <3>2. Cardinality(Due') = Cardinality(Due) + 1
      BY <2>1, <3>1, FS_AddElement
    <3> QED BY <1>2, <2>1, <2>2, <3>2 DEF MissingInv
  <2>3. CASE ~frame.counted
    <3>1. Due' = Due
      BY <1>2, <2>3 DEF Due
    <3> QED BY <1>2, <2>1, <2>3, <3>1 DEF MissingInv
  <2> QED BY <2>2, <2>3
<1>7. ~cleared' => inFlight' \subseteq sentTimes' /\ latencies' = answered'
  BY <1>2 DEF MissingInv
<1> QED BY <1>2, <1>4, <1>5, <1>6, <1>7 DEF MissingInv

\* A frame leaves the flight, answered or not.
LEMMA Leaves ==
  ASSUME MissingInv, NEW f \in inFlight, inFlight' = inFlight \ {f}
  PROVE  /\ IsFiniteSet(inFlight')
         /\ Cardinality(Due') \in Nat /\ Cardinality(Due) \in Nat
         /\ Cardinality(Due) = Cardinality(Due') + (IF f.counted THEN 1 ELSE 0)
<1>1. IsFiniteSet(Due) /\ Cardinality(Due) \in Nat
  BY DueIsFinite
<1>2. IsFiniteSet(inFlight')
  BY FS_RemoveElement DEF MissingInv
<1>3. CASE f.counted
  <2>1. Due' = Due \ {f} /\ f \in Due
    BY <1>3 DEF Due
  <2>2. IsFiniteSet(Due') /\ Cardinality(Due') = Cardinality(Due) - 1
    BY <1>1, <2>1, FS_RemoveElement
  <2>3. Cardinality(Due') \in Nat
    BY <2>2, FS_CardinalityType
  <2> QED BY <1>1, <1>2, <1>3, <2>2, <2>3
<1>4. CASE ~f.counted
  <2>1. Due' = Due
    BY <1>4 DEF Due
  <2> QED BY <1>1, <1>2, <1>4, <2>1
<1> QED BY <1>3, <1>4

LEMMA VerdictKeeps ==
  ASSUME MissingInv, OnVerdict
  PROVE  MissingInv'
<1>1. PICK f \in inFlight :
        /\ latencies' = Measured(f)
        /\ sentTimes' = sentTimes \ {f}
        /\ inFlight' = inFlight \ {f}
        /\ answered' = answered + (IF f.counted THEN 1 ELSE 0)
  BY DEF OnVerdict
<1>2. UNCHANGED <<seq, sentAfterWarmup, cleared>>
  BY DEF OnVerdict
<1>3. /\ IsFiniteSet(inFlight')
      /\ Cardinality(Due') \in Nat /\ Cardinality(Due) \in Nat
      /\ Cardinality(Due) = Cardinality(Due') + (IF f.counted THEN 1 ELSE 0)
  BY <1>1, Leaves
<1>4. {seq', sentAfterWarmup', latencies', answered'} \subseteq Nat /\ latencies' <= answered'
  BY <1>1, <1>2 DEF MissingInv, Measured
<1>5. answered' + Cardinality(Due') <= sentAfterWarmup'
  BY <1>1, <1>2, <1>3 DEF MissingInv
<1>6. ~cleared' => inFlight' \subseteq sentTimes' /\ latencies' = answered'
  BY <1>1, <1>2 DEF MissingInv, Measured
<1>7. \A g \in inFlight' : g.seq \in 1 .. seq' /\ g.counted \in BOOLEAN
  BY <1>1, <1>2 DEF MissingInv
<1> QED BY <1>3, <1>4, <1>5, <1>6, <1>7 DEF MissingInv

LEMMA LoseKeeps ==
  ASSUME MissingInv, Lose
  PROVE  MissingInv'
<1>1. PICK f \in inFlight : inFlight' = inFlight \ {f}
  BY DEF Lose
<1>2. UNCHANGED <<seq, sentTimes, sentAfterWarmup, latencies, cleared, answered>>
  BY DEF Lose
<1>3. /\ IsFiniteSet(inFlight')
      /\ Cardinality(Due') \in Nat /\ Cardinality(Due) \in Nat
      /\ Cardinality(Due) = Cardinality(Due') + (IF f.counted THEN 1 ELSE 0)
  BY <1>1, Leaves
<1>4. answered' + Cardinality(Due') <= sentAfterWarmup'
  BY <1>2, <1>3 DEF MissingInv
<1> QED BY <1>1, <1>2, <1>3, <1>4 DEF MissingInv

LEMMA InitMissing == BenchInit => MissingInv
<1> SUFFICES ASSUME BenchInit PROVE MissingInv
  OBVIOUS
<1>1. Due = {} /\ inFlight = {}
  BY DEF BenchInit, Due
<1> QED BY <1>1, FS_EmptySet DEF BenchInit, MissingInv

LEMMA StepMissing == MissingInv /\ [BenchNext]_benchVars => MissingInv'
<1> SUFFICES ASSUME MissingInv, [BenchNext]_benchVars
             PROVE  MissingInv'
  OBVIOUS
<1>1. CASE UNCHANGED bookkeeping
  BY <1>1 DEF bookkeeping, MissingInv, Due
<1>2. CASE BenchTick
  <2>1. CASE Publish /\ UNCHANGED <<latencies, lost, answered>>
    BY <2>1, PublishKeeps
  <2> QED BY <1>1, <1>2, <2>1 DEF BenchTick, Finish, PublishTick
<1>3. CASE BenchElapse \/ Drain \/ OnHealth \/ OnCmd \/ UNCHANGED benchVars
  BY <1>1, <1>3 DEF BenchElapse, Drain, OnHealth, OnCmd, benchVars, bookkeeping
<1> QED BY <1>2, <1>3, VerdictKeeps, LoseKeeps DEF BenchNext

LEMMA MissingImplies == MissingInv => MissingIsLost
<1> SUFFICES ASSUME MissingInv PROVE MissingIsLost
  OBVIOUS
<1>1. Cardinality(Due) \in Nat
  BY DueIsFinite
<1>2. latencies <= sentAfterWarmup
  BY <1>1 DEF MissingInv
<1> QED BY <1>2 DEF MissingInv, MissingIsLost, Missing

(***************************************************************************)
(* The report's missing verdicts are the counted frames without an answer, *)
(* as long as the table of sent frames was not cleared, and never more     *)
(* latencies than frames (chain_bench.cpp:149-153, 245-276).               *)
(***************************************************************************)
THEOREM MissingAreLost == BenchSpec => []MissingIsLost
BY InitMissing, StepMissing, MissingImplies, PTL DEF BenchSpec

-----------------------------------------------------------------------------
(* Whom the chain benchmark credits. *)

\* When a cycle starts.
Base(cycle) == cycle * Cycle

\* A trial is of the fault of its cycle, and within it.
InItsFault(i) ==
  /\ trialsLog[i].phase = i - 1
  /\ trialsLog[i].start >= Base(i - 1) + HealthyTime
  /\ trialsLog[i].last < Base(i) /\ trialsLog[i].last <= benchClock
  /\ trialsLog[i].start <= trialsLog[i].last

(***************************************************************************)
(* CreditIsDue as it is inductive: no fault goes by between two ticks, so  *)
(* that there is one trial for each; and the last tick was either in the   *)
(* newest one's fault, or among the healthy ones after it.                 *)
(***************************************************************************)
CreditInv ==
  /\ {benchClock, sinceTick, draining} \subseteq Nat
  /\ finished \in BOOLEAN /\ active \in BOOLEAN
  /\ trialsLog \in Seq(Trial)
  /\ sinceTick <= Late + 1 /\ sinceTick <= benchClock
  /\ \A i \in 1 .. Len(trialsLog) : InItsFault(i)
  /\ active => trialsLog # <<>>
  /\ ~finished =>
       /\ draining = 0
       /\ IF active
          THEN trialsLog[Len(trialsLog)].last = benchClock - sinceTick
          ELSE /\ Base(Len(trialsLog)) <= benchClock - sinceTick
               /\ benchClock - sinceTick < Base(Len(trialsLog)) + HealthyTime
  /\ finished /\ active => benchClock <= Base(Len(trialsLog)) + Late + draining

LEMMA Phases ==
  /\ Cycle \in Nat /\ Cycle = HealthyTime + FaultTime
  /\ HealthyTime \in Nat /\ HealthyTime >= 1 /\ FaultTime \in Nat /\ FaultTime >= 1
  /\ Late \in Nat /\ Reaction \in Nat /\ DrainTime \in Nat
  /\ 1 + Late <= FaultTime /\ 1 + Late + Reaction <= HealthyTime
BY BenchAssumption DEF Cycle

LEMMA Bases ==
  /\ \A i \in Nat : Base(i) \in Nat /\ Base(i + 1) = Base(i) + Cycle
  /\ \A i, j \in Nat : i < j => Base(i) + Cycle <= Base(j)
<1>1. PICK c \in Nat : c = Cycle
  BY Phases
<1>2. \A i \in Nat : i * c \in Nat /\ (i + 1) * c = i * c + c
  BY Z3
<1>3. ASSUME NEW i \in Nat, NEW j \in Nat, i < j PROVE i * c + c <= j * c
  <2>1. PICK d \in Nat : j = i + 1 + d
    <3>1. j - i - 1 \in Nat /\ j = i + 1 + (j - i - 1)
      BY <1>3
    <3> QED BY <3>1
  <2>2. j * c = i * c + c + d * c
    BY <2>1, Z3
  <2>3. d * c \in Nat /\ i * c \in Nat
    BY Z3
  <2> QED BY <2>2, <2>3
<1> QED BY <1>1, <1>2, <1>3 DEF Base

LEMMA PhaseIs ==
  ASSUME benchClock \in Nat
  PROVE  /\ Phase \in Nat /\ Base(Phase) <= benchClock /\ benchClock < Base(Phase) + Cycle
         /\ InFault <=> benchClock >= Base(Phase) + HealthyTime
<1>1. PICK c \in Nat : c = Cycle /\ c >= 1
  BY Phases
<1>2. PICK t \in Nat : t = benchClock
  OBVIOUS
<1>3. t \div c \in Nat /\ (t \div c) * c <= t /\ t < (t \div c) * c + c
  BY <1>1, Z3
<1>4. PICK p \in Nat : p = t \div c
  BY <1>3
<1>5. Phase = p /\ Base(Phase) = p * c /\ p * c \in Nat
  BY <1>1, <1>2, <1>4, Z3 DEF Phase, Base
<1>6. p * c <= t /\ t < p * c + c
  BY <1>3, <1>4
<1>7. InFault <=> t - Base(Phase) >= HealthyTime
  BY <1>2 DEF InFault, Base
<1> QED BY <1>1, <1>2, <1>5, <1>6, <1>7, Phases

\* The newest trial is replaced.
LEMMA NewestChanges ==
  ASSUME NEW log \in Seq(Trial), NEW n \in Nat, n = Len(log), n >= 1, NEW t \in Trial,
         NEW new, new = [log EXCEPT ![n] = t]
  PROVE  /\ new \in Seq(Trial) /\ Len(new) = n /\ new[n] = t
         /\ \A i \in 1 .. n : i # n => new[i] = log[i]
<1>1. n \in 1 .. n /\ log \in [1 .. n -> Trial]
  BY LenProperties, ElementOfSeq
<1>2. new \in [1 .. n -> Trial] /\ new[n] = t /\ \A i \in 1 .. n : i # n => new[i] = log[i]
  BY <1>1
<1>3. new \in Seq(Trial) /\ Len(new) = n
  BY <1>2, SeqDef, LenProperties
<1> QED BY <1>2, <1>3

LEMMA TimePasses ==
  ASSUME CreditInv, BenchElapse \/ Drain
  PROVE  CreditInv'
<1> USE DEF CreditInv
<1>1. /\ benchClock' = benchClock + 1 /\ UNCHANGED <<trialsLog, active, finished>>
      /\ \/ /\ ~finished /\ sinceTick <= Late
            /\ sinceTick' = sinceTick + 1 /\ draining' = draining
         \/ finished /\ draining' = draining + 1 /\ sinceTick' = sinceTick
  BY DEF BenchElapse, Drain
<1>2. benchClock \in Nat /\ sinceTick \in Nat /\ draining \in Nat
  OBVIOUS
<1>3. \A i \in 1 .. Len(trialsLog) : InItsFault(i)'
  <2> SUFFICES ASSUME NEW i \in 1 .. Len(trialsLog) PROVE InItsFault(i)'
    OBVIOUS
  <2>1. InItsFault(i)
    OBVIOUS
  <2>2. trialsLog[i] \in Trial /\ trialsLog[i].last \in Nat
    <3>1. trialsLog[i] \in Trial
      BY ElementOfSeq
    <3> QED BY <3>1 DEF Trial
  <2> QED BY <1>1, <1>2, <2>1, <2>2 DEF InItsFault, Base
<1>4. Len(trialsLog) \in Nat
  BY LenProperties
<1>5. {benchClock, sinceTick, draining}' \subseteq Nat
  BY <1>1, <1>2
<1>6. sinceTick' <= Late + 1 /\ sinceTick' <= benchClock'
  BY <1>1, <1>2, Phases
<1>7. benchClock' - sinceTick' = benchClock - sinceTick \/ finished
  BY <1>1, <1>2
<1>8. finished /\ active => benchClock' <= Base(Len(trialsLog)) + Late + draining'
  <2>1. Base(Len(trialsLog)) \in Nat
    BY <1>4, Bases
  <2>2. CASE finished
    <3>1. benchClock' = benchClock + 1 /\ draining' = draining + 1
      BY <1>1, <2>2
    <3> QED BY <1>2, <2>1, <3>1, Phases
  <2> QED BY <2>2
<1> QED BY <1>1, <1>2, <1>3, <1>4, <1>5, <1>6, <1>7, <1>8 DEF Base

LEMMA FinishKeeps ==
  ASSUME CreditInv, BenchTick, Finish
  PROVE  CreditInv'
<1> USE DEF CreditInv
<1>1. /\ ~finished /\ finished' /\ sinceTick' = 0
      /\ UNCHANGED <<benchClock, draining, active, trialsLog>>
  BY DEF BenchTick, Finish, bookkeeping
<1>2. benchClock \in Nat /\ sinceTick \in Nat /\ draining = 0 /\ Len(trialsLog) \in Nat
  BY <1>1, LenProperties
<1>3. \A i \in 1 .. Len(trialsLog) : InItsFault(i)'
  BY <1>1 DEF InItsFault, Base
<1>4. active => benchClock <= Base(Len(trialsLog)) + Late
  <2> SUFFICES ASSUME active PROVE benchClock <= Base(Len(trialsLog)) + Late
    OBVIOUS
  <2> DEFINE n == Len(trialsLog)
  <2>1. n \in 1 .. n
    BY <1>2, LenProperties, EmptySeq
  <2>2. trialsLog[n].last < Base(n) /\ trialsLog[n].last = benchClock - sinceTick
    BY <1>1, <2>1 DEF InItsFault
  <2>3. Base(n) \in Nat
    BY <1>2, Bases
  <2> QED BY <1>2, <2>2, <2>3, Phases
<1> QED BY <1>1, <1>2, <1>3, <1>4, Phases DEF Base

LEMMA PhaseIsThe ==
  ASSUME benchClock \in Nat, NEW p \in Nat, Base(p) <= benchClock, benchClock < Base(p) + Cycle
  PROVE  Phase = p
<1>1. /\ Phase \in Nat /\ Base(Phase) <= benchClock /\ benchClock < Base(Phase) + Cycle
  BY PhaseIs
<1>2. PICK q \in Nat : q = Phase
  BY <1>1
<1>3. Base(p) \in Nat /\ Base(q) \in Nat
  BY Bases
<1>4. ~(p < q)
  <2>1. p < q => Base(p) + Cycle <= Base(q)
    BY Bases
  <2> QED BY <1>1, <1>2, <1>3, <2>1, Phases
<1>5. ~(q < p)
  <2>1. q < p => Base(q) + Cycle <= Base(p)
    BY Bases
  <2> QED BY <1>1, <1>2, <1>3, <2>1, Phases
<1> QED BY <1>2, <1>4, <1>5

\* Where the tick after the last one may be.
LEMMA NextTick ==
  ASSUME CreditInv, ~finished, sinceTick >= 1, NEW n \in Nat, n = Len(trialsLog)
  PROVE  \/ /\ active /\ n >= 1 /\ Phase = n - 1 /\ InFault
         \/ /\ active /\ n >= 1 /\ Phase = n /\ ~InFault
         \/ /\ ~active /\ Phase = n
<1>1. benchClock \in Nat /\ sinceTick \in Nat /\ sinceTick <= Late + 1
  BY DEF CreditInv
<1>2. Base(n) \in Nat
  BY Bases
<1>3. CASE active
  <2>1. n >= 1 /\ n \in 1 .. n
    BY <1>3, LenProperties, EmptySeq DEF CreditInv
  <2>2. PICK m \in Nat : m = n - 1 /\ n = m + 1
    BY <2>1
  <2>3. Base(m) \in Nat /\ Base(n) = Base(m) + Cycle
    BY <2>2, Bases
  <2>4. PICK t \in Trial : t = trialsLog[n]
    BY <2>1, ElementOfSeq DEF CreditInv
  <2>5. /\ t.start \in Nat /\ t.last \in Nat
        /\ t.start >= Base(m) + HealthyTime /\ t.start <= t.last /\ t.last < Base(n)
        /\ t.last = benchClock - sinceTick
    <3>1. InItsFault(n) /\ trialsLog[n].last = benchClock - sinceTick
      BY <1>3, <2>1 DEF CreditInv
    <3> QED BY <2>2, <2>4, <3>1 DEF InItsFault, Trial
  <2>6. benchClock > Base(m) + HealthyTime /\ benchClock < Base(n) + HealthyTime
    BY <1>1, <1>2, <2>3, <2>5, Phases
  <2>7. CASE benchClock < Base(n)
    <3>1. Phase = m
      BY <1>1, <2>3, <2>6, <2>7, PhaseIsThe, Phases
    <3> QED BY <1>1, <1>3, <2>1, <2>2, <2>3, <2>6, <3>1, PhaseIs, Phases
  <2>8. CASE benchClock >= Base(n)
    <3>1. Phase = n
      BY <1>1, <1>2, <2>6, <2>8, PhaseIsThe, Phases
    <3> QED BY <1>1, <1>2, <1>3, <2>1, <2>6, <3>1, PhaseIs, Phases
  <2> QED BY <1>1, <1>2, <2>7, <2>8
<1>4. CASE ~active
  <2>1. Base(n) <= benchClock - sinceTick /\ benchClock - sinceTick < Base(n) + HealthyTime
    BY <1>4 DEF CreditInv
  <2>2. Base(n) <= benchClock /\ benchClock < Base(n) + Cycle
    BY <1>1, <1>2, <2>1, Phases
  <2> QED BY <1>1, <1>4, <2>2, PhaseIsThe
<1> QED BY <1>3, <1>4

\* A tick among the healthy ones of a cycle.
LEMMA HealthyTickKeeps ==
  ASSUME CreditInv, BenchTick, PublishTick, ~InFault
  PROVE  CreditInv'
<1>1. /\ ~finished /\ finished' = FALSE /\ sinceTick' = 0 /\ active' = FALSE
      /\ sinceTick >= 1 /\ UNCHANGED <<benchClock, draining, trialsLog>>
  BY DEF BenchTick, PublishTick, Finish
<1>2. benchClock \in Nat /\ draining = 0 /\ trialsLog \in Seq(Trial)
  BY <1>1 DEF CreditInv
<1>3. PICK n \in Nat : n = Len(trialsLog)
  BY <1>2, LenProperties
<1>4. \A i \in 1 .. n : InItsFault(i)'
  BY <1>1, <1>3 DEF InItsFault, Base, CreditInv
<1>5. Phase = n
  BY <1>1, <1>3, NextTick
<1>6. Base(n) <= benchClock /\ benchClock < Base(n) + HealthyTime /\ Base(n) \in Nat
  <2>1. Base(n) \in Nat
    BY Bases
  <2> QED BY <1>2, <1>5, <2>1, PhaseIs, Phases
<1>7. Base(n) <= benchClock' - sinceTick' /\ benchClock' - sinceTick' < Base(n) + HealthyTime
  BY <1>1, <1>2, <1>6
<1>8. /\ sinceTick' <= Late + 1 /\ sinceTick' <= benchClock'
      /\ {benchClock, sinceTick, draining}' \subseteq Nat
  BY <1>1, <1>2, Phases
<1> QED BY <1>1, <1>2, <1>3, <1>4, <1>7, <1>8 DEF CreditInv, Base

\* A tick in a fault, which opens its trial or prolongs it.
LEMMA FaultTickKeeps ==
  ASSUME CreditInv, BenchTick, PublishTick, InFault
  PROVE  CreditInv'
<1>1. /\ ~finished /\ ~finished' /\ finished' = FALSE /\ sinceTick' = 0 /\ active' = TRUE
      /\ sinceTick >= 1 /\ UNCHANGED <<benchClock, draining>>
      /\ trialsLog' = TrialOf(trialsLog, Phase)
  BY DEF BenchTick, PublishTick, Finish
<1>2. benchClock \in Nat /\ draining = 0 /\ trialsLog \in Seq(Trial)
  BY <1>1 DEF CreditInv
<1>3. PICK n \in Nat : n = Len(trialsLog)
  BY <1>2, LenProperties
<1>4. /\ sinceTick' <= Late + 1 /\ sinceTick' <= benchClock'
      /\ {benchClock, sinceTick, draining}' \subseteq Nat
  BY <1>1, <1>2, Phases
<1>5. /\ Base(Phase) + HealthyTime <= benchClock /\ benchClock < Base(Phase) + Cycle
      /\ Phase \in Nat /\ Base(Phase) \in Nat /\ Base(Phase + 1) = Base(Phase) + Cycle
  BY <1>2, PhaseIs, Bases
<1>6. CASE Phase = n
  <2> DEFINE t == [start |-> benchClock, hits |-> {}, phase |-> n, last |-> benchClock]
  <2>1. t \in Trial
    BY <1>2 DEF Trial
  <2>2. trialsLog' = Append(trialsLog, t)
    BY <1>1, <1>3, <1>6 DEF TrialOf
  <2>3. t.phase = n /\ t.start = benchClock /\ t.last = benchClock
    OBVIOUS
  <2> HIDE DEF t
  <2>4. /\ trialsLog' \in Seq(Trial) /\ Len(trialsLog') = n + 1
        /\ \A i \in 1 .. n : trialsLog'[i] = trialsLog[i]
        /\ trialsLog'[n + 1] = t
    BY <1>2, <1>3, <2>1, <2>2, AppendProperties
  <2>5. ASSUME NEW i \in 1 .. n + 1 PROVE InItsFault(i)'
    <3>1. CASE i = n + 1
      <4>1. i - 1 = n /\ (Base(i - 1) = Base(n)) /\ Base(i) = Base(n) + Cycle
        BY <1>5, <1>6, <3>1
      <4> QED BY <1>1, <1>2, <1>5, <1>6, <2>3, <2>4, <3>1, <4>1 DEF InItsFault, Base
    <3>2. CASE i # n + 1
      <4>1. i \in 1 .. n
        BY <3>2
      <4> QED BY <1>1, <1>3, <2>4, <4>1 DEF InItsFault, Base, CreditInv
    <3> QED BY <3>1, <3>2
  <2>6. trialsLog'[Len(trialsLog')].last = benchClock' - sinceTick' /\ trialsLog' # <<>>
    <3>1. trialsLog'[Len(trialsLog')].last = benchClock
      BY <2>3, <2>4
    <3>2. benchClock = benchClock' - sinceTick'
      BY <1>1, <1>2
    <3>3. trialsLog' # <<>>
      BY <2>4, EmptySeq
    <3> QED BY <3>1, <3>2, <3>3
  <2> QED BY <1>1, <1>2, <1>4, <2>4, <2>5, <2>6 DEF CreditInv
<1>7. CASE active /\ n >= 1 /\ Phase = n - 1
  <2>1. n \in 1 .. n /\ trialsLog[n] \in Trial
    BY <1>2, <1>3, <1>7, ElementOfSeq
  <2>2. PICK old \in Trial : old = trialsLog[n]
    BY <2>1
  <2>3. PICK t : t = [old EXCEPT !.last = benchClock]
    OBVIOUS
  <2>4. t \in Trial /\ t.phase = old.phase /\ t.start = old.start /\ t.last = benchClock
    BY <1>2, <2>3 DEF Trial
  <2>5. PICK new : new = trialsLog'
    OBVIOUS
  <2>6. new = [trialsLog EXCEPT ![n] = t]
    <3>1. ~(n < Phase + 1)
      BY <1>7
    <3> QED BY <1>1, <1>3, <2>2, <2>3, <2>5, <3>1 DEF TrialOf
  <2>7. /\ new \in Seq(Trial) /\ Len(new) = n /\ new[n] = t
        /\ \A i \in 1 .. n : i # n => new[i] = trialsLog[i]
    <3>1. PICK log \in Seq(Trial) : log = trialsLog
      BY <1>2
    <3>2. n = Len(log) /\ n >= 1 /\ new = [log EXCEPT ![n] = t]
      BY <1>3, <1>7, <2>6, <3>1
    <3> QED BY <2>4, <3>1, <3>2, NewestChanges
  <2>8. ASSUME NEW i \in 1 .. n PROVE InItsFault(i)'
    <3>1. InItsFault(i)
      BY <1>3 DEF CreditInv
    <3>2. CASE i = n
      <4>1. Base(n) = Base(Phase) + Cycle
        BY <1>5, <1>7
      <4>2. trialsLog[i] \in Trial
        BY <2>1, <3>2
      <4>3. trialsLog[i].start <= benchClock
        BY <1>2, <3>1, <4>2 DEF InItsFault, Trial
      <4> QED BY <1>1, <1>2, <1>5, <2>2, <2>4, <2>5, <2>7, <3>1, <3>2, <4>1, <4>3
              DEF InItsFault, Base
    <3>3. CASE i # n
      BY <1>1, <2>5, <2>7, <3>1, <3>3 DEF InItsFault, Base
    <3> QED BY <3>2, <3>3
  <2>9. trialsLog'[Len(trialsLog')].last = benchClock' - sinceTick' /\ trialsLog' # <<>>
    <3>1. trialsLog'[Len(trialsLog')].last = benchClock
      BY <2>4, <2>5, <2>7
    <3>2. benchClock = benchClock' - sinceTick'
      BY <1>1, <1>2
    <3>3. trialsLog' # <<>>
      BY <1>7, <2>5, <2>7, EmptySeq
    <3> QED BY <3>1, <3>2, <3>3
  <2> QED BY <1>1, <1>2, <1>4, <2>5, <2>7, <2>8, <2>9 DEF CreditInv
<1> QED BY <1>1, <1>3, <1>6, <1>7, NextTick

\* A credit changes only the newest trial's hits.
LEMMA Crediting ==
  ASSUME CreditInv, NEW signals \in SUBSET Signals, Credit(signals)
  PROVE  /\ trialsLog' \in Seq(Trial) /\ Len(trialsLog') = Len(trialsLog)
         /\ Len(trialsLog) \in Nat
         /\ \A i \in 1 .. Len(trialsLog) :
              /\ trialsLog'[i].phase = trialsLog[i].phase
              /\ trialsLog'[i].start = trialsLog[i].start
              /\ trialsLog'[i].last = trialsLog[i].last
              /\ trialsLog'[i].hits # trialsLog[i].hits => active /\ i = Len(trialsLog)
<1>1. trialsLog \in Seq(Trial) /\ Len(trialsLog) \in Nat
  BY LenProperties DEF CreditInv
<1>2. CASE ~(active /\ trialsLog # <<>>)
  BY <1>1, <1>2 DEF Credit
<1>3. CASE active /\ trialsLog # <<>>
  <2>1. PICK log \in Seq(Trial) : log = trialsLog
    BY <1>1
  <2>2. PICK n \in Nat : n = Len(log)
    BY <1>1, <2>1
  <2>3. n >= 1 /\ n \in 1 .. n
    BY <1>3, <2>1, <2>2, EmptySeq, LenProperties
  <2>4. PICK old \in Trial : old = log[n]
    BY <2>2, <2>3, ElementOfSeq
  <2>5. PICK t : t = [old EXCEPT !.hits = @ \cup signals]
    OBVIOUS
  <2>6. t \in Trial /\ t.phase = old.phase /\ t.start = old.start /\ t.last = old.last
    BY <2>5 DEF Trial
  <2>7. PICK new : new = trialsLog'
    OBVIOUS
  <2>8. new = [log EXCEPT ![n] = t]
    BY <1>3, <2>1, <2>2, <2>4, <2>5, <2>7 DEF Credit
  <2>9. /\ new \in Seq(Trial) /\ Len(new) = n /\ new[n] = t
        /\ \A i \in 1 .. n : i # n => new[i] = log[i]
    BY <2>2, <2>3, <2>6, <2>8, NewestChanges
  <2> QED BY <1>3, <2>1, <2>2, <2>4, <2>6, <2>7, <2>9
<1> QED BY <1>2, <1>3

\* What comes back is heard while the benchmark listens; it is a credit or
\* leaves the trials alone.
Hears(signals) ==
  /\ Listening /\ InEffect # {} /\ Credit(signals)
  /\ UNCHANGED <<benchClock, sinceTick, finished, draining, active>>

LEMMA HearingOrNot ==
  ASSUME OnVerdict \/ OnHealth \/ OnCmd \/ Lose \/ UNCHANGED benchVars
  PROVE  \/ UNCHANGED <<benchClock, sinceTick, finished, draining, active, trialsLog>>
         \/ \E signals \in SUBSET Signals : Hears(signals)
<1>1. {"verdict"} \subseteq Signals /\ {"intervene"} \subseteq Signals /\ {"cmd"} \subseteq Signals
      /\ {"intervene", "stop"} \subseteq Signals
  BY DEF Signals
<1>2. CASE OnVerdict
  BY <1>1, <1>2 DEF OnVerdict, Hears
<1>3. CASE OnHealth
  BY <1>1, <1>3 DEF OnHealth, Hears
<1>4. CASE OnCmd
  BY <1>1, <1>4 DEF OnCmd, Hears
<1>5. CASE Lose
  BY <1>5 DEF Lose
<1>6. CASE UNCHANGED benchVars
  BY <1>6 DEF benchVars
<1> QED BY <1>2, <1>3, <1>4, <1>5, <1>6

LEMMA HearingKeeps ==
  ASSUME CreditInv, OnVerdict \/ OnHealth \/ OnCmd \/ Lose \/ UNCHANGED benchVars
  PROVE  CreditInv'
<1>1. CASE UNCHANGED <<benchClock, sinceTick, finished, draining, active, trialsLog>>
  BY <1>1 DEF CreditInv, InItsFault, Base
<1>2. ASSUME NEW signals \in SUBSET Signals, Hears(signals) PROVE CreditInv'
  <2>1. UNCHANGED <<benchClock, sinceTick, finished, draining, active>>
    BY <1>2 DEF Hears
  <2>2. PICK new : new = trialsLog'
    OBVIOUS
  <2>3. PICK n \in Nat : n = Len(trialsLog)
    BY LenProperties DEF CreditInv
  <2>4. /\ new \in Seq(Trial) /\ Len(new) = n
        /\ \A i \in 1 .. n : /\ new[i].phase = trialsLog[i].phase
                             /\ new[i].start = trialsLog[i].start
                             /\ new[i].last = trialsLog[i].last
    BY <1>2, <2>2, <2>3, Crediting DEF Hears
  <2>5. ASSUME NEW i \in 1 .. n PROVE InItsFault(i)'
    BY <2>1, <2>2, <2>3, <2>4 DEF CreditInv, InItsFault, Base
  <2>6. active => new # <<>> /\ n >= 1
    BY <2>3, <2>4, EmptySeq, LenProperties DEF CreditInv
  <2>7. active => new[n].last = trialsLog[n].last
    BY <2>4, <2>6
  <2> QED BY <2>1, <2>2, <2>3, <2>4, <2>5, <2>6, <2>7 DEF CreditInv, Base
<1> QED BY <1>1, <1>2, HearingOrNot

LEMMA CreditInvariant == BenchSpec => []CreditInv
<1>1. BenchInit => CreditInv
  <2> SUFFICES ASSUME BenchInit PROVE CreditInv
    OBVIOUS
  <2>1. trialsLog = <<>> /\ Len(trialsLog) = 0 /\ trialsLog \in Seq(Trial)
    BY DEF BenchInit
  <2>2. Base(0) = 0
    BY Phases DEF Base
  <2>3. /\ benchClock = 0 /\ sinceTick = 0 /\ draining = 0 /\ finished = FALSE /\ active = FALSE
    BY DEF BenchInit
  <2>4. \A i \in 1 .. Len(trialsLog) : InItsFault(i)
    BY <2>1
  <2>5. Base(Len(trialsLog)) <= benchClock - sinceTick
          /\ benchClock - sinceTick < Base(Len(trialsLog)) + HealthyTime
    BY <2>1, <2>2, <2>3, Phases
  <2>6. {benchClock, sinceTick, draining} \subseteq Nat
    BY <2>3
  <2>7. sinceTick <= Late + 1 /\ sinceTick <= benchClock
    BY <2>3, Phases
  <2> QED BY <2>1, <2>3, <2>4, <2>5, <2>6, <2>7 DEF CreditInv
<1>2. CreditInv /\ [BenchNext]_benchVars => CreditInv'
  <2> SUFFICES ASSUME CreditInv, [BenchNext]_benchVars PROVE CreditInv'
    OBVIOUS
  <2>1. CASE BenchElapse \/ Drain
    BY <2>1, TimePasses
  <2>2. CASE BenchTick
    BY <2>2, FinishKeeps, HealthyTickKeeps, FaultTickKeeps DEF BenchTick
  <2>3. CASE OnVerdict \/ OnHealth \/ OnCmd \/ Lose \/ UNCHANGED benchVars
    BY <2>3, HearingKeeps
  <2> QED BY <2>1, <2>2, <2>3 DEF BenchNext
<1> QED BY <1>1, <1>2, PTL DEF BenchSpec

\* While a trial is active, no older one is in effect, and it is not long
\* since it started.
LEMMA OnlyTheNewest ==
  ASSUME CreditInv, active, Listening, InEffect # {}, NEW n \in Nat, n = Len(trialsLog)
  PROVE  /\ InEffect = {n} /\ n >= 1 /\ trialsLog[n].phase = n - 1
         /\ benchClock - trialsLog[n].start <= FaultTime + Late + DrainTime
<1>1. n >= 1 /\ n \in 1 .. n /\ trialsLog[n] \in Trial /\ DOMAIN trialsLog = 1 .. n
  <2>1. trialsLog \in Seq(Trial) /\ trialsLog # <<>>
    BY DEF CreditInv
  <2>2. n >= 1
    BY <2>1, EmptySeq, LenProperties
  <2> QED BY <2>1, <2>2, ElementOfSeq, LenProperties
<1>2. PICK m \in Nat : m = n - 1 /\ n = m + 1
  BY <1>1
<1>3. Base(m) \in Nat /\ Base(n) = Base(m) + Cycle
  BY <1>2, Bases
<1>4. /\ trialsLog[n].phase = m /\ trialsLog[n].start \in Nat /\ trialsLog[n].last \in Nat
      /\ trialsLog[n].start >= Base(m) + HealthyTime
      /\ trialsLog[n].start <= trialsLog[n].last
      /\ trialsLog[n].last < Base(n) /\ trialsLog[n].last <= benchClock
  <2>1. InItsFault(n)
    BY <1>1 DEF CreditInv
  <2> QED BY <1>1, <1>2, <2>1 DEF InItsFault, Trial
<1>5. benchClock \in Nat /\ sinceTick \in Nat /\ sinceTick <= Late + 1 /\ draining \in Nat
  BY DEF CreditInv
<1>6. ASSUME NEW i \in InEffect PROVE i = n
  <2>1. i \in 1 .. n /\ benchClock <= trialsLog[i].last + Reaction
    BY <1>1 DEF InEffect
  <2>2. InItsFault(i) /\ trialsLog[i].last \in Nat
    <3>1. trialsLog[i] \in Trial
      BY <2>1, ElementOfSeq DEF CreditInv
    <3> QED BY <2>1, <3>1 DEF CreditInv, Trial
  <2>3. ~(i < n)
    <3> SUFFICES ASSUME i < n PROVE FALSE
      OBVIOUS
    <3>1. i \in Nat /\ (i = m \/ i < m)
      BY <1>2, <2>1
    <3>2. Base(i) \in Nat
      BY <3>1, Bases
    <3>3. Base(i) <= Base(m)
      BY <1>3, <3>1, <3>2, Bases, Phases
    <3>4. trialsLog[i].last < Base(i)
      BY <2>2 DEF InItsFault
    <3>5. PICK li, ln \in Nat : li = trialsLog[i].last /\ ln = trialsLog[n].last
      BY <1>4, <2>2
    <3>6. li < Base(i) /\ ln <= benchClock /\ benchClock <= li + Reaction
            /\ ln >= Base(m) + HealthyTime
      <4>1. PICK st \in Nat : st = trialsLog[n].start
        BY <1>4
      <4>2. st >= Base(m) + HealthyTime /\ st <= ln
        BY <1>4, <3>5, <4>1
      <4>3. ln >= Base(m) + HealthyTime
        BY <1>3, <4>2, Phases
      <4> QED BY <1>4, <2>1, <3>4, <3>5, <4>3
    <3> QED BY <1>3, <1>5, <3>2, <3>3, <3>6, Phases
  <2> QED BY <2>1, <2>3
<1>7. benchClock <= Base(n) + Late + draining /\ (draining < DrainTime \/ draining = 0)
  <2>1. CASE finished
    BY <2>1 DEF CreditInv, Listening
  <2>2. CASE ~finished
    <3>1. trialsLog[n].last = benchClock - sinceTick /\ draining = 0
      BY <2>2 DEF CreditInv
    <3> QED BY <1>3, <1>4, <1>5, <3>1, Phases
  <2> QED BY <2>1, <2>2
<1>8. benchClock - trialsLog[n].start <= FaultTime + Late + DrainTime
  <2>1. PICK st \in Nat : st = trialsLog[n].start /\ st >= Base(m) + HealthyTime
    BY <1>4
  <2>2. draining <= DrainTime
    BY <1>5, <1>7, Phases
  <2>3. PICK b, c, d, e, f, h, l \in Nat :
          /\ b = Base(m) /\ c = benchClock /\ d = draining /\ e = DrainTime
          /\ f = FaultTime /\ h = HealthyTime /\ l = Late
    BY <1>3, <1>5, Phases
  <2>4. c <= b + h + f + l + d /\ d <= e /\ st >= b + h
    BY <1>3, <1>7, <2>1, <2>2, <2>3, Phases
  <2>5. c - st <= f + l + e
    BY <2>4
  <2> QED BY <2>1, <2>3, <2>5
<1> QED BY <1>1, <1>2, <1>4, <1>6, <1>8

(***************************************************************************)
(* A time is credited only to the trial of the one fault in effect, and    *)
(* soon after it began, for any phases that leave each fault a tick and    *)
(* the monitor time to settle (chain_bench.cpp:219-305).                   *)
(***************************************************************************)
THEOREM CreditsAreDue == BenchSpec => CreditIsDue
<1> DEFINE Due1 == \A i \in DOMAIN trialsLog :
             trialsLog'[i].hits # trialsLog[i].hits =>
               /\ InEffect = {i}
               /\ trialsLog[i].phase = i - 1
               /\ benchClock - trialsLog[i].start <= FaultTime + Late + DrainTime
<1>1. CreditInv /\ [BenchNext]_benchVars => [Due1]_benchVars
  <2> SUFFICES ASSUME CreditInv, BenchNext,
                      NEW i \in DOMAIN trialsLog, trialsLog'[i].hits # trialsLog[i].hits
               PROVE  /\ InEffect = {i}
                      /\ trialsLog[i].phase = i - 1
                      /\ benchClock - trialsLog[i].start <= FaultTime + Late + DrainTime
    OBVIOUS
  <2>1. PICK n \in Nat : n = Len(trialsLog) /\ i \in 1 .. n
    BY LenProperties DEF CreditInv
  <2>2. CASE BenchElapse \/ Drain
    BY <2>2 DEF BenchElapse, Drain
  <2>3. CASE BenchTick
    <3>1. trialsLog' = trialsLog \/ trialsLog' = TrialOf(trialsLog, Phase)
      BY <2>3 DEF BenchTick, Finish, PublishTick
    <3>2. trialsLog \in Seq(Trial) /\ trialsLog[i] \in Trial
      BY <2>1, ElementOfSeq DEF CreditInv
    <3>3. TrialOf(trialsLog, Phase)[i].hits = trialsLog[i].hits
      BY <2>1, <3>2 DEF TrialOf, Trial
    <3> QED BY <3>1, <3>3
  <2>4. CASE OnVerdict \/ OnHealth \/ OnCmd \/ Lose
    <3>1. PICK signals \in SUBSET Signals : Hears(signals)
      BY <2>4, HearingOrNot
    <3>2. active /\ i = n
      BY <2>1, <3>1, Crediting DEF Hears
    <3> QED BY <2>1, <3>1, <3>2, OnlyTheNewest DEF Hears
  <2> QED BY <2>2, <2>3, <2>4 DEF BenchNext
<1>2. []CreditInv /\ [][BenchNext]_benchVars => [][Due1]_benchVars
  BY <1>1, PTL
<1> QED BY <1>2, CreditInvariant DEF BenchSpec, CreditIsDue

-----------------------------------------------------------------------------
(* What the probe records of a trial, and the summary of it. *)

MessageOf(topic) ==
  CASE topic = "health"    -> [stamp : Nat, state : States]
    [] topic = "verdicts"  -> [stamp : Nat, source : STRING]
    [] topic = "embedding" -> [stamp : Nat, dim : Nat]

Frame == [dim : Nat, line : Nat]

RecTyped ==
  /\ carried \in Traffic /\ recClock \in Nat /\ stepped \in BOOLEAN
  /\ injectedAt \in Nat \cup {None}
  /\ DOMAIN wire = RecTopics /\ \A topic \in RecTopics : wire[topic] \in Seq(MessageOf(topic))
  /\ recRows \in Seq(Line) /\ recFrames \in Seq(Frame)
  /\ ringFilled \in Nat /\ ringDim \in Nat

\* Nothing is stamped after it is received while the clock only advances.
StampedBefore(messages) == \A j \in 1 .. Len(messages) : messages[j].stamp <= recClock

InOrder ==
  ~stepped =>
    /\ \A i \in 1 .. Len(recRows) : recRows[i].stamp <= recRows[i].t
    /\ \A topic \in RecTopics : StampedBefore(wire[topic])

StatesHaveNames ==
  \A i \in 1 .. Len(recRows) : recRows[i].topic = "health" => recRows[i].state \in States

(***************************************************************************)
(* SpreadsAreWhole as it is inductive: the ring holds the last frames of   *)
(* the last size, and as many as there are of it in a row, up to a window. *)
(***************************************************************************)
RingHolds(frames, filled, dim) ==
  /\ filled <= Len(frames) /\ filled <= ProbeWindow
  /\ Len(frames) > 0 => filled >= 1
  /\ \A j \in Len(frames) - filled + 1 .. Len(frames) : frames[j].dim = dim
  /\ filled < ProbeWindow /\ filled < Len(frames) => frames[Len(frames) - filled].dim # dim

RowsOfFrames ==
  \A i \in 1 .. Len(recFrames) :
    /\ recFrames[i].line \in 1 .. Len(recRows)
    /\ recRows[recFrames[i].line].spread # None <=>
         /\ i >= ProbeWindow
         /\ \A j \in i - ProbeWindow + 1 .. i : recFrames[j].dim = recFrames[i].dim

RecInv ==
  /\ RecTyped /\ InOrder /\ StatesHaveNames
  /\ RingHolds(recFrames, ringFilled, ringDim) /\ RowsOfFrames

\* A full ring is a whole window of one size.
LEMMA FullIsWhole ==
  ASSUME NEW frames \in Seq(Frame), NEW n \in Nat, n = Len(frames), n > 0,
         NEW filled \in Nat, NEW dim, RingHolds(frames, filled, dim)
  PROVE  filled = ProbeWindow <=>
           /\ n >= ProbeWindow
           /\ \A j \in n - ProbeWindow + 1 .. n : frames[j].dim = frames[n].dim
<1>1. /\ ProbeWindow \in Nat /\ filled <= n /\ filled <= ProbeWindow /\ filled >= 1
      /\ \A j \in n - filled + 1 .. n : frames[j].dim = dim
      /\ filled < ProbeWindow /\ filled < n => frames[n - filled].dim # dim
  BY RecorderAssumption DEF RingHolds
<1>2. frames[n].dim = dim
  BY <1>1
<1>3. ASSUME filled = ProbeWindow
      PROVE  n >= ProbeWindow /\ \A j \in n - ProbeWindow + 1 .. n : frames[j].dim = dim
  BY <1>1, <1>3
<1>4. ASSUME filled # ProbeWindow, n >= ProbeWindow
      PROVE  \E j \in n - ProbeWindow + 1 .. n : frames[j].dim # dim
  <2>1. n - filled \in n - ProbeWindow + 1 .. n /\ frames[n - filled].dim # dim
    BY <1>1, <1>4
  <2> QED BY <2>1
<1> QED BY <1>2, <1>3, <1>4

\* A frame is put into the ring.
LEMMA RingTakes ==
  ASSUME NEW frames \in Seq(Frame), NEW filled \in Nat, NEW dim \in Nat,
         RingHolds(frames, filled, dim), NEW f \in Frame,
         NEW before \in Nat, before = IF f.dim # dim THEN 0 ELSE filled,
         NEW filled2 \in Nat, filled2 = IF before < ProbeWindow THEN before + 1 ELSE ProbeWindow
  PROVE  RingHolds(Append(frames, f), filled2, f.dim)
<1>1. PICK n \in Nat : n = Len(frames)
  BY LenProperties
<1>2. PICK g : g = Append(frames, f)
  OBVIOUS
<1>3. /\ Len(g) = n + 1 /\ g[n + 1] = f /\ \A i \in 1 .. n : g[i] = frames[i]
  BY <1>1, <1>2, AppendProperties
<1>4. /\ ProbeWindow \in Nat /\ ProbeWindow >= 1 /\ filled <= n /\ filled <= ProbeWindow
      /\ n > 0 => filled >= 1
      /\ \A j \in n - filled + 1 .. n : frames[j].dim = dim
      /\ filled < ProbeWindow /\ filled < n => frames[n - filled].dim # dim
  BY <1>1, RecorderAssumption DEF RingHolds
<1>5. filled2 >= 1 /\ filled2 <= n + 1 /\ filled2 <= ProbeWindow
  BY <1>4
<1>6. ASSUME NEW j \in n + 1 - filled2 + 1 .. n + 1 PROVE g[j].dim = f.dim
  <2>1. CASE j = n + 1
    BY <1>3, <2>1
  <2>2. CASE j # n + 1
    <3>1. j \in 1 .. n /\ j \in n - filled + 1 .. n /\ f.dim = dim
      BY <1>4, <1>5, <2>2
    <3> QED BY <1>3, <1>4, <3>1
  <2> QED BY <2>1, <2>2
<1>7. ASSUME filled2 < ProbeWindow, filled2 < n + 1 PROVE g[n + 1 - filled2].dim # f.dim
  <2>1. CASE f.dim # dim
    <3>1. filled2 = 1 /\ n \in 1 .. n /\ n \in n - filled + 1 .. n
      BY <1>4, <1>7, <2>1
    <3> QED BY <1>3, <1>4, <2>1, <3>1
  <2>2. CASE f.dim = dim
    <3>1. /\ filled2 = filled + 1 /\ filled < ProbeWindow /\ filled < n
          /\ n + 1 - filled2 = n - filled /\ n - filled \in 1 .. n
      BY <1>4, <1>7, <2>2
    <3> QED BY <1>3, <1>4, <2>2, <3>1
  <2> QED BY <2>1, <2>2
<1>8. RingHolds(g, filled2, f.dim)
  BY <1>3, <1>5, <1>6, <1>7, <1>1 DEF RingHolds
<1> QED BY <1>2, <1>8

-----------------------------------------------------------------------------
LEMMA Sending ==
  ASSUME RecInv, NEW topic \in RecTopics, NEW msg \in MessageOf(topic), msg.stamp = recClock,
         Send(topic, msg)
  PROVE  RecInv'
<1>1. /\ UNCHANGED <<carried, recClock, stepped, injectedAt, ringDim, ringFilled, recRows, recFrames>>
      /\ wire' = [wire EXCEPT ![topic] = Append(wire[topic], msg)]
  BY DEF Send, probe
<1>2. /\ DOMAIN wire = RecTopics /\ \A s \in RecTopics : wire[s] \in Seq(MessageOf(s))
      /\ recClock \in Nat
  BY DEF RecInv, RecTyped
<1>3. /\ DOMAIN wire' = RecTopics /\ wire'[topic] = Append(wire[topic], msg)
      /\ \A s \in RecTopics : s # topic => wire'[s] = wire[s]
  BY <1>1, <1>2
<1>4. PICK old \in Seq(MessageOf(topic)) : old = wire[topic]
  BY <1>2
<1>5. PICK new : new = Append(old, msg)
  OBVIOUS
<1>6. /\ new \in Seq(MessageOf(topic)) /\ Len(old) \in Nat /\ Len(new) = Len(old) + 1
      /\ \A j \in 1 .. Len(old) : new[j] = old[j]
      /\ new[Len(old) + 1] = msg
  BY <1>5, AppendProperties, LenProperties
<1>7. \A s \in RecTopics : wire'[s] \in Seq(MessageOf(s))
  BY <1>2, <1>3, <1>4, <1>5, <1>6
<1>8. ASSUME StampedBefore(old), NEW j \in 1 .. Len(new) PROVE new[j].stamp <= recClock
  BY <1>2, <1>6, <1>8 DEF StampedBefore
<1>9. ASSUME ~stepped, NEW s \in RecTopics PROVE StampedBefore(wire[s])'
  <2>1. StampedBefore(wire[s])
    BY <1>9 DEF RecInv, InOrder
  <2>2. CASE s # topic
    BY <1>1, <1>3, <2>1, <2>2 DEF StampedBefore
  <2>3. CASE s = topic
    <3>1. StampedBefore(old) /\ wire'[s] = new
      BY <1>3, <1>4, <1>5, <2>1, <2>3
    <3> QED BY <1>1, <1>8, <3>1 DEF StampedBefore
  <2> QED BY <2>2, <2>3
<1>10. RecTyped'
  BY <1>1, <1>3, <1>7 DEF RecInv, RecTyped
<1>11. InOrder'
  BY <1>1, <1>9 DEF RecInv, InOrder
<1> QED BY <1>1, <1>10, <1>11 DEF RecInv, StatesHaveNames, RowsOfFrames

\* A message is taken off the wire.
LEMMA Taking ==
  ASSUME RecInv, NEW topic \in RecTopics, Take(topic)
  PROVE  /\ UNCHANGED <<carried, recClock, stepped, injectedAt>>
         /\ DOMAIN wire' = RecTopics /\ \A s \in RecTopics : wire'[s] \in Seq(MessageOf(s))
         /\ ~stepped => \A s \in RecTopics : StampedBefore(wire[s])'
         /\ Heard(topic) \in MessageOf(topic)
         /\ ~stepped => Heard(topic).stamp <= recClock
<1>1. /\ UNCHANGED <<carried, recClock, stepped, injectedAt>>
      /\ wire[topic] # <<>> /\ wire' = [wire EXCEPT ![topic] = Tail(wire[topic])]
  BY DEF Take
<1>2. /\ DOMAIN wire = RecTopics /\ \A s \in RecTopics : wire[s] \in Seq(MessageOf(s))
  BY DEF RecInv, RecTyped
<1>3. /\ DOMAIN wire' = RecTopics /\ wire'[topic] = Tail(wire[topic])
      /\ \A s \in RecTopics : s # topic => wire'[s] = wire[s]
  BY <1>1, <1>2
<1>4. PICK old \in Seq(MessageOf(topic)) : old = wire[topic]
  BY <1>2
<1>5. PICK new : new = Tail(old)
  OBVIOUS
<1>6. /\ new \in Seq(MessageOf(topic)) /\ Len(old) \in Nat /\ Len(old) >= 1
      /\ Len(new) = Len(old) - 1
      /\ \A j \in 1 .. Len(new) : new[j] = old[j + 1]
      /\ Head(old) = old[1] /\ old[1] \in MessageOf(topic)
  <2>1. old # <<>> /\ Len(old) \in Nat
    BY <1>1, <1>4, LenProperties
  <2>2. Len(old) >= 1
    BY <2>1, EmptySeq
  <2>3. old[1] \in MessageOf(topic)
    BY <2>1, <2>2, ElementOfSeq
  <2> QED BY <1>5, <2>1, <2>2, <2>3, HeadTailProperties
<1>7. \A s \in RecTopics : wire'[s] \in Seq(MessageOf(s))
  BY <1>2, <1>3, <1>4, <1>5, <1>6
<1>8. Heard(topic) = old[1] /\ Heard(topic) \in MessageOf(topic)
  BY <1>4, <1>6 DEF Heard
<1>9. ASSUME ~stepped PROVE StampedBefore(old) /\ old[1].stamp <= recClock
  <2>1. StampedBefore(wire[topic])
    BY <1>9 DEF RecInv, InOrder
  <2> QED BY <1>4, <1>6, <2>1 DEF StampedBefore
<1>10. ASSUME ~stepped, NEW s \in RecTopics PROVE StampedBefore(wire[s])'
  <2>1. StampedBefore(wire[s])
    BY <1>10 DEF RecInv, InOrder
  <2>2. CASE s # topic
    BY <1>1, <1>3, <2>1, <2>2 DEF StampedBefore
  <2>3. CASE s = topic
    <3>1. wire'[s] = new
      BY <1>3, <1>4, <1>5, <2>3
    <3>2. \A j \in 1 .. Len(new) : j + 1 \in 1 .. Len(old)
      BY <1>6
    <3>3. \A j \in 1 .. Len(new) : new[j].stamp <= recClock
      BY <1>6, <1>9, <1>10, <3>2 DEF StampedBefore
    <3> QED BY <1>1, <3>1, <3>3 DEF StampedBefore
  <2> QED BY <2>2, <2>3
<1> QED BY <1>1, <1>3, <1>7, <1>8, <1>9, <1>10

\* A line is written, with or without a frame put into the ring.
LEMMA Recording ==
  ASSUME RecInv, NEW topic \in RecTopics, Take(topic), NEW row \in Line,
         recRows' = Append(recRows, row),
         ~stepped => row.stamp <= row.t,
         row.topic = "health" => row.state \in States
  PROVE  /\ recRows' \in Seq(Line) /\ Len(recRows) \in Nat /\ Len(recRows') = Len(recRows) + 1
         /\ \A i \in 1 .. Len(recRows) : recRows'[i] = recRows[i]
         /\ recRows'[Len(recRows) + 1] = row
         /\ InOrder' /\ StatesHaveNames'
<1>1. recRows \in Seq(Line) /\ Len(recRows) \in Nat
  BY LenProperties DEF RecInv, RecTyped
<1>2. PICK new : new = recRows'
  OBVIOUS
<1>3. /\ new \in Seq(Line) /\ Len(new) = Len(recRows) + 1
      /\ \A i \in 1 .. Len(recRows) : new[i] = recRows[i]
      /\ new[Len(recRows) + 1] = row
  <2>1. new = Append(recRows, row)
    BY <1>2
  <2> QED BY <1>1, <2>1, AppendProperties
<1>4. UNCHANGED stepped /\ (~stepped => \A s \in RecTopics : StampedBefore(wire[s])')
  BY Taking
<1>5. ASSUME ~stepped, NEW i \in 1 .. Len(new) PROVE new[i].stamp <= new[i].t
  BY <1>1, <1>3, <1>5 DEF RecInv, InOrder
<1>6. ASSUME NEW i \in 1 .. Len(new), new[i].topic = "health" PROVE new[i].state \in States
  BY <1>1, <1>3, <1>6 DEF RecInv, StatesHaveNames
<1>7. InOrder'
  BY <1>2, <1>4, <1>5 DEF InOrder
<1>8. StatesHaveNames'
  BY <1>2, <1>6 DEF StatesHaveNames
<1> QED BY <1>1, <1>2, <1>3, <1>7, <1>8

LEMMA OtherRowsKeep ==
  ASSUME RecInv, RecordHealth \/ RecordVerdict
  PROVE  RecInv'
<1>1. PICK topic \in RecTopics, row \in Line :
        /\ Take(topic) /\ recRows' = Append(recRows, row)
        /\ UNCHANGED <<ringDim, ringFilled, recFrames>>
        /\ ~stepped => row.stamp <= row.t
        /\ row.topic = "health" => row.state \in States
  <2>1. recClock \in Nat
    BY DEF RecInv, RecTyped
  <2>2. CASE RecordHealth
    <3>1. "health" \in RecTopics /\ Take("health")
      BY <2>2 DEF RecordHealth, RecTopics
    <3>2. PICK msg : msg = Heard("health") /\ msg \in [stamp : Nat, state : States]
            /\ (~stepped => msg.stamp <= recClock)
      BY <3>1, Taking DEF MessageOf
    <3>3. PICK row : row = [Row(recClock, "health", msg.stamp)
                              EXCEPT !.state = msg.state, !.source = "arbiter"]
      OBVIOUS
    <3>4. /\ row \in Line /\ row.stamp = msg.stamp /\ row.t = recClock
          /\ row.state = msg.state /\ msg.state \in States
      <4>1. row = [t |-> recClock, topic |-> "health", stamp |-> msg.stamp, state |-> msg.state,
                   source |-> "arbiter", violating |-> 0, spread |-> None]
        BY <3>3 DEF Row
      <4>2. msg.stamp \in Nat /\ msg.state \in States
        BY <3>2
      <4> QED BY <2>1, <4>1, <4>2 DEF Line
    <3>5. recRows' = Append(recRows, row) /\ UNCHANGED <<ringDim, ringFilled, recFrames>>
      BY <2>2, <3>2, <3>3 DEF RecordHealth
    <3> QED BY <3>1, <3>2, <3>4, <3>5
  <2>3. CASE RecordVerdict
    <3>1. "verdicts" \in RecTopics /\ Take("verdicts")
      BY <2>3 DEF RecordVerdict, RecTopics
    <3>2. PICK msg : msg = Heard("verdicts") /\ msg \in [stamp : Nat, source : STRING]
            /\ (~stepped => msg.stamp <= recClock)
      BY <3>1, Taking DEF MessageOf
    <3>3. PICK row : row = [Row(recClock, "verdicts", msg.stamp)
                              EXCEPT !.source = msg.source, !.violating = 1]
      OBVIOUS
    <3>4. /\ row \in Line /\ row.stamp = msg.stamp /\ row.t = recClock
          /\ row.topic = "verdicts"
      <4>1. row = [t |-> recClock, topic |-> "verdicts", stamp |-> msg.stamp, state |-> -1,
                   source |-> msg.source, violating |-> 1, spread |-> None]
        BY <3>3 DEF Row
      <4>2. msg.source \in STRING /\ msg.stamp \in Nat
        BY <3>2
      <4> QED BY <2>1, <4>1, <4>2 DEF Line
    <3>5. recRows' = Append(recRows, row) /\ UNCHANGED <<ringDim, ringFilled, recFrames>>
      BY <2>3, <3>2, <3>3 DEF RecordVerdict
    <3> QED BY <3>1, <3>2, <3>4, <3>5
  <2> QED BY <2>2, <2>3
<1>2. /\ recRows' \in Seq(Line) /\ Len(recRows) \in Nat /\ Len(recRows') = Len(recRows) + 1
      /\ \A i \in 1 .. Len(recRows) : recRows'[i] = recRows[i]
      /\ InOrder' /\ StatesHaveNames'
  BY <1>1, Recording
<1>3. RecTyped'
  <2>1. /\ UNCHANGED <<carried, recClock, stepped, injectedAt>>
        /\ DOMAIN wire' = RecTopics /\ \A s \in RecTopics : wire'[s] \in Seq(MessageOf(s))
    BY <1>1, Taking
  <2> QED BY <1>1, <1>2, <2>1 DEF RecInv, RecTyped
<1>4. RowsOfFrames'
  BY <1>1, <1>2 DEF RecInv, RowsOfFrames
<1> QED BY <1>1, <1>2, <1>3, <1>4 DEF RecInv

LEMMA EmbeddingKeeps ==
  ASSUME RecInv, RecordEmbedding
  PROVE  RecInv'
<1>1. /\ "embedding" \in RecTopics /\ Take("embedding")
      /\ recClock \in Nat /\ ringFilled \in Nat /\ ringDim \in Nat /\ ProbeWindow \in Nat
      /\ ProbeWindow >= 1 /\ ringFilled <= ProbeWindow
  BY RecorderAssumption DEF RecInv, RecTyped, RecordEmbedding, RecTopics, RingHolds
<1>2. PICK msg : msg = Heard("embedding") /\ msg \in [stamp : Nat, dim : Nat]
        /\ (~stepped => msg.stamp <= recClock)
  BY <1>1, Taking DEF MessageOf
<1>3. PICK frames \in Seq(Frame) : frames = recFrames
  BY DEF RecInv, RecTyped
<1>4. PICK n \in Nat, m \in Nat : n = Len(frames) /\ m = Len(recRows)
  BY LenProperties DEF RecInv, RecTyped
<1>5. PICK f : f = [dim |-> msg.dim, line |-> m + 1]
  OBVIOUS
<1>6. f \in Frame /\ f.dim = msg.dim /\ f.line = m + 1
  BY <1>2, <1>5 DEF Frame
<1>7. PICK filled \in Nat : filled = Filled(msg.dim)
  BY <1>1 DEF Filled
<1>8. PICK row : row = [Row(recClock, "embedding", msg.stamp) EXCEPT
                          !.spread = IF filled = ProbeWindow THEN 1 ELSE None]
  OBVIOUS
<1>9. /\ row \in Line /\ row.stamp = msg.stamp /\ row.t = recClock /\ row.topic = "embedding"
      /\ row.spread # None <=> filled = ProbeWindow
  BY <1>1, <1>2, <1>8, SessionAssumption DEF Row, Line
<1>10. /\ ringDim' = f.dim /\ ringFilled' = filled
       /\ recFrames' = Append(frames, f) /\ recRows' = Append(recRows, row)
  BY <1>2, <1>3, <1>4, <1>5, <1>6, <1>7, <1>8 DEF RecordEmbedding
<1>11. /\ recRows' \in Seq(Line) /\ Len(recRows') = m + 1
       /\ \A i \in 1 .. m : recRows'[i] = recRows[i]
       /\ recRows'[m + 1] = row
       /\ InOrder' /\ StatesHaveNames'
  BY <1>1, <1>2, <1>4, <1>9, <1>10, Recording
<1>12. PICK new : new = Append(frames, f)
  OBVIOUS
<1>13. /\ new \in Seq(Frame) /\ Len(new) = n + 1 /\ new[n + 1] = f
       /\ \A i \in 1 .. n : new[i] = frames[i]
  BY <1>4, <1>6, <1>12, AppendProperties
<1>14. RingHolds(new, filled, f.dim)
  <2>1. PICK dim \in Nat : dim = ringDim
    BY <1>1
  <2>2. PICK held \in Nat : held = ringFilled
    BY <1>1
  <2>3. RingHolds(frames, held, dim)
    BY <1>3, <2>1, <2>2 DEF RecInv
  <2>4. PICK before \in Nat : before = IF f.dim # dim THEN 0 ELSE held
    OBVIOUS
  <2>5. filled = IF before < ProbeWindow THEN before + 1 ELSE ProbeWindow
    BY <1>6, <1>7, <2>1, <2>2, <2>4 DEF Filled
  <2>6. RingHolds(Append(frames, f), filled, f.dim)
    BY <1>6, <2>3, <2>4, <2>5, RingTakes
  <2> QED BY <1>12, <2>6
<1>15. RecTyped'
  <2>1. /\ UNCHANGED <<carried, recClock, stepped, injectedAt>>
        /\ DOMAIN wire' = RecTopics /\ \A s \in RecTopics : wire'[s] \in Seq(MessageOf(s))
    BY <1>1, Taking
  <2>2. f.dim \in Nat
    BY <1>2, <1>6
  <2> QED BY <1>10, <1>11, <1>12, <1>13, <2>1, <2>2 DEF RecInv, RecTyped
<1>16. RowsOfFrames'
  <2>1. ASSUME NEW i \in 1 .. n + 1
        PROVE  /\ new[i].line \in 1 .. m + 1
               /\ recRows'[new[i].line].spread # None <=>
                    /\ i >= ProbeWindow
                    /\ \A j \in i - ProbeWindow + 1 .. i : new[j].dim = new[i].dim
    <3>1. CASE i = n + 1
      <4>1. PICK k \in Nat : k = n + 1 /\ k = Len(new) /\ k > 0
        BY <1>13
      <4>2. filled = ProbeWindow <=>
              /\ k >= ProbeWindow
              /\ \A j \in k - ProbeWindow + 1 .. k : new[j].dim = new[k].dim
        BY <1>13, <1>14, <4>1, FullIsWhole
      <4>3. i = k /\ new[i].line = m + 1 /\ recRows'[new[i].line] = row /\ m + 1 \in 1 .. m + 1
        BY <1>6, <1>11, <1>13, <3>1, <4>1
      <4> QED BY <1>9, <4>2, <4>3
    <3>2. CASE i # n + 1
      <4>1. i \in 1 .. n /\ new[i] = frames[i]
        BY <1>13, <3>2
      <4>2. /\ frames[i].line \in 1 .. m
            /\ recRows[frames[i].line].spread # None <=>
                 /\ i >= ProbeWindow
                 /\ \A j \in i - ProbeWindow + 1 .. i : frames[j].dim = frames[i].dim
        BY <1>3, <1>4, <4>1 DEF RecInv, RowsOfFrames
      <4>3. i >= ProbeWindow => \A j \in i - ProbeWindow + 1 .. i : new[j] = frames[j]
        <5>1. i >= ProbeWindow => \A j \in i - ProbeWindow + 1 .. i : j \in 1 .. n
          BY <1>1, <4>1
        <5> QED BY <1>13, <5>1
      <4>4. recRows'[new[i].line] = recRows[frames[i].line] /\ new[i].line \in 1 .. m + 1
        BY <1>11, <4>1, <4>2
      <4> QED BY <4>1, <4>2, <4>3, <4>4
    <3> QED BY <3>1, <3>2
  <2> QED BY <1>10, <1>11, <1>12, <1>13, <2>1 DEF RowsOfFrames
<1> QED BY <1>10, <1>11, <1>12, <1>14, <1>15, <1>16 DEF RecInv

LEMMA RecInvariant == RecSpec => []RecInv
<1>1. RecInit => RecInv
  <2> SUFFICES ASSUME RecInit PROVE RecInv
    OBVIOUS
  <2>1. /\ recRows = <<>> /\ recFrames = <<>> /\ Len(recRows) = 0 /\ Len(recFrames) = 0
        /\ \A s \in RecTopics : wire[s] = <<>> /\ Len(wire[s]) = 0
    BY DEF RecInit
  <2>2. /\ recRows \in Seq(Line) /\ recFrames \in Seq(Frame) /\ DOMAIN wire = RecTopics
        /\ \A s \in RecTopics : wire[s] \in Seq(MessageOf(s))
    BY <2>1 DEF RecInit
  <2>3. RecTyped
    BY <2>2 DEF RecInit, RecTyped
  <2>4. InOrder /\ StatesHaveNames /\ RowsOfFrames
    BY <2>1 DEF InOrder, StatesHaveNames, RowsOfFrames, StampedBefore
  <2>5. RingHolds(recFrames, ringFilled, ringDim)
    BY <2>1, RecorderAssumption DEF RecInit, RingHolds
  <2> QED BY <2>3, <2>4, <2>5 DEF RecInv
<1>2. RecInv /\ [RecNext]_recVars => RecInv'
  <2> SUFFICES ASSUME RecInv, [RecNext]_recVars PROVE RecInv'
    OBVIOUS
  <2>1. CASE RecElapse \/ SetBack \/ InjectFault \/ UNCHANGED recVars
    <3>1. /\ UNCHANGED <<carried, wire, ringDim, ringFilled, recRows, recFrames>>
          /\ recClock' \in Nat /\ stepped' \in BOOLEAN /\ injectedAt' \in Nat \cup {None}
          /\ ~stepped' => ~stepped /\ recClock' >= recClock
      <4>1. recClock \in Nat /\ stepped \in BOOLEAN /\ injectedAt \in Nat \cup {None}
        BY DEF RecInv, RecTyped
      <4>2. CASE RecElapse
        BY <4>1, <4>2 DEF RecElapse, probe
      <4>3. CASE SetBack
        BY <4>1, <4>3 DEF SetBack, probe
      <4>4. CASE InjectFault
        BY <4>1, <4>4 DEF InjectFault, probe
      <4>5. CASE UNCHANGED recVars
        BY <4>1, <4>5 DEF recVars
      <4> QED BY <2>1, <4>2, <4>3, <4>4, <4>5
    <3>2. RecTyped'
      BY <3>1 DEF RecInv, RecTyped
    <3>3. InOrder'
      <4> SUFFICES ASSUME ~stepped'
                   PROVE  \A s \in RecTopics : StampedBefore(wire[s])'
        BY <3>1 DEF RecInv, InOrder
      <4> SUFFICES ASSUME NEW s \in RecTopics, NEW j \in 1 .. Len(wire[s])
                   PROVE  wire[s][j].stamp <= recClock'
        BY <3>1 DEF StampedBefore
      <4>1. wire[s][j].stamp <= recClock
        BY <3>1 DEF RecInv, InOrder, StampedBefore
      <4>2. wire[s][j].stamp \in Nat
        <5>1. wire[s][j] \in MessageOf(s)
          BY ElementOfSeq DEF RecInv, RecTyped
        <5> QED BY <5>1 DEF MessageOf, RecTopics
      <4>3. recClock \in Nat
        BY DEF RecInv, RecTyped
      <4> QED BY <3>1, <4>1, <4>2, <4>3
    <3> QED BY <3>1, <3>2, <3>3 DEF RecInv, StatesHaveNames, RowsOfFrames
  <2>2. CASE SendHealth \/ SendVerdict \/ SendEmbedding
    <3>1. \E topic \in RecTopics : \E msg \in MessageOf(topic) :
            msg.stamp = recClock /\ Send(topic, msg)
      <4>1. recClock \in Nat /\ carried \in Traffic
        BY DEF RecInv, RecTyped
      <4>2. /\ carried.health \subseteq States /\ carried.verdicts \subseteq STRING
            /\ carried.embedding \subseteq Nat
        BY <4>1, RecorderAssumption
      <4>3. CASE SendHealth
        BY <4>1, <4>2, <4>3 DEF SendHealth, MessageOf, RecTopics
      <4>4. CASE SendVerdict
        BY <4>1, <4>2, <4>4 DEF SendVerdict, MessageOf, RecTopics
      <4>5. CASE SendEmbedding
        BY <4>1, <4>2, <4>5 DEF SendEmbedding, MessageOf, RecTopics
      <4> QED BY <2>2, <4>3, <4>4, <4>5
    <3> QED BY <3>1, Sending
  <2>3. CASE RecordHealth \/ RecordVerdict
    BY <2>3, OtherRowsKeep
  <2>4. CASE RecordEmbedding
    BY <2>4, EmbeddingKeeps
  <2>5. CASE LoseEmbedding
    <3>1. /\ "embedding" \in RecTopics /\ Take("embedding")
          /\ UNCHANGED <<ringDim, ringFilled, recRows, recFrames>>
      BY <2>5 DEF LoseEmbedding, RecTopics, probe
    <3>2. /\ UNCHANGED <<carried, recClock, stepped, injectedAt>>
          /\ DOMAIN wire' = RecTopics /\ \A s \in RecTopics : wire'[s] \in Seq(MessageOf(s))
          /\ ~stepped => \A s \in RecTopics : StampedBefore(wire[s])'
      BY <3>1, Taking
    <3>3. RecTyped'
      BY <3>1, <3>2 DEF RecInv, RecTyped
    <3>4. InOrder'
      BY <3>1, <3>2 DEF RecInv, InOrder
    <3> QED BY <3>1, <3>3, <3>4 DEF RecInv, StatesHaveNames, RowsOfFrames
  <2> QED BY <2>1, <2>2, <2>3, <2>4, <2>5 DEF RecNext
<1> QED BY <1>1, <1>2, PTL DEF RecSpec

(***************************************************************************)
(* A recorded spread is of a whole window of one size, for any window and  *)
(* any sizes the embeddings change between (probe.cpp:190-210).            *)
(***************************************************************************)
THEOREM SpreadsCoverTheWindow == RecSpec => []SpreadsAreWhole
<1>1. RecInv => SpreadsAreWhole
  <2> SUFFICES ASSUME RecInv PROVE SpreadsAreWhole
    OBVIOUS
  <2>1. DOMAIN recFrames = 1 .. Len(recFrames)
    BY LenProperties DEF RecInv, RecTyped
  <2> QED BY <2>1 DEF RecInv, RowsOfFrames, SpreadsAreWhole
<1> QED BY <1>1, RecInvariant, PTL

LEMMA LeastNat ==
  ASSUME NEW T \in SUBSET Nat, T # {}
  PROVE  \E m \in T : \A x \in T : m <= x
<1>1. PICK m \in T : \A x \in T : <<x, m>> \notin OpToRel(<, Nat)
  BY NatLessThanWellFounded, WFMin
<1>2. \A x \in T : ~(x < m)
  BY <1>1 DEF OpToRel
<1> QED BY <1>2

HitsOf(rows, tf, matching) == {i \in matching : rows[i].t >= tf}

\* A first hit there is, and none is before it.
LEMMA FirstAfterIs ==
  ASSUME NEW rows \in Seq(Line), NEW tf \in Int, NEW matching \in SUBSET (1 .. Len(rows)),
         NEW hits, hits = HitsOf(rows, tf, matching),
         NEW first, first = FirstAfter(rows, tf, matching)
  PROVE  /\ hits = {} => first = None
         /\ hits # {} => /\ first # None
                         /\ \E i \in hits : /\ first.latency = rows[i].t - tf
                                            /\ first.row = rows[i]
                                            /\ \A j \in hits : rows[i].t <= rows[j].t
<1> USE DEF HitsOf
<1>1. \A i \in hits : rows[i] \in Line /\ i \in Nat /\ rows[i].t \in Int /\ rows[i].t >= tf
  <2>1. \A i \in hits : i \in 1 .. Len(rows) /\ i \in Nat /\ rows[i].t >= tf
    BY LenProperties
  <2>2. \A i \in hits : rows[i] \in Line
    BY <2>1, ElementOfSeq
  <2> QED BY <2>1, <2>2 DEF Line
<1>2. hits = {} => first = None
  BY DEF FirstAfter
<1>3. SUFFICES ASSUME hits # {}
               PROVE  /\ first # None
                      /\ \E i \in hits : /\ first.latency = rows[i].t - tf
                                         /\ first.row = rows[i]
                                         /\ \A j \in hits : rows[i].t <= rows[j].t
  BY <1>2
<1> DEFINE IsFirst(i) == \A j \in hits : rows[i].t < rows[j].t \/ (rows[i].t = rows[j].t /\ i <= j)
<1>4. \E i \in hits : IsFirst(i)
  <2> DEFINE times == {rows[i].t - tf : i \in hits}
  <2>1. times \in SUBSET Nat /\ times # {}
    <3>1. \A i \in hits : rows[i].t - tf \in Nat
      <4> SUFFICES ASSUME NEW i \in hits PROVE rows[i].t - tf \in Nat
        OBVIOUS
      <4>1. rows[i].t \in Int /\ rows[i].t >= tf
        BY <1>1
      <4> QED BY <4>1
    <3> QED BY <1>3, <3>1
  <2> HIDE DEF times
  <2>2. PICK least \in times : \A x \in times : least <= x
    BY <2>1, LeastNat
  <2> USE DEF times
  <2> DEFINE early == {i \in hits : rows[i].t - tf = least}
  <2>3. early \in SUBSET Nat /\ early # {}
    BY <1>1
  <2> HIDE DEF early
  <2>4. PICK i \in early : \A j \in early : i <= j
    BY <2>3, LeastNat
  <2> USE DEF early
  <2>5. ASSUME NEW j \in hits PROVE rows[i].t < rows[j].t \/ (rows[i].t = rows[j].t /\ i <= j)
    <3>1. rows[i].t \in Int /\ rows[j].t \in Int /\ rows[i].t - tf = least /\ i \in hits
      BY <1>1
    <3>2. least <= rows[j].t - tf
      BY <2>2
    <3>3. CASE rows[j].t - tf = least
      BY <2>4, <3>1, <3>3
    <3>4. CASE rows[j].t - tf # least
      BY <3>1, <3>2, <3>4
    <3> QED BY <3>3, <3>4
  <2> QED BY <2>5
<1>5. PICK i : i = CHOOSE j \in hits : IsFirst(j)
  OBVIOUS
<1>6. i \in hits /\ IsFirst(i)
  BY <1>4, <1>5
<1>7. first = [latency |-> rows[i].t - tf, row |-> rows[i]]
  BY <1>3, <1>5 DEF FirstAfter
<1>8. first # None
  <2>1. first \in Hit
    BY <1>1, <1>6, <1>7 DEF Hit
  <2> QED BY <2>1, SessionAssumption
<1>9. \A j \in hits : rows[i].t <= rows[j].t
  BY <1>1, <1>6
<1> QED BY <1>6, <1>7, <1>8, <1>9

LEMMA SettledType ==
  ASSUME NEW rows \in Seq(Line), NEW tf \in Int,
         \A i \in 1 .. Len(rows) : rows[i].stamp \in Nat
  PROVE  Settled(rows, tf) \in Int
<1> DEFINE stamps == {rows[i].stamp : i \in OfTopic(rows, DOMAIN rows, "embedding")}
<1>1. stamps \in SUBSET Nat
  BY LenProperties DEF OfTopic
<1>2. Settled(rows, tf) = SettleTime + (IF stamps = {} THEN tf
                                        ELSE CHOOSE s \in stamps : \A x \in stamps : s <= x)
  BY DEF Settled
<1> HIDE DEF stamps
<1>3. stamps # {} => (CHOOSE s \in stamps : \A x \in stamps : s <= x) \in Nat
  BY <1>1, LeastNat
<1> QED BY <1>2, <1>3, SessionAssumption

LEMMA NonOkCounts ==
  ASSUME NEW rows \in Seq(Line), NEW lines \in SUBSET (1 .. Len(rows)),
         NEW nonOk, nonOk = {i \in lines : rows[i].topic = "health" /\ rows[i].state # 0}
  PROVE  HealthSummary(rows, lines).nonOk > 0 <=> nonOk # {}
<1>1. HealthSummary(rows, lines).nonOk = Cardinality(nonOk)
  <2>1. {i \in OfTopic(rows, lines, "health") : rows[i].state # 0} = nonOk
    BY DEF OfTopic
  <2> QED BY <2>1 DEF HealthSummary
<1>2. IsFiniteSet(nonOk)
  <2>1. Len(rows) \in Int /\ 1 \in Int
    BY LenProperties
  <2>2. IsFiniteSet(1 .. Len(rows))
    BY <2>1, FS_Interval
  <2>3. nonOk \subseteq 1 .. Len(rows)
    OBVIOUS
  <2> QED BY <2>2, <2>3, FS_Subset
<1>3. Cardinality(nonOk) \in Nat /\ (Cardinality(nonOk) = 0 <=> nonOk = {})
  BY <1>2, FS_CardinalityType, FS_EmptySet
<1> QED BY <1>1, <1>3

(***************************************************************************)
(* The two views of a trial agree, whatever is published and however late  *)
(* it arrives: what the stamps count as health after the fault, the        *)
(* receive times find as a detection (session.cpp:474-535).                *)
(***************************************************************************)
THEOREM SummaryAddsUp == RecSpec => []DetectionsAddUp
<1>1. RecInv => DetectionsAddUp
  <2> SUFFICES ASSUME RecInv, injectedAt # None PROVE DetectionsAddUp
    BY DEF DetectionsAddUp
  <2>1. PICK rows \in Seq(Line) : rows = recRows
    BY DEF RecInv, RecTyped
  <2>2. PICK tf \in Nat : tf = injectedAt
    BY DEF RecInv, RecTyped
  <2>3. PICK n \in Nat : n = Len(rows) /\ DOMAIN rows = 1 .. n
    BY LenProperties
  <2>4. PICK s : s = Summary
    OBVIOUS
  <2>5. /\ s.after = HealthSummary(rows, After(rows, tf))
        /\ s.before = HealthSummary(rows, Before(rows, tf))
        /\ s.degraded = HealthAtLeast(rows, tf, 1)
        /\ s.intervene = HealthAtLeast(rows, tf, 2)
        /\ s.stop = HealthAtLeast(rows, tf, 3)
    <3>1. tf # None
      BY <2>2
    <3> QED BY <2>1, <2>2, <2>4, <3>1 DEF Summary, FaultSummary
  <2>6. \A i \in 1 .. n : /\ rows[i] \in Line /\ rows[i].t \in Nat /\ rows[i].stamp \in Nat
                          /\ rows[i].topic = "health" => rows[i].state \in States
                          /\ ~stepped => rows[i].stamp <= rows[i].t
    <3>1. \A i \in 1 .. n : rows[i] \in Line
      BY <2>3, ElementOfSeq
    <3> QED BY <2>1, <2>3, <3>1 DEF Line, RecInv, StatesHaveNames, InOrder
  <2> DEFINE Level(k) == {i \in 1 .. n : rows[i].topic = "health" /\ rows[i].state >= k}
             Hits(k)  == {i \in Level(k) : rows[i].t >= tf}
  <2>7. ASSUME NEW k \in 1 .. 3
        PROVE  LET first == HealthAtLeast(rows, tf, k)
               IN  /\ Hits(k) = {} <=> first = None
                   /\ first # None =>
                        \E i \in Hits(k) : /\ first.latency = rows[i].t - tf
                                           /\ first.row = rows[i]
                                           /\ \A j \in Hits(k) : rows[i].t <= rows[j].t
    <3>1. HealthAtLeast(rows, tf, k) = FirstAfter(rows, tf, Level(k))
      <4>1. {i \in OfTopic(rows, DOMAIN rows, "health") : rows[i].state >= k} = Level(k)
        BY <2>3 DEF OfTopic
      <4> QED BY <4>1 DEF HealthAtLeast
    <3>2. PICK first : first = FirstAfter(rows, tf, Level(k))
      OBVIOUS
    <3>3. PICK hits : hits = Hits(k)
      OBVIOUS
    <3>4. PICK matching \in SUBSET (1 .. n) : matching = Level(k)
      OBVIOUS
    <3>5. hits = HitsOf(rows, tf, matching) /\ first = FirstAfter(rows, tf, matching)
      BY <3>2, <3>3, <3>4 DEF HitsOf
    <3> HIDE DEF Level, Hits
    <3>6. /\ hits = {} => first = None
          /\ hits # {} => /\ first # None
                          /\ \E i \in hits : /\ first.latency = rows[i].t - tf
                                             /\ first.row = rows[i]
                                             /\ \A j \in hits : rows[i].t <= rows[j].t
      <4>1. tf \in Int /\ matching \in SUBSET (1 .. Len(rows))
        BY <2>3
      <4> QED BY <3>5, <4>1, FirstAfterIs
    <3> QED BY <3>1, <3>2, <3>3, <3>4, <3>6
  <2>8. ASSUME s.after.nonOk > 0, ~stepped PROVE s.degraded # None
    <3>1. PICK nonOk : nonOk = {i \in After(rows, tf) : rows[i].topic = "health" /\ rows[i].state # 0}
      OBVIOUS
    <3>2. After(rows, tf) \in SUBSET (1 .. Len(rows))
      BY <2>3 DEF After
    <3>3. nonOk # {}
      BY <2>5, <2>8, <3>1, <3>2, NonOkCounts
    <3>4. PICK i \in 1 .. n : /\ rows[i].stamp >= tf /\ rows[i].topic = "health"
                              /\ rows[i].state # 0
      BY <2>3, <3>1, <3>3 DEF After
    <3>5. rows[i].state \in States /\ rows[i].t >= tf
      BY <2>6, <2>8, <3>4
    <3>6. i \in Hits(1)
      BY <3>4, <3>5 DEF States
    <3> QED BY <2>5, <2>7, <3>6
  <2>9. ASSUME s.degraded # None, s.degraded.row.stamp < tf
        PROVE  s.before.nonOk > 0 \/ s.degraded.row.stamp < Settled(rows, tf)
    <3>1. PICK i \in Hits(1) : s.degraded.row = rows[i]
      BY <2>5, <2>7, <2>9
    <3>2. i \in 1 .. n /\ rows[i].topic = "health" /\ rows[i].state # 0 /\ rows[i].stamp < tf
      BY <2>9, <3>1
    <3>3. Settled(rows, tf) \in Int
      BY <2>3, <2>6, SettledType
    <3>4. CASE Settled(rows, tf) <= rows[i].stamp
      <4>1. PICK nonOk : nonOk = {j \in Before(rows, tf) :
                                    rows[j].topic = "health" /\ rows[j].state # 0}
        OBVIOUS
      <4>2. Before(rows, tf) \in SUBSET (1 .. Len(rows)) /\ i \in nonOk
        BY <2>3, <3>2, <3>4, <4>1 DEF Before
      <4> QED BY <2>5, <4>1, <4>2, NonOkCounts
    <3>5. CASE ~(Settled(rows, tf) <= rows[i].stamp)
      BY <2>6, <3>1, <3>2, <3>3, <3>5
    <3> QED BY <3>4, <3>5
  <2>10. ASSUME s.stop # None
         PROVE  s.intervene # None /\ s.intervene.latency <= s.stop.latency
    <3>1. PICK i \in Hits(3) : s.stop.latency = rows[i].t - tf
      BY <2>5, <2>7, <2>10
    <3>2. i \in Hits(2)
      <4>1. rows[i].state \in States /\ rows[i].state >= 3
        BY <2>6, <3>1
      <4>2. rows[i].state >= 2
        BY <4>1 DEF States
      <4> QED BY <3>1, <4>2
    <3>3. s.intervene # None
      BY <2>5, <2>7, <3>2
    <3>4. PICK j \in Hits(2) : /\ s.intervene.latency = rows[j].t - tf
                               /\ \A k \in Hits(2) : rows[j].t <= rows[k].t
      BY <2>5, <2>7, <3>3
    <3>5. rows[j].t <= rows[i].t /\ rows[j].t \in Int /\ rows[i].t \in Int
      BY <2>6, <3>2, <3>4
    <3> QED BY <3>1, <3>3, <3>4, <3>5
  <2>11. ASSUME s.degraded # None, ~stepped, NEW i \in 1 .. n, rows[i].topic = "health",
                rows[i].state # 0, rows[i].stamp >= tf
         PROVE  s.degraded.latency <= rows[i].t - tf
    <3>1. PICK j \in Hits(1) : /\ s.degraded.latency = rows[j].t - tf
                               /\ \A k \in Hits(1) : rows[j].t <= rows[k].t
      BY <2>5, <2>7, <2>11
    <3>2. rows[i].state \in States /\ rows[i].t >= tf /\ rows[i].t \in Int /\ rows[j].t \in Int
      BY <2>6, <2>11, <3>1
    <3>3. i \in Hits(1)
      BY <2>11, <3>2 DEF States
    <3> QED BY <3>1, <3>2, <3>3
  <2> QED BY <2>1, <2>2, <2>3, <2>4, <2>8, <2>9, <2>10, <2>11 DEF DetectionsAddUp
<1> QED BY <1>1, RecInvariant, PTL

-----------------------------------------------------------------------------
(* Order statistics. *)

(***************************************************************************)
(* A finite set with a total preorder has a greatest element: of the       *)
(* subsets without one, a smallest would gain or lose one with a member.   *)
(***************************************************************************)
LEMMA GreatestExists ==
  ASSUME NEW S, IsFiniteSet(S), S # {}, NEW R,
         \A x, y \in S : <<x, y>> \in R \/ <<y, x>> \in R,
         \A x, y, z \in S : <<x, y>> \in R /\ <<y, z>> \in R => <<x, z>> \in R
  PROVE  \E x \in S : \A y \in S : <<x, y>> \in R
<1> DEFINE Has(X) == \E x \in X : \A y \in X : <<x, y>> \in R
           Without == {X \in SUBSET S : X # {} /\ ~Has(X)}
<1> SUFFICES ASSUME ~Has(S) PROVE FALSE
  OBVIOUS
<1>1. S \in Without
  OBVIOUS
<1>2. Without \subseteq FiniteSubsetsOf(S)
  BY FS_FiniteSubsetsOfFinite
<1> HIDE DEF Without
<1>3. PICK X \in Without : \A Y \in Without : <<Y, X>> \notin StrictSubsetOrdering(S)
  BY <1>1, <1>2, FS_StrictSubsetOrderingWellFounded, WFMin
<1> USE DEF Without
<1>4. PICK a : a \in X
  OBVIOUS
<1> DEFINE Rest == X \ {a}
<1>5. Rest \in SUBSET S /\ Rest \subseteq X /\ Rest # X /\ X \in SUBSET S
  BY <1>4
<1>6. Rest \notin Without
  <2> HIDE DEF Rest, Without
  <2> QED BY <1>3, <1>5 DEF StrictSubsetOrdering
<1>7. <<a, a>> \in R
  BY <1>4
<1>8. CASE Rest = {}
  <2>1. \A y \in X : y = a
    BY <1>8
  <2> QED BY <1>4, <1>7, <2>1
<1>9. CASE Has(Rest)
  <2>1. PICK m \in Rest : \A y \in Rest : <<m, y>> \in R
    BY <1>9
  <2>2. CASE <<m, a>> \in R
    <3>1. \A y \in X : <<m, y>> \in R
      BY <2>1, <2>2
    <3> QED BY <2>1, <3>1
  <2>3. CASE <<a, m>> \in R
    <3>1. \A y \in X : <<a, y>> \in R
      BY <1>4, <1>5, <1>7, <2>1, <2>3
    <3> QED BY <1>4, <3>1
  <2> QED BY <1>4, <1>5, <2>1, <2>2, <2>3
<1> QED BY <1>5, <1>6, <1>8, <1>9

\* Of some values, by their positions, one with the most, and one with the least.
LEMMA MostOf ==
  ASSUME NEW D, IsFiniteSet(D), NEW values \in [D -> Int], NEW S \in SUBSET D, S # {}
  PROVE  \E i \in S : \A j \in S : values[j] <= values[i]
<1> DEFINE R == {p \in S \X S : values[p[2]] <= values[p[1]]}
<1>1. \A x, y \in S : <<x, y>> \in R <=> values[y] <= values[x]
  OBVIOUS
<1>2. \A x \in S : values[x] \in Int
  OBVIOUS
<1>3. IsFiniteSet(S)
  BY FS_Subset
<1> HIDE DEF R
<1>4. \A x, y \in S : <<x, y>> \in R \/ <<y, x>> \in R
  <2>1. \A x, y \in S : values[x] <= values[y] \/ values[y] <= values[x]
    BY <1>2
  <2> QED BY <1>1, <2>1
<1>5. \A x, y, z \in S : <<x, y>> \in R /\ <<y, z>> \in R => <<x, z>> \in R
  BY <1>1, <1>2
<1>6. PICK x \in S : \A y \in S : <<x, y>> \in R
  BY <1>3, <1>4, <1>5, GreatestExists
<1> QED BY <1>1, <1>6

LEMMA LeastOf ==
  ASSUME NEW D, IsFiniteSet(D), NEW values \in [D -> Int], NEW S \in SUBSET D, S # {}
  PROVE  \E i \in S : \A j \in S : values[i] <= values[j]
<1> DEFINE R == {p \in S \X S : values[p[1]] <= values[p[2]]}
<1>1. \A x, y \in S : <<x, y>> \in R <=> values[x] <= values[y]
  OBVIOUS
<1>2. \A x \in S : values[x] \in Int
  OBVIOUS
<1>3. IsFiniteSet(S)
  BY FS_Subset
<1> HIDE DEF R
<1>4. \A x, y \in S : <<x, y>> \in R \/ <<y, x>> \in R
  <2>1. \A x, y \in S : values[x] <= values[y] \/ values[y] <= values[x]
    BY <1>2
  <2> QED BY <1>1, <2>1
<1>5. \A x, y, z \in S : <<x, y>> \in R /\ <<y, z>> \in R => <<x, z>> \in R
  BY <1>1, <1>2
<1>6. PICK x \in S : \A y \in S : <<x, y>> \in R
  BY <1>3, <1>4, <1>5, GreatestExists
<1> QED BY <1>1, <1>6

LEMMA CountedIn ==
  ASSUME NEW D, IsFiniteSet(D), NEW S \in SUBSET D, NEW T \in SUBSET D, S \subseteq T
  PROVE  /\ Cardinality(S) \in Nat /\ Cardinality(T) \in Nat
         /\ Cardinality(S) <= Cardinality(T) /\ Cardinality(T) <= Cardinality(D)
         /\ IsFiniteSet(S) /\ IsFiniteSet(T)
<1>1. /\ IsFiniteSet(S) /\ IsFiniteSet(T)
      /\ Cardinality(S) <= Cardinality(T) /\ Cardinality(T) <= Cardinality(D)
  BY FS_Subset
<1> QED BY <1>1, FS_CardinalityType

\* There is a value at each position of the order.
IsNth(values, n, v) ==
  /\ v \in Range(values)
  /\ Cardinality(Under(values, v)) < n
  /\ n <= Cardinality(UpTo(values, v))

LEMMA UpToIn ==
  ASSUME NEW D, NEW values \in [D -> Int], NEW v \in Int
  PROVE  /\ Under(values, v) \in SUBSET D /\ UpTo(values, v) \in SUBSET D
         /\ Under(values, v) \subseteq UpTo(values, v)
         /\ \A i \in D : /\ i \in Under(values, v) <=> values[i] < v
                         /\ i \in UpTo(values, v) <=> values[i] <= v
BY DEF Under, UpTo

LEMMA NthExists ==
  ASSUME NEW D, IsFiniteSet(D), NEW values \in [D -> Int],
         NEW n \in 1 .. Cardinality(D)
  PROVE  \E v : IsNth(values, n, v)
<1> DEFINE Enough == {i \in D : n <= Cardinality(UpTo(values, values[i]))}
<1>0. \A i \in D : values[i] \in Int /\ values[i] \in Range(values)
  BY DEF Range
<1>1. Enough # {}
  <2>0. D # {}
    BY FS_EmptySet
  <2>1. PICK i \in D : \A j \in D : values[j] <= values[i]
    BY <2>0, MostOf
  <2>2. UpTo(values, values[i]) = D
    BY <1>0, <2>1, UpToIn
  <2>3. Cardinality(D) \in Nat
    BY FS_CardinalityType
  <2>4. i \in Enough
    BY <2>1, <2>2, <2>3
  <2> QED BY <2>4
<1>2. PICK i \in Enough : \A j \in Enough : values[i] <= values[j]
  BY <1>1, LeastOf
<1>3. i \in D /\ n <= Cardinality(UpTo(values, values[i]))
  BY <1>2
<1>4. Cardinality(Under(values, values[i])) \in Nat
  BY <1>0, <1>3, UpToIn, CountedIn
<1>5. ASSUME n <= Cardinality(Under(values, values[i])) PROVE FALSE
  <2>0. Cardinality(Under(values, values[i])) # 0
    BY <1>4, <1>5
  <2>1. Under(values, values[i]) # {}
    BY <2>0, FS_EmptySet
  <2>2. Under(values, values[i]) \in SUBSET D
    BY <1>0, <1>3, UpToIn
  <2>3. PICK j \in Under(values, values[i]) :
          \A k \in Under(values, values[i]) : values[k] <= values[j]
    BY <2>1, <2>2, MostOf
  <2>4. j \in D /\ values[j] < values[i]
    BY <1>0, <1>3, <2>2, <2>3, UpToIn
  <2>5. Under(values, values[i]) \subseteq UpTo(values, values[j])
    BY <1>0, <2>2, <2>3, <2>4, UpToIn
  <2>6. Cardinality(Under(values, values[i])) <= Cardinality(UpTo(values, values[j]))
    BY <1>0, <2>2, <2>4, <2>5, UpToIn, CountedIn
  <2>7. Cardinality(UpTo(values, values[j])) \in Nat
    BY <1>0, <2>4, UpToIn, CountedIn
  <2>8. n <= Cardinality(UpTo(values, values[j]))
    BY <1>4, <1>5, <2>6, <2>7
  <2>9. j \in Enough
    BY <2>4, <2>8
  <2> QED BY <1>0, <1>2, <1>3, <2>4, <2>9
<1>6. Cardinality(Under(values, values[i])) < n
  BY <1>4, <1>5
<1> QED BY <1>0, <1>3, <1>6 DEF IsNth

LEMMA NthIsIn ==
  ASSUME NEW D, IsFiniteSet(D), NEW values \in [D -> Int],
         NEW n \in 1 .. Cardinality(D)
  PROVE  /\ Nth(values, n) \in Int
         /\ Cardinality(Under(values, Nth(values, n))) < n
         /\ n <= Cardinality(UpTo(values, Nth(values, n)))
<1>1. IsNth(values, n, Nth(values, n))
  BY NthExists DEF Nth, IsNth
<1>2. Range(values) \subseteq Int
  BY DEF Range
<1> QED BY <1>1, <1>2 DEF IsNth

\* A finite set and one it stands in one-to-one correspondence with.
LEMMA OneToOne ==
  ASSUME NEW S, IsFiniteSet(S), NEW T, NEW f \in [S -> T],
         \A x, y \in S : f[x] = f[y] => x = y,
         \A z \in T : \E x \in S : f[x] = z
  PROVE  IsFiniteSet(T) /\ Cardinality(T) = Cardinality(S)
<1>1. f \in Injection(S, T) /\ f \in Surjection(S, T)
  BY DEF Injection, Surjection, IsInjective
<1>2. ExistsBijection(S, T)
  BY <1>1 DEF ExistsBijection, Bijection
<1> QED BY <1>2, FS_Bijection

\* Half of a count, and the position of the upper median.
LEMMA HalfOf ==
  ASSUME NEW c \in Nat, c # 0
  PROVE  /\ c \div 2 + 1 \in 1 .. c
         /\ \A u, t \in Nat : (u < c \div 2 + 1 /\ c \div 2 + 1 <= t /\ t <= c) =>
                                2 * u <= c /\ 2 * (c - t) <= c
<1>1. PICK h \in Nat : h = c \div 2 /\ 2 * h <= c /\ c <= 2 * h + 1
  <2>1. c \div 2 \in Nat /\ 2 * (c \div 2) <= c /\ c <= 2 * (c \div 2) + 1
    BY Z3
  <2> QED BY <2>1
<1>2. h + 1 \in 1 .. c
  BY <1>1
<1>3. \A u, t \in Nat : (u < h + 1 /\ h + 1 <= t /\ t <= c) => 2 * u <= c /\ 2 * (c - t) <= c
  BY <1>1
<1> QED BY <1>1, <1>2, <1>3

-----------------------------------------------------------------------------
(* Recursion over the first numbers, and sums. *)

\* Induction over the first numbers: a least one outside of T has a
\* predecessor, which is in T.
LEMMA FirstNumbers ==
  ASSUME NEW n \in Nat, NEW T, 0 \in T, \A i \in 0 .. n - 1 : i \in T => i + 1 \in T
  PROVE  \A i \in 0 .. n : i \in T
<1> DEFINE Bad == {i \in 0 .. n : i \notin T}
<1> SUFFICES ASSUME Bad # {} PROVE FALSE
  OBVIOUS
<1>1. Bad \in SUBSET Nat
  OBVIOUS
<1>2. PICK m \in Bad : \A x \in Bad : m <= x
  <2> HIDE DEF Bad
  <2> QED BY <1>1, LeastNat
<1>3. m - 1 \in 0 .. n - 1 /\ m - 1 \in T
  BY <1>2
<1> QED BY <1>3

(***************************************************************************)
(* A recursion over the first numbers has a solution.                      *)
(***************************************************************************)
IsFold(f, n, z, step) == f[0] = z /\ \A i \in 1 .. n : f[i] = step[i][f[i - 1]]

LEMMA FoldExists ==
  ASSUME NEW n \in Nat, NEW S, NEW z \in S, NEW step \in [1 .. n -> [S -> S]]
  PROVE  \E f \in [0 .. n -> S] : IsFold(f, n, z, step)
<1> DEFINE Folds(m) == {f \in [0 .. m -> S] : IsFold(f, m, z, step)}
           T == {m \in 0 .. n : Folds(m) # {}}
<1>1. 0 \in T
  <2>1. [i \in 0 .. 0 |-> z] \in Folds(0)
    BY DEF IsFold
  <2> QED BY <2>1
<1>2. ASSUME NEW m \in 0 .. n - 1, m \in T PROVE m + 1 \in T
  <2>1. PICK f \in [0 .. m -> S] : f[0] = z /\ \A i \in 1 .. m : f[i] = step[i][f[i - 1]]
    BY <1>2 DEF IsFold
  <2> DEFINE v == step[m + 1][f[m]]
             g == [i \in 0 .. m + 1 |-> IF i = m + 1 THEN v ELSE f[i]]
  <2>2. v \in S
    <3>1. m + 1 \in 1 .. n /\ f[m] \in S
      OBVIOUS
    <3> QED BY <3>1
  <2>3. g \in [0 .. m + 1 -> S] /\ g[0] = z /\ g[m + 1] = v /\ \A i \in 0 .. m : g[i] = f[i]
    BY <2>1, <2>2
  <2> HIDE DEF g
  <2>4. ASSUME NEW i \in 1 .. m + 1 PROVE g[i] = step[i][g[i - 1]]
    <3>1. CASE i = m + 1
      <4>1. i - 1 = m /\ m \in 0 .. m
        BY <3>1
      <4>2. g[i - 1] = f[m] /\ g[i] = v
        BY <2>3, <3>1, <4>1
      <4> QED BY <3>1, <4>2
    <3>2. CASE i \in 1 .. m  BY <2>1, <2>3, <3>2
    <3> QED BY <3>1, <3>2
  <2>5. g \in Folds(m + 1)
    BY <2>3, <2>4 DEF IsFold
  <2> QED BY <2>5
<1> HIDE DEF T
<1>3. n \in T
  <2>1. \A i \in 0 .. n : i \in T
    BY <1>1, <1>2, FirstNumbers
  <2> QED BY <2>1
<1> QED BY <1>3 DEF T

\* The sums of the first values, one more at a time.
IsSums(f, a, n) == f = [i \in 0 .. n |-> IF i = 0 THEN 0 ELSE f[i - 1] + a[i]]

LEMMA SumsAre ==
  ASSUME NEW n \in Nat, NEW a \in [1 .. n -> Int]
  PROVE  /\ Sums(a) \in [0 .. n -> Int] /\ Sums(a)[0] = 0
         /\ \A i \in 0 .. n - 1 : Sums(a)[i + 1] = Sums(a)[i] + a[i + 1]
<1> DEFINE step == [i \in 1 .. n |-> [x \in Int |-> x + a[i]]]
<1>1. step \in [1 .. n -> [Int -> Int]]
  OBVIOUS
<1>2. PICK f \in [0 .. n -> Int] : IsFold(f, n, 0, step)
  <2> HIDE DEF step
  <2>0. 0 \in Int
    OBVIOUS
  <2> QED BY <1>1, <2>0, FoldExists
<1>3. f[0] = 0 /\ \A i \in 1 .. n : f[i] = f[i - 1] + a[i]
  <2>1. ASSUME NEW i \in 1 .. n PROVE f[i] = f[i - 1] + a[i]
    <3>1. f[i] = step[i][f[i - 1]]
      BY <1>2 DEF IsFold
    <3>2. f[i - 1] \in Int
      OBVIOUS
    <3>3. step[i] = [x \in Int |-> x + a[i]]
      OBVIOUS
    <3> QED BY <3>1, <3>2, <3>3
  <2> QED BY <1>2, <2>1 DEF IsFold
<1>4. IsSums(f, a, n)
  BY <1>2, <1>3 DEF IsSums
<1>5. Len(a) = n
  BY LenProperties
<1>6. Sums(a) = CHOOSE g : IsSums(g, a, n)
  BY <1>5 DEF Sums, IsSums
<1>7. IsSums(Sums(a), a, n)
  BY <1>4, <1>6
<1>8. PICK s : s = Sums(a) /\ s = [i \in 0 .. n |-> IF i = 0 THEN 0 ELSE s[i - 1] + a[i]]
  BY <1>7 DEF IsSums
<1>9. s[0] = 0
  BY <1>8
<1>10. ASSUME NEW i \in 0 .. n - 1 PROVE s[i + 1] = s[i] + a[i + 1]
  <2>1. PICK j \in 1 .. n : j = i + 1 /\ j - 1 = i /\ j # 0
    OBVIOUS
  <2>2. s[j] = s[j - 1] + a[j]
    BY <1>8, <2>1
  <2> QED BY <2>1, <2>2
<1> DEFINE T == {i \in 0 .. n : s[i] \in Int}
<1>11. ASSUME NEW i \in 0 .. n - 1, i \in T PROVE i + 1 \in T
  <2>1. i + 1 \in 1 .. n /\ i + 1 \in 0 .. n
    OBVIOUS
  <2>2. a[i + 1] \in Int
    BY <2>1
  <2> QED BY <1>10, <1>11, <2>1, <2>2
<1>12. 0 \in T
  BY <1>9
<1>13. \A i \in 0 .. n : i \in T
  <2> HIDE DEF T
  <2> QED BY <1>11, <1>12, FirstNumbers
<1>14. s \in [0 .. n -> Int]
  BY <1>8, <1>13
<1> QED BY <1>8, <1>9, <1>10, <1>14

LEMMA SumsOfPart ==
  ASSUME NEW n \in Nat, NEW a \in [1 .. n -> Int], NEW m \in 0 .. n, NEW k \in 0 .. n - m,
         NEW b \in [1 .. k -> Int], \A i \in 1 .. k : b[i] = a[m + i]
  PROVE  \A i \in 0 .. k : Sums(a)[m + i] = Sums(a)[m] + Sums(b)[i]
<1>0. k \in Nat /\ m \in Nat
  OBVIOUS
<1>1. PICK x \in [0 .. n -> Int] : x = Sums(a) /\ \A i \in 0 .. n - 1 : x[i + 1] = x[i] + a[i + 1]
  BY SumsAre
<1>2. PICK y \in [0 .. k -> Int] :
        y = Sums(b) /\ y[0] = 0 /\ \A i \in 0 .. k - 1 : y[i + 1] = y[i] + b[i + 1]
  BY <1>0, SumsAre
<1> DEFINE T == {i \in 0 .. k : x[m + i] = x[m] + y[i]}
<1>3. 0 \in T
  BY <1>0, <1>1, <1>2
<1>4. ASSUME NEW i \in 0 .. k - 1, i \in T PROVE i + 1 \in T
  <2>1. PICK j \in 0 .. n - 1 : j = m + i
    BY <1>0
  <2>2. x[j + 1] = x[j] + a[j + 1]
    BY <1>1
  <2>3. i + 1 \in 1 .. k /\ i + 1 \in 0 .. k /\ i \in 0 .. k /\ m + (i + 1) = j + 1
        /\ j + 1 \in 1 .. n
    BY <1>0, <2>1
  <2>4. y[i + 1] = y[i] + b[i + 1]
    BY <1>2
  <2>5. b[i + 1] = a[j + 1]
    <3>1. b[i + 1] = a[m + (i + 1)]
      BY <2>3
    <3> QED BY <2>3, <3>1
  <2>6. x[m] \in Int /\ y[i] \in Int /\ a[j + 1] \in Int
    BY <2>3
  <2>7. x[j] = x[m] + y[i]
    BY <1>4, <2>1
  <2>8. x[j + 1] = x[m] + y[i + 1]
    BY <2>2, <2>4, <2>5, <2>6, <2>7
  <2> QED BY <2>3, <2>8
<1> HIDE DEF T
<1>5. \A i \in 0 .. k : i \in T
  BY <1>0, <1>3, <1>4, FirstNumbers
<1> QED BY <1>1, <1>2, <1>5 DEF T

LEMMA SumsTogether ==
  ASSUME NEW n \in Nat, NEW a \in [1 .. n -> Int], NEW b \in [1 .. n -> Int],
         NEW c \in [1 .. n -> Int], \A i \in 1 .. n : c[i] = a[i] + b[i]
  PROVE  \A i \in 0 .. n : Sums(c)[i] = Sums(a)[i] + Sums(b)[i]
<1>1. PICK x \in [0 .. n -> Int] :
        x = Sums(a) /\ x[0] = 0 /\ \A i \in 0 .. n - 1 : x[i + 1] = x[i] + a[i + 1]
  BY SumsAre
<1>2. PICK y \in [0 .. n -> Int] :
        y = Sums(b) /\ y[0] = 0 /\ \A i \in 0 .. n - 1 : y[i + 1] = y[i] + b[i + 1]
  BY SumsAre
<1>3. PICK z \in [0 .. n -> Int] :
        z = Sums(c) /\ z[0] = 0 /\ \A i \in 0 .. n - 1 : z[i + 1] = z[i] + c[i + 1]
  BY SumsAre
<1> DEFINE T == {i \in 0 .. n : z[i] = x[i] + y[i]}
<1>4. 0 \in T
  BY <1>1, <1>2, <1>3
<1>5. ASSUME NEW i \in 0 .. n - 1, i \in T PROVE i + 1 \in T
  <2>1. i + 1 \in 1 .. n /\ i + 1 \in 0 .. n /\ i \in 0 .. n
    OBVIOUS
  <2>2. x[i + 1] = x[i] + a[i + 1]
    BY <1>1
  <2>3. y[i + 1] = y[i] + b[i + 1]
    BY <1>2
  <2>4. z[i + 1] = z[i] + c[i + 1]
    BY <1>3
  <2>5. c[i + 1] = a[i + 1] + b[i + 1]
    BY <2>1
  <2>6. x[i] \in Int /\ y[i] \in Int /\ a[i + 1] \in Int /\ b[i + 1] \in Int
    BY <2>1
  <2>7. z[i] = x[i] + y[i]
    BY <1>5
  <2>8. z[i + 1] = x[i + 1] + y[i + 1]
    <3> HIDE DEF T
    <3>1. PICK p \in Int, q \in Int, r \in Int, t \in Int :
            p = x[i] /\ q = y[i] /\ r = a[i + 1] /\ t = b[i + 1]
      BY <2>6
    <3>2. z[i + 1] = (p + q) + (r + t)
      BY <2>4, <2>5, <2>7, <3>1
    <3>3. x[i + 1] + y[i + 1] = (p + r) + (q + t)
      BY <2>2, <2>3, <3>1
    <3> QED BY <3>2, <3>3
  <2> QED BY <2>1, <2>8
<1> HIDE DEF T
<1>6. \A i \in 0 .. n : i \in T
  BY <1>4, <1>5, FirstNumbers
<1> QED BY <1>1, <1>2, <1>3, <1>6 DEF T

\* A sum of zeros and ones counts the ones.
LEMMA SumsOfOnes ==
  ASSUME NEW n \in Nat, NEW a \in [1 .. n -> {0, 1}]
  PROVE  Sums(a)[n] = Cardinality({i \in 1 .. n : a[i] = 1})
<1> DEFINE Ones(m) == {i \in 1 .. m : a[i] = 1}
<1>1. a \in [1 .. n -> Int]
  OBVIOUS
<1>2. PICK x \in [0 .. n -> Int] :
        x = Sums(a) /\ x[0] = 0 /\ \A i \in 0 .. n - 1 : x[i + 1] = x[i] + a[i + 1]
  BY <1>1, SumsAre
<1> DEFINE T == {m \in 0 .. n : IsFiniteSet(Ones(m)) /\ x[m] = Cardinality(Ones(m))}
<1>3. 0 \in T
  <2>1. Ones(0) = {}
    OBVIOUS
  <2> QED BY <1>2, <2>1, FS_EmptySet
<1>4. ASSUME NEW m \in 0 .. n - 1, m \in T PROVE m + 1 \in T
  <2>1. m + 1 \in 1 .. n /\ m + 1 \in 0 .. n
    OBVIOUS
  <2>2. x[m + 1] = x[m] + a[m + 1] /\ x[m] \in Int
    BY <1>2
  <2>3. IsFiniteSet(Ones(m)) /\ x[m] = Cardinality(Ones(m))
    BY <1>4
  <2>4. CASE a[m + 1] = 0
    <3>1. Ones(m + 1) = Ones(m)
      BY <2>4
    <3>2. x[m + 1] = x[m]
      BY <2>2, <2>4
    <3> QED BY <2>1, <2>3, <3>1, <3>2
  <2>5. CASE a[m + 1] = 1
    <3>1. Ones(m + 1) = Ones(m) \cup {m + 1} /\ m + 1 \notin Ones(m)
      BY <2>5
    <3>2. IsFiniteSet(Ones(m + 1)) /\ Cardinality(Ones(m + 1)) = Cardinality(Ones(m)) + 1
      <4> HIDE DEF Ones
      <4> QED BY <2>3, <3>1, FS_AddElement
    <3> QED BY <2>1, <2>2, <2>3, <2>5, <3>2
  <2>6. a[m + 1] \in {0, 1}
    BY <2>1
  <2> QED BY <2>4, <2>5, <2>6
<1> HIDE DEF T
<1>5. \A m \in 0 .. n : m \in T
  BY <1>3, <1>4, FirstNumbers
<1> QED BY <1>2, <1>5 DEF T

-----------------------------------------------------------------------------
(* Where a threshold comes from. *)

LEMMA Positions ==
  ASSUME NEW values \in Seq(Int)
  PROVE  IsFiniteSet(1 .. Len(values)) /\ Cardinality(1 .. Len(values)) = Len(values)
<1>1. PICK n \in Nat : n = Len(values)
  OBVIOUS
<1>2. 1 \in Int /\ n \in Int
  OBVIOUS
<1>3. IsFiniteSet(1 .. n) /\ Cardinality(1 .. n) = IF 1 > n THEN 0 ELSE n - 1 + 1
  BY <1>2, FS_Interval
<1>4. Cardinality(1 .. n) = n
  BY <1>3
<1> QED BY <1>1, <1>3, <1>4

\* The positions of a sequence, counted.
LEMMA Counted ==
  ASSUME NEW values \in Seq(Int), NEW S \in SUBSET (1 .. Len(values)),
         NEW T \in SUBSET (1 .. Len(values)), S \subseteq T
  PROVE  /\ Cardinality(S) \in Nat /\ Cardinality(T) \in Nat
         /\ Cardinality(S) <= Cardinality(T) /\ Cardinality(T) <= Len(values)
         /\ IsFiniteSet(S) /\ IsFiniteSet(T)
BY Positions, CountedIn

LEMMA UpToAre ==
  ASSUME NEW values \in Seq(Int), NEW v \in Int
  PROVE  /\ Under(values, v) \in SUBSET (1 .. Len(values))
         /\ UpTo(values, v) \in SUBSET (1 .. Len(values))
         /\ Under(values, v) \subseteq UpTo(values, v)
         /\ \A i \in 1 .. Len(values) : /\ i \in Under(values, v) <=> values[i] < v
                                        /\ i \in UpTo(values, v) <=> values[i] <= v
BY DEF Under, UpTo

LEMMA NthIs ==
  ASSUME NEW values \in Seq(Int), NEW n \in 1 .. Len(values)
  PROVE  /\ Nth(values, n) \in Int
         /\ Cardinality(Under(values, Nth(values, n))) < n
         /\ n <= Cardinality(UpTo(values, Nth(values, n)))
<1>1. values \in [1 .. Len(values) -> Int]
  OBVIOUS
<1> QED BY <1>1, Positions, NthIsIn

\* Of values that differ, one is at most v and not below it.
Different(values) == \A i, j \in DOMAIN values : values[i] = values[j] => i = j

LEMMA OneAt ==
  ASSUME NEW values \in Seq(Int), NEW v \in Int, Different(values)
  PROVE  Cardinality(UpTo(values, v)) <= Cardinality(Under(values, v)) + 1
<1> DEFINE A == Under(values, v)
           B == UpTo(values, v)
<1>1. A \subseteq B /\ IsFiniteSet(A) /\ Cardinality(A) \in Nat
  BY UpToAre, Counted
<1>2. CASE B \subseteq A
  <2>1. A = B
    BY <1>1, <1>2
  <2> QED BY <1>1, <2>1
<1>3. ASSUME NEW i \in B, i \notin A PROVE B = A \cup {i}
  <2>1. i \in 1 .. Len(values) /\ values[i] = v
    BY <1>3, UpToAre
  <2>2. ASSUME NEW j \in B, j \notin A PROVE j = i
    <3>1. j \in 1 .. Len(values) /\ values[j] = v
      BY <2>2, UpToAre
    <3> QED BY <2>1, <3>1 DEF Different
  <2> QED BY <1>1, <1>3, <2>2
<1>4. ASSUME NEW i \in B, i \notin A PROVE Cardinality(B) = Cardinality(A) + 1
  <2>1. B = A \cup {i}
    BY <1>3, <1>4
  <2>2. Cardinality(A \cup {i}) = Cardinality(A) + 1
    BY <1>1, <1>4, FS_AddElement
  <2> QED BY <2>1, <2>2
<1> QED BY <1>1, <1>2, <1>4

\* What a fraction of a distance comes to, in hundredths.
LEMMA PartOf ==
  ASSUME NEW x \in Nat, NEW f \in Nat, f < 100
  PROVE  x * f \in Nat /\ x * f <= 100 * x /\ (x > 0 /\ f > 0 => x * f > 0)
<1>1. x * f \in Nat
  OBVIOUS
<1>2. x * f <= 100 * x
  BY Z3
<1>3. x > 0 /\ f > 0 => x * f > 0
  BY Z3
<1> QED BY <1>1, <1>2, <1>3

LEMMA AtIs ==
  ASSUME NEW last \in Nat
  PROVE  last * Percent \in Nat /\ last * Percent <= 100 * last
<1>1. PICK p \in 0 .. 100 : p = Percent
  BY CalibrationAssumption
<1>2. last * p \in Nat
  OBVIOUS
<1>3. last * p <= last * 100
  BY Z3
<1> QED BY <1>1, <1>2, <1>3

\* Below, by a limit that is a whole value or lies between two.
LEMMA BelowIs ==
  ASSUME NEW values \in Seq(Int), NEW limit \in Int
  PROVE  /\ \A i \in 1 .. Len(values) :
               i \in {j \in DOMAIN values : 100 * values[j] < limit} <=> 100 * values[i] < limit
         /\ {j \in DOMAIN values : 100 * values[j] < limit} \in SUBSET (1 .. Len(values))
OBVIOUS

LEMMA BelowWhole ==
  ASSUME NEW values \in Seq(Int), NEW v \in Int
  PROVE  Below(values, 100 * v) = Cardinality(Under(values, v))
<1>1. {j \in DOMAIN values : 100 * values[j] < 100 * v} = Under(values, v)
  BY DEF Under
<1> QED BY <1>1 DEF Below

LEMMA BelowBetween ==
  ASSUME NEW values \in Seq(Int), NEW v \in Int, NEW w \in Int, NEW limit \in Int,
         limit <= 100 * w
  PROVE  /\ Below(values, limit) \in Nat
         /\ Below(values, limit) <= Cardinality(Under(values, w))
         /\ 100 * v < limit => Cardinality(UpTo(values, v)) <= Below(values, limit)
<1> DEFINE B == {j \in DOMAIN values : 100 * values[j] < limit}
<1>1. \A i \in 1 .. Len(values) : values[i] \in Int
  OBVIOUS
<1>2. B \in SUBSET (1 .. Len(values)) /\ Below(values, limit) = Cardinality(B)
  BY DEF Below
<1>3. \A i \in 1 .. Len(values) : i \in B <=> 100 * values[i] < limit
  OBVIOUS
<1> HIDE DEF B
<1>4. \A i \in 1 .. Len(values) : 100 * values[i] < limit => values[i] < w
  BY <1>1
<1>5. B \subseteq Under(values, w)
  BY <1>2, <1>3, <1>4, UpToAre
<1>6. ASSUME 100 * v < limit PROVE UpTo(values, v) \subseteq B
  <2>1. \A i \in 1 .. Len(values) : values[i] <= v => 100 * values[i] < limit
    BY <1>1, <1>6
  <2> QED BY <1>3, <2>1, UpToAre
<1>7. Cardinality(B) \in Nat /\ Cardinality(B) <= Cardinality(Under(values, w))
  BY <1>2, <1>5, UpToAre, Counted
<1>8. 100 * v < limit => Cardinality(UpTo(values, v)) <= Cardinality(B)
  BY <1>2, <1>6, UpToAre, Counted
<1> QED BY <1>2, <1>7, <1>8

(***************************************************************************)
(* A percentile has its share of the values below it, less than a window   *)
(* more; and no fewer, if they differ.                                     *)
(***************************************************************************)
LEMMA PercentileShares ==
  ASSUME NEW values \in Seq(Int), NEW last \in Nat, Len(values) = last + 1
  PROVE  LET below == Below(values, Percentile(values))
         IN  /\ 100 * below < last * Percent + 100
             /\ Different(values) => 100 * below >= last * Percent
<1>1. PICK share \in Nat : share = last * Percent
  BY AtIs
<1>2. share <= 100 * last
  BY <1>1, AtIs
<1>3. PICK low \in Nat : low = share \div 100
  OBVIOUS
<1>4. 100 * low <= share /\ share < 100 * low + 100
  BY <1>3
<1> DEFINE below == Below(values, Percentile(values))
<1>5. CASE share >= 100 * last
  <2>1. PICK v \in Int : v = Nth(values, last + 1)
    BY NthIs
  <2>2. /\ Cardinality(Under(values, v)) < last + 1
        /\ last + 1 <= Cardinality(UpTo(values, v))
    BY <2>1, NthIs
  <2>3. Percentile(values) = 100 * v
    BY <1>1, <1>5, <2>1 DEF Percentile
  <2>4. below = Cardinality(Under(values, v)) /\ below \in Nat
    BY <2>3, BelowWhole, UpToAre, Counted
  <2>5. Different(values) => last + 1 <= below + 1
    <3>1. PICK t \in Nat : t = Cardinality(UpTo(values, v))
      BY UpToAre, Counted
    <3>2. Different(values) => t <= below + 1
      BY <2>4, <3>1, OneAt
    <3> HIDE DEF below
    <3> QED BY <2>2, <2>4, <3>1, <3>2
  <2>6. below <= last /\ (Different(values) => below >= last)
    BY <2>2, <2>4, <2>5
  <2> HIDE DEF below
  <2>7. 100 * below < share + 100 /\ (Different(values) => 100 * below >= share)
    BY <1>2, <1>5, <2>4, <2>6
  <2> QED BY <1>1, <2>7 DEF below
<1>6. CASE share < 100 * last
  <2>1. low + 1 \in 1 .. Len(values) /\ low + 2 \in 1 .. Len(values)
    BY <1>4, <1>6
  <2>2. PICK v \in Int, w \in Int : v = Nth(values, low + 1) /\ w = Nth(values, low + 2)
    BY <2>1, NthIs
  <2>3. PICK uv \in Nat, tv \in Nat, uw \in Nat, tw \in Nat :
          /\ uv = Cardinality(Under(values, v)) /\ tv = Cardinality(UpTo(values, v))
          /\ uw = Cardinality(Under(values, w)) /\ tw = Cardinality(UpTo(values, w))
    <3>1. /\ Cardinality(Under(values, v)) \in Nat /\ Cardinality(UpTo(values, v)) \in Nat
      BY UpToAre, Counted
    <3>2. /\ Cardinality(Under(values, w)) \in Nat /\ Cardinality(UpTo(values, w)) \in Nat
      BY UpToAre, Counted
    <3> QED BY <3>1, <3>2
  <2>4. uv < low + 1 /\ low + 1 <= tv /\ uw < low + 2 /\ low + 2 <= tw
    BY <2>1, <2>2, <2>3, NthIs
  <2>5. v <= w
    <3> SUFFICES ASSUME w < v PROVE FALSE
      OBVIOUS
    <3>1. \A i \in 1 .. Len(values) : values[i] <= w => values[i] < v
      OBVIOUS
    <3>2. UpTo(values, w) \subseteq Under(values, v)
      BY <3>1, UpToAre
    <3>3. tw <= uv
      BY <2>3, <3>2, UpToAre, Counted
    <3> QED BY <2>4, <3>3
  <2>6. PICK f \in Nat, x \in Nat : f = share - 100 * low /\ x = w - v
    BY <1>4, <2>5
  <2>7. PICK limit \in Int : limit = 100 * v + x * f
    BY PartOf
  <2>8. Percentile(values) = limit
    BY <1>1, <1>3, <1>6, <2>2, <2>6, <2>7 DEF Percentile
  <2>9. f < 100
    BY <1>4, <2>6
  <2>10. PICK part \in Nat : part = x * f /\ part <= 100 * x /\ (x > 0 /\ f > 0 => part > 0)
    BY <2>9, PartOf
  <2>11. limit = 100 * v + part /\ limit <= 100 * w
    BY <2>6, <2>7, <2>10
  <2>12. Below(values, limit) \in Nat /\ Below(values, limit) <= uw
         /\ (100 * v < limit => tv <= Below(values, limit))
    BY <2>3, <2>11, BelowBetween
  <2>13. Different(values) => tv <= uv + 1 /\ tw <= uw + 1
    BY <2>3, OneAt
  <2>14. PICK b \in Nat : b = Below(values, limit)
    BY <2>12
  <2>15. b <= uw /\ (100 * v < limit => tv <= b)
    BY <2>12, <2>14
  <2>16. CASE f = 0
    <3>1. part = 0
      BY <2>10, <2>16
    <3>2. b = uv
      BY <2>3, <2>11, <2>14, <3>1, BelowWhole
    <3>3. 100 * b < share + 100 /\ (Different(values) => 100 * b >= share)
      BY <2>4, <2>6, <2>13, <2>16, <3>2
    <3> QED BY <1>1, <2>8, <2>14, <3>3
  <2>17. CASE f > 0
    <3>1. 100 * b < share + 100
      BY <2>4, <2>6, <2>15, <2>17
    <3>2. ASSUME Different(values) PROVE 100 * b >= share
      <4>1. v # w
        <5> SUFFICES ASSUME v = w PROVE FALSE
          OBVIOUS
        <5>1. tv = tw
          BY <2>3
        <5> QED BY <2>4, <2>13, <3>2, <5>1
      <4>2. x > 0
        BY <2>5, <2>6, <4>1
      <4>3. 100 * v < limit
        BY <2>10, <2>11, <2>17, <4>2
      <4> QED BY <1>4, <2>4, <2>15, <4>3
    <3> QED BY <1>1, <2>8, <2>14, <3>1, <3>2
  <2> QED BY <2>6, <2>16, <2>17
<1> QED BY <1>2, <1>5, <1>6

(***************************************************************************)
(* What a written threshold was made from.                                 *)
(***************************************************************************)
CalTyped == corpora \in Seq(Seq(Frames))

WrittenFrom ==
  calOutcome = "written" =>
    LET frames == Last(corpora)
    IN  /\ corpora # <<>>
        /\ Len(frames) >= 2 * CalWindow
        /\ \A i \in DOMAIN frames : frames[i].size = frames[1].size
        /\ threshold = Percentile(RollingSpread(frames))

CalInv == CalTyped /\ WrittenFrom

LEMMA CalInvariant == CalSpec => []CalInv
<1>1. CalInit => CalInv
  BY DEF CalInit, CalInv, CalTyped, WrittenFrom
<1>2. CalInv /\ [CalNext]_calVars => CalInv'
  <2> SUFFICES ASSUME CalInv, [CalNext]_calVars PROVE CalInv'
    OBVIOUS
  <2>1. CASE UNCHANGED calVars
    BY <2>1 DEF CalInv, CalTyped, WrittenFrom, calVars
  <2>2. CASE NewCorpus
    BY <2>2 DEF CalInv, CalTyped, WrittenFrom, NewCorpus
  <2>3. CASE Hear
    <3>1. PICK frame \in Frames :
            /\ calOutcome = "listening" /\ corpora # <<>>
            /\ corpora' = [corpora EXCEPT ![Len(corpora)] = Append(@, frame)]
            /\ calOutcome' = calOutcome
      BY <2>3 DEF Hear
    <3>2. corpora \in Seq(Seq(Frames))
      BY DEF CalInv, CalTyped
    <3>3. Len(corpora) \in 1 .. Len(corpora)
      BY <3>1, <3>2
    <3>4. Append(corpora[Len(corpora)], frame) \in Seq(Frames)
      BY <3>2, <3>3
    <3>5. corpora' \in Seq(Seq(Frames))
      BY <3>1, <3>2, <3>3, <3>4
    <3> QED BY <3>1, <3>5 DEF CalInv, CalTyped, WrittenFrom
  <2>4. CASE Calibrate
    <3>1. corpora' = corpora /\ corpora # <<>>
      BY <2>4 DEF Calibrate
    <3>2. WrittenFrom'
      BY <2>4 DEF Calibrate, WrittenFrom
    <3> QED BY <3>1, <3>2 DEF CalInv, CalTyped
  <2> QED BY <2>1, <2>2, <2>3, <2>4 DEF CalNext
<1> QED BY <1>1, <1>2, PTL DEF CalSpec

LEMMA SpreadsAreNumbers ==
  ASSUME NEW rows \in Seq(Frames)
  PROVE  /\ RollingSpread(rows) \in Seq(Int)
         /\ Len(rows) >= CalWindow => Len(RollingSpread(rows)) = Len(rows) - CalWindow + 1
<1>1. PICK w \in Nat, n \in Nat : w = CalWindow /\ n = Len(rows) /\ w >= 1
  <2>1. CalWindow \in Nat /\ CalWindow >= 1
    BY CalibrationAssumption
  <2>2. Len(rows) \in Nat
    OBVIOUS
  <2> QED BY <2>1, <2>2
<1>2. ASSUME NEW i \in 1 .. n - w + 1
      PROVE  SubSeq(rows, i, i + w - 1) \in [1 .. w -> Frames]
  <2>1. i \in Nat /\ i >= 1 /\ i + w - 1 \in Nat /\ i + w - 1 <= n /\ i + w - 1 - i + 1 = w
    BY <1>1, <1>2
  <2>2. SubSeq(rows, i, i + w - 1) = [k \in 1 .. w |-> rows[i + k - 1]]
    BY <2>1
  <2>3. \A k \in 1 .. w : i + k - 1 \in 1 .. n
    BY <1>1, <2>1
  <2>4. \A k \in 1 .. w : rows[i + k - 1] \in Frames
    BY <1>1, <2>3
  <2> QED BY <2>2, <2>4
<1>3. \A i \in 1 .. n - w + 1 : SpreadOf(SubSeq(rows, i, i + w - 1)) \in Int
  BY <1>1, <1>2, CalibrationAssumption
<1>4. RollingSpread(rows) \in [1 .. n - w + 1 -> Int]
  BY <1>1, <1>3 DEF RollingSpread
<1>5. n - w + 1 \in Nat => /\ RollingSpread(rows) \in Seq(Int)
                             /\ Len(RollingSpread(rows)) = n - w + 1
  BY <1>4
<1>6. ASSUME n - w + 1 \notin Nat PROVE RollingSpread(rows) \in Seq(Int)
  <2>1. 1 .. n - w + 1 = 1 .. 0
    BY <1>1, <1>6
  <2>2. RollingSpread(rows) \in [1 .. 0 -> Int] /\ 0 \in Nat
    BY <1>4, <2>1
  <2> QED BY <2>2
<1>7. n >= w => n - w + 1 \in Nat
  BY <1>1
<1> QED BY <1>1, <1>5, <1>6, <1>7

(***************************************************************************)
(* A written threshold alarms on the share of its own data that was asked  *)
(* for, for any window, percentage, frames and spread (probe.cpp:72-140,   *)
(* calibration.cpp:61-74, numerics.cpp:64-132).                            *)
(***************************************************************************)
THEOREM ThresholdsAreCalibrated == CalSpec => []ThresholdIsCalibrated
<1>1. CalInv => ThresholdIsCalibrated
  <2> SUFFICES ASSUME CalTyped, WrittenFrom, calOutcome = "written"
               PROVE  ThresholdIsCalibrated
    BY DEF CalInv, ThresholdIsCalibrated
  <2>1. PICK frames \in Seq(Frames) : frames = Last(corpora)
    BY DEF CalTyped, WrittenFrom, Last
  <2>2. /\ Len(frames) >= 2 * CalWindow
        /\ \A i \in DOMAIN frames : frames[i].size = frames[1].size
        /\ threshold = Percentile(RollingSpread(frames))
    BY <2>1 DEF WrittenFrom
  <2>3. PICK values \in Seq(Int) :
          values = RollingSpread(frames) /\ Len(values) = Len(frames) - CalWindow + 1
    <3>1. PICK w \in Nat : w = CalWindow
      BY CalibrationAssumption
    <3>2. Len(frames) >= CalWindow
      <4>1. Len(frames) \in Nat
        OBVIOUS
      <4> QED BY <2>2, <3>1, <4>1
    <3> QED BY <3>2, SpreadsAreNumbers
  <2>4. CalWindow \in Nat /\ CalWindow >= 1
    BY CalibrationAssumption
  <2>5. PICK last \in Nat : Len(values) = last + 1 /\ last >= CalWindow
    <3>0. Len(frames) \in Nat
      OBVIOUS
    <3>1. PICK w \in Nat, n \in Nat : w = CalWindow /\ n = Len(frames)
      BY <2>4, <3>0
    <3>2. n - w >= w /\ Len(values) = n - w + 1
      BY <2>2, <2>3, <2>4, <3>1
    <3>3. n - w \in Nat
      BY <3>1, <3>2
    <3> QED BY <3>1, <3>2, <3>3
  <2>6. Cardinality({frame.size : frame \in Range(frames)}) = 1
    <3>1. 1 \in DOMAIN frames
      <4>1. 1 <= Len(frames)
        BY <2>3, <2>5, <2>4
      <4> QED BY <4>1
    <3>2. {frame.size : frame \in Range(frames)} = {frames[1].size}
      BY <2>2, <3>1 DEF Range
    <3> QED BY <3>2, FS_Singleton
  <2>7. /\ 100 * Below(values, threshold) < last * Percent + 100
        /\ Different(values) => 100 * Below(values, threshold) >= last * Percent
    BY <2>2, <2>3, <2>5, PercentileShares
  <2>8. Len(values) - 1 = last
    BY <2>5
  <2> QED BY <2>1, <2>3, <2>5, <2>6, <2>7, <2>8 DEF ThresholdIsCalibrated, Different
<1> QED BY <1>1, CalInvariant, PTL

-----------------------------------------------------------------------------
(* How a sum is split. *)
LEMMA LaneNumbers == /\ Lanes \in Nat /\ Lanes >= 1 /\ Block \in Nat /\ Block >= 2 * Lanes
BY CalibrationAssumption

LEMMA PlainIs ==
  ASSUME NEW n \in Nat, NEW a \in [1 .. n -> Int]
  PROVE  Plain(a) = Sums(a)[n] /\ Plain(a) \in Int
<1>1. Len(a) = n
  BY LenProperties
<1>2. Sums(a) \in [0 .. n -> Int]
  BY SumsAre
<1> QED BY <1>1, <1>2 DEF Plain

\* One lane of m rows, and the sums of the lanes.
Column(a, m, j) == [k \in 1 .. m |-> a[(k - 1) * Lanes + j]]

LaneSums(a, m) == [j \in 1 .. Lanes |-> Plain(Column(a, m, j))]

LEMMA ColumnGrows ==
  ASSUME NEW n \in Nat, NEW a \in [1 .. n -> Int], NEW m \in Nat, (m + 1) * Lanes <= n,
         NEW j \in 1 .. Lanes
  PROVE  /\ Plain(Column(a, m, j)) \in Int
         /\ m * Lanes + j \in 1 .. n
         /\ Plain(Column(a, m + 1, j)) = Plain(Column(a, m, j)) + a[m * Lanes + j]
<1>1. PICK l \in Nat : l = Lanes /\ l >= 1
  BY LaneNumbers
<1>2. m * l \in Nat /\ (m + 1) * l = m * l + l
  BY Z3
<1>3. \A k \in 1 .. m + 1 : (k - 1) * l \in Nat /\ (k - 1) * l <= m * l
  BY Z3
<1>4. \A k \in 1 .. m + 1 : (k - 1) * l + j \in 1 .. n
  <2> TAKE k \in 1 .. m + 1
  <2>1. (k - 1) * l \in Nat /\ (k - 1) * l <= m * l
    BY <1>3
  <2>2. m * l + l <= n
    BY <1>1, <1>2
  <2> QED BY <1>1, <1>2, <2>1, <2>2
<1> DEFINE c == Column(a, m + 1, j)
           b == Column(a, m, j)
<1>5. c \in [1 .. m + 1 -> Int] /\ \A k \in 1 .. m + 1 : c[k] = a[(k - 1) * l + j]
  BY <1>1, <1>4 DEF Column
<1>6. b \in [1 .. m -> Int] /\ \A k \in 1 .. m : b[k] = c[0 + k]
  BY <1>1, <1>4 DEF Column
<1>7. c[m + 1] = a[m * l + j] /\ m * l + j \in 1 .. n
  <2>1. m + 1 \in 1 .. m + 1 /\ (m + 1) - 1 = m
    OBVIOUS
  <2> QED BY <1>4, <1>5, <2>1
<1> HIDE DEF b, c
<1>8. Sums(c)[0 + m] = Sums(c)[0] + Sums(b)[m]
  <2>1. m + 1 \in Nat /\ 0 \in 0 .. m + 1 /\ m \in 0 .. (m + 1) - 0 /\ m \in 0 .. m
    OBVIOUS
  <2>2. \A i \in 0 .. m : Sums(c)[0 + i] = Sums(c)[0] + Sums(b)[i]
    BY <1>5, <1>6, <2>1, SumsOfPart
  <2> QED BY <2>1, <2>2
<1>9. /\ Sums(c)[0] = 0 /\ Sums(c)[m + 1] = Sums(c)[m] + c[m + 1]
  <2>1. m + 1 \in Nat /\ m \in 0 .. (m + 1) - 1
    OBVIOUS
  <2> QED BY <1>5, <2>1, SumsAre
<1>10. Sums(b)[m] \in Int /\ Plain(b) = Sums(b)[m]
  BY <1>6, PlainIs
<1>11. Plain(c) = Sums(c)[m + 1]
  BY <1>5, PlainIs
<1>12. Sums(c)[m] = Sums(b)[m]
  BY <1>8, <1>9, <1>10
<1> QED BY <1>1, <1>7, <1>9, <1>10, <1>11, <1>12 DEF b, c

LEMMA RowAddsUp ==
  ASSUME NEW n \in Nat, NEW a \in [1 .. n -> Int], NEW m \in Nat, (m + 1) * Lanes <= n,
         LaneSums(a, m) \in [1 .. Lanes -> Int],
         Sums(LaneSums(a, m))[Lanes] = Sums(a)[m * Lanes]
  PROVE  /\ LaneSums(a, m + 1) \in [1 .. Lanes -> Int]
         /\ Sums(LaneSums(a, m + 1))[Lanes] = Sums(a)[(m + 1) * Lanes]
<1>1. PICK l \in Nat : l = Lanes /\ l >= 1
  BY LaneNumbers
<1>2. PICK p \in Nat : p = m * l
  BY Z3
<1>3. (m + 1) * l = p + l
  BY <1>2, Z3
<1>4. p + l <= n
  BY <1>1, <1>3
<1> DEFINE x == LaneSums(a, m)
           y == [j \in 1 .. l |-> a[p + j]]
           z == LaneSums(a, m + 1)
<1>5. \A j \in 1 .. l : p + j \in 1 .. n
  BY <1>4
<1>6. y \in [1 .. l -> Int]
  BY <1>5
<1>7. \A j \in 1 .. l : x[j] \in Int /\ z[j] = x[j] + y[j]
  <2> TAKE j \in 1 .. l
  <2>1. j \in 1 .. Lanes
    BY <1>1
  <2>2. /\ Plain(Column(a, m, j)) \in Int
        /\ Plain(Column(a, m + 1, j)) = Plain(Column(a, m, j)) + a[m * Lanes + j]
    BY <2>1, ColumnGrows
  <2>3. m * Lanes + j = p + j
    BY <1>1, <1>2
  <2>4. x[j] = Plain(Column(a, m, j)) /\ z[j] = Plain(Column(a, m + 1, j))
    BY <2>1 DEF LaneSums
  <2>5. y[j] = a[p + j]
    OBVIOUS
  <2> QED BY <2>2, <2>3, <2>4, <2>5
<1>8. z \in [1 .. l -> Int] /\ x \in [1 .. l -> Int]
  <2>1. z = [j \in 1 .. l |-> z[j]] /\ x = [j \in 1 .. l |-> x[j]]
    BY <1>1 DEF LaneSums
  <2>2. \A j \in 1 .. l : z[j] \in Int
    BY <1>6, <1>7
  <2> HIDE DEF z, x
  <2> QED BY <1>7, <2>1, <2>2
<1>9. p \in 0 .. n /\ l \in 0 .. n - p /\ l \in 0 .. l /\ \A i \in 1 .. l : y[i] = a[p + i]
  BY <1>4
<1> HIDE DEF x, y, z
<1>10. Sums(z)[l] = Sums(x)[l] + Sums(y)[l]
  <2>1. \A i \in 0 .. l : Sums(z)[i] = Sums(x)[i] + Sums(y)[i]
    BY <1>6, <1>7, <1>8, SumsTogether
  <2> QED BY <1>9, <2>1
<1>11. Sums(a)[p + l] = Sums(a)[p] + Sums(y)[l]
  <2>1. \A i \in 0 .. l : Sums(a)[p + i] = Sums(a)[p] + Sums(y)[i]
    BY <1>6, <1>9, SumsOfPart
  <2> QED BY <1>9, <2>1
<1>12. Sums(x)[l] = Sums(a)[p]
  BY <1>1, <1>2 DEF x
<1>13. Sums(z)[l] = Sums(a)[p + l]
  BY <1>10, <1>11, <1>12
<1> QED BY <1>1, <1>3, <1>8, <1>13 DEF z

LEMMA RowsAndRest ==
  ASSUME NEW n \in Nat, NEW l \in Nat, l >= 1
  PROVE  \E q \in Nat, r \in Nat, full \in Nat :
           /\ full = q * l /\ n = full + r
           /\ n - (n % l) = full /\ full \div l = q
<1>1. n \div l \in Nat
  BY Z3
<1>2. n % l \in Nat
  BY Z3
<1>3. PICK q \in Nat : q = n \div l
  BY <1>1
<1>4. PICK r \in Nat : r = n % l
  BY <1>2
<1>5. q * l \in Nat
  BY Z3
<1>6. PICK full \in Nat : full = q * l
  BY <1>5
<1>7. n = full + r
  BY <1>3, <1>4, <1>6, Z3
<1>8. full \div l = q
  BY <1>6, Z3
<1>9. n - r = full
  BY <1>7
<1> QED BY <1>4, <1>6, <1>7, <1>8, <1>9

LEMMA LanesAddUp ==
  ASSUME NEW n \in Nat, NEW a \in [1 .. n -> Int]
  PROVE  InLanes(a) = Sums(a)[n]
<1>1. PICK l \in Nat : l = Lanes /\ l >= 1
  BY LaneNumbers
<1>2. PICK q \in Nat, r \in Nat, full \in Nat :
        /\ full = q * l /\ n = full + r
        /\ n - (n % l) = full /\ full \div l = q
  BY <1>1, RowsAndRest
<1>3. n = full + r /\ full \in Nat /\ r \in Nat
  BY <1>2
<1>4. full = q * l /\ q \in Nat
  BY <1>2
<1>5. n - (n % l) = full /\ full \div l = q
  BY <1>2
<1> DEFINE Good == {m \in 0 .. q : /\ LaneSums(a, m) \in [1 .. Lanes -> Int]
                                   /\ Sums(LaneSums(a, m))[Lanes] = Sums(a)[m * Lanes]}
<1>6. 0 \in Good
  <2> DEFINE x == LaneSums(a, 0)
  <2>1. \A j \in 1 .. l : Plain(Column(a, 0, j)) = 0
    <3> TAKE j \in 1 .. l
    <3>1. Column(a, 0, j) \in [1 .. 0 -> Int]
      BY DEF Column
    <3>2. Sums(Column(a, 0, j))[0] = 0 /\ 0 \in Nat
      BY <3>1, SumsAre
    <3> QED BY <3>1, <3>2, PlainIs
  <2>2. x = [j \in 1 .. l |-> 0]
    BY <1>1, <2>1 DEF LaneSums
  <2>3. x \in [1 .. l -> Int] /\ \A j \in 1 .. l : x[j] = x[j] + x[j]
    BY <2>2
  <2> HIDE DEF x
  <2>4. Sums(x)[l] = Sums(x)[l] + Sums(x)[l]
    <3>1. \A i \in 0 .. l : Sums(x)[i] = Sums(x)[i] + Sums(x)[i]
      BY <2>3, SumsTogether
    <3> QED BY <3>1
  <2>5. Sums(x)[l] \in Int
    <3>1. Sums(x) \in [0 .. l -> Int] /\ l \in 0 .. l
      BY <2>3, SumsAre
    <3> QED BY <3>1
  <2>6. Sums(x)[l] = 0
    BY <2>4, <2>5
  <2>7. Sums(a)[0] = 0
    BY SumsAre
  <2>8. 0 * l = 0
    BY <1>1
  <2>9. 0 \in 0 .. q
    BY <1>4
  <2> QED BY <1>1, <2>3, <2>6, <2>7, <2>8, <2>9 DEF x
<1>7. ASSUME NEW m \in 0 .. q - 1, m \in Good PROVE m + 1 \in Good
  <2>1. m \in Nat /\ m + 1 \in 0 .. q /\ m + 1 <= q
    BY <1>4
  <2>2. (m + 1) * l <= q * l
    BY <2>1, <1>4, Z3
  <2>3. (m + 1) * Lanes <= n
    <3>1. (m + 1) * Lanes = (m + 1) * l
      BY <1>1
    <3>2. (m + 1) * l \in Int
      BY <2>1
    <3> QED BY <1>3, <1>4, <2>2, <3>1, <3>2
  <2>4. LaneSums(a, m) \in [1 .. Lanes -> Int] /\ Sums(LaneSums(a, m))[Lanes] = Sums(a)[m * Lanes]
    BY <1>7
  <2> QED BY <2>1, <2>3, <2>4, RowAddsUp
<1>8. q \in Good
  <2> HIDE DEF Good
  <2>1. \A m \in 0 .. q : m \in Good
    BY <1>4, <1>6, <1>7, FirstNumbers
  <2> QED BY <1>4, <2>1
<1>9. LaneSums(a, q) \in [1 .. Lanes -> Int] /\ Sums(LaneSums(a, q))[Lanes] = Sums(a)[q * Lanes]
  BY <1>8
<1>10. Plain(LaneSums(a, q)) = Sums(a)[full]
  BY <1>1, <1>4, <1>9, PlainIs
<1> DEFINE rest == SubSeq(a, full + 1, n)
<1>11. rest \in [1 .. r -> Int] /\ \A i \in 1 .. r : rest[i] = a[full + i]
  <2>1. rest = [i \in 1 .. n - (full + 1) + 1 |-> a[full + 1 + i - 1]]
    OBVIOUS
  <2>2. n - (full + 1) + 1 = r /\ \A i \in 1 .. r : full + 1 + i - 1 = full + i /\ full + i \in 1 .. n
    BY <1>3
  <2> QED BY <2>1, <2>2
<1>12. Plain(rest) = Sums(rest)[r] /\ Plain(rest) \in Int
  <2> HIDE DEF rest
  <2> QED BY <1>3, <1>11, PlainIs
<1>13. Sums(a)[full + r] = Sums(a)[full] + Sums(rest)[r]
  <2> HIDE DEF rest
  <2>1. full \in 0 .. n /\ r \in 0 .. n - full /\ r \in 0 .. r
    BY <1>3
  <2>2. \A i \in 0 .. r : Sums(a)[full + i] = Sums(a)[full] + Sums(rest)[i]
    BY <1>11, <2>1, SumsOfPart
  <2> QED BY <2>1, <2>2
<1>14. Len(a) = n
  BY LenProperties
<1>15. InLanes(a) = Plain(LaneSums(a, q)) + Plain(rest)
  <2>1. LaneSums(a, q) = [j \in 1 .. l |-> Plain([k \in 1 .. q |-> a[(k - 1) * l + j]])]
    BY <1>1 DEF LaneSums, Column
  <2>2. InLanes(a) =
          Plain([j \in 1 .. l |-> Plain([k \in 1 .. full \div l |-> a[(k - 1) * l + j]])])
            + Plain(SubSeq(a, full + 1, n))
    <3>1. Len(a) - (Len(a) % Lanes) = full
      BY <1>1, <1>5, <1>14
    <3> HIDE DEF rest
    <3> QED BY <1>1, <1>14, <3>1 DEF InLanes
  <2> QED BY <1>5, <2>1, <2>2
<1> QED BY <1>3, <1>10, <1>12, <1>13, <1>15

LEMMA HalfIs ==
  ASSUME NEW n \in Nat, n > Block
  PROVE  Half(n) \in 1 .. n - 1
<1>1. PICK l \in Nat : l = Lanes /\ l >= 1 /\ 2 * l <= Block /\ Block \in Nat
  BY LaneNumbers
<1>2. n >= 2 * l
  BY <1>1
<1>3. n \div 2 \in Nat /\ n \div 2 >= l /\ n \div 2 < n
  BY <1>1, <1>2, Z3
<1>4. PICK h \in Nat : h = n \div 2 /\ h >= l /\ h < n
  BY <1>3
<1>5. PICK q \in Nat, r \in Nat, full \in Nat :
        /\ full = q * l /\ h = full + r
        /\ h - (h % l) = full /\ full \div l = q
  BY <1>1, RowsAndRest
<1>6. h % l \in Nat /\ h % l < l
  BY <1>1, Z3
<1>7. h - (h % l) \in 1 .. n - 1
  BY <1>1, <1>4, <1>6
<1> QED BY <1>1, <1>4, <1>7 DEF Half

LEMMA HalvesAddUp ==
  ASSUME NEW a \in Seq(Int), NEW h \in 1 .. Len(a) - 1
  PROVE  /\ SubSeq(a, 1, h) \in Seq(Int) /\ Len(SubSeq(a, 1, h)) = h
         /\ SubSeq(a, h + 1, Len(a)) \in Seq(Int) /\ Len(SubSeq(a, h + 1, Len(a))) = Len(a) - h
         /\ Plain(a) = Plain(SubSeq(a, 1, h)) + Plain(SubSeq(a, h + 1, Len(a)))
<1>1. PICK n \in Nat : n = Len(a)
  OBVIOUS
<1>0. PICK d \in Nat : d = n - h /\ n = h + d
  <2>1. h \in 1 .. n - 1
    BY <1>1
  <2>2. n - h \in Nat /\ n = h + (n - h)
    BY <2>1
  <2> QED BY <2>2
<1>2. a \in [1 .. n -> Int]
  BY <1>1, LenProperties
<1> DEFINE b == SubSeq(a, 1, h)
           c == SubSeq(a, h + 1, n)
<1>3. b \in [1 .. h -> Int] /\ \A i \in 1 .. h : b[i] = a[0 + i]
  <2>1. b = [i \in 1 .. h - 1 + 1 |-> a[1 + i - 1]]
    OBVIOUS
  <2>2. h - 1 + 1 = h /\ \A i \in 1 .. h : 1 + i - 1 = 0 + i /\ 0 + i \in 1 .. n
    BY <1>1
  <2> HIDE DEF b
  <2> QED BY <1>2, <2>1, <2>2
<1>4. c \in [1 .. d -> Int] /\ \A i \in 1 .. d : c[i] = a[h + i]
  <2>1. c = [i \in 1 .. n - (h + 1) + 1 |-> a[h + 1 + i - 1]]
    OBVIOUS
  <2>2. n - (h + 1) + 1 = d
        /\ \A i \in 1 .. d : h + 1 + i - 1 = h + i /\ h + i \in 1 .. n
    BY <1>0, <1>1
  <2> HIDE DEF c
  <2> QED BY <1>1, <1>2, <2>1, <2>2
<1> HIDE DEF b, c
<1>5. h \in Nat /\ h \in 0 .. n /\ 0 \in 0 .. n /\ h \in 0 .. n - 0 /\ d \in 0 .. d /\ d \in 0 .. n - h
      /\ h \in 0 .. h /\ h + d = n /\ n \in Nat
  BY <1>0, <1>1
<1>6. Sums(a)[0 + h] = Sums(a)[0] + Sums(b)[h]
  <2>1. \A i \in 0 .. h : Sums(a)[0 + i] = Sums(a)[0] + Sums(b)[i]
    BY <1>2, <1>3, <1>5, SumsOfPart
  <2> QED BY <1>5, <2>1
<1>7. Sums(a)[h + d] = Sums(a)[h] + Sums(c)[d]
  <2>1. \A i \in 0 .. d : Sums(a)[h + i] = Sums(a)[h] + Sums(c)[i]
    BY <1>2, <1>4, <1>5, SumsOfPart
  <2> QED BY <1>5, <2>1
<1>8. Plain(a) = Sums(a)[n] /\ Sums(a)[0] = 0
  BY <1>2, PlainIs, SumsAre
<1>9. Plain(b) = Sums(b)[h] /\ Plain(b) \in Int
  BY <1>3, <1>5, PlainIs
<1>10. Plain(c) = Sums(c)[d] /\ Plain(c) \in Int
  BY <1>0, <1>4, PlainIs
<1>11. Plain(a) = Plain(b) + Plain(c)
  <2>1. 0 + h = h /\ h + d = n
    BY <1>5
  <2>2. Sums(a)[h] = 0 + Plain(b)
    BY <1>6, <1>8, <1>9, <2>1
  <2>3. Sums(a)[h] = Plain(b)
    BY <1>9, <2>2
  <2> QED BY <1>7, <1>8, <1>10, <2>1, <2>3
<1>12. b \in Seq(Int) /\ Len(b) = h
  BY <1>3, <1>5, LenProperties
<1>13. c \in Seq(Int) /\ Len(c) = d
  <2>1. c \in [1 .. d -> Int]
    BY <1>4
  <2>2. c \in Seq(Int)
    BY <2>1
  <2>3. Len(c) = d
    BY <2>1, LenProperties
  <2> QED BY <2>2, <2>3
<1>14. b = SubSeq(a, 1, h) /\ c = SubSeq(a, h + 1, Len(a))
  BY <1>1 DEF b, c
<1>15. d = Len(a) - h
  BY <1>0, <1>1
<1> QED BY <1>11, <1>12, <1>13, <1>14, <1>15

\* However it is split, it is the sum.
IsPairwise(f) ==
  f = [a \in Seq(Int) |->
         IF Len(a) < Lanes THEN Plain(a)
         ELSE IF Len(a) <= Block THEN InLanes(a)
         ELSE f[SubSeq(a, 1, Half(Len(a)))] + f[SubSeq(a, Half(Len(a)) + 1, Len(a))]]

LEMMA PairwiseAddsUp ==
  ASSUME NEW a \in Seq(Int)
  PROVE  PairwiseSum[a] = Plain(a)
<1>1. \A b \in Seq(Int) : Plain(b) \in Int /\ InLanes(b) = Plain(b)
  <2> TAKE b \in Seq(Int)
  <2>1. PICK n \in Nat : n = Len(b) /\ b \in [1 .. n -> Int]
    BY LenProperties
  <2>2. InLanes(b) = Sums(b)[n]
    BY <2>1, LanesAddUp
  <2> QED BY <2>1, <2>2, PlainIs
<1>2. \A b \in Seq(Int) : Len(b) > Block =>
        /\ Half(Len(b)) \in 1 .. Len(b) - 1
        /\ SubSeq(b, 1, Half(Len(b))) \in Seq(Int)
        /\ Len(SubSeq(b, 1, Half(Len(b)))) < Len(b)
        /\ SubSeq(b, Half(Len(b)) + 1, Len(b)) \in Seq(Int)
        /\ Len(SubSeq(b, Half(Len(b)) + 1, Len(b))) < Len(b)
        /\ Plain(b) = Plain(SubSeq(b, 1, Half(Len(b)))) + Plain(SubSeq(b, Half(Len(b)) + 1, Len(b)))
  <2> SUFFICES ASSUME NEW b \in Seq(Int), Len(b) > Block
               PROVE  /\ Half(Len(b)) \in 1 .. Len(b) - 1
                      /\ SubSeq(b, 1, Half(Len(b))) \in Seq(Int)
                      /\ Len(SubSeq(b, 1, Half(Len(b)))) < Len(b)
                      /\ SubSeq(b, Half(Len(b)) + 1, Len(b)) \in Seq(Int)
                      /\ Len(SubSeq(b, Half(Len(b)) + 1, Len(b))) < Len(b)
                      /\ Plain(b) = Plain(SubSeq(b, 1, Half(Len(b))))
                                    + Plain(SubSeq(b, Half(Len(b)) + 1, Len(b)))
    OBVIOUS
  <2>1. Len(b) \in Nat
    OBVIOUS
  <2>2. PICK h \in 1 .. Len(b) - 1 : h = Half(Len(b))
    BY <2>1, HalfIs
  <2>3. h < Len(b) /\ Len(b) - h < Len(b)
    BY <2>1
  <2> QED BY <2>2, <2>3, HalvesAddUp
<1>3. IsPairwise([b \in Seq(Int) |-> Plain(b)])
  <2> DEFINE f == [b \in Seq(Int) |-> Plain(b)]
  <2>1. \A b \in Seq(Int) : f[b] = Plain(b)
    OBVIOUS
  <2>2. f = [b \in Seq(Int) |-> f[b]]
    OBVIOUS
  <2> HIDE DEF f
  <2>3. \A b \in Seq(Int) :
          f[b] = IF Len(b) < Lanes THEN Plain(b)
                 ELSE IF Len(b) <= Block THEN InLanes(b)
                 ELSE f[SubSeq(b, 1, Half(Len(b)))] + f[SubSeq(b, Half(Len(b)) + 1, Len(b))]
    <3> TAKE b \in Seq(Int)
    <3>1. CASE Len(b) > Block
      <4>1. ~(Len(b) < Lanes) /\ ~(Len(b) <= Block)
        BY <3>1, LaneNumbers
      <4> QED BY <1>2, <2>1, <3>1, <4>1
    <3>2. CASE ~(Len(b) > Block)
      <4>1. Len(b) <= Block
        BY <3>2, LaneNumbers
      <4> QED BY <1>1, <2>1, <4>1
    <3> QED BY <3>1, <3>2
  <2>4. IsPairwise(f)
    BY <2>2, <2>3 DEF IsPairwise
  <2> QED BY <2>4 DEF f
<1>4. PairwiseSum = CHOOSE f : IsPairwise(f)
  BY DEF PairwiseSum, IsPairwise
<1>5. IsPairwise(PairwiseSum)
  BY <1>3, <1>4
<1>6. PICK f : f = PairwiseSum /\ IsPairwise(f)
  BY <1>5
<1>7. \A b \in Seq(Int) :
        f[b] = IF Len(b) < Lanes THEN Plain(b)
               ELSE IF Len(b) <= Block THEN InLanes(b)
               ELSE f[SubSeq(b, 1, Half(Len(b)))] + f[SubSeq(b, Half(Len(b)) + 1, Len(b))]
  BY <1>6 DEF IsPairwise
<1> DEFINE Wrong == {k \in Nat : \E c \in Seq(Int) : Len(c) = k /\ f[c] # Plain(c)}
<1> SUFFICES ASSUME f[a] # Plain(a) PROVE FALSE
  BY <1>6
<1>8. Wrong \in SUBSET Nat /\ Wrong # {}
  <2>1. Len(a) \in Nat
    OBVIOUS
  <2>2. Len(a) \in Wrong
    BY <2>1
  <2> QED BY <2>2
<1>9. PICK m \in Wrong : \A k \in Wrong : m <= k
  <2> HIDE DEF Wrong
  <2> QED BY <1>8, LeastNat
<1>10. PICK b \in Seq(Int) : f[b] # Plain(b) /\ m = Len(b)
  BY <1>9
<1>11. \A c \in Seq(Int) : Len(c) < Len(b) => f[c] = Plain(c)
  <2> SUFFICES ASSUME NEW c \in Seq(Int), Len(c) < Len(b), f[c] # Plain(c) PROVE FALSE
    OBVIOUS
  <2>1. Len(c) \in Wrong
    OBVIOUS
  <2>2. m <= Len(c)
    <3> HIDE DEF Wrong
    <3> QED BY <1>9, <2>1
  <2> QED BY <1>10, <2>2
<1>12. CASE Len(b) > Block
  <2>1. ~(Len(b) < Lanes) /\ ~(Len(b) <= Block)
    BY <1>12, LaneNumbers
  <2>2. f[b] = f[SubSeq(b, 1, Half(Len(b)))] + f[SubSeq(b, Half(Len(b)) + 1, Len(b))]
    BY <1>7, <2>1
  <2> QED BY <1>2, <1>10, <1>11, <1>12, <2>2
<1>13. CASE ~(Len(b) > Block)
  <2>1. Len(b) <= Block
    BY <1>13, LaneNumbers
  <2> QED BY <1>1, <1>7, <1>10, <2>1
<1> QED BY <1>12, <1>13
\* A sum of flags counts the windows below the limit, whatever the limit is.
LEMMA AlarmsAreCounted ==
  ASSUME NEW held \in Seq(Int), NEW limit
  PROVE  PairwiseSum[[i \in DOMAIN held |-> IF 100 * held[i] < limit THEN 1 ELSE 0]]
           = Below(held, limit)
<1>1. PICK n \in Nat : n = Len(held) /\ DOMAIN held = 1 .. n
  OBVIOUS
<1> DEFINE flags == [i \in DOMAIN held |-> IF 100 * held[i] < limit THEN 1 ELSE 0]
<1>2. flags \in [1 .. n -> {0, 1}] /\ \A i \in 1 .. n : flags[i] = 1 <=> 100 * held[i] < limit
  BY <1>1
<1>3. {i \in 1 .. n : flags[i] = 1} = {i \in DOMAIN held : 100 * held[i] < limit}
  BY <1>1, <1>2
<1> HIDE DEF flags
<1>4. flags \in [1 .. n -> Int]
  BY <1>2
<1>5. flags \in Seq(Int)
  BY <1>4
<1>6. PairwiseSum[flags] = Plain(flags)
  BY <1>5, PairwiseAddsUp
<1>7. Plain(flags) = Sums(flags)[n]
  BY <1>4, PlainIs
<1>8. Sums(flags)[n] = Cardinality({i \in 1 .. n : flags[i] = 1})
  BY <1>2, SumsOfOnes
<1> QED BY <1>3, <1>6, <1>7, <1>8 DEF Below, flags

(***************************************************************************)
(* However a sum is split into halves, blocks and lanes, it is the sum: a  *)
(* fold counts each held-out window once, for any lanes, block and corpora *)
(* (numerics.cpp:22-52, calibration.cpp:76-116).                           *)
(***************************************************************************)
THEOREM FoldsAlwaysCountEachWindow == CalSpec => []FoldsCountEachWindow
<1>1. CalInv => FoldsCountEachWindow
  <2> SUFFICES ASSUME CalTyped, NEW k \in DOMAIN corpora
               PROVE  LocoFold(k).alarms = Below(RollingSpread(corpora[k]), LocoFold(k).limit)
    BY DEF CalInv, FoldsCountEachWindow
  <2>1. corpora[k] \in Seq(Frames)
    BY DEF CalTyped
  <2>2. PICK held \in Seq(Int) : held = RollingSpread(corpora[k])
    BY <2>1, SpreadsAreNumbers
  <2>3. PICK limit : limit = LocoFold(k).limit
    OBVIOUS
  <2>4. LocoFold(k).alarms =
          PairwiseSum[[i \in DOMAIN held |-> IF 100 * held[i] < limit THEN 1 ELSE 0]]
    BY <2>2, <2>3 DEF LocoFold
  <2> QED BY <2>2, <2>3, <2>4, AlarmsAreCounted
<1> QED BY <1>1, CalInvariant, PTL

-----------------------------------------------------------------------------
(* A session directory. *)

(***************************************************************************)
(* A trial has a log, in some form, from when it was run.                  *)
(***************************************************************************)
DirInv ==
  /\ outcome \in [TrialKeys -> Outcomes \cup {None}]
  /\ logForms \in [TrialKeys -> SUBSET Forms]
  /\ \A k \in TrialKeys : logForms[k] # {} <=> outcome[k] # None

LEMMA DirInvariant == DirSpec => []DirInv
<1>1. DirInit => DirInv
  BY DEF DirInit, DirInv
<1>2. DirInv /\ [DirNext]_dirVars => DirInv'
  <2> SUFFICES ASSUME DirInv, [DirNext]_dirVars PROVE DirInv'
    OBVIOUS
  <2>1. CASE RunTrial
    <3>1. PICK key \in TrialKeys, o \in Outcomes :
            /\ outcome' = [outcome EXCEPT ![key] = o]
            /\ logForms' = [logForms EXCEPT ![key] = {"plain"}]
      BY <2>1 DEF RunTrial
    <3>2. o # None
      BY SessionDirAssumption
    <3> QED BY <3>1, <3>2 DEF DirInv, Forms
  <2>2. CASE CompressLog
    <3>1. PICK key \in TrialKeys, rest \in SUBSET {"plain"} :
            /\ logForms[key] = {"plain"} /\ outcome' = outcome
            /\ logForms' = [logForms EXCEPT ![key] = {"gz"} \cup rest]
      BY <2>2 DEF CompressLog
    <3> QED BY <3>1 DEF DirInv, Forms
  <2>3. CASE CompressRows \/ LoseRows \/ UNCHANGED dirVars
    BY <2>3 DEF CompressRows, LoseRows, dirVars, DirInv
  <2> QED BY <2>1, <2>2, <2>3 DEF DirNext
<1> QED BY <1>1, <1>2, PTL DEF DirSpec

\* What the summary of a kind is of.
LEMMA LogsAre ==
  ASSUME DirInv, NEW kind
  PROVE  /\ IsFiniteSet(RunOf(kind)) /\ RunOf(kind) \in SUBSET TrialKeys
         /\ \A k \in RunOf(kind) : k = <<kind, k[2]>> /\ <<k[2], "plain">> \in EmbedderLogs(kind)
         /\ \A log \in EmbedderLogs(kind) : /\ <<kind, log[1]>> \in RunOf(kind)
                                            /\ log = <<log[1], "plain">>
<1>1. \A k \in TrialKeys : k[1] = kind => k = <<kind, k[2]>>
  BY SessionDirAssumption
<1>2. IsFiniteSet(RunOf(kind)) /\ RunOf(kind) \in SUBSET TrialKeys
  <2>1. IsFiniteSet(TrialKeys) /\ RunOf(kind) \subseteq TrialKeys
    BY SessionDirAssumption DEF RunOf
  <2> QED BY <2>1, FS_Subset
<1>3. \A k \in RunOf(kind) : k = <<kind, k[2]>> /\ <<k[2], "plain">> \in EmbedderLogs(kind)
  BY <1>1 DEF RunOf, EmbedderLogs, DirInv
<1>4. ASSUME NEW log \in EmbedderLogs(kind)
      PROVE  <<kind, log[1]>> \in RunOf(kind) /\ log = <<log[1], "plain">>
  <2>1. PICK k \in TrialKeys : k[1] = kind /\ logForms[k] # {} /\ log = <<k[2], "plain">>
    BY <1>4 DEF EmbedderLogs
  <2>2. k = <<kind, log[1]>> /\ outcome[k] # None
    BY <1>1, <2>1 DEF DirInv
  <2> QED BY <2>1, <2>2 DEF RunOf
<1> QED BY <1>2, <1>3, <1>4

\* A trial that was run, in the summary: detected or not, and how late.
LEMMA TrialIs ==
  ASSUME DirInv, NEW kind, NEW k \in RunOf(kind), k = <<kind, k[2]>>,
         NEW stop, stop = TrialSummary(kind, k[2]).stop
  PROVE  /\ stop # None <=> rowForms[k] # {} /\ SawStop(outcome[k])
         /\ stop # None => /\ stop.latency \in Int
                           /\ stop = HealthAtLeast(outcome[k].rows, outcome[k].tf, 3)
<1>1. PICK o \in Outcomes : o = outcome[k]
  BY DEF RunOf, DirInv
<1>2. PICK rows \in Seq(Line) : rows = o.rows
  BY SessionDirAssumption
<1>3. PICK n \in Nat : n = Len(rows) /\ DOMAIN rows = 1 .. n
  OBVIOUS
<1>4. TimeOfFault(k) = o.tf
  BY <1>1 DEF RunOf, DirInv, TimeOfFault
<1>5. LoadRows(k) = IF rowForms[k] = {} THEN <<>> ELSE rows
  BY <1>1, <1>2 DEF LoadRows
<1>6. CASE o.tf = None
  <2>1. stop = None
    BY <1>4, <1>6 DEF TrialSummary, FaultSummary
  <2> QED BY <1>1, <1>6, <2>1 DEF SawStop
<1>7. CASE o.tf # None
  <2>1. PICK tf \in Nat : tf = o.tf
    BY <1>7, SessionDirAssumption
  <2>2. stop = HealthAtLeast(LoadRows(k), tf, 3)
    BY <1>4, <1>7, <2>1 DEF TrialSummary, FaultSummary
  <2>3. CASE rowForms[k] = {}
    <3>1. LoadRows(k) = <<>> /\ DOMAIN <<>> = {}
      BY <1>5, <2>3
    <3>2. stop = None
      BY <2>2, <3>1 DEF HealthAtLeast, FirstAfter, OfTopic
    <3> QED BY <2>3, <3>2
  <2>4. CASE rowForms[k] # {}
    <3>1. LoadRows(k) = rows
      BY <1>5, <2>4
    <3> DEFINE matching == {i \in OfTopic(rows, DOMAIN rows, "health") : rows[i].state >= 3}
               hits == HitsOf(rows, tf, matching)
    <3>2. stop = FirstAfter(rows, tf, matching)
      BY <2>2, <3>1 DEF HealthAtLeast
    <3>3. matching \in SUBSET (1 .. Len(rows)) /\ tf \in Int
      BY <1>3 DEF OfTopic
    <3>4. /\ hits = {} => stop = None
          /\ hits # {} => /\ stop # None
                          /\ \E i \in hits : stop.latency = rows[i].t - tf
      <4> HIDE DEF matching, hits
      <4>1. hits = HitsOf(rows, tf, matching)
        BY DEF hits
      <4> QED BY <3>2, <3>3, <4>1, FirstAfterIs
    <3>5. \A i \in 1 .. n : rows[i] \in Line
      BY <1>3, ElementOfSeq
    <3>6. \A i \in 1 .. n : /\ rows[i].t \in Nat
                            /\ rows[i].state >= 3 <=> rows[i].state = 3
      <4>1. \A i \in 1 .. n : rows[i].t \in Nat /\ rows[i].state \in (0 .. 3) \cup {-1}
        BY <3>5 DEF Line, States
      <4> QED BY <4>1
    <3>7. hits # {} <=> SawStop(o)
      <4>1. hits = {i \in 1 .. n : /\ rows[i].topic = "health" /\ rows[i].state = 3
                                   /\ rows[i].t >= tf}
        BY <1>3, <3>6 DEF HitsOf, OfTopic
      <4> HIDE DEF hits
      <4> QED BY <1>2, <1>3, <1>7, <2>1, <4>1 DEF SawStop
    <3>8. ASSUME stop # None PROVE stop.latency \in Int
      <4>1. PICK i \in hits : stop.latency = rows[i].t - tf
        BY <3>4, <3>8
      <4>2. i \in 1 .. n
        BY <1>3 DEF HitsOf, OfTopic
      <4> QED BY <3>6, <4>1, <4>2
    <3> HIDE DEF hits, matching
    <3>9. stop = HealthAtLeast(o.rows, o.tf, 3)
      BY <1>2, <2>1, <2>2, <3>1
    <3> QED BY <1>1, <2>4, <3>4, <3>7, <3>8, <3>9
  <2> QED BY <2>3, <2>4
<1> QED BY <1>6, <1>7

(***************************************************************************)
(* Every trial counts once, for any trials, whatever they left and however *)
(* their files are kept: the logs stand in one-to-one correspondence with  *)
(* the trials that were run, and the median is the middle one              *)
(* (session.cpp:247-266, 537-570, 686-746).                                *)
(***************************************************************************)
THEOREM TrialsCountOnce == DirSpec => []EveryTrialCountsOnce
<1>1. DirInv => EveryTrialCountsOnce
  <2> SUFFICES ASSUME DirInv, NEW kind,
                      \E key \in TrialKeys : outcome[key] # None /\ kind = key[1]
               PROVE  LET all  == SummarizeSession[kind]
                          seen == {k \in RunOf(kind) : rowForms[k] # {} /\ SawStop(outcome[k])}
                          Latency(k) == HealthAtLeast(outcome[k].rows, outcome[k].tf, 3).latency
                          median == all.stat["stop"].median
                      IN  /\ all.trials = Cardinality(RunOf(kind))
                          /\ all.stat["stop"].detected = Cardinality(seen)
                          /\ all.stat["stop"].total = all.trials
                          /\ seen # {} =>
                               /\ 2 * Cardinality({k \in seen : Latency(k) > median}) <= Cardinality(seen)
                               /\ 2 * Cardinality({k \in seen : Latency(k) < median}) <= Cardinality(seen)
    BY DEF EveryTrialCountsOnce
  <2> DEFINE runs == RunOf(kind)
             logs == EmbedderLogs(kind)
             trials == [log \in logs |-> TrialSummary(kind, log[1])]
             Stop(log) == TrialSummary(kind, log[1]).stop
             found == {log \in logs : Stop(log) # None}
             lat == [log \in found |-> Stop(log).latency]
             seen == {k \in runs : rowForms[k] # {} /\ SawStop(outcome[k])}
             LogOf == [k \in runs |-> <<k[2], "plain">>]
  <2>1. /\ IsFiniteSet(runs) /\ runs \in SUBSET TrialKeys
        /\ \A k \in runs : k = <<kind, k[2]>> /\ LogOf[k] \in logs
        /\ \A log \in logs : <<kind, log[1]>> \in runs /\ log = <<log[1], "plain">>
    BY LogsAre
  <2>2. SummarizeSession[kind] = Aggregate(trials)
    <3>1. PICK key \in TrialKeys : outcome[key] # None /\ kind = key[1]
      OBVIOUS
    <3>2. kind \in FaultKinds
      BY <3>1, SessionDirAssumption
    <3>3. key \in runs
      BY <3>1 DEF RunOf
    <3>4. logs # {}
      BY <2>1, <3>3
    <3>5. kind \in {k \in FaultKinds : Reported(k)}
      BY <3>2, <3>4 DEF Reported
    <3> QED BY <3>5 DEF SummarizeSession
  <2>3. /\ Aggregate(trials).trials = Cardinality(logs)
        /\ Aggregate(trials).stat["stop"] = LatencyStat(trials, "stop")
    BY DEF Aggregate
  <2>4. /\ LatencyStat(trials, "stop").detected = Cardinality(found)
        /\ LatencyStat(trials, "stop").total = Cardinality(logs)
        /\ found # {} => LatencyStat(trials, "stop").median = Nth(lat, Cardinality(found) \div 2 + 1)
    <3>1. {log \in DOMAIN trials : trials[log]["stop"] # None} = found
      OBVIOUS
    <3>2. [log \in found |-> trials[log]["stop"].latency] = lat
      OBVIOUS
    <3>3. DOMAIN trials = logs /\ DOMAIN lat = found
      OBVIOUS
    <3> HIDE DEF trials, found, lat
    <3> QED BY <3>1, <3>2, <3>3 DEF LatencyStat, Median
  <2>5. /\ LogOf \in [runs -> logs]
        /\ \A x, y \in runs : LogOf[x] = LogOf[y] => x = y
        /\ \A log \in logs : \E k \in runs : LogOf[k] = log
    <3>1. \A k \in runs : LogOf[k] = <<k[2], "plain">>
      OBVIOUS
    <3>2. LogOf \in [runs -> logs]
      BY <2>1
    <3> HIDE DEF LogOf, runs, logs
    <3>3. ASSUME NEW x \in runs, NEW y \in runs, LogOf[x] = LogOf[y] PROVE x = y
      BY <2>1, <3>1, <3>3
    <3>4. ASSUME NEW log \in logs PROVE \E k \in runs : LogOf[k] = log
      <4>1. <<kind, log[1]>> \in runs /\ log = <<log[1], "plain">>
        BY <2>1
      <4>2. LogOf[<<kind, log[1]>>] = log
        BY <3>1, <4>1
      <4> QED BY <4>1, <4>2
    <3> QED BY <3>2, <3>3, <3>4
  <2>6. \A k \in runs : /\ LogOf[k] \in found <=> k \in seen
                        /\ k \in seen => /\ lat[LogOf[k]] \in Int
                                         /\ lat[LogOf[k]] = HealthAtLeast(outcome[k].rows, outcome[k].tf, 3).latency
    <3> TAKE k \in runs
    <3>1. LogOf[k] = <<k[2], "plain">> /\ LogOf[k] \in logs /\ k = <<kind, k[2]>>
      BY <2>1
    <3>2. PICK stop : stop = TrialSummary(kind, k[2]).stop
      OBVIOUS
    <3>3. /\ stop # None <=> rowForms[k] # {} /\ SawStop(outcome[k])
          /\ stop # None => /\ stop.latency \in Int
                            /\ stop = HealthAtLeast(outcome[k].rows, outcome[k].tf, 3)
      BY <3>1, <3>2, TrialIs
    <3>4. Stop(LogOf[k]) = stop
      BY <3>1, <3>2
    <3>5. LogOf[k] \in found <=> stop # None
      BY <3>1, <3>4
    <3>6. k \in seen <=> stop # None
      BY <3>3
    <3>7. LogOf[k] \in found => lat[LogOf[k]] = stop.latency
      BY <3>4
    <3> HIDE DEF LogOf, found, seen, lat, Stop
    <3> QED BY <3>3, <3>5, <3>6, <3>7
  <2>7. lat \in [found -> Int]
    <3>1. \A log \in found : lat[log] \in Int
      <4> TAKE log \in found
      <4>1. log \in logs
        OBVIOUS
      <4>2. PICK k \in runs : LogOf[k] = log
        BY <2>5, <4>1
      <4> HIDE DEF LogOf, found, seen, lat
      <4> QED BY <2>6, <4>2
    <3> QED BY <3>1
  <2>8. found \in SUBSET logs /\ seen \in SUBSET runs
    OBVIOUS
  <2> HIDE DEF LogOf, found, seen, lat, logs, runs, trials
  <2>9. IsFiniteSet(logs) /\ Cardinality(logs) = Cardinality(runs)
    BY <2>1, <2>5, OneToOne
  <2>10. ASSUME NEW P \in SUBSET found
         PROVE  Cardinality({k \in seen : LogOf[k] \in P}) = Cardinality(P)
    <3> DEFINE Q == {k \in seen : LogOf[k] \in P}
               f == [k \in Q |-> LogOf[k]]
    <3>1. IsFiniteSet(Q)
      BY <2>1, <2>8, FS_Subset
    <3>2. f \in [Q -> P] /\ \A x, y \in Q : f[x] = f[y] => x = y
      BY <2>5, <2>8
    <3>3. \A z \in P : \E x \in Q : f[x] = z
      <4> TAKE z \in P
      <4>1. PICK k \in runs : LogOf[k] = z
        BY <2>5, <2>8
      <4>2. k \in Q
        BY <2>6, <4>1
      <4> QED BY <4>1, <4>2
    <3> HIDE DEF Q, f
    <3>4. Cardinality(P) = Cardinality(Q)
      BY <3>1, <3>2, <3>3, OneToOne
    <3> QED BY <3>4 DEF Q
  <2>11. Cardinality(found) = Cardinality(seen)
    <3>1. {k \in seen : LogOf[k] \in found} = seen
      BY <2>6, <2>8
    <3> QED BY <2>10, <3>1
  <2>12. ASSUME seen # {}, NEW median, median = Nth(lat, Cardinality(found) \div 2 + 1)
         PROVE  /\ found # {}
                /\ 2 * Cardinality({k \in seen : lat[LogOf[k]] > median}) <= Cardinality(seen)
                /\ 2 * Cardinality({k \in seen : lat[LogOf[k]] < median}) <= Cardinality(seen)
    <3>1. IsFiniteSet(found) /\ found # {}
      BY <2>6, <2>8, <2>9, <2>12, FS_Subset
    <3>2. PICK c \in Nat : c = Cardinality(found) /\ c # 0
      BY <3>1, FS_CardinalityType, FS_EmptySet
    <3>3. PICK n \in 1 .. c : n = c \div 2 + 1
      BY <3>2, HalfOf
    <3>4. /\ median \in Int /\ Cardinality(Under(lat, median)) < n
          /\ n <= Cardinality(UpTo(lat, median))
      BY <2>7, <2>12, <3>1, <3>2, <3>3, NthIsIn
    <3>5. /\ Under(lat, median) \in SUBSET found /\ UpTo(lat, median) \in SUBSET found
          /\ \A log \in found : /\ log \in Under(lat, median) <=> lat[log] < median
                                /\ log \in UpTo(lat, median) <=> lat[log] <= median
      BY <2>7, <3>4, UpToIn
    <3>6. PICK u \in Nat, t \in Nat :
            /\ u = Cardinality(Under(lat, median)) /\ t = Cardinality(UpTo(lat, median))
            /\ t <= c
      BY <3>1, <3>2, <3>5, CountedIn
    <3>7. {k \in seen : lat[LogOf[k]] < median} = {k \in seen : LogOf[k] \in Under(lat, median)}
      BY <2>6, <2>8, <3>5
    <3>8. {k \in seen : lat[LogOf[k]] > median} = {k \in seen : LogOf[k] \in found \ UpTo(lat, median)}
      <4>1. \A k \in seen : LogOf[k] \in found /\ lat[LogOf[k]] \in Int
        BY <2>6, <2>8
      <4>2. \A k \in seen : lat[LogOf[k]] > median <=> ~(lat[LogOf[k]] <= median)
        BY <3>4, <4>1
      <4> QED BY <3>5, <4>1, <4>2
    <3>9. Cardinality(found \ UpTo(lat, median)) = c - t
      <4>1. PICK U : U = UpTo(lat, median)
        OBVIOUS
      <4>2. found \cap U = U
        BY <3>5, <4>1
      <4>3. Cardinality(found \ U) = Cardinality(found) - Cardinality(found \cap U)
        BY <3>1, FS_Difference
      <4> QED BY <3>2, <3>6, <4>1, <4>2, <4>3
    <3>10. Cardinality({k \in seen : LogOf[k] \in Under(lat, median)}) = u
      BY <2>10, <3>5, <3>6
    <3>11. Cardinality({k \in seen : LogOf[k] \in found \ UpTo(lat, median)}) = c - t
      <4>1. found \ UpTo(lat, median) \in SUBSET found
        OBVIOUS
      <4> QED BY <2>10, <3>9, <4>1
    <3>12. 2 * u <= c /\ 2 * (c - t) <= c
      BY <3>2, <3>3, <3>4, <3>6, HalfOf
    <3> QED BY <2>11, <3>1, <3>2, <3>7, <3>8, <3>10, <3>11, <3>12
  <2>13. ASSUME NEW k \in seen
         PROVE  lat[LogOf[k]] = HealthAtLeast(outcome[k].rows, outcome[k].tf, 3).latency
    BY <2>6, <2>8
  <2> DEFINE Latency(k) == HealthAtLeast(outcome[k].rows, outcome[k].tf, 3).latency
  <2>14. ASSUME NEW median
         PROVE  /\ {k \in seen : lat[LogOf[k]] > median} = {k \in seen : Latency(k) > median}
                /\ {k \in seen : lat[LogOf[k]] < median} = {k \in seen : Latency(k) < median}
    BY <2>13
  <2>15. PICK all : all = SummarizeSession[kind]
    OBVIOUS
  <2>16. /\ all.trials = Cardinality(runs)
         /\ all.stat["stop"].detected = Cardinality(seen)
         /\ all.stat["stop"].total = all.trials
         /\ found # {} => all.stat["stop"].median = Nth(lat, Cardinality(found) \div 2 + 1)
    BY <2>2, <2>3, <2>4, <2>9, <2>11, <2>15
  <2>17. ASSUME seen # {}
         PROVE  /\ 2 * Cardinality({k \in seen : Latency(k) > all.stat["stop"].median}) <= Cardinality(seen)
                /\ 2 * Cardinality({k \in seen : Latency(k) < all.stat["stop"].median}) <= Cardinality(seen)
    <3>1. PICK median : median = Nth(lat, Cardinality(found) \div 2 + 1)
      OBVIOUS
    <3> HIDE DEF Latency
    <3>2. /\ found # {}
          /\ 2 * Cardinality({k \in seen : lat[LogOf[k]] > median}) <= Cardinality(seen)
          /\ 2 * Cardinality({k \in seen : lat[LogOf[k]] < median}) <= Cardinality(seen)
      BY <2>12, <2>17, <3>1
    <3>3. all.stat["stop"].median = median
      BY <2>16, <3>1, <3>2
    <3> QED BY <2>14, <3>2, <3>3
  <2> QED BY <2>15, <2>16, <2>17 DEF seen, runs
<1> QED BY <1>1, DirInvariant, PTL

-----------------------------------------------------------------------------
(* The random generators. *)

Parts == {"first", "second", "low", "high", "whole"}

Draw == {"gauss", "int", "pcg"} \X Nat \X Parts

\* The words consumed of the stream a value comes from.
Taken(value) == IF value[1] = "pcg" THEN longs ELSE words

\* A word is half used: what was handed out of it is that half.
HalfKept(value, key, part) == value[2] = key /\ key # NoValue => value[3] = part

Clash(v, w) ==
  v[1] = w[1] /\ v[2] = w[2] /\ (v[3] = w[3] \/ "whole" \in {v[3], w[3]})

(***************************************************************************)
(* DrawsAreFresh as it is inductive.  A value drawn is named by words      *)
(* already consumed, so the next words are new; and of the words a kept    *)
(* half belongs to, only the other half was handed out.                    *)
(***************************************************************************)
DrawInv ==
  /\ {words, longs} \subseteq Nat
  /\ gaussKept # NoValue => gaussKept \in 0 .. words
  /\ halfKept # NoValue => halfKept \in 0 .. longs
  /\ drawn \in Seq(Draw)
  /\ \A i \in 1 .. Len(drawn) :
       /\ drawn[i][2] <= Taken(drawn[i])
       /\ drawn[i][1] = "gauss" => HalfKept(drawn[i], gaussKept, "second")
       /\ drawn[i][1] = "pcg" => HalfKept(drawn[i], halfKept, "low")
  /\ \A i, j \in 1 .. Len(drawn) : i # j => ~Clash(drawn[i], drawn[j])

LEMMA DrawParts ==
  ASSUME NEW v \in Draw
  PROVE  v[1] \in {"gauss", "int", "pcg"} /\ v[2] \in Nat /\ v[3] \in Parts
BY DEF Draw

\* What was handed out before, and the one value more.
LEMMA Handing ==
  ASSUME drawn \in Seq(Draw), NEW v \in Draw, Hand(v)
  PROVE  /\ drawn' \in Seq(Draw) /\ Len(drawn) \in Nat /\ Len(drawn') = Len(drawn) + 1
         /\ \A i \in 1 .. Len(drawn) : drawn'[i] = drawn[i] /\ drawn[i] \in Draw
         /\ drawn'[Len(drawn) + 1] = v
BY AppendProperties, ElementOfSeq, LenProperties DEF Hand

(***************************************************************************)
(* A value of words that were not drawn yet, or of the half that was kept: *)
(* it clashes with nothing, and leaves the invariant if the halves of the  *)
(* others are still said right.                                            *)
(***************************************************************************)
LEMMA HandingKeeps ==
  ASSUME DrawInv, NEW v \in Draw, Hand(v),
         {words', longs'} \subseteq Nat, words' >= words, longs' >= longs,
         gaussKept' # NoValue => gaussKept' \in 0 .. words',
         halfKept' # NoValue => halfKept' \in 0 .. longs',
         v[2] <= (IF v[1] = "pcg" THEN longs' ELSE words'),
         \A i \in 1 .. Len(drawn) : ~Clash(drawn[i], v) /\ ~Clash(v, drawn[i]),
         v[1] = "gauss" => HalfKept(v, gaussKept', "second"),
         v[1] = "pcg" => HalfKept(v, halfKept', "low"),
         \A i \in 1 .. Len(drawn) :
           /\ drawn[i][1] = "gauss" => HalfKept(drawn[i], gaussKept', "second")
           /\ drawn[i][1] = "pcg" => HalfKept(drawn[i], halfKept', "low")
  PROVE  DrawInv'
<1> DEFINE n == Len(drawn)
<1>1. /\ drawn' \in Seq(Draw) /\ n \in Nat /\ Len(drawn') = n + 1
      /\ \A i \in 1 .. n : drawn'[i] = drawn[i] /\ drawn[i] \in Draw
      /\ drawn'[n + 1] = v
  BY Handing DEF DrawInv
<1> HIDE DEF n
<1>2. \A i \in 1 .. n + 1 : i \in 1 .. n \/ i = n + 1
  BY <1>1
<1>3. ASSUME NEW i \in 1 .. n + 1
      PROVE  /\ drawn'[i][2] <= (Taken(drawn[i]))'
             /\ drawn'[i][1] = "gauss" => HalfKept(drawn[i], gaussKept, "second")'
             /\ drawn'[i][1] = "pcg" => HalfKept(drawn[i], halfKept, "low")'
  <2>1. CASE i \in 1 .. n
    <3>1. drawn[i][2] <= Taken(drawn[i]) /\ drawn[i][2] \in Nat
      BY <1>1, <2>1, DrawParts DEF DrawInv, n
    <3>2. drawn'[i][2] <= (Taken(drawn[i]))'
      BY <1>1, <2>1, <3>1 DEF Taken, DrawInv
    <3> QED BY <1>1, <2>1, <3>2 DEF HalfKept, n
  <2>2. CASE i = n + 1
    BY <1>1, <2>2 DEF Taken, HalfKept
  <2> QED BY <1>2, <2>1, <2>2
<1>4. ASSUME NEW i \in 1 .. n + 1, NEW j \in 1 .. n + 1, i # j
      PROVE  ~Clash(drawn'[i], drawn'[j])
  BY <1>1, <1>2, <1>4 DEF DrawInv, n
<1> QED BY <1>1, <1>3, <1>4 DEF DrawInv

\* Words that were not drawn before.
LEMMA NewWords ==
  ASSUME DrawInv, NEW v \in Draw, v[2] > Taken(v)
  PROVE  \A i \in 1 .. Len(drawn) : ~Clash(drawn[i], v) /\ ~Clash(v, drawn[i])
<1> SUFFICES ASSUME NEW i \in 1 .. Len(drawn), drawn[i][1] = v[1], drawn[i][2] = v[2]
             PROVE  FALSE
  BY DEF Clash
<1>1. drawn[i] \in Draw /\ drawn[i][2] <= Taken(drawn[i])
  BY ElementOfSeq DEF DrawInv
<1> QED BY <1>1, DrawParts DEF Taken, DrawInv

\* A kept key that is new, or given up, says nothing of the values before.
LEMMA OldHalves ==
  ASSUME DrawInv, NEW i \in 1 .. Len(drawn)
  PROVE  /\ drawn[i] \in Draw /\ drawn[i][2] \in Nat
         /\ drawn[i][1] = "gauss" => drawn[i][2] <= words /\ HalfKept(drawn[i], gaussKept, "second")
         /\ drawn[i][1] = "pcg" => drawn[i][2] <= longs /\ HalfKept(drawn[i], halfKept, "low")
<1>1. drawn[i] \in Draw
  BY ElementOfSeq DEF DrawInv
<1> QED BY <1>1, DrawParts DEF DrawInv, Taken

LEMMA GaussKeeps ==
  ASSUME DrawInv, Gauss
  PROVE  DrawInv'
<1> USE DEF Gauss, shuffling
<1>1. CASE GaussFromKept
  <2>0. PICK v \in Draw : v = <<"gauss", gaussKept, "first">>
    BY <1>1 DEF GaussFromKept, DrawInv, Draw, Parts
  <2>1. Hand(v) /\ v[2] <= (IF v[1] = "pcg" THEN longs' ELSE words')
    BY <1>1, <2>0 DEF GaussFromKept, DrawInv
  <2>2. \A i \in 1 .. Len(drawn) : ~Clash(drawn[i], v) /\ ~Clash(v, drawn[i])
    BY <1>1, <2>0, OldHalves DEF GaussFromKept, Clash, HalfKept
  <2>3. UNCHANGED <<words, longs, halfKept>> /\ gaussKept' = NoValue
    BY <1>1 DEF GaussFromKept
  <2>4. \A i \in 1 .. Len(drawn) :
           /\ drawn[i][1] = "gauss" => HalfKept(drawn[i], gaussKept', "second")
           /\ drawn[i][1] = "pcg" => HalfKept(drawn[i], halfKept', "low")
    BY <2>3, OldHalves DEF HalfKept
  <2>5. v[1] = "gauss" /\ HalfKept(v, gaussKept', "second")
    BY <2>0, <2>3 DEF HalfKept
  <2> QED BY <2>1, <2>2, <2>3, <2>4, <2>5, HandingKeeps DEF DrawInv
<1>2. CASE GaussPair
  <2>1. words' \in Nat /\ words' > words
    <3>1. PICK outside \in 0 .. MaxWords : Consume(4 * (outside + 1))
      BY <1>2 DEF GaussPair
    <3> QED BY <3>1, RandomAssumption DEF Consume, DrawInv
  <2>0. PICK v \in Draw : v = <<"gauss", words', "second">>
    BY <2>1 DEF Draw, Parts
  <2>2. Hand(v) /\ v[2] <= (IF v[1] = "pcg" THEN longs' ELSE words') /\ v[2] > Taken(v)
    BY <1>2, <2>0, <2>1 DEF GaussPair, Taken
  <2>3. UNCHANGED <<longs, halfKept>> /\ gaussKept' = words'
    BY <1>2 DEF GaussPair
  <2>4. \A i \in 1 .. Len(drawn) :
           /\ drawn[i][1] = "gauss" => HalfKept(drawn[i], gaussKept', "second")
           /\ drawn[i][1] = "pcg" => HalfKept(drawn[i], halfKept', "low")
    <3>1. words \in Nat
      BY DEF DrawInv
    <3> SUFFICES ASSUME NEW i \in 1 .. Len(drawn)
                 PROVE  /\ drawn[i][1] = "gauss" => drawn[i][2] # gaussKept'
                        /\ drawn[i][1] = "pcg" => HalfKept(drawn[i], halfKept, "low")
      BY <2>3 DEF HalfKept
    <3> QED BY <2>1, <2>3, <3>1, OldHalves
  <2>5. v[1] = "gauss" /\ HalfKept(v, gaussKept', "second")
    BY <2>0 DEF HalfKept
  <2> QED BY <2>1, <2>2, <2>3, <2>4, <2>5, NewWords, HandingKeeps DEF DrawInv
<1> QED BY <1>1, <1>2

\* A value of the 64-bit stream that no kept half belongs to.
LEMMA NewLongKeeps ==
  ASSUME DrawInv, NEW part \in {"low", "whole"}, Hand(<<"pcg", longs', part>>),
         longs' \in Nat, longs' > longs, UNCHANGED <<words, gaussKept>>,
         \/ part = "low" /\ halfKept' = longs'
         \/ part = "whole" /\ halfKept' = halfKept
  PROVE  DrawInv'
<1>0. PICK v \in Draw : v = <<"pcg", longs', part>>
  BY DEF Draw, Parts
<1>1. v[2] <= (IF v[1] = "pcg" THEN longs' ELSE words') /\ v[2] > Taken(v)
  BY <1>0 DEF Taken
<1>2. \A i \in 1 .. Len(drawn) :
         /\ drawn[i][1] = "gauss" => HalfKept(drawn[i], gaussKept', "second")
         /\ drawn[i][1] = "pcg" => HalfKept(drawn[i], halfKept', "low")
  BY OldHalves DEF HalfKept, DrawInv
<1>3. v[1] = "pcg" /\ HalfKept(v, halfKept', "low") /\ Hand(v)
  BY <1>0 DEF HalfKept, DrawInv
<1>4. halfKept' # NoValue => halfKept' \in 0 .. longs'
  BY DEF DrawInv
<1> QED BY <1>1, <1>2, <1>3, <1>4, NewWords, HandingKeeps DEF DrawInv

LEMMA HalvesKeep ==
  ASSUME DrawInv, NextU32
  PROVE  DrawInv'
<1>1. UNCHANGED <<words, gaussKept>>
  BY DEF NextU32
<1>2. CASE halfKept # NoValue /\ Hand(<<"pcg", halfKept, "high">>) /\ halfKept' = NoValue
           /\ UNCHANGED longs
  <2>1. PICK v \in Draw : v = <<"pcg", halfKept, "high">>
    BY <1>2 DEF DrawInv, Draw, Parts
  <2>2. Hand(v) /\ v[1] = "pcg" /\ v[2] <= longs' /\ HalfKept(v, halfKept', "low")
    BY <1>2, <2>1 DEF DrawInv, HalfKept
  <2>3. \A i \in 1 .. Len(drawn) : ~Clash(drawn[i], v) /\ ~Clash(v, drawn[i])
    BY <1>2, <2>1, OldHalves DEF Clash, HalfKept
  <2>4. \A i \in 1 .. Len(drawn) :
           /\ drawn[i][1] = "gauss" => HalfKept(drawn[i], gaussKept', "second")
           /\ drawn[i][1] = "pcg" => HalfKept(drawn[i], halfKept', "low")
    BY <1>1, <1>2, OldHalves DEF HalfKept
  <2>5. /\ {words', longs'} \subseteq Nat /\ words' >= words /\ longs' >= longs
        /\ gaussKept' # NoValue => gaussKept' \in 0 .. words'
        /\ halfKept' # NoValue => halfKept' \in 0 .. longs'
    BY <1>1, <1>2 DEF DrawInv
  <2>6. v[2] <= (IF v[1] = "pcg" THEN longs' ELSE words')
    BY <2>2
  <2>7. v[1] # "gauss"
    BY <2>2
  <2> QED BY DrawInv, <2>2, <2>3, <2>4, <2>5, <2>6, <2>7, HandingKeeps
<1>3. CASE ConsumeLongs(1) /\ halfKept' = longs' /\ Hand(<<"pcg", longs', "low">>)
  <2>1. longs' \in Nat /\ longs' > longs
    BY <1>3 DEF ConsumeLongs, DrawInv
  <2> QED BY <1>1, <1>3, <2>1, NewLongKeeps
<1> QED BY <1>2, <1>3 DEF NextU32

\* The values of a rejected or accepted draw that are not handed out.
LEMMA NormalKeeps ==
  ASSUME DrawInv, StandardNormal
  PROVE  DrawInv'
<1>1. PICK rejected \in 0 .. MaxWords,
            more \in {0, 1} \cup {2 * pairs : pairs \in 1 .. MaxWords} :
        /\ ConsumeLongs(2 * rejected + 1 + more)
        /\ Hand(<<"pcg", longs' - more, "whole">>)
  BY DEF StandardNormal
<1>2. UNCHANGED <<words, gaussKept, halfKept>>
  BY DEF StandardNormal
<1>3. longs' - more \in Nat /\ longs' - more > longs /\ longs' - more <= longs' /\ longs' \in Nat
  <2>1. PICK n \in Nat : n = longs
    BY DEF DrawInv
  <2>2. rejected \in Nat /\ more \in Nat
    BY RandomAssumption
  <2>3. PICK m \in Nat : m = longs' /\ m = n + (2 * rejected + 1 + more)
    BY <1>1, <2>1, <2>2 DEF ConsumeLongs
  <2>4. m - more \in Nat /\ m - more > n /\ m - more <= m
    BY <2>2, <2>3
  <2> QED BY <2>1, <2>3, <2>4
<1>4. PICK v \in Draw : v = <<"pcg", longs' - more, "whole">>
  BY <1>3 DEF Draw, Parts
<1>5. Hand(v) /\ v[1] = "pcg" /\ v[2] <= longs' /\ v[2] > Taken(v)
  BY <1>1, <1>3, <1>4 DEF Taken
<1>6. HalfKept(v, halfKept', "low")
  BY <1>2, <1>3, <1>4 DEF HalfKept, DrawInv
<1>7. \A i \in 1 .. Len(drawn) :
         /\ drawn[i][1] = "gauss" => HalfKept(drawn[i], gaussKept', "second")
         /\ drawn[i][1] = "pcg" => HalfKept(drawn[i], halfKept', "low")
  BY <1>2, OldHalves
<1>8. /\ {words', longs'} \subseteq Nat /\ words' >= words /\ longs' >= longs
      /\ gaussKept' # NoValue => gaussKept' \in 0 .. words'
      /\ halfKept' # NoValue => halfKept' \in 0 .. longs'
  BY <1>1, <1>2, <1>3 DEF DrawInv
<1>9. v[2] <= (IF v[1] = "pcg" THEN longs' ELSE words') /\ v[1] # "gauss"
  BY <1>5
<1>10. \A i \in 1 .. Len(drawn) : ~Clash(drawn[i], v) /\ ~Clash(v, drawn[i])
  BY <1>5, NewWords
<1> QED BY <1>5, <1>6, <1>7, <1>8, <1>9, <1>10, HandingKeeps

LEMMA IntKeeps ==
  ASSUME DrawInv, RandInt
  PROVE  DrawInv'
<1>0. PICK rejected \in 0 .. MaxWords :
        Consume(rejected + 1) /\ Hand(<<"int", words', "whole">>)
  BY DEF RandInt
<1>1. Hand(<<"int", words', "whole">>)
  BY <1>0
<1>2. UNCHANGED <<longs, gaussKept, halfKept>>
  BY DEF RandInt
<1>3. words' \in Nat /\ words' > words
  BY <1>0, RandomAssumption DEF Consume, DrawInv
<1>4. PICK v \in Draw : v = <<"int", words', "whole">>
  BY <1>3 DEF Draw, Parts
<1>5. Hand(v) /\ v[1] = "int" /\ v[2] <= words' /\ v[2] > Taken(v)
  BY <1>1, <1>3, <1>4 DEF Taken
<1>6. \A i \in 1 .. Len(drawn) :
         /\ drawn[i][1] = "gauss" => HalfKept(drawn[i], gaussKept', "second")
         /\ drawn[i][1] = "pcg" => HalfKept(drawn[i], halfKept', "low")
  BY <1>2, OldHalves
<1>7. /\ {words', longs'} \subseteq Nat /\ words' >= words /\ longs' >= longs
      /\ gaussKept' # NoValue => gaussKept' \in 0 .. words'
      /\ halfKept' # NoValue => halfKept' \in 0 .. longs'
  BY <1>1, <1>2, <1>3 DEF DrawInv
<1>8. v[2] <= (IF v[1] = "pcg" THEN longs' ELSE words') /\ v[1] \notin {"gauss", "pcg"}
  BY <1>5
<1>9. \A i \in 1 .. Len(drawn) : ~Clash(drawn[i], v) /\ ~Clash(v, drawn[i])
  BY <1>5, NewWords
<1> QED BY <1>5, <1>6, <1>7, <1>8, <1>9, HandingKeeps

\* Words are drawn, or nothing is, and no value is handed out.
LEMMA QuietKeeps ==
  ASSUME DrawInv, Shuffle \/ UNCHANGED randomVars
  PROVE  DrawInv'
<1>1. UNCHANGED <<longs, gaussKept, halfKept, drawn>> /\ words' \in Nat /\ words' >= words
  BY DEF Shuffle, Consume, randomVars, DrawInv
<1>2. \A i \in 1 .. Len(drawn) : drawn[i][2] <= (Taken(drawn[i]))'
  BY <1>1, OldHalves DEF Taken, DrawInv
<1>3. /\ gaussKept' # NoValue => gaussKept' \in 0 .. words'
      /\ halfKept' # NoValue => halfKept' \in 0 .. longs'
  BY <1>1 DEF DrawInv
<1> QED BY <1>1, <1>2, <1>3 DEF DrawInv, HalfKept

LEMMA InitDraw == RandomInit => DrawInv
BY EmptySeq DEF RandomInit, DrawInv

LEMMA StepDraw == DrawInv /\ [RandomNext]_randomVars => DrawInv'
<1> SUFFICES ASSUME DrawInv, [RandomNext]_randomVars
             PROVE  DrawInv'
  OBVIOUS
<1>1. CASE NextU64
  <2>1. longs' \in Nat /\ longs' > longs
    BY <1>1 DEF NextU64, ConsumeLongs, DrawInv
  <2> QED BY <1>1, <2>1, NewLongKeeps DEF NextU64
<1> QED BY <1>1, GaussKeeps, HalvesKeep, NormalKeeps, IntKeeps, QuietKeeps DEF RandomNext

LEMMA DrawImplies == DrawInv => DrawsAreFresh
<1> SUFFICES ASSUME DrawInv PROVE DrawsAreFresh
  OBVIOUS
<1>1. DOMAIN drawn = 1 .. Len(drawn)
  BY LenProperties DEF DrawInv
<1>2. \A i, j \in DOMAIN drawn :
        (i # j /\ drawn[i][1] = drawn[j][1] /\ drawn[i][2] = drawn[j][2]) =>
          drawn[i][3] # drawn[j][3] /\ "whole" \notin {drawn[i][3], drawn[j][3]}
  BY <1>1 DEF DrawInv, Clash
<1>3. ASSUME gaussKept # NoValue, NEW i \in DOMAIN drawn, drawn[i] = <<"gauss", gaussKept, "first">>
      PROVE  FALSE
  BY <1>1, <1>3 DEF DrawInv, HalfKept
<1>4. ASSUME halfKept # NoValue, NEW i \in DOMAIN drawn, drawn[i] = <<"pcg", halfKept, "high">>
      PROVE  FALSE
  BY <1>1, <1>4 DEF DrawInv, HalfKept
<1> QED BY <1>2, <1>3, <1>4 DEF DrawsAreFresh, Range

(***************************************************************************)
(* No word of either stream is handed out twice, and a kept half was not   *)
(* handed out before (numpy_random.cpp:144-162, 177-212, 258-279).         *)
(***************************************************************************)
THEOREM DrawsAlwaysFresh == RandomSpec => []DrawsAreFresh
BY InitDraw, StepDraw, DrawImplies, PTL DEF RandomSpec

-----------------------------------------------------------------------------
(* A word, and the range it is masked to. *)

\* What the proofs need of the constants.
LEMMA RandomNumbers ==
  /\ WordBits \in Nat /\ Population \in Nat /\ Population >= 1 /\ Population <= Power[WordBits]
BY RandomAssumption

IsPower(f, n) == f = [k \in 0 .. n |-> IF k = 0 THEN 1 ELSE 2 * f[k - 1]]

\* The powers of two are the numbers their recursion says.
LEMMA PowersAre ==
  /\ Power \in [0 .. WordBits -> Nat] /\ Power[0] = 1
  /\ \A k \in 0 .. WordBits - 1 : Power[k + 1] = 2 * Power[k]
<1>1. PICK n \in Nat : n = WordBits
  BY RandomNumbers
<1> DEFINE step == [i \in 1 .. n |-> [x \in Nat |-> 2 * x]]
<1>2. step \in [1 .. n -> [Nat -> Nat]]
  OBVIOUS
<1>3. PICK f \in [0 .. n -> Nat] : IsFold(f, n, 1, step)
  <2> HIDE DEF step
  <2>0. 1 \in Nat
    OBVIOUS
  <2> QED BY <1>2, <2>0, FoldExists
<1>4. f[0] = 1 /\ \A i \in 1 .. n : f[i] = 2 * f[i - 1]
  <2>1. ASSUME NEW i \in 1 .. n PROVE f[i] = 2 * f[i - 1]
    <3>1. f[i] = step[i][f[i - 1]]
      BY <1>3 DEF IsFold
    <3>2. f[i - 1] \in Nat
      OBVIOUS
    <3>3. step[i] = [x \in Nat |-> 2 * x]
      OBVIOUS
    <3> QED BY <3>1, <3>2, <3>3
  <2> QED BY <1>3, <2>1 DEF IsFold
<1>5. IsPower(f, n)
  BY <1>3, <1>4 DEF IsPower
<1>6. Power = CHOOSE g : IsPower(g, n)
  BY <1>1 DEF Power, IsPower
<1>7. IsPower(Power, n)
  BY <1>5, <1>6
<1>8. PICK p : p = Power /\ p = [k \in 0 .. n |-> IF k = 0 THEN 1 ELSE 2 * p[k - 1]]
  BY <1>7 DEF IsPower
<1>9. p[0] = 1
  BY <1>8
<1>10. ASSUME NEW k \in 0 .. n - 1 PROVE p[k + 1] = 2 * p[k]
  <2>1. PICK j \in 0 .. n : j = k + 1 /\ j - 1 = k /\ j # 0
    OBVIOUS
  <2>2. p[j] = 2 * p[j - 1]
    BY <1>8, <2>1
  <2> QED BY <2>1, <2>2
<1> DEFINE T == {k \in 0 .. n : p[k] \in Nat}
<1>11. ASSUME NEW k \in 0 .. n - 1, k \in T PROVE k + 1 \in T
  <2>1. k + 1 \in 0 .. n
    OBVIOUS
  <2> QED BY <1>10, <1>11, <2>1
<1>12. 0 \in T
  BY <1>9
<1>13. \A k \in 0 .. n : k \in T
  <2> HIDE DEF T
  <2> QED BY <1>11, <1>12, FirstNumbers
<1>14. p \in [0 .. n -> Nat]
  BY <1>8, <1>13
<1> QED BY <1>1, <1>8, <1>9, <1>10, <1>14

IsWholeTurns(W, m) == \E q \in Nat : W = q * m

\* A power divides a greater one.
LEMMA PowersDivide ==
  ASSUME NEW k \in 0 .. WordBits
  PROVE  /\ Power[k] \in Nat /\ Power[k] >= 1
         /\ \E q \in Nat : Power[WordBits] = q * Power[k]
<1>1. PICK n \in Nat : n = WordBits
  BY RandomNumbers
<1>2. PICK p \in [0 .. n -> Nat] :
        p = Power /\ p[0] = 1 /\ \A i \in 0 .. n - 1 : p[i + 1] = 2 * p[i]
  BY <1>1, PowersAre
<1>3. k \in 0 .. n /\ k \in Nat /\ n - k \in Nat
  BY <1>1
<1> DEFINE Low == {i \in 0 .. n : p[i] >= 1}
           High == {i \in 0 .. n - k : \E q \in Nat : p[k + i] = q * p[k]}
<1>4. 0 \in Low
  BY <1>2
<1>5. ASSUME NEW i \in 0 .. n - 1, i \in Low PROVE i + 1 \in Low
  <2>1. i + 1 \in 0 .. n /\ p[i] \in Nat /\ p[i + 1] = 2 * p[i] /\ p[i] >= 1
    BY <1>2, <1>5
  <2> QED BY <2>1
<1>6. \A i \in 0 .. n : i \in Low
  <2> HIDE DEF Low
  <2> QED BY <1>4, <1>5, FirstNumbers
<1>7. 0 \in High
  <2>1. p[k + 0] = 1 * p[k] /\ 1 \in Nat /\ 0 \in 0 .. n - k
    BY <1>3
  <2> QED BY <2>1
<1>8. ASSUME NEW i \in 0 .. (n - k) - 1, i \in High PROVE i + 1 \in High
  <2>1. PICK j \in 0 .. n - 1 : j = k + i
    BY <1>3
  <2>2. PICK q \in Nat : p[j] = q * p[k]
    BY <1>8, <2>1
  <2>3. p[j + 1] = 2 * p[j]
    BY <1>2
  <2>4. PICK m \in Nat : m = p[k]
    BY <1>3
  <2>5. 2 * (q * m) = (2 * q) * m /\ 2 * q \in Nat
    BY Z3
  <2>6. p[k + (i + 1)] = (2 * q) * p[k]
    BY <1>3, <2>1, <2>2, <2>3, <2>4, <2>5
  <2>7. i + 1 \in 0 .. n - k
    BY <1>3
  <2> QED BY <2>5, <2>6, <2>7
<1>9. n - k \in High
  <2> HIDE DEF High
  <2>1. \A i \in 0 .. n - k : i \in High
    BY <1>3, <1>7, <1>8, FirstNumbers
  <2> QED BY <1>3, <2>1
<1>10. PICK q \in Nat : p[k + (n - k)] = q * p[k]
  BY <1>9
<1>11. k + (n - k) = n
  BY <1>3
<1> QED BY <1>1, <1>2, <1>3, <1>6, <1>10, <1>11

\* Powers grow.
LEMMA PowersGrow ==
  ASSUME NEW i \in 0 .. WordBits, NEW j \in i .. WordBits PROVE Power[i] <= Power[j]
<1>1. PICK n \in Nat : n = WordBits
  BY RandomNumbers
<1>2. PICK p \in [0 .. n -> Nat] :
        p = Power /\ p[0] = 1 /\ \A k \in 0 .. n - 1 : p[k + 1] = 2 * p[k]
  BY <1>1, PowersAre
<1>3. i \in 0 .. n /\ i \in Nat /\ n - i \in Nat /\ j \in i .. n
  BY <1>1
<1> DEFINE T == {k \in 0 .. n - i : p[i + k] >= p[i]}
<1>4. 0 \in T
  BY <1>3
<1>5. ASSUME NEW k \in 0 .. (n - i) - 1, k \in T PROVE k + 1 \in T
  <2>1. PICK l \in 0 .. n - 1 : l = i + k /\ i + (k + 1) = l + 1
    BY <1>3
  <2>2. p[l] \in Nat /\ p[i] \in Nat /\ p[l] >= p[i] /\ p[l + 1] = 2 * p[l]
    BY <1>2, <1>3, <1>5, <2>1
  <2>3. p[l + 1] >= p[i]
    BY <2>2
  <2> QED BY <1>3, <2>1, <2>3
<1>6. \A k \in 0 .. n - i : k \in T
  <2> HIDE DEF T
  <2> QED BY <1>3, <1>4, <1>5, FirstNumbers
<1>7. PICK k \in 0 .. n - i : j = i + k
  BY <1>3
<1> QED BY <1>2, <1>6, <1>7

\* A mask whose bits are below k, and the m uppermost of them set.
TopFilled(mask, k, m) ==
  mask \subseteq 0 .. k - 1 /\ \A b \in 0 .. k - 1 : b >= k - m => b \in mask

\* A shift by as many bits as are set doubles them.
LEMMA ShiftFills ==
  ASSUME NEW mask, NEW k \in 0 .. WordBits, NEW m \in Nat, TopFilled(mask, k, m)
  PROVE  TopFilled(OrShifted(mask, m), k, 2 * m)
<1>1. PICK n \in Nat : n = WordBits
  BY RandomNumbers
<1>2. k \in Nat /\ k <= n
  BY <1>1
<1>3. \A b \in mask : b \in 0 .. k - 1
  BY DEF TopFilled
<1>4. PICK new : new = OrShifted(mask, m)
  OBVIOUS
<1>5. new = mask \cup {b \in 0 .. n - 1 : b + m \in mask}
  BY <1>1, <1>4 DEF OrShifted
<1>6. ASSUME NEW b \in new PROVE b \in 0 .. k - 1
  BY <1>2, <1>3, <1>5
<1>7. ASSUME NEW b \in 0 .. k - 1, b >= k - 2 * m PROVE b \in new
  <2>1. CASE b >= k - m
    BY <1>5, <2>1 DEF TopFilled
  <2>2. CASE b < k - m
    <3>1. b + m \in 0 .. k - 1 /\ b + m >= k - m /\ b \in 0 .. n - 1
      BY <1>2, <1>7, <2>2
    <3> QED BY <1>5, <3>1 DEF TopFilled
  <2> QED BY <1>2, <2>1, <2>2
<1> QED BY <1>4, <1>6, <1>7 DEF TopFilled

\* A quotient is known by the multiples around the number.
LEMMA QuotientIs ==
  ASSUME NEW w \in Nat, NEW p \in Nat, NEW q \in Nat, p >= 1, q * p <= w, w < q * p + p
  PROVE  w \div p = q
<1>1. PICK d \in Nat, r \in Nat, full \in Nat :
        /\ full = d * p /\ w = full + r
        /\ w - (w % p) = full /\ full \div p = d
  BY RowsAndRest
<1>2. w % p \in Nat /\ w % p < p /\ w \div p \in Nat
  BY Z3
<1>3. r < p
  BY <1>1, <1>2
<1>4. w \div p = d
  BY <1>1, <1>3, Z3
<1>5. ASSUME d < q PROVE FALSE
  <2>1. (d + 1) * p <= q * p /\ (d + 1) * p = d * p + p
    BY <1>5, Z3
  <2> QED BY <1>1, <1>3, <2>1
<1>6. ASSUME q < d PROVE FALSE
  <2>1. (q + 1) * p <= d * p /\ (q + 1) * p = q * p + p
    BY <1>6, Z3
  <2> QED BY <1>1, <2>1
<1> QED BY <1>4, <1>5, <1>6

\* The highest bit of a number.
LEMMA SmallDivides ==
  ASSUME NEW max \in Nat, NEW q \in Nat
  PROVE  /\ q > max => max \div q = 0
         /\ (q <= max /\ max < 2 * q) => max \div q = 1
<1>1. ASSUME q > max PROVE max \div q = 0
  <2>1. q >= 1 /\ 0 * q <= max /\ max < 0 * q + q
    BY <1>1
  <2> QED BY <2>1, QuotientIs
<1>2. ASSUME q <= max, max < 2 * q PROVE max \div q = 1
  <2>1. q >= 1 /\ 1 * q <= max /\ max < 1 * q + q
    BY <1>2
  <2> QED BY <2>1, QuotientIs
<1> QED BY <1>1, <1>2

\* The mask has all bits below k, and covers the range.
LEMMA MaskIs ==
  ASSUME NEW max \in Nat, max < Power[WordBits]
  PROVE  \E k \in 0 .. WordBits : MaskOf(max) = 0 .. k - 1 /\ Power[k] > max
<1>1. PICK n \in Nat : n = WordBits /\ n <= 32
  BY RandomAssumption
<1>2. PICK p \in [0 .. n -> Nat] :
        p = Power /\ p[0] = 1 /\ \A i \in 0 .. n - 1 : p[i + 1] = 2 * p[i]
  BY <1>1, PowersAre
<1> DEFINE above == {i \in 0 .. n : p[i] > max}
<1>3. PICK k \in above : \A i \in above : k <= i
  <2>1. above \in SUBSET Nat /\ n \in above
    BY <1>1, <1>2
  <2> HIDE DEF above
  <2> QED BY <2>1, LeastNat
<1>4. k \in 0 .. n /\ k \in Nat /\ p[k] \in Nat /\ p[k] > max
  BY <1>3
<1>5. TopFilled(Bits(max), k, 1)
  <2>1. ASSUME NEW b \in Bits(max) PROVE b \in 0 .. k - 1
    <3>1. b \in 0 .. n - 1 /\ (max \div p[b]) % 2 = 1
      BY <1>1, <1>2 DEF Bits
    <3>2. CASE b >= k
      <4>1. p[k] <= p[b]
        <5>1. k \in 0 .. WordBits /\ b \in k .. WordBits
          BY <1>1, <1>4, <3>1, <3>2
        <5> QED BY <1>2, <5>1, PowersGrow
      <4>2. PICK q \in Nat : q = p[b] /\ q > max
        BY <1>4, <3>1, <4>1
      <4>3. max \div q = 0
        BY <4>2, SmallDivides
      <4> QED BY <3>1, <4>2, <4>3
    <3> QED BY <1>4, <3>1, <3>2
  <2>2. ASSUME NEW b \in 0 .. k - 1, b >= k - 1 PROVE b \in Bits(max)
    <3>1. b = k - 1 /\ b \in 0 .. n - 1 /\ b + 1 = k /\ k > b /\ b \in 0 .. n
      BY <1>4, <2>2
    <3>2. p[k] = 2 * p[b]
      BY <1>2, <3>1
    <3>3. ~(p[b] > max)
      BY <1>3, <3>1
    <3>4. PICK q \in Nat : q = p[b] /\ q <= max /\ max < 2 * q
      BY <1>4, <3>1, <3>2, <3>3
    <3>5. max \div q = 1
      BY <3>4, SmallDivides
    <3> QED BY <1>1, <1>2, <3>1, <3>4, <3>5 DEF Bits
  <2> QED BY <2>1, <2>2 DEF TopFilled
<1>6. k \in 0 .. WordBits
  BY <1>1, <1>4
<1>7. PICK m1 : m1 = OrShifted(Bits(max), 1) /\ TopFilled(m1, k, 2)
  <2>1. TopFilled(OrShifted(Bits(max), 1), k, 2 * 1)
    BY <1>5, <1>6, ShiftFills
  <2> QED BY <2>1
<1>8. PICK m2 : m2 = OrShifted(m1, 2) /\ TopFilled(m2, k, 4)
  <2>1. TopFilled(OrShifted(m1, 2), k, 2 * 2)
    BY <1>6, <1>7, ShiftFills
  <2> QED BY <2>1
<1>9. PICK m3 : m3 = OrShifted(m2, 4) /\ TopFilled(m3, k, 8)
  <2>1. TopFilled(OrShifted(m2, 4), k, 2 * 4)
    BY <1>6, <1>8, ShiftFills
  <2> QED BY <2>1
<1>10. PICK m4 : m4 = OrShifted(m3, 8) /\ TopFilled(m4, k, 16)
  <2>1. TopFilled(OrShifted(m3, 8), k, 2 * 8)
    BY <1>6, <1>9, ShiftFills
  <2> QED BY <2>1
<1>11. PICK m5 : m5 = OrShifted(m4, 16) /\ TopFilled(m5, k, 32)
  <2>1. TopFilled(OrShifted(m4, 16), k, 2 * 16)
    BY <1>6, <1>10, ShiftFills
  <2> QED BY <2>1
<1>12. m5 = 0 .. k - 1
  <2>1. \A b \in 0 .. k - 1 : b >= k - 32
    BY <1>1, <1>4
  <2> QED BY <1>11, <2>1 DEF TopFilled
<1>13. MaskOf(max) = m5
  BY <1>7, <1>8, <1>9, <1>10, <1>11, Zenon DEF MaskOf
<1> QED BY <1>2, <1>4, <1>6, <1>12, <1>13

\* A remainder is known by the whole turns left out.
LEMMA RemainderIs ==
  ASSUME NEW w \in Nat, NEW m \in Nat, NEW k \in Nat, k < m
  PROVE  w % m = k <=> \E q \in Nat : w = q * m + k
<1>1. PICK q \in Nat, r \in Nat, full \in Nat :
        /\ full = q * m /\ w = full + r
        /\ w - (w % m) = full /\ full \div m = q
  <2>1. m >= 1
    OBVIOUS
  <2> QED BY <2>1, RowsAndRest
<1>2. w % m \in Nat
  BY Z3
<1>3. w % m = r
  BY <1>1, <1>2
<1>4. ASSUME w % m = k PROVE \E p \in Nat : w = p * m + k
  BY <1>1, <1>3, <1>4
<1>5. ASSUME NEW p \in Nat, w = p * m + k PROVE w % m = k
  BY <1>5, Z3
<1> QED BY <1>4, <1>5

\* One more bit of a word.
LEMMA OneMoreBit ==
  ASSUME NEW w \in Nat, NEW p \in Nat, p >= 1
  PROVE  w % (2 * p) = (w % p) + (IF (w \div p) % 2 = 1 THEN p ELSE 0)
<1>1. PICK q \in Nat, r \in Nat, full \in Nat :
        /\ full = q * p /\ w = full + r
        /\ w - (w % p) = full /\ full \div p = q
  BY RowsAndRest
<1>2. w % p = r /\ w % p \in Nat /\ r < p
  <2>1. w % p \in Nat /\ w % p < p
    BY Z3
  <2> QED BY <1>1, <2>1
<1>3. w \div p = q
  <2>1. q * p <= w /\ w < q * p + p
    BY <1>1
  <2> QED BY <2>1, QuotientIs
<1>4. PICK h \in Nat, c \in {0, 1} : q = 2 * h + c /\ q % 2 = c
  BY Z3
<1>5. PICK two \in Nat : two = 2 * p
  OBVIOUS
<1>6. PICK k \in Nat : k = (IF c = 1 THEN p ELSE 0) + r /\ k < two
  BY <1>1, <1>5
<1>7. w = h * two + k
  <2>1. PICK e \in Nat : e = IF c = 1 THEN p ELSE 0
    OBVIOUS
  <2>2. (2 * h + c) * p = h * (2 * p) + e
    <3>1. CASE c = 1
      <4>1. (2 * h + 1) * p = h * (2 * p) + p
        BY Z3
      <4> QED BY <2>1, <3>1, <4>1
    <3>2. CASE c = 0
      <4>1. (2 * h + 0) * p = h * (2 * p) + 0
        BY Z3
      <4> QED BY <2>1, <3>2, <4>1
    <3> QED BY <3>1, <3>2
  <2>3. full = h * two + e
    BY <1>1, <1>4, <1>5, <2>2, Zenon
  <2>4. PICK x \in Nat : x = h * two
    <3>1. h * two \in Nat
      BY Z3
    <3> QED BY <3>1
  <2>5. full = x + e /\ k = e + r
    BY <1>6, <2>1, <2>3, <2>4, Zenon
  <2> QED BY <1>1, <2>4, <2>5
<1>8. w % two = k
  BY <1>6, <1>7, RemainderIs
<1> QED BY <1>2, <1>3, <1>4, <1>5, <1>6, <1>8

IsLow(f, bits, n) ==
  f = [k \in 0 .. n |->
         IF k = 0 THEN 0 ELSE f[k - 1] + (IF k - 1 \in bits THEN Power[k - 1] ELSE 0)]

\* The lowest k bits of a word are its remainder.
LEMMA MaskedIs ==
  ASSUME NEW max \in Nat, NEW k \in 0 .. WordBits, MaskOf(max) = 0 .. k - 1, NEW w \in Words
  PROVE  Interval(max, w) = w % Power[k] /\ w \in Nat
<1>1. PICK n \in Nat : n = WordBits
  BY RandomNumbers
<1>2. PICK p \in [0 .. n -> Nat] :
        p = Power /\ p[0] = 1 /\ \A i \in 0 .. n - 1 : p[i + 1] = 2 * p[i]
  BY <1>1, PowersAre
<1>3. w \in Nat /\ k \in 0 .. n
  <2>1. PICK W \in Nat : W = Power[WordBits]
    BY <1>1, <1>2
  <2> QED BY <1>1, <2>1 DEF Words
<1>4. PICK bits : bits = Bits(w) \cap MaskOf(max)
  OBVIOUS
<1> DEFINE Bit(i) == IF i \in bits THEN p[i] ELSE 0
           step == [i \in 1 .. n |-> [x \in Nat |-> x + Bit(i - 1)]]
<1>5. step \in [1 .. n -> [Nat -> Nat]]
  OBVIOUS
<1>6. PICK f \in [0 .. n -> Nat] : IsFold(f, n, 0, step)
  <2> HIDE DEF step
  <2>0. 0 \in Nat
    OBVIOUS
  <2> QED BY <1>5, <2>0, FoldExists
<1>7. f[0] = 0 /\ \A i \in 1 .. n : f[i] = f[i - 1] + Bit(i - 1)
  <2>1. ASSUME NEW i \in 1 .. n PROVE f[i] = f[i - 1] + Bit(i - 1)
    <3>1. f[i] = step[i][f[i - 1]]
      BY <1>6 DEF IsFold
    <3>2. f[i - 1] \in Nat
      OBVIOUS
    <3>3. step[i] = [x \in Nat |-> x + Bit(i - 1)]
      OBVIOUS
    <3> HIDE DEF step
    <3> QED BY <3>1, <3>2, <3>3
  <2> QED BY <1>6, <2>1 DEF IsFold
<1>8. IsLow(f, bits, n)
  <2>1. \A i \in 0 .. n :
          f[i] = IF i = 0 THEN 0 ELSE f[i - 1] + (IF i - 1 \in bits THEN p[i - 1] ELSE 0)
    BY <1>7
  <2>2. f = [i \in 0 .. n |-> f[i]]
    OBVIOUS
  <2>3. f = [i \in 0 .. n |->
               IF i = 0 THEN 0 ELSE f[i - 1] + (IF i - 1 \in bits THEN p[i - 1] ELSE 0)]
    BY <2>1, <2>2
  <2> QED BY <1>2, <2>3, Zenon DEF IsLow
<1>9. PICK g : g = CHOOSE h : IsLow(h, bits, n)
  OBVIOUS
<1>10. NumberOf(bits) = g[n]
  BY <1>1, <1>9 DEF NumberOf, IsLow
<1>11. IsLow(g, bits, n)
  BY <1>8, <1>9
<1>12. g[0] = 0 /\ \A i \in 1 .. n : g[i] = g[i - 1] + Bit(i - 1)
  <2>1. g = [i \in 0 .. n |->
               IF i = 0 THEN 0 ELSE g[i - 1] + (IF i - 1 \in bits THEN p[i - 1] ELSE 0)]
    BY <1>2, <1>11, Zenon DEF IsLow
  <2> QED BY <2>1
<1> DEFINE Upto(i) == IF i <= k THEN i ELSE k
           T == {i \in 0 .. n : g[i] = w % p[Upto(i)]}
<1>13. 0 \in T
  <2>1. Upto(0) = 0 /\ w % 1 = 0
    BY <1>3, Z3
  <2> QED BY <1>2, <1>12, <2>1
<1>14. ASSUME NEW i \in 0 .. n - 1, i \in T PROVE i + 1 \in T
  <2>1. PICK j \in 1 .. n : j = i + 1 /\ j - 1 = i
    OBVIOUS
  <2>2. g[j] = g[i] + Bit(i)
    BY <1>12, <2>1
  <2>3. i \in bits <=> i <= k - 1 /\ (w \div p[i]) % 2 = 1
    <3>1. i \in Bits(w) <=> (w \div p[i]) % 2 = 1
      BY <1>1, <1>2 DEF Bits
    <3> QED BY <1>3, <1>4, <3>1
  <2>4. CASE i <= k - 1
    <3>1. Upto(i) = i /\ Upto(i + 1) = i + 1
      BY <1>3, <2>4
    <3>2. PICK q \in Nat : q = p[i] /\ q >= 1 /\ p[i + 1] = 2 * q
      <4>1. i \in 0 .. WordBits
        BY <1>1
      <4>2. Power[i] \in Nat /\ Power[i] >= 1
        BY <4>1, PowersDivide
      <4> QED BY <1>2, <4>2
    <3>3. w % (2 * q) = (w % q) + (IF (w \div q) % 2 = 1 THEN q ELSE 0)
      BY <1>3, <3>2, OneMoreBit
    <3>4. Bit(i) = IF (w \div q) % 2 = 1 THEN q ELSE 0
      BY <2>3, <2>4, <3>2
    <3>5. g[i] = w % q
      BY <1>14, <3>1, <3>2
    <3>6. g[j] = w % (2 * q)
      BY <2>2, <3>3, <3>4, <3>5, Zenon
    <3>7. j \in 0 .. n /\ p[Upto(j)] = 2 * q
      BY <2>1, <3>1, <3>2
    <3>8. j \in T
      BY <3>6, <3>7
    <3> QED BY <2>1, <3>8
  <2>5. CASE ~(i <= k - 1)
    <3>1. Upto(i) = k /\ Upto(i + 1) = k
      BY <1>3, <2>5
    <3>2. Bit(i) = 0
      BY <2>3, <2>5
    <3>3. g[i] = w % p[k]
      BY <1>14, <3>1
    <3>4. w % p[k] \in Nat
      <4>1. Power[k] \in Nat /\ Power[k] >= 1
        BY PowersDivide
      <4>2. PICK q \in Nat : q = p[k] /\ q >= 1
        BY <1>2, <4>1
      <4>3. w % q \in Nat
        BY <1>3, <4>2, Z3
      <4> QED BY <4>2, <4>3
    <3>5. g[j] = g[i]
      BY <2>2, <3>2, <3>3, <3>4
    <3>6. g[j] = w % p[Upto(j)] /\ j \in 0 .. n
      BY <2>1, <3>1, <3>3, <3>5
    <3>7. j \in T
      BY <3>6
    <3> QED BY <2>1, <3>7
  <2> QED BY <2>4, <2>5
<1>15. n \in T
  <2> HIDE DEF T
  <2>1. \A i \in 0 .. n : i \in T
    BY <1>13, <1>14, FirstNumbers
  <2> QED BY <2>1
<1>16. Upto(n) = k
  BY <1>3
<1>17. g[n] = w % p[k]
  BY <1>15, <1>16
<1> QED BY <1>2, <1>3, <1>4, <1>10, <1>17 DEF Interval

\* The words with one remainder.
WithRemainder(W, m, r) == {w \in 0 .. W - 1 : w % m = r}

\* As many words have one remainder as another, if the words are whole turns.
LEMMA TurnsAreFair ==
  ASSUME NEW m \in Nat, NEW k \in Nat, k < m, NEW W \in Nat, IsWholeTurns(W, m)
  PROVE  Cardinality(WithRemainder(W, m, k)) = Cardinality(WithRemainder(W, m, 0))
<1> DEFINE Of(r) == {w \in 0 .. W - 1 : w % m = r}
           f == [w \in Of(0) |-> w + k]
<1>0. PICK turns \in Nat : W = turns * m
  BY DEF IsWholeTurns
<1>1. \A r \in 0 .. m - 1 : IsFiniteSet(Of(r))
  <2>1. 0 \in Int /\ W - 1 \in Int
    OBVIOUS
  <2>2. IsFiniteSet(0 .. W - 1)
    BY <2>1, FS_Interval
  <2> QED BY <2>2, FS_Subset
<1>2. ASSUME NEW w \in Of(0) PROVE w + k \in Of(k)
  <2>1. PICK q \in Nat : w = q * m + 0
    <3>1. w \in Nat /\ w % m = 0 /\ 0 \in Nat /\ 0 < m
      OBVIOUS
    <3> QED BY <3>1, RemainderIs
  <2>2. PICK full \in Nat : full = q * m
    <3>1. q * m \in Nat
      BY Z3
    <3> QED BY <3>1
  <2>3. w = full /\ full < W
    BY <2>1, <2>2
  <2>4. q < turns
    <3> SUFFICES ASSUME q >= turns PROVE FALSE
      OBVIOUS
    <3>1. q * m >= turns * m
      BY Z3
    <3> QED BY <1>0, <2>2, <2>3, <3>1
  <2>5. full + m <= W
    <3>1. (q + 1) * m <= turns * m /\ (q + 1) * m = q * m + m
      BY <2>4, Z3
    <3> QED BY <1>0, <2>2, <3>1
  <2>6. w + k \in Nat /\ w + k < W /\ w + k = q * m + k
    BY <2>2, <2>3, <2>5
  <2>7. (w + k) % m = k
    <3>1. PICK x \in Nat : x = w + k
      BY <2>6
    <3>2. \E p \in Nat : x = p * m + k
      BY <2>6, <3>1
    <3>3. x % m = k
      BY <3>2, RemainderIs
    <3> QED BY <3>1, <3>3
  <2> QED BY <2>6, <2>7
<1>3. \A x, y \in Of(0) : f[x] = f[y] => x = y
  OBVIOUS
<1>4. ASSUME NEW z \in Of(k) PROVE \E x \in Of(0) : f[x] = z
  <2>1. PICK q \in Nat : z = q * m + k
    <3>1. z \in Nat /\ z % m = k
      OBVIOUS
    <3> QED BY <3>1, RemainderIs
  <2>2. PICK full \in Nat : full = q * m
    <3>1. q * m \in Nat
      BY Z3
    <3> QED BY <3>1
  <2>3. full \in 0 .. W - 1 /\ full + k = z
    BY <2>1, <2>2
  <2>4. full % m = 0
    <3>1. 0 \in Nat /\ 0 < m /\ full = q * m + 0
      BY <2>2
    <3> QED BY <3>1, RemainderIs
  <2>5. full \in Of(0)
    BY <2>3, <2>4
  <2> QED BY <2>3, <2>5
<1>5. f \in [Of(0) -> Of(k)]
  BY <1>2
<1>6. IsFiniteSet(Of(0)) /\ IsFiniteSet(Of(k))
  BY <1>1
<1> HIDE DEF Of, f
<1>7. Cardinality(Of(k)) = Cardinality(Of(0))
  BY <1>3, <1>4, <1>5, <1>6, OneToOne
<1> QED BY <1>7 DEF Of, WithRemainder

LEMMA RangesAreFair ==
  ASSUME NEW max \in Nat, max < Power[WordBits]
  PROVE  FairRange(max)
<1>1. PICK b \in 0 .. WordBits : MaskOf(max) = 0 .. b - 1 /\ Power[b] > max
  BY MaskIs
<1>2. PICK m \in Nat : m = Power[b] /\ m > max
  BY <1>1, PowersDivide
<1>3. PICK turns \in Nat : Power[WordBits] = turns * m
  BY <1>2, PowersDivide
<1>4. PICK W \in Nat : W = Power[WordBits] /\ W = turns * m
  <2>1. turns * m \in Nat
    BY Z3
  <2> QED BY <1>3, <2>1
<1>6. \A w \in Words : Interval(max, w) = w % m
  BY <1>1, <1>2, MaskedIs
<1>7. Words = 0 .. W - 1
  BY <1>4 DEF Words
<1>8. \A k \in 0 .. max : {w \in Words : Interval(max, w) = k} = WithRemainder(W, m, k)
  BY <1>6, <1>7 DEF WithRemainder
<1>9. \A k \in 0 .. max :
        Cardinality(WithRemainder(W, m, k)) = Cardinality(WithRemainder(W, m, 0))
  <2> TAKE k \in 0 .. max
  <2>1. k \in Nat /\ k < m
    BY <1>2
  <2>2. IsWholeTurns(W, m)
    BY <1>4 DEF IsWholeTurns
  <2> QED BY <2>1, <2>2, TurnsAreFair
<1>10. 0 \in 0 .. max
  OBVIOUS
<1>11. Cardinality(WithRemainder(W, m, 0)) > 0
  <2>1. turns >= 1
    <3>1. CASE turns = 0
      <4>1. 0 * m = 0
        OBVIOUS
      <4> QED BY <1>4, <3>1, <4>1
    <3> QED BY <3>1
  <2>2. W >= 1
    <3>1. turns * m >= 1
      BY <1>2, <2>1, Z3
    <3> QED BY <1>4, <3>1
  <2>3. 0 \in WithRemainder(W, m, 0)
    <3>1. 0 % m = 0
      BY <1>2, Z3
    <3> QED BY <2>2, <3>1 DEF WithRemainder
  <2>4. IsFiniteSet(WithRemainder(W, m, 0))
    <3>1. 0 \in Int /\ W - 1 \in Int
      OBVIOUS
    <3>2. IsFiniteSet(0 .. W - 1)
      BY <3>1, FS_Interval
    <3> QED BY <3>2, FS_Subset DEF WithRemainder
  <2>5. PICK c \in Nat : c = Cardinality(WithRemainder(W, m, 0))
    BY <2>4, FS_CardinalityType
  <2>6. c # 0
    BY <2>3, <2>4, <2>5, FS_EmptySet
  <2> QED BY <2>5, <2>6
<1> QED BY <1>8, <1>9, <1>10, <1>11 DEF FairRange

-----------------------------------------------------------------------------
(* The shuffle, undone. *)
\* The state the undoing starts from, and what makes a function the undoing.
State0 == [arr |-> Identity, picks |-> <<>>]

IsUndo(f, final, n) ==
  f = [k \in 0 .. n |-> IF k = 0 THEN State0 ELSE Undone(final, f[k - 1], Population - k)]

\* The undoing, step by step.
LEMMA UndoIs ==
  ASSUME NEW final, NEW f, f = Undo(final)
  PROVE  /\ f[0] = State0
         /\ \A k \in 0 .. Population - 2 : f[k + 1] = Undone(final, f[k], Population - (k + 1))
<1>1. PICK n \in Nat : n = Population - 1
  BY RandomNumbers
<1> DEFINE T == {k \in 0 .. n : \E g : IsUndo(g, final, k)}
<1>3. 0 \in T
  <2> DEFINE g == [k \in 0 .. 0 |-> State0]
  <2>1. g = [k \in 0 .. 0 |-> IF k = 0 THEN State0 ELSE Undone(final, g[k - 1], Population - k)]
    OBVIOUS
  <2>2. IsUndo(g, final, 0)
    <3> HIDE DEF g
    <3> QED BY <2>1 DEF IsUndo
  <2> QED BY <2>2
<1>4. ASSUME NEW k \in 0 .. n - 1, k \in T PROVE k + 1 \in T
  <2>1. PICK f0 : IsUndo(f0, final, k)
    BY <1>4
  <2>2. PICK v : v = Undone(final, f0[k], Population - (k + 1))
    OBVIOUS
  <2> DEFINE g == [i \in 0 .. k + 1 |-> IF i = k + 1 THEN v ELSE f0[i]]
  <2>3. g[k + 1] = v /\ \A i \in 0 .. k : g[i] = f0[i]
    OBVIOUS
  <2>4. g = [i \in 0 .. k + 1 |-> g[i]]
    OBVIOUS
  <2> HIDE DEF g
  <2>5. \A i \in 0 .. k : f0[i] = IF i = 0 THEN State0 ELSE Undone(final, f0[i - 1], Population - i)
    BY <2>1 DEF IsUndo
  <2>6. ASSUME NEW i \in 0 .. k + 1
        PROVE  g[i] = IF i = 0 THEN State0 ELSE Undone(final, g[i - 1], Population - i)
    <3>1. CASE i = k + 1
      <4>1. i # 0 /\ i - 1 = k /\ k \in 0 .. k
        BY <3>1
      <4>2. g[i - 1] = f0[k]
        BY <2>3, <4>1
      <4> QED BY <2>2, <2>3, <3>1, <4>1, <4>2
    <3>2. CASE i = 0
      <4>1. 0 \in 0 .. k
        OBVIOUS
      <4> QED BY <2>3, <2>5, <3>2, <4>1
    <3>3. CASE i \in 1 .. k
      <4>1. i \in 0 .. k /\ i - 1 \in 0 .. k /\ i # 0
        BY <3>3
      <4>2. g[i] = f0[i] /\ g[i - 1] = f0[i - 1]
        BY <2>3, <4>1
      <4> QED BY <2>5, <4>1, <4>2
    <3> QED BY <3>1, <3>2, <3>3
  <2>7. IsUndo(g, final, k + 1)
    BY <2>4, <2>6 DEF IsUndo
  <2>8. k + 1 \in 0 .. n
    OBVIOUS
  <2> QED BY <2>7, <2>8
<1>5. n \in T
  <2> HIDE DEF T
  <2>1. \A k \in 0 .. n : k \in T
    BY <1>3, <1>4, FirstNumbers
  <2> QED BY <2>1
<1>6. f = CHOOSE g : IsUndo(g, final, n)
  BY <1>1 DEF Undo, IsUndo, State0
<1>7. IsUndo(f, final, n)
  BY <1>5, <1>6
<1>8. f = [k \in 0 .. n |-> IF k = 0 THEN State0 ELSE Undone(final, f[k - 1], Population - k)]
  BY <1>7 DEF IsUndo
<1>9. f[0] = State0
  BY <1>8
<1>10. ASSUME NEW k \in 0 .. Population - 2
       PROVE  f[k + 1] = Undone(final, f[k], Population - (k + 1))
  <2>1. PICK j \in 0 .. n : j = k + 1 /\ j - 1 = k /\ j # 0
    <3>1. k + 1 \in 0 .. n /\ (k + 1) - 1 = k /\ k + 1 # 0
      BY <1>1, RandomNumbers
    <3> QED BY <3>1
  <2>2. f[j] = Undone(final, f[j - 1], Population - j)
    BY <1>8, <2>1
  <2> QED BY <2>1, <2>2
<1> QED BY <1>9, <1>10

\* What a step leaves behind it does not matter to the steps before.
LEMMA UndoAgrees ==
  ASSUME NEW x, NEW y, NEW m \in 0 .. Population - 1,
         \A i \in Population - m + 1 .. Population : x[i] = y[i]
  PROVE  Undo(x)[m] = Undo(y)[m]
<1>1. PICK n \in Nat : n = Population /\ m \in 0 .. n - 1
  BY RandomNumbers
<1>2. PICK f : f = Undo(x)
  OBVIOUS
<1>3. PICK g : g = Undo(y)
  OBVIOUS
<1>4. /\ f[0] = State0
      /\ \A k \in 0 .. n - 2 : f[k + 1] = Undone(x, f[k], n - (k + 1))
  BY <1>1, <1>2, UndoIs
<1>5. /\ g[0] = State0
      /\ \A k \in 0 .. n - 2 : g[k + 1] = Undone(y, g[k], n - (k + 1))
  BY <1>1, <1>3, UndoIs
<1> DEFINE T == {k \in 0 .. m : f[k] = g[k]}
<1>6. 0 \in T
  BY <1>1, <1>4, <1>5
<1>7. ASSUME NEW k \in 0 .. m - 1, k \in T PROVE k + 1 \in T
  <2>1. k \in 0 .. n - 2 /\ k + 1 \in 0 .. m /\ f[k] = g[k]
    BY <1>1, <1>7
  <2>2. PICK i \in Nat : i = n - (k + 1) /\ i + 1 \in Population - m + 1 .. Population
    <3>1. n - (k + 1) \in Nat /\ (n - (k + 1)) + 1 \in Population - m + 1 .. Population
      BY <1>1, <2>1
    <3> QED BY <3>1
  <2>3. x[i + 1] = y[i + 1]
    BY <2>2
  <2>4. Undone(x, f[k], i) = Undone(y, f[k], i)
    BY <2>3 DEF Undone
  <2>5. f[k + 1] = Undone(x, f[k], i)
    BY <1>4, <2>1, <2>2
  <2>6. g[k + 1] = Undone(y, g[k], i)
    BY <1>5, <2>1, <2>2
  <2> QED BY <2>1, <2>4, <2>5, <2>6
<1>8. m \in T
  <2> HIDE DEF T
  <2>1. m \in Nat
    BY <1>1
  <2>2. \A k \in 0 .. m : k \in T
    BY <1>6, <1>7, <2>1, FirstNumbers
  <2> QED BY <2>1, <2>2
<1> QED BY <1>2, <1>3, <1>8

-----------------------------------------------------------------------------
(***************************************************************************)
(* ShuffleIsFair as it is inductive: undoing the permutation so far leads  *)
(* back through the picks so far.                                          *)
(***************************************************************************)
ShuffleInv ==
  /\ perm \in [1 .. Population -> Int]
  /\ \A i, j \in 1 .. Population : perm[i] = perm[j] => i = j
  /\ swapAt \in 0 .. Population - 1
  /\ Undo(perm)[Population - 1 - swapAt] = [arr |-> perm, picks |-> picks]

NoneTwice(f, n) == \A i, j \in 1 .. n : f[i] = f[j] => i = j

\* A swap only moves two elements.
LEMMA SwapIs ==
  ASSUME NEW n \in Nat, NEW arr \in [1 .. n -> Int], NEW a \in 1 .. n, NEW b \in 1 .. n,
         NoneTwice(arr, n)
  PROVE  /\ Swap(arr, a, b) \in [1 .. n -> Int] /\ NoneTwice(Swap(arr, a, b), n)
         /\ Swap(arr, a, b)[b] = arr[a]
         /\ \A i \in 1 .. n : i # a /\ i # b => Swap(arr, a, b)[i] = arr[i]
<1>1. PICK s \in [1 .. n -> Int] : s = Swap(arr, a, b)
  BY DEF Swap
<1>2. \A i \in 1 .. n : s[i] = IF i = b THEN arr[a] ELSE IF i = a THEN arr[b] ELSE arr[i]
  BY <1>1 DEF Swap
<1>3. ASSUME NEW i \in 1 .. n, NEW j \in 1 .. n, s[i] = s[j] PROVE i = j
  BY <1>2, <1>3 DEF NoneTwice
<1>4. NoneTwice(s, n)
  BY <1>3 DEF NoneTwice
<1> QED BY <1>1, <1>2, <1>4

\* A step puts the picked element in its last place, where undoing finds it.
LEMMA ShuffleKeeps ==
  ASSUME ShuffleInv, Shuffle
  PROVE  ShuffleInv'
<1>1. PICK word \in Words :
        LET j == Interval(swapAt, word)
        IN  IF j > swapAt
            THEN UNCHANGED shuffling
            ELSE /\ perm' = Swap(perm, j + 1, swapAt + 1)
                 /\ picks' = Append(picks, j)
                 /\ swapAt' = swapAt - 1
  BY DEF Shuffle
<1>2. PICK n \in Nat : n = Population
  BY RandomNumbers
<1>3. PICK at \in 0 .. n - 1 : at = swapAt /\ at > 0
  BY <1>2 DEF ShuffleInv, Shuffle
<1>4. Interval(at, word) \in Nat
  <2>1. at \in Nat /\ at < Power[WordBits]
    <3>1. PICK W \in Nat : W = Power[WordBits]
      BY RandomNumbers, PowersDivide
    <3> QED BY <1>2, <1>3, <3>1, RandomNumbers
  <2>2. PICK b \in 0 .. WordBits : MaskOf(at) = 0 .. b - 1 /\ Power[b] > at
    BY <2>1, MaskIs
  <2>3. PICK m \in Nat : m = Power[b] /\ m >= 1
    BY PowersDivide
  <2>4. word \in Nat /\ Interval(at, word) = word % m
    BY <2>1, <2>2, <2>3, MaskedIs
  <2>6. word % m \in Nat
    BY <2>3, <2>4, Z3
  <2> QED BY <2>4, <2>6
<1>5. PICK j \in Nat : j = Interval(swapAt, word)
  BY <1>3, <1>4
<1>6. CASE j > at
  <2>1. UNCHANGED <<perm, swapAt, picks>>
    BY <1>1, <1>3, <1>5, <1>6 DEF shuffling
  <2> QED BY <2>1 DEF ShuffleInv
<1>7. CASE ~(j > at)
  <2>1. /\ perm' = Swap(perm, j + 1, at + 1) /\ picks' = Append(picks, j) /\ swapAt' = at - 1
    BY <1>1, <1>3, <1>5, <1>7
  <2>2. j + 1 \in 1 .. n /\ at + 1 \in 1 .. n /\ j + 1 \in 1 .. at + 1
    BY <1>3, <1>7
  <2>3. /\ perm \in [1 .. n -> Int]
        /\ \A i, k \in 1 .. n : perm[i] = perm[k] => i = k
        /\ Undo(perm)[n - 1 - at] = [arr |-> perm, picks |-> picks]
    BY <1>2, <1>3 DEF ShuffleInv
  <2>4. /\ perm' \in [1 .. n -> Int]
        /\ \A i, k \in 1 .. n : perm'[i] = perm'[k] => i = k
        /\ perm'[at + 1] = perm[j + 1]
        /\ \A i \in 1 .. n : i # j + 1 /\ i # at + 1 => perm'[i] = perm[i]
    <3>1. PICK arr \in [1 .. n -> Int] : arr = perm
      BY <2>3
    <3>2. PICK a \in 1 .. n, b \in 1 .. n : a = j + 1 /\ b = at + 1
      BY <2>2
    <3>3. PICK swapped : swapped = Swap(arr, a, b)
      OBVIOUS
    <3>4. NoneTwice(arr, n)
      BY <2>3, <3>1 DEF NoneTwice
    <3>5. /\ swapped \in [1 .. n -> Int] /\ NoneTwice(swapped, n)
          /\ swapped[b] = arr[a]
          /\ \A i \in 1 .. n : i # a /\ i # b => swapped[i] = arr[i]
      <4>1. n \in Nat /\ arr \in [1 .. n -> Int] /\ a \in 1 .. n /\ b \in 1 .. n
        OBVIOUS
      <4>2. Swap(arr, a, b) \in [1 .. n -> Int] /\ NoneTwice(Swap(arr, a, b), n)
        BY ONLY <3>4, <4>1, SwapIs
      <4>3. /\ Swap(arr, a, b)[b] = arr[a]
            /\ \A i \in 1 .. n : i # a /\ i # b => Swap(arr, a, b)[i] = arr[i]
        BY ONLY <3>4, <4>1, SwapIs
      <4> QED BY <3>3, <4>2, <4>3
    <3>6. perm' = swapped
      BY <2>1, <3>1, <3>2, <3>3
    <3> QED BY <3>1, <3>2, <3>5, <3>6 DEF NoneTwice
  <2>5. PICK m \in 0 .. n - 2 : m = n - 1 - at /\ m + 1 = n - 1 - (at - 1) /\ n - (m + 1) = at
    <3>1. /\ n - 1 - at \in 0 .. n - 2 /\ (n - 1 - at) + 1 = n - 1 - (at - 1)
          /\ n - ((n - 1 - at) + 1) = at
      BY <1>3
    <3> QED BY <3>1
  <2>6. Undo(perm')[m] = Undo(perm)[m]
    <3>1. m \in 0 .. Population - 1
      BY <1>2, <2>5
    <3>2. \A i \in Population - m + 1 .. Population : perm'[i] = perm[i]
      <4> TAKE i \in Population - m + 1 .. Population
      <4>1. i \in 1 .. n /\ i # j + 1 /\ i # at + 1
        BY <1>2, <1>3, <2>2, <2>5
      <4> QED BY <2>4, <4>1
    <3>3. PICK x : x = perm'
      OBVIOUS
    <3>4. PICK y : y = perm
      OBVIOUS
    <3>5. \A i \in Population - m + 1 .. Population : x[i] = y[i]
      BY <3>2, <3>3, <3>4
    <3>6. Undo(x)[m] = Undo(y)[m]
      BY <3>1, <3>5, UndoAgrees
    <3> QED BY <3>3, <3>4, <3>6
  <2>7. PICK state : state = [arr |-> perm, picks |-> picks]
    OBVIOUS
  <2>8. Undo(perm')[m + 1] = Undone(perm', state, at)
    <3>1. m \in 0 .. Population - 2
      BY <1>2, <2>5
    <3>2. PICK x : x = perm'
      OBVIOUS
    <3>3. PICK f : f = Undo(x)
      OBVIOUS
    <3>4. f[m + 1] = Undone(x, f[m], Population - (m + 1))
      BY <3>1, <3>3, UndoIs
    <3>5. f[m] = state
      BY <2>3, <2>5, <2>6, <2>7, <3>2, <3>3
    <3> QED BY <1>2, <2>5, <3>2, <3>3, <3>4, <3>5
  <2>9. (CHOOSE k \in 1 .. at + 1 : state.arr[k] = perm'[at + 1]) = j + 1
    <3>1. \A k \in 1 .. at + 1 : state.arr[k] = perm'[at + 1] <=> k = j + 1
      <4> TAKE k \in 1 .. at + 1
      <4>1. k \in 1 .. n
        BY <1>3
      <4> QED BY <2>2, <2>3, <2>4, <2>7, <4>1
    <3> QED BY <2>2, <3>1
  <2>10. Undone(perm', state, at) = [arr |-> perm', picks |-> picks']
    <3>1. (j + 1) - 1 = j
      OBVIOUS
    <3>2. Undone(perm', state, at) = [arr |-> Swap(state.arr, j + 1, at + 1),
                                      picks |-> Append(state.picks, (j + 1) - 1)]
      BY <2>9 DEF Undone
    <3> QED BY <2>1, <2>7, <3>1, <3>2
  <2>11. swapAt' \in 0 .. n - 1 /\ n - 1 - swapAt' = m + 1
    BY <1>3, <2>1, <2>5
  <2> QED BY <1>2, <2>4, <2>8, <2>10, <2>11 DEF ShuffleInv
<1> QED BY <1>6, <1>7

LEMMA ShuffleInvariant == RandomSpec => []ShuffleInv
<1>1. RandomInit => ShuffleInv
  <2> SUFFICES ASSUME RandomInit PROVE ShuffleInv
    OBVIOUS
  <2>1. perm = Identity /\ swapAt = Population - 1 /\ picks = <<>>
    BY DEF RandomInit
  <2>2. PICK n \in Nat : n = Population /\ n >= 1
    BY RandomNumbers
  <2>3. /\ perm \in [1 .. n -> Int]
        /\ \A i, j \in 1 .. n : perm[i] = perm[j] => i = j
    BY <2>1, <2>2 DEF Identity
  <2>4. Population - 1 - swapAt = 0 /\ swapAt \in 0 .. Population - 1
    BY <2>1, <2>2
  <2>5. Undo(perm)[0] = State0
    BY UndoIs
  <2> QED BY <2>1, <2>2, <2>3, <2>4, <2>5 DEF ShuffleInv, State0
<1>2. ShuffleInv /\ [RandomNext]_randomVars => ShuffleInv'
  <2> SUFFICES ASSUME ShuffleInv, [RandomNext]_randomVars PROVE ShuffleInv'
    OBVIOUS
  <2>1. CASE Shuffle
    BY <2>1, ShuffleKeeps
  <2>2. CASE Gauss \/ NextU32 \/ NextU64 \/ StandardNormal \/ RandInt \/ UNCHANGED randomVars
    <3>1. UNCHANGED <<perm, swapAt, picks>>
      BY <2>2 DEF Gauss, NextU32, NextU64, StandardNormal, RandInt, randomVars, shuffling
    <3> QED BY <3>1 DEF ShuffleInv
  <2> QED BY <2>1, <2>2 DEF RandomNext
<1> QED BY <1>1, <1>2, PTL DEF RandomSpec

\* A first part of a permutation has no element twice.
LEMMA ChoicesDiffer ==
  ASSUME ShuffleInv, NEW size \in 1 .. Population
  PROVE  Cardinality(Range(Choice(size))) = size
<1>1. PICK n \in Nat : n = Population /\ size \in 1 .. n
  BY RandomNumbers
<1>2. /\ perm \in [1 .. n -> Int]
      /\ \A i, j \in 1 .. n : perm[i] = perm[j] => i = j
  BY <1>1 DEF ShuffleInv
<1>3. PICK chosen : chosen = Choice(size)
  OBVIOUS
<1>4. chosen = [i \in 1 .. size |-> perm[i]]
  <2>1. SubSeq(perm, 1, size) = [i \in 1 .. size - 1 + 1 |-> perm[1 + i - 1]]
    OBVIOUS
  <2>2. size - 1 + 1 = size /\ \A i \in 1 .. size : 1 + i - 1 = i
    OBVIOUS
  <2> QED BY <1>3, <2>1, <2>2 DEF Choice
<1>5. PICK T : T = Range(chosen)
  OBVIOUS
<1>6. chosen \in [1 .. size -> T] /\ \A z \in T : \E i \in 1 .. size : chosen[i] = z
  BY <1>4, <1>5 DEF Range
<1>7. \A i, j \in 1 .. size : chosen[i] = chosen[j] => i = j
  BY <1>1, <1>2, <1>4
<1>8. PICK m \in Nat : m = size
  OBVIOUS
<1>9. IsFiniteSet(1 .. m) /\ Cardinality(1 .. m) = m
  <2>1. 1 \in Int /\ m \in Int
    OBVIOUS
  <2>2. IsFiniteSet(1 .. m) /\ Cardinality(1 .. m) = IF 1 > m THEN 0 ELSE m - 1 + 1
    BY <2>1, FS_Interval
  <2>3. (IF 1 > m THEN 0 ELSE m - 1 + 1) = m
    OBVIOUS
  <2> QED BY <2>2, <2>3
<1>10. Cardinality(T) = Cardinality(1 .. m)
  BY <1>6, <1>7, <1>8, <1>9, OneToOne
<1> QED BY <1>3, <1>5, <1>8, <1>9, <1>10

(***************************************************************************)
(* The shuffle is fair, for words of up to 32 bits and every population:   *)
(* masked rejection gives each number of any range as many words as any    *)
(* other, different picks lead to different permutations, and a sample has *)
(* no element twice (numpy_random.cpp:281-309, 345-380).                   *)
(***************************************************************************)
THEOREM ShufflesAreFair == RandomSpec => []ShuffleIsFair
<1>1. ShuffleInv => ShuffleIsFair
  <2> SUFFICES ASSUME ShuffleInv PROVE ShuffleIsFair
    OBVIOUS
  <2>1. RangesFair
    <3>1. PICK W \in Nat : W = Power[WordBits]
      BY RandomNumbers, PowersDivide
    <3>2. \A max \in Words : max \in Nat /\ max < Power[WordBits]
      BY <3>1 DEF Words
    <3> QED BY <3>2, RangesAreFair DEF RangesFair
  <2>2. ASSUME swapAt = 0 PROVE Undo(perm)[Population - 1].picks = picks
    <3>1. Population - 1 - swapAt = Population - 1
      BY <2>2, RandomNumbers
    <3>2. Undo(perm)[Population - 1] = [arr |-> perm, picks |-> picks]
      BY <3>1 DEF ShuffleInv
    <3> QED BY <3>2
  <2>3. \A size \in 1 .. Population : Cardinality(Range(Choice(size))) = size
    BY ChoicesDiffer
  <2> QED BY <2>1, <2>2, <2>3 DEF ShuffleIsFair
<1> QED BY <1>1, ShuffleInvariant, PTL

-----------------------------------------------------------------------------
(* The calibration file: how long its parts are. *)

\* The number of elements is the product of the shape.
IsProduct(f, shape, n) == f = [k \in 0 .. n |-> IF k = 0 THEN 1 ELSE f[k - 1] * shape[k]]

\* An array has a number of elements.
LEMMA ElementsAre ==
  ASSUME NEW shape \in Seq(Nat)
  PROVE  Elements(shape) \in Nat
<1>1. PICK n \in Nat : n = Len(shape) /\ shape \in [1 .. n -> Nat]
  BY LenProperties
<1> DEFINE step == [i \in 1 .. n |-> [x \in Nat |-> x * shape[i]]]
<1>2. step \in [1 .. n -> [Nat -> Nat]]
  <2>1. ASSUME NEW i \in 1 .. n, NEW x \in Nat PROVE x * shape[i] \in Nat
    <3>1. PICK y \in Nat : y = shape[i]
      BY <1>1
    <3>2. x * y \in Nat
      BY Z3
    <3> QED BY <3>1, <3>2
  <2> QED BY <2>1
<1>3. PICK f \in [0 .. n -> Nat] : IsFold(f, n, 1, step)
  <2> HIDE DEF step
  <2>0. 1 \in Nat
    OBVIOUS
  <2> QED BY <1>2, <2>0, FoldExists
<1>4. f[0] = 1 /\ \A i \in 1 .. n : f[i] = f[i - 1] * shape[i]
  <2>1. ASSUME NEW i \in 1 .. n PROVE f[i] = f[i - 1] * shape[i]
    <3>1. f[i] = step[i][f[i - 1]]
      BY <1>3 DEF IsFold
    <3>2. f[i - 1] \in Nat
      OBVIOUS
    <3>3. step[i] = [x \in Nat |-> x * shape[i]]
      OBVIOUS
    <3> QED BY <3>1, <3>2, <3>3
  <2> QED BY <1>3, <2>1 DEF IsFold
<1>5. IsProduct(f, shape, n)
  <2>1. f = [k \in 0 .. n |-> f[k]]
    OBVIOUS
  <2>2. \A k \in 0 .. n : f[k] = IF k = 0 THEN 1 ELSE f[k - 1] * shape[k]
    BY <1>4
  <2> QED BY <2>1, <2>2 DEF IsProduct
<1>6. PICK g : g = CHOOSE h : IsProduct(h, shape, n)
  OBVIOUS
<1>7. Elements(shape) = g[n]
  BY <1>1, <1>6 DEF Elements, IsProduct
<1>8. g = [k \in 0 .. n |-> IF k = 0 THEN 1 ELSE g[k - 1] * shape[k]]
  BY <1>5, <1>6 DEF IsProduct
<1> DEFINE T == {k \in 0 .. n : g[k] \in Nat}
<1>9. 0 \in T
  BY <1>8
<1>10. ASSUME NEW k \in 0 .. n - 1, k \in T PROVE k + 1 \in T
  <2>1. PICK j \in 1 .. n : j = k + 1 /\ j - 1 = k /\ j # 0
    OBVIOUS
  <2>2. g[j] = g[j - 1] * shape[j]
    BY <1>8, <2>1
  <2>3. PICK x \in Nat, y \in Nat : x = g[k] /\ y = shape[j]
    BY <1>1, <1>10
  <2>4. x * y \in Nat
    BY Z3
  <2> QED BY <2>1, <2>2, <2>3, <2>4
<1> HIDE DEF T
<1>11. \A k \in 0 .. n : k \in T
  BY <1>9, <1>10, FirstNumbers
<1> QED BY <1>7, <1>11 DEF T

\* No .npy is more than its deflated length can stand for.
Plausible(a, w) == w.deflated => NpyLen(a) <= StoredLen(a, w) * 1032 + 1024

\* The lengths a file is made of.
LEMMA Lengths ==
  ASSUME NEW a \in Arrays, NEW w \in Layouts
  PROVE  /\ NameLen(a) \in Nat /\ HeaderLen(a) \in Nat /\ w.local \in Nat /\ CdExtra(w) \in Nat
         /\ DataLen(a) \in Nat
         /\ NpyLen(a) \in Nat
         /\ NpyLen(a) = 10 + HeaderLen(a) + DataLen(a)
         /\ StoredLen(a, w) \in Nat /\ StoredLen(a, w) >= 1
         /\ Plausible(a, w)
<1>1. a.width \in Nat /\ a.text \in Nat /\ a.shape \in Seq(Nat) /\ a.key \in DOMAIN KeyLen
  BY NpzAssumption
<1>2. KeyLen[a.key] \in Nat
  BY <1>1, NpzAssumption
<1>3. w.local \in Nat /\ CdExtra(w) \in Nat
  BY NpzAssumption DEF CdExtra
<1>4. PICK d \in Nat : d = DataLen(a)
  <2>1. PICK x \in Nat, y \in Nat : x = Elements(a.shape) /\ y = a.width
    BY <1>1, ElementsAre
  <2>2. x * y \in Nat
    BY Z3
  <2> QED BY <2>1, <2>2 DEF DataLen
<1>5. PICK h \in Nat : h = HeaderLen(a)
  <2>1. PICK t \in Nat : t = a.text
    BY <1>1
  <2>2. PICK b \in Nat : b = 10 + t + 1
    OBVIOUS
  <2>3. PICK r \in Nat : r = b % 64 /\ r < 64
    <3>1. b % 64 \in Nat /\ b % 64 < 64
      BY Z3
    <3> QED BY <3>1
  <2>4. PICK p \in Nat : p = 64 - r
    BY <2>3
  <2>5. p % 64 \in Nat
    BY Z3
  <2>6. HeaderLen(a) = t + (p % 64) + 1
    BY <2>1, <2>2, <2>3, <2>4 DEF HeaderLen
  <2> QED BY <2>5, <2>6
<1>6. NpyLen(a) = 10 + h + d
  BY <1>4, <1>5 DEF NpyLen
<1>7. PICK l \in Nat : l = NpyLen(a) /\ l >= 10
  BY <1>6
<1>8. PICK q \in Nat : q = l \div 2 /\ q >= 1 /\ l <= q * 1032 + 1024
  <2>1. l \div 2 \in Nat /\ l \div 2 >= 1 /\ l <= 2 * (l \div 2) + 1
    BY <1>7, Z3
  <2> QED BY <2>1
<1>9. NameLen(a) \in Nat
  BY <1>2 DEF NameLen
<1>10. StoredLen(a, w) \in Nat /\ StoredLen(a, w) >= 1
  BY <1>7, <1>8 DEF StoredLen
<1>11. Plausible(a, w)
  BY <1>7, <1>8 DEF StoredLen, Plausible
<1> QED BY <1>3, <1>4, <1>5, <1>6, <1>7, <1>9, <1>10, <1>11

\* What most of the proofs need of them.
LEMMA Sizes ==
  ASSUME NEW a \in Arrays, NEW w \in Layouts
  PROVE  /\ NameLen(a) \in Nat /\ w.local \in Nat /\ CdExtra(w) \in Nat
         /\ StoredLen(a, w) \in Nat /\ StoredLen(a, w) >= 1
BY Lengths

-----------------------------------------------------------------------------
(* Where the records are. *)

\* What grows by k at every step.
LEMMA Rising ==
  ASSUME NEW n \in Nat, NEW f \in [1 .. n + 1 -> Nat], NEW k \in Nat,
         \A i \in 1 .. n : f[i + 1] >= f[i] + k
  PROVE  \A i, j \in 1 .. n + 1 : i < j => f[i] + k <= f[j]
<1> SUFFICES ASSUME NEW i \in 1 .. n + 1 PROVE \A j \in 1 .. n + 1 : i < j => f[i] + k <= f[j]
  OBVIOUS
<1>1. PICK m \in Nat : m = n + 1 - i
  OBVIOUS
<1> DEFINE T == {d \in 0 .. m : d > 0 => f[i] + k <= f[i + d]}
<1>2. 0 \in T
  OBVIOUS
<1>3. ASSUME NEW d \in 0 .. m - 1, d \in T PROVE d + 1 \in T
  <2>1. PICK h \in 1 .. n : h = i + d /\ h + 1 = i + (d + 1)
    <3>1. i + d \in 1 .. n /\ (i + d) + 1 = i + (d + 1)
      BY <1>1
    <3> QED BY <3>1
  <2>2. f[h + 1] >= f[h] + k /\ f[h] \in Nat /\ f[h + 1] \in Nat /\ f[i] \in Nat
    BY <2>1
  <2>3. d > 0 => f[i] + k <= f[h]
    BY <1>3, <2>1
  <2>4. d = 0 => h = i
    BY <2>1
  <2>5. f[i] + k <= f[h + 1]
    BY <2>2, <2>3, <2>4
  <2>6. d + 1 \in 0 .. m
    BY <1>1
  <2> QED BY <2>1, <2>5, <2>6
<1>4. \A d \in 0 .. m : d \in T
  <2> HIDE DEF T
  <2> QED BY <1>2, <1>3, FirstNumbers
<1>5. ASSUME NEW j \in 1 .. n + 1, i < j PROVE f[i] + k <= f[j]
  <2>1. PICK d \in 0 .. m : d = j - i /\ d > 0 /\ i + d = j
    <3>1. j - i \in 0 .. m /\ j - i > 0 /\ i + (j - i) = j
      BY <1>1, <1>5
    <3> QED BY <3>1
  <2> QED BY <1>4, <2>1
<1> QED BY <1>5

\* An entry of the directory takes 46 bytes at the least.
LEMMA DirectoryHasRoom ==
  ASSUME NEW n \in Nat, NEW f \in [1 .. n + 1 -> Nat],
         \A i \in 1 .. n : f[i + 1] >= f[i] + 46
  PROVE  n * 46 <= f[n + 1]
<1> DEFINE T == {i \in 0 .. n : i * 46 <= f[i + 1]}
<1>1. 0 \in T
  OBVIOUS
<1>2. ASSUME NEW i \in 0 .. n - 1, i \in T PROVE i + 1 \in T
  <2>1. PICK j \in 1 .. n : j = i + 1
    OBVIOUS
  <2>2. f[j + 1] >= f[j] + 46 /\ f[j] \in Nat /\ f[j + 1] \in Nat
    OBVIOUS
  <2>3. i * 46 <= f[j]
    BY <1>2, <2>1
  <2> QED BY <2>1, <2>2, <2>3
<1>3. \A i \in 0 .. n : i \in T
  <2> HIDE DEF T
  <2> QED BY <1>1, <1>2, FirstNumbers
<1> QED BY <1>3

\* The offsets are sums of lengths: each record starts where the one before ends.
LEMMA Offsets ==
  ASSUME NEW n \in Nat, NEW arrays \in [1 .. n -> Arrays], NEW w \in Layouts
  PROVE  \E l \in [1 .. n + 1 -> Nat], c \in [1 .. n + 1 -> Nat] :
           /\ \A i \in 1 .. n + 1 : l[i] = LocalAt(arrays, w, i) /\ c[i] = CentralAt(arrays, w, i)
           /\ c[1] = l[n + 1]
           /\ \A i \in 1 .. n : /\ l[i + 1] = l[i] + EntryLen(arrays[i], w)
                               /\ c[i + 1] = c[i] + CentralLen(arrays[i], w)
<1>0. DOMAIN arrays = 1 .. n /\ Len(arrays) = n
  BY LenProperties
<1> DEFINE a == [j \in 1 .. n |-> EntryLen(arrays[j], w)]
           b == [j \in 1 .. n |-> CentralLen(arrays[j], w)]
<1>1. \A j \in 1 .. n : EntryLen(arrays[j], w) \in Nat /\ CentralLen(arrays[j], w) \in Nat
  <2> TAKE j \in 1 .. n
  <2>1. arrays[j] \in Arrays
    OBVIOUS
  <2>2. PICK p \in Nat, q \in Nat, r \in Nat, t \in Nat :
          p = NameLen(arrays[j]) /\ q = w.local /\ r = StoredLen(arrays[j], w) /\ t = CdExtra(w)
    BY <2>1, Sizes
  <2>3. EntryLen(arrays[j], w) = 30 + p + q + r
    BY <2>2 DEF EntryLen, Local
  <2>4. CentralLen(arrays[j], w) = 46 + p + t
    BY <2>2 DEF CentralLen, Central
  <2> QED BY <2>3, <2>4
<1>2. a \in [1 .. n -> Int] /\ b \in [1 .. n -> Int]
  BY <1>1
<1>3. \A j \in 1 .. n : /\ a[j] = EntryLen(arrays[j], w) /\ b[j] = CentralLen(arrays[j], w)
                       /\ a[j] \in Nat /\ b[j] \in Nat
  BY <1>1
<1>4. \A i \in 1 .. n + 1 : /\ LocalAt(arrays, w, i) = Sums(a)[i - 1]
                           /\ CentralAt(arrays, w, i) = Sums(a)[n] + Sums(b)[i - 1]
  <2>1. n + 1 - 1 = n
    OBVIOUS
  <2> QED BY <1>0, <2>1 DEF LocalAt, CentralAt
<1> HIDE DEF a, b
<1>5. PICK x \in [0 .. n -> Int] :
        x = Sums(a) /\ x[0] = 0 /\ \A i \in 0 .. n - 1 : x[i + 1] = x[i] + a[i + 1]
  BY <1>2, SumsAre
<1>6. PICK y \in [0 .. n -> Int] :
        y = Sums(b) /\ y[0] = 0 /\ \A i \in 0 .. n - 1 : y[i + 1] = y[i] + b[i + 1]
  BY <1>2, SumsAre
<1>7. \A i \in 0 .. n : x[i] \in Nat /\ y[i] \in Nat
  <2> DEFINE T == {i \in 0 .. n : x[i] \in Nat /\ y[i] \in Nat}
  <2>1. 0 \in T
    BY <1>5, <1>6
  <2>2. ASSUME NEW i \in 0 .. n - 1, i \in T PROVE i + 1 \in T
    <3>1. i + 1 \in 1 .. n /\ i + 1 \in 0 .. n
      OBVIOUS
    <3>2. x[i + 1] = x[i] + a[i + 1] /\ y[i + 1] = y[i] + b[i + 1]
      BY <1>5, <1>6
    <3>3. a[i + 1] \in Nat /\ b[i + 1] \in Nat
      BY <1>3, <3>1
    <3>4. x[i] \in Nat /\ y[i] \in Nat
      BY <2>2
    <3>5. x[i + 1] \in Nat /\ y[i + 1] \in Nat
      <4>1. PICK p \in Nat, q \in Nat, r \in Nat, t \in Nat :
              p = x[i] /\ q = a[i + 1] /\ r = y[i] /\ t = b[i + 1]
        BY <3>3, <3>4
      <4>2. p + q \in Nat /\ r + t \in Nat
        OBVIOUS
      <4> QED BY <3>2, <4>1, <4>2
    <3> QED BY <3>1, <3>5
  <2>3. \A i \in 0 .. n : i \in T
    <3> HIDE DEF T
    <3> QED BY <2>1, <2>2, FirstNumbers
  <2> QED BY <2>3
<1> DEFINE l == [i \in 1 .. n + 1 |-> x[i - 1]]
           c == [i \in 1 .. n + 1 |-> x[n] + y[i - 1]]
<1>8. l \in [1 .. n + 1 -> Nat] /\ c \in [1 .. n + 1 -> Nat]
  BY <1>7
<1>9. \A i \in 1 .. n + 1 : l[i] = LocalAt(arrays, w, i) /\ c[i] = CentralAt(arrays, w, i)
  BY <1>4, <1>5, <1>6
<1>10. c[1] = l[n + 1]
  BY <1>6, <1>7
<1>11. ASSUME NEW i \in 1 .. n
       PROVE  /\ l[i + 1] = l[i] + EntryLen(arrays[i], w)
              /\ c[i + 1] = c[i] + CentralLen(arrays[i], w)
  <2>1. PICK h \in 0 .. n - 1 : h = i - 1 /\ h + 1 = i
    <3>1. i - 1 \in 0 .. n - 1 /\ (i - 1) + 1 = i
      OBVIOUS
    <3> QED BY <3>1
  <2>2. x[i] = x[h] + a[i] /\ y[i] = y[h] + b[i]
    BY <1>5, <1>6, <2>1
  <2>3. l[i + 1] = x[i] /\ l[i] = x[h] /\ c[i + 1] = x[n] + y[i] /\ c[i] = x[n] + y[h]
    <3>1. i + 1 \in 1 .. n + 1 /\ i \in 1 .. n + 1 /\ (i + 1) - 1 = i
      OBVIOUS
    <3> QED BY <2>1, <3>1
  <2>4. x[n] \in Nat /\ y[h] \in Nat /\ a[i] \in Nat /\ b[i] \in Nat
    BY <1>3, <1>7
  <2> HIDE DEF l, c
  <2>5. l[i + 1] = l[i] + a[i]
    BY <2>2, <2>3
  <2>6. c[i + 1] = c[i] + b[i]
    <3>1. PICK p \in Nat, q \in Nat, r \in Nat : p = x[n] /\ q = y[h] /\ r = b[i]
      BY <2>4
    <3>2. c[i + 1] = p + (q + r) /\ c[i] = p + q
      BY <2>2, <2>3, <3>1
    <3> QED BY <3>1, <3>2
  <2> QED BY <1>3, <2>5, <2>6
<1> HIDE DEF l, c
<1> QED BY <1>8, <1>9, <1>10, <1>11

(***************************************************************************)
(* An archive is laid out without a gap: l, d and c are where the headers, *)
(* the data and the entries of the directory are, e the end record.        *)
(***************************************************************************)
LaidOut(arrays, w, n, l, d, c, e) ==
  /\ \A i \in 1 .. n : /\ l[i] = LocalAt(arrays, w, i)
                      /\ d[i] = DataAt(arrays, w, i)
                      /\ c[i] = CentralAt(arrays, w, i)
                      /\ d[i] = l[i] + 30 + NameLen(arrays[i]) + w.local
                      /\ l[i + 1] = d[i] + StoredLen(arrays[i], w)
                      /\ c[i + 1] = c[i] + 46 + NameLen(arrays[i]) + CdExtra(w)
                      /\ l[i] + 30 <= d[i] /\ d[i] < l[i + 1] /\ c[i] + 46 <= c[i + 1]
                      /\ l[i + 1] <= c[1] /\ c[1] <= c[i] /\ c[i + 1] <= c[n + 1]
  /\ \A i, j \in 1 .. n : i < j => l[i + 1] <= l[j] /\ c[i + 1] <= c[j]
  /\ c[1] = CentralAt(arrays, w, 1)
  /\ c[n + 1] = CentralAt(arrays, w, n + 1) /\ n * 46 <= c[n + 1]
  /\ e = EndAt(arrays, w)
  /\ w.zip64 => e = c[n + 1] + 76
  /\ ~w.zip64 => e = c[n + 1]

\* What does not shrink.
LEMMA NotLess ==
  ASSUME NEW n \in Nat, NEW f \in [1 .. n + 1 -> Nat], \A i \in 1 .. n : f[i + 1] >= f[i]
  PROVE  \A i, j \in 1 .. n + 1 : i <= j => f[i] <= f[j]
<1>1. \A i \in 1 .. n : f[i + 1] >= f[i] + 0
  OBVIOUS
<1>2. 0 \in Nat
  OBVIOUS
<1>3. \A i, j \in 1 .. n + 1 : i < j => f[i] + 0 <= f[j]
  BY <1>1, <1>2, Rising
<1> QED BY <1>3

\* Every archive has offsets that are laid out so.
LEMMA ArchiveIsLaidOut ==
  ASSUME NEW n \in Nat, NEW arrays \in [1 .. n -> Arrays], NEW w \in Layouts
  PROVE  \E l \in [1 .. n + 1 -> Nat], c \in [1 .. n + 1 -> Nat], d \in [1 .. n -> Nat], e \in Nat :
           LaidOut(arrays, w, n, l, d, c, e)
<1>1. PICK l \in [1 .. n + 1 -> Nat], c \in [1 .. n + 1 -> Nat] :
        /\ \A i \in 1 .. n + 1 : l[i] = LocalAt(arrays, w, i) /\ c[i] = CentralAt(arrays, w, i)
        /\ c[1] = l[n + 1]
        /\ \A i \in 1 .. n : /\ l[i + 1] = l[i] + EntryLen(arrays[i], w)
                            /\ c[i + 1] = c[i] + CentralLen(arrays[i], w)
  BY Offsets
<1> DEFINE d == [i \in 1 .. n |-> DataAt(arrays, w, i)]
           e == EndAt(arrays, w)
<1>2. ASSUME NEW i \in 1 .. n
      PROVE  /\ d[i] \in Nat
             /\ d[i] = DataAt(arrays, w, i)
             /\ d[i] = l[i] + 30 + NameLen(arrays[i]) + w.local
             /\ l[i + 1] = d[i] + StoredLen(arrays[i], w)
             /\ c[i + 1] = c[i] + 46 + NameLen(arrays[i]) + CdExtra(w)
             /\ l[i] + 30 <= d[i] /\ d[i] < l[i + 1] /\ c[i] + 46 <= c[i + 1]
  <2>0. i \in 1 .. n + 1 /\ i + 1 \in 1 .. n + 1
    OBVIOUS
  <2>1. PICK x \in Nat, y \in Nat : x = l[i] /\ y = c[i]
    BY <2>0
  <2>2. PICK p \in Nat, q \in Nat, r \in Nat, t \in Nat :
          /\ p = NameLen(arrays[i]) /\ q = w.local /\ r = StoredLen(arrays[i], w) /\ t = CdExtra(w)
          /\ r >= 1
    <3>1. arrays[i] \in Arrays
      OBVIOUS
    <3> QED BY <3>1, Sizes
  <2>3. l[i + 1] = x + (30 + p + q + r)
    BY <1>1, <2>1, <2>2 DEF EntryLen, Local
  <2>4. c[i + 1] = y + (46 + p + t)
    BY <1>1, <2>1, <2>2 DEF CentralLen, Central
  <2>5. d[i] = x + 30 + p + q /\ d[i] = DataAt(arrays, w, i)
    <3>1. LocalAt(arrays, w, i) = x
      BY <1>1, <2>1
    <3> QED BY <2>2, <3>1 DEF DataAt, Local
  <2> HIDE DEF d
  <2>6. d[i] \in Nat
    BY <2>5
  <2>7. PICK u \in Nat, v \in Nat, z \in Nat : u = d[i] /\ v = l[i + 1] /\ z = c[i + 1]
    <3>1. l[i + 1] \in Nat /\ c[i + 1] \in Nat
      BY <2>0
    <3> QED BY <2>6, <3>1
  <2>8. u = x + 30 + p + q /\ v = x + (30 + p + q + r) /\ z = y + (46 + p + t)
    BY <2>3, <2>4, <2>5, <2>7
  <2>9. v = u + r /\ z = y + 46 + p + t /\ x + 30 <= u /\ u < v /\ y + 46 <= z
    <3>1. r >= 1
      BY <2>2
    <3> QED BY <2>8, <3>1
  <2>10. d[i] = l[i] + 30 + NameLen(arrays[i]) + w.local
    BY <2>1, <2>2, <2>7, <2>8, Zenon
  <2>11. /\ l[i + 1] = d[i] + StoredLen(arrays[i], w)
         /\ c[i + 1] = c[i] + 46 + NameLen(arrays[i]) + CdExtra(w)
    BY <2>1, <2>2, <2>7, <2>9, Zenon
  <2>12. l[i] + 30 <= d[i] /\ d[i] < l[i + 1] /\ c[i] + 46 <= c[i + 1]
    BY <2>1, <2>7, <2>9, Zenon
  <2> QED BY <2>5, <2>6, <2>10, <2>11, <2>12
<1>3. d \in [1 .. n -> Nat]
  BY <1>2
<1> HIDE DEF d
<1>4. \A i \in 1 .. n : l[i + 1] >= l[i] /\ c[i + 1] >= c[i] /\ c[i + 1] >= c[i] + 46
  <2> TAKE i \in 1 .. n
  <2>1. PICK x \in Nat, y \in Nat, p \in Nat, q \in Nat, r \in Nat :
          x = l[i] /\ y = l[i + 1] /\ p = c[i] /\ q = c[i + 1] /\ r = d[i]
    <3>1. i \in 1 .. n + 1 /\ i + 1 \in 1 .. n + 1
      OBVIOUS
    <3>2. d[i] \in Nat /\ l[i] \in Nat /\ l[i + 1] \in Nat /\ c[i] \in Nat /\ c[i + 1] \in Nat
      BY <1>3, <3>1
    <3> QED BY <3>2
  <2>2. x + 30 <= r /\ r < y /\ p + 46 <= q
    <3>1. l[i] + 30 <= d[i] /\ d[i] < l[i + 1] /\ c[i] + 46 <= c[i + 1]
      BY <1>2
    <3> QED BY <2>1, <3>1
  <2>3. y >= x /\ q >= p /\ q >= p + 46
    BY <2>2
  <2> QED BY <2>1, <2>3, Zenon
<1>5. \A i, j \in 1 .. n + 1 : i <= j => l[i] <= l[j]
  BY <1>4, NotLess
<1>6. \A i, j \in 1 .. n + 1 : i <= j => c[i] <= c[j]
  BY <1>4, NotLess
<1>7. n * 46 <= c[n + 1]
  BY <1>4, DirectoryHasRoom
<1>8. \A i \in 1 .. n : l[i + 1] <= c[1] /\ c[1] <= c[i] /\ c[i + 1] <= c[n + 1]
  <2> TAKE i \in 1 .. n
  <2>1. i \in 1 .. n + 1 /\ i + 1 \in 1 .. n + 1 /\ 1 \in 1 .. n + 1 /\ n + 1 \in 1 .. n + 1
    OBVIOUS
  <2> QED BY <1>1, <1>5, <1>6, <2>1
<1>9. \A i, j \in 1 .. n : i < j => l[i + 1] <= l[j] /\ c[i + 1] <= c[j]
  <2> TAKE i, j \in 1 .. n
  <2>1. i + 1 \in 1 .. n + 1 /\ j \in 1 .. n + 1 /\ (i < j => i + 1 <= j)
    OBVIOUS
  <2> QED BY <1>5, <1>6, <2>1
<1>10. n + 1 \in 1 .. n + 1 /\ 1 \in 1 .. n + 1
  OBVIOUS
<1>11. c[1] = CentralAt(arrays, w, 1) /\ c[n + 1] = CentralAt(arrays, w, n + 1)
  BY <1>1, <1>10
<1>12. /\ w.zip64 => e = c[n + 1] + 76
       /\ ~w.zip64 => e = c[n + 1]
       /\ e \in Nat
  <2>1. Len(arrays) = n
    BY LenProperties
  <2>2. PICK z \in Nat : z = c[n + 1]
    OBVIOUS
  <2>3. e = z + (IF w.zip64 THEN 56 + 20 ELSE 0)
    BY <1>11, <2>1, <2>2 DEF EndAt, Z64End, Z64Locator
  <2> HIDE DEF e
  <2> QED BY <2>2, <2>3
<1>13. e = EndAt(arrays, w)
  OBVIOUS
<1> HIDE DEF e
<1>14. \A i \in 1 .. n : l[i] = LocalAt(arrays, w, i) /\ c[i] = CentralAt(arrays, w, i)
  BY <1>1
<1>15. LaidOut(arrays, w, n, l, d, c, e)
  BY <1>2, <1>7, <1>8, <1>9, <1>11, <1>12, <1>13, <1>14 DEF LaidOut
<1> QED BY <1>3, <1>12, <1>15

\* No two records are in one place.
LEMMA OffsetsApart ==
  ASSUME NEW n \in Nat, NEW arrays, NEW w,
         NEW l \in [1 .. n + 1 -> Nat], NEW c \in [1 .. n + 1 -> Nat], NEW d \in [1 .. n -> Nat],
         NEW e \in Nat, LaidOut(arrays, w, n, l, d, c, e)
  PROVE  /\ \A i, j \in 1 .. n : /\ l[i] = l[j] => i = j
                                 /\ d[i] = d[j] => i = j
                                 /\ c[i] = c[j] => i = j
                                 /\ l[i] # d[j]
         /\ \A i \in 1 .. n : l[i] < c[1] /\ d[i] < c[1] /\ c[1] <= c[i] /\ c[i] < c[n + 1]
         /\ c[n + 1] <= e /\ (w.zip64 => c[n + 1] < e)
         /\ c[1] <= c[n + 1]
<1>0. \A i \in 1 .. n : /\ i \in 1 .. n + 1 /\ i + 1 \in 1 .. n + 1
                        /\ l[i] \in Nat /\ l[i + 1] \in Nat /\ c[i] \in Nat /\ c[i + 1] \in Nat
                        /\ d[i] \in Nat
  <2> TAKE i \in 1 .. n
  <2>1. i \in 1 .. n + 1 /\ i + 1 \in 1 .. n + 1
    OBVIOUS
  <2> QED BY <2>1
<1>1. c[1] \in Nat /\ c[n + 1] \in Nat
  <2>1. 1 \in 1 .. n + 1 /\ n + 1 \in 1 .. n + 1
    OBVIOUS
  <2> QED BY <2>1
<1>2. \A i \in 1 .. n : /\ l[i] + 30 <= d[i] /\ d[i] < l[i + 1] /\ c[i] + 46 <= c[i + 1]
                        /\ l[i + 1] <= c[1] /\ c[1] <= c[i] /\ c[i + 1] <= c[n + 1]
  BY DEF LaidOut
<1>3. \A i, j \in 1 .. n : i < j => l[i + 1] <= l[j] /\ c[i + 1] <= c[j]
  BY DEF LaidOut
<1>4. ASSUME NEW i \in 1 .. n
      PROVE  /\ l[i] < d[i] /\ l[i] < c[1] /\ d[i] < c[1] /\ c[1] <= c[i] /\ c[i] < c[n + 1]
  <2>1. PICK x \in Nat, y \in Nat, z \in Nat, p \in Nat, q \in Nat, s \in Nat, t \in Nat :
          /\ x = l[i] /\ y = d[i] /\ z = l[i + 1]
          /\ p = c[i] /\ q = c[i + 1] /\ s = c[1] /\ t = c[n + 1]
    BY <1>0, <1>1
  <2>2. x + 30 <= y /\ y < z /\ p + 46 <= q /\ z <= s /\ s <= p /\ q <= t
    BY <1>2, <2>1
  <2>3. x < y /\ x < s /\ y < s /\ s <= p /\ p < t
    BY <2>2
  <2> QED BY <2>1, <2>3, Zenon
<1>5. ASSUME NEW i \in 1 .. n, NEW j \in 1 .. n, i < j
      PROVE  l[i] < l[j] /\ d[i] < d[j] /\ c[i] < c[j] /\ d[i] < l[j] /\ l[i] < d[j]
  <2>1. PICK x \in Nat, y \in Nat, z \in Nat, p \in Nat, q \in Nat,
             x1 \in Nat, y1 \in Nat, p1 \in Nat :
          /\ x = l[i] /\ y = d[i] /\ z = l[i + 1] /\ p = c[i] /\ q = c[i + 1]
          /\ x1 = l[j] /\ y1 = d[j] /\ p1 = c[j]
    BY <1>0
  <2>2. x + 30 <= y /\ y < z /\ p + 46 <= q
    BY <1>2, <2>1
  <2>3. x1 + 30 <= y1
    BY <1>2, <2>1
  <2>4. z <= x1 /\ q <= p1
    BY <1>3, <1>5, <2>1
  <2>5. x < x1 /\ y < y1 /\ p < p1 /\ y < x1 /\ x < y1
    BY <2>2, <2>3, <2>4
  <2> QED BY <2>1, <2>5, Zenon
<1>6. ASSUME NEW i \in 1 .. n, NEW j \in 1 .. n
      PROVE  /\ l[i] = l[j] => i = j
             /\ d[i] = d[j] => i = j
             /\ c[i] = c[j] => i = j
             /\ l[i] # d[j]
  <2>1. PICK x \in Nat, y \in Nat, p \in Nat, x1 \in Nat, y1 \in Nat, p1 \in Nat :
          x = l[i] /\ y = d[i] /\ p = c[i] /\ x1 = l[j] /\ y1 = d[j] /\ p1 = c[j]
    BY <1>0
  <2>2. i = j => x < y
    BY <1>4, <2>1
  <2>3. i < j => x < x1 /\ y < y1 /\ p < p1 /\ x < y1
    BY <1>5, <2>1
  <2>4. j < i => x1 < x /\ y1 < y /\ p1 < p /\ y1 < x
    BY <1>5, <2>1
  <2>5. i < j \/ i = j \/ j < i
    OBVIOUS
  <2>6. i = j => x # y
    BY <2>2
  <2>7. i < j => x # x1 /\ y # y1 /\ p # p1 /\ x # y1
    BY <2>3
  <2>8. j < i => x # x1 /\ y # y1 /\ p # p1 /\ x # y1
    BY <2>4
  <2> QED BY <2>1, <2>5, <2>6, <2>7, <2>8, Zenon
<1>7. c[n + 1] <= e /\ (w.zip64 => c[n + 1] < e)
  <2>1. PICK t \in Nat : t = c[n + 1]
    BY <1>1
  <2>2. (w.zip64 => e = t + 76) /\ (~w.zip64 => e = t)
    BY <2>1 DEF LaidOut
  <2>3. t <= e /\ (w.zip64 => t < e)
    BY <2>2
  <2> QED BY <2>1, <2>3, Zenon
<1>8. c[1] <= c[n + 1]
  <2>1. CASE n = 0
    BY <1>1, <2>1
  <2>2. CASE n # 0
    <3>1. 1 \in 1 .. n
      BY <2>2
    <3>2. c[1] < c[n + 1]
      BY <1>4, <3>1
    <3> QED BY <1>1, <3>2
  <2> QED BY <2>1, <2>2
<1> QED BY <1>4, <1>6, <1>7, <1>8

Apart(R) == \A r, s \in R : r[1] = s[1] => r = s

\* What a file has at the place of a record is that record.
LEMMA FileHolds ==
  ASSUME NEW R, Apart(R), NEW len, NEW file, file = FileOf(R, len)
  PROVE  /\ file.len = len
         /\ \A r \in R : r[1] \in DOMAIN file.at /\ file.at[r[1]] = r[2]
         /\ \A o \in DOMAIN file.at : \E r \in R : r[1] = o /\ file.at[o] = r[2]
<1>1. file.len = len
  BY DEF FileOf
<1>2. file.at = [o \in {r[1] : r \in R} |-> (CHOOSE r \in R : r[1] = o)[2]]
  BY DEF FileOf
<1>3. ASSUME NEW r \in R PROVE r[1] \in DOMAIN file.at /\ file.at[r[1]] = r[2]
  <2>1. (CHOOSE s \in R : s[1] = r[1]) = r
    BY DEF Apart
  <2>2. PICK o : o = r[1]
    OBVIOUS
  <2>3. o \in {s[1] : s \in R}
    BY <2>2
  <2>4. o \in DOMAIN file.at /\ file.at[o] = (CHOOSE s \in R : s[1] = o)[2]
    BY <1>2, <2>3
  <2> QED BY <2>1, <2>2, <2>4
<1>4. ASSUME NEW o \in DOMAIN file.at PROVE \E r \in R : r[1] = o /\ file.at[o] = r[2]
  <2>1. PICK r \in R : r[1] = o
    BY <1>2
  <2> QED BY <1>3, <2>1
<1> QED BY <1>1, <1>3, <1>4

\* The records of an archive.
RecordsAt(arrays, w, n, l, d, c, e) ==
  {<<l[i], LocalRecord(arrays[i], w)>> : i \in 1 .. n}
    \cup {<<d[i], Npy(arrays[i], StoredLen(arrays[i], w))>> : i \in 1 .. n}
    \cup {<<c[i], CentralRecord(arrays, w, i)>> : i \in 1 .. n}
    \cup {<<e, EndRecord(arrays, w)>>}
    \cup (IF w.zip64 THEN {<<c[n + 1], Z64Record(arrays, w)>>} ELSE {})

\* The records of an archive, by those offsets.
LEMMA RecordsAre ==
  ASSUME NEW n \in Nat, NEW arrays \in [1 .. n -> Arrays], NEW w,
         NEW l \in [1 .. n + 1 -> Nat], NEW c \in [1 .. n + 1 -> Nat], NEW d \in [1 .. n -> Nat],
         NEW e \in Nat, LaidOut(arrays, w, n, l, d, c, e)
  PROVE  Records(arrays, w) = RecordsAt(arrays, w, n, l, d, c, e)
<1>1. DOMAIN arrays = 1 .. n /\ Len(arrays) = n
  BY LenProperties
<1>2. \A i \in 1 .. n : /\ l[i] = LocalAt(arrays, w, i)
                        /\ d[i] = DataAt(arrays, w, i)
                        /\ c[i] = CentralAt(arrays, w, i)
  BY DEF LaidOut
<1>3. e = EndAt(arrays, w) /\ c[n + 1] = CentralAt(arrays, w, n + 1)
  BY DEF LaidOut
<1>4. {<<LocalAt(arrays, w, i), LocalRecord(arrays[i], w)>> : i \in DOMAIN arrays}
        = {<<l[i], LocalRecord(arrays[i], w)>> : i \in 1 .. n}
  BY <1>1, <1>2
<1>5. {<<DataAt(arrays, w, i), Npy(arrays[i], StoredLen(arrays[i], w))>> : i \in DOMAIN arrays}
        = {<<d[i], Npy(arrays[i], StoredLen(arrays[i], w))>> : i \in 1 .. n}
  BY <1>1, <1>2
<1>6. {<<CentralAt(arrays, w, i), CentralRecord(arrays, w, i)>> : i \in DOMAIN arrays}
        = {<<c[i], CentralRecord(arrays, w, i)>> : i \in 1 .. n}
  BY <1>1, <1>2
<1>7. {<<EndAt(arrays, w), EndRecord(arrays, w)>>} = {<<e, EndRecord(arrays, w)>>}
  BY <1>3
<1>8. (IF w.zip64
       THEN {<<CentralAt(arrays, w, Len(arrays) + 1), Z64Record(arrays, w)>>}
       ELSE {})
        = IF w.zip64 THEN {<<c[n + 1], Z64Record(arrays, w)>>} ELSE {}
  BY <1>1, <1>3
<1> QED BY <1>4, <1>5, <1>6, <1>7, <1>8, Zenon DEF Records, RecordsAt

\* No two records have the same offset.
LEMMA RecordsApart ==
  ASSUME NEW n \in Nat, NEW arrays \in [1 .. n -> Arrays], NEW w,
         NEW l \in [1 .. n + 1 -> Nat], NEW c \in [1 .. n + 1 -> Nat], NEW d \in [1 .. n -> Nat],
         NEW e \in Nat, LaidOut(arrays, w, n, l, d, c, e)
  PROVE  Apart(Records(arrays, w))
<1> DEFINE LocalOf(i) == <<l[i], LocalRecord(arrays[i], w)>>
           DataOf(i) == <<d[i], Npy(arrays[i], StoredLen(arrays[i], w))>>
           CentralOf(i) == <<c[i], CentralRecord(arrays, w, i)>>
           end == <<e, EndRecord(arrays, w)>>
           z64 == <<c[n + 1], Z64Record(arrays, w)>>
<1>1. \A r \in Records(arrays, w) :
        \/ \E i \in 1 .. n : r = LocalOf(i)
        \/ \E i \in 1 .. n : r = DataOf(i)
        \/ \E i \in 1 .. n : r = CentralOf(i)
        \/ r = end
        \/ w.zip64 /\ r = z64
  <2>1. Records(arrays, w) = RecordsAt(arrays, w, n, l, d, c, e)
    BY RecordsAre
  <2> SUFFICES ASSUME NEW r \in RecordsAt(arrays, w, n, l, d, c, e)
               PROVE  \/ \E i \in 1 .. n : r = LocalOf(i)
                      \/ \E i \in 1 .. n : r = DataOf(i)
                      \/ \E i \in 1 .. n : r = CentralOf(i)
                      \/ r = end
                      \/ w.zip64 /\ r = z64
    BY <2>1
  <2> QED BY DEF RecordsAt
<1>2. \A i \in 1 .. n : LocalOf(i)[1] = l[i] /\ DataOf(i)[1] = d[i] /\ CentralOf(i)[1] = c[i]
  OBVIOUS
<1>3. end[1] = e /\ z64[1] = c[n + 1]
  OBVIOUS
<1> HIDE DEF LocalOf, DataOf, CentralOf, end, z64
<1>4. /\ \A i, j \in 1 .. n : /\ l[i] = l[j] => i = j
                              /\ d[i] = d[j] => i = j
                              /\ c[i] = c[j] => i = j
                              /\ l[i] # d[j]
      /\ \A i \in 1 .. n : l[i] < c[1] /\ d[i] < c[1] /\ c[1] <= c[i] /\ c[i] < c[n + 1]
      /\ c[n + 1] <= e /\ (w.zip64 => c[n + 1] < e)
      /\ c[1] <= c[n + 1]
  BY OffsetsApart
<1>5. c[1] \in Nat /\ c[n + 1] \in Nat
  <2>1. 1 \in 1 .. n + 1 /\ n + 1 \in 1 .. n + 1
    OBVIOUS
  <2> QED BY <2>1
<1>6. \A i \in 1 .. n : l[i] \in Nat /\ d[i] \in Nat /\ c[i] \in Nat
  <2> TAKE i \in 1 .. n
  <2>1. i \in 1 .. n + 1
    OBVIOUS
  <2> QED BY <2>1
<1>7. ASSUME NEW i \in 1 .. n
      PROVE  /\ l[i] # c[n + 1] /\ l[i] # e /\ d[i] # c[n + 1] /\ d[i] # e
             /\ c[i] # c[n + 1] /\ c[i] # e
             /\ \A j \in 1 .. n : l[i] # c[j] /\ d[i] # c[j]
  <2>1. PICK x \in Nat, y \in Nat, p \in Nat, s \in Nat, t \in Nat :
          x = l[i] /\ y = d[i] /\ p = c[i] /\ s = c[1] /\ t = c[n + 1]
    BY <1>5, <1>6
  <2>2. x < s /\ y < s /\ s <= p /\ p < t /\ t <= e
    BY <1>4, <2>1
  <2>3. x # t /\ x # e /\ y # t /\ y # e /\ p # t /\ p # e
    BY <2>2
  <2>4. ASSUME NEW j \in 1 .. n PROVE l[i] # c[j] /\ d[i] # c[j]
    <3>1. PICK q \in Nat : q = c[j]
      BY <1>6
    <3>2. s <= q
      BY <1>4, <2>1, <3>1
    <3>3. x # q /\ y # q
      BY <2>2, <3>2
    <3> QED BY <2>1, <3>1, <3>3
  <2> QED BY <2>1, <2>3, <2>4
<1>8. w.zip64 => c[n + 1] # e
  <2>1. PICK t \in Nat : t = c[n + 1]
    BY <1>5
  <2> QED BY <1>4, <2>1
<1>9. ASSUME NEW r \in Records(arrays, w), NEW s \in Records(arrays, w), r[1] = s[1]
      PROVE  r = s
  <2>1. CASE \E i \in 1 .. n : r = LocalOf(i)
    <3>1. PICK i \in 1 .. n : r = LocalOf(i)
      BY <2>1
    <3>2. r[1] = l[i]
      BY <1>2, <3>1
    <3>3. ASSUME NEW j \in 1 .. n, s = LocalOf(j) PROVE r = s
      <4>1. l[i] = l[j]
        BY <1>2, <1>9, <3>2, <3>3
      <4> QED BY <1>4, <1>7, <3>1, <3>3, <4>1
    <3>4. ASSUME NEW j \in 1 .. n, s = DataOf(j) PROVE r = s
      <4>1. l[i] = d[j]
        BY <1>2, <1>9, <3>2, <3>4
      <4> QED BY <1>4, <1>7, <3>1, <3>4, <4>1
    <3>5. ASSUME NEW j \in 1 .. n, s = CentralOf(j) PROVE r = s
      <4>1. l[i] = c[j]
        BY <1>2, <1>9, <3>2, <3>5
      <4> QED BY <1>4, <1>7, <3>1, <3>5, <4>1
    <3>6. s # end
      BY <1>3, <1>7, <1>9, <3>2
    <3>7. s # z64
      BY <1>3, <1>7, <1>9, <3>2
    <3> QED BY <1>1, <3>3, <3>4, <3>5, <3>6, <3>7
  <2>2. CASE \E i \in 1 .. n : r = DataOf(i)
    <3>1. PICK i \in 1 .. n : r = DataOf(i)
      BY <2>2
    <3>2. r[1] = d[i]
      BY <1>2, <3>1
    <3>3. ASSUME NEW j \in 1 .. n, s = LocalOf(j) PROVE r = s
      <4>1. d[i] = l[j]
        BY <1>2, <1>9, <3>2, <3>3
      <4> QED BY <1>4, <1>7, <3>1, <3>3, <4>1
    <3>4. ASSUME NEW j \in 1 .. n, s = DataOf(j) PROVE r = s
      <4>1. d[i] = d[j]
        BY <1>2, <1>9, <3>2, <3>4
      <4> QED BY <1>4, <1>7, <3>1, <3>4, <4>1
    <3>5. ASSUME NEW j \in 1 .. n, s = CentralOf(j) PROVE r = s
      <4>1. d[i] = c[j]
        BY <1>2, <1>9, <3>2, <3>5
      <4> QED BY <1>4, <1>7, <3>1, <3>5, <4>1
    <3>6. s # end
      BY <1>3, <1>7, <1>9, <3>2
    <3>7. s # z64
      BY <1>3, <1>7, <1>9, <3>2
    <3> QED BY <1>1, <3>3, <3>4, <3>5, <3>6, <3>7
  <2>3. CASE \E i \in 1 .. n : r = CentralOf(i)
    <3>1. PICK i \in 1 .. n : r = CentralOf(i)
      BY <2>3
    <3>2. r[1] = c[i]
      BY <1>2, <3>1
    <3>3. ASSUME NEW j \in 1 .. n, s = LocalOf(j) PROVE r = s
      <4>1. c[i] = l[j]
        BY <1>2, <1>9, <3>2, <3>3
      <4> QED BY <1>4, <1>7, <3>1, <3>3, <4>1
    <3>4. ASSUME NEW j \in 1 .. n, s = DataOf(j) PROVE r = s
      <4>1. c[i] = d[j]
        BY <1>2, <1>9, <3>2, <3>4
      <4> QED BY <1>4, <1>7, <3>1, <3>4, <4>1
    <3>5. ASSUME NEW j \in 1 .. n, s = CentralOf(j) PROVE r = s
      <4>1. c[i] = c[j]
        BY <1>2, <1>9, <3>2, <3>5
      <4> QED BY <1>4, <1>7, <3>1, <3>5, <4>1
    <3>6. s # end
      BY <1>3, <1>7, <1>9, <3>2
    <3>7. s # z64
      BY <1>3, <1>7, <1>9, <3>2
    <3> QED BY <1>1, <3>3, <3>4, <3>5, <3>6, <3>7
  <2>4. CASE r = end
    <3>1. r[1] = e
      BY <1>3, <2>4
    <3>2. ASSUME NEW j \in 1 .. n PROVE s # LocalOf(j) /\ s # DataOf(j) /\ s # CentralOf(j)
      <4>1. LocalOf(j)[1] = l[j] /\ DataOf(j)[1] = d[j] /\ CentralOf(j)[1] = c[j]
        BY <1>2
      <4>2. s[1] # l[j] /\ s[1] # d[j] /\ s[1] # c[j]
        BY <1>7, <1>9, <3>1
      <4> QED BY <4>1, <4>2, Zenon
    <3>3. ~(w.zip64 /\ s = z64)
      BY <1>3, <1>8, <1>9, <3>1
    <3> QED BY <1>1, <2>4, <3>2, <3>3
  <2>5. CASE w.zip64 /\ r = z64
    <3>1. r[1] = c[n + 1]
      BY <1>3, <2>5
    <3>2. ASSUME NEW j \in 1 .. n PROVE s # LocalOf(j) /\ s # DataOf(j) /\ s # CentralOf(j)
      <4>1. LocalOf(j)[1] = l[j] /\ DataOf(j)[1] = d[j] /\ CentralOf(j)[1] = c[j]
        BY <1>2
      <4>2. s[1] # l[j] /\ s[1] # d[j] /\ s[1] # c[j]
        BY <1>7, <1>9, <3>1
      <4> QED BY <4>1, <4>2, Zenon
    <3>3. s # end
      BY <1>3, <1>8, <1>9, <2>5, <3>1
    <3> QED BY <1>1, <2>5, <3>2, <3>3
  <2> QED BY <1>1, <2>1, <2>2, <2>3, <2>4, <2>5
<1> QED BY <1>9 DEF Apart

Archive(arrays, w) == FileOf(Records(arrays, w), EndAt(arrays, w) + Eocd + w.comment)

\* Every record is where it was laid out, and ends no later than the end
\* record does.
Holds(file, arrays, w, n, l, d, c, e) ==
  /\ \A i \in 1 .. n : /\ l[i] \in DOMAIN file.at /\ file.at[l[i]] = LocalRecord(arrays[i], w)
                       /\ d[i] \in DOMAIN file.at
                       /\ file.at[d[i]] = Npy(arrays[i], StoredLen(arrays[i], w))
                       /\ c[i] \in DOMAIN file.at /\ file.at[c[i]] = CentralRecord(arrays, w, i)
  /\ e \in DOMAIN file.at /\ file.at[e] = EndRecord(arrays, w)
  /\ w.zip64 => c[n + 1] \in DOMAIN file.at /\ file.at[c[n + 1]] = Z64Record(arrays, w)
  /\ \A o \in DOMAIN file.at :
       o \in Nat /\ file.at[o].size \in Nat /\ o + file.at[o].size <= e + Eocd
  /\ \A o \in DOMAIN file.at : file.at[o].sig = "end" => o = e

\* So a whole archive has each record at its offset.
LEMMA ArchiveHolds ==
  ASSUME NEW n \in Nat, NEW arrays \in [1 .. n -> Arrays], NEW w \in Layouts,
         NEW l \in [1 .. n + 1 -> Nat], NEW c \in [1 .. n + 1 -> Nat], NEW d \in [1 .. n -> Nat],
         NEW e \in Nat, LaidOut(arrays, w, n, l, d, c, e)
  PROVE  /\ Archive(arrays, w).len = e + Eocd + w.comment
         /\ Holds(Archive(arrays, w), arrays, w, n, l, d, c, e)
<1>1. PICK file : file = Archive(arrays, w)
  OBVIOUS
<1>2. PICK R : R = Records(arrays, w)
  OBVIOUS
<1>3. Apart(R)
  BY <1>2, RecordsApart
<1>4. e = EndAt(arrays, w)
  BY DEF LaidOut
<1>5. file = FileOf(R, e + Eocd + w.comment)
  BY <1>1, <1>2, <1>4 DEF Archive
<1>6. /\ file.len = e + Eocd + w.comment
      /\ \A r \in R : r[1] \in DOMAIN file.at /\ file.at[r[1]] = r[2]
      /\ \A o \in DOMAIN file.at : \E r \in R : r[1] = o /\ file.at[o] = r[2]
  BY <1>3, <1>5, FileHolds
<1>7. R = RecordsAt(arrays, w, n, l, d, c, e)
  BY <1>2, RecordsAre
<1>8. ASSUME NEW i \in 1 .. n
      PROVE  /\ l[i] \in DOMAIN file.at /\ file.at[l[i]] = LocalRecord(arrays[i], w)
             /\ d[i] \in DOMAIN file.at
             /\ file.at[d[i]] = Npy(arrays[i], StoredLen(arrays[i], w))
             /\ c[i] \in DOMAIN file.at /\ file.at[c[i]] = CentralRecord(arrays, w, i)
  <2>1. /\ <<l[i], LocalRecord(arrays[i], w)>> \in R
        /\ <<d[i], Npy(arrays[i], StoredLen(arrays[i], w))>> \in R
        /\ <<c[i], CentralRecord(arrays, w, i)>> \in R
    BY <1>7 DEF RecordsAt
  <2> QED BY <1>6, <2>1
<1>9. e \in DOMAIN file.at /\ file.at[e] = EndRecord(arrays, w)
  <2>1. <<e, EndRecord(arrays, w)>> \in R
    BY <1>7 DEF RecordsAt
  <2> QED BY <1>6, <2>1
<1>10. ASSUME w.zip64
       PROVE  c[n + 1] \in DOMAIN file.at /\ file.at[c[n + 1]] = Z64Record(arrays, w)
  <2>1. <<c[n + 1], Z64Record(arrays, w)>> \in R
    BY <1>7, <1>10 DEF RecordsAt
  <2> QED BY <1>6, <2>1
<1>11. \A i \in 1 .. n : /\ l[i] \in Nat /\ d[i] \in Nat /\ c[i] \in Nat
                         /\ l[i] + 30 <= e
                         /\ d[i] + StoredLen(arrays[i], w) <= e
                         /\ c[i] + 46 <= e
  <2> TAKE i \in 1 .. n
  <2>1. i \in 1 .. n + 1 /\ i + 1 \in 1 .. n + 1 /\ 1 \in 1 .. n + 1 /\ n + 1 \in 1 .. n + 1
    OBVIOUS
  <2>2. PICK x \in Nat, x1 \in Nat, y \in Nat, p \in Nat, p1 \in Nat, s \in Nat, t \in Nat :
          /\ x = l[i] /\ x1 = l[i + 1] /\ y = d[i] /\ p = c[i] /\ p1 = c[i + 1]
          /\ s = c[1] /\ t = c[n + 1]
    BY <2>1
  <2>3. PICK k \in Nat : k = StoredLen(arrays[i], w)
    <3>1. arrays[i] \in Arrays
      OBVIOUS
    <3> QED BY <3>1, Sizes
  <2>4. /\ l[i + 1] = d[i] + StoredLen(arrays[i], w)
        /\ l[i] + 30 <= d[i] /\ d[i] < l[i + 1] /\ c[i] + 46 <= c[i + 1]
        /\ l[i + 1] <= c[1] /\ c[1] <= c[i] /\ c[i + 1] <= c[n + 1]
    BY DEF LaidOut
  <2>5. x1 = y + k /\ x + 30 <= y /\ y < x1 /\ p + 46 <= p1 /\ x1 <= s /\ s <= p /\ p1 <= t
    BY <2>2, <2>3, <2>4, Zenon
  <2>6. c[n + 1] <= e
    BY OffsetsApart
  <2>7. t <= e
    BY <2>2, <2>6
  <2>8. x + 30 <= e /\ y + k <= e /\ p + 46 <= e
    BY <2>5, <2>7
  <2> QED BY <2>2, <2>3, <2>8, Zenon
<1>12. w.zip64 => c[n + 1] \in Nat /\ c[n + 1] + 56 <= e
  <2>1. n + 1 \in 1 .. n + 1
    OBVIOUS
  <2>2. PICK t \in Nat : t = c[n + 1]
    BY <2>1
  <2>3. w.zip64 => e = t + 76
    BY <2>2 DEF LaidOut
  <2>4. w.zip64 => t + 56 <= e
    BY <2>3
  <2> QED BY <2>2, <2>4
<1>13. ASSUME NEW r \in R
       PROVE  /\ r[1] \in Nat /\ r[2].size \in Nat /\ r[1] + r[2].size <= e + Eocd
              /\ r[2].sig = "end" => r[1] = e
  <2>1. \/ \E i \in 1 .. n : r = <<l[i], LocalRecord(arrays[i], w)>>
        \/ \E i \in 1 .. n : r = <<d[i], Npy(arrays[i], StoredLen(arrays[i], w))>>
        \/ \E i \in 1 .. n : r = <<c[i], CentralRecord(arrays, w, i)>>
        \/ r = <<e, EndRecord(arrays, w)>>
        \/ w.zip64 /\ r = <<c[n + 1], Z64Record(arrays, w)>>
    BY <1>7 DEF RecordsAt
  <2>2. ASSUME NEW i \in 1 .. n, r = <<l[i], LocalRecord(arrays[i], w)>>
        PROVE  r[1] \in Nat /\ r[2].size \in Nat /\ r[1] + r[2].size <= e + Eocd /\ r[2].sig # "end"
    <3>1. PICK x \in Nat : x = l[i] /\ x + 30 <= e
      BY <1>11
    <3>2. r[1] = x /\ r[2].size = 30 /\ r[2].sig = "local"
      BY <2>2, <3>1 DEF LocalRecord, Local
    <3>3. x + 30 <= e + 22
      BY <3>1
    <3> QED BY <3>2, <3>3 DEF Eocd
  <2>3. ASSUME NEW i \in 1 .. n, r = <<d[i], Npy(arrays[i], StoredLen(arrays[i], w))>>
        PROVE  r[1] \in Nat /\ r[2].size \in Nat /\ r[1] + r[2].size <= e + Eocd /\ r[2].sig # "end"
    <3>1. PICK k \in Nat : k = StoredLen(arrays[i], w)
      <4>1. arrays[i] \in Arrays
        OBVIOUS
      <4> QED BY <4>1, Sizes
    <3>2. PICK x \in Nat : x = d[i] /\ x + k <= e
      BY <1>11, <3>1
    <3>3. r[1] = x /\ r[2].size = k /\ r[2].sig = "npy"
      BY <2>3, <3>1, <3>2 DEF Npy
    <3>4. x + k <= e + 22
      BY <3>2
    <3> QED BY <3>3, <3>4 DEF Eocd
  <2>4. ASSUME NEW i \in 1 .. n, r = <<c[i], CentralRecord(arrays, w, i)>>
        PROVE  r[1] \in Nat /\ r[2].size \in Nat /\ r[1] + r[2].size <= e + Eocd /\ r[2].sig # "end"
    <3>1. PICK x \in Nat : x = c[i] /\ x + 46 <= e
      BY <1>11
    <3>2. r[1] = x /\ r[2].size = 46 /\ r[2].sig = "central"
      BY <2>4, <3>1 DEF CentralRecord, Central
    <3>3. x + 46 <= e + 22
      BY <3>1
    <3> QED BY <3>2, <3>3 DEF Eocd
  <2>5. ASSUME r = <<e, EndRecord(arrays, w)>>
        PROVE  r[1] = e /\ r[2].size \in Nat /\ r[1] + r[2].size <= e + Eocd
    <3>1. r[1] = e /\ r[2].size = 22
      BY <2>5 DEF EndRecord, Eocd
    <3> QED BY <3>1 DEF Eocd
  <2>6. ASSUME w.zip64, r = <<c[n + 1], Z64Record(arrays, w)>>
        PROVE  r[1] \in Nat /\ r[2].size \in Nat /\ r[1] + r[2].size <= e + Eocd /\ r[2].sig # "end"
    <3>1. PICK x \in Nat : x = c[n + 1] /\ x + 56 <= e
      BY <1>12, <2>6
    <3>2. r[1] = x /\ r[2].size = 56 /\ r[2].sig = "z64"
      BY <2>6, <3>1 DEF Z64Record, Z64End
    <3>3. x + 56 <= e + 22
      BY <3>1
    <3> QED BY <3>2, <3>3 DEF Eocd
  <2> QED BY <2>1, <2>2, <2>3, <2>4, <2>5, <2>6
<1>14. \A o \in DOMAIN file.at : /\ o \in Nat /\ file.at[o].size \in Nat
                                 /\ o + file.at[o].size <= e + Eocd
                                 /\ file.at[o].sig = "end" => o = e
  BY <1>6, <1>13
<1> QED BY <1>1, <1>6, <1>8, <1>9, <1>10, <1>14 DEF Holds

-----------------------------------------------------------------------------
(* What a crash leaves, and how it is read. *)

\* A file is the archive, or a first part of it.
IsPart(file, archive) ==
  file = archive \/ \E len \in 0 .. archive.len - 1 : file = CutAt(archive, len)

\* With the end record everything before it is there; without, nothing is
\* taken for it.
LEMMA WhatIsLeft ==
  ASSUME NEW n \in Nat, NEW arrays \in [1 .. n -> Arrays], NEW w \in Layouts,
         NEW l \in [1 .. n + 1 -> Nat], NEW c \in [1 .. n + 1 -> Nat], NEW d \in [1 .. n -> Nat],
         NEW e \in Nat, LaidOut(arrays, w, n, l, d, c, e),
         NEW file, IsPart(file, Archive(arrays, w))
  PROVE  /\ file.len \in Nat
         /\ file.len >= e + Eocd =>
              /\ file.len <= e + Eocd + Max16
              /\ Holds(file, arrays, w, n, l, d, c, e)
         /\ file.len < e + Eocd =>
              /\ file # Archive(arrays, w)
              /\ \A o \in DOMAIN file.at : file.at[o].sig # "end"
<1>1. PICK archive : archive = Archive(arrays, w)
  OBVIOUS
<1>2. archive.len = e + Eocd + w.comment /\ Holds(archive, arrays, w, n, l, d, c, e)
  BY <1>1, ArchiveHolds
<1>3. PICK more \in Nat : more = w.comment /\ more <= Max16
  <2>1. w.comment \in 0 .. Max16
    BY NpzAssumption
  <2>2. Max16 \in Nat
    BY DEF Max16
  <2> QED BY <2>1, <2>2
<1>4. PICK whole \in Nat : whole = e + Eocd /\ archive.len = whole + more
  BY <1>2, <1>3 DEF Eocd
<1>5. Max16 \in Nat
  BY DEF Max16
<1>6. CASE file = archive
  <2>1. file.len = whole + more
    BY <1>4, <1>6
  <2>2. whole + more \in Nat /\ whole + more <= whole + Max16 /\ ~(whole + more < whole)
    BY <1>3, <1>5
  <2> QED BY <1>2, <1>4, <1>6, <2>1, <2>2
<1>7. CASE \E len \in 0 .. archive.len - 1 : file = CutAt(archive, len)
  <2>1. PICK len \in Nat : len < whole + more /\ file = CutAt(archive, len)
    BY <1>4, <1>7
  <2>2. file.len = len
    BY <2>1 DEF CutAt
  <2>3. file.at = [o \in {x \in DOMAIN archive.at : x + archive.at[x].size <= len} |->
                     archive.at[o]]
    BY <2>1 DEF CutAt
  <2>4. ASSUME len >= whole
        PROVE  len <= whole + Max16 /\ Holds(file, arrays, w, n, l, d, c, e)
    <3>1. len <= whole + Max16
      BY <1>3, <1>5, <2>1
    <3>2. \A o \in DOMAIN archive.at : o + archive.at[o].size <= len
      <4> TAKE o \in DOMAIN archive.at
      <4>1. /\ o \in Nat /\ archive.at[o].size \in Nat
            /\ o + archive.at[o].size <= whole
        BY <1>2, <1>4 DEF Holds
      <4>2. PICK ends \in Nat : ends = o + archive.at[o].size
        BY <4>1
      <4>3. ends <= len
        BY <2>4, <4>1, <4>2
      <4> QED BY <4>2, <4>3
    <3>3. /\ DOMAIN file.at = DOMAIN archive.at
          /\ \A o \in DOMAIN archive.at : file.at[o] = archive.at[o]
      BY <2>3, <3>2
    <3> QED BY <1>2, <3>1, <3>3 DEF Holds
  <2>5. ASSUME len < whole
        PROVE  file # archive /\ \A o \in DOMAIN file.at : file.at[o].sig # "end"
    <3>1. file # archive
      BY <1>4, <2>2, <2>5
    <3>2. ASSUME NEW o \in DOMAIN file.at, file.at[o].sig = "end" PROVE FALSE
      <4>1. o \in DOMAIN archive.at /\ o + archive.at[o].size <= len /\ archive.at[o].sig = "end"
        BY <2>3, <3>2
      <4>2. o = e /\ archive.at[e] = EndRecord(arrays, w)
        BY <1>2, <4>1 DEF Holds
      <4>3. archive.at[o].size = Eocd
        BY <4>2 DEF EndRecord
      <4>4. whole <= len
        BY <1>4, <4>1, <4>2, <4>3
      <4> QED BY <2>5, <4>4
    <3> QED BY <3>1, <3>2
  <2> QED BY <1>1, <1>4, <1>5, <2>2, <2>4, <2>5
<1> QED BY <1>1, <1>6, <1>7 DEF IsPart

\* The last array of each name, of the first m.
LastAt(arrays, m, k) ==
  CHOOSE i \in 1 .. m : arrays[i].key = k /\ \A j \in 1 .. m : arrays[j].key = k => j <= i

LastOf(arrays, m) ==
  [k \in {arrays[i].key : i \in 1 .. m} |-> arrays[LastAt(arrays, m, k)]]

\* There is a last array of a name that occurs.
LEMMA LastAtIs ==
  ASSUME NEW m \in Nat, NEW arrays, NEW k, NEW i \in 1 .. m, arrays[i].key = k,
         \A j \in 1 .. m : arrays[j].key = k => j <= i
  PROVE  LastAt(arrays, m, k) = i
<1>1. LastAt(arrays, m, k) \in 1 .. m /\ arrays[LastAt(arrays, m, k)].key = k
      /\ \A j \in 1 .. m : arrays[j].key = k => j <= LastAt(arrays, m, k)
  BY DEF LastAt
<1>2. PICK h \in 1 .. m : h = LastAt(arrays, m, k)
  BY <1>1
<1>3. h <= i /\ i <= h
  BY <1>1, <1>2
<1> QED BY <1>2, <1>3

\* One more array takes the place of those of its name.
LEMMA LastOfOneMore ==
  ASSUME NEW m \in Nat, NEW arrays
  PROVE  LastOf(arrays, m + 1) =
           [k \in DOMAIN LastOf(arrays, m) \cup {arrays[m + 1].key} |->
              IF k = arrays[m + 1].key THEN arrays[m + 1] ELSE LastOf(arrays, m)[k]]
<1>1. DOMAIN LastOf(arrays, m) = {arrays[i].key : i \in 1 .. m}
  BY DEF LastOf
<1>2. {arrays[i].key : i \in 1 .. m + 1} = {arrays[i].key : i \in 1 .. m} \cup {arrays[m + 1].key}
  OBVIOUS
<1>3. LastAt(arrays, m + 1, arrays[m + 1].key) = m + 1
  <2>1. PICK n \in Nat : n = m + 1 /\ n \in 1 .. n
    OBVIOUS
  <2>2. \A j \in 1 .. n : arrays[j].key = arrays[n].key => j <= n
    OBVIOUS
  <2>3. LastAt(arrays, n, arrays[n].key) = n
    BY <2>1, <2>2, LastAtIs
  <2> QED BY <2>1, <2>3
<1>4. ASSUME NEW k \in {arrays[i].key : i \in 1 .. m}, k # arrays[m + 1].key
      PROVE  LastAt(arrays, m + 1, k) = LastAt(arrays, m, k)
  <2> DEFINE S == {i \in 1 .. m : arrays[i].key = k}
  <2>1. S \in SUBSET Nat /\ S # {} /\ \A i \in S : i <= m
    OBVIOUS
  <2>2. PICK i \in S : \A j \in S : j <= i
    <3> DEFINE D == {x \in 0 .. m : m - x \in S}
    <3> HIDE DEF S
    <3>1. D \in SUBSET Nat
      OBVIOUS
    <3>2. \A j \in S : j \in Nat /\ m - j \in D /\ m - (m - j) = j
      <4> TAKE j \in S
      <4>1. j \in 1 .. m /\ m - (m - j) = j
        BY DEF S
      <4> QED BY <4>1
    <3>3. D # {}
      BY <2>1, <3>2
    <3>4. PICK x \in D : \A y \in D : x <= y
      <4> HIDE DEF D
      <4> QED BY <3>1, <3>3, LeastNat
    <3>5. ASSUME NEW j \in S PROVE j <= m - x
      <4>1. PICK y \in Nat : y = m - j /\ y \in D
        BY <3>1, <3>2
      <4>2. x <= y /\ x \in Nat /\ j \in Nat
        BY <3>1, <3>2, <3>4, <4>1
      <4> HIDE DEF D
      <4> QED BY <4>1, <4>2
    <3>6. m - x \in S
      OBVIOUS
    <3> HIDE DEF D
    <3> QED BY <3>5, <3>6
  <2>3. i \in 1 .. m /\ arrays[i].key = k /\ \A j \in 1 .. m : arrays[j].key = k => j <= i
    BY <2>2
  <2>4. LastAt(arrays, m, k) = i
    BY <2>3, LastAtIs
  <2>5. i \in 1 .. m + 1 /\ \A j \in 1 .. m + 1 : arrays[j].key = k => j <= i
    <3>1. \A j \in 1 .. m + 1 : j \in 1 .. m \/ j = m + 1
      OBVIOUS
    <3> QED BY <1>4, <2>3, <3>1
  <2>6. LastAt(arrays, m + 1, k) = i
    <3>1. PICK n \in Nat : n = m + 1
      OBVIOUS
    <3>2. LastAt(arrays, n, k) = i
      BY <2>3, <2>5, <3>1, LastAtIs
    <3> QED BY <3>1, <3>2
  <2> QED BY <2>4, <2>6
<1> QED BY <1>1, <1>2, <1>3, <1>4 DEF LastOf

\* Before any entry is read nothing is loaded.
LEMMA NothingRead ==
  ASSUME NEW arrays
  PROVE  LastOf(arrays, 0) = <<>>
<1>1. {arrays[i].key : i \in 1 .. 0} = {}
  OBVIOUS
<1> QED BY <1>1 DEF LastOf

(***************************************************************************)
(* The file is the archive or a first part of it; once it is being read    *)
(* the end record is there, and so is everything before it.                *)
(***************************************************************************)
Reading(n, w) ==
  /\ npzFile.len >= EndAt(saved, w) + Eocd
  /\ \E m \in 0 .. n : /\ entriesLeft = n - m /\ entryAt = CentralAt(saved, w, m + 1)
                       /\ loaded = LastOf(saved, m)

Kept(n, w) ==
  /\ saved \in [1 .. n -> Arrays]
  /\ IsPart(npzFile, Archive(saved, w)) /\ (~cut => npzFile = Archive(saved, w))
  /\ \/ reading = "no" /\ loaded = <<>>
     \/ reading = "entries" /\ Reading(n, w)
     \/ reading = "done" /\ loaded = LastOf(saved, n)
     \/ reading = "refused" /\ cut

NpzInv ==
  \/ saved = <<>> /\ ~cut /\ reading = "no" /\ loaded = <<>>
  \/ \E n \in Nat \ {0}, w \in Layouts : Kept(n, w)

\* A sequence saved has an array.
LEMMA NotEmpty ==
  ASSUME NEW n \in Nat \ {0}, NEW arrays \in [1 .. n -> Arrays]
  PROVE  arrays # <<>>
<1>1. 1 \in DOMAIN arrays
  OBVIOUS
<1> QED BY <1>1

\* The writer: the archive is whole, and nothing is read yet.
LEMMA SaveKeeps ==
  ASSUME NpzInv, SaveNpz
  PROVE  NpzInv'
<1>1. PICK arrays \in SeqOf(Arrays, MaxMembers) \ {<<>>}, w \in Layouts :
        /\ saved' = arrays
        /\ npzFile' = FileOf(Records(arrays, w), EndAt(arrays, w) + Eocd + w.comment)
  BY DEF SaveNpz
<1>2. PICK n \in Nat : arrays \in [1 .. n -> Arrays]
  <2>1. MaxMembers \in Nat
    <3>1. Max16 \in Nat
      BY DEF Max16
    <3> QED BY <3>1, NpzAssumption
  <2> QED BY <1>1, <2>1 DEF SeqOf
<1>3. n # 0
  <2>1. ASSUME n = 0 PROVE arrays = <<>>
    <3>1. arrays = [i \in 1 .. 0 |-> arrays[i]]
      BY <1>2, <2>1
    <3>2. 1 .. 0 = {}
      OBVIOUS
    <3>3. arrays = [i \in {} |-> arrays[i]]
      BY <3>1, <3>2, Zenon
    <3>4. \A f : [i \in {} |-> f[i]] = <<>>
      OBVIOUS
    <3> QED BY <3>3, <3>4
  <2> QED BY <1>1, <2>1
<1>4. saved = <<>> /\ UNCHANGED <<cut, reading, loaded>>
  BY DEF SaveNpz
<1>5. ~cut /\ reading = "no" /\ loaded = <<>>
  <2>1. ASSUME NEW k \in Nat \ {0}, NEW v \in Layouts, Kept(k, v) PROVE FALSE
    BY <1>4, <2>1, NotEmpty DEF Kept
  <2> QED BY <2>1 DEF NpzInv
<1>6. npzFile' = Archive(saved', w)
  BY <1>1 DEF Archive
<1>7. Kept(n, w)'
  BY <1>1, <1>2, <1>4, <1>5, <1>6 DEF Kept, IsPart
<1> QED BY <1>3, <1>7 DEF NpzInv

\* A crash: a first part is left.
LEMMA CrashKeeps ==
  ASSUME NpzInv, CrashWhileWriting
  PROVE  NpzInv'
<1>1. saved # <<>> /\ reading = "no" /\ ~cut /\ cut' = TRUE /\ UNCHANGED <<saved, reading, loaded>>
  BY DEF CrashWhileWriting
<1>2. PICK n \in Nat \ {0}, w \in Layouts : Kept(n, w)
  BY <1>1 DEF NpzInv
<1>3. npzFile = Archive(saved, w)
  BY <1>1, <1>2 DEF Kept
<1>4. PICK len \in 0 .. npzFile.len - 1 : npzFile' = CutAt(npzFile, len)
  BY DEF CrashWhileWriting
<1>5. IsPart(npzFile', Archive(saved', w))
  BY <1>1, <1>3, <1>4 DEF IsPart
<1>6. Kept(n, w)'
  BY <1>1, <1>2, <1>5 DEF Kept
<1> QED BY <1>6 DEF NpzInv

\* Opening: with its end record cut off a file is refused, with it the directory is found.
LEMMA OpenKeeps ==
  ASSUME NpzInv, OpenNpz
  PROVE  NpzInv'
<1>1. saved # <<>> /\ reading = "no" /\ UNCHANGED <<saved, npzFile, cut>>
  BY DEF OpenNpz
<1>2. PICK n \in Nat \ {0}, w \in Layouts : Kept(n, w)
  BY <1>1 DEF NpzInv
<1>3. PICK arrays \in [1 .. n -> Arrays] : arrays = saved
  BY <1>2 DEF Kept
<1>4. IsPart(npzFile, Archive(arrays, w)) /\ (~cut => npzFile = Archive(arrays, w)) /\ loaded = <<>>
  BY <1>1, <1>2, <1>3 DEF Kept
<1>5. PICK l \in [1 .. n + 1 -> Nat], c \in [1 .. n + 1 -> Nat], d \in [1 .. n -> Nat], e \in Nat :
        LaidOut(arrays, w, n, l, d, c, e)
  BY ArchiveIsLaidOut
<1>6. PICK file : file = npzFile
  OBVIOUS
<1>7. /\ file.len \in Nat
      /\ file.len >= e + Eocd =>
           /\ file.len <= e + Eocd + Max16
           /\ Holds(file, arrays, w, n, l, d, c, e)
      /\ file.len < e + Eocd =>
           /\ file # Archive(arrays, w)
           /\ \A o \in DOMAIN file.at : file.at[o].sig # "end"
  BY <1>4, <1>5, <1>6, WhatIsLeft
<1>8. PICK len \in Nat : len = file.len
  BY <1>7
<1>9. Eocd = 22 /\ Max16 \in Nat /\ Central = 46
  BY DEF Eocd, Max16, Central
<1>10. CASE len < e + Eocd
  <2>1. Ends = {}
    BY <1>6, <1>7, <1>8, <1>10 DEF Ends
  <2>2. cut
    BY <1>4, <1>6, <1>7, <1>8, <1>10
  <2>3. reading' = "refused"
    BY <2>1 DEF OpenNpz, Refuse
  <2>4. Kept(n, w)'
    BY <1>1, <1>2, <2>2, <2>3 DEF Kept
  <2> QED BY <2>4 DEF NpzInv
<1>11. CASE len >= e + Eocd
  <2>1. len <= e + Eocd + Max16 /\ Holds(file, arrays, w, n, l, d, c, e)
    BY <1>7, <1>8, <1>11
  <2>2. e \in DOMAIN file.at /\ file.at[e] = EndRecord(arrays, w)
    BY <2>1 DEF Holds
  <2>3. file.at[e].sig = "end" /\ file.at[e].zip64 = w.zip64 /\ file.at[e].entries = n
        /\ file.at[e].cd = CentralAt(arrays, w, 1)
    <3>1. Len(arrays) = n
      BY LenProperties
    <3> QED BY <2>2, <3>1 DEF EndRecord
  <2>4. Ends = {e}
    <3>1. e <= len - Eocd /\ len - e <= Eocd + Max16
      BY <1>9, <1>11, <2>1
    <3>2. \A o \in DOMAIN file.at : file.at[o].sig = "end" => o = e
      BY <2>1 DEF Holds
    <3> QED BY <1>6, <1>8, <2>2, <2>3, <3>1, <3>2 DEF Ends
  <2>5. (CHOOSE i \in Ends : \A j \in Ends : j <= i) = e
    BY <2>4
  <2>6. Directory(e).entries = n /\ Directory(e).cd = CentralAt(arrays, w, 1)
    <3>1. CASE ~w.zip64
      BY <1>6, <2>3, <3>1 DEF Directory
    <3>2. CASE w.zip64
      <4>1. PICK z \in Nat : z = c[n + 1]
        <5>1. n + 1 \in 1 .. n + 1
          OBVIOUS
        <5> QED BY <5>1
      <4>2. e = z + 76
        BY <1>5, <3>2, <4>1 DEF LaidOut
      <4>3. e - Z64Locator - Z64End = z
        BY <4>2 DEF Z64Locator, Z64End
      <4>4. file.at[z] = Z64Record(arrays, w)
        BY <2>1, <3>2, <4>1 DEF Holds
      <4>5. Len(arrays) = n
        BY LenProperties
      <4>6. Directory(e) = file.at[z]
        BY <1>6, <2>3, <3>2, <4>3 DEF Directory
      <4> QED BY <4>4, <4>5, <4>6 DEF Z64Record
    <3> QED BY <3>1, <3>2
  <2>7. ~(n > len \div Central)
    <3>1. n * 46 <= c[n + 1] /\ c[n + 1] <= e
      <4>1. n * 46 <= c[n + 1]
        BY <1>5 DEF LaidOut
      <4>2. c[n + 1] <= e
        BY <1>5, OffsetsApart
      <4> QED BY <4>1, <4>2
    <3>2. PICK z \in Nat : z = c[n + 1]
      <4>1. n + 1 \in 1 .. n + 1
        OBVIOUS
      <4> QED BY <4>1
    <3>3. n * 46 <= len
      BY <1>9, <1>11, <3>1, <3>2
    <3>4. n <= len \div 46
      <4>1. PICK k \in Nat : k = n
        OBVIOUS
      <4>2. k * 46 <= len
        BY <3>3, <4>1
      <4>3. k <= len \div 46
        BY <4>2, Z3
      <4> QED BY <4>1, <4>3
    <3>5. len \div 46 \in Nat
      BY Z3
    <3> QED BY <1>9, <3>4, <3>5
  <2>8. ~(len < Eocd \/ Ends = {})
    BY <1>9, <1>11, <2>4
  <2>9. /\ reading' = "entries" /\ entryAt' = CentralAt(arrays, w, 1) /\ entriesLeft' = n
        /\ UNCHANGED loaded
    BY <1>6, <1>8, <2>5, <2>6, <2>7, <2>8 DEF OpenNpz
  <2>10. e = EndAt(arrays, w)
    BY <1>5 DEF LaidOut
  <2>11. npzFile'.len >= EndAt(saved', w) + Eocd
    BY <1>1, <1>3, <1>6, <1>8, <1>11, <2>10
  <2>12. 0 \in 0 .. n /\ entriesLeft' = n - 0 /\ entryAt' = CentralAt(saved', w, 0 + 1)
    BY <1>1, <1>3, <2>9
  <2>13. loaded' = LastOf(saved', 0)
    BY <1>4, <2>9, NothingRead
  <2>14. Reading(n, w)'
    BY <2>11, <2>12, <2>13 DEF Reading
  <2>15. Kept(n, w)'
    BY <1>1, <1>2, <2>9, <2>14 DEF Kept
  <2> QED BY <2>15 DEF NpzInv
<1>12. len < e + Eocd \/ len >= e + Eocd
  BY <1>9
<1> QED BY <1>10, <1>11, <1>12

\* The entry where the reader stands is read, and the next one is next.
IsRead(entry, a, next) ==
  /\ Fits(entryAt, Central, npzFile.len) /\ Signed(entryAt, "central")
  /\ npzFile.at[entryAt] = entry
  /\ EntryOK(entry)
  /\ npzFile.at[DataStart(entry)].array = a
  /\ entryAt + Central + entry.name + entry.extra = next

\* An entry is found, passes every check and leads to its own array.
LEMMA EntryIsRead ==
  ASSUME NEW n \in Nat, NEW arrays \in [1 .. n -> Arrays], NEW w \in Layouts,
         NEW l \in [1 .. n + 1 -> Nat], NEW c \in [1 .. n + 1 -> Nat], NEW d \in [1 .. n -> Nat],
         NEW e \in Nat, LaidOut(arrays, w, n, l, d, c, e),
         Holds(npzFile, arrays, w, n, l, d, c, e), npzFile.len \in Nat, npzFile.len >= e + Eocd,
         NEW i \in 1 .. n, entryAt = c[i]
  PROVE  IsRead(CentralRecord(arrays, w, i), arrays[i], c[i + 1])
<1>0. PICK entry : entry = CentralRecord(arrays, w, i)
  OBVIOUS
<1>1. PICK file : file = npzFile
  OBVIOUS
<1>2. PICK len \in Nat : len = npzFile.len
  OBVIOUS
<1>3. arrays[i] \in Arrays
  OBVIOUS
<1>4. PICK p \in Nat, q \in Nat, k \in Nat, t \in Nat :
        /\ p = NameLen(arrays[i]) /\ q = w.local /\ k = StoredLen(arrays[i], w) /\ t = CdExtra(w)
  BY <1>3, Sizes
<1>5. PICK x \in Nat, x1 \in Nat, y \in Nat, z \in Nat, z1 \in Nat, s \in Nat, last \in Nat :
        /\ x = l[i] /\ x1 = l[i + 1] /\ y = d[i] /\ z = c[i] /\ z1 = c[i + 1]
        /\ s = c[1] /\ last = c[n + 1]
  <2>1. i \in 1 .. n + 1 /\ i + 1 \in 1 .. n + 1 /\ 1 \in 1 .. n + 1 /\ n + 1 \in 1 .. n + 1
    OBVIOUS
  <2> QED BY <2>1
<1>6. /\ d[i] = l[i] + 30 + NameLen(arrays[i]) + w.local
      /\ l[i + 1] = d[i] + StoredLen(arrays[i], w)
      /\ c[i + 1] = c[i] + 46 + NameLen(arrays[i]) + CdExtra(w)
      /\ l[i + 1] <= c[1] /\ c[1] <= c[i] /\ c[i + 1] <= c[n + 1]
      /\ l[i] = LocalAt(arrays, w, i)
  BY DEF LaidOut
<1>7. last <= e
  <2>1. c[n + 1] <= e
    BY OffsetsApart
  <2> QED BY <1>5, <2>1
<1>8. /\ y = x + 30 + p + q /\ x1 = y + k /\ z1 = z + 46 + p + t
      /\ x1 <= s /\ s <= z /\ z1 <= last
  BY <1>4, <1>5, <1>6, Zenon
<1>9. len >= e
  BY <1>2 DEF Eocd
<1>10. /\ entry.sig = "central" /\ entry.name = p /\ entry.extra = t
       /\ entry.deflated = w.deflated /\ entry.comp = k /\ entry.uncomp = NpyLen(arrays[i])
       /\ entry.local = x
  BY <1>0, <1>4, <1>5, <1>6 DEF CentralRecord
<1>11. /\ x \in DOMAIN file.at /\ file.at[x] = LocalRecord(arrays[i], w)
       /\ y \in DOMAIN file.at /\ file.at[y] = Npy(arrays[i], StoredLen(arrays[i], w))
       /\ z \in DOMAIN file.at /\ file.at[z] = entry
  BY <1>0, <1>1, <1>5 DEF Holds
<1>12. file.at[x].sig = "local" /\ file.at[x].name = p /\ file.at[x].extra = q
  BY <1>4, <1>11 DEF LocalRecord
<1>13. file.at[y].sig = "npy" /\ file.at[y].array = arrays[i]
  BY <1>11 DEF Npy
<1>14. DataStart(entry) = y
  BY <1>1, <1>8, <1>10, <1>12 DEF DataStart, Local
<1>15. /\ z <= len /\ 46 <= len - z
       /\ z + 46 <= len /\ p + t <= len - (z + 46)
       /\ x <= len /\ 30 <= len - x
       /\ y <= len /\ k <= len - y
  BY <1>7, <1>8, <1>9
<1>16. Fits(entryAt, Central, npzFile.len) /\ Signed(entryAt, "central")
  BY <1>1, <1>2, <1>5, <1>10, <1>11, <1>15 DEF Fits, Signed, Central
<1>17. EntryOK(entry)
  <2>1. Fits(entryAt + Central, entry.name + entry.extra, npzFile.len)
    BY <1>2, <1>5, <1>10, <1>15 DEF Fits, Central
  <2>2. Fits(entry.local, Local, npzFile.len) /\ Signed(entry.local, "local")
    BY <1>1, <1>2, <1>10, <1>11, <1>12, <1>15 DEF Fits, Signed, Local
  <2>3. Fits(DataStart(entry), entry.comp, npzFile.len)
    BY <1>2, <1>10, <1>14, <1>15 DEF Fits
  <2>4. entry.deflated => entry.uncomp <= entry.comp * 1032 + 1024
    <3>1. PICK a \in Arrays : a = arrays[i]
      BY <1>3
    <3>2. Plausible(a, w) /\ NpyLen(a) \in Nat /\ StoredLen(a, w) \in Nat
      BY Lengths
    <3>3. PICK u \in Nat : u = NpyLen(a)
      BY <3>2
    <3>4. w.deflated => u <= k * 1032 + 1024
      BY <1>4, <3>1, <3>2, <3>3 DEF Plausible
    <3>5. entry.deflated = w.deflated /\ entry.uncomp = u /\ entry.comp = k
      BY <1>10, <3>1, <3>3
    <3> QED BY <3>4, <3>5
  <2>5. ParseOK(DataStart(entry), entry.uncomp)
    <3>1. PICK h \in Nat, data \in Nat :
            /\ h = HeaderLen(arrays[i]) /\ data = DataLen(arrays[i])
            /\ NpyLen(arrays[i]) = 10 + h + data
      <4>1. PICK a \in Arrays : a = arrays[i]
        BY <1>3
      <4>2. PICK v \in Layouts : v = w
        OBVIOUS
      <4>3. /\ HeaderLen(a) \in Nat /\ DataLen(a) \in Nat
            /\ NpyLen(a) = 10 + HeaderLen(a) + DataLen(a)
        BY Lengths
      <4>4. PICK h \in Nat, data \in Nat : h = HeaderLen(a) /\ data = DataLen(a)
        BY <4>3
      <4> QED BY <4>1, <4>3, <4>4, Zenon
    <3>2. entry.uncomp = 10 + h + data
      BY <1>10, <3>1
    <3>3. Signed(y, "npy") /\ npzFile.at[y].array = arrays[i]
      BY <1>1, <1>11, <1>13 DEF Signed
    <3>4. 10 + h + data >= 10 /\ Fits(10, h, 10 + h + data) /\ Fits(10 + h, data, 10 + h + data)
      BY DEF Fits
    <3>5. /\ Fits(10, HeaderLen(arrays[i]), entry.uncomp)
          /\ Fits(10 + HeaderLen(arrays[i]), DataLen(arrays[i]), entry.uncomp)
      BY <3>1, <3>2, <3>4, Zenon
    <3> QED BY <1>14, <3>2, <3>3, <3>4, <3>5 DEF ParseOK
  <2> QED BY <2>1, <2>2, <2>3, <2>4, <2>5 DEF EntryOK
<1>18. npzFile.at[entryAt] = entry /\ npzFile.at[DataStart(entry)].array = arrays[i]
  BY <1>1, <1>5, <1>11, <1>13, <1>14
<1>19. entryAt + Central + entry.name + entry.extra = c[i + 1]
  BY <1>5, <1>8, <1>10 DEF Central
<1> QED BY <1>0, <1>16, <1>17, <1>18, <1>19 DEF IsRead

\* Reading an entry: one more array is loaded, under its name.
LEMMA ReadKeeps ==
  ASSUME NpzInv, ReadEntry
  PROVE  NpzInv'
<1>1. reading = "entries" /\ entriesLeft > 0 /\ UNCHANGED <<saved, npzFile, cut>>
  BY DEF ReadEntry
<1>2. PICK n \in Nat \ {0}, w \in Layouts : Kept(n, w)
  BY <1>1 DEF NpzInv
<1>3. Reading(n, w)
  BY <1>1, <1>2 DEF Kept
<1>4. PICK arrays \in [1 .. n -> Arrays] : arrays = saved
  BY <1>2 DEF Kept
<1>5. PICK l \in [1 .. n + 1 -> Nat], c \in [1 .. n + 1 -> Nat], d \in [1 .. n -> Nat], e \in Nat :
        LaidOut(arrays, w, n, l, d, c, e)
  BY ArchiveIsLaidOut
<1>6. e = EndAt(arrays, w) /\ \A i \in 1 .. n + 1 : c[i] = CentralAt(arrays, w, i)
  <2>1. \A i \in 1 .. n + 1 : i \in 1 .. n \/ i = n + 1
    OBVIOUS
  <2>2. \A i \in 1 .. n : c[i] = CentralAt(arrays, w, i)
    BY <1>5 DEF LaidOut
  <2>3. c[n + 1] = CentralAt(arrays, w, n + 1) /\ e = EndAt(arrays, w)
    BY <1>5 DEF LaidOut
  <2> QED BY <2>1, <2>2, <2>3
<1>7. PICK m \in 0 .. n :
        entriesLeft = n - m /\ entryAt = CentralAt(arrays, w, m + 1) /\ loaded = LastOf(arrays, m)
  BY <1>3, <1>4 DEF Reading
<1>8. PICK i \in 1 .. n : i = m + 1
  <2>1. m + 1 \in 1 .. n
    BY <1>1, <1>7
  <2> QED BY <2>1
<1>9. npzFile.len \in Nat /\ npzFile.len >= e + Eocd /\ Holds(npzFile, arrays, w, n, l, d, c, e)
  <2>1. IsPart(npzFile, Archive(arrays, w))
    BY <1>2, <1>4 DEF Kept
  <2>2. npzFile.len >= e + Eocd
    BY <1>3, <1>4, <1>6 DEF Reading
  <2>3. PICK file : file = npzFile
    OBVIOUS
  <2>4. /\ file.len \in Nat
        /\ file.len >= e + Eocd =>
             /\ file.len <= e + Eocd + Max16
             /\ Holds(file, arrays, w, n, l, d, c, e)
    BY <1>5, <2>1, <2>3, WhatIsLeft
  <2> QED BY <2>2, <2>3, <2>4
<1>10. entryAt = c[i]
  <2>1. i \in 1 .. n + 1
    OBVIOUS
  <2> QED BY <1>6, <1>7, <1>8, <2>1
<1>11. PICK entry : entry = CentralRecord(arrays, w, i)
  OBVIOUS
<1>12. /\ Fits(entryAt, Central, npzFile.len) /\ Signed(entryAt, "central")
       /\ npzFile.at[entryAt] = entry
       /\ EntryOK(entry)
       /\ npzFile.at[DataStart(entry)].array = arrays[i]
       /\ entryAt + Central + entry.name + entry.extra = c[i + 1]
  <2>1. IsRead(CentralRecord(arrays, w, i), arrays[i], c[i + 1])
    BY <1>5, <1>9, <1>10, EntryIsRead
  <2> QED BY <1>11, <2>1 DEF IsRead
<1>13. /\ loaded' = [k \in DOMAIN loaded \cup {arrays[i].key} |->
                       IF k = arrays[i].key THEN arrays[i] ELSE loaded[k]]
       /\ entryAt' = c[i + 1] /\ entriesLeft' = entriesLeft - 1 /\ reading' = reading
  <2>1. entry.key = arrays[i].key
    BY <1>11 DEF CentralRecord
  <2>2. /\ loaded' = [k \in DOMAIN loaded \cup {entry.key} |->
                        IF k = entry.key THEN npzFile.at[DataStart(entry)].array ELSE loaded[k]]
        /\ entryAt' = entryAt + Central + entry.name + entry.extra
        /\ entriesLeft' = entriesLeft - 1 /\ reading' = reading
    BY <1>12 DEF ReadEntry
  <2> QED BY <1>12, <2>1, <2>2
<1>14. loaded' = LastOf(arrays, i)
  <2>1. m \in Nat
    OBVIOUS
  <2>2. LastOf(arrays, m + 1) =
          [k \in DOMAIN LastOf(arrays, m) \cup {arrays[m + 1].key} |->
             IF k = arrays[m + 1].key THEN arrays[m + 1] ELSE LastOf(arrays, m)[k]]
    BY <2>1, LastOfOneMore
  <2> QED BY <1>7, <1>8, <1>13, <2>2
<1>15. /\ i \in 0 .. n /\ entriesLeft' = n - i
       /\ entryAt' = CentralAt(saved', w, i + 1) /\ loaded' = LastOf(saved', i)
  <2>1. n - m - 1 = n - i
    BY <1>8
  <2>2. i + 1 \in 1 .. n + 1
    OBVIOUS
  <2>3. c[i + 1] = CentralAt(arrays, w, i + 1)
    BY <1>6, <2>2
  <2> QED BY <1>1, <1>4, <1>7, <1>13, <1>14, <2>1, <2>3
<1>16. npzFile'.len >= EndAt(saved', w) + Eocd
  BY <1>1, <1>3 DEF Reading
<1>17. Reading(n, w)'
  BY <1>15, <1>16 DEF Reading
<1>18. Kept(n, w)'
  BY <1>1, <1>2, <1>13, <1>17 DEF Kept
<1> QED BY <1>18 DEF NpzInv

\* Closing: all entries were read.
LEMMA CloseKeeps ==
  ASSUME NpzInv, CloseNpz
  PROVE  NpzInv'
<1>1. /\ reading = "entries" /\ entriesLeft = 0 /\ reading' = "done"
      /\ UNCHANGED <<saved, npzFile, cut, loaded>>
  BY DEF CloseNpz
<1>2. PICK n \in Nat \ {0}, w \in Layouts : Kept(n, w)
  BY <1>1 DEF NpzInv
<1>3. PICK m \in 0 .. n : entriesLeft = n - m /\ loaded = LastOf(saved, m)
  BY <1>1, <1>2 DEF Kept, Reading
<1>4. m = n
  BY <1>1, <1>3
<1>5. loaded = LastOf(saved, n)
  BY <1>3, <1>4
<1>6. Kept(n, w)'
  BY <1>1, <1>2, <1>5 DEF Kept
<1> QED BY <1>6 DEF NpzInv

(***************************************************************************)
(* What is read of a calibration file is exactly what was saved, for any   *)
(* arrays, any writer and any place where a crash cuts the file, and a     *)
(* complete file is not refused (npy.cpp:288-344, 389-573).                *)
(***************************************************************************)
THEOREM FilesAreWholeOrRefused == NpzSpec => []WholeOrRefused
<1>1. NpzInit => NpzInv
  BY DEF NpzInit, NpzInv
<1>2. NpzInv /\ [NpzNext]_npzVars => NpzInv'
  <2> SUFFICES ASSUME NpzInv, [NpzNext]_npzVars PROVE NpzInv'
    OBVIOUS
  <2>1. CASE UNCHANGED npzVars
    BY <2>1 DEF NpzInv, Kept, Reading, npzVars
  <2> QED BY <2>1, SaveKeeps, CrashKeeps, OpenKeeps, ReadKeeps, CloseKeeps DEF NpzNext
<1>3. NpzInv => WholeOrRefused
  <2> SUFFICES ASSUME NpzInv PROVE WholeOrRefused
    OBVIOUS
  <2>1. CASE saved = <<>> /\ ~cut /\ reading = "no" /\ loaded = <<>>
    BY <2>1 DEF WholeOrRefused
  <2>2. ASSUME NEW n \in Nat \ {0}, NEW w \in Layouts, Kept(n, w) PROVE WholeOrRefused
    <3>1. DOMAIN saved = 1 .. n
      BY <2>2 DEF Kept
    <3>2. Wanted = LastOf(saved, n)
      BY <3>1 DEF Wanted, LastOf, LastAt
    <3> QED BY <2>2, <3>2 DEF Kept, WholeOrRefused
  <2> QED BY <2>1, <2>2 DEF NpzInv
<1> QED BY <1>1, <1>2, <1>3, PTL DEF NpzSpec

-----------------------------------------------------------------------------
(* The JSON of a line: sequences built by recursion. *)

\* What a sequence of sequences is flattened to grows by each of them.
Grows(g, n, add, S) ==
  /\ g[0] = <<>> /\ \A i \in 0 .. n : g[i] \in Seq(S)
  /\ \A i \in 0 .. n - 1 : g[i + 1] = g[i] \o add[i + 1]

IsFlat(f, n, add) == f = [i \in 1 .. n |-> IF i = 1 THEN add[i] ELSE f[i - 1] \o add[i]]

LEMMA FlattenGrows ==
  ASSUME NEW n \in Nat, NEW S, NEW add \in [1 .. n -> Seq(S)]
  PROVE  \E g : Grows(g, n, add, S) /\ FlattenSeq(add) = g[n]
<1> DEFINE step == [i \in 1 .. n |-> [x \in Seq(S) |-> x \o add[i]]]
<1>1. step \in [1 .. n -> [Seq(S) -> Seq(S)]]
  <2>1. ASSUME NEW i \in 1 .. n, NEW x \in Seq(S) PROVE x \o add[i] \in Seq(S)
    <3>1. add[i] \in Seq(S)
      OBVIOUS
    <3> QED BY <3>1, ConcatProperties
  <2> QED BY <2>1
<1>2. PICK g \in [0 .. n -> Seq(S)] : IsFold(g, n, <<>>, step)
  <2>1. PICK z : z = <<>>
    OBVIOUS
  <2>2. z \in Seq(S)
    BY <2>1
  <2> HIDE DEF step
  <2>3. \E g \in [0 .. n -> Seq(S)] : IsFold(g, n, z, step)
    BY <1>1, <2>2, FoldExists
  <2> QED BY <2>1, <2>3, Zenon
<1>3. g[0] = <<>> /\ \A i \in 1 .. n : g[i] = g[i - 1] \o add[i]
  <2>1. ASSUME NEW i \in 1 .. n PROVE g[i] = g[i - 1] \o add[i]
    <3>1. g[i] = step[i][g[i - 1]]
      BY <1>2 DEF IsFold
    <3>2. g[i - 1] \in Seq(S)
      OBVIOUS
    <3>3. step[i] = [x \in Seq(S) |-> x \o add[i]]
      OBVIOUS
    <3> QED BY <3>1, <3>2, <3>3, Zenon
  <2> QED BY <1>2, <2>1 DEF IsFold
<1>4. Grows(g, n, add, S)
  <2>1. ASSUME NEW i \in 0 .. n - 1 PROVE g[i + 1] = g[i] \o add[i + 1]
    <3>1. PICK j \in 1 .. n : j = i + 1 /\ i = j - 1
      OBVIOUS
    <3>2. g[j] = g[j - 1] \o add[j]
      BY <1>3
    <3> QED BY <3>1, <3>2, Zenon
  <2> QED BY <1>3, <2>1 DEF Grows
<1>5. Len(add) = n
  BY LenProperties
<1>6. CASE n = 0
  <2>1. add = <<>>
    BY <1>6
  <2> QED BY <1>3, <1>4, <1>5, <1>6, <2>1 DEF FlattenSeq
<1>7. CASE n # 0
  <2>1. n \in 1 .. n /\ 1 \in 1 .. n /\ 1 - 1 = 0
    BY <1>7
  <2>2. PICK f : f = [i \in 1 .. n |-> IF i = 1 THEN add[i] ELSE g[i - 1] \o add[i]]
    OBVIOUS
  <2>3. g[1] = add[1]
    <3>1. PICK x \in Seq(S) : x = add[1]
      BY <2>1
    <3>2. <<>> \o x = x
      BY ConcatEmptySeq
    <3>3. g[1] = g[0] \o add[1]
      BY <1>3, <2>1, Zenon
    <3> QED BY <1>3, <3>1, <3>2, <3>3, Zenon
  <2>4. \A i \in 1 .. n : f[i] = g[i]
    <3> TAKE i \in 1 .. n
    <3>1. f[i] = IF i = 1 THEN add[i] ELSE g[i - 1] \o add[i]
      BY <2>2, Zenon
    <3> QED BY <1>3, <2>3, <3>1, Zenon
  <2>5. IsFlat(f, n, add)
    <3>1. PICK h : h = [i \in 1 .. n |-> IF i = 1 THEN add[i] ELSE f[i - 1] \o add[i]]
      OBVIOUS
    <3>2. ASSUME NEW i \in 1 .. n PROVE h[i] = f[i]
      <4>1. h[i] = IF i = 1 THEN add[i] ELSE f[i - 1] \o add[i]
        BY <3>1, Zenon
      <4>2. f[i] = IF i = 1 THEN add[i] ELSE g[i - 1] \o add[i]
        BY <2>2, Zenon
      <4>3. i = 1 \/ i - 1 \in 1 .. n
        OBVIOUS
      <4> QED BY <2>4, <4>1, <4>2, <4>3, Zenon
    <3>3. DOMAIN h = 1 .. n /\ h = [i \in DOMAIN h |-> h[i]]
      BY <3>1, Zenon
    <3>4. DOMAIN f = 1 .. n /\ f = [i \in DOMAIN f |-> f[i]]
      BY <2>2, Zenon
    <3>5. h = f
      BY <3>2, <3>3, <3>4
    <3> QED BY <3>1, <3>5, Zenon DEF IsFlat
  <2>6. PICK d : d = CHOOSE f1 : IsFlat(f1, n, add)
    OBVIOUS
  <2>7. IsFlat(d, n, add)
    BY <2>5, <2>6, Zenon
  <2>8. \A i \in 1 .. n : d[i] = IF i = 1 THEN add[i] ELSE d[i - 1] \o add[i]
    BY <2>7, Zenon DEF IsFlat
  <2> DEFINE T == {i \in 0 .. n : i = 0 \/ d[i] = g[i]}
  <2>9. 0 \in T
    OBVIOUS
  <2>10. ASSUME NEW i \in 0 .. n - 1, i \in T PROVE i + 1 \in T
    <3>1. PICK j \in 1 .. n : j = i + 1 /\ i = j - 1 /\ j \in 0 .. n
      OBVIOUS
    <3>2. d[j] = IF j = 1 THEN add[j] ELSE d[j - 1] \o add[j]
      BY <2>8
    <3>3. j = 1 \/ (j # 1 /\ i # 0)
      BY <3>1
    <3>4. i = 0 \/ d[i] = g[i]
      BY <2>10
    <3>5. g[j] = g[j - 1] \o add[j]
      BY <1>3
    <3>6. d[j] = g[j]
      BY <2>3, <3>1, <3>2, <3>3, <3>4, <3>5, Zenon
    <3> QED BY <3>1, <3>6
  <2> HIDE DEF T
  <2>11. \A i \in 0 .. n : i \in T
    BY <2>9, <2>10, FirstNumbers
  <2>12. d[n] = g[n]
    BY <1>7, <2>11 DEF T
  <2>13. FlattenSeq(add) = d[n]
    BY <1>5, <1>7, <2>6, Zenon DEF FlattenSeq, IsFlat
  <2> QED BY <1>4, <2>12, <2>13, Zenon
<1> QED BY <1>6, <1>7

\* Where the parts of an array or object start in what is written of it.
Starts(parts) ==
  [i \in 1 .. Len(parts) + 1 |-> 2 + Sums([j \in 1 .. Len(parts) |-> Len(parts[j]) + 1])[i - 1]]

LEMMA StartsAre ==
  ASSUME NEW n \in Nat, NEW S, NEW parts \in [1 .. n -> Seq(S)]
  PROVE  /\ Starts(parts) \in [1 .. n + 1 -> Nat] /\ Starts(parts)[1] = 2
         /\ \A i \in 1 .. n : Starts(parts)[i + 1] = Starts(parts)[i] + Len(parts[i]) + 1
<1>1. Len(parts) = n
  BY LenProperties
<1>2. PICK a \in [1 .. n -> Int] :
        /\ a = [j \in 1 .. n |-> Len(parts[j]) + 1]
        /\ \A j \in 1 .. n : a[j] >= 1 /\ a[j] = Len(parts[j]) + 1 /\ Len(parts[j]) \in Nat
  <2>1. \A j \in 1 .. n : Len(parts[j]) \in Nat
    <3> TAKE j \in 1 .. n
    <3>1. parts[j] \in Seq(S)
      OBVIOUS
    <3> QED BY <3>1, LenProperties
  <2>2. PICK a : a = [j \in 1 .. n |-> Len(parts[j]) + 1]
    OBVIOUS
  <2>3. \A j \in 1 .. n : a[j] = Len(parts[j]) + 1 /\ a[j] \in Int /\ a[j] >= 1
    BY <2>1, <2>2
  <2>4. a \in [1 .. n -> Int]
    <3>1. DOMAIN a = 1 .. n /\ a = [j \in DOMAIN a |-> a[j]]
      BY <2>2, Zenon
    <3> QED BY <2>3, <3>1
  <2> QED BY <2>1, <2>2, <2>3, <2>4
<1>3. PICK u : u = Sums(a)
  OBVIOUS
<1>4. u \in [0 .. n -> Int] /\ u[0] = 0 /\ \A i \in 0 .. n - 1 : u[i + 1] = u[i] + a[i + 1]
  BY <1>3, SumsAre
<1> DEFINE T == {i \in 0 .. n : u[i] >= 0}
<1>5. 0 \in T
  BY <1>4
<1>6. ASSUME NEW i \in 0 .. n - 1, i \in T PROVE i + 1 \in T
  <2>1. i + 1 \in 1 .. n /\ i \in 0 .. n /\ i + 1 \in 0 .. n
    OBVIOUS
  <2>2. u[i] \in Int /\ a[i + 1] >= 1 /\ a[i + 1] \in Int
    BY <1>2, <1>4, <2>1
  <2> QED BY <1>4, <1>6, <2>1, <2>2
<1> HIDE DEF T
<1>7. \A i \in 0 .. n : i \in T
  BY <1>5, <1>6, FirstNumbers
<1>8. Starts(parts) = [i \in 1 .. n + 1 |-> 2 + u[i - 1]]
  BY <1>1, <1>2, <1>3 DEF Starts
<1>9. ASSUME NEW i \in 1 .. n + 1 PROVE 2 + u[i - 1] \in Nat
  <2>1. i - 1 \in 0 .. n
    OBVIOUS
  <2> QED BY <1>4, <1>7, <2>1 DEF T
<1>10. ASSUME NEW i \in 1 .. n
       PROVE  2 + u[i + 1 - 1] = (2 + u[i - 1]) + Len(parts[i]) + 1
  <2>1. PICK j \in 0 .. n - 1 : j = i - 1 /\ i = j + 1
    OBVIOUS
  <2>2. u[j + 1] = u[j] + a[j + 1] /\ u[j] \in Int
    BY <1>4
  <2>3. Len(parts[i]) \in Nat /\ a[i] = Len(parts[i]) + 1
    BY <1>2
  <2>4. u[i] = u[j] + a[i]
    BY <2>1, <2>2, Zenon
  <2>5. u[i + 1 - 1] = u[i] /\ u[i - 1] = u[j]
    <3>1. i + 1 - 1 = i
      OBVIOUS
    <3> QED BY <2>1, <3>1, Zenon
  <2>6. PICK x \in Int, l \in Nat : x = u[j] /\ l = Len(parts[i])
    BY <2>2, <2>3
  <2>7. u[i] = x + (l + 1)
    BY <2>3, <2>4, <2>6, Zenon
  <2>8. 2 + (x + (l + 1)) = (2 + x) + l + 1
    OBVIOUS
  <2> QED BY <2>5, <2>6, <2>7, <2>8, Zenon
<1> QED BY <1>4, <1>8, <1>9, <1>10

\* Tokens: signs, keys, and what a scalar is written as.
Tok ==
  [kind : {"sign", "string", "float", "nan", "inf", "-inf", "null", "true", "false", "int"},
   v    : {"begin_array", "end_array", "begin_object", "end_object", "comma", "colon", "none"}
            \cup {<<k>> : k \in Keys}
            \cup {v.value : v \in Nested} \cup {Escaped(v.value) : v \in Nested}]

\* A sequence behind another.
LEMMA Joined ==
  ASSUME NEW S, NEW x \in Seq(S), NEW y \in Seq(S)
  PROVE  /\ x \o y \in Seq(S) /\ Len(x \o y) = Len(x) + Len(y)
         /\ Len(x) \in Nat /\ Len(y) \in Nat
         /\ \A k \in 1 .. Len(x) : (x \o y)[k] = x[k]
         /\ \A k \in 1 .. Len(y) : (x \o y)[Len(x) + k] = y[k]
<1>1. PICK m \in Nat, n \in Nat : m = Len(x) /\ n = Len(y)
  BY LenProperties
<1>2. x \o y \in Seq(S) /\ Len(x \o y) = m + n
  BY <1>1, ConcatProperties
<1>3. \A k \in 1 .. m + n : (x \o y)[k] = IF k <= m THEN x[k] ELSE y[k - m]
  BY <1>1, ConcatProperties
<1>4. ASSUME NEW k \in 1 .. m PROVE (x \o y)[k] = x[k]
  <2>1. k \in 1 .. m + n /\ k <= m
    OBVIOUS
  <2> QED BY <1>3, <2>1
<1>5. ASSUME NEW k \in 1 .. n PROVE (x \o y)[m + k] = y[k]
  <2>1. PICK j \in 1 .. m + n : j = m + k /\ ~(j <= m) /\ j - m = k
    OBVIOUS
  <2>2. (x \o y)[j] = y[j - m]
    BY <1>3, <2>1
  <2> QED BY <2>1, <2>2
<1> QED BY <1>1, <1>2, <1>4, <1>5

\* One element behind a sequence.
LEMMA Added ==
  ASSUME NEW S, NEW x \in Seq(S), NEW e \in S
  PROVE  /\ Append(x, e) \in Seq(S) /\ Len(Append(x, e)) = Len(x) + 1 /\ Len(x) \in Nat
         /\ \A k \in 1 .. Len(x) : Append(x, e)[k] = x[k]
         /\ Append(x, e)[Len(x) + 1] = e
BY AppendProperties, LenProperties

\* A token, or a sequence of them, stands in another behind a place.
At(w, p, t) == p \in 1 .. Len(w) /\ w[p] = t

Stands(x, place, w) == \A k \in 1 .. Len(x) : At(w, place + k, x[k])

\* The parts of an array or object stand in what is written of it.
LaidIn(w, parts, n, s, open, close) ==
  /\ w \in Seq(Tok) /\ At(w, 1, Sign(open))
  /\ n = 0 => Len(w) = 2 /\ At(w, 2, Sign(close))
  /\ n > 0 => Len(w) = s[n + 1] - 1
  /\ \A i \in 1 .. n : /\ Stands(parts[i], s[i] - 1, w)
                       /\ At(w, s[i + 1] - 1, Sign(IF i < n THEN "comma" ELSE close))

LEMMA SignsAre == \A x \in {"begin_array", "end_array", "begin_object", "end_object", "comma", "colon"} : Sign(x) \in Tok
BY DEF Sign, Tok

\* The first m of some sequences stand where they should, behind one sign.
Stand(x, m, s, add) ==
  /\ s[m + 1] = Len(x) + 2
  /\ \A i \in 1 .. m : \A k \in 1 .. Len(add[i]) :
       s[i] + k - 2 \in 1 .. Len(x) /\ x[s[i] + k - 2] = add[i][k]

LEMMA OneMoreStands ==
  ASSUME NEW S, NEW x \in Seq(S), NEW m \in Nat, NEW s, NEW add,
         NEW y \in Seq(S), y = add[m + 1], Stand(x, m, s, add),
         s[m + 1 + 1] = s[m + 1] + Len(y)
  PROVE  Stand(x \o y, m + 1, s, add)
<1>1. PICK p \in Nat, q \in Nat : p = Len(x) /\ q = Len(y)
  BY LenProperties
<1>2. PICK w : w = x \o y
  OBVIOUS
<1>3. /\ Len(w) = p + q
      /\ \A k \in 1 .. p : w[k] = x[k]
      /\ \A k \in 1 .. q : w[p + k] = y[k]
  BY <1>1, <1>2, Joined
<1>4. s[m + 1] = p + 2
  BY <1>1 DEF Stand
<1>5. s[m + 1 + 1] = p + q + 2
  <2>1. s[m + 1 + 1] = (p + 2) + q
    BY <1>1, <1>4, Zenon
  <2>2. (p + 2) + q = p + q + 2
    OBVIOUS
  <2> QED BY <2>1, <2>2, Zenon
<1>6. ASSUME NEW i \in 1 .. m + 1, NEW k \in 1 .. Len(add[i])
      PROVE  s[i] + k - 2 \in 1 .. p + q /\ w[s[i] + k - 2] = add[i][k]
  <2>1. CASE i \in 1 .. m
    <3>1. PICK j \in 1 .. p : j = s[i] + k - 2 /\ x[j] = add[i][k]
      BY <1>1, <1>6, <2>1 DEF Stand
    <3>2. j \in 1 .. p + q
      OBVIOUS
    <3> QED BY <1>3, <3>1, <3>2, Zenon
  <2>2. CASE i = m + 1
    <3>1. add[i] = y /\ s[i] = p + 2
      BY <1>4, <2>2
    <3>2. k \in 1 .. q
      BY <1>1, <3>1
    <3>3. s[i] + k - 2 = p + k /\ p + k \in 1 .. p + q
      BY <3>1, <3>2
    <3> QED BY <1>3, <3>1, <3>2, <3>3, Zenon
  <2> QED BY <2>1, <2>2
<1>8. Len(w) = p + q /\ s[m + 1 + 1] = Len(w) + 2
  BY <1>3, <1>5, Zenon
<1>9. \A i \in 1 .. m + 1 : \A k \in 1 .. Len(add[i]) :
        s[i] + k - 2 \in 1 .. Len(w) /\ w[s[i] + k - 2] = add[i][k]
  BY <1>6, <1>8, Zenon
<1> QED BY <1>2, <1>8, <1>9, Zenon DEF Stand

\* What is flattened stands where it should, its lengths added up.
LEMMA FlattenStands ==
  ASSUME NEW n \in Nat, NEW S, NEW add \in [1 .. n -> Seq(S)], NEW g, Grows(g, n, add, S),
         NEW s \in [1 .. n + 1 -> Nat], s[1] = 2,
         \A i \in 1 .. n : s[i + 1] = s[i] + Len(add[i])
  PROVE  \A m \in 0 .. n : g[m] \in Seq(S) /\ Stand(g[m], m, s, add)
<1> DEFINE T == {m \in 0 .. n : Stand(g[m], m, s, add)}
<1>1. 0 \in T
  <2>1. g[0] = <<>> /\ Len(g[0]) = 0
    BY DEF Grows
  <2> QED BY <2>1 DEF Stand
<1>2. ASSUME NEW m \in 0 .. n - 1, m \in T PROVE m + 1 \in T
  <2>1. m \in Nat /\ m + 1 \in 1 .. n /\ m \in 0 .. n /\ m + 1 \in 0 .. n
    OBVIOUS
  <2>2. PICK x \in Seq(S), y \in Seq(S) : x = g[m] /\ y = add[m + 1]
    BY <2>1 DEF Grows
  <2>3. g[m + 1] = x \o y
    BY <2>2, Zenon DEF Grows
  <2>4. s[m + 1 + 1] = s[m + 1] + Len(y)
    BY <2>1, <2>2, Zenon
  <2>5. Stand(x, m, s, add)
    BY <1>2, <2>2
  <2>6. Stand(x \o y, m + 1, s, add)
    BY <2>1, <2>2, <2>4, <2>5, OneMoreStands
  <2>7. Stand(g[m + 1], m + 1, s, add)
    BY <2>3, <2>6, Zenon
  <2> QED BY <2>1, <2>7
<1> HIDE DEF T
<1>3. \A m \in 0 .. n : m \in T
  BY <1>1, <1>2, FirstNumbers
<1> QED BY <1>3 DEF T, Grows

LEMMA EnclosedIs ==
  ASSUME NEW n \in Nat, NEW parts \in [1 .. n -> Seq(Tok)],
         NEW open \in {"begin_array", "begin_object"}, NEW close \in {"end_array", "end_object"}
  PROVE  LaidIn(Enclosed(open, parts, close), parts, n, Starts(parts), open, close)
<1>1. Len(parts) = n /\ Sign(open) \in Tok /\ Sign(close) \in Tok /\ Sign("comma") \in Tok
  <2>1. Len(parts) = n
    BY LenProperties
  <2> QED BY <2>1, SignsAre
<1>2. PICK sep : sep = [i \in 1 .. n |-> Sign(IF i < n THEN "comma" ELSE close)]
  OBVIOUS
<1>3. \A i \in 1 .. n : sep[i] \in Tok /\ sep[i] = Sign(IF i < n THEN "comma" ELSE close)
  BY <1>1, <1>2
<1>4. PICK add : add = [i \in 1 .. n |-> Append(parts[i], Sign(IF i < n THEN "comma" ELSE close))]
  OBVIOUS
<1>5. ASSUME NEW i \in 1 .. n
      PROVE  /\ add[i] \in Seq(Tok) /\ Len(add[i]) = Len(parts[i]) + 1 /\ Len(parts[i]) \in Nat
             /\ \A k \in 1 .. Len(parts[i]) : add[i][k] = parts[i][k]
             /\ add[i][Len(parts[i]) + 1] = sep[i]
  <2>1. add[i] = Append(parts[i], sep[i])
    BY <1>3, <1>4, Zenon
  <2>2. parts[i] \in Seq(Tok) /\ sep[i] \in Tok
    BY <1>3
  <2>3. PICK x \in Seq(Tok), e \in Tok : x = parts[i] /\ e = sep[i]
    BY <2>2, Zenon
  <2> QED BY <2>1, <2>3, Added
<1>6. add \in [1 .. n -> Seq(Tok)]
  <2>1. DOMAIN add = 1 .. n /\ add = [i \in DOMAIN add |-> add[i]]
    BY <1>4, Zenon
  <2> QED BY <1>5, <2>1
<1>7. PICK s \in [1 .. n + 1 -> Nat] : s = Starts(parts)
  BY StartsAre
<1>8. s[1] = 2 /\ \A i \in 1 .. n : s[i + 1] = s[i] + Len(add[i])
  <2>1. ASSUME NEW i \in 1 .. n PROVE s[i + 1] = s[i] + Len(add[i])
    <3>1. s[i + 1] = s[i] + Len(parts[i]) + 1
      BY <1>7, StartsAre
    <3>2. PICK x \in Nat, y \in Nat : x = s[i] /\ y = Len(parts[i])
      <4>1. s[i] \in Nat
        OBVIOUS
      <4>2. Len(parts[i]) \in Nat
        BY <1>5, Zenon
      <4> QED BY <4>1, <4>2, Zenon
    <3>3. Len(add[i]) = y + 1
      BY <1>5, <3>2, Zenon
    <3>4. s[i + 1] = x + y + 1
      BY <3>1, <3>2, Zenon
    <3>5. x + y + 1 = x + (y + 1)
      OBVIOUS
    <3> QED BY <3>2, <3>3, <3>4, <3>5, Zenon
  <2>2. s[1] = 2
    BY <1>7, StartsAre
  <2> QED BY <2>1, <2>2
<1>9. PICK w : w = Enclosed(open, parts, close)
  OBVIOUS
<1>10. CASE n = 0
  <2>1. parts = <<>>
    BY <1>10
  <2>2. w = <<Sign(open), Sign(close)>>
    BY <1>9, <2>1 DEF Enclosed
  <2>3. PICK e \in Tok, f \in Tok : e = Sign(open) /\ f = Sign(close)
    BY <1>1, Zenon
  <2>4. w \in Seq(Tok) /\ Len(w) = 2 /\ w[1] = e /\ w[2] = f
    BY <2>2, <2>3
  <2> QED BY <1>9, <1>10, <2>3, <2>4 DEF LaidIn, At
<1>11. CASE n # 0
  <2>1. PICK g : Grows(g, n, add, Tok) /\ FlattenSeq(add) = g[n]
    BY <1>6, FlattenGrows
  <2>2. n \in 0 .. n /\ parts # <<>> /\ DOMAIN parts = 1 .. n
    BY <1>1, <1>11
  <2>3. PICK x \in Seq(Tok) : x = g[n] /\ Stand(x, n, s, add)
    <3>1. \A m \in 0 .. n : g[m] \in Seq(Tok) /\ Stand(g[m], m, s, add)
      BY <1>6, <1>8, <2>1, FlattenStands
    <3> QED BY <2>2, <3>1
  <2>4. w = <<Sign(open)>> \o x
    BY <1>1, <1>4, <1>9, <2>1, <2>2, <2>3, Zenon DEF Enclosed
  <2>5. PICK z \in Seq(Tok) : z = <<Sign(open)>> /\ Len(z) = 1 /\ z[1] = Sign(open)
    <3>1. PICK e \in Tok : e = Sign(open)
      BY <1>1, Zenon
    <3>2. PICK z : z = <<e>>
      OBVIOUS
    <3>3. z \in Seq(Tok) /\ Len(z) = 1 /\ z[1] = e
      BY <3>2
    <3> QED BY <3>1, <3>2, <3>3, Zenon
  <2>6. PICK p \in Nat : p = Len(x)
    BY LenProperties
  <2>7. /\ w \in Seq(Tok) /\ Len(w) = 1 + p /\ w[1] = Sign(open)
        /\ \A k \in 1 .. p : w[1 + k] = x[k]
    BY <2>4, <2>5, <2>6, Joined
  <2>8. s[n + 1] = p + 2 /\ Len(w) = s[n + 1] - 1
    BY <2>3, <2>6, <2>7 DEF Stand
  <2>9. ASSUME NEW i \in 1 .. n, NEW k \in 1 .. Len(add[i])
        PROVE  At(w, (s[i] - 1) + k, add[i][k])
    <3>1. PICK j \in 1 .. p : j = s[i] + k - 2 /\ x[j] = add[i][k]
      BY <2>3, <2>6 DEF Stand
    <3>2. s[i] \in Nat
      BY <1>7
    <3>3. 1 + j = (s[i] - 1) + k /\ 1 + j \in 1 .. 1 + p
      <4>1. PICK l \in Nat : l = Len(add[i])
        BY <1>5
      <4>2. k \in 1 .. l
        BY <4>1
      <4>3. PICK a \in Nat : a = s[i]
        BY <3>2
      <4>4. j = a + k - 2
        BY <3>1, <4>3, Zenon
      <4>5. 1 + j = (a - 1) + k /\ 1 + j \in 1 .. 1 + p
        <5>1. 1 + j \in 1 .. 1 + p
          <6>1. \A b \in Nat : \A c \in 1 .. b : 1 + c \in 1 .. 1 + b
            OBVIOUS
          <6> QED BY <6>1, Zenon
        <5>2. k \in Int
          BY <4>2
        <5> QED BY <4>3, <4>4, <5>1, <5>2
      <4> QED BY <4>3, <4>5, Zenon
    <3>4. w[1 + j] = add[i][k]
      BY <2>7, <3>1, Zenon
    <3> QED BY <2>7, <3>3, <3>4, Zenon DEF At
  <2>10. ASSUME NEW i \in 1 .. n
         PROVE  /\ Stands(parts[i], s[i] - 1, w)
                /\ At(w, s[i + 1] - 1, Sign(IF i < n THEN "comma" ELSE close))
    <3>1. PICK l \in Nat, a \in Nat : l = Len(parts[i]) /\ a = s[i] /\ Len(add[i]) = l + 1
      <4>1. Len(parts[i]) \in Nat /\ Len(add[i]) = Len(parts[i]) + 1
        BY <1>5, Zenon
      <4>2. s[i] \in Nat
        BY <1>7
      <4> QED BY <4>1, <4>2, Zenon
    <3>2. ASSUME NEW k \in 1 .. Len(parts[i]) PROVE At(w, (s[i] - 1) + k, parts[i][k])
      <4>1. k \in 1 .. Len(add[i])
        BY <3>1
      <4>2. At(w, (s[i] - 1) + k, add[i][k])
        BY <2>9, <4>1, Zenon
      <4>3. add[i][k] = parts[i][k]
        BY <1>5
      <4> QED BY <4>2, <4>3, Zenon
    <3>3. s[i + 1] - 1 = (s[i] - 1) + (l + 1) /\ l + 1 \in 1 .. Len(add[i])
      <4>1. s[i + 1] = a + (l + 1) /\ s[i] = a
        BY <1>8, <3>1, Zenon
      <4>2. l + 1 \in 1 .. l + 1 /\ (a + (l + 1)) - 1 = (a - 1) + (l + 1)
        OBVIOUS
      <4> QED BY <3>1, <4>1, <4>2, Zenon
    <3>4. At(w, (s[i] - 1) + (l + 1), add[i][l + 1])
      BY <2>9, <3>3, Zenon
    <3>5. add[i][l + 1] = sep[i]
      BY <1>5, <3>1, Zenon
    <3>6. At(w, s[i + 1] - 1, Sign(IF i < n THEN "comma" ELSE close))
      BY <1>3, <3>3, <3>4, <3>5, Zenon
    <3> QED BY <3>2, <3>6 DEF Stands
  <2>11. At(w, 1, Sign(open))
    <3>1. 1 \in 1 .. 1 + p
      OBVIOUS
    <3> QED BY <2>7, <3>1, Zenon DEF At
  <2> QED BY <1>7, <1>9, <1>11, <2>7, <2>8, <2>10, <2>11 DEF LaidIn
<1> QED BY <1>10, <1>11

Units == Chars \cup {"high", "low"}

\* How a sequence grows, in one step.
Longer(g, i, add, S) ==
  /\ g[i] \in Seq(S) /\ g[i + 1] \in Seq(S) /\ add[i + 1] \in Seq(S)
  /\ g[i + 1] = g[i] \o add[i + 1]
  /\ Len(g[i]) \in Nat /\ Len(g[i + 1]) = Len(g[i]) + Len(add[i + 1])

LEMMA GrowsBy ==
  ASSUME NEW n \in Nat, NEW S, NEW add \in [1 .. n -> Seq(S)], NEW g, Grows(g, n, add, S),
         NEW i \in 0 .. n - 1
  PROVE  Longer(g, i, add, S)
<1>1. PICK x \in Seq(S), y \in Seq(S) : x = g[i] /\ y = add[i + 1]
  <2>1. i \in 0 .. n /\ i + 1 \in 1 .. n
    OBVIOUS
  <2> QED BY <2>1 DEF Grows
<1>2. g[i + 1] = x \o y
  BY <1>1, Zenon DEF Grows
<1>3. x \o y \in Seq(S) /\ Len(x \o y) = Len(x) + Len(y) /\ Len(x) \in Nat
  BY Joined
<1> QED BY <1>1, <1>2, <1>3, Zenon DEF Longer

\* The characters of a string stand, escaped, where they should.
IsEscaped(string, n, e, g) ==
  /\ e \in [1 .. n -> Seq(Units)] /\ Grows(g, n, e, Units)
  /\ Escaped(string) = g[n] /\ g[n] \in Seq(Units)
  /\ \A i \in 1 .. n : e[i] = IF string[i] = "astral" THEN <<"high", "low">> ELSE <<string[i]>>
  /\ \A i \in 1 .. n : \A k \in 1 .. Len(e[i]) :
       /\ Len(g[i - 1]) + k \in 1 .. Len(g[n])
       /\ g[n][Len(g[i - 1]) + k] = e[i][k]

LEMMA EscapedStands ==
  ASSUME NEW n \in Nat, NEW string \in [1 .. n -> Chars]
  PROVE  \E e, g : IsEscaped(string, n, e, g)
<1>1. PICK e : e = [i \in 1 .. n |-> IF string[i] = "astral" THEN <<"high", "low">>
                                     ELSE <<string[i]>>]
  OBVIOUS
<1>2. \A i \in 1 .. n : e[i] = IF string[i] = "astral" THEN <<"high", "low">> ELSE <<string[i]>>
  BY <1>1, Zenon
<1>3. e \in [1 .. n -> Seq(Units)]
  <2>1. ASSUME NEW i \in 1 .. n PROVE e[i] \in Seq(Units)
    <3>1. PICK c : c = string[i] /\ c \in Units
      BY DEF Units
    <3>2. <<c>> \in Seq(Units) /\ <<"high", "low">> \in Seq(Units)
      BY <3>1 DEF Units
    <3> QED BY <1>2, <3>1, <3>2
  <2>2. DOMAIN e = 1 .. n /\ e = [i \in DOMAIN e |-> e[i]]
    BY <1>1, Zenon
  <2> QED BY <2>1, <2>2
<1>4. PICK g : Grows(g, n, e, Units) /\ FlattenSeq(e) = g[n]
  BY <1>3, FlattenGrows
<1>5. Escaped(string) = g[n]
  <2>1. DOMAIN string = 1 .. n
    OBVIOUS
  <2> QED BY <1>1, <1>4, <2>1, Zenon DEF Escaped
<1>6. \A i \in 0 .. n : g[i] \in Seq(Units) /\ Len(g[i]) \in Nat
  <2> TAKE i \in 0 .. n
  <2>1. g[i] \in Seq(Units)
    BY <1>4 DEF Grows
  <2> QED BY <2>1, LenProperties
<1>7. PICK s : s = [i \in 1 .. n + 1 |-> Len(g[i - 1]) + 2]
  OBVIOUS
<1>8. \A i \in 1 .. n + 1 : s[i] = Len(g[i - 1]) + 2 /\ s[i] \in Nat
  <2> TAKE i \in 1 .. n + 1
  <2>1. i - 1 \in 0 .. n
    OBVIOUS
  <2>2. PICK l \in Nat : l = Len(g[i - 1])
    BY <1>6, <2>1
  <2> QED BY <1>7, <2>2
<1>9. s \in [1 .. n + 1 -> Nat]
  <2>1. DOMAIN s = 1 .. n + 1 /\ s = [i \in DOMAIN s |-> s[i]]
    BY <1>7, Zenon
  <2> QED BY <1>8, <2>1
<1>10. s[1] = 2
  <2>1. g[0] = <<>> /\ 1 - 1 = 0 /\ 1 \in 1 .. n + 1
    BY <1>4 DEF Grows
  <2>2. Len(g[1 - 1]) = 0
    BY <2>1
  <2> QED BY <1>8, <2>1, <2>2
<1>11. ASSUME NEW i \in 1 .. n PROVE s[i + 1] = s[i] + Len(e[i])
  <2>1. PICK j \in 0 .. n - 1 : j = i - 1 /\ i = j + 1
    OBVIOUS
  <2>2. Len(g[j + 1]) = Len(g[j]) + Len(e[j + 1]) /\ e[j + 1] \in Seq(Units)
        /\ Len(g[j]) \in Nat
    <3>1. Longer(g, j, e, Units)
      BY <1>3, <1>4, GrowsBy
    <3> QED BY <3>1 DEF Longer
  <2>3. PICK x \in Nat, y \in Nat : x = Len(g[j]) /\ y = Len(e[j + 1])
    BY <2>2, LenProperties
  <2>4. s[i + 1] = Len(g[j + 1]) + 2 /\ s[i] = x + 2
    <3>1. i \in 1 .. n + 1 /\ i + 1 \in 1 .. n + 1 /\ i + 1 - 1 = j + 1
      BY <2>1
    <3>2. s[i + 1] = Len(g[i + 1 - 1]) + 2 /\ s[i] = Len(g[i - 1]) + 2
      BY <1>8, <3>1
    <3> QED BY <2>1, <2>3, <3>1, <3>2, Zenon
  <2>5. (x + y) + 2 = (x + 2) + y
    OBVIOUS
  <2> QED BY <2>1, <2>2, <2>3, <2>4, <2>5, Zenon
<1>12. Stand(g[n], n, s, e)
  <2>1. \A m \in 0 .. n : Stand(g[m], m, s, e)
    BY <1>3, <1>4, <1>9, <1>10, <1>11, FlattenStands
  <2> QED BY <2>1
<1>13. ASSUME NEW i \in 1 .. n, NEW k \in 1 .. Len(e[i])
       PROVE  Len(g[i - 1]) + k \in 1 .. Len(g[n]) /\ g[n][Len(g[i - 1]) + k] = e[i][k]
  <2>1. i - 1 \in 0 .. n /\ i \in 1 .. n + 1
    OBVIOUS
  <2>2. PICK l \in Nat : l = Len(g[i - 1]) /\ s[i] = l + 2
    BY <1>6, <1>8, <2>1
  <2>3. k \in Nat
    <3>1. PICK y \in Nat : y = Len(e[i])
      <4>1. e[i] \in Seq(Units)
        BY <1>3
      <4> QED BY <4>1, LenProperties
    <3> QED BY <3>1
  <2>4. s[i] + k - 2 = l + k
    BY <2>2, <2>3
  <2> QED BY <1>12, <2>2, <2>4, Zenon DEF Stand
<1>14. g[n] \in Seq(Units)
  BY <1>6
<1>15. IsEscaped(string, n, e, g)
  BY <1>2, <1>3, <1>4, <1>5, <1>13, <1>14, Zenon DEF IsEscaped
<1> QED BY <1>15, Zenon

\* What is written of a string is read back.
LEMMA StringsReadBack ==
  ASSUME NEW string \in Seq(Chars) PROVE Unescaped(Escaped(string)) = string
<1>1. PICK n \in Nat : n = Len(string) /\ string \in [1 .. n -> Chars]
  BY LenProperties
<1>2. PICK e, g : IsEscaped(string, n, e, g)
  BY <1>1, EscapedStands
<1>3. PICK units \in Seq(Units) : units = Escaped(string) /\ units = g[n]
  BY <1>2, Zenon DEF IsEscaped
<1>4. PICK l \in Nat : l = Len(units) /\ units \in [1 .. l -> Units]
  BY LenProperties
<1>5. PICK r : r = [i \in 1 .. l |->
                      IF IsPair(units, i) THEN <<>>
                      ELSE <<IF IsPair(units, i - 1) THEN "astral" ELSE units[i]>>]
  OBVIOUS
<1> DEFINE U == Units \cup {"astral"}
<1>6. \A i \in 1 .. l : r[i] = IF IsPair(units, i) THEN <<>>
                               ELSE <<IF IsPair(units, i - 1) THEN "astral" ELSE units[i]>>
  BY <1>5, Zenon
<1>7. r \in [1 .. l -> Seq(U)]
  <2>1. ASSUME NEW i \in 1 .. l PROVE r[i] \in Seq(U)
    <3>1. PICK c : c = (IF IsPair(units, i - 1) THEN "astral" ELSE units[i])
      OBVIOUS
    <3>2. c \in U
      BY <1>4, <3>1
    <3>3. <<c>> \in Seq(U) /\ <<>> \in Seq(U)
      BY <3>2
    <3> QED BY <1>6, <3>1, <3>3, Zenon
  <2>2. DOMAIN r = 1 .. l /\ r = [i \in DOMAIN r |-> r[i]]
    BY <1>5, Zenon
  <2> QED BY <2>1, <2>2
<1> HIDE DEF U
<1>8. PICK h : Grows(h, l, r, U) /\ FlattenSeq(r) = h[l]
  BY <1>7, FlattenGrows
<1>9. Unescaped(units) = h[l]
  <2>1. DOMAIN units = 1 .. l
    BY <1>4
  <2> QED BY <1>5, <1>8, <2>1, Zenon DEF Unescaped
<1> DEFINE T == {m \in 0 .. n : h[Len(g[m])] = SubSeq(string, 1, m)}
<1>10. 0 \in T
  <2>1. Len(g[0]) = 0 /\ h[0] = <<>>
    BY <1>2, <1>8 DEF IsEscaped, Grows
  <2>2. SubSeq(string, 1, 0) = <<>>
    BY <1>1
  <2>3. h[Len(g[0])] = SubSeq(string, 1, 0)
    BY <2>1, <2>2, Zenon
  <2> QED BY <2>3
<1>11. ASSUME NEW m \in 0 .. n - 1, m \in T PROVE m + 1 \in T
  <2>1. PICK j \in 1 .. n : j = m + 1 /\ j - 1 = m
    OBVIOUS
  <2>2. PICK c \in Chars : c = string[j]
    BY <1>1
  <2>3. c # "high" /\ c # "low"
    BY JsonAssumption
  <2>4. Longer(g, m, e, Units)
    BY <1>2, GrowsBy DEF IsEscaped
  <2>5. PICK p \in Nat : p = Len(g[m])
    BY <2>4 DEF Longer
  <2>6. /\ e[j] = IF c = "astral" THEN <<"high", "low">> ELSE <<c>>
        /\ \A k \in 1 .. Len(e[j]) : p + k \in 1 .. l /\ units[p + k] = e[j][k]
    BY <1>2, <1>3, <1>4, <2>1, <2>2, <2>5, Zenon DEF IsEscaped
  <2>7. Len(g[j]) = p + Len(e[j])
    BY <2>1, <2>4, <2>5, Zenon DEF Longer
  <2>8. h[p] = SubSeq(string, 1, m)
    BY <1>11, <2>5
  <2>9. PICK x \in Seq(U) : x = h[p]
    <3>1. p \in 0 .. l
      <4>1. 1 \in 1 .. Len(e[j])
        BY <2>6
      <4>2. p + 1 \in 1 .. l
        BY <2>6, <4>1, Zenon
      <4> QED BY <4>2
    <3> QED BY <1>8, <3>1 DEF Grows
  <2>10. SubSeq(string, 1, j) = x \o <<c>>
    <3>1. SubSeq(string, 1, m + 1) = Append(SubSeq(string, 1, m), string[m + 1])
      BY <1>1
    <3>2. Append(x, c) = x \o <<c>>
      BY <2>2
    <3> QED BY <2>1, <2>2, <2>8, <2>9, <3>1, <3>2, Zenon
  <2>11. CASE c # "astral"
    <3>1. Len(e[j]) = 1 /\ e[j][1] = c /\ 1 \in 1 .. Len(e[j])
      BY <2>6, <2>11
    <3>2. p + 1 \in 1 .. l /\ units[p + 1] = c
      BY <2>6, <3>1, Zenon
    <3>3. ~IsPair(units, p + 1) /\ ~IsPair(units, (p + 1) - 1)
      <4>1. (p + 1) - 1 = p
        OBVIOUS
      <4> QED BY <2>3, <3>2, <4>1, Zenon DEF IsPair
    <3>4. r[p + 1] = <<c>>
      BY <1>6, <3>2, <3>3, Zenon
    <3>5. h[p + 1] = x \o <<c>>
      <4>1. p \in 0 .. l - 1
        BY <3>2
      <4>2. h[p + 1] = h[p] \o r[p + 1]
        BY <1>8, <4>1, Zenon DEF Grows
      <4> QED BY <2>9, <3>4, <4>2, Zenon
    <3>6. Len(g[j]) = p + 1
      BY <2>7, <3>1, Zenon
    <3>7. h[Len(g[j])] = SubSeq(string, 1, j)
      BY <2>10, <3>5, <3>6, Zenon
    <3> QED BY <2>1, <3>7
  <2>12. CASE c = "astral"
    <3>1. /\ Len(e[j]) = 2 /\ e[j][1] = "high" /\ e[j][2] = "low"
          /\ 1 \in 1 .. Len(e[j]) /\ 2 \in 1 .. Len(e[j])
      BY <2>6, <2>12
    <3>2. /\ p + 1 \in 1 .. l /\ units[p + 1] = "high"
          /\ p + 2 \in 1 .. l /\ units[p + 2] = "low"
      BY <2>6, <3>1, Zenon
    <3>3. p + 1 \in 1 .. l - 1 /\ p + 1 + 1 = p + 2 /\ (p + 2) - 1 = p + 1
      BY <3>2
    <3>4. IsPair(units, p + 1) /\ ~IsPair(units, p + 2)
      <4>1. "low" # "high"
        OBVIOUS
      <4> QED BY <1>4, <3>2, <3>3, <4>1, Zenon DEF IsPair
    <3>5. r[p + 1] = <<>> /\ r[p + 2] = <<c>>
      BY <1>6, <2>12, <3>2, <3>3, <3>4, Zenon
    <3>6. h[p + 1] = x
      <4>1. p \in 0 .. l - 1
        BY <3>2
      <4>2. h[p + 1] = h[p] \o r[p + 1]
        BY <1>8, <4>1, Zenon DEF Grows
      <4>3. x \o <<>> = x
        BY ConcatEmptySeq
      <4> QED BY <2>9, <3>5, <4>2, <4>3, Zenon
    <3>7. h[p + 2] = x \o <<c>>
      <4>1. p + 1 \in 0 .. l - 1
        BY <3>2
      <4>2. h[p + 1 + 1] = h[p + 1] \o r[p + 1 + 1]
        BY <1>8, <4>1, Zenon DEF Grows
      <4> QED BY <3>3, <3>5, <3>6, <4>2, Zenon
    <3>8. Len(g[j]) = p + 2
      BY <2>7, <3>1, Zenon
    <3>9. h[Len(g[j])] = SubSeq(string, 1, j)
      BY <2>10, <3>7, <3>8, Zenon
    <3> QED BY <2>1, <3>9
  <2> QED BY <2>11, <2>12
<1> HIDE DEF T
<1>12. \A m \in 0 .. n : m \in T
  BY <1>10, <1>11, FirstNumbers
<1>13. h[Len(g[n])] = SubSeq(string, 1, n)
  BY <1>12 DEF T
<1>14. SubSeq(string, 1, n) = string
  BY <1>1
<1> QED BY <1>3, <1>4, <1>9, <1>13, <1>14, Zenon

\* The values in a value.
LEMMA InnerAre ==
  ASSUME NEW v, IsValue(v)
  PROVE  /\ Inner(v) \in Seq(Nested)
         /\ v.type = "array" => /\ Inner(v) = v.value /\ v.value \in Seq(Nested)
         /\ v.type = "object" => /\ v.value \in Seq(Keys \X Nested) /\ KeysDiffer(v.value)
                                 /\ DOMAIN Inner(v) = DOMAIN v.value
                                 /\ Len(Inner(v)) = Len(v.value)
                                 /\ \A i \in DOMAIN v.value : Inner(v)[i] = v.value[i][2]
         /\ v.type \notin {"array", "object"} => Inner(v) = <<>>
<1>1. CASE v.type = "array"
  <2>1. Inner(v) = v.value
    BY <1>1 DEF Inner
  <2>2. v.value \in Seq(Nested)
    BY <1>1 DEF IsValue
  <2> QED BY <1>1, <2>1, <2>2
<1>2. CASE v.type = "object"
  <2>1. v.value \in Seq(Keys \X Nested) /\ KeysDiffer(v.value)
    BY <1>2 DEF IsValue
  <2>2. PICK n \in Nat : n = Len(v.value) /\ v.value \in [1 .. n -> Keys \X Nested]
    BY <2>1, LenProperties
  <2>3. Inner(v) = [i \in 1 .. n |-> v.value[i][2]]
    BY <1>2, <2>2 DEF Inner
  <2>4. Inner(v) \in [1 .. n -> Nested]
    <3>1. ASSUME NEW i \in 1 .. n PROVE v.value[i][2] \in Nested
      <4>1. v.value[i] \in Keys \X Nested
        BY <2>2
      <4> QED BY <4>1
    <3> QED BY <2>3, <3>1
  <2>5. Inner(v) \in Seq(Nested) /\ Len(Inner(v)) = n
    BY <2>4
  <2> QED BY <1>2, <2>1, <2>2, <2>3, <2>5
<1>3. CASE v.type \notin {"array", "object"}
  <2>1. Inner(v) = <<>>
    BY <1>3 DEF Inner
  <2>2. <<>> \in Seq(Nested)
    OBVIOUS
  <2> QED BY <1>3, <2>1, <2>2
<1> QED BY <1>1, <1>2, <1>3

\* What is written of a value, as an equation that f solves for those in D.
IsWritten(f, D) == f = [v \in D |-> Tokens(v, [i \in DOMAIN Inner(v) |-> f[Inner(v)[i]]])]

Shallow(d) == {v \in Nested : Depth[v] < d}

LEMMA InnerShallow ==
  ASSUME NEW d \in Nat, NEW v \in Shallow(d + 1), NEW i \in DOMAIN Inner(v)
  PROVE  Inner(v)[i] \in Shallow(d)
<1>1. v \in Nested /\ Depth[v] < d + 1 /\ IsValue(v) /\ Depth[v] \in Int /\ MaxDepth \in Nat
  <2>1. v \in Nested /\ Depth[v] < d + 1
    BY DEF Shallow
  <2>2. IsValue(v) /\ Depth[v] \in 0 .. MaxDepth /\ MaxDepth \in Nat
    BY <2>1, JsonAssumption
  <2> QED BY <2>1, <2>2
<1>2. PICK x : x = Inner(v)[i]
  OBVIOUS
<1>3. x \in Nested
  <2>1. Inner(v) \in Seq(Nested)
    BY <1>1, InnerAre
  <2> QED BY <1>2, <2>1
<1>4. Depth[x] < Depth[v] /\ Depth[x] \in 0 .. MaxDepth
  BY <1>1, <1>2, <1>3, JsonAssumption
<1>5. Depth[x] < d
  <2>1. PICK a \in Int, b \in Int : a = Depth[x] /\ b = Depth[v]
    BY <1>1, <1>4
  <2>2. a < b /\ b < d + 1
    BY <1>1, <1>4, <2>1
  <2>3. a < d
    BY <2>2
  <2> QED BY <2>1, <2>3
<1> QED BY <1>2, <1>3, <1>5 DEF Shallow

LEMMA WrittenDeeper ==
  ASSUME NEW d \in Nat, NEW f, IsWritten(f, Shallow(d))
  PROVE  \E h : IsWritten(h, Shallow(d + 1))
<1>1. PICK h : h = [v \in Shallow(d + 1) |-> Tokens(v, [i \in DOMAIN Inner(v) |-> f[Inner(v)[i]]])]
  OBVIOUS
<1>2. \A v \in Shallow(d + 1) : h[v] = Tokens(v, [i \in DOMAIN Inner(v) |-> f[Inner(v)[i]]])
  BY <1>1, Zenon
<1>3. ASSUME NEW v \in Shallow(d) PROVE v \in Shallow(d + 1) /\ h[v] = f[v]
  <2>1. v \in Shallow(d + 1)
    <3>1. v \in Nested /\ Depth[v] < d
      BY DEF Shallow
    <3>2. Depth[v] \in Int
      BY <3>1, JsonAssumption
    <3>3. Depth[v] < d + 1
      BY <3>1, <3>2
    <3> QED BY <3>1, <3>3 DEF Shallow
  <2>2. f[v] = Tokens(v, [i \in DOMAIN Inner(v) |-> f[Inner(v)[i]]])
    BY Zenon DEF IsWritten
  <2> QED BY <1>2, <2>1, <2>2, Zenon
<1>4. ASSUME NEW v \in Shallow(d + 1)
      PROVE  [i \in DOMAIN Inner(v) |-> h[Inner(v)[i]]] = [i \in DOMAIN Inner(v) |-> f[Inner(v)[i]]]
  <2>1. \A i \in DOMAIN Inner(v) : h[Inner(v)[i]] = f[Inner(v)[i]]
    BY <1>3, InnerShallow, Zenon
  <2> QED BY <2>1, Zenon
<1>5. PICK k : k = [v \in Shallow(d + 1) |-> Tokens(v, [i \in DOMAIN Inner(v) |-> h[Inner(v)[i]]])]
  OBVIOUS
<1>6. ASSUME NEW v \in Shallow(d + 1) PROVE k[v] = h[v]
  <2>1. k[v] = Tokens(v, [i \in DOMAIN Inner(v) |-> h[Inner(v)[i]]])
    BY <1>5, Zenon
  <2> QED BY <1>2, <1>4, <2>1, Zenon
<1>7. DOMAIN h = Shallow(d + 1) /\ h = [v \in DOMAIN h |-> h[v]]
  BY <1>1, Zenon
<1>8. DOMAIN k = Shallow(d + 1) /\ k = [v \in DOMAIN k |-> k[v]]
  BY <1>5, Zenon
<1>9. h = k
  BY <1>6, <1>7, <1>8, Zenon
<1> QED BY <1>5, <1>9, Zenon DEF IsWritten

\* A value is written as its tokens, and those of the values in it.
LEMMA WrittenAre == \A v \in Nested : Written[v] = Write(v)
<1> USE JsonAssumption
<1>1. PICK m \in Nat : m = MaxDepth + 1
  OBVIOUS
<1> DEFINE T == {d \in 0 .. m : \E f : IsWritten(f, Shallow(d))}
<1>2. 0 \in T
  <2>1. Shallow(0) = {}
    <3>1. ASSUME NEW v \in Nested PROVE ~(Depth[v] < 0)
      <4>1. Depth[v] \in 0 .. MaxDepth
        OBVIOUS
      <4> QED BY <4>1
    <3> QED BY <3>1 DEF Shallow
  <2>2. PICK f : f = [v \in {} |-> {}]
    OBVIOUS
  <2>3. \A h : [v \in {} |-> {}] = [v \in {} |-> Tokens(v, [i \in DOMAIN Inner(v) |-> h[Inner(v)[i]]])]
    BY Zenon
  <2>4. IsWritten(f, {})
    BY <2>2, <2>3, Zenon DEF IsWritten
  <2> QED BY <2>1, <2>4
<1>3. ASSUME NEW d \in 0 .. m - 1, d \in T PROVE d + 1 \in T
  <2>1. d \in Nat /\ d + 1 \in 0 .. m
    OBVIOUS
  <2>2. PICK f : IsWritten(f, Shallow(d))
    BY <1>3
  <2>3. \E h : IsWritten(h, Shallow(d + 1))
    BY <2>1, <2>2, WrittenDeeper
  <2> QED BY <2>1, <2>3
<1> HIDE DEF T
<1>4. m \in T
  <2>1. \A d \in 0 .. m : d \in T
    BY <1>2, <1>3, FirstNumbers
  <2> QED BY <2>1
<1>5. Shallow(m) = Nested
  <2>1. ASSUME NEW v \in Nested PROVE Depth[v] < m
    <3>1. Depth[v] \in 0 .. MaxDepth
      OBVIOUS
    <3> QED BY <1>1, <3>1
  <2> QED BY <2>1 DEF Shallow
<1>6. \E f : IsWritten(f, Nested)
  BY <1>4, <1>5 DEF T
<1>7. PICK w : w = CHOOSE f : IsWritten(f, Nested)
  OBVIOUS
<1>8. IsWritten(w, Nested)
  BY <1>6, <1>7, Zenon
<1>9. w = Written
  BY <1>7, Zenon DEF IsWritten, Written
<1>10. \A v \in Nested : Written[v] = Tokens(v, [i \in DOMAIN Inner(v) |-> Written[Inner(v)[i]]])
  BY <1>8, <1>9, Zenon DEF IsWritten
<1> QED BY <1>10, Zenon DEF Write

\* The parts of an array or object, as they are written: of an object, with their keys.
KeyToken(v, i) == [kind |-> "string", v |-> <<v.value[i][1]>>]

Part(v, i) ==
  IF v.type = "array" THEN Written[Inner(v)[i]]
  ELSE <<KeyToken(v, i), Sign("colon")>> \o Written[Inner(v)[i]]

Opens(v) == IF v.type = "array" THEN "begin_array" ELSE "begin_object"

Shuts(v) == IF v.type = "array" THEN "end_array" ELSE "end_object"

IsComposite(v) == IsValue(v) /\ v.type \in {"array", "object"}

LEMMA CompositeWritten ==
  ASSUME NEW v, IsComposite(v), NEW n \in Nat, n = Len(Inner(v))
  PROVE  Write(v) = Enclosed(Opens(v), [i \in 1 .. n |-> Part(v, i)], Shuts(v))
<1>1. DOMAIN Inner(v) = 1 .. n
  <2>1. Inner(v) \in Seq(Nested)
    BY InnerAre DEF IsComposite
  <2> QED BY <2>1
<1>2. PICK inner : inner = [i \in 1 .. n |-> Written[Inner(v)[i]]]
  OBVIOUS
<1>3. Write(v) = Tokens(v, inner)
  BY <1>1, <1>2, Zenon DEF Write
<1>4. DOMAIN inner = 1 .. n /\ \A i \in 1 .. n : inner[i] = Written[Inner(v)[i]]
  BY <1>2, Zenon
<1>5. CASE v.type = "array"
  <2>1. Tokens(v, inner) = Enclosed("begin_array", inner, "end_array")
    BY <1>5 DEF Tokens
  <2>2. [i \in 1 .. n |-> Part(v, i)] = inner
    BY <1>2, <1>5, Zenon DEF Part
  <2> QED BY <1>3, <1>5, <2>1, <2>2, Zenon DEF Opens, Shuts
<1>6. CASE v.type = "object"
  <2>1. v.type # "array" /\ v.type # "double" /\ v.type # "string"
    BY <1>6
  <2>2. Tokens(v, inner) =
          Enclosed("begin_object",
                   [i \in DOMAIN inner |-> <<KeyToken(v, i), Sign("colon")>> \o inner[i]],
                   "end_object")
    BY <1>6, <2>1, Zenon DEF Tokens, KeyToken
  <2>3. \A i \in 1 .. n : <<KeyToken(v, i), Sign("colon")>> \o inner[i] = Part(v, i)
    BY <1>4, <2>1, Zenon DEF Part
  <2>4. [i \in DOMAIN inner |-> <<KeyToken(v, i), Sign("colon")>> \o inner[i]]
          = [i \in 1 .. n |-> Part(v, i)]
    BY <1>4, <2>3, Zenon
  <2> QED BY <1>3, <2>1, <2>2, <2>4, Zenon DEF Opens, Shuts
<1> QED BY <1>5, <1>6 DEF IsComposite

\* The tokens of a part, with those of the value in it.
Skip(v) == IF v.type = "array" THEN 0 ELSE 2

LEMMA PartIs ==
  ASSUME NEW v, IsComposite(v), NEW i \in DOMAIN Inner(v), NEW y \in Seq(Tok),
         y = Written[Inner(v)[i]]
  PROVE  /\ Part(v, i) \in Seq(Tok) /\ Len(Part(v, i)) = Skip(v) + Len(y) /\ Len(y) \in Nat
         /\ \A k \in 1 .. Len(y) : Part(v, i)[Skip(v) + k] = y[k]
         /\ v.type = "object" => Part(v, i)[1] = KeyToken(v, i) /\ Part(v, i)[2] = Sign("colon")
<1>1. PICK l \in Nat : l = Len(y)
  BY LenProperties
<1>2. CASE v.type = "array"
  <2>1. Part(v, i) = y /\ Skip(v) = 0
    BY <1>2 DEF Part, Skip
  <2>2. \A k \in 1 .. l : 0 + k = k
    OBVIOUS
  <2>3. 0 + l = l
    OBVIOUS
  <2>4. v.type # "object"
    BY <1>2
  <2> QED BY <1>1, <2>1, <2>2, <2>3, <2>4, Zenon
<1>3. CASE v.type = "object"
  <2>1. Skip(v) = 2 /\ v.type # "array"
    BY <1>3 DEF Skip
  <2>2. KeyToken(v, i) \in Tok
    <3>1. v.value \in Seq(Keys \X Nested) /\ i \in DOMAIN v.value
      BY <1>3, InnerAre DEF IsComposite
    <3>2. v.value[i] \in Keys \X Nested
      BY <3>1
    <3>3. PICK k \in Keys : k = v.value[i][1]
      BY <3>2
    <3>4. <<k>> \in {<<c>> : c \in Keys}
      OBVIOUS
    <3> QED BY <3>3, <3>4 DEF KeyToken, Tok
  <2>3. PICK a \in Tok, b \in Tok : a = KeyToken(v, i) /\ b = Sign("colon")
    BY <2>2, SignsAre
  <2>4. PICK x \in Seq(Tok) : x = <<a, b>> /\ Len(x) = 2 /\ x[1] = a /\ x[2] = b
    <3>1. PICK x : x = <<a, b>>
      OBVIOUS
    <3>2. x \in Seq(Tok) /\ Len(x) = 2 /\ x[1] = a /\ x[2] = b
      BY <3>1
    <3> QED BY <3>1, <3>2, Zenon
  <2>5. Part(v, i) = x \o y
    BY <2>1, <2>3, <2>4, Zenon DEF Part
  <2>6. /\ x \o y \in Seq(Tok) /\ Len(x \o y) = 2 + l
        /\ \A k \in 1 .. 2 : (x \o y)[k] = x[k]
        /\ \A k \in 1 .. l : (x \o y)[2 + k] = y[k]
    BY <1>1, <2>4, Joined
  <2>7. 1 \in 1 .. 2 /\ 2 \in 1 .. 2
    OBVIOUS
  <2> QED BY <1>1, <2>1, <2>3, <2>4, <2>5, <2>6, <2>7, Zenon
<1> QED BY <1>2, <1>3 DEF IsComposite

\* How many tokens of an array or object stand before a part of it, and its last.
Ahead(v, i) == Starts([j \in 1 .. Len(Inner(v)) |-> Part(v, j)])[i] - 1

LastPlace(v) == IF Len(Inner(v)) = 0 THEN 2 ELSE Ahead(v, Len(Inner(v)) + 1)

\* Where the value of a part stands, its separator, and its key.
PartStands(v, i) ==
  /\ Ahead(v, i) \in Int /\ Ahead(v, i + 1) \in Int
  /\ Written[Inner(v)[i]] \in Seq(Tok)
  /\ Stands(Written[Inner(v)[i]], Ahead(v, i) + Skip(v), Write(v))
  /\ Ahead(v, i + 1) = Ahead(v, i) + Skip(v) + Len(Written[Inner(v)[i]]) + 1
  /\ At(Write(v), Ahead(v, i + 1),
        Sign(IF i < Len(Inner(v)) THEN "comma" ELSE Shuts(v)))
  /\ v.type = "object" => /\ At(Write(v), Ahead(v, i) + 1, KeyToken(v, i))
                          /\ At(Write(v), Ahead(v, i) + 2, Sign("colon"))

Shaped(v) ==
  /\ Write(v) \in Seq(Tok) /\ At(Write(v), 1, Sign(Opens(v)))
  /\ Ahead(v, 1) = 1 /\ LastPlace(v) \in Int
  /\ Len(Write(v)) = LastPlace(v) /\ At(Write(v), LastPlace(v), Sign(Shuts(v)))
  /\ \A i \in 1 .. Len(Inner(v)) : PartStands(v, i)

InnerTyped(v) == \A i \in 1 .. Len(Inner(v)) : Written[Inner(v)[i]] \in Seq(Tok)

LEMMA PartsStand ==
  ASSUME NEW v, IsComposite(v), NEW n \in Nat, n = Len(Inner(v)), InnerTyped(v),
         NEW parts, parts = [i \in 1 .. n |-> Part(v, i)],
         LaidIn(Write(v), parts, n, Starts(parts), Opens(v), Shuts(v)),
         parts \in [1 .. n -> Seq(Tok)], NEW i \in 1 .. n
  PROVE  PartStands(v, i)
<1>1. DOMAIN Inner(v) = 1 .. n
  <2>1. Inner(v) \in Seq(Nested)
    BY InnerAre DEF IsComposite
  <2> QED BY <2>1
<1>2. PICK y \in Seq(Tok) : y = Written[Inner(v)[i]]
  BY DEF InnerTyped
<1>3. PICK l \in Nat, m \in Nat : l = Len(y) /\ m = Skip(v)
  BY LenProperties DEF Skip
<1>4. PICK p \in Seq(Tok) :
        /\ p = Part(v, i) /\ p = parts[i] /\ Len(p) = m + l
        /\ \A k \in 1 .. l : p[m + k] = y[k]
        /\ v.type = "object" => p[1] = KeyToken(v, i) /\ p[2] = Sign("colon")
  <2>1. parts[i] = Part(v, i)
    OBVIOUS
  <2>2. /\ Part(v, i) \in Seq(Tok) /\ Len(Part(v, i)) = m + l
        /\ \A k \in 1 .. l : Part(v, i)[m + k] = y[k]
        /\ v.type = "object" => Part(v, i)[1] = KeyToken(v, i) /\ Part(v, i)[2] = Sign("colon")
    BY <1>1, <1>2, <1>3, PartIs
  <2> QED BY <2>1, <2>2, Zenon
<1>5. PICK s \in [1 .. n + 1 -> Nat] :
        s = Starts(parts) /\ s[i + 1] = s[i] + Len(p) + 1
  <2>1. /\ Starts(parts) \in [1 .. n + 1 -> Nat]
        /\ \A j \in 1 .. n : Starts(parts)[j + 1] = Starts(parts)[j] + Len(parts[j]) + 1
    BY StartsAre
  <2> QED BY <1>4, <2>1, Zenon
<1>6. PICK a \in Nat, b \in Nat : a = s[i] /\ b = s[i + 1]
  <2>1. i \in 1 .. n + 1 /\ i + 1 \in 1 .. n + 1
    OBVIOUS
  <2> QED BY <2>1
<1>7. b = a + (m + l) + 1
  BY <1>4, <1>5, <1>6, Zenon
<1>8. Ahead(v, i) = a - 1 /\ Ahead(v, i + 1) = b - 1
  BY <1>5, <1>6, Zenon DEF Ahead
<1>9. Stands(p, a - 1, Write(v)) /\ At(Write(v), b - 1, Sign(IF i < n THEN "comma" ELSE Shuts(v)))
  BY <1>4, <1>5, <1>6, Zenon DEF LaidIn
<1>10. ASSUME NEW k \in 1 .. l PROVE At(Write(v), (a - 1) + m + k, y[k])
  <2>1. m + k \in 1 .. m + l /\ (a - 1) + (m + k) = (a - 1) + m + k
    OBVIOUS
  <2>2. At(Write(v), (a - 1) + (m + k), p[m + k])
    BY <1>4, <1>9, <2>1, Zenon DEF Stands
  <2> QED BY <1>4, <2>1, <2>2, Zenon
<1>11. Stands(y, (a - 1) + m, Write(v))
  BY <1>3, <1>10 DEF Stands
<1>12. ASSUME v.type = "object"
       PROVE  At(Write(v), (a - 1) + 1, KeyToken(v, i)) /\ At(Write(v), (a - 1) + 2, Sign("colon"))
  <2>1. m = 2
    BY <1>3, <1>12 DEF Skip
  <2>2. 1 \in 1 .. m + l /\ 2 \in 1 .. m + l
    BY <2>1
  <2> QED BY <1>4, <1>9, <1>12, <2>2, Zenon DEF Stands
<1>13. b - 1 = (a - 1) + m + l + 1 /\ a - 1 \in Int /\ b - 1 \in Int
  BY <1>7
<1>14. Ahead(v, i + 1) = Ahead(v, i) + Skip(v) + Len(Written[Inner(v)[i]]) + 1
  BY <1>2, <1>3, <1>8, <1>13, Zenon
<1> QED BY <1>2, <1>3, <1>8, <1>9, <1>11, <1>12, <1>13, <1>14, Zenon DEF PartStands

LEMMA ShapesAre ==
  ASSUME NEW v, IsComposite(v), InnerTyped(v) PROVE Shaped(v)
<1>1. PICK n \in Nat : n = Len(Inner(v)) /\ DOMAIN Inner(v) = 1 .. n
  <2>1. Inner(v) \in Seq(Nested)
    BY InnerAre DEF IsComposite
  <2> QED BY <2>1, LenProperties
<1>2. PICK parts : parts = [i \in 1 .. n |-> Part(v, i)]
  OBVIOUS
<1>3. parts \in [1 .. n -> Seq(Tok)]
  <2>1. ASSUME NEW i \in 1 .. n PROVE Part(v, i) \in Seq(Tok)
    <3>1. PICK y \in Seq(Tok) : y = Written[Inner(v)[i]]
      BY <1>1 DEF InnerTyped
    <3> QED BY <1>1, <3>1, PartIs
  <2>2. DOMAIN parts = 1 .. n /\ \A i \in 1 .. n : parts[i] = Part(v, i)
    BY <1>2, Zenon
  <2>3. parts = [i \in DOMAIN parts |-> parts[i]]
    BY <1>2, Zenon
  <2> QED BY <2>1, <2>2, <2>3
<1>4. PICK w : w = Write(v) /\ w = Enclosed(Opens(v), parts, Shuts(v))
  BY <1>1, <1>2, CompositeWritten
<1>5. LaidIn(w, parts, n, Starts(parts), Opens(v), Shuts(v))
  <2>1. Opens(v) \in {"begin_array", "begin_object"} /\ Shuts(v) \in {"end_array", "end_object"}
    BY DEF Opens, Shuts
  <2> QED BY <1>3, <1>4, <2>1, EnclosedIs
<1>6. ASSUME NEW i \in 1 .. n PROVE PartStands(v, i)
  BY <1>1, <1>2, <1>3, <1>4, <1>5, PartsStand
<1>7. PICK s \in [1 .. n + 1 -> Nat] : s = Starts(parts) /\ s[1] = 2
  BY <1>3, StartsAre
<1>8. \A i \in 1 .. n + 1 : Ahead(v, i) = s[i] - 1
  BY <1>1, <1>2, <1>7, Zenon DEF Ahead
<1>9. Ahead(v, 1) = 1
  <2>1. 1 \in 1 .. n + 1
    OBVIOUS
  <2> QED BY <1>7, <1>8, <2>1
<1>10. LastPlace(v) \in Int /\ Len(w) = LastPlace(v) /\ At(w, LastPlace(v), Sign(Shuts(v)))
  <2>1. CASE n = 0
    BY <1>1, <1>5, <2>1 DEF LastPlace, LaidIn
  <2>2. CASE n # 0
    <3>1. LastPlace(v) = Ahead(v, n + 1) /\ n \in 1 .. n /\ n + 1 \in 1 .. n + 1 /\ ~(n < n) /\ n > 0
      BY <1>1, <2>2 DEF LastPlace
    <3>2. At(w, s[n + 1] - 1, Sign(IF n < n THEN "comma" ELSE Shuts(v))) /\ Len(w) = s[n + 1] - 1
      BY <1>5, <1>7, <3>1, Zenon DEF LaidIn
    <3>3. s[n + 1] - 1 \in Int
      <4>1. s[n + 1] \in Nat
        BY <3>1
      <4> QED BY <4>1
    <3> QED BY <1>8, <3>1, <3>2, <3>3, Zenon
  <2> QED BY <2>1, <2>2
<1>11. w \in Seq(Tok) /\ At(w, 1, Sign(Opens(v)))
  BY <1>5 DEF LaidIn
<1> QED BY <1>1, <1>4, <1>6, <1>9, <1>10, <1>11, Zenon DEF Shaped

\* A value without values in it is written as one token, which is read back.
ReadsAs(t, v) == t \in Tok /\ t.kind # "sign" /\ ReadsAsScalar(t) /\ ScalarOf(t) = v

LEMMA ScalarsReadBack ==
  ASSUME NEW v \in Nested, IsValue(v), ~IsComposite(v)
  PROVE  \E t : ReadsAs(t, v) /\ Write(v) = <<t>>
<1>1. v = Scalar(v.type, v.value) /\ v.type \notin {"array", "object"}
  BY DEF IsValue, IsComposite
<1>2. PICK inner : Write(v) = Tokens(v, inner)
  BY Zenon DEF Write
<1>3. CASE v.type \in {"null", "true", "false", "int"}
  <2>1. PICK t : t = [kind |-> v.type, v |-> v.value]
    OBVIOUS
  <2>2. t.kind = v.type /\ t.v = v.value
    BY <2>1
  <2>3. t \in Tok
    <3>1. v.value \in {u.value : u \in Nested}
      OBVIOUS
    <3> QED BY <1>3, <2>1, <3>1 DEF Tok
  <2>4. Tokens(v, inner) = <<t>>
    BY <1>3, <2>1 DEF Tokens
  <2>5. ReadsAsScalar(t) /\ t.kind # "sign"
    BY <1>3, <2>2 DEF ReadsAsScalar
  <2>6. ScalarOf(t) = Scalar(v.type, v.value)
    BY <1>3, <2>2 DEF ScalarOf
  <2> QED BY <1>1, <1>2, <2>3, <2>4, <2>5, <2>6, Zenon DEF ReadsAs
<1>4. CASE v.type = "double"
  <2>1. v.value \in {"finite", "nan", "inf", "-inf"}
    BY <1>4 DEF IsValue
  <2>2. PICK t : t = Number(v)
    OBVIOUS
  <2>3. t.v = "none" /\ t.kind = IF v.value = "finite" THEN "float" ELSE v.value
    BY <2>2 DEF Number
  <2>4. t \in Tok
    <3>1. t.kind \in {"float", "nan", "inf", "-inf"}
      BY <2>1, <2>3
    <3>2. t = [kind |-> t.kind, v |-> "none"]
      BY <2>2 DEF Number
    <3> QED BY <3>1, <3>2 DEF Tok
  <2>5. Tokens(v, inner) = <<t>>
    BY <1>4, <2>2 DEF Tokens
  <2>6. ReadsAsScalar(t) /\ t.kind # "sign"
    BY <2>1, <2>3 DEF ReadsAsScalar
  <2>7. ScalarOf(t) = Scalar("double", v.value)
    BY <2>1, <2>3 DEF ScalarOf
  <2> QED BY <1>1, <1>2, <1>4, <2>4, <2>5, <2>6, <2>7, Zenon DEF ReadsAs
<1>5. CASE v.type = "string"
  <2>1. v.value \in Seq(Chars)
    BY <1>5 DEF IsValue
  <2>2. PICK t : t = [kind |-> "string", v |-> Escaped(v.value)]
    OBVIOUS
  <2>3. t.kind = "string" /\ t.v = Escaped(v.value)
    BY <2>2
  <2>4. t \in Tok
    <3>1. Escaped(v.value) \in {Escaped(u.value) : u \in Nested}
      OBVIOUS
    <3> QED BY <2>2, <3>1 DEF Tok
  <2>5. Tokens(v, inner) = <<t>>
    BY <1>5, <2>2 DEF Tokens
  <2>6. ReadsAsScalar(t) /\ t.kind # "sign"
    BY <2>3 DEF ReadsAsScalar
  <2>7. Unescaped(t.v) = v.value
    BY <2>1, <2>3, StringsReadBack, Zenon
  <2>8. ScalarOf(t) = Scalar("string", Unescaped(t.v))
    BY <2>3 DEF ScalarOf
  <2> QED BY <1>1, <1>2, <1>5, <2>4, <2>5, <2>6, <2>7, <2>8, Zenon DEF ReadsAs
<1> QED BY <1>1, <1>3, <1>4, <1>5 DEF IsValue

LEMMA WrittenTyped == \A v \in Nested : Written[v] \in Seq(Tok)
<1>1. PICK m \in Nat : m = MaxDepth + 1
  BY JsonAssumption
<1> DEFINE T == {d \in 0 .. m : \A v \in Shallow(d) : Written[v] \in Seq(Tok)}
<1>2. 0 \in T
  <2>1. ASSUME NEW v \in Shallow(0) PROVE FALSE
    <3>1. v \in Nested /\ Depth[v] < 0
      BY DEF Shallow
    <3>2. Depth[v] \in 0 .. MaxDepth
      BY <3>1, JsonAssumption
    <3> QED BY <3>1, <3>2
  <2> QED BY <2>1
<1>3. ASSUME NEW d \in 0 .. m - 1, d \in T PROVE d + 1 \in T
  <2>1. d \in Nat /\ d + 1 \in 0 .. m
    OBVIOUS
  <2>2. ASSUME NEW v \in Shallow(d + 1) PROVE Written[v] \in Seq(Tok)
    <3>1. v \in Nested
      BY DEF Shallow
    <3>2. IsValue(v)
      BY <3>1, JsonAssumption
    <3>3. Written[v] = Write(v)
      BY <3>1, WrittenAre
    <3>4. CASE IsComposite(v)
      <4>1. ASSUME NEW i \in 1 .. Len(Inner(v)) PROVE Written[Inner(v)[i]] \in Seq(Tok)
        <5>1. i \in DOMAIN Inner(v)
          <6>1. Inner(v) \in Seq(Nested)
            BY <3>2, InnerAre
          <6> QED BY <6>1
        <5>2. Inner(v)[i] \in Shallow(d)
          BY <2>1, <5>1, InnerShallow
        <5> QED BY <1>3, <5>2
      <4>2. Shaped(v)
        BY <3>4, <4>1, ShapesAre DEF InnerTyped
      <4> QED BY <3>3, <4>2 DEF Shaped
    <3>5. CASE ~IsComposite(v)
      <4>1. PICK t : ReadsAs(t, v) /\ Write(v) = <<t>>
        BY <3>1, <3>2, <3>5, ScalarsReadBack
      <4>2. t \in Tok
        BY <4>1 DEF ReadsAs
      <4>3. <<t>> \in Seq(Tok)
        BY <4>2
      <4> QED BY <3>3, <4>1, <4>3, Zenon
    <3> QED BY <3>4, <3>5
  <2> QED BY <2>1, <2>2
<1> HIDE DEF T
<1>4. m \in T
  <2>1. \A d \in 0 .. m : d \in T
    BY <1>2, <1>3, FirstNumbers
  <2> QED BY <2>1
<1>5. ASSUME NEW v \in Nested PROVE v \in Shallow(m)
  <2>1. Depth[v] \in 0 .. MaxDepth /\ MaxDepth \in Nat
    BY JsonAssumption
  <2>2. Depth[v] < m
    BY <1>1, <2>1
  <2> QED BY <2>2 DEF Shallow
<1> QED BY <1>4, <1>5 DEF T

LEMMA CompositesShaped == ASSUME NEW v, IsComposite(v) PROVE Shaped(v)
<1>1. InnerTyped(v)
  <2>1. Inner(v) \in Seq(Nested)
    BY InnerAre DEF IsComposite
  <2>2. ASSUME NEW i \in 1 .. Len(Inner(v)) PROVE Inner(v)[i] \in Nested
    BY <2>1
  <2> QED BY <2>2, WrittenTyped DEF InnerTyped
<1> QED BY <1>1, ShapesAre

(* The parser, in step with what was written. *)

LEMMA StandsAt ==
  ASSUME NEW x, NEW a \in Int, NEW w, Stands(x, a, w), NEW p \in Int, NEW t, At(x, p, t)
  PROVE  At(w, a + p, t)
BY DEF Stands, At

LEMMA StandsIn ==
  ASSUME NEW y \in Seq(Tok), NEW q \in Int, NEW x, Stands(y, q, x),
         NEW a \in Int, NEW w, Stands(x, a, w)
  PROVE  Stands(y, a + q, w)
<1>1. PICK l \in Nat : l = Len(y)
  BY LenProperties
<1>2. ASSUME NEW k \in 1 .. l PROVE At(w, (a + q) + k, y[k])
  <2>1. q + k \in Int /\ a + (q + k) = (a + q) + k
    OBVIOUS
  <2>2. At(x, q + k, y[k])
    BY <1>1, Zenon DEF Stands
  <2>3. At(w, a + (q + k), y[k])
    BY <2>1, <2>2, StandsAt
  <2> QED BY <2>1, <2>3, Zenon
<1> QED BY <1>1, <1>2 DEF Stands

\* The open calls: each reads an array or object that stands in the text, and
\* has read some of what is in it; all but the innermost wait for a value.
OpenCalls == [type : {"array", "object"}, items : Seq(Nested \cup (Keys \X Nested)),
           key : Keys \cup {"none"}]

Level(c, v, b, w) ==
  /\ IsComposite(v) /\ b \in Int /\ Stands(Write(v), b, w)
  /\ c \in OpenCalls /\ c.type = v.type
  /\ Len(c.items) \in 0 .. Len(Inner(v)) /\ c.items = SubSeq(v.value, 1, Len(c.items))

Awaits(c, v, b, x, a) ==
  /\ Len(c.items) < Len(Inner(v)) /\ x = Inner(v)[Len(c.items) + 1]
  /\ a = b + (Ahead(v, Len(c.items) + 1) + Skip(v))
  /\ v.type = "object" => c.key = v.value[Len(c.items) + 1][1]

Chain(cs, val, base, d) ==
  /\ cs \in Seq(OpenCalls)
  /\ \A j \in 1 .. Len(cs) : Level(cs[j], val[j], base[j], Write(d))
  /\ \A j \in 1 .. Len(cs) - 1 : Awaits(cs[j], val[j], base[j], val[j + 1], base[j + 1])
  /\ Len(cs) > 0 => val[1] = d /\ base[1] = 0

\* The value read next, and how many tokens stand before it.
IsNext(cs, val, base, d, x, a) ==
  IF cs = <<>> THEN x = d /\ a = 0
  ELSE Awaits(cs[Len(cs)], val[Len(cs)], base[Len(cs)], x, a)

IsDocument(d) == IsComposite(d) /\ d.type = "object"

LEMMA DueStands ==
  ASSUME NEW d, IsDocument(d), NEW cs, NEW val, NEW base, Chain(cs, val, base, d),
         NEW x, NEW a, IsNext(cs, val, base, d, x, a)
  PROVE  /\ a \in Int /\ IsValue(x) /\ Write(x) \in Seq(Tok) /\ Stands(Write(x), a, Write(d))
         /\ IsComposite(x) \/ x \in Nested
<1>1. CASE cs = <<>>
  <2>1. x = d /\ a = 0
    BY <1>1 DEF IsNext
  <2>2. PICK w \in Seq(Tok) : w = Write(d)
    BY CompositesShaped DEF IsDocument, Shaped
  <2>3. Stands(w, 0, w)
    <3>1. ASSUME NEW k \in 1 .. Len(w) PROVE At(w, 0 + k, w[k])
      <4>1. 0 + k = k
        OBVIOUS
      <4> QED BY <4>1, Zenon DEF At
    <3> QED BY <3>1 DEF Stands
  <2> QED BY <2>1, <2>2, <2>3 DEF IsDocument, IsComposite
<1>2. CASE cs # <<>>
  <2>1. PICK p \in Nat : p = Len(cs) /\ p \in 1 .. Len(cs)
    BY <1>2 DEF Chain
  <2>2. PICK c, v, b : /\ c = cs[p] /\ v = val[p] /\ b = base[p]
                       /\ Level(c, v, b, Write(d)) /\ Awaits(c, v, b, x, a)
    BY <1>2, <2>1, Zenon DEF IsNext, Chain
  <2>3. PICK n \in Nat : n = Len(Inner(v)) /\ Inner(v) \in [1 .. n -> Nested]
    <3>1. Inner(v) \in Seq(Nested)
      BY <2>2, InnerAre DEF Level, IsComposite
    <3> QED BY <3>1, LenProperties
  <2>4. PICK i \in 1 .. n : i = Len(c.items) + 1
    <3>1. PICK l \in Nat : l = Len(c.items) /\ l < n
      BY <2>2, <2>3 DEF Level, Awaits
    <3>2. l + 1 \in 1 .. n
      BY <3>1
    <3> QED BY <3>1, <3>2
  <2>5. x = Inner(v)[i] /\ a = b + (Ahead(v, i) + Skip(v)) /\ x \in Nested
    BY <2>2, <2>3, <2>4 DEF Awaits
  <2>6. Write(x) = Written[x] /\ Write(x) \in Seq(Tok) /\ IsValue(x)
    BY <2>5, WrittenAre, WrittenTyped, JsonAssumption
  <2>7. PartStands(v, i)
    BY <2>2, <2>3, CompositesShaped DEF Level, Shaped
  <2>8. PICK q \in Int : q = Ahead(v, i) + Skip(v)
    BY <2>7 DEF PartStands, Skip
  <2>9. Stands(Write(x), q, Write(v))
    BY <2>5, <2>6, <2>7, <2>8, Zenon DEF PartStands
  <2>10. b \in Int /\ Stands(Write(v), b, Write(d))
    BY <2>2 DEF Level
  <2>11. Stands(Write(x), b + q, Write(d))
    BY <2>6, <2>9, <2>10, StandsIn
  <2>12. a = b + q /\ b + q \in Int
    BY <2>5, <2>8, <2>10
  <2> QED BY <2>5, <2>6, <2>11, <2>12, Zenon
<1> QED BY <1>1, <1>2

\* How much of the text is there: n tokens of it, and perhaps a part of the next.
KeptText(n, w) ==
  /\ n \in 0 .. Len(w) /\ \A k \in 1 .. n : text[k] = w[k]
  /\ intact => n = Len(w) /\ text = w
  /\ ~intact => n < Len(w)
  /\ \/ Len(text) = n
     \/ /\ Len(text) = n + 1 /\ ~intact
        /\ text[n + 1].kind = "part" /\ w[n + 1].kind # "sign"

\* The parser meets the token that was written, or finds that it is missing.
LEMMA TokenMet ==
  ASSUME NEW w, NEW n, KeptText(n, w), NEW t, At(w, pos, t), pos <= n + 1
  PROVE  \/ Token = t /\ pos <= n /\ pos + 1 <= n + 1
         \/ /\ ~intact /\ ~(pos + 1 <= Len(text)) /\ Token.kind \in {"eof", "part"}
            /\ t.kind = "sign" => Token.kind = "eof"
<1>1. n \in Int /\ pos \in Int /\ pos >= 1 /\ pos <= Len(w) /\ w[pos] = t
  BY DEF At, KeptText
<1>2. CASE pos <= n
  <2>1. pos \in 1 .. n /\ pos <= Len(text)
    BY <1>1, <1>2 DEF KeptText
  <2>2. Token = text[pos] /\ text[pos] = w[pos]
    BY <2>1 DEF Token, KeptText
  <2> QED BY <1>1, <1>2, <2>2
<1>3. CASE pos = n + 1
  <2>1. ~intact
    BY <1>1, <1>3 DEF KeptText
  <2>2. CASE Len(text) = n
    <3>1. ~(pos <= Len(text)) /\ ~(pos + 1 <= Len(text))
      BY <1>1, <1>3, <2>2
    <3> QED BY <2>1, <3>1 DEF Token
  <2>3. CASE Len(text) # n
    <3>1. Len(text) = n + 1 /\ text[pos].kind = "part" /\ t.kind # "sign"
      BY <1>1, <1>3, <2>3 DEF KeptText
    <3>2. pos <= Len(text) /\ ~(pos + 1 <= Len(text))
      BY <1>1, <1>3, <3>1
    <3> QED BY <2>1, <3>1, <3>2 DEF Token
  <2> QED BY <2>2, <2>3
<1> QED BY <1>1, <1>2, <1>3

\* Where an open call is, in the array or object it reads.
Inside(e, c, v, b, p) ==
  LET l == Len(c.items)
      n == Len(Inner(v))
  IN  \/ e = "first_item" /\ v.type = "array" /\ l = 0 /\ p = b + 2
      \/ e = "first_key" /\ v.type = "object" /\ l = 0 /\ p = b + 2
      \/ e = "key" /\ v.type = "object" /\ l < n /\ p = b + (Ahead(v, l + 1) + 1)
      \/ /\ e = "colon" /\ v.type = "object" /\ l < n /\ p = b + (Ahead(v, l + 1) + 2)
         /\ c.key = v.value[l + 1][1]
      \/ e = "separator" /\ l > 0 /\ p = b + Ahead(v, l + 1)

\* Where the parser is.
Place(cs, e, p, r, val, base, d) ==
  \/ e = "value" /\ \E x, a : IsNext(cs, val, base, d, x, a) /\ p = a + 1
  \/ e = "end" /\ cs = <<>> /\ r = d /\ p = Len(Write(d)) + 1
  \/ cs # <<>> /\ Inside(e, cs[Len(cs)], val[Len(cs)], base[Len(cs)], p)

\* A value is added to the call that waits for it: at its end, its key being new.
WithItem(c, x) ==
  [c EXCEPT !.items = IF c.type = "array" THEN Append(@, x) ELSE SetItem(@, c.key, x)]

LEMMA ItemAdded ==
  ASSUME NEW c, NEW v, NEW b, NEW w, Level(c, v, b, w), NEW x, NEW a, Awaits(c, v, b, x, a)
  PROVE  /\ Level(WithItem(c, x), v, b, w)
         /\ Len(WithItem(c, x).items) = Len(c.items) + 1
         /\ Len(c.items) + 1 \in 1 .. Len(Inner(v))
<1>1. PICK n \in Nat : n = Len(Inner(v)) /\ Inner(v) \in [1 .. n -> Nested]
  <2>1. Inner(v) \in Seq(Nested)
    BY InnerAre DEF Level, IsComposite
  <2> QED BY <2>1, LenProperties
<1>2. PICK l \in Nat : l = Len(c.items) /\ l < n
  BY <1>1 DEF Level, Awaits
<1>3. l + 1 \in 1 .. n /\ l + 1 \in 0 .. n
  BY <1>2
<1> DEFINE AnyItem == Nested \cup (Keys \X Nested)
<1>4. /\ v.value \in Seq(AnyItem) /\ Len(v.value) = n
      /\ v.type = "array" => v.value[l + 1] = x
      /\ v.type = "object" =>
           /\ v.value[l + 1] = <<c.key, x>>
           /\ KeysDiffer(v.value) /\ v.value[l + 1][1] = c.key
  <2>1. IsValue(v) /\ v.type \in {"array", "object"} /\ x = Inner(v)[l + 1]
    BY <1>2 DEF Level, IsComposite, Awaits
  <2>2. CASE v.type = "array"
    <3>1. Inner(v) = v.value /\ v.value \in Seq(Nested)
      BY <2>1, <2>2, InnerAre
    <3>2. v.value \in Seq(AnyItem)
      BY <3>1
    <3>3. v.type # "object"
      BY <2>2
    <3> QED BY <1>1, <2>1, <3>1, <3>2, <3>3, Zenon
  <2>3. CASE v.type = "object"
    <3>1. /\ v.value \in Seq(Keys \X Nested) /\ KeysDiffer(v.value)
          /\ DOMAIN Inner(v) = DOMAIN v.value /\ Len(Inner(v)) = Len(v.value)
          /\ \A i \in DOMAIN v.value : Inner(v)[i] = v.value[i][2]
      BY <2>1, <2>3, InnerAre
    <3>2. v.value \in Seq(AnyItem)
      BY <3>1
    <3>3. l + 1 \in DOMAIN v.value
      BY <1>1, <1>3, <3>1
    <3>4. PICK y \in Keys \X Nested : y = v.value[l + 1]
      BY <3>1, <3>3
    <3>5. y[2] = x /\ y[1] = c.key
      <4>1. y[2] = x
        BY <2>1, <3>1, <3>3, <3>4, Zenon
      <4>2. y[1] = c.key
        BY <1>2, <2>3, <3>4 DEF Awaits
      <4> QED BY <4>1, <4>2
    <3>6. y = <<c.key, x>>
      BY <3>5
    <3>7. v.type # "array"
      BY <2>3
    <3> QED BY <1>1, <3>1, <3>2, <3>4, <3>5, <3>6, <3>7, Zenon
  <2> QED BY <2>1, <2>2, <2>3
<1>5. c.items = SubSeq(v.value, 1, l) /\ c \in OpenCalls /\ c.type = v.type
  BY <1>2 DEF Level
<1>6. PICK items \in Seq(AnyItem) : items = c.items /\ Len(items) = l
  BY <1>2, <1>5 DEF OpenCalls
<1>7. SubSeq(v.value, 1, l + 1) = Append(items, v.value[l + 1])
  <2>1. PICK s \in Seq(AnyItem) : s = v.value /\ Len(s) = n
    BY <1>4, Zenon
  <2>2. SubSeq(s, 1, l + 1) = Append(SubSeq(s, 1, l), s[l + 1])
    BY <1>3, <2>1
  <2> QED BY <1>5, <1>6, <2>1, <2>2, Zenon
<1>8. PICK new : new = IF c.type = "array" THEN Append(items, x) ELSE SetItem(items, c.key, x)
  OBVIOUS
<1>9. new = SubSeq(v.value, 1, l + 1)
  <2>1. CASE c.type = "array"
    BY <1>4, <1>5, <1>7, <1>8, <2>1, Zenon
  <2>2. CASE c.type # "array"
    <3>1. v.type = "object"
      BY <1>5, <2>2 DEF Level, IsComposite
    <3>2. ASSUME NEW i \in DOMAIN items PROVE items[i][1] # c.key
      <4>1. i \in 1 .. l /\ i # l + 1 /\ i \in 1 .. n /\ DOMAIN v.value = 1 .. n
        BY <1>2, <1>4, <1>6
      <4>2. items[i] = v.value[i]
        <5>1. PICK s \in Seq(AnyItem) : s = v.value /\ Len(s) = n
          BY <1>4, Zenon
        <5>2. SubSeq(s, 1, l)[i] = s[i]
          BY <1>2, <4>1, <5>1
        <5> QED BY <1>5, <1>6, <5>1, <5>2, Zenon
      <4> QED BY <1>3, <1>4, <3>1, <4>1, <4>2, Zenon DEF KeysDiffer
    <3>3. SetItem(items, c.key, x) = Append(items, <<c.key, x>>)
      BY <3>2, Zenon DEF SetItem
    <3> QED BY <1>4, <1>7, <1>8, <2>2, <3>1, <3>3, Zenon
  <2> QED BY <2>1, <2>2
<1>10. new \in Seq(AnyItem) /\ Len(new) = l + 1
  <2>1. v.value[l + 1] \in AnyItem
    BY <1>3, <1>4
  <2>2. Append(items, v.value[l + 1]) \in Seq(AnyItem) /\ Len(Append(items, v.value[l + 1])) = l + 1
    BY <1>6, <2>1, Added
  <2> QED BY <1>7, <1>9, <2>2, Zenon
<1>11. PICK f : f = WithItem(c, x)
  OBVIOUS
<1>12. f = [c EXCEPT !.items = new]
  BY <1>6, <1>8, <1>11, Zenon DEF WithItem
<1>13. f \in OpenCalls /\ f.items = new /\ f.type = c.type
  BY <1>5, <1>10, <1>12 DEF OpenCalls
<1>14. Level(f, v, b, w)
  <2>1. Len(f.items) \in 0 .. Len(Inner(v)) /\ f.items = SubSeq(v.value, 1, Len(f.items))
    BY <1>1, <1>3, <1>9, <1>10, <1>13
  <2> QED BY <1>5, <1>13, <2>1 DEF Level
<1> QED BY <1>1, <1>2, <1>3, <1>10, <1>11, <1>13, <1>14, Zenon

\* What the innermost of the open calls reads is what the one around it waits for.
LEMMA ChainFront ==
  ASSUME NEW d, NEW cs, NEW val, NEW base, Chain(cs, val, base, d),
         NEW p \in Nat, p = Len(cs), p > 0
  PROVE  /\ Chain(Front(cs), val, base, d)
         /\ IsNext(Front(cs), val, base, d, val[p], base[p])
<1>1. cs \in Seq(OpenCalls) /\ val[1] = d /\ base[1] = 0 /\ 1 \in 1 .. p
  BY DEF Chain
<1>2. PICK f \in Seq(OpenCalls) :
        f = Front(cs) /\ Len(f) = p - 1 /\ \A j \in 1 .. p - 1 : f[j] = cs[j]
  <2>1. PICK f : f = SubSeq(cs, 1, p - 1)
    OBVIOUS
  <2>2. f \in Seq(OpenCalls) /\ Len(f) = p - 1 /\ \A j \in 1 .. p - 1 : f[j] = cs[j]
    BY <1>1, <2>1
  <2>3. f = Front(cs)
    BY <2>1, Zenon DEF Front
  <2> QED BY <2>2, <2>3, Zenon
<1>3. \A j \in 1 .. p - 1 : Level(f[j], val[j], base[j], Write(d))
  <2> TAKE j \in 1 .. p - 1
  <2>1. j \in 1 .. p
    OBVIOUS
  <2> QED BY <1>2, <2>1, Zenon DEF Chain
<1>4. \A j \in 1 .. (p - 1) - 1 : Awaits(f[j], val[j], base[j], val[j + 1], base[j + 1])
  <2> TAKE j \in 1 .. (p - 1) - 1
  <2>1. j \in 1 .. p - 1
    OBVIOUS
  <2> QED BY <1>2, <2>1, Zenon DEF Chain
<1>5. Chain(f, val, base, d)
  BY <1>1, <1>2, <1>3, <1>4 DEF Chain
<1>6. IsNext(f, val, base, d, val[p], base[p])
  <2>1. CASE p = 1
    <3>1. f = <<>>
      BY <1>2, <2>1
    <3> QED BY <1>1, <2>1, <3>1, Zenon DEF IsNext
  <2>2. CASE p # 1
    <3>1. PICK q \in 1 .. p - 1 : q = p - 1 /\ q + 1 = p
      BY <2>2
    <3>2. f # <<>> /\ Len(f) = q
      BY <1>2, <2>2, <3>1
    <3>3. Awaits(cs[q], val[q], base[q], val[p], base[p])
      BY <3>1, Zenon DEF Chain
    <3> QED BY <1>2, <3>1, <3>2, <3>3, Zenon DEF IsNext
  <2> QED BY <2>1, <2>2
<1> QED BY <1>2, <1>5, <1>6, Zenon

\* A call that returns what was written leaves the parser in step.
LEMMA Returned ==
  ASSUME NEW d, IsDocument(d), NEW cs, NEW val, NEW base, Chain(cs, val, base, d),
         NEW x, NEW a, IsNext(cs, val, base, d, x, a), Return(x, cs),
         pos' = a + Len(Write(x)) + 1
  PROVE  Chain(calls', val, base, d) /\ Place(calls', expects', pos', parsed', val, base, d)
<1>1. CASE cs = <<>>
  <2>1. x = d /\ a = 0 /\ calls' = cs /\ expects' = "end" /\ parsed' = x
    BY <1>1 DEF IsNext, Return
  <2>2. PICK l \in Nat : l = Len(Write(d))
    <3>1. Write(d) \in Seq(Tok)
      BY CompositesShaped DEF IsDocument, Shaped
    <3> QED BY <3>1, LenProperties
  <2>3. pos' = Len(Write(d)) + 1
    BY <2>1, <2>2
  <2> QED BY <1>1, <2>1, <2>3, Zenon DEF Place
<1>2. CASE cs # <<>>
  <2>1. PICK p \in Nat : p = Len(cs) /\ p \in 1 .. p /\ cs \in Seq(OpenCalls)
    BY <1>2 DEF Chain
  <2>2. PICK c, v, b : /\ c = cs[p] /\ v = val[p] /\ b = base[p]
                       /\ Level(c, v, b, Write(d)) /\ Awaits(c, v, b, x, a)
    BY <1>2, <2>1, Zenon DEF IsNext, Chain
  <2>3. PICK l \in Nat, n \in Nat : l = Len(c.items) /\ n = Len(Inner(v))
    <3>1. Inner(v) \in Seq(Nested)
      BY <2>2, InnerAre DEF Level, IsComposite
    <3> QED BY <2>2, <3>1, LenProperties DEF Level
  <2>4. PICK f : /\ f = WithItem(c, x) /\ Level(f, v, b, Write(d)) /\ Len(f.items) = l + 1
                 /\ l + 1 \in 1 .. n
    BY <2>2, <2>3, ItemAdded
  <2>5. parsed' = x /\ expects' = "separator" /\ calls' = [cs EXCEPT ![p] = f]
    BY <1>2, <2>1, <2>2, <2>4 DEF Return, WithItem
  <2>6. PICK k \in Seq(OpenCalls) :
          k = calls' /\ Len(k) = p /\ k[p] = f /\ \A j \in 1 .. p - 1 : k[j] = cs[j]
    <3>1. f \in OpenCalls
      BY <2>4 DEF Level
    <3>2. PICK k : k = [cs EXCEPT ![p] = f]
      OBVIOUS
    <3>3. k \in Seq(OpenCalls) /\ Len(k) = p /\ k[p] = f /\ \A j \in 1 .. p - 1 : k[j] = cs[j]
      BY <2>1, <3>1, <3>2
    <3> QED BY <2>5, <3>2, <3>3, Zenon
  <2>7. Chain(k, val, base, d)
    <3>1. \A j \in 1 .. p : Level(k[j], val[j], base[j], Write(d))
      <4> TAKE j \in 1 .. p
      <4>1. j = p \/ j \in 1 .. p - 1
        OBVIOUS
      <4> QED BY <2>1, <2>2, <2>4, <2>6, <4>1, Zenon DEF Chain
    <3>2. \A j \in 1 .. p - 1 : Awaits(k[j], val[j], base[j], val[j + 1], base[j + 1])
      BY <2>1, <2>6, Zenon DEF Chain
    <3>3. val[1] = d /\ base[1] = 0
      BY <2>1 DEF Chain
    <3> QED BY <2>6, <3>1, <3>2, <3>3, Zenon DEF Chain
  <2>8. pos' = b + Ahead(v, (l + 1) + 1)
    <3>1. PartStands(v, l + 1)
      BY <2>2, <2>3, <2>4, CompositesShaped DEF Level, Shaped
    <3>2. x = Inner(v)[l + 1] /\ a = b + (Ahead(v, l + 1) + Skip(v)) /\ b \in Int
      BY <2>2, <2>3, Zenon DEF Awaits, Level
    <3>3. Write(x) = Written[x] /\ Write(x) \in Seq(Tok)
      <4>1. Inner(v) \in Seq(Nested)
        BY <2>2, InnerAre DEF Level, IsComposite
      <4>2. x \in Nested
        BY <2>3, <2>4, <3>2, <4>1
      <4> QED BY <4>2, WrittenAre, WrittenTyped
    <3>4. PICK m \in Nat, q \in Int, s \in Int :
            m = Len(Write(x)) /\ q = Ahead(v, l + 1) /\ s = Skip(v)
      BY <3>1, <3>3, LenProperties DEF PartStands, Skip
    <3>5. Ahead(v, (l + 1) + 1) = q + s + m + 1
      BY <3>1, <3>2, <3>3, <3>4, Zenon DEF PartStands
    <3>6. pos' = a + m + 1 /\ a = b + (q + s)
      BY <3>2, <3>4, Zenon
    <3>7. b + (q + s) + m + 1 = b + (q + s + m + 1)
      BY <3>2
    <3> QED BY <3>5, <3>6, <3>7, Zenon
  <2>9. Inside("separator", f, v, b, pos')
    <3>1. l + 1 > 0
      OBVIOUS
    <3> QED BY <2>4, <2>8, <3>1 DEF Inside
  <2>10. k # <<>>
    BY <2>1, <2>6
  <2> QED BY <2>2, <2>5, <2>6, <2>7, <2>9, <2>10, Zenon DEF Place
<1> QED BY <1>1, <1>2

\* The innermost open call, and the array or object it reads.
Opened(cs, val, base, d, m, c, v, b) ==
  /\ m \in Nat /\ m = Len(cs) /\ m > 0 /\ cs # <<>>
  /\ c = cs[m] /\ v = val[m] /\ b = base[m]
  /\ Level(c, v, b, Write(d)) /\ Shaped(v)

LEMMA OpenCall ==
  ASSUME NEW d, NEW cs, NEW val, NEW base, Chain(cs, val, base, d), cs # <<>>
  PROVE  Opened(cs, val, base, d, Len(cs), cs[Len(cs)], val[Len(cs)], base[Len(cs)])
<1>1. PICK p \in Nat : p = Len(cs) /\ p \in 1 .. p /\ p > 0
  BY DEF Chain
<1>2. Level(cs[p], val[p], base[p], Write(d))
  BY <1>1, Zenon DEF Chain
<1>3. Shaped(val[p])
  BY <1>2, CompositesShaped DEF Level
<1> QED BY <1>1, <1>2, <1>3, Zenon DEF Opened

\* What the parser finds next, by where it is.
Awaited(c, v, b, l) ==
  /\ At(Write(document), b + (Ahead(v, l + 1) + 1), KeyToken(v, l + 1))
  /\ At(Write(document), b + (Ahead(v, l + 1) + 2), Sign("colon"))

LEMMA LengthsAre ==
  ASSUME NEW c, NEW v, NEW b, NEW w, Level(c, v, b, w)
  PROVE  Len(c.items) \in Nat /\ Len(Inner(v)) \in Nat /\ b \in Int
         /\ Len(c.items) <= Len(Inner(v))
<1>1. Inner(v) \in Seq(Nested)
  BY InnerAre DEF Level, IsComposite
<1>2. Len(Inner(v)) \in Nat
  BY <1>1, LenProperties
<1> QED BY <1>2 DEF Level

\* Before the key of an item, and the colon behind it.
LEMMA KeyMet ==
  ASSUME NEW c, NEW v, NEW b, Level(c, v, b, Write(document)), Shaped(v), v.type = "object",
         NEW l \in Nat, l < Len(Inner(v))
  PROVE  Awaited(c, v, b, l)
<1>1. l + 1 \in 1 .. Len(Inner(v)) /\ b \in Int /\ Stands(Write(v), b, Write(document))
  BY LengthsAre DEF Level
<1>2. PartStands(v, l + 1)
  BY <1>1 DEF Shaped
<1>3. PICK q \in Int : q = Ahead(v, l + 1)
  BY <1>2 DEF PartStands
<1>4. At(Write(v), q + 1, KeyToken(v, l + 1)) /\ At(Write(v), q + 2, Sign("colon"))
  BY <1>2, <1>3, Zenon DEF PartStands
<1>5. q + 1 \in Int /\ q + 2 \in Int
  OBVIOUS
<1>6. /\ At(Write(document), b + (q + 1), KeyToken(v, l + 1))
      /\ At(Write(document), b + (q + 2), Sign("colon"))
  BY <1>1, <1>4, <1>5, StandsAt
<1> QED BY <1>3, <1>6, Zenon DEF Awaited

\* Behind an item: a comma, or the end.
LEMMA SeparatorMet ==
  ASSUME NEW c, NEW v, NEW b, Level(c, v, b, Write(document)), Shaped(v),
         NEW l \in Nat, l = Len(c.items), l > 0
  PROVE  At(Write(document), b + Ahead(v, l + 1),
            Sign(IF l < Len(Inner(v)) THEN "comma" ELSE Shuts(v)))
<1>1. l \in 1 .. Len(Inner(v)) /\ b \in Int /\ Stands(Write(v), b, Write(document))
  BY LengthsAre DEF Level
<1>2. PartStands(v, l)
  BY <1>1 DEF Shaped
<1>3. /\ Ahead(v, l + 1) \in Int
      /\ At(Write(v), Ahead(v, l + 1), Sign(IF l < Len(Inner(v)) THEN "comma" ELSE Shuts(v)))
  BY <1>2 DEF PartStands
<1> QED BY <1>1, <1>3, StandsAt

\* In an empty array or object: its end.
LEMMA EmptyMet ==
  ASSUME NEW c, NEW v, NEW b, Level(c, v, b, Write(document)), Shaped(v),
         Len(Inner(v)) = 0
  PROVE  At(Write(document), b + 2, Sign(Shuts(v))) /\ LastPlace(v) = 2
<1>1. b \in Int /\ Stands(Write(v), b, Write(document))
  BY DEF Level
<1>2. LastPlace(v) = 2 /\ At(Write(v), 2, Sign(Shuts(v)))
  BY DEF Shaped, LastPlace
<1> QED BY <1>1, <1>2, StandsAt

\* The parser goes on in step, or it fails or is about to, some of the text missing.
InStep ==
  \E val, base : /\ Chain(calls, val, base, document)
                 /\ Place(calls, expects, pos, parsed, val, base, document)

Lost == expects = "separator" /\ ~intact /\ ~(pos <= Len(text))

AfterStep(n) ==
  \/ expects = "failed" /\ ~intact
  \/ Lost
  \/ InStep /\ pos <= n + 1

TextKept == UNCHANGED <<document, sets, text, intact>>

LEMMA FailedAfter ==
  ASSUME NEW n, Fail, ~intact, TextKept PROVE AfterStep(n)'
BY DEF Fail, TextKept, AfterStep

\* In an array without items read, a value comes next, or the end.
LEMMA FirstItemIs ==
  ASSUME NEW cs, NEW val, NEW base, NEW m, NEW c, NEW v, NEW b,
         Opened(cs, val, base, document, m, c, v, b),
         v.type = "array", Len(c.items) = 0, pos = b + 2
  PROVE  \/ Len(Inner(v)) > 0 /\ \E x, a : IsNext(cs, val, base, document, x, a) /\ pos = a + 1
         \/ Len(Inner(v)) = 0 /\ At(Write(document), pos, Sign("end_array"))
<1>1. Level(c, v, b, Write(document)) /\ Shaped(v)
  BY DEF Opened
<1>2. Len(Inner(v)) \in Nat /\ b \in Int
  BY <1>1, LengthsAre
<1>3. CASE Len(Inner(v)) = 0
  <2>1. Shuts(v) = "end_array"
    BY DEF Shuts
  <2>2. At(Write(document), b + 2, Sign(Shuts(v)))
    BY <1>1, <1>3, EmptyMet
  <2> QED BY <1>3, <2>1, <2>2, Zenon
<1>4. CASE Len(Inner(v)) # 0
  <2>1. Ahead(v, 0 + 1) = 1 /\ Skip(v) = 0
    BY <1>1 DEF Shaped, Skip
  <2>2. PICK x, a : x = Inner(v)[Len(c.items) + 1] /\ a = b + (Ahead(v, Len(c.items) + 1) + Skip(v))
    OBVIOUS
  <2>3. Len(c.items) < Len(Inner(v)) /\ Len(Inner(v)) > 0
    BY <1>2, <1>4
  <2>4. v.type # "object"
    OBVIOUS
  <2>5. Awaits(c, v, b, x, a)
    BY <2>2, <2>3, <2>4, Zenon DEF Awaits
  <2>6. IsNext(cs, val, base, document, x, a)
    BY <2>5, Zenon DEF IsNext, Opened
  <2>7. a = b + (1 + 0)
    BY <2>1, <2>2, Zenon
  <2>8. pos = a + 1
    BY <1>2, <2>7
  <2> QED BY <2>3, <2>6, <2>8, Zenon
<1> QED BY <1>3, <1>4

\* In an object without items read, a key comes next, or the end.
LEMMA FirstKeyIs ==
  ASSUME NEW c, NEW v, NEW b, Level(c, v, b, Write(document)), Shaped(v),
         v.type = "object", Len(c.items) = 0, pos = b + 2
  PROVE  \/ Len(Inner(v)) > 0 /\ pos = b + (Ahead(v, Len(c.items) + 1) + 1)
         \/ Len(Inner(v)) = 0 /\ At(Write(document), pos, Sign("end_object"))
<1>1. Len(Inner(v)) \in Nat /\ b \in Int
  BY LengthsAre
<1>2. CASE Len(Inner(v)) = 0
  <2>1. Shuts(v) = "end_object"
    BY DEF Shuts
  <2>2. At(Write(document), b + 2, Sign(Shuts(v)))
    BY <1>2, EmptyMet
  <2> QED BY <1>2, <2>1, <2>2, Zenon
<1>3. CASE Len(Inner(v)) # 0
  <2>1. Ahead(v, 0 + 1) = 1
    BY DEF Shaped
  <2>2. b + 2 = b + (1 + 1) /\ Len(Inner(v)) > 0
    BY <1>1, <1>3
  <2> QED BY <2>1, <2>2, Zenon
<1> QED BY <1>2, <1>3

\* An array or object is opened: the call that reads it is the innermost.
LEMMA CallOpened ==
  ASSUME NEW d, IsDocument(d), NEW cs, NEW val, NEW base, Chain(cs, val, base, d),
         NEW x, NEW a, IsNext(cs, val, base, d, x, a), IsComposite(x),
         NEW k, k = Append(cs, [type |-> x.type, items |-> <<>>, key |-> "none"]),
         NEW e, e = (IF x.type = "array" THEN "first_item" ELSE "first_key"), NEW r
  PROVE  \E val2, base2 : Chain(k, val2, base2, d) /\ Place(k, e, a + 2, r, val2, base2, d)
<1>1. PICK c : c = [type |-> x.type, items |-> <<>>, key |-> "none"]
  OBVIOUS
<1>2. c \in OpenCalls /\ c.type = x.type /\ c.items = <<>> /\ Len(c.items) = 0
  BY <1>1 DEF OpenCalls, IsComposite
<1>3. PICK p \in Nat : p = Len(cs) /\ cs \in Seq(OpenCalls)
  BY LenProperties DEF Chain
<1>4. /\ k \in Seq(OpenCalls) /\ Len(k) = p + 1 /\ k[p + 1] = c
      /\ \A j \in 1 .. p : k[j] = cs[j]
  <2>1. k = Append(cs, c)
    BY <1>1, Zenon
  <2> QED BY <1>2, <1>3, <2>1, Added
<1>5. PICK val2 : val2 = [j \in 1 .. p + 1 |-> IF j = p + 1 THEN x ELSE val[j]]
  OBVIOUS
<1>6. PICK base2 : base2 = [j \in 1 .. p + 1 |-> IF j = p + 1 THEN a ELSE base[j]]
  OBVIOUS
<1>7. /\ val2[p + 1] = x /\ base2[p + 1] = a
      /\ \A j \in 1 .. p : val2[j] = val[j] /\ base2[j] = base[j]
  <2>1. p + 1 \in 1 .. p + 1 /\ \A j \in 1 .. p : j \in 1 .. p + 1 /\ j # p + 1
    OBVIOUS
  <2> QED BY <1>5, <1>6, <2>1, Zenon
<1>8. Level(c, x, a, Write(d))
  <2>1. a \in Int /\ Stands(Write(x), a, Write(d)) /\ IsValue(x)
    BY DueStands
  <2>2. Len(Inner(x)) \in Nat
    <3>1. Inner(x) \in Seq(Nested)
      BY <2>1, InnerAre
    <3> QED BY <3>1, LenProperties
  <2>3. SubSeq(x.value, 1, 0) = <<>>
    <3>1. x.value \in Seq(Nested) \/ x.value \in Seq(Keys \X Nested)
      BY <2>1, InnerAre DEF IsComposite
    <3>2. ASSUME NEW S, NEW q \in Seq(S) PROVE SubSeq(q, 1, 0) = <<>>
      OBVIOUS
    <3> QED BY <3>1, <3>2
  <2>4. 0 \in 0 .. Len(Inner(x))
    BY <2>2
  <2> QED BY <1>2, <2>1, <2>3, <2>4, Zenon DEF Level
<1>9. \A j \in 1 .. p + 1 : Level(k[j], val2[j], base2[j], Write(d))
  <2> TAKE j \in 1 .. p + 1
  <2>1. j = p + 1 \/ j \in 1 .. p
    OBVIOUS
  <2> QED BY <1>3, <1>4, <1>7, <1>8, <2>1, Zenon DEF Chain
<1>10. p # 0 => Awaits(cs[p], val[p], base[p], x, a)
  <2>1. p # 0 => cs # <<>>
    BY <1>3
  <2> QED BY <1>3, <2>1, Zenon DEF IsNext
<1>11. \A j \in 1 .. (p + 1) - 1 : Awaits(k[j], val2[j], base2[j], val2[j + 1], base2[j + 1])
  <2> TAKE j \in 1 .. (p + 1) - 1
  <2>1. j \in 1 .. p /\ p # 0
    OBVIOUS
  <2>2. CASE j = p
    BY <1>4, <1>7, <1>10, <2>1, <2>2, Zenon
  <2>3. CASE j # p
    <3>1. j \in 1 .. p - 1 /\ j + 1 \in 1 .. p
      BY <2>1, <2>3
    <3> QED BY <1>3, <1>4, <1>7, <2>1, <3>1, Zenon DEF Chain
  <2> QED BY <2>2, <2>3
<1>12. val2[1] = d /\ base2[1] = 0
  <2>1. CASE p = 0
    <3>1. cs = <<>> /\ p + 1 = 1
      <4>1. cs = <<>>
        <5>1. \A q \in Seq(OpenCalls) : Len(q) = 0 => q = <<>>
          OBVIOUS
        <5> QED BY <1>3, <2>1, <5>1, Zenon
      <4>2. p + 1 = 1
        BY <2>1
      <4> QED BY <4>1, <4>2
    <3>2. x = d /\ a = 0
      BY <3>1 DEF IsNext
    <3>3. val2[1] = x /\ base2[1] = a
      BY <1>7, <3>1
    <3> QED BY <3>2, <3>3
  <2>2. CASE p # 0
    <3>1. 1 \in 1 .. p /\ Len(cs) > 0
      BY <1>3, <2>2
    <3> QED BY <1>7, <3>1, Zenon DEF Chain
  <2> QED BY <2>1, <2>2
<1>13. Chain(k, val2, base2, d)
  BY <1>4, <1>9, <1>11, <1>12, Zenon DEF Chain
<1>14. k # <<>> /\ Len(k) = p + 1
  BY <1>3, <1>4
<1>15. Inside(e, c, x, a, a + 2)
  <2>1. x.type \in {"array", "object"}
    BY DEF IsComposite
  <2> QED BY <1>2, <2>1 DEF Inside
<1>16. Place(k, e, a + 2, r, val2, base2, d)
  BY <1>4, <1>7, <1>14, <1>15, Zenon DEF Place
<1> QED BY <1>13, <1>16

\* The state of a parser in step: the open calls, and how much of the text is there.
ParsesAt(n, val, base) ==
  /\ IsDocument(document) /\ KeptText(n, Write(document)) /\ pos <= n + 1
  /\ Chain(calls, val, base, document)
  /\ Place(calls, expects, pos, parsed, val, base, document)

\* The place of a call that expects neither a value nor the end of the text.
LEMMA PlaceInside ==
  ASSUME NEW n, NEW val, NEW base, ParsesAt(n, val, base), expects \notin {"value", "end"}
  PROVE  \E m, c, v, b : /\ Opened(calls, val, base, document, m, c, v, b)
                         /\ Inside(expects, c, v, b, pos)
<1>1. calls # <<>> /\ Inside(expects, calls[Len(calls)], val[Len(calls)], base[Len(calls)], pos)
  BY DEF ParsesAt, Place
<1>2. Opened(calls, val, base, document, Len(calls), calls[Len(calls)], val[Len(calls)],
             base[Len(calls)])
  BY <1>1, OpenCall DEF ParsesAt
<1> QED BY <1>1, <1>2

\* In step after a step of the parser.
LEMMA InStepAfter ==
  ASSUME NEW n, NEW val, NEW base, TextKept, pos' <= n + 1,
         Chain(calls', val, base, document),
         Place(calls', expects', pos', parsed', val, base, document)
  PROVE  AfterStep(n)'
<1>1. document' = document
  BY DEF TextKept
<1>2. InStep'
  BY <1>1 DEF InStep
<1> QED BY <1>2 DEF AfterStep

LEMMA ValueParsed ==
  ASSUME NEW n, NEW val, NEW base, ParsesAt(n, val, base), ParseValue
  PROVE  AfterStep(n)'
<1>1. /\ IsDocument(document) /\ KeptText(n, Write(document)) /\ pos <= n + 1
      /\ Chain(calls, val, base, document)
      /\ Place(calls, expects, pos, parsed, val, base, document) /\ TextKept
  BY DEF ParsesAt, ParseValue, TextKept
<1>2. /\ expects = "value" \/ (expects = "first_item" /\ ~Is("end_array"))
      /\ IF Is("begin_array") \/ Is("begin_object")
         THEN /\ calls' = Append(calls, [type |-> IF Is("begin_array") THEN "array" ELSE "object",
                                         items |-> <<>>, key |-> "none"])
              /\ expects' = IF Is("begin_array") THEN "first_item" ELSE "first_key"
              /\ Advance /\ UNCHANGED parsed
         ELSE IF ReadsAsScalar(Token)
              THEN Return(ScalarOf(Token), calls) /\ Advance
              ELSE Fail
  BY Zenon DEF ParseValue
<1>3. CASE ~intact /\ Token.kind = "eof"
  <2>1. ~Is("begin_array") /\ ~Is("begin_object") /\ ~ReadsAsScalar(Token)
    BY <1>3 DEF Is, ReadsAsScalar
  <2>2. Fail
    BY <1>2, <2>1, Zenon
  <2> QED BY <1>1, <1>3, <2>2, FailedAfter
<1>4. \/ \E x, a : IsNext(calls, val, base, document, x, a) /\ pos = a + 1
      \/ ~intact /\ Token.kind = "eof"
  <2>1. CASE expects = "value"
    <3>1. ~Inside(expects, calls[Len(calls)], val[Len(calls)], base[Len(calls)], pos)
      BY <2>1 DEF Inside
    <3> QED BY <1>1, <2>1, <3>1 DEF Place
  <2>2. CASE expects = "first_item" /\ ~Is("end_array")
    <3>1. PICK m, c, v, b : /\ Opened(calls, val, base, document, m, c, v, b)
                            /\ Inside(expects, c, v, b, pos)
      BY <2>2, PlaceInside
    <3>2. v.type = "array" /\ Len(c.items) = 0 /\ pos = b + 2
      BY <2>2, <3>1 DEF Inside
    <3>3. \/ \E x, a : IsNext(calls, val, base, document, x, a) /\ pos = a + 1
          \/ At(Write(document), pos, Sign("end_array"))
      BY <3>1, <3>2, FirstItemIs
    <3>4. ASSUME At(Write(document), pos, Sign("end_array")) PROVE ~intact /\ Token.kind = "eof"
      <4>1. Sign("end_array").kind = "sign" /\ Sign("end_array").v = "end_array"
        BY DEF Sign
      <4>2. Token # Sign("end_array")
        BY <2>2, <4>1 DEF Is
      <4> QED BY <1>1, <3>4, <4>1, <4>2, TokenMet
    <3> QED BY <3>3, <3>4
  <2> QED BY <1>2, <2>1, <2>2
<1>5. ASSUME NEW x, NEW a, IsNext(calls, val, base, document, x, a), pos = a + 1
      PROVE  AfterStep(n)'
  <2>1. /\ a \in Int /\ IsValue(x) /\ Stands(Write(x), a, Write(document))
        /\ IsComposite(x) \/ x \in Nested
    BY <1>1, <1>5, DueStands
  <2>2. CASE IsComposite(x)
    <3>1. At(Write(document), pos, Sign(Opens(x)))
      <4>1. At(Write(x), 1, Sign(Opens(x)))
        BY <2>2, CompositesShaped DEF Shaped
      <4> QED BY <1>5, <2>1, <4>1, StandsAt
    <3>2. Sign(Opens(x)).kind = "sign" /\ Sign(Opens(x)).v = Opens(x)
      BY DEF Sign
    <3>3. CASE Token = Sign(Opens(x)) /\ pos <= n /\ pos + 1 <= n + 1
      <4>1. /\ Is("begin_array") \/ Is("begin_object")
            /\ Is("begin_array") <=> x.type = "array"
            /\ x.type = IF Is("begin_array") THEN "array" ELSE "object"
        BY <2>2, <3>2, <3>3 DEF Is, Opens, IsComposite
      <4>2. /\ calls' = Append(calls, [type |-> x.type, items |-> <<>>, key |-> "none"])
            /\ expects' = (IF x.type = "array" THEN "first_item" ELSE "first_key") /\ Advance
        BY <1>2, <4>1, Zenon
      <4>3. pos' = a + 2 /\ pos' <= n + 1
        BY <1>5, <2>1, <3>3, <4>2 DEF Advance
      <4>4. PICK val2, base2 : /\ Chain(calls', val2, base2, document)
                               /\ Place(calls', expects', a + 2, parsed', val2, base2, document)
        BY <1>1, <1>5, <2>2, <4>2, CallOpened
      <4> QED BY <1>1, <4>3, <4>4, InStepAfter
    <3>4. CASE ~(Token = Sign(Opens(x)) /\ pos <= n /\ pos + 1 <= n + 1)
      <4>1. ~intact /\ Token.kind = "eof"
        BY <1>1, <3>1, <3>2, <3>4, TokenMet
      <4> QED BY <1>3, <4>1
    <3> QED BY <3>3, <3>4
  <2>3. CASE ~IsComposite(x)
    <3>1. PICK t : ReadsAs(t, x) /\ Write(x) = <<t>>
      BY <2>1, <2>3, ScalarsReadBack
    <3>2. At(Write(document), pos, t) /\ Len(Write(x)) = 1
      <4>1. 1 \in 1 .. Len(Write(x)) /\ Write(x)[1] = t /\ Len(Write(x)) = 1
        BY <3>1
      <4> QED BY <1>5, <2>1, <4>1, Zenon DEF Stands
    <3>3. calls # <<>>
      BY <1>1, <1>5, <2>3 DEF IsNext, IsDocument
    <3>4. CASE Token = t /\ pos <= n /\ pos + 1 <= n + 1
      <4>1. ~Is("begin_array") /\ ~Is("begin_object") /\ ReadsAsScalar(Token) /\ ScalarOf(Token) = x
        BY <3>1, <3>4 DEF Is, ReadsAs
      <4>2. Return(x, calls) /\ Advance
        BY <1>2, <4>1, Zenon
      <4>3. pos' = a + Len(Write(x)) + 1 /\ pos' <= n + 1
        BY <1>5, <2>1, <3>2, <3>4, <4>2 DEF Advance
      <4>4. /\ Chain(calls', val, base, document)
            /\ Place(calls', expects', pos', parsed', val, base, document)
        BY <1>1, <1>5, <4>2, <4>3, Returned
      <4> QED BY <1>1, <4>3, <4>4, InStepAfter
    <3>5. CASE ~(Token = t /\ pos <= n /\ pos + 1 <= n + 1)
      <4>1. ~intact /\ ~(pos + 1 <= Len(text)) /\ Token.kind \in {"eof", "part"}
        BY <1>1, <3>2, <3>5, TokenMet
      <4>2. CASE Token.kind = "eof"
        BY <1>3, <4>1, <4>2
      <4>3. CASE Token.kind = "part"
        <5>1. ~Is("begin_array") /\ ~Is("begin_object")
          BY <4>3 DEF Is
        <5>2. CASE ReadsAsScalar(Token)
          <6>1. Return(ScalarOf(Token), calls) /\ Advance
            BY <1>2, <5>1, <5>2, Zenon
          <6>2. expects' = "separator" /\ pos' = pos + 1
            BY <3>3, <6>1 DEF Return, Advance
          <6> QED BY <1>1, <4>1, <6>2 DEF AfterStep, Lost, TextKept
        <5>3. CASE ~ReadsAsScalar(Token)
          <6>1. Fail
            BY <1>2, <5>1, <5>3, Zenon
          <6> QED BY <1>1, <4>1, <6>1, FailedAfter
        <5> QED BY <5>2, <5>3
      <4> QED BY <4>1, <4>2, <4>3
    <3> QED BY <3>4, <3>5
  <2> QED BY <2>2, <2>3
<1> QED BY <1>3, <1>4, <1>5

\* A key is read: the call that reads the object keeps it.
LEMMA KeyKept ==
  ASSUME NEW cs, NEW val, NEW base, NEW d, Chain(cs, val, base, d),
         NEW m, NEW c, NEW v, NEW b, Opened(cs, val, base, d, m, c, v, b),
         v.type = "object", Len(c.items) < Len(Inner(v)),
         NEW key, key = v.value[Len(c.items) + 1][1],
         NEW k, k = [cs EXCEPT ![m].key = key], NEW r
  PROVE  /\ Chain(k, val, base, d)
         /\ Place(k, "colon", b + (Ahead(v, Len(c.items) + 1) + 2), r, val, base, d)
<1>1. /\ Level(c, v, b, Write(d)) /\ m \in Nat /\ m \in 1 .. m /\ m = Len(cs)
      /\ cs \in Seq(OpenCalls) /\ c = cs[m] /\ v = val[m] /\ b = base[m]
  BY DEF Opened, Chain
<1>2. PICK l \in Nat, n \in Nat : l = Len(c.items) /\ n = Len(Inner(v)) /\ l < n
  BY <1>1, LengthsAre
<1>3. key \in Keys
  <2>1. v.value \in Seq(Keys \X Nested) /\ Len(v.value) = n
    BY <1>1, <1>2, InnerAre DEF Level, IsComposite
  <2>2. l + 1 \in 1 .. n
    BY <1>2
  <2>3. v.value[l + 1] \in Keys \X Nested
    BY <2>1, <2>2
  <2> QED BY <1>2, <2>3
<1>4. PICK f : f = [c EXCEPT !.key = key]
  OBVIOUS
<1>5. f \in OpenCalls /\ f.type = c.type /\ f.items = c.items /\ f.key = key
  BY <1>1, <1>3, <1>4 DEF Level, OpenCalls
<1>6. Level(f, v, b, Write(d))
  BY <1>1, <1>5 DEF Level
<1>7. k = [cs EXCEPT ![m] = f]
  BY <1>1, <1>4
<1>8. /\ k \in Seq(OpenCalls) /\ Len(k) = m /\ k[m] = f
      /\ \A j \in 1 .. m - 1 : k[j] = cs[j]
  BY <1>1, <1>5, <1>7
<1>9. \A j \in 1 .. m : Level(k[j], val[j], base[j], Write(d))
  <2> TAKE j \in 1 .. m
  <2>1. j = m \/ j \in 1 .. m - 1
    BY <1>1
  <2> QED BY <1>1, <1>6, <1>8, <2>1, Zenon DEF Chain
<1>10. \A j \in 1 .. m - 1 : Awaits(k[j], val[j], base[j], val[j + 1], base[j + 1])
  BY <1>1, <1>8, Zenon DEF Chain
<1>11. val[1] = d /\ base[1] = 0
  BY <1>1 DEF Chain
<1>12. Chain(k, val, base, d)
  BY <1>8, <1>9, <1>10, <1>11, Zenon DEF Chain
<1>13. Inside("colon", f, v, b, b + (Ahead(v, l + 1) + 2))
  BY <1>2, <1>5 DEF Inside
<1>14. k # <<>>
  BY <1>1, <1>8
<1> QED BY <1>1, <1>2, <1>8, <1>12, <1>13, <1>14, Zenon DEF Place

LEMMA KeyParsed ==
  ASSUME NEW n, NEW val, NEW base, ParsesAt(n, val, base), ParseKey
  PROVE  AfterStep(n)'
<1>1. /\ IsDocument(document) /\ KeptText(n, Write(document)) /\ pos <= n + 1
      /\ Chain(calls, val, base, document) /\ TextKept
  BY DEF ParsesAt, ParseKey, TextKept
<1>2. /\ expects = "key" \/ (expects = "first_key" /\ ~Is("end_object"))
      /\ IF Token.kind = "string"
         THEN /\ calls' = [calls EXCEPT ![Len(calls)].key = Token.v[1]]
              /\ expects' = "colon" /\ Advance /\ UNCHANGED parsed
         ELSE Fail
  BY Zenon DEF ParseKey
<1>3. CASE ~intact /\ Token.kind \in {"eof", "part"}
  <2>1. Fail
    BY <1>2, <1>3
  <2> QED BY <1>1, <1>3, <2>1, FailedAfter
<1>4. PICK m, c, v, b : /\ Opened(calls, val, base, document, m, c, v, b)
                        /\ Inside(expects, c, v, b, pos)
  BY <1>2, PlaceInside
<1>5. Level(c, v, b, Write(document)) /\ Shaped(v) /\ v.type = "object" /\ m = Len(calls)
  BY <1>2, <1>4 DEF Opened, Inside
<1>6. PICK l \in Nat : l = Len(c.items) /\ Len(Inner(v)) \in Nat /\ b \in Int
  BY <1>5, LengthsAre
<1>7. \/ l < Len(Inner(v)) /\ pos = b + (Ahead(v, l + 1) + 1)
      \/ ~intact /\ Token.kind = "eof"
  <2>1. CASE expects = "key"
    BY <1>4, <1>6, <2>1 DEF Inside
  <2>2. CASE expects = "first_key" /\ ~Is("end_object")
    <3>1. Len(c.items) = 0 /\ pos = b + 2
      BY <1>4, <2>2 DEF Inside
    <3>2. \/ Len(Inner(v)) > 0 /\ pos = b + (Ahead(v, Len(c.items) + 1) + 1)
          \/ Len(Inner(v)) = 0 /\ At(Write(document), pos, Sign("end_object"))
      BY <1>5, <3>1, FirstKeyIs
    <3>3. ASSUME At(Write(document), pos, Sign("end_object")) PROVE ~intact /\ Token.kind = "eof"
      <4>1. Sign("end_object").kind = "sign" /\ Sign("end_object").v = "end_object"
        BY DEF Sign
      <4>2. Token # Sign("end_object")
        BY <2>2, <4>1 DEF Is
      <4> QED BY <1>1, <3>3, <4>1, <4>2, TokenMet
    <3> QED BY <1>6, <3>1, <3>2, <3>3
  <2> QED BY <1>2, <2>1, <2>2
<1>8. CASE l < Len(Inner(v)) /\ pos = b + (Ahead(v, l + 1) + 1)
  <2>1. At(Write(document), pos, KeyToken(v, l + 1))
    BY <1>5, <1>8, KeyMet DEF Awaited
  <2>2. PICK key : key = v.value[l + 1][1]
    OBVIOUS
  <2>3. KeyToken(v, l + 1).kind = "string" /\ KeyToken(v, l + 1).v[1] = key
    BY <2>2 DEF KeyToken
  <2>4. CASE Token = KeyToken(v, l + 1) /\ pos <= n /\ pos + 1 <= n + 1
    <3>1. calls' = [calls EXCEPT ![m].key = key] /\ expects' = "colon" /\ Advance
      BY <1>2, <1>5, <2>3, <2>4, Zenon
    <3>2. pos' = b + (Ahead(v, l + 1) + 2) /\ pos' <= n + 1
      <4>1. PICK q \in Int : q = Ahead(v, l + 1)
        <5>1. PartStands(v, l + 1)
          BY <1>5, <1>6, <1>8 DEF Shaped
        <5> QED BY <5>1 DEF PartStands
      <4>2. pos = b + (q + 1)
        BY <1>8, <4>1, Zenon
      <4>3. pos' = b + (q + 2) /\ pos' <= n + 1
        BY <1>6, <2>4, <3>1, <4>2 DEF Advance
      <4> QED BY <4>1, <4>3, Zenon
    <3>3. /\ Chain(calls', val, base, document)
          /\ Place(calls', "colon", b + (Ahead(v, l + 1) + 2), parsed', val, base, document)
      BY <1>1, <1>4, <1>5, <1>6, <1>8, <2>2, <3>1, KeyKept
    <3> QED BY <1>1, <3>1, <3>2, <3>3, InStepAfter
  <2>5. CASE ~(Token = KeyToken(v, l + 1) /\ pos <= n /\ pos + 1 <= n + 1)
    <3>1. ~intact /\ Token.kind \in {"eof", "part"}
      BY <1>1, <2>1, <2>5, TokenMet
    <3> QED BY <1>3, <3>1
  <2> QED BY <2>4, <2>5
<1> QED BY <1>3, <1>7, <1>8

LEMMA ColonParsed ==
  ASSUME NEW n, NEW val, NEW base, ParsesAt(n, val, base), ParseColon
  PROVE  AfterStep(n)'
<1>1. /\ IsDocument(document) /\ KeptText(n, Write(document)) /\ pos <= n + 1
      /\ Chain(calls, val, base, document) /\ TextKept
  BY DEF ParsesAt, ParseColon, TextKept
<1>2. /\ expects = "colon"
      /\ IF Is("colon") THEN expects' = "value" /\ Advance /\ UNCHANGED <<calls, parsed>> ELSE Fail
  BY Zenon DEF ParseColon
<1>3. PICK m, c, v, b : /\ Opened(calls, val, base, document, m, c, v, b)
                        /\ Inside(expects, c, v, b, pos)
  BY <1>2, PlaceInside
<1>4. Level(c, v, b, Write(document)) /\ Shaped(v) /\ m = Len(calls)
  BY <1>3 DEF Opened
<1>5. PICK l \in Nat : l = Len(c.items) /\ Len(Inner(v)) \in Nat /\ b \in Int
  BY <1>4, LengthsAre
<1>6. /\ v.type = "object" /\ l < Len(Inner(v)) /\ pos = b + (Ahead(v, l + 1) + 2)
      /\ c.key = v.value[l + 1][1]
  BY <1>2, <1>3, <1>5 DEF Inside
<1>7. At(Write(document), pos, Sign("colon"))
  BY <1>4, <1>6, KeyMet DEF Awaited
<1>8. Sign("colon").kind = "sign" /\ Sign("colon").v = "colon"
  BY DEF Sign
<1>9. CASE Token = Sign("colon") /\ pos <= n /\ pos + 1 <= n + 1
  <2>1. expects' = "value" /\ Advance /\ UNCHANGED <<calls, parsed>>
    BY <1>2, <1>8, <1>9, Zenon DEF Is
  <2>2. PICK x, a : x = Inner(v)[l + 1] /\ a = b + (Ahead(v, l + 1) + Skip(v))
    OBVIOUS
  <2>3. Awaits(c, v, b, x, a)
    BY <1>5, <1>6, <2>2, Zenon DEF Awaits
  <2>4. IsNext(calls, val, base, document, x, a)
    BY <1>3, <2>3, Zenon DEF IsNext, Opened
  <2>5. pos' = a + 1 /\ pos' <= n + 1
    <3>1. a = pos
      BY <1>6, <2>2 DEF Skip
    <3> QED BY <1>9, <2>1, <3>1 DEF Advance
  <2>6. Place(calls', expects', pos', parsed', val, base, document)
    BY <2>1, <2>4, <2>5 DEF Place
  <2>7. Chain(calls', val, base, document)
    BY <1>1, <2>1
  <2> QED BY <1>1, <2>5, <2>6, <2>7, InStepAfter
<1>10. CASE ~(Token = Sign("colon") /\ pos <= n /\ pos + 1 <= n + 1)
  <2>1. ~intact /\ Token.kind = "eof"
    BY <1>1, <1>7, <1>8, <1>10, TokenMet
  <2>2. Fail
    BY <1>2, <2>1, Zenon DEF Is
  <2> QED BY <1>1, <2>1, <2>2, FailedAfter
<1> QED BY <1>9, <1>10

\* Where an array or object ends, all of it was read.
LEMMA EndReached ==
  ASSUME NEW n, NEW val, NEW base, ParsesAt(n, val, base),
         NEW m, NEW c, NEW v, NEW b, Opened(calls, val, base, document, m, c, v, b),
         Inside(expects, c, v, b, pos), expects \in {"first_item", "first_key", "separator"},
         Is(Shuts(v))
  PROVE  /\ pos <= n /\ Len(c.items) = Len(Inner(v)) /\ pos = b + LastPlace(v)
<1>1. KeptText(n, Write(document)) /\ pos <= n + 1 /\ Chain(calls, val, base, document)
      /\ IsDocument(document)
  BY DEF ParsesAt
<1>2. Level(c, v, b, Write(document)) /\ Shaped(v)
  BY DEF Opened
<1>3. PICK l \in Nat, k \in Nat : l = Len(c.items) /\ k = Len(Inner(v)) /\ l <= k /\ b \in Int
  BY <1>2, LengthsAre
<1>4. Token.kind = "sign" /\ Token.v = Shuts(v) /\ Token.kind # "eof" /\ Token.kind # "part"
      /\ Shuts(v) # "comma" /\ Shuts(v) \in {"end_array", "end_object"}
  BY DEF Is, Shuts
<1>5. ASSUME NEW t, At(Write(document), pos, t) PROVE Token = t /\ pos <= n
  BY <1>1, <1>4, <1>5, TokenMet
<1>6. CASE expects = "first_item"
  <2>1. v.type = "array" /\ l = 0 /\ pos = b + 2
    BY <1>3, <1>6 DEF Inside
  <2>2. ASSUME NEW x, NEW a, IsNext(calls, val, base, document, x, a), pos = a + 1 PROVE FALSE
    <3>1. /\ a \in Int /\ IsValue(x) /\ Stands(Write(x), a, Write(document))
          /\ IsComposite(x) \/ x \in Nested
      BY <1>1, <2>2, DueStands
    <3>2. CASE IsComposite(x)
      <4>1. At(Write(x), 1, Sign(Opens(x)))
        BY <3>2, CompositesShaped DEF Shaped
      <4>2. At(Write(document), pos, Sign(Opens(x)))
        BY <2>2, <3>1, <4>1, StandsAt
      <4>3. Token = Sign(Opens(x))
        BY <1>5, <4>2, Zenon
      <4> QED BY <1>4, <4>3 DEF Sign, Opens
    <3>3. CASE ~IsComposite(x)
      <4>1. PICK t : ReadsAs(t, x) /\ Write(x) = <<t>>
        BY <3>1, <3>3, ScalarsReadBack
      <4>2. 1 \in 1 .. Len(Write(x)) /\ Write(x)[1] = t
        BY <4>1
      <4>3. At(Write(document), pos, t)
        BY <2>2, <3>1, <4>2, Zenon DEF Stands
      <4>4. Token = t
        BY <1>5, <4>3, Zenon
      <4> QED BY <1>4, <4>1, <4>4 DEF ReadsAs
    <3> QED BY <3>2, <3>3
  <2>3. Len(Inner(v)) = 0 /\ At(Write(document), pos, Sign("end_array"))
    BY <1>3, <2>1, <2>2, FirstItemIs
  <2>4. LastPlace(v) = 2
    BY <1>2, <2>3, EmptyMet
  <2> QED BY <1>3, <1>5, <2>1, <2>3, <2>4, Zenon
<1>7. CASE expects = "first_key"
  <2>1. v.type = "object" /\ l = 0 /\ pos = b + 2
    BY <1>3, <1>7 DEF Inside
  <2>2. \/ Len(Inner(v)) > 0 /\ pos = b + (Ahead(v, l + 1) + 1)
        \/ Len(Inner(v)) = 0 /\ At(Write(document), pos, Sign("end_object"))
    BY <1>2, <1>3, <2>1, FirstKeyIs
  <2>3. ASSUME Len(Inner(v)) > 0 /\ pos = b + (Ahead(v, l + 1) + 1) PROVE FALSE
    <3>1. At(Write(document), pos, KeyToken(v, l + 1))
      BY <1>2, <2>1, <2>3, KeyMet DEF Awaited
    <3>2. Token = KeyToken(v, l + 1)
      BY <1>5, <3>1, Zenon
    <3> QED BY <1>4, <3>2 DEF KeyToken
  <2>4. Len(Inner(v)) = 0 /\ At(Write(document), pos, Sign("end_object"))
    BY <2>2, <2>3
  <2>5. LastPlace(v) = 2
    BY <1>2, <2>4, EmptyMet
  <2> QED BY <1>3, <1>5, <2>1, <2>4, <2>5, Zenon
<1>8. CASE expects = "separator"
  <2>1. l > 0 /\ pos = b + Ahead(v, l + 1)
    BY <1>3, <1>8 DEF Inside
  <2>2. At(Write(document), pos, Sign(IF l < k THEN "comma" ELSE Shuts(v)))
    BY <1>2, <1>3, <2>1, SeparatorMet
  <2>3. Token = Sign(IF l < k THEN "comma" ELSE Shuts(v)) /\ pos <= n
    <3>1. PICK t : t = Sign(IF l < k THEN "comma" ELSE Shuts(v))
      OBVIOUS
    <3>2. At(Write(document), pos, t)
      BY <2>2, <3>1, Zenon
    <3>3. Token = t /\ pos <= n
      BY <1>5, <3>2
    <3> QED BY <3>1, <3>3, Zenon
  <2>4. ~(l < k)
    BY <1>4, <2>3 DEF Sign
  <2>5. l = k /\ k # 0
    BY <1>3, <2>1, <2>4
  <2>6. LastPlace(v) = Ahead(v, k + 1)
    BY <1>3, <2>5 DEF LastPlace
  <2> QED BY <1>3, <2>1, <2>3, <2>5, <2>6, Zenon
<1> QED BY <1>6, <1>7, <1>8

LEMMA CloseParsed ==
  ASSUME NEW n, NEW val, NEW base, ParsesAt(n, val, base), ParseClose
  PROVE  AfterStep(n)'
<1>1. /\ IsDocument(document) /\ KeptText(n, Write(document)) /\ pos <= n + 1
      /\ Chain(calls, val, base, document) /\ TextKept
  BY DEF ParsesAt, ParseClose, TextKept
<1>2. /\ expects \in {"first_item", "first_key", "separator"} /\ Closes
      /\ Return(Scalar(Innermost.type, Innermost.items), Front(calls)) /\ Advance
  BY DEF ParseClose
<1>3. PICK m, c, v, b : /\ Opened(calls, val, base, document, m, c, v, b)
                        /\ Inside(expects, c, v, b, pos)
  BY <1>2, PlaceInside
<1>4. /\ Level(c, v, b, Write(document)) /\ Shaped(v) /\ m = Len(calls) /\ m \in Nat /\ m > 0
      /\ c = calls[m] /\ v = val[m] /\ b = base[m]
  BY <1>3 DEF Opened
<1>5. Innermost = c
  BY <1>4 DEF Innermost
<1>6. Is(Shuts(v))
  <2>1. c.type = v.type
    BY <1>4 DEF Level
  <2> QED BY <1>2, <1>5, <2>1 DEF Closes, Shuts
<1>7. pos <= n /\ Len(c.items) = Len(Inner(v)) /\ pos = b + LastPlace(v)
  BY <1>2, <1>3, <1>6, EndReached
<1>8. Scalar(Innermost.type, Innermost.items) = v
  <2>1. c.type = v.type /\ c.items = SubSeq(v.value, 1, Len(Inner(v))) /\ IsComposite(v)
    BY <1>4, <1>7 DEF Level
  <2>2. Len(v.value) = Len(Inner(v)) /\ (v.value \in Seq(Nested) \/ v.value \in Seq(Keys \X Nested))
    <3>1. v.type = "array" => Inner(v) = v.value /\ v.value \in Seq(Nested)
      BY <2>1, InnerAre DEF IsComposite
    <3>2. v.type = "object" => v.value \in Seq(Keys \X Nested) /\ Len(Inner(v)) = Len(v.value)
      BY <2>1, InnerAre DEF IsComposite
    <3> QED BY <2>1, <3>1, <3>2, Zenon DEF IsComposite
  <2>3. SubSeq(v.value, 1, Len(v.value)) = v.value
    <3>1. ASSUME NEW S, NEW q \in Seq(S) PROVE SubSeq(q, 1, Len(q)) = q
      OBVIOUS
    <3> QED BY <2>2, <3>1
  <2>4. v = Scalar(v.type, v.value)
    BY <2>1, Zenon DEF IsComposite, IsValue
  <2> QED BY <1>5, <2>1, <2>2, <2>3, <2>4, Zenon
<1>9. /\ Chain(Front(calls), val, base, document)
      /\ IsNext(Front(calls), val, base, document, v, b)
  BY <1>1, <1>4, ChainFront
<1>10. pos' = b + Len(Write(v)) + 1 /\ pos' <= n + 1
  <2>1. pos' = pos + 1 /\ pos \in Int
    <3>1. b \in Int /\ LastPlace(v) \in Int
      BY <1>4 DEF Level, Shaped
    <3>2. b + LastPlace(v) \in Int
      BY <3>1
    <3> QED BY <1>2, <1>7, <3>2 DEF Advance
  <2>2. Len(Write(v)) = LastPlace(v)
    BY <1>4 DEF Shaped
  <2>3. n \in Int
    BY <1>1 DEF KeptText
  <2>4. pos' <= n + 1
    BY <1>7, <2>1, <2>3
  <2>5. pos' = (b + LastPlace(v)) + 1
    BY <1>7, <2>1, Zenon
  <2> QED BY <2>2, <2>4, <2>5, Zenon
<1>11. Return(v, Front(calls))
  BY <1>2, <1>8, Zenon
<1>12. /\ Chain(calls', val, base, document)
       /\ Place(calls', expects', pos', parsed', val, base, document)
  BY <1>1, <1>9, <1>10, <1>11, Returned
<1> QED BY <1>1, <1>10, <1>12, InStepAfter

LEMMA CommaParsed ==
  ASSUME NEW n, NEW val, NEW base, ParsesAt(n, val, base), ParseComma
  PROVE  AfterStep(n)'
<1>1. /\ IsDocument(document) /\ KeptText(n, Write(document)) /\ pos <= n + 1
      /\ Chain(calls, val, base, document) /\ TextKept
  BY DEF ParsesAt, ParseComma, TextKept
<1>2. /\ expects = "separator" /\ ~Closes
      /\ IF Is("comma")
         THEN /\ expects' = IF Innermost.type = "array" THEN "value" ELSE "key"
              /\ Advance /\ UNCHANGED <<calls, parsed>>
         ELSE Fail
  BY Zenon DEF ParseComma
<1>3. PICK m, c, v, b : /\ Opened(calls, val, base, document, m, c, v, b)
                        /\ Inside(expects, c, v, b, pos)
  BY <1>2, PlaceInside
<1>4. /\ Level(c, v, b, Write(document)) /\ Shaped(v) /\ m = Len(calls) /\ c = calls[m]
      /\ v = val[m] /\ b = base[m] /\ calls # <<>>
  BY <1>3 DEF Opened
<1>5. PICK l \in Nat, k \in Nat : l = Len(c.items) /\ k = Len(Inner(v)) /\ l <= k /\ b \in Int
  BY <1>4, LengthsAre
<1>6. l > 0 /\ pos = b + Ahead(v, l + 1)
  BY <1>2, <1>3, <1>5 DEF Inside
<1>7. Innermost = c /\ c.type = v.type
  BY <1>4 DEF Innermost, Level
<1>8. PICK s : s = (IF l < k THEN "comma" ELSE Shuts(v))
  OBVIOUS
<1>9. At(Write(document), pos, Sign(s))
  BY <1>4, <1>5, <1>6, <1>8, SeparatorMet
<1>10. Sign(s).kind = "sign" /\ Sign(s).v = s
  BY DEF Sign
<1>11. CASE Token = Sign(s) /\ pos <= n /\ pos + 1 <= n + 1
  <2>1. Is(s)
    BY <1>10, <1>11 DEF Is
  <2>2. s # Shuts(v)
    BY <1>2, <1>7, <2>1 DEF Closes, Shuts
  <2>3. l < k /\ Is("comma")
    BY <1>8, <2>1, <2>2
  <2>4. /\ expects' = IF v.type = "array" THEN "value" ELSE "key"
        /\ Advance /\ UNCHANGED <<calls, parsed>>
    BY <1>2, <1>7, <2>3, Zenon
  <2>5. PICK q \in Int : q = Ahead(v, l + 1)
    <3>1. l \in 1 .. k
      BY <1>5, <1>6
    <3>2. PartStands(v, l)
      BY <1>4, <1>5, <3>1 DEF Shaped
    <3> QED BY <3>2 DEF PartStands
  <2>6. pos' = b + (q + 1) /\ pos' <= n + 1
    <3>1. pos = b + q
      BY <1>6, <2>5, Zenon
    <3> QED BY <1>5, <1>11, <2>4, <3>1 DEF Advance
  <2>7. Place(calls', expects', pos', parsed', val, base, document)
    <3>1. CASE v.type = "array"
      <4>1. PICK x, a : x = Inner(v)[l + 1] /\ a = b + (Ahead(v, l + 1) + Skip(v))
        OBVIOUS
      <4>2. Awaits(c, v, b, x, a)
        <5>1. v.type # "object"
          BY <3>1
        <5> QED BY <1>5, <2>3, <4>1, <5>1, Zenon DEF Awaits
      <4>3. IsNext(calls, val, base, document, x, a)
        BY <1>3, <4>2, Zenon DEF IsNext, Opened
      <4>4. a = b + (q + 0)
        BY <2>5, <3>1, <4>1, Zenon DEF Skip
      <4>5. pos' = a + 1
        BY <1>5, <2>6, <4>4
      <4> QED BY <2>4, <3>1, <4>3, <4>5 DEF Place
    <3>2. CASE v.type # "array"
      <4>1. v.type = "object" /\ expects' = "key"
        BY <1>4, <2>4, <3>2 DEF Level, IsComposite
      <4>2. pos' = b + (Ahead(v, l + 1) + 1)
        BY <2>5, <2>6, Zenon
      <4>3. Inside(expects', c, v, b, pos')
        BY <1>5, <2>3, <4>1, <4>2, Zenon DEF Inside
      <4>4. calls' = calls
        BY <2>4
      <4> QED BY <1>4, <4>3, <4>4, Zenon DEF Place
    <3> QED BY <3>1, <3>2
  <2>8. Chain(calls', val, base, document)
    BY <1>1, <2>4
  <2> QED BY <1>1, <2>6, <2>7, <2>8, InStepAfter
<1>12. CASE ~(Token = Sign(s) /\ pos <= n /\ pos + 1 <= n + 1)
  <2>1. ~intact /\ Token.kind = "eof"
    BY <1>1, <1>9, <1>10, <1>12, TokenMet
  <2>2. Fail
    BY <1>2, <2>1, Zenon DEF Is
  <2> QED BY <1>1, <2>1, <2>2, FailedAfter
<1> QED BY <1>11, <1>12

LEMMA EndParsed ==
  ASSUME NEW n, NEW val, NEW base, ParsesAt(n, val, base), EndParse
  PROVE  expects' = "done" /\ intact /\ parsed = document /\ parsed' = parsed
<1>1. /\ IsDocument(document) /\ KeptText(n, Write(document)) /\ pos <= n + 1
      /\ Chain(calls, val, base, document) /\ expects = "end"
      /\ Place(calls, expects, pos, parsed, val, base, document)
  BY DEF ParsesAt, EndParse
<1>2. parsed = document /\ pos = Len(Write(document)) + 1
  <2>1. ~Inside(expects, calls[Len(calls)], val[Len(calls)], base[Len(calls)], pos)
    BY <1>1 DEF Inside
  <2> QED BY <1>1, <2>1 DEF Place
<1>3. PICK l \in Nat : l = Len(Write(document))
  <2>1. Write(document) \in Seq(Tok)
    BY <1>1, CompositesShaped DEF IsDocument, Shaped
  <2> QED BY <2>1, LenProperties
<1>4. intact /\ text = Write(document)
  BY <1>1, <1>2, <1>3 DEF KeptText
<1>5. Token.kind = "eof"
  <2>1. ~(pos <= Len(text))
    BY <1>2, <1>3, <1>4
  <2> QED BY <2>1 DEF Token
<1> QED BY <1>2, <1>4, <1>5 DEF EndParse

(* The invariant. *)

Parsing == {"value", "first_item", "first_key", "key", "colon", "separator", "end"}

\* What is in the file is what was written, or a first part of it, and the
\* parser is in step with it, or it has failed or is lost where it ends.
JsonInv ==
  /\ IsDocument(document)
  /\ text # <<>> \/ ~intact => \E n : KeptText(n, Write(document))
  /\ text = <<>> /\ intact => expects = "nothing"
  /\ expects = "nothing" => pos = 1 /\ calls = <<>>
  /\ expects \in Parsing => \E n : KeptText(n, Write(document)) /\ AfterStep(n)
  /\ expects = "done" => intact /\ parsed = document
  /\ expects = "failed" => ~intact

LEMMA JsonInitially == JsonInit => JsonInv
<1> SUFFICES ASSUME JsonInit PROVE JsonInv
  OBVIOUS
<1>1. IsDocument(Object(<<>>))
  <2>1. PICK d : d = Object(<<>>)
    OBVIOUS
  <2>2. d.type = "object" /\ d.value = <<>> /\ d = Scalar(d.type, d.value)
    BY <2>1 DEF Object, Scalar
  <2>3. <<>> \in Seq(Keys \X Nested) /\ KeysDiffer(<<>>)
    BY DEF KeysDiffer
  <2> QED BY <2>1, <2>2, <2>3 DEF IsDocument, IsComposite, IsValue
<1>2. /\ document = Object(<<>>) /\ text = <<>> /\ intact /\ pos = 1 /\ calls = <<>>
      /\ expects = "nothing"
  BY DEF JsonInit
<1>3. "nothing" \notin Parsing
  BY DEF Parsing
<1> QED BY <1>1, <1>2, <1>3 DEF JsonInv

\* set() keeps the document one, its keys different.
LEMMA SetKeepsDocument ==
  ASSUME NEW d, IsDocument(d), NEW key \in Keys, NEW value \in Values
  PROVE  IsDocument(Object(SetItem(d.value, key, value)))
<1>1. d.value \in Seq(Keys \X Nested) /\ KeysDiffer(d.value) /\ value \in Nested
  BY InnerAre, JsonAssumption DEF IsDocument, IsComposite
<1>2. PICK n \in Nat : n = Len(d.value) /\ d.value \in [1 .. n -> Keys \X Nested]
  BY <1>1, LenProperties
<1>a. PICK items \in Seq(Keys \X Nested) : items = d.value
  BY <1>1
<1>b. n = Len(items) /\ items \in [1 .. n -> Keys \X Nested] /\ DOMAIN items = 1 .. n
  BY <1>2, <1>a, Zenon
<1>c. ASSUME NEW i \in 1 .. n, NEW j \in 1 .. n, items[i][1] = items[j][1] PROVE i = j
  BY <1>1, <1>a, <1>b, <1>c, Zenon DEF KeysDiffer
<1>3. PICK e \in Keys \X Nested : e = <<key, value>>
  BY <1>1
<1>4. PICK new : new = SetItem(items, key, value)
  OBVIOUS
<1>5. new \in Seq(Keys \X Nested) /\ KeysDiffer(new)
  <2>1. CASE \E i \in DOMAIN items : items[i][1] = key
    <3>1. new = [i \in 1 .. n |-> IF items[i][1] = key THEN e ELSE items[i]]
      BY <1>b, <1>3, <1>4, <2>1, Zenon DEF SetItem
    <3>2. new \in [1 .. n -> Keys \X Nested] /\ DOMAIN new = 1 .. n
      <4>1. ASSUME NEW i \in 1 .. n
            PROVE  (IF items[i][1] = key THEN e ELSE items[i]) \in Keys \X Nested
        <5>1. items[i] \in Keys \X Nested
          BY <1>b
        <5> QED BY <1>3, <5>1, Zenon
      <4> QED BY <3>1, <4>1
    <3>5. new \in Seq(Keys \X Nested)
      BY <3>2, SeqDef
    <3>3. \A i \in 1 .. n : new[i][1] = items[i][1]
      <4> TAKE i \in 1 .. n
      <4>1. new[i] = IF items[i][1] = key THEN e ELSE items[i]
        BY <3>1, Zenon
      <4>2. e[1] = key
        BY <1>3
      <4> QED BY <4>1, <4>2, Zenon
    <3>4. KeysDiffer(new)
      <4>1. ASSUME NEW i \in DOMAIN new, NEW j \in DOMAIN new, new[i][1] = new[j][1] PROVE i = j
        <5>1. i \in 1 .. n /\ j \in 1 .. n
          BY <3>2, <4>1
        <5>2. items[i][1] = items[j][1]
          BY <3>3, <4>1, <5>1, Zenon
        <5> QED BY <1>c, <5>1, <5>2, Zenon
      <4> QED BY <4>1 DEF KeysDiffer
    <3> QED BY <3>4, <3>5
  <2>2. CASE ~(\E i \in DOMAIN items : items[i][1] = key)
    <3>1. new = Append(items, e)
      BY <1>3, <1>4, <2>2 DEF SetItem
    <3>2. /\ new \in Seq(Keys \X Nested) /\ Len(new) = n + 1 /\ new[n + 1] = e
          /\ \A i \in 1 .. n : new[i] = items[i]
      <4>1. /\ Append(items, e) \in Seq(Keys \X Nested) /\ Len(Append(items, e)) = Len(items) + 1
            /\ \A k \in 1 .. Len(items) : Append(items, e)[k] = items[k]
            /\ Append(items, e)[Len(items) + 1] = e
        BY <1>a, <1>3, Added
      <4> QED BY <1>b, <3>1, <4>1, Zenon
    <3>3. DOMAIN new = 1 .. n + 1 /\ e[1] = key
      BY <1>3, <3>2
    <3>4. ASSUME NEW i \in 1 .. n + 1, NEW j \in 1 .. n + 1, new[i][1] = new[j][1] PROVE i = j
      <4>1. CASE i \in 1 .. n /\ j \in 1 .. n
        <5>1. items[i][1] = items[j][1]
          BY <3>2, <3>4, <4>1, Zenon
        <5> QED BY <1>c, <4>1, <5>1, Zenon
      <4>2. CASE i = n + 1 /\ j \in 1 .. n
        <5>1. items[j][1] = key
          BY <3>2, <3>3, <3>4, <4>2, Zenon
        <5> QED BY <1>b, <2>2, <4>2, <5>1, Zenon
      <4>3. CASE i \in 1 .. n /\ j = n + 1
        <5>1. items[i][1] = key
          BY <3>2, <3>3, <3>4, <4>3, Zenon
        <5> QED BY <1>b, <2>2, <4>3, <5>1, Zenon
      <4>4. CASE i = n + 1 /\ j = n + 1
        BY <4>4
      <4>5. (i \in 1 .. n \/ i = n + 1) /\ (j \in 1 .. n \/ j = n + 1)
        <5>1. n \in Nat
          BY <1>2
        <5>2. \A k \in 1 .. n + 1 : k \in 1 .. n \/ k = n + 1
          BY <5>1
        <5> QED BY <5>2, Zenon
      <4> QED BY <4>1, <4>2, <4>3, <4>4, <4>5, Zenon
    <3> QED BY <3>2, <3>3, <3>4 DEF KeysDiffer
  <2> QED BY <2>1, <2>2
<1>6. PICK o : o = Object(new)
  OBVIOUS
<1>7. o.type = "object" /\ o.value = new /\ o = Scalar(o.type, o.value)
  BY <1>6 DEF Object, Scalar
<1>8. IsDocument(o)
  BY <1>5, <1>7 DEF IsDocument, IsComposite, IsValue
<1> QED BY <1>a, <1>4, <1>6, <1>8, Zenon

\* What a crash leaves is a first part.
LEMMA CutKept ==
  ASSUME NEW w \in Seq(Tok), NEW n, KeptText(n, w), Cut PROVE \E m : KeptText(m, w)'
<1>1. intact /\ text = w /\ intact' = FALSE
  BY DEF Cut, KeptText
<1>2. PICK m \in 0 .. Len(text) - 1 :
        \/ text' = SubSeq(text, 1, m)
        \/ /\ text[m + 1].kind # "sign"
           /\ text' = Append(SubSeq(text, 1, m), [kind |-> "part", v |-> text[m + 1].kind])
  BY DEF Cut
<1>3. PICK l \in Nat : l = Len(w) /\ m \in 0 .. l /\ m < l
  BY <1>1, <1>2, LenProperties
<1>4. PICK s \in Seq(Tok) : s = SubSeq(w, 1, m) /\ Len(s) = m /\ \A k \in 1 .. m : s[k] = w[k]
  <2>1. PICK s : s = SubSeq(w, 1, m)
    OBVIOUS
  <2>2. s \in Seq(Tok) /\ Len(s) = m /\ \A k \in 1 .. m : s[k] = w[k]
    BY <1>3, <2>1
  <2> QED BY <2>1, <2>2
<1>5. CASE text' = SubSeq(text, 1, m)
  <2>1. text' = s
    BY <1>1, <1>4, <1>5, Zenon
  <2> QED BY <1>1, <1>3, <1>4, <2>1 DEF KeptText
<1>6. CASE /\ text[m + 1].kind # "sign"
           /\ text' = Append(SubSeq(text, 1, m), [kind |-> "part", v |-> text[m + 1].kind])
  <2>5. PICK e : e = [kind |-> "part", v |-> w[m + 1].kind]
    OBVIOUS
  <2>1. e = [kind |-> "part", v |-> w[m + 1].kind] /\ e.kind = "part"
    BY <2>5
  <2>2. text' = Append(s, e) /\ w[m + 1].kind # "sign"
    BY <1>1, <1>4, <1>6, <2>1, Zenon
  <2>3. PICK f : f = Append(s, e)
    OBVIOUS
  <2>4. Len(f) = m + 1 /\ f[m + 1] = e /\ \A k \in 1 .. m : f[k] = w[k]
    <3>1. s \in Seq(Tok \cup {e}) /\ e \in Tok \cup {e}
      BY <1>4
    <3> QED BY <1>4, <2>3, <3>1, Added
  <2> QED BY <1>1, <1>3, <2>1, <2>2, <2>3, <2>4 DEF KeptText
<1> QED BY <1>2, <1>5, <1>6

\* What is expected after a step of the parser, in step or not.
LEMMA ExpectedAfter ==
  ASSUME NEW n, AfterStep(n)
  PROVE  expects \in Parsing \/ (expects = "failed" /\ ~intact)
<1>1. CASE InStep
  <2>1. PICK val, base : Place(calls, expects, pos, parsed, val, base, document)
    BY <1>1 DEF InStep
  <2>2. CASE expects \in {"value", "end"}
    BY <2>2 DEF Parsing
  <2>3. CASE expects \notin {"value", "end"}
    <3>1. Inside(expects, calls[Len(calls)], val[Len(calls)], base[Len(calls)], pos)
      BY <2>1, <2>3 DEF Place
    <3> QED BY <3>1 DEF Inside, Parsing
  <2> QED BY <2>2, <2>3
<1>2. CASE ~InStep
  BY <1>2 DEF AfterStep, Lost, Parsing
<1> QED BY <1>1, <1>2

LEMMA ParserKeepsInv ==
  ASSUME JsonInv, TextKept, text # <<>> \/ ~intact,
         NEW n, KeptText(n, Write(document)), AfterStep(n)'
  PROVE  JsonInv'
<1>1. /\ document' = document /\ text' = text /\ intact' = intact
  BY DEF TextKept
<1>2. KeptText(n, Write(document))' /\ IsDocument(document)'
  BY <1>1 DEF JsonInv, KeptText
<1>3. (expects \in Parsing \/ (expects = "failed" /\ ~intact))'
  BY ExpectedAfter, PTL
<1>4. expects' # "nothing" /\ expects' # "done" /\ (expects' = "failed" => ~intact')
  BY <1>3 DEF Parsing
<1> QED BY <1>1, <1>2, <1>4 DEF JsonInv

LEMMA SetKeepsInv == ASSUME JsonInv, Set PROVE JsonInv'
<1>1. /\ text = <<>> /\ intact /\ text' = text /\ intact' = intact /\ pos' = pos
      /\ calls' = calls /\ expects' = expects
  BY DEF Set
<1>2. expects = "nothing" /\ pos = 1 /\ calls = <<>> /\ "nothing" \notin Parsing
  BY <1>1 DEF JsonInv, Parsing
<1>3. PICK key \in Keys, value \in Values : document' = Object(SetItem(document.value, key, value))
  BY DEF Set
<1>4. IsDocument(document')
  BY <1>3, SetKeepsDocument, Zenon DEF JsonInv
<1> QED BY <1>1, <1>2, <1>4 DEF JsonInv

LEMMA DocumentsWritten ==
  ASSUME NEW d, IsDocument(d) PROVE Write(d) \in Seq(Tok)
BY CompositesShaped DEF IsDocument, Shaped

LEMMA DumpKeepsInv == ASSUME JsonInv, Dump PROVE JsonInv'
<1>1. /\ text = <<>> /\ intact /\ text' = Write(document) /\ intact' = intact /\ pos' = pos
      /\ calls' = calls /\ expects' = expects /\ document' = document
  BY DEF Dump
<1>2. expects = "nothing" /\ pos = 1 /\ calls = <<>> /\ "nothing" \notin Parsing
  BY <1>1 DEF JsonInv, Parsing
<1>3. PICK w \in Seq(Tok) : w = Write(document)
  BY DocumentsWritten DEF JsonInv
<1>4. PICK n \in Nat : n = Len(w) /\ n \in 0 .. n
  BY <1>3, LenProperties
<1>5. text' = w /\ intact'
  BY <1>1, <1>3
<1>6. KeptText(n, w)'
  BY <1>4, <1>5 DEF KeptText
<1>7. KeptText(n, Write(document))'
  BY <1>1, <1>3, <1>6, Zenon
<1>8. IsDocument(document')
  BY <1>1 DEF JsonInv
<1> QED BY <1>1, <1>2, <1>7, <1>8 DEF JsonInv

LEMMA CutKeepsInv == ASSUME JsonInv, Cut PROVE JsonInv'
<1>1. /\ text # <<>> /\ intact /\ expects = "nothing" /\ intact' = FALSE /\ pos' = pos
      /\ calls' = calls /\ expects' = expects /\ document' = document
  BY DEF Cut
<1>2. pos = 1 /\ calls = <<>> /\ "nothing" \notin Parsing /\ IsDocument(document')
  BY <1>1 DEF JsonInv, Parsing
<1>3. PICK n : KeptText(n, Write(document))
  BY <1>1 DEF JsonInv
<1>4. PICK w \in Seq(Tok) : w = Write(document)
  BY DocumentsWritten DEF JsonInv
<1>5. KeptText(n, w)
  BY <1>3, <1>4, Zenon
<1>6. PICK m : KeptText(m, w)'
  BY <1>5, CutKept
<1>7. KeptText(m, Write(document))'
  BY <1>1, <1>4, <1>6, Zenon
<1> QED BY <1>1, <1>2, <1>7 DEF JsonInv

\* The first call is in step: it waits for the document.
LEMMA StartKeepsInv == ASSUME JsonInv, StartParse PROVE JsonInv'
<1>2. pos = 1 /\ calls = <<>> /\ IsDocument(document) /\ (text # <<>> \/ ~intact)
  BY DEF JsonInv, StartParse
<1>3. PICK n : KeptText(n, Write(document))
  BY <1>2 DEF JsonInv
<1>4. PICK val, base : val = [i \in {1} |-> document] /\ base = [i \in {1} |-> 0]
  OBVIOUS
<1>5. val[1] = document /\ base[1] = 0
  BY <1>4
<1>6. Chain(<<>>, val, base, document)
  BY <1>5 DEF Chain
<1>7. IsNext(<<>>, val, base, document, document, 0)
  BY DEF IsNext
<1>8. /\ calls' = <<>> /\ expects' = "value" /\ pos' = 1
  BY <1>2 DEF StartParse
<1>9. Place(calls', expects', pos', parsed', val, base, document)
  <2>1. pos' = 0 + 1
    BY <1>8
  <2> QED BY <1>7, <1>8, <2>1, Zenon DEF Place
<1>10. pos' <= n + 1
  BY <1>3, <1>8 DEF KeptText
<1>11. Chain(calls', val, base, document)
  BY <1>6, <1>8
<1>12. TextKept
  BY DEF StartParse, TextKept
<1>13. AfterStep(n)'
  BY <1>9, <1>10, <1>11, <1>12, InStepAfter
<1> QED BY <1>2, <1>3, <1>12, <1>13, ParserKeepsInv

ParserStep == ParseValue \/ ParseKey \/ ParseColon \/ ParseClose \/ ParseComma

LEMMA StepKept ==
  ASSUME ParserStep, NEW n, IsDocument(document), KeptText(n, Write(document)), AfterStep(n)
  PROVE  TextKept /\ AfterStep(n)'
<1>1. TextKept
  BY DEF ParserStep, ParseValue, ParseKey, ParseColon, ParseClose, ParseComma, TextKept
<1>2. expects # "failed"
  BY DEF ParserStep, ParseValue, ParseKey, ParseColon, ParseClose, ParseComma
<1>3. CASE Lost
  <2>1. /\ expects = "separator" /\ ~intact /\ Token.kind = "eof"
    BY <1>3 DEF Lost, Token
  <2>2. ~Closes /\ ~Is("comma")
    BY <2>1 DEF Closes, Is
  <2>3. ParseComma
    BY <2>1, <2>2 DEF ParserStep, ParseValue, ParseKey, ParseColon, ParseClose
  <2>4. Fail
    BY <2>2, <2>3 DEF ParseComma
  <2> QED BY <1>1, <2>1, <2>4, FailedAfter
<1>4. CASE InStep /\ pos <= n + 1
  <2>1. PICK val, base : /\ Chain(calls, val, base, document)
                         /\ Place(calls, expects, pos, parsed, val, base, document)
    BY <1>4 DEF InStep
  <2>2. ParsesAt(n, val, base)
    BY <1>4, <2>1 DEF ParsesAt
  <2> QED BY <1>1, <2>2, ValueParsed, KeyParsed, ColonParsed, CloseParsed, CommaParsed
          DEF ParserStep
<1> QED BY <1>2, <1>3, <1>4 DEF AfterStep

LEMMA ParserStepKeepsInv == ASSUME JsonInv, ParserStep PROVE JsonInv'
<1>1. expects \in Parsing
  BY DEF ParserStep, ParseValue, ParseKey, ParseColon, ParseClose, ParseComma, Parsing
<1>2. PICK n : KeptText(n, Write(document)) /\ AfterStep(n)
  BY <1>1 DEF JsonInv
<1>3. text # <<>> \/ ~intact
  BY <1>1 DEF JsonInv, Parsing
<1>4. TextKept /\ AfterStep(n)'
  BY <1>2, StepKept DEF JsonInv
<1> QED BY <1>2, <1>3, <1>4, ParserKeepsInv

LEMMA EndKeepsInv == ASSUME JsonInv, EndParse PROVE JsonInv'
<1>1. expects = "end" /\ TextKept
  BY DEF EndParse, TextKept
<1>2. PICK n : KeptText(n, Write(document)) /\ AfterStep(n)
  BY <1>1 DEF JsonInv, Parsing
<1>3. InStep /\ pos <= n + 1
  BY <1>1, <1>2 DEF AfterStep, Lost
<1>4. PICK val, base : /\ Chain(calls, val, base, document)
                       /\ Place(calls, expects, pos, parsed, val, base, document)
  BY <1>3 DEF InStep
<1>5. ParsesAt(n, val, base)
  BY <1>2, <1>3, <1>4 DEF ParsesAt, JsonInv
<1>6. expects' = "done" /\ intact /\ parsed = document /\ parsed' = parsed
  BY <1>5, EndParsed
<1>7. /\ document' = document /\ text' = text /\ intact' = intact
  BY <1>1 DEF TextKept
<1>8. KeptText(n, Write(document))' /\ IsDocument(document)'
  BY <1>2, <1>7 DEF KeptText, JsonInv
<1>9. "done" \notin Parsing
  BY DEF Parsing
<1>10. /\ expects' = "done" /\ expects' # "nothing" /\ expects' # "failed"
       /\ ~(expects' \in Parsing) /\ intact' /\ parsed' = document'
  BY <1>6, <1>7, <1>9
<1>11. (\E m : KeptText(m, Write(document)))'
  BY <1>8
<1>12. ~(text' = <<>> /\ intact')
  BY <1>1, <1>7 DEF JsonInv
<1> QED BY <1>8, <1>10, <1>11, <1>12, Zenon DEF JsonInv

LEMMA JsonInductive == JsonInv /\ [JsonNext]_jsonVars => JsonInv'
<1> SUFFICES ASSUME JsonInv, [JsonNext]_jsonVars PROVE JsonInv'
  OBVIOUS
<1>1. CASE Set
  BY <1>1, SetKeepsInv
<1>2. CASE Dump
  BY <1>2, DumpKeepsInv
<1>3. CASE Cut
  BY <1>3, CutKeepsInv
<1>4. CASE StartParse
  BY <1>4, StartKeepsInv
<1>5. CASE EndParse
  BY <1>5, EndKeepsInv
<1>6. CASE ParserStep
  BY <1>6, ParserStepKeepsInv
<1>7. CASE UNCHANGED jsonVars
  BY <1>7 DEF jsonVars, JsonInv, KeptText, AfterStep, InStep, Lost
<1> QED BY <1>1, <1>2, <1>3, <1>4, <1>5, <1>6, <1>7, Zenon DEF JsonNext, ParserStep

\* A line is read back as the value that was written, types, order and last
\* values of its keys included, no key in it twice, or is refused, which is
\* when some of it is missing (json.hpp:139-177, 199-542).
THEOREM LinesAreWholeOrRefused == JsonSpec => []LineIsWholeOrRefused
<1>1. ASSUME JsonInv PROVE LineIsWholeOrRefused
  <2>1. KeysDiffer(document.value)
    BY <1>1, InnerAre DEF JsonInv, IsDocument, IsComposite
  <2> QED BY <1>1, <2>1 DEF JsonInv, LineIsWholeOrRefused
<1> QED BY <1>1, JsonInitially, JsonInductive, PTL DEF JsonSpec
=============================================================================
