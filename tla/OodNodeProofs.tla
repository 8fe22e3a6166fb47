---------------------------- MODULE OodNodeProofs ----------------------------
(***************************************************************************)
(* Proofs about the OOD lifecycle node, for every window, gate, hysteresis *)
(* run and buffer, in both profiles: its parts agree with its state, it    *)
(* scores nothing off duty, and in the profile that drops bad frames and   *)
(* resets, an alarm rests on the frames of one duty.                       *)
(***************************************************************************)
EXTENDS OodNode, OodProofs

\* phm_ood_cpp has no embed_dim: it was launched with 0.
Launched == profile = phm_ood_cpp => 0 \in EmbedDims

\* Endpoints by profile while inactive, and no publisher left activated.
Ready ==
  /\ activated => lifecycle = "active"
  /\ lifecycle = "inactive" => endpoints = ~profile.endpoints_on_activate

\* The core's invariant, the node's own types, and the parts of its state.
NodeInv ==
  RingInv /\ TypeOKNode /\ Launched /\ Ready /\ PartsMatchState /\ BadFramesUnheard

LEMMA LongDutyType == LongDuty \in Nat
<1>1. MinConsecutive * ComputeEvery \in Nat
  BY OodAssumption
<1> QED BY <1>1, OodAssumption DEF LongDuty

\* A frame taken by the core is a step of the core's own specification.
LEMMA UpdateKeepsRing ==
  ASSUME RingInv, NEW f \in Frame, Update(f)
  PROVE  RingInv'
BY StepRing DEF Next

LEMMA NewCoreRing ==
  ASSUME RingInv, TypeOKNode, Launched, NewCore
  PROVE  RingInv'
<1> USE OodAssumption DEF NewCore
<1>1. expected' \in EmbedDims /\ expected' \in 0 .. Room
  BY RoomType DEF RingInv, TypeOK, TypeOKNode, Launched
<1>2. TypeOK'
  BY <1>1 DEF TypeOK, Slots
<1>3. Fits' /\ InOrder'
  BY <1>1, RoomType DEF Fits, InOrder
<1> QED BY <1>2, <1>3 DEF RingInv

\* The profile that drops frames sees none without content.
LEMMA FramesHaveContent ==
  ASSUME NodeInv, NEW f \in Frame, NEW declared \in Sizes, ScoreFrame(f, declared),
         profile.drop_malformed
  PROVE  f.size \in Nat /\ f.size > 0
<1>1. f.size \in Nat
  BY OodAssumption DEF Frame
<1>2. f.size # 0
  BY DEF ScoreFrame, Malformed
<1> QED BY <1>1, <1>2

LEMMA ScoringKeeps ==
  ASSUME NodeInv, NEW f \in Frame, NEW declared \in Sizes, ScoreFrame(f, declared),
         UNCHANGED <<profile, lifecycle, core, endpoints, activated>>
  PROVE  NodeInv'
<1>1. RingInv'
  BY UpdateKeepsRing DEF NodeInv, ScoreFrame
<1>2. sent' \in OodVerdict \cup {NoVerdict}
  BY <1>1 DEF ScoreFrame, Published, RingInv, TypeOK
<1>3. dutyFrames' \in 0 .. LongDuty
  BY LongDutyType DEF NodeInv, TypeOKNode, ScoreFrame
<1>4. TypeOKNode'
  <2>1. TypeOK'
    BY <1>1 DEF RingInv
  <2> QED BY <2>1, <1>2, <1>3 DEF NodeInv, TypeOKNode, LongDuty
<1>5. PartsMatchState' /\ Ready' /\ Launched'
  BY DEF NodeInv, PartsMatchState, Ready, Launched, phm_ood_cpp
<1>6. ASSUME profile.drop_malformed, sent' # NoVerdict
      PROVE  accepted'
  BY <1>6 DEF ScoreFrame, Published
<1>7. ASSUME profile.drop_malformed, filled' > 0
      PROVE  dim' > 0
  <2>1. CASE Appended(f)
    BY <2>1, <1>7, FramesHaveContent DEF Appended
  <2>2. CASE Reject(f)
    BY <2>2, <1>7 DEF Reject, bufferVars, NodeInv, BadFramesUnheard
  <2> QED BY <2>1, <2>2
          DEF ScoreFrame, Update, WarmUp, Replay, JudgePoison, JudgeSpread, Computes
<1>8. BadFramesUnheard'
  BY <1>6, <1>7 DEF BadFramesUnheard
<1> QED BY <1>1, <1>4, <1>5, <1>8 DEF NodeInv

LEMMA ArrivalKeeps ==
  ASSUME NodeInv, NEW f \in Frame, NEW declared \in Sizes, OnEmbedding(f, declared)
  PROVE  NodeInv'
<1>1. UNCHANGED <<profile, lifecycle, core, endpoints, activated>>
  BY DEF OnEmbedding
<1>2. CASE ScoreFrame(f, declared)
  BY <1>1, <1>2, ScoringKeeps
<1>3. CASE UNCHANGED <<oodVars, dutyFrames>> /\ sent' = NoVerdict
  BY <1>1, <1>3
     DEF NodeInv, RingInv, TypeOK, Fits, InOrder, TypeOKNode, Launched, Ready, PartsMatchState,
         BadFramesUnheard, oodVars, config, bufferVars, phm_ood_cpp, LongDuty
<1> QED BY <1>2, <1>3 DEF OnEmbedding, Ignore, Drop

LEMMA InitKeeps == InitNode => NodeInv
<1> SUFFICES ASSUME InitNode PROVE NodeInv
  OBVIOUS
<1>1. RingInv
  BY InitRing DEF InitNode
<1>2. TypeOKNode
  <2>1. profile \in {phm_ood_cpp, phm_ood} /\ TypeOK
    BY <1>1 DEF InitNode, RingInv
  <2>2. dutyFrames \in 0 .. LongDuty
    BY LongDutyType DEF InitNode
  <2> QED BY <2>1, <2>2 DEF InitNode, TypeOKNode
<1>3. Launched
  BY <1>1 DEF InitNode, Launched, RingInv, TypeOK
<1>4. PartsMatchState /\ Ready
  BY DEF InitNode, PartsMatchState, Ready
<1>5. BadFramesUnheard
  BY <1>1 DEF InitNode, Init, InitCore, BadFramesUnheard
<1> QED BY <1>1, <1>2, <1>3, <1>4, <1>5 DEF NodeInv

LEMMA LifecycleKeeps ==
  ASSUME NodeInv, Configure \/ Activate \/ Deactivate \/ Cleanup \/ Shutdown
  PROVE  NodeInv'
<1> USE DEF NodeInv
<1>1. CASE Configure
  <2>1. RingInv'
    BY <1>1, NewCoreRing DEF Configure
  <2>2. TypeOKNode'
    BY <1>1, <2>1 DEF Configure, TypeOKNode, RingInv, LongDuty
  <2>3. PartsMatchState' /\ Ready'
    BY <1>1 DEF Configure, PartsMatchState, Ready, TypeOKNode, phm_ood, phm_ood_cpp
  <2>4. BadFramesUnheard' /\ Launched'
    BY <1>1 DEF Configure, NewCore, BadFramesUnheard, Launched, phm_ood_cpp
  <2> QED BY <2>1, <2>2, <2>3, <2>4
<1>2. CASE Activate
  <2>1. RingInv' /\ Launched' /\ BadFramesUnheard'
    BY <1>2 DEF Activate, RingInv, TypeOK, Fits, InOrder, Launched, BadFramesUnheard,
                oodVars, config, bufferVars, phm_ood_cpp
  <2>2. TypeOKNode'
    BY <1>2, <2>1, LongDutyType
       DEF Activate, TypeOKNode, RingInv, LongDuty, phm_ood, phm_ood_cpp
  <2>3. PartsMatchState' /\ Ready'
    BY <1>2 DEF Activate, PartsMatchState, Ready, TypeOKNode, phm_ood, phm_ood_cpp
  <2> QED BY <2>1, <2>2, <2>3
<1>3. CASE Deactivate
  <2>1. RingInv'
    <3>1. CASE Reset
      BY <3>1, StepRing DEF Next
    <3>2. CASE UNCHANGED oodVars
      BY <3>2, StepRing
    <3> QED BY <1>3, <3>1, <3>2 DEF Deactivate
  <2>2. TypeOKNode' /\ Launched'
    BY <1>3, <2>1 DEF Deactivate, TypeOKNode, RingInv, Launched, LongDuty, phm_ood, phm_ood_cpp
  <2>3. PartsMatchState' /\ Ready'
    BY <1>3 DEF Deactivate, PartsMatchState, Ready, TypeOKNode, phm_ood, phm_ood_cpp
  <2>4. BadFramesUnheard'
    BY <1>3 DEF Deactivate, Reset, BadFramesUnheard, oodVars, bufferVars
  <2> QED BY <2>1, <2>2, <2>3, <2>4
<1>4. CASE Dismantle /\ (Cleanup \/ Shutdown)
  <2>1. RingInv'
    BY <1>4, StepRing DEF Dismantle
  <2>2. TypeOKNode' /\ Launched'
    BY <1>4, <2>1 DEF Dismantle, Cleanup, Shutdown, TypeOKNode, RingInv, Launched, LongDuty,
                      phm_ood, phm_ood_cpp
  <2>3. PartsMatchState' /\ Ready' /\ BadFramesUnheard'
    BY <1>4 DEF Dismantle, Cleanup, Shutdown, PartsMatchState, Ready, BadFramesUnheard,
                oodVars, bufferVars
  <2> QED BY <2>1, <2>2, <2>3
<1> QED BY <1>1, <1>2, <1>3, <1>4 DEF Cleanup, Shutdown

LEMMA StutterKeeps == NodeInv /\ UNCHANGED allVars => NodeInv'
BY DEF NodeInv, RingInv, TypeOK, Fits, InOrder, TypeOKNode, Launched, Ready, PartsMatchState,
       BadFramesUnheard, allVars, nodeVars, oodVars, config, bufferVars, phm_ood, phm_ood_cpp,
       LongDuty

LEMMA StepKeeps == NodeInv /\ [NextNode]_allVars => NodeInv'
BY ArrivalKeeps, LifecycleKeeps, StutterKeeps DEF NextNode, Arrive

LEMMA AlwaysNode == SpecNode => []NodeInv
BY InitKeeps, StepKeeps, PTL DEF SpecNode

(***************************************************************************)
(* In phm_ood_cpp a bad frame never enters the window and the verdict on a *)
(* refused one is never published (ood_lifecycle_node.cpp:199-263).        *)
(***************************************************************************)
THEOREM BadFramesNeverHeard == SpecNode => []BadFramesUnheard
BY AlwaysNode, PTL DEF NodeInv

(***************************************************************************)
(* A core exactly while configured, a live publisher exactly while active, *)
(* and no subscription without a core, on every path through the           *)
(* lifecycle, shutdown while active included.                              *)
(***************************************************************************)
THEOREM PartsAlwaysMatch == SpecNode => []PartsMatchState
BY AlwaysNode, PTL DEF NodeInv

(***************************************************************************)
(* While the node stays out of its active state no frame changes the core. *)
(***************************************************************************)
THEOREM NothingIsScoredOffDuty == SpecNode => NothingScoredOffDuty
<1>1. NodeInv /\ [NextNode]_allVars
        => [lifecycle' = lifecycle /\ lifecycle # "active" => UNCHANGED oodVars]_allVars
  <2> SUFFICES ASSUME NodeInv, NextNode, lifecycle' = lifecycle, lifecycle # "active"
               PROVE  UNCHANGED oodVars
    BY DEF allVars
  <2>1. CASE Arrive
    BY <2>1 DEF Arrive, OnEmbedding, Ignore, Drop, ScoreFrame, OnDuty, NodeInv, PartsMatchState
  <2>2. ~(Configure \/ Activate \/ Deactivate \/ Cleanup \/ Shutdown)
    BY DEF Configure, Activate, Deactivate, Cleanup, Shutdown
  <2> QED BY <2>1, <2>2 DEF NextNode
<1> QED BY AlwaysNode, <1>1, PTL DEF SpecNode, NothingScoredOffDuty
-----------------------------------------------------------------------------
LEMMA DutyIsLongEnough ==
  /\ LongDuty \in Nat /\ LongDuty >= Window
  /\ \A r \in 0 .. MinConsecutive :
       Spacing(r) \in Nat /\ Window + Spacing(r) + (ComputeEvery - 1) <= LongDuty
<1>1. MinConsecutive * ComputeEvery \in Nat /\ Window \in Nat /\ ComputeEvery \in Nat
  BY OodAssumption
<1> QED BY <1>1, SpacingGrows DEF LongDuty

(***************************************************************************)
(* What a duty has lasted, in the profile that resets: a frame for every   *)
(* filled slot, and for a run of low spreads the frames the gate lets      *)
(* them be apart, plus those skipped since the last one.                   *)
(***************************************************************************)
DutyInv ==
  /\ lifecycle \in {"unconfigured", "inactive"} => filled = 0
  /\ filled < Window => last = NoVerdict
  /\ last = NoVerdict => run = 0
  /\ last # NoVerdict /\ last.violating => run = MinConsecutive
  /\ Alarming => run = MinConsecutive
  /\ dutyFrames >= filled
  /\ run >= 2 => dutyFrames >= Window + Spacing(run) + phase

DutyNode == NodeInv /\ (profile.reset_on_deactivate => DutyInv)

\* An accepted frame: the ring and the gate advance by one, the duty too.
LEMMA Advances ==
  ASSUME NodeInv, DutyInv, NEW f \in Frame, NEW declared \in Sizes, ScoreFrame(f, declared),
         profile = phm_ood_cpp, ~Refused(f), Appended(f), accepted'
  PROVE  /\ ~StartsOver(f)
         /\ filled \in 0 .. Window /\ filled' = (IF filled < Window THEN filled + 1 ELSE filled)
         /\ phase \in 0 .. ComputeEvery - 1 /\ phase' \in 0 .. ComputeEvery - 1
         /\ phase' <= phase + 1 /\ (phase' = 0 => phase = ComputeEvery - 1)
         /\ dutyFrames \in Nat /\ dutyFrames <= LongDuty
         /\ dutyFrames' = (IF dutyFrames < LongDuty THEN dutyFrames + 1 ELSE dutyFrames)
<1>1. ~StartsOver(f)
  BY RoomType DEF NodeInv, BadFramesUnheard, phm_ood_cpp, StartsOver, Pinned, RingInv, TypeOK
<1>2. RingInv
  BY DEF NodeInv
<1>3. /\ filled \in 0 .. Window /\ filled' = (IF filled < Window THEN filled + 1 ELSE filled)
      /\ phase \in 0 .. ComputeEvery - 1
      /\ phase' = IF phase = ComputeEvery - 1 THEN 0 ELSE phase + 1
  BY <1>1, <1>2, GateTurns
<1>4. phase' \in 0 .. ComputeEvery - 1 /\ phase' <= phase + 1
      /\ (phase' = 0 => phase = ComputeEvery - 1)
  BY <1>3, OodAssumption
<1>5. dutyFrames \in Nat /\ dutyFrames <= LongDuty
  BY LongDutyType DEF NodeInv, TypeOKNode
<1>6. dutyFrames' = (IF dutyFrames < LongDuty THEN dutyFrames + 1 ELSE dutyFrames)
  BY DEF ScoreFrame
<1> QED BY <1>1, <1>3, <1>4, <1>5, <1>6

LEMMA ArrivalKeepsDuty ==
  ASSUME NodeInv, DutyInv, NEW f \in Frame, NEW declared \in Sizes, ScoreFrame(f, declared),
         UNCHANGED lifecycle, profile = phm_ood_cpp
  PROVE  DutyInv'
<1>1. /\ run \in 0 .. MinConsecutive /\ filled \in 0 .. Window /\ phase \in 0 .. ComputeEvery - 1
      /\ Window \in Nat /\ Window >= 2 /\ ComputeEvery \in Nat /\ ComputeEvery >= 1
      /\ MinConsecutive \in Nat /\ MinConsecutive >= 1
  BY OodAssumption DEF NodeInv, RingInv, TypeOK
<1>2. /\ Update(f) /\ lifecycle = "active"
      /\ dutyFrames' = IF accepted' /\ dutyFrames < LongDuty THEN dutyFrames + 1 ELSE dutyFrames
  BY DEF ScoreFrame, OnDuty, NodeInv, PartsMatchState
<1>3. LongDuty \in Nat /\ LongDuty >= Window
  BY DutyIsLongEnough
<1>4. ASSUME ~Refused(f), Appended(f), accepted'
      PROVE  dutyFrames' >= filled'
  <2>1. /\ filled' = IF filled < Window THEN filled + 1 ELSE filled
        /\ dutyFrames \in Nat /\ dutyFrames <= LongDuty
        /\ dutyFrames' = IF dutyFrames < LongDuty THEN dutyFrames + 1 ELSE dutyFrames
    BY <1>4, Advances
  <2>2. dutyFrames >= filled
    BY DEF DutyInv
  <2> QED BY <1>1, <1>3, <2>1, <2>2
<1>5. ASSUME ~Refused(f), Appended(f), accepted', run >= 2, run' = run
      PROVE  dutyFrames' >= Window + Spacing(run') + phase'
  <2>1. Spacing(run) \in Nat /\ Window + Spacing(run) + (ComputeEvery - 1) <= LongDuty
    BY <1>1, DutyIsLongEnough
  <2>2. dutyFrames >= Window + Spacing(run) + phase
    BY <1>5 DEF DutyInv
  <2>3. /\ phase' \in 0 .. ComputeEvery - 1 /\ phase' <= phase + 1
        /\ dutyFrames \in Nat /\ dutyFrames <= LongDuty
        /\ dutyFrames' = IF dutyFrames < LongDuty THEN dutyFrames + 1 ELSE dutyFrames
    BY <1>5, Advances
  <2>4. Spacing(run') = Spacing(run)
    BY <1>5
  <2> QED BY <1>1, <1>3, <2>1, <2>2, <2>3, <2>4
<1>6. CASE Reject(f)
  <2>1. UNCHANGED <<filled, phase, run, last, dutyFrames>> /\ ~verdict'.violating
    BY <1>2, <1>6, NotViolating DEF Reject, bufferVars
  <2> QED BY <1>2, <2>1 DEF DutyInv, Alarming
<1>7. CASE WarmUp(f)
  <2>1. ~Refused(f) /\ Appended(f) /\ filled' < Window /\ accepted'
    BY <1>7 DEF WarmUp
  <2>2. ~StartsOver(f) /\ filled < Window
    BY <1>1, <2>1, Advances
  <2>3. last = NoVerdict /\ run = 0
    BY <2>2 DEF DutyInv
  <2>4. last' = NoVerdict /\ run' = 0 /\ ~verdict'.violating
    BY <1>7, <2>2, <2>3, NotViolating DEF WarmUp
  <2>5. dutyFrames' >= filled'
    BY <1>4, <2>1
  <2> QED BY <1>1, <1>2, <2>4, <2>5 DEF DutyInv, Alarming
<1>8. CASE Replay(f)
  <2>1. /\ ~Refused(f) /\ Appended(f) /\ accepted' /\ filled' = Window
        /\ verdict' = last /\ last' = last /\ run' = run
    BY <1>8 DEF Replay
  <2>2. dutyFrames' >= filled'
    BY <1>4, <2>1
  <2>3. run' >= 2 => dutyFrames' >= Window + Spacing(run') + phase'
    BY <1>5, <2>1
  <2> QED BY <1>1, <1>2, <2>1, <2>2, <2>3 DEF DutyInv, Alarming
<1>9. CASE JudgePoison(f)
  <2>1. /\ ~Refused(f) /\ Appended(f) /\ accepted' /\ filled' = Window
        /\ verdict' = BadInput /\ last' = BadInput /\ run' = run
    BY <1>9 DEF JudgePoison, Computes
  <2>2. dutyFrames' >= filled'
    BY <1>4, <2>1
  <2>3. run' >= 2 => dutyFrames' >= Window + Spacing(run') + phase'
    BY <1>5, <2>1
  <2> QED BY <1>1, <1>2, <2>1, <2>2, <2>3, NotViolating, FixedAreVerdicts DEF DutyInv, Alarming
<1>10. ASSUME NEW spread \in Spreads \cup {0}, JudgeSpread(f, spread)
       PROVE  DutyInv'
  <2>1. ~Refused(f) /\ Appended(f) /\ accepted' /\ filled' = Window /\ ~Skipped
    BY <1>10 DEF JudgeSpread, Computes
  <2>2. RingInv
    BY DEF NodeInv
  <2>3. /\ run' \in 0 .. MinConsecutive
        /\ ~Below(spread) => run' = 0
        /\ Below(spread) => run' = IF run < MinConsecutive THEN run + 1 ELSE run
        /\ verdict' = last' /\ last' # NoVerdict
        /\ last'.violating => run' = MinConsecutive
    BY <1>10, <2>2, JudgedSpread
  <2>4. run' = 0 \/ run' = run + 1 \/ (run' = run /\ run = MinConsecutive)
    BY <1>1, <2>3
  <2>5. dutyFrames' >= filled'
    BY <1>4, <2>1
  <2>6. ASSUME run' = run + 1, run' >= 2
        PROVE  dutyFrames' >= Window + Spacing(run') + phase'
    <3>1. run >= 1 /\ last # NoVerdict /\ ~(filled < Window)
      BY <1>1, <2>3, <2>6 DEF DutyInv
    <3>2. phase' = 0
      BY <2>1, <3>1 DEF Skipped
    <3>3. /\ phase = ComputeEvery - 1 /\ dutyFrames \in Nat /\ dutyFrames <= LongDuty
          /\ dutyFrames' = IF dutyFrames < LongDuty THEN dutyFrames + 1 ELSE dutyFrames
      BY <2>1, <3>2, Advances
    <3>4. Spacing(run') \in Nat /\ Window + Spacing(run') + (ComputeEvery - 1) <= LongDuty
      BY <2>3, DutyIsLongEnough
    <3>5. CASE run = 1
      <4>1. Spacing(run') = 1
        BY <2>6, <3>5, SpacingGrows
      <4>2. dutyFrames >= Window
        BY <1>1, <3>1 DEF DutyInv
      <4> QED BY <1>1, <1>3, <3>2, <3>3, <3>4, <4>1, <4>2
    <3>6. CASE run >= 2
      <4>1. Spacing(run') = Spacing(run) + ComputeEvery /\ Spacing(run) \in Nat
        BY <1>1, <2>6, <3>6, SpacingGrows
      <4>2. dutyFrames >= Window + Spacing(run) + phase
        BY <3>6 DEF DutyInv
      <4> QED BY <1>1, <1>3, <3>2, <3>3, <3>4, <4>1, <4>2
    <3> QED BY <1>1, <3>1, <3>5, <3>6
  <2>7. run' >= 2 => dutyFrames' >= Window + Spacing(run') + phase'
    BY <1>1, <1>5, <2>1, <2>3, <2>4, <2>6
  <2> QED BY <1>1, <1>2, <2>1, <2>3, <2>5, <2>7 DEF DutyInv, Alarming
<1> QED BY <1>2, <1>6, <1>7, <1>8, <1>9, <1>10 DEF Update

\* A core that has just been built or reset has no run, in any state.
LEMMA FreshDuty ==
  ASSUME NodeInv', filled' = 0, run' = 0, last' = NoVerdict, verdict' = NoVerdict
  PROVE  DutyInv'
<1>1. dutyFrames' \in 0 .. LongDuty /\ LongDuty \in Nat
  BY LongDutyType DEF NodeInv, TypeOKNode, LongDuty
<1>2. dutyFrames' >= 0
  BY <1>1
<1> QED BY <1>2, OodAssumption DEF DutyInv, Alarming

LEMMA LifecycleKeepsDuty ==
  ASSUME NodeInv, NodeInv', DutyInv, profile = phm_ood_cpp,
         Configure \/ Activate \/ Deactivate \/ Cleanup \/ Shutdown
  PROVE  DutyInv'
<1>1. CASE Configure
  BY <1>1, FreshDuty DEF Configure, NewCore
<1>2. CASE Activate
  <2>1. filled = 0 /\ last = NoVerdict /\ run = 0
    BY <1>2, OodAssumption DEF Activate, DutyInv
  <2>2. ~Alarming
    BY <2>1, OodAssumption DEF DutyInv
  <2>3. /\ filled' = 0 /\ last' = NoVerdict /\ run' = 0 /\ ~Alarming'
        /\ dutyFrames' = 0 /\ lifecycle' = "active"
    BY <1>2, <2>1, <2>2 DEF Activate, oodVars, bufferVars, Alarming
  <2> QED BY <2>3, OodAssumption DEF DutyInv
<1>3. CASE Deactivate
  <2>1. Reset
    BY <1>3 DEF Deactivate, NodeInv, PartsMatchState, phm_ood_cpp
  <2> QED BY <2>1, FreshDuty DEF Reset
<1>4. CASE Dismantle /\ (Cleanup \/ Shutdown)
  <2>1. UNCHANGED <<filled, phase, run, last, verdict, dutyFrames>>
    BY <1>4 DEF Dismantle, oodVars, bufferVars
  <2>2. lifecycle' \in {"unconfigured", "inactive"} => filled' = 0
    BY <1>4, <2>1 DEF Cleanup, Shutdown, DutyInv
  <2> QED BY <2>1, <2>2 DEF DutyInv, Alarming
<1> QED BY <1>1, <1>2, <1>3, <1>4 DEF Cleanup, Shutdown

LEMMA InitDuty == InitNode => DutyNode
<1> SUFFICES ASSUME InitNode PROVE NodeInv /\ DutyInv
  BY DEF DutyNode
<1>1. NodeInv
  BY InitKeeps
<1>2. filled = 0 /\ run = 0 /\ last = NoVerdict /\ verdict = NoVerdict /\ dutyFrames = 0
  BY DEF InitNode, Init, InitCore
<1> QED BY <1>1, <1>2, OodAssumption DEF DutyInv, Alarming

LEMMA StepDuty == DutyNode /\ [NextNode]_allVars => DutyNode'
<1> SUFFICES ASSUME DutyNode, [NextNode]_allVars, profile'.reset_on_deactivate
             PROVE  DutyInv'
  BY StepKeeps DEF DutyNode
<1>1. NodeInv /\ NodeInv' /\ profile' = profile
  BY StepKeeps DEF DutyNode, NextNode, Configure, Activate, Deactivate, Cleanup, Shutdown,
                   Dismantle, Arrive, OnEmbedding, allVars, nodeVars
<1>2. profile = phm_ood_cpp /\ DutyInv
  BY <1>1 DEF DutyNode, NodeInv, TypeOKNode, phm_ood, phm_ood_cpp
<1>3. ASSUME NEW f \in Frame, NEW declared \in Sizes, OnEmbedding(f, declared)
      PROVE  DutyInv'
  <2>1. CASE ScoreFrame(f, declared)
    BY <1>1, <1>2, <1>3, <2>1, ArrivalKeepsDuty DEF OnEmbedding
  <2>2. CASE UNCHANGED <<oodVars, dutyFrames>>
    BY <1>2, <1>3, <2>2 DEF OnEmbedding, oodVars, bufferVars, DutyInv, Alarming
  <2> QED BY <1>3, <2>1, <2>2 DEF OnEmbedding, Ignore, Drop
<1>4. CASE UNCHANGED allVars
  BY <1>2, <1>4 DEF allVars, nodeVars, oodVars, bufferVars, DutyInv, Alarming
<1>5. CASE Configure \/ Activate \/ Deactivate \/ Cleanup \/ Shutdown
  BY <1>1, <1>2, <1>5, LifecycleKeepsDuty
<1> QED BY <1>3, <1>4, <1>5 DEF NextNode, Arrive

LEMMA DutyImplies == DutyNode => AlarmOfThisDuty
<1> SUFFICES ASSUME DutyNode, profile.reset_on_deactivate, Alarming
             PROVE  dutyFrames >= Window + Earliest - 1
  BY DEF AlarmOfThisDuty
<1>1. /\ run = MinConsecutive /\ MinConsecutive \in Nat /\ MinConsecutive >= 1
      /\ Window \in Nat /\ filled \in 0 .. Window /\ phase \in Nat
  BY OodAssumption DEF DutyNode, DutyInv, NodeInv, RingInv, TypeOK
<1>2. dutyFrames >= Window
  BY <1>1 DEF DutyNode, DutyInv
<1>3. CASE MinConsecutive = 1
  BY <1>1, <1>2, <1>3 DEF Earliest
<1>4. CASE MinConsecutive >= 2
  <2>1. dutyFrames >= Window + Spacing(MinConsecutive) + phase
    BY <1>1, <1>4 DEF DutyNode, DutyInv
  <2>2. Spacing(MinConsecutive) = Earliest - 1 /\ Spacing(MinConsecutive) \in Nat
    BY <1>1, SpacingGrows
  <2>3. dutyFrames \in Nat /\ Earliest \in Int
    <3>1. dutyFrames \in Nat
      BY LongDutyType DEF DutyNode, NodeInv, TypeOKNode
    <3>2. Earliest \in Int
      BY <1>1, OodAssumption DEF Earliest
    <3> QED BY <3>1, <3>2
  <2> QED BY <1>1, <2>1, <2>2, <2>3
<1> QED BY <1>1, <1>3, <1>4

(***************************************************************************)
(* In phm_ood_cpp an alarm, published or repeated by the gate, rests on a  *)
(* full window and a full run of low spreads of the duty it is raised in,  *)
(* whatever transitions came before (ood_lifecycle_node.cpp:178-197).      *)
(***************************************************************************)
THEOREM AlarmsAreOfThisDuty == SpecNode => []AlarmOfThisDuty
BY InitDuty, StepDuty, DutyImplies, PTL DEF SpecNode
=============================================================================
