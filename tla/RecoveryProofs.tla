--------------------------- MODULE RecoveryProofs ---------------------------
(***************************************************************************)
(* Proofs about the recovery node, for every set of sources, every range   *)
(* of the wire fields and every cooldown.  One inductive invariant, the    *)
(* type invariant with HoldBacked and RewindUnderHold, carries the         *)
(* invariants and the refinement of HoldGate; the observer's spacing       *)
(* property needs the further fact that the observer's start times are     *)
(* never behind the envelope's stamps.                                     *)
(***************************************************************************)
EXTENDS RecoveryCooldown, TLAPS

Safe == TypeOK /\ HoldBacked /\ RewindUnderHold

(* The command and key of a message that asks for a rated hold are a key   *)
(* of the cooldown table: the table is never indexed outside its domain.   *)
LEMMA RatedKey ==
  ASSUME NEW m \in HealthMessage, HoldAction(m) \in HoldCommands
  PROVE  <<HoldAction(m), FaultKey(m.source)>> \in CooldownKeys
BY RecoveryAssumption DEF HealthMessage, CooldownKeys, FaultKeys, FaultKey

(* A table of cooled keys, and an aged table, have the table's type.       *)
LEMMA CooledType == [ak \in CooldownKeys |-> Cooldown] \in [CooldownKeys -> 0 .. Cooldown]
BY RecoveryAssumption

(* Whatever the envelope answers, its table keeps its type.                *)
LEMMA StampedType ==
  ASSUME TypeOK, NEW m \in HealthMessage, NEW c \in BOOLEAN
  PROVE  Stamped(HoldAction(m), FaultKey(m.source), c)
           \in [CooldownKeys -> 0 .. Cooldown]
<1> DEFINE a == HoldAction(m)
           k == FaultKey(m.source)
<1>1. 0 \in 0 .. Cooldown
  BY RecoveryAssumption
<1>2. CASE Accepted(a, k, c) /\ Rated(a, c)
  <2>1. <<a, k>> \in CooldownKeys
    BY <1>2, RatedKey DEF Rated
  <2> QED BY <1>1, <1>2, <2>1 DEF Stamped, TypeOK
<1>3. CASE ~(Accepted(a, k, c) /\ Rated(a, c))
  BY <1>3 DEF Stamped, TypeOK
<1> QED BY <1>2, <1>3

LEMMA InitSafe == Init => Safe
BY CooledType, Zenon DEF Init, Safe, TypeOK, HoldBacked, RewindUnderHold

LEMMA ResumeSafe == ASSUME Safe, NEW m \in HealthMessage, Resume(m) PROVE Safe'
BY DEF Resume, ResumeAccepted, Safe, TypeOK, HoldBacked, RewindUnderHold

LEMMA ActuateSafe == ASSUME Safe, NEW m \in HealthMessage, Actuate(m) PROVE Safe'
<1> DEFINE a == HoldAction(m)
           k == FaultKey(m.source)
           accept == Accepted(a, k, holdActuating)
<1>0. /\ holdActive' = TRUE
      /\ since' = Stamped(a, k, holdActuating)
      /\ holdActuating' = (holdActuating \/ accept)
      /\ rewound' = (accept /\ a = ACTION_REWIND)
      /\ enabled' = enabled /\ zeroVelocity' = zeroVelocity
  BY DEF Actuate
<1>1. accept => enabled
  BY DEF Accepted
<1>2. since' \in [CooldownKeys -> 0 .. Cooldown]
  BY <1>0, StampedType DEF Safe, TypeOK
<1>3. TypeOK'
  <2> HIDE DEF accept
  <2> QED BY <1>0, <1>2 DEF Safe, TypeOK
<1>4. HoldBacked' /\ RewindUnderHold'
  <2> HIDE DEF accept
  <2> QED BY <1>0, <1>1 DEF Safe, TypeOK, HoldBacked, RewindUnderHold
<1> QED BY <1>3, <1>4 DEF Safe

LEMMA ReceiveSafe == Safe /\ Receive => Safe'
BY ResumeSafe, ActuateSafe DEF Receive, OnHealth

LEMMA ClockTickSafe == Safe /\ ClockTick => Safe'
<1> SUFFICES ASSUME Safe, ClockTick PROVE Safe'
  OBVIOUS
<1>1. since' \in [CooldownKeys -> 0 .. Cooldown]
  BY RecoveryAssumption DEF ClockTick, Safe, TypeOK
<1> QED BY <1>1 DEF ClockTick, Safe, TypeOK, HoldBacked, RewindUnderHold

LEMMA StartSafe == Start => Safe'
BY CooledType, Zenon DEF Start, Safe, TypeOK, HoldBacked, RewindUnderHold

LEMMA StepSafe == Safe /\ [Next]_vars => Safe'
<1> SUFFICES ASSUME Safe, [Next]_vars PROVE Safe'
  OBVIOUS
<1>1. CASE Receive      BY <1>1, ReceiveSafe
<1>2. CASE PublishTick
  BY <1>2 DEF PublishTick, Safe, TypeOK, HoldBacked, RewindUnderHold
<1>3. CASE ClockTick    BY <1>3, ClockTickSafe
<1>4. CASE Restart      BY <1>4, StartSafe DEF Restart
<1>5. CASE UNCHANGED vars
  BY <1>5 DEF vars, Safe, TypeOK, HoldBacked, RewindUnderHold
<1> QED BY <1>1, <1>2, <1>3, <1>4, <1>5 DEF Next

(* The node never leaves its types: in particular every stamp stays        *)
(* between a fresh hold and a cooled one.                                  *)
THEOREM TypeCorrect == Spec => []TypeOK
<1>1. Safe => TypeOK  BY DEF Safe
<1> QED BY InitSafe, StepSafe, <1>1, PTL DEF Spec

(* The hold actuates only while armed and asked for.                       *)
THEOREM HoldIsBacked == Spec => []HoldBacked
<1>1. Safe => HoldBacked  BY DEF Safe
<1> QED BY InitSafe, StepSafe, <1>1, PTL DEF Spec

(* The rewind hook fires only under a hold.                                *)
THEOREM RewindIsHeld == Spec => []RewindUnderHold
<1>1. Safe => RewindUnderHold  BY DEF Safe
<1> QED BY InitSafe, StepSafe, <1>1, PTL DEF Spec

(* Every step of the node is a step of the abstract hold, or stutters it.  *)
LEMMA StepGated == Safe /\ [Next]_vars => [Gate!Next]_(Gate!gateVars)
<1> SUFFICES ASSUME Safe, [Next]_vars PROVE [Gate!Next]_(Gate!gateVars)
  OBVIOUS
<1> USE DEF Gate!Next, Gate!Demand, Gate!Release, Gate!gateVars
<1>1. CASE Receive
  <2>1. PICK m \in HealthMessage : OnHealth(m)
    BY <1>1 DEF Receive
  <2>2. CASE Resume(m)
    <3>1. holdActive' = FALSE /\ holdActuating' = FALSE
      BY <2>2 DEF Resume, ResumeAccepted, Safe, TypeOK, HoldBacked
    <3> QED BY <3>1
  <2>3. CASE Actuate(m)
    <3> DEFINE accept == Accepted(HoldAction(m), FaultKey(m.source), holdActuating)
    <3>1. holdActive' = TRUE /\ holdActuating' = (holdActuating \/ accept)
      BY <2>3 DEF Actuate
    <3>2. holdActuating' \in {holdActuating, TRUE}
      <4> HIDE DEF accept
      <4> QED BY <3>1 DEF Safe, TypeOK
    <3> QED BY <3>1, <3>2
  <2> QED BY <2>1, <2>2, <2>3 DEF OnHealth
<1>2. CASE PublishTick  BY <1>2 DEF PublishTick
<1>3. CASE ClockTick    BY <1>3 DEF ClockTick
<1>4. CASE Restart      BY <1>4 DEF Restart, Start
<1>5. CASE UNCHANGED vars  BY <1>5 DEF vars
<1> QED BY <1>1, <1>2, <1>3, <1>4, <1>5 DEF Next

(* The recovery node implements the abstract hold: see HoldGate.           *)
THEOREM ImplementsHoldGate == Spec => HoldIsGated
<1>1. Init => Gate!Init  BY DEF Init, Gate!Init
<1> QED BY InitSafe, StepSafe, StepGated, <1>1, PTL DEF Spec, HoldIsGated, Gate!Spec
-----------------------------------------------------------------------------
(***************************************************************************)
(* The observer's spacing property.  The observer's start times are        *)
(* history; the envelope's stamps are the code's own.  What ties them: a   *)
(* (command, key) is stamped only in a step that starts a hold under it,   *)
(* so the observer has seen nothing more recent than the stamp.            *)
(***************************************************************************)
Spaced ==
  /\ sinceStart \in [CooldownKeys -> 0 .. Cooldown]
  /\ \A ak \in CooldownKeys : since[ak] <= sinceStart[ak]
  /\ startGap = Cooldown

(* The shortest gap stays Cooldown when every started key had cooled down. *)
LEMMA LeastCooled ==
  ASSUME NEW history, NEW keys, \A ak \in keys : history[ak] = Cooldown
  PROVE  Least(Cooldown, history, keys) = Cooldown
<1> DEFINE Best(g) == /\ g <= Cooldown /\ \A ak \in keys : g <= history[ak]
                      /\ g = Cooldown \/ \E ak \in keys : g = history[ak]
<1>1. Cooldown \in 0 .. Cooldown /\ Best(Cooldown)
  BY RecoveryAssumption
<1>2. \A g \in 0 .. Cooldown : Best(g) => g = Cooldown
  OBVIOUS
<1> QED BY <1>1, <1>2 DEF Least

LEMMA ReceiveSpaced == Safe /\ Spaced /\ ObservedReceive => Spaced'
<1> SUFFICES ASSUME Safe, Spaced, NEW m \in HealthMessage, OnHealth(m), Observe(m)
             PROVE  Spaced'
  BY DEF ObservedReceive
<1> DEFINE started == IF ~holdActuating /\ holdActuating' THEN Asked(m) ELSE {}
           a == HoldAction(m)
           k == FaultKey(m.source)
<1>1. /\ sinceStart' = Reset(sinceStart, started)
      /\ startGap' = Least(startGap, sinceStart, started)
  BY DEF Observe
<1>2. sinceStart' \in [CooldownKeys -> 0 .. Cooldown]
  BY <1>1, RecoveryAssumption DEF Reset, Spaced
<1>3. CASE Resume(m)
  <2>1. since' = since /\ started = {}
    BY <1>3 DEF Resume, ResumeAccepted, Safe, TypeOK
  <2>2. sinceStart' = [ak \in CooldownKeys |-> sinceStart[ak]]
    BY <1>1, <2>1 DEF Reset
  <2>3. startGap' = Cooldown
    BY <1>1, <2>1, LeastCooled DEF Spaced
  <2> QED BY <1>2, <2>1, <2>2, <2>3 DEF Spaced
<1>4. CASE Actuate(m)
  <2> DEFINE accept == Accepted(a, k, holdActuating)
             rated  == Rated(a, holdActuating)
  <2>1. /\ WantsHold(m.state)
        /\ holdActuating' = (holdActuating \/ accept)
        /\ since' = IF accept /\ rated THEN [since EXCEPT ![<<a, k>>] = 0] ELSE since
    BY <1>4 DEF Actuate, Stamped
  <2>2. \A ak \in started : ak = <<a, k>> /\ accept /\ rated
    <3>1. \A ak \in started : ~holdActuating /\ holdActuating' /\ ak \in Asked(m)
      OBVIOUS
    <3> QED BY <2>1, <3>1 DEF Asked, Rated, Safe, TypeOK
  <2>3. accept /\ rated => <<a, k>> \in CooldownKeys /\ since[<<a, k>>] = Cooldown
    BY RatedKey, RecoveryAssumption DEF Accepted, Rated, Cooling, Safe, TypeOK
  <2>4. accept /\ rated => started = {<<a, k>>}
    BY <2>1 DEF Asked, Rated
  <2>5. \A ak \in started : sinceStart[ak] = Cooldown
    BY <2>2, <2>3, RecoveryAssumption DEF Spaced, Safe, TypeOK
  <2>6. startGap' = Cooldown
    BY <1>1, <2>5, LeastCooled DEF Spaced
  <2>7. ASSUME NEW ak \in CooldownKeys PROVE since'[ak] <= sinceStart'[ak]
    <3>1. sinceStart'[ak] = IF ak \in started THEN 0 ELSE sinceStart[ak]
      BY <1>1 DEF Reset
    <3>2. CASE accept /\ rated
      <4> HIDE DEF accept, rated, a, k
      <4>1. since'[ak] = IF ak = <<a, k>> THEN 0 ELSE since[ak]
        BY <2>1, <3>2 DEF Safe, TypeOK
      <4> QED BY <2>4, <3>1, <3>2, <4>1 DEF Spaced
    <3>3. CASE ~(accept /\ rated)
      <4>1. started = {}
        BY <2>2, <3>3
      <4>2. since' = since
        BY <2>1, <3>3
      <4> HIDE DEF started
      <4> QED BY <3>1, <4>1, <4>2 DEF Spaced
    <3> QED BY <3>2, <3>3
  <2> QED BY <1>2, <2>6, <2>7 DEF Spaced
<1> QED BY <1>3, <1>4 DEF OnHealth

LEMMA StepSpaced == Safe /\ Spaced /\ [ObservedNext]_observedVars => Spaced'
<1> SUFFICES ASSUME Safe, Spaced, [ObservedNext]_observedVars PROVE Spaced'
  OBVIOUS
<1>1. CASE ObservedReceive  BY <1>1, ReceiveSpaced
<1>2. CASE ObservedClockTick
  BY <1>2, RecoveryAssumption
  DEF ObservedClockTick, ClockTick, Aged, Spaced, Safe, TypeOK
<1>3. CASE ObservedPublishTick
  BY <1>3 DEF ObservedPublishTick, PublishTick, observer, Spaced
<1>4. CASE ObservedRestart
  BY <1>4, RecoveryAssumption DEF ObservedRestart, Restart, Start, Forgotten, Spaced
<1>5. CASE UNCHANGED observedVars
  BY <1>5 DEF observedVars, observer, vars, Spaced
<1> QED BY <1>1, <1>2, <1>3, <1>4, <1>5 DEF ObservedNext

(* No new hold of a command and key starts before the cooldown has passed  *)
(* since the last one it started, for every cooldown and any sources.      *)
THEOREM NewHoldsAreSpaced == ObservedSpec => []NewHoldsSpaced
<1>1. ObservedInit => Safe /\ Spaced
  BY InitSafe, CooledType, RecoveryAssumption
  DEF ObservedInit, Init, Forgotten, Spaced
<1>2. [ObservedNext]_observedVars => [Next]_vars
  BY DEF ObservedNext, ObservedReceive, ObservedClockTick, ObservedPublishTick,
         ObservedRestart, Next, Receive, observedVars
<1>3. Spaced => NewHoldsSpaced
  BY DEF Spaced, NewHoldsSpaced
<1> QED BY StepSafe, StepSpaced, <1>1, <1>2, <1>3, PTL DEF ObservedSpec
-----------------------------------------------------------------------------
(***************************************************************************)
(* The bound on exposure.  While a fault goes unheld nothing is stamped,   *)
(* so every key is at least as old as the exposure; and a message refused  *)
(* since the last tick names a key that has not cooled down.  Together the *)
(* exposure cannot grow past the cooldown of any key.                      *)
(***************************************************************************)
Bounded ==
  /\ exposed \in 0 .. Cooldown
  /\ ~Unheld => exposed = 0
  /\ Unheld => \A ak \in CooldownKeys : exposed <= since[ak]
  /\ Unheld /\ heard => \E ak \in CooldownKeys : since[ak] < Cooldown

LEMMA InitBounded == ObservedInit => Bounded
BY RecoveryAssumption DEF ObservedInit, Init, Bounded, Unheld

LEMMA ReceiveBounded == Safe /\ Bounded /\ ObservedReceive => Bounded'
<1> SUFFICES ASSUME Safe, Bounded, NEW m \in HealthMessage, OnHealth(m), Observe(m)
             PROVE  Bounded'
  BY DEF ObservedReceive
<1> DEFINE a == HoldAction(m)
           k == FaultKey(m.source)
<1>1. heard' = TRUE /\ exposed' = IF Unheld' THEN exposed ELSE 0
  BY DEF Observe
<1>2. exposed' \in 0 .. Cooldown
  BY <1>1, RecoveryAssumption DEF Bounded
<1>3. CASE ~Unheld'
  BY <1>1, <1>2, <1>3 DEF Bounded
<1>4. CASE Unheld'
  <2>1. Actuate(m) /\ ~holdActuating'
    BY <1>4 DEF Unheld, OnHealth, Resume
  <2>2. enabled /\ ~holdActuating /\ ~Accepted(a, k, holdActuating)
    BY <1>4, <2>1 DEF Actuate, Unheld
  <2>3. since' = since
    BY <2>1, <2>2 DEF Actuate, Stamped
  <2>4. a \in HoldCommands /\ since[<<a, k>>] < Cooldown
    <3>1. a \in AllowedActions
      BY DEF HoldAction, AllowedActions, ACTION_NONE, ACTION_HOLD,
             ACTION_STOP_AND_HOLD, ACTION_REWIND
    <3> QED BY <2>2, <3>1 DEF Accepted, Rated, Cooling
  <2>5. <<a, k>> \in CooldownKeys
    BY <2>4, RatedKey
  <2>6. \A ak \in CooldownKeys : exposed <= since[ak]
    <3>1. CASE Unheld    BY <3>1 DEF Bounded
    <3>2. CASE ~Unheld
      BY <3>2, RecoveryAssumption DEF Bounded, Safe, TypeOK
    <3> QED BY <3>1, <3>2
  <2> QED BY <1>1, <1>2, <1>4, <2>3, <2>4, <2>5, <2>6 DEF Bounded
<1> QED BY <1>3, <1>4

LEMMA ClockTickBounded == Safe /\ Bounded /\ ObservedClockTick => Bounded'
<1> SUFFICES ASSUME Safe, Bounded, ObservedClockTick PROVE Bounded'
  OBVIOUS
<1>1. /\ heard' = FALSE /\ (Unheld' <=> Unheld)
      /\ exposed' = IF Unheld /\ heard /\ exposed <= Cooldown THEN exposed + 1 ELSE exposed
      /\ \A ak \in CooldownKeys :
           since'[ak] = IF since[ak] < Cooldown THEN since[ak] + 1 ELSE Cooldown
  BY DEF ObservedClockTick, ClockTick, Unheld
<1>2. CASE Unheld /\ heard
  <2>1. PICK ak \in CooldownKeys : since[ak] < Cooldown
    BY <1>2 DEF Bounded
  <2>2. exposed + 1 <= Cooldown
    BY <1>2, <2>1, RecoveryAssumption DEF Bounded, Safe, TypeOK
  <2>3. \A bk \in CooldownKeys : exposed + 1 <= since'[bk]
    BY <1>1, <1>2, <2>2, RecoveryAssumption DEF Bounded, Safe, TypeOK
  <2> QED BY <1>1, <1>2, <2>2, <2>3, RecoveryAssumption DEF Bounded
<1>3. CASE ~(Unheld /\ heard)
  <2>1. Unheld => \A bk \in CooldownKeys : exposed <= since'[bk]
    BY <1>1, RecoveryAssumption DEF Bounded, Safe, TypeOK
  <2> QED BY <1>1, <1>3, <2>1 DEF Bounded
<1> QED BY <1>2, <1>3

LEMMA StepBounded == Safe /\ Bounded /\ [ObservedNext]_observedVars => Bounded'
<1> SUFFICES ASSUME Safe, Bounded, [ObservedNext]_observedVars PROVE Bounded'
  OBVIOUS
<1>1. CASE ObservedReceive    BY <1>1, ReceiveBounded
<1>2. CASE ObservedClockTick  BY <1>2, ClockTickBounded
<1>3. CASE ObservedPublishTick
  BY <1>3 DEF ObservedPublishTick, PublishTick, observer, Bounded, Unheld
<1>4. CASE ObservedRestart
  BY <1>4, RecoveryAssumption DEF ObservedRestart, Restart, Start, Bounded, Unheld
<1>5. CASE UNCHANGED observedVars
  BY <1>5 DEF observedVars, observer, vars, Bounded, Unheld
<1> QED BY <1>1, <1>2, <1>3, <1>4, <1>5 DEF ObservedNext

(* Whatever faults are reported and however they move between sources, an  *)
(* armed node that keeps receiving health leaves a fault unheld for at     *)
(* most Cooldown ticks.                                                    *)
THEOREM ExposureBounded == ObservedSpec => []ExposureIsBounded
<1>1. ObservedInit => Safe
  BY InitSafe DEF ObservedInit
<1>2. [ObservedNext]_observedVars => [Next]_vars
  BY DEF ObservedNext, ObservedReceive, ObservedClockTick, ObservedPublishTick,
         ObservedRestart, Next, Receive, observedVars
<1>3. Bounded => ExposureIsBounded
  BY RecoveryAssumption DEF Bounded, ExposureIsBounded
<1> QED BY StepSafe, InitBounded, StepBounded, <1>1, <1>2, <1>3, PTL DEF ObservedSpec
=============================================================================
