------------------------------ MODULE Recovery ------------------------------
(***************************************************************************)
(* phm_recovery: RecoveryNode over phm_core's RecoveryController.          *)
(*                                                                         *)
(* The controller chains three pieces: HealthToActionMapper (which action  *)
(* a health message asks for), SafetyEnvelope (enable switch, allowlist,   *)
(* per (action, fault key) cooldown) and the actuation flag the node's     *)
(* publish timer reads.  The node runs one single-threaded executor, so    *)
(* every callback is one step here: OnHealth is the whole health callback  *)
(* and PublishTick the whole timer callback.                               *)
(*                                                                         *)
(* Time is relative.  The code stores the time each new hold was accepted  *)
(* and compares now - then with the cooldown; the model keeps that         *)
(* difference in since, in clock ticks, saturating at Cooldown, where the  *)
(* comparison no longer changes.  A key that was never stamped is          *)
(* indistinguishable from one that has cooled down.                        *)
(***************************************************************************)
EXTENDS Severity

CONSTANTS Sources,      \* health sources; NoSource is the empty name
          NoSource,
          UnknownKey,   \* the fault key "unknown" used for an empty source
          WireStates,   \* values of the uint8 state field, valid or not
          WireActions,  \* values of the uint8 suggested_action field
          Cooldown      \* recovery.cooldown_seconds, in ticks

ASSUME RecoveryAssumption ==
  /\ NoSource \in Sources
  /\ SeverityStates \subseteq WireStates /\ WireStates \subseteq Nat
  /\ AllowedActions \subseteq WireActions /\ WireActions \subseteq Nat
  /\ Cooldown \in Nat

VARIABLES enabled,        \* recovery.enabled, read when the node starts
          since,          \* ticks since a hold of (action, key) was accepted as new
          holdActive,     \* HealthToActionMapper::hold_active_
          holdActuating,  \* RecoveryController::hold_actuating_
          rewound,        \* the last health message triggered the rewind hook
          zeroVelocity    \* the last publish tick sent a zero Twist

vars == <<enabled, since, holdActive, holdActuating, rewound, zeroVelocity>>

HoldCommands == {ACTION_HOLD, ACTION_STOP_AND_HOLD}
FaultKeys    == (Sources \ {NoSource}) \cup {UnknownKey}
CooldownKeys == HoldCommands \X FaultKeys

HealthMessage == [state : WireStates, action : WireActions, source : Sources]

TypeOK ==
  /\ enabled \in BOOLEAN
  /\ since \in [CooldownKeys -> 0 .. Cooldown]
  /\ holdActive \in BOOLEAN
  /\ holdActuating \in BOOLEAN
  /\ rewound \in BOOLEAN
  /\ zeroVelocity \in BOOLEAN
-----------------------------------------------------------------------------
FaultKey(source) == IF source = NoSource THEN UnknownKey ELSE source

(***************************************************************************)
(* HealthToActionMapper::map.  Only OK and DEGRADED release; every value   *)
(* that is not a known state is treated as STOP.                           *)
(***************************************************************************)
WantsHold(state) == state \notin {STATE_OK, STATE_DEGRADED}

HoldAction(m) ==
  CASE m.state = STATE_INTERVENE /\ m.action = ACTION_REWIND -> ACTION_REWIND
    [] m.state = STATE_INTERVENE /\ m.action # ACTION_REWIND -> ACTION_HOLD
    [] OTHER -> ACTION_STOP_AND_HOLD

(***************************************************************************)
(* SafetyEnvelope::evaluate.  Rated: the action is subject to the cooldown *)
(* (a new hold, not the continuation of one).  Cooling: a hold of the same *)
(* command and key was started less than Cooldown ago.                     *)
(***************************************************************************)
Rated(action, continuing) == action \in HoldCommands /\ ~continuing

\* Mutated: an off-by-one in the cooldown comparison.
CoolingOneShort(action, key) == since[<<action, key>>] + 1 < Cooldown

Cooling(action, key) == since[<<action, key>>] < Cooldown

\* Mutated: the enable switch is not consulted.
AcceptedUnarmed(action, key, continuing) ==
  /\ action \in AllowedActions
  /\ Rated(action, continuing) => ~Cooling(action, key)

Accepted(action, key, continuing) ==
  /\ enabled
  /\ action \in AllowedActions
  /\ Rated(action, continuing) => ~Cooling(action, key)

\* Mutated: a suppressed re-assert restarts the cooldown too.
StampedEvenSuppressed(action, key, continuing) ==
  IF Rated(action, continuing) THEN [since EXCEPT ![<<action, key>>] = 0] ELSE since

Stamped(action, key, continuing) ==
  IF Accepted(action, key, continuing) /\ Rated(action, continuing)
    THEN [since EXCEPT ![<<action, key>>] = 0]
    ELSE since

\* SafetyEnvelope::evaluate_resume: only the enable switch can refuse a release.
ResumeAccepted == enabled
-----------------------------------------------------------------------------
\* The node starts: parameters are read, every controller field is new.
Start ==
  /\ enabled' \in BOOLEAN
  /\ since' = [ak \in CooldownKeys |-> Cooldown]
  /\ holdActive' = FALSE
  /\ holdActuating' = FALSE
  /\ rewound' = FALSE
  /\ zeroVelocity' = FALSE

Init ==
  /\ enabled \in BOOLEAN
  /\ since = [ak \in CooldownKeys |-> Cooldown]
  /\ holdActive = FALSE
  /\ holdActuating = FALSE
  /\ rewound = FALSE
  /\ zeroVelocity = FALSE

\* OK or DEGRADED: the mapper drops its hold and the envelope resumes.
Resume(m) ==
  /\ ~WantsHold(m.state)
  /\ holdActive' = FALSE
  /\ holdActuating' = (holdActuating /\ ~ResumeAccepted)
  /\ rewound' = FALSE
  /\ UNCHANGED <<enabled, since, zeroVelocity>>

\* Mutated: the envelope is not told of the running hold, and the actuation
\* flag follows its publish result.
ActuateAsPublished(m) ==
  LET action == HoldAction(m)
      key    == FaultKey(m.source)
      accept == Accepted(action, key, FALSE)
  IN  /\ WantsHold(m.state)
      /\ holdActive' = TRUE
      /\ since' = Stamped(action, key, FALSE)
      /\ holdActuating' = accept
      /\ rewound' = (accept /\ action = ACTION_REWIND)
      /\ UNCHANGED <<enabled, zeroVelocity>>

\* INTERVENE, STOP or an unknown state: the envelope decides on the action.
Actuate(m) ==
  LET action == HoldAction(m)
      key    == FaultKey(m.source)
      accept == Accepted(action, key, holdActuating)
  IN  /\ WantsHold(m.state)
      /\ holdActive' = TRUE
      /\ since' = Stamped(action, key, holdActuating)
      /\ holdActuating' = (holdActuating \/ accept)
      /\ rewound' = (accept /\ action = ACTION_REWIND)
      /\ UNCHANGED <<enabled, zeroVelocity>>

\* RecoveryNode::on_health.
OnHealth(m) == Resume(m) \/ Actuate(m)

Receive == \E m \in HealthMessage : OnHealth(m)

\* Mutated: one zero Twist is sent when the hold starts, not one every tick.
PublishTickOnce ==
  /\ zeroVelocity' = (holdActuating /\ ~zeroVelocity)
  /\ UNCHANGED <<enabled, since, holdActive, holdActuating, rewound>>

\* RecoveryNode::on_publish_tick: a zero Twist exactly while the hold actuates.
PublishTick ==
  /\ zeroVelocity' = holdActuating
  /\ UNCHANGED <<enabled, since, holdActive, holdActuating, rewound>>

\* The node's clock advances by one tick.
ClockTick ==
  /\ since' = [ak \in CooldownKeys |->
                 IF since[ak] < Cooldown THEN since[ak] + 1 ELSE Cooldown]
  /\ UNCHANGED <<enabled, holdActive, holdActuating, rewound, zeroVelocity>>

\* The process dies and is launched again, possibly with the switch changed.
Restart == Start

Next == Receive \/ PublishTick \/ ClockTick \/ Restart

Spec == Init /\ [][Next]_vars

(***************************************************************************)
(* The arbiter publishes at 20 Hz over a reliable channel, the publish     *)
(* timer is periodic and the clock runs: each of the three keeps           *)
(* happening.  Nothing is assumed of restarts.                             *)
(***************************************************************************)
Fairness == WF_vars(Receive) /\ WF_vars(PublishTick) /\ WF_vars(ClockTick)

FairSpec == Spec /\ Fairness
-----------------------------------------------------------------------------
(***************************************************************************)
(* A hold actuates only under an armed switch and only while the mapper's  *)
(* own flag says the last health message asked for one.  The two flags are *)
(* kept by different objects (mapper_ and the controller), and the         *)
(* controller clears its flag only when the envelope accepts the resume:   *)
(* recovery.cpp:174-182.                                                   *)
(***************************************************************************)
HoldBacked == holdActuating => holdActive /\ enabled

(***************************************************************************)
(* The node implements the abstract hold: a suppressed re-assert, a change *)
(* of source or of command, and the cooldown never release a hold under    *)
(* way; a recovered message always does (test_recovery.cpp:64-101).        *)
(***************************************************************************)
Gate == INSTANCE HoldGate WITH fault <- holdActive, hold <- holdActuating

HoldIsGated == Gate!Spec

(***************************************************************************)
(* The rewind hook moves the robot: it fires only in a step that leaves    *)
(* the zero-velocity hold on, and never while the switch is off.           *)
(***************************************************************************)
RewindUnderHold == rewound => holdActuating /\ enabled

(***************************************************************************)
(* If health asks for a hold from some point on and the switch is armed,   *)
(* the robot is eventually sent zero velocity at every publish tick: the   *)
(* cooldown delays a new hold, it cannot refuse it for ever, whichever     *)
(* sources and commands the messages alternate between.                    *)
(***************************************************************************)
PersistentFaultStops ==
  <>[](holdActive /\ enabled) => <>[]zeroVelocity
=============================================================================
