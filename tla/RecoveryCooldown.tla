-------------------------- MODULE RecoveryCooldown --------------------------
(***************************************************************************)
(* The recovery node with an observer of what its cooldown does.  The      *)
(* observer sees only the node's conduct (the hold going on, the command   *)
(* and key of the message that did it, how long a fault is left unheld),   *)
(* never the envelope's own stamps, and forgets with the process.          *)
(***************************************************************************)
EXTENDS Recovery

VARIABLES sinceStart,  \* ticks since (command, key) last started a hold
          startGap,    \* shortest time from a start to the next start of its key
          heard,       \* a health message was handled since the last clock tick
          exposed      \* ticks of heard health a fault has now gone unheld

observer == <<sinceStart, startGap, heard, exposed>>

observedVars == <<vars, observer>>

Forgotten == [ak \in CooldownKeys |-> Cooldown]

\* The command and key under which m asks for a hold; none for a rewind.
Asked(m) ==
  IF WantsHold(m.state) /\ HoldAction(m) \in HoldCommands
    THEN {<<HoldAction(m), FaultKey(m.source)>>}
    ELSE {}

Reset(history, keys) ==
  [ak \in CooldownKeys |-> IF ak \in keys THEN 0 ELSE history[ak]]

Aged(history) ==
  [ak \in CooldownKeys |->
     IF history[ak] < Cooldown THEN history[ak] + 1 ELSE Cooldown]

Least(gap, history, keys) ==
  CHOOSE g \in 0 .. Cooldown :
    /\ g <= gap /\ \A ak \in keys : g <= history[ak]
    /\ g = gap \/ \E ak \in keys : g = history[ak]

\* An armed node knows of a fault and commands no hold.
Unheld == enabled /\ holdActive /\ ~holdActuating

Observe(m) ==
  LET started == IF ~holdActuating /\ holdActuating' THEN Asked(m) ELSE {}
  IN  /\ sinceStart' = Reset(sinceStart, started)
      /\ startGap' = Least(startGap, sinceStart, started)
      /\ heard' = TRUE
      /\ exposed' = IF Unheld' THEN exposed ELSE 0
-----------------------------------------------------------------------------
ObservedInit ==
  /\ Init
  /\ sinceStart = Forgotten
  /\ startGap = Cooldown
  /\ heard = FALSE
  /\ exposed = 0

ObservedReceive == \E m \in HealthMessage : OnHealth(m) /\ Observe(m)

ObservedClockTick ==
  /\ ClockTick
  /\ sinceStart' = Aged(sinceStart)
  /\ heard' = FALSE
  /\ exposed' = IF Unheld /\ heard /\ exposed <= Cooldown THEN exposed + 1 ELSE exposed
  /\ UNCHANGED startGap

ObservedPublishTick == PublishTick /\ UNCHANGED observer

ObservedRestart ==
  /\ Restart
  /\ sinceStart' = Forgotten
  /\ heard' = FALSE
  /\ exposed' = 0
  /\ UNCHANGED startGap

ObservedNext ==
  \/ ObservedReceive
  \/ ObservedClockTick
  \/ ObservedPublishTick
  \/ ObservedRestart

ObservedSpec == ObservedInit /\ [][ObservedNext]_observedVars

ObservedFairSpec ==
  /\ ObservedSpec
  /\ WF_observedVars(ObservedReceive)
  /\ WF_observedVars(ObservedPublishTick)
  /\ WF_observedVars(ObservedClockTick)
-----------------------------------------------------------------------------
(***************************************************************************)
(* recovery.hpp:43-46: a NEW hold within the cooldown of the last new hold *)
(* of the same command and key never starts, however messages, sources,    *)
(* commands, releases and continuations were interleaved in between.       *)
(***************************************************************************)
NewHoldsSpaced == startGap = Cooldown

(***************************************************************************)
(* The cooldown leaves the robot unheld under a reported fault for at most *)
(* Cooldown ticks in all, as long as health keeps arriving: a fault that   *)
(* moves from source to source or from INTERVENE to STOP cannot string     *)
(* the cooldowns of its keys together (recovery.cpp:84-95).                *)
(***************************************************************************)
ExposureIsBounded == exposed <= Cooldown
=============================================================================
