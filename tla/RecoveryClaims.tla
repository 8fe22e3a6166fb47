--------------------------- MODULE RecoveryClaims ---------------------------
(***************************************************************************)
(* What the repository says of the cooldown, at its word, with the history *)
(* variables it needs.  The recovery node violates it: it is the subject   *)
(* of one of the project's findings.                                       *)
(***************************************************************************)
EXTENDS RecoveryCooldown

VARIABLES sinceCommand,  \* ticks since (command, key) was last commanded at all
          commandGap     \* shortest time from a command to a new start of its key

claimVars == <<observedVars, sinceCommand, commandGap>>

ClaimInit == ObservedInit /\ sinceCommand = Forgotten /\ commandGap = Cooldown

ClaimReceive ==
  \E m \in HealthMessage :
    LET started   == IF ~holdActuating /\ holdActuating' THEN Asked(m) ELSE {}
        commanded == IF holdActuating' THEN Asked(m) ELSE {}
    IN  /\ OnHealth(m)
        /\ Observe(m)
        /\ sinceCommand' = Reset(sinceCommand, commanded)
        /\ commandGap' = Least(commandGap, sinceCommand, started)

ClaimClockTick ==
  ObservedClockTick /\ sinceCommand' = Aged(sinceCommand) /\ UNCHANGED commandGap

ClaimRestart ==
  ObservedRestart /\ sinceCommand' = Forgotten /\ UNCHANGED commandGap

ClaimNext == ClaimReceive \/ ClaimClockTick \/ ClaimRestart

ClaimSpec == ClaimInit /\ [][ClaimNext]_claimVars

(***************************************************************************)
(* config/recovery.yaml:8-9: a fault that clears and immediately re-fires  *)
(* cannot re-fire the same hold command until the cooldown has elapsed,    *)
(* taken from when that command was last sent, as a new hold or as the     *)
(* continuation of one.                                                    *)
(***************************************************************************)
NoEarlyRefire == commandGap = Cooldown

=============================================================================
