------------------------------ MODULE HoldGate ------------------------------
(***************************************************************************)
(* What the recovery layer promises of the zero-velocity hold, whatever    *)
(* its cooldown, enable switch and rewind hook do:                         *)
(*   - the hold is on only while the last health message asked for it;     *)
(*   - while health keeps asking, a hold that is on stays on (a suppressed *)
(*     re-assert may fail to start a hold, it never releases one);         *)
(*   - a recovered health message, or a new process, leaves the hold off.  *)
(***************************************************************************)
VARIABLES fault,   \* the last health message asked for a hold
          hold     \* the zero-velocity hold is being commanded

gateVars == <<fault, hold>>

Init == fault = FALSE /\ hold = FALSE

\* A health message that asks for a hold: it may start one, never drop one.
Demand == fault' = TRUE /\ hold' \in {hold, TRUE}

\* A recovered health message, or a restart of the process.
Release == fault' = FALSE /\ hold' = FALSE

Next == Demand \/ Release

Spec == Init /\ [][Next]_gateVars
=============================================================================
