----------------------------- MODULE MCRecovery -----------------------------
(* TLC instance of the recovery node: two named sources and the empty one, *)
(* every defined state and action plus one undefined value of each field.  *)
EXTENDS RecoveryCooldown

CONSTANTS ood, freq, noName, unknownName

MCSources == {ood, freq, noName}

MCWireStates == SeverityStates \cup {99}

MCWireActions == AllowedActions \cup {200}
=============================================================================
