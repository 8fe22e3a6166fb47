-------------------------- MODULE MCRecoveryClaims --------------------------
(* The instance of MCRecovery, for the claim of RecoveryClaims.            *)
EXTENDS RecoveryClaims

CONSTANTS ood, freq, noName, unknownName

MCSources == {ood, freq, noName}

MCWireStates == SeverityStates \cup {99}

MCWireActions == AllowedActions \cup {200}
=============================================================================
