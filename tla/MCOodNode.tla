------------------------------ MODULE MCOodNode ------------------------------
(* TLC instance of the OOD node: both profiles, a window of two frames.   *)
EXTENDS OodNode

CONSTANTS fineFrame, nanFrame

MCSizes == {0, 1, 2}

MCEmbedDims == {0, 1}

MCContents == {fineFrame, nanFrame}

MCPoisoned == {nanFrame}

MCSpreads == {2, 10}

MCThresholds == {10}
=============================================================================
