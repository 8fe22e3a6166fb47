---------------------------- MODULE MCOodHistory ----------------------------
(* TLC instance of the OOD core: empty, short, long and oversized frames, *)
(* a finite and a poisoned content, spreads in every band.                *)
EXTENDS OodHistory

CONSTANTS calmFrame, oddFrame, nanFrame

MCSizes == {0, 1, 2, 3}

MCEmbedDims == {0, 2}

MCContents == {calmFrame, oddFrame, nanFrame}

MCPoisoned == {nanFrame}

MCSpreads == {0, 4, 9, 10}

MCThresholds == {0, 10, Infinity}
=============================================================================
