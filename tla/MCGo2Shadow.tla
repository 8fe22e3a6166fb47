---------------------------- MODULE MCGo2Shadow ----------------------------
(* TLC instance of the Go2 programs: the gyroscope and one joint.          *)
EXTENDS Go2Shadow, TLC

CONSTANTS gyro, calf, low, high

MCGroups == {gyro, calf}

MCLimit == [g \in MCGroups |-> IF g = gyro THEN 1 ELSE 3]

MCContents == {low, high}

MCSymmetry == Permutations(MCContents)
=============================================================================
