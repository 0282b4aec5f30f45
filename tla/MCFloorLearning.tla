-------------------------- MODULE MCFloorLearning --------------------------
(* Small instances of FloorLearning for TLC. *)
EXTENDS FloorLearning, TLC

CONSTANTS intel, amd, other, nowhere, none, noDuty

\* Below the tracked range, the low edge of the first bucket and of the second: the
\* tables are silent in the first.
Temperatures == {29, 30, 32}
ModelDuty == [c \in Temperatures |-> IF c < 32 THEN 0 ELSE 50]

\* The last board is not measured.
Profiles == [b \in Board |-> CASE b = intel -> "Intel"
                               [] b = amd -> "AMD"
                               [] OTHER -> "unknown"]

\* One good entry, one that is out of range.
Legacy == {<<30, 0>>, <<500, 255>>}
=============================================================================
