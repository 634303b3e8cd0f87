-------------------------- MODULE MCCameraRegistry --------------------------
(* Instances of CameraRegistry for TLC. *)
EXTENDS CameraRegistry, TLC

CONSTANTS c1, c2

HoldsNothing == [c \in Cams |-> {}]
\* A canvas on c1 shows c2.
C1HoldsC2    == [c \in Cams |-> IF c = c1 THEN {c2} \ {c1} ELSE {}]

Locked == {"open", "close", "native", "scan"}

Watching == {"connect", "disconnect", "record", "idle", "unplug"}
Leaving  == {"disconnect", "closeAll", "unplug", "record", "idle"}

Symmetry == Permutations(Threads) \cup Permutations(Viewers)
=============================================================================
