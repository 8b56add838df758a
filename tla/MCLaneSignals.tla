--------------------------- MODULE MCLaneSignals ---------------------------
(* Instances of LaneSignals for TLC. *)
EXTENDS LaneSignals, TLC

CONSTANTS DirectionA, DirectionB

Faces == {DirectionA, DirectionB}
Indications == {Green, Yellow, Red, TwoWay, Unknown}
OpenOrClosed == {Green, Red}

(* Nothing tells one face from the other. *)
Mirror == Permutations(Faces)
=============================================================================
