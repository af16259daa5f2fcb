--------------------- MODULE MCRealtimeThreadSafeBox ---------------------
(***************************************************************************)
(* Instances of RealtimeThreadSafeBox for TLC: which boxes are assigned.   *)
(***************************************************************************)
EXTENDS RealtimeThreadSafeBox

CONSTANTS box1, box2

\* box1 = box2 and box1 = box1: the assignments of a program that copies in one direction.
OneWay == {<<box1, box2>>, <<box1, box1>>}

\* box1 = box2 and box2 = box1.
BothWays == {<<box1, box2>>, <<box2, box1>>}

=============================================================================
