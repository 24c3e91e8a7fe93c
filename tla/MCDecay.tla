------------------------------- MODULE MCDecay -------------------------------
(* Small instances of the decay of an arena. *)
EXTENDS Decay

CONSTANTS t1, t2

DirtyPool == <<"dirty">>
Intervals == [p \in Kinds |-> 2]
\* smootherstep at 1/3, 2/3 and 1, in fifths.
ThreeSteps == <<1, 4, 5>>
=============================================================================
