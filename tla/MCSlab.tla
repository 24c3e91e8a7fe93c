------------------------------- MODULE MCSlab -------------------------------
(* Instances of Slab for TLC. *)
EXTENDS Slab, TLC

CONSTANTS h, h2, f, f2

\* Two classes that are not neighbours: blocks of 2 and of 3 bytes.
TwoClasses == {1, 3}
TwoBitsize == (1 :> 2) @@ (3 :> 3)
TwoRoffset == (1 :> 1) @@ (3 :> 1)

\* Flags that read as FALSE, and flags of which each way has some set.
Clear == [w \in Way |-> [i \in Position |-> FALSE]]
Mixed == [w \in Way |-> [i \in Position |-> (w + i) % 2 = 1]]
ClearFlags == {Clear}
AnyFlags == {Clear, Mixed}

Sym == Permutations({h, h2})

OneClass == {1}
OneBitsize == 1 :> 3
OneRoffset == 1 :> 1
=============================================================================
