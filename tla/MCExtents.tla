----------------------------- MODULE MCExtents -----------------------------
(* Instances of Extents for TLC. *)
EXTENDS Extents, TLC

CONSTANTS t1, t2

\* Page classes of 1, 2, 4 and 8 pages; chunks of 4.
Psz == (0 :> 1) @@ (1 :> 2) @@ (2 :> 4) @@ (3 :> 8)

Threads == Permutations({t1, t2})
=============================================================================
