------------------------------- MODULE MCVLog -------------------------------
(* Small instances of the bookkeeping log. *)
EXTENDS VLogInv, TLC

CONSTANTS o1, o2, o3

\* A slab has SLAB_SIZE bytes, the smallest extent a page.
MCSizes == [o \in Objs |-> CASE o \in Slabs -> 65536
                          [] o \in Files -> 1
                          [] OTHER -> 4096]

\* Objects of one kind are interchangeable.
Sym == Permutations(Objs \ (Files \cup Slabs))
=============================================================================
