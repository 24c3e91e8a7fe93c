----------------------------- MODULE DurableSet -----------------------------
(***************************************************************************)
(* What a bookkeeping log promises: the set of objects it records on the   *)
(* medium is the set of objects that are allocated.  Both change by one    *)
(* object at a time, at once, when add_log records that the object was     *)
(* allocated or freed, and are changed by nothing else: not by a           *)
(* collection, at none of its steps.                                       *)
(***************************************************************************)
CONSTANT Objs

VARIABLES recorded, allocated

vars == <<recorded, allocated>>

Init == recorded = {} /\ allocated = {}

Allocated(o) ==
  /\ o \notin allocated
  /\ allocated' = allocated \cup {o}
  /\ recorded' = recorded \cup {o}

Freed(o) ==
  /\ o \in allocated
  /\ allocated' = allocated \ {o}
  /\ recorded' = recorded \ {o}

Next == \E o \in Objs : Allocated(o) \/ Freed(o)

Spec == Init /\ [][Next]_vars
=============================================================================
