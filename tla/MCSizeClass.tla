----------------------------- MODULE MCSizeClass -----------------------------
(* The real constants; requests at and around every class. *)
EXTENDS SizeClass

Around(n) == {n - 1, n, n + 1}

\* The page classes that TLC's integers can hold in bytes, and the last one.
MCSizes ==
  (UNION {Around(SIZE_CLASSES[c]) : c \in SmallIdx}
     \cup UNION {Around(PSIZE_CLASSES[c] * 4096) : c \in 0 .. 60}
     \cup {PSIZE_CLASSES[61] * 4096}) \ {0}
=============================================================================
