--------------------------- MODULE MCArenaChoice ---------------------------
(* Small instances of the choice of arenas. *)
EXTENDS ArenaChoice, TLC

CONSTANTS t1, t2, t3, t4

=============================================================================
