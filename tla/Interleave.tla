----------------------------- MODULE Interleave -----------------------------
(***************************************************************************)
(* Interleaved mapping: consecutive numbers are spread over consecutive    *)
(* cache lines, so that consecutive persists do not flush one line twice.  *)
(***************************************************************************)
EXTENDS Naturals

\* n slots per line, nb lines per group: number b's slot.  The arithmetic is
\* shared by count_to_index, bid_to_mid and minilog_count_to_index.
Spread(n, nb, b) ==
  LET nn == n * nb
      i == b % nn
  IN (b \div nn) * nn + (b % nb) * n + i \div nb
=============================================================================
