-------------------------- MODULE InterleaveProofs --------------------------
(***************************************************************************)
(* The interleaved mapping, for lines of any number n of slots and groups  *)
(* of any number nb of lines: it is one-to-one, it stays in its group, and *)
(* nb consecutive numbers are in nb different lines.                       *)
(***************************************************************************)
EXTENDS Interleave, TLAPS

----------------------------------------------------------------------------
(* Division. *)

LEMMA Division ==
  ASSUME NEW a \in Nat, NEW d \in Nat \ {0}
  PROVE  /\ a \div d \in Nat
         /\ a % d \in 0 .. (d - 1)
         /\ a = (a \div d) * d + (a % d)
<1>1. a \div d \in Nat /\ a % d \in 0 .. (d - 1)
  OBVIOUS
<1>2. a = d * (a \div d) + (a % d)
  OBVIOUS
<1>3. d * (a \div d) = (a \div d) * d
  BY <1>1
<1>4. QED
  BY <1>1, <1>2, <1>3

LEMMA Multiples ==
  ASSUME NEW p \in Nat, NEW q \in Nat, NEW d \in Nat, p < q
  PROVE  p * d + d <= q * d
<1>1. PICK e \in Nat : q = p + 1 + e
  <2>1. q - p - 1 \in Nat /\ q = p + 1 + (q - p - 1)
    OBVIOUS
  <2>2. QED
    BY <2>1
<1>2. (p + 1 + e) * d = p * d + d + e * d
  OBVIOUS
<1>3. e * d \in Nat /\ p * d \in Nat
  OBVIOUS
<1>4. QED
  BY <1>1, <1>2, <1>3

LEMMA UniqueDivision ==
  ASSUME NEW p \in Nat, NEW q \in Nat, NEW d \in Nat \ {0},
         NEW r \in 0 .. (d - 1), NEW s \in 0 .. (d - 1),
         p * d + r = q * d + s
  PROVE  p = q /\ r = s
<1>1. p * d \in Nat /\ q * d \in Nat
  OBVIOUS
<1>2. CASE p < q
  <2>1. p * d + d <= q * d
    BY <1>2, Multiples
  <2>2. QED
    BY <1>1, <2>1
<1>3. CASE q < p
  <2>1. q * d + d <= p * d
    BY <1>3, Multiples
  <2>2. QED
    BY <1>1, <2>1
<1>4. CASE p = q
  BY <1>1, <1>4
<1>5. QED
  BY <1>2, <1>3, <1>4

LEMMA DivisionIs ==
  ASSUME NEW p \in Nat, NEW d \in Nat \ {0}, NEW r \in 0 .. (d - 1)
  PROVE  (p * d + r) \div d = p /\ (p * d + r) % d = r
<1> DEFINE a == p * d + r
<1>1. a \in Nat
  <2>1. p * d \in Nat
    OBVIOUS
  <2>2. QED
    BY <2>1
<1>2. /\ a \div d \in Nat /\ a % d \in 0 .. (d - 1)
      /\ p * d + r = (a \div d) * d + (a % d)
  BY <1>1, Division
<1> HIDE DEF a
<1>3. p = a \div d /\ r = a % d
  BY <1>2, UniqueDivision
<1>4. QED
  BY <1>3 DEF a

----------------------------------------------------------------------------
(* The number b is k-th in the j-th round over the q-th group of nb lines:
   it goes to the j-th slot of the k-th line of that group. *)
LEMMA Parts ==
  ASSUME NEW n \in Nat \ {0}, NEW nb \in Nat \ {0}, NEW b \in Nat
  PROVE  \E q \in Nat, j \in 0 .. (n - 1), k \in 0 .. (nb - 1) :
           /\ b = (q * n + j) * nb + k
           /\ Spread(n, nb, b) = (q * nb + k) * n + j
<1> DEFINE nn == n * nb
<1> DEFINE q == b \div nn
<1> DEFINE i == b % nn
<1> DEFINE j == i \div nb
<1> DEFINE k == i % nb
<1>1. nn \in Nat \ {0}
  <2>1. 0 * nb + nb <= n * nb
    BY Multiples
  <2>2. n * nb \in Nat
    OBVIOUS
  <2>3. QED
    BY <2>1, <2>2
<1> HIDE DEF nn
<1>2. q \in Nat /\ i \in 0 .. (nn - 1) /\ b = q * nn + i
  BY <1>1, Division
<1> HIDE DEF q, i
<1>3. j \in Nat /\ k \in 0 .. (nb - 1) /\ i = j * nb + k
  <2>1. i \in Nat
    BY <1>1, <1>2
  <2>2. QED
    BY <2>1, Division
<1> HIDE DEF j, k
<1>4. j < n
  <2> SUFFICES ASSUME n <= j PROVE FALSE
    BY <1>3
  <2>1. nn <= j * nb
    <3>1. CASE n = j
      BY <3>1 DEF nn
    <3>2. CASE n < j
      <4>1. n * nb + nb <= j * nb
        BY <1>3, <3>2, Multiples
      <4>2. n * nb \in Nat /\ j * nb \in Nat
        BY <1>3
      <4>3. QED
        BY <4>1, <4>2 DEF nn
    <3>3. QED
      BY <1>3, <3>1, <3>2
  <2>2. j * nb \in Nat
    BY <1>3
  <2>3. QED
    BY <1>1, <1>2, <1>3, <2>1, <2>2
<1>5. b = (q * n + j) * nb + k
  <2>1. (q * n + j) * nb = q * (n * nb) + j * nb
    BY <1>2, <1>3
  <2>2. q * nn \in Nat /\ j * nb \in Nat
    BY <1>1, <1>2, <1>3
  <2>3. QED
    BY <1>2, <1>3, <2>1, <2>2 DEF nn
<1>6. b % nb = k
  <2>1. q * n + j \in Nat
    <3>1. q * n \in Nat
      BY <1>2
    <3>2. QED
      BY <1>3, <3>1
  <2>2. QED
    BY <1>3, <1>5, <2>1, DivisionIs
<1>7. Spread(n, nb, b) = q * nn + k * n + j
  BY <1>6 DEF Spread, nn, q, i, j
<1>8. q * nn + k * n + j = (q * nb + k) * n + j
  <2>1. (q * nb + k) * n = q * (n * nb) + k * n
    BY <1>2, <1>3
  <2>2. QED
    BY <2>1 DEF nn
<1>9. j \in 0 .. (n - 1)
  BY <1>3, <1>4
<1>10. Spread(n, nb, b) = (q * nb + k) * n + j
  BY <1>7, <1>8
<1>11. QED
  BY ONLY <1>2, <1>3, <1>5, <1>9, <1>10, q \in Nat

----------------------------------------------------------------------------
\* No two numbers share a slot: an item, a ring entry or a block never
\* overwrites another (count_to_index, minilog_count_to_index, bid_to_mid).
THEOREM SpreadInjective ==
  ASSUME NEW n \in Nat \ {0}, NEW nb \in Nat \ {0},
         NEW b \in Nat, NEW c \in Nat, Spread(n, nb, b) = Spread(n, nb, c)
  PROVE  b = c
<1>1. PICK q1 \in Nat, j1 \in 0 .. (n - 1), k1 \in 0 .. (nb - 1) :
        /\ b = (q1 * n + j1) * nb + k1
        /\ Spread(n, nb, b) = (q1 * nb + k1) * n + j1
  BY Parts
<1>2. PICK q2 \in Nat, j2 \in 0 .. (n - 1), k2 \in 0 .. (nb - 1) :
        /\ c = (q2 * n + j2) * nb + k2
        /\ Spread(n, nb, c) = (q2 * nb + k2) * n + j2
  BY Parts
<1>3. q1 * nb + k1 \in Nat /\ q2 * nb + k2 \in Nat
  <2>1. q1 * nb \in Nat /\ q2 * nb \in Nat
    OBVIOUS
  <2>2. QED
    BY <2>1
<1>4. q1 * nb + k1 = q2 * nb + k2 /\ j1 = j2
  BY <1>1, <1>2, <1>3, UniqueDivision
<1>5. q1 = q2 /\ k1 = k2
  BY <1>4, UniqueDivision
<1>6. QED
  BY <1>1, <1>2, <1>4, <1>5

\* Whole groups of lines are filled before the next one is begun, so that an
\* area of m groups is never left (lchunk_s, the ring, a slab's meta area).
THEOREM SpreadInGroup ==
  ASSUME NEW n \in Nat \ {0}, NEW nb \in Nat \ {0}, NEW m \in Nat,
         NEW b \in Nat, b < (m * n) * nb
  PROVE  Spread(n, nb, b) < (m * nb) * n
<1>1. PICK q \in Nat, j \in 0 .. (n - 1), k \in 0 .. (nb - 1) :
        /\ b = (q * n + j) * nb + k
        /\ Spread(n, nb, b) = (q * nb + k) * n + j
  BY Parts
<1>2. /\ q * n \in Nat /\ m * n \in Nat /\ q * nb \in Nat /\ m * nb \in Nat
  OBVIOUS
<1>3. q < m
  <2> SUFFICES ASSUME m <= q PROVE FALSE
    OBVIOUS
  <2>1. m * n <= q * n + j
    <3>1. CASE m = q
      BY <1>2, <3>1
    <3>2. CASE m < q
      <4>1. m * n + n <= q * n
        BY <3>2, Multiples
      <4>2. QED
        BY <1>2, <4>1
    <3>3. QED
      BY <3>1, <3>2
  <2>2. q * n + j \in Nat
    BY <1>2
  <2>3. (m * n) * nb <= (q * n + j) * nb
    <3>1. CASE m * n = q * n + j
      <4>1. (m * n) * nb \in Nat
        BY <1>2
      <4>2. QED
        BY <3>1, <4>1
    <3>2. CASE m * n < q * n + j
      <4>1. (m * n) * nb + nb <= (q * n + j) * nb
        BY <1>2, <2>2, <3>2, Multiples
      <4>2. (m * n) * nb \in Nat /\ (q * n + j) * nb \in Nat
        BY <1>2, <2>2
      <4>3. QED
        BY <4>1, <4>2
    <3>3. QED
      BY <1>2, <2>1, <2>2, <3>1, <3>2
  <2>4. (m * n) * nb \in Nat /\ (q * n + j) * nb \in Nat
    BY <1>2, <2>2
  <2>5. QED
    BY <1>1, <2>3, <2>4
<1>4. q * nb + nb <= m * nb
  BY <1>3, Multiples
<1>5. q * nb + k < m * nb /\ q * nb + k \in Nat
  BY <1>2, <1>4
<1>6. (q * nb + k) * n + n <= (m * nb) * n
  BY <1>2, <1>5, Multiples
<1>7. (q * nb + k) * n \in Nat /\ (m * nb) * n \in Nat
  BY <1>2, <1>5
<1>8. QED
  BY <1>1, <1>6, <1>7

\* Fewer than nb steps apart is in different lines, over the boundary of two
\* groups too: what the mapping is for (persistent lines flushed once each).
THEOREM LinesApart ==
  ASSUME NEW n \in Nat \ {0}, NEW nb \in Nat \ {0},
         NEW b \in Nat, NEW c \in Nat, b < c, c < b + nb
  PROVE  Spread(n, nb, b) \div n # Spread(n, nb, c) \div n
<1>1. PICK q1 \in Nat, j1 \in 0 .. (n - 1), k1 \in 0 .. (nb - 1) :
        /\ b = (q1 * n + j1) * nb + k1
        /\ Spread(n, nb, b) = (q1 * nb + k1) * n + j1
  BY Parts
<1>2. PICK q2 \in Nat, j2 \in 0 .. (n - 1), k2 \in 0 .. (nb - 1) :
        /\ c = (q2 * n + j2) * nb + k2
        /\ Spread(n, nb, c) = (q2 * nb + k2) * n + j2
  BY Parts
<1>3. /\ q1 * nb + k1 \in Nat /\ q2 * nb + k2 \in Nat
      /\ q1 * n + j1 \in Nat /\ q2 * n + j2 \in Nat
  <2>1. /\ q1 * nb \in Nat /\ q2 * nb \in Nat
        /\ q1 * n \in Nat /\ q2 * n \in Nat
    OBVIOUS
  <2>2. QED
    BY <2>1
<1> SUFFICES ASSUME Spread(n, nb, b) \div n = Spread(n, nb, c) \div n
             PROVE  FALSE
  OBVIOUS
<1>4. q1 * nb + k1 = q2 * nb + k2
  <2>1. ((q1 * nb + k1) * n + j1) \div n = q1 * nb + k1
    BY <1>3, DivisionIs
  <2>2. ((q2 * nb + k2) * n + j2) \div n = q2 * nb + k2
    BY <1>3, DivisionIs
  <2>3. QED
    BY ONLY <1>1, <1>2, <2>1, <2>2, Spread(n, nb, b) \div n = Spread(n, nb, c) \div n
<1>5. k1 = k2
  BY <1>4, UniqueDivision
<1> DEFINE r1 == q1 * n + j1
<1> DEFINE r2 == q2 * n + j2
<1> HIDE DEF r1, r2
<1>6. /\ r1 \in Nat /\ r2 \in Nat /\ b = r1 * nb + k1 /\ c = r2 * nb + k1
  BY <1>1, <1>2, <1>3, <1>5 DEF r1, r2
<1>7. r1 * nb \in Nat /\ r2 * nb \in Nat
  BY <1>6
<1>8. CASE r1 < r2
  <2>1. r1 * nb + nb <= r2 * nb
    BY <1>6, <1>8, Multiples
  <2>2. QED
    BY <1>6, <1>7, <2>1
<1>9. CASE r2 < r1
  <2>1. r2 * nb + nb <= r1 * nb
    BY <1>6, <1>9, Multiples
  <2>2. QED
    BY <1>6, <1>7, <2>1
<1>10. CASE r1 = r2
  BY <1>6, <1>7, <1>10
<1>11. QED
  BY <1>6, <1>8, <1>9, <1>10
=============================================================================
