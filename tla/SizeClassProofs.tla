--------------------------- MODULE SizeClassProofs ---------------------------
(***************************************************************************)
(* A request gets the least class that has its bytes, and every layout a   *)
(* slab gets, fresh or after a morph, stays inside the slab with a place   *)
(* for the bit of each block: for any size of a slab, a page and the head, *)
(* any number of banks and any share of old blocks.                        *)
(***************************************************************************)
EXTENDS SizeClass, InterleaveProofs, FiniteSetTheorems, WellFoundedInduction

----------------------------------------------------------------------------
(* Numbers. *)

LEMMA LeastNumber ==
  ASSUME NEW S \in SUBSET Nat, S # {}
  PROVE  \E x \in S : \A y \in S : x <= y
<1> DEFINE R == {r \in Nat \X Nat : r[1] < r[2]}
<1>1. OpToRel(<, Nat) = R
  BY DEF OpToRel
<1>2. IsWellFoundedOn(R, Nat)
  BY <1>1, NatLessThanWellFounded
<1>3. PICK x \in S : \A y \in S : <<y, x>> \notin R
  <2> HIDE DEF R
  <2> QED
    BY <1>2, WFMin
<1>4. \A y \in S : ~ (y < x)
  BY <1>3
<1> QED
  BY <1>4

LEMMA GreatestNumber ==
  ASSUME NEW n \in Nat, NEW S \in SUBSET (0 .. n), S # {}
  PROVE  \E x \in S : \A y \in S : y <= x
<1> DEFINE T == {n - x : x \in S}
<1>1. \A x \in S : x \in Nat /\ x <= n /\ n - x \in Nat
  OBVIOUS
<1>2. T \subseteq Nat /\ T # {}
  BY <1>1
<1>3. PICK z \in T : \A y \in T : z <= y
  <2> HIDE DEF T
  <2> QED
    BY <1>2, LeastNumber
<1>4. PICK x \in S : z = n - x
  BY <1>3
<1>5. ASSUME NEW y \in S PROVE y <= x
  <2>1. n - x <= n - y
    BY <1>3, <1>4
  <2> QED
    BY <1>1, <2>1
<1> QED
  BY <1>5

LEMMA MinIs ==
  ASSUME NEW S \in SUBSET Nat, S # {}
  PROVE  Min(S) \in S /\ \A y \in S : Min(S) <= y
<1>1. \E x \in S : \A y \in S : x <= y
  BY LeastNumber
<1> QED
  BY <1>1 DEF Min

LEMMA MaxIs ==
  ASSUME NEW S \in SUBSET Nat, NEW x \in S, \A y \in S : y <= x
  PROVE  Max(S) = x
<1>1. \A y \in S : x >= y
  OBVIOUS
<1>2. Max(S) \in S /\ \A y \in S : Max(S) >= y
  BY <1>1 DEF Max
<1>3. PICK z \in S : z = Max(S) /\ \A y \in S : z >= y
  BY <1>2
<1>4. z <= x /\ x <= z /\ z \in Nat /\ x \in Nat
  BY <1>3
<1> QED
  BY <1>3, <1>4

LEMMA RoundUpIs ==
  ASSUME NEW n \in Nat, NEW a \in Nat \ {0}
  PROVE  /\ RoundUp(n, a) \in Nat
         /\ n <= RoundUp(n, a)
         /\ RoundUp(n, a) < n + a
         /\ \E g \in Nat : RoundUp(n, a) = g * a
<1>1. PICK m \in Nat : m = n + a - 1
  OBVIOUS
<1>2. /\ m \div a \in Nat /\ m % a \in 0 .. (a - 1)
      /\ m = (m \div a) * a + (m % a)
  BY Division
<1>3. PICK p \in Nat : p = (m \div a) * a
  BY <1>2
<1>4. RoundUp(n, a) = p
  BY <1>1, <1>3 DEF RoundUp
<1>5. n <= p /\ p < n + a
  BY <1>1, <1>2, <1>3
<1> QED
  BY <1>2, <1>3, <1>4, <1>5

\* A multiple that is large enough is no less than the one rounded to.
LEMMA RoundUpLeast ==
  ASSUME NEW n \in Nat, NEW a \in Nat \ {0}, NEW q \in Nat, n <= q * a
  PROVE  RoundUp(n, a) <= q * a
<1>1. PICK g \in Nat : RoundUp(n, a) = g * a
  BY RoundUpIs
<1>2. PICK p \in Nat, r \in Nat : p = g * a /\ r = q * a
  OBVIOUS
<1>3. p < n + a /\ n <= r
  BY <1>1, <1>2, RoundUpIs
<1>4. CASE q < g
  <2>1. r + a <= p
    BY <1>2, <1>4, Multiples
  <2> QED
    BY <1>3, <2>1
<1>5. CASE g < q
  <2>1. p + a <= r
    BY <1>2, <1>5, Multiples
  <2> QED
    BY <1>1, <1>2, <2>1
<1>6. CASE g = q
  BY <1>1, <1>6, <1>2
<1> QED
  BY <1>4, <1>5, <1>6

LEMMA RoundUpRises ==
  ASSUME NEW m \in Nat, NEW n \in Nat, m <= n, NEW a \in Nat \ {0}
  PROVE  RoundUp(m, a) <= RoundUp(n, a)
<1>1. PICK g \in Nat : RoundUp(n, a) = g * a
  BY RoundUpIs
<1>2. m <= g * a
  <2>1. n <= RoundUp(n, a) /\ RoundUp(n, a) \in Nat
    BY RoundUpIs
  <2> QED
    BY <1>1, <2>1
<1> QED
  BY <1>1, <1>2, RoundUpLeast

LEMMA DivisionRises ==
  ASSUME NEW m \in Nat, NEW n \in Nat, m <= n, NEW d \in Nat \ {0}
  PROVE  m \div d \in Nat /\ n \div d \in Nat /\ m \div d <= n \div d
<1>1. PICK p \in Nat, q \in Nat : p = m \div d /\ q = n \div d
  BY Division
<1>2. PICK pd \in Nat, qd \in Nat : pd = p * d /\ qd = q * d
  OBVIOUS
<1>3. pd <= m /\ n < qd + d
  <2>1. m % d \in 0 .. (d - 1) /\ m = pd + (m % d)
    BY <1>1, <1>2, Division
  <2>2. n % d \in 0 .. (d - 1) /\ n = qd + (n % d)
    BY <1>1, <1>2, Division
  <2> QED
    BY <2>1, <2>2
<1>4. CASE q < p
  <2>1. qd + d <= pd
    BY <1>2, <1>4, Multiples
  <2> QED
    BY <1>3, <2>1
<1> QED
  BY <1>1, <1>4
----------------------------------------------------------------------------
(* The sizes of the classes. *)

LEMMA PowersOfTwo == \A k \in 0 .. 17 : 2 ^ k \in Nat \ {0}
<1> SUFFICES ASSUME NEW k \in 0 .. 17 PROVE 2 ^ k \in Nat \ {0}
  OBVIOUS
<1>1. \/ k = 0 \/ k = 1 \/ k = 2 \/ k = 3 \/ k = 4 \/ k = 5
      \/ k = 6 \/ k = 7 \/ k = 8 \/ k = 9 \/ k = 10 \/ k = 11
      \/ k = 12 \/ k = 13 \/ k = 14 \/ k = 15 \/ k = 16 \/ k = 17
  OBVIOUS
<1>2. 2 ^ k \in {2 ^ 0, 2 ^ 1, 2 ^ 2, 2 ^ 3, 2 ^ 4, 2 ^ 5, 2 ^ 6, 2 ^ 7, 2 ^ 8,
               2 ^ 9, 2 ^ 10, 2 ^ 11, 2 ^ 12, 2 ^ 13, 2 ^ 14, 2 ^ 15, 2 ^ 16, 2 ^ 17}
  BY <1>1, Zenon
<1>3. {2 ^ 0, 2 ^ 1, 2 ^ 2, 2 ^ 3, 2 ^ 4, 2 ^ 5, 2 ^ 6, 2 ^ 7, 2 ^ 8,
       2 ^ 9, 2 ^ 10, 2 ^ 11, 2 ^ 12, 2 ^ 13, 2 ^ 14, 2 ^ 15, 2 ^ 16, 2 ^ 17} \subseteq Nat \ {0}
  OBVIOUS
<1> QED
  BY <1>2, <1>3

LEMMA ClassSize ==
  ASSUME NEW g \in 0 .. 17, NEW d \in 0 .. 17, NEW n \in Nat
  PROVE  SC(g, d, n) \in Nat \ {0}
<1>1. PICK p \in Nat \ {0}, q \in Nat \ {0} : p = 2 ^ g /\ q = 2 ^ d
  BY PowersOfTwo
<1>2. PICK r \in Nat : r = n * q
  OBVIOUS
<1>3. SC(g, d, n) = p + r
  BY <1>1, <1>2 DEF SC
<1> QED
  BY <1>3

LEMMA ClassSizes ==
  /\ SmallIdx = 1 .. 39
  /\ SIZE_CLASSES \in [SmallIdx -> Nat \ {0}]
  /\ SIZE_CLASSES[39] = MAX_SZ
  /\ MAX_SZ \in Nat
<1>1. SmallIdx = 1 .. 39
  BY DEF SmallIdx, MAX_SZ_IDX
<1>2. ASSUME NEW i \in SmallIdx PROVE SIZE_CLASSES[i] \in Nat \ {0}
  <2>1. CASE i < 5
    <3>1. SIZE_CLASSES[i] = SC(3, 3, i - 1) /\ i - 1 \in Nat /\ 3 \in 0 .. 17
      BY <1>1, <2>1 DEF SIZE_CLASSES
    <3> QED
      BY <3>1, ClassSize
  <2>2. CASE ~(i < 5)
    <3>1. PICK q : q = (i - 5) \div 4
      OBVIOUS
    <3>2. q \in 0 .. 8
      BY <1>1, <2>2, <3>1
    <3>3. PICK r : r = (i - 5) % 4
      OBVIOUS
    <3>4. r \in 0 .. 3
      BY <1>1, <2>2, <3>3
    <3>5. SIZE_CLASSES[i] = SC(5 + q, 3 + q, r + 1)
      BY <2>2, <3>1, <3>3 DEF SIZE_CLASSES
    <3>6. 5 + q \in 0 .. 17 /\ 3 + q \in 0 .. 17 /\ r + 1 \in Nat
      BY <3>2, <3>4
    <3> QED
      BY <3>5, <3>6, ClassSize
  <2> QED
    BY <2>1, <2>2
<1>3. SIZE_CLASSES[39] = MAX_SZ
  <2>1. /\ ~(39 < 5) /\ 5 + (39 - 5) \div 4 = 13 /\ 3 + (39 - 5) \div 4 = 11
        /\ ((39 - 5) % 4) + 1 = 3
    OBVIOUS
  <2> QED
    BY <1>1, <2>1 DEF SIZE_CLASSES, MAX_SZ
<1>4. MAX_SZ \in Nat
  BY ClassSize DEF MAX_SZ
<1>5. SIZE_CLASSES \in [SmallIdx -> Nat \ {0}]
  <2>1. \A i \in SmallIdx : SIZE_CLASSES[i] \in Nat \ {0}
    BY <1>2
  <2>2. SIZE_CLASSES = [i \in SmallIdx |-> SIZE_CLASSES[i]]
    BY DEF SIZE_CLASSES
  <2> QED
    BY <2>1, <2>2
<1> QED
  BY <1>1, <1>3, <1>4, <1>5

LEMMA PageClassSizes ==
  /\ PageIdx = 0 .. 62
  /\ PSIZE_CLASSES \in [PageIdx -> Nat]
<1>1. PageIdx = 0 .. 62
  BY DEF PageIdx, MAX_PSZ_IDX
<1>2. ASSUME NEW i \in PageIdx PROVE PSIZE_CLASSES[i] \in Nat
  <2>1. CASE i = 62
    BY <1>1, <2>1 DEF PSIZE_CLASSES, MAX_PSZ_IDX
  <2>2. CASE i < 4
    BY <1>1, <2>2 DEF PSIZE_CLASSES, MAX_PSZ_IDX
  <2>3. CASE i # 62 /\ ~(i < 4)
    <3>1. PICK q : q = (i - 4) \div 4
      OBVIOUS
    <3>2. q \in 0 .. 14
      BY <1>1, <2>3, <3>1
    <3>3. PICK r : r = (i - 4) % 4
      OBVIOUS
    <3>4. r \in 0 .. 3
      BY <1>1, <2>3, <3>3
    <3>5. PSIZE_CLASSES[i] = SC(2 + q, q, r + 1)
      BY <2>3, <3>1, <3>3 DEF PSIZE_CLASSES, MAX_PSZ_IDX
    <3>6. 2 + q \in 0 .. 17 /\ q \in 0 .. 17 /\ r + 1 \in Nat
      BY <3>2, <3>4
    <3> QED
      BY <3>5, <3>6, ClassSize
  <2> QED
    BY <2>1, <2>2, <2>3
<1>3. PSIZE_CLASSES = [i \in PageIdx |-> PSIZE_CLASSES[i]]
  BY DEF PSIZE_CLASSES
<1> QED
  BY <1>1, <1>2, <1>3
----------------------------------------------------------------------------
(* The lookup tables. *)

LEMMA Extended ==
  ASSUME NEW f, NEW first \in Nat, NEW n \in Nat, first <= n, DOMAIN f = first .. n - 1
  PROVE  NextIdx(f, first) = n
<1>1. Cardinality(first .. n - 1) = n - first
  BY FS_Interval
<1> QED
  BY <1>1 DEF NextIdx

LEMMA Widened ==
  ASSUME NEW f, NEW n \in Nat, NEW v, NEW first \in Nat, first <= n, DOMAIN f = first .. n - 1
  PROVE  /\ DOMAIN With(f, n, v) = first .. n
         /\ With(f, n, v)[n] = v
         /\ \A j \in first .. n - 1 : With(f, n, v)[j] = f[j]
<1>1. DOMAIN f \cup {n} = first .. n
  OBVIOUS
<1> QED
  BY <1>1 DEF With

\* The new entry is past its class, and no less than the last one.
LEMMA NewEntry ==
  ASSUME NEW f, NEW first \in Nat, NEW n \in Nat, first <= n,
         DOMAIN f = first .. n - 1, NEW sizes, \A c \in first .. n : sizes[c] \in Nat,
         Covers(f, sizes)
  PROVE  Covers(With(f, n, FilledBy(f, sizes[n])), sizes)
<1>1. \A c \in first .. n - 1 :
        /\ f[c] \in Nat /\ sizes[c] < f[c]
        /\ f[c] = sizes[c] + 1 \/ (c - 1 \in first .. n - 1 /\ f[c] = f[c - 1])
        /\ c - 1 \in first .. n - 1 => f[c - 1] <= f[c]
  BY DEF Covers
<1>2. PICK s \in Nat : s = sizes[n]
  OBVIOUS
<1>3. PICK S : S = {s + 1} \cup {f[c] : c \in DOMAIN f}
  OBVIOUS
<1>4. S \in SUBSET Nat /\ S # {}
  BY <1>1, <1>3
<1>5. \A k \in Nat : k \in first .. n - 1 => \A c \in first .. n - 1 : c <= k => f[c] <= f[k]
  <2> DEFINE Bad == {k \in Nat : /\ k \in first .. n - 1
                                 /\ \E c \in first .. n - 1 : c <= k /\ ~(f[c] <= f[k])}
  <2> SUFFICES Bad = {}
    OBVIOUS
  <2> SUFFICES ASSUME Bad # {} PROVE FALSE
    OBVIOUS
  <2>1. PICK k \in Bad : \A j \in Bad : k <= j
    <3>1. Bad \in SUBSET Nat
      OBVIOUS
    <3> HIDE DEF Bad
    <3> QED
      BY <3>1, LeastNumber
  <2>2. PICK c \in first .. n - 1 : c <= k /\ ~(f[c] <= f[k])
    OBVIOUS
  <2>3. c # k /\ k - 1 \in first .. n - 1 /\ c <= k - 1 /\ k - 1 \in Nat
    BY <1>1, <2>2
  <2>4. f[c] <= f[k - 1]
    <3>1. k - 1 \notin Bad
      BY <2>1, <2>3
    <3> QED
      BY <2>2, <2>3, <3>1
  <2>5. f[k - 1] <= f[k]
    BY <1>1, <2>3
  <2> QED
    BY <1>1, <2>2, <2>3, <2>4, <2>5
<1>6. PICK v : v = FilledBy(f, sizes[n])
  OBVIOUS
<1>7. v = Max(S)
  BY <1>2, <1>3, <1>6 DEF FilledBy
<1>8. /\ v \in Nat /\ s < v
      /\ v = s + 1 \/ (n - 1 \in first .. n - 1 /\ v = f[n - 1])
      /\ n - 1 \in first .. n - 1 => f[n - 1] <= v
  <2>1. CASE n = first
    <3>1. S = {s + 1}
      BY <1>3, <2>1
    <3>2. Max(S) = s + 1
      BY <1>4, <3>1, MaxIs
    <3> QED
      BY <1>7, <2>1, <3>2
  <2>2. CASE n # first
    <3>1. n - 1 \in first .. n - 1 /\ n - 1 \in Nat
      BY <2>2
    <3>2. PICK w \in Nat : w = f[n - 1]
      BY <1>1, <3>1
    <3>3. \A y \in S : y = s + 1 \/ y <= w
      BY <1>3, <1>5, <3>1, <3>2
    <3>4. w \in S /\ s + 1 \in S
      BY <1>3, <3>1, <3>2
    <3>5. CASE w <= s + 1
      <4>1. \A y \in S : y <= s + 1
        BY <1>4, <3>3, <3>5
      <4>2. Max(S) = s + 1
        BY <1>4, <3>4, <4>1, MaxIs
      <4> QED
        BY <1>7, <3>2, <3>5, <4>2
    <3>6. CASE s + 1 < w
      <4>1. \A y \in S : y <= w
        BY <1>4, <3>3, <3>6
      <4>2. Max(S) = w
        BY <1>4, <3>4, <4>1, MaxIs
      <4> QED
        BY <1>7, <3>1, <3>2, <3>6, <4>2
    <3> QED
      BY <3>5, <3>6
  <2> QED
    BY <2>1, <2>2
<1>9. PICK g : g = With(f, n, v)
  OBVIOUS
<1>10. DOMAIN g = first .. n /\ g[n] = v /\ \A j \in first .. n - 1 : g[j] = f[j]
  BY <1>9, Widened
<1>11. ASSUME NEW c \in first .. n
       PROVE  /\ g[c] \in Nat /\ sizes[c] < g[c]
              /\ g[c] = sizes[c] + 1 \/ (c - 1 \in first .. n /\ g[c] = g[c - 1])
              /\ c - 1 \in first .. n => g[c - 1] <= g[c]
  <2>1. CASE c = n
    <3>1. g[c] = v /\ sizes[c] = s
      BY <1>2, <1>10, <2>1
    <3>2. n - 1 \in first .. n - 1 <=> c - 1 \in first .. n
      BY <2>1
    <3>3. n - 1 \in first .. n - 1 => g[c - 1] = f[n - 1]
      BY <1>10, <2>1
    <3> QED
      BY <1>8, <3>1, <3>2, <3>3
  <2>2. CASE c # n
    <3>1. c \in first .. n - 1 /\ g[c] = f[c]
      BY <1>10, <2>2
    <3>2. c - 1 \in first .. n <=> c - 1 \in first .. n - 1
      BY <3>1
    <3>3. c - 1 \in first .. n - 1 => g[c - 1] = f[c - 1]
      BY <1>10
    <3> QED
      BY <1>1, <3>1, <3>2, <3>3
  <2> QED
    BY <2>1, <2>2
<1>12. Covers(g, sizes)
  BY <1>10, <1>11 DEF Covers
<1> QED
  BY <1>6, <1>9, <1>12

\* The least entry that is past the number has the least class that reaches it.
Table(f, first, n, sizes) ==
  /\ DOMAIN f = first .. n - 1
  /\ \A c \in first .. n - 1 : sizes[c] \in Nat
  /\ Covers(f, sizes)

Reached(f, x) == Min({c \in DOMAIN f : x < f[c]})

LEMMA LeastReaches ==
  ASSUME NEW f, NEW first \in Nat, NEW n \in Nat, NEW sizes, Table(f, first, n, sizes),
         NEW x \in Nat, \E top \in first .. n - 1 : x <= sizes[top]
  PROVE  /\ Reached(f, x) \in first .. n - 1
         /\ x <= sizes[Reached(f, x)]
         /\ \A c \in first .. Reached(f, x) - 1 : sizes[c] < x
<1> USE DEF Table
<1> PICK k : k = Reached(f, x)
  OBVIOUS
<1>0. PICK top \in first .. n - 1 : x <= sizes[top]
  OBVIOUS
<1>1. PICK R : R = {c \in DOMAIN f : x < f[c]}
  OBVIOUS
<1>2. \A c \in first .. n - 1 :
        /\ f[c] \in Nat /\ sizes[c] < f[c]
        /\ f[c] = sizes[c] + 1 \/ (c - 1 \in first .. n - 1 /\ f[c] = f[c - 1])
  BY DEF Covers
<1>3. top \in R /\ R \in SUBSET Nat
  BY <1>0, <1>1, <1>2
<1>4. k \in R /\ \A c \in R : k <= c
  BY <1>1, <1>3, MinIs DEF Reached
<1>5. k \in first .. n - 1 /\ x < f[k] /\ k \in Nat
  BY <1>1, <1>4
<1>6. f[k] = sizes[k] + 1
  <2>1. CASE k - 1 \in first .. n - 1 /\ f[k] = f[k - 1]
    <3>1. k - 1 \in R
      BY <1>1, <1>5, <2>1
    <3> QED
      BY <1>4, <1>5, <3>1
  <2> QED
    BY <1>2, <1>5, <2>1
<1>7. ASSUME NEW c \in first .. k - 1 PROVE sizes[c] < x
  <2>1. c \notin R /\ c \in first .. n - 1
    BY <1>4, <1>5
  <2> QED
    BY <1>1, <1>2, <2>1
<1> QED
  BY <1>2, <1>5, <1>6, <1>7
LEMMA LookupTables ==
  ASSUME TablesInv, BootLookup
  PROVE  TablesInv'
<1>1. PICK n \in 1 .. 39 : DOMAIN filled = 1 .. n - 1
  <2>1. \E n \in 1 .. MAX_SZ_IDX : DOMAIN filled = 1 .. n - 1 /\ n < MAX_SZ_IDX
    BY DEF TablesInv, Grows, BootLookup
  <2>2. \A n \in 1 .. MAX_SZ_IDX : n < MAX_SZ_IDX => n \in 1 .. 39
    BY DEF MAX_SZ_IDX
  <2> QED
    BY <2>1, <2>2
<1>2. NextIdx(filled, 1) = n
  BY <1>1, Extended
<1>3. /\ phase = "small"
      /\ filled' = With(filled, n, FilledBy(filled, SIZE_CLASSES[n]))
      /\ phase' = IF n < 39 THEN "small" ELSE "pages"
      /\ UNCHANGED <<sizeclasses, pfilled>>
  BY <1>2 DEF BootLookup, MAX_SZ_IDX
<1>4. DOMAIN filled' = 1 .. n
  <2>1. PICK v : v = FilledBy(filled, SIZE_CLASSES[n])
    OBVIOUS
  <2>2. 1 \in Nat /\ n \in Nat /\ 1 <= n
    OBVIOUS
  <2>3. DOMAIN With(filled, n, v) = 1 .. n
    BY <1>1, <2>2, Widened
  <2> QED
    BY <1>3, <2>1, <2>3
<1>5. Grows(filled, 1, MAX_SZ_IDX, "small", {})'
  <2>1. PICK m \in 2 .. 40 : m = n + 1
    OBVIOUS
  <2>2. DOMAIN filled' = 1 .. m - 1 /\ (phase' = "small" => m < 40) /\ (phase' # "small" => m = 40)
    BY <1>3, <1>4, <2>1
  <2>3. m \in 1 .. MAX_SZ_IDX /\ MAX_SZ_IDX = 40
    BY DEF MAX_SZ_IDX
  <2> QED
    BY <2>2, <2>3 DEF Grows
<1>6. /\ Grows(pfilled, 0, MAX_PSZ_IDX, "pages", {"small"})'
      /\ Grows(sizeclasses, 1, MAX_SZ_IDX, "geometry", {"small", "pages"})'
  BY <1>3 DEF TablesInv, Grows, MAX_SZ_IDX, MAX_PSZ_IDX
<1>7. Covers(filled', SIZE_CLASSES)
  <2>1. \A c \in 1 .. n : SIZE_CLASSES[c] \in Nat
    BY ClassSizes
  <2> QED
    BY <1>1, <1>3, <2>1, NewEntry DEF TablesInv
<1>8. Covers(pfilled', PSIZE_CLASSES)
  BY <1>3 DEF TablesInv
<1> QED
  BY <1>3, <1>5, <1>6, <1>7, <1>8 DEF TablesInv

LEMMA PagesTables ==
  ASSUME TablesInv, BootPages
  PROVE  TablesInv'
<1>1. PICK n \in 0 .. 62 : DOMAIN pfilled = 0 .. n - 1
  <2>1. \E n \in 0 .. MAX_PSZ_IDX : DOMAIN pfilled = 0 .. n - 1 /\ n < MAX_PSZ_IDX
    BY DEF TablesInv, Grows, BootPages
  <2>2. \A n \in 0 .. MAX_PSZ_IDX : n < MAX_PSZ_IDX => n \in 0 .. 62
    BY DEF MAX_PSZ_IDX
  <2> QED
    BY <2>1, <2>2
<1>2. NextIdx(pfilled, 0) = n
  BY <1>1, Extended
<1>3. /\ phase = "pages"
      /\ pfilled' = With(pfilled, n, FilledBy(pfilled, PSIZE_CLASSES[n]))
      /\ phase' = IF n < 62 THEN "pages" ELSE "geometry"
      /\ UNCHANGED <<sizeclasses, filled>>
  BY <1>2 DEF BootPages, MAX_PSZ_IDX
<1>4. DOMAIN pfilled' = 0 .. n
  <2>1. PICK v : v = FilledBy(pfilled, PSIZE_CLASSES[n])
    OBVIOUS
  <2>2. 0 \in Nat /\ n \in Nat /\ 0 <= n
    OBVIOUS
  <2>3. DOMAIN With(pfilled, n, v) = 0 .. n
    BY <1>1, <2>2, Widened
  <2> QED
    BY <1>3, <2>1, <2>3
<1>5. Grows(pfilled, 0, MAX_PSZ_IDX, "pages", {"small"})'
  <2>1. PICK m \in 1 .. 63 : m = n + 1
    OBVIOUS
  <2>2. /\ DOMAIN pfilled' = 0 .. m - 1 /\ phase' # "small"
        /\ (phase' = "pages" => m < 63) /\ (phase' # "pages" => m = 63)
    BY <1>3, <1>4, <2>1
  <2>3. m \in 0 .. MAX_PSZ_IDX /\ MAX_PSZ_IDX = 63
    BY DEF MAX_PSZ_IDX
  <2> QED
    BY <2>2, <2>3 DEF Grows
<1>6. /\ Grows(filled, 1, MAX_SZ_IDX, "small", {})'
      /\ Grows(sizeclasses, 1, MAX_SZ_IDX, "geometry", {"small", "pages"})'
  BY <1>3 DEF TablesInv, Grows, MAX_SZ_IDX, MAX_PSZ_IDX
<1>7. Covers(pfilled', PSIZE_CLASSES)
  <2>1. \A c \in 0 .. n : PSIZE_CLASSES[c] \in Nat
    BY PageClassSizes
  <2> QED
    BY <1>1, <1>3, <2>1, NewEntry DEF TablesInv
<1>8. Covers(filled', SIZE_CLASSES)
  BY <1>3 DEF TablesInv
<1> QED
  BY <1>3, <1>5, <1>6, <1>7, <1>8 DEF TablesInv

\* The class that is done, and its layout.
LEMMA GeometryStep ==
  ASSUME TablesInv, BootGeometry
  PROVE  \E n \in SmallIdx :
           /\ DOMAIN sizeclasses = 1 .. n - 1 /\ DOMAIN sizeclasses' = 1 .. n
           /\ sizeclasses'[n] = Fresh(SIZE_CLASSES[n])
           /\ \A j \in 1 .. n - 1 : sizeclasses'[j] = sizeclasses[j]
           /\ meta_size' = Max({meta_size, get_meta_size(Fresh(SIZE_CLASSES[n]).nbits + 1)})
           /\ phase' = IF n < 39 THEN "geometry" ELSE "ready"
<1>1. PICK n \in 1 .. 39 : DOMAIN sizeclasses = 1 .. n - 1
  <2>1. \E n \in 1 .. MAX_SZ_IDX : DOMAIN sizeclasses = 1 .. n - 1 /\ n < MAX_SZ_IDX
    BY DEF TablesInv, Grows, BootGeometry
  <2>2. \A n \in 1 .. MAX_SZ_IDX : n < MAX_SZ_IDX => n \in 1 .. 39
    BY DEF MAX_SZ_IDX
  <2> QED
    BY <2>1, <2>2
<1>2. NextIdx(sizeclasses, 1) = n
  BY <1>1, Extended
<1>3. /\ phase = "geometry"
      /\ sizeclasses' = With(sizeclasses, n, Fresh(SIZE_CLASSES[n]))
      /\ meta_size' = Max({meta_size, get_meta_size(Fresh(SIZE_CLASSES[n]).nbits + 1)})
      /\ phase' = IF n < 39 THEN "geometry" ELSE "ready"
  BY <1>2 DEF BootGeometry, MAX_SZ_IDX
<1>4. PICK v : v = Fresh(SIZE_CLASSES[n])
  OBVIOUS
<1>5. 1 \in Nat /\ n \in Nat /\ 1 <= n
  OBVIOUS
<1>6. /\ DOMAIN With(sizeclasses, n, v) = 1 .. n
      /\ With(sizeclasses, n, v)[n] = v
      /\ \A j \in 1 .. n - 1 : With(sizeclasses, n, v)[j] = sizeclasses[j]
  BY <1>1, <1>5, Widened
<1>7. n \in SmallIdx
  BY ClassSizes
<1> QED
  BY <1>1, <1>3, <1>4, <1>6, <1>7

LEMMA GeometryTables ==
  ASSUME TablesInv, BootGeometry
  PROVE  TablesInv'
<1>1. PICK n \in SmallIdx :
        /\ DOMAIN sizeclasses' = 1 .. n
        /\ phase' = IF n < 39 THEN "geometry" ELSE "ready"
  BY GeometryStep
<1>2. n \in 1 .. 39
  BY ClassSizes
<1>3. phase = "geometry" /\ UNCHANGED <<filled, pfilled>>
  BY DEF BootGeometry
<1>4. Grows(sizeclasses, 1, MAX_SZ_IDX, "geometry", {"small", "pages"})'
  <2>1. PICK m \in 2 .. 40 : m = n + 1
    BY <1>2
  <2>2. /\ DOMAIN sizeclasses' = 1 .. m - 1 /\ phase' \in {"geometry", "ready"}
        /\ (phase' = "geometry" => m < 40) /\ (phase' = "ready" => m = 40)
    BY <1>1, <1>2, <2>1
  <2>3. m \in 1 .. MAX_SZ_IDX /\ MAX_SZ_IDX = 40
    BY DEF MAX_SZ_IDX
  <2> QED
    BY <2>2, <2>3 DEF Grows
<1>5. /\ Grows(filled, 1, MAX_SZ_IDX, "small", {})'
      /\ Grows(pfilled, 0, MAX_PSZ_IDX, "pages", {"small"})'
  BY <1>1, <1>3 DEF TablesInv, Grows, MAX_SZ_IDX, MAX_PSZ_IDX
<1> QED
  BY <1>1, <1>3, <1>4, <1>5 DEF TablesInv

----------------------------------------------------------------------------
(* A request. *)

LEMMA ReadyTables ==
  ASSUME TablesInv, phase = "ready"
  PROVE  /\ DOMAIN filled = 1 .. 39 /\ Covers(filled, SIZE_CLASSES)
         /\ DOMAIN pfilled = 0 .. 62 /\ Covers(pfilled, PSIZE_CLASSES)
         /\ DOMAIN sizeclasses = SmallIdx
<1>1. /\ phase \notin {} \cup {"small"} /\ phase \notin {"small"} \cup {"pages"}
      /\ phase \notin {"small", "pages"} \cup {"geometry"}
  OBVIOUS
<1>2. \E n \in 1 .. 40 : DOMAIN filled = 1 .. n - 1 /\ n = 40
  BY <1>1 DEF TablesInv, Grows, MAX_SZ_IDX
<1>3. \E n \in 0 .. 63 : DOMAIN pfilled = 0 .. n - 1 /\ n = 63
  BY <1>1 DEF TablesInv, Grows, MAX_PSZ_IDX
<1>4. \E n \in 1 .. 40 : DOMAIN sizeclasses = 1 .. n - 1 /\ n = 40
  BY <1>1 DEF TablesInv, Grows, MAX_SZ_IDX
<1> QED
  BY <1>2, <1>3, <1>4, ClassSizes DEF TablesInv

LEMMA PagesWhole ==
  ASSUME NEW s \in Nat \ {0}
  PROVE  Pages(s) \in Nat /\ Pages(RoundUp(s, CACHELINE_SIZE)) = Pages(s)
<1> PICK C \in Nat \ {0}, P \in Nat \ {0} : C = CACHELINE_SIZE /\ P = PAGE_SIZE
  BY SizeAssumption
<1>1. PICK e \in Nat : P = e * C
  <2>1. P % C = 0
    BY PagesAssumption
  <2>2. P \div C \in Nat /\ P = (P \div C) * C + (P % C)
    BY Division
  <2>3. PICK e \in Nat : e = P \div C
    BY <2>2
  <2>4. e * C \in Nat
    OBVIOUS
  <2> QED
    BY <2>1, <2>2, <2>3, <2>4
<1>2. PICK r \in Nat : r = RoundUp(s, C) /\ s <= r
  BY RoundUpIs
<1>3. PICK q \in Nat, p \in Nat : q = Pages(s) /\ p = Pages(r)
  <2>1. \A n \in Nat : Pages(n) \in Nat
    <3> SUFFICES ASSUME NEW n \in Nat PROVE Pages(n) \in Nat
      OBVIOUS
    <3>1. PICK m \in Nat : m = n + P - 1
      OBVIOUS
    <3>2. m \div P \in Nat
      BY Division
    <3> QED
      BY <3>1, <3>2 DEF Pages
  <2> QED
    BY <2>1
<1>4. q * P = RoundUp(s, P) /\ p * P = RoundUp(r, P)
  BY <1>3 DEF RoundUp, Pages
<1>5. q <= p
  <2>1. PICK m \in Nat, n \in Nat : m = s + P - 1 /\ n = r + P - 1
    OBVIOUS
  <2>2. m <= n
    BY <1>2, <2>1
  <2>3. m \div P <= n \div P
    BY <2>2, DivisionRises
  <2> QED
    BY <1>3, <2>1, <2>3 DEF Pages
<1>6. p <= q
  <2>1. PICK a \in Nat : a = q * P /\ s <= a
    BY <1>4, RoundUpIs
  <2>2. a = (q * e) * C
    BY <1>1, <2>1
  <2>3. q * e \in Nat
    OBVIOUS
  <2>4. r <= a
    BY <1>2, <2>1, <2>2, <2>3, RoundUpLeast
  <2>5. RoundUp(r, P) <= q * P
    BY <2>1, <2>4, RoundUpLeast
  <2>6. CASE q < p
    <3>1. q * P + P <= p * P
      BY <2>6, Multiples
    <3>2. PICK b \in Nat : b = p * P
      OBVIOUS
    <3> QED
      BY <1>4, <2>1, <2>5, <3>1, <3>2
  <2> QED
    BY <2>6
<1> QED
  BY <1>2, <1>3, <1>5, <1>6

LEMMA RequestLeast ==
  ASSUME TablesInv, Request
  PROVE  /\ asked'.kind \in {"small", "large"}
         /\ asked'.kind = "small" => asked'.class \in SmallIdx
         /\ LookupLeast'
<1>1. PICK s \in Nat \ {0}, size \in Nat :
        /\ s \in Sizes
        /\ size = RoundUp(s, CACHELINE_SIZE) /\ s <= size
        /\ asked' = IF is_small_size(size)
                    THEN [kind |-> "small", size |-> s, class |-> get_sizeclass(size)]
                    ELSE [kind |-> "large", size |-> s, class |-> get_psizeclass(Pages(size))]
  <2>1. PICK s \in Sizes :
          asked' = IF is_small_size(RoundUp(s, CACHELINE_SIZE))
                   THEN [kind |-> "small", size |-> s,
                         class |-> get_sizeclass(RoundUp(s, CACHELINE_SIZE))]
                   ELSE [kind |-> "large", size |-> s,
                         class |-> get_psizeclass(Pages(RoundUp(s, CACHELINE_SIZE)))]
    BY DEF Request
  <2>2. s \in Nat \ {0} /\ CACHELINE_SIZE \in Nat \ {0}
    BY SizeAssumption
  <2> QED
    BY <2>1, <2>2, RoundUpIs
<1>2. phase = "ready"
  BY DEF Request
<1>3. /\ DOMAIN filled = 1 .. 39 /\ Covers(filled, SIZE_CLASSES)
      /\ DOMAIN pfilled = 0 .. 62 /\ Covers(pfilled, PSIZE_CLASSES)
  BY <1>2, ReadyTables
<1>4. CASE is_small_size(size)
  <2>1. PICK k : k = get_sizeclass(size)
    OBVIOUS
  <2>2. asked' = [kind |-> "small", size |-> s, class |-> k]
    BY <1>1, <1>4, <2>1
  <2>3. size <= SIZE_CLASSES[39]
    BY <1>4, ClassSizes DEF is_small_size
  <2>4. /\ k \in 1 .. 39
        /\ size <= SIZE_CLASSES[k]
        /\ \A c \in 1 .. k - 1 : SIZE_CLASSES[c] < size
    <3>1. \A c \in 1 .. 40 - 1 : SIZE_CLASSES[c] \in Nat
      BY ClassSizes
    <3>2. k = Reached(filled, size)
      BY <2>1 DEF get_sizeclass, Reached
    <3>3. DOMAIN filled = 1 .. 40 - 1 /\ 39 \in 1 .. 40 - 1 /\ 40 \in Nat /\ 1 \in Nat
      BY <1>3
    <3>4. PICK n \in Nat : n = 40
      OBVIOUS
    <3>5. Table(filled, 1, n, SIZE_CLASSES) /\ 39 \in 1 .. n - 1
      BY <1>3, <3>1, <3>3, <3>4 DEF Table
    <3>7. (\E top \in 1 .. n - 1 : size <= SIZE_CLASSES[top]) /\ 1 \in Nat
      BY <2>3, <3>5
    <3>6. k \in 1 .. n - 1 /\ size <= SIZE_CLASSES[k] /\ \A c \in 1 .. k - 1 : SIZE_CLASSES[c] < size
      BY <3>2, <3>5, <3>7, LeastReaches
    <3> QED
      BY <3>4, <3>6
  <2>5. s <= SIZE_CLASSES[k]
    BY <1>1, <2>4, ClassSizes
  <2> QED
    BY <1>1, <2>2, <2>4, <2>5, ClassSizes DEF LookupLeast
<1>5. CASE ~is_small_size(size)
  <2>1. PICK x \in Nat : x = Pages(size) /\ x = Pages(s)
    BY <1>1, PagesWhole
  <2>2. PICK k : k = get_psizeclass(x)
    OBVIOUS
  <2>3. asked' = [kind |-> "large", size |-> s, class |-> k]
    BY <1>1, <1>5, <2>1, <2>2
  <2>4. x <= PSIZE_CLASSES[61]
    BY <1>1, <2>1, PagesAssumption DEF MAX_PSZ_IDX
  <2>5. k = Reached(pfilled, x)
    <3>1. 61 \in {c \in DOMAIN pfilled : x < pfilled[c]}
      <4>1. PSIZE_CLASSES[61] < pfilled[61] /\ pfilled[61] \in Nat /\ PSIZE_CLASSES[61] \in Nat
        BY <1>3, PageClassSizes DEF Covers
      <4> QED
        BY <1>3, <2>4, <4>1
    <3> QED
      BY <2>2, <3>1 DEF get_psizeclass, Reached
  <2>6. /\ k \in 0 .. 62
        /\ x <= PSIZE_CLASSES[k]
        /\ \A c \in 0 .. k - 1 : PSIZE_CLASSES[c] < x
    <3>1. \A c \in 0 .. 63 - 1 : PSIZE_CLASSES[c] \in Nat
      BY PageClassSizes
    <3>2. DOMAIN pfilled = 0 .. 63 - 1 /\ 61 \in 0 .. 63 - 1 /\ 63 \in Nat /\ 0 \in Nat
      BY <1>3
    <3>3. PICK n \in Nat : n = 63
      OBVIOUS
    <3>4. Table(pfilled, 0, n, PSIZE_CLASSES) /\ 61 \in 0 .. n - 1
      BY <1>3, <3>1, <3>2, <3>3 DEF Table
    <3>6. (\E top \in 0 .. n - 1 : x <= PSIZE_CLASSES[top]) /\ 0 \in Nat
      BY <2>4, <3>4
    <3>5. k \in 0 .. n - 1 /\ x <= PSIZE_CLASSES[k] /\ \A c \in 0 .. k - 1 : PSIZE_CLASSES[c] < x
      BY <2>5, <3>4, <3>6, LeastReaches
    <3> QED
      BY <3>3, <3>5
  <2> QED
    BY <2>1, <2>3, <2>6 DEF LookupLeast
<1> QED
  BY <1>4, <1>5
----------------------------------------------------------------------------
(* The layouts. *)

LEMMA Constants ==
  /\ {SLAB_SIZE, CACHELINE_SIZE, NBANKS, PAGE_SIZE, EntryBytes, LowDen} \subseteq Nat \ {0}
  /\ CACHELINE_SIZE * NBANKS \in Nat \ {0}
  /\ LowNum \in Nat /\ head_size \in Nat /\ head_size <= SLAB_SIZE
<1>1. /\ {SLAB_SIZE, CACHELINE_SIZE, NBANKS, PAGE_SIZE, EntryBytes, LowDen} \subseteq Nat \ {0}
      /\ HeadBytes \in Nat /\ LowNum \in Nat
  BY SizeAssumption
<1>2. CACHELINE_SIZE = 64
  BY RoomAssumption
<1>3. CACHELINE_SIZE * NBANKS \in Nat \ {0}
  BY <1>1, <1>2
<1>4. head_size \in Nat
  BY <1>1, RoundUpIs DEF head_size
<1> QED
  BY <1>1, <1>3, <1>4, RoomAssumption

LEMMA MetaSize ==
  ASSUME NEW n \in Nat
  PROVE  /\ get_meta_size(n) \in Nat
         /\ n <= 8 * get_meta_size(n)
         /\ \E g \in Nat : get_meta_size(n) = 64 * (g * NBANKS)
         /\ \A m \in Nat : m <= n => get_meta_size(m) <= get_meta_size(n)
<1>1. PICK a \in Nat \ {0} : a = CACHELINE_SIZE * NBANKS
  BY Constants
<1>2. PICK q \in Nat : q = (n + 7) \div 8 /\ n <= 8 * q
  OBVIOUS
<1>3. get_meta_size(n) = RoundUp(q, a)
  BY <1>1, <1>2 DEF get_meta_size
<1>4. RoundUp(q, a) \in Nat /\ q <= RoundUp(q, a)
  BY RoundUpIs
<1>5. PICK g \in Nat : RoundUp(q, a) = g * a
  BY RoundUpIs
<1>6. g * a = 64 * (g * NBANKS)
  <2>1. NBANKS \in Nat /\ CACHELINE_SIZE = 64
    BY Constants, RoomAssumption
  <2>2. g * NBANKS \in Nat /\ g * (64 * NBANKS) = 64 * (g * NBANKS)
    BY <2>1
  <2> QED
    BY <1>1, <2>1, <2>2
<1>7. ASSUME NEW m \in Nat, m <= n PROVE get_meta_size(m) <= get_meta_size(n)
  <2>1. PICK p \in Nat : p = (m + 7) \div 8
    OBVIOUS
  <2>2. p <= q
    BY <1>2, <1>7, <2>1
  <2>3. get_meta_size(m) = RoundUp(p, a)
    BY <1>1, <2>1 DEF get_meta_size
  <2> QED
    BY <1>3, <2>2, <2>3, RoundUpRises
<1>8. n <= 8 * RoundUp(q, a)
  BY <1>2, <1>4
<1> QED
  BY <1>3, <1>4, <1>5, <1>6, <1>7, <1>8

\* The bit of a block is in the bytes kept for them.
LEMMA BitInside ==
  ASSUME NEW n \in Nat, NEW bid \in 0 .. n - 1
  PROVE  MetaByte(bid) \in Nat /\ MetaByte(bid) < get_meta_size(n)
<1>1. PICK g \in Nat : get_meta_size(n) = 64 * (g * NBANKS) /\ n <= 8 * get_meta_size(n)
  BY MetaSize
<1>2. NBANKS \in Nat \ {0} /\ 512 \in Nat \ {0} /\ bid \in Nat
  BY Constants
<1>3. PICK h \in Nat : h = g * NBANKS
  BY <1>2
<1>4. (g * 512) * NBANKS = 512 * h /\ (g * NBANKS) * 512 = 512 * h
  <2>1. (g * 512) * NBANKS = 512 * (g * NBANKS)
    BY <1>2
  <2> QED
    BY <1>3, <2>1
<1>5. bid < (g * 512) * NBANKS
  BY <1>1, <1>3, <1>4
<1>6. PICK s : s = Spread(512, NBANKS, bid)
  OBVIOUS
<1>0. PICK N \in Nat \ {0} : N = 512
  OBVIOUS
<1>7. s < 512 * h
  <2>1. bid < (g * N) * NBANKS
    BY <1>5, <1>0
  <2>2. Spread(N, NBANKS, bid) < (g * NBANKS) * N
    BY <1>2, <2>1, SpreadInGroup
  <2> QED
    BY <1>4, <1>6, <1>0, <2>2
<1>8. s \in Nat
  <2>1. PICK q \in Nat, j \in 0 .. (N - 1), k \in 0 .. (NBANKS - 1) :
          /\ bid = (q * N + j) * NBANKS + k
          /\ Spread(N, NBANKS, bid) = (q * NBANKS + k) * N + j
    <3>1. NBANKS \in Nat \ {0} /\ bid \in Nat /\ N \in Nat \ {0}
      BY <1>2
    <3> QED
      BY <3>1, Parts, Zenon
  <2>2. PICK p \in Nat : p = q * NBANKS + k
    BY <1>2
  <2> QED
    BY <1>6, <1>0, <2>1, <2>2
<1>9. s \div 8 \in Nat /\ s \div 8 < 64 * h
  BY <1>7, <1>8
<1>10. MetaByte(bid) = s \div 8
  BY <1>6 DEF MetaByte, bid_to_mid
<1> QED
  BY <1>1, <1>3, <1>9, <1>10

\* The largest number of blocks that fit beside the other data.
LEMMA MostBlocksIs ==
  ASSUME NEW b \in Nat \ {0}, NEW extra \in [Candidates(b) -> Nat], extra[0] <= SLAB_SIZE,
         NEW n, n = MostBlocks(b, extra)
  PROVE  /\ n \in Candidates(b) /\ n \in Nat
         /\ n * b + extra[n] <= SLAB_SIZE
         /\ \A m \in Candidates(b) : m > n => ~(m * b + extra[m] <= SLAB_SIZE)
<1> DEFINE fit(k) == k * b + extra[k] <= SLAB_SIZE
<1>1. PICK top \in Nat : top = SLAB_SIZE \div b + 1
  BY Constants, Division
<1>2. Candidates(b) = 0 .. top /\ DOMAIN extra = 0 .. top
  BY <1>1 DEF Candidates
<1>3. PICK S \in SUBSET (0 .. top) : S = {k \in 0 .. top : fit(k)}
  OBVIOUS
<1>4. 0 \in S
  BY <1>2, <1>3
<1>5. PICK x \in S : \A y \in S : y <= x
  BY <1>4, GreatestNumber
<1>6. x \in DOMAIN extra /\ fit(x) /\ \A m \in x + 1 .. SLAB_SIZE \div b + 1 : ~fit(m)
  BY <1>1, <1>2, <1>3, <1>5
<1>7. n = CHOOSE k \in DOMAIN extra :
            fit(k) /\ \A m \in k + 1 .. SLAB_SIZE \div b + 1 : ~fit(m)
  BY DEF MostBlocks
<1>8. n \in DOMAIN extra /\ fit(n) /\ \A m \in n + 1 .. SLAB_SIZE \div b + 1 : ~fit(m)
  <2> HIDE DEF fit
  <2> QED
    BY <1>6, <1>7
<1> QED
  BY <1>1, <1>2, <1>8

LEMMA ZeroTried ==
  ASSUME NEW b \in Nat \ {0}
  PROVE  0 \in Candidates(b)
<1>1. PICK top \in Nat : top = SLAB_SIZE \div b + 1
  BY Constants, Division
<1> QED
  BY <1>1 DEF Candidates

\* More blocks than are tried do not fit at all.
LEMMA TooMany ==
  ASSUME NEW b \in Nat \ {0}, NEW m \in Nat, m \notin Candidates(b)
  PROVE  m * b > SLAB_SIZE
<1> PICK s \in Nat : s = SLAB_SIZE
  BY Constants
<1>1. PICK q \in Nat : q = s \div b /\ m > q + 1
  BY Division DEF Candidates
<1>2. s % b \in 0 .. (b - 1) /\ s = q * b + (s % b)
  BY <1>1, Division
<1>3. q * b + b <= m * b
  BY <1>1, Multiples
<1>4. q * b \in Nat /\ m * b \in Nat
  OBVIOUS
<1> QED
  BY <1>2, <1>3, <1>4
LEMMA FreshIs ==
  ASSUME NEW b \in Nat \ {0}
  PROVE  /\ Fresh(b).nbits \in Nat
         /\ Fresh(b).nbits * b + (head_size + get_meta_size(Fresh(b).nbits)) <= SLAB_SIZE
         /\ \A m \in Nat : m > Fresh(b).nbits =>
              ~(m * b + (head_size + get_meta_size(m)) <= SLAB_SIZE)
         /\ Fresh(b) = [bitsize |-> b, nbits |-> Fresh(b).nbits, moffset |-> head_size,
                        toffset |-> 0,
                        roffset |-> head_size + get_meta_size(Fresh(b).nbits),
                        n_bitmaps |-> (Fresh(b).nbits + 63) \div 64]
<1> PICK extra : extra = [k \in Candidates(b) |-> head_size + get_meta_size(k)]
  OBVIOUS
<1> PICK n : n = MostBlocks(b, extra)
  OBVIOUS
<1>1. \A k \in Candidates(b) : k \in Nat
  BY Constants, Division DEF Candidates
<1>2. extra \in [Candidates(b) -> Nat]
  <2>1. ASSUME NEW k \in Candidates(b) PROVE head_size + get_meta_size(k) \in Nat
    <3>1. get_meta_size(k) \in Nat /\ head_size \in Nat
      BY <1>1, MetaSize, Constants
    <3> QED
      BY <3>1
  <2> QED
    BY <2>1
<1>3. extra[0] <= SLAB_SIZE
  <2>1. 0 \in Candidates(b)
    BY ZeroTried
  <2>2. get_meta_size(0) = 0
    <3>1. PICK a \in Nat \ {0} : a = CACHELINE_SIZE * NBANKS
      BY Constants
    <3>2. (0 + 7) \div 8 = 0
      OBVIOUS
    <3>3. get_meta_size(0) = RoundUp(0, a)
      BY <3>1, <3>2 DEF get_meta_size
    <3>4. PICK z \in Nat : z = 0 /\ z * a = 0
      OBVIOUS
    <3>5. RoundUp(z, a) \in Nat
      BY RoundUpIs
    <3>6. RoundUp(z, a) <= z * a
      BY <3>4, RoundUpLeast
    <3> QED
      BY <3>3, <3>4, <3>5, <3>6
  <2> QED
    BY <2>1, <2>2, Constants
<1>4. /\ n \in Candidates(b) /\ n \in Nat
      /\ n * b + extra[n] <= SLAB_SIZE
      /\ \A m \in Candidates(b) : m > n => ~(m * b + extra[m] <= SLAB_SIZE)
  BY <1>2, <1>3, MostBlocksIs
<1>5. Fresh(b) = [bitsize |-> b, nbits |-> n, moffset |-> head_size, toffset |-> 0,
                  roffset |-> head_size + get_meta_size(n), n_bitmaps |-> (n + 63) \div 64]
  BY DEF Fresh
<1>6. Fresh(b).nbits = n
  BY <1>5
<1>7. ASSUME NEW m \in Nat, m > n PROVE ~(m * b + (head_size + get_meta_size(m)) <= SLAB_SIZE)
  <2>1. CASE m \in Candidates(b)
    BY <1>4, <1>7, <2>1
  <2>2. CASE m \notin Candidates(b)
    <3>0. get_meta_size(m) \in Nat /\ head_size \in Nat
      BY MetaSize, Constants
    <3>3. m * b \in Nat
      OBVIOUS
    <3>1. PICK p \in Nat, h \in Nat : p = m * b /\ h = head_size + get_meta_size(m)
      BY <3>0, <3>3
    <3>2. p > SLAB_SIZE /\ SLAB_SIZE \in Nat
      BY <2>2, <3>1, TooMany, Constants
    <3> QED
      BY <3>1, <3>2
  <2> QED
    BY <2>1, <2>2
<1>8. n * b + (head_size + get_meta_size(n)) <= SLAB_SIZE
  BY <1>4
<1> QED
  BY <1>4, <1>5, <1>6, <1>7, <1>8

LEMMA FreshFits ==
  ASSUME NEW c \in SmallIdx
  PROVE  Fits(Fresh(SIZE_CLASSES[c]), c)
<1> PICK b \in Nat \ {0} : b = SIZE_CLASSES[c]
  BY ClassSizes
<1> PICK n \in Nat : n = Fresh(b).nbits
  BY FreshIs
<1> PICK h \in Nat, g \in Nat : h = head_size /\ g = get_meta_size(n)
  BY Constants, MetaSize
<1>1. Fresh(b) = [bitsize |-> b, nbits |-> n, moffset |-> h, toffset |-> 0,
                  roffset |-> h + g, n_bitmaps |-> (n + 63) \div 64]
  BY FreshIs
<1>2. PICK w \in Nat : w = (n + 63) \div 64 /\ n <= 64 * w
  OBVIOUS
<1>3. PICK p \in Nat : p = n * b
  OBVIOUS
<1>4. p + (h + g) <= SLAB_SIZE /\ SLAB_SIZE \in Nat
  BY <1>3, FreshIs, Constants
<1>5. PICK sc : sc = Fresh(b)
  OBVIOUS
<1>6. /\ sc.bitsize = b /\ sc.nbits = n /\ sc.moffset = h /\ sc.toffset = 0
      /\ sc.roffset = h + g /\ sc.n_bitmaps = w
  BY <1>1, <1>2, <1>5
<1>7. h + g \in Nat /\ (h + g) + p <= SLAB_SIZE
  BY <1>4
<1>8. MetaEnd(sc) = h + g
  BY <1>6 DEF MetaEnd
<1> QED
  BY <1>2, <1>3, <1>5, <1>6, <1>7, <1>8 DEF Fits

\* A layout with room for any metadata and a table has no more blocks.
LEMMA ResetFits ==
  ASSUME NEW c \in SmallIdx, sizeclasses[c] = Fresh(SIZE_CLASSES[c]),
         meta_size \in Nat, get_meta_size(Fresh(SIZE_CLASSES[c]).nbits + 1) <= meta_size,
         NEW size \in Nat, head_size + meta_size + size <= SLAB_SIZE
  PROVE  Fits(sizeclass_reset(sizeclasses[c], size), c)
<1> PICK b \in Nat \ {0} : b = SIZE_CLASSES[c]
  BY ClassSizes
<1> PICK f \in Nat : f = Fresh(b).nbits
  BY FreshIs
<1> PICK h \in Nat, g \in Nat : h = head_size /\ g = meta_size
  BY Constants
<1> PICK extra : extra = [k \in Candidates(b) |-> h + g + size]
  OBVIOUS
<1> PICK n : n = MostBlocks(b, extra)
  OBVIOUS
<1>1. extra \in [Candidates(b) -> Nat] /\ extra[0] <= SLAB_SIZE
  <2>1. 0 \in Candidates(b)
    BY ZeroTried
  <2> QED
    BY <2>1
<1>2. n \in Candidates(b) /\ n \in Nat /\ n * b + extra[n] <= SLAB_SIZE
  BY <1>1, MostBlocksIs
<1>3. PICK p \in Nat : p = n * b /\ p + (h + g + size) <= SLAB_SIZE
  BY <1>2
<1>4. n <= f
  <2> SUFFICES ASSUME f + 1 <= n PROVE FALSE
    BY <1>2
  <2>1. PICK m \in Nat : m = f + 1
    OBVIOUS
  <2>2. PICK q \in Nat : q = m * b
    OBVIOUS
  <2>3. q <= p
    <3>1. CASE m = n
      BY <1>3, <2>2, <3>1
    <3>2. CASE m < n
      <4>1. m * b + b <= n * b
        BY <1>2, <3>2, Multiples
      <4> QED
        BY <1>3, <2>2, <4>1
    <3> QED
      BY <1>2, <2>1, <3>1, <3>2
  <2>4. PICK k \in Nat : k = get_meta_size(m) /\ k <= g
    BY <2>1, MetaSize
  <2>5. ~(q + (h + k) <= SLAB_SIZE)
    BY <2>1, <2>2, <2>4, FreshIs
  <2> QED
    BY <1>3, <2>3, <2>4, <2>5, Constants
<1>5. PICK w \in Nat : w = (n + 63) \div 64 /\ n <= 64 * w
  BY <1>2
<1>6. PICK sc : sc = sizeclass_reset(sizeclasses[c], size)
  OBVIOUS
<1>7. PICK s0 : s0 = sizeclasses[c]
  OBVIOUS
<1>8. s0 = [bitsize |-> b, nbits |-> f, moffset |-> h, toffset |-> 0,
            roffset |-> h + get_meta_size(f), n_bitmaps |-> (f + 63) \div 64]
  BY <1>7, FreshIs
<1>9. sc = [s0 EXCEPT !.nbits = n, !.toffset = h + g, !.roffset = h + g + size,
                      !.n_bitmaps = (n + 63) \div 64]
  <2>1. s0.bitsize = b /\ s0.moffset = h
    BY <1>8
  <2> QED
    BY <1>6, <1>7, <2>1 DEF sizeclass_reset
<1>10. /\ sc.bitsize = b /\ sc.nbits = n /\ sc.moffset = h /\ sc.toffset = h + g
       /\ sc.roffset = h + g + size /\ sc.n_bitmaps = w
  BY <1>5, <1>8, <1>9
<1>11. h + get_meta_size(n) <= h + g
  <2>0. PICK m \in Nat : m = f + 1
    OBVIOUS
  <2>1. PICK k \in Nat : k = get_meta_size(m) /\ k <= g
    BY <2>0, MetaSize
  <2>2. get_meta_size(n) \in Nat /\ get_meta_size(n) <= k
    <3>1. n <= m
      BY <1>2, <1>4, <2>0
    <3> QED
      BY <1>2, <2>1, <3>1, MetaSize
  <2> QED
    BY <2>1, <2>2
<1>12. MetaEnd(sc) = h + g
  <2>1. g # 0
    <3>1. PICK m \in Nat : m = f + 1
      OBVIOUS
    <3>2. PICK k \in Nat : k = get_meta_size(m) /\ k <= g /\ m <= 8 * k
      BY <3>1, MetaSize
    <3> QED
      BY <3>1, <3>2
  <2> QED
    BY <1>10, <2>1 DEF MetaEnd
<1>13. h + g \in Nat /\ h + g + size \in Nat /\ (h + g + size) + p <= SLAB_SIZE
  BY <1>3, Constants
<1> QED
  BY <1>2, <1>3, <1>4, <1>5, <1>6, <1>10, <1>11, <1>12, <1>13 DEF Fits
----------------------------------------------------------------------------
(* The steps. *)

LEMMA StartsRight == Init => BootInv
<1> SUFFICES ASSUME Init PROVE BootInv
  OBVIOUS
<1>1. /\ phase = "small" /\ filled = <<>> /\ pfilled = <<>> /\ sizeclasses = <<>>
      /\ meta_size = 0 /\ asked = NoRequest /\ slab = NoSlab
  BY DEF Init
<1>2. DOMAIN filled = {} /\ DOMAIN pfilled = {} /\ DOMAIN sizeclasses = {}
  BY <1>1
<1>3. TablesInv
  <2>1. /\ Grows(filled, 1, MAX_SZ_IDX, "small", {})
        /\ Grows(pfilled, 0, MAX_PSZ_IDX, "pages", {"small"})
        /\ Grows(sizeclasses, 1, MAX_SZ_IDX, "geometry", {"small", "pages"})
    <3>1. 1 \in 1 .. MAX_SZ_IDX /\ 1 < MAX_SZ_IDX /\ 0 \in 0 .. MAX_PSZ_IDX
          /\ 1 .. 1 - 1 = {} /\ 0 .. 0 - 1 = {}
      BY DEF MAX_SZ_IDX, MAX_PSZ_IDX
    <3> QED
      BY <1>1, <1>2, <3>1 DEF Grows
  <2>2. Covers(filled, SIZE_CLASSES) /\ Covers(pfilled, PSIZE_CLASSES)
    BY <1>2 DEF Covers
  <2> QED
    BY <1>1, <2>1, <2>2 DEF TablesInv
<1>4. AskedInv
  BY <1>1 DEF AskedInv, LookupLeast, NoRequest
<1>5. LayoutInv
  BY <1>1, <1>2 DEF LayoutInv
<1> QED
  BY <1>3, <1>4, <1>5 DEF BootInv

\* Boot: the layouts that are done, and the metadata any of them may need.
LEMMA GeometryLayouts ==
  ASSUME BootInv, BootGeometry
  PROVE  LayoutInv'
<1>1. PICK n \in SmallIdx :
        /\ DOMAIN sizeclasses = 1 .. n - 1 /\ DOMAIN sizeclasses' = 1 .. n
        /\ sizeclasses'[n] = Fresh(SIZE_CLASSES[n])
        /\ \A j \in 1 .. n - 1 : sizeclasses'[j] = sizeclasses[j]
        /\ meta_size' = Max({meta_size, get_meta_size(Fresh(SIZE_CLASSES[n]).nbits + 1)})
        /\ phase' = IF n < 39 THEN "geometry" ELSE "ready"
  BY GeometryStep DEF BootInv
<1>2. n \in 1 .. 39
  BY ClassSizes
<1>3. /\ meta_size \in Nat
      /\ \A c \in 1 .. n - 1 :
           /\ sizeclasses[c] = Fresh(SIZE_CLASSES[c])
           /\ get_meta_size(sizeclasses[c].nbits + 1) <= meta_size
      /\ slab = NoSlab /\ slab' = slab
  BY <1>1 DEF BootInv, LayoutInv, AskedInv, BootGeometry
<1>4. ASSUME NEW c \in SmallIdx PROVE get_meta_size(Fresh(SIZE_CLASSES[c]).nbits + 1) \in Nat
  <2>1. SIZE_CLASSES[c] \in Nat \ {0}
    BY ClassSizes
  <2>2. PICK m \in Nat : m = Fresh(SIZE_CLASSES[c]).nbits + 1
    BY <2>1, FreshIs
  <2> QED
    BY <2>2, MetaSize
<1>5. PICK g \in Nat : g = get_meta_size(Fresh(SIZE_CLASSES[n]).nbits + 1)
  BY <1>4
<1>6. meta_size' = IF meta_size <= g THEN g ELSE meta_size
  <2>1. CASE meta_size <= g
    <3>1. {meta_size, g} \in SUBSET Nat /\ g \in {meta_size, g} /\ \A y \in {meta_size, g} : y <= g
      BY <1>3, <2>1
    <3>2. Max({meta_size, g}) = g
      BY <3>1, MaxIs
    <3> QED
      BY <1>1, <1>5, <2>1, <3>2
  <2>2. CASE ~(meta_size <= g)
    <3>1. /\ {meta_size, g} \in SUBSET Nat /\ meta_size \in {meta_size, g}
          /\ \A y \in {meta_size, g} : y <= meta_size
      BY <1>3, <2>2
    <3>2. Max({meta_size, g}) = meta_size
      BY <3>1, MaxIs
    <3> QED
      BY <1>1, <1>5, <2>2, <3>2
  <2> QED
    BY <2>1, <2>2
<1>7. meta_size' \in Nat /\ meta_size <= meta_size' /\ g <= meta_size'
  BY <1>3, <1>6
<1>8. ASSUME NEW c \in 1 .. n
      PROVE  /\ sizeclasses'[c] = Fresh(SIZE_CLASSES[c])
             /\ get_meta_size(sizeclasses'[c].nbits + 1) <= meta_size'
  <2>1. CASE c = n
    BY <1>1, <1>5, <1>7, <2>1
  <2>2. CASE c # n
    <3>1. c \in 1 .. n - 1 /\ c \in SmallIdx
      BY <1>2, <2>2, ClassSizes
    <3>2. sizeclasses'[c] = sizeclasses[c] /\ sizeclasses[c] = Fresh(SIZE_CLASSES[c])
      BY <1>1, <1>3, <3>1
    <3>3. PICK k \in Nat : k = get_meta_size(sizeclasses[c].nbits + 1) /\ k <= meta_size
      BY <1>3, <1>4, <3>1, <3>2
    <3> QED
      BY <1>3, <1>7, <3>2, <3>3
  <2> QED
    BY <2>1, <2>2
<1>9. meta_size' = 0 \/ \E c \in SmallIdx :
        meta_size' = get_meta_size(Fresh(SIZE_CLASSES[c]).nbits + 1)
  BY <1>5, <1>6 DEF BootInv, LayoutInv
<1> QED
  BY <1>1, <1>3, <1>7, <1>8, <1>9 DEF LayoutInv

\* After the boot every class has its layout, and there is room for any table.
LEMMA ReadyLayouts ==
  ASSUME BootInv, phase = "ready"
  PROVE  /\ meta_size \in Nat
         /\ \A c \in SmallIdx :
              /\ sizeclasses[c] = Fresh(SIZE_CLASSES[c])
              /\ get_meta_size(Fresh(SIZE_CLASSES[c]).nbits + 1) <= meta_size
  BY ReadyTables DEF BootInv, LayoutInv
\* The table of the old blocks of a slab on the LRU list.
LEMMA TableFits ==
  ASSUME BootInv, phase = "ready", NEW d \in SmallIdx, NEW sc, Fits(sc, d),
         NEW n \in HeldCounts(sc)
  PROVE  /\ n \in Nat /\ get_sb_table_size(n) \in Nat
         /\ head_size + meta_size + get_sb_table_size(n) <= SLAB_SIZE
<1> PICK f \in Nat : f = Fresh(SIZE_CLASSES[d]).nbits
  BY ClassSizes, FreshIs
<1> PICK k \in Nat : k = sc.nbits /\ k <= f
  BY DEF Fits
<1> PICK ln \in Nat, ld \in Nat \ {0} : ln = LowNum /\ ld = LowDen
  BY Constants
<1> PICK eb \in Nat \ {0}, cl \in Nat \ {0} : eb = EntryBytes /\ cl = CACHELINE_SIZE
  BY Constants
<1>1. PICK kl \in Nat, fl \in Nat : kl = k * ln /\ fl = f * ln /\ kl <= fl
  <2>1. PICK e \in Nat : f = k + e
    <3>1. f - k \in Nat /\ f = k + (f - k)
      OBVIOUS
    <3> QED
      BY <3>1
  <2>2. k * ln \in Nat /\ e * ln \in Nat /\ f * ln = k * ln + e * ln
    BY <2>1
  <2> QED
    BY <2>2
<1>2. PICK m \in Nat : m = fl \div ld /\ kl \div ld \in Nat /\ kl \div ld <= m
  BY <1>1, DivisionRises
<1>3. n \in 1 .. kl \div ld
  BY <1>1 DEF HeldCounts
<1>4. n \in Nat /\ n <= m
  BY <1>2, <1>3
<1>5. PICK a \in Nat, b \in Nat : a = eb * n /\ b = eb * m /\ a <= b
  <2>1. PICK e \in Nat : m = n + e
    <3>1. m - n \in Nat /\ m = n + (m - n)
      BY <1>4
    <3> QED
      BY <3>1
  <2>2. eb * n \in Nat /\ eb * e \in Nat /\ eb * m = eb * n + eb * e
    BY <1>4, <2>1
  <2> QED
    BY <2>2
<1>6. /\ RoundUp(a, cl) \in Nat /\ RoundUp(b, cl) \in Nat
      /\ RoundUp(a, cl) <= RoundUp(b, cl)
  BY <1>5, RoundUpIs, RoundUpRises
<1>7. get_sb_table_size(n) = RoundUp(a, cl) /\ get_sb_table_size(m) = RoundUp(b, cl)
  BY <1>5 DEF get_sb_table_size
<1>8. head_size + meta_size + RoundUp(b, cl) <= SLAB_SIZE
  <2>1. PICK c \in SmallIdx :
          meta_size \in Nat /\ meta_size <= get_meta_size(Fresh(SIZE_CLASSES[c]).nbits + 1)
    <3>1. PICK x \in SmallIdx : x = 1
      BY ClassSizes
    <3>2. \A c \in SmallIdx : get_meta_size(Fresh(SIZE_CLASSES[c]).nbits + 1) \in Nat
      <4> SUFFICES ASSUME NEW c \in SmallIdx
                   PROVE  get_meta_size(Fresh(SIZE_CLASSES[c]).nbits + 1) \in Nat
        OBVIOUS
      <4>1. SIZE_CLASSES[c] \in Nat \ {0}
        BY ClassSizes
      <4>2. PICK p \in Nat : p = Fresh(SIZE_CLASSES[c]).nbits + 1
        BY <4>1, FreshIs
      <4> QED
        BY <4>2, MetaSize
    <3>3. meta_size \in Nat
      BY DEF BootInv, LayoutInv
    <3>4. CASE meta_size = 0
      BY <3>1, <3>2, <3>3, <3>4
    <3>5. CASE \E c \in SmallIdx : meta_size = get_meta_size(Fresh(SIZE_CLASSES[c]).nbits + 1)
      BY <3>3, <3>5
    <3> QED
      BY <3>4, <3>5 DEF BootInv, LayoutInv
  <2>2. head_size + get_meta_size(Fresh(SIZE_CLASSES[c]).nbits + 1)
          + get_sb_table_size((Fresh(SIZE_CLASSES[d]).nbits * LowNum) \div LowDen) <= SLAB_SIZE
    BY RoomAssumption
  <2>3. get_sb_table_size((Fresh(SIZE_CLASSES[d]).nbits * LowNum) \div LowDen) = RoundUp(b, cl)
    BY <1>1, <1>2, <1>7
  <2>4. PICK g \in Nat : g = get_meta_size(Fresh(SIZE_CLASSES[c]).nbits + 1)
    <3>1. SIZE_CLASSES[c] \in Nat \ {0}
      BY ClassSizes
    <3>2. PICK p \in Nat : p = Fresh(SIZE_CLASSES[c]).nbits + 1
      BY <3>1, FreshIs
    <3> QED
      BY <3>2, MetaSize
  <2>5. head_size + g + RoundUp(b, cl) <= SLAB_SIZE
    BY <2>2, <2>3, <2>4
  <2> QED
    BY <1>6, <2>1, <2>4, <2>5, Constants
<1>9. meta_size \in Nat /\ head_size \in Nat /\ SLAB_SIZE \in Nat
  BY Constants DEF BootInv, LayoutInv
<1> QED
  BY <1>4, <1>6, <1>7, <1>8, <1>9

LEMMA MorphLayouts ==
  ASSUME BootInv, Morph
  PROVE  slab'.num_b \in Nat /\ \E c \in SmallIdx : Fits(slab'.sc, c)
<1>1. phase = "ready" /\ asked.class \in SmallIdx
  <2>1. asked.kind = "small" /\ asked # NoRequest
    BY DEF Morph, NoRequest
  <2> QED
    BY <2>1 DEF BootInv, AskedInv, TablesInv
<1>2. PICK c \in SmallIdx : c = asked.class
  BY <1>1
<1>3. PICK n \in HeldCounts(slab.sc) :
        /\ slab'.sc = sizeclass_reset(sizeclasses[c], get_sb_table_size(n))
        /\ slab'.num_b = n
  BY <1>2 DEF Morph
<1>4. PICK d \in SmallIdx : Fits(slab.sc, d)
  BY DEF Morph, BootInv, LayoutInv
<1>5. /\ n \in Nat /\ get_sb_table_size(n) \in Nat
      /\ head_size + meta_size + get_sb_table_size(n) <= SLAB_SIZE
  BY <1>1, <1>4, TableFits
<1>6. /\ sizeclasses[c] = Fresh(SIZE_CLASSES[c]) /\ meta_size \in Nat
      /\ get_meta_size(Fresh(SIZE_CLASSES[c]).nbits + 1) <= meta_size
  BY <1>1, ReadyLayouts
<1>7. Fits(sizeclass_reset(sizeclasses[c], get_sb_table_size(n)), c)
  BY <1>5, <1>6, ResetFits
<1> QED
  BY <1>3, <1>5, <1>7

LEMMA StepsKeep == BootInv /\ [Next]_vars => BootInv'
<1> SUFFICES ASSUME BootInv, [Next]_vars PROVE BootInv'
  OBVIOUS
<1>0. CASE UNCHANGED vars
  BY <1>0 DEF vars, BootInv, TablesInv, AskedInv, LayoutInv, Grows, LookupLeast
<1>1. CASE BootLookup
  <2>1. TablesInv'
    BY <1>1, LookupTables DEF BootInv
  <2>2. UNCHANGED <<sizeclasses, meta_size, asked, slab>> /\ phase # "ready"
    BY <1>1 DEF BootLookup
  <2>3. AskedInv' /\ LayoutInv'
    BY <2>2 DEF BootInv, AskedInv, LookupLeast, LayoutInv
  <2> QED
    BY <2>1, <2>3 DEF BootInv
<1>2. CASE BootPages
  <2>1. TablesInv'
    BY <1>2, PagesTables DEF BootInv
  <2>2. UNCHANGED <<sizeclasses, meta_size, asked, slab>> /\ phase # "ready"
    BY <1>2 DEF BootPages
  <2>3. AskedInv' /\ LayoutInv'
    BY <2>2 DEF BootInv, AskedInv, LookupLeast, LayoutInv
  <2> QED
    BY <2>1, <2>3 DEF BootInv
<1>3. CASE BootGeometry
  <2>1. TablesInv' /\ LayoutInv'
    BY <1>3, GeometryTables, GeometryLayouts DEF BootInv
  <2>2. UNCHANGED <<asked, slab>> /\ phase # "ready"
    BY <1>3 DEF BootGeometry
  <2>3. AskedInv'
    BY <2>2 DEF BootInv, AskedInv, LookupLeast
  <2> QED
    BY <2>1, <2>3 DEF BootInv
<1>4. CASE Request
  <2>1. UNCHANGED <<phase, sizeclasses, filled, pfilled, meta_size, slab>> /\ phase = "ready"
    BY <1>4 DEF Request
  <2>2. TablesInv' /\ LayoutInv'
    BY <2>1 DEF BootInv, TablesInv, Grows, LayoutInv
  <2>3. AskedInv'
    BY <1>4, <2>1, RequestLeast DEF BootInv, AskedInv
  <2> QED
    BY <2>2, <2>3 DEF BootInv
<1>5. CASE Served
  <2>1. UNCHANGED <<phase, sizeclasses, filled, pfilled, meta_size, slab>> /\ asked' = NoRequest
    BY <1>5 DEF Served
  <2>2. TablesInv' /\ LayoutInv'
    BY <2>1 DEF BootInv, TablesInv, Grows, LayoutInv
  <2>3. AskedInv'
    BY <2>1 DEF BootInv, AskedInv, LookupLeast, NoRequest
  <2> QED
    BY <2>2, <2>3 DEF BootInv
<1>6. ASSUME SlabCreate \/ Morph \/ OldFreed \/ SlabEmptied PROVE BootInv'
  <2>1. UNCHANGED <<phase, sizeclasses, filled, pfilled, meta_size>>
    BY <1>6 DEF SlabCreate, Morph, OldFreed, SlabEmptied
  <2>2. TablesInv'
    BY <2>1 DEF BootInv, TablesInv, Grows
  <2>3. asked' = NoRequest \/ asked' = asked
    BY <1>6 DEF SlabCreate, Morph, OldFreed, SlabEmptied
  <2>4. phase = "ready"
    <3>1. asked # NoRequest \/ slab # NoSlab
      BY <1>6 DEF SlabCreate, Morph, OldFreed, SlabEmptied, NoRequest
    <3> QED
      BY <3>1 DEF BootInv, AskedInv
  <2>5. AskedInv'
    <3>1. CASE asked' = NoRequest
      BY <2>1, <2>4, <3>1 DEF AskedInv, LookupLeast, NoRequest
    <3>2. CASE asked' = asked
      BY <2>1, <2>4, <3>2 DEF BootInv, AskedInv, LookupLeast
    <3> QED
      BY <2>3, <3>1, <3>2
  <2>6. slab' # NoSlab => slab'.num_b \in Nat /\ \E c \in SmallIdx : Fits(slab'.sc, c)
    <3>1. CASE SlabCreate
      <4>1. asked.class \in SmallIdx
        BY <3>1 DEF SlabCreate, BootInv, AskedInv
      <4>2. slab'.sc = Fresh(SIZE_CLASSES[asked.class]) /\ slab'.num_b = 0
        BY <2>4, <3>1, <4>1, ReadyLayouts DEF SlabCreate, Whole
      <4> QED
        BY <4>1, <4>2, FreshFits
    <3>2. CASE Morph
      BY <3>2, MorphLayouts
    <3>3. CASE OldFreed
      <4>1. slab'.sc = slab.sc /\ slab'.num_b = 0 /\ slab # NoSlab
        BY <3>3 DEF OldFreed, Whole
      <4> QED
        BY <4>1 DEF BootInv, LayoutInv
    <3>4. CASE SlabEmptied
      BY <3>4 DEF SlabEmptied
    <3> QED
      BY <1>6, <3>1, <3>2, <3>3, <3>4
  <2>7. LayoutInv'
    BY <2>1, <2>6 DEF BootInv, LayoutInv
  <2> QED
    BY <2>2, <2>5, <2>7 DEF BootInv
<1> QED
  BY <1>0, <1>1, <1>2, <1>3, <1>4, <1>5, <1>6 DEF Next

\* The tables cover the sizes, and every layout of a slab fits, at every step of
\* the boot and of what follows it.
THEOREM BootIsRight == Spec => []BootInv
<1>1. Init => BootInv
  BY StartsRight
<1>2. BootInv /\ [Next]_vars => BootInv'
  BY StepsKeep
<1> QED
  BY <1>1, <1>2, PTL DEF Spec

\* A request is served by the least class that has the bytes (sizeclass.c:58,
\* sizeclass.h:220, nvalloc.c:61): the tables are filled without a gap.
THEOREM LookupIsLeast == Spec => []LookupLeast
<1>1. BootInv => LookupLeast
  BY DEF BootInv, AskedInv
<1> QED
  BY <1>1, BootIsRight, PTL

\* In every layout a slab gets, the blocks end inside the slab and the bit of
\* each has its place (sizeclass.c:79, 111; slab.h:122).
THEOREM LayoutsFit == Spec => []GeometryFits
<1>1. BootInv => GeometryFits
  <2> SUFFICES ASSUME BootInv, slab # NoSlab, asked = NoRequest,
                      NEW c \in SmallIdx, Fits(slab.sc, c)
               PROVE  GeometryFits
    BY DEF GeometryFits, BootInv, LayoutInv
  <2> PICK sc : sc = slab.sc
    OBVIOUS
  <2> PICK n \in Nat, mo \in Nat : n = sc.nbits /\ mo = sc.moffset
    BY DEF Fits
  <2>1. mo + get_meta_size(n) <= MetaEnd(sc)
    BY DEF Fits
  <2>2. MetaEnd(sc) \in Nat
    BY DEF Fits, MetaEnd
  <2>3. ASSUME NEW bid \in 0 .. n - 1 PROVE mo + MetaByte(bid) < MetaEnd(sc)
    <3>1. /\ MetaByte(bid) \in Nat /\ MetaByte(bid) < get_meta_size(n)
          /\ get_meta_size(n) \in Nat
      BY BitInside, MetaSize
    <3> QED
      BY <2>1, <2>2, <3>1
  <2> QED
    BY <2>3 DEF GeometryFits, Fits
<1> QED
  BY <1>1, BootIsRight, PTL
=============================================================================
