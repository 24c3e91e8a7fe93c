---------------------------- MODULE DecayProofs ----------------------------
(***************************************************************************)
(* One thread at a time purges a pool, though the mutex of its decay is    *)
(* given up, and the limit of a pool that does not grow only falls: for    *)
(* any threads, pools, intervals and weights.                              *)
(***************************************************************************)
EXTENDS Decay, FiniteSetTheorems, WellFoundedInduction, SequenceTheorems, TLAPS

----------------------------------------------------------------------------
(* Sums. *)

\* Induction, for a set of numbers.
LEMMA Induction ==
  ASSUME NEW S \in SUBSET Nat, 0 \in S, \A n \in S : n + 1 \in S
  PROVE  S = Nat
<1> DEFINE R == {r \in Nat \X Nat : r[1] < r[2]}
           T == Nat \ S
<1>1. OpToRel(<, Nat) = R
  BY DEF OpToRel
<1>2. IsWellFoundedOn(R, Nat)
  BY <1>1, NatLessThanWellFounded
<1>3. SUFFICES ASSUME T # {} PROVE FALSE
  OBVIOUS
<1>4. PICK x \in T : \A y \in T : <<y, x>> \notin R
  <2>1. T \subseteq Nat
    OBVIOUS
  <2> HIDE DEF R, T
  <2> QED
    BY <1>2, <1>3, <2>1, WFMin
<1>5. x \in Nat /\ x # 0 /\ x - 1 \in Nat
  BY <1>4
<1>6. x - 1 \in T
  BY <1>5
<1>7. <<x - 1, x>> \in R
  BY <1>5
<1> QED
  BY <1>4, <1>6, <1>7

\* The partial sums of a sequence exist, and the last is its total.
LEMMA PartialSums ==
  ASSUME NEW s \in Seq(Nat)
  PROVE  \E u \in [0 .. Len(s) -> Nat] :
           /\ u[0] = 0
           /\ \A i \in 1 .. Len(s) : u[i] = u[i - 1] + s[i]
           /\ Total(s) = u[Len(s)]
<1> DEFINE Sums(n, u) == /\ u \in [0 .. n -> Nat]
                         /\ u[0] = 0
                         /\ \A i \in 1 .. n : u[i] = u[i - 1] + s[i]
           N == {n \in Nat : n <= Len(s) => \E u : Sums(n, u)}
           F(u) == [i \in 0 .. Len(s) |-> IF i = 0 THEN 0 ELSE u[i - 1] + s[i]]
<1>1. Len(s) \in Nat /\ \A i \in 1 .. Len(s) : s[i] \in Nat
  BY ElementOfSeq, LenProperties
<1>2. 0 \in N
  <2>1. Sums(0, [i \in 0 .. 0 |-> 0])
    OBVIOUS
  <2> QED
    BY <2>1
<1>3. ASSUME NEW n \in N, n + 1 <= Len(s) PROVE \E u : Sums(n + 1, u)
  <2>1. PICK u : Sums(n, u)
    BY <1>1, <1>3
  <2> DEFINE v == [i \in 0 .. n + 1 |-> IF i = n + 1 THEN u[n] + s[n + 1] ELSE u[i]]
  <2>2. v \in [0 .. n + 1 -> Nat]
    BY <1>1, <1>3, <2>1
  <2>3. v[0] = 0
    BY <1>3, <2>1
  <2>4. ASSUME NEW i \in 1 .. n + 1 PROVE v[i] = v[i - 1] + s[i]
    <3>1. CASE i = n + 1
      BY <3>1, <1>3
    <3>2. CASE i # n + 1
      BY <3>2, <2>1, <1>3
    <3> QED
      BY <3>1, <3>2
  <2>5. Sums(n + 1, v)
    BY <2>2, <2>3, <2>4
  <2> QED
    BY <2>5
<1>4. N = Nat
  <2>1. N \subseteq Nat
    OBVIOUS
  <2> HIDE DEF Sums
  <2>2. \A n \in N : n + 1 \in N
    BY <1>1, <1>3
  <2> HIDE DEF N
  <2> QED
    BY <1>2, <2>1, <2>2, Induction
<1>5. PICK u : Sums(Len(s), u)
  <2> HIDE DEF Sums
  <2>1. Len(s) \in N
    BY <1>1, <1>4
  <2> QED
    BY <1>1, <2>1
<1>6. u = F(u)
  BY <1>1, <1>5
<1> DEFINE w == CHOOSE v : v = F(v)
<1>7. w = F(w)
  BY <1>6
<1>8. Total(s) = w[Len(s)]
  BY Zenon DEF Total
<1> HIDE DEF w
<1>9. w = u
  <2> DEFINE M == {n \in Nat : n <= Len(s) => w[n] = u[n]}
  <2>1. 0 \in M
    BY <1>1, <1>5, <1>7
  <2>2. ASSUME NEW n \in M PROVE n + 1 \in M
    BY <1>1, <1>5, <1>7, <2>2
  <2>3. M = Nat
    <3>1. M \subseteq Nat
      OBVIOUS
    <3> HIDE DEF M
    <3> QED
      BY <2>1, <2>2, <3>1, Induction
  <2>4. \A n \in 0 .. Len(s) : w[n] = u[n]
    BY <1>1, <2>3
  <2> QED
    BY <1>5, <1>7, <2>4
<1> QED
  BY <1>5, <1>8, <1>9

LEMMA TotalNat ==
  ASSUME NEW s \in Seq(Nat)
  PROVE  Total(s) \in Nat
<1>1. Len(s) \in Nat
  BY LenProperties
<1> QED
  BY <1>1, PartialSums

\* A larger number of a pool's pages counts more, the more the older it is.
LEMMA Product ==
  ASSUME NEW a \in Nat, NEW x \in Nat, NEW y \in Nat, x <= y
  PROVE  a * x \in Nat /\ a * x <= a * y
<1>1. PICK z \in Nat : y = x + z
  BY y - x \in Nat
<1>2. a * y = a * x + a * z /\ a * x \in Nat /\ a * z \in Nat
  BY <1>1
<1> QED
  BY <1>2

LEMMA Quotient ==
  ASSUME NEW a \in Nat, NEW d \in Nat \ {0}
  PROVE  /\ a \div d \in Nat
         /\ a >= d => a \div d > 0
         /\ a - (a \div d) * d \in Nat
         /\ \A b \in Nat : b <= a => b \div d <= a \div d
OBVIOUS

----------------------------------------------------------------------------
(* The limit. *)

\* The pages of each epoch by their weight.
Weighted(b) == [i \in 1 .. NSTEPS |-> b[i] * h_steps[i]]

LEMMA WeightedNat ==
  ASSUME NEW b \in [1 .. NSTEPS -> Nat]
  PROVE  /\ Weighted(b) \in Seq(Nat)
         /\ Len(Weighted(b)) = NSTEPS
         /\ \A i \in 1 .. NSTEPS : /\ Weighted(b)[i] = b[i] * h_steps[i]
                                  /\ b[i] * h_steps[i] \in Nat
<1>1. NSTEPS \in Nat /\ h_steps \in [1 .. NSTEPS -> Nat]
  BY DecayAssumption
<1>2. \A i \in 1 .. NSTEPS : b[i] * h_steps[i] \in Nat
  BY <1>1, Product
<1>3. Weighted(b) \in [1 .. NSTEPS -> Nat]
  BY <1>2 DEF Weighted
<1>4. \A i \in 1 .. NSTEPS : Weighted(b)[i] = b[i] * h_steps[i]
  BY Zenon DEF Weighted
<1> QED
  BY <1>1, <1>2, <1>3, <1>4

LEMMA LimitNat ==
  ASSUME NEW b \in [1 .. NSTEPS -> Nat]
  PROVE  Limit(b) \in Nat
<1>1. Total(Weighted(b)) \in Nat
  BY WeightedNat, TotalNat
<1>2. ONE \in Nat \ {0}
  BY DecayAssumption
<1> QED
  BY <1>1, <1>2, Quotient DEF Limit, Weighted

\* Moving the epochs up, with nothing new, lowers the limit.
LEMMA LimitOfMoved ==
  ASSUME NEW b \in [1 .. NSTEPS -> Nat], NEW c \in [1 .. NSTEPS -> Nat], NEW k \in Nat,
         \A i \in 1 .. NSTEPS :
           c[i] = IF i # NSTEPS /\ i + k <= NSTEPS THEN b[i + k] ELSE 0
  PROVE  Limit(c) <= Limit(b)
<1>1. NSTEPS \in Nat \ {0} /\ ONE \in Nat \ {0} /\ h_steps \in [1 .. NSTEPS -> Nat]
  BY DecayAssumption
<1>2. PICK u \in [0 .. NSTEPS -> Nat] :
        /\ u[0] = 0
        /\ \A i \in 1 .. NSTEPS : u[i] = u[i - 1] + b[i] * h_steps[i]
        /\ Total(Weighted(b)) = u[NSTEPS]
  <2>1. PICK w \in [0 .. NSTEPS -> Nat] :
          /\ w[0] = 0
          /\ \A i \in 1 .. NSTEPS : w[i] = w[i - 1] + Weighted(b)[i]
          /\ Total(Weighted(b)) = w[NSTEPS]
    <3>1. Weighted(b) \in Seq(Nat) /\ Len(Weighted(b)) = NSTEPS
      BY WeightedNat
    <3> QED
      BY <3>1, PartialSums
  <2>2. \A i \in 1 .. NSTEPS : w[i] = w[i - 1] + b[i] * h_steps[i]
    BY <2>1, WeightedNat
  <2> QED
    BY <2>1, <2>2
<1>3. PICK v \in [0 .. NSTEPS -> Nat] :
        /\ v[0] = 0
        /\ \A i \in 1 .. NSTEPS : v[i] = v[i - 1] + c[i] * h_steps[i]
        /\ Total(Weighted(c)) = v[NSTEPS]
  <2>1. PICK w \in [0 .. NSTEPS -> Nat] :
          /\ w[0] = 0
          /\ \A i \in 1 .. NSTEPS : w[i] = w[i - 1] + Weighted(c)[i]
          /\ Total(Weighted(c)) = w[NSTEPS]
    <3>1. Weighted(c) \in Seq(Nat) /\ Len(Weighted(c)) = NSTEPS
      BY WeightedNat
    <3> QED
      BY <3>1, PartialSums
  <2>2. \A i \in 1 .. NSTEPS : w[i] = w[i - 1] + c[i] * h_steps[i]
    BY <2>1, WeightedNat
  <2> QED
    BY <2>1, <2>2
<1> DEFINE m(n) == IF n + k <= NSTEPS THEN n + k ELSE NSTEPS
           P(n) == v[n] <= u[m(n)]
           N == {n \in Nat : n <= NSTEPS => P(n)}
<1>4. \A n \in 0 .. NSTEPS : m(n) \in 0 .. NSTEPS
  BY <1>1
<1>5. \A n \in 0 .. NSTEPS : v[n] \in Nat /\ u[m(n)] \in Nat
  <2> HIDE DEF m
  <2> QED
    BY <1>2, <1>3, <1>4
<1>6. ASSUME NEW n \in Nat, n + 1 <= NSTEPS, P(n) PROVE P(n + 1)
  <2>1. /\ n + 1 \in 1 .. NSTEPS /\ n + 1 - 1 = n
        /\ n \in 0 .. NSTEPS /\ n + 1 \in 0 .. NSTEPS
    BY <1>1, <1>6
  <2>2. /\ v[n] \in Nat /\ u[m(n)] \in Nat
        /\ v[n + 1] \in Nat /\ u[m(n + 1)] \in Nat
    BY <1>5, <2>1
  <2>3. v[n + 1] = v[n] + c[n + 1] * h_steps[n + 1]
    <3>1. v[n + 1] = v[n + 1 - 1] + c[n + 1] * h_steps[n + 1]
      BY <1>3, <2>1
    <3> QED
      BY <2>1, <3>1
  <2>4. \A i \in 1 .. NSTEPS : /\ u[i] = u[i - 1] + b[i] * h_steps[i]
                               /\ b[i] * h_steps[i] \in Nat
    BY <1>2, WeightedNat
  <2>5. CASE n + 1 # NSTEPS /\ n + 1 + k <= NSTEPS
    <3> DEFINE i == n + 1 + k
    <3>1. /\ i \in 1 .. NSTEPS /\ n + 1 <= i
          /\ m(n) = i - 1 /\ m(n + 1) = i
      BY <1>1, <2>5
    <3>2. c[n + 1] = b[i]
      BY <2>1, <2>5
    <3> HIDE DEF i, m
    <3>3. \A x, y \in 1 .. NSTEPS : x <= y => h_steps[x] <= h_steps[y]
      BY DecayAssumption
    <3>4. h_steps[n + 1] <= h_steps[i] /\ h_steps[n + 1] \in Nat /\ h_steps[i] \in Nat
      BY <1>1, <2>1, <3>1, <3>3
    <3>5. b[i] \in Nat
      BY <3>1
    <3>6. b[i] * h_steps[n + 1] <= b[i] * h_steps[i] /\ b[i] * h_steps[n + 1] \in Nat
      BY <3>4, <3>5, Product
    <3>7. u[i] = u[i - 1] + b[i] * h_steps[i] /\ b[i] * h_steps[i] \in Nat
      BY <2>4, <3>1
    <3> QED
      BY <1>6, <2>2, <2>3, <3>1, <3>2, <3>6, <3>7
  <2>6. CASE ~(n + 1 # NSTEPS /\ n + 1 + k <= NSTEPS)
    <3>1. c[n + 1] = 0
      BY <2>1, <2>6
    <3>2. v[n + 1] = v[n]
      <4>1. h_steps[n + 1] \in Nat /\ \A x \in Nat : 0 * x = 0
        BY <1>1, <2>1
      <4> QED
        BY <2>2, <2>3, <3>1, <4>1
    <3>3. m(n + 1) = m(n) \/ (m(n) = m(n + 1) - 1 /\ m(n + 1) \in 1 .. NSTEPS)
      BY <1>1, <2>1
    <3> HIDE DEF m
    <3>4. CASE m(n + 1) = m(n)
      BY <1>6, <3>2, <3>4
    <3>5. CASE m(n) = m(n + 1) - 1 /\ m(n + 1) \in 1 .. NSTEPS
      <4> DEFINE j == m(n + 1)
      <4>1. u[j] = u[j - 1] + b[j] * h_steps[j] /\ b[j] * h_steps[j] \in Nat
        BY <2>4, <3>5
      <4> QED
        BY <1>6, <2>2, <3>2, <3>5, <4>1
    <3> QED
      BY <3>3, <3>4, <3>5
  <2> QED
    BY <2>5, <2>6
<1>7. 0 \in N
  <2>1. 0 \in 0 .. NSTEPS
    BY <1>1
  <2>2. P(0)
    <3> HIDE DEF m
    <3> QED
      BY <1>3, <1>5, <2>1
  <2> QED
    BY <2>2
<1>8. N = Nat
  <2>1. N \subseteq Nat
    OBVIOUS
  <2> HIDE DEF P
  <2>2. \A n \in N : n + 1 \in N
    BY <1>1, <1>6
  <2> HIDE DEF N
  <2> QED
    BY <1>7, <2>1, <2>2, Induction
<1>9. v[NSTEPS] <= u[NSTEPS] /\ v[NSTEPS] \in Nat /\ u[NSTEPS] \in Nat
  <2>1. m(NSTEPS) = NSTEPS /\ NSTEPS \in 0 .. NSTEPS
    BY <1>1
  <2>2. P(NSTEPS)
    <3> HIDE DEF P
    <3> QED
      BY <1>1, <1>8
  <2> HIDE DEF m
  <2> QED
    BY <1>5, <2>1, <2>2
<1> HIDE DEF m, P, N
<1>10. Total(Weighted(c)) \div ONE <= Total(Weighted(b)) \div ONE
  BY <1>1, <1>2, <1>3, <1>9, Quotient
<1> QED
  BY <1>10 DEF Limit, Weighted

----------------------------------------------------------------------------
(* Types. *)

LEMMA PoolsType ==
  Pools \in Seq(Kinds) /\ Len(Pools) \in Nat /\ 1 <= Len(Pools)
<1>1. CASE Pools = <<"dirty">>
  <2>1. Pools \in Seq(Kinds) /\ Len(Pools) = 1
    BY <1>1 DEF Kinds
  <2> QED
    BY <2>1
<1>2. CASE Pools = <<"dirty", "muzzy">>
  <2>1. Pools \in Seq(Kinds) /\ Len(Pools) = 2
    BY <1>2 DEF Kinds
  <2> QED
    BY <2>1
<1> QED
  BY <1>1, <1>2, DecayAssumption

LEMMA IntervalType ==
  \A p \in Range(Pools) : p \in Kinds /\ INTERVAL[p] \in Nat \ {0}
BY PoolsType, ElementOfSeq, DecayAssumption DEF Range, Kinds

LEMMA PoolType ==
  ASSUME TypeOK, NEW t \in Thread
  PROVE  /\ Pool(t) \in Range(Pools)
         /\ Range(Pools) \subseteq Kinds
         /\ INTERVAL[Pool(t)] \in Nat \ {0}
         /\ decay[Pool(t)] \in [mtx : Thread \cup {None}, purging : BOOLEAN,
                                elapsed : Nat, deadline : Nat, nunpurged : Nat,
                                backlog : [1 .. NSTEPS -> Nat]]
<1>1. th[t].nth \in 1 .. Len(Pools)
  BY DEF TypeOK
<1>2. Pools \in Seq(Kinds)
  BY PoolsType
<1>3. Pool(t) \in Range(Pools)
  BY <1>1, <1>2 DEF Pool, Range
<1>4. Range(Pools) \subseteq Kinds
  BY <1>2, ElementOfSeq DEF Range
<1> QED
  BY <1>3, <1>4, DecayAssumption DEF TypeOK, Kinds

LEMMA NextPoolType ==
  ASSUME TypeOK, NEW t \in Thread
  PROVE  /\ NextPool(t) \in [pc : {"idle", "trylock"}, nth : 1 .. Len(Pools), limit : Nat,
                             max : Nat, stash : Seq(Nat), nstashed : Nat]
         /\ Idle \in [pc : {"idle", "trylock"}, nth : 1 .. Len(Pools), limit : Nat,
                      max : Nat, stash : Seq(Nat), nstashed : Nat]
<1>1. Len(Pools) \in Nat /\ 1 <= Len(Pools)
  BY PoolsType
<1>2. th[t].nth \in 1 .. Len(Pools)
  BY DEF TypeOK
<1>3. <<>> \in Seq(Nat)
  OBVIOUS
<1>4. Idle \in [pc : {"idle", "trylock"}, nth : 1 .. Len(Pools), limit : Nat,
                max : Nat, stash : Seq(Nat), nstashed : Nat]
  BY <1>1, <1>3 DEF Idle
<1>5. ASSUME th[t].nth < Len(Pools)
      PROVE  [Idle EXCEPT !.pc = "trylock", !.nth = th[t].nth + 1]
               \in [pc : {"idle", "trylock"}, nth : 1 .. Len(Pools), limit : Nat,
                   max : Nat, stash : Seq(Nat), nstashed : Nat]
  <2>1. th[t].nth + 1 \in 1 .. Len(Pools)
    BY <1>1, <1>2, <1>5
  <2> QED
    BY <1>4, <2>1
<1> QED
  BY <1>4, <1>5 DEF NextPool

DecayType == [mtx : Thread \cup {None}, purging : BOOLEAN, elapsed : Nat,
              deadline : Nat, nunpurged : Nat, backlog : [1 .. NSTEPS -> Nat]]

ThreadType == [pc : Steps, nth : 1 .. Len(Pools), limit : Nat, max : Nat,
               stash : Seq(Nat), nstashed : Nat]

\* A step of t that writes its state and the decay of a pool.
LEMMA TypeStep ==
  ASSUME TypeOK, NEW t \in Thread, NEW p \in Range(Pools),
         NEW d \in DecayType, NEW x \in ThreadType,
         pool' = pool, ticker' = ticker, frees' = frees,
         decay' = [decay EXCEPT ![p] = d], th' = [th EXCEPT ![t] = x]
  PROVE  TypeOK' /\ th'[t] = x /\ decay'[p] = d
<1>1. decay \in [Range(Pools) -> DecayType] /\ th \in [Thread -> ThreadType]
  BY DEF TypeOK, DecayType, ThreadType
<1>2. decay' \in [Range(Pools) -> DecayType] /\ th' \in [Thread -> ThreadType]
  BY <1>1
<1>3. th'[t] = x /\ decay'[p] = d
  BY <1>1
<1> QED
  BY <1>2, <1>3 DEF TypeOK, DecayType, ThreadType

\* What advancing the epoch leaves.
LEMMA AdvancedType ==
  ASSUME TypeOK, NEW p \in Range(Pools), p \in Kinds, NEW w \in Deadlines(p)
  PROVE  /\ npages(p) \in Nat
         /\ Limit(Advanced(p, w).backlog) \in Nat
         /\ Advanced(p, w) \in [mtx : Thread \cup {None}, purging : BOOLEAN,
                                elapsed : Nat, deadline : Nat, nunpurged : Nat,
                                backlog : [1 .. NSTEPS -> Nat]]
         /\ Advanced(p, w).deadline = w
         /\ Advanced(p, w).purging = decay[p].purging
         /\ Advanced(p, w).backlog =
              Backlog(decay[p], decay[p].elapsed \div INTERVAL[p], npages(p))
<1> DEFINE d == decay[p]
           n == d.elapsed \div INTERVAL[p]
           b == Backlog(d, n, npages(p))
<1>1. npages(p) \in Nat
  BY TotalNat DEF TypeOK, npages
<1>2. /\ INTERVAL[p] \in Nat \ {0} /\ NSTEPS \in Nat
      /\ d \in [mtx : Thread \cup {None}, purging : BOOLEAN,
                elapsed : Nat, deadline : Nat, nunpurged : Nat,
                backlog : [1 .. NSTEPS -> Nat]]
  BY DecayAssumption DEF TypeOK, Kinds
<1>3. n \in Nat /\ d.elapsed - n * INTERVAL[p] \in Nat
  BY <1>2, Quotient
<1>4. b \in [1 .. NSTEPS -> Nat]
  <2>1. Grown(d, npages(p)) \in Nat
    BY <1>1, <1>2 DEF Grown
  <2>2. ASSUME NEW i \in 1 .. NSTEPS, i + n <= NSTEPS PROVE d.backlog[i + n] \in Nat
    BY <1>2, <1>3, <2>2
  <2> HIDE DEF d, n
  <2> QED
    BY <2>1, <2>2 DEF Backlog
<1>5. Limit(b) \in Nat
  BY <1>4, LimitNat
<1>6. w \in Nat
  BY <1>2 DEF Deadlines
<1> DEFINE c == IF Limit(b) > npages(p) THEN Limit(b) ELSE npages(p)
<1>7. c \in Nat
  BY <1>1, <1>5
<1>8. Advanced(p, w) = [d EXCEPT !.elapsed = @ - n * INTERVAL[p], !.deadline = w,
                                 !.backlog = b, !.nunpurged = c]
  BY DEF Advanced
<1> HIDE DEF d, n, b, c
<1>9. /\ Advanced(p, w) \in [mtx : Thread \cup {None}, purging : BOOLEAN,
                             elapsed : Nat, deadline : Nat, nunpurged : Nat,
                             backlog : [1 .. NSTEPS -> Nat]]
      /\ Advanced(p, w).deadline = w
      /\ Advanced(p, w).purging = d.purging
      /\ Advanced(p, w).backlog = b
  BY <1>2, <1>3, <1>4, <1>6, <1>7, <1>8
<1> QED
  BY <1>1, <1>5, <1>9 DEF d, n, b

LEMMA InitInv ==
  ASSUME Init
  PROVE  IndInv
<1>1. PICK d \in [Range(Pools) -> UNION {Deadlines(p) : p \in Range(Pools)}] :
        /\ \A p \in Range(Pools) : d[p] \in Deadlines(p)
        /\ decay = [p \in Range(Pools) |->
                     [mtx |-> None, purging |-> FALSE, elapsed |-> 0,
                      deadline |-> d[p], nunpurged |-> 0,
                      backlog |-> [i \in 1 .. NSTEPS |-> 0]]]
  BY DEF Init
<1>2. \A p \in Range(Pools) : INTERVAL[p] \in Nat \ {0}
  BY IntervalType
<1>3. \A p \in Range(Pools) : d[p] \in Nat /\ INTERVAL[p] <= d[p]
  BY <1>1, <1>2 DEF Deadlines
<1>4. \A t \in Thread : th[t] = Idle
  BY DEF Init
<1>5. TypeOK
  <2>1. pool \in [Kinds -> Seq(Nat)]
    BY DEF Init
  <2>2. decay \in [Range(Pools) ->
                    [mtx : Thread \cup {None}, purging : BOOLEAN, elapsed : Nat,
                     deadline : Nat, nunpurged : Nat, backlog : [1 .. NSTEPS -> Nat]]]
    BY <1>1, <1>3
  <2>3. ticker \in [Thread -> Nat]
    BY DecayAssumption DEF Init
  <2>4. Idle \in [pc : Steps, nth : 1 .. Len(Pools), limit : Nat, max : Nat,
                  stash : Seq(Nat), nstashed : Nat]
    <3>1. <<>> \in Seq(Nat) /\ 1 \in 1 .. Len(Pools)
      BY PoolsType
    <3> QED
      BY <3>1 DEF Idle, Steps
  <2>5. th \in [Thread -> [pc : Steps, nth : 1 .. Len(Pools), limit : Nat, max : Nat,
                           stash : Seq(Nat), nstashed : Nat]]
    BY <2>4 DEF Init
  <2> QED
    BY <2>1, <2>2, <2>3, <2>5 DEF Init, TypeOK
<1>6. DeadlineAhead
  BY <1>1, <1>3 DEF DeadlineAhead
<1>7. FlagOfPurger
  <2>1. \A p \in Range(Pools) : InPurge(p) = {}
    BY <1>4 DEF InPurge, Idle
  <2>2. \A p \in Range(Pools) : decay[p].purging = FALSE
    BY <1>1
  <2> QED
    BY <2>1, <2>2 DEF FlagOfPurger
<1> QED
  BY <1>5, <1>6, <1>7 DEF IndInv

\* The flag's owner stays the same when a step of t moves no purge on or off
\* and leaves the flags alone.
LEMMA FlagKept ==
  ASSUME TypeOK, TypeOK', FlagOfPurger, NEW t \in Thread,
         \A u \in Thread \ {t} : th'[u] = th[u],
         \/ /\ th[t].pc \notin {"stash", "stashed", "relocked"}
            /\ th'[t].pc \notin {"stash", "stashed", "relocked"}
         \/ /\ th[t].pc \in {"stash", "stashed", "relocked"}
            /\ th'[t].pc \in {"stash", "stashed", "relocked"}
            /\ th'[t].nth = th[t].nth,
         \A p \in Range(Pools) : decay'[p].purging = decay[p].purging
  PROVE  FlagOfPurger'
<1>1. \A p \in Range(Pools) : InPurge(p)' = InPurge(p)
  BY DEF InPurge, Pool
<1> QED
  BY <1>1 DEF FlagOfPurger

LEMMA ClockInv ==
  ASSUME IndInv, Clock
  PROVE  IndInv'
<1> USE DEF IndInv
<1>1. decay' \in [Range(Pools) ->
                   [mtx : Thread \cup {None}, purging : BOOLEAN, elapsed : Nat,
                    deadline : Nat, nunpurged : Nat, backlog : [1 .. NSTEPS -> Nat]]]
  <2>1. ASSUME NEW p \in Range(Pools) PROVE Later(p) \in Nat
    <3>1. INTERVAL[p] \in Nat /\ NSTEPS \in Nat /\ decay[p].elapsed \in Nat
      BY IntervalType, DecayAssumption DEF TypeOK
    <3>2. NSTEPS * INTERVAL[p] \in Nat
      BY <3>1
    <3> QED
      BY <3>1, <3>2 DEF Later
  <2> QED
    BY <2>1 DEF TypeOK, Clock
<1>2. TypeOK'
  BY <1>1 DEF TypeOK, Clock
<1>3. \A p \in Range(Pools) : /\ decay'[p].deadline = decay[p].deadline
                              /\ decay'[p].purging = decay[p].purging
  BY DEF TypeOK, Clock
<1>4. DeadlineAhead'
  BY <1>3 DEF DeadlineAhead
<1>5. \A p \in Range(Pools) : InPurge(p)' = InPurge(p)
  BY DEF InPurge, Pool, Clock
<1>6. FlagOfPurger'
  BY <1>3, <1>5 DEF FlagOfPurger
<1> QED
  BY <1>2, <1>4, <1>6

LEMMA TickInv ==
  ASSUME TypeOK, NEW t \in Thread, th[t].pc = "idle", Tick(t)
  PROVE  /\ ticker' \in [Thread -> Nat]
         /\ th' \in [Thread -> [pc : Steps, nth : 1 .. Len(Pools), limit : Nat, max : Nat,
                                stash : Seq(Nat), nstashed : Nat]]
         /\ th'[t].pc \notin {"stash", "stashed", "relocked"}
         /\ \A u \in Thread \ {t} : th'[u] = th[u]
<1>1. CASE ticker[t] > 0 /\ ticker' = [ticker EXCEPT ![t] = @ - 1] /\ th' = th
  BY <1>1 DEF TypeOK
<1>2. CASE /\ ticker' = [ticker EXCEPT ![t] = NTICKS]
           /\ th' = [th EXCEPT ![t] = [Idle EXCEPT !.pc = "trylock"]]
  <2>1. [Idle EXCEPT !.pc = "trylock"]
          \in [pc : Steps, nth : 1 .. Len(Pools), limit : Nat, max : Nat,
               stash : Seq(Nat), nstashed : Nat]
    BY NextPoolType DEF Idle, Steps
  <2>2. [Idle EXCEPT !.pc = "trylock"].pc = "trylock"
    BY DEF Idle
  <2> QED
    BY <1>2, <2>1, <2>2, DecayAssumption DEF TypeOK
<1> QED
  BY <1>1, <1>2 DEF Tick

LEMMA ProgramInv ==
  ASSUME IndInv, NEW t \in Thread, Program(t)
  PROVE  IndInv'
<1> USE DEF IndInv
<1>1. th[t].pc = "idle" /\ Tick(t) /\ decay' = decay
  BY DEF Program, Dalloc, Recycle, Fresh
<1>2. pool' \in [Kinds -> Seq(Nat)] /\ frees' \in Nat
  <2>1. CASE Dalloc(t)
    <3>1. PICK n \in PageCounts : pool' = [pool EXCEPT !["dirty"] = Append(@, n)]
      BY <2>1 DEF Dalloc
    <3>2. n \in Nat
      BY DecayAssumption
    <3>3. Append(pool["dirty"], n) \in Seq(Nat)
      BY <3>2 DEF TypeOK, Kinds
    <3>4. pool' \in [Kinds -> Seq(Nat)]
      BY <3>1, <3>3 DEF TypeOK
    <3> QED
      BY <2>1, <3>4 DEF Dalloc, TypeOK
  <2>2. CASE Recycle(t)
    <3>1. PICK p \in Kinds : \E i \in 1 .. Len(pool[p]) :
            pool' = [pool EXCEPT ![p] = RemoveAt(@, i)]
      BY <2>2 DEF Recycle
    <3>0. PICK i \in 1 .. Len(pool[p]) : pool' = [pool EXCEPT ![p] = RemoveAt(@, i)]
      BY <3>1
    <3>2. pool[p] \in Seq(Nat)
      BY DEF TypeOK
    <3>3. RemoveAt(pool[p], i) \in Seq(Nat)
      <4>1. SubSeq(pool[p], 1, i - 1) \in Seq(Nat)
        BY <3>2
      <4>2. SubSeq(pool[p], i + 1, Len(pool[p])) \in Seq(Nat)
        BY <3>2
      <4> QED
        BY <4>1, <4>2 DEF RemoveAt
    <3>4. pool' \in [Kinds -> Seq(Nat)]
      BY <3>0, <3>3 DEF TypeOK
    <3> QED
      BY <2>2, <3>4 DEF Recycle, TypeOK
  <2>3. CASE Fresh(t)
    BY <2>3 DEF Fresh, TypeOK
  <2> QED
    BY <2>1, <2>2, <2>3 DEF Program
<1>3. TypeOK'
  BY <1>1, <1>2, TickInv DEF TypeOK
<1>4. DeadlineAhead'
  BY <1>1 DEF DeadlineAhead
<1>5. FlagOfPurger'
  BY <1>1, <1>3, TickInv, FlagKept
<1> QED
  BY <1>3, <1>4, <1>5

LEMMA BusyInv ==
  ASSUME IndInv, NEW t \in Thread, Busy(t)
  PROVE  IndInv'
<1> USE DEF IndInv
<1>1. TypeOK'
  BY NextPoolType DEF TypeOK, Busy, Steps
<1>2. DeadlineAhead'
  BY DEF DeadlineAhead, Busy
<1>3. FlagOfPurger'
  <2>1. th'[t].pc \in {"idle", "trylock"} /\ th[t].pc = "trylock"
    BY NextPoolType DEF TypeOK, Busy
  <2> QED
    BY <1>1, <2>1, FlagKept DEF Busy, TypeOK
<1> QED
  BY <1>1, <1>2, <1>3

LEMMA TryLockInv ==
  ASSUME IndInv, NEW t \in Thread, TryLock(t)
  PROVE  IndInv'
<1> USE DEF IndInv
<1>1. TypeOK'
  <2>1. [decay[Pool(t)] EXCEPT !.mtx = t] \in DecayType
    BY PoolType DEF DecayType
  <2>2. [th[t] EXCEPT !.pc = "maybe"] \in ThreadType
    BY DEF TypeOK, ThreadType, Steps
  <2>3. /\ decay' = [decay EXCEPT ![Pool(t)] = [decay[Pool(t)] EXCEPT !.mtx = t]]
        /\ th' = [th EXCEPT ![t] = [th[t] EXCEPT !.pc = "maybe"]]
    BY DEF TryLock
  <2>4. TypeOK /\ Pool(t) \in Range(Pools)
    BY PoolType
  <2>5. pool' = pool /\ ticker' = ticker /\ frees' = frees
    BY DEF TryLock
  <2> QED
    BY ONLY <2>1, <2>2, <2>3, <2>4, <2>5, TypeStep
<1>2. \A p \in Range(Pools) : /\ decay'[p].deadline = decay[p].deadline
                              /\ decay'[p].purging = decay[p].purging
  BY PoolType DEF TypeOK, TryLock
<1>3. DeadlineAhead'
  BY <1>2 DEF DeadlineAhead
<1>4. FlagOfPurger'
  <2>1. th'[t].pc = "maybe" /\ th[t].pc = "trylock"
    BY DEF TypeOK, TryLock
  <2> QED
    BY <1>1, <1>2, <2>1, FlagKept DEF TryLock, TypeOK
<1> QED
  BY <1>1, <1>3, <1>4

LEMMA NotReachedInv ==
  ASSUME IndInv, NEW t \in Thread, NotReached(t)
  PROVE  IndInv'
<1> USE DEF IndInv
<1>1. TypeOK'
  <2>1. [decay[Pool(t)] EXCEPT !.mtx = None] \in DecayType
    BY PoolType DEF DecayType
  <2>2. NextPool(t) \in ThreadType
    BY NextPoolType DEF ThreadType, Steps
  <2>3. decay' = [decay EXCEPT ![Pool(t)] = [decay[Pool(t)] EXCEPT !.mtx = None]]
    BY DEF NotReached
  <2> QED
    BY <2>1, <2>2, <2>3, PoolType, TypeStep DEF NotReached
<1>2. \A p \in Range(Pools) : /\ decay'[p].deadline = decay[p].deadline
                              /\ decay'[p].purging = decay[p].purging
  BY PoolType DEF TypeOK, NotReached
<1>3. DeadlineAhead'
  BY <1>2 DEF DeadlineAhead
<1>4. FlagOfPurger'
  <2>1. th'[t].pc \in {"idle", "trylock"} /\ th[t].pc = "maybe"
    BY NextPoolType DEF TypeOK, NotReached
  <2> QED
    BY <1>1, <1>2, <2>1, FlagKept DEF NotReached, TypeOK
<1> QED
  BY <1>1, <1>3, <1>4

LEMMA AdvanceOnlyInv ==
  ASSUME IndInv, NEW t \in Thread, AdvanceOnly(t)
  PROVE  IndInv'
<1> USE DEF IndInv
<1> DEFINE p == Pool(t)
<1>1. PICK w \in Deadlines(p) :
        decay' = [decay EXCEPT ![p] = [Advanced(p, w) EXCEPT !.mtx = None]]
  BY DEF AdvanceOnly
<1>2. p \in Range(Pools) /\ p \in Kinds /\ INTERVAL[p] \in Nat \ {0}
  BY PoolType
<1> HIDE DEF p
<1>3. TypeOK'
  <2>1. [Advanced(p, w) EXCEPT !.mtx = None] \in DecayType
    BY <1>2, AdvancedType DEF DecayType
  <2>2. NextPool(t) \in ThreadType
    BY NextPoolType DEF ThreadType, Steps
  <2> QED
    BY <1>1, <1>2, <2>1, <2>2, TypeStep DEF AdvanceOnly
<1>4. /\ decay'[p].deadline = w
      /\ decay'[p].purging = decay[p].purging
      /\ \A q \in Range(Pools) \ {p} : decay'[q] = decay[q]
  BY <1>1, <1>2, AdvancedType DEF TypeOK
<1>5. DeadlineAhead'
  BY <1>2, <1>4 DEF DeadlineAhead, Deadlines
<1>6. FlagOfPurger'
  <2>1. th'[t].pc \in {"idle", "trylock"} /\ th[t].pc = "maybe"
    BY NextPoolType DEF TypeOK, AdvanceOnly
  <2> QED
    BY <1>3, <1>4, <2>1, FlagKept DEF AdvanceOnly, TypeOK
<1> QED
  BY <1>3, <1>5, <1>6

LEMMA AdvanceAndPurgeInv ==
  ASSUME IndInv, NEW t \in Thread, AdvanceAndPurge(t)
  PROVE  IndInv'
<1> USE DEF IndInv
<1>0. PICK p \in Range(Pools) : p = Pool(t) /\ p \in Kinds /\ INTERVAL[p] \in Nat \ {0}
  BY PoolType
<1>1. PICK w \in Deadlines(p) :
        LET limit == Limit(Advanced(p, w).backlog)
        IN /\ npages(p) > limit
           /\ ~Advanced(p, w).purging
           /\ decay' = [decay EXCEPT ![p] =
                          [Advanced(p, w) EXCEPT !.mtx = None, !.purging = TRUE]]
           /\ th' = [th EXCEPT ![t].pc = "stash", ![t].limit = limit,
                               ![t].max = npages(p) - limit]
  BY <1>0 DEF AdvanceAndPurge, MayPurge
<1>3. npages(p) - Limit(Advanced(p, w).backlog) \in Nat
  BY <1>1, <1>0, AdvancedType
<1> DEFINE x == [th[t] EXCEPT !.pc = "stash", !.limit = Limit(Advanced(p, w).backlog),
                              !.max = npages(p) - Limit(Advanced(p, w).backlog)]
<1>4. TypeOK' /\ th'[t] = x
  <2>0. Advanced(p, w) \in DecayType
    BY <1>0, AdvancedType DEF DecayType
  <2>1. [Advanced(p, w) EXCEPT !.mtx = None, !.purging = TRUE] \in DecayType
    BY <2>0 DEF DecayType
  <2>2. x \in ThreadType
    <3>1. Limit(Advanced(p, w).backlog) \in Nat
      BY <1>0, AdvancedType
    <3>2. th[t] \in ThreadType
      BY DEF TypeOK, ThreadType
    <3> QED
      BY <1>3, <3>1, <3>2 DEF ThreadType, Steps
  <2>3. th' = [th EXCEPT ![t] = x]
    BY <1>1
  <2> HIDE DEF x
  <2> QED
    <3>1. pool' = pool /\ ticker' = ticker /\ frees' = frees
      BY DEF AdvanceAndPurge
    <3>2. decay' = [decay EXCEPT ![p] = [Advanced(p, w) EXCEPT !.mtx = None, !.purging = TRUE]]
      BY <1>1
    <3> QED
      BY <2>1, <2>2, <2>3, <3>1, <3>2, TypeStep
<1>5. /\ decay'[p].deadline = w
      /\ ~decay[p].purging /\ decay'[p].purging
      /\ \A q \in Range(Pools) \ {p} : decay'[q] = decay[q]
  <2> QED
    BY <1>1, <1>0, AdvancedType DEF TypeOK
<1>6. DeadlineAhead'
  <2> QED
    BY <1>0, <1>5 DEF DeadlineAhead, Deadlines
<1>7. FlagOfPurger'
  <2>1. InPurge(p) = {}
    BY <1>0, <1>5 DEF FlagOfPurger
  <2>2. /\ th'[t].pc = "stash" /\ Pool(t)' = Pool(t)
        /\ \A u \in Thread \ {t} : th'[u] = th[u] /\ Pool(u)' = Pool(u)
    BY <1>1 DEF TypeOK, Pool
  <2>3. InPurge(p)' = {t}
    BY <1>0, <2>1, <2>2 DEF InPurge
  <2>4. \A q \in Range(Pools) \ {p} : InPurge(q)' = InPurge(q)
    <3>1. th[t].pc = "maybe"
      BY DEF AdvanceAndPurge
    <3> QED
      BY <1>0, <2>2, <3>1 DEF InPurge
  <2> QED
    <3>1. \A q \in Range(Pools) \ {p} :
            /\ decay'[q].purging <=> InPurge(q)' # {}
            /\ \A a, b \in InPurge(q)' : a = b
      BY <1>5, <2>4 DEF FlagOfPurger
    <3>2. /\ decay'[p].purging <=> InPurge(p)' # {}
          /\ \A a, b \in InPurge(p)' : a = b
      BY <1>5, <2>3
    <3> QED
      BY <3>1, <3>2 DEF FlagOfPurger
<1> QED
  BY <1>4, <1>6, <1>7

LEMMA EvictInv ==
  ASSUME IndInv, NEW t \in Thread, Evict(t)
  PROVE  IndInv'
<1> USE DEF IndInv
<1> DEFINE s == pool["dirty"]
           x == [th[t] EXCEPT !.stash = Append(@, Head(s)), !.nstashed = @ + Head(s)]
<1>1. s \in Seq(Nat) /\ s # <<>>
  <2>1. Total(<<>>) = 0
    <3>1. <<>> \in Seq(Nat) /\ Len(<<>>) = 0
      OBVIOUS
    <3> QED
      BY <3>1, PartialSums
  <2>2. s \in Seq(Nat)
    BY DEF TypeOK, Kinds
  <2>3. npages("dirty") > th[t].limit /\ th[t].limit \in Nat
    BY DEF Evict, Evictable, TypeOK
  <2> QED
    BY <2>1, <2>2, <2>3 DEF npages
<1>2. Head(s) \in Nat /\ Tail(s) \in Seq(Nat)
  BY <1>1
<1>3. x \in ThreadType
  <2>1. th[t] \in ThreadType
    BY DEF TypeOK, ThreadType
  <2>2. /\ Append(th[t].stash, Head(s)) \in Seq(Nat)
        /\ th[t].nstashed + Head(s) \in Nat
    BY <1>2, <2>1 DEF ThreadType
  <2> HIDE DEF s
  <2> QED
    BY <2>1, <2>2 DEF ThreadType
<1>4. th' = [th EXCEPT ![t] = x] /\ pool' = [pool EXCEPT !["dirty"] = Tail(s)]
  BY DEF Evict
<1> HIDE DEF s
<1>5. TypeOK' /\ th'[t] = x
  <2> HIDE DEF x
  <2>1. th \in [Thread -> ThreadType]
    BY DEF TypeOK, ThreadType
  <2>2. th' \in [Thread -> ThreadType] /\ th'[t] = x
    BY <1>3, <1>4, <2>1
  <2>3. pool' \in [Kinds -> Seq(Nat)]
    BY <1>2, <1>4 DEF TypeOK
  <2> QED
    BY <2>2, <2>3 DEF Evict, TypeOK, ThreadType
<1>6. DeadlineAhead'
  BY DEF DeadlineAhead, Evict
<1>7. FlagOfPurger'
  <2>1. th'[t].pc = "stash" /\ th[t].pc = "stash" /\ th'[t].nth = th[t].nth
    BY <1>5 DEF Evict, TypeOK
  <2> QED
    BY <1>4, <1>5, <2>1, FlagKept DEF Evict, TypeOK
<1> QED
  BY <1>5, <1>6, <1>7

LEMMA StashDoneInv ==
  ASSUME IndInv, NEW t \in Thread, StashDone(t)
  PROVE  IndInv'
<1> USE DEF IndInv
<1> DEFINE x == [Idle EXCEPT !.pc = "stashed", !.nth = th[t].nth, !.stash = th[t].stash]
<1>1. x \in ThreadType
  BY NextPoolType DEF TypeOK, ThreadType, Steps
<1>2. th' = [th EXCEPT ![t] = x]
  BY DEF StashDone
<1>3. x.pc = "stashed" /\ x.nth = th[t].nth
  BY DEF Idle
<1> HIDE DEF x
<1>4. TypeOK' /\ th'[t] = x
  BY <1>1, <1>2 DEF StashDone, TypeOK, ThreadType
<1>5. DeadlineAhead'
  BY DEF DeadlineAhead, StashDone
<1>6. FlagOfPurger'
  BY <1>2, <1>3, <1>4, FlagKept DEF StashDone, TypeOK
<1> QED
  BY <1>4, <1>5, <1>6

LEMMA ToMuzzyInv ==
  ASSUME IndInv, NEW t \in Thread, ToMuzzy(t)
  PROVE  IndInv'
<1> USE DEF IndInv
<1> DEFINE s == th[t].stash
           x == [th[t] EXCEPT !.stash = Tail(s)]
<1>1. s \in Seq(Nat) /\ s # <<>>
  BY DEF ToMuzzy, TypeOK
<1>2. Head(s) \in Nat /\ Tail(s) \in Seq(Nat)
  BY <1>1
<1>3. x \in ThreadType
  BY <1>2 DEF TypeOK, ThreadType
<1>4. /\ th' = [th EXCEPT ![t] = x]
      /\ pool' = [pool EXCEPT !["muzzy"] = Append(@, Head(s))]
  BY DEF ToMuzzy
<1> HIDE DEF s
<1>5. TypeOK' /\ th'[t] = x
  <2>1. Append(pool["muzzy"], Head(s)) \in Seq(Nat)
    BY <1>2 DEF TypeOK, Kinds
  <2>2. pool' \in [Kinds -> Seq(Nat)]
    BY <1>4, <2>1 DEF TypeOK
  <2> HIDE DEF x
  <2>3. th \in [Thread -> ThreadType]
    BY DEF TypeOK, ThreadType
  <2>4. th' \in [Thread -> ThreadType] /\ th'[t] = x
    BY <1>3, <1>4, <2>3
  <2> QED
    BY <2>2, <2>4 DEF ToMuzzy, TypeOK, ThreadType
<1>6. DeadlineAhead'
  BY DEF DeadlineAhead, ToMuzzy
<1>7. FlagOfPurger'
  <2>1. th'[t].pc = "stashed" /\ th[t].pc = "stashed" /\ th'[t].nth = th[t].nth
    BY <1>5 DEF ToMuzzy, TypeOK
  <2> QED
    BY <1>4, <1>5, <2>1, FlagKept DEF ToMuzzy, TypeOK
<1> QED
  BY <1>5, <1>6, <1>7

LEMMA RelockInv ==
  ASSUME IndInv, NEW t \in Thread, Relock(t)
  PROVE  IndInv'
<1> USE DEF IndInv
<1>1. TypeOK'
  <2>1. [decay[Pool(t)] EXCEPT !.mtx = t] \in DecayType
    BY PoolType DEF DecayType
  <2>2. [th[t] EXCEPT !.pc = "relocked"] \in ThreadType
    BY DEF TypeOK, ThreadType, Steps
  <2>3. /\ decay' = [decay EXCEPT ![Pool(t)] = [decay[Pool(t)] EXCEPT !.mtx = t]]
        /\ th' = [th EXCEPT ![t] = [th[t] EXCEPT !.pc = "relocked"]]
    BY DEF Relock
  <2>4. TypeOK /\ Pool(t) \in Range(Pools)
    BY PoolType
  <2>5. pool' = pool /\ ticker' = ticker /\ frees' = frees
    BY DEF Relock
  <2> QED
    BY ONLY <2>1, <2>2, <2>3, <2>4, <2>5, TypeStep
<1>2. \A p \in Range(Pools) : /\ decay'[p].deadline = decay[p].deadline
                              /\ decay'[p].purging = decay[p].purging
  BY PoolType DEF TypeOK, Relock
<1>3. DeadlineAhead'
  BY <1>2 DEF DeadlineAhead
<1>4. FlagOfPurger'
  <2>1. th'[t].pc = "relocked" /\ th[t].pc = "stashed" /\ th'[t].nth = th[t].nth
    BY DEF TypeOK, Relock
  <2> QED
    BY <1>1, <1>2, <2>1, FlagKept DEF Relock, TypeOK
<1> QED
  BY <1>1, <1>3, <1>4

\* Only the purger of a pool takes its flag down, and it purges no more.
LEMMA PurgeDoneInv ==
  ASSUME IndInv, NEW t \in Thread, PurgeDone(t)
  PROVE  IndInv'
<1> USE DEF IndInv
<1>1. PICK p \in Range(Pools) : p = Pool(t)
  BY PoolType
<1> DEFINE d == [decay[p] EXCEPT !.mtx = None, !.purging = FALSE]
<1>2. TypeOK' /\ th'[t] = NextPool(t) /\ decay'[p] = d
  <2>1. d \in DecayType
    BY <1>1, PoolType DEF DecayType
  <2>2. NextPool(t) \in ThreadType
    BY NextPoolType DEF ThreadType, Steps
  <2>3. decay' = [decay EXCEPT ![p] = d]
    BY <1>1 DEF PurgeDone, Purged
  <2>4. /\ pool' = pool /\ ticker' = ticker /\ frees' = frees
        /\ th' = [th EXCEPT ![t] = NextPool(t)]
    BY DEF PurgeDone
  <2> HIDE DEF d
  <2> QED
    BY <2>1, <2>2, <2>3, <2>4, TypeStep
<1>3. /\ decay'[p].deadline = decay[p].deadline /\ ~decay'[p].purging
      /\ \A q \in Range(Pools) \ {p} : decay'[q] = decay[q]
  <2>1. d.deadline = decay[p].deadline /\ ~d.purging
    BY DEF TypeOK
  <2>2. \A q \in Range(Pools) \ {p} : decay'[q] = decay[q]
    BY <1>1 DEF PurgeDone, Purged, TypeOK
  <2> QED
    BY <1>2, <2>1, <2>2
<1>4. DeadlineAhead'
  BY <1>3 DEF DeadlineAhead
<1>5. FlagOfPurger'
  <2>1. th[t].pc = "relocked" /\ th'[t].pc \in {"idle", "trylock"}
    BY <1>2, NextPoolType DEF PurgeDone
  <2>2. \A u \in Thread \ {t} : th'[u] = th[u] /\ Pool(u)' = Pool(u)
    BY DEF PurgeDone, TypeOK, Pool
  <2>3. t \in InPurge(p)
    BY <1>1, <2>1 DEF InPurge
  <2>4. \A u \in InPurge(p) : u = t
    BY <2>3 DEF FlagOfPurger
  <2>5. InPurge(p)' = {}
    BY <2>1, <2>2, <2>4 DEF InPurge
  <2>6. \A q \in Range(Pools) \ {p} : InPurge(q)' = InPurge(q)
    BY <1>1, <2>1, <2>2 DEF InPurge
  <2>7. \A q \in Range(Pools) \ {p} :
          /\ decay'[q].purging <=> InPurge(q)' # {}
          /\ \A a, b \in InPurge(q)' : a = b
    BY <1>3, <2>6 DEF FlagOfPurger
  <2>8. /\ decay'[p].purging <=> InPurge(p)' # {}
        /\ \A a, b \in InPurge(p)' : a = b
    BY <1>3, <2>5
  <2> QED
    BY <2>7, <2>8 DEF FlagOfPurger
<1> QED
  BY <1>2, <1>4, <1>5

----------------------------------------------------------------------------
(* The theorems. *)

(* Every step keeps the invariant: the flag of a pool is up exactly while a
   thread purges the pool, and by that thread alone it goes down, so nobody
   else can put it up meanwhile (arena.c:590, 603, 606). *)
THEOREM InductiveInvariant == Spec => []IndInv
<1>1. Init => IndInv
  BY InitInv
<1>2. IndInv /\ [Next]_vars => IndInv'
  <2>1. ASSUME IndInv, Next PROVE IndInv'
    <3>1. ASSUME NEW t \in Thread, Program(t) \/ arena_decay(t) PROVE IndInv'
      BY <2>1, <3>1, ProgramInv, BusyInv, TryLockInv, NotReachedInv, AdvanceOnlyInv,
         AdvanceAndPurgeInv, EvictInv, StashDoneInv, ToMuzzyInv, RelockInv,
         PurgeDoneInv DEF arena_decay
    <3> QED
      BY <2>1, <3>1, ClockInv DEF Next
  <2>2. ASSUME IndInv, UNCHANGED vars PROVE IndInv'
    BY <2>2 DEF vars, IndInv, TypeOK, DeadlineAhead, FlagOfPurger, InPurge, Pool
  <2> QED
    BY <2>1, <2>2
<1> QED
  BY <1>1, <1>2, PTL DEF Spec

(* One thread at most purges a pool, exactly while its flag is set, and an
   epoch that has come to its deadline moves on (arena.c:521, 603). *)
THEOREM OnePurgeInvariant == Spec => []OnePurge
<1>1. IndInv => OnePurge
  <2> SUFFICES ASSUME IndInv, NEW p \in Range(Pools)
               PROVE  /\ Cardinality(InPurge(p)) = IF decay[p].purging THEN 1 ELSE 0
                      /\ DeadlineReached(decay[p]) =>
                           decay[p].elapsed \div INTERVAL[p] > 0
    BY DEF OnePurge
  <2>1. ASSUME DeadlineReached(decay[p])
        PROVE  decay[p].elapsed \div INTERVAL[p] > 0
    <3>1. /\ decay[p].elapsed \in Nat /\ decay[p].deadline \in Nat
          /\ INTERVAL[p] \in Nat \ {0} /\ INTERVAL[p] <= decay[p].deadline
      BY IntervalType DEF IndInv, TypeOK, DeadlineAhead
    <3>2. decay[p].elapsed >= INTERVAL[p]
      BY <2>1, <3>1 DEF DeadlineReached
    <3> QED
      BY <3>1, <3>2, Quotient
  <2>2. CASE decay[p].purging
    <3>1. PICK t : t \in InPurge(p)
      BY <2>2 DEF IndInv, FlagOfPurger
    <3>2. InPurge(p) = {t}
      BY <3>1 DEF IndInv, FlagOfPurger
    <3> QED
      BY <2>1, <2>2, <3>2, FS_Singleton
  <2>3. CASE ~decay[p].purging
    <3>1. InPurge(p) = {}
      BY <2>3 DEF IndInv, FlagOfPurger
    <3> QED
      BY <2>1, <2>3, <3>1, FS_EmptySet
  <2> QED
    BY <2>1, <2>2, <2>3
<1> QED
  BY <1>1, InductiveInvariant, PTL

(* The pages a pool may keep become no more as long as the pool does not grow,
   whatever its history: the weights ascend, and an epoch moves up at each
   advance (arena.c:484, 499, 554). *)
THEOREM LimitOnlyFalls == Spec => LimitFalls
<1> DEFINE Falls == \A p \in Range(Pools) :
                      /\ decay'[p].backlog # decay[p].backlog
                      /\ npages(p) <= decay[p].nunpurged
                      => Limit(decay'[p].backlog) <= Limit(decay[p].backlog)
<1>1. ASSUME IndInv, [Next]_vars PROVE Falls
  <2> SUFFICES ASSUME NEW p \in Range(Pools),
                      decay'[p].backlog # decay[p].backlog,
                      npages(p) <= decay[p].nunpurged
               PROVE  Limit(decay'[p].backlog) <= Limit(decay[p].backlog)
    OBVIOUS
  <2>1. PICK t \in Thread : /\ AdvanceOnly(t) \/ AdvanceAndPurge(t)
                            /\ p = Pool(t)
    <3>1. ~UNCHANGED decay
      OBVIOUS
    <3>2. ~Clock
      <4>1. ASSUME Clock PROVE decay'[p].backlog = decay[p].backlog
        BY <1>1, <4>1 DEF Clock, IndInv, TypeOK
      <4> QED
        BY <4>1
    <3>3. PICK t \in Thread : arena_decay(t)
      BY <1>1, <3>1, <3>2 DEF Next, vars, Program, Dalloc, Recycle, Fresh
    <3>4. ~TryLock(t) /\ ~Relock(t)
      <4>1. ASSUME TryLock(t) PROVE decay'[p].backlog = decay[p].backlog
        BY <1>1, <4>1, PoolType DEF IndInv, TypeOK, TryLock
      <4>2. ASSUME Relock(t) PROVE decay'[p].backlog = decay[p].backlog
        BY <1>1, <4>2, PoolType DEF IndInv, TypeOK, Relock
      <4> QED
        BY <4>1, <4>2
    <3>5. ~NotReached(t) /\ ~PurgeDone(t)
      <4>1. ASSUME NotReached(t) PROVE decay'[p].backlog = decay[p].backlog
        BY <1>1, <4>1, PoolType DEF IndInv, TypeOK, NotReached
      <4>2. ASSUME PurgeDone(t) PROVE decay'[p].backlog = decay[p].backlog
        BY <1>1, <4>2, PoolType DEF IndInv, TypeOK, PurgeDone, Purged
      <4> QED
        BY <4>1, <4>2
    <3>6. AdvanceOnly(t) \/ AdvanceAndPurge(t)
      BY <3>1, <3>3, <3>4, <3>5 DEF arena_decay, Busy, Evict, StashDone, ToMuzzy
    <3>7. p = Pool(t)
      BY <1>1, <3>6 DEF AdvanceOnly, AdvanceAndPurge, IndInv, TypeOK
    <3> QED
      BY <3>6, <3>7
  <2>2. PICK w \in Deadlines(p) : decay'[p].backlog = Advanced(p, w).backlog
    <3>1. CASE AdvanceOnly(t)
      BY <1>1, <2>1, <3>1, AdvancedType, IntervalType DEF AdvanceOnly, IndInv, TypeOK
    <3>2. CASE AdvanceAndPurge(t)
      <4>1. PICK w \in Deadlines(p) :
              decay' = [decay EXCEPT ![p] =
                          [Advanced(p, w) EXCEPT !.mtx = None, !.purging = TRUE]]
        BY <2>1, <3>2 DEF AdvanceAndPurge
      <4>2. Advanced(p, w) \in DecayType /\ decay \in [Range(Pools) -> DecayType]
        BY <1>1, AdvancedType, IntervalType DEF DecayType, IndInv, TypeOK
      <4>3. [Advanced(p, w) EXCEPT !.mtx = None, !.purging = TRUE].backlog
              = Advanced(p, w).backlog
        BY <4>2 DEF DecayType
      <4> QED
        BY <4>1, <4>2, <4>3
    <3> QED
      BY <2>1, <3>1, <3>2
  <2> DEFINE k == decay[p].elapsed \div INTERVAL[p]
  <2>3. /\ decay[p].backlog \in [1 .. NSTEPS -> Nat] /\ k \in Nat
        /\ decay[p].nunpurged \in Nat /\ npages(p) \in Nat
        /\ decay'[p].backlog \in [1 .. NSTEPS -> Nat]
        /\ decay'[p].backlog = Backlog(decay[p], k, npages(p))
    BY <1>1, <2>2, IntervalType, AdvancedType, Quotient DEF IndInv, TypeOK
  <2>4. Grown(decay[p], npages(p)) = 0
    BY <2>3 DEF Grown
  <2>5. \A i \in 1 .. NSTEPS :
          decay'[p].backlog[i] = IF i # NSTEPS /\ i + k <= NSTEPS
                                 THEN decay[p].backlog[i + k] ELSE 0
    BY <2>3, <2>4 DEF Backlog
  <2> HIDE DEF k
  <2> QED
    BY <2>3, <2>5, LimitOfMoved
<1>2. [][IndInv /\ [Next]_vars => Falls]_vars
  BY <1>1, PTL
<1> QED
  BY <1>2, InductiveInvariant, PTL DEF Spec, LimitFalls
=============================================================================
