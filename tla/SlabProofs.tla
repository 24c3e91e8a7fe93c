------------------------------ MODULE SlabProofs ------------------------------
(***************************************************************************)
(* Slabs and their blocks, for any threads, any slabs and any geometry.    *)
(* For any classes: thread caches never overflow a way, every lock is held *)
(* where the code has it, and threads that wait in a circle fill different *)
(* classes. With one size class: no block is in two places, no two blocks  *)
(* overlap, and the bitmap of a slab is that of its blocks; and with one   *)
(* thread that frees, no slab is released while it is in use.              *)
(***************************************************************************)
EXTENDS SlabInv, FiniteSetTheorems, SequenceTheorems, WellFoundedInduction, TLAPS

----------------------------------------------------------------------------
(* Numbers. *)

LEMMA Least ==
  ASSUME NEW S \in SUBSET Nat, S # {}
  PROVE  \E x \in S : \A y \in S : x <= y
<1> DEFINE R == {r \in Nat \X Nat : r[1] < r[2]}
<1>1. OpToRel(<, Nat) = R
  BY DEF OpToRel
<1>2. IsWellFoundedOn(R, Nat)
  BY Zenon, <1>1, NatLessThanWellFounded
<1>3. PICK x \in S : \A y \in S : <<y, x>> \notin R
  <2> HIDE DEF R
  <2> QED
    BY <1>2, WFMin
<1>4. \A y \in S : ~ (y < x)
  BY <1>3
<1> QED
  BY <1>4

LEMMA Greatest ==
  ASSUME NEW n \in Nat, NEW S \in SUBSET (0 .. n), S # {}
  PROVE  \E x \in S : \A y \in S : y <= x
<1> DEFINE T == {n - x : x \in S}
<1>1. \A x \in S : x \in Nat /\ x <= n /\ n - x \in Nat
  OBVIOUS
<1>2. T \subseteq Nat /\ T # {}
  BY <1>1
<1>3. PICK z \in T : \A y \in T : z <= y
  <2> HIDE DEF T
  <2> QED
    BY <1>2, Least
<1>4. PICK x \in S : z = n - x
  BY <1>3
<1>5. ASSUME NEW y \in S PROVE y <= x
  <2>1. n - x <= n - y
    BY <1>3, <1>4
  <2> QED
    BY <1>1, <2>1
<1> QED
  BY <1>5

LEMMA Quotient ==
  ASSUME NEW a \in Int, NEW d \in Nat \ {0}
  PROVE  /\ a \div d \in Int
         /\ a % d \in 0 .. d - 1
         /\ \A s \in Nat : a < s => a \div d < s
OBVIOUS

----------------------------------------------------------------------------
(* Lists. *)

LEMMA Listing ==
  ASSUME NEW S, NEW s \in Seq(S), NEW v
  PROVE  /\ Elems(s) \subseteq S
         /\ v \in Elems(s) => Place(s, v) \in 1 .. Len(s) /\ s[Place(s, v)] = v
BY DEF Elems, Place

LEMMA WithoutSeq ==
  ASSUME NEW S, NEW s \in Seq(S), NEW v
  PROVE  Without(s, v) \in Seq(S)
<1>1. CASE v \in Elems(s)
  <2>1. PICK i \in 1 .. Len(s) : i = Place(s, v)
    BY <1>1, Listing
  <2>2. SubSeq(s, 1, i - 1) \in Seq(S) /\ SubSeq(s, i + 1, Len(s)) \in Seq(S)
    BY <2>1, SubSeqProperties
  <2>3. RemoveAt(s, i) = SubSeq(s, 1, i - 1) \o SubSeq(s, i + 1, Len(s))
    BY DEF RemoveAt
  <2> QED
    BY <1>1, <2>1, <2>2, <2>3, ConcatProperties DEF Without
<1>2. CASE v \notin Elems(s)
  BY <1>2 DEF Without
<1> QED
  BY <1>1, <1>2

LEMMA AfterType ==
  ASSUME NEW S, NEW s \in Seq(S), NEW v
  PROVE  After(s, v) \in S \cup {Null}
BY Listing DEF After

LEMMA AppendType ==
  ASSUME NEW S, NEW s \in Seq(S), NEW v \in S
  PROVE  /\ Append(s, v) \in Seq(S)
         /\ <<v>> \o s \in Seq(S)
         /\ s # <<>> => Head(s) \in S
<1>1. <<v>> \in Seq(S)
  OBVIOUS
<1> QED
  BY <1>1, AppendProperties, ConcatProperties, HeadTailProperties

----------------------------------------------------------------------------
(* Layouts. *)

LEMMA SlabSize == SLAB_SIZE \in Nat \ {0}
<1>1. SLAB_SIZE \in 1 .. Half
  BY GeometryAssumption
<1>2. Half \in Nat
  BY DEF Half
<1> QED
  BY <1>1, <1>2

LEMMA LayoutType ==
  ASSUME NEW c \in Classes, NEW r \in Nat \ {0}
  PROVE  Layout(c, r) \in Layouts
<1>1. bitsize[c] \in Nat \ {0} /\ SLAB_SIZE \in Nat \ {0}
  BY GeometryAssumption, SlabSize
<1>2. PICK d \in Nat \ {0} : d = bitsize[c]
  BY <1>1
<1>3. PICK a \in Int : a = SLAB_SIZE - r /\ a < SLAB_SIZE
  BY <1>1
<1>4. a \div d \in Int /\ a \div d < SLAB_SIZE
  BY <1>1, <1>3, Quotient
<1> QED
  BY <1>2, <1>3, <1>4 DEF Layout, Layouts

LEMMA FreshType ==
  ASSUME NEW c \in Classes
  PROVE  /\ get_sizeclass_by_idx(c) \in Layouts
         /\ Fresh(c) \in Slabs
<1>1. get_sizeclass_by_idx(c) \in Layouts
  BY LayoutType, GeometryAssumption DEF get_sizeclass_by_idx
<1> QED
  BY <1>1 DEF Fresh, Slabs

LEMMA ResetType ==
  ASSUME NEW c \in Classes, NEW m \in Nat
  PROVE  sizeclass_reset(c, m) \in Layouts
<1>1. toffset \in Nat \ {0} /\ EntrySize * m \in Nat
  BY GeometryAssumption
<1>2. PICK n \in Nat : n = EntrySize * m + CACHELINE_SIZE - 1
  BY <1>1, GeometryAssumption
<1>3. PICK k \in Nat : k = n \div CACHELINE_SIZE
  BY GeometryAssumption
<1>4. k * CACHELINE_SIZE \in Nat
  BY GeometryAssumption
<1>5. toffset + roundUp(EntrySize * m, CACHELINE_SIZE) \in Nat \ {0}
  BY <1>1, <1>2, <1>3, <1>4 DEF roundUp
<1> QED
  BY <1>5, LayoutType DEF sizeclass_reset

----------------------------------------------------------------------------
(* The steps of a thread. *)

\* A thread goes on to p with the locals l.
Moves(t, p, l) == pc' = [pc EXCEPT ![t] = p] /\ loc' = [loc EXCEPT ![t] = l]

LEMMA ThreadStep ==
  ASSUME TypeOK, NEW t \in Threads, NEW p \in PCs, NEW l \in Locals,
         Moves(t, p, l), Control(t, p, l)
  PROVE  /\ pc' \in [Threads -> PCs]
         /\ loc' \in [Threads -> Locals]
         /\ \A u \in Threads : Control(u, pc'[u], loc'[u])
BY DEF TypeOK, Moves

\* The locals of a recount.
LEMMA CountsType ==
  ASSUME NEW m \in Locals, NEW low \in Nat, NEW d \in Int, NEW p \in PCs
  PROVE  [m EXCEPT !.low = low, !.delta = d, !.next = p] \in Locals
<1>1. PICK k \in Locals : k = [m EXCEPT !.low = low]
  BY DEF Locals
<1>2. PICK j \in Locals : j = [k EXCEPT !.delta = d]
  BY DEF Locals
<1>3. [j EXCEPT !.next = p] \in Locals
  BY DEF Locals
<1>4. [m EXCEPT !.low = low, !.delta = d, !.next = p] = [j EXCEPT !.next = p]
  BY <1>1, <1>2 DEF Locals
<1> QED
  BY <1>3, <1>4

LEMMA NoLocalsType == NoLocals \in Locals
BY DEF NoLocals, Locals, PCs

\* What the place of a thread says of its locals.
LEMMA Placed ==
  ASSUME TypeOK, NEW t \in Threads
  PROVE  /\ loc[t] \in Locals /\ Control(t, pc[t], loc[t])
         /\ pc[t] \in FillSteps => t \in Home /\ loc[t].c \in Classes
         /\ pc[t] \in {"visit", "pop", "touch", "stamp", "filled", "candidate", "insert", "morph",
                       "reclass", "reinit", "unlock", "move", "rebuild"} \cup FreeSteps
              => loc[t].v \in SlabId
BY DEF TypeOK, Control, Going, FillSteps, FreeSteps


LEMMA LockTypes ==
  ASSUME TypeOK, NEW t \in Threads \cup {NoThread}
  PROVE  /\ \A c \in Classes : [lock EXCEPT !.bin[c] = t] \in Locks
         /\ \A v \in SlabId : [lock EXCEPT !.slab[v] = t] \in Locks
         /\ [lock EXCEPT !.lru = t] \in Locks
BY DEF TypeOK, Locks

----------------------------------------------------------------------------
(* The steps of a fill keep the types. *)

LEMMA MallocCallType ==
  ASSUME TypeOK, NEW t \in Home, NEW c \in Classes, MallocCall(t, c)
  PROVE  TypeOK'
<1> DEFINE l == [loc[t] EXCEPT !.c = c]
<1>1. t \in Threads /\ loc[t] \in Locals
  BY Placed DEF Threads
<1>2. l \in Locals /\ "malloc" \in PCs
  BY <1>1 DEF Locals, PCs, FillSteps
<1>3. Control(t, "malloc", l)
  BY <1>1 DEF Control, Going, FillSteps, FreeSteps, Locals
<1>4. Moves(t, "malloc", l)
  BY DEF MallocCall, Goto, Moves
<1> QED
  BY <1>1, <1>2, <1>3, <1>4, ThreadStep DEF MallocCall, TypeOK

LEMMA FillLockType ==
  ASSUME TypeOK, NEW t \in Home, FillLock(t)
  PROVE  TypeOK'
<1> DEFINE c == loc[t].c
           v == StartOf(bin[c])
           p == IF v = Null THEN "getone" ELSE "visit"
           l == [loc[t] EXCEPT !.v = v]
<1>1. t \in Threads /\ pc[t] = "malloc" /\ loc[t] \in Locals /\ c \in Classes /\ bin[c] \in Bins
  BY Placed DEF FillLock, At, Threads, FillSteps, TypeOK
<1>2. v \in SlabId \cup {Null}
  BY <1>1, AppendType DEF StartOf, Bins
<1>3. l \in Locals /\ p \in PCs
  BY <1>1, <1>2 DEF Locals, PCs, FillSteps
<1>4. Control(t, p, l)
  <2>1. l.c = c /\ l.v = v
    BY <1>1 DEF Locals
  <2>2. p = "visit" => v \in SlabId
    BY <1>2
  <2> HIDE DEF l, v
  <2> QED
    BY <1>1, <2>1, <2>2 DEF Control, Going, FillSteps, FreeSteps
<1>5. Moves(t, p, l)
  BY DEF FillLock, Goto, Moves
<1>6. bin' \in [Classes -> Bins]
  BY <1>1, <1>2 DEF FillLock, TypeOK, Bins
<1>7. lock' \in Locks
  BY <1>1, LockTypes DEF FillLock, BinLock
<1>8. timestamp' \in Nat
  BY DEF FillLock, TypeOK
<1> QED
  BY <1>1, <1>3, <1>4, <1>5, <1>6, <1>7, <1>8, ThreadStep DEF FillLock, TypeOK

LEMMA FillVisitType ==
  ASSUME TypeOK, NEW t \in Home, FillVisit(t)
  PROVE  TypeOK'
<1>1. t \in Threads /\ pc[t] = "visit" /\ loc[t] \in Locals /\ loc[t].c \in Classes
  BY Zenon, Placed DEF FillVisit, At, Threads, FillSteps
<1>2. loc[t].v \in SlabId
  <2>1. bin[loc[t].c].list \in Seq(SlabId)
    BY <1>1 DEF TypeOK, Bins
  <2> QED
    BY Zenon, <2>1, Listing DEF FillVisit, OnNode
<1>3. Control(t, "pop", loc[t]) /\ "pop" \in PCs
  BY <1>1, <1>2 DEF Control, Going, FillSteps, FreeSteps, PCs
<1>4. Moves(t, "pop", loc[t])
  BY Zenon DEF FillVisit, Goto, Moves, TypeOK
<1>5. lock' \in Locks
  BY <1>1, <1>2, LockTypes DEF FillVisit, SlabLock
<1> QED
  BY Zenon, <1>1, <1>3, <1>4, <1>5, ThreadStep DEF FillVisit, TypeOK

LEMMA FillNextType ==
  ASSUME TypeOK, NEW t \in Home, FillNext(t)
  PROVE  TypeOK'
<1> DEFINE c == loc[t].c
           n == After(bin[c].list, loc[t].v)
           v == IF n = Null THEN Head(bin[c].list) ELSE n
           p == IF v = bin[c].now THEN "getone" ELSE "visit"
           l == [loc[t] EXCEPT !.v = v]
<1>1. /\ t \in Threads /\ pc[t] = "pop" /\ loc[t] \in Locals /\ c \in Classes /\ bin[c] \in Bins
      /\ loc[t].v \in SlabId
  BY Placed DEF FillNext, At, Threads, FillSteps, TypeOK
<1>2. v \in SlabId
  <2>1. bin[c].list \in Seq(SlabId) /\ bin[c].list # <<>>
    BY <1>1 DEF Bins, FillNext, OnNode, Elems
  <2> QED
    BY <2>1, AppendType, AfterType
<1>3. l \in Locals /\ p \in PCs
  BY <1>1, <1>2 DEF Locals, PCs, FillSteps
<1>4. Control(t, p, l)
  <2>1. l.c = c /\ l.v = v
    BY <1>1 DEF Locals
  <2> HIDE DEF l, v
  <2> QED
    BY <1>1, <1>2, <2>1 DEF Control, Going, FillSteps, FreeSteps
<1>5. Moves(t, p, l)
  BY DEF FillNext, Goto, Moves
<1>6. lock' \in Locks
  BY <1>1, LockTypes DEF FillNext, SlabLock
<1> QED
  BY Zenon, <1>1, <1>3, <1>4, <1>5, <1>6, ThreadStep DEF FillNext, TypeOK

LEMMA FilledType ==
  ASSUME TypeOK, NEW t \in Home, Filled(t)
  PROVE  TypeOK'
<1> DEFINE c == loc[t].c
           l == [NoLocals EXCEPT !.c = c]
<1>1. /\ t \in Threads /\ pc[t] = "filled" /\ loc[t] \in Locals /\ c \in Classes
      /\ loc[t].v \in SlabId
  BY Placed DEF Filled, At, Threads, FillSteps
<1>2. l \in Locals /\ "malloc" \in PCs
  BY <1>1 DEF NoLocals, Locals, PCs, FillSteps
<1>3. Control(t, "malloc", l)
  BY <1>1 DEF Control, Going, FillSteps, FreeSteps, NoLocals
<1>4. Moves(t, "malloc", l)
  BY DEF Filled, Goto, Moves
<1>5. lock' \in Locks
  BY <1>1 DEF Filled, FilledLocks, TypeOK, Locks
<1>6. bin' \in [Classes -> Bins]
  BY <1>1 DEF Filled, TypeOK, Bins
<1> QED
  BY <1>1, <1>2, <1>3, <1>4, <1>5, <1>6, ThreadStep DEF Filled, TypeOK

LEMMA TouchType ==
  ASSUME TypeOK, NEW t \in Home, Touch(t)
  PROVE  TypeOK'
<1>1. /\ t \in Threads /\ pc[t] = "touch" /\ loc[t] \in Locals /\ loc[t].c \in Classes
      /\ loc[t].v \in SlabId
  BY Placed DEF Touch, At, Threads, FillSteps
<1>2. Control(t, "stamp", loc[t]) /\ "stamp" \in PCs
  BY <1>1 DEF Control, Going, FillSteps, FreeSteps, PCs
<1>3. Moves(t, "stamp", loc[t])
  BY DEF Touch, Goto, Moves, TypeOK
<1>4. Append(Without(lru.list, loc[t].v), loc[t].v) \in Seq(SlabId)
  BY <1>1, WithoutSeq, AppendType DEF TypeOK, Lists
<1>5. lru' \in Lists
  BY <1>4 DEF Touch, TypeOK, Lists
<1> QED
  BY <1>1, <1>2, <1>3, <1>5, ThreadStep DEF Touch, TypeOK

LEMMA StampType ==
  ASSUME TypeOK, NEW t \in Home, Stamp(t)
  PROVE  TypeOK'
<1>1. /\ t \in Threads /\ pc[t] = "stamp" /\ loc[t] \in Locals /\ loc[t].c \in Classes
      /\ loc[t].v \in SlabId
  BY Placed DEF Stamp, At, Threads, FillSteps
<1>2. Control(t, "pop", loc[t]) /\ "pop" \in PCs
  BY <1>1 DEF Control, Going, FillSteps, FreeSteps, PCs
<1>3. Moves(t, "pop", loc[t])
  BY DEF Stamp, Goto, Moves, TypeOK
<1>4. [vslab[loc[t].v] EXCEPT !.timestamp = timestamp] \in Slabs
  <2>1. PICK s \in Slabs : s = vslab[loc[t].v]
    BY <1>1 DEF TypeOK
  <2>2. timestamp \in Nat
    BY DEF TypeOK
  <2> QED
    BY <2>1, <2>2 DEF Slabs
<1>5. vslab' \in [SlabId -> Slabs]
  BY <1>4 DEF Stamp, TypeOK
<1> QED
  BY <1>1, <1>2, <1>3, <1>5, ThreadStep DEF Stamp, TypeOK

LEMMA RecountType ==
  ASSUME TypeOK, NEW t \in Threads, Recount(t)
  PROVE  TypeOK'
<1> DEFINE to == loc[t].next
           l == IF to = "idle" THEN NoLocals
                ELSE [loc[t] EXCEPT !.low = 0, !.delta = 0, !.next = "idle"]
<1>1. pc[t] = "recount" /\ loc[t] \in Locals /\ Control(t, "recount", loc[t])
  BY Placed DEF Recount, At
<1>2. loc[t].v \in SlabId /\ to \in PCs /\ to # "recount"
  BY <1>1 DEF Control, PCs, Locals
<1>3. l \in Locals
  <2>1. [loc[t] EXCEPT !.low = 0, !.delta = 0, !.next = "idle"] \in Locals
    <3>1. 0 \in Nat /\ 0 \in Int /\ "idle" \in PCs
      BY DEF PCs
    <3> QED
      BY <1>1, <3>1, CountsType, Zenon
  <2> QED
    BY <2>1, NoLocalsType
<1>4. Control(t, to, l)
  <2>1. CASE to = "idle"
    BY <2>1 DEF Control, Going, FillSteps, FreeSteps
  <2>2. CASE to # "idle"
    <3>1. l.c = loc[t].c /\ l.v = loc[t].v /\ l.sc = loc[t].sc /\ l.blk = loc[t].blk
      BY <1>1, <2>2 DEF Locals
    <3> QED
      BY <1>1, <1>2, <3>1, <2>2 DEF Control, Going
  <2> QED
    BY <2>1, <2>2
<1>5. Moves(t, to, l)
  BY DEF Recount, Goto, Moves
<1>6. lock' \in Locks
  BY <1>2 DEF Recount, TypeOK, Locks
<1>7. (loc[t].low + loc[t].delta + Wrap) % Wrap \in Nat
  BY <1>1 DEF Locals, Wrap
<1>8. lru' \in Lists
  BY <1>7 DEF Recount, TypeOK, Lists
<1> QED
  BY <1>2, <1>3, <1>4, <1>5, <1>6, <1>8, ThreadStep DEF Recount, TypeOK

----------------------------------------------------------------------------
(* The search for a slab, and a new one. *)

LEMMA RecountStep ==
  ASSUME TypeOK, NEW t \in Threads, loc[t].v \in SlabId,
         NEW d \in Int, NEW to \in {"pop", "touch", "filled", "rebuild", "idle", "dalloc"},
         to \in FillSteps => t \in Home /\ loc[t].c \in Classes,
         to \in FreeSteps => loc[t].sc \in Layouts,
         ToRecount(t, d, to)
  PROVE  /\ pc' \in [Threads -> PCs]
         /\ loc' \in [Threads -> Locals]
         /\ \A u \in Threads : Control(u, pc'[u], loc'[u])
<1> DEFINE l == [loc[t] EXCEPT !.low = lru.morphing, !.delta = d, !.next = to]
<1>1. loc[t] \in Locals /\ lru.morphing \in Nat /\ to \in PCs /\ "recount" \in PCs
  BY Placed DEF TypeOK, Lists, PCs, FillSteps, FreeSteps
<1>2. l \in Locals
  BY <1>1, CountsType, Zenon
<1>3. l.c = loc[t].c /\ l.v = loc[t].v /\ l.sc = loc[t].sc /\ l.next = to
  BY <1>1 DEF Locals
<1>4. Control(t, "recount", l)
  BY <1>3 DEF Control, Going
<1>5. Moves(t, "recount", l)
  BY DEF ToRecount, Goto, Moves
<1> QED
  BY <1>1, <1>2, <1>4, <1>5, ThreadStep

LEMMA GetOneType ==
  ASSUME TypeOK, NEW t \in Home, GetOne(t)
  PROVE  TypeOK'
<1> DEFINE p == IF lru.morphing * SearchDen > lru.len * SearchNum THEN "search" ELSE "create"
           l == [loc[t] EXCEPT !.stamp = timestamp]
<1>1. t \in Threads /\ pc[t] = "getone" /\ loc[t] \in Locals /\ loc[t].c \in Classes
  BY Placed DEF GetOne, At, Threads, FillSteps
<1>2. timestamp \in Nat
  BY DEF TypeOK
<1>3. l \in Locals
  BY <1>1, <1>2 DEF Locals
<1>4. p \in {"search", "create"} /\ p \in PCs
  BY DEF PCs, FillSteps
<1> HIDE DEF p
<1>5. Control(t, p, l)
  BY <1>1, <1>4 DEF Control, Going, FillSteps, FreeSteps, Locals
<1>6. Moves(t, p, l)
  BY DEF GetOne, Goto, Moves, p
<1> QED
  BY <1>1, <1>3, <1>4, <1>5, <1>6, ThreadStep DEF GetOne, TypeOK

LEMMA SearchType ==
  ASSUME TypeOK, NEW t \in Home, Search(t)
  PROVE  TypeOK'
<1> DEFINE v == IF lru.list = <<>> THEN Null ELSE Head(lru.list)
           l == [loc[t] EXCEPT !.v = v]
<1>1. t \in Threads /\ pc[t] = "search" /\ loc[t] \in Locals /\ loc[t].c \in Classes
  BY Placed DEF Search, At, Threads, FillSteps
<1>2. v \in SlabId \cup {Null}
  BY AppendType DEF TypeOK, Lists
<1>3. l \in Locals /\ "scan" \in PCs
  BY <1>1, <1>2 DEF Locals, PCs, FillSteps
<1>4. Control(t, "scan", l)
  BY <1>1 DEF Control, Going, FillSteps, FreeSteps, Locals
<1>5. Moves(t, "scan", l)
  BY DEF Search, Goto, Moves
<1>6. lock' \in Locks
  BY <1>1, LockTypes DEF Search, LRULock
<1> QED
  BY <1>1, <1>3, <1>4, <1>5, <1>6, ThreadStep DEF Search, TypeOK

LEMMA SearchSkipType ==
  ASSUME TypeOK, NEW t \in Home, SearchSkip(t)
  PROVE  TypeOK'
<1> DEFINE l == [loc[t] EXCEPT !.v = After(lru.list, loc[t].v)]
<1>1. t \in Threads /\ pc[t] = "scan" /\ loc[t] \in Locals /\ loc[t].c \in Classes
  BY Placed DEF SearchSkip, At, Threads, FillSteps
<1>2. After(lru.list, loc[t].v) \in SlabId \cup {Null}
  BY AfterType DEF TypeOK, Lists
<1>3. l \in Locals /\ "scan" \in PCs
  BY <1>1, <1>2 DEF Locals, PCs, FillSteps
<1>4. Control(t, "scan", l)
  BY <1>1 DEF Control, Going, FillSteps, FreeSteps, Locals
<1>5. Moves(t, "scan", l)
  BY <1>1 DEF SearchSkip, Moves, TypeOK
<1> QED
  BY <1>1, <1>3, <1>4, <1>5, ThreadStep DEF SearchSkip, TypeOK

LEMMA SearchFoundType ==
  ASSUME TypeOK, NEW t \in Home, SearchFound(t)
  PROVE  TypeOK'
<1>1. t \in Threads /\ pc[t] = "scan" /\ loc[t] \in Locals /\ loc[t].c \in Classes
  BY Placed DEF SearchFound, At, Threads, FillSteps
<1>2. loc[t].v \in SlabId
  BY <1>1 DEF SearchFound, Locals
<1>3. Control(t, "candidate", loc[t]) /\ "candidate" \in PCs
  BY <1>1, <1>2 DEF Control, Going, FillSteps, FreeSteps, PCs
<1>4. Moves(t, "candidate", loc[t])
  BY DEF SearchFound, Goto, Moves, TypeOK
<1> QED
  BY <1>1, <1>3, <1>4, ThreadStep DEF SearchFound, TypeOK

LEMMA SearchFailsType ==
  ASSUME TypeOK, NEW t \in Home, SearchFails(t)
  PROVE  TypeOK'
<1>1. t \in Threads /\ pc[t] = "scan" /\ loc[t] \in Locals /\ loc[t].c \in Classes
  BY Placed DEF SearchFails, At, Threads, FillSteps
<1>2. Control(t, "create", loc[t]) /\ "create" \in PCs
  BY <1>1 DEF Control, Going, FillSteps, FreeSteps, PCs
<1>3. Moves(t, "create", loc[t])
  BY DEF SearchFails, Goto, Moves, TypeOK
<1>4. lock' \in Locks
  BY LockTypes DEF SearchFails, LRULock
<1> QED
  BY <1>1, <1>2, <1>3, <1>4, ThreadStep DEF SearchFails, TypeOK

LEMMA CreateType ==
  ASSUME TypeOK, NEW t \in Home, Create(t)
  PROVE  TypeOK'
<1> DEFINE v == made + 1
           k == [loc[t] EXCEPT !.v = v]
           l == [k EXCEPT !.low = lru.morphing, !.delta = 1, !.next = "insert"]
<1>1. t \in Threads /\ pc[t] = "create" /\ loc[t] \in Locals /\ loc[t].c \in Classes
  BY Placed DEF Create, At, Threads, FillSteps
<1>2. v \in SlabId /\ v \in 0 .. MaxSlabs
  BY PolicyAssumption DEF Create, TypeOK, SlabId
<1>3. k \in Locals
  BY <1>1, <1>2 DEF Locals
<1>4. l \in Locals
  <2>1. lru.morphing \in Nat /\ 1 \in Int /\ "insert" \in PCs
    BY DEF TypeOK, Lists, PCs, FillSteps
  <2> QED
    BY <1>3, <2>1, CountsType, Zenon
<1>5. l.c = loc[t].c /\ l.v = v /\ l.next = "insert"
  BY <1>1, <1>3, <1>4 DEF Locals
<1>6. Control(t, "recount", l) /\ "recount" \in PCs
  BY <1>1, <1>2, <1>5 DEF Control, Going, FillSteps, FreeSteps, PCs
<1>7. Moves(t, "recount", l)
  BY <1>1 DEF Create, Goto, Moves, Locals
<1>8. vslab' \in [SlabId -> Slabs]
  BY <1>1, <1>2, FreshType DEF Create, TypeOK
<1>9. lru' \in Lists
  <2>1. PICK k1 \in Lists : k1 = lru
    BY DEF TypeOK
  <2>2. Append(k1.list, v) \in Seq(SlabId) /\ k1.len + 1 \in Nat
    BY <1>2, AppendType DEF Lists
  <2>3. [k1 EXCEPT !.list = Append(@, v), !.len = @ + 1] \in Lists
    BY <2>2 DEF Lists
  <2> QED
    BY <2>1, <2>3 DEF Create
<1>10. lock' \in Locks
  BY <1>1, LockTypes DEF Create, LRULock
<1> QED
  BY <1>1, <1>2, <1>4, <1>6, <1>7, <1>8, <1>9, <1>10, ThreadStep DEF Create, TypeOK

LEMMA InsertType ==
  ASSUME TypeOK, NEW t \in Home, Insert(t)
  PROVE  TypeOK'
<1>1. /\ t \in Threads /\ pc[t] = "insert" /\ loc[t] \in Locals /\ loc[t].c \in Classes
      /\ loc[t].v \in SlabId
  BY Placed DEF Insert, At, Threads, FillSteps
<1>2. Control(t, "visit", loc[t]) /\ "visit" \in PCs
  BY <1>1 DEF Control, Going, FillSteps, FreeSteps, PCs
<1>3. Moves(t, "visit", loc[t])
  BY DEF Insert, Goto, Moves, TypeOK
<1>4. bin' \in [Classes -> Bins]
  <2>1. <<loc[t].v>> \o bin[loc[t].c].list \in Seq(SlabId)
    BY <1>1, AppendType DEF TypeOK, Bins
  <2> QED
    BY <1>1, <2>1 DEF Insert, Inserted, TypeOK, Bins
<1> QED
  BY <1>1, <1>2, <1>3, <1>4, ThreadStep DEF Insert, TypeOK

----------------------------------------------------------------------------
(* The caches. *)

LEMMA WayType ==
  /\ Way \subseteq Nat
  /\ \A i \in Int : i % NBANKS \in Way
BY PolicyAssumption, Quotient DEF Way

LEMMA NextWayType ==
  ASSUME NEW ch, ch.bm \in SUBSET Way, ch.bm # {}
  PROVE  NextWay(ch) \in ch.bm
<1> DEFINE S == {w \in ch.bm : w > ch.now}
<1>1. CASE S # {}
  <2>1. S \subseteq Nat
    BY WayType
  <2> HIDE DEF S
  <2>2. PICK w \in S : \A u \in S : w <= u
    BY <1>1, <2>1, Least
  <2> USE DEF S
  <2>3. w \in ch.bm /\ w > ch.now /\ \A u \in ch.bm : u > ch.now => w <= u
    BY <2>2
  <2> QED
    BY <2>3 DEF NextWay
<1>2. CASE S = {}
  <2>1. PICK w \in ch.bm : \A u \in ch.bm : w <= u
    BY Least, WayType
  <2> QED
    BY <1>2, <2>1 DEF NextWay
<1> QED
  BY <1>1, <1>2

LEMMA UndroppedType ==
  ASSUME TypeOK, NEW t \in Home, NEW c \in Classes, NEW w \in Way
  PROVE  Undropped(t, c, w) \in {-1} \cup 0 .. Len(cache[t][c].avail[w])
<1> DEFINE n == Len(cache[t][c].avail[w])
           kept == {i \in 0 .. n : ~Flag(t, c, w, i)}
<1>1. n \in Nat
  BY DEF TypeOK, Caches
<1> HIDE DEF n
<1>2. ASSUME kept # {}
      PROVE  (CHOOSE i \in kept : \A j \in kept : j <= i) \in kept
  <2>1. kept \in SUBSET (0 .. n)
    OBVIOUS
  <2> HIDE DEF kept
  <2> QED
    BY <1>1, <1>2, <2>1, Greatest
<1>3. Undropped(t, c, w) = IF kept = {} THEN -1 ELSE CHOOSE i \in kept : \A j \in kept : j <= i
  BY DEF Undropped, n
<1> QED
  BY <1>2, <1>3 DEF n

\* The bit of a way in the bitmap of a cache.
LEMMA FlipType ==
  ASSUME NEW bm \in SUBSET Way, NEW w \in Way
  PROVE  cache_bitmap_flip(bm, w) \in SUBSET Way
BY DEF cache_bitmap_flip

LEMMA PushType ==
  ASSUME NEW ch \in Caches, NEW w \in Way, NEW e \in Entries
  PROVE  /\ Push(ch, w, e) \in Caches
         /\ Push(ch, w, e).avail = [ch.avail EXCEPT ![w] = Append(@, e)]
         /\ Push(ch, w, e).bm = IF ch.avail[w] = <<>> THEN cache_bitmap_flip(ch.bm, w) ELSE ch.bm
<1>1. PICK a \in [Way -> Seq(Entries)] : a = [ch.avail EXCEPT ![w] = Append(@, e)]
  BY AppendType DEF Caches
<1>2. PICK f \in [Way -> [Position -> BOOLEAN]] :
        f = [ch.is_sb EXCEPT ![w][Len(ch.avail[w])] = FALSE]
  BY DEF Caches
<1>3. PICK b \in SUBSET Way :
        b = IF ch.avail[w] = <<>> THEN cache_bitmap_flip(ch.bm, w) ELSE ch.bm
  BY FlipType DEF Caches
<1>4. Push(ch, w, e) = [ch EXCEPT !.avail = a, !.is_sb = f, !.bm = b]
  BY <1>1, <1>2, <1>3 DEF Push, Caches
<1>5. [ch EXCEPT !.avail = a, !.is_sb = f, !.bm = b] \in Caches
  BY DEF Caches
<1>6. /\ [ch EXCEPT !.avail = a, !.is_sb = f, !.bm = b].avail = a
      /\ [ch EXCEPT !.avail = a, !.is_sb = f, !.bm = b].bm = b
  BY DEF Caches
<1> QED
  BY <1>1, <1>3, <1>4, <1>5, <1>6

LEMMA CacheStep ==
  ASSUME TypeOK, NEW t \in Home, NEW c \in Classes, NEW ch \in Caches
  PROVE  [cache EXCEPT ![t][c] = ch] \in [Home -> [Classes -> Caches]]
BY DEF TypeOK

\* What MallocTake finds: a way that has blocks, and the number of its entries.
LEMMA MallocTakeFinds ==
  ASSUME TypeOK, NEW t \in Home, MallocTake(t)
  PROVE  \E c \in Classes, ch \in Caches, w \in Way, n \in Int :
           /\ c = loc[t].c /\ ch = cache[t][c] /\ w = NextWay(ch) /\ n = Undropped(t, c, w)
           /\ w \in ch.bm
           /\ n = -1 \/ n \in 1 .. Len(ch.avail[w])
<1>1. t \in Threads /\ pc[t] = "malloc"
  BY Zenon DEF MallocTake, At, Threads
<1>2. PICK c \in Classes : c = loc[t].c
  BY <1>1, Placed DEF FillSteps
<1>3. PICK ch \in Caches : ch = cache[t][c]
  BY <1>2 DEF TypeOK
<1>4. ch.bm # {} /\ ch.bm \in SUBSET Way
  BY Zenon, <1>2, <1>3 DEF MallocTake, Caches
<1>5. PICK w \in ch.bm : w = NextWay(ch)
  BY <1>4, NextWayType
<1>6. PICK n \in {-1} \cup 0 .. Len(ch.avail[w]) : n = Undropped(t, c, w)
  BY <1>2, <1>3, <1>4, <1>5, UndroppedType
<1>7. n # 0
  BY Zenon, <1>2, <1>3, <1>5, <1>6 DEF MallocTake
<1>8. Len(ch.avail[w]) \in Nat
  BY <1>4 DEF Caches
<1>9. n \in Int /\ (n = -1 \/ n \in 1 .. Len(ch.avail[w]))
  BY <1>6, <1>7, <1>8
<1> QED
  BY <1>2, <1>3, <1>4, <1>5, <1>6, <1>9

\* A step to the end of a call.
LEMMA DoneStep ==
  ASSUME TypeOK, NEW t \in Threads, Done(t)
  PROVE  /\ pc' \in [Threads -> PCs]
         /\ loc' \in [Threads -> Locals]
         /\ \A u \in Threads : Control(u, pc'[u], loc'[u])
<1>1. Control(t, "idle", NoLocals) /\ "idle" \in PCs
  BY DEF Control, Going, FillSteps, FreeSteps, PCs
<1>2. Moves(t, "idle", NoLocals)
  BY DEF Done, Goto, Moves
<1> QED
  BY <1>1, <1>2, NoLocalsType, ThreadStep

\* What SetAlloced leaves of a slab.
LEMMA SetAllocedType ==
  ASSUME NEW s \in Slabs, NEW d, NEW i \in Int, NEW left \in SetAlloced(s, d, i)
  PROVE  \E a \in SUBSET Int : left = [s EXCEPT !.alloced = a]
<1>1. PICK a \in SUBSET Int : a = s.alloced \cup {i}
  BY DEF Slabs
<1>2. PICK b \in SUBSET Int : b = s.alloced
  BY DEF Slabs
<1>3. left = s \/ left = [s EXCEPT !.alloced = a]
  BY <1>1 DEF SetAlloced
<1>4. s = [s EXCEPT !.alloced = b]
  BY <1>2 DEF Slabs
<1> QED
  BY <1>3, <1>4

\* The step changes what is recorded of the blocks of the slab v, and nothing else.
MetaTo(v, m, a) == vslab' = [vslab EXCEPT ![v] = [vslab[v] EXCEPT !.meta = m, !.alloced = a]]

\* A block that is handed out is recorded.
LEMMA MallocTakeSets ==
  ASSUME TypeOK, NEW t \in Home, MallocTake(t), NEW e \in Entries,
         LET w == NextWay(cache[t][loc[t].c])
             n == Undropped(t, loc[t].c, w)
         IN n # -1 /\ e = cache[t][loc[t].c].avail[w][n]
  PROVE  /\ e.blk.v \in SlabId
         /\ \E a \in SUBSET Int : MetaTo(e.blk.v, vslab[e.blk.v].meta \cup {e.id}, a)
<1>1. PICK v \in SlabId, i \in Int, d \in Nat : v = e.blk.v /\ i = e.id /\ d = e.dmeta
  BY DEF Entries, Blocks
<1>2. PICK s \in Slabs : s = vslab[v]
  BY DEF TypeOK
<1>3. PICK m \in SUBSET Int : m = s.meta \cup {i}
  BY DEF Slabs
<1>4. PICK r \in Slabs : r = [s EXCEPT !.meta = m]
  BY DEF Slabs
<1>5. PICK left \in SetAlloced(r, d, i) : vslab' = [vslab EXCEPT ![v] = left]
  BY Zenon, <1>1, <1>2, <1>3, <1>4 DEF MallocTake
<1>6. PICK a \in SUBSET Int : left = [r EXCEPT !.alloced = a]
  BY SetAllocedType
<1>7. [r EXCEPT !.alloced = a] = [s EXCEPT !.meta = m, !.alloced = a]
  BY <1>4
<1>8. MetaTo(v, m, a)
  BY Zenon, <1>2, <1>5, <1>6, <1>7 DEF MetaTo
<1> QED
  BY <1>1, <1>2, <1>3, <1>8

LEMMA MetaType ==
  ASSUME TypeOK, NEW v \in SlabId, NEW m \in SUBSET Int, NEW a \in SUBSET Int, MetaTo(v, m, a)
  PROVE  vslab' \in [SlabId -> Slabs]
<1>1. PICK s \in Slabs : s = vslab[v]
  BY DEF TypeOK
<1>2. [s EXCEPT !.meta = m, !.alloced = a] \in Slabs
  BY DEF Slabs
<1> QED
  BY <1>1, <1>2 DEF MetaTo, TypeOK

LEMMA MallocTakeType ==
  ASSUME TypeOK, NEW t \in Home, MallocTake(t)
  PROVE  TypeOK'
<1>1. t \in Threads
  BY DEF Threads
<1>2. PICK c \in Classes, ch \in Caches, w \in Way, n \in Int :
        /\ c = loc[t].c /\ ch = cache[t][c] /\ w = NextWay(ch) /\ n = Undropped(t, c, w)
        /\ w \in ch.bm
        /\ n = -1 \/ n \in 1 .. Len(ch.avail[w])
  BY MallocTakeFinds
<1>3. CASE n = -1
  <2>1. /\ cache' = [cache EXCEPT ![t][c] =
                       [ch EXCEPT !.avail[w] = <<>>, !.bm = cache_bitmap_flip(@, w)]]
        /\ UNCHANGED <<vslab, held, pc, loc, made, bin, lru, timestamp, lock, status>>
    BY <1>2, <1>3 DEF MallocTake
  <2>2. [ch EXCEPT !.avail[w] = <<>>, !.bm = cache_bitmap_flip(@, w)] \in Caches
    <3>1. PICK b \in SUBSET Way : b = cache_bitmap_flip(ch.bm, w)
      BY FlipType DEF Caches
    <3>0. PICK q \in Seq(Entries) : q = <<>>
      BY EmptySeq
    <3>2. PICK a \in [Way -> Seq(Entries)] : a = [ch.avail EXCEPT ![w] = <<>>]
      BY <3>0 DEF Caches
    <3>3. [ch EXCEPT !.avail = a, !.bm = b] \in Caches
      BY Zenon DEF Caches
    <3> QED
      BY <3>1, <3>2, <3>3 DEF Caches
  <2> QED
    BY <2>1, <2>2, CacheStep DEF TypeOK
<1>4. CASE n # -1
  <2> DEFINE e == ch.avail[w][n]
             k == [ch EXCEPT !.avail[w] = SubSeq(@, 1, n - 1),
                             !.bm = IF n = 1 THEN cache_bitmap_flip(@, w) ELSE @, !.now = w]
  <2>1. /\ cache' = [cache EXCEPT ![t][c] = k]
        /\ held' = held \cup {e.blk}
        /\ Done(t)
        /\ UNCHANGED <<made, bin, lru, timestamp, lock, status>>
    BY Zenon, <1>2, <1>4 DEF MallocTake
  <2>2. ch.avail[w] \in Seq(Entries) /\ n \in 1 .. Len(ch.avail[w])
    BY <1>2, <1>4 DEF Caches
  <2>3. e \in Entries
    BY <2>2, ElementOfSeq
  <2>4. k \in Caches
    <3>1. SubSeq(ch.avail[w], 1, n - 1) \in Seq(Entries)
      BY <2>2, SubSeqProperties
    <3>2. PICK q \in Seq(Entries) : q = SubSeq(ch.avail[w], 1, n - 1)
      BY <3>1
    <3>3. PICK b \in SUBSET Way : b = IF n = 1 THEN cache_bitmap_flip(ch.bm, w) ELSE ch.bm
      BY <1>2, FlipType DEF Caches
    <3>4. PICK a \in [Way -> Seq(Entries)] : a = [ch.avail EXCEPT ![w] = q]
      BY DEF Caches
    <3>5. [ch EXCEPT !.avail = a, !.bm = b, !.now = w] \in Caches
      BY DEF Caches
    <3>6. k = [ch EXCEPT !.avail = a, !.bm = b, !.now = w]
      BY <3>2, <3>3, <3>4 DEF Caches
    <3> QED
      BY <3>5, <3>6
  <2>5. PICK v \in SlabId, a \in SUBSET Int :
          v = e.blk.v /\ MetaTo(v, vslab[v].meta \cup {e.id}, a)
    BY Zenon, <1>2, <1>4, <2>3, MallocTakeSets
  <2>6. vslab[v].meta \cup {e.id} \in SUBSET Int
    BY <2>3 DEF TypeOK, Slabs, Entries
  <2>7. vslab' \in [SlabId -> Slabs]
    BY Zenon, <2>5, <2>6, MetaType
  <2>8. held' \in SUBSET Blocks
    BY <2>1, <2>3 DEF TypeOK, Entries
  <2>9. cache' \in [Home -> [Classes -> Caches]]
    BY Zenon, <2>1, <2>4, CacheStep
  <2> HIDE DEF e, k
  <2> QED
    BY <1>1, <2>1, <2>7, <2>8, <2>9, DoneStep DEF TypeOK
<1> QED
  BY <1>3, <1>4

LEMMA FirstFreeType ==
  ASSUME NEW s \in Slabs
  PROVE  /\ FirstFree(s) \in Ids \ s.bits
         /\ \A j \in Ids \ s.bits : FirstFree(s) <= j
<1> DEFINE S == Ids \ s.bits
<1>1. S \subseteq Nat /\ SLAB_SIZE \in S
  <2>1. SLAB_SIZE \in Nat
    BY SlabSize
  <2>2. s.bits \subseteq 0 .. SLAB_SIZE - 1
    BY DEF Slabs
  <2> QED
    BY SMTT(30), <2>1, <2>2 DEF Ids, MaxId
<1> HIDE DEF S
<1>2. PICK i \in S : \A j \in S : i <= j
  BY <1>1, Least
<1>3. FirstFree(s) = CHOOSE i1 \in S : \A j \in S : i1 <= j
  BY DEF FirstFree, S
<1>4. FirstFree(s) \in S /\ \A j \in S : FirstFree(s) <= j
  BY <1>2, <1>3
<1> QED
  BY <1>4 DEF S

LEMMA BlockType ==
  ASSUME NEW v \in SlabId, NEW l \in Layouts, NEW i \in Int
  PROVE  BlockAt(v, l, i) \in Blocks
<1>1. bitsize[l.c] \in Nat /\ l.roffset \in Nat /\ l.c \in Classes
  BY GeometryAssumption DEF Layouts
<1>2. l.roffset + i * bitsize[l.c] \in Int
  BY <1>1
<1> QED
  BY <1>1, <1>2 DEF BlockAt, Blocks

\* What FillPop takes.
LEMMA FillPopTakes ==
  ASSUME TypeOK, NEW t \in Home, FillPop(t), Running'
  PROVE  \E c \in Classes, v \in SlabId, s \in Slabs, i \in 0 .. SLAB_SIZE - 1, w \in Way :
           /\ c = loc[t].c /\ v = loc[t].v /\ s = vslab[v] /\ i = FirstFree(s)
           /\ w = i % NBANKS
           /\ i < s.sc.nbits /\ i \notin s.bits /\ s.nbits < s.sc.nbits
           /\ [blk |-> BlockAt(v, s.sc, i), id |-> i, dmeta |-> s.dmeta] \in Entries
<1>1. t \in Threads /\ pc[t] = "pop"
  BY Zenon DEF FillPop, At, Threads
<1>2. PICK c \in Classes, v \in SlabId : c = loc[t].c /\ v = loc[t].v
  BY <1>1, Placed DEF FillSteps
<1>3. PICK s \in Slabs : s = vslab[v]
  BY DEF TypeOK
<1>4. PICK i \in Ids \ s.bits : i = FirstFree(s)
  BY FirstFreeType
<1>5. PICK w \in Way : w = i % NBANKS
  BY SMTT(30), <1>4, WayType DEF Ids
<1>6. s.nbits <= s.sc.nbits /\ i < s.sc.nbits /\ ~Full(s, c)
  BY <1>2, <1>3, <1>4 DEF FillPop, Ensure, Running, At
<1>7. s.sc \in Layouts /\ s.nbits \in Nat
  BY DEF Slabs
<1>8. s.sc.nbits \in Int /\ s.sc.nbits < SLAB_SIZE /\ SLAB_SIZE \in Nat
  BY <1>7, SlabSize DEF Layouts
<1>9. i \in 0 .. SLAB_SIZE - 1 /\ i \in Int
  BY <1>4, <1>6, <1>8 DEF Ids
<1>10. s.nbits < s.sc.nbits
  BY <1>6, <1>7, <1>8 DEF Full
<1>11. [blk |-> BlockAt(v, s.sc, i), id |-> i, dmeta |-> s.dmeta] \in Entries
  BY <1>7, <1>9, BlockType DEF Entries, Slabs
<1> QED
  BY <1>2, <1>3, <1>4, <1>5, <1>6, <1>9, <1>10, <1>11

LEMMA FillPopType ==
  ASSUME TypeOK, NEW t \in Home, FillPop(t), Running'
  PROVE  TypeOK'
<1>1. t \in Threads /\ pc[t] = "pop" /\ loc[t] \in Locals
  BY Zenon, Placed DEF FillPop, At, Threads
<1>2. PICK c \in Classes, v \in SlabId, s \in Slabs, i \in 0 .. SLAB_SIZE - 1, w \in Way :
           /\ c = loc[t].c /\ v = loc[t].v /\ s = vslab[v] /\ i = FirstFree(s)
           /\ w = i % NBANKS
           /\ i < s.sc.nbits /\ i \notin s.bits /\ s.nbits < s.sc.nbits
           /\ [blk |-> BlockAt(v, s.sc, i), id |-> i, dmeta |-> s.dmeta] \in Entries
  BY FillPopTakes
<1>3. PICK e \in Entries : e = [blk |-> BlockAt(v, s.sc, i), id |-> i, dmeta |-> s.dmeta]
  BY <1>2
<1>4. PICK ch \in Caches : ch = Push(cache[t][c], w, e)
  <2>1. cache[t][c] \in Caches
    BY DEF TypeOK
  <2> QED
    BY Zenon, <2>1, PushType
<1>5. PICK d \in Int : d = Relow(s, s.nbits, s.nbits + 1)
  BY DEF Relow
<1>6. PICK to \in {"filled", "touch", "pop"} :
        to = IF Len(ch.avail[w]) = NUM_MAX_CACHE THEN "filled"
             ELSE IF s.num_b = 0 THEN "touch" ELSE "pop"
  OBVIOUS
<1>7. /\ vslab' = [vslab EXCEPT ![v].bits = @ \cup {i}, ![v].nbits = @ + 1]
      /\ cache' = [cache EXCEPT ![t][c] = ch]
      /\ IF d # 0 THEN ToRecount(t, d, to) ELSE Goto(t, to) /\ UNCHANGED loc
      /\ UNCHANGED <<made, bin, lru, timestamp, lock, held>>
  BY Zenon, <1>2, <1>3, <1>4, <1>5, <1>6 DEF FillPop
<1>8. [s EXCEPT !.bits = @ \cup {i}, !.nbits = @ + 1] \in Slabs
  <2>1. PICK b \in SUBSET (0 .. SLAB_SIZE - 1) : b = s.bits \cup {i}
    BY DEF Slabs
  <2>2. PICK n \in Nat : n = s.nbits + 1
    BY DEF Slabs
  <2>3. [s EXCEPT !.bits = b, !.nbits = n] \in Slabs
    BY DEF Slabs
  <2> QED
    BY <2>1, <2>2, <2>3
<1>9. vslab' \in [SlabId -> Slabs]
  <2>1. vslab' = [vslab EXCEPT ![v] = [s EXCEPT !.bits = @ \cup {i}, !.nbits = @ + 1]]
    BY <1>2, <1>7 DEF TypeOK
  <2> QED
    BY <1>8, <2>1 DEF TypeOK
<1>10. cache' \in [Home -> [Classes -> Caches]]
  BY <1>7, CacheStep
<1>11. /\ pc' \in [Threads -> PCs]
       /\ loc' \in [Threads -> Locals]
       /\ \A u \in Threads : Control(u, pc'[u], loc'[u])
  <2>1. CASE d # 0
    BY <1>1, <1>2, <1>7, <2>1, RecountStep DEF FreeSteps
  <2>2. CASE d = 0
    <3>1. Moves(t, to, loc[t])
      BY <1>7, <2>2 DEF Goto, Moves, TypeOK
    <3>2. Control(t, to, loc[t]) /\ to \in PCs
      BY <1>1, <1>2 DEF Control, Going, FillSteps, FreeSteps, PCs
    <3> QED
      BY <1>1, <3>1, <3>2, ThreadStep
  <2> QED
    BY <2>1, <2>2
<1> QED
  BY <1>7, <1>9, <1>10, <1>11 DEF TypeOK

----------------------------------------------------------------------------
(* The steps of a morph keep the types. *)

LEMMA LeftType ==
  ASSUME TypeOK, NEW t \in Home, loc[t].c \in Classes, loc[t].v \in SlabId
  PROVE  /\ SlabLeft(t) \in Slabs
         /\ SlabLeft(t).sc = vslab[loc[t].v].sc
         /\ CacheLeft(t) \in [Home -> [Classes -> Caches]]
         /\ \A h \in Home, c \in Classes : /\ CacheLeft(t)[h][c].avail = cache[h][c].avail
                                           /\ CacheLeft(t)[h][c].bm = cache[h][c].bm
<1>1. PICK s \in Slabs : s = vslab[loc[t].v]
  BY DEF TypeOK
<1>2. PICK c \in Classes, ch \in Caches : c = loc[t].c /\ ch = cache[t][c]
  BY DEF TypeOK
<1>3. PICK ids : ids = {IndexIn(s.sc, ch.avail[p[1]][p[2] + 1].blk.off) : p \in Dropped(t)}
  OBVIOUS
<1>4. PICK n \in Nat : n = (s.nbits - Cardinality(Dropped(t))) % Half
  <2>1. Dropped(t) \subseteq Way \X Position
    BY DEF Dropped
  <2>2. IsFiniteSet(Way) /\ IsFiniteSet(Position)
    BY FS_Interval, PolicyAssumption DEF Way, Position
  <2>3. IsFiniteSet(Dropped(t))
    BY <2>1, <2>2, FS_Product, FS_Subset
  <2>4. PICK k \in Nat : k = Cardinality(Dropped(t))
    BY <2>3, FS_CardinalityType
  <2>5. s.nbits - k \in Int
    BY <2>4 DEF Slabs
  <2> QED
    BY <2>4, <2>5 DEF Half
<1>5. PICK b \in SUBSET (0 .. SLAB_SIZE - 1) : b = s.bits \ ids
  BY Zenon DEF Slabs
<1>6. SlabLeft(t) = [s EXCEPT !.bits = b, !.nbits = n]
  BY Zenon, <1>1, <1>2, <1>3, <1>4, <1>5 DEF SlabLeft
<1>7. /\ [s EXCEPT !.bits = b, !.nbits = n] \in Slabs
      /\ [s EXCEPT !.bits = b, !.nbits = n].sc = s.sc
  BY DEF Slabs
<1>8. PICK g \in [Way -> [Position -> BOOLEAN]] :
        g = [w \in Way |-> [i \in Position |-> ch.is_sb[w][i] \/ <<w, i>> \in Dropped(t)]]
  OBVIOUS
<1>9. CacheLeft(t) = [cache EXCEPT ![t][c] = [ch EXCEPT !.is_sb = g]]
  BY <1>2, <1>8 DEF CacheLeft, TypeOK
<1>10. /\ [ch EXCEPT !.is_sb = g] \in Caches
       /\ [ch EXCEPT !.is_sb = g].avail = ch.avail
       /\ [ch EXCEPT !.is_sb = g].bm = ch.bm
  BY DEF Caches
<1>11. CacheLeft(t) \in [Home -> [Classes -> Caches]]
  BY <1>9, <1>10, CacheStep
<1>12. ASSUME NEW h \in Home, NEW d \in Classes
       PROVE  CacheLeft(t)[h][d].avail = cache[h][d].avail /\ CacheLeft(t)[h][d].bm = cache[h][d].bm
  <2>1. CASE h = t /\ d = c
    BY <1>2, <1>9, <1>10, <2>1 DEF TypeOK
  <2>2. CASE ~(h = t /\ d = c)
    BY <1>9, <2>2 DEF TypeOK
  <2> QED
    BY <2>1, <2>2
<1> QED
  BY <1>1, <1>6, <1>7, <1>11, <1>12

LEMMA SlabStep ==
  ASSUME TypeOK, NEW v \in SlabId, NEW s \in Slabs
  PROVE  [vslab EXCEPT ![v] = s] \in [SlabId -> Slabs]
BY DEF TypeOK

LEMMA MorphLockType ==
  ASSUME TypeOK, NEW t \in Home, MorphLock(t)
  PROVE  TypeOK'
<1>1. /\ t \in Threads /\ pc[t] = "candidate" /\ loc[t] \in Locals /\ loc[t].c \in Classes
      /\ loc[t].v \in SlabId
  BY Placed DEF MorphLock, At, Threads, FillSteps
<1>2. Control(t, "morph", loc[t]) /\ "morph" \in PCs
  BY <1>1 DEF Control, Going, FillSteps, FreeSteps, PCs
<1>3. Moves(t, "morph", loc[t])
  BY DEF MorphLock, Goto, Moves, TypeOK
<1>4. lock' \in Locks
  BY <1>1, LockTypes DEF MorphLock, SlabLock
<1> QED
  BY <1>1, <1>2, <1>3, <1>4, ThreadStep DEF MorphLock, TypeOK

LEMMA MorphRefusedType ==
  ASSUME TypeOK, NEW t \in Home, MorphRefused(t)
  PROVE  TypeOK'
<1> DEFINE l == [loc[t] EXCEPT !.v = After(lru.list, loc[t].v)]
<1>1. /\ t \in Threads /\ pc[t] = "morph" /\ loc[t] \in Locals /\ loc[t].c \in Classes
      /\ loc[t].v \in SlabId
  BY Placed DEF MorphRefused, At, Threads, FillSteps
<1>2. After(lru.list, loc[t].v) \in SlabId \cup {Null}
  BY AfterType DEF TypeOK, Lists
<1>3. l \in Locals /\ "scan" \in PCs
  BY <1>1, <1>2 DEF Locals, PCs, FillSteps
<1>4. Control(t, "scan", l)
  BY <1>1 DEF Control, Going, FillSteps, FreeSteps, Locals
<1>5. Moves(t, "scan", l)
  BY DEF MorphRefused, Goto, Moves
<1>6. lock' \in Locks
  BY <1>1, LockTypes DEF MorphRefused, SlabLock
<1>7. vslab' \in [SlabId -> Slabs] /\ cache' \in [Home -> [Classes -> Caches]]
  BY <1>1, LeftType, SlabStep DEF MorphRefused
<1> QED
  BY <1>1, <1>3, <1>4, <1>5, <1>6, <1>7, ThreadStep DEF MorphRefused, TypeOK

LEMMA MorphIsEmptyType ==
  ASSUME TypeOK, NEW t \in Home, MorphIsEmpty(t)
  PROVE  TypeOK'
<1>1. /\ t \in Threads /\ pc[t] = "morph" /\ loc[t] \in Locals /\ loc[t].c \in Classes
      /\ loc[t].v \in SlabId
  BY Placed DEF MorphIsEmpty, At, Threads, FillSteps
<1>2. Control(t, "reclass", loc[t]) /\ "reclass" \in PCs
  BY <1>1 DEF Control, Going, FillSteps, FreeSteps, PCs
<1>3. Moves(t, "reclass", loc[t])
  BY DEF MorphIsEmpty, Goto, Moves, TypeOK
<1>4. vslab' \in [SlabId -> Slabs] /\ cache' \in [Home -> [Classes -> Caches]]
  BY <1>1, LeftType, SlabStep DEF MorphIsEmpty
<1> QED
  BY <1>1, <1>2, <1>3, <1>4, ThreadStep DEF MorphIsEmpty, TypeOK

LEMMA MorphBeginType ==
  ASSUME TypeOK, NEW t \in Home, MorphBegin(t)
  PROVE  TypeOK'
<1>1. /\ t \in Threads /\ pc[t] = "morph" /\ loc[t] \in Locals /\ loc[t].c \in Classes
      /\ loc[t].v \in SlabId
  BY Placed DEF MorphBegin, At, Threads, FillSteps
<1>2. Control(t, "move", loc[t]) /\ "move" \in PCs
  BY <1>1 DEF Control, Going, FillSteps, FreeSteps, PCs
<1>3. Moves(t, "move", loc[t])
  BY DEF MorphBegin, Goto, Moves, TypeOK
<1>4. PICK s \in Slabs : s = SlabLeft(t)
  BY <1>1, LeftType
<1>5. PICK l \in Layouts : l = NewLayout(t)
  BY <1>1, <1>4, ResetType DEF NewLayout, Slabs
<1>6. PICK n \in Nat : n = s.nbits % Byte
  <2>1. s.nbits \in Nat
    BY DEF Slabs
  <2> QED
    BY <2>1 DEF Byte
<1>7. [s EXCEPT !.sc = l, !.sc_b = s.sc, !.num_b = n, !.nbits = 0] \in Slabs
  <2>1. PICK z \in Nat : z = 0
    OBVIOUS
  <2>2. [s EXCEPT !.sc = l, !.sc_b = s.sc, !.num_b = n, !.nbits = z] \in Slabs
    BY DEF Slabs
  <2> QED
    BY <2>1, <2>2
<1>8. vslab' \in [SlabId -> Slabs] /\ cache' \in [Home -> [Classes -> Caches]]
  BY <1>1, <1>4, <1>5, <1>6, <1>7, LeftType, SlabStep DEF MorphBegin
<1> QED
  BY <1>1, <1>2, <1>3, <1>8, ThreadStep DEF MorphBegin, TypeOK

LEMMA DeletedType ==
  ASSUME TypeOK, NEW c, NEW v \in SlabId
  PROVE  Deleted(c, v) \in [Classes -> Bins]
<1>1. \A b \in Classes : Without(bin[b].list, v) \in Seq(SlabId)
  BY WithoutSeq DEF TypeOK, Bins
<1>2. \A b \in Classes : After(bin[b].list, v) \in SlabId \cup {Null}
  BY AfterType DEF TypeOK, Bins
<1> QED
  BY <1>1, <1>2 DEF Deleted, TypeOK, Bins

LEMMA InsertedType ==
  ASSUME NEW B \in [Classes -> Bins], NEW c \in Classes, NEW v \in SlabId
  PROVE  [B EXCEPT ![c] = Inserted(@, v)] \in [Classes -> Bins]
<1>1. PICK q \in Seq(SlabId) : q = <<v>> \o B[c].list
  BY AppendType DEF Bins
<1>2. Inserted(B[c], v) \in Bins
  BY <1>1 DEF Inserted, Bins
<1> QED
  BY <1>2

LEMMA MorphEmptyType ==
  ASSUME TypeOK, NEW t \in Home, MorphEmpty(t)
  PROVE  TypeOK'
<1>1. /\ t \in Threads /\ pc[t] = "reclass" /\ loc[t] \in Locals /\ loc[t].c \in Classes
      /\ loc[t].v \in SlabId
  BY Zenon, Placed DEF MorphEmpty, At, Threads, FillSteps
<1>2. Control(t, "reinit", loc[t]) /\ "reinit" \in PCs
  BY <1>1 DEF Control, Going, FillSteps, FreeSteps, PCs
<1>3. Moves(t, "reinit", loc[t])
  BY Zenon DEF MorphEmpty, Goto, Moves, TypeOK
<1>4. bin' \in [Classes -> Bins]
  BY Zenon, <1>1, DeletedType DEF MorphEmpty
<1> QED
  BY Zenon, <1>1, <1>2, <1>3, <1>4, ThreadStep DEF MorphEmpty, TypeOK

LEMMA MorphReinitType ==
  ASSUME TypeOK, NEW t \in Home, MorphReinit(t)
  PROVE  TypeOK'
<1>1. /\ t \in Threads /\ pc[t] = "reinit" /\ loc[t] \in Locals /\ loc[t].c \in Classes
      /\ loc[t].v \in SlabId
  BY Zenon, Placed DEF MorphReinit, At, Threads, FillSteps
<1>2. Control(t, "unlock", loc[t]) /\ "unlock" \in PCs
  BY <1>1 DEF Control, Going, FillSteps, FreeSteps, PCs
<1>3. Moves(t, "unlock", loc[t])
  BY Zenon DEF MorphReinit, Goto, Moves, TypeOK
<1>4. PICK s \in Slabs : s = vslab[loc[t].v]
  BY <1>1 DEF TypeOK
<1>5. PICK r \in Slabs : r = Fresh(loc[t].c)
  BY <1>1, FreshType
<1>6. PICK n \in Nat : n = s.dmeta + 1
  BY DEF Slabs
<1>7. [r EXCEPT !.state = s.state, !.sc_b = s.sc_b, !.table = s.table, !.freed = s.freed,
                !.dmeta = n, !.dfreed = s.dfreed] \in Slabs
  BY DEF Slabs
<1>8. vslab' \in [SlabId -> Slabs]
  BY Zenon, <1>1, <1>4, <1>5, <1>6, <1>7, SlabStep DEF MorphReinit
<1>9. bin' \in [Classes -> Bins]
  BY Zenon, <1>1, InsertedType DEF MorphReinit, TypeOK
<1>10. lock' \in Locks
  BY <1>1, LockTypes DEF MorphReinit, SlabLock
<1> QED
  BY Zenon, <1>1, <1>2, <1>3, <1>8, <1>9, <1>10, ThreadStep DEF MorphReinit, TypeOK

LEMMA MorphUnlockType ==
  ASSUME TypeOK, NEW t \in Home, MorphUnlock(t)
  PROVE  TypeOK'
<1>1. /\ t \in Threads /\ pc[t] = "unlock" /\ loc[t] \in Locals /\ loc[t].c \in Classes
      /\ loc[t].v \in SlabId
  BY Zenon, Placed DEF MorphUnlock, At, Threads, FillSteps
<1>2. Control(t, "visit", loc[t]) /\ "visit" \in PCs
  BY <1>1 DEF Control, Going, FillSteps, FreeSteps, PCs
<1>3. Moves(t, "visit", loc[t])
  BY Zenon DEF MorphUnlock, Goto, Moves, TypeOK
<1>4. lock' \in Locks
  BY <1>1 DEF MorphUnlock, TypeOK, Locks
<1> QED
  BY Zenon, <1>1, <1>2, <1>3, <1>4, ThreadStep DEF MorphUnlock, TypeOK

LEMMA UnlinkedType ==
  ASSUME TypeOK, NEW v
  PROVE  Unlinked(lru, v) \in Lists
<1>1. PICK q \in Seq(SlabId) : q = Without(lru.list, v)
  BY WithoutSeq DEF TypeOK, Lists
<1>2. PICK n \in Nat : n = (lru.len - 1 + Wrap) % Wrap
  BY DEF TypeOK, Lists, Wrap
<1> QED
  BY <1>1, <1>2 DEF Unlinked, TypeOK, Lists

LEMMA MorphMoveType ==
  ASSUME TypeOK, NEW t \in Home, MorphMove(t)
  PROVE  TypeOK'
<1>1. /\ t \in Threads /\ pc[t] = "move" /\ loc[t] \in Locals /\ loc[t].c \in Classes
      /\ loc[t].v \in SlabId
  BY Zenon, Placed DEF MorphMove, At, Threads, FillSteps
<1>2. bin' \in [Classes -> Bins]
  <2>1. PICK B \in [Classes -> Bins] : B = Deleted(vslab[loc[t].v].sc_b.c, loc[t].v)
    BY <1>1, DeletedType
  <2>2. bin' = [B EXCEPT ![loc[t].c] = Inserted(@, loc[t].v)]
    BY Zenon, <2>1 DEF MorphMove
  <2> QED
    BY Zenon, <1>1, <2>2, InsertedType
<1>3. lru' \in Lists
  BY Zenon, UnlinkedType DEF MorphMove
<1>4. PICK d \in Int : d = -1
  OBVIOUS
<1>5. "rebuild" \notin FreeSteps /\ ToRecount(t, d, "rebuild")
  BY Zenon, <1>4 DEF MorphMove, FreeSteps
<1>6. /\ pc' \in [Threads -> PCs]
      /\ loc' \in [Threads -> Locals]
      /\ \A u \in Threads : Control(u, pc'[u], loc'[u])
  BY <1>1, <1>5, RecountStep
<1> QED
  BY Zenon, <1>2, <1>3, <1>6 DEF MorphMove, TypeOK

LEMMA MorphEndType ==
  ASSUME TypeOK, NEW t \in Home, MorphEnd(t), Running'
  PROVE  TypeOK'
<1>1. /\ t \in Threads /\ pc[t] = "rebuild" /\ loc[t] \in Locals /\ loc[t].c \in Classes
      /\ loc[t].v \in SlabId
  BY Placed DEF MorphEnd, At, Threads, FillSteps
<1>2. Control(t, "visit", loc[t]) /\ "visit" \in PCs
  BY <1>1 DEF Control, Going, FillSteps, FreeSteps, PCs
<1>3. Moves(t, "visit", loc[t])
  BY DEF MorphEnd, Goto, Moves, TypeOK
<1>4. PICK s \in Slabs : s = vslab[loc[t].v]
  BY <1>1 DEF TypeOK
<1>5. PICK taken : taken = UNION {Reach(s, b) : b \in s.bits}
  OBVIOUS
<1>6. PICK dnum : dnum = [i \in Ids |-> OldAt(s, i)]
  OBVIOUS
<1>7. Rebuilt(s) = [s EXCEPT !.dnum = dnum, !.bits = taken, !.nbits = Cardinality(taken),
                             !.alloced = taken, !.dmeta = s.dmeta + 1,
                             !.dfreed = @ \cup {s.dmeta},
                             !.meta = taken, !.table = s.bits, !.freed = {}]
  BY <1>5, <1>6 DEF Rebuilt
<1>8. Rebuilt(s).bits = taken
  BY <1>7 DEF Slabs
<1>9. taken \subseteq 0 .. s.sc.nbits
  BY <1>4, <1>8 DEF MorphEnd, Ensure, Running, At
<1>10. s.sc.nbits \in Int /\ s.sc.nbits < SLAB_SIZE /\ SLAB_SIZE \in Nat
  <2>1. s.sc \in Layouts
    BY DEF Slabs
  <2> QED
    BY <2>1, SlabSize DEF Layouts
<1>11. taken \in SUBSET (0 .. SLAB_SIZE - 1) /\ taken \in SUBSET Int
  BY <1>9, <1>10
<1>12. PICK n \in Nat : n = Cardinality(taken)
  <2>1. IsFiniteSet(0 .. SLAB_SIZE - 1)
    BY <1>10, FS_Interval
  <2> QED
    BY <1>11, <2>1, FS_Subset, FS_CardinalityType
<1>13. dnum \in [Ids -> Int]
  <2>1. IsFiniteSet(s.bits)
    <3>1. IsFiniteSet(0 .. SLAB_SIZE - 1)
      BY <1>10, FS_Interval
    <3> QED
      BY <3>1, FS_Subset DEF Slabs
  <2>2. ASSUME NEW i \in Ids PROVE OldAt(s, i) \in Int
    <3>1. {b \in s.bits : i \in Reach(s, b)} \subseteq s.bits
      OBVIOUS
    <3> QED
      BY <2>1, <3>1, FS_Subset, FS_CardinalityType DEF OldAt
  <2> QED
    BY <1>6, <2>2
<1>14. s.bits \in SUBSET Int
  BY <1>10 DEF Slabs
<1>15. PICK k \in Nat, F \in SUBSET Nat : k = s.dmeta + 1 /\ F = s.dfreed \cup {s.dmeta}
  <2>1. s.dmeta \in Nat /\ s.dfreed \in SUBSET Nat
    BY DEF Slabs
  <2>2. s.dmeta + 1 \in Nat /\ s.dfreed \cup {s.dmeta} \in SUBSET Nat
    BY <2>1
  <2> QED
    BY <2>2
<1>16. [s EXCEPT !.dnum = dnum, !.bits = taken, !.nbits = n, !.alloced = taken, !.dmeta = k,
                 !.dfreed = F, !.meta = taken, !.table = s.bits, !.freed = {}] \in Slabs
  BY <1>11, <1>13, <1>14 DEF Slabs
<1>17. Rebuilt(s) = [s EXCEPT !.dnum = dnum, !.bits = taken, !.nbits = n, !.alloced = taken,
                 !.dmeta = k, !.dfreed = F, !.meta = taken, !.table = s.bits, !.freed = {}]
  BY <1>7, <1>12, <1>15 DEF Slabs
<1>18. vslab' \in [SlabId -> Slabs]
  BY <1>1, <1>4, <1>16, <1>17, SlabStep DEF MorphEnd
<1>19. lock' \in Locks
  BY <1>1 DEF MorphEnd, TypeOK, Locks
<1> QED
  BY <1>1, <1>2, <1>3, <1>18, <1>19, ThreadStep DEF MorphEnd, TypeOK

----------------------------------------------------------------------------
(* The steps of a free keep the types. *)

LEMMA FreeCallType ==
  ASSUME TypeOK, NEW t \in Threads, NEW b \in held, FreeCall(t, b)
  PROVE  TypeOK'
<1> DEFINE l == [loc[t] EXCEPT !.v = b.v, !.blk = b, !.sc = vslab[b.v].sc, !.sc_b = vslab[b.v].sc_b]
<1>1. loc[t] \in Locals /\ b \in Blocks
  BY Placed DEF TypeOK
<1>2. PICK v \in SlabId : v = b.v
  BY <1>1 DEF Blocks
<1>3. PICK sc \in Layouts, sc_b \in Layouts \cup {NoLayout} :
        sc = vslab[v].sc /\ sc_b = vslab[v].sc_b
  <2>1. vslab[v] \in Slabs
    BY DEF TypeOK
  <2> QED
    BY <2>1 DEF Slabs
<1>4. l \in Locals /\ l.sc = sc /\ l.v = v /\ l.blk = b
  BY <1>1, <1>2, <1>3 DEF Locals
<1>5. Control(t, "free", l) /\ "free" \in PCs
  BY <1>1, <1>2, <1>3, <1>4 DEF Control, Going, FillSteps, FreeSteps, PCs
<1>6. Moves(t, "free", l)
  BY DEF FreeCall, Goto, Moves
<1>7. held' \in SUBSET Blocks
  BY DEF FreeCall, TypeOK
<1> QED
  BY <1>4, <1>5, <1>6, <1>7, ThreadStep DEF FreeCall, TypeOK

LEMMA FreeIsOldType ==
  ASSUME TypeOK, NEW t \in Threads, FreeIsOld(t)
  PROVE  TypeOK'
<1>1. pc[t] = "free" /\ loc[t] \in Locals /\ Control(t, "free", loc[t])
  BY Placed DEF FreeIsOld, At
<1>2. Control(t, "old", loc[t]) /\ "old" \in PCs
  BY <1>1 DEF Control, Going, FillSteps, FreeSteps, PCs
<1>3. Moves(t, "old", loc[t])
  BY DEF FreeIsOld, Goto, Moves, TypeOK
<1> QED
  BY <1>1, <1>2, <1>3, ThreadStep DEF FreeIsOld, TypeOK

LEMMA IndexType ==
  ASSUME NEW l \in Layouts, NEW o \in Int
  PROVE  IndexIn(l, o) \in Int
<1>1. PICK d \in Nat \ {0} : d = bitsize[l.c]
  BY GeometryAssumption DEF Layouts
<1>2. o - l.roffset \in Int
  BY DEF Layouts
<1> QED
  BY <1>1, <1>2, Quotient DEF IndexIn

\* What a thread in a free knows.
LEMMA FreePlaced ==
  ASSUME TypeOK, NEW t \in Threads, pc[t] \in FreeSteps
  PROVE  /\ loc[t] \in Locals /\ Control(t, pc[t], loc[t])
         /\ loc[t].v \in SlabId /\ loc[t].sc \in Layouts
         /\ loc[t].blk.off \in Int
         /\ Index(t) \in Int
<1>1. loc[t] \in Locals /\ Control(t, pc[t], loc[t])
  BY Placed
<1>2. loc[t].v \in SlabId /\ loc[t].sc \in Layouts
  BY <1>1 DEF Control, Going, FreeSteps
<1>3. loc[t].blk.off \in Int
  BY <1>1 DEF Locals, Blocks, NoBlock
<1> QED
  BY <1>1, <1>2, <1>3, IndexType DEF Index

LEMMA FreeNewSets ==
  ASSUME TypeOK, NEW t \in Threads, FreeNew(t), NEW v \in SlabId, v = loc[t].v
  PROVE  MetaTo(v, vslab[v].meta \ {Index(t)}, vslab[v].alloced \ {Index(t)})
<1>1. PICK s \in Slabs : s = vslab[v]
  BY DEF TypeOK
<1>2. PICK m, a, i : i = Index(t) /\ m = s.meta \ {i} /\ a = s.alloced \ {i}
  OBVIOUS
<1>3. vslab' = [vslab EXCEPT ![v].meta = @ \ {i}, ![v].alloced = @ \ {i}]
  BY <1>2 DEF FreeNew
<1>4. vslab' = [vslab EXCEPT ![v] = [s EXCEPT !.meta = m, !.alloced = a]]
  BY <1>1, <1>2, <1>3 DEF TypeOK, Slabs
<1> QED
  BY <1>1, <1>2, <1>4 DEF MetaTo

LEMMA FreeNewType ==
  ASSUME TypeOK, NEW t \in Threads, FreeNew(t)
  PROVE  TypeOK'
<1>1. pc[t] = "free" /\ pc[t] \in FreeSteps
  BY DEF FreeNew, At, FreeSteps
<1>2. /\ loc[t] \in Locals /\ Control(t, "free", loc[t])
      /\ loc[t].v \in SlabId /\ loc[t].sc \in Layouts /\ loc[t].blk \in Blocks
  BY <1>1, FreePlaced DEF Control
<1>3. PICK i \in Int : i = Index(t)
  BY <1>1, FreePlaced
<1>4. PICK c \in Classes : c = loc[t].sc.c
  BY <1>2 DEF Layouts
<1>5. PICK w \in Way : w = i % NBANKS
  BY WayType
<1>6. vslab' \in [SlabId -> Slabs]
  <2>1. PICK s \in Slabs : s = vslab[loc[t].v]
    BY <1>2 DEF TypeOK
  <2>2. PICK m \in SUBSET Int, a \in SUBSET Int : m = s.meta \ {i} /\ a = s.alloced \ {i}
    BY DEF Slabs
  <2>3. MetaTo(loc[t].v, m, a)
    BY <1>2, <1>3, <2>1, <2>2, FreeNewSets
  <2> QED
    BY <1>2, <2>3, MetaType
<1>7. CASE WayFull(t)
  <2>1. Goto(t, "back") /\ UNCHANGED <<cache, loc, made, bin, lru, timestamp, lock, held>>
    BY <1>7 DEF FreeNew
  <2>2. Control(t, "back", loc[t]) /\ "back" \in PCs
    BY <1>2 DEF Control, Going, FillSteps, FreeSteps, PCs
  <2>3. Moves(t, "back", loc[t])
    BY <2>1 DEF Goto, Moves, TypeOK
  <2> QED
    BY <1>2, <1>6, <2>1, <2>2, <2>3, ThreadStep DEF TypeOK
<1>8. CASE ~WayFull(t)
  <2>0. PICK d \in Nat : d = vslab[loc[t].v].dmeta
    BY <1>2 DEF TypeOK, Slabs
  <2>1. PICK e : e = [blk |-> [loc[t].blk EXCEPT !.c = c], id |-> i, dmeta |-> d]
    OBVIOUS
  <2>2. /\ cache' = [cache EXCEPT ![t][c] = Push(@, w, e)]
        /\ Done(t)
        /\ UNCHANGED <<made, bin, lru, timestamp, lock, held>>
    BY <1>3, <1>4, <1>5, <1>8, <2>0, <2>1 DEF FreeNew
  <2>3. e \in Entries
    BY <1>2, <2>1 DEF Blocks, Entries
  <2>4. t \in Home
    BY <1>8 DEF WayFull
  <2>5. PICK ch \in Caches : ch = cache[t][c]
    BY <2>4 DEF TypeOK
  <2>6. Push(ch, w, e) \in Caches
    BY <2>3, PushType
  <2>7. cache' \in [Home -> [Classes -> Caches]]
    BY <2>2, <2>4, <2>5, <2>6 DEF TypeOK
  <2> QED
    BY <1>6, <2>2, <2>7, DoneStep DEF TypeOK
<1> QED
  BY <1>7, <1>8

LEMMA GivenUpFinite ==
  ASSUME TypeOK, NEW t \in Threads, pc[t] \in FreeSteps, loc[t].sc_b # NoLayout
  PROVE  IsFiniteSet(GivenUp(t))
<1>1. loc[t].sc \in Layouts /\ loc[t].sc_b \in Layouts /\ loc[t].blk.off \in Int
  BY FreePlaced DEF Locals
<1>2. PICK n \in Nat : n = bitsize[loc[t].sc_b.c]
  BY <1>1, GeometryAssumption DEF Layouts
<1>3. PICK a \in Int, z \in Int : /\ a = IndexIn(loc[t].sc, loc[t].blk.off)
                                /\ z = IndexIn(loc[t].sc, loc[t].blk.off + n - 1)
  BY <1>1, IndexType
<1>4. OldIds(t) = a .. z
  BY <1>2, <1>3 DEF OldIds, Overlapped
<1>5. GivenUp(t) \subseteq OldIds(t)
  BY DEF GivenUp
<1> QED
  BY <1>4, <1>5, FS_Interval, FS_Subset

\* What FreeOld does to the slab.
LEMMA FreeOldSets ==
  ASSUME TypeOK, NEW t \in Threads, FreeOld(t)
  PROVE  \E v \in SlabId, r \in Slabs :
           /\ v = loc[t].v /\ vslab' = [vslab EXCEPT ![v] = r]
           /\ r.sc = vslab[v].sc /\ r.sc_b = vslab[v].sc_b
<1>1. IsFiniteSet(GivenUp(t)) /\ loc[t].v \in SlabId /\ loc[t].sc_b \in Layouts
      /\ loc[t].blk.off \in Int
  BY FreePlaced, GivenUpFinite DEF FreeOld, At, FreeSteps, Locals
<1>2. PICK v \in SlabId, s \in Slabs : v = loc[t].v /\ s = vslab[v]
  BY <1>1 DEF TypeOK
<1>3. PICK left \in Nat : left = (s.nbits - Cardinality(GivenUp(t))) % Half
  <2>1. PICK k \in Nat : k = Cardinality(GivenUp(t))
    BY <1>1, FS_CardinalityType
  <2>2. s.nbits - k \in Int
    BY DEF Slabs
  <2> QED
    BY <2>1, <2>2 DEF Half
<1>4. PICK m \in Nat : m = (s.num_b - 1) % Byte
  <2>1. s.num_b - 1 \in Int
    BY DEF Slabs
  <2> QED
    BY <2>1 DEF Byte
<1>5. PICK d \in [Ids -> Int] :
        d = [i \in Ids |-> IF i \in OldIds(t) THEN s.dnum[i] - 1 ELSE s.dnum[i]]
  <2>1. PICK D \in [Ids -> Int] : D = s.dnum
    BY DEF Slabs
  <2>2. [i \in Ids |-> IF i \in OldIds(t) THEN D[i] - 1 ELSE D[i]] \in [Ids -> Int]
    OBVIOUS
  <2> QED
    BY <2>1, <2>2
<1>6. PICK i \in Int : i = IndexIn(loc[t].sc_b, loc[t].blk.off)
  BY <1>1, IndexType
<1>7. PICK b \in SUBSET (0 .. SLAB_SIZE - 1), e \in SUBSET Int, a \in SUBSET Int, f \in SUBSET Int :
        /\ b = s.bits \ GivenUp(t)
        /\ e = s.meta \ GivenUp(t)
        /\ a = s.alloced \ GivenUp(t)
        /\ f = s.freed \cup {i}
  BY DEF Slabs
<1>8. PICK to : to = IF left = 0 THEN "oldbin" ELSE IF s.num_b = 1 THEN "oldlru" ELSE "idle"
  OBVIOUS
<1>9. PICK ts \in Nat : ts = IF to = "oldlru" THEN timestamp ELSE s.timestamp
  BY DEF Slabs, TypeOK
<1>10. vslab' = [vslab EXCEPT ![v] =
         [s EXCEPT !.num_b = (@ - 1) % Byte, !.freed = @ \cup {i}, !.nbits = left,
            !.dnum = [j \in Ids |-> IF j \in OldIds(t) THEN @[j] - 1 ELSE @[j]],
            !.bits = @ \ GivenUp(t), !.meta = @ \ GivenUp(t), !.alloced = @ \ GivenUp(t),
            !.timestamp = IF to = "oldlru" THEN timestamp ELSE @]]
  BY Zenon, <1>2, <1>3, <1>6, <1>8 DEF FreeOld
<1>11. vslab' = [vslab EXCEPT ![v] =
         [s EXCEPT !.num_b = m, !.freed = f, !.nbits = left, !.dnum = d, !.bits = b,
                   !.meta = e, !.alloced = a, !.timestamp = ts]]
  BY <1>4, <1>5, <1>7, <1>9, <1>10 DEF Slabs
<1>12. PICK r \in Slabs : r = [s EXCEPT !.num_b = m, !.freed = f, !.nbits = left, !.dnum = d,
                                 !.bits = b, !.meta = e, !.alloced = a, !.timestamp = ts]
  BY DEF Slabs
<1>13. r.sc = s.sc /\ r.sc_b = s.sc_b
  BY <1>12 DEF Slabs
<1> QED
  BY <1>2, <1>11, <1>12, <1>13

LEMMA FreeOldType ==
  ASSUME TypeOK, NEW t \in Threads, FreeOld(t)
  PROVE  TypeOK'
<1> DEFINE v == loc[t].v
           s == vslab[v]
           left == (s.nbits - Cardinality(GivenUp(t))) % Half
           to == IF left = 0 THEN "oldbin" ELSE IF s.num_b = 1 THEN "oldlru" ELSE "idle"
           l == [loc[t] EXCEPT !.blk = NoBlock]
<1>1. pc[t] = "old" /\ loc[t] \in Locals /\ v \in SlabId /\ loc[t].sc \in Layouts
  BY Zenon, FreePlaced DEF FreeOld, At, FreeSteps
<1>2. vslab' \in [SlabId -> Slabs]
  <2>1. PICK w \in SlabId, r \in Slabs : vslab' = [vslab EXCEPT ![w] = r]
    BY Zenon, FreeOldSets
  <2> QED
    BY <2>1, SlabStep
<1>3. UNCHANGED <<made, bin, lru, timestamp, lock, cache, held>>
  BY DEF FreeOld
<1>4. CASE to = "idle"
  <2>1. Done(t)
    BY <1>4 DEF FreeOld
  <2> QED
    BY <1>2, <1>3, <2>1, DoneStep DEF TypeOK
<1>5. CASE to # "idle"
  <2>1. Moves(t, to, l)
    BY <1>5 DEF FreeOld, Goto, Moves
  <2>2. PICK p \in {"oldbin", "oldlru"} : p = to
    BY <1>5
  <2>3. l \in Locals /\ l.v = v /\ l.sc = loc[t].sc
    BY <1>1 DEF Locals
  <2>4. Control(t, p, l) /\ p \in PCs
    BY <1>1, <2>3 DEF Control, Going, FillSteps, FreeSteps, PCs
  <2> QED
    BY SMTT(30), <1>2, <1>3, <2>1, <2>2, <2>3, <2>4, ThreadStep DEF TypeOK
<1> QED
  BY SMTT(30), <1>4, <1>5

LEMMA OldLRUType ==
  ASSUME TypeOK, NEW t \in Threads, OldLRU(t)
  PROVE  TypeOK'
<1>1. pc[t] = "oldlru" /\ loc[t] \in Locals /\ loc[t].v \in SlabId /\ loc[t].sc \in Layouts
  BY FreePlaced DEF OldLRU, At, FreeSteps
<1>2. lru' \in Lists
  <2>1. PICK k \in Lists : k = lru
    BY DEF TypeOK
  <2>0. k.list \in Seq(SlabId) /\ k.len \in Nat
    BY DEF Lists
  <2>2. PICK q \in Seq(SlabId) : q = Append(k.list, loc[t].v)
    BY <1>1, <2>0, AppendType
  <2>3. PICK n \in Nat : n = k.len + 1
    BY <2>0
  <2>4. [k EXCEPT !.list = q, !.len = n] \in Lists
    BY DEF Lists
  <2> QED
    BY <2>1, <2>2, <2>3, <2>4 DEF OldLRU
<1>3. UNCHANGED <<vslab, made, bin, timestamp, cache, held>>
  BY DEF OldLRU
<1>4. CASE Low(vslab[loc[t].v].nbits, vslab[loc[t].v].sc.nbits)
  <2>1. PICK d \in Int : d = 1
    OBVIOUS
  <2>2. LRULock(t) /\ ToRecount(t, d, "idle")
    BY <1>4, <2>1 DEF OldLRU
  <2>3. lock' \in Locks
    BY <2>2, LockTypes DEF LRULock
  <2>4. "idle" \notin FillSteps \cup FreeSteps
    BY DEF FillSteps, FreeSteps
  <2> QED
    BY <1>1, <1>2, <1>3, <2>2, <2>3, <2>4, RecountStep DEF TypeOK
<1>5. CASE ~Low(vslab[loc[t].v].nbits, vslab[loc[t].v].sc.nbits)
  <2>1. Done(t) /\ UNCHANGED lock
    BY <1>5 DEF OldLRU
  <2> QED
    BY <1>2, <1>3, <2>1, DoneStep DEF TypeOK
<1> QED
  BY <1>4, <1>5

LEMMA LeaveBinType ==
  ASSUME TypeOK, NEW t \in Threads, LeaveBin(t)
  PROVE  TypeOK'
<1> DEFINE to == IF pc[t] = "oldbin" THEN "release" ELSE "backcheck"
<1>1. /\ pc[t] \in {"oldbin", "backbin"} /\ loc[t] \in Locals
      /\ loc[t].v \in SlabId /\ loc[t].sc \in Layouts
  BY Zenon, FreePlaced DEF LeaveBin, At, FreeSteps
<1>2. PICK p \in {"release", "backcheck"} : p = to
  OBVIOUS
<1>3. Control(t, p, loc[t]) /\ p \in PCs
  BY <1>1 DEF Control, Going, FillSteps, FreeSteps, PCs
<1>4. Moves(t, p, loc[t])
  BY Zenon, <1>2 DEF LeaveBin, Goto, Moves, TypeOK
<1>5. bin' \in [Classes -> Bins]
  <2>1. Deleted(loc[t].sc.c, loc[t].v) \in [Classes -> Bins]
    BY <1>1, DeletedType
  <2>2. bin' = Deleted(loc[t].sc.c, loc[t].v) \/ bin' = bin
    BY Zenon DEF LeaveBin
  <2> QED
    BY <2>1, <2>2 DEF TypeOK
<1> QED
  BY Zenon, <1>1, <1>3, <1>4, <1>5, ThreadStep DEF LeaveBin, TypeOK

LEMMA GoneType ==
  ASSUME TypeOK, NEW v \in SlabId
  PROVE  [vslab EXCEPT ![v].state = "gone"] \in [SlabId -> Slabs]
<1>1. PICK s \in Slabs : s = vslab[v]
  BY DEF TypeOK
<1>2. [s EXCEPT !.state = "gone"] \in Slabs
  BY DEF Slabs
<1> QED
  BY <1>1, <1>2 DEF TypeOK

LEMMA ReleaseType ==
  ASSUME TypeOK, NEW t \in Threads, Release(t)
  PROVE  TypeOK'
<1>1. PICK v \in SlabId : v = loc[t].v
  BY FreePlaced DEF Release, At, FreeSteps
<1>2. PICK s \in Slabs : s = vslab[v]
  BY DEF TypeOK
<1>3. PICK F \in SUBSET Nat : F = s.dfreed \cup {s.dmeta}
  BY DEF Slabs
<1>4. [s EXCEPT !.state = "gone", !.dfreed = F] \in Slabs
  BY DEF Slabs
<1>5. vslab' = [vslab EXCEPT ![v] = [s EXCEPT !.state = "gone", !.dfreed = F]] \/ vslab' = vslab
  BY <1>1, <1>2, <1>3 DEF Release, TypeOK
<1>6. vslab' \in [SlabId -> Slabs]
  BY <1>4, <1>5, SlabStep DEF TypeOK
<1> QED
  BY <1>6, DoneStep DEF Release, TypeOK

LEMMA DallocType ==
  ASSUME TypeOK, NEW t \in Threads, Dalloc(t)
  PROVE  TypeOK'
<1>1. loc[t].v \in SlabId
  BY FreePlaced DEF Dalloc, At, FreeSteps
<1>2. vslab' \in [SlabId -> Slabs]
  BY <1>1, GoneType DEF Dalloc
<1> QED
  BY <1>2, DoneStep DEF Dalloc, TypeOK

LEMMA BackCheckType ==
  ASSUME TypeOK, NEW t \in Threads, BackCheck(t)
  PROVE  TypeOK'
<1>1. pc[t] = "backcheck" /\ loc[t] \in Locals /\ loc[t].v \in SlabId /\ loc[t].sc \in Layouts
  BY FreePlaced DEF BackCheck, At, FreeSteps
<1>2. UNCHANGED <<vslab, made, bin, lru, timestamp, lock, cache, held>>
  BY DEF BackCheck
<1>3. CASE StillEmpty(loc[t].v)
  <2>1. Control(t, "backlru", loc[t]) /\ "backlru" \in PCs
    BY <1>1 DEF Control, Going, FillSteps, FreeSteps, PCs
  <2>2. Moves(t, "backlru", loc[t])
    BY <1>3 DEF BackCheck, Goto, Moves, TypeOK
  <2> QED
    BY <1>1, <1>2, <2>1, <2>2, ThreadStep DEF TypeOK
<1>4. CASE ~StillEmpty(loc[t].v)
  <2>1. Done(t)
    BY <1>4 DEF BackCheck
  <2> QED
    BY <1>2, <2>1, DoneStep DEF TypeOK
<1> QED
  BY <1>3, <1>4

LEMMA BackLRUType ==
  ASSUME TypeOK, NEW t \in Threads, BackLRU(t)
  PROVE  TypeOK'
<1>1. pc[t] = "backlru" /\ loc[t] \in Locals /\ loc[t].v \in SlabId /\ loc[t].sc \in Layouts
  BY Zenon, FreePlaced DEF BackLRU, At, FreeSteps
<1>2. PICK d \in Int : d = -1
  OBVIOUS
<1>3. ToRecount(t, d, "dalloc") /\ "dalloc" \notin FillSteps
  BY Zenon, <1>2 DEF BackLRU, FillSteps
<1>4. lru' \in Lists /\ lock' \in Locks
  BY Zenon, UnlinkedType, LockTypes DEF BackLRU, LRULock
<1> QED
  BY Zenon, <1>1, <1>3, <1>4, RecountStep DEF BackLRU, TypeOK

LEMMA FreeBackType ==
  ASSUME TypeOK, NEW t \in Threads, FreeBack(t)
  PROVE  TypeOK'
<1> DEFINE v == loc[t].v
           s == vslab[v]
           left == (s.nbits - 1) % Half
           to == IF left = 0 THEN "backbin" ELSE "idle"
           k == [loc[t] EXCEPT !.blk = NoBlock]
<1>1. pc[t] = "back" /\ loc[t] \in Locals /\ v \in SlabId /\ loc[t].sc \in Layouts
  BY Zenon, FreePlaced DEF FreeBack, At, FreeSteps
<1>2. PICK s1 \in Slabs : s1 = s
  BY <1>1 DEF TypeOK
<1>3. PICK d \in Int : d = Relow([s EXCEPT !.sc.nbits = loc[t].sc.nbits], left + 1, left)
  BY DEF Relow
<1>4. vslab' \in [SlabId -> Slabs]
  <2>1. PICK b \in SUBSET (0 .. SLAB_SIZE - 1) : b = s1.bits \ {Index(t)}
    BY DEF Slabs
  <2>2. PICK n \in Nat : n = (s1.nbits - 1) % Half
    <3>1. s1.nbits - 1 \in Int
      BY DEF Slabs
    <3> QED
      BY <3>1 DEF Half
  <2>3. [s1 EXCEPT !.bits = b, !.nbits = n] \in Slabs
    BY Zenon DEF Slabs
  <2>4. vslab' = [vslab EXCEPT ![v] = [s1 EXCEPT !.bits = b, !.nbits = n]]
    BY Zenon, <1>2, <2>1, <2>2 DEF FreeBack, Returned, Slabs
  <2> QED
    BY <1>1, <2>3, <2>4, SlabStep
<1>5. k \in Locals /\ k.v = v /\ k.sc = loc[t].sc
  BY <1>1 DEF Locals
<1>6. PICK p \in {"backbin", "idle"} : p = to
  BY SMTT(30)
<1>7. UNCHANGED <<made, bin, lru, timestamp, cache, held>>
  BY DEF FreeBack
<1>8. /\ IF d # 0
           THEN /\ SlabLock(v, t)
                /\ Goto(t, "recount")
                /\ loc' = [loc EXCEPT ![t].low = lru.morphing, ![t].delta = d,
                                      ![t].next = p, ![t].blk = NoBlock]
           ELSE /\ IF p = "idle" THEN Done(t)
                   ELSE Goto(t, p) /\ loc' = [loc EXCEPT ![t].blk = NoBlock]
                /\ UNCHANGED lock
  BY Zenon, <1>3, <1>6 DEF FreeBack
<1>9. CASE d # 0
  <2>1. PICK m \in Nat : m = lru.morphing
    BY DEF TypeOK, Lists
  <2> DEFINE l == [k EXCEPT !.low = m, !.delta = d, !.next = p]
  <2>2. p \in PCs /\ "recount" \in PCs
    BY DEF PCs, FreeSteps
  <2>3. l \in Locals
    BY <1>5, <2>2, CountsType, Zenon
  <2>4. l.v = v /\ l.sc = loc[t].sc /\ l.next = p
    BY <1>1 DEF Locals
  <2>5. Control(t, "recount", l)
    BY <1>1, <2>4 DEF Control, Going, FillSteps, FreeSteps
  <2>6. [loc[t] EXCEPT !.low = m, !.delta = d, !.next = p, !.blk = NoBlock] = l
    BY <1>1 DEF Locals
  <2>7. Moves(t, "recount", l)
    BY ZenonT(60), <1>1, <1>8, <1>9, <2>1, <2>6 DEF Goto, Moves, TypeOK
  <2>8. lock' \in Locks
    <3>1. SlabLock(v, t)
      BY <1>8, <1>9
    <3> QED
      BY <1>1, <3>1, LockTypes DEF SlabLock
  <2> HIDE DEF l
  <2> QED
    BY <1>4, <1>7, <2>2, <2>3, <2>5, <2>7, <2>8, ThreadStep DEF TypeOK
<1>10. CASE d = 0 /\ p = "idle"
  <2>1. Done(t) /\ UNCHANGED lock
    BY <1>8, <1>10
  <2> QED
    BY <1>4, <1>7, <2>1, DoneStep DEF TypeOK
<1>11. CASE d = 0 /\ p # "idle"
  <2>1. Moves(t, p, k) /\ UNCHANGED lock
    BY <1>8, <1>11 DEF Goto, Moves
  <2>2. Control(t, p, k) /\ p \in PCs
    BY <1>1, <1>5, <1>11 DEF Control, Going, FillSteps, FreeSteps, PCs
  <2> QED
    BY <1>4, <1>5, <1>7, <2>1, <2>2, ThreadStep DEF TypeOK
<1> QED
  BY <1>9, <1>10, <1>11

----------------------------------------------------------------------------
(* Where the steps lead. *)

\* No other thread moves.
Alone(t) == \A u \in Threads \ {t} : /\ pc'[u] = pc[u] /\ loc'[u] = loc[u]
                                     /\ Where(u)' = Where(u)

\* The thread t goes from p to q.
Flow(t, p, q) == /\ t \in Threads /\ Alone(t)
                 /\ pc[t] = p /\ Where(t) = p /\ pc'[t] = q /\ Where(t)' = q

\* What a step leaves of its locals.
SameClass(t) == loc'[t].c = loc[t].c /\ loc'[t].blk = loc[t].blk /\ loc'[t].sc = loc[t].sc
Same(t) == SameClass(t) /\ loc'[t].v = loc[t].v

NextNode(t) == LET n == After(bin[loc[t].c].list, loc[t].v)
               IN IF n = Null THEN Head(bin[loc[t].c].list) ELSE n

LEMMA FlowMoves ==
  ASSUME TypeOK, NEW t \in Threads, NEW p, NEW l, Moves(t, p, l)
  PROVE  Alone(t) /\ pc'[t] = p /\ loc'[t] = l /\ Where(t)' = Going(p, l)
BY DEF TypeOK, Moves, Alone, Where, Going

LEMMA MallocCallFlow ==
  ASSUME TypeOK, NEW t \in Home, NEW c \in Classes, MallocCall(t, c)
  PROVE  Flow(t, "idle", "malloc") /\ loc'[t].c = c /\ loc'[t].blk = loc[t].blk
<1>1. t \in Threads /\ pc[t] = "idle" /\ loc[t] \in Locals
  BY Placed DEF MallocCall, At, Threads
<1>2. Moves(t, "malloc", [loc[t] EXCEPT !.c = c])
  BY DEF MallocCall, Goto, Moves, TypeOK
<1> QED
  BY <1>1, <1>2, FlowMoves DEF Flow, Same, SameClass, Going, Where, Locals

LEMMA FillLockFlow ==
  ASSUME TypeOK, NEW t \in Home, FillLock(t)
  PROVE  (Flow(t, "malloc", "getone") \/ Flow(t, "malloc", "visit")) /\ SameClass(t)
<1>1. t \in Threads /\ pc[t] = "malloc" /\ loc[t] \in Locals
  BY Placed DEF FillLock, At, Threads
<1>2. Moves(t, IF StartOf(bin[loc[t].c]) = Null THEN "getone" ELSE "visit", [loc[t] EXCEPT !.v = StartOf(bin[loc[t].c])])
  BY DEF FillLock, Goto, Moves, TypeOK
<1> QED
  BY <1>1, <1>2, FlowMoves DEF Flow, Same, SameClass, Going, Where, Locals

LEMMA FillVisitFlow ==
  ASSUME TypeOK, NEW t \in Home, FillVisit(t)
  PROVE  Flow(t, "visit", "pop") /\ Same(t)
<1>1. t \in Threads /\ pc[t] = "visit" /\ loc[t] \in Locals
  BY Zenon, Placed DEF FillVisit, At, Threads
<1>2. Moves(t, "pop", loc[t])
  BY Zenon DEF FillVisit, Goto, Moves, TypeOK
<1> QED
  BY <1>1, <1>2, FlowMoves DEF Flow, Same, SameClass, Going, Where, Locals

LEMMA FillNextFlow ==
  ASSUME TypeOK, NEW t \in Home, FillNext(t)
  PROVE  (Flow(t, "pop", "getone") \/ Flow(t, "pop", "visit")) /\ SameClass(t)
<1>1. t \in Threads /\ pc[t] = "pop" /\ loc[t] \in Locals
  BY Placed DEF FillNext, At, Threads
<1>2. Moves(t, IF NextNode(t) = bin[loc[t].c].now THEN "getone" ELSE "visit", [loc[t] EXCEPT !.v = NextNode(t)])
  BY DEF FillNext, Goto, Moves, TypeOK, NextNode
<1> QED
  BY <1>1, <1>2, FlowMoves DEF Flow, Same, SameClass, Going, Where, Locals

LEMMA FilledFlow ==
  ASSUME TypeOK, NEW t \in Home, Filled(t)
  PROVE  Flow(t, "filled", "malloc") /\ loc'[t].c = loc[t].c /\ loc'[t].blk = NoBlock
<1>1. t \in Threads /\ pc[t] = "filled" /\ loc[t] \in Locals
  BY Placed DEF Filled, At, Threads
<1>2. Moves(t, "malloc", [NoLocals EXCEPT !.c = loc[t].c])
  BY DEF Filled, Goto, Moves
<1> QED
  BY <1>1, <1>2, FlowMoves DEF Flow, Going, Where, NoLocals

LEMMA TouchFlow ==
  ASSUME TypeOK, NEW t \in Home, Touch(t)
  PROVE  Flow(t, "touch", "stamp") /\ Same(t)
<1>1. t \in Threads /\ pc[t] = "touch" /\ loc[t] \in Locals
  BY Placed DEF Touch, At, Threads
<1>2. Moves(t, "stamp", loc[t])
  BY DEF Touch, Goto, Moves, TypeOK
<1> QED
  BY <1>1, <1>2, FlowMoves DEF Flow, Same, SameClass, Going, Where, Locals

LEMMA StampFlow ==
  ASSUME TypeOK, NEW t \in Home, Stamp(t)
  PROVE  Flow(t, "stamp", "pop") /\ Same(t)
<1>1. t \in Threads /\ pc[t] = "stamp" /\ loc[t] \in Locals
  BY Placed DEF Stamp, At, Threads
<1>2. Moves(t, "pop", loc[t])
  BY DEF Stamp, Goto, Moves, TypeOK
<1> QED
  BY <1>1, <1>2, FlowMoves DEF Flow, Same, SameClass, Going, Where, Locals

LEMMA GetOneFlow ==
  ASSUME TypeOK, NEW t \in Home, GetOne(t)
  PROVE  (Flow(t, "getone", "search") \/ Flow(t, "getone", "create")) /\ Same(t)
<1>1. t \in Threads /\ pc[t] = "getone" /\ loc[t] \in Locals
  BY Placed DEF GetOne, At, Threads
<1>2. Moves(t, IF lru.morphing * SearchDen > lru.len * SearchNum THEN "search" ELSE "create", [loc[t] EXCEPT !.stamp = timestamp])
  BY DEF GetOne, Goto, Moves, TypeOK
<1> QED
  BY <1>1, <1>2, FlowMoves DEF Flow, Same, SameClass, Going, Where, Locals

LEMMA SearchFlow ==
  ASSUME TypeOK, NEW t \in Home, Search(t)
  PROVE  Flow(t, "search", "scan") /\ SameClass(t)
<1>1. t \in Threads /\ pc[t] = "search" /\ loc[t] \in Locals
  BY Placed DEF Search, At, Threads
<1>2. Moves(t, "scan", [loc[t] EXCEPT !.v = IF lru.list = <<>> THEN Null ELSE Head(lru.list)])
  BY DEF Search, Goto, Moves, TypeOK
<1> QED
  BY <1>1, <1>2, FlowMoves DEF Flow, Same, SameClass, Going, Where, Locals

LEMMA SearchSkipFlow ==
  ASSUME TypeOK, NEW t \in Home, SearchSkip(t)
  PROVE  Flow(t, "scan", "scan") /\ SameClass(t)
<1>1. t \in Threads /\ pc[t] = "scan" /\ loc[t] \in Locals
  BY Placed DEF SearchSkip, At, Threads
<1>2. Moves(t, "scan", [loc[t] EXCEPT !.v = After(lru.list, loc[t].v)])
  BY DEF SearchSkip, Goto, Moves, TypeOK, At
<1> QED
  BY <1>1, <1>2, FlowMoves DEF Flow, Same, SameClass, Going, Where, Locals

LEMMA SearchFoundFlow ==
  ASSUME TypeOK, NEW t \in Home, SearchFound(t)
  PROVE  Flow(t, "scan", "candidate") /\ Same(t)
<1>1. t \in Threads /\ pc[t] = "scan" /\ loc[t] \in Locals
  BY Placed DEF SearchFound, At, Threads
<1>2. Moves(t, "candidate", loc[t])
  BY DEF SearchFound, Goto, Moves, TypeOK
<1> QED
  BY <1>1, <1>2, FlowMoves DEF Flow, Same, SameClass, Going, Where, Locals

LEMMA SearchFailsFlow ==
  ASSUME TypeOK, NEW t \in Home, SearchFails(t)
  PROVE  Flow(t, "scan", "create") /\ Same(t)
<1>1. t \in Threads /\ pc[t] = "scan" /\ loc[t] \in Locals
  BY Placed DEF SearchFails, At, Threads
<1>2. Moves(t, "create", loc[t])
  BY DEF SearchFails, Goto, Moves, TypeOK
<1> QED
  BY <1>1, <1>2, FlowMoves DEF Flow, Same, SameClass, Going, Where, Locals

LEMMA InsertFlow ==
  ASSUME TypeOK, NEW t \in Home, Insert(t)
  PROVE  Flow(t, "insert", "visit") /\ Same(t)
<1>1. t \in Threads /\ pc[t] = "insert" /\ loc[t] \in Locals
  BY Placed DEF Insert, At, Threads
<1>2. Moves(t, "visit", loc[t])
  BY DEF Insert, Goto, Moves, TypeOK
<1> QED
  BY <1>1, <1>2, FlowMoves DEF Flow, Same, SameClass, Going, Where, Locals

LEMMA MorphLockFlow ==
  ASSUME TypeOK, NEW t \in Home, MorphLock(t)
  PROVE  Flow(t, "candidate", "morph") /\ Same(t)
<1>1. t \in Threads /\ pc[t] = "candidate" /\ loc[t] \in Locals
  BY Placed DEF MorphLock, At, Threads
<1>2. Moves(t, "morph", loc[t])
  BY DEF MorphLock, Goto, Moves, TypeOK
<1> QED
  BY <1>1, <1>2, FlowMoves DEF Flow, Same, SameClass, Going, Where, Locals

LEMMA MorphRefusedFlow ==
  ASSUME TypeOK, NEW t \in Home, MorphRefused(t)
  PROVE  Flow(t, "morph", "scan") /\ SameClass(t)
<1>1. t \in Threads /\ pc[t] = "morph" /\ loc[t] \in Locals
  BY Placed DEF MorphRefused, At, Threads
<1>2. Moves(t, "scan", [loc[t] EXCEPT !.v = After(lru.list, loc[t].v)])
  BY DEF MorphRefused, Goto, Moves, TypeOK
<1> QED
  BY <1>1, <1>2, FlowMoves DEF Flow, Same, SameClass, Going, Where, Locals

LEMMA MorphIsEmptyFlow ==
  ASSUME TypeOK, NEW t \in Home, MorphIsEmpty(t)
  PROVE  Flow(t, "morph", "reclass") /\ Same(t)
<1>1. t \in Threads /\ pc[t] = "morph" /\ loc[t] \in Locals
  BY Placed DEF MorphIsEmpty, At, Threads
<1>2. Moves(t, "reclass", loc[t])
  BY DEF MorphIsEmpty, Goto, Moves, TypeOK
<1> QED
  BY <1>1, <1>2, FlowMoves DEF Flow, Same, SameClass, Going, Where, Locals

LEMMA MorphBeginFlow ==
  ASSUME TypeOK, NEW t \in Home, MorphBegin(t)
  PROVE  Flow(t, "morph", "move") /\ Same(t)
<1>1. t \in Threads /\ pc[t] = "morph" /\ loc[t] \in Locals
  BY Placed DEF MorphBegin, At, Threads
<1>2. Moves(t, "move", loc[t])
  BY DEF MorphBegin, Goto, Moves, TypeOK
<1> QED
  BY <1>1, <1>2, FlowMoves DEF Flow, Same, SameClass, Going, Where, Locals

LEMMA MorphEmptyFlow ==
  ASSUME TypeOK, NEW t \in Home, MorphEmpty(t)
  PROVE  Flow(t, "reclass", "reinit") /\ Same(t)
<1>1. t \in Threads /\ pc[t] = "reclass" /\ loc[t] \in Locals
  BY Zenon, Placed DEF MorphEmpty, At, Threads
<1>2. Moves(t, "reinit", loc[t])
  BY Zenon DEF MorphEmpty, Goto, Moves, TypeOK
<1> QED
  BY <1>1, <1>2, FlowMoves DEF Flow, Same, SameClass, Going, Where, Locals

LEMMA MorphReinitFlow ==
  ASSUME TypeOK, NEW t \in Home, MorphReinit(t)
  PROVE  Flow(t, "reinit", "unlock") /\ Same(t)
<1>1. t \in Threads /\ pc[t] = "reinit" /\ loc[t] \in Locals
  BY Zenon, Placed DEF MorphReinit, At, Threads
<1>2. Moves(t, "unlock", loc[t])
  BY Zenon DEF MorphReinit, Goto, Moves, TypeOK
<1> QED
  BY <1>1, <1>2, FlowMoves DEF Flow, Same, SameClass, Going, Where, Locals

LEMMA MorphUnlockFlow ==
  ASSUME TypeOK, NEW t \in Home, MorphUnlock(t)
  PROVE  Flow(t, "unlock", "visit") /\ Same(t)
<1>1. t \in Threads /\ pc[t] = "unlock" /\ loc[t] \in Locals
  BY Zenon, Placed DEF MorphUnlock, At, Threads
<1>2. Moves(t, "visit", loc[t])
  BY Zenon DEF MorphUnlock, Goto, Moves, TypeOK
<1> QED
  BY <1>1, <1>2, FlowMoves DEF Flow, Same, SameClass, Going, Where, Locals

LEMMA MorphEndFlow ==
  ASSUME TypeOK, NEW t \in Home, MorphEnd(t)
  PROVE  Flow(t, "rebuild", "visit") /\ Same(t)
<1>1. t \in Threads /\ pc[t] = "rebuild" /\ loc[t] \in Locals
  BY Placed DEF MorphEnd, At, Threads
<1>2. Moves(t, "visit", loc[t])
  BY DEF MorphEnd, Goto, Moves, TypeOK
<1> QED
  BY <1>1, <1>2, FlowMoves DEF Flow, Same, SameClass, Going, Where, Locals

LEMMA FreeCallFlow ==
  ASSUME TypeOK, NEW t \in Threads, NEW b \in held, FreeCall(t, b)
  PROVE  Flow(t, "idle", "free") /\ loc'[t].v = b.v /\ loc'[t].blk = b /\ loc'[t].sc = vslab[b.v].sc
<1>1. t \in Threads /\ pc[t] = "idle" /\ loc[t] \in Locals
  BY Placed DEF FreeCall, At, Threads
<1>2. PICK v, sc, sc_b : v = b.v /\ sc = vslab[v].sc /\ sc_b = vslab[v].sc_b
  OBVIOUS
<1>3. Moves(t, "free", [loc[t] EXCEPT !.v = v, !.blk = b, !.sc = sc, !.sc_b = sc_b])
  BY <1>2 DEF FreeCall, Goto, Moves
<1>4. PICK k : k = [loc[t] EXCEPT !.v = v, !.blk = b, !.sc = sc, !.sc_b = sc_b]
  OBVIOUS
<1>5. k.v = v /\ k.blk = b /\ k.sc = sc
  BY <1>1, <1>4 DEF Locals
<1>6. Moves(t, "free", k)
  BY <1>3, <1>4
<1>7. Alone(t) /\ pc'[t] = "free" /\ loc'[t] = k /\ Where(t)' = "free"
  BY <1>6, FlowMoves DEF Going
<1> QED
  BY <1>1, <1>2, <1>5, <1>7 DEF Flow, Going, Where

LEMMA FreeIsOldFlow ==
  ASSUME TypeOK, NEW t \in Threads, FreeIsOld(t)
  PROVE  Flow(t, "free", "old") /\ Same(t)
<1>1. t \in Threads /\ pc[t] = "free" /\ loc[t] \in Locals
  BY Placed DEF FreeIsOld, At, Threads
<1>2. Moves(t, "old", loc[t])
  BY DEF FreeIsOld, Goto, Moves, TypeOK
<1> QED
  BY <1>1, <1>2, FlowMoves DEF Flow, Same, SameClass, Going, Where, Locals

LEMMA ReleaseFlow ==
  ASSUME TypeOK, NEW t \in Threads, Release(t)
  PROVE  Flow(t, "release", "idle") /\ loc'[t] = NoLocals
<1>1. t \in Threads /\ pc[t] = "release" /\ loc[t] \in Locals
  BY Placed DEF Release, At, Threads
<1>2. Moves(t, "idle", NoLocals)
  BY DEF Release, Goto, Moves, TypeOK, Done
<1> QED
  BY <1>1, <1>2, FlowMoves DEF Flow, Same, SameClass, Going, Where, Locals

LEMMA DallocFlow ==
  ASSUME TypeOK, NEW t \in Threads, Dalloc(t)
  PROVE  Flow(t, "dalloc", "idle") /\ loc'[t] = NoLocals
<1>1. t \in Threads /\ pc[t] = "dalloc" /\ loc[t] \in Locals
  BY Placed DEF Dalloc, At, Threads
<1>2. Moves(t, "idle", NoLocals)
  BY DEF Dalloc, Goto, Moves, TypeOK, Done
<1> QED
  BY <1>1, <1>2, FlowMoves DEF Flow, Same, SameClass, Going, Where, Locals

LEMMA RecountingFlow ==
  ASSUME TypeOK, NEW t \in Threads, NEW d, NEW to \in PCs, ToRecount(t, d, to)
  PROVE  Alone(t) /\ pc'[t] = "recount" /\ Where(t)' = to /\ loc'[t].next = to /\ Same(t)
<1>1. loc[t] \in Locals
  BY Placed
<1>2. PICK k : k = [loc[t] EXCEPT !.low = lru.morphing, !.delta = d, !.next = to]
  OBVIOUS
<1>3. k.next = to /\ k.c = loc[t].c /\ k.v = loc[t].v /\ k.blk = loc[t].blk /\ k.sc = loc[t].sc
  BY <1>1, <1>2 DEF Locals
<1>4. Moves(t, "recount", k)
  BY <1>2 DEF ToRecount, Goto, Moves
<1> QED
  BY <1>3, <1>4, FlowMoves DEF Going, Same, SameClass

LEMMA DoneFlow ==
  ASSUME TypeOK, NEW t \in Threads, Done(t)
  PROVE  Alone(t) /\ pc'[t] = "idle" /\ Where(t)' = "idle" /\ loc'[t] = NoLocals
BY FlowMoves DEF Done, Goto, Moves, Going

LEMMA StayFlow ==
  ASSUME TypeOK, NEW t \in Threads, NEW p, p # "recount", Goto(t, p), UNCHANGED loc
  PROVE  Alone(t) /\ pc'[t] = p /\ Where(t)' = p /\ Same(t)
<1>1. Moves(t, p, loc[t])
  BY SMTT(30) DEF Goto, Moves, TypeOK
<1> QED
  BY <1>1, FlowMoves DEF Going, Same, SameClass

LEMMA FillPopFlow ==
  ASSUME TypeOK, NEW t \in Home, FillPop(t)
  PROVE  /\ t \in Threads /\ Alone(t) /\ Same(t)
         /\ pc[t] = "pop" /\ Where(t) = "pop"
         /\ \/ pc'[t] = "recount" /\ loc'[t].next = Where(t)'
            \/ pc'[t] = Where(t)'
         /\ Where(t)' \in {"filled", "touch", "pop"}
         /\ Where(t)' # "filled" =>
              Len(Push(cache[t][loc[t].c], FirstFree(vslab[loc[t].v]) % NBANKS,
                       [blk |-> BlockAt(loc[t].v, vslab[loc[t].v].sc, FirstFree(vslab[loc[t].v])),
                        id |-> FirstFree(vslab[loc[t].v]), dmeta |-> vslab[loc[t].v].dmeta])
                    .avail[FirstFree(vslab[loc[t].v]) % NBANKS]) # NUM_MAX_CACHE
<1>1. t \in Threads /\ pc[t] = "pop" /\ Where(t) = "pop"
  BY Zenon DEF FillPop, At, Threads, Where, Going
<1>2. PICK i, w : i = FirstFree(vslab[loc[t].v]) /\ w = i % NBANKS
  OBVIOUS
<1>3. PICK ch : ch = Push(cache[t][loc[t].c], w,
                          [blk |-> BlockAt(loc[t].v, vslab[loc[t].v].sc, i), id |-> i,
                           dmeta |-> vslab[loc[t].v].dmeta])
  OBVIOUS
<1>4. PICK to : to = IF Len(ch.avail[w]) = NUM_MAX_CACHE THEN "filled"
                     ELSE IF vslab[loc[t].v].num_b = 0 THEN "touch" ELSE "pop"
  OBVIOUS
<1>5. PICK d : d = Relow(vslab[loc[t].v], vslab[loc[t].v].nbits, vslab[loc[t].v].nbits + 1)
  OBVIOUS
<1>6. IF d # 0 THEN ToRecount(t, d, to) ELSE Goto(t, to) /\ UNCHANGED loc
  BY Zenon, <1>2, <1>3, <1>4, <1>5 DEF FillPop
<1>7. to \in {"filled", "touch", "pop"} /\ to \in PCs /\ to # "recount"
  BY <1>4 DEF PCs, FillSteps
<1>8. Alone(t) /\ Same(t) /\ Where(t)' = to /\ (pc'[t] = to \/ pc'[t] = "recount")
      /\ (pc'[t] = to \/ loc'[t].next = to)
  BY <1>1, <1>6, <1>7, RecountingFlow, StayFlow
<1>9. to # "filled" => Len(ch.avail[w]) # NUM_MAX_CACHE
  BY <1>4
<1> QED
  BY <1>1, <1>2, <1>3, <1>7, <1>8, <1>9

LEMMA MallocTakeFlow ==
  ASSUME TypeOK, NEW t \in Home, MallocTake(t)
  PROVE  \/ Flow(t, "malloc", "idle") /\ loc'[t] = NoLocals
         \/ Flow(t, "malloc", "malloc") /\ loc'[t] = loc[t]
<1>1. t \in Threads /\ pc[t] = "malloc" /\ Where(t) = "malloc"
  BY DEF MallocTake, At, Threads, Where, Going
<1>2. Done(t) \/ UNCHANGED <<pc, loc>>
  BY Zenon DEF MallocTake
<1>3. CASE Done(t)
  BY <1>1, <1>3, DoneFlow DEF Flow
<1>4. CASE UNCHANGED <<pc, loc>>
  BY <1>1, <1>4 DEF Flow, Alone, Where
<1> QED
  BY SMTT(30), <1>2, <1>3, <1>4

\* Whose step a recount precedes, it stays at.
LEMMA RecountFlow ==
  ASSUME TypeOK, NEW t \in Threads, Recount(t)
  PROVE  /\ Alone(t) /\ pc[t] = "recount" /\ Where(t) = loc[t].next
         /\ pc'[t] = Where(t) /\ Where(t)' = Where(t)
         /\ Where(t) \in {"pop", "touch", "filled", "insert", "rebuild", "idle", "backbin", "dalloc"}
         /\ Where(t) # "idle" => Same(t)
         /\ Where(t) = "idle" => loc'[t] = NoLocals
<1> DEFINE to == loc[t].next
<1>1. pc[t] = "recount" /\ loc[t] \in Locals /\ Control(t, "recount", loc[t])
  BY Placed DEF Recount, At
<1>2. to \in {"pop", "touch", "filled", "insert", "rebuild", "idle", "backbin", "dalloc"}
  BY <1>1 DEF Control
<1>3. PICK k : k = IF to = "idle" THEN NoLocals
                   ELSE [loc[t] EXCEPT !.low = 0, !.delta = 0, !.next = "idle"]
  OBVIOUS
<1>4. /\ to = "idle" => k = NoLocals
      /\ to # "idle" => k.c = loc[t].c /\ k.v = loc[t].v /\ k.blk = loc[t].blk /\ k.sc = loc[t].sc
  BY <1>1, <1>3 DEF Locals
<1>5. Moves(t, to, k)
  BY <1>3 DEF Recount, Goto, Moves
<1>6. Going(to, k) = to /\ Where(t) = to
  BY <1>1, <1>2 DEF Going, Where
<1> QED
  BY <1>1, <1>2, <1>4, <1>5, <1>6, FlowMoves DEF Same, SameClass

LEMMA CreateFlow ==
  ASSUME TypeOK, NEW t \in Home, Create(t)
  PROVE  /\ t \in Threads /\ Alone(t) /\ SameClass(t)
         /\ pc[t] = "create" /\ Where(t) = "create" /\ pc'[t] = "recount" /\ Where(t)' = "insert"
         /\ loc'[t].v = made + 1 /\ loc'[t].next = "insert"
<1>1. t \in Threads /\ pc[t] = "create" /\ loc[t] \in Locals
  BY Placed DEF Create, At, Threads
<1>2. PICK k : k = [loc[t] EXCEPT !.v = made + 1, !.low = lru.morphing, !.delta = 1, !.next = "insert"]
  OBVIOUS
<1>3. /\ k.c = loc[t].c /\ k.blk = loc[t].blk /\ k.sc = loc[t].sc
      /\ k.v = made + 1 /\ k.next = "insert"
  BY <1>1, <1>2 DEF Locals
<1>4. Moves(t, "recount", k)
  BY <1>1, <1>2 DEF Create, Goto, Moves, Locals
<1> QED
  BY <1>1, <1>3, <1>4, FlowMoves DEF Going, Where, SameClass

LEMMA MorphMoveFlow ==
  ASSUME TypeOK, NEW t \in Home, MorphMove(t)
  PROVE  /\ t \in Threads /\ Alone(t) /\ Same(t)
         /\ pc[t] = "move" /\ Where(t) = "move" /\ pc'[t] = "recount" /\ Where(t)' = "rebuild"
         /\ loc'[t].next = "rebuild"
<1>1. t \in Threads /\ pc[t] = "move" /\ Where(t) = "move"
  BY Zenon DEF MorphMove, At, Threads, Where, Going
<1>2. PICK d : d = -1
  OBVIOUS
<1>3. ToRecount(t, d, "rebuild") /\ "rebuild" \in PCs
  BY Zenon, <1>2 DEF MorphMove, PCs, FillSteps
<1> QED
  BY <1>1, <1>3, RecountingFlow

LEMMA BackLRUFlow ==
  ASSUME TypeOK, NEW t \in Threads, BackLRU(t)
  PROVE  /\ Alone(t) /\ Same(t)
         /\ pc[t] = "backlru" /\ Where(t) = "backlru" /\ pc'[t] = "recount" /\ Where(t)' = "dalloc"
         /\ loc'[t].next = "dalloc"
<1>1. pc[t] = "backlru" /\ Where(t) = "backlru"
  BY Zenon DEF BackLRU, At, Where, Going
<1>2. PICK d : d = -1
  OBVIOUS
<1>3. ToRecount(t, d, "dalloc") /\ "dalloc" \in PCs
  BY Zenon, <1>2 DEF BackLRU, PCs, FreeSteps
<1> QED
  BY <1>1, <1>3, RecountingFlow

LEMMA OldLRUFlow ==
  ASSUME TypeOK, NEW t \in Threads, OldLRU(t)
  PROVE  /\ Alone(t) /\ pc[t] = "oldlru" /\ Where(t) = "oldlru" /\ Where(t)' = "idle"
         /\ \/ pc'[t] = "recount" /\ loc'[t].next = "idle" /\ Same(t) /\ LRULock(t)
            \/ pc'[t] = "idle" /\ loc'[t] = NoLocals /\ UNCHANGED lock
<1>1. pc[t] = "oldlru" /\ Where(t) = "oldlru"
  BY DEF OldLRU, At, Where, Going
<1>2. PICK d \in Int : d = 1
  OBVIOUS
<1>3. \/ ToRecount(t, d, "idle") /\ LRULock(t)
      \/ Done(t) /\ UNCHANGED lock
  BY <1>2 DEF OldLRU
<1>4. "idle" \in PCs
  BY DEF PCs
<1> QED
  BY <1>1, <1>3, <1>4, RecountingFlow, DoneFlow

LEMMA LeaveBinFlow ==
  ASSUME TypeOK, NEW t \in Threads, LeaveBin(t)
  PROVE  (Flow(t, "oldbin", "release") \/ Flow(t, "backbin", "backcheck")) /\ Same(t)
<1>1. pc[t] \in {"oldbin", "backbin"} /\ Where(t) = pc[t]
  BY Zenon DEF LeaveBin, At, Where, Going
<1>2. PICK to : to = IF pc[t] = "oldbin" THEN "release" ELSE "backcheck"
  OBVIOUS
<1>3. Goto(t, to) /\ UNCHANGED loc
  BY Zenon, <1>2 DEF LeaveBin
<1> QED
  BY <1>1, <1>2, <1>3, StayFlow DEF Flow

LEMMA BackCheckFlow ==
  ASSUME TypeOK, NEW t \in Threads, BackCheck(t)
  PROVE  \/ Flow(t, "backcheck", "backlru") /\ Same(t) /\ vslab[loc[t].v].nbits = 0
         \/ Flow(t, "backcheck", "idle") /\ loc'[t] = NoLocals
<1>1. pc[t] = "backcheck" /\ Where(t) = "backcheck"
  BY DEF BackCheck, At, Where, Going
<1>2. \/ Goto(t, "backlru") /\ UNCHANGED loc /\ StillEmpty(loc[t].v)
      \/ Done(t)
  BY DEF BackCheck
<1> QED
  BY <1>1, <1>2, StayFlow, DoneFlow DEF Flow, StillEmpty

LEMMA FreeNewFlow ==
  ASSUME TypeOK, NEW t \in Threads, FreeNew(t)
  PROVE  \/ Flow(t, "free", "back") /\ Same(t) /\ UNCHANGED cache
         \/ Flow(t, "free", "idle") /\ loc'[t] = NoLocals /\ ~WayFull(t)
<1>1. pc[t] = "free" /\ Where(t) = "free"
  BY DEF FreeNew, At, Where, Going
<1>2. \/ Goto(t, "back") /\ UNCHANGED <<cache, loc>>
      \/ Done(t) /\ ~WayFull(t)
  BY DEF FreeNew
<1> QED
  BY <1>1, <1>2, StayFlow, DoneFlow DEF Flow

LEMMA FreeOldFlow ==
  ASSUME TypeOK, NEW t \in Threads, FreeOld(t)
  PROVE  \/ Flow(t, "old", "idle") /\ loc'[t] = NoLocals
         \/ /\ Flow(t, "old", "oldbin") \/ Flow(t, "old", "oldlru")
            /\ loc'[t].c = loc[t].c /\ loc'[t].v = loc[t].v /\ loc'[t].sc = loc[t].sc
            /\ loc'[t].blk = NoBlock
<1>1. pc[t] = "old" /\ Where(t) = "old" /\ loc[t] \in Locals
  BY Placed DEF FreeOld, At, Where, Going
<1>2. PICK p \in {"oldbin", "oldlru", "idle"} :
        p = IF (vslab[loc[t].v].nbits - Cardinality(GivenUp(t))) % Half = 0 THEN "oldbin"
            ELSE IF vslab[loc[t].v].num_b = 1 THEN "oldlru" ELSE "idle"
  OBVIOUS
<1>3. PICK k : k = [loc[t] EXCEPT !.blk = NoBlock]
  OBVIOUS
<1>4. k.c = loc[t].c /\ k.v = loc[t].v /\ k.sc = loc[t].sc /\ k.blk = NoBlock
  BY <1>1, <1>3 DEF Locals
<1>5. IF p = "idle" THEN Done(t) ELSE Moves(t, p, k)
  BY <1>2, <1>3 DEF FreeOld, Goto, Moves
<1> QED
  BY <1>1, <1>2, <1>4, <1>5, FlowMoves, DoneFlow DEF Flow, Going

\* What FreeBack does, by whether it has to count the slab.
LEMMA FreeBackFlow ==
  ASSUME TypeOK, NEW t \in Threads, FreeBack(t)
  PROVE  /\ Alone(t) /\ pc[t] = "back" /\ Where(t) = "back"
         /\ Where(t)' = IF (vslab[loc[t].v].nbits - 1) % Half = 0 THEN "backbin" ELSE "idle"
         /\ \/ /\ pc'[t] = "recount" /\ loc'[t].next = Where(t)' /\ SlabLock(loc[t].v, t)
               /\ loc'[t].c = loc[t].c /\ loc'[t].v = loc[t].v /\ loc'[t].sc = loc[t].sc
               /\ loc'[t].blk = NoBlock
            \/ /\ pc'[t] = "backbin" /\ UNCHANGED lock
               /\ loc'[t].c = loc[t].c /\ loc'[t].v = loc[t].v /\ loc'[t].sc = loc[t].sc
               /\ loc'[t].blk = NoBlock
            \/ pc'[t] = "idle" /\ loc'[t] = NoLocals /\ UNCHANGED lock
<1>1. pc[t] = "back" /\ Where(t) = "back" /\ loc[t] \in Locals
  BY Zenon, Placed DEF FreeBack, At, Where, Going
<1>2. PICK left : left = (vslab[loc[t].v].nbits - 1) % Half
  OBVIOUS
<1>3. PICK p \in {"backbin", "idle"} : p = IF left = 0 THEN "backbin" ELSE "idle"
  OBVIOUS
<1>4. PICK d : d = Relow([vslab[loc[t].v] EXCEPT !.sc.nbits = loc[t].sc.nbits], left + 1, left)
  OBVIOUS
<1>5. PICK k : k = [loc[t] EXCEPT !.blk = NoBlock]
  OBVIOUS
<1>6. PICK j : j = [loc[t] EXCEPT !.low = lru.morphing, !.delta = d, !.next = p, !.blk = NoBlock]
  OBVIOUS
<1>7. k.c = loc[t].c /\ k.v = loc[t].v /\ k.sc = loc[t].sc /\ k.blk = NoBlock
  BY <1>1, <1>5 DEF Locals
<1>8. j.c = loc[t].c /\ j.v = loc[t].v /\ j.sc = loc[t].sc /\ j.blk = NoBlock /\ j.next = p
  BY <1>1, <1>6 DEF Locals
<1>9. IF d # 0 THEN SlabLock(loc[t].v, t) /\ Moves(t, "recount", j)
      ELSE (IF p = "idle" THEN Done(t) ELSE Moves(t, p, k)) /\ UNCHANGED lock
  <2>1. IF d # 0
          THEN /\ SlabLock(loc[t].v, t)
               /\ Goto(t, "recount")
               /\ loc' = [loc EXCEPT ![t].low = lru.morphing, ![t].delta = d,
                                     ![t].next = p, ![t].blk = NoBlock]
          ELSE /\ IF p = "idle" THEN Done(t)
                  ELSE Goto(t, p) /\ loc' = [loc EXCEPT ![t].blk = NoBlock]
               /\ UNCHANGED lock
    BY Zenon, <1>2, <1>3, <1>4 DEF FreeBack
  <2> QED
    BY Zenon, <1>1, <1>5, <1>6, <2>1 DEF Goto, Moves, TypeOK
<1>10. CASE d # 0
  BY <1>1, <1>2, <1>3, <1>8, <1>9, <1>10, FlowMoves DEF Going
<1>11. CASE d = 0 /\ p = "idle"
  BY <1>1, <1>2, <1>3, <1>9, <1>11, DoneFlow
<1>12. CASE d = 0 /\ p # "idle"
  BY <1>1, <1>2, <1>3, <1>7, <1>9, <1>12, FlowMoves DEF Going
<1> QED
  BY <1>10, <1>11, <1>12

----------------------------------------------------------------------------
(* The ways. *)

LEMMA WherePlaced ==
  ASSUME TypeOK, NEW t \in Threads, Where(t) \in FillSteps
  PROVE  t \in Home /\ loc[t].c \in Classes
BY DEF TypeOK, Control, Where

LEMMA WaysKept ==
  ASSUME TypeOK, Ways, Room, NEW t \in Threads, Alone(t),
         \A h \in Home, c \in Classes : /\ cache'[h][c].avail = cache[h][c].avail
                                        /\ cache'[h][c].bm = cache[h][c].bm,
         Where(t)' \in FillSteps \ {"malloc", "filled"} =>
           Where(t) \in FillSteps \ {"malloc", "filled"} /\ loc'[t].c = loc[t].c
  PROVE  Ways' /\ Room'
<1>1. Ways'
  BY DEF Ways, Exact
<1>2. ASSUME NEW h \in Home, Where(h)' \in FillSteps \ {"malloc", "filled"}
      PROVE  HasRoom(cache[h][loc[h].c])'
  <2>1. Where(h) \in FillSteps \ {"malloc", "filled"} /\ loc'[h].c = loc[h].c
    BY <1>2 DEF Alone, Threads
  <2>2. HasRoom(cache[h][loc[h].c]) /\ loc[h].c \in Classes
    BY <2>1, WherePlaced DEF Room, Threads
  <2> QED
    BY <2>1, <2>2 DEF HasRoom
<1> QED
  BY <1>1, <1>2 DEF Room

\* One cache changes, of a thread that is then at the end of its fill, or has room.
LEMMA WaysSet ==
  ASSUME TypeOK, Ways, Room, NEW t \in Home, Alone(t), NEW c \in Classes, NEW ch \in Caches,
         cache' = [cache EXCEPT ![t][c] = ch], Exact(ch),
         Where(t)' \in FillSteps \ {"malloc", "filled"} => loc'[t].c = c /\ HasRoom(ch)
  PROVE  Ways' /\ Room'
<1>1. ASSUME NEW h \in Home, NEW d \in Classes
      PROVE  cache'[h][d] = IF h = t /\ d = c THEN ch ELSE cache[h][d]
  BY DEF TypeOK
<1>2. Ways'
  BY <1>1 DEF Ways
<1>3. ASSUME NEW h \in Home, Where(h)' \in FillSteps \ {"malloc", "filled"}
      PROVE  HasRoom(cache'[h][loc'[h].c])
  <2>1. CASE h = t
    BY <1>1, <1>3, <2>1
  <2>2. CASE h # t
    <3>1. Where(h) \in FillSteps \ {"malloc", "filled"} /\ loc'[h].c = loc[h].c
      BY <1>3, <2>2 DEF Alone, Threads
    <3>2. HasRoom(cache[h][loc[h].c]) /\ loc[h].c \in Classes
      BY <3>1, WherePlaced DEF Room, Threads
    <3> QED
      BY <1>1, <2>2, <3>1, <3>2
  <2> QED
    BY <2>1, <2>2
<1> QED
  BY <1>2, <1>3 DEF Room, HasRoom

LEMMA PushExact ==
  ASSUME NEW ch \in Caches, Exact(ch), NEW w \in Way, NEW e \in Entries,
         Len(ch.avail[w]) < NUM_MAX_CACHE
  PROVE  /\ Exact(Push(ch, w, e))
         /\ \A u \in Way : Len(Push(ch, w, e).avail[u]) =
                             IF u = w THEN Len(ch.avail[u]) + 1 ELSE Len(ch.avail[u])
<1>1. PICK a \in [Way -> Seq(Entries)] : a = ch.avail
  BY DEF Caches
<1>2. PICK n \in Nat : n = NUM_MAX_CACHE
  BY PolicyAssumption
<1>3. \A u \in Way : a[u] \in Seq(Entries) /\ Len(a[u]) \in Nat
  OBVIOUS
<1>4. /\ Append(a[w], e) \in Seq(Entries)
      /\ Len(Append(a[w], e)) = Len(a[w]) + 1
      /\ Append(a[w], e) # <<>>
  BY <1>3, AppendProperties
<1>5. PICK b \in [Way -> Seq(Entries)] : b = [a EXCEPT ![w] = Append(a[w], e)]
  BY <1>4
<1>6. \A u \in Way : b[u] = IF u = w THEN Append(a[w], e) ELSE a[u]
  BY <1>5
<1>7. Push(ch, w, e).avail = b
  BY <1>1, <1>5, PushType
<1>8. \A u \in Way : Len(b[u]) = IF u = w THEN Len(a[u]) + 1 ELSE Len(a[u])
  BY <1>4, <1>6
<1>9. \A u \in Way : Len(b[u]) <= n
  BY <1>1, <1>2, <1>3, <1>8 DEF Exact
<1>10. Push(ch, w, e).bm = {u \in Way : b[u] # <<>>}
  <2>1. ch.bm = {u \in Way : a[u] # <<>>}
    BY <1>1 DEF Exact
  <2>2. Push(ch, w, e).bm = IF a[w] = <<>> THEN (ch.bm \ {w}) \cup ({w} \ ch.bm) ELSE ch.bm
    <3>1. Push(ch, w, e).bm = IF ch.avail[w] = <<>> THEN cache_bitmap_flip(ch.bm, w) ELSE ch.bm
      BY PushType
    <3> QED
      BY <1>1, <3>1 DEF cache_bitmap_flip
  <2> QED
    BY <1>4, <1>6, <2>1, <2>2
<1> QED
  BY <1>1, <1>2, <1>7, <1>8, <1>9, <1>10 DEF Exact

LEMMA MallocTakeWays ==
  ASSUME TypeOK, Ways, Room, NEW t \in Home, MallocTake(t)
  PROVE  Ways' /\ Room'
<1>1. Alone(t) /\ Where(t)' \notin FillSteps \ {"malloc", "filled"}
  BY MallocTakeFlow DEF Flow, FillSteps
<1>2. PICK c \in Classes, ch \in Caches, w \in Way, n \in Int :
        /\ c = loc[t].c /\ ch = cache[t][c] /\ w = NextWay(ch) /\ n = Undropped(t, c, w)
        /\ w \in ch.bm
        /\ n = -1 \/ n \in 1 .. Len(ch.avail[w])
  BY MallocTakeFinds
<1>3. PICK a \in [Way -> Seq(Entries)] : a = ch.avail
  BY DEF Caches
<1>4. PICK m \in Nat : m = NUM_MAX_CACHE
  BY PolicyAssumption
<1>5. ch.bm = {u \in Way : a[u] # <<>>} /\ \A u \in Way : Len(a[u]) <= m /\ Len(a[u]) \in Nat
  <2>1. Exact(ch)
    BY <1>2 DEF Ways
  <2>2. \A u \in Way : a[u] \in Seq(Entries)
    OBVIOUS
  <2> QED
    BY <1>3, <1>4, <2>1, <2>2 DEF Exact
<1>6. ASSUME NEW q \in Seq(Entries), NEW bm, NEW now \in Way, Len(q) <= m,
             bm = IF q = <<>> THEN ch.bm \ {w} ELSE ch.bm,
             cache' = [cache EXCEPT ![t][c] = [ch EXCEPT !.avail[w] = q, !.bm = bm, !.now = now]]
      PROVE  Ways' /\ Room'
  <2>1. PICK b \in [Way -> Seq(Entries)] : b = [a EXCEPT ![w] = q]
    OBVIOUS
  <2>2. PICK k : k = [ch EXCEPT !.avail[w] = q, !.bm = bm, !.now = now]
    OBVIOUS
  <2>3. bm \in SUBSET Way
    BY <1>5, <1>6
  <2>4. [ch EXCEPT !.avail = b, !.bm = bm, !.now = now] \in Caches
    BY <2>3 DEF Caches
  <2>5. k \in Caches /\ k.avail = b /\ k.bm = bm
    BY <1>3, <2>1, <2>2, <2>4 DEF Caches
  <2>6. \A u \in Way : b[u] = IF u = w THEN q ELSE a[u]
    BY SMTT(30), <2>1
  <2>7. bm = {u \in Way : b[u] # <<>>}
    BY <1>2, <1>5, <1>6, <2>6
  <2>8. \A u \in Way : Len(b[u]) <= m
    BY <1>5, <1>6, <2>6
  <2>9. Exact(k)
    BY <1>4, <2>5, <2>7, <2>8 DEF Exact
  <2> QED
    BY <1>1, <1>6, <2>2, <2>5, <2>9, WaysSet
<1>7. CASE n = -1
  <2>1. cache' = [cache EXCEPT ![t][c] =
                       [ch EXCEPT !.avail[w] = <<>>, !.bm = cache_bitmap_flip(@, w)]]
    BY <1>2, <1>7 DEF MallocTake
  <2>2. PICK q \in Seq(Entries) : q = <<>> /\ Len(q) = 0
    BY EmptySeq
  <2>3. PICK bm : bm = ch.bm \ {w}
    OBVIOUS
  <2>4. cache_bitmap_flip(ch.bm, w) = bm
    BY <1>2, <2>3 DEF cache_bitmap_flip
  <2>5. PICK now \in Way : now = ch.now
    BY DEF Caches
  <2>6. [ch EXCEPT !.avail[w] = <<>>, !.bm = cache_bitmap_flip(@, w)]
          = [ch EXCEPT !.avail[w] = q, !.bm = bm, !.now = now]
    BY <2>2, <2>4, <2>5 DEF Caches
  <2>7. cache' = [cache EXCEPT ![t][c] = [ch EXCEPT !.avail[w] = q, !.bm = bm, !.now = now]]
    BY <2>1, <2>6
  <2>8. Len(q) <= m /\ bm = IF q = <<>> THEN ch.bm \ {w} ELSE ch.bm
    BY <2>2, <2>3
  <2> QED
    BY Zenon, <1>6, <2>7, <2>8
<1>8. CASE n # -1
  <2>1. cache' = [cache EXCEPT ![t][c] =
          [ch EXCEPT !.avail[w] = SubSeq(@, 1, n - 1),
                     !.bm = IF n = 1 THEN cache_bitmap_flip(@, w) ELSE @, !.now = w]]
    BY Zenon, <1>2, <1>8 DEF MallocTake
  <2>2. a[w] \in Seq(Entries) /\ n \in 1 .. Len(a[w])
    BY <1>2, <1>3, <1>8
  <2>3. PICK q \in Seq(Entries) : q = SubSeq(a[w], 1, n - 1) /\ Len(q) = n - 1
    <3>1. Len(a[w]) \in Nat
      BY <2>2
    <3>2. SubSeq(a[w], 1, n - 1) \in Seq(Entries) /\ Len(SubSeq(a[w], 1, n - 1)) = n - 1
      BY <2>2, <3>1, SubSeqProperties
    <3> QED
      BY <3>2
  <2>4. Len(q) <= m /\ (q = <<>> <=> n = 1)
    <3>1. q = <<>> <=> Len(q) = 0
      BY EmptySeq
    <3>2. Len(a[w]) <= m /\ Len(a[w]) \in Nat
      BY <1>5
    <3>3. n \in 1 .. Len(a[w]) /\ Len(q) = n - 1
      BY <2>2, <2>3
    <3>4. Len(q) <= m /\ (Len(q) = 0 <=> n = 1)
      BY <3>2, <3>3
    <3> QED
      BY <3>1, <3>4
  <2>5. PICK bm : bm = IF q = <<>> THEN ch.bm \ {w} ELSE ch.bm
    OBVIOUS
  <2>6. (IF n = 1 THEN cache_bitmap_flip(ch.bm, w) ELSE ch.bm) = bm
    BY <1>2, <2>4, <2>5 DEF cache_bitmap_flip
  <2>7. cache' = [cache EXCEPT ![t][c] = [ch EXCEPT !.avail[w] = q, !.bm = bm, !.now = w]]
    BY <1>3, <2>1, <2>3, <2>6
  <2> QED
    BY <1>6, <2>4, <2>5, <2>7
<1> QED
  BY <1>7, <1>8

LEMMA FillPopWays ==
  ASSUME TypeOK, Ways, Room, NEW t \in Home, FillPop(t), Running'
  PROVE  Ways' /\ Room'
<1>1. PICK c \in Classes, v \in SlabId, s \in Slabs, i \in 0 .. SLAB_SIZE - 1, w \in Way :
           /\ c = loc[t].c /\ v = loc[t].v /\ s = vslab[v] /\ i = FirstFree(s)
           /\ w = i % NBANKS
           /\ i < s.sc.nbits /\ i \notin s.bits /\ s.nbits < s.sc.nbits
           /\ [blk |-> BlockAt(v, s.sc, i), id |-> i, dmeta |-> s.dmeta] \in Entries
  BY FillPopTakes
<1>2. PICK e \in Entries : e = [blk |-> BlockAt(v, s.sc, i), id |-> i, dmeta |-> s.dmeta]
  BY <1>1
<1>3. PICK old \in Caches : old = cache[t][c]
  BY DEF TypeOK
<1>4. PICK ch \in Caches : ch = Push(old, w, e)
  BY ZenonT(60), PushType
<1>5. cache' = [cache EXCEPT ![t][c] = ch]
  BY <1>1, <1>2, <1>3, <1>4 DEF FillPop
<1>6. /\ Alone(t) /\ loc'[t].c = c /\ Where(t) = "pop"
      /\ Where(t)' # "filled" => Len(ch.avail[w]) # NUM_MAX_CACHE
  BY Zenon, <1>1, <1>2, <1>3, <1>4, FillPopFlow DEF Same, SameClass
<1>7. HasRoom(old) /\ Exact(old)
  BY <1>1, <1>3, <1>6 DEF Room, Ways, FillSteps
<1>8. /\ Exact(ch)
      /\ \A u \in Way : Len(ch.avail[u]) = IF u = w THEN Len(old.avail[u]) + 1 ELSE Len(old.avail[u])
  BY <1>4, <1>7, PushExact DEF HasRoom
<1>9. Where(t)' # "filled" => HasRoom(ch)
  <2>1. \A u \in Way : Len(ch.avail[u]) <= NUM_MAX_CACHE
    BY <1>8 DEF Exact
  <2>2. \A u \in Way : Len(ch.avail[u]) \in Nat
    BY DEF Caches
  <2> QED
    BY <1>6, <1>7, <1>8, <2>1, <2>2, PolicyAssumption DEF HasRoom
<1> QED
  BY <1>5, <1>6, <1>8, <1>9, WaysSet

LEMMA FreeNewWays ==
  ASSUME TypeOK, Ways, Room, NEW t \in Threads, FreeNew(t)
  PROVE  Ways' /\ Room'
<1>1. CASE UNCHANGED cache
  BY <1>1, FreeNewFlow, WaysKept DEF Flow, FillSteps
<1>2. CASE cache' # cache
  <2>1. Flow(t, "free", "idle") /\ ~WayFull(t)
    BY <1>2, FreeNewFlow
  <2>2. t \in Home
    BY <2>1 DEF WayFull
  <2>3. loc[t].sc \in Layouts /\ Index(t) \in Int /\ loc[t].blk \in Blocks
    BY <2>1, FreePlaced DEF Flow, FreeSteps, Control
  <2>4. PICK c \in Classes, i \in Int : c = loc[t].sc.c /\ i = Index(t)
    BY <2>3 DEF Layouts
  <2>5. PICK w \in Way : w = i % NBANKS
    BY WayType
  <2>0. PICK d \in Nat : d = vslab[loc[t].v].dmeta
    BY <2>1, FreePlaced DEF Flow, FreeSteps, TypeOK, Slabs
  <2>6. PICK e \in Entries : e = [blk |-> [loc[t].blk EXCEPT !.c = c], id |-> i, dmeta |-> d]
    BY <2>3 DEF Blocks, Entries
  <2>7. PICK ch \in Caches : ch = cache[t][c]
    BY <2>2 DEF TypeOK
  <2>8. cache' = [cache EXCEPT ![t][c] = Push(ch, w, e)]
    <3>1. cache' = [cache EXCEPT ![t][c] = Push(@, w, e)]
      BY <1>2, <2>0, <2>4, <2>5, <2>6 DEF FreeNew
    <3> QED
      BY <2>7, <3>1
  <2>9. Exact(ch)
    BY <2>2, <2>7 DEF Ways
  <2>10. Len(ch.avail[w]) < NUM_MAX_CACHE
    <3>1. Len(ch.avail[w]) # NUM_MAX_CACHE
      BY <2>1, <2>2, <2>4, <2>5, <2>7 DEF WayFull
    <3>2. Len(ch.avail[w]) \in Nat
      BY DEF Caches
    <3> QED
      BY <2>9, <3>1, <3>2, PolicyAssumption DEF Exact
  <2>11. Exact(Push(ch, w, e)) /\ Push(ch, w, e) \in Caches
    BY <2>9, <2>10, PushExact, PushType
  <2> QED
    BY <2>1, <2>2, <2>8, <2>11, WaysSet DEF Flow, FillSteps
<1> QED
  BY <1>1, <1>2

LEMMA FillLockWays ==
  ASSUME TypeOK, Ways, Room, NEW t \in Home, FillLock(t)
  PROVE  Ways' /\ Room'
<1>1. /\ t \in Threads /\ Alone(t) /\ Where(t) = "malloc" /\ loc'[t].c = loc[t].c
  BY FillLockFlow DEF Flow, SameClass
<1>2. UNCHANGED cache /\ cache[t][loc[t].c].bm = {}
  BY DEF FillLock
<1>3. PICK c \in Classes : c = loc[t].c
  BY <1>1, WherePlaced DEF FillSteps
<1>4. HasRoom(cache[t][c])
  <2>1. \A w \in Way : cache[t][c].avail[w] = <<>>
    BY <1>2, <1>3 DEF Ways, Exact
  <2>2. Len(<<>>) = 0 /\ 0 < NUM_MAX_CACHE
    BY PolicyAssumption, EmptySeq
  <2> QED
    BY <2>1, <2>2 DEF HasRoom
<1>5. PICK ch \in Caches : ch = cache[t][c]
  BY DEF TypeOK
<1>6. cache' = [cache EXCEPT ![t][c] = ch]
  BY <1>2, <1>5 DEF TypeOK
<1> QED
  BY <1>1, <1>3, <1>4, <1>5, <1>6, WaysSet DEF Ways

LEMMA FillWays ==
  ASSUME TypeOK, Ways, Room, Running', NEW t \in Home, Fill(t)
  PROVE  Ways' /\ Room'
<1> USE DEF Flow, Same, SameClass, FillSteps
<1>1. CASE FillLock(t)
  BY <1>1, FillLockWays
<1>2. CASE FillVisit(t)
  BY Zenon, <1>2, FillVisitFlow, WaysKept DEF FillVisit
<1>3. CASE FillStops(t)
  BY <1>3 DEF FillStops, Stop, Running
<1>4. CASE FillNext(t)
  BY <1>4, FillNextFlow, WaysKept DEF FillNext
<1>5. CASE FillPop(t)
  BY <1>5, FillPopWays
<1>6. CASE Filled(t)
  BY <1>6, FilledFlow, WaysKept DEF Filled
<1>7. CASE Touch(t)
  BY <1>7, TouchFlow, WaysKept DEF Touch
<1>8. CASE Stamp(t)
  BY <1>8, StampFlow, WaysKept DEF Stamp
<1> QED
  BY <1>1, <1>2, <1>3, <1>4, <1>5, <1>6, <1>7, <1>8 DEF Fill

LEMMA GetWays ==
  ASSUME TypeOK, Ways, Room, NEW t \in Home, slab_get_one(t)
  PROVE  Ways' /\ Room'
<1> USE DEF Flow, Same, SameClass, FillSteps
<1>1. CASE GetOne(t)
  BY <1>1, GetOneFlow, WaysKept DEF GetOne
<1>2. CASE Search(t)
  BY <1>2, SearchFlow, WaysKept DEF Search
<1>3. CASE SearchSkip(t)
  BY <1>3, SearchSkipFlow, WaysKept DEF SearchSkip
<1>4. CASE SearchFound(t)
  BY <1>4, SearchFoundFlow, WaysKept DEF SearchFound
<1>5. CASE SearchFails(t)
  BY <1>5, SearchFailsFlow, WaysKept DEF SearchFails
<1>6. CASE Create(t)
  BY Zenon, <1>6, CreateFlow, WaysKept DEF Create
<1>7. CASE Insert(t)
  BY <1>7, InsertFlow, WaysKept DEF Insert
<1> QED
  BY <1>1, <1>2, <1>3, <1>4, <1>5, <1>6, <1>7 DEF slab_get_one

LEMMA MorphWays ==
  ASSUME TypeOK, Ways, Room, NEW t \in Home, slab_morphing(t)
  PROVE  Ways' /\ Room'
<1> USE DEF Flow, Same, SameClass, FillSteps
<1>1. CASE MorphLock(t)
  BY <1>1, MorphLockFlow, WaysKept DEF MorphLock
<1>2. ASSUME cache' = CacheLeft(t), pc[t] = "morph"
      PROVE  \A h \in Home, c \in Classes : /\ cache'[h][c].avail = cache[h][c].avail
                                            /\ cache'[h][c].bm = cache[h][c].bm
  <2>1. t \in Threads
    BY DEF Threads
  <2>2. loc[t].c \in Classes /\ loc[t].v \in SlabId
    BY <1>2, <2>1, Placed
  <2> QED
    BY <1>2, <2>2, LeftType
<1>3. CASE MorphRefused(t)
  <2>1. cache' = CacheLeft(t) /\ pc[t] = "morph"
    BY <1>3 DEF MorphRefused, At
  <2> QED
    BY <1>2, <1>3, <2>1, MorphRefusedFlow, WaysKept
<1>4. CASE MorphIsEmpty(t)
  <2>1. cache' = CacheLeft(t) /\ pc[t] = "morph"
    BY <1>4 DEF MorphIsEmpty, At
  <2> QED
    BY <1>2, <1>4, <2>1, MorphIsEmptyFlow, WaysKept
<1>5. CASE MorphBegin(t)
  <2>1. cache' = CacheLeft(t) /\ pc[t] = "morph"
    BY <1>5 DEF MorphBegin, At
  <2> QED
    BY <1>2, <1>5, <2>1, MorphBeginFlow, WaysKept
<1>6. CASE MorphEmpty(t)
  BY Zenon, <1>6, MorphEmptyFlow, WaysKept DEF MorphEmpty
<1>7. CASE MorphMove(t)
  BY <1>7, MorphMoveFlow, WaysKept DEF MorphMove
<1>8. CASE MorphEnd(t)
  BY Zenon, <1>8, MorphEndFlow, WaysKept DEF MorphEnd
<1>9. CASE MorphReinit(t)
  BY Zenon, <1>9, MorphReinitFlow, WaysKept DEF MorphReinit
<1>10. CASE MorphUnlock(t)
  BY Zenon, <1>10, MorphUnlockFlow, WaysKept DEF MorphUnlock
<1> QED
  BY <1>1, <1>3, <1>4, <1>5, <1>6, <1>7, <1>8, <1>9, <1>10 DEF slab_morphing

LEMMA FreeWays ==
  ASSUME TypeOK, Ways, Room, Running', NEW t \in Threads, slab_free_small(t)
  PROVE  Ways' /\ Room'
<1> USE DEF Flow, Same, SameClass, FillSteps
<1>1. ASSUME NEW b \in held, FreeCall(t, b) PROVE Ways' /\ Room'
  BY Zenon, <1>1, FreeCallFlow, WaysKept DEF FreeCall
<1>2. CASE FreeIsOld(t)
  BY <1>2, FreeIsOldFlow, WaysKept DEF FreeIsOld
<1>3. CASE FreeNew(t)
  BY <1>3, FreeNewWays
<1>4. CASE FreeOld(t)
  BY Zenon, <1>4, FreeOldFlow, WaysKept DEF FreeOld
<1>5. CASE FreeOldStops(t)
  BY Zenon, <1>5 DEF FreeOldStops, Stop, Running
<1>6. CASE OldLRU(t)
  BY Zenon, <1>6, OldLRUFlow, WaysKept DEF OldLRU
<1>7. CASE LeaveBin(t)
  BY <1>7, LeaveBinFlow, WaysKept DEF LeaveBin
<1>8. CASE Release(t)
  BY <1>8, ReleaseFlow, WaysKept DEF Release
<1>9. CASE FreeBack(t)
  BY Zenon, <1>9, FreeBackFlow, WaysKept DEF FreeBack
<1>10. CASE BackCheck(t)
  BY <1>10, BackCheckFlow, WaysKept DEF BackCheck
<1>11. CASE BackLRU(t)
  BY Zenon, <1>11, BackLRUFlow, WaysKept DEF BackLRU
<1>12. CASE Dalloc(t)
  BY <1>12, DallocFlow, WaysKept DEF Dalloc
<1> QED
  BY <1>1, <1>2, <1>3, <1>4, <1>5, <1>6, <1>7, <1>8, <1>9, <1>10, <1>11, <1>12
     DEF slab_free_small

LEMMA OtherWays ==
  ASSUME TypeOK, Ways, Room, Running', NEW t \in Threads,
         \/ t \in Home /\ \E c \in Classes : MallocCall(t, c)
         \/ t \in Home /\ MallocTake(t)
         \/ t \in Home /\ MallocStops(t)
         \/ Recount(t)
  PROVE  Ways' /\ Room'
<1> USE DEF Flow, Same, SameClass, FillSteps
<1>1. ASSUME t \in Home, NEW c \in Classes, MallocCall(t, c) PROVE Ways' /\ Room'
  BY <1>1, MallocCallFlow, WaysKept DEF MallocCall
<1>2. CASE t \in Home /\ MallocTake(t)
  BY <1>2, MallocTakeWays
<1>3. CASE t \in Home /\ MallocStops(t)
  BY Zenon, <1>3 DEF MallocStops, Stop, Running
<1>4. CASE Recount(t)
  BY Zenon, <1>4, RecountFlow, WaysKept DEF Recount
<1> QED
  BY <1>1, <1>2, <1>3, <1>4

----------------------------------------------------------------------------
(* The invariant. *)

LEMMA NextType ==
  ASSUME TypeOK, Running', Next
  PROVE  TypeOK'
<1>1. ASSUME NEW t \in Home, Fill(t) PROVE TypeOK'
  <2>1. CASE FillStops(t)
    BY Zenon, <2>1 DEF FillStops, Stop, Running
  <2> QED
    BY <1>1, <2>1, FillLockType, FillVisitType, FillNextType, FillPopType, FilledType,
       TouchType, StampType DEF Fill
<1>2. ASSUME NEW t \in Home, slab_get_one(t) PROVE TypeOK'
  BY <1>2, GetOneType, SearchType, SearchSkipType, SearchFoundType, SearchFailsType,
     CreateType, InsertType DEF slab_get_one
<1>3. ASSUME NEW t \in Home, slab_morphing(t) PROVE TypeOK'
  BY <1>3, MorphLockType, MorphRefusedType, MorphIsEmptyType, MorphBeginType,
     MorphEmptyType, MorphReinitType, MorphUnlockType, MorphMoveType, MorphEndType
     DEF slab_morphing
<1>4. ASSUME NEW t \in Threads, slab_free_small(t) PROVE TypeOK'
  <2>1. CASE FreeOldStops(t)
    BY Zenon, <2>1 DEF FreeOldStops, Stop, Running
  <2> QED
    BY <1>4, <2>1, FreeCallType, FreeIsOldType, FreeNewType, FreeOldType, OldLRUType,
       LeaveBinType, ReleaseType, FreeBackType, BackCheckType, BackLRUType, DallocType
       DEF slab_free_small
<1>5. ASSUME NEW t \in Home, MallocStops(t) PROVE TypeOK'
  BY Zenon, <1>5 DEF MallocStops, Stop, Running
<1> QED
  BY <1>1, <1>2, <1>3, <1>4, <1>5, MallocCallType, MallocTakeType, RecountType
     DEF Next, nvalloc_malloc_to

LEMMA NextWays ==
  ASSUME TypeOK, Ways, Room, Running', Next
  PROVE  Ways' /\ Room'
<1>1. ASSUME NEW t \in Home, nvalloc_malloc_to(t) PROVE Ways' /\ Room'
  <2>1. t \in Threads
    BY DEF Threads
  <2> QED
    BY <1>1, <2>1, FillWays, GetWays, MorphWays, OtherWays DEF nvalloc_malloc_to
<1> QED
  BY <1>1, FreeWays, OtherWays DEF Next

\* A step is taken by a process that runs.
LEMMA NextRuns == Next => Running
<1> USE DEF At, Running
<1>1. ASSUME NEW t, Fill(t) PROVE Running
  BY Zenon, <1>1 DEF Fill, FillLock, FillVisit, FillStops, FillNext, FillPop, Filled, Touch, Stamp
<1>2. ASSUME NEW t, slab_get_one(t) PROVE Running
  BY SMTT(30), <1>2 DEF slab_get_one, GetOne, Search, SearchSkip, SearchFound, SearchFails, Create, Insert
<1>3. ASSUME NEW t, slab_morphing(t) PROVE Running
  BY ZenonT(60), <1>3 DEF slab_morphing, MorphLock, MorphRefused, MorphIsEmpty, MorphBegin, MorphEmpty,
     MorphReinit, MorphUnlock, MorphMove, MorphEnd
<1>4. ASSUME NEW t, slab_free_small(t) PROVE Running
  BY <1>4 DEF slab_free_small, FreeCall, FreeIsOld, FreeNew, FreeOld, FreeOldStops, OldLRU,
     LeaveBin, Release, FreeBack, BackCheck, BackLRU, Dalloc
<1>5. ASSUME NEW t, nvalloc_malloc_to(t) PROVE Running
  BY Zenon, <1>1, <1>2, <1>3, <1>5 DEF nvalloc_malloc_to, MallocCall, MallocTake, MallocStops
<1>6. ASSUME NEW t, Recount(t) PROVE Running
  BY <1>6 DEF Recount
<1> QED
  BY <1>4, <1>5, <1>6 DEF Next

LEMMA InitType == Init => TypeOK /\ Ways /\ Room
<1> SUFFICES ASSUME Init PROVE TypeOK /\ Ways /\ Room
  OBVIOUS
<1>1. vslab \in [SlabId -> Slabs]
  <2>1. PICK c \in Classes : c = CHOOSE d \in Classes : TRUE
    BY GeometryAssumption
  <2>2. PICK s \in Slabs : s = Fresh(c)
    BY FreshType
  <2>3. [s EXCEPT !.state = "none"] \in Slabs
    BY DEF Slabs
  <2>4. vslab = [v \in SlabId |-> [s EXCEPT !.state = "none"]]
    BY <2>1, <2>2 DEF Init, Unmade
  <2> QED
    BY <2>3, <2>4
<1>2. made \in 0 .. MaxSlabs /\ timestamp \in Nat /\ held \in SUBSET Blocks
  BY PolicyAssumption DEF Init
<1>3. <<>> \in Seq(SlabId) /\ <<>> \in Seq(Entries) /\ Len(<<>>) = 0
  BY EmptySeq
<1>4. bin \in [Classes -> Bins] /\ lru \in Lists
  BY <1>3 DEF Init, Bins, Lists
<1>5. lock \in Locks
  BY DEF Init, Locks
<1>6. ASSUME NEW t \in Home, NEW c \in Classes
      PROVE  cache[t][c] \in Caches /\ Exact(cache[t][c])
  <2>1. PICK f \in Garbage : cache[t][c] = EmptyCache(f)
    BY DEF Init
  <2>2. f \in [Way -> [Position -> BOOLEAN]]
    BY GarbageAssumption
  <2>3. NBANKS - 1 \in Way /\ 0 <= NUM_MAX_CACHE
    BY PolicyAssumption DEF Way
  <2>4. PICK a \in [Way -> Seq(Entries)] : a = [w \in Way |-> <<>>]
    BY <1>3
  <2>5. PICK k : k = [avail |-> a, is_sb |-> f, bm |-> {}, now |-> NBANKS - 1]
    OBVIOUS
  <2>6. k \in Caches
    BY <2>2, <2>3, <2>5 DEF Caches
  <2>7. k.bm = {} /\ \A w \in Way : k.avail[w] = <<>>
    BY <2>4, <2>5
  <2>8. Exact(k)
    BY <1>3, <2>3, <2>7 DEF Exact
  <2> QED
    BY <2>1, <2>4, <2>5, <2>6, <2>8 DEF EmptyCache
<1>7. cache \in [Home -> [Classes -> Caches]]
  <2>1. cache \in [Home -> [Classes -> {EmptyCache(f) : f \in Garbage}]]
    BY DEF Init
  <2> QED
    BY <1>6, <2>1
<1>8. pc \in [Threads -> PCs] /\ loc \in [Threads -> Locals]
  BY NoLocalsType DEF Init, PCs
<1>9. \A t \in Threads : Control(t, pc[t], loc[t]) /\ Where(t) = "idle"
  BY DEF Init, Control, Where, Going, FillSteps, FreeSteps
<1>10. TypeOK
  BY <1>1, <1>2, <1>4, <1>5, <1>7, <1>8, <1>9 DEF TypeOK
<1>11. Ways /\ Room
  BY <1>6, <1>9 DEF Ways, Room, FillSteps, Threads
<1> QED
  BY <1>10, <1>11

\* The types, and what is said of the ways, stay true until the process stops.
THEOREM TypeAndWays == Spec => []WaysInv
<1>1. Init => WaysInv
  BY InitType DEF WaysInv
<1>2. WaysInv /\ [Next]_vars => WaysInv'
  <2> SUFFICES ASSUME WaysInv, [Next]_vars, Running' PROVE (TypeOK /\ Ways /\ Room)'
    BY DEF WaysInv
  <2>1. CASE Next
    BY <2>1, NextRuns, NextType, NextWays DEF WaysInv
  <2>2. CASE UNCHANGED vars
    <3>1. Running /\ TypeOK /\ Ways /\ Room
      BY <2>2 DEF vars, Running, WaysInv
    <3> QED
      BY <2>2, <3>1 DEF vars, TypeOK, Ways, Room, Where, Exact, HasRoom
  <2> QED
    BY <2>1, <2>2
<1> QED
  BY <1>1, <1>2, PTL DEF Spec

\* A way is in the bitmap of its cache when it has blocks, and never has more
\* than there is room for, whatever is allocated, freed and morphed
\* (slab.c:384-400, nvalloc.c:132).
THEOREM WaysStayExact == Spec => []WaysExact
<1>1. WaysInv => WaysExact
  BY DEF WaysInv, Ways, Exact, WaysExact
<1> QED
  BY <1>1, TypeAndWays, PTL

----------------------------------------------------------------------------
(* What a step leaves of the slabs. *)

SameLayouts(v) == vslab'[v].sc = vslab[v].sc /\ vslab'[v].sc_b = vslab[v].sc_b
SameShape(v) == SameLayouts(v) /\ vslab'[v].num_b = vslab[v].num_b
SameBits(v) == vslab'[v].bits = vslab[v].bits /\ vslab'[v].nbits = vslab[v].nbits
SameState(v) == vslab'[v].state = vslab[v].state
SameMeta(v) == vslab'[v].meta = vslab[v].meta

\* The step changes the slab v alone, and nothing else of it.
BitsTo(v, b, n) == vslab' = [vslab EXCEPT ![v] = [vslab[v] EXCEPT !.bits = b, !.nbits = n]]
StateTo(v, z, F) == vslab' = [vslab EXCEPT ![v] = [vslab[v] EXCEPT !.state = z, !.dfreed = F]]
StampTo(v, z) == vslab' = [vslab EXCEPT ![v].timestamp = z]

LEMMA MetaSet ==
  ASSUME TypeOK, NEW v \in SlabId, NEW m, NEW a, MetaTo(v, m, a)
  PROVE  /\ \A w \in SlabId : SameShape(w) /\ SameBits(w) /\ SameState(w)
         /\ \A w \in SlabId : vslab'[w].meta = IF w = v THEN m ELSE vslab[w].meta
<1>1. PICK s \in Slabs : s = vslab[v]
  BY DEF TypeOK
<1>2. PICK r : r = [s EXCEPT !.meta = m, !.alloced = a]
  OBVIOUS
<1>3. /\ r.sc = s.sc /\ r.sc_b = s.sc_b /\ r.num_b = s.num_b /\ r.bits = s.bits
      /\ r.nbits = s.nbits /\ r.state = s.state /\ r.meta = m
  BY <1>2 DEF Slabs
<1>4. \A w \in SlabId : vslab'[w] = IF w = v THEN r ELSE vslab[w]
  BY <1>1, <1>2 DEF TypeOK, MetaTo
<1> QED
  BY <1>1, <1>3, <1>4 DEF SameShape, SameLayouts, SameBits, SameState

LEMMA BitsSet ==
  ASSUME TypeOK, NEW v \in SlabId, NEW b, NEW n, BitsTo(v, b, n)
  PROVE  /\ \A w \in SlabId : SameShape(w) /\ SameState(w) /\ SameMeta(w)
         /\ \A w \in SlabId : /\ vslab'[w].bits = IF w = v THEN b ELSE vslab[w].bits
                              /\ vslab'[w].nbits = IF w = v THEN n ELSE vslab[w].nbits
<1>1. PICK s \in Slabs : s = vslab[v]
  BY DEF TypeOK
<1>2. PICK r : r = [s EXCEPT !.bits = b, !.nbits = n]
  OBVIOUS
<1>3. /\ r.sc = s.sc /\ r.sc_b = s.sc_b /\ r.num_b = s.num_b /\ r.bits = b
      /\ r.nbits = n /\ r.state = s.state /\ r.meta = s.meta
  BY <1>2 DEF Slabs
<1>4. \A w \in SlabId : vslab'[w] = IF w = v THEN r ELSE vslab[w]
  BY <1>1, <1>2 DEF TypeOK, BitsTo
<1> QED
  BY <1>1, <1>3, <1>4 DEF SameShape, SameLayouts, SameMeta, SameState

\* A step that sets the state of the slab v alone, and of its array.
LEMMA StateSet ==
  ASSUME TypeOK, NEW v \in SlabId, NEW z, NEW F, StateTo(v, z, F)
  PROVE  /\ \A w \in SlabId : SameShape(w) /\ SameBits(w) /\ SameMeta(w)
         /\ \A w \in SlabId : vslab'[w].state = IF w = v THEN z ELSE vslab[w].state
<1>1. PICK s \in Slabs : s = vslab[v]
  BY DEF TypeOK
<1>2. PICK r : r = [s EXCEPT !.state = z, !.dfreed = F]
  OBVIOUS
<1>3. /\ r.sc = s.sc /\ r.sc_b = s.sc_b /\ r.num_b = s.num_b /\ r.bits = s.bits
      /\ r.nbits = s.nbits /\ r.state = z /\ r.meta = s.meta
  BY <1>2 DEF Slabs
<1>4. \A w \in SlabId : vslab'[w] = IF w = v THEN r ELSE vslab[w]
  BY <1>1, <1>2 DEF TypeOK, StateTo
<1> QED
  BY <1>1, <1>3, <1>4 DEF SameShape, SameLayouts, SameBits, SameMeta

LEMMA ReleaseSets ==
  ASSUME TypeOK, NEW t \in Threads, Release(t) \/ Dalloc(t), NEW v \in SlabId, v = loc[t].v
  PROVE  \/ Release(t) /\ UNCHANGED vslab
         \/ \E F : StateTo(v, "gone", F)
<1>1. PICK s \in Slabs : s = vslab[v]
  BY DEF TypeOK
<1>2. PICK D, F : D = s.dfreed /\ F = s.dfreed \cup {s.dmeta}
  OBVIOUS
<1>3. \/ Release(t) /\ UNCHANGED vslab
      \/ vslab' = [vslab EXCEPT ![v].state = "gone", ![v].dfreed = F]
      \/ vslab' = [vslab EXCEPT ![v].state = "gone"]
  BY <1>1, <1>2 DEF Release, Dalloc, TypeOK, Slabs
<1>4. CASE vslab' = [vslab EXCEPT ![v].state = "gone", ![v].dfreed = F]
  <2>1. vslab' = [vslab EXCEPT ![v] = [s EXCEPT !.state = "gone", !.dfreed = F]]
    BY <1>1, <1>4 DEF TypeOK, Slabs
  <2> QED
    BY <1>1, <2>1 DEF StateTo
<1>5. CASE vslab' = [vslab EXCEPT ![v].state = "gone"]
  <2>1. [s EXCEPT !.state = "gone"] = [s EXCEPT !.state = "gone", !.dfreed = D]
    BY <1>2 DEF Slabs
  <2>2. vslab' = [vslab EXCEPT ![v] = [s EXCEPT !.state = "gone", !.dfreed = D]]
    BY <1>1, <1>5, <2>1 DEF TypeOK
  <2> QED
    BY <1>1, <2>2 DEF StateTo
<1> QED
  BY <1>3, <1>4, <1>5

LEMMA StampSet ==
  ASSUME TypeOK, NEW v \in SlabId, NEW z, StampTo(v, z)
  PROVE  \A w \in SlabId : SameShape(w) /\ SameBits(w) /\ SameState(w) /\ SameMeta(w)
<1>1. PICK s \in Slabs : s = vslab[v]
  BY DEF TypeOK
<1>2. PICK r : r = [s EXCEPT !.timestamp = z]
  OBVIOUS
<1>3. /\ r.sc = s.sc /\ r.sc_b = s.sc_b /\ r.num_b = s.num_b /\ r.bits = s.bits
      /\ r.nbits = s.nbits /\ r.state = s.state /\ r.meta = s.meta
  BY <1>2 DEF Slabs
<1>4. vslab' = [vslab EXCEPT ![v] = r]
  BY <1>1, <1>2 DEF TypeOK, StampTo
<1>5. \A w \in SlabId : vslab'[w] = IF w = v THEN r ELSE vslab[w]
  BY <1>4 DEF TypeOK
<1> QED
  BY <1>1, <1>3, <1>5 DEF SameShape, SameLayouts, SameBits, SameState, SameMeta

LEMMA FillPopSets ==
  ASSUME TypeOK, NEW t \in Home, FillPop(t), NEW v \in SlabId, v = loc[t].v
  PROVE  BitsTo(v, vslab[v].bits \cup {FirstFree(vslab[v])}, vslab[v].nbits + 1)
<1>1. PICK s \in Slabs : s = vslab[v]
  BY DEF TypeOK
<1>2. PICK i, b, n : i = FirstFree(s) /\ b = s.bits \cup {i} /\ n = s.nbits + 1
  OBVIOUS
<1>3. vslab' = [vslab EXCEPT ![v].bits = @ \cup {i}, ![v].nbits = @ + 1]
  BY Zenon, <1>1, <1>2 DEF FillPop
<1>4. vslab' = [vslab EXCEPT ![v] = [s EXCEPT !.bits = b, !.nbits = n]]
  BY <1>1, <1>2, <1>3 DEF TypeOK, Slabs
<1> QED
  BY <1>1, <1>2, <1>4 DEF BitsTo

LEMMA FreeOldLayouts ==
  ASSUME TypeOK, NEW t \in Threads, FreeOld(t)
  PROVE  \A w \in SlabId : SameLayouts(w)
<1>1. PICK v \in SlabId, r \in Slabs :
        /\ vslab' = [vslab EXCEPT ![v] = r]
        /\ r.sc = vslab[v].sc /\ r.sc_b = vslab[v].sc_b
  BY Zenon, FreeOldSets
<1>2. \A w \in SlabId : vslab'[w] = IF w = v THEN r ELSE vslab[w]
  BY <1>1 DEF TypeOK
<1> QED
  BY <1>1, <1>2 DEF SameLayouts

----------------------------------------------------------------------------
(* The locks. *)

Filling(t) == Where(t) \in FillSteps \ {"malloc"}
HasSlab(t) == \/ Where(t) \in {"pop", "touch", "stamp", "filled", "morph", "reclass",
                               "reinit", "move", "rebuild"}
              \/ pc[t] = "recount" /\ loc[t].next \in {"idle", "backbin"}
HasLRU(t) == \/ Where(t) \in Searching
             \/ pc[t] = "recount" /\ loc[t].next \in {"insert", "idle", "dalloc"}

\* The locks of the bins do not change, and the thread t stays in or out of a fill.
LEMMA BinsHeld ==
  ASSUME TypeOK, Holders, NEW t \in Threads, Alone(t), lock'.bin = lock.bin,
         Filling(t)' <=> Filling(t), Filling(t) => loc'[t].c = loc[t].c
  PROVE  \A c \in Classes, u \in Threads :
           lock'.bin[c] = u <=> Where(u)' \in FillSteps \ {"malloc"} /\ loc'[u].c = c
BY DEF Holders, Alone, Filling

\* The thread t takes no lock of a slab, and keeps only the one of its slab.
LEMMA SlabsHeld ==
  ASSUME TypeOK, Holders, NEW t \in Threads, Alone(t),
         \A v \in SlabId, u \in Threads \ {t} : lock'.slab[v] = u => lock.slab[v] = u,
         \A v \in SlabId : lock'.slab[v] = t => loc'[t].v = v /\ HasSlab(t)'
  PROVE  \A v \in SlabId, u \in Threads : lock'.slab[v] = u => loc'[u].v = v /\ HasSlab(u)'
BY DEF Holders, Alone, HasSlab

\* Nobody else takes LRU_lock, or loses it.
LEMMA LRUHeld ==
  ASSUME TypeOK, Holders, NEW t \in Threads, Alone(t),
         \A u \in Threads \ {t} : lock'.lru = u <=> lock.lru = u,
         lock'.lru = t => HasLRU(t)',
         Where(t)' \in Searching => lock'.lru = t
  PROVE  \A u \in Threads : /\ Where(u)' \in Searching => lock'.lru = u
                            /\ lock'.lru = u => HasLRU(u)'
BY DEF Holders, Alone, HasLRU

\* A step that leaves the locks alone, of a thread that goes from a step to
\* another with the same locks.
LEMMA HoldersKept ==
  ASSUME TypeOK, Holders, NEW t \in Threads, Alone(t), UNCHANGED lock,
         Filling(t)' <=> Filling(t), Filling(t) => loc'[t].c = loc[t].c,
         HasSlab(t) => HasSlab(t)' /\ loc'[t].v = loc[t].v,
         HasLRU(t) => HasLRU(t)',
         Where(t)' \in Searching => Where(t) \in Searching
  PROVE  Holders'
<1>1. \A v \in SlabId : lock'.slab[v] = t => loc'[t].v = v /\ HasSlab(t)'
  BY DEF Holders, HasSlab
<1>2. lock'.lru = t => HasLRU(t)'
  BY DEF Holders, HasLRU
<1>3. \A v \in SlabId, u \in Threads : lock'.slab[v] = u => loc'[u].v = v /\ HasSlab(u)'
  BY <1>1, SlabsHeld
<1>4. Where(t)' \in Searching => lock'.lru = t
  BY DEF Holders
<1>5. \A u \in Threads : /\ Where(u)' \in Searching => lock'.lru = u
                         /\ lock'.lru = u => HasLRU(u)'
  BY <1>2, <1>4, LRUHeld
<1> QED
  BY <1>3, <1>5, BinsHeld DEF Holders, HasSlab, HasLRU

\* What a change of a lock leaves.
LEMMA LockChanges ==
  ASSUME TypeOK, NEW t \in Threads \cup {NoThread}
  PROVE  /\ \A c \in Classes : BinLock(c, t) =>
              /\ lock'.bin = [lock.bin EXCEPT ![c] = t]
              /\ lock'.slab = lock.slab /\ lock'.lru = lock.lru
         /\ \A v \in SlabId : SlabLock(v, t) =>
              /\ lock'.slab = [lock.slab EXCEPT ![v] = t]
              /\ lock'.bin = lock.bin /\ lock'.lru = lock.lru
         /\ LRULock(t) => lock'.lru = t /\ lock'.bin = lock.bin /\ lock'.slab = lock.slab
         /\ lock.bin \in [Classes -> Threads \cup {NoThread}]
         /\ lock.slab \in [SlabId -> Threads \cup {NoThread}]
<1>1. PICK k \in Locks : k = lock
  BY DEF TypeOK
<1> QED
  BY <1>1 DEF Locks, BinLock, SlabLock, LRULock

\* The thread t takes or leaves the lock of a bin, and with it enters or ends a fill.
LEMMA BinTaken ==
  ASSUME TypeOK, Holders, NEW t \in Threads, NEW c \in Classes, Alone(t),
         lock.bin[c] = NoThread, lock'.bin = [lock.bin EXCEPT ![c] = t],
         ~Filling(t), Filling(t)', loc'[t].c = c
  PROVE  \A d \in Classes, u \in Threads :
           lock'.bin[d] = u <=> Where(u)' \in FillSteps \ {"malloc"} /\ loc'[u].c = d
BY ThreadsAssumption DEF Holders, Alone, Filling, TypeOK, Locks

LEMMA BinLeft ==
  ASSUME TypeOK, Holders, NEW t \in Threads, NEW c \in Classes, Alone(t),
         lock'.bin = [lock.bin EXCEPT ![c] = NoThread],
         Filling(t), loc[t].c = c, ~Filling(t)'
  PROVE  \A d \in Classes, u \in Threads :
           lock'.bin[d] = u <=> Where(u)' \in FillSteps \ {"malloc"} /\ loc'[u].c = d
BY ThreadsAssumption DEF Holders, Alone, Filling, TypeOK, Locks

\* The thread t takes or leaves the lock of the slab v.
LEMMA SlabTaken ==
  ASSUME TypeOK, Holders, NEW t \in Threads, NEW v \in SlabId, Alone(t),
         SlabLock(v, t), ~HasSlab(t), loc'[t].v = v, HasSlab(t)',
         Filling(t)' <=> Filling(t), Filling(t) => loc'[t].c = loc[t].c,
         HasLRU(t) => HasLRU(t)',
         Where(t)' \in Searching => Where(t) \in Searching
  PROVE  Holders'
<1>1. /\ lock'.slab = [lock.slab EXCEPT ![v] = t] /\ lock'.bin = lock.bin /\ lock'.lru = lock.lru
      /\ lock.slab \in [SlabId -> Threads \cup {NoThread}]
  BY LockChanges
<1>2. \A w \in SlabId : lock'.slab[w] = t => loc'[t].v = w /\ HasSlab(t)'
  BY <1>1 DEF Holders, HasSlab
<1>3. \A w \in SlabId, u \in Threads \ {t} : lock'.slab[w] = u => lock.slab[w] = u
  BY <1>1
<1>4. \A w \in SlabId, u \in Threads : lock'.slab[w] = u => loc'[u].v = w /\ HasSlab(u)'
  BY <1>2, <1>3, SlabsHeld
<1>5. (lock'.lru = t => HasLRU(t)') /\ (Where(t)' \in Searching => lock'.lru = t)
  BY <1>1 DEF Holders, HasLRU
<1>6. \A u \in Threads : /\ Where(u)' \in Searching => lock'.lru = u
                         /\ lock'.lru = u => HasLRU(u)'
  BY <1>1, <1>5, LRUHeld
<1> QED
  BY <1>1, <1>4, <1>6, BinsHeld DEF Holders, HasSlab, HasLRU

LEMMA SlabGiven ==
  ASSUME TypeOK, Holders, NEW t \in Threads, NEW v \in SlabId, Alone(t),
         lock'.slab = [lock.slab EXCEPT ![v] = NoThread], loc[t].v = v
  PROVE  \A w \in SlabId, u \in Threads : lock'.slab[w] = u => loc'[u].v = w /\ HasSlab(u)'
<1>1. lock.slab \in [SlabId -> Threads \cup {NoThread}] /\ NoThread \notin Threads
  BY LockChanges, ThreadsAssumption
<1>2. \A w \in SlabId : lock'.slab[w] # t
  BY <1>1 DEF Holders
<1>3. \A w \in SlabId, u \in Threads \ {t} : lock'.slab[w] = u => lock.slab[w] = u
  BY <1>1
<1> QED
  BY <1>2, <1>3, SlabsHeld

\* The thread t takes the lock of the LRU list, which is free.
LEMMA LRUTaken ==
  ASSUME TypeOK, Holders, NEW t \in Threads, Alone(t), lock.lru = NoThread, LRULock(t), HasLRU(t)',
         Filling(t)' <=> Filling(t), Filling(t) => loc'[t].c = loc[t].c,
         ~HasSlab(t)
  PROVE  Holders'
<1>1. lock'.lru = t /\ lock'.bin = lock.bin /\ lock'.slab = lock.slab
  BY LockChanges
<1>2. \A w \in SlabId : lock'.slab[w] # t
  BY <1>1 DEF Holders, HasSlab
<1>3. \A w \in SlabId, u \in Threads : lock'.slab[w] = u => loc'[u].v = w /\ HasSlab(u)'
  BY <1>1, <1>2, SlabsHeld
<1>4. \A u \in Threads \ {t} : lock'.lru = u <=> lock.lru = u
  BY <1>1, ThreadsAssumption
<1>5. \A u \in Threads : /\ Where(u)' \in Searching => lock'.lru = u
                         /\ lock'.lru = u => HasLRU(u)'
  BY <1>1, <1>4, LRUHeld
<1> QED
  BY <1>1, <1>3, <1>5, BinsHeld DEF Holders, HasSlab, HasLRU

\* The thread t, which has the lock of the LRU list, gives it back.
LEMMA LRUGiven ==
  ASSUME TypeOK, Holders, NEW t \in Threads, Alone(t), lock'.lru = NoThread,
         Where(t) \in Searching, Where(t)' \notin Searching
  PROVE  \A u \in Threads : /\ Where(u)' \in Searching => lock'.lru = u
                            /\ lock'.lru = u => HasLRU(u)'
<1>1. lock.lru = t
  BY DEF Holders
<1>2. \A u \in Threads \ {t} : lock'.lru = u <=> lock.lru = u
  BY <1>1, ThreadsAssumption
<1>3. lock'.lru # t
  BY ThreadsAssumption
<1> QED
  BY <1>2, <1>3, LRUHeld

LEMMA FillHolders ==
  ASSUME TypeOK, Holders, Running', NEW t \in Home, Fill(t)
  PROVE  Holders'
<1> USE DEF Flow, Same, SameClass, FillSteps, Filling, HasSlab, HasLRU, Searching
<1>0. t \in Threads /\ NoThread \in Threads \cup {NoThread}
  BY DEF Threads
<1>1. CASE FillLock(t)
  <2>1. /\ Alone(t) /\ pc[t] = "malloc" /\ Where(t) = "malloc" /\ loc'[t].c = loc[t].c
        /\ pc'[t] = Where(t)' /\ Where(t)' \in {"getone", "visit"}
    BY <1>1, FillLockFlow
  <2>2. PICK c \in Classes : c = loc[t].c
    BY <1>0, <2>1, Placed
  <2>3. BinLock(c, t) /\ lock.bin[c] = NoThread
    BY <1>1, <2>2 DEF FillLock
  <2>4. lock'.bin = [lock.bin EXCEPT ![c] = t] /\ lock'.slab = lock.slab /\ lock'.lru = lock.lru
    BY <1>0, <2>3, LockChanges
  <2>5. \A d \in Classes, u \in Threads :
          lock'.bin[d] = u <=> Where(u)' \in FillSteps \ {"malloc"} /\ loc'[u].c = d
    BY <1>0, <2>1, <2>2, <2>3, <2>4, BinTaken
  <2>6. lock.lru # t /\ \A v \in SlabId : lock.slab[v] # t
    BY <1>0, <2>1 DEF Holders
  <2>7. \A v \in SlabId, u \in Threads : lock'.slab[v] = u => loc'[u].v = v /\ HasSlab(u)'
    BY <1>0, <2>1, <2>4, <2>6, SlabsHeld
  <2>8. \A u \in Threads : /\ Where(u)' \in Searching => lock'.lru = u
                           /\ lock'.lru = u => HasLRU(u)'
    BY <1>0, <2>1, <2>4, <2>6, LRUHeld
  <2> QED
    BY <2>5, <2>7, <2>8 DEF Holders
<1>2. CASE FillVisit(t)
  <2>1. Flow(t, "visit", "pop") /\ Same(t) /\ SlabLock(loc[t].v, t)
    BY Zenon, <1>2, FillVisitFlow DEF FillVisit
  <2>2. loc'[t].v \in SlabId
    <3>1. TypeOK' /\ pc'[t] = "pop"
      BY <1>2, <2>1, FillVisitType
    <3> QED
      BY <1>0, <3>1 DEF TypeOK, Control, Going
  <2> QED
    BY <1>0, <2>1, <2>2, SlabTaken
<1>3. CASE FillStops(t)
  BY Zenon, <1>3 DEF FillStops, Stop, Running
<1>4. CASE FillNext(t)
  <2>1. /\ Alone(t) /\ pc[t] = "pop" /\ Where(t) = "pop" /\ loc'[t].c = loc[t].c
        /\ pc'[t] = Where(t)' /\ Where(t)' \in {"getone", "visit"}
    BY <1>4, FillNextFlow
  <2>2. PICK v \in SlabId : v = loc[t].v
    BY <1>0, <2>1, Placed
  <2>3. SlabLock(v, NoThread)
    BY <1>4, <2>2 DEF FillNext
  <2>4. lock'.slab = [lock.slab EXCEPT ![v] = NoThread] /\ lock'.bin = lock.bin /\ lock'.lru = lock.lru
    BY <1>0, <2>3, LockChanges
  <2>5. lock.lru # t
    BY <1>0, <2>1 DEF Holders
  <2>6. \A w \in SlabId, u \in Threads : lock'.slab[w] = u => loc'[u].v = w /\ HasSlab(u)'
    BY <1>0, <2>1, <2>2, <2>4, SlabGiven
  <2>7. \A u \in Threads : /\ Where(u)' \in Searching => lock'.lru = u
                           /\ lock'.lru = u => HasLRU(u)'
    BY <1>0, <2>1, <2>4, <2>5, LRUHeld
  <2> QED
    BY <1>0, <2>1, <2>4, <2>6, <2>7, BinsHeld DEF Holders
<1>5. CASE FillPop(t)
  <2>1. UNCHANGED lock
    BY Zenon, <1>5 DEF FillPop
  <2> QED
    BY Zenon, <1>0, <1>5, <2>1, FillPopFlow, HoldersKept
<1>6. CASE Filled(t)
  <2>1. Flow(t, "filled", "malloc")
    BY <1>6, FilledFlow
  <2>2. PICK c \in Classes : c = loc[t].c
    BY <1>0, <2>1, Placed
  <2>3. PICK v \in SlabId : v = loc[t].v
    BY <1>0, <2>1, Placed
  <2>4. PICK k \in Locks : k = lock
    BY DEF TypeOK
  <2>5. lock' = [k EXCEPT !.slab[v] = NoThread, !.bin[c] = NoThread]
    BY <1>6, <2>2, <2>3, <2>4 DEF Filled, FilledLocks
  <2>6. /\ lock'.slab = [lock.slab EXCEPT ![v] = NoThread]
        /\ lock'.bin = [lock.bin EXCEPT ![c] = NoThread] /\ lock'.lru = lock.lru
    BY <2>4, <2>5 DEF Locks
  <2>7. \A w \in SlabId, u \in Threads : lock'.slab[w] = u => loc'[u].v = w /\ HasSlab(u)'
    BY <1>0, <2>1, <2>3, <2>6, SlabGiven
  <2>8. lock.lru # t
    BY <1>0, <2>1 DEF Holders
  <2>9. \A u \in Threads : /\ Where(u)' \in Searching => lock'.lru = u
                           /\ lock'.lru = u => HasLRU(u)'
    BY <1>0, <2>1, <2>6, <2>8, LRUHeld
  <2>10. \A d \in Classes, u \in Threads :
          lock'.bin[d] = u <=> Where(u)' \in FillSteps \ {"malloc"} /\ loc'[u].c = d
    BY <1>0, <2>1, <2>2, <2>6, BinLeft
  <2> QED
    BY <2>7, <2>9, <2>10 DEF Holders
<1>7. CASE Touch(t)
  BY <1>0, <1>7, TouchFlow, HoldersKept DEF Touch
<1>8. CASE Stamp(t)
  BY <1>0, <1>8, StampFlow, HoldersKept DEF Stamp
<1> QED
  BY <1>1, <1>2, <1>3, <1>4, <1>5, <1>6, <1>7, <1>8 DEF Fill

LEMMA GetHolders ==
  ASSUME TypeOK, Holders, NEW t \in Home, slab_get_one(t)
  PROVE  Holders'
<1> USE DEF Flow, Same, SameClass, FillSteps, Filling, HasSlab, HasLRU, Searching
<1>0. t \in Threads
  BY DEF Threads
<1>1. CASE GetOne(t)
  BY <1>0, <1>1, GetOneFlow, HoldersKept DEF GetOne
<1>2. CASE Search(t)
  BY <1>0, <1>2, SearchFlow, LRUTaken DEF Search
<1>3. CASE SearchSkip(t)
  BY <1>0, <1>3, SearchSkipFlow, HoldersKept DEF SearchSkip
<1>4. CASE SearchFound(t)
  BY <1>0, <1>4, SearchFoundFlow, HoldersKept DEF SearchFound
<1>5. CASE SearchFails(t)
  <2>1. Flow(t, "scan", "create") /\ Same(t) /\ LRULock(NoThread)
    BY <1>5, SearchFailsFlow DEF SearchFails
  <2>2. lock'.lru = NoThread /\ lock'.bin = lock.bin /\ lock'.slab = lock.slab
    BY <1>0, <2>1, LockChanges
  <2>3. \A v \in SlabId : lock.slab[v] # t
    BY <1>0, <2>1 DEF Holders
  <2>4. \A v \in SlabId, u \in Threads : lock'.slab[v] = u => loc'[u].v = v /\ HasSlab(u)'
    BY <1>0, <2>1, <2>2, <2>3, SlabsHeld
  <2>5. \A u \in Threads : /\ Where(u)' \in Searching => lock'.lru = u
                           /\ lock'.lru = u => HasLRU(u)'
    BY <1>0, <2>1, <2>2, LRUGiven
  <2> QED
    BY <1>0, <2>1, <2>2, <2>4, <2>5, BinsHeld DEF Holders
<1>6. CASE Create(t)
  BY Zenon, <1>0, <1>6, CreateFlow, LRUTaken DEF Create
<1>7. CASE Insert(t)
  BY <1>0, <1>7, InsertFlow, HoldersKept DEF Insert
<1> QED
  BY <1>1, <1>2, <1>3, <1>4, <1>5, <1>6, <1>7 DEF slab_get_one

\* The morph is over: the locks of the slab and of the LRU list are given back.
LEMMA MorphLocksLeft ==
  ASSUME TypeOK, Holders, NEW t \in Threads, NEW v \in SlabId, Alone(t), loc[t].v = v,
         lock' = [lock EXCEPT !.slab[v] = NoThread, !.lru = NoThread],
         Filling(t), Filling(t)', loc'[t].c = loc[t].c,
         Where(t) \in Searching, Where(t)' \notin Searching
  PROVE  Holders'
<1>1. PICK k \in Locks : k = lock
  BY DEF TypeOK
<1>2. /\ lock'.slab = [lock.slab EXCEPT ![v] = NoThread]
      /\ lock'.bin = lock.bin /\ lock'.lru = NoThread
  BY <1>1 DEF Locks
<1>3. \A w \in SlabId, u \in Threads : lock'.slab[w] = u => loc'[u].v = w /\ HasSlab(u)'
  BY <1>2, SlabGiven
<1>4. \A u \in Threads : /\ (Where(u)' \in Searching => lock'.lru = u)
                         /\ (lock'.lru = u => HasLRU(u)')
  BY <1>2, LRUGiven
<1> QED
  BY <1>2, <1>3, <1>4, BinsHeld DEF Holders, HasSlab, HasLRU

LEMMA MorphHolders ==
  ASSUME TypeOK, Holders, NEW t \in Home, slab_morphing(t)
  PROVE  Holders'
<1> USE DEF Flow, Same, SameClass, FillSteps, Filling, HasSlab, HasLRU, Searching
<1>0. t \in Threads /\ NoThread \in Threads \cup {NoThread}
  BY DEF Threads
<1>1. CASE MorphLock(t)
  <2>1. Flow(t, "candidate", "morph") /\ Same(t) /\ SlabLock(loc[t].v, t)
    BY <1>1, MorphLockFlow DEF MorphLock
  <2>2. loc[t].v \in SlabId
    BY <1>0, <2>1, Placed
  <2> QED
    BY <1>0, <2>1, <2>2, SlabTaken
<1>2. CASE MorphRefused(t)
  <2>1. Flow(t, "morph", "scan") /\ SameClass(t)
    BY <1>2, MorphRefusedFlow
  <2>2. PICK v \in SlabId : v = loc[t].v
    BY <1>0, <2>1, Placed
  <2>3. SlabLock(v, NoThread)
    BY <1>2, <2>2 DEF MorphRefused
  <2>4. lock'.slab = [lock.slab EXCEPT ![v] = NoThread] /\ lock'.bin = lock.bin /\ lock'.lru = lock.lru
    BY <1>0, <2>3, LockChanges
  <2>5. \A w \in SlabId, u \in Threads : lock'.slab[w] = u => loc'[u].v = w /\ HasSlab(u)'
    BY <1>0, <2>1, <2>2, <2>4, SlabGiven
  <2>0. lock.lru = t
    BY <1>0, <2>1 DEF Holders
  <2>6. \A u \in Threads : /\ Where(u)' \in Searching => lock'.lru = u
                           /\ lock'.lru = u => HasLRU(u)'
    BY <1>0, <2>0, <2>1, <2>4, LRUHeld
  <2> QED
    BY <1>0, <2>1, <2>4, <2>5, <2>6, BinsHeld DEF Holders
<1>3. CASE MorphIsEmpty(t)
  BY <1>0, <1>3, MorphIsEmptyFlow, HoldersKept DEF MorphIsEmpty
<1>4. CASE MorphBegin(t)
  BY Zenon, <1>0, <1>4, MorphBeginFlow, HoldersKept DEF MorphBegin
<1>5. CASE MorphEmpty(t)
  BY Zenon, <1>0, <1>5, MorphEmptyFlow, HoldersKept DEF MorphEmpty
<1>6. CASE MorphMove(t)
  BY Zenon, <1>0, <1>6, MorphMoveFlow, HoldersKept DEF MorphMove
<1>7. CASE MorphEnd(t)
  <2>1. Flow(t, "rebuild", "visit") /\ Same(t)
    BY <1>7, MorphEndFlow
  <2>2. PICK v \in SlabId : v = loc[t].v
    BY <1>0, <2>1, Placed
  <2>3. lock' = [lock EXCEPT !.slab[v] = NoThread, !.lru = NoThread]
    BY <1>7, <2>2 DEF MorphEnd
  <2> QED
    BY Zenon, <1>0, <2>1, <2>2, <2>3, MorphLocksLeft
<1>8. CASE MorphReinit(t)
  <2>1. Flow(t, "reinit", "unlock") /\ Same(t)
    BY <1>8, MorphReinitFlow
  <2>2. PICK v \in SlabId : v = loc[t].v
    BY <1>0, <2>1, Placed
  <2>3. SlabLock(v, NoThread)
    BY Zenon, <1>8, <2>2 DEF MorphReinit
  <2>4. lock'.slab = [lock.slab EXCEPT ![v] = NoThread] /\ lock'.bin = lock.bin /\ lock'.lru = lock.lru
    BY <1>0, <2>3, LockChanges
  <2>5. \A w \in SlabId, u \in Threads : lock'.slab[w] = u => loc'[u].v = w /\ HasSlab(u)'
    BY <1>0, <2>1, <2>2, <2>4, SlabGiven
  <2>6. lock.lru = t
    BY <1>0, <2>1 DEF Holders
  <2>7. \A u \in Threads : /\ Where(u)' \in Searching => lock'.lru = u
                           /\ lock'.lru = u => HasLRU(u)'
    BY <1>0, <2>1, <2>4, <2>6, LRUHeld
  <2> QED
    BY <1>0, <2>1, <2>4, <2>5, <2>7, BinsHeld DEF Holders
<1>9. CASE MorphUnlock(t)
  <2>1. Flow(t, "unlock", "visit") /\ Same(t)
    BY <1>9, MorphUnlockFlow
  <2>2. PICK v \in SlabId : v = loc[t].v
    BY <1>0, <2>1, Placed
  <2>3. lock' = [lock EXCEPT !.slab[v] = NoThread, !.lru = NoThread]
    BY <1>9, <2>2 DEF MorphUnlock
  <2> QED
    BY Zenon, <1>0, <2>1, <2>2, <2>3, MorphLocksLeft
<1> QED
  BY <1>1, <1>2, <1>3, <1>4, <1>5, <1>6, <1>7, <1>8, <1>9 DEF slab_morphing

LEMMA FreeHolders ==
  ASSUME TypeOK, Holders, Running', NEW t \in Threads, slab_free_small(t)
  PROVE  Holders'
<1> USE DEF Flow, Same, SameClass, FillSteps, Filling, HasSlab, HasLRU, Searching
<1>1. ASSUME NEW b \in held, FreeCall(t, b) PROVE Holders'
  BY Zenon, <1>1, FreeCallFlow, HoldersKept DEF FreeCall
<1>2. CASE FreeIsOld(t)
  BY <1>2, FreeIsOldFlow, HoldersKept DEF FreeIsOld
<1>3. CASE FreeNew(t)
  BY Zenon, <1>3, FreeNewFlow, HoldersKept DEF FreeNew
<1>4. CASE FreeOld(t)
  BY Zenon, <1>4, FreeOldFlow, HoldersKept DEF FreeOld
<1>5. CASE FreeOldStops(t)
  BY Zenon, <1>5 DEF FreeOldStops, Stop, Running
<1>6. CASE OldLRU(t)
  <2>1. lock.lru = NoThread
    BY Zenon, <1>6 DEF OldLRU
  <2> QED
    BY <1>6, <2>1, OldLRUFlow, HoldersKept, LRUTaken
<1>7. CASE LeaveBin(t)
  BY Zenon, <1>7, LeaveBinFlow, HoldersKept DEF LeaveBin
<1>8. CASE Release(t)
  BY <1>8, ReleaseFlow, HoldersKept DEF Release
<1>9. CASE FreeBack(t)
  <2>1. Alone(t) /\ pc[t] = "back" /\ Where(t) = "back" /\ Where(t)' \in {"backbin", "idle"}
    BY <1>9, FreeBackFlow
  <2>2. loc[t].v \in SlabId
    BY <2>1, Placed DEF FreeSteps
  <2>3. CASE SlabLock(loc[t].v, t) /\ pc'[t] = "recount"
    BY <1>9, <2>1, <2>2, <2>3, FreeBackFlow, SlabTaken
  <2>4. CASE UNCHANGED lock
    BY <1>9, <2>1, <2>4, FreeBackFlow, HoldersKept
  <2> QED
    BY <1>9, <2>3, <2>4, FreeBackFlow
<1>10. CASE BackCheck(t)
  BY <1>10, BackCheckFlow, HoldersKept DEF BackCheck
<1>11. CASE BackLRU(t)
  BY Zenon, <1>11, BackLRUFlow, LRUTaken DEF BackLRU
<1>12. CASE Dalloc(t)
  BY <1>12, DallocFlow, HoldersKept DEF Dalloc
<1> QED
  BY <1>1, <1>2, <1>3, <1>4, <1>5, <1>6, <1>7, <1>8, <1>9, <1>10, <1>11, <1>12
     DEF slab_free_small

LEMMA RecountHolders ==
  ASSUME TypeOK, Holders, NEW t \in Threads, Recount(t)
  PROVE  Holders'
<1> USE DEF FillSteps, Filling, HasSlab, HasLRU, Searching
<1> DEFINE to == loc[t].next
<1>1. /\ Alone(t) /\ pc[t] = "recount" /\ Where(t) = to /\ pc'[t] = to /\ Where(t)' = to
      /\ to \in {"pop", "touch", "filled", "insert", "rebuild", "idle", "backbin", "dalloc"}
      /\ to # "idle" => loc'[t].c = loc[t].c /\ loc'[t].v = loc[t].v
  BY RecountFlow DEF Same, SameClass
<1>2. PICK v \in SlabId : v = loc[t].v
  BY <1>1 DEF TypeOK, Control
<1>3. PICK k \in Locks : k = lock
  BY DEF TypeOK
<1>4. lock' = [k EXCEPT !.lru = IF @ = t /\ to # "rebuild" THEN NoThread ELSE @,
                        !.slab[v] = IF @ = t /\ to \in {"idle", "backbin"} THEN NoThread ELSE @]
  BY <1>2, <1>3 DEF Recount
<1>5. /\ lock'.bin = lock.bin
      /\ lock'.lru = IF lock.lru = t /\ to # "rebuild" THEN NoThread ELSE lock.lru
      /\ \A w \in SlabId :
           lock'.slab[w] = IF w = v /\ lock.slab[v] = t /\ to \in {"idle", "backbin"}
                             THEN NoThread ELSE lock.slab[w]
  BY <1>3, <1>4 DEF Locks
<1> HIDE DEF to
<1>6. \A w \in SlabId : lock'.slab[w] = t => loc'[t].v = w /\ HasSlab(t)'
  <2> SUFFICES ASSUME NEW w \in SlabId, lock'.slab[w] = t PROVE loc'[t].v = w /\ HasSlab(t)'
    OBVIOUS
  <2>1. lock.slab[w] = t
    BY <1>5, ThreadsAssumption
  <2>2. w = v /\ HasSlab(t)
    BY <1>2, <2>1 DEF Holders
  <2>3. to \notin {"idle", "backbin"}
    BY <1>5, <2>1, <2>2, ThreadsAssumption
  <2> QED
    BY <1>1, <1>2, <2>2, <2>3 DEF to
<1>7. (lock'.lru = t => HasLRU(t)') /\ (Where(t)' \in Searching => lock'.lru = t)
  <2>1. Where(t)' \in Searching => to = "rebuild" /\ lock.lru = t
    BY <1>1 DEF Holders, to
  <2> QED
    BY <1>1, <1>5, <2>1, ThreadsAssumption
<1>8. \A w \in SlabId, u \in Threads \ {t} : lock'.slab[w] = u => lock.slab[w] = u
  BY <1>5, ThreadsAssumption
<1>9. \A u \in Threads \ {t} : lock'.lru = u <=> lock.lru = u
  BY <1>5, ThreadsAssumption
<1>10. \A w \in SlabId, u \in Threads : lock'.slab[w] = u => loc'[u].v = w /\ HasSlab(u)'
  BY <1>1, <1>6, <1>8, SlabsHeld
<1>11. \A u \in Threads : /\ Where(u)' \in Searching => lock'.lru = u
                          /\ lock'.lru = u => HasLRU(u)'
  BY <1>1, <1>7, <1>9, LRUHeld
<1> QED
  BY <1>1, <1>5, <1>10, <1>11, BinsHeld DEF Holders

LEMMA NextHolders ==
  ASSUME TypeOK, Holders, Running', Next
  PROVE  Holders'
<1> USE DEF Flow, FillSteps, Filling, HasSlab, HasLRU, Searching
<1>1. ASSUME NEW t \in Home, NEW c \in Classes, MallocCall(t, c) PROVE Holders'
  BY Zenon, <1>1, MallocCallFlow, HoldersKept DEF MallocCall
<1>2. ASSUME NEW t \in Home, MallocTake(t) PROVE Holders'
  BY Zenon, <1>2, MallocTakeFlow, HoldersKept DEF MallocTake
<1>3. ASSUME NEW t \in Home, MallocStops(t) PROVE Holders'
  BY Zenon, <1>3 DEF MallocStops, Stop, Running
<1> QED
  BY <1>1, <1>2, <1>3, FillHolders, GetHolders, MorphHolders, FreeHolders, RecountHolders
     DEF Next, nvalloc_malloc_to

----------------------------------------------------------------------------
(* The slab that is morphed is of another class. *)

\* What is said of the thread t.
OtherAt(t) ==
  /\ Where(t) \in {"candidate", "morph", "reclass"} => vslab[loc[t].v].sc.c # loc[t].c
  /\ Where(t) = "move" => /\ vslab[loc[t].v].sc_b \in Layouts
                          /\ vslab[loc[t].v].sc_b.c # loc[t].c

\* A step of the thread that has LRU_lock, or one taken while nobody has it: no
\* other thread is in a morph.
LEMMA OtherAlone ==
  ASSUME TypeOK, Holders, OtherClass, NEW t \in Threads, Alone(t), lock.lru \in {t, NoThread},
         OtherAt(t)'
  PROVE  OtherClass'
<1> SUFFICES ASSUME NEW u \in Threads, u # t PROVE OtherAt(u)'
  BY DEF OtherClass, OtherAt
<1>1. Where(u) \notin Searching
  BY ThreadsAssumption DEF Holders
<1>2. Where(u)' = Where(u)
  BY DEF Alone
<1> QED
  BY <1>1, <1>2 DEF OtherAt, Searching

\* A step that leaves the classes of the slabs.
LEMMA OtherKept ==
  ASSUME TypeOK, OtherClass, NEW t \in Threads, Alone(t),
         \A v \in SlabId : SameLayouts(v), OtherAt(t)'
  PROVE  OtherClass'
<1> SUFFICES ASSUME NEW u \in Threads, u # t PROVE OtherAt(u)'
  BY DEF OtherClass, OtherAt
<1>1. Where(u)' = Where(u) /\ loc'[u] = loc[u]
  BY DEF Alone
<1>2. CASE Where(u) \in {"candidate", "morph", "reclass", "move"}
  <2>1. loc[u].v \in SlabId
    BY <1>2 DEF Where, TypeOK, Control
  <2> QED
    BY <1>1, <2>1 DEF OtherClass, OtherAt, SameLayouts
<1> QED
  BY <1>1, <1>2 DEF OtherAt

LEMMA FillingOther ==
  ASSUME TypeOK, OtherClass, Running', NEW t \in Home, Fill(t)
  PROVE  OtherClass'
<1> USE DEF Flow, OtherAt
<1>0. t \in Threads
  BY DEF Threads
<1>1. ASSUME UNCHANGED vslab PROVE \A w \in SlabId : SameLayouts(w)
  BY <1>1 DEF SameLayouts
<1>2. CASE FillLock(t)
  BY <1>0, <1>1, <1>2, FillLockFlow, OtherKept DEF FillLock
<1>3. CASE FillVisit(t)
  BY <1>0, <1>1, <1>3, FillVisitFlow, OtherKept DEF FillVisit
<1>4. CASE FillStops(t)
  BY Zenon, <1>4 DEF FillStops, Stop, Running
<1>5. CASE FillNext(t)
  BY <1>0, <1>1, <1>5, FillNextFlow, OtherKept DEF FillNext
<1>6. CASE FillPop(t)
  <2>1. Alone(t) /\ Where(t)' \in {"filled", "touch", "pop"} /\ pc[t] = "pop"
    BY Zenon, <1>6, FillPopFlow
  <2>2. PICK v \in SlabId : v = loc[t].v
    BY <1>0, <2>1, Placed
  <2>3. \A w \in SlabId : SameLayouts(w)
    BY <1>6, <2>2, FillPopSets, BitsSet DEF SameShape
  <2> QED
    BY <1>0, <2>1, <2>3, OtherKept
<1>7. CASE Filled(t)
  BY <1>0, <1>1, <1>7, FilledFlow, OtherKept DEF Filled
<1>8. CASE Touch(t)
  BY <1>0, <1>1, <1>8, TouchFlow, OtherKept DEF Touch
<1>9. CASE Stamp(t)
  <2>1. Flow(t, "stamp", "pop")
    BY <1>9, StampFlow
  <2>2. PICK v \in SlabId : v = loc[t].v
    BY <1>0, <2>1, Placed
  <2>3. StampTo(v, timestamp)
    BY <1>9, <2>2 DEF Stamp, StampTo
  <2>4. \A w \in SlabId : SameLayouts(w)
    BY <2>3, StampSet DEF SameShape
  <2> QED
    BY <1>0, <2>1, <2>4, OtherKept
<1> QED
  BY <1>2, <1>3, <1>4, <1>5, <1>6, <1>7, <1>8, <1>9 DEF Fill

LEMMA GetOther ==
  ASSUME TypeOK, Holders, OtherClass, NEW t \in Home, slab_get_one(t)
  PROVE  OtherClass'
<1> USE DEF Flow, Same, SameClass, OtherAt
<1>0. t \in Threads
  BY DEF Threads
<1>1. ASSUME UNCHANGED vslab PROVE \A w \in SlabId : SameLayouts(w)
  BY <1>1 DEF SameLayouts
<1>2. CASE GetOne(t)
  BY <1>0, <1>1, <1>2, GetOneFlow, OtherKept DEF GetOne
<1>3. CASE Search(t)
  BY <1>0, <1>1, <1>3, SearchFlow, OtherKept DEF Search
<1>4. CASE SearchSkip(t)
  BY <1>0, <1>1, <1>4, SearchSkipFlow, OtherKept DEF SearchSkip
<1>5. CASE SearchFound(t)
  <2>1. vslab[loc[t].v].sc.c # loc[t].c /\ UNCHANGED vslab
    BY <1>5 DEF SearchFound, Candidate
  <2> QED
    BY <1>0, <1>1, <1>5, <2>1, SearchFoundFlow, OtherKept
<1>6. CASE SearchFails(t)
  BY <1>0, <1>1, <1>6, SearchFailsFlow, OtherKept DEF SearchFails
<1>7. CASE Create(t)
  <2>1. lock.lru = NoThread
    BY Zenon, <1>7 DEF Create
  <2> QED
    BY <1>0, <1>7, <2>1, CreateFlow, OtherAlone
<1>8. CASE Insert(t)
  BY <1>0, <1>1, <1>8, InsertFlow, OtherKept DEF Insert
<1> QED
  BY <1>2, <1>3, <1>4, <1>5, <1>6, <1>7, <1>8 DEF slab_get_one

LEMMA MorphOther ==
  ASSUME TypeOK, Holders, OtherClass, NEW t \in Home, slab_morphing(t)
  PROVE  OtherClass'
<1> USE DEF Flow, Same, SameClass, OtherAt
<1>0. t \in Threads
  BY DEF Threads
<1>01. Where(t) \in Searching => lock.lru \in {t, NoThread}
  BY <1>0 DEF Holders
<1> USE DEF Searching
<1>1. CASE MorphLock(t)
  <2>1. Flow(t, "candidate", "morph") /\ Same(t) /\ UNCHANGED vslab
    BY <1>1, MorphLockFlow DEF MorphLock
  <2>2. vslab[loc[t].v].sc.c # loc[t].c
    BY <1>0, <2>1 DEF OtherClass
  <2> QED
    BY <1>0, <1>01, <2>1, <2>2, OtherAlone
<1>2. CASE MorphRefused(t)
  BY <1>0, <1>01, <1>2, MorphRefusedFlow, OtherAlone
<1>3. CASE MorphIsEmpty(t) \/ MorphBegin(t)
  <2>1. \/ Flow(t, "morph", "reclass") /\ MorphIsEmpty(t)
        \/ Flow(t, "morph", "move") /\ MorphBegin(t)
    BY <1>3, MorphIsEmptyFlow, MorphBeginFlow
  <2>2. Same(t) /\ vslab[loc[t].v].sc.c # loc[t].c
    BY <1>0, <1>3, <2>1, MorphIsEmptyFlow, MorphBeginFlow DEF OtherClass
  <2>3. PICK v \in SlabId : v = loc[t].v
    BY <1>0, <2>1, Placed
  <2>04. loc[t].c \in Classes
    BY <1>0, <2>1, WherePlaced DEF FillSteps
  <2>4. PICK s \in Slabs : s = SlabLeft(t) /\ s.sc = vslab[v].sc
    BY <2>04, <2>3, LeftType
  <2>5. CASE MorphIsEmpty(t)
    <3>1. vslab' = [vslab EXCEPT ![v] = s]
      BY <2>3, <2>4, <2>5 DEF MorphIsEmpty
    <3>2. vslab'[v].sc = vslab[v].sc
      BY <2>4, <3>1 DEF TypeOK
    <3> QED
      BY <1>0, <1>01, <2>1, <2>2, <2>3, <3>2, <2>5, MorphIsEmptyFlow, OtherAlone
  <2>6. CASE MorphBegin(t)
    <3>1. PICK l, n : l = NewLayout(t) /\ n = s.nbits % Byte
      OBVIOUS
    <3>2. vslab' = [vslab EXCEPT ![v] = [s EXCEPT !.sc = l, !.sc_b = s.sc, !.num_b = n, !.nbits = 0]]
      BY <2>3, <2>4, <2>6, <3>1 DEF MorphBegin
    <3>3. [s EXCEPT !.sc = l, !.sc_b = s.sc, !.num_b = n, !.nbits = 0].sc_b = s.sc
      BY DEF Slabs
    <3>4. vslab'[v].sc_b = vslab[v].sc /\ vslab[v].sc \in Layouts
      BY <2>4, <3>2, <3>3 DEF TypeOK, Slabs
    <3> QED
      BY <1>0, <1>01, <2>1, <2>2, <2>3, <3>4, <2>6, MorphBeginFlow, OtherAlone
  <2> QED
    BY <1>3, <2>5, <2>6
<1>4. CASE MorphEmpty(t)
  BY <1>0, <1>01, <1>4, MorphEmptyFlow, OtherAlone
<1>5. CASE MorphReinit(t) \/ MorphUnlock(t)
  BY <1>0, <1>01, <1>5, MorphReinitFlow, MorphUnlockFlow, OtherAlone
<1>6. CASE MorphMove(t)
  BY <1>0, <1>01, <1>6, MorphMoveFlow, OtherAlone
<1>7. CASE MorphEnd(t)
  BY <1>0, <1>01, <1>7, MorphEndFlow, OtherAlone
<1> QED
  BY <1>1, <1>2, <1>3, <1>4, <1>5, <1>6, <1>7 DEF slab_morphing

LEMMA FreeLayouts ==
  ASSUME TypeOK, Running', NEW t \in Threads, slab_free_small(t)
  PROVE  \A w \in SlabId : SameLayouts(w)
<1>1. ASSUME UNCHANGED vslab PROVE \A w \in SlabId : SameLayouts(w)
  BY <1>1 DEF SameLayouts
<1>2. CASE FreeNew(t)
  <2>1. PICK v \in SlabId : v = loc[t].v
    BY <1>2, FreePlaced DEF FreeNew, At, FreeSteps
  <2> QED
    BY <1>2, <2>1, FreeNewSets, MetaSet DEF SameShape
<1>3. CASE FreeOld(t)
  BY <1>3, FreeOldLayouts
<1>4. CASE FreeBack(t)
  <2>1. PICK v \in SlabId : v = loc[t].v
    BY <1>4, FreePlaced DEF FreeBack, At, FreeSteps
  <2>2. BitsTo(v, vslab[v].bits \ {Index(t)}, (vslab[v].nbits - 1) % Half)
    BY <1>4, <2>1 DEF FreeBack, Returned, TypeOK, Slabs, BitsTo
  <2> QED
    BY <2>2, BitsSet DEF SameShape
<1>5. CASE Release(t) \/ Dalloc(t)
  <2>1. PICK v \in SlabId : v = loc[t].v
    BY <1>5, FreePlaced DEF Release, Dalloc, At, FreeSteps
  <2> QED
    BY <1>1, <1>5, <2>1, ReleaseSets, StateSet DEF SameShape
<1> QED
  BY Zenon, <1>1, <1>2, <1>3, <1>4, <1>5 DEF slab_free_small, FreeCall, FreeIsOld, FreeOldStops,
     OldLRU, LeaveBin, BackCheck, BackLRU

LEMMA FreeOther ==
  ASSUME TypeOK, OtherClass, Running', NEW t \in Threads, slab_free_small(t)
  PROVE  OtherClass'
<1> USE DEF Flow, OtherAt
<1>0. \A w \in SlabId : SameLayouts(w)
  BY FreeLayouts
<1>1. ASSUME NEW b \in held, FreeCall(t, b) PROVE OtherClass'
  BY <1>0, <1>1, FreeCallFlow, OtherKept
<1>2. CASE FreeIsOld(t) \/ FreeNew(t) \/ FreeOld(t)
  BY <1>0, <1>2, FreeIsOldFlow, FreeNewFlow, FreeOldFlow, OtherKept
<1>3. CASE FreeOldStops(t)
  BY Zenon, <1>3 DEF FreeOldStops, Stop, Running
<1>4. CASE OldLRU(t) \/ LeaveBin(t) \/ Release(t)
  BY <1>0, <1>4, OldLRUFlow, LeaveBinFlow, ReleaseFlow, OtherKept
<1>5. CASE FreeBack(t) \/ BackCheck(t)
  BY <1>0, <1>5, FreeBackFlow, BackCheckFlow, OtherKept
<1>6. CASE BackLRU(t) \/ Dalloc(t)
  BY <1>0, <1>6, BackLRUFlow, DallocFlow, OtherKept
<1> QED
  BY <1>1, <1>2, <1>3, <1>4, <1>5, <1>6 DEF slab_free_small

LEMMA MallocTakeSlabs ==
  ASSUME TypeOK, NEW t \in Home, MallocTake(t)
  PROVE  \A w \in SlabId : SameShape(w) /\ SameBits(w) /\ SameState(w)
<1>1. PICK c \in Classes, ch \in Caches, w \in Way, n \in Int :
        /\ c = loc[t].c /\ ch = cache[t][c] /\ w = NextWay(ch) /\ n = Undropped(t, c, w)
        /\ w \in ch.bm
        /\ n = -1 \/ n \in 1 .. Len(ch.avail[w])
  BY MallocTakeFinds
<1>2. CASE n = -1
  BY <1>1, <1>2 DEF MallocTake, SameShape, SameLayouts, SameBits, SameState
<1>3. CASE n # -1
  <2>1. ch.avail[w] \in Seq(Entries) /\ n \in 1 .. Len(ch.avail[w])
    BY <1>1, <1>3 DEF Caches
  <2>2. PICK e \in Entries : e = ch.avail[w][n]
    BY <2>1, ElementOfSeq
  <2>3. PICK v \in SlabId : v = e.blk.v
    BY DEF Entries, Blocks
  <2>4. PICK a : MetaTo(v, vslab[v].meta \cup {e.id}, a)
    BY Zenon, <1>1, <1>3, <2>2, <2>3, MallocTakeSets
  <2> QED
    BY <2>4, MetaSet
<1> QED
  BY <1>2, <1>3

LEMMA NextOther ==
  ASSUME TypeOK, Holders, OtherClass, Running', Next
  PROVE  OtherClass'
<1> USE DEF Flow, SameLayouts, OtherAt
<1>0. ASSUME NEW t \in Home PROVE t \in Threads
  BY DEF Threads
<1>1. ASSUME NEW t \in Home, NEW c \in Classes, MallocCall(t, c) PROVE OtherClass'
  BY <1>1, MallocCallFlow, OtherKept DEF MallocCall
<1>2. ASSUME NEW t \in Home, MallocTake(t) PROVE OtherClass'
  BY <1>2, MallocTakeFlow, MallocTakeSlabs, OtherKept DEF SameShape
<1>3. ASSUME NEW t \in Home, MallocStops(t) PROVE OtherClass'
  BY Zenon, <1>3 DEF MallocStops, Stop, Running
<1>4. ASSUME NEW t \in Threads, Recount(t) PROVE OtherClass'
  <2>1. /\ Alone(t) /\ Where(t)' = Where(t)
        /\ Where(t) \in {"pop", "touch", "filled", "insert", "rebuild", "idle", "backbin", "dalloc"}
    BY <1>4, RecountFlow
  <2> QED
    BY <1>4, <2>1, OtherKept DEF Recount
<1> QED
  BY <1>1, <1>2, <1>3, <1>4, FillingOther, GetOther, MorphOther, FreeOther
     DEF Next, nvalloc_malloc_to

LEMMA InitLocks == Init => Holders /\ OtherClass
<1> SUFFICES ASSUME Init PROVE Holders /\ OtherClass
  OBVIOUS
<1>1. \A t \in Threads : Where(t) = "idle" /\ t # NoThread
  BY ThreadsAssumption DEF Init, Where, Going
<1>2. /\ \A c \in Classes : lock.bin[c] = NoThread
      /\ \A v \in SlabId : lock.slab[v] = NoThread
      /\ lock.lru = NoThread
  BY DEF Init
<1>3. Holders
  BY <1>1, <1>2 DEF Holders, FillSteps, Searching
<1>4. OtherClass
  BY <1>1 DEF OtherClass
<1> QED
  BY <1>3, <1>4

\* Who has a lock is where the code has it, whatever the threads do, and the slab
\* that is morphed is of another class than the one that needs it (slab.c:81, 92,
\* 125, 197, 244).
THEOREM LocksStayHeld == Spec => []LocksInv
<1>1. Init => LocksInv
  BY InitType, InitLocks DEF LocksInv
<1>2. LocksInv /\ [Next]_vars => LocksInv'
  <2> SUFFICES ASSUME LocksInv, [Next]_vars, Running'
               PROVE  (TypeOK /\ Holders /\ OtherClass)'
    BY DEF LocksInv
  <2>1. CASE Next
    BY <2>1, NextRuns, NextType, NextHolders, NextOther DEF LocksInv
  <2>2. CASE UNCHANGED vars
    <3>1. Running /\ TypeOK /\ Holders /\ OtherClass
      BY <2>2 DEF vars, Running, LocksInv
    <3>2. Holders' /\ OtherClass'
      BY <2>2, <3>1 DEF vars, Holders, OtherClass, Where
    <3> QED
      BY <2>2, <3>1, <3>2 DEF vars, TypeOK
  <2> QED
    BY <2>1, <2>2
<1> QED
  BY <1>1, <1>2, PTL DEF Spec

\* A thread that has a lock and waits for one is the one that fills.
LEMMA WaitingHolder ==
  ASSUME TypeOK, Holders, OtherClass, NEW t \in Threads, NEW u \in Threads, u \in WaitsFor(t), WaitsFor(u) # {}
  PROVE  /\ Filling(u)
         /\ pc[u] = Where(u) /\ pc[u] \in {"visit", "candidate", "touch", "search", "create", "reclass", "move"}
<1>1. \/ \E c \in Classes : lock.bin[c] = u
      \/ \E v \in SlabId : lock.slab[v] = u
      \/ lock.lru = u
  <2>0. Control(t, pc[t], loc[t])
    BY Placed
  <2>1. CASE pc[t] = "malloc"
    BY <2>0, <2>1 DEF WaitsFor, Control, Going, FillSteps
  <2>2. CASE pc[t] \in {"visit", "candidate", "old", "back"}
    BY <2>0, <2>2 DEF WaitsFor, Control, Going, FillSteps, FreeSteps
  <2>3. CASE pc[t] \in {"touch", "search", "create", "oldlru", "backlru"}
    BY <2>3 DEF WaitsFor
  <2>4. CASE pc[t] = "reclass"
    <3>1. loc[t].v \in SlabId
      BY <2>4, Placed
    <3>2. vslab[loc[t].v].sc.c \in Classes
      BY <3>1 DEF TypeOK, Slabs, Layouts
    <3> QED
      BY <2>4, <3>2 DEF WaitsFor
  <2>5. CASE pc[t] = "move"
    <3>1. vslab[loc[t].v].sc_b.c \in Classes
      BY <2>5 DEF OtherClass, Where, Going, Layouts
    <3> QED
      BY <2>5, <3>1 DEF WaitsFor
  <2>6. CASE pc[t] \in {"oldbin", "backbin"}
    <3>1. loc[t].sc.c \in Classes
      BY <2>0, <2>6 DEF Control, Going, FreeSteps, Layouts
    <3> QED
      BY <2>6, <3>1 DEF WaitsFor
  <2> QED
    BY <2>1, <2>2, <2>3, <2>4, <2>5, <2>6 DEF WaitsFor
<1>2. Filling(u) \/ pc[u] = "recount"
  BY <1>1 DEF Holders, Filling, FillSteps, Searching
<1>3. pc[u] # "recount"
  BY DEF WaitsFor
<1>4. pc[u] = Where(u)
  BY <1>3 DEF Where, Going
<1> QED
  BY <1>2, <1>3, <1>4 DEF WaitsFor, Filling, FillSteps

\* One that is waited for on LRU_lock waits itself: it is in a morph.
LEMMA WaitingForLRU ==
  ASSUME TypeOK, Holders, OtherClass, NEW t \in Threads, NEW u \in Threads, u \in WaitsFor(t),
         WaitsFor(u) # {}, pc[t] \in {"touch", "search", "create"}
  PROVE  pc[u] \in {"candidate", "reclass", "move"}
<1>1. lock.lru = u
  BY DEF WaitsFor
<1>2. pc[u] = Where(u) /\ pc[u] # "recount"
      /\ pc[u] \in {"visit", "candidate", "touch", "search", "create", "reclass", "move"}
  BY WaitingHolder
<1> QED
  BY <1>1, <1>2 DEF Holders, Searching

\* And one that is waited for on the lock of a slab is in a morph, or waits for
\* LRU_lock.
LEMMA WaitingForSlab ==
  ASSUME TypeOK, Holders, OtherClass, NEW t \in Threads, NEW u \in Threads, u \in WaitsFor(t),
         WaitsFor(u) # {}, pc[t] \in {"visit", "candidate"}
  PROVE  pc[u] \in {"touch", "reclass", "move"}
<1>1. loc[t].v \in SlabId /\ lock.slab[loc[t].v] = u
  <2>1. loc[t].v \in SlabId
    BY Placed
  <2> QED
    BY <2>1 DEF WaitsFor
<1>2. pc[u] = Where(u) /\ pc[u] # "recount"
      /\ pc[u] \in {"visit", "candidate", "touch", "search", "create", "reclass", "move"}
  BY WaitingHolder
<1> QED
  BY <1>1, <1>2 DEF Holders

\* A circle of threads that wait for each other goes through two fills of
\* different classes: one that morphs, with LRU_lock, and one that keeps it from
\* the lock of a slab or of a bin. Fills of one class and frees alone never close
\* one, however many they are (slab.c:81, 92, 197, 244, 409).
THEOREM CirclesAlwaysCross == Spec => []CirclesCrossClasses
<1>1. LocksInv => CirclesCrossClasses
  <2> SUFFICES ASSUME TypeOK, Holders, OtherClass, NEW S \in (SUBSET Threads) \ {{}},
                      \A t \in S : WaitsFor(t) \cap S # {}
               PROVE  \E t, u \in S :
                        /\ pc[t] \in {"candidate", "reclass", "move"} /\ lock.lru = t
                        /\ pc[u] \in {"visit", "touch", "search", "create"}
                        /\ loc[u].c # loc[t].c
    BY DEF LocksInv, CirclesCrossClasses
  <2>1. \A t \in S : t \in Threads /\ WaitsFor(t) # {} /\ \E u \in S : u \in WaitsFor(t)
    OBVIOUS
  <2>2. \A t, u \in S : u \in WaitsFor(t) =>
          Filling(u) /\ pc[u] = Where(u)
          /\ pc[u] \in {"visit", "candidate", "touch", "search", "create", "reclass", "move"}
    BY <2>1, WaitingHolder
  <2>3. \A t \in S : pc[t] \in {"touch", "search", "create"} =>
          \E u \in S : pc[u] \in {"candidate", "reclass", "move"}
    BY <2>1, WaitingForLRU
  <2>4. \A t \in S : pc[t] = "visit" =>
          \E u \in S : pc[u] \in {"candidate", "reclass", "move"}
    BY <2>1, <2>3, WaitingForSlab
  <2>5. PICK t \in S : pc[t] \in {"candidate", "reclass", "move"}
    BY <2>1, <2>2, <2>3, <2>4
  <2>6. PICK u \in S : u \in WaitsFor(t)
    BY <2>1
  <2>61. /\ Filling(u) /\ pc[u] = Where(u) /\ u \in Threads
         /\ pc[u] \in {"visit", "candidate", "touch", "search", "create", "reclass", "move"}
    BY <2>1, <2>2, <2>6
  <2>7. Where(t) = pc[t] /\ lock.lru = t /\ Filling(t)
    BY <2>1, <2>5 DEF Holders, Where, Going, Searching, Filling, FillSteps
  <2>8. ASSUME u # t PROVE pc[u] \in {"visit", "touch", "search", "create"}
    <3>1. pc[u] \notin {"candidate", "reclass", "move"}
      BY <2>61, <2>7, <2>8 DEF Holders, Searching
    <3> QED
      BY <2>61, <3>1
  <2>9. loc[u].c \in Classes /\ loc[t].c \in Classes
        /\ lock.bin[loc[u].c] = u /\ lock.bin[loc[t].c] = t
    BY <2>1, <2>61, <2>7, WherePlaced DEF Filling, Holders
  <2>10. CASE pc[t] = "candidate"
    <3>1. pc[u] \in {"touch", "reclass", "move"}
      BY <2>1, <2>6, <2>10, WaitingForSlab
    <3>2. u # t
      BY <2>10, <3>1
    <3> QED
      BY <2>5, <2>7, <2>8, <2>9, <3>2
  <2>11. CASE pc[t] \in {"reclass", "move"}
    <3>1. loc[t].v \in SlabId
      BY <2>1, <2>11, Placed
    <3>2. PICK c \in Classes : lock.bin[c] = u /\ c # loc[t].c
      <4>1. CASE pc[t] = "reclass"
        <5>1. vslab[loc[t].v].sc.c \in Classes
          BY SMTT(30), <3>1 DEF TypeOK, Slabs, Layouts
        <5> QED
          BY <2>1, <2>6, <2>7, <4>1, <5>1 DEF WaitsFor, OtherClass
      <4>2. CASE pc[t] = "move"
        <5>1. vslab[loc[t].v].sc_b.c \in Classes
          BY <2>1, <2>7, <4>2 DEF OtherClass, Layouts
        <5>2. u = lock.bin[vslab[loc[t].v].sc_b.c]
          BY <2>6, <4>2 DEF WaitsFor
        <5>3. vslab[loc[t].v].sc_b.c # loc[t].c
          BY <2>1, <2>7, <4>2 DEF OtherClass
        <5> QED
          BY <5>1, <5>2, <5>3
      <4> QED
        BY SMTT(30), <2>11, <4>1, <4>2
    <3>3. loc[u].c = c
      BY <2>1, <2>6, <3>2 DEF Holders
    <3> QED
      BY <2>5, <2>7, <2>8, <3>2, <3>3
  <2> QED
    BY <2>5, <2>10, <2>11
<1> QED
  BY <1>1, LocksStayHeld, PTL

----------------------------------------------------------------------------
(* Geometry. *)

LEMMA Products ==
  ASSUME NEW b \in Nat \ {0}, NEW i \in Int, NEW j \in Int
  PROVE  /\ i * b \in Int
         /\ i < j => i * b + b <= j * b
         /\ i >= 0 => i * b >= 0
<1>1. PICK k \in Int : k = i * b
  OBVIOUS
<1>2. i < j => i * b + b <= j * b
  <2> SUFFICES ASSUME i < j PROVE i * b + b <= j * b
    OBVIOUS
  <2>1. PICK d \in Nat : j = i + 1 + d
    <3>1. j - i - 1 \in Nat /\ j = i + 1 + (j - i - 1)
      OBVIOUS
    <3> QED
      BY <3>1
  <2>2. j * b = i * b + b + d * b
    BY <2>1
  <2>3. d * b >= 0
    OBVIOUS
  <2> QED
    BY <2>2, <2>3
<1> QED
  BY <1>2

LEMMA TheLayoutType ==
  /\ TheClass \in Classes
  /\ TheLayout \in Layouts
  /\ TheLayout.c = TheClass
  /\ bitsize[TheClass] \in Nat \ {0}
  /\ TheLayout.roffset \in Nat /\ TheLayout.nbits \in Int /\ TheLayout.nbits < SLAB_SIZE
<1>1. TheClass \in Classes
  BY GeometryAssumption DEF TheClass
<1>2. TheLayout \in Layouts
  BY <1>1, FreshType DEF TheLayout
<1>3. TheLayout.c = TheClass
  BY DEF TheLayout, get_sizeclass_by_idx, Layout
<1> QED
  BY <1>1, <1>2, <1>3, GeometryAssumption DEF Layouts

\* The block with number i in the slab v.
Blk(v, i) == BlockAt(v, TheLayout, i)

LEMMA BlockPlace ==
  ASSUME NEW v, NEW i \in Int
  PROVE  /\ Blk(v, i).v = v /\ Blk(v, i).c = TheClass
         /\ Blk(v, i).off = TheLayout.roffset + i * bitsize[TheClass]
         /\ Blk(v, i).off \in Int
         /\ IndexIn(TheLayout, Blk(v, i).off) = i
         /\ IndexIn(TheLayout, Blk(v, i).off + bitsize[TheClass] - 1) = i
<1>1. PICK b \in Nat \ {0} : b = bitsize[TheClass]
  BY TheLayoutType
<1>2. PICK r \in Nat : r = TheLayout.roffset
  BY TheLayoutType
<1>3. PICK p \in Int : p = i * b
  OBVIOUS
<1>4. Blk(v, i) = [v |-> v, c |-> TheClass, off |-> r + p]
  BY <1>1, <1>2, <1>3, TheLayoutType DEF Blk, BlockAt
<1>5. p \div b = i /\ (p + b - 1) \div b = i
  <2>1. ASSUME NEW q \in Int, NEW k \in 0 .. b - 1, q = p + k PROVE q \div b = i
    BY <1>3, <2>1
  <2> QED
    BY <2>1
<1>6. r + p - r = p /\ r + p + b - 1 - r = p + b - 1
  OBVIOUS
<1> QED
  BY <1>1, <1>2, <1>3, <1>4, <1>5, <1>6, TheLayoutType DEF IndexIn

LEMMA BlockNumbers ==
  ASSUME NEW v, NEW w, NEW i \in Int, NEW j \in Int, Blk(v, i) = Blk(w, j)
  PROVE  v = w /\ i = j
<1>1. v = w
  <2>1. Blk(v, i).v = v /\ Blk(w, j).v = w
    BY BlockPlace
  <2> QED
    BY <2>1
<1>2. i = j
  <2>1. IndexIn(TheLayout, Blk(v, i).off) = i /\ IndexIn(TheLayout, Blk(w, j).off) = j
    BY BlockPlace
  <2> QED
    BY <2>1
<1> QED
  BY <1>1, <1>2

----------------------------------------------------------------------------
(* Places. *)

Once(S) == \A o, p \in S : o[1] = p[1] => o = p

LEMMA OnceMoved ==
  ASSUME NEW S, NEW S1, Once(S), NEW o \in S, NEW n, n[1] = o[1], S1 \subseteq (S \ {o}) \cup {n}
  PROVE  Once(S1)
BY DEF Once

LEMMA OnceAdded ==
  ASSUME NEW S, NEW S1, Once(S), NEW n, \A o \in S : o[1] # n[1], S1 \subseteq S \cup {n}
  PROVE  Once(S1)
BY DEF Once

HeldPart == {<<b, <<NoThread, 0, 0, 0>>>> : b \in held}
GivenPart == {<<loc[t].blk, <<t, 0, 0, 0>>>> : t \in {u \in Threads : loc[u].blk # NoBlock}}
CachedPart == UNION {{<<cache[t][c].avail[w][i].blk, <<t, c, w, i>>>>
                       : i \in 1 .. Len(cache[t][c].avail[w])}
                     : t \in Home, c \in Classes, w \in Way}

LEMMA Parts ==
  /\ Owned = HeldPart \cup GivenPart \cup CachedPart
  /\ Owned' = HeldPart' \cup GivenPart' \cup CachedPart'
BY DEF Owned, HeldPart, GivenPart, CachedPart

LEMMA InCached ==
  ASSUME NEW o
  PROVE  o \in CachedPart <=>
           \E t \in Home, c \in Classes, w \in Way :
             \E i \in 1 .. Len(cache[t][c].avail[w]) :
               o = <<cache[t][c].avail[w][i].blk, <<t, c, w, i>>>>
<1> DEFINE F(t, c, w) == {<<cache[t][c].avail[w][i].blk, <<t, c, w, i>>>> : i \in 1 .. Len(cache[t][c].avail[w])}
<1>1. CachedPart = UNION {F(t, c, w) : t \in Home, c \in Classes, w \in Way}
  BY DEF CachedPart
<1>2. ASSUME NEW t, NEW c, NEW w
      PROVE  o \in F(t, c, w) <=> \E i \in 1 .. Len(cache[t][c].avail[w]) :
               o = <<cache[t][c].avail[w][i].blk, <<t, c, w, i>>>>
  OBVIOUS
<1> HIDE DEF F
<1>3. o \in CachedPart <=> \E t \in Home, c \in Classes, w \in Way : o \in F(t, c, w)
  BY <1>1
<1> QED
  BY <1>2, <1>3

LEMMA InCachedNext ==
  ASSUME NEW o
  PROVE  o \in CachedPart' <=>
           \E t \in Home, c \in Classes, w \in Way :
             \E i \in 1 .. Len(cache'[t][c].avail[w]) :
               o = <<cache'[t][c].avail[w][i].blk, <<t, c, w, i>>>>
<1> DEFINE F(t, c, w) == {<<cache'[t][c].avail[w][i].blk, <<t, c, w, i>>>> : i \in 1 .. Len(cache'[t][c].avail[w])}
<1>1. CachedPart' = UNION {F(t, c, w) : t \in Home, c \in Classes, w \in Way}
  BY DEF CachedPart
<1>2. ASSUME NEW t, NEW c, NEW w
      PROVE  o \in F(t, c, w) <=> \E i \in 1 .. Len(cache'[t][c].avail[w]) :
               o = <<cache'[t][c].avail[w][i].blk, <<t, c, w, i>>>>
  OBVIOUS
<1> HIDE DEF F
<1>3. o \in CachedPart' <=> \E t \in Home, c \in Classes, w \in Way : o \in F(t, c, w)
  BY <1>1
<1> QED
  BY <1>2, <1>3

InHand(b) == <<b, <<NoThread, 0, 0, 0>>>>
InCall(b, t) == <<b, <<t, 0, 0, 0>>>>
InWay(b, t, c, w, i) == <<b, <<t, c, w, i>>>>

\* Where a pair of the parts can be.
LEMMA PartsApart ==
  /\ \A b : InHand(b) \in HeldPart <=> b \in held
  /\ \A b, t : InCall(b, t) \in GivenPart <=> t \in Threads /\ loc[t].blk = b /\ b # NoBlock
  /\ \A b, t, c, w, i : InWay(b, t, c, w, i) \in CachedPart <=>
       /\ t \in Home /\ c \in Classes /\ w \in Way
       /\ i \in 1 .. Len(cache[t][c].avail[w]) /\ b = cache[t][c].avail[w][i].blk
  /\ HeldPart \cap GivenPart = {} /\ HeldPart \cap CachedPart = {} /\ GivenPart \cap CachedPart = {}
<1>1. 0 \notin Classes
  BY GeometryAssumption
<1>2. NoThread \notin Threads /\ NoThread \notin Home
  BY ThreadsAssumption DEF Threads
<1>3. \A b : InHand(b) \in HeldPart <=> b \in held
  BY DEF InHand, HeldPart
<1>4. \A b, t : InCall(b, t) \in GivenPart <=> t \in Threads /\ loc[t].blk = b /\ b # NoBlock
  BY DEF InCall, GivenPart
<1>5. \A b, t, c, w, i : InWay(b, t, c, w, i) \in CachedPart <=>
       /\ t \in Home /\ c \in Classes /\ w \in Way
       /\ i \in 1 .. Len(cache[t][c].avail[w]) /\ b = cache[t][c].avail[w][i].blk
  BY InCached DEF InWay
<1>6. \A o \in HeldPart : o[2] = <<NoThread, 0, 0, 0>>
  BY DEF HeldPart
<1>7. \A o \in GivenPart : \E t \in Threads : o[2] = <<t, 0, 0, 0>>
  BY DEF GivenPart
<1>8. \A o \in CachedPart : \E t \in Home, c \in Classes : \E w, i : o[2] = <<t, c, w, i>>
  BY InCached
<1>9. HeldPart \cap GivenPart = {}
  BY <1>2, <1>6, <1>7
<1>10. HeldPart \cap CachedPart = {}
  BY <1>2, <1>6, <1>8
<1>11. GivenPart \cap CachedPart = {}
  BY <1>1, <1>7, <1>8
<1> QED
  BY <1>3, <1>4, <1>5, <1>9, <1>10, <1>11

LEMMA HeldChange ==
  ASSUME NEW b
  PROVE  /\ held' = held => HeldPart' = HeldPart
         /\ held' = held \cup {b} => HeldPart' = HeldPart \cup {InHand(b)}
         /\ held' = held \ {b} => HeldPart' = HeldPart \ {InHand(b)}
BY DEF HeldPart, InHand

LEMMA GivenChange ==
  ASSUME NEW t \in Threads, Alone(t)
  PROVE  /\ loc'[t].blk = loc[t].blk => GivenPart' = GivenPart
         /\ loc[t].blk = NoBlock /\ loc'[t].blk # NoBlock
              => GivenPart' = GivenPart \cup {InCall(loc'[t].blk, t)}
         /\ loc[t].blk # NoBlock /\ loc'[t].blk = NoBlock
              => GivenPart' = GivenPart \ {InCall(loc[t].blk, t)}
<1>1. \A o : o \in GivenPart <=> \E u \in Threads : loc[u].blk # NoBlock /\ o = <<loc[u].blk, <<u, 0, 0, 0>>>>
  BY DEF GivenPart
<1>2. \A o : o \in GivenPart' <=> \E u \in Threads : loc'[u].blk # NoBlock /\ o = <<loc'[u].blk, <<u, 0, 0, 0>>>>
  BY DEF GivenPart
<1>3. \A u \in Threads \ {t} : loc'[u] = loc[u]
  BY DEF Alone
<1>4. loc'[t].blk = loc[t].blk => GivenPart' = GivenPart
  BY <1>1, <1>2, <1>3
<1>5. loc[t].blk = NoBlock /\ loc'[t].blk # NoBlock
              => GivenPart' = GivenPart \cup {InCall(loc'[t].blk, t)}
  BY <1>1, <1>2, <1>3 DEF InCall
<1>6. loc[t].blk # NoBlock /\ loc'[t].blk = NoBlock
              => GivenPart' = GivenPart \ {InCall(loc[t].blk, t)}
  BY <1>1, <1>2, <1>3 DEF InCall
<1> QED
  BY <1>4, <1>5, <1>6

\* The ways after a step that gives the way w of a cache the entries q.
WayIs(t, c, w, q) ==
  \A h \in Home, d \in Classes, x \in Way :
    cache'[h][d].avail[x] = IF h = t /\ d = c /\ x = w THEN q ELSE cache[h][d].avail[x]

LEMMA WayChange ==
  ASSUME TypeOK, NEW t \in Home, NEW c \in Classes, NEW w \in Way, NEW q, NEW k,
         cache' = [cache EXCEPT ![t][c] = k],
         k.avail = [cache[t][c].avail EXCEPT ![w] = q]
  PROVE  WayIs(t, c, w, q)
<1> SUFFICES ASSUME NEW h \in Home, NEW d \in Classes, NEW x \in Way
             PROVE  cache'[h][d].avail[x] = IF h = t /\ d = c /\ x = w THEN q ELSE cache[h][d].avail[x]
  BY DEF WayIs
<1>1. PICK ch \in Caches : ch = cache[t][c]
  BY DEF TypeOK
<1>2. cache'[h][d] = IF h = t /\ d = c THEN k ELSE cache[h][d]
  BY DEF TypeOK
<1>3. k.avail[x] = IF x = w THEN q ELSE ch.avail[x]
  BY <1>1 DEF Caches
<1>4. CASE h = t /\ d = c
  <2>1. cache'[h][d].avail = k.avail /\ cache[h][d].avail = ch.avail
    BY <1>1, <1>2, <1>4
  <2> QED
    BY <1>3, <1>4, <2>1
<1>5. CASE ~(h = t /\ d = c)
  BY <1>2, <1>5
<1> QED
  BY <1>4, <1>5

LEMMA CachedPush ==
  ASSUME TypeOK, NEW t \in Home, NEW c \in Classes, NEW w \in Way, NEW e \in Entries,
         WayIs(t, c, w, Append(cache[t][c].avail[w], e))
  PROVE  CachedPart' = CachedPart \cup {InWay(e.blk, t, c, w, Len(cache[t][c].avail[w]) + 1)}
<1>1. PICK q \in Seq(Entries) : q = cache[t][c].avail[w]
  BY DEF TypeOK, Caches
<1> DEFINE q1 == Append(q, e)
<1>2. /\ Len(q1) = Len(q) + 1 /\ Len(q) \in Nat
      /\ \A i \in 1 .. Len(q) : q1[i] = q[i]
      /\ q1[Len(q) + 1] = e
  OBVIOUS
<1> HIDE DEF q1
<1>3. \A h \in Home, d \in Classes, x \in Way :
        cache'[h][d].avail[x] = IF h = t /\ d = c /\ x = w THEN q1 ELSE cache[h][d].avail[x]
  BY <1>1 DEF WayIs, q1
<1>4. ASSUME NEW o \in CachedPart' PROVE o \in CachedPart \cup {InWay(e.blk, t, c, w, Len(q) + 1)}
  <2>1. PICK h \in Home, d \in Classes, x \in Way :
          \E i \in 1 .. Len(cache'[h][d].avail[x]) :
            o = <<cache'[h][d].avail[x][i].blk, <<h, d, x, i>>>>
    BY InCachedNext
  <2>2. PICK i \in 1 .. Len(cache'[h][d].avail[x]) :
            o = <<cache'[h][d].avail[x][i].blk, <<h, d, x, i>>>>
    BY <2>1
  <2>3. CASE h = t /\ d = c /\ x = w
    <3>1. cache'[h][d].avail[x] = q1 /\ i \in 1 .. Len(q) + 1
      BY <1>2, <1>3, <2>3
    <3>2. CASE i = Len(q) + 1
      BY <1>2, <2>2, <2>3, <3>1, <3>2 DEF InWay
    <3>3. CASE i \in 1 .. Len(q)
      <4>1. o = <<cache[h][d].avail[x][i].blk, <<h, d, x, i>>>>
        BY <1>1, <1>2, <2>2, <2>3, <3>1, <3>3
      <4> QED
        BY <1>1, <2>3, <3>3, <4>1, InCached
    <3>4. i = Len(q) + 1 \/ i \in 1 .. Len(q)
      BY <1>2, <3>1
    <3> QED
      BY <3>2, <3>3, <3>4
  <2>4. CASE ~(h = t /\ d = c /\ x = w)
    BY <1>3, <2>2, <2>4, InCached
  <2> QED
    BY <2>3, <2>4
<1>5. ASSUME NEW o \in CachedPart PROVE o \in CachedPart'
  <2>1. PICK h \in Home, d \in Classes, x \in Way :
          \E i \in 1 .. Len(cache[h][d].avail[x]) :
            o = <<cache[h][d].avail[x][i].blk, <<h, d, x, i>>>>
    BY SMTT(30), InCached
  <2>2. PICK i \in 1 .. Len(cache[h][d].avail[x]) :
            o = <<cache[h][d].avail[x][i].blk, <<h, d, x, i>>>>
    BY <2>1
  <2>3. /\ i \in 1 .. Len(cache'[h][d].avail[x])
        /\ cache'[h][d].avail[x][i] = cache[h][d].avail[x][i]
    <3>1. CASE h = t /\ d = c /\ x = w
      <4>1. cache'[h][d].avail[x] = q1 /\ cache[h][d].avail[x] = q
        BY <1>1, <1>3, <3>1
      <4> QED
        BY <1>2, <2>2, <4>1
    <3>2. CASE ~(h = t /\ d = c /\ x = w)
      BY <1>3, <2>2, <3>2
    <3> QED
      BY <3>1, <3>2
  <2> QED
    BY <2>2, <2>3, InCachedNext
<1>6. InWay(e.blk, t, c, w, Len(q) + 1) \in CachedPart'
  <2>1. /\ Len(q) + 1 \in 1 .. Len(cache'[t][c].avail[w])
        /\ cache'[t][c].avail[w][Len(q) + 1] = e
    BY <1>2, <1>3
  <2> QED
    BY <2>1, InCachedNext DEF InWay
<1> QED
  BY <1>1, <1>4, <1>5, <1>6

LEMMA CachedPop ==
  ASSUME TypeOK, NEW t \in Home, NEW c \in Classes, NEW w \in Way, NEW n \in Nat \ {0},
         n = Len(cache[t][c].avail[w]),
         WayIs(t, c, w, SubSeq(cache[t][c].avail[w], 1, n - 1))
  PROVE  CachedPart' = CachedPart \ {InWay(cache[t][c].avail[w][n].blk, t, c, w, n)}
<1>1. PICK q \in Seq(Entries) : q = cache[t][c].avail[w]
  BY DEF TypeOK, Caches
<1> DEFINE q1 == SubSeq(q, 1, n - 1)
<1>2. Len(q1) = n - 1 /\ \A i \in 1 .. n - 1 : q1[i] = q[i]
  BY <1>1
<1> HIDE DEF q1
<1>3. \A h \in Home, d \in Classes, x \in Way :
        cache'[h][d].avail[x] = IF h = t /\ d = c /\ x = w THEN q1 ELSE cache[h][d].avail[x]
  BY SMTT(30), <1>1 DEF WayIs, q1
<1>4. ASSUME NEW o \in CachedPart' PROVE o \in CachedPart /\ o # InWay(q[n].blk, t, c, w, n)
  <2>1. PICK h \in Home, d \in Classes, x \in Way :
          \E i \in 1 .. Len(cache'[h][d].avail[x]) :
            o = <<cache'[h][d].avail[x][i].blk, <<h, d, x, i>>>>
    BY InCachedNext
  <2>2. PICK i \in 1 .. Len(cache'[h][d].avail[x]) :
            o = <<cache'[h][d].avail[x][i].blk, <<h, d, x, i>>>>
    BY <2>1
  <2>3. /\ i \in 1 .. Len(cache[h][d].avail[x])
        /\ cache'[h][d].avail[x][i] = cache[h][d].avail[x][i]
        /\ h = t /\ d = c /\ x = w => i < n
    <3>1. CASE h = t /\ d = c /\ x = w
      <4>1. cache'[h][d].avail[x] = q1 /\ cache[h][d].avail[x] = q
        BY <1>1, <1>3, <3>1
      <4> QED
        BY SMTT(30), <1>1, <1>2, <2>2, <4>1
    <3>2. CASE ~(h = t /\ d = c /\ x = w)
      BY <1>3, <2>2, <3>2
    <3> QED
      BY <3>1, <3>2
  <2>4. <<h, d, x, i>> # <<t, c, w, n>>
    BY <2>3
  <2> QED
    BY <2>2, <2>3, <2>4, InCached DEF InWay
<1>5. ASSUME NEW o \in CachedPart, o # InWay(q[n].blk, t, c, w, n) PROVE o \in CachedPart'
  <2>1. PICK h \in Home, d \in Classes, x \in Way :
          \E i \in 1 .. Len(cache[h][d].avail[x]) :
            o = <<cache[h][d].avail[x][i].blk, <<h, d, x, i>>>>
    BY InCached
  <2>2. PICK i \in 1 .. Len(cache[h][d].avail[x]) :
            o = <<cache[h][d].avail[x][i].blk, <<h, d, x, i>>>>
    BY <2>1
  <2>3. ~(h = t /\ d = c /\ x = w /\ i = n)
    BY <1>1, <1>5, <2>2 DEF InWay
  <2>4. /\ i \in 1 .. Len(cache'[h][d].avail[x])
        /\ cache'[h][d].avail[x][i] = cache[h][d].avail[x][i]
    <3>1. CASE h = t /\ d = c /\ x = w
      <4>1. cache'[h][d].avail[x] = q1 /\ cache[h][d].avail[x] = q
        BY <1>1, <1>3, <3>1
      <4> QED
        BY SMTT(30), <1>1, <1>2, <2>2, <2>3, <3>1, <4>1
    <3>2. CASE ~(h = t /\ d = c /\ x = w)
      BY <1>3, <2>2, <3>2
    <3> QED
      BY <3>1, <3>2
  <2> QED
    BY <2>2, <2>4, InCachedNext
<1> QED
  BY <1>1, <1>4, <1>5

----------------------------------------------------------------------------
(* Blocks that stay out, move, come out and go back. *)

Bounded(S) == \A o \in S : \E i \in 0 .. TheLayout.nbits - 1 : o[1] = Blk(o[1].v, i)
IsOut(S, v, i) == \E o \in S : o[1] = Blk(v, i)

LEMMA OwnedForm ==
  /\ OwnBlocks <=> Bounded(Owned) /\ Once(Owned)
  /\ OwnBlocks' <=> Bounded(Owned') /\ Once(Owned')
BY DEF OwnBlocks, Bounded, Once, Blk

LEMMA BitsForm ==
  /\ BitsExact <=> \A v \in SlabId : /\ \A i \in Ids : i \in vslab[v].bits <=> IsOut(Owned, v, i)
                                     /\ vslab[v].nbits = Cardinality(vslab[v].bits)
  /\ BitsExact' <=> \A v \in SlabId : /\ \A i \in Ids : i \in vslab'[v].bits <=> IsOut(Owned', v, i)
                                      /\ vslab'[v].nbits = Cardinality(vslab'[v].bits)
BY DEF BitsExact, IsOut, Blk

\* The same blocks are out, each in one place.
LEMMA BlocksMoved ==
  ASSUME OwnBlocks, BitsExact, \A v \in SlabId : SameBits(v),
         NEW o \in Owned, NEW n, n[1] = o[1], Owned' = (Owned \ {o}) \cup {n}
  PROVE  OwnBlocks' /\ BitsExact'
<1>1. \A x \in Owned' : \E y \in Owned : y[1] = x[1]
  OBVIOUS
<1>2. \A x \in Owned : \E y \in Owned' : y[1] = x[1]
  OBVIOUS
<1>3. Bounded(Owned) /\ Once(Owned)
  BY OwnedForm
<1>4. Bounded(Owned')
  BY <1>1, <1>3 DEF Bounded
<1>5. Once(Owned')
  BY <1>3, OnceMoved
<1>6. \A v, i : IsOut(Owned', v, i) <=> IsOut(Owned, v, i)
  BY <1>1, <1>2 DEF IsOut
<1> QED
  BY <1>4, <1>5, <1>6, OwnedForm, BitsForm DEF SameBits

LEMMA BlocksStay ==
  ASSUME OwnBlocks, BitsExact, \A v \in SlabId : SameBits(v), Owned' = Owned
  PROVE  OwnBlocks' /\ BitsExact'
<1>1. OwnBlocks'
  BY OwnedForm
<1>2. \A v, i : IsOut(Owned', v, i) <=> IsOut(Owned, v, i)
  BY DEF IsOut
<1> QED
  BY <1>1, <1>2, BitsForm DEF SameBits

LEMMA SlabFinite ==
  ASSUME TypeOK, NEW w \in SlabId
  PROVE  IsFiniteSet(vslab[w].bits)
<1>1. vslab[w].bits \subseteq 0 .. SLAB_SIZE - 1 /\ SLAB_SIZE \in Nat
  BY SlabSize DEF TypeOK, Slabs
<1>2. PICK z \in Int : z = SLAB_SIZE - 1
  BY <1>1
<1>3. IsFiniteSet(0 .. z)
  BY FS_Interval, 0 \in Int, Zenon
<1> QED
  BY <1>1, <1>2, <1>3, FS_Subset

LEMMA BlockOut ==
  ASSUME TypeOK, OwnBlocks, BitsExact, NEW v \in SlabId, NEW i \in 0 .. TheLayout.nbits - 1,
         i \notin vslab[v].bits, NEW n, n[1] = Blk(v, i), Owned' = Owned \cup {n},
         \A w \in SlabId : /\ vslab'[w].bits = IF w = v THEN vslab[v].bits \cup {i} ELSE vslab[w].bits
                           /\ vslab'[w].nbits = IF w = v THEN vslab[v].nbits + 1 ELSE vslab[w].nbits
  PROVE  OwnBlocks' /\ BitsExact'
<1>1. i \in Ids /\ i \in Int
  BY TheLayoutType, SlabSize DEF Ids, MaxId
<1>2. Bounded(Owned) /\ Once(Owned)
  BY OwnedForm
<1>3. ~IsOut(Owned, v, i)
  BY <1>1, BitsForm
<1>4. Bounded(Owned')
  <2>1. n[1].v = v
    BY <1>1, BlockPlace
  <2> QED
    BY <1>2, <2>1 DEF Bounded
<1>5. Once(Owned')
  BY <1>2, <1>3, OnceAdded DEF IsOut
<1>6. ASSUME NEW w \in SlabId, NEW j \in Ids
      PROVE  j \in vslab'[w].bits <=> IsOut(Owned', w, j)
  <2>1. IsOut(Owned', w, j) <=> IsOut(Owned, w, j) \/ n[1] = Blk(w, j)
    BY DEF IsOut
  <2>2. n[1] = Blk(w, j) <=> w = v /\ j = i
    BY <1>1, BlockNumbers DEF Ids
  <2>3. j \in vslab[w].bits <=> IsOut(Owned, w, j)
    BY BitsForm
  <2> QED
    BY <2>1, <2>2, <2>3
<1>7. ASSUME NEW w \in SlabId PROVE vslab'[w].nbits = Cardinality(vslab'[w].bits)
  <2>1. vslab[w].bits \subseteq 0 .. SLAB_SIZE - 1 /\ SLAB_SIZE \in Nat
    BY SlabSize DEF TypeOK, Slabs
  <2>2. vslab[w].nbits = Cardinality(vslab[w].bits)
    BY BitsForm
  <2>3. IsFiniteSet(vslab[w].bits)
    BY SlabFinite
  <2>4. CASE w = v
    <3>1. Cardinality(vslab[v].bits \cup {i}) = Cardinality(vslab[v].bits) + 1
      BY <2>3, <2>4, FS_AddElement
    <3> QED
      BY <2>2, <2>4, <3>1
  <2>5. CASE w # v
    BY <2>2, <2>5
  <2> QED
    BY <2>4, <2>5
<1> QED
  BY <1>4, <1>5, <1>6, <1>7, OwnedForm, BitsForm

LEMMA OneLess ==
  ASSUME NEW n \in 1 .. SLAB_SIZE
  PROVE  (n - 1) % Half = n - 1
<1>1. Half \in Nat
  BY DEF Half
<1>2. SLAB_SIZE \in 1 .. Half
  BY GeometryAssumption
<1>3. n - 1 \in 0 .. Half - 1
  BY <1>1, <1>2
<1>4. \A k \in Nat, h \in Nat : k < h => k % h = k
  OBVIOUS
<1> QED
  BY <1>1, <1>3, <1>4

LEMMA BlockBack ==
  ASSUME TypeOK, OwnBlocks, BitsExact, NEW v \in SlabId, NEW i \in 0 .. TheLayout.nbits - 1,
         NEW o \in Owned, o[1] = Blk(v, i), Owned' = Owned \ {o},
         \A w \in SlabId : /\ vslab'[w].bits = IF w = v THEN vslab[v].bits \ {i} ELSE vslab[w].bits
                           /\ vslab'[w].nbits = IF w = v THEN (vslab[v].nbits - 1) % Half
                                                         ELSE vslab[w].nbits
  PROVE  /\ OwnBlocks' /\ BitsExact'
         /\ (vslab[v].nbits - 1) % Half = vslab[v].nbits - 1
<1>1. i \in Ids /\ i \in Int
  BY TheLayoutType, SlabSize DEF Ids, MaxId
<1>2. Bounded(Owned) /\ Once(Owned)
  BY OwnedForm
<1>3. Bounded(Owned') /\ Once(Owned')
  BY <1>2 DEF Bounded, Once
<1>4. i \in vslab[v].bits
  BY <1>1, BitsForm DEF IsOut
<1>5. ASSUME NEW w \in SlabId, NEW j \in Ids
      PROVE  j \in vslab'[w].bits <=> IsOut(Owned', w, j)
  <2>1. IsOut(Owned', w, j) <=> IsOut(Owned, w, j) /\ o[1] # Blk(w, j)
    BY <1>2 DEF IsOut, Once
  <2>2. o[1] = Blk(w, j) <=> w = v /\ j = i
    BY <1>1, BlockNumbers DEF Ids
  <2>3. j \in vslab[w].bits <=> IsOut(Owned, w, j)
    BY BitsForm
  <2> QED
    BY <2>1, <2>2, <2>3
<1>6. ASSUME NEW w \in SlabId
      PROVE  /\ IsFiniteSet(vslab[w].bits) /\ vslab[w].nbits = Cardinality(vslab[w].bits)
             /\ vslab[w].nbits \in 0 .. SLAB_SIZE
  <2>1. vslab[w].bits \subseteq 0 .. SLAB_SIZE - 1 /\ SLAB_SIZE \in Nat
    BY SlabSize DEF TypeOK, Slabs
  <2>2. IsFiniteSet(0 .. SLAB_SIZE - 1) /\ Cardinality(0 .. SLAB_SIZE - 1) = SLAB_SIZE
    <3>1. PICK z \in Int : z = SLAB_SIZE - 1
      BY <2>1
    <3>2. IsFiniteSet(0 .. z) /\ Cardinality(0 .. z) = IF 0 > z THEN 0 ELSE z - 0 + 1
      BY FS_Interval, 0 \in Int, Zenon
    <3> QED
      BY <2>1, <3>1, <3>2
  <2>3. IsFiniteSet(vslab[w].bits) /\ Cardinality(vslab[w].bits) <= SLAB_SIZE
        /\ Cardinality(vslab[w].bits) \in Nat
    BY <2>1, <2>2, FS_Subset, FS_CardinalityType
  <2> QED
    BY <2>1, <2>3, BitsForm
<1>7. vslab[v].nbits # 0
  BY <1>4, <1>6, FS_EmptySet
<1>8. (vslab[v].nbits - 1) % Half = vslab[v].nbits - 1
  <2>1. PICK n \in 1 .. SLAB_SIZE : n = vslab[v].nbits
    BY <1>6, <1>7
  <2> QED
    BY <2>1, OneLess
<1>9. ASSUME NEW w \in SlabId PROVE vslab'[w].nbits = Cardinality(vslab'[w].bits)
  <2>1. CASE w = v
    <3>1. Cardinality(vslab[v].bits \ {i}) = Cardinality(vslab[v].bits) - 1
      BY <1>4, <1>6, FS_RemoveElement
    <3> QED
      BY <1>6, <1>8, <2>1, <3>1
  <2>2. CASE w # v
    BY <1>6, <2>2
  <2> QED
    BY <2>1, <2>2
<1> QED
  BY <1>3, <1>5, <1>8, <1>9, OwnedForm, BitsForm

----------------------------------------------------------------------------
(* The parts of the invariant, one thread at a time. *)

MorphSteps == {"candidate", "morph", "reclass", "reinit", "unlock", "move", "rebuild", "old",
               "oldlru", "oldbin", "release"}
SlabSteps == {"pop", "touch", "stamp", "filled", "insert"}

MorphAt(t) == /\ Where(t) \notin MorphSteps
              /\ Where(t) \in FreeSteps => loc[t].sc = TheLayout
GivingAt(t) == IF pc[t] \in {"free", "back"} THEN loc[t].blk # NoBlock /\ loc[t].blk.v = loc[t].v
                                             ELSE loc[t].blk = NoBlock
MadeAt(t) == Where(t) \in SlabSteps => vslab[loc[t].v].state # "none"
NoFlag == \A h \in Home, c \in Classes, w \in Way, i \in Position : ~cache[h][c].is_sb[w][i]

Parted == NoMorph /\ OwnBlocks /\ EntryIds /\ Giving /\ BitsExact /\ MadeFirst

LEMMA NoMorphKept ==
  ASSUME TypeOK, NoMorph, NEW t \in Threads, Alone(t), \A v \in SlabId : SameShape(v),
         NoFlag', MorphAt(t)'
  PROVE  NoMorph'
<1>1. \A v \in SlabId : /\ vslab'[v].sc = TheLayout
                        /\ vslab'[v].sc_b = NoLayout
                        /\ vslab'[v].num_b = 0
  BY DEF NoMorph, SameShape, SameLayouts
<1>2. ASSUME NEW u \in Threads PROVE MorphAt(u)'
  <2>1. CASE u # t
    BY <2>1 DEF NoMorph, MorphAt, MorphSteps, Alone
  <2> QED
    BY <2>1
<1> QED
  BY <1>1, <1>2 DEF NoMorph, NoFlag, MorphAt, MorphSteps

LEMMA GivingKept ==
  ASSUME Giving, NEW t \in Threads, Alone(t), GivingAt(t)'
  PROVE  Giving'
BY DEF Giving, GivingAt, Alone

LEMMA MadeKept ==
  ASSUME TypeOK, MadeFirst, NEW t \in Threads, Alone(t), made' = made, MadeAt(t)',
         \A v \in SlabId : /\ vslab'[v].state = "none" <=> vslab[v].state = "none"
                           /\ vslab[v].bits = {} => vslab'[v].bits = {} \/ vslab[v].state # "none"
  PROVE  MadeFirst'
<1>1. \A v \in SlabId : /\ v > made' <=> vslab'[v].state = "none"
                        /\ vslab'[v].state = "none" => vslab'[v].bits = {}
  BY DEF MadeFirst
<1>2. ASSUME NEW u \in Threads PROVE MadeAt(u)'
  <2>1. CASE u # t /\ Where(u) \in SlabSteps
    <3>1. loc[u].v \in SlabId
      BY <2>1 DEF TypeOK, Control, Where, SlabSteps
    <3>2. Where(u)' = Where(u) /\ loc'[u] = loc[u]
      BY <2>1 DEF Alone
    <3> QED
      BY <2>1, <3>1, <3>2 DEF MadeFirst, MadeAt, SlabSteps
  <2>2. CASE u # t /\ Where(u) \notin SlabSteps
    BY <2>2 DEF Alone, MadeAt
  <2> QED
    BY <2>1, <2>2
<1> QED
  BY <1>1, <1>2 DEF MadeFirst, MadeAt, SlabSteps

\* A step that leaves the blocks where they are.
LEMMA BlocksKept ==
  ASSUME TypeOK, Parted, NEW t \in Threads, Alone(t), UNCHANGED <<cache, held, made>>,
         \A v \in SlabId : SameShape(v) /\ SameBits(v) /\ SameState(v),
         loc'[t].blk = loc[t].blk, MorphAt(t)', GivingAt(t)', MadeAt(t)'
  PROVE  Parted'
<1> USE DEF Parted
<1>1. NoMorph'
  BY NoMorphKept DEF NoMorph, NoFlag
<1>2. Giving'
  BY GivingKept
<1>3. MadeFirst'
  BY MadeKept DEF SameBits, SameState
<1>4. EntryIds'
  BY DEF EntryIds
<1>5. Owned' = Owned
  <2>1. HeldPart' = HeldPart /\ GivenPart' = GivenPart /\ CachedPart' = CachedPart
    BY HeldChange, GivenChange DEF CachedPart
  <2> QED
    BY <2>1, Parts
<1> QED
  BY <1>1, <1>2, <1>3, <1>4, <1>5, BlocksStay

----------------------------------------------------------------------------
(* The steps that leave the blocks where they are. *)

LEMMA OneClass ==
  ASSUME SingleClass, NEW c \in Classes
  PROVE  c = TheClass /\ c + 1 \notin Classes
<1>1. c = TheClass
  BY TheLayoutType DEF SingleClass
<1>2. c \in Nat
  BY GeometryAssumption
<1> QED
  BY <1>1, <1>2 DEF SingleClass

LEMMA SlabsStay ==
  ASSUME UNCHANGED vslab
  PROVE  \A v \in SlabId : SameShape(v) /\ SameBits(v) /\ SameState(v) /\ SameMeta(v)
BY DEF SameShape, SameLayouts, SameBits, SameState, SameMeta

\* The thread t goes on with its block as it was, in no step of a morph, of a
\* free, or with a slab.
LEMMA FreeOfSlab ==
  ASSUME Parted, NEW t \in Threads, pc[t] \notin {"free", "back"}, pc'[t] \notin {"free", "back"},
         loc'[t].blk = loc[t].blk, Where(t)' \notin MorphSteps \cup FreeSteps
  PROVE  /\ MorphAt(t)' /\ GivingAt(t)'
         /\ Where(t)' \notin SlabSteps => MadeAt(t)'
BY DEF Parted, Giving, MorphAt, GivingAt, MadeAt

LEMMA QuietFill ==
  ASSUME TypeOK, Parted, Running', NEW t \in Home,
         \/ \E c \in Classes : MallocCall(t, c)
         \/ FillLock(t) \/ FillVisit(t) \/ FillNext(t) \/ Filled(t) \/ Touch(t) \/ Stamp(t)
  PROVE  Parted'
<1> USE DEF Flow, Same, SameClass, MorphSteps, SlabSteps, FreeSteps
<1>0. t \in Threads
  BY DEF Threads
<1>1. ASSUME NEW c \in Classes, MallocCall(t, c) PROVE Parted'
  <2>1. UNCHANGED <<vslab, made, cache, held>>
    BY <1>1 DEF MallocCall
  <2>2. Flow(t, "idle", "malloc") /\ loc'[t].blk = loc[t].blk
    BY <1>1, MallocCallFlow
  <2> QED
    BY <1>0, <2>1, <2>2, SlabsStay, FreeOfSlab, BlocksKept
<1>2. CASE FillLock(t)
  <2>1. UNCHANGED <<vslab, made, cache, held>>
    BY <1>2 DEF FillLock
  <2>2. (Flow(t, "malloc", "getone") \/ Flow(t, "malloc", "visit")) /\ SameClass(t)
    BY <1>2, FillLockFlow
  <2> QED
    BY <1>0, <2>1, <2>2, SlabsStay, FreeOfSlab, BlocksKept
<1>3. CASE FillVisit(t)
  <2>1. UNCHANGED <<vslab, made, cache, held>>
    BY Zenon, <1>3 DEF FillVisit
  <2>2. Flow(t, "visit", "pop") /\ Same(t)
    BY <1>3, FillVisitFlow
  <2>3. vslab[loc[t].v].state = "live"
    BY <1>3 DEF FillVisit, Ensure, Running, At
  <2>4. MadeAt(t)'
    BY <2>1, <2>2, <2>3 DEF MadeAt
  <2> QED
    BY <1>0, <2>1, <2>2, <2>4, SlabsStay, FreeOfSlab, BlocksKept
<1>4. CASE FillNext(t)
  <2>1. UNCHANGED <<vslab, made, cache, held>>
    BY <1>4 DEF FillNext
  <2>2. (Flow(t, "pop", "getone") \/ Flow(t, "pop", "visit")) /\ SameClass(t)
    BY <1>4, FillNextFlow
  <2> QED
    BY <1>0, <2>1, <2>2, SlabsStay, FreeOfSlab, BlocksKept
<1>5. CASE Filled(t)
  <2>1. UNCHANGED <<vslab, made, cache, held>>
    BY <1>5 DEF Filled
  <2>2. Flow(t, "filled", "malloc") /\ loc'[t].blk = NoBlock
    BY <1>5, FilledFlow
  <2>3. loc[t].blk = NoBlock
    BY <1>0, <2>2 DEF Parted, Giving
  <2> QED
    BY <1>0, <2>1, <2>2, <2>3, SlabsStay, FreeOfSlab, BlocksKept
<1>6. CASE Touch(t)
  <2>1. UNCHANGED <<vslab, made, cache, held>>
    BY <1>6 DEF Touch
  <2>2. Flow(t, "touch", "stamp") /\ Same(t)
    BY <1>6, TouchFlow
  <2>3. MadeAt(t)'
    BY <1>0, <2>1, <2>2 DEF MadeAt, Parted, MadeFirst
  <2> QED
    BY <1>0, <2>1, <2>2, <2>3, SlabsStay, FreeOfSlab, BlocksKept
<1>7. CASE Stamp(t)
  <2>1. UNCHANGED <<made, cache, held>>
    BY <1>7 DEF Stamp
  <2>2. Flow(t, "stamp", "pop") /\ Same(t)
    BY <1>7, StampFlow
  <2>3. PICK v \in SlabId : v = loc[t].v
    BY <1>0, <2>2, Placed
  <2>4. StampTo(v, timestamp)
    BY <1>7, <2>3 DEF Stamp, StampTo
  <2>5. \A w \in SlabId : SameShape(w) /\ SameBits(w) /\ SameState(w)
    BY <2>4, StampSet
  <2>6. MadeAt(t)'
    BY <1>0, <2>2, <2>3, <2>5 DEF MadeAt, Parted, MadeFirst, SameState
  <2> QED
    BY <1>0, <2>1, <2>2, <2>5, <2>6, FreeOfSlab, BlocksKept
<1> QED
  BY <1>1, <1>2, <1>3, <1>4, <1>5, <1>6, <1>7

LEMMA QuietGet ==
  ASSUME TypeOK, SingleClass, Parted, NEW t \in Home, slab_get_one(t), ~Create(t)
  PROVE  Parted'
<1> USE DEF Flow, Same, SameClass, MorphSteps, SlabSteps, FreeSteps
<1>0. t \in Threads
  BY DEF Threads
<1>1. CASE GetOne(t)
  <2>1. UNCHANGED <<vslab, made, cache, held>>
    BY <1>1 DEF GetOne
  <2>2. (Flow(t, "getone", "search") \/ Flow(t, "getone", "create")) /\ Same(t)
    BY <1>1, GetOneFlow
  <2> QED
    BY <1>0, <2>1, <2>2, SlabsStay, FreeOfSlab, BlocksKept
<1>2. CASE Search(t)
  <2>1. UNCHANGED <<vslab, made, cache, held>>
    BY <1>2 DEF Search
  <2>2. Flow(t, "search", "scan") /\ SameClass(t)
    BY <1>2, SearchFlow
  <2> QED
    BY <1>0, <2>1, <2>2, SlabsStay, FreeOfSlab, BlocksKept
<1>3. CASE SearchSkip(t)
  <2>1. UNCHANGED <<vslab, made, cache, held>>
    BY <1>3 DEF SearchSkip
  <2>2. Flow(t, "scan", "scan") /\ SameClass(t)
    BY <1>3, SearchSkipFlow
  <2> QED
    BY <1>0, <2>1, <2>2, SlabsStay, FreeOfSlab, BlocksKept
<1>4. CASE SearchFound(t)
  <2>1. /\ loc[t].v # Null /\ vslab[loc[t].v].sc.c # loc[t].c
        /\ pc[t] = "scan"
    BY <1>4 DEF SearchFound, Candidate, At
  <2>2. loc[t].v \in SlabId /\ loc[t].c \in Classes
    BY <1>0, <2>1, Placed DEF FillSteps, Locals
  <2>3. vslab[loc[t].v].sc = TheLayout
    BY <2>2 DEF Parted, NoMorph
  <2> QED
    BY <2>1, <2>2, <2>3, OneClass, TheLayoutType
<1>5. CASE SearchFails(t)
  <2>1. UNCHANGED <<vslab, made, cache, held>>
    BY <1>5 DEF SearchFails
  <2>2. Flow(t, "scan", "create") /\ Same(t)
    BY <1>5, SearchFailsFlow
  <2> QED
    BY <1>0, <2>1, <2>2, SlabsStay, FreeOfSlab, BlocksKept
<1>6. CASE Insert(t)
  <2>1. UNCHANGED <<vslab, made, cache, held>>
    BY <1>6 DEF Insert
  <2>2. Flow(t, "insert", "visit") /\ Same(t)
    BY <1>6, InsertFlow
  <2> QED
    BY <1>0, <2>1, <2>2, SlabsStay, FreeOfSlab, BlocksKept
<1> QED
  BY <1>1, <1>2, <1>3, <1>4, <1>5, <1>6 DEF slab_get_one

LEMMA NeverMorphs ==
  ASSUME TypeOK, Parted, NEW t \in Threads
  PROVE  /\ ~slab_morphing(t)
         /\ ~FreeIsOld(t) /\ ~FreeOld(t) /\ ~FreeOldStops(t) /\ ~OldLRU(t) /\ ~Release(t)
         /\ LeaveBin(t) => pc[t] = "backbin"
<1>1. pc[t] \notin MorphSteps
  BY DEF Parted, NoMorph, Where, Going, MorphSteps
<1>2. ~FreeIsOld(t)
  <2> SUFFICES ASSUME FreeIsOld(t) PROVE FALSE
    OBVIOUS
  <2>1. loc[t].v \in SlabId
    BY Placed DEF FreeIsOld, At, FreeSteps
  <2> QED
    BY <2>1 DEF Parted, NoMorph, FreeIsOld, IsOld
<1> QED
  BY Zenon, <1>1, <1>2 DEF MorphSteps, slab_morphing, MorphLock, MorphRefused, MorphIsEmpty, MorphBegin,
     MorphEmpty, MorphReinit, MorphUnlock, MorphMove, MorphEnd, FreeOld, FreeOldStops, OldLRU, Release, LeaveBin, At

LEMMA QuietFree ==
  ASSUME TypeOK, Parted, Running', NEW t \in Threads,
         LeaveBin(t) \/ BackCheck(t) \/ BackLRU(t) \/ Dalloc(t) \/ Recount(t)
  PROVE  Parted'
<1> USE DEF Flow, Same, SameClass, MorphSteps, SlabSteps, FreeSteps
<1>1. CASE LeaveBin(t)
  <2>1. UNCHANGED <<vslab, made, cache, held>>
    BY Zenon, <1>1 DEF LeaveBin
  <2>2. Flow(t, "backbin", "backcheck") /\ Same(t)
    BY <1>1, LeaveBinFlow, NeverMorphs
  <2>3. MorphAt(t)' /\ GivingAt(t)' /\ MadeAt(t)'
    BY <2>2 DEF MorphAt, GivingAt, MadeAt, Parted, NoMorph, Giving
  <2> QED
    BY <2>1, <2>2, <2>3, SlabsStay, BlocksKept
<1>2. CASE BackCheck(t)
  <2>1. UNCHANGED <<vslab, made, cache, held>>
    BY <1>2 DEF BackCheck
  <2>2. \/ Flow(t, "backcheck", "backlru") /\ Same(t)
        \/ Flow(t, "backcheck", "idle") /\ loc'[t] = NoLocals
    BY <1>2, BackCheckFlow
  <2>3. loc[t].blk = NoBlock /\ loc'[t].blk = NoBlock
    BY <2>2 DEF Parted, Giving, NoLocals
  <2>4. MorphAt(t)' /\ GivingAt(t)' /\ MadeAt(t)'
    BY <2>2, <2>3 DEF MorphAt, GivingAt, MadeAt, Parted, NoMorph
  <2> QED
    BY <2>1, <2>2, <2>3, <2>4, SlabsStay, BlocksKept
<1>3. CASE BackLRU(t)
  <2>1. UNCHANGED <<vslab, made, cache, held>>
    BY Zenon, <1>3 DEF BackLRU
  <2>2. /\ Alone(t) /\ Same(t)
        /\ pc[t] = "backlru" /\ Where(t) = "backlru" /\ pc'[t] = "recount" /\ Where(t)' = "dalloc"
    BY <1>3, BackLRUFlow
  <2>3. MorphAt(t)' /\ GivingAt(t)' /\ MadeAt(t)'
    BY <2>2 DEF MorphAt, GivingAt, MadeAt, Parted, NoMorph, Giving
  <2> QED
    BY <2>1, <2>2, <2>3, SlabsStay, BlocksKept
<1>4. CASE Dalloc(t)
  <2>1. UNCHANGED <<made, cache, held>> /\ vslab[loc[t].v].state = "live"
    BY <1>4 DEF Dalloc, Ensure, Running, At
  <2>2. Flow(t, "dalloc", "idle") /\ loc'[t] = NoLocals
    BY <1>4, DallocFlow
  <2>3. PICK v \in SlabId : v = loc[t].v
    BY <2>2, Placed
  <2>40. ~Release(t)
    BY NeverMorphs
  <2>4. PICK F : StateTo(v, "gone", F)
    BY <1>4, <2>3, <2>40, ReleaseSets
  <2>5. /\ \A w \in SlabId : SameShape(w) /\ SameBits(w)
        /\ \A w \in SlabId : vslab'[w].state = IF w = v THEN "gone" ELSE vslab[w].state
    BY <2>4, StateSet
  <2>6. loc[t].blk = NoBlock /\ loc'[t].blk = NoBlock
    BY <2>2 DEF Parted, Giving, NoLocals
  <2>7. MorphAt(t)' /\ GivingAt(t)' /\ MadeAt(t)'
    BY <2>2, <2>6 DEF MorphAt, GivingAt, MadeAt
  <2>8. Owned' = Owned
    <3>1. HeldPart' = HeldPart /\ GivenPart' = GivenPart /\ CachedPart' = CachedPart
      BY <2>1, <2>2, <2>6, HeldChange, GivenChange DEF CachedPart
    <3> QED
      BY <3>1, Parts
  <2>9. OwnBlocks' /\ BitsExact'
    BY <2>5, <2>8, BlocksStay DEF Parted
  <2>10. NoMorph' /\ Giving' /\ EntryIds'
    BY <2>1, <2>2, <2>5, <2>7, NoMorphKept, GivingKept DEF Parted, NoMorph, NoFlag, EntryIds
  <2>11. MadeFirst'
    BY <2>1, <2>2, <2>3, <2>5, <2>7, MadeKept DEF Parted, SameBits
  <2> QED
    BY <2>9, <2>10, <2>11 DEF Parted
<1>5. CASE Recount(t)
  <2>1. UNCHANGED <<vslab, made, cache, held>>
    BY <1>5 DEF Recount
  <2>2. /\ Alone(t) /\ pc[t] = "recount"
        /\ pc'[t] = Where(t) /\ Where(t)' = Where(t)
        /\ Where(t) \in {"pop", "touch", "filled", "insert", "rebuild", "idle", "backbin", "dalloc"}
        /\ Where(t) # "idle" => Same(t)
        /\ Where(t) = "idle" => loc'[t] = NoLocals
    BY <1>5, RecountFlow
  <2>3. loc[t].blk = NoBlock /\ loc'[t].blk = NoBlock
    BY <2>2 DEF Parted, Giving, NoLocals
  <2>4. MorphAt(t)' /\ GivingAt(t)'
    BY <2>2, <2>3 DEF MorphAt, GivingAt, Parted, NoMorph
  <2>5. MadeAt(t)'
    BY <2>1, <2>2 DEF MadeAt, Parted, MadeFirst
  <2> QED
    BY <2>1, <2>2, <2>3, <2>4, <2>5, SlabsStay, BlocksKept
<1> QED
  BY <1>1, <1>2, <1>3, <1>4, <1>5

----------------------------------------------------------------------------
(* A block leaves a cache. *)

\* No flag of the cache ch is set.
Unflagged(ch) == \A w \in Way, i \in Position : ~ch.is_sb[w][i]

LEMMA FlagsSet ==
  ASSUME TypeOK, NoFlag, NEW t \in Home, NEW c \in Classes, NEW ch,
         cache' = [cache EXCEPT ![t][c] = ch], Unflagged(ch)
  PROVE  NoFlag'
<1>1. \A h \in Home, d \in Classes : cache'[h][d] = IF h = t /\ d = c THEN ch ELSE cache[h][d]
  BY DEF TypeOK
<1> QED
  BY <1>1 DEF NoFlag, Unflagged

LEMMA EntriesSet ==
  ASSUME EntryIds, NEW t \in Home, NEW c \in Classes, NEW w \in Way, NEW q, WayIs(t, c, w, q),
         \A i \in 1 .. Len(q) : q[i].blk = Blk(q[i].blk.v, q[i].id)
  PROVE  EntryIds'
<1> SUFFICES ASSUME NEW h \in Home, NEW d \in Classes, NEW x \in Way,
                    NEW i \in 1 .. Len(cache'[h][d].avail[x])
             PROVE  cache'[h][d].avail[x][i].blk
                      = BlockAt(cache'[h][d].avail[x][i].blk.v, TheLayout, cache'[h][d].avail[x][i].id)
  BY DEF EntryIds
<1>1. CASE h = t /\ d = c /\ x = w
  <2>1. cache'[h][d].avail[x] = q
    BY <1>1 DEF WayIs
  <2> QED
    BY <2>1 DEF Blk
<1>2. CASE ~(h = t /\ d = c /\ x = w)
  <2>1. cache'[h][d].avail[x] = cache[h][d].avail[x]
    BY <1>2 DEF WayIs
  <2> QED
    BY <2>1 DEF EntryIds
<1> QED
  BY <1>1, <1>2

\* With no flag set the top entry of the way is the one that is taken.
LEMMA TopTaken ==
  ASSUME TypeOK, Ways, NoFlag, SingleClass, NEW t \in Home, NEW c \in Classes, NEW w \in Way
  PROVE  Undropped(t, c, w) = Len(cache[t][c].avail[w])
<1>1. PICK n \in Nat : n = Len(cache[t][c].avail[w])
  BY DEF TypeOK, Caches
<1>2. n <= NUM_MAX_CACHE
  BY <1>1 DEF Ways, Exact
<1>3. ASSUME NEW i \in 0 .. n PROVE ~Flag(t, c, w, i)
  <2>1. CASE i < NUM_MAX_CACHE
    <3>1. i \in Position
      BY <2>1, PolicyAssumption DEF Position
    <3> QED
      BY <2>1, <3>1 DEF Flag, NoFlag
  <2>2. CASE i = NUM_MAX_CACHE
    <3>1. 0 \in Position
      BY PolicyAssumption DEF Position
    <3>2. w + 1 < NBANKS => w + 1 \in Way
      BY PolicyAssumption DEF Way
    <3>3. ~(i < NUM_MAX_CACHE)
      BY <2>2, PolicyAssumption
    <3> QED
      BY <3>1, <3>2, <3>3, OneClass DEF Flag, NoFlag
  <2>3. i < NUM_MAX_CACHE \/ i = NUM_MAX_CACHE
    BY <1>2, PolicyAssumption
  <2> QED
    BY <2>1, <2>2, <2>3
<1>4. Undropped(t, c, w) = CHOOSE i \in 0 .. n : \A j \in 0 .. n : j <= i
  <2>1. PICK kept : kept = {i \in 0 .. n : ~Flag(t, c, w, i)}
    OBVIOUS
  <2>2. kept = 0 .. n /\ kept # {}
    BY <1>3, <2>1
  <2>3. Undropped(t, c, w) = IF kept = {} THEN -1 ELSE CHOOSE i \in kept : \A j \in kept : j <= i
    BY <1>1, <2>1 DEF Undropped
  <2> QED
    BY <2>2, <2>3
<1>5. \E i \in 0 .. n : \A j \in 0 .. n : j <= i
  OBVIOUS
<1>6. PICK k : k = CHOOSE i \in 0 .. n : \A j \in 0 .. n : j <= i
  OBVIOUS
<1>7. k \in 0 .. n /\ \A j \in 0 .. n : j <= k
  BY Zenon, <1>5, <1>6
<1>8. k = n
  BY <1>7
<1> QED
  BY <1>1, <1>4, <1>6, <1>8

LEMMA MallocTakeParts ==
  ASSUME TypeOK, Ways, SingleClass, Parted, NEW t \in Home, MallocTake(t)
  PROVE  Parted'
<1>0. t \in Threads /\ pc[t] = "malloc"
  BY Zenon DEF Threads, MallocTake, At
<1>1. PICK c \in Classes, ch \in Caches, w \in Way, n \in Int :
        /\ c = loc[t].c /\ ch = cache[t][c] /\ w = NextWay(ch) /\ n = Undropped(t, c, w)
        /\ w \in ch.bm
        /\ n = -1 \/ n \in 1 .. Len(ch.avail[w])
  BY MallocTakeFinds
<1>2. NoFlag
  BY DEF Parted, NoMorph, NoFlag
<1>3. n = Len(ch.avail[w]) /\ n \in Nat \ {0} /\ n # -1
  <2>1. n = Len(ch.avail[w])
    BY <1>1, <1>2, TopTaken
  <2>2. Len(ch.avail[w]) \in Nat
    BY DEF Caches
  <2> QED
    BY <1>1, <2>1, <2>2
<1>4. PICK e \in Entries : e = ch.avail[w][n]
  <2>1. ch.avail[w] \in Seq(Entries) /\ n \in 1 .. Len(ch.avail[w])
    BY <1>1, <1>3 DEF Caches
  <2> QED
    BY <2>1, ElementOfSeq
<1>5. PICK q \in Seq(Entries) : q = SubSeq(ch.avail[w], 1, n - 1)
  <2>1. ch.avail[w] \in Seq(Entries) /\ n \in 1 .. Len(ch.avail[w])
    BY <1>1, <1>3 DEF Caches
  <2>2. SubSeq(ch.avail[w], 1, n - 1) \in Seq(Entries)
    BY <2>1, SubSeqProperties
  <2> QED
    BY <2>2
<1>6. PICK b : b = IF n = 1 THEN cache_bitmap_flip(ch.bm, w) ELSE ch.bm
  OBVIOUS
<1>7. PICK a : a = [ch.avail EXCEPT ![w] = q]
  BY Zenon
<1>8. PICK k : k = [ch EXCEPT !.avail = a, !.bm = b, !.now = w]
  BY SMTT(30)
<1>9. /\ cache' = [cache EXCEPT ![t][c] = k]
      /\ held' = held \cup {e.blk}
      /\ Done(t) /\ UNCHANGED made
  <2>1. cache' = [cache EXCEPT ![t][c] =
                    [ch EXCEPT !.avail[w] = SubSeq(@, 1, n - 1),
                               !.bm = IF n = 1 THEN cache_bitmap_flip(@, w) ELSE @, !.now = w]]
    BY <1>1, <1>3 DEF MallocTake
  <2>2. k = [ch EXCEPT !.avail[w] = SubSeq(@, 1, n - 1),
                       !.bm = IF n = 1 THEN cache_bitmap_flip(@, w) ELSE @, !.now = w]
    BY <1>5, <1>6, <1>7, <1>8 DEF Caches
  <2> QED
    BY ZenonT(60), <1>1, <1>3, <1>4, <2>1, <2>2 DEF MallocTake
<1>10. k.avail = a /\ k.is_sb = ch.is_sb
  BY <1>8 DEF Caches
<1>11. WayIs(t, c, w, q)
  BY Zenon, <1>1, <1>7, <1>9, <1>10, WayChange
<1>12. CachedPart' = CachedPart \ {InWay(e.blk, t, c, w, n)}
  <2>1. /\ n \in Nat \ {0} /\ n = Len(cache[t][c].avail[w])
        /\ WayIs(t, c, w, SubSeq(cache[t][c].avail[w], 1, n - 1))
        /\ e = cache[t][c].avail[w][n]
    BY Zenon, <1>1, <1>3, <1>4, <1>5, <1>11
  <2> QED
    BY <2>1, CachedPop
<1>13. HeldPart' = HeldPart \cup {InHand(e.blk)}
  BY <1>9, HeldChange
<1>14. Alone(t) /\ pc'[t] = "idle" /\ Where(t)' = "idle" /\ loc'[t] = NoLocals
  BY <1>0, <1>9, DoneFlow
<1>15. loc[t].blk = NoBlock /\ loc'[t].blk = NoBlock
  BY <1>0, <1>14 DEF Parted, Giving, NoLocals
<1>16. GivenPart' = GivenPart
  BY SMTT(30), <1>0, <1>14, <1>15, GivenChange
<1>17. InWay(e.blk, t, c, w, n) \in CachedPart
  BY <1>1, <1>3, <1>4, PartsApart
<1>18. Owned' = (Owned \ {InWay(e.blk, t, c, w, n)}) \cup {InHand(e.blk)}
  BY <1>12, <1>13, <1>16, <1>17, Parts, PartsApart
<1>19. \A x \in SlabId : SameShape(x) /\ SameBits(x) /\ SameState(x)
  BY MallocTakeSlabs
<1>20. OwnBlocks' /\ BitsExact'
  <2>1. InWay(e.blk, t, c, w, n) \in Owned
    BY <1>17, Parts
  <2>2. InHand(e.blk)[1] = InWay(e.blk, t, c, w, n)[1]
    BY DEF InHand, InWay
  <2> QED
    BY <1>18, <1>19, <2>1, <2>2, BlocksMoved DEF Parted
<1>21. EntryIds'
  <2>1. \A i \in 1 .. Len(q) : q[i].blk = Blk(q[i].blk.v, q[i].id)
    <3>1. PICK s \in Seq(Entries) : s = ch.avail[w]
      BY DEF Caches
    <3>2. Len(q) = n - 1 /\ \A i \in 1 .. n - 1 : q[i] = s[i]
      BY <1>3, <1>5, <3>1
    <3>3. \A i \in 1 .. n : s[i].blk = BlockAt(s[i].blk.v, TheLayout, s[i].id)
      <4>1. s = cache[t][c].avail[w] /\ n = Len(cache[t][c].avail[w])
        BY SMTT(30), <1>1, <1>3, <3>1
      <4>2. \A i \in 1 .. Len(cache[t][c].avail[w]) :
              cache[t][c].avail[w][i].blk =
                BlockAt(cache[t][c].avail[w][i].blk.v, TheLayout, cache[t][c].avail[w][i].id)
        BY ZenonT(60), <1>1 DEF Parted, EntryIds
      <4> QED
        BY <4>1, <4>2
    <3> QED
      BY <1>3, <3>2, <3>3 DEF Blk
  <2> QED
    BY <1>11, <2>1, EntriesSet DEF Parted
<1>22. NoMorph'
  <2>1. NoFlag'
    BY ZenonT(60), <1>1, <1>2, <1>9, <1>10, FlagsSet DEF Unflagged, NoFlag
  <2> QED
    BY <1>0, <1>14, <1>19, <2>1, NoMorphKept DEF Parted, MorphAt, MorphSteps, FreeSteps
<1>23. Giving' /\ MadeFirst'
  BY <1>0, <1>9, <1>14, <1>15, <1>19, GivingKept, MadeKept
     DEF Parted, GivingAt, MadeAt, SlabSteps, SameBits, SameState
<1> QED
  BY <1>20, <1>21, <1>22, <1>23 DEF Parted

----------------------------------------------------------------------------
(* A block goes to a cache. *)

LEMMA PushFlags ==
  ASSUME NEW ch \in Caches, NEW w \in Way, NEW e, Unflagged(ch)
  PROVE  Unflagged(Push(ch, w, e))
<1>1. PICK n : n = Len(ch.avail[w])
  OBVIOUS
<1>2. PICK a, f, b : /\ a = [ch.avail EXCEPT ![w] = Append(@, e)]
                     /\ f = [ch.is_sb EXCEPT ![w][n] = FALSE]
                     /\ b = IF ch.avail[w] = <<>> THEN cache_bitmap_flip(ch.bm, w) ELSE ch.bm
  OBVIOUS
<1>3. Push(ch, w, e) = [ch EXCEPT !.avail = a, !.is_sb = f, !.bm = b]
  BY <1>1, <1>2 DEF Push, Caches
<1>4. [ch EXCEPT !.avail = a, !.is_sb = f, !.bm = b].is_sb = f
  BY DEF Caches
<1>5. \A x \in Way, i \in Position : ~f[x][i]
  <2>1. PICK g \in [Way -> [Position -> BOOLEAN]] : g = ch.is_sb
    BY DEF Caches
  <2>2. \A x \in Way : f[x] = IF x = w THEN [g[w] EXCEPT ![n] = FALSE] ELSE g[x]
    BY <1>2, <2>1
  <2>3. \A i \in Position : [g[w] EXCEPT ![n] = FALSE][i] = IF i = n THEN FALSE ELSE g[w][i]
    BY <2>1
  <2> QED
    BY <2>1, <2>2, <2>3 DEF Unflagged
<1> QED
  BY <1>3, <1>4, <1>5 DEF Unflagged

\* An entry is put on top of a way of the thread t.
LEMMA Pushed ==
  ASSUME TypeOK, EntryIds, NoFlag, NEW t \in Home, NEW c \in Classes, NEW w \in Way,
         NEW e \in Entries, e.blk = Blk(e.blk.v, e.id),
         cache' = [cache EXCEPT ![t][c] = Push(@, w, e)]
  PROVE  /\ NoFlag' /\ EntryIds'
         /\ CachedPart' = CachedPart \cup {InWay(e.blk, t, c, w, Len(cache[t][c].avail[w]) + 1)}
<1>1. PICK ch \in Caches : ch = cache[t][c]
  BY DEF TypeOK
<1>2. PICK q \in Seq(Entries) : q = ch.avail[w]
  BY DEF Caches
<1>3. PICK k \in Caches : k = Push(ch, w, e)
  BY PushType
<1>4. cache' = [cache EXCEPT ![t][c] = k]
  BY <1>1, <1>3 DEF TypeOK
<1>5. k.avail = [ch.avail EXCEPT ![w] = Append(q, e)]
  <2>1. PICK a \in [Way -> Seq(Entries)] : a = ch.avail
    BY DEF Caches
  <2>2. Push(ch, w, e).avail = [a EXCEPT ![w] = Append(a[w], e)]
    BY <2>1, PushType
  <2> QED
    BY <1>2, <1>3, <2>1, <2>2
<1>6. Unflagged(k)
  <2>1. Unflagged(ch)
    BY <1>1 DEF NoFlag, Unflagged
  <2> QED
    BY <1>3, <2>1, PushFlags
<1>7. NoFlag'
  BY <1>4, <1>6, FlagsSet
<1>8. WayIs(t, c, w, Append(q, e))
  BY <1>1, <1>4, <1>5, WayChange
<1>9. \A i \in 1 .. Len(Append(q, e)) : Append(q, e)[i].blk = Blk(Append(q, e)[i].blk.v, Append(q, e)[i].id)
  <2>1. PICK p : p = Append(q, e)
    OBVIOUS
  <2>2. /\ Len(p) = Len(q) + 1 /\ Len(q) \in Nat
        /\ p[Len(q) + 1] = e
        /\ \A i \in 1 .. Len(q) : p[i] = q[i]
    BY <2>1
  <2>3. \A i \in 1 .. Len(q) : q[i].blk = Blk(q[i].blk.v, q[i].id)
    BY <1>1, <1>2 DEF EntryIds, Blk
  <2>4. ASSUME NEW i \in 1 .. Len(p) PROVE p[i].blk = Blk(p[i].blk.v, p[i].id)
    <3>1. i \in 1 .. Len(q) \/ i = Len(q) + 1
      BY <2>2
    <3> QED
      BY <2>2, <2>3, <3>1
  <2> QED
    BY <2>1, <2>4
<1>10. EntryIds'
  BY <1>8, <1>9, EntriesSet
<1>11. CachedPart' = CachedPart \cup {InWay(e.blk, t, c, w, Len(cache[t][c].avail[w]) + 1)}
  BY <1>1, <1>2, <1>8, CachedPush
<1> QED
  BY <1>7, <1>10, <1>11

LEMMA FillPopParts ==
  ASSUME TypeOK, Parted, Running', NEW t \in Home, FillPop(t)
  PROVE  Parted'
<1>0. t \in Threads
  BY DEF Threads
<1>1. PICK c \in Classes, v \in SlabId, s \in Slabs, i \in 0 .. SLAB_SIZE - 1, w \in Way :
           /\ c = loc[t].c /\ v = loc[t].v /\ s = vslab[v] /\ i = FirstFree(s)
           /\ w = i % NBANKS
           /\ i < s.sc.nbits /\ i \notin s.bits /\ s.nbits < s.sc.nbits
           /\ [blk |-> BlockAt(v, s.sc, i), id |-> i, dmeta |-> s.dmeta] \in Entries
  BY FillPopTakes
<1>2. s.sc = TheLayout
  BY <1>1 DEF Parted, NoMorph
<1>3. PICK e \in Entries : e = [blk |-> Blk(v, i), id |-> i, dmeta |-> s.dmeta]
  BY SMTT(30), <1>1, <1>2 DEF Blk
<1>4. /\ cache' = [cache EXCEPT ![t][c] = Push(@, w, e)]
      /\ UNCHANGED <<made, held>>
  <2>1. cache' = [cache EXCEPT ![t][c] = Push(cache[t][c], w, e)]
    BY Zenon, <1>1, <1>2, <1>3 DEF FillPop, Blk
  <2> QED
    BY <1>1, <2>1 DEF FillPop, TypeOK
<1>5. /\ \A x \in SlabId : SameShape(x) /\ SameState(x) /\ SameMeta(x)
      /\ \A x \in SlabId : /\ vslab'[x].bits = IF x = v THEN s.bits \cup {i} ELSE vslab[x].bits
                           /\ vslab'[x].nbits = IF x = v THEN s.nbits + 1 ELSE vslab[x].nbits
  <2>1. PICK b, n : b = s.bits \cup {i} /\ n = s.nbits + 1
    OBVIOUS
  <2>2. BitsTo(v, b, n)
    BY <1>1, <2>1, FillPopSets
  <2> QED
    BY <1>1, <2>1, <2>2, BitsSet
<1>6. /\ Alone(t) /\ Same(t) /\ pc[t] = "pop" /\ Where(t) = "pop"
      /\ pc'[t] = "recount" \/ pc'[t] = Where(t)'
      /\ Where(t)' \in {"filled", "touch", "pop"}
  BY FillPopFlow
<1>7. loc[t].blk = NoBlock /\ loc'[t].blk = NoBlock /\ loc'[t].v = v
  BY <1>0, <1>1, <1>6 DEF Parted, Giving, Same, SameClass
<1>8. NoFlag' /\ EntryIds'
      /\ CachedPart' = CachedPart \cup {InWay(e.blk, t, c, w, Len(cache[t][c].avail[w]) + 1)}
  <2>1. e.blk = Blk(e.blk.v, e.id)
    BY <1>3, BlockPlace
  <2>2. NoFlag /\ EntryIds
    BY DEF Parted, NoMorph, NoFlag
  <2> QED
    BY <1>4, <2>1, <2>2, Pushed
<1>9. Owned' = Owned \cup {InWay(e.blk, t, c, w, Len(cache[t][c].avail[w]) + 1)}
  <2>1. HeldPart' = HeldPart /\ GivenPart' = GivenPart
    BY <1>0, <1>4, <1>6, <1>7, HeldChange, GivenChange
  <2> QED
    BY <1>8, <2>1, Parts
<1>10. OwnBlocks' /\ BitsExact'
  <2>1. i \in 0 .. TheLayout.nbits - 1 /\ i \notin vslab[v].bits
    BY <1>1, <1>2, TheLayoutType, SlabSize
  <2>2. PICK n : n = InWay(e.blk, t, c, w, Len(cache[t][c].avail[w]) + 1)
    OBVIOUS
  <2>3. n[1] = Blk(v, i)
    BY <1>3, <2>2 DEF InWay
  <2>4. \A x \in SlabId : /\ vslab'[x].bits = IF x = v THEN vslab[v].bits \cup {i} ELSE vslab[x].bits
                          /\ vslab'[x].nbits = IF x = v THEN vslab[v].nbits + 1 ELSE vslab[x].nbits
    BY <1>1, <1>5
  <2> QED
    BY <1>9, <2>1, <2>2, <2>3, <2>4, BlockOut DEF Parted
<1>11. vslab[v].state # "none"
  BY <1>0, <1>1, <1>6 DEF Parted, MadeFirst
<1>12. NoMorph'
  BY <1>0, <1>5, <1>6, <1>8, NoMorphKept DEF Parted, MorphAt, MorphSteps, FreeSteps
<1>13. Giving'
  BY <1>0, <1>6, <1>7, GivingKept DEF Parted, GivingAt
<1>14. MadeFirst'
  <2>1. \A x \in SlabId : vslab'[x].state = vslab[x].state
    BY <1>5 DEF SameState
  <2>2. MadeAt(t)'
    BY <1>7, <1>11, <2>1 DEF MadeAt
  <2>3. \A x \in SlabId : /\ vslab'[x].state = "none" <=> vslab[x].state = "none"
                          /\ vslab[x].bits = {} => vslab'[x].bits = {} \/ vslab[x].state # "none"
    BY <1>5, <1>11, <2>1
  <2> QED
    BY <1>0, <1>4, <1>6, <2>2, <2>3, MadeKept DEF Parted
<1> QED
  BY <1>8, <1>10, <1>12, <1>13, <1>14 DEF Parted

----------------------------------------------------------------------------
(* A block is given back. *)

\* A thread that gives a block back has a block of its slab, under its number.
LEMMA GivenBlock ==
  ASSUME TypeOK, Parted, NEW t \in Threads, pc[t] \in {"free", "back"}
  PROVE  /\ loc[t].v \in SlabId /\ loc[t].sc = TheLayout /\ loc[t].blk # NoBlock
         /\ InCall(loc[t].blk, t) \in GivenPart
         /\ \E i \in 0 .. TheLayout.nbits - 1 : loc[t].blk = Blk(loc[t].v, i) /\ Index(t) = i
<1>1. loc[t].v \in SlabId /\ loc[t].sc = TheLayout
  BY FreePlaced DEF FreeSteps, Parted, NoMorph, Where, Going
<1>2. loc[t].blk # NoBlock /\ loc[t].blk.v = loc[t].v
  BY DEF Parted, Giving
<1>3. InCall(loc[t].blk, t) \in GivenPart
  BY <1>2, PartsApart
<1>4. PICK o \in Owned : o[1] = loc[t].blk
  BY <1>3, Parts DEF InCall
<1>5. Bounded(Owned)
  BY OwnedForm DEF Parted
<1>6. PICK i \in 0 .. TheLayout.nbits - 1 : loc[t].blk = Blk(loc[t].v, i)
  BY <1>2, <1>4, <1>5 DEF Bounded
<1>7. Index(t) = i
  BY <1>1, <1>6, BlockPlace, TheLayoutType DEF Index
<1> QED
  BY <1>1, <1>2, <1>3, <1>6, <1>7

LEMMA FreeCallParts ==
  ASSUME TypeOK, Parted, NEW t \in Threads, NEW b \in held, FreeCall(t, b)
  PROVE  Parted'
<1>1. /\ Flow(t, "idle", "free")
      /\ loc'[t].v = b.v /\ loc'[t].blk = b /\ loc'[t].sc = vslab[b.v].sc
  BY FreeCallFlow
<1>2. held' = held \ {b} /\ UNCHANGED <<vslab, made, cache>>
  BY DEF FreeCall
<1>3. b \in Blocks
  BY DEF TypeOK
<1>4. b # NoBlock /\ b.v \in SlabId
  BY <1>3 DEF Blocks, NoBlock, SlabId, Null
<1>5. loc[t].blk = NoBlock
  BY <1>1 DEF Flow, Parted, Giving
<1>6. GivenPart' = GivenPart \cup {InCall(b, t)}
  <2>1. t \in Threads /\ Alone(t)
    BY <1>1 DEF Flow
  <2> QED
    BY <1>1, <1>4, <1>5, <2>1, GivenChange
<1>7. HeldPart' = HeldPart \ {InHand(b)} /\ CachedPart' = CachedPart /\ InHand(b) \in HeldPart
  <2>1. HeldPart' = HeldPart \ {InHand(b)}
    BY <1>2, HeldChange
  <2>2. CachedPart' = CachedPart
    BY <1>2 DEF CachedPart
  <2> QED
    BY <2>1, <2>2, PartsApart
<1>8. Owned' = (Owned \ {InHand(b)}) \cup {InCall(b, t)}
  BY <1>6, <1>7, Parts, PartsApart
<1>9. \A v \in SlabId : SameShape(v) /\ SameBits(v) /\ SameState(v)
  BY <1>2, SlabsStay
<1>10. OwnBlocks' /\ BitsExact'
  <2>1. InHand(b) \in Owned /\ InCall(b, t)[1] = InHand(b)[1]
    BY <1>7, Parts DEF InHand, InCall
  <2> QED
    BY <1>8, <1>9, <2>1, BlocksMoved DEF Parted
<1>11. NoMorph'
  <2>1. NoFlag'
    BY <1>2 DEF Parted, NoMorph, NoFlag
  <2>2. loc'[t].sc = TheLayout
    BY <1>1, <1>4 DEF Parted, NoMorph
  <2> QED
    BY <1>1, <1>9, <2>1, <2>2, NoMorphKept DEF Parted, Flow, MorphAt, MorphSteps
<1>12. Giving'
  BY <1>1, <1>4, GivingKept DEF Parted, Flow, GivingAt
<1>13. MadeFirst'
  BY <1>1, <1>2, <1>9, MadeKept DEF Parted, Flow, MadeAt, SlabSteps, SameBits, SameState
<1>14. EntryIds'
  BY <1>2 DEF Parted, EntryIds
<1> QED
  BY <1>10, <1>11, <1>12, <1>13, <1>14 DEF Parted

LEMMA FreeNewParts ==
  ASSUME TypeOK, Parted, NEW t \in Threads, FreeNew(t)
  PROVE  Parted'
<1>1. pc[t] = "free"
  BY DEF FreeNew, At
<1>2. PICK v \in SlabId, i \in 0 .. TheLayout.nbits - 1 :
        /\ v = loc[t].v /\ loc[t].blk = Blk(v, i) /\ Index(t) = i /\ loc[t].sc = TheLayout
        /\ loc[t].blk # NoBlock /\ InCall(loc[t].blk, t) \in GivenPart
  BY <1>1, GivenBlock
<1>3. UNCHANGED <<made, held>>
  BY DEF FreeNew
<1>4. \A x \in SlabId : SameShape(x) /\ SameBits(x) /\ SameState(x)
  <2>1. PICK m, a : MetaTo(v, m, a)
    BY <1>2, FreeNewSets
  <2> QED
    BY <2>1, MetaSet
<1>5. CASE WayFull(t)
  <2>1. Flow(t, "free", "back") /\ Same(t) /\ UNCHANGED cache
    BY <1>5, FreeNewFlow
  <2>2. MorphAt(t)' /\ GivingAt(t)' /\ MadeAt(t)'
    BY <1>2, <2>1, BlockPlace
       DEF Flow, Same, SameClass, MorphAt, MorphSteps, GivingAt, MadeAt, SlabSteps
  <2> QED
    BY <1>3, <1>4, <2>1, <2>2, BlocksKept DEF Flow, Same, SameClass
<1>6. CASE ~WayFull(t)
  <2>1. Flow(t, "free", "idle") /\ loc'[t] = NoLocals
    <3>1. Done(t)
      BY <1>6 DEF FreeNew
    <3>2. Where(t) = "free"
      BY <1>1 DEF Where, Going
    <3> QED
      BY <1>1, <3>1, <3>2, DoneFlow DEF Flow
  <2>2. t \in Home
    BY <1>6 DEF WayFull
  <2>3. PICK c \in Classes : c = TheClass
    BY TheLayoutType
  <2> i \in Int /\ Blk(v, i) \in Blocks
    <3>1. i \in Int
      BY TheLayoutType
    <3> QED
      BY <3>1, TheLayoutType, BlockType DEF Blk
  <2>4. PICK w \in Way : w = i % NBANKS
    BY WayType
  <2>50. PICK d \in Nat : d = vslab[v].dmeta
    BY DEF TypeOK, Slabs
  <2>5. PICK e \in Entries : e = [blk |-> Blk(v, i), id |-> i, dmeta |-> d]
    <3>1. [blk |-> Blk(v, i), id |-> i, dmeta |-> d] \in Entries
      BY DEF Entries
    <3> QED
      BY <3>1
  <2>6. cache' = [cache EXCEPT ![t][c] = Push(@, w, e)]
    <3>1. [Blk(v, i) EXCEPT !.c = c] = Blk(v, i)
      BY <2>3, TheLayoutType DEF Blk, BlockAt
    <3>2. loc[t].sc.c = c
      BY <1>2, <2>3, TheLayoutType
    <3> QED
      BY <1>2, <1>6, <2>4, <2>50, <2>5, <3>1, <3>2 DEF FreeNew
  <2>7. /\ NoFlag' /\ EntryIds'
        /\ CachedPart' = CachedPart \cup {InWay(e.blk, t, c, w, Len(cache[t][c].avail[w]) + 1)}
    <3>1. e.blk = Blk(e.blk.v, e.id)
      BY <2>5, BlockPlace
    <3>2. NoFlag /\ EntryIds
      BY DEF Parted, NoMorph, NoFlag
    <3> QED
      BY <2>2, <2>6, <3>1, <3>2, Pushed
  <2>8. PICK n : n = InWay(e.blk, t, c, w, Len(cache[t][c].avail[w]) + 1)
    OBVIOUS
  <2>9. loc'[t].blk = NoBlock
    BY <2>1 DEF NoLocals
  <2>10. GivenPart' = GivenPart \ {InCall(loc[t].blk, t)} /\ HeldPart' = HeldPart
    <3>1. t \in Threads /\ Alone(t)
      BY <2>1 DEF Flow
    <3> QED
      BY <1>2, <1>3, <2>9, <3>1, GivenChange, HeldChange
  <2>11. Owned' = (Owned \ {InCall(loc[t].blk, t)}) \cup {n}
    BY <1>2, <2>7, <2>8, <2>10, Parts, PartsApart
  <2>12. OwnBlocks' /\ BitsExact'
    <3>1. n[1] = InCall(loc[t].blk, t)[1]
      BY <1>2, <2>5, <2>8 DEF InWay, InCall
    <3>2. InCall(loc[t].blk, t) \in Owned
      BY <1>2, Parts
    <3> QED
      BY <1>4, <2>11, <3>1, <3>2, BlocksMoved DEF Parted
  <2>13. NoMorph'
    BY <1>4, <2>1, <2>7, NoMorphKept DEF Parted, Flow, MorphAt, MorphSteps, FreeSteps
  <2>14. Giving'
    BY <2>1, <2>9, GivingKept DEF Parted, Flow, GivingAt
  <2>15. MadeFirst'
    BY <1>3, <1>4, <2>1, MadeKept DEF Parted, Flow, MadeAt, SlabSteps, SameBits, SameState
  <2> QED
    BY <2>7, <2>12, <2>13, <2>14, <2>15 DEF Parted
<1> QED
  BY <1>5, <1>6

LEMMA FreeBackParts ==
  ASSUME TypeOK, Parted, NEW t \in Threads, FreeBack(t)
  PROVE  Parted'
<1>1. /\ Alone(t) /\ pc[t] = "back" /\ Where(t)' \in {"backbin", "idle"}
      /\ pc'[t] = "recount" \/ pc'[t] = Where(t)'
      /\ loc'[t].blk = NoBlock
      /\ Where(t)' = "backbin" => loc'[t].sc = loc[t].sc
  <2>1. Alone(t) /\ pc[t] = "back" /\ Where(t)' \in {"backbin", "idle"}
    BY FreeBackFlow
  <2>2. NoLocals.blk = NoBlock
    BY DEF NoLocals
  <2>3. \/ pc'[t] = "recount" /\ loc'[t].sc = loc[t].sc /\ loc'[t].blk = NoBlock
        \/ pc'[t] = "backbin" /\ loc'[t].sc = loc[t].sc /\ loc'[t].blk = NoBlock
        \/ pc'[t] = "idle" /\ loc'[t] = NoLocals
    BY FreeBackFlow
  <2>4. pc'[t] # "recount" => Where(t)' = pc'[t]
    BY DEF Where, Going
  <2> QED
    BY <2>1, <2>2, <2>3, <2>4
<1>2. PICK v \in SlabId, i \in 0 .. TheLayout.nbits - 1 :
        /\ v = loc[t].v /\ loc[t].blk = Blk(v, i) /\ Index(t) = i /\ loc[t].sc = TheLayout
        /\ loc[t].blk # NoBlock /\ InCall(loc[t].blk, t) \in GivenPart
  BY <1>1, GivenBlock
<1>3. UNCHANGED <<made, cache, held>>
  BY Zenon DEF FreeBack
<1>4. /\ \A x \in SlabId : SameShape(x) /\ SameState(x) /\ SameMeta(x)
      /\ \A x \in SlabId : /\ vslab'[x].bits = IF x = v THEN vslab[v].bits \ {i} ELSE vslab[x].bits
                           /\ vslab'[x].nbits = IF x = v THEN (vslab[v].nbits - 1) % Half
                                                ELSE vslab[x].nbits
  <2>1. PICK b, n : b = vslab[v].bits \ {i} /\ n = (vslab[v].nbits - 1) % Half
    OBVIOUS
  <2>2. BitsTo(v, b, n)
    BY <1>2, <2>1 DEF FreeBack, Returned, TypeOK, Slabs, BitsTo
  <2> QED
    BY <2>1, <2>2, BitsSet
<1>5. GivenPart' = GivenPart \ {InCall(loc[t].blk, t)} /\ HeldPart' = HeldPart
      /\ CachedPart' = CachedPart
  BY <1>1, <1>2, <1>3, GivenChange, HeldChange DEF CachedPart
<1>6. Owned' = Owned \ {InCall(loc[t].blk, t)}
  BY <1>2, <1>5, Parts, PartsApart
<1>7. OwnBlocks' /\ BitsExact'
  <2>1. InCall(loc[t].blk, t) \in Owned /\ InCall(loc[t].blk, t)[1] = Blk(v, i)
    BY <1>2, Parts DEF InCall
  <2> QED
    BY <1>4, <1>6, <2>1, BlockBack DEF Parted
<1>8. NoMorph'
  <2>1. NoFlag'
    BY <1>3 DEF Parted, NoMorph, NoFlag
  <2>2. MorphAt(t)'
    BY <1>1, <1>2 DEF MorphAt, MorphSteps, FreeSteps
  <2> QED
    BY <1>1, <1>4, <2>1, <2>2, NoMorphKept DEF Parted
<1>9. Giving'
  BY <1>1, GivingKept DEF Parted, GivingAt
<1>10. MadeFirst'
  <2>1. MadeAt(t)'
    BY <1>1 DEF MadeAt, SlabSteps
  <2>2. \A x \in SlabId : vslab'[x].state = vslab[x].state
    BY <1>4 DEF SameState
  <2>3. \A x \in SlabId : vslab[x].bits = {} => vslab'[x].bits = {}
    BY <1>4
  <2> QED
    BY <1>1, <1>3, <2>1, <2>2, <2>3, MadeKept DEF Parted
<1>11. EntryIds'
  BY <1>3 DEF Parted, EntryIds
<1> QED
  BY <1>7, <1>8, <1>9, <1>10, <1>11 DEF Parted

----------------------------------------------------------------------------
(* A slab is made. *)

LEMMA CreateParts ==
  ASSUME TypeOK, SingleClass, Parted, NEW t \in Home, Create(t)
  PROVE  Parted'
<1>1. /\ t \in Threads /\ Alone(t) /\ SameClass(t)
      /\ pc[t] = "create" /\ pc'[t] = "recount" /\ Where(t)' = "insert"
      /\ loc'[t].v = made + 1
  BY CreateFlow
<1>2. PICK v \in SlabId : v = made + 1
  BY PolicyAssumption DEF Create, TypeOK, SlabId
<1>3. loc[t].c = TheClass
  BY <1>1, Placed, OneClass DEF FillSteps
<1>4. PICK f \in Slabs : f = Fresh(TheClass)
  BY TheLayoutType, FreshType
<1>5. /\ f.sc = TheLayout /\ f.sc_b = NoLayout /\ f.num_b = 0 /\ f.state = "live"
      /\ f.bits = {} /\ f.nbits = 0
  BY <1>4 DEF Fresh, TheLayout
<1>6. \A w \in SlabId : vslab'[w] = IF w = v THEN f ELSE vslab[w]
  BY <1>2, <1>3, <1>4 DEF Create, TypeOK
<1>7. vslab[v].state = "none" /\ vslab[v].bits = {} /\ vslab[v].nbits = 0
  <2>1. v > made
    BY <1>2 DEF TypeOK
  <2> QED
    BY <2>1, FS_EmptySet DEF Parted, MadeFirst, BitsExact
<1>8. \A w \in SlabId : SameShape(w) /\ SameBits(w)
  BY <1>5, <1>6, <1>7 DEF SameShape, SameLayouts, SameBits, Parted, NoMorph
<1>9. UNCHANGED <<cache, held>> /\ made' = v
  BY <1>2 DEF Create
<1>10. loc'[t].blk = NoBlock /\ loc[t].blk = NoBlock
  BY <1>1 DEF SameClass, Parted, Giving
<1>11. OwnBlocks' /\ BitsExact'
  <2>1. HeldPart' = HeldPart /\ GivenPart' = GivenPart /\ CachedPart' = CachedPart
    BY <1>1, <1>9, <1>10, HeldChange, GivenChange DEF CachedPart
  <2>2. Owned' = Owned
    BY <2>1, Parts
  <2> QED
    BY <1>8, <2>2, BlocksStay DEF Parted
<1>12. NoMorph'
  <2>1. NoFlag'
    BY <1>9 DEF Parted, NoMorph, NoFlag
  <2> QED
    BY <1>1, <1>8, <2>1, NoMorphKept DEF Parted, MorphAt, MorphSteps, FreeSteps
<1>13. Giving'
  BY <1>1, <1>10, GivingKept DEF Parted, GivingAt
<1>14. MadeFirst'
  <2>1. ASSUME NEW w \in SlabId
        PROVE  /\ w > made' <=> vslab'[w].state = "none"
               /\ vslab'[w].state = "none" => vslab'[w].bits = {}
    <3>1. made \in Int /\ w \in Int
      BY DEF TypeOK, SlabId
    <3>2. CASE w = v
      BY <1>5, <1>6, <1>9, <3>1, <3>2
    <3>3. CASE w # v
      BY <1>2, <1>6, <1>9, <3>1, <3>3 DEF Parted, MadeFirst
    <3> QED
      BY <3>2, <3>3
  <2>2. ASSUME NEW u \in Threads, Where(u)' \in SlabSteps PROVE vslab'[loc'[u].v].state # "none"
    <3>1. CASE u = t
      BY <1>1, <1>2, <1>5, <1>6, <3>1
    <3>2. CASE u # t
      <4>1. Where(u)' = Where(u) /\ loc'[u] = loc[u]
        BY <1>1, <3>2 DEF Alone
      <4>2. loc[u].v \in SlabId
        BY <2>2, <4>1 DEF TypeOK, Control, Where, SlabSteps
      <4>3. vslab[loc[u].v].state # "none"
        BY <2>2, <4>1 DEF Parted, MadeFirst, SlabSteps
      <4> QED
        BY <1>5, <1>6, <4>1, <4>2, <4>3
    <3> QED
      BY <3>1, <3>2
  <2> QED
    BY <2>1, <2>2 DEF MadeFirst, SlabSteps
<1>15. EntryIds'
  BY <1>9 DEF Parted, EntryIds
<1> QED
  BY <1>11, <1>12, <1>13, <1>14, <1>15 DEF Parted

----------------------------------------------------------------------------
(* Every step. *)

LEMMA NextParts ==
  ASSUME TypeOK, Ways, SingleClass, Parted, Running', Next
  PROVE  Parted'
<1>1. ASSUME NEW t \in Home, nvalloc_malloc_to(t) PROVE Parted'
  <2>1. t \in Threads
    BY DEF Threads
  <2>2. ~FillStops(t) /\ ~MallocStops(t)
    BY DEF FillStops, MallocStops, Stop, Running
  <2>3. ~slab_morphing(t)
    BY <2>1, NeverMorphs
  <2>4. CASE Fill(t)
    BY <2>2, <2>4, QuietFill, FillPopParts DEF Fill
  <2>5. CASE slab_get_one(t)
    BY <2>5, QuietGet, CreateParts
  <2> QED
    BY <1>1, <2>2, <2>3, <2>4, <2>5, QuietFill, MallocTakeParts DEF nvalloc_malloc_to
<1>2. ASSUME NEW t \in Threads, slab_free_small(t) PROVE Parted'
  BY <1>2, NeverMorphs, QuietFree, FreeCallParts, FreeNewParts, FreeBackParts DEF slab_free_small
<1> QED
  BY <1>1, <1>2, QuietFree DEF Next

LEMMA InitParts == SingleClass /\ Init => Parted
<1> SUFFICES ASSUME SingleClass, Init PROVE Parted
  OBVIOUS
<1>1. ASSUME NEW v \in SlabId
      PROVE  /\ vslab[v].sc = TheLayout /\ vslab[v].sc_b = NoLayout /\ vslab[v].num_b = 0
             /\ vslab[v].state = "none" /\ vslab[v].bits = {} /\ vslab[v].nbits = 0
  <2>1. PICK s \in Slabs : s = Fresh(TheClass)
    BY TheLayoutType, FreshType
  <2>2. /\ s.sc = TheLayout /\ s.sc_b = NoLayout /\ s.num_b = 0 /\ s.bits = {} /\ s.nbits = 0
    BY <2>1 DEF Fresh, TheLayout
  <2>3. PICK r : r = [s EXCEPT !.state = "none"]
    OBVIOUS
  <2>4. /\ r.sc = s.sc /\ r.sc_b = s.sc_b /\ r.num_b = s.num_b /\ r.bits = s.bits
        /\ r.nbits = s.nbits /\ r.state = "none"
    BY <2>3 DEF Slabs
  <2>5. vslab[v] = r
    BY <2>1, <2>3 DEF Init, Unmade, TheClass
  <2> QED
    BY <2>2, <2>4, <2>5
<1>2. \A t \in Threads : Where(t) = "idle" /\ pc[t] = "idle" /\ loc[t].blk = NoBlock
  BY DEF Init, Where, Going, NoLocals
<1>3. ASSUME NEW t \in Home, NEW c \in Classes, NEW w \in Way
      PROVE  /\ cache[t][c].avail[w] = <<>>
             /\ \A i \in Position : ~cache[t][c].is_sb[w][i]
  <2>1. PICK f \in Garbage : cache[t][c] = EmptyCache(f)
    BY DEF Init
  <2>2. PICK a \in [Way -> {<<>>}] : a = [x \in Way |-> <<>>]
    OBVIOUS
  <2>3. cache[t][c].avail = a /\ cache[t][c].is_sb = f
    BY <2>1, <2>2 DEF EmptyCache
  <2>4. \A i \in Position : ~f[w][i]
    BY DEF SingleClass
  <2> QED
    BY <2>2, <2>3, <2>4
<1>4. NoMorph
  BY <1>1, <1>2, <1>3 DEF NoMorph, FreeSteps
<1>5. Giving
  BY <1>2 DEF Giving
<1>6. EntryIds
  BY <1>3, EmptySeq DEF EntryIds
<1>7. Owned = {}
  <2>1. HeldPart = {} /\ GivenPart = {}
    BY <1>2 DEF Init, HeldPart, GivenPart
  <2>2. CachedPart = {}
    <3>1. \A o : o \notin CachedPart
      BY <1>3, InCached, EmptySeq
    <3> QED
      BY <3>1
  <2> QED
    BY <2>1, <2>2, Parts
<1>8. OwnBlocks
  BY <1>7 DEF OwnBlocks
<1>9. BitsExact
  BY <1>1, <1>7, FS_EmptySet DEF BitsExact
<1>10. MadeFirst
  <2>1. made = 0 /\ \A v \in SlabId : v > 0
    BY DEF Init, SlabId
  <2> QED
    BY <1>1, <1>2, <2>1 DEF MadeFirst
<1> QED
  BY <1>4, <1>5, <1>6, <1>8, <1>9, <1>10 DEF Parted

\* With one class, and flags that read as FALSE until they are written, every
\* block is in one place, and the bitmap of a slab is that of its blocks that are
\* out, until the process stops.
THEOREM BlocksStayExact == SingleClass => (Spec => []BlocksInv)
<1> SUFFICES ASSUME SingleClass PROVE Spec => []BlocksInv
  OBVIOUS
<1>1. Init => BlocksInv
  BY InitType, InitParts DEF BlocksInv, Parted
<1>2. WaysInv /\ BlocksInv /\ [Next]_vars => BlocksInv'
  <2> SUFFICES ASSUME WaysInv, BlocksInv, [Next]_vars, Running'
               PROVE  TypeOK' /\ Parted'
    BY DEF BlocksInv, Parted
  <2>1. CASE Next
    BY <2>1, NextRuns, NextType, NextParts DEF WaysInv, BlocksInv, Parted
  <2>2. CASE UNCHANGED vars
    <3>1. Running /\ TypeOK /\ Parted
      BY <2>2 DEF vars, Running, BlocksInv, Parted
    <3>2. TypeOK'
      BY <2>2, <3>1 DEF vars, TypeOK
    <3>3. NoMorph' /\ Giving' /\ MadeFirst' /\ EntryIds'
      BY <2>2, <3>1 DEF vars, Parted, NoMorph, Giving, MadeFirst, EntryIds, Where
    <3>4. Owned' = Owned
      BY <2>2 DEF vars, Owned
    <3>5. OwnBlocks' /\ BitsExact'
      BY <2>2, <3>1, <3>4 DEF vars, Parted, OwnBlocks, BitsExact
    <3> QED
      BY <3>2, <3>3, <3>5 DEF Parted
  <2> QED
    BY <2>1, <2>2
<1> QED
  BY <1>1, <1>2, TypeAndWays, PTL DEF Spec

----------------------------------------------------------------------------
(* What the program sees. *)

LEMMA OwnedTyped ==
  ASSUME TypeOK, NEW o \in Owned
  PROVE  o[1] \in Blocks
<1>1. CASE o \in HeldPart
  BY <1>1 DEF HeldPart, TypeOK
<1>2. CASE o \in GivenPart
  <2>1. PICK t \in Threads : loc[t].blk # NoBlock /\ o[1] = loc[t].blk
    BY <1>2 DEF GivenPart
  <2>2. loc[t] \in Locals
    BY Placed
  <2> QED
    BY <2>1, <2>2 DEF Locals
<1>3. CASE o \in CachedPart
  <2>1. PICK t \in Home, c \in Classes, w \in Way :
          \E i \in 1 .. Len(cache[t][c].avail[w]) : o[1] = cache[t][c].avail[w][i].blk
    BY <1>3, InCached
  <2>2. PICK i \in 1 .. Len(cache[t][c].avail[w]) : o[1] = cache[t][c].avail[w][i].blk
    BY <2>1
  <2>3. cache[t][c].avail[w] \in Seq(Entries)
    BY DEF TypeOK, Caches
  <2>4. cache[t][c].avail[w][i] \in Entries
    BY <2>3
  <2> QED
    BY <2>2, <2>4 DEF Entries
<1> QED
  BY <1>1, <1>2, <1>3, Parts

\* With one class, no two blocks that are handed out, cached or on their way back
\* share a byte, and none lies in the metadata of its slab, for any geometry and
\* any threads (slab.c:366-372, 489-504, nvalloc.c:118-139).
THEOREM BlocksNeverOverlap == SingleClass => (Spec => []NoOverlap)
<1> SUFFICES ASSUME SingleClass PROVE Spec => []NoOverlap
  OBVIOUS
<1>1. BlocksInv => NoOverlap
  <2> SUFFICES ASSUME BlocksInv, Running, NEW o \in Owned
               PROVE  /\ o[1].off >= vslab[o[1].v].sc.roffset
                      /\ \A p \in Owned \ {o} :
                           o[1].v = p[1].v => \/ o[1].off + bitsize[o[1].c] <= p[1].off
                                              \/ p[1].off + bitsize[p[1].c] <= o[1].off
    BY DEF NoOverlap
  <2>1. TypeOK /\ NoMorph /\ Bounded(Owned) /\ Once(Owned)
    BY OwnedForm DEF BlocksInv
  <2>2. PICK b \in Nat \ {0}, r \in Nat : b = bitsize[TheClass] /\ r = TheLayout.roffset
    BY TheLayoutType
  <2>3. ASSUME NEW x \in Owned
        PROVE  \E i \in Nat : x[1] = Blk(x[1].v, i) /\ x[1].c = TheClass /\ x[1].off = r + i * b
    <3>1. PICK i \in 0 .. TheLayout.nbits - 1 : x[1] = Blk(x[1].v, i)
      BY <2>1 DEF Bounded
    <3>2. i \in Nat /\ i \in Int
      BY TheLayoutType
    <3>3. Blk(x[1].v, i).c = TheClass /\ Blk(x[1].v, i).off = r + i * b
      BY <2>2, <3>2, BlockPlace
    <3> QED
      BY <3>1, <3>2, <3>3
  <2>4. PICK i \in Nat : o[1] = Blk(o[1].v, i) /\ o[1].c = TheClass /\ o[1].off = r + i * b
    BY <2>3
  <2>5. o[1].off >= vslab[o[1].v].sc.roffset
    <3>1. o[1].v \in SlabId
      BY <2>1, OwnedTyped DEF Blocks
    <3>2. i * b \in Int /\ i * b >= 0
      BY Products
    <3> QED
      BY <2>1, <2>2, <2>4, <3>1, <3>2 DEF NoMorph
  <2>6. ASSUME NEW p \in Owned \ {o}, o[1].v = p[1].v
        PROVE  \/ o[1].off + bitsize[o[1].c] <= p[1].off
               \/ p[1].off + bitsize[p[1].c] <= o[1].off
    <3>1. PICK j \in Nat : p[1] = Blk(p[1].v, j) /\ p[1].c = TheClass /\ p[1].off = r + j * b
      BY <2>3
    <3>2. i # j
      BY <2>1, <2>4, <2>6, <3>1 DEF Once
    <3>3. PICK x \in Int, y \in Int : x = i * b /\ y = j * b
      BY Products
    <3>4. x + b <= y \/ y + b <= x
      <4>1. CASE i < j
        BY <3>3, <4>1, Products
      <4>2. CASE j < i
        BY <3>3, <4>2, Products
      <4> QED
        BY <3>2, <4>1, <4>2
    <3> QED
      BY <2>2, <2>4, <3>1, <3>3, <3>4
  <2> QED
    BY <2>5, <2>6
<1> QED
  BY <1>1, BlocksStayExact, PTL

\* A block of a slab takes its own number, and no other.
LEMMA TakenOne ==
  ASSUME NoMorph, NEW v \in SlabId, NEW i \in Int
  PROVE  Taken(v, Blk(v, i)) = {i}
<1>1. PICK b : b = Blk(v, i)
  OBVIOUS
<1>2. /\ b.c = TheClass
      /\ IndexIn(TheLayout, b.off) = i
      /\ IndexIn(TheLayout, b.off + bitsize[TheClass] - 1) = i
  BY <1>1, BlockPlace
<1>3. Taken(v, b) = i .. i
  BY <1>2 DEF NoMorph, Taken, Overlapped
<1> QED
  BY <1>1, <1>3

\* With one class, the bitmap of every slab is that of the blocks of it that are
\* out, and nbits is their number: no block is given out twice, and none is lost
\* (slab.c:366-372, 489-504, 577-587).
THEOREM BitmapStaysExact == SingleClass => (Spec => []BitmapExact)
<1> SUFFICES ASSUME SingleClass PROVE Spec => []BitmapExact
  OBVIOUS
<1>1. BlocksInv => BitmapExact
  <2> SUFFICES ASSUME BlocksInv, Running, NEW v \in SlabId
               PROVE  vslab[v].bits = AllTaken(v) /\ vslab[v].nbits = Cardinality(vslab[v].bits)
    BY DEF BitmapExact, Unlocked, Live
  <2>1. TypeOK /\ NoMorph /\ Bounded(Owned) /\ BitsExact
    BY OwnedForm DEF BlocksInv
  <2>2. \A k : k \in AllTaken(v) <=> \E o \in Owned : o[1].v = v /\ k \in Taken(v, o[1])
    BY DEF AllTaken, Out
  <2>3. ASSUME NEW o \in Owned, o[1].v = v, NEW k
        PROVE  k \in Taken(v, o[1]) <=> k \in Ids /\ o[1] = Blk(v, k)
    <3>1. PICK i \in 0 .. TheLayout.nbits - 1 : o[1] = Blk(v, i)
      BY <2>1, <2>3 DEF Bounded
    <3>2. i \in Int /\ i \in Ids
      BY TheLayoutType, SlabSize DEF Ids, MaxId
    <3>3. Taken(v, o[1]) = {i}
      BY <2>1, <3>1, <3>2, TakenOne
    <3>4. ASSUME k \in Ids, o[1] = Blk(v, k) PROVE k = i
      <4>1. k \in Int
        BY <3>4 DEF Ids
      <4> QED
        BY <3>1, <3>2, <3>4, <4>1, BlockNumbers
    <3> QED
      BY <3>1, <3>2, <3>3, <3>4
  <2>4. ASSUME NEW k
        PROVE  k \in AllTaken(v) <=> k \in Ids /\ IsOut(Owned, v, k)
    <3>1. \A o \in Owned : o[1] = Blk(v, k) /\ k \in Ids => o[1].v = v
      BY BlockPlace DEF Ids
    <3> QED
      BY <2>2, <2>3, <3>1 DEF IsOut
  <2>5. ASSUME NEW k \in vslab[v].bits PROVE k \in Ids
    <3>1. vslab[v].bits \in SUBSET (0 .. SLAB_SIZE - 1)
      BY <2>1 DEF TypeOK, Slabs
    <3> QED
      BY <3>1, SlabSize DEF Ids, MaxId
  <2>6. \A k : k \in vslab[v].bits <=> k \in AllTaken(v)
    BY <2>1, <2>4, <2>5, BitsForm
  <2> QED
    BY <2>1, <2>6, BitsForm
<1> QED
  BY <1>1, BlocksStayExact, PTL

----------------------------------------------------------------------------
(* The blocks the program has are set on the medium. *)

\* A block the program has is under a number of its slab that is taken.
LEMMA HeldBlock ==
  ASSUME TypeOK, Parted, NEW b \in held
  PROVE  /\ b.v \in SlabId
         /\ \E i \in Ids : /\ i \in Int /\ b = Blk(b.v, i) /\ IndexIn(TheLayout, b.off) = i
                           /\ i \in vslab[b.v].bits
<1>1. b.v \in SlabId
  BY DEF TypeOK, Blocks
<1>2. InHand(b) \in Owned /\ InHand(b)[1] = b
  BY PartsApart, Parts DEF InHand
<1>3. PICK i \in 0 .. TheLayout.nbits - 1 : b = Blk(b.v, i)
  BY <1>2, OwnedForm DEF Parted, Bounded
<1>4. i \in Int /\ i \in Ids
  BY TheLayoutType, SlabSize DEF Ids, MaxId
<1>5. IndexIn(TheLayout, b.off) = i
  BY <1>3, <1>4, BlockPlace
<1>6. i \in vslab[b.v].bits
  BY <1>1, <1>2, <1>3, <1>4, BitsForm DEF Parted, IsOut
<1> QED
  BY <1>1, <1>3, <1>4, <1>5, <1>6

LEMMA HeldStays ==
  ASSUME TypeOK, HeldSet, held' \subseteq held, \A v \in SlabId : SameMeta(v)
  PROVE  HeldSet'
BY DEF HeldSet, TypeOK, Blocks, SameMeta

LEMMA TakeSets ==
  ASSUME TypeOK, Ways, SingleClass, Parted, HeldSet, NEW t \in Home, MallocTake(t)
  PROVE  HeldSet'
<1>1. PICK c \in Classes, ch \in Caches, w \in Way, n \in Int :
        /\ c = loc[t].c /\ ch = cache[t][c] /\ w = NextWay(ch) /\ n = Undropped(t, c, w)
        /\ w \in ch.bm
        /\ n = -1 \/ n \in 1 .. Len(ch.avail[w])
  BY MallocTakeFinds
<1>2. n = Len(ch.avail[w])
  BY <1>1, TopTaken DEF Parted, NoMorph, NoFlag
<1>3. n # -1 /\ n \in 1 .. Len(ch.avail[w])
  <2>1. Len(ch.avail[w]) \in Nat
    BY DEF Caches
  <2> QED
    BY <1>1, <1>2, <2>1
<1>4. PICK e \in Entries : e = ch.avail[w][n]
  <2>1. ch.avail[w] \in Seq(Entries)
    BY DEF Caches
  <2> QED
    BY <1>3, <2>1, ElementOfSeq
<1>5. PICK v \in SlabId, i \in Int : v = e.blk.v /\ i = e.id
  BY DEF Entries, Blocks
<1>6. e.blk = Blk(v, i)
  <2>1. n \in 1 .. Len(cache[t][c].avail[w]) /\ e = cache[t][c].avail[w][n]
    BY <1>1, <1>3, <1>4
  <2>2. e.blk = BlockAt(e.blk.v, TheLayout, e.id)
    BY <2>1 DEF Parted, EntryIds
  <2> QED
    BY SMTT(30), <1>5, <2>2 DEF Blk
<1>7. held' = held \cup {e.blk}
  BY Zenon, <1>1, <1>3, <1>4 DEF MallocTake
<1>8. PICK m : m = vslab[v].meta \cup {i}
  BY Zenon
<1>9. PICK a : MetaTo(v, m, a)
  BY Zenon, <1>1, <1>3, <1>4, <1>5, <1>8, MallocTakeSets
<1>10. \A x \in SlabId : vslab'[x].meta = IF x = v THEN m ELSE vslab[x].meta
  BY <1>9, MetaSet
<1> SUFFICES ASSUME NEW b \in held' PROVE IndexIn(TheLayout, b.off) \in vslab'[b.v].meta
  BY DEF HeldSet
<1>11. CASE b \in held
  <2>1. b.v \in SlabId
    BY <1>11 DEF TypeOK, Blocks
  <2>2. IndexIn(TheLayout, b.off) \in vslab[b.v].meta
    BY <1>11 DEF HeldSet
  <2> QED
    BY <1>8, <1>10, <2>1, <2>2
<1>12. CASE b = e.blk
  <2>1. IndexIn(TheLayout, b.off) = i /\ b.v = v
    BY <1>6, <1>12, BlockPlace
  <2> QED
    BY <1>8, <1>10, <2>1
<1> QED
  BY <1>7, <1>11, <1>12

LEMMA GivingSets ==
  ASSUME TypeOK, Parted, HeldSet, NEW t \in Threads, FreeNew(t)
  PROVE  HeldSet'
<1>1. PICK v \in SlabId, i \in 0 .. TheLayout.nbits - 1 :
        /\ v = loc[t].v /\ loc[t].blk = Blk(v, i) /\ Index(t) = i
        /\ InCall(loc[t].blk, t) \in GivenPart
  <2>1. pc[t] = "free"
    BY DEF FreeNew, At
  <2> QED
    BY <2>1, GivenBlock
<1>2. held' = held
  BY DEF FreeNew
<1>3. PICK m : m = vslab[v].meta \ {i}
  OBVIOUS
<1>4. PICK a : MetaTo(v, m, a)
  BY <1>1, <1>3, FreeNewSets
<1>5. \A x \in SlabId : vslab'[x].meta = IF x = v THEN m ELSE vslab[x].meta
  BY <1>4, MetaSet
<1> SUFFICES ASSUME NEW b \in held PROVE IndexIn(TheLayout, b.off) \in vslab'[b.v].meta
  BY <1>2 DEF HeldSet
<1>6. PICK j \in Ids : b.v \in SlabId /\ b = Blk(b.v, j) /\ IndexIn(TheLayout, b.off) = j
  BY HeldBlock
<1>7. j \in vslab[b.v].meta
  BY <1>6 DEF HeldSet
<1>8. b # loc[t].blk
  <2>1. InHand(b) \in HeldPart /\ InHand(b)[1] = b /\ InCall(loc[t].blk, t)[1] = loc[t].blk
    BY PartsApart DEF InHand, InCall
  <2>2. InHand(b) # InCall(loc[t].blk, t)
    BY <1>1, <2>1, PartsApart
  <2>3. InHand(b) \in Owned /\ InCall(loc[t].blk, t) \in Owned
    BY <1>1, <2>1, Parts
  <2> QED
    BY <2>1, <2>2, <2>3, OwnedForm DEF Parted, Once
<1>9. b.v = v => j # i
  BY <1>1, <1>6, <1>8
<1> QED
  BY <1>3, <1>5, <1>6, <1>7, <1>9

LEMMA CreateSets ==
  ASSUME TypeOK, Parted, HeldSet, NEW t \in Home, Create(t)
  PROVE  HeldSet'
<1>1. PICK v \in SlabId : v = made + 1
  BY PolicyAssumption DEF Create, TypeOK, SlabId
<1>2. vslab[v].bits = {}
  <2>1. v > made
    BY <1>1 DEF TypeOK
  <2> QED
    BY <2>1 DEF Parted, MadeFirst
<1>3. held' = held /\ \A x \in SlabId \ {v} : vslab'[x] = vslab[x]
  BY <1>1 DEF Create, TypeOK
<1> SUFFICES ASSUME NEW b \in held PROVE IndexIn(TheLayout, b.off) \in vslab'[b.v].meta
  BY <1>3 DEF HeldSet
<1>4. b.v \in SlabId \ {v}
  BY <1>2, HeldBlock
<1> QED
  BY <1>3, <1>4 DEF HeldSet

----------------------------------------------------------------------------
(* A slab that leaves is empty, and nobody finds it. *)

\* The thread t fills from the slab v.
FillsAt(t, v) == Where(t) \in SlabSteps /\ loc[t].v = v

LEMMA ApartKept ==
  ASSUME NEW v, Apart(v), NEW t \in Threads, Alone(t), vslab'[v].bits \subseteq vslab[v].bits,
         FillsAt(t, v)' => FillsAt(t, v),
         \A c \in Classes : v \in Elems(bin'[c].list) => v \in Elems(bin[c].list)
  PROVE  Apart(v)'
<1>1. \A u \in Threads : ~FillsAt(u, v)
  BY DEF Apart, FillsFrom, FillsAt, SlabSteps
<1>2. \A u \in Threads : ~FillsAt(u, v)'
  BY <1>1 DEF Alone, FillsAt
<1>3. FillsFrom(v)' = {}
  BY <1>2 DEF FillsFrom, FillsAt, SlabSteps
<1> QED
  BY <1>3 DEF Apart

LEMMA FreesAloneKept ==
  ASSUME TypeOK, FreesAlone, NEW t \in Threads, Alone(t),
         \A v \in SlabId : vslab'[v].state = "none" => vslab[v].state = "none",
         Where(t)' \in FreeSteps => Where(t) \in FreeSteps /\ loc'[t].v = loc[t].v
  PROVE  FreesAlone'
<1>1. ASSUME NEW u \in Threads, Where(u)' \in FreeSteps
      PROVE  /\ Where(u) \in FreeSteps /\ loc'[u].v = loc[u].v
             /\ u \in Freeing /\ vslab'[loc'[u].v].state # "none"
  <2>1. Where(u) \in FreeSteps /\ loc'[u].v = loc[u].v
    BY <1>1 DEF Alone
  <2>2. loc[u].v \in SlabId
    BY <2>1 DEF TypeOK, Control, Where
  <2> QED
    BY <2>1, <2>2 DEF FreesAlone
<1> QED
  BY <1>1 DEF FreesAlone

LEMMA ListedOnceKept ==
  ASSUME TypeOK, ListedOnce, NEW t \in Threads, Alone(t),
         \A c \in Classes : bin'[c].list = bin[c].list,
         \A v \in SlabId : vslab'[v].state = "none" => vslab[v].state = "none",
         Where(t)' = "insert" => Where(t) = "insert" /\ loc'[t].v = loc[t].v
  PROVE  ListedOnce'
<1>1. \A c \in Classes : Elems(bin[c].list) \subseteq SlabId
  BY Listing DEF TypeOK, Bins
<1> QED
  BY <1>1 DEF ListedOnce, Alone

\* What the place of a thread says of the slab it gives back.
EmptyAt(t) ==
  /\ pc[t] = "backcheck" /\ vslab[loc[t].v].nbits = 0 => Apart(loc[t].v)
  /\ Where(t) \in {"backlru", "dalloc"} => Apart(loc[t].v)

LEMMA EmptyApartKept ==
  ASSUME TypeOK, FreesAlone, EmptyApart, NEW t \in Threads, Alone(t), EmptyAt(t)',
         \A v \in SlabId : Apart(v) /\ vslab[v].state # "none" => Apart(v)',
         \A v \in SlabId : vslab'[v].state = "gone" => vslab[v].state = "gone" \/ Apart(v)',
         \A v \in SlabId : vslab'[v].nbits = 0 => vslab[v].nbits = 0 \/ Where(t) \in FreeSteps
  PROVE  EmptyApart'
<1>1. ASSUME NEW u \in Threads PROVE EmptyAt(u)'
  <2>1. CASE u = t
    BY <2>1
  <2>2. CASE u # t /\ Where(u) \in FreeSteps
    <3>1. Where(t) \notin FreeSteps
      BY <2>2 DEF FreesAlone
    <3>2. loc[u].v \in SlabId /\ vslab[loc[u].v].state # "none"
      BY <2>2 DEF TypeOK, Control, Where, FreesAlone
    <3>3. EmptyAt(u)
      BY DEF EmptyApart, EmptyAt
    <3>4. pc'[u] = pc[u] /\ loc'[u] = loc[u] /\ Where(u)' = Where(u)
      BY <2>2 DEF Alone
    <3>5. PICK v \in SlabId : v = loc[u].v
      BY <3>2
    <3>6. Apart(v) => Apart(v)'
      BY <3>2, <3>5
    <3>7. pc[u] = "backcheck" /\ vslab'[v].nbits = 0 => Apart(v)'
      BY <3>1, <3>3, <3>5, <3>6 DEF EmptyAt
    <3>8. Where(u) \in {"backlru", "dalloc"} => Apart(v)'
      BY <3>3, <3>5, <3>6 DEF EmptyAt
    <3>9. Apart(loc[u].v)' <=> Apart(v)'
      BY <3>4, <3>5 DEF Apart, FillsFrom
    <3> QED
      BY <3>4, <3>5, <3>7, <3>8, <3>9 DEF EmptyAt
  <2>3. CASE u # t /\ Where(u) \notin FreeSteps
    BY <2>3 DEF Alone, EmptyAt, Where, Going, FreeSteps
  <2> QED
    BY <2>1, <2>2, <2>3
<1>2. ASSUME NEW v \in SlabId, vslab'[v].state = "gone" PROVE Apart(v)'
  BY <1>2 DEF EmptyApart
<1> QED
  BY <1>1, <1>2 DEF EmptyApart, EmptyAt

\* A step that moves nothing between the lists, and releases no slab.
LEMMA LeavingKept ==
  ASSUME TypeOK, Leaving, NEW t \in Threads, Alone(t),
         \A c \in Classes : bin'[c].list = bin[c].list,
         \A v \in SlabId : vslab'[v].state = vslab[v].state,
         \A v \in SlabId : vslab'[v].bits \subseteq vslab[v].bits \/ FillsAt(t, v),
         \A v \in SlabId : vslab'[v].nbits = 0 => vslab[v].nbits = 0 \/ Where(t) \in FreeSteps,
         Where(t)' \in SlabSteps => \/ Where(t) \in SlabSteps /\ loc'[t].v = loc[t].v
                                    \/ \E c \in Classes : loc'[t].v \in Elems(bin[c].list),
         Where(t)' = "insert" => Where(t) = "insert" /\ loc'[t].v = loc[t].v,
         Where(t)' \in FreeSteps => Where(t) \in FreeSteps /\ loc'[t].v = loc[t].v,
         pc'[t] # "backcheck",
         Where(t)' \in {"backlru", "dalloc"} => Apart(loc[t].v)
  PROVE  Leaving'
<1> USE DEF Leaving
<1>1. FreesAlone'
  BY FreesAloneKept
<1>2. ListedOnce'
  BY ListedOnceKept
<1>3. ASSUME NEW v \in SlabId, Apart(v) PROVE Apart(v)'
  <2>1. ~FillsAt(t, v) /\ \A c \in Classes : v \notin Elems(bin[c].list)
    BY <1>3 DEF Apart, FillsFrom, FillsAt, SlabSteps
  <2>2. ~FillsAt(t, v)'
    BY <2>1 DEF FillsAt
  <2> QED
    BY <1>3, <2>1, <2>2, ApartKept
<1>4. EmptyAt(t)'
  <2>1. CASE Where(t)' \in {"backlru", "dalloc"}
    <3>1. Where(t)' \in FreeSteps
      BY <2>1 DEF FreeSteps
    <3>2. Where(t) \in FreeSteps /\ loc'[t].v = loc[t].v
      BY <3>1
    <3>3. PICK v \in SlabId : v = loc[t].v
      BY <3>2 DEF TypeOK, Control, Where
    <3>4. Apart(v)'
      BY <1>3, <2>1, <3>3
    <3>5. Apart(loc[t].v)' <=> Apart(v)'
      BY <3>2, <3>3 DEF Apart, FillsFrom
    <3> QED
      BY <3>4, <3>5 DEF EmptyAt
  <2>2. CASE Where(t)' \notin {"backlru", "dalloc"}
    BY <2>2 DEF EmptyAt
  <2> QED
    BY <2>1, <2>2
<1>5. EmptyApart'
  BY <1>3, <1>4, EmptyApartKept
<1> QED
  BY <1>1, <1>2, <1>5

LEMMA NowSet ==
  ASSUME TypeOK, NEW c \in Classes, NEW v, bin' = [bin EXCEPT ![c].now = v]
  PROVE  \A d \in Classes : bin'[d].list = bin[d].list
<1>1. PICK b \in Bins : b = bin[c]
  BY DEF TypeOK
<1>2. PICK k : k = [b EXCEPT !.now = v]
  OBVIOUS
<1>3. k.list = b.list
  BY <1>2 DEF Bins
<1>4. bin' = [bin EXCEPT ![c] = k]
  BY <1>1, <1>2
<1>5. \A d \in Classes : bin'[d] = IF d = c THEN k ELSE bin[d]
  BY <1>4 DEF TypeOK
<1> QED
  BY <1>1, <1>3, <1>5

\* A step that leaves the slabs and the lists as they are.
LEMMA LeavingSame ==
  ASSUME TypeOK, Leaving, NEW t \in Threads, Alone(t),
         \A c \in Classes : bin'[c].list = bin[c].list,
         \A v \in SlabId : SameBits(v) /\ SameState(v),
         Where(t)' \in SlabSteps => \/ Where(t) \in SlabSteps /\ loc'[t].v = loc[t].v
                                    \/ \E c \in Classes : loc'[t].v \in Elems(bin[c].list),
         Where(t)' = "insert" => Where(t) = "insert" /\ loc'[t].v = loc[t].v,
         Where(t)' \in FreeSteps => Where(t) \in FreeSteps /\ loc'[t].v = loc[t].v,
         pc'[t] # "backcheck",
         Where(t)' \in {"backlru", "dalloc"} => Apart(loc[t].v)
  PROVE  Leaving'
BY LeavingKept DEF SameBits, SameState

LEMMA FillLeaves ==
  ASSUME TypeOK, Parted, Leaving, Running', NEW t \in Home,
         \/ \E c \in Classes : MallocCall(t, c)
         \/ FillLock(t) \/ FillVisit(t) \/ FillNext(t) \/ Filled(t) \/ Touch(t) \/ Stamp(t)
  PROVE  Leaving'
<1> USE DEF Flow, Same, SameClass, SlabSteps, FreeSteps
<1>0. t \in Threads
  BY DEF Threads
<1>1. ASSUME NEW c \in Classes, MallocCall(t, c) PROVE Leaving'
  <2>1. UNCHANGED <<vslab, bin>> /\ Flow(t, "idle", "malloc")
    BY <1>1, MallocCallFlow DEF MallocCall
  <2> QED
    BY <1>0, <2>1, SlabsStay, LeavingSame
<1>2. CASE FillLock(t)
  <2>1. UNCHANGED vslab /\ (Flow(t, "malloc", "getone") \/ Flow(t, "malloc", "visit"))
    BY <1>2, FillLockFlow DEF FillLock
  <2>2. loc[t].c \in Classes
    BY <1>0, <2>1, Placed DEF FillSteps
  <2>3. \A d \in Classes : bin'[d].list = bin[d].list
    BY <1>2, <2>2, NowSet DEF FillLock
  <2> QED
    BY <1>0, <2>1, <2>3, SlabsStay, LeavingSame
<1>3. CASE FillVisit(t)
  <2>1. UNCHANGED <<vslab, bin>> /\ Flow(t, "visit", "pop") /\ Same(t) /\ OnNode(t)
    BY Zenon, <1>3, FillVisitFlow DEF FillVisit
  <2>2. loc[t].c \in Classes
    BY <1>0, <2>1, Placed DEF FillSteps
  <2>3. \E c \in Classes : loc'[t].v \in Elems(bin[c].list)
    BY <2>1, <2>2 DEF OnNode
  <2> QED
    BY <1>0, <2>1, <2>3, SlabsStay, LeavingSame
<1>4. CASE FillNext(t)
  <2>1. UNCHANGED <<vslab, bin>> /\ (Flow(t, "pop", "getone") \/ Flow(t, "pop", "visit"))
    BY <1>4, FillNextFlow DEF FillNext
  <2> QED
    BY SMTT(30), <1>0, <2>1, SlabsStay, LeavingSame
<1>5. CASE Filled(t)
  <2>1. UNCHANGED vslab /\ Flow(t, "filled", "malloc")
    BY <1>5, FilledFlow DEF Filled
  <2>2. loc[t].c \in Classes
    BY <1>0, <2>1, Placed DEF FillSteps
  <2>3. \A d \in Classes : bin'[d].list = bin[d].list
    BY <1>5, <2>2, NowSet DEF Filled
  <2> QED
    BY <1>0, <2>1, <2>3, SlabsStay, LeavingSame
<1>6. CASE Touch(t)
  <2>1. UNCHANGED <<vslab, bin>> /\ Flow(t, "touch", "stamp") /\ Same(t)
    BY <1>6, TouchFlow DEF Touch
  <2> QED
    BY <1>0, <2>1, SlabsStay, LeavingSame
<1>7. CASE Stamp(t)
  <2>1. UNCHANGED bin /\ Flow(t, "stamp", "pop") /\ Same(t)
    BY <1>7, StampFlow DEF Stamp
  <2>2. PICK v \in SlabId : v = loc[t].v
    BY <1>0, <2>1, Placed
  <2>3. StampTo(v, timestamp)
    BY <1>7, <2>2 DEF Stamp, StampTo
  <2>4. \A w \in SlabId : SameBits(w) /\ SameState(w)
    BY <2>3, StampSet
  <2> QED
    BY <1>0, <2>1, <2>4, LeavingSame
<1> QED
  BY <1>1, <1>2, <1>3, <1>4, <1>5, <1>6, <1>7

LEMMA FillPopLeaves ==
  ASSUME TypeOK, Parted, Leaving, Running', NEW t \in Home, FillPop(t)
  PROVE  Leaving'
<1>0. t \in Threads
  BY DEF Threads
<1>1. PICK c \in Classes, v \in SlabId, s \in Slabs, i \in 0 .. SLAB_SIZE - 1, w \in Way :
           /\ c = loc[t].c /\ v = loc[t].v /\ s = vslab[v] /\ i = FirstFree(s)
           /\ w = i % NBANKS
           /\ i < s.sc.nbits /\ i \notin s.bits /\ s.nbits < s.sc.nbits
           /\ [blk |-> BlockAt(v, s.sc, i), id |-> i, dmeta |-> s.dmeta] \in Entries
  BY FillPopTakes
<1>2. PICK b, n : b = s.bits \cup {i} /\ n = s.nbits + 1
  BY Zenon
<1>3. BitsTo(v, b, n)
  BY Zenon, <1>1, <1>2, FillPopSets
<1>4. /\ \A x \in SlabId : SameState(x)
      /\ \A x \in SlabId : /\ vslab'[x].bits = IF x = v THEN b ELSE vslab[x].bits
                           /\ vslab'[x].nbits = IF x = v THEN n ELSE vslab[x].nbits
  BY <1>3, BitsSet
<1>5. Alone(t) /\ Same(t) /\ Where(t) = "pop"
      /\ (pc'[t] = "recount" \/ pc'[t] = Where(t)')
      /\ Where(t)' \in {"filled", "touch", "pop"}
  BY FillPopFlow
<1>6. n # 0
  BY <1>2 DEF Slabs
<1>7. \A x \in SlabId : vslab'[x].bits \subseteq vslab[x].bits \/ FillsAt(t, x)
  BY <1>1, <1>4, <1>5 DEF FillsAt, SlabSteps
<1>8. \A x \in SlabId : vslab'[x].state = vslab[x].state
  BY <1>4 DEF SameState
<1>9. \A x \in SlabId : vslab'[x].nbits = 0 => vslab[x].nbits = 0
  BY <1>4, <1>6
<1>10. UNCHANGED bin
  BY Zenon DEF FillPop
<1> QED
  BY <1>0, <1>5, <1>7, <1>8, <1>9, <1>10, LeavingKept DEF SlabSteps, FreeSteps, Same

LEMMA GetLeaves ==
  ASSUME TypeOK, SingleClass, Parted, Leaving, NEW t \in Home, slab_get_one(t),
         ~Create(t), ~Insert(t)
  PROVE  Leaving'
<1> USE DEF Flow, Same, SameClass, SlabSteps, FreeSteps
<1>0. t \in Threads
  BY DEF Threads
<1>1. CASE GetOne(t)
  <2>1. UNCHANGED <<vslab, bin>> /\ (Flow(t, "getone", "search") \/ Flow(t, "getone", "create"))
    BY <1>1, GetOneFlow DEF GetOne
  <2> QED
    BY <1>0, <2>1, SlabsStay, LeavingSame
<1>2. CASE Search(t)
  <2>1. UNCHANGED <<vslab, bin>> /\ Flow(t, "search", "scan")
    BY <1>2, SearchFlow DEF Search
  <2> QED
    BY <1>0, <2>1, SlabsStay, LeavingSame
<1>3. CASE SearchSkip(t)
  <2>1. UNCHANGED <<vslab, bin>> /\ Flow(t, "scan", "scan")
    BY <1>3, SearchSkipFlow DEF SearchSkip
  <2> QED
    BY <1>0, <2>1, SlabsStay, LeavingSame
<1>4. CASE SearchFound(t)
  <2>1. UNCHANGED <<vslab, bin>> /\ Flow(t, "scan", "candidate")
    BY <1>4, SearchFoundFlow DEF SearchFound
  <2> QED
    BY <1>0, <2>1, SlabsStay, LeavingSame
<1>5. CASE SearchFails(t)
  <2>1. UNCHANGED <<vslab, bin>> /\ Flow(t, "scan", "create")
    BY <1>5, SearchFailsFlow DEF SearchFails
  <2> QED
    BY <1>0, <2>1, SlabsStay, LeavingSame
<1> QED
  BY <1>1, <1>2, <1>3, <1>4, <1>5 DEF slab_get_one

LEMMA FreeLeaves ==
  ASSUME TypeOK, Ways, Parted, Leaving, NEW t \in Threads,
         \/ t \in Home /\ MallocTake(t)
         \/ FreeNew(t) \/ BackCheck(t) \/ BackLRU(t) \/ Recount(t)
  PROVE  Leaving'
<1> USE DEF Flow, Same, SameClass, SlabSteps, FreeSteps
<1>1. CASE t \in Home /\ MallocTake(t)
  <2>1. UNCHANGED bin /\ (Flow(t, "malloc", "idle") \/ Flow(t, "malloc", "malloc"))
    BY Zenon, <1>1, MallocTakeFlow DEF MallocTake
  <2>2. \A w \in SlabId : SameBits(w) /\ SameState(w)
    BY <1>1, MallocTakeSlabs
  <2> QED
    BY <2>1, <2>2, LeavingSame
<1>2. CASE FreeNew(t)
  <2>1. UNCHANGED bin
    BY <1>2 DEF FreeNew
  <2>2. (Flow(t, "free", "back") /\ Same(t)) \/ Flow(t, "free", "idle")
    BY <1>2, FreeNewFlow
  <2>3. PICK v \in SlabId : v = loc[t].v
    BY <2>2, Placed
  <2>4. PICK m, a : MetaTo(v, m, a)
    BY <1>2, <2>3, FreeNewSets
  <2>5. \A w \in SlabId : SameBits(w) /\ SameState(w)
    BY <2>3, <2>4, MetaSet
  <2> QED
    BY <2>1, <2>2, <2>5, LeavingSame
<1>3. CASE BackCheck(t)
  <2>1. UNCHANGED <<vslab, bin>>
    BY <1>3 DEF BackCheck
  <2>2. \/ Flow(t, "backcheck", "backlru") /\ Same(t) /\ vslab[loc[t].v].nbits = 0
        \/ Flow(t, "backcheck", "idle")
    BY <1>3, BackCheckFlow
  <2>3. Where(t)' = "backlru" => Apart(loc[t].v)
    BY <2>2 DEF Leaving, EmptyApart
  <2> QED
    BY <2>1, <2>2, <2>3, SlabsStay, LeavingSame
<1>4. CASE BackLRU(t)
  <2>1. UNCHANGED <<vslab, bin>>
    BY Zenon, <1>4 DEF BackLRU
  <2>2. /\ Alone(t) /\ Same(t)
        /\ Where(t) = "backlru" /\ pc'[t] = "recount" /\ Where(t)' = "dalloc"
    BY <1>4, BackLRUFlow
  <2>3. Apart(loc[t].v)
    BY <2>2 DEF Leaving, EmptyApart
  <2> QED
    BY <2>1, <2>2, <2>3, SlabsStay, LeavingSame
<1>5. CASE Recount(t)
  <2>1. UNCHANGED <<vslab, bin>>
    BY <1>5 DEF Recount
  <2>2. /\ Alone(t) /\ pc'[t] = Where(t) /\ Where(t)' = Where(t)
        /\ Where(t) \in {"pop", "touch", "filled", "insert", "rebuild", "idle", "backbin", "dalloc"}
        /\ Where(t) # "idle" => Same(t)
    BY <1>5, RecountFlow
  <2>3. Where(t) = "dalloc" => Apart(loc[t].v)
    BY DEF Leaving, EmptyApart
  <2> QED
    BY <2>1, <2>2, <2>3, SlabsStay, LeavingSame
<1> QED
  BY <1>1, <1>2, <1>3, <1>4, <1>5

LEMMA FreeBackLeaves ==
  ASSUME TypeOK, Parted, Leaving, NEW t \in Threads, FreeBack(t)
  PROVE  Leaving'
<1>1. /\ Alone(t) /\ pc[t] = "back" /\ Where(t) = "back" /\ Where(t)' \in {"backbin", "idle"}
      /\ pc'[t] \in {"recount", "backbin", "idle"}
      /\ Where(t)' = "backbin" => loc'[t].v = loc[t].v
  <2>1. /\ Alone(t) /\ pc[t] = "back" /\ Where(t) = "back" /\ Where(t)' \in {"backbin", "idle"}
    BY FreeBackFlow
  <2>2. \/ pc'[t] \in {"recount", "backbin"} /\ loc'[t].v = loc[t].v
        \/ pc'[t] = "idle"
    BY FreeBackFlow
  <2>3. pc'[t] # "recount" => Where(t)' = pc'[t]
    BY DEF Where, Going
  <2> QED
    BY <2>1, <2>2, <2>3
<1>2. PICK v \in SlabId, s \in Slabs : v = loc[t].v /\ s = vslab[v]
  BY <1>1, Placed DEF FreeSteps, TypeOK
<1>3. PICK b, n : b = s.bits \ {Index(t)} /\ n = (s.nbits - 1) % Half
  OBVIOUS
<1>4. BitsTo(v, b, n)
  BY <1>2, <1>3 DEF FreeBack, Returned, TypeOK, Slabs, BitsTo
<1>5. /\ \A x \in SlabId : SameState(x)
      /\ \A x \in SlabId : vslab'[x].bits = IF x = v THEN b ELSE vslab[x].bits
  BY <1>4, BitsSet
<1>6. \A x \in SlabId : vslab'[x].bits \subseteq vslab[x].bits
  BY <1>2, <1>3, <1>5
<1>7. \A x \in SlabId : vslab'[x].state = vslab[x].state
  BY <1>5 DEF SameState
<1>8. UNCHANGED bin
  BY Zenon DEF FreeBack
<1> QED
  BY <1>1, <1>6, <1>7, <1>8, LeavingKept DEF SlabSteps, FreeSteps

\* A list that has each slab once has the one that leaves no more.
LEMMA WithoutOnce ==
  ASSUME NEW S, NEW s \in Seq(S), NEW v, \A i, j \in 1 .. Len(s) : s[i] = s[j] => i = j
  PROVE  /\ \A i, j \in 1 .. Len(Without(s, v)) : Without(s, v)[i] = Without(s, v)[j] => i = j
         /\ Elems(Without(s, v)) \subseteq Elems(s) \ {v}
<1>1. CASE v \notin Elems(s)
  BY <1>1 DEF Without
<1>2. CASE v \in Elems(s)
  <2>1. PICK k \in 1 .. Len(s) : k = Place(s, v) /\ s[k] = v
    BY <1>2, Listing
  <2>2. PICK n \in Nat : n = Len(s)
    BY LenProperties
  <2>3. PICK a \in Seq(S), b \in Seq(S) : a = SubSeq(s, 1, k - 1) /\ b = SubSeq(s, k + 1, Len(s))
    <3>1. SubSeq(s, 1, k - 1) \in Seq(S) /\ SubSeq(s, k + 1, Len(s)) \in Seq(S)
      BY SubSeqProperties
    <3> QED
      BY <3>1
  <2>4. /\ Len(a) = k - 1 /\ \A i \in 1 .. k - 1 : a[i] = s[i]
        /\ Len(b) = n - k /\ \A i \in 1 .. n - k : b[i] = s[i + k]
    BY <2>2, <2>3, SubSeqProperties
  <2>5. PICK q : q = a \o b
    OBVIOUS
  <2>6. /\ Len(q) = n - 1
        /\ \A i \in 1 .. n - 1 : q[i] = IF i < k THEN s[i] ELSE s[i + 1]
    <3>1. Len(q) = Len(a) + Len(b)
          /\ \A i \in 1 .. Len(a) + Len(b) : q[i] = IF i <= Len(a) THEN a[i] ELSE b[i - Len(a)]
      BY <2>5, ConcatProperties
    <3>2. Len(a) + Len(b) = n - 1
      BY <2>2, <2>4
    <3>3. ASSUME NEW i \in 1 .. n - 1 PROVE q[i] = IF i < k THEN s[i] ELSE s[i + 1]
      <4>0. q[i] = IF i <= Len(a) THEN a[i] ELSE b[i - Len(a)]
        BY <3>1, <3>2
      <4>1. CASE i < k
        <5>1. i <= Len(a) /\ i \in 1 .. k - 1
          BY <2>4, <4>1
        <5> QED
          BY <2>4, <4>0, <4>1, <5>1
      <4>2. CASE ~(i < k)
        <5>1. PICK j \in 1 .. n - k : j = i - (k - 1) /\ j + k = i + 1
          BY <2>2, <4>2
        <5>2. ~(i <= Len(a)) /\ i - Len(a) = j
          BY <2>2, <2>4, <4>2, <5>1
        <5> QED
          BY <2>4, <4>0, <4>2, <5>1, <5>2
      <4> QED
        BY <4>1, <4>2
    <3> QED
      BY <3>1, <3>2, <3>3
  <2>7. q = Without(s, v)
    BY <1>2, <2>1, <2>3, <2>5 DEF Without, RemoveAt
  <2>8. ASSUME NEW i \in 1 .. n - 1, NEW j \in 1 .. n - 1, q[i] = q[j] PROVE i = j
    <3>1. PICK x \in 1 .. n : x = (IF i < k THEN i ELSE i + 1) /\ q[i] = s[x]
      BY <2>2, <2>6
    <3>2. PICK y \in 1 .. n : y = (IF j < k THEN j ELSE j + 1) /\ q[j] = s[y]
      BY <2>2, <2>6
    <3>3. x = y
      BY <2>2, <2>8, <3>1, <3>2
    <3> QED
      BY <2>2, <3>1, <3>2, <3>3
  <2>9. \A i \in 1 .. n - 1 : q[i] # v /\ \E j \in 1 .. n : q[i] = s[j]
    BY SMTT(30), <2>1, <2>2, <2>6
  <2>10. Len(q) = n - 1
    BY <2>6
  <2>11. \A i, j \in 1 .. Len(q) : q[i] = q[j] => i = j
    BY <2>8, <2>10
  <2>12. ASSUME NEW x \in Elems(q) PROVE x \in Elems(s) \ {v}
    <3>1. PICK i \in 1 .. n - 1 : x = q[i]
      BY <2>10 DEF Elems
    <3>2. PICK j \in 1 .. n : q[i] = s[j]
      BY <2>9
    <3> QED
      BY <2>2, <2>9, <3>1, <3>2 DEF Elems
  <2> QED
    BY <2>7, <2>11, <2>12
<1> QED
  BY <1>1, <1>2

LEMMA LeaveBinLeaves ==
  ASSUME TypeOK, SingleClass, Holders, Parted, Leaving, NEW t \in Threads, LeaveBin(t)
  PROVE  Leaving'
<1> USE DEF SlabSteps, FreeSteps
<1>1. Flow(t, "backbin", "backcheck") /\ Same(t)
  BY LeaveBinFlow, NeverMorphs DEF Flow
<1>2. Alone(t) /\ Where(t) = "backbin" /\ Where(t)' = "backcheck" /\ loc'[t].v = loc[t].v
  BY <1>1 DEF Flow, Same
<1>3. PICK v \in SlabId, c \in Classes : v = loc[t].v /\ c = loc[t].sc.c
  BY <1>2, TheLayoutType DEF TypeOK, Control, Where, Parted, NoMorph
<1>4. UNCHANGED vslab
  BY Zenon DEF LeaveBin
<1>5. \A d \in Classes :
        /\ bin[d].list \in Seq(SlabId)
        /\ bin'[d].list = IF StillEmpty(v) THEN Without(bin[d].list, v) ELSE bin[d].list
  <2>1. \A d \in Classes : bin[d].list \in Seq(SlabId)
    BY DEF TypeOK, Bins
  <2>2. CASE StillEmpty(v)
    <3>1. bin' = Deleted(c, v)
      BY Zenon, <1>3, <2>2 DEF LeaveBin
    <3> QED
      BY <2>1, <2>2, <3>1 DEF Deleted
  <2>3. CASE ~StillEmpty(v)
    <3>1. bin' = bin
      BY <1>3, <2>3 DEF LeaveBin
    <3> QED
      BY <2>1, <2>3, <3>1
  <2> QED
    BY <2>2, <2>3
<1>6. \A d \in Classes :
        /\ \A i, j \in 1 .. Len(bin'[d].list) : bin'[d].list[i] = bin'[d].list[j] => i = j
        /\ Elems(bin'[d].list) \subseteq Elems(bin[d].list)
        /\ StillEmpty(v) => v \notin Elems(bin'[d].list)
  <2> SUFFICES ASSUME NEW d \in Classes
               PROVE  /\ \A i, j \in 1 .. Len(bin'[d].list) :
                           bin'[d].list[i] = bin'[d].list[j] => i = j
                      /\ Elems(bin'[d].list) \subseteq Elems(bin[d].list)
                      /\ StillEmpty(v) => v \notin Elems(bin'[d].list)
    OBVIOUS
  <2>1. PICK s \in Seq(SlabId) : s = bin[d].list
    BY <1>5
  <2>2. \A i, j \in 1 .. Len(s) : s[i] = s[j] => i = j
    BY <2>1 DEF Leaving, ListedOnce
  <2>3. PICK q : q = Without(s, v)
    OBVIOUS
  <2>4. /\ \A i, j \in 1 .. Len(q) : q[i] = q[j] => i = j
        /\ Elems(q) \subseteq Elems(s) \ {v}
    BY <2>2, <2>3, WithoutOnce
  <2>5. CASE StillEmpty(v)
    <3>1. bin'[d].list = q
      BY <1>5, <2>1, <2>3, <2>5
    <3> QED
      BY <2>1, <2>4, <3>1
  <2>6. CASE ~StillEmpty(v)
    <3>1. bin'[d].list = s
      BY <1>5, <2>1, <2>6
    <3> QED
      BY <2>1, <2>2, <2>6, <3>1
  <2> QED
    BY <2>5, <2>6
<1>7. FreesAlone'
  BY <1>2, <1>4, FreesAloneKept DEF Leaving
<1>8. ListedOnce'
  <2>1. \A u \in Threads : Where(u)' = "insert" => Where(u) = "insert" /\ loc'[u].v = loc[u].v
    BY <1>2 DEF Alone
  <2> QED
    BY <1>4, <1>6, <2>1 DEF Leaving, ListedOnce
<1>9. EmptyAt(t)'
  <2> SUFFICES ASSUME vslab[v].nbits = 0 PROVE Apart(v)'
    BY <1>2, <1>3, <1>4 DEF EmptyAt, Apart, FillsFrom
  <2>1. vslab[v].bits = {}
    <3>1. vslab[v].nbits = Cardinality(vslab[v].bits)
      BY DEF Parted, BitsExact
    <3>2. IsFiniteSet(vslab[v].bits)
      BY SlabFinite
    <3> QED
      BY <3>1, <3>2, FS_EmptySet
  <2>2. \A u \in Threads : ~Filling(u)
    <3> SUFFICES ASSUME NEW u \in Threads, Filling(u) PROVE FALSE
      OBVIOUS
    <3>1. loc[u].c \in Classes
      BY DEF Filling, TypeOK, Control, Where
    <3>2. lock.bin[loc[u].c] = u
      BY <3>1 DEF Holders, Filling
    <3>3. loc[u].c = c
      BY <3>1, OneClass
    <3>4. lock.bin[c] = NoThread
      BY Zenon, <1>3 DEF LeaveBin
    <3> QED
      BY <3>2, <3>3, <3>4, ThreadsAssumption
  <2>3. \A u \in Threads : ~FillsAt(u, v)'
    BY <1>2, <2>2 DEF Alone, FillsAt, Filling, FillSteps
  <2>4. FillsFrom(v)' = {}
    BY <2>3 DEF FillsFrom, FillsAt
  <2> QED
    BY <1>4, <1>6, <2>1, <2>4 DEF Apart, StillEmpty
<1>10. EmptyApart'
  <2>1. ASSUME NEW w \in SlabId, Apart(w) PROVE Apart(w)'
    <3>1. ~FillsAt(t, w)'
      BY <1>2 DEF FillsAt
    <3> QED
      BY <1>2, <1>4, <1>6, <2>1, <3>1, ApartKept
  <2> QED
    BY <1>2, <1>4, <1>9, <2>1, EmptyApartKept DEF Leaving
<1> QED
  BY <1>7, <1>8, <1>10 DEF Leaving

LEMMA DallocLeaves ==
  ASSUME TypeOK, Parted, Leaving, NEW t \in Threads, Dalloc(t)
  PROVE  Leaving'
<1> USE DEF SlabSteps, FreeSteps
<1>1. Alone(t) /\ Where(t) = "dalloc" /\ pc'[t] = "idle" /\ Where(t)' = "idle"
  BY DallocFlow DEF Flow
<1>2. PICK v \in SlabId : v = loc[t].v
  BY <1>1 DEF TypeOK, Control, Where
<1>03. ~Release(t) /\ UNCHANGED bin
  BY NeverMorphs DEF Dalloc
<1>3. PICK F : StateTo(v, "gone", F) /\ UNCHANGED bin
  BY <1>03, <1>2, ReleaseSets
<1>4. /\ \A w \in SlabId : SameBits(w)
      /\ \A w \in SlabId : vslab'[w].state = IF w = v THEN "gone" ELSE vslab[w].state
  BY <1>3, StateSet
<1>5. \A w \in SlabId : vslab'[w].state = "none" => vslab[w].state = "none"
  BY <1>4
<1>6. FreesAlone' /\ ListedOnce'
  BY <1>1, <1>3, <1>5, FreesAloneKept, ListedOnceKept DEF Leaving
<1>7. ASSUME NEW w \in SlabId, Apart(w) PROVE Apart(w)'
  <2>1. ~FillsAt(t, w)' /\ vslab'[w].bits \subseteq vslab[w].bits
    BY <1>1, <1>4 DEF FillsAt, SameBits
  <2> QED
    BY <1>1, <1>3, <1>7, <2>1, ApartKept
<1>8. Apart(v)
  BY <1>1, <1>2 DEF Leaving, EmptyApart
<1>9. EmptyAt(t)'
  BY <1>1 DEF EmptyAt
<1>10. \A w \in SlabId : vslab'[w].nbits = 0 => vslab[w].nbits = 0
  BY <1>4 DEF SameBits
<1>11. \A w \in SlabId : vslab'[w].state = "gone" => vslab[w].state = "gone" \/ Apart(w)'
  BY <1>4, <1>7, <1>8
<1> QED
  BY <1>1, <1>6, <1>7, <1>9, <1>10, <1>11, EmptyApartKept DEF Leaving

LEMMA FreeCallLeaves ==
  ASSUME TypeOK, OneFrees, Parted, Leaving, NEW t \in Threads, NEW b \in held, FreeCall(t, b)
  PROVE  Leaving'
<1> USE DEF SlabSteps, FreeSteps
<1>1. /\ Alone(t) /\ Where(t) = "idle" /\ pc'[t] = "free" /\ Where(t)' = "free"
      /\ loc'[t].v = b.v
  BY FreeCallFlow DEF Flow
<1>2. UNCHANGED <<vslab, bin>> /\ t \in Freeing
  BY DEF FreeCall
<1>3. \A u \in Threads : Where(u) \notin FreeSteps
  <2> SUFFICES ASSUME NEW u \in Threads, Where(u) \in FreeSteps PROVE FALSE
    OBVIOUS
  <2>1. CASE Serial
    BY <2>1 DEF FreeCall, Where, Going
  <2>2. CASE ~Serial
    BY <1>1, <1>2, <2>2 DEF OneFrees, Leaving, FreesAlone
  <2> QED
    BY <2>1, <2>2
<1>4. vslab[b.v].state # "none"
  BY HeldBlock DEF Parted, MadeFirst
<1>5. FreesAlone'
  BY <1>1, <1>2, <1>3, <1>4 DEF FreesAlone, Alone
<1>6. ListedOnce'
  BY <1>1, <1>2, ListedOnceKept DEF Leaving
<1>7. ASSUME NEW w \in SlabId, Apart(w) PROVE Apart(w)'
  <2>1. ~FillsAt(t, w)'
    BY <1>1 DEF FillsAt
  <2> QED
    BY <1>1, <1>2, <1>7, <2>1, ApartKept
<1>8. EmptyAt(t)'
  BY <1>1 DEF EmptyAt
<1>9. EmptyApart'
  BY <1>1, <1>2, <1>7, <1>8, EmptyApartKept DEF Leaving
<1> QED
  BY <1>5, <1>6, <1>9 DEF Leaving

LEMMA CreateLeaves ==
  ASSUME TypeOK, Parted, Leaving, NEW t \in Home, Create(t)
  PROVE  Leaving'
<1> USE DEF SlabSteps, FreeSteps
<1>1. /\ t \in Threads /\ Alone(t) /\ pc'[t] = "recount" /\ Where(t)' = "insert"
      /\ loc'[t].v = made + 1
  BY CreateFlow
<1>2. PICK v \in SlabId : v = made + 1
  BY PolicyAssumption DEF Create, TypeOK, SlabId
<1>3. vslab[v].state = "none" /\ vslab[v].bits = {} /\ vslab[v].nbits = 0
  <2>1. v > made
    BY <1>2 DEF TypeOK
  <2> QED
    BY <2>1, FS_EmptySet DEF Parted, MadeFirst, BitsExact
<1>4. PICK f : f = Fresh(loc[t].c)
  OBVIOUS
<1>5. f.state = "live" /\ f.bits = {} /\ f.nbits = 0
  BY <1>4 DEF Fresh
<1>6. \A w \in SlabId : vslab'[w] = IF w = v THEN f ELSE vslab[w]
  BY <1>2, <1>4 DEF Create, TypeOK
<1>7. \A w \in SlabId : /\ vslab'[w].state = "none" => vslab[w].state = "none"
                        /\ vslab'[w].state = "gone" => vslab[w].state = "gone"
                        /\ vslab'[w].bits = vslab[w].bits /\ vslab'[w].nbits = vslab[w].nbits
  BY <1>3, <1>5, <1>6
<1>8. UNCHANGED bin
  BY DEF Create
<1>9. FreesAlone'
  BY <1>1, <1>7, FreesAloneKept DEF Leaving
<1>10. ListedOnce'
  <2>1. \A c \in Classes : Elems(bin[c].list) \subseteq SlabId
    BY Listing DEF TypeOK, Bins
  <2>2. \A c \in Classes : v \notin Elems(bin[c].list)
    BY <1>3 DEF Leaving, ListedOnce
  <2>3. \A u \in Threads : u # t => (Where(u)' = "insert" => Where(u) = "insert" /\ loc'[u].v = loc[u].v)
    BY <1>1 DEF Alone
  <2>4. \A c \in Classes :
          /\ \A i, j \in 1 .. Len(bin'[c].list) : bin'[c].list[i] = bin'[c].list[j] => i = j
          /\ \A w \in Elems(bin'[c].list) : vslab'[w].state # "none"
    BY <1>7, <1>8, <2>1 DEF Leaving, ListedOnce
  <2>5. ASSUME NEW u \in Threads, Where(u)' = "insert", NEW c \in Classes
        PROVE  loc'[u].v \notin Elems(bin'[c].list)
    <3>1. CASE u = t
      BY <1>1, <1>2, <1>8, <2>2, <3>1
    <3>2. CASE u # t
      BY <1>8, <2>3, <2>5, <3>2 DEF Leaving, ListedOnce
    <3> QED
      BY <3>1, <3>2
  <2> QED
    BY <2>4, <2>5 DEF ListedOnce
<1>11. ASSUME NEW w \in SlabId, Apart(w), vslab[w].state # "none" PROVE Apart(w)'
  <2>1. ~FillsAt(t, w)'
    BY <1>1, <1>2, <1>3, <1>11 DEF FillsAt
  <2> QED
    BY <1>1, <1>7, <1>8, <1>11, <2>1, ApartKept
<1>12. EmptyAt(t)'
  BY <1>1 DEF EmptyAt
<1>13. EmptyApart'
  BY <1>1, <1>7, <1>11, <1>12, EmptyApartKept DEF Leaving
<1> QED
  BY <1>9, <1>10, <1>13 DEF Leaving

\* A list with a slab put first.
LEMMA FirstOnce ==
  ASSUME NEW S, NEW s \in Seq(S), NEW v \in S, v \notin Elems(s),
         \A i, j \in 1 .. Len(s) : s[i] = s[j] => i = j
  PROVE  /\ \A i, j \in 1 .. Len(<<v>> \o s) : (<<v>> \o s)[i] = (<<v>> \o s)[j] => i = j
         /\ Elems(<<v>> \o s) = Elems(s) \cup {v}
<1>1. PICK n \in Nat : n = Len(s)
  BY LenProperties
<1>2. PICK q : q = <<v>> \o s
  OBVIOUS
<1>3. Len(q) = n + 1 /\ q[1] = v /\ \A i \in 1 .. n : q[i + 1] = s[i]
  <2>1. <<v>> \in Seq(S) /\ Len(<<v>>) = 1 /\ <<v>>[1] = v
    OBVIOUS
  <2>2. Len(q) = 1 + n /\ \A i \in 1 .. 1 + n : q[i] = IF i <= 1 THEN <<v>>[i] ELSE s[i - 1]
    BY <1>1, <1>2, <2>1, ConcatProperties
  <2> QED
    BY <1>1, <2>1, <2>2
<1>4. ASSUME NEW i \in 2 .. n + 1 PROVE \E k \in 1 .. n : i = k + 1 /\ q[i] = s[k]
  <2>1. i - 1 \in 1 .. n /\ i = (i - 1) + 1
    BY <1>1
  <2> QED
    BY <1>3, <2>1
<1>5. \A i \in 2 .. n + 1 : q[i] \in Elems(s) /\ q[i] # v
  BY <1>1, <1>4 DEF Elems
<1>6. ASSUME NEW i \in 1 .. n + 1, NEW j \in 1 .. n + 1, q[i] = q[j] PROVE i = j
  <2>1. CASE i = 1 \/ j = 1
    BY <1>1, <1>3, <1>5, <1>6, <2>1
  <2>2. CASE i # 1 /\ j # 1
    <3>1. i \in 2 .. n + 1 /\ j \in 2 .. n + 1
      BY <1>1, <2>2
    <3>2. PICK k \in 1 .. n, l \in 1 .. n : i = k + 1 /\ q[i] = s[k] /\ j = l + 1 /\ q[j] = s[l]
      BY <1>4, <3>1
    <3> QED
      BY <1>1, <1>6, <3>2
  <2> QED
    BY <2>1, <2>2
<1>7. Elems(q) = Elems(s) \cup {v}
  <2>1. \A i \in 1 .. n + 1 : i = 1 \/ i \in 2 .. n + 1
    BY <1>1
  <2>2. Elems(q) \subseteq Elems(s) \cup {v}
    BY <1>3, <1>5, <2>1 DEF Elems
  <2>3. \A i \in 1 .. n : i + 1 \in 1 .. n + 1
    BY <1>1
  <2>4. 1 \in 1 .. n + 1
    BY <1>1
  <2>5. Elems(s) \cup {v} \subseteq Elems(q)
    BY <1>1, <1>3, <2>3, <2>4 DEF Elems
  <2> QED
    BY <2>2, <2>5
<1> QED
  BY <1>2, <1>3, <1>6, <1>7

LEMMA InsertLeaves ==
  ASSUME TypeOK, SingleClass, Holders, Parted, Leaving, NEW t \in Home, Insert(t)
  PROVE  Leaving'
<1> USE DEF SlabSteps, FreeSteps
<1>1. /\ t \in Threads /\ Alone(t) /\ pc[t] = "insert" /\ Where(t) = "insert"
      /\ pc'[t] = "visit" /\ Where(t)' = "visit"
  BY InsertFlow DEF Flow
<1>2. PICK v \in SlabId, c \in Classes : v = loc[t].v /\ c = loc[t].c
  BY <1>1, Placed DEF FillSteps
<1>3. UNCHANGED vslab
  BY DEF Insert
<1>4. \A d \in Classes :
        /\ bin[d].list \in Seq(SlabId)
        /\ bin'[d].list = IF d = c THEN <<v>> \o bin[d].list ELSE bin[d].list
  <2>1. PICK k : k = Inserted(bin[c], v)
    OBVIOUS
  <2>2. k.list = <<v>> \o bin[c].list
    BY <2>1 DEF Inserted
  <2>3. bin' = [bin EXCEPT ![c] = k]
    BY <1>2, <2>1 DEF Insert
  <2>4. \A d \in Classes : bin'[d] = IF d = c THEN k ELSE bin[d]
    BY <2>3 DEF TypeOK
  <2>5. \A d \in Classes : bin[d].list \in Seq(SlabId)
    BY DEF TypeOK, Bins
  <2> QED
    BY <2>2, <2>4, <2>5
<1>5. \A d \in Classes : v \notin Elems(bin[d].list)
  BY <1>1, <1>2 DEF Leaving, ListedOnce
<1>6. ASSUME NEW d \in Classes
      PROVE  /\ \A i, j \in 1 .. Len(bin'[d].list) : bin'[d].list[i] = bin'[d].list[j] => i = j
             /\ Elems(bin'[d].list) \subseteq Elems(bin[d].list) \cup {v}
  <2>1. PICK s \in Seq(SlabId) : s = bin[d].list
    BY <1>4
  <2>2. (\A i, j \in 1 .. Len(s) : s[i] = s[j] => i = j) /\ v \notin Elems(s)
    BY <1>5, <2>1 DEF Leaving, ListedOnce
  <2>3. CASE d = c
    <3>1. bin'[d].list = <<v>> \o s
      BY <1>4, <2>1, <2>3
    <3>2. PICK q : q = <<v>> \o s
      OBVIOUS
    <3>3. /\ \A i, j \in 1 .. Len(q) : q[i] = q[j] => i = j
          /\ Elems(q) = Elems(s) \cup {v}
      BY <2>2, <3>2, FirstOnce
    <3> QED
      BY <2>1, <3>1, <3>2, <3>3
  <2>4. CASE d # c
    <3>1. bin'[d].list = s
      BY <1>4, <2>1, <2>4
    <3> QED
      BY <2>1, <2>2, <3>1
  <2> QED
    BY <2>3, <2>4
<1>7. FreesAlone'
  BY <1>1, <1>3, FreesAloneKept DEF Leaving
<1>8. ListedOnce'
  <2>1. ASSUME NEW u \in Threads, Where(u)' = "insert" PROVE FALSE
    <3>1. u # t /\ Where(u) = "insert"
      BY <1>1, <2>1 DEF Alone
    <3>2. u \in Home /\ loc[u].c \in Classes
      BY <3>1, WherePlaced DEF FillSteps
    <3>3. loc[u].c = c
      BY <3>2, OneClass
    <3>4. lock.bin[c] = t /\ lock.bin[c] = u
      BY <1>1, <1>2, <3>1, <3>3 DEF Holders, FillSteps
    <3> QED
      BY <3>1, <3>4
  <2>2. vslab[v].state # "none"
    BY <1>1, <1>2 DEF Parted, MadeFirst
  <2> QED
    BY <1>3, <1>6, <2>1, <2>2 DEF Leaving, ListedOnce
<1>9. ASSUME NEW w \in SlabId, Apart(w) PROVE Apart(w)'
  <2>1. ~FillsAt(t, w)'
    BY <1>1 DEF FillsAt
  <2>2. w # v
    BY <1>1, <1>2, <1>9 DEF Apart, FillsFrom
  <2> QED
    BY <1>1, <1>3, <1>6, <1>9, <2>1, <2>2, ApartKept
<1>10. EmptyAt(t)'
  BY <1>1 DEF EmptyAt
<1>11. EmptyApart'
  BY <1>1, <1>3, <1>9, <1>10, EmptyApartKept DEF Leaving
<1> QED
  BY <1>7, <1>8, <1>11 DEF Leaving

----------------------------------------------------------------------------
(* The release, in every step. *)

LEMMA NextLeaves ==
  ASSUME TypeOK, Ways, Holders, SingleClass, OneFrees, Parted, Leaving, Running', Next
  PROVE  Leaving'
<1>1. ASSUME NEW t \in Home, nvalloc_malloc_to(t) PROVE Leaving'
  <2>1. t \in Threads
    BY DEF Threads
  <2>2. ~FillStops(t) /\ ~MallocStops(t) /\ ~slab_morphing(t)
    BY <2>1, NeverMorphs DEF FillStops, MallocStops, Stop, Running
  <2>3. CASE Fill(t)
    BY <2>2, <2>3, FillLeaves, FillPopLeaves DEF Fill
  <2>4. CASE slab_get_one(t)
    BY <2>4, GetLeaves, CreateLeaves, InsertLeaves
  <2>5. CASE \E c \in Classes : MallocCall(t, c)
    BY <2>5, FillLeaves
  <2>6. CASE MallocTake(t)
    BY <2>1, <2>6, FreeLeaves
  <2> QED
    BY <1>1, <2>2, <2>3, <2>4, <2>5, <2>6 DEF nvalloc_malloc_to
<1>2. ASSUME NEW t \in Threads, slab_free_small(t) PROVE Leaving'
  BY <1>2, NeverMorphs, FreeLeaves, FreeCallLeaves, FreeBackLeaves, LeaveBinLeaves, DallocLeaves
     DEF slab_free_small
<1> QED
  BY <1>1, <1>2, FreeLeaves DEF Next

LEMMA NextSets ==
  ASSUME TypeOK, Ways, SingleClass, Parted, HeldSet, Running', Next
  PROVE  HeldSet'
<1>1. ASSUME NEW t \in Home, nvalloc_malloc_to(t) PROVE HeldSet'
  <2>1. t \in Threads
    BY DEF Threads
  <2>2. ~slab_morphing(t)
    BY <2>1, NeverMorphs
  <2>3. CASE Stamp(t)
    <3>1. PICK v \in SlabId : v = loc[t].v
      BY <2>1, <2>3, Placed DEF Stamp, At
    <3>2. StampTo(v, timestamp) /\ held' = held
      BY <2>3, <3>1 DEF Stamp, StampTo
    <3> QED
      BY <3>2, StampSet, HeldStays
  <2>4. CASE FillPop(t)
    <3>1. PICK c \in Classes, v \in SlabId, s \in Slabs, i \in 0 .. SLAB_SIZE - 1, w \in Way :
           /\ c = loc[t].c /\ v = loc[t].v /\ s = vslab[v] /\ i = FirstFree(s)
           /\ w = i % NBANKS
           /\ i < s.sc.nbits /\ i \notin s.bits /\ s.nbits < s.sc.nbits
           /\ [blk |-> BlockAt(v, s.sc, i), id |-> i, dmeta |-> s.dmeta] \in Entries
      BY <2>4, FillPopTakes
    <3>2. PICK b, n : b = s.bits \cup {i} /\ n = s.nbits + 1
      BY Zenon
    <3>3. BitsTo(v, b, n) /\ held' = held
      BY Zenon, <2>4, <3>1, <3>2, FillPopSets DEF FillPop
    <3> QED
      BY <3>3, BitsSet, HeldStays
  <2>5. CASE Fill(t) /\ ~Stamp(t) /\ ~FillPop(t)
    <3>1. UNCHANGED <<vslab, held>>
      BY Zenon, <2>5 DEF Fill, FillLock, FillVisit, FillStops, FillNext, Filled, Touch
    <3> QED
      BY <3>1, SlabsStay, HeldStays
  <2>6. CASE slab_get_one(t) /\ ~Create(t)
    <3>1. UNCHANGED <<vslab, held>>
      BY <2>6 DEF slab_get_one, GetOne, Search, SearchSkip, SearchFound, SearchFails, Insert
    <3> QED
      BY <3>1, SlabsStay, HeldStays
  <2>7. CASE (\E c \in Classes : MallocCall(t, c)) \/ MallocStops(t)
    <3>1. UNCHANGED <<vslab, held>>
      BY Zenon, <2>7 DEF MallocCall, MallocStops
    <3> QED
      BY <3>1, SlabsStay, HeldStays
  <2> QED
    BY <1>1, <2>2, <2>3, <2>4, <2>5, <2>6, <2>7, CreateSets, TakeSets DEF nvalloc_malloc_to
<1>2. ASSUME NEW t \in Threads, slab_free_small(t) \/ Recount(t) PROVE HeldSet'
  <2>1. CASE \E b \in held : FreeCall(t, b)
    <3>1. UNCHANGED vslab /\ held' \subseteq held
      BY <2>1 DEF FreeCall
    <3> QED
      BY <3>1, SlabsStay, HeldStays
  <2>2. CASE LeaveBin(t) \/ BackCheck(t) \/ BackLRU(t) \/ Recount(t)
    <3>1. UNCHANGED <<vslab, held>>
      BY Zenon, <2>2 DEF LeaveBin, BackCheck, BackLRU, Recount
    <3> QED
      BY <3>1, SlabsStay, HeldStays
  <2>3. CASE FreeBack(t)
    <3>1. PICK v \in SlabId, s \in Slabs : v = loc[t].v /\ s = vslab[v]
      BY <2>3, Placed DEF FreeBack, At, FreeSteps, TypeOK
    <3>2. PICK b, n : b = s.bits \ {Index(t)} /\ n = (s.nbits - 1) % Half
      OBVIOUS
    <3>3. BitsTo(v, b, n) /\ held' = held
      BY <2>3, <3>1, <3>2 DEF FreeBack, Returned, TypeOK, Slabs, BitsTo
    <3> QED
      BY SMTT(30), <3>3, BitsSet, HeldStays
  <2>4. CASE Dalloc(t)
    <3>1. PICK v \in SlabId : v = loc[t].v
      BY <2>4, Placed DEF Dalloc, At, FreeSteps
    <3>02. ~Release(t) /\ held' = held
      BY <2>4, NeverMorphs DEF Dalloc
    <3>2. PICK F : StateTo(v, "gone", F) /\ held' = held
      BY <2>4, <3>02, <3>1, ReleaseSets
    <3> QED
      BY <3>2, StateSet, HeldStays
  <2> QED
    BY <1>2, <2>1, <2>2, <2>3, <2>4, NeverMorphs, GivingSets DEF slab_free_small
<1> QED
  BY <1>1, <1>2 DEF Next

\* With one class, flags that read as FALSE until they are written, and one thread
\* that frees at a time, a block the program has is set on the medium, and a slab is
\* released only when it is empty, in no bin, and not filled from.
THEOREM ReleaseIsSafe == SingleClass /\ OneFrees => (Spec => []ReleaseInv)
<1> SUFFICES ASSUME SingleClass, OneFrees PROVE Spec => []ReleaseInv
  OBVIOUS
<1>1. Init => ReleaseInv
  <2> SUFFICES ASSUME Init PROVE TypeOK /\ HeldSet /\ Leaving
    BY DEF ReleaseInv
  <2>1. TypeOK /\ HeldSet
    BY InitType DEF Init, HeldSet
  <2>2. \A t \in Threads : Where(t) = "idle" /\ pc[t] = "idle"
    BY DEF Init, Where, Going
  <2>3. \A c \in Classes : bin[c].list = <<>>
    BY DEF Init
  <2>4. \A v \in SlabId : vslab[v].state = "none"
    BY InitParts DEF Parted, MadeFirst, Init, SlabId
  <2>5. FreesAlone /\ EmptyApart
    BY <2>2, <2>4 DEF FreesAlone, EmptyApart, FreeSteps
  <2>6. ListedOnce
    BY <2>2, <2>3, EmptySeq DEF ListedOnce, Elems
  <2> QED
    BY <2>1, <2>5, <2>6 DEF Leaving
<1>2. WaysInv /\ LocksInv /\ BlocksInv /\ ReleaseInv /\ [Next]_vars => ReleaseInv'
  <2> SUFFICES ASSUME WaysInv, LocksInv, BlocksInv, ReleaseInv, [Next]_vars, Running'
               PROVE  TypeOK' /\ HeldSet' /\ Leaving'
    BY DEF ReleaseInv
  <2>1. CASE Next
    <3>1. /\ Running /\ TypeOK /\ Ways /\ Holders /\ Parted /\ HeldSet /\ Leaving
      BY <2>1, NextRuns DEF WaysInv, LocksInv, BlocksInv, ReleaseInv, Parted
    <3> QED
      BY <2>1, <3>1, NextType, NextSets, NextLeaves
  <2>2. CASE UNCHANGED vars
    <3>1. Running /\ TypeOK /\ HeldSet /\ Leaving
      BY <2>2 DEF vars, Running, ReleaseInv
    <3>2. TypeOK' /\ HeldSet'
      BY <2>2, <3>1 DEF vars, TypeOK, HeldSet
    <3>3. Leaving'
      BY <2>2, <3>1 DEF vars, Leaving, FreesAlone, ListedOnce, EmptyApart, Apart, FillsFrom, Where
    <3> QED
      BY <3>2, <3>3
  <2> QED
    BY <2>1, <2>2
<1> QED
  BY <1>1, <1>2, TypeAndWays, LocksStayHeld, BlocksStayExact, PTL DEF Spec

\* With one class, and one thread that frees at a time, a block the program has is
\* recorded on the medium, and its slab is not released (nvalloc.c:125,
\* slab.c:451-452, 591-606).
THEOREM HeldStaysRecorded == SingleClass => (Spec => []HeldIsRecorded)
<1> SUFFICES ASSUME SingleClass PROVE Spec => []HeldIsRecorded
  OBVIOUS
<1>1. ASSUME OneFrees PROVE BlocksInv /\ ReleaseInv => HeldIsRecorded
  <2> SUFFICES ASSUME BlocksInv, ReleaseInv, Running, NEW b \in held
               PROVE  /\ vslab[b.v].state = "live"
                      /\ Taken(b.v, b) \subseteq vslab[b.v].meta
                      /\ b.c = vslab[b.v].sc.c
    BY DEF HeldIsRecorded
  <2>1. TypeOK /\ Parted /\ HeldSet /\ EmptyApart
    BY DEF BlocksInv, ReleaseInv, Parted, Leaving
  <2>2. PICK i \in Ids : /\ b.v \in SlabId /\ i \in Int /\ b = Blk(b.v, i)
                         /\ IndexIn(TheLayout, b.off) = i /\ i \in vslab[b.v].bits
    BY <2>1, HeldBlock
  <2>3. vslab[b.v].state # "none" /\ vslab[b.v].state # "gone"
    BY <2>1, <2>2 DEF Parted, MadeFirst, EmptyApart, Apart
  <2>4. vslab[b.v].state \in {"none", "live", "gone"}
    BY <2>1, <2>2 DEF TypeOK, Slabs
  <2>5. Taken(b.v, b) = {i}
    BY <2>1, <2>2, TakenOne DEF Parted
  <2>6. i \in vslab[b.v].meta
    BY <2>1, <2>2 DEF HeldSet
  <2>7. b.c = TheClass
    BY <2>2, BlockPlace
  <2>8. vslab[b.v].sc.c = TheClass
    BY <2>1, <2>2, TheLayoutType DEF Parted, NoMorph
  <2> QED
    BY <2>3, <2>4, <2>5, <2>6, <2>7, <2>8
<1>2. CASE OneFrees
  BY <1>1, <1>2, BlocksStayExact, ReleaseIsSafe, PTL
<1>3. CASE ~OneFrees
  <2>1. HeldIsRecorded
    BY <1>3 DEF HeldIsRecorded
  <2> QED
    BY <2>1, PTL
<1> QED
  BY <1>2, <1>3

=============================================================================
