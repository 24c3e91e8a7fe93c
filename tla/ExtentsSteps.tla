---------------------------- MODULE ExtentsSteps ----------------------------
(*************************************************************************)
(* What every step of a thread leaves of the pages, of the owners of an  *)
(* extent, of the tree and of the pools: the state that several threads  *)
(* share. A step of a thread either leaves the extents alone (Plain),    *)
(* moves an extent between a pool and a thread (Pooling), or cuts, makes,*)
(* joins or forgets extents (Shaping).                                   *)
(*************************************************************************)
EXTENDS ExtentsInv, FiniteSetTheorems, SequenceTheorems, WellFoundedInduction, TLAPS

----------------------------------------------------------------------------
(* Numbers. *)

LEMMA Minimum ==
  ASSUME NEW S \in SUBSET Nat, S # {}
  PROVE  Least(S) \in S /\ \A j \in S : Least(S) <= j
<1> DEFINE R == {r \in Nat \X Nat : r[1] < r[2]}
<1>1. OpToRel(<, Nat) = R
  BY DEF OpToRel
<1>2. IsWellFoundedOn(R, Nat)
  BY Zenon, <1>1, NatLessThanWellFounded
<1>3. PICK x \in S : \A y \in S : <<y, x>> \notin R
  <2> HIDE DEF R
  <2> QED
    BY <1>2, WFMin
<1>4. ASSUME NEW j \in S PROVE x <= j
  <2> SUFFICES ASSUME j < x PROVE FALSE
    OBVIOUS
  <2>1. <<j, x>> \in R
    OBVIOUS
  <2> QED
    BY <1>3, <2>1
<1> QED
  BY <1>4 DEF Least

LEMMA LeastOfTwo ==
  ASSUME NEW a \in Int, NEW b \in Int
  PROVE  Least({a, b}) = IF a <= b THEN a ELSE b
<1>1. \E i \in {a, b} : \A j \in {a, b} : i <= j
  OBVIOUS
<1> QED
  BY <1>1 DEF Least

LEMMA Division ==
  ASSUME NEW a \in Nat, NEW d \in Nat \ {0}
  PROVE  a = d * (a \div d) + (a % d) /\ a % d \in 0 .. (d - 1)
<1>1. a \div d \in Nat /\ a % d \in 0 .. (d - 1)
  OBVIOUS
<1>2. a = d * (a \div d) + (a % d)
  OBVIOUS
<1> QED
  BY <1>1, <1>2

LEMMA Sizes ==
  /\ CHUNK \in Nat \ {0} /\ NFILES \in Nat \ {0}
  /\ NPages \in Nat \ {0} /\ CHUNK <= NPages
  /\ Top \in Nat \ {0} /\ NPages <= psz[Top]
  /\ SLAB \in 1 .. CHUNK
  /\ SLAB_SCIND = Top + 3 /\ MAX_PSZ_IDX = Top + 1
<1>1. CHUNK \in Nat \ {0} /\ NFILES \in Nat \ {0} /\ Top \in Nat \ {0}
  BY SizesAssumption
<1>2. PICK m \in Nat : NFILES = m + 1
  <2>1. NFILES - 1 \in Nat /\ NFILES = (NFILES - 1) + 1
    BY <1>1
  <2> QED
    BY <2>1
<1>3. m * CHUNK \in Nat /\ NPages = m * CHUNK + CHUNK
  BY <1>1, <1>2 DEF NPages
<1>4. NPages \in Nat \ {0} /\ CHUNK <= NPages
  BY <1>1, <1>3
<1>5. SLAB \in 1 .. CHUNK
  BY <1>1, SizesAssumption
<1> QED
  BY <1>1, <1>4, <1>5, SizesAssumption DEF SLAB_SCIND, MAX_PSZ_IDX

LEMMA Pages_ ==
  /\ \A a \in Page : a \in Nat /\ a < NPages
  /\ \A a \in Int : 0 <= a /\ a < NPages => a \in Page
  /\ NoPage \notin Page
BY Sizes DEF Page, NoPage

\* The chunks tile the pages.
LEMMA Chunks ==
  /\ \A k \in Chunk : Base(k) \in Page /\ Base(k) + CHUNK <= NPages /\ k \in Page
  /\ \A q \in Page : FileOf(q) \in Chunk
  /\ \A q \in Page, k \in Chunk : FileOf(q) = k <=> q \in Span(Base(k), CHUNK)
<1>1. CHUNK \in Nat \ {0} /\ NFILES \in Nat \ {0} /\ NPages \in Nat \ {0}
  BY Sizes
<1>2. ASSUME NEW k \in Chunk
      PROVE  /\ k * CHUNK \in Nat /\ k * CHUNK + CHUNK <= NPages /\ k <= k * CHUNK
  <2>1. k \in Nat /\ k < NFILES
    BY <1>1 DEF Chunk
  <2>2. PICK m \in Nat : NFILES = k + 1 + m
    <3>1. NFILES - k - 1 \in Nat /\ NFILES = k + 1 + (NFILES - k - 1)
      BY <1>1, <2>1
    <3> QED
      BY <3>1
  <2>3. /\ k * CHUNK \in Nat /\ m * CHUNK \in Nat
        /\ NPages = k * CHUNK + CHUNK + m * CHUNK
    BY <1>1, <2>1, <2>2 DEF NPages
  <2>4. PICK c \in Nat : CHUNK = c + 1
    <3>1. CHUNK - 1 \in Nat /\ CHUNK = (CHUNK - 1) + 1
      BY <1>1
    <3> QED
      BY <3>1
  <2>5. k * CHUNK = k * c + k /\ k * c \in Nat
    BY <2>1, <2>4
  <2> QED
    BY <1>1, <2>1, <2>3, <2>5
<1>3. ASSUME NEW q \in Page
      PROVE  /\ q \div CHUNK \in Chunk
             /\ \A k \in Chunk : q \div CHUNK = k <=> q \in k * CHUNK .. k * CHUNK + CHUNK - 1
  <2>1. q \in Nat /\ q < NPages
    BY Pages_
  <2>2. PICK k \in Nat : k = q \div CHUNK
    BY <1>1, <2>1
  <2>3. k * CHUNK <= q /\ q < k * CHUNK + CHUNK
    <3>1. q = CHUNK * (q \div CHUNK) + (q % CHUNK) /\ q % CHUNK \in 0 .. CHUNK - 1
      BY <1>1, <2>1, Division
    <3>2. CHUNK * k = k * CHUNK /\ k * CHUNK \in Nat
      BY <1>1
    <3> QED
      BY <1>1, <2>1, <2>2, <3>1, <3>2
  <2>4. ASSUME NEW i \in Nat, NEW j \in Nat, i < j PROVE i * CHUNK + CHUNK <= j * CHUNK
    <3>1. PICK e \in Nat : j = i + 1 + e
      <4>1. j - i - 1 \in Nat /\ j = i + 1 + (j - i - 1)
        BY <2>4
      <4> QED
        BY <4>1
    <3>2. j * CHUNK = i * CHUNK + CHUNK + e * CHUNK /\ e * CHUNK \in Nat /\ i * CHUNK \in Nat
      BY <1>1, <3>1
    <3> QED
      BY <1>1, <3>2
  <2>5. k < NFILES
    <3> SUFFICES ASSUME NFILES <= k PROVE FALSE
      BY <1>1
    <3>1. NFILES * CHUNK <= k * CHUNK
      <4>1. CASE NFILES = k
        BY <4>1, <1>1
      <4>2. CASE NFILES < k
        <5>1. NFILES * CHUNK + CHUNK <= k * CHUNK
          BY <4>2, <2>4, <1>1
        <5>2. NFILES * CHUNK \in Nat /\ k * CHUNK \in Nat
          BY <1>1
        <5> QED
          BY <1>1, <5>1, <5>2
      <4> QED
        BY <4>1, <4>2, <1>1
    <3>2. k * CHUNK \in Nat
      BY <1>1
    <3> QED
      BY <1>1, <2>1, <2>3, <3>1, <3>2 DEF NPages
  <2>6. k \in Chunk
    BY <1>1, <2>5 DEF Chunk
  <2>7. ASSUME NEW j \in Chunk, q \in j * CHUNK .. j * CHUNK + CHUNK - 1 PROVE j = k
    <3>1. j \in Nat /\ j * CHUNK \in Nat /\ k * CHUNK \in Nat
      BY <1>1 DEF Chunk
    <3>2. ~(j < k)
      BY <1>1, <2>1, <2>3, <2>4, <2>7, <3>1
    <3>3. ~(k < j)
      BY <1>1, <2>1, <2>3, <2>4, <2>7, <3>1
    <3> QED
      BY <3>1, <3>2, <3>3
  <2>8. q \in k * CHUNK .. k * CHUNK + CHUNK - 1
    <3>1. k * CHUNK \in Nat
      BY <1>1
    <3> QED
      BY <1>1, <2>1, <2>3, <3>1
  <2> QED
    BY <2>2, <2>6, <2>7, <2>8
<1>4. \A k \in Chunk : k \in Nat
  BY DEF Chunk
<1>5. \A k \in Chunk : Base(k) \in Page /\ Base(k) + CHUNK <= NPages /\ k \in Page
  BY <1>1, <1>2, <1>4, Pages_ DEF Base
<1>6. \A q \in Page : FileOf(q) \in Chunk
  BY <1>3 DEF FileOf
<1>7. \A q \in Page, k \in Chunk : FileOf(q) = k <=> q \in Span(Base(k), CHUNK)
  BY <1>3 DEF FileOf, Span, Base
<1> QED
  BY <1>5, <1>6, <1>7

\* The class of a number of pages has them, and is the least that does.
LEMMA ClassOf ==
  ASSUME NEW n \in Nat \ {0}, n <= psz[Top]
  PROVE  /\ get_psizeclass(n) \in Class
         /\ psz[get_psizeclass(n)] >= n
         /\ \A d \in Class : psz[d] >= n => get_psizeclass(n) <= d
<1> DEFINE S == {c \in Class : psz[c] >= n}
           Q(c) == psz[c] >= n /\ \A d \in Class : psz[d] >= n => c <= d
<1>1. Class = 0 .. Top /\ Top \in Nat /\ psz \in [Class -> Nat \ {0}]
  BY SizesAssumption
<1>2. psz[Top] \in Nat
  BY <1>1
<1>3. S \in SUBSET Nat /\ Top \in S
  BY <1>1
<1>4. Least(S) \in S /\ \A j \in S : Least(S) <= j
  BY <1>3, Minimum
<1>5. Q(Least(S)) /\ Least(S) \in Class
  BY <1>4
<1>6. get_psizeclass(n) = CHOOSE c \in Class : Q(c)
  BY <1>2 DEF get_psizeclass
<1>7. \E c \in Class : Q(c)
  BY <1>5
<1> HIDE DEF S
<1>8. get_psizeclass(n) \in Class /\ Q(get_psizeclass(n))
  <2> HIDE DEF Q
  <2> QED
    BY <1>6, <1>7
<1> QED
  BY <1>8

\* The class of a heap is one whose pages all extents of the heap have.
LEMMA FloorOf ==
  ASSUME NEW n \in 1 .. NPages
  PROVE  /\ get_psizeclass_floor(n) \in Class
         /\ psz[get_psizeclass_floor(n)] <= n
<1> DEFINE c == get_psizeclass(n)
           d == get_psizeclass(n + 1)
<1>1. /\ Class = 0 .. Top /\ Top \in Nat \ {0} /\ psz \in [Class -> Nat \ {0}] /\ psz[0] = 1
      /\ psz[Top] \in Nat /\ psz[Top] > 1 /\ n <= psz[Top] /\ n \in Nat \ {0}
  <2>1. Class = 0 .. Top /\ Top \in Nat \ {0} /\ psz \in [Class -> Nat \ {0}] /\ psz[0] = 1
    BY SizesAssumption
  <2>2. psz[Top] \in Nat /\ psz[0] < psz[Top]
    BY <2>1, SizesAssumption
  <2> QED
    BY <2>1, <2>2, Sizes
<1>2. c \in Class /\ psz[c] >= n /\ \A e \in Class : psz[e] >= n => c <= e
  BY <1>1, ClassOf
<1>3. psz[c] \in Nat /\ c \in Nat
  BY <1>1, <1>2
<1>4. CASE n + 1 <= psz[Top]
  <2>1. d \in Class /\ psz[d] >= n + 1 /\ \A e \in Class : psz[e] >= n + 1 => d <= e
    BY <1>1, <1>4, ClassOf
  <2>2. psz[d] \in Nat /\ d \in Nat
    BY <1>1, <2>1
  <2>3. CASE c = d
    <3>1. c # 0
      BY <1>1, <2>1, <2>3
    <3>2. c - 1 \in Class /\ psz[c - 1] \in Nat
      BY <1>1, <1>2, <1>3, <3>1
    <3>3. ~(psz[c - 1] >= n)
      BY <1>2, <1>3, <3>2
    <3>4. get_psizeclass_floor(n) = c - 1
      BY <2>3 DEF get_psizeclass_floor
    <3> QED
      BY <1>1, <3>2, <3>3, <3>4
  <2>4. CASE c # d
    <3>1. ~(psz[c] >= n + 1)
      <4> SUFFICES ASSUME psz[c] >= n + 1 PROVE FALSE
        OBVIOUS
      <4>1. d <= c
        BY <1>2, <2>1
      <4>2. psz[d] >= n
        BY <1>1, <2>1, <2>2
      <4>3. c <= d
        BY <1>2, <2>1, <4>2
      <4> QED
        BY <1>3, <2>2, <2>4, <4>1, <4>3
    <3>2. get_psizeclass_floor(n) = c
      BY <2>4 DEF get_psizeclass_floor
    <3> QED
      BY <1>1, <1>2, <1>3, <3>1, <3>2
  <2> QED
    BY <2>3, <2>4
<1>5. CASE ~(n + 1 <= psz[Top])
  <2>1. d = 0 /\ n = psz[Top]
    BY <1>1, <1>5 DEF get_psizeclass
  <2>2. c # 0
    BY <1>1, <1>2, <2>1
  <2>3. get_psizeclass_floor(n) = c
    BY <2>1, <2>2 DEF get_psizeclass_floor
  <2>4. c <= Top /\ psz[c] <= psz[Top]
    <3>1. c <= Top
      BY <1>1, <1>2
    <3>2. c < Top => psz[c] < psz[Top]
      BY <1>1, <1>2, SizesAssumption
    <3> QED
      BY <1>1, <1>3, <3>1, <3>2
  <2> QED
    BY <1>1, <1>2, <1>3, <2>1, <2>3, <2>4
<1> QED
  BY <1>4, <1>5

----------------------------------------------------------------------------
(* What a step leaves as it is. *)

Types == TypeOK /\ pc \in [Thread -> PCs] /\ loc \in [Thread -> Locals]

LEMMA TypesOf ==
  ASSUME Types
  PROVE  /\ ext \in [Page -> [size : 0 .. NPages, szind : 0 .. SLAB_SCIND, slab : BOOLEAN,
                             state : {"none", "active", "dirty", "muzzy"},
                             log : [type : {"none", "malloc", "slab"},
                                    addr : Page \cup {NoPage}, k : Nat]]]
         /\ tree \in [Page -> [e : Page \cup {NoPage}, szind : 0 .. SLAB_SCIND,
                              slab : BOOLEAN]]
         /\ pool \in [Kinds -> [lru : Seq(Page), bitmap : SUBSET Class, npages : Nat]]
         /\ fresh \in [mem : {NoPage} \cup 0 .. NPages, n : 0 .. CHUNK]
         /\ lost \subseteq Page /\ mapped \subseteq Chunk /\ files \subseteq mapped
         /\ lock \in [{"dirty", "muzzy", "arena"} -> Thread \cup {NoThread}]
         /\ purging \in [Kinds -> BOOLEAN]
         /\ cache \in [Thread -> [Requests -> Seq(Page)]]
         /\ held \subseteq Page /\ slabs \subseteq Page
         /\ pc \in [Thread -> PCs] /\ loc \in [Thread -> Locals]
         /\ \A t \in Thread : loc[t] \in Locals /\ pc[t] \in PCs
BY SMTT(30) DEF Types, TypeOK, Kinds

\* The steps that only move a thread on, or its program.
Plain(t) ==
  \/ Carve(t) \/ MapFile(t) \/ MapFails(t) \/ InsertFile(t) \/ Look(t) \/ Punch(t)
  \/ PunchStops(t) \/ NoDecay(t) \/ \E d \in Kinds, L \in Limits : Decay(t, d, L)
  \/ EvictNone(t) \/ EvictStops(t) \/ Stashed(t) \/ Fill(t) \/ Pop(t) \/ Log(t)
  \/ LogCached(t) \/ LogFree(t) \/ GCStops(t) \/ Begin(t)

\* Those that take an extent out of a pool or put one in.
Pooling(t) ==
  \/ Recycle(t) \/ Trail(t) \/ Retired(t) \/ EvictDirty(t) \/ Check(t) \/ Relock(t)
  \/ Settle(t)

\* Those that make, cut, join or mark an extent.
Shaping(t) ==
  Split(t) \/ Interior(t) \/ Retire(t) \/ Register(t) \/ Record(t) \/ Merge(t)

LEMMA Steps ==
  ASSUME NEW t \in Thread, Step(t) \/ Begin(t)
  PROVE  Plain(t) \/ Pooling(t) \/ Shaping(t)
BY DEF Step, Take, Return, Purge, Finish, Plain, Pooling, Shaping, Kinds

\* A step of t leaves the other threads where they are.
Alone(t) ==
  \A u \in Thread \ {t} : pc'[u] = pc[u] /\ loc'[u] = loc[u] /\ cache'[u] = cache[u]

LEMMA OthersStay ==
  ASSUME Types, NEW t \in Thread, Plain(t) \/ Pooling(t) \/ Shaping(t)
  PROVE  Alone(t)
<1>1. pc \in [Thread -> PCs] /\ loc \in [Thread -> Locals]
      /\ cache \in [Thread -> [Requests -> Seq(Page)]]
  BY TypesOf
<1>2. ASSUME Pooling(t) \/ Shaping(t) PROVE Alone(t)
  BY ZenonT(60), <1>1, <1>2 DEF Pooling, Shaping, Recycle, Trail, Retired, EvictDirty, Check, Relock, Settle,
     Split, Interior, Retire, Register, Record, Merge, Alone, Goto, Taken, Onward, program
<1>3. ASSUME Plain(t) PROVE Alone(t)
  <2>1. CASE Carve(t) \/ MapFile(t) \/ MapFails(t) \/ InsertFile(t) \/ Look(t) \/ Punch(t)
             \/ PunchStops(t) \/ NoDecay(t) \/ \E d \in Kinds, L \in Limits : Decay(t, d, L)
    BY ZenonT(60), <1>1, <2>1 DEF Carve, MapFile, MapFails, InsertFile, Look, Punch, PunchStops, NoDecay,
       Decay, Alone, Goto, Onward, After, program
  <2>2. CASE EvictNone(t) \/ EvictStops(t) \/ Stashed(t) \/ Fill(t) \/ Pop(t) \/ Log(t)
    BY <1>1, <2>2 DEF EvictNone, EvictStops, Stashed, Fill, Pop, Log, Done, Alone, Goto,
       After, program
  <2>3. CASE LogCached(t) \/ LogFree(t) \/ GCStops(t)
    BY <1>1, <2>3 DEF LogCached, LogFree, GCStops, Done, Alone, Goto, program
  <2>4. CASE Begin(t)
    BY Zenon, <1>1, <2>4 DEF Begin, MallocCall, SlabCall, FreeCall, UnslabCall, Alone, Goto, program
  <2> QED
    BY <1>3, <2>1, <2>2, <2>3, <2>4 DEF Plain
<1> QED
  BY <1>2, <1>3

\* The extents stay, and keep their pages, class and kind, and their entries.
SameExtents ==
  /\ tree' = tree
  /\ \A a \in Page : /\ ext'[a].size = ext[a].size
                     /\ ext'[a].szind = ext[a].szind
                     /\ ext'[a].slab = ext[a].slab
                     /\ ext'[a].state = "none" <=> ext[a].state = "none"
SameStates == pool' = pool /\ \A a \in Page : ext'[a].state = ext[a].state

LEMMA PlainKeeps ==
  ASSUME Types, NEW t \in Thread, Plain(t)
  PROVE  SameExtents /\ SameStates
<1>1. CASE UNCHANGED <<memory, pool>>
  BY <1>1 DEF memory, SameExtents, SameStates
<1>2. CASE Log(t)
  BY <1>2, TypesOf DEF Log, SameExtents, SameStates
<1>3. UNCHANGED <<memory, pool>> \/ Log(t)
  BY Zenon DEF Plain, Carve, MapFile, MapFails, InsertFile, Look, Punch, PunchStops, NoDecay,
       Decay, EvictNone, EvictStops, Stashed, Fill, Pop, LogCached, LogFree, GCStops, Begin,
       MallocCall, SlabCall, FreeCall, UnslabCall
<1> QED
  BY <1>1, <1>2, <1>3

----------------------------------------------------------------------------
(* Who has an extent. *)

LEMMA ClaimsAre ==
  ASSUME NEW t, NEW a, NEW hand, NEW aside, NEW caches, NEW stash, NEW o
  PROVE  o \in Claims(t, a, hand, aside, caches, stash) <=>
           \/ o = <<"hand", t, a>> /\ a \in hand
           \/ o = <<"aside", t, a>> /\ a \in aside
           \/ \E c \in Requests : \E i \in Places(caches[c], a) : o = <<"cache", t, c, i>>
           \/ \E i \in Places(stash, a) : o = <<"stash", t, i>>
<1> DEFINE In(c) == {<<"cache", t, c, i>> : i \in Places(caches[c], a)}
           Hand == {<<"hand", t, b>> : b \in hand \cap {a}}
           Side == {<<"aside", t, b>> : b \in aside \cap {a}}
           Rest == {<<"stash", t, i>> : i \in Places(stash, a)}
           Cs == Claims(t, a, hand, aside, caches, stash)
<1>1. o \in Cs <=> o \in Hand \/ o \in Side \/ o \in Cached(t, a, caches) \/ o \in Rest
  BY DEF Claims
<1>2. o \in Hand <=> o = <<"hand", t, a>> /\ a \in hand
  OBVIOUS
<1>3. o \in Side <=> o = <<"aside", t, a>> /\ a \in aside
  OBVIOUS
<1>4. o \in Rest <=> \E i \in Places(stash, a) : o = <<"stash", t, i>>
  OBVIOUS
<1>5. \A c \in Requests : o \in In(c) <=> \E i \in Places(caches[c], a) : o = <<"cache", t, c, i>>
  OBVIOUS
<1>6. Cached(t, a, caches) = UNION {In(c) : c \in Requests}
  BY DEF Cached
<1> HIDE DEF In, Hand, Side, Rest
<1>7. o \in Cached(t, a, caches) <=> \E c \in Requests : o \in In(c)
  BY <1>6
<1> QED
  BY <1>1, <1>2, <1>3, <1>4, <1>5, <1>7

\* A claim tells whose it is.
LEMMA ClaimsTell ==
  ASSUME NEW a, NEW t, NEW o \in Mine(t, a)
  PROVE  o[2] = t /\ o[1] \notin {"program", "slab"}
BY ClaimsAre DEF Mine

LEMMA ProgramAre ==
  ASSUME NEW a
  PROVE  /\ Program(a) = {} <=> a \notin held /\ a \notin slabs
         /\ \A o \in Program(a) : o[1] \in {"program", "slab"}
<1>1. \A o \in Program(a) : o[1] \in {"program", "slab"}
  BY DEF Program
<1>2. a \in held => <<"program", a>> \in Program(a)
  BY DEF Program
<1>3. a \in slabs => <<"slab", a>> \in Program(a)
  BY DEF Program
<1>4. a \notin held /\ a \notin slabs => Program(a) = {}
  BY DEF Program
<1> QED
  BY <1>1, <1>2, <1>3, <1>4

LEMMA OwnersAre ==
  ASSUME NEW a, NEW o
  PROVE  o \in Owners(a) <=> o \in Program(a) \/ \E t \in Thread : o \in Mine(t, a)
BY DEF Owners

\* What one has, nobody else has.
LEMMA Apart ==
  ASSUME Owned, NEW a \in Page
  PROVE  /\ \A t \in Thread : Mine(t, a) # {} =>
              /\ ext[a].state = "active" /\ a \notin held /\ a \notin slabs
              /\ Program(a) = {}
              /\ \A u \in Thread \ {t} : Mine(u, a) = {}
              /\ One(Mine(t, a), TRUE)
         /\ Program(a) # {} =>
              /\ ext[a].state = "active" /\ \A u \in Thread : Mine(u, a) = {}
              /\ One(Program(a), TRUE)
         /\ ext[a].state # "active" =>
              /\ Program(a) = {} /\ a \notin held /\ a \notin slabs
              /\ \A u \in Thread : Mine(u, a) = {}
<1>1. /\ \A o \in Owners(a) : ext[a].state = "active"
      /\ \A o, q \in Owners(a) : o = q
  BY DEF Owned, One
<1>2. ASSUME NEW t \in Thread, Mine(t, a) # {}
      PROVE  /\ ext[a].state = "active" /\ Program(a) = {}
             /\ \A u \in Thread \ {t} : Mine(u, a) = {}
             /\ One(Mine(t, a), TRUE)
  <2>1. PICK o : o \in Mine(t, a)
    BY <1>2
  <2>2. o \in Owners(a)
    BY <2>1, OwnersAre
  <2>3. ASSUME NEW q \in Program(a) PROVE FALSE
    <3>1. q = o
      BY <1>1, <2>2, <2>3, OwnersAre
    <3> QED
      BY <2>1, <2>3, <3>1, ClaimsTell, ProgramAre
  <2>4. ASSUME NEW u \in Thread \ {t}, NEW q \in Mine(u, a) PROVE FALSE
    <3>1. q = o
      BY <1>1, <2>2, <2>4, OwnersAre
    <3> QED
      BY <2>1, <2>4, <3>1, ClaimsTell
  <2>5. One(Mine(t, a), TRUE)
    BY <1>1, <2>1, OwnersAre DEF One
  <2> QED
    BY <1>1, <2>2, <2>3, <2>4, <2>5
<1>3. ASSUME Program(a) # {}
      PROVE  /\ ext[a].state = "active" /\ \A u \in Thread : Mine(u, a) = {}
             /\ One(Program(a), TRUE)
  <2>1. ext[a].state = "active" /\ One(Program(a), TRUE)
    BY <1>1, <1>3, OwnersAre DEF One
  <2> QED
    BY <1>2, <1>3, <2>1
<1>4. ASSUME ext[a].state # "active"
      PROVE  Program(a) = {} /\ \A u \in Thread : Mine(u, a) = {}
  BY <1>1, <1>4, OwnersAre
<1> QED
  BY <1>2, <1>3, <1>4, ProgramAre

\* What a thread of the others has, it still has.
LEMMA OthersKeep ==
  ASSUME NEW t \in Thread, Alone(t), NEW a
  PROVE  \A u \in Thread \ {t} : Mine(u, a)' = Mine(u, a)
<1> TAKE u \in Thread \ {t}
<1>1. pc'[u] = pc[u] /\ loc'[u] = loc[u] /\ cache'[u] = cache[u]
  BY DEF Alone
<1> QED
  BY <1>1 DEF Mine

\* An extent of which the step of a thread settles who has it.
LEMMA Settled ==
  ASSUME Owned, NEW t \in Thread, Alone(t), NEW a \in Page,
         Mine(t, a) # {} \/ Program(a) # {} \/ ext[a].state # "active",
         One(Program(a)' \cup Mine(t, a)', ext'[a].state = "active")
  PROVE  One(Owners(a)', ext'[a].state = "active")
<1>1. \A u \in Thread \ {t} : Mine(u, a)' = {}
  BY Apart, OthersKeep
<1>2. ASSUME NEW o PROVE o \in Owners(a)' <=> o \in Program(a)' \cup Mine(t, a)'
  <2>1. o \in Owners(a)' <=> o \in Program(a)' \/ \E u \in Thread : o \in Mine(u, a)'
    BY DEF Owners
  <2> QED
    BY <1>1, <2>1
<1> QED
  BY <1>2 DEF One

\* One it has nothing to do with.
LEMMA Unsettled ==
  ASSUME Owned, NEW t \in Thread, Alone(t), NEW a \in Page,
         Program(a)' = Program(a), Mine(t, a)' = Mine(t, a),
         ext'[a].state = "active" <=> ext[a].state = "active"
  PROVE  One(Owners(a)', ext'[a].state = "active")
<1>1. \A u \in Thread : Mine(u, a)' = Mine(u, a)
  BY OthersKeep
<1>2. ASSUME NEW o PROVE o \in Owners(a)' <=> o \in Owners(a)
  <2>1. o \in Owners(a)' <=> o \in Program(a)' \/ \E u \in Thread : o \in Mine(u, a)'
    BY DEF Owners
  <2> QED
    BY <1>1, <2>1, OwnersAre
<1>3. One(Owners(a), ext[a].state = "active")
  BY DEF Owned
<1> QED
  BY <1>2, <1>3 DEF One

(* One of a thread and the program has an extent once, or neither has it. *)

Total(t, a, h, s, hand, aside, caches, stash) ==
  {<<"program", b>> : b \in h \cap {a}} \cup {<<"slab", b>> : b \in s \cap {a}}
  \cup Claims(t, a, hand, aside, caches, stash)

LEMMA TotalAre ==
  ASSUME NEW t, NEW a, NEW h, NEW s, NEW hand, NEW aside, NEW caches, NEW stash, NEW o
  PROVE  o \in Total(t, a, h, s, hand, aside, caches, stash) <=>
           \/ o = <<"program", a>> /\ a \in h
           \/ o = <<"slab", a>> /\ a \in s
           \/ o = <<"hand", t, a>> /\ a \in hand
           \/ o = <<"aside", t, a>> /\ a \in aside
           \/ \E c \in Requests : \E i \in Places(caches[c], a) : o = <<"cache", t, c, i>>
           \/ \E i \in Places(stash, a) : o = <<"stash", t, i>>
<1>1. o \in Total(t, a, h, s, hand, aside, caches, stash) <=>
           \/ o = <<"program", a>> /\ a \in h
           \/ o = <<"slab", a>> /\ a \in s
           \/ o \in Claims(t, a, hand, aside, caches, stash)
  BY DEF Total
<1> QED
  BY <1>1, ClaimsAre

NoneCached(a, caches) == \A c \in Requests : Places(caches[c], a) = {}
OneCached(a, caches) ==
  \E c \in Requests : /\ \E i : Places(caches[c], a) = {i}
                      /\ \A d \in Requests \ {c} : Places(caches[d], a) = {}

Nowhere(a, h, s, hand, aside, caches, stash) ==
  /\ a \notin h /\ a \notin s /\ a \notin hand /\ a \notin aside
  /\ NoneCached(a, caches) /\ Places(stash, a) = {}

Once(a, h, s, hand, aside, caches, stash) ==
  LET NotOut == a \notin h /\ a \notin s
      NotHand == a \notin hand /\ a \notin aside
      NotKept == NoneCached(a, caches) /\ Places(stash, a) = {}
  IN \/ a \in h /\ a \notin s /\ NotHand /\ NotKept
     \/ a \notin h /\ a \in s /\ NotHand /\ NotKept
     \/ NotOut /\ a \in hand /\ a \notin aside /\ NotKept
     \/ NotOut /\ a \notin hand /\ a \in aside /\ NotKept
     \/ NotOut /\ NotHand /\ OneCached(a, caches) /\ Places(stash, a) = {}
     \/ NotOut /\ NotHand /\ NoneCached(a, caches) /\ \E i : Places(stash, a) = {i}

LEMMA TotalOnce ==
  ASSUME NEW t, NEW a, NEW h, NEW s, NEW hand, NEW aside, NEW caches, NEW stash
  PROVE  /\ One(Total(t, a, h, s, hand, aside, caches, stash), TRUE) <=>
              Once(a, h, s, hand, aside, caches, stash)
         /\ Total(t, a, h, s, hand, aside, caches, stash) = {} <=>
              Nowhere(a, h, s, hand, aside, caches, stash)
<1> DEFINE T == Total(t, a, h, s, hand, aside, caches, stash)
           InCache(o) == \E c \in Requests : \E i \in Places(caches[c], a) : o = <<"cache", t, c, i>>
           InStash(o) == \E i \in Places(stash, a) : o = <<"stash", t, i>>
<1>1. \A o : o \in T <=>
           \/ o = <<"program", a>> /\ a \in h
           \/ o = <<"slab", a>> /\ a \in s
           \/ o = <<"hand", t, a>> /\ a \in hand
           \/ o = <<"aside", t, a>> /\ a \in aside
           \/ InCache(o) \/ InStash(o)
  BY TotalAre
<1> HIDE DEF T
<1>2. T = {} <=> Nowhere(a, h, s, hand, aside, caches, stash)
  <2>1. ASSUME T = {} PROVE Nowhere(a, h, s, hand, aside, caches, stash)
    BY <1>1, <2>1 DEF Nowhere, NoneCached
  <2>2. ASSUME Nowhere(a, h, s, hand, aside, caches, stash) PROVE T = {}
    BY <1>1, <2>2 DEF Nowhere, NoneCached
  <2> QED
    BY <2>1, <2>2
<1>3. ASSUME Once(a, h, s, hand, aside, caches, stash) PROVE One(T, TRUE)
  <2>1. \E o : o \in T
    BY <1>1, <1>3 DEF Once, OneCached
  <2>2. ASSUME NEW o \in T, NEW q \in T PROVE o = q
    <3>1. CASE ~OneCached(a, caches)
      <4>1. NoneCached(a, caches)
        BY <1>3, <3>1 DEF Once
      <4>2. ~InCache(o) /\ ~InCache(q)
        BY <4>1 DEF NoneCached
      <4> QED
        BY <1>1, <1>3, <2>2, <3>1, <4>2 DEF Once
    <3>2. CASE OneCached(a, caches)
      <4>1. PICK c, i : /\ c \in Requests /\ Places(caches[c], a) = {i}
                       /\ \A d \in Requests \ {c} : Places(caches[d], a) = {}
        BY <3>2 DEF OneCached
      <4>2. ~NoneCached(a, caches)
        BY <4>1 DEF NoneCached
      <4>3. InCache(o) /\ InCache(q)
        BY <1>1, <1>3, <2>2, <4>2 DEF Once
      <4> QED
        BY <4>1, <4>3
    <3> QED
      BY <3>1, <3>2
  <2> QED
    BY <2>1, <2>2 DEF One
<1>4. ASSUME One(T, TRUE) PROVE Once(a, h, s, hand, aside, caches, stash)
  <2>1. PICK o : o \in T
    BY <1>4 DEF One
  <2>2. \A q \in T : q = o
    BY <1>4, <2>1 DEF One
  <2>3. /\ a \in h => o = <<"program", a>>
        /\ a \in s => o = <<"slab", a>>
        /\ a \in hand => o = <<"hand", t, a>>
        /\ a \in aside => o = <<"aside", t, a>>
        /\ \A c \in Requests : \A i \in Places(caches[c], a) : o = <<"cache", t, c, i>>
        /\ \A i \in Places(stash, a) : o = <<"stash", t, i>>
    BY <1>1, <2>2
  <2>4. CASE a \in h \/ a \in s \/ a \in hand \/ a \in aside
    BY <2>3, <2>4 DEF Once, NoneCached
  <2>5. CASE InCache(o)
    <3>1. PICK c \in Requests : \E i \in Places(caches[c], a) : o = <<"cache", t, c, i>>
      BY <2>5
    <3>2. PICK i \in Places(caches[c], a) : o = <<"cache", t, c, i>>
      BY <3>1
    <3>3. Places(caches[c], a) = {i}
      BY <2>3, <3>2
    <3>4. \A d \in Requests \ {c} : Places(caches[d], a) = {}
      BY <2>3, <3>2
    <3>5. OneCached(a, caches)
      BY <3>3, <3>4 DEF OneCached
    <3> QED
      BY <2>3, <3>2, <3>5 DEF Once
  <2>6. CASE InStash(o)
    <3>1. PICK i \in Places(stash, a) : o = <<"stash", t, i>>
      BY <2>6
    <3>2. Places(stash, a) = {i}
      BY <2>3, <3>1
    <3> QED
      BY <2>3, <3>1, <3>2 DEF Once, NoneCached
  <2> QED
    BY <1>1, <2>1, <2>4, <2>5, <2>6
<1> QED
  BY <1>2, <1>3, <1>4 DEF T

Has(t, a) ==
  Once(a, held, slabs, InHand(pc[t], loc[t]), Aside(pc[t], loc[t]), cache[t], loc[t].stash)
HasNot(t, a) ==
  Nowhere(a, held, slabs, InHand(pc[t], loc[t]), Aside(pc[t], loc[t]), cache[t], loc[t].stash)

LEMMA Owning ==
  ASSUME Owned, NEW t \in Thread, NEW a \in Page
  PROVE  /\ Has(t, a) \/ HasNot(t, a)
         /\ Has(t, a) => /\ ext[a].state = "active"
                         /\ \A u \in Thread \ {t} : Mine(u, a) = {}
         /\ HasNot(t, a) <=> Program(a) = {} /\ Mine(t, a) = {}
<1> DEFINE T == Total(t, a, held, slabs, InHand(pc[t], loc[t]), Aside(pc[t], loc[t]),
                      cache[t], loc[t].stash)
<1>1. T = Program(a) \cup Mine(t, a)
  BY DEF Program, Mine, Total
<1>2. /\ Has(t, a) <=> One(T, TRUE)
      /\ HasNot(t, a) <=> T = {}
  BY TotalOnce DEF Has, HasNot
<1> HIDE DEF T
<1>3. /\ Program(a) # {} => One(Program(a), TRUE) /\ Mine(t, a) = {}
      /\ Mine(t, a) # {} => One(Mine(t, a), TRUE) /\ Program(a) = {}
      /\ Program(a) # {} \/ Mine(t, a) # {} =>
           ext[a].state = "active" /\ \A u \in Thread \ {t} : Mine(u, a) = {}
  BY Apart
<1>4. HasNot(t, a) <=> Program(a) = {} /\ Mine(t, a) = {}
  BY <1>1, <1>2
<1>5. Has(t, a) => Program(a) # {} \/ Mine(t, a) # {}
  BY <1>1, <1>2 DEF One
<1>6. CASE Program(a) # {}
  <2>1. T = Program(a)
    BY <1>1, <1>3, <1>6
  <2> QED
    BY <1>2, <1>3, <1>4, <1>6, <2>1
<1>7. CASE Mine(t, a) # {}
  <2>1. T = Mine(t, a)
    BY <1>1, <1>3, <1>7
  <2> QED
    BY <1>2, <1>3, <1>4, <1>7, <2>1
<1> QED
  BY <1>4, <1>5, <1>6, <1>7

\* A step of t moves an extent to or from t, the program and the pools.
LEMMA Moved ==
  ASSUME Owned, NEW t \in Thread, Alone(t), NEW a \in Page,
         \/ /\ Has(t, a) \/ ext[a].state # "active"
            /\ \/ Has(t, a)' /\ ext'[a].state = "active"
               \/ HasNot(t, a)' /\ ext'[a].state # "active"
         \/ HasNot(t, a) /\ HasNot(t, a)' /\ (ext'[a].state = "active" <=> ext[a].state = "active")
  PROVE  One(Owners(a)', ext'[a].state = "active")
<1> DEFINE T == Total(t, a, held', slabs', InHand(pc'[t], loc'[t]), Aside(pc'[t], loc'[t]),
                      cache'[t], loc'[t].stash)
<1>1. T = Program(a)' \cup Mine(t, a)'
  BY DEF Program, Mine, Total
<1>2. /\ Has(t, a)' <=> One(T, TRUE)
      /\ HasNot(t, a)' <=> T = {}
  BY TotalOnce DEF Has, HasNot
<1> HIDE DEF T
<1>3. CASE /\ Has(t, a) \/ ext[a].state # "active"
           /\ \/ Has(t, a)' /\ ext'[a].state = "active"
              \/ HasNot(t, a)' /\ ext'[a].state # "active"
  <2>1. One(Program(a)' \cup Mine(t, a)', ext'[a].state = "active")
    BY <1>1, <1>2, <1>3 DEF One
  <2>2. Mine(t, a) # {} \/ Program(a) # {} \/ ext[a].state # "active"
    <3>1. Has(t, a) => ~HasNot(t, a)
      BY TotalOnce DEF Has, HasNot, One
    <3> QED
      BY <1>3, <3>1, Owning
  <2> QED
    BY <2>1, <2>2, Settled
<1>4. CASE HasNot(t, a) /\ HasNot(t, a)' /\ (ext'[a].state = "active" <=> ext[a].state = "active")
  <2>1. Program(a) = {} /\ Mine(t, a) = {}
    BY <1>4, Owning
  <2>2. Program(a)' = {} /\ Mine(t, a)' = {}
    BY <1>1, <1>2, <1>4
  <2> QED
    BY <1>4, <2>1, <2>2, Unsettled
<1> QED
  BY <1>3, <1>4

----------------------------------------------------------------------------
(* Who has an extent after a step that only moves a thread or the program on. *)

LEMMA Parts ==
  ASSUME IndInv
  PROVE  /\ Types /\ NewMemory /\ Tiled /\ TreeInOrder /\ Owned /\ PoolsInOrder /\ Objects
         /\ IsFiniteSet(log)
         /\ \A t \in Thread : Control(pc[t], loc[t], mapped, cache[t]) /\ Hands(t)
BY DEF IndInv, Types

SameOwners(t) ==
  /\ held' = held /\ slabs' = slabs /\ cache'[t] = cache[t]
  /\ InHand(pc'[t], loc'[t]) = InHand(pc[t], loc[t])
  /\ Aside(pc'[t], loc'[t]) = Aside(pc[t], loc[t])
  /\ loc'[t].stash = loc[t].stash

LEMMA StaysOwned ==
  ASSUME Owned, NEW t \in Thread, Alone(t), SameOwners(t),
         \A a \in Page : ext'[a].state = "active" <=> ext[a].state = "active"
  PROVE  Owned'
<1> SUFFICES ASSUME NEW a \in Page PROVE One(Owners(a)', ext'[a].state = "active")
  BY DEF Owned
<1>1. Program(a)' = Program(a) /\ Mine(t, a)' = Mine(t, a)
  BY DEF SameOwners, Program, Mine
<1> QED
  BY <1>1, Unsettled

LEMMA SameOwnersPlain ==
  ASSUME IndInv, NEW t \in Thread,
         \/ Carve(t) \/ MapFile(t) \/ MapFails(t) \/ InsertFile(t) \/ Look(t) \/ Punch(t)
         \/ PunchStops(t) \/ NoDecay(t) \/ EvictNone(t) \/ EvictStops(t) \/ LogFree(t)
         \/ GCStops(t) \/ SlabCall(t) \/ \E c \in Requests : MallocCall(t, c)
  PROVE  SameOwners(t)
<1> DEFINE p == pc[t]
           l == loc[t]
           Same(q, m) == /\ InHand(q, m) = InHand(p, l) /\ Aside(q, m) = Aside(p, l)
                         /\ m.stash = l.stash
<1>1. Types /\ Control(p, l, mapped, cache[t])
  BY Parts
<1>2. pc \in [Thread -> PCs] /\ loc \in [Thread -> Locals] /\ l \in Locals
  BY <1>1, TypesOf
<1>3. CASE MapFails(t) \/ PunchStops(t) \/ EvictStops(t) \/ GCStops(t)
  BY <1>3 DEF MapFails, PunchStops, EvictStops, GCStops, program, SameOwners
<1>4. CASE Carve(t) \/ MapFile(t) \/ InsertFile(t)
  <2>1. held' = held /\ slabs' = slabs /\ cache' = cache
    BY <1>4 DEF Carve, MapFile, InsertFile, program
  <2>2. p \in {"new", "map", "insert"} /\ pc'[t] \in {"register", "insert"}
    BY <1>2, <1>4 DEF Carve, MapFile, InsertFile, At, Goto
  <2>3. loc'[t].stash = l.stash
    BY <1>2, <1>4 DEF Carve, MapFile, InsertFile, Locals
  <2> QED
    BY <2>1, <2>2, <2>3 DEF InHand, Aside, SameOwners
<1>5. CASE Look(t)
  <2>1. held' = held /\ slabs' = slabs /\ cache' = cache
    BY <1>5 DEF Look, program
  <2>2. p = "look" /\ pc'[t] \in {"look", "check", "settle"}
    BY <1>2, <1>5 DEF Look, At, Goto, Onward
  <2>3. loc'[t].stash = l.stash /\ loc'[t].x = l.x /\ loc'[t].op = l.op /\ loc'[t].obj = l.obj
        /\ loc'[t].slab = l.slab
    <3>1. \/ loc' = loc \/ loc' = [loc EXCEPT ![t].side = "prev"]
          \/ loc' = [loc EXCEPT ![t] = [l EXCEPT !.side = "next", !.again = FALSE]]
          \/ \E y \in Page : loc' = [loc EXCEPT ![t].y = y]
      <4>1. Entry(Beside(t)).e \in Page \cup {NoPage}
        BY <1>1, TypesOf DEF Entry, Nil
      <4> QED
        BY <1>5, <4>1 DEF Look, Onward, NextRound
    <3>2. CASE loc' = loc \/ loc' = [loc EXCEPT ![t].side = "prev"]
      BY <1>2, <3>2 DEF Locals
    <3>3. CASE loc' = [loc EXCEPT ![t] = [l EXCEPT !.side = "next", !.again = FALSE]]
      BY <1>2, <3>3 DEF Locals
    <3>4. ASSUME NEW y \in Page, loc' = [loc EXCEPT ![t].y = y]
          PROVE  loc'[t] = [l EXCEPT !.y = y]
      BY <1>2, <3>4 DEF Locals
    <3> QED
      BY <1>2, <3>1, <3>2, <3>3, <3>4 DEF Locals
  <2> QED
    BY <2>1, <2>2, <2>3 DEF InHand, Aside, SameOwners
<1>6. CASE Punch(t) \/ EvictNone(t) \/ NoDecay(t)
  <2>1. held' = held /\ slabs' = slabs /\ cache' = cache /\ loc' = loc
    BY <1>6 DEF Punch, EvictNone, NoDecay, program
  <2>2. \/ p = "punch" /\ pc'[t] = "record"
        \/ p = "evict" /\ pc'[t] = "stashed"
        \/ p \in {"ticks", "ticks2"} /\ pc'[t] = IF l.op = "malloc" THEN "filled" ELSE "logfree"
    BY <1>2, <1>6 DEF Punch, EvictNone, NoDecay, At, MayEvict, Goto, After
  <2> QED
    BY <2>1, <2>2 DEF InHand, Aside, SameOwners
<1>7. CASE LogFree(t) \/ SlabCall(t) \/ \E c \in Requests : MallocCall(t, c)
  <2>1. held' = held /\ slabs' = slabs /\ cache' = cache
    BY Zenon, <1>7 DEF LogFree, SlabCall, MallocCall, program
  <2>2. p \in {"logfree", "idle"} /\ pc'[t] \in {"idle", "recycle", "pop"}
    BY Zenon, <1>2, <1>7 DEF LogFree, SlabCall, MallocCall, At, Call, Done, Goto
  <2>3. loc'[t].stash = <<>>
    <3>1. CASE LogFree(t)
      BY <1>2, <3>1 DEF LogFree, Done, NoLocals
    <3>2. CASE SlabCall(t)
      BY <1>2, <3>2 DEF SlabCall, NoLocals
    <3>3. ASSUME NEW c \in Requests, MallocCall(t, c) PROVE loc'[t].stash = <<>>
      BY Zenon, <1>2, <3>3 DEF MallocCall, NoLocals
    <3> QED
      BY <1>7, <3>1, <3>2, <3>3
  <2>4. l.stash = <<>>
    BY <1>1, <2>2 DEF Control, Purging, Giving
  <2> QED
    BY <2>1, <2>2, <2>3, <2>4 DEF InHand, Aside, SameOwners
<1> QED
  BY <1>3, <1>4, <1>5, <1>6, <1>7

\* What one had before, of t and the program, one has after.
LEMMA MovedWithin ==
  ASSUME Owned, NEW t \in Thread, Alone(t),
         \A a \in Page : ext'[a].state = "active" <=> ext[a].state = "active",
         \A a \in Page : (Has(t, a) => Has(t, a)') /\ (HasNot(t, a) => HasNot(t, a)')
  PROVE  Owned'
<1> SUFFICES ASSUME NEW a \in Page PROVE One(Owners(a)', ext'[a].state = "active")
  BY DEF Owned
<1>1. (Has(t, a) /\ ext[a].state = "active") \/ HasNot(t, a)
  BY Owning
<1> QED
  BY <1>1, Moved

LEMMA PlacesEmpty ==
  ASSUME NEW a
  PROVE  Places(<<>>, a) = {}
BY DEF Places

LEMMA PlacesAppend ==
  ASSUME NEW S, NEW s \in Seq(S), NEW b \in S, NEW a
  PROVE  Places(Append(s, b), a) = Places(s, a) \cup (IF a = b THEN {Len(s) + 1} ELSE {})
<1>1. PICK q : q = Append(s, b)
  OBVIOUS
<1>2. Len(s) \in Nat /\ Len(q) = Len(s) + 1 /\ q[Len(s) + 1] = b
      /\ \A i \in 1 .. Len(s) : q[i] = s[i]
      /\ DOMAIN q = 1 .. Len(s) + 1 /\ DOMAIN s = 1 .. Len(s)
  BY <1>1, AppendProperties, LenProperties
<1>3. \A i : i \in Places(q, a) <=> i \in Places(s, a) \/ (a = b /\ i = Len(s) + 1)
  BY <1>2 DEF Places
<1> QED
  BY <1>1, <1>3

LEMMA PlacesFront ==
  ASSUME NEW S, NEW s \in Seq(S), s # <<>>, NEW a
  PROVE  /\ Len(s) \in 1 .. Len(s) /\ s[Len(s)] \in S
         /\ Places(SubSeq(s, 1, Len(s) - 1), a) = Places(s, a) \ {Len(s)}
         /\ Len(s) \in Places(s, a) <=> a = s[Len(s)]
<1>1. Len(s) \in Nat /\ Len(s) # 0 /\ DOMAIN s = 1 .. Len(s) /\ \A i \in 1 .. Len(s) : s[i] \in S
  BY LenProperties, ElementOfSeq, EmptySeq
<1>2. PICK q : q = SubSeq(s, 1, Len(s) - 1)
  OBVIOUS
<1>3. Len(q) = Len(s) - 1 /\ \A i \in 1 .. Len(s) - 1 : q[i] = s[i]
  BY <1>1, <1>2, SubSeqProperties
<1>4. DOMAIN q = 1 .. Len(s) - 1
  <2>1. q \in Seq(S)
    BY <1>1, <1>2, SubSeqProperties
  <2> QED
    BY <1>3, <2>1, LenProperties
<1>5. Places(q, a) = Places(s, a) \ {Len(s)}
  BY <1>1, <1>3, <1>4 DEF Places
<1> QED
  BY <1>1, <1>2, <1>5 DEF Places

LEMMA PlacesTail ==
  ASSUME NEW S, NEW s \in Seq(S), s # <<>>, NEW a
  PROVE  /\ Head(s) \in S /\ Tail(s) \in Seq(S)
         /\ \A i : i \in Places(Tail(s), a) <=> i \in Nat \ {0} /\ i + 1 \in Places(s, a)
         /\ 1 \in Places(s, a) <=> a = Head(s)
         /\ Places(s, a) \subseteq Nat \ {0}
         /\ \A i \in 1 .. Len(Tail(s)) : i + 1 \in 1 .. Len(s) /\ Tail(s)[i] = s[i + 1]
<1>1. Len(s) \in Nat /\ Len(s) # 0 /\ DOMAIN s = 1 .. Len(s) /\ \A i \in 1 .. Len(s) : s[i] \in S
  BY LenProperties, ElementOfSeq, EmptySeq
<1>2. /\ Head(s) = s[1] /\ Tail(s) \in Seq(S) /\ Len(Tail(s)) = Len(s) - 1
      /\ \A i \in 1 .. Len(Tail(s)) : Tail(s)[i] = s[i + 1]
  BY <1>1, HeadTailProperties
<1>3. DOMAIN Tail(s) = 1 .. Len(s) - 1
  BY <1>2, LenProperties
<1> QED
  BY <1>1, <1>2, <1>3 DEF Places

\* The extents a thread has, at each step of its call.
LEMMA HandAt ==
  ASSUME NEW p, NEW l
  PROVE  /\ p \in {"split", "interior", "punch", "record", "look", "check", "relock", "settle"}
              => InHand(p, l) = {l.x}
         /\ p \in {"trail", "merge"} => InHand(p, l) = {l.x, l.y}
         /\ p = "retired" => InHand(p, l) = {l.y}
         /\ p = "logcached" => InHand(p, l) = {l.obj}
         /\ p = "log" /\ l.slab => InHand(p, l) = {l.obj}
         /\ p = "log" /\ ~l.slab => InHand(p, l) = {}
         /\ p \in {"ticks", "ticks2", "filled"} =>
              /\ l.op = "malloc" => InHand(p, l) = {l.obj}
              /\ l.op # "malloc" => InHand(p, l) = {}
         /\ p \in {"idle", "recycle", "new", "map", "insert", "register", "evict", "stashed",
                   "pop", "logfree"} => InHand(p, l) = {}
         /\ p \in {"evict", "stashed", "punch", "record", "look", "check", "merge", "relock",
                   "settle"} =>
              /\ l.op = "malloc" => Aside(p, l) = {l.obj}
              /\ l.op # "malloc" => Aside(p, l) = {}
         /\ p \in {"idle", "recycle", "split", "trail", "interior", "new", "retired", "map",
                   "insert", "register", "ticks", "ticks2", "filled", "pop", "log",
                   "logcached", "logfree"} => Aside(p, l) = {}
BY DEF InHand, Aside

\* The object of a call that allocates.
OfMalloc(S, l) == (l.op = "malloc" => S = {l.obj}) /\ (l.op # "malloc" => S = {})

LEMMA DecayMoves ==
  ASSUME IndInv, NEW t \in Thread, NEW d \in Kinds, NEW L \in Limits, Decay(t, d, L)
  PROVE  \A a \in Page : (Has(t, a) => Has(t, a)') /\ (HasNot(t, a) => HasNot(t, a)')
<1> DEFINE p == pc[t]
           l == loc[t]
<1>1. pc \in [Thread -> PCs] /\ loc \in [Thread -> Locals] /\ l \in Locals /\ Control(p, l, mapped, cache[t])
  BY Parts, TypesOf
<1>2. held' = held /\ slabs' = slabs /\ cache' = cache
  BY DEF Decay, program
<1>3. p \in {"ticks", "ticks2"} /\ pc'[t] = "evict"
  BY <1>1 DEF Decay, At, Goto
<1>4. loc'[t].op = l.op /\ loc'[t].obj = l.obj /\ loc'[t].stash = <<>>
  BY <1>1 DEF Decay, Locals
<1>5. l.stash = <<>>
  BY <1>1, <1>3 DEF Control, Purging, Giving
<1>6. OfMalloc(InHand(p, l), l) /\ Aside(p, l) = {}
  BY <1>3, HandAt DEF OfMalloc
<1>7. InHand(pc'[t], loc'[t]) = {}
      /\ OfMalloc(Aside(pc'[t], loc'[t]), l)
  BY <1>3, <1>4, HandAt DEF OfMalloc
<1> QED
  BY <1>2, <1>4, <1>5, <1>6, <1>7 DEF Has, HasNot, Once, Nowhere, OfMalloc

LEMMA StashedMoves ==
  ASSUME IndInv, NEW t \in Thread, Stashed(t)
  PROVE  \A a \in Page : (Has(t, a) => Has(t, a)') /\ (HasNot(t, a) => HasNot(t, a)')
<1> DEFINE p == pc[t]
           l == loc[t]
<1>1. pc \in [Thread -> PCs] /\ loc \in [Thread -> Locals] /\ l \in Locals /\ Control(p, l, mapped, cache[t])
  BY Parts, TypesOf
<1>2. held' = held /\ slabs' = slabs /\ cache' = cache
  BY DEF Stashed, program
<1>3. p = "stashed"
  BY DEF Stashed, At
<1>4. InHand(p, l) = {} /\ OfMalloc(Aside(p, l), l)
  BY <1>3, HandAt DEF OfMalloc
<1>5. CASE l.stash = <<>>
  <2>1. loc' = loc /\ pc'[t] \in {"ticks2", "filled", "logfree"}
        /\ (pc'[t] = "logfree" => l.op # "malloc")
    BY <1>1, <1>5 DEF Stashed, Goto, After
  <2>2. OfMalloc(InHand(pc'[t], loc'[t]), l)
        /\ Aside(pc'[t], loc'[t]) = {}
    BY <2>1, HandAt DEF OfMalloc
  <2> QED
    BY <1>2, <1>4, <2>1, <2>2 DEF Has, HasNot, Once, Nowhere, OfMalloc
<1>6. CASE l.stash # <<>>
  <2>1. /\ loc'[t].op = l.op /\ loc'[t].obj = l.obj /\ loc'[t].x = Head(l.stash)
        /\ loc'[t].stash = Tail(l.stash) /\ pc'[t] = "punch"
    BY <1>1, <1>6 DEF Stashed, Goto, Locals
  <2>2. InHand(pc'[t], loc'[t]) = {Head(l.stash)}
        /\ OfMalloc(Aside(pc'[t], loc'[t]), l)
    BY <2>1, HandAt DEF OfMalloc
  <2>3. l.stash \in Seq(Page)
    BY <1>1 DEF Locals
  <2>4. ASSUME NEW a \in Page
        PROVE  /\ \A i : i \in Places(Tail(l.stash), a) <=>
                           i \in Nat \ {0} /\ i + 1 \in Places(l.stash, a)
               /\ 1 \in Places(l.stash, a) <=> a = Head(l.stash)
               /\ Places(l.stash, a) \subseteq Nat \ {0}
    BY <1>6, <2>3, PlacesTail
  <2>5. ASSUME NEW a \in Page
        PROVE  /\ Places(l.stash, a) = {} =>
                    a # Head(l.stash) /\ Places(Tail(l.stash), a) = {}
               /\ \A i : Places(l.stash, a) = {i} =>
                    \/ a = Head(l.stash) /\ Places(Tail(l.stash), a) = {}
                    \/ a # Head(l.stash) /\ Places(Tail(l.stash), a) = {i - 1}
    <3>1. Places(l.stash, a) = {} => a # Head(l.stash) /\ Places(Tail(l.stash), a) = {}
      BY <2>4
    <3>2. ASSUME NEW i, Places(l.stash, a) = {i}
          PROVE  \/ a = Head(l.stash) /\ Places(Tail(l.stash), a) = {}
                 \/ a # Head(l.stash) /\ Places(Tail(l.stash), a) = {i - 1}
      <4>1. i \in Nat \ {0}
        BY <2>4, <3>2
      <4>2. CASE i = 1
        BY <2>4, <3>2, <4>2
      <4>3. CASE i # 1
        <5>1. \A j : j \in Places(Tail(l.stash), a) <=> j = i - 1
          BY <2>4, <3>2, <4>1, <4>3
        <5> QED
          BY <2>4, <3>2, <4>3, <5>1
      <4> QED
        BY <4>2, <4>3
    <3> QED
      BY <3>1, <3>2
  <2>6. PICK s, h, r : s = l.stash /\ h = Head(l.stash) /\ r = Tail(l.stash)
    OBVIOUS
  <2>7. ASSUME NEW a \in Page
        PROVE  /\ Places(s, a) = {} => a # h /\ Places(r, a) = {}
               /\ (\E i : Places(s, a) = {i}) =>
                    \/ a = h /\ Places(r, a) = {}
                    \/ a # h /\ \E i : Places(r, a) = {i}
    BY <2>5, <2>6
  <2> QED
    BY <1>2, <1>4, <2>1, <2>2, <2>6, <2>7 DEF Has, HasNot, Once, Nowhere, OfMalloc
<1> QED
  BY <1>5, <1>6

LEMMA CachePut ==
  ASSUME NEW old \in [Requests -> Seq(Page)], NEW new, NEW c \in Requests, NEW b \in Page,
         new[c] = Append(old[c], b), \A d \in Requests \ {c} : new[d] = old[d],
         NEW a
  PROVE  /\ a # b => /\ NoneCached(a, new) <=> NoneCached(a, old)
                     /\ OneCached(a, new) <=> OneCached(a, old)
         /\ a = b /\ NoneCached(a, old) => OneCached(a, new)
<1>1. Places(new[c], a) = Places(old[c], a) \cup IF a = b THEN {Len(old[c]) + 1} ELSE {}
  BY PlacesAppend
<1>2. ASSUME a # b PROVE \A d \in Requests : Places(new[d], a) = Places(old[d], a)
  BY <1>1, <1>2
<1>3. ASSUME a = b, NoneCached(a, old) PROVE OneCached(a, new)
  <2>1. Places(new[c], a) = {Len(old[c]) + 1}
    BY <1>1, <1>3 DEF NoneCached
  <2>2. \A d \in Requests \ {c} : Places(new[d], a) = {}
    BY <1>3 DEF NoneCached
  <2> QED
    BY <2>1, <2>2 DEF OneCached
<1>4. a # b => /\ NoneCached(a, new) <=> NoneCached(a, old)
               /\ OneCached(a, new) <=> OneCached(a, old)
  BY <1>2 DEF NoneCached, OneCached
<1> QED
  BY <1>3, <1>4

LEMMA FillMoves ==
  ASSUME IndInv, NEW t \in Thread, Fill(t) \/ LogCached(t)
  PROVE  \A a \in Page : (Has(t, a) => Has(t, a)') /\ (HasNot(t, a) => HasNot(t, a)')
<1> DEFINE p == pc[t]
           l == loc[t]
<1>1. pc \in [Thread -> PCs] /\ loc \in [Thread -> Locals] /\ l \in Locals /\ Control(p, l, mapped, cache[t])
      /\ Hands(t) /\ cache \in [Thread -> [Requests -> Seq(Page)]]
  BY SMTT(30), Parts, TypesOf
<1>2. held' = held /\ slabs' = slabs
  BY SMTT(30) DEF Fill, LogCached
<1>3. \/ Fill(t) /\ p = "filled" /\ pc'[t] \in {"pop", "recycle"}
      \/ LogCached(t) /\ p = "logcached" /\ pc'[t] = "idle"
  BY <1>1 DEF Fill, LogCached, Done, At, Goto
<1>4. l.c \in Requests /\ l.obj \in Page /\ l.stash = <<>> /\ (p = "filled" => l.op = "malloc")
  BY <1>1, <1>3 DEF Control, Hands, CallsAt, Request, Purging, Giving
<1>5. loc'[t].stash = <<>>
  BY <1>1, <1>4 DEF Fill, LogCached, Done, Locals, NoLocals
<1>6. InHand(p, l) = {l.obj} /\ Aside(p, l) = {}
  BY <1>3, <1>4, HandAt
<1>7. InHand(pc'[t], loc'[t]) = {} /\ Aside(pc'[t], loc'[t]) = {}
  BY SMTT(30), <1>3, HandAt
<1>8. /\ cache'[t][l.c] = Append(cache[t][l.c], l.obj)
      /\ \A c \in Requests \ {l.c} : cache'[t][c] = cache[t][c]
  BY <1>1, <1>4 DEF Fill, LogCached
<1>9. ASSUME NEW a \in Page
      PROVE  /\ a # l.obj => /\ NoneCached(a, cache'[t]) <=> NoneCached(a, cache[t])
                             /\ OneCached(a, cache'[t]) <=> OneCached(a, cache[t])
             /\ a = l.obj /\ NoneCached(a, cache[t]) => OneCached(a, cache'[t])
  <2>1. PICK old \in [Requests -> Seq(Page)] : old = cache[t]
    BY <1>1
  <2>2. PICK c \in Requests, b \in Page : c = l.c /\ b = l.obj
    BY SMTT(30), <1>4
  <2>3. PICK new : new = cache'[t]
    OBVIOUS
  <2>4. new[c] = Append(old[c], b) /\ \A d \in Requests \ {c} : new[d] = old[d]
    BY <1>8, <2>1, <2>2, <2>3
  <2>5. /\ a # b => /\ NoneCached(a, new) <=> NoneCached(a, old)
                    /\ OneCached(a, new) <=> OneCached(a, old)
        /\ a = b /\ NoneCached(a, old) => OneCached(a, new)
    BY <2>4, CachePut
  <2> QED
    BY <2>1, <2>2, <2>3, <2>5
<1> QED
  BY <1>2, <1>4, <1>5, <1>6, <1>7, <1>9 DEF Has, HasNot, Once, Nowhere

LEMMA PopMoves ==
  ASSUME IndInv, NEW t \in Thread, Pop(t)
  PROVE  \A a \in Page : (Has(t, a) => Has(t, a)') /\ (HasNot(t, a) => HasNot(t, a)')
<1> DEFINE p == pc[t]
           l == loc[t]
<1>1. pc \in [Thread -> PCs] /\ loc \in [Thread -> Locals] /\ l \in Locals /\ Control(p, l, mapped, cache[t])
      /\ cache \in [Thread -> [Requests -> Seq(Page)]]
  BY Parts, TypesOf
<1>2. p = "pop" /\ pc'[t] = "log"
  BY <1>1 DEF Pop, At, Goto
<1>3. l.op = "malloc" /\ l.c \in Requests /\ l.stash = <<>> /\ cache[t][l.c] # <<>> /\ ~l.slab
  BY <1>1, <1>2 DEF Control, CallsAt, Request, Purging, Giving
<1>4. PICK s \in Seq(Page) : s = cache[t][l.c]
  BY <1>1, <1>3
<1>5. PICK n, b : n = Len(s) /\ b = s[n]
  OBVIOUS
<1>6. /\ held' = held \cup {b} /\ slabs' = slabs
      /\ cache'[t][l.c] = SubSeq(s, 1, n - 1)
      /\ \A c \in Requests \ {l.c} : cache'[t][c] = cache[t][c]
      /\ loc'[t].stash = <<>> /\ ~loc'[t].slab
  BY <1>1, <1>3, <1>4, <1>5 DEF Pop, Locals
<1>7. InHand(p, l) = {} /\ Aside(p, l) = {}
      /\ InHand(pc'[t], loc'[t]) = {} /\ Aside(pc'[t], loc'[t]) = {}
  BY <1>2, <1>6, HandAt
<1>8. TAKE a \in Page
<1>9. /\ Places(cache'[t][l.c], a) = Places(s, a) \ {n}
      /\ n \in Places(s, a) <=> a = b
  BY <1>3, <1>4, <1>5, <1>6, PlacesFront
<1>10. CASE a = b
  <2>1. ~NoneCached(a, cache[t])
    BY <1>3, <1>4, <1>9, <1>10 DEF NoneCached
  <2>2. OneCached(a, cache[t]) => NoneCached(a, cache'[t])
    BY <1>3, <1>4, <1>6, <1>9, <1>10 DEF OneCached, NoneCached
  <2> QED
    BY <1>3, <1>6, <1>7, <1>10, <2>1, <2>2 DEF Has, HasNot, Once, Nowhere
<1>11. CASE a # b
  <2>1. \A c \in Requests : Places(cache'[t][c], a) = Places(cache[t][c], a)
    BY <1>4, <1>6, <1>9, <1>11
  <2>2. (NoneCached(a, cache'[t]) <=> NoneCached(a, cache[t]))
        /\ (OneCached(a, cache'[t]) <=> OneCached(a, cache[t]))
    BY <2>1 DEF NoneCached, OneCached
  <2> QED
    BY <1>3, <1>6, <1>7, <1>11, <2>2 DEF Has, HasNot, Once, Nowhere
<1> QED
  BY <1>10, <1>11

LEMMA LogMoves ==
  ASSUME IndInv, NEW t \in Thread, Log(t)
  PROVE  \A a \in Page : (Has(t, a) => Has(t, a)') /\ (HasNot(t, a) => HasNot(t, a)')
<1> DEFINE p == pc[t]
           l == loc[t]
<1>1. pc \in [Thread -> PCs] /\ loc \in [Thread -> Locals] /\ l \in Locals /\ Control(p, l, mapped, cache[t])
  BY Parts, TypesOf
<1>2. p = "log" /\ pc'[t] = "idle"
  BY <1>1 DEF Log, Done, At, Goto
<1>3. l.stash = <<>> /\ l.slab \in BOOLEAN
  BY <1>1, <1>2 DEF Control, Purging, Giving, Locals
<1>4. held' = held /\ cache' = cache /\ slabs' = (IF l.slab THEN slabs \cup {l.obj} ELSE slabs)
      /\ loc'[t].stash = <<>>
  BY <1>1 DEF Log, Done, NoLocals
<1>5. /\ l.slab => InHand(p, l) = {l.obj}
      /\ ~l.slab => InHand(p, l) = {}
      /\ Aside(p, l) = {}
      /\ InHand(pc'[t], loc'[t]) = {} /\ Aside(pc'[t], loc'[t]) = {}
  BY <1>2, HandAt
<1>6. CASE l.slab
  BY <1>3, <1>4, <1>5, <1>6 DEF Has, HasNot, Once, Nowhere
<1>7. CASE ~l.slab
  BY <1>3, <1>4, <1>5, <1>7 DEF Has, HasNot, Once, Nowhere
<1> QED
  BY <1>6, <1>7

LEMMA FreeMoves ==
  ASSUME IndInv, NEW t \in Thread, NEW b \in Page,
         (b \in held /\ FreeCall(t, b)) \/ UnslabCall(t, b)
  PROVE  \A a \in Page : (Has(t, a) => Has(t, a)') /\ (HasNot(t, a) => HasNot(t, a)')
<1> DEFINE p == pc[t]
           l == loc[t]
<1>1. pc \in [Thread -> PCs] /\ loc \in [Thread -> Locals] /\ l \in Locals /\ Control(p, l, mapped, cache[t])
  BY Parts, TypesOf
<1>2. p = "idle" /\ pc'[t] \in {"logcached", "record"}
  BY <1>1 DEF FreeCall, UnslabCall, Call, At, Goto
<1>3. l.stash = <<>>
  BY <1>1, <1>2 DEF Control, Purging, Giving
<1>4. /\ cache' = cache
      /\ \/ b \in held /\ held' = held \ {b} /\ slabs' = slabs
         \/ b \in slabs /\ slabs' = slabs \ {b} /\ held' = held
  BY DEF FreeCall, UnslabCall
<1>5. loc'[t].x = b /\ loc'[t].obj = b /\ loc'[t].stash = <<>> /\ loc'[t].op \in {"free", "unslab"}
  <2>1. CASE FreeCall(t, b)
    BY <1>1, <2>1 DEF FreeCall, NoLocals
  <2>2. CASE UnslabCall(t, b)
    BY <1>1, <2>2 DEF UnslabCall, NoLocals
  <2> QED
    BY <2>1, <2>2
<1>6. /\ InHand(p, l) = {} /\ Aside(p, l) = {}
      /\ InHand(pc'[t], loc'[t]) = {b} /\ Aside(pc'[t], loc'[t]) = {}
  BY <1>2, <1>5, HandAt
<1> QED
  BY <1>3, <1>4, <1>5, <1>6 DEF Has, HasNot, Once, Nowhere

LEMMA PlainOwned ==
  ASSUME IndInv, NEW t \in Thread, Plain(t)
  PROVE  Owned'
<1>1. Owned /\ Types /\ Alone(t) /\ SameStates /\ held \subseteq Page
  BY Parts, OthersStay, PlainKeeps, TypesOf
<1>2. \A a \in Page : ext'[a].state = "active" <=> ext[a].state = "active"
  BY <1>1 DEF SameStates
<1>3. CASE SameOwners(t)
  BY <1>1, <1>2, <1>3, StaysOwned
<1>4. CASE \A a \in Page : (Has(t, a) => Has(t, a)') /\ (HasNot(t, a) => HasNot(t, a)')
  BY <1>1, <1>2, <1>4, MovedWithin
<1>5. CASE Begin(t)
  <2>1. ASSUME NEW b \in held, FreeCall(t, b) PROVE Owned'
    BY <1>1, <1>4, <2>1, FreeMoves
  <2>2. ASSUME NEW b \in slabs, UnslabCall(t, b) PROVE Owned'
    <3>1. b \in Page
      BY <1>1, TypesOf
    <3> QED
      BY <1>4, <2>2, <3>1, FreeMoves
  <2>3. ASSUME SlabCall(t) \/ \E c \in Requests : MallocCall(t, c) PROVE Owned'
    BY <1>3, <2>3, SameOwnersPlain
  <2> QED
    BY <1>5, <2>1, <2>2, <2>3 DEF Begin
<1> QED
  BY <1>3, <1>4, <1>5, SameOwnersPlain, DecayMoves, StashedMoves, FillMoves, PopMoves, LogMoves
     DEF Plain

----------------------------------------------------------------------------
(* Who has an extent after a step that takes one out of a pool or gives one to it. *)

\* What a call asks for is a number of pages of a chunk.
LEMMA Asked ==
  ASSUME NEW l \in Locals, Request(l), l.op \in {"malloc", "slab"}
  PROVE  l.n \in 1 .. CHUNK /\ l.n <= NPages
<1>1. CASE l.op = "malloc"
  <2>1. l.c \in Requests /\ l.n = psz[l.c]
    BY <1>1 DEF Request
  <2>2. psz[l.c] \in Nat \ {0} /\ psz[l.c] <= CHUNK
    BY <2>1, SizesAssumption
  <2> QED
    BY <2>1, <2>2, Sizes
<1>2. CASE l.op = "slab"
  <2>1. l.n = SLAB
    BY <1>2 DEF Request
  <2> QED
    BY <2>1, Sizes
<1> QED
  BY <1>1, <1>2

\* An extent of a larger class has the pages that are asked for.
LEMMA FitGives ==
  ASSUME Types, PoolsInOrder, Tiled, NEW p \in Kinds, NEW n \in 1 .. NPages, Fit(p, n) # NoPage
  PROVE  Fit(p, n) \in InPool(p) /\ ext[Fit(p, n)].size >= n
<1> DEFINE fits == {c \in pool[p].bitmap : c >= get_psizeclass(n)}
           c == Least(fits)
           heap == Heap(pool[p], c)
<1>1. fits # {} /\ Fit(p, n) = Least(heap)
  BY DEF Fit
<1>2. Class = 0 .. Top /\ Top \in Nat /\ psz \in [Class -> Nat \ {0}]
      /\ \A e, d \in Class : e < d => psz[e] < psz[d]
  BY SizesAssumption
<1>3. Lists(pool[p], InPool(p), ext) /\ pool[p].bitmap \subseteq Class
  BY TypesOf DEF PoolsInOrder
<1>4. fits \in SUBSET Nat
  BY <1>2, <1>3
<1>5. c \in fits
  BY <1>1, <1>4, Minimum
<1>6. PICK a \in InPool(p) : c = get_psizeclass_floor(ext[a].size)
  BY <1>3, <1>5 DEF Lists
<1>7. heap \in SUBSET Nat /\ a \in heap /\ heap \subseteq InPool(p)
  BY <1>3, <1>6, Pages_ DEF Heap, Lists, InPool
<1>8. Least(heap) \in heap
  <2> HIDE DEF heap
  <2> QED
    BY <1>7, Minimum
<1>9. PICK b \in InPool(p) : b = Fit(p, n) /\ c = get_psizeclass_floor(ext[b].size)
  BY <1>1, <1>7, <1>8 DEF Heap
<1>10. ext[b].size \in 1 .. NPages
  <2>1. b \in Live /\ ext[b].size \in 0 .. NPages
    BY <1>9, TypesOf DEF InPool, Live, Kinds
  <2> QED
    BY <2>1, Sizes DEF Tiled
<1>11. c \in Class /\ psz[c] <= ext[b].size
  BY <1>9, <1>10, FloorOf
<1>12. get_psizeclass(n) \in Class /\ psz[get_psizeclass(n)] >= n
  BY <1>2, Sizes, ClassOf
<1>13. psz[get_psizeclass(n)] <= psz[c]
  <2>1. get_psizeclass(n) <= c
    BY <1>5
  <2> HIDE DEF c
  <2>2. get_psizeclass(n) = c \/ psz[get_psizeclass(n)] < psz[c]
    BY <1>2, <1>11, <1>12, <2>1
  <2> QED
    BY <1>2, <1>11, <1>12, <2>2
<1>14. psz[c] \in Nat /\ psz[get_psizeclass(n)] \in Nat
  BY <1>2, <1>11, <1>12
<1> HIDE DEF c
<1> QED
  BY <1>9, <1>10, <1>11, <1>12, <1>13, <1>14

\* A step of t that takes the extent b, with nothing else.
LEMMA Takes ==
  ASSUME Owned, NEW t \in Thread, Alone(t), NEW b \in Page,
         held' = held, slabs' = slabs, cache'[t] = cache[t],
         loc'[t].stash = loc[t].stash,
         InHand(pc'[t], loc'[t]) = InHand(pc[t], loc[t]) \cup {b},
         Aside(pc'[t], loc'[t]) = Aside(pc[t], loc[t]),
         ext[b].state # "active", ext'[b].state = "active",
         \A a \in Page \ {b} : ext'[a].state = "active" <=> ext[a].state = "active"
  PROVE  Owned'
<1> SUFFICES ASSUME NEW a \in Page PROVE One(Owners(a)', ext'[a].state = "active")
  BY DEF Owned
<1>1. CASE a = b
  <2>1. HasNot(t, a)
    BY <1>1, Owning
  <2>2. Has(t, a)'
    BY <1>1, <2>1 DEF Has, HasNot, Once, Nowhere
  <2> QED
    BY <1>1, <2>2, Moved
<1>2. CASE a # b
  <2>1. (Has(t, a) => Has(t, a)') /\ (HasNot(t, a) => HasNot(t, a)')
    BY <1>2 DEF Has, HasNot, Once, Nowhere
  <2>2. (Has(t, a) /\ ext[a].state = "active") \/ HasNot(t, a)
    BY Owning
  <2> QED
    BY <1>2, <2>1, <2>2, Moved
<1> QED
  BY <1>1, <1>2

\* One that gives the extent b away.
LEMMA Gives ==
  ASSUME Owned, NEW t \in Thread, Alone(t), NEW b \in Page,
         held' = held, slabs' = slabs, cache'[t] = cache[t],
         loc'[t].stash = loc[t].stash,
         InHand(pc'[t], loc'[t]) \cup Aside(pc'[t], loc'[t]) =
           (InHand(pc[t], loc[t]) \cup Aside(pc[t], loc[t])) \ {b},
         InHand(pc'[t], loc'[t]) \cap Aside(pc'[t], loc'[t]) = {},
         b \in InHand(pc[t], loc[t]),
         ext'[b].state # "active",
         \A a \in Page \ {b} : ext'[a].state = "active" <=> ext[a].state = "active"
  PROVE  Owned'
<1> SUFFICES ASSUME NEW a \in Page PROVE One(Owners(a)', ext'[a].state = "active")
  BY DEF Owned
<1>1. CASE a = b
  <2>1. Has(t, a)
    BY <1>1, Owning DEF HasNot, Nowhere
  <2>2. HasNot(t, a)'
    BY <1>1, <2>1 DEF Has, HasNot, Once, Nowhere
  <2> QED
    BY <1>1, <2>1, <2>2, Moved
<1>2. CASE a # b
  <2>1. (Has(t, a) => Has(t, a)') /\ (HasNot(t, a) => HasNot(t, a)')
    BY <1>2 DEF Has, HasNot, Once, Nowhere
  <2>2. (Has(t, a) /\ ext[a].state = "active") \/ HasNot(t, a)
    BY Owning
  <2> QED
    BY <1>2, <2>1, <2>2, Moved
<1> QED
  BY <1>1, <1>2

\* What is first of the pool of dirty extents.
LEMMA First ==
  ASSUME Types, PoolsInOrder, pool.dirty.lru # <<>>
  PROVE  Head(pool.dirty.lru) \in InPool("dirty")
<1>1. pool.dirty.lru \in Seq(Page) /\ Lists(pool.dirty, InPool("dirty"), ext)
  BY TypesOf DEF PoolsInOrder, Kinds
<1>2. Len(pool.dirty.lru) \in Nat \ {0} /\ Head(pool.dirty.lru) = pool.dirty.lru[1]
  BY <1>1, EmptySeq, HeadTailProperties
<1>3. Head(pool.dirty.lru) \in Elems(pool.dirty.lru)
  BY <1>2 DEF Elems
<1> QED
  BY <1>1, <1>3 DEF Lists

LEMMA PoolingOwned ==
  ASSUME IndInv, NEW t \in Thread, Pooling(t)
  PROVE  Owned'
<1> DEFINE p == pc[t]
           l == loc[t]
<1>1. Types /\ Control(p, l, mapped, cache[t]) /\ Hands(t) /\ Owned /\ Tiled /\ PoolsInOrder /\ Alone(t)
  BY Parts, OthersStay
<1>2. pc \in [Thread -> PCs] /\ loc \in [Thread -> Locals] /\ l \in Locals
      /\ DOMAIN ext = Page /\ \A a \in Page : DOMAIN ext[a] = {"size", "szind", "slab", "state", "log"}
  BY <1>1, TypesOf
<1>3. held' = held /\ slabs' = slabs /\ cache'[t] = cache[t]
  BY Zenon DEF Pooling, Recycle, Trail, Retired, EvictDirty, Check, Relock, Settle, program
<1>4. /\ "dirty" # "active" /\ "muzzy" # "active" /\ Kinds = {"dirty", "muzzy"}
      /\ l.p \in Kinds /\ l.op \in {"none", "malloc", "slab", "free", "unslab"}
  BY <1>2 DEF Kinds, Locals
<1>5. CASE Recycle(t)
  <2>1. p = "recycle" /\ InHand(p, l) = {} /\ Aside(p, l) = {}
    BY <1>5, HandAt DEF Recycle, At
  <2>2. PICK b : b = Fit(l.p, l.n)
    OBVIOUS
  <2>3. CASE b # NoPage
    <3>1. l.n \in 1 .. NPages
      BY <1>1, <1>2, <2>1, Asked, Sizes DEF Control, CallsAt
    <3>2. b \in Page /\ ext[b].state \in Kinds
      BY <1>1, <1>4, <2>2, <2>3, <3>1, FitGives DEF InPool
    <3>3. ext' = [ext EXCEPT ![b].state = "active"] /\ loc' = [loc EXCEPT ![t].x = b]
          /\ pc' = [pc EXCEPT ![t] = "split"]
      BY <1>5, <2>2, <2>3 DEF Recycle, Goto
    <3>4. loc'[t].x = b /\ loc'[t].stash = l.stash /\ pc'[t] = "split"
      BY <1>2, <3>3 DEF Locals
    <3>5. InHand(pc'[t], loc'[t]) = {b} /\ Aside(pc'[t], loc'[t]) = {}
      BY <3>4, HandAt
    <3>6. ext'[b].state = "active" /\ \A a \in Page \ {b} : ext'[a] = ext[a]
      BY <1>2, <3>2, <3>3
    <3> QED
      BY <1>1, <1>3, <1>4, <2>1, <3>2, <3>4, <3>5, <3>6, Takes
  <2>4. CASE b = NoPage
    <3>1. /\ ext' = ext /\ loc' = [loc EXCEPT ![t].p = "muzzy"]
          /\ pc'[t] \in {"recycle", "new"}
      BY <1>2, <1>5, <2>2, <2>4 DEF Recycle, Goto
    <3>2. loc'[t].stash = l.stash
      BY <1>2, <3>1 DEF Locals
    <3>3. InHand(pc'[t], loc'[t]) = {} /\ Aside(pc'[t], loc'[t]) = {}
      BY <3>1, HandAt
    <3> QED
      BY <1>1, <1>3, <2>1, <3>1, <3>2, <3>3, StaysOwned DEF SameOwners
  <2> QED
    BY <2>3, <2>4
<1>6. CASE Trail(t)
  <2>1. p = "trail" /\ InHand(p, l) = {l.x, l.y} /\ Aside(p, l) = {}
    BY <1>6, HandAt DEF Trail, At
  <2>2. l.x \in Page /\ l.y \in Page /\ l.x # l.y /\ (l.slab <=> l.op = "slab")
        /\ l.op \in {"malloc", "slab"}
    <3>1. l.op \in {"malloc", "slab"} /\ l.x \in Page /\ l.y \in Page /\ l.y = l.x + l.n
          /\ (l.slab <=> l.op = "slab")
      BY <1>1, <2>1 DEF Control, CallsAt, Request, Giving, Hands
    <3>2. l.n \in 1 .. CHUNK
      BY <1>1, <1>2, <3>1, Asked DEF Control
    <3> QED
      BY <3>1, <3>2, Pages_, Sizes
  <2>3. /\ ext' = [ext EXCEPT ![l.y].state = l.p]
        /\ loc' = [loc EXCEPT ![t].obj = l.x, ![t].y = NoPage]
        /\ pc' = [pc EXCEPT ![t] = IF l.slab THEN "interior" ELSE "ticks"]
    BY <1>6 DEF Trail, Taken, Goto
  <2>4. /\ loc'[t].x = l.x /\ loc'[t].obj = l.x /\ loc'[t].stash = l.stash /\ loc'[t].op = l.op
        /\ \/ pc'[t] = "interior"
           \/ pc'[t] = "ticks" /\ l.op = "malloc"
    BY <1>2, <2>2, <2>3 DEF Locals
  <2>5. InHand(pc'[t], loc'[t]) = {l.x} /\ Aside(pc'[t], loc'[t]) = {}
    BY <2>4, HandAt
  <2>6. ext'[l.y].state = l.p /\ \A a \in Page \ {l.y} : ext'[a] = ext[a]
    BY <1>2, <2>2, <2>3
  <2> QED
    BY <1>1, <1>3, <1>4, <2>1, <2>2, <2>4, <2>5, <2>6, Gives
<1>7. CASE Retired(t)
  <2>1. p = "retired" /\ InHand(p, l) = {l.y} /\ Aside(p, l) = {}
    BY <1>7, HandAt DEF Retired, At
  <2>2. l.y \in Page
    BY <1>1, <2>1 DEF Control
  <2>3. /\ ext' = [ext EXCEPT ![l.y].state = "dirty"]
        /\ loc' = [loc EXCEPT ![t].y = NoPage] /\ pc'[t] = "map"
    BY <1>2, <1>7 DEF Retired, Goto
  <2>4. loc'[t].stash = l.stash
    BY <1>2, <2>3 DEF Locals
  <2>5. InHand(pc'[t], loc'[t]) = {} /\ Aside(pc'[t], loc'[t]) = {}
    BY <2>3, HandAt
  <2>6. ext'[l.y].state = "dirty" /\ \A a \in Page \ {l.y} : ext'[a] = ext[a]
    BY <1>2, <2>2, <2>3
  <2> QED
    BY <1>1, <1>3, <1>4, <2>1, <2>2, <2>4, <2>5, <2>6, Gives
<1>8. CASE EvictDirty(t)
  <2>1. p = "evict" /\ InHand(p, l) = {} /\ OfMalloc(Aside(p, l), l)
    BY <1>8, HandAt DEF EvictDirty, MayEvict, At, OfMalloc
  <2>2. PICK b : b = Head(pool.dirty.lru)
    OBVIOUS
  <2>3. b \in Page /\ ext[b].state = "dirty"
    BY <1>1, <1>8, <2>2, First DEF EvictDirty, AtLimit, InPool
  <2>4. /\ ext' = [ext EXCEPT ![b].state = "active"] /\ pc' = [pc EXCEPT ![t] = "look"]
        /\ loc' = [loc EXCEPT ![t].x = b, ![t].side = "next", ![t].evicting = TRUE]
    BY <1>8, <2>2 DEF EvictDirty, Goto
  <2>5. loc'[t].x = b /\ loc'[t].stash = l.stash /\ loc'[t].op = l.op /\ loc'[t].obj = l.obj
        /\ pc'[t] = "look"
    BY <1>2, <2>4 DEF Locals
  <2>6. InHand(pc'[t], loc'[t]) = {b} /\ OfMalloc(Aside(pc'[t], loc'[t]), l)
    BY <2>5, HandAt DEF OfMalloc
  <2>7. ext'[b].state = "active" /\ \A a \in Page \ {b} : ext'[a] = ext[a]
    BY <1>2, <2>3, <2>4
  <2>8. Aside(pc'[t], loc'[t]) = Aside(p, l)
    BY <2>1, <2>6 DEF OfMalloc
  <2> QED
    BY <1>1, <1>3, <1>4, <2>1, <2>3, <2>5, <2>6, <2>7, <2>8, Takes
<1>9. CASE Check(t)
  <2>1. p = "check" /\ InHand(p, l) = {l.x} /\ OfMalloc(Aside(p, l), l)
    BY <1>9, HandAt DEF Check, At, OfMalloc
  <2>2. CASE ext' = ext
    <3>1. /\ pc'[t] \in {"look", "settle"}
          /\ \/ loc' = loc \/ loc' = [loc EXCEPT ![t].side = "prev"]
             \/ loc' = [loc EXCEPT ![t] = [l EXCEPT !.side = "next", !.again = FALSE]]
      <4>1. CASE \/ pc' = [pc EXCEPT ![t] = "look"] /\ loc' = loc
                 \/ Onward(t)
        BY <1>2, <4>1 DEF Onward, NextRound, Goto
      <4>2. CASE /\ Mergeable(l.p, l.y) /\ ext' = [ext EXCEPT ![l.y].state = "active"]
        <5>1. l.y \in Page /\ ext[l.y].state = l.p
          BY <1>1, <2>1, <4>2 DEF Control, Mergeable
        <5>2. ext'[l.y].state = "active"
          BY <1>2, <4>2, <5>1
        <5> QED
          BY <1>4, <2>2, <5>1, <5>2
      <4> QED
        BY <1>9, <4>1, <4>2 DEF Check, Goto
    <3>2. loc'[t].x = l.x /\ loc'[t].stash = l.stash /\ loc'[t].op = l.op /\ loc'[t].obj = l.obj
      <4>1. CASE loc' = loc \/ loc' = [loc EXCEPT ![t].side = "prev"]
        BY <1>2, <4>1 DEF Locals
      <4>2. CASE loc' = [loc EXCEPT ![t] = [l EXCEPT !.side = "next", !.again = FALSE]]
        BY <1>2, <4>2 DEF Locals
      <4> QED
        BY <3>1, <4>1, <4>2
    <3>3. InHand(pc'[t], loc'[t]) = {l.x} /\ OfMalloc(Aside(pc'[t], loc'[t]), l)
      BY <3>1, <3>2, HandAt DEF OfMalloc
    <3>4. Aside(pc'[t], loc'[t]) = Aside(p, l)
      BY <2>1, <3>3 DEF OfMalloc
    <3> QED
      BY <1>1, <1>3, <2>1, <2>2, <3>2, <3>3, <3>4, StaysOwned DEF SameOwners
  <2>3. CASE ext' # ext
    <3>1. /\ Mergeable(l.p, l.y) /\ ext' = [ext EXCEPT ![l.y].state = "active"]
          /\ loc' = loc /\ pc'[t] = "merge"
      BY <1>2, <1>9, <2>3 DEF Check, Goto
    <3>2. l.y \in Page /\ ext[l.y].state = l.p
      BY <1>1, <2>1, <3>1 DEF Control, Mergeable
    <3>3. InHand(pc'[t], loc'[t]) = {l.x, l.y} /\ OfMalloc(Aside(pc'[t], loc'[t]), l)
      BY <3>1, HandAt DEF OfMalloc
    <3>4. Aside(pc'[t], loc'[t]) = Aside(p, l)
      BY <2>1, <3>3 DEF OfMalloc
    <3>5. ext'[l.y].state = "active" /\ \A a \in Page \ {l.y} : ext'[a] = ext[a]
      BY <1>2, <3>1, <3>2
    <3> QED
      BY <1>1, <1>3, <1>4, <2>1, <3>1, <3>2, <3>3, <3>4, <3>5, Takes
  <2> QED
    BY <2>2, <2>3
<1>10. CASE Relock(t)
  <2>1. p = "relock" /\ InHand(p, l) = {l.x} /\ OfMalloc(Aside(p, l), l) /\ l.x \in Page
    BY <1>1, <1>10, HandAt DEF Relock, At, OfMalloc, Control, Giving
  <2>2. CASE ext' = ext /\ ~l.evicting
    <3>1. /\ pc' = [pc EXCEPT ![t] = "look"]
          /\ \/ loc' = [loc EXCEPT ![t].side = "next"]
             \/ \E s \in {"next", "prev"}, g \in BOOLEAN :
                  loc' = [loc EXCEPT ![t].side = s, ![t].again = g]
      BY <1>10, <2>2 DEF Relock, Goto
    <3>2. loc'[t].x = l.x /\ loc'[t].stash = l.stash /\ loc'[t].op = l.op /\ loc'[t].obj = l.obj
          /\ pc'[t] = "look"
      BY <1>2, <3>1 DEF Locals
    <3>3. InHand(pc'[t], loc'[t]) = {l.x} /\ OfMalloc(Aside(pc'[t], loc'[t]), l)
      BY <3>2, HandAt DEF OfMalloc
    <3>4. Aside(pc'[t], loc'[t]) = Aside(p, l)
      BY <2>1, <3>3 DEF OfMalloc
    <3> QED
      BY <1>1, <1>3, <2>1, <2>2, <3>2, <3>3, <3>4, StaysOwned DEF SameOwners
  <2>3. CASE l.evicting
    <3>1. /\ ext' = [ext EXCEPT ![l.x].state = "dirty"] /\ pc' = [pc EXCEPT ![t] = "evict"]
          /\ loc' = [loc EXCEPT ![t].x = NoPage, ![t].evicting = FALSE]
      BY <1>1, <1>4, <1>10, <2>3 DEF Relock, Goto, Control
    <3>2. loc'[t].stash = l.stash /\ loc'[t].op = l.op /\ loc'[t].obj = l.obj /\ pc'[t] = "evict"
      BY <1>2, <3>1 DEF Locals
    <3>3. InHand(pc'[t], loc'[t]) = {} /\ OfMalloc(Aside(pc'[t], loc'[t]), l)
      BY <3>2, HandAt DEF OfMalloc
    <3>4. Aside(pc'[t], loc'[t]) = Aside(p, l)
      BY <2>1, <3>3 DEF OfMalloc
    <3>5. ext'[l.x].state = "dirty" /\ \A a \in Page \ {l.x} : ext'[a] = ext[a]
      BY <1>2, <2>1, <3>1
    <3>6. l.x \notin Aside(p, l)
      BY <1>1, <2>1, Owning DEF Has, HasNot, Once, Nowhere
    <3> QED
      BY <1>1, <1>3, <1>4, <2>1, <3>2, <3>3, <3>4, <3>5, <3>6, Gives
  <2> QED
    BY <1>10, <2>2, <2>3 DEF Relock
<1>11. CASE Settle(t)
  <2>1. p = "settle" /\ InHand(p, l) = {l.x} /\ OfMalloc(Aside(p, l), l) /\ l.x \in Page
        /\ l.stash \in Seq(Page)
    <3>1. p = "settle" /\ l.stash \in Seq(Page)
      BY <1>2, <1>11 DEF Settle, At, Locals
    <3> QED
      BY <1>1, <3>1, HandAt DEF OfMalloc, Control, Giving
  <2>2. l.x \notin Aside(p, l)
    BY <1>1, <2>1, Owning DEF Has, HasNot, Once, Nowhere
  <2>3. CASE ~l.evicting
    <3>1. /\ ext' = [ext EXCEPT ![l.x].state = l.p]
          /\ pc' = [pc EXCEPT ![t] = IF l.p = "dirty" THEN "ticks" ELSE "stashed"]
          /\ loc' = [loc EXCEPT ![t].x = NoPage, ![t].y = NoPage]
      BY <1>11, <2>3 DEF Settle, Goto
    <3>2. loc'[t].stash = l.stash /\ loc'[t].op = l.op /\ loc'[t].obj = l.obj
          /\ pc'[t] \in {"ticks", "stashed"}
      BY <1>2, <3>1 DEF Locals
    <3>3. \/ InHand(pc'[t], loc'[t]) = {} /\ OfMalloc(Aside(pc'[t], loc'[t]), l)
          \/ OfMalloc(InHand(pc'[t], loc'[t]), l) /\ Aside(pc'[t], loc'[t]) = {}
      BY <3>2, HandAt DEF OfMalloc
    <3>4. \/ InHand(pc'[t], loc'[t]) = {} /\ Aside(pc'[t], loc'[t]) = Aside(p, l)
          \/ InHand(pc'[t], loc'[t]) = Aside(p, l) /\ Aside(pc'[t], loc'[t]) = {}
      BY <2>1, <3>3 DEF OfMalloc
    <3>5. ext'[l.x].state = l.p /\ \A a \in Page \ {l.x} : ext'[a] = ext[a]
      BY <1>2, <2>1, <3>1
    <3> QED
      BY <1>1, <1>3, <1>4, <2>1, <2>2, <3>2, <3>4, <3>5, Gives
  <2>4. CASE l.evicting
    <3>1. /\ ext' = ext
          /\ pc' = [pc EXCEPT ![t] = IF l.left > ext[l.x].size THEN "evict" ELSE "stashed"]
          /\ loc' = [loc EXCEPT ![t].stash = Append(@, l.x), ![t].x = NoPage,
                               ![t].y = NoPage, ![t].evicting = FALSE,
                               ![t].left = @ - ext[l.x].size]
      BY <1>11, <2>4 DEF Settle, Goto
    <3>2. /\ loc'[t].stash = Append(l.stash, l.x) /\ loc'[t].op = l.op /\ loc'[t].obj = l.obj
          /\ pc'[t] \in {"evict", "stashed"}
      BY <1>2, <3>1 DEF Locals
    <3>3. InHand(pc'[t], loc'[t]) = {} /\ OfMalloc(Aside(pc'[t], loc'[t]), l)
      BY <3>2, HandAt DEF OfMalloc
    <3>4. Aside(pc'[t], loc'[t]) = Aside(p, l)
      BY <2>1, <3>3 DEF OfMalloc
    <3>5. ASSUME NEW a \in Page
          PROVE  Places(loc'[t].stash, a) =
                   Places(l.stash, a) \cup IF a = l.x THEN {Len(l.stash) + 1} ELSE {}
      BY <2>1, <3>2, PlacesAppend
    <3>6. ASSUME NEW a \in Page
          PROVE  (Has(t, a) => Has(t, a)') /\ (HasNot(t, a) => HasNot(t, a)')
      <4>1. CASE a = l.x
        <5>1. Places(l.stash, a) = {} => Places(loc'[t].stash, a) = {Len(l.stash) + 1}
          BY <3>5, <4>1
        <5> QED
          BY <1>3, <2>1, <3>3, <3>4, <4>1, <5>1 DEF Has, HasNot, Once, Nowhere
      <4>2. CASE a # l.x
        <5>1. Places(loc'[t].stash, a) = Places(l.stash, a)
          BY <3>5, <4>2
        <5> QED
          BY <1>3, <2>1, <3>3, <3>4, <4>2, <5>1 DEF Has, HasNot, Once, Nowhere
      <4> QED
        BY <4>1, <4>2
    <3> QED
      BY <1>1, <3>1, <3>6, MovedWithin
  <2> QED
    BY <2>3, <2>4
<1> QED
  BY <1>5, <1>6, <1>7, <1>8, <1>9, <1>10, <1>11 DEF Pooling

----------------------------------------------------------------------------
(* Who has a page. *)

InExtent(q, e, a) == e[a].state # "none" /\ q \in Span(a, e[a].size)
NoExtentAt(q, e) == \A b \in Page : ~InExtent(q, e, b)
OnlyExtent(q, e) ==
  \E a \in Page : InExtent(q, e, a) /\ \A b \in Page : InExtent(q, e, b) => b = a
NoThreadAt(q, un) == \A u \in Thread : q \notin un[u]
OnlyThread(q, un) == \E t \in Thread : q \in un[t] /\ \A u \in Thread : q \in un[u] => u = t

NoTile(q, e, un, f, L) ==
  /\ NoExtentAt(q, e) /\ NoThreadAt(q, un) /\ q \notin Span(f.mem, f.n) /\ q \notin L
OneTile(q, e, un, f, L) ==
  LET Fresh == q \in Span(f.mem, f.n)
      Lost == q \in L
  IN \/ OnlyExtent(q, e) /\ NoThreadAt(q, un) /\ ~Fresh /\ ~Lost
     \/ NoExtentAt(q, e) /\ OnlyThread(q, un) /\ ~Fresh /\ ~Lost
     \/ NoExtentAt(q, e) /\ NoThreadAt(q, un) /\ Fresh /\ ~Lost
     \/ NoExtentAt(q, e) /\ NoThreadAt(q, un) /\ ~Fresh /\ Lost

\* The pages of each thread, before and after a step.
Un == [t \in Thread |-> Unregistered(pc[t], loc[t])]

TilesIn(q, e, un, f, L) ==
  {<<"extent", a>> : a \in {b \in Page : InExtent(q, e, b)}}
  \cup {<<"thread", t>> : t \in {u \in Thread : q \in un[u]}}
  \cup {<<"fresh", x>> : x \in {g \in {f} : q \in Span(g.mem, g.n)}}
  \cup {<<"lost", r>> : r \in L \cap {q}}

LEMMA TilesInAre ==
  ASSUME NEW q, NEW e, NEW un, NEW f, NEW L, NEW o
  PROVE  o \in TilesIn(q, e, un, f, L) <=>
           \/ \E a \in Page : InExtent(q, e, a) /\ o = <<"extent", a>>
           \/ \E t \in Thread : q \in un[t] /\ o = <<"thread", t>>
           \/ q \in Span(f.mem, f.n) /\ o = <<"fresh", f>>
           \/ q \in L /\ o = <<"lost", q>>
BY DEF TilesIn

LEMMA TilesOne ==
  ASSUME NEW q, NEW e, NEW un, NEW f, NEW L
  PROVE  /\ One(TilesIn(q, e, un, f, L), TRUE) <=> OneTile(q, e, un, f, L)
         /\ One(TilesIn(q, e, un, f, L), FALSE) <=> NoTile(q, e, un, f, L)
<1> DEFINE T == TilesIn(q, e, un, f, L)
<1>1. \A o : o \in T <=>
           \/ \E a \in Page : InExtent(q, e, a) /\ o = <<"extent", a>>
           \/ \E t \in Thread : q \in un[t] /\ o = <<"thread", t>>
           \/ q \in Span(f.mem, f.n) /\ o = <<"fresh", f>>
           \/ q \in L /\ o = <<"lost", q>>
  BY TilesInAre
<1> HIDE DEF T
<1>2. /\ \A a \in Page : InExtent(q, e, a) <=> <<"extent", a>> \in T
      /\ \A t \in Thread : q \in un[t] <=> <<"thread", t>> \in T
      /\ q \in Span(f.mem, f.n) <=> <<"fresh", f>> \in T
      /\ q \in L <=> <<"lost", q>> \in T
  BY <1>1
<1>3. One(T, FALSE) <=> T = {}
  BY DEF One
<1>4. T = {} <=> NoTile(q, e, un, f, L)
  <2>1. ASSUME T = {} PROVE NoTile(q, e, un, f, L)
    BY <1>2, <2>1 DEF NoTile, NoExtentAt, NoThreadAt
  <2>2. ASSUME NoTile(q, e, un, f, L) PROVE T = {}
    BY <1>1, <2>2 DEF NoTile, NoExtentAt, NoThreadAt
  <2> QED
    BY <2>1, <2>2
<1>5. ASSUME OneTile(q, e, un, f, L) PROVE One(T, TRUE)
  <2>1. \E o : o \in T
    BY <1>2, <1>5 DEF OneTile, OnlyExtent, OnlyThread
  <2>2. ASSUME NEW o \in T, NEW r \in T PROVE o = r
    <3>1. CASE OnlyExtent(q, e)
      <4>1. PICK a \in Page : \A b \in Page : InExtent(q, e, b) => b = a
        BY <3>1 DEF OnlyExtent
      <4>2. ~NoExtentAt(q, e)
        BY <3>1 DEF OnlyExtent, NoExtentAt
      <4>3. NoThreadAt(q, un) /\ q \notin Span(f.mem, f.n) /\ q \notin L
        BY <1>5, <4>2 DEF OneTile
      <4>4. \A x \in T : x = <<"extent", a>>
        BY <1>1, <4>1, <4>3 DEF NoThreadAt
      <4> QED
        BY <4>4
    <3>2. CASE OnlyThread(q, un)
      <4>1. PICK t \in Thread : \A u \in Thread : q \in un[u] => u = t
        BY <3>2 DEF OnlyThread
      <4>2. ~NoThreadAt(q, un)
        BY <3>2 DEF OnlyThread, NoThreadAt
      <4>3. NoExtentAt(q, e) /\ q \notin Span(f.mem, f.n) /\ q \notin L
        BY <1>5, <4>2 DEF OneTile
      <4>4. \A x \in T : x = <<"thread", t>>
        BY <1>1, <4>1, <4>3 DEF NoExtentAt
      <4> QED
        BY <4>4
    <3>3. CASE NoExtentAt(q, e) /\ NoThreadAt(q, un)
      BY <1>1, <1>5, <2>2, <3>3 DEF OneTile, OnlyExtent, OnlyThread, NoExtentAt, NoThreadAt
    <3> QED
      BY <1>5, <3>1, <3>2, <3>3 DEF OneTile
  <2> QED
    BY <2>1, <2>2 DEF One
<1>6. ASSUME One(T, TRUE) PROVE OneTile(q, e, un, f, L)
  <2>1. PICK o \in T : \A r \in T : r = o
    BY <1>6 DEF One
  <2>2. /\ \A a \in Page : InExtent(q, e, a) => o = <<"extent", a>>
        /\ \A t \in Thread : q \in un[t] => o = <<"thread", t>>
        /\ q \in Span(f.mem, f.n) => o = <<"fresh", f>>
        /\ q \in L => o = <<"lost", q>>
    BY <1>2, <2>1
  <2>3. ASSUME NEW a \in Page, InExtent(q, e, a) PROVE OneTile(q, e, un, f, L)
    <3>1. OnlyExtent(q, e)
      BY <2>2, <2>3 DEF OnlyExtent
    <3> QED
      BY <2>2, <2>3, <3>1 DEF OneTile, NoThreadAt
  <2>4. ASSUME NEW t \in Thread, q \in un[t] PROVE OneTile(q, e, un, f, L)
    <3>1. OnlyThread(q, un)
      BY <2>2, <2>4 DEF OnlyThread
    <3> QED
      BY <2>2, <2>4, <3>1 DEF OneTile, NoExtentAt
  <2>5. CASE NoExtentAt(q, e) /\ NoThreadAt(q, un)
    BY <1>1, <2>1, <2>2, <2>5 DEF OneTile, NoExtentAt, NoThreadAt
  <2> QED
    BY <2>3, <2>4, <2>5 DEF NoExtentAt, NoThreadAt
<1> QED
  BY <1>3, <1>4, <1>5, <1>6 DEF T

\* Each page that is mapped has one tile.
LEMMA TiledAt ==
  ASSUME Tiled, NEW q \in Page
  PROVE  /\ FileOf(q) \in mapped => OneTile(q, ext, Un, fresh, lost)
         /\ FileOf(q) \notin mapped => NoTile(q, ext, Un, fresh, lost)
<1>1. Tiles(q) = TilesIn(q, ext, Un, fresh, lost)
  BY DEF Tiles, TilesIn, Live, InExtent, Un
<1>2. One(Tiles(q), FileOf(q) \in mapped)
  BY DEF Tiled
<1> QED
  BY <1>1, <1>2, TilesOne DEF One

LEMMA TiledAfter ==
  ASSUME \A a \in Page : ext'[a].state # "none" => ext'[a].size # 0 /\ a + ext'[a].size <= NPages,
         \A t \in Thread : pc'[t] = "register" => loc'[t].x + loc'[t].n <= NPages,
         \A q \in Page :
           /\ FileOf(q) \in mapped' => OneTile(q, ext', Un', fresh', lost')
           /\ FileOf(q) \notin mapped' => NoTile(q, ext', Un', fresh', lost')
  PROVE  Tiled'
<1>1. ASSUME NEW q \in Page PROVE One(Tiles(q)', FileOf(q) \in mapped')
  <2>1. Tiles(q)' = TilesIn(q, ext', Un', fresh', lost')
    BY DEF Tiles, TilesIn, Live, InExtent, Un
  <2> QED
    BY <2>1, TilesOne DEF One
<1> QED
  BY <1>1 DEF Tiled, Live

LEMMA Spans ==
  ASSUME Types, Tiled
  PROVE  /\ \A a \in Live : /\ a \in Page /\ ext[a].size \in 1 .. NPages
                            /\ a + ext[a].size <= NPages /\ a + ext[a].size \in Int
                            /\ a \in Span(a, ext[a].size) /\ Last(a) \in Span(a, ext[a].size)
                            /\ \A q \in Span(a, ext[a].size) : q \in Page
         /\ \A a, b \in Live : \A q \in Span(a, ext[a].size) :
              q \in Span(b, ext[b].size) => a = b
         /\ \A a \in Live : \A q \in Span(a, ext[a].size) :
              /\ FileOf(q) \in mapped /\ q \notin Span(fresh.mem, fresh.n) /\ q \notin lost
              /\ \A u \in Thread : q \notin Unregistered(pc[u], loc[u])
<1>1. ASSUME NEW a \in Live
      PROVE  /\ a \in Page /\ ext[a].size \in 1 .. NPages
             /\ a + ext[a].size <= NPages /\ a + ext[a].size \in Int
             /\ a \in Span(a, ext[a].size) /\ Last(a) \in Span(a, ext[a].size)
             /\ \A q \in Span(a, ext[a].size) : q \in Page
  <2>1. a \in Page /\ ext[a].size \in 0 .. NPages
    BY TypesOf DEF Live
  <2>2. ext[a].size \in 1 .. NPages /\ a + ext[a].size <= NPages
    BY <2>1, Sizes DEF Tiled
  <2>3. a \in Nat
    BY <2>1, Pages_
  <2> QED
    BY <2>1, <2>2, <2>3, Sizes, Pages_ DEF Span, Last
<1>2. ASSUME NEW a \in Live, NEW q \in Span(a, ext[a].size)
      PROVE  /\ FileOf(q) \in mapped /\ q \notin Span(fresh.mem, fresh.n) /\ q \notin lost
             /\ \A u \in Thread : q \notin Unregistered(pc[u], loc[u])
             /\ \A b \in Page : InExtent(q, ext, b) => b = a
  <2>1. q \in Page /\ a \in Page /\ InExtent(q, ext, a)
    BY <1>1, <1>2 DEF InExtent, Live
  <2>2. FileOf(q) \in mapped /\ OneTile(q, ext, Un, fresh, lost)
    BY <2>1, TiledAt DEF NoTile, NoExtentAt
  <2>3. ~NoExtentAt(q, ext)
    BY <2>1 DEF NoExtentAt
  <2>4. OnlyExtent(q, ext) /\ NoThreadAt(q, Un) /\ q \notin Span(fresh.mem, fresh.n) /\ q \notin lost
    BY <2>2, <2>3 DEF OneTile
  <2>5. \A u \in Thread : q \notin Unregistered(pc[u], loc[u])
    BY <2>4 DEF NoThreadAt, Un
  <2>6. \A b \in Page : InExtent(q, ext, b) => b = a
    BY <2>1, <2>4 DEF OnlyExtent
  <2> QED
    BY <2>2, <2>4, <2>5, <2>6
<1>3. ASSUME NEW a \in Live, NEW b \in Live, NEW q \in Span(a, ext[a].size),
             q \in Span(b, ext[b].size)
      PROVE  a = b
  <2>1. b \in Page /\ InExtent(q, ext, b)
    BY <1>3 DEF InExtent, Live
  <2> QED
    BY <1>2, <2>1
<1> QED
  BY <1>1, <1>2, <1>3

\* An extent that t has in hand is active; the step leaves no other one of t's.
LEMMA HandLive ==
  ASSUME IndInv, NEW t \in Thread, NEW a \in InHand(pc[t], loc[t]), a \in Page
  PROVE  ext[a].state = "active" /\ a \in Live /\ ext[a].size \in 1 .. NPages
<1>1. Owned /\ Types /\ Tiled
  BY Parts
<1>2. Has(t, a)
  BY <1>1, Owning DEF HasNot, Nowhere
<1>3. ext[a].state = "active" /\ a \in Live
  BY <1>1, <1>2, Owning DEF Live
<1> QED
  BY <1>1, <1>3, Spans

----------------------------------------------------------------------------
(* What the steps that shape extents do. *)

\* An extent is cut: a keeps the pages that are asked for, b has the rest.
Cut(t, a, b) ==
  /\ pc[t] = "split" /\ loc[t].op \in {"malloc", "slab"} /\ (loc[t].slab <=> loc[t].op = "slab")
  /\ loc[t].n \in 1 .. CHUNK /\ loc[t].c \in 0 .. SLAB_SCIND
  /\ a = loc[t].x /\ b = a + loc[t].n /\ a # b /\ b \in Span(a, ext[a].size)
  /\ ext[a].state = "active" /\ ~ext[a].slab /\ ext[b].state = "none"
  /\ ext[a].size \in 1 .. NPages /\ ext[a].size > loc[t].n
  /\ pc'[t] = "trail" /\ loc'[t] = [loc[t] EXCEPT !.y = b]
  /\ ext'[a] = [ext[a] EXCEPT !.size = loc[t].n, !.szind = loc[t].c]
  /\ ext'[b] = [size |-> ext[a].size - loc[t].n, szind |-> MAX_PSZ_IDX, slab |-> FALSE,
                state |-> "active", log |-> ext[b].log]
  /\ \A d \in Page \ {a, b} : ext'[d] = ext[d]
  /\ tree' = Write(Write(tree, Ends(a, loc[t].n),
                         [e |-> a, szind |-> loc[t].c, slab |-> loc[t].slab]),
                   {b, Last(a)}, [Nil EXCEPT !.e = b])

\* It fits.
Whole(t, a) ==
  /\ pc[t] = "split" /\ loc[t].op \in {"malloc", "slab"} /\ (loc[t].slab <=> loc[t].op = "slab")
  /\ loc[t].n \in 1 .. CHUNK /\ loc[t].c \in 0 .. SLAB_SCIND
  /\ a = loc[t].x /\ ext[a].state = "active" /\ ~ext[a].slab /\ ext[a].size = loc[t].n
  /\ pc'[t] = (IF loc[t].slab THEN "interior" ELSE "ticks")
  /\ loc'[t] = [loc[t] EXCEPT !.obj = a]
  /\ ext'[a] = [ext[a] EXCEPT !.szind = loc[t].c]
  /\ \A d \in Page \ {a} : ext'[d] = ext[d]
  /\ tree' = Write(tree, ExactEnds(t), [e |-> a, szind |-> loc[t].c, slab |-> loc[t].slab])

\* It becomes a slab.
Marked(t, a) ==
  /\ pc[t] = "interior" /\ loc[t].op = "slab" /\ loc[t].slab /\ loc[t].obj = a /\ a = loc[t].x
  /\ ext[a].state = "active" /\ ~ext[a].slab /\ ext[a].size = SLAB
  /\ pc'[t] = "log" /\ loc' = loc
  /\ ext'[a] = [ext[a] EXCEPT !.slab = TRUE]
  /\ \A d \in Page \ {a} : ext'[d] = ext[d]
  /\ tree' = Write(tree, SlabPages(a), SlabEntry(a))

\* Memory of a thread becomes an extent.
Registered(t, a, n) ==
  /\ pc[t] = "register" /\ loc[t].op \in {"malloc", "slab"}
  /\ (loc[t].slab <=> loc[t].op = "slab") /\ loc[t].c \in 0 .. SLAB_SCIND
  /\ a = loc[t].x /\ n = loc[t].n /\ n \in 1 .. CHUNK /\ a + n <= NPages
  /\ \A q \in Span(a, n) : q \in Page /\ q \in Unregistered(pc[t], loc[t])
  /\ a \in Span(a, n) /\ ext[a].state = "none"
  /\ pc'[t] = (IF loc[t].slab THEN "log" ELSE "ticks")
  /\ loc'[t] = [loc[t] EXCEPT !.obj = a]
  /\ ext'[a] = [size |-> n, szind |-> loc[t].c, slab |-> loc[t].slab, state |-> "active",
                log |-> ext[a].log]
  /\ \A d \in Page \ {a} : ext'[d] = ext[d]
  /\ tree' = Write(tree, IF loc[t].slab THEN SlabPages(a) ELSE Ends(a, n),
                   [e |-> a, szind |-> loc[t].c, slab |-> loc[t].slab])

\* The rest of a chunk becomes an extent, or is forgotten.
Kept(t, a, n) ==
  /\ pc[t] = "new" /\ loc[t].op \in {"malloc", "slab"}
  /\ a = fresh.mem /\ n = fresh.n /\ fresh' = NoFresh /\ mapped' = mapped /\ lost' = lost
  /\ n \in 1 .. CHUNK /\ a + n <= NPages
  /\ a \in Span(a, n) /\ \A q \in Span(a, n) : q \in Page
  /\ get_psizeclass(n) \in Class /\ psz[get_psizeclass(n)] = n
  /\ ext[a].state = "none"
  /\ pc'[t] = "retired" /\ loc'[t] = [loc[t] EXCEPT !.y = a]
  /\ ext'[a] = [size |-> n, szind |-> get_psizeclass(n), slab |-> FALSE, state |-> "active",
                log |-> ext[a].log]
  /\ \A d \in Page \ {a} : ext'[d] = ext[d]
  /\ tree' = Write(tree, Ends(a, n), [Nil EXCEPT !.e = a, !.szind = get_psizeclass(n)])

Forgot(t) ==
  /\ pc[t] = "new" /\ loc[t].op \in {"malloc", "slab"}
  /\ fresh' = NoFresh /\ mapped' = mapped /\ lost' = lost \cup Span(fresh.mem, fresh.n)
  /\ pc'[t] = "map" /\ loc' = loc /\ ext' = ext /\ tree' = tree

\* An extent that is given back is no slab any more.
Recorded(t, a) ==
  /\ pc[t] = "record" /\ loc[t].op \in {"malloc", "free", "unslab"} /\ a = loc[t].x
  /\ ext[a].state = "active" /\ ext[a].size \in 1 .. NPages
  /\ pc'[t] = "look"
  /\ loc'[t] = [loc[t] EXCEPT !.side = "next", !.again = FALSE, !.evicting = FALSE]
  /\ ext'[a] = [ext[a] EXCEPT !.szind = MAX_PSZ_IDX, !.slab = FALSE]
  /\ \A d \in Page \ {a} : ext'[d] = ext[d]
  /\ tree' = IF ~ext[a].slab THEN tree
             ELSE Write(Write(tree, Inner(a, ext[a].size), Nil), Ends(a, ext[a].size),
                        [e |-> a, szind |-> MAX_PSZ_IDX, slab |-> TRUE])

\* The extent b becomes part of a.
Merged(t, a, b) ==
  /\ pc[t] = "merge" /\ loc[t].op \in {"malloc", "free", "unslab"}
  /\ (a = loc[t].x /\ b = loc[t].y) \/ (a = loc[t].y /\ b = loc[t].x)
  /\ a # b /\ b = a + ext[a].size /\ b + ext[b].size <= NPages
  /\ ext[a].state = "active" /\ ext[b].state = "active" /\ ~ext[a].slab /\ ~ext[b].slab
  /\ ext[a].size \in 1 .. NPages /\ ext[b].size \in 1 .. NPages
  /\ pc'[t] = "relock" /\ loc'[t] = [loc[t] EXCEPT !.x = a, !.y = NoPage]
  /\ ext'[a] = [ext[a] EXCEPT !.size = ext[a].size + ext[b].size, !.szind = MAX_PSZ_IDX]
  /\ ext'[b] = [ext[b] EXCEPT !.state = "none"]
  /\ \A d \in Page \ {a, b} : ext'[d] = ext[d]
  /\ tree' = Write(Write(tree, {Last(a), b}, Nil), {a, Last(b)}, [Nil EXCEPT !.e = a])

LEMMA SplitDoes ==
  ASSUME IndInv, NEW t \in Thread, Split(t)
  PROVE  (\E a, b \in Page : Cut(t, a, b)) \/ (\E a \in Page : Whole(t, a))
<1> DEFINE l == loc[t]
           a == l.x
           n == l.n
           b == a + n
<1>1. Types /\ Control(pc[t], l, mapped, cache[t]) /\ Hands(t) /\ Tiled
  BY Parts
<1>2. pc \in [Thread -> PCs] /\ loc \in [Thread -> Locals] /\ l \in Locals
  BY <1>1, TypesOf
<1>3. pc[t] = "split"
  BY DEF Split, At
<1>4. /\ l.op \in {"malloc", "slab"} /\ (l.slab <=> l.op = "slab") /\ a \in Page
      /\ ~ext[a].slab /\ ext[a].size >= n /\ l.c \in 0 .. SLAB_SCIND
  <2>1. l.slab \in BOOLEAN /\ l.c \in 0 .. SLAB_SCIND
    BY <1>2 DEF Locals
  <2> QED
    BY <1>1, <1>3, <2>1 DEF Control, CallsAt, Request, Hands
<1>5. n \in 1 .. CHUNK
  BY <1>1, <1>2, <1>4, Asked DEF Control
<1>6. ext[a].state = "active" /\ a \in Live /\ ext[a].size \in 1 .. NPages
  <2>1. a \in InHand(pc[t], l)
    BY <1>3, HandAt
  <2> QED
    BY <1>4, <2>1, HandLive
<1>7. ASSUME ext[a].size > n
      PROVE  b \in Page /\ b # a /\ ext[b].state = "none" /\ b \in Span(a, ext[a].size)
  <2>1. b \in Span(a, ext[a].size) /\ b # a
    BY <1>4, <1>5, <1>6, <1>7, Pages_, Sizes DEF Span
  <2>2. b \in Page
    BY <1>1, <1>6, <2>1, Spans
  <2>3. b \notin Live
    BY <1>1, <1>6, <2>1, Spans
  <2> QED
    BY <2>1, <2>2, <2>3 DEF Live
<1>8. ASSUME ext[a].size > n
      PROVE  /\ pc'[t] = "trail" /\ loc'[t] = [l EXCEPT !.y = b]
             /\ ext'[a] = [ext[a] EXCEPT !.size = n, !.szind = l.c]
             /\ ext'[b] = [size |-> ext[a].size - n, szind |-> MAX_PSZ_IDX, slab |-> FALSE,
                           state |-> "active", log |-> ext[b].log]
             /\ \A d \in Page \ {a, b} : ext'[d] = ext[d]
  <2>1. ext[a].size # n
    BY <1>5, <1>6, <1>8, Sizes
  <2>2. /\ ext' = [ext EXCEPT ![a].size = n, ![a].szind = l.c,
                              ![b] = [NoExtent EXCEPT !.size = ext[a].size - n,
                                                      !.state = "active", !.log = ext[b].log]]
        /\ loc' = [loc EXCEPT ![t].y = b] /\ pc' = [pc EXCEPT ![t] = "trail"]
    BY <2>1 DEF Split, Goto
  <2>3. pc'[t] = "trail" /\ loc'[t] = [l EXCEPT !.y = b]
    BY <1>2, <2>2
  <2>4. DOMAIN ext = Page /\ DOMAIN ext[a] = {"size", "szind", "slab", "state", "log"}
    BY <1>1, <1>4, TypesOf
  <2>5. b \in Page /\ b # a
    BY <1>7, <1>8
  <2>6. \A d \in Page \ {a, b} : ext'[d] = ext[d]
    BY <1>4, <2>2, <2>4, <2>5
  <2>7. ext'[b] = [NoExtent EXCEPT !.size = ext[a].size - n, !.state = "active", !.log = ext[b].log]
    BY <1>4, <2>2, <2>4, <2>5
  <2>8. ext'[a] = [ext[a] EXCEPT !.size = n, !.szind = l.c]
    BY <1>4, <2>2, <2>4, <2>5
  <2>9. ext'[b] = [size |-> ext[a].size - n, szind |-> MAX_PSZ_IDX, slab |-> FALSE,
                   state |-> "active", log |-> ext[b].log]
    BY <2>7 DEF NoExtent
  <2> QED
    BY <2>3, <2>6, <2>8, <2>9
<1>9. ASSUME ext[a].size = n
      PROVE  /\ pc'[t] = (IF l.slab THEN "interior" ELSE "ticks") /\ loc'[t] = [l EXCEPT !.obj = a]
             /\ ext'[a] = [ext[a] EXCEPT !.szind = l.c]
             /\ \A d \in Page \ {a} : ext'[d] = ext[d]
  <2>1. ~(ext[a].size > n)
    BY <1>5, <1>9
  <2>2. /\ ext' = [ext EXCEPT ![a].szind = l.c]
        /\ loc' = [loc EXCEPT ![t].obj = a]
        /\ pc' = [pc EXCEPT ![t] = IF l.slab THEN "interior" ELSE "ticks"]
    BY <2>1 DEF Split, Goto, Taken
  <2>3. DOMAIN ext = Page
    BY <1>1, TypesOf
  <2> QED
    BY <1>2, <1>4, <2>2, <2>3
<1>10. ext[a].size > n \/ ext[a].size = n
  BY <1>4, <1>5, <1>6, Sizes
<1>11. CASE ext[a].size > n
  <2>1. tree' = Write(Write(tree, Ends(a, n), [e |-> a, szind |-> l.c, slab |-> l.slab]),
                      {b, Last(a)}, [Nil EXCEPT !.e = b])
    BY <1>5, <1>6, <1>11, Sizes DEF Split
  <2>2. Cut(t, a, b)
    BY <1>3, <1>4, <1>5, <1>6, <1>7, <1>8, <1>11, <2>1 DEF Cut
  <2> QED
    BY <1>4, <1>7, <1>11, <2>2
<1>12. CASE ext[a].size = n
  <2>1. tree' = Write(tree, ExactEnds(t), [e |-> a, szind |-> l.c, slab |-> l.slab])
    BY <1>5, <1>6, <1>12, Sizes DEF Split
  <2>2. Whole(t, a)
    BY <1>3, <1>4, <1>5, <1>6, <1>9, <1>12, <2>1 DEF Whole
  <2> QED
    BY <1>4, <2>2
<1> QED
  BY <1>10, <1>11, <1>12

LEMMA InteriorDoes ==
  ASSUME IndInv, NEW t \in Thread, Interior(t)
  PROVE  \E a \in Page : Marked(t, a)
<1> DEFINE l == loc[t]
           a == l.x
<1>1. Types /\ Control(pc[t], l, mapped, cache[t]) /\ Hands(t)
  BY Parts
<1>2. pc \in [Thread -> PCs] /\ DOMAIN ext = Page
  BY <1>1, TypesOf
<1>3. pc[t] = "interior"
  BY DEF Interior, At
<1>4. l.op = "slab" /\ l.slab /\ l.obj = a /\ a \in Page /\ ~ext[a].slab /\ ext[a].size = SLAB
  BY <1>1, <1>3 DEF Control, CallsAt, Request, Hands
<1>5. ext[a].state = "active"
  BY <1>3, <1>4, HandAt, HandLive
<1>6. /\ ext' = [ext EXCEPT ![a].slab = TRUE] /\ pc' = [pc EXCEPT ![t] = "log"] /\ loc' = loc
      /\ tree' = Write(tree, SlabPages(a), SlabEntry(a))
  BY DEF Interior, Goto
<1>7. Marked(t, a)
  BY <1>2, <1>3, <1>4, <1>5, <1>6 DEF Marked
<1> QED
  BY <1>4, <1>7

LEMMA RegisterDoes ==
  ASSUME IndInv, NEW t \in Thread, Register(t)
  PROVE  \E a \in Page, n \in Nat : Registered(t, a, n)
<1> DEFINE l == loc[t]
           a == l.x
           n == l.n
<1>1. Types /\ Control(pc[t], l, mapped, cache[t]) /\ Tiled
  BY Parts
<1>2. pc \in [Thread -> PCs] /\ loc \in [Thread -> Locals] /\ l \in Locals /\ DOMAIN ext = Page
  BY <1>1, TypesOf
<1>3. pc[t] = "register"
  BY DEF Register, At
<1>4. l.op \in {"malloc", "slab"} /\ (l.slab <=> l.op = "slab") /\ a \in Page
      /\ l.c \in 0 .. SLAB_SCIND
  <2>1. l.slab \in BOOLEAN /\ l.c \in 0 .. SLAB_SCIND
    BY <1>2 DEF Locals
  <2> QED
    BY <1>1, <1>3, <2>1 DEF Control, CallsAt, Request
<1>5. n \in 1 .. CHUNK /\ a + n <= NPages
  BY <1>1, <1>2, <1>3, <1>4, Asked DEF Control, Tiled
<1>6. a \in Span(a, n) /\ \A q \in Span(a, n) : q \in Page /\ q \in Unregistered(pc[t], l)
  <2>1. Unregistered(pc[t], l) = Span(a, n)
    BY <1>3 DEF Unregistered
  <2> QED
    BY SMTT(30), <1>4, <1>5, <2>1, Pages_, Sizes DEF Span
<1>7. ext[a].state = "none"
  <2>1. a \notin Live
    BY <1>1, <1>6, Spans
  <2> QED
    BY <1>4, <2>1 DEF Live
<1>8. /\ ext' = [ext EXCEPT ![a] = [size |-> n, szind |-> l.c, slab |-> l.slab,
                                    state |-> "active", log |-> ext[a].log]]
      /\ pc' = [pc EXCEPT ![t] = IF l.slab THEN "log" ELSE "ticks"]
      /\ loc' = [loc EXCEPT ![t].obj = a]
      /\ tree' = Write(tree, IF l.slab THEN SlabPages(a) ELSE Ends(a, n),
                       [e |-> a, szind |-> l.c, slab |-> l.slab])
  BY DEF Register, Goto
<1>9. /\ ext'[a] = [size |-> n, szind |-> l.c, slab |-> l.slab, state |-> "active",
                    log |-> ext[a].log]
      /\ \A d \in Page \ {a} : ext'[d] = ext[d]
      /\ pc'[t] = (IF l.slab THEN "log" ELSE "ticks") /\ loc'[t] = [l EXCEPT !.obj = a]
  BY <1>2, <1>4, <1>8
<1>10. Registered(t, a, n)
  BY <1>3, <1>4, <1>5, <1>6, <1>7, <1>8, <1>9 DEF Registered
<1> QED
  BY <1>4, <1>5, <1>10

LEMMA RetireDoes ==
  ASSUME IndInv, NEW t \in Thread, Retire(t)
  PROVE  (\E a \in Page, n \in Nat : Kept(t, a, n)) \/ Forgot(t)
<1> DEFINE l == loc[t]
           a == fresh.mem
           n == fresh.n
<1>1. Types /\ Control(pc[t], l, mapped, cache[t]) /\ Tiled /\ NewMemory
  BY Parts
<1>2. /\ pc \in [Thread -> PCs] /\ loc \in [Thread -> Locals] /\ DOMAIN ext = Page
      /\ n \in 0 .. CHUNK
  BY <1>1, TypesOf
<1>3. pc[t] = "new" /\ l.op \in {"malloc", "slab"}
  BY <1>1 DEF Retire, At, Control, CallsAt
<1>4. fresh' = NoFresh /\ mapped' = mapped
  BY DEF Retire
<1>5. CASE Reusable(n)
  <2>1. n # 0 /\ n = psz[get_psizeclass(n)]
    BY <1>5 DEF Reusable
  <2>2. n \in 1 .. CHUNK
    BY <1>2, <2>1, Sizes
  <2>3. a \in Page /\ a + n <= NPages
    BY <1>1, <2>1 DEF NewMemory
  <2>4. a \in Span(a, n) /\ \A q \in Span(a, n) : q \in Page
    BY <2>2, <2>3, Pages_, Sizes DEF Span
  <2>5. ext[a].state = "none"
    <3>1. a \notin Live
      BY <1>1, <2>4, Spans
    <3> QED
      BY <2>3, <3>1 DEF Live
  <2>6. get_psizeclass(n) \in Class
    <3>1. psz[Top] \in Nat /\ n \in Nat \ {0} /\ n <= psz[Top]
      BY <2>2, Sizes, SizesAssumption
    <3> QED
      BY <3>1, ClassOf
  <2>7. /\ ext' = [ext EXCEPT ![a] = [NoExtent EXCEPT !.size = n, !.szind = get_psizeclass(n),
                                        !.state = "active", !.log = ext[a].log]]
        /\ tree' = Write(tree, Ends(a, n), [Nil EXCEPT !.e = a, !.szind = get_psizeclass(n)])
        /\ loc' = [loc EXCEPT ![t].y = a] /\ pc' = [pc EXCEPT ![t] = "retired"] /\ lost' = lost
    BY <1>5, <2>1 DEF Retire, Goto
  <2>8. ext'[a] = [size |-> n, szind |-> get_psizeclass(n), slab |-> FALSE,
                   state |-> "active", log |-> ext[a].log]
    <3>1. ext'[a] = [NoExtent EXCEPT !.size = n, !.szind = get_psizeclass(n),
                                        !.state = "active", !.log = ext[a].log]
      BY <1>2, <2>3, <2>7
    <3> QED
      BY <3>1 DEF NoExtent
  <2>9. \A d \in Page \ {a} : ext'[d] = ext[d]
    BY <1>2, <2>3, <2>7
  <2>10. pc'[t] = "retired" /\ loc'[t] = [l EXCEPT !.y = a]
    BY <1>2, <2>7
  <2>11. Kept(t, a, n)
    BY <1>3, <1>4, <2>1, <2>2, <2>3, <2>4, <2>5, <2>6, <2>7, <2>8, <2>9, <2>10 DEF Kept
  <2> QED
    BY <2>2, <2>3, <2>11
<1>6. CASE ~Reusable(n)
  <2>1. pc' = [pc EXCEPT ![t] = "map"] /\ loc' = loc /\ ext' = ext /\ tree' = tree
        /\ lost' = lost \cup Span(a, n)
    BY <1>6 DEF Retire, Goto, memory, Span
  <2> QED
    BY <1>2, <1>3, <1>4, <2>1 DEF Forgot
<1> QED
  BY <1>5, <1>6

LEMMA RecordDoes ==
  ASSUME IndInv, NEW t \in Thread, Record(t)
  PROVE  \E a \in Page : Recorded(t, a)
<1> DEFINE l == loc[t]
           a == l.x
<1>1. Types /\ Control(pc[t], l, mapped, cache[t])
  BY Parts
<1>2. pc \in [Thread -> PCs] /\ loc \in [Thread -> Locals] /\ l \in Locals /\ DOMAIN ext = Page
  BY <1>1, TypesOf
<1>3. pc[t] = "record"
  BY DEF Record, At
<1>4. l.op \in {"malloc", "free", "unslab"} /\ a \in Page
  BY <1>1, <1>3 DEF Control, CallsAt, Giving
<1>5. ext[a].state = "active" /\ ext[a].size \in 1 .. NPages
  BY <1>3, <1>4, HandAt, HandLive
<1>6. /\ ext' = [ext EXCEPT ![a].szind = MAX_PSZ_IDX, ![a].slab = FALSE]
      /\ pc' = [pc EXCEPT ![t] = "look"]
      /\ loc' = [loc EXCEPT ![t].side = "next", ![t].again = FALSE, ![t].evicting = FALSE]
      /\ tree' = IF ~ext[a].slab THEN tree
                 ELSE Write(Write(tree, Inner(a, ext[a].size), Nil), Ends(a, ext[a].size),
                            [e |-> a, szind |-> MAX_PSZ_IDX, slab |-> TRUE])
  BY DEF Record, Goto, Cleared
<1>7. ext'[a] = [ext[a] EXCEPT !.szind = MAX_PSZ_IDX, !.slab = FALSE]
      /\ \A d \in Page \ {a} : ext'[d] = ext[d]
  BY <1>2, <1>4, <1>6
<1>8. /\ pc'[t] = "look"
      /\ loc'[t] = [l EXCEPT !.side = "next", !.again = FALSE, !.evicting = FALSE]
  BY <1>2, <1>6
<1>9. Recorded(t, a)
  BY <1>3, <1>4, <1>5, <1>6, <1>7, <1>8 DEF Recorded
<1> QED
  BY <1>4, <1>9

LEMMA MergeDoes ==
  ASSUME IndInv, NEW t \in Thread, Merge(t)
  PROVE  \E a, b \in Page : Merged(t, a, b)
<1> DEFINE l == loc[t]
           x == l.x
           y == l.y
<1>1. Types /\ Control(pc[t], l, mapped, cache[t]) /\ Hands(t) /\ Tiled
  BY Parts
<1>2. pc \in [Thread -> PCs] /\ loc \in [Thread -> Locals] /\ l \in Locals /\ DOMAIN ext = Page
      /\ \A d \in Page : DOMAIN ext[d] = {"size", "szind", "slab", "state", "log"}
  BY <1>1, TypesOf
<1>3. pc[t] = "merge"
  BY Zenon DEF Merge, At
<1>4. l.op \in {"malloc", "free", "unslab"} /\ x \in Page /\ y \in Page
  BY <1>1, <1>3 DEF Control, CallsAt, Giving
<1>5. /\ ~ext[x].slab /\ ~ext[y].slab
      /\ (y = x + ext[x].size) \/ (x = y + ext[y].size)
  BY <1>1, <1>3 DEF Hands, Giving
<1>6. /\ ext[x].state = "active" /\ ext[x].size \in 1 .. NPages /\ x \in Live
      /\ ext[y].state = "active" /\ ext[y].size \in 1 .. NPages /\ y \in Live
  <2>1. x \in InHand(pc[t], l) /\ y \in InHand(pc[t], l)
    BY <1>3, HandAt
  <2> QED
    BY <1>4, <2>1, HandLive
<1>7. PICK a \in Page, b \in Page : /\ (a = x /\ b = y) \/ (a = y /\ b = x)
                                    /\ b = a + ext[a].size /\ a < b /\ a # b
  BY <1>4, <1>5, <1>6, Pages_, Sizes
<1>8. Least({x, y}) = a /\ b = (IF a = x THEN y ELSE x)
  BY <1>7, LeastOfTwo, Pages_
<1>9. /\ ext' = [ext EXCEPT ![a].size = @ + ext[b].size, ![a].szind = MAX_PSZ_IDX,
                            ![b].state = "none"]
      /\ tree' = Write(Write(tree, {Last(a), b}, Nil), {a, Last(b)}, [Nil EXCEPT !.e = a])
      /\ loc' = [loc EXCEPT ![t].x = a, ![t].y = NoPage]
      /\ pc' = [pc EXCEPT ![t] = "relock"]
  BY Zenon, <1>8 DEF Merge, Goto, Joints
<1>10. /\ ext'[a] = [ext[a] EXCEPT !.size = ext[a].size + ext[b].size, !.szind = MAX_PSZ_IDX]
       /\ ext'[b] = [ext[b] EXCEPT !.state = "none"]
       /\ \A d \in Page \ {a, b} : ext'[d] = ext[d]
  <2>1. \A d \in Page \ {a, b} : ext'[d] = ext[d]
    BY <1>2, <1>7, <1>9
  <2>2. ext'[b] = [ext[b] EXCEPT !.state = "none"]
    BY <1>2, <1>7, <1>9
  <2>3. ext'[a] = [ext[a] EXCEPT !.size = ext[a].size + ext[b].size, !.szind = MAX_PSZ_IDX]
    BY <1>2, <1>7, <1>9
  <2> QED
    BY <2>1, <2>2, <2>3
<1>11. pc'[t] = "relock" /\ loc'[t] = [l EXCEPT !.x = a, !.y = NoPage]
  BY <1>2, <1>9
<1>12. b + ext[b].size <= NPages
  BY <1>1, <1>6, <1>7, Spans
<1>13. /\ ext[a].state = "active" /\ ext[b].state = "active" /\ ~ext[a].slab /\ ~ext[b].slab
       /\ ext[a].size \in 1 .. NPages /\ ext[b].size \in 1 .. NPages /\ a # b
  BY SMTT(30), <1>5, <1>6, <1>7, Pages_
<1>14. Merged(t, a, b)
  BY <1>3, <1>4, <1>7, <1>9, <1>10, <1>11, <1>12, <1>13 DEF Merged
<1> QED
  BY <1>14

----------------------------------------------------------------------------
(* Who has an extent after a step that shapes extents. *)

LEMMA ShapingOwned ==
  ASSUME IndInv, NEW t \in Thread, Shaping(t)
  PROVE  Owned'
<1> DEFINE p == pc[t]
           l == loc[t]
<1>1. Types /\ Owned /\ Alone(t)
  BY Parts, OthersStay
<1>2. held' = held /\ slabs' = slabs /\ cache'[t] = cache[t]
  BY Zenon DEF Shaping, Split, Interior, Retire, Register, Record, Merge, program
<1>3. l \in Locals /\ DOMAIN ext = Page
      /\ \A d \in Page : DOMAIN ext[d] = {"size", "szind", "slab", "state", "log"}
  BY <1>1, TypesOf
<1>4. ASSUME NEW a \in Page, NEW b \in Page, Cut(t, a, b) PROVE Owned'
  <2>1. /\ p = "split" /\ a = l.x /\ a # b /\ pc'[t] = "trail"
        /\ loc'[t] = [l EXCEPT !.y = b]
    BY <1>4 DEF Cut
  <2>2. loc'[t].x = a /\ loc'[t].y = b /\ loc'[t].stash = l.stash /\ pc'[t] = "trail"
    BY <1>3, <2>1 DEF Locals
  <2>3. InHand(p, l) = {a} /\ Aside(p, l) = {}
    BY <2>1, HandAt
  <2>4. InHand(pc'[t], loc'[t]) = {a, b} /\ Aside(pc'[t], loc'[t]) = {}
    BY <2>2, HandAt
  <2>5. /\ ext'[a] = [ext[a] EXCEPT !.size = l.n, !.szind = l.c]
        /\ ext[b].state = "none" /\ ext'[b].state = "active"
        /\ \A d \in Page \ {a, b} : ext'[d] = ext[d]
    BY <1>4 DEF Cut
  <2>6. ext'[a].state = ext[a].state
    BY <1>3, <2>5
  <2>7. ext[b].state # "active" /\ \A d \in Page \ {b} : ext'[d].state = ext[d].state
    BY <2>5, <2>6
  <2>8. InHand(pc'[t], loc'[t]) = InHand(p, l) \cup {b}
    BY <2>3, <2>4
  <2> QED
    BY <1>1, <1>2, <2>2, <2>3, <2>4, <2>5, <2>7, <2>8, Takes
<1>5. ASSUME NEW a \in Page, Whole(t, a) PROVE Owned'
  <2>1. /\ p = "split" /\ a = l.x /\ pc'[t] = (IF l.slab THEN "interior" ELSE "ticks")
        /\ loc'[t] = [l EXCEPT !.obj = a] /\ l.op \in {"malloc", "slab"}
        /\ (l.slab <=> l.op = "slab")
    BY <1>5 DEF Whole
  <2>2. loc'[t].x = a /\ loc'[t].obj = a /\ loc'[t].stash = l.stash /\ loc'[t].op = l.op
    BY <1>3, <2>1 DEF Locals
  <2>3. InHand(p, l) = {a} /\ Aside(p, l) = {}
    BY <2>1, HandAt
  <2>4. pc'[t] = "interior" \/ (pc'[t] = "ticks" /\ l.op = "malloc")
    BY <2>1
  <2>5. InHand(pc'[t], loc'[t]) = {a} /\ Aside(pc'[t], loc'[t]) = {}
    BY <2>2, <2>4, HandAt
  <2>6. /\ ext'[a] = [ext[a] EXCEPT !.szind = l.c]
        /\ \A d \in Page \ {a} : ext'[d] = ext[d]
    BY <1>5 DEF Whole
  <2>7. ext'[a].state = ext[a].state
    BY <1>3, <2>6
  <2> QED
    BY <1>1, <1>2, <2>2, <2>3, <2>5, <2>6, <2>7, StaysOwned DEF SameOwners
<1>6. ASSUME NEW a \in Page, Marked(t, a) PROVE Owned'
  <2>1. /\ a = l.x /\ p = "interior" /\ l.slab /\ l.obj = a
        /\ pc'[t] = "log" /\ loc' = loc
    BY <1>6 DEF Marked
  <2>2. InHand(p, l) = {a} /\ Aside(p, l) = {}
    BY <2>1, HandAt
  <2>3. InHand(pc'[t], loc'[t]) = {a} /\ Aside(pc'[t], loc'[t]) = {}
    BY <2>1, HandAt
  <2>4. ext'[a] = [ext[a] EXCEPT !.slab = TRUE] /\ \A d \in Page \ {a} : ext'[d] = ext[d]
    BY <1>6 DEF Marked
  <2>5. ext'[a].state = ext[a].state
    BY <1>3, <2>4
  <2> QED
    BY ZenonT(60), <1>1, <1>2, <2>1, <2>2, <2>3, <2>4, <2>5, StaysOwned DEF SameOwners
<1>7. ASSUME NEW a \in Page, NEW n, Kept(t, a, n) PROVE Owned'
  <2>1. p = "new" /\ pc'[t] = "retired" /\ loc'[t] = [l EXCEPT !.y = a]
    BY <1>7 DEF Kept
  <2>2. InHand(p, l) = {} /\ Aside(p, l) = {}
    BY <2>1, HandAt
  <2>3. loc'[t].y = a /\ loc'[t].stash = l.stash
    BY <1>3, <2>1 DEF Locals
  <2>4. InHand(pc'[t], loc'[t]) = {a} /\ Aside(pc'[t], loc'[t]) = {}
    BY ZenonT(60), <2>1, <2>3, HandAt
  <2>5. /\ ext[a].state # "active" /\ ext'[a].state = "active"
        /\ \A d \in Page \ {a} : ext'[d] = ext[d]
    BY <1>7 DEF Kept
  <2>6. InHand(pc'[t], loc'[t]) = InHand(p, l) \cup {a}
    BY <2>2, <2>4
  <2> QED
    BY <1>1, <1>2, <2>2, <2>3, <2>4, <2>5, <2>6, Takes
<1>8. ASSUME Forgot(t) PROVE Owned'
  <2>1. p = "new" /\ pc'[t] = "map" /\ loc' = loc /\ ext' = ext
    BY <1>8 DEF Forgot
  <2>2. InHand(p, l) = {} /\ Aside(p, l) = {}
        /\ InHand(pc'[t], loc'[t]) = {} /\ Aside(pc'[t], loc'[t]) = {}
    BY <2>1, HandAt
  <2> QED
    BY <1>1, <1>2, <2>1, <2>2, StaysOwned DEF SameOwners
<1>9. ASSUME NEW a \in Page, NEW n, Registered(t, a, n) PROVE Owned'
  <2>1. /\ p = "register" /\ pc'[t] = (IF l.slab THEN "log" ELSE "ticks")
        /\ loc'[t] = [l EXCEPT !.obj = a] /\ l.op \in {"malloc", "slab"}
        /\ (l.slab <=> l.op = "slab")
    BY <1>9 DEF Registered
  <2>2. InHand(p, l) = {} /\ Aside(p, l) = {}
    BY <2>1, HandAt
  <2>3. /\ loc'[t].obj = a /\ loc'[t].stash = l.stash
        /\ (pc'[t] = "log" /\ loc'[t].slab) \/ (pc'[t] = "ticks" /\ loc'[t].op = "malloc")
    BY <1>3, <2>1 DEF Locals
  <2>4. InHand(pc'[t], loc'[t]) = {a} /\ Aside(pc'[t], loc'[t]) = {}
    BY <2>3, HandAt
  <2>5. /\ ext[a].state # "active" /\ ext'[a].state = "active"
        /\ \A d \in Page \ {a} : ext'[d] = ext[d]
    BY <1>9 DEF Registered
  <2>6. InHand(pc'[t], loc'[t]) = InHand(p, l) \cup {a}
    BY <2>2, <2>4
  <2> QED
    BY <1>1, <1>2, <2>2, <2>3, <2>4, <2>5, <2>6, Takes
<1>10. ASSUME NEW a \in Page, Recorded(t, a) PROVE Owned'
  <2>1. /\ a = l.x /\ p = "record" /\ pc'[t] = "look"
        /\ loc'[t] = [l EXCEPT !.side = "next", !.again = FALSE, !.evicting = FALSE]
    BY <1>10 DEF Recorded
  <2>2. loc'[t].x = a /\ loc'[t].stash = l.stash /\ loc'[t].op = l.op /\ loc'[t].obj = l.obj
        /\ pc'[t] = "look"
    BY <1>3, <2>1 DEF Locals
  <2>3. InHand(p, l) = {a} /\ OfMalloc(Aside(p, l), l)
    BY <2>1, HandAt DEF OfMalloc
  <2>4. InHand(pc'[t], loc'[t]) = {a} /\ OfMalloc(Aside(pc'[t], loc'[t]), loc'[t])
    BY <2>2, HandAt DEF OfMalloc
  <2>5. Aside(pc'[t], loc'[t]) = Aside(p, l)
    BY <2>2, <2>3, <2>4 DEF OfMalloc
  <2>6. /\ ext'[a] = [ext[a] EXCEPT !.szind = MAX_PSZ_IDX, !.slab = FALSE]
        /\ \A d \in Page \ {a} : ext'[d] = ext[d]
    BY <1>10 DEF Recorded
  <2>7. ext'[a].state = ext[a].state
    BY <1>3, <2>6
  <2> QED
    BY <1>1, <1>2, <2>2, <2>3, <2>4, <2>5, <2>6, <2>7, StaysOwned DEF SameOwners
<1>11. ASSUME NEW a \in Page, NEW b \in Page, Merged(t, a, b) PROVE Owned'
  <2>1. /\ p = "merge" /\ a # b /\ pc'[t] = "relock" /\ loc'[t] = [l EXCEPT !.x = a, !.y = NoPage]
        /\ {l.x, l.y} = {a, b}
    BY <1>11 DEF Merged
  <2>2. loc'[t].x = a /\ loc'[t].stash = l.stash /\ loc'[t].op = l.op /\ loc'[t].obj = l.obj
        /\ pc'[t] = "relock"
    BY <1>3, <2>1 DEF Locals
  <2>3. InHand(p, l) = {a, b} /\ OfMalloc(Aside(p, l), l)
    BY <2>1, HandAt DEF OfMalloc
  <2>4. InHand(pc'[t], loc'[t]) = {a} /\ OfMalloc(Aside(pc'[t], loc'[t]), loc'[t])
    BY <2>2, HandAt DEF OfMalloc
  <2>5. Aside(pc'[t], loc'[t]) = Aside(p, l)
    BY <2>2, <2>3, <2>4 DEF OfMalloc
  <2>6. /\ ext'[a] = [ext[a] EXCEPT !.size = ext[a].size + ext[b].size, !.szind = MAX_PSZ_IDX]
        /\ ext'[b] = [ext[b] EXCEPT !.state = "none"]
        /\ \A d \in Page \ {a, b} : ext'[d] = ext[d]
    BY <1>11 DEF Merged
  <2>7. ext'[a].state = ext[a].state /\ ext'[b].state = "none"
    BY <1>3, <2>6
  <2>8. a \notin Aside(p, l) /\ b \notin Aside(p, l)
    BY <1>1, <2>3, Owning DEF Has, HasNot, Once, Nowhere
  <2>9. /\ InHand(pc'[t], loc'[t]) \cup Aside(pc'[t], loc'[t]) = (InHand(p, l) \cup Aside(p, l)) \ {b}
        /\ InHand(pc'[t], loc'[t]) \cap Aside(pc'[t], loc'[t]) = {}
        /\ b \in InHand(p, l)
    BY <2>1, <2>3, <2>4, <2>5, <2>8
  <2>10. ext'[b].state # "active" /\ \A d \in Page \ {b} : ext'[d].state = ext[d].state
    BY <2>6, <2>7
  <2> QED
    BY <1>1, <1>2, <2>2, <2>9, <2>10, Gives
<1> QED
  BY <1>4, <1>5, <1>6, <1>7, <1>8, <1>9, <1>10, <1>11, SplitDoes, InteriorDoes, RetireDoes,
     RegisterDoes, RecordDoes, MergeDoes DEF Shaping

----------------------------------------------------------------------------
(* Who has a page after a step. *)

LEMMA UnAt ==
  ASSUME NEW p, NEW l
  PROVE  /\ p = "register" => Unregistered(p, l) = Span(l.x, l.n)
         /\ p = "insert" => Unregistered(p, l) = Span(Base(l.y), CHUNK)
         /\ p \notin {"register", "insert"} => Unregistered(p, l) = {}
BY DEF Unregistered

\* What has the page q, of the extent a, the thread t, the arena and what is lost.
Any(q, e, un, f, L, a, t) ==
  InExtent(q, e, a) \/ q \in un[t] \/ q \in Span(f.mem, f.n) \/ q \in L
AtMostOne(q, e, un, f, L, a, t) ==
  LET Fresh == q \in Span(f.mem, f.n)
  IN /\ ~(InExtent(q, e, a) /\ q \in un[t]) /\ ~(InExtent(q, e, a) /\ Fresh)
     /\ ~(InExtent(q, e, a) /\ q \in L) /\ ~(q \in un[t] /\ Fresh)
     /\ ~(q \in un[t] /\ q \in L) /\ ~(Fresh /\ q \in L)

\* A page passes from one of them to another.
LEMMA Passes ==
  ASSUME NEW q \in Page, NEW a \in Page, NEW t \in Thread,
         \A b \in Page \ {a} : InExtent(q, ext', b) <=> InExtent(q, ext, b),
         \A u \in Thread \ {t} : q \in Un'[u] <=> q \in Un[u],
         Any(q, ext, Un, fresh, lost, a, t) <=> Any(q, ext', Un', fresh', lost', a, t),
         AtMostOne(q, ext, Un, fresh, lost, a, t) => AtMostOne(q, ext', Un', fresh', lost', a, t)
  PROVE  /\ OneTile(q, ext, Un, fresh, lost) => OneTile(q, ext', Un', fresh', lost')
         /\ NoTile(q, ext, Un, fresh, lost) => NoTile(q, ext', Un', fresh', lost')
<1>1. ASSUME OneTile(q, ext, Un, fresh, lost) PROVE OneTile(q, ext', Un', fresh', lost')
  <2>1. AtMostOne(q, ext, Un, fresh, lost, a, t)
    BY <1>1 DEF OneTile, OnlyExtent, OnlyThread, NoExtentAt, NoThreadAt, AtMostOne
  <2>2. AtMostOne(q, ext', Un', fresh', lost', a, t)
    BY <2>1
  <2>3. CASE OnlyExtent(q, ext) /\ NoThreadAt(q, Un) /\ q \notin Span(fresh.mem, fresh.n) /\ q \notin lost
    BY <2>2, <2>3 DEF OneTile, OnlyExtent, OnlyThread, NoExtentAt, NoThreadAt, Any, AtMostOne
  <2>4. CASE NoExtentAt(q, ext) /\ OnlyThread(q, Un) /\ q \notin Span(fresh.mem, fresh.n) /\ q \notin lost
    BY <2>2, <2>4 DEF OneTile, OnlyExtent, OnlyThread, NoExtentAt, NoThreadAt, Any, AtMostOne
  <2>5. CASE NoExtentAt(q, ext) /\ NoThreadAt(q, Un)
    BY <1>1, <2>2, <2>5 DEF OneTile, OnlyExtent, OnlyThread, NoExtentAt, NoThreadAt, Any, AtMostOne
  <2> QED
    BY <1>1, <2>3, <2>4, <2>5 DEF OneTile
<1>2. ASSUME NoTile(q, ext, Un, fresh, lost) PROVE NoTile(q, ext', Un', fresh', lost')
  BY <1>2 DEF NoTile, NoExtentAt, NoThreadAt, Any
<1> QED
  BY <1>1, <1>2

\* It passes from one extent to another.
LEMMA PassesBetween ==
  ASSUME NEW q \in Page, fresh' = fresh, lost' = lost,
         NEW a \in Page, NEW b \in Page, a # b,
         \A d \in Page \ {a, b} : InExtent(q, ext', d) <=> InExtent(q, ext, d),
         \A u \in Thread : q \in Un'[u] <=> q \in Un[u],
         InExtent(q, ext, a) \/ InExtent(q, ext, b) <=> InExtent(q, ext', a) \/ InExtent(q, ext', b),
         ~(InExtent(q, ext', a) /\ InExtent(q, ext', b))
  PROVE  /\ OneTile(q, ext, Un, fresh, lost) => OneTile(q, ext', Un', fresh', lost')
         /\ NoTile(q, ext, Un, fresh, lost) => NoTile(q, ext', Un', fresh', lost')
<1>1. NoThreadAt(q, Un) <=> NoThreadAt(q, Un')
  BY DEF NoThreadAt
<1>2. OnlyThread(q, Un) <=> OnlyThread(q, Un')
  BY DEF OnlyThread
<1>3. NoExtentAt(q, ext) <=> NoExtentAt(q, ext')
  BY DEF NoExtentAt
<1>4. OnlyExtent(q, ext) => OnlyExtent(q, ext')
  BY DEF OnlyExtent
<1> QED
  BY <1>1, <1>2, <1>3, <1>4 DEF OneTile, NoTile

LEMMA TiledStays ==
  ASSUME Tiled, NEW t \in Thread, Alone(t),
         \A a \in Page : (ext'[a].state = "none" <=> ext[a].state = "none")
                         /\ ext'[a].size = ext[a].size,
         fresh' = fresh, lost' = lost, mapped' = mapped,
         pc[t] \notin {"register", "insert"}, pc'[t] \notin {"register", "insert"}
  PROVE  Tiled'
<1>1. \A q, a \in Page : InExtent(q, ext', a) <=> InExtent(q, ext, a)
  BY DEF InExtent
<1>2. \A u \in Thread : Un'[u] = Un[u]
  BY UnAt DEF Un, Alone
<1>3. ASSUME NEW q \in Page
      PROVE  /\ OneTile(q, ext', Un', fresh', lost') <=> OneTile(q, ext, Un, fresh, lost)
             /\ NoTile(q, ext', Un', fresh', lost') <=> NoTile(q, ext, Un, fresh, lost)
  BY <1>1, <1>2 DEF OneTile, NoTile, NoExtentAt, OnlyExtent, NoThreadAt, OnlyThread
<1>4. \A a \in Page : ext'[a].state # "none" => ext'[a].size # 0 /\ a + ext'[a].size <= NPages
  BY DEF Tiled, Live
<1>5. \A u \in Thread : pc'[u] = "register" => loc'[u].x + loc'[u].n <= NPages
  BY DEF Tiled, Alone
<1>6. \A q \in Page : /\ FileOf(q) \in mapped' => OneTile(q, ext', Un', fresh', lost')
                      /\ FileOf(q) \notin mapped' => NoTile(q, ext', Un', fresh', lost')
  BY <1>3, TiledAt
<1> QED
  BY <1>4, <1>5, <1>6, TiledAfter

\* Where the memory of the arena stays as it is.
LEMMA Quietly ==
  ASSUME Types, NEW t \in Thread, Plain(t), ~Carve(t), ~MapFile(t), ~InsertFile(t)
  PROVE  /\ fresh' = fresh /\ lost' = lost /\ mapped' = mapped /\ files' = files
         /\ pc[t] \notin {"register", "insert"} /\ pc'[t] \notin {"register", "insert"}
<1>1. pc \in [Thread -> PCs]
  BY SMTT(30), TypesOf
<1>2. fresh' = fresh /\ lost' = lost /\ mapped' = mapped /\ files' = files
  BY ZenonT(60) DEF Plain, Carve, MapFile, MapFails, InsertFile, Look, Punch, PunchStops, NoDecay,
     Decay, EvictNone, EvictStops, Stashed, Fill, Pop, Log, LogCached, LogFree, GCStops, Begin,
     MallocCall, SlabCall, FreeCall, UnslabCall, arena
<1>3. CASE \/ MapFails(t) \/ Look(t) \/ Punch(t) \/ PunchStops(t) \/ NoDecay(t)
           \/ \E d \in Kinds, L \in Limits : Decay(t, d, L)
           \/ EvictNone(t) \/ EvictStops(t) \/ Stashed(t) \/ GCStops(t)
  <2>1. pc[t] \notin {"register", "insert"}
    BY ZenonT(60), <1>3 DEF MapFails, Look, Punch, PunchStops, NoDecay, Decay, EvictNone, EvictStops, Stashed,
       GCStops, At, MayEvict
  <2>2. pc'[t] \notin {"register", "insert"}
    BY ZenonT(60), <1>1, <1>3, <2>1 DEF MapFails, Look, Punch, PunchStops, NoDecay, Decay, EvictNone, EvictStops,
       Stashed, GCStops, Goto, Onward, After
  <2> QED
    BY <1>2, <2>1, <2>2
<1>4. CASE \/ Fill(t) \/ Pop(t) \/ Log(t) \/ LogCached(t) \/ LogFree(t) \/ Begin(t)
  <2>1. pc[t] \notin {"register", "insert"}
    BY <1>4 DEF Fill, Pop, Log, LogCached, LogFree, Begin, MallocCall, SlabCall, FreeCall,
       UnslabCall, Call, At
  <2>2. pc'[t] \notin {"register", "insert"}
    BY Zenon, <1>1, <1>4 DEF Fill, Pop, Log, LogCached, LogFree, Begin, MallocCall, SlabCall, FreeCall,
       UnslabCall, Goto, Done
  <2> QED
    BY <1>2, <2>1, <2>2
<1> QED
  BY <1>3, <1>4 DEF Plain

\* The pages of new memory that is cut.
LEMMA SpanCut ==
  ASSUME NEW a \in Int, NEW n \in Int, NEW m \in Int, 1 <= n, n <= m, NEW q \in Int
  PROVE  /\ q \in Span(a, m) <=> q \in Span(a, n) \/ q \in Span(a + n, m - n)
         /\ ~(q \in Span(a, n) /\ q \in Span(a + n, m - n))
BY DEF Span

LEMMA PlainTiled ==
  ASSUME IndInv, NEW t \in Thread, Plain(t)
  PROVE  Tiled'
<1> DEFINE p == pc[t]
           l == loc[t]
<1>1. Types /\ Control(p, l, mapped, cache[t]) /\ Tiled /\ NewMemory /\ Alone(t) /\ SameExtents
  BY Parts, OthersStay, PlainKeeps
<1>2. /\ pc \in [Thread -> PCs] /\ loc \in [Thread -> Locals] /\ l \in Locals
      /\ fresh \in [mem : {NoPage} \cup 0 .. NPages, n : 0 .. CHUNK]
      /\ mapped \subseteq Chunk
  BY <1>1, TypesOf
<1>3. \A q, a \in Page : InExtent(q, ext', a) <=> InExtent(q, ext, a)
  BY <1>1 DEF InExtent, SameExtents
<1>4. \A a \in Page : ext'[a].state # "none" => ext'[a].size # 0 /\ a + ext'[a].size <= NPages
  BY <1>1 DEF Tiled, Live, SameExtents
<1>5. \A u \in Thread \ {t} : Un'[u] = Un[u]
  BY <1>1 DEF Un, Alone
<1>6. CASE Carve(t)
  <2>1. /\ p = "new" /\ l.n <= fresh.n /\ pc'[t] = "register"
        /\ loc' = [loc EXCEPT ![t].x = fresh.mem]
        /\ fresh' = [mem |-> fresh.mem + l.n, n |-> fresh.n - l.n]
        /\ lost' = lost /\ mapped' = mapped
    BY <1>2, <1>6 DEF Carve, At, Goto
  <2>2. loc'[t].x = fresh.mem /\ loc'[t].n = l.n
    BY <1>2, <2>1 DEF Locals
  <2>3. l.n \in 1 .. CHUNK
    BY <1>1, <1>2, <2>1, Asked DEF Control, CallsAt
  <2>4. fresh.mem \in Page /\ fresh.mem + fresh.n <= NPages /\ fresh.n \in 0 .. CHUNK
    BY <1>1, <1>2, <2>1, <2>3, Sizes DEF NewMemory
  <2>5. /\ Un[t] = {} /\ Un'[t] = Span(fresh.mem, l.n)
    BY <2>1, <2>2, UnAt DEF Un
  <2>6. ASSUME NEW q \in Page
        PROVE  /\ q \in Span(fresh.mem, fresh.n) <=> q \in Un'[t] \/ q \in Span(fresh'.mem, fresh'.n)
               /\ ~(q \in Un'[t] /\ q \in Span(fresh'.mem, fresh'.n))
    <3>1. q \in Int /\ fresh.mem \in Int /\ l.n \in Int /\ fresh.n \in Int /\ l.n <= fresh.n /\ 1 <= l.n
      BY <2>1, <2>3, <2>4, Pages_, Sizes
    <3>2. fresh'.mem = fresh.mem + l.n /\ fresh'.n = fresh.n - l.n
      BY <2>1
    <3> QED
      BY SMTT(30), <2>5, <3>1, <3>2 DEF Span
  <2>7. ASSUME NEW q \in Page
        PROVE  /\ OneTile(q, ext, Un, fresh, lost) => OneTile(q, ext', Un', fresh', lost')
               /\ NoTile(q, ext, Un, fresh, lost) => NoTile(q, ext', Un', fresh', lost')
    <3>1. /\ Any(q, ext, Un, fresh, lost, q, t) <=> Any(q, ext', Un', fresh', lost', q, t)
          /\ AtMostOne(q, ext, Un, fresh, lost, q, t) => AtMostOne(q, ext', Un', fresh', lost', q, t)
      BY <1>3, <2>1, <2>5, <2>6 DEF Any, AtMostOne
    <3> QED
      BY <1>3, <1>5, <3>1, Passes
  <2>8. loc'[t].x + loc'[t].n <= NPages
    BY <2>1, <2>2, <2>3, <2>4, Pages_, Sizes
  <2>9. \A u \in Thread : pc'[u] = "register" => loc'[u].x + loc'[u].n <= NPages
    BY <1>1, <2>8 DEF Tiled, Alone
  <2> QED
    BY <1>1, <1>4, <2>1, <2>7, <2>9, TiledAt, TiledAfter
<1>7. CASE InsertFile(t)
  <2>1. /\ p = "insert" /\ pc'[t] = "register"
        /\ loc' = [loc EXCEPT ![t].x = Base(l.y), ![t].y = NoPage]
        /\ fresh' = [mem |-> Base(l.y) + l.n, n |-> CHUNK - l.n]
        /\ lost' = lost /\ mapped' = mapped
    BY <1>2, <1>7 DEF InsertFile, At, Goto
  <2>2. loc'[t].x = Base(l.y) /\ loc'[t].n = l.n
    BY <1>2, <2>1 DEF Locals
  <2>3. l.n \in 1 .. CHUNK
    BY <1>1, <1>2, <2>1, Asked DEF Control, CallsAt
  <2>4. Base(l.y) \in Page /\ Base(l.y) + CHUNK <= NPages
    BY <1>1, <1>2, <2>1, Chunks DEF Control
  <2>5. fresh.n = 0 /\ fresh.mem \in Int
    BY <1>1, <1>2, <2>1, Sizes DEF NewMemory, NoPage
  <2>6. /\ Un[t] = Span(Base(l.y), CHUNK) /\ Un'[t] = Span(Base(l.y), l.n)
    BY <2>1, <2>2, UnAt DEF Un
  <2>7. ASSUME NEW q \in Page
        PROVE  /\ q \in Un[t] <=> q \in Un'[t] \/ q \in Span(fresh'.mem, fresh'.n)
               /\ ~(q \in Un'[t] /\ q \in Span(fresh'.mem, fresh'.n))
               /\ q \notin Span(fresh.mem, fresh.n)
    <3>1. q \in Int /\ Base(l.y) \in Int /\ l.n \in Int /\ CHUNK \in Int /\ l.n <= CHUNK /\ 1 <= l.n
      BY <2>1, <2>3, <2>4, Pages_, Sizes
    <3>2. fresh'.mem = Base(l.y) + l.n /\ fresh'.n = CHUNK - l.n
      BY <2>1
    <3>3. Span(fresh.mem, fresh.n) = {}
      BY <2>5 DEF Span
    <3> QED
      BY <2>6, <3>1, <3>2, <3>3, SpanCut
  <2>8. ASSUME NEW q \in Page
        PROVE  /\ OneTile(q, ext, Un, fresh, lost) => OneTile(q, ext', Un', fresh', lost')
               /\ NoTile(q, ext, Un, fresh, lost) => NoTile(q, ext', Un', fresh', lost')
    <3>1. /\ Any(q, ext, Un, fresh, lost, q, t) <=> Any(q, ext', Un', fresh', lost', q, t)
          /\ AtMostOne(q, ext, Un, fresh, lost, q, t) => AtMostOne(q, ext', Un', fresh', lost', q, t)
      BY <1>3, <2>1, <2>7 DEF Any, AtMostOne
    <3> QED
      BY <1>3, <1>5, <3>1, Passes
  <2>9. loc'[t].x + loc'[t].n <= NPages
    BY <2>1, <2>2, <2>3, <2>4, Pages_, Sizes
  <2>10. \A u \in Thread : pc'[u] = "register" => loc'[u].x + loc'[u].n <= NPages
    BY <1>1, <2>9 DEF Tiled, Alone
  <2> QED
    BY <1>1, <1>4, <2>1, <2>8, <2>10, TiledAt, TiledAfter
<1>8. CASE MapFile(t)
  <2>1. PICK k \in Chunk \ mapped :
          /\ p = "map" /\ pc'[t] = "insert" /\ loc' = [loc EXCEPT ![t].y = k]
          /\ fresh' = fresh /\ lost' = lost /\ mapped' = mapped \cup {k}
    BY <1>2, <1>8 DEF MapFile, At, Goto
  <2>2. Un[t] = {} /\ Un'[t] = Span(Base(k), CHUNK)
    <3>1. loc'[t].y = k
      BY <1>2, <2>1 DEF Locals
    <3> QED
      BY <2>1, <3>1, UnAt DEF Un
  <2>3. ASSUME NEW q \in Page
        PROVE  /\ FileOf(q) \in mapped' => OneTile(q, ext', Un', fresh', lost')
               /\ FileOf(q) \notin mapped' => NoTile(q, ext', Un', fresh', lost')
    <3>1. FileOf(q) = k <=> q \in Un'[t]
      BY <2>2, Chunks
    <3>2. CASE FileOf(q) = k
      <4>1. NoTile(q, ext, Un, fresh, lost)
        BY <1>1, <2>1, <3>2, TiledAt
      <4>2. OneTile(q, ext', Un', fresh', lost')
        BY <1>3, <1>5, <2>1, <3>1, <3>2, <4>1
           DEF NoTile, OneTile, NoExtentAt, NoThreadAt, OnlyThread
      <4> QED
        BY <2>1, <3>2, <4>2
    <3>3. CASE FileOf(q) # k
      <4>1. /\ OneTile(q, ext', Un', fresh', lost') <=> OneTile(q, ext, Un, fresh, lost)
            /\ NoTile(q, ext', Un', fresh', lost') <=> NoTile(q, ext, Un, fresh, lost)
        <5>1. \A u \in Thread : q \in Un'[u] <=> q \in Un[u]
          BY <1>5, <2>2, <3>1, <3>3
        <5> QED
          BY <1>3, <2>1, <5>1 DEF OneTile, NoTile, NoExtentAt, OnlyExtent, NoThreadAt, OnlyThread
      <4> QED
        BY <1>1, <2>1, <3>3, <4>1, TiledAt
    <3> QED
      BY <3>2, <3>3
  <2>4. \A u \in Thread : pc'[u] = "register" => loc'[u].x + loc'[u].n <= NPages
    BY <1>1, <2>1 DEF Tiled, Alone
  <2> QED
    BY <1>4, <2>3, <2>4, TiledAfter
<1>9. CASE ~Carve(t) /\ ~MapFile(t) /\ ~InsertFile(t)
  BY <1>1, <1>9, Quietly, TiledStays DEF SameExtents
<1> QED
  BY <1>6, <1>7, <1>8, <1>9

----------------------------------------------------------------------------
(* What the steps do that take an extent out of a pool or give one to it. *)

Pulled(t, p, b) ==
  /\ ext[b].state = p /\ ~ext[b].slab
  /\ ext'[b] = [ext[b] EXCEPT !.state = "active"] /\ \A d \in Page \ {b} : ext'[d] = ext[d]
  /\ pool' = [pool EXCEPT ![p] = Removed(pool[p], b)]

Pushed(t, p, b) ==
  /\ ext[b].state = "active" /\ ~ext[b].slab /\ b \in InHand(pc[t], loc[t])
  /\ ext'[b] = [ext[b] EXCEPT !.state = p] /\ \A d \in Page \ {b} : ext'[d] = ext[d]
  /\ pool' = [pool EXCEPT ![p] = Inserted(pool[p], b)]

LEMMA PoolingDoes ==
  ASSUME IndInv, NEW t \in Thread, Pooling(t)
  PROVE  \/ ext' = ext /\ pool' = pool
         \/ \E p \in Kinds, b \in Page : Pulled(t, p, b) \/ Pushed(t, p, b)
<1> DEFINE l == loc[t]
<1>1. Types /\ Control(pc[t], l, mapped, cache[t]) /\ Hands(t) /\ Owned /\ Tiled /\ PoolsInOrder /\ Objects
  BY Parts
<1>2. pc \in [Thread -> PCs] /\ loc \in [Thread -> Locals] /\ l \in Locals
      /\ DOMAIN ext = Page /\ l.p \in Kinds
  BY <1>1, TypesOf DEF Locals
<1>3. "dirty" \in Kinds /\ \A p \in Kinds : \A a \in InPool(p) : ~ext[a].slab
  BY <1>1 DEF Objects, InPool, Kinds
<1>4. ASSUME NEW b \in InHand(pc[t], l), b \in Page PROVE ext[b].state = "active"
  BY <1>4, HandLive
<1>5. CASE Recycle(t)
  <2>1. PICK b : b = Fit(l.p, l.n)
    OBVIOUS
  <2>2. CASE b # NoPage
    <3>1. l.n \in 1 .. NPages
      <4>1. pc[t] = "recycle"
        BY <1>5 DEF Recycle, At
      <4> QED
        BY <1>1, <1>2, <4>1, Asked, Sizes DEF Control, CallsAt
    <3>2. b \in Page /\ ext[b].state = l.p /\ ~ext[b].slab
      BY <1>1, <1>2, <1>3, <2>1, <2>2, <3>1, FitGives DEF InPool
    <3>3. ext' = [ext EXCEPT ![b].state = "active"]
          /\ pool' = [pool EXCEPT ![l.p] = Removed(pool[l.p], b)]
      BY <1>5, <2>1, <2>2 DEF Recycle
    <3>4. Pulled(t, l.p, b)
      BY <1>2, <3>2, <3>3 DEF Pulled
    <3> QED
      BY <1>2, <3>2, <3>4
  <2>3. CASE b = NoPage
    BY <1>5, <2>1, <2>3 DEF Recycle
  <2> QED
    BY <2>2, <2>3
<1>6. CASE Trail(t)
  <2>1. pc[t] = "trail" /\ InHand(pc[t], l) = {l.x, l.y}
    BY <1>6, HandAt DEF Trail, At
  <2>2. l.y \in Page /\ ~ext[l.y].slab
    BY <1>1, <2>1 DEF Control, Hands
  <2>3. ext' = [ext EXCEPT ![l.y].state = l.p] /\ pool' = [pool EXCEPT ![l.p] = Inserted(pool[l.p], l.y)]
    BY <1>6 DEF Trail
  <2>4. Pushed(t, l.p, l.y)
    BY <1>2, <1>4, <2>1, <2>2, <2>3 DEF Pushed
  <2> QED
    BY <1>2, <2>2, <2>4
<1>7. CASE Retired(t)
  <2>1. pc[t] = "retired" /\ InHand(pc[t], l) = {l.y}
    BY <1>7, HandAt DEF Retired, At
  <2>2. l.y \in Page /\ ~ext[l.y].slab
    BY <1>1, <2>1 DEF Control, Hands
  <2>3. ext' = [ext EXCEPT ![l.y].state = "dirty"]
        /\ pool' = [pool EXCEPT !["dirty"] = Inserted(pool["dirty"], l.y)]
    BY <1>7 DEF Retired
  <2>4. Pushed(t, "dirty", l.y)
    BY <1>2, <1>4, <2>1, <2>2, <2>3 DEF Pushed
  <2> QED
    BY <1>3, <2>2, <2>4
<1>8. CASE EvictDirty(t)
  <2>1. PICK b : b = Head(pool.dirty.lru)
    OBVIOUS
  <2>2. b \in Page /\ ext[b].state = "dirty" /\ ~ext[b].slab
    BY <1>1, <1>3, <1>8, <2>1, First DEF EvictDirty, AtLimit, InPool
  <2>3. ext' = [ext EXCEPT ![b].state = "active"]
        /\ pool' = [pool EXCEPT !["dirty"] = Removed(pool["dirty"], b)]
    BY <1>8, <2>1 DEF EvictDirty
  <2>4. Pulled(t, "dirty", b)
    BY <1>2, <2>2, <2>3 DEF Pulled
  <2> QED
    BY <1>3, <2>2, <2>4
<1>9. CASE Check(t)
  <2>1. CASE UNCHANGED <<ext, pool>>
    BY <2>1
  <2>2. CASE /\ Mergeable(l.p, l.y) /\ ext' = [ext EXCEPT ![l.y].state = "active"]
             /\ pool' = [pool EXCEPT ![l.p] = Removed(pool[l.p], l.y)]
    <3>1. pc[t] = "check"
      BY <1>9 DEF Check, At
    <3>2. l.y \in Page /\ ext[l.y].state = l.p
      BY <1>1, <2>2, <3>1 DEF Control, Mergeable
    <3>3. ~ext[l.y].slab
      BY <1>2, <1>3, <3>2 DEF InPool
    <3>4. Pulled(t, l.p, l.y)
      BY <1>2, <2>2, <3>2, <3>3 DEF Pulled
    <3> QED
      BY <1>2, <3>2, <3>4
  <2> QED
    BY <1>9, <2>1, <2>2 DEF Check
<1>10. CASE Relock(t)
  <2>1. pc[t] = "relock" /\ InHand(pc[t], l) = {l.x}
    BY <1>10, HandAt DEF Relock, At
  <2>2. l.x \in Page /\ ~ext[l.x].slab
    BY <1>1, <2>1 DEF Control, Hands, Giving
  <2>3. CASE ext' = [ext EXCEPT ![l.x].state = "dirty"]
             /\ pool' = [pool EXCEPT !["dirty"] = Inserted(pool["dirty"], l.x)]
    <3>1. Pushed(t, "dirty", l.x)
      BY <1>2, <1>4, <2>1, <2>2, <2>3 DEF Pushed
    <3> QED
      BY <1>3, <2>2, <3>1
  <2> QED
    BY <1>10, <2>3 DEF Relock
<1>11. CASE Settle(t)
  <2>1. pc[t] = "settle" /\ InHand(pc[t], l) = {l.x}
    BY <1>11, HandAt DEF Settle, At
  <2>2. l.x \in Page /\ ~ext[l.x].slab
    BY <1>1, <2>1 DEF Control, Hands, Giving
  <2>3. CASE ext' = [ext EXCEPT ![l.x].state = l.p]
             /\ pool' = [pool EXCEPT ![l.p] = Inserted(pool[l.p], l.x)]
    <3>1. Pushed(t, l.p, l.x)
      BY <1>2, <1>4, <2>1, <2>2, <2>3 DEF Pushed
    <3> QED
      BY <1>2, <2>2, <3>1
  <2> QED
    BY <1>11, <2>3 DEF Settle
<1> QED
  BY <1>5, <1>6, <1>7, <1>8, <1>9, <1>10, <1>11 DEF Pooling

LEMMA PoolingKeeps ==
  ASSUME IndInv, NEW t \in Thread, Pooling(t)
  PROVE  /\ SameExtents
         /\ fresh' = fresh /\ lost' = lost /\ mapped' = mapped /\ files' = files
         /\ pc[t] \notin {"register", "insert"} /\ pc'[t] \notin {"register", "insert"}
<1>1. Types
  BY Parts
<1>2. \A d \in Page : DOMAIN ext[d] = {"size", "szind", "slab", "state", "log"}
  BY SMTT(30), <1>1, TypesOf
<1>3. /\ tree' = tree /\ fresh' = fresh /\ lost' = lost /\ mapped' = mapped /\ files' = files
  BY ZenonT(60) DEF Pooling, Recycle, Trail, Retired, EvictDirty, Check, Relock, Settle, arena
<1>4. pc[t] \notin {"register", "insert"}
  BY ZenonT(60) DEF Pooling, Recycle, Trail, Retired, EvictDirty, Check, Relock, Settle, At, MayEvict
<1>5. pc'[t] \notin {"register", "insert"}
  BY <1>1, TypesOf DEF Pooling, Recycle, Trail, Retired, EvictDirty, Check, Relock, Settle, Goto,
     Taken, Onward
<1>6. ASSUME NEW a \in Page
      PROVE  /\ ext'[a].size = ext[a].size /\ ext'[a].szind = ext[a].szind
             /\ ext'[a].slab = ext[a].slab
             /\ ext'[a].state = "none" <=> ext[a].state = "none"
  <2>1. CASE ext' = ext
    BY <2>1
  <2>2. ASSUME NEW p \in Kinds, NEW b \in Page, Pulled(t, p, b) \/ Pushed(t, p, b)
        PROVE  /\ ext'[a].size = ext[a].size /\ ext'[a].szind = ext[a].szind
               /\ ext'[a].slab = ext[a].slab
               /\ ext'[a].state = "none" <=> ext[a].state = "none"
    <3>1. p # "none"
      BY DEF Kinds
    <3>2. CASE Pulled(t, p, b)
      <4>1. ext'[b] = [ext[b] EXCEPT !.state = "active"] /\ ext[b].state = p
            /\ \A d \in Page \ {b} : ext'[d] = ext[d]
        BY <3>2 DEF Pulled
      <4> QED
        BY <1>2, <3>1, <4>1
    <3>3. CASE Pushed(t, p, b)
      <4>1. ext'[b] = [ext[b] EXCEPT !.state = p] /\ ext[b].state = "active"
            /\ \A d \in Page \ {b} : ext'[d] = ext[d]
        BY <3>3 DEF Pushed
      <4> QED
        BY <1>2, <3>1, <4>1
    <3> QED
      BY <2>2, <3>2, <3>3
  <2> QED
    BY <2>1, <2>2, PoolingDoes
<1> QED
  BY <1>3, <1>4, <1>5, <1>6 DEF SameExtents

LEMMA PoolingTiled ==
  ASSUME IndInv, NEW t \in Thread, Pooling(t)
  PROVE  Tiled'
BY Parts, OthersStay, PoolingKeeps, TiledStays DEF SameExtents

\* The pages of two extents side by side are those of the one they make.
LEMMA SpanJoin ==
  ASSUME NEW a \in Int, NEW m \in Nat, NEW n \in Nat, NEW q \in Int
  PROVE  /\ q \in Span(a, m + n) <=> q \in Span(a, m) \/ q \in Span(a + m, n)
         /\ ~(q \in Span(a, m) /\ q \in Span(a + m, n))
BY DEF Span

LEMMA ShapingTiled ==
  ASSUME IndInv, NEW t \in Thread, Shaping(t)
  PROVE  Tiled'
<1> DEFINE p == pc[t]
           l == loc[t]
<1>1. Types /\ Tiled /\ Alone(t)
  BY Parts, OthersStay
<1>2. /\ l \in Locals /\ DOMAIN ext = Page
      /\ \A d \in Page : DOMAIN ext[d] = {"size", "szind", "slab", "state", "log"}
  BY <1>1, TypesOf
<1>3. ~Retire(t) => fresh' = fresh /\ lost' = lost /\ mapped' = mapped
  BY Zenon DEF Shaping, Split, Interior, Register, Record, Merge, arena
<1>4. \A u \in Thread \ {t} : Un'[u] = Un[u] /\ (pc'[u] = "register" => loc'[u].x + loc'[u].n <= NPages)
  BY <1>1 DEF Un, Alone, Tiled
<1>5. ASSUME NEW a \in Page, NEW b \in Page, Cut(t, a, b), ~Retire(t) PROVE Tiled'
  <2>1. /\ p = "split" /\ a # b /\ pc'[t] = "trail" /\ b = a + l.n /\ l.n \in 1 .. CHUNK
        /\ ext[a].state = "active" /\ ext[b].state = "none"
        /\ ext[a].size \in 1 .. NPages /\ ext[a].size > l.n
        /\ \A d \in Page \ {a, b} : ext'[d] = ext[d]
    BY <1>5 DEF Cut
  <2>2. /\ ext'[a].size = l.n /\ ext'[a].state = "active"
        /\ ext'[b].size = ext[a].size - l.n /\ ext'[b].state = "active"
    <3>1. /\ ext'[a] = [ext[a] EXCEPT !.size = l.n, !.szind = l.c]
          /\ ext'[b] = [size |-> ext[a].size - l.n, szind |-> MAX_PSZ_IDX, slab |-> FALSE,
                        state |-> "active", log |-> ext[b].log]
      BY <1>5 DEF Cut
    <3> QED
      BY <1>2, <2>1, <3>1
  <2>3. PICK m \in Nat : m = ext[a].size - l.n /\ m # 0 /\ ext[a].size = l.n + m
    BY <2>1, Sizes
  <2>4. a + ext[a].size <= NPages
    BY <1>1, <2>1 DEF Tiled, Live
  <2>5. \A d \in Page : ext'[d].state # "none" => ext'[d].size # 0 /\ d + ext'[d].size <= NPages
    <3>1. a + l.n <= NPages /\ b + m <= NPages /\ l.n # 0
      BY <2>1, <2>3, <2>4, Pages_, Sizes
    <3> QED
      BY <1>1, <2>1, <2>2, <2>3, <3>1 DEF Tiled, Live
  <2>6. \A u \in Thread : Un'[u] = Un[u]
    <3>1. Un[t] = {} /\ Un'[t] = {}
      BY <2>1, UnAt DEF Un
    <3> QED
      BY <1>4, <3>1
  <2>7. ASSUME NEW q \in Page
        PROVE  /\ OneTile(q, ext, Un, fresh, lost) => OneTile(q, ext', Un', fresh', lost')
               /\ NoTile(q, ext, Un, fresh, lost) => NoTile(q, ext', Un', fresh', lost')
    <3>1. /\ q \in Span(a, l.n + m) <=> q \in Span(a, l.n) \/ q \in Span(b, m)
          /\ ~(q \in Span(a, l.n) /\ q \in Span(b, m))
      <4>1. PICK n \in Nat : n = l.n
        BY <2>1, Sizes
      <4>2. a \in Int /\ q \in Int /\ b = a + n
        BY <2>1, <4>1, Pages_
      <4>3. /\ q \in Span(a, n + m) <=> q \in Span(a, n) \/ q \in Span(b, m)
            /\ ~(q \in Span(a, n) /\ q \in Span(b, m))
        BY <4>2, SpanJoin
      <4> QED
        BY <4>1, <4>3
    <3>2. /\ InExtent(q, ext, a) \/ InExtent(q, ext, b) <=> InExtent(q, ext', a) \/ InExtent(q, ext', b)
          /\ ~(InExtent(q, ext', a) /\ InExtent(q, ext', b))
      BY <2>1, <2>2, <2>3, <3>1 DEF InExtent
    <3>3. \A d \in Page \ {a, b} : InExtent(q, ext', d) <=> InExtent(q, ext, d)
      BY <2>1 DEF InExtent
    <3> QED
      BY <1>3, <1>5, <2>1, <2>6, <3>2, <3>3, PassesBetween
  <2>8. \A u \in Thread : pc'[u] = "register" => loc'[u].x + loc'[u].n <= NPages
    BY <1>4, <2>1
  <2> QED
    BY <1>1, <1>3, <1>5, <2>5, <2>7, <2>8, TiledAt, TiledAfter
<1>6. ASSUME NEW a \in Page, NEW b \in Page, Merged(t, a, b), ~Retire(t) PROVE Tiled'
  <2>1. /\ p = "merge" /\ a # b /\ pc'[t] = "relock" /\ b = a + ext[a].size
        /\ ext[a].state = "active" /\ ext[b].state = "active"
        /\ ext[a].size \in 1 .. NPages /\ ext[b].size \in 1 .. NPages
        /\ b + ext[b].size <= NPages
        /\ \A d \in Page \ {a, b} : ext'[d] = ext[d]
    BY <1>6 DEF Merged
  <2>2. /\ ext'[a].size = ext[a].size + ext[b].size /\ ext'[a].state = "active"
        /\ ext'[b].state = "none"
    <3>1. /\ ext'[a] = [ext[a] EXCEPT !.size = ext[a].size + ext[b].size, !.szind = MAX_PSZ_IDX]
          /\ ext'[b] = [ext[b] EXCEPT !.state = "none"]
      BY <1>6 DEF Merged
    <3> QED
      BY <1>2, <2>1, <3>1
  <2>3. PICK m \in Nat, n \in Nat : m = ext[a].size /\ m # 0 /\ n = ext[b].size /\ n # 0
    BY <2>1, Sizes
  <2>4. \A d \in Page : ext'[d].state # "none" => ext'[d].size # 0 /\ d + ext'[d].size <= NPages
    <3>1. a + (m + n) <= NPages /\ m + n # 0
      BY <2>1, <2>3, Pages_, Sizes
    <3> QED
      BY <1>1, <2>1, <2>2, <2>3, <3>1 DEF Tiled, Live
  <2>5. \A u \in Thread : Un'[u] = Un[u]
    <3>1. Un[t] = {} /\ Un'[t] = {}
      BY <2>1, UnAt DEF Un
    <3> QED
      BY <1>4, <3>1
  <2>6. ASSUME NEW q \in Page
        PROVE  /\ OneTile(q, ext, Un, fresh, lost) => OneTile(q, ext', Un', fresh', lost')
               /\ NoTile(q, ext, Un, fresh, lost) => NoTile(q, ext', Un', fresh', lost')
    <3>1. /\ q \in Span(a, m + n) <=> q \in Span(a, m) \/ q \in Span(b, n)
          /\ ~(q \in Span(a, m) /\ q \in Span(b, n))
      <4>1. a \in Int /\ q \in Int /\ b = a + m
        BY <2>1, <2>3, Pages_
      <4> QED
        BY <4>1, SpanJoin
    <3>2. /\ InExtent(q, ext, a) \/ InExtent(q, ext, b) <=> InExtent(q, ext', a) \/ InExtent(q, ext', b)
          /\ ~(InExtent(q, ext', a) /\ InExtent(q, ext', b))
      BY <2>1, <2>2, <2>3, <3>1 DEF InExtent
    <3>3. \A d \in Page \ {a, b} : InExtent(q, ext', d) <=> InExtent(q, ext, d)
      BY <2>1 DEF InExtent
    <3> QED
      BY <1>3, <1>6, <2>1, <2>5, <3>2, <3>3, PassesBetween
  <2>7. \A u \in Thread : pc'[u] = "register" => loc'[u].x + loc'[u].n <= NPages
    BY <1>4, <2>1
  <2> QED
    BY <1>1, <1>3, <1>6, <2>4, <2>6, <2>7, TiledAt, TiledAfter
<1>7. ASSUME NEW a \in Page,
             (Whole(t, a) \/ Marked(t, a) \/ Recorded(t, a)) /\ ~Retire(t)
      PROVE  Tiled'
  <2>1. p \in {"split", "interior", "record"} /\ pc'[t] \in {"interior", "ticks", "log", "look"}
    BY <1>7 DEF Whole, Marked, Recorded
  <2>2. /\ \A d \in Page \ {a} : ext'[d] = ext[d]
        /\ \/ ext'[a] = [ext[a] EXCEPT !.szind = l.c]
           \/ ext'[a] = [ext[a] EXCEPT !.slab = TRUE]
           \/ ext'[a] = [ext[a] EXCEPT !.szind = MAX_PSZ_IDX, !.slab = FALSE]
    BY <1>7 DEF Whole, Marked, Recorded
  <2>3. ext'[a].size = ext[a].size /\ ext'[a].state = ext[a].state
    BY <1>2, <2>2
  <2> QED
    BY <1>1, <1>3, <1>7, <2>1, <2>2, <2>3, TiledStays
<1>8. ASSUME NEW a \in Page, NEW n, Registered(t, a, n), ~Retire(t) PROVE Tiled'
  <2>1. /\ p = "register" /\ a = l.x /\ n = l.n /\ n \in 1 .. CHUNK /\ a + n <= NPages
        /\ ext[a].state = "none" /\ pc'[t] \in {"log", "ticks"}
        /\ \A d \in Page \ {a} : ext'[d] = ext[d]
    BY <1>8 DEF Registered
  <2>2. ext'[a].size = n /\ ext'[a].state = "active"
    <3>1. ext'[a] = [size |-> n, szind |-> l.c, slab |-> l.slab, state |-> "active",
                     log |-> ext[a].log]
      BY <1>8 DEF Registered
    <3> QED
      BY <3>1
  <2>3. Un[t] = Span(a, n) /\ Un'[t] = {}
    BY <2>1, UnAt DEF Un
  <2>4. ASSUME NEW q \in Page
        PROVE  /\ OneTile(q, ext, Un, fresh, lost) => OneTile(q, ext', Un', fresh', lost')
               /\ NoTile(q, ext, Un, fresh, lost) => NoTile(q, ext', Un', fresh', lost')
    <3>1. /\ ~InExtent(q, ext, a) /\ (InExtent(q, ext', a) <=> q \in Un[t]) /\ q \notin Un'[t]
          /\ \A b \in Page \ {a} : InExtent(q, ext', b) <=> InExtent(q, ext, b)
      BY <2>1, <2>2, <2>3 DEF InExtent
    <3>2. /\ Any(q, ext, Un, fresh, lost, a, t) <=> Any(q, ext', Un', fresh', lost', a, t)
          /\ AtMostOne(q, ext, Un, fresh, lost, a, t) => AtMostOne(q, ext', Un', fresh', lost', a, t)
      BY <1>3, <1>8, <3>1 DEF Any, AtMostOne
    <3> QED
      BY <1>4, <3>1, <3>2, Passes
  <2>5. \A d \in Page : ext'[d].state # "none" => ext'[d].size # 0 /\ d + ext'[d].size <= NPages
    <3>1. n # 0
      BY <2>1, Sizes
    <3> QED
      BY <1>1, <2>1, <2>2, <3>1 DEF Tiled, Live
  <2>6. \A u \in Thread : pc'[u] = "register" => loc'[u].x + loc'[u].n <= NPages
    BY <1>4, <2>1
  <2> QED
    BY <1>1, <1>3, <1>8, <2>4, <2>5, <2>6, TiledAt, TiledAfter
<1>9. ASSUME NEW a \in Page, NEW n, Kept(t, a, n) PROVE Tiled'
  <2>1. /\ p = "new" /\ a = fresh.mem /\ n = fresh.n /\ n \in 1 .. CHUNK /\ a + n <= NPages
        /\ ext[a].state = "none" /\ pc'[t] = "retired"
        /\ fresh' = NoFresh /\ mapped' = mapped /\ lost' = lost
        /\ \A d \in Page \ {a} : ext'[d] = ext[d]
    BY <1>9 DEF Kept
  <2>2. ext'[a].size = n /\ ext'[a].state = "active"
    <3>1. ext'[a] = [size |-> n, szind |-> get_psizeclass(n), slab |-> FALSE,
                     state |-> "active", log |-> ext[a].log]
      BY <1>9 DEF Kept
    <3> QED
      BY <3>1
  <2>3. Un[t] = {} /\ Un'[t] = {} /\ Span(fresh'.mem, fresh'.n) = {}
    <3>1. fresh'.mem = -1 /\ fresh'.n = 0
      BY <2>1 DEF NoFresh, NoPage
    <3> QED
      BY <2>1, <3>1, UnAt DEF Un, Span
  <2>4. ASSUME NEW q \in Page
        PROVE  /\ OneTile(q, ext, Un, fresh, lost) => OneTile(q, ext', Un', fresh', lost')
               /\ NoTile(q, ext, Un, fresh, lost) => NoTile(q, ext', Un', fresh', lost')
    <3>1. /\ ~InExtent(q, ext, a) /\ (InExtent(q, ext', a) <=> q \in Span(fresh.mem, fresh.n))
          /\ q \notin Span(fresh'.mem, fresh'.n)
          /\ \A b \in Page \ {a} : InExtent(q, ext', b) <=> InExtent(q, ext, b)
      BY <2>1, <2>2, <2>3 DEF InExtent
    <3>2. /\ Any(q, ext, Un, fresh, lost, a, t) <=> Any(q, ext', Un', fresh', lost', a, t)
          /\ AtMostOne(q, ext, Un, fresh, lost, a, t) => AtMostOne(q, ext', Un', fresh', lost', a, t)
      BY <2>1, <2>3, <3>1 DEF Any, AtMostOne
    <3> QED
      BY <1>4, <3>1, <3>2, Passes
  <2>5. \A d \in Page : ext'[d].state # "none" => ext'[d].size # 0 /\ d + ext'[d].size <= NPages
    <3>1. n # 0
      BY <2>1, Sizes
    <3> QED
      BY <1>1, <2>1, <2>2, <3>1 DEF Tiled, Live
  <2>6. \A u \in Thread : pc'[u] = "register" => loc'[u].x + loc'[u].n <= NPages
    BY <1>4, <2>1
  <2> QED
    BY <1>1, <2>1, <2>4, <2>5, <2>6, TiledAt, TiledAfter
<1>10. ASSUME Forgot(t) PROVE Tiled'
  <2>1. /\ p = "new" /\ pc'[t] = "map" /\ ext' = ext
        /\ fresh' = NoFresh /\ mapped' = mapped /\ lost' = lost \cup Span(fresh.mem, fresh.n)
    BY <1>10 DEF Forgot
  <2>2. Un[t] = {} /\ Un'[t] = {} /\ Span(fresh'.mem, fresh'.n) = {}
    <3>1. fresh'.mem = -1 /\ fresh'.n = 0
      BY <2>1 DEF NoFresh, NoPage
    <3> QED
      BY <2>1, <3>1, UnAt DEF Un, Span
  <2>3. ASSUME NEW q \in Page
        PROVE  /\ OneTile(q, ext, Un, fresh, lost) => OneTile(q, ext', Un', fresh', lost')
               /\ NoTile(q, ext, Un, fresh, lost) => NoTile(q, ext', Un', fresh', lost')
    <3>1. /\ \A b \in Page : InExtent(q, ext', b) <=> InExtent(q, ext, b)
          /\ q \notin Span(fresh'.mem, fresh'.n)
      BY <2>1, <2>2
    <3>2. /\ Any(q, ext, Un, fresh, lost, q, t) <=> Any(q, ext', Un', fresh', lost', q, t)
          /\ AtMostOne(q, ext, Un, fresh, lost, q, t) => AtMostOne(q, ext', Un', fresh', lost', q, t)
      BY <2>1, <2>2, <3>1 DEF Any, AtMostOne
    <3> QED
      BY <1>4, <3>1, <3>2, Passes
  <2>4. \A d \in Page : ext'[d].state # "none" => ext'[d].size # 0 /\ d + ext'[d].size <= NPages
    BY <1>1, <2>1 DEF Tiled, Live
  <2>5. \A u \in Thread : pc'[u] = "register" => loc'[u].x + loc'[u].n <= NPages
    BY <1>4, <2>1
  <2> QED
    BY <1>1, <2>1, <2>3, <2>4, <2>5, TiledAt, TiledAfter
<1>11. ~(Retire(t) /\ (Split(t) \/ Interior(t) \/ Register(t) \/ Record(t) \/ Merge(t)))
  BY Zenon DEF Retire, Split, Interior, Register, Record, Merge, At
<1> QED
  BY <1>5, <1>6, <1>7, <1>8, <1>9, <1>10, <1>11, SplitDoes, InteriorDoes, RetireDoes,
     RegisterDoes, RecordDoes, MergeDoes DEF Shaping

----------------------------------------------------------------------------
(* The tree after a step. *)

\* The entries of the pages S are written, and the extents D change.
Rewrites(S, D) ==
  /\ \A d \in Page \ D : /\ ext'[d].size = ext[d].size /\ ext'[d].slab = ext[d].slab
                         /\ ext'[d].state = "none" <=> ext[d].state = "none"
  /\ \A q \in Page \ S : tree'[q] = tree[q]
  /\ \A d \in Live \ D : \A q \in S : q \notin Marks(ext, d)
  /\ \A d \in D : d \in Live => \A q \in Marks(ext, d) : q \in S
  /\ \A d \in D : \A q \in Page :
       (q \in S /\ tree'[q].e = d) <=> ext'[d].state # "none" /\ q \in Marks(ext', d)
  /\ \A q \in S : tree'[q].e \in D \/ tree'[q] = Nil

LEMMA TreeAfter ==
  ASSUME TreeInOrder, NEW S \in SUBSET Page, NEW D \in SUBSET Page, Rewrites(S, D)
  PROVE  TreeInOrder'
<1>1. ASSUME NEW d \in Page, NEW q \in Page
      PROVE  tree'[q].e = d <=> ext'[d].state # "none" /\ q \in Marks(ext', d)
  <2>0. tree[q].e = d <=> ext[d].state # "none" /\ q \in Marks(ext, d)
    BY DEF TreeInOrder, Live
  <2>1. CASE d \in D
    <3>1. CASE q \in S
      BY <2>1, <3>1 DEF Rewrites
    <3>2. CASE q \notin S
      BY <2>0, <2>1, <3>2 DEF Live, Rewrites
    <3> QED
      BY <3>1, <3>2
  <2>2. CASE d \notin D
    <3>1. (ext'[d].state # "none" /\ q \in Marks(ext', d)) <=> (ext[d].state # "none" /\ q \in Marks(ext, d))
      BY <2>2 DEF Marks, Rewrites
    <3>2. CASE q \in S
      <4>1. tree'[q].e # d
        <5>1. d # NoPage
          BY Pages_
        <5> QED
          BY <2>2, <3>2, <5>1 DEF Nil, Rewrites
      <4>2. ~(ext[d].state # "none" /\ q \in Marks(ext, d))
        BY <2>2, <3>2 DEF Live, Rewrites
      <4> QED
        BY <3>1, <4>1, <4>2
    <3>3. CASE q \notin S
      BY <2>0, <3>1, <3>3 DEF Rewrites
    <3> QED
      BY <3>2, <3>3
  <2> QED
    BY <2>1, <2>2
<1>2. ASSUME NEW q \in Page, tree'[q].e = NoPage PROVE tree'[q] = Nil
  <2>1. CASE q \in S
    BY <1>2, <2>1, Pages_ DEF Rewrites
  <2>2. CASE q \notin S
    BY <1>2, <2>2 DEF TreeInOrder, Rewrites
  <2> QED
    BY <2>1, <2>2
<1>3. Nil' = Nil
  BY DEF Nil, MAX_PSZ_IDX
<1> QED
  BY <1>1, <1>2, <1>3 DEF TreeInOrder, Live

LEMMA TreeStays ==
  ASSUME TreeInOrder, SameExtents
  PROVE  TreeInOrder'
BY DEF TreeInOrder, SameExtents, Live, Marks, Ends, Span, Nil, MAX_PSZ_IDX

LEMMA MarksIn ==
  ASSUME Types, Tiled, NEW a \in Live
  PROVE  \A q \in Marks(ext, a) : q \in Span(a, ext[a].size)
<1>1. a \in Int /\ ext[a].size \in 1 .. NPages
  BY Spans, Pages_
<1> QED
  BY <1>1, Sizes DEF Marks, Ends, Span

\* The pages of an extent are in no mark of another.
LEMMA MarksApart ==
  ASSUME Types, Tiled, NEW a \in Live, NEW d \in Live, a # d, NEW q \in Span(a, ext[a].size)
  PROVE  q \notin Marks(ext, d)
BY MarksIn, Spans

LEMMA ShapingTree ==
  ASSUME IndInv, NEW t \in Thread, Shaping(t)
  PROVE  TreeInOrder'
<1> DEFINE p == pc[t]
           l == loc[t]
<1>1. Types /\ Tiled /\ TreeInOrder /\ Control(p, l, mapped, cache[t])
  BY Parts
<1>2. /\ l \in Locals /\ DOMAIN ext = Page
      /\ \A d \in Page : DOMAIN ext[d] = {"size", "szind", "slab", "state", "log"}
      /\ l.slab \in BOOLEAN
  BY <1>1, TypesOf DEF Locals
<1>3. \A d \in Page : d \in Live <=> ext[d].state # "none"
  BY DEF Live
<1>4. Nil = [e |-> NoPage, szind |-> MAX_PSZ_IDX, slab |-> FALSE]
  BY DEF Nil
<1>5. ASSUME NEW a \in Page, NEW b \in Page, Cut(t, a, b) PROVE TreeInOrder'
  <2>1. /\ a # b /\ b = a + l.n /\ l.n \in 1 .. CHUNK
        /\ ext[a].state = "active" /\ ~ext[a].slab /\ ext[b].state = "none"
        /\ ext[a].size \in 1 .. NPages /\ ext[a].size > l.n
        /\ \A d \in Page \ {a, b} : ext'[d] = ext[d]
        /\ tree' = Write(Write(tree, Ends(a, l.n), [e |-> a, szind |-> l.c, slab |-> l.slab]),
                   {b, Last(a)}, [Nil EXCEPT !.e = b])
    BY <1>5 DEF Cut
  <2>2. /\ ext'[a].size = l.n /\ ext'[a].state = "active" /\ ~ext'[a].slab
        /\ ext'[b].size = ext[a].size - l.n /\ ext'[b].state = "active" /\ ~ext'[b].slab
    <3>1. /\ ext'[a] = [ext[a] EXCEPT !.size = l.n, !.szind = l.c]
          /\ ext'[b] = [size |-> ext[a].size - l.n, szind |-> MAX_PSZ_IDX, slab |-> FALSE,
                        state |-> "active", log |-> ext[b].log]
      BY <1>5 DEF Cut
    <3> QED
      BY <1>2, <2>1, <3>1
  <2>3. PICK r : r = a + ext[a].size - 1
    OBVIOUS
  <2>4. PICK m : m = a + l.n - 1
    OBVIOUS
  <2>5. /\ r \in Page /\ m \in Page /\ m # b /\ m # r /\ a # r /\ Last(a) = r
        /\ r \in Span(a, ext[a].size) /\ m \in Span(a, ext[a].size)
        /\ a \in Span(a, ext[a].size) /\ b \in Span(a, ext[a].size)
    <3>1. a + ext[a].size <= NPages /\ a \in Nat
      BY <1>1, <1>3, <2>1, Spans, Pages_
    <3> QED
      BY <2>1, <2>3, <2>4, <3>1, Pages_, Sizes DEF Last, Span
  <2>6. /\ Marks(ext, a) = {a, r} /\ Marks(ext', a) = {a, m} /\ Marks(ext', b) = {b, r}
    <3>1. b + ext'[b].size - 1 = r
      BY <2>1, <2>2, <2>3, Pages_, Sizes
    <3> QED
      BY <2>1, <2>2, <2>3, <2>4, <3>1 DEF Marks, Ends
  <2>7. ASSUME NEW q \in Page
        PROVE  /\ q \in {b, r} => tree'[q].e = b
               /\ q \in {a, m} => tree'[q].e = a
               /\ q \notin {a, b, m, r} => tree'[q] = tree[q]
    BY <2>1, <2>4, <2>5, <1>4 DEF Write, Ends
  <2>8. PICK S \in SUBSET Page : S = {a, b, m, r}
    BY <2>5
  <2>9. \A d \in Live \ {a, b} : \A q \in S : q \notin Marks(ext, d)
    BY <1>1, <1>3, <2>1, <2>5, <2>8, MarksApart
  <2>10. \A q \in Page : (q \in S /\ tree'[q].e = a) <=> q \in Marks(ext', a)
    BY <2>1, <2>5, <2>6, <2>7, <2>8
  <2>11. \A q \in Page : (q \in S /\ tree'[q].e = b) <=> q \in Marks(ext', b)
    BY <2>1, <2>5, <2>6, <2>7, <2>8
  <2>12. \A d \in {a, b} : d \in Live => \A q \in Marks(ext, d) : q \in S
    BY <1>3, <2>1, <2>6, <2>8
  <2>13. \A q \in S : tree'[q].e \in {a, b}
    BY <2>7, <2>8
  <2>14. \A d \in {a, b} : \A q \in Page :
           (q \in S /\ tree'[q].e = d) <=> ext'[d].state # "none" /\ q \in Marks(ext', d)
    BY <2>2, <2>10, <2>11
  <2>15. \A q \in Page \ S : tree'[q] = tree[q]
    BY <2>7, <2>8
  <2>16. \A d \in Page \ {a, b} : /\ ext'[d].size = ext[d].size /\ ext'[d].slab = ext[d].slab
                                  /\ ext'[d].state = "none" <=> ext[d].state = "none"
    BY <2>1
  <2>17. PICK D \in SUBSET Page : D = {a, b}
    OBVIOUS
  <2>18. Rewrites(S, D)
    <3>1. \A d \in Page \ D : /\ ext'[d].size = ext[d].size /\ ext'[d].slab = ext[d].slab
                              /\ ext'[d].state = "none" <=> ext[d].state = "none"
      BY <2>16, <2>17
    <3>2. \A q \in Page \ S : tree'[q] = tree[q]
      BY <2>15
    <3>3. \A d \in Live \ D : \A q \in S : q \notin Marks(ext, d)
      BY <2>9, <2>17
    <3>4. \A d \in D : d \in Live => \A q \in Marks(ext, d) : q \in S
      BY <2>12, <2>17
    <3>5. \A d \in D : \A q \in Page :
            (q \in S /\ tree'[q].e = d) <=> ext'[d].state # "none" /\ q \in Marks(ext', d)
      BY <2>14, <2>17
    <3>6. \A q \in S : tree'[q].e \in D \/ tree'[q] = Nil
      BY <2>13, <2>17
    <3> QED
      BY <3>1, <3>2, <3>3, <3>4, <3>5, <3>6 DEF Rewrites
  <2> QED
    BY <1>1, <2>18, TreeAfter
<1>6. ASSUME NEW a \in Page, NEW b \in Page, Merged(t, a, b) PROVE TreeInOrder'
  <2>1. /\ a # b /\ b = a + ext[a].size
        /\ ext[a].state = "active" /\ ext[b].state = "active" /\ ~ext[a].slab /\ ~ext[b].slab
        /\ ext[a].size \in 1 .. NPages /\ ext[b].size \in 1 .. NPages
        /\ \A d \in Page \ {a, b} : ext'[d] = ext[d]
        /\ tree' = Write(Write(tree, {Last(a), b}, Nil), {a, Last(b)}, [Nil EXCEPT !.e = a])
    BY <1>6 DEF Merged
  <2>2. /\ ext'[a].size = ext[a].size + ext[b].size /\ ext'[a].state = "active" /\ ~ext'[a].slab
        /\ ext'[b].state = "none"
    <3>1. /\ ext'[a] = [ext[a] EXCEPT !.size = ext[a].size + ext[b].size, !.szind = MAX_PSZ_IDX]
          /\ ext'[b] = [ext[b] EXCEPT !.state = "none"]
      BY <1>6 DEF Merged
    <3> QED
      BY <1>2, <2>1, <3>1
  <2>3. PICK r : r = b + ext[b].size - 1
    OBVIOUS
  <2>4. PICK m : m = a + ext[a].size - 1
    OBVIOUS
  <2>5. /\ r \in Page /\ m \in Page /\ Last(a) = m /\ Last(b) = r
        /\ r \in Span(b, ext[b].size) /\ m \in Span(a, ext[a].size)
        /\ a \in Span(a, ext[a].size) /\ b \in Span(b, ext[b].size)
    <3>1. a \in Live /\ b \in Live
      BY <1>3, <2>1
    <3> QED
      BY <1>1, <2>3, <2>4, <3>1, Spans DEF Last
  <2>6. /\ Marks(ext, a) = {a, m} /\ Marks(ext, b) = {b, r} /\ Marks(ext', a) = {a, r}
    <3>1. a + ext'[a].size - 1 = r
      BY <2>1, <2>2, <2>3, Pages_, Sizes
    <3> QED
      BY <2>1, <2>2, <2>3, <2>4, <3>1 DEF Marks, Ends
  <2>7. ASSUME NEW q \in Page
        PROVE  /\ q \in {a, r} => tree'[q].e = a
               /\ q \in {b, m} /\ q \notin {a, r} => tree'[q] = Nil
               /\ q \notin {a, b, m, r} => tree'[q] = tree[q]
    BY <2>1, <2>5, <1>4 DEF Write
  <2>8. PICK S \in SUBSET Page : S = {a, b, m, r}
    BY <2>5
  <2>9. \A d \in Live \ {a, b} : \A q \in S : q \notin Marks(ext, d)
    BY <1>1, <1>3, <2>1, <2>5, <2>8, MarksApart
  <2>10. NoPage \notin Page /\ Nil.e = NoPage
    BY <1>4, Pages_
  <2>11. \A q \in Page : (q \in S /\ tree'[q].e = a) <=> q \in Marks(ext', a)
    BY <2>6, <2>7, <2>8, <2>10
  <2>12. \A q \in S : tree'[q].e \in {a} \/ tree'[q] = Nil
    BY <2>7, <2>8
  <2>13. \A q \in Page : ~(q \in S /\ tree'[q].e = b)
    BY <2>1, <2>10, <2>12
  <2>14. \A d \in {a, b} : d \in Live => \A q \in Marks(ext, d) : q \in S
    BY <2>6, <2>8
  <2>15. \A d \in {a, b} : \A q \in Page :
           (q \in S /\ tree'[q].e = d) <=> ext'[d].state # "none" /\ q \in Marks(ext', d)
    BY <2>2, <2>11, <2>13
  <2>16. \A q \in Page \ S : tree'[q] = tree[q]
    BY <2>7, <2>8
  <2>17. \A d \in Page \ {a, b} : /\ ext'[d].size = ext[d].size /\ ext'[d].slab = ext[d].slab
                                  /\ ext'[d].state = "none" <=> ext[d].state = "none"
    BY <2>1
  <2>18. PICK D \in SUBSET Page : D = {a, b}
    OBVIOUS
  <2>19. Rewrites(S, D)
    <3>1. \A d \in Page \ D : /\ ext'[d].size = ext[d].size /\ ext'[d].slab = ext[d].slab
                              /\ ext'[d].state = "none" <=> ext[d].state = "none"
      BY <2>17, <2>18
    <3>2. \A q \in Page \ S : tree'[q] = tree[q]
      BY <2>16
    <3>3. \A d \in Live \ D : \A q \in S : q \notin Marks(ext, d)
      BY <2>9, <2>18
    <3>4. \A d \in D : d \in Live => \A q \in Marks(ext, d) : q \in S
      BY <2>14, <2>18
    <3>5. \A d \in D : \A q \in Page :
            (q \in S /\ tree'[q].e = d) <=> ext'[d].state # "none" /\ q \in Marks(ext', d)
      BY <2>15, <2>18
    <3>6. \A q \in S : tree'[q].e \in D \/ tree'[q] = Nil
      BY <2>12, <2>18
    <3> QED
      BY <3>1, <3>2, <3>3, <3>4, <3>5, <3>6 DEF Rewrites
  <2> QED
    BY <1>1, <2>19, TreeAfter
<1>7. ASSUME NEW a \in Page, NEW S \in SUBSET Page,
             \A d \in Page \ {a} : ext'[d] = ext[d],
             \A q \in Page \ S : tree'[q] = tree[q],
             \A d \in Live \ {a} : \A q \in S : q \notin Marks(ext, d),
             a \in Live => \A q \in Marks(ext, a) : q \in S,
             \A q \in Page : (q \in S /\ tree'[q].e = a) <=> q \in Marks(ext', a),
             ext'[a].state # "none",
             \A q \in S : tree'[q].e = a \/ tree'[q] = Nil
      PROVE  TreeInOrder'
  <2>1. PICK D \in SUBSET Page : D = {a}
    OBVIOUS
  <2>2. Rewrites(S, D)
    BY <1>7, <2>1 DEF Rewrites
  <2> QED
    BY <1>1, <2>2, TreeAfter
<1>8. ASSUME NEW a \in Page, Whole(t, a) PROVE TreeInOrder'
  <2>1. /\ a = l.x /\ ext[a].state = "active" /\ ~ext[a].slab /\ ext[a].size = l.n
        /\ \A d \in Page \ {a} : ext'[d] = ext[d]
        /\ tree' = Write(tree, ExactEnds(t), [e |-> a, szind |-> l.c, slab |-> l.slab])
    BY <1>8 DEF Whole
  <2>2. ext'[a].size = ext[a].size /\ ext'[a].state = "active" /\ ~ext'[a].slab
    <3>1. ext'[a] = [ext[a] EXCEPT !.szind = l.c]
      BY <1>8 DEF Whole
    <3> QED
      BY <1>2, <2>1, <3>1
  <2>3. PICK S \in SUBSET Page : S = {a, Last(a)} /\ \A q \in S : q \in Span(a, ext[a].size)
    <3>1. a \in Live
      BY <1>3, <2>1
    <3>2. /\ a \in Span(a, ext[a].size) /\ Last(a) \in Span(a, ext[a].size)
          /\ Last(a) \in Page
      BY <1>1, <3>1, Spans
    <3>3. PICK r \in Page : r = Last(a)
      BY <3>2
    <3>4. {a, r} \in SUBSET Page /\ \A q \in {a, r} : q \in Span(a, ext[a].size)
      BY <3>2, <3>3
    <3> QED
      BY <3>3, <3>4
  <2>4. Marks(ext, a) = S /\ Marks(ext', a) = S
    BY <2>1, <2>2, <2>3 DEF Marks, Ends, Last
  <2>5. \A q \in ExactEnds(t) : q \in S
    BY <2>1, <2>3 DEF ExactEnds, Ends, Last
  <2>6. \A q \in Page : q \in S <=> tree[q].e = a
    BY <1>1, <1>3, <2>1, <2>4 DEF TreeInOrder
  <2>7. \A q \in S : tree'[q].e = a
    BY <2>1, <2>6 DEF Write
  <2>8. \A q \in Page \ S : tree'[q] = tree[q]
    BY <2>1, <2>5 DEF Write
  <2>9. \A d \in Live \ {a} : \A q \in S : q \notin Marks(ext, d)
    BY <1>1, <1>3, <2>1, <2>3, MarksApart
  <2> QED
    BY <1>7, <2>1, <2>2, <2>4, <2>7, <2>8, <2>9
<1>9. ASSUME NEW a \in Page, Marked(t, a) PROVE TreeInOrder'
  <2>1. /\ ext[a].state = "active" /\ ext[a].size = SLAB
        /\ \A d \in Page \ {a} : ext'[d] = ext[d]
        /\ tree' = Write(tree, SlabPages(a), SlabEntry(a))
    BY <1>9 DEF Marked
  <2>2. ext'[a].size = SLAB /\ ext'[a].state = "active" /\ ext'[a].slab
    <3>1. ext'[a] = [ext[a] EXCEPT !.slab = TRUE]
      BY <1>9 DEF Marked
    <3> QED
      BY <1>2, <2>1, <3>1
  <2>3. PICK S \in SUBSET Page : S = Span(a, SLAB)
    BY <1>1, <1>3, <2>1, Spans
  <2>4. Marks(ext', a) = S /\ SlabPages(a) = S
    BY <2>2, <2>3 DEF Marks, SlabPages, Span
  <2>5. a \in Live => \A q \in Marks(ext, a) : q \in S
    BY <1>1, <2>1, <2>3, MarksIn
  <2>6. \A q \in S : tree'[q].e = a
    BY <2>1, <2>4 DEF Write, SlabEntry
  <2>7. \A q \in Page \ S : tree'[q] = tree[q]
    BY <2>1, <2>4 DEF Write
  <2>8. \A d \in Live \ {a} : \A q \in S : q \notin Marks(ext, d)
    BY <1>1, <1>3, <2>1, <2>3, MarksApart
  <2> QED
    BY <1>7, <2>1, <2>2, <2>4, <2>5, <2>6, <2>7, <2>8
<1>10. ASSUME NEW a \in Page, NEW n, Registered(t, a, n) PROVE TreeInOrder'
  <2>1. /\ n = l.n /\ n \in 1 .. CHUNK /\ ext[a].state = "none"
        /\ l.slab <=> l.op = "slab"
        /\ \A q \in Span(a, n) : q \in Page /\ q \in Unregistered(p, l)
        /\ \A d \in Page \ {a} : ext'[d] = ext[d]
        /\ tree' = Write(tree, IF l.slab THEN SlabPages(a) ELSE Ends(a, n),
                         [e |-> a, szind |-> l.c, slab |-> l.slab])
    BY <1>10 DEF Registered
  <2>2. ext'[a].size = n /\ ext'[a].state = "active" /\ ext'[a].slab = l.slab
    <3>1. ext'[a] = [size |-> n, szind |-> l.c, slab |-> l.slab, state |-> "active",
                     log |-> ext[a].log]
      BY <1>10 DEF Registered
    <3> QED
      BY <3>1
  <2>3. l.slab => n = SLAB
    BY <1>1, <2>1 DEF Control, Request
  <2>4. PICK S : S = IF l.slab THEN SlabPages(a) ELSE Ends(a, n)
    OBVIOUS
  <2>5. \A q \in S : q \in Span(a, n)
    <3>1. CASE l.slab
      BY <2>3, <2>4, <3>1 DEF SlabPages, Span
    <3>2. CASE ~l.slab
      BY <2>1, <2>4, <3>2, Pages_, Sizes DEF Ends, Span
    <3> QED
      BY <3>1, <3>2
  <2>6. S \in SUBSET Page
    BY <2>1, <2>5
  <2>7. Marks(ext', a) = S
    BY <2>2, <2>3, <2>4 DEF Marks, SlabPages, Span, Ends
  <2>8. \A q \in S : tree'[q].e = a
    BY <2>1, <2>4, <2>6 DEF Write
  <2>9. \A q \in Page \ S : tree'[q] = tree[q]
    BY <2>1, <2>4 DEF Write
  <2>10. \A d \in Live : \A q \in S : q \notin Marks(ext, d)
    <3> SUFFICES ASSUME NEW d \in Live, NEW q \in S, q \in Marks(ext, d) PROVE FALSE
      OBVIOUS
    <3>1. q \in Span(d, ext[d].size)
      BY <1>1, MarksIn
    <3>2. q \notin Unregistered(p, l)
      BY <1>1, <3>1, Spans
    <3> QED
      BY <2>1, <2>5, <3>2
  <2> QED
    BY <1>3, <1>7, <2>1, <2>2, <2>6, <2>7, <2>8, <2>9, <2>10
<1>11. ASSUME NEW a \in Page, NEW n, Kept(t, a, n) PROVE TreeInOrder'
  <2>1. /\ a = fresh.mem /\ n = fresh.n /\ n \in 1 .. CHUNK /\ ext[a].state = "none"
        /\ \A q \in Span(a, n) : q \in Page
        /\ \A d \in Page \ {a} : ext'[d] = ext[d]
        /\ tree' = Write(tree, Ends(a, n), [Nil EXCEPT !.e = a, !.szind = get_psizeclass(n)])
    BY <1>11 DEF Kept
  <2>2. ext'[a].size = n /\ ext'[a].state = "active" /\ ~ext'[a].slab
    <3>1. ext'[a] = [size |-> n, szind |-> get_psizeclass(n), slab |-> FALSE,
                     state |-> "active", log |-> ext[a].log]
      BY <1>11 DEF Kept
    <3> QED
      BY <3>1
  <2>3. PICK S : S = Ends(a, n)
    OBVIOUS
  <2>4. \A q \in S : q \in Span(a, n)
    BY <2>1, <2>3, Pages_, Sizes DEF Ends, Span
  <2>5. S \in SUBSET Page
    BY <2>1, <2>4
  <2>6. Marks(ext', a) = S
    BY <2>2, <2>3 DEF Marks, Ends
  <2>7. \A q \in S : tree'[q].e = a
    BY <1>4, <2>1, <2>3, <2>5 DEF Write
  <2>8. \A q \in Page \ S : tree'[q] = tree[q]
    BY <2>1, <2>3 DEF Write
  <2>9. \A d \in Live : \A q \in S : q \notin Marks(ext, d)
    <3> SUFFICES ASSUME NEW d \in Live, NEW q \in S, q \in Marks(ext, d) PROVE FALSE
      OBVIOUS
    <3>1. q \in Span(d, ext[d].size)
      BY <1>1, MarksIn
    <3>2. q \notin Span(fresh.mem, fresh.n)
      BY <1>1, <3>1, Spans
    <3> QED
      BY <2>1, <2>4, <3>2
  <2> QED
    BY <1>3, <1>7, <2>1, <2>2, <2>5, <2>6, <2>7, <2>8, <2>9
<1>12. ASSUME NEW a \in Page, Recorded(t, a) PROVE TreeInOrder'
  <2>1. /\ ext[a].state = "active" /\ ext[a].size \in 1 .. NPages
        /\ \A d \in Page \ {a} : ext'[d] = ext[d]
        /\ tree' = IF ~ext[a].slab THEN tree
                   ELSE Write(Write(tree, Inner(a, ext[a].size), Nil), Ends(a, ext[a].size),
                              [e |-> a, szind |-> MAX_PSZ_IDX, slab |-> TRUE])
    BY <1>12 DEF Recorded
  <2>2. ext'[a].size = ext[a].size /\ ext'[a].state = "active" /\ ~ext'[a].slab
    <3>1. ext'[a] = [ext[a] EXCEPT !.szind = MAX_PSZ_IDX, !.slab = FALSE]
      BY <1>12 DEF Recorded
    <3> QED
      BY <1>2, <2>1, <3>1
  <2>3. a \in Live /\ a \in Int /\ a + ext[a].size <= NPages
    BY <1>1, <1>3, <2>1, Spans, Pages_
  <2>4. PICK E : E = Ends(a, ext[a].size)
    OBVIOUS
  <2>5. Marks(ext', a) = E
    BY <2>2, <2>4 DEF Marks, Ends
  <2>6. PICK S \in SUBSET Page : S = Span(a, ext[a].size)
    BY <1>1, <2>3, Spans
  <2>7. \A q \in E : q \in S
    BY <2>1, <2>3, <2>4, <2>6, Sizes DEF Ends, Span
  <2>8. \A q \in S : q \in E \/ q \in Inner(a, ext[a].size)
    <3>1. PICK n \in Nat \ {0} : n = ext[a].size
      BY <2>1, Sizes
    <3>2. \A q \in Span(a, n) : q \in {a, a + n - 1} \/ q \in (a + 1) .. (a + n - 2)
      BY <2>3 DEF Span
    <3> QED
      BY <2>4, <2>6, <3>1, <3>2 DEF Ends, Inner
  <2>9. \A q \in Inner(a, ext[a].size) : q \in S
    BY <2>1, <2>3, <2>6, Sizes DEF Span, Inner
  <2>10. \A d \in Live \ {a} : \A q \in S : q \notin Marks(ext, d)
    BY <1>1, <2>3, <2>6, MarksApart
  <2>11. CASE ext[a].slab
    <3>1. /\ \A q \in E : tree'[q].e = a
          /\ \A q \in S \ E : tree'[q] = Nil
      BY <2>1, <2>4, <2>7, <2>8, <2>11 DEF Write
    <3>2. \A q \in Page \ S : tree'[q] = tree[q]
      BY <2>1, <2>4, <2>7, <2>9, <2>11 DEF Write
    <3>3. \A q \in Page : (q \in S /\ tree'[q].e = a) <=> q \in E
      BY <1>4, <2>7, <3>1, Pages_
    <3>4. \A q \in Marks(ext, a) : q \in S
      BY <1>1, <2>3, <2>6, MarksIn
    <3>5. \A q \in S : tree'[q].e = a \/ tree'[q] = Nil
      BY <3>1
    <3>6. \A q \in Page : (q \in S /\ tree'[q].e = a) <=> q \in Marks(ext', a)
      BY <2>5, <3>3
    <3>7. ext'[a].state # "none" /\ \A d \in Page \ {a} : ext'[d] = ext[d]
      BY <2>1, <2>2
    <3> QED
      BY <1>7, <2>10, <3>2, <3>4, <3>5, <3>6, <3>7
  <2>12. CASE ~ext[a].slab
    <3>1. tree' = tree /\ Marks(ext, a) = E
      BY <2>1, <2>4, <2>12 DEF Marks
    <3>2. E \in SUBSET Page /\ \A q \in E : tree'[q].e = a
      BY <1>1, <2>3, <2>7, <3>1 DEF TreeInOrder
    <3>3. \A d \in Live \ {a} : \A q \in E : q \notin Marks(ext, d)
      BY <2>7, <2>10
    <3> QED
      BY <1>7, <2>1, <2>2, <2>5, <3>1, <3>2, <3>3
  <2> QED
    BY <2>11, <2>12
<1>13. ASSUME Forgot(t) PROVE TreeInOrder'
  <2>1. ext' = ext /\ tree' = tree
    BY <1>13 DEF Forgot
  <2> QED
    BY <1>1, <2>1, TreeStays DEF SameExtents
<1> QED
  BY <1>5, <1>6, <1>8, <1>9, <1>10, <1>11, <1>12, <1>13, SplitDoes, InteriorDoes, RetireDoes,
     RegisterDoes, RecordDoes, MergeDoes DEF Shaping

----------------------------------------------------------------------------
(* The assertions. *)

\* A page in no end of a large extent, and in no slab, has no entry.
LEMMA NoEntry ==
  ASSUME Types, Tiled, TreeInOrder, NEW q \in Page,
         \A d \in Live : q \in Span(d, ext[d].size) => q \notin Marks(ext, d)
  PROVE  tree[q] = Nil
<1>1. tree[q].e \notin Page
  <2> SUFFICES ASSUME tree[q].e \in Page PROVE FALSE
    OBVIOUS
  <2>1. PICK d \in Page : d = tree[q].e
    OBVIOUS
  <2>2. d \in Live /\ q \in Marks(ext, d)
    BY <2>1 DEF TreeInOrder
  <2> QED
    BY <2>2, MarksIn
<1>2. tree[q].e \in Page \cup {NoPage}
  BY TypesOf
<1> QED
  BY <1>1, <1>2 DEF TreeInOrder

LEMMA AssertionsStay ==
  ASSUME IndInv, AssertionsHold, NEW t \in Thread, Step(t) \/ Begin(t)
  PROVE  AssertionsHold'
<1> DEFINE p == pc[t]
           l == loc[t]
           stops == {"rtree.h:420", "extent.c:1211", "nvalloc.c:171"}
<1>1. Types /\ Tiled /\ TreeInOrder /\ Control(p, l, mapped, cache[t]) /\ Hands(t) /\ Objects
  BY Parts
<1>2. l \in Locals
  BY <1>1, TypesOf
<1>3. CASE Interior(t)
  <2>1. p = "interior" /\ InHand(p, l) = {l.x}
    BY <1>3, HandAt DEF Interior, At
  <2>2. l.x \in Page /\ ~ext[l.x].slab /\ ext[l.x].size = SLAB
    BY <1>1, <2>1 DEF Control, Hands
  <2>3. l.x \in Live
    BY <2>1, <2>2, HandLive
  <2>4. ASSUME NEW q \in Inner(l.x, SLAB) PROVE tree[q] = Nil
    <3>1. q \in Span(l.x, ext[l.x].size) /\ q \notin Ends(l.x, ext[l.x].size)
      BY <2>2, <2>4, Pages_, Sizes DEF Inner, Span, Ends
    <3>2. q \in Page
      BY <1>1, <2>3, <3>1, Spans
    <3>3. \A d \in Live : q \in Span(d, ext[d].size) => d = l.x
      BY <1>1, <2>3, <3>1, Spans
    <3>4. q \notin Marks(ext, l.x)
      BY <2>2, <3>1 DEF Marks
    <3> QED
      BY <1>1, <3>2, <3>3, <3>4, NoEntry
  <2>5. status' = status
    BY <1>3, <2>4 DEF Interior, Ensure
  <2> QED
    BY <2>5 DEF AssertionsHold
<1>4. CASE Register(t)
  <2>1. PICK a \in Page, n \in Nat : Registered(t, a, n)
    BY <1>4, RegisterDoes
  <2>2. /\ a = l.x /\ n = l.n /\ n \in 1 .. CHUNK
        /\ \A q \in Span(a, n) : q \in Page /\ q \in Unregistered(p, l)
    BY <2>1 DEF Registered
  <2>3. ASSUME NEW q \in Inner(a, n) PROVE tree[q] = Nil
    <3>1. q \in Span(a, n)
      BY <2>2, <2>3, Pages_, Sizes DEF Inner, Span
    <3>2. q \in Page /\ \A d \in Live : q \notin Span(d, ext[d].size)
      BY <1>1, <2>2, <3>1, Spans
    <3> QED
      BY <1>1, <3>2, NoEntry
  <2>4. status' = status
    BY <1>4, <2>2, <2>3 DEF Register, Ensure
  <2> QED
    BY <2>4 DEF AssertionsHold
<1>5. CASE Record(t)
  <2>1. PICK a \in Page : Recorded(t, a)
    BY <1>5, RecordDoes
  <2>2. a = l.x /\ ext[a].state = "active" /\ ext[a].size \in 1 .. NPages /\ a \in Live
    BY <2>1 DEF Recorded, Live
  <2>3. tree[a].e = a
    <3>1. a \in Marks(ext, a)
      BY SMTT(30), <2>2, Pages_, Sizes DEF Marks, Ends, Span
    <3> QED
      BY <1>1, <2>2, <3>1 DEF TreeInOrder
  <2>4. ASSUME ext[a].slab, NEW q \in Inner(a, ext[a].size) PROVE tree[q].e # NoPage
    <3>1. q \in Span(a, ext[a].size)
      BY <2>2, <2>4, Pages_, Sizes DEF Inner, Span
    <3>2. q \in Page /\ q \in Marks(ext, a)
      BY <1>1, <2>2, <2>4, <3>1, Spans DEF Marks
    <3> QED
      BY <1>1, <2>2, <3>2, Pages_ DEF TreeInOrder
  <2>5. status' = status
    BY <1>5, <2>2, <2>3, <2>4 DEF Record, Ensure
  <2> QED
    BY <2>5 DEF AssertionsHold
<1>6. ASSUME NEW a \in held, FreeCall(t, a) PROVE AssertionsHold'
  <2>1. /\ tree[a] = [e |-> a, szind |-> ext[a].szind, slab |-> FALSE]
        /\ ext[a].szind \in Requests
    BY <1>1 DEF Objects, Object
  <2>2. status' = status
    BY <1>6, <2>1 DEF FreeCall, Ensure
  <2> QED
    BY <2>2 DEF AssertionsHold
<1>7. CASE \/ Recycle(t) \/ Split(t) \/ Trail(t) \/ Carve(t) \/ Retire(t) \/ Retired(t)
           \/ MapFile(t) \/ MapFails(t) \/ InsertFile(t)
  <2>1. status' = status \/ status' = "exit"
    BY <1>7 DEF Recycle, Split, Trail, Carve, Retire, Retired, MapFile, MapFails, InsertFile
  <2> QED
    BY <2>1 DEF AssertionsHold
<1>8. CASE Look(t) \/ Check(t) \/ Merge(t) \/ Relock(t) \/ Settle(t) \/ Punch(t) \/ PunchStops(t)
  <2>1. status' = status \/ status' = "extent.c:1254"
    BY Zenon, <1>8 DEF Look, Check, Merge, Relock, Settle, Punch, PunchStops
  <2> QED
    BY <2>1 DEF AssertionsHold
<1>9. CASE Purge(t)
  <2>1. status' = status \/ status' = "extent.c:444"
    BY <1>9 DEF Purge, NoDecay, Decay, EvictNone, EvictDirty, EvictStops, Stashed
  <2> QED
    BY SMTT(30), <2>1 DEF AssertionsHold
<1>10. CASE Finish(t)
  <2>1. status' \in {status, "log.c:419", "log.c:406"}
    BY Zenon, <1>10 DEF Finish, Fill, Pop, Log, LogCached, LogFree, GCStops
  <2> QED
    BY <2>1 DEF AssertionsHold
<1>11. CASE Begin(t)
  <2>1. status' = status \/ \E a \in held : FreeCall(t, a)
    BY Zenon, <1>11 DEF Begin, MallocCall, SlabCall, UnslabCall
  <2> QED
    BY <1>6, <2>1 DEF AssertionsHold
<1> QED
  BY <1>3, <1>4, <1>5, <1>7, <1>8, <1>9, <1>10, <1>11 DEF Step, Take, Return

----------------------------------------------------------------------------
(* The pools after a step. *)

LEMMA WithoutOnce ==
  ASSUME NEW s \in Seq(Page), NoDup(s), NEW a \in Elems(s)
  PROVE  /\ Without(s, a) \in Seq(Page) /\ NoDup(Without(s, a))
         /\ Elems(Without(s, a)) = Elems(s) \ {a}
<1>1. PICK n \in Nat : n = Len(s)
  BY LenProperties
<1>2. DOMAIN s = 1 .. n /\ \A i \in 1 .. n : s[i] \in Page
  BY <1>1, LenProperties, ElementOfSeq
<1>3. PICK k \in 1 .. n : k = (CHOOSE j \in DOMAIN s : s[j] = a) /\ s[k] = a
  <2>1. \E j \in DOMAIN s : s[j] = a
    BY <1>1, <1>2 DEF Elems
  <2> QED
    BY <1>2, <2>1
<1>4. PICK b \in Seq(Page), c \in Seq(Page) :
        /\ b = SubSeq(s, 1, k - 1) /\ c = SubSeq(s, k + 1, n)
        /\ Len(b) = k - 1 /\ \A i \in 1 .. k - 1 : b[i] = s[i]
        /\ Len(c) = n - k /\ \A i \in 1 .. n - k : c[i] = s[i + k]
  <2>1. /\ SubSeq(s, 1, k - 1) \in Seq(Page) /\ Len(SubSeq(s, 1, k - 1)) = k - 1
        /\ \A i \in 1 .. k - 1 : SubSeq(s, 1, k - 1)[i] = s[i]
    BY <1>2, SubSeqProperties
  <2>2. /\ SubSeq(s, k + 1, n) \in Seq(Page) /\ Len(SubSeq(s, k + 1, n)) = n - k
        /\ \A i \in 1 .. n - k : SubSeq(s, k + 1, n)[i] = s[i + k]
    BY <1>2, SubSeqProperties
  <2> QED
    BY <2>1, <2>2
<1>5. PICK q : q = b \o c
  OBVIOUS
<1>6. q = Without(s, a)
  <2>1. PICK i : i = CHOOSE j \in DOMAIN s : s[j] = a
    OBVIOUS
  <2>2. Without(s, a) = SubSeq(s, 1, i - 1) \o SubSeq(s, i + 1, Len(s))
    BY <2>1 DEF Without
  <2>3. i = k
    BY <1>3, <2>1
  <2> QED
    BY <1>1, <1>4, <1>5, <2>2, <2>3
<1>7. /\ q \in Seq(Page) /\ Len(q) = n - 1
      /\ \A i \in 1 .. n - 1 : q[i] = IF i < k THEN s[i] ELSE s[i + 1]
  <2>1. /\ q \in Seq(Page) /\ Len(q) = Len(b) + Len(c)
        /\ \A i \in 1 .. Len(b) + Len(c) : q[i] = IF i <= Len(b) THEN b[i] ELSE c[i - Len(b)]
    BY <1>5, ConcatProperties
  <2>2. Len(b) + Len(c) = n - 1
    BY <1>4
  <2>3. ASSUME NEW i \in 1 .. n - 1 PROVE q[i] = IF i < k THEN s[i] ELSE s[i + 1]
    <3>0. q[i] = IF i <= Len(b) THEN b[i] ELSE c[i - Len(b)]
      BY <2>1, <2>2
    <3>1. CASE i < k
      <4>1. i <= Len(b) /\ i \in 1 .. k - 1
        BY <1>4, <3>1
      <4> QED
        BY <1>4, <3>0, <3>1, <4>1
    <3>2. CASE ~(i < k)
      <4>1. PICK j \in 1 .. n - k : j = i - (k - 1) /\ j + k = i + 1
        BY <3>2
      <4>2. ~(i <= Len(b)) /\ i - Len(b) = j
        BY <1>4, <3>2, <4>1
      <4> QED
        BY <1>4, <3>0, <3>2, <4>1, <4>2
    <3> QED
      BY <3>1, <3>2
  <2> QED
    BY <2>1, <2>2, <2>3
<1>8. DOMAIN q = 1 .. n - 1
  BY <1>7, LenProperties
<1>9. \A i, j \in 1 .. n : s[i] = s[j] => i = j
  BY <1>2 DEF NoDup
<1>10. ASSUME NEW i \in 1 .. n - 1, NEW j \in 1 .. n - 1, q[i] = q[j] PROVE i = j
  <2>1. PICK x \in 1 .. n : x = (IF i < k THEN i ELSE i + 1) /\ q[i] = s[x]
    BY <1>7
  <2>2. PICK y \in 1 .. n : y = (IF j < k THEN j ELSE j + 1) /\ q[j] = s[y]
    BY <1>7
  <2>3. x = y
    BY <1>9, <1>10, <2>1, <2>2
  <2> QED
    BY <2>1, <2>2, <2>3
<1>11. NoDup(q)
  BY <1>8, <1>10 DEF NoDup
<1>12. \A i \in 1 .. n - 1 : q[i] # a /\ \E j \in 1 .. n : q[i] = s[j]
  <2> SUFFICES ASSUME NEW i \in 1 .. n - 1
               PROVE  q[i] # a /\ \E j \in 1 .. n : q[i] = s[j]
    OBVIOUS
  <2>1. PICK x \in 1 .. n : x = (IF i < k THEN i ELSE i + 1) /\ q[i] = s[x]
    BY <1>7
  <2>2. x # k
    BY <2>1
  <2> QED
    BY <1>3, <1>9, <2>1, <2>2
<1>13. ASSUME NEW i \in 1 .. n, s[i] # a PROVE \E j \in 1 .. n - 1 : q[j] = s[i]
  <2>1. CASE i < k
    BY <1>7, <2>1
  <2>2. CASE ~(i < k)
    <3>1. i # k
      BY <1>3, <1>13
    <3>2. PICK j \in 1 .. n - 1 : j = i - 1 /\ ~(j < k) /\ j + 1 = i
      BY <2>2, <3>1
    <3> QED
      BY <1>7, <3>2
  <2> QED
    BY <2>1, <2>2
<1>14. \A d : d \in Elems(q) <=> d \in Elems(s) /\ d # a
  <2>1. \A d : d \in Elems(q) <=> \E i \in 1 .. n - 1 : d = q[i]
    BY <1>7 DEF Elems
  <2>2. \A d : d \in Elems(s) <=> \E i \in 1 .. n : d = s[i]
    BY <1>1 DEF Elems
  <2> QED
    BY SMTT(30), <2>1, <2>2, <1>12, <1>13
<1> QED
  BY <1>6, <1>7, <1>11, <1>14

LEMMA AppendOnce ==
  ASSUME NEW s \in Seq(Page), NoDup(s), NEW a \in Page, a \notin Elems(s)
  PROVE  /\ Append(s, a) \in Seq(Page) /\ NoDup(Append(s, a))
         /\ Elems(Append(s, a)) = Elems(s) \cup {a}
<1>1. PICK q : q = Append(s, a)
  OBVIOUS
<1>2. PICK n \in Nat : n = Len(s)
  BY LenProperties
<1>3. /\ q \in Seq(Page) /\ Len(q) = n + 1 /\ q[n + 1] = a /\ \A i \in 1 .. n : q[i] = s[i]
      /\ DOMAIN q = 1 .. n + 1 /\ DOMAIN s = 1 .. n
  BY <1>1, <1>2, AppendProperties, LenProperties
<1>4. \A d : d \in Elems(s) <=> \E i \in 1 .. n : d = s[i]
  BY <1>2 DEF Elems
<1>5. \A d : d \in Elems(q) <=> \E i \in 1 .. n + 1 : d = q[i]
  BY <1>3 DEF Elems
<1>6. \A d : d \in Elems(q) <=> d \in Elems(s) \/ d = a
  BY <1>3, <1>4, <1>5
<1>7. \A i \in 1 .. n : s[i] # a
  BY <1>4
<1>8. NoDup(q)
  BY <1>3, <1>7 DEF NoDup
<1> QED
  BY <1>1, <1>3, <1>6, <1>8

LEMMA PagesFinite == IsFiniteSet(Page)
<1>1. 0 \in Int /\ NPages - 1 \in Int
  BY Sizes
<1> QED
  BY <1>1, FS_Interval DEF Page

\* The pages of the extents S, with the descriptors e.
Pages(S, e) == UNION {Span(a, e[a].size) : a \in S}

LEMMA PagesWith ==
  ASSUME NEW S \in SUBSET Page, NEW a \in Page, a \notin S, NEW e,
         e[a].size \in Nat, \A q \in Pages(S, e) : q \in Page /\ q \notin Span(a, e[a].size)
  PROVE  /\ Cardinality(Pages(S, e)) \in Nat
         /\ Cardinality(Pages(S \cup {a}, e)) = Cardinality(Pages(S, e)) + e[a].size
<1>1. PICK U, V : U = Pages(S, e) /\ V = Span(a, e[a].size)
  OBVIOUS
<1>2. IsFiniteSet(U) /\ Cardinality(U) \in Nat
  <2>1. IsFiniteSet(Page)
    BY PagesFinite
  <2>2. U \in SUBSET Page
    BY <1>1
  <2>3. IsFiniteSet(U)
    BY <2>1, <2>2, FS_Subset
  <2> QED
    BY <2>3, FS_CardinalityType
<1>3. IsFiniteSet(V) /\ Cardinality(V) = e[a].size
  <2>1. PICK n \in Nat : n = e[a].size
    OBVIOUS
  <2>2. a \in Int /\ a + n - 1 \in Int /\ V = a .. (a + n - 1)
    BY <1>1, <2>1, Pages_ DEF Span
  <2>3. IsFiniteSet(V) /\ Cardinality(V) = IF a > a + n - 1 THEN 0 ELSE (a + n - 1) - a + 1
    BY <2>2, FS_Interval
  <2> QED
    BY <2>1, <2>2, <2>3
<1>4. U \cap V = {}
  BY <1>1
<1>5. Pages(S \cup {a}, e) = U \cup V
  BY <1>1 DEF Pages
<1>6. Cardinality(U \cup V) = Cardinality(U) + Cardinality(V) - Cardinality(U \cap V)
  BY <1>2, <1>3, FS_Union
<1>7. Cardinality(U \cap V) = 0
  BY <1>4, FS_EmptySet
<1>8. Cardinality(Pages(S \cup {a}, e)) = Cardinality(U) + Cardinality(V) - 0
  BY <1>5, <1>6, <1>7
<1>9. Cardinality(Pages(S \cup {a}, e)) = Cardinality(U) + e[a].size
  <2>1. PICK m \in Nat, n \in Nat : m = Cardinality(U) /\ n = e[a].size
    BY <1>2
  <2> QED
    BY <1>3, <1>8, <2>1
<1> QED
  BY <1>1, <1>2, <1>9

\* The extents of a pool have pages of their own.
LEMMA PoolPages ==
  ASSUME Types, Tiled, NEW S \in SUBSET Live, NEW a \in Live, a \notin S
  PROVE  \A q \in Pages(S, ext) : q \in Page /\ q \notin Span(a, ext[a].size)
<1> SUFFICES ASSUME NEW b \in S, NEW q \in Span(b, ext[b].size)
             PROVE  q \in Page /\ q \notin Span(a, ext[a].size)
  BY DEF Pages
<1>1. b \in Live /\ b # a
  OBVIOUS
<1> QED
  BY <1>1, Spans

LEMMA ListsTypes ==
  ASSUME Types, Tiled, NEW P, NEW S \in SUBSET Live, Lists(P, S, ext)
  PROVE  P.bitmap \in SUBSET Class /\ P.npages \in Nat
<1>1. \A a \in S : get_psizeclass_floor(ext[a].size) \in Class
  BY Spans, FloorOf
<1>2. P.bitmap \in SUBSET Class
  BY <1>1 DEF Lists
<1>3. P.npages \in Nat
  <2>1. IsFiniteSet(Page)
    BY PagesFinite
  <2>2. PICK U : U = UNION {Span(a, ext[a].size) : a \in S}
    OBVIOUS
  <2>3. U \in SUBSET Page
    BY <2>2, Spans
  <2>4. IsFiniteSet(U)
    BY <2>1, <2>3, FS_Subset
  <2> QED
    BY <2>2, <2>4, FS_CardinalityType DEF Lists
<1> QED
  BY <1>2, <1>3

----------------------------------------------------------------------------
(* What the pools list after a step that shapes extents, and after any
   step. *)

LEMMA ListsSame ==
  ASSUME NEW P, NEW S, NEW e, NEW f, Lists(P, S, e), \A a \in S : f[a].size = e[a].size
  PROVE  Lists(P, S, f)
<1>1. {get_psizeclass_floor(e[a].size) : a \in S} = {get_psizeclass_floor(f[a].size) : a \in S}
  OBVIOUS
<1>2. {Span(a, e[a].size) : a \in S} = {Span(a, f[a].size) : a \in S}
  OBVIOUS
<1> QED
  BY <1>1, <1>2 DEF Lists

LEMMA PoolsStay ==
  ASSUME PoolsInOrder, pool' = pool,
         \A a \in Page : /\ ext'[a].state = ext[a].state \/ {ext'[a].state, ext[a].state} \cap Kinds = {}
                         /\ ext[a].state \in Kinds => ext'[a].size = ext[a].size
  PROVE  PoolsInOrder'
<1> SUFFICES ASSUME NEW p \in Kinds PROVE Lists(pool'[p], InPool(p)', ext')
  BY DEF PoolsInOrder
<1>1. Lists(pool[p], InPool(p), ext)
  BY DEF PoolsInOrder
<1>2. InPool(p)' = InPool(p)
  BY DEF InPool
<1>3. \A a \in InPool(p) : ext'[a].size = ext[a].size
  BY DEF InPool
<1> QED
  BY <1>1, <1>2, <1>3, ListsSame

LEMMA ListsWithout ==
  ASSUME Types, Tiled, NEW P, NEW S \in SUBSET Live, Lists(P, S, ext), P.lru \in Seq(Page),
         NEW b \in S
  PROVE  Lists(Removed(P, b), S \ {b}, ext)
<1> DEFINE Q == Removed(P, b)
           floor(a) == get_psizeclass_floor(ext[a].size)
           R == S \ {b}
<1>1. Elems(P.lru) = S /\ NoDup(P.lru) /\ P.bitmap = {floor(a) : a \in S}
      /\ P.npages = Cardinality(Pages(S, ext))
  BY DEF Lists, Pages
<1>2. b \in Page /\ ext[b].size \in Nat
  BY Spans
<1>3. /\ Q.lru = Without(P.lru, b)
      /\ Q.bitmap = IF Heap(P, floor(b)) # {b} THEN P.bitmap
                    ELSE (P.bitmap \ {floor(b)}) \cup ({floor(b)} \ P.bitmap)
      /\ Q.npages = P.npages - ext[b].size
  BY DEF Removed
<1>4. Elems(Q.lru) = R /\ NoDup(Q.lru)
  BY <1>1, <1>3, WithoutOnce
<1>5. Q.bitmap = {floor(a) : a \in R}
  <2>1. Heap(P, floor(b)) = {a \in S : floor(a) = floor(b)}
    BY <1>1 DEF Heap
  <2>2. b \in Heap(P, floor(b))
    BY <2>1
  <2>3. floor(b) \in P.bitmap
    BY <1>1
  <2>4. CASE Heap(P, floor(b)) # {b}
    <3>1. PICK a \in S : a # b /\ floor(a) = floor(b)
      BY <2>1, <2>2, <2>4
    <3>2. a \in R
      BY <3>1
    <3>3. {floor(d) : d \in S} = {floor(d) : d \in R}
      <4> HIDE DEF floor
      <4> QED
        BY <3>1, <3>2
    <3> QED
      BY <1>1, <1>3, <2>4, <3>3
  <2>5. CASE Heap(P, floor(b)) = {b}
    <3>1. \A a \in R : floor(a) # floor(b)
      BY <2>1, <2>5
    <3>2. Q.bitmap = P.bitmap \ {floor(b)}
      BY <1>3, <2>3, <2>5
    <3>3. {floor(d) : d \in S} \ {floor(b)} = {floor(d) : d \in R}
      <4> HIDE DEF floor
      <4> QED
        BY <3>1
    <3> QED
      BY <1>1, <3>2, <3>3
  <2> QED
    BY <2>4, <2>5
<1>6. Q.npages = Cardinality(Pages(R, ext))
  <2>1. R \in SUBSET Live /\ R \in SUBSET Page /\ b \in Live /\ b \notin R /\ R \cup {b} = S
    BY DEF Live
  <2> HIDE DEF R
  <2>2. \A q \in Pages(R, ext) : q \in Page /\ q \notin Span(b, ext[b].size)
    BY <2>1, PoolPages
  <2>3. /\ Cardinality(Pages(R, ext)) \in Nat
        /\ Cardinality(Pages(R \cup {b}, ext)) = Cardinality(Pages(R, ext)) + ext[b].size
    BY <1>2, <2>1, <2>2, PagesWith
  <2>4. PICK m \in Nat, n \in Nat : m = Cardinality(Pages(R, ext)) /\ n = ext[b].size
    BY <1>2, <2>3
  <2>5. P.npages = m + n /\ Q.npages = P.npages - n
    BY <1>1, <1>3, <2>1, <2>3, <2>4
  <2> QED
    BY <2>4, <2>5
<1> QED
  BY <1>4, <1>5, <1>6 DEF Lists, Pages

LEMMA ListsWith ==
  ASSUME Types, Tiled, NEW P, NEW S \in SUBSET Live, Lists(P, S, ext), P.lru \in Seq(Page),
         NEW b \in Live, b \notin S
  PROVE  Lists(Inserted(P, b), S \cup {b}, ext)
<1> DEFINE Q == Inserted(P, b)
           floor(a) == get_psizeclass_floor(ext[a].size)
<1>1. Elems(P.lru) = S /\ NoDup(P.lru) /\ P.bitmap = {floor(a) : a \in S}
      /\ P.npages = Cardinality(Pages(S, ext))
  BY DEF Lists, Pages
<1>2. b \in Page /\ ext[b].size \in Nat
  BY Spans
<1>3. /\ Q.lru = Append(P.lru, b) /\ Q.bitmap = P.bitmap \cup {floor(b)}
      /\ Q.npages = P.npages + ext[b].size
  BY DEF Inserted
<1>4. Elems(Q.lru) = S \cup {b} /\ NoDup(Q.lru)
  BY <1>1, <1>2, <1>3, AppendOnce
<1>5. Q.bitmap = {floor(a) : a \in S \cup {b}}
  <2>1. {floor(a) : a \in S} \cup {floor(b)} = {floor(a) : a \in S \cup {b}}
    <3> HIDE DEF floor
    <3> QED
      OBVIOUS
  <2> QED
    BY <1>1, <1>3, <2>1
<1>6. Q.npages = Cardinality(Pages(S \cup {b}, ext))
  <2>1. S \in SUBSET Page
    BY DEF Live
  <2>2. \A q \in Pages(S, ext) : q \in Page /\ q \notin Span(b, ext[b].size)
    BY PoolPages
  <2>3. /\ Cardinality(Pages(S, ext)) \in Nat
        /\ Cardinality(Pages(S \cup {b}, ext)) = Cardinality(Pages(S, ext)) + ext[b].size
    BY <1>2, <2>1, <2>2, PagesWith
  <2> QED
    BY <1>1, <1>3, <2>3
<1> QED
  BY <1>4, <1>5, <1>6 DEF Lists, Pages

LEMMA PooledLive ==
  ASSUME NEW p \in Kinds
  PROVE  InPool(p) \in SUBSET Live
BY DEF InPool, Live, Kinds

LEMMA PulledPools ==
  ASSUME Types, Tiled, PoolsInOrder, NEW t, NEW p \in Kinds, NEW b \in Page, Pulled(t, p, b)
  PROVE  PoolsInOrder'
<1>1. pool \in [Kinds -> [lru : Seq(Page), bitmap : SUBSET Class, npages : Nat]]
  BY TypesOf
<1>2. ext[b].state = p /\ ext'[b].state = "active" /\ ext'[b].size = ext[b].size
      /\ \A d \in Page \ {b} : ext'[d] = ext[d]
  BY TypesOf DEF Pulled
<1>3. pool'[p] = Removed(pool[p], b) /\ \A o \in Kinds \ {p} : pool'[o] = pool[o]
  BY <1>1 DEF Pulled
<1>4. InPool(p)' = InPool(p) \ {b} /\ b \in InPool(p)
  BY <1>2 DEF InPool, Kinds
<1>5. \A o \in Kinds \ {p} : InPool(o)' = InPool(o)
  BY <1>2 DEF InPool, Kinds
<1>6. \A d \in Page : ext'[d].size = ext[d].size
  BY <1>2
<1>7. Lists(Removed(pool[p], b), InPool(p) \ {b}, ext)
  <2>1. Lists(pool[p], InPool(p), ext) /\ pool[p].lru \in Seq(Page)
    BY <1>1 DEF PoolsInOrder
  <2>2. InPool(p) \in SUBSET Live
    BY PooledLive
  <2> QED
    BY <2>1, <2>2, <1>4, ListsWithout
<1>8. Lists(pool'[p], InPool(p)', ext')
  <2>1. \A d \in InPool(p) \ {b} : ext'[d].size = ext[d].size
    BY <1>6 DEF InPool
  <2> QED
    BY <1>3, <1>4, <1>7, <2>1, ListsSame
<1>9. ASSUME NEW o \in Kinds \ {p} PROVE Lists(pool'[o], InPool(o)', ext')
  <2>1. Lists(pool[o], InPool(o), ext)
    BY DEF PoolsInOrder
  <2>2. \A d \in InPool(o) : ext'[d].size = ext[d].size
    BY <1>6 DEF InPool
  <2> QED
    BY <1>3, <1>5, <2>1, <2>2, ListsSame
<1> QED
  BY <1>8, <1>9 DEF PoolsInOrder

LEMMA PushedPools ==
  ASSUME Types, Tiled, PoolsInOrder, NEW t, NEW p \in Kinds, NEW b \in Page, Pushed(t, p, b)
  PROVE  PoolsInOrder'
<1>1. pool \in [Kinds -> [lru : Seq(Page), bitmap : SUBSET Class, npages : Nat]]
  BY TypesOf
<1>2. ext[b].state = "active" /\ ext'[b].state = p /\ ext'[b].size = ext[b].size
      /\ \A d \in Page \ {b} : ext'[d] = ext[d]
  BY TypesOf DEF Pushed
<1>3. pool'[p] = Inserted(pool[p], b) /\ \A o \in Kinds \ {p} : pool'[o] = pool[o]
  BY <1>1 DEF Pushed
<1>4. InPool(p)' = InPool(p) \cup {b} /\ b \notin InPool(p) /\ b \in Live
  BY <1>2 DEF InPool, Kinds, Live
<1>5. \A o \in Kinds \ {p} : InPool(o)' = InPool(o)
  BY <1>2 DEF InPool, Kinds
<1>6. \A d \in Page : ext'[d].size = ext[d].size
  BY <1>2
<1>7. Lists(Inserted(pool[p], b), InPool(p) \cup {b}, ext)
  <2>1. Lists(pool[p], InPool(p), ext) /\ pool[p].lru \in Seq(Page)
    BY <1>1 DEF PoolsInOrder
  <2>2. InPool(p) \in SUBSET Live
    BY PooledLive
  <2> QED
    BY <2>1, <2>2, <1>4, ListsWith
<1>8. Lists(pool'[p], InPool(p)', ext')
  <2>1. \A d \in InPool(p) \cup {b} : ext'[d].size = ext[d].size
    BY <1>6 DEF InPool
  <2> QED
    BY <1>3, <1>4, <1>7, <2>1, ListsSame
<1>9. ASSUME NEW o \in Kinds \ {p} PROVE Lists(pool'[o], InPool(o)', ext')
  <2>1. Lists(pool[o], InPool(o), ext)
    BY DEF PoolsInOrder
  <2>2. \A d \in InPool(o) : ext'[d].size = ext[d].size
    BY <1>6 DEF InPool
  <2> QED
    BY <1>3, <1>5, <2>1, <2>2, ListsSame
<1> QED
  BY <1>8, <1>9 DEF PoolsInOrder

\* Neither an extent of a pool nor what a pool lists changes when an extent is
\* shaped.
LEMMA ShapingPools ==
  ASSUME IndInv, NEW t \in Thread, Shaping(t)
  PROVE  PoolsInOrder'
<1>1. pool' = pool
  BY Zenon DEF Shaping, Split, Interior, Retire, Register, Record, Merge
<1>2. PoolsInOrder
  BY Parts
<1>3. ASSUME NEW D \in SUBSET Page, \A a \in Page \ D : ext'[a] = ext[a],
             \A a \in D : ext[a].state \notin Kinds /\ ext'[a].state \notin Kinds
      PROVE  PoolsInOrder'
  BY <1>1, <1>2, <1>3, PoolsStay
<1>4. ext \in [Page -> [size : 0 .. NPages, szind : 0 .. SLAB_SCIND, slab : BOOLEAN,
                        state : {"none", "active", "dirty", "muzzy"},
                        log : [type : {"none", "malloc", "slab"},
                               addr : Page \cup {NoPage}, k : Nat]]]
  BY Parts, TypesOf
<1>5. ASSUME NEW a \in Page, NEW b \in Page, Cut(t, a, b) PROVE PoolsInOrder'
  <2>1. /\ ext[a].state = "active" /\ ext'[a].state = "active"
        /\ ext[b].state = "none" /\ ext'[b].state = "active"
        /\ \A d \in Page \ {a, b} : ext'[d] = ext[d]
    BY <1>4, <1>5 DEF Cut
  <2> QED
    BY <2>1, <1>3 DEF Kinds
<1>6. ASSUME NEW a \in Page, Whole(t, a) \/ Marked(t, a) \/ Recorded(t, a) PROVE PoolsInOrder'
  <2>1. CASE Whole(t, a)
    <3>1. /\ ext[a].state = "active" /\ ext'[a].state = "active"
          /\ \A d \in Page \ {a} : ext'[d] = ext[d]
      BY <1>4, <2>1 DEF Whole
    <3>2. PICK D \in SUBSET Page : D = {a}
      OBVIOUS
    <3>3. \A d \in D : ext[d].state \notin Kinds /\ ext'[d].state \notin Kinds
      BY <3>1, <3>2 DEF Kinds
    <3> QED
      BY <3>1, <3>2, <3>3, <1>3
  <2>2. CASE Marked(t, a)
    <3>1. /\ ext[a].state = "active" /\ ext'[a].state = "active"
          /\ \A d \in Page \ {a} : ext'[d] = ext[d]
      BY <1>4, <2>2 DEF Marked
    <3>2. PICK D \in SUBSET Page : D = {a}
      OBVIOUS
    <3>3. \A d \in D : ext[d].state \notin Kinds /\ ext'[d].state \notin Kinds
      BY <3>1, <3>2 DEF Kinds
    <3> QED
      BY <3>1, <3>2, <3>3, <1>3
  <2>3. CASE Recorded(t, a)
    <3>1. /\ ext[a].state = "active" /\ ext'[a].state = "active"
          /\ \A d \in Page \ {a} : ext'[d] = ext[d]
      BY <1>4, <2>3 DEF Recorded
    <3>2. PICK D \in SUBSET Page : D = {a}
      OBVIOUS
    <3>3. \A d \in D : ext[d].state \notin Kinds /\ ext'[d].state \notin Kinds
      BY <3>1, <3>2 DEF Kinds
    <3> QED
      BY <3>1, <3>2, <3>3, <1>3
  <2> QED
    BY <1>6, <2>1, <2>2, <2>3
<1>7. ASSUME NEW a \in Page, NEW n \in Nat, Registered(t, a, n) \/ Kept(t, a, n)
      PROVE PoolsInOrder'
  <2>1. /\ ext[a].state = "none" /\ ext'[a].state = "active"
        /\ \A d \in Page \ {a} : ext'[d] = ext[d]
    BY <1>4, <1>7 DEF Registered, Kept
  <2> QED
    BY <2>1, <1>3 DEF Kinds
<1>8. CASE Forgot(t)
  BY <1>8, <1>1, <1>2, PoolsStay DEF Forgot
<1>9. ASSUME NEW a \in Page, NEW b \in Page, Merged(t, a, b) PROVE PoolsInOrder'
  <2>1. /\ ext[a].state = "active" /\ ext'[a].state = "active"
        /\ ext[b].state = "active" /\ ext'[b].state = "none"
        /\ \A d \in Page \ {a, b} : ext'[d] = ext[d]
    BY <1>4, <1>9 DEF Merged
  <2> QED
    BY <2>1, <1>3 DEF Kinds
<1> QED
  BY <1>5, <1>6, <1>7, <1>8, <1>9, SplitDoes, InteriorDoes, RegisterDoes, RetireDoes,
     RecordDoes, MergeDoes DEF Shaping

LEMMA PoolsKept ==
  ASSUME IndInv, NEW t \in Thread, Plain(t) \/ Pooling(t) \/ Shaping(t)
  PROVE  PoolsInOrder'
<1>1. Types /\ Tiled /\ PoolsInOrder
  BY Parts
<1>2. CASE Plain(t)
  <2>1. SameExtents /\ SameStates
    BY <1>1, <1>2, PlainKeeps
  <2> QED
    BY <1>1, <2>1, PoolsStay DEF SameExtents, SameStates
<1>3. CASE Pooling(t)
  <2>1. CASE ext' = ext /\ pool' = pool
    BY <1>1, <2>1, PoolsStay
  <2> QED
    BY <1>1, <1>3, <2>1, PoolingDoes, PulledPools, PushedPools
<1>4. CASE Shaping(t)
  BY <1>4, ShapingPools
<1> QED
  BY <1>2, <1>3, <1>4

=============================================================================
