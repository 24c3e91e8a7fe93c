----------------------------- MODULE VLogProofs -----------------------------
(*************************************************************************)
(* What TLAPS proves of the bookkeeping log, for every value of its      *)
(* constants: IndInv is inductive with both collectors; DurableInv is    *)
(* inductive over it, which is why the log is exact until the first      *)
(* fast_GC, and its bitmaps while one of the collectors never runs; and  *)
(* the log implements the durable set.                                   *)
(*************************************************************************)
EXTENDS VLogInv, InterleaveProofs, TLAPS, FiniteSetTheorems

(* What log.c works on, as one record. *)
MemType == [lchunk : [Addr -> LChunk], vlchunk : [Addr -> VLChunk],
            free : Seq(Addr), used : Addr, v : VLogType]

----------------------------------------------------------------------------
(* The arithmetic of the interleaved index. *)

LEMMA MulPos ==
  ASSUME NEW a \in Nat \ {0}, NEW b \in Nat \ {0}
  PROVE  a * b \in Nat \ {0}
  OBVIOUS

LEMMA SpreadNat ==
  ASSUME NEW n \in Nat \ {0}, NEW nb \in Nat \ {0}, NEW b \in Nat
  PROVE  Spread(n, nb, b) \in Nat
<1> DEFINE nn == n * nb
<1>1. nn \in Nat \ {0}
  BY MulPos
<1> HIDE DEF nn
<1>2. b % nn \in Nat /\ b \div nn \in Nat
  BY <1>1
<1>3. (b % nn) \div nb \in Nat /\ b % nb \in Nat
  BY <1>2
<1>4. (b \div nn) * nn \in Nat
  BY <1>1, <1>2
<1>5. (b % nb) * n \in Nat
  BY <1>3
<1>6. (b \div nn) * nn + (b % nb) * n + (b % nn) \div nb \in Nat
  BY <1>3, <1>4, <1>5
<1> QED
  BY <1>6 DEF Spread, nn

LEMMA SpreadZero ==
  ASSUME NEW n \in Nat \ {0}, NEW nb \in Nat \ {0}
  PROVE  Spread(n, nb, 0) = 0
<1> DEFINE nn == n * nb
<1>1. nn \in Nat \ {0}
  BY MulPos
<1> HIDE DEF nn
<1>2. 0 % nn = 0 /\ 0 \div nn = 0 /\ 0 % nb = 0 /\ 0 \div nb = 0
  BY <1>1
<1>3. 0 * nn = 0 /\ 0 * n = 0
  BY <1>1
<1>4. (0 \div nn) * nn + (0 % nb) * n + (0 % nn) \div nb = 0
  BY <1>2, <1>3
<1> QED
  BY <1>4 DEF Spread, nn

----------------------------------------------------------------------------
(* Sequences without duplicates. *)

LEMMA TailElems ==
  ASSUME NEW S, NEW s \in Seq(S), Distinct(s), s # <<>>
  PROVE  /\ Head(s) \in S
         /\ Head(s) \in Elems(s)
         /\ Tail(s) \in Seq(S)
         /\ Distinct(Tail(s))
         /\ Elems(Tail(s)) = Elems(s) \ {Head(s)}
<1>1. Len(s) \in Nat /\ Len(s) > 0 /\ Head(s) = s[1] /\ s[1] \in S
  OBVIOUS
<1>2. /\ Tail(s) \in Seq(S)
      /\ Len(Tail(s)) = Len(s) - 1
      /\ \A i \in 1 .. Len(Tail(s)) : Tail(s)[i] = s[i + 1]
  OBVIOUS
<1>3. Distinct(Tail(s))
  BY <1>1, <1>2 DEF Distinct
<1>4. ASSUME NEW x \in Elems(Tail(s)) PROVE x \in Elems(s) \ {Head(s)}
  BY <1>1, <1>2 DEF Distinct, Elems
<1>5. ASSUME NEW x \in Elems(s) \ {Head(s)} PROVE x \in Elems(Tail(s))
  <2>1. PICK i \in 1 .. Len(s) : x = s[i]
    BY DEF Elems
  <2>2. i # 1
    BY <1>1, <2>1
  <2>3. i - 1 \in 1 .. Len(Tail(s)) /\ Tail(s)[i - 1] = x
    BY <1>1, <1>2, <2>1, <2>2
  <2> QED
    BY <2>3 DEF Elems
<1> QED
  BY <1>1, <1>2, <1>3, <1>4, <1>5 DEF Elems

LEMMA AppendElems ==
  ASSUME NEW S, NEW s \in Seq(S), NEW c \in S, Distinct(s), c \notin Elems(s)
  PROVE  /\ Append(s, c) \in Seq(S)
         /\ Distinct(Append(s, c))
         /\ Elems(Append(s, c)) = Elems(s) \cup {c}
<1> DEFINE t == Append(s, c)
<1>1. /\ t \in Seq(S)
      /\ Len(s) \in Nat
      /\ Len(t) = Len(s) + 1
      /\ \A i \in 1 .. Len(s) : t[i] = s[i]
      /\ t[Len(s) + 1] = c
  OBVIOUS
<1> HIDE DEF t
<1>2. Distinct(t)
  BY <1>1 DEF Distinct, Elems
<1>3. Elems(t) = Elems(s) \cup {c}
  <2>1. ASSUME NEW x \in Elems(t) PROVE x \in Elems(s) \cup {c}
    <3>1. PICK i \in 1 .. Len(t) : x = t[i]
      BY DEF Elems
    <3>2. i \in 1 .. Len(s) \/ i = Len(s) + 1
      BY <1>1
    <3> QED
      BY <1>1, <3>1, <3>2 DEF Elems
  <2>2. ASSUME NEW x \in Elems(s) PROVE x \in Elems(t)
    <3>1. PICK i \in 1 .. Len(s) : x = s[i]
      BY DEF Elems
    <3>2. i \in 1 .. Len(t) /\ t[i] = x
      BY <1>1, <3>1
    <3> QED
      BY <3>2 DEF Elems
  <2>3. c \in Elems(t)
    BY <1>1 DEF Elems
  <2> QED
    BY <2>1, <2>2, <2>3
<1> QED
  BY <1>1, <1>2, <1>3 DEF t

LEMMA NoElems == Distinct(<<>>) /\ Elems(<<>>) = {} /\ Len(<<>>) = 0
  BY DEF Distinct, Elems

----------------------------------------------------------------------------
(* Chunks. *)

LEMMA BlankTypes ==
  /\ Null \notin Addr
  /\ 0 \in Slot
  /\ Blank \in Item
  /\ \A n \in Nat : NewLChunk(n) \in LChunk
  /\ \A n \in Nat : NewVLChunk(n) \in VLChunk
  /\ \A n \in Nat : NewVLChunk(n).count = 0
  /\ BlankVLog \in VLogType
  BY SizesAssumption, PolicyAssumption
     DEF Null, Addr, Slot, Blank, Item, ItemType, NewLChunk, LChunk,
         NewVLChunk, VLChunk, BlankVLog, VLogType, NoItem

(* A chunk can be had. *)
LEMMA NextChunkIsThere ==
  ASSUME NEW m \in MemType, CanAlloc(m, 1)
  PROVE  /\ NextChunk(m) \in Addr
         /\ m.free = <<>> => m.used + 1 \in Addr
<1>1. CASE m.free = <<>>
  <2>1. Len(m.free) = 0 /\ m.used \in Addr
    BY <1>1 DEF MemType
  <2>2. m.used + 1 <= LOG_FILE_SIZE - 1
    BY <2>1, SizesAssumption DEF CanAlloc, Addr
  <2> QED
    BY <1>1, <2>1, <2>2, SizesAssumption DEF NextChunk, Addr
<1>2. CASE m.free # <<>>
  <2>1. m.free \in Seq(Addr)
    BY DEF MemType
  <2>2. Head(m.free) \in Addr
    BY <1>2, <2>1
  <2> QED
    BY <1>2, <2>2 DEF NextChunk
<1> QED
  BY <1>1, <1>2

LEMMA AllocType ==
  ASSUME NEW m \in MemType, CanAlloc(m, 1)
  PROVE  /\ vlchunk_alloc(m) \in MemType
         /\ vlchunk_alloc(m).v.log = m.v.log
         /\ vlchunk_alloc(m).v.tree = m.v.tree
         /\ vlchunk_alloc(m).v.tail = m.v.tail
         /\ vlchunk_alloc(m).v.gc_timer = m.v.gc_timer
         /\ vlchunk_alloc(m).v.num_of_items = m.v.num_of_items
         /\ vlchunk_alloc(m).v.num_of_chunks = m.v.num_of_chunks + 1
         /\ vlchunk_alloc(m).vlchunk[NextChunk(m)].count = 0
         /\ \A c \in Addr \ {NextChunk(m)} :
              vlchunk_alloc(m).vlchunk[c] = m.vlchunk[c]
<1> DEFINE c == NextChunk(m)
           n == m.v.global_lchunk_id
           a == vlchunk_alloc(m)
<1>1. /\ m.lchunk \in [Addr -> LChunk]
      /\ m.vlchunk \in [Addr -> VLChunk]
      /\ m.free \in Seq(Addr)
      /\ m.used \in Addr
      /\ m.v \in VLogType
  BY DEF MemType
<1>2. n \in Nat /\ n + 1 \in Nat /\ m.v.num_of_chunks + 1 \in Nat
  BY <1>1 DEF VLogType
<1>3. c \in Addr /\ (m.free = <<>> => m.used + 1 \in Addr)
  BY NextChunkIsThere
<1>4. /\ a.lchunk = [m.lchunk EXCEPT ![c] = NewLChunk(n)]
      /\ a.vlchunk = [m.vlchunk EXCEPT ![c] = NewVLChunk(n)]
      /\ a.free = IF m.free # <<>> THEN Tail(m.free) ELSE m.free
      /\ a.used = IF m.free # <<>> THEN m.used ELSE m.used + 1
      /\ a.v = [m.v EXCEPT !.global_lchunk_id = n + 1, !.num_of_chunks = @ + 1]
      /\ a = [lchunk |-> a.lchunk, vlchunk |-> a.vlchunk, free |-> a.free,
              used |-> a.used, v |-> a.v]
  BY DEF vlchunk_alloc
<1> HIDE DEF c, n, a
<1>5. a.lchunk \in [Addr -> LChunk]
  BY <1>1, <1>2, <1>4, BlankTypes
<1>6. a.vlchunk \in [Addr -> VLChunk] /\ a.vlchunk[c].count = 0
  BY <1>1, <1>2, <1>3, <1>4, BlankTypes
<1>7. a.free \in Seq(Addr) /\ a.used \in Addr
  BY <1>1, <1>3, <1>4
<1>8. /\ a.v \in VLogType
      /\ a.v.log = m.v.log
      /\ a.v.tree = m.v.tree
      /\ a.v.tail = m.v.tail
      /\ a.v.gc_timer = m.v.gc_timer
      /\ a.v.num_of_items = m.v.num_of_items
      /\ a.v.num_of_chunks = m.v.num_of_chunks + 1
  BY <1>1, <1>2, <1>4 DEF VLogType
<1>9. a \in MemType
  BY <1>4, <1>5, <1>6, <1>7, <1>8 DEF MemType
<1>10. \A d \in Addr \ {c} : a.vlchunk[d] = m.vlchunk[d]
  BY <1>1, <1>4
<1> QED
  BY <1>6, <1>8, <1>9, <1>10 DEF a, c

(* One chunk less can be had after one was allocated. *)
LEMMA AllocLeaves ==
  ASSUME NEW m \in MemType, NEW n \in Nat, CanAlloc(m, n + 1)
  PROVE  CanAlloc(m, 1) /\ CanAlloc(vlchunk_alloc(m), n)
<1>1. /\ m.free \in Seq(Addr) /\ m.used \in Addr /\ Len(m.free) \in Nat
      /\ m.used \in Nat
  BY SizesAssumption DEF MemType, Addr
<1>2. /\ vlchunk_alloc(m).free = IF m.free # <<>> THEN Tail(m.free) ELSE m.free
      /\ vlchunk_alloc(m).used = IF m.free # <<>> THEN m.used ELSE m.used + 1
  BY DEF vlchunk_alloc
<1>3. /\ LOG_FILE_SIZE \in Nat
      /\ Len(m.free) + (LOG_FILE_SIZE - 1 - m.used) >= n + 1
  BY SizesAssumption DEF CanAlloc
<1>4. CASE m.free = <<>>
  <2>1. Len(m.free) = 0
    BY <1>4
  <2>2. Len(m.free) + (LOG_FILE_SIZE - 1 - (m.used + 1)) >= n
    BY <1>1, <1>3, <2>1
  <2> QED
    BY <1>1, <1>2, <1>3, <1>4, <2>2 DEF CanAlloc
<1>5. CASE m.free # <<>>
  <2>1. Len(Tail(m.free)) = Len(m.free) - 1
    BY <1>1, <1>5
  <2>2. Len(Tail(m.free)) + (LOG_FILE_SIZE - 1 - m.used) >= n
    BY <1>1, <1>3, <2>1
  <2> QED
    BY <1>1, <1>2, <1>3, <1>5, <2>2 DEF CanAlloc
<1> QED
  BY <1>4, <1>5

LEMMA LinkType ==
  ASSUME NEW m \in MemType, NEW p \in Addr, NEW c \in Addr
  PROVE  /\ Link(m, p, c) \in MemType
         /\ Link(m, p, c).free = m.free
         /\ Link(m, p, c).used = m.used
         /\ Link(m, p, c).v.log = m.v.log
         /\ Link(m, p, c).v.tree = m.v.tree \cup {c}
         /\ Link(m, p, c).v.tail = c
         /\ Link(m, p, c).v.gc_timer = m.v.gc_timer
         /\ Link(m, p, c).v.num_of_chunks = m.v.num_of_chunks
         /\ Link(m, p, c).v.num_of_items = m.v.num_of_items
         /\ Link(m, p, c).vlchunk[c].count = m.vlchunk[c].count
<1> DEFINE a == Link(m, p, c)
<1>1. /\ m.lchunk \in [Addr -> LChunk]
      /\ m.vlchunk \in [Addr -> VLChunk]
      /\ m.free \in Seq(Addr)
      /\ m.used \in Addr
      /\ m.v \in VLogType
  BY DEF MemType
<1>2. /\ a.lchunk = [m.lchunk EXCEPT ![p].next = c]
      /\ a.vlchunk = [m.vlchunk EXCEPT ![c].pre = p]
      /\ a.free = m.free
      /\ a.used = m.used
      /\ a.v = [m.v EXCEPT !.tree = @ \cup {c}, !.tail = c]
      /\ a = [lchunk |-> a.lchunk, vlchunk |-> a.vlchunk, free |-> a.free,
              used |-> a.used, v |-> a.v]
  BY DEF Link
<1> HIDE DEF a
<1>3. a.lchunk \in [Addr -> LChunk]
  <2>1. [m.lchunk[p] EXCEPT !.next = c] \in LChunk
    BY <1>1 DEF LChunk
  <2> QED
    BY <1>1, <1>2, <2>1
<1>4. a.vlchunk \in [Addr -> VLChunk] /\ a.vlchunk[c].count = m.vlchunk[c].count
  <2>1. /\ [m.vlchunk[c] EXCEPT !.pre = p] \in VLChunk
        /\ [m.vlchunk[c] EXCEPT !.pre = p].count = m.vlchunk[c].count
    BY <1>1 DEF VLChunk
  <2> QED
    BY <1>1, <1>2, <2>1
<1>5. /\ a.v \in VLogType
      /\ a.v.log = m.v.log
      /\ a.v.tree = m.v.tree \cup {c}
      /\ a.v.tail = c
      /\ a.v.gc_timer = m.v.gc_timer
      /\ a.v.num_of_chunks = m.v.num_of_chunks
      /\ a.v.num_of_items = m.v.num_of_items
  <2>1. m.v.tree \cup {c} \in SUBSET Addr
    BY <1>1 DEF VLogType
  <2> QED
    BY <1>1, <1>2, <2>1 DEF VLogType
<1>6. a \in MemType
  BY <1>1, <1>2, <1>3, <1>4, <1>5 DEF MemType
<1> QED
  BY <1>2, <1>4, <1>5, <1>6 DEF a

(* Allocation takes a chunk nobody owned. *)
LEMMA AllocShared ==
  ASSUME NEW m \in MemType, CanAlloc(m, 1), NEW owned,
         Shared(m.free, owned, m.used)
  PROVE  /\ NextChunk(m) \notin owned
         /\ Shared(vlchunk_alloc(m).free, owned \cup {NextChunk(m)},
                   vlchunk_alloc(m).used)
<1> DEFINE c == NextChunk(m)
           a == vlchunk_alloc(m)
<1>1. m.free \in Seq(Addr) /\ m.used \in Nat \ {0}
  BY SizesAssumption DEF MemType, Addr
<1>2. /\ a.free = IF m.free # <<>> THEN Tail(m.free) ELSE m.free
      /\ a.used = IF m.free # <<>> THEN m.used ELSE m.used + 1
      /\ c = IF m.free # <<>> THEN Head(m.free) ELSE m.used
  BY DEF vlchunk_alloc, NextChunk
<1> HIDE DEF a, c
<1>3. CASE m.free = <<>>
  <2>1. Elems(m.free) = {} /\ Distinct(m.free)
    BY <1>3, NoElems
  <2>2. owned = 1 .. (m.used - 1)
    BY <2>1 DEF Shared
  <2>3. m.used \notin owned
    BY <1>1, <2>2
  <2>4. owned \cup {m.used} = 1 .. ((m.used + 1) - 1)
    BY <1>1, <2>2
  <2>5. m.used \in 1 .. ((m.used + 1) - 1)
    BY <1>1
  <2> QED
    BY <1>2, <1>3, <2>1, <2>3, <2>4 DEF Shared, a, c
<1>4. CASE m.free # <<>>
  <2>1. Distinct(m.free)
    BY DEF Shared
  <2>2. /\ Head(m.free) \in Elems(m.free)
        /\ Distinct(Tail(m.free))
        /\ Elems(Tail(m.free)) = Elems(m.free) \ {Head(m.free)}
    BY <1>1, <1>4, <2>1, TailElems
  <2>3. Elems(Tail(m.free)) \cap (owned \cup {c}) = {}
    BY <1>2, <1>4, <2>2 DEF Shared
  <2>4. Elems(Tail(m.free)) \cup (owned \cup {c}) = 1 .. (m.used - 1)
    BY <1>2, <1>4, <2>2 DEF Shared
  <2>5. c \notin owned
    BY <1>2, <1>4, <2>2 DEF Shared
  <2> QED
    BY <1>2, <1>4, <2>2, <2>3, <2>4, <2>5 DEF Shared, a, c
<1> QED
  BY <1>3, <1>4

(* A giver of a chunk loses it to the free list. *)
LEMMA FreeShared ==
  ASSUME NEW s \in Seq(Addr), NEW owned, NEW left, NEW c \in Addr, NEW n,
         Shared(s, owned, n), c \in owned, left = owned \ {c}
  PROVE  Append(s, c) \in Seq(Addr) /\ Shared(Append(s, c), left, n)
<1>1. Distinct(s) /\ c \notin Elems(s)
  BY DEF Shared
<1>2. /\ Append(s, c) \in Seq(Addr)
      /\ Distinct(Append(s, c))
      /\ Elems(Append(s, c)) = Elems(s) \cup {c}
  BY <1>1, AppendElems
<1> QED
  BY <1>2 DEF Shared

LEMMA AddedToTree ==
  ASSUME NEW T, IsFiniteSet(T), NEW c, c \notin T, NEW k,
         k = Cardinality(T) + 1
  PROVE  k + 1 = Cardinality(T \cup {c}) + 1 /\ IsFiniteSet(T \cup {c})
  BY FS_AddElement

LEMMA AddrFinite == ASSUME NEW T \in SUBSET Addr PROVE IsFiniteSet(T)
<1>1. IsFiniteSet(Addr)
  BY FS_Interval, SizesAssumption DEF Addr
<1> QED
  BY <1>1, FS_Subset

(* The log m.v, whose chunks are among those owned, extends its tail. *)
LEMMA ExtendOK ==
  ASSUME NEW m \in MemType, NEW owned,
         m.v.tail \in Addr, m.v.tail \in m.v.tree,
         TailFull(m) => CanAlloc(m, 1),
         m.v.tree \subseteq owned,
         Shared(m.free, owned, m.used),
         m.v.num_of_chunks = Cardinality(m.v.tree) + 1
  PROVE  /\ Extend(m) \in MemType
         /\ ~TailFull(Extend(m))
         /\ Extend(m).v.tail \in Addr
         /\ Extend(m).v.tail \in Extend(m).v.tree
         /\ Extend(m).v.log = m.v.log
         /\ Extend(m).v.gc_timer = m.v.gc_timer
         /\ Extend(m).v.num_of_chunks = Cardinality(Extend(m).v.tree) + 1
         /\ \E added \in SUBSET Addr :
              /\ added \cap owned = {}
              /\ Extend(m).v.tree = m.v.tree \cup added
              /\ Shared(Extend(m).free, owned \cup added, Extend(m).used)
<1>1. CASE ~TailFull(m)
  <2>1. Extend(m) = m
    BY <1>1 DEF Extend
  <2>2. owned \cup {} = owned /\ {} \cap owned = {} /\ m.v.tree \cup {} = m.v.tree
    OBVIOUS
  <2>3. /\ {} \in SUBSET Addr
        /\ {} \cap owned = {}
        /\ m.v.tree = m.v.tree \cup {}
        /\ Shared(m.free, owned \cup {}, m.used)
    BY <2>2
  <2>4. \E added \in SUBSET Addr :
          /\ added \cap owned = {}
          /\ m.v.tree = m.v.tree \cup added
          /\ Shared(m.free, owned \cup added, m.used)
    BY <2>3
  <2> QED
    BY <1>1, <2>1, <2>4
<1>2. CASE TailFull(m)
  <2> DEFINE c == NextChunk(m)
             a == vlchunk_alloc(m)
             e == Link(a, m.v.tail, c)
  <2>1. Extend(m) = e
    BY <1>2 DEF Extend
  <2>2. c \in Addr
    BY <1>2, NextChunkIsThere
  <2>3. /\ a \in MemType
        /\ a.v.log = m.v.log
        /\ a.v.tree = m.v.tree
        /\ a.v.gc_timer = m.v.gc_timer
        /\ a.v.num_of_chunks = m.v.num_of_chunks + 1
        /\ a.vlchunk[c].count = 0
    BY <1>2, AllocType
  <2>4. c \notin owned /\ Shared(a.free, owned \cup {c}, a.used)
    BY <1>2, AllocShared
  <2> HIDE DEF c, a
  <2>5. /\ e \in MemType
        /\ e.free = a.free
        /\ e.used = a.used
        /\ e.v.log = m.v.log
        /\ e.v.tree = m.v.tree \cup {c}
        /\ e.v.tail = c
        /\ e.v.gc_timer = m.v.gc_timer
        /\ e.v.num_of_chunks = m.v.num_of_chunks + 1
        /\ e.vlchunk[c].count = 0
    <3> DEFINE t == m.v.tail
    <3>1. t \in Addr
      OBVIOUS
    <3> HIDE DEF t
    <3>2. /\ Link(a, t, c) \in MemType
          /\ Link(a, t, c).free = a.free
          /\ Link(a, t, c).used = a.used
          /\ Link(a, t, c).v.log = a.v.log
          /\ Link(a, t, c).v.tree = a.v.tree \cup {c}
          /\ Link(a, t, c).v.tail = c
          /\ Link(a, t, c).v.gc_timer = a.v.gc_timer
          /\ Link(a, t, c).v.num_of_chunks = a.v.num_of_chunks
          /\ Link(a, t, c).vlchunk[c].count = a.vlchunk[c].count
      <4>1. a \in MemType
        BY <2>3
      <4> QED
        BY ONLY <4>1, <2>2, <3>1, LinkType
    <3> QED
      BY <2>3, <3>2 DEF t
  <2> HIDE DEF e
  <2>6. ~TailFull(e)
    <3>1. count_to_index(0) = 0
      BY SpreadZero, SizesAssumption DEF count_to_index
    <3> QED
      BY <2>5, <3>1, SizesAssumption DEF TailFull
  <2>7. e.v.num_of_chunks = Cardinality(e.v.tree) + 1
    <3>1. IsFiniteSet(m.v.tree)
      BY AddrFinite DEF MemType, VLogType
    <3>2. c \notin m.v.tree
      BY <2>4
    <3> QED
      BY <2>5, <3>1, <3>2, AddedToTree
  <2>8. /\ {c} \in SUBSET Addr
        /\ {c} \cap owned = {}
        /\ e.v.tree = m.v.tree \cup {c}
        /\ Shared(e.free, owned \cup {c}, e.used)
    BY <2>2, <2>4, <2>5
  <2> QED
    BY <2>1, <2>2, <2>5, <2>6, <2>7, <2>8
<1> QED
  BY <1>1, <1>2

(* A log of two chunks nobody owned. *)
LEMMA NewLogOK ==
  ASSUME NEW m \in MemType, CanAlloc(m, 2), NEW owned,
         Shared(m.free, owned, m.used),
         m.v.tree = {}, m.v.num_of_chunks = 0
  PROVE  /\ NewLog(m) \in MemType
         /\ NewLog(m).v.log = m.v.log
         /\ NewLog(m).v.tail \in NewLog(m).v.tree
         /\ NextChunk(m) \in Addr
         /\ NextChunk(m) \notin owned
         /\ NextChunk(m) \notin NewLog(m).v.tree
         /\ NewLog(m).v.tree \cap owned = {}
         /\ Shared(NewLog(m).free, (owned \cup {NextChunk(m)}) \cup NewLog(m).v.tree,
                   NewLog(m).used)
         /\ NewLog(m).v.num_of_chunks = Cardinality(NewLog(m).v.tree) + 1
<1> DEFINE r == NextChunk(m)
           m1 == vlchunk_alloc(m)
           c == NextChunk(m1)
           m2 == vlchunk_alloc(m1)
<1>1. NewLog(m) = Link(m2, r, c)
  BY DEF NewLog
<1>2. CanAlloc(m, 1) /\ CanAlloc(m1, 1)
  BY AllocLeaves
<1>3. r \in Addr
  BY <1>2, NextChunkIsThere
<1>4. /\ m1 \in MemType
      /\ m1.v.log = m.v.log
      /\ m1.v.tree = {}
      /\ m1.v.num_of_chunks = 1
  BY <1>2, AllocType
<1>5. r \notin owned /\ Shared(m1.free, owned \cup {r}, m1.used)
  BY <1>2, AllocShared
<1> HIDE DEF m1
<1>6. c \in Addr
  BY <1>2, <1>4, NextChunkIsThere
<1>7. /\ m2 \in MemType
      /\ m2.v.log = m.v.log
      /\ m2.v.tree = {}
      /\ m2.v.num_of_chunks = 2
  BY <1>2, <1>4, AllocType
<1>8. c \notin owned \cup {r} /\ Shared(m2.free, (owned \cup {r}) \cup {c}, m2.used)
  BY <1>2, <1>4, <1>5, AllocShared
<1> HIDE DEF m2, c, r
<1>9. /\ Link(m2, r, c) \in MemType
      /\ Link(m2, r, c).free = m2.free
      /\ Link(m2, r, c).used = m2.used
      /\ Link(m2, r, c).v.log = m.v.log
      /\ Link(m2, r, c).v.tree = {c}
      /\ Link(m2, r, c).v.tail = c
      /\ Link(m2, r, c).v.num_of_chunks = 2
  <2>1. m2 \in MemType
    BY <1>7
  <2>2. /\ Link(m2, r, c) \in MemType
        /\ Link(m2, r, c).free = m2.free
        /\ Link(m2, r, c).used = m2.used
        /\ Link(m2, r, c).v.log = m2.v.log
        /\ Link(m2, r, c).v.tree = m2.v.tree \cup {c}
        /\ Link(m2, r, c).v.tail = c
        /\ Link(m2, r, c).v.num_of_chunks = m2.v.num_of_chunks
    BY ONLY <1>3, <1>6, <2>1, LinkType
  <2> QED
    BY <1>7, <2>2
<1>10. Cardinality({c}) = 1
  BY FS_Singleton
<1> QED
  BY <1>1, <1>3, <1>5, <1>8, <1>9, <1>10 DEF r

(* The place of the next item, when the tail has room. *)
LEMMA PlaceOK ==
  ASSUME NEW m \in MemType, m.v.tail \in Addr, ~TailFull(m)
  PROVE  /\ Place(m) \in ItemAddr
         /\ Place(m)[1] = m.v.tail
         /\ Place(m)[2] \in Slot
<1>1. m.vlchunk[m.v.tail].count \in Nat
  BY DEF MemType, VLChunk
<1>2. count_to_index(m.vlchunk[m.v.tail].count) \in Nat
  BY <1>1, SpreadNat, SizesAssumption DEF count_to_index
<1>3. count_to_index(m.vlchunk[m.v.tail].count) \in Slot
  BY <1>2, SizesAssumption DEF TailFull, Slot
<1> QED
  BY <1>3 DEF Place, ItemAddr

LEMMA StoreOK ==
  ASSUME NEW m \in MemType, NEW p \in ItemAddr, NEW item \in Item
  PROVE  /\ Store(m, p, item) \in MemType
         /\ Store(m, p, item).free = m.free
         /\ Store(m, p, item).used = m.used
         /\ Store(m, p, item).v = m.v
         /\ p[2] \in Store(m, p, item).vlchunk[p[1]].bitmap
<1> DEFINE a == Store(m, p, item)
<1>1. /\ m.lchunk \in [Addr -> LChunk]
      /\ m.vlchunk \in [Addr -> VLChunk]
      /\ p[1] \in Addr
      /\ p[2] \in Slot
  BY DEF MemType, ItemAddr
<1>2. /\ a.lchunk = [m.lchunk EXCEPT ![p[1]].items[p[2]] = item]
      /\ a.vlchunk = [m.vlchunk EXCEPT ![p[1]] = Filled(@, p[2])]
      /\ a.free = m.free
      /\ a.used = m.used
      /\ a.v = m.v
      /\ a = [lchunk |-> a.lchunk, vlchunk |-> a.vlchunk, free |-> a.free,
              used |-> a.used, v |-> a.v]
  BY DEF Store
<1> HIDE DEF a
<1>3. a.lchunk \in [Addr -> LChunk]
  <2>1. [m.lchunk[p[1]] EXCEPT !.items = [@ EXCEPT ![p[2]] = item]] \in LChunk
    BY <1>1 DEF LChunk
  <2> QED
    BY <1>1, <1>2, <2>1
<1>4. /\ a.vlchunk \in [Addr -> VLChunk]
      /\ p[2] \in a.vlchunk[p[1]].bitmap
  <2>1. ASSUME NEW d \in VLChunk, NEW i \in Slot
        PROVE  Filled(d, i) \in VLChunk /\ i \in Filled(d, i).bitmap
    <3>1. d.count + 1 \in Nat /\ d.bitmap \cup {i} \in SUBSET Slot
      BY DEF VLChunk
    <3> QED
      BY <3>1 DEF Filled, VLChunk
  <2> QED
    <3>1. /\ Filled(m.vlchunk[p[1]], p[2]) \in VLChunk
          /\ p[2] \in Filled(m.vlchunk[p[1]], p[2]).bitmap
      BY <1>1, <2>1
    <3> QED
      BY <1>1, <1>2, <3>1
<1> QED
  BY <1>2, <1>3, <1>4 DEF a, MemType

LEMMA ClearBitOK ==
  ASSUME NEW m \in MemType, NEW p \in ItemAddr
  PROVE  /\ ClearBit(m, p) \in MemType
         /\ ClearBit(m, p).free = m.free
         /\ ClearBit(m, p).used = m.used
         /\ ClearBit(m, p).v = m.v
         /\ TailFull(ClearBit(m, p)) <=> TailFull(m)
<1> DEFINE a == ClearBit(m, p)
<1>1. /\ m.vlchunk \in [Addr -> VLChunk]
      /\ p[1] \in Addr
  BY DEF MemType, ItemAddr
<1>2. /\ a.lchunk = m.lchunk
      /\ a.vlchunk = [m.vlchunk EXCEPT ![p[1]].bitmap = @ \ {p[2]}]
      /\ a.free = m.free
      /\ a.used = m.used
      /\ a.v = m.v
      /\ a = [lchunk |-> a.lchunk, vlchunk |-> a.vlchunk, free |-> a.free,
              used |-> a.used, v |-> a.v]
  BY DEF ClearBit
<1> HIDE DEF a
<1>3. /\ [m.vlchunk[p[1]] EXCEPT !.bitmap = @ \ {p[2]}] \in VLChunk
      /\ [m.vlchunk[p[1]] EXCEPT !.bitmap = @ \ {p[2]}].count
           = m.vlchunk[p[1]].count
  BY <1>1 DEF VLChunk
<1>4. /\ a.vlchunk \in [Addr -> VLChunk]
      /\ a.vlchunk[m.v.tail].count = m.vlchunk[m.v.tail].count
  BY <1>1, <1>2, <1>3
<1>5. a \in MemType
  BY <1>2, <1>4 DEF MemType
<1> QED
  BY <1>2, <1>4, <1>5 DEF a, TailFull

----------------------------------------------------------------------------
(* The invariant holds at the start. *)

LEMMA MemTyped ==
  ASSUME TypeOK, NEW v \in VLogType
  PROVE  /\ Mem(v) \in MemType
         /\ Mem(v).free = free
         /\ Mem(v).used = used
         /\ Mem(v).vlchunk = vlchunk
         /\ Mem(v).v = v
  BY DEF TypeOK, Mem, MemType

LEMMA InitInv == ASSUME Init PROVE IndInv
<1> DEFINE m == [lchunk |-> [c \in Addr |-> NewLChunk(0)],
                 vlchunk |-> [c \in Addr |-> NewVLChunk(0)],
                 free |-> <<>>, used |-> 1,
                 v |-> [BlankVLog EXCEPT !.global_lchunk_id = 1]]
           r == NewLog(m)
<1>1. /\ lchunk = r.lchunk
      /\ vlchunk = r.vlchunk
      /\ free = r.free
      /\ used = r.used
      /\ head = [alt |-> 0, root |-> <<1, Null>>]
      /\ vlog = r.v
      /\ new = BlankVLog
      /\ gc = Idle
      /\ logOf = [o \in Objs |-> NoItem]
      /\ live = {}
      /\ passes = [slow |-> 0, fast |-> 0]
      /\ status = "run"
  BY DEF Init
<1>2. /\ m \in MemType
      /\ m.free = <<>>
      /\ m.used = 1
      /\ m.v.log = 0
      /\ m.v.tree = {}
      /\ m.v.num_of_chunks = 0
  <2>1. /\ [c \in Addr |-> NewLChunk(0)] \in [Addr -> LChunk]
        /\ [c \in Addr |-> NewVLChunk(0)] \in [Addr -> VLChunk]
    BY BlankTypes
  <2>2. /\ [BlankVLog EXCEPT !.global_lchunk_id = 1] \in VLogType
        /\ [BlankVLog EXCEPT !.global_lchunk_id = 1].log = 0
        /\ [BlankVLog EXCEPT !.global_lchunk_id = 1].tree = {}
        /\ [BlankVLog EXCEPT !.global_lchunk_id = 1].num_of_chunks = 0
    BY SizesAssumption, PolicyAssumption DEF BlankVLog, VLogType, Null
  <2>3. 1 \in Addr /\ <<>> \in Seq(Addr)
    BY SizesAssumption DEF Addr
  <2> QED
    BY <2>1, <2>2, <2>3 DEF MemType
<1> HIDE DEF m
<1>3. CanAlloc(m, 2)
  <2>1. Len(m.free) = 0
    BY <1>2
  <2> QED
    BY <1>2, <2>1, SizesAssumption DEF CanAlloc
<1>4. Shared(m.free, {}, m.used)
  BY <1>2, NoElems DEF Shared
<1>5. NextChunk(m) = 1
  BY <1>2 DEF NextChunk
<1>6. /\ r \in MemType
      /\ r.v.log = 0
      /\ r.v.tail \in r.v.tree
      /\ 1 \in Addr
      /\ 1 \notin r.v.tree
      /\ Shared(r.free, ({} \cup {1}) \cup r.v.tree, r.used)
      /\ r.v.num_of_chunks = Cardinality(r.v.tree) + 1
  BY <1>2, <1>3, <1>4, <1>5, NewLogOK
<1> HIDE DEF r
<1>7. TypeOK
  <2>1. /\ lchunk \in [Addr -> LChunk]
        /\ vlchunk \in [Addr -> VLChunk]
        /\ free \in Seq(Addr)
        /\ used \in Addr
        /\ vlog \in VLogType
    BY <1>1, <1>6 DEF MemType
  <2>2. head \in [alt : {0, 1}, root : [1 .. 2 -> Addr \cup {Null}]]
    <3>1. <<1, Null>> \in [1 .. 2 -> Addr \cup {Null}]
      BY <1>6
    <3> QED
      BY <1>1, <3>1
  <2>3. new \in VLogType
    BY <1>1, BlankTypes
  <2>4. gc \in GCType
    BY <1>1 DEF Idle, GCType
  <2>5. logOf \in [Objs -> ItemAddr \cup {NoItem}] /\ live \subseteq Objs
    BY <1>1
  <2>6. passes \in [slow : Nat, fast : Nat]
    BY <1>1
  <2>7. status \in Status
    BY <1>1 DEF Status
  <2> QED
    BY <2>1, <2>2, <2>3, <2>4, <2>5, <2>6, <2>7 DEF TypeOK
<1>8. Root(vlog.log) = 1 /\ gc.phase = "idle"
  BY <1>1, <1>6 DEF Root, Idle
<1>9. ChunksPartitioned
  <2>1. Held = {}
    BY <1>8 DEF Held
  <2>2. ({} \cup {1}) \cup r.v.tree = InUse \cup Held
    BY <1>1, <1>8, <2>1 DEF InUse
  <2> QED
    BY <1>1, <1>6, <1>8, <2>1, <2>2 DEF ChunksPartitioned
<1>10. TailInTree /\ HandleOfHeader /\ ChunksCounted
  BY <1>1, <1>6, <1>8 DEF TailInTree, HandleOfHeader, ChunksCounted
<1>11. NewLogWellFormed /\ OldRootApart /\ FastListEmptyChunks
  BY <1>8 DEF NewLogWellFormed, OldRootApart, FastListEmptyChunks
<1> QED
  BY <1>7, <1>9, <1>10, <1>11 DEF IndInv

----------------------------------------------------------------------------
(* add_log keeps the invariant. *)

(* What add_log does to the chunks, before it stores its item. *)
LEMMA ReadyOK ==
  ASSUME IndInv, Ready
  PROVE  /\ Extend(Mem(vlog)) \in MemType
         /\ ~TailFull(Extend(Mem(vlog)))
         /\ Extend(Mem(vlog)).v.tail \in Addr
         /\ Extend(Mem(vlog)).v.tail \in Extend(Mem(vlog)).v.tree
         /\ Extend(Mem(vlog)).v.log = vlog.log
         /\ Extend(Mem(vlog)).v.num_of_chunks
              = Cardinality(Extend(Mem(vlog)).v.tree) + 1
         /\ Root(vlog.log) \notin Extend(Mem(vlog)).v.tree
         /\ Shared(Extend(Mem(vlog)).free,
                   Extend(Mem(vlog)).v.tree \cup {Root(vlog.log)},
                   Extend(Mem(vlog)).used)
<1> DEFINE w == Mem(vlog)
           m == Extend(w)
<1>1. TypeOK /\ vlog \in VLogType /\ gc.phase = "idle"
  BY DEF IndInv, TypeOK, Ready
<1>2. w \in MemType /\ w.free = free /\ w.used = used /\ w.v = vlog
  BY <1>1, MemTyped
<1>3. TailFull(w) => CanAlloc(w, 1)
  BY DEF Ready
<1>4. /\ Shared(free, InUse, used)
      /\ Root(vlog.log) \notin vlog.tree
  <2>1. Held = {} /\ InUse \cup {} = InUse
    BY <1>1 DEF Held
  <2> QED
    BY <2>1 DEF IndInv, ChunksPartitioned
<1>5. vlog.tail \in vlog.tree /\ vlog.tail \in Addr /\ vlog.tree \subseteq InUse
  BY <1>1 DEF IndInv, TailInTree, VLogType, InUse
<1>6. vlog.num_of_chunks = Cardinality(vlog.tree) + 1
  BY DEF IndInv, ChunksCounted
<1> HIDE DEF w
<1>7. /\ m \in MemType
      /\ ~TailFull(m)
      /\ m.v.tail \in Addr
      /\ m.v.tail \in m.v.tree
      /\ m.v.log = vlog.log
      /\ m.v.num_of_chunks = Cardinality(m.v.tree) + 1
      /\ \E added \in SUBSET Addr :
           /\ added \cap InUse = {}
           /\ m.v.tree = vlog.tree \cup added
           /\ Shared(m.free, InUse \cup added, m.used)
  BY <1>2, <1>3, <1>4, <1>5, <1>6, ExtendOK
<1>8. PICK added \in SUBSET Addr :
           /\ added \cap InUse = {}
           /\ m.v.tree = vlog.tree \cup added
           /\ Shared(m.free, InUse \cup added, m.used)
  BY <1>7
<1>9. /\ InUse \cup added = m.v.tree \cup {Root(vlog.log)}
      /\ Root(vlog.log) \notin m.v.tree
  BY <1>4, <1>8 DEF InUse
<1>10. Shared(m.free, m.v.tree \cup {Root(vlog.log)}, m.used)
  BY <1>8, <1>9
<1> QED
  BY <1>7, <1>9, <1>10 DEF w

(* The parts of the invariant that an add_log keeps by what it does to the
   chunks, whatever item it stores and whatever collection it starts. *)
LEMMA AddLogKeeps ==
  ASSUME IndInv, Ready, NEW s \in MemType, Write(s),
         s.free = Extend(Mem(vlog)).free,
         s.used = Extend(Mem(vlog)).used,
         vlog'.log = Extend(Mem(vlog)).v.log,
         vlog'.tree = Extend(Mem(vlog)).v.tree,
         vlog'.tail = Extend(Mem(vlog)).v.tail,
         vlog'.num_of_chunks = Extend(Mem(vlog)).v.num_of_chunks,
         UNCHANGED head,
         gc'.phase \in {"idle", "slow_begin", "fast_scan"}
  PROVE  /\ lchunk' \in [Addr -> LChunk]
         /\ vlchunk' \in [Addr -> VLChunk]
         /\ free' \in Seq(Addr)
         /\ used' \in Addr
         /\ ChunksPartitioned'
         /\ TailInTree'
         /\ HandleOfHeader'
         /\ NewLogWellFormed'
         /\ OldRootApart'
         /\ ChunksCounted'
<1> DEFINE m == Extend(Mem(vlog))
<1>1. /\ m.v.tail \in m.v.tree
      /\ m.v.log = vlog.log
      /\ m.v.num_of_chunks = Cardinality(m.v.tree) + 1
      /\ Root(vlog.log) \notin m.v.tree
      /\ Shared(m.free, m.v.tree \cup {Root(vlog.log)}, m.used)
  BY ReadyOK
<1>2. /\ lchunk' \in [Addr -> LChunk]
      /\ vlchunk' \in [Addr -> VLChunk]
      /\ free' \in Seq(Addr)
      /\ used' \in Addr
  BY DEF Write, MemType
<1>3. free' = m.free /\ used' = m.used
  BY DEF Write
<1> HIDE DEF m
<1>4. Root(vlog.log)' = Root(vlog.log)
  BY <1>1 DEF Root, m
<1>5. Held' = {}
  BY DEF Held
<1>6. InUse' = m.v.tree \cup {Root(vlog.log)}
  BY <1>4 DEF InUse, m
<1>7. ChunksPartitioned'
  <2>1. (InUse \cup Held)' = m.v.tree \cup {Root(vlog.log)}
    BY <1>5, <1>6
  <2>2. Root(vlog.log)' \notin vlog'.tree
    BY <1>1, <1>4 DEF m
  <2>3. Shared(free', (InUse \cup Held)', used')
    BY <1>1, <1>3, <2>1
  <2> QED
    BY <1>5, <2>2, <2>3 DEF ChunksPartitioned, Shared, Distinct, Elems
<1>8. TailInTree' /\ NewLogWellFormed' /\ OldRootApart'
  BY <1>1 DEF TailInTree, NewLogWellFormed, OldRootApart, m
<1>9. HandleOfHeader' /\ ChunksCounted'
  BY <1>1 DEF HandleOfHeader, ChunksCounted, IndInv, m
<1> QED
  BY <1>2, <1>7, <1>8, <1>9

LEMMA ObjItemType == ASSUME NEW o \in Objs PROVE ObjItem(o) \in Item
<1>1. SizeOf[o] \in Nat /\ SizeOf[o] + 1 \in Nat /\ FieldRange \in Nat \ {0}
  BY SizesAssumption
<1>2. (IF o \in Slabs THEN SizeOf[o] + 1 ELSE SizeOf[o]) % FieldRange
        \in 0 .. (FieldRange - 1)
  BY <1>1
<1> QED
  BY <1>2 DEF ObjItem, Item, ItemType

LEMMA FreeItemType ==
  ASSUME NEW a \in ItemAddr, NEW n \in Nat
  PROVE  FreeItem(a, n) \in Item /\ FreeItem(a, n).type = "FREE_LOG"
<1>1. n % FieldRange \in 0 .. (FieldRange - 1)
  BY SizesAssumption
<1> QED
  BY <1>1 DEF FreeItem, Item, ItemType

LEMMA CountedType ==
  ASSUME NEW v \in VLogType
  PROVE  /\ Counted(v) \in VLogType
         /\ Counted(v).log = v.log
         /\ Counted(v).tree = v.tree
         /\ Counted(v).tail = v.tail
         /\ Counted(v).num_of_chunks = v.num_of_chunks
<1>1. (v.num_of_items + 1) % WordRange \in 0 .. (WordRange - 1)
  BY SizesAssumption DEF VLogType
<1> QED
  BY <1>1 DEF Counted, VLogType

LEMMA TickedType ==
  ASSUME NEW v \in VLogType
  PROVE  /\ Ticked(v) \in VLogType
         /\ Ticked(v).log = v.log
         /\ Ticked(v).tree = v.tree
         /\ Ticked(v).tail = v.tail
         /\ Ticked(v).num_of_chunks = v.num_of_chunks
<1>1. (IF v.gc_timer = GCPeriod THEN v.gc_timer
       ELSE (v.gc_timer + 1) % GCPeriod) \in 0 .. GCPeriod
  BY PolicyAssumption DEF VLogType
<1> QED
  BY <1>1 DEF Ticked, VLogType

LEMMA LogAllocInv ==
  ASSUME IndInv, NEW o \in Objs, LogAlloc(o)
  PROVE  IndInv'
<1> DEFINE m == Extend(Mem(vlog))
           s == Store(m, Place(m), ObjItem(o))
<1>1. /\ Ready
      /\ gc.phase = "idle"
      /\ Write(s)
      /\ vlog' = Counted(s.v)
      /\ logOf' = [logOf EXCEPT ![o] = Place(m)]
      /\ live' = live \cup {o}
      /\ UNCHANGED <<head, new, gc, passes, status>>
  BY DEF LogAlloc, Ready
<1>2. m \in MemType /\ ~TailFull(m) /\ m.v.tail \in Addr
  BY <1>1, ReadyOK
<1> HIDE DEF m
<1>3. Place(m) \in ItemAddr
  BY <1>2, PlaceOK
<1>4. s \in MemType /\ s.free = m.free /\ s.used = m.used /\ s.v = m.v
  BY <1>2, <1>3, ObjItemType, StoreOK
<1> HIDE DEF s
<1>5. m.v \in VLogType
  BY <1>2 DEF MemType
<1>6. /\ vlog' \in VLogType
      /\ vlog'.log = m.v.log
      /\ vlog'.tree = m.v.tree
      /\ vlog'.tail = m.v.tail
      /\ vlog'.num_of_chunks = m.v.num_of_chunks
  BY <1>1, <1>4, <1>5, CountedType
<1>7. /\ lchunk' \in [Addr -> LChunk]
      /\ vlchunk' \in [Addr -> VLChunk]
      /\ free' \in Seq(Addr)
      /\ used' \in Addr
      /\ ChunksPartitioned'
      /\ TailInTree'
      /\ HandleOfHeader'
      /\ NewLogWellFormed'
      /\ OldRootApart'
      /\ ChunksCounted'
  <2>1. gc'.phase \in {"idle", "slow_begin", "fast_scan"}
    BY <1>1
  <2> QED
    BY <1>1, <1>4, <1>6, <2>1, AddLogKeeps DEF m
<1>8. TypeOK'
  <2>1. logOf' \in [Objs -> ItemAddr \cup {NoItem}]
    BY <1>1, <1>3 DEF IndInv, TypeOK
  <2> QED
    BY <1>1, <1>6, <1>7, <2>1 DEF IndInv, TypeOK
<1>9. FastListEmptyChunks'
  BY <1>1 DEF FastListEmptyChunks
<1> QED
  BY <1>7, <1>8, <1>9 DEF IndInv

LEMMA LogFreeInv ==
  ASSUME IndInv, NEW o \in Objs, LogFree(o)
  PROVE  IndInv'
<1> DEFINE m == Extend(Mem(vlog))
           a == logOf[o]
           n == ClearBit(m, a)
           item == FreeItem(a, n.vlchunk[a[1]].id)
           s == Store(n, Place(n), item)
<1>1. /\ Ready
      /\ a[1] \in m.v.tree
      /\ Write(s)
      /\ vlog' = Ticked(s.v)
      /\ Decide(s.v)
      /\ live' = live \ {o}
      /\ UNCHANGED <<head, new, logOf, status>>
  BY DEF LogFree
<1>2. m \in MemType /\ ~TailFull(m) /\ m.v.tail \in Addr
  BY <1>1, ReadyOK
<1> HIDE DEF m
<1>3. m.v \in VLogType
  BY <1>2 DEF MemType
<1>4. a \in ItemAddr
  <2>1. a \in ItemAddr \cup {NoItem}
    BY DEF IndInv, TypeOK
  <2>2. a[1] \in Addr
    BY <1>1, <1>3 DEF VLogType
  <2>3. a # NoItem
    BY <2>2, BlankTypes DEF NoItem
  <2> QED
    BY <2>1, <2>3
<1> HIDE DEF a
<1>5. /\ n \in MemType
      /\ n.free = m.free
      /\ n.used = m.used
      /\ n.v = m.v
      /\ ~TailFull(n)
  BY <1>2, <1>4, ClearBitOK
<1> HIDE DEF n
<1>6. Place(n) \in ItemAddr /\ Place(n)[1] = m.v.tail
  BY <1>2, <1>5, PlaceOK
<1>7. item \in Item
  <2>1. n.vlchunk[a[1]].id \in Nat
    BY <1>4, <1>5 DEF MemType, VLChunk, ItemAddr
  <2> QED
    BY <1>4, <2>1, FreeItemType
<1> HIDE DEF item
<1>8. /\ s \in MemType
      /\ s.free = m.free
      /\ s.used = m.used
      /\ s.v = m.v
      /\ Place(n)[2] \in s.vlchunk[m.v.tail].bitmap
  BY <1>5, <1>6, <1>7, StoreOK
<1> HIDE DEF s
<1>9. /\ vlog' \in VLogType
      /\ vlog'.log = m.v.log
      /\ vlog'.tree = m.v.tree
      /\ vlog'.tail = m.v.tail
      /\ vlog'.num_of_chunks = m.v.num_of_chunks
  BY <1>1, <1>3, <1>8, TickedType
<1>10. /\ gc'.phase \in {"idle", "slow_begin", "fast_scan"}
       /\ gc' \in GCType
       /\ gc'.list = <<>>
       /\ gc'.todo \subseteq m.v.tree
       /\ gc'.cursor = Null
       /\ passes' \in [slow : Nat, fast : Nat]
  <2>1. /\ Idle \in GCType
        /\ m.v.tree \in SUBSET Addr
        /\ passes \in [slow : Nat, fast : Nat]
    <3>1. Idle \in GCType
      BY DEF Idle, GCType
    <3>2. m.v.tree \in SUBSET Addr
      BY <1>3 DEF VLogType
    <3>3. passes \in [slow : Nat, fast : Nat]
      BY DEF IndInv, TypeOK
    <3>4. QED
      BY <3>1, <3>2, <3>3
  <2>2. CASE gc' = Idle /\ passes' = passes
    BY <2>1, <2>2 DEF Idle
  <2>3. CASE /\ gc' = [Idle EXCEPT !.phase = "slow_begin"]
             /\ passes' = [passes EXCEPT !.slow = @ + 1]
    <3>1. passes' \in [slow : Nat, fast : Nat]
      BY <2>1, <2>3
    <3>2. gc' = [phase |-> "slow_begin", todo |-> {}, cursor |-> Null,
                 bits |-> {}, list |-> <<>>]
      BY <2>3 DEF Idle
    <3>3. gc' \in GCType
      BY <3>2 DEF GCType
    <3> QED
      BY <3>1, <3>2, <3>3
  <2>4. CASE /\ gc' = [Idle EXCEPT !.phase = "fast_scan", !.todo = s.v.tree]
             /\ passes' = [passes EXCEPT !.fast = @ + 1]
    <3>1. passes' \in [slow : Nat, fast : Nat]
      BY <2>1, <2>4
    <3>2. gc' = [phase |-> "fast_scan", todo |-> m.v.tree, cursor |-> Null,
                 bits |-> {}, list |-> <<>>]
      BY <1>8, <2>4 DEF Idle
    <3>3. gc' \in GCType
      BY <2>1, <3>2 DEF GCType
    <3> QED
      BY <3>1, <3>2, <3>3
  <2> QED
    BY <1>1, <2>2, <2>3, <2>4 DEF Decide
<1>11. /\ lchunk' \in [Addr -> LChunk]
       /\ vlchunk' \in [Addr -> VLChunk]
       /\ free' \in Seq(Addr)
       /\ used' \in Addr
       /\ ChunksPartitioned'
       /\ TailInTree'
       /\ HandleOfHeader'
       /\ NewLogWellFormed'
       /\ OldRootApart'
       /\ ChunksCounted'
  BY <1>1, <1>8, <1>9, <1>10, AddLogKeeps DEF m
<1>12. TypeOK'
  BY <1>1, <1>9, <1>10, <1>11 DEF IndInv, TypeOK
<1>13. FastListEmptyChunks'
  <2>1. ~bitmap_empty(vlog.tail)'
    BY <1>1, <1>8, <1>9 DEF Write, bitmap_empty
  <2>2. /\ Elems(gc.list)' = {}
        /\ Distinct(gc.list)'
    BY <1>10, NoElems DEF Elems, Distinct
  <2>3. gc'.cursor \notin gc'.todo
    BY <1>3, <1>10, BlankTypes DEF VLogType
  <2> QED
    BY <1>9, <1>10, <2>1, <2>2, <2>3 DEF FastListEmptyChunks
<1> QED
  BY <1>11, <1>12, <1>13 DEF IndInv

----------------------------------------------------------------------------
(* The collectors keep the invariant. *)

(* Every chunk somebody holds is a chunk of the file. *)
LEMMA HeldInAddr ==
  ASSUME IndInv
  PROVE  /\ InUse \subseteq Addr
         /\ Held \subseteq Addr
         /\ Root(vlog.log) \in Addr
         /\ InUse \cap Held = {}
         /\ Shared(free, InUse \cup Held, used)
<1>1. Shared(free, InUse \cup Held, used) /\ InUse \cap Held = {}
  BY DEF IndInv, ChunksPartitioned
<1>2. used \in Addr
  BY DEF IndInv, TypeOK
<1>3. 1 .. (used - 1) \subseteq Addr
  BY <1>2, SizesAssumption DEF Addr
<1>4. InUse \cup Held \subseteq 1 .. (used - 1)
  BY <1>1 DEF Shared
<1> QED
  BY <1>1, <1>3, <1>4 DEF InUse

LEMMA VisitType ==
  ASSUME TypeOK, NEW c \in Addr \cup {Null}
  PROVE  Visit(c) \in GCType /\ Visit(c).phase = "slow_walk"
<1> DEFINE b == IF c \in vlog.tree THEN vlchunk[c].bitmap ELSE {}
<1>1. gc \in GCType
  BY DEF TypeOK
<1>2. b \in SUBSET Slot
  BY DEF TypeOK, VLogType, VLChunk
<1>3. Visit(c) = [gc EXCEPT !.phase = "slow_walk", !.cursor = c, !.bits = b]
  BY DEF Visit
<1> HIDE DEF b
<1>4. gc = [phase |-> gc.phase, todo |-> gc.todo, cursor |-> gc.cursor,
            bits |-> gc.bits, list |-> gc.list]
  BY <1>1 DEF GCType
<1>5. gc.todo \in SUBSET Addr /\ gc.list \in Seq(Addr)
  BY <1>1 DEF GCType
<1>6. Visit(c) = [phase |-> "slow_walk", todo |-> gc.todo, cursor |-> c,
                  bits |-> b, list |-> gc.list]
  BY <1>3, <1>4
<1> QED
  BY <1>2, <1>5, <1>6 DEF GCType

(* The parts of the invariant that depend on the chunks' owners only. *)
LEMMA OwnersKept ==
  ASSUME IndInv, UNCHANGED <<free, used, head, vlog, new>>,
         Held' = Held,
         gc'.phase = "slow_walk" => gc.phase = "slow_walk"
  PROVE  /\ ChunksPartitioned'
         /\ TailInTree'
         /\ HandleOfHeader'
         /\ NewLogWellFormed'
         /\ ChunksCounted'
<1>1. InUse' = InUse /\ Root(new.log)' = Root(new.log)
      /\ Root(vlog.log)' = Root(vlog.log)
  BY DEF InUse, Root
<1>2. ChunksPartitioned'
  BY <1>1 DEF IndInv, ChunksPartitioned, Shared, Distinct, Elems
<1>3. TailInTree' /\ HandleOfHeader' /\ NewLogWellFormed' /\ ChunksCounted'
  BY <1>1 DEF IndInv, TailInTree, HandleOfHeader, NewLogWellFormed,
              ChunksCounted
<1> QED
  BY <1>2, <1>3

LEMMA NewHandleType ==
  ASSUME NEW l \in {0, 1}, NEW t \in 0 .. GCPeriod
  PROVE  /\ NewHandle(l, t) \in VLogType
         /\ NewHandle(l, t).log = l
         /\ NewHandle(l, t).tree = {}
         /\ NewHandle(l, t).num_of_chunks = 0
<1>1. NewHandle(l, t) = [log |-> l, gc_timer |-> t, tree |-> {}, tail |-> Null,
                         global_lchunk_id |-> 0, num_of_chunks |-> 0,
                         num_of_items |-> 0]
  <2>1. NewHandle(l, t)
          = [[BlankVLog EXCEPT !.log = l] EXCEPT !.gc_timer = t]
    BY DEF NewHandle
  <2>2. [BlankVLog EXCEPT !.log = l]
          = [log |-> l, gc_timer |-> 0, tree |-> {}, tail |-> Null,
             global_lchunk_id |-> 0, num_of_chunks |-> 0, num_of_items |-> 0]
    BY DEF BlankVLog
  <2> QED
    BY <2>1, <2>2
<1>2. 0 \in 0 .. (WordRange - 1) /\ 0 \in Nat
  BY SizesAssumption
<1> QED
  BY <1>1, <1>2 DEF VLogType

LEMMA SlowBeginInv ==
  ASSUME IndInv, SlowBegin
  PROVE  IndInv'
<1>1. /\ gc.phase = "slow_begin"
      /\ CanAlloc(Mem(vlog), 2)
      /\ gc' = Visit(lchunk[Root(vlog.log)].next)
      /\ UNCHANGED <<vlog, owners, passes, status>>
  BY DEF SlowBegin
<1> DEFINE l == 1 - head.alt
<1>2. PICK t \in 0 .. GCPeriod :
        /\ Write(NewLog(Mem(NewHandle(l, t))))
        /\ new' = NewLog(Mem(NewHandle(l, t))).v
        /\ head' = NewHead(l, NextChunk(Mem(vlog)))
  BY DEF SlowBegin
<1> DEFINE w == Mem(NewHandle(l, t))
           m == NewLog(w)
           r == NextChunk(w)
<1>3. TypeOK /\ head.alt \in {0, 1} /\ vlog.log = head.alt /\ l \in {0, 1}
  BY DEF IndInv, TypeOK, HandleOfHeader
<1>4. /\ NewHandle(l, t) \in VLogType
      /\ NewHandle(l, t).log = l
      /\ NewHandle(l, t).tree = {}
      /\ NewHandle(l, t).num_of_chunks = 0
  BY <1>3, NewHandleType
<1>5. w \in MemType /\ w.free = free /\ w.used = used /\ w.v = NewHandle(l, t)
  BY <1>3, <1>4, MemTyped
<1>6. CanAlloc(w, 2) /\ NextChunk(Mem(vlog)) = r
  BY <1>1 DEF CanAlloc, NextChunk, Mem
<1>7. /\ InUse \subseteq Addr
      /\ Root(vlog.log) \in Addr
      /\ Shared(free, InUse, used)
  <2>1. Held = {} /\ InUse \cup {} = InUse
    BY <1>1 DEF Held
  <2> QED
    BY <2>1, HeldInAddr
<1> HIDE DEF w
<1>8. /\ m \in MemType
      /\ m.v.log = l
      /\ m.v.tail \in m.v.tree
      /\ r \in Addr
      /\ r \notin InUse
      /\ r \notin m.v.tree
      /\ m.v.tree \cap InUse = {}
      /\ Shared(m.free, (InUse \cup {r}) \cup m.v.tree, m.used)
      /\ m.v.num_of_chunks = Cardinality(m.v.tree) + 1
  BY <1>4, <1>5, <1>6, <1>7, NewLogOK
<1>9. /\ lchunk' = m.lchunk
      /\ vlchunk' = m.vlchunk
      /\ free' = m.free
      /\ used' = m.used
      /\ new' = m.v
      /\ head' = [head EXCEPT !.root[l + 1] = r]
  BY <1>2, <1>6 DEF Write, NewHead, w
<1> HIDE DEF m, r
<1>10. /\ head' \in [alt : {0, 1}, root : [1 .. 2 -> Addr \cup {Null}]]
       /\ head'.alt = head.alt
       /\ head'.root[head.alt + 1] = head.root[head.alt + 1]
       /\ head'.root[l + 1] = r
  <2>1. head \in [alt : {0, 1}, root : [1 .. 2 -> Addr \cup {Null}]]
    BY <1>3 DEF TypeOK
  <2>2. [head.root EXCEPT ![l + 1] = r] \in [1 .. 2 -> Addr \cup {Null}]
    BY <1>3, <1>8, <2>1
  <2>3. head' = [alt |-> head.alt, root |-> [head.root EXCEPT ![l + 1] = r]]
    BY <1>9, <2>1
  <2>4. l + 1 \in 1 .. 2 /\ head.alt + 1 \in 1 .. 2 /\ l + 1 # head.alt + 1
    BY <1>3
  <2> QED
    BY <2>1, <2>2, <2>3, <2>4
<1>11. gc' \in GCType /\ gc'.phase = "slow_walk"
  <2>1. lchunk[Root(vlog.log)].next \in Addr \cup {Null}
    BY <1>3, <1>7 DEF TypeOK, LChunk
  <2> QED
    BY <1>1, <1>3, <2>1, VisitType
<1>12. TypeOK'
  BY <1>1, <1>8, <1>9, <1>10, <1>11 DEF IndInv, TypeOK, MemType, owners
<1>13. /\ Root(vlog.log)' = Root(vlog.log)
       /\ Root(new.log)' = r
       /\ InUse' = InUse
       /\ Held' = m.v.tree \cup {r}
  BY <1>1, <1>3, <1>8, <1>9, <1>10, <1>11 DEF Root, InUse, Held
<1>14. ChunksPartitioned'
  <2>1. (InUse \cup Held)' = (InUse \cup {r}) \cup m.v.tree
    BY <1>13
  <2>2. Shared(free', (InUse \cup Held)', used')
    BY <1>8, <1>9, <2>1
  <2>3. (InUse \cap Held)' = {}
    BY <1>8, <1>13
  <2>4. Root(vlog.log)' \notin vlog'.tree
    BY <1>1, <1>13 DEF IndInv, ChunksPartitioned
  <2> QED
    BY <2>2, <2>3, <2>4 DEF ChunksPartitioned, Shared, Distinct, Elems
<1>15. TailInTree' /\ HandleOfHeader'
  BY <1>1, <1>3, <1>8, <1>9, <1>10 DEF IndInv, TailInTree, HandleOfHeader
<1>16. NewLogWellFormed' /\ ChunksCounted'
  BY <1>1, <1>8, <1>9, <1>13 DEF IndInv, NewLogWellFormed, ChunksCounted
<1>17. OldRootApart' /\ FastListEmptyChunks'
  BY <1>11 DEF OldRootApart, FastListEmptyChunks
<1> QED
  BY <1>12, <1>14, <1>15, <1>16, <1>17 DEF IndInv

LEMMA SlowCopyInv ==
  ASSUME IndInv, SlowCopy
  PROVE  IndInv'
<1>1. /\ gc.phase = "slow_walk"
      /\ gc.cursor \in vlog.tree
      /\ UNCHANGED <<head, vlog, live, passes, status>>
      /\ TypeOK
  BY DEF SlowCopy, IndInv
<1> DEFINE m == Extend(Mem(new))
           s(i) == Store(m, Place(m), Cursor(i))
<1>2. PICK i \in gc.bits :
        /\ gc' = [gc EXCEPT !.bits = @ \ {i}]
        /\ \/ UNCHANGED <<file, new, logOf>>
           \/ /\ TailFull(Mem(new)) => CanAlloc(Mem(new), 1)
              /\ Write(s(i))
              /\ new' = Counted(s(i).v)
              /\ logOf' = [logOf EXCEPT ![Cursor(i).ptr] = Place(m)]
  BY DEF SlowCopy
<1>3. gc' \in GCType /\ gc'.phase = "slow_walk"
  <2>1. gc \in GCType
    BY <1>1 DEF TypeOK
  <2> QED
    BY <1>1, <1>2, <2>1 DEF GCType
<1>4. OldRootApart' /\ FastListEmptyChunks'
  BY <1>3 DEF OldRootApart, FastListEmptyChunks
<1>5. CASE UNCHANGED <<file, new, logOf>>
  <2>1. UNCHANGED <<lchunk, vlchunk, free, used, new, logOf>>
    BY <1>5 DEF file
  <2>2. Held' = Held
    BY <1>1, <1>3, <2>1 DEF Held, Root
  <2>3. /\ ChunksPartitioned'
        /\ TailInTree'
        /\ HandleOfHeader'
        /\ NewLogWellFormed'
        /\ ChunksCounted'
    BY <1>1, <2>1, <2>2, OwnersKept
  <2>4. TypeOK'
    BY <1>1, <1>3, <2>1 DEF TypeOK
  <2> QED
    BY <1>4, <2>3, <2>4 DEF IndInv
<1>6. CASE /\ TailFull(Mem(new)) => CanAlloc(Mem(new), 1)
           /\ Write(s(i))
           /\ new' = Counted(s(i).v)
           /\ logOf' = [logOf EXCEPT ![Cursor(i).ptr] = Place(m)]
  <2> DEFINE w == Mem(new)
             owned == InUse \cup Held
             root == Root(new.log)
  <2>1. new \in VLogType /\ w \in MemType /\ w.free = free /\ w.used = used /\ w.v = new
    BY <1>1, MemTyped DEF TypeOK
  <2>2. Held = new.tree \cup {root}
    BY <1>1 DEF Held
  <2>3. /\ new.tail \in new.tree
        /\ new.tail \in Addr
        /\ new.tree \subseteq owned
        /\ root \notin new.tree
        /\ new.num_of_chunks = Cardinality(new.tree) + 1
        /\ new.log = 1 - head.alt
    BY <1>1, <2>1, <2>2 DEF IndInv, NewLogWellFormed, ChunksCounted, VLogType,
                            HandleOfHeader
  <2>4. Shared(free, owned, used) /\ InUse \cap Held = {}
    BY HeldInAddr
  <2>5. TailFull(w) => CanAlloc(w, 1)
    BY <1>6
  <2> HIDE DEF w, owned, root
  <2>6. /\ Extend(w) \in MemType
        /\ ~TailFull(Extend(w))
        /\ Extend(w).v.tail \in Addr
        /\ Extend(w).v.tail \in Extend(w).v.tree
        /\ Extend(w).v.log = new.log
        /\ Extend(w).v.num_of_chunks = Cardinality(Extend(w).v.tree) + 1
        /\ \E added \in SUBSET Addr :
             /\ added \cap owned = {}
             /\ Extend(w).v.tree = new.tree \cup added
             /\ Shared(Extend(w).free, owned \cup added, Extend(w).used)
    BY <2>1, <2>3, <2>4, <2>5, ExtendOK
  <2>7. m = Extend(w)
    BY DEF w
  <2>8. PICK added \in SUBSET Addr :
             /\ added \cap owned = {}
             /\ m.v.tree = new.tree \cup added
             /\ Shared(m.free, owned \cup added, m.used)
    BY <2>6, <2>7
  <2>9. /\ m \in MemType
        /\ ~TailFull(m)
        /\ m.v.tail \in Addr
        /\ m.v.tail \in m.v.tree
        /\ m.v.log = new.log
        /\ m.v.num_of_chunks = Cardinality(m.v.tree) + 1
    BY <2>6, <2>7
  <2> HIDE DEF m
  <2>10. Place(m) \in ItemAddr
    BY <2>9, PlaceOK
  <2>11. Cursor(i) \in Item
    <3>1. gc.cursor \in Addr /\ i \in Slot
      BY <1>1 DEF TypeOK, VLogType, GCType
    <3> QED
      BY <1>1, <3>1 DEF TypeOK, LChunk, Cursor
  <2> DEFINE z == s(i)
  <2>12. z \in MemType /\ z.free = m.free /\ z.used = m.used /\ z.v = m.v
    BY <2>9, <2>10, <2>11, StoreOK
  <2>13. Write(z) /\ new' = Counted(z.v)
    BY <1>6 DEF m
  <2> HIDE DEF z
  <2>14. /\ new' \in VLogType
         /\ new'.log = new.log
         /\ new'.tree = m.v.tree
         /\ new'.tail = m.v.tail
         /\ new'.num_of_chunks = m.v.num_of_chunks
    <3>1. m.v \in VLogType
      BY <2>9 DEF MemType
    <3> QED
      BY <2>9, <2>12, <2>13, <3>1, CountedType
  <2>15. /\ lchunk' \in [Addr -> LChunk]
         /\ vlchunk' \in [Addr -> VLChunk]
         /\ free' \in Seq(Addr)
         /\ used' \in Addr
         /\ free' = m.free
         /\ used' = m.used
    BY <2>12, <2>13 DEF Write, MemType
  <2>16. TypeOK'
    <3>1. logOf' \in [Objs -> ItemAddr \cup {NoItem}]
      BY <1>1, <1>6, <2>10 DEF TypeOK, m
    <3> QED
      BY <1>1, <1>3, <2>14, <2>15, <3>1 DEF TypeOK
  <2>17. /\ Root(vlog.log)' = Root(vlog.log)
         /\ Root(new.log)' = root
         /\ InUse' = InUse
         /\ Held' = m.v.tree \cup {root}
    BY <1>1, <1>3, <2>14 DEF Root, InUse, Held, root
  <2>18. ChunksPartitioned'
    <3>1. (InUse \cup Held)' = owned \cup added
      BY <2>2, <2>8, <2>17 DEF owned
    <3>2. Shared(free', (InUse \cup Held)', used')
      BY <2>8, <2>15, <3>1
    <3>3. (InUse \cap Held)' = {}
      BY <2>2, <2>4, <2>8, <2>17 DEF owned
    <3>4. Root(vlog.log)' \notin vlog'.tree
      BY <1>1, <2>17 DEF IndInv, ChunksPartitioned
    <3> QED
      BY <3>2, <3>3, <3>4 DEF ChunksPartitioned, Shared, Distinct, Elems
  <2>19. NewLogWellFormed'
    <3>1. root \notin m.v.tree
      BY <2>2, <2>3, <2>8 DEF owned
    <3> QED
      BY <2>9, <2>14, <2>17, <3>1 DEF NewLogWellFormed
  <2>20. TailInTree' /\ HandleOfHeader' /\ ChunksCounted'
    BY <1>1, <2>3, <2>9, <2>14 DEF IndInv, TailInTree, HandleOfHeader,
                                   ChunksCounted
  <2> QED
    BY <1>4, <2>16, <2>18, <2>19, <2>20 DEF IndInv
<1> QED
  BY <1>2, <1>5, <1>6

LEMMA SlowNextChunkInv ==
  ASSUME IndInv, SlowNextChunk
  PROVE  IndInv'
<1>1. /\ gc.phase = "slow_walk"
      /\ gc.cursor \in vlog.tree
      /\ gc' = Visit(lchunk[gc.cursor].next)
      /\ UNCHANGED <<lchunk, vlchunk, free, used, head, vlog, new, logOf, live,
                     passes, status>>
      /\ TypeOK
  BY DEF SlowNextChunk, Following, file, owners, IndInv
<1>2. gc' \in GCType /\ gc'.phase = "slow_walk"
  <2>1. lchunk[gc.cursor].next \in Addr \cup {Null}
    BY <1>1 DEF TypeOK, LChunk, VLogType
  <2> QED
    BY <1>1, <2>1, VisitType
<1>3. Held' = Held
  BY <1>1, <1>2 DEF Held, Root
<1>4. /\ ChunksPartitioned'
      /\ TailInTree'
      /\ HandleOfHeader'
      /\ NewLogWellFormed'
      /\ ChunksCounted'
  BY <1>1, <1>3, OwnersKept
<1>5. OldRootApart' /\ FastListEmptyChunks'
  BY <1>2 DEF OldRootApart, FastListEmptyChunks
<1>6. TypeOK'
  BY <1>1, <1>2 DEF TypeOK
<1> QED
  BY <1>4, <1>5, <1>6 DEF IndInv

LEMMA SlowCommitInv ==
  ASSUME IndInv, SlowCommit
  PROVE  IndInv'
<1>1. /\ gc.phase = "slow_walk"
      /\ head' = [head EXCEPT !.alt = 1 - @]
      /\ vlog' = new
      /\ new' = BlankVLog
      /\ gc' = [Idle EXCEPT !.phase = "slow_destroy", !.todo = vlog.tree,
                            !.cursor = Root(vlog.log)]
      /\ UNCHANGED <<lchunk, vlchunk, free, used, logOf, live, passes, status>>
      /\ TypeOK
  BY DEF SlowCommit, file, owners, IndInv
<1>2. gc' = [phase |-> "slow_destroy", todo |-> vlog.tree,
             cursor |-> Root(vlog.log), bits |-> {}, list |-> <<>>]
  BY <1>1 DEF Idle
<1>3. Root(vlog.log) \in Addr /\ Shared(free, InUse \cup Held, used)
      /\ InUse \cap Held = {} /\ Root(vlog.log) \notin vlog.tree
  BY HeldInAddr DEF IndInv, ChunksPartitioned
<1>4. gc' \in GCType
  <2>1. vlog.tree \in SUBSET Addr /\ <<>> \in Seq(Addr) /\ {} \in SUBSET Slot
    BY <1>1 DEF TypeOK, VLogType
  <2> QED
    BY <1>2, <1>3, <2>1 DEF GCType
<1>5. /\ head' \in [alt : {0, 1}, root : [1 .. 2 -> Addr \cup {Null}]]
      /\ head'.alt = 1 - head.alt
      /\ head'.root = head.root
  BY <1>1 DEF TypeOK
<1>6. TypeOK'
  BY <1>1, <1>4, <1>5, BlankTypes DEF TypeOK
<1>7. /\ InUse = vlog.tree \cup {Root(vlog.log)}
      /\ Held = new.tree \cup {Root(new.log)}
  BY <1>1 DEF InUse, Held
<1>8. Root(vlog.log)' = Root(new.log)
  BY <1>1, <1>5 DEF Root
<1>9. InUse' = Held /\ Held' = InUse
  BY <1>1, <1>2, <1>7, <1>8 DEF InUse, Held
<1>10. /\ Root(new.log) \notin new.tree
       /\ new.tail \in new.tree
       /\ new.num_of_chunks = Cardinality(new.tree) + 1
       /\ new.log = 1 - head.alt
  BY <1>1 DEF IndInv, NewLogWellFormed, ChunksCounted, HandleOfHeader
<1>11. ChunksPartitioned'
  <2>1. (InUse \cup Held)' = InUse \cup Held
    BY <1>9
  <2>2. Shared(free', (InUse \cup Held)', used')
    BY <1>1, <1>3, <2>1
  <2>3. (InUse \cap Held)' = {} /\ Root(vlog.log)' \notin vlog'.tree
    BY <1>1, <1>3, <1>8, <1>9, <1>10
  <2> QED
    BY <2>2, <2>3 DEF ChunksPartitioned, Shared, Distinct, Elems
<1>12. TailInTree' /\ HandleOfHeader' /\ ChunksCounted' /\ NewLogWellFormed'
  BY <1>1, <1>2, <1>5, <1>10 DEF TailInTree, HandleOfHeader, ChunksCounted,
                                 NewLogWellFormed
<1>13. OldRootApart' /\ FastListEmptyChunks'
  BY <1>2, <1>3 DEF OldRootApart, FastListEmptyChunks
<1> QED
  BY <1>6, <1>11, <1>12, <1>13 DEF IndInv

(* A collector gives the chunk c, which it holds, to the free list. *)
LEMMA HeldFreed ==
  ASSUME IndInv, NEW c \in Held,
         UNCHANGED <<used, head, vlog, new>>,
         free' = Append(free, c),
         Held' = Held \ {c},
         gc'.phase # "slow_walk"
  PROVE  /\ free' \in Seq(Addr)
         /\ ChunksPartitioned'
         /\ TailInTree'
         /\ HandleOfHeader'
         /\ NewLogWellFormed'
         /\ ChunksCounted'
<1>1. InUse' = InUse /\ Root(vlog.log)' = Root(vlog.log)
  BY DEF InUse, Root
<1>2. c \in Addr /\ c \notin InUse
      /\ InUse \cap Held = {} /\ Shared(free, InUse \cup Held, used)
      /\ Root(vlog.log) \notin vlog.tree
  BY HeldInAddr DEF IndInv, ChunksPartitioned
<1> DEFINE owned == InUse \cup Held
           left == InUse \cup (Held \ {c})
<1>3. left = owned \ {c} /\ c \in owned
  BY <1>2
<1>4. free \in Seq(Addr) /\ Shared(free, owned, used)
  BY <1>2 DEF IndInv, TypeOK
<1>5. (InUse \cup Held)' = left
  BY <1>1
<1> HIDE DEF owned, left
<1>6. Append(free, c) \in Seq(Addr) /\ Shared(Append(free, c), left, used)
  BY <1>2, <1>3, <1>4, FreeShared
<1>7. ChunksPartitioned'
  <2>1. Shared(free', (InUse \cup Held)', used')
    BY <1>5, <1>6
  <2>2. (InUse \cap Held)' = {} /\ Root(vlog.log)' \notin vlog'.tree
    BY <1>1, <1>2
  <2> QED
    BY <2>1, <2>2 DEF ChunksPartitioned, Shared, Distinct, Elems
<1>8. TailInTree' /\ HandleOfHeader' /\ ChunksCounted' /\ NewLogWellFormed'
  BY DEF IndInv, TailInTree, HandleOfHeader, ChunksCounted, NewLogWellFormed
<1> QED
  BY <1>6, <1>7, <1>8

LEMMA SlowDestroyInv ==
  ASSUME IndInv, SlowDestroy
  PROVE  IndInv'
<1>1. /\ gc.phase = "slow_destroy"
      /\ UNCHANGED <<lchunk, vlchunk, used, head, vlog, new, logOf, live,
                     passes, status>>
      /\ TypeOK
      /\ gc \in GCType
      /\ gc.cursor \notin gc.todo
  BY DEF SlowDestroy, owners, IndInv, TypeOK, OldRootApart
<1>2. Held = gc.todo \cup {gc.cursor}
  BY <1>1 DEF Held
<1>3. ASSUME NEW c \in gc.todo,
             free' = Append(free, c), gc' = [gc EXCEPT !.todo = @ \ {c}]
      PROVE  IndInv'
  <2>1. /\ gc' \in GCType
        /\ gc'.phase = "slow_destroy"
        /\ gc'.todo = gc.todo \ {c}
        /\ gc'.cursor = gc.cursor
    BY <1>1, <1>3 DEF GCType
  <2>2. Held' = Held \ {c}
    BY <1>1, <1>2, <1>3, <2>1 DEF Held
  <2>3. /\ free' \in Seq(Addr)
        /\ ChunksPartitioned'
        /\ TailInTree'
        /\ HandleOfHeader'
        /\ NewLogWellFormed'
        /\ ChunksCounted'
    <3>1. c \in Held /\ gc'.phase # "slow_walk"
      BY <1>2, <2>1
    <3> QED
      BY <1>1, <1>3, <2>2, <3>1, HeldFreed
  <2>4. OldRootApart' /\ FastListEmptyChunks'
    BY <1>1, <2>1 DEF OldRootApart, FastListEmptyChunks
  <2>5. TypeOK'
    BY <1>1, <2>1, <2>3 DEF TypeOK
  <2> QED
    BY <2>3, <2>4, <2>5 DEF IndInv
<1>4. CASE gc.todo = {} /\ free' = RootFreed /\ gc' = Idle
  <2>1. /\ gc' \in GCType
        /\ gc'.phase = "idle"
    BY <1>4 DEF Idle, GCType
  <2>2. Held' = Held \ {gc.cursor}
    BY <1>2, <1>4, <2>1 DEF Held
  <2>3. /\ free' \in Seq(Addr)
        /\ ChunksPartitioned'
        /\ TailInTree'
        /\ HandleOfHeader'
        /\ NewLogWellFormed'
        /\ ChunksCounted'
    <3>1. gc.cursor \in Held /\ gc'.phase # "slow_walk"
      BY <1>2, <2>1
    <3>2. free' = Append(free, gc.cursor)
      BY <1>4 DEF RootFreed
    <3> QED
      BY <1>1, <2>2, <3>1, <3>2, HeldFreed
  <2>4. OldRootApart' /\ FastListEmptyChunks'
    BY <2>1 DEF OldRootApart, FastListEmptyChunks
  <2>5. TypeOK'
    BY <1>1, <2>1, <2>3 DEF TypeOK
  <2> QED
    BY <2>3, <2>4, <2>5 DEF IndInv
<1> QED
  BY <1>3, <1>4 DEF SlowDestroy

LEMMA FastSkipInv ==
  ASSUME IndInv, NEW c \in Addr, FastSkip(c)
  PROVE  IndInv'
<1>1. /\ gc.phase = "fast_scan"
      /\ c \in gc.todo
      /\ gc' = [gc EXCEPT !.todo = @ \ {c}]
      /\ UNCHANGED <<lchunk, vlchunk, free, used, head, vlog, new, logOf, live,
                     passes, status>>
      /\ TypeOK
      /\ gc \in GCType
  BY DEF FastSkip, AtCursor, file, owners, IndInv, TypeOK
<1>2. /\ gc' \in GCType
      /\ gc'.phase = "fast_scan"
      /\ gc'.todo = gc.todo \ {c}
      /\ gc'.list = gc.list
      /\ gc'.cursor = gc.cursor
  BY <1>1 DEF GCType
<1>3. Held' = Held
  BY <1>1, <1>2 DEF Held
<1>4. /\ ChunksPartitioned'
      /\ TailInTree'
      /\ HandleOfHeader'
      /\ NewLogWellFormed'
      /\ ChunksCounted'
  BY <1>1, <1>2, <1>3, OwnersKept
<1>5. OldRootApart'
  BY <1>2 DEF OldRootApart
<1>6. FastListEmptyChunks'
  BY <1>1, <1>2 DEF IndInv, FastListEmptyChunks, bitmap_empty, Elems, Distinct
<1>7. TypeOK'
  BY <1>1, <1>2 DEF TypeOK
<1> QED
  BY <1>4, <1>5, <1>6, <1>7 DEF IndInv

LEMMA FastInvalidateInv ==
  ASSUME IndInv, NEW c \in Addr, FastInvalidate(c)
  PROVE  IndInv'
<1>1. /\ gc.phase = "fast_scan"
      /\ c \in gc.todo
      /\ bitmap_empty(c)
      /\ vlchunk' = [vlchunk EXCEPT ![c].id = 0]
      /\ lchunk' = [lchunk EXCEPT ![c].id = 0]
      /\ gc' = [gc EXCEPT !.cursor = c]
      /\ UNCHANGED <<free, used, head, vlog, new, logOf, live, passes, status>>
      /\ TypeOK
      /\ gc \in GCType
  BY DEF FastInvalidate, AtCursor, owners, IndInv, TypeOK
<1>2. /\ gc' \in GCType
      /\ gc'.phase = "fast_scan"
      /\ gc'.todo = gc.todo
      /\ gc'.list = gc.list
      /\ gc'.cursor = c
  BY <1>1 DEF GCType
<1>3. lchunk' \in [Addr -> LChunk]
  <2>1. lchunk[c] \in LChunk
    BY <1>1 DEF TypeOK
  <2>2. [lchunk[c] EXCEPT !.id = 0] \in LChunk
    BY ONLY <2>1 DEF LChunk
  <2> QED
    BY <1>1, <2>2 DEF TypeOK
<1>4. /\ vlchunk' \in [Addr -> VLChunk]
      /\ \A d \in Addr : vlchunk'[d].bitmap = vlchunk[d].bitmap
  <2>1. /\ [vlchunk[c] EXCEPT !.id = 0] \in VLChunk
        /\ [vlchunk[c] EXCEPT !.id = 0].bitmap = vlchunk[c].bitmap
    BY <1>1 DEF TypeOK, VLChunk
  <2> QED
    BY <1>1, <2>1 DEF TypeOK
<1>5. Held' = Held
  BY <1>1, <1>2 DEF Held
<1>6. /\ ChunksPartitioned'
      /\ TailInTree'
      /\ HandleOfHeader'
      /\ NewLogWellFormed'
      /\ ChunksCounted'
  BY <1>1, <1>2, <1>5, OwnersKept
<1>7. OldRootApart'
  BY <1>2 DEF OldRootApart
<1>8. FastListEmptyChunks'
  <2>1. vlog.tail \in Addr /\ Elems(gc.list) \subseteq Addr
    BY <1>1 DEF IndInv, TailInTree, FastListEmptyChunks, TypeOK, VLogType
  <2>2. \A d \in Addr : bitmap_empty(d)' <=> bitmap_empty(d)
    BY <1>4 DEF bitmap_empty
  <2>3. /\ bitmap_empty(vlog.tail)' <=> bitmap_empty(vlog.tail)
        /\ bitmap_empty(gc.cursor)'
        /\ \A d \in Elems(gc.list) : bitmap_empty(d)'
    BY <1>1, <1>2, <1>4, <2>1 DEF bitmap_empty, IndInv, FastListEmptyChunks
  <2>4. Elems(gc.list)' = Elems(gc.list) /\ (Distinct(gc.list)' <=> Distinct(gc.list))
    BY <1>2 DEF Elems, Distinct
  <2> QED
    BY <1>1, <1>2, <2>3, <2>4 DEF IndInv, FastListEmptyChunks
<1>9. TypeOK'
  BY <1>1, <1>2, <1>3, <1>4 DEF TypeOK
<1> QED
  BY <1>6, <1>7, <1>8, <1>9 DEF IndInv

LEMMA FastUnlinkInv ==
  ASSUME IndInv, NEW c \in Addr, FastUnlink(c)
  PROVE  IndInv'
<1>1. /\ gc.phase = "fast_scan"
      /\ c \in gc.todo
      /\ gc.cursor = c
      /\ gc' = [gc EXCEPT !.todo = @ \ {c}, !.list = Append(@, c)]
      /\ UNCHANGED <<vlchunk, free, used, head, vlog, new, logOf, live,
                     passes, status>>
      /\ TypeOK
      /\ gc \in GCType
  BY DEF FastUnlink, AtCursor, owners, IndInv, TypeOK
<1>2. lchunk' \in [Addr -> LChunk]
  <2> DEFINE p == vlchunk[c].pre
             q == lchunk[c].next
  <2>1. lchunk' = IF p # Null THEN [lchunk EXCEPT ![p].next = q] ELSE lchunk
    BY DEF FastUnlink
  <2>2. p \in Addr \cup {Null} /\ q \in Addr \cup {Null}
    BY <1>1 DEF TypeOK, VLChunk, LChunk
  <2> HIDE DEF p, q
  <2>3. CASE p # Null
    <3>1. [lchunk[p] EXCEPT !.next = q] \in LChunk
      BY <1>1, <2>2, <2>3 DEF TypeOK, LChunk
    <3> QED
      BY <1>1, <2>1, <2>3, <3>1 DEF TypeOK
  <2> QED
    BY <1>1, <2>1, <2>3 DEF TypeOK
<1>3. /\ gc.list \in Seq(Addr)
      /\ Distinct(gc.list)
      /\ c \notin Elems(gc.list)
      /\ bitmap_empty(c)
  BY <1>1 DEF IndInv, FastListEmptyChunks, GCType
<1>4. /\ Append(gc.list, c) \in Seq(Addr)
      /\ Distinct(Append(gc.list, c))
      /\ Elems(Append(gc.list, c)) = Elems(gc.list) \cup {c}
  BY <1>3, AppendElems
<1>5. /\ gc' \in GCType
      /\ gc'.phase = "fast_scan"
      /\ gc'.todo = gc.todo \ {c}
      /\ gc'.list = Append(gc.list, c)
      /\ gc'.cursor = c
  <2> DEFINE q == Append(gc.list, c)
  <2>1. q \in Seq(Addr) /\ gc' = [gc EXCEPT !.todo = gc.todo \ {c}, !.list = q]
    BY <1>1, <1>4
  <2> HIDE DEF q
  <2>2. gc = [phase |-> gc.phase, todo |-> gc.todo, cursor |-> gc.cursor,
              bits |-> gc.bits, list |-> gc.list]
    BY <1>1 DEF GCType
  <2>3. gc' = [phase |-> gc.phase, todo |-> gc.todo \ {c}, cursor |-> gc.cursor,
               bits |-> gc.bits, list |-> q]
    BY <2>1, <2>2
  <2>4. gc' \in GCType
    BY <1>1, <2>1, <2>3 DEF GCType
  <2> QED
    BY <1>1, <2>3, <2>4 DEF q
<1>6. Held' = Held
  BY <1>1, <1>5 DEF Held
<1>7. /\ ChunksPartitioned'
      /\ TailInTree'
      /\ HandleOfHeader'
      /\ NewLogWellFormed'
      /\ ChunksCounted'
  BY <1>1, <1>5, <1>6, OwnersKept
<1>8. OldRootApart'
  BY <1>5 DEF OldRootApart
<1>9. FastListEmptyChunks'
  <2>1. Elems(gc.list)' = Elems(gc.list) \cup {c} /\ Distinct(gc.list)'
    BY <1>4, <1>5 DEF Elems, Distinct
  <2>2. \A d : bitmap_empty(d)' <=> bitmap_empty(d)
    BY <1>1 DEF bitmap_empty
  <2>3. /\ ~bitmap_empty(vlog.tail)
        /\ gc.todo \cap Elems(gc.list) = {}
        /\ gc.todo \cup Elems(gc.list) \subseteq vlog.tree
        /\ \A d \in Elems(gc.list) : bitmap_empty(d)
    BY <1>1 DEF IndInv, FastListEmptyChunks
  <2>4. ~bitmap_empty(vlog.tail)'
    BY <1>1, <2>3 DEF bitmap_empty
  <2>5. \A d \in Elems(gc.list)' : bitmap_empty(d)'
    BY <1>1, <1>3, <2>1, <2>3 DEF bitmap_empty
  <2>6. /\ gc'.todo \cap Elems(gc.list)' = {}
        /\ gc'.todo \cup Elems(gc.list)' \subseteq vlog'.tree
        /\ gc'.cursor \notin gc'.todo
    BY <1>1, <1>5, <2>1, <2>3
  <2> QED
    BY <1>5, <2>1, <2>4, <2>5, <2>6 DEF FastListEmptyChunks
<1>10. TypeOK'
  BY <1>1, <1>2, <1>5 DEF TypeOK
<1> QED
  BY <1>7, <1>8, <1>9, <1>10 DEF IndInv

LEMMA FastScannedInv ==
  ASSUME IndInv, FastScanned
  PROVE  IndInv'
<1>1. /\ gc.phase = "fast_scan"
      /\ gc.todo = {}
      /\ gc' = [gc EXCEPT !.phase = "fast_free", !.cursor = Null]
      /\ UNCHANGED <<lchunk, vlchunk, free, used, head, vlog, new, logOf, live,
                     passes, status>>
      /\ TypeOK
      /\ gc \in GCType
  BY DEF FastScanned, file, owners, IndInv, TypeOK
<1>2. gc' = [phase |-> "fast_free", todo |-> gc.todo, cursor |-> Null,
             bits |-> gc.bits, list |-> gc.list]
  <2>1. gc = [phase |-> gc.phase, todo |-> gc.todo, cursor |-> gc.cursor,
              bits |-> gc.bits, list |-> gc.list]
    BY <1>1 DEF GCType
  <2> QED
    BY <1>1, <2>1
<1>3. gc' \in GCType
  BY <1>1, <1>2 DEF GCType
<1>4. Held' = Held
  BY <1>1, <1>2 DEF Held
<1>5. /\ ChunksPartitioned'
      /\ TailInTree'
      /\ HandleOfHeader'
      /\ NewLogWellFormed'
      /\ ChunksCounted'
  BY <1>1, <1>2, <1>4, OwnersKept
<1>6. OldRootApart'
  BY <1>2 DEF OldRootApart
<1>7. FastListEmptyChunks'
  BY <1>1, <1>2 DEF IndInv, FastListEmptyChunks, bitmap_empty, Elems, Distinct
<1>8. TypeOK'
  BY <1>1, <1>3 DEF TypeOK
<1> QED
  BY <1>5, <1>6, <1>7, <1>8 DEF IndInv

LEMMA FastFreeInv ==
  ASSUME IndInv, FastFree
  PROVE  IndInv'
<1> DEFINE c == Head(gc.list)
           items == (vlog.num_of_items
                       + N_ITEMS_PER_LCHUNK * (WordRange - 1)) % WordRange
<1>1. /\ gc.phase = "fast_free"
      /\ gc.list # <<>>
      /\ vlog' = [vlog EXCEPT !.num_of_chunks = @ - 1, !.num_of_items = items,
                              !.tree = @ \ {c}]
      /\ free' = Append(free, c)
      /\ gc' = [gc EXCEPT !.list = Tail(@)]
      /\ UNCHANGED <<lchunk, vlchunk, used, head, new, logOf, live, passes,
                     status>>
      /\ TypeOK
      /\ gc \in GCType
      /\ vlog \in VLogType
  BY DEF FastFree, owners, IndInv, TypeOK
<1>2. /\ gc.list \in Seq(Addr)
      /\ Distinct(gc.list)
      /\ ~bitmap_empty(vlog.tail)
      /\ Elems(gc.list) \subseteq vlog.tree
      /\ \A d \in Elems(gc.list) : bitmap_empty(d)
      /\ gc.todo = {}
  BY <1>1 DEF IndInv, FastListEmptyChunks, GCType
<1>3. /\ c \in Addr
      /\ c \in Elems(gc.list)
      /\ Tail(gc.list) \in Seq(Addr)
      /\ Distinct(Tail(gc.list))
      /\ Elems(Tail(gc.list)) = Elems(gc.list) \ {c}
  BY <1>1, <1>2, TailElems
<1>4. c \in vlog.tree /\ c # vlog.tail
  BY <1>2, <1>3
<1>5. items \in 0 .. (WordRange - 1)
  <2> DEFINE k == N_ITEMS_PER_LCHUNK * (WordRange - 1)
  <2>1. k \in Nat
    <3>1. WordRange - 1 \in Nat /\ N_ITEMS_PER_LCHUNK \in Nat
      BY SizesAssumption
    <3> QED
      BY <3>1
  <2> HIDE DEF k
  <2>2. (vlog.num_of_items + k) % WordRange \in 0 .. (WordRange - 1)
    BY <1>1, <2>1, SizesAssumption DEF VLogType
  <2> QED
    BY <2>2 DEF k
<1>6. /\ Cardinality(vlog.tree) \in Nat \ {0}
      /\ Cardinality(vlog.tree \ {c}) = Cardinality(vlog.tree) - 1
      /\ vlog.num_of_chunks = Cardinality(vlog.tree) + 1
  <2>1. IsFiniteSet(vlog.tree)
    BY <1>1, AddrFinite DEF VLogType
  <2>2. Cardinality(vlog.tree) \in Nat /\ Cardinality(vlog.tree \ {c}) \in Nat
        /\ Cardinality(vlog.tree \ {c}) = Cardinality(vlog.tree) - 1
    <3>1. IsFiniteSet(vlog.tree \ {c})
      BY <2>1, FS_RemoveElement
    <3> QED
      BY <1>4, <2>1, <3>1, FS_RemoveElement, FS_CardinalityType
  <2> QED
    BY <2>2 DEF IndInv, ChunksCounted
<1> HIDE DEF c, items
<1>7. /\ vlog' \in VLogType
      /\ vlog'.log = vlog.log
      /\ vlog'.tree = vlog.tree \ {c}
      /\ vlog'.tail = vlog.tail
      /\ vlog'.num_of_chunks = vlog.num_of_chunks - 1
  <2>1. vlog.num_of_chunks - 1 \in Nat
    BY <1>6
  <2>2. vlog = [log |-> vlog.log, gc_timer |-> vlog.gc_timer,
                tree |-> vlog.tree, tail |-> vlog.tail,
                global_lchunk_id |-> vlog.global_lchunk_id,
                num_of_chunks |-> vlog.num_of_chunks,
                num_of_items |-> vlog.num_of_items]
    BY <1>1 DEF VLogType
  <2>3. vlog' = [log |-> vlog.log, gc_timer |-> vlog.gc_timer,
                 tree |-> vlog.tree \ {c}, tail |-> vlog.tail,
                 global_lchunk_id |-> vlog.global_lchunk_id,
                 num_of_chunks |-> vlog.num_of_chunks - 1,
                 num_of_items |-> items]
    BY <1>1, <2>2
  <2>4. vlog' \in VLogType
    BY <1>1, <1>5, <2>1, <2>3 DEF VLogType
  <2> QED
    BY <2>3, <2>4
<1>8. /\ gc' \in GCType
      /\ gc'.phase = "fast_free"
      /\ gc'.todo = {}
      /\ gc'.list = Tail(gc.list)
      /\ gc'.cursor = gc.cursor
  <2> DEFINE q == Tail(gc.list)
  <2>1. q \in Seq(Addr) /\ gc' = [gc EXCEPT !.list = q]
    BY <1>1, <1>3
  <2> HIDE DEF q
  <2>2. gc' \in GCType /\ gc'.phase = gc.phase /\ gc'.todo = gc.todo
        /\ gc'.list = q /\ gc'.cursor = gc.cursor
    BY <1>1, <2>1 DEF GCType
  <2> QED
    BY <1>1, <1>2, <2>2 DEF q
<1>9. Held = {} /\ Held' = {}
  BY <1>1, <1>8 DEF Held
<1>10. Root(vlog.log)' = Root(vlog.log) /\ Root(vlog.log) \notin vlog.tree
  BY <1>1, <1>7 DEF Root, IndInv, ChunksPartitioned
<1>11. InUse' = InUse \ {c}
  BY <1>4, <1>7, <1>10 DEF InUse
<1>12. free' \in Seq(Addr) /\ Shared(free', InUse', used)
  <2>1. Shared(free, InUse \cup Held, used) /\ InUse \cup Held = InUse
    BY <1>9 DEF IndInv, ChunksPartitioned
  <2>2. free \in Seq(Addr) /\ Shared(free, InUse, used) /\ c \in InUse
    BY <1>1, <1>4, <2>1 DEF TypeOK, InUse
  <2> DEFINE left == InUse'
  <2>3. left = InUse \ {c}
    BY <1>11
  <2> HIDE DEF left
  <2>4. Append(free, c) \in Seq(Addr) /\ Shared(Append(free, c), left, used)
    BY <1>3, <2>2, <2>3, FreeShared
  <2> QED
    BY <1>1, <2>4 DEF left
<1>13. ChunksPartitioned'
  <2>1. (InUse \cup Held)' = InUse'
    BY <1>9
  <2>2. Shared(free', (InUse \cup Held)', used')
    BY <1>1, <1>12, <2>1
  <2>3. (InUse \cap Held)' = {} /\ Root(vlog.log)' \notin vlog'.tree
    BY <1>7, <1>9, <1>10
  <2> QED
    BY <2>2, <2>3 DEF ChunksPartitioned, Shared, Distinct, Elems
<1>14. TailInTree'
  BY <1>4, <1>7 DEF IndInv, TailInTree
<1>15. HandleOfHeader' /\ NewLogWellFormed' /\ OldRootApart'
  BY <1>1, <1>7, <1>8 DEF IndInv, HandleOfHeader, NewLogWellFormed, OldRootApart
<1>16. ChunksCounted'
  BY <1>6, <1>7, <1>8 DEF ChunksCounted
<1>17. FastListEmptyChunks'
  <2>1. Elems(gc.list)' = Elems(gc.list) \ {c} /\ Distinct(gc.list)'
    BY <1>3, <1>8 DEF Elems, Distinct
  <2>2. ~bitmap_empty(vlog.tail)'
    BY <1>1, <1>2, <1>7 DEF bitmap_empty
  <2>3. \A d \in Elems(gc.list)' : bitmap_empty(d)'
    BY <1>1, <1>2, <2>1 DEF bitmap_empty
  <2>4. gc'.todo \cup Elems(gc.list)' \subseteq vlog'.tree
    BY <1>2, <1>7, <1>8, <2>1
  <2> QED
    BY <1>8, <2>1, <2>2, <2>3, <2>4 DEF FastListEmptyChunks
<1>18. TypeOK'
  BY <1>1, <1>7, <1>8, <1>12 DEF TypeOK
<1> QED
  BY <1>13, <1>14, <1>15, <1>16, <1>17, <1>18 DEF IndInv

LEMMA FastDoneInv ==
  ASSUME IndInv, FastDone
  PROVE  IndInv'
<1>1. /\ gc.phase = "fast_free"
      /\ gc' = Idle
      /\ UNCHANGED <<lchunk, vlchunk, free, used, head, vlog, new, logOf, live,
                     passes, status>>
      /\ TypeOK
  BY DEF FastDone, file, owners, IndInv
<1>2. gc' \in GCType /\ gc'.phase = "idle"
  BY <1>1 DEF Idle, GCType
<1>3. Held' = Held
  BY <1>1, <1>2 DEF Held
<1>4. /\ ChunksPartitioned'
      /\ TailInTree'
      /\ HandleOfHeader'
      /\ NewLogWellFormed'
      /\ ChunksCounted'
  BY <1>1, <1>2, <1>3, OwnersKept
<1>5. OldRootApart' /\ FastListEmptyChunks'
  BY <1>2 DEF OldRootApart, FastListEmptyChunks
<1>6. TypeOK'
  BY <1>1, <1>2 DEF TypeOK
<1> QED
  BY <1>4, <1>5, <1>6 DEF IndInv

(* A step that changes the status only, or nothing. *)
LEMMA NothingMovesInv ==
  ASSUME IndInv, UNCHANGED <<file, head, vlog, new, gc, owners, passes>>,
         status' \in Status
  PROVE  IndInv'
<1>1. UNCHANGED <<lchunk, vlchunk, free, used, head, vlog, new, gc, logOf, live,
                  passes>>
  BY DEF file, owners
<1>2. InUse' = InUse /\ Held' = Held
  BY <1>1 DEF InUse, Held, Root
<1>3. /\ ChunksPartitioned'
      /\ TailInTree'
      /\ HandleOfHeader'
      /\ NewLogWellFormed'
      /\ ChunksCounted'
  BY <1>1, <1>2, OwnersKept
<1>4. OldRootApart' /\ FastListEmptyChunks'
  BY <1>1 DEF IndInv, OldRootApart, FastListEmptyChunks, bitmap_empty, Elems,
              Distinct
<1>5. TypeOK'
  BY <1>1 DEF IndInv, TypeOK
<1> QED
  BY <1>3, <1>4, <1>5 DEF IndInv

----------------------------------------------------------------------------
(* The theorems. *)

(* IndInv holds in every reachable state: it holds at the start and every
   action of the log and of its two collectors keeps it. *)
THEOREM Inductive == Spec => []IndInv
<1>1. Init => IndInv
  BY InitInv
<1>2. IndInv /\ [Next]_vars => IndInv'
  <2> SUFFICES ASSUME IndInv, [Next]_vars PROVE IndInv'
    OBVIOUS
  <2>1. CASE UNCHANGED vars
    <3>1. /\ UNCHANGED <<file, head, vlog, new, gc, owners, passes>>
          /\ status' = status
      BY <2>1 DEF vars
    <3>2. status' \in Status
      BY <3>1 DEF IndInv, TypeOK
    <3> QED
      BY <3>1, <3>2, NothingMovesInv
  <2>2. CASE Next
    <3>1. ASSUME NEW o \in Objs, LogAlloc(o) PROVE IndInv'
      BY <3>1, LogAllocInv
    <3>2. ASSUME NEW o \in Objs, LogFree(o) PROVE IndInv'
      BY <3>2, LogFreeInv
    <3>3. CASE SlowStep
      BY <3>3, SlowBeginInv, SlowCopyInv, SlowNextChunkInv, SlowCommitInv,
         SlowDestroyInv DEF SlowStep
    <3>4. CASE FastStep
      BY <3>4, FastSkipInv, FastInvalidateInv, FastUnlinkInv, FastScannedInv,
         FastFreeInv, FastDoneInv DEF FastStep
    <3>5. CASE Stop
      <4>1. /\ UNCHANGED <<file, head, vlog, new, gc, owners, passes>>
            /\ status' \in Status
        BY <3>5 DEF Stop, SlowStops, LogFileFull, LogFreeStops, Status
      <4> QED
        BY <4>1, NothingMovesInv
    <3> QED
      BY <2>2, <3>1, <3>2, <3>3, <3>4, <3>5 DEF Next, GCStep
  <2> QED
    BY <2>1, <2>2
<1> QED
  BY <1>1, <1>2, PTL DEF Spec

(* Every variable keeps its type. *)
THEOREM TypeCorrect == Spec => []TypeOK
<1>1. IndInv => TypeOK
  BY DEF IndInv
<1> QED
  BY <1>1, Inductive, PTL

(* No chunk is handed out twice and none is lost: at every step of both
   collectors the chunks taken from the file are shared out between the free
   list, the log in force and the collection in course. *)
THEOREM ChunksNeverSharedOrLost == Spec => []ChunksPartitioned
<1>1. IndInv => ChunksPartitioned
  BY DEF IndInv
<1> QED
  BY <1>1, Inductive, PTL

(* The chunk add_log writes into is never reclaimed under it. *)
THEOREM TailNeverReclaimed == Spec => []TailInTree
<1>1. IndInv => TailInTree
  BY DEF IndInv
<1> QED
  BY <1>1, Inductive, PTL

(* slow_GC fills the half of the file header that is not in force, and the
   handle and the header agree on which half that is. *)
THEOREM HandleMatchesHeader == Spec => []HandleOfHeader
<1>1. IndInv => HandleOfHeader
  BY DEF IndInv
<1> QED
  BY <1>1, Inductive, PTL

(* Everything fast_GC has listed to give back is still in the tree, is empty,
   and is not the tail, in which its own free item has a bit set. *)
THEOREM OnlyEmptyChunksListed == Spec => []FastListEmptyChunks
<1>1. IndInv => FastListEmptyChunks
  BY DEF IndInv
<1> QED
  BY <1>1, Inductive, PTL

----------------------------------------------------------------------------
(* The slots of a chunk. *)

LEMMA TakenNext ==
  ASSUME NEW n \in Nat
  PROVE  /\ count_to_index(n) \notin Taken(n)
         /\ Taken(n + 1) = Taken(n) \cup {count_to_index(n)}
<1>1. \A k \in 0 .. (n - 1) : count_to_index(k) # count_to_index(n)
  <2> SUFFICES ASSUME NEW k \in 0 .. (n - 1), count_to_index(k) = count_to_index(n)
               PROVE  FALSE
    OBVIOUS
  <2>1. k \in Nat /\ k # n
    OBVIOUS
  <2>2. Spread(LineItems, NBANKS, k) = Spread(LineItems, NBANKS, n)
    BY DEF count_to_index
  <2>3. k = n
    BY <2>1, <2>2, SpreadInjective, SizesAssumption
  <2> QED
    BY <2>1, <2>3
<1>2. 0 .. ((n + 1) - 1) = (0 .. (n - 1)) \cup {n}
  OBVIOUS
<1> QED
  BY <1>1, <1>2 DEF Taken

LEMMA TakenNone == Taken(0) = {}
<1>1. 0 .. (0 - 1) = {}
  OBVIOUS
<1> QED
  BY <1>1 DEF Taken

\* A chunk just handed out is in order, whatever it was before.
LEMMA BlankInOrder ==
  ASSUME NEW lc, NEW vc, NEW c,
         \A i \in Slot : lc[c].items[i] = Blank, vc[c].count = 0, vc[c].bitmap = {}
  PROVE  ChunkInOrder(lc, vc, c)
  BY TakenNone DEF ChunkInOrder

LEMMA NewIsBlank == \A n : \A i \in Slot : NewLChunk(n).items[i] = Blank
  BY DEF NewLChunk

----------------------------------------------------------------------------
(* What Extend, Store and ClearBit do to the chunks. *)

\* The log m.v got the chunk c, blank, behind its tail.
Grown(m, e, c) ==
  /\ c \in Addr
  /\ e.v.tree = m.v.tree \cup {c}
  /\ e.v.tail = c
  /\ e.v.num_of_items = m.v.num_of_items
  /\ e.v.global_lchunk_id = m.v.global_lchunk_id + 1
  /\ e.lchunk[c] = NewLChunk(m.v.global_lchunk_id)
  /\ e.vlchunk[c].count = 0
  /\ e.vlchunk[c].bitmap = {}
  /\ e.vlchunk[c].id = m.v.global_lchunk_id
  /\ e.lchunk[m.v.tail].next = c
  /\ e.lchunk[m.v.tail].id = m.lchunk[m.v.tail].id
  /\ e.lchunk[m.v.tail].items = m.lchunk[m.v.tail].items
  /\ \A d \in Addr \ {c, m.v.tail} : e.lchunk[d] = m.lchunk[d]
  /\ \A d \in Addr \ {c} : e.vlchunk[d] = m.vlchunk[d]

LEMMA AllocContent ==
  ASSUME NEW m \in MemType, CanAlloc(m, 1)
  PROVE  /\ vlchunk_alloc(m).v.global_lchunk_id = m.v.global_lchunk_id + 1
         /\ vlchunk_alloc(m).lchunk[NextChunk(m)] = NewLChunk(m.v.global_lchunk_id)
         /\ vlchunk_alloc(m).vlchunk[NextChunk(m)] = NewVLChunk(m.v.global_lchunk_id)
         /\ \A d \in Addr \ {NextChunk(m)} :
              /\ vlchunk_alloc(m).lchunk[d] = m.lchunk[d]
              /\ vlchunk_alloc(m).vlchunk[d] = m.vlchunk[d]
<1> DEFINE c == NextChunk(m)
           n == m.v.global_lchunk_id
           a == vlchunk_alloc(m)
<1>1. m.lchunk \in [Addr -> LChunk] /\ m.vlchunk \in [Addr -> VLChunk] /\ m.v \in VLogType
  BY DEF MemType
<1>2. c \in Addr
  BY NextChunkIsThere
<1>3. /\ a.lchunk = [m.lchunk EXCEPT ![c] = NewLChunk(n)]
      /\ a.vlchunk = [m.vlchunk EXCEPT ![c] = NewVLChunk(n)]
      /\ a.v = [m.v EXCEPT !.global_lchunk_id = n + 1, !.num_of_chunks = @ + 1]
  BY DEF vlchunk_alloc
<1> HIDE DEF c, n, a
<1>4. a.v.global_lchunk_id = n + 1
  BY <1>1, <1>3 DEF VLogType
<1> QED
  BY <1>1, <1>2, <1>3, <1>4 DEF a, c, n

LEMMA LinkContent ==
  ASSUME NEW m \in MemType, NEW p \in Addr, NEW c \in Addr, p # c
  PROVE  /\ Link(m, p, c).v.global_lchunk_id = m.v.global_lchunk_id
         /\ Link(m, p, c).lchunk[p].next = c
         /\ Link(m, p, c).lchunk[p].id = m.lchunk[p].id
         /\ Link(m, p, c).lchunk[p].items = m.lchunk[p].items
         /\ \A d \in Addr \ {p} : Link(m, p, c).lchunk[d] = m.lchunk[d]
         /\ Link(m, p, c).vlchunk[c].count = m.vlchunk[c].count
         /\ Link(m, p, c).vlchunk[c].bitmap = m.vlchunk[c].bitmap
         /\ Link(m, p, c).vlchunk[c].id = m.vlchunk[c].id
         /\ \A d \in Addr \ {c} : Link(m, p, c).vlchunk[d] = m.vlchunk[d]
<1> DEFINE a == Link(m, p, c)
<1>1. m.lchunk \in [Addr -> LChunk] /\ m.vlchunk \in [Addr -> VLChunk] /\ m.v \in VLogType
  BY DEF MemType
<1>2. /\ a.lchunk = [m.lchunk EXCEPT ![p].next = c]
      /\ a.vlchunk = [m.vlchunk EXCEPT ![c].pre = p]
      /\ a.v = [m.v EXCEPT !.tree = @ \cup {c}, !.tail = c]
  BY DEF Link
<1> HIDE DEF a
<1>3. /\ [m.lchunk[p] EXCEPT !.next = c].next = c
      /\ [m.lchunk[p] EXCEPT !.next = c].id = m.lchunk[p].id
      /\ [m.lchunk[p] EXCEPT !.next = c].items = m.lchunk[p].items
  BY <1>1 DEF LChunk
<1>4. /\ [m.vlchunk[c] EXCEPT !.pre = p].count = m.vlchunk[c].count
      /\ [m.vlchunk[c] EXCEPT !.pre = p].bitmap = m.vlchunk[c].bitmap
      /\ [m.vlchunk[c] EXCEPT !.pre = p].id = m.vlchunk[c].id
  BY <1>1 DEF VLChunk
<1>5. a.v.global_lchunk_id = m.v.global_lchunk_id
  BY <1>1, <1>2 DEF VLogType
<1> QED
  BY <1>1, <1>2, <1>3, <1>4, <1>5 DEF a

LEMMA ExtendGrows ==
  ASSUME NEW m \in MemType, NEW owned,
         m.v.tail \in Addr, m.v.tail \in m.v.tree,
         TailFull(m), CanAlloc(m, 1),
         m.v.tree \subseteq owned,
         Shared(m.free, owned, m.used)
  PROVE  \E c \in Addr \ owned : Grown(m, Extend(m), c)
<1> DEFINE c == NextChunk(m)
           a == vlchunk_alloc(m)
           t == m.v.tail
           n == m.v.global_lchunk_id
           e == Link(a, t, c)
<1>1. Extend(m) = e
  BY DEF Extend
<1>2. c \in Addr
  BY NextChunkIsThere
<1>3. /\ a \in MemType
      /\ a.v.tree = m.v.tree
      /\ a.v.num_of_items = m.v.num_of_items
  BY AllocType
<1>4. /\ a.v.global_lchunk_id = n + 1
      /\ a.lchunk[c] = NewLChunk(n)
      /\ a.vlchunk[c] = NewVLChunk(n)
      /\ \A d \in Addr \ {c} : a.lchunk[d] = m.lchunk[d] /\ a.vlchunk[d] = m.vlchunk[d]
  BY AllocContent
<1>5. c \notin owned
  BY AllocShared
<1>6. t \in Addr /\ t # c
  BY <1>5
<1> HIDE DEF c, a, t, n
<1>7. /\ e.v.tree = a.v.tree \cup {c}
      /\ e.v.tail = c
      /\ e.v.num_of_items = a.v.num_of_items
  <2>1. a \in MemType
    BY <1>3
  <2> QED
    BY ONLY <1>2, <1>6, <2>1, LinkType DEF e
<1>8. /\ e.v.global_lchunk_id = a.v.global_lchunk_id
      /\ e.lchunk[t].next = c
      /\ e.lchunk[t].id = a.lchunk[t].id
      /\ e.lchunk[t].items = a.lchunk[t].items
      /\ \A d \in Addr \ {t} : e.lchunk[d] = a.lchunk[d]
      /\ e.vlchunk[c].count = a.vlchunk[c].count
      /\ e.vlchunk[c].bitmap = a.vlchunk[c].bitmap
      /\ e.vlchunk[c].id = a.vlchunk[c].id
      /\ \A d \in Addr \ {c} : e.vlchunk[d] = a.vlchunk[d]
  BY <1>2, <1>3, <1>6, LinkContent
<1> HIDE DEF e
<1>9. NewVLChunk(n).count = 0 /\ NewVLChunk(n).bitmap = {} /\ NewVLChunk(n).id = n
  BY DEF NewVLChunk
<1>10. /\ e.v.tree = m.v.tree \cup {c}
       /\ e.v.num_of_items = m.v.num_of_items
       /\ e.v.global_lchunk_id = n + 1
       /\ e.lchunk[c] = NewLChunk(n)
       /\ e.lchunk[t].id = m.lchunk[t].id
       /\ e.lchunk[t].items = m.lchunk[t].items
       /\ \A d \in Addr \ {c, t} : e.lchunk[d] = m.lchunk[d]
       /\ \A d \in Addr \ {c} : e.vlchunk[d] = m.vlchunk[d]
       /\ e.vlchunk[c].count = 0
       /\ e.vlchunk[c].bitmap = {}
       /\ e.vlchunk[c].id = n
  BY <1>2, <1>3, <1>4, <1>6, <1>7, <1>8, <1>9
<1>11. Grown(m, e, c)
  BY <1>2, <1>7, <1>8, <1>10 DEF Grown, t, n
<1> QED
  BY <1>1, <1>2, <1>5, <1>11

LEMMA ExtendStays == ASSUME NEW m, ~TailFull(m) PROVE Extend(m) = m
  BY DEF Extend

(* The place p got the item, the bits and counts follow. *)
Put(m, s, p, item) ==
  /\ ItemAt(s.lchunk, p) = item
  /\ \A q \in Addr \X Slot : q # p => ItemAt(s.lchunk, q) = ItemAt(m.lchunk, q)
  /\ \A d \in Addr : /\ s.lchunk[d].next = m.lchunk[d].next
                     /\ s.lchunk[d].id = m.lchunk[d].id
                     /\ s.vlchunk[d].id = m.vlchunk[d].id
  /\ s.vlchunk[p[1]].count = m.vlchunk[p[1]].count + 1
  /\ s.vlchunk[p[1]].bitmap = m.vlchunk[p[1]].bitmap \cup {p[2]}
  /\ \A d \in Addr \ {p[1]} : /\ s.lchunk[d] = m.lchunk[d]
                              /\ s.vlchunk[d] = m.vlchunk[d]

LEMMA StorePuts ==
  ASSUME NEW m \in MemType, NEW p \in ItemAddr, NEW item \in Item
  PROVE  Put(m, Store(m, p, item), p, item)
<1> DEFINE s == Store(m, p, item)
<1>1. /\ m.lchunk \in [Addr -> LChunk] /\ m.vlchunk \in [Addr -> VLChunk]
      /\ p[1] \in Addr /\ p[2] \in Slot
  BY DEF MemType, ItemAddr
<1>2. /\ s.lchunk = [m.lchunk EXCEPT ![p[1]].items[p[2]] = item]
      /\ s.vlchunk = [m.vlchunk EXCEPT ![p[1]] = Filled(@, p[2])]
  BY DEF Store
<1> HIDE DEF s
<1>3. ASSUME NEW k \in LChunk, NEW i \in Slot
      PROVE  /\ [k EXCEPT !.items = [@ EXCEPT ![i] = item]].next = k.next
             /\ [k EXCEPT !.items = [@ EXCEPT ![i] = item]].id = k.id
             /\ [k EXCEPT !.items = [@ EXCEPT ![i] = item]].items[i] = item
             /\ \A j \in Slot \ {i} :
                  [k EXCEPT !.items = [@ EXCEPT ![i] = item]].items[j] = k.items[j]
  BY DEF LChunk
<1>4. ASSUME NEW d \in VLChunk, NEW i \in Slot
      PROVE  /\ Filled(d, i).count = d.count + 1
             /\ Filled(d, i).bitmap = d.bitmap \cup {i}
             /\ Filled(d, i).id = d.id
  BY DEF VLChunk, Filled
<1>5. /\ \A d \in Addr \ {p[1]} : s.lchunk[d] = m.lchunk[d] /\ s.vlchunk[d] = m.vlchunk[d]
      /\ s.vlchunk[p[1]] = Filled(m.vlchunk[p[1]], p[2])
      /\ s.lchunk[p[1]] = [m.lchunk[p[1]] EXCEPT !.items = [@ EXCEPT ![p[2]] = item]]
  BY <1>1, <1>2
<1>6. /\ s.vlchunk[p[1]].count = m.vlchunk[p[1]].count + 1
      /\ s.vlchunk[p[1]].bitmap = m.vlchunk[p[1]].bitmap \cup {p[2]}
      /\ s.vlchunk[p[1]].id = m.vlchunk[p[1]].id
  BY <1>1, <1>4, <1>5
<1>7. /\ s.lchunk[p[1]].next = m.lchunk[p[1]].next
      /\ s.lchunk[p[1]].id = m.lchunk[p[1]].id
      /\ s.lchunk[p[1]].items[p[2]] = item
      /\ \A j \in Slot \ {p[2]} : s.lchunk[p[1]].items[j] = m.lchunk[p[1]].items[j]
  BY <1>1, <1>3, <1>5
<1>8. \A q \in Addr \X Slot : q # p => ItemAt(s.lchunk, q) = ItemAt(m.lchunk, q)
  <2> SUFFICES ASSUME NEW q \in Addr \X Slot, q # p
               PROVE  s.lchunk[q[1]].items[q[2]] = m.lchunk[q[1]].items[q[2]]
    BY DEF ItemAt
  <2>1. q[1] # p[1] \/ q[2] # p[2]
    BY DEF ItemAddr
  <2> QED
    BY <1>5, <1>7, <2>1
<1> QED
  BY <1>1, <1>5, <1>6, <1>7, <1>8 DEF Put, ItemAt, s

LEMMA ClearBitContent ==
  ASSUME NEW m \in MemType, NEW p \in ItemAddr
  PROVE  /\ ClearBit(m, p).lchunk = m.lchunk
         /\ ClearBit(m, p).vlchunk[p[1]].count = m.vlchunk[p[1]].count
         /\ ClearBit(m, p).vlchunk[p[1]].bitmap = m.vlchunk[p[1]].bitmap \ {p[2]}
         /\ ClearBit(m, p).vlchunk[p[1]].id = m.vlchunk[p[1]].id
         /\ \A d \in Addr \ {p[1]} : ClearBit(m, p).vlchunk[d] = m.vlchunk[d]
<1> DEFINE a == ClearBit(m, p)
<1>1. m.vlchunk \in [Addr -> VLChunk] /\ p[1] \in Addr
  BY DEF MemType, ItemAddr
<1>2. a.lchunk = m.lchunk /\ a.vlchunk = [m.vlchunk EXCEPT ![p[1]].bitmap = @ \ {p[2]}]
  BY DEF ClearBit
<1> HIDE DEF a
<1>3. /\ [m.vlchunk[p[1]] EXCEPT !.bitmap = @ \ {p[2]}].count = m.vlchunk[p[1]].count
      /\ [m.vlchunk[p[1]] EXCEPT !.bitmap = @ \ {p[2]}].bitmap
           = m.vlchunk[p[1]].bitmap \ {p[2]}
      /\ [m.vlchunk[p[1]] EXCEPT !.bitmap = @ \ {p[2]}].id = m.vlchunk[p[1]].id
  BY <1>1 DEF VLChunk
<1> QED
  BY <1>1, <1>2, <1>3 DEF a

----------------------------------------------------------------------------
(* What is seen of the chunks: items and bits. *)

LEMMA MarkedAreObjects ==
  ASSUME NEW lc, NEW vc, NEW T, \A c \in T : ChunkInOrder(lc, vc, c)
  PROVE  MarkedIn(lc, vc, T) \subseteq Objects(lc, T)
<1> SUFFICES ASSUME NEW p \in MarkedIn(lc, vc, T) PROVE p \in Objects(lc, T)
  OBVIOUS
<1>1. /\ p \in T \X Slot /\ p[2] \in vc[p[1]].bitmap
      /\ ItemAt(lc, p).type # "FREE_LOG"
  BY DEF MarkedIn
<1>2. p[1] \in T /\ p[2] \in Slot
  BY <1>1
<1>3. p[2] \in Taken(vc[p[1]].count)
  BY <1>1, <1>2 DEF ChunkInOrder
<1>4. ItemAt(lc, p) # Blank
  BY <1>2, <1>3 DEF ChunkInOrder, ItemAt
<1> QED
  BY <1>1, <1>4 DEF Objects

\* What is not written to stays as it is.
LEMMA SameViews ==
  ASSUME NEW lc, NEW vc, NEW ln, NEW vn, NEW T,
         \A d \in T : /\ ln[d].items = lc[d].items
                      /\ ln[d].id = lc[d].id
                      /\ vn[d].bitmap = vc[d].bitmap
  PROVE  /\ \A p \in T \X Slot : ItemAt(ln, p) = ItemAt(lc, p)
         /\ Objects(ln, T) = Objects(lc, T)
         /\ MarkedIn(ln, vn, T) = MarkedIn(lc, vc, T)
         /\ FreesInOrder(lc, vc, T) => FreesInOrder(ln, vn, T)
<1>1. \A p \in T \X Slot : ItemAt(ln, p) = ItemAt(lc, p) /\ p[1] \in T
  BY DEF ItemAt
<1>2. Objects(ln, T) = Objects(lc, T)
  BY <1>1 DEF Objects
<1>3. MarkedIn(ln, vn, T) = MarkedIn(lc, vc, T)
  BY <1>1 DEF MarkedIn
<1>4. ASSUME FreesInOrder(lc, vc, T) PROVE FreesInOrder(ln, vn, T)
  <2>1. ASSUME NEW q \in T \X Slot, ItemAt(ln, q).type = "FREE_LOG"
        PROVE  ItemAt(ln, q).ptr \in Objects(ln, T) \ MarkedIn(ln, vn, T)
    BY <1>1, <1>2, <1>3, <1>4, <2>1 DEF FreesInOrder
  <2>2. ASSUME NEW p \in Objects(ln, T) \ MarkedIn(ln, vn, T)
        PROVE  \E q \in T \X Slot : ItemAt(ln, q) = FreeItem(p, ln[p[1]].id)
    <3>1. p \in Objects(lc, T) \ MarkedIn(lc, vc, T)
      BY <1>2, <1>3
    <3>2. PICK q \in T \X Slot : ItemAt(lc, q) = FreeItem(p, lc[p[1]].id)
      BY <1>4, <3>1 DEF FreesInOrder
    <3>3. p[1] \in T
      BY <3>1 DEF Objects
    <3>4. ln[p[1]].id = lc[p[1]].id
      BY <3>3
    <3> QED
      BY <1>1, <3>2, <3>4
  <2> QED
    BY <2>1, <2>2 DEF FreesInOrder
<1> QED
  BY <1>1, <1>2, <1>3, <1>4

LEMMA SameFrees ==
  ASSUME NEW lc, NEW vc, NEW ln, NEW vn, NEW T, FreesInOrder(lc, vc, T),
         \A d \in T : /\ ln[d].items = lc[d].items
                      /\ ln[d].id = lc[d].id
                      /\ vn[d].bitmap = vc[d].bitmap
  PROVE  FreesInOrder(ln, vn, T)
  BY SameViews

LEMMA SameOrder ==
  ASSUME NEW lc, NEW vc, NEW ln, NEW vn, NEW c,
         ChunkInOrder(lc, vc, c),
         ln[c].items = lc[c].items, vn[c].count = vc[c].count,
         vn[c].bitmap \subseteq vc[c].bitmap
  PROVE  ChunkInOrder(ln, vn, c)
  BY DEF ChunkInOrder

\* A blank chunk adds nothing to a log.
LEMMA BlankAdds ==
  ASSUME NEW lc, NEW vc, NEW T, NEW c,
         \A i \in Slot : lc[c].items[i] = Blank, vc[c].bitmap = {}
  PROVE  /\ Objects(lc, T \cup {c}) = Objects(lc, T)
         /\ MarkedIn(lc, vc, T \cup {c}) = MarkedIn(lc, vc, T)
         /\ FreesInOrder(lc, vc, T) => FreesInOrder(lc, vc, T \cup {c})
<1>1. \A p \in (T \cup {c}) \X Slot :
        p[1] = c => ItemAt(lc, p) = Blank /\ p[2] \notin vc[p[1]].bitmap
  BY DEF ItemAt
<1>2. \A p \in (T \cup {c}) \X Slot : p \in T \X Slot \/ p[1] = c
  OBVIOUS
<1>3. T \X Slot \subseteq (T \cup {c}) \X Slot
  OBVIOUS
<1>4. Objects(lc, T \cup {c}) = Objects(lc, T)
  BY <1>1, <1>2, <1>3 DEF Objects
<1>5. MarkedIn(lc, vc, T \cup {c}) = MarkedIn(lc, vc, T)
  BY <1>1, <1>2, <1>3 DEF MarkedIn
<1>6. Blank.type # "FREE_LOG"
  BY DEF Blank
<1>7. ASSUME FreesInOrder(lc, vc, T) PROVE FreesInOrder(lc, vc, T \cup {c})
  <2>1. ASSUME NEW q \in (T \cup {c}) \X Slot, ItemAt(lc, q).type = "FREE_LOG"
        PROVE  ItemAt(lc, q).ptr \in Objects(lc, T) \ MarkedIn(lc, vc, T)
    <3>1. q \in T \X Slot
      BY <1>1, <1>2, <1>6, <2>1
    <3> QED
      BY <1>7, <2>1, <3>1 DEF FreesInOrder
  <2>2. \A p \in Objects(lc, T) \ MarkedIn(lc, vc, T) :
          \E q \in (T \cup {c}) \X Slot : ItemAt(lc, q) = FreeItem(p, lc[p[1]].id)
    BY <1>3, <1>7 DEF FreesInOrder
  <2> QED
    BY <1>4, <1>5, <2>1, <2>2 DEF FreesInOrder
<1> QED
  BY <1>4, <1>5, <1>7

\* The next slot of a chunk in order is blank; once filled the chunk is in order.
LEMMA PutInOrder ==
  ASSUME NEW m \in MemType, NEW s, NEW item, item # Blank,
         NEW T \in SUBSET Addr, NEW p \in T \X Slot,
         p[2] = count_to_index(m.vlchunk[p[1]].count),
         \A c \in T : ChunkInOrder(m.lchunk, m.vlchunk, c),
         Put(m, s, p, item)
  PROVE  /\ ItemAt(m.lchunk, p) = Blank
         /\ p[2] \notin m.vlchunk[p[1]].bitmap
         /\ \A c \in T : ChunkInOrder(s.lchunk, s.vlchunk, c)
<1> DEFINE n == m.vlchunk[p[1]].count
<1>1. p[1] \in T /\ p[1] \in Addr /\ p[2] \in Slot /\ p \in Addr \X Slot
  OBVIOUS
<1>2. n \in Nat
  BY <1>1 DEF MemType, VLChunk
<1>3. ChunkInOrder(m.lchunk, m.vlchunk, p[1])
  BY <1>1
<1> HIDE DEF n
<1>4. p[2] \notin Taken(n) /\ Taken(n + 1) = Taken(n) \cup {p[2]}
  BY <1>2, TakenNext DEF n
<1>5. ItemAt(m.lchunk, p) = Blank /\ p[2] \notin m.vlchunk[p[1]].bitmap
  BY <1>1, <1>3, <1>4 DEF ChunkInOrder, ItemAt, n
<1>6. /\ s.vlchunk[p[1]].count = n + 1
      /\ s.vlchunk[p[1]].bitmap = m.vlchunk[p[1]].bitmap \cup {p[2]}
      /\ ItemAt(s.lchunk, p) = item
      /\ \A q \in Addr \X Slot : q # p => ItemAt(s.lchunk, q) = ItemAt(m.lchunk, q)
      /\ \A d \in Addr \ {p[1]} : s.lchunk[d] = m.lchunk[d] /\ s.vlchunk[d] = m.vlchunk[d]
  BY DEF Put, n
<1>7. \A i \in Slot : i # p[2] => s.lchunk[p[1]].items[i] = m.lchunk[p[1]].items[i]
  <2> TAKE i \in Slot
  <2> HAVE i # p[2]
  <2>1. <<p[1], i>> \in Addr \X Slot /\ <<p[1], i>> # p
    BY <1>1
  <2>2. ItemAt(s.lchunk, <<p[1], i>>) = ItemAt(m.lchunk, <<p[1], i>>)
    BY <1>6, <2>1
  <2> QED
    BY <2>2 DEF ItemAt
<1>8. ChunkInOrder(s.lchunk, s.vlchunk, p[1])
  <2>1. Taken(n) \subseteq Slot /\ m.vlchunk[p[1]].bitmap \subseteq Taken(n)
        /\ \A i \in Slot : m.lchunk[p[1]].items[i] # Blank <=> i \in Taken(n)
    BY <1>3 DEF ChunkInOrder, n
  <2>2. s.lchunk[p[1]].items[p[2]] # Blank
    BY <1>6 DEF ItemAt
  <2> QED
    BY <1>1, <1>4, <1>6, <1>7, <2>1, <2>2 DEF ChunkInOrder
<1>9. \A c \in T \ {p[1]} : ChunkInOrder(s.lchunk, s.vlchunk, c)
  BY <1>6 DEF ChunkInOrder
<1> QED
  BY <1>5, <1>8, <1>9

\* The bits after an item was put.
LEMMA PutBits ==
  ASSUME NEW m, NEW s, NEW item, NEW p \in Addr \X Slot, Put(m, s, p, item),
         NEW q \in Addr \X Slot
  PROVE  q[2] \in s.vlchunk[q[1]].bitmap <=> q = p \/ q[2] \in m.vlchunk[q[1]].bitmap
<1>1. /\ q[1] \in Addr /\ q[2] \in Slot /\ p[1] \in Addr /\ p[2] \in Slot
      /\ q = p <=> q[1] = p[1] /\ q[2] = p[2]
  OBVIOUS
<1>2. CASE q[1] = p[1]
  BY <1>1, <1>2 DEF Put
<1>3. CASE q[1] # p[1]
  <2>1. s.vlchunk[q[1]] = m.vlchunk[q[1]]
    BY <1>1, <1>3 DEF Put
  <2> QED
    BY <1>1, <1>3, <2>1
<1> QED
  BY <1>2, <1>3

\* An item of an object becomes one of the log's objects, with its bit set.
LEMMA PutObject ==
  ASSUME NEW m, NEW s, NEW item, item # Blank, item.type # "FREE_LOG",
         NEW T \in SUBSET Addr, NEW p \in T \X Slot,
         ItemAt(m.lchunk, p) = Blank, p[2] \notin m.vlchunk[p[1]].bitmap,
         Put(m, s, p, item),
         MarkedIn(m.lchunk, m.vlchunk, T) \subseteq Objects(m.lchunk, T)
  PROVE  /\ p \notin Objects(m.lchunk, T)
         /\ Objects(s.lchunk, T) = Objects(m.lchunk, T) \cup {p}
         /\ MarkedIn(s.lchunk, s.vlchunk, T) = MarkedIn(m.lchunk, m.vlchunk, T) \cup {p}
         /\ FreesInOrder(m.lchunk, m.vlchunk, T)
              => FreesInOrder(s.lchunk, s.vlchunk, T)
<1>1. /\ ItemAt(s.lchunk, p) = item
      /\ \A q \in T \X Slot : q # p => ItemAt(s.lchunk, q) = ItemAt(m.lchunk, q)
  BY DEF Put
<1>2. \A q \in T \X Slot :
        q[2] \in s.vlchunk[q[1]].bitmap <=> q = p \/ q[2] \in m.vlchunk[q[1]].bitmap
  <2> TAKE q \in T \X Slot
  <2>1. p \in Addr \X Slot /\ q \in Addr \X Slot
    OBVIOUS
  <2> QED
    BY <2>1, PutBits
<1>3. p \notin Objects(m.lchunk, T)
  BY DEF Objects
<1>4. Objects(s.lchunk, T) = Objects(m.lchunk, T) \cup {p}
  BY <1>1 DEF Objects
<1>5. MarkedIn(s.lchunk, s.vlchunk, T) = MarkedIn(m.lchunk, m.vlchunk, T) \cup {p}
  BY <1>1, <1>2 DEF MarkedIn
<1>6. ASSUME FreesInOrder(m.lchunk, m.vlchunk, T)
      PROVE  FreesInOrder(s.lchunk, s.vlchunk, T)
  <2>1. ASSUME NEW q \in T \X Slot, ItemAt(s.lchunk, q).type = "FREE_LOG"
        PROVE  ItemAt(s.lchunk, q).ptr
                 \in Objects(s.lchunk, T) \ MarkedIn(s.lchunk, s.vlchunk, T)
    <3>1. q # p /\ ItemAt(s.lchunk, q) = ItemAt(m.lchunk, q)
      BY <1>1, <2>1
    <3>2. ItemAt(m.lchunk, q).ptr \in Objects(m.lchunk, T) \ MarkedIn(m.lchunk, m.vlchunk, T)
      BY <1>6, <2>1, <3>1 DEF FreesInOrder
    <3> QED
      BY <1>3, <1>4, <1>5, <3>1, <3>2
  <2>2. ASSUME NEW a \in Objects(s.lchunk, T) \ MarkedIn(s.lchunk, s.vlchunk, T)
        PROVE  \E q \in T \X Slot : ItemAt(s.lchunk, q) = FreeItem(a, s.lchunk[a[1]].id)
    <3>1. a \in Objects(m.lchunk, T) \ MarkedIn(m.lchunk, m.vlchunk, T)
      BY <1>4, <1>5
    <3>2. PICK q \in T \X Slot : ItemAt(m.lchunk, q) = FreeItem(a, m.lchunk[a[1]].id)
      BY <1>6, <3>1 DEF FreesInOrder
    <3>3. q # p
      BY <3>2 DEF FreeItem, Blank
    <3>4. a[1] \in Addr
      BY <3>1 DEF Objects
    <3>5. s.lchunk[a[1]].id = m.lchunk[a[1]].id
      BY <3>4 DEF Put
    <3> QED
      BY <1>1, <3>2, <3>3, <3>5
  <2> QED
    BY <2>1, <2>2 DEF FreesInOrder
<1> QED
  BY <1>3, <1>4, <1>5, <1>6

\* A free item frees the item a, whose bit is cleared: the objects stay, their
\* set bits are one less, and the log's free items stay in order.
LEMMA PutFreeObjects ==
  ASSUME NEW m \in MemType, NEW s, NEW id,
         NEW T \in SUBSET Addr, NEW p \in T \X Slot,
         NEW a \in MarkedIn(m.lchunk, m.vlchunk, T),
         ItemAt(m.lchunk, p) = Blank, p[2] \notin m.vlchunk[p[1]].bitmap,
         Put(ClearBit(m, a), s, p, FreeItem(a, id))
  PROVE  Objects(s.lchunk, T) = Objects(m.lchunk, T)
<1>1. a \in ItemAddr
  BY DEF MarkedIn, ItemAddr
<1>2. ClearBit(m, a).lchunk = m.lchunk
  BY <1>1, ClearBitContent
<1>3. FreeItem(a, id).type = "FREE_LOG"
  BY DEF FreeItem
<1>4. /\ ItemAt(s.lchunk, p) = FreeItem(a, id)
      /\ \A q \in T \X Slot : q # p => ItemAt(s.lchunk, q) = ItemAt(m.lchunk, q)
  BY <1>2 DEF Put
<1> QED
  BY <1>3, <1>4 DEF Objects

LEMMA PutFreeBits ==
  ASSUME NEW m \in MemType, NEW s, NEW id,
         NEW T \in SUBSET Addr, NEW p \in T \X Slot,
         NEW a \in MarkedIn(m.lchunk, m.vlchunk, T),
         ItemAt(m.lchunk, p) = Blank, p[2] \notin m.vlchunk[p[1]].bitmap,
         Put(ClearBit(m, a), s, p, FreeItem(a, id)),
         a \in Objects(m.lchunk, T)
  PROVE  MarkedIn(s.lchunk, s.vlchunk, T) = MarkedIn(m.lchunk, m.vlchunk, T) \ {a}
<1> DEFINE n == ClearBit(m, a)
<1>0. a \in T \X Slot /\ a \in ItemAddr /\ a[1] \in Addr
  BY DEF MarkedIn, ItemAddr
<1>1. /\ n.lchunk = m.lchunk
      /\ n.vlchunk[a[1]].bitmap = m.vlchunk[a[1]].bitmap \ {a[2]}
      /\ \A d \in Addr \ {a[1]} : n.vlchunk[d] = m.vlchunk[d]
  BY <1>0, ClearBitContent
<1> HIDE DEF n
<1>2. /\ FreeItem(a, id).type = "FREE_LOG" 
  BY DEF FreeItem, Blank
<1>3. /\ ItemAt(s.lchunk, p) = FreeItem(a, id)
      /\ \A q \in T \X Slot : q # p => ItemAt(s.lchunk, q) = ItemAt(m.lchunk, q)
  BY <1>1 DEF Put, n
<1>4. \A q \in T \X Slot :
        q[2] \in s.vlchunk[q[1]].bitmap
          <=> q = p \/ (q[2] \in m.vlchunk[q[1]].bitmap /\ q # a)
  <2> TAKE q \in T \X Slot
  <2>1. p \in Addr \X Slot /\ q \in Addr \X Slot /\ q[1] \in Addr
    OBVIOUS
  <2>2. q[2] \in s.vlchunk[q[1]].bitmap <=> q = p \/ q[2] \in n.vlchunk[q[1]].bitmap
    BY <2>1, PutBits DEF n
  <2>3. q = a <=> q[1] = a[1] /\ q[2] = a[2]
    BY <1>0
  <2>4. q[2] \in n.vlchunk[q[1]].bitmap <=> q[2] \in m.vlchunk[q[1]].bitmap /\ q # a
    <3>1. CASE q[1] = a[1]
      BY <1>1, <2>3, <3>1
    <3>2. CASE q[1] # a[1]
      BY <1>1, <2>1, <2>3, <3>2
    <3> QED
      BY <3>1, <3>2
  <2> QED
    BY <2>2, <2>4
<1> QED
  BY <1>2, <1>3, <1>4 DEF MarkedIn

LEMMA PutFree ==
  ASSUME NEW m \in MemType, NEW s, NEW id,
         NEW T \in SUBSET Addr, NEW p \in T \X Slot,
         NEW a \in MarkedIn(m.lchunk, m.vlchunk, T),
         ItemAt(m.lchunk, p) = Blank, p[2] \notin m.vlchunk[p[1]].bitmap,
         Put(ClearBit(m, a), s, p, FreeItem(a, id)),
         a \in Objects(m.lchunk, T),
         FreesInOrder(m.lchunk, m.vlchunk, T), id = m.lchunk[a[1]].id
  PROVE  FreesInOrder(s.lchunk, s.vlchunk, T)
<1>1. a \in T \X Slot /\ a \in ItemAddr
  BY DEF MarkedIn, ItemAddr
<1>2. ClearBit(m, a).lchunk = m.lchunk
  BY <1>1, ClearBitContent
<1>3. FreeItem(a, id).type = "FREE_LOG" /\ FreeItem(a, id).ptr = a
  BY DEF FreeItem
<1>4. /\ ItemAt(s.lchunk, p) = FreeItem(a, id)
      /\ \A q \in T \X Slot : q # p => ItemAt(s.lchunk, q) = ItemAt(m.lchunk, q)
      /\ \A d \in Addr : s.lchunk[d].id = m.lchunk[d].id
  BY <1>2 DEF Put
<1>5. Objects(s.lchunk, T) = Objects(m.lchunk, T)
  BY PutFreeObjects
<1>6. MarkedIn(s.lchunk, s.vlchunk, T) = MarkedIn(m.lchunk, m.vlchunk, T) \ {a}
  <2>1. /\ m \in MemType /\ T \in SUBSET Addr /\ p \in T \X Slot
        /\ a \in MarkedIn(m.lchunk, m.vlchunk, T)
        /\ ItemAt(m.lchunk, p) = Blank /\ p[2] \notin m.vlchunk[p[1]].bitmap
        /\ Put(ClearBit(m, a), s, p, FreeItem(a, id))
        /\ a \in Objects(m.lchunk, T)
    OBVIOUS
  <2> QED
    BY ONLY <2>1, PutFreeBits
<1>7. ASSUME NEW q \in T \X Slot, ItemAt(s.lchunk, q).type = "FREE_LOG"
      PROVE  ItemAt(s.lchunk, q).ptr
               \in Objects(s.lchunk, T) \ MarkedIn(s.lchunk, s.vlchunk, T)
  <2>1. CASE q = p
    BY <1>3, <1>4, <1>5, <1>6, <2>1
  <2>2. CASE q # p
    <3>1. ItemAt(m.lchunk, q).ptr \in Objects(m.lchunk, T) \ MarkedIn(m.lchunk, m.vlchunk, T)
      BY <1>4, <1>7, <2>2 DEF FreesInOrder
    <3> QED
      BY <1>4, <1>5, <1>6, <2>2, <3>1
  <2> QED
    BY <2>1, <2>2
<1>8. ASSUME NEW b \in Objects(s.lchunk, T) \ MarkedIn(s.lchunk, s.vlchunk, T)
      PROVE  \E q \in T \X Slot : ItemAt(s.lchunk, q) = FreeItem(b, s.lchunk[b[1]].id)
  <2>1. b[1] \in Addr
    BY DEF Objects
  <2>2. s.lchunk[b[1]].id = m.lchunk[b[1]].id
    BY <1>4, <2>1
  <2>3. CASE b = a
    BY <1>4, <2>2, <2>3
  <2>4. CASE b # a
    <3>1. b \in Objects(m.lchunk, T) \ MarkedIn(m.lchunk, m.vlchunk, T)
      BY <1>5, <1>6, <2>4
    <3>2. PICK q \in T \X Slot : ItemAt(m.lchunk, q) = FreeItem(b, m.lchunk[b[1]].id)
      BY <3>1 DEF FreesInOrder
    <3>3. q # p
      BY <3>2 DEF FreeItem, Blank
    <3> QED
      BY <1>4, <2>2, <3>2, <3>3
  <2> QED
    BY <2>3, <2>4
<1> QED
  BY <1>7, <1>8 DEF FreesInOrder

----------------------------------------------------------------------------
(* The chain. *)

\* The pointers of the chunks of a chain are all there is to it.
LEMMA ChainStays ==
  ASSUME NEW lc, NEW ln, NEW s, NEW r, NEW T, NEW t,
         IsChain(lc, s, r, T, t), t \in T,
         \A d \in T \cup {r} : ln[d].next = lc[d].next
  PROVE  IsChain(ln, s, r, T, t)
<1>1. Len(s) \in Nat
  BY DEF IsChain
<1>2. \A i \in 1 .. Len(s) : s[i] \in T \cup {r}
  BY DEF IsChain, Elems
<1>3. \A i \in 1 .. (Len(s) - 1) : i \in 1 .. Len(s)
  BY <1>1
<1>4. \A i \in 1 .. (Len(s) - 1) : ln[s[i]].next = lc[s[i]].next
  BY <1>2, <1>3
<1>5. ln[t].next = lc[t].next
  OBVIOUS
<1> QED
  BY <1>4, <1>5 DEF IsChain

LEMMA ChainGrows ==
  ASSUME NEW m \in MemType, NEW e, NEW s, NEW r, NEW c,
         m.v.tail \in Addr, m.v.tail \in m.v.tree,
         IsChain(m.lchunk, s, r, m.v.tree, m.v.tail),
         c \notin m.v.tree \cup {r}, Grown(m, e, c)
  PROVE  Append(s, c) \in Seq(Addr) /\ IsChain(e.lchunk, Append(s, c), r, e.v.tree, e.v.tail)
<1> DEFINE u == Append(s, c)
           t == m.v.tail
           T == m.v.tree
<1>1. /\ s \in Seq(Addr) /\ s # <<>> /\ Distinct(s) /\ Elems(s) = T \cup {r}
      /\ s[1] = r /\ s[Len(s)] = t
      /\ \A i \in 1 .. (Len(s) - 1) : m.lchunk[s[i]].next = s[i + 1]
  BY DEF IsChain
<1>2. /\ c \in Addr /\ e.v.tree = T \cup {c} /\ e.v.tail = c
      /\ e.lchunk[t].next = c
      /\ e.lchunk[c].next = Null
      /\ \A d \in Addr \ {c, t} : e.lchunk[d] = m.lchunk[d]
  BY DEF Grown, NewLChunk
<1>3. /\ u \in Seq(Addr) /\ Distinct(u) /\ Elems(u) = Elems(s) \cup {c}
  BY <1>1, <1>2, AppendElems
<1>4. /\ Len(s) \in Nat /\ Len(s) > 0 /\ Len(u) = Len(s) + 1
      /\ u[Len(s) + 1] = c
      /\ \A i \in 1 .. Len(s) : u[i] = s[i]
  BY <1>1, <1>2
<1> HIDE DEF u, t, T
<1>5. u # <<>> /\ u[1] = r /\ u[Len(u)] = c
  BY <1>1, <1>3, <1>4
<1>6. \A i \in 1 .. Len(s) : s[i] \in Addr /\ s[i] # c
  BY <1>1 DEF Elems, T
<1>7. ASSUME NEW i \in 1 .. (Len(u) - 1) PROVE e.lchunk[u[i]].next = u[i + 1]
  <2>1. i \in 1 .. Len(s)
    BY <1>4
  <2>2. CASE i = Len(s)
    BY <1>1, <1>2, <1>4, <2>1, <2>2
  <2>3. CASE i # Len(s)
    <3>1. i \in 1 .. (Len(s) - 1) /\ i + 1 \in 1 .. Len(s) /\ Len(s) \in 1 .. Len(s)
      BY <1>4, <2>1, <2>3
    <3>2. s[i] # s[Len(s)]
      BY <1>1, <2>1, <2>3, <3>1 DEF Distinct
    <3>3. e.lchunk[s[i]] = m.lchunk[s[i]]
      BY <1>1, <1>2, <1>6, <2>1, <3>2
    <3>4. m.lchunk[s[i]].next = s[i + 1]
      BY <1>1, <3>1
    <3> QED
      BY <1>4, <2>1, <3>1, <3>3, <3>4
  <2> QED
    BY <2>2, <2>3
<1>8. Elems(u) = e.v.tree \cup {r}
  BY <1>1, <1>2, <1>3
<1> QED
  BY <1>2, <1>3, <1>5, <1>7, <1>8 DEF IsChain, u

----------------------------------------------------------------------------
(* A log that grows stays in order. *)

LEMMA ExtendKeepsItems ==
  ASSUME NEW m \in MemType, NEW owned,
         m.v.tail \in Addr, m.v.tail \in m.v.tree,
         TailFull(m) => CanAlloc(m, 1),
         m.v.tree \subseteq owned,
         Shared(m.free, owned, m.used),
         \A c \in m.v.tree : ChunkInOrder(m.lchunk, m.vlchunk, c)
  PROVE  /\ \A c \in Extend(m).v.tree :
              ChunkInOrder(Extend(m).lchunk, Extend(m).vlchunk, c)
         /\ Objects(Extend(m).lchunk, Extend(m).v.tree) = Objects(m.lchunk, m.v.tree)
         /\ MarkedIn(Extend(m).lchunk, Extend(m).vlchunk, Extend(m).v.tree)
              = MarkedIn(m.lchunk, m.vlchunk, m.v.tree)
         /\ Extend(m).v.num_of_items = m.v.num_of_items
         /\ m.v.tree \subseteq Extend(m).v.tree
         /\ \A d \in Addr \cap owned :
              /\ Extend(m).vlchunk[d] = m.vlchunk[d]
              /\ Extend(m).lchunk[d].items = m.lchunk[d].items
              /\ Extend(m).lchunk[d].id = m.lchunk[d].id
              /\ d # m.v.tail => Extend(m).lchunk[d] = m.lchunk[d]
<1> DEFINE e == Extend(m)
           T == m.v.tree
<1>1. CASE ~TailFull(m)
  BY <1>1, ExtendStays
<1>2. CASE TailFull(m)
  <2>1. PICK c \in Addr \ owned : Grown(m, e, c)
    BY <1>2, ExtendGrows
  <2> HIDE DEF e
  <2>2. /\ e.v.tree = T \cup {c}
        /\ e.v.num_of_items = m.v.num_of_items
        /\ e.lchunk[c] = NewLChunk(m.v.global_lchunk_id)
        /\ e.vlchunk[c].count = 0 /\ e.vlchunk[c].bitmap = {}
        /\ e.lchunk[m.v.tail].id = m.lchunk[m.v.tail].id
        /\ e.lchunk[m.v.tail].items = m.lchunk[m.v.tail].items
        /\ \A d \in Addr \ {c, m.v.tail} : e.lchunk[d] = m.lchunk[d]
        /\ \A d \in Addr \ {c} : e.vlchunk[d] = m.vlchunk[d]
    BY <2>1 DEF Grown
  <2>3. \A d \in Addr \cap owned :
          /\ e.vlchunk[d] = m.vlchunk[d]
          /\ e.lchunk[d].items = m.lchunk[d].items
          /\ e.lchunk[d].id = m.lchunk[d].id
          /\ d # m.v.tail => e.lchunk[d] = m.lchunk[d]
    BY <2>1, <2>2
  <2>4. T \subseteq Addr
    BY DEF MemType, VLogType
  <2>5. \A d \in T : /\ e.lchunk[d].items = m.lchunk[d].items
                     /\ e.lchunk[d].id = m.lchunk[d].id
                     /\ e.vlchunk[d].bitmap = m.vlchunk[d].bitmap
    BY <2>3, <2>4
  <2>6. /\ Objects(e.lchunk, T) = Objects(m.lchunk, T)
        /\ MarkedIn(e.lchunk, e.vlchunk, T) = MarkedIn(m.lchunk, m.vlchunk, T)
    BY <2>5, SameViews
  <2>7. ChunkInOrder(e.lchunk, e.vlchunk, c) /\ \A i \in Slot : e.lchunk[c].items[i] = Blank
    <3>1. \A i \in Slot : e.lchunk[c].items[i] = Blank
      BY <2>2, NewIsBlank
    <3> QED
      BY <2>2, <3>1, BlankInOrder
  <2>8. /\ Objects(e.lchunk, T \cup {c}) = Objects(e.lchunk, T)
        /\ MarkedIn(e.lchunk, e.vlchunk, T \cup {c}) = MarkedIn(e.lchunk, e.vlchunk, T)
    BY <2>2, <2>7, BlankAdds
  <2>9. ASSUME NEW d \in T PROVE ChunkInOrder(e.lchunk, e.vlchunk, d)
    <3>1. ChunkInOrder(m.lchunk, m.vlchunk, d) /\ d \in Addr \cap owned
      BY <2>4
    <3>2. /\ e.lchunk[d].items = m.lchunk[d].items
          /\ e.vlchunk[d].count = m.vlchunk[d].count
          /\ e.vlchunk[d].bitmap \subseteq m.vlchunk[d].bitmap
      BY <2>3, <3>1
    <3> QED
      BY <3>1, <3>2, SameOrder
  <2> QED
    BY <2>2, <2>3, <2>6, <2>7, <2>8, <2>9 DEF e
<1> QED
  BY <1>1, <1>2

LEMMA ExtendInOrder ==
  ASSUME NEW m \in MemType, NEW owned, NEW r,
         m.v.tail \in Addr, m.v.tail \in m.v.tree,
         TailFull(m) => CanAlloc(m, 1),
         m.v.tree \cup {r} \subseteq owned,
         Shared(m.free, owned, m.used),
         \A c \in m.v.tree : ChunkInOrder(m.lchunk, m.vlchunk, c),
         LogInOrder(m.lchunk, m.vlchunk, m.v, r)
  PROVE  LogInOrder(Extend(m).lchunk, Extend(m).vlchunk, Extend(m).v, r)
<1> DEFINE e == Extend(m)
           T == m.v.tree
<1>1. CASE ~TailFull(m)
  BY <1>1, ExtendStays
<1>2. CASE TailFull(m)
  <2>0. T \subseteq owned
    OBVIOUS
  <2>1. PICK c \in Addr \ owned : Grown(m, e, c)
    BY <1>2, <2>0, ExtendGrows
  <2>2. Objects(e.lchunk, e.v.tree) = Objects(m.lchunk, T)
    BY <2>0, ExtendKeepsItems
  <2>3. /\ FreesInOrder(m.lchunk, m.vlchunk, T)
        /\ Numbered(m.lchunk, m.vlchunk, T)
        /\ m.v.global_lchunk_id # 0
        /\ m.v.num_of_items = Cardinality(Objects(m.lchunk, T))
    BY DEF LogInOrder
  <2>4. PICK s \in Seq(Addr) : IsChain(m.lchunk, s, r, T, m.v.tail)
    BY DEF LogInOrder
  <2> HIDE DEF e
  <2>5. c \notin T \cup {r}
    BY <2>1
  <2>6. Append(s, c) \in Seq(Addr) /\ IsChain(e.lchunk, Append(s, c), r, e.v.tree, e.v.tail)
    BY <2>1, <2>4, <2>5, ChainGrows
  <2>7. /\ e.v.tree = T \cup {c}
        /\ e.v.num_of_items = m.v.num_of_items
        /\ e.v.global_lchunk_id = m.v.global_lchunk_id + 1
        /\ e.lchunk[c] = NewLChunk(m.v.global_lchunk_id)
        /\ e.vlchunk[c].count = 0 /\ e.vlchunk[c].bitmap = {}
        /\ e.vlchunk[c].id = m.v.global_lchunk_id
        /\ e.lchunk[m.v.tail].id = m.lchunk[m.v.tail].id
        /\ e.lchunk[m.v.tail].items = m.lchunk[m.v.tail].items
        /\ \A d \in Addr \ {c, m.v.tail} : e.lchunk[d] = m.lchunk[d]
        /\ \A d \in Addr \ {c} : e.vlchunk[d] = m.vlchunk[d]
    BY <2>1 DEF Grown
  <2>8. T \subseteq Addr /\ m.v.global_lchunk_id \in Nat
    BY DEF MemType, VLogType
  <2>9. \A d \in T : /\ e.lchunk[d].items = m.lchunk[d].items
                     /\ e.lchunk[d].id = m.lchunk[d].id
                     /\ e.vlchunk[d].bitmap = m.vlchunk[d].bitmap
                     /\ e.vlchunk[d].id = m.vlchunk[d].id
    BY <2>5, <2>7, <2>8
  <2>10. \A i \in Slot : e.lchunk[c].items[i] = Blank
    BY <2>7, NewIsBlank
  <2>11. FreesInOrder(e.lchunk, e.vlchunk, T)
    <3>1. \A d \in T : /\ e.lchunk[d].items = m.lchunk[d].items
                       /\ e.lchunk[d].id = m.lchunk[d].id
                       /\ e.vlchunk[d].bitmap = m.vlchunk[d].bitmap
      BY <2>9
    <3>2. FreesInOrder(m.lchunk, m.vlchunk, T)
      BY <2>3
    <3> QED
      BY ONLY <3>1, <3>2, SameFrees
  <2>12. FreesInOrder(e.lchunk, e.vlchunk, T \cup {c})
    BY <2>7, <2>10, <2>11, BlankAdds
  <2>13. e.lchunk[c].id = m.v.global_lchunk_id
    BY <2>7 DEF NewLChunk
  <2>14. Numbered(e.lchunk, e.vlchunk, e.v.tree)
    BY <2>3, <2>7, <2>9, <2>13 DEF Numbered
  <2>15. e.v.num_of_items = Cardinality(Objects(e.lchunk, e.v.tree))
    BY <2>2, <2>3, <2>7
  <2>16. e.v.global_lchunk_id # 0
    BY <2>7, <2>8
  <2>17. FreesInOrder(e.lchunk, e.vlchunk, e.v.tree)
    BY <2>7, <2>12
  <2>18. LogInOrder(e.lchunk, e.vlchunk, e.v, r)
    BY <2>6, <2>14, <2>15, <2>16, <2>17 DEF LogInOrder
  <2> QED
    BY <2>18 DEF e
<1> QED
  BY <1>1, <1>2

\* A log made by log_create: two chunks and nothing in them.
LEMMA NewLogInOrder ==
  ASSUME NEW m \in MemType, CanAlloc(m, 2), NEW owned,
         Shared(m.free, owned, m.used), m.v.tree = {}, m.v.num_of_items = 0
  PROVE  /\ LogInOrder(NewLog(m).lchunk, NewLog(m).vlchunk, NewLog(m).v, NextChunk(m))
         /\ \A c \in NewLog(m).v.tree : ChunkInOrder(NewLog(m).lchunk, NewLog(m).vlchunk, c)
         /\ MarkedIn(NewLog(m).lchunk, NewLog(m).vlchunk, NewLog(m).v.tree) = {}
         /\ \A d \in Addr \cap owned : /\ NewLog(m).lchunk[d] = m.lchunk[d]
                                       /\ NewLog(m).vlchunk[d] = m.vlchunk[d]
<1> DEFINE r == NextChunk(m)
           m1 == vlchunk_alloc(m)
           c == NextChunk(m1)
           m2 == vlchunk_alloc(m1)
           e == Link(m2, r, c)
           g == m.v.global_lchunk_id
<1>1. NewLog(m) = e
  BY DEF NewLog
<1>2. CanAlloc(m, 1) /\ CanAlloc(m1, 1)
  BY AllocLeaves
<1>3. r \in Addr
  BY <1>2, NextChunkIsThere
<1>4. m1 \in MemType /\ m1.v.tree = {} /\ m1.v.num_of_items = 0
  BY <1>2, AllocType
<1>5. r \notin owned /\ Shared(m1.free, owned \cup {r}, m1.used)
  BY <1>2, AllocShared
<1>6. /\ m1.v.global_lchunk_id = g + 1
      /\ \A d \in Addr \ {r} : m1.lchunk[d] = m.lchunk[d] /\ m1.vlchunk[d] = m.vlchunk[d]
  BY <1>2, AllocContent
<1> HIDE DEF m1
<1>7. c \in Addr
  BY <1>2, <1>4, NextChunkIsThere
<1>8. m2 \in MemType /\ m2.v.tree = {} /\ m2.v.num_of_items = 0
  BY <1>2, <1>4, AllocType
<1>9. c \notin owned \cup {r}
  BY <1>2, <1>4, <1>5, AllocShared
<1>10. /\ m2.v.global_lchunk_id = (g + 1) + 1
       /\ m2.lchunk[c] = NewLChunk(g + 1)
       /\ m2.vlchunk[c] = NewVLChunk(g + 1)
       /\ \A d \in Addr \ {c} : m2.lchunk[d] = m1.lchunk[d] /\ m2.vlchunk[d] = m1.vlchunk[d]
  BY <1>2, <1>4, <1>6, AllocContent
<1> HIDE DEF m2, c, r
<1>11. r # c
  BY <1>9
<1>12. /\ e.v.tree = m2.v.tree \cup {c}
       /\ e.v.tail = c
       /\ e.v.num_of_items = m2.v.num_of_items
  <2>1. m2 \in MemType
    BY <1>8
  <2> QED
    BY ONLY <1>3, <1>7, <2>1, LinkType DEF e
<1>13. /\ e.v.global_lchunk_id = m2.v.global_lchunk_id
       /\ e.lchunk[r].next = c
       /\ \A d \in Addr \ {r} : e.lchunk[d] = m2.lchunk[d]
       /\ e.vlchunk[c].count = m2.vlchunk[c].count
       /\ e.vlchunk[c].bitmap = m2.vlchunk[c].bitmap
       /\ e.vlchunk[c].id = m2.vlchunk[c].id
       /\ \A d \in Addr \ {c} : e.vlchunk[d] = m2.vlchunk[d]
  <2>1. m2 \in MemType
    BY <1>8
  <2> QED
    BY ONLY <1>3, <1>7, <2>1, <1>11, LinkContent DEF e
<1> HIDE DEF e
<1>14. g \in Nat
  BY DEF MemType, VLogType
<1> HIDE DEF g
<1>15. /\ NewVLChunk(g + 1).count = 0 /\ NewVLChunk(g + 1).bitmap = {}
       /\ NewVLChunk(g + 1).id = g + 1 /\ NewLChunk(g + 1).id = g + 1
       /\ NewLChunk(g + 1).next = Null
  BY DEF NewVLChunk, NewLChunk
<1>16. /\ e.v.tree = {c} /\ e.v.tail = c /\ e.v.num_of_items = 0
       /\ e.v.global_lchunk_id # 0
       /\ e.lchunk[c] = NewLChunk(g + 1)
       /\ e.vlchunk[c].count = 0 /\ e.vlchunk[c].bitmap = {}
       /\ e.lchunk[c].id = e.vlchunk[c].id /\ e.lchunk[c].id # 0
  BY <1>7, <1>8, <1>10, <1>11, <1>12, <1>13, <1>14, <1>15
<1>17. ChunkInOrder(e.lchunk, e.vlchunk, c) /\ \A i \in Slot : e.lchunk[c].items[i] = Blank
  <2>1. \A i \in Slot : e.lchunk[c].items[i] = Blank
    BY <1>16, NewIsBlank
  <2> QED
    BY <1>16, <2>1, BlankInOrder
<1>18. /\ Objects(e.lchunk, {} \cup {c}) = Objects(e.lchunk, {})
       /\ MarkedIn(e.lchunk, e.vlchunk, {} \cup {c}) = MarkedIn(e.lchunk, e.vlchunk, {})
       /\ FreesInOrder(e.lchunk, e.vlchunk, {}) => FreesInOrder(e.lchunk, e.vlchunk, {} \cup {c})
  BY <1>16, <1>17, BlankAdds
<1>19. /\ {} \cup {c} = {c} /\ {} \X Slot = {}
  OBVIOUS
<1>20. Objects(e.lchunk, {}) = {} /\ MarkedIn(e.lchunk, e.vlchunk, {}) = {}
  BY <1>19 DEF Objects, MarkedIn
<1>21. FreesInOrder(e.lchunk, e.vlchunk, {})
  BY <1>19, <1>20 DEF FreesInOrder
<1>22. /\ Objects(e.lchunk, {c}) = {} /\ MarkedIn(e.lchunk, e.vlchunk, {c}) = {}
       /\ FreesInOrder(e.lchunk, e.vlchunk, {c})
  BY <1>18, <1>19, <1>20, <1>21
<1>23. <<r, c>> \in Seq(Addr) /\ IsChain(e.lchunk, <<r, c>>, r, {c}, c)
  <2>1. /\ <<r, c>> \in Seq(Addr) /\ Len(<<r, c>>) = 2
        /\ <<r, c>>[1] = r /\ <<r, c>>[2] = c /\ <<r, c>> # <<>>
    BY <1>3, <1>7
  <2>2. Distinct(<<r, c>>)
    BY <1>11, <2>1 DEF Distinct
  <2>3. Elems(<<r, c>>) = {c} \cup {r}
    BY <2>1 DEF Elems
  <2>4. \A i \in 1 .. (Len(<<r, c>>) - 1) : e.lchunk[<<r, c>>[i]].next = <<r, c>>[i + 1]
    BY <1>13, <2>1
  <2>5. e.lchunk[c].next = Null
    BY <1>15, <1>16
  <2> QED
    BY <2>1, <2>2, <2>3, <2>4, <2>5 DEF IsChain
<1>24. Cardinality({}) = 0
  BY FS_EmptySet
<1>25. LogInOrder(e.lchunk, e.vlchunk, e.v, r)
  BY <1>16, <1>22, <1>23, <1>24 DEF LogInOrder, Numbered
<1>26. \A d \in Addr \cap owned : e.lchunk[d] = m.lchunk[d] /\ e.vlchunk[d] = m.vlchunk[d]
  <2> TAKE d \in Addr \cap owned
  <2>1. d \in Addr \ {r} /\ d \in Addr \ {c}
    BY <1>5, <1>9
  <2> QED
    BY <1>6, <1>10, <1>13, <2>1
<1> QED
  BY <1>1, <1>16, <1>17, <1>22, <1>25, <1>26 DEF r

----------------------------------------------------------------------------
(* Owners and items. *)

LEMMA OwnedMore ==
  ASSUME NEW lc, NEW ln, NEW P, NEW p, NEW objs \in SUBSET Objs,
         NEW o \in Objs \ objs, NEW R, NEW at \in [Objs -> R],
         Owned(lc, P, at, objs),
         \A q \in P : ItemAt(ln, q) = ItemAt(lc, q), ItemAt(ln, p).ptr = o
  PROVE  Owned(ln, P \cup {p}, [at EXCEPT ![o] = p], objs \cup {o})
<1> DEFINE an == [at EXCEPT ![o] = p]
<1>1. an[o] = p /\ \A b \in objs : an[b] = at[b]
  OBVIOUS
<1> HIDE DEF an
<1>2. \A q \in P : ItemAt(ln, q).ptr \in objs /\ an[ItemAt(ln, q).ptr] = q
  BY <1>1 DEF Owned
<1>3. \A b \in objs : an[b] \in P /\ ItemAt(ln, an[b]).ptr = b
  BY <1>1 DEF Owned
<1>4. Owned(ln, P \cup {p}, an, objs \cup {o})
  BY <1>1, <1>2, <1>3 DEF Owned
<1> QED
  BY <1>4 DEF an

LEMMA OwnedLess ==
  ASSUME NEW lc, NEW ln, NEW P, NEW objs, NEW o \in objs, NEW at,
         Owned(lc, P, at, objs),
         \A q \in P : ItemAt(ln, q) = ItemAt(lc, q)
  PROVE  Owned(ln, P \ {at[o]}, at, objs \ {o})
<1>1. \A q \in P \ {at[o]} :
        ItemAt(ln, q).ptr \in objs \ {o} /\ at[ItemAt(ln, q).ptr] = q
  BY DEF Owned
<1>2. \A b \in objs \ {o} : at[b] \in P \ {at[o]} /\ ItemAt(ln, at[b]).ptr = b
  BY DEF Owned
<1> QED
  BY <1>1, <1>2 DEF Owned

LEMMA OwnedMoved ==
  ASSUME NEW lc, NEW ln, NEW P, NEW p, NEW objs \in SUBSET Objs,
         NEW o \in objs, NEW R, NEW at \in [Objs -> R],
         Owned(lc, P, at, objs),
         \A q \in P : ItemAt(ln, q) = ItemAt(lc, q), ItemAt(ln, p).ptr = o,
         p \notin P
  PROVE  Owned(ln, (P \ {at[o]}) \cup {p}, [at EXCEPT ![o] = p], objs)
<1> DEFINE an == [at EXCEPT ![o] = p]
<1>1. an[o] = p /\ \A b \in objs \ {o} : an[b] = at[b]
  OBVIOUS
<1> HIDE DEF an
<1>2. \A q \in P \ {at[o]} :
        ItemAt(ln, q).ptr \in objs \ {o} /\ an[ItemAt(ln, q).ptr] = q
  BY <1>1 DEF Owned
<1>3. \A b \in objs \ {o} : an[b] \in P \ {at[o]} /\ ItemAt(ln, an[b]).ptr = b
  BY <1>1 DEF Owned
<1>4. Owned(ln, (P \ {at[o]}) \cup {p}, an, objs)
  BY <1>1, <1>2, <1>3 DEF Owned
<1> QED
  BY <1>4 DEF an

\* The objects are those the items are of.
LEMMA OwnedIsImage ==
  ASSUME NEW lc, NEW P, NEW at, NEW objs, Owned(lc, P, at, objs)
  PROVE  {ItemAt(lc, p).ptr : p \in P} = objs
<1>1. \A p \in P : ItemAt(lc, p).ptr \in objs
  BY DEF Owned
<1>2. \A o \in objs : at[o] \in P /\ ItemAt(lc, at[o]).ptr = o
  BY DEF Owned
<1> QED
  BY <1>1, <1>2

LEMMA OwnedStays ==
  ASSUME NEW lc, NEW ln, NEW P, NEW at, NEW objs, Owned(lc, P, at, objs),
         \A q \in P : ItemAt(ln, q) = ItemAt(lc, q)
  PROVE  Owned(ln, P, at, objs)
  BY DEF Owned

----------------------------------------------------------------------------
(* The counter. *)

LEMMA AddrCount == IsFiniteSet(Addr) /\ Cardinality(Addr) = LOG_FILE_SIZE - 1
<1>1. LOG_FILE_SIZE - 1 \in Nat /\ 1 \in Int
  BY SizesAssumption
<1>2. /\ IsFiniteSet(1 .. (LOG_FILE_SIZE - 1))
      /\ Cardinality(1 .. (LOG_FILE_SIZE - 1))
           = IF 1 > LOG_FILE_SIZE - 1 THEN 0 ELSE (LOG_FILE_SIZE - 1) - 1 + 1
  BY <1>1, FS_Interval
<1> QED
  BY <1>1, <1>2, SizesAssumption DEF Addr

LEMMA FewObjects ==
  ASSUME NEW lc, NEW T \in SUBSET Addr
  PROVE  /\ IsFiniteSet(Objects(lc, T))
         /\ Cardinality(Objects(lc, T)) \in 0 .. (WordRange - 1)
<1> DEFINE A == Addr \X Slot
<1>1. IsFiniteSet(Addr) /\ Cardinality(Addr) = LOG_FILE_SIZE - 1
  BY AddrCount
<1>2. IsFiniteSet(Slot) /\ Cardinality(Slot) = N_ITEMS_PER_LCHUNK
  <2>1. N_ITEMS_PER_LCHUNK - 1 \in Int /\ 0 \in Int
    BY SizesAssumption
  <2>2. /\ IsFiniteSet(0 .. (N_ITEMS_PER_LCHUNK - 1))
        /\ Cardinality(0 .. (N_ITEMS_PER_LCHUNK - 1))
             = IF 0 > N_ITEMS_PER_LCHUNK - 1 THEN 0 ELSE (N_ITEMS_PER_LCHUNK - 1) - 0 + 1
    BY <2>1, FS_Interval
  <2> QED
    BY <2>1, <2>2, SizesAssumption DEF Slot
<1>3. IsFiniteSet(A) /\ Cardinality(A) = (LOG_FILE_SIZE - 1) * N_ITEMS_PER_LCHUNK
  BY <1>1, <1>2, FS_Product
<1> HIDE DEF A
<1>4. Objects(lc, T) \subseteq A
  BY DEF Objects, A
<1>5. /\ IsFiniteSet(Objects(lc, T))
      /\ Cardinality(Objects(lc, T)) <= Cardinality(A)
  BY <1>3, <1>4, FS_Subset
<1>6. Cardinality(Objects(lc, T)) \in Nat
  BY <1>5, FS_CardinalityType
<1>7. (LOG_FILE_SIZE - 1) * N_ITEMS_PER_LCHUNK \in Nat /\ WordRange \in Nat
  BY SizesAssumption
<1> QED
  BY <1>3, <1>5, <1>6, <1>7, CounterAssumption

LEMMA CountedOne ==
  ASSUME NEW lc, NEW ln, NEW T \in SUBSET Addr, NEW p, p \notin Objects(lc, T),
         Objects(ln, T) = Objects(lc, T) \cup {p}
  PROVE  Cardinality(Objects(ln, T)) = (Cardinality(Objects(lc, T)) + 1) % WordRange
<1>1. IsFiniteSet(Objects(lc, T)) /\ Cardinality(Objects(lc, T)) \in Nat
  BY FewObjects
<1>2. Cardinality(Objects(ln, T)) = Cardinality(Objects(lc, T)) + 1
  BY <1>1, FS_AddElement
<1>3. Cardinality(Objects(ln, T)) \in 0 .. (WordRange - 1)
  BY FewObjects
<1>4. \A x \in 0 .. (WordRange - 1) : x % WordRange = x
  BY SizesAssumption
<1> QED
  BY <1>2, <1>3, <1>4

----------------------------------------------------------------------------
(* An item more, in a log in order. *)

LEMMA PutKeepsOrder ==
  ASSUME NEW lc, NEW vc, NEW ln, NEW vn, NEW v, NEW w, NEW r \in Addr,
         v.tree \subseteq Addr, v.tail \in v.tree,
         LogInOrder(lc, vc, v, r),
         \A d \in Addr : /\ ln[d].next = lc[d].next
                         /\ ln[d].id = lc[d].id
                         /\ vn[d].id = vc[d].id,
         FreesInOrder(ln, vn, v.tree),
         w.tree = v.tree, w.tail = v.tail,
         w.global_lchunk_id = v.global_lchunk_id,
         w.num_of_items = Cardinality(Objects(ln, v.tree))
  PROVE  LogInOrder(ln, vn, w, r)
<1>1. PICK s \in Seq(Addr) : IsChain(lc, s, r, v.tree, v.tail)
  BY DEF LogInOrder
<1>2. \A d \in v.tree \cup {r} : ln[d].next = lc[d].next
  OBVIOUS
<1>3. IsChain(ln, s, r, v.tree, v.tail)
  BY <1>1, <1>2, ChainStays
<1>4. Numbered(ln, vn, v.tree)
  BY DEF LogInOrder, Numbered
<1>5. v.global_lchunk_id # 0
  BY DEF LogInOrder
<1> QED
  BY <1>1, <1>3, <1>4, <1>5 DEF LogInOrder

----------------------------------------------------------------------------
(* An object's item is appended to the log m.v, whose chunks are among those
   owned: what LogAlloc and SlowCopy have in common. *)

Appended(m, item) == Store(Extend(m), Place(Extend(m)), item)

LEMMA RoomInOrder ==
  ASSUME NEW m \in MemType, NEW owned,
         m.v.tail \in Addr, m.v.tail \in m.v.tree,
         TailFull(m) => CanAlloc(m, 1),
         m.v.tree \subseteq owned,
         Shared(m.free, owned, m.used),
         m.v.num_of_chunks = Cardinality(m.v.tree) + 1,
         \A c \in m.v.tree : ChunkInOrder(m.lchunk, m.vlchunk, c)
  PROVE  /\ Extend(m) \in MemType
         /\ Extend(m).v.tree \in SUBSET Addr
         /\ Extend(m).v.tree \cap owned = m.v.tree
         /\ m.v.tree \subseteq Extend(m).v.tree
         /\ Extend(m).v.tail \in Extend(m).v.tree
         /\ Place(Extend(m)) \in ItemAddr
         /\ Place(Extend(m)) \in Extend(m).v.tree \X Slot
         /\ Place(Extend(m))[2]
              = count_to_index(Extend(m).vlchunk[Place(Extend(m))[1]].count)
<1> DEFINE e == Extend(m)
           p == Place(e)
<1>1. /\ e \in MemType
      /\ ~TailFull(e)
      /\ e.v.tail \in Addr
      /\ e.v.tail \in e.v.tree
      /\ \E added \in SUBSET Addr :
           /\ added \cap owned = {}
           /\ e.v.tree = m.v.tree \cup added
           /\ Shared(e.free, owned \cup added, e.used)
  BY ExtendOK
<1>2. e.v.tree \cap owned = m.v.tree /\ m.v.tree \subseteq e.v.tree
  BY <1>1
<1> HIDE DEF e
<1>3. e.v.tree \in SUBSET Addr
  BY <1>1 DEF MemType, VLogType
<1>4. p \in ItemAddr /\ p[1] = e.v.tail /\ p[2] \in Slot
  BY <1>1, PlaceOK
<1>5. p = <<e.v.tail, count_to_index(e.vlchunk[e.v.tail].count)>>
  BY DEF Place
<1>6. p \in e.v.tree \X Slot /\ p[2] = count_to_index(e.vlchunk[p[1]].count)
  BY <1>1, <1>4, <1>5
<1> QED
  BY <1>1, <1>2, <1>3, <1>4, <1>6 DEF e

LEMMA ObjectAppended ==
  ASSUME NEW m \in MemType, NEW owned \in SUBSET Addr,
         m.v.tail \in Addr, m.v.tail \in m.v.tree,
         TailFull(m) => CanAlloc(m, 1),
         m.v.tree \subseteq owned,
         Shared(m.free, owned, m.used),
         m.v.num_of_chunks = Cardinality(m.v.tree) + 1,
         \A c \in m.v.tree : ChunkInOrder(m.lchunk, m.vlchunk, c),
         NEW item \in Item, item # Blank, item.type # "FREE_LOG"
  PROVE  /\ Appended(m, item).v = Extend(m).v
         /\ m.v.tree \subseteq Extend(m).v.tree
         /\ \A c \in Extend(m).v.tree :
              ChunkInOrder(Appended(m, item).lchunk, Appended(m, item).vlchunk, c)
         /\ Place(Extend(m)) \notin Objects(m.lchunk, m.v.tree)
         /\ Place(Extend(m)) \in Extend(m).v.tree \X Slot
         /\ MarkedIn(Appended(m, item).lchunk, Appended(m, item).vlchunk, Extend(m).v.tree)
              = MarkedIn(m.lchunk, m.vlchunk, m.v.tree) \cup {Place(Extend(m))}
         /\ MarkedIn(m.lchunk, m.vlchunk, m.v.tree) \subseteq Objects(m.lchunk, m.v.tree)
         /\ ItemAt(Appended(m, item).lchunk, Place(Extend(m))) = item
         /\ \A q \in m.v.tree \X Slot :
              q # Place(Extend(m)) =>
                ItemAt(Appended(m, item).lchunk, q) = ItemAt(m.lchunk, q)
         /\ \A d \in owned \ m.v.tree :
              /\ Appended(m, item).lchunk[d] = m.lchunk[d]
              /\ Appended(m, item).vlchunk[d] = m.vlchunk[d]
<1> DEFINE e == Extend(m)
           p == Place(e)
           s == Appended(m, item)
           T == e.v.tree
<1>1. /\ e \in MemType
      /\ T \in SUBSET Addr
      /\ T \cap owned = m.v.tree
      /\ m.v.tree \subseteq T
      /\ p \in ItemAddr
      /\ p \in T \X Slot
      /\ p[2] = count_to_index(e.vlchunk[p[1]].count)
  BY RoomInOrder
<1>2. /\ \A c \in T : ChunkInOrder(e.lchunk, e.vlchunk, c)
      /\ Objects(e.lchunk, T) = Objects(m.lchunk, m.v.tree)
      /\ MarkedIn(e.lchunk, e.vlchunk, T) = MarkedIn(m.lchunk, m.vlchunk, m.v.tree)
      /\ \A d \in Addr \cap owned :
           /\ e.vlchunk[d] = m.vlchunk[d]
           /\ e.lchunk[d].items = m.lchunk[d].items
           /\ d # m.v.tail => e.lchunk[d] = m.lchunk[d]
  BY ExtendKeepsItems
<1>3. s = Store(e, p, item)
  BY DEF Appended
<1> HIDE DEF e, p, s
<1>4. Put(e, s, p, item)
  BY <1>1, <1>3, StorePuts
<1>5. s.v = e.v
  BY <1>1, <1>3, StoreOK
<1>6. /\ ItemAt(e.lchunk, p) = Blank
      /\ p[2] \notin e.vlchunk[p[1]].bitmap
      /\ \A c \in T : ChunkInOrder(s.lchunk, s.vlchunk, c)
  BY <1>1, <1>2, <1>4, PutInOrder
<1>7. MarkedIn(e.lchunk, e.vlchunk, T) \subseteq Objects(e.lchunk, T)
  BY <1>2, MarkedAreObjects
<1>8. /\ p \notin Objects(e.lchunk, T)
      /\ MarkedIn(s.lchunk, s.vlchunk, T) = MarkedIn(e.lchunk, e.vlchunk, T) \cup {p}
  BY <1>1, <1>4, <1>6, <1>7, PutObject
<1>9. /\ ItemAt(s.lchunk, p) = item
      /\ \A q \in Addr \X Slot : q # p => ItemAt(s.lchunk, q) = ItemAt(e.lchunk, q)
      /\ \A d \in Addr \ {p[1]} : s.lchunk[d] = e.lchunk[d] /\ s.vlchunk[d] = e.vlchunk[d]
  BY <1>4 DEF Put
<1>10. \A q \in m.v.tree \X Slot : q # p => ItemAt(s.lchunk, q) = ItemAt(m.lchunk, q)
  <2> TAKE q \in m.v.tree \X Slot
  <2> HAVE q # p
  <2>1. q[1] \in Addr \cap owned /\ q \in Addr \X Slot
    BY <1>1
  <2> QED
    BY <1>2, <1>9, <2>1 DEF ItemAt
<1>11. \A d \in owned \ m.v.tree : s.lchunk[d] = m.lchunk[d] /\ s.vlchunk[d] = m.vlchunk[d]
  <2> TAKE d \in owned \ m.v.tree
  <2>1. d # p[1] /\ d \in Addr \cap owned /\ d # m.v.tail
    BY <1>1
  <2> QED
    BY <1>2, <1>9, <2>1
<1>12. MarkedIn(m.lchunk, m.vlchunk, m.v.tree) \subseteq Objects(m.lchunk, m.v.tree)
  BY MarkedAreObjects
<1> QED
  BY <1>1, <1>2, <1>5, <1>6, <1>8, <1>9, <1>10, <1>11, <1>12 DEF e, p, s

LEMMA ObjectAppendedInOrder ==
  ASSUME NEW m \in MemType, NEW owned \in SUBSET Addr, NEW r \in Addr,
         m.v.tail \in Addr, m.v.tail \in m.v.tree,
         TailFull(m) => CanAlloc(m, 1),
         m.v.tree \cup {r} \subseteq owned,
         Shared(m.free, owned, m.used),
         m.v.num_of_chunks = Cardinality(m.v.tree) + 1,
         \A c \in m.v.tree : ChunkInOrder(m.lchunk, m.vlchunk, c),
         NEW item \in Item, item # Blank, item.type # "FREE_LOG",
         LogInOrder(m.lchunk, m.vlchunk, m.v, r)
  PROVE  LogInOrder(Appended(m, item).lchunk, Appended(m, item).vlchunk,
                    Counted(Appended(m, item).v), r)
<1> DEFINE e == Extend(m)
           p == Place(e)
           s == Appended(m, item)
           T == e.v.tree
           w == Counted(s.v)
<1>0. m.v.tree \subseteq owned
  OBVIOUS
<1>1. /\ e \in MemType
      /\ T \in SUBSET Addr
      /\ e.v.tail \in T
      /\ p \in ItemAddr
      /\ p \in T \X Slot
      /\ p[2] = count_to_index(e.vlchunk[p[1]].count)
  BY <1>0, RoomInOrder
<1>2. \A c \in T : ChunkInOrder(e.lchunk, e.vlchunk, c)
  BY <1>0, ExtendKeepsItems
<1>3. LogInOrder(e.lchunk, e.vlchunk, e.v, r)
  BY ExtendInOrder
<1>4. s = Store(e, p, item)
  BY DEF Appended
<1> HIDE DEF e, p, s
<1>5. Put(e, s, p, item)
  BY <1>1, <1>4, StorePuts
<1>6. s.v = e.v
  BY <1>1, <1>4, StoreOK
<1>7. /\ ItemAt(e.lchunk, p) = Blank
      /\ p[2] \notin e.vlchunk[p[1]].bitmap
  BY <1>1, <1>2, <1>5, PutInOrder
<1>8. MarkedIn(e.lchunk, e.vlchunk, T) \subseteq Objects(e.lchunk, T)
  BY <1>2, MarkedAreObjects
<1>9. FreesInOrder(e.lchunk, e.vlchunk, T)
  BY <1>3 DEF LogInOrder
<1>10. /\ p \notin Objects(e.lchunk, T)
       /\ Objects(s.lchunk, T) = Objects(e.lchunk, T) \cup {p}
       /\ FreesInOrder(s.lchunk, s.vlchunk, T)
  <2>1. p \in T \X Slot /\ T \in SUBSET Addr
    BY <1>1
  <2>2. /\ p \notin Objects(e.lchunk, T)
        /\ Objects(s.lchunk, T) = Objects(e.lchunk, T) \cup {p}
    BY <1>5, <1>7, <1>8, <2>1, PutObject
  <2>3. FreesInOrder(e.lchunk, e.vlchunk, T) => FreesInOrder(s.lchunk, s.vlchunk, T)
    BY <1>5, <1>7, <1>8, <2>1, PutObject
  <2> QED
    BY <1>9, <2>2, <2>3
<1>11. \A d \in Addr : /\ s.lchunk[d].next = e.lchunk[d].next
                       /\ s.lchunk[d].id = e.lchunk[d].id
                       /\ s.vlchunk[d].id = e.vlchunk[d].id
  BY <1>5 DEF Put
<1>12. Cardinality(Objects(s.lchunk, T)) = (Cardinality(Objects(e.lchunk, T)) + 1) % WordRange
  BY <1>1, <1>10, CountedOne
<1>13. e.v \in VLogType
  BY <1>1 DEF MemType
<1>14. /\ w.tree = e.v.tree /\ w.tail = e.v.tail
       /\ w.global_lchunk_id = e.v.global_lchunk_id
       /\ w.num_of_items = (e.v.num_of_items + 1) % WordRange
  BY <1>6, <1>13 DEF Counted, VLogType
<1>15. e.v.num_of_items = Cardinality(Objects(e.lchunk, T))
  BY <1>3 DEF LogInOrder
<1>16. w.num_of_items = Cardinality(Objects(s.lchunk, T))
  BY <1>12, <1>14, <1>15
<1> HIDE DEF w
<1>17. LogInOrder(s.lchunk, s.vlchunk, w, r)
  <2>1. r \in Addr /\ e.v.tree \subseteq Addr /\ e.v.tail \in e.v.tree
    BY <1>1
  <2>2. FreesInOrder(s.lchunk, s.vlchunk, e.v.tree)
    BY <1>10
  <2>3. /\ w.tree = e.v.tree /\ w.tail = e.v.tail
        /\ w.global_lchunk_id = e.v.global_lchunk_id
        /\ w.num_of_items = Cardinality(Objects(s.lchunk, e.v.tree))
    BY <1>14, <1>16
  <2> HIDE DEF T
  <2> QED
    BY ONLY <1>3, <1>11, <2>1, <2>2, <2>3, PutKeepsOrder
<1> QED
  BY <1>17 DEF s, w

----------------------------------------------------------------------------
(* The first state. *)

LEMMA InitDurable == ASSUME Init PROVE DurableInv
<1> DEFINE m == [lchunk |-> [c \in Addr |-> NewLChunk(0)],
                 vlchunk |-> [c \in Addr |-> NewVLChunk(0)],
                 free |-> <<>>, used |-> 1,
                 v |-> [BlankVLog EXCEPT !.global_lchunk_id = 1]]
           e == NewLog(m)
<1>1. /\ lchunk = e.lchunk
      /\ vlchunk = e.vlchunk
      /\ head = [alt |-> 0, root |-> <<1, Null>>]
      /\ vlog = e.v
      /\ gc = Idle
      /\ live = {}
      /\ passes = [slow |-> 0, fast |-> 0]
      /\ status = "run"
  BY DEF Init
<1>2. /\ m \in MemType /\ m.free = <<>> /\ m.used = 1
      /\ m.v.log = 0 /\ m.v.tree = {}
      /\ m.v.num_of_items = 0 /\ m.v.num_of_chunks = 0
  <2>1. /\ [c \in Addr |-> NewLChunk(0)] \in [Addr -> LChunk]
        /\ [c \in Addr |-> NewVLChunk(0)] \in [Addr -> VLChunk]
    BY BlankTypes
  <2>2. /\ [BlankVLog EXCEPT !.global_lchunk_id = 1] \in VLogType
        /\ [BlankVLog EXCEPT !.global_lchunk_id = 1].log = 0
        /\ [BlankVLog EXCEPT !.global_lchunk_id = 1].tree = {}
        /\ [BlankVLog EXCEPT !.global_lchunk_id = 1].num_of_items = 0
        /\ [BlankVLog EXCEPT !.global_lchunk_id = 1].num_of_chunks = 0
    BY SizesAssumption, PolicyAssumption DEF BlankVLog, VLogType, Null
  <2>3. 1 \in Addr /\ <<>> \in Seq(Addr)
    BY SizesAssumption DEF Addr
  <2> QED
    BY <2>1, <2>2, <2>3 DEF MemType
<1> HIDE DEF m
<1>3. CanAlloc(m, 2)
  <2>1. Len(m.free) = 0
    BY <1>2
  <2> QED
    BY <1>2, <2>1, SizesAssumption DEF CanAlloc
<1>4. Shared(m.free, {}, m.used)
  BY <1>2, NoElems DEF Shared
<1>5. NextChunk(m) = 1
  BY <1>2 DEF NextChunk
<1>6. e.v.log = 0
  BY <1>2, <1>3, <1>4, NewLogOK
<1>7. /\ LogInOrder(e.lchunk, e.vlchunk, e.v, 1)
      /\ \A c \in e.v.tree : ChunkInOrder(e.lchunk, e.vlchunk, c)
      /\ MarkedIn(e.lchunk, e.vlchunk, e.v.tree) = {}
  BY <1>2, <1>3, <1>4, <1>5, NewLogInOrder
<1> HIDE DEF e
<1>8. Root(vlog.log) = 1 /\ gc.phase = "idle" /\ InForce = {}
  BY <1>1, <1>6, <1>7 DEF Root, Idle, InForce
<1>9. SlotsInOrder
  BY <1>1, <1>7, <1>8 DEF SlotsInOrder
<1>10. OwnersInForce
  BY <1>1, <1>8 DEF OwnersInForce, Owned
<1>11. MediumInOrder
  BY <1>1, <1>7, <1>8 DEF MediumInOrder
<1>12. PassesCounted
  BY <1>8 DEF PassesCounted
<1> QED
  BY <1>9, <1>10, <1>11, <1>12 DEF DurableInv

----------------------------------------------------------------------------
(* add_log. *)

\* The log in force, as Extend finds it.
LEMMA ReadyMem ==
  ASSUME IndInv, SlotsInOrder, Ready
  PROVE  /\ Mem(vlog) \in MemType
         /\ Mem(vlog).v = vlog
         /\ Mem(vlog).lchunk = lchunk
         /\ Mem(vlog).vlchunk = vlchunk
         /\ vlog.tail \in Addr
         /\ vlog.tail \in vlog.tree
         /\ TailFull(Mem(vlog)) => CanAlloc(Mem(vlog), 1)
         /\ InUse \in SUBSET Addr
         /\ Root(vlog.log) \in Addr
         /\ vlog.tree \cup {Root(vlog.log)} \subseteq InUse
         /\ vlog.tree \subseteq InUse
         /\ Shared(Mem(vlog).free, InUse, Mem(vlog).used)
         /\ vlog.num_of_chunks = Cardinality(vlog.tree) + 1
         /\ \A c \in vlog.tree : ChunkInOrder(lchunk, vlchunk, c)
<1>1. TypeOK /\ vlog \in VLogType
  BY DEF IndInv, TypeOK
<1>2. /\ Mem(vlog) \in MemType /\ Mem(vlog).v = vlog
      /\ Mem(vlog).free = free /\ Mem(vlog).used = used
      /\ Mem(vlog).vlchunk = vlchunk
  BY <1>1, MemTyped
<1>3. Mem(vlog).lchunk = lchunk
  BY DEF Mem
<1>4. /\ InUse \subseteq Addr
      /\ Root(vlog.log) \in Addr
      /\ Shared(free, InUse \cup Held, used)
  BY HeldInAddr
<1>5. Held = {} /\ InUse \cup {} = InUse
  BY DEF Held, Ready
<1>6. Shared(Mem(vlog).free, InUse, Mem(vlog).used)
  BY <1>2, <1>4, <1>5
<1>7. vlog.tail \in vlog.tree /\ vlog.tail \in Addr
  BY <1>1 DEF IndInv, TailInTree, VLogType
<1>8. vlog.num_of_chunks = Cardinality(vlog.tree) + 1
  BY DEF IndInv, ChunksCounted
<1>9. TailFull(Mem(vlog)) => CanAlloc(Mem(vlog), 1)
  BY DEF Ready
<1>10. vlog.tree \cup {Root(vlog.log)} \subseteq InUse
  BY DEF InUse
<1>11. \A c \in vlog.tree : ChunkInOrder(lchunk, vlchunk, c)
  BY DEF SlotsInOrder
<1> QED
  BY <1>2, <1>3, <1>4, <1>6, <1>7, <1>8, <1>9, <1>10, <1>11

LEMMA ObjItemIsOne ==
  ASSUME NEW o \in Objs
  PROVE  /\ ObjItem(o) \in Item
         /\ ObjItem(o) # Blank
         /\ ObjItem(o).type # "FREE_LOG"
         /\ ObjItem(o).ptr = o
<1>1. ObjItem(o).ptr = o /\ ObjItem(o).type # "FREE_LOG"
  BY DEF ObjItem
<1>2. Blank.ptr = NoItem
  BY DEF Blank
<1>3. ObjItem(o) # Blank
  BY <1>1, <1>2, ObjsAssumption
<1> QED
  BY <1>1, <1>3, ObjItemType

LEMMA LogAllocDurable ==
  ASSUME IndInv, DurableInv, NEW o \in Objs, LogAlloc(o)
  PROVE  DurableInv'
<1> DEFINE w == Mem(vlog)
           e == Extend(w)
           p == Place(e)
           s == Appended(w, ObjItem(o))
           r == Root(vlog.log)
<1>1. /\ Ready
      /\ o \notin live
      /\ Write(s)
      /\ vlog' = Counted(s.v)
      /\ logOf' = [logOf EXCEPT ![o] = p]
      /\ live' = live \cup {o}
      /\ UNCHANGED <<head, new, gc, passes, status>>
  BY DEF LogAlloc, Appended
<1>2. SlotsInOrder /\ OwnersInForce /\ MediumInOrder
  BY DEF DurableInv
<1>3. /\ w \in MemType /\ w.v = vlog /\ w.lchunk = lchunk /\ w.vlchunk = vlchunk
      /\ vlog.tail \in Addr /\ vlog.tail \in vlog.tree
      /\ TailFull(w) => CanAlloc(w, 1)
      /\ InUse \in SUBSET Addr /\ r \in Addr
      /\ vlog.tree \cup {r} \subseteq InUse
      /\ vlog.tree \subseteq InUse
      /\ Shared(w.free, InUse, w.used)
      /\ vlog.num_of_chunks = Cardinality(vlog.tree) + 1
      /\ \A c \in vlog.tree : ChunkInOrder(lchunk, vlchunk, c)
  BY <1>1, <1>2, ReadyMem
<1>4. /\ ObjItem(o) \in Item /\ ObjItem(o) # Blank
      /\ ObjItem(o).type # "FREE_LOG" /\ ObjItem(o).ptr = o
  BY ObjItemIsOne
<1>5. e.v.log = vlog.log
  BY <1>1, ReadyOK
<1> HIDE DEF w
<1>6. /\ s.v = e.v
      /\ \A c \in e.v.tree : ChunkInOrder(s.lchunk, s.vlchunk, c)
      /\ p \notin Objects(lchunk, vlog.tree)
      /\ MarkedIn(s.lchunk, s.vlchunk, e.v.tree)
           = MarkedIn(lchunk, vlchunk, vlog.tree) \cup {p}
      /\ MarkedIn(lchunk, vlchunk, vlog.tree) \subseteq Objects(lchunk, vlog.tree)
      /\ ItemAt(s.lchunk, p) = ObjItem(o)
      /\ \A q \in vlog.tree \X Slot :
           q # p => ItemAt(s.lchunk, q) = ItemAt(lchunk, q)
  <2>1. /\ w.v.tail \in Addr /\ w.v.tail \in w.v.tree
        /\ w.v.tree \subseteq InUse
        /\ w.v.num_of_chunks = Cardinality(w.v.tree) + 1
        /\ \A c \in w.v.tree : ChunkInOrder(w.lchunk, w.vlchunk, c)
    BY <1>3
  <2>2. /\ s.v = e.v
        /\ \A c \in e.v.tree : ChunkInOrder(s.lchunk, s.vlchunk, c)
        /\ p \notin Objects(w.lchunk, w.v.tree)
        /\ MarkedIn(s.lchunk, s.vlchunk, e.v.tree)
             = MarkedIn(w.lchunk, w.vlchunk, w.v.tree) \cup {p}
        /\ MarkedIn(w.lchunk, w.vlchunk, w.v.tree) \subseteq Objects(w.lchunk, w.v.tree)
        /\ ItemAt(s.lchunk, p) = ObjItem(o)
        /\ \A q \in w.v.tree \X Slot :
             q # p => ItemAt(s.lchunk, q) = ItemAt(w.lchunk, q)
    BY <1>3, <1>4, <2>1, ObjectAppended
  <2> QED
    BY <1>3, <2>2
<1>7. LogInOrder(lchunk, vlchunk, vlog, r)
        => LogInOrder(s.lchunk, s.vlchunk, Counted(s.v), r)
  BY <1>3, <1>4, ObjectAppendedInOrder
<1>8. e \in MemType /\ e.v \in VLogType
  <2>1. e \in MemType
    BY <1>3, RoomInOrder
  <2> QED
    BY <2>1 DEF MemType
<1> HIDE DEF e, p, s
<1>9. vlog'.tree = e.v.tree /\ vlog'.log = vlog.log
  BY <1>1, <1>5, <1>6, <1>8, CountedType
<1>10. lchunk' = s.lchunk /\ vlchunk' = s.vlchunk
  BY <1>1 DEF Write
<1>11. gc.phase = "idle" /\ gc'.phase = "idle"
  BY <1>1 DEF Ready
<1>12. Root(vlog.log)' = r
  BY <1>1, <1>9 DEF Root
<1> HIDE DEF r
<1>13. InForce' = InForce \cup {p}
  BY <1>6, <1>9, <1>10 DEF InForce
<1>14. SlotsInOrder'
  BY <1>6, <1>9, <1>10, <1>11 DEF SlotsInOrder
<1>15. OwnersInForce'
  <2> SUFFICES ASSUME passes.fast = 0 \/ passes.slow = 0
               PROVE  Owned(lchunk', InForce', logOf', live')
    BY <1>1 DEF OwnersInForce
  <2>1. Owned(lchunk, InForce, logOf, live)
    BY <1>2, <1>11 DEF OwnersInForce
  <2>2. \A q \in InForce : ItemAt(lchunk', q) = ItemAt(lchunk, q)
    <3>1. \A q \in InForce : q \in vlog.tree \X Slot /\ q # p
      BY <1>6 DEF InForce, MarkedIn
    <3> QED
      BY <1>6, <1>10, <3>1
  <2>3. ItemAt(lchunk', p).ptr = o
    BY <1>4, <1>6, <1>10
  <2>4. /\ live \in SUBSET Objs /\ o \in Objs \ live
        /\ logOf \in [Objs -> ItemAddr \cup {NoItem}]
    BY <1>1 DEF IndInv, TypeOK
  <2>5. Owned(lchunk', InForce \cup {p}, [logOf EXCEPT ![o] = p], live \cup {o})
    BY <2>1, <2>2, <2>3, <2>4, OwnedMore
  <2> QED
    BY <1>1, <1>13, <2>5
<1>16. MediumInOrder'
  <2> SUFFICES ASSUME passes.fast = 0
               PROVE  /\ status \in {"run", "log.c:52 log file is full"}
                      /\ LogInOrder(lchunk', vlchunk', vlog', r)
                      /\ {ItemAt(lchunk', q).ptr : q \in InForce'} = live'
    BY <1>1, <1>11, <1>12 DEF MediumInOrder
  <2>1. LogInOrder(lchunk, vlchunk, vlog, r)
    BY <1>2 DEF MediumInOrder, r
  <2>2. LogInOrder(lchunk', vlchunk', vlog', r)
    BY <1>1, <1>7, <1>10, <2>1
  <2>3. Owned(lchunk', InForce', logOf', live')
    BY <1>1, <1>11, <1>15 DEF OwnersInForce
  <2>4. {ItemAt(lchunk', q).ptr : q \in InForce'} = live'
    BY <2>3, OwnedIsImage
  <2> QED
    BY <1>1, <2>2, <2>4 DEF Ready
<1>17. PassesCounted'
  BY <1>11 DEF PassesCounted
<1> QED
  BY <1>14, <1>15, <1>16, <1>17 DEF DurableInv

LEMMA DecideOutcome ==
  ASSUME NEW v, Decide(v), passes \in [slow : Nat, fast : Nat]
  PROVE  /\ gc'.phase \in {"idle", "slow_begin", "fast_scan"}
         /\ passes'.fast = 0 => passes.fast = 0 /\ gc'.phase # "fast_scan"
         /\ passes'.slow = 0 => passes.slow = 0 /\ gc'.phase # "slow_begin"
<1>1. CASE gc' = Idle /\ passes' = passes
  BY <1>1 DEF Idle
<1>2. CASE /\ gc' = [Idle EXCEPT !.phase = "slow_begin"]
           /\ passes' = [passes EXCEPT !.slow = @ + 1]
  <2>1. gc'.phase = "slow_begin"
    BY <1>2 DEF Idle
  <2>2. passes'.slow = passes.slow + 1 /\ passes'.fast = passes.fast
    BY <1>2
  <2> QED
    BY <2>1, <2>2
<1>3. CASE /\ gc' = [Idle EXCEPT !.phase = "fast_scan", !.todo = v.tree]
           /\ passes' = [passes EXCEPT !.fast = @ + 1]
  <2>1. gc'.phase = "fast_scan"
    BY <1>3 DEF Idle
  <2>2. passes'.fast = passes.fast + 1 /\ passes'.slow = passes.slow
    BY <1>3
  <2> QED
    BY <2>1, <2>2
<1> QED
  BY <1>1, <1>2, <1>3 DEF Decide

LEMMA TickedKeeps ==
  ASSUME NEW v \in VLogType
  PROVE  /\ Ticked(v).tree = v.tree
         /\ Ticked(v).tail = v.tail
         /\ Ticked(v).log = v.log
         /\ Ticked(v).global_lchunk_id = v.global_lchunk_id
         /\ Ticked(v).num_of_items = v.num_of_items
  BY DEF Ticked, VLogType

(* A free item is appended, its item's bit cleared first. *)
LEMMA ClearedInOrder ==
  ASSUME NEW m \in MemType, NEW a \in ItemAddr, NEW T \in SUBSET Addr,
         \A c \in T : ChunkInOrder(m.lchunk, m.vlchunk, c)
  PROVE  \A c \in T : ChunkInOrder(ClearBit(m, a).lchunk, ClearBit(m, a).vlchunk, c)
<1> DEFINE n == ClearBit(m, a)
<1>1. /\ n.lchunk = m.lchunk
      /\ n.vlchunk[a[1]].count = m.vlchunk[a[1]].count
      /\ n.vlchunk[a[1]].bitmap = m.vlchunk[a[1]].bitmap \ {a[2]}
      /\ \A d \in Addr \ {a[1]} : n.vlchunk[d] = m.vlchunk[d]
  BY ClearBitContent
<1> HIDE DEF n
<1>2. ASSUME NEW c \in T PROVE ChunkInOrder(n.lchunk, n.vlchunk, c)
  <2>1. ChunkInOrder(m.lchunk, m.vlchunk, c) /\ c \in Addr
    OBVIOUS
  <2>2. /\ n.lchunk[c].items = m.lchunk[c].items
        /\ n.vlchunk[c].count = m.vlchunk[c].count
        /\ n.vlchunk[c].bitmap \subseteq m.vlchunk[c].bitmap
    BY <1>1, <2>1
  <2> QED
    BY <2>1, <2>2, SameOrder
<1> QED
  BY <1>2 DEF n

LEMMA LogFreeDurable ==
  ASSUME IndInv, DurableInv, NEW o \in Objs, LogFree(o)
  PROVE  DurableInv'
<1> DEFINE w == Mem(vlog)
           m == Extend(w)
           a == logOf[o]
           n == ClearBit(m, a)
           p == Place(n)
           id == n.vlchunk[a[1]].id
           s == Store(n, p, FreeItem(a, id))
           r == Root(vlog.log)
           T == m.v.tree
<1>1. /\ Ready
      /\ o \in live
      /\ a[1] \in T
      /\ Write(s)
      /\ vlog' = Ticked(s.v)
      /\ Decide(s.v)
      /\ live' = live \ {o}
      /\ UNCHANGED <<head, new, logOf, status>>
  BY DEF LogFree
<1>2. SlotsInOrder /\ OwnersInForce /\ MediumInOrder
  BY DEF DurableInv
<1>3. /\ w \in MemType /\ w.v = vlog /\ w.lchunk = lchunk /\ w.vlchunk = vlchunk
      /\ vlog.tail \in Addr /\ vlog.tail \in vlog.tree
      /\ TailFull(w) => CanAlloc(w, 1)
      /\ InUse \in SUBSET Addr /\ r \in Addr
      /\ vlog.tree \cup {r} \subseteq InUse
      /\ vlog.tree \subseteq InUse
      /\ Shared(w.free, InUse, w.used)
      /\ \A c \in vlog.tree : ChunkInOrder(lchunk, vlchunk, c)
  BY <1>1, <1>2, ReadyMem
<1>4. /\ m \in MemType /\ ~TailFull(m) /\ m.v.log = vlog.log
      /\ m.v.tail \in Addr /\ m.v.tail \in T
  BY <1>1, ReadyOK
<1> HIDE DEF w
<1>5. /\ \A c \in T : ChunkInOrder(m.lchunk, m.vlchunk, c)
      /\ MarkedIn(m.lchunk, m.vlchunk, T) = InForce
      /\ vlog.tree \subseteq T
      /\ \A d \in Addr \cap InUse : m.lchunk[d].items = lchunk[d].items
  <2>1. /\ w.v.tail \in Addr /\ w.v.tail \in w.v.tree
        /\ w.v.tree \subseteq InUse
        /\ \A c \in w.v.tree : ChunkInOrder(w.lchunk, w.vlchunk, c)
    BY <1>3
  <2>2. /\ \A c \in T : ChunkInOrder(m.lchunk, m.vlchunk, c)
        /\ MarkedIn(m.lchunk, m.vlchunk, T) = MarkedIn(w.lchunk, w.vlchunk, w.v.tree)
        /\ w.v.tree \subseteq T
        /\ \A d \in Addr \cap InUse : m.lchunk[d].items = w.lchunk[d].items
    BY <1>3, <2>1, ExtendKeepsItems
  <2> QED
    BY <1>3, <2>2 DEF InForce
<1>6. LogInOrder(lchunk, vlchunk, vlog, r) => LogInOrder(m.lchunk, m.vlchunk, m.v, r)
  <2> SUFFICES ASSUME LogInOrder(lchunk, vlchunk, vlog, r)
               PROVE  LogInOrder(m.lchunk, m.vlchunk, m.v, r)
    OBVIOUS
  <2>1. /\ w.v.tail \in Addr /\ w.v.tail \in w.v.tree
        /\ w.v.tree \cup {r} \subseteq InUse
        /\ \A c \in w.v.tree : ChunkInOrder(w.lchunk, w.vlchunk, c)
        /\ LogInOrder(w.lchunk, w.vlchunk, w.v, r)
    BY <1>3
  <2> QED
    BY <1>3, <2>1, ExtendInOrder
<1> HIDE DEF m
<1>7. m.v \in VLogType /\ T \in SUBSET Addr
  BY <1>4 DEF MemType, VLogType
<1>8. a \in ItemAddr
  <2>1. a \in ItemAddr \cup {NoItem}
    BY DEF IndInv, TypeOK
  <2>2. a[1] \in Addr
    BY <1>1, <1>7
  <2>3. a # NoItem
    BY <2>2, BlankTypes DEF NoItem
  <2> QED
    BY <2>1, <2>3
<1> HIDE DEF a
<1>9. n \in MemType /\ n.v = m.v /\ ~TailFull(n)
  BY <1>4, <1>8, ClearBitOK
<1>10. /\ n.lchunk = m.lchunk
       /\ n.vlchunk[a[1]].id = m.vlchunk[a[1]].id
       /\ \A d \in Addr \ {a[1]} : n.vlchunk[d] = m.vlchunk[d]
  BY <1>4, <1>8, ClearBitContent
<1>11. \A c \in T : ChunkInOrder(n.lchunk, n.vlchunk, c)
  BY <1>4, <1>5, <1>7, <1>8, ClearedInOrder
<1>12. n.vlchunk[a[1]].id \in Nat
  BY <1>8, <1>9 DEF MemType, VLChunk, ItemAddr
<1> HIDE DEF T
<1>13. /\ p \in ItemAddr /\ p \in T \X Slot
       /\ p[2] = count_to_index(n.vlchunk[p[1]].count)
  <2>1. p \in ItemAddr /\ p[1] = n.v.tail /\ p[2] \in Slot
    BY <1>4, <1>9, PlaceOK
  <2>2. p = <<n.v.tail, count_to_index(n.vlchunk[n.v.tail].count)>>
    BY DEF Place
  <2> QED
    BY <1>4, <1>9, <2>1, <2>2
<1>14. /\ FreeItem(a, id) \in Item /\ FreeItem(a, id).type = "FREE_LOG"
       /\ FreeItem(a, id) # Blank
  <2>1. FreeItem(a, id) \in Item /\ FreeItem(a, id).type = "FREE_LOG"
    BY <1>8, <1>12, FreeItemType
  <2> QED
    BY <2>1 DEF Blank
<1> HIDE DEF n
<1> DEFINE item == FreeItem(a, id)
<1> HIDE DEF p, id
<1>15. Put(n, s, p, item) /\ s.v = m.v
  BY <1>9, <1>13, <1>14, StorePuts, StoreOK
<1> HIDE DEF s
<1>16. /\ ItemAt(n.lchunk, p) = Blank
       /\ \A c \in T : ChunkInOrder(s.lchunk, s.vlchunk, c)
  BY <1>7, <1>9, <1>11, <1>13, <1>14, <1>15, PutInOrder
<1>17. ItemAt(m.lchunk, p) = Blank /\ p[2] \notin m.vlchunk[p[1]].bitmap
  <2>1. ItemAt(m.lchunk, p) = Blank
    BY <1>10, <1>16
  <2>2. p[1] \in T /\ p[2] \in Slot
    BY <1>13
  <2> QED
    BY <1>5, <2>1, <2>2 DEF ChunkInOrder, ItemAt
<1>18. /\ vlog'.tree = T /\ vlog'.tail = m.v.tail /\ vlog'.log = vlog.log
       /\ vlog'.global_lchunk_id = m.v.global_lchunk_id
       /\ vlog'.num_of_items = m.v.num_of_items
  BY <1>1, <1>4, <1>7, <1>15, TickedKeeps DEF T
<1>19. lchunk' = s.lchunk /\ vlchunk' = s.vlchunk
  BY <1>1 DEF Write
<1>20. /\ gc.phase = "idle" /\ gc'.phase \in {"idle", "slow_begin", "fast_scan"}
       /\ passes'.fast = 0 => passes.fast = 0 /\ gc'.phase # "fast_scan"
       /\ passes'.slow = 0 => passes.slow = 0 /\ gc'.phase # "slow_begin"
  <2>1. passes \in [slow : Nat, fast : Nat]
    BY DEF IndInv, TypeOK
  <2> QED
    BY <1>1, <2>1, DecideOutcome DEF Ready
<1>21. Root(vlog.log)' = r
  BY <1>1, <1>18 DEF Root
<1>22. SlotsInOrder'
  BY <1>16, <1>18, <1>19, <1>20 DEF SlotsInOrder
<1>23. MarkedIn(m.lchunk, m.vlchunk, T) \subseteq Objects(m.lchunk, T)
  BY <1>5, MarkedAreObjects
<1>24. ASSUME a \in InForce
       PROVE  /\ Objects(s.lchunk, T) = Objects(m.lchunk, T)
              /\ MarkedIn(s.lchunk, s.vlchunk, T) = InForce \ {a}
              /\ FreesInOrder(m.lchunk, m.vlchunk, T) /\ id = m.lchunk[a[1]].id
                   => FreesInOrder(s.lchunk, s.vlchunk, T)
  <2>1. a \in MarkedIn(m.lchunk, m.vlchunk, T) /\ a \in Objects(m.lchunk, T)
    BY <1>5, <1>23, <1>24
  <2>2. m \in MemType /\ T \in SUBSET Addr /\ p \in T \X Slot
    BY <1>4, <1>7, <1>13
  <2>3. Put(ClearBit(m, a), s, p, FreeItem(a, id))
    BY <1>15 DEF n
  <2>4. Objects(s.lchunk, T) = Objects(m.lchunk, T)
    BY ONLY <1>17, <2>1, <2>2, <2>3, PutFreeObjects
  <2>5. MarkedIn(s.lchunk, s.vlchunk, T) = MarkedIn(m.lchunk, m.vlchunk, T) \ {a}
    BY ONLY <1>17, <2>1, <2>2, <2>3, PutFreeBits
  <2>6. ASSUME FreesInOrder(m.lchunk, m.vlchunk, T), id = m.lchunk[a[1]].id
        PROVE  FreesInOrder(s.lchunk, s.vlchunk, T)
    BY ONLY <1>17, <2>1, <2>2, <2>3, <2>6, PutFree
  <2> QED
    BY <1>5, <2>4, <2>5, <2>6
<1>25. \A q \in InForce : ItemAt(lchunk', q) = ItemAt(lchunk, q)
  <2> TAKE q \in InForce
  <2>1. q \in vlog.tree \X Slot
    BY DEF InForce, MarkedIn
  <2>2. q # p
    BY <1>5, <1>17, <1>23 DEF Objects
  <2>3. q \in Addr \X Slot /\ q[1] \in Addr \cap InUse
    BY <1>3, <2>1
  <2>4. ItemAt(s.lchunk, q) = ItemAt(m.lchunk, q)
    BY <1>10, <1>15, <2>2, <2>3 DEF Put
  <2>5. ItemAt(m.lchunk, q) = ItemAt(lchunk, q)
    BY <1>5, <2>3 DEF ItemAt
  <2> QED
    BY <1>19, <2>4, <2>5
<1>26. ASSUME passes'.fast = 0 \/ passes'.slow = 0
       PROVE  /\ a \in InForce
              /\ Owned(lchunk', InForce', logOf', live')
  <2>1. Owned(lchunk, InForce, logOf, live)
    BY <1>2, <1>20, <1>26 DEF OwnersInForce
  <2>2. a \in InForce
    BY <1>1, <2>1 DEF Owned, a
  <2>3. InForce' = InForce \ {a}
    BY <1>18, <1>19, <1>24, <2>2 DEF InForce
  <2>4. Owned(lchunk', InForce \ {logOf[o]}, logOf, live \ {o})
    BY <1>1, <1>25, <2>1, OwnedLess
  <2> QED
    BY <1>1, <2>2, <2>3, <2>4 DEF a
<1>27. OwnersInForce'
  BY <1>26 DEF OwnersInForce
<1>28. MediumInOrder'
  <2> SUFFICES ASSUME passes'.fast = 0
               PROVE  /\ status \in {"run", "log.c:52 log file is full"}
                      /\ LogInOrder(lchunk', vlchunk', vlog', r)
                      /\ {ItemAt(lchunk', q).ptr : q \in InForce'} = live'
    BY <1>1, <1>20, <1>21 DEF MediumInOrder
  <2>1. passes.fast = 0 /\ a \in InForce /\ Owned(lchunk', InForce', logOf', live')
    BY <1>20, <1>26
  <2>2. LogInOrder(lchunk, vlchunk, vlog, r)
    BY <1>2, <2>1 DEF MediumInOrder
  <2>3. LogInOrder(m.lchunk, m.vlchunk, m.v, r)
    BY <1>6, <2>2
  <2>4. /\ FreesInOrder(m.lchunk, m.vlchunk, T)
        /\ m.lchunk[a[1]].id = m.vlchunk[a[1]].id
        /\ m.v.num_of_items = Cardinality(Objects(m.lchunk, T))
    BY <1>1, <2>3 DEF LogInOrder, Numbered, T
  <2>5. id = m.lchunk[a[1]].id
    BY <1>10, <2>4 DEF id
  <2>6. FreesInOrder(s.lchunk, s.vlchunk, T) /\ Objects(s.lchunk, T) = Objects(m.lchunk, T)
    BY <1>24, <2>1, <2>4, <2>5
  <2>7. \A d \in Addr : /\ s.lchunk[d].next = m.lchunk[d].next
                        /\ s.lchunk[d].id = m.lchunk[d].id
                        /\ s.vlchunk[d].id = m.vlchunk[d].id
    BY <1>10, <1>15 DEF Put
  <2>8. /\ r \in Addr /\ m.v.tree \subseteq Addr /\ m.v.tail \in m.v.tree
        /\ FreesInOrder(s.lchunk, s.vlchunk, m.v.tree)
    BY <1>3, <1>4, <1>7, <2>6 DEF T
  <2>9. /\ vlog'.tree = m.v.tree /\ vlog'.tail = m.v.tail
        /\ vlog'.global_lchunk_id = m.v.global_lchunk_id
        /\ vlog'.num_of_items = Cardinality(Objects(s.lchunk, m.v.tree))
    BY <1>18, <2>4, <2>6 DEF T
  <2> HIDE DEF r
  <2>10. LogInOrder(s.lchunk, s.vlchunk, vlog', r)
    BY ONLY <2>3, <2>7, <2>8, <2>9, PutKeepsOrder
  <2>11. {ItemAt(lchunk', q).ptr : q \in InForce'} = live'
    BY <2>1, OwnedIsImage
  <2> QED
    BY <1>1, <1>19, <2>10, <2>11 DEF Ready
<1>29. PassesCounted'
  BY <1>20 DEF PassesCounted
<1> QED
  BY <1>22, <1>27, <1>28, <1>29 DEF DurableInv

\* Nothing happens to the chunks of the log in force.
LEMMA QuietDurable ==
  ASSUME DurableInv, PassesCounted',
         UNCHANGED <<lchunk, vlchunk, head, vlog, logOf, live, passes>>,
         gc.phase # "slow_walk", gc'.phase # "slow_walk",
         passes.fast = 0 => status' \in {"run", "log.c:52 log file is full"}
  PROVE  DurableInv'
<1>1. SlotsInOrder /\ OwnersInForce /\ MediumInOrder
  BY DEF DurableInv
<1>2. Root(vlog.log)' = Root(vlog.log)
  BY DEF Root
<1>3. InForce' = InForce
  BY DEF InForce
<1>4. SlotsInOrder'
  BY <1>1 DEF SlotsInOrder
<1>5. OwnersInForce'
  BY <1>1, <1>3 DEF OwnersInForce
<1>6. MediumInOrder'
  BY <1>1, <1>2, <1>3 DEF MediumInOrder
<1> QED
  BY <1>4, <1>5, <1>6 DEF DurableInv

\* Only the status, or a variable that is not spoken of, changes.
LEMMA StatusDurable ==
  ASSUME DurableInv,
         UNCHANGED <<lchunk, vlchunk, head, vlog, new, gc, logOf, live, passes>>,
         passes.fast = 0 => status' \in {"run", "log.c:52 log file is full"}
  PROVE  DurableInv'
<1>1. SlotsInOrder /\ PassesCounted /\ OwnersInForce /\ MediumInOrder
  BY DEF DurableInv
<1>2. Root(vlog.log)' = Root(vlog.log) /\ Root(new.log)' = Root(new.log)
  BY DEF Root
<1>3. InForce' = InForce
  BY DEF InForce
<1>4. SlotsInOrder' /\ PassesCounted'
  BY <1>1 DEF SlotsInOrder, PassesCounted
<1>5. OwnersInForce'
  BY <1>1, <1>3 DEF OwnersInForce
<1>6. WalkInOrder => WalkInOrder'
  <2>1. ASSUME NEW s, NEW k PROVE ToCopy(s, k)' = ToCopy(s, k)
    BY <1>3 DEF ToCopy
  <2> QED
    BY <1>2, <2>1 DEF WalkInOrder
<1>7. MediumInOrder'
  BY <1>1, <1>2, <1>3, <1>6 DEF MediumInOrder
<1> QED
  BY <1>4, <1>5, <1>7 DEF DurableInv

\* The item of a live object is found in the log, which is thus not empty.
LEMMA LogFreeStopsDurable ==
  ASSUME IndInv, DurableInv, NEW o \in Objs, LogFreeStops(o)
  PROVE  DurableInv'
<1> DEFINE w == Mem(vlog)
           m == Extend(w)
<1>1. /\ Ready
      /\ o \in live
      /\ \/ logOf[o][1] \notin m.v.tree
         \/ m.v.num_of_items = 0
      /\ UNCHANGED <<file, head, vlog, new, gc, owners, passes>>
  BY DEF LogFreeStops
<1>2. SlotsInOrder /\ OwnersInForce /\ MediumInOrder
  BY DEF DurableInv
<1>3. ASSUME passes.fast = 0 PROVE FALSE
  <2>1. /\ w \in MemType /\ w.v = vlog /\ w.lchunk = lchunk /\ w.vlchunk = vlchunk
        /\ vlog.tail \in Addr /\ vlog.tail \in vlog.tree
        /\ TailFull(w) => CanAlloc(w, 1)
        /\ InUse \in SUBSET Addr
        /\ vlog.tree \subseteq InUse
        /\ Shared(w.free, InUse, w.used)
        /\ \A c \in vlog.tree : ChunkInOrder(lchunk, vlchunk, c)
    BY <1>1, <1>2, ReadyMem
  <2> HIDE DEF w
  <2>2. /\ w.v.tail \in Addr /\ w.v.tail \in w.v.tree
        /\ w.v.tree \subseteq InUse
        /\ \A c \in w.v.tree : ChunkInOrder(w.lchunk, w.vlchunk, c)
    BY <2>1
  <2>3. m.v.num_of_items = w.v.num_of_items /\ w.v.tree \subseteq m.v.tree
    BY <2>1, <2>2, ExtendKeepsItems
  <2> HIDE DEF m
  <2>4. m.v.num_of_items = vlog.num_of_items /\ vlog.tree \subseteq m.v.tree
    BY <2>1, <2>3
  <2>5. Owned(lchunk, InForce, logOf, live)
    BY <1>1, <1>2, <1>3 DEF OwnersInForce, Ready
  <2>6. logOf[o] \in InForce
    BY <1>1, <2>5 DEF Owned
  <2>7. logOf[o][1] \in vlog.tree
    BY <2>6 DEF InForce, MarkedIn
  <2>8. logOf[o] \in Objects(lchunk, vlog.tree)
    <3>1. MarkedIn(lchunk, vlchunk, vlog.tree) \subseteq Objects(lchunk, vlog.tree)
      BY <2>1, MarkedAreObjects
    <3> QED
      BY <2>6, <3>1 DEF InForce
  <2>9. vlog.num_of_items = Cardinality(Objects(lchunk, vlog.tree))
    BY <1>2, <1>3 DEF MediumInOrder, LogInOrder
  <2>10. Cardinality(Objects(lchunk, vlog.tree)) # 0
    <3>1. vlog.tree \in SUBSET Addr
      BY <2>1
    <3>2. IsFiniteSet(Objects(lchunk, vlog.tree))
      BY <3>1, FewObjects
    <3> QED
      BY <2>8, <3>2, FS_EmptySet
  <2> QED
    BY <1>1, <2>4, <2>7, <2>9, <2>10
<1>4. UNCHANGED <<lchunk, vlchunk, head, vlog, new, gc, logOf, live, passes>>
  BY <1>1 DEF file, owners
<1> QED
  BY <1>3, <1>4, StatusDurable

LEMMA LogFileFullDurable == ASSUME DurableInv, LogFileFull PROVE DurableInv'
<1>1. /\ UNCHANGED <<lchunk, vlchunk, head, vlog, new, gc, logOf, live, passes>>
      /\ status' \in {"run", "log.c:52 log file is full"}
  BY DEF LogFileFull, file, owners
<1> QED
  BY <1>1, StatusDurable

----------------------------------------------------------------------------
(* slow_GC. *)

\* The chunks of a log that are not written to stay in order.
LEMMA LogStays ==
  ASSUME NEW lc, NEW vc, NEW ln, NEW vn, NEW v, NEW r,
         v.tail \in v.tree, LogInOrder(lc, vc, v, r),
         \A d \in v.tree \cup {r} : ln[d] = lc[d] /\ vn[d] = vc[d]
  PROVE  LogInOrder(ln, vn, v, r)
<1> DEFINE T == v.tree
<1>1. PICK s \in Seq(Addr) : IsChain(lc, s, r, T, v.tail)
  BY DEF LogInOrder
<1>2. \A d \in T \cup {r} : ln[d].next = lc[d].next
  OBVIOUS
<1>3. IsChain(ln, s, r, T, v.tail)
  BY <1>1, <1>2, ChainStays
<1>4. \A d \in T : /\ ln[d].items = lc[d].items
                   /\ ln[d].id = lc[d].id
                   /\ vn[d].bitmap = vc[d].bitmap
                   /\ vn[d].id = vc[d].id
  OBVIOUS
<1>5. /\ FreesInOrder(lc, vc, T) /\ Numbered(lc, vc, T) /\ v.global_lchunk_id # 0
      /\ v.num_of_items = Cardinality(Objects(lc, T))
  BY DEF LogInOrder
<1> HIDE DEF T
<1>6. FreesInOrder(ln, vn, T)
  BY <1>4, <1>5, SameFrees
<1>7. Objects(ln, T) = Objects(lc, T)
  BY <1>4, SameViews
<1>8. Numbered(ln, vn, T)
  BY <1>4, <1>5 DEF Numbered
<1> QED
  BY <1>1, <1>3, <1>5, <1>6, <1>7, <1>8 DEF LogInOrder, T

LEMMA ChunkStays ==
  ASSUME NEW lc, NEW vc, NEW ln, NEW vn, NEW c,
         ln[c] = lc[c], vn[c] = vc[c], ChunkInOrder(lc, vc, c)
  PROVE  ChunkInOrder(ln, vn, c)
  BY DEF ChunkInOrder

LEMMA ItemsStay ==
  ASSUME NEW lc, NEW ln, NEW T, \A d \in T : ln[d] = lc[d]
  PROVE  \A p \in T \X Slot : ItemAt(ln, p) = ItemAt(lc, p)
<1>1. \A p \in T \X Slot : p[1] \in T
  OBVIOUS
<1> QED
  BY <1>1 DEF ItemAt

LEMMA BitsStay ==
  ASSUME NEW lc, NEW vc, NEW ln, NEW vn, NEW T,
         \A d \in T : ln[d] = lc[d] /\ vn[d] = vc[d]
  PROVE  MarkedIn(ln, vn, T) = MarkedIn(lc, vc, T)
<1>1. \A p \in T \X Slot : p[1] \in T
  OBVIOUS
<1>2. \A p \in T \X Slot : ItemAt(ln, p) = ItemAt(lc, p)
  BY <1>1 DEF ItemAt
<1> QED
  BY <1>1, <1>2 DEF MarkedIn

\* The places of a chain after its root.
LEMMA ChainPlaces ==
  ASSUME NEW lc, NEW s \in Seq(Addr), NEW r, NEW T, NEW t \in T, r \notin T,
         IsChain(lc, s, r, T, t)
  PROVE  /\ Len(s) \in Nat /\ Len(s) >= 2 /\ s[1] = r /\ s[Len(s)] = t
         /\ \A j \in 2 .. Len(s) : s[j] \in T /\ s[j] \in Addr
         /\ \A c \in T : \E j \in 2 .. Len(s) : s[j] = c
         /\ \A j \in 1 .. (Len(s) - 1) : lc[s[j]].next = s[j + 1]
         /\ lc[t].next = Null
         /\ \A i, j \in 1 .. Len(s) : s[i] = s[j] => i = j
<1>1. /\ s # <<>> /\ Elems(s) = T \cup {r} /\ s[1] = r /\ s[Len(s)] = t
      /\ \A j \in 1 .. (Len(s) - 1) : lc[s[j]].next = s[j + 1]
      /\ lc[t].next = Null
      /\ \A i, j \in 1 .. Len(s) : s[i] = s[j] => i = j
  BY DEF IsChain, Distinct
<1>2. Len(s) \in Nat /\ Len(s) >= 1
  BY <1>1
<1>3. Len(s) # 1
  BY <1>1
<1>4. \A j \in 1 .. Len(s) : s[j] \in T \cup {r} /\ s[j] \in Addr
  BY <1>1 DEF Elems
<1>5. \A j \in 2 .. Len(s) : s[j] # r
  BY <1>1, <1>2
<1>6. \A j \in 2 .. Len(s) : s[j] \in T /\ s[j] \in Addr
  BY <1>2, <1>4, <1>5
<1>7. ASSUME NEW c \in T PROVE \E j \in 2 .. Len(s) : s[j] = c
  <2>1. PICK j \in 1 .. Len(s) : s[j] = c
    BY <1>1 DEF Elems
  <2>2. j # 1
    BY <1>1, <2>1
  <2> QED
    BY <2>1, <2>2
<1> QED
  BY <1>1, <1>2, <1>3, <1>6, <1>7

\* What is ahead of a place of the chain: the next chunk and what is ahead of it.
LEMMA AheadNext ==
  ASSUME NEW s \in Seq(Addr), NEW k \in 1 .. Len(s)
  PROVE  /\ k < Len(s) => Ahead(s, k) = Ahead(s, k + 1) \cup {s[k + 1]}
         /\ k = Len(s) => Ahead(s, k) = {} /\ Ahead(s, k + 1) = {}
<1>1. Len(s) \in Nat /\ k \in Nat
  OBVIOUS
<1>2. CASE k < Len(s)
  <2>1. (k + 1) .. Len(s) = ((k + 1) + 1) .. Len(s) \cup {k + 1}
    BY <1>1, <1>2
  <2> QED
    BY <1>2, <2>1 DEF Ahead
<1>3. CASE k = Len(s)
  <2>1. (k + 1) .. Len(s) = {} /\ ((k + 1) + 1) .. Len(s) = {}
    BY <1>1, <1>3
  <2> QED
    BY <1>1, <1>3, <2>1 DEF Ahead
<1> QED
  BY <1>1, <1>2, <1>3

LEMMA AddrsOfItems ==
  ASSUME TypeOK
  PROVE  \A p \in InForce : /\ p[1] \in vlog.tree /\ p[1] \in Addr /\ p[2] \in Slot
                            /\ p[2] \in vlchunk[p[1]].bitmap
                            /\ ItemAt(lchunk, p).type # "FREE_LOG"
<1>1. vlog.tree \subseteq Addr
  BY DEF TypeOK, VLogType
<1> QED
  BY <1>1 DEF InForce, MarkedIn

LEMMA SlowBeginDurable ==
  ASSUME IndInv, DurableInv, SlowBegin
  PROVE  DurableInv'
<1>1. /\ gc.phase = "slow_begin"
      /\ CanAlloc(Mem(vlog), 2)
      /\ gc' = Visit(lchunk[Root(vlog.log)].next)
      /\ UNCHANGED <<vlog, logOf, live, passes, status>>
  BY DEF SlowBegin, owners
<1> DEFINE l == 1 - head.alt
           old == Root(vlog.log)
<1>2. PICK t \in 0 .. GCPeriod :
        /\ Write(NewLog(Mem(NewHandle(l, t))))
        /\ new' = NewLog(Mem(NewHandle(l, t))).v
        /\ head' = NewHead(l, NextChunk(Mem(vlog)))
  BY DEF SlowBegin
<1> DEFINE w == Mem(NewHandle(l, t))
           m == NewLog(w)
           r == NextChunk(w)
<1>3. /\ TypeOK /\ head.alt \in {0, 1} /\ vlog.log = head.alt /\ l \in {0, 1}
      /\ head \in [alt : {0, 1}, root : [1 .. 2 -> Addr \cup {Null}]]
      /\ vlog.tail \in vlog.tree /\ old \notin vlog.tree
  BY DEF IndInv, TypeOK, HandleOfHeader, TailInTree, ChunksPartitioned
<1>4. /\ NewHandle(l, t) \in VLogType
      /\ NewHandle(l, t).log = l
      /\ NewHandle(l, t).tree = {}
      /\ NewHandle(l, t).num_of_chunks = 0
  BY <1>3, NewHandleType
<1>5. NewHandle(l, t).num_of_items = 0
  BY DEF NewHandle, BlankVLog
<1>6. /\ w \in MemType /\ w.free = free /\ w.used = used /\ w.v = NewHandle(l, t)
      /\ w.vlchunk = vlchunk /\ w.lchunk = lchunk
  BY <1>3, <1>4, MemTyped DEF Mem
<1>7. CanAlloc(w, 2) /\ NextChunk(Mem(vlog)) = r
  BY <1>1 DEF CanAlloc, NextChunk, Mem
<1>8. /\ InUse \subseteq Addr
      /\ old \in Addr
      /\ Shared(free, InUse, used)
  <2>1. Held = {} /\ InUse \cup {} = InUse
    BY <1>1 DEF Held
  <2> QED
    BY <2>1, HeldInAddr
<1> HIDE DEF w
<1>9. /\ LogInOrder(m.lchunk, m.vlchunk, m.v, r)
      /\ \A c \in m.v.tree : ChunkInOrder(m.lchunk, m.vlchunk, c)
      /\ MarkedIn(m.lchunk, m.vlchunk, m.v.tree) = {}
      /\ \A d \in Addr \cap InUse : m.lchunk[d] = w.lchunk[d] /\ m.vlchunk[d] = w.vlchunk[d]
  BY <1>4, <1>5, <1>6, <1>7, <1>8, NewLogInOrder
<1>10. m.v.log = l
  BY <1>4, <1>6, <1>7, <1>8, NewLogOK
<1>11. /\ lchunk' = m.lchunk
       /\ vlchunk' = m.vlchunk
       /\ new' = m.v
       /\ head' = [head EXCEPT !.root[l + 1] = r]
  BY <1>2, <1>7 DEF Write, NewHead, w
<1> HIDE DEF m, r, old
<1>12. head'.root[vlog.log + 1] = old /\ head'.root[l + 1] = r
  BY <1>3, <1>11 DEF old, Root
<1> HIDE DEF l
<1>13. Root(vlog.log)' = old /\ Root(new.log)' = r
  BY <1>1, <1>10, <1>11, <1>12 DEF Root
<1>14. \A d \in vlog.tree \cup {old} : lchunk'[d] = lchunk[d] /\ vlchunk'[d] = vlchunk[d]
  BY <1>6, <1>8, <1>9, <1>11 DEF InUse, old
<1>15. /\ MarkedIn(lchunk', vlchunk', vlog.tree) = MarkedIn(lchunk, vlchunk, vlog.tree)
       /\ \A p \in vlog.tree \X Slot : ItemAt(lchunk', p) = ItemAt(lchunk, p)
  <2> DEFINE T == vlog.tree
  <2>1. \A d \in T : m.lchunk[d] = lchunk[d] /\ m.vlchunk[d] = vlchunk[d]
    BY <1>11, <1>14
  <2> HIDE DEF T
  <2>2. MarkedIn(m.lchunk, m.vlchunk, T) = MarkedIn(lchunk, vlchunk, T)
    BY ONLY <2>1, BitsStay
  <2>3. \A p \in T \X Slot : ItemAt(m.lchunk, p) = ItemAt(lchunk, p)
    <3>1. \A d \in T : m.lchunk[d] = lchunk[d]
      BY <2>1
    <3> QED
      BY ONLY <3>1, ItemsStay
  <2> QED
    BY <1>11, <2>2, <2>3 DEF T
<1>16. InForce' = InForce /\ \A p \in InForce : ItemAt(lchunk', p) = ItemAt(lchunk, p)
  BY <1>1, <1>15 DEF InForce, MarkedIn
<1>17. /\ gc'.phase = "slow_walk"
       /\ gc'.cursor = lchunk[old].next
       /\ gc'.bits = IF lchunk[old].next \in vlog.tree
                       THEN vlchunk[lchunk[old].next].bitmap ELSE {}
  <2>1. gc \in GCType
    BY <1>3 DEF TypeOK
  <2> QED
    BY <1>1, <2>1 DEF Visit, GCType, old
<1>18. SlotsInOrder'
  <2>1. ASSUME NEW c \in vlog.tree PROVE ChunkInOrder(lchunk', vlchunk', c)
    <3>1. ChunkInOrder(lchunk, vlchunk, c)
      BY DEF DurableInv, SlotsInOrder
    <3>2. lchunk'[c] = lchunk[c] /\ vlchunk'[c] = vlchunk[c]
      BY <1>14
    <3> QED
      BY <3>1, <3>2, ChunkStays
  <2>2. gc'.cursor \in vlog.tree => gc'.bits \subseteq vlchunk'[gc'.cursor].bitmap
    BY <1>14, <1>17
  <2> QED
    BY <1>1, <1>9, <1>11, <2>1, <2>2 DEF SlotsInOrder
<1>19. PassesCounted' /\ OwnersInForce'
  BY <1>1, <1>17 DEF DurableInv, PassesCounted, OwnersInForce
<1>20. MediumInOrder'
  <2> SUFFICES ASSUME passes.fast = 0
               PROVE  /\ status \in {"run", "log.c:52 log file is full"}
                      /\ LogInOrder(lchunk', vlchunk', vlog, old)
                      /\ {ItemAt(lchunk', p).ptr : p \in InForce'} = live
                      /\ LogInOrder(lchunk', vlchunk', new', r)
                      /\ WalkInOrder'
    BY <1>1, <1>13 DEF MediumInOrder
  <2>1. /\ status \in {"run", "log.c:52 log file is full"}
        /\ LogInOrder(lchunk, vlchunk, vlog, old)
        /\ {ItemAt(lchunk, p).ptr : p \in InForce} = live
    BY DEF DurableInv, MediumInOrder, old
  <2>2. LogInOrder(lchunk', vlchunk', vlog, old)
    BY <1>3, <1>14, <2>1, LogStays
  <2>3. {ItemAt(lchunk', p).ptr : p \in InForce'} = live
    BY <1>16, <2>1
  <2>4. PICK s \in Seq(Addr) : IsChain(lchunk', s, old, vlog.tree, vlog.tail)
    BY <2>2 DEF LogInOrder
  <2>5. /\ Len(s) \in Nat /\ Len(s) >= 2 /\ s[1] = old
        /\ \A j \in 2 .. Len(s) : s[j] \in vlog.tree
        /\ \A c \in vlog.tree : \E j \in 2 .. Len(s) : s[j] = c
        /\ \A j \in 1 .. (Len(s) - 1) : lchunk'[s[j]].next = s[j + 1]
    <3>1. vlog.tail \in vlog.tree /\ old \notin vlog.tree
      BY <1>3
    <3> QED
      BY ONLY <2>4, <3>1, ChainPlaces
  <2>6. s[2] = lchunk[old].next /\ s[2] \in vlog.tree
    BY <1>14, <2>5
  <2>7. ToCopy(s, 2)' = InForce
    <3>1. ASSUME NEW p \in InForce
          PROVE  (p[1] = gc'.cursor /\ p[2] \in gc'.bits) \/ p[1] \in Ahead(s, 2)
      <4>1. p[1] \in vlog.tree /\ p[2] \in vlchunk[p[1]].bitmap
        BY <1>3, AddrsOfItems
      <4>2. PICK j \in 2 .. Len(s) : s[j] = p[1]
        BY <2>5, <4>1
      <4>3. CASE j = 2
        BY <1>17, <2>6, <4>1, <4>2, <4>3
      <4>4. CASE j # 2
        <5>1. j \in (2 + 1) .. Len(s)
          BY <2>5, <4>4
        <5> QED
          BY <4>2, <5>1 DEF Ahead
      <4> QED
        BY <4>3, <4>4
    <3> QED
      BY <1>16, <3>1 DEF ToCopy
  <2>8. Owned(lchunk', InForce \cup {}, logOf, live)
    <3>1. Owned(lchunk, InForce, logOf, live)
      BY <1>1 DEF DurableInv, OwnersInForce
    <3>2. Owned(lchunk', InForce, logOf, live)
      BY <1>16, <3>1, OwnedStays
    <3>3. InForce \cup {} = InForce
      OBVIOUS
    <3> QED
      BY <3>2, <3>3
  <2>9. Owned(lchunk', (ToCopy(s, 2) \cup MarkedIn(lchunk, vlchunk, new.tree))', logOf, live)
    BY <1>9, <1>11, <2>7, <2>8
  <2>10. WalkInOrder'
    <3>1. 2 \in 2 .. (Len(s) + 1) /\ ~(2 > Len(s))
      BY <2>5
    <3>2. gc'.cursor = s[2]
      BY <1>17, <2>6
    <3> QED
      BY <1>1, <1>13, <2>4, <2>9, <3>1, <3>2 DEF WalkInOrder
  <2> QED
    BY <1>9, <1>11, <2>1, <2>2, <2>3, <2>10
<1> QED
  BY <1>18, <1>19, <1>20 DEF DurableInv

----------------------------------------------------------------------------
(* slow_GC copies. *)

\* A free item is left behind.
LEMMA SlowLeavesDurable ==
  ASSUME IndInv, DurableInv, gc.phase = "slow_walk", gc.cursor \in vlog.tree,
         NEW i \in gc.bits, Cursor(i).type = "FREE_LOG",
         gc' = [gc EXCEPT !.bits = @ \ {i}],
         UNCHANGED <<lchunk, vlchunk, head, vlog, new, logOf, live, passes, status>>
  PROVE  DurableInv'
<1>1. TypeOK
  BY DEF IndInv
<1>2. gc'.phase = "slow_walk" /\ gc'.cursor = gc.cursor /\ gc'.bits = gc.bits \ {i}
  BY <1>1 DEF TypeOK, GCType
<1>3. InForce' = InForce /\ Root(vlog.log)' = Root(vlog.log) /\ Root(new.log)' = Root(new.log)
  BY DEF InForce, Root
<1>4. <<gc.cursor, i>> \notin InForce
  BY <1>1, AddrsOfItems DEF ItemAt, Cursor
<1>5. ASSUME NEW s, NEW k PROVE ToCopy(s, k)' = ToCopy(s, k)
  <2>1. ASSUME NEW p \in InForce
        PROVE  p[1] = gc.cursor /\ p[2] = i => FALSE
    <3>1. p = <<p[1], p[2]>>
      BY DEF InForce, MarkedIn
    <3> QED
      BY <1>4, <3>1
  <2> QED
    BY <1>2, <1>3, <2>1 DEF ToCopy, Ahead
<1>6. WalkInOrder => WalkInOrder'
  BY <1>2, <1>3, <1>5 DEF WalkInOrder
<1>7. SlotsInOrder' /\ PassesCounted' /\ OwnersInForce'
  BY <1>2 DEF DurableInv, SlotsInOrder, PassesCounted, OwnersInForce
<1>8. MediumInOrder'
  BY <1>2, <1>3, <1>6 DEF DurableInv, MediumInOrder
<1> QED
  BY <1>7, <1>8 DEF DurableInv

\* The log slow_GC builds is among the chunks owned, apart from the log in use.
LEMMA WalkMem ==
  ASSUME IndInv, SlotsInOrder, gc.phase = "slow_walk"
  PROVE  /\ Mem(new) \in MemType
         /\ Mem(new).v = new
         /\ Mem(new).lchunk = lchunk
         /\ Mem(new).vlchunk = vlchunk
         /\ new.tail \in Addr
         /\ new.tail \in new.tree
         /\ InUse \cup Held \in SUBSET Addr
         /\ Root(new.log) \in Addr
         /\ Root(vlog.log) \in Addr
         /\ new.tree \cup {Root(new.log)} \subseteq InUse \cup Held
         /\ new.tree \subseteq InUse \cup Held
         /\ vlog.tree \cup {Root(vlog.log)} \subseteq InUse \cup Held
         /\ (vlog.tree \cup {Root(vlog.log)}) \cap new.tree = {}
         /\ Shared(Mem(new).free, InUse \cup Held, Mem(new).used)
         /\ new.num_of_chunks = Cardinality(new.tree) + 1
         /\ \A c \in new.tree : ChunkInOrder(lchunk, vlchunk, c)
<1>1. TypeOK /\ new \in VLogType
  BY DEF IndInv, TypeOK
<1>2. /\ Mem(new) \in MemType /\ Mem(new).v = new
      /\ Mem(new).free = free /\ Mem(new).used = used
      /\ Mem(new).vlchunk = vlchunk
  BY <1>1, MemTyped
<1>3. Mem(new).lchunk = lchunk
  BY DEF Mem
<1>4. /\ InUse \subseteq Addr /\ Held \subseteq Addr
      /\ Root(vlog.log) \in Addr
      /\ InUse \cap Held = {}
      /\ Shared(free, InUse \cup Held, used)
  BY HeldInAddr
<1>5. Held = new.tree \cup {Root(new.log)} /\ InUse = vlog.tree \cup {Root(vlog.log)}
  BY DEF Held, InUse
<1>6. new.tail \in new.tree /\ new.tail \in Addr
  BY <1>1 DEF IndInv, NewLogWellFormed, VLogType
<1>7. new.num_of_chunks = Cardinality(new.tree) + 1
  BY DEF IndInv, ChunksCounted
<1>8. \A c \in new.tree : ChunkInOrder(lchunk, vlchunk, c)
  BY DEF SlotsInOrder
<1> QED
  BY <1>2, <1>3, <1>4, <1>5, <1>6, <1>7, <1>8

\* What is left to copy once the item i of the cursor's chunk was.
LEMMA ToCopyLess ==
  ASSUME NEW s \in Seq(Addr), Distinct(s), NEW k \in 1 .. Len(s), gc.cursor = s[k],
         NEW i \in gc.bits, gc'.cursor = gc.cursor, gc'.bits = gc.bits \ {i},
         InForce' = InForce
  PROVE  ToCopy(s, k)' = ToCopy(s, k) \ {<<gc.cursor, i>>}
<1>1. gc.cursor \notin Ahead(s, k)
  <2> SUFFICES ASSUME NEW j \in (k + 1) .. Len(s), s[j] = s[k] PROVE FALSE
    BY DEF Ahead
  <2>1. j \in 1 .. Len(s) /\ j # k
    OBVIOUS
  <2> QED
    BY <2>1 DEF Distinct
<1>2. ASSUME NEW p \in InForce
      PROVE  p = <<gc.cursor, i>> <=> p[1] = gc.cursor /\ p[2] = i
  <2>1. p = <<p[1], p[2]>>
    BY DEF InForce, MarkedIn
  <2> QED
    BY <2>1
<1> DEFINE B == gc.bits
           c == gc.cursor
           A == Ahead(s, k)
<1>3. ToCopy(s, k) = {p \in InForce : (p[1] = c /\ p[2] \in B) \/ p[1] \in A}
  BY DEF ToCopy
<1>4. ToCopy(s, k)' = {p \in InForce : (p[1] = c /\ p[2] \in B \ {i}) \/ p[1] \in A}
  BY DEF ToCopy, Ahead
<1>5. i \in B /\ c \notin A
  BY <1>1
<1>6. \A p \in InForce : p = <<c, i>> <=> p[1] = c /\ p[2] = i
  BY <1>2
<1> HIDE DEF A, B, c
<1>7. ToCopy(s, k)' = ToCopy(s, k) \ {<<c, i>>}
  BY <1>3, <1>4, <1>5, <1>6
<1> QED
  BY <1>7 DEF c

LEMMA SlowMovesDurable ==
  ASSUME IndInv, DurableInv, gc.phase = "slow_walk", gc.cursor \in vlog.tree,
         NEW i \in gc.bits, Cursor(i).type # "FREE_LOG",
         gc' = [gc EXCEPT !.bits = @ \ {i}],
         TailFull(Mem(new)) => CanAlloc(Mem(new), 1),
         logOf[Cursor(i).ptr] = <<gc.cursor, i>>,
         Write(Appended(Mem(new), Cursor(i))),
         new' = Counted(Appended(Mem(new), Cursor(i)).v),
         logOf' = [logOf EXCEPT ![Cursor(i).ptr] = Place(Extend(Mem(new)))],
         UNCHANGED <<head, vlog, live, passes, status>>
  PROVE  DurableInv'
<1> DEFINE item == Cursor(i)
           w == Mem(new)
           owned == InUse \cup Held
           r == Root(new.log)
           old == Root(vlog.log)
           e == Extend(w)
           p == Place(e)
           s == Appended(w, item)
           a == <<gc.cursor, i>>
<1>1. /\ TypeOK /\ SlotsInOrder /\ MediumInOrder
      /\ logOf \in [Objs -> ItemAddr \cup {NoItem}] /\ live \in SUBSET Objs
  BY DEF IndInv, DurableInv, TypeOK
<1>2. gc'.phase = "slow_walk" /\ gc'.cursor = gc.cursor /\ gc'.bits = gc.bits \ {i}
  BY <1>1 DEF TypeOK, GCType
<1>3. gc.cursor \in Addr /\ i \in Slot /\ i \in vlchunk[gc.cursor].bitmap
  BY <1>1 DEF TypeOK, GCType, VLogType, SlotsInOrder
<1>4. item \in Item /\ item # Blank /\ item = ItemAt(lchunk, a)
  <2>1. item \in Item
    BY <1>1, <1>3 DEF TypeOK, LChunk, Cursor
  <2>2. ChunkInOrder(lchunk, vlchunk, gc.cursor)
    BY <1>1 DEF SlotsInOrder
  <2>3. item # Blank
    BY <1>3, <2>2 DEF ChunkInOrder, Cursor
  <2> QED
    BY <2>1, <2>3 DEF ItemAt, Cursor
<1>5. a \in InForce
  BY <1>3, <1>4 DEF InForce, MarkedIn
<1>6. /\ w \in MemType /\ w.v = new /\ w.lchunk = lchunk /\ w.vlchunk = vlchunk
      /\ new.tail \in Addr /\ new.tail \in new.tree
      /\ owned \in SUBSET Addr /\ r \in Addr /\ old \in Addr
      /\ new.tree \cup {r} \subseteq owned
      /\ new.tree \subseteq owned
      /\ vlog.tree \cup {old} \subseteq owned
      /\ (vlog.tree \cup {old}) \cap new.tree = {}
      /\ Shared(w.free, owned, w.used)
      /\ new.num_of_chunks = Cardinality(new.tree) + 1
      /\ \A c \in new.tree : ChunkInOrder(lchunk, vlchunk, c)
  BY <1>1, WalkMem
<1> HIDE DEF owned, r, old
<1> HIDE DEF w, item
<1>7. TailFull(w) => CanAlloc(w, 1)
  BY DEF w
<1>8. /\ s.v = e.v
      /\ \A c \in e.v.tree : ChunkInOrder(s.lchunk, s.vlchunk, c)
      /\ p \notin Objects(lchunk, new.tree)
      /\ MarkedIn(s.lchunk, s.vlchunk, e.v.tree)
           = MarkedIn(lchunk, vlchunk, new.tree) \cup {p}
      /\ MarkedIn(lchunk, vlchunk, new.tree) \subseteq Objects(lchunk, new.tree)
      /\ ItemAt(s.lchunk, p) = item
      /\ \A q \in new.tree \X Slot :
           q # p => ItemAt(s.lchunk, q) = ItemAt(lchunk, q)
      /\ \A d \in owned \ new.tree : s.lchunk[d] = lchunk[d] /\ s.vlchunk[d] = vlchunk[d]
  <2>1. /\ w.v.tail \in Addr /\ w.v.tail \in w.v.tree
        /\ w.v.tree \subseteq owned
        /\ w.v.num_of_chunks = Cardinality(w.v.tree) + 1
        /\ \A c \in w.v.tree : ChunkInOrder(w.lchunk, w.vlchunk, c)
    BY <1>6
  <2>2. item.type # "FREE_LOG"
    BY DEF item
  <2>3. /\ s.v = e.v
        /\ \A c \in e.v.tree : ChunkInOrder(s.lchunk, s.vlchunk, c)
        /\ p \notin Objects(w.lchunk, w.v.tree)
        /\ MarkedIn(s.lchunk, s.vlchunk, e.v.tree)
             = MarkedIn(w.lchunk, w.vlchunk, w.v.tree) \cup {p}
        /\ MarkedIn(w.lchunk, w.vlchunk, w.v.tree) \subseteq Objects(w.lchunk, w.v.tree)
        /\ ItemAt(s.lchunk, p) = item
        /\ \A q \in w.v.tree \X Slot :
             q # p => ItemAt(s.lchunk, q) = ItemAt(w.lchunk, q)
        /\ \A d \in owned \ w.v.tree :
             s.lchunk[d] = w.lchunk[d] /\ s.vlchunk[d] = w.vlchunk[d]
    <3>1. w \in MemType /\ owned \in SUBSET Addr /\ Shared(w.free, owned, w.used)
      BY <1>6
    <3>2. item \in Item /\ item # Blank
      BY <1>4
    <3> QED
      BY ONLY <1>7, <2>1, <2>2, <3>1, <3>2, ObjectAppended
  <2> QED
    BY <1>6, <2>3
<1>9. LogInOrder(lchunk, vlchunk, new, r)
        => LogInOrder(s.lchunk, s.vlchunk, Counted(s.v), r)
  <2>1. item.type # "FREE_LOG"
    BY DEF item
  <2> QED
    BY <1>4, <1>6, <1>7, <2>1, ObjectAppendedInOrder
<1>10. e \in MemType /\ e.v \in VLogType /\ e.v.log = new.log
  <2>1. e \in MemType
    BY <1>6, <1>7, RoomInOrder
  <2>2. e.v.log = new.log
    BY <1>6, <1>7, ExtendOK
  <2> QED
    BY <2>1, <2>2 DEF MemType
<1>11. e.v.tree \cap owned = new.tree /\ p \in e.v.tree \X Slot /\ p \in ItemAddr
  BY <1>6, <1>7, RoomInOrder
<1>12. /\ lchunk' = s.lchunk /\ vlchunk' = s.vlchunk /\ new' = Counted(s.v)
       /\ logOf' = [logOf EXCEPT ![item.ptr] = p]
       /\ logOf[item.ptr] = a
  BY DEF Write, w, item
<1> HIDE DEF e, p, s
<1>13. p \notin InForce
  BY <1>6, <1>11 DEF InForce, MarkedIn
<1>14. new'.tree = e.v.tree /\ new'.log = new.log
  BY <1>8, <1>10, <1>12, CountedType
<1>15. Root(new.log)' = r /\ Root(vlog.log)' = old
  BY <1>14 DEF Root, r, old
<1>16. \A d \in vlog.tree \cup {old} : lchunk'[d] = lchunk[d] /\ vlchunk'[d] = vlchunk[d]
  BY <1>6, <1>8, <1>12
<1>17. InForce' = InForce /\ \A q \in InForce : ItemAt(lchunk', q) = ItemAt(lchunk, q)
  <2> DEFINE T == vlog.tree
  <2>1. \A d \in T : s.lchunk[d] = lchunk[d] /\ s.vlchunk[d] = vlchunk[d]
    BY <1>12, <1>16
  <2> HIDE DEF T
  <2>2. MarkedIn(s.lchunk, s.vlchunk, T) = MarkedIn(lchunk, vlchunk, T)
    BY ONLY <2>1, BitsStay
  <2>3. \A q \in T \X Slot : ItemAt(s.lchunk, q) = ItemAt(lchunk, q)
    <3>1. \A d \in T : s.lchunk[d] = lchunk[d]
      BY <2>1
    <3> QED
      BY ONLY <3>1, ItemsStay
  <2> QED
    BY <1>12, <2>2, <2>3 DEF T, InForce, MarkedIn
<1>18. SlotsInOrder'
  <2>1. ASSUME NEW c \in vlog.tree PROVE ChunkInOrder(lchunk', vlchunk', c)
    <3>1. ChunkInOrder(lchunk, vlchunk, c)
      BY <1>1 DEF SlotsInOrder
    <3>2. lchunk'[c] = lchunk[c] /\ vlchunk'[c] = vlchunk[c]
      BY <1>16
    <3> QED
      BY <3>1, <3>2, ChunkStays
  <2>2. gc'.bits \subseteq vlchunk'[gc'.cursor].bitmap
    BY <1>1, <1>2, <1>16 DEF SlotsInOrder
  <2> QED
    BY <1>8, <1>12, <1>14, <2>1, <2>2 DEF SlotsInOrder
<1>19. PassesCounted' /\ OwnersInForce'
  BY <1>2 DEF DurableInv, PassesCounted, OwnersInForce
<1>20. MediumInOrder'
  <2> SUFFICES ASSUME passes.fast = 0
               PROVE  /\ status \in {"run", "log.c:52 log file is full"}
                      /\ LogInOrder(lchunk', vlchunk', vlog, old)
                      /\ {ItemAt(lchunk', q).ptr : q \in InForce'} = live
                      /\ LogInOrder(lchunk', vlchunk', new', r)
                      /\ WalkInOrder'
    BY <1>15 DEF MediumInOrder
  <2>1. /\ status \in {"run", "log.c:52 log file is full"}
        /\ LogInOrder(lchunk, vlchunk, vlog, old)
        /\ {ItemAt(lchunk, q).ptr : q \in InForce} = live
        /\ LogInOrder(lchunk, vlchunk, new, r)
        /\ WalkInOrder
    BY <1>1 DEF MediumInOrder, r, old
  <2>2. LogInOrder(lchunk', vlchunk', vlog, old)
    <3>1. vlog.tail \in vlog.tree
      BY DEF IndInv, TailInTree
    <3> QED
      BY <1>16, <2>1, <3>1, LogStays
  <2>3. {ItemAt(lchunk', q).ptr : q \in InForce'} = live
    BY <1>17, <2>1
  <2>4. LogInOrder(lchunk', vlchunk', new', r)
    BY <1>9, <1>12, <2>1
  <2>5. WalkInOrder'
    <3>0. PICK sq \in Seq(Addr) : \E k \in 2 .. (Len(sq) + 1) :
            /\ IsChain(lchunk, sq, old, vlog.tree, vlog.tail)
            /\ gc.cursor = (IF k > Len(sq) THEN Null ELSE sq[k])
            /\ Owned(lchunk, ToCopy(sq, k) \cup MarkedIn(lchunk, vlchunk, new.tree),
                     logOf, live)
      BY <2>1 DEF WalkInOrder, old
    <3>1. PICK k \in 2 .. (Len(sq) + 1) :
            /\ IsChain(lchunk, sq, old, vlog.tree, vlog.tail)
            /\ gc.cursor = (IF k > Len(sq) THEN Null ELSE sq[k])
            /\ Owned(lchunk, ToCopy(sq, k) \cup MarkedIn(lchunk, vlchunk, new.tree),
                     logOf, live)
      BY <3>0
    <3> DEFINE C == ToCopy(sq, k)
               M == MarkedIn(lchunk, vlchunk, new.tree)
               P == C \cup M
               o == item.ptr
    <3>2. k \in 1 .. Len(sq) /\ gc.cursor = sq[k]
      <4>1. gc.cursor # Null
        BY <1>3 DEF Addr, Null
      <4> QED
        BY <3>1, <4>1
    <3>3. Distinct(sq)
      BY <3>1 DEF IsChain
    <3>4. C' = C \ {a}
      BY <1>2, <1>17, <3>2, <3>3, ToCopyLess
    <3>5. C \subseteq InForce /\ a \in C
      BY <1>5, <3>2 DEF ToCopy
    <3>6. M \subseteq new.tree \X Slot /\ a \notin M /\ p \notin M
      <4>1. M \subseteq new.tree \X Slot
        BY DEF MarkedIn
      <4> QED
        BY <1>6, <1>8, <4>1
    <3> HIDE DEF C, M
    <3>7. \A q \in P : ItemAt(s.lchunk, q) = ItemAt(lchunk, q)
      BY <1>8, <1>12, <1>17, <3>5, <3>6
    <3>8. o \in live
      BY <1>4, <1>5, <2>1
    <3>9. Owned(s.lchunk, (P \ {a}) \cup {p}, [logOf EXCEPT ![o] = p], live)
      <4>1. p \notin P
        BY <1>13, <3>5, <3>6
      <4>2. Owned(lchunk, P, logOf, live)
        BY <3>1 DEF C, M
      <4>3. ItemAt(s.lchunk, p).ptr = o
        BY <1>8
      <4>4. logOf[o] = a
        BY <1>12
      <4>5. logOf \in [Objs -> ItemAddr \cup {NoItem}] /\ live \in SUBSET Objs
        BY <1>1
      <4> HIDE DEF P, o, a
      <4>6. Owned(s.lchunk, (P \ {logOf[o]}) \cup {p}, [logOf EXCEPT ![o] = p], live)
        BY ONLY <3>7, <3>8, <4>1, <4>2, <4>3, <4>5, OwnedMoved
      <4> QED
        BY <4>4, <4>6
    <3>10. (P \ {a}) \cup {p} = (C \ {a}) \cup (M \cup {p})
      BY <3>6
    <3>11. Owned(lchunk', (ToCopy(sq, k) \cup MarkedIn(lchunk, vlchunk, new.tree))',
                 logOf', live)
      BY <1>8, <1>12, <1>14, <3>4, <3>9, <3>10 DEF C, M
    <3>12. IsChain(lchunk', sq, old, vlog.tree, vlog.tail)
      <4>1. \A d \in vlog.tree \cup {old} : lchunk'[d].next = lchunk[d].next
        BY <1>16
      <4>2. vlog.tail \in vlog.tree
        BY DEF IndInv, TailInTree
      <4> QED
        BY <3>1, <4>1, <4>2, ChainStays
    <3> QED
      BY <1>2, <1>15, <3>1, <3>11, <3>12 DEF WalkInOrder
  <2> QED
    BY <2>1, <2>2, <2>3, <2>4, <2>5
<1> QED
  BY <1>18, <1>19, <1>20 DEF DurableInv

LEMMA SlowCopyDurable ==
  ASSUME IndInv, DurableInv, SlowCopy
  PROVE  DurableInv'
<1>1. /\ gc.phase = "slow_walk" /\ gc.cursor \in vlog.tree
      /\ UNCHANGED <<head, vlog, live, passes, status>>
  BY DEF SlowCopy
<1>2. PICK i \in gc.bits :
        /\ gc' = [gc EXCEPT !.bits = @ \ {i}]
        /\ \/ /\ Cursor(i).type = "FREE_LOG"
              /\ UNCHANGED <<file, new, logOf>>
           \/ /\ Cursor(i).type # "FREE_LOG"
              /\ TailFull(Mem(new)) => CanAlloc(Mem(new), 1)
              /\ logOf[Cursor(i).ptr] = <<gc.cursor, i>>
              /\ Write(Appended(Mem(new), Cursor(i)))
              /\ new' = Counted(Appended(Mem(new), Cursor(i)).v)
              /\ logOf' = [logOf EXCEPT ![Cursor(i).ptr] = Place(Extend(Mem(new)))]
  BY DEF SlowCopy, Appended
<1>3. CASE Cursor(i).type = "FREE_LOG"
  <2>1. UNCHANGED <<lchunk, vlchunk, new, logOf>>
    BY <1>2, <1>3 DEF file
  <2> QED
    BY <1>1, <1>2, <1>3, <2>1, SlowLeavesDurable
<1>4. CASE Cursor(i).type # "FREE_LOG"
  BY <1>1, <1>2, <1>4, SlowMovesDurable
<1> QED
  BY <1>3, <1>4

\* The walk is at a chunk of the chain, or at its end.
LEMMA WalkPlaces ==
  ASSUME IndInv, NEW s \in Seq(Addr), NEW k \in 2 .. (Len(s) + 1),
         IsChain(lchunk, s, Root(vlog.log), vlog.tree, vlog.tail),
         gc.cursor = (IF k > Len(s) THEN Null ELSE s[k])
  PROVE  /\ Len(s) \in Nat /\ Len(s) >= 2
         /\ gc.cursor # Null => k <= Len(s) /\ gc.cursor = s[k] /\ gc.cursor \in vlog.tree
         /\ gc.cursor = Null => k = Len(s) + 1
         /\ \A j \in 2 .. Len(s) : s[j] \in vlog.tree
         /\ \A j \in 2 .. (Len(s) - 1) : lchunk[s[j]].next = s[j + 1]
         /\ lchunk[s[Len(s)]].next = Null
<1>1. vlog.tail \in vlog.tree /\ Root(vlog.log) \notin vlog.tree
  BY DEF IndInv, TailInTree, ChunksPartitioned
<1>2. /\ Len(s) \in Nat /\ Len(s) >= 2 /\ s[Len(s)] = vlog.tail
      /\ \A j \in 2 .. Len(s) : s[j] \in vlog.tree /\ s[j] \in Addr
      /\ \A j \in 1 .. (Len(s) - 1) : lchunk[s[j]].next = s[j + 1]
      /\ lchunk[vlog.tail].next = Null
  BY ONLY <1>1, s \in Seq(Addr), ChainPlaces,
          IsChain(lchunk, s, Root(vlog.log), vlog.tree, vlog.tail)
<1>3. Null \notin Addr
  BY DEF Null, Addr
<1> QED
  BY <1>2, <1>3

LEMMA SlowNextChunkDurable ==
  ASSUME IndInv, DurableInv, SlowNextChunk
  PROVE  DurableInv'
<1>1. /\ gc.phase = "slow_walk" /\ gc.cursor \in vlog.tree /\ gc.bits = {}
      /\ gc' = Visit(lchunk[gc.cursor].next)
      /\ UNCHANGED <<lchunk, vlchunk, head, vlog, new, logOf, live, passes, status>>
  BY DEF SlowNextChunk, Following, file, owners
<1>2. TypeOK /\ gc \in GCType /\ vlog.tree \in SUBSET Addr
  BY DEF IndInv, TypeOK, VLogType
<1> DEFINE n == lchunk[gc.cursor].next
<1>3. /\ gc'.phase = "slow_walk" /\ gc'.cursor = n
      /\ gc'.bits = IF n \in vlog.tree THEN vlchunk[n].bitmap ELSE {}
  BY <1>1, <1>2 DEF Visit, GCType
<1>4. Null \notin vlog.tree /\ gc.cursor # Null
  BY <1>1, <1>2 DEF Null, Addr
<1>5. InForce' = InForce /\ Root(vlog.log)' = Root(vlog.log) /\ Root(new.log)' = Root(new.log)
  BY <1>1 DEF InForce, Root
<1>6. SlotsInOrder' /\ PassesCounted' /\ OwnersInForce'
  BY <1>1, <1>3 DEF DurableInv, SlotsInOrder, PassesCounted, OwnersInForce
<1>7. ASSUME WalkInOrder PROVE WalkInOrder'
  <2>1. PICK s \in Seq(Addr) : \E k \in 2 .. (Len(s) + 1) :
          /\ IsChain(lchunk, s, Root(vlog.log), vlog.tree, vlog.tail)
          /\ gc.cursor = (IF k > Len(s) THEN Null ELSE s[k])
          /\ Owned(lchunk, ToCopy(s, k) \cup MarkedIn(lchunk, vlchunk, new.tree),
                   logOf, live)
    BY <1>7 DEF WalkInOrder
  <2>2. PICK k \in 2 .. (Len(s) + 1) :
          /\ IsChain(lchunk, s, Root(vlog.log), vlog.tree, vlog.tail)
          /\ gc.cursor = (IF k > Len(s) THEN Null ELSE s[k])
          /\ Owned(lchunk, ToCopy(s, k) \cup MarkedIn(lchunk, vlchunk, new.tree),
                   logOf, live)
    BY <2>1
  <2>3. /\ Len(s) \in Nat /\ Len(s) >= 2 /\ k <= Len(s) /\ gc.cursor = s[k]
        /\ \A j \in 2 .. Len(s) : s[j] \in vlog.tree
        /\ \A j \in 2 .. (Len(s) - 1) : lchunk[s[j]].next = s[j + 1]
        /\ lchunk[s[Len(s)]].next = Null
    BY <1>4, <2>2, WalkPlaces
  <2>4. k \in 1 .. Len(s) /\ k + 1 \in 2 .. (Len(s) + 1)
    BY <2>3
  <2>5. n = IF k + 1 > Len(s) THEN Null ELSE s[k + 1]
    <3>1. CASE k = Len(s)
      BY <2>3, <3>1
    <3>2. CASE k # Len(s)
      <4>1. k \in 2 .. (Len(s) - 1) /\ ~(k + 1 > Len(s))
        BY <2>3, <3>2
      <4> QED
        BY <2>3, <4>1
    <3> QED
      BY <3>1, <3>2
  <2> HIDE DEF n
  <2>6. ToCopy(s, k) = {p \in InForce : p[1] \in Ahead(s, k)}
    BY <1>1 DEF ToCopy
  <2>7. ToCopy(s, k + 1)' = {p \in InForce : \/ p[1] = n /\ p[2] \in gc'.bits
                                             \/ p[1] \in Ahead(s, k + 1)}
    BY <1>3, <1>5 DEF ToCopy, Ahead
  <2>8. \A p \in InForce : p[1] \in vlog.tree /\ p[2] \in vlchunk[p[1]].bitmap
    BY <1>2, AddrsOfItems
  <2>9. ToCopy(s, k + 1)' = ToCopy(s, k)
    <3>1. CASE k = Len(s)
      <4>1. n = Null /\ gc'.bits = {}
        BY <1>3, <1>4, <2>3, <2>5, <3>1
      <4>2. Ahead(s, k) = {} /\ Ahead(s, k + 1) = {}
        BY <2>4, <3>1, AheadNext
      <4> QED
        BY <2>6, <2>7, <4>1, <4>2
    <3>2. CASE k < Len(s)
      <4>1. n = s[k + 1] /\ k + 1 \in 2 .. Len(s)
        BY <2>3, <2>4, <2>5, <3>2
      <4>2. gc'.bits = vlchunk[n].bitmap
        BY <1>3, <2>3, <4>1
      <4>3. Ahead(s, k) = Ahead(s, k + 1) \cup {n}
        BY <2>4, <3>2, <4>1, AheadNext
      <4> QED
        BY <2>6, <2>7, <2>8, <4>2, <4>3
    <3> QED
      BY <2>3, <3>1, <3>2
  <2>10. Owned(lchunk', (ToCopy(s, k + 1) \cup MarkedIn(lchunk, vlchunk, new.tree))',
               logOf', live')
    BY <1>1, <2>2, <2>9
  <2>11. gc'.cursor = IF k + 1 > Len(s) THEN Null ELSE s[k + 1]
    BY <1>3, <2>5
  <2> QED
    BY <1>1, <1>5, <2>2, <2>4, <2>10, <2>11 DEF WalkInOrder
<1>8. MediumInOrder'
  BY <1>1, <1>3, <1>5, <1>7 DEF DurableInv, MediumInOrder
<1> QED
  BY <1>6, <1>8 DEF DurableInv

LEMMA SlowStopsDurable ==
  ASSUME IndInv, DurableInv, SlowStops
  PROVE  DurableInv'
<1>1. /\ gc.phase = "slow_walk"
      /\ UNCHANGED <<lchunk, vlchunk, head, vlog, new, gc, logOf, live, passes>>
      /\ \/ gc.cursor # Null /\ gc.cursor \notin vlog.tree
         \/ /\ gc.cursor \in vlog.tree
            /\ \E i \in gc.bits : /\ Cursor(i).type # "FREE_LOG"
                                  /\ logOf[Cursor(i).ptr] # <<gc.cursor, i>>
  BY DEF SlowStops, file, owners
<1>2. TypeOK
  BY DEF IndInv
<1>3. ASSUME passes.fast = 0 PROVE FALSE
  <2>1. WalkInOrder
    BY <1>1, <1>3 DEF DurableInv, MediumInOrder
  <2>2. PICK s \in Seq(Addr) : \E k \in 2 .. (Len(s) + 1) :
          /\ IsChain(lchunk, s, Root(vlog.log), vlog.tree, vlog.tail)
          /\ gc.cursor = (IF k > Len(s) THEN Null ELSE s[k])
          /\ Owned(lchunk, ToCopy(s, k) \cup MarkedIn(lchunk, vlchunk, new.tree),
                   logOf, live)
    BY <2>1 DEF WalkInOrder
  <2>3. PICK k \in 2 .. (Len(s) + 1) :
          /\ IsChain(lchunk, s, Root(vlog.log), vlog.tree, vlog.tail)
          /\ gc.cursor = (IF k > Len(s) THEN Null ELSE s[k])
          /\ Owned(lchunk, ToCopy(s, k) \cup MarkedIn(lchunk, vlchunk, new.tree),
                   logOf, live)
    BY <2>2
  <2>4. gc.cursor # Null => gc.cursor \in vlog.tree
    BY <2>3, WalkPlaces
  <2>5. PICK i \in gc.bits : /\ Cursor(i).type # "FREE_LOG"
                             /\ logOf[Cursor(i).ptr] # <<gc.cursor, i>>
    BY <1>1, <2>4
  <2>6. gc.cursor \in vlog.tree /\ i \in Slot /\ i \in vlchunk[gc.cursor].bitmap
    BY <1>1, <1>2, <2>4 DEF DurableInv, SlotsInOrder, TypeOK, GCType
  <2>7. <<gc.cursor, i>> \in ToCopy(s, k)
    BY <2>5, <2>6 DEF ToCopy, InForce, MarkedIn, ItemAt, Cursor
  <2>8. logOf[ItemAt(lchunk, <<gc.cursor, i>>).ptr] = <<gc.cursor, i>>
    BY <2>3, <2>7 DEF Owned
  <2> QED
    BY <2>5, <2>8 DEF ItemAt, Cursor
<1> QED
  BY <1>1, <1>3, StatusDurable

\* The end of the chain: everything has been copied.
LEMMA SlowCommitDurable ==
  ASSUME IndInv, DurableInv, SlowCommit
  PROVE  DurableInv'
<1>1. /\ gc.phase = "slow_walk" /\ gc.cursor = Null
      /\ head' = [head EXCEPT !.alt = 1 - @]
      /\ vlog' = new
      /\ gc'.phase = "slow_destroy"
      /\ UNCHANGED <<lchunk, vlchunk, logOf, live, passes, status>>
  BY DEF SlowCommit, file, owners, Idle
<1>2. /\ TypeOK /\ vlog.tree \in SUBSET Addr
      /\ head \in [alt : {0, 1}, root : [1 .. 2 -> Addr \cup {Null}]]
  BY DEF IndInv, TypeOK, VLogType
<1>3. Root(vlog.log)' = Root(new.log)
  <2>1. head'.root = head.root
    BY <1>1, <1>2
  <2> QED
    BY <1>1, <2>1 DEF Root
<1>4. InForce' = MarkedIn(lchunk, vlchunk, new.tree)
  BY <1>1 DEF InForce
<1>5. passes.slow # 0
  BY <1>1 DEF DurableInv, PassesCounted
<1>6. ASSUME passes.fast = 0 PROVE Owned(lchunk', InForce', logOf', live')
  <2>1. WalkInOrder
    BY <1>1, <1>6 DEF DurableInv, MediumInOrder
  <2>2. PICK s \in Seq(Addr) : \E k \in 2 .. (Len(s) + 1) :
          /\ IsChain(lchunk, s, Root(vlog.log), vlog.tree, vlog.tail)
          /\ gc.cursor = (IF k > Len(s) THEN Null ELSE s[k])
          /\ Owned(lchunk, ToCopy(s, k) \cup MarkedIn(lchunk, vlchunk, new.tree),
                   logOf, live)
    BY <2>1 DEF WalkInOrder
  <2>3. PICK k \in 2 .. (Len(s) + 1) :
          /\ IsChain(lchunk, s, Root(vlog.log), vlog.tree, vlog.tail)
          /\ gc.cursor = (IF k > Len(s) THEN Null ELSE s[k])
          /\ Owned(lchunk, ToCopy(s, k) \cup MarkedIn(lchunk, vlchunk, new.tree),
                   logOf, live)
    BY <2>2
  <2>4. Len(s) \in Nat /\ k = Len(s) + 1
    BY <1>1, <2>3, WalkPlaces
  <2>5. Ahead(s, k) = {}
    <3>1. (k + 1) .. Len(s) = {}
      BY <2>4
    <3> QED
      BY <3>1 DEF Ahead
  <2>6. \A p \in InForce : p[1] # gc.cursor
    <3>1. \A p \in InForce : p[1] \in Addr
      BY <1>2, AddrsOfItems
    <3> QED
      BY <1>1, <3>1 DEF Addr, Null
  <2>7. ToCopy(s, k) = {}
    BY <2>5, <2>6 DEF ToCopy
  <2>8. ToCopy(s, k) \cup MarkedIn(lchunk, vlchunk, new.tree)
          = MarkedIn(lchunk, vlchunk, new.tree)
    BY <2>7
  <2> QED
    BY <1>1, <1>4, <2>3, <2>8
<1>7. SlotsInOrder'
  BY <1>1 DEF DurableInv, SlotsInOrder
<1>8. PassesCounted' /\ OwnersInForce'
  BY <1>1, <1>5, <1>6 DEF PassesCounted, OwnersInForce
<1>9. MediumInOrder'
  <2> SUFFICES ASSUME passes.fast = 0
               PROVE  /\ status \in {"run", "log.c:52 log file is full"}
                      /\ LogInOrder(lchunk, vlchunk, new, Root(new.log))
                      /\ {ItemAt(lchunk', p).ptr : p \in InForce'} = live'
    BY <1>1, <1>3 DEF MediumInOrder
  <2>1. {ItemAt(lchunk', p).ptr : p \in InForce'} = live'
    BY <1>6, OwnedIsImage
  <2> QED
    BY <1>1, <2>1 DEF DurableInv, MediumInOrder
<1> QED
  BY <1>7, <1>8, <1>9 DEF DurableInv

LEMMA SlowDestroyDurable ==
  ASSUME IndInv, DurableInv, SlowDestroy
  PROVE  DurableInv'
<1>1. /\ gc.phase = "slow_destroy"
      /\ UNCHANGED <<lchunk, vlchunk, head, vlog, new, logOf, live, passes, status>>
      /\ gc \in GCType
  BY DEF SlowDestroy, owners, IndInv, TypeOK
<1>2. gc'.phase \in {"slow_destroy", "idle"}
  <2>1. ASSUME NEW c, gc' = [gc EXCEPT !.todo = @ \ {c}] PROVE gc'.phase = "slow_destroy"
    BY <1>1, <2>1 DEF GCType
  <2>2. Idle.phase = "idle"
    BY DEF Idle
  <2> QED
    BY <2>1, <2>2 DEF SlowDestroy
<1>3. PassesCounted'
  BY <1>1, <1>2 DEF DurableInv, PassesCounted
<1>4. passes.fast = 0 => status' \in {"run", "log.c:52 log file is full"}
  BY <1>1 DEF DurableInv, MediumInOrder
<1>5. gc.phase # "slow_walk" /\ gc'.phase # "slow_walk"
  BY <1>1, <1>2
<1> QED
  BY <1>1, <1>3, <1>4, <1>5, QuietDurable

----------------------------------------------------------------------------
(* fast_GC. *)

\* Whatever it does, the items and the bits of the chunks that stay are kept,
\* and the chunks that go have no bit set.
LEMMA FastDurable ==
  ASSUME DurableInv, PassesCounted', passes.fast # 0,
         gc.phase # "slow_walk", gc'.phase # "slow_walk",
         UNCHANGED <<logOf, live, passes>>,
         vlog'.tree \subseteq vlog.tree,
         \A d \in vlog.tree : /\ lchunk'[d].items = lchunk[d].items
                              /\ vlchunk'[d].bitmap = vlchunk[d].bitmap
                              /\ vlchunk'[d].count = vlchunk[d].count,
         \A d \in vlog.tree \ vlog'.tree : vlchunk[d].bitmap = {}
  PROVE  DurableInv'
<1>1. SlotsInOrder'
  <2>1. ASSUME NEW c \in vlog'.tree PROVE ChunkInOrder(lchunk', vlchunk', c)
    <3>1. ChunkInOrder(lchunk, vlchunk, c)
      BY DEF DurableInv, SlotsInOrder
    <3> QED
      BY <3>1 DEF ChunkInOrder
  <2> QED
    BY <2>1 DEF SlotsInOrder
<1>2. \A p \in vlog.tree \X Slot :
        /\ p[1] \in vlog.tree
        /\ ItemAt(lchunk', p) = ItemAt(lchunk, p)
        /\ vlchunk'[p[1]].bitmap = vlchunk[p[1]].bitmap
        /\ p[1] \notin vlog'.tree => vlchunk[p[1]].bitmap = {}
  BY DEF ItemAt
<1>3. InForce' = InForce
  <2>1. InForce' = {p \in vlog'.tree \X Slot : /\ p[2] \in vlchunk'[p[1]].bitmap
                                               /\ ItemAt(lchunk', p).type # "FREE_LOG"}
    BY DEF InForce, MarkedIn
  <2>2. InForce = {p \in vlog.tree \X Slot : /\ p[2] \in vlchunk[p[1]].bitmap
                                             /\ ItemAt(lchunk, p).type # "FREE_LOG"}
    BY DEF InForce, MarkedIn
  <2>3. vlog'.tree \X Slot = {p \in vlog.tree \X Slot : p[1] \in vlog'.tree}
    OBVIOUS
  <2> QED
    BY <1>2, <2>1, <2>2, <2>3
<1>4. \A p \in InForce : ItemAt(lchunk', p) = ItemAt(lchunk, p)
  BY <1>2 DEF InForce, MarkedIn
<1>5. OwnersInForce'
  <2> SUFFICES ASSUME passes.slow = 0 PROVE Owned(lchunk', InForce', logOf', live')
    BY DEF OwnersInForce
  <2>1. Owned(lchunk, InForce, logOf, live)
    BY DEF DurableInv, OwnersInForce
  <2>2. Owned(lchunk', InForce, logOf, live)
    BY <1>4, <2>1, OwnedStays
  <2> QED
    BY <1>3, <2>2
<1>6. MediumInOrder'
  BY DEF MediumInOrder
<1> QED
  BY <1>1, <1>5, <1>6 DEF DurableInv

LEMMA FastStepDurable ==
  ASSUME IndInv, DurableInv, FastStep
  PROVE  DurableInv'
<1>1. /\ gc.phase \in {"fast_scan", "fast_free"}
      /\ UNCHANGED <<logOf, live, passes>>
      /\ gc \in GCType /\ TypeOK /\ vlog.tree \in SUBSET Addr /\ vlog \in VLogType
  BY DEF FastStep, FastSkip, FastInvalidate, FastUnlink, FastScanned, FastFree, FastDone,
         AtCursor, owners, IndInv, TypeOK, VLogType
<1>2. gc'.phase \in {"fast_scan", "fast_free", "idle"}
  <2>1. ASSUME NEW c \in Addr, FastSkip(c) \/ FastInvalidate(c) \/ FastUnlink(c)
        PROVE  gc'.phase = gc.phase
    BY <1>1, <2>1 DEF FastSkip, FastInvalidate, FastUnlink, GCType
  <2>2. FastScanned => gc'.phase = "fast_free"
    BY <1>1 DEF FastScanned, GCType
  <2>3. FastFree => gc'.phase = gc.phase
    BY <1>1 DEF FastFree, GCType
  <2>4. FastDone => gc'.phase = "idle"
    BY DEF FastDone, Idle
  <2> QED
    BY <1>1, <2>1, <2>2, <2>3, <2>4 DEF FastStep
<1>3. passes.fast # 0
  BY <1>1 DEF DurableInv, PassesCounted
<1>4. PassesCounted'
  BY <1>1, <1>2, <1>3 DEF PassesCounted
<1>5. CASE UNCHANGED <<lchunk, vlchunk, vlog>>
  BY <1>1, <1>2, <1>3, <1>4, <1>5, FastDurable
<1>6. ASSUME NEW c \in Addr, FastInvalidate(c) PROVE DurableInv'
  <2>1. /\ vlchunk' = [vlchunk EXCEPT ![c].id = 0]
        /\ lchunk' = [lchunk EXCEPT ![c].id = 0]
        /\ vlog' = vlog
    BY <1>6 DEF FastInvalidate
  <2>2. /\ [lchunk[c] EXCEPT !.id = 0].items = lchunk[c].items
        /\ [vlchunk[c] EXCEPT !.id = 0].bitmap = vlchunk[c].bitmap
        /\ [vlchunk[c] EXCEPT !.id = 0].count = vlchunk[c].count
    BY <1>1 DEF TypeOK, LChunk, VLChunk
  <2>3. \A d \in vlog.tree : /\ lchunk'[d].items = lchunk[d].items
                             /\ vlchunk'[d].bitmap = vlchunk[d].bitmap
                             /\ vlchunk'[d].count = vlchunk[d].count
    BY <1>1, <2>1, <2>2 DEF TypeOK
  <2> QED
    BY <1>1, <1>2, <1>3, <1>4, <2>1, <2>3, FastDurable
<1>7. ASSUME NEW c \in Addr, FastUnlink(c) PROVE DurableInv'
  <2> DEFINE p == vlchunk[c].pre
             q == lchunk[c].next
  <2>1. /\ lchunk' = IF p # Null THEN [lchunk EXCEPT ![p].next = q] ELSE lchunk
        /\ vlchunk' = vlchunk /\ vlog' = vlog
    BY <1>7 DEF FastUnlink
  <2>2. p \in Addr \cup {Null}
    BY <1>1 DEF TypeOK, VLChunk
  <2> HIDE DEF p, q
  <2>3. p # Null => [lchunk[p] EXCEPT !.next = q].items = lchunk[p].items
    BY <1>1, <2>2 DEF TypeOK, LChunk
  <2>4. \A d \in vlog.tree : lchunk'[d].items = lchunk[d].items
    BY <1>1, <2>1, <2>2, <2>3 DEF TypeOK
  <2> QED
    BY <1>1, <1>2, <1>3, <1>4, <2>1, <2>4, FastDurable
<1>8. CASE FastFree
  <2>1. /\ gc.list # <<>> /\ gc.list \in Seq(Addr)
        /\ \A d \in Elems(gc.list) : vlchunk[d].bitmap = {}
        /\ UNCHANGED <<lchunk, vlchunk>>
    BY <1>1, <1>8 DEF FastFree, IndInv, FastListEmptyChunks, bitmap_empty, GCType
  <2>2. vlog'.tree = vlog.tree \ {Head(gc.list)}
    BY <1>1, <1>8 DEF FastFree, VLogType
  <2>3. Head(gc.list) \in Elems(gc.list)
    BY <2>1 DEF Elems
  <2> QED
    BY <1>1, <1>2, <1>3, <1>4, <2>1, <2>2, <2>3, FastDurable
<1>9. CASE FastScanned \/ FastDone \/ \E c \in Addr : FastSkip(c)
  BY <1>5, <1>9 DEF FastScanned, FastDone, FastSkip, file
<1> QED
  BY <1>6, <1>7, <1>8, <1>9 DEF FastStep

----------------------------------------------------------------------------
(* The chain slow_GC walks. *)

LEMMA LeastNat ==
  ASSUME NEW S \in SUBSET Nat, S # {}
  PROVE  \E x \in S : \A y \in S : x <= y
<1> DEFINE R == {q \in Nat \X Nat : q[1] < q[2]}
<1>1. OpToRel(<, Nat) = R
  BY DEF OpToRel
<1>2. IsWellFoundedOn(R, Nat)
  BY <1>1, NatLessThanWellFounded
<1>3. PICK x \in S : \A y \in S : <<y, x>> \notin R
  <2> HIDE DEF R
  <2> QED
    BY <1>2, WFMin
<1>4. \A y \in S : ~ (y < x)
  BY <1>3
<1> QED
  BY <1>4

\* The n-th chunk of the chain is the n-th of the sequence.
LEMMA ChainAtPlaces ==
  ASSUME NEW lc, NEW s \in Seq(Addr), NEW r, NEW T, NEW t \in T, r \notin T,
         IsChain(lc, s, r, T, t)
  PROVE  \A n \in 0 .. LOG_FILE_SIZE :
           ChainAt(lc, r)[n] = IF n < Len(s) THEN s[n + 1] ELSE Null
<1> DEFINE D == 0 .. LOG_FILE_SIZE
           g == [n \in D |-> IF n < Len(s) THEN s[n + 1] ELSE Null]
           h == ChainAt(lc, r)
<1>1. /\ Len(s) \in Nat /\ Len(s) >= 2 /\ s[1] = r /\ s[Len(s)] = t
      /\ \A j \in 2 .. Len(s) : s[j] \in T /\ s[j] \in Addr
      /\ \A j \in 1 .. (Len(s) - 1) : lc[s[j]].next = s[j + 1]
      /\ lc[t].next = Null
  BY ChainPlaces
<1>2. \A j \in 1 .. Len(s) : s[j] # Null
  <2>1. \A j \in 1 .. Len(s) : s[j] \in Addr
    OBVIOUS
  <2>2. Null \notin Addr
    BY DEF Null, Addr
  <2> QED
    BY <2>1, <2>2
<1>3. \A n \in D : n \in Nat /\ (n # 0 => n - 1 \in D)
  BY SizesAssumption
<1>4. ASSUME NEW n \in D
      PROVE  g[n] = IF n = 0 THEN r
                    ELSE IF g[n - 1] = Null THEN Null ELSE lc[g[n - 1]].next
  <2>1. CASE n = 0
    BY <1>1, <1>3, <2>1
  <2>2. CASE n # 0 /\ n < Len(s)
    <3>1. g[n] = s[n + 1] /\ g[n - 1] = s[n]
      BY <1>1, <1>3, <2>2
    <3>2. n \in 1 .. (Len(s) - 1) /\ n \in 1 .. Len(s)
      BY <1>1, <1>3, <2>2
    <3> QED
      BY <1>1, <1>2, <2>2, <3>1, <3>2
  <2>3. CASE n # 0 /\ n = Len(s)
    <3>1. g[n] = Null /\ g[n - 1] = s[n]
      BY <1>1, <1>3, <2>3
    <3> QED
      BY <1>1, <2>3, <3>1
  <2>4. CASE n > Len(s)
    <3>1. n # 0 /\ g[n] = Null /\ g[n - 1] = Null
      BY <1>1, <1>3, <2>4
    <3> QED
      BY <3>1
  <2> QED
    BY <1>1, <1>3, <2>1, <2>2, <2>3, <2>4
<1>5. g = [n \in D |-> IF n = 0 THEN r
                       ELSE IF g[n - 1] = Null THEN Null ELSE lc[g[n - 1]].next]
  <2>1. g = [n \in D |-> g[n]]
    OBVIOUS
  <2> HIDE DEF g
  <2> QED
    BY <1>4, <2>1
<1>6. h = [n \in D |-> IF n = 0 THEN r
                       ELSE IF h[n - 1] = Null THEN Null ELSE lc[h[n - 1]].next]
  <2> HIDE DEF g
  <2> QED
    BY <1>5 DEF ChainAt
<1> HIDE DEF g, h
<1>7. \A n \in D : h[n] = IF n = 0 THEN r
                          ELSE IF h[n - 1] = Null THEN Null ELSE lc[h[n - 1]].next
  BY <1>6
<1>8. \A n \in D : h[n] = g[n]
  <2> DEFINE W == {n \in D : h[n] # g[n]}
  <2> SUFFICES ASSUME W # {} PROVE FALSE
    OBVIOUS
  <2>1. W \in SUBSET Nat
    BY <1>3
  <2>2. PICK m \in W : \A y \in W : m <= y
    BY <2>1, LeastNat
  <2>3. m # 0 /\ m \in D
    BY <1>4, <1>7
  <2>4. m - 1 \in D /\ ~(m <= m - 1)
    BY <1>3, <2>3
  <2>5. h[m - 1] = g[m - 1]
    BY <2>2, <2>4
  <2>6. h[m] = g[m]
    BY <1>4, <1>7, <2>3, <2>5
  <2> QED
    BY <2>6
<1> QED
  BY <1>8 DEF g, h

\* A chain is no longer than the log file.
LEMMA ChainFits ==
  ASSUME NEW s \in Seq(Addr), Distinct(s)
  PROVE  Len(s) <= LOG_FILE_SIZE
<1> DEFINE I == 1 .. Len(s)
<1>1. Len(s) \in Nat
  OBVIOUS
<1>2. s \in Injection(I, Addr)
  <2>1. s \in [I -> Addr] /\ DOMAIN s = I
    OBVIOUS
  <2> QED
    BY <2>1 DEF Distinct, Injection, IsInjective
<1>3. IsFiniteSet(Addr) /\ Cardinality(Addr) = LOG_FILE_SIZE - 1
  BY AddrCount
<1>4. Cardinality(I) <= Cardinality(Addr)
  BY <1>2, <1>3, FS_Injection
<1>5. Cardinality(I) = Len(s)
  <2>1. 1 \in Int /\ Len(s) \in Int
    BY <1>1
  <2>2. Cardinality(1 .. Len(s)) = IF 1 > Len(s) THEN 0 ELSE Len(s) - 1 + 1
    BY <2>1, FS_Interval
  <2> QED
    BY <1>1, <2>2
<1>6. Cardinality(Addr) \in Nat
  BY <1>3, FS_CardinalityType
<1> QED
  BY <1>1, <1>3, <1>4, <1>5, <1>6, SizesAssumption

\* So the chunks linked behind the root are those of the tree.
LEMMA ChainIsT ==
  ASSUME NEW lc, NEW s \in Seq(Addr), NEW r, NEW T, NEW t \in T, r \notin T,
         IsChain(lc, s, r, T, t)
  PROVE  Chain(lc, r) = T
<1>1. /\ Len(s) \in Nat /\ Len(s) >= 2
      /\ \A j \in 2 .. Len(s) : s[j] \in T /\ s[j] \in Addr
      /\ \A c \in T : \E j \in 2 .. Len(s) : s[j] = c
  BY ChainPlaces
<1>2. Len(s) <= LOG_FILE_SIZE
  BY ChainFits DEF IsChain
<1> DEFINE h == ChainAt(lc, r)
<1>3. \A n \in 0 .. LOG_FILE_SIZE : h[n] = IF n < Len(s) THEN s[n + 1] ELSE Null
  BY ChainAtPlaces
<1>4. Chain(lc, r) = {h[n] : n \in 1 .. LOG_FILE_SIZE} \ {Null}
  BY DEF Chain
<1> HIDE DEF h
<1>5. ASSUME NEW c \in Chain(lc, r) PROVE c \in T
  <2>1. PICK n \in 1 .. LOG_FILE_SIZE : h[n] = c
    BY <1>4
  <2>2. n \in 0 .. LOG_FILE_SIZE /\ c # Null
    BY <1>4, SizesAssumption
  <2>3. n < Len(s) /\ c = s[n + 1]
    BY <1>3, <2>1, <2>2
  <2>4. n + 1 \in 2 .. Len(s)
    BY <1>1, <2>3
  <2> QED
    BY <1>1, <2>3, <2>4
<1>6. ASSUME NEW c \in T PROVE c \in Chain(lc, r)
  <2>1. PICK j \in 2 .. Len(s) : s[j] = c
    BY <1>1
  <2>2. /\ j - 1 \in 0 .. LOG_FILE_SIZE /\ j - 1 \in 1 .. LOG_FILE_SIZE
        /\ j - 1 < Len(s) /\ (j - 1) + 1 = j
    BY <1>1, <1>2, SizesAssumption
  <2>3. h[j - 1] = c
    BY <1>3, <2>1, <2>2
  <2>4. c # Null
    BY <1>1, <2>1 DEF Addr, Null
  <2> QED
    BY <1>4, <2>2, <2>3, <2>4
<1> QED
  BY <1>5, <1>6

----------------------------------------------------------------------------
(* What the medium records. *)

\* A free item frees an item of the log exactly when its bit is clear.
LEMMA FreedIsCleared ==
  ASSUME NEW lc, NEW vc, NEW T, FreesInOrder(lc, vc, T), Numbered(lc, vc, T),
         NEW p \in Objects(lc, T)
  PROVE  Freeing(lc, T, p[1], p[2]) <=> p \notin MarkedIn(lc, vc, T)
<1>1. /\ p \in T \X Slot /\ p[1] \in T /\ p[2] \in Slot /\ p = <<p[1], p[2]>>
  BY DEF Objects
<1> DEFINE f == FreeItem(p, lc[p[1]].id)
<1>2. /\ f.type = "FREE_LOG" /\ f.ptr = p /\ f # Blank
  BY DEF FreeItem, Blank
<1>3. Freeing(lc, T, p[1], p[2]) <=> \E d \in T : \E j \in Written(lc, d) : lc[d].items[j] = f
  BY <1>1 DEF Freeing
<1> HIDE DEF f
<1>4. \A d \in T : Written(lc, d) = {i \in Slot : lc[d].items[i] # Blank}
  BY DEF Written, Numbered
<1>5. ASSUME NEW d \in T, NEW j \in Written(lc, d), lc[d].items[j] = f
      PROVE  p \notin MarkedIn(lc, vc, T)
  <2>1. <<d, j>> \in T \X Slot /\ ItemAt(lc, <<d, j>>) = f
    BY <1>4, <1>5 DEF ItemAt
  <2>2. ItemAt(lc, <<d, j>>).ptr \in Objects(lc, T) \ MarkedIn(lc, vc, T)
    BY <1>2, <2>1 DEF FreesInOrder
  <2> QED
    BY <1>2, <2>1, <2>2
<1>6. ASSUME p \notin MarkedIn(lc, vc, T)
      PROVE  \E d \in T : \E j \in Written(lc, d) : lc[d].items[j] = f
  <2>1. PICK q \in T \X Slot : ItemAt(lc, q) = f
    BY <1>6 DEF FreesInOrder, f
  <2>2. q[1] \in T /\ q[2] \in Slot /\ lc[q[1]].items[q[2]] = f
    BY <2>1 DEF ItemAt
  <2>3. q[2] \in Written(lc, q[1])
    BY <1>2, <1>4, <2>2
  <2> QED
    BY <2>2, <2>3
<1> QED
  BY <1>3, <1>5, <1>6

LEMMA RecordedIsLive ==
  ASSUME IndInv, DurableInv, passes.fast = 0
  PROVE  Recorded = live
<1> DEFINE T == vlog.tree
           r == Root(vlog.log)
           R(c) == {lchunk[c].items[i].ptr :
                      i \in {k \in Written(lchunk, c) :
                               /\ lchunk[c].items[k].type # "FREE_LOG"
                               /\ ~Freeing(lchunk, T, c, k)}}
<1>1. /\ head.root[head.alt + 1] = r
      /\ vlog.tail \in T /\ r \notin T
  BY DEF IndInv, HandleOfHeader, TailInTree, ChunksPartitioned, Root
<1>2. /\ \A c \in T : ChunkInOrder(lchunk, vlchunk, c)
      /\ LogInOrder(lchunk, vlchunk, vlog, r)
      /\ {ItemAt(lchunk, p).ptr : p \in InForce} = live
  BY DEF DurableInv, SlotsInOrder, MediumInOrder
<1>3. PICK s \in Seq(Addr) : IsChain(lchunk, s, r, T, vlog.tail)
  BY <1>2 DEF LogInOrder
<1> HIDE DEF r
<1>4. Chain(lchunk, r) = T
  BY <1>1, <1>3, ChainIsT
<1>5. Recorded = UNION {R(c) : c \in T}
  BY <1>1, <1>4 DEF Recorded, RecordedIn
<1>6. FreesInOrder(lchunk, vlchunk, T) /\ Numbered(lchunk, vlchunk, T)
  BY <1>2 DEF LogInOrder
<1>7. InForce \subseteq Objects(lchunk, T)
  BY <1>2, MarkedAreObjects DEF InForce
<1>8. InForce = MarkedIn(lchunk, vlchunk, T)
  BY DEF InForce
<1> HIDE DEF T
<1>9. \A c \in T : Written(lchunk, c) = {i \in Slot : lchunk[c].items[i] # Blank}
  BY <1>6 DEF Written, Numbered
<1>10. ASSUME NEW c \in T, NEW x \in R(c) PROVE x \in live
  <2>1. PICK i \in Written(lchunk, c) : /\ lchunk[c].items[i].type # "FREE_LOG"
                                        /\ ~Freeing(lchunk, T, c, i)
                                        /\ x = lchunk[c].items[i].ptr
    OBVIOUS
  <2> DEFINE p == <<c, i>>
  <2>2. /\ p \in Objects(lchunk, T) /\ p[1] = c /\ p[2] = i
        /\ ItemAt(lchunk, p) = lchunk[c].items[i]
    BY <1>9, <2>1 DEF Objects, ItemAt
  <2>3. ~Freeing(lchunk, T, p[1], p[2])
    BY <2>1, <2>2
  <2> HIDE DEF p
  <2>4. p \in InForce
    BY <1>6, <1>8, <2>2, <2>3, FreedIsCleared
  <2> QED
    BY <1>2, <2>1, <2>2, <2>4
<1>11. ASSUME NEW x \in live PROVE \E c \in T : x \in R(c)
  <2>1. PICK p \in InForce : x = ItemAt(lchunk, p).ptr
    BY <1>2
  <2>2. /\ p \in Objects(lchunk, T) /\ p \in MarkedIn(lchunk, vlchunk, T)
    BY <1>7, <1>8
  <2>3. ~Freeing(lchunk, T, p[1], p[2])
    BY <1>6, <2>2, FreedIsCleared
  <2>4. /\ p[1] \in T /\ p[2] \in Written(lchunk, p[1])
        /\ lchunk[p[1]].items[p[2]].type # "FREE_LOG"
        /\ x = lchunk[p[1]].items[p[2]].ptr
    BY <1>9, <2>1, <2>2 DEF Objects, ItemAt
  <2> QED
    BY <2>3, <2>4
<1> HIDE DEF R
<1> QED
  BY <1>5, <1>10, <1>11

----------------------------------------------------------------------------
(* The theorems. *)

(* DurableInv holds in every reachable state: every action of the log and of
   its two collectors keeps it, given IndInv. *)
THEOREM Durable == Spec => []DurableInv
<1>1. Init => DurableInv
  BY InitDurable
<1>2. IndInv /\ DurableInv /\ [Next]_vars => DurableInv'
  <2> SUFFICES ASSUME IndInv, DurableInv, [Next]_vars PROVE DurableInv'
    OBVIOUS
  <2>1. CASE UNCHANGED vars
    <3>1. /\ UNCHANGED <<lchunk, vlchunk, head, vlog, new, gc, logOf, live, passes>>
          /\ status' = status
      BY <2>1 DEF vars, file, owners
    <3>2. passes.fast = 0 => status' \in {"run", "log.c:52 log file is full"}
      BY <3>1 DEF DurableInv, MediumInOrder
    <3> QED
      BY <3>1, <3>2, StatusDurable
  <2>2. CASE Next
    <3>1. ASSUME NEW o \in Objs, LogAlloc(o) PROVE DurableInv'
      BY <3>1, LogAllocDurable
    <3>2. ASSUME NEW o \in Objs, LogFree(o) PROVE DurableInv'
      BY <3>2, LogFreeDurable
    <3>3. CASE SlowStep
      BY <3>3, SlowBeginDurable, SlowCopyDurable, SlowNextChunkDurable,
         SlowCommitDurable, SlowDestroyDurable DEF SlowStep
    <3>4. CASE FastStep
      BY <3>4, FastStepDurable
    <3>5. CASE Stop
      BY <3>5, SlowStopsDurable, LogFileFullDurable, LogFreeStopsDurable DEF Stop
    <3> QED
      BY <2>2, <3>1, <3>2, <3>3, <3>4, <3>5 DEF Next, GCStep
  <2> QED
    BY <2>1, <2>2
<1> QED
  BY <1>1, <1>2, Inductive, PTL DEF Spec

(* While one of the collectors never ran, the set bits of the volatile
   bitmaps stand for exactly the allocated objects, each by the one item its
   owner points at: slow_GC copies these and asserts it (log.c:406, 419), and
   fast_GC drops the chunks without a set bit. *)
THEOREM BitsStayLive == Spec => []BitsAreLive
<1>1. ASSUME IndInv, DurableInv
      PROVE  BitsAreLive
  <2> SUFFICES ASSUME passes.fast = 0 \/ passes.slow = 0,
                      gc.phase \in {"idle", "slow_begin", "fast_scan", "fast_free"}
               PROVE  /\ \A c \in vlog.tree : \A i \in Marked(c) :
                           LET o == lchunk[c].items[i].ptr
                           IN  o \in live /\ logOf[o] = <<c, i>>
                      /\ \A o \in live : /\ logOf[o][1] \in vlog.tree
                                         /\ logOf[o][2] \in Marked(logOf[o][1])
    BY DEF BitsAreLive
  <2>1. Owned(lchunk, InForce, logOf, live)
    BY <1>1 DEF DurableInv, OwnersInForce
  <2>2. TypeOK /\ vlog.tree \in SUBSET Addr
    BY <1>1 DEF IndInv, TypeOK, VLogType
  <2>3. ASSUME NEW c \in vlog.tree, NEW i \in Marked(c)
        PROVE  /\ lchunk[c].items[i].ptr \in live
               /\ logOf[lchunk[c].items[i].ptr] = <<c, i>>
    <3>1. i \in Slot
      BY <2>2, <2>3 DEF TypeOK, VLChunk, Marked
    <3>2. <<c, i>> \in InForce
      BY <2>3, <3>1 DEF InForce, MarkedIn, Marked, ItemAt
    <3> QED
      BY <2>1, <3>2 DEF Owned, ItemAt
  <2>4. ASSUME NEW o \in live
        PROVE  logOf[o][1] \in vlog.tree /\ logOf[o][2] \in Marked(logOf[o][1])
    <3>1. logOf[o] \in InForce
      BY <2>1, <2>4 DEF Owned
    <3> QED
      BY <3>1 DEF InForce, MarkedIn, Marked, ItemAt
  <2> QED
    BY <2>3, <2>4
<1> QED
  BY <1>1, Inductive, Durable, PTL

(* The chain of chunks on the medium, which slow_GC walks and asserts to be in
   the tree (log.c:377), is the tree, and ends at the tail, until the first
   fast_GC. *)
THEOREM ChainStaysTree == Spec => []ChainIsTree
<1>1. ASSUME IndInv, DurableInv
      PROVE  ChainIsTree
  <2> SUFFICES ASSUME passes.fast = 0
               PROVE  /\ Chain(lchunk, Root(vlog.log)) = vlog.tree
                      /\ lchunk[vlog.tail].next = Null
    BY DEF ChainIsTree
  <2>1. vlog.tail \in vlog.tree /\ Root(vlog.log) \notin vlog.tree
    BY <1>1 DEF IndInv, TailInTree, ChunksPartitioned
  <2>2. PICK s \in Seq(Addr) :
          IsChain(lchunk, s, Root(vlog.log), vlog.tree, vlog.tail)
    BY <1>1 DEF DurableInv, MediumInOrder, LogInOrder
  <2> QED
    BY <2>1, <2>2, ChainIsT DEF IsChain
<1> QED
  BY <1>1, Inductive, Durable, PTL

(* num_of_items, by which add_log divides (log.c:230), counts the items of the
   log that are not free items, until the first fast_GC. *)
THEOREM ItemsCounted == Spec => []NumOfItemsExact
<1>1. ASSUME DurableInv
      PROVE  NumOfItemsExact
  <2> SUFFICES ASSUME passes.fast = 0
               PROVE  vlog.num_of_items =
                        Cardinality(UNION {{<<c, i>> : i \in {k \in Slot :
                              /\ lchunk[c].items[k] # Blank
                              /\ lchunk[c].items[k].type # "FREE_LOG"}} :
                           c \in vlog.tree})
    BY DEF NumOfItemsExact
  <2>1. vlog.num_of_items = Cardinality(Objects(lchunk, vlog.tree))
    BY <1>1 DEF DurableInv, MediumInOrder, LogInOrder
  <2>2. Objects(lchunk, vlog.tree)
          = UNION {{<<c, i>> : i \in {k \in Slot :
                      /\ lchunk[c].items[k] # Blank
                      /\ lchunk[c].items[k].type # "FREE_LOG"}} : c \in vlog.tree}
    BY DEF Objects, ItemAt
  <2> QED
    BY <2>1, <2>2
<1> QED
  BY <1>1, Durable, PTL

(* No assertion and no division by zero ends the process until the first
   fast_GC. *)
THEOREM OnlyFullFileStops == Spec => []NeverStopped
<1>1. DurableInv => NeverStopped
  BY DEF DurableInv, MediumInOrder, NeverStopped
<1> QED
  BY <1>1, Durable, PTL

(* As long as no fast_GC runs, the log implements the durable set without
   reserve, and so in the sense of ImplementsDurableSet too: at every step, and
   so at every power failure, those in the middle of a rewriting included, the
   medium records exactly the allocated objects. *)
THEOREM LogIsDurableSet ==
  Spec /\ [](passes.fast = 0) => DS!Spec /\ ImplementsDurableSet
<1>1. IndInv /\ DurableInv /\ passes.fast = 0 => Recorded = live
  BY RecordedIsLive
<1>2. ASSUME Init, Recorded = live PROVE DS!Init
  BY <1>2 DEF Init, DS!Init
<1>3. ASSUME Recorded = live, (Recorded = live)', [Next]_vars
      PROVE  [DS!Next]_(DS!vars)
  <2>1. CASE UNCHANGED vars
    BY <1>3, <2>1 DEF vars, owners, DS!vars
  <2>2. ASSUME NEW o \in Objs, LogAlloc(o) PROVE DS!Next
    BY <1>3, <2>2 DEF LogAlloc, DS!Next, DS!Allocated
  <2>3. ASSUME NEW o \in Objs, LogFree(o) PROVE DS!Next
    BY <1>3, <2>3 DEF LogFree, DS!Next, DS!Freed
  <2>4. CASE GCStep \/ Stop
    <3>1. live' = live
      BY <2>4 DEF GCStep, SlowStep, FastStep, Stop, SlowBegin, SlowCopy, SlowNextChunk,
           SlowCommit, SlowDestroy, FastSkip, FastInvalidate, FastUnlink, FastScanned,
           FastFree, FastDone, SlowStops, LogFileFull, LogFreeStops, owners
    <3> QED
      BY <1>3, <3>1 DEF DS!vars
  <2> QED
    BY <1>3, <2>1, <2>2, <2>3, <2>4 DEF Next
<1>4. Spec /\ [](passes.fast = 0) => [](Recorded = live)
  BY <1>1, Inductive, Durable, PTL
<1>5. Init /\ Recorded = live => DS!Init
  BY <1>2
<1>6. Recorded = live /\ (Recorded = live)' /\ [Next]_vars => [DS!Next]_(DS!vars)
  BY <1>3
<1>7. [DS!Next]_(DS!vars) => [ChainUnbroken' => DS!Next]_<<Recorded, live>>
  BY DEF DS!vars
<1> QED
  BY <1>4, <1>5, <1>6, <1>7, PTL DEF Spec, ImplementsDurableSet, DS!Spec

=============================================================================
