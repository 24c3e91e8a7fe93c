-------------------------------- MODULE Slab --------------------------------
(***************************************************************************)
(* Small blocks: the slabs of one arena, the bins they are listed in, the  *)
(* LRU list of the slabs that may be morphed, the thread caches, and the   *)
(* morphing of a slab into another size class with blocks of the old class *)
(* in it (src/src/slab.c, tcache.c, the small paths of nvalloc.c).  Every  *)
(* section of the code that holds a lock, and every step between two of    *)
(* them, is an action, so that threads interleave where the code lets them.*)
(***************************************************************************)
EXTENDS Integers, Sequences, FiniteSets, SequencesExt

CONSTANTS
  Home,             \* threads bound to this arena
  Foreign,          \* threads bound to another arena: they only free here
  NoThread,         \* nobody holds a lock
  Classes,          \* size classes in use, by index
  bitsize,          \* size of a block of each class
  roffset,          \* start of the blocks in a fresh slab of each class
  toffset,          \* end of the metadata, whatever the class: table of old blocks
  SLAB_SIZE,
  CACHELINE_SIZE,
  EntrySize,        \* sizeof(sb_table_t)
  NBANKS,
  NUM_MAX_CACHE,
  LowNum, LowDen,   \* MEMORY_MORPH_THRESHOLOD and LOW_SLAB_THRESHOLOD, 0.2
  SearchNum, SearchDen, \* MORHPING_LIST_SEARCH_THRESHOLD, 0.1
  TIMESTAMP_MORPH_THRESHOLD,
  Garbage,          \* what the flags is_sb of entries never written may read as
  Freeing,          \* the threads the program frees from
  Serial,           \* one operation at a time
  MaxSlabs,         \* bound: slabs ever made
  MaxFills          \* bound: fills of a thread cache

Threads == Home \cup Foreign

Byte == 256    \* num_b is a uint8_t
Half == 65536  \* nbits is a uint16_t

ASSUME ThreadsAssumption ==
  NoThread \notin Threads /\ Freeing \subseteq Threads /\ Serial \in BOOLEAN

ASSUME GeometryAssumption ==
  /\ Classes \subseteq Nat \ {0} /\ Classes # {}
  /\ bitsize \in [Classes -> Nat \ {0}]
  /\ roffset \in [Classes -> Nat \ {0}]
  /\ toffset \in Nat /\ SLAB_SIZE \in 1 .. Half
  /\ \A c \in Classes : /\ roffset[c] <= toffset
                        /\ toffset + bitsize[c] <= SLAB_SIZE
  /\ CACHELINE_SIZE \in Nat \ {0} /\ EntrySize \in Nat \ {0}

ASSUME PolicyAssumption ==
  /\ NBANKS \in Nat \ {0, 1} /\ NUM_MAX_CACHE \in Nat \ {0, 1}
  /\ LowNum \in Nat /\ LowDen \in Nat \ {0}
  /\ SearchNum \in Nat /\ SearchDen \in Nat \ {0}
  /\ TIMESTAMP_MORPH_THRESHOLD \in Nat
  /\ MaxSlabs \in Nat /\ MaxFills \in Nat

VARIABLES
  vslab,     \* the slabs, by order of creation
  made,      \* how many were created
  bin,       \* per class: the list of slabs, and now_vslab
  lru,       \* LRU_vslabs, LRU_len, morphing_len
  timestamp, \* arena->timestamp
  lock,      \* the holder of each lock
  cache,     \* the thread caches
  held,      \* the blocks the program has
  pc, loc,   \* where each thread is, and its locals
  status     \* "run", or where the process stopped

vars == <<vslab, made, bin, lru, timestamp, lock, cache, held, pc, loc, status>>

----------------------------------------------------------------------------
(* Geometry. *)

SlabId == 1 .. MaxSlabs
Null == 0
Way == 0 .. (NBANKS - 1)
Position == 0 .. (NUM_MAX_CACHE - 1)

ASSUME GarbageAssumption == Garbage \subseteq [Way -> [Position -> BOOLEAN]]

roundUp(n, a) == ((n + a - 1) \div a) * a

\* A slab of class c whose blocks start at r.
Layout(c, r) ==
  [c |-> c, roffset |-> r, nbits |-> (SLAB_SIZE - r) \div bitsize[c]]

get_sizeclass_by_idx(c) == Layout(c, roffset[c])

\* The layout with a table of m old blocks after the metadata.
sizeclass_reset(c, m) ==
  Layout(c, toffset + roundUp(EntrySize * m, CACHELINE_SIZE))

\* The block with number i in a slab v laid out as l.
BlockAt(v, l, i) == [v |-> v, c |-> l.c, off |-> l.roffset + i * bitsize[l.c]]

\* mutant: blocks are numbered from one.
IndexIn_fromOne(l, o) == (o - l.roffset) \div bitsize[l.c] + 1

\* The number of the block at offset o in layout l.
IndexIn(l, o) == (o - l.roffset) \div bitsize[l.c]

\* The numbers, in layout l, of the blocks that size bytes at o reach into.
Overlapped(l, o, size) == IndexIn(l, o) .. IndexIn(l, o + size - 1)


Low(n, nbits) == n * LowDen <= LowNum * nbits

\* Any number a block of any layout may have: the one past the last is the
\* rest of the slab that is too small for a block.
MaxId == SLAB_SIZE
Ids == 0 .. MaxId

----------------------------------------------------------------------------
(* State. *)

NoBlock == [v |-> Null, c |-> 0, off |-> 0]
NoLayout == [c |-> 0, roffset |-> 0, nbits |-> 0]

(* vslab_init; state says whether the extent is still the slab's.  dnum and
   alloced are what the array dmeta holds: the counts of old blocks, and the
   numbers in state META_ALLOCED.  A slab gets a new array when it changes class;
   dmeta numbers them, and dfreed has those that were given back. *)
Fresh(c) ==
  [state |-> "live", sc |-> get_sizeclass_by_idx(c), sc_b |-> NoLayout,
   bits |-> {}, nbits |-> 0, num_b |-> 0, dnum |-> [i \in Ids |-> 0],
   alloced |-> {}, dmeta |-> 0, dfreed |-> {},
   meta |-> {}, table |-> {}, freed |-> {}, timestamp |-> 0]
Unmade == [Fresh(CHOOSE c \in Classes : TRUE) EXCEPT !.state = "none"]

NoLocals == [c |-> 0, v |-> Null, stamp |-> 0, low |-> 0, delta |-> 0, next |-> "idle",
             blk |-> NoBlock, sc |-> NoLayout, sc_b |-> NoLayout]

\* avail[w]: the entries of a way; is_sb: their flags, which outlive them.
EmptyCache(f) == [avail |-> [w \in Way |-> <<>>], is_sb |-> f, bm |-> {},
                  now |-> NBANKS - 1]

Init ==
  /\ vslab = [v \in SlabId |-> Unmade]
  /\ made = 0
  /\ bin = [c \in Classes |-> [list |-> <<>>, now |-> Null]]
  /\ lru = [list |-> <<>>, len |-> 0, morphing |-> 0]
  /\ timestamp = 0
  /\ lock = [bin |-> [c \in Classes |-> NoThread],
             slab |-> [v \in SlabId |-> NoThread], lru |-> NoThread]
  /\ cache \in [Home -> [Classes ->
                 {EmptyCache(f) : f \in Garbage}]]
  /\ held = {}
  /\ pc = [t \in Threads |-> "idle"]
  /\ loc = [t \in Threads |-> NoLocals]
  /\ status = "run"

Elems(s) == {s[i] : i \in 1 .. Len(s)}
Place(s, v) == CHOOSE i \in 1 .. Len(s) : s[i] = v

\* dl_delete of the node of v.
Without(s, v) == IF v \in Elems(s) THEN RemoveAt(s, Place(s, v)) ELSE s
After(s, v) == IF v \notin Elems(s) \/ Place(s, v) = Len(s) THEN Null
               ELSE s[Place(s, v) + 1]

\* The thread t is at a step, the process running, and goes to another.
At(t, from) == status = "run" /\ pc[t] = from
Goto(t, to) == pc' = [pc EXCEPT ![t] = to]
Done(t) == Goto(t, "idle") /\ loc' = [loc EXCEPT ![t] = NoLocals]

\* The process stops at an assertion, or at a use of freed memory.
Stop(why) == status' = why
Ensure(cond, why) == status' = IF cond THEN status ELSE why

\* The locks, taken and given back.
BinLock(c, t) == lock' = [lock EXCEPT !.bin[c] = t]
SlabLock(v, t) == lock' = [lock EXCEPT !.slab[v] = t]
LRULock(t) == lock' = [lock EXCEPT !.lru = t]

\* The slab v leaves the LRU list.  The lengths are unsigned.
Wrap == 1000
Unlinked(l, v) ==
  [l EXCEPT !.list = Without(@, v), !.len = (@ - 1 + Wrap) % Wrap]

(* The count of the slabs that are low is read and written in two steps, and
   not always under LRU_lock.  The thread has read it, will add d (an unsigned
   sum), and go on at to. *)
ToRecount(t, d, to) ==
  /\ Goto(t, "recount")
  /\ loc' = [loc EXCEPT ![t].low = lru.morphing, ![t].delta = d, ![t].next = to]

----------------------------------------------------------------------------
(* nvalloc_malloc_to: a block is taken from the thread cache. *)

\* cache_bitmap_findnxt: the next way that has blocks.
NextWay(ch) == IF \E w \in ch.bm : w > ch.now
                 THEN CHOOSE w \in ch.bm : /\ w > ch.now
                                           /\ \A u \in ch.bm : u > ch.now => w <= u
                 ELSE CHOOSE w \in ch.bm : \A u \in ch.bm : w <= u

\* mutant: the bit is set, never cleared.
cache_bitmap_flip_sets(bm, w) == bm \cup {w}

cache_bitmap_flip(bm, w) == (bm \ {w}) \cup ({w} \ bm)

(* The flag at a position of a way.  The loop of nvalloc_malloc_to begins one
   past the top, and past the array when the way is full: there lies the next
   way, or behind the last way, at the place of is_sb, the count of the last
   way but one of the next class. *)
Flag(t, c, w, i) ==
  IF i < NUM_MAX_CACHE THEN cache[t][c].is_sb[w][i]
  ELSE IF w + 1 < NBANKS THEN cache[t][c].is_sb[w + 1][0]
  ELSE c + 1 \in Classes /\ cache[t][c + 1].avail[NBANKS - 2] # <<>>

\* ncached after the loop that drops the entries flagged is_sb.
Undropped(t, c, w) ==
  LET n == Len(cache[t][c].avail[w])
      kept == {i \in 0 .. n : ~Flag(t, c, w, i)}
  IN IF kept = {} THEN -1 ELSE CHOOSE i \in kept : \A j \in kept : j <= i

MallocCall(t, c) ==
  /\ At(t, "idle")
  /\ Serial => \A u \in Threads : pc[u] = "idle"
  /\ timestamp < MaxFills \/ cache[t][c].bm # {}
  /\ Goto(t, "malloc")
  /\ loc' = [loc EXCEPT ![t].c = c]
  /\ UNCHANGED <<vslab, made, bin, lru, timestamp, lock, cache, held, status>>

(* What may become of the slab s when the state in the array d, under the
   number i, is set.  An array that was given back may be other memory by now, or
   the memory of the one the slab has. *)
SetAlloced(s, d, i) ==
  LET set == [s EXCEPT !.alloced = @ \cup {i}]
  IN IF d = s.dmeta /\ d \notin s.dfreed THEN {set}
     ELSE IF d \in s.dfreed THEN {s, set} ELSE {s}

(* The top entry of the way is handed out and its bit set on the medium, and its
   state where the entry points.  When every entry was dropped the way is empty,
   and the next one is tried. *)
MallocTake(t) ==
  LET c == loc[t].c
      ch == cache[t][c]
      w == NextWay(ch)
      n == Undropped(t, c, w)
  IN /\ At(t, "malloc")
     /\ ch.bm # {}
     /\ n # 0
     /\ IF n = -1
          THEN /\ cache' = [cache EXCEPT ![t][c] =
                    [ch EXCEPT !.avail[w] = <<>>, !.bm = cache_bitmap_flip(@, w)]]
               /\ UNCHANGED <<vslab, held, pc, loc>>
          ELSE LET e == ch.avail[w][n]
                   s == [vslab[e.blk.v] EXCEPT !.meta = @ \cup {e.id}]
               IN /\ cache' = [cache EXCEPT ![t][c] =
                       [ch EXCEPT !.avail[w] = SubSeq(@, 1, n - 1),
                                  !.bm = IF n = 1 THEN cache_bitmap_flip(@, w) ELSE @,
                                  !.now = w]]
                  /\ \E left \in SetAlloced(s, e.dmeta, e.id) :
                       vslab' = [vslab EXCEPT ![e.blk.v] = left]
                  /\ held' = held \cup {e.blk}
                  /\ Done(t)
     /\ UNCHANGED <<made, bin, lru, timestamp, lock, status>>

\* All entries but the first were dropped: the one before the first is used.
\* Or the state is set in an array that was given back.
MallocStops(t) ==
  LET c == loc[t].c
      w == NextWay(cache[t][c])
      n == Undropped(t, c, w)
  IN /\ At(t, "malloc")
     /\ cache[t][c].bm # {}
     /\ \/ n = 0 /\ Stop("nvalloc.c:125 entry before the first")
        \/ /\ n > 0
           /\ LET e == cache[t][c].avail[w][n] IN e.dmeta \in vslab[e.blk.v].dfreed
           /\ Stop("nvalloc.c:127 dmeta was given back")
     /\ UNCHANGED <<vslab, made, bin, lru, timestamp, lock, cache, held, pc, loc>>

----------------------------------------------------------------------------
(* tcache_fill_cache: blocks are popped off slabs until a way is full. *)

\* The loop over the bin starts at now_vslab, or at the first slab.
StartOf(b) == IF b.now # Null THEN b.now
              ELSE IF b.list # <<>> THEN Head(b.list) ELSE Null

FillLock(t) ==
  LET c == loc[t].c
      v == StartOf(bin[c])
  IN /\ At(t, "malloc")
     /\ cache[t][c].bm = {}
     /\ timestamp < MaxFills
     /\ lock.bin[c] = NoThread
     /\ BinLock(c, t)
     /\ timestamp' = timestamp + 1
     /\ bin' = [bin EXCEPT ![c].now = v]
     /\ Goto(t, IF v = Null THEN "getone" ELSE "visit")
     /\ loc' = [loc EXCEPT ![t].v = v]
     /\ UNCHANGED <<vslab, made, lru, cache, held, status>>

\* The node the loop is at is in the bin, whose lock is held.
OnNode(t) == loc[t].v \in Elems(bin[loc[t].c].list)

FillVisit(t) ==
  LET v == loc[t].v
  IN /\ At(t, "visit")
     /\ OnNode(t)
     /\ lock.slab[v] = NoThread
     /\ SlabLock(v, t)
     /\ Goto(t, "pop")
     /\ Ensure(vslab[v].state = "live", "tcache.c:98 the slab was released")
     /\ UNCHANGED <<vslab, made, bin, lru, timestamp, cache, held, loc>>

\* A thread that freed deleted the node under the lock of another bin, that of
\* the class it had read: dln is a node that was given back.
FillStops(t) ==
  /\ At(t, "visit") \/ At(t, "pop")
  /\ ~OnNode(t)
  /\ Stop("tcache.c:95 the node was released")
  /\ UNCHANGED <<vslab, made, bin, lru, timestamp, lock, cache, held, pc, loc>>

\* slab_pop_one_cache finds nothing: the slab is full, or of another class.
\* A slab whose rest is taken counts as full with a block left.
Full(s, c) == s.sc.c # c \/ s.nbits \in {s.sc.nbits, s.sc.nbits + 1}

\* The next slab of the bin, till all have been seen.
FillNext(t) ==
  LET c == loc[t].c
      n == After(bin[c].list, loc[t].v)
      v == IF n = Null THEN Head(bin[c].list) ELSE n
  IN /\ At(t, "pop")
     /\ OnNode(t)
     /\ Full(vslab[loc[t].v], c)
     /\ SlabLock(loc[t].v, NoThread)
     /\ Goto(t, IF v = bin[c].now THEN "getone" ELSE "visit")
     /\ loc' = [loc EXCEPT ![t].v = v]
     /\ UNCHANGED <<vslab, made, bin, lru, timestamp, cache, held, status>>

\* mutant: a slab that is low no more stays counted.
Relow_onlyUp(s, m, n) ==
  IF s.num_b = 0 /\ ~Low(m, s.sc.nbits) /\ Low(n, s.sc.nbits) THEN 1 ELSE 0

\* update_arena_LRU_morphing_slab: by how much the count of low slabs changes
\* when the slab s goes from m to n blocks; and what is asserted of the count.
Relow(s, m, n) ==
  CASE s.num_b = 0 /\ Low(m, s.sc.nbits) /\ ~Low(n, s.sc.nbits) -> -1
    [] s.num_b = 0 /\ ~Low(m, s.sc.nbits) /\ Low(n, s.sc.nbits) -> 1
    [] OTHER -> 0
LowCounted(n) == n <= lru.len

\* An entry is put on top of a way.
Push(ch, w, e) ==
  [ch EXCEPT !.avail[w] = Append(@, e),
             !.is_sb[w][Len(ch.avail[w])] = FALSE,
             !.bm = IF ch.avail[w] = <<>> THEN cache_bitmap_flip(@, w) ELSE @]

\* mutant: the lowest block of the slab, free or not.
FirstFree_any(s) == 0

\* bitmap_sfu: the lowest block that is free.
FirstFree(s) == CHOOSE i \in Ids \ s.bits : \A j \in Ids \ s.bits : i <= j

\* The slab gives a block to the cache.  The fill is over when a way is full;
\* otherwise a slab without old blocks is marked as used.
FillPop(t) ==
  LET c == loc[t].c
      v == loc[t].v
      s == vslab[v]
      i == FirstFree(s)
      w == i % NBANKS
      ch == Push(cache[t][c], w, [blk |-> BlockAt(v, s.sc, i), id |-> i, dmeta |-> s.dmeta])
      d == Relow(s, s.nbits, s.nbits + 1)
      to == IF Len(ch.avail[w]) = NUM_MAX_CACHE THEN "filled"
            ELSE IF s.num_b = 0 THEN "touch" ELSE "pop"
  IN /\ At(t, "pop")
     /\ OnNode(t)
     /\ ~Full(s, c)
     /\ vslab' = [vslab EXCEPT ![v].bits = @ \cup {i}, ![v].nbits = @ + 1]
     /\ cache' = [cache EXCEPT ![t][c] = ch]
     /\ IF d # 0 THEN ToRecount(t, d, to) ELSE Goto(t, to) /\ UNCHANGED loc
     /\ Ensure(/\ s.nbits <= s.sc.nbits /\ i < s.sc.nbits
               /\ s.num_b = 0 /\ d = 0 => LowCounted(lru.morphing),
               "slab.c:363, slab.c:370 or slab.h:146")
     /\ UNCHANGED <<made, bin, lru, timestamp, lock, held>>

\* mutant: the lock of the slab is kept.
FilledLocks_keepsSlab(c, v) == [lock EXCEPT !.bin[c] = NoThread]

FilledLocks(c, v) == [lock EXCEPT !.slab[v] = NoThread, !.bin[c] = NoThread]

Filled(t) ==
  LET c == loc[t].c
  IN /\ At(t, "filled")
     /\ lock' = FilledLocks(c, loc[t].v)
     /\ bin' = [bin EXCEPT ![c].now = loc[t].v]
     /\ Goto(t, "malloc")
     /\ loc' = [loc EXCEPT ![t] = [NoLocals EXCEPT !.c = c]]
     /\ UNCHANGED <<vslab, made, lru, timestamp, cache, held, status>>

\* A slab without old blocks goes to the end of the LRU list.
Touch(t) ==
  LET v == loc[t].v
  IN /\ At(t, "touch")
     /\ lock.lru = NoThread
     /\ lru' = [lru EXCEPT !.list = Append(Without(@, v), v)]
     /\ Goto(t, "stamp")
     /\ Ensure(v \in Elems(lru.list), "slab.c:412")
     /\ UNCHANGED <<vslab, made, bin, timestamp, lock, cache, held, loc>>

Stamp(t) ==
  /\ At(t, "stamp")
  /\ vslab' = [vslab EXCEPT ![loc[t].v].timestamp = timestamp]
  /\ Goto(t, "pop")
  /\ UNCHANGED <<made, bin, lru, timestamp, lock, cache, held, loc, status>>

(* The second half of a change of morphing_len; whoever changes it without
   LRU_lock asserts something of it.  Then the lock that was needed is given
   back: LRU_lock by those that have it and are done with it, the lock of the
   slab by a thread that frees. *)
Recount(t) ==
  LET n == (loc[t].low + loc[t].delta + Wrap) % Wrap
      to == loc[t].next
  IN /\ At(t, "recount")
     /\ lru' = [lru EXCEPT !.morphing = n]
     /\ Goto(t, to)
     /\ loc' = [loc EXCEPT ![t] = IF to = "idle" THEN NoLocals
                  ELSE [@ EXCEPT !.low = 0, !.delta = 0, !.next = "idle"]]
     /\ lock' = [lock EXCEPT
          !.lru = IF @ = t /\ to # "rebuild" THEN NoThread ELSE @,
          !.slab[loc[t].v] = IF @ = t /\ to \in {"idle", "backbin"} THEN NoThread ELSE @]
     /\ Ensure(lock.lru # t => LowCounted(n), "slab.h:146")
     /\ UNCHANGED <<vslab, made, bin, timestamp, cache, held>>

----------------------------------------------------------------------------
(* slab_get_one: a slab is morphed, or a new one made. *)

\* The lengths are read without LRU_lock, and so is the clock.
GetOne(t) ==
  /\ At(t, "getone")
  /\ Goto(t, IF lru.morphing * SearchDen > lru.len * SearchNum
               THEN "search" ELSE "create")
  /\ loc' = [loc EXCEPT ![t].stamp = timestamp]
  /\ UNCHANGED <<vslab, made, bin, lru, timestamp, lock, cache, held, status>>

Search(t) ==
  /\ At(t, "search")
  /\ lock.lru = NoThread
  /\ LRULock(t)
  /\ loc' = [loc EXCEPT ![t].v = IF lru.list = <<>> THEN Null ELSE Head(lru.list)]
  /\ Goto(t, "scan")
  /\ UNCHANGED <<vslab, made, bin, lru, timestamp, cache, held, status>>

\* The difference of two unsigned clocks: a stamp later than the clock that was
\* read counts as very old.
Idle(t, s) == \/ s.timestamp > loc[t].stamp
              \/ loc[t].stamp - s.timestamp > TIMESTAMP_MORPH_THRESHOLD
Candidate(t, s) == Low(s.nbits, s.sc.nbits) /\ s.sc.c # loc[t].c

\* A slab of the LRU list, oldest first, none of its locks held.
SearchSkip(t) ==
  LET v == loc[t].v
  IN /\ At(t, "scan")
     /\ v # Null
     /\ Idle(t, vslab[v])
     /\ ~Candidate(t, vslab[v])
     /\ loc' = [loc EXCEPT ![t].v = After(lru.list, v)]
     /\ UNCHANGED <<vslab, made, bin, lru, timestamp, lock, cache, held, pc,
                    status>>

SearchFound(t) ==
  LET v == loc[t].v
  IN /\ At(t, "scan")
     /\ v # Null
     /\ Idle(t, vslab[v])
     /\ Candidate(t, vslab[v])
     /\ Goto(t, "candidate")
     /\ UNCHANGED <<vslab, made, bin, lru, timestamp, lock, cache, held, loc,
                    status>>

SearchFails(t) ==
  LET v == loc[t].v
  IN /\ At(t, "scan")
     /\ v # Null => ~Idle(t, vslab[v])
     /\ LRULock(NoThread)
     /\ Goto(t, "create")
     /\ UNCHANGED <<vslab, made, bin, lru, timestamp, cache, held, loc, status>>

\* slab_create: a slab is made and enters the LRU list, then the bin.
Create(t) ==
  LET v == made + 1
  IN /\ At(t, "create")
     /\ made < MaxSlabs
     /\ lock.lru = NoThread
     /\ LRULock(t)
     /\ made' = v
     /\ vslab' = [vslab EXCEPT ![v] = Fresh(loc[t].c)]
     /\ lru' = [lru EXCEPT !.list = Append(@, v), !.len = @ + 1]
     /\ Goto(t, "recount")
     /\ loc' = [loc EXCEPT ![t].v = v, ![t].low = lru.morphing,
                           ![t].delta = 1, ![t].next = "insert"]
     /\ UNCHANGED <<bin, timestamp, cache, held, status>>

\* The slab v is put first in the bin c and is the next one to fill from.
Inserted(b, v) == [list |-> <<v>> \o b.list, now |-> v]

Insert(t) ==
  /\ At(t, "insert")
  /\ bin' = [bin EXCEPT ![loc[t].c] = Inserted(@, loc[t].v)]
  /\ Goto(t, "visit")
  /\ UNCHANGED <<vslab, made, lru, timestamp, lock, cache, held, loc, status>>

----------------------------------------------------------------------------
(* slab_morphing: the blocks left in the slab become old blocks of a slab of
   the class that needs one. *)

MorphLock(t) ==
  /\ At(t, "candidate")
  /\ lock.slab[loc[t].v] = NoThread
  /\ SlabLock(loc[t].v, t)
  /\ Goto(t, "morph")
  /\ UNCHANGED <<vslab, made, bin, lru, timestamp, cache, held, loc, status>>

(* Step 1: the entries of the thread's cache that lie in the slab are dropped.
   The cache looked through is that of the class the slab gets.  A way is
   looked through when some block of it is taken and in state META_FREE. *)
Dropped(t) ==
  LET s == vslab[loc[t].v]
      ch == cache[t][loc[t].c]
  IN {p \in Way \X Position :
        /\ p[2] < Len(ch.avail[p[1]])
        /\ \E b \in s.bits \ s.alloced : b % NBANKS = p[1]
        /\ ch.avail[p[1]][p[2] + 1].blk.v = loc[t].v
        /\ ~ch.is_sb[p[1]][p[2]]}

\* The slab and the cache after step 1.
SlabLeft(t) ==
  LET s == vslab[loc[t].v]
      ch == cache[t][loc[t].c]
      ids == {IndexIn(s.sc, ch.avail[p[1]][p[2] + 1].blk.off) : p \in Dropped(t)}
  IN [s EXCEPT !.bits = @ \ ids, !.nbits = (@ - Cardinality(Dropped(t))) % Half]

CacheLeft(t) ==
  LET flags == cache[t][loc[t].c].is_sb
  IN [cache EXCEPT ![t][loc[t].c].is_sb =
        [w \in Way |-> [i \in Position |-> flags[w][i] \/ <<w, i>> \in Dropped(t)]]]

\* Step 3: the layout the slab would get, and whether the blocks left lie
\* behind the table.
NewLayout(t) == sizeclass_reset(loc[t].c, SlabLeft(t).nbits)

\* mutant: the place of the first block left is not looked at.
Fits_anyway(t) == TRUE

Fits(t) == \A b \in SlabLeft(t).bits :
             BlockAt(loc[t].v, vslab[loc[t].v].sc, b).off >= NewLayout(t).roffset

MorphRefused(t) ==
  LET v == loc[t].v
  IN /\ At(t, "morph")
     /\ SlabLeft(t).nbits # 0
     /\ ~Fits(t)
     /\ vslab' = [vslab EXCEPT ![v] = SlabLeft(t)]
     /\ cache' = CacheLeft(t)
     /\ SlabLock(v, NoThread)
     /\ loc' = [loc EXCEPT ![t].v = After(lru.list, v)]
     /\ Goto(t, "scan")
     /\ UNCHANGED <<made, bin, lru, timestamp, held, status>>

\* Step 2, nothing is left: the slab only changes class; it waits for the lock
\* of the bin it is in.
MorphIsEmpty(t) ==
  LET v == loc[t].v
  IN /\ At(t, "morph")
     /\ SlabLeft(t).nbits = 0
     /\ vslab' = [vslab EXCEPT ![v] = SlabLeft(t)]
     /\ cache' = CacheLeft(t)
     /\ Goto(t, "reclass")
     /\ UNCHANGED <<made, bin, lru, timestamp, lock, held, loc, status>>

\* Step 4, as far as the lock of the bin the slab is in: the slab has its new
\* layout, and the bitmap and metadata of the old one.
MorphBegin(t) ==
  LET v == loc[t].v
      s == SlabLeft(t)
  IN /\ At(t, "morph")
     /\ s.nbits # 0
     /\ Fits(t)
     /\ vslab' = [vslab EXCEPT ![v] =
          [s EXCEPT !.sc = NewLayout(t), !.sc_b = s.sc, !.num_b = s.nbits % Byte,
                    !.nbits = 0]]
     /\ cache' = CacheLeft(t)
     /\ Goto(t, "move")
     /\ Ensure(s.bits # {}, "slab.c:222")
     /\ UNCHANGED <<made, bin, lru, timestamp, lock, held, loc>>

Listed(v) == \E c \in Classes : v \in Elems(bin[c].list)

(* dl_delete_vslab, of the bin c: the node of the slab v leaves the list it is
   in, and the cursor of c goes past it. *)
Deleted(c, v) ==
  [b \in Classes |->
     [list |-> Without(bin[b].list, v),
      now |-> IF b = c /\ bin[c].now = v THEN After(bin[c].list, v) ELSE bin[b].now]]

\* Step 2 goes on: the slab leaves the bin it is in.
MorphEmpty(t) ==
  LET v == loc[t].v
      from == vslab[v].sc.c
  IN /\ At(t, "reclass")
     /\ lock.bin[from] = NoThread
     /\ bin' = Deleted(from, v)
     /\ Goto(t, "reinit")
     /\ Ensure(Listed(v), "dl.c:50 of a morphed slab")
     /\ UNCHANGED <<vslab, made, lru, timestamp, lock, cache, held, loc>>

\* slab_init and vslab_init: the array dmeta is a new one and the old one is not
\* given back.  The lock, which is held, is made anew and so is free; then the
\* slab goes to the bin being filled.
MorphReinit(t) ==
  LET v == loc[t].v
      s == vslab[v]
  IN /\ At(t, "reinit")
     /\ vslab' = [vslab EXCEPT ![v] =
          [Fresh(loc[t].c) EXCEPT !.state = s.state, !.sc_b = s.sc_b, !.table = s.table,
                                  !.freed = s.freed, !.dmeta = s.dmeta + 1,
                                  !.dfreed = s.dfreed]]
     /\ bin' = [bin EXCEPT ![loc[t].c] = Inserted(@, v)]
     /\ SlabLock(v, NoThread)
     /\ Goto(t, "unlock")
     /\ UNCHANGED <<made, lru, timestamp, cache, held, loc, status>>

\* The lock of the slab is given back, whoever may have it by now.
MorphUnlock(t) ==
  /\ At(t, "unlock")
  /\ lock' = [lock EXCEPT !.slab[loc[t].v] = NoThread, !.lru = NoThread]
  /\ Goto(t, "visit")
  /\ UNCHANGED <<vslab, made, bin, lru, timestamp, cache, held, loc, status>>

\* Step 4 goes on: the slab leaves the bin it is in for the one being filled.
MorphMove(t) ==
  LET v == loc[t].v
      from == vslab[v].sc_b.c
  IN /\ At(t, "move")
     /\ lock.bin[from] = NoThread
     /\ bin' = [Deleted(from, v) EXCEPT ![loc[t].c] = Inserted(@, v)]
     /\ lru' = Unlinked(lru, v)
     /\ ToRecount(t, -1, "rebuild")
     /\ Ensure(Listed(v), "dl.c:50 of a morphed slab")
     /\ UNCHANGED <<vslab, made, timestamp, lock, cache, held>>

\* The numbers, in the new layout, that the old block b reaches into.
Reach(s, b) == Overlapped(s.sc, s.sc_b.roffset + b * bitsize[s.sc_b.c],
                          bitsize[s.sc_b.c])

\* mutant: a number that two old blocks reach into is counted once.
OldAt_once(s, i) == IF \E b \in s.bits : i \in Reach(s, b) THEN 1 ELSE 0

OldAt(s, i) == Cardinality({b \in s.bits : i \in Reach(s, b)})

\* Steps 4.1 and 4.2: the table and the metadata of the slab s, and a new array
\* dmeta for the one that is given back.
Rebuilt(s) ==
  LET taken == UNION {Reach(s, b) : b \in s.bits}
  IN [s EXCEPT !.dnum = [i \in Ids |-> OldAt(s, i)],
               !.bits = taken, !.nbits = Cardinality(taken),
               !.alloced = taken, !.dmeta = s.dmeta + 1, !.dfreed = @ \cup {s.dmeta},
               !.meta = taken, !.table = s.bits, !.freed = {}]

MorphEnd(t) ==
  LET v == loc[t].v
      s == vslab[v]
  IN /\ At(t, "rebuild")
     /\ vslab' = [vslab EXCEPT ![v] = Rebuilt(s)]
     /\ lock' = [lock EXCEPT !.slab[v] = NoThread, !.lru = NoThread]
     /\ Goto(t, "visit")
     /\ Ensure(/\ Cardinality(s.bits) = s.num_b
               /\ Rebuilt(s).bits \subseteq 0 .. s.sc.nbits,
               IF Cardinality(s.bits) # s.num_b THEN "slab.c:282" ELSE "slab.c:313")
     /\ UNCHANGED <<made, bin, lru, timestamp, cache, held, loc>>

----------------------------------------------------------------------------
(* slab_free_small. *)

\* The layouts are read without the lock of the slab, and used after.
FreeCall(t, b) ==
  /\ At(t, "idle")
  /\ Serial => \A u \in Threads : pc[u] = "idle"
  /\ t \in Freeing /\ b \in held
  /\ held' = held \ {b}
  /\ loc' = [loc EXCEPT ![t].v = b.v, ![t].blk = b, ![t].sc = vslab[b.v].sc,
                        ![t].sc_b = vslab[b.v].sc_b]
  /\ Goto(t, "free")
  /\ UNCHANGED <<vslab, made, bin, lru, timestamp, lock, cache, status>>

\* The block under its number in the layout that was read.
Index(t) == IndexIn(loc[t].sc, loc[t].blk.off)
WayFull(t) == \/ t \notin Home
              \/ Len(cache[t][loc[t].sc.c].avail[Index(t) % NBANKS]) = NUM_MAX_CACHE
IsOld(t) == vslab[loc[t].v].num_b # 0 /\ vslab[loc[t].v].dnum[Index(t)] # 0
IndexOK(t) == Ensure(Index(t) <= vslab[loc[t].v].sc.nbits, "slab.c:449")

FreeIsOld(t) ==
  /\ At(t, "free")
  /\ IsOld(t)
  /\ Goto(t, "old")
  /\ IndexOK(t)
  /\ UNCHANGED <<vslab, made, bin, lru, timestamp, lock, cache, held, loc>>

\* A block of the class of the slab: its bit goes on the medium, then it goes
\* to the cache of a thread of this arena, if the way has room.
FreeNew(t) ==
  LET i == Index(t)
      c == loc[t].sc.c
  IN /\ At(t, "free")
     /\ ~IsOld(t)
     /\ vslab' = [vslab EXCEPT ![loc[t].v].meta = @ \ {i}, ![loc[t].v].alloced = @ \ {i}]
     /\ IndexOK(t)
     /\ IF WayFull(t)
          THEN Goto(t, "back") /\ UNCHANGED <<cache, loc>>
          ELSE /\ cache' = [cache EXCEPT ![t][c] =
                    Push(@, i % NBANKS, [blk |-> [loc[t].blk EXCEPT !.c = c], id |-> i,
                                         dmeta |-> vslab[loc[t].v].dmeta])]
               /\ Done(t)
     /\ UNCHANGED <<made, bin, lru, timestamp, lock, held>>

(* The path of an old block. *)

\* The numbers the old block gives up: those no other old block reaches into.
OldIds(t) == Overlapped(loc[t].sc, loc[t].blk.off, bitsize[loc[t].sc_b.c])

\* mutant: every number the block reaches into is given up.
GivenUp_shared(t) == OldIds(t)

\* mutant: the numbers stay taken.
GivenUp_none(t) == {}

GivenUp(t) == {i \in OldIds(t) : vslab[loc[t].v].dnum[i] = 1}

FreeOld(t) ==
  LET v == loc[t].v
      s == vslab[v]
      bid_b == IndexIn(loc[t].sc_b, loc[t].blk.off)
      left == (s.nbits - Cardinality(GivenUp(t))) % Half
      to == IF left = 0 THEN "oldbin" ELSE IF s.num_b = 1 THEN "oldlru" ELSE "idle"
  IN /\ At(t, "old")
     /\ lock.slab[v] = NoThread
     /\ loc[t].sc_b # NoLayout
     /\ vslab' = [vslab EXCEPT ![v] =
          [s EXCEPT !.num_b = (@ - 1) % Byte, !.freed = @ \cup {bid_b}, !.nbits = left,
             !.dnum = [i \in Ids |-> IF i \in OldIds(t) THEN @[i] - 1 ELSE @[i]],
             !.bits = @ \ GivenUp(t), !.meta = @ \ GivenUp(t), !.alloced = @ \ GivenUp(t),
             !.timestamp = IF to = "oldlru" THEN timestamp ELSE @]]
     /\ IF to = "idle" THEN Done(t)
        ELSE Goto(t, to) /\ loc' = [loc EXCEPT ![t].blk = NoBlock]
     /\ Ensure(bid_b \in s.table, "slab.c:471")
     /\ UNCHANGED <<made, bin, lru, timestamp, lock, cache, held>>

\* The slab was morphed for the first time after its layouts were read: the
\* size of an old block is not initialised.
FreeOldStops(t) ==
  /\ At(t, "old")
  /\ lock.slab[loc[t].v] = NoThread
  /\ loc[t].sc_b = NoLayout
  /\ Stop("slab.c:466 sc_b is not initialised")
  /\ UNCHANGED <<vslab, made, bin, lru, timestamp, lock, cache, held, pc, loc>>

\* No old block is left: the slab may be morphed again.
OldLRU(t) ==
  LET v == loc[t].v
      s == vslab[v]
  IN /\ At(t, "oldlru")
     /\ lock.lru = NoThread
     /\ lru' = [lru EXCEPT !.list = Append(@, v), !.len = @ + 1]
     /\ IF Low(s.nbits, s.sc.nbits)
          THEN LRULock(t) /\ ToRecount(t, 1, "idle")
          ELSE Done(t) /\ UNCHANGED lock
     /\ UNCHANGED <<vslab, made, bin, timestamp, cache, held, status>>

\* mutant: whether the slab still is empty is not looked at.
StillEmpty_assumed(v) == TRUE

StillEmpty(v) == vslab[v].nbits = 0

\* The slab is empty: it leaves its bin, if it still is.
LeaveBin(t) ==
  LET v == loc[t].v
      c == loc[t].sc.c
      to == IF pc[t] = "oldbin" THEN "release" ELSE "backcheck"
  IN /\ At(t, "oldbin") \/ At(t, "backbin")
     /\ lock.bin[c] = NoThread
     /\ IF StillEmpty(v)
          THEN bin' = Deleted(c, v) /\ Ensure(Listed(v), "dl.c:50 of a released slab")
          ELSE UNCHANGED <<bin, status>>
     /\ Goto(t, to)
     /\ UNCHANGED <<vslab, made, lru, timestamp, lock, cache, held, loc>>

\* arena_slab_dalloc, if the slab still is empty.
Release(t) ==
  LET v == loc[t].v
  IN /\ At(t, "release")
     /\ IF StillEmpty(v)
          THEN /\ vslab' = [vslab EXCEPT ![v].state = "gone",
                                            ![v].dfreed = @ \cup {vslab[v].dmeta}]
               /\ Ensure(vslab[v].state = "live", "arena.c:786")
          ELSE UNCHANGED <<vslab, status>>
     /\ Done(t)
     /\ UNCHANGED <<made, bin, lru, timestamp, lock, cache, held>>

\* mutant: the bit of the block is not cleared.
Returned_keepsBit(s, i) == [s EXCEPT !.nbits = (@ - 1) % Half]

Returned(s, i) == [s EXCEPT !.bits = @ \ {i}, !.nbits = (@ - 1) % Half]

\* The path of a block that does not go to a cache.
FreeBack(t) ==
  LET v == loc[t].v
      s == vslab[v]
      left == (s.nbits - 1) % Half
      d == Relow([s EXCEPT !.sc.nbits = loc[t].sc.nbits], left + 1, left)
      to == IF left = 0 THEN "backbin" ELSE "idle"
  IN /\ At(t, "back")
     /\ lock.slab[v] = NoThread
     /\ vslab' = [vslab EXCEPT ![v] = Returned(s, Index(t))]
     /\ IF d # 0
          THEN /\ SlabLock(v, t)
               /\ Goto(t, "recount")
               /\ loc' = [loc EXCEPT ![t].low = lru.morphing, ![t].delta = d,
                                     ![t].next = to, ![t].blk = NoBlock]
          ELSE /\ IF to = "idle" THEN Done(t)
                  ELSE Goto(t, to) /\ loc' = [loc EXCEPT ![t].blk = NoBlock]
               /\ UNCHANGED lock
     /\ Ensure(s.num_b = 0 /\ d = 0 => LowCounted(lru.morphing), "slab.h:146")
     /\ UNCHANGED <<made, bin, lru, timestamp, cache, held>>

\* The number of blocks is looked at again without a lock.
BackCheck(t) ==
  /\ At(t, "backcheck")
  /\ IF StillEmpty(loc[t].v) THEN Goto(t, "backlru") /\ UNCHANGED loc
                              ELSE Done(t)
  /\ UNCHANGED <<vslab, made, bin, lru, timestamp, lock, cache, held, status>>

\* The slab leaves the LRU list, and is released whatever it holds by now.
BackLRU(t) ==
  LET v == loc[t].v
  IN /\ At(t, "backlru")
     /\ lock.lru = NoThread
     /\ LRULock(t)
     /\ lru' = Unlinked(lru, v)
     /\ ToRecount(t, -1, "dalloc")
     /\ Ensure(v \in Elems(lru.list), "dl.c:50 of the LRU list")
     /\ UNCHANGED <<vslab, made, bin, timestamp, cache, held>>

\* Here the array dmeta is not given back.
Dalloc(t) ==
  /\ At(t, "dalloc")
  /\ vslab' = [vslab EXCEPT ![loc[t].v].state = "gone"]
  /\ Ensure(vslab[loc[t].v].state = "live", "arena.c:786")
  /\ Done(t)
  /\ UNCHANGED <<made, bin, lru, timestamp, lock, cache, held>>

----------------------------------------------------------------------------

Fill(t) == FillLock(t) \/ FillVisit(t) \/ FillStops(t) \/ FillNext(t) \/ FillPop(t)
           \/ Filled(t) \/ Touch(t) \/ Stamp(t)
slab_get_one(t) == \/ GetOne(t) \/ Search(t) \/ SearchSkip(t) \/ SearchFound(t)
                   \/ SearchFails(t) \/ Create(t) \/ Insert(t)
slab_morphing(t) == \/ MorphLock(t) \/ MorphRefused(t) \/ MorphIsEmpty(t)
                    \/ MorphBegin(t) \/ MorphEmpty(t) \/ MorphReinit(t) \/ MorphUnlock(t)
                    \/ MorphMove(t) \/ MorphEnd(t)
slab_free_small(t) == \/ \E b \in held : FreeCall(t, b)
                      \/ FreeIsOld(t) \/ FreeNew(t) \/ FreeOld(t) \/ FreeOldStops(t) \/ OldLRU(t)
                      \/ LeaveBin(t) \/ Release(t) \/ FreeBack(t)
                      \/ BackCheck(t) \/ BackLRU(t) \/ Dalloc(t)
nvalloc_malloc_to(t) == \/ \E c \in Classes : MallocCall(t, c)
                        \/ MallocTake(t) \/ MallocStops(t)
                        \/ Fill(t) \/ slab_get_one(t) \/ slab_morphing(t)

Next == \/ \E t \in Home : nvalloc_malloc_to(t)
        \/ \E t \in Threads : slab_free_small(t) \/ Recount(t)

Spec == Init /\ [][Next]_vars

----------------------------------------------------------------------------
(* Properties. *)

Running == status = "run"
Quiet == Running /\ \A t \in Threads : pc[t] = "idle"
Live == {v \in SlabId : vslab[v].state = "live"}
Unlocked == {v \in Live : lock.slab[v] = NoThread}

\* Every place that has a block: the program, an entry of a cache, a thread
\* that is giving it back.
Owned ==
  {<<b, <<NoThread, 0, 0, 0>>>> : b \in held}
  \cup {<<loc[t].blk, <<t, 0, 0, 0>>>> : t \in {u \in Threads : loc[u].blk # NoBlock}}
  \cup UNION {{<<cache[t][c].avail[w][i].blk, <<t, c, w, i>>>>
                 : i \in 1 .. Len(cache[t][c].avail[w])}
               : t \in Home, c \in Classes, w \in Way}
Out(v) == {o[1] : o \in {p \in Owned : p[1].v = v}}

\* The numbers, in the layout of the slab v, that the block b of it takes.
Taken(v, b) == Overlapped(vslab[v].sc, b.off, bitsize[b.c])
AllTaken(v) == UNION {Taken(v, b) : b \in Out(v)}

\* No byte of a slab belongs to two blocks, or to a block and the metadata or
\* the table, whatever the classes of the blocks and wherever they are: handed
\* out, cached or on their way back (slab.c:213-344: a slab keeps the blocks of
\* its old class).
NoOverlap ==
  Running => \A o \in Owned :
    /\ o[1].off >= vslab[o[1].v].sc.roffset
    /\ \A p \in Owned \ {o} :
         o[1].v = p[1].v => \/ o[1].off + bitsize[o[1].c] <= p[1].off
                           \/ p[1].off + bitsize[p[1].c] <= o[1].off

\* The bitmap of a slab takes the numbers that blocks that are out reach into,
\* and no other: none is given out twice and none is lost.  nbits is how many
\* they are (slab.c:240, 324, 500, 582).
BitmapExact ==
  Running => \A v \in Unlocked : /\ vslab[v].bits = AllTaken(v)
                                 /\ vslab[v].nbits = Cardinality(vslab[v].bits)

\* The counts of old blocks are those of the blocks of the old class that are
\* out, in the whole slab and under each number (slab.c:240, 326, 492).
OldCounted ==
  Running => \A v \in Unlocked :
    LET s == vslab[v]
        old == {b \in Out(v) : b.c # s.sc.c}
    IN /\ s.num_b = Cardinality(old)
       /\ s.num_b # 0 =>
            \A i \in Ids : s.dnum[i] = Cardinality({b \in old : i \in Taken(v, b)})

\* One thread at a time frees.
OneFrees == Serial \/ \A t, u \in Freeing : t = u

\* A block the program has is recorded on the medium: by its bit, or, if it is
\* of the old class of its slab, in the table and by every bit it reaches into.
\* Its slab is not released while others fill from it (nvalloc.c:125,
\* slab.c:263-334, 473, 591-600).
HeldIsRecorded ==
  Running /\ OneFrees => \A b \in held :
    LET s == vslab[b.v]
    IN /\ s.state = "live"
       /\ lock.slab[b.v] = NoThread =>
            /\ Taken(b.v, b) \subseteq s.meta
            /\ b.c # s.sc.c => IndexIn(s.sc_b, b.off) \in s.table \ s.freed

\* A way is in the bitmap of its cache when it has blocks, and has at most as
\* many as there is room for (slab.c:384-400, nvalloc.c:132).
WaysExact ==
  Running => \A t \in Home, c \in Classes :
    /\ cache[t][c].bm = {w \in Way : cache[t][c].avail[w] # <<>>}
    /\ \A w \in Way : Len(cache[t][c].avail[w]) <= NUM_MAX_CACHE

\* The LRU list has the slabs without old blocks, each once; LRU_len is their
\* number, and morphing_len the number of those that are low.
LRUExact ==
  /\ Elems(lru.list) = {v \in Live : vslab[v].num_b = 0}
  /\ Len(lru.list) = Cardinality(Elems(lru.list))
  /\ lru.len = Len(lru.list)
  /\ lru.morphing = Cardinality({v \in Elems(lru.list) :
                       Low(vslab[v].nbits, vslab[v].sc.nbits)})

\* A slab is in the bin of its class, once, and a slab that was released in none.
BinsExact ==
  \A c \in Classes :
    /\ Elems(bin[c].list) = {v \in Live : vslab[v].sc.c = c}
    /\ Len(bin[c].list) = Cardinality(Elems(bin[c].list))
    /\ bin[c].now \in Elems(bin[c].list) \cup {Null}

\* Between calls the lists have the slabs they should, through slabs that are
\* made, morphed and released (slab.c:29-32, 117-124, 248-253, 513-516, 533-538,
\* 591-604, slab.h:133-147).
ListsExact == Quiet => LRUExact /\ BinsExact

\* What a thread waits for, and for whom.
WaitsFor(t) ==
  LET l == loc[t]
  IN CASE pc[t] = "malloc" /\ cache[t][l.c].bm = {} -> {lock.bin[l.c]}
       [] pc[t] \in {"visit", "candidate", "old", "back"} -> {lock.slab[l.v]}
       [] pc[t] \in {"touch", "search", "create", "oldlru", "backlru"} -> {lock.lru}
       [] pc[t] = "reclass" -> {lock.bin[vslab[l.v].sc.c]}
       [] pc[t] = "move" -> {lock.bin[vslab[l.v].sc_b.c]}
       [] pc[t] \in {"oldbin", "backbin"} -> {lock.bin[l.sc.c]}
       [] OTHER -> {}

\* A lock is waited for in a circle in one way only: a thread that morphs, with
\* LRU_lock, waits for the lock of a slab or of a bin, and a thread that fills
\* another class waits with that lock (slab.c:81, 92, 197, 244, 409).  Fills of
\* one class, and frees, never close a circle.
CirclesCrossClasses ==
  Running => \A S \in (SUBSET Threads) \ {{}} :
    (\A t \in S : WaitsFor(t) \cap S # {}) =>
      \E t, u \in S : /\ pc[t] \in {"candidate", "reclass", "move"} /\ lock.lru = t
                      /\ pc[u] \in {"visit", "touch", "search", "create"}
                      /\ loc[u].c # loc[t].c

\* One operation at a time, every assertion holds and every list node is as the
\* code expects.  The process may stop at one place: a block that was cached
\* over a morph points at the array dmeta that slab.c:295 has given back, and
\* nvalloc.c:127 writes there when it is handed out.
AssertionsHold == status \in {"run", "nvalloc.c:127 dmeta was given back"}
=============================================================================
