------------------------------ MODULE Extents ------------------------------
(***************************************************************************)
(* The memory of one arena: files mapped chunk by chunk, the extents cut   *)
(* out of them, the pools of dirty and muzzy extents, the tree from pages  *)
(* to extents, large objects with their per-thread caches, slabs as their  *)
(* users see them, and the purge of decayed extents (src/src/extent.c,     *)
(* arena.c, the large paths of tcache.h and nvalloc.c).  Addresses and     *)
(* sizes are pages.  A section under a lock, or a step between two, is an  *)
(* action; the mutexes of the pool of extents are taken and given back     *)
(* within a step.                                                          *)
(***************************************************************************)
EXTENDS Integers, Sequences, FiniteSets

CONSTANTS
  Thread, NoThread,
  psz,              \* psizeclasses: pages of each class, from 0 on
  CHUNK,            \* CHUNK_SIZE / PAGE_SIZE
  PAGE_SIZE,        \* in bytes
  SLAB,             \* SLAB_SIZE / PAGE_SIZE
  FIT,              \* how many times too large a dirty extent may be: 32
  NUM_MAX_CACHE,
  Requests,         \* the page classes the program asks for
  SlabUsers,        \* the threads that take and give back slabs
  Limits,           \* the numbers of pages decay may leave in a pool
  Serial,           \* one operation at a time
  NFILES,           \* bound: files that fit the medium
  MaxOps            \* bound: operations

Class == DOMAIN psz
Top == Cardinality(Class) - 1
NPages == NFILES * CHUNK

ASSUME ThreadAssumption ==
  /\ NoThread \notin Thread /\ SlabUsers \subseteq Thread /\ Serial \in BOOLEAN

(* The classes ascend and the largest covers the memory: a larger extent would
   have no class. *)
ASSUME SizesAssumption ==
  /\ Top \in Nat \ {0} /\ Class = 0 .. Top
  /\ psz \in [Class -> Nat \ {0}]
  /\ psz[0] = 1
  /\ \A c, d \in Class : c < d => psz[c] < psz[d]
  /\ CHUNK \in Nat \ {0} /\ PAGE_SIZE \in Nat \ {0} /\ NFILES \in Nat \ {0}
  /\ \E c \in Class : psz[c] = SLAB
  /\ SLAB <= CHUNK
  /\ NPages <= psz[Top]
  /\ Requests \subseteq Class /\ \A c \in Requests : psz[c] <= CHUNK

ASSUME PolicyAssumption ==
  /\ FIT \in Nat \ {0} /\ NUM_MAX_CACHE \in Nat \ {0}
  /\ Limits \subseteq Nat /\ MaxOps \in Nat

VARIABLES
  ext,      \* the descriptors, by the address of their extent
  tree,     \* extents_rtree
  pool,     \* extents_dirty and extents_muzzy
  fresh,    \* memory_new, npage_new
  lost,     \* pages the arena has forgotten
  mapped,   \* the chunks that are mapped
  files,    \* file_tree, by chunk
  lock,     \* the holder of each lock
  purging,  \* decay->purging
  log,      \* the items in force in the bookkeeping log
  cache,    \* large_caches of each thread
  held,     \* the large objects whose address the program has
  slabs,    \* the slabs in use
  pc, loc,  \* where each thread is, and its locals
  ops,      \* operations begun
  status    \* "run", or where the process stopped

memory == <<ext, tree>>
arena == <<fresh, lost, mapped, files>>
program == <<cache, held, slabs>>
vars == <<ext, tree, pool, fresh, lost, mapped, files, lock, purging, log,
          cache, held, slabs, pc, loc, ops, status>>

----------------------------------------------------------------------------
(* Sizes. *)

MAX_PSZ_IDX == Top + 1
SLAB_SCIND == Top + 3

\* The class of n pages: the least that is large enough.  The table has
\* class 0 past the largest size.
get_psizeclass(n) ==
  IF n > psz[Top] THEN 0
  ELSE CHOOSE c \in Class : psz[c] >= n /\ \A d \in Class : psz[d] >= n => c <= d

\* mutant: the class is always the one below.
get_psizeclass_floor_below(n) == get_psizeclass(n) - 1

get_psizeclass_floor(n) ==
  IF get_psizeclass(n) = get_psizeclass(n + 1) THEN get_psizeclass(n) - 1
  ELSE get_psizeclass(n)

----------------------------------------------------------------------------
(* State. *)

Page == 0 .. (NPages - 1)
NoPage == -1
Chunk == 0 .. (NFILES - 1)
Base(k) == k * CHUNK

NoItem == [type |-> "none", addr |-> NoPage, k |-> 0]
NoExtent == [size |-> 0, szind |-> MAX_PSZ_IDX, slab |-> FALSE, state |-> "none",
             log |-> NoItem]
Nil == [e |-> NoPage, szind |-> MAX_PSZ_IDX, slab |-> FALSE]

\* The heaps are the classes of the extents listed; bitmap has the classes
\* whose heap is not empty.
EmptyPool == [lru |-> <<>>, bitmap |-> {}, npages |-> 0]
NoLocals == [op |-> "none", c |-> 0, n |-> 0, slab |-> FALSE, obj |-> NoPage,
             x |-> NoPage, y |-> NoPage, p |-> "dirty", side |-> "next",
             again |-> FALSE, evicting |-> FALSE, d |-> "dirty", limit |-> 0,
             left |-> 0, stash |-> <<>>]

Elems(s) == {s[i] : i \in 1 .. Len(s)}
Least(S) == CHOOSE i \in S : \A j \in S : i <= j
Last(a) == a + ext[a].size - 1

\* A place in the log that no item has, for an item of that kind and address.
Item(type, a) ==
  [type |-> type, addr |-> a,
   k |-> Least({k \in 0 .. Cardinality(log) :
                  [type |-> type, addr |-> a, k |-> k] \notin log})]

\* arena_new: one chunk is mapped, anywhere.
Init ==
  \E k \in Chunk :
    /\ ext = [a \in Page |-> NoExtent]
    /\ tree = [a \in Page |-> Nil]
    /\ pool = [p \in {"dirty", "muzzy"} |-> EmptyPool]
    /\ fresh = [mem |-> Base(k), n |-> CHUNK]
    /\ lost = {}
    /\ mapped = {k}
    /\ files = {k}
    /\ lock = [l \in {"dirty", "muzzy", "arena"} |-> NoThread]
    /\ purging = [p \in {"dirty", "muzzy"} |-> FALSE]
    /\ log = {[type |-> "file", addr |-> Base(k), k |-> 0]}
    /\ cache = [t \in Thread |-> [c \in Requests |-> <<>>]]
    /\ held = {}
    /\ slabs = {}
    /\ pc = [t \in Thread |-> "idle"]
    /\ loc = [t \in Thread |-> NoLocals]
    /\ ops = 0
    /\ status = "run"

At(t, from) == status = "run" /\ pc[t] = from
Goto(t, to) == pc' = [pc EXCEPT ![t] = to]
Done(t) == Goto(t, "idle") /\ loc' = [loc EXCEPT ![t] = NoLocals]
Ensure(cond, why) == status' = IF cond THEN status ELSE why
Unlocked(l) == lock[l] = NoThread
Hold(l, t) == lock' = [lock EXCEPT ![l] = t]

----------------------------------------------------------------------------
(* The pools and the tree. *)

Heap(P, c) == {a \in Elems(P.lru) : get_psizeclass_floor(ext[a].size) = c}

\* A list from which a is unlinked.
Without(s, a) ==
  LET i == CHOOSE j \in DOMAIN s : s[j] = a
  IN IF a \in Elems(s) THEN SubSeq(s, 1, i - 1) \o SubSeq(s, i + 1, Len(s)) ELSE s

\* mutant: the bit is left when the heap is empty.
Removed_keepsBit(P, a) ==
  [lru |-> Without(P.lru, a), bitmap |-> P.bitmap,
   npages |-> P.npages - ext[a].size]

\* extents_remove_locked; the bit is flipped.
Removed(P, a) ==
  LET c == get_psizeclass_floor(ext[a].size)
  IN [lru |-> Without(P.lru, a),
      bitmap |-> IF Heap(P, c) # {a} THEN P.bitmap
                 ELSE (P.bitmap \ {c}) \cup ({c} \ P.bitmap),
      npages |-> P.npages - ext[a].size]

\* extents_insert_locked
Inserted(P, a) ==
  LET c == get_psizeclass_floor(ext[a].size)
  IN [lru |-> Append(P.lru, a), bitmap |-> P.bitmap \cup {c},
      npages |-> P.npages + ext[a].size]

(* extents_best_fit_locked: the lowest extent of the least class that is not
   empty; of the dirty pool none that is much too large. *)
Fit(p, n) ==
  LET fits == {c \in pool[p].bitmap : c >= get_psizeclass(n)}
  IN IF fits = {} \/ (p = "dirty" /\ psz[Least(fits)] > n * FIT) THEN NoPage
     ELSE Least(Heap(pool[p], Least(fits)))

Write(tr, S, entry) == [q \in Page |-> IF q \in S THEN entry ELSE tr[q]]
Ends(a, n) == {a, a + n - 1}
Inner(a, n) == (a + 1) .. (a + n - 2)

----------------------------------------------------------------------------
(* Taking an extent: extent_recycle, extent_alloc_wrapper. *)

\* An operation of the program begins.
Call(t, op) ==
  /\ At(t, "idle")
  /\ ops < MaxOps
  /\ Serial => \A u \in Thread : pc[u] = "idle"
  /\ ops' = ops + 1

\* tcache_alloc_large
MallocCall(t, c) ==
  /\ Call(t, "malloc")
  /\ loc' = [loc EXCEPT ![t] = [NoLocals EXCEPT !.op = "malloc", !.c = c, !.n = psz[c]]]
  /\ Goto(t, IF cache[t][c] = <<>> THEN "recycle" ELSE "pop")
  /\ UNCHANGED <<memory, pool, arena, lock, purging, log, program, status>>

\* arena_slab_alloc
SlabCall(t) ==
  /\ Call(t, "slab")
  /\ loc' = [loc EXCEPT ![t] = [NoLocals EXCEPT !.op = "slab", !.c = SLAB_SCIND,
                                                !.n = SLAB, !.slab = TRUE]]
  /\ Goto(t, "recycle")
  /\ UNCHANGED <<memory, pool, arena, lock, purging, log, program, status>>

\* extent_recycle_extract: first of the dirty pool, then of the muzzy one.
Recycle(t) ==
  LET p == loc[t].p
      a == Fit(p, loc[t].n)
  IN /\ At(t, "recycle")
     /\ Unlocked(p)
     /\ IF a # NoPage
          THEN /\ pool' = [pool EXCEPT ![p] = Removed(@, a)]
               /\ ext' = [ext EXCEPT ![a].state = "active"]
               /\ loc' = [loc EXCEPT ![t].x = a]
               /\ Goto(t, "split")
          ELSE /\ loc' = [loc EXCEPT ![t].p = "muzzy"]
               /\ Goto(t, IF p = "dirty" THEN "recycle" ELSE "new")
               /\ UNCHANGED <<pool, ext>>
     /\ UNCHANGED <<tree, arena, lock, purging, log, program, ops, status>>

\* Where a thread goes with its extent.
Taken(t) == Goto(t, IF loc[t].slab THEN "interior" ELSE "ticks")

\* mutant: the entries of an extent that fits exactly are left as they are.
ExactEnds_none(t) == {}

\* The entries that are updated when an extent fits exactly.
ExactEnds(t) == IF loc[t].slab THEN Ends(loc[t].x, loc[t].n) ELSE {loc[t].x}

(* extent_split_interior, extent_split_impl: what is too much becomes an
   extent of its own. *)
Split(t) ==
  LET a == loc[t].x
      n == loc[t].n
      b == a + n
      entry == [e |-> a, szind |-> loc[t].c, slab |-> loc[t].slab]
  IN /\ At(t, "split")
     /\ \/ /\ ext[a].size > n
           /\ ext' = [ext EXCEPT ![a].size = n, ![a].szind = loc[t].c,
                        ![b] = [NoExtent EXCEPT !.size = ext[a].size - n,
                                                !.state = "active", !.log = ext[b].log]]
           /\ tree' = Write(Write(tree, Ends(a, n), entry), {b, Last(a)},
                            [Nil EXCEPT !.e = b])
           /\ loc' = [loc EXCEPT ![t].y = b]
           /\ Goto(t, "trail")
        \/ /\ ext[a].size = n
           /\ ext' = [ext EXCEPT ![a].szind = loc[t].c]
           /\ tree' = Write(tree, ExactEnds(t), entry)
           /\ loc' = [loc EXCEPT ![t].obj = a]
           /\ Taken(t)
     /\ UNCHANGED <<pool, arena, lock, purging, log, program, ops, status>>

\* extent_deactivate of the trail.
Trail(t) ==
  LET p == loc[t].p
      b == loc[t].y
  IN /\ At(t, "trail")
     /\ Unlocked(p)
     /\ ext' = [ext EXCEPT ![b].state = p]
     /\ pool' = [pool EXCEPT ![p] = Inserted(@, b)]
     /\ loc' = [loc EXCEPT ![t].obj = loc[t].x, ![t].y = NoPage]
     /\ Taken(t)
     /\ UNCHANGED <<tree, arena, lock, purging, log, program, ops, status>>

SlabEntry(a) == [e |-> a, szind |-> SLAB_SCIND, slab |-> TRUE]

SlabPages(a) == a .. (a + SLAB - 1)

\* extent_interior_register: the entries of a slab lead to its vslab.
Interior(t) ==
  LET a == loc[t].x
  IN /\ At(t, "interior")
     /\ ext' = [ext EXCEPT ![a].slab = TRUE]
     /\ tree' = Write(tree, SlabPages(a), SlabEntry(a))
     /\ Ensure(\A q \in Inner(a, SLAB) : tree[q] = Nil, "rtree.h:420")
     /\ Goto(t, "log")
     /\ UNCHANGED <<pool, arena, lock, purging, log, program, loc, ops>>

----------------------------------------------------------------------------
(* New memory of the arena. *)

\* mutant: any rest becomes an extent of its class.
Reusable_any(n) == n # 0

\* arena_evict_new_memory_locked keeps the rest if its size is that of a class.
Reusable(n) == n # 0 /\ n = psz[get_psizeclass(n)]

NoFresh == [mem |-> NoPage, n |-> 0]

(* arena_activate_new_memory, when the chunk suffices. *)
Carve(t) ==
  LET n == loc[t].n
  IN /\ At(t, "new")
     /\ Unlocked("arena")
     /\ n <= fresh.n
     /\ fresh' = [mem |-> fresh.mem + n, n |-> fresh.n - n]
     /\ loc' = [loc EXCEPT ![t].x = fresh.mem]
     /\ Goto(t, "register")
     /\ UNCHANGED <<memory, pool, lost, mapped, files, lock, purging, log, program,
                    ops, status>>

(* It does not suffice: the rest is registered as an extent of the class, or
   forgotten. *)
Retire(t) ==
  LET a == fresh.mem
      n == fresh.n
      c == get_psizeclass(n)
  IN /\ At(t, "new")
     /\ Unlocked("arena")
     /\ loc[t].n > n
     /\ Hold("arena", t)
     /\ fresh' = NoFresh
     /\ IF Reusable(n)
          THEN /\ ext' = [ext EXCEPT ![a] = [NoExtent EXCEPT !.size = psz[c], !.szind = c,
                                               !.state = "active", !.log = ext[a].log]]
               /\ tree' = Write(tree, Ends(a, psz[c]), [Nil EXCEPT !.e = a, !.szind = c])
               /\ loc' = [loc EXCEPT ![t].y = a]
               /\ Goto(t, "retired")
               /\ UNCHANGED lost
          ELSE /\ lost' = lost \cup a .. (a + n - 1)
               /\ Goto(t, "map")
               /\ UNCHANGED <<memory, loc>>
     /\ UNCHANGED <<pool, mapped, files, purging, log, program, ops, status>>

\* The rest goes to the dirty pool, the arena's lock held.
Retired(t) ==
  /\ At(t, "retired")
  /\ Unlocked("dirty")
  /\ ext' = [ext EXCEPT ![loc[t].y].state = "dirty"]
  /\ pool' = [pool EXCEPT !.dirty = Inserted(@, loc[t].y)]
  /\ loc' = [loc EXCEPT ![t].y = NoPage]
  /\ Goto(t, "map")
  /\ UNCHANGED <<tree, arena, lock, purging, log, program, ops, status>>

\* arena_file_map_locked: the file is logged before it is in file_tree.
MapFile(t) ==
  /\ At(t, "map")
  /\ \E k \in Chunk \ mapped :
       /\ mapped' = mapped \cup {k}
       /\ log' = log \cup {Item("file", Base(k))}
       /\ loc' = [loc EXCEPT ![t].y = k]
  /\ Goto(t, "insert")
  /\ UNCHANGED <<memory, pool, fresh, lost, files, lock, purging, program, ops, status>>

\* No file can be made: the process ends.
MapFails(t) ==
  /\ At(t, "map")
  /\ Chunk = mapped
  /\ status' = "exit"
  /\ UNCHANGED <<memory, pool, arena, lock, purging, log, program, pc, loc, ops>>

InsertFile(t) ==
  LET k == loc[t].y
      n == loc[t].n
  IN /\ At(t, "insert")
     /\ files' = files \cup {k}
     /\ fresh' = [mem |-> Base(k) + n, n |-> CHUNK - n]
     /\ loc' = [loc EXCEPT ![t].x = Base(k), ![t].y = NoPage]
     /\ Hold("arena", NoThread)
     /\ Goto(t, "register")
     /\ UNCHANGED <<memory, pool, lost, mapped, purging, log, program, ops, status>>

\* extent_register of memory that was never used.
Register(t) ==
  LET a == loc[t].x
      n == loc[t].n
  IN /\ At(t, "register")
     /\ ext' = [ext EXCEPT ![a] = [size |-> n, szind |-> loc[t].c, slab |-> loc[t].slab,
                                   state |-> "active", log |-> ext[a].log]]
     /\ tree' = Write(tree, IF loc[t].slab THEN SlabPages(a) ELSE Ends(a, n),
                      [e |-> a, szind |-> loc[t].c, slab |-> loc[t].slab])
     /\ Ensure(loc[t].slab => \A q \in Inner(a, n) : tree[q] = Nil, "rtree.h:420")
     /\ loc' = [loc EXCEPT ![t].obj = a]
     /\ Goto(t, IF loc[t].slab THEN "log" ELSE "ticks")
     /\ UNCHANGED <<pool, arena, lock, purging, log, program, ops>>


----------------------------------------------------------------------------
(* Decay: what a tick may do once an operation has its extent. *)

\* The ticks of an operation are over.
After(t) == Goto(t, IF loc[t].op = "malloc" THEN "filled" ELSE "logfree")

\* arena_decay_ticks, arena_maybe_decay: it is not time.
NoDecay(t) ==
  /\ status = "run" /\ pc[t] \in {"ticks", "ticks2"}
  /\ After(t)
  /\ UNCHANGED <<memory, pool, arena, lock, purging, log, program, loc, ops, status>>

(* arena_decay_to_limit, under decay->mtx, for the limit L of the backlog; of
   the muzzy extents after the dirty ones. *)
Decay(t, d, L) ==
  /\ At(t, "ticks") \/ (At(t, "ticks2") /\ d = "muzzy")
  /\ pool[d].npages > L
  /\ ~purging[d]
  /\ purging' = [purging EXCEPT ![d] = TRUE]
  /\ loc' = [loc EXCEPT ![t].d = d, ![t].p = d, ![t].limit = L,
                        ![t].left = pool[d].npages - L, ![t].stash = <<>>]
  /\ Goto(t, "evict")
  /\ UNCHANGED <<memory, pool, arena, lock, log, program, ops, status>>

\* n_muzzy_extent_can_evict: a whole chunk is in the extent.
HoldsChunk(a) == \E k \in Chunk : a <= Base(k) /\ Base(k) + CHUNK <= a + ext[a].size

AtLimit(P, limit) == P.lru = <<>> \/ P.npages <= limit

\* The pages of the muzzy pool are compared with the bytes of a chunk.
CannotEvict(P) ==
  P.npages < CHUNK * PAGE_SIZE \/ \A a \in Elems(P.lru) : ~HoldsChunk(a)

\* extents_evict has the lock, or waits for it.
MayEvict(t) == At(t, "evict") /\ lock[loc[t].d] \in {NoThread, t}

\* extents_evict finds none.
EvictNone(t) ==
  LET P == pool[loc[t].d]
  IN /\ MayEvict(t)
     /\ AtLimit(P, loc[t].limit) \/ (loc[t].d = "muzzy" /\ CannotEvict(P))
     /\ Hold(loc[t].d, NoThread)
     /\ Goto(t, "stashed")
     /\ UNCHANGED <<memory, pool, arena, purging, log, program, loc, ops, status>>

\* extents_evict of the dirty extent that has been there longest.
EvictDirty(t) ==
  LET P == pool.dirty
      a == Head(P.lru)
  IN /\ MayEvict(t)
     /\ loc[t].d = "dirty"
     /\ ~AtLimit(P, loc[t].limit)
     /\ Hold("dirty", t)
     /\ pool' = [pool EXCEPT !.dirty = Removed(P, a)]
     /\ ext' = [ext EXCEPT ![a].state = "active"]
     /\ loc' = [loc EXCEPT ![t].x = a, ![t].side = "next", ![t].evicting = TRUE]
     /\ Goto(t, "look")
     /\ UNCHANGED <<tree, arena, purging, log, program, ops, status>>

\* extents_evict of muzzy chunks: they are counted from the first and cut from the
\* second on, so that what is cut is not the size counted (with pages behind the
\* last chunk the same is noticed within the second cut, extent.c:538).
EvictStops(t) ==
  LET P == pool.muzzy
  IN /\ MayEvict(t)
     /\ loc[t].d = "muzzy"
     /\ ~AtLimit(P, loc[t].limit) /\ ~CannotEvict(P)
     /\ status' = "extent.c:444"
     /\ UNCHANGED <<memory, pool, arena, lock, purging, log, program, pc, loc, ops>>

(* arena_decay_stashed, one extent; arena_decay_to_limit ends. *)
Stashed(t) ==
  LET l == loc[t]
  IN /\ At(t, "stashed")
     /\ \/ /\ l.stash = <<>>
           /\ purging' = [purging EXCEPT ![l.d] = FALSE]
           /\ IF l.d = "dirty" THEN Goto(t, "ticks2") ELSE After(t)
           /\ UNCHANGED loc
        \/ /\ l.stash # <<>>
           /\ loc' = [loc EXCEPT ![t].x = Head(l.stash), ![t].stash = Tail(l.stash),
                                 ![t].p = "muzzy"]
           /\ Goto(t, "punch")
           /\ UNCHANGED purging
     /\ UNCHANGED <<memory, pool, arena, lock, log, program, ops, status>>

----------------------------------------------------------------------------
(* Giving an extent back: extents_dalloc, extent_record. *)

FileOf(a) == a \div CHUNK

\* extents_dalloc of a muzzy extent punches its file, found without a lock.
Punch(t) ==
  /\ At(t, "punch")
  /\ FileOf(loc[t].x) \in files
  /\ Goto(t, "record")
  /\ UNCHANGED <<memory, pool, arena, lock, purging, log, program, loc, ops, status>>

\* Its search of file_tree runs beside an insertion, or finds nothing.
PunchStops(t) ==
  /\ At(t, "punch")
  /\ FileOf(loc[t].x) \notin files \/ \E u \in Thread : pc[u] = "insert"
  /\ status' = "extent.c:1254"
  /\ UNCHANGED <<memory, pool, arena, lock, purging, log, program, pc, loc, ops>>

\* mutant: extent_interior_deregister clears nothing.
Cleared_none(a) == {}

Cleared(a) == Inner(a, ext[a].size)

(* extent_record: a slab is taken out of the tree but for its ends, where the
   bit of a slab stays. *)
Record(t) ==
  LET p == loc[t].p
      a == loc[t].x
  IN /\ At(t, "record")
     /\ Unlocked(p)
     /\ Hold(p, t)
     /\ ext' = [ext EXCEPT ![a].szind = MAX_PSZ_IDX, ![a].slab = FALSE]
     /\ tree' = IF ~ext[a].slab THEN tree
                ELSE Write(Write(tree, Cleared(a), Nil), Ends(a, ext[a].size),
                           [e |-> a, szind |-> MAX_PSZ_IDX, slab |-> TRUE])
     /\ Ensure(/\ tree[a].e = a
               /\ ext[a].slab => \A q \in Inner(a, ext[a].size) : tree[q].e # NoPage,
               "extent.c:1211")
     /\ loc' = [loc EXCEPT ![t].side = "next", ![t].again = FALSE, ![t].evicting = FALSE]
     /\ Goto(t, "look")
     /\ UNCHANGED <<pool, arena, purging, log, program, ops>>

\* mutant: it is not forgotten that it has to look again.
NextRound_again(l) == [l EXCEPT !.side = "next"]

NextRound(l) == [l EXCEPT !.side = "next", !.again = FALSE]

\* A thread has looked on one side; once on both it settles, or if it has to
\* it looks again.
Onward(t) ==
  \/ /\ loc[t].side = "next"
     /\ loc' = [loc EXCEPT ![t].side = "prev"]
     /\ Goto(t, "look")
  \/ /\ loc[t].side = "prev" /\ loc[t].again
     /\ loc' = [loc EXCEPT ![t] = NextRound(@)]
     /\ Goto(t, "look")
  \/ /\ loc[t].side = "prev" /\ ~loc[t].again
     /\ Goto(t, "settle")
     /\ UNCHANGED loc

\* The page a thread looks at, and what the tree has there.
Beside(t) == IF loc[t].side = "next" THEN Last(loc[t].x) + 1 ELSE loc[t].x - 1
Entry(q) == IF q \in Page THEN tree[q] ELSE Nil

\* mutant: no extent merges with one whose entry has the bit of a slab.
InactiveOnly_always(t) == TRUE

\* A dirty extent that is given back merges with the inactive only.
InactiveOnly(t) == loc[t].p = "dirty" /\ ~loc[t].evicting

\* extent_rtree_leaf_elm_try_lock: the entry is read.
Look(t) ==
  LET q == Entry(Beside(t))
  IN /\ At(t, "look")
     /\ \/ /\ q.e = NoPage \/ (InactiveOnly(t) /\ q.slab)
           /\ Onward(t)
        \/ /\ q.e # NoPage
           /\ ~(InactiveOnly(t) /\ q.slab)
           /\ loc' = [loc EXCEPT ![t].y = q.e]
           /\ Goto(t, "check")
     /\ UNCHANGED <<memory, pool, arena, lock, purging, log, program, ops, status>>

\* mutant: an extent in use will do as well.
Mergeable_any(p, y) == ext[y].state \in {p, "active"}

\* extent_can_coalesce
Mergeable(p, y) == ext[y].state = p

(* The neighbour is locked, and read again: it is gone, cannot be merged, or
   is taken out of the pool, whose lock is given back. *)
Check(t) ==
  LET p == loc[t].p
      y == loc[t].y
      same == Entry(Beside(t)).e = y
  IN /\ At(t, "check")
     /\ \/ ~same /\ Goto(t, "look") /\ UNCHANGED <<ext, pool, lock, loc>>
        \/ same /\ ~Mergeable(p, y) /\ Onward(t) /\ UNCHANGED <<ext, pool, lock>>
        \/ /\ same /\ Mergeable(p, y)
           /\ pool' = [pool EXCEPT ![p] = Removed(@, y)]
           /\ ext' = [ext EXCEPT ![y].state = "active"]
           /\ Hold(p, NoThread)
           /\ Goto(t, "merge")
           /\ UNCHANGED loc
     /\ UNCHANGED <<tree, arena, purging, log, program, ops, status>>

\* mutant: the first page of the upper extent still leads to it.
Joints_lower(a, b) == {Last(a)}

Joints(a, b) == {Last(a), b}

\* extent_merge_impl
Merge(t) ==
  LET x == loc[t].x
      y == loc[t].y
      a == Least({x, y})
      b == IF a = x THEN y ELSE x
  IN /\ At(t, "merge")
     /\ ext' = [ext EXCEPT ![a].size = @ + ext[b].size, ![a].szind = MAX_PSZ_IDX,
                           ![b].state = "none"]
     /\ tree' = Write(Write(tree, Joints(a, b), Nil), {a, Last(b)},
                      [Nil EXCEPT !.e = a])
     /\ loc' = [loc EXCEPT ![t].x = a, ![t].y = NoPage]
     /\ Goto(t, "relock")
     /\ UNCHANGED <<pool, arena, lock, purging, log, program, ops, status>>

(* extent_coalesce ends.  A dirty extent given back looks on both sides again;
   one that was evicted goes back to the pool, whose end is then evicted next;
   a muzzy one goes on. *)
Relock(t) ==
  LET p == loc[t].p
      x == loc[t].x
      onPrev == loc[t].side = "prev"
  IN /\ At(t, "relock")
     /\ Unlocked(p)
     /\ Hold(p, t)
     /\ \/ /\ p = "dirty" /\ ~loc[t].evicting
           /\ loc' = [loc EXCEPT ![t].side = "next"]
           /\ Goto(t, "look")
           /\ UNCHANGED <<ext, pool>>
        \/ /\ loc[t].evicting
           /\ ext' = [ext EXCEPT ![x].state = "dirty"]
           /\ pool' = [pool EXCEPT !.dirty = Inserted(@, x)]
           /\ loc' = [loc EXCEPT ![t].x = NoPage, ![t].evicting = FALSE]
           /\ Goto(t, "evict")
        \/ /\ p = "muzzy"
           /\ loc' = [loc EXCEPT ![t].side = IF onPrev THEN "next" ELSE "prev",
                                 ![t].again = ~onPrev]
           /\ Goto(t, "look")
           /\ UNCHANGED <<ext, pool>>
     /\ UNCHANGED <<tree, arena, purging, log, program, ops, status>>

\* An extent given back goes to its pool, one that was evicted to the list.
Settle(t) ==
  LET l == loc[t]
  IN /\ At(t, "settle")
     /\ Hold(l.p, NoThread)
     /\ \/ /\ ~l.evicting
           /\ ext' = [ext EXCEPT ![l.x].state = l.p]
           /\ pool' = [pool EXCEPT ![l.p] = Inserted(@, l.x)]
           /\ loc' = [loc EXCEPT ![t].x = NoPage, ![t].y = NoPage]
           /\ Goto(t, IF l.p = "dirty" THEN "ticks" ELSE "stashed")
        \/ /\ l.evicting
           /\ loc' = [loc EXCEPT ![t].stash = Append(@, l.x), ![t].x = NoPage,
                                 ![t].y = NoPage, ![t].evicting = FALSE,
                                 ![t].left = @ - ext[l.x].size]
           /\ Goto(t, IF l.left > ext[l.x].size THEN "evict" ELSE "stashed")
           /\ UNCHANGED <<ext, pool>>
     /\ UNCHANGED <<tree, arena, purging, log, program, ops, status>>

----------------------------------------------------------------------------
(* Large objects and slabs: tcache_alloc_large, nvalloc_free_from, slabs. *)

\* The cache of the class is filled up before the first is used.
Fill(t) ==
  LET c == loc[t].c
      full == Len(cache[t][c]) + 1 = NUM_MAX_CACHE
  IN /\ At(t, "filled")
     /\ cache' = [cache EXCEPT ![t][c] = Append(@, loc[t].obj)]
     /\ loc' = [loc EXCEPT ![t].obj = NoPage, ![t].x = NoPage, ![t].p = "dirty"]
     /\ Goto(t, IF full THEN "pop" ELSE "recycle")
     /\ UNCHANGED <<memory, pool, arena, lock, purging, log, held, slabs, ops, status>>

\* The address is stored for the program before it is logged.
Pop(t) ==
  LET c == loc[t].c
      n == Len(cache[t][c])
      a == cache[t][c][n]
  IN /\ At(t, "pop")
     /\ cache' = [cache EXCEPT ![t][c] = SubSeq(@, 1, n - 1)]
     /\ held' = held \cup {a}
     /\ loc' = [loc EXCEPT ![t].obj = a]
     /\ Goto(t, "log")
     /\ UNCHANGED <<memory, pool, arena, lock, purging, log, slabs, ops, status>>

\* The item of a large object or a slab, under log_lock.
Log(t) ==
  LET a == loc[t].obj
      item == Item(loc[t].op, a)
  IN /\ At(t, "log")
     /\ log' = log \cup {item}
     /\ ext' = [ext EXCEPT ![a].log = item]
     /\ slabs' = IF loc[t].slab THEN slabs \cup {a} ELSE slabs
     /\ Done(t)
     /\ UNCHANGED <<tree, pool, arena, lock, purging, cache, held, ops, status>>

\* nvalloc_free_from: the cache of the class takes it, or the arena does.
FreeCall(t, a) ==
  LET c == tree[a].szind
  IN /\ Call(t, "free")
     /\ a \in held
     /\ \A u \in Thread : pc[u] = "log" => loc[u].obj # a
     /\ held' = held \ {a}
     /\ Ensure(c \in Requests /\ ~tree[a].slab, "nvalloc.c:171")
     /\ loc' = [loc EXCEPT ![t] = [NoLocals EXCEPT !.op = "free", !.c = c, !.obj = a, !.x = a]]
     /\ Goto(t, IF c \in Requests /\ Len(cache[t][c]) < NUM_MAX_CACHE
                THEN "logcached" ELSE "record")
     /\ UNCHANGED <<memory, pool, arena, lock, purging, log, cache, slabs>>

\* The free of an object that goes to the cache is logged first.
LogCached(t) ==
  LET l == loc[t]
  IN /\ At(t, "logcached")
     /\ log' = log \ {ext[l.obj].log}
     /\ cache' = [cache EXCEPT ![t][l.c] = Append(@, l.obj)]
     /\ Done(t)
     /\ UNCHANGED <<memory, pool, arena, lock, purging, held, slabs, ops, status>>

\* arena_slab_dalloc
UnslabCall(t, a) ==
  /\ Call(t, "unslab")
  /\ a \in slabs
  /\ slabs' = slabs \ {a}
  /\ loc' = [loc EXCEPT ![t] = [NoLocals EXCEPT !.op = "unslab", !.obj = a, !.x = a]]
  /\ Goto(t, "record")
  /\ UNCHANGED <<memory, pool, arena, lock, purging, log, cache, held, status>>

\* mutant: nothing is logged.
Freed_nothing(a) == {}

Freed(a) == {ext[a].log}

\* arena_dalloc, arena_slab_dalloc: the free is logged last.
LogFree(t) ==
  /\ At(t, "logfree")
  /\ log' = log \ Freed(loc[t].obj)
  /\ Done(t)
  /\ UNCHANGED <<memory, pool, arena, lock, purging, program, ops, status>>

\* slow_GC finds the owner of an item, and its log is that item.
Found(i) ==
  IF i.type = "file" THEN FileOf(i.addr) \in files
  ELSE /\ tree[i.addr].e # NoPage
       /\ (i.type = "slab") = (tree[i.addr].szind = SLAB_SCIND)
       /\ ext[tree[i.addr].e].log = i

\* A free that is logged may start slow_GC, which checks every item in force.
GCStops(t) ==
  /\ At(t, "logfree") \/ At(t, "logcached")
  /\ \E i \in log \ {ext[loc[t].obj].log} :
       ~Found(i) /\ status' = IF i.type = "file" THEN "log.c:419" ELSE "log.c:406"
  /\ UNCHANGED <<memory, pool, arena, lock, purging, log, program, pc, loc, ops>>

Take(t) == \/ Recycle(t) \/ Split(t) \/ Trail(t) \/ Interior(t)
           \/ Carve(t) \/ Retire(t) \/ Retired(t)
           \/ MapFile(t) \/ MapFails(t) \/ InsertFile(t) \/ Register(t)

Return(t) == \/ Record(t) \/ Look(t) \/ Check(t) \/ Merge(t) \/ Relock(t) \/ Settle(t)
             \/ Punch(t) \/ PunchStops(t)

Purge(t) == \/ NoDecay(t)
            \/ \E d \in {"dirty", "muzzy"}, L \in Limits : Decay(t, d, L)
            \/ EvictNone(t) \/ EvictDirty(t) \/ EvictStops(t) \/ Stashed(t)

Finish(t) == \/ Fill(t) \/ Pop(t) \/ Log(t) \/ LogCached(t) \/ LogFree(t) \/ GCStops(t)

Step(t) == Take(t) \/ Return(t) \/ Purge(t) \/ Finish(t)

Begin(t) == \/ \E c \in Requests : MallocCall(t, c)
            \/ \E a \in held : FreeCall(t, a)
            \/ t \in SlabUsers /\ (SlabCall(t) \/ \E a \in slabs : UnslabCall(t, a))

\* The calls are made, or the process has stopped.
Terminated ==
  /\ status # "run" \/ (ops = MaxOps /\ \A t \in Thread : pc[t] = "idle")
  /\ UNCHANGED vars

Next == (\E t \in Thread : Step(t) \/ Begin(t)) \/ Terminated

Spec == Init /\ [][Next]_vars

\* Every thread that is in a call goes on; the mutexes are fair enough.
FairSpec == Spec /\ \A t \in Thread : WF_vars(Step(t))

----------------------------------------------------------------------------
(* Properties. *)

Running == status = "run"
Quiet == Running /\ \A t \in Thread : pc[t] = "idle"

PCs == {"idle", "recycle", "split", "trail", "interior", "new", "retired", "map",
        "insert", "register", "ticks", "ticks2", "evict", "stashed", "punch", "record",
        "look", "check", "merge", "relock", "settle", "filled", "pop", "log",
        "logcached", "logfree"}

Live == {a \in Page : ext[a].state # "none"}
Span(a, n) == a .. (a + n - 1)
NoDup(s) == \A i, j \in DOMAIN s : s[i] = s[j] => i = j

\* Every variable has its type.
TypeOK ==
  /\ ext \in [Page -> [size : 0 .. NPages, szind : 0 .. SLAB_SCIND,
                       slab : BOOLEAN, state : {"none", "active", "dirty", "muzzy"},
                       log : [type : {"none", "malloc", "slab"}, addr : Page \cup {NoPage},
                              k : Nat]]]
  /\ tree \in [Page -> [e : Page \cup {NoPage}, szind : 0 .. SLAB_SCIND, slab : BOOLEAN]]
  /\ pool \in [{"dirty", "muzzy"} -> [lru : Seq(Page), bitmap : SUBSET Class, npages : Nat]]
  /\ fresh \in [mem : {NoPage} \cup 0 .. NPages, n : 0 .. CHUNK]
  /\ lost \subseteq Page
  /\ mapped \subseteq Chunk /\ files \subseteq mapped
  /\ lock \in [{"dirty", "muzzy", "arena"} -> Thread \cup {NoThread}]
  /\ purging \in [{"dirty", "muzzy"} -> BOOLEAN]
  /\ \A i \in log : i.type \in {"file", "malloc", "slab"} /\ i.addr \in Page /\ i.k \in Nat
  /\ cache \in [Thread -> [Requests -> Seq(Page)]]
  /\ held \subseteq Page /\ slabs \subseteq Page
  /\ pc \in [Thread -> PCs]
  /\ ops \in 0 .. MaxOps

\* The pages of a chunk before they have a descriptor: not carved, just carved,
\* or forgotten.
Unregistered(p, l) ==
  CASE p = "register" -> Span(l.x, l.n)
    [] p = "insert" -> Span(Base(l.y), CHUNK)
    [] OTHER -> {}

\* What has the page q.
Tiles(q) ==
  {<<"extent", a>> : a \in {b \in Live : q \in Span(b, ext[b].size)}}
  \cup {<<"thread", t>> : t \in {u \in Thread : q \in Unregistered(pc[u], loc[u])}}
  \cup {<<"fresh", f>> : f \in {g \in {fresh} : q \in Span(g.mem, g.n)}}
  \cup {<<"lost", r>> : r \in lost \cap {q}}

\* A page that is mapped is in one extent, or in none yet and with one thread
\* or the arena; pages that are not mapped have no owner.  So no page is handed
\* out twice or leaks (extent.c:532-604, 1057-1099, arena.c:132-151, 303-323).
ExtentsTile ==
  Running => \A q \in Page :
    Cardinality(Tiles(q)) = IF FileOf(q) \in mapped THEN 1 ELSE 0

\* The extents a thread has at that point of its call, besides what it will
\* evict.
InHand(p, l) ==
  CASE p \in {"split", "interior", "punch", "record", "look", "check", "relock",
              "settle"} -> {l.x}
    [] p \in {"trail", "merge"} -> {l.x, l.y}
    [] p = "retired" -> {l.y}
    [] p = "logcached" -> {l.obj}
    [] p = "log" /\ l.slab -> {l.obj}
    [] l.op = "malloc" /\ p \in {"ticks", "ticks2", "filled"} -> {l.obj}
    [] OTHER -> {}

\* While it decays, a thread that allocates has its object as well.
Aside(p, l) ==
  IF l.op = "malloc" /\ p \in {"evict", "stashed", "punch", "record", "look", "check",
                               "merge", "relock", "settle"}
    THEN {l.obj} ELSE {}

Places(seq, a) == {i \in DOMAIN seq : seq[i] = a}

\* The claims of a thread, and those of the program, to the extent a.
Cached(t, a, caches) ==
  UNION {{<<"cache", t, c, i>> : i \in Places(caches[c], a)} : c \in Requests}
Claims(t, a, hand, aside, caches, stash) ==
  {<<"hand", t, b>> : b \in hand \cap {a}} \cup {<<"aside", t, b>> : b \in aside \cap {a}}
  \cup Cached(t, a, caches) \cup {<<"stash", t, i>> : i \in Places(stash, a)}
Mine(t, a) ==
  Claims(t, a, InHand(pc[t], loc[t]), Aside(pc[t], loc[t]), cache[t], loc[t].stash)
Program(a) == {<<"program", b>> : b \in held \cap {a}} \cup {<<"slab", b>> : b \in slabs \cap {a}}

Owners(a) == Program(a) \cup UNION {Mine(t, a) : t \in Thread}

\* An extent that is active has one owner: the program, a slab, a slot of a
\* cache, or a thread in the middle of a call; what is not active has none.  An
\* extent taken by two threads, or given to a pool while it is used, would break
\* this (extent.c:484-518, 1101-1235, tcache.h:102-116, nvalloc.c:190-209).
ActiveOwned ==
  Running => \A a \in Page :
    Cardinality(Owners(a)) = IF ext[a].state = "active" THEN 1 ELSE 0

\* The tree leads to an extent from its first and last page, and from every
\* page of a slab, and from no other page: neither splits and merges of
\* neighbours nor a slab that comes or goes leave an entry behind
\* (extent.c:532-604, 781-793, 964-978, 1057-1099).
TreeExact ==
  Running => \A a \in Page :
    {q \in Page : tree[q].e = a} =
      IF a \notin Live THEN {}
      ELSE IF ext[a].slab THEN Span(a, ext[a].size) ELSE Ends(a, ext[a].size)

\* A pool that is not locked lists the extents in its state, each once; its
\* bitmap has the classes it has extents of, and npages counts their pages
\* (extent.c:248-325, 680-726).
PoolsExact ==
  Running => \A p \in {"dirty", "muzzy"} :
    LET P == pool[p]
    IN /\ Elems(P.lru) = {a \in Live : ext[a].state = p}
       /\ NoDup(P.lru)
       /\ P.bitmap = {get_psizeclass_floor(ext[a].size) : a \in Elems(P.lru)}
       /\ P.npages = Cardinality(UNION {Span(a, ext[a].size) : a \in Elems(P.lru)})

\* What nvalloc_free_from reads of an object the program has is its class, and
\* the object has the pages of its class (nvalloc.c:165-186).
HeldFound ==
  Running => \A a \in held :
    /\ tree[a] = [e |-> a, szind |-> ext[a].szind, slab |-> FALSE]
    /\ ext[a].szind \in Requests
    /\ ext[a].size = psz[ext[a].szind]

\* Between calls, the log in force has an item for each file, each object the
\* program has and each slab, and no other; the item of an object is where its
\* extent says (tcache.h:121-128, arena.c:265-267, 443-455, 777-790).
RecordsExact ==
  Quiet => /\ {<<i.type, i.addr>> : i \in log} =
                {<<"malloc", a>> : a \in held} \cup {<<"slab", a>> : a \in slabs}
                \cup {<<"file", Base(k)>> : k \in mapped}
           /\ \A a \in held \cup slabs : ext[a].log \in log
           /\ Cardinality(log) = Cardinality(held \cup slabs) + Cardinality(mapped)

\* Between calls, no two muzzy extents lie side by side: what decay has given
\* back is merged as far as it can be (extent.c:1122-1183).
MuzzyMerged ==
  Quiet => \A a, b \in Elems(pool.muzzy.lru) : a + ext[a].size # b

\* slow_GC finds the owner of each large object's and slab's item in force, and
\* the log of the owner is that item (log.c:406).
GCFindsOwners == status # "log.c:406"

\* No assertion of the code fails, and slow_GC finds the owner of each item.
NeverStopped == status \in {"run", "exit"}

\* A call ends, whatever it has to merge, evict or wait for.
CallEnds == \A t \in Thread : pc[t] # "idle" ~> (pc[t] = "idle" \/ ~Running)
=============================================================================
