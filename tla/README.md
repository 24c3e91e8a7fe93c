# NVAlloc in TLA+

A specification, model-checking and proof project for NVAlloc, a persistent
memory allocator written in C. Line numbers below are those of the files under
`src/src` and `src/include/nvalloc/internal`.

Everything is modelled as the build makes it: `SLAB_MORPHING` and
`NVALLOC_BESTFIT` defined, `NBANKS` 6, chunks of 2 MB, pages of 4096 bytes,
slabs of 64 KB; the debug build keeps the assertions, and a model *stops*
(variable `status`) where one of them would abort.

## 1. Inventory

### 1.1 How the parts fit together

A program calls `nvalloc_malloc_to(size, &p)` and `nvalloc_free_from(&p)`
(`nvalloc.c`). A thread owns a thread cache (`tcache.c`) and is bound for life to
one arena (`choose_arena_hard`). A small request pops a block from the thread
cache, which is filled from a slab of the arena (`slab.c`); a large request takes
an extent from a per-thread list, filled 32 at a time from the arena's extents
(`extent.c`), which in turn are cut out of the arena's file-backed memory
(`arena.c`). Every small operation is first written to a ring of the thread's
cache lines (`minilog.c`) and then to the bitmap of the slab; every large one
is an item of the arena's bookkeeping log (`log.c`). Freed extents rest in a
dirty and then a muzzy pool until the decay clock purges them.

Shared memory is the only way the components interact: threads meet at the locks
`arenas_lock`, the arena's `lock`, `log_lock`, `LRU_lock` and bin locks, the slab
lock, the extents locks, the decay locks, and the address-hashed mutex pool.
There are no messages, and no callbacks but the comparison functions of trees.

### 1.2 Components

| component | state | operations | what is hard | what makes it correct |
|---|---|---|---|---|
| Bookkeeping log (`log.c`, `log.h`, `simple_list.h`) | chunks of items on the medium, linked from a header with two roots and a flag; one volatile descriptor per chunk with a bitmap; a tree of chunks in use; a free list | `log_create`, `add_log`, `slow_GC` (rewrite the log), `fast_GC` (unlink empty chunks), `log_destroy` | a power failure between any two persists; stale free items in reused chunks; two collectors over one chain | the medium records exactly the allocated objects at every step; no chunk is shared or lost |
| Interleaved mapping (`log.c` `count_to_index`, `minilog.c`, `slab.h` `bid_to_mid`) | none | number of an item, a ring entry or a block to its slot | boundaries of incomplete groups | one slot per number, inside the area, and consecutive numbers in different cache lines |
| Write-ahead ring (`minilog.c`) | 96 slots of the medium, a global counter | `add_minilog` | slots taken by all threads without a lock and never acknowledged | an entry survives until its operation is done |
| Arena choice (`nvalloc.c`, `tsd.h`) | the array of arenas, the count of threads of each, the thread's own pointer | `nvalloc_init`, `choose_arena_hard`, `arenas_extend`, `nvget_memory_usage` | threads that start together; failed creation of an arena | threads are spread evenly; an arena is shared only when there is no other |
| Public operations (`nvalloc.c`) | the caller's pointers | `nvalloc_malloc_to`, `nvalloc_free_from` | a crash between the pointer and the metadata | a block in use belongs to one caller |
| Thread cache (`tcache.c`, `tcache.h`) | per size class, `NBANKS` ways of cached blocks and a bitmap of non-empty ways; per page class, a list of extents | fill, pop, `tcache_alloc_large` | blocks cached over a morph of their slab | the bitmap tells which ways have blocks; ways alternate cache lines |
| Slabs and slab morphing (`slab.c`, `slab.h`) | bitmap of free blocks, per-bin lists, an LRU list of morphable slabs; old blocks of a morphed slab | `slab_init`, `slab_get_one`, `slab_morphing`, `slab_pop_one_cache`, `slab_free_small` | four locks in two orders; values read, unlocked and used; blocks of two classes in one slab | no block is handed out twice; a slab is released once; no deadlock |
| Extents (`extent.c`, `bitmap.h`) | trees and heaps of dirty and muzzy extents, the radix tree of addresses, bitmaps of dirty chunks | allocate, split, coalesce, evict, record | neighbours found through a tree without their lock | extents tile the memory: no overlap, no gap |
| Arena memory and files (`arena.c`) | current chunk of fresh memory, tree of mapped files | map, unmap, activate new memory | remainders, wrap-around of page counts | every page is fresh, in one extent, or unmapped |
| Decay (`arena.c`) | deadline, epoch, backlog, purging flag | `arena_decay`, tick | a purge runs without its mutex; clocks that go back | one purge at a time; the pool shrinks to its limit |
| Size classes (`sizeclass.c`) | lookup tables | `sizeclass_boot`, lookups | boundaries of the tables | the class covers the request; a slab's header, metadata and blocks fit in 64 KB |
| Lists, mutex pool, radix tree, containers, wrappers | | | | vendored or elementary |

### 1.3 Hazards

The list under `hazards` in `PROJECT.json` names, at its line, everything in this
code that a test would hardly reach. It is the source of the properties: a
property was written to catch a hazard. Where a hazard has none, or none under
concurrency, its note says why: nothing in the repository reads what is written
(there is no recovery), or the code makes no promise there and a run merely
contains the stop.

## 2. Plan

Modules in the order they are written. A component's module holds its state,
its actions and its properties; its theorems are in a module of their own, which
the component's module does not depend on.

| | modules | subject | builds on | state |
|---|---|---|---|---|
| A | `VLog`, `VLogInv`, `DurableSet`, `VLogProofs` | the bookkeeping log, the abstract set it implements | `Interleave` | written, checked, proved |
| B | `Interleave`, `InterleaveProofs` | the mapping of consecutive numbers to cache lines | | written, proved |
| C | `ArenaChoice`, `ArenaChoiceProofs` | the choice of an arena by threads that start | | written, checked, proved |
| D | `Slab`, `SlabInv`, `SlabProofs` | slabs, bins, LRU list, thread caches, morphing | | written, checked, proved in part (section 6) |
| E | `Extents`, `ExtentsInv`, `ExtentsSteps`, `ExtentsProofs` | one arena's memory, files, extents, large objects and slabs, with the log as a set of items in force | the promise of A | written, checked, proved but for the log and the merging of the muzzy pool |
| F | `Decay`, `DecayProofs` | tickers, clock, epochs, backlog, the purge with its mutex given up | | written, checked, proved |
| G | `SizeClass`, `SizeClassProofs` | the lookup tables and every layout of a slab, in bytes | `Interleave` | written, checked, proved but for the morph of a full table |

Abstract specifications. `DurableSet`: the set of objects on the medium is the
set of allocated ones and changes by one object at a time; the log implements it. `Extents` composes the large
objects, the slabs as their users see them, the files and the purge with that
promise: its `log` is the set of items in force, and not chunks and bitmaps. What
an arena promises of its memory is stated as the invariants `ExtentsTile` and
`ActiveOwned`.

Theorems still worth proving: of `Extents`, `RecordsExact` one call at a time; of `Slab`
with several classes, one operation at a time, `BitmapExact`, `NoOverlap`, `OldCounted` and
`HeldIsRecorded`; of the log, the refinement through a first `fast_GC`; `MorphFits` of `SizeClass`.

## 3. Modules and how they correspond to the code

### 3.1 `Interleave`

`Spread(p, n, i)` is the arithmetic that `count_to_index` (`log.c`),
`bid_to_mid` (`slab.h`) and `minilog_count_to_index` share: number `i`, in groups
of `n` lines of `p` slots, goes to the line `i mod n` of its group.

### 3.2 `VLog`: the bookkeeping log

One arena's log. All callers of `add_log` hold `log_lock` for the whole call,
collections included (`tcache.h:126`, `nvalloc.c:205`, `arena.c:186, 265, 452,
777, 788`), so the log is sequential. What may fall between two of its steps is
a power failure, and there is no recovery code to model: the repository writes
the log and never reads it back. The model therefore divides a collection at its
persists, one action each, and `ImplementsDurableSet` says at *every* state what a
reader of the medium would reconstruct.

| variable | code |
|---|---|
| `lchunk`, `head` | the log file: chunks (`next`, `id`, items), and the header with `alt` and two roots |
| `vlchunk` | the volatile descriptors: count, bitmap, id, predecessor |
| `free`, `used` | `global_free_list`, `log_file_used` |
| `vlog`, `new` | the handle in force, and `new_vlog` inside `slow_GC` |
| `gc` | where a collection is: phase, chunks still to visit, cursor, bits still to copy, `free_vlchunk_list` |
| `logOf`, `live` | `extent->log`, `file->log`; the objects a caller has recorded |
| `passes`, `status` | collections so far; the line where the process stopped |

Actions: `LogAlloc` and `LogFree` are `add_log` with its caller's store of the
item's address; `Decide` starts a collection as lines 222–243 do. `SlowBegin`,
`SlowCopy`, `SlowNextChunk`, `SlowCommit`, `SlowDestroy` are `slow_GC` and
`log_destroy`; `FastSkip`, `FastInvalidate`, `FastUnlink`, `FastScanned`,
`FastFree`, `FastDone` are `fast_GC`. `LogFreeStops`, `SlowStops` and
`LogFileFull` are the places where the process aborts. `gc_timer` of a log made
by `slow_GC` is never initialised: `SlowBegin` picks any value. The `uint64`
`num_of_items` and the 14-bit field of an item wrap.

`VLogInv` has the properties and the two inductive invariants, `DurableSet` the
abstract specification, and `ImplementsDurableSet` maps `recorded` to what the
medium says (`Recorded`, which is `RecordedIn` of the chunks: the items of the chunks on the chain of the log in
force that no free item of that chain cancels) and `allocated` to `live`. Four properties name in
`passes` how far they reach, because a `fast_GC` breaks what they say (section 7). `ChainIsTree`,
`NumOfItemsExact` and `NeverStopped` are for the time before the first `fast_GC`;
`ImplementsDurableSet` goes on through a `fast_GC` that is the first collection of all
(`ChainUnbroken`), and `BitsAreLive` for as long as only one of the two collectors runs.
`CollectionEnds` leaves out a `slow_GC` after the second `fast_GC` (`MayWalkACircle`). Two assumptions say what the C types give for
free: an owner is not a place in the log (`ObjsAssumption`), and the log has fewer
slots than a 64-bit counter has values (`CounterAssumption`).

### 3.3 `ArenaChoice`: the choice of an arena

`choose_arena_hard` and `arenas_extend`, step by step: `Call`, `Lock`, `Scan`
(one slot of the array), `Scanned`, `TakeLeast` or `Extend` or `ExtendFails`,
`Read` and `Count` (`nthreads++` is a load and a store), `Unlock`, and `Exit` of
a thread. `UsageCall` and `UsageNext` are `nvget_memory_usage`, which reads the
array without the lock. `arenas_cleanup`, which would lower the counts, is
registered nowhere, so counts never go down.

### 3.4 `Slab`: small blocks

Slabs, bins, LRU list, and thread caches of one arena. Threads of `Home` are bound to the arena and
allocate and free; threads of `Foreign` are bound to another and free blocks of this one, which
they give straight back to the slab.

Every section of the code under a lock, and every step between two sections, is
an action; `pc[t]` and `loc[t]` hold where a thread is and the values it has
read. Locks are the bin locks, one lock per slab, and `LRU_lock`.

| actions | code |
|---|---|
| `MallocCall`, `MallocTake`, `MallocStops` | `nvalloc_malloc_to`, small path |
| `FillLock`, `FillVisit`, `FillNext`, `FillPop`, `FillStops`, `Filled`, `Touch`, `Stamp` | `tcache_fill_cache`, `slab_pop_one_cache`, the move of the slab to the LRU tail |
| `Recount` | `morphing_len` updated: it is read in one step and written in another, without a lock |
| `GetOne`, `Search`, `SearchSkip`, `SearchFound`, `SearchFails`, `Create`, `Insert` | `slab_get_one`, the search of the LRU list, `slab_init` |
| `MorphLock`, `MorphRefused`, `MorphIsEmpty`, `MorphBegin` | `slab_morphing` up to the lock of the bin the slab is in |
| `MorphEmpty`, `MorphReinit`, `MorphUnlock` | a slab with nothing left changes class: it leaves its bin (199), `vslab_init` makes its lock anew, which is free from there (61), and the lock is given back whoever has it by then (95) |
| `MorphMove`, `MorphEnd` | a slab with blocks left goes to the other bin, and gets its table, metadata and array `dmeta` |
| `FreeCall`, `FreeIsOld`, `FreeNew`, `FreeOld`, `FreeOldStops`, `OldLRU` | `slab_free_small` up to the bitmap, for a block of the slab's class or of its old one |
| `LeaveBin`, `Release`, `FreeBack`, `BackCheck`, `BackLRU`, `Dalloc` | the way out of an empty slab |

Sizes are abstract units. A layout is a class, an offset of the blocks and a
number of blocks; the numbers a block takes in another class's layout
(`Overlapped`) are computed as the code does. A slab's array `dmeta` is what it holds, the counts `dnum` and
the numbers `alloced` that are in state `META_ALLOCED`; the arrays of one slab are numbered, `dfreed` has those that
were given back, and an entry of a cache has the number of the array it points into. A
block handed out through an array that was given back either stops the process
(`MallocStops`) or writes to other memory or to the array that has its place by now (`SetAlloced`). `freed` has the entries of
the table of old blocks that are marked as freed: they stay in the table, and the search
of `slab.c:468` finds them. The flag of a cache entry that was
never written may read as any value of `Garbage`. `bin->now_vslab` may point at
a slab that has been morphed or released, as in the code. Descriptors that are freed keep
their content. After a stop (`status # "run"`) nothing is claimed. `SlabInv` has
the inductive invariants of the proofs.

### 3.5 `Extents`: the memory of an arena

Pages are the unit, and an extent's descriptor is identified with the address of
its first page. A section under a lock, or a step between two, is an action. The
mutexes of the address-hashed pool are taken and given back within one section, two of
them in the order of their addresses, and nothing else is waited for while they
are held: they are part of a step. What does fall between steps is the lock of
an extent pool, which `extent_coalesce` gives up for the merge.

| variable | code |
|---|---|
| `ext`, `tree` | `extent_t` descriptors; `extents_rtree` from pages to extent, class and slab bit |
| `pool` | `extents_dirty`, `extents_muzzy`: list, bitmap of non-empty heaps, `npages` |
| `fresh`, `lost`, `mapped`, `files` | `memory_new` and `npage_new`; pages the arena forgot; mapped chunks; `file_tree` |
| `lock`, `purging` | locks of the two pools and the arena; `decay->purging` |
| `log`, `ext[a].log` | items in force in the bookkeeping log, and `extent->log` |
| `cache`, `held`, `slabs` | `large_caches`; what the program has; slabs in use |
| `pc`, `loc`, `ops`, `status` | where each thread is and its locals; calls begun; the stop |

| actions | code |
|---|---|
| `MallocCall`, `Fill`, `Pop`, `Log` | `tcache_alloc_large`: fill the cache of the class, pop, store the address, log |
| `SlabCall`, `Interior` | `arena_slab_alloc`, `extent_interior_register` |
| `Recycle`, `Split`, `Trail` | `extent_recycle_extract` from the dirty and then the muzzy pool, `extent_split_interior`, `extent_deactivate` |
| `Carve`, `Retire`, `Retired`, `MapFile`, `MapFails`, `InsertFile`, `Register` | `arena_activate_new_memory`, `arena_evict_new_memory_locked`, `arena_file_map_locked`, `extent_register` |
| `FreeCall`, `LogCached`, `UnslabCall`, `LogFree` | the large path of `nvalloc_free_from`, `arena_dalloc`, `arena_slab_dalloc` |
| `Record`, `Look`, `Check`, `Merge`, `Relock`, `Settle` | `extent_record`, `extent_try_coalesce`, `extent_coalesce` |
| `NoDecay`, `Decay`, `EvictNone`, `EvictDirty`, `EvictStops`, `Stashed`, `Punch`, `PunchStops` | `arena_decay_ticks` and what a purge does to the extents, for any limit of `Limits` |
| `GCStops` | the assertions of `slow_GC` (`log.c:406`, `419`), when a free starts it |

### 3.6 `SizeClass`: tables and geometry

`BootLookup`, `BootPages` and `BootGeometry` are `sizeclass_boot`, one class a step; a
lookup table is kept as the number of its entries filled by each class, which
determines it. `Request` is the rounding and lookup of `nvalloc_malloc_to`.
`SlabCreate`, `Morph`, `OldFreed` and `SlabEmptied` take a slab through every layout
it can get, in bytes; `Morph` abstracts the old blocks to their number and the lowest
of them, by which `slab_morphing` decides. `PSIZE_CLASSES` has the zero behind
its last element that the array of 63 elements has.

### 3.7 `Decay`: time

`decay[p]` has the fields of `arena_decay_t`: mutex, purging flag, deadline,
`nunpurged`, backlog, and in place of clock and epoch the time since the epoch.
`Clock` lets time pass; `Dalloc`, `Recycle` and `Fresh` are the events that tick;
`TryLock` and `Busy`, `NotReached`, `AdvanceOnly`, `AdvanceAndPurge`, `Evict`,
`StashDone`, `ToMuzzy`, `Relock` and `PurgeDone` are `arena_decay` from the attempt at
the mutex to the end of the purge. An extent is its number of pages: what
purging does to neighbours is in `Extents`, which has the same purge for any limit
and without a clock.

## 4. Runs

Each mutant listed in `PROJECT.json` breaks one definition the way a slip in that
code would, and makes TLC refute the property named, under the same
configuration.

| run | question | distinct states | instance |
|---|---|---|---|
| `vlog` | Does the log implement `DurableSet`, until a fast collection follows another? Are chain and count exact until the first one? | 65,821 | 3 objects; 10 chunks for 2 items, lines of 2 slots, 2 lines a group; 2 slow and 2 fast collections |
| `vlog_both` | What still holds when the collectors follow each other in any order? | 539,212 | 3 objects, of which a file and a slab; 11 chunks of 1 slot; 1 slow and 3 fast collections |
| `vlog_lost` | Is the chunk of a freed item always found? (No) | violation | 3 objects; 10 chunks of 1 slot |
| `arenas` | Are threads spread evenly, under any order of starts? | 54,848 | 4 threads, 2 slots, 1 failed creation, 1 report |
| `slab_serial` | One operation at a time: blocks, bitmaps, old blocks, metadata and lists, through repeated morphs | 1,874,683 | 2 classes, 2 slabs of 10 bytes, 3 fills; one thread allocates, it and one of another arena free |
| `slab_share` | No morph, any interleaving of three threads | 1,141,816 | 1 class, 2 slabs of 11 bytes, 3 fills; 2 threads allocate, 1 frees |
| `slab_race` | A free against fills of two classes that morph: who waits for whom? | 1,284,177 | 2 classes, 2 slabs of 11 bytes, 2 fills; 2 threads allocate, 1 frees; unwritten flags have any value |
| `ext_serial` | One call at a time: is memory tiled, are objects found and recorded, does every call end? | 78,603 | 2 chunks of 4 pages; objects of 1 and 2 pages, slabs of 4; limits 0 and 1; 6 calls |
| `ext_race` | Two threads that allocate, free and purge | 474,714 | the same chunks; objects of 2 pages, slabs of 4; limit 0; 6 calls |
| `ext_gc` | Does `slow_GC` find the owner of every item? (No) | violation | as `ext_race`, with the page size of the build |
| `sizes` | Are requests covered, and do blocks, bits and tables stay in their places? | 62,136 | the constants of the build |
| `decay` | One purge at a time, a limit that falls, a pool that empties | 225,632 | 2 threads, 3 epochs of 2 clock units, 2 frees of 1 or 2 pages |

Why the bounds are enough, and what they leave out:

* **Log.** In `vlog` a chunk is full with 2 items of its 4 slots, the first of
  each line: `count_to_index` maps 0, 1 to the slots 0, 2, as a chunk of the build is
  full with 100 items of 126 slots. There are chunks with only live, only free, mixed and no
  items, and two collections of each kind in any order. The period and the
  ratios are lowered so that collections happen within the bound. One-slot chunks (`vlog_both`, `vlog_lost`)
  are the cheapest chains: each item is a chunk, so that three objects make neighbours that
  are both empty, one fast pass after a rewriting unlinks both through the stale
  predecessor, and with three fast passes a chain is closed to a circle. `vlog_both` has a file and a slab
  beside an extent, since `slow_GC` finds their owners differently. `MaxChunkId` ends a
  behaviour by bounding the allocations of chunks; chunks are reused within it. Bitmaps of
  more than one word are in no instance; the theorems are for chunks of any size.
* **Arenas.** Four threads over two slots: the array fills, and is shared by two
  pairs; the failed creation adds one to arena 0 and no more.
* **Slabs.** A slab of 10 or 11 bytes holds a handful of blocks of 2 or 3; the
  old blocks of one class start at every phase relative to the new ones. Two ways
  of two entries, so a fill wraps around the ways. Two slabs, so that one
  may be morphed while the other is the current one. Two fills are needed to have
  a slab of each class and one of them morphed, a third for a slab to be morphed twice
  or popped after a morph. In `slab_race` two threads with a fill each are enough for one to
  want for its morph the slab the other fills from, which closes the circle of section 7, and for a slab with nothing
  left to be made anew beside a free. The two classes are not neighbours in the runs: see 7.
* **Extents.** Two chunks of four pages: a request that does not fit the first
  retires it, its rest becomes an extent or is forgotten, and extents merge across
  the border of the chunks. Objects of 1 and 2 pages and slabs of 4 give splits
  with and without a trail, exact fits, and merges on either side and on both; with `FIT` 2 a
  dirty extent of 4 pages or more is refused for an object of one.
  Limits 0 and 1 let a purge take everything or stop early. Six calls are two
  objects and a slab taken and given back. In `ext_race` the page is one byte: `extent.c:406`
  compares pages with the bytes of a chunk, which with 4096 would keep the
  eviction of muzzy chunks, and its stop, out of any instance. `ext_race` is
  symmetric in its threads; it has no liveness property. With a cache of one object a class is filled with
  one allocation, not with several that a purge may fall between; `NUM_MAX_CACHE` is any number in the theorems.
* **Size classes.** Nothing is scaled. Requests lie at and beside every class,
  of pages as far as TLC's integers hold the bytes; the number of old blocks is
  the largest for each size of the table.
* **Decay.** Time is kept relative to the epoch and, from `NSTEPS` intervals on,
  modulo the interval, so the clock is unbounded. Only the dirty pool decays in the
  run (`Pools`): the muzzy one goes through the same code with nothing to evict below a
  chunk. `NTICKS` 0 looks at the clock on every event, which includes every interleaving a
  slower ticker has but for the events between.

`CHECK_DEADLOCK FALSE` is set for the log, the arenas and the slabs, because
their behaviours end: the process may stop, bounds run out, all threads may be
bound. For `Slab`, whom threads wait for is the invariant
`CirclesCrossClasses`; the circle it describes is reached, and is a deadlock. `Extents` has a step for the end of its calls, `SizeClass` and
`Decay` never end, and their runs check deadlock.

What the properties say, beyond their names. In the log, `BitsAreLive`: set bits
are exactly the items of live objects; `CollectionEnds`: a collection gives back `log_lock`; `ChunksPartitioned`, a conjunct of `IndInv`: each chunk ever
used is on the free list once, in one tree, a root, or held by the collection in
course, and nowhere else. In the slabs, `NoOverlap`: no byte belongs to two blocks, wherever
they are (program, cache, a thread on its way), or to a block and the metadata;
`BitmapExact`: the bitmap has the numbers that blocks which are out reach into,
and no other; `OldCounted`: the counts of old blocks, in the slab and under each number;
`HeldIsRecorded`: the metadata on the medium has every block the program holds;
`ListsExact`: between calls the bins and the LRU list have the slabs they should, each once,
and the two counters of the list are right (`LRUExact`, `BinsExact`); `AssertionsHold`: one
operation at a time no assertion fails and no list node is missing, and the process may stop at `nvalloc.c:127` only;
`CirclesCrossClasses`: a set of threads that wait for each other has one that morphs with `LRU_lock` and one that
fills another class. In the extents,
`ExtentsTile`: each mapped page is in one extent, fresh, forgotten, or with one thread; `ActiveOwned`:
an extent in use has exactly one owner, counting the slots of caches and threads in
the middle of a merge or a purge; `TreeExact`: the tree leads to an extent from its
ends, or from every page of a slab, and from nowhere else; `RecordsExact`: between calls
the log has an item for each object, slab and file and no other; `MuzzyMerged`: no two
muzzy extents stay side by side. In `Decay`, `OnePurge` relates the flag to the
threads that purge, and `LimitFalls` says pages are not counted twice.

## 5. Fairness and liveness

* `CollectionEnds`. The thread in `add_log` holds `log_lock` and runs its loops
  without waiting for anyone, so the steps of a collection are weakly fair.
  Nothing is assumed of the calls themselves.
* `EverybodyBound`. A thread inside `choose_arena_hard` waits only for
  `arenas_lock`, and each thread takes that lock once in its life, so it is contended a
  bounded number of times: weak fairness of each thread's steps is enough. A
  thread need not ask, and need not end.
* `CallEnds` (one call at a time). The thread in a call is scheduled, so its
  steps are weakly fair; alone, it finds every lock free. What is shown is that
  the rounds of merging and evicting come to an end. Calls themselves are not fair.
* `Drains`. Time passes (weak fairness of `Clock`), the threads go on
  (`arena_decay(t)`), and the program goes on allocating (`Fresh(t)`): pools decay by
  ticks only, so without calls nothing is ever purged. `Relock(t)` is strongly
  fair: a thread that waits for a mutex that is free again and again gets it, as a
  fair scheduler with a pthread mutex lets it, sooner or later. The attempts by
  `pthread_mutex_trylock` have no fairness beyond that: they may fail every time another is there.
* `Slab` has no fairness and no liveness: the program decides whether a
  thread ever comes back, and the circular wait of section 7, which `slab_race` reaches, rules out progress
  in general.

## 6. What is proved

TLAPS checks every theorem for all values of the constants that satisfy the
named assumptions of the modules. The assumptions are ranges (`roffset` is
positive, there is a class, the weights of decay ascend); a hypothesis beyond
them is a named predicate in the theorem.

| module | theorems | of the runs' properties |
|---|---|---|
| `VLogProofs` | `Inductive`, `TypeCorrect`, `ChunksNeverSharedOrLost`, `TailNeverReclaimed` | `IndInv` |
| | `Durable`, `BitsStayLive`, `ChainStaysTree`, `ItemsCounted`, `OnlyFullFileStops`, `LogIsDurableSet` | `BitsAreLive`, `ChainIsTree`, `NumOfItemsExact`, `NeverStopped`, `ImplementsDurableSet` while no `fast_GC` runs |
| `ArenaChoiceProofs` | `Inductive`, `LoadBalanced`, `NoEarlySharing`, `NoCountLost`, `UsageComplete` | all but the liveness |
| `InterleaveProofs` | `SpreadInjective`, `SpreadInGroup`, `LinesApart` | |
| `DecayProofs` | `InductiveInvariant`, `OnePurgeInvariant`, `LimitOnlyFalls` | all but the liveness |
| `SlabProofs` | `TypeAndWays`, `WaysStayExact`, `LocksStayHeld`, `CirclesAlwaysCross` | `WaysExact`, `CirclesCrossClasses` |
| | `BlocksStayExact`, `BlocksNeverOverlap`, `BitmapStaysExact`, `HeldStaysRecorded` | `NoOverlap`, `BitmapExact`, `HeldIsRecorded`, each if `SingleClass` |
| | `ReleaseIsSafe` | if `SingleClass` and `OneFrees` |
| `ExtentsProofs` | `ExtentsTypes`, `ExtentsTiled`, `ExtentsOwned`, `TreeLeads`, `PoolsList`, `ObjectsFound`, `AssertionsPass` | `TypeOK`, `ExtentsTile`, `ActiveOwned`, `TreeExact`, `PoolsExact`, `HeldFound` |
| `SizeClassProofs` | `BootIsRight`, `LookupIsLeast`, `LayoutsFit` | `LookupLeast`, `GeometryFits` |

**`VLogProofs`: chunks.** `IndInv` is an invariant (`Inductive`), whatever the size of
the file, the chunks, the policy, and with both collectors. Its parts:

* `ChunksPartitioned` is the aim, but is not inductive by itself: `slow_GC`
  owns chunks that no list has yet, `log_destroy` gives back those of the old
  tree one at a time, and `fast_GC` has a list of chunks that are still in
  the tree. `Held` names what the collection owns in each phase.
* `NewLogWellFormed`, `OldRootApart` and `FastListEmptyChunks` say what the
  collection in course has built: the new log has its tail in its tree; the old root
  is in no tree; the list of `fast_GC` has chunks of the tree without a set bit,
  each once.
* `TailInTree` needs more than `FastListEmptyChunks`: the tail is never
  reclaimed because the free item that triggered the collection is in it and its
  bit is set.
* `HandleOfHeader`, the handle in force is the one the header names, and
  `ChunksCounted`, `num_of_chunks` is the size of the tree plus the root.

There is one lemma per action, and lemmas for the operators (`Extend`, `NewLog`,
`Store`, `ClearBit`) on the record they work on, so that `slow_GC`, which applies
them to the second log, uses the same ones. `TypeCorrect`, `ChunksNeverSharedOrLost`,
`TailNeverReclaimed` and the like follow.

**`VLogProofs`: items.** Where the items are, and what they say. `DurableInv` is
kept by every step that starts in `IndInv` (`Durable`). Its parts:

* `SlotsInOrder`: the items of a chunk are in the slots that its count stands
  for. This is where the interleaving matters: a new item goes to a blank slot
  because `count_to_index` never gives a slot twice (`SpreadInjective`).
* `OwnersInForce`: the items with a set bit are those the owners point at, one
  each. It holds as long as one of the two collectors never runs; a `slow_GC` after a
  `fast_GC` may miss items (section 7).
* `MediumInOrder`, until the first `fast_GC`: a sequence of chunks is the chain from the
  root over the tree to the tail; a bit is clear exactly if a free item names
  the place and the id of its chunk (`FreesInOrder`), and ids are those of the descriptors
  (`Numbered`), so stale free items of reused chunks cancel nothing; `num_of_items` counts
  the items that are not free items.
* `WalkInOrder`: in the middle of a rewriting, the owners of the items not yet copied point at
  the old log and the others at the new one, which is in order itself.
* `PassesCounted`: a collection in course has been counted.

From it follow the four invariants of the run `vlog`, and `LogIsDurableSet`: under
`[](passes.fast = 0)` the log refines `DurableSet`, the initial state to
an initial state, `LogAlloc` and `LogFree` to one change of one object, and every step of a
rewriting to a stutter. So a power failure at any step finds the allocated objects
on the medium. `DurableInv` is no property of a run, since it quantifies over all
sequences of chunks; with these restricted to sequences without repetition it holds in
the instance of `vlog`, and in it with two fast and one or no slow collections.

**`ArenaChoiceProofs`.** For every finite set of threads and every number of
slots of at least one: `LoadBalanced`, `NoEarlySharing`, `NoCountLost`,
`UsageComplete`. The argument: only the holder of the lock changes the array and
the counters (`LockHeld`), so what its scan has found (`ScanKnows`) and the room
in the arena it took (`Room`) stay true until it counts itself. `Prefix`, the
array is filled from its start, is why the report that stops at the first NULL
misses nothing.

**`InterleaveProofs`.** For lines of any number of slots and groups of any number of lines:
`SpreadInjective`, no two numbers share a slot; `SpreadInGroup`, an area of whole
groups is never left; `LinesApart`, numbers less than `n` apart are
in different cache lines, over group boundaries too, which is what the
interleaving is for.

**`DecayProofs`.** For any set of threads, intervals, number of epochs and ticks.
`FlagOfPurger` makes `OnePurge` inductive: the flag of a pool is up exactly while one thread is
in the part of `arena_decay_to_limit` that ends by taking it down, and only that thread
takes it down, though it gives up the mutex in between. `DeadlineAhead`, a deadline is never
before the interval, is why a reached deadline moves the epoch on. `LimitOnlyFalls`, an
action property: an advance of any number of epochs moves every page to an epoch of no larger
weight; it uses that the weights of `smoothstep.h` ascend (`DecayAssumption`), and a lemma on
partial sums, as sums are folds.

**`SlabProofs`: ways and locks.** The invariants are in `SlabInv`. For any threads, classes, geometry, flags:

* `WaysInv`: the types of the state, with what each place in the code says of the thread's locals
  (`Control`); the bitmap of the ways; and `Room`: while a thread fills a class, no
  way of it is full, since a fill starts with an empty bitmap and ends in the step
  that fills a way. `WaysStayExact` follows.
* `LocksInv`: which steps hold which lock (`Holders`), and that the slab that is morphed is of
  another class than the one filled (`OtherClass`): its class changes under `LRU_lock` only, which
  the search has. `CirclesAlwaysCross` follows. A thread that waits holds a lock only in a fill, and
  two fills hold the bin locks of two classes. Without a thread that waits in a morph, each waits for a lock that
  comes later in the order bin, slab, LRU; so a circle has one, and since it has `LRU_lock` there is no other, and
  the thread that waits for it fills another class. Nothing is assumed of the number of threads or classes.

**`SlabProofs`: blocks.** For any threads in any interleaving, under
`SingleClass`: the program allocates in one class, so nothing is morphed, and a flag
never written reads as FALSE. It is a hypothesis of each theorem, not of the invariants. With more classes and a free beside a morph the conclusion is
false (section 7); one operation at a time stays with `slab_serial`.

* `BlocksInv`: no slab is morphed (`NoMorph`); each block is in one place, a
  cache, a thread on its way or the program, and is one of its slab's (`OwnBlocks`); the
  index kept in a cache entry is that of its block (`EntryIds`); a thread has the block it gives
  back until its bit is clear (`Giving`); a bit is set exactly if the block is out
  (`BitsExact`); a slab that is filled from was made (`MadeFirst`). `BlocksNeverOverlap` and
  `BitmapStaysExact` follow.
* `ReleaseInv`: a block the program has is set in the metadata (`HeldSet`); and if one thread
  frees at a time (`OneFrees`, a hypothesis of `ReleaseIsSafe`), a slab on its way out is empty, in no bin, and not
  filled from (`EmptyApart`, which needs `FreesAlone` and `ListedOnce`). `ReleaseIsSafe`
  and `HeldStaysRecorded` follow.

**`ExtentsProofs`.** For any set of threads that allocate, free, take and give back slabs
and purge in any interleaving (`Serial` or not), any ascending classes, any sizes of a chunk
and a slab, any number of calls, and any number of files up to the pages of the largest class. `IndInv` (`ExtentsInv`) is inductive; none
of the six properties is by itself:

* `Tiled` and `Owned` are `ExtentsTile` and `ActiveOwned` without the word "running" (a
  process that stops at an assertion leaves a state they hold in) and without cardinalities:
  something has the page, or the extent, and any two that have it are the same. They need
  each other. That an extent which is cut, merged or forgotten is in no pool, in no cache and
  with no other thread is `Owned`; that the pages of two neighbours are not those of a third
  extent is `Tiled`.
* `TreeInOrder`: a page leads to an extent if and only if it is one of its marks, its ends,
  or all pages of a slab. A thread that gives an extent back reads its neighbour in the tree
  and takes the neighbour's mutex after that, with any steps of others in between. It may merge
  only because the entry and the state are then read again under the mutex, and `TreeInOrder` with `Tiled` says that an extent
  found from the page before or behind ends or begins there (`Neighbour`).
* `PoolsInOrder`: list, bitmap and page count of a pool are those of the extents in its
  state. The page count needs that no two extents share a page.
* `Control`, `Hands` and `NewMemory` say what a thread at each place in the code knows of its
  locals, of the extents it has and of the arena's new memory: the extent it splits is large
  enough, the rest begins where the extent ends, the chunk is retired before the next is mapped.
  What it knows stays true because no step of another thread changes an extent that has
  an owner (`Spares`, `OthersKnow`): this is where `Owned` makes the steps of one thread
  independent of the others.
* `Objects`: what is in the hands of the program or in a cache is an object of its class for
  the tree and for its descriptor, and an extent in a pool is no slab. `HeldFound` follows.

`ExtentsSteps` takes the shared part over the steps: each step of a thread leaves the extents
alone (`Plain`), moves one between a pool and the thread (`Pooling`) or shapes extents
(`Shaping`: cut, made whole, forgotten, recorded, registered, merged), and the proofs about pages,
owners, tree and pools go by these kinds and not by the twenty-odd actions. `ExtentsProofs` has
what the threads know and the theorems. `AssertionsPass`: the assertions of the code
on what the tree has never fail; of what may stop the process there remain the end of the
memory, the stop in the eviction of muzzy chunks and those of `slow_GC` (section 7). The
proof uses, beyond the ranges, that a slab is no larger than a chunk, that there are two
classes at least, and that the largest class covers the memory (`SizesAssumption`). The last
is a limit of the code: the largest class of the build has 98304 pages, 192 chunks of 2 MB, and
an extent that merging has made larger has no class (section 7).

**`SizeClassProofs`.** `BootInv` has the contents of the tables after each step of the boot,
and says of a slab that its layout is one `slab_init` or `slab_morphing` makes.
`LookupIsLeast` is for the two tables of the build, `SIZE_CLASSES` and `PSIZE_CLASSES`, and every request the
last class can serve (`PagesAssumption`); the lemmas under it, `NewEntry` and `LeastReaches`, are for any ascending table.
`LayoutsFit` is for the classes of the build in lines of 64 bytes, any size of slab and of what is
in it within `SizeAssumption` and `RoomAssumption` (beside one block of
any class there is room for the metadata and the table of any), and any sequence
of morphs.

The inductive invariants of `VLogProofs`, `ArenaChoiceProofs` are also invariants of the
runs `vlog_both` and `arenas`; that of `Extents` holds in the instances of `ext_serial` and
`ext_race`. TLC evaluates the assumptions on the constants in the runs of every component.

**Only model-checked.** Of `Extents`: `RecordsExact`, which holds one call at a time only (section 7
has what two threads do to it), `MuzzyMerged`, which two threads break in the same way (TLC finds it violated in the
instance of `ext_race`, so the run does not list it), and `NeverStopped` beyond the assertions of
`AssertionsPass`. Of the log, the refinement through a `fast_GC` that
is the first collection. Of `Slab`, with several classes, one operation at a time (`slab_serial`): `NoOverlap`, `BitmapExact`,
`OldCounted`, `HeldIsRecorded`; `ListsExact` and `AssertionsHold` in any case. `MorphFits`
of `SizeClass`, whose bounds are facts of the numbers of the build. The liveness properties
`CollectionEnds`, `EverybodyBound`, `CallEnds` and `Drains`: the prover does not treat fairness.

## 7. What the checks found

Two statements of the source are refuted by what the code does, each with a run:

1. `log.c:205 assert(vlchunk)` (`vlog_lost`). `fast_GC` unlinks a chunk
   through `pre_lchunk` of its volatile descriptor (`log.c:307`) and never updates
   that of the following chunk. When of two neighbours the first is unlinked before the second, in one pass
   or in two, the second unlink writes into a chunk that is no longer on the chain.
   The chain then leads to a reclaimed chunk; after its reuse the chunks between
   are unreachable, `slow_GC` does not copy their items, and `log_destroy` frees them.
   In a fresh log a pass visits neighbours last to first, so that it takes two passes. A `slow_GC`
   gives the chunks back such that the free list descends (`log.c:139`), and from then on one pass
   over two neighbouring empty chunks is enough: the medium itself, read after a power failure, lacks
   objects. With several passes a stale unlink may write into a chunk that is in use again and close the chain
   to a circle, which the next `slow_GC` walks without an end. This is why the properties of the log end where they
   do (section 3.2); `vlog`, `vlog_both` and `vlog_lost` go on beyond.
2. `log.c:406 assert(extent->log == cursor_item)` (`ext_gc`). `arena_slab_dalloc`
   gives the extent to the dirty pool (`arena.c:787`) before it logs the free
   (`arena.c:789`). Another thread may take and log it in between, which overwrites
   `extent->log`; the free item then cancels the new item, the old one stays in
   force, and a `slow_GC` that this free starts stops. `arena_dalloc` has the
   same order for large objects.

Observations that follow from the models and have no run of their own; the runs
named contain the states as stops or go on beyond them:

* A free of a block beside a morph of its slab (`slab_race`). `slab_free_small` computes
  the number of the block from layouts read before it has the slab lock, and frees
  it in the bitmap the slab has by then (`slab.c:441`, `449`, `370`): a block may
  then be handed out twice. Once the last old block is counted off, and before the slab
  is on the LRU list, a pop finds `LRU_dlnode` NULL (`slab.c:412`, the stop of `Touch`).
* A block in the cache of the old class stays there over a morph of its slab. Its entry points into
  the array `dmeta` that `slab.c:295` gives back, and `nvalloc.c:127` writes there when the block is handed out: a use
  of freed memory, one call at a time, after two fills (`MallocStops`, `slab_serial`; `AssertionsHold` excepts it and nothing
  else). In the same way `nvalloc.c:125` sets the bit of the number the block had in the old
  layout; every number the block reaches into in the new one is set by the morph, so the block is recorded all the same.
* Two threads of one arena that allocate in two classes wait for each
  other for ever (`slab_race`): a morph takes `LRU_lock`, the slab lock, then the other class's bin lock;
  a fill holds its bin lock and takes the slab lock or `LRU_lock`. `CirclesAlwaysCross` says that there is no
  other way to block.
* `vslab_init` makes the lock of a slab anew while the morph has it (`slab.c:61`). Another thread
  may take it from there, and `slab.c:95` then gives back a lock that the morph does not have; a thread
  that slept on the lock before may never be woken, which the model, whose threads take any free lock, does not show.
* `morphing_len` is read, changed and written without a lock: `ListsExact` is a
  property of one operation at a time.
* Two threads that free at once may release a slab that is in use, or release
  it twice: one finds the slab empty and gives up the slab lock before it has the bin
  lock (`slab.c:575-596`), and the slab may be filled, emptied and released meanwhile. An
  instance with two freeing threads and three fills has it; `slab_share` has one that frees, and
  `ReleaseIsSafe` and `HeldStaysRecorded` assume one (`OneFrees`).
* `slab_unset_bm_tcache` looks at the cache of the class the slab is morphed
  *into*, so in sequential use it drops nothing.
* With classes that are neighbours, the read behind the last entry of a full last
  way (`nvalloc.c:108`) falls into the next class's cache, and a block may be lost;
  the runs use classes that are not neighbours.
* `slow_GC` gives the root of the new log the id 0, although id 0 stands for a
  free chunk (`log.h:64`). The 14-bit field of an item holds a size modulo 16384
  (`log.h:30`): a slab of 65536 bytes is recorded as 1, an extent of 2 MB as 0.
* A chain left by 1 may also lead `slow_GC` to a chunk that is not in the tree
  (`log.c:377`); `vlog_both` contains these stops, and the division by zero of
  `log.c:230`, once a fast pass has taken whole chunks of slots off
  `num_of_items`, which had not counted the free items in them.
* A file is logged before it is in `file_tree` (`arena.c:266`): a `slow_GC` by another
  thread in between searches the tree in vain (`log.c:419`). `extents_dalloc`
  searches `file_tree` without `arena->lock` (`extent.c:1253`), beside an insertion. Both are
  stops of `ext_race`.
* The eviction of muzzy chunks starts one chunk too far and stops at the assertion
  `extent.c:444`, or at `538` within the second cut (`EvictStops`, reached by `ext_race`). In the build it is not
  reached before the muzzy pool has 8 GB, because `extent.c:406` compares pages with bytes.
* A slab that is given back keeps its slab bit on its end pages, so dirty neighbours
  given back later do not merge with it (`extent.c:977`) until it is muzzy.
* The rest of a retired chunk whose size is not that of a class is forgotten
  (`arena.c:136`); `lost` of `Extents` has these pages.
* Requests of more than 98304 pages get page class 0 (`sizeclass.c:52`), and an extent that merging
  has made larger gets the class -1 when it goes to a pool (`extent.c:27`). A request
  larger than a chunk makes `npage_new` wrap (`arena.c:318`). For requests of size 0
  the class of 8 bytes is used, of which a fifth of a slab is over a thousand blocks,
  while `num_b` (`slab.c:240`) is a byte. None of these is in the instances.

## 8. What is not modelled

* The ring of `minilog.c`: entries are written and never read, checked or
  acknowledged. Nothing else in the program depends on it, so there is no
  promise of it to state; its arithmetic is in `Interleave`.
* Recovery: the repository has none. Crashes are modelled only where the medium says by itself what
  is allocated, in the log.
* In the log: the order of the two stores inside one item and of the item and the
  link to a new chunk within one `add_log`; the creation and mapping of the file; `get_heap_usage`.
* In the slabs: `is_mixed`, the persistent step counter of a morph, and a crash
  between its steps (no code reads it back); the state of the metadata is
  abstracted to the set of bits and the table of old blocks; the entry of number 0 that
  `slab.c:286` writes behind the last of the table, which only a free that raced a morph could find; the wait for `eslab`, which
  a creator stores without a lock.
* In the extents: what would follow the stop of `extent.c:444` (`extent_dalloc_wrapper`,
  `arena_file_unmap`), statistics, first fit (not built), requests
  larger than a chunk, a crash between the steps of a large operation.
* In decay: times of zero and below, which nothing sets. The composition of a decaying
  clock with the extents: `Extents` takes any limit instead.
* Vendored containers (radix tree, heaps, red-black trees, hash table, lists,
  the stack) and wrappers of instructions: a container is used as the set,
  sequence or map it stands for.
