-------------------------------- MODULE VLog --------------------------------
(***************************************************************************)
(* The bookkeeping log of one arena (src/src/log.c): the persistent log    *)
(* chunks and the chain that links them, their volatile descriptors, the   *)
(* free list of chunks, and the two collectors.  Every caller of add_log   *)
(* holds the arena's log_lock for the whole call, collections included, so *)
(* the log is one sequential process; what may happen between two steps of *)
(* a collection is a power failure, and that is why a collection is split  *)
(* into one action per persisted step.                                     *)
(***************************************************************************)
EXTENDS Naturals, Sequences, Interleave

CONSTANTS
  Objs,             \* the extents and the mapped files the log records
  Files,            \* those of them that are files (FILE_LOG items)
  Slabs,            \* those of them that are slab extents
  SizeOf,           \* the size of each extent in bytes, the id of each file
  LOG_FILE_SIZE,    \* the size of the log file, in chunks (header included)
  N_ITEMS_PER_LCHUNK, \* slots of a chunk
  LineItems,        \* slots of a cache line: CACHE_LINE_SIZE / 8
  NBANKS,           \* lines that consecutive items are spread over
  GCPeriod,         \* frees between two collections (10000)
  SlowRatio,        \* ratio from which the log is rewritten (10)
  FastRatio,        \* ratio from which empty chunks are unlinked (2)
  FieldRange,       \* 2^14: values of the field size_version_id
  WordRange,        \* 2^64: values of the counter num_of_items
  MaxChunkId,       \* bound: chunks allocated by add_log in one log
  MaxSlowGC,        \* bound: slow collections of a behaviour
  MaxFastGC         \* bound: fast collections of a behaviour

ASSUME SetsAssumption == Files \subseteq Objs /\ Slabs \subseteq Objs \ Files

ASSUME SizesAssumption ==
  /\ SizeOf \in [Objs -> Nat]
  /\ LOG_FILE_SIZE \in Nat /\ LOG_FILE_SIZE >= 4
  /\ N_ITEMS_PER_LCHUNK \in Nat \ {0}
  /\ LineItems \in Nat \ {0}
  /\ NBANKS \in Nat \ {0}
  /\ FieldRange \in Nat \ {0}
  /\ WordRange \in Nat \ {0}

ASSUME PolicyAssumption ==
  /\ GCPeriod \in Nat \ {0}
  /\ SlowRatio \in Nat /\ FastRatio \in Nat
  /\ MaxChunkId \in Nat /\ MaxSlowGC \in Nat /\ MaxFastGC \in Nat

VARIABLES
  lchunk,    \* the persistent chunks, by offset in the log file
  vlchunk,   \* the volatile descriptor of each chunk
  free,      \* global_free_list, first in first out
  used,      \* log_file_used: offset of the first chunk never used
  head,      \* the file header: alt and the root of each of the two logs
  vlog,      \* *vlog_ptr: the volatile handle of the log in use
  new,       \* new_vlog of slow_GC
  gc,        \* progress of the collection in course
  logOf,     \* extent->log and file->log: the item that records an object
  live,      \* the objects whose allocation is recorded and not yet freed
  passes,    \* collections so far (bounded by MaxSlowGC and MaxFastGC)
  status     \* "run", or the line where the process stopped

file == <<lchunk, vlchunk, free, used>>   \* the log file and its free chunks
owners == <<logOf, live>>                 \* what the callers of add_log keep
vars == <<file, head, vlog, new, gc, owners, passes, status>>

----------------------------------------------------------------------------
(* The structures. *)

Null == 0
Addr == 1 .. (LOG_FILE_SIZE - 1)
Slot == 0 .. (N_ITEMS_PER_LCHUNK - 1)
ItemAddr == Addr \X Slot
NoItem == <<Null, 0>>

\* An owner is not a place in the log, and the log has fewer slots than its
\* 64-bit counter has values.
ASSUME ObjsAssumption == NoItem \notin Objs
ASSUME CounterAssumption == (LOG_FILE_SIZE - 1) * N_ITEMS_PER_LCHUNK < WordRange

ItemType == {"NORMAL_LOG", "FREE_LOG", "FILE_LOG"}
Blank == [type |-> "NORMAL_LOG", ptr |-> NoItem, size_version_id |-> 0]
Item == [type : ItemType, ptr : Objs \cup ItemAddr \cup {NoItem},
         size_version_id : 0 .. (FieldRange - 1)]

LChunk == [next : Addr \cup {Null}, id : Nat, items : [Slot -> Item]]
NewLChunk(n) == [next |-> Null, id |-> n, items |-> [i \in Slot |-> Blank]]

VLChunk == [count : Nat, bitmap : SUBSET Slot, id : Nat,
            pre : Addr \cup {Null}]
NewVLChunk(n) == [count |-> 0, bitmap |-> {}, id |-> n, pre |-> Null]

VLogType == [log : {0, 1}, gc_timer : 0 .. GCPeriod, tree : SUBSET Addr,
             tail : Addr \cup {Null}, global_lchunk_id : Nat,
             num_of_chunks : Nat, num_of_items : 0 .. (WordRange - 1)]
BlankVLog == [log |-> 0, gc_timer |-> 0, tree |-> {}, tail |-> Null,
              global_lchunk_id |-> 0, num_of_chunks |-> 0,
              num_of_items |-> 0]

\* phase of the collection; todo: chunks the cursor has not visited; bits:
\* set bits of the cursor's chunk not yet copied; list: free_vlchunk_list.
GCType == [phase : {"idle", "slow_begin", "slow_walk", "slow_destroy",
                    "fast_scan", "fast_free"},
           todo : SUBSET Addr, cursor : Addr \cup {Null},
           bits : SUBSET Slot, list : Seq(Addr)]
Idle == [phase |-> "idle", todo |-> {}, cursor |-> Null, bits |-> {},
         list |-> <<>>]

Status == {"run",
           "log.c:52 log file is full",
           "log.c:205 chunk of the freed item not found",
           "log.c:230 division by zero",
           "log.c:377 chunk of the chain not found",
           "log.c:406 owner does not point at the item"}

(* What the functions of log.c work on: the log file, the free list and the
   handle v of one log, passed and returned as one record. *)
Mem(v) == [lchunk |-> lchunk, vlchunk |-> vlchunk, free |-> free,
           used |-> used, v |-> v]

Write(m) == /\ lchunk' = m.lchunk
            /\ vlchunk' = m.vlchunk
            /\ free' = m.free
            /\ used' = m.used

count_to_index(bid) == Spread(LineItems, NBANKS, bid)

----------------------------------------------------------------------------
(* Chunks. *)

\* The chunk vlchunk_alloc returns: the first free one, else a new one.
NextChunk(m) == IF m.free # <<>> THEN Head(m.free) ELSE m.used

\* n more chunks can be had before "LOG FILE IS FULL!".
CanAlloc(m, n) == Len(m.free) + (LOG_FILE_SIZE - 1 - m.used) >= n

vlchunk_alloc(m) ==
  LET c == NextChunk(m)
      n == m.v.global_lchunk_id
  IN [lchunk |-> [m.lchunk EXCEPT ![c] = NewLChunk(n)],
      vlchunk |-> [m.vlchunk EXCEPT ![c] = NewVLChunk(n)],
      free |-> IF m.free # <<>> THEN Tail(m.free) ELSE m.free,
      used |-> IF m.free # <<>> THEN m.used ELSE m.used + 1,
      v |-> [m.v EXCEPT !.global_lchunk_id = n + 1, !.num_of_chunks = @ + 1]]

\* mutants: the predecessor is not told, the tree is not told.
Link_noNext(m, p, c) ==
  [m EXCEPT !.vlchunk = [@ EXCEPT ![c].pre = p],
            !.v = [@ EXCEPT !.tree = @ \cup {c}, !.tail = c]]
Link_noTree(m, p, c) ==
  [m EXCEPT !.vlchunk = [@ EXCEPT ![c].pre = p],
            !.lchunk = [@ EXCEPT ![p].next = c],
            !.v = [@ EXCEPT !.tail = c]]

\* The new chunk c becomes the tail of the chain, after the chunk p.
Link(m, p, c) ==
  [lchunk |-> [m.lchunk EXCEPT ![p].next = c],
   vlchunk |-> [m.vlchunk EXCEPT ![c].pre = p],
   free |-> m.free,
   used |-> m.used,
   v |-> [m.v EXCEPT !.tree = @ \cup {c}, !.tail = c]]

\* The root and the first chunk of a log that starts with chunk id n.
NewLog(m) == LET root == NextChunk(m)
                 m1 == vlchunk_alloc(m)
             IN Link(vlchunk_alloc(m1), root, NextChunk(m1))

----------------------------------------------------------------------------
(* Items. *)

TailFull(m) ==
  count_to_index(m.vlchunk[m.v.tail].count) >= N_ITEMS_PER_LCHUNK

\* The tail has room: it had, or a chunk is allocated and linked behind it.
Extend(m) == IF TailFull(m)
               THEN Link(vlchunk_alloc(m), m.v.tail, NextChunk(m))
               ELSE m

\* Where the next item goes.
Place(m) == <<m.v.tail, count_to_index(m.vlchunk[m.v.tail].count)>>

\* The count and the bitmap of the chunk, its slot i filled.
Filled(d, i) == [d EXCEPT !.count = @ + 1, !.bitmap = @ \cup {i}]

\* The item is stored at the place p of the tail and counted, its bit set.
Store(m, p, item) ==
  [lchunk |-> [m.lchunk EXCEPT ![p[1]].items[p[2]] = item],
   vlchunk |-> [m.vlchunk EXCEPT ![p[1]] = Filled(@, p[2])],
   free |-> m.free,
   used |-> m.used,
   v |-> m.v]

\* One more item that is not a free item.
Counted(v) == [v EXCEPT !.num_of_items = (@ + 1) % WordRange]

ObjItem(o) ==
  [type |-> IF o \in Files THEN "FILE_LOG" ELSE "NORMAL_LOG", ptr |-> o,
   size_version_id |->
     (IF o \in Slabs THEN SizeOf[o] + 1 ELSE SizeOf[o]) % FieldRange]

FreeItem(a, id) ==
  [type |-> "FREE_LOG", ptr |-> a, size_version_id |-> id % FieldRange]

----------------------------------------------------------------------------
Init ==
  LET m == NewLog([lchunk |-> [c \in Addr |-> NewLChunk(0)],
                   vlchunk |-> [c \in Addr |-> NewVLChunk(0)],
                   free |-> <<>>, used |-> 1,
                   v |-> [BlankVLog EXCEPT !.global_lchunk_id = 1]])
  IN /\ lchunk = m.lchunk
     /\ vlchunk = m.vlchunk
     /\ free = m.free
     /\ used = m.used
     /\ head = [alt |-> 0, root |-> <<1, Null>>]
     /\ vlog = m.v
     /\ new = BlankVLog
     /\ gc = Idle
     /\ logOf = [o \in Objs |-> NoItem]
     /\ live = {}
     /\ passes = [slow |-> 0, fast |-> 0]
     /\ status = "run"

Root(l) == head.root[l + 1]

\* add_log may run: the lock is free, the file and the bounds leave room.
Ready == /\ status = "run"
         /\ gc.phase = "idle"
         /\ TailFull(Mem(vlog)) => /\ CanAlloc(Mem(vlog), 1)
                                   /\ vlog.global_lchunk_id <= MaxChunkId

(* add_log of an allocated extent or a mapped file; the caller stores the
   item in extent->log before it gives the lock back. *)
LogAlloc(o) ==
  /\ Ready
  /\ o \notin live
  /\ LET m == Extend(Mem(vlog))
         s == Store(m, Place(m), ObjItem(o))
     IN /\ Write(s)
        /\ vlog' = Counted(s.v)
        /\ logOf' = [logOf EXCEPT ![o] = Place(m)]
  /\ live' = live \cup {o}
  /\ UNCHANGED <<head, new, gc, passes, status>>

(* gc_timer counts the free up to GCPeriod; a handle made by slow_GC starts
   with the value its memory held, and GCPeriod stands for every value from
   which the test for equality never fires again. *)
Ticked(v) == [v EXCEPT !.gc_timer = IF @ = GCPeriod THEN @
                                    ELSE (@ + 1) % GCPeriod]
Fires(v) == v.gc_timer = GCPeriod - 1

Ratio(v) == (v.num_of_chunks * N_ITEMS_PER_LCHUNK) \div v.num_of_items

\* The collection add_log starts after a free, on the handle v.
Decide(v) ==
  CASE ~Fires(v) -> gc' = Idle /\ passes' = passes
    [] Fires(v) /\ Ratio(v) >= SlowRatio ->
         /\ passes.slow < MaxSlowGC
         /\ gc' = [Idle EXCEPT !.phase = "slow_begin"]
         /\ passes' = [passes EXCEPT !.slow = @ + 1]
    [] Fires(v) /\ Ratio(v) < SlowRatio /\ Ratio(v) >= FastRatio ->
         /\ passes.fast < MaxFastGC
         /\ gc' = [Idle EXCEPT !.phase = "fast_scan", !.todo = v.tree]
         /\ passes' = [passes EXCEPT !.fast = @ + 1]
    [] OTHER -> gc' = Idle /\ passes' = passes

\* mutant: the bit of the item stays set.
ClearBit_not(m, a) == m

\* The bit of the item at a is cleared.
ClearBit(m, a) ==
  [lchunk |-> m.lchunk,
   vlchunk |-> [m.vlchunk EXCEPT ![a[1]].bitmap = @ \ {a[2]}],
   free |-> m.free,
   used |-> m.used,
   v |-> m.v]

(* add_log of the FREE_LOG item of an object: the bit of the item it frees is
   cleared in the chunk that holds it, the free item carries that chunk's id. *)
LogFree(o) ==
  /\ Ready
  /\ o \in live
  /\ LET m == Extend(Mem(vlog))
         a == logOf[o]
         n == ClearBit(m, a)
         s == Store(n, Place(n), FreeItem(a, n.vlchunk[a[1]].id))
     IN /\ a[1] \in m.v.tree
        /\ Fires(s.v) => s.v.num_of_items # 0
        /\ Write(s)
        /\ vlog' = Ticked(s.v)
        /\ Decide(s.v)
  /\ live' = live \ {o}
  /\ UNCHANGED <<head, new, logOf, status>>

(* The two ways add_log stops the process on a free: the chunk of the freed
   item is not in the tree, or the ratio divides by a zero num_of_items. *)
LogFreeStops(o) ==
  /\ Ready
  /\ o \in live
  /\ LET v == Extend(Mem(vlog)).v
     IN \/ /\ logOf[o][1] \notin v.tree
           /\ status' = "log.c:205 chunk of the freed item not found"
        \/ /\ logOf[o][1] \in v.tree /\ Fires(v) /\ v.num_of_items = 0
           /\ status' = "log.c:230 division by zero"
  /\ UNCHANGED <<file, head, vlog, new, gc, owners, passes>>

\* The walk of slow_GC comes to the bit i, and the item it stands for.
Lowest(i) == \A j \in gc.bits : i <= j
Cursor(i) == lchunk[gc.cursor].items[i]

\* vlchunk_alloc finds the free list empty and the file used up.
LogFileFull ==
  /\ status = "run"
  /\ \/ gc.phase = "idle" /\ TailFull(Mem(vlog)) /\ ~CanAlloc(Mem(vlog), 1)
     \/ gc.phase = "slow_begin" /\ ~CanAlloc(Mem(vlog), 2)
     \/ /\ gc.phase = "slow_walk"
        /\ TailFull(Mem(new)) /\ ~CanAlloc(Mem(new), 1)
        /\ \E i \in gc.bits : Lowest(i) /\ Cursor(i).type # "FREE_LOG"
  /\ status' = "log.c:52 log file is full"
  /\ UNCHANGED <<file, head, vlog, new, gc, owners, passes>>

----------------------------------------------------------------------------
(* slow_GC: a second log receives the live items, then replaces the first. *)

\* gc.cursor and gc.bits when the walk comes to the chunk c of the old chain.
Visit(c) == [gc EXCEPT !.phase = "slow_walk", !.cursor = c,
                       !.bits = IF c \in vlog.tree
                                  THEN vlchunk[c].bitmap ELSE {}]

\* mutant: num_of_items is not reset.
NewHandle_keepsItems(l, t) == [BlankVLog EXCEPT
  !.log = l, !.gc_timer = t, !.num_of_items = vlog.num_of_items]

\* log_create_for_GC: the chunk ids of the new log start again, at 0, and its
\* gc_timer is not set.
NewHandle(l, t) == [BlankVLog EXCEPT !.log = l, !.gc_timer = t]

\* mutant: the new log is in force before it has its items.
NewHead_flips(l, c) == [head EXCEPT !.root[l + 1] = c, !.alt = l]

\* The half of the header that is not in force gets the new root.
NewHead(l, c) == [head EXCEPT !.root[l + 1] = c]

SlowBegin ==
  /\ status = "run"
  /\ gc.phase = "slow_begin"
  /\ CanAlloc(Mem(vlog), 2)
  /\ \E t \in 0 .. GCPeriod :
       LET l == 1 - head.alt
           m == NewLog(Mem(NewHandle(l, t)))
       IN /\ Write(m)
          /\ new' = m.v
          /\ head' = NewHead(l, NextChunk(Mem(vlog)))
  /\ gc' = Visit(lchunk[Root(vlog.log)].next)
  /\ UNCHANGED <<vlog, owners, passes, status>>

\* The lowest set bit of the cursor's chunk: a free item is left behind, any
\* other is copied and its owner told where it is now.
SlowCopy ==
  /\ status = "run"
  /\ gc.phase = "slow_walk"
  /\ gc.cursor \in vlog.tree
  /\ \E i \in gc.bits :
       LET item == Cursor(i)
           m == Extend(Mem(new))
           s == Store(m, Place(m), item)
       IN /\ Lowest(i)
          /\ gc' = [gc EXCEPT !.bits = @ \ {i}]
          /\ \/ /\ item.type = "FREE_LOG"
                /\ UNCHANGED <<file, new, logOf>>
             \/ /\ item.type # "FREE_LOG"
                /\ TailFull(Mem(new)) => CanAlloc(Mem(new), 1)
                /\ logOf[item.ptr] = <<gc.cursor, i>>
                /\ Write(s)
                /\ new' = Counted(s.v)
                /\ logOf' = [logOf EXCEPT ![item.ptr] = Place(m)]
  /\ UNCHANGED <<head, vlog, live, passes, status>>

\* mutant: the walk does not advance.
Following_stays(c) == c

Following(c) == lchunk[c].next

SlowNextChunk ==
  /\ status = "run"
  /\ gc.phase = "slow_walk"
  /\ gc.cursor \in vlog.tree
  /\ gc.bits = {}
  /\ gc' = Visit(Following(gc.cursor))
  /\ UNCHANGED <<file, head, vlog, new, owners, passes, status>>

\* The assertions of the walk: every chunk of the chain is in the tree, and
\* the owner of a live item points at it.
SlowStops ==
  /\ status = "run"
  /\ gc.phase = "slow_walk"
  /\ \/ /\ gc.cursor # Null
        /\ gc.cursor \notin vlog.tree
        /\ status' = "log.c:377 chunk of the chain not found"
     \/ /\ gc.cursor \in vlog.tree
        /\ \E i \in gc.bits : /\ Lowest(i)
                             /\ Cursor(i).type # "FREE_LOG"
                             /\ logOf[Cursor(i).ptr] # <<gc.cursor, i>>
        /\ status' = "log.c:406 owner does not point at the item"
  /\ UNCHANGED <<file, head, vlog, new, gc, owners, passes>>

\* The persisted flip of alt commits the new log; log_destroy follows.
SlowCommit ==
  /\ status = "run"
  /\ gc.phase = "slow_walk"
  /\ gc.cursor = Null
  /\ head' = [head EXCEPT !.alt = 1 - @]
  /\ vlog' = new
  /\ new' = BlankVLog
  /\ gc' = [Idle EXCEPT !.phase = "slow_destroy", !.todo = vlog.tree,
                        !.cursor = Root(vlog.log)]
  /\ UNCHANGED <<file, owners, passes, status>>

\* The root, which is in no tree, gets a descriptor to be on the list with.
RootFreed == Append(free, gc.cursor)

\* log_destroy gives back the chunks of the old tree, highest first, then its
\* root.
SlowDestroy ==
  /\ status = "run"
  /\ gc.phase = "slow_destroy"
  /\ \/ \E c \in gc.todo : /\ \A d \in gc.todo : d <= c
                           /\ free' = Append(free, c)
                           /\ gc' = [gc EXCEPT !.todo = @ \ {c}]
     \/ /\ gc.todo = {}
        /\ free' = RootFreed
        /\ gc' = Idle
  /\ UNCHANGED <<lchunk, vlchunk, used, head, vlog, new, owners, passes,
                 status>>

----------------------------------------------------------------------------
(* fast_GC: the chunks without a set bit leave the chain. *)

\* The tree's traversal goes from the highest address down.
AtCursor(c) == /\ status = "run"
               /\ gc.phase = "fast_scan"
               /\ c \in gc.todo
               /\ \A d \in gc.todo : d <= c

bitmap_empty(c) == vlchunk[c].bitmap = {}

FastSkip(c) ==
  /\ AtCursor(c)
  /\ ~bitmap_empty(c)
  /\ gc' = [gc EXCEPT !.todo = @ \ {c}]
  /\ UNCHANGED <<file, head, vlog, new, owners, passes, status>>

\* First persist of an empty chunk: id 0 says that it is free.
FastInvalidate(c) ==
  /\ AtCursor(c)
  /\ bitmap_empty(c)
  /\ gc.cursor # c
  /\ vlchunk' = [vlchunk EXCEPT ![c].id = 0]
  /\ lchunk' = [lchunk EXCEPT ![c].id = 0]
  /\ gc' = [gc EXCEPT !.cursor = c]
  /\ UNCHANGED <<free, used, head, vlog, new, owners, passes, status>>

\* Second persist: the chunk recorded as its predecessor skips it.
FastUnlink(c) ==
  /\ AtCursor(c)
  /\ gc.cursor = c
  /\ lchunk' = IF vlchunk[c].pre # Null
                 THEN [lchunk EXCEPT ![vlchunk[c].pre].next = lchunk[c].next]
                 ELSE lchunk
  /\ gc' = [gc EXCEPT !.todo = @ \ {c}, !.list = Append(@, c)]
  /\ UNCHANGED <<vlchunk, free, used, head, vlog, new, owners, passes, status>>

FastScanned ==
  /\ status = "run"
  /\ gc.phase = "fast_scan"
  /\ gc.todo = {}
  /\ gc' = [gc EXCEPT !.phase = "fast_free", !.cursor = Null]
  /\ UNCHANGED <<file, head, vlog, new, owners, passes, status>>

\* The second loop: num_of_items gives back a whole chunk of slots.
FastFree ==
  /\ status = "run"
  /\ gc.phase = "fast_free"
  /\ gc.list # <<>>
  /\ LET c == Head(gc.list)
     IN /\ vlog' = [vlog EXCEPT
                      !.num_of_chunks = @ - 1,
                      !.num_of_items =
                         (@ + N_ITEMS_PER_LCHUNK * (WordRange - 1)) % WordRange,
                      !.tree = @ \ {c}]
        /\ free' = Append(free, c)
  /\ gc' = [gc EXCEPT !.list = Tail(@)]
  /\ UNCHANGED <<lchunk, vlchunk, used, head, new, owners, passes, status>>

FastDone ==
  /\ status = "run"
  /\ gc.phase = "fast_free"
  /\ gc.list = <<>>
  /\ gc' = Idle
  /\ UNCHANGED <<file, head, vlog, new, owners, passes, status>>

----------------------------------------------------------------------------
SlowStep == SlowBegin \/ SlowCopy \/ SlowNextChunk \/ SlowCommit \/ SlowDestroy
FastStep == \/ \E c \in Addr : FastSkip(c) \/ FastInvalidate(c) \/ FastUnlink(c)
            \/ FastScanned \/ FastFree \/ FastDone
GCStep == SlowStep \/ FastStep
Stop == SlowStops \/ LogFileFull \/ \E o \in Objs : LogFreeStops(o)

Next == (\E o \in Objs : LogAlloc(o) \/ LogFree(o)) \/ GCStep \/ Stop

Spec == Init /\ [][Next]_vars

\* The thread in add_log holds log_lock and runs its loops without waiting for
\* anyone, so a collection goes on to its end; whether another object is ever
\* allocated or freed is the program's choice.
FairSpec == Spec /\ WF_vars(gc.phase # "idle" /\ (GCStep \/ Stop))
=============================================================================
