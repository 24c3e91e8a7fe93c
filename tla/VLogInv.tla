------------------------------ MODULE VLogInv ------------------------------
(***************************************************************************)
(* What the bookkeeping log must guarantee.                                *)
(***************************************************************************)
EXTENDS VLog, FiniteSets

\* Types of the state.
TypeOK ==
  /\ lchunk \in [Addr -> LChunk]
  /\ vlchunk \in [Addr -> VLChunk]
  /\ free \in Seq(Addr)
  /\ used \in Addr
  /\ head \in [alt : {0, 1}, root : [1 .. 2 -> Addr \cup {Null}]]
  /\ vlog \in VLogType
  /\ new \in VLogType
  /\ gc \in GCType
  /\ logOf \in [Objs -> ItemAddr \cup {NoItem}]
  /\ live \subseteq Objs
  /\ passes \in [slow : Nat, fast : Nat]
  /\ status \in Status

----------------------------------------------------------------------------
(* The owner of every chunk. *)

Elems(s) == {s[i] : i \in 1 .. Len(s)}
Distinct(s) == \A i, j \in 1 .. Len(s) : s[i] = s[j] => i = j

InUse == vlog.tree \cup {Root(vlog.log)}

\* What the collection in course holds besides: the log it builds, or what is
\* left of the log it replaced.
Held == CASE gc.phase = "slow_walk" -> new.tree \cup {Root(new.log)}
          [] gc.phase = "slow_destroy" -> gc.todo \cup {gc.cursor}
          [] OTHER -> {}

\* The free list s and the set owned share the chunks taken from the file.
Shared(s, owned, n) == /\ Distinct(s)
                       /\ Elems(s) \cap owned = {}
                       /\ Elems(s) \cup owned = 1 .. (n - 1)

(* vlchunk_alloc clears the chunk it hands out, so no chunk of the log in use
   may be on the free list, or be there twice, at any step of a collection;
   and every chunk taken from the file belongs to somebody, so that the log
   file does not fill with chunks nobody can reuse. *)
ChunksPartitioned ==
  /\ Shared(free, InUse \cup Held, used)
  /\ InUse \cap Held = {}
  /\ Root(vlog.log) \notin vlog.tree

----------------------------------------------------------------------------
(* The volatile view. *)

Marked(c) == {i \in vlchunk[c].bitmap : lchunk[c].items[i].type # "FREE_LOG"}

(* While one of the collectors never ran, the set bits of the volatile bitmaps
   stand, outside a rewriting, for exactly the allocated objects, each by the
   one item its owner points at: this is what slow_GC copies and asserts
   (log.c:406, 419), and why fast_GC may drop a chunk without a set bit.  After
   both, slow_GC may have left the items of a broken chain behind. *)
BitsAreLive ==
  /\ passes.fast = 0 \/ passes.slow = 0
  /\ gc.phase \in {"idle", "slow_begin", "fast_scan", "fast_free"}
  =>
    /\ \A c \in vlog.tree : \A i \in Marked(c) :
         LET o == lchunk[c].items[i].ptr IN o \in live /\ logOf[o] = <<c, i>>
    /\ \A o \in live : /\ logOf[o][1] \in vlog.tree
                       /\ logOf[o][2] \in Marked(logOf[o][1])

(* The tail is never reclaimed: add_log writes into it without looking. *)
TailInTree == vlog.tail \in vlog.tree

----------------------------------------------------------------------------
(* The persistent view: what is on the medium after a power failure. *)

\* The n-th chunk after the root r, in the chunks lc.
ChainAt(lc, r) ==
  LET at[n \in 0 .. LOG_FILE_SIZE] ==
        IF n = 0 THEN r
        ELSE IF at[n - 1] = Null THEN Null ELSE lc[at[n - 1]].next
  IN at

\* The chunks linked behind the root r.
Chain(lc, r) ==
  LET at == ChainAt(lc, r) IN {at[n] : n \in 1 .. LOG_FILE_SIZE} \ {Null}

(* As long as no fast_GC ran, the chain slow_GC walks, and asserts to be in the
   tree (log.c:377), is the tree, and the tail is its end. *)
ChainIsTree ==
  passes.fast = 0 /\ gc.phase \in {"idle", "slow_begin", "slow_walk"} =>
    /\ Chain(lchunk, Root(vlog.log)) = vlog.tree
    /\ lchunk[vlog.tail].next = Null

\* Chunks with id 0 are free (log.h:64) and hold no items.
Written(lc, c) == IF lc[c].id = 0 THEN {}
                  ELSE {i \in Slot : lc[c].items[i] # Blank}

\* A free item frees the item it points at if that chunk still has the id the
\* free item carries (log.h:30, "log chunk version").
Freeing(lc, chain, c, i) ==
  \E d \in chain : \E j \in Written(lc, d) :
    lc[d].items[j] = FreeItem(<<c, i>>, lc[c].id)

\* The objects the log behind the root r records as allocated.
RecordedIn(lc, r) ==
  LET chain == Chain(lc, r)
  IN UNION {{lc[c].items[i].ptr :
               i \in {k \in Written(lc, c) :
                        /\ lc[c].items[k].type # "FREE_LOG"
                        /\ ~Freeing(lc, chain, c, k)}} : c \in chain}

\* The persistent log in force.
Recorded == RecordedIn(lchunk, head.root[head.alt + 1])

DS == INSTANCE DurableSet WITH recorded <- Recorded, allocated <- live

\* No fast_GC began, or the first collection of all was one and the only one.
ChainUnbroken == passes.fast = 0 \/ (passes.fast = 1 /\ passes.slow = 0)

(* The log implements the durable set until a fast_GC follows another
   collection.  Whatever the step at which the power fails, the medium records
   exactly the allocated objects: an add_log changes it by its object, every
   step of a collection is a stutter, and a chunk id tells the free items of a
   chunk's earlier life from those of its present one. *)
ImplementsDurableSet ==
  DS!Init /\ [][ChainUnbroken' => DS!Next]_<<Recorded, live>>

----------------------------------------------------------------------------
(* As long as no fast_GC ran, num_of_items, the divisor of the ratio, counts
   the items of the log that are not free items; a free thus never divides by
   zero (log.c:230). *)
NumOfItemsExact ==
  passes.fast = 0 =>
    vlog.num_of_items =
      Cardinality(UNION {{<<c, i>> : i \in {k \in Slot :
                            /\ lchunk[c].items[k] # Blank
                            /\ lchunk[c].items[k].type # "FREE_LOG"}} :
                         c \in vlog.tree})

(* As long as no fast_GC ran, the log never stops the process by an assertion
   or a division by zero; a full log file is the one way it ends. *)
NeverStopped ==
  passes.fast = 0 => status \in {"run", "log.c:52 log file is full"}

\* Stale pre_lchunk's can close the chain to a circle, but one fast_GC cannot:
\* it only ever makes a chunk skip to a later one.
MayWalkACircle == gc.phase \in {"slow_begin", "slow_walk"} /\ passes.fast > 1

(* A collection comes to its end, and gives back the lock: every fast_GC, every
   log_destroy, and a rewriting that begins before the second fast_GC. *)
CollectionEnds ==
  (gc.phase # "idle" /\ ~MayWalkACircle) ~> (gc.phase = "idle" \/ status # "run")

----------------------------------------------------------------------------
(* Why chunks stay partitioned and the tail stays in the tree, whatever the
   collectors do to the chain: an inductive invariant. *)

\* The handle is that of the log in force; slow_GC builds the other one.
HandleOfHeader ==
  /\ vlog.log = head.alt
  /\ gc.phase = "slow_walk" => new.log = 1 - head.alt

NewLogWellFormed ==
  gc.phase = "slow_walk" => /\ Root(new.log) \notin new.tree
                            /\ new.tail \in new.tree

OldRootApart == gc.phase = "slow_destroy" => gc.cursor \notin gc.todo

\* What fast_GC has put on its list is empty, is still in the tree, and is not
\* the tail, in which the free item that started it has its bit set.
FastListEmptyChunks ==
  gc.phase \in {"fast_scan", "fast_free"} =>
    /\ ~bitmap_empty(vlog.tail)
    /\ gc.todo \cap Elems(gc.list) = {}
    /\ gc.todo \cup Elems(gc.list) \subseteq vlog.tree
    /\ Distinct(gc.list)
    /\ \A c \in Elems(gc.list) : bitmap_empty(c)
    /\ gc.cursor \in gc.todo => bitmap_empty(gc.cursor)
    /\ gc.phase = "fast_free" => gc.todo = {}

\* num_of_chunks counts the tree and the root.
ChunksCounted ==
  /\ vlog.num_of_chunks = Cardinality(vlog.tree) + 1
  /\ gc.phase = "slow_walk" => new.num_of_chunks = Cardinality(new.tree) + 1

IndInv == /\ TypeOK
          /\ ChunksPartitioned
          /\ TailInTree
          /\ HandleOfHeader
          /\ NewLogWellFormed
          /\ OldRootApart
          /\ FastListEmptyChunks
          /\ ChunksCounted

----------------------------------------------------------------------------
(* Why the bitmaps, the chain and the medium are exact before the first
   fast_GC: an inductive invariant over IndInv.  Its parts speak of chunks lc
   with descriptors vc, so that they can be said of the log in force and of the
   one slow_GC builds. *)

ItemAt(lc, p) == lc[p[1]].items[p[2]]

\* The slots of the first n items of a chunk.
Taken(n) == {count_to_index(k) : k \in 0 .. (n - 1)}

\* A chunk has its items in the slots its count stands for.
ChunkInOrder(lc, vc, c) ==
  /\ Taken(vc[c].count) \subseteq Slot
  /\ vc[c].bitmap \subseteq Taken(vc[c].count)
  /\ \A i \in Slot : lc[c].items[i] # Blank <=> i \in Taken(vc[c].count)

\* The items of the chunks T that are not free items; those with their bit set.
Objects(lc, T) ==
  {p \in T \X Slot : ItemAt(lc, p) # Blank /\ ItemAt(lc, p).type # "FREE_LOG"}
MarkedIn(lc, vc, T) ==
  {p \in T \X Slot : /\ p[2] \in vc[p[1]].bitmap
                     /\ ItemAt(lc, p).type # "FREE_LOG"}

\* The items P are those of the objects objs, whose owners point at them.
Owned(lc, P, at, objs) ==
  /\ \A p \in P : ItemAt(lc, p).ptr \in objs /\ at[ItemAt(lc, p).ptr] = p
  /\ \A o \in objs : at[o] \in P /\ ItemAt(lc, at[o]).ptr = o

\* A bit is clear exactly when a free item frees the item.
FreesInOrder(lc, vc, T) ==
  /\ \A q \in T \X Slot :
       ItemAt(lc, q).type = "FREE_LOG" =>
         ItemAt(lc, q).ptr \in Objects(lc, T) \ MarkedIn(lc, vc, T)
  /\ \A p \in Objects(lc, T) \ MarkedIn(lc, vc, T) :
       \E q \in T \X Slot : ItemAt(lc, q) = FreeItem(p, lc[p[1]].id)

\* No chunk of a log is a free one, on the medium or in its descriptor.
Numbered(lc, vc, T) == \A c \in T : lc[c].id = vc[c].id /\ lc[c].id # 0

\* s is the chain from the root r over the chunks T to the tail t.
IsChain(lc, s, r, T, t) ==
  /\ s \in Seq(Addr) /\ s # <<>> /\ Distinct(s)
  /\ Elems(s) = T \cup {r}
  /\ s[1] = r /\ s[Len(s)] = t
  /\ \A i \in 1 .. (Len(s) - 1) : lc[s[i]].next = s[i + 1]
  /\ lc[t].next = Null

LogInOrder(lc, vc, v, r) ==
  /\ \E s \in Seq(Addr) : IsChain(lc, s, r, v.tree, v.tail)
  /\ FreesInOrder(lc, vc, v.tree)
  /\ Numbered(lc, vc, v.tree)
  /\ v.global_lchunk_id # 0
  /\ v.num_of_items = Cardinality(Objects(lc, v.tree))

\* Every slot is taken in its turn, whatever the collectors do, and slow_GC
\* looks at slots that are taken.
SlotsInOrder ==
  /\ \A c \in vlog.tree : ChunkInOrder(lchunk, vlchunk, c)
  /\ gc.phase = "slow_walk" =>
       /\ \A c \in new.tree : ChunkInOrder(lchunk, vlchunk, c)
       /\ gc.cursor \in vlog.tree => gc.bits \subseteq vlchunk[gc.cursor].bitmap

InForce == MarkedIn(lchunk, vlchunk, vlog.tree)

\* While one of the collectors never runs, the set bits are the objects.
OwnersInForce ==
  (passes.fast = 0 \/ passes.slow = 0) /\ gc.phase # "slow_walk" =>
    Owned(lchunk, InForce, logOf, live)

\* What slow_GC has still to copy when it is at the k-th chunk of the chain s.
Ahead(s, k) == {s[j] : j \in (k + 1) .. Len(s)}
ToCopy(s, k) ==
  {p \in InForce : \/ p[1] = gc.cursor /\ p[2] \in gc.bits
                   \/ p[1] \in Ahead(s, k)}

\* The owners of the items not yet copied still point at the old log, those of
\* the others at the new one.
WalkInOrder ==
  \E s \in Seq(Addr) : \E k \in 2 .. (Len(s) + 1) :
    /\ IsChain(lchunk, s, Root(vlog.log), vlog.tree, vlog.tail)
    /\ gc.cursor = (IF k > Len(s) THEN Null ELSE s[k])
    /\ Owned(lchunk, ToCopy(s, k) \cup MarkedIn(lchunk, vlchunk, new.tree),
             logOf, live)

\* Before the first fast_GC: the log in force is in order and records the live
\* objects, throughout a rewriting too, and so is the log slow_GC builds.
MediumInOrder ==
  passes.fast = 0 =>
    /\ status \in {"run", "log.c:52 log file is full"}
    /\ LogInOrder(lchunk, vlchunk, vlog, Root(vlog.log))
    /\ {ItemAt(lchunk, p).ptr : p \in InForce} = live
    /\ gc.phase = "slow_walk" =>
         /\ LogInOrder(lchunk, vlchunk, new, Root(new.log))
         /\ WalkInOrder

\* A collection in course is one of those counted.
PassesCounted ==
  /\ gc.phase \in {"slow_begin", "slow_walk", "slow_destroy"} => passes.slow # 0
  /\ gc.phase \in {"fast_scan", "fast_free"} => passes.fast # 0

DurableInv == SlotsInOrder /\ PassesCounted /\ OwnersInForce /\ MediumInOrder

----------------------------------------------------------------------------
(* What the source says of the log, and its steps do not keep. *)

(* log.c:205, assert(vlchunk): a free finds the chunk that holds the item of
   the object it frees. *)
ChunkOfFreedItemFound == status # "log.c:205 chunk of the freed item not found"
=============================================================================
