------------------------------ MODULE SlabInv ------------------------------
(***************************************************************************)
(* The invariants by which the properties of Slab are proved: what a       *)
(* thread's place in the code says of its locals, of the locks it holds    *)
(* and of the slab it works on.                                            *)
(***************************************************************************)
EXTENDS Slab

----------------------------------------------------------------------------
(* Types. *)

Layouts == {l \in [c : Classes, roffset : Nat \ {0}, nbits : Int] : l.nbits < SLAB_SIZE}
Blocks == [v : SlabId, c : Classes, off : Int]
Entries == [blk : Blocks, id : Int, dmeta : Nat]

Slabs == [state : {"none", "live", "gone"}, sc : Layouts, sc_b : Layouts \cup {NoLayout},
          bits : SUBSET (0 .. SLAB_SIZE - 1), nbits : Nat, num_b : Nat,
          dnum : [Ids -> Int], alloced : SUBSET Int, dmeta : Nat, dfreed : SUBSET Nat,
          meta : SUBSET Int, table : SUBSET Int, freed : SUBSET Int, timestamp : Nat]
Bins == [list : Seq(SlabId), now : SlabId \cup {Null}]
Lists == [list : Seq(SlabId), len : Nat, morphing : Nat]
Locks == [bin : [Classes -> Threads \cup {NoThread}],
          slab : [SlabId -> Threads \cup {NoThread}], lru : Threads \cup {NoThread}]
Caches == [avail : [Way -> Seq(Entries)], is_sb : [Way -> [Position -> BOOLEAN]],
           bm : SUBSET Way, now : Way]

\* The steps of a fill, with the search and the morph it may make, and of a free.
FillSteps == {"malloc", "visit", "pop", "filled", "touch", "stamp", "getone", "search",
              "scan", "candidate", "create", "insert", "morph", "reclass", "reinit",
              "unlock", "move", "rebuild"}
FreeSteps == {"free", "old", "oldlru", "oldbin", "release", "back", "backbin",
              "backcheck", "backlru", "dalloc"}
PCs == {"idle", "recount"} \cup FillSteps \cup FreeSteps

Locals == [c : Classes \cup {0}, v : SlabId \cup {Null}, stamp : Nat, low : Nat,
           delta : Int, next : PCs, blk : Blocks \cup {NoBlock},
           sc : Layouts \cup {NoLayout}, sc_b : Layouts \cup {NoLayout}]

\* The step p of a thread with the locals l, or the one a recount goes on to.
Going(p, l) == IF p = "recount" THEN l.next ELSE p
Where(t) == Going(pc[t], loc[t])

\* What the step of a thread says of its locals.
Control(t, p, l) ==
  /\ p = "recount" => /\ l.v \in SlabId
                      /\ l.next \in {"pop", "touch", "filled", "insert", "rebuild", "idle",
                                     "backbin", "dalloc"}
  /\ Going(p, l) \in FillSteps => t \in Home /\ l.c \in Classes
  /\ Going(p, l) \in FreeSteps => l.sc \in Layouts
  /\ Going(p, l) \in FreeSteps \cup {"visit", "pop", "touch", "stamp", "filled", "candidate",
                                    "insert", "morph", "reclass", "reinit", "unlock",
                                    "move", "rebuild"}
       => l.v \in SlabId
  /\ p = "free" => l.blk \in Blocks

TypeOK ==
  /\ vslab \in [SlabId -> Slabs]
  /\ made \in 0 .. MaxSlabs
  /\ bin \in [Classes -> Bins]
  /\ lru \in Lists
  /\ timestamp \in Nat
  /\ lock \in Locks
  /\ cache \in [Home -> [Classes -> Caches]]
  /\ held \in SUBSET Blocks
  /\ pc \in [Threads -> PCs]
  /\ loc \in [Threads -> Locals]
  /\ \A t \in Threads : Control(t, pc[t], loc[t])

----------------------------------------------------------------------------
(* The ways. *)

\* A way of the cache ch has room for a block.
HasRoom(ch) == \A w \in Way : Len(ch.avail[w]) < NUM_MAX_CACHE
Exact(ch) == /\ ch.bm = {w \in Way : ch.avail[w] # <<>>}
             /\ \A w \in Way : Len(ch.avail[w]) <= NUM_MAX_CACHE

Ways == \A t \in Home, c \in Classes : Exact(cache[t][c])

\* A thread fills a cache from empty until a way is full, and in between no
\* other thread has the cache: until then every way has room.
Room == \A t \in Home : Where(t) \in FillSteps \ {"malloc", "filled"}
                          => HasRoom(cache[t][loc[t].c])

WaysInv == Running => TypeOK /\ Ways /\ Room

----------------------------------------------------------------------------
(* The locks. *)

\* Where a thread has LRU_lock, from the search of the list to the end of a morph.
Searching == {"scan", "candidate", "morph", "reclass", "reinit", "unlock", "move", "rebuild"}

\* Who has a lock, and where in the code.
Holders ==
  /\ \A c \in Classes, t \in Threads :
       lock.bin[c] = t <=> Where(t) \in FillSteps \ {"malloc"} /\ loc[t].c = c
  /\ \A v \in SlabId, t \in Threads :
       lock.slab[v] = t =>
         /\ loc[t].v = v
         /\ \/ Where(t) \in {"pop", "touch", "stamp", "filled", "morph", "reclass",
                             "reinit", "move", "rebuild"}
            \/ pc[t] = "recount" /\ loc[t].next \in {"idle", "backbin"}
  /\ \A t \in Threads :
       /\ Where(t) \in Searching => lock.lru = t
       /\ lock.lru = t => \/ Where(t) \in Searching
                          \/ pc[t] = "recount" /\ loc[t].next \in {"insert", "idle", "dalloc"}

\* The slab that is morphed is of another class than the one being filled: its
\* class changes only under LRU_lock, which the search has from before it looks.
OtherClass ==
  \A t \in Threads :
    /\ Where(t) \in {"candidate", "morph", "reclass"} => vslab[loc[t].v].sc.c # loc[t].c
    /\ Where(t) = "move" => /\ vslab[loc[t].v].sc_b \in Layouts
                            /\ vslab[loc[t].v].sc_b.c # loc[t].c

LocksInv == Running => TypeOK /\ Holders /\ OtherClass

----------------------------------------------------------------------------
(* One class, and flags that read as FALSE before they are written: the
   assumption on the constants under which the invariants below are proved. *)

SingleClass == /\ \A c, d \in Classes : c = d
               /\ \A f \in Garbage, w \in Way, i \in Position : ~f[w][i]

TheClass == CHOOSE c \in Classes : TRUE
TheLayout == get_sizeclass_by_idx(TheClass)

\* No slab is morphed, and no flag is set.
NoMorph ==
  /\ \A v \in SlabId : /\ vslab[v].sc = TheLayout
                       /\ vslab[v].sc_b = NoLayout
                       /\ vslab[v].num_b = 0
  /\ \A t \in Threads :
       /\ Where(t) \notin {"candidate", "morph", "reclass", "reinit", "unlock", "move",
                           "rebuild", "old", "oldlru", "oldbin", "release"}
       /\ Where(t) \in FreeSteps => loc[t].sc = TheLayout
  /\ \A t \in Home, c \in Classes, w \in Way, i \in Position : ~cache[t][c].is_sb[w][i]

\* Every place has a block of its slab, and no other place has the same.
OwnBlocks ==
  /\ \A o \in Owned : \E i \in 0 .. TheLayout.nbits - 1 : o[1] = BlockAt(o[1].v, TheLayout, i)
  /\ \A o, p \in Owned : o[1] = p[1] => o = p

EntryIds ==
  \A t \in Home, c \in Classes, w \in Way : \A i \in 1 .. Len(cache[t][c].avail[w]) :
    LET e == cache[t][c].avail[w][i] IN e.blk = BlockAt(e.blk.v, TheLayout, e.id)

\* A thread that gives a block back has it until its bit is cleared.
Giving ==
  \A t \in Threads :
    IF pc[t] \in {"free", "back"} THEN loc[t].blk # NoBlock /\ loc[t].blk.v = loc[t].v
                                  ELSE loc[t].blk = NoBlock

\* The bits of a slab are those of its blocks that are out.
BitsExact ==
  \A v \in SlabId :
    /\ \A i \in Ids : i \in vslab[v].bits <=> \E o \in Owned : o[1] = BlockAt(v, TheLayout, i)
    /\ vslab[v].nbits = Cardinality(vslab[v].bits)

\* A slab that is filled from was made, and one that was not made is empty.
MadeFirst ==
  /\ \A v \in SlabId : /\ v > made <=> vslab[v].state = "none"
                       /\ vslab[v].state = "none" => vslab[v].bits = {}
  /\ \A t \in Threads :
       Where(t) \in {"pop", "touch", "stamp", "filled", "insert"}
         => vslab[loc[t].v].state # "none"

BlocksInv ==
  Running =>
    TypeOK /\ NoMorph /\ OwnBlocks /\ EntryIds /\ Giving /\ BitsExact /\ MadeFirst

----------------------------------------------------------------------------
(* The release of a slab, one thread freeing. *)

\* A block the program has is set on the medium.
HeldSet == \A b \in held : IndexIn(TheLayout, b.off) \in vslab[b.v].meta

\* The threads that work on the slab v with the lock of the bin.
FillsFrom(v) == {t \in Threads : /\ Where(t) \in {"pop", "touch", "stamp", "filled", "insert"}
                                 /\ loc[t].v = v}

\* The slab v is empty, and nobody finds it.
Apart(v) == /\ vslab[v].bits = {}
            /\ FillsFrom(v) = {}
            /\ \A c \in Classes : v \notin Elems(bin[c].list)

\* One thread frees at a time, from a slab that was made.
FreesAlone ==
  /\ \A t, u \in Threads : Where(t) \in FreeSteps /\ Where(u) \in FreeSteps => t = u
  /\ \A t \in Threads : Where(t) \in FreeSteps =>
       t \in Freeing /\ vslab[loc[t].v].state # "none"

\* A list has a slab once, and only slabs that were made; one that goes into a
\* list is in none.
ListedOnce ==
  /\ \A c \in Classes :
       /\ \A i, j \in 1 .. Len(bin[c].list) : bin[c].list[i] = bin[c].list[j] => i = j
       /\ \A v \in Elems(bin[c].list) : vslab[v].state # "none"
  /\ \A t \in Threads : Where(t) = "insert" =>
       \A c \in Classes : loc[t].v \notin Elems(bin[c].list)

\* From where it leaves the bin on, the slab is apart.
EmptyApart ==
  /\ \A t \in Threads :
       /\ pc[t] = "backcheck" /\ vslab[loc[t].v].nbits = 0 => Apart(loc[t].v)
       /\ Where(t) \in {"backlru", "dalloc"} => Apart(loc[t].v)
  /\ \A v \in SlabId : vslab[v].state = "gone" => Apart(v)

Leaving == FreesAlone /\ ListedOnce /\ EmptyApart

ReleaseInv == Running => TypeOK /\ HeldSet /\ Leaving
=============================================================================
