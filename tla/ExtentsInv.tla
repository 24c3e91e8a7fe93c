----------------------------- MODULE ExtentsInv -----------------------------
(***************************************************************************)
(* The inductive invariant of Extents: what a thread's place in the code   *)
(* says of its locals and of the extents it has, who has each page and     *)
(* each extent, and what the tree and the pools have of them.              *)
(***************************************************************************)
EXTENDS Extents

Kinds == {"dirty", "muzzy"}

Locals ==
  [op : {"none", "malloc", "slab", "free", "unslab"}, c : 0 .. SLAB_SCIND, n : 0 .. CHUNK,
   slab : BOOLEAN, obj : Page \cup {NoPage}, x : Page \cup {NoPage},
   y : Page \cup {NoPage}, p : Kinds, side : {"next", "prev"}, again : BOOLEAN,
   evicting : BOOLEAN, d : Kinds, limit : Nat, left : Int, stash : Seq(Page)]

----------------------------------------------------------------------------
(* Where a thread is, and its locals. *)

\* The steps of a purge, and those of giving an extent back.
Giving == {"record", "look", "check", "merge", "relock", "settle"}
Purging == {"evict", "stashed", "punch"} \cup Giving

\* What a call asks for.
Request(l) ==
  /\ l.op = "malloc" => l.c \in Requests /\ l.n = psz[l.c] /\ ~l.slab
  /\ l.op = "slab" => l.c = SLAB_SCIND /\ l.n = SLAB /\ l.slab
  /\ l.op \in {"none", "free", "unslab"} => ~l.slab

\* The calls that come to a step.
CallsAt(p) ==
  CASE p = "idle" -> {"none"}
    [] p \in {"filled", "pop"} -> {"malloc"}
    [] p = "logcached" -> {"free"}
    [] p = "interior" -> {"slab"}
    [] p \in {"recycle", "split", "trail", "new", "retired", "map", "insert", "register",
              "log"} -> {"malloc", "slab"}
    [] p = "logfree" -> {"free", "unslab"}
    [] OTHER -> {"malloc", "free", "unslab"}

Control(p, l, chunks, caches) ==
  /\ l.op \in CallsAt(p)
  /\ Request(l)
  /\ p \notin Purging => l.stash = <<>>
  /\ l.evicting => p \in Giving \ {"record"} /\ l.p = "dirty" /\ l.d = "dirty"
  /\ p \in Giving /\ l.p = "dirty" /\ ~l.evicting => l.stash = <<>>
  /\ p = "evict" => l.p = l.d
  /\ p = "punch" => l.p = "muzzy"
  /\ p \in {"split", "trail", "interior", "register", "punch"} \cup Giving => l.x \in Page
  /\ p \in {"trail", "retired", "check", "merge"} => l.y \in Page
  /\ p \in {"interior", "logcached", "log", "logfree"} => l.obj \in Page
  /\ p \in {"ticks", "ticks2", "filled"} \cup Purging => l.obj \in Page
  /\ p = "interior" => l.obj = l.x
  /\ p = "insert" => l.y \in chunks
  /\ p = "pop" => caches[l.c] # <<>>

\* While the lock of the arena is held, its chunk is retired.
NewMemory ==
  /\ fresh.n # 0 => fresh.mem \in Page /\ fresh.mem + fresh.n <= NPages
  /\ \A t \in Thread : pc[t] \in {"retired", "map", "insert"} => lock["arena"] = t /\ fresh.n = 0

----------------------------------------------------------------------------
(* Pages and extents. *)

\* Something has it if cond, and nothing else has.
One(S, cond) == (S # {} <=> cond) /\ \A o, q \in S : o = q

Tiled ==
  /\ \A a \in Live : ext[a].size # 0 /\ a + ext[a].size <= NPages
  /\ \A t \in Thread : pc[t] = "register" => loc[t].x + loc[t].n <= NPages
  /\ \A q \in Page : One(Tiles(q), FileOf(q) \in mapped)

\* The pages from which the tree leads to an extent.
Marks(e, a) == IF e[a].slab THEN Span(a, e[a].size) ELSE Ends(a, e[a].size)

TreeInOrder ==
  /\ \A a, q \in Page : tree[q].e = a <=> a \in Live /\ q \in Marks(ext, a)
  /\ \A q \in Page : tree[q].e = NoPage => tree[q] = Nil

Owned == \A a \in Page : One(Owners(a), ext[a].state = "active")

\* A pool P has the extents S, with the descriptors e.
Lists(P, S, e) ==
  /\ Elems(P.lru) = S
  /\ NoDup(P.lru)
  /\ P.bitmap = {get_psizeclass_floor(e[a].size) : a \in S}
  /\ P.npages = Cardinality(UNION {Span(a, e[a].size) : a \in S})

InPool(p) == {a \in Page : ext[a].state = p}
PoolsInOrder == \A p \in Kinds : Lists(pool[p], InPool(p), ext)

----------------------------------------------------------------------------
(* The extents in use. *)

\* An object of the class c, as nvalloc_free_from and the cache take it.
Object(a, c) ==
  /\ tree[a] = [e |-> a, szind |-> c, slab |-> FALSE]
  /\ ext[a].szind = c /\ ~ext[a].slab /\ ext[a].size = psz[c]

\* What a thread knows of the extents it has.
Hands(t) ==
  LET l == loc[t]
      p == pc[t]
  IN /\ p = "split" => ~ext[l.x].slab /\ ext[l.x].size >= l.n
     /\ p = "trail" => /\ l.y = l.x + l.n /\ ext[l.x].size = l.n
                       /\ ~ext[l.x].slab /\ ~ext[l.y].slab
                       /\ l.op = "malloc" => Object(l.x, l.c)
     /\ p = "interior" => ~ext[l.x].slab /\ ext[l.x].size = SLAB
     /\ p = "retired" => ~ext[l.y].slab
     /\ p \in (Giving \ {"record"}) \cup {"punch"} => ~ext[l.x].slab
     /\ p = "merge" => /\ ~ext[l.y].slab
                       /\ IF l.side = "next" THEN l.y = l.x + ext[l.x].size
                                             ELSE l.x = l.y + ext[l.y].size
     /\ \A i \in 1 .. Len(l.stash) : ~ext[l.stash[i]].slab
     /\ p \in {"ticks", "ticks2", "filled"} \cup Purging /\ l.op = "malloc" => Object(l.obj, l.c)
     /\ p = "logcached" => l.c \in Requests /\ Object(l.obj, l.c)

Objects ==
  /\ \A a \in held : ext[a].szind \in Requests /\ Object(a, ext[a].szind)
  /\ \A t \in Thread, c \in Requests : \A i \in 1 .. Len(cache[t][c]) : Object(cache[t][c][i], c)
  /\ \A a \in Page : ext[a].state \in Kinds => ~ext[a].slab

IndInv ==
  /\ TypeOK /\ pc \in [Thread -> PCs] /\ loc \in [Thread -> Locals] /\ IsFiniteSet(log)
  /\ \A t \in Thread : Control(pc[t], loc[t], mapped, cache[t])
  /\ NewMemory
  /\ Tiled /\ TreeInOrder /\ Owned /\ PoolsInOrder
  /\ \A t \in Thread : Hands(t)
  /\ Objects

\* The assertions of the tree and of the public free hold.
AssertionsHold == status \notin {"rtree.h:420", "extent.c:1211", "nvalloc.c:171"}
=============================================================================
