--------------------------- MODULE ExtentsProofs ----------------------------
(*************************************************************************)
(* The extents of an arena, for any threads in any interleaving, any     *)
(* classes and any chunks the largest class covers: no page and no       *)
(* extent ever has two owners or none, the tree leads to the extents and *)
(* from nowhere else, the pools list what they should, and a free finds  *)
(* the object it was given. IndInv is inductive: ExtentsSteps has its    *)
(* shared part, and here is what each thread needs, at each place in the *)
(* code, of its locals and of the extents it has.                        *)
(*************************************************************************)
EXTENDS ExtentsSteps

----------------------------------------------------------------------------
(* Where a thread is after a step, and its locals. *)

\* A thread is somewhere in the code, with what it needs there.
Placed(t) ==
  pc[t] \in PCs /\ loc[t] \in Locals /\ Control(pc[t], loc[t], mapped, cache[t])

LEMMA PlacedNow ==
  ASSUME IndInv, NEW t \in Thread
  PROVE  /\ Placed(t) /\ pc \in [Thread -> PCs] /\ loc \in [Thread -> Locals]
         /\ cache \in [Thread -> [Requests -> Seq(Page)]]
         /\ \A c \in Requests : cache[t][c] \in Seq(Page)
BY Parts, TypesOf DEF Placed

LEMMA IdleLocals == NoLocals \in Locals
<1>1. 0 \in 0 .. SLAB_SCIND /\ 0 \in 0 .. CHUNK
  BY Sizes
<1>2. <<>> \in Seq(Page)
  OBVIOUS
<1> QED
  BY <1>1, <1>2 DEF NoLocals, Locals, Kinds

LEMMA DonePlaced ==
  ASSUME IndInv, NEW t \in Thread, Done(t)
  PROVE  Placed(t)'
<1>1. pc'[t] = "idle" /\ loc'[t] = NoLocals
  BY PlacedNow DEF Done, Goto
<1>2. "idle" \in PCs
  BY DEF PCs
<1>3. Control("idle", NoLocals, mapped', cache'[t])
  BY DEF Control, CallsAt, Request, NoLocals, Giving, Purging
<1> QED
  BY <1>1, <1>2, <1>3, IdleLocals DEF Placed

LEMMA StopPlaced ==
  ASSUME IndInv, NEW t \in Thread, UNCHANGED <<pc, loc, mapped, cache>>
  PROVE  Placed(t)'
BY PlacedNow DEF Placed

\* The steps of a call that takes an extent.
Taking == {"recycle", "split", "trail", "new", "retired", "map", "insert", "register"}

LEMMA TakingAt ==
  ASSUME NEW l \in Locals, NEW p \in Taking, NEW M, NEW C, Control(p, l, M, C)
  PROVE  /\ l.op \in {"malloc", "slab"} /\ Request(l) /\ l.stash = <<>> /\ ~l.evicting
         /\ p \in {"split", "trail", "register"} => l.x \in Page
         /\ p \in {"trail", "retired"} => l.y \in Page
         /\ p = "insert" => l.y \in M
BY DEF Control, CallsAt, Taking, Purging, Giving, Locals

LEMMA TakingTo ==
  ASSUME NEW l \in Locals, l.op \in {"malloc", "slab"}, Request(l), l.stash = <<>>, ~l.evicting,
         NEW m \in Locals,
         m.op = l.op, m.c = l.c, m.n = l.n, m.slab = l.slab, m.stash = l.stash,
         m.evicting = l.evicting,
         NEW q, NEW M, NEW C,
         \/ q \in {"recycle", "new", "map"}
         \/ q \in {"split", "register"} /\ m.x \in Page
         \/ q = "trail" /\ m.x \in Page /\ m.y \in Page
         \/ q = "retired" /\ m.y \in Page
         \/ q = "insert" /\ m.y \in M
  PROVE  Control(q, m, M, C) /\ q \in PCs
BY DEF Control, CallsAt, Taking, Purging, Giving, Locals, Request, PCs

\* Where a thread goes with its extent.
LEMMA TakenTo ==
  ASSUME NEW l \in Locals, l.op \in {"malloc", "slab"}, Request(l), l.stash = <<>>, ~l.evicting,
         NEW m \in Locals,
         m.op = l.op, m.c = l.c, m.n = l.n, m.slab = l.slab, m.stash = l.stash,
         m.evicting = l.evicting, m.obj \in Page,
         NEW q, NEW M, NEW C,
         \/ l.slab /\ q = "interior" /\ m.x \in Page /\ m.obj = m.x
         \/ l.slab /\ q = "log"
         \/ ~l.slab /\ q = "ticks"
  PROVE  Control(q, m, M, C) /\ q \in PCs
<1>1. l.slab => l.op = "slab"
  BY DEF Request, Locals
<1>2. ~l.slab => l.op = "malloc"
  BY DEF Request, Locals
<1>3. Request(m)
  BY DEF Request
<1>4. m.op \in CallsAt(q)
  BY <1>1, <1>2 DEF CallsAt
<1>5. q \in PCs
  BY DEF PCs
<1> QED
  BY <1>3, <1>4, <1>5 DEF Control, Purging, Giving, Locals

LEMMA NewPlaced ==
  ASSUME IndInv, NEW t \in Thread,
         Carve(t) \/ MapFile(t) \/ InsertFile(t) \/ Retire(t) \/ Retired(t) \/ Recycle(t)
  PROVE  Placed(t)'
<1>1. PICK l \in Locals : l = loc[t] /\ Control(pc[t], l, mapped, cache[t])
  BY PlacedNow DEF Placed
<1>2. pc \in [Thread -> PCs] /\ loc \in [Thread -> Locals]
  BY PlacedNow
<1>3. /\ NewMemory /\ mapped \subseteq Chunk
      /\ fresh \in [mem : {NoPage} \cup 0 .. NPages, n : 0 .. CHUNK]
  BY Parts, TypesOf
<1>4. /\ pc[t] \in {"new", "map", "insert", "retired", "recycle"}
      /\ l.op \in {"malloc", "slab"} /\ Request(l) /\ l.stash = <<>> /\ ~l.evicting
  <2>1. pc[t] \in {"new", "map", "insert", "retired", "recycle"}
    BY DEF Carve, MapFile, InsertFile, Retire, Retired, Recycle, At
  <2> QED
    BY <1>1, <2>1, TakingAt DEF Taking
<1>5. CASE Carve(t)
  <2>1. /\ pc'[t] = "register" /\ l.n <= fresh.n /\ loc'[t] = [l EXCEPT !.x = fresh.mem]
    BY <1>1, <1>2, <1>5 DEF Carve, Goto
  <2>2. fresh.mem \in Page
    <3>1. l.n \in 1 .. CHUNK
      BY <1>4, Asked
    <3>2. fresh.n # 0
      BY <1>3, <2>1, <3>1, Sizes
    <3> QED
      BY <1>3, <3>2 DEF NewMemory
  <2>3. PICK m \in Locals :
          /\ m = loc'[t] /\ m.op = l.op /\ m.c = l.c /\ m.n = l.n /\ m.slab = l.slab
          /\ m.x = fresh.mem /\ m.evicting = l.evicting /\ m.stash = l.stash
    BY <2>1, <2>2 DEF Locals
  <2>4. Control(pc'[t], m, mapped', cache'[t]) /\ pc'[t] \in PCs
    BY <1>4, <2>1, <2>2, <2>3, TakingTo
  <2> QED
    BY <1>4, <2>1, <2>2, <2>3, <2>4 DEF Placed
<1>6. CASE MapFile(t)
  <2>1. PICK k \in Chunk :
          mapped' = mapped \cup {k} /\ pc'[t] = "insert" /\ loc'[t] = [l EXCEPT !.y = k]
    BY <1>1, <1>2, <1>6 DEF MapFile, Goto
  <2>2. k \in Page /\ k \in mapped'
    BY <2>1, Chunks
  <2>3. PICK m \in Locals :
          /\ m = loc'[t] /\ m.op = l.op /\ m.c = l.c /\ m.n = l.n /\ m.slab = l.slab
          /\ m.y = k /\ m.evicting = l.evicting /\ m.stash = l.stash
    BY <2>1, <2>2 DEF Locals
  <2>4. Control(pc'[t], m, mapped', cache'[t]) /\ pc'[t] \in PCs
    BY <1>4, <2>1, <2>2, <2>3, TakingTo
  <2> QED
    BY <1>4, <2>1, <2>2, <2>3, <2>4 DEF Placed
<1>7. CASE InsertFile(t)
  <2>1. /\ pc[t] = "insert" /\ pc'[t] = "register"
        /\ loc'[t] = [l EXCEPT !.x = Base(l.y), !.y = NoPage]
    BY <1>1, <1>2, <1>7 DEF InsertFile, Goto, At
  <2>2. Base(l.y) \in Page
    BY <1>1, <1>3, <2>1, TakingAt, Chunks DEF Taking
  <2>3. PICK m \in Locals :
          /\ m = loc'[t] /\ m.op = l.op /\ m.c = l.c /\ m.n = l.n /\ m.slab = l.slab
          /\ m.x = Base(l.y) /\ m.evicting = l.evicting /\ m.stash = l.stash
    BY <2>1, <2>2 DEF Locals
  <2>4. Control(pc'[t], m, mapped', cache'[t]) /\ pc'[t] \in PCs
    BY <1>4, <2>1, <2>2, <2>3, TakingTo
  <2> QED
    BY <1>4, <2>1, <2>2, <2>3, <2>4 DEF Placed
<1>8. CASE Retire(t)
  <2>1. CASE Forgot(t)
    <3>1. pc'[t] = "map" /\ loc'[t] = l
      BY <1>1, <2>1 DEF Forgot
    <3>2. Control(pc'[t], l, mapped', cache'[t]) /\ pc'[t] \in PCs
      BY <1>4, <3>1, TakingTo
    <3> QED
      BY <1>4, <3>1, <3>2 DEF Placed
  <2>2. ASSUME NEW a \in Page, NEW n \in Nat, Kept(t, a, n) PROVE Placed(t)'
    <3>1. pc'[t] = "retired" /\ loc'[t] = [l EXCEPT !.y = a]
      BY <1>1, <2>2 DEF Kept
    <3>2. PICK m \in Locals :
            /\ m = loc'[t] /\ m.op = l.op /\ m.c = l.c /\ m.n = l.n /\ m.slab = l.slab
            /\ m.y = a /\ m.evicting = l.evicting /\ m.stash = l.stash
      BY <3>1 DEF Locals
    <3>3. Control(pc'[t], m, mapped', cache'[t]) /\ pc'[t] \in PCs
      BY <1>4, <3>1, <3>2, TakingTo
    <3> QED
      BY <1>4, <3>1, <3>2, <3>3 DEF Placed
  <2> QED
    BY <1>8, <2>1, <2>2, RetireDoes
<1>9. CASE Retired(t)
  <2>1. pc'[t] = "map" /\ loc'[t] = [l EXCEPT !.y = NoPage]
    BY <1>1, <1>2, <1>9 DEF Retired, Goto
  <2>2. PICK m \in Locals :
          /\ m = loc'[t] /\ m.op = l.op /\ m.c = l.c /\ m.n = l.n /\ m.slab = l.slab
          /\ m.evicting = l.evicting /\ m.stash = l.stash
    BY <2>1 DEF Locals
  <2>3. Control(pc'[t], m, mapped', cache'[t]) /\ pc'[t] \in PCs
    BY <1>4, <2>1, <2>2, TakingTo
  <2> QED
    BY <1>4, <2>1, <2>2, <2>3 DEF Placed
<1>10. CASE Recycle(t)
  <2>1. CASE Fit(l.p, l.n) # NoPage
    <3>1. PICK a : a = Fit(l.p, l.n)
      OBVIOUS
    <3>2. pc'[t] = "split" /\ loc'[t] = [l EXCEPT !.x = a]
      BY <1>1, <1>2, <1>10, <2>1, <3>1 DEF Recycle, Goto
    <3>3. a \in Page
      <4>1. l.p \in Kinds /\ l.n \in 1 .. NPages
        <5>1. l.n \in 1 .. CHUNK /\ l.n <= NPages
          BY <1>4, Asked
        <5> QED
          BY <5>1, Sizes DEF Locals
      <4>2. a \in InPool(l.p)
        BY <2>1, <3>1, <4>1, FitGives, Parts
      <4> QED
        BY <4>2 DEF InPool
    <3>4. PICK m \in Locals :
            /\ m = loc'[t] /\ m.op = l.op /\ m.c = l.c /\ m.n = l.n /\ m.slab = l.slab
            /\ m.x = a /\ m.evicting = l.evicting /\ m.stash = l.stash
      BY <3>2, <3>3 DEF Locals
    <3>5. Control(pc'[t], m, mapped', cache'[t]) /\ pc'[t] \in PCs
      BY <1>4, <3>2, <3>3, <3>4, TakingTo
    <3> QED
      BY <1>4, <3>2, <3>3, <3>4, <3>5 DEF Placed
  <2>2. CASE Fit(l.p, l.n) = NoPage
    <3>1. pc'[t] \in {"recycle", "new"} /\ loc'[t] = [l EXCEPT !.p = "muzzy"]
      BY <1>1, <1>2, <1>10, <2>2 DEF Recycle, Goto
    <3>2. PICK m \in Locals :
            /\ m = loc'[t] /\ m.op = l.op /\ m.c = l.c /\ m.n = l.n /\ m.slab = l.slab
            /\ m.evicting = l.evicting /\ m.stash = l.stash
      BY <3>1 DEF Locals, Kinds
    <3>3. Control(pc'[t], m, mapped', cache'[t]) /\ pc'[t] \in PCs
      BY <1>4, <3>1, <3>2, TakingTo
    <3> QED
      BY <1>4, <3>1, <3>2, <3>3 DEF Placed
  <2> QED
    BY <2>1, <2>2
<1> QED
  BY <1>5, <1>6, <1>7, <1>8, <1>9, <1>10

LEMMA TakenPlaced ==
  ASSUME IndInv, NEW t \in Thread, Split(t) \/ Trail(t) \/ Register(t)
  PROVE  Placed(t)'
<1>1. PICK l \in Locals : l = loc[t] /\ Control(pc[t], l, mapped, cache[t])
  BY PlacedNow DEF Placed
<1>2. pc \in [Thread -> PCs] /\ loc \in [Thread -> Locals]
  BY PlacedNow
<1>3. /\ pc[t] \in {"split", "trail", "register"}
      /\ l.op \in {"malloc", "slab"} /\ Request(l) /\ l.stash = <<>> /\ ~l.evicting
      /\ l.x \in Page
  <2>1. pc[t] \in {"split", "trail", "register"}
    BY DEF Split, Trail, Register, At
  <2> QED
    BY <1>1, <2>1, TakingAt DEF Taking
<1>4. ASSUME NEW a \in Page, NEW b \in Page, Cut(t, a, b) PROVE Placed(t)'
  <2>1. pc'[t] = "trail" /\ loc'[t] = [l EXCEPT !.y = b]
    BY <1>1, <1>4 DEF Cut
  <2>2. PICK m \in Locals :
          /\ m = loc'[t] /\ m.op = l.op /\ m.c = l.c /\ m.n = l.n /\ m.slab = l.slab
          /\ m.x = l.x /\ m.y = b /\ m.evicting = l.evicting /\ m.stash = l.stash
    BY <2>1 DEF Locals
  <2>3. Control(pc'[t], m, mapped', cache'[t]) /\ pc'[t] \in PCs
    BY <1>3, <2>1, <2>2, TakingTo
  <2> QED
    BY <1>3, <2>1, <2>2, <2>3 DEF Placed
<1>5. ASSUME NEW a \in Page, Whole(t, a) PROVE Placed(t)'
  <2>1. /\ pc'[t] = (IF l.slab THEN "interior" ELSE "ticks") /\ a = l.x
        /\ loc'[t] = [l EXCEPT !.obj = a]
    BY <1>1, <1>5 DEF Whole
  <2>2. PICK m \in Locals :
          /\ m = loc'[t] /\ m.op = l.op /\ m.c = l.c /\ m.n = l.n /\ m.slab = l.slab
          /\ m.x = l.x /\ m.obj = a /\ m.evicting = l.evicting /\ m.stash = l.stash
    BY <2>1 DEF Locals
  <2>3. Control(pc'[t], m, mapped', cache'[t]) /\ pc'[t] \in PCs
    BY <1>3, <2>1, <2>2, TakenTo
  <2> QED
    BY <2>2, <2>3 DEF Placed
<1>6. ASSUME NEW a \in Page, NEW n \in Nat, Registered(t, a, n) PROVE Placed(t)'
  <2>1. /\ pc'[t] = (IF l.slab THEN "log" ELSE "ticks") /\ a = l.x
        /\ loc'[t] = [l EXCEPT !.obj = a]
    BY <1>1, <1>6 DEF Registered
  <2>2. PICK m \in Locals :
          /\ m = loc'[t] /\ m.op = l.op /\ m.c = l.c /\ m.n = l.n /\ m.slab = l.slab
          /\ m.x = l.x /\ m.obj = a /\ m.evicting = l.evicting /\ m.stash = l.stash
    BY <2>1 DEF Locals
  <2>3. Control(pc'[t], m, mapped', cache'[t]) /\ pc'[t] \in PCs
    BY <1>3, <2>1, <2>2, TakenTo
  <2> QED
    BY <2>2, <2>3 DEF Placed
<1>7. CASE Trail(t)
  <2>1. /\ pc'[t] = (IF l.slab THEN "interior" ELSE "ticks")
        /\ loc'[t] = [l EXCEPT !.obj = l.x, !.y = NoPage]
    BY <1>1, <1>2, <1>7 DEF Trail, Taken, Goto
  <2>2. PICK m \in Locals :
          /\ m = loc'[t] /\ m.op = l.op /\ m.c = l.c /\ m.n = l.n /\ m.slab = l.slab
          /\ m.x = l.x /\ m.obj = l.x /\ m.evicting = l.evicting /\ m.stash = l.stash
    BY <1>3, <2>1 DEF Locals
  <2>3. Control(pc'[t], m, mapped', cache'[t]) /\ pc'[t] \in PCs
    BY <1>3, <2>1, <2>2, TakenTo
  <2> QED
    BY <2>2, <2>3 DEF Placed
<1> QED
  BY <1>4, <1>5, <1>6, <1>7, SplitDoes, RegisterDoes

LEMMA InteriorPlaced ==
  ASSUME IndInv, NEW t \in Thread, Interior(t)
  PROVE  Placed(t)'
<1>1. PICK l \in Locals : l = loc[t] /\ Control(pc[t], l, mapped, cache[t])
  BY PlacedNow DEF Placed
<1>2. pc[t] = "interior" /\ pc'[t] = "log" /\ loc'[t] = l /\ l.slab /\ l.obj \in Page
  <2>1. PICK a \in Page : Marked(t, a)
    BY InteriorDoes
  <2> QED
    BY <1>1, <2>1 DEF Marked
<1>3. l.op = "slab" /\ Request(l) /\ l.stash = <<>> /\ ~l.evicting
  BY <1>1, <1>2 DEF Control, CallsAt, Purging, Giving, Locals
<1>4. Control("log", l, mapped', cache'[t]) /\ "log" \in PCs
  BY <1>2, <1>3, TakenTo
<1> QED
  BY <1>2, <1>4 DEF Placed

\* The steps of a tick, from the object to its end.
Busy == {"ticks", "ticks2"} \cup Purging

LEMMA BusyAt ==
  ASSUME NEW l \in Locals, NEW p \in Busy, NEW M, NEW C, Control(p, l, M, C)
  PROVE  /\ l.op \in {"malloc", "free", "unslab"} /\ Request(l) /\ l.obj \in Page
         /\ p \in {"ticks", "ticks2"} => l.stash = <<>>
         /\ p \in {"ticks", "ticks2", "evict", "stashed", "punch", "record"} => ~l.evicting
         /\ l.evicting => l.p = "dirty" /\ l.d = "dirty"
         /\ p \in Giving /\ l.p = "dirty" /\ ~l.evicting => l.stash = <<>>
         /\ p = "evict" => l.p = l.d
         /\ p = "punch" => l.p = "muzzy"
         /\ p \in {"punch"} \cup Giving => l.x \in Page
         /\ p \in {"check", "merge"} => l.y \in Page
<1>1. l.op \in {"malloc", "free", "unslab"}
  BY DEF Control, CallsAt, Busy, Purging, Giving
<1> QED
  BY <1>1 DEF Control, Busy, Purging, Giving, Locals

LEMMA BusyTo ==
  ASSUME NEW l \in Locals, l.op \in {"malloc", "free", "unslab"}, Request(l),
         NEW m \in Locals,
         m.op = l.op, m.c = l.c, m.n = l.n, m.slab = l.slab, m.obj \in Page,
         NEW q, NEW M, NEW C,
         m.evicting => m.p = "dirty" /\ m.d = "dirty",
         \/ /\ q \in {"ticks", "ticks2"} /\ m.stash = <<>> /\ ~m.evicting
         \/ /\ q = (IF l.op = "malloc" THEN "filled" ELSE "logfree")
            /\ m.stash = <<>> /\ ~m.evicting
         \/ q = "evict" /\ m.p = m.d /\ ~m.evicting
         \/ q = "stashed" /\ ~m.evicting
         \/ q = "punch" /\ m.p = "muzzy" /\ m.x \in Page /\ ~m.evicting
         \/ /\ q = "record" /\ m.x \in Page /\ ~m.evicting
            /\ m.p = "dirty" => m.stash = <<>>
         \/ /\ q \in {"look", "relock", "settle"} /\ m.x \in Page
            /\ m.p = "dirty" /\ ~m.evicting => m.stash = <<>>
         \/ /\ q \in {"check", "merge"} /\ m.x \in Page /\ m.y \in Page
            /\ m.p = "dirty" /\ ~m.evicting => m.stash = <<>>
  PROVE  Control(q, m, M, C) /\ q \in PCs
<1>1. Request(m)
  BY DEF Request
<1>2. m.op \in CallsAt(q)
  BY DEF CallsAt
<1>3. q \in PCs
  BY DEF PCs
<1> QED
  BY <1>1, <1>2, <1>3 DEF Control, Purging, Giving, Locals

LEMMA PurgePlaced ==
  ASSUME IndInv, NEW t \in Thread,
         \/ NoDecay(t) \/ \E d \in Kinds, L \in Limits : Decay(t, d, L)
         \/ EvictNone(t) \/ EvictDirty(t) \/ Stashed(t) \/ Punch(t)
  PROVE  Placed(t)'
<1>1. PICK l \in Locals : l = loc[t] /\ Control(pc[t], l, mapped, cache[t])
  BY PlacedNow DEF Placed
<1>2. pc \in [Thread -> PCs] /\ loc \in [Thread -> Locals]
  BY PlacedNow
<1>3. pc[t] \in {"ticks", "ticks2", "evict", "stashed", "punch"}
  BY Zenon DEF NoDecay, Decay, EvictNone, EvictDirty, Stashed, Punch, MayEvict, At
<1>4. /\ l.op \in {"malloc", "free", "unslab"} /\ Request(l) /\ l.obj \in Page /\ ~l.evicting
      /\ pc[t] \in {"ticks", "ticks2"} => l.stash = <<>>
      /\ pc[t] = "evict" => l.p = l.d
      /\ pc[t] = "punch" => l.p = "muzzy" /\ l.x \in Page
  BY <1>1, <1>3, BusyAt DEF Busy, Purging
<1>5. CASE NoDecay(t)
  <2>1. /\ pc[t] \in {"ticks", "ticks2"} /\ loc'[t] = l
        /\ pc'[t] = IF l.op = "malloc" THEN "filled" ELSE "logfree"
    BY <1>1, <1>2, <1>5 DEF NoDecay, After, Goto
  <2>2. Control(pc'[t], l, mapped', cache'[t]) /\ pc'[t] \in PCs
    BY <1>4, <2>1, BusyTo
  <2> QED
    BY <2>1, <2>2 DEF Placed
<1>6. ASSUME NEW d \in Kinds, NEW L \in Limits, Decay(t, d, L) PROVE Placed(t)'
  <2>1. PICK i \in Int : i = pool[d].npages - L
    BY Parts, TypesOf, PolicyAssumption
  <2>2. /\ pc[t] \in {"ticks", "ticks2"} /\ pc'[t] = "evict"
        /\ loc'[t] = [l EXCEPT !.d = d, !.p = d, !.limit = L, !.left = i, !.stash = <<>>]
    BY Zenon, <1>1, <1>2, <1>6, <2>1 DEF Decay, Goto, At
  <2>3. L \in Nat /\ <<>> \in Seq(Page)
    BY PolicyAssumption
  <2>4. PICK m \in Locals :
          /\ m = loc'[t] /\ m.op = l.op /\ m.c = l.c /\ m.n = l.n /\ m.slab = l.slab
          /\ m.obj = l.obj /\ m.evicting = l.evicting /\ m.p = d /\ m.d = d
    BY ZenonT(60), <2>2, <2>3 DEF Locals
  <2>5. Control(pc'[t], m, mapped', cache'[t]) /\ pc'[t] \in PCs
    BY <1>4, <2>2, <2>4, BusyTo
  <2> QED
    BY <2>4, <2>5 DEF Placed
<1>7. CASE EvictNone(t)
  <2>1. pc'[t] = "stashed" /\ loc'[t] = l
    BY <1>1, <1>2, <1>7 DEF EvictNone, Goto
  <2>2. Control(pc'[t], l, mapped', cache'[t]) /\ pc'[t] \in PCs
    BY <1>4, <2>1, BusyTo
  <2> QED
    BY <2>1, <2>2 DEF Placed
<1>8. CASE EvictDirty(t)
  <2>1. PICK a : a = Head(pool.dirty.lru)
    OBVIOUS
  <2>2. /\ pc[t] = "evict" /\ l.d = "dirty" /\ pc'[t] = "look"
        /\ loc'[t] = [l EXCEPT !.x = a, !.side = "next", !.evicting = TRUE]
    BY <1>1, <1>2, <1>8, <2>1 DEF EvictDirty, Goto, MayEvict, At
  <2>3. a \in Page
    <3>1. pool.dirty.lru # <<>>
      BY <1>8 DEF EvictDirty, AtLimit
    <3>2. a \in InPool("dirty")
      BY <2>1, <3>1, First, Parts
    <3> QED
      BY <3>2 DEF InPool
  <2>4. PICK m \in Locals :
          /\ m = loc'[t] /\ m.op = l.op /\ m.c = l.c /\ m.n = l.n /\ m.slab = l.slab
          /\ m.obj = l.obj /\ m.x = a /\ m.evicting /\ m.p = l.p /\ m.d = l.d
    BY ZenonT(60), <2>2, <2>3 DEF Locals
  <2>5. Control(pc'[t], m, mapped', cache'[t]) /\ pc'[t] \in PCs
    BY ZenonT(60), <1>4, <2>2, <2>3, <2>4, BusyTo
  <2> QED
    BY <2>4, <2>5 DEF Placed
<1>9. CASE Stashed(t)
  <2>1. CASE l.stash = <<>>
    <3>1. /\ loc'[t] = l
          /\ pc'[t] = "ticks2" \/ pc'[t] = IF l.op = "malloc" THEN "filled" ELSE "logfree"
      BY <1>1, <1>2, <1>9, <2>1 DEF Stashed, After, Goto
    <3>2. Control(pc'[t], l, mapped', cache'[t]) /\ pc'[t] \in PCs
      BY <1>4, <2>1, <3>1, BusyTo
    <3> QED
      BY <3>1, <3>2 DEF Placed
  <2>2. CASE l.stash # <<>>
    <3>1. PICK a \in Page, s \in Seq(Page) : a = Head(l.stash) /\ s = Tail(l.stash)
      <4>1. l.stash \in Seq(Page)
        BY DEF Locals
      <4> QED
        BY <2>2, <4>1, PlacesTail
    <3>3. pc'[t] = "punch" /\ loc'[t] = [l EXCEPT !.x = a, !.stash = s, !.p = "muzzy"]
      BY <1>1, <1>2, <1>9, <2>2, <3>1 DEF Stashed, Goto
    <3>4. PICK m \in Locals :
            /\ m = loc'[t] /\ m.op = l.op /\ m.c = l.c /\ m.n = l.n /\ m.slab = l.slab
            /\ m.obj = l.obj /\ m.x = a /\ m.evicting = l.evicting /\ m.p = "muzzy"
      <4>1. PICK m : m = [l EXCEPT !.x = a, !.stash = s, !.p = "muzzy"]
        OBVIOUS
      <4>2. m \in Locals
        BY <4>1 DEF Locals, Kinds
      <4>3. /\ m.op = l.op /\ m.c = l.c /\ m.n = l.n /\ m.slab = l.slab
            /\ m.obj = l.obj /\ m.x = a /\ m.evicting = l.evicting /\ m.p = "muzzy"
        BY <4>1 DEF Locals
      <4> QED
        BY <3>3, <4>1, <4>2, <4>3
    <3>5. Control(pc'[t], m, mapped', cache'[t]) /\ pc'[t] \in PCs
      BY <1>4, <3>3, <3>4, BusyTo
    <3> QED
      BY <3>4, <3>5 DEF Placed
  <2> QED
    BY <2>1, <2>2
<1>10. CASE Punch(t)
  <2>1. pc[t] = "punch" /\ pc'[t] = "record" /\ loc'[t] = l
    BY <1>1, <1>2, <1>10 DEF Punch, Goto, At
  <2>2. Control(pc'[t], l, mapped', cache'[t]) /\ pc'[t] \in PCs
    BY <1>4, <2>1, BusyTo
  <2> QED
    BY <2>1, <2>2 DEF Placed
<1> QED
  BY <1>5, <1>6, <1>7, <1>8, <1>9, <1>10

LEMMA OnwardPlaced ==
  ASSUME IndInv, NEW t \in Thread, pc[t] \in Giving \ {"record"}, Onward(t)
  PROVE  Placed(t)'
<1>1. PICK l \in Locals : l = loc[t] /\ Control(pc[t], l, mapped, cache[t])
  BY PlacedNow DEF Placed
<1>2. pc \in [Thread -> PCs] /\ loc \in [Thread -> Locals]
  BY PlacedNow
<1>3. /\ l.op \in {"malloc", "free", "unslab"} /\ Request(l) /\ l.obj \in Page /\ l.x \in Page
      /\ l.evicting => l.p = "dirty" /\ l.d = "dirty"
      /\ l.p = "dirty" /\ ~l.evicting => l.stash = <<>>
  BY <1>1, BusyAt DEF Busy, Purging, Giving
<1>4. PICK m \in Locals :
        /\ m = loc'[t] /\ m.op = l.op /\ m.c = l.c /\ m.n = l.n /\ m.slab = l.slab
        /\ m.obj = l.obj /\ m.x = l.x /\ m.evicting = l.evicting /\ m.p = l.p /\ m.d = l.d
        /\ m.stash = l.stash
  <2>1. CASE loc'[t] = l
    BY <2>1
  <2>2. CASE loc'[t] = [l EXCEPT !.side = "prev"]
    BY <2>2 DEF Locals
  <2>3. CASE loc'[t] = [l EXCEPT !.side = "next", !.again = FALSE]
    BY ZenonT(60), <2>3 DEF Locals
  <2> QED
    BY <1>1, <1>2, <2>1, <2>2, <2>3 DEF Onward, NextRound
<1>5. pc'[t] \in {"look", "settle"}
  BY <1>2 DEF Onward, Goto
<1>6. Control(pc'[t], m, mapped', cache'[t]) /\ pc'[t] \in PCs
  BY <1>3, <1>4, <1>5, BusyTo
<1> QED
  BY <1>4, <1>6 DEF Placed

LEMMA GivingPlaced ==
  ASSUME IndInv, NEW t \in Thread,
         Record(t) \/ Look(t) \/ Check(t) \/ Merge(t) \/ Relock(t) \/ Settle(t)
  PROVE  Placed(t)'
<1>1. PICK l \in Locals : l = loc[t] /\ Control(pc[t], l, mapped, cache[t])
  BY PlacedNow DEF Placed
<1>2. pc \in [Thread -> PCs] /\ loc \in [Thread -> Locals]
  BY PlacedNow
<1>3. pc[t] \in Giving
  BY Zenon DEF Record, Look, Check, Merge, Relock, Settle, At, Giving
<1>4. /\ l.op \in {"malloc", "free", "unslab"} /\ Request(l) /\ l.obj \in Page /\ l.x \in Page
      /\ l.evicting => l.p = "dirty" /\ l.d = "dirty"
      /\ l.p = "dirty" /\ ~l.evicting => l.stash = <<>>
      /\ pc[t] \in {"check", "merge"} => l.y \in Page
      /\ pc[t] = "record" => ~l.evicting
  BY <1>1, <1>3, BusyAt DEF Busy, Purging, Giving
<1>5. CASE Record(t)
  <2>1. PICK a \in Page : Recorded(t, a)
    BY <1>5, RecordDoes
  <2>2. /\ pc[t] = "record" /\ pc'[t] = "look"
        /\ loc'[t] = [l EXCEPT !.side = "next", !.again = FALSE, !.evicting = FALSE]
    BY <1>1, <2>1 DEF Recorded
  <2>3. PICK m \in Locals :
          /\ m = loc'[t] /\ m.op = l.op /\ m.c = l.c /\ m.n = l.n /\ m.slab = l.slab
          /\ m.obj = l.obj /\ m.x = l.x /\ ~m.evicting /\ m.p = l.p /\ m.stash = l.stash
    BY ZenonT(60), <2>2 DEF Locals
  <2>4. Control(pc'[t], m, mapped', cache'[t]) /\ pc'[t] \in PCs
    BY <1>4, <2>2, <2>3, BusyTo
  <2> QED
    BY <2>3, <2>4 DEF Placed
<1>6. CASE Look(t)
  <2>1. CASE Onward(t)
    BY <1>6, <2>1, OnwardPlaced DEF Look, At, Giving
  <2>2. CASE ~Onward(t)
    <3>1. PICK q : q = Entry(Beside(t))
      OBVIOUS
    <3>2. q.e # NoPage /\ loc'[t] = [l EXCEPT !.y = q.e] /\ pc'[t] = "check"
      BY <1>1, <1>2, <1>6, <2>2, <3>1 DEF Look, Goto
    <3>3. q.e \in Page
      <4>1. tree \in [Page -> [e : Page \cup {NoPage}, szind : 0 .. SLAB_SCIND,
                               slab : BOOLEAN]]
        BY Parts, TypesOf
      <4> QED
        BY <3>1, <3>2, <4>1 DEF Entry, Nil
    <3>4. PICK m \in Locals :
            /\ m = loc'[t] /\ m.op = l.op /\ m.c = l.c /\ m.n = l.n /\ m.slab = l.slab
            /\ m.obj = l.obj /\ m.x = l.x /\ m.y = q.e /\ m.evicting = l.evicting
            /\ m.p = l.p /\ m.d = l.d /\ m.stash = l.stash
      BY <3>2, <3>3 DEF Locals
    <3>5. Control(pc'[t], m, mapped', cache'[t]) /\ pc'[t] \in PCs
      BY <1>4, <3>2, <3>3, <3>4, BusyTo
    <3> QED
      BY <3>4, <3>5 DEF Placed
  <2> QED
    BY <2>1, <2>2
<1>7. CASE Check(t)
  <2>1. CASE Onward(t)
    BY <1>7, <2>1, OnwardPlaced DEF Check, At, Giving
  <2>2. CASE ~Onward(t)
    <3>1. pc[t] = "check" /\ pc'[t] \in {"look", "merge"} /\ loc'[t] = l
      BY <1>1, <1>2, <1>7, <2>2 DEF Check, Goto, At
    <3>2. Control(pc'[t], l, mapped', cache'[t]) /\ pc'[t] \in PCs
      BY <1>4, <3>1, BusyTo
    <3> QED
      BY <3>1, <3>2 DEF Placed
  <2> QED
    BY <2>1, <2>2
<1>8. CASE Merge(t)
  <2>1. PICK a \in Page, b \in Page : Merged(t, a, b)
    BY <1>8, MergeDoes
  <2>2. pc'[t] = "relock" /\ loc'[t] = [l EXCEPT !.x = a, !.y = NoPage]
    BY <1>1, <2>1 DEF Merged
  <2>3. PICK m \in Locals :
          /\ m = loc'[t] /\ m.op = l.op /\ m.c = l.c /\ m.n = l.n /\ m.slab = l.slab
          /\ m.obj = l.obj /\ m.x = a /\ m.evicting = l.evicting
          /\ m.p = l.p /\ m.d = l.d /\ m.stash = l.stash
    BY <2>2 DEF Locals
  <2>4. Control(pc'[t], m, mapped', cache'[t]) /\ pc'[t] \in PCs
    BY ZenonT(60), <1>4, <2>2, <2>3, BusyTo
  <2> QED
    BY <2>3, <2>4 DEF Placed
<1>9. CASE Relock(t)
  <2>1. CASE l.p = "dirty" /\ ~l.evicting
    <3>1. pc'[t] = "look" /\ loc'[t] = [l EXCEPT !.side = "next"]
      BY <1>1, <1>2, <1>9, <2>1 DEF Relock, Goto
    <3>2. PICK m \in Locals :
            /\ m = loc'[t] /\ m.op = l.op /\ m.c = l.c /\ m.n = l.n /\ m.slab = l.slab
            /\ m.obj = l.obj /\ m.x = l.x /\ m.evicting = l.evicting
            /\ m.p = l.p /\ m.d = l.d /\ m.stash = l.stash
      BY <3>1 DEF Locals
    <3>3. Control(pc'[t], m, mapped', cache'[t]) /\ pc'[t] \in PCs
      BY ZenonT(60), <1>4, <3>1, <3>2, BusyTo
    <3> QED
      BY <3>2, <3>3 DEF Placed
  <2>2. CASE l.evicting
    <3>0. l.p # "muzzy"
      BY <1>4, <2>2
    <3>1. pc'[t] = "evict" /\ loc'[t] = [l EXCEPT !.x = NoPage, !.evicting = FALSE]
      BY <1>1, <1>2, <1>9, <2>2, <3>0 DEF Relock, Goto
    <3>2. PICK m \in Locals :
            /\ m = loc'[t] /\ m.op = l.op /\ m.c = l.c /\ m.n = l.n /\ m.slab = l.slab
            /\ m.obj = l.obj /\ ~m.evicting /\ m.p = l.p /\ m.d = l.d
      BY <3>1 DEF Locals
    <3>3. Control(pc'[t], m, mapped', cache'[t]) /\ pc'[t] \in PCs
      BY ZenonT(60), <1>4, <2>2, <3>1, <3>2, BusyTo
    <3> QED
      BY <3>2, <3>3 DEF Placed
  <2>3. CASE l.p = "muzzy"
    <3>0. ~l.evicting
      BY <1>4, <2>3
    <3>1. PICK s \in {"next", "prev"}, g \in BOOLEAN :
            pc'[t] = "look" /\ loc'[t] = [l EXCEPT !.side = s, !.again = g]
      BY Zenon, <1>1, <1>2, <1>9, <2>3, <3>0 DEF Relock, Goto
    <3>2. PICK m \in Locals : m = loc'[t] /\ m = [l EXCEPT !.side = s, !.again = g]
      BY <3>1 DEF Locals
    <3>3. /\ m.op = l.op /\ m.c = l.c /\ m.n = l.n /\ m.slab = l.slab
          /\ m.obj = l.obj /\ m.x = l.x /\ m.evicting = l.evicting
          /\ m.p = l.p /\ m.d = l.d /\ m.stash = l.stash
      BY <3>2 DEF Locals
    <3>4. Control(pc'[t], m, mapped', cache'[t]) /\ pc'[t] \in PCs
      BY <1>4, <3>1, <3>2, <3>3, BusyTo
    <3> QED
      BY <3>2, <3>4 DEF Placed
  <2>4. l.p \in {"dirty", "muzzy"}
    BY DEF Locals, Kinds
  <2> QED
    BY <2>1, <2>2, <2>3, <2>4
<1>10. CASE Settle(t)
  <2>1. CASE ~l.evicting
    <3>1. /\ pc'[t] = (IF l.p = "dirty" THEN "ticks" ELSE "stashed")
          /\ loc'[t] = [l EXCEPT !.x = NoPage, !.y = NoPage]
      BY <1>1, <1>2, <1>10, <2>1 DEF Settle, Goto
    <3>2. PICK m \in Locals :
            /\ m = loc'[t] /\ m.op = l.op /\ m.c = l.c /\ m.n = l.n /\ m.slab = l.slab
            /\ m.obj = l.obj /\ m.evicting = l.evicting
            /\ m.p = l.p /\ m.d = l.d /\ m.stash = l.stash
      BY <3>1 DEF Locals
    <3>3. Control(pc'[t], m, mapped', cache'[t]) /\ pc'[t] \in PCs
      BY <1>4, <2>1, <3>1, <3>2, BusyTo
    <3> QED
      BY <3>2, <3>3 DEF Placed
  <2>2. CASE l.evicting
    <3>1. PICK i \in Int, s \in Seq(Page) :
            i = l.left - ext[l.x].size /\ s = Append(l.stash, l.x)
      <4>1. ext \in [Page -> [size : 0 .. NPages, szind : 0 .. SLAB_SCIND, slab : BOOLEAN,
                              state : {"none", "active", "dirty", "muzzy"},
                              log : [type : {"none", "malloc", "slab"},
                                     addr : Page \cup {NoPage}, k : Nat]]]
        BY Parts, TypesOf
      <4>2. ext[l.x].size \in Nat /\ l.left \in Int /\ l.stash \in Seq(Page)
        BY <1>4, <4>1, Sizes DEF Locals
      <4>3. PICK u \in Seq(Page), x \in Page : u = l.stash /\ x = l.x
        BY <1>4, <4>2
      <4>4. Append(u, x) \in Seq(Page)
        OBVIOUS
      <4>5. l.left - ext[l.x].size \in Int
        BY <4>2
      <4> QED
        BY <4>3, <4>4, <4>5
    <3>2. /\ pc'[t] \in {"evict", "stashed"}
          /\ loc'[t] = [l EXCEPT !.stash = s, !.x = NoPage, !.y = NoPage, !.evicting = FALSE,
                                 !.left = i]
      BY <1>1, <1>2, <1>10, <2>2, <3>1 DEF Settle, Goto
    <3>3. PICK m \in Locals :
            /\ m = loc'[t] /\ m.op = l.op /\ m.c = l.c /\ m.n = l.n /\ m.slab = l.slab
            /\ m.obj = l.obj /\ ~m.evicting /\ m.p = l.p /\ m.d = l.d
      <4>1. PICK m : m = [l EXCEPT !.stash = s, !.x = NoPage, !.y = NoPage, !.evicting = FALSE,
                                   !.left = i]
        OBVIOUS
      <4>2. m \in Locals
        BY <4>1 DEF Locals
      <4>3. /\ m.op = l.op /\ m.c = l.c /\ m.n = l.n /\ m.slab = l.slab
            /\ m.obj = l.obj /\ ~m.evicting /\ m.p = l.p /\ m.d = l.d
        BY <4>1 DEF Locals
      <4> QED
        BY <3>2, <4>1, <4>2, <4>3
    <3>4. Control(pc'[t], m, mapped', cache'[t]) /\ pc'[t] \in PCs
      <4>1. m.p = m.d /\ ~m.evicting /\ m.obj \in Page
        BY <1>4, <2>2, <3>3
      <4>2. CASE pc'[t] = "evict"
        BY <1>4, <3>3, <4>1, <4>2, BusyTo
      <4>3. CASE pc'[t] = "stashed"
        BY <1>4, <3>3, <4>1, <4>3, BusyTo
      <4> QED
        BY <3>2, <4>2, <4>3
    <3> QED
      BY <3>3, <3>4 DEF Placed
  <2> QED
    BY <2>1, <2>2
<1> QED
  BY <1>5, <1>6, <1>7, <1>8, <1>9, <1>10

LEMMA ObjectPlaced ==
  ASSUME IndInv, NEW t \in Thread, Fill(t) \/ Pop(t)
  PROVE  Placed(t)'
<1>1. PICK l \in Locals : l = loc[t] /\ Control(pc[t], l, mapped, cache[t])
  BY PlacedNow DEF Placed
<1>2. /\ pc \in [Thread -> PCs] /\ loc \in [Thread -> Locals]
      /\ cache \in [Thread -> [Requests -> Seq(Page)]]
  BY PlacedNow
<1>3. /\ pc[t] \in {"filled", "pop"} /\ l.op = "malloc" /\ Request(l) /\ l.stash = <<>>
      /\ ~l.evicting
  <2>1. pc[t] \in {"filled", "pop"}
    BY DEF Fill, Pop, At
  <2> QED
    BY SMTT(30), <1>1, <2>1 DEF Control, CallsAt, Purging, Giving, Locals
<1>4. l.c \in Requests
  BY <1>3 DEF Request
<1>5. CASE Fill(t)
  <2>0. pc[t] = "filled" /\ l.obj \in Page
    <3>1. pc[t] = "filled"
      BY <1>5 DEF Fill, At
    <3> QED
      BY <1>1, <3>1 DEF Control
  <2>1. /\ pc'[t] \in {"recycle", "pop"}
        /\ loc'[t] = [l EXCEPT !.obj = NoPage, !.x = NoPage, !.p = "dirty"]
    BY <1>1, <1>2, <1>5 DEF Fill, Goto
  <2>2. cache'[t][l.c] # <<>>
    <3>1. PICK s \in Seq(Page), b \in Page : s = cache[t][l.c] /\ b = l.obj
      BY <1>2, <1>4, <2>0
    <3>2. cache'[t][l.c] = Append(s, b)
      BY <1>1, <1>2, <1>4, <1>5, <3>1 DEF Fill
    <3>3. Append(s, b) # <<>>
      <4>1. Len(Append(s, b)) = Len(s) + 1 /\ Len(s) \in Nat
        BY AppendProperties, LenProperties
      <4> QED
        BY <4>1
    <3> QED
      BY <3>2, <3>3
  <2>3. PICK m \in Locals :
          /\ m = loc'[t] /\ m.op = l.op /\ m.c = l.c /\ m.n = l.n /\ m.slab = l.slab
          /\ m.evicting = l.evicting /\ m.stash = l.stash
    BY <2>1 DEF Locals, Kinds
  <2>4. CASE pc'[t] = "recycle"
    <3>1. Control("recycle", m, mapped', cache'[t]) /\ "recycle" \in PCs
      BY <1>3, <2>3, TakingTo
    <3> QED
      BY <2>3, <2>4, <3>1 DEF Placed
  <2>5. CASE pc'[t] = "pop"
    <3>1. Control("pop", m, mapped', cache'[t])
      BY <1>3, <2>2, <2>3 DEF Control, CallsAt, Purging, Giving, Request
    <3> QED
      BY <2>3, <2>5, <3>1 DEF Placed, PCs
  <2> QED
    BY <2>1, <2>4, <2>5
<1>6. CASE Pop(t)
  <2>0. pc[t] = "pop" /\ cache[t][l.c] # <<>>
    <3>1. pc[t] = "pop"
      BY <1>6 DEF Pop, At
    <3> QED
      BY <1>1, <3>1 DEF Control
  <2>1. PICK a \in Page : a = cache[t][l.c][Len(cache[t][l.c])]
    <3>1. PICK s \in Seq(Page) : s = cache[t][l.c]
      BY <1>2, <1>4
    <3>2. s # <<>>
      BY <2>0, <3>1
    <3>3. s[Len(s)] \in Page
      BY <3>2, PlacesFront
    <3> QED
      BY <3>1, <3>3
  <2>2. pc'[t] = "log" /\ loc'[t] = [l EXCEPT !.obj = a]
    BY <1>1, <1>2, <1>6, <2>1 DEF Pop, Goto
  <2>3. PICK m \in Locals :
          /\ m = loc'[t] /\ m.op = l.op /\ m.c = l.c /\ m.n = l.n /\ m.slab = l.slab
          /\ m.obj = a /\ m.evicting = l.evicting /\ m.stash = l.stash
    BY <2>2 DEF Locals
  <2>4. Control("log", m, mapped', cache'[t])
    BY <1>3, <2>3 DEF Control, CallsAt, Purging, Giving, Request
  <2> QED
    BY <2>2, <2>3, <2>4 DEF Placed, PCs
<1> QED
  BY <1>5, <1>6

LEMMA CallPlaced ==
  ASSUME IndInv, NEW t \in Thread, Begin(t)
  PROVE  Placed(t)'
<1>1. pc \in [Thread -> PCs] /\ loc \in [Thread -> Locals]
  BY PlacedNow
<1>2. /\ SLAB_SCIND \in 0 .. SLAB_SCIND /\ SLAB \in 0 .. CHUNK /\ SLAB \in Nat
      /\ Requests \subseteq Class /\ Class \subseteq 0 .. SLAB_SCIND
      /\ \A c \in Requests : psz[c] \in 0 .. CHUNK
  <2>1. Top \in Nat /\ SLAB_SCIND = Top + 3 /\ Class = 0 .. Top /\ SLAB \in 1 .. CHUNK
        /\ CHUNK \in Nat
    BY Sizes, SizesAssumption
  <2>2. Requests \subseteq Class /\ \A c \in Requests : psz[c] \in Nat /\ psz[c] <= CHUNK
    BY SizesAssumption
  <2> QED
    BY <2>1, <2>2
<1>3. NoLocals \in Locals
  BY IdleLocals
<1>4. ASSUME NEW c \in Requests, MallocCall(t, c) PROVE Placed(t)'
  <2>1. PICK n \in 0 .. CHUNK : n = psz[c]
    BY <1>2
  <2>2. /\ loc'[t] = [NoLocals EXCEPT !.op = "malloc", !.c = c, !.n = n]
        /\ pc'[t] = (IF cache[t][c] = <<>> THEN "recycle" ELSE "pop")
        /\ cache' = cache
    BY <1>1, <1>4, <2>1 DEF MallocCall, Goto, program
  <2>3. PICK m :
          /\ m = loc'[t] /\ m \in Locals /\ m.op = "malloc" /\ m.c = c /\ m.n = n /\ ~m.slab
          /\ m.stash = <<>> /\ ~m.evicting
    <3>1. PICK l \in Locals : l = NoLocals
      BY <1>3
    <3>2. PICK m : m = loc'[t]
      OBVIOUS
    <3>3. m \in Locals
      BY ZenonT(60), <1>2, <2>2, <3>1, <3>2 DEF Locals
    <3>4. /\ m.op = "malloc" /\ m.c = c /\ m.n = n /\ ~m.slab
          /\ m.stash = <<>> /\ ~m.evicting
      BY <2>2, <3>2 DEF NoLocals
    <3> QED
      BY <3>2, <3>3, <3>4
  <2>4. Request(m)
    BY <2>1, <2>3 DEF Request
  <2>5. Control(pc'[t], m, mapped', cache'[t]) /\ pc'[t] \in PCs
    <3>1. CASE pc'[t] = "recycle"
      BY <2>3, <2>4, <3>1, TakingTo
    <3>2. CASE pc'[t] = "pop" /\ cache'[t][c] # <<>>
      BY <2>3, <2>4, <3>2 DEF Control, CallsAt, Purging, Giving, PCs
    <3> QED
      BY <2>2, <3>1, <3>2
  <2> QED
    BY <2>3, <2>5 DEF Placed
<1>5. CASE SlabCall(t)
  <2>2. /\ loc'[t] = [NoLocals EXCEPT !.op = "slab", !.c = SLAB_SCIND, !.n = SLAB, !.slab = TRUE]
        /\ pc'[t] = "recycle"
    BY <1>1, <1>5 DEF SlabCall, Goto
  <2>3. PICK m :
          /\ m = loc'[t] /\ m \in Locals /\ m.op = "slab" /\ m.c = SLAB_SCIND /\ m.n = SLAB
          /\ m.slab /\ m.stash = <<>> /\ ~m.evicting
    <3>1. PICK l \in Locals : l = NoLocals
      BY <1>3
    <3>2. PICK m : m = loc'[t]
      OBVIOUS
    <3>3. m \in Locals
      BY <1>2, <2>2, <3>1, <3>2 DEF Locals
    <3>4. /\ m.op = "slab" /\ m.c = SLAB_SCIND /\ m.n = SLAB
          /\ m.slab /\ m.stash = <<>> /\ ~m.evicting
      BY <2>2, <3>2 DEF NoLocals
    <3> QED
      BY <3>2, <3>3, <3>4
  <2>4. Request(m)
    BY <2>3 DEF Request
  <2>5. Control(pc'[t], m, mapped', cache'[t]) /\ pc'[t] \in PCs
    BY <2>2, <2>3, <2>4, TakingTo
  <2> QED
    BY <2>3, <2>5 DEF Placed
<1>6. ASSUME NEW a \in Page, FreeCall(t, a) PROVE Placed(t)'
  <2>1. PICK c \in 0 .. SLAB_SCIND : c = tree[a].szind
    BY Parts, TypesOf
  <2>2. /\ loc'[t] = [NoLocals EXCEPT !.op = "free", !.c = c, !.obj = a, !.x = a]
        /\ pc'[t] \in {"logcached", "record"}
    BY <1>1, <1>6, <2>1 DEF FreeCall, Goto
  <2>3. PICK m :
          /\ m = loc'[t] /\ m \in Locals /\ m.op = "free" /\ ~m.slab
          /\ m.obj = a /\ m.x = a /\ m.stash = <<>> /\ ~m.evicting
    <3>1. PICK l \in Locals : l = NoLocals
      BY <1>3
    <3>2. PICK m : m = loc'[t]
      OBVIOUS
    <3>3. m \in Locals
      BY ZenonT(60), <1>2, <2>2, <3>1, <3>2 DEF Locals
    <3>4. /\ m.op = "free" /\ ~m.slab
          /\ m.obj = a /\ m.x = a /\ m.stash = <<>> /\ ~m.evicting
      BY <2>2, <3>2 DEF NoLocals
    <3> QED
      BY <3>2, <3>3, <3>4
  <2>4. Request(m)
    BY <2>3 DEF Request
  <2>5. Control(pc'[t], m, mapped', cache'[t]) /\ pc'[t] \in PCs
    <3>1. CASE pc'[t] = "record"
      BY <2>3, <2>4, <3>1, BusyTo
    <3>2. CASE pc'[t] = "logcached"
      BY <2>3, <2>4, <3>2 DEF Control, CallsAt, Purging, Giving, PCs
    <3> QED
      BY <2>2, <3>1, <3>2
  <2> QED
    BY <2>3, <2>5 DEF Placed
<1>7. ASSUME NEW a \in Page, UnslabCall(t, a) PROVE Placed(t)'
  <2>2. /\ loc'[t] = [NoLocals EXCEPT !.op = "unslab", !.obj = a, !.x = a]
        /\ pc'[t] = "record"
    BY <1>1, <1>7 DEF UnslabCall, Goto
  <2>3. PICK m :
          /\ m = loc'[t] /\ m \in Locals /\ m.op = "unslab" /\ ~m.slab
          /\ m.obj = a /\ m.x = a /\ m.stash = <<>> /\ ~m.evicting
    <3>1. PICK l \in Locals : l = NoLocals
      BY <1>3
    <3>2. PICK m : m = loc'[t]
      OBVIOUS
    <3>3. m \in Locals
      BY <1>2, <2>2, <3>1, <3>2 DEF Locals
    <3>4. /\ m.op = "unslab" /\ ~m.slab
          /\ m.obj = a /\ m.x = a /\ m.stash = <<>> /\ ~m.evicting
      BY <2>2, <3>2 DEF NoLocals
    <3> QED
      BY <3>2, <3>3, <3>4
  <2>4. Request(m)
    BY <2>3 DEF Request
  <2>5. Control(pc'[t], m, mapped', cache'[t]) /\ pc'[t] \in PCs
    BY <2>2, <2>3, <2>4, BusyTo
  <2> QED
    BY <2>3, <2>5 DEF Placed
<1>8. held \subseteq Page /\ slabs \subseteq Page
  BY Parts, TypesOf
<1> QED
  BY <1>4, <1>5, <1>6, <1>7, <1>8 DEF Begin

LEMMA PlacedAfter ==
  ASSUME IndInv, NEW t \in Thread, Plain(t) \/ Pooling(t) \/ Shaping(t)
  PROVE  Placed(t)'
<1>1. CASE MapFails(t) \/ PunchStops(t) \/ EvictStops(t) \/ GCStops(t)
  BY <1>1, StopPlaced DEF MapFails, PunchStops, EvictStops, GCStops, arena, program
<1>2. CASE Log(t) \/ LogCached(t) \/ LogFree(t)
  BY <1>2, DonePlaced DEF Log, LogCached, LogFree
<1> QED
  BY <1>1, <1>2, NewPlaced, TakenPlaced, InteriorPlaced, PurgePlaced, GivingPlaced, ObjectPlaced,
     CallPlaced DEF Plain, Pooling, Shaping

LEMMA AllPlaced ==
  ASSUME IndInv, NEW t \in Thread, Plain(t) \/ Pooling(t) \/ Shaping(t), mapped \subseteq mapped'
  PROVE  \A u \in Thread : Placed(u)'
<1> SUFFICES ASSUME NEW u \in Thread PROVE Placed(u)'
  OBVIOUS
<1>1. CASE u = t
  BY <1>1, PlacedAfter
<1>2. CASE u # t
  <2>1. pc'[u] = pc[u] /\ loc'[u] = loc[u] /\ cache'[u] = cache[u]
    BY <1>2, OthersStay, Parts DEF Alone
  <2>2. Placed(u)
    BY PlacedNow
  <2>3. Control(pc[u], loc[u], mapped', cache[u])
    BY <2>2 DEF Placed, Control
  <2> QED
    BY <2>1, <2>2, <2>3 DEF Placed
<1> QED
  BY <1>1, <1>2

----------------------------------------------------------------------------
(* The new memory of the arena, which its lock protects. *)

\* The steps in which the arena's lock is held.
Renewing == {"retired", "map", "insert"}

LEMMA NewMemoryStays ==
  ASSUME Types, NewMemory, NEW t \in Thread, Alone(t), fresh' = fresh,
         lock'["arena"] = lock["arena"], pc'[t] \in Renewing => pc[t] \in Renewing
  PROVE  NewMemory'
BY DEF NewMemory, Alone, Renewing

\* Most steps have nothing to do with the new memory.
LEMMA Elsewhere ==
  ASSUME Types, NEW t \in Thread, Plain(t) \/ Pooling(t) \/ Shaping(t),
         ~Carve(t), ~Retire(t), ~InsertFile(t)
  PROVE  fresh' = fresh /\ lock'["arena"] = lock["arena"] /\ (pc'[t] \in Renewing => pc[t] \in Renewing)
<1>1. /\ pc \in [Thread -> PCs] /\ loc \in [Thread -> Locals]
      /\ lock \in [{"dirty", "muzzy", "arena"} -> Thread \cup {NoThread}]
  BY TypesOf
<1>2. loc[t].p \in Kinds /\ loc[t].d \in Kinds
  BY <1>1 DEF Locals
<1>3. CASE MapFile(t) \/ MapFails(t) \/ Look(t) \/ Punch(t) \/ PunchStops(t) \/ NoDecay(t)
           \/ \E d \in Kinds, L \in Limits : Decay(t, d, L)
  BY ZenonT(60), <1>1, <1>3 DEF MapFile, MapFails, Look, Onward, Punch, PunchStops, NoDecay, After, Decay,
     Goto, At, Renewing, arena
<1>4. CASE EvictNone(t) \/ EvictStops(t) \/ Stashed(t) \/ Fill(t) \/ Pop(t)
  BY <1>1, <1>2, <1>4 DEF EvictNone, EvictStops, Stashed, After, Fill, Pop, Hold, Goto, At, Renewing,
     arena, Kinds
<1>5. CASE Log(t) \/ LogCached(t) \/ LogFree(t) \/ GCStops(t)
  BY <1>1, <1>5 DEF Log, LogCached, LogFree, GCStops, Done, Goto, At, Renewing, arena
<1>6. CASE Begin(t)
  BY <1>1, <1>6 DEF Begin, MallocCall, SlabCall, FreeCall, UnslabCall, Goto, Renewing, arena
<1>7. CASE Recycle(t) \/ Trail(t) \/ Retired(t)
  BY <1>1, <1>7 DEF Recycle, Trail, Retired, Taken, Goto, At, Renewing, arena
<1>8. CASE EvictDirty(t) \/ Check(t)
  BY <1>1, <1>2, <1>8 DEF EvictDirty, Check, Onward, Hold, Goto, At, Renewing, arena, Kinds
<1>9. CASE Relock(t) \/ Settle(t)
  BY <1>1, <1>2, <1>9 DEF Relock, Settle, Hold, Goto, At, Renewing, arena, Kinds
<1>10. CASE Split(t) \/ Interior(t) \/ Register(t) \/ Merge(t)
  BY Zenon, <1>1, <1>10 DEF Split, Interior, Register, Merge, Taken, Goto, At, Renewing, arena
<1>11. CASE Record(t)
  BY <1>1, <1>2, <1>11 DEF Record, Hold, Goto, At, Renewing, arena, Kinds
<1> QED
  BY <1>3, <1>4, <1>5, <1>6, <1>7, <1>8, <1>9, <1>10, <1>11 DEF Plain, Pooling, Shaping

LEMMA MemoryKept ==
  ASSUME IndInv, NEW t \in Thread, Plain(t) \/ Pooling(t) \/ Shaping(t)
  PROVE  /\ NewMemory'
         /\ fresh' \in [mem : {NoPage} \cup 0 .. NPages, n : 0 .. CHUNK]
         /\ mapped \subseteq mapped'
<1>1. /\ Types /\ NewMemory /\ Tiled /\ Alone(t)
      /\ fresh \in [mem : {NoPage} \cup 0 .. NPages, n : 0 .. CHUNK]
      /\ pc \in [Thread -> PCs] /\ loc \in [Thread -> Locals]
      /\ lock \in [{"dirty", "muzzy", "arena"} -> Thread \cup {NoThread}]
      /\ mapped \subseteq Chunk
  BY Parts, OthersStay, TypesOf
<1>2. PICK l \in Locals : l = loc[t] /\ Control(pc[t], l, mapped, cache[t])
  BY PlacedNow DEF Placed
<1>3. /\ CHUNK \in Nat \ {0} /\ NPages \in Nat \ {0} /\ CHUNK <= NPages
      /\ \A a \in Page : a \in Nat /\ a < NPages
  BY Sizes, Pages_
<1>4. CASE Carve(t)
  <2>1. /\ pc[t] = "new" /\ pc'[t] = "register" /\ l.n <= fresh.n /\ mapped' = mapped
        /\ fresh' = [mem |-> fresh.mem + l.n, n |-> fresh.n - l.n]
        /\ lock["arena"] = NoThread
    BY <1>1, <1>2, <1>4 DEF Carve, At, Goto, Unlocked
  <2>2. l.n \in 1 .. CHUNK
    <3>1. l.op \in {"malloc", "slab"} /\ Request(l)
      BY <1>2, <2>1, TakingAt DEF Taking
    <3> QED
      BY <3>1, Asked
  <2>3. PICK a \in Page, m \in 0 .. CHUNK, n \in 1 .. CHUNK :
          a = fresh.mem /\ m = fresh.n /\ n = l.n /\ a + m <= NPages /\ n <= m
    <3>1. fresh.n \in 0 .. CHUNK
      BY <1>1
    <3>2. fresh.n # 0
      BY <1>3, <2>1, <2>2, <3>1
    <3> QED
      BY <1>1, <2>1, <2>2, <3>1, <3>2 DEF NewMemory
  <2>4. fresh' = [mem |-> a + n, n |-> m - n]
    BY <2>1, <2>3
  <2>5. a + n \in 0 .. NPages /\ m - n \in 0 .. CHUNK
    BY <1>3, <2>3
  <2>6. m - n # 0 => a + n \in Page /\ (a + n) + (m - n) <= NPages
    <3>1. m - n # 0 => a + n < NPages
      BY <1>3, <2>3
    <3>2. a + n \in Int /\ 0 <= a + n /\ (a + n) + (m - n) = a + m
      BY <1>3, <2>3
    <3> QED
      BY <2>3, <3>1, <3>2, Pages_
  <2>7. ASSUME NEW u \in Thread PROVE pc'[u] \notin Renewing
    <3>1. pc[u] \notin Renewing
      BY <1>1, <2>1, ThreadAssumption DEF NewMemory, Renewing
    <3> QED
      BY <1>1, <2>1, <3>1 DEF Alone, Renewing
  <2>8. fresh'.mem = a + n /\ fresh'.n = m - n
    BY <2>4
  <2>9. NewMemory'
    BY <2>6, <2>7, <2>8 DEF NewMemory, Renewing
  <2> QED
    BY <2>1, <2>4, <2>5, <2>9
<1>5. CASE Retire(t)
  <2>1. /\ fresh' = [mem |-> NoPage, n |-> 0] /\ lock["arena"] = NoThread /\ lock'["arena"] = t
        /\ mapped' = mapped
    BY <1>1, <1>5 DEF Retire, NoFresh, Unlocked, Hold
  <2>2. ASSUME NEW u \in Thread \ {t} PROVE pc'[u] \notin Renewing
    <3>1. pc[u] \notin Renewing
      BY <1>1, <2>1, ThreadAssumption DEF NewMemory, Renewing
    <3> QED
      BY <1>1, <3>1 DEF Alone
  <2>3. fresh'.n = 0
    BY <2>1
  <2>4. NewMemory'
    BY <2>1, <2>2, <2>3 DEF NewMemory, Renewing
  <2>5. fresh' \in [mem : {NoPage} \cup 0 .. NPages, n : 0 .. CHUNK]
    BY <1>3, <2>1
  <2> QED
    BY <2>1, <2>4, <2>5
<1>6. CASE InsertFile(t)
  <2>1. /\ pc[t] = "insert" /\ pc'[t] = "register" /\ mapped' = mapped
        /\ fresh' = [mem |-> Base(l.y) + l.n, n |-> CHUNK - l.n]
    BY <1>1, <1>2, <1>6 DEF InsertFile, At, Goto
  <2>2. l.n \in 1 .. CHUNK /\ l.y \in Chunk
    <3>1. l.op \in {"malloc", "slab"} /\ Request(l) /\ l.y \in mapped
      BY <1>2, <2>1, TakingAt DEF Taking
    <3> QED
      BY <1>1, <3>1, Asked
  <2>3. PICK a \in Page, n \in 1 .. CHUNK : a = Base(l.y) /\ n = l.n /\ a + CHUNK <= NPages
    BY <2>2, Chunks
  <2>4. fresh' = [mem |-> a + n, n |-> CHUNK - n]
    BY <2>1, <2>3
  <2>5. a + n \in 0 .. NPages /\ CHUNK - n \in 0 .. CHUNK
    BY <1>3, <2>3
  <2>6. CHUNK - n # 0 => a + n \in Page /\ (a + n) + (CHUNK - n) <= NPages
    <3>1. CHUNK - n # 0 => a + n < NPages
      BY <1>3, <2>3
    <3>2. a + n \in Int /\ 0 <= a + n /\ (a + n) + (CHUNK - n) = a + CHUNK
      BY <1>3, <2>3
    <3> QED
      BY <2>3, <3>1, <3>2, Pages_
  <2>7. ASSUME NEW u \in Thread PROVE pc'[u] \notin Renewing
    <3>1. lock["arena"] = t
      BY <1>1, <2>1 DEF NewMemory
    <3>2. u # t => pc[u] \notin Renewing
      BY <1>1, <3>1 DEF NewMemory, Renewing
    <3> QED
      BY <1>1, <2>1, <3>2 DEF Alone, Renewing
  <2>8. fresh'.mem = a + n /\ fresh'.n = CHUNK - n
    BY <2>4
  <2>9. NewMemory'
    BY <2>6, <2>7, <2>8 DEF NewMemory, Renewing
  <2> QED
    BY <2>1, <2>4, <2>5, <2>9
<1>7. CASE ~Carve(t) /\ ~Retire(t) /\ ~InsertFile(t)
  <2>1. NewMemory' /\ fresh' = fresh
    BY <1>1, <1>7, Elsewhere, NewMemoryStays
  <2>2. mapped \subseteq mapped'
    <3>1. CASE MapFile(t)
      BY <3>1 DEF MapFile
    <3>2. CASE Plain(t) /\ ~MapFile(t)
      BY <1>1, <1>7, <3>2, Quietly
    <3>3. CASE Pooling(t)
      BY <3>3, PoolingKeeps
    <3>4. CASE Shaping(t)
      BY Zenon, <1>7, <3>4 DEF Shaping, Split, Interior, Register, Record, Merge, arena
    <3> QED
      BY <3>1, <3>2, <3>3, <3>4
  <2> QED
    BY <1>1, <2>1, <2>2
<1> QED
  BY <1>4, <1>5, <1>6, <1>7

----------------------------------------------------------------------------
(* The types of the descriptors, the tree and the pools. *)

\* The types of the records.
ItemType == [type : {"none", "malloc", "slab"}, addr : Page \cup {NoPage}, k : Nat]
ExtentType == [size : 0 .. NPages, szind : 0 .. SLAB_SCIND, slab : BOOLEAN,
               state : {"none", "active", "dirty", "muzzy"}, log : ItemType]
EntryType == [e : Page \cup {NoPage}, szind : 0 .. SLAB_SCIND, slab : BOOLEAN]
PoolType == [lru : Seq(Page), bitmap : SUBSET Class, npages : Nat]

LEMMA RecordTypes ==
  ASSUME Types
  PROVE  /\ ext \in [Page -> ExtentType] /\ tree \in [Page -> EntryType]
         /\ pool \in [Kinds -> PoolType]
BY TypesOf DEF ItemType, ExtentType, EntryType, PoolType

LEMMA ClassesAre ==
  /\ MAX_PSZ_IDX \in 0 .. SLAB_SCIND /\ SLAB_SCIND \in 0 .. SLAB_SCIND
  /\ Class \subseteq 0 .. SLAB_SCIND
  /\ Nil \in EntryType /\ \A a \in Page : [Nil EXCEPT !.e = a] \in EntryType
<1>1. MAX_PSZ_IDX \in 0 .. SLAB_SCIND /\ SLAB_SCIND \in 0 .. SLAB_SCIND
      /\ Class \subseteq 0 .. SLAB_SCIND
  <2>1. Top \in Nat /\ SLAB_SCIND = Top + 3 /\ MAX_PSZ_IDX = Top + 1 /\ Class = 0 .. Top
    BY Sizes, SizesAssumption
  <2> QED
    BY <2>1
<1>2. Nil \in EntryType
  BY <1>1 DEF Nil, EntryType
<1>3. \A a \in Page : [Nil EXCEPT !.e = a] \in EntryType
  BY <1>2 DEF EntryType
<1> QED
  BY <1>1, <1>2, <1>3

\* An item has a place of its own.
LEMMA ItemNew ==
  ASSUME IsFiniteSet(log), NEW type, NEW a
  PROVE  \E k \in Nat : /\ Item(type, a) = [type |-> type, addr |-> a, k |-> k]
                        /\ Item(type, a) \notin log
<1> DEFINE n == Cardinality(log)
           f == [k \in 0 .. n |-> [type |-> type, addr |-> a, k |-> k]]
           Free == {k \in 0 .. n : [type |-> type, addr |-> a, k |-> k] \notin log}
<1>1. n \in Nat
  BY FS_CardinalityType
<1>2. Free # {}
  <2> SUFFICES ASSUME Free = {} PROVE FALSE
    OBVIOUS
  <2>1. f \in [0 .. n -> log]
    OBVIOUS
  <2>2. IsFiniteSet(0 .. n) /\ Cardinality(0 .. n) = n + 1
    <3> HIDE DEF n
    <3>1. 0 \in Int /\ n \in Int
      BY <1>1
    <3>2. IsFiniteSet(0 .. n) /\ Cardinality(0 .. n) = IF 0 > n THEN 0 ELSE n - 0 + 1
      BY <3>1, FS_Interval
    <3> QED
      BY <1>1, <3>2
  <2>3. PICK i \in 0 .. n, j \in 0 .. n : i # j /\ f[i] = f[j]
    <3>1. Cardinality(log) < Cardinality(0 .. n)
      BY <1>1, <2>2
    <3>2. PICK N : N = 0 .. n
      OBVIOUS
    <3> HIDE DEF f, n
    <3>3. f \in [N -> log] /\ IsFiniteSet(N) /\ Cardinality(log) < Cardinality(N)
      BY <2>1, <2>2, <3>1, <3>2
    <3>4. PICK g \in [N -> log] : g = f
      BY <3>3
    <3>5. \E i, j \in N : i # j /\ g[i] = g[j]
      BY <3>3, FS_PigeonHole
    <3> QED
      BY <3>2, <3>4, <3>5
  <2>4. f[i].k = i /\ f[j].k = j
    OBVIOUS
  <2> QED
    BY <2>3, <2>4
<1>3. Free \in SUBSET Nat
  BY <1>1
<1>4. Least(Free) \in Free
  <2> HIDE DEF Free
  <2> QED
    BY <1>2, <1>3, Minimum
<1>5. Item(type, a) = [type |-> type, addr |-> a, k |-> Least(Free)]
  BY DEF Item
<1> QED
  BY <1>3, <1>4, <1>5

LEMMA WriteTypes ==
  ASSUME NEW tr \in [Page -> EntryType], NEW S, NEW entry \in EntryType
  PROVE  Write(tr, S, entry) \in [Page -> EntryType]
BY DEF Write

LEMMA FunctionsStay ==
  ASSUME Types, NEW t \in Thread, Plain(t) \/ Pooling(t) \/ Shaping(t)
  PROVE  DOMAIN ext' = Page /\ ext' = [a \in Page |-> ext'[a]]
<1>1. ext \in [Page -> ExtentType]
  BY RecordTypes
<1>2. CASE UNCHANGED ext
  BY <1>1, <1>2
<1>3. CASE Log(t)
  BY ZenonT(60), <1>1, <1>3 DEF Log
<1>4. CASE Plain(t)
  BY ZenonT(60), <1>2, <1>3, <1>4 DEF Plain, Carve, MapFile, MapFails, InsertFile, Look, Punch, PunchStops, NoDecay,
       Decay, EvictNone, EvictStops, Stashed, Fill, Pop, LogCached, LogFree, GCStops, Begin,
       MallocCall, SlabCall, FreeCall, UnslabCall, memory
<1>5. CASE Recycle(t) \/ Trail(t) \/ Retired(t) \/ EvictDirty(t) \/ Check(t)
  BY SMTT(30), <1>1, <1>5 DEF Recycle, Trail, Retired, EvictDirty, Check
<1>6. CASE Relock(t) \/ Settle(t)
  BY <1>1, <1>6 DEF Relock, Settle
<1>7. CASE Split(t)
  BY <1>1, <1>7 DEF Split
<1>8. CASE Interior(t) \/ Register(t) \/ Record(t)
  BY Zenon, <1>1, <1>8 DEF Interior, Register, Record
<1>9. CASE Retire(t)
  BY <1>1, <1>9 DEF Retire, memory
<1>10. CASE Merge(t)
  BY Zenon, <1>1, <1>10 DEF Merge
<1> QED
  BY <1>4, <1>5, <1>6, <1>7, <1>8, <1>9, <1>10 DEF Pooling, Shaping

LEMMA ExtentsTyped ==
  ASSUME IndInv, NEW t \in Thread, Plain(t) \/ Pooling(t) \/ Shaping(t)
  PROVE  ext' \in [Page -> ExtentType]
<1>1. Types /\ ext \in [Page -> ExtentType] /\ IsFiniteSet(log)
  BY Parts, RecordTypes
<1> SUFFICES \A d \in Page : ext'[d] \in ExtentType
  BY <1>1, FunctionsStay
<1>2. PICK l \in Locals : l = loc[t] /\ Control(pc[t], l, mapped, cache[t])
  BY <1>1, Parts, TypesOf
<1>3. CASE ext' = ext
  BY <1>1, <1>3
<1>4. CASE Log(t)
  <2>1. pc[t] = "log" /\ ext' = [ext EXCEPT ![l.obj].log = Item(l.op, l.obj)]
    BY <1>2, <1>4 DEF Log, At
  <2>2. l.op \in {"malloc", "slab"} /\ l.obj \in Page
    BY <1>2, <2>1 DEF Control, CallsAt
  <2>3. PICK i \in ItemType : i = Item(l.op, l.obj)
    <3>1. PICK k \in Nat : Item(l.op, l.obj) = [type |-> l.op, addr |-> l.obj, k |-> k]
      BY <1>1, ItemNew
    <3> QED
      BY <2>2, <3>1 DEF ItemType
  <2>4. ext' = [ext EXCEPT ![l.obj].log = i]
    BY <2>1, <2>3
  <2>5. ASSUME NEW d \in Page PROVE ext'[d] \in ExtentType
    <3>1. PICK x \in ExtentType : x = ext[d]
      BY <1>1
    <3>2. ext'[d] = x \/ ext'[d] = [x EXCEPT !.log = i]
      BY <1>1, <2>2, <2>4, <3>1
    <3>3. [x EXCEPT !.log = i] \in ExtentType
      BY DEF ExtentType
    <3> QED
      BY <3>2, <3>3
  <2> QED
    BY <2>5
<1>5. CASE Plain(t)
  <2>1. UNCHANGED <<memory, pool>> \/ Log(t)
    BY Zenon, <1>5 DEF Plain, Carve, MapFile, MapFails, InsertFile, Look, Punch, PunchStops, NoDecay,
       Decay, EvictNone, EvictStops, Stashed, Fill, Pop, LogCached, LogFree, GCStops, Begin,
       MallocCall, SlabCall, FreeCall, UnslabCall
  <2> QED
    BY <1>3, <1>4, <2>1 DEF memory
<1>6. CASE Pooling(t)
  <2>1. ASSUME NEW p \in Kinds, NEW b \in Page, Pulled(t, p, b) \/ Pushed(t, p, b)
        PROVE  \A d \in Page : ext'[d] \in ExtentType
    <3>1. PICK x \in ExtentType : x = ext[b]
      BY <1>1
    <3>2. PICK s \in {"active", "dirty", "muzzy"} : ext'[b] = [x EXCEPT !.state = s]
      BY <2>1, <3>1 DEF Pulled, Pushed, Kinds
    <3>3. [x EXCEPT !.state = s] \in ExtentType
      BY DEF ExtentType
    <3>4. \A d \in Page \ {b} : ext'[d] = ext[d]
      BY <2>1 DEF Pulled, Pushed
    <3> QED
      BY <1>1, <3>2, <3>3, <3>4
  <2> QED
    BY <1>3, <1>6, <2>1, PoolingDoes
<1>7. MAX_PSZ_IDX \in 0 .. SLAB_SCIND /\ Class \subseteq 0 .. SLAB_SCIND
      /\ NPages \in Nat /\ CHUNK \in Nat /\ CHUNK <= NPages
  BY ClassesAre, Sizes
<1>8. ASSUME NEW a \in Page, NEW b \in Page, Cut(t, a, b)
      PROVE  \A d \in Page : ext'[d] \in ExtentType
  <2>1. PICK x \in ExtentType : x = ext[a]
    BY <1>1
  <2>2. PICK n \in 1 .. CHUNK, c \in 0 .. SLAB_SCIND, m \in 1 .. NPages :
          n = l.n /\ c = l.c /\ m = ext[a].size /\ m > n
    BY <1>2, <1>8 DEF Cut
  <2>3. PICK i \in ItemType : i = ext[b].log
    BY <1>1 DEF ExtentType
  <2>4. /\ ext'[a] = [x EXCEPT !.size = n, !.szind = c]
        /\ ext'[b] = [size |-> m - n, szind |-> MAX_PSZ_IDX, slab |-> FALSE,
                      state |-> "active", log |-> i]
        /\ \A d \in Page \ {a, b} : ext'[d] = ext[d]
    BY <1>2, <1>8, <2>1, <2>2, <2>3 DEF Cut
  <2>5. n \in 0 .. NPages /\ m - n \in 0 .. NPages
    BY <1>7, <2>2
  <2>6. ext'[a] \in ExtentType
    BY <2>4, <2>5 DEF ExtentType
  <2>7. ext'[b] \in ExtentType
    BY <1>7, <2>4, <2>5 DEF ExtentType
  <2> QED
    BY <1>1, <2>4, <2>6, <2>7
<1>9. ASSUME NEW a \in Page, Whole(t, a) \/ Marked(t, a) \/ Recorded(t, a)
      PROVE  \A d \in Page : ext'[d] \in ExtentType
  <2>1. PICK x \in ExtentType : x = ext[a]
    BY <1>1
  <2>2. CASE Whole(t, a)
    <3>1. PICK c \in 0 .. SLAB_SCIND : ext'[a] = [x EXCEPT !.szind = c]
      BY <2>1, <2>2 DEF Whole
    <3>2. ext'[a] \in ExtentType
      BY <3>1 DEF ExtentType
    <3> QED
      BY <1>1, <2>2, <3>2 DEF Whole
  <2>3. CASE Marked(t, a)
    <3>1. ext'[a] = [x EXCEPT !.slab = TRUE]
      BY <2>1, <2>3 DEF Marked
    <3>2. ext'[a] \in ExtentType
      BY <3>1 DEF ExtentType
    <3> QED
      BY <1>1, <2>3, <3>2 DEF Marked
  <2>4. CASE Recorded(t, a)
    <3>1. ext'[a] = [x EXCEPT !.szind = MAX_PSZ_IDX, !.slab = FALSE]
      BY <2>1, <2>4 DEF Recorded
    <3>2. ext'[a] \in ExtentType
      BY <1>7, <3>1 DEF ExtentType
    <3> QED
      BY <1>1, <2>4, <3>2 DEF Recorded
  <2> QED
    BY <1>9, <2>2, <2>3, <2>4
<1>10. ASSUME NEW a \in Page, NEW n \in Nat, Registered(t, a, n) \/ Kept(t, a, n)
       PROVE  \A d \in Page : ext'[d] \in ExtentType
  <2>1. PICK i \in ItemType : i = ext[a].log
    BY <1>1 DEF ExtentType
  <2>2. \A d \in Page \ {a} : ext'[d] = ext[d]
    BY <1>10 DEF Registered, Kept
  <2>3. PICK c \in 0 .. SLAB_SCIND, s \in BOOLEAN :
          n \in 1 .. CHUNK /\ ext'[a] = [size |-> n, szind |-> c, slab |-> s,
                                         state |-> "active", log |-> i]
    <3>1. CASE Registered(t, a, n)
      <4>1. l.slab \in BOOLEAN
        BY DEF Locals
      <4> QED
        BY <1>2, <2>1, <3>1, <4>1 DEF Registered
    <3>2. CASE Kept(t, a, n)
      BY <1>7, <2>1, <3>2 DEF Kept
    <3> QED
      BY <1>10, <3>1, <3>2
  <2>4. n \in 0 .. NPages
    BY <1>7, <2>3
  <2>5. ext'[a] \in ExtentType
    BY <2>3, <2>4 DEF ExtentType
  <2> QED
    BY <1>1, <2>2, <2>5
<1>11. ASSUME NEW a \in Page, NEW b \in Page, Merged(t, a, b)
       PROVE  \A d \in Page : ext'[d] \in ExtentType
  <2>1. PICK x \in ExtentType, y \in ExtentType : x = ext[a] /\ y = ext[b]
    BY <1>1
  <2>2. PICK m \in 1 .. NPages, n \in 1 .. NPages :
          m = ext[a].size /\ n = ext[b].size /\ b = a + m /\ b + n <= NPages
    BY <1>11 DEF Merged
  <2>3. /\ ext'[a] = [x EXCEPT !.size = m + n, !.szind = MAX_PSZ_IDX]
        /\ ext'[b] = [y EXCEPT !.state = "none"]
        /\ \A d \in Page \ {a, b} : ext'[d] = ext[d]
    BY <1>11, <2>1, <2>2 DEF Merged
  <2>4. m + n \in 0 .. NPages
    <3>1. a \in Nat
      BY Pages_
    <3> QED
      BY <1>7, <2>2, <3>1
  <2>5. ext'[a] \in ExtentType /\ ext'[b] \in ExtentType
    BY <1>7, <2>3, <2>4 DEF ExtentType
  <2> QED
    BY <1>1, <2>3, <2>5
<1>12. CASE Shaping(t)
  <2>1. Forgot(t) => ext' = ext
    BY DEF Forgot
  <2> QED
    BY <1>3, <1>8, <1>9, <1>10, <1>11, <1>12, <2>1, SplitDoes, InteriorDoes, RegisterDoes, RetireDoes,
       RecordDoes, MergeDoes DEF Shaping
<1> QED
  BY <1>5, <1>6, <1>12

LEMMA EntriesTyped ==
  ASSUME IndInv, NEW t \in Thread, Plain(t) \/ Pooling(t) \/ Shaping(t)
  PROVE  tree' \in [Page -> EntryType]
<1>1. Types /\ tree \in [Page -> EntryType] /\ loc \in [Thread -> Locals]
  BY Parts, RecordTypes, TypesOf
<1>2. PICK l \in Locals : l = loc[t]
  BY <1>1
<1>3. MAX_PSZ_IDX \in 0 .. SLAB_SCIND /\ SLAB_SCIND \in 0 .. SLAB_SCIND
      /\ Class \subseteq 0 .. SLAB_SCIND /\ Nil \in EntryType
      /\ \A a \in Page : [Nil EXCEPT !.e = a] \in EntryType
  BY ClassesAre
<1>4. l.c \in 0 .. SLAB_SCIND /\ l.slab \in BOOLEAN
  BY DEF Locals
<1>5. \A a \in Page, c \in 0 .. SLAB_SCIND, s \in BOOLEAN : [e |-> a, szind |-> c, slab |-> s] \in EntryType
  BY DEF EntryType
<1>6. CASE tree' = tree
  BY <1>1, <1>6
<1>7. ASSUME NEW S, NEW D, NEW x \in EntryType, NEW y \in EntryType,
             tree' = Write(tree, S, x) \/ tree' = Write(Write(tree, S, x), D, y)
      PROVE  tree' \in [Page -> EntryType]
  BY <1>1, <1>7, WriteTypes
<1>8. ASSUME NEW a \in Page, NEW b \in Page, Cut(t, a, b) PROVE tree' \in [Page -> EntryType]
  <2>1. PICK x, y, S, D : x \in EntryType /\ y \in EntryType /\ tree' = Write(Write(tree, S, x), D, y)
    BY <1>2, <1>3, <1>4, <1>5, <1>8 DEF Cut
  <2> QED
    BY <1>7, <2>1
<1>9. ASSUME NEW a \in Page, Whole(t, a) PROVE tree' \in [Page -> EntryType]
  <2>1. PICK x, S : x \in EntryType /\ tree' = Write(tree, S, x)
    BY <1>2, <1>4, <1>5, <1>9 DEF Whole
  <2> QED
    BY <1>7, <2>1
<1>10. ASSUME NEW a \in Page, Marked(t, a) PROVE tree' \in [Page -> EntryType]
  <2>1. PICK x, S : x \in EntryType /\ tree' = Write(tree, S, x)
    BY <1>3, <1>5, <1>10 DEF Marked, SlabEntry
  <2> QED
    BY <1>7, <2>1
<1>11. ASSUME NEW a \in Page, Recorded(t, a) PROVE tree' \in [Page -> EntryType]
  <2>1. CASE tree' = tree
    BY <1>6, <2>1
  <2>2. CASE tree' # tree
    <3>1. PICK x, y, S, D : x \in EntryType /\ y \in EntryType /\ tree' = Write(Write(tree, S, x), D, y)
      BY <1>3, <1>5, <1>11, <2>2 DEF Recorded
    <3> QED
      BY <1>7, <3>1
  <2> QED
    BY <2>1, <2>2
<1>12. ASSUME NEW a \in Page, NEW n \in Nat, Registered(t, a, n)
       PROVE  tree' \in [Page -> EntryType]
  <2>1. PICK x, S : x \in EntryType /\ tree' = Write(tree, S, x)
    BY <1>2, <1>4, <1>5, <1>12 DEF Registered
  <2> QED
    BY <1>7, <2>1
<1>13. ASSUME NEW a \in Page, NEW n \in Nat, Kept(t, a, n) PROVE tree' \in [Page -> EntryType]
  <2>1. PICK c \in 0 .. SLAB_SCIND : c = get_psizeclass(n)
    BY <1>3, <1>13 DEF Kept
  <2>2. [Nil EXCEPT !.e = a, !.szind = c] \in EntryType
    BY <1>3 DEF EntryType
  <2>3. PICK x, S : x \in EntryType /\ tree' = Write(tree, S, x)
    BY <1>13, <2>1, <2>2 DEF Kept
  <2> QED
    BY <1>7, <2>3
<1>14. ASSUME NEW a \in Page, NEW b \in Page, Merged(t, a, b) PROVE tree' \in [Page -> EntryType]
  <2>1. PICK x, y, S, D : x \in EntryType /\ y \in EntryType /\ tree' = Write(Write(tree, S, x), D, y)
    BY <1>3, <1>14 DEF Merged
  <2> QED
    BY <1>7, <2>1
<1>15. CASE Plain(t)
  BY <1>1, <1>6, <1>15, PlainKeeps DEF SameExtents
<1>16. CASE Pooling(t)
  BY <1>6, <1>16, PoolingKeeps DEF SameExtents
<1>17. CASE Shaping(t)
  <2>1. Forgot(t) => tree' = tree
    BY DEF Forgot
  <2> QED
    BY <1>6, <1>8, <1>9, <1>10, <1>11, <1>12, <1>13, <1>14, <1>17, <2>1, SplitDoes, InteriorDoes,
       RegisterDoes, RetireDoes, RecordDoes, MergeDoes DEF Shaping
<1> QED
  BY <1>15, <1>16, <1>17

LEMMA PoolsTyped ==
  ASSUME IndInv, NEW t \in Thread, Plain(t) \/ Pooling(t) \/ Shaping(t)
  PROVE  pool' \in [Kinds -> PoolType]
<1>1. Types /\ Tiled /\ PoolsInOrder /\ pool \in [Kinds -> PoolType]
  BY Parts, RecordTypes
<1>2. CASE pool' = pool
  BY <1>1, <1>2
<1>3. ASSUME NEW p \in Kinds, NEW P \in PoolType, pool' = [pool EXCEPT ![p] = P]
      PROVE  pool' \in [Kinds -> PoolType]
  BY <1>1, <1>3
<1>4. \A p \in Kinds : /\ Lists(pool[p], InPool(p), ext) /\ pool[p].lru \in Seq(Page)
                       /\ InPool(p) \in SUBSET Live
  BY <1>1, PooledLive DEF PoolsInOrder, PoolType
<1>5. ASSUME NEW p \in Kinds, NEW b \in Page, Pulled(t, p, b)
      PROVE  pool' \in [Kinds -> PoolType]
  <2>1. PICK P, Q : P = pool[p] /\ Q = Removed(P, b)
    OBVIOUS
  <2>2. PICK S \in SUBSET Live, R \in SUBSET Live : S = InPool(p) /\ R = S \ {b}
    BY <1>4
  <2>3. b \in S /\ Lists(P, S, ext) /\ P.lru \in Seq(Page)
    BY <1>4, <1>5, <2>1, <2>2 DEF Pulled, InPool
  <2>4. Lists(Q, R, ext)
    BY <1>1, <2>1, <2>2, <2>3, ListsWithout
  <2>5. Q.bitmap \in SUBSET Class /\ Q.npages \in Nat
    BY <1>1, <2>4, ListsTypes
  <2>6. Q.lru \in Seq(Page)
    <3>1. NoDup(P.lru) /\ b \in Elems(P.lru)
      BY <2>3 DEF Lists
    <3>2. Without(P.lru, b) \in Seq(Page)
      BY <2>3, <3>1, WithoutOnce
    <3> QED
      BY <2>1, <3>2 DEF Removed
  <2>7. Q = [lru |-> Q.lru, bitmap |-> Q.bitmap, npages |-> Q.npages]
    BY <2>1 DEF Removed
  <2>8. Q \in PoolType
    BY <2>5, <2>6, <2>7 DEF PoolType
  <2> QED
    BY <1>3, <1>5, <2>1, <2>8 DEF Pulled
<1>6. ASSUME NEW p \in Kinds, NEW b \in Page, Pushed(t, p, b)
      PROVE  pool' \in [Kinds -> PoolType]
  <2>1. PICK P, Q : P = pool[p] /\ Q = Inserted(P, b)
    OBVIOUS
  <2>2. b \in Live /\ b \notin InPool(p)
    BY <1>6 DEF Pushed, Live, InPool, Kinds
  <2>3. PICK S \in SUBSET Live, R \in SUBSET Live : S = InPool(p) /\ R = S \cup {b}
    BY <1>4, <2>2
  <2>4. Lists(P, S, ext) /\ P.lru \in Seq(Page)
    BY <1>4, <2>1, <2>3
  <2>5. Lists(Q, R, ext)
    BY <1>1, <2>1, <2>2, <2>3, <2>4, ListsWith
  <2>6. Q.bitmap \in SUBSET Class /\ Q.npages \in Nat
    BY <1>1, <2>5, ListsTypes
  <2>7. Q.lru \in Seq(Page)
    BY <2>1, <2>4, AppendProperties DEF Inserted
  <2>8. Q = [lru |-> Q.lru, bitmap |-> Q.bitmap, npages |-> Q.npages]
    BY <2>1 DEF Inserted
  <2>9. Q \in PoolType
    BY <2>6, <2>7, <2>8 DEF PoolType
  <2> QED
    BY <1>3, <1>6, <2>1, <2>9 DEF Pushed
<1>7. CASE Plain(t)
  BY <1>1, <1>2, <1>7, PlainKeeps DEF SameStates
<1>8. CASE Pooling(t)
  BY <1>2, <1>5, <1>6, <1>8, PoolingDoes
<1>9. CASE Shaping(t)
  BY Zenon, <1>2, <1>9 DEF Shaping, Split, Interior, Retire, Register, Record, Merge
<1> QED
  BY <1>7, <1>8, <1>9

----------------------------------------------------------------------------
(* The types of the locks, the log, the arena and the program. *)

\* The rest of the state has its type.
LEMMA LocksTyped ==
  ASSUME Types, NEW t \in Thread, Plain(t) \/ Pooling(t) \/ Shaping(t)
  PROVE  /\ lock' \in [{"dirty", "muzzy", "arena"} -> Thread \cup {NoThread}]
         /\ purging' \in [Kinds -> BOOLEAN]
         /\ DOMAIN pc' = Thread /\ pc' = [u \in Thread |-> pc'[u]]
         /\ DOMAIN loc' = Thread /\ loc' = [u \in Thread |-> loc'[u]]
<1>1. /\ pc \in [Thread -> PCs] /\ loc \in [Thread -> Locals]
      /\ lock \in [{"dirty", "muzzy", "arena"} -> Thread \cup {NoThread}]
      /\ purging \in [Kinds -> BOOLEAN]
  BY TypesOf
<1>2. loc[t].p \in Kinds /\ loc[t].d \in Kinds
  BY <1>1 DEF Locals
<1>3. CASE Carve(t) \/ MapFile(t) \/ MapFails(t) \/ InsertFile(t)
  BY <1>1, <1>3 DEF Carve, MapFile, MapFails, InsertFile, Hold, Goto
<1>4. CASE Look(t) \/ Punch(t) \/ PunchStops(t) \/ NoDecay(t)
  BY <1>1, <1>4 DEF Look, Onward, Punch, PunchStops, NoDecay, After, Goto
<1>5. ASSUME NEW d \in Kinds, NEW L \in Limits, Decay(t, d, L)
      PROVE  /\ lock' = lock /\ purging' = [purging EXCEPT ![d] = TRUE]
             /\ pc' = [pc EXCEPT ![t] = "evict"] /\ DOMAIN loc' = Thread /\ loc' = [u \in Thread |-> loc'[u]]
  BY <1>1, <1>5 DEF Decay, Goto
<1>6. CASE \E d \in Kinds, L \in Limits : Decay(t, d, L)
  BY <1>1, <1>5, <1>6
<1>7. CASE EvictNone(t) \/ EvictStops(t) \/ Stashed(t)
  BY <1>1, <1>2, <1>7 DEF EvictNone, EvictStops, Stashed, After, Hold, Goto, Kinds
<1>8. CASE Fill(t) \/ Pop(t) \/ Log(t) \/ LogCached(t) \/ LogFree(t) \/ GCStops(t)
  BY <1>1, <1>8 DEF Fill, Pop, Log, LogCached, LogFree, GCStops, Done, Goto
<1>9. CASE Begin(t)
  BY Zenon, <1>1, <1>9 DEF Begin, MallocCall, SlabCall, FreeCall, UnslabCall, Goto
<1>10. CASE Recycle(t) \/ Trail(t) \/ Retired(t)
  BY <1>1, <1>10 DEF Recycle, Trail, Retired, Taken, Goto
<1>11. CASE EvictDirty(t) \/ Check(t)
  BY <1>1, <1>2, <1>11 DEF EvictDirty, Check, Onward, Hold, Goto, Kinds
<1>12. CASE Relock(t) \/ Settle(t)
  BY <1>1, <1>2, <1>12 DEF Relock, Settle, Hold, Goto, Kinds
<1>13. CASE Split(t) \/ Interior(t) \/ Retire(t) \/ Register(t) \/ Merge(t)
  BY Zenon, <1>1, <1>13 DEF Split, Interior, Retire, Register, Merge, Taken, Hold, Goto
<1>14. CASE Record(t)
  BY <1>1, <1>2, <1>14 DEF Record, Hold, Goto, Kinds
<1> QED
  BY <1>3, <1>4, <1>6, <1>7, <1>8, <1>9, <1>10, <1>11, <1>12, <1>13, <1>14
     DEF Plain, Pooling, Shaping

\* The items of the log.
LogInOrder ==
  /\ IsFiniteSet(log)
  /\ \A i \in log : i.type \in {"file", "malloc", "slab"} /\ i.addr \in Page /\ i.k \in Nat

LEMMA LogKept ==
  ASSUME IndInv, NEW t \in Thread, Plain(t) \/ Pooling(t) \/ Shaping(t)
  PROVE  LogInOrder'
<1>1. Types /\ IsFiniteSet(log) /\ LogInOrder
  BY Parts DEF LogInOrder, Types, TypeOK
<1>2. PICK l \in Locals : l = loc[t] /\ Control(pc[t], l, mapped, cache[t])
  BY PlacedNow DEF Placed
<1>3. ASSUME NEW S, log' = log \ S PROVE LogInOrder'
  BY <1>1, <1>3, FS_Difference DEF LogInOrder
<1>4. ASSUME NEW type \in {"file", "malloc", "slab"}, NEW a \in Page, log' = log \cup {Item(type, a)}
      PROVE  LogInOrder'
  <2>1. PICK k \in Nat : Item(type, a) = [type |-> type, addr |-> a, k |-> k]
    BY <1>1, ItemNew
  <2>2. PICK i : i = Item(type, a) /\ i.type = type /\ i.addr = a /\ i.k = k
    BY <2>1
  <2>3. IsFiniteSet(log \cup {i})
    BY <1>1, FS_AddElement
  <2> QED
    BY <1>1, <1>4, <2>2, <2>3 DEF LogInOrder
<1>5. CASE MapFile(t)
  <2>1. PICK k \in Chunk : log' = log \cup {Item("file", Base(k))}
    BY <1>5 DEF MapFile
  <2>2. Base(k) \in Page
    BY Chunks
  <2> QED
    BY <1>4, <2>1, <2>2
<1>6. CASE Log(t)
  <2>1. pc[t] = "log" /\ log' = log \cup {Item(l.op, l.obj)}
    BY <1>2, <1>6 DEF Log, At
  <2>2. l.op \in {"malloc", "slab"} /\ l.obj \in Page
    BY <1>2, <2>1 DEF Control, CallsAt
  <2> QED
    BY <1>4, <2>1, <2>2
<1>7. CASE LogCached(t) \/ LogFree(t)
  BY Zenon, <1>3, <1>7 DEF LogCached, LogFree
<1>8. CASE log' = log
  BY <1>1, <1>8 DEF LogInOrder
<1>9. log' = log \/ MapFile(t) \/ Log(t) \/ LogCached(t) \/ LogFree(t)
  BY Zenon DEF Plain, Pooling, Shaping, Carve, MapFails, InsertFile, Look, Punch, PunchStops, NoDecay,
     Decay, EvictNone, EvictStops, Stashed, Fill, Pop, GCStops, Begin, MallocCall, SlabCall,
     FreeCall, UnslabCall, Recycle, Trail, Retired, EvictDirty, Check, Relock, Settle, Split,
     Interior, Retire, Register, Record, Merge
<1> QED
  BY <1>5, <1>6, <1>7, <1>8, <1>9

LEMMA ArenaTyped ==
  ASSUME IndInv, NEW t \in Thread, Plain(t) \/ Pooling(t) \/ Shaping(t)
  PROVE  lost' \subseteq Page /\ mapped' \subseteq Chunk /\ files' \subseteq mapped'
<1>1. Types /\ lost \subseteq Page /\ mapped \subseteq Chunk /\ files \subseteq mapped
  BY Parts, TypesOf
<1>2. PICK l \in Locals : l = loc[t] /\ Control(pc[t], l, mapped, cache[t])
  BY PlacedNow DEF Placed
<1>3. CASE Carve(t)
  BY <1>1, <1>3 DEF Carve
<1>4. CASE MapFile(t)
  BY <1>1, <1>4 DEF MapFile
<1>5. CASE InsertFile(t)
  <2>1. l.y \in mapped
    BY <1>2, <1>5, TakingAt DEF InsertFile, At, Taking
  <2> QED
    BY <1>1, <1>2, <1>5, <2>1 DEF InsertFile
<1>6. CASE Plain(t) /\ ~Carve(t) /\ ~MapFile(t) /\ ~InsertFile(t)
  BY <1>1, <1>6, Quietly
<1>7. CASE Pooling(t)
  BY <1>1, <1>7, PoolingKeeps
<1>8. CASE Retire(t)
  <2>1. files' = files /\ mapped' = mapped
    BY <1>8 DEF Retire
  <2>2. CASE lost' = lost
    BY <1>1, <2>1, <2>2
  <2>3. CASE Forgot(t)
    <3>1. \A q \in Span(fresh.mem, fresh.n) : q \in Page
      <4>1. fresh \in [mem : {NoPage} \cup 0 .. NPages, n : 0 .. CHUNK] /\ NewMemory
        BY Parts, TypesOf
      <4>2. PICK m \in Int, n \in Nat : m = fresh.mem /\ n = fresh.n
        BY <4>1, Sizes DEF NoPage
      <4>3. n # 0 => m \in Page /\ m + n <= NPages
        BY <4>1, <4>2 DEF NewMemory
      <4> QED
        BY <4>2, <4>3, Sizes DEF Span, Page
    <3> QED
      BY <1>1, <2>1, <2>3, <3>1 DEF Forgot
  <2> QED
    BY Zenon, <1>8, <2>2, <2>3, RetireDoes DEF Kept
<1>9. CASE Split(t) \/ Interior(t) \/ Register(t) \/ Record(t) \/ Merge(t)
  BY Zenon, <1>1, <1>9 DEF Split, Interior, Register, Record, Merge, arena
<1> QED
  BY <1>3, <1>4, <1>5, <1>6, <1>7, <1>8, <1>9 DEF Shaping

LEMMA ProgramTyped ==
  ASSUME IndInv, NEW t \in Thread, Plain(t) \/ Pooling(t) \/ Shaping(t)
  PROVE  /\ cache' \in [Thread -> [Requests -> Seq(Page)]]
         /\ held' \subseteq Page /\ slabs' \subseteq Page /\ ops' \in 0 .. MaxOps
<1>1. /\ Types /\ cache \in [Thread -> [Requests -> Seq(Page)]] /\ loc \in [Thread -> Locals]
      /\ held \subseteq Page /\ slabs \subseteq Page /\ ops \in 0 .. MaxOps
  BY Parts, TypesOf DEF Types, TypeOK
<1>2. PICK l \in Locals : l = loc[t] /\ Control(pc[t], l, mapped, cache[t])
  BY PlacedNow DEF Placed
<1>3. ASSUME NEW c \in Requests, NEW s \in Seq(Page), cache' = [cache EXCEPT ![t][c] = s]
      PROVE  cache' \in [Thread -> [Requests -> Seq(Page)]]
  BY <1>1, <1>3
<1>4. ASSUME UNCHANGED program PROVE cache' = cache /\ held' = held /\ slabs' = slabs
  BY <1>4 DEF program
<1>5. CASE Fill(t)
  <2>1. pc[t] = "filled"
    BY <1>5 DEF Fill, At
  <2>2. l.c \in Requests /\ l.obj \in Page
    BY <1>2, <2>1 DEF Control, CallsAt, Request
  <2>3. PICK s \in Seq(Page) : s = cache[t][l.c]
    BY <1>1, <2>2
  <2>4. PICK r : r = Append(s, l.obj)
    OBVIOUS
  <2>5. r \in Seq(Page)
    BY <2>2, <2>4, AppendProperties
  <2>6. cache' = [cache EXCEPT ![t][l.c] = r]
    BY <1>1, <1>2, <1>5, <2>2, <2>3, <2>4 DEF Fill
  <2> QED
    BY <1>1, <1>3, <1>5, <2>2, <2>5, <2>6 DEF Fill
<1>6. CASE LogCached(t)
  <2>1. pc[t] = "logcached"
    BY <1>6 DEF LogCached, At
  <2>2. l.c \in Requests /\ l.obj \in Page
    BY <1>2, <2>1, Parts DEF Control, Hands
  <2>3. PICK s \in Seq(Page) : s = cache[t][l.c]
    BY <1>1, <2>2
  <2>4. PICK r : r = Append(s, l.obj)
    OBVIOUS
  <2>5. r \in Seq(Page)
    BY <2>2, <2>4, AppendProperties
  <2>6. cache' = [cache EXCEPT ![t][l.c] = r]
    BY <1>1, <1>2, <1>6, <2>2, <2>3, <2>4 DEF LogCached
  <2> QED
    BY <1>1, <1>3, <1>6, <2>2, <2>5, <2>6 DEF LogCached
<1>7. CASE Pop(t)
  <2>1. pc[t] = "pop"
    BY <1>7 DEF Pop, At
  <2>2. l.c \in Requests /\ cache[t][l.c] # <<>>
    BY <1>2, <2>1 DEF Control, CallsAt, Request
  <2>3. PICK s \in Seq(Page) : s = cache[t][l.c]
    BY <1>1, <2>2
  <2>4. PICK r, a : r = SubSeq(s, 1, Len(s) - 1) /\ a = s[Len(s)]
    OBVIOUS
  <2>5. r \in Seq(Page) /\ a \in Page
    <3>1. s # <<>>
      BY <2>2, <2>3
    <3>2. a \in Page
      BY <2>4, <3>1, PlacesFront
    <3>3. PICK n \in Nat : n = Len(s) /\ n > 0
      BY <3>1, LenProperties, EmptySeq
    <3>4. \A i \in 1 .. n - 1 : s[i] \in Page
      BY <3>3, ElementOfSeq
    <3>5. SubSeq(s, 1, n - 1) \in Seq(Page)
      BY <3>3, <3>4, SubSeqProperties
    <3> QED
      BY <2>4, <3>2, <3>3, <3>5
  <2>6. cache' = [cache EXCEPT ![t][l.c] = r] /\ held' = held \cup {a} /\ slabs' = slabs
        /\ ops' = ops
    BY <1>1, <1>2, <1>7, <2>2, <2>3, <2>4 DEF Pop
  <2> QED
    BY <1>1, <1>3, <2>2, <2>5, <2>6
<1>8. CASE Log(t)
  <2>1. l.obj \in Page
    BY <1>2, <1>8 DEF Control, Log, At
  <2> QED
    BY <1>1, <1>2, <1>8, <2>1 DEF Log
<1>9. CASE Begin(t)
  <2>1. cache' = cache /\ held' \subseteq held /\ slabs' \subseteq slabs
    BY Zenon, <1>4, <1>9 DEF Begin, MallocCall, SlabCall, FreeCall, UnslabCall
  <2>2. ops < MaxOps /\ ops' = ops + 1
    BY Zenon, <1>9 DEF Begin, MallocCall, SlabCall, FreeCall, UnslabCall, Call
  <2>3. ops' \in 0 .. MaxOps
    BY <1>1, <2>2, PolicyAssumption
  <2> QED
    BY <1>1, <2>1, <2>3
<1>10. CASE UNCHANGED <<program, ops>>
  BY <1>1, <1>4, <1>10
<1>11. UNCHANGED <<program, ops>> \/ Fill(t) \/ LogCached(t) \/ Pop(t) \/ Log(t) \/ Begin(t)
  BY Zenon DEF Plain, Pooling, Shaping, Carve, MapFile, MapFails, InsertFile, Look, Punch, PunchStops,
     NoDecay, Decay, EvictNone, EvictStops, Stashed, LogFree, GCStops, Recycle, Trail, Retired,
     EvictDirty, Check, Relock, Settle, Split, Interior, Retire, Register, Record, Merge
<1> QED
  BY <1>5, <1>6, <1>7, <1>8, <1>9, <1>10, <1>11

LEMMA TypesKept ==
  ASSUME IndInv, NEW t \in Thread, Plain(t) \/ Pooling(t) \/ Shaping(t)
  PROVE  Types' /\ IsFiniteSet(log)'
<1>1. Types
  BY Parts
<1>2. \A u \in Thread : Placed(u)'
  BY AllPlaced, MemoryKept
<1>3. pc' \in [Thread -> PCs] /\ loc' \in [Thread -> Locals]
  BY <1>1, <1>2, LocksTyped DEF Placed
<1>4. ext' \in [Page -> ExtentType] /\ tree' \in [Page -> EntryType] /\ pool' \in [Kinds -> PoolType]
  BY ExtentsTyped, EntriesTyped, PoolsTyped
<1>5. /\ lock' \in [{"dirty", "muzzy", "arena"} -> Thread \cup {NoThread}]
      /\ purging' \in [Kinds -> BOOLEAN]
  BY <1>1, LocksTyped
<1>6. fresh' \in [mem : {NoPage} \cup 0 .. NPages, n : 0 .. CHUNK]
  BY MemoryKept
<1>7. /\ cache' \in [Thread -> [Requests -> Seq(Page)]]
      /\ held' \subseteq Page /\ slabs' \subseteq Page /\ ops' \in 0 .. MaxOps
  BY ProgramTyped
<1>8. lost' \subseteq Page /\ mapped' \subseteq Chunk /\ files' \subseteq mapped'
  BY ArenaTyped
<1>9. LogInOrder'
  BY LogKept
<1>10. IsFiniteSet(log)'
       /\ \A i \in log' : i.type \in {"file", "malloc", "slab"} /\ i.addr \in Page /\ i.k \in Nat
  BY <1>9 DEF LogInOrder
<1>11. TypeOK'
  BY <1>3, <1>4, <1>5, <1>6, <1>7, <1>8, <1>10 DEF TypeOK, ExtentType, EntryType, PoolType, ItemType, Kinds
<1> QED
  BY <1>3, <1>10, <1>11 DEF Types

----------------------------------------------------------------------------
(* What a thread knows of the extents it has, which no step of another
   changes. *)

\* An object, and what a thread knows at a step p with the locals l, for any
\* descriptors and tree.
IsObject(a, c, e, tr) ==
  /\ tr[a] = [e |-> a, szind |-> c, slab |-> FALSE]
  /\ e[a].szind = c /\ ~e[a].slab /\ e[a].size = psz[c]

Known(p, l, e, tr) ==
  /\ p = "split" => ~e[l.x].slab /\ e[l.x].size >= l.n
  /\ p = "trail" => /\ l.y = l.x + l.n /\ e[l.x].size = l.n
                    /\ ~e[l.x].slab /\ ~e[l.y].slab
                    /\ l.op = "malloc" => IsObject(l.x, l.c, e, tr)
  /\ p = "interior" => ~e[l.x].slab /\ e[l.x].size = SLAB
  /\ p = "retired" => ~e[l.y].slab
  /\ p \in (Giving \ {"record"}) \cup {"punch"} => ~e[l.x].slab
  /\ p = "merge" => /\ ~e[l.y].slab
                    /\ IF l.side = "next" THEN l.y = l.x + e[l.x].size
                                          ELSE l.x = l.y + e[l.y].size
  /\ \A i \in 1 .. Len(l.stash) : ~e[l.stash[i]].slab
  /\ p \in {"ticks", "ticks2", "filled"} \cup Purging /\ l.op = "malloc" =>
       IsObject(l.obj, l.c, e, tr)
  /\ p = "logcached" => l.c \in Requests /\ IsObject(l.obj, l.c, e, tr)

LEMMA KnownIs ==
  ASSUME NEW t \in Thread
  PROVE  /\ Hands(t) <=> Known(pc[t], loc[t], ext, tree)
         /\ Hands(t)' <=> Known(pc'[t], loc'[t], ext', tree')
BY DEF Hands, Known, Object, IsObject

\* The extents a thread has, and the rest of what it knows.
Grasp(p, l) == InHand(p, l) \cup Aside(p, l) \cup Elems(l.stash)

LEMMA KnownStays ==
  ASSUME NEW p \in PCs, NEW l \in Locals, NEW e, NEW tr, NEW f, NEW ts, Known(p, l, e, tr),
         \A a \in Grasp(p, l) : /\ ts[a] = tr[a] /\ f[a].size = e[a].size
                                /\ f[a].szind = e[a].szind /\ f[a].slab = e[a].slab
  PROVE  Known(p, l, f, ts)
<1> DEFINE Same(a) == /\ ts[a] = tr[a] /\ f[a].size = e[a].size
                      /\ f[a].szind = e[a].szind /\ f[a].slab = e[a].slab
<1>1. \A i \in 1 .. Len(l.stash) : Same(l.stash[i])
  BY DEF Grasp, Elems
<1>2. \A a \in InHand(p, l) \cup Aside(p, l) : Same(a)
  BY DEF Grasp
<1>3. p \in {"split", "interior", "punch", "record", "look", "check", "relock", "settle", "trail",
             "merge"} => Same(l.x)
  BY <1>2, HandAt
<1>4. p \in {"trail", "merge", "retired"} => Same(l.y)
  BY <1>2, HandAt
<1>5. p \in {"ticks", "ticks2", "filled"} \cup Purging /\ l.op = "malloc" => Same(l.obj)
  BY <1>2, HandAt DEF Purging, Giving
<1>6. p = "logcached" => Same(l.obj)
  BY <1>2, HandAt
<1>7. \A a, c : Same(a) => (IsObject(a, c, e, tr) => IsObject(a, c, f, ts))
  BY DEF IsObject
<1> HIDE DEF Same
<1>8. \A a : Same(a) => f[a].slab = e[a].slab /\ f[a].size = e[a].size
  BY DEF Same
<1>9. p \in (Giving \ {"record"}) \cup {"punch"} => Same(l.x)
  BY <1>3 DEF Giving
<1> QED
  BY <1>1, <1>3, <1>4, <1>5, <1>6, <1>7, <1>8, <1>9 DEF Known

\* A step changes no extent but those its thread has in hand, or new ones.
Spared(a) == tree'[a] = tree[a] /\ ext'[a].size = ext[a].size /\ ext'[a].szind = ext[a].szind
             /\ ext'[a].slab = ext[a].slab

LEMMA ShapingSpares ==
  ASSUME IndInv, NEW t \in Thread, Shaping(t), NEW d \in Live, d \notin InHand(pc[t], loc[t])
  PROVE  tree'[d] = tree[d] /\ ext'[d] = ext[d]
<1>1. Types /\ Tiled /\ d \in Page
  BY Parts DEF Live
<1>2. ASSUME NEW a \in Live, a # d PROVE d \notin Span(a, ext[a].size)
  BY <1>1, <1>2, Spans
<1>3. ASSUME NEW a \in Page, NEW n \in Nat, n # 0
      PROVE  Ends(a, n) \subseteq Span(a, n) /\ Inner(a, n) \subseteq Span(a, n)
  <2>1. a \in Nat
    BY Pages_
  <2> QED
    BY <1>3, <2>1 DEF Ends, Inner, Span
<1>4. ASSUME NEW S, NEW x, tree' = Write(tree, S, x), d \notin S PROVE tree'[d] = tree[d]
  BY <1>1, <1>4 DEF Write
<1>5. ASSUME NEW S, NEW x, NEW D, NEW y, tree' = Write(Write(tree, S, x), D, y), d \notin S, d \notin D
      PROVE  tree'[d] = tree[d]
  BY <1>1, <1>5 DEF Write
<1>6. ASSUME NEW a \in Page, NEW b \in Page, Cut(t, a, b) PROVE tree'[d] = tree[d] /\ ext'[d] = ext[d]
  <2>1. a \in Live /\ b \notin Live /\ a # d /\ b # d
    BY <1>6, HandAt DEF Cut, Live
  <2>2. PICK n \in Nat, m \in Nat : n = loc[t].n /\ m = ext[a].size /\ n # 0 /\ n < m /\ b = a + n
    BY <1>6, Sizes DEF Cut
  <2>3. d \notin Span(a, m)
    BY <1>2, <2>1, <2>2
  <2>4. Ends(a, n) \subseteq Span(a, m) /\ Last(a) \in Span(a, m) /\ b \in Span(a, m)
    <3>1. a \in Nat
      BY Pages_
    <3> QED
      BY <2>2, <3>1 DEF Ends, Span, Last
  <2>5. PICK x, y : tree' = Write(Write(tree, Ends(a, n), x), {b, Last(a)}, y)
    BY <1>6, <2>2 DEF Cut
  <2>6. d \notin Ends(a, n) /\ d \notin {b, Last(a)}
    BY <2>3, <2>4
  <2>7. ext'[d] = ext[d]
    BY <1>1, <1>6, <2>1 DEF Cut
  <2> QED
    BY <1>5, <2>5, <2>6, <2>7
<1>7. ASSUME NEW a \in Page, Whole(t, a) PROVE tree'[d] = tree[d] /\ ext'[d] = ext[d]
  <2>1. a \in Live /\ a # d
    BY <1>7, HandAt DEF Whole, Live
  <2>2. PICK n \in Nat : n = ext[a].size /\ n # 0 /\ n = loc[t].n
    BY <1>7, Sizes DEF Whole
  <2>3. d \notin Span(a, n)
    BY <1>2, <2>1, <2>2
  <2>4. ExactEnds(t) \subseteq Span(a, n)
    <3>1. a \in Span(a, n)
      BY <2>2, Pages_ DEF Span
    <3> QED
      BY <1>3, <1>7, <2>2, <3>1 DEF ExactEnds, Whole
  <2>5. PICK x : tree' = Write(tree, ExactEnds(t), x)
    BY <1>7 DEF Whole
  <2>6. d \notin ExactEnds(t)
    BY <2>3, <2>4
  <2>7. ext'[d] = ext[d]
    BY <1>1, <1>7, <2>1 DEF Whole
  <2> QED
    BY <1>4, <2>5, <2>6, <2>7
<1>8. ASSUME NEW a \in Page, Marked(t, a) PROVE tree'[d] = tree[d] /\ ext'[d] = ext[d]
  <2>1. a \in Live /\ a # d
    BY <1>8, HandAt DEF Marked, Live
  <2>2. ext[a].size = SLAB /\ tree' = Write(tree, SlabPages(a), SlabEntry(a))
    BY <1>8 DEF Marked
  <2>3. d \notin SlabPages(a)
    BY <1>2, <2>1, <2>2 DEF SlabPages, Span
  <2>4. ext'[d] = ext[d]
    BY <1>1, <1>8, <2>1 DEF Marked
  <2> QED
    BY <1>4, <2>2, <2>3, <2>4
<1>9. ASSUME NEW a \in Page, Recorded(t, a) PROVE tree'[d] = tree[d] /\ ext'[d] = ext[d]
  <2>1. a \in Live /\ a # d
    BY <1>9, HandAt DEF Recorded, Live
  <2>2. PICK n \in Nat : n = ext[a].size /\ n # 0
    BY <1>9, Sizes DEF Recorded
  <2>3. d \notin Inner(a, n) /\ d \notin Ends(a, n)
    BY <1>2, <1>3, <2>1, <2>2
  <2>4. tree'[d] = tree[d]
    <3>1. CASE tree' = tree
      BY <3>1
    <3>2. CASE tree' # tree
      <4>1. PICK x, y : tree' = Write(Write(tree, Inner(a, n), x), Ends(a, n), y)
        BY <1>9, <2>2, <3>2 DEF Recorded
      <4> QED
        BY <1>5, <2>3, <4>1
    <3> QED
      BY <3>1, <3>2
  <2>5. ext'[d] = ext[d]
    BY <1>1, <1>9, <2>1 DEF Recorded
  <2> QED
    BY <2>4, <2>5
<1>10. ASSUME NEW a \in Page, NEW n \in Nat, Registered(t, a, n)
       PROVE  tree'[d] = tree[d] /\ ext'[d] = ext[d]
  <2>1. a # d
    BY <1>10 DEF Registered, Live
  <2>2. d \notin Span(a, n)
    <3>1. d \in Span(d, ext[d].size) /\ \A q \in Span(a, n) : q \in Unregistered(pc[t], loc[t])
      BY <1>1, <1>10, Spans DEF Registered
    <3> QED
      BY <1>1, <3>1, Spans
  <2>3. PICK x, S : tree' = Write(tree, S, x) /\ ((S = SlabPages(a) /\ loc[t].slab) \/ S = Ends(a, n))
    BY <1>10 DEF Registered
  <2>4. n # 0 /\ (loc[t].slab => n = SLAB)
    <3>1. loc[t] \in Locals /\ Control(pc[t], loc[t], mapped, cache[t])
      BY PlacedNow DEF Placed
    <3> QED
      BY <1>10, <3>1, Sizes DEF Registered, Control, Request
  <2>5. d \notin S
    BY <1>3, <2>2, <2>3, <2>4 DEF SlabPages, Span
  <2>6. ext'[d] = ext[d]
    BY <1>1, <1>10, <2>1 DEF Registered
  <2> QED
    BY <1>4, <2>3, <2>5, <2>6
<1>11. ASSUME NEW a \in Page, NEW n \in Nat, Kept(t, a, n)
       PROVE  tree'[d] = tree[d] /\ ext'[d] = ext[d]
  <2>1. a # d /\ n # 0
    BY <1>11, Sizes DEF Kept, Live
  <2>2. d \notin Span(a, n)
    <3>1. d \in Span(d, ext[d].size) /\ a = fresh.mem /\ n = fresh.n
      BY <1>1, <1>11, Spans DEF Kept
    <3> QED
      BY <1>1, <3>1, Spans
  <2>3. PICK x : tree' = Write(tree, Ends(a, n), x)
    BY <1>11 DEF Kept
  <2>4. d \notin Ends(a, n)
    BY <1>3, <2>1, <2>2
  <2>5. ext'[d] = ext[d]
    BY <1>1, <1>11, <2>1 DEF Kept
  <2> QED
    BY <1>4, <2>3, <2>4, <2>5
<1>12. ASSUME NEW a \in Page, NEW b \in Page, Merged(t, a, b)
       PROVE  tree'[d] = tree[d] /\ ext'[d] = ext[d]
  <2>1. a \in Live /\ b \in Live /\ a # d /\ b # d
    BY <1>12, HandAt DEF Merged, Live
  <2>2. Last(a) \in Span(a, ext[a].size) /\ a \in Span(a, ext[a].size)
        /\ Last(b) \in Span(b, ext[b].size) /\ b \in Span(b, ext[b].size)
    BY <1>1, <2>1, Spans
  <2>3. d \notin {Last(a), b} /\ d \notin {a, Last(b)}
    BY <1>2, <2>1, <2>2
  <2>4. PICK x, y : tree' = Write(Write(tree, {Last(a), b}, x), {a, Last(b)}, y)
    BY <1>12 DEF Merged
  <2>5. ext'[d] = ext[d]
    BY <1>1, <1>12, <2>1 DEF Merged
  <2> QED
    BY <1>5, <2>3, <2>4, <2>5
<1>13. CASE Forgot(t)
  BY <1>13 DEF Forgot
<1> QED
  BY <1>6, <1>7, <1>8, <1>9, <1>10, <1>11, <1>12, <1>13, SplitDoes, InteriorDoes, RegisterDoes,
     RetireDoes, RecordDoes, MergeDoes DEF Shaping

LEMMA Spares ==
  ASSUME IndInv, NEW t \in Thread, Plain(t) \/ Pooling(t) \/ Shaping(t), NEW d \in Page,
         (d \in Live /\ d \notin InHand(pc[t], loc[t])) \/ Plain(t) \/ Pooling(t)
  PROVE  Spared(d)
<1>1. CASE Plain(t) \/ Pooling(t)
  BY <1>1, Parts, PlainKeeps, PoolingKeeps DEF SameExtents, Spared
<1>2. CASE ~(Plain(t) \/ Pooling(t))
  BY <1>2, ShapingSpares DEF Spared
<1> QED
  BY <1>1, <1>2

LEMMA GraspPages ==
  ASSUME IndInv, NEW u \in Thread
  PROVE  /\ Grasp(pc[u], loc[u]) \subseteq Page
         /\ \A c \in Requests : \A i \in 1 .. Len(cache[u][c]) : cache[u][c][i] \in Page
<1>1. PICK p \in PCs, l \in Locals : p = pc[u] /\ l = loc[u] /\ Control(p, l, mapped, cache[u])
  BY PlacedNow DEF Placed
<1>2. \A a \in Elems(l.stash) : a \in Page
  <2>1. l.stash \in Seq(Page)
    BY DEF Locals
  <2> QED
    BY <2>1, ElementOfSeq DEF Elems
<1>3. Aside(p, l) \subseteq Page
  BY <1>1 DEF Aside, Control, Purging, Giving
<1>4. InHand(p, l) \subseteq Page
  <2>1. CASE p \in {"split", "interior", "punch", "record", "look", "check", "relock", "settle"}
    BY <1>1, <2>1, HandAt DEF Control, Giving
  <2>2. CASE p \in {"trail", "merge"}
    BY <1>1, <2>2, HandAt DEF Control, Giving
  <2>3. CASE p = "retired"
    BY <1>1, <2>3, HandAt DEF Control
  <2>4. CASE p \in {"logcached", "log"}
    BY <1>1, <2>4, HandAt DEF Control
  <2>5. CASE p \in {"ticks", "ticks2", "filled"}
    BY <1>1, <2>5, HandAt DEF Control
  <2>6. CASE p \in {"idle", "recycle", "new", "map", "insert", "register", "evict", "stashed",
                    "pop", "logfree"}
    BY <2>6, HandAt
  <2> QED
    BY <2>1, <2>2, <2>3, <2>4, <2>5, <2>6 DEF PCs
<1>5. \A c \in Requests : \A i \in 1 .. Len(cache[u][c]) : cache[u][c][i] \in Page
  BY PlacedNow, ElementOfSeq
<1> QED
  BY <1>1, <1>2, <1>3, <1>4, <1>5 DEF Grasp

LEMMA Guarded ==
  ASSUME IndInv, NEW t \in Thread, Plain(t) \/ Pooling(t) \/ Shaping(t),
         NEW u \in Thread, NEW a \in Page,
         \/ a \in held
         \/ \E c \in Requests : \E i \in 1 .. Len(cache[u][c]) : cache[u][c][i] = a
         \/ a \in Aside(pc[u], loc[u]) \/ a \in Elems(loc[u].stash)
         \/ u # t /\ a \in InHand(pc[u], loc[u])
  PROVE  Spared(a)
<1>1. /\ Owned /\ loc[u] \in Locals
      /\ \A c \in Requests : cache[u][c] \in Seq(Page)
  BY Parts, PlacedNow DEF Placed
<1>2. ~HasNot(u, a)
  <2>1. ASSUME NEW c \in Requests, NEW i \in 1 .. Len(cache[u][c]), cache[u][c][i] = a
        PROVE  Places(cache[u][c], a) # {}
    BY <1>1, <2>1, LenProperties DEF Places
  <2>2. a \in Elems(loc[u].stash) => Places(loc[u].stash, a) # {}
    <3>1. PICK s \in Seq(Page) : s = loc[u].stash
      BY <1>1 DEF Locals
    <3> QED
      BY <3>1, LenProperties DEF Places, Elems
  <2> QED
    BY <2>1, <2>2 DEF HasNot, Nowhere, NoneCached
<1>3. Has(u, a) /\ ext[a].state = "active" /\ \A v \in Thread \ {u} : Mine(v, a) = {}
  BY <1>1, <1>2, Owning
<1>4. a \notin InHand(pc[t], loc[t])
  <2>1. CASE u # t
    <3>1. Mine(t, a) = {}
      BY <1>3, <2>1
    <3> QED
      BY <3>1, ClaimsAre DEF Mine
  <2>2. CASE u = t
    <3>1. ASSUME NEW c \in Requests, NEW i \in 1 .. Len(cache[u][c]), cache[u][c][i] = a
          PROVE  ~NoneCached(a, cache[u])
      BY <1>1, <3>1, LenProperties DEF Places, NoneCached
    <3>2. a \in Elems(loc[u].stash) => Places(loc[u].stash, a) # {}
      <4>1. PICK s \in Seq(Page) : s = loc[u].stash
        BY <1>1 DEF Locals
      <4> QED
        BY <4>1, LenProperties DEF Places, Elems
    <3> QED
      BY <1>3, <2>2, <3>1, <3>2 DEF Has, Once
  <2> QED
    BY <2>1, <2>2
<1>5. a \in Live
  BY <1>3 DEF Live
<1> QED
  BY <1>4, <1>5, Spares

LEMMA OthersKnow ==
  ASSUME IndInv, NEW t \in Thread, Plain(t) \/ Pooling(t) \/ Shaping(t), NEW u \in Thread, u # t
  PROVE  Hands(u)'
<1>1. Alone(t)
  BY OthersStay, Parts
<1>2. pc'[u] = pc[u] /\ loc'[u] = loc[u]
  BY <1>1 DEF Alone
<1>3. pc[u] \in PCs /\ loc[u] \in Locals /\ Known(pc[u], loc[u], ext, tree)
  BY PlacedNow, Parts, KnownIs DEF Placed
<1>4. \A a \in Grasp(pc[u], loc[u]) : Spared(a)
  <2> SUFFICES ASSUME NEW a \in Grasp(pc[u], loc[u]) PROVE Spared(a)
    OBVIOUS
  <2>1. a \in Page
    BY GraspPages
  <2> QED
    BY <2>1, Guarded DEF Grasp
<1>5. Known(pc[u], loc[u], ext', tree')
  BY <1>3, <1>4, KnownStays DEF Spared
<1> QED
  BY <1>2, <1>5, KnownIs

\* Objects stay objects while they are cached, with the program or set aside.
LEMMA ObjectStays ==
  ASSUME NEW a, NEW c, Spared(a), Object(a, c)
  PROVE  IsObject(a, c, ext', tree')
BY DEF Spared, Object, IsObject

LEMMA SameObjects ==
  ASSUME IndInv, NEW t \in Thread, Plain(t) \/ Pooling(t) \/ Shaping(t),
         \A a \in held' : \/ a \in held
                          \/ \E c \in Requests : \E i \in 1 .. Len(cache[t][c]) : cache[t][c][i] = a,
         \A c \in Requests : \A i \in 1 .. Len(cache'[t][c]) :
           \/ \E j \in 1 .. Len(cache[t][c]) : cache'[t][c][i] = cache[t][c][j]
           \/ /\ cache'[t][c][i] \in Page
              /\ IsObject(cache'[t][c][i], c, ext', tree'),
         \A a \in Page : ext'[a].state \in Kinds => ~ext'[a].slab
  PROVE  Objects'
<1>1. Objects /\ Alone(t) /\ held \subseteq Page
  BY Parts, OthersStay, TypesOf
<1>2. ASSUME NEW u \in Thread, NEW c \in Requests, NEW i \in 1 .. Len(cache[u][c])
      PROVE  Object(cache[u][c][i], c) /\ Spared(cache[u][c][i])
  BY <1>1, GraspPages, Guarded DEF Objects
<1>3. ASSUME NEW a \in held
      PROVE  ext[a].szind \in Requests /\ Object(a, ext[a].szind) /\ Spared(a)
  BY <1>1, Guarded DEF Objects
<1>4. ASSUME NEW a \in held'
      PROVE  ext'[a].szind \in Requests /\ IsObject(a, ext'[a].szind, ext', tree')
  <2>1. CASE a \in held
    <3>1. ext'[a].szind = ext[a].szind
      BY <1>3, <2>1 DEF Spared
    <3> QED
      BY <1>3, <2>1, <3>1, ObjectStays
  <2>2. ASSUME NEW c \in Requests, NEW i \in 1 .. Len(cache[t][c]), cache[t][c][i] = a
        PROVE  ext'[a].szind \in Requests /\ IsObject(a, ext'[a].szind, ext', tree')
    <3>1. Object(a, c) /\ Spared(a)
      BY <1>2, <2>2
    <3>2. IsObject(a, c, ext', tree') /\ ext'[a].szind = c
      BY <3>1, ObjectStays DEF IsObject
    <3> QED
      BY <3>2
  <2> QED
    BY <2>1, <2>2
<1>5. ASSUME NEW u \in Thread, NEW c \in Requests, NEW i \in 1 .. Len(cache'[u][c])
      PROVE  IsObject(cache'[u][c][i], c, ext', tree')
  <2>1. CASE u # t
    <3>1. cache'[u] = cache[u]
      BY <1>1, <2>1 DEF Alone
    <3>2. Object(cache[u][c][i], c) /\ Spared(cache[u][c][i])
      BY <1>2, <3>1
    <3> QED
      BY <3>1, <3>2, ObjectStays
  <2>2. CASE u = t
    <3>1. ASSUME NEW j \in 1 .. Len(cache[t][c]), cache'[t][c][i] = cache[t][c][j]
          PROVE  IsObject(cache'[t][c][i], c, ext', tree')
      <4>1. Object(cache[t][c][j], c) /\ Spared(cache[t][c][j])
        BY <1>2
      <4> QED
        BY <3>1, <4>1, ObjectStays
    <3> QED
      BY <2>2, <3>1
  <2> QED
    BY <2>1, <2>2
<1>6. \A a \in held' : ext'[a].szind \in Requests /\ Object(a, ext[a].szind)'
  BY Zenon, <1>4 DEF IsObject, Object
<1>7. \A u \in Thread, c \in Requests : \A i \in 1 .. Len(cache'[u][c]) : Object(cache[u][c][i], c)'
  BY Zenon, <1>5 DEF IsObject, Object
<1> QED
  BY <1>6, <1>7 DEF Objects

----------------------------------------------------------------------------
(* The objects of the program and of the caches. *)

LEMMA PooledPlain ==
  ASSUME IndInv, NEW t \in Thread, Plain(t) \/ Pooling(t) \/ Shaping(t)
  PROVE  \A a \in Page : ext'[a].state \in Kinds => ~ext'[a].slab
<1>1. \A a \in Page : ext[a].state \in Kinds => ~ext[a].slab
  BY Parts DEF Objects
<1>2. Types /\ "active" \notin Kinds /\ "none" \notin Kinds
  BY Parts DEF Kinds
<1>3. CASE Plain(t)
  BY <1>1, <1>2, <1>3, PlainKeeps DEF SameExtents, SameStates
<1>4. CASE Pooling(t)
  <2>1. ASSUME NEW p \in Kinds, NEW b \in Page, Pulled(t, p, b) \/ Pushed(t, p, b)
        PROVE  ~ext[b].slab /\ \A d \in Page \ {b} : ext'[d] = ext[d]
    BY <2>1 DEF Pulled, Pushed
  <2>2. SameExtents
    BY <1>4, PoolingKeeps
  <2> QED
    BY <1>1, <1>4, <2>1, <2>2, PoolingDoes DEF SameExtents
<1>5. CASE Shaping(t)
  <2>1. ASSUME NEW a \in Page, NEW b \in Page, Cut(t, a, b) \/ Merged(t, a, b)
        PROVE  \A d \in Page : ext'[d].state \in Kinds => ~ext'[d].slab
    <3>1. \A d \in Page \ {a, b} : ext'[d] = ext[d]
      BY <2>1 DEF Cut, Merged
    <3>2. ext'[a].state = "active"
      BY <1>2, <2>1, TypesOf DEF Cut, Merged
    <3>3. ext'[b].state \in {"active", "none"}
      BY <1>2, <2>1, TypesOf DEF Cut, Merged
    <3> QED
      BY <1>1, <1>2, <3>1, <3>2, <3>3
  <2>2. ASSUME NEW a \in Page, NEW n \in Nat,
               Whole(t, a) \/ Marked(t, a) \/ Registered(t, a, n) \/ Kept(t, a, n)
               \/ Recorded(t, a)
        PROVE  \A d \in Page : ext'[d].state \in Kinds => ~ext'[d].slab
    <3>1. \A d \in Page \ {a} : ext'[d] = ext[d]
      BY <2>2 DEF Whole, Marked, Registered, Kept, Recorded
    <3>2. ext'[a].state = "active"
      <4>1. CASE Registered(t, a, n) \/ Kept(t, a, n)
        BY <4>1 DEF Registered, Kept
      <4>2. CASE Whole(t, a) \/ Marked(t, a) \/ Recorded(t, a)
        <5>1. PICK e \in ExtentType : e = ext[a] /\ e.state = "active"
          BY <1>2, <4>2, RecordTypes DEF Whole, Marked, Recorded
        <5> QED
          BY <4>2, <5>1 DEF Whole, Marked, Recorded, ExtentType
      <4> QED
        BY <2>2, <4>1, <4>2
    <3> QED
      BY <1>1, <1>2, <3>1, <3>2
  <2>3. CASE Forgot(t)
    BY <1>1, <2>3 DEF Forgot
  <2>4. 0 \in Nat
    OBVIOUS
  <2> QED
    BY <1>5, <2>1, <2>2, <2>3, <2>4, SplitDoes, InteriorDoes, RegisterDoes, RetireDoes,
       RecordDoes, MergeDoes DEF Shaping
<1> QED
  BY <1>3, <1>4, <1>5

LEMMA SameProgram ==
  ASSUME IndInv, NEW t \in Thread, Plain(t) \/ Pooling(t) \/ Shaping(t),
         ~Fill(t), ~Pop(t), ~LogCached(t)
  PROVE  cache' = cache /\ held' \subseteq held
<1>1. CASE Begin(t)
  BY ZenonT(60), <1>1 DEF Begin, MallocCall, FreeCall, SlabCall, UnslabCall, program
<1>2. CASE Plain(t) /\ ~Begin(t)
  BY ZenonT(60), <1>2 DEF Plain, Carve, MapFile, MapFails, InsertFile, Look, Punch, PunchStops, NoDecay,
              Decay, EvictNone, EvictStops, Stashed, Log, LogFree, GCStops, program
<1>3. CASE Pooling(t)
  BY <1>3 DEF Pooling, Recycle, Trail, Retired, EvictDirty, Check, Relock, Settle, program
<1>4. CASE Shaping(t)
  BY Zenon, <1>4 DEF Shaping, Split, Interior, Retire, Register, Record, Merge, program
<1> QED
  BY SMTT(30), <1>1, <1>2, <1>3, <1>4

\* An object that goes to a cache is one of its class.
LEMMA CachedObject ==
  ASSUME IndInv, NEW t \in Thread, Fill(t) \/ LogCached(t)
  PROVE  /\ held' = held /\ loc[t].c \in Requests /\ loc[t].obj \in Page
         /\ cache'[t] = [cache[t] EXCEPT ![loc[t].c] = Append(cache[t][loc[t].c], loc[t].obj)]
         /\ IsObject(loc[t].obj, loc[t].c, ext', tree')
<1>1. PICK l \in Locals : l = loc[t] /\ Control(pc[t], l, mapped, cache[t])
  BY PlacedNow DEF Placed
<1>2. cache \in [Thread -> [Requests -> Seq(Page)]] /\ Hands(t)
  BY SMTT(30), PlacedNow, Parts
<1>3. pc[t] \in {"filled", "logcached"}
  BY DEF Fill, LogCached, At
<1>4. l.obj \in Page /\ (pc[t] = "filled" => l.op = "malloc" /\ Request(l))
  BY <1>1, <1>3 DEF Control, CallsAt
<1>5. l.c \in Requests /\ Object(l.obj, l.c)
  BY <1>1, <1>2, <1>3, <1>4 DEF Hands, Request
<1>6. Spared(l.obj)
  BY <1>4, Spares DEF Plain
<1>7. IsObject(l.obj, l.c, ext', tree')
  BY SMTT(30), <1>5, <1>6, ObjectStays
<1>8. held' = held
  BY DEF Fill, LogCached
<1>9. cache'[t] = [cache[t] EXCEPT ![l.c] = Append(cache[t][l.c], l.obj)]
  BY <1>1, <1>2, <1>5 DEF Fill, LogCached
<1> QED
  BY <1>1, <1>4, <1>5, <1>7, <1>8, <1>9

LEMMA Front ==
  ASSUME NEW S, NEW s \in Seq(S), s # <<>>
  PROVE  /\ Len(SubSeq(s, 1, Len(s) - 1)) = Len(s) - 1
         /\ \A i \in 1 .. Len(s) - 1 : SubSeq(s, 1, Len(s) - 1)[i] = s[i]
<1>1. Len(s) \in Nat /\ Len(s) # 0 /\ \A i \in 1 .. Len(s) : s[i] \in S
  BY LenProperties, ElementOfSeq, EmptySeq
<1>2. PICK q : q = SubSeq(s, 1, Len(s) - 1)
  OBVIOUS
<1>3. /\ Len(q) = IF 1 <= Len(s) - 1 THEN (Len(s) - 1) - 1 + 1 ELSE 0
      /\ \A i \in 1 .. (Len(s) - 1) - 1 + 1 : q[i] = s[1 + i - 1]
  <2>1. 1 \in Int /\ Len(s) - 1 \in Int /\ \A i \in 1 .. (Len(s) - 1) : s[i] \in S
    BY <1>1
  <2> QED
    BY ONLY <2>1, <1>2, SubSeqProperties
<1>4. Len(q) = Len(s) - 1
  <2>1. PICK n \in Nat : n = Len(s) /\ n # 0
    BY <1>1
  <2>2. Len(q) = IF 1 <= n - 1 THEN (n - 1) - 1 + 1 ELSE 0
    BY <1>3, <2>1
  <2>3. n - 1 = IF 1 <= n - 1 THEN (n - 1) - 1 + 1 ELSE 0
    BY <2>1
  <2> QED
    BY ONLY <2>1, <2>2, <2>3
<1>5. ASSUME NEW i \in 1 .. Len(s) - 1 PROVE q[i] = s[i]
  <2>1. i \in 1 .. (Len(s) - 1) - 1 + 1 /\ 1 + i - 1 = i
    BY <1>1
  <2>2. q[i] = s[1 + i - 1]
    BY <1>3, <2>1
  <2> QED
    BY <2>1, <2>2
<1> QED
  BY <1>2, <1>4, <1>5

LEMMA ObjectsKept ==
  ASSUME IndInv, NEW t \in Thread, Plain(t) \/ Pooling(t) \/ Shaping(t)
  PROVE  Objects'
<1>1. \A a \in Page : ext'[a].state \in Kinds => ~ext'[a].slab
  BY PooledPlain
<1>2. cache \in [Thread -> [Requests -> Seq(Page)]]
  BY PlacedNow
<1>3. CASE ~Fill(t) /\ ~Pop(t) /\ ~LogCached(t)
  <2>1. cache' = cache /\ held' \subseteq held
    BY <1>3, SameProgram
  <2> QED
    BY <1>1, <2>1, SameObjects
<1>4. CASE Fill(t) \/ LogCached(t)
  <2>1. PICK c \in Requests, b \in Page :
          /\ held' = held /\ cache'[t] = [cache[t] EXCEPT ![c] = Append(cache[t][c], b)]
          /\ IsObject(b, c, ext', tree')
    BY <1>4, CachedObject
  <2>2. PICK s \in Seq(Page) : s = cache[t][c]
    BY <1>2
  <2>3. ASSUME NEW d \in Requests, NEW i \in 1 .. Len(cache'[t][d])
        PROVE  \/ \E j \in 1 .. Len(cache[t][d]) : cache'[t][d][i] = cache[t][d][j]
               \/ /\ cache'[t][d][i] \in Page
                  /\ IsObject(cache'[t][d][i], d, ext', tree')
    <3>1. CASE d # c
      BY <1>2, <2>1, <3>1
    <3>2. CASE d = c
      <4>1. cache'[t][c] = Append(s, b)
        BY <1>2, <2>1, <2>2
      <4>2. Len(s) \in Nat /\ i \in 1 .. Len(s) + 1
        BY <3>2, <4>1, LenProperties, AppendProperties
      <4>3. CASE i = Len(s) + 1
        <5>1. Append(s, b)[i] = b
          BY <4>3, AppendProperties
        <5> QED
          BY <2>1, <3>2, <4>1, <5>1
      <4>4. CASE i # Len(s) + 1
        <5>1. i \in 1 .. Len(s) /\ Append(s, b)[i] = s[i]
          BY <4>2, <4>4, AppendProperties
        <5> QED
          BY <2>2, <3>2, <4>1, <5>1
      <4> QED
        BY <4>3, <4>4
    <3> QED
      BY <3>1, <3>2
  <2> QED
    BY <1>1, <2>1, <2>3, SameObjects
<1>5. CASE Pop(t)
  <2>1. PICK l \in Locals : l = loc[t] /\ Control(pc[t], l, mapped, cache[t])
    BY PlacedNow DEF Placed
  <2>2. l.c \in Requests /\ cache[t][l.c] # <<>>
    <3>1. pc[t] = "pop"
      BY <1>5 DEF Pop, At
    <3> QED
      BY <2>1, <3>1 DEF Control, CallsAt, Request
  <2>3. PICK c \in Requests, s \in Seq(Page) : c = l.c /\ s = cache[t][c] /\ s # <<>>
    BY <1>2, <2>2
  <2>4. /\ held' = held \cup {s[Len(s)]}
        /\ cache'[t] = [cache[t] EXCEPT ![c] = SubSeq(s, 1, Len(s) - 1)]
    BY <1>2, <1>5, <2>1, <2>3 DEF Pop
  <2>5. Len(s) \in 1 .. Len(s)
    BY <2>3, PlacesFront
  <2>6. ASSUME NEW d \in Requests, NEW i \in 1 .. Len(cache'[t][d])
        PROVE  \E j \in 1 .. Len(cache[t][d]) : cache'[t][d][i] = cache[t][d][j]
    <3>1. CASE d # c
      BY <1>2, <2>4, <3>1
    <3>2. CASE d = c
      <4>1. cache'[t][c] = SubSeq(s, 1, Len(s) - 1)
        BY <1>2, <2>4
      <4>2. Len(s) \in Nat
        BY LenProperties
      <4>0. PICK q : q = SubSeq(s, 1, Len(s) - 1)
        OBVIOUS
      <4>3. Len(q) = Len(s) - 1 /\ \A k \in 1 .. Len(s) - 1 : q[k] = s[k]
        BY <2>3, <4>0, Front
      <4>4. i \in 1 .. Len(s) - 1
        BY <3>2, <4>0, <4>1, <4>3
      <4>5. i \in 1 .. Len(s) /\ cache'[t][c][i] = s[i]
        BY <4>0, <4>1, <4>2, <4>3, <4>4
      <4> QED
        BY <2>3, <3>2, <4>5
    <3> QED
      BY <3>1, <3>2
  <2>7. \A a \in held' : a \in held \/ \E d \in Requests : \E i \in 1 .. Len(cache[t][d]) : cache[t][d][i] = a
    BY <2>3, <2>4, <2>5
  <2> QED
    BY <1>1, <2>6, <2>7, SameObjects
<1> QED
  BY <1>3, <1>4, <1>5

----------------------------------------------------------------------------
(* What a thread knows after a step of an allocation or a call. *)

\* At these steps a thread has nothing to know.
Quieting == {"idle", "recycle", "new", "map", "insert", "register", "pop", "log", "logfree"}

LEMMA NoStash ==
  ASSUME IndInv, NEW t \in Thread, Plain(t) \/ Pooling(t) \/ Shaping(t), pc'[t] \notin Purging
  PROVE  \A e : \A i \in 1 .. Len(loc'[t].stash) : ~e[loc'[t].stash[i]].slab
<1>1. loc'[t].stash = <<>>
  BY PlacedAfter DEF Placed, Control
<1>2. Len(loc'[t].stash) = 0
  BY <1>1
<1> QED
  BY <1>2

LEMMA QuietKnows ==
  ASSUME IndInv, NEW t \in Thread, Plain(t) \/ Pooling(t) \/ Shaping(t), pc'[t] \in Quieting
  PROVE  Hands(t)'
<1>1. pc'[t] \notin Purging
  BY DEF Quieting, Purging, Giving
<1>2. \A i \in 1 .. Len(loc'[t].stash) : ~ext'[loc'[t].stash[i]].slab
  BY <1>1, NoStash
<1>3. Known(pc'[t], loc'[t], ext', tree')
  BY <1>2 DEF Known, Quieting, Purging, Giving
<1> QED
  BY <1>3, KnownIs

LEMMA StopKnows ==
  ASSUME IndInv, NEW t \in Thread, Plain(t), pc' = pc, loc' = loc
  PROVE  Hands(t)'
<1>1. pc[t] \in PCs /\ loc[t] \in Locals /\ Known(pc[t], loc[t], ext, tree)
  BY PlacedNow, Parts, KnownIs DEF Placed
<1>2. \A a \in Grasp(pc[t], loc[t]) : Spared(a)
  BY GraspPages, Spares
<1>3. Known(pc[t], loc[t], ext', tree')
  BY <1>1, <1>2, KnownStays DEF Spared
<1> QED
  BY <1>3, KnownIs

LEMMA RecycleKnows ==
  ASSUME IndInv, NEW t \in Thread, Recycle(t)
  PROVE  Hands(t)'
<1>1. PICK l \in Locals : l = loc[t] /\ Control(pc[t], l, mapped, cache[t])
  BY PlacedNow DEF Placed
<1>2. pc \in [Thread -> PCs] /\ loc \in [Thread -> Locals]
  BY PlacedNow
<1>3. CASE Fit(l.p, l.n) = NoPage
  <2>1. pc'[t] \in {"recycle", "new"}
    BY <1>1, <1>2, <1>3 DEF Recycle, Goto
  <2> QED
    BY <2>1, QuietKnows DEF Quieting, Pooling
<1>4. CASE Fit(l.p, l.n) # NoPage
  <2>1. PICK a : a = Fit(l.p, l.n)
    OBVIOUS
  <2>2. pc'[t] = "split" /\ loc'[t] = [l EXCEPT !.x = a]
    BY <1>1, <1>2, <1>4, <2>1 DEF Recycle, Goto
  <2>3. a \in InPool(l.p) /\ ext[a].size >= l.n /\ l.p \in Kinds
    <3>1. l.op \in {"malloc", "slab"} /\ Request(l)
      BY <1>1, TakingAt DEF Taking, Recycle, At
    <3>2. l.n \in 1 .. NPages
      BY <3>1, Asked, Sizes
    <3>3. l.p \in Kinds
      BY DEF Locals
    <3> QED
      BY <1>4, <2>1, <3>2, <3>3, FitGives, Parts
  <2>4. a \in Page /\ ~ext[a].slab
    BY <2>3, Parts DEF InPool, Objects
  <2>5. Spared(a)
    BY <2>4, Spares DEF Pooling
  <2>6. loc'[t].x = a /\ loc'[t].n = l.n
    BY <2>2 DEF Locals
  <2>7. \A i \in 1 .. Len(loc'[t].stash) : ~ext'[loc'[t].stash[i]].slab
    BY <2>2, NoStash DEF Purging, Giving, Pooling
  <2>8. Known("split", loc'[t], ext', tree')
    BY <2>3, <2>4, <2>5, <2>6, <2>7 DEF Known, Purging, Giving, Spared
  <2> QED
    BY <2>2, <2>8, KnownIs
<1> QED
  BY <1>3, <1>4

LEMMA SplitKnows ==
  ASSUME IndInv, NEW t \in Thread, Split(t)
  PROVE  Hands(t)'
<1>1. PICK l \in Locals : l = loc[t] /\ Control(pc[t], l, mapped, cache[t])
  BY PlacedNow DEF Placed
<1>2. l.op \in {"malloc", "slab"} /\ Request(l)
  BY <1>1, TakingAt DEF Taking, Split, At
<1>3. ext \in [Page -> ExtentType] /\ tree \in [Page -> EntryType]
  BY Parts, RecordTypes
<1>4. ASSUME NEW a \in Page, NEW b \in Page, Cut(t, a, b) PROVE Hands(t)'
  <2>1. /\ a = l.x /\ b = a + l.n /\ a # b /\ pc'[t] = "trail" /\ loc'[t] = [l EXCEPT !.y = b]
        /\ l.n \in 1 .. CHUNK /\ ext[a].size \in 1 .. NPages /\ ext[a].size > l.n
        /\ (l.slab <=> l.op = "slab")
    BY <1>1, <1>4 DEF Cut
  <2>2. PICK m : /\ m = loc'[t] /\ m.x = l.x /\ m.y = b /\ m.n = l.n /\ m.c = l.c /\ m.op = l.op
    BY <2>1 DEF Locals
  <2>3. PICK e \in ExtentType : e = ext[a] /\ ~e.slab
    BY <1>3, <1>4 DEF Cut
  <2>4. ext'[a] = [e EXCEPT !.size = l.n, !.szind = l.c]
    BY <1>1, <1>4, <2>3 DEF Cut
  <2>5. ext'[a].size = l.n /\ ext'[a].szind = l.c /\ ~ext'[a].slab
    BY <2>3, <2>4 DEF ExtentType
  <2>6. ~ext'[b].slab
    BY <1>4 DEF Cut
  <2>7. l.op = "malloc" => tree'[a] = [e |-> a, szind |-> l.c, slab |-> FALSE]
    <3>1. a \in Ends(a, l.n) /\ a \notin {b, Last(a)}
      <4>1. PICK n \in Nat, s \in Nat : n = l.n /\ s = ext[a].size /\ s > n /\ n # 0
        BY <2>1, Sizes
      <4>2. a \in Nat
        BY Pages_
      <4> QED
        BY <2>1, <4>1, <4>2 DEF Ends, Last
    <3>2. PICK y : tree' = Write(Write(tree, Ends(a, l.n), [e |-> a, szind |-> l.c, slab |-> l.slab]),
                                 {b, Last(a)}, y)
      BY <1>1, <1>4 DEF Cut
    <3>3. tree'[a] = [e |-> a, szind |-> l.c, slab |-> l.slab]
      BY <3>1, <3>2 DEF Write
    <3>4. l.op = "malloc" => l.slab = FALSE
      BY <2>1 DEF Locals
    <3> QED
      BY <3>3, <3>4
  <2>8. l.op = "malloc" => IsObject(l.x, l.c, ext', tree')
    BY <1>2, <2>1, <2>5, <2>7 DEF IsObject, Request
  <2>9. \A i \in 1 .. Len(m.stash) : ~ext'[m.stash[i]].slab
    BY <2>1, <2>2, NoStash DEF Purging, Giving, Shaping
  <2>10. Known("trail", m, ext', tree')
    BY <2>1, <2>2, <2>5, <2>6, <2>8, <2>9 DEF Known, Purging, Giving
  <2> QED
    BY <2>1, <2>2, <2>10, KnownIs
<1>5. ASSUME NEW a \in Page, Whole(t, a) PROVE Hands(t)'
  <2>1. /\ a = l.x /\ pc'[t] = (IF l.slab THEN "interior" ELSE "ticks")
        /\ loc'[t] = [l EXCEPT !.obj = a] /\ (l.slab <=> l.op = "slab")
        /\ ext[a].size = l.n
    BY <1>1, <1>5 DEF Whole
  <2>2. PICK m : /\ m = loc'[t] /\ m.x = l.x /\ m.obj = a /\ m.n = l.n /\ m.c = l.c /\ m.op = l.op
    BY <2>1 DEF Locals
  <2>3. PICK e \in ExtentType : e = ext[a] /\ ~e.slab
    BY <1>3, <1>5 DEF Whole
  <2>4. ext'[a] = [e EXCEPT !.szind = l.c]
    BY <1>1, <1>5, <2>3 DEF Whole
  <2>5. ext'[a].size = l.n /\ ext'[a].szind = l.c /\ ~ext'[a].slab
    BY <2>1, <2>3, <2>4 DEF ExtentType
  <2>6. tree'[a] = [e |-> a, szind |-> l.c, slab |-> l.slab]
    <3>1. a \in ExactEnds(t)
      BY <1>1, <2>1 DEF ExactEnds, Ends
    <3>2. tree' = Write(tree, ExactEnds(t), [e |-> a, szind |-> l.c, slab |-> l.slab])
      BY <1>1, <1>5 DEF Whole
    <3> QED
      BY <3>1, <3>2 DEF Write
  <2>7. \A i \in 1 .. Len(m.stash) : ~ext'[m.stash[i]].slab
    BY <2>1, <2>2, NoStash DEF Purging, Giving, Shaping
  <2>8. CASE l.slab
    <3>1. ext'[a].size = SLAB
      BY <1>2, <2>1, <2>5, <2>8 DEF Request
    <3>2. Known("interior", m, ext', tree')
      BY <2>1, <2>2, <2>5, <2>7, <3>1 DEF Known, Purging, Giving
    <3> QED
      BY <2>1, <2>2, <2>8, <3>2, KnownIs
  <2>9. CASE ~l.slab
    <3>1. l.slab = FALSE /\ l.op = "malloc"
      BY <1>2, <2>1, <2>9 DEF Locals
    <3>2. IsObject(a, l.c, ext', tree')
      BY <1>2, <2>5, <2>6, <3>1 DEF IsObject, Request
    <3>3. Known("ticks", m, ext', tree')
      BY <2>1, <2>2, <2>7, <3>2 DEF Known, Purging, Giving
    <3> QED
      BY <2>1, <2>2, <2>9, <3>3, KnownIs
  <2>10. l.slab \in BOOLEAN
    BY DEF Locals
  <2> QED
    BY <2>8, <2>9, <2>10
<1> QED
  BY <1>4, <1>5, SplitDoes

LEMMA TrailKnows ==
  ASSUME IndInv, NEW t \in Thread, Trail(t)
  PROVE  Hands(t)'
<1>1. PICK l \in Locals : l = loc[t] /\ Control(pc[t], l, mapped, cache[t])
  BY PlacedNow DEF Placed
<1>2. pc[t] = "trail" /\ l.op \in {"malloc", "slab"} /\ Request(l) /\ l.x \in Page
  <2>1. pc[t] = "trail"
    BY DEF Trail, At
  <2> QED
    BY <1>1, <2>1, TakingAt DEF Taking
<1>3. pc \in [Thread -> PCs] /\ loc \in [Thread -> Locals] /\ Hands(t)
  BY PlacedNow, Parts
<1>4. /\ ext[l.x].size = l.n /\ ~ext[l.x].slab
      /\ l.op = "malloc" => Object(l.x, l.c)
  BY <1>1, <1>2, <1>3 DEF Hands
<1>5. Spared(l.x)
  BY <1>2, Spares DEF Pooling
<1>6. /\ pc'[t] = (IF l.slab THEN "interior" ELSE "ticks")
      /\ loc'[t] = [l EXCEPT !.obj = l.x, !.y = NoPage]
  BY <1>1, <1>3 DEF Trail, Taken, Goto
<1>7. PICK m : m = loc'[t] /\ m.x = l.x /\ m.obj = l.x /\ m.c = l.c /\ m.op = l.op
  BY ZenonT(60), <1>6 DEF Locals
<1>8. \A i \in 1 .. Len(m.stash) : ~ext'[m.stash[i]].slab
  BY <1>6, <1>7, NoStash DEF Purging, Giving, Pooling
<1>9. CASE l.slab
  <2>1. ext[l.x].size = SLAB
    BY <1>2, <1>4, <1>9 DEF Request
  <2>2. Known("interior", m, ext', tree')
    BY <1>4, <1>5, <1>7, <1>8, <2>1 DEF Known, Purging, Giving, Spared
  <2> QED
    BY <1>6, <1>7, <1>9, <2>2, KnownIs
<1>10. CASE ~l.slab
  <2>1. l.op = "malloc"
    BY <1>2, <1>10 DEF Request
  <2>2. IsObject(l.x, l.c, ext', tree')
    BY <1>4, <1>5, <2>1, ObjectStays
  <2>3. Known("ticks", m, ext', tree')
    BY <1>7, <1>8, <2>2 DEF Known, Purging, Giving
  <2> QED
    BY <1>6, <1>7, <1>10, <2>3, KnownIs
<1> QED
  BY <1>9, <1>10

LEMMA RetireKnows ==
  ASSUME IndInv, NEW t \in Thread, Retire(t)
  PROVE  Hands(t)'
<1>1. CASE Forgot(t)
  BY <1>1, QuietKnows DEF Forgot, Quieting, Shaping
<1>2. ASSUME NEW a \in Page, NEW n \in Nat, Kept(t, a, n) PROVE Hands(t)'
  <2>1. PICK l \in Locals : l = loc[t]
    BY PlacedNow DEF Placed
  <2>2. pc'[t] = "retired" /\ loc'[t] = [l EXCEPT !.y = a] /\ ~ext'[a].slab
    BY <1>2, <2>1 DEF Kept
  <2>3. loc'[t].y = a
    BY <2>2 DEF Locals
  <2>4. \A i \in 1 .. Len(loc'[t].stash) : ~ext'[loc'[t].stash[i]].slab
    BY <2>2, NoStash DEF Purging, Giving, Shaping
  <2>5. Known("retired", loc'[t], ext', tree')
    BY <2>2, <2>3, <2>4 DEF Known, Purging, Giving
  <2> QED
    BY <2>2, <2>5, KnownIs
<1> QED
  BY <1>1, <1>2, RetireDoes

LEMMA RegisterKnows ==
  ASSUME IndInv, NEW t \in Thread, Register(t)
  PROVE  Hands(t)'
<1>1. PICK l \in Locals : l = loc[t] /\ Control(pc[t], l, mapped, cache[t])
  BY PlacedNow DEF Placed
<1>2. Request(l)
  BY <1>1, TakingAt DEF Taking, Register, At
<1>3. PICK a \in Page, n \in Nat : Registered(t, a, n)
  BY RegisterDoes
<1>4. /\ a = l.x /\ n = l.n /\ pc'[t] = (IF l.slab THEN "log" ELSE "ticks")
      /\ loc'[t] = [l EXCEPT !.obj = a] /\ (l.slab <=> l.op = "slab")
      /\ l.op \in {"malloc", "slab"}
      /\ ext'[a].size = n /\ ext'[a].szind = l.c /\ ext'[a].slab = l.slab
      /\ tree' = Write(tree, IF l.slab THEN SlabPages(a) ELSE Ends(a, n),
                       [e |-> a, szind |-> l.c, slab |-> l.slab])
  BY <1>1, <1>3 DEF Registered
<1>5. CASE l.slab
  BY <1>4, <1>5, QuietKnows DEF Quieting, Shaping
<1>6. CASE ~l.slab
  <2>1. l.slab = FALSE /\ l.op = "malloc" /\ n = psz[l.c] /\ l.c \in Requests
    BY <1>2, <1>4, <1>6 DEF Locals, Request
  <2>2. tree' = Write(tree, Ends(a, n), [e |-> a, szind |-> l.c, slab |-> FALSE])
    BY <1>4, <2>1
  <2>3. a \in Ends(a, n)
    BY DEF Ends
  <2>4. tree'[a] = [e |-> a, szind |-> l.c, slab |-> FALSE]
    BY <2>2, <2>3 DEF Write
  <2>5. IsObject(a, l.c, ext', tree')
    BY <1>4, <2>1, <2>4 DEF IsObject
  <2>6. PICK m : m = loc'[t] /\ m.obj = a /\ m.c = l.c
    BY <1>4 DEF Locals
  <2>7. \A i \in 1 .. Len(m.stash) : ~ext'[m.stash[i]].slab
    BY <1>4, <1>6, <2>6, NoStash DEF Purging, Giving, Shaping
  <2>8. Known("ticks", m, ext', tree')
    BY <2>5, <2>6, <2>7 DEF Known, Purging, Giving
  <2> QED
    BY <1>4, <1>6, <2>6, <2>8, KnownIs
<1> QED
  BY <1>5, <1>6

LEMMA CallKnows ==
  ASSUME IndInv, NEW t \in Thread, Begin(t)
  PROVE  Hands(t)'
<1>1. pc \in [Thread -> PCs] /\ loc \in [Thread -> Locals] /\ held \subseteq Page
  BY PlacedNow, Parts, TypesOf
<1>2. CASE SlabCall(t) \/ \E c \in Requests : MallocCall(t, c)
  <2>1. pc'[t] \in {"recycle", "pop"}
    BY Zenon, <1>1, <1>2 DEF SlabCall, MallocCall, Goto
  <2> QED
    BY <2>1, QuietKnows DEF Quieting, Plain
<1>3. ASSUME NEW a \in slabs, UnslabCall(t, a) PROVE Hands(t)'
  <2>1. pc'[t] = "record" /\ loc'[t] = [NoLocals EXCEPT !.op = "unslab", !.obj = a, !.x = a]
    BY <1>1, <1>3 DEF UnslabCall, Goto
  <2>2. loc'[t].op = "unslab" /\ Len(loc'[t].stash) = 0
    BY <2>1 DEF NoLocals
  <2>3. Known("record", loc'[t], ext', tree')
    BY <2>2 DEF Known, Purging, Giving
  <2> QED
    BY <2>1, <2>3, KnownIs
<1>4. ASSUME NEW a \in held, FreeCall(t, a) PROVE Hands(t)'
  <2>1. PICK c : c = tree[a].szind
    OBVIOUS
  <2>2. /\ loc'[t] = [NoLocals EXCEPT !.op = "free", !.c = c, !.obj = a, !.x = a]
        /\ pc'[t] \in {"logcached", "record"}
    BY <1>1, <1>4, <2>1 DEF FreeCall, Goto
  <2>3. PICK m : m = loc'[t]
    OBVIOUS
  <2>6. m.op = "free" /\ m.c = c /\ m.obj = a /\ m.stash = <<>>
    BY <2>2, <2>3 DEF NoLocals
  <2>7. Len(m.stash) = 0
    BY <2>6
  <2>4. CASE pc'[t] = "record"
    <3>1. Known("record", m, ext', tree')
      BY <2>3, <2>6, <2>7 DEF Known, Purging, Giving
    <3> QED
      BY <2>3, <2>4, <3>1, KnownIs
  <2>5. CASE pc'[t] = "logcached"
    <3>1. c \in Requests /\ Object(a, c)
      <4>1. PICK d \in Requests : d = ext[a].szind /\ Object(a, d)
        BY Parts DEF Objects
      <4>2. tree[a].szind = d
        BY <4>1 DEF Object
      <4> QED
        BY <2>1, <4>1, <4>2
    <3>2. Spared(a)
      BY <1>1, Spares, <1>4 DEF Plain, Begin
    <3>3. IsObject(a, c, ext', tree')
      BY <3>1, <3>2, ObjectStays
    <3>4. Known("logcached", m, ext', tree')
      BY <2>3, <2>6, <2>7, <3>1, <3>3 DEF Known, Purging, Giving
    <3> QED
      BY <2>3, <2>5, <3>4, KnownIs
  <2> QED
    BY <2>2, <2>4, <2>5
<1> QED
  BY <1>2, <1>3, <1>4 DEF Begin

----------------------------------------------------------------------------
(* What a thread knows while it decays and purges. *)

\* While a thread purges or gives back, its object and what it has stashed stay
\* as they are.
LEMMA BusyStill ==
  ASSUME IndInv, NEW t \in Thread, Plain(t) \/ Pooling(t) \/ Shaping(t), pc[t] \in Busy,
         pc[t] \in Purging \/ Plain(t)
  PROVE  /\ loc[t].op = "malloc" => IsObject(loc[t].obj, loc[t].c, ext', tree')
         /\ \A i \in 1 .. Len(loc[t].stash) : ~ext'[loc[t].stash[i]].slab
<1>1. PICK l \in Locals : l = loc[t] /\ Control(pc[t], l, mapped, cache[t])
  BY PlacedNow DEF Placed
<1>2. Hands(t) /\ l.obj \in Page
  BY <1>1, Parts, BusyAt
<1>3. ASSUME l.op = "malloc" PROVE IsObject(l.obj, l.c, ext', tree')
  <2>1. Object(l.obj, l.c)
    BY <1>1, <1>2, <1>3 DEF Hands, Busy
  <2>2. CASE Plain(t)
    BY <1>2, <2>1, <2>2, Spares, ObjectStays
  <2>3. CASE pc[t] \in Purging
    <3>1. l.obj \in Aside(pc[t], l)
      BY <1>3, <2>3, HandAt DEF Purging, Giving
    <3>2. Spared(l.obj)
      BY <1>1, <1>2, <3>1, Guarded
    <3> QED
      BY <2>1, <3>2, ObjectStays
  <2> QED
    BY <2>2, <2>3
<1>4. ASSUME NEW i \in 1 .. Len(l.stash) PROVE ~ext'[l.stash[i]].slab
  <2>1. ~ext[l.stash[i]].slab
    BY <1>1, <1>2 DEF Hands
  <2>2. l.stash[i] \in Elems(l.stash) /\ l.stash[i] \in Page
    <3>1. l.stash[i] \in Elems(l.stash)
      BY DEF Elems
    <3> QED
      BY <1>1, <3>1, GraspPages DEF Grasp
  <2>3. Spared(l.stash[i])
    BY <1>1, <2>2, Guarded
  <2> QED
    BY <2>1, <2>3 DEF Spared
<1> QED
  BY <1>1, <1>3, <1>4

LEMMA BusyKnows ==
  ASSUME IndInv, NEW t \in Thread, Plain(t) \/ Pooling(t) \/ Shaping(t), pc[t] \in Busy,
         pc[t] \in Purging \/ Plain(t), pc'[t] \in Busy \cup {"filled", "logfree"},
         NEW m, m = loc'[t], m.op = loc[t].op, m.c = loc[t].c, m.obj = loc[t].obj,
         \A i \in 1 .. Len(m.stash) :
           \/ \E j \in 1 .. Len(loc[t].stash) : m.stash[i] = loc[t].stash[j]
           \/ ~ext'[m.stash[i]].slab,
         pc'[t] \in (Giving \ {"record"}) \cup {"punch"} => ~ext'[m.x].slab,
         pc'[t] = "merge" => /\ ~ext'[m.y].slab
                             /\ IF m.side = "next" THEN m.y = m.x + ext'[m.x].size
                                                   ELSE m.x = m.y + ext'[m.y].size
  PROVE  Hands(t)'
<1>1. /\ m.op = "malloc" => IsObject(m.obj, m.c, ext', tree')
      /\ \A i \in 1 .. Len(m.stash) : ~ext'[m.stash[i]].slab
  BY BusyStill
<1>2. pc'[t] \notin {"split", "trail", "interior", "retired", "logcached"}
  BY DEF Busy, Purging, Giving
<1>3. Known(pc'[t], m, ext', tree')
  BY <1>1, <1>2 DEF Known
<1> QED
  BY <1>3, KnownIs

LEMMA SameStash ==
  ASSUME NEW s, NEW u, u = s \/ u = <<>>
  PROVE  \A i \in 1 .. Len(u) : \E j \in 1 .. Len(s) : u[i] = s[j]
<1>1. CASE u = s
  BY <1>1
<1>2. CASE u = <<>>
  <2>1. Len(u) = 0
    BY <1>2
  <2> QED
    BY <2>1
<1> QED
  BY <1>1, <1>2

LEMMA PurgeKnows ==
  ASSUME IndInv, NEW t \in Thread,
         \/ NoDecay(t) \/ \E d \in Kinds, L \in Limits : Decay(t, d, L)
         \/ EvictNone(t) \/ EvictDirty(t) \/ Stashed(t) \/ Punch(t)
  PROVE  Hands(t)'
<1>1. PICK l \in Locals : l = loc[t] /\ Control(pc[t], l, mapped, cache[t])
  BY PlacedNow DEF Placed
<1>2. pc \in [Thread -> PCs] /\ loc \in [Thread -> Locals] /\ Hands(t)
  BY PlacedNow, Parts
<1>3. pc[t] \in Busy /\ (Plain(t) \/ Pooling(t) \/ Shaping(t)) /\ (pc[t] \in Purging \/ Plain(t))
  BY Zenon DEF NoDecay, Decay, EvictNone, EvictDirty, Stashed, Punch, MayEvict, At, Plain, Pooling, Busy,
         Purging
<1>4. CASE NoDecay(t)
  <2>1. loc'[t] = l /\ pc'[t] \in {"filled", "logfree"}
    BY <1>1, <1>2, <1>4 DEF NoDecay, After, Goto
  <2> QED
    BY <1>1, <1>3, <2>1, SameStash, BusyKnows DEF Giving
<1>5. ASSUME NEW d \in Kinds, NEW L \in Limits, Decay(t, d, L) PROVE Hands(t)'
  <2>1. PICK i : i = pool[d].npages - L
    OBVIOUS
  <2>2. /\ pc'[t] = "evict"
        /\ loc'[t] = [l EXCEPT !.d = d, !.p = d, !.limit = L, !.left = i, !.stash = <<>>]
    BY Zenon, <1>1, <1>2, <1>5, <2>1 DEF Decay, Goto
  <2>3. PICK m : m = loc'[t]
    OBVIOUS
  <2>4. m.op = l.op /\ m.c = l.c /\ m.obj = l.obj /\ m.stash = <<>>
    BY <2>2, <2>3 DEF Locals
  <2>5. \A j \in 1 .. Len(m.stash) : \E k \in 1 .. Len(l.stash) : m.stash[j] = l.stash[k]
    BY <2>4, SameStash
  <2>6. pc'[t] \in Busy /\ pc'[t] \notin Giving \cup {"punch"}
    BY <2>2 DEF Giving, Busy, Purging
  <2>7. pc'[t] # "merge"
    BY <2>2
  <2> QED
    BY <1>1, <1>3, <2>3, <2>4, <2>5, <2>6, <2>7, BusyKnows
<1>6. CASE EvictNone(t)
  <2>1. pc'[t] = "stashed" /\ loc'[t] = l
    BY <1>1, <1>2, <1>6 DEF EvictNone, Goto
  <2> QED
    BY <1>1, <1>3, <2>1, SameStash, BusyKnows DEF Giving, Busy, Purging
<1>7. CASE EvictDirty(t)
  <2>1. PICK a : a = Head(pool.dirty.lru)
    OBVIOUS
  <2>2. /\ pc'[t] = "look"
        /\ loc'[t] = [l EXCEPT !.x = a, !.side = "next", !.evicting = TRUE]
    BY <1>1, <1>2, <1>7, <2>1 DEF EvictDirty, Goto
  <2>3. a \in Page /\ ~ext[a].slab
    <3>1. pool.dirty.lru # <<>>
      BY <1>7 DEF EvictDirty, AtLimit
    <3>2. a \in InPool("dirty")
      BY <2>1, <3>1, First, Parts
    <3> QED
      BY <3>2, Parts DEF InPool, Objects, Kinds
  <2>4. PICK m : /\ m = loc'[t] /\ m.op = l.op /\ m.c = l.c /\ m.obj = l.obj /\ m.x = a
                 /\ m.stash = l.stash
    BY <2>2 DEF Locals
  <2>5. Pooling(t)
    BY <1>7 DEF Pooling
  <2>6. ~ext'[a].slab
    BY <2>3, <2>5, Spares DEF Spared
  <2> QED
    BY <1>1, <1>3, <2>2, <2>4, <2>6, SameStash, BusyKnows DEF Giving, Busy, Purging
<1>8. CASE Stashed(t)
  <2>0. Plain(t)
    BY <1>8 DEF Plain
  <2>1. CASE l.stash = <<>>
    <3>1. /\ loc'[t] = l /\ pc'[t] \in {"ticks2", "filled", "logfree"}
      BY <1>1, <1>2, <1>8, <2>1 DEF Stashed, After, Goto
    <3> QED
      BY <1>1, <1>3, <3>1, SameStash, BusyKnows DEF Giving, Busy
  <2>2. CASE l.stash # <<>>
    <3>1. PICK a, s : a = Head(l.stash) /\ s = Tail(l.stash)
      OBVIOUS
    <3>2. pc'[t] = "punch" /\ loc'[t] = [l EXCEPT !.x = a, !.stash = s, !.p = "muzzy"]
      BY <1>1, <1>2, <1>8, <2>2, <3>1 DEF Stashed, Goto
    <3>3. PICK m : m = loc'[t]
      OBVIOUS
    <3>4. m.op = l.op /\ m.c = l.c /\ m.obj = l.obj /\ m.x = a /\ m.stash = s
      BY <3>2, <3>3 DEF Locals
    <3>5. PICK u \in Seq(Page) : u = l.stash /\ u # <<>>
      BY <2>2 DEF Locals
    <3>6. a = u[1] /\ 1 \in 1 .. Len(u) /\ \A i \in 1 .. Len(s) : i + 1 \in 1 .. Len(u) /\ s[i] = u[i + 1]
      <4>1. Head(u) = u[1] /\ 1 \in 1 .. Len(u)
        <5>1. Len(u) \in Nat /\ Len(u) # 0
          BY <3>5, LenProperties, EmptySeq
        <5> QED
          BY <3>5, <5>1, HeadTailProperties
      <4> QED
        BY <3>1, <3>5, <4>1, PlacesTail
    <3>7. ~ext'[a].slab
      BY <1>1, <1>3, <3>5, <3>6, BusyStill
    <3>8. \A j \in 1 .. Len(m.stash) : \E k \in 1 .. Len(l.stash) : m.stash[j] = l.stash[k]
      BY <3>4, <3>5, <3>6
    <3>9. pc'[t] \in Busy /\ pc'[t] # "merge" /\ ~ext'[m.x].slab
      BY <3>2, <3>4, <3>7 DEF Busy, Purging
    <3> QED
      BY <1>1, <1>3, <3>3, <3>4, <3>8, <3>9, BusyKnows
  <2> QED
    BY <2>1, <2>2
<1>9. CASE Punch(t)
  <2>1. pc'[t] = "record" /\ loc'[t] = l
    BY <1>1, <1>2, <1>9 DEF Punch, Goto
  <2> QED
    BY <1>1, <1>3, <2>1, SameStash, BusyKnows DEF Giving, Busy, Purging
<1> QED
  BY <1>4, <1>5, <1>6, <1>7, <1>8, <1>9

LEMMA OnwardKnows ==
  ASSUME IndInv, NEW t \in Thread, Plain(t) \/ Pooling(t), pc[t] \in Giving \ {"record"}, Onward(t)
  PROVE  Hands(t)'
<1>1. PICK l \in Locals : l = loc[t] /\ Control(pc[t], l, mapped, cache[t])
  BY PlacedNow DEF Placed
<1>2. pc \in [Thread -> PCs] /\ loc \in [Thread -> Locals] /\ Hands(t)
  BY PlacedNow, Parts
<1>3. l.x \in Page /\ ~ext[l.x].slab /\ pc[t] \in Purging /\ pc[t] \in Busy
  BY <1>1, <1>2, BusyAt DEF Hands, Busy, Purging, Giving
<1>4. PICK m \in Locals :
        /\ m = loc'[t] /\ m.op = l.op /\ m.c = l.c /\ m.obj = l.obj /\ m.x = l.x
        /\ m.stash = l.stash
  <2>1. CASE loc'[t] = l
    BY <2>1
  <2>2. CASE loc'[t] = [l EXCEPT !.side = "prev"]
    BY <2>2 DEF Locals
  <2>3. CASE loc'[t] = [l EXCEPT !.side = "next", !.again = FALSE]
    BY ZenonT(60), <2>3 DEF Locals
  <2> QED
    BY <1>1, <1>2, <2>1, <2>2, <2>3 DEF Onward, NextRound
<1>5. pc'[t] \in {"look", "settle"} /\ pc'[t] \in Busy
  BY <1>2 DEF Onward, Goto, Busy, Purging, Giving
<1>6. ~ext'[l.x].slab
  BY <1>3, Spares DEF Spared
<1> QED
  BY <1>1, <1>3, <1>4, <1>5, <1>6, SameStash, BusyKnows

----------------------------------------------------------------------------
(* What a thread knows while it gives an extent back. *)

\* What a thread finds beside its extent, if it can be merged, begins where the
\* extent ends, or ends where it begins.
LEMMA Neighbour ==
  ASSUME IndInv, NEW t \in Thread, NEW l \in Locals, l = loc[t], pc[t] = "check", l.x \in Page,
         NEW y \in Page, Entry(Beside(t)).e = y, ext[y].state \in Kinds
  PROVE  /\ ~ext[y].slab
         /\ IF l.side = "next" THEN y = l.x + ext[l.x].size ELSE l.x = y + ext[y].size
<1>1. Types /\ Tiled /\ TreeInOrder /\ ~ext[y].slab
  BY Parts DEF Objects
<1>2. PICK x \in Page : x = l.x /\ x \in Live /\ ext[x].state = "active"
  BY HandLive, HandAt
<1>3. y \in Live /\ x # y
  BY <1>2 DEF Live, Kinds
<1>4. PICK m \in Nat, n \in Nat : m = ext[x].size /\ n = ext[y].size /\ m # 0 /\ n # 0
  BY <1>1, <1>2, <1>3, Spans
<1>5. \A q \in Page : ~(q \in Span(x, m) /\ q \in Span(y, n))
  BY <1>1, <1>2, <1>3, <1>4, Spans
<1>6. PICK q \in Page : q = Beside(t) /\ tree[q].e = y
  <2>1. Beside(t) \in Page
    <3> SUFFICES ASSUME Beside(t) \notin Page PROVE FALSE
      OBVIOUS
    <3>1. Entry(Beside(t)).e = NoPage
      BY DEF Entry, Nil
    <3> QED
      BY <3>1, Pages_
  <2> QED
    BY <2>1 DEF Entry
<1>7. q = y \/ q = y + n - 1
  BY <1>1, <1>4, <1>6 DEF TreeInOrder, Marks, Ends
<1>8. x \in Nat /\ y \in Nat /\ q \in Nat
  BY Pages_
<1>9. CASE l.side = "next"
  <2>1. q = x + m
    BY <1>2, <1>4, <1>6, <1>8, <1>9 DEF Beside, Last
  <2>2. q = y
    <3> SUFFICES ASSUME q # y PROVE FALSE
      OBVIOUS
    <3>1. x + m - 1 \in Span(x, m) /\ x + m - 1 \in Span(y, n)
      BY <1>4, <1>7, <1>8, <2>1 DEF Span
    <3>2. x + m - 1 \in Page
      BY <1>1, <1>2, <1>4, <3>1, Spans
    <3> QED
      BY <1>5, <3>1, <3>2
  <2> QED
    BY <1>1, <1>2, <1>4, <1>9, <2>1, <2>2
<1>10. CASE l.side # "next"
  <2>1. q = x - 1
    BY <1>2, <1>6, <1>10 DEF Beside
  <2>2. q = y + n - 1
    <3> SUFFICES ASSUME q # y + n - 1 PROVE FALSE
      OBVIOUS
    <3>1. x \in Span(x, m) /\ x \in Span(y, n)
      BY <1>4, <1>7, <1>8, <2>1 DEF Span
    <3> QED
      BY <1>5, <3>1
  <2>3. x = y + n
    BY <1>4, <1>8, <2>1, <2>2
  <2> QED
    BY <1>1, <1>2, <1>4, <1>10, <2>3
<1> QED
  BY <1>9, <1>10

LEMMA GivingKnows ==
  ASSUME IndInv, NEW t \in Thread,
         Record(t) \/ Look(t) \/ Check(t) \/ Merge(t) \/ Relock(t) \/ Settle(t)
  PROVE  Hands(t)'
<1>1. PICK l \in Locals : l = loc[t] /\ Control(pc[t], l, mapped, cache[t])
  BY PlacedNow DEF Placed
<1>2. pc \in [Thread -> PCs] /\ loc \in [Thread -> Locals] /\ Hands(t)
  BY PlacedNow, Parts
<1>3. pc[t] \in Giving
  BY DEF Record, Look, Check, Merge, Relock, Settle, At, Giving
<1>4. /\ pc[t] \in Busy /\ (Plain(t) \/ Pooling(t) \/ Shaping(t)) /\ pc[t] \in Purging
      /\ Record(t) \/ Merge(t) \/ Plain(t) \/ Pooling(t)
  BY <1>3 DEF Plain, Pooling, Shaping, Busy, Purging
<1>5. l.x \in Page /\ (pc[t] # "record" => ~ext[l.x].slab) /\ (pc[t] \in {"check", "merge"} => l.y \in Page)
  <2>1. l.x \in Page /\ (pc[t] \in {"check", "merge"} => l.y \in Page)
    BY <1>1, <1>3, <1>4, BusyAt
  <2>2. pc[t] # "record" => ~ext[l.x].slab
    BY <1>1, <1>2, <1>3 DEF Hands
  <2> QED
    BY <2>1, <2>2
<1>6. CASE Record(t)
  <2>1. PICK a \in Page : Recorded(t, a)
    BY <1>6, RecordDoes
  <2>2. /\ pc'[t] = "look" /\ a = l.x
        /\ loc'[t] = [l EXCEPT !.side = "next", !.again = FALSE, !.evicting = FALSE]
        /\ ext'[a] = [ext[a] EXCEPT !.szind = MAX_PSZ_IDX, !.slab = FALSE]
    BY <1>1, <2>1 DEF Recorded
  <2>3. PICK m : /\ m = loc'[t] /\ m.op = l.op /\ m.c = l.c /\ m.obj = l.obj /\ m.x = l.x
                 /\ m.stash = l.stash
    BY <2>2 DEF Locals
  <2>4. ~ext'[a].slab
    <3>1. PICK e \in ExtentType : e = ext[a]
      BY Parts, RecordTypes
    <3> QED
      BY <2>2, <3>1 DEF ExtentType
  <2>5. pc'[t] \in Busy /\ pc'[t] # "merge"
    BY <2>2 DEF Busy, Purging, Giving
  <2> QED
    BY <1>1, <1>4, <2>2, <2>3, <2>4, <2>5, SameStash, BusyKnows
<1>7. CASE Look(t)
  <2>1. CASE Onward(t)
    BY <1>7, <2>1, OnwardKnows DEF Look, At, Giving, Plain
  <2>2. CASE ~Onward(t)
    <3>0. pc[t] = "look" /\ Plain(t)
      BY <1>7 DEF Look, At, Plain
    <3>1. PICK q : q = Entry(Beside(t))
      OBVIOUS
    <3>2. loc'[t] = [l EXCEPT !.y = q.e] /\ pc'[t] = "check"
      BY <1>1, <1>2, <1>7, <2>2, <3>1 DEF Look, Goto
    <3>3. PICK m : /\ m = loc'[t] /\ m.op = l.op /\ m.c = l.c /\ m.obj = l.obj /\ m.x = l.x
                   /\ m.stash = l.stash
      BY <3>2 DEF Locals
    <3>4. ~ext'[l.x].slab
      BY <1>5, <3>0, Spares DEF Spared
    <3>5. pc'[t] \in Busy /\ pc'[t] # "merge"
      BY <3>2 DEF Busy, Purging, Giving
    <3> QED
      BY <1>1, <1>4, <3>2, <3>3, <3>4, <3>5, SameStash, BusyKnows
  <2> QED
    BY <2>1, <2>2
<1>8. CASE Check(t)
  <2>0. pc[t] = "check" /\ Pooling(t)
    BY <1>8 DEF Check, At, Pooling
  <2>1. CASE Onward(t)
    BY <2>0, <2>1, OnwardKnows DEF Giving
  <2>2. CASE ~Onward(t)
    <3>1. /\ pc'[t] \in {"look", "merge"} /\ loc'[t] = l
          /\ pc'[t] = "merge" => Entry(Beside(t)).e = l.y /\ ext[l.y].state = l.p
      BY <1>1, <1>2, <1>8, <2>2 DEF Check, Goto, Mergeable
    <3>2. ~ext'[l.x].slab /\ ext'[l.x].size = ext[l.x].size
      BY <1>5, <2>0, Spares DEF Spared
    <3>3. ext'[l.y].slab = ext[l.y].slab /\ ext'[l.y].size = ext[l.y].size
      BY <1>5, <2>0, Spares DEF Spared
    <3>4. pc'[t] = "merge" =>
            /\ ~ext'[l.y].slab
            /\ IF l.side = "next" THEN l.y = l.x + ext'[l.x].size ELSE l.x = l.y + ext'[l.y].size
      <4>1. l.p \in Kinds
        BY DEF Locals
      <4> QED
        BY <1>1, <1>5, <2>0, <3>1, <3>2, <3>3, <4>1, Neighbour
    <3>5. pc'[t] \in Busy
      BY <3>1 DEF Busy, Purging, Giving
    <3> QED
      BY <1>1, <1>4, <3>1, <3>2, <3>4, <3>5, SameStash, BusyKnows
  <2> QED
    BY <2>1, <2>2
<1>9. CASE Merge(t)
  <2>1. PICK a \in Page, b \in Page : Merged(t, a, b)
    BY <1>9, MergeDoes
  <2>2. /\ pc'[t] = "relock" /\ loc'[t] = [l EXCEPT !.x = a, !.y = NoPage] /\ ~ext[a].slab
    BY <1>1, <2>1 DEF Merged
  <2>3. PICK m : /\ m = loc'[t] /\ m.op = l.op /\ m.c = l.c /\ m.obj = l.obj /\ m.x = a
                 /\ m.stash = l.stash
    BY <2>2 DEF Locals
  <2>4. ~ext'[a].slab
    <3>1. PICK e \in ExtentType : e = ext[a]
      BY Parts, RecordTypes
    <3>2. PICK s : ext'[a] = [e EXCEPT !.size = s, !.szind = MAX_PSZ_IDX]
      BY Zenon, <2>1, <3>1 DEF Merged
    <3> QED
      BY <2>2, <3>1, <3>2 DEF ExtentType
  <2>5. pc'[t] \in Busy /\ pc'[t] # "merge"
    BY <2>2 DEF Busy, Purging, Giving
  <2> QED
    BY <1>1, <1>4, <2>2, <2>3, <2>4, <2>5, SameStash, BusyKnows
<1>10. CASE Relock(t)
  <2>0. pc[t] = "relock" /\ Pooling(t)
    BY <1>10 DEF Relock, At, Pooling
  <2>1. ~ext'[l.x].slab
    BY <1>5, <2>0, Spares DEF Spared
  <2>2. \/ pc'[t] = "look" /\ \E s, g : loc'[t] = [l EXCEPT !.side = s, !.again = g]
        \/ pc'[t] = "look" /\ loc'[t] = [l EXCEPT !.side = "next"]
        \/ pc'[t] = "evict" /\ loc'[t] = [l EXCEPT !.x = NoPage, !.evicting = FALSE]
    <3>1. CASE l.p = "dirty" /\ ~l.evicting
      BY Zenon, <1>1, <1>2, <1>10, <3>1 DEF Relock, Goto
    <3>2. CASE l.evicting
      <4>1. l.p = "dirty"
        BY <1>1, <3>2 DEF Control
      <4> QED
        BY <1>1, <1>2, <1>10, <3>2, <4>1 DEF Relock, Goto
    <3>3. CASE l.p = "muzzy" /\ ~l.evicting
      <4>1. PICK s \in {"next", "prev"}, g \in BOOLEAN :
              pc'[t] = "look" /\ loc'[t] = [l EXCEPT !.side = s, !.again = g]
        BY Zenon, <1>1, <1>2, <1>10, <3>3 DEF Relock, Goto
      <4> QED
        BY ZenonT(60), <4>1
    <3>4. l.p \in {"dirty", "muzzy"}
      BY DEF Locals, Kinds
    <3> QED
      BY Zenon, <3>1, <3>2, <3>3, <3>4
  <2>3. PICK m : /\ m = loc'[t] /\ m.op = l.op /\ m.c = l.c /\ m.obj = l.obj
                 /\ pc'[t] = "look" => m.x = l.x
                 /\ m.stash = l.stash
    BY Zenon, <2>2 DEF Locals
  <2>4. pc'[t] \in Busy /\ pc'[t] \in {"look", "evict"}
    BY Zenon, <2>2 DEF Busy, Purging, Giving
  <2>5. pc'[t] \in (Giving \ {"record"}) \cup {"punch"} => ~ext'[m.x].slab
    BY <2>1, <2>3, <2>4 DEF Giving
  <2> QED
    BY <1>1, <1>4, <2>3, <2>4, <2>5, SameStash, BusyKnows
<1>11. CASE Settle(t)
  <2>0. pc[t] = "settle" /\ Pooling(t)
    BY Zenon, <1>11 DEF Settle, At, Pooling
  <2>1. ~ext'[l.x].slab
    BY <1>5, <2>0, Spares DEF Spared
  <2>2. pc'[t] \in {"ticks", "stashed", "evict"}
    BY <1>2, <1>11 DEF Settle, Goto
  <2>3. pc'[t] \in Busy /\ pc'[t] \notin (Giving \ {"record"}) \cup {"punch"} /\ pc'[t] # "merge"
    BY <2>2 DEF Busy, Purging, Giving
  <2>4. CASE ~l.evicting
    <3>1. loc'[t] = [l EXCEPT !.x = NoPage, !.y = NoPage]
      BY <1>1, <1>2, <1>11, <2>4 DEF Settle, Goto
    <3>2. PICK m : m = loc'[t] /\ m.op = l.op /\ m.c = l.c /\ m.obj = l.obj /\ m.stash = l.stash
      BY <3>1 DEF Locals
    <3> QED
      BY <1>1, <1>4, <2>3, <3>2, SameStash, BusyKnows
  <2>5. CASE l.evicting
    <3>1. PICK i, s : i = l.left - ext[l.x].size /\ s = Append(l.stash, l.x)
      OBVIOUS
    <3>2. loc'[t] = [l EXCEPT !.stash = s, !.x = NoPage, !.y = NoPage, !.evicting = FALSE,
                              !.left = i]
      BY <1>1, <1>2, <1>11, <2>5, <3>1 DEF Settle, Goto
    <3>3. PICK m : m = loc'[t]
      OBVIOUS
    <3>4. m.op = l.op /\ m.c = l.c /\ m.obj = l.obj /\ m.stash = s
      BY <3>2, <3>3 DEF Locals
    <3>5. PICK u \in Seq(Page), x \in Page : u = l.stash /\ x = l.x
      BY <1>5 DEF Locals
    <3>6. Len(u) \in Nat /\ Len(Append(u, x)) = Len(u) + 1 /\ Append(u, x)[Len(u) + 1] = x
          /\ \A j \in 1 .. Len(u) : Append(u, x)[j] = u[j]
      BY LenProperties, AppendProperties
    <3>7. ASSUME NEW j \in 1 .. Len(m.stash)
          PROVE  (\E k \in 1 .. Len(l.stash) : m.stash[j] = l.stash[k]) \/ ~ext'[m.stash[j]].slab
      <4>1. m.stash = Append(u, x)
        BY <3>1, <3>4, <3>5
      <4>2. j \in 1 .. Len(u) \/ j = Len(u) + 1
        BY <3>6, <3>7, <4>1
      <4>3. CASE j = Len(u) + 1
        BY <2>1, <3>5, <3>6, <4>1, <4>3
      <4>4. CASE j \in 1 .. Len(u)
        BY <3>5, <3>6, <4>1, <4>4
      <4> QED
        BY <4>2, <4>3, <4>4
    <3> QED
      BY <1>1, <1>4, <2>3, <3>3, <3>4, <3>7, BusyKnows
  <2>6. l.evicting \in BOOLEAN
    BY DEF Locals
  <2> QED
    BY <2>4, <2>5, <2>6
<1> QED
  BY <1>6, <1>7, <1>8, <1>9, <1>10, <1>11

LEMMA KnowsAfter ==
  ASSUME IndInv, NEW t \in Thread, Plain(t) \/ Pooling(t) \/ Shaping(t)
  PROVE  Hands(t)'
<1>1. pc \in [Thread -> PCs]
  BY PlacedNow
<1>2. CASE MapFails(t) \/ PunchStops(t) \/ EvictStops(t) \/ GCStops(t)
  BY <1>2, StopKnows DEF MapFails, PunchStops, EvictStops, GCStops, Plain
<1>3. CASE \/ Carve(t) \/ MapFile(t) \/ InsertFile(t) \/ Retired(t) \/ Interior(t) \/ Fill(t) \/ Pop(t)
           \/ Log(t) \/ LogCached(t) \/ LogFree(t)
  <2>1. pc'[t] \in Quieting
    BY Zenon, <1>1, <1>3 DEF Carve, MapFile, InsertFile, Retired, Interior, Fill, Pop, Log, LogCached, LogFree,
                      Goto, Done, Quieting
  <2> QED
    BY <2>1, QuietKnows
<1> QED
  BY <1>2, <1>3, RecycleKnows, SplitKnows, TrailKnows, RetireKnows, RegisterKnows, CallKnows, PurgeKnows,
     GivingKnows DEF Plain, Pooling, Shaping

LEMMA HandsKept ==
  ASSUME IndInv, NEW t \in Thread, Plain(t) \/ Pooling(t) \/ Shaping(t)
  PROVE  \A u \in Thread : Hands(u)'
<1> SUFFICES ASSUME NEW u \in Thread PROVE Hands(u)'
  OBVIOUS
<1>1. CASE u = t
  BY <1>1, KnowsAfter
<1>2. CASE u # t
  BY <1>2, OthersKnow
<1> QED
  BY <1>1, <1>2

----------------------------------------------------------------------------
(* The inductive invariant. *)

LEMMA IndStep ==
  ASSUME IndInv, NEW t \in Thread, Step(t) \/ Begin(t)
  PROVE  IndInv'
<1>1. Plain(t) \/ Pooling(t) \/ Shaping(t)
  BY Steps
<1>2. Types' /\ IsFiniteSet(log)' /\ NewMemory'
  BY <1>1, TypesKept, MemoryKept
<1>3. \A u \in Thread : Control(pc[u], loc[u], mapped, cache[u])'
  BY <1>1, MemoryKept, AllPlaced DEF Placed
<1>4. Tiled'
  BY <1>1, PlainTiled, PoolingTiled, ShapingTiled
<1>5. TreeInOrder'
  BY <1>1, Parts, PlainKeeps, PoolingKeeps, TreeStays, ShapingTree
<1>6. Owned'
  BY <1>1, PlainOwned, PoolingOwned, ShapingOwned
<1>7. PoolsInOrder'
  BY <1>1, PoolsKept
<1>8. (\A u \in Thread : Hands(u))' /\ Objects'
  BY <1>1, HandsKept, ObjectsKept
<1> QED
  BY <1>2, <1>3, <1>4, <1>5, <1>6, <1>7, <1>8 DEF IndInv, Types

LEMMA IndStutter ==
  ASSUME IndInv, UNCHANGED vars
  PROVE  IndInv'
<1>1. /\ ext' = ext /\ tree' = tree /\ pool' = pool /\ fresh' = fresh /\ lost' = lost
      /\ mapped' = mapped /\ files' = files /\ lock' = lock /\ purging' = purging /\ log' = log
      /\ cache' = cache /\ held' = held /\ slabs' = slabs /\ pc' = pc /\ loc' = loc /\ ops' = ops
  BY DEF vars
<1>2. TypeOK' /\ (pc \in [Thread -> PCs] /\ loc \in [Thread -> Locals] /\ IsFiniteSet(log))'
  BY <1>1 DEF IndInv, TypeOK
<1>3. (\A t \in Thread : Control(pc[t], loc[t], mapped, cache[t]))' /\ NewMemory'
  BY <1>1 DEF IndInv, NewMemory
<1>4. Tiled'
  <2>1. Live' = Live /\ \A q : Tiles(q)' = Tiles(q)
    BY <1>1 DEF Tiles, Live
  <2> QED
    BY <1>1, <2>1 DEF IndInv, Tiled
<1>5. TreeInOrder'
  BY <1>1 DEF IndInv, TreeInOrder, Live
<1>6. Owned'
  <2>1. \A a : Owners(a)' = Owners(a)
    BY <1>1 DEF Owners, Program, Mine
  <2> QED
    BY <1>1, <2>1 DEF IndInv, Owned
<1>7. PoolsInOrder'
  BY SMTT(30), <1>1 DEF IndInv, PoolsInOrder, InPool
<1>8. (\A t \in Thread : Hands(t))' /\ Objects'
  BY <1>1 DEF IndInv, Hands, Objects, Object
<1> QED
  BY <1>2, <1>3, <1>4, <1>5, <1>6, <1>7, <1>8 DEF IndInv

LEMMA IndNext ==
  ASSUME IndInv, [Next]_vars
  PROVE  IndInv'
<1>1. ASSUME NEW t \in Thread, Step(t) \/ Begin(t) PROVE IndInv'
  BY <1>1, IndStep
<1> QED
  BY <1>1, IndStutter DEF Next, Terminated

LEMMA IndInit ==
  ASSUME Init
  PROVE  IndInv /\ AssertionsHold
<1>1. PICK k \in Chunk :
        /\ ext = [a \in Page |-> NoExtent]
        /\ tree = [a \in Page |-> Nil]
        /\ pool = [p \in {"dirty", "muzzy"} |-> EmptyPool]
        /\ fresh = [mem |-> Base(k), n |-> CHUNK]
        /\ lost = {} /\ mapped = {k} /\ files = {k}
        /\ lock = [l \in {"dirty", "muzzy", "arena"} |-> NoThread]
        /\ purging = [p \in {"dirty", "muzzy"} |-> FALSE]
        /\ log = {[type |-> "file", addr |-> Base(k), k |-> 0]}
        /\ cache = [t \in Thread |-> [c \in Requests |-> <<>>]]
        /\ held = {} /\ slabs = {}
        /\ pc = [t \in Thread |-> "idle"] /\ loc = [t \in Thread |-> NoLocals]
        /\ ops = 0 /\ status = "run"
  BY DEF Init
<1>2. /\ Base(k) \in Page /\ Base(k) \in Nat /\ Base(k) + CHUNK <= NPages
      /\ CHUNK \in Nat \ {0} /\ NPages \in Nat
  BY Chunks, Pages_, Sizes
<1>3. \A a \in Page : ext[a].state = "none" /\ ext[a].slab = FALSE /\ tree[a] = Nil
  BY <1>1 DEF NoExtent
<1>4. TypeOK
  <2>1. NoExtent \in ExtentType
    <3>1. 0 \in 0 .. NPages /\ MAX_PSZ_IDX \in 0 .. SLAB_SCIND
      BY <1>2, ClassesAre
    <3>2. NoItem \in ItemType
      BY DEF NoItem, ItemType
    <3> QED
      BY <3>1, <3>2 DEF NoExtent, ExtentType
  <2>2. Nil \in EntryType
    BY ClassesAre
  <2>3. EmptyPool \in PoolType
    <3>1. <<>> \in Seq(Page)
      OBVIOUS
    <3> QED
      BY <3>1 DEF EmptyPool, PoolType
  <2>4. ext \in [Page -> ExtentType] /\ tree \in [Page -> EntryType]
        /\ pool \in [{"dirty", "muzzy"} -> PoolType]
    BY <1>1, <2>1, <2>2, <2>3
  <2>5. fresh \in [mem : {NoPage} \cup 0 .. NPages, n : 0 .. CHUNK]
    <3>1. Base(k) \in 0 .. NPages /\ CHUNK \in 0 .. CHUNK
      BY <1>2
    <3> QED
      BY <1>1, <3>1
  <2>6. cache \in [Thread -> [Requests -> Seq(Page)]]
    <3>1. <<>> \in Seq(Page)
      OBVIOUS
    <3> QED
      BY <1>1, <3>1
  <2>7. "idle" \in PCs
    BY DEF PCs
  <2>8. /\ lock \in [{"dirty", "muzzy", "arena"} -> Thread \cup {NoThread}]
        /\ purging \in [{"dirty", "muzzy"} -> BOOLEAN]
        /\ pc \in [Thread -> PCs] /\ ops \in 0 .. MaxOps
    BY <1>1, <2>7, PolicyAssumption
  <2>9. \A i \in log : i.type \in {"file", "malloc", "slab"} /\ i.addr \in Page /\ i.k \in Nat
    BY <1>1, <1>2
  <2>10. lost \subseteq Page /\ mapped \subseteq Chunk /\ files \subseteq mapped
         /\ held \subseteq Page /\ slabs \subseteq Page
    BY <1>1
  <2> QED
    BY <2>4, <2>5, <2>6, <2>8, <2>9, <2>10 DEF TypeOK, ExtentType, ItemType, EntryType, PoolType
<1>5. loc \in [Thread -> Locals] /\ pc \in [Thread -> PCs] /\ IsFiniteSet(log)
  <2>1. IsFiniteSet(log)
    BY <1>1, FS_Singleton
  <2>2. pc \in [Thread -> PCs]
    BY <1>4 DEF TypeOK
  <2> QED
    BY <1>1, <2>1, <2>2, IdleLocals
<1>6. \A t \in Thread : Control(pc[t], loc[t], mapped, cache[t])
  BY <1>1 DEF Control, CallsAt, Request, NoLocals, Giving, Purging
<1>7. NewMemory
  BY <1>1, <1>2 DEF NewMemory
<1>8. Tiled
  <2>1. Live = {}
    BY <1>3 DEF Live
  <2>2. ASSUME NEW q \in Page PROVE One(Tiles(q), FileOf(q) \in mapped)
    <3>1. \A t \in Thread : Unregistered(pc[t], loc[t]) = {}
      BY <1>1, UnAt
    <3>2. Tiles(q) = {<<"fresh", f>> : f \in {g \in {fresh} : q \in Span(g.mem, g.n)}}
      BY <1>1, <2>1, <3>1 DEF Tiles
    <3>3. FileOf(q) \in mapped <=> q \in Span(fresh.mem, fresh.n)
      BY <1>1, Chunks
    <3> QED
      BY <3>2, <3>3 DEF One
  <2> QED
    BY <1>1, <2>1, <2>2 DEF Tiled
<1>9. TreeInOrder
  <2>1. Nil.e = NoPage /\ NoPage \notin Page
    BY Pages_ DEF Nil
  <2>2. \A a \in Page : a \notin Live
    BY <1>3 DEF Live
  <2> QED
    BY <1>3, <2>1, <2>2 DEF TreeInOrder
<1>10. Owned
  <2> SUFFICES ASSUME NEW a \in Page PROVE Owners(a) = {}
    BY <1>3 DEF Owned, One
  <2>1. ASSUME NEW t \in Thread PROVE Mine(t, a) = {}
    <3>1. /\ InHand(pc[t], loc[t]) = {} /\ Aside(pc[t], loc[t]) = {}
          /\ loc[t].stash = <<>> /\ \A c \in Requests : cache[t][c] = <<>>
      BY <1>1, HandAt DEF NoLocals
    <3> QED
      BY <3>1, ClaimsAre, PlacesEmpty DEF Mine
  <2>2. Program(a) = {}
    BY <1>1, ProgramAre
  <2> QED
    BY <2>1, <2>2, OwnersAre
<1>11. PoolsInOrder
  <2>1. ASSUME NEW p \in Kinds PROVE Lists(EmptyPool, {}, ext)
    <3>1. Elems(<<>>) = {} /\ NoDup(<<>>)
      BY DEF Elems, NoDup
    <3>2. UNION {Span(a, ext[a].size) : a \in {}} = {}
      OBVIOUS
    <3>3. Cardinality({}) = 0
      BY FS_EmptySet
    <3>4. {get_psizeclass_floor(ext[a].size) : a \in {}} = {}
      OBVIOUS
    <3> QED
      BY <3>1, <3>2, <3>3, <3>4 DEF Lists, EmptyPool
  <2>2. ASSUME NEW p \in Kinds PROVE InPool(p) = {} /\ pool[p] = EmptyPool
    BY <1>1, <1>3 DEF InPool, Kinds
  <2> QED
    BY <2>1, <2>2 DEF PoolsInOrder
<1>12. \A t \in Thread : Hands(t)
  <2> SUFFICES ASSUME NEW t \in Thread PROVE Known(pc[t], loc[t], ext, tree)
    BY KnownIs
  <2>1. pc[t] = "idle" /\ loc[t].stash = <<>>
    BY <1>1 DEF NoLocals
  <2>2. Len(loc[t].stash) = 0
    BY <2>1
  <2> QED
    BY <2>1, <2>2 DEF Known, Giving, Purging
<1>13. Objects
  <2>1. \A t \in Thread, c \in Requests : Len(cache[t][c]) = 0
    BY <1>1
  <2> QED
    BY <1>1, <1>3, <2>1 DEF Objects, Kinds
<1>14. AssertionsHold
  BY <1>1 DEF AssertionsHold
<1> QED
  BY <1>4, <1>5, <1>6, <1>7, <1>8, <1>9, <1>10, <1>11, <1>12, <1>13, <1>14 DEF IndInv

----------------------------------------------------------------------------
(* The theorems. *)

\* The inductive invariant and the assertions hold in every state.
LEMMA Invariant == Spec => [](IndInv /\ AssertionsHold)
<1>1. Init => IndInv /\ AssertionsHold
  BY IndInit
<1>2. (IndInv /\ AssertionsHold) /\ [Next]_vars => (IndInv /\ AssertionsHold)'
  <2> SUFFICES ASSUME IndInv, AssertionsHold, [Next]_vars PROVE (IndInv /\ AssertionsHold)'
    OBVIOUS
  <2>1. IndInv'
    BY IndNext
  <2>2. AssertionsHold'
    <3>1. CASE UNCHANGED vars
      BY <3>1 DEF vars, AssertionsHold
    <3>2. ASSUME NEW t \in Thread, Step(t) \/ Begin(t) PROVE AssertionsHold'
      BY <3>2, AssertionsStay
    <3> QED
      BY <3>1, <3>2 DEF Next, Terminated
  <2> QED
    BY <2>1, <2>2
<1> QED
  BY <1>1, <1>2, PTL DEF Spec

\* A set in which there is one thing, or none.
LEMMA OneHas ==
  ASSUME NEW S, NEW cond, One(S, cond)
  PROVE  Cardinality(S) = IF cond THEN 1 ELSE 0
<1>1. CASE cond
  <2>1. PICK o : S = {o}
    BY <1>1 DEF One
  <2> QED
    BY <1>1, <2>1, FS_Singleton
<1>2. CASE ~cond
  <2>1. S = {}
    BY <1>2 DEF One
  <2> QED
    BY <1>2, <2>1, FS_EmptySet
<1> QED
  BY <1>1, <1>2

LEMMA InvariantGives ==
  ASSUME IndInv
  PROVE  TypeOK /\ ExtentsTile /\ ActiveOwned /\ TreeExact /\ PoolsExact /\ HeldFound
<1>1. TypeOK
  BY DEF IndInv
<1>2. ExtentsTile
  <2>1. \A q \in Page : One(Tiles(q), FileOf(q) \in mapped)
    BY DEF IndInv, Tiled
  <2> QED
    BY <2>1, OneHas DEF ExtentsTile
<1>3. ActiveOwned
  <2>1. \A a \in Page : One(Owners(a), ext[a].state = "active")
    BY DEF IndInv, Owned
  <2> QED
    BY <2>1, OneHas DEF ActiveOwned
<1>4. TreeExact
  <2> SUFFICES ASSUME NEW a \in Page
               PROVE  {q \in Page : tree[q].e = a} =
                        IF a \notin Live THEN {}
                        ELSE IF ext[a].slab THEN Span(a, ext[a].size) ELSE Ends(a, ext[a].size)
    BY DEF TreeExact
  <2>1. \A q \in Page : tree[q].e = a <=> a \in Live /\ q \in Marks(ext, a)
    BY DEF IndInv, TreeInOrder
  <2>2. CASE a \notin Live
    BY <2>1, <2>2
  <2>3. CASE a \in Live
    <3>1. \A q \in Marks(ext, a) : q \in Page
      BY <2>3, MarksIn, Spans, Parts
    <3>2. {q \in Page : tree[q].e = a} = Marks(ext, a)
      BY <2>1, <2>3, <3>1
    <3> QED
      BY <2>3, <3>2 DEF Marks
  <2> QED
    BY <2>2, <2>3
<1>5. PoolsExact
  <2>1. \A p \in Kinds : Lists(pool[p], InPool(p), ext)
    BY DEF IndInv, PoolsInOrder
  <2>2. \A p \in Kinds : InPool(p) = {a \in Live : ext[a].state = p}
    BY DEF InPool, Live, Kinds
  <2> QED
    BY <2>1, <2>2 DEF PoolsExact, Lists, Kinds
<1>6. HeldFound
  BY DEF IndInv, Objects, Object, HeldFound
<1> QED
  BY <1>1, <1>2, <1>3, <1>4, <1>5, <1>6

\* The state of the arena's extents has its type after any steps, until the
\* process stops: no extent grows beyond the address space, no class is
\* invented and no lock is left to nobody (extent.c:484-1235).
THEOREM ExtentsTypes == Spec => []TypeOK
BY Invariant, InvariantGives, PTL

\* Every mapped page is in one extent, or in none yet and with one thread,
\* the arena or what is lost, and no other page is in any: whatever is split,
\* merged, evicted and mapped, and in any interleaving (extent.c:532-604,
\* 1057-1099, arena.c:132-151, 303-323).
THEOREM ExtentsTiled == Spec => []ExtentsTile
BY Invariant, InvariantGives, PTL

\* An extent in use has one owner, and an extent that is not has none: no two
\* threads take the same extent, and none goes to a pool while the program, a
\* slab or a cache has it (extent.c:484-518, 1101-1235, tcache.h:102-116,
\* nvalloc.c:190-209).
THEOREM ExtentsOwned == Spec => []ActiveOwned
BY Invariant, InvariantGives, PTL

\* The radix tree leads to an extent from its first and last page, to a slab
\* from each of its pages, and from nowhere else, though other threads read
\* and write it meanwhile (extent.c:532-604, 781-793, 964-978, 1057-1099).
THEOREM TreeLeads == Spec => []TreeExact
BY Invariant, InvariantGives, PTL

\* The list, the bitmap and the page count of each pool are exact after any
\* step (extent.c:248-325, 680-726).
THEOREM PoolsList == Spec => []PoolsExact
BY Invariant, InvariantGives, PTL

\* A free of an object the program has finds its extent, with the class and
\* the size it was allocated with (nvalloc.c:165-186).
THEOREM ObjectsFound == Spec => []HeldFound
BY Invariant, InvariantGives, PTL

\* The assertions on what the tree has never fail: the pages inside a slab
\* have no extent before it is registered there, an extent that is given back
\* is the one the tree leads to, and a free finds an extent with a class
\* (rtree.h:420, extent.c:1211, nvalloc.c:171).
THEOREM AssertionsPass == Spec => []AssertionsHold
BY Invariant, PTL

=============================================================================
