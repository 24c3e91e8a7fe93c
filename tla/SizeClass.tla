------------------------------ MODULE SizeClass ------------------------------
(***************************************************************************)
(* Size classes: the tables sizeclass_boot builds, the class a request     *)
(* gets, and the layout of a slab, fresh or after a morph, in bytes.       *)
(*                                                                         *)
(* The lookup tables are kept as the number of entries filled when a class *)
(* is done, which determines them: an entry has the first class that       *)
(* reaches it.  A slab is created, or becomes another class, for a small   *)
(* request; the blocks it holds are abstracted to their number and to the  *)
(* lowest of them, which is what slab_morphing decides by.                 *)
(***************************************************************************)
EXTENDS Naturals, Sequences, FiniteSets, FiniteSetsExt, Interleave

CONSTANTS
  SLAB_SIZE,            \* bytes of a slab
  CACHELINE_SIZE,       \* bytes of a cache line
  NBANKS,               \* lines between two numbers of one line
  PAGE_SIZE,            \* bytes of a page
  HeadBytes,            \* sizeof(slab_t)
  EntryBytes,           \* sizeof(sb_table_t)
  LowNum, LowDen,       \* LOW_SLAB_THRESHOLOD = LowNum / LowDen
  Sizes                 \* the requests that are made

ASSUME SizeAssumption ==
  /\ {SLAB_SIZE, CACHELINE_SIZE, NBANKS, PAGE_SIZE, EntryBytes, LowDen}
       \subseteq Nat \ {0}
  /\ {HeadBytes, LowNum} \subseteq Nat
  /\ Sizes \subseteq Nat \ {0}

VARIABLES
  phase,        \* how far sizeclass_boot is
  sizeclasses,  \* the classes of small blocks, by index
  filled,       \* entries of sizeclass_lookup filled when a class is done
  pfilled,      \* the same of psizeclass_lookup
  meta_size,    \* bytes of metadata any class may need
  asked,        \* the request being served
  slab          \* the slab looked at

vars == <<phase, sizeclasses, filled, pfilled, meta_size, asked, slab>>

----------------------------------------------------------------------------
(* The tables of sizeclass.h. *)
SC(lg_grp, lg_delta, ndelta) == 2 ^ lg_grp + ndelta * 2 ^ lg_delta

MAX_SZ_IDX == 40
MAX_PSZ_IDX == 63
MAX_SZ == SC(13, 11, 3)

SmallIdx == 1 .. MAX_SZ_IDX - 1
PageIdx == 0 .. MAX_PSZ_IDX - 1

SIZE_CLASSES ==
  [idx \in SmallIdx |->
     IF idx < 5 THEN SC(3, 3, idx - 1)
     ELSE SC(5 + (idx - 5) \div 4, 3 + (idx - 5) \div 4, ((idx - 5) % 4) + 1)]

\* In pages.  The array has one element more than the list.
PSIZE_CLASSES ==
  [idx \in PageIdx |->
     IF idx = MAX_PSZ_IDX - 1 THEN 0
     ELSE IF idx < 4 THEN idx + 1
     ELSE SC(2 + (idx - 4) \div 4, (idx - 4) \div 4, ((idx - 4) % 4) + 1)]

RoundUp(n, a) == ((n + a - 1) \div a) * a

\* mutant: whole lines, but not one for every bank.
get_meta_size_lines(nbits) == RoundUp((nbits + 7) \div 8, CACHELINE_SIZE)

\* Bytes for the bits of nbits blocks: every bank gets whole lines.
get_meta_size(nbits) == RoundUp((nbits + 7) \div 8, CACHELINE_SIZE * NBANKS)

head_size == RoundUp(HeadBytes, CACHELINE_SIZE)

\* Counted down from SLAB_SIZE / bitsize + 1, the first number n of blocks that
\* fit beside extra[n] bytes of other data.
MostBlocks(bitsize, extra) ==
  LET fit(n) == n * bitsize + extra[n] <= SLAB_SIZE
  IN CHOOSE n \in DOMAIN extra :
       fit(n) /\ \A m \in n + 1 .. SLAB_SIZE \div bitsize + 1 : ~fit(m)

Candidates(bitsize) == 0 .. SLAB_SIZE \div bitsize + 1

\* The layout sizeclass_boot gives the class of bitsize.
Fresh(bitsize) ==
  LET nbits == MostBlocks(bitsize, [n \in Candidates(bitsize) |->
                                      head_size + get_meta_size(n)])
  IN [bitsize |-> bitsize, nbits |-> nbits, moffset |-> head_size,
      toffset |-> 0, roffset |-> head_size + get_meta_size(nbits),
      n_bitmaps |-> (nbits + 63) \div 64]

\* The layout with room for any class's metadata and an old-block table.
sizeclass_reset(sc, table_size) ==
  LET nbits == MostBlocks(sc.bitsize, [n \in Candidates(sc.bitsize) |->
                                         head_size + meta_size + table_size])
  IN [sc EXCEPT !.nbits = nbits,
                !.toffset = sc.moffset + meta_size,
                !.roffset = sc.moffset + meta_size + table_size,
                !.n_bitmaps = (nbits + 63) \div 64]

\* mutant: the entries are counted as bytes.
get_sb_table_size_bytes(nbits) == RoundUp(nbits, CACHELINE_SIZE)

\* Bytes of the table of nbits old blocks.
get_sb_table_size(nbits) == RoundUp(EntryBytes * nbits, CACHELINE_SIZE)

----------------------------------------------------------------------------
(* The lookups.  An entry that no class fills stays zero. *)
get_sizeclass(size) == Min({c \in DOMAIN filled : size < filled[c]})

get_psizeclass(npages) ==
  LET reach == {c \in DOMAIN pfilled : npages < pfilled[c]}
  IN IF reach = {} THEN 0 ELSE Min(reach)

\* Whether a class of small blocks serves the request: not past MAX_SZ, and
\* not for three classes whose blocks a page class serves.
is_small_size(size) ==
  /\ size <= MAX_SZ
  /\ get_sizeclass(size) \notin {32, 36, 38}

Pages(size) == (size + PAGE_SIZE - 1) \div PAGE_SIZE

\* Pages are whole lines, and the last page class has the pages of each request.
ASSUME PagesAssumption ==
  /\ PAGE_SIZE % CACHELINE_SIZE = 0
  /\ \A s \in Sizes : Pages(s) <= PSIZE_CLASSES[MAX_PSZ_IDX - 2]

\* Beside one block of any class there is room for the metadata and the table of
\* any; a line of metadata has the bits of 512 blocks.
ASSUME RoomAssumption ==
  /\ CACHELINE_SIZE = 64 /\ head_size <= SLAB_SIZE
  /\ \A b, c \in SmallIdx :
       head_size + get_meta_size(Fresh(SIZE_CLASSES[b]).nbits + 1)
         + get_sb_table_size((Fresh(SIZE_CLASSES[c]).nbits * LowNum) \div LowDen)
         <= SLAB_SIZE

----------------------------------------------------------------------------
NoRequest == [kind |-> "none"]
NoSlab == [sc |-> "none"]
Whole(sc) == [sc |-> sc, num_b |-> 0]

Init ==
  /\ phase = "small"
  /\ sizeclasses = <<>>
  /\ filled = <<>>
  /\ pfilled = <<>>
  /\ meta_size = 0
  /\ asked = NoRequest
  /\ slab = NoSlab

\* The classes done so far are the domain of the table being built.
NextIdx(table, first) == first + Cardinality(DOMAIN table)
With(f, k, v) == [j \in DOMAIN f \cup {k} |-> IF j = k THEN v ELSE f[j]]

\* mutant: the entry of the class's own size is left to the next class.
FilledBy_below(table, size) == Max({size} \cup {table[c] : c \in DOMAIN table})

\* Entries 0 .. size are filled when the class of this size is done, more when
\* an earlier class came further.
FilledBy(table, size) == Max({size + 1} \cup {table[c] : c \in DOMAIN table})

BootLookup ==
  /\ phase = "small"
  /\ LET idx == NextIdx(filled, 1)
     IN /\ filled' = With(filled, idx, FilledBy(filled, SIZE_CLASSES[idx]))
        /\ phase' = IF idx + 1 < MAX_SZ_IDX THEN phase ELSE "pages"
  /\ UNCHANGED <<sizeclasses, pfilled, meta_size, asked, slab>>

BootPages ==
  /\ phase = "pages"
  /\ LET idx == NextIdx(pfilled, 0)
     IN /\ pfilled' = With(pfilled, idx, FilledBy(pfilled, PSIZE_CLASSES[idx]))
        /\ phase' = IF idx + 1 < MAX_PSZ_IDX THEN phase ELSE "geometry"
  /\ UNCHANGED <<sizeclasses, filled, meta_size, asked, slab>>

BootGeometry ==
  /\ phase = "geometry"
  /\ LET idx == NextIdx(sizeclasses, 1)
         sc == Fresh(SIZE_CLASSES[idx])
     IN /\ sizeclasses' = With(sizeclasses, idx, sc)
        /\ meta_size' = Max({meta_size, get_meta_size(sc.nbits + 1)})
        /\ phase' = IF idx + 1 < MAX_SZ_IDX THEN phase ELSE "ready"
  /\ UNCHANGED <<filled, pfilled, asked, slab>>

----------------------------------------------------------------------------
\* nvalloc_malloc_to: the size is rounded up to whole lines before the lookup.
\* Requests made while the slab looked at is mixed change nothing here.
Request ==
  /\ phase = "ready"
  /\ asked = NoRequest
  /\ slab # NoSlab => slab.num_b = 0
  /\ \E s \in Sizes :
       LET size == RoundUp(s, CACHELINE_SIZE)
       IN asked' = IF is_small_size(size)
                   THEN [kind |-> "small", size |-> s,
                         class |-> get_sizeclass(size)]
                   ELSE [kind |-> "large", size |-> s,
                         class |-> get_psizeclass(Pages(size))]
  /\ UNCHANGED <<phase, sizeclasses, filled, pfilled, meta_size, slab>>

\* The request is served without a change to the slab looked at.
Served ==
  /\ asked # NoRequest
  /\ asked' = NoRequest
  /\ UNCHANGED <<phase, sizeclasses, filled, pfilled, meta_size, slab>>

SlabCreate ==
  /\ asked.kind = "small"
  /\ slab = NoSlab
  /\ slab' = Whole(sizeclasses[asked.class])
  /\ asked' = NoRequest
  /\ UNCHANGED <<phase, sizeclasses, filled, pfilled, meta_size>>

\* Numbers of blocks a slab on the LRU list may hold.  A morph depends on the
\* number by the size of the table only: the most of each size stand for all.
HeldCounts(sc) ==
  LET most == (sc.nbits * LowNum) \div LowDen
  IN {n \in 1 .. most : n = most \/ (n * EntryBytes) % CACHELINE_SIZE = 0}

\* Where the lowest held block may start when the morph is not given up.
FirstHeld(sc_b, sc_a) ==
  {bid \in 0 .. sc_b.nbits - 1 :
     sc_a.roffset <= sc_b.roffset + bid * sc_b.bitsize}

\* Steps 3 to 5 of slab_morphing: the lowest number the old blocks may have is
\* kept, every block from there on may be one of them.
Morph ==
  /\ asked.kind = "small"
  /\ slab # NoSlab
  /\ slab.num_b = 0
  /\ asked.class # get_sizeclass(slab.sc.bitsize)
  /\ \E n \in HeldCounts(slab.sc) :
       LET sc_b == slab.sc
           sc_a == sizeclass_reset(sizeclasses[asked.class],
                                   get_sb_table_size(n))
           first == FirstHeld(sc_b, sc_a)
       IN /\ Cardinality(first) >= n
          /\ slab' = [sc |-> sc_a, sc_b |-> sc_b, num_b |-> n,
                      first |-> Min(first)]
  /\ asked' = NoRequest
  /\ UNCHANGED <<phase, sizeclasses, filled, pfilled, meta_size>>

\* The last old block is freed: the slab is whole, with the layout it has.
OldFreed ==
  /\ asked = NoRequest
  /\ slab # NoSlab
  /\ slab.num_b # 0
  /\ slab' = Whole(slab.sc)
  /\ UNCHANGED <<phase, sizeclasses, filled, pfilled, meta_size, asked>>

\* A slab found empty in step 2 becomes a fresh slab of the class, or is freed.
SlabEmptied ==
  /\ slab # NoSlab
  /\ slab.num_b = 0
  /\ slab' = NoSlab
  /\ UNCHANGED <<phase, sizeclasses, filled, pfilled, meta_size, asked>>

Next == \/ BootLookup \/ BootPages \/ BootGeometry
        \/ Request \/ Served
        \/ SlabCreate \/ Morph \/ OldFreed \/ SlabEmptied

Spec == Init /\ [][Next]_vars

----------------------------------------------------------------------------
\* The numbers of new blocks slab_morphing marks for the old block bid_b: from
\* the one its address falls into while it reaches into them.
Marked(sc_b, sc_a, bid_b) ==
  LET start == sc_b.roffset + bid_b * sc_b.bitsize - sc_a.roffset
  IN start \div sc_a.bitsize .. (start + sc_b.bitsize - 1) \div sc_a.bitsize

\* The byte of the metadata area that has the bit of a block.
bid_to_mid(bid) == Spread(512, NBANKS, bid)
MetaByte(bid) == bid_to_mid(bid) \div 8

MetaEnd(sc) == IF sc.toffset = 0 THEN sc.roffset ELSE sc.toffset

(* A request is served by the least class that has the bytes: for a small one
   (sizeclass.c:58, nvalloc.c:61) the least class of blocks, unless a page class
   takes its place, else the least class of pages (sizeclass.h:220).  Page
   counts past the last class are left out: they all get class 0. *)
LookupLeast ==
  /\ asked.kind = "small" =>
       /\ asked.size <= SIZE_CLASSES[asked.class]
       /\ \A c \in 1 .. asked.class - 1 :
            SIZE_CLASSES[c] < RoundUp(asked.size, CACHELINE_SIZE)
  /\ asked.kind = "large" =>
       /\ Pages(asked.size) <= PSIZE_CLASSES[asked.class]
       /\ \A c \in 0 .. asked.class - 1 : PSIZE_CLASSES[c] < Pages(asked.size)

(* In every layout a slab gets, the blocks end inside the slab, their bits fit
   the volatile bitmap, and the interleaved bit of every block lies in the
   metadata area, before the old-block table or the first block
   (sizeclass.c:79, 111; slab.h:122). *)
GeometryFits ==
  slab # NoSlab /\ asked = NoRequest =>
    LET sc == slab.sc
    IN /\ sc.roffset + sc.nbits * sc.bitsize <= SLAB_SIZE
       /\ sc.nbits <= 64 * sc.n_bitmaps
       /\ \A bid \in 0 .. sc.nbits - 1 : sc.moffset + MetaByte(bid) < MetaEnd(sc)

(* After a morph: the number of old blocks fits uint8_t and the table holds
   them, and for every block that may be an old one, each new block it reaches
   into, the one numbered nbits included, has its bit in the bitmap, its byte in
   the metadata area and its counter in the dmeta array (slab.c:240, 269, 311). *)
MorphFits ==
  (slab # NoSlab /\ slab.num_b # 0 /\ asked = NoRequest) =>
    LET a == slab.sc
        b == slab.sc_b
    IN /\ slab.num_b < 256
       /\ EntryBytes * slab.num_b <= a.roffset - a.toffset
       /\ \A old \in slab.first .. b.nbits - 1 :
            LET from == b.roffset + old * b.bitsize
            IN /\ from >= a.roffset
               /\ \A bid \in Marked(b, a, old) :
                    /\ bid <= a.nbits
                    /\ bid < 64 * a.n_bitmaps
                    /\ a.moffset + MetaByte(bid) < a.toffset

----------------------------------------------------------------------------
(* What holds at every step of the boot and after it. *)

\* Each entry of a lookup table is past its class's size, and the entry before
\* it unless no earlier class came as far.
Covers(table, sizes) ==
  \A c \in DOMAIN table :
    /\ table[c] \in Nat
    /\ sizes[c] < table[c]
    /\ table[c] = sizes[c] + 1 \/ (c - 1 \in DOMAIN table /\ table[c] = table[c - 1])
    /\ c - 1 \in DOMAIN table => table[c - 1] <= table[c]

\* The classes from the first on, in the phase that adds them; all of them later.
Grows(table, first, end, during, before) ==
  \E n \in first .. end :
    /\ DOMAIN table = first .. n - 1
    /\ phase \in before => n = first
    /\ phase = during => n < end
    /\ phase \notin before \cup {during} => n = end

TablesInv ==
  /\ phase \in {"small", "pages", "geometry", "ready"}
  /\ Grows(filled, 1, MAX_SZ_IDX, "small", {})
  /\ Grows(pfilled, 0, MAX_PSZ_IDX, "pages", {"small"})
  /\ Grows(sizeclasses, 1, MAX_SZ_IDX, "geometry", {"small", "pages"})
  /\ Covers(filled, SIZE_CLASSES)
  /\ Covers(pfilled, PSIZE_CLASSES)

\* A request has a class that exists.
AskedInv ==
  /\ phase # "ready" => asked = NoRequest /\ slab = NoSlab
  /\ asked.kind \in {"none", "small", "large"}
  /\ asked.kind = "none" => asked = NoRequest
  /\ asked.kind = "small" => asked.class \in SmallIdx
  /\ LookupLeast

\* What slab.c relies on of any layout of a class: it fits, and it has no more
\* blocks than the class has in a fresh slab.
Fits(sc, c) ==
  /\ sc.bitsize = SIZE_CLASSES[c]
  /\ {sc.nbits, sc.moffset, sc.toffset, sc.roffset, sc.n_bitmaps} \subseteq Nat
  /\ sc.nbits <= Fresh(SIZE_CLASSES[c]).nbits
  /\ sc.nbits <= 64 * sc.n_bitmaps
  /\ sc.roffset + sc.nbits * sc.bitsize <= SLAB_SIZE
  /\ sc.moffset + get_meta_size(sc.nbits) <= MetaEnd(sc)

LayoutInv ==
  /\ meta_size \in Nat
  /\ \A c \in DOMAIN sizeclasses :
       /\ sizeclasses[c] = Fresh(SIZE_CLASSES[c])
       /\ get_meta_size(sizeclasses[c].nbits + 1) <= meta_size
  /\ meta_size = 0 \/ \E c \in SmallIdx :
       meta_size = get_meta_size(Fresh(SIZE_CLASSES[c]).nbits + 1)
  /\ slab # NoSlab => slab.num_b \in Nat /\ \E c \in SmallIdx : Fits(slab.sc, c)

BootInv == TablesInv /\ AskedInv /\ LayoutInv
=============================================================================
