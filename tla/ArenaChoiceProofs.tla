------------------------- MODULE ArenaChoiceProofs -------------------------
(***************************************************************************)
(* The load of the arenas stays even, for any number of threads, arenas    *)
(* and failures.                                                           *)
(***************************************************************************)
EXTENDS ArenaChoice, FiniteSetTheorems, TLAPS

\* The threads that CountsExact counts for the arena a.
Given(a) == {t \in Threads :
               pc[t] \in {"unlock", "bound", "gone"} /\ loc[t].ret = a}

LEMMA GivenFinite == \A a : IsFiniteSet(Given(a))
<1>1. \A a : Given(a) \subseteq Threads
  BY DEF Given
<1>2. QED
  BY <1>1, ThreadsAssumption, FS_Subset

\* The invariant holds at the start.
LEMMA InitInv == Init => IndInv
<1> SUFFICES ASSUME Init PROVE IndInv
  OBVIOUS
<1> USE SizesAssumption
<1>1. TypeOK
  BY DEF Init, TypeOK, Index, Null, Steps, NoLocals, Locals
<1>2. \A t \in Threads : pc[t] = "start"
  BY DEF Init
<1>3. LockHeld /\ ScanKnows /\ Room
  BY <1>2 DEF LockHeld, ScanKnows, Room, Choosers
<1>4. Prefix /\ Fresh /\ Balanced /\ SharedOnlyWhenFull
  BY DEF Init, Prefix, Fresh, Balanced, SharedOnlyWhenFull, Slack, Index
<1>5. CountsExact
  <2>1. \A a : Given(a) = {}
    BY <1>2 DEF Given
  <2>2. \A a \in Index : nthreads[a] = 0
    BY DEF Init
  <2>3. QED
    BY <2>1, <2>2, FS_EmptySet DEF CountsExact, Given
<1>6. UsageKnows /\ UsageMissesNone
  BY DEF Init, UsageKnows, UsageMissesNone, Index, Null
<1>7. QED
  BY <1>1, <1>3, <1>4, <1>5, <1>6 DEF IndInv

\* CountsExact survives a step that neither counts nor gives an arena.
LEMMA CountsKept ==
  ASSUME CountsExact, UNCHANGED nthreads,
         \A t \in Threads : /\ pc[t] \in {"unlock", "bound", "gone"}
                                  <=> pc'[t] \in {"unlock", "bound", "gone"}
                            /\ pc[t] \in {"unlock", "bound", "gone"}
                                  => loc'[t].ret = loc[t].ret
  PROVE  CountsExact'
<1>1. \A a : Given(a)' = Given(a)
  BY DEF Given
<1>2. QED
  BY <1>1 DEF CountsExact, Given

\* The conjuncts that speak only of the array, the counters and the failures
\* survive a step that changes none of them.
LEMMA LoadKept ==
  ASSUME Prefix, Fresh, Balanced, SharedOnlyWhenFull,
         UNCHANGED <<arenas, nthreads, fails>>
  PROVE  /\ Prefix' /\ Fresh' /\ Balanced' /\ SharedOnlyWhenFull'
         /\ \A r : HasRoom(r)' <=> HasRoom(r)
         /\ \A l : Knows(l)' <=> Knows(l)
BY DEF Prefix, Fresh, Balanced, SharedOnlyWhenFull, Slack, HasRoom, Knows

\* The usage report does not see the locals of the threads.
LEMMA UsageKept ==
  ASSUME UsageKnows, UsageMissesNone, UNCHANGED usage, arenas \subseteq arenas'
  PROVE  UsageKnows' /\ UsageMissesNone'
BY DEF UsageKnows, UsageMissesNone

\* The thread asks.
LEMMA CallInv == ASSUME IndInv, NEW t \in Threads, Call(t) PROVE IndInv'
<1> USE DEF IndInv, Call, At
<1>1. TypeOK'
  BY DEF TypeOK, Steps
<1>2. LockHeld'
  BY DEF LockHeld, Choosers, TypeOK
<1>3. ScanKnows' /\ Room'
  BY LoadKept DEF ScanKnows, Room, TypeOK
<1>4. CountsExact'
  BY CountsKept DEF TypeOK
<1>5. UsageKnows' /\ UsageMissesNone'
  BY UsageKept
<1>6. QED
  BY <1>1, <1>2, <1>3, <1>4, <1>5, LoadKept

\* The thread takes the lock and starts its scan.
LEMMA LockInv == ASSUME IndInv, NEW t \in Threads, Lock(t) PROVE IndInv'
<1> USE DEF IndInv, Lock, At
<1> USE SizesAssumption
<1>1. TypeOK'
  <2>1. [NoLocals EXCEPT !.i = 1] \in Locals
    BY DEF NoLocals, Index, Null, Locals
  <2>2. QED
    BY <2>1 DEF TypeOK, Steps
<1>2. LockHeld'
  BY ThreadsAssumption DEF LockHeld, LockFree, Choosers, TypeOK
<1>3. ScanKnows'
  <2>1. loc'[t].i = 1 /\ loc'[t].choose = 0 /\ loc'[t].first_null = Null
    BY DEF NoLocals, TypeOK
  <2>2. \A a \in Index : a < 1 => a = 0
    BY DEF Index
  <2>3. Knows(loc'[t])
    BY <2>1, <2>2 DEF Knows, Prefix, TypeOK, Null, Index
  <2>4. QED
    BY <2>3, LoadKept DEF ScanKnows, TypeOK
<1>4. Room'
  BY LoadKept DEF Room, TypeOK
<1>5. CountsExact'
  BY CountsKept DEF TypeOK
<1>6. QED
  BY <1>1, <1>2, <1>3, <1>4, <1>5, LoadKept, UsageKept

\* The record of the locals after one round of the scan.
LEMMA ScannedType ==
  ASSUME NEW l \in Locals, NEW i \in 0 .. narenas_auto, NEW c \in Index,
         NEW f \in Index \cup {Null}
  PROVE  [l EXCEPT !.i = i, !.choose = c, !.first_null = f] \in Locals
BY DEF Locals

\* One round of the scan: what is known now includes the slot i.
LEMMA ScanInv == ASSUME IndInv, NEW t \in Threads, Scan(t) PROVE IndInv'
<1> USE DEF IndInv, Scan
<1> USE SizesAssumption
<1> DEFINE l == loc[t]
<1> DEFINE k == loc'[t]
<1>1. /\ l \in Locals
      /\ l.i \in Index
      /\ nthreads \in [Index -> Nat] /\ arenas \subseteq Index
  BY DEF TypeOK, Index, Locals
<1>2. /\ k.i = l.i + 1
      /\ k.choose = IF l.i \in arenas /\ Better(l) THEN l.i ELSE l.choose
      /\ k.first_null = IF l.i \in arenas THEN l.first_null ELSE FirstNull(l)
      /\ k.ret = l.ret
  BY <1>1 DEF TypeOK, Locals
<1>3. TypeOK'
  <2>1. k \in Locals
    <3>1. k = [l EXCEPT !.i = l.i + 1,
               !.choose = IF l.i \in arenas /\ Better(l) THEN l.i
                                                         ELSE l.choose,
               !.first_null = IF l.i \in arenas THEN l.first_null
                                                ELSE FirstNull(l)]
      BY DEF TypeOK
    <3>2. FirstNull(l) \in Index \cup {Null}
      BY <1>1 DEF FirstNull, Locals
    <3>3. l.i + 1 \in 0 .. narenas_auto
      BY <1>1 DEF Index
    <3>4. /\ l.choose \in Index
          /\ l.first_null \in Index \cup {Null}
      BY <1>1 DEF Locals
    <3> HIDE DEF l, k
    <3>5. QED
      BY <1>1, <3>1, <3>2, <3>3, <3>4, ScannedType
  <2>2. loc' \in [Threads -> Locals]
    BY <2>1 DEF TypeOK
  <2>3. QED
    BY <2>2 DEF TypeOK
<1>4. ScanKnows'
  <2> HIDE DEF k, l
  <2>1. Knows(l)
    BY DEF ScanKnows, l
  <2>2. \A a \in Index : a < l.i + 1 => a < l.i \/ a = l.i
    BY <1>1 DEF Index
  <2>3. k.choose \in arenas
    BY <1>2, <2>1 DEF Knows
  <2>4. \A a \in arenas : a < k.i => nthreads[k.choose] <= nthreads[a]
    BY <1>1, <1>2, <2>1, <2>2 DEF Knows, Better
  <2>5. k.first_null = Null => \A a \in Index : a < k.i => a \in arenas
    BY <1>1, <1>2, <2>1, <2>2 DEF Knows, FirstNull, Index, Null
  <2>6. k.first_null # Null =>
           /\ k.first_null \notin arenas
           /\ \A a \in Index : a < k.first_null => a \in arenas
    BY <1>1, <1>2, <2>1 DEF Knows, FirstNull
  <2>7. Knows(k)
    BY <2>3, <2>4, <2>5, <2>6 DEF Knows
  <2>8. QED
    BY <2>7, LoadKept DEF ScanKnows, TypeOK, k
<1>5. LockHeld' /\ Room'
  BY LoadKept DEF LockHeld, Room, TypeOK
<1>6. CountsExact'
  BY CountsKept DEF TypeOK
<1>7. QED
  BY <1>3, <1>4, <1>5, <1>6, LoadKept, UsageKept

\* The scan is over.
LEMMA ScannedInv == ASSUME IndInv, NEW t \in Threads, Scanned(t) PROVE IndInv'
<1> USE DEF IndInv, Scanned, At
<1> USE SizesAssumption
<1>1. TypeOK'
  BY DEF TypeOK, Steps
<1>2. LockHeld'
  BY DEF LockHeld, Choosers, TypeOK
<1>3. ScanKnows'
  <2>1. loc[t].i = narenas_auto
    <3>1. loc[t].i \in 0 .. narenas_auto /\ loc[t].i >= narenas_auto
      BY DEF TypeOK, Locals
    <3>2. QED
      BY <3>1
  <2>2. QED
    BY <2>1, LoadKept DEF ScanKnows, TypeOK
<1>4. Room'
  BY LoadKept DEF Room, TypeOK
<1>5. CountsExact'
  BY CountsKept DEF TypeOK
<1>6. QED
  BY <1>1, <1>2, <1>3, <1>4, <1>5, LoadKept, UsageKept

\* Only the thread that holds the lock is past the lock.
LEMMA Alone ==
  ASSUME LockHeld, NEW t \in Threads, pc[t] \in Choosers,
         NEW u \in Threads, u # t
  PROVE  pc[u] \notin Choosers
BY DEF LockHeld

\* When nothing is NULL below the end, the array is full.
LEMMA FullArray ==
  ASSUME IndInv, NEW t \in Threads, pc[t] = "choose"
  PROVE  /\ loc[t].choose \in arenas
         /\ \A a \in arenas : nthreads[loc[t].choose] <= nthreads[a]
         /\ loc[t].first_null = Null => arenas = Index
         /\ loc[t].first_null # Null =>
               /\ loc[t].first_null \in Index \ arenas
               /\ \A a \in Index : a < loc[t].first_null => a \in arenas
<1>1. Knows(loc[t]) /\ loc[t].i = narenas_auto
  BY DEF IndInv, ScanKnows
<1>2. \A a \in Index : a < narenas_auto
  BY SizesAssumption DEF Index
<1>3. QED
  BY <1>1, <1>2 DEF Knows, IndInv, TypeOK, Locals

\* The arena ret is taken: what the three ways to take one have in common.
LEMMA TakenInv ==
  ASSUME IndInv, NEW t \in Threads, NEW a \in Index,
         At(t, "choose", "read"), Take(t, a),
         UNCHANGED <<nthreads, lock, tls, usage>>,
         fails' \in Nat,
         arenas \subseteq arenas', arenas' \subseteq Index,
         HasRoom(a)',
         Prefix', Fresh', Balanced', SharedOnlyWhenFull'
  PROVE  IndInv'
<1> USE DEF IndInv, At, Take
<1>1. /\ pc' = [u \in Threads |-> IF u = t THEN "read" ELSE pc[u]]
      /\ \A u \in Threads \ {t} : loc'[u] = loc[u]
      /\ loc'[t].ret = a
  BY DEF TypeOK, Locals
<1>2. TypeOK'
  <2>1. loc' \in [Threads -> Locals]
    <3>1. [loc[t] EXCEPT !.ret = a] \in Locals
      BY DEF TypeOK, Locals
    <3>2. loc' = [loc EXCEPT ![t] = [loc[t] EXCEPT !.ret = a]]
      OBVIOUS
    <3>3. QED
      BY <3>1, <3>2 DEF TypeOK
  <2>2. QED
    BY <2>1 DEF TypeOK, Steps
<1>3. LockHeld'
  BY <1>1 DEF LockHeld, Choosers
<1>4. \A u \in Threads \ {t} : pc'[u] \notin Choosers
  BY <1>1, Alone DEF Choosers
<1>5. ScanKnows'
  BY <1>1, <1>4 DEF ScanKnows, Choosers
<1>6. Room'
  BY <1>1, <1>4 DEF Room, Choosers
<1>7. CountsExact'
  BY <1>1, CountsKept
<1>8. QED
  BY <1>2, <1>3, <1>5, <1>6, <1>7, UsageKept

\* The least loaded arena is idle, or the array is full.
LEMMA TakeLeastInv ==
  ASSUME IndInv, NEW t \in Threads, TakeLeast(t) PROVE IndInv'
<1> USE DEF IndInv, TakeLeast
<1> PICK a \in arenas : a = loc[t].choose
  BY FullArray DEF At
<1>1. /\ a \in arenas /\ \A b \in arenas : nthreads[a] <= nthreads[b]
      /\ loc[t].first_null = Null => arenas = Index
  BY FullArray DEF At
<1>2. a \in Index /\ nthreads \in [Index -> Nat] /\ fails \in Nat
      /\ arenas \subseteq Index
  BY <1>1 DEF TypeOK
<1>3. \A b : Slack(b) \in Nat
  BY <1>2 DEF Slack
<1>4. \A b \in arenas : nthreads[a] <= nthreads[b] + Slack(a)
  BY <1>1, <1>2, <1>3
<1>5. arenas = Index \/ nthreads[a] <= Slack(a)
  BY <1>1, <1>2, <1>3 DEF Reuse
<1>6. HasRoom(a)
  BY <1>1, <1>4, <1>5 DEF HasRoom
<1>7. QED
  BY <1>2, <1>6, LoadKept, TakenInv

\* A new arena enters the array without threads; the others have one at most.
LEMMA ExtendInv == ASSUME IndInv, NEW t \in Threads, Extend(t) PROVE IndInv'
<1> USE DEF IndInv, Extend
<1> PICK a \in Index : a = loc[t].first_null
  BY FullArray DEF At, Reuse
<1>1. a \in Index \ arenas /\ \A b \in Index : b < a => b \in arenas
  BY FullArray DEF At, Reuse
<1>2. nthreads \in [Index -> Nat] /\ fails \in Nat /\ arenas \subseteq Index
  BY DEF TypeOK
<1>3. nthreads[a] = 0
  BY <1>1 DEF Fresh
<1>4. \A b : Slack(b) \in Nat /\ Slack(b)' = Slack(b)
  BY <1>2 DEF Slack
<1>5. arenas # Index
  BY <1>1
<1>6. \A b \in arenas : nthreads[b] <= 1 + Slack(b)
  BY <1>5 DEF SharedOnlyWhenFull
<1>7. arenas' = arenas \cup {a}
  OBVIOUS
<1>8. HasRoom(a)'
  BY <1>1, <1>2, <1>3, <1>4, <1>7 DEF HasRoom
<1>9. Prefix'
  BY <1>1, <1>7 DEF Prefix
<1>10. Fresh'
  BY <1>7 DEF Fresh
<1>11. SharedOnlyWhenFull'
  BY <1>2, <1>3, <1>4, <1>6, <1>7 DEF SharedOnlyWhenFull
<1>12. Balanced'
  <2> SUFFICES ASSUME NEW b \in arenas', NEW c \in arenas'
               PROVE  nthreads[b] <= nthreads[c] + 1 + Slack(b)
    BY <1>4 DEF Balanced
  <2>1. nthreads[b] \in Nat /\ nthreads[c] \in Nat /\ Slack(b) \in Nat
    BY <1>1, <1>2, <1>4, <1>7
  <2>2. nthreads[b] <= 1 + Slack(b)
    BY <1>3, <1>6, <1>7, <2>1
  <2>3. QED
    BY <2>1, <2>2
<1>13. QED
  BY <1>1, <1>2, <1>7, <1>8, <1>9, <1>10, <1>11, <1>12, TakenInv

\* The arena 0 gets a thread too many, which the failure accounts for.
LEMMA ExtendFailsInv ==
  ASSUME IndInv, NEW t \in Threads, ExtendFails(t) PROVE IndInv'
<1> USE DEF IndInv, ExtendFails
<1>1. nthreads \in [Index -> Nat] /\ fails \in Nat /\ arenas \subseteq Index
      /\ 0 \in arenas /\ 0 \in Index
  BY DEF TypeOK, Prefix
<1>2. arenas # Index
  BY FullArray DEF At, Reuse
<1>3. \A b \in arenas : nthreads[b] <= 1 + Slack(b)
  BY <1>2 DEF SharedOnlyWhenFull
<1>4. /\ \A b : Slack(b) \in Nat /\ Slack(b)' \in Nat /\ Slack(b) <= Slack(b)'
      /\ Slack(0)' = Slack(0) + 1
  BY <1>1 DEF Slack
<1>5. \A b \in arenas : nthreads[0] <= nthreads[b] + Slack(0)'
  BY <1>1, <1>4 DEF Balanced
<1>6. HasRoom(0)'
  BY <1>1, <1>3, <1>4, <1>5 DEF HasRoom
<1>7. Prefix' /\ Fresh'
  BY DEF Prefix, Fresh
<1>8. Balanced'
  BY <1>1, <1>4 DEF Balanced
<1>9. SharedOnlyWhenFull'
  BY <1>1, <1>3, <1>4 DEF SharedOnlyWhenFull
<1>10. QED
  BY <1>1, <1>6, <1>7, <1>8, <1>9, TakenInv

\* The counter is read.
LEMMA ReadInv == ASSUME IndInv, NEW t \in Threads, Read(t) PROVE IndInv'
<1> USE DEF IndInv, Read, At
<1> PICK r \in arenas : r = loc[t].ret
  BY DEF Room, HasRoom
<1>1. nthreads[r] \in Nat
  BY DEF TypeOK
<1>2. /\ pc' = [u \in Threads |-> IF u = t THEN "count" ELSE pc[u]]
      /\ \A u \in Threads \ {t} : loc'[u] = loc[u]
      /\ loc'[t].ret = r /\ loc'[t].n = nthreads[r]
  BY DEF TypeOK, Locals
<1>3. TypeOK'
  <2>1. [loc[t] EXCEPT !.n = nthreads[r]] \in Locals
    BY <1>1 DEF TypeOK, Locals
  <2>2. loc' = [loc EXCEPT ![t] = [loc[t] EXCEPT !.n = nthreads[r]]]
    OBVIOUS
  <2>3. loc' \in [Threads -> Locals]
    BY <2>1, <2>2 DEF TypeOK
  <2>4. QED
    BY <2>3 DEF TypeOK, Steps
<1>4. LockHeld'
  BY <1>2 DEF LockHeld, Choosers
<1>5. \A u \in Threads \ {t} : pc'[u] \notin Choosers
  BY <1>2, Alone DEF Choosers
<1>6. ScanKnows'
  BY <1>2, <1>5 DEF ScanKnows, Choosers
<1>7. Room'
  <2>1. HasRoom(r)
    BY DEF Room
  <2>2. QED
    BY <1>2, <1>5, <2>1, LoadKept DEF Room, Choosers
<1>8. CountsExact'
  BY <1>2, CountsKept
<1>9. QED
  BY <1>3, <1>4, <1>6, <1>7, <1>8, LoadKept, UsageKept

\* The arena that has room gets its thread.
LEMMA CountInv == ASSUME IndInv, NEW t \in Threads, Count(t) PROVE IndInv'
<1> USE DEF IndInv, Count, At
<1> PICK r \in arenas : r = loc[t].ret /\ loc[t].n = nthreads[r]
  BY DEF Room, HasRoom
<1>1. HasRoom(r)
  BY DEF Room
<1>2. /\ nthreads \in [Index -> Nat] /\ fails \in Nat /\ arenas \subseteq Index
      /\ r \in Index
  BY DEF TypeOK
<1>3. \A b : Slack(b) \in Nat /\ Slack(b)' = Slack(b)
  BY <1>2 DEF Slack
<1>4. nthreads' = [nthreads EXCEPT ![r] = nthreads[r] + 1]
  BY DEF Counted
<1>5. /\ pc' = [u \in Threads |-> IF u = t THEN "unlock" ELSE pc[u]]
      /\ \A u \in Threads \ {t} : pc'[u] \notin Choosers
  BY Alone DEF TypeOK, Choosers
<1>6. TypeOK'
  BY <1>2, <1>4 DEF TypeOK, Steps
<1>7. LockHeld' /\ ScanKnows' /\ Room'
  BY <1>5 DEF LockHeld, ScanKnows, Room, Choosers
<1>8. Prefix' /\ Fresh'
  BY <1>2, <1>4 DEF Prefix, Fresh
<1>9. Balanced'
  <2> SUFFICES ASSUME NEW b \in arenas, NEW c \in arenas
               PROVE  nthreads'[b] <= nthreads'[c] + 1 + Slack(b)
    BY <1>3 DEF Balanced
  <2>1. /\ nthreads[b] \in Nat /\ nthreads[c] \in Nat /\ Slack(b) \in Nat
        /\ nthreads[b] <= nthreads[c] + 1 + Slack(b)
    BY <1>2, <1>3 DEF Balanced
  <2>2. CASE b = r
    BY <1>1, <1>2, <1>4, <2>1, <2>2 DEF HasRoom
  <2>3. CASE b # r
    BY <1>2, <1>4, <2>1, <2>3
  <2>4. QED
    BY <2>2, <2>3
<1>10. SharedOnlyWhenFull'
  BY <1>1, <1>2, <1>3, <1>4 DEF SharedOnlyWhenFull, HasRoom
<1>11. CountsExact'
  <2>1. Given(r)' = Given(r) \cup {t} /\ t \notin Given(r)
    BY <1>5 DEF Given
  <2>2. \A a \in Index \ {r} : Given(a)' = Given(a)
    BY <1>5 DEF Given
  <2>3. Cardinality(Given(r)') = Cardinality(Given(r)) + 1
    BY <2>1, GivenFinite, FS_AddElement
  <2>4. \A a \in Index : nthreads[a] = Cardinality(Given(a))
    BY DEF CountsExact, Given
  <2>5. \A a \in Index : nthreads'[a] = Cardinality(Given(a)')
    BY <1>2, <1>4, <2>2, <2>3, <2>4
  <2>6. QED
    BY <2>5 DEF CountsExact, Given
<1>12. QED
  BY <1>6, <1>7, <1>8, <1>9, <1>10, <1>11, UsageKept

\* The thread leaves choose_arena_hard.
LEMMA UnlockInv == ASSUME IndInv, NEW t \in Threads, Unlock(t) PROVE IndInv'
<1> USE DEF IndInv, Unlock, At, Released
<1>1. TypeOK'
  <2>1. loc[t] \in Locals
    BY DEF TypeOK
  <2>2. loc[t].ret \in Index \cup {Null}
    BY <2>1 DEF Locals
  <2>3. QED
    BY <2>2 DEF TypeOK, Steps
<1>2. \A u \in Threads : pc'[u] \notin Choosers
  BY Alone DEF TypeOK, Choosers
<1>3. LockHeld' /\ ScanKnows' /\ Room'
  BY <1>2 DEF LockHeld, ScanKnows, Room, Choosers
<1>4. CountsExact'
  BY CountsKept DEF TypeOK
<1>5. QED
  BY <1>1, <1>3, <1>4, LoadKept, UsageKept

\* A thread ends.
LEMMA ExitInv == ASSUME IndInv, NEW t \in Threads, Exit(t) PROVE IndInv'
<1> USE DEF IndInv, Exit, At
<1>1. TypeOK'
  BY DEF TypeOK, Steps, Null
<1>2. LockHeld'
  BY DEF LockHeld, Choosers, TypeOK
<1>3. ScanKnows' /\ Room'
  BY LoadKept DEF ScanKnows, Room, TypeOK
<1>4. CountsExact'
  BY CountsKept DEF TypeOK
<1>5. QED
  BY <1>1, <1>2, <1>3, <1>4, LoadKept, UsageKept

\* The threads see nothing of a usage report.
LEMMA ReportKept ==
  ASSUME IndInv, UNCHANGED <<arenas, nthreads, lock, pc, loc, tls, fails>>,
         usage' \in [k : Index \cup {Null}, seen : SUBSET Index,
                     there : SUBSET Index, calls : Nat],
         UsageKnows', UsageMissesNone'
  PROVE  IndInv'
<1> USE DEF IndInv
<1>1. TypeOK' /\ LockHeld'
  BY DEF TypeOK, LockHeld
<1>2. ScanKnows' /\ Room'
  BY LoadKept DEF ScanKnows, Room
<1>3. CountsExact'
  BY CountsKept
<1>4. QED
  BY <1>1, <1>2, <1>3, LoadKept

\* A report starts.
LEMMA UsageCallInv == ASSUME IndInv, UsageCall PROVE IndInv'
<1> USE DEF UsageCall
<1>1. /\ arenas \subseteq Index /\ usage.calls \in Nat
      /\ 0 \in Index \cup {Null} /\ 0 # Null
  BY SizesAssumption DEF IndInv, TypeOK, Index, Null
<1>2. usage' \in [k : Index \cup {Null}, seen : SUBSET Index,
                  there : SUBSET Index, calls : Nat]
  BY <1>1
<1>3. UsageKnows' /\ UsageMissesNone'
  BY <1>1 DEF UsageKnows, UsageMissesNone, Index
<1>4. QED
  BY <1>2, <1>3, ReportKept

\* A report goes on, or ends behind the last arena.
LEMMA UsageNextInv == ASSUME IndInv, UsageNext PROVE IndInv'
<1> USE DEF UsageNext, More
<1> PICK k \in Index : k = usage.k
  BY DEF IndInv, TypeOK
<1>1. /\ usage = [k |-> k, seen |-> usage.seen, there |-> usage.there,
                  calls |-> usage.calls]
      /\ usage.seen \subseteq Index /\ usage.calls \in Nat
      /\ usage.there \subseteq arenas /\ arenas \subseteq Index
      /\ \A a \in Index : a < k => a \in usage.seen
  BY DEF IndInv, TypeOK, UsageKnows
<1>2. CASE k \in arenas
  <2>1. usage' = [k |-> k + 1, seen |-> usage.seen \cup {k},
                  there |-> usage.there, calls |-> usage.calls]
    BY <1>1, <1>2
  <2>2. /\ k + 1 \in Index \cup {Null}
        /\ \A a \in Index : a < k + 1 => a < k \/ a = k
        /\ k + 1 = Null => \A a \in Index : a < k + 1
    BY SizesAssumption DEF Index, Null
  <2>3. \A a \in Index : a < k + 1 => a \in usage'.seen
    BY <1>1, <2>1, <2>2
  <2>4. UsageKnows' /\ UsageMissesNone'
    BY <1>1, <2>1, <2>2, <2>3 DEF UsageKnows, UsageMissesNone
  <2>5. usage' \in [k : Index \cup {Null}, seen : SUBSET Index,
                    there : SUBSET Index, calls : Nat]
    BY <1>1, <2>1, <2>2
  <2>6. QED
    BY <2>4, <2>5, ReportKept
<1>3. CASE k \notin arenas
  <2>1. usage' = [k |-> Null, seen |-> usage.seen, there |-> usage.there,
                  calls |-> usage.calls]
    BY <1>1, <1>3
  <2>2. \A a \in arenas : a < k
    <3>1. \A a \in arenas : ~(k < a) /\ a # k
      BY <1>3 DEF IndInv, Prefix
    <3>2. QED
      BY <1>1, <3>1 DEF Index
  <2>3. usage'.there \subseteq usage'.seen
    <3>1. \A a \in usage.there : a \in Index /\ a < k
      BY <1>1, <2>2
    <3>2. usage'.there = usage.there /\ usage'.seen = usage.seen
      BY ONLY <2>1
    <3>3. QED
      BY <1>1, <3>1, <3>2
  <2>6. UsageKnows' /\ UsageMissesNone'
    <3>1. usage'.k = Null /\ usage'.there = usage.there
      BY ONLY <2>1
    <3>2. QED
      BY <1>1, <2>3, <3>1 DEF UsageKnows, UsageMissesNone, Null
  <2>4. usage' \in [k : Index \cup {Null}, seen : SUBSET Index,
                    there : SUBSET Index, calls : Nat]
    BY <1>1, <2>1
  <2>5. QED
    BY <2>4, <2>6, ReportKept
<1>4. QED
  BY <1>2, <1>3

\* The invariant is inductive: in every state of every behaviour, for every
\* number of threads, of slots and of failures.
THEOREM Inductive == Spec => []IndInv
<1>1. Init => IndInv
  BY InitInv
<1>2. IndInv /\ [Next]_vars => IndInv'
  <2> SUFFICES ASSUME IndInv, [Next]_vars PROVE IndInv'
    OBVIOUS
  <2>1. ASSUME NEW t \in Threads, Call(t) PROVE IndInv'
    BY <2>1, CallInv
  <2>2. ASSUME NEW t \in Threads, Choosing(t) PROVE IndInv'
    BY <2>2, LockInv, ScanInv, ScannedInv, TakeLeastInv, ExtendInv,
       ExtendFailsInv, ReadInv, CountInv, UnlockInv DEF Choosing
  <2>3. ASSUME NEW t \in Threads, Exit(t) PROVE IndInv'
    BY <2>3, ExitInv
  <2>4. CASE UsageCall
    BY <2>4, UsageCallInv
  <2>5. CASE UsageNext
    BY <2>5, UsageNextInv
  <2>6. CASE UNCHANGED vars
    <3>1. UNCHANGED <<arenas, nthreads, lock, pc, loc, tls, fails>>
          /\ UNCHANGED usage
      BY <2>6 DEF vars
    <3>2. UsageKnows' /\ UsageMissesNone'
      BY <3>1, UsageKept DEF IndInv
    <3>3. QED
      BY <3>1, <3>2, ReportKept DEF IndInv, TypeOK
  <2>7. QED
    BY <2>1, <2>2, <2>3, <2>4, <2>5, <2>6 DEF Next
<1>3. QED
  BY <1>1, <1>2, PTL DEF Spec

\* The load of the arenas is even (nvalloc.c:228-252).
THEOREM LoadBalanced == Spec => []Balanced
BY Inductive, PTL DEF IndInv

\* No arena is shared while a slot of the array is free (nvalloc.c:244).
THEOREM NoEarlySharing == Spec => []SharedOnlyWhenFull
BY Inductive, PTL DEF IndInv

\* No increment of a counter is lost (nvalloc.c:252).
THEOREM NoCountLost == Spec => []CountsExact
BY Inductive, PTL DEF IndInv

\* A usage report leaves no arena out (nvalloc.c:326).
THEOREM UsageComplete == Spec => []UsageMissesNone
BY Inductive, PTL DEF IndInv
=============================================================================
