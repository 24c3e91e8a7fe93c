---------------------------- MODULE ArenaChoice ----------------------------
(***************************************************************************)
(* How threads are bound to arenas (src/src/nvalloc.c).  A thread that has *)
(* no arena yet scans the array for the least loaded one, or makes a new   *)
(* one, under arenas_lock; nvget_memory_usage reads the array without it.  *)
(***************************************************************************)
EXTENDS Naturals, FiniteSets

CONSTANTS
  Threads,
  narenas_auto,  \* length of the array of arenas
  NoThread,      \* nobody holds arenas_lock
  MaxFails,      \* bound: creations of an arena that fail
  MaxUsage       \* bound: calls of nvget_memory_usage

ASSUME ThreadsAssumption == IsFiniteSet(Threads) /\ NoThread \notin Threads

ASSUME SizesAssumption ==
  narenas_auto \in Nat \ {0} /\ MaxFails \in Nat /\ MaxUsage \in Nat

VARIABLES
  arenas,    \* the indices of the array that are not NULL
  nthreads,  \* the counter of each arena
  lock,      \* the holder of arenas_lock
  pc,        \* where each thread is in choose_arena
  loc,       \* the locals of choose_arena_hard: i, choose, first_null, ret,
             \* and the value n that ret->nthreads++ has read
  tls,       \* arenas_tls: the arena of a thread, or NULL
  fails,     \* creations that failed so far
  usage      \* nvget_memory_usage: its k, the arenas it added up, those that
             \* were there when it was called, and the calls so far

vars == <<arenas, nthreads, lock, pc, loc, tls, fails, usage>>

Index == 0 .. (narenas_auto - 1)
Null == narenas_auto
NoLocals == [i |-> 0, choose |-> 0, first_null |-> Null, ret |-> Null,
             n |-> 0]
Steps == {"start", "lock", "scan", "choose", "read", "count", "unlock",
          "bound", "gone"}

\* nvalloc_init has made the arena 0.
Init == /\ arenas = {0}
        /\ nthreads = [a \in Index |-> 0]
        /\ lock = NoThread
        /\ pc = [t \in Threads |-> "start"]
        /\ loc = [t \in Threads |-> NoLocals]
        /\ tls = [t \in Threads |-> Null]
        /\ fails = 0
        /\ usage = [k |-> Null, seen |-> {}, there |-> {}, calls |-> 0]

At(t, from, to) == pc[t] = from /\ pc' = [pc EXCEPT ![t] = to]

\* choose_arena, called by an operation of a thread without an arena.
Call(t) == /\ At(t, "start", "lock")
           /\ tls[t] = Null
           /\ UNCHANGED <<arenas, nthreads, lock, loc, tls, fails, usage>>

\* mutant: the lock is not waited for.
LockFree_always(t) == TRUE

LockFree(t) == lock = NoThread

\* With one arena the code skips the scan, which is empty then.
Lock(t) ==
  /\ At(t, "lock", "scan")
  /\ LockFree(t)
  /\ lock' = t
  /\ loc' = [loc EXCEPT ![t] = [NoLocals EXCEPT !.i = 1]]
  /\ UNCHANGED <<arenas, nthreads, tls, fails, usage>>

\* mutant: the comparison is turned round.
Better_more(l) == nthreads[l.i] > nthreads[l.choose]

Better(l) == nthreads[l.i] < nthreads[l.choose]
FirstNull(l) == IF l.first_null = Null THEN l.i ELSE l.first_null

\* One round of the loop over the array.
Scan(t) ==
  /\ pc[t] = "scan"
  /\ loc[t].i < narenas_auto
  /\ LET l == loc[t]
     IN loc' = [loc EXCEPT ![t] =
          [l EXCEPT !.i = @ + 1,
                    !.choose = IF l.i \in arenas /\ Better(l) THEN l.i ELSE @,
                    !.first_null = IF l.i \in arenas THEN @ ELSE FirstNull(l)]]
  /\ UNCHANGED <<arenas, nthreads, lock, pc, tls, fails, usage>>

Scanned(t) == /\ At(t, "scan", "choose")
              /\ loc[t].i >= narenas_auto
              /\ UNCHANGED <<arenas, nthreads, lock, loc, tls, fails, usage>>

\* mutant: an arena is shared before the array is full.
Reuse_early(l) == nthreads[l.choose] <= 1 \/ l.first_null = Null

Reuse(l) == nthreads[l.choose] = 0 \/ l.first_null = Null

Take(t, a) == loc' = [loc EXCEPT ![t].ret = a]

TakeLeast(t) == /\ At(t, "choose", "read")
                /\ Reuse(loc[t])
                /\ Take(t, loc[t].choose)
                /\ UNCHANGED <<arenas, nthreads, lock, tls, fails, usage>>

\* arenas_extend: a new arena enters the array when it is complete.
Extend(t) == /\ At(t, "choose", "read")
             /\ ~Reuse(loc[t])
             /\ arenas' = arenas \cup {loc[t].first_null}
             /\ Take(t, loc[t].first_null)
             /\ UNCHANGED <<nthreads, lock, tls, fails, usage>>

\* arenas_extend, the arena cannot be made: the arena 0 is shared.
ExtendFails(t) == /\ At(t, "choose", "read")
                  /\ ~Reuse(loc[t])
                  /\ fails < MaxFails
                  /\ fails' = fails + 1
                  /\ Take(t, 0)
                  /\ UNCHANGED <<arenas, nthreads, lock, tls, usage>>

\* ret->nthreads++, which is not atomic: the counter is read, then written.
Read(t) == /\ At(t, "read", "count")
           /\ loc' = [loc EXCEPT ![t].n = nthreads[loc[t].ret]]
           /\ UNCHANGED <<arenas, nthreads, lock, tls, fails, usage>>

Counted(t) == loc[t].n + 1

Count(t) == /\ At(t, "count", "unlock")
            /\ nthreads' = [nthreads EXCEPT ![loc[t].ret] = Counted(t)]
            /\ UNCHANGED <<arenas, lock, loc, tls, fails, usage>>

\* mutant: a path that returns with the lock held.
Released_not(t) == lock

Released(t) == NoThread

\* The lock is given back, then arenas_tsd_set, which no other thread sees.
Unlock(t) == /\ At(t, "unlock", "bound")
             /\ lock' = Released(t)
             /\ tls' = [tls EXCEPT ![t] = loc[t].ret]
             /\ UNCHANGED <<arenas, nthreads, loc, fails, usage>>

\* A thread ends.  arenas_cleanup, which would lower the count, is registered
\* nowhere: arena.h gives the thread-specific data no cleanup.
Exit(t) == /\ At(t, "bound", "gone")
           /\ tls' = [tls EXCEPT ![t] = Null]
           /\ UNCHANGED <<arenas, nthreads, lock, loc, fails, usage>>

----------------------------------------------------------------------------
(* nvget_memory_usage *)

UsageCall == /\ usage.k = Null
             /\ usage.calls < MaxUsage
             /\ usage' = [k |-> 0, seen |-> {}, there |-> arenas,
                          calls |-> usage.calls + 1]
             /\ UNCHANGED <<arenas, nthreads, lock, pc, loc, tls, fails>>

\* mutant: the last slot is not looked at.
More_notLast(k) == k \in arenas /\ k < narenas_auto - 1

\* The loop ends at the first NULL, or after the last slot.
More(k) == k \in arenas

\* The next arena is added up.
UsageNext == /\ usage.k # Null
             /\ usage' = IF More(usage.k)
                           THEN [usage EXCEPT !.seen = @ \cup {usage.k},
                                              !.k = @ + 1]
                           ELSE [usage EXCEPT !.k = Null]
             /\ UNCHANGED <<arenas, nthreads, lock, pc, loc, tls, fails>>

----------------------------------------------------------------------------
Choosing(t) == \/ Lock(t) \/ Scan(t) \/ Scanned(t) \/ TakeLeast(t)
               \/ Extend(t) \/ ExtendFails(t) \/ Read(t) \/ Count(t)
               \/ Unlock(t)

Next == \/ \E t \in Threads : Call(t) \/ Choosing(t) \/ Exit(t)
        \/ UsageCall \/ UsageNext

Spec == Init /\ [][Next]_vars

\* Nothing in choose_arena_hard waits but for arenas_lock, which every thread
\* takes once: the lock is contended a bounded number of times.
FairSpec == Spec /\ \A t \in Threads : WF_vars(Choosing(t))

----------------------------------------------------------------------------
(* What the choice must guarantee. *)

Choosers == {"scan", "choose", "read", "count", "unlock"}

Locals == [i : 0 .. narenas_auto, choose : Index,
           first_null : Index \cup {Null}, ret : Index \cup {Null}, n : Nat]

\* Types of the state.
TypeOK ==
  /\ arenas \subseteq Index
  /\ nthreads \in [Index -> Nat]
  /\ lock \in Threads \cup {NoThread}
  /\ pc \in [Threads -> Steps]
  /\ loc \in [Threads -> Locals]
  /\ tls \in [Threads -> Index \cup {Null}]
  /\ fails \in Nat
  /\ usage \in [k : Index \cup {Null}, seen : SUBSET Index,
                there : SUBSET Index, calls : Nat]

\* The threads the arena 0 was given when an arena could not be made.
Slack(a) == IF a = 0 THEN fails ELSE 0

(* The load is even: no arena has two threads more than another, but for the
   threads the arena 0 was given when an arena could not be made. *)
Balanced ==
  \A a, b \in arenas :
    nthreads[a] <= nthreads[b] + 1 + Slack(a)

(* Threads share an arena only when the array is full, or an arena could not
   be made. *)
SharedOnlyWhenFull ==
  arenas = Index
    \/ \A a \in arenas : nthreads[a] <= 1 + Slack(a)

(* No increment of a counter is lost: it is the number of threads that were
   given the arena (and have not ended, or have: see Exit). *)
CountsExact ==
  \A a \in Index :
    nthreads[a] = Cardinality({t \in Threads :
                     pc[t] \in {"unlock", "bound", "gone"} /\ loc[t].ret = a})

(* nvget_memory_usage stops at the first NULL (nvalloc.c:327): it misses no
   arena that was there when it was called. *)
UsageMissesNone == usage.k = Null => usage.there \subseteq usage.seen

(* A thread that asks for an arena gets one, whoever else is asking. *)
EverybodyBound ==
  \A t \in Threads : pc[t] = "lock" ~> pc[t] = "bound"

----------------------------------------------------------------------------
(* Why: an inductive invariant. *)

LockHeld == \A t \in Threads : pc[t] \in Choosers => lock = t

\* The array is filled from its start.
Prefix == /\ 0 \in arenas
          /\ \A a \in arenas : \A b \in Index : b < a => b \in arenas

Fresh == \A a \in Index \ arenas : nthreads[a] = 0

\* What the scan knows of the slots below i.
Knows(l) ==
  /\ l.choose \in arenas
  /\ \A a \in arenas : a < l.i => nthreads[l.choose] <= nthreads[a]
  /\ l.first_null = Null => \A a \in Index : a < l.i => a \in arenas
  /\ l.first_null # Null =>
       /\ l.first_null \notin arenas
       /\ \A a \in Index : a < l.first_null => a \in arenas

ScanKnows ==
  \A t \in Threads :
    /\ pc[t] \in {"scan", "choose"} => Knows(loc[t])
    /\ pc[t] = "choose" => loc[t].i = narenas_auto

\* The arena that is about to be counted can take one thread more.
HasRoom(r) == /\ r \in arenas
              /\ \A b \in arenas : nthreads[r] <= nthreads[b] + Slack(r)
              /\ arenas = Index \/ nthreads[r] <= Slack(r)

Room ==
  \A t \in Threads :
    /\ pc[t] \in {"read", "count"} => HasRoom(loc[t].ret)
    /\ pc[t] = "count" => loc[t].n = nthreads[loc[t].ret]

UsageKnows ==
  /\ usage.there \subseteq arenas
  /\ usage.k # Null => \A a \in Index : a < usage.k => a \in usage.seen

IndInv == /\ TypeOK
          /\ LockHeld
          /\ Prefix
          /\ Fresh
          /\ ScanKnows
          /\ Room
          /\ Balanced
          /\ SharedOnlyWhenFull
          /\ CountsExact
          /\ UsageKnows
          /\ UsageMissesNone
=============================================================================
