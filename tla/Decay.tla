-------------------------------- MODULE Decay --------------------------------
(***************************************************************************)
(* Decay: how unused extents move from the dirty to the muzzy pool of an   *)
(* arena as time passes.  Every allocation and free of an extent is a tick *)
(* of the thread's ticker; when it fires the thread looks at the clock     *)
(* and, past the deadline, moves the epoch, computes how many pages the    *)
(* pool may keep, and purges the rest with the decay's mutex given up.     *)
(*                                                                         *)
(* An extent is its number of pages; merging, splitting and the pools'     *)
(* lists are Extents'.  The clock is kept relative to the epoch of each    *)
(* decay, and from NSTEPS intervals on only modulo the interval, so it has *)
(* no bound: a later time empties the backlog all the same.                *)
(***************************************************************************)
EXTENDS Naturals, Sequences, FiniteSets, Functions, SequencesExt

CONSTANTS
  Thread, None,
  Pools,          \* the pools that decay, in the order arena_decay looks
  NSTEPS,         \* epochs after which a page counts no more
  h_steps,        \* weight of a page by the age of its epoch, oldest first
  ONE,            \* the weight that is one
  INTERVAL,       \* clock units of an epoch of each pool
  NTICKS,         \* nticks of the tickers
  PageCounts,     \* pages of the extents freed
  MaxFrees        \* the program frees so often

ASSUME DecayAssumption ==
  /\ None \notin Thread
  /\ Pools \in {<<"dirty">>, <<"dirty", "muzzy">>}
  /\ {NSTEPS, ONE} \subseteq Nat \ {0}
  /\ INTERVAL \in [{"dirty", "muzzy"} -> Nat \ {0}]
  /\ {NTICKS, MaxFrees} \subseteq Nat
  /\ PageCounts \subseteq Nat \ {0}
  /\ h_steps \in [1 .. NSTEPS -> 0 .. ONE]
  /\ \A i, j \in 1 .. NSTEPS : i <= j => h_steps[i] <= h_steps[j]

VARIABLES
  pool,       \* the extents of each pool, least recently used first
  decay,      \* decay_dirty and decay_muzzy
  ticker,     \* arena_tickers of each thread, for the arena
  th,         \* where each thread is in arena_decay
  frees       \* frees made

vars == <<pool, decay, ticker, th, frees>>

Kinds == {"dirty", "muzzy"}
Idle == [pc |-> "idle", nth |-> 1, limit |-> 0, max |-> 0, stash |-> <<>>,
         nstashed |-> 0]

Total(s) ==
  LET upto[i \in 0 .. Len(s)] == IF i = 0 THEN 0 ELSE upto[i - 1] + s[i]
  IN upto[Len(s)]
npages(p) == Total(pool[p])
Pool(t) == Pools[th[t].nth]

----------------------------------------------------------------------------
\* arena_decay_deadline_init: an interval and a random part of one more after
\* the epoch.
Deadlines(p) == {INTERVAL[p] + jitter : jitter \in 0 .. INTERVAL[p] - 1}

Init ==
  /\ pool = [p \in Kinds |-> <<>>]
  /\ \E d \in [Range(Pools) -> UNION {Deadlines(p) : p \in Range(Pools)}] :
       /\ \A p \in Range(Pools) : d[p] \in Deadlines(p)
       /\ decay = [p \in Range(Pools) |->
                    [mtx |-> None, purging |-> FALSE, elapsed |-> 0,
                     deadline |-> d[p], nunpurged |-> 0,
                     backlog |-> [i \in 1 .. NSTEPS |-> 0]]]
  /\ ticker = [t \in Thread |-> NTICKS]
  /\ th = [t \in Thread |-> Idle]
  /\ frees = 0

\* Time since the epoch, a clock unit later.
Later(p) == LET next == decay[p].elapsed + 1
            IN IF next < (NSTEPS + 1) * INTERVAL[p]
               THEN next ELSE NSTEPS * INTERVAL[p]

Clock ==
  /\ decay' = [p \in Range(Pools) |->
                 [decay[p] EXCEPT !.elapsed = Later(p)]]
  /\ UNCHANGED <<pool, ticker, th, frees>>

\* ticker_ticks: at the event after the last counted one the thread goes into
\* arena_decay.
Tick(t) ==
  \/ /\ ticker[t] > 0
     /\ ticker' = [ticker EXCEPT ![t] = @ - 1]
     /\ th' = th
  \/ /\ ticker[t] = 0
     /\ ticker' = [ticker EXCEPT ![t] = NTICKS]
     /\ th' = [th EXCEPT ![t] = [Idle EXCEPT !.pc = "trylock"]]

\* An extent is freed to the dirty pool.
Dalloc(t) ==
  /\ th[t].pc = "idle"
  /\ frees < MaxFrees
  /\ \E n \in PageCounts : pool' = [pool EXCEPT !["dirty"] = Append(@, n)]
  /\ frees' = frees + 1
  /\ Tick(t)
  /\ UNCHANGED decay

\* An extent of a pool is allocated again.
Recycle(t) ==
  /\ th[t].pc = "idle"
  /\ \E p \in Kinds : \E i \in 1 .. Len(pool[p]) :
       pool' = [pool EXCEPT ![p] = RemoveAt(@, i)]
  /\ Tick(t)
  /\ UNCHANGED <<decay, frees>>

\* An extent is allocated from new memory.
Fresh(t) ==
  /\ th[t].pc = "idle"
  /\ Tick(t)
  /\ UNCHANGED <<pool, decay, frees>>

----------------------------------------------------------------------------
(* arena_decay. *)

\* The next pool, or the end of the call.
NextPool(t) == IF th[t].nth < Len(Pools)
               THEN [Idle EXCEPT !.pc = "trylock", !.nth = th[t].nth + 1]
               ELSE Idle

\* pthread_mutex_trylock fails: the call ends, the muzzy pool is not looked at.
Busy(t) ==
  /\ th[t].pc = "trylock"
  /\ decay[Pool(t)].mtx # None
  /\ th' = [th EXCEPT ![t] = Idle]
  /\ UNCHANGED <<pool, decay, ticker, frees>>

TryLock(t) ==
  /\ th[t].pc = "trylock"
  /\ decay[Pool(t)].mtx = None
  /\ decay' = [decay EXCEPT ![Pool(t)].mtx = t]
  /\ th' = [th EXCEPT ![t].pc = "maybe"]
  /\ UNCHANGED <<pool, ticker, frees>>

DeadlineReached(d) == d.deadline <= d.elapsed

NotReached(t) ==
  /\ th[t].pc = "maybe"
  /\ ~DeadlineReached(decay[Pool(t)])
  /\ decay' = [decay EXCEPT ![Pool(t)].mtx = None]
  /\ th' = [th EXCEPT ![t] = NextPool(t)]
  /\ UNCHANGED <<pool, ticker, frees>>

\* mutant: all pages are counted, those of earlier epochs again.
Grown_all(d, current) == current

\* arena_decay_backlog_update_last: the pages the pool grew by.
Grown(d, current) == IF current > d.nunpurged THEN current - d.nunpurged ELSE 0

\* arena_decay_backlog_update: the epochs move up by nadvance; those that are
\* moved in count nothing, but for the last.
Backlog(d, nadvance, current) ==
  [i \in 1 .. NSTEPS |->
     IF i = NSTEPS THEN Grown(d, current)
     ELSE IF i + nadvance <= NSTEPS THEN d.backlog[i + nadvance] ELSE 0]

\* arena_decay_backlog_npages_limit.
Limit(backlog) ==
  Total([i \in 1 .. NSTEPS |-> backlog[i] * h_steps[i]]) \div ONE

\* arena_decay_epoch_advance, but for the purge: the decay of the pool, with the
\* deadline w.
Advanced(p, w) ==
  LET d == decay[p]
      current == npages(p)
      nadvance == d.elapsed \div INTERVAL[p]
      backlog == Backlog(d, nadvance, current)
      limit == Limit(backlog)
  IN [d EXCEPT !.elapsed = @ - nadvance * INTERVAL[p],
               !.deadline = w,
               !.backlog = backlog,
               !.nunpurged = IF limit > current THEN limit ELSE current]

\* mutant: nobody looks at the flag.
MayPurge_any(d) == TRUE

\* Another thread's purge, made without the mutex, is not joined.
MayPurge(d) == ~d.purging

\* The epoch moves, and there is nothing to purge or it is being done.
AdvanceOnly(t) ==
  /\ th[t].pc = "maybe"
  /\ DeadlineReached(decay[Pool(t)])
  /\ \E w \in Deadlines(Pool(t)) :
       LET current == npages(Pool(t))
           d == Advanced(Pool(t), w)
       IN /\ ~(current > Limit(d.backlog) /\ MayPurge(d))
          /\ decay' = [decay EXCEPT ![Pool(t)] = [d EXCEPT !.mtx = None]]
  /\ th' = [th EXCEPT ![t] = NextPool(t)]
  /\ UNCHANGED <<pool, ticker, frees>>

\* The epoch moves, and the thread sets out to purge, without the mutex.
AdvanceAndPurge(t) ==
  /\ th[t].pc = "maybe"
  /\ DeadlineReached(decay[Pool(t)])
  /\ \E w \in Deadlines(Pool(t)) :
       LET current == npages(Pool(t))
           d == Advanced(Pool(t), w)
           limit == Limit(d.backlog)
       IN /\ current > limit
          /\ MayPurge(d)
          /\ decay' = [decay EXCEPT ![Pool(t)] =
                         [d EXCEPT !.mtx = None, !.purging = TRUE]]
          /\ th' = [th EXCEPT ![t].pc = "stash", ![t].limit = limit,
                              ![t].max = current - limit]
  /\ UNCHANGED <<pool, ticker, frees>>

\* Whether extents_evict gives the thread one more extent.  Of the muzzy pool
\* it gives none: its extents here are smaller than a chunk.
Evictable(t) ==
  /\ th[t].nstashed < th[t].max
  /\ Pool(t) = "dirty"
  /\ npages("dirty") > th[t].limit

Evict(t) ==
  /\ th[t].pc = "stash"
  /\ Evictable(t)
  /\ pool' = [pool EXCEPT !["dirty"] = Tail(@)]
  /\ th' = [th EXCEPT ![t].stash = Append(@, Head(pool["dirty"])),
                      ![t].nstashed = @ + Head(pool["dirty"])]
  /\ UNCHANGED <<decay, ticker, frees>>

StashDone(t) ==
  /\ th[t].pc = "stash"
  /\ ~Evictable(t)
  /\ th' = [th EXCEPT ![t] = [Idle EXCEPT !.pc = "stashed", !.nth = th[t].nth,
                                          !.stash = th[t].stash]]
  /\ UNCHANGED <<pool, decay, ticker, frees>>

\* arena_decay_stashed, an extent at a time.
ToMuzzy(t) ==
  /\ th[t].pc = "stashed"
  /\ th[t].stash # <<>>
  /\ pool' = [pool EXCEPT !["muzzy"] = Append(@, Head(th[t].stash))]
  /\ th' = [th EXCEPT ![t].stash = Tail(@)]
  /\ UNCHANGED <<decay, ticker, frees>>

Relock(t) ==
  /\ th[t].pc = "stashed"
  /\ th[t].stash = <<>>
  /\ decay[Pool(t)].mtx = None
  /\ decay' = [decay EXCEPT ![Pool(t)].mtx = t]
  /\ th' = [th EXCEPT ![t].pc = "relocked"]
  /\ UNCHANGED <<pool, ticker, frees>>

\* mutant: the flag stays.
Purged_keepsFlag(t) == [decay[Pool(t)] EXCEPT !.mtx = None]

\* The purge is over.
Purged(t) == [decay[Pool(t)] EXCEPT !.mtx = None, !.purging = FALSE]

PurgeDone(t) ==
  /\ th[t].pc = "relocked"
  /\ decay' = [decay EXCEPT ![Pool(t)] = Purged(t)]
  /\ th' = [th EXCEPT ![t] = NextPool(t)]
  /\ UNCHANGED <<pool, ticker, frees>>

arena_decay(t) ==
  \/ Busy(t) \/ TryLock(t) \/ NotReached(t) \/ AdvanceOnly(t)
  \/ AdvanceAndPurge(t) \/ Evict(t) \/ StashDone(t) \/ ToMuzzy(t)
  \/ Relock(t) \/ PurgeDone(t)

Program(t) == Dalloc(t) \/ Recycle(t) \/ Fresh(t)

Next == Clock \/ \E t \in Thread : Program(t) \/ arena_decay(t)

Spec == Init /\ [][Next]_vars

\* Time passes, the threads go on, and the program goes on allocating: a pool
\* decays by the ticks only.  A mutex that is free again and again is taken by
\* the thread that waits for it.
Fairness ==
  /\ WF_vars(Clock)
  /\ \A t \in Thread : /\ WF_vars(arena_decay(t))
                       /\ SF_vars(Relock(t))
                       /\ WF_vars(Fresh(t))

FairSpec == Spec /\ Fairness

----------------------------------------------------------------------------
Steps == {"idle", "trylock", "maybe", "stash", "stashed", "relocked"}

\* Every variable has its type.
TypeOK ==
  /\ pool \in [Kinds -> Seq(Nat)]
  /\ decay \in [Range(Pools) ->
                 [mtx : Thread \cup {None}, purging : BOOLEAN, elapsed : Nat,
                  deadline : Nat, nunpurged : Nat, backlog : [1 .. NSTEPS -> Nat]]]
  /\ ticker \in [Thread -> Nat]
  /\ th \in [Thread -> [pc : Steps, nth : 1 .. Len(Pools), limit : Nat, max : Nat,
                         stash : Seq(Nat), nstashed : Nat]]
  /\ frees \in Nat

InPurge(p) ==
  {t \in Thread : th[t].pc \in {"stash", "stashed", "relocked"} /\ Pool(t) = p}

(* The flag stands for the mutex while it is given up: one thread at most
   purges a pool, exactly while the flag is set, and its epoch never stands
   still at a deadline (arena.c:521, 603). *)
OnePurge ==
  \A p \in Range(Pools) :
    /\ Cardinality(InPurge(p)) = IF decay[p].purging THEN 1 ELSE 0
    /\ DeadlineReached(decay[p]) => decay[p].elapsed \div INTERVAL[p] > 0

\* The deadline lies an interval after the epoch at least, so that an epoch
\* that has come to it moves on.
DeadlineAhead == \A p \in Range(Pools) : INTERVAL[p] <= decay[p].deadline

\* The thread that found the flag down and set it, and nobody else, takes it
\* down.
FlagOfPurger ==
  \A p \in Range(Pools) :
    /\ decay[p].purging <=> InPurge(p) # {}
    /\ \A t, u \in InPurge(p) : t = u

IndInv == TypeOK /\ DeadlineAhead /\ FlagOfPurger

(* The pages a pool may keep only become fewer as long as the pool does not
   grow: an epoch with no more pages than nunpurged never raises the limit
   (arena.c:554, 613). *)
LimitFalls ==
  [][\A p \in Range(Pools) :
       /\ decay'[p].backlog # decay[p].backlog
       /\ npages(p) <= decay[p].nunpurged
       => Limit(decay'[p].backlog) <= Limit(decay[p].backlog)]_vars

(* Once the program frees no more, the dirty pool empties and every purge
   ends, whatever the threads do to each other's attempts (arena.c:516, 655). *)
Drains ==
  <>[](pool["dirty"] = <<>> /\ \A t \in Thread : th[t].stash = <<>>)
=============================================================================
