------------------------------ MODULE MemoryPool ------------------------------
(***************************************************************************)
(* The global pool of page-aligned buffers, used by every runtime thread   *)
(* without a lock: acquire_buffer and release_buffer step by step between  *)
(* their atomic operations, and the PooledBuffer that owns a buffer.       *)
(* Sizes are counted in pages.                                             *)
(***************************************************************************)
EXTENDS Integers, Sequences, FiniteSetsExt, Functions

CONSTANTS
  Thread,
  BucketSizes,    \* BUCKET_SIZES: an increasing sequence
  MemoryLimit,    \* memory_limit
  BucketCapacity, \* bucket_capacity
  MaxRequest,     \* largest request
  MaxAllocs       \* bound: buffers allocated

ASSUME MemAssumption ==
  /\ IsFiniteSet(Thread) /\ MaxRequest \in Nat
  /\ BucketSizes \in Seq(Nat \ {0}) /\ BucketSizes # <<>>

ASSUME BucketsAscend == \A i, j \in DOMAIN BucketSizes : i < j => BucketSizes[i] < BucketSizes[j]

VARIABLES
  buckets,   \* free buffers of each bucket, as their capacities
  inUse,     \* in_use
  thread,    \* [pc, want, current, cap, orig, pooled] of each thread
  held       \* history: pages of the buffers that exist

memVars == <<buckets, inUse, thread, held>>

Bucket == DOMAIN BucketSizes
NoBucket == 0

\* best_fit: the smallest bucket that is large enough.
BestFit(capacity) ==
  IF capacity > Max(Range(BucketSizes)) THEN NoBucket
  ELSE Min({i \in Bucket : BucketSizes[i] >= capacity})

Idle == [pc |-> "idle", want |-> 0, current |-> 0, cap |-> 0, orig |-> 0, pooled |-> FALSE]

MemInit ==
  /\ buckets = [i \in Bucket |-> <<>>]
  /\ inUse = [i \in Bucket |-> 0]
  /\ thread = [t \in Thread |-> Idle]
  /\ held = 0

PoolCurrentSize == FoldSet(LAMBDA i, sum : inUse[i] * BucketSizes[i] + sum, 0, Bucket)

Holding(t, cap, pooled) ==
  thread' = [thread EXCEPT ![t] = [Idle EXCEPT !.pc = "holding", !.want = thread[t].want,
                                               !.cap = cap, !.orig = cap, !.pooled = pooled]]

\* acquire_buffer reads the counters first.
MemAcquire(t, want) ==
  /\ thread[t].pc = "idle"
  /\ thread' = [thread EXCEPT ![t] = [Idle EXCEPT !.pc = "pop", !.want = want,
                                                  !.current = PoolCurrentSize]]
  /\ UNCHANGED <<buckets, inUse, held>>

\* Faulty variant of Usable: the capacity of a returned buffer is not looked at.
UsableAny(t, cap) == TRUE

Usable(t, cap) == cap >= thread[t].want

\* A free buffer of the bucket, whatever the counters said.  One that came back
\* with a capacity between two buckets may be too small and is replaced.
MemPop(t) ==
  LET i == BestFit(thread[t].want)
      cap == Head(buckets[i])
      new == IF Usable(t, cap) THEN cap ELSE BucketSizes[i]
  IN  /\ thread[t].pc = "pop"
      /\ i # NoBucket
      /\ buckets[i] # <<>>
      /\ buckets' = [buckets EXCEPT ![i] = Tail(@)]
      /\ held' = held - cap + new
      /\ thread' = [thread EXCEPT ![t].pc = "count", ![t].cap = new]
      /\ UNCHANGED inUse

\* The bucket is empty: a new buffer, counted if there was budget.
MemAllocate(t) ==
  LET i == BestFit(thread[t].want)
  IN  /\ thread[t].pc = "pop"
      /\ i # NoBucket
      /\ buckets[i] = <<>>
      /\ held < MaxAllocs
      /\ held' = held + BucketSizes[i]
      /\ IF thread[t].current + BucketSizes[i] > MemoryLimit
         THEN Holding(t, BucketSizes[i], FALSE)
         ELSE thread' = [thread EXCEPT ![t].pc = "count", ![t].cap = BucketSizes[i]]
      /\ UNCHANGED <<buckets, inUse>>

\* No bucket is large enough.
MemExternal(t) ==
  /\ thread[t].pc = "pop"
  /\ BestFit(thread[t].want) = NoBucket
  /\ held < MaxAllocs
  /\ held' = held + thread[t].want
  /\ Holding(t, thread[t].want, FALSE)
  /\ UNCHANGED <<buckets, inUse>>

MemCount(t) ==
  /\ thread[t].pc = "count"
  /\ inUse' = [inUse EXCEPT ![BestFit(thread[t].want)] = @ + 1]
  /\ Holding(t, thread[t].cap, TRUE)
  /\ UNCHANGED <<buckets, held>>

\* PooledBuffer::extend_from_slice, reserve: the vector grows.
MemGrow(t) ==
  /\ thread[t].pc = "holding"
  /\ thread[t].cap < MaxRequest
  /\ thread' = [thread EXCEPT ![t].cap = @ + 1]
  /\ held' = held + 1
  /\ UNCHANGED <<buckets, inUse>>

\* PooledBuffer::drop of a buffer that the pool does not track, into_inner.
MemDrop(t) ==
  /\ thread[t].pc = "holding" /\ ~thread[t].pooled
  /\ thread' = [thread EXCEPT ![t] = Idle]
  /\ held' = held - thread[t].cap
  /\ UNCHANGED <<buckets, inUse>>

\* Faulty variant of CountedIn: the bucket of the buffer's present capacity.
CountedInNow(t) == BestFit(thread[t].cap)

\* release_buffer takes it off the bucket it was counted in.
CountedIn(t) == BestFit(thread[t].orig)

MemUncount(t) ==
  /\ thread[t].pc = "holding" /\ thread[t].pooled
  /\ inUse' = IF CountedIn(t) = NoBucket THEN inUse
              ELSE [inUse EXCEPT ![CountedIn(t)] = @ - 1]
  /\ thread' = [thread EXCEPT ![t].pc = "return"]
  /\ UNCHANGED <<buckets, held>>

\* Faulty variant of Fits: one buffer more than the bucket may keep.
FitsOver(i) == i # NoBucket /\ Len(buckets[i]) <= BucketCapacity

\* ArrayQueue::push succeeds.
Fits(i) == i # NoBucket /\ Len(buckets[i]) < BucketCapacity

\* Back to the bucket that its present capacity fits, if there is room.
MemReturn(t) ==
  LET i == BestFit(thread[t].cap)
      kept == Fits(i)
  IN  /\ thread[t].pc = "return"
      /\ buckets' = IF kept THEN [buckets EXCEPT ![i] = Append(@, thread[t].cap)] ELSE buckets
      /\ held' = IF kept THEN held ELSE held - thread[t].cap
      /\ thread' = [thread EXCEPT ![t] = Idle]
      /\ UNCHANGED inUse

MemNext ==
  \E t \in Thread :
    \/ \E want \in 1..MaxRequest : MemAcquire(t, want)
    \/ MemPop(t) \/ MemAllocate(t) \/ MemExternal(t) \/ MemCount(t)
    \/ MemGrow(t) \/ MemDrop(t) \/ MemUncount(t) \/ MemReturn(t)

MemSpec == MemInit /\ [][MemNext]_memVars

-----------------------------------------------------------------------------
\* A buffer is never smaller than what its owner asked for, also when it had grown
\* before it came back to a bucket (acquire_buffer, release_buffer).
MemFits == \A t \in Thread : thread[t].pc = "holding" => thread[t].cap >= thread[t].want

CountedThreads(i) ==
  {t \in Thread : /\ thread[t].pooled /\ thread[t].pc = "holding"
                  /\ BestFit(thread[t].orig) = i}

\* The counters are exact between operations: no sequence of acquisitions, growth
\* and releases on several threads makes a bucket drift or wrap below zero
\* (in_use in acquire_buffer and release_buffer).
MemCounted == \A i \in Bucket : inUse[i] = Cardinality(CountedThreads(i))

Queued == FoldSet(LAMBDA i, sum : SumFunction(buckets[i]) + sum, 0, Bucket)
Owned == FoldSet(LAMBDA t, sum : thread[t].cap + sum, 0, Thread)

\* No buffer is lost or owned twice: the memory that exists is what threads own and
\* what the queues keep, and no queue passes its capacity.
MemConserved ==
  /\ held = Queued + Owned
  /\ \A i \in Bucket : Len(buckets[i]) <= BucketCapacity

\* The pool is sound without a lock: what it hands out is large enough, nothing is
\* lost or owned twice, and its counters are exact (acquire_buffer, release_buffer).
MemSound == MemFits /\ MemCounted /\ MemConserved
=============================================================================
