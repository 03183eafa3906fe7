--------------------------- MODULE MemoryPoolProofs ---------------------------
(***************************************************************************)
(* The memory pool, for every number of threads and every table of         *)
(* buckets.  First what best_fit returns.                                  *)
(***************************************************************************)
EXTENDS MemoryPool, FiniteSetTheorems, SequenceTheorems, WellFoundedInduction, TLAPS

\* Every non-empty set of naturals has a least element.
LEMMA LeastNat == ASSUME NEW S \in SUBSET Nat, S # {} PROVE \E x \in S : \A y \in S : x =< y
<1> DEFINE R == {ss \in Nat \X Nat : ss[1] < ss[2]}
<1>1. IsWellFoundedOn(R, Nat)
  BY NatLessThanWellFounded DEF OpToRel
<1>2. \E x \in S : \A y \in S : ~(<<y, x>> \in R)
  BY <1>1, WFMin, Zenon
<1>3. PICK x \in S : \A y \in S : ~(<<y, x>> \in R)
  BY <1>2
<1>4. ASSUME NEW y \in S PROVE x =< y
  <2>1. <<y, x>> \in Nat \X Nat /\ ~(y < x)
    BY <1>3
  <2> QED BY <2>1
<1> QED BY <1>4

LEMMA BucketTypes ==
  /\ Bucket = 1..Len(BucketSizes) /\ Len(BucketSizes) \in Nat /\ Len(BucketSizes) >= 1
  /\ \A i \in Bucket : BucketSizes[i] \in Nat
BY MemAssumption DEF Bucket

\* The largest bucket is the last one.
LEMMA LargestBucket ==
  /\ Max(Range(BucketSizes)) \in Range(BucketSizes) /\ Max(Range(BucketSizes)) \in Nat
  /\ \A i \in Bucket : BucketSizes[i] <= Max(Range(BucketSizes))
<1> DEFINE R == Range(BucketSizes)
<1>1. \E x \in R : \A y \in R : x >= y
  <2>1. BucketSizes[Len(BucketSizes)] \in R
    BY BucketTypes DEF Range, Bucket
  <2>2. \A i \in Bucket : BucketSizes[Len(BucketSizes)] >= BucketSizes[i]
    BY BucketTypes, BucketsAscend DEF Bucket
  <2> QED BY <2>1, <2>2 DEF Range, Bucket
<1>2. Max(R) \in R /\ \A y \in R : Max(R) >= y
  BY <1>1 DEF Max
<1> QED BY <1>2, BucketTypes, Zenon DEF Range, Bucket

\* best_fit finds a bucket that is large enough, or none.
LEMMA BestFitFits ==
  ASSUME NEW c \in Nat, BestFit(c) # NoBucket
  PROVE  BestFit(c) \in Bucket /\ BucketSizes[BestFit(c)] >= c
<1> DEFINE S == {i \in Bucket : BucketSizes[i] >= c}
<1>1. c <= Max(Range(BucketSizes)) /\ BestFit(c) = Min(S)
  BY LargestBucket DEF BestFit
<1>2. S # {} /\ S \in SUBSET Nat
  BY <1>1, LargestBucket, BucketTypes DEF Range, Bucket
<1>3. Min(S) \in S
  BY <1>2, LeastNat, Zenon DEF Min
<1> QED BY <1>1, <1>3

\* A bucket is the best fit for its own size.
LEMMA BestFitOfSize == ASSUME NEW i \in Bucket PROVE BestFit(BucketSizes[i]) = i
<1> DEFINE S == {j \in Bucket : BucketSizes[j] >= BucketSizes[i]}
<1>1. BestFit(BucketSizes[i]) = Min(S)
  BY LargestBucket, BucketTypes DEF BestFit
<1>2. i \in S /\ \A j \in S : i =< j
  BY BucketTypes, BucketsAscend DEF Bucket
<1>3. \A x \in S : (\A y \in S : x =< y) => x = i
  BY <1>2, BucketTypes
<1> QED BY <1>1, <1>2, <1>3 DEF Min

-----------------------------------------------------------------------------
Field == {"pc", "want", "current", "cap", "orig", "pooled"}

ThreadShape ==
  /\ DOMAIN thread = Thread
  /\ \A t \in Thread : /\ DOMAIN thread[t] = Field
                       /\ thread[t].want \in Nat /\ thread[t].cap \in Nat /\ thread[t].orig \in Nat

\* A free buffer lies in the bucket its capacity fits, and a buffer about to be
\* counted fits the bucket it is counted in: this is why acquire_buffer may count by
\* the size asked for and release_buffer by the capacity it noted.
BuffersPlaced ==
  /\ buckets \in [Bucket -> Seq(Nat)]
  /\ \A i \in Bucket : \A k \in 1..Len(buckets[i]) : BestFit(buckets[i][k]) = i
  /\ \A t \in Thread : thread[t].pc = "count" =>
       /\ BestFit(thread[t].want) # NoBucket
       /\ BestFit(thread[t].cap) = BestFit(thread[t].want)
       /\ thread[t].cap >= thread[t].want

MemInv ==
  /\ ThreadShape /\ BuffersPlaced /\ MemFits
  /\ inUse \in [Bucket -> Int] /\ MemCounted

\* A step of t that neither begins nor ends counting it.
LEMMA CountUnmoved ==
  ASSUME NEW t \in Thread, MemCounted,
         \A u \in Thread \ {t} : thread'[u] = thread[u],
         UNCHANGED inUse,
         \/ /\ ~(thread[t].pc = "holding" /\ thread[t].pooled)
            /\ ~(thread'[t].pc = "holding" /\ thread'[t].pooled)
         \/ /\ thread[t].pc = "holding" /\ thread'[t].pc = "holding"
            /\ thread'[t].pooled = thread[t].pooled /\ thread'[t].orig = thread[t].orig
  PROVE  MemCounted'
<1>1. ASSUME NEW i \in Bucket PROVE CountedThreads(i)' = CountedThreads(i)
  BY DEF CountedThreads
<1> QED BY <1>1 DEF MemCounted

LEMMA MemInitInv == MemInit => MemInv
<1> SUFFICES ASSUME MemInit PROVE MemInv
  OBVIOUS
<1>1. ThreadShape
  BY DEF MemInit, ThreadShape, Idle, Field
<1>2. BuffersPlaced
  <2>1. buckets \in [Bucket -> Seq(Nat)] /\ \A i \in Bucket : Len(buckets[i]) = 0
    BY DEF MemInit
  <2>2. \A t \in Thread : thread[t].pc # "count"
    BY DEF MemInit, Idle
  <2> QED BY <2>1, <2>2 DEF BuffersPlaced
<1>3. MemFits
  BY DEF MemInit, MemFits, Idle
<1>4. ASSUME NEW i \in Bucket PROVE CountedThreads(i) = {}
  BY DEF MemInit, CountedThreads, Idle
<1>5. inUse \in [Bucket -> Int] /\ MemCounted
  <2>1. inUse = [i \in Bucket |-> 0]
    BY DEF MemInit
  <2>2. ASSUME NEW i \in Bucket PROVE inUse[i] = Cardinality(CountedThreads(i))
    BY <1>4, <2>1, FS_EmptySet
  <2> QED BY <2>1, <2>2 DEF MemCounted
<1> QED BY <1>1, <1>2, <1>3, <1>5 DEF MemInv

LEMMA MemAcquireInv ==
  ASSUME MemInv, NEW t \in Thread, NEW want \in 1..MaxRequest, MemAcquire(t, want)
  PROVE  MemInv'
<1>1. /\ DOMAIN thread' = Thread /\ \A u \in Thread \ {t} : thread'[u] = thread[u]
      /\ thread'[t].pc = "pop" /\ DOMAIN thread'[t] = Field
      /\ thread'[t].want = want /\ thread'[t].cap = 0 /\ thread'[t].orig = 0
      /\ thread[t].pc = "idle" /\ UNCHANGED <<buckets, inUse>> /\ want \in Nat
  BY MemAssumption DEF MemAcquire, MemInv, ThreadShape, Idle, Field
<1>2. ThreadShape'
  BY <1>1 DEF MemInv, ThreadShape
<1>3. BuffersPlaced' /\ MemFits'
  BY <1>1, Zenon DEF MemInv, BuffersPlaced, MemFits
<1>4. MemCounted'
  BY <1>1, CountUnmoved DEF MemInv
<1> QED BY <1>1, <1>2, <1>3, <1>4 DEF MemInv

LEMMA MemPopInv == ASSUME MemInv, NEW t \in Thread, MemPop(t) PROVE MemInv'
<1> DEFINE i == BestFit(thread[t].want)
           cap == Head(buckets[i])
           new == IF cap >= thread[t].want THEN cap ELSE BucketSizes[i]
<1>1. /\ thread[t].pc = "pop" /\ i # NoBucket /\ buckets[i] # <<>>
      /\ buckets' = [buckets EXCEPT ![i] = Tail(buckets[i])] /\ UNCHANGED inUse
      /\ thread' = [thread EXCEPT ![t].pc = "count", ![t].cap = new]
  BY DEF MemPop, Usable
<1>2. i \in Bucket /\ BucketSizes[i] >= thread[t].want /\ thread[t].want \in Nat
  BY <1>1, BestFitFits DEF MemInv, ThreadShape
<1>3. /\ buckets[i] \in Seq(Nat) /\ Len(buckets[i]) >= 1
      /\ cap \in Nat /\ BestFit(cap) = i
      /\ Tail(buckets[i]) \in Seq(Nat)
      /\ \A k \in 1..Len(Tail(buckets[i])) : BestFit(Tail(buckets[i])[k]) = i
  <2>1. buckets[i] \in Seq(Nat) /\ Len(buckets[i]) \in Nat /\ Len(buckets[i]) >= 1
    BY <1>1, <1>2 DEF MemInv, BuffersPlaced
  <2>2. \A k \in 1..Len(buckets[i]) : BestFit(buckets[i][k]) = i
    BY <1>2 DEF MemInv, BuffersPlaced
  <2>3. cap = buckets[i][1] /\ cap \in Nat
    BY <1>1, <2>1
  <2>4. /\ Tail(buckets[i]) \in Seq(Nat) /\ Len(Tail(buckets[i])) = Len(buckets[i]) - 1
        /\ \A k \in 1..Len(Tail(buckets[i])) : Tail(buckets[i])[k] = buckets[i][k + 1]
    BY <1>1, <2>1, HeadTailProperties
  <2>5. \A k \in 1..Len(Tail(buckets[i])) : k + 1 \in 1..Len(buckets[i])
    BY <2>1, <2>4
  <2> QED BY <2>1, <2>2, <2>3, <2>4, <2>5
<1>4. new \in Nat /\ BestFit(new) = i /\ new >= thread[t].want
  BY <1>2, <1>3, BestFitOfSize, BucketTypes
<1> HIDE DEF i, new, cap
<1>5. /\ DOMAIN thread' = Thread /\ \A u \in Thread \ {t} : thread'[u] = thread[u]
      /\ thread'[t].pc = "count" /\ DOMAIN thread'[t] = Field
      /\ thread'[t].want = thread[t].want /\ thread'[t].cap = new /\ thread'[t].orig = thread[t].orig
  BY <1>1 DEF MemInv, ThreadShape, Field
<1>6. ThreadShape'
  BY <1>4, <1>5 DEF MemInv, ThreadShape
<1>7. BuffersPlaced'
  <2>1. buckets' \in [Bucket -> Seq(Nat)]
    BY <1>1, <1>3, Zenon DEF MemInv, BuffersPlaced
  <2>2. ASSUME NEW j \in Bucket, NEW k \in 1..Len(buckets'[j]) PROVE BestFit(buckets'[j][k]) = j
    <3>1. CASE j = i
      BY <1>1, <1>2, <1>3, <3>1 DEF MemInv, BuffersPlaced
    <3>2. CASE j # i
      BY <1>1, <3>2 DEF MemInv, BuffersPlaced
    <3> QED BY <3>1, <3>2
  <2>3. i = BestFit(thread'[t].want)
    BY <1>5 DEF i
  <2> QED BY <1>1, <1>4, <1>5, <2>1, <2>2, <2>3 DEF MemInv, BuffersPlaced
<1>8. MemFits'
  BY <1>5 DEF MemInv, MemFits
<1>9. MemCounted'
  BY <1>1, <1>5, CountUnmoved DEF MemInv
<1> QED BY <1>1, <1>6, <1>7, <1>8, <1>9 DEF MemInv

LEMMA MemAllocateInv == ASSUME MemInv, NEW t \in Thread, MemAllocate(t) PROVE MemInv'
<1> DEFINE i == BestFit(thread[t].want)
<1>1. /\ thread[t].pc = "pop" /\ i # NoBucket
      /\ UNCHANGED <<buckets, inUse>>
      /\ \/ Holding(t, BucketSizes[i], FALSE)
         \/ thread' = [thread EXCEPT ![t].pc = "count", ![t].cap = BucketSizes[i]]
  BY Zenon DEF MemAllocate
<1>2. /\ i \in Bucket /\ BucketSizes[i] >= thread[t].want /\ BucketSizes[i] \in Nat
      /\ BestFit(BucketSizes[i]) = i
  BY <1>1, BestFitFits, BestFitOfSize, BucketTypes DEF MemInv, ThreadShape
<1>3. /\ DOMAIN thread' = Thread /\ \A u \in Thread \ {t} : thread'[u] = thread[u]
      /\ DOMAIN thread'[t] = Field
      /\ thread'[t].want = thread[t].want /\ thread'[t].cap = BucketSizes[i] /\ thread'[t].orig \in Nat
      /\ thread'[t].pc = "count" \/ (thread'[t].pc = "holding" /\ ~thread'[t].pooled)
  <2>1. CASE Holding(t, BucketSizes[i], FALSE)
    BY <1>1, <1>2, <2>1 DEF Holding, MemInv, ThreadShape, Idle, Field
  <2>2. CASE thread' = [thread EXCEPT ![t].pc = "count", ![t].cap = BucketSizes[i]]
    BY <1>1, <1>2, <2>2 DEF MemInv, ThreadShape, Field
  <2> QED BY <1>1, <2>1, <2>2, Zenon
<1>4. ThreadShape'
  BY <1>2, <1>3 DEF MemInv, ThreadShape
<1>5. BuffersPlaced'
  <2>1. thread'[t].pc = "count" => /\ BestFit(thread'[t].want) # NoBucket
                                   /\ BestFit(thread'[t].cap) = BestFit(thread'[t].want)
                                   /\ thread'[t].cap >= thread'[t].want
    BY <1>1, <1>2, <1>3
  <2> QED BY <1>1, <1>3, <2>1 DEF MemInv, BuffersPlaced
<1>7. MemFits'
  BY <1>2, <1>3 DEF MemInv, MemFits
<1>6. MemCounted'
  BY <1>1, <1>3, CountUnmoved DEF MemInv
<1> QED BY <1>1, <1>4, <1>5, <1>6, <1>7 DEF MemInv

LEMMA MemExternalInv == ASSUME MemInv, NEW t \in Thread, MemExternal(t) PROVE MemInv'
<1>1. /\ DOMAIN thread' = Thread /\ \A u \in Thread \ {t} : thread'[u] = thread[u]
      /\ DOMAIN thread'[t] = Field /\ thread'[t].pc = "holding" /\ ~thread'[t].pooled
      /\ thread'[t].want = thread[t].want /\ thread'[t].cap = thread[t].want
      /\ thread'[t].orig = thread[t].want
      /\ thread[t].pc = "pop" /\ UNCHANGED <<buckets, inUse>>
  BY DEF MemExternal, Holding, MemInv, ThreadShape, Idle, Field
<1>2. ThreadShape'
  BY <1>1 DEF MemInv, ThreadShape
<1>3. BuffersPlaced'
  BY <1>1 DEF MemInv, BuffersPlaced
<1>5. MemFits'
  BY <1>1 DEF MemInv, ThreadShape, MemFits
<1>4. MemCounted'
  BY <1>1, CountUnmoved DEF MemInv
<1> QED BY <1>1, <1>2, <1>3, <1>4, <1>5 DEF MemInv

LEMMA MemCountInv == ASSUME MemInv, NEW t \in Thread, MemCount(t) PROVE MemInv'
<1> DEFINE i == BestFit(thread[t].want)
<1>1. /\ DOMAIN thread' = Thread /\ \A u \in Thread \ {t} : thread'[u] = thread[u]
      /\ DOMAIN thread'[t] = Field /\ thread'[t].pc = "holding" /\ thread'[t].pooled
      /\ thread'[t].want = thread[t].want /\ thread'[t].cap = thread[t].cap
      /\ thread'[t].orig = thread[t].cap
      /\ thread[t].pc = "count" /\ UNCHANGED buckets
      /\ inUse' = [inUse EXCEPT ![i] = inUse[i] + 1]
  BY DEF MemCount, Holding, MemInv, ThreadShape, Idle, Field
<1>2. /\ i \in Bucket /\ BestFit(thread[t].cap) = i /\ thread[t].cap >= thread[t].want
  BY <1>1, BestFitFits DEF MemInv, ThreadShape, BuffersPlaced
<1>3. ThreadShape'
  BY <1>1 DEF MemInv, ThreadShape
<1>4. BuffersPlaced'
  BY <1>1 DEF MemInv, BuffersPlaced
<1>7. MemFits'
  BY <1>1, <1>2 DEF MemInv, MemFits
<1>5. inUse' \in [Bucket -> Int]
  BY <1>1, <1>2 DEF MemInv
<1>6. ASSUME NEW j \in Bucket PROVE inUse'[j] = Cardinality(CountedThreads(j)')
  <2>1. CountedThreads(j)' = IF j = i THEN CountedThreads(j) \cup {t} ELSE CountedThreads(j)
    BY <1>1, <1>2 DEF CountedThreads
  <2>2. t \notin CountedThreads(j) /\ CountedThreads(j) \in SUBSET Thread
    BY <1>1 DEF CountedThreads
  <2>3. IsFiniteSet(CountedThreads(j)) /\ inUse[j] = Cardinality(CountedThreads(j))
    BY <2>2, MemAssumption, FS_Subset DEF MemInv, MemCounted
  <2>4. Cardinality(CountedThreads(j) \cup {t}) = Cardinality(CountedThreads(j)) + 1
    BY <2>2, <2>3, FS_AddElement, Zenon
  <2> QED BY <1>1, <2>1, <2>3, <2>4 DEF MemInv
<1> QED BY <1>3, <1>4, <1>5, <1>6, <1>7 DEF MemInv, MemCounted

LEMMA MemGrowInv == ASSUME MemInv, NEW t \in Thread, MemGrow(t) PROVE MemInv'
<1>1. /\ DOMAIN thread' = Thread /\ \A u \in Thread \ {t} : thread'[u] = thread[u]
      /\ DOMAIN thread'[t] = Field /\ thread'[t].pc = "holding"
      /\ thread'[t].want = thread[t].want /\ thread'[t].cap = thread[t].cap + 1
      /\ thread'[t].orig = thread[t].orig /\ thread'[t].pooled = thread[t].pooled
      /\ thread[t].pc = "holding" /\ UNCHANGED <<buckets, inUse>>
  BY DEF MemGrow, MemInv, ThreadShape, Field
<1>2. ThreadShape'
  BY <1>1 DEF MemInv, ThreadShape
<1>3. BuffersPlaced'
  BY <1>1 DEF MemInv, BuffersPlaced
<1>5. MemFits'
  BY <1>1 DEF MemInv, ThreadShape, MemFits
<1>4. MemCounted'
  BY <1>1, CountUnmoved DEF MemInv
<1> QED BY <1>1, <1>2, <1>3, <1>4, <1>5 DEF MemInv

LEMMA MemDropInv == ASSUME MemInv, NEW t \in Thread, MemDrop(t) PROVE MemInv'
<1>1. /\ DOMAIN thread' = Thread /\ \A u \in Thread \ {t} : thread'[u] = thread[u]
      /\ thread'[t] = Idle /\ ~thread[t].pooled /\ UNCHANGED <<buckets, inUse>>
  BY DEF MemDrop, MemInv, ThreadShape
<1>2. ThreadShape'
  BY <1>1 DEF MemInv, ThreadShape, Idle, Field
<1>3. BuffersPlaced'
  BY <1>1 DEF MemInv, BuffersPlaced, Idle
<1>5. MemFits'
  BY <1>1 DEF MemInv, MemFits, Idle
<1>4. MemCounted'
  BY <1>1, CountUnmoved DEF MemInv, Idle
<1> QED BY <1>1, <1>2, <1>3, <1>4, <1>5 DEF MemInv

LEMMA MemUncountInv == ASSUME MemInv, NEW t \in Thread, MemUncount(t) PROVE MemInv'
<1> DEFINE i == BestFit(thread[t].orig)
<1>1. /\ DOMAIN thread' = Thread /\ \A u \in Thread \ {t} : thread'[u] = thread[u]
      /\ DOMAIN thread'[t] = Field /\ thread'[t].pc = "return"
      /\ thread'[t].want = thread[t].want /\ thread'[t].cap = thread[t].cap
      /\ thread'[t].orig = thread[t].orig
      /\ thread[t].pc = "holding" /\ thread[t].pooled /\ UNCHANGED buckets
      /\ inUse' = IF i = NoBucket THEN inUse ELSE [inUse EXCEPT ![i] = inUse[i] - 1]
  BY DEF MemUncount, CountedIn, MemInv, ThreadShape, Field
<1>2. i # NoBucket => i \in Bucket
  BY BestFitFits DEF MemInv, ThreadShape
<1>3. ThreadShape'
  BY <1>1 DEF MemInv, ThreadShape
<1>4. BuffersPlaced' /\ MemFits'
  BY <1>1 DEF MemInv, BuffersPlaced, MemFits
<1>5. inUse' \in [Bucket -> Int]
  BY <1>1, <1>2 DEF MemInv
<1>6. ASSUME NEW j \in Bucket PROVE inUse'[j] = Cardinality(CountedThreads(j)')
  <2>1. CountedThreads(j)' = IF j = i THEN CountedThreads(j) \ {t} ELSE CountedThreads(j)
    BY <1>1 DEF CountedThreads
  <2>2. (j = i => t \in CountedThreads(j)) /\ CountedThreads(j) \in SUBSET Thread
    BY <1>1 DEF CountedThreads
  <2>3. IsFiniteSet(CountedThreads(j)) /\ inUse[j] = Cardinality(CountedThreads(j))
    BY <2>2, MemAssumption, FS_Subset DEF MemInv, MemCounted
  <2>4. j = i => Cardinality(CountedThreads(j) \ {t}) = Cardinality(CountedThreads(j)) - 1
    BY <2>2, <2>3, FS_RemoveElement, Zenon
  <2>5. j # NoBucket
    BY BucketTypes DEF NoBucket
  <2> QED BY <1>1, <2>1, <2>3, <2>4, <2>5 DEF MemInv
<1> QED BY <1>3, <1>4, <1>5, <1>6 DEF MemInv, MemCounted

LEMMA MemReturnInv == ASSUME MemInv, NEW t \in Thread, MemReturn(t) PROVE MemInv'
<1> DEFINE cap == thread[t].cap
           i == BestFit(cap)
<1>1. /\ DOMAIN thread' = Thread /\ \A u \in Thread \ {t} : thread'[u] = thread[u]
      /\ thread'[t] = Idle /\ thread[t].pc = "return" /\ UNCHANGED inUse
      /\ \/ UNCHANGED buckets
         \/ i # NoBucket /\ buckets' = [buckets EXCEPT ![i] = Append(buckets[i], cap)]
  BY DEF MemReturn, Fits, MemInv, ThreadShape
<1>2. ThreadShape'
  BY <1>1 DEF MemInv, ThreadShape, Idle, Field
<1>3. MemFits'
  BY <1>1 DEF MemInv, MemFits, Idle
<1>4. \A u \in Thread : thread'[u].pc = "count" => thread'[u] = thread[u]
  BY <1>1 DEF Idle
<1>5. BuffersPlaced'
  <2>1. CASE UNCHANGED buckets
    BY <1>4, <2>1 DEF MemInv, BuffersPlaced
  <2>2. CASE i # NoBucket /\ buckets' = [buckets EXCEPT ![i] = Append(buckets[i], cap)]
    <3>1. i \in Bucket /\ cap \in Nat
      BY <2>2, BestFitFits DEF MemInv, ThreadShape
    <3>2. /\ buckets[i] \in Seq(Nat) /\ Len(buckets[i]) \in Nat
          /\ \A k \in 1..Len(buckets[i]) : BestFit(buckets[i][k]) = i
      BY <3>1 DEF MemInv, BuffersPlaced
    <3>3. /\ Append(buckets[i], cap) \in Seq(Nat)
          /\ Len(Append(buckets[i], cap)) = Len(buckets[i]) + 1
          /\ \A k \in 1..Len(buckets[i]) : Append(buckets[i], cap)[k] = buckets[i][k]
          /\ Append(buckets[i], cap)[Len(buckets[i]) + 1] = cap
      BY <3>1, <3>2, AppendProperties
    <3>4. \A k \in 1..Len(Append(buckets[i], cap)) : BestFit(Append(buckets[i], cap)[k]) = i
      BY <3>2, <3>3
    <3> HIDE DEF i, cap
    <3>5. buckets' \in [Bucket -> Seq(Nat)]
      BY <2>2, <3>3, Zenon DEF MemInv, BuffersPlaced
    <3>6. ASSUME NEW j \in Bucket, NEW k \in 1..Len(buckets'[j]) PROVE BestFit(buckets'[j][k]) = j
      <4>1. CASE j = i
        BY <2>2, <3>1, <3>4, <4>1 DEF MemInv, BuffersPlaced
      <4>2. CASE j # i
        BY <2>2, <4>2 DEF MemInv, BuffersPlaced
      <4> QED BY <4>1, <4>2
    <3> QED BY <1>4, <3>5, <3>6, Zenon DEF MemInv, BuffersPlaced
  <2> QED BY <1>1, <2>1, <2>2
<1>6. MemCounted'
  BY <1>1, CountUnmoved DEF MemInv, Idle
<1> QED BY <1>1, <1>2, <1>3, <1>5, <1>6 DEF MemInv

LEMMA MemInvariant == MemSpec => []MemInv
<1>1. MemInv /\ [MemNext]_memVars => MemInv'
  <2> SUFFICES ASSUME MemInv, [MemNext]_memVars PROVE MemInv'
    OBVIOUS
  <2>1. CASE UNCHANGED memVars
    BY <2>1 DEF memVars, MemInv, ThreadShape, BuffersPlaced, MemFits, MemCounted, CountedThreads
  <2> QED BY <2>1, MemAcquireInv, MemPopInv, MemAllocateInv, MemExternalInv, MemCountInv,
             MemGrowInv, MemDropInv, MemUncountInv, MemReturnInv DEF MemNext
<1> QED BY <1>1, MemInitInv, PTL DEF MemSpec

\* For every number of threads and every table of buckets: a buffer is never smaller
\* than what its owner asked for, also when it had grown before it came back to a
\* bucket (acquire_buffer, release_buffer).
THEOREM BuffersFit == MemSpec => []MemFits
BY MemInvariant, PTL DEF MemInv

\* And the counters of the buckets are exact, whatever the threads' operations on the
\* queues and the counters interleave to (in_use in acquire_buffer, release_buffer).
THEOREM CountersExact == MemSpec => []MemCounted
BY MemInvariant, PTL DEF MemInv
=============================================================================
