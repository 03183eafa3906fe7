----------------------------- MODULE RdmaBufPool ------------------------------
(***************************************************************************)
(* RdmaBufPool: registered buffers for bulk transfers, allocated up to a   *)
(* limit, then handed from the task that drops one to the first that waits.*)
(* A task may be dropped while it waits.                                   *)
(***************************************************************************)
EXTENDS Integers, Sequences, FiniteSets

CONSTANTS
  BufUser,     \* tasks that acquire buffers
  BufCap,      \* RdmaBufPool.cap
  MaxBufFaults \* allocation failures and dropped futures

ASSUME BufCapNat == BufCap \in Nat

VARIABLES
  bufFree,     \* PoolState.free
  bufWaiters,  \* PoolState.waiters: [user, live]
  allocated,   \* PoolState.allocated
  bufOf,       \* [pc, buf] of each user
  bufLost,     \* history: buffers freed although they stay counted
  bufFaults

bufVars == <<bufFree, bufWaiters, allocated, bufOf, bufLost, bufFaults>>

NoBuf == 0
Buf == 1..BufCap

BufInit ==
  /\ bufFree = {}
  /\ bufWaiters = <<>>
  /\ allocated = 0
  /\ bufOf = [u \in BufUser |-> [pc |-> "idle", buf |-> NoBuf]]
  /\ bufLost = {}
  /\ bufFaults = 0

Using(u, b) == [bufOf EXCEPT ![u] = [pc |-> "using", buf |-> b]]

Held == {bufOf[u].buf : u \in BufUser} \ {NoBuf}

BufTakeFree(u) ==
  /\ bufOf[u].pc = "idle"
  /\ \E b \in bufFree : bufFree' = bufFree \ {b} /\ bufOf' = Using(u, b)
  /\ UNCHANGED <<bufWaiters, allocated, bufLost, bufFaults>>

\* RdmaBufInner::new: the memory is allocated and registered.
BufAllocate(u) ==
  /\ bufOf[u].pc = "idle" /\ bufFree = {}
  /\ allocated < BufCap
  /\ allocated' = allocated + 1
  /\ \E b \in Buf \ (Held \cup bufLost) : bufOf' = Using(u, b)
  /\ UNCHANGED <<bufFree, bufWaiters, bufLost, bufFaults>>

\* Faulty variant of AfterFailure: the count is not taken back.
AfterFailureKept == allocated + 1

\* The allocation fails: the count is taken back.
AfterFailure == allocated

BufAllocateFails(u) ==
  /\ bufOf[u].pc = "idle" /\ bufFree = {}
  /\ allocated < BufCap
  /\ bufFaults < MaxBufFaults
  /\ bufFaults' = bufFaults + 1
  /\ allocated' = AfterFailure
  /\ UNCHANGED <<bufFree, bufWaiters, bufOf, bufLost>>

BufWait(u) ==
  /\ bufOf[u].pc = "idle" /\ bufFree = {}
  /\ allocated >= BufCap
  /\ bufWaiters' = Append(bufWaiters, [user |-> u, live |-> TRUE])
  /\ bufOf' = [bufOf EXCEPT ![u].pc = "waiting"]
  /\ UNCHANGED <<bufFree, allocated, bufLost, bufFaults>>

\* Faulty variant of Heir: gives up at a waiter that was dropped.
HeirFirst(k) == k = 1 /\ bufWaiters[k].live

\* return_inner passes over the waiters that were dropped.
Heir(k) == bufWaiters[k].live /\ \A j \in 1..(k - 1) : ~bufWaiters[j].live

\* RdmaBuf::drop.
BufReturn(u) ==
  /\ bufOf[u].pc = "using"
  /\ \/ /\ \A k \in DOMAIN bufWaiters : ~Heir(k)
        /\ bufWaiters' = <<>>
        /\ bufFree' = bufFree \cup {bufOf[u].buf}
        /\ bufOf' = [bufOf EXCEPT ![u] = [pc |-> "idle", buf |-> NoBuf]]
     \/ \E k \in DOMAIN bufWaiters :
          /\ Heir(k)
          /\ bufWaiters' = SubSeq(bufWaiters, k + 1, Len(bufWaiters))
          /\ bufOf' = [bufOf EXCEPT ![u] = [pc |-> "idle", buf |-> NoBuf],
                                    ![bufWaiters[k].user] = [pc |-> "handed", buf |-> bufOf[u].buf]]
          /\ UNCHANGED bufFree
  /\ UNCHANGED <<allocated, bufLost, bufFaults>>

BufResume(u) ==
  /\ bufOf[u].pc = "handed"
  /\ bufOf' = [bufOf EXCEPT ![u].pc = "using"]
  /\ UNCHANGED <<bufFree, bufWaiters, allocated, bufLost, bufFaults>>

\* The future is dropped.  A buffer in its channel is freed, and stays counted.
BufDropped(u) ==
  /\ bufOf[u].pc \in {"waiting", "handed"}
  /\ bufFaults < MaxBufFaults
  /\ bufFaults' = bufFaults + 1
  /\ bufWaiters' = [k \in DOMAIN bufWaiters |->
                      IF bufWaiters[k].user = u THEN [bufWaiters[k] EXCEPT !.live = FALSE]
                      ELSE bufWaiters[k]]
  /\ bufLost' = bufLost \cup ({bufOf[u].buf} \ {NoBuf})
  /\ bufOf' = [bufOf EXCEPT ![u] = [pc |-> "idle", buf |-> NoBuf]]
  /\ UNCHANGED <<bufFree, allocated>>

BufProgress == \E u \in BufUser : BufReturn(u) \/ BufResume(u)

BufNext ==
  \/ BufProgress
  \/ \E u \in BufUser : \/ BufTakeFree(u) \/ BufAllocate(u) \/ BufAllocateFails(u)
                        \/ BufWait(u) \/ BufDropped(u)

BufSpec == BufInit /\ [][BufNext]_bufVars

-----------------------------------------------------------------------------
\* Every buffer that counts as allocated is free, held by one task or lost with a
\* dropped future, and the count never passes the limit (acquire, return_inner).
BufAccounted ==
  /\ allocated = Cardinality(bufFree) + Cardinality(Held) + Cardinality(bufLost)
  /\ allocated <= BufCap
  /\ \A u, v \in BufUser : u # v /\ bufOf[u].buf = bufOf[v].buf => bufOf[u].buf = NoBuf

\* Whoever waits is served as long as tasks return what they use and no buffer was
\* lost: the hand-over passes over dropped waiters and loses nobody (return_inner).
BufServed ==
  \A u \in BufUser : (bufOf[u].pc = "waiting") ~> (bufOf[u].pc # "waiting" \/ bufLost # {})
=============================================================================
