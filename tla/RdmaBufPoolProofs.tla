-------------------------- MODULE RdmaBufPoolProofs ---------------------------
(***************************************************************************)
(* The pool of registered buffers, for every number of tasks and every     *)
(* limit.                                                                  *)
(***************************************************************************)
EXTENDS RdmaBufPool, FiniteSetTheorems, SequenceTheorems, TLAPS

\* BufAccounted is not inductive: a return is only sound if the waiter it serves
\* holds nothing, so the invariant says who may be in the queue, and that free,
\* held and lost buffers are distinct.
Waiter == [user : BufUser, live : BOOLEAN]

BufTypes ==
  /\ bufFree \in SUBSET Buf /\ bufLost \in SUBSET Buf
  /\ allocated \in Nat
  /\ bufWaiters \in Seq(Waiter)
  /\ bufOf \in [BufUser -> [pc : {"idle", "waiting", "handed", "using"}, buf : Buf \cup {NoBuf}]]

BufApart ==
  /\ bufFree \cap bufLost = {}
  /\ \A u \in BufUser : bufOf[u].buf \notin bufFree /\ bufOf[u].buf \notin bufLost

OneHolder ==
  /\ \A u \in BufUser : bufOf[u].pc \in {"handed", "using"} <=> bufOf[u].buf # NoBuf
  /\ \A u, v \in BufUser : u # v /\ bufOf[u].buf = bufOf[v].buf => bufOf[u].buf = NoBuf

WaitersWait ==
  \A j \in 1..Len(bufWaiters) : bufWaiters[j].live =>
    /\ bufOf[bufWaiters[j].user].pc = "waiting"
    /\ \A k \in 1..Len(bufWaiters) :
         bufWaiters[k].live /\ bufWaiters[k].user = bufWaiters[j].user => k = j

BufCounted ==
  /\ allocated = Cardinality(bufFree) + Cardinality(Held) + Cardinality(bufLost)
  /\ allocated <= BufCap

BufInv == BufTypes /\ BufApart /\ OneHolder /\ WaitersWait /\ BufCounted

LEMMA BufFinite == ASSUME BufInv
                   PROVE  /\ IsFiniteSet(bufFree) /\ IsFiniteSet(Held) /\ IsFiniteSet(bufLost)
                          /\ Cardinality(bufFree) \in Nat /\ Cardinality(Held) \in Nat
                          /\ Cardinality(bufLost) \in Nat
<1>1. IsFiniteSet(Buf)
  BY BufCapNat, FS_Interval DEF Buf
<1>2. bufFree \in SUBSET Buf /\ Held \in SUBSET Buf /\ bufLost \in SUBSET Buf
  BY DEF BufInv, BufTypes, Held
<1> QED BY <1>1, <1>2, FS_Subset, FS_CardinalityType

\* What the steps below use of the queue's type.
LEMMA WaitersTyped ==
  ASSUME BufInv
  PROVE  /\ Len(bufWaiters) \in Nat /\ DOMAIN bufWaiters = 1..Len(bufWaiters)
         /\ \A j \in 1..Len(bufWaiters) : bufWaiters[j] \in Waiter /\ bufWaiters[j].user \in BufUser
<1>1. bufWaiters \in Seq(Waiter)
  BY DEF BufInv, BufTypes
<1>2. Len(bufWaiters) \in Nat /\ DOMAIN bufWaiters = 1..Len(bufWaiters)
  BY <1>1
<1>3. \A j \in 1..Len(bufWaiters) : bufWaiters[j] \in Waiter
  BY <1>1
<1>4. \A x \in Waiter : x.user \in BufUser
  BY DEF Waiter
<1> QED BY <1>2, <1>3, <1>4

LEMMA NoBufOutside == BufInv => NoBuf \notin bufFree /\ NoBuf \notin bufLost /\ NoBuf \notin Buf
BY DEF BufInv, BufTypes, Buf, NoBuf

LEMMA BufInitInv == BufInit => BufInv
<1> SUFFICES ASSUME BufInit PROVE BufInv
  OBVIOUS
<1>1. BufTypes
  BY DEF BufInit, BufTypes
<1>2. BufApart
  BY DEF BufInit, BufApart
<1>6. OneHolder
  BY DEF BufInit, OneHolder
<1>3. WaitersWait
  BY DEF BufInit, WaitersWait
<1>4. Held = {}
  BY DEF BufInit, Held
<1>5. BufCounted
  BY <1>4, FS_EmptySet, BufCapNat DEF BufInit, BufCounted
<1> QED BY <1>1, <1>2, <1>3, <1>5, <1>6 DEF BufInv

\* A task that holds nothing is given a buffer nobody holds: Held gains it.
LEMMA BufGiven ==
  ASSUME BufInv, NEW u \in BufUser, NEW b \in Buf, b \notin Held,
         bufOf[u].pc = "idle", bufOf' = Using(u, b), UNCHANGED bufWaiters
  PROVE  /\ bufOf' \in [BufUser -> [pc : {"idle", "waiting", "handed", "using"}, buf : Buf \cup {NoBuf}]]
         /\ \A v \in BufUser : bufOf'[v] = IF v = u THEN [pc |-> "using", buf |-> b] ELSE bufOf[v]
         /\ \A v \in BufUser : bufOf[v].buf # b
         /\ Cardinality(Held') = Cardinality(Held) + 1
         /\ OneHolder' /\ WaitersWait'
<1>0. b # NoBuf
  BY DEF Buf, NoBuf
<1>1. /\ bufOf' \in [BufUser -> [pc : {"idle", "waiting", "handed", "using"}, buf : Buf \cup {NoBuf}]]
      /\ \A v \in BufUser : bufOf'[v] = IF v = u THEN [pc |-> "using", buf |-> b] ELSE bufOf[v]
  BY DEF BufInv, BufTypes, Using
<1>2. \A v \in BufUser : bufOf[v].buf # b
  BY <1>0 DEF Held
<1>3. bufOf[u].buf = NoBuf
  BY DEF BufInv, OneHolder
<1>4. Held' = Held \cup {b}
  BY <1>0, <1>1, <1>3 DEF Held
<1>5. Cardinality(Held') = Cardinality(Held) + 1
  BY <1>4, BufFinite, FS_AddElement, Zenon
<1>6. WaitersWait'
  <2>1. \A j \in 1..Len(bufWaiters) : bufWaiters[j].live => bufWaiters[j].user # u
    BY DEF BufInv, WaitersWait
  <2> QED BY <1>1, <2>1, WaitersTyped DEF BufInv, WaitersWait
<1>7. OneHolder'
  BY <1>0, <1>1, <1>2 DEF BufInv, OneHolder
<1> QED BY <1>1, <1>2, <1>5, <1>6, <1>7

LEMMA BufTakeFreeInv == ASSUME BufInv, NEW u \in BufUser, BufTakeFree(u) PROVE BufInv'
<1> PICK b \in bufFree : bufFree' = bufFree \ {b} /\ bufOf' = Using(u, b)
  BY DEF BufTakeFree
<1>1. /\ bufOf[u].pc = "idle" /\ b \in Buf
      /\ UNCHANGED <<bufWaiters, allocated, bufLost>>
  BY DEF BufTakeFree, BufInv, BufTypes
<1>2. b \notin Held
  BY DEF BufInv, BufApart, Held
<1>3. /\ bufOf' \in [BufUser -> [pc : {"idle", "waiting", "handed", "using"}, buf : Buf \cup {NoBuf}]]
      /\ \A v \in BufUser : bufOf'[v] = IF v = u THEN [pc |-> "using", buf |-> b] ELSE bufOf[v]
      /\ \A v \in BufUser : bufOf[v].buf # b
      /\ Cardinality(Held') = Cardinality(Held) + 1
      /\ OneHolder' /\ WaitersWait'
  BY <1>1, <1>2, BufGiven
<1>4. BufTypes'
  BY <1>1, <1>3 DEF BufInv, BufTypes
<1>5. BufApart'
  <2>1. /\ bufFree' \cap bufLost' = {} /\ b \notin bufFree' /\ b \notin bufLost'
        /\ \A v \in BufUser : bufOf[v].buf \notin bufFree' /\ bufOf[v].buf \notin bufLost'
    BY <1>1 DEF BufInv, BufApart
  <2> QED BY <1>3, <2>1 DEF BufApart
<1>6. Cardinality(bufFree') = Cardinality(bufFree) - 1
  BY BufFinite, FS_RemoveElement, Zenon
<1>7. BufCounted'
  BY <1>1, <1>3, <1>6, BufFinite, BufCapNat DEF BufInv, BufTypes, BufCounted
<1> QED BY <1>3, <1>4, <1>5, <1>7 DEF BufInv

LEMMA BufAllocateInv == ASSUME BufInv, NEW u \in BufUser, BufAllocate(u) PROVE BufInv'
<1> PICK b \in Buf \ (Held \cup bufLost) : bufOf' = Using(u, b)
  BY DEF BufAllocate
<1>1. /\ bufOf[u].pc = "idle" /\ bufFree = {} /\ allocated < BufCap
      /\ allocated' = allocated + 1
      /\ UNCHANGED <<bufFree, bufWaiters, bufLost>>
  BY DEF BufAllocate
<1>3. /\ bufOf' \in [BufUser -> [pc : {"idle", "waiting", "handed", "using"}, buf : Buf \cup {NoBuf}]]
      /\ \A v \in BufUser : bufOf'[v] = IF v = u THEN [pc |-> "using", buf |-> b] ELSE bufOf[v]
      /\ \A v \in BufUser : bufOf[v].buf # b
      /\ Cardinality(Held') = Cardinality(Held) + 1
      /\ OneHolder' /\ WaitersWait'
  BY <1>1, BufGiven
<1>4. BufTypes'
  BY <1>1, <1>3 DEF BufInv, BufTypes
<1>5. BufApart'
  <2>1. /\ bufFree' = {} /\ b \notin bufLost'
        /\ \A v \in BufUser : bufOf[v].buf \notin bufLost'
    BY <1>1 DEF BufInv, BufApart
  <2> QED BY <1>3, <2>1 DEF BufApart
<1>7. BufCounted'
  <2>1. allocated = Cardinality(bufFree) + Cardinality(Held) + Cardinality(bufLost)
    BY DEF BufInv, BufCounted
  <2>2. allocated' = Cardinality(bufFree) + (Cardinality(Held) + 1) + Cardinality(bufLost)
    BY <1>1, <2>1, BufFinite
  <2>3. allocated' <= BufCap
    BY <1>1, BufCapNat DEF BufInv, BufTypes
  <2> QED BY <1>1, <1>3, <2>2, <2>3 DEF BufCounted
<1> QED BY <1>3, <1>4, <1>5, <1>7 DEF BufInv

LEMMA BufWaitInv == ASSUME BufInv, NEW u \in BufUser, BufWait(u) PROVE BufInv'
<1> DEFINE w == [user |-> u, live |-> TRUE]
<1>1. /\ bufOf[u].pc = "idle"
      /\ bufWaiters' = Append(bufWaiters, w)
      /\ bufOf' = [bufOf EXCEPT ![u].pc = "waiting"]
      /\ UNCHANGED <<bufFree, allocated, bufLost>>
  BY DEF BufWait
<1>2. bufWaiters \in Seq(Waiter) /\ w \in Waiter
  BY DEF BufInv, BufTypes, Waiter
<1>3. /\ bufOf' \in [BufUser -> [pc : {"idle", "waiting", "handed", "using"}, buf : Buf \cup {NoBuf}]]
      /\ \A v \in BufUser : bufOf'[v] = IF v = u THEN [pc |-> "waiting", buf |-> bufOf[u].buf] ELSE bufOf[v]
  BY <1>1 DEF BufInv, BufTypes
<1>4. BufTypes'
  BY <1>1, <1>2, <1>3 DEF BufInv, BufTypes
<1>5. BufApart'
  BY <1>1, <1>3 DEF BufInv, BufApart
<1>11. OneHolder'
  BY <1>1, <1>3 DEF BufInv, OneHolder
<1>6. Held' = Held
  BY <1>3 DEF Held
<1>7. BufCounted'
  BY <1>1, <1>6 DEF BufInv, BufCounted
<1>8. /\ Len(bufWaiters') = Len(bufWaiters) + 1 /\ Len(bufWaiters) \in Nat
      /\ \A j \in 1..Len(bufWaiters) : bufWaiters'[j] = bufWaiters[j] /\ bufWaiters[j] \in Waiter
      /\ bufWaiters'[Len(bufWaiters) + 1] = w
  BY <1>1, <1>2
<1>9. \A j \in 1..Len(bufWaiters) : bufWaiters[j].live => bufWaiters[j].user # u
  BY <1>1 DEF BufInv, WaitersWait
<1>10. WaitersWait'
  BY <1>3, <1>8, <1>9 DEF BufInv, WaitersWait, Waiter
<1> QED BY <1>4, <1>5, <1>7, <1>10, <1>11 DEF BufInv

LEMMA BufReturnInv == ASSUME BufInv, NEW u \in BufUser, BufReturn(u) PROVE BufInv'
<1> DEFINE b == bufOf[u].buf
<1>1. /\ bufOf[u].pc = "using" /\ b \in Buf /\ b # NoBuf
      /\ UNCHANGED <<allocated, bufLost>>
  BY DEF BufReturn, BufInv, BufTypes, OneHolder
<1>2. CASE /\ bufWaiters' = <<>>
           /\ bufFree' = bufFree \cup {b}
           /\ bufOf' = [bufOf EXCEPT ![u] = [pc |-> "idle", buf |-> NoBuf]]
  <2>1. /\ bufOf' \in [BufUser -> [pc : {"idle", "waiting", "handed", "using"}, buf : Buf \cup {NoBuf}]]
        /\ \A v \in BufUser : bufOf'[v] = IF v = u THEN [pc |-> "idle", buf |-> NoBuf] ELSE bufOf[v]
    BY <1>2 DEF BufInv, BufTypes
  <2>2. BufTypes'
    BY <1>1, <1>2, <2>1 DEF BufInv, BufTypes
  <2>3. BufApart'
    <3>1. /\ bufFree' \cap bufLost' = {} /\ NoBuf \notin bufFree' /\ NoBuf \notin bufLost'
          /\ \A v \in BufUser : v # u => bufOf[v].buf \notin bufFree' /\ bufOf[v].buf \notin bufLost'
      BY <1>1, <1>2, NoBufOutside DEF BufInv, BufApart, OneHolder
    <3> QED BY <2>1, <3>1 DEF BufApart
  <2>9. OneHolder'
    BY <2>1 DEF BufInv, OneHolder
  <2>4. WaitersWait'
    BY <1>2 DEF WaitersWait
  <2>5. Held' = Held \ {b}
    BY <1>1, <2>1 DEF Held, BufInv, OneHolder
  <2>6. b \in Held /\ b \notin bufFree
    BY <1>1 DEF Held, BufInv, BufApart
  <2>7. /\ Cardinality(Held') = Cardinality(Held) - 1
        /\ Cardinality(bufFree') = Cardinality(bufFree) + 1
    BY <1>2, <2>5, <2>6, BufFinite, FS_AddElement, FS_RemoveElement, Zenon
  <2>8. BufCounted'
    BY <1>1, <2>7, BufFinite DEF BufInv, BufTypes, BufCounted
  <2> QED BY <2>2, <2>3, <2>4, <2>8, <2>9 DEF BufInv
<1>3. ASSUME NEW k \in DOMAIN bufWaiters, Heir(k),
             bufWaiters' = SubSeq(bufWaiters, k + 1, Len(bufWaiters)),
             bufOf' = [bufOf EXCEPT ![u] = [pc |-> "idle", buf |-> NoBuf],
                                    ![bufWaiters[k].user] = [pc |-> "handed", buf |-> b]],
             UNCHANGED bufFree
      PROVE  BufInv'
  <2> DEFINE w == bufWaiters[k].user
  <2>1. /\ bufWaiters \in Seq(Waiter) /\ k \in 1..Len(bufWaiters) /\ Len(bufWaiters) \in Nat
        /\ \A j \in 1..Len(bufWaiters) : bufWaiters[j] \in Waiter
    BY DEF BufInv, BufTypes
  <2>2. w \in BufUser /\ bufOf[w].pc = "waiting" /\ w # u /\ bufWaiters[k].live
    BY <1>1, <1>3, <2>1, WaitersTyped DEF BufInv, WaitersWait, Heir
  <2>3. /\ bufOf' \in [BufUser -> [pc : {"idle", "waiting", "handed", "using"}, buf : Buf \cup {NoBuf}]]
        /\ \A v \in BufUser : bufOf'[v] = IF v = w THEN [pc |-> "handed", buf |-> b]
                                          ELSE IF v = u THEN [pc |-> "idle", buf |-> NoBuf] ELSE bufOf[v]
    BY <1>1, <1>3, <2>2 DEF BufInv, BufTypes
  <2>4. /\ bufWaiters' \in Seq(Waiter) /\ Len(bufWaiters') = Len(bufWaiters) - k
        /\ \A j \in 1..Len(bufWaiters') : bufWaiters'[j] = bufWaiters[k + j]
    BY <1>3, <2>1
  <2>5. BufTypes'
    BY <1>1, <1>3, <2>3, <2>4, Zenon DEF BufInv, BufTypes
  <2>6. bufOf[w].buf = NoBuf
    BY <2>2 DEF BufInv, OneHolder
  <2>7. BufApart'
    <3>1. \A v \in BufUser : bufOf'[v].buf \in {bufOf[v].buf, b, NoBuf}
      BY <2>3
    <3>2. /\ bufFree \cap bufLost = {} /\ b \notin bufFree /\ b \notin bufLost
          /\ NoBuf \notin bufFree /\ NoBuf \notin bufLost
          /\ \A v \in BufUser : bufOf[v].buf \notin bufFree /\ bufOf[v].buf \notin bufLost
      BY NoBufOutside DEF BufInv, BufApart
    <3>3. bufFree' = bufFree /\ bufLost' = bufLost
      BY <1>1, <1>3
    <3> QED BY <3>1, <3>2, <3>3 DEF BufApart
  <2>12. OneHolder'
    BY <1>1, <2>2, <2>3, <2>6 DEF BufInv, OneHolder
  <2>8. Held' = Held
    BY <1>1, <2>2, <2>3, <2>6 DEF Held
  <2>9. BufCounted'
    BY <1>1, <1>3, <2>8 DEF BufInv, BufCounted
  <2>10. \A j \in (k + 1)..Len(bufWaiters) : bufWaiters[j].live =>
           bufWaiters[j].user # w /\ bufWaiters[j].user # u /\ bufWaiters[j].user \in BufUser
    <3> SUFFICES ASSUME NEW j \in (k + 1)..Len(bufWaiters), bufWaiters[j].live
                 PROVE  bufWaiters[j].user # w /\ bufWaiters[j].user # u /\ bufWaiters[j].user \in BufUser
      OBVIOUS
    <3>1. j \in 1..Len(bufWaiters) /\ j # k
      BY <2>1
    <3> QED BY <1>1, <2>1, <2>2, <3>1, WaitersTyped DEF BufInv, WaitersWait
  <2>11. WaitersWait'
    <3> SUFFICES ASSUME NEW j \in 1..Len(bufWaiters'), bufWaiters'[j].live
                 PROVE  /\ bufOf'[bufWaiters'[j].user].pc = "waiting"
                        /\ \A i \in 1..Len(bufWaiters') :
                             bufWaiters'[i].live /\ bufWaiters'[i].user = bufWaiters'[j].user => i = j
      BY DEF WaitersWait
    <3>1. /\ \A i \in 1..Len(bufWaiters') : bufWaiters'[i] = bufWaiters[k + i]
          /\ \A i \in 1..Len(bufWaiters') : k + i \in (k + 1)..Len(bufWaiters)
          /\ \A i \in 1..Len(bufWaiters') : k + i \in 1..Len(bufWaiters)
          /\ Len(bufWaiters') \in Nat
      BY <2>1, <2>4
    <3>2. bufOf'[bufWaiters'[j].user].pc = "waiting"
      <4>1. bufOf[bufWaiters[k + j].user].pc = "waiting"
        BY <3>1 DEF BufInv, WaitersWait
      <4> QED BY <2>3, <2>10, <3>1, <4>1
    <3>3. ASSUME NEW i \in 1..Len(bufWaiters'),
                 bufWaiters'[i].live, bufWaiters'[i].user = bufWaiters'[j].user
          PROVE  i = j
      <4>1. k + i = k + j
        <5>1. /\ bufWaiters[k + i].live /\ bufWaiters[k + j].live
              /\ bufWaiters[k + i].user = bufWaiters[k + j].user
          BY <3>1, <3>3
        <5>2. k + i \in 1..Len(bufWaiters) /\ k + j \in 1..Len(bufWaiters)
          BY <3>1
        <5> QED BY <5>1, <5>2 DEF BufInv, WaitersWait
      <4> QED BY <2>1, <3>1, <4>1
    <3> QED BY <3>2, <3>3
  <2> QED BY <2>5, <2>7, <2>9, <2>11, <2>12 DEF BufInv
<1> QED BY <1>2, <1>3 DEF BufReturn

LEMMA BufResumeInv == ASSUME BufInv, NEW u \in BufUser, BufResume(u) PROVE BufInv'
<1>1. /\ bufOf[u].pc = "handed" /\ bufOf' = [bufOf EXCEPT ![u].pc = "using"]
      /\ UNCHANGED <<bufFree, bufWaiters, allocated, bufLost>>
  BY DEF BufResume
<1>2. /\ bufOf' \in [BufUser -> [pc : {"idle", "waiting", "handed", "using"}, buf : Buf \cup {NoBuf}]]
      /\ \A v \in BufUser : bufOf'[v] = IF v = u THEN [pc |-> "using", buf |-> bufOf[u].buf] ELSE bufOf[v]
  BY <1>1 DEF BufInv, BufTypes
<1>3. BufTypes'
  BY <1>1, <1>2 DEF BufInv, BufTypes
<1>7. BufApart' /\ OneHolder'
  BY <1>1, <1>2 DEF BufInv, BufApart, OneHolder
<1>4. WaitersWait'
  <2>1. \A j \in 1..Len(bufWaiters) : bufWaiters[j].live => bufWaiters[j].user # u
    BY <1>1 DEF BufInv, WaitersWait
  <2> QED BY <1>1, <1>2, <2>1, WaitersTyped DEF BufInv, WaitersWait
<1>5. Held' = Held
  BY <1>2 DEF Held
<1>6. BufCounted'
  BY <1>1, <1>5 DEF BufInv, BufCounted
<1> QED BY <1>3, <1>4, <1>6, <1>7 DEF BufInv

LEMMA BufDroppedInv == ASSUME BufInv, NEW u \in BufUser, BufDropped(u) PROVE BufInv'
<1> DEFINE b == bufOf[u].buf
<1>1. /\ bufOf[u].pc \in {"waiting", "handed"}
      /\ bufWaiters' = [k \in DOMAIN bufWaiters |->
                      IF bufWaiters[k].user = u THEN [bufWaiters[k] EXCEPT !.live = FALSE]
                      ELSE bufWaiters[k]]
      /\ bufLost' = bufLost \cup ({b} \ {NoBuf})
      /\ bufOf' = [bufOf EXCEPT ![u] = [pc |-> "idle", buf |-> NoBuf]]
      /\ UNCHANGED <<bufFree, allocated>>
  BY DEF BufDropped
<1>2. /\ bufOf' \in [BufUser -> [pc : {"idle", "waiting", "handed", "using"}, buf : Buf \cup {NoBuf}]]
      /\ \A v \in BufUser : bufOf'[v] = IF v = u THEN [pc |-> "idle", buf |-> NoBuf] ELSE bufOf[v]
  BY <1>1 DEF BufInv, BufTypes
<1>3. /\ bufWaiters \in Seq(Waiter) /\ Len(bufWaiters) \in Nat
      /\ DOMAIN bufWaiters = 1..Len(bufWaiters)
      /\ \A j \in 1..Len(bufWaiters) : bufWaiters[j] \in Waiter
  BY DEF BufInv, BufTypes
<1>4. /\ bufWaiters' \in Seq(Waiter) /\ Len(bufWaiters') = Len(bufWaiters)
      /\ \A j \in 1..Len(bufWaiters) :
           /\ bufWaiters'[j].user = bufWaiters[j].user
           /\ bufWaiters'[j].live => bufWaiters[j].live /\ bufWaiters[j].user # u
  <2>1. ASSUME NEW x \in Waiter
        PROVE  /\ [x EXCEPT !.live = FALSE] \in Waiter
               /\ [x EXCEPT !.live = FALSE].user = x.user
               /\ [x EXCEPT !.live = FALSE].live = FALSE
    BY Zenon DEF Waiter
  <2>2. ASSUME NEW j \in 1..Len(bufWaiters)
        PROVE  /\ bufWaiters'[j] \in Waiter
               /\ bufWaiters'[j].user = bufWaiters[j].user
               /\ bufWaiters'[j].live => bufWaiters[j].live /\ bufWaiters[j].user # u
    <3>1. CASE bufWaiters[j].user = u
      <4>1. bufWaiters'[j] = [bufWaiters[j] EXCEPT !.live = FALSE]
        BY <1>1, <1>3, <3>1, Zenon
      <4> QED BY <1>3, <2>1, <4>1, Zenon
    <3>2. CASE bufWaiters[j].user # u
      <4>1. bufWaiters'[j] = bufWaiters[j]
        BY <1>1, <1>3, <3>2, Zenon
      <4> QED BY <1>3, <3>2, <4>1
    <3> QED BY <3>1, <3>2
  <2>3. DOMAIN bufWaiters' = 1..Len(bufWaiters) /\ bufWaiters' = [j \in 1..Len(bufWaiters) |-> bufWaiters'[j]]
    BY <1>1, <1>3, Zenon
  <2>4. bufWaiters' \in [1..Len(bufWaiters) -> Waiter]
    BY <2>2, <2>3, Zenon
  <2>5. bufWaiters' \in Seq(Waiter) /\ Len(bufWaiters') = Len(bufWaiters)
    BY <1>3, <2>4, SeqDef
  <2> QED BY <2>2, <2>5
<1>5. BufTypes'
  BY <1>1, <1>2, <1>4 DEF BufInv, BufTypes
<1>6. BufApart'
  <2>1. /\ bufFree' \cap bufLost' = {} /\ NoBuf \notin bufFree' /\ NoBuf \notin bufLost'
        /\ \A v \in BufUser : v # u => bufOf[v].buf \notin bufFree' /\ bufOf[v].buf \notin bufLost'
    BY <1>1, NoBufOutside DEF BufInv, BufApart, OneHolder
  <2> QED BY <1>2, <2>1 DEF BufApart
<1>7. WaitersWait'
  BY <1>2, <1>3, <1>4, WaitersTyped DEF BufInv, WaitersWait
<1>11. OneHolder'
  BY <1>2 DEF BufInv, OneHolder
<1>8. Held' = Held \ {b}
  BY <1>2 DEF Held, BufInv, OneHolder
<1>9. ASSUME b = NoBuf PROVE BufCounted'
  <2>1. Held' = Held /\ bufLost' = bufLost
    BY <1>1, <1>8, <1>9 DEF Held
  <2> QED BY <1>1, <2>1, Zenon DEF BufInv, BufCounted
<1>10. ASSUME b # NoBuf PROVE BufCounted'
  <2>1. b \in Held /\ b \notin bufLost /\ bufLost' = bufLost \cup {b}
    BY <1>1, <1>10 DEF Held, BufInv, BufApart
  <2>2. /\ Cardinality(Held') = Cardinality(Held) - 1
        /\ Cardinality(bufLost') = Cardinality(bufLost) + 1
    BY <1>8, <2>1, BufFinite, FS_AddElement, FS_RemoveElement, Zenon
  <2> QED BY <1>1, <2>2, BufFinite DEF BufInv, BufTypes, BufCounted
<1> QED BY <1>5, <1>6, <1>7, <1>9, <1>10, <1>11 DEF BufInv

LEMMA BufInvariant == BufSpec => []BufInv
<1>1. BufInv /\ [BufNext]_bufVars => BufInv'
  <2> SUFFICES ASSUME BufInv, [BufNext]_bufVars PROVE BufInv'
    OBVIOUS
  <2>1. ASSUME NEW u \in BufUser, BufAllocateFails(u) PROVE BufInv'
    BY <2>1 DEF BufAllocateFails, AfterFailure, BufInv, BufTypes, BufApart, OneHolder,
                WaitersWait, BufCounted, Held
  <2>2. CASE UNCHANGED bufVars
    BY <2>2 DEF bufVars, BufInv, BufTypes, BufApart, OneHolder, WaitersWait, BufCounted, Held
  <2> QED BY <2>1, <2>2, BufReturnInv, BufResumeInv, BufTakeFreeInv, BufAllocateInv,
             BufWaitInv, BufDroppedInv DEF BufNext, BufProgress
<1> QED BY <1>1, BufInitInv, PTL DEF BufSpec

\* For every number of tasks and every limit, each buffer that counts as allocated
\* is free, held by one task or lost with a dropped future, and the count never
\* passes the limit (RdmaBufPool::acquire, return_inner).
THEOREM BuffersAccounted == BufSpec => []BufAccounted
<1>1. BufInv => BufAccounted
  BY DEF BufInv, BufAccounted, BufCounted, OneHolder
<1> QED BY <1>1, BufInvariant, PTL
=============================================================================
