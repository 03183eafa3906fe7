----------------------------- MODULE SlotPoolList -----------------------------
(***************************************************************************)
(* The slot pool as it is coded (openlake_io/src/kv.rs): a FIFO free queue *)
(* and a doubly linked LRU list threaded through the slots, in one record  *)
(* that each operation maps to the next one.  It is shown to implement     *)
(* SlotPool.                                                               *)
(*                                                                         *)
(* used is a history variable: the bound slots by last use, oldest first,  *)
(* kept without reference to the list.                                     *)
(***************************************************************************)
EXTENDS SlabConstants, Sequences, SequencesExt, FiniteSetsExt

VARIABLES
  pool,      \* struct SlotPool, without its deadlines
  expired,   \* the reservations whose deadline has passed
  used       \* history: bound slots, least recently used first

listVars == <<pool, expired, used>>

\* SlotPool::new.  The initial queue is in the order of the indices; which
\* index comes first makes no difference, so the slots may be anything.
New ==
  [free |-> SetToSeq(Slot), pending |-> {},
   bySlot |-> [s \in Slot |-> NoKey], byHash |-> [k \in Key |-> Nil],
   prev |-> [s \in Slot |-> Nil], next |-> [s \in Slot |-> Nil],
   head |-> Nil, tail |-> Nil]

ListInit == pool = New /\ expired = {} /\ used = <<>>

(***************************************************************************)
(* The list.                                                               *)
(***************************************************************************)
AttachTail(p, s) ==
  [p EXCEPT !.prev[s] = p.tail,
            !.next = [t \in Slot |-> IF t = s THEN Nil
                                     ELSE IF t = p.tail THEN s ELSE p.next[t]],
            !.head = IF p.tail = Nil THEN s ELSE @,
            !.tail = s]

\* lru_detach: a slot that is not in the list is recognised by having no
\* predecessor without being the head.
Detach(p, s) ==
  LET before == p.prev[s]
      after == p.next[s]
  IN  IF before = Nil /\ p.head # s THEN p
      ELSE [p EXCEPT
              !.next = [t \in Slot |-> IF t = s THEN Nil
                                       ELSE IF t = before THEN after ELSE p.next[t]],
              !.prev = [t \in Slot |-> IF t = s THEN Nil
                                       ELSE IF t = after THEN before ELSE p.prev[t]],
              !.head = IF before = Nil THEN after ELSE @,
              !.tail = IF after = Nil THEN before ELSE @]

Touch(p, s) == AttachTail(Detach(p, s), s)

(***************************************************************************)
(* The operations on the record.                                           *)
(***************************************************************************)
\* Remove a bound slot from both indexes and from the list.
Drop(p, s) ==
  Detach([p EXCEPT !.bySlot[s] = NoKey, !.byHash[p.bySlot[s]] = Nil], s)

\* Faulty variant of Victim: the wrong end of the list.
VictimNewest(p) == p.tail

\* evict_one takes the least recently used slot.
Victim(p) == p.head

\* One round of reserve's loop, which ends when there is nothing to evict.
TakeOne(p) ==
  LET s == IF p.free # <<>> THEN Head(p.free) ELSE Victim(p)
      q == IF p.free # <<>> THEN [p EXCEPT !.free = Tail(@)] ELSE Drop(p, s)
  IN  IF s = Nil THEN p ELSE [q EXCEPT !.pending = @ \cup {s}]

\* reclaim_expired visits the reservations in the order of a hash map: back
\* is some order of the expired ones.
Reclaim(p, n, back) ==
  IF Len(p.free) < n
  THEN [p EXCEPT !.free = @ \o back, !.pending = @ \ Range(back)]
  ELSE p

Taken(p, n) ==
  LET take[i \in 0..n] == IF i = 0 THEN p ELSE TakeOne(take[i - 1]) IN take[n]

\* commit of a reserved slot that is not bound to k already.
Bind(p, s, k) ==
  LET q == [p EXCEPT !.pending = @ \ {s}, !.bySlot[s] = k, !.byHash[k] = s]
      old == p.byHash[k]
  IN  AttachTail(IF old = Nil THEN q
                 ELSE [Detach([q EXCEPT !.bySlot[old] = NoKey], old)
                         EXCEPT !.free = Append(@, old)], s)

BoundIn(p) == {s \in Slot : p.bySlot[s] # NoKey}

Without(seq, S) == SelectSeq(seq, LAMBDA s : s \notin S)

Use(s) == used' = Append(Without(used, {s}), s)

\* After the step, used holds the slots that are still bound.
Forget == used' = Without(used, Slot \ BoundIn(pool'))

(***************************************************************************)
(* The operations.                                                         *)
(***************************************************************************)
\* Faulty variant of Reserve: expired reservations are reclaimed even if the
\* queue is long enough.
ReserveReclaims(n) ==
  /\ \E back \in SetToSeqs(expired) :
        /\ pool' = Taken(Reclaim(pool, Len(pool.free) + 1, back), n)
        /\ expired' = {}
  /\ Forget

Reserve(n) ==
  /\ \E back \in SetToSeqs(expired) :
        /\ pool' = Taken(Reclaim(pool, n, back), n)
        /\ expired' = IF Len(pool.free) < n THEN {} ELSE expired
  /\ Forget

Commit(s, k) ==
  \/ /\ pool.bySlot[s] = k
     /\ pool' = Touch([pool EXCEPT !.pending = @ \ {s}], s)
     /\ expired' = expired \ {s}
     /\ Use(s)
  \/ /\ pool.bySlot[s] # k
     /\ s \notin pool.pending
     /\ UNCHANGED listVars
  \/ /\ pool.bySlot[s] # k
     /\ s \in pool.pending
     /\ pool' = Bind(pool, s, k)
     /\ expired' = expired \ {s}
     /\ used' = Append(Without(used, {s, pool.byHash[k]}), s)

Lookup(k) ==
  LET s == pool.byHash[k]
  IN  \/ s = Nil /\ UNCHANGED listVars
      \/ /\ s # Nil
         /\ pool' = Touch(pool, s)
         /\ Use(s)
         /\ UNCHANGED expired

Release(s) ==
  \/ /\ s \in BoundIn(pool)
     /\ pool' = [Drop(pool, s) EXCEPT !.free = Append(@, s)]
     /\ Forget
     /\ UNCHANGED expired
  \/ /\ s \in pool.pending \ BoundIn(pool)
     /\ pool' = [pool EXCEPT !.pending = @ \ {s}, !.free = Append(@, s)]
     /\ expired' = expired \ {s}
     /\ UNCHANGED used
  \/ s \notin pool.pending \cup BoundIn(pool) /\ UNCHANGED listVars

Clear == pool' = New /\ expired' = {} /\ used' = <<>>

Expire(s) ==
  /\ s \in pool.pending \ expired
  /\ expired' = expired \cup {s}
  /\ UNCHANGED <<pool, used>>

ListNext ==
  \/ \E n \in 0..MaxBatch : Reserve(n)
  \/ \E s \in Slot, k \in Key : Commit(s, k)
  \/ \E k \in Key : Lookup(k)
  \/ \E s \in Slot : Release(s) \/ Expire(s)
  \/ Clear

ListSpec == ListInit /\ [][ListNext]_listVars

-----------------------------------------------------------------------------
(***************************************************************************)
(* reserve evicts only what it must: when a bound slot becomes reserved,   *)
(* the free queue has run out and the slots that stay bound are the most   *)
(* recently used ones.                                                     *)
(***************************************************************************)
EvictsOldest ==
  [][BoundIn(pool) \cap pool'.pending # {} =>
       pool'.free = <<>> /\ IsSuffix(used', used)]_listVars

Abstract ==
  INSTANCE SlotPool WITH
    free <- Range(pool.free), pending <- pool.pending,
    bySlot <- pool.bySlot, byHash <- pool.byHash

\* The queue and the list implement the pool of SlotPool: every operation of
\* the code is one of its operations, or (lookup) changes nothing it shows.
ImplementsPool == Abstract!PoolSpec
=============================================================================
