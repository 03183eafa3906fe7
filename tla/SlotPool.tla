------------------------------- MODULE SlotPool -------------------------------
(***************************************************************************)
(* What the slab's slot pool promises (openlake_io/src/kv.rs), without its *)
(* data structures: which slots are free, reserved (pending) or bound to a *)
(* key, and the two indexes between bound slots and keys.  The order in    *)
(* which free slots are handed out and bound ones are evicted is left open *)
(* here; SlotPoolList adds the free queue and the LRU list.                *)
(*                                                                         *)
(* Each operation runs under one RefCell borrow and is one action.  A      *)
(* deadline only matters once it has passed: Expire moves a reservation to *)
(* expired, and reserve reclaims what it finds there.  An index past the   *)
(* last slot is in no map, so commit and release do with it what they do   *)
(* with a free slot: nothing.                                              *)
(***************************************************************************)
EXTENDS SlabConstants

VARIABLES
  free,      \* slots in the free queue
  pending,   \* slots with a reservation
  expired,   \* the reservations whose deadline has passed
  bySlot,    \* the key a slot is bound to
  byHash     \* the slot a key is bound to

poolVars == <<free, pending, expired, bySlot, byHash>>

Bound == {s \in Slot : bySlot[s] # NoKey}

\* The pool's sets, indexes and reservations range over its slots and keys,
\* and only a reservation can have expired.
PoolTypeOK ==
  /\ free \subseteq Slot
  /\ pending \subseteq Slot
  /\ expired \subseteq pending
  /\ bySlot \in [Slot -> Key \cup {NoKey}]
  /\ byHash \in [Key -> Slot \cup {Nil}]

PoolInit ==
  /\ free = Slot
  /\ pending = {}
  /\ expired = {}
  /\ bySlot = [s \in Slot |-> NoKey]
  /\ byHash = [k \in Key |-> Nil]

\* Drop the bindings of the slots in S from both indexes.
Unbind(S) ==
  /\ bySlot' = [s \in Slot |-> IF s \in S THEN NoKey ELSE bySlot[s]]
  /\ byHash' = [k \in Key |->
                  IF \E s \in S : bySlot[s] = k THEN Nil ELSE byHash[k]]

\* What reserve(n) can hand out before it evicts: the free slots, and the
\* expired reservations when those are too few.
Reclaimed(n) == IF Cardinality(free) < n THEN expired ELSE {}

(***************************************************************************)
(* reserve(n) hands out the slots in out: n of them, or every slot without *)
(* a live reservation when those are fewer.  It evicts bound slots only    *)
(* once the free queue is exhausted.                                       *)
(***************************************************************************)
Reserve(n, out) ==
  LET pool == free \cup Reclaimed(n)
      evicted == out \ pool
  IN  /\ out \subseteq pool \cup Bound
      /\ \/ Cardinality(out) = n
         \/ Cardinality(out) < n /\ out = pool \cup Bound
      /\ evicted # {} => pool \subseteq out
      /\ free' = pool \ out
      /\ pending' = (pending \ Reclaimed(n)) \cup out
      /\ expired' = expired \ Reclaimed(n)
      /\ Unbind(evicted)

(***************************************************************************)
(* commit(s, k) binds a reserved slot; the slot k was bound to before is   *)
(* freed.  A repeated commit is accepted, and one without a reservation is *)
(* refused, both without a change (the LRU order apart).                   *)
(***************************************************************************)
Commit(s, k) ==
  \/ /\ bySlot[s] = k
     /\ pending' = pending \ {s}
     /\ expired' = expired \ {s}
     /\ UNCHANGED <<free, bySlot, byHash>>
  \/ /\ bySlot[s] # k
     /\ s \notin pending
     /\ UNCHANGED poolVars
  \/ /\ s \in pending
     /\ bySlot[s] # k
     /\ pending' = pending \ {s}
     /\ expired' = expired \ {s}
     /\ free' = IF byHash[k] = Nil THEN free ELSE free \cup {byHash[k]}
     /\ bySlot' = [t \in Slot |-> IF t = byHash[k] THEN NoKey
                                  ELSE IF t = s THEN k ELSE bySlot[t]]
     /\ byHash' = [byHash EXCEPT ![k] = s]

\* release(s) frees a bound or reserved slot, and does nothing to another.
Release(s) ==
  \/ /\ s \in Bound
     /\ free' = free \cup {s}
     /\ Unbind({s})
     /\ UNCHANGED <<pending, expired>>
  \/ /\ s \in pending \ Bound
     /\ free' = free \cup {s}
     /\ pending' = pending \ {s}
     /\ expired' = expired \ {s}
     /\ UNCHANGED <<bySlot, byHash>>
  \/ /\ s \notin pending \cup Bound
     /\ UNCHANGED poolVars

\* clear() forgets reservations and bindings.
Clear ==
  /\ free' = Slot
  /\ pending' = {}
  /\ expired' = {}
  /\ bySlot' = [s \in Slot |-> NoKey]
  /\ byHash' = [k \in Key |-> Nil]

\* Instant::now() reaches the deadline of a reservation.
Expire(s) ==
  /\ s \in pending \ expired
  /\ expired' = expired \cup {s}
  /\ UNCHANGED <<free, pending, bySlot, byHash>>

PoolNext ==
  \/ \E n \in 0..MaxBatch, out \in SUBSET Slot : Reserve(n, out)
  \/ \E s \in Slot, k \in Key : Commit(s, k)
  \/ \E s \in Slot : Release(s) \/ Expire(s)
  \/ Clear

PoolSpec == PoolInit /\ [][PoolNext]_poolVars

-----------------------------------------------------------------------------
(***************************************************************************)
(* Every slot is in exactly one place: the free queue, a reservation or a  *)
(* binding.  A slot in two would be handed to two writers; a slot in none  *)
(* is lost until the next reset.                                           *)
(***************************************************************************)
Partition ==
  /\ free \cap pending = {}
  /\ free \cap Bound = {}
  /\ pending \cap Bound = {}
  /\ Slot = free \cup pending \cup Bound

(***************************************************************************)
(* by_hash and by_slot are inverses of each other: a lookup never returns  *)
(* a slot that has been given to another key, and evicting a slot removes  *)
(* its own key and no other.                                               *)
(***************************************************************************)
IndexesAgree ==
  \A s \in Slot, k \in Key : byHash[k] = s <=> bySlot[s] = k

=============================================================================
