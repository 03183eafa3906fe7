---------------------------- MODULE SlotPoolProofs ----------------------------
(***************************************************************************)
(* The pool's bookkeeping for every slab size, key set and batch size.     *)
(***************************************************************************)
EXTENDS SlotPool, TLAPS

\* The inductive invariant: Partition alone is not inductive, since commit
\* frees the slot by_hash names and evictions empty by_slot.
PoolInv == PoolTypeOK /\ Partition /\ IndexesAgree

LEMMA InitInv == PoolInit => PoolInv
BY PoolAssumption DEF PoolInit, PoolInv, PoolTypeOK, Partition, IndexesAgree, Bound

\* Dropping the bindings of S empties by_slot on S and keeps the rest, and
\* leaves the two indexes inverses of each other.
LEMMA UnbindKeepsIndexes ==
  ASSUME PoolInv, NEW S \in SUBSET Slot, Unbind(S)
  PROVE  /\ bySlot' \in [Slot -> Key \cup {NoKey}]
         /\ byHash' \in [Key -> Slot \cup {Nil}]
         /\ Bound' = Bound \ S
         /\ IndexesAgree'
<1>1. bySlot' \in [Slot -> Key \cup {NoKey}] /\ byHash' \in [Key -> Slot \cup {Nil}]
  BY DEF PoolInv, PoolTypeOK, Unbind
<1>2. Bound' = Bound \ S
  BY DEF Bound, Unbind
<1>3. ASSUME NEW s \in Slot, NEW k \in Key
      PROVE  byHash'[k] = s <=> bySlot'[s] = k
  BY PoolAssumption DEF PoolInv, PoolTypeOK, IndexesAgree, Unbind
<1> QED BY <1>1, <1>2, <1>3 DEF IndexesAgree

LEMMA ReserveInv ==
  ASSUME PoolInv, NEW n \in 0..MaxBatch, NEW out \in SUBSET Slot, Reserve(n, out)
  PROVE  PoolInv'
<1> DEFINE src == free \cup Reclaimed(n)
           evicted == out \ src
<1>1. /\ free' = src \ out
      /\ pending' = (pending \ Reclaimed(n)) \cup out
      /\ expired' = expired \ Reclaimed(n)
      /\ out \subseteq src \cup Bound
      /\ evicted # {} => src \subseteq out
      /\ Unbind(evicted)
  BY DEF Reserve
<1>2. Reclaimed(n) \subseteq expired /\ Reclaimed(n) \in {expired, {}}
  BY DEF Reclaimed
<1>3. /\ bySlot' \in [Slot -> Key \cup {NoKey}]
      /\ byHash' \in [Key -> Slot \cup {Nil}]
      /\ Bound' = Bound \ evicted
      /\ IndexesAgree'
  BY <1>1, UnbindKeepsIndexes
<1> HIDE DEF evicted
<1>4. evicted = out \ src
  BY DEF evicted
<1>5. PoolTypeOK'
  BY <1>1, <1>2, <1>3 DEF PoolInv, PoolTypeOK
<1>6. Partition'
  BY <1>1, <1>2, <1>3, <1>4 DEF PoolInv, PoolTypeOK, Partition, Bound
<1> QED BY <1>3, <1>5, <1>6 DEF PoolInv

LEMMA CommitInv ==
  ASSUME PoolInv, NEW s \in Slot, NEW k \in Key, Commit(s, k)
  PROVE  PoolInv'
<1> USE DEF PoolInv
<1>1. CASE bySlot[s] = k
  <2>1. s \in Bound /\ s \notin pending
    BY <1>1, PoolAssumption DEF Partition, Bound
  <2>2. UNCHANGED poolVars
    BY <1>1, <2>1 DEF Commit, PoolTypeOK, poolVars
  <2> QED BY <2>2 DEF PoolTypeOK, Partition, IndexesAgree, Bound, poolVars
<1>2. CASE UNCHANGED poolVars
  BY <1>2 DEF PoolTypeOK, Partition, IndexesAgree, Bound, poolVars
<1>3. CASE bySlot[s] # k /\ s \in pending
  <2>1. /\ pending' = pending \ {s}
        /\ expired' = expired \ {s}
        /\ free' = IF byHash[k] = Nil THEN free ELSE free \cup {byHash[k]}
        /\ bySlot' = [t \in Slot |-> IF t = byHash[k] THEN NoKey
                                     ELSE IF t = s THEN k ELSE bySlot[t]]
        /\ byHash' = [byHash EXCEPT ![k] = s]
    BY <1>3 DEF Commit
  <2>2. PoolTypeOK'
    BY <2>1 DEF PoolTypeOK
  <2>3. /\ byHash[k] # s
        /\ bySlot[s] = NoKey
        /\ byHash[k] # Nil => byHash[k] \in Bound
    BY <1>3, PoolAssumption DEF PoolTypeOK, IndexesAgree, Partition, Bound
  <2>4. IndexesAgree'
    <3> SUFFICES ASSUME NEW t \in Slot, NEW l \in Key
                 PROVE  byHash'[l] = t <=> bySlot'[t] = l
      BY DEF IndexesAgree
    <3> QED BY <2>1, <2>3, PoolAssumption DEF PoolTypeOK, IndexesAgree
  <2>5. Bound' = (Bound \ {byHash[k]}) \cup {s}
    BY <2>1, <2>3, PoolAssumption DEF Bound, PoolTypeOK
  <2>6. Partition'
    <3>1. CASE byHash[k] = Nil
      BY <1>3, <2>1, <2>5, <3>1, PoolAssumption DEF Partition, PoolTypeOK, Bound
    <3>2. CASE byHash[k] # Nil
      BY <1>3, <2>1, <2>3, <2>5, <3>2 DEF Partition, PoolTypeOK
    <3> QED BY <3>1, <3>2
  <2> QED BY <2>2, <2>4, <2>6
<1> QED BY <1>1, <1>2, <1>3 DEF Commit

LEMMA ReleaseInv ==
  ASSUME PoolInv, NEW s \in Slot, Release(s)
  PROVE  PoolInv'
<1>1. CASE s \in Bound
  <2>1. free' = free \cup {s} /\ Unbind({s}) /\ UNCHANGED <<pending, expired>>
    BY <1>1 DEF Release
  <2>2. /\ bySlot' \in [Slot -> Key \cup {NoKey}]
        /\ byHash' \in [Key -> Slot \cup {Nil}]
        /\ Bound' = Bound \ {s}
        /\ IndexesAgree'
    BY <2>1, UnbindKeepsIndexes
  <2>3. PoolTypeOK' /\ Partition'
    BY <1>1, <2>1, <2>2 DEF PoolInv, PoolTypeOK, Partition
  <2> QED BY <2>2, <2>3 DEF PoolInv
<1>2. CASE s \in pending \ Bound
  <2>1. /\ free' = free \cup {s}
        /\ pending' = pending \ {s}
        /\ expired' = expired \ {s}
        /\ UNCHANGED <<bySlot, byHash>>
    BY <1>2 DEF Release
  <2> QED BY <1>2, <2>1 DEF PoolInv, PoolTypeOK, Partition, IndexesAgree, Bound
<1>3. CASE UNCHANGED poolVars
  BY <1>3 DEF PoolInv, PoolTypeOK, Partition, IndexesAgree, Bound, poolVars
<1> QED BY <1>1, <1>2, <1>3 DEF Release

LEMMA ClearInv == PoolInv /\ Clear => PoolInv'
BY PoolAssumption DEF Clear, PoolInv, PoolTypeOK, Partition, IndexesAgree, Bound

LEMMA ExpireInv ==
  ASSUME PoolInv, NEW s \in Slot, Expire(s)
  PROVE  PoolInv'
BY DEF Expire, PoolInv, PoolTypeOK, Partition, IndexesAgree, Bound

\* PoolInv holds in every state of every slab.
LEMMA PoolInvariant == PoolSpec => []PoolInv
<1>1. PoolInv /\ [PoolNext]_poolVars => PoolInv'
  <2> SUFFICES ASSUME PoolInv, [PoolNext]_poolVars PROVE PoolInv'
    OBVIOUS
  <2>1. CASE UNCHANGED poolVars
    BY <2>1 DEF PoolInv, PoolTypeOK, Partition, IndexesAgree, Bound, poolVars
  <2>2. CASE PoolNext
    BY <2>2, ReserveInv, CommitInv, ReleaseInv, ClearInv, ExpireInv DEF PoolNext
  <2> QED BY <2>1, <2>2
<1> QED BY InitInv, <1>1, PTL DEF PoolSpec

\* The pool's state keeps its types: reservations, deadlines and both indexes
\* name slots and keys only, whatever reserve, commit, release and clear do.
THEOREM PoolTypes == PoolSpec => []PoolTypeOK
<1>1. PoolInv => PoolTypeOK
  BY DEF PoolInv
<1> QED BY <1>1, PoolInvariant, PTL

\* No slot is ever lost or in two places: each is free, reserved or bound,
\* however reserve, commit, release, clear and deadlines interleave.
THEOREM SlotsPartitioned == PoolSpec => []Partition
<1>1. PoolInv => Partition
  BY DEF PoolInv
<1> QED BY <1>1, PoolInvariant, PTL

\* by_hash and by_slot stay inverses of each other.
THEOREM IndexesInverse == PoolSpec => []IndexesAgree
<1>1. PoolInv => IndexesAgree
  BY DEF PoolInv
<1> QED BY <1>1, PoolInvariant, PTL
=============================================================================
