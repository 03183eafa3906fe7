---------------------------- MODULE SlabConstants -----------------------------
\* What a slab's slot pool is made of (openlake_io/src/kv.rs).
EXTENDS Naturals, FiniteSets

CONSTANTS
  Slot,      \* the slab's slots
  Key,       \* the key hashes
  NoKey,     \* by_slot has no entry
  Nil,       \* by_hash has no entry
  MaxBatch   \* the largest count of one reserve call

ASSUME PoolAssumption ==
  /\ IsFiniteSet(Slot)
  /\ NoKey \notin Key
  /\ Nil \notin Slot
  /\ MaxBatch \in Nat
===============================================================================
