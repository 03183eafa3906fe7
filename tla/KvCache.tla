------------------------------- MODULE KvCache --------------------------------
(***************************************************************************)
(* The KV store as its callers see it: a node with its slab, and clients   *)
(* of one of the two protocols.                                            *)
(***************************************************************************)
EXTENDS KvShmClient, KvRdmaClient

KvNext ==
  \/ \E c \in Op : ShmNext(c) \/ RdmaNext(c) \/ Crash(c)
  \/ \E s \in Slot : Expire(s)
  \/ LateServe

\* The calls are over, and so is what they left behind.
KvDone ==
  /\ \A c \in Op : op[c].pc \in {"ok", "failed"}
  /\ late = {}
  /\ pool.pending = expired
  /\ UNCHANGED kvVars

-----------------------------------------------------------------------------
(***************************************************************************)
(* A slot that the index binds to a key holds that key's header and its    *)
(* whole payload, whatever puts were refused, failed, gave up or died, and *)
(* however late their releases and commits arrive.  A slot whose put       *)
(* outlived its reservation (reclaimed after reserve_ttl, or reset) is     *)
(* beyond that promise: commit and release name slots, not reservations.   *)
(***************************************************************************)
BoundIntact ==
  \A s \in Slot \ lost : pool.bySlot[s] # NoKey =>
    \A i \in 0..Strips : mem[s][i] = pool.bySlot[s]

\* How often a slot may be handed out again under a get without harm.
Tolerated == IF transport = "rdma" THEN 1 ELSE 0

(***************************************************************************)
(* A get that reports a hit delivers the payload of its key.  Gets take no *)
(* reservation, so a slot may be evicted and rewritten under them: the     *)
(* RDMA get, which reads the header last, also detects one such rewrite;   *)
(* the shared-memory get, which compares the header first, detects none.   *)
(***************************************************************************)
HitIntact ==
  \A c \in Op : op[c].kind = "get" /\ op[c].pc = "ok" =>
    \A j \in DOMAIN op[c].keys :
      op[c].out[j] = "hit" /\ op[c].age[j] <= Tolerated /\ op[c].slots[j] \notin lost =>
        \A i \in 1..Strips : op[c].buf[j][i] = op[c].keys[j]

\* A get misses only a key that was not cached when it looked, or whose slot
\* has been given away since.
MissJustified ==
  \A c \in Op : op[c].kind = "get" /\ op[c].pc = "ok" =>
    \A j \in DOMAIN op[c].keys :
      op[c].out[j] = "miss" => op[c].slots[j] \in {Nil} \cup lost \/ op[c].age[j] > 0

\* A put that returns success has its keys cached, in slots it was given,
\* unless it outlived its reservation: the node then ignores its commit.
AckedCached ==
  [][\A c \in Op : op[c].kind = "put" /\ op[c].pc # "ok" /\ op'[c].pc = "ok" /\ Slots(c) \cap lost = {} =>
       \A k \in Range(op[c].keys) : pool'.byHash[k] \in Slots(c)]_kvVars

\* "store full" is only reported when live reservations leave too few slots:
\* cached keys are evicted and expired reservations reclaimed before that.
FullOnlyIfReserved ==
  [][\A c \in Op : op[c].pc = "ready" /\ op'[c].pc = "abort" =>
       Cardinality(Slot \ (pool.pending \ expired)) < Len(op[c].keys)]_kvVars

\* The cache tells gets the truth: bound slots hold their key's payload, hits
\* deliver it, misses have a cause (the get paths of both client protocols).
GetTruthful == BoundIntact /\ HitIntact /\ MissJustified

\* And puts: what is reported as stored is cached, what is refused had no room
\* (KvEngine::reserve, commit).
PutTruthful == AckedCached /\ FullOnlyIfReserved
===============================================================================
