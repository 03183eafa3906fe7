-------------------------------- MODULE Bucket --------------------------------
(***************************************************************************)
(* One bucket: a volume on every disk and a metadata object (engine.rs,     *)
(* local_fs.rs).  The handlers fan one call out to every disk, wait for all *)
(* answers and decide; create, delete and the versioning write hold the     *)
(* bucket's lock, PUT, stat and list do not.  The metadata object is written *)
(* to a quorum or undone, which ObjectSet shows; here it is one value.      *)
(* The lock is exclusive, which Dsync shows.                                *)
(***************************************************************************)
EXTENDS Naturals, FiniteSets

CONSTANTS
  BktDisk,       \* all_backends
  BktReq,        \* the requests that may run
  BktWork,       \* workloads: functions from requests to operations
  BktFaults,     \* bound on the calls that fail in one behaviour
  NoOne          \* no request holds the lock

VARIABLES
  bktOp,       \* the operation of each request
  vol,         \* per disk: is the volume there, and the objects in it
  bktMeta,     \* BucketMeta of the bucket: "none", or its versioning status
  bktAt,       \* the phase each request is in
  bktTold,     \* the answers of the disks to the request's current fan-out
  bktLock,     \* who holds bkt_lock_key
  bktFailed,   \* number of failed calls so far
  born,        \* the status acknowledged for the bucket; "none": deleted, or not created
  kept,        \* the PUTs acknowledged whose object no request may remove
  steady       \* the requests during which no create, delete or change ran

bktVars == <<bktOp, vol, bktMeta, bktAt, bktTold, bktLock, bktFailed, born, kept, steady>>

\* The operations that take the bucket's lock.
Locked == {"create", "delete", "force", "enable"}

BktEnd == {"ok", "failed", "exists", "missing", "notempty"}

\* The phases that call every disk.
FanOut == {"make", "rollback", "probe", "remove", "stat", "write", "undo", "list"}

Untold == [d \in BktDisk |-> "none"]

BktMajority == Cardinality(BktDisk) \div 2 + 1

BktInit ==
  /\ bktOp \in BktWork
  /\ vol = [d \in BktDisk |-> [there |-> FALSE, objs |-> {}]]
  /\ bktMeta = "none" /\ born = "none"
  /\ bktAt = [r \in BktReq |-> "start"]
  /\ bktTold = [r \in BktReq |-> Untold]
  /\ bktLock = NoOne
  /\ bktFailed = 0
  /\ kept = {} /\ steady = {}

Count(r, a) == Cardinality({d \in BktDisk : bktTold[r][d] = a})

AllTold(r) == \A d \in BktDisk : bktTold[r][d] # "none"

\* The request goes to phase p; at the end a guard is dropped, which releases.
Enter(r, p) ==
  /\ bktAt' = [bktAt EXCEPT ![r] = p]
  /\ bktTold' = [bktTold EXCEPT ![r] = Untold]
  /\ bktLock' = IF p \in BktEnd /\ bktLock = r THEN NoOne ELSE bktLock

\* A forced delete takes back what was promised; any create or delete ends the
\* quiet of the requests that run meanwhile.
Disturb(r) ==
  /\ born' = IF bktOp[r] = "force" THEN "none" ELSE born
  /\ kept' = IF bktOp[r] = "force" THEN {} ELSE kept
  /\ steady' = IF bktOp[r] = "enable" THEN steady ELSE {}

\* The first phase of create_bucket, delete_bucket and put_bucket_versioning,
\* under the lock.
BktAcquire(r) ==
  /\ bktAt[r] = "start" /\ bktOp[r] \in Locked /\ bktLock = NoOne
  /\ bktLock' = r
  /\ bktAt' = [bktAt EXCEPT ![r] = CASE bktOp[r] = "create" -> "make"
                                     [] bktOp[r] = "delete" -> "probe"
                                     [] bktOp[r] = "force"  -> "unmeta"
                                     [] bktOp[r] = "enable" -> "stat"]
  /\ Disturb(r)
  /\ UNCHANGED <<bktOp, vol, bktMeta, bktTold, bktFailed>>

\* acquire gave up after LOCK_ACQUIRE_TIMEOUT.
BktTimeout(r) ==
  /\ bktAt[r] = "start" /\ bktOp[r] \in Locked /\ bktLock # NoOne
  /\ Enter(r, "failed")
  /\ UNCHANGED <<bktOp, vol, bktMeta, bktFailed, born, kept, steady>>

\* stat_bucket and list_buckets begin; nothing is locked.
BktLook(r) ==
  /\ bktAt[r] = "start" /\ bktOp[r] \in {"stat", "list"}
  /\ Enter(r, bktOp[r])
  /\ steady' = IF bktLock = NoOne THEN steady \cup {r} ELSE steady
  /\ UNCHANGED <<bktOp, vol, bktMeta, bktFailed, born, kept>>

\* resolve_put_version_id: a PUT reads the metadata before it writes.
BktPut(r) ==
  /\ bktAt[r] = "start" /\ bktOp[r] = "put"
  /\ Enter(r, IF bktMeta = "none" THEN "missing" ELSE "write")
  /\ steady' = IF bktLock = NoOne THEN steady \cup {r} ELSE steady
  /\ UNCHANGED <<bktOp, vol, bktMeta, bktFailed, born, kept>>

\* What one call of phase p does to a disk that holds v, and answers.
Effect(r, p, v) ==
  CASE p = "make" ->
         IF v.there THEN <<v, "exists">> ELSE <<[there |-> TRUE, objs |-> {}], "ok">>
    [] p \in {"rollback", "remove"} ->
         IF v.there THEN <<[there |-> FALSE, objs |-> {}], "ok">> ELSE <<v, "missing">>
    [] p = "probe" ->
         <<v, IF ~v.there THEN "missing" ELSE IF v.objs = {} THEN "ok" ELSE "entries">>
    [] p \in {"stat", "list"} -> <<v, IF v.there THEN "ok" ELSE "missing">>
    [] p = "write" ->
         IF v.there THEN <<[v EXCEPT !.objs = @ \cup {r}], "ok">> ELSE <<v, "missing">>
    [] p = "undo" -> <<[v EXCEPT !.objs = @ \ {r}], "ok">>

\* One disk serves the call of the request's fan-out.
BktCall(r, d) ==
  /\ bktAt[r] \in FanOut /\ bktTold[r][d] = "none"
  /\ LET e == Effect(r, bktAt[r], vol[d]) IN
     /\ vol' = [vol EXCEPT ![d] = e[1]]
     /\ bktTold' = [bktTold EXCEPT ![r][d] = e[2]]
  /\ UNCHANGED <<bktOp, bktMeta, bktAt, bktLock, bktFailed, born, kept, steady>>

\* The call errs: it was not served, or it was and the answer was lost.
BktCallFails(r, d) ==
  /\ bktAt[r] \in FanOut /\ bktTold[r][d] = "none"
  /\ bktFailed < BktFaults
  /\ bktFailed' = bktFailed + 1
  /\ vol' \in {vol, [vol EXCEPT ![d] = Effect(r, bktAt[r], vol[d])[1]]}
  /\ bktTold' = [bktTold EXCEPT ![r][d] = "err"]
  /\ UNCHANGED <<bktOp, bktMeta, bktAt, bktLock, born, kept, steady>>

\* Faulty variant of MakeDone: one disk that has the volume proves nothing, nor
\* do two.
MakeDoneAll(r) ==
  /\ bktAt[r] = "make" /\ AllTold(r)
  /\ Enter(r, CASE Count(r, "exists") = Cardinality(BktDisk) -> "exists"
                [] Count(r, "exists") # Cardinality(BktDisk) /\ Count(r, "ok") # Cardinality(BktDisk) -> "rollback"
                [] OTHER -> "meta")
  /\ UNCHANGED <<bktOp, vol, bktMeta, bktFailed, born, kept, steady>>

\* create_bucket: the bucket exists if most disks have its volume; anything
\* else than a volume made on every disk is rolled back.
MakeDone(r) ==
  /\ bktAt[r] = "make" /\ AllTold(r)
  /\ Enter(r, IF Count(r, "exists") >= BktMajority THEN "exists"
              ELSE IF Count(r, "ok") # Cardinality(BktDisk) THEN "rollback" ELSE "meta")
  /\ UNCHANGED <<bktOp, vol, bktMeta, bktFailed, born, kept, steady>>

\* Faulty variant of RollbackDone: the first disk to answer ends the rollback.
RollbackDoneEarly(r) ==
  /\ bktAt[r] = "rollback" /\ \E d \in BktDisk : bktTold[r][d] # "none"
  /\ Enter(r, "failed")
  /\ UNCHANGED <<bktOp, vol, bktMeta, bktFailed, born, kept, steady>>

RollbackDone(r) ==
  /\ bktAt[r] = "rollback" /\ AllTold(r)
  /\ Enter(r, "failed")
  /\ UNCHANGED <<bktOp, vol, bktMeta, bktFailed, born, kept, steady>>

\* put_bucket_meta of create_bucket and put_bucket_versioning.
SaveMeta(r) ==
  /\ bktAt[r] = "meta"
  /\ bktMeta' = IF bktOp[r] = "create" THEN "off" ELSE "on"
  /\ born' = bktMeta'
  /\ Enter(r, "ok")
  /\ UNCHANGED <<bktOp, vol, bktFailed, kept, steady>>

\* put_bucket_meta fails and is undone: create_bucket removes the volumes.
SaveMetaFails(r) ==
  /\ bktAt[r] = "meta" /\ bktFailed < BktFaults
  /\ bktFailed' = bktFailed + 1
  /\ Enter(r, IF bktOp[r] = "create" THEN "rollback" ELSE "failed")
  /\ UNCHANGED <<bktOp, vol, bktMeta, born, kept, steady>>

\* Faulty variant of ProbeDone: a disk that did not answer counts as empty.
ProbeDoneTrusting(r) ==
  /\ bktAt[r] = "probe" /\ AllTold(r)
  /\ Enter(r, IF Count(r, "entries") = Cardinality(BktDisk) THEN "notempty" ELSE "unmeta")
  /\ born' = IF bktAt'[r] = "unmeta" THEN "none" ELSE born
  /\ UNCHANGED <<bktOp, vol, bktMeta, bktFailed, kept, steady>>

\* delete_bucket: an entry on any disk stops it, and so does an error.
ProbeDone(r) ==
  /\ bktAt[r] = "probe" /\ AllTold(r)
  /\ Enter(r, IF Count(r, "entries") > 0 THEN "notempty"
              ELSE IF Count(r, "err") > 0 THEN "failed" ELSE "unmeta")
  /\ born' = IF bktAt'[r] = "unmeta" THEN "none" ELSE born
  /\ UNCHANGED <<bktOp, vol, bktMeta, bktFailed, kept, steady>>

\* The metadata object is deleted; a failure is ignored.
DropMeta(r) ==
  /\ bktAt[r] = "unmeta"
  /\ \/ bktMeta' = "none" /\ bktFailed' = bktFailed
     \/ bktFailed < BktFaults /\ bktFailed' = bktFailed + 1 /\ bktMeta' = bktMeta
  /\ Enter(r, "remove")
  /\ UNCHANGED <<bktOp, vol, born, kept, steady>>

\* require_quorum over all disks; a missing volume is as good as a removed one.
RemoveDone(r) ==
  /\ bktAt[r] = "remove" /\ AllTold(r)
  /\ Enter(r, IF Count(r, "err") > 0 THEN "failed" ELSE "ok")
  /\ UNCHANGED <<bktOp, vol, bktMeta, bktFailed, born, kept, steady>>

\* Faulty variant of StatVerdict: a disk that erred counts as missing.
StatVerdictHasty(r) ==
  IF Count(r, "ok") = Cardinality(BktDisk) THEN "ok" ELSE "missing"

\* stat_bucket: the read quorum is one disk.
StatVerdict(r) ==
  IF Count(r, "ok") >= 1 THEN "ok"
  ELSE IF Count(r, "err") = 0 THEN "missing" ELSE "failed"

\* stat_bucket ends, also inside put_bucket_versioning, which then reads the
\* metadata and rewrites it.
StatDone(r) ==
  /\ bktAt[r] = "stat" /\ AllTold(r)
  /\ Enter(r, IF bktOp[r] = "stat" \/ StatVerdict(r) # "ok" THEN StatVerdict(r)
              ELSE IF bktMeta = "none" THEN "failed" ELSE "meta")
  /\ UNCHANGED <<bktOp, vol, bktMeta, bktFailed, born, kept, steady>>

\* list_buckets: an error only if no disk answered; listed if one disk has it.
ListDone(r) ==
  /\ bktAt[r] = "list" /\ AllTold(r)
  /\ Enter(r, IF Count(r, "err") = Cardinality(BktDisk) THEN "failed"
              ELSE IF Count(r, "ok") >= 1 THEN "ok" ELSE "missing")
  /\ UNCHANGED <<bktOp, vol, bktMeta, bktFailed, born, kept, steady>>

\* A PUT ends: every disk has the object, or those that have it undo it.
WriteDone(r) ==
  /\ bktAt[r] = "write" /\ AllTold(r)
  /\ IF Count(r, "ok") = Cardinality(BktDisk)
     THEN /\ Enter(r, "ok")
          /\ kept' = IF r \in steady THEN kept \cup {r} ELSE kept
     ELSE /\ bktAt' = [bktAt EXCEPT ![r] = "undo"]
          /\ bktTold' = [bktTold EXCEPT ![r] =
                           [d \in BktDisk |-> IF bktTold[r][d] = "ok" THEN "none" ELSE "skip"]]
          /\ UNCHANGED <<bktLock, kept>>
  /\ UNCHANGED <<bktOp, vol, bktMeta, bktFailed, born, steady>>

UndoDone(r) ==
  /\ bktAt[r] = "undo" /\ AllTold(r)
  /\ Enter(r, "failed")
  /\ UNCHANGED <<bktOp, vol, bktMeta, bktFailed, born, kept, steady>>

BktNext ==
  \E r \in BktReq :
    \/ BktAcquire(r) \/ BktTimeout(r) \/ BktLook(r) \/ BktPut(r)
    \/ \E d \in BktDisk : BktCall(r, d) \/ BktCallFails(r, d)
    \/ MakeDone(r) \/ RollbackDone(r) \/ SaveMeta(r) \/ SaveMetaFails(r)
    \/ ProbeDone(r) \/ DropMeta(r) \/ RemoveDone(r)
    \/ StatDone(r) \/ ListDone(r) \/ WriteDone(r) \/ UndoDone(r)

\* So few calls failed that no majority of disks can have been silent.
MinorityFailed == bktFailed <= Cardinality(BktDisk) - BktMajority

\* create_bucket, rollback: an acknowledged bucket keeps its volume on every
\* disk and its last acknowledged versioning status until a delete_bucket
\* has found it empty or is forced, whatever a second create_bucket rolls back, as long as only
\* a minority of calls fails.
BucketStands ==
  (MinorityFailed /\ born # "none") =>
    /\ \A d \in BktDisk : vol[d].there
    /\ bktMeta = born

\* delete_bucket, probe: an object whose PUT was acknowledged with no bucket
\* operation running is on every disk until a forced delete: an unforced delete,
\* which finds it on any one disk, never removes it.
ObjectsKept ==
  MinorityFailed => \A r \in kept : \A d \in BktDisk : r \in vol[d].objs

\* stat_bucket, list_buckets, resolve_put_version_id: a request that met an acknowledged bucket and no
\* create or delete does not answer that there is none, whichever calls fail.
LooksSee ==
  (MinorityFailed /\ born # "none") => \A r \in steady : bktAt[r] # "missing"

\* create_bucket: a failed create whose rollback calls all answered leaves no
\* volume on any disk, so that the next create can succeed.
RollbackClean ==
  [][\A r \in BktReq :
       (bktAt[r] = "rollback" /\ bktAt'[r] = "failed" /\ Count(r, "err") = 0)
         => \A d \in BktDisk : ~vol[d].there]_bktVars

\* An acknowledged bucket stands with its objects, and every look finds it, while
\* creates are rolled back and deletes find it full (create_bucket, delete_bucket).
BucketSound == BucketStands /\ ObjectsKept /\ LooksSee
===============================================================================
