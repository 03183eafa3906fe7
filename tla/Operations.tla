------------------------------ MODULE Operations ------------------------------
(***************************************************************************)
(* Operations of several calls whose steps interleave and may fail between: *)
(* buckets, a multipart upload, the cluster identity, the KV store.  They   *)
(* share no state; a behaviour runs one of them.                            *)
(***************************************************************************)
EXTENDS Bucket, Multipart, Format, KvCache

VARIABLE machine

vars == <<machine, bktVars, mpVars, fmtVars, kvVars>>

\* The choices of a machine; those that do not run have one, which they never make.
Loads(m, W) == IF machine = m THEN W ELSE {CHOOSE w \in W : TRUE}

Init ==
  /\ machine \in {"bucket", "multipart", "format", "kv"}
  /\ bktOp \in Loads("bucket", BktWork)
  /\ mpOp \in Loads("multipart", MpWork)
  /\ BktInit /\ MpInit /\ FmtInit
  /\ transport \in Loads("kv", Transport)
  /\ \E w \in Loads("kv", Workload) : KvStart(w)

BucketRuns == machine = "bucket" /\ BktNext /\ UNCHANGED <<machine, mpVars, fmtVars, kvVars>>
MultipartRuns == machine = "multipart" /\ MpNext /\ UNCHANGED <<machine, bktVars, fmtVars, kvVars>>
FormatRuns == machine = "format" /\ FmtNext /\ UNCHANGED <<machine, bktVars, mpVars, kvVars>>
KvRuns == machine = "kv" /\ KvNext /\ UNCHANGED <<machine, bktVars, mpVars, fmtVars>>

\* Nothing is left to do, which is the only way to stop.
Over ==
  /\ CASE machine = "bucket" -> \A r \in BktReq : bktAt[r] \in BktEnd
       [] machine = "multipart" -> \A r \in MpReq : mpAt[r] \in MpEnd \cup (IF Issued THEN {} ELSE {"start"})
       [] machine = "format" -> boots = FmtBoots /\ \A n \in FmtNode : fmtPc[n] \in FmtEnd \cup {"off"}
       [] machine = "kv" -> KvDone
  /\ UNCHANGED vars

Next == BucketRuns \/ MultipartRuns \/ FormatRuns \/ KvRuns \/ Over

Spec == Init /\ [][Next]_vars

\* An operation that fails half way leaves nothing behind: neither volumes of a
\* bucket that was not created nor parts of a session that was promoted
\* (create_bucket's rollback, cleanup_src).
CleanedUp == RollbackClean /\ SessionSpent
===============================================================================
