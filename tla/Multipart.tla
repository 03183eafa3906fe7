------------------------------- MODULE Multipart -------------------------------
(***************************************************************************)
(* One multipart upload of one key (engine.rs): create_multipart_upload     *)
(* makes a session on every disk, upload_part commits a staged part into it *)
(* under the lock of the part, complete_multipart_upload checks the claimed  *)
(* etags against the sidecars and promotes the session's data directory     *)
(* under the lock of the object.  A part's content and its etag are named   *)
(* by the upload that made them.  Disks are numbered: the first sidecar     *)
(* found is the one decoded.  rename_data's own steps are in ObjectSet;     *)
(* here a disk's promotion is one step.                                     *)
(***************************************************************************)
EXTENDS Naturals, FiniteSets, FiniteSetsExt

CONSTANTS
  MpN,          \* disks of the set, 1..MpN
  PartNo,       \* part numbers in use
  MpReq,        \* the requests
  MpWork,       \* workloads: per request [op, part, claim, small]
  MpFaults,     \* bound on failed calls
  NoPart        \* no content

VARIABLES
  mpOp,        \* the workload of this behaviour
  sess,        \* disks with the session's xl.meta
  part,        \* content of part.N in the session's data directory, per disk
  side,        \* etag in part.N.meta, per disk
  live,        \* per disk, what the promoted data directory holds
  record,      \* per disk, the etags the object's xl.meta lists
  mpAt,        \* phase of each request
  mpDone,      \* disks that answered the current fan-out, and those that erred
  found,       \* the etags a complete read from the sidecars
  partLock, objLock,
  mpFailed,
  last,        \* the upload last acknowledged for each part, while it must stand
  spoilt       \* uploads that failed midway, or committed while a complete ran

mpVars == <<mpOp, sess, part, side, live, record, mpAt, mpDone, found, partLock, objLock,
            mpFailed, last, spoilt>>

MpDisk == 1..MpN

NoParts == [p \in PartNo |-> NoPart]

MpEnd == {"ok", "failed"}

MpFan == {"create", "clean", "place", "unside", "promote"}

\* The phases in which an upload changes the session, and those in which a
\* complete relies on what it read there.
Committing == {"clean", "mkdir", "place"}
Relying == {"sidecars", "unside", "fence", "promote"}

NoAnswers == [ok |-> {}, err |-> {}]

MpInit ==
  /\ mpOp \in MpWork
  /\ sess = {}
  /\ part = [d \in MpDisk |-> NoParts] /\ side = [d \in MpDisk |-> NoParts]
  /\ live = [d \in MpDisk |-> NoParts] /\ record = [d \in MpDisk |-> NoParts]
  /\ mpAt = [r \in MpReq |-> "start"]
  /\ mpDone = [r \in MpReq |-> NoAnswers]
  /\ found = [r \in MpReq |-> NoParts]
  /\ partLock = NoParts /\ objLock = NoPart
  /\ mpFailed = 0
  /\ last = NoParts /\ spoilt = {}

\* Every disk has answered, with success or an error.
MpTold(r) == mpDone[r].ok \cup mpDone[r].err = MpDisk

\* The request enters phase p; at the end its guard is dropped.
Go(r, p) ==
  /\ mpAt' = [mpAt EXCEPT ![r] = p]
  /\ mpDone' = [mpDone EXCEPT ![r] = NoAnswers]
  /\ partLock' = [q \in PartNo |-> IF p \in MpEnd /\ partLock[q] = r THEN NoPart ELSE partLock[q]]
  /\ objLock' = IF p \in MpEnd /\ objLock = r THEN NoPart ELSE objLock

Others(phases) == {q \in MpReq : mpAt[q] \in phases}

\* A failed call, or k of them, out of the budget.
Fail(k) == mpFailed + k <= MpFaults /\ mpFailed' = mpFailed + k

\* create_multipart_upload: update_metadata on every disk.
CreateStart(r) ==
  /\ mpAt[r] = "start" /\ mpOp[r].op = "create"
  /\ Go(r, "create")
  /\ UNCHANGED <<mpOp, sess, part, side, live, record, found, mpFailed, last, spoilt>>

\* Below the quorum, which is every disk, the session is deleted again, on every
\* disk but those that do not answer.
CreateDone(r, S) ==
  /\ mpAt[r] = "create" /\ MpTold(r)
  /\ IF mpDone[r].err = {} THEN S = {} /\ Go(r, "ok") /\ UNCHANGED <<sess, mpFailed>>
                           ELSE Go(r, "failed") /\ sess' = sess \cap S /\ Fail(Cardinality(S))
  /\ UNCHANGED <<mpOp, part, side, live, record, found, last, spoilt>>

\* read_session_fi: a majority of the disks has the session.
SessionFound == Cardinality(sess) >= MpN \div 2 + 1

\* The upload id is random: nobody has it before create answers.
Issued == \E k \in MpReq : mpOp[k].op = "create" /\ mpAt[k] = "ok"

\* upload_part up to finalize_sinks_quorum: the session is read and the part is
\* staged under a path of its own.
UploadStage(r) ==
  /\ mpAt[r] = "start" /\ mpOp[r].op = "upload" /\ Issued
  /\ Go(r, IF SessionFound THEN "staged" ELSE "failed")
  /\ UNCHANGED <<mpOp, sess, part, side, live, record, found, mpFailed, last, spoilt>>

\* A sink cannot be opened, written or finished on some disk; or the lock is
\* not granted in time.
UploadFails(r) ==
  /\ mpAt[r] = "staged" /\ Fail(1)
  /\ Go(r, "failed")
  /\ UNCHANGED <<mpOp, sess, part, side, live, record, found, last, spoilt>>

\* Faulty variant of UploadLock: the commit is not serialized.
UploadLockNone(r) ==
  /\ mpAt[r] = "staged"
  /\ Go(r, "clean")
  /\ last' = [last EXCEPT ![mpOp[r].part] = NoPart]
  /\ spoilt' = IF Others(Relying) # {} THEN spoilt \cup {r} ELSE spoilt
  /\ UNCHANGED <<mpOp, sess, part, side, live, record, found, mpFailed>>

\* The lock of the part is taken only for the commit.
UploadLock(r) ==
  LET p == mpOp[r].part IN
  /\ mpAt[r] = "staged" /\ partLock[p] = NoPart
  /\ mpAt' = [mpAt EXCEPT ![r] = "clean"]
  /\ partLock' = [partLock EXCEPT ![p] = r]
  /\ last' = [last EXCEPT ![p] = NoPart]
  /\ spoilt' = IF Others(Relying) # {} THEN spoilt \cup {r} ELSE spoilt
  /\ UNCHANGED <<mpOp, sess, part, side, live, record, mpDone, found, objLock, mpFailed>>

\* The old part and its sidecar are deleted, whatever comes of it.
UploadCleaned(r) ==
  /\ mpAt[r] = "clean" /\ MpTold(r)
  /\ Go(r, "mkdir")
  /\ UNCHANGED <<mpOp, sess, part, side, live, record, found, mpFailed, last, spoilt>>

\* make_dir_all must succeed on every disk.
UploadMkdir(r) ==
  /\ mpAt[r] = "mkdir"
  /\ \/ Go(r, "place") /\ UNCHANGED <<mpFailed, spoilt>>
     \/ Go(r, "failed") /\ Fail(1) /\ spoilt' = spoilt \cup {r}
  /\ UNCHANGED <<mpOp, sess, part, side, live, record, found, last>>

\* The part of r now stands, unless a complete ran meanwhile.
Standing(r) == IF r \in spoilt THEN last ELSE [last EXCEPT ![mpOp[r].part] = r]

\* The part is acknowledged when every disk has it and its sidecar.  Nothing
\* is taken back otherwise.
UploadPlaced(r) ==
  /\ mpAt[r] = "place" /\ MpTold(r)
  /\ IF mpDone[r].err = {}
     THEN Go(r, "ok") /\ last' = Standing(r) /\ UNCHANGED spoilt
     ELSE Go(r, "failed") /\ spoilt' = spoilt \cup {r} /\ UNCHANGED last
  /\ UNCHANGED <<mpOp, sess, part, side, live, record, found, mpFailed>>

Claimed(r) == {p \in PartNo : mpOp[r].claim[p] # NoPart}

\* complete_multipart_upload: the lock of the object, then the session.
CompleteStart(r) ==
  /\ mpAt[r] = "start" /\ mpOp[r].op = "complete" /\ Issued /\ objLock = NoPart
  /\ IF SessionFound
     THEN mpAt' = [mpAt EXCEPT ![r] = "sidecars"] /\ objLock' = r
     ELSE mpAt' = [mpAt EXCEPT ![r] = "failed"] /\ UNCHANGED objLock
  /\ spoilt' = spoilt \cup Others(Committing)
  /\ UNCHANGED <<mpOp, sess, part, side, live, record, mpDone, found, partLock, mpFailed, last>>

\* The lock of the object is not granted in time.
CompleteTimeout(r) ==
  /\ mpAt[r] = "start" /\ mpOp[r].op = "complete" /\ Issued /\ objLock # NoPart
  /\ Go(r, "failed")
  /\ UNCHANGED <<mpOp, sess, part, side, live, record, found, mpFailed, last, spoilt>>

\* The part read next: ascending part numbers.
Unfound(r) == {p \in Claimed(r) : found[r][p] = NoPart}

\* read_part_sidecars for one part, with the disks in S silent: one disk that
\* has a sidecar is enough (read_quorum), and the first one is decoded.
ReadSidecar(r, S) ==
  LET p   == Min(Unfound(r))
      has == {d \in MpDisk \ S : side[d][p] # NoPart}
  IN /\ mpAt[r] = "sidecars" /\ Unfound(r) # {}
     /\ Fail(Cardinality(S))
     /\ IF has = {}
        THEN Go(r, "failed") /\ UNCHANGED found
        ELSE /\ found' = [found EXCEPT ![r][p] = side[Min(has)][p]]
             /\ UNCHANGED <<mpAt, mpDone, partLock, objLock>>
     /\ UNCHANGED <<mpOp, sess, part, side, live, record, last, spoilt>>

\* Faulty variant of Accepts: the etags are not compared.
AcceptsAny(r) == \A p \in Claimed(r) \ {Max(Claimed(r))} : ~mpOp[found[r][p]].small

\* Every claimed etag is the sidecar's; every part but the last is 5 MiB.
Accepts(r) ==
  \A p \in Claimed(r) :
    /\ mpOp[r].claim[p] = found[r][p]
    /\ p # Max(Claimed(r)) => ~mpOp[found[r][p]].small

CompleteCheck(r) ==
  /\ mpAt[r] = "sidecars" /\ Unfound(r) = {}
  /\ Go(r, IF Accepts(r) THEN "unside" ELSE "failed")
  /\ last' = IF Accepts(r) THEN NoParts ELSE last
  /\ UNCHANGED <<mpOp, sess, part, side, live, record, found, mpFailed, spoilt>>

CompleteUnsided(r) ==
  /\ mpAt[r] = "unside" /\ MpTold(r)
  /\ Go(r, "fence")
  /\ UNCHANGED <<mpOp, sess, part, side, live, record, found, mpFailed, last, spoilt>>

\* lock.check(): the promotion starts only if the lock is not known to be lost.
CompleteFence(r) ==
  /\ mpAt[r] = "fence"
  /\ \/ Go(r, "promote") /\ UNCHANGED mpFailed
     \/ Go(r, "failed") /\ Fail(1)
  /\ UNCHANGED <<mpOp, sess, part, side, live, record, found, last, spoilt>>

\* cleanup_src on every disk but those that do not answer: the session goes.
CleanSession(S) ==
  /\ sess' = sess \cap S
  /\ part' = [d \in MpDisk |-> IF d \in S THEN part[d] ELSE NoParts]
  /\ side' = [d \in MpDisk |-> IF d \in S THEN side[d] ELSE NoParts]

\* Faulty variant of CompleteDone: after a failure the session is kept.
CompleteDoneKeeps(r, S) ==
  /\ mpAt[r] = "promote" /\ MpTold(r)
  /\ Fail(Cardinality(S))
  /\ IF mpDone[r].err = {} THEN Go(r, "ok") /\ CleanSession(S)
     ELSE Go(r, "failed") /\ UNCHANGED <<sess, part, side>>
  /\ UNCHANGED <<mpOp, live, record, found, last, spoilt>>

\* promote_versions: all disks renamed, or those that did undo; either way the
\* session directory is removed.  (ObjectSet has the undo step by step.)
CompleteDone(r, S) ==
  /\ mpAt[r] = "promote" /\ MpTold(r)
  /\ Fail(Cardinality(S))
  /\ CleanSession(S)
  /\ IF mpDone[r].err = {}
     THEN Go(r, "ok") /\ UNCHANGED <<live, record>>
     ELSE /\ Go(r, "failed")
          /\ live' = [d \in MpDisk |-> IF d \in mpDone[r].ok THEN NoParts ELSE live[d]]
          /\ record' = [d \in MpDisk |-> IF d \in mpDone[r].ok THEN NoParts ELSE record[d]]
  /\ UNCHANGED <<mpOp, found, last, spoilt>>

\* What one call of the fan-out does on disk d; k = 1 if only its first half
\* took place (the part is renamed, the sidecar is not written).
DiskServes(r, d, k) ==
  LET p == mpOp[r].part IN
  CASE mpAt[r] = "create" ->
         /\ sess' = sess \cup {d} /\ UNCHANGED <<part, side, live, record>>
    [] mpAt[r] = "clean" ->
         /\ part' = [part EXCEPT ![d][p] = NoPart]
         /\ side' = IF k = 1 THEN side ELSE [side EXCEPT ![d][p] = NoPart]
         /\ UNCHANGED <<sess, live, record>>
    [] mpAt[r] = "place" ->
         /\ part' = [part EXCEPT ![d][p] = r]
         /\ side' = IF k = 1 THEN side ELSE [side EXCEPT ![d][p] = r]
         /\ UNCHANGED <<sess, live, record>>
    [] mpAt[r] = "unside" ->
         /\ side' = [side EXCEPT ![d] = [q \in PartNo |-> IF q \in Claimed(r) THEN NoPart ELSE @[q]]]
         /\ UNCHANGED <<sess, part, live, record>>
    [] mpAt[r] = "promote" ->
         /\ live' = [live EXCEPT ![d] = part[d]]
         /\ record' = [record EXCEPT ![d] = found[r]]
         /\ part' = [part EXCEPT ![d] = NoParts] /\ side' = [side EXCEPT ![d] = NoParts]
         /\ sess' = sess \ {d}

MpCall(r, d) ==
  /\ mpAt[r] \in MpFan /\ d \notin mpDone[r].ok \cup mpDone[r].err
  /\ DiskServes(r, d, 2)
  /\ mpDone' = [mpDone EXCEPT ![r].ok = @ \cup {d}]
  /\ UNCHANGED <<mpOp, mpAt, found, partLock, objLock, mpFailed, last, spoilt>>

\* A call errs: nothing was done, the first half, or all and the answer is lost.
MpCallFails(r, d) ==
  /\ mpAt[r] \in MpFan /\ d \notin mpDone[r].ok \cup mpDone[r].err
  /\ Fail(1)
  /\ \/ UNCHANGED <<sess, part, side, live, record>>
     \/ \E k \in 1..2 : DiskServes(r, d, k)
  /\ mpDone' = [mpDone EXCEPT ![r].err = @ \cup {d}]
  /\ UNCHANGED <<mpOp, mpAt, found, partLock, objLock, last, spoilt>>

MpNext ==
  \E r \in MpReq :
    \/ CreateStart(r)
    \/ UploadStage(r) \/ UploadFails(r) \/ UploadLock(r) \/ UploadCleaned(r)
    \/ UploadMkdir(r) \/ UploadPlaced(r)
    \/ CompleteStart(r) \/ CompleteTimeout(r) \/ CompleteCheck(r) \/ CompleteUnsided(r) \/ CompleteFence(r)
    \/ \E S \in SUBSET MpDisk : CreateDone(r, S) \/ ReadSidecar(r, S) \/ CompleteDone(r, S)
    \/ \E d \in MpDisk : MpCall(r, d) \/ MpCallFails(r, d)

\* complete_multipart_upload: the object of an acknowledged complete has on
\* every disk, for each part, the content whose etag the client claimed and the
\* record lists, unless an upload of the part failed midway or overlapped it.
CompleteIntact ==
  \A r \in MpReq : (mpAt[r] = "ok" /\ mpOp[r].op = "complete") =>
    \A p \in Claimed(r) \ {mpOp[q].part : q \in spoilt} : \A d \in MpDisk :
      live[d][p] = mpOp[r].claim[p] /\ record[d][p] = mpOp[r].claim[p]

\* upload_part: an acknowledged part stands on every disk with its sidecar
\* until the next upload of the part begins its commit or a complete accepts
\* the claims; a complete that is refused leaves the session as it was.
PartsKept ==
  \A p \in PartNo : last[p] # NoPart =>
    \A d \in MpDisk : part[d][p] = last[p] /\ side[d][p] = last[p]

\* promote_versions, cleanup_src: a complete that has tried to promote ends, with
\* or without success, with nothing left of the session if every disk answers
\* the sweep.
SessionSpent ==
  [][\A r \in MpReq :
       (mpAt[r] = "promote" /\ mpAt'[r] \in MpEnd /\ mpFailed' = mpFailed)
         => sess' = {} /\ \A d \in MpDisk : part'[d] = NoParts]_mpVars

\* From the acknowledgement of a part to that of the object nothing a client was
\* promised is lost or mixed up (upload_part, complete_multipart_upload).
SessionSound == PartsKept /\ CompleteIntact
===============================================================================
