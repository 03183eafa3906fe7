------------------------------- MODULE ObjectSet ------------------------------
(***************************************************************************)
(* PUT, DELETE and batch DELETE of one key on one erasure set              *)
(* (openlake_storage/src/engine.rs): a coordinator fans out rename_data or *)
(* delete_version to every disk, waits for every answer, and then cleans   *)
(* up or undoes.  PUT and DELETE hold the object lock, a batch DELETE does *)
(* not.  The disks run their handlers step by step; on a disk in `faulty`  *)
(* any step may fail, and a handler may go on after its caller got an      *)
(* error.                                                                  *)
(***************************************************************************)
EXTENDS DiskObject

CONSTANTS
  Disk,        \* the disks of the set
  Parity,      \* default_parity_count
  Delete,      \* DELETEs
  Batch,       \* batch DELETEs
  Scenario,    \* the environments considered, see ScenarioAssumption
  None         \* no lock holder

Op == Write \cup Delete \cup Batch

Active == {"staging", "promoting", "undoing", "cleaning", "deleting"}

ASSUME SetAssumption ==
  /\ IsFiniteSet(Disk) /\ IsFiniteSet(Op)
  /\ Parity \in 1..(Cardinality(Disk) \div 2)
  /\ None \notin Op
  /\ Write \cap Delete = {} /\ Write \cap Batch = {} /\ Delete \cap Batch = {}

\* The versions the object starts with, the operations that may run, how many
\* disks may fail, and the phases in which a coordinator may crash or its lock
\* may lapse.
ASSUME ScenarioAssumption ==
  Scenario \subseteq [initial : SUBSET Write, ops : SUBSET Op, faults : Nat,
                     crash : SUBSET Active, lapse : SUBSET Active]

VARIABLES
  store,     \* the object on each disk
  phase,     \* how far each operation is
  step,      \* the next step of an operation's handler on a disk
  view,      \* the xl.meta that handler has read
  told,      \* the answer the coordinator has from the disk
  holder,    \* who holds the object lock
  stamp,     \* mod_time_ms of a write
  faulty,    \* the disks that have failed so far
  env,       \* the scenario of this behaviour
  past       \* history: the values the object may have, given the answers
             \* that clients have got and the operations still running

vars == <<store, phase, step, view, told, holder, stamp, faulty, env, past>>

Ended == {"acked", "failed", "lost"}
WriteSteps == {"read", "graft", "backup", "commit"}
DeleteSteps == {"find", "trash", "unlink"}

Running(o) == phase[o] \in Active \cup {"dead"}

Everywhere(x) == [d \in Disk |-> x]

\* The disks that may fail now: no more than the scenario allows.
MayFail(d) == Cardinality(faulty \cup {d}) <= env.faults

-------------------------------------------------------------------------------
(* The history: each element of past is a value and the operations that    *)
(* made it.  An operation that runs may take effect at any time, once.     *)

Apply(val, o) ==
  IF o \in Write THEN {v \in val : ~SameVersion(v, o)} \cup {o} ELSE {}

Extend(P, running) ==
  P \cup UNION {{[val |-> Apply(p.val, o), done |-> p.done \cup {o}] :
                    o \in running \ p.done} : p \in P}

Closure(P, running) ==
  LET ext[i \in 0..Cardinality(env.ops)] ==
        IF i = 0 THEN P ELSE Extend(ext[i - 1], running)
  IN  ext[Cardinality(env.ops)]

Begin(o) ==
  /\ past' = Closure(past, {p \in Op : Running(p)} \cup {o})
  /\ UNCHANGED env

\* A client that is told of success knows of the effect; one whose PUT failed
\* knows there is none; any other answer says nothing.
End(o, ph) ==
  /\ UNCHANGED env
  /\ phase' = [phase EXCEPT ![o] = ph]
  /\ past' = {p \in past : /\ ph = "acked" => o \in p.done
                           /\ ph = "failed" /\ o \in Write => o \notin p.done}
  /\ told' = [told EXCEPT ![o] = [d \in Disk |->
                 IF step[o][d] = "idle" THEN "none" ELSE told[o][d]]]
  /\ view' = [view EXCEPT ![o] = [d \in Disk |->
                 IF step[o][d] = "idle" THEN {} ELSE view[o][d]]]

-------------------------------------------------------------------------------
Init ==
  /\ env \in Scenario
  /\ store = Everywhere(Holding(env.initial))
  /\ phase = [o \in Op |-> IF o \in env.initial THEN "acked" ELSE "new"]
  /\ step = [o \in Op |-> Everywhere("idle")]
  /\ view = [o \in Op |-> Everywhere({})]
  /\ told = [o \in Op |-> Everywhere("none")]
  /\ holder = None
  /\ stamp = [w \in Write |-> 0]
  /\ faulty = {}
  /\ past = {[val |-> env.initial, done |-> env.initial]}

\* put: the lock is acquired and the write gets its time.
StartPut(w) ==
  /\ w \in env.ops /\ phase[w] = "new" /\ holder = None
  /\ holder' = w
  /\ phase' = [phase EXCEPT ![w] = "staging"]
  /\ stamp' = [stamp EXCEPT ![w] = 1 + Cardinality({v \in Write : stamp[v] > 0})]
  /\ Begin(w)
  /\ UNCHANGED <<store, step, view, told, faulty>>

\* delete takes the lock, delete_objects does not.
StartDelete(o) ==
  /\ o \in env.ops /\ phase[o] = "new"
  /\ IF o \in Delete THEN holder = None /\ holder' = o ELSE UNCHANGED holder
  /\ phase' = [phase EXCEPT ![o] = "deleting"]
  /\ step' = [step EXCEPT ![o] = Everywhere("find")]
  /\ Begin(o)
  /\ UNCHANGED <<store, view, told, stamp, faulty>>

\* LockGuard's drop at the end of an operation, and the expiry of a lease.
Release(o) == holder' = IF holder = o THEN None ELSE holder

\* cleanup_src, best effort, on every disk, and an error to the client.
FailPut(w) ==
  /\ \E skip \in SUBSET faulty :
       store' = [d \in Disk |-> IF d \in skip THEN store[d] ELSE CleanSource(store[d], w)]
  /\ End(w, "failed")
  /\ Release(w)

\* put_ec: a sink failed on some disk, so the staged shards are swept.
StageFails(w) ==
  /\ phase[w] = "staging" /\ w \notin Inline
  /\ \E d \in Disk : MayFail(d) /\ faulty' = faulty \cup {d}
  /\ \E left \in SUBSET faulty' :
       store' = [d \in Disk |-> IF d \in left THEN StageData(store[d], w) ELSE store[d]]
  /\ End(w, "failed")
  /\ Release(w)
  /\ UNCHANGED <<step, stamp>>

\* lock.check(), the fence before the commit.
Fence(w) == holder = w

\* All shards are staged; the fence decides whether they are promoted.
Promote(w) ==
  /\ phase[w] = "staging" /\ Fence(w)
  /\ store' = [d \in Disk |-> StageData(store[d], w)]
  /\ phase' = [phase EXCEPT ![w] = "promoting"]
  /\ step' = [step EXCEPT ![w] = Everywhere("read")]
  /\ UNCHANGED <<view, told, holder, stamp, faulty, past, env>>

FencedOff(w) ==
  /\ phase[w] = "staging" /\ ~Fence(w)
  /\ FailPut(w)
  /\ UNCHANGED <<step, stamp, faulty>>

-------------------------------------------------------------------------------
(* rename_data on disk d for the write w.                                   *)

\* The answer reaches the coordinator unless it has an error already.
Answer(o, d, a) ==
  told' = [told EXCEPT ![o][d] = IF @ = "none" /\ phase[o] # "dead" THEN a ELSE @]

Handler(o, d, from, to) ==
  /\ step[o][d] = from
  /\ step' = [step EXCEPT ![o][d] = to]
  /\ UNCHANGED <<phase, holder, stamp, faulty, past, env>>

SetDisk(d, s) == store' = [store EXCEPT ![d] = s]

\* xl.meta is read and the merged one is staged.
RenameRead(w, d) ==
  /\ Handler(w, d, "read", "graft")
  /\ view' = [view EXCEPT ![w][d] = store[d].meta]
  /\ SetDisk(d, StageMeta(store[d], w))
  /\ UNCHANGED told

RenameGraft(w, d) ==
  /\ Handler(w, d, "graft", "backup")
  /\ SetDisk(d, Graft(store[d], w))
  /\ UNCHANGED <<view, told>>

RenameBackup(w, d) ==
  /\ Handler(w, d, "backup", "commit")
  /\ SetDisk(d, Backup(store[d], w, view[w][d]))
  /\ UNCHANGED <<view, told>>

\* The commit point.  The rename fails if the staging directory was swept.
RenameCommit(w, d) ==
  /\ Handler(w, d, "commit", "idle")
  /\ IF w \in store[d].next
     THEN /\ SetDisk(d, Commit(store[d], w, view[w][d]))
          /\ Answer(w, d, "ok")
     ELSE /\ Answer(w, d, "err")
          /\ UNCHANGED store
  /\ UNCHANGED view

(* delete_object_scoped on disk d.                                          *)

DeleteFind(o, d) ==
  /\ step[o][d] = "find"
  /\ view' = [view EXCEPT ![o][d] = store[d].meta]
  /\ IF store[d].meta = {}
     THEN Handler(o, d, "find", "idle") /\ Answer(o, d, "missing")
     ELSE Handler(o, d, "find", "trash") /\ UNCHANGED told
  /\ UNCHANGED store

\* The data directories of all records go first.
DeleteTrash(o, d) ==
  /\ Handler(o, d, "trash", "unlink")
  /\ SetDisk(d, DropDirs(store[d], view[o][d]))
  /\ UNCHANGED <<view, told>>

DeleteUnlink(o, d) ==
  /\ Handler(o, d, "unlink", "idle")
  /\ IF store[d].meta # {}
     THEN SetDisk(d, Unlink(store[d])) /\ Answer(o, d, "ok")
     ELSE Answer(o, d, "err") /\ UNCHANGED store
  /\ UNCHANGED view

\* A call to a faulty disk fails; its handler stops, or goes on unheard.
CallFails(o, d) ==
  /\ phase[o] \in {"promoting", "deleting"} /\ told[o][d] = "none"
  /\ MayFail(d) /\ faulty' = faulty \cup {d}
  /\ told' = [told EXCEPT ![o][d] = "err"]
  /\ step' \in {step, [step EXCEPT ![o][d] = "idle"]}
  /\ UNCHANGED <<store, phase, view, holder, stamp, past, env>>

-------------------------------------------------------------------------------
(* The rest of promote_versions.                                            *)

AllTold(o) == \A d \in Disk : told[o][d] # "none"

\* write_quorum is the number of disks: one error is enough to undo.
Quorum(w) == \A d \in Disk : told[w][d] = "ok"

Join(w) ==
  /\ phase[w] = "promoting" /\ AllTold(w)
  /\ phase' = [phase EXCEPT ![w] = IF Quorum(w) THEN "cleaning" ELSE "undoing"]
  /\ UNCHANGED <<store, step, view, told, holder, stamp, faulty, past, env>>

\* Faulty variant of Undo: the disks that had succeeded keep the write.
UndoSkipped(w, d) ==
  /\ phase[w] = "undoing" /\ told[w][d] = "ok"
  /\ told' = [told EXCEPT ![w][d] = "err"]
  /\ UNCHANGED <<store, faulty, phase, step, view, holder, stamp, past, env>>

\* delete_version with undo_write on a disk that had succeeded; errors are
\* ignored.
Undo(w, d) ==
  /\ phase[w] = "undoing" /\ told[w][d] = "ok"
  /\ told' = [told EXCEPT ![w][d] = "err"]
  /\ \/ SetDisk(d, UndoWrite(store[d], w)) /\ UNCHANGED faulty
     \/ MayFail(d) /\ faulty' = faulty \cup {d} /\ UNCHANGED store
  /\ UNCHANGED <<phase, step, view, holder, stamp, past, env>>

FinishUndo(w) ==
  /\ phase[w] = "undoing" /\ \A d \in Disk : told[w][d] # "ok"
  /\ FailPut(w)
  /\ UNCHANGED <<step, stamp, faulty>>

\* The overwritten record's data directory goes to the trash, best effort.
CleanStale(w, d) ==
  /\ phase[w] = "cleaning" /\ told[w][d] = "ok"
  /\ told' = [told EXCEPT ![w][d] = "clean"]
  /\ \/ SetDisk(d, DropDirs(store[d], OldDirs(view[w][d], w))) /\ UNCHANGED faulty
     \/ MayFail(d) /\ faulty' = faulty \cup {d} /\ UNCHANGED store
  /\ UNCHANGED <<phase, step, view, holder, stamp, past, env>>

AckPut(w) ==
  /\ phase[w] = "cleaning" /\ \A d \in Disk : told[w][d] = "clean"
  /\ store' = [d \in Disk |-> CleanSource(store[d], w)]
  /\ End(w, "acked")
  /\ Release(w)
  /\ UNCHANGED <<step, stamp, faulty>>

\* delete succeeds if any disk did; delete_objects needs every disk to have
\* deleted the key or not to have it.
DeleteOutcome(o) ==
  IF o \in Delete
  THEN IF \E d \in Disk : told[o][d] = "ok" THEN "acked" ELSE "failed"
  ELSE IF \A d \in Disk : told[o][d] \in {"ok", "missing"} THEN "acked" ELSE "failed"

\* Faulty variant of JoinDelete: the first answer is enough.
JoinDeleteFirst(o) ==
  /\ phase[o] = "deleting" /\ \E d \in Disk : told[o][d] # "none"
  /\ End(o, DeleteOutcome(o))
  /\ Release(o)
  /\ UNCHANGED <<store, step, stamp, faulty>>

JoinDelete(o) ==
  /\ phase[o] = "deleting" /\ AllTold(o)
  /\ End(o, DeleteOutcome(o))
  /\ Release(o)
  /\ UNCHANGED <<store, step, stamp, faulty>>

-------------------------------------------------------------------------------
(* What the coordinator's node does to it.                                  *)

\* The lease lapses: the peers no longer know the lock.
Lapse(o) ==
  /\ holder = o /\ phase[o] \in env.lapse
  /\ holder' = None
  /\ UNCHANGED <<store, phase, step, view, told, stamp, faulty, past, env>>

\* The coordinator dies.  Its handlers go on where they run on another node;
\* a PUT that was staging leaves shards behind.
Crash(o) ==
  /\ phase[o] \in env.crash
  /\ phase' = [phase EXCEPT ![o] = "dead"]
  /\ \E on \in SUBSET Disk :
       step' = [step EXCEPT ![o] = [d \in Disk |-> IF d \in on THEN @[d] ELSE "idle"]]
  /\ IF phase[o] = "staging"
     THEN \E on \in SUBSET Disk :
            store' = [d \in Disk |-> IF d \in on THEN StageData(store[d], o) ELSE store[d]]
     ELSE UNCHANGED store
  /\ UNCHANGED <<view, told, holder, stamp, faulty, past, env>>

\* The dead coordinator's lease runs out, long after its handlers are through.
Expire(o) ==
  /\ phase[o] = "dead"
  /\ \A d \in Disk \ faulty : step[o][d] = "idle"
  /\ End(o, "lost")
  /\ Release(o)
  /\ UNCHANGED <<store, step, stamp, faulty>>

\* Every operation has ended and no handler is left.
Finished ==
  /\ \A o \in env.ops : phase[o] \in Ended /\ \A d \in Disk : step[o][d] = "idle"
  /\ UNCHANGED vars

PutNext(w) ==
  \/ StartPut(w) \/ StageFails(w) \/ Promote(w) \/ FencedOff(w)
  \/ Join(w) \/ FinishUndo(w) \/ AckPut(w) \/ Lapse(w)
  \/ \E d \in Disk :
       \/ RenameRead(w, d) \/ RenameGraft(w, d) \/ RenameBackup(w, d)
       \/ RenameCommit(w, d) \/ Undo(w, d) \/ CleanStale(w, d)

DeleteNext(o) ==
  \/ StartDelete(o) \/ JoinDelete(o)
  \/ \E d \in Disk : DeleteFind(o, d) \/ DeleteTrash(o, d) \/ DeleteUnlink(o, d)

Next ==
  \/ \E w \in Write : PutNext(w)
  \/ \E o \in Delete \cup Batch : DeleteNext(o)
  \/ \E o \in Op : Crash(o) \/ Expire(o) \/ \E d \in Disk : CallFails(o, d)
  \/ Finished

Spec == Init /\ [][Next]_vars
-------------------------------------------------------------------------------
Quiet == \A o \in Op : ~Running(o)

\* xl.meta lists the newest record first and a read takes that one.
Latest(W) == CHOOSE w \in W : \A v \in W : stamp[v] <= stamp[w]

Probe(d) == IF store[d].meta = {} THEN "missing" ELSE Latest(store[d].meta)

Consensus == INSTANCE ReadConsensus WITH
  Contract <- Write, Tag <- {"missing", "io"}, Noise <- {}, Etag <- Write,
  etag <- [w \in Write |-> w], parity <- [w \in Write |-> Parity], Empty <- {}

\* What a GET of the key says if the value is val.
Expected(val) ==
  IF val = {} THEN Consensus!Surfaced("missing") ELSE Consensus!Found(Latest(val))

\* The disks from which the shards of w can be read.
Holders(w) == {d \in Disk : w \in Inline \/ w \in store[d].dirs}

DataShards == Cardinality(Disk) - Parity

\* Once no operation runs, a read of the disks returns what the answers to the
\* clients imply, and enough shards of it are there: an acknowledged PUT or
\* DELETE is durable and a PUT that failed is undone, although a disk failed
\* in it (promote_versions with its undo, delete_objects, read_with_consensus).
AckedReadable ==
  Quiet =>
    \A down \in SUBSET faulty :
      LET ans == [d \in Disk |-> IF d \in down THEN "io" ELSE Probe(d)]
          possible == {Expected(p.val) : p \in past}
      IN  /\ Consensus!Outcomes(ans) \subseteq possible
          /\ \A w \in Write : Consensus!Found(w) \in Consensus!Outcomes(ans)
               => Cardinality(Holders(w) \ down) >= DataShards

\* A batch DELETE has run.
Batched == \E o \in Batch : phase[o] # "new"

\* Once no operation runs the disks that have not failed hold the same versions,
\* those the answers to the clients imply: a PUT keeps the other versions of
\* the object (the merge in rename_data).  A batch DELETE, which takes no lock,
\* may leave some disks with a concurrent PUT and some without.
VersionsKept ==
  Quiet /\ ~Batched => \E p \in past : \A d \in Disk \ faulty : store[d].meta = p.val

\* On a disk that has not failed every erasure coded record in xl.meta has its
\* data directory, except while a delete is between its two halves: the data
\* is grafted before the commit, and removed only after the record is.
RecordsBacked ==
  \A d \in Disk \ faulty :
    (\A o \in Delete \cup Batch : step[o][d] # "unlink")
      => store[d].meta \ Inline \subseteq store[d].dirs

\* Nothing is left behind on a disk that has not failed: once no operation
\* runs, if no coordinator crashed and no batch DELETE ran, the data directories
\* are those of the records and the staging directories are gone (cleanup_src,
\* old_data_dir).
NoOrphans ==
  Quiet /\ ~Batched /\ (\A o \in Op : phase[o] # "lost") =>
    \A d \in Disk \ faulty :
      /\ store[d].dirs = store[d].meta \ Inline
      /\ store[d].data = {} /\ store[d].next = {}
===============================================================================
