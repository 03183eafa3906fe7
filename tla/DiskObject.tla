------------------------------ MODULE DiskObject ------------------------------
(***************************************************************************)
(* One key on one disk (openlake_io/src/local_fs.rs).  The object directory *)
(* holds xl.meta, a set of version records; xl.meta.bkp, the records before *)
(* the last overwrite of a version; and one data directory per erasure      *)
(* coded record.  A writer's staging directory holds its data directory and *)
(* the merged xl.meta.  A record is named by the write that made it.  Every *)
(* operator below is one file system step: a rename or an fsynced write.    *)
(***************************************************************************)
EXTENDS Naturals, FiniteSets

CONSTANTS
  Write,       \* the PUTs of the key
  Versioned,   \* those of a bucket with versioning: a version id of their own
  Inline       \* those small enough to live inside xl.meta

ASSUME WriteAssumption == Versioned \subseteq Write /\ Inline \subseteq Write

DiskState == [meta : SUBSET Write, bkp : SUBSET Write, dirs : SUBSET Write,
              data : SUBSET Write, next : SUBSET Write]

\* The object of the writes in W, all of them complete.
Holding(W) == [meta |-> W, bkp |-> {}, dirs |-> W \ Inline, data |-> {}, next |-> {}]

\* next_version_id: without versioning the id is always "null".
SameVersion(v, w) == v = w \/ (v \notin Versioned /\ w \notin Versioned)

Replaced(view, w) == {v \in view : SameVersion(v, w)}

\* Faulty variant of Merge: the other versions are forgotten.
MergeOnly(view, w) == {w}

\* The new versions array: the record with the same id gives way.
Merge(view, w) == (view \ Replaced(view, w)) \cup {w}

\* Faulty variant of OldDirs: the data of every version in the old xl.meta.
OldDirsView(view, w) == view \ Inline

\* Faulty variant of OldDirs: the overwritten data is not reported.
OldDirsNone(view, w) == {}

\* old_data_dir: what the overwritten record leaves behind.
OldDirs(view, w) == Replaced(view, w) \ Inline

\* The shards of w, written under the staging directory.
StageData(s, w) == [s EXCEPT !.data = @ \cup ({w} \ Inline)]

\* rename_data, S-4: the merged xl.meta is written to the staging directory.
StageMeta(s, w) == [s EXCEPT !.next = @ \cup {w}]

\* S-5: the data directory is moved into the object.  If it is not there the
\* code goes on.
Graft(s, w) ==
  IF w \in s.data
  THEN [s EXCEPT !.data = @ \ {w}, !.dirs = @ \cup {w}]
  ELSE s

\* S-6: the xl.meta read at the start is saved if w replaces a record of it.
Backup(s, w, view) ==
  IF Replaced(view, w) = {} THEN s ELSE [s EXCEPT !.bkp = view]

\* S-7: the staged xl.meta is renamed over the live one.
Commit(s, w, view) == [s EXCEPT !.meta = Merge(view, w), !.next = @ \ {w}]

\* Faulty variant of UndoWrite: all data directories are removed.
UndoWriteAllDirs(s, w) ==
  IF s.bkp # {}
  THEN [s EXCEPT !.meta = s.bkp, !.bkp = {}, !.dirs = {}]
  ELSE [s EXCEPT !.meta = {}, !.bkp = {}, !.dirs = {}]

\* delete_version with undo_write: xl.meta.bkp is renamed back; without one the
\* whole object directory goes to the trash.
UndoWrite(s, w) ==
  IF s.bkp # {}
  THEN [s EXCEPT !.meta = s.bkp, !.bkp = {}, !.dirs = @ \ {w}]
  ELSE [s EXCEPT !.meta = {}, !.bkp = {}, !.dirs = {}]

\* Data directories are moved to the trash.
DropDirs(s, W) == [s EXCEPT !.dirs = @ \ W]

\* delete_object_scoped: xl.meta and its backup are unlinked.
Unlink(s) == [s EXCEPT !.meta = {}, !.bkp = {}]

\* cleanup_src: the staging directory of w is moved to the trash.
CleanSource(s, w) == [s EXCEPT !.data = @ \ {w}, !.next = @ \ {w}]
===============================================================================
