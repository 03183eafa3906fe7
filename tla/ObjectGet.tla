------------------------------ MODULE ObjectGet -------------------------------
(***************************************************************************)
(* A GET beside the writers of ObjectSet (Engine::get_versioned).  It takes *)
(* no lock: it probes xl.meta on every disk, lets the votes decide, and     *)
(* only then opens the shards of the record it found, disk by disk.         *)
(***************************************************************************)
EXTENDS ObjectSet

VARIABLES
  got,      \* where the GET is
  ans,      \* the records it has read
  opened,   \* the shards it has opened
  result,   \* what read_with_consensus returned
  seen      \* history: what a GET could have returned at some time since it began

gvars == <<got, ans, opened, result, seen>>

Now == {Expected(p.val) : p \in past}

GetInit ==
  /\ Init
  /\ got = "new"
  /\ ans = Everywhere("none")
  /\ opened = Everywhere("none")
  /\ result = None
  /\ seen = {}

BeginGet ==
  /\ got = "new"
  /\ got' = "probing"
  /\ seen' = Now
  /\ UNCHANGED <<vars, ans, opened, result>>

\* read_version on one disk; one that has failed may not answer.
ReadVersion(d) ==
  /\ got = "probing" /\ ans[d] = "none"
  /\ \E a \in {Probe(d)} \cup (IF d \in faulty THEN {"io"} ELSE {}) :
       ans' = [ans EXCEPT ![d] = a]
  /\ UNCHANGED <<vars, got, opened, result, seen>>

\* A record is opened, unless it came inline; anything else ends the GET.
AfterDecide ==
  got' = IF result'.kind = "found" /\ result'.what \notin Inline THEN "opening" ELSE "done"

\* All disks have answered.
Decide ==
  /\ got = "probing" /\ \A d \in Disk : ans[d] # "none"
  /\ result' \in Consensus!Outcomes(ans)
  /\ AfterDecide
  /\ UNCHANGED <<vars, ans, opened, seen>>

\* read_file_stream on one disk: it succeeds if the data directory is there.
OpenShard(d) ==
  /\ got = "opening" /\ opened[d] = "none"
  /\ opened' = [opened EXCEPT ![d] = IF d \in Holders(result.what) THEN "yes" ELSE "no"]
  /\ UNCHANGED <<vars, got, ans, result, seen>>

\* open_ec_part_stream: with fewer than D shards the object is not found.
Serve ==
  /\ got = "opening" /\ \A d \in Disk : opened[d] # "none"
  /\ got' = IF Cardinality({d \in Disk : opened[d] = "yes"}) >= DataShards
            THEN "done" ELSE "gone"
  /\ UNCHANGED <<vars, ans, opened, result, seen>>

GetSteps ==
  \/ BeginGet \/ Decide \/ Serve
  \/ \E d \in Disk : ReadVersion(d) \/ OpenShard(d)

\* A step of a writer; while the GET runs its history grows.
WriterSteps ==
  /\ Next
  /\ seen' = IF got \in {"probing", "opening"} THEN seen \cup Now' ELSE seen
  /\ UNCHANGED <<got, ans, opened, result>>

GetNext == GetSteps \/ WriterSteps

GetSpec == GetInit /\ [][GetNext]_<<vars, gvars>>

-------------------------------------------------------------------------------
\* A GET that answers with a record, or with "no such key", answers with what
\* the object was, or may have been, at some time while the GET ran: never
\* with a record that was overwritten, deleted or undone before it began, and
\* never with "no such key" for a key that existed throughout.
GetFresh ==
  got \in {"done", "opening"} /\ result.kind \in {"found", "error"} => result \in seen

\* The shards of the record found are only missing if the object was changed
\* while the GET ran.
GoneOnlyIfChanged == got = "gone" => Cardinality(seen) > 1

\* A GET only refuses to answer (InconsistentMeta, InsufficientOnlineDrives) if
\* the object was changed while the GET ran.
RefusedOnlyIfChanged ==
  got = "done" /\ result.kind \in {"inconsistent", "drives"} => Cardinality(seen) > 1

\* A GET that takes no lock fails only for a reason: what it found gone or could
\* not agree on was changed by a writer, or kept back by a failing disk.
FailsOnlyIfChanged == GoneOnlyIfChanged /\ RefusedOnlyIfChanged
===============================================================================
