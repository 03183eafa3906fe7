--------------------------------- MODULE Rpc ---------------------------------
(***************************************************************************)
(* Calls of a disk or of the lock table of another node (rpc.rs,            *)
(* remote_fs.rs, rdma_backend.rs, rpc_server.rs).  A method of the client   *)
(* encodes a Request; the server dispatches it to the disk and folds the    *)
(* disk's result into a Response variant; the client unfolds it again.      *)
(* Over HTTP/2 a call has a stream of its own; over RDMA replies find their *)
(* caller by request id, and the caller gives up after a timeout.           *)
(***************************************************************************)
EXTENDS Naturals, FiniteSets, Sequences, TLC

CONSTANTS
  Calls,        \* calls in progress
  RpcJob,       \* what the calls do: functions from Calls to
                \* [op, undo, disk, err, keys, yes]: the method, its undo_write, whether
                \* disk_idx exists, and the disk's own answer: an error or none, the
                \* per-key errors of a batch, the Boolean of a lock or an attach
  NoErr

VARIABLES
  rjob,
  rphase,       \* call -> "new", "sent", "done"
  rid,          \* call -> request_id
  nextId,
  rpending,     \* ids in pending_responses
  requests,     \* requests on the wire
  replies,      \* replies on the wire
  ran,          \* call -> how the disk was called: at most one [op, undo]
  result        \* call -> [err, keys, yes]

rpcVars == <<rjob, rphase, rid, nextId, rpending, requests, replies, ran, result>>

-------------------------------------------------------------------------------
\* IoError: what a StorageBackend answers.
IoErrors ==
  {"VolumeNotFound", "VolumeExists", "VolumeNotEmpty", "FileNotFound", "FileAlreadyExists",
   "FileVersionNotFound", "CorruptMetadata", "UnsupportedMetadataVersion", "BitrotCheckFailed",
   "InvalidArgument", "Unsupported", "Encode", "Decode", "Io"}

\* From<IoError> for WireError: five kinds have a name on the wire.
WireError(e) ==
  IF e \in {"VolumeNotFound", "VolumeExists", "VolumeNotEmpty", "FileNotFound", "FileAlreadyExists"}
  THEN e ELSE "Other"

\* From<WireError> for IoError.
IoError(w) == IF w = "Other" THEN "Decode" ELSE w

\* The requests that name a disk...
VolumeOps == {"DiskInfo", "MakeVol", "StatVol", "ListVols", "DeleteVol", "ListDir", "WalkDir"}
FileOps == {"RenameFile", "CheckFile", "Delete", "DeleteBatch"}
MetaOps == {"WriteMetadata", "UpdateMetadata", "ReadVersion", "DeleteVersion", "RenameData",
            "VerifyFile"}
BlobOps == {"ReadFormat", "WriteFormat", "WriteFile", "ReadFile", "MakeDirAll"}
\* ...and those of the node.
LockOps == {"LockAcquire", "LockRelease", "LockRefresh"}
NodeOps == LockOps \cup {"GetRdmaEndpoints", "RdmaAttach"}
DiskOps == VolumeOps \cup FileOps \cup MetaOps \cup BlobOps
RpcOps == DiskOps \cup NodeOps

\* RdmaBackend sends two methods itself and hands the others to its rpc_backend.
OverRdma(op) == op \in {"StatVol", "ReadVersion"}

-------------------------------------------------------------------------------
\* dispatch: the variant an arm answers with.
VolumeArms ==
  [DiskInfo |-> "Disk", MakeVol |-> "Ok", StatVol |-> "Vol", ListVols |-> "Vols", DeleteVol |-> "Ok",
   ListDir |-> "Strings", WalkDir |-> "Walked"]
FileArms == [RenameFile |-> "Ok", CheckFile |-> "Ok", Delete |-> "Ok", DeleteBatch |-> "DeleteBatchResult"]
MetaArms ==
  [WriteMetadata |-> "Ok", UpdateMetadata |-> "Ok", ReadVersion |-> "File", DeleteVersion |-> "Ok",
   RenameData |-> "Renamed", VerifyFile |-> "Ok"]
BlobArms ==
  [ReadFormat |-> "FormatOpt", WriteFormat |-> "Ok", WriteFile |-> "Ok", ReadFile |-> "FileBytes",
   MakeDirAll |-> "Ok"]
DiskArms == VolumeArms @@ FileArms @@ MetaArms @@ BlobArms

\* The lock table's Boolean has a variant for each value.
LockArm(op, yes) ==
  CASE op = "LockAcquire" -> IF yes THEN "LockGranted" ELSE "LockDenied"
    [] op = "LockRefresh" -> IF yes THEN "LockRefreshed" ELSE "LockNotFound"
    [] op = "LockRelease" -> "Ok"

EndpointArm(op, yes) ==
  IF op = "GetRdmaEndpoints" THEN "RdmaEndpoints" ELSE IF yes THEN "RdmaAttached" ELSE "RdmaAttachDenied"

\* fold, fold_unit: a disk's result as a Response; the errors of a batch travel
\* key by key.
Fold(variant, err, keys) ==
  [variant |-> IF err = NoErr THEN variant ELSE "Err",
   err |-> IF err = NoErr THEN NoErr ELSE WireError(err),
   keys |-> IF err = NoErr THEN [i \in DOMAIN keys |-> IF keys[i] = NoErr THEN NoErr ELSE WireError(keys[i])]
            ELSE <<>>]

\* disk_at refuses an index the node does not have.
DiskAt(j) == IF j.disk THEN j.err ELSE "InvalidArgument"

Dispatch(j) ==
  CASE j.op \in DiskOps -> Fold(DiskArms[j.op], DiskAt(j), j.keys)
    [] j.op \in LockOps -> Fold(LockArm(j.op, j.yes), NoErr, <<>>)
    [] OTHER -> Fold(EndpointArm(j.op, j.yes), NoErr, <<>>)

-------------------------------------------------------------------------------
\* The variant a client method takes for a success.
ClientVolume ==
  [DiskInfo |-> "Disk", MakeVol |-> "Ok", StatVol |-> "Vol", ListVols |-> "Vols", DeleteVol |-> "Ok",
   ListDir |-> "Strings"]
ClientFile == [RenameFile |-> "Ok", CheckFile |-> "Ok", Delete |-> "Ok", DeleteBatch |-> "DeleteBatchResult"]
ClientMeta ==
  [WriteMetadata |-> "Ok", ReadVersion |-> "File", WalkDir |-> "Walked", UpdateMetadata |-> "Ok",
   DeleteVersion |-> "Ok", RenameData |-> "Renamed", VerifyFile |-> "Ok"]
ClientBlob ==
  [ReadFormat |-> "FormatOpt", WriteFormat |-> "Ok", WriteFile |-> "Ok", ReadFile |-> "FileBytes",
   MakeDirAll |-> "Ok"]
ClientDisk == ClientVolume @@ ClientFile @@ ClientMeta @@ ClientBlob

ClientLock ==
  [LockAcquire |-> [yes |-> "LockGranted", no |-> "LockDenied"],
   LockRelease |-> [yes |-> "Ok", no |-> "Ok"],
   LockRefresh |-> [yes |-> "LockRefreshed", no |-> "LockNotFound"]]
ClientNode ==
  ClientLock @@ [GetRdmaEndpoints |-> [yes |-> "RdmaEndpoints", no |-> "RdmaEndpoints"],
                 RdmaAttach |-> [yes |-> "RdmaAttached", no |-> "RdmaAttachDenied"]]

Failed(e) == [err |-> e, keys |-> <<>>, yes |-> FALSE]

\* call_unit!, call_typed!: the variant expected is the value, Err is its error, and
\* any other variant is "unexpected".  delete_batch has no arm for Err.
Unfold(op, r) ==
  IF r.variant = "Err" THEN Failed(IF op = "DeleteBatch" THEN "Decode" ELSE IoError(r.err))
  ELSE IF op \in NodeOps THEN
    IF r.variant = ClientNode[op].yes THEN [err |-> NoErr, keys |-> <<>>, yes |-> TRUE]
    ELSE IF r.variant = ClientNode[op].no THEN [err |-> NoErr, keys |-> <<>>, yes |-> FALSE]
    ELSE Failed("Decode")
  ELSE IF r.variant = ClientDisk[op]
    THEN [err |-> NoErr, yes |-> FALSE,
          keys |-> [i \in DOMAIN r.keys |-> IF r.keys[i] = NoErr THEN NoErr ELSE IoError(r.keys[i])]]
  ELSE Failed("Decode")

-------------------------------------------------------------------------------
RpcInit ==
  /\ rjob \in RpcJob
  /\ rphase = [c \in Calls |-> "new"] /\ rid = [c \in Calls |-> 0] /\ nextId = 1
  /\ rpending = {} /\ requests = {} /\ replies = {}
  /\ ran = [c \in Calls |-> {}] /\ result = [c \in Calls |-> Failed("Io")]

\* Faulty variant of Send: the id of a request is its position among those pending.
SendReusing(c) ==
  /\ rphase[c] = "new"
  /\ rphase' = [rphase EXCEPT ![c] = "sent"]
  /\ rid' = [rid EXCEPT ![c] = Cardinality(rpending) + 1]
  /\ UNCHANGED nextId
  /\ rpending' = rpending \cup {rid'[c]}
  /\ requests' = requests \cup {[id |-> rid'[c], call |-> c, rdma |-> OverRdma(rjob[c].op)]}
  /\ UNCHANGED <<rjob, replies, ran, result>>

\* unary: the request goes out under a fresh id.
Send(c) ==
  /\ rphase[c] = "new"
  /\ rphase' = [rphase EXCEPT ![c] = "sent"]
  /\ rid' = [rid EXCEPT ![c] = nextId]
  /\ nextId' = nextId + 1
  /\ rpending' = rpending \cup {nextId}
  /\ requests' = requests \cup {[id |-> nextId, call |-> c, rdma |-> OverRdma(rjob[c].op)]}
  /\ UNCHANGED <<rjob, replies, ran, result>>

\* The disk is called with what the request carries: of the options undo_write alone.
Execute(j) == [op |-> j.op, undo |-> j.undo]

\* handle_unary, handle_bytes: decode, dispatch, reply.
Handle(q) ==
  /\ q \in requests
  /\ requests' = requests \ {q}
  /\ ran' = IF rjob[q.call].disk \/ rjob[q.call].op \in NodeOps
            THEN [ran EXCEPT ![q.call] = @ \cup {Execute(rjob[q.call])}] ELSE ran
  /\ replies' = replies \cup {[id |-> q.id, call |-> q.call, rdma |-> q.rdma, rsp |-> Dispatch(rjob[q.call])]}
  /\ UNCHANGED <<rjob, rphase, rid, nextId, rpending, result>>

\* A reply of an HTTP/2 stream, which is the caller's own.
ReplyH2(p) ==
  /\ p \in replies /\ ~p.rdma
  /\ replies' = replies \ {p}
  /\ IF rphase[p.call] = "sent"
     THEN /\ rphase' = [rphase EXCEPT ![p.call] = "done"]
          /\ result' = [result EXCEPT ![p.call] = Unfold(rjob[p.call].op, p.rsp)]
          /\ rpending' = rpending \ {p.id}
     ELSE UNCHANGED <<rphase, result, rpending>>
  /\ UNCHANGED <<rjob, rid, nextId, requests, ran>>

\* Envelope::Rsp: pending_responses finds the caller by the id; an id nobody waits
\* for is dropped.
ReplyRdma(p) ==
  /\ p \in replies /\ p.rdma
  /\ replies' = replies \ {p}
  /\ rpending' = rpending \ {p.id}
  /\ LET waits == {c \in Calls : rphase[c] = "sent" /\ rid[c] = p.id /\ OverRdma(rjob[c].op)} IN
       IF p.id \in rpending /\ waits # {}
       THEN LET c == CHOOSE c \in waits : TRUE IN
              /\ rphase' = [rphase EXCEPT ![c] = "done"]
              /\ result' = [result EXCEPT ![c] = Unfold(rjob[c].op, p.rsp)]
       ELSE UNCHANGED <<rphase, result>>
  /\ UNCHANGED <<rjob, rid, nextId, requests, ran>>

\* The connection fails (map_http), or rdma_network_timeout passes: an Io error, and
\* the pending entry is removed.  The request may have been, or still be, executed.
GiveUp(c) ==
  /\ rphase[c] = "sent"
  /\ rphase' = [rphase EXCEPT ![c] = "done"]
  /\ result' = [result EXCEPT ![c] = Failed("Io")]
  /\ rpending' = rpending \ {rid[c]}
  /\ UNCHANGED <<rjob, rid, nextId, requests, replies, ran>>

\* The network loses a request or a reply.
LoseCall ==
  /\ \/ \E q \in requests : requests' = requests \ {q} /\ UNCHANGED replies
     \/ \E p \in replies : replies' = replies \ {p} /\ UNCHANGED requests
  /\ UNCHANGED <<rjob, rphase, rid, nextId, rpending, ran, result>>

RpcNext ==
  \/ \E c \in Calls : Send(c) \/ GiveUp(c)
  \/ \E q \in requests : Handle(q)
  \/ \E p \in replies : ReplyH2(p) \/ ReplyRdma(p)
  \/ LoseCall

-------------------------------------------------------------------------------
\* The kinds the engine tells apart when it counts the answers of a set.
Telling == {"VolumeNotFound", "VolumeExists", "VolumeNotEmpty", "FileNotFound", "FileAlreadyExists"}

\* RemoteBackend stands for the disk of another node: a success, a Boolean and each
\* kind of error the engine counts is what that disk answered to this very call, made
\* with the caller's options; a failed transport never looks like one of them, nor a
\* late reply like the answer to another call; and no answer of the disk is
\* "unexpected".  A batch has its keys' answers in order.
RemoteAsLocal ==
  \A c \in Calls :
    rphase[c] = "done" =>
      LET j == rjob[c] r == result[c] IN
      /\ r.err = NoErr => /\ ran[c] = {[op |-> j.op, undo |-> j.undo]} /\ j.err = NoErr /\ r.yes = j.yes
                          /\ DOMAIN r.keys = DOMAIN j.keys
                          /\ \A i \in DOMAIN j.keys : j.keys[i] \in Telling \cup {NoErr} => r.keys[i] = j.keys[i]
      /\ r.err \in Telling => r.err = j.err /\ ran[c] # {}
      /\ r.err = "Decode" => j.err \notin Telling \cup {NoErr} \/ ~j.disk \/ j.op = "DeleteBatch"
===============================================================================
