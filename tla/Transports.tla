------------------------------ MODULE Transports ------------------------------
(***************************************************************************)
(* The streams that carry the bytes of an object: the body of an upload,    *)
(* shard files over HTTP/2, shard files in chunks over RDMA.  They share no *)
(* state; a behaviour runs one of them.                                     *)
(***************************************************************************)
EXTENDS Upload, RemoteStream, RdmaChunk

VARIABLE stage

vars == <<stage, upVars, rsVars, chunkVars>>

\* The jobs of a stream; the ones that do not run have one, which they never do.
Jobs(s, J) == IF stage = s THEN J ELSE {CHOOSE j \in J : TRUE}

Init ==
  /\ stage \in {"upload", "stream", "chunk"}
  /\ upjob \in Jobs("upload", UpJob)
  /\ rs \in Jobs("stream", RsJob)
  /\ cjob \in Jobs("chunk", ChunkJob)
  /\ UpInit /\ RsInit /\ ChunkInit

Uploads(A) == stage = "upload" /\ A /\ UNCHANGED <<stage, rsVars, chunkVars>>
Shards(A) == stage = "stream" /\ A /\ UNCHANGED <<stage, upVars, chunkVars>>
Chunks(A) == stage = "chunk" /\ A /\ UNCHANGED <<stage, upVars, rsVars>>

Next == Uploads(UpNext) \/ Shards(RsNext) \/ Chunks(ChunkNext)

Spec ==
  /\ Init /\ [][Next]_vars
  /\ WF_vars(Uploads(UpStep))
  /\ WF_vars(Shards(RsProgress))
  /\ \A s \in Streams : WF_vars(Chunks(ChunkStep(s)))

\* Every transfer ends, by success or by an error: an upload whatever the framing,
\* a streamed shard whatever breaks, an RDMA chunk by its reply or its timeout.
TransfersEnd == UploadAnswered /\ StreamsEnd /\ ChunksEnd
===============================================================================
