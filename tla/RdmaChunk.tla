------------------------------ MODULE RdmaChunk ------------------------------
(***************************************************************************)
(* Shard files over RDMA (rdma_backend.rs, rdma_server.rs).  A stream is cut *)
(* in chunks; each chunk takes a buffer of the client's registered pool,     *)
(* sends a request that names it, and waits in a detached task.  The server  *)
(* reaches into that buffer by itself: it rdma_writes what it read from disk, *)
(* or rdma_reads what it will write.  A caller may go away and a write may    *)
(* time out while the server is still at work, and the pool hands the buffer *)
(* to the next chunk.  A byte is <<stream, index>>.                           *)
(***************************************************************************)
EXTENDS Naturals, Sequences, FiniteSets

CONSTANTS
  Streams,      \* streams in progress on one client runtime
  ChunkJob,     \* functions from Streams to [kind, size, have, cap]: bytes announced
                \* and given, or asked for; for a read the length of the file; the
                \* buf_size of the server's pool
  BulkBufs,     \* the client's bulk_pool
  BufSize,      \* bulk_pool.buf_size of the client
  NoBulk,
  ChunkFaults   \* bound on what goes wrong

VARIABLES
  cjob,         \* the streams' jobs
  phase,        \* stream -> "next", "posting", "waiting", "done", "failed", "gone"
  chunkPos,       \* stream -> bytes read or written so far (a write counts the chunk under way)
  hold,         \* stream -> buffer the chunk's future, task or Bytes holds
  mem,          \* buffer -> its bytes
  answered,     \* stream -> the reply in the pending map: "none", "waits", or the reply
  work,         \* stream -> the server's handler: "none", "queued", "moved", "stored"
  chunkWire,         \* stream -> [buf, off, len] the request names
  sbuf,         \* stream -> the server's buffer
  cfile,        \* stream -> the file, bytes
  cgot,         \* stream -> bytes the reader was given
  strayed,      \* a read let its buffer go with its request already sent
  lostReply,    \* streams whose reply was lost
  cfaults

chunkVars == <<cjob, phase, chunkPos, hold, mem, answered, work, chunkWire, sbuf, cfile, cgot, strayed,
               lostReply, cfaults>>

ChunkByte(s, n) == [i \in 1..n |-> <<s, i>>]
Reads(s) == cjob[s].kind = "read"
SmallerOf(a, b) == IF a < b THEN a ELSE b

ChunkInit ==
  /\ cjob \in ChunkJob
  /\ phase = [s \in Streams |-> "next"] /\ chunkPos = [s \in Streams |-> 0]
  /\ hold = [s \in Streams |-> NoBulk] /\ mem = [b \in BulkBufs |-> <<>>]
  /\ answered = [s \in Streams |-> "none"] /\ work = [s \in Streams |-> "none"]
  /\ chunkWire = [s \in Streams |-> [buf |-> NoBulk, off |-> 0, len |-> 0]]
  /\ sbuf = [s \in Streams |-> <<>>]
  /\ cfile = [s \in Streams |-> IF Reads(s) THEN ChunkByte(s, cjob[s].have) ELSE <<>>]
  /\ cgot = [s \in Streams |-> <<>>]
  /\ strayed = FALSE /\ lostReply = {} /\ cfaults = ChunkFaults

Free == BulkBufs \ {hold[s] : s \in Streams}
Fault == cfaults > 0 /\ cfaults' = cfaults - 1

\* mem with the bytes bs at the front of buffer b.
Overlay(b, bs) == [mem EXCEPT ![b] = bs \o SubSeq(@, Len(bs) + 1, Len(@))]

-------------------------------------------------------------------------------
ChunkLen(s) == SmallerOf(cjob[s].size - chunkPos[s], BufSize)

\* write_single_chunk_inner: take a buffer, copy the piece in, register the
\* request, and post it; write_all has already moved its chunkPos.
PostWrite(s, b) ==
  /\ ~Reads(s) /\ phase[s] = "next" /\ chunkPos[s] < cjob[s].size /\ work[s] = "none"
  /\ b \in Free
  /\ hold' = [hold EXCEPT ![s] = b]
  /\ mem' = Overlay(b, [i \in 1..ChunkLen(s) |-> <<s, chunkPos[s] + i>>])
  /\ chunkWire' = [chunkWire EXCEPT ![s] = [buf |-> b, off |-> chunkPos[s], len |-> ChunkLen(s)]]
  /\ chunkPos' = [chunkPos EXCEPT ![s] = @ + ChunkLen(s)]
  /\ answered' = [answered EXCEPT ![s] = "waits"]
  /\ work' = [work EXCEPT ![s] = "queued"]
  /\ phase' = [phase EXCEPT ![s] = "posting"]
  /\ UNCHANGED <<cjob, sbuf, cfile, cgot, strayed, lostReply, cfaults>>

\* read_single_chunk_inner: take a buffer, register the request, and post it.
PostRead(s, b) ==
  /\ Reads(s) /\ phase[s] = "next" /\ chunkPos[s] < cjob[s].size /\ work[s] = "none"
  /\ b \in Free
  /\ hold' = [hold EXCEPT ![s] = b]
  /\ chunkWire' = [chunkWire EXCEPT ![s] = [buf |-> b, off |-> chunkPos[s], len |-> ChunkLen(s)]]
  /\ answered' = [answered EXCEPT ![s] = "waits"]
  /\ work' = [work EXCEPT ![s] = "queued"]
  /\ phase' = [phase EXCEPT ![s] = "posting"]
  /\ UNCHANGED <<cjob, chunkPos, mem, sbuf, cfile, cgot, strayed, lostReply, cfaults>>

\* The send completes: the detached task takes the buffer over.
ChunkSent(s) ==
  /\ phase[s] = "posting"
  /\ phase' = [phase EXCEPT ![s] = "waiting"]
  /\ UNCHANGED <<cjob, chunkPos, hold, mem, answered, work, chunkWire, sbuf, cfile, cgot, strayed, lostReply,
                 cfaults>>

\* The send fails: the request is forgotten and the buffer returned, though the
\* peer may have it.
ChunkSendFails(s) ==
  /\ phase[s] = "posting" /\ Fault
  /\ phase' = [phase EXCEPT ![s] = "failed"]
  /\ hold' = [hold EXCEPT ![s] = NoBulk]
  /\ answered' = [answered EXCEPT ![s] = "none"]
  /\ \/ work[s] = "queued" /\ work' = [work EXCEPT ![s] = "none"] /\ UNCHANGED strayed
     \/ strayed' = (strayed \/ (Reads(s) /\ work[s] # "none")) /\ UNCHANGED work
  /\ UNCHANGED <<cjob, chunkPos, mem, chunkWire, sbuf, cfile, cgot, lostReply>>

\* Faulty variant of AbandonChunk: the waiting future owns the buffer.
AbandonFrees(s) ==
  /\ phase[s] \in {"posting", "waiting"} /\ Fault
  /\ phase' = [phase EXCEPT ![s] = "gone"]
  /\ hold' = [hold EXCEPT ![s] = NoBulk]
  /\ strayed' = (strayed \/ (phase[s] = "posting" /\ Reads(s)))
  /\ UNCHANGED <<cjob, chunkPos, mem, answered, work, chunkWire, sbuf, cfile, cgot, lostReply>>

\* The caller is dropped.  While the send completes the buffer goes with it, and
\* the pending entry stays; afterwards the detached task keeps the buffer until
\* the server has answered.
AbandonChunk(s) ==
  /\ phase[s] \in {"posting", "waiting"} /\ Fault
  /\ phase' = [phase EXCEPT ![s] = "gone"]
  /\ IF phase[s] = "posting"
     THEN hold' = [hold EXCEPT ![s] = NoBulk] /\ strayed' = (strayed \/ (Reads(s) /\ work[s] # "none"))
     ELSE UNCHANGED <<hold, strayed>>
  /\ UNCHANGED <<cjob, chunkPos, mem, answered, work, chunkWire, sbuf, cfile, cgot, lostReply>>

\* Faulty variant of TimeOut: the caller is not told.
TimeOutSilent(s) ==
  /\ ~Reads(s) /\ phase[s] \in {"waiting", "gone"} /\ answered[s] = "waits" /\ hold[s] # NoBulk
  /\ cfaults > 0 \/ s \in lostReply
  /\ cfaults' = IF s \in lostReply THEN cfaults ELSE cfaults - 1
  /\ hold' = [hold EXCEPT ![s] = NoBulk]
  /\ answered' = [answered EXCEPT ![s] = "none"]
  /\ UNCHANGED <<cjob, phase, chunkPos, mem, work, chunkWire, sbuf, cfile, cgot, strayed, lostReply>>

\* rdma_network_timeout: a write stops waiting; the buffer goes back while the
\* server may be about to read it.
TimeOut(s) ==
  /\ ~Reads(s) /\ phase[s] \in {"waiting", "gone"} /\ answered[s] = "waits" /\ hold[s] # NoBulk
  /\ cfaults > 0 \/ s \in lostReply
  /\ cfaults' = IF s \in lostReply THEN cfaults ELSE cfaults - 1
  /\ phase' = [phase EXCEPT ![s] = IF @ = "gone" THEN @ ELSE "failed"]
  /\ hold' = [hold EXCEPT ![s] = NoBulk]
  /\ answered' = [answered EXCEPT ![s] = "none"]
  /\ UNCHANGED <<cjob, chunkPos, mem, work, chunkWire, sbuf, cfile, cgot, strayed, lostReply>>

-------------------------------------------------------------------------------
\* handle_read_file_chunk, up to the disk: read_chunk_at fills what the file has.
ServerRead(s) ==
  /\ Reads(s) /\ work[s] = "queued" /\ chunkWire[s].len <= cjob[s].cap
  /\ sbuf' = [sbuf EXCEPT ![s] =
       SubSeq(cfile[s], chunkWire[s].off + 1, SmallerOf(chunkWire[s].off + chunkWire[s].len, Len(cfile[s])))]
  /\ work' = [work EXCEPT ![s] = "moved"]
  /\ UNCHANGED <<cjob, phase, chunkPos, hold, mem, answered, chunkWire, cfile, cgot, strayed, lostReply, cfaults>>

\* ...and rdma_write into the buffer the request named.
ServerPush(s) ==
  /\ Reads(s) /\ work[s] = "moved"
  /\ mem' = IF sbuf[s] = <<>> THEN mem ELSE Overlay(chunkWire[s].buf, sbuf[s])
  /\ work' = [work EXCEPT ![s] = "stored"]
  /\ UNCHANGED <<cjob, phase, chunkPos, hold, answered, chunkWire, sbuf, cfile, cgot, strayed, lostReply, cfaults>>

\* handle_write_file_chunk: rdma_read what the buffer holds now.
ServerPull(s) ==
  /\ ~Reads(s) /\ work[s] = "queued" /\ chunkWire[s].len <= cjob[s].cap
  /\ sbuf' = [sbuf EXCEPT ![s] = SubSeq(mem[chunkWire[s].buf], 1, chunkWire[s].len)]
  /\ work' = [work EXCEPT ![s] = "moved"]
  /\ UNCHANGED <<cjob, phase, chunkPos, hold, mem, answered, chunkWire, cfile, cgot, strayed, lostReply, cfaults>>

\* ...and write_chunk_at at the offset, past the end of the file if need be.
ServerStore(s) ==
  /\ ~Reads(s) /\ work[s] = "moved"
  /\ cfile' = [cfile EXCEPT ![s] =
       [i \in 1..(IF Len(@) > chunkWire[s].off + chunkWire[s].len THEN Len(@) ELSE chunkWire[s].off + chunkWire[s].len) |->
          IF i > chunkWire[s].off /\ i <= chunkWire[s].off + chunkWire[s].len THEN sbuf[s][i - chunkWire[s].off]
          ELSE IF i <= Len(@) THEN @[i] ELSE <<"hole", i>>]]
  /\ work' = [work EXCEPT ![s] = "stored"]
  /\ UNCHANGED <<cjob, phase, chunkPos, hold, mem, answered, chunkWire, sbuf, cgot, strayed, lostReply, cfaults>>

\* The reply reaches the dispatcher, which drops it when nobody waits.
ServerReply(s) ==
  /\ work[s] = "stored"
  /\ work' = [work EXCEPT ![s] = "none"]
  /\ answered' = [answered EXCEPT ![s] = IF @ = "waits" THEN "ready" ELSE @]
  /\ UNCHANGED <<cjob, phase, chunkPos, hold, mem, chunkWire, sbuf, cfile, cgot, strayed, lostReply, cfaults>>

\* A step of the server fails (buffers, transfer, disk): an error is the reply.
ServerErr(s) ==
  /\ work[s] \in {"queued", "moved"} /\ Fault
  /\ work' = [work EXCEPT ![s] = "none"]
  /\ answered' = [answered EXCEPT ![s] = IF @ = "waits" THEN "error" ELSE @]
  /\ UNCHANGED <<cjob, phase, chunkPos, hold, mem, chunkWire, sbuf, cfile, cgot, strayed, lostReply>>

\* A length over the server's own buffers is refused.
ServerRefuses(s) ==
  /\ work[s] = "queued" /\ chunkWire[s].len > cjob[s].cap
  /\ work' = [work EXCEPT ![s] = "none"]
  /\ answered' = [answered EXCEPT ![s] = IF @ = "waits" THEN "error" ELSE @]
  /\ UNCHANGED <<cjob, phase, chunkPos, hold, mem, chunkWire, sbuf, cfile, cgot, strayed, lostReply, cfaults>>

\* The reply cannot be sent.
ServerMute(s) ==
  /\ work[s] = "stored" /\ Fault
  /\ work' = [work EXCEPT ![s] = "none"]
  /\ lostReply' = lostReply \cup {s}
  /\ UNCHANGED <<cjob, phase, chunkPos, hold, mem, answered, chunkWire, sbuf, cfile, cgot, strayed>>

-------------------------------------------------------------------------------
\* The task has the reply.  A read hands out the filled part of its buffer and the
\* caller consumes it; a chunk shorter than asked for ends the stream.
GotRead(s) ==
  /\ Reads(s) /\ phase[s] \in {"waiting", "gone"} /\ answered[s] \in {"ready", "error"} /\ hold[s] # NoBulk
  /\ LET n == Len(sbuf[s]) IN
       IF phase[s] = "gone" THEN UNCHANGED <<phase, chunkPos, cgot>>
       ELSE IF answered[s] = "error" THEN phase' = [phase EXCEPT ![s] = "failed"] /\ UNCHANGED <<chunkPos, cgot>>
       ELSE /\ cgot' = [cgot EXCEPT ![s] = @ \o SubSeq(mem[hold[s]], 1, n)]
            /\ chunkPos' = [chunkPos EXCEPT ![s] = IF n < chunkWire[s].len THEN cjob[s].size ELSE @ + n]
            /\ phase' = [phase EXCEPT ![s] = "next"]
  /\ hold' = [hold EXCEPT ![s] = NoBulk]
  /\ answered' = [answered EXCEPT ![s] = "none"]
  /\ UNCHANGED <<cjob, mem, work, chunkWire, sbuf, cfile, strayed, lostReply, cfaults>>

\* A write's task returns the buffer and tells its caller.
GotWritten(s) ==
  /\ ~Reads(s) /\ phase[s] \in {"waiting", "gone"} /\ answered[s] \in {"ready", "error"} /\ hold[s] # NoBulk
  /\ phase' = [phase EXCEPT ![s] = IF @ = "gone" THEN @ ELSE IF answered[s] = "ready" THEN "next" ELSE "failed"]
  /\ hold' = [hold EXCEPT ![s] = NoBulk]
  /\ answered' = [answered EXCEPT ![s] = "none"]
  /\ UNCHANGED <<cjob, chunkPos, mem, work, chunkWire, sbuf, cfile, cgot, strayed, lostReply, cfaults>>

\* RdmaWriteSink::finish, or the reader meets the end.
StreamDone(s) ==
  /\ phase[s] = "next" /\ chunkPos[s] >= cjob[s].size
  /\ phase' = [phase EXCEPT ![s] = "done"]
  /\ UNCHANGED <<cjob, chunkPos, hold, mem, answered, work, chunkWire, sbuf, cfile, cgot, strayed, lostReply, cfaults>>

ChunkStep(s) ==
  \/ \E b \in BulkBufs : PostWrite(s, b) \/ PostRead(s, b)
  \/ ChunkSent(s) \/ ServerRead(s) \/ ServerPush(s) \/ ServerPull(s) \/ ServerStore(s) \/ ServerReply(s)
  \/ ServerRefuses(s) \/ GotRead(s) \/ GotWritten(s) \/ StreamDone(s)
  \/ (s \in lostReply /\ TimeOut(s))

ChunkNext ==
  \E s \in Streams :
    ChunkStep(s) \/ ChunkSendFails(s) \/ AbandonChunk(s) \/ TimeOut(s) \/ ServerErr(s) \/ ServerMute(s)

ChunkFairness == \A s \in Streams : WF_chunkVars(ChunkStep(s))

-------------------------------------------------------------------------------
\* The byte streams over RDMA: a stream that finished has its bytes in the file, or
\* has read the file's bytes in order, although buffers are reused after a timeout
\* while the server still reads them, and after the caller of a read went away.
\* (It is not promised once a read's buffer went back between the posting and the
\* completion of its request: strayed.)
ChunkIntact ==
  ~strayed =>
    \A s \in Streams :
      /\ phase[s] = "done" /\ ~Reads(s) => cfile[s] = ChunkByte(s, cjob[s].size)
      /\ Reads(s) => cgot[s] = ChunkByte(s, Len(cgot[s]))
      /\ phase[s] = "done" /\ Reads(s) => Len(cgot[s]) = SmallerOf(cjob[s].size, cjob[s].have)

\* Every chunk that was posted comes to an end: a write by its timeout at the latest.
\* A read has no timeout and waits for a reply, so one whose reply was lost is excepted.
ChunksEnd ==
  \A s \in Streams :
    phase[s] \in {"posting", "waiting"} ~>
      phase[s] \notin {"posting", "waiting"} \/ (Reads(s) /\ s \in lostReply)
===============================================================================
