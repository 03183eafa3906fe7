----------------------------- MODULE RemoteStream -----------------------------
(***************************************************************************)
(* A shard file written to, and read from, a disk of another node over      *)
(* HTTP/2 (remote_fs.rs, rpc_server.rs).  The writer pushes buffers into a  *)
(* bounded channel; a spawned request pulls them and sends frames, cut as   *)
(* the transport likes; the server pumps frames into the local file and     *)
(* answers when the file is complete.  A read runs the other way.  The      *)
(* connection may break at any moment.  Bytes are numbered 1, 2, ...        *)
(***************************************************************************)
EXTENDS Naturals, Sequences, FiniteSets, SequencesExt

CONSTANTS
  RsJob,        \* [kind |-> "write", expect, give]: bytes announced, and lengths of the
                \* buffers the engine writes; or [kind |-> "read", have, ask]: length
                \* of the file, and bytes asked of it
  Depth         \* PUT_CHANNEL_DEPTH, plus the slot of the sender

VARIABLES
  rs,           \* the job
  give,         \* buffers the engine has still to write
  chan,         \* the body channel
  written,      \* RemoteWriteSink.written
  sink,         \* the engine's side: "writing", "finishing", "ok", "failed"
  open,         \* the sender is held: the channel can still grow
  req,          \* the request task: "sending", "sent", "ok", "failed"
  body,         \* bytes on the wire, in order
  ended,        \* END_STREAM was sent
  srv,          \* handle_stream_write: "pump", "ok", "failed"
  moved,        \* bytes pumped
  file,         \* the shard file
  reader,       \* "open", "reading", "eof", "failed", of a read
  sent,         \* bytes the read handler has sent
  inflight,     \* bytes of the read on the wire
  rgot,         \* bytes the reader has
  rsEnded,      \* how the response body ended: "no", "clean", "broken"
  conn          \* the connection stands

rsVars == <<rs, give, chan, written, sink, open, req, body, ended, srv, moved, file,
            reader, sent, inflight, rgot, rsEnded, conn>>

writeVars == <<give, chan, written, sink, open, req, body, ended, srv, moved, file>>
readVars == <<reader, sent, inflight, rgot, rsEnded>>

Writing == rs.kind = "write"

RsInit ==
  /\ rs \in RsJob
  /\ give = IF Writing THEN rs.give ELSE <<>>
  /\ chan = <<>> /\ written = 0 /\ open = TRUE /\ body = <<>> /\ ended = FALSE
  /\ sink = IF Writing THEN "writing" ELSE "idle"
  /\ req = IF Writing THEN "sending" ELSE "idle"
  /\ srv = IF Writing THEN "pump" ELSE "idle"
  /\ moved = 0 /\ file = <<>>
  /\ reader = IF Writing THEN "idle" ELSE "open"
  /\ sent = 0 /\ inflight = <<>> /\ rgot = <<>> /\ rsEnded = "no"
  /\ conn = TRUE

\* Bytes from+1 .. from+n of a stream.
Run(from, n) == [i \in 1..n |-> from + i]

-------------------------------------------------------------------------------
\* RemoteWriteSink::write_all: the buffer goes into the channel when there is
\* room; an empty one is nothing.
WriteAll ==
  /\ sink = "writing" /\ give # <<>>
  /\ Head(give) > 0 => Len(chan) < Depth /\ req = "sending"
  /\ chan' = IF Head(give) = 0 THEN chan ELSE Append(chan, Run(written, Head(give)))
  /\ written' = written + Head(give)
  /\ give' = Tail(give)
  /\ UNCHANGED <<rs, sink, open, req, body, ended, srv, moved, file, conn, readVars>>

\* The request has ended and dropped the receiver: send fails, the engine
\* gives the sink up, and dropping it cancels what is left of the request.
WriteRefused ==
  /\ sink = "writing" /\ give # <<>> /\ Head(give) > 0 /\ req # "sending"
  /\ sink' = "failed" /\ open' = FALSE
  /\ UNCHANGED <<rs, give, chan, written, req, body, ended, srv, moved, file, conn, readVars>>

\* finish: the count must be right; then the channel is closed and the answer
\* awaited.
Finish ==
  /\ sink = "writing" /\ give = <<>>
  /\ sink' = IF written = rs.expect THEN "finishing" ELSE "failed"
  /\ open' = FALSE
  /\ UNCHANGED <<rs, give, chan, written, req, body, ended, srv, moved, file, conn, readVars>>

\* Faulty variant of PullBody: the request is only polled by finish.
PullBodyLate ==
  /\ req = "sending" /\ chan # <<>> /\ conn /\ sink # "writing"
  /\ body' = body \o Head(chan)
  /\ chan' = Tail(chan)
  /\ UNCHANGED <<rs, give, written, sink, open, req, ended, srv, moved, file, conn, readVars>>

\* The request task pulls a buffer from the channel.
PullBody ==
  /\ req = "sending" /\ chan # <<>> /\ conn
  /\ body' = body \o Head(chan)
  /\ chan' = Tail(chan)
  /\ UNCHANGED <<rs, give, written, sink, open, req, ended, srv, moved, file, conn, readVars>>

\* The channel is closed and drained: the body ends.
EndBody ==
  /\ req = "sending" /\ chan = <<>> /\ sink = "finishing" /\ conn
  /\ req' = "sent" /\ ended' = TRUE
  /\ UNCHANGED <<rs, give, chan, written, sink, open, body, srv, moved, file, conn, readVars>>

\* A failed sink is dropped with its JoinHandle: the request is cancelled and its
\* stream reset.
Cancel ==
  /\ sink = "failed" /\ req \in {"sending", "sent"}
  /\ req' = "failed"
  /\ UNCHANGED <<rs, give, chan, written, sink, open, body, ended, srv, moved, file, conn, readVars>>

\* A frame that overshoots what was announced is cut.
Taken(n) == IF moved + n > rs.expect THEN rs.expect - moved ELSE n

\* pump_body_into_sink: a frame of any length is appended to the file.
Pump ==
  /\ srv = "pump" /\ moved < rs.expect /\ body # <<>>
  /\ \E n \in 1..Len(body) :
       /\ file' = file \o SubSeq(body, 1, Taken(n))
       /\ moved' = moved + Taken(n)
       /\ body' = SubSeq(body, n + 1, Len(body))
  /\ UNCHANGED <<rs, give, chan, written, sink, open, req, ended, srv, conn, readVars>>

\* The disk refuses: the file cannot be created, or a write fails.
PumpFails ==
  /\ srv = "pump" /\ (moved = 0 \/ body # <<>>)
  /\ srv' = "failed"
  /\ UNCHANGED <<rs, give, chan, written, sink, open, req, body, ended, moved, file, conn, readVars>>

\* No more frames will come.
BodyOver == ended \/ ~conn \/ req = "failed"

\* The pump ends: all bytes are there, or the body ended or broke early.  The
\* local sink is finished either way, and checks its own count.
PumpEnds ==
  /\ srv = "pump"
  /\ \/ moved = rs.expect /\ srv' \in {"ok", "failed"}
     \/ moved < rs.expect /\ body = <<>> /\ BodyOver /\ srv' = "failed"
  /\ UNCHANGED <<rs, give, chan, written, sink, open, req, body, ended, moved, file, conn, readVars>>

\* The answer reaches the request task, which then drops the body; an early
\* error ends a request that is still sending.
Answer ==
  /\ srv \in {"ok", "failed"} /\ req \in {"sending", "sent"} /\ conn
  /\ req' = srv
  /\ UNCHANGED <<rs, give, chan, written, sink, open, body, ended, srv, moved, file, conn, readVars>>

\* The connection is gone: the request fails.
RequestFails ==
  /\ ~conn /\ req \in {"sending", "sent"}
  /\ req' = "failed"
  /\ UNCHANGED <<rs, give, chan, written, sink, open, body, ended, srv, moved, file, conn, readVars>>

\* Faulty variant of Finished: any answer is a success.
FinishedAny ==
  /\ sink = "finishing" /\ req \in {"ok", "failed"}
  /\ sink' = "ok"
  /\ UNCHANGED <<rs, give, chan, written, open, req, body, ended, srv, moved, file, conn, readVars>>

\* finish_inner: the status and the decoded answer.
Finished ==
  /\ sink = "finishing" /\ req \in {"ok", "failed"}
  /\ sink' = req
  /\ UNCHANGED <<rs, give, chan, written, open, req, body, ended, srv, moved, file, conn, readVars>>

-------------------------------------------------------------------------------
\* read_file_stream: the handler opens the file and the response has a body, or
\* the disk or the connection fails.
ReadOpen ==
  /\ reader = "open" /\ reader' \in {"failed"} \cup (IF conn THEN {"reading"} ELSE {})
  /\ UNCHANGED <<rs, writeVars, sent, inflight, rgot, rsEnded, conn>>

\* handle_stream_read: a chunk of the file, cut to what was asked.
SendChunk ==
  /\ reader = "reading" /\ rsEnded = "no" /\ conn
  /\ sent < rs.ask /\ sent < rs.have
  /\ \E n \in 1..(rs.have - sent) :
       LET take == IF sent + n > rs.ask THEN rs.ask - sent ELSE n
       IN inflight' = inflight \o Run(sent, take) /\ sent' = sent + take
  /\ UNCHANGED <<rs, writeVars, reader, rgot, rsEnded, conn>>

\* The unfold ends: enough was sent, or the file is shorter than its record
\* says, and then the body breaks off before the announced length.
SendEnds ==
  /\ reader = "reading" /\ rsEnded = "no" /\ conn
  /\ sent >= rs.ask \/ sent >= rs.have
  /\ rsEnded' = IF sent >= rs.ask THEN "clean" ELSE "broken"
  /\ UNCHANGED <<rs, writeVars, reader, sent, inflight, rgot, conn>>

\* The disk fails under the read: an error frame ends the body.
SendFails ==
  /\ reader = "reading" /\ rsEnded = "no" /\ sent < rs.ask
  /\ rsEnded' = "broken"
  /\ UNCHANGED <<rs, writeVars, reader, sent, inflight, rgot, conn>>

\* Faulty variant of ReadEnds: the end of the body is the end of the stream.
ReadEndsAnyhow ==
  /\ reader = "reading"
  /\ \/ Len(rgot) = rs.ask \/ (inflight = <<>> /\ (rsEnded # "no" \/ ~conn))
  /\ reader' = "eof"
  /\ UNCHANGED <<rs, writeVars, sent, inflight, rgot, rsEnded, conn>>

\* RemoteReadStream::read: the end is where the count says; a body that ends
\* before is an error.
ReadEnds ==
  /\ reader = "reading"
  /\ \/ Len(rgot) = rs.ask /\ reader' = "eof"
     \/ Len(rgot) < rs.ask /\ inflight = <<>> /\ (rsEnded # "no" \/ ~conn) /\ reader' = "failed"
  /\ UNCHANGED <<rs, writeVars, sent, inflight, rgot, rsEnded, conn>>

ReadFrame ==
  /\ reader = "reading" /\ Len(rgot) < rs.ask /\ inflight # <<>>
  /\ \E n \in 1..Len(inflight) :
       /\ rgot' = rgot \o SubSeq(inflight, 1, n)
       /\ inflight' = SubSeq(inflight, n + 1, Len(inflight))
  /\ UNCHANGED <<rs, writeVars, reader, sent, rsEnded, conn>>

\* The connection breaks: what is under way may be lost, and the handlers end.
Break ==
  /\ conn /\ conn' = FALSE
  /\ body' \in {SubSeq(body, 1, n) : n \in 0..Len(body)}
  /\ inflight' \in {SubSeq(inflight, 1, n) : n \in 0..Len(inflight)}
  /\ UNCHANGED <<rs, give, chan, written, sink, open, req, ended, srv, moved, file, reader, sent,
                 rgot, rsEnded>>

RsProgress ==
  \/ WriteAll \/ WriteRefused \/ Finish \/ PullBody \/ EndBody \/ Cancel \/ Pump \/ PumpEnds \/ Answer
  \/ RequestFails \/ Finished \/ ReadOpen \/ SendChunk \/ SendEnds \/ ReadEnds \/ ReadFrame

RsNext == RsProgress \/ PumpFails \/ SendFails \/ Break

-------------------------------------------------------------------------------
\* RemoteWriteSink::finish: Ok is only returned when the remote file holds exactly
\* the bytes written, in order and as many as were announced, wherever the
\* connection broke and however the frames were cut.
FinishExact == sink = "ok" => file = Run(0, rs.expect)

\* RemoteReadStream: the reader has the bytes of the file in order, and sees the
\* end only after as many as it asked for: a short file or a broken connection
\* is an error.
ReadExact ==
  /\ rgot = Run(0, Len(rgot))
  /\ reader = "eof" => Len(rgot) = rs.ask

\* create_file_writer spawns its request "or the body channel would deadlock": a
\* writer and a reader that have begun come to an end, also when the server
\* refuses the body while the channel is full, or the connection breaks.
StreamsEnd ==
  /\ (written > 0 \/ sink = "finishing") ~> sink \in {"ok", "failed"}
  /\ reader = "reading" ~> reader \in {"eof", "failed"}

\* A stream over HTTP/2 that reports success has moved the file exactly
\* (RemoteWriteSink, RemoteReadStream).
StreamExact == FinishExact /\ ReadExact
===============================================================================
