-------------------------------- MODULE Upload --------------------------------
(***************************************************************************)
(* The body of PutObject and UploadPart on its way from the connection to   *)
(* the engine (handlers/objects.rs, body_source.rs, auth.rs, engine.rs).    *)
(* The connection delivers the wire in frames of any size; BodySource       *)
(* serves the payload in one of three modes: as it comes, hashed against a  *)
(* declared digest, or cut out of aws-chunked framing whose chunks carry    *)
(* chained signatures.  The engine pulls until it has the declared size.    *)
(* Bytes are numbers; a signature is the chain of payloads it covers, and a *)
(* digest the bytes it covers, as both are collision free.                  *)
(***************************************************************************)
EXTENDS Integers, Sequences, SequencesExt, FiniteSetsExt

CONSTANTS
  UpJob,       \* [mode, chunks, size]: how, which chunks, the declared length
  MaxFrame,    \* the longest frame the connection delivers
  NoSize       \* x-amz-decoded-content-length is missing

VARIABLES
  upjob,
  wire,        \* what the connection has not delivered yet
  intact,      \* no byte has been altered on the way
  buffered,       \* ChunkedBodyStream::carry
  running,     \* running_sig
  hashed,      \* the bytes Sha256VerifyStream has digested
  pulled,      \* the payload the engine has taken
  upAt         \* "start", "pull", "stored", or the error of the answer

upVars == <<upjob, wire, intact, buffered, running, hashed, pulled, upAt>>

CRLF == [crlf |-> TRUE]
Line(n, sig) == [size |-> n, sig |-> sig]
Byte(b) == [byte |-> b]
IsCrlf(t) == "crlf" \in DOMAIN t
IsByte(t) == "byte" \in DOMAIN t
IsLine(t) == "size" \in DOMAIN t
Flipped == 0

\* Payload bytes are numbered from 1; chunk i of the body.
Chunk(i) ==
  LET before == FoldLeft(LAMBDA a, n : a + n, 0, SubSeq(upjob.chunks, 1, i - 1))
  IN [k \in 1..upjob.chunks[i] |-> before + k]
Payload == FlattenSeq([i \in DOMAIN upjob.chunks |-> Chunk(i)])

\* v4::sign_chunk: the signature of a payload that follows prev.
SignChunk(payload, prev) == Append(prev, payload)
Seed == <<>>

\* <size>;chunk-signature=<sig> CRLF payload CRLF, and a last chunk of no bytes.
Framed ==
  LET data == Append([i \in DOMAIN upjob.chunks |-> Chunk(i)], <<>>)
  IN FlattenSeq([i \in DOMAIN data |->
       <<Line(Len(data[i]), SubSeq(data, 1, i)), CRLF>>
         \o [k \in DOMAIN data[i] |-> Byte(data[i][k])] \o <<CRLF>>])

Wire == IF upjob.mode = "chunked" THEN Framed
        ELSE [k \in DOMAIN Payload |-> Byte(Payload[k])]

UpInit ==
  /\ upjob \in UpJob
  /\ wire = Wire /\ intact = TRUE
  /\ buffered = <<>> /\ running = Seed /\ hashed = <<>> /\ pulled = <<>>
  /\ upAt = "start"

-------------------------------------------------------------------------------
Values(s) == [k \in DOMAIN s |-> s[k].byte]

\* build_body_source: a chunked upload must declare its decoded length, the
\* trailer modes are refused, and the engine is asked for the declared size.
BuildBodySource ==
  /\ upAt = "start"
  /\ upAt' = CASE upjob.mode = "trailer" -> "NotImplemented"
               [] upjob.mode = "chunked" /\ upjob.size = NoSize -> "MissingDecodedContentLength"
               [] upjob.size = NoSize -> "Malformed"
               [] OTHER -> "pull"
  /\ UNCHANGED <<upjob, wire, intact, buffered, running, hashed, pulled>>

\* The engine keeps what it still wants of a chunk it was given.
TakeWanted(data) == pulled \o SubSeq(data, 1, Min({upjob.size - Len(pulled), Len(data)}))

Pulling == upAt = "pull" /\ Len(pulled) < upjob.size

\* AxumBodyStream::read with a frame of n bytes; the hashing stream digests it.
Frame(n) ==
  /\ Pulling /\ upjob.mode # "chunked"
  /\ n \in 1..Min({MaxFrame, Len(wire)})
  /\ LET data == Values(SubSeq(wire, 1, n)) IN
       /\ pulled' = TakeWanted(data)
       /\ hashed' = IF upjob.mode = "hex" THEN hashed \o data ELSE hashed
  /\ wire' = SubSeq(wire, n + 1, Len(wire))
  /\ UNCHANGED <<upjob, intact, buffered, running, upAt>>

HasLine == \E k \in DOMAIN buffered : IsCrlf(buffered[k])

\* What the chunk at the front of the buffer needs before it can be checked: its
\* header line, and then size + 2 more bytes.
Ready == HasLine /\ Len(buffered) >= 2 + buffered[1].size + 1

\* ensure_in_carry and the header loop of fetch_chunk: one more frame.
PullFrame(n) ==
  /\ Pulling /\ upjob.mode = "chunked" /\ ~Ready
  /\ n \in 1..Min({MaxFrame, Len(wire)})
  /\ buffered' = buffered \o SubSeq(wire, 1, n)
  /\ wire' = SubSeq(wire, n + 1, Len(wire))
  /\ UNCHANGED <<upjob, intact, running, hashed, pulled, upAt>>

\* Faulty variant of VerifyChunk: a chunk is checked on its own, not chained.
VerifyChunkAlone(payload, sig) == Len(sig) > 0 /\ Len(payload) = Len(Last(sig))

\* verify_chunk: the advertised signature is the one this payload has after
\* the chunks before it.
VerifyChunk(payload, sig) == sig = SignChunk(payload, running)

\* The rest of fetch_chunk: the signature, the terminator, and the payload
\* is served; a chunk of no bytes ends the body before the size is reached.
FetchChunk ==
  /\ Pulling /\ upjob.mode = "chunked" /\ Ready
  /\ LET head    == buffered[1]
         payload == Values(SubSeq(buffered, 3, 2 + head.size))
         ok      == VerifyChunk(payload, head.sig) /\ IsCrlf(buffered[3 + head.size])
     IN /\ upAt' = IF ~ok THEN "mismatch" ELSE IF head.size = 0 THEN "ended" ELSE "pull"
        /\ pulled' = IF ok THEN TakeWanted(payload) ELSE pulled
        /\ running' = IF ok THEN head.sig ELSE running
        /\ buffered' = SubSeq(buffered, 4 + head.size, Len(buffered))
  /\ UNCHANGED <<upjob, wire, intact, hashed>>

\* Faulty variant of BodyEnds: the end is only noticed between two chunks.
BodyEndsBetween ==
  /\ Pulling /\ wire = <<>> /\ buffered = <<>>
  /\ upAt' = IF upjob.mode = "hex" /\ hashed # Payload THEN "mismatch" ELSE "ended"
  /\ UNCHANGED <<upjob, wire, intact, buffered, running, hashed, pulled>>

\* The end of the body is read with bytes still missing: a digest that does
\* not match is reported first, and otherwise the engine reports the end.
BodyEnds ==
  /\ Pulling /\ wire = <<>>
  /\ upjob.mode = "chunked" => ~Ready
  /\ upAt' = IF upjob.mode = "hex" /\ hashed # Payload THEN "mismatch" ELSE "ended"
  /\ UNCHANGED <<upjob, wire, intact, buffered, running, hashed, pulled>>

\* The connection fails under a read.
BodyFails ==
  /\ Pulling /\ wire # <<>>
  /\ upjob.mode = "chunked" => ~Ready
  /\ upAt' = "broken"
  /\ UNCHANGED <<upjob, wire, intact, buffered, running, hashed, pulled>>

\* drain_inline_payload and encode_and_write_stripes stop at the size they were
\* given, and the object is committed: no further read is made of the body.
Store ==
  /\ upAt = "pull" /\ Len(pulled) = upjob.size
  /\ upAt' = "stored"
  /\ UNCHANGED <<upjob, wire, intact, buffered, running, hashed, pulled>>

-------------------------------------------------------------------------------
\* One byte of the payload is altered on the way.
Alter(k) ==
  /\ intact /\ upAt = "start"
  /\ k \in DOMAIN wire /\ IsByte(wire[k])
  /\ wire' = [wire EXCEPT ![k] = Byte(Flipped)]
  /\ intact' = FALSE
  /\ UNCHANGED <<upjob, buffered, running, hashed, pulled, upAt>>

\* A chunk of the wire comes twice: the same bytes, framed again.
Repeat(k) ==
  /\ intact /\ upAt = "start"
  /\ k \in DOMAIN wire /\ IsLine(wire[k]) /\ wire[k].size > 0
  /\ LET c == SubSeq(wire, k, k + 2 + wire[k].size)
     IN wire' = SubSeq(wire, 1, k - 1) \o c \o SubSeq(wire, k, Len(wire))
  /\ intact' = FALSE
  /\ UNCHANGED <<upjob, buffered, running, hashed, pulled, upAt>>

\* The connection closes early, and the rest of the wire never comes.
Cut(k) ==
  /\ intact /\ upAt = "start"
  /\ k \in DOMAIN wire
  /\ wire' = SubSeq(wire, 1, k - 1)
  /\ intact' = FALSE
  /\ UNCHANGED <<upjob, buffered, running, hashed, pulled, upAt>>

UpStep ==
  \/ BuildBodySource \/ FetchChunk \/ BodyEnds \/ Store
  \/ \E n \in 1..MaxFrame : Frame(n) \/ PullFrame(n)

UpNext == UpStep \/ BodyFails \/ \E k \in DOMAIN wire : Alter(k) \/ Repeat(k) \/ Cut(k)

UpSpec == UpInit /\ [][UpNext]_upVars /\ WF_upVars(UpStep)

-------------------------------------------------------------------------------
\* However the frames fall, a stored object has exactly the declared size, and
\* its bytes are the front of the payload; under chained signatures an altered
\* or repeated chunk within that size is never stored.
UploadExact ==
  upAt = "stored" =>
    /\ Len(pulled) = upjob.size
    /\ intact \/ upjob.mode = "chunked" => pulled = SubSeq(Payload, 1, upjob.size)

\* Every upload is answered: no cut of the framing leaves the decoder waiting
\* for bytes it already has, or never asks for.
UploadAnswered == upAt = "pull" ~> upAt # "pull"

\* What the comment on BodySource::HexSha promises: an upload whose bytes do
\* not have the digest the client declared is refused.
DigestHolds == upAt = "stored" /\ upjob.mode = "hex" => pulled = Payload
===============================================================================
