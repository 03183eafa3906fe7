------------------------------- MODULE EcStream -------------------------------
(***************************************************************************)
(* The bytes of an object on their way to the disks and back (engine.rs,    *)
(* ec.rs, stream.rs).  A PUT cuts the body into stripes of EcD data shards, *)
(* adds EcP parity shards and appends one shard to a file on every disk; a  *)
(* GET, whole or of a range, seeks to the part and the stripe, pulls one    *)
(* shard from every disk that still answers, decodes, and trims.  Sources   *)
(* yield chunks of any size: what is over is carried to the next stripe.    *)
(* A byte of the body is a number; a parity byte is the tuple of the data   *)
(* bytes it stands for, which is what the Reed-Solomon code guarantees.     *)
(***************************************************************************)
EXTENDS Integers, Sequences, FiniteSets, SequencesExt, FiniteSetsExt

CONSTANTS
  EcD, EcP,      \* data and parity shards
  Unit,          \* stripe_unit: bytes of a shard in one stripe
  EcJob,         \* [parts, short, chunk, rchunk, range, inline]
  EcFaults       \* bound on disks lost, once for each part and stripe

VARIABLES
  job,           \* what is put and what is then read
  ecAt,          \* the phase
  wpart, src, carry, consumed, stripe,        \* encode_and_write_stripes
  files,         \* part -> disk -> the bytes of the shard file
  frames,        \* an inline payload: the rope in xl.meta
  rpart,         \* MultiPartEcStream: the parts opened so far
  cur,           \* its EcReadStream
  toSkip, left,  \* SkipTakeStream
  out,           \* the bytes the client has received
  ecLost         \* disks lost so far

ecVars == <<job, ecAt, wpart, src, carry, consumed, stripe, files, frames, rpart, cur,
            toSkip, left, out, ecLost>>

EcDisk == 1..(EcD + EcP)
Block == EcD * Unit
Pad == 0
Junk == -1

Body(p) == [q \in 1..job.parts[p] |-> 100 * p + q]
EcObject == FlattenSeq([p \in DOMAIN job.parts |-> Body(p)])
EcSize == Len(EcObject)

Take(s, n) == SubSeq(s, 1, n)
Drop(s, n) == SubSeq(s, n + 1, Len(s))
Lesser(x, y) == IF x < y THEN x ELSE y

\* ceil(size / Block), and one stripe for an empty part.
Stripes(size) == Max({1, (size + Block - 1) \div Block})

NoReader == [alive |-> {}, src |-> <<>>, carry |-> <<>>, stripes |-> 0, total |-> 0,
             decoded |-> <<>>, shard |-> 1, pos |-> 0]

\* The body the client sends for part p: job.short bytes of it never come.
Sent(p) == Take(Body(p), Len(Body(p)) - Lesser(job.short, Len(Body(p))))

EcInit ==
  /\ job \in EcJob
  /\ ecAt = IF job.inline THEN "drain" ELSE "fill"
  /\ wpart = 1 /\ src = Sent(1) /\ carry = <<>> /\ consumed = 0 /\ stripe = <<>>
  /\ files = [p \in DOMAIN job.parts |-> [d \in EcDisk |-> <<>>]]
  /\ frames = <<>>
  /\ rpart = 0 /\ cur = NoReader
  /\ toSkip = 0 /\ left = 0
  /\ out = <<>> /\ ecLost = 0

-------------------------------------------------------------------------------
\* Read chunks until want bytes are there or the source ends; the rest of the
\* last chunk is the next carry.
RECURSIVE Pull(_, _, _, _, _)
Pull(buf, over, rest, chunk, want) ==
  LET n == Lesser(want - Len(buf), Len(over)) IN
  IF n > 0 THEN Pull(buf \o Take(over, n), Drop(over, n), rest, chunk, want)
  ELSE IF Len(buf) = want \/ rest = <<>> THEN [buf |-> buf, carry |-> over, rest |-> rest]
  ELSE Pull(buf, Take(rest, Lesser(chunk, Len(rest))), Drop(rest, Lesser(chunk, Len(rest))),
            chunk, want)

\* drain_inline_payload: the chunks, the last one trimmed.
RECURSIVE DrainInline(_, _)
DrainInline(rest, n) ==
  IF n = 0 \/ rest = <<>> THEN <<>>
  ELSE LET c == Lesser(n, Lesser(job.chunk, Len(rest)))
       IN <<Take(rest, c)>> \o DrainInline(Drop(rest, c), n - c)

PutInline ==
  /\ ecAt = "drain"
  /\ frames' = DrainInline(src, EcSize)
  /\ ecAt' = IF Len(FlattenSeq(frames')) < EcSize THEN "putfail" ELSE "get"
  /\ UNCHANGED <<job, wpart, src, carry, consumed, stripe, files, rpart, cur, toSkip, left, out, ecLost>>

\* The next stripe is filled from the body, and padded.
FillStripe ==
  LET want == Lesser(job.parts[wpart] - consumed, Block)
      g    == Pull(<<>>, carry, src, job.chunk, want)
  IN /\ ecAt = "fill"
     /\ ecAt' = IF Len(g.buf) < want THEN "putfail" ELSE "write"
     /\ stripe' = g.buf \o [i \in 1..(Block - Len(g.buf)) |-> Pad]
     /\ src' = g.rest /\ carry' = g.carry
     /\ consumed' = consumed + want
     /\ UNCHANGED <<job, wpart, files, frames, rpart, cur, toSkip, left, out, ecLost>>

\* encode_stripe: slices of the stripe, then the parity.
Encode(s, d) ==
  IF d <= EcD THEN SubSeq(s, (d - 1) * Unit + 1, d * Unit)
  ELSE [j \in 1..Unit |-> [i \in 1..EcD |-> s[(i - 1) * Unit + j]]]

\* Every sink takes its shard, or the PUT fails; after the last stripe the
\* sinks are finished, and the next part may be uploaded.
WriteStripe(S) ==
  /\ ecAt = "write"
  /\ ecLost + Cardinality(S) <= EcFaults /\ ecLost' = ecLost + Cardinality(S)
  /\ files' = [files EXCEPT ![wpart] = [d \in EcDisk |-> IF d \in S THEN @[d] ELSE @[d] \o Encode(stripe, d)]]
  /\ LET last == Len(files[wpart][1]) + Unit = Stripes(job.parts[wpart]) * Unit
         next == IF last THEN wpart + 1 ELSE wpart
     IN /\ ecAt' = IF S # {} THEN "putfail" ELSE IF next > Len(job.parts) THEN "get" ELSE "fill"
        /\ wpart' = next
        /\ src' = IF last /\ next <= Len(job.parts) THEN Sent(next) ELSE src
        /\ carry' = IF last THEN <<>> ELSE carry
        /\ consumed' = IF last THEN 0 ELSE consumed
  /\ UNCHANGED <<job, stripe, frames, rpart, cur, toSkip, left, out>>

-------------------------------------------------------------------------------
\* ByteRange::resolve: offset and length, or <<>> for an unsatisfiable range.
Resolve(r) ==
  CASE r[1] = "all"     -> <<0, EcSize>>
    [] r[1] = "bounded" -> IF r[2] >= EcSize THEN <<>>
                           ELSE <<r[2], Lesser(r[3], EcSize - 1) - r[2] + 1>>
    [] r[1] = "from"    -> IF r[2] >= EcSize THEN <<>> ELSE <<r[2], EcSize - r[2]>>
    [] r[1] = "suffix"  -> IF EcSize = 0 \/ r[2] = 0 THEN <<>>
                           ELSE <<EcSize - Lesser(r[2], EcSize), Lesser(r[2], EcSize)>>

\* A GET without a range reads until the parts end.
Wanted == left > 0 \/ job.range[1] = "all"

Before(p) == Len(FlattenSeq([q \in 1..(p - 1) |-> Body(q)]))

\* The part that holds the byte at the offset: the first whose end lies beyond.
StartPart(offset) ==
  LET beyond == {p \in DOMAIN job.parts : offset < Before(p) + job.parts[p]}
  IN IF beyond = {} THEN 1 ELSE Min(beyond)

\* get_versioned: find the part and the stripe; what is before the offset in
\* that stripe is left to the SkipTakeStream.
GetOpen ==
  /\ ecAt = "get"
  /\ LET w == Resolve(job.range)
         p == StartPart(w[1])
     IN IF w = <<>>
        THEN ecAt' = "unsat" /\ UNCHANGED <<rpart, toSkip, left, cur>>
        ELSE /\ left' = w[2]
             /\ IF job.inline
                THEN ecAt' = "rope" /\ toSkip' = w[1] /\ UNCHANGED <<rpart, cur>>
                ELSE /\ ecAt' = "part" /\ rpart' = p - 1
                     /\ toSkip' = (w[1] - Before(p)) % Block
                     /\ cur' = [NoReader EXCEPT !.stripes = (w[1] - Before(p)) \div Block]
  /\ UNCHANGED <<job, wpart, src, carry, consumed, stripe, files, frames, out, ecLost>>

Lose(F) == ecLost + Cardinality(F) <= EcFaults /\ ecLost' = ecLost + Cardinality(F)

\* Faulty variant of Enough: every shard is needed.
EnoughAll(S) == S = EcDisk

\* The shards of these disks are enough to decode.
Enough(S) == Cardinality(S) >= EcD

\* MultiPartEcStream::advance, open_ec_part_stream: the shard files of the next
\* part are opened, from the first stripe wanted on, where the disk answers.
OpenPart(F) ==
  LET p     == rpart + 1
      start == cur.stripes
      n     == Stripes(job.parts[p])
  IN /\ ecAt = "part" /\ rpart < Len(job.parts) /\ Wanted
     /\ Lose(F)
     /\ rpart' = p
     /\ IF ~Enough(EcDisk \ F)
        THEN ecAt' = "error" /\ UNCHANGED cur
        ELSE /\ ecAt' = "serve"
             /\ cur' = [NoReader EXCEPT
                          !.alive = EcDisk \ F,
                          !.src = [d \in EcDisk |-> SubSeq(files[p][d], start * Unit + 1, n * Unit)],
                          !.carry = [d \in EcDisk |-> <<>>],
                          !.stripes = n - start,
                          !.total = job.parts[p] - start * Block]
     /\ UNCHANGED <<job, wpart, src, carry, consumed, stripe, files, frames, toSkip, left, out>>

\* decode_stripe: an original that was read is used as it is, a missing one is
\* restored, from a parity shard of the same stripe.
Decode(got) ==
  [i \in 1..EcD |->
     IF i \in DOMAIN got THEN got[i]
     ELSE [j \in 1..Unit |->
             LET par == got[Min(DOMAIN got \ 1..EcD)][j]
             IN IF \A h \in DOMAIN got : IF h <= EcD THEN got[h][j] = par[h] ELSE got[h][j] = par
                THEN par[i] ELSE Junk]]

\* Bytes of the current stripe not served yet.
StripeLeft ==
  IF cur.shard > Len(cur.decoded) THEN 0
  ELSE Len(FlattenSeq(Drop(cur.decoded, cur.shard - 1))) - cur.pos

\* EcReadStream::refill: every live source is asked for a shard; one that errs
\* or runs short is given up for the rest of the part.
Refill(F) ==
  LET pull == [d \in cur.alive \ F |-> Pull(<<>>, cur.carry[d], cur.src[d], job.rchunk[d], Unit)]
      full == {d \in DOMAIN pull : Len(pull[d].buf) = Unit}
  IN /\ ecAt = "serve" /\ Wanted /\ cur.total > 0 /\ StripeLeft = 0 /\ cur.stripes > 0
     /\ F \subseteq cur.alive /\ Lose(F)
     /\ IF ~Enough(full)
        THEN ecAt' = "error" /\ UNCHANGED cur
        ELSE /\ cur' = [cur EXCEPT
                          !.alive = full,
                          !.src = [d \in EcDisk |-> IF d \in full THEN pull[d].rest ELSE @[d]],
                          !.carry = [d \in EcDisk |-> IF d \in full THEN pull[d].carry ELSE @[d]],
                          !.decoded = Decode([d \in full |-> pull[d].buf]),
                          !.shard = 1, !.pos = 0,
                          !.stripes = @ - 1]
             /\ UNCHANGED ecAt
     /\ UNCHANGED <<job, wpart, src, carry, consumed, stripe, files, frames, rpart, toSkip, left, out>>

\* SkipTakeStream::read on one frame of the stream it wraps; a GET without a
\* range is not wrapped.
SkipTake(f) ==
  LET kept == Drop(f, Lesser(toSkip, Len(f)))
      n    == IF job.range[1] = "all" THEN Len(f) ELSE Lesser(left, Len(kept))
  IN /\ toSkip' = toSkip - Lesser(toSkip, Len(f))
     /\ out' = out \o Take(kept, n)
     /\ left' = IF job.range[1] = "all" THEN left ELSE left - n

\* Faulty variant of FrameLen: the padding of the last stripe is served.
FrameLenPadded == Len(cur.decoded[cur.shard]) - cur.pos

\* EcReadStream::read: what is left of the current shard, and of the part.
FrameLen == Lesser(Len(cur.decoded[cur.shard]) - cur.pos, cur.total)

ServeFrame ==
  /\ ecAt = "serve" /\ Wanted /\ cur.total > 0 /\ StripeLeft > 0
  /\ LET shard == cur.decoded[cur.shard]
         n     == FrameLen
         whole == cur.pos + n = Len(shard)
     IN /\ SkipTake(SubSeq(shard, cur.pos + 1, cur.pos + n))
        /\ cur' = [cur EXCEPT !.pos = IF whole THEN 0 ELSE @ + n,
                              !.shard = IF whole THEN @ + 1 ELSE @,
                              !.total = @ - n]
  /\ UNCHANGED <<job, ecAt, wpart, src, carry, consumed, stripe, files, frames, rpart, ecLost>>

\* The part is drained: the next one is opened by the next read.
PartDrained ==
  /\ ecAt = "serve" /\ Wanted
  /\ cur.total <= 0 \/ (StripeLeft = 0 /\ cur.stripes = 0)
  /\ ecAt' = "part" /\ cur' = NoReader
  /\ UNCHANGED <<job, wpart, src, carry, consumed, stripe, files, frames, rpart, toSkip, left, out, ecLost>>

\* RopeByteStream::read: the next frame of the inline payload.
ServeRope ==
  /\ ecAt = "rope" /\ Wanted /\ frames # <<>>
  /\ SkipTake(Head(frames))
  /\ frames' = Tail(frames)
  /\ UNCHANGED <<job, ecAt, wpart, src, carry, consumed, stripe, files, rpart, cur, ecLost>>

\* Faulty variant of EcEof: the stream ends with its first part.
EcEofFirst ==
  /\ ecAt = "part" /\ rpart >= 1
  /\ ecAt' = "eof"
  /\ UNCHANGED <<job, wpart, src, carry, consumed, stripe, files, frames, rpart, cur, toSkip, left,
                 out, ecLost>>

\* The reader sees the end: the window is served, or nothing more comes.
EcEof ==
  /\ \/ ecAt \in {"part", "serve", "rope"} /\ ~Wanted
     \/ ecAt = "part" /\ rpart = Len(job.parts)
     \/ ecAt = "rope" /\ frames = <<>>
  /\ ecAt' = "eof"
  /\ UNCHANGED <<job, wpart, src, carry, consumed, stripe, files, frames, rpart, cur, toSkip, left,
                 out, ecLost>>

EcNext ==
  \/ PutInline \/ FillStripe \/ GetOpen \/ ServeFrame \/ PartDrained \/ ServeRope \/ EcEof
  \/ \E S \in SUBSET EcDisk : WriteStripe(S) \/ OpenPart(S) \/ Refill(S)

-------------------------------------------------------------------------------
\* The bytes the client asked for, by the meaning of a range: the positions it names
\* that the object has.
Asked ==
  SelectSeq([i \in 1..EcSize |-> <<i - 1, EcObject[i]>>],
            LAMBDA b : CASE job.range[1] = "all" -> TRUE
                         [] job.range[1] = "bounded" -> b[1] >= job.range[2] /\ b[1] <= job.range[3]
                         [] job.range[1] = "from" -> b[1] >= job.range[2]
                         [] job.range[1] = "suffix" -> b[1] >= EcSize - job.range[2])

\* encode_and_write_stripes to SkipTakeStream: what the client has received is at
\* every moment the beginning of what it asked for, byte for byte as it was put:
\* no padding, no byte of another stripe or part, none twice and none left out,
\* whatever the sizes of the chunks, with disks lost at any stripe.
EcIntact ==
  \A i \in 1..Len(out) : i <= Len(Asked) /\ out[i] = Asked[i][2]

\* MultiPartEcStream::read: the end of the stream is only seen after the last
\* byte asked for, and a range is only refused if the object has none of it: a
\* GET that lost its disks ends with an error, not with a short body.
EcWhole ==
  /\ ecAt = "eof" => Len(out) = Len(Asked)
  /\ ecAt = "unsat" => Asked = <<>>

\* refill, open_ec_part_stream: a GET only fails if more disks were lost than
\* there are parity shards.
EcSurvives == ecAt = "error" => ecLost > EcP

\* A GET ends in one of two ways: with the last byte asked for, or with an error
\* that more lost disks than parity shards, or a range outside the object, justify.
EcEnds == EcWhole /\ EcSurvives
===============================================================================
