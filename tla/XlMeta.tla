-------------------------------- MODULE XlMeta --------------------------------
(***************************************************************************)
(* The xl.meta file of one object (openlake_io/src/xl_meta.rs) through a    *)
(* life of PUTs: each reads the versions, drops the one it replaces, adds   *)
(* its own, sorts newest first and encodes them all again; small objects    *)
(* keep their bytes in the tail of the file, found by an offset the encoder *)
(* computes.  Then the file is damaged and read.                            *)
(*                                                                         *)
(* A FileInfo is a record: id and dir are 0 for "null" and "" (the zero     *)
(* UUID), data is the inline frames, a sequence of sequences of bytes, or   *)
(* NoData.  A byte is named by what wrote it.  The file keeps its header    *)
(* fields, the version records, whether the checksum matches, and the tail. *)
(***************************************************************************)
EXTENDS Naturals, Integers, Sequences, FiniteSets, SequencesExt

CONSTANTS
  XlInfo,      \* the FileInfo values the engine hands to the store
  XlWrites,    \* PUTs in one behaviour
  XlMinors,    \* format minors a file may carry
  NoData, NoFile

VARIABLES
  xl,          \* the file, or NoFile
  kept,        \* the FileInfos the file must hold, in the order they were put
  xlput,       \* PUTs so far
  harm         \* what happened to the file: "none", or the part damaged

xlVars == <<xl, kept, xlput, harm>>

FORMAT_MAJOR == 1
FORMAT_MINOR == 3

------------------------------------------------------------------------------
HasInline(fi) == fi.data # NoData /\ fi.data # <<>>

Bytes(fi) == IF fi.data = NoData THEN <<>> ELSE FlattenSeq(fi.data)

\* validate_erasure; dist is the length of the distribution.
ErasureOK(ec) ==
  /\ ec.alg
  /\ ec.d >= 1
  /\ ec.p <= ec.d
  /\ ec.dist = ec.d + ec.p
  /\ ec.i >= 1 /\ ec.i <= ec.d + ec.p
  /\ ec.bs > 0

\* validate_for_encode
Encodable(fi) ==
  /\ fi.size >= 0
  /\ fi.mt > 0
  /\ ErasureOK(fi.ec)
  /\ fi.deleted => fi.parts = <<>> /\ fi.size = 0 /\ ~ HasInline(fi)
  /\ (~ fi.deleted /\ fi.size > 0) => fi.parts # <<>>
  /\ ~ (HasInline(fi) /\ fi.dir # 0)
  /\ (~ fi.deleted /\ fi.size > 0 /\ ~ HasInline(fi)) => fi.dir # 0
  /\ HasInline(fi) => Len(Bytes(fi)) = fi.size
  /\ \A i \in DOMAIN fi.parts :
       fi.parts[i].n > 0 /\ fi.parts[i].size >= 0 /\ fi.parts[i].asize >= 0

\* Faulty variant of Offset: the offset counts versions, not bytes.
OffsetIndex(fis, i) == IF Bytes(fis[i]) = <<>> THEN 0 ELSE i - 1

\* Where the bytes of version i start in the tail; 0 if it has none.
Offset(fis, i) ==
  IF Bytes(fis[i]) = <<>> THEN 0
  ELSE Len(FlattenSeq([j \in 1 .. i - 1 |-> Bytes(fis[j])]))

\* VersionRecord, with encode_erasure and encode_part.
Record(fi, off) ==
  [id |-> fi.id, ty |-> IF fi.deleted THEN 1 ELSE 0, mt |-> fi.mt, dir |-> fi.dir,
   size |-> fi.size, ec |-> fi.ec, parts |-> fi.parts, io |-> off, il |-> Len(Bytes(fi))]

\* encode_versions.  No file means the encoder refused.
EncodeVersions(fis) ==
  IF fis = <<>> \/ \E i \in DOMAIN fis : ~ Encodable(fis[i]) THEN NoFile
  ELSE [magic |-> TRUE, major |-> FORMAT_MAJOR, minor |-> FORMAT_MINOR,
        body |-> [i \in DOMAIN fis |-> Record(fis[i], Offset(fis, i))],
        crc |-> TRUE,
        tail |-> FlattenSeq([i \in DOMAIN fis |-> Bytes(fis[i])])]

\* validate_decoded_version
ReadableFile(v) ==
  /\ v.ty <= 1
  /\ v.size >= 0
  /\ v.mt > 0
  /\ ErasureOK(v.ec)
  /\ v.ty = 1 => v.parts = <<>> /\ v.size = 0 /\ v.il = 0
  /\ (v.ty = 0 /\ v.size > 0) => v.parts # <<>>
  /\ ~ (v.il > 0 /\ v.dir # 0)
  /\ v.il > 0 => v.size = v.il
  /\ \A i \in DOMAIN v.parts : v.parts[i].n > 0 /\ v.parts[i].size >= 0

\* The stable sort by modification time.
NewestFirst(s) ==
  LET Before(i, j) == s[i].mt > s[j].mt \/ (s[i].mt = s[j].mt /\ i < j)
  IN [n \in DOMAIN s |-> s[CHOOSE i \in DOMAIN s :
                             Cardinality({j \in DOMAIN s : Before(j, i)}) = n - 1]]

\* A decoded record as a FileInfo (decode_erasure, decode_part and
\* file_info_from_record): the inline bytes come back as one frame.
FileInfo(v, tail) ==
  [id |-> v.id, deleted |-> v.ty = 1, mt |-> v.mt, dir |-> v.dir, size |-> v.size,
   ec |-> v.ec, parts |-> v.parts,
   data |-> IF v.il > 0 THEN <<SubSeq(tail, v.io + 1, v.io + v.il)>> ELSE NoData]

\* Faulty variant of HeaderOK: the checksum is not compared.
HeaderOKUnchecked(f) == f.magic /\ f.major = FORMAT_MAJOR /\ f.minor = FORMAT_MINOR /\ f.body # <<>>

\* The checks before the versions are looked at.  A file cut inside its body
\* has no checksum to match.
HeaderOK(f) ==
  f.magic /\ f.major = FORMAT_MAJOR /\ f.minor = FORMAT_MINOR /\ f.crc /\ f.body # <<>>

\* decode_all: the versions newest first, or nothing for an error.
DecodeAll(f) ==
  IF /\ HeaderOK(f)
     /\ \A i \in DOMAIN f.body : ReadableFile(f.body[i])
     /\ \A i \in DOMAIN f.body : f.body[i].il > 0 => f.body[i].io + f.body[i].il <= Len(f.tail)
  THEN LET vs == NewestFirst(f.body) IN [i \in DOMAIN vs |-> FileInfo(vs[i], f.tail)]
  ELSE <<>>

\* decode and find_version: the newest version, and the one with an id; a set
\* of at most one.
Latest(f) == {v \in Range(DecodeAll(f)) : v = DecodeAll(f)[1]}

FindVersion(f, id) == {v \in Range(DecodeAll(f)) : v.id = id}

------------------------------------------------------------------------------
XlInit == xl = NoFile /\ kept = <<>> /\ xlput = 0 /\ harm = "none"

\* The versions rename_data encodes.
Merged(old, fi) == NewestFirst(Append(SelectSeq(old, LAMBDA v : v.id # fi.id), fi))

\* rename_data's read, merge and write of xl.meta; an error leaves it alone.
RenameData(fi) ==
  LET old == IF xl = NoFile THEN <<>> ELSE DecodeAll(xl)
      new == EncodeVersions(Merged(old, fi))
  IN /\ xlput < XlWrites /\ harm = "none"
     /\ xl = NoFile \/ old # <<>>
     /\ xlput' = xlput + 1
     /\ IF new = NoFile THEN UNCHANGED <<xl, kept>>
        ELSE /\ xl' = new
             /\ kept' = Append(SelectSeq(kept, LAMBDA v : v.id # fi.id), fi)
     /\ UNCHANGED harm

\* write_metadata and update_metadata: a file of the one version.
WriteMetadata(fi) ==
  LET new == EncodeVersions(<<fi>>)
  IN /\ xlput < XlWrites /\ harm = "none"
     /\ xlput' = xlput + 1
     /\ IF new = NoFile THEN UNCHANGED <<xl, kept>> ELSE xl' = new /\ kept' = <<fi>>
     /\ UNCHANGED harm

\* A byte of the header or of the body goes bad.
DamageHead(m) ==
  /\ xl # NoFile /\ harm = "none"
  /\ xl' \in {[xl EXCEPT !.magic = FALSE], [xl EXCEPT !.minor = m],
              [xl EXCEPT !.crc = FALSE],
              [xl EXCEPT !.body = <<[@[1] EXCEPT !.mt = @ + 1]>> \o Tail(@), !.crc = FALSE]}
  /\ harm' = "head"
  /\ UNCHANGED <<kept, xlput>>

\* The end of the file is lost.
CutTail(n) ==
  /\ xl # NoFile /\ harm = "none"
  /\ n < Len(xl.tail)
  /\ xl' = [xl EXCEPT !.tail = SubSeq(@, 1, n)]
  /\ harm' = "tail"
  /\ UNCHANGED <<kept, xlput>>

XlNext ==
  \/ \E fi \in XlInfo : RenameData(fi) \/ WriteMetadata(fi)
  \/ \E m \in XlMinors : DamageHead(m)
  \/ \E n \in 0 .. 3 : CutTail(n)

------------------------------------------------------------------------------
\* What a reader should get back of a FileInfo: the frames joined.
AsRead(fi) ==
  [id |-> fi.id, deleted |-> fi.deleted, mt |-> fi.mt, dir |-> fi.dir, size |-> fi.size,
   ec |-> fi.ec, parts |-> fi.parts,
   data |-> IF Bytes(fi) = <<>> THEN NoData ELSE <<Bytes(fi)>>]

\* Whatever the encoder accepts the decoder accepts: an undamaged file gives
\* back every version it must hold, each with its own inline bytes, found both
\* by id and in order of time, ties in the order they were put (encode_versions, decode_all, rename_data).
XlIntact ==
  (xl # NoFile /\ harm = "none") =>
    /\ DecodeAll(xl) = [i \in DOMAIN kept |-> AsRead(NewestFirst(kept)[i])]
    /\ Latest(xl) = {AsRead(NewestFirst(kept)[1])}
    /\ \A i \in DOMAIN kept : FindVersion(xl, kept[i].id) = {AsRead(kept[i])}

\* A damaged file is refused whole, or what it gives is what was written: no
\* record and no inline byte of another version (decode_all's checks).
XlRefused ==
  (xl # NoFile /\ harm # "none") =>
    \A v \in Range(DecodeAll(xl)) : \E i \in DOMAIN kept : v = AsRead(kept[i])

\* What is read from an xl.meta was written to it, damage or not (encode_versions,
\* decode_all).
XlFaithful == XlIntact /\ XlRefused
===============================================================================
