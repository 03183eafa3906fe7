------------------------------ MODULE MCDataPath ------------------------------
\* The parts of the data path, each on the small jobs below.
EXTENDS DataPath, TLC

CONSTANTS r1, r2, c1, c2, c3, e1, e3, Parity

\* Records of the vote: c1 and c2 share an etag (the same body written twice), c3
\* has its own; none is of an empty object.
MCEtag == [c \in Contract |-> IF c = c3 THEN e3 ELSE e1]
MCParity == [c \in Contract |-> Parity]
MCEmpty == {}

(***************************************************************************)
(* Stripes of two data shards and a parity shard, two bytes to a shard:     *)
(* bodies of whole and of partial stripes, of several parts, sources that   *)
(* deliver less or more than a stripe, and every kind of range.             *)
(***************************************************************************)
Ranges ==
  {<<"all">>, <<"bounded", 0, 0>>, <<"bounded", 3, 5>>, <<"bounded", 4, 99>>, <<"from", 2>>,
   <<"from", 9>>, <<"suffix", 3>>, <<"suffix", 0>>, <<"suffix", 99>>}

EcPut(parts, short, chunk, range, inline) ==
  [parts |-> parts, short |-> short, chunk |-> chunk, rchunk |-> <<chunk, 2, 3>>,
   range |-> range, inline |-> inline]

MCEcJob ==
  {EcPut(p, 0, c, r, FALSE) :
     p \in {<<9>>, <<4>>, <<5, 3>>, <<4, 0>>, <<4, 4, 2>>}, c \in {1, 3, 5}, r \in Ranges}
  \cup {EcPut(p, 0, c, r, TRUE) : p \in {<<0>>, <<4>>, <<9>>}, c \in {1, 5}, r \in Ranges}
  \cup {EcPut(p, 1, c, <<"all">>, i) : p \in {<<9>>, <<4>>}, c \in {1, 3, 5}, i \in BOOLEAN}

\* One call of every kind with every outcome, beside a call that fails.
RpcCall(op, undo, disk, err, keys, yes) ==
  [op : {op}, undo : undo, disk : disk, err : err, keys : keys, yes : yes]

RpcAnswers(op) ==
  IF op \in NodeOps
  THEN RpcCall(op, {FALSE}, {TRUE}, {NoErr}, {<<>>},
               IF op \in {"LockAcquire", "LockRefresh", "RdmaAttach"} THEN BOOLEAN ELSE {TRUE})
  ELSE RpcCall(op, IF op = "DeleteVersion" THEN BOOLEAN ELSE {FALSE}, BOOLEAN,
               {NoErr, "FileNotFound", "CorruptMetadata", "VolumeExists", "Io"},
               IF op = "DeleteBatch" THEN {<<NoErr, "FileNotFound">>, <<"Io">>} ELSE {<<>>},
               {FALSE})

MCRpcJob ==
  {r1 :> a @@ r2 :> b :
     a \in UNION {RpcAnswers(op) : op \in RpcOps},
     b \in RpcCall("StatVol", {FALSE}, {TRUE}, {"VolumeNotFound"}, {<<>>}, {FALSE})
           \cup RpcCall("LockRefresh", {FALSE}, {TRUE}, {NoErr}, {<<>>}, {FALSE})}

(***************************************************************************)
(* Versions the engine writes: inline with one or several frames or none,   *)
(* or with a data directory; of three identities and times, and one whose   *)
(* time is zero, as when the clock is before the epoch.                     *)
(***************************************************************************)
Info(id, mt, dir, size, data) ==
  [id |-> id, deleted |-> FALSE, mt |-> mt, dir |-> dir, size |-> size,
   ec |-> [alg |-> TRUE, d |-> 2, p |-> 1, dist |-> 3, i |-> 1, bs |-> 4],
   parts |-> <<[n |-> 1, size |-> size, asize |-> size]>>, data |-> data]

MCXlInfo ==
  {Info(id, mt, 0, 2, <<<<<<id, mt, 1>>>>, <<>>, <<<<id, mt, 2>>>>>>) : id \in 0..2, mt \in 1..3}
  \cup {Info(id, 2, 0, 1, <<<<<<id, 2, 3>>>>>>) : id \in 0..1}
  \cup {Info(id, 2, 7, 3, NoData) : id \in 0..1}
  \cup {Info(0, 2, 0, 0, <<>>), Info(1, 2, 0, 0, <<<<>>>>), Info(2, 1, 7, 0, NoData)}
  \cup {Info(0, 0, 0, 1, <<<<<<0, 0, 4>>>>>>)}

(***************************************************************************)
(* Listings on two erasure sets of three drives; keys are sequences of      *)
(* characters in which "-" is 1, "/" is 2, "a" is 3 and "b" is 4, as in the *)
(* order of bytes.                                                          *)
(***************************************************************************)
A == <<3>>
AA == <<3, 2, 3>>
AB == <<3, 2, 4>>
ADash == <<3, 1, 4>>
B == <<4>>
BA == <<4, 2, 3>>

MCPlace(k) == IF k \in {AB, B} THEN "s2" ELSE "s1"

Job(keys, churn, drop, prefix, delim, max) ==
  [keys : keys, churn : churn, drop : drop, prefix : prefix, delim : delim, max : max]

\* Pages of one or two names over every set of keys; PUTs that land between the
\* steps of a listing; batches that delete two keys, one being written.
MCListJob ==
  Job(SUBSET {A, AA, AB, ADash, BA}, {{}}, {{}}, {<<>>, <<3, 2>>}, BOOLEAN, 1..2)
  \cup Job({{ADash, B}}, {{AB}}, {{}}, {<<>>}, BOOLEAN, {1})
  \cup Job({{AA, BA}}, {{AA}}, {{}}, {<<>>}, {FALSE}, {1})
  \cup Job({{AA, AB}}, {{}, {AA}}, {{AA, AB}}, {<<>>}, {FALSE}, {1})

\* Two keys, for the listing that is refuted.
MCPairs == Job({{AA, ADash}, {A, AA}, {AA, AB}}, {{}}, {{}}, {<<>>}, {FALSE}, 1..2)
===============================================================================
