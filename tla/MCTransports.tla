----------------------------- MODULE MCTransports -----------------------------
\* The streams, each on the small jobs below.
EXTENDS Transports, TLC

CONSTANTS s1, s2

Bodies(mode, chunks, sizes) == [mode : mode, chunks : chunks, size : sizes]

\* Bodies of three bytes: whole, in two chunks, with a declared length below, at
\* and above theirs, and with headers that are refused.
MCUpJob ==
  Bodies({"chunked"}, {<<2, 1>>, <<1, 2>>}, {0, 2, 3, 4})
  \cup Bodies({"plain", "hex"}, {<<3>>}, {3})
  \cup Bodies({"chunked", "hex"}, {<<>>}, {0})
  \cup Bodies({"trailer"}, {<<1>>}, {1})
  \cup Bodies({"plain", "chunked"}, {<<1>>}, {NoSize})

\* Shard files written in buffers that add up to the announced length or not,
\* and read up to or past their end.
MCRsJob ==
  [kind : {"write"}, expect : {0, 3, 4}, give : {<<>>, <<1, 0, 2>>, <<2, 2>>, <<1, 1, 1, 1>>}]
  \cup [kind : {"read"}, have : {0, 3}, ask : {0, 2, 4}]

WriteJob(n, c) == [kind |-> "write", size |-> n, have |-> 0, cap |-> c]
ReadJob(n, h, c) == [kind |-> "read", size |-> n, have |-> h, cap |-> c]

\* Two streams that compete for two buffers.
MCChunkJob ==
  {s1 :> WriteJob(3, 2) @@ s2 :> ReadJob(3, 3, 2), s1 :> ReadJob(3, 2, 1) @@ s2 :> ReadJob(3, 3, 2),
   s1 :> WriteJob(2, 1) @@ s2 :> WriteJob(3, 2)}
===============================================================================
