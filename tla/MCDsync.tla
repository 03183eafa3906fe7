-------------------------------- MODULE MCDsync -------------------------------
\* Dsync on small instances; see the .cfg files for the values of the constants.
EXTENDS Dsync, TLC

CONSTANTS
  MaxStrays,    \* requests in flight that no client awaits any more
  MaxFailures   \* calls of one fan-out that failed

Symmetry == Permutations(Peer) \cup Permutations(Client) \cup Permutations(Uid)

Strays == {m \in net : \A c \in Client : ~Awaits(c, m)}

Bounded ==
  /\ Cardinality(Strays) <= MaxStrays
  /\ \A c \in Client : Cardinality(Answered(c, "err")) <= MaxFailures

\* The strays and the failed calls of all clients share one bound: a call may
\* fail and leave its request behind, or a guard be dropped, not both at once.
BoundedTogether ==
  LET failed == {cp \in Client \X Peer : reply[cp[1]][cp[2]] = "err"}
  IN  /\ Cardinality(failed) <= MaxFailures
      /\ Cardinality(Strays) + Cardinality(failed) <= MaxStrays
===============================================================================
