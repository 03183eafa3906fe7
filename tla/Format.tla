-------------------------------- MODULE Format --------------------------------
(***************************************************************************)
(* The cluster identity (format.rs).  Every node reads format.json from its *)
(* own disks and then from its peers', one after the other; the seed, if it *)
(* finds a blank cluster, writes a new deployment id to every disk in that  *)
(* order; the others poll until a majority of disks is formatted and take   *)
(* the majority's id.  An id is named by the boot of the seed that drew it. *)
(***************************************************************************)
EXTENDS Naturals, FiniteSets, FiniteSetsExt, Sequences

CONSTANTS
  FmtNode,      \* node_ids, 1..n; the first is the seed
  FmtDisk,      \* all disks, numbered
  Owner,        \* the node of each disk
  FmtBoots,     \* bound on boots of all nodes together
  FmtFaults,    \* bound on failed calls
  Unread, ReadErr   \* a disk not read yet in this round, and a failed read_format

VARIABLES
  fmt,         \* format.json of each disk: 0 if absent, else the id
  fmtPc,       \* "off", "read", "write", "decide", or how bootstrap ended
  seen,        \* what the node's current round has read
  id,          \* the id the seed is writing, and the one a node returned
  todo,        \* disks the node has still to read or write, in order
  lateFmt,     \* writes of a crashed seed that a peer may still perform
  boots, fmtFailed,
  whole,       \* the id that write_all_disks finished with, 0 before
  after        \* nodes whose current round began when that was done

fmtVars == <<fmt, fmtPc, seen, id, todo, lateFmt, boots, fmtFailed, whole, after>>

Seed == Min(FmtNode)

FmtEnd == {"ok", "timeout", "missing", "wrong", "disagree", "error"}

\* Local disks first, then the peers'.
FmtOrder(n) ==
  LET before(d, e) == \/ Owner[d] = n /\ Owner[e] # n
                      \/ ((Owner[d] = n) <=> (Owner[e] = n)) /\ d < e
  IN [i \in 1..Cardinality(FmtDisk) |->
        CHOOSE d \in FmtDisk : Cardinality({e \in FmtDisk : before(e, d)}) = i - 1]

Unseen == [d \in FmtDisk |-> Unread]

FmtInit ==
  /\ fmt = [d \in FmtDisk |-> 0]
  /\ fmtPc = [n \in FmtNode |-> "off"]
  /\ seen = [n \in FmtNode |-> Unseen]
  /\ id = [n \in FmtNode |-> 0]
  /\ todo = [n \in FmtNode |-> <<>>]
  /\ lateFmt = {} /\ boots = 0 /\ fmtFailed = 0 /\ whole = 0 /\ after = {}

\* A round: read_all of the local disks, then of the peers.
Round(n) ==
  /\ fmtPc' = [fmtPc EXCEPT ![n] = "read"]
  /\ seen' = [seen EXCEPT ![n] = Unseen]
  /\ todo' = [todo EXCEPT ![n] = FmtOrder(n)]
  /\ after' = IF whole # 0 THEN after \cup {n} ELSE after \ {n}

\* The process starts, for the first time or after it ended.
Boot(n) ==
  /\ fmtPc[n] \in (FmtEnd \cup {"off"}) \ {"ok"} /\ boots < FmtBoots
  /\ boots' = boots + 1
  /\ Round(n)
  /\ UNCHANGED <<fmt, id, lateFmt, fmtFailed, whole>>

\* read_format of the next disk.
ReadFormat(n) ==
  /\ fmtPc[n] = "read" /\ todo[n] # <<>>
  /\ LET d == Head(todo[n]) IN
       \/ seen' = [seen EXCEPT ![n][d] = fmt[d]] /\ UNCHANGED fmtFailed
       \/ /\ fmtFailed < FmtFaults /\ fmtFailed' = fmtFailed + 1
          /\ seen' = [seen EXCEPT ![n][d] = ReadErr]
  /\ todo' = [todo EXCEPT ![n] = Tail(@)]
  /\ UNCHANGED <<fmt, fmtPc, id, lateFmt, boots, whole, after>>

Formatted(n) == {d \in FmtDisk : seen[n][d] \notin {Unread, ReadErr, 0}}

\* Faulty variant of AllNone: only the node's own disks are looked at.
AllNoneLocal(n) == \A d \in FmtDisk : Owner[d] = n => seen[n][d] = 0

AllNone(n) == \A d \in FmtDisk : seen[n][d] = 0

FmtQuorum == Cardinality(FmtDisk) \div 2 + 1

\* vote_majority: more than half of the formatted disks.
VoteMajority(n) ==
  {i \in 1..FmtBoots :
     2 * Cardinality({d \in Formatted(n) : seen[n][d] = i}) > Cardinality(Formatted(n))}

\* A majority is formatted: the node's own disks must be, with the same id.
Verdict(n) ==
  IF \E d \in FmtDisk : Owner[d] = n /\ seen[n][d] = 0 THEN <<"missing", 0>>
  ELSE IF VoteMajority(n) = {} THEN <<"disagree", 0>>
  ELSE LET i == Min(VoteMajority(n)) IN
       IF \E d \in Formatted(n) : Owner[d] = n /\ seen[n][d] # i THEN <<"wrong", 0>> ELSE <<"ok", i>>

\* Faulty variant of Draw: any node that finds a blank cluster formats it.
DrawAny(n) ==
  /\ fmtPc[n] = "read" /\ todo[n] = <<>>
  /\ AllNone(n)
  /\ fmtPc' = [fmtPc EXCEPT ![n] = "write"]
  /\ id' = [id EXCEPT ![n] = boots]
  /\ todo' = [todo EXCEPT ![n] = FmtOrder(n)]
  /\ UNCHANGED <<fmt, seen, lateFmt, boots, fmtFailed, whole, after>>

\* The seed found every disk readable and blank: it draws an id.
Draw(n) ==
  /\ fmtPc[n] = "read" /\ todo[n] = <<>>
  /\ AllNone(n) /\ n = Seed
  /\ fmtPc' = [fmtPc EXCEPT ![n] = "write"]
  /\ id' = [id EXCEPT ![n] = boots]
  /\ todo' = [todo EXCEPT ![n] = FmtOrder(n)]
  /\ UNCHANGED <<fmt, seen, lateFmt, boots, fmtFailed, whole, after>>

Conclude(n) ==
  /\ fmtPc[n] = "read" /\ todo[n] = <<>>
  /\ ~(AllNone(n) /\ n = Seed)
  /\ Cardinality(Formatted(n)) >= FmtQuorum
  /\ fmtPc' = [fmtPc EXCEPT ![n] = Verdict(n)[1]]
  /\ id' = [id EXCEPT ![n] = Verdict(n)[2]]
  /\ UNCHANGED <<fmt, seen, todo, lateFmt, boots, fmtFailed, whole, after>>

\* Too few disks are formatted: sleep and read again, or give up.
Poll(n) ==
  /\ fmtPc[n] = "read" /\ todo[n] = <<>>
  /\ ~(AllNone(n) /\ n = Seed)
  /\ Cardinality(Formatted(n)) < FmtQuorum
  /\ \/ Round(n)
     \/ fmtPc' = [fmtPc EXCEPT ![n] = "timeout"] /\ UNCHANGED <<seen, todo, after>>
  /\ UNCHANGED <<fmt, id, lateFmt, boots, fmtFailed, whole>>

\* write_all_disks: one write_format after the other; the first error ends it.
WriteFormat(n) ==
  /\ fmtPc[n] = "write" /\ todo[n] # <<>>
  /\ LET d == Head(todo[n]) IN
     \/ /\ fmt' = [fmt EXCEPT ![d] = id[n]]
        /\ todo' = [todo EXCEPT ![n] = Tail(@)]
        /\ UNCHANGED <<fmtPc, fmtFailed, lateFmt>>
     \/ /\ fmtFailed < FmtFaults /\ fmtFailed' = fmtFailed + 1
        /\ fmtPc' = [fmtPc EXCEPT ![n] = "error"]
        /\ fmt' \in {fmt, [fmt EXCEPT ![d] = id[n]]}
        /\ UNCHANGED <<todo, lateFmt>>
  /\ UNCHANGED <<seen, id, boots, whole, after>>

Written(n) ==
  /\ fmtPc[n] = "write" /\ todo[n] = <<>>
  /\ fmtPc' = [fmtPc EXCEPT ![n] = "ok"]
  /\ whole' = id[n]
  /\ after' = {}
  /\ UNCHANGED <<fmt, seen, id, todo, lateFmt, boots, fmtFailed>>

Peers == {d \in FmtDisk : Owner[d] # Seed}

\* The seed dies while it writes; the write it had sent to a peer may still be
\* served.
SeedDies ==
  /\ fmtPc[Seed] = "write" /\ fmtFailed < FmtFaults
  /\ fmtFailed' = fmtFailed + 1
  /\ fmtPc' = [fmtPc EXCEPT ![Seed] = "off"]
  /\ lateFmt' = lateFmt \cup {<<d, id[Seed]>> : d \in {Head(q) : q \in {todo[Seed]} \ {<<>>}} \cap Peers}
  /\ UNCHANGED <<fmt, seen, id, todo, boots, whole, after>>

LateWrite ==
  /\ \E w \in lateFmt : fmt' = [fmt EXCEPT ![w[1]] = w[2]] /\ lateFmt' = lateFmt \ {w}
  /\ UNCHANGED <<fmtPc, seen, id, todo, boots, fmtFailed, whole, after>>

\* A disk is replaced by a blank one while its node is down.
Replace(d) ==
  /\ fmt[d] # 0 /\ fmtPc[Owner[d]] \in (FmtEnd \cup {"off"}) \ {"ok"} /\ fmtFailed < FmtFaults
  /\ fmtFailed' = fmtFailed + 1
  /\ fmt' = [fmt EXCEPT ![d] = 0]
  /\ UNCHANGED <<fmtPc, seen, id, todo, lateFmt, boots, whole, after>>

\* A node that was up goes down.
Stop(n) ==
  /\ fmtPc[n] = "ok" /\ boots < FmtBoots
  /\ fmtPc' = [fmtPc EXCEPT ![n] = "off"]
  /\ UNCHANGED <<fmt, seen, id, todo, lateFmt, boots, fmtFailed, whole, after>>

FmtNext ==
  \/ \E n \in FmtNode : \/ Boot(n) \/ ReadFormat(n) \/ Draw(n) \/ Conclude(n)
                        \/ Poll(n) \/ WriteFormat(n) \/ Written(n) \/ Stop(n)
  \/ \E d \in FmtDisk : Replace(d)
  \/ SeedDies \/ LateWrite

\* bootstrap_format: nodes that are up agree on the deployment id, though they
\* read disk by disk while the seed writes, the seed may die and draw a second
\* id, a write of its first one may be served late, and a disk of the seed may
\* come back blank.
OneDeployment ==
  \A m, n \in FmtNode : (fmtPc[m] = "ok" /\ fmtPc[n] = "ok") => id[m] = id[n]

\* all_ok_none, vote_majority: while a majority of a formatted cluster's disks
\* keeps its id and the others are blank, a boot never draws a new id: it returns
\* that id, times out, or refuses because a disk of its own is blank, whichever
\* reads fail.
Reboots ==
  LET has == {d \in FmtDisk : fmt[d] = whole}
  IN (Cardinality(has) >= FmtQuorum /\ \A d \in FmtDisk \ has : fmt[d] = 0) =>
       \A n \in after :
         /\ fmtPc[n] \in {"off", "read", "ok", "timeout", "missing"}
         /\ fmtPc[n] = "ok" => id[n] = whole
         /\ fmtPc[n] = "missing" => \E d \in FmtDisk \ has : Owner[d] = n

\* A cluster has one identity, at any moment and over its restarts
\* (bootstrap_format).
OneIdentity == OneDeployment /\ Reboots
===============================================================================
