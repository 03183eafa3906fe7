---------------------------- MODULE ReadConsensus -----------------------------
(***************************************************************************)
(* Engine::read_with_consensus and its helpers (openlake_storage/src/      *)
(* engine.rs): how the xl.meta records read from the disks of one erasure  *)
(* set become one answer.  A record is abstracted to its decode contract   *)
(* (the fields decode_contract_hash covers); an error to its tag.  Where   *)
(* the code iterates over a HashMap a tie may go either way, so the        *)
(* operators return the set of possible answers.                           *)
(***************************************************************************)
EXTENDS Naturals, FiniteSets

CONSTANTS
  Disk,       \* the disks of the set
  Contract,   \* records, up to the fields that are not hashed
  Tag,        \* error tags
  Noise,      \* connection refused and timed out: they do not vote
  Etag,       \* body fingerprints
  etag,       \* the etag of a record
  parity,     \* the parity_blocks of a record
  Empty       \* the records of size 0

ASSUME DiskAssumption == IsFiniteSet(Disk) /\ Disk # {}
ASSUME AnswerAssumption == Noise \subseteq Tag /\ Tag \cap Contract = {}
ASSUME RecordAssumption ==
  /\ etag \in [Contract -> Etag]
  /\ parity \in [Contract -> 0..(Cardinality(Disk) \div 2)]
  /\ Empty \subseteq Contract

N == Cardinality(Disk)
Answer == Tag \cup Contract

Voters(ans, x) == {d \in Disk : ans[d] = x}
Votes(ans, x) == Cardinality(Voters(ans, x))

\* Faulty variant of Half: a single error is enough.
HalfOne == 1

\* Gate 1: an error that enough disks share is surfaced.  Only errors are
\* counted, successes are not.
Half == IF N \div 2 = 0 THEN 1 ELSE N \div 2

DominantErrors(ans) ==
  {t \in Tag \ Noise :
     /\ Votes(ans, t) > 0
     /\ \A u \in Tag \ Noise : Votes(ans, u) <= Votes(ans, t)}

GateErrors(ans) == {t \in DominantErrors(ans) : Votes(ans, t) >= Half}

\* Faulty variant of VotedParity: every record votes as an empty one does.
VotedParityMax(c) == N \div 2

\* Faulty variant of VotedParity: the parity blocks are not discounted.
VotedParityNone(c) == 0

\* common_parity: an empty object counts for parity N/2.
VotedParity(c) == IF c \in Empty THEN N \div 2 ELSE parity[c]

ParityVotes(ans, p) ==
  Cardinality({d \in Disk : ans[d] \in Contract /\ VotedParity(ans[d]) = p})

ParityQuorums(ans) == {p \in 0..(N \div 2) : ParityVotes(ans, p) >= N - p}

CommonParity(ans) ==
  {p \in ParityQuorums(ans) :
     \A q \in ParityQuorums(ans) : ParityVotes(ans, q) <= ParityVotes(ans, p)}

EtagVotes(ans, e) ==
  Cardinality({d \in Disk : ans[d] \in Contract /\ etag[ans[d]] = e})

CommonEtag(ans, quorum) ==
  {e \in Etag :
     /\ EtagVotes(ans, e) >= quorum
     /\ \A f \in Etag : EtagVotes(ans, f) <= EtagVotes(ans, e)}

\* Faulty variant of Winners: one matching record is enough.
WinnersAny(ans, e, quorum) ==
  {c \in Contract : etag[c] = e /\ Votes(ans, c) >= 1}

\* The content-hash consensus among the records with the winning etag.
Winners(ans, e, quorum) ==
  {c \in Contract :
     /\ etag[c] = e
     /\ Votes(ans, c) >= quorum
     /\ \A b \in Contract : etag[b] = e => Votes(ans, b) <= Votes(ans, c)}

\* The results of the whole read.  InsufficientOnlineDrives and
\* InconsistentMeta are the two refusals.
Surfaced(t) == [kind |-> "error", what |-> t]
Drives == [kind |-> "drives", what |-> 0]
Inconsistent == [kind |-> "inconsistent", what |-> 0]
Found(c) == [kind |-> "found", what |-> c]

EtagOutcomes(ans, e, quorum) ==
  IF Winners(ans, e, quorum) = {} THEN {Inconsistent}
  ELSE {Found(c) : c \in Winners(ans, e, quorum)}

ParityOutcomes(ans, p) ==
  IF CommonEtag(ans, N - p) = {} THEN {Inconsistent}
  ELSE UNION {EtagOutcomes(ans, e, N - p) : e \in CommonEtag(ans, N - p)}

Outcomes(ans) ==
  IF GateErrors(ans) # {} THEN {Surfaced(t) : t \in GateErrors(ans)}
  ELSE IF CommonParity(ans) = {} THEN {Drives}
  ELSE UNION {ParityOutcomes(ans, p) : p \in CommonParity(ans)}
===============================================================================
