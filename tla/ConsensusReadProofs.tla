------------------------- MODULE ConsensusReadProofs --------------------------
(***************************************************************************)
(* What the read consensus guarantees for every size of the erasure set,   *)
(* every number of records and every combination of errors.                *)
(***************************************************************************)
EXTENDS ConsensusRead, FiniteSetTheorems, TLAPS

\* The set is written with one parity setting and holds no empty object.
Uniform ==
  /\ Empty = {}
  /\ \A c, b \in Contract : parity[c] = parity[b]

LEMMA Sizes ==
  ASSUME NEW S \in SUBSET Disk
  PROVE  /\ IsFiniteSet(S)
         /\ Cardinality(S) \in Nat
         /\ Cardinality(Disk \ S) = N - Cardinality(S)
         /\ Cardinality(S) = 0 => S = {}
         /\ N \in Nat \ {0}
  <1>1. IsFiniteSet(S)
    BY DiskAssumption, FS_Subset
  <1>2. Cardinality(S) \in Nat /\ (Cardinality(S) = 0 <=> S = {})
    BY <1>1, FS_CardinalityType, FS_EmptySet
  <1>3. N \in Nat /\ N # 0
    BY DiskAssumption, FS_CardinalityType, FS_EmptySet DEF N
  <1>4. Disk \cap S = S
    OBVIOUS
  <1>5. Cardinality(Disk \ S) = N - Cardinality(S)
    BY <1>4, DiskAssumption, FS_Difference DEF N
  <1>6. QED
    BY <1>1, <1>2, <1>3, <1>5

LEMMA Inclusion ==
  ASSUME NEW S \in SUBSET Disk, NEW T \in SUBSET S
  PROVE  Cardinality(T) <= Cardinality(S)
  BY Zenon, Sizes, FS_Subset

\* Two sets of voters of more than half of the disks each share a disk.
LEMMA Overlap ==
  ASSUME NEW S \in SUBSET Disk, NEW T \in SUBSET Disk,
         Cardinality(S) + Cardinality(T) > N
  PROVE  \E d \in S : d \in T
  <1> SUFFICES ASSUME S \cap T = {} PROVE FALSE
    OBVIOUS
  <1>1. T \subseteq Disk \ S
    OBVIOUS
  <1>2. Cardinality(T) <= Cardinality(Disk \ S)
    BY <1>1, Inclusion
  <1>3. /\ Cardinality(S) \in Nat /\ Cardinality(T) \in Nat /\ N \in Nat
        /\ Cardinality(Disk \ S) = N - Cardinality(S)
    BY Zenon, Sizes
  <1>4. QED
    BY <1>2, <1>3

LEMMA HalfBound ==
  /\ N \in Nat \ {0}
  /\ N \div 2 \in Nat
  /\ 2 * (N \div 2) <= N
  /\ Half \in Nat \ {0}
  <1>1. N \in Nat \ {0}
    BY DiskAssumption, FS_CardinalityType, FS_EmptySet DEF N
  <1>2. QED
    BY <1>1 DEF Half

\* A record that is served has the votes of a data quorum.
LEMMA FoundVotes ==
  ASSUME NEW a, NEW c \in Contract, Found(c) \in Outcomes(a)
  PROVE  \E p \in CommonParity(a) : Votes(a, c) >= N - p
  <1>1. \A t : Found(c) # Surfaced(t)
    BY DEF Found, Surfaced
  <1>2. Found(c) # Drives /\ Found(c) # Inconsistent
    BY DEF Found, Drives, Inconsistent
  <1>3. PICK p \in CommonParity(a) : Found(c) \in ParityOutcomes(a, p)
    BY <1>1, <1>2 DEF Outcomes
  <1>4. PICK e \in CommonEtag(a, N - p) : Found(c) \in EtagOutcomes(a, e, N - p)
    BY <1>2, <1>3 DEF ParityOutcomes
  <1>5. PICK b \in Winners(a, e, N - p) : Found(c) = Found(b)
    BY <1>2, <1>4 DEF EtagOutcomes
  <1>6. c = b
    BY <1>5 DEF Found
  <1>7. QED
    BY <1>3, <1>5, <1>6 DEF Winners

\* With one parity setting the parity vote can only elect that setting.
LEMMA VotedIsOwn ==
  ASSUME Uniform, NEW a, NEW p \in CommonParity(a), NEW c \in Contract
  PROVE  p = parity[c]
  <1> DEFINE S == {d \in Disk : a[d] \in Contract /\ VotedParity(a[d]) = p}
  <1>1. p \in 0..(N \div 2) /\ Cardinality(S) >= N - p
    BY DEF CommonParity, ParityQuorums, ParityVotes
  <1>2. S # {}
    <2> SUFFICES ASSUME S = {} PROVE FALSE
      OBVIOUS
    <2>1. Cardinality(S) = 0
      BY FS_EmptySet
    <2> HIDE DEF S
    <2>2. QED
      BY <1>1, <2>1, HalfBound
  <1>3. PICK d \in S : TRUE
    BY <1>2
  <1>4. QED
    BY <1>3 DEF Uniform, VotedParity

\* The outcome is one the votes allow, at every moment of the read.
THEOREM ReadTypes == ConsensusSpec => []ConsensusTypeOK
  <1>1. ConsensusInit => ConsensusTypeOK
    BY DEF ConsensusInit, ConsensusTypeOK
  <1>2. ConsensusTypeOK /\ [ConsensusNext]_consensusVars => ConsensusTypeOK'
    <2> SUFFICES ASSUME ConsensusTypeOK, [ConsensusNext]_consensusVars PROVE ConsensusTypeOK'
      OBVIOUS
    <2>1. ASSUME NEW d \in Disk, Probe(d) PROVE ConsensusTypeOK'
      BY <2>1, PendingAssumption DEF ConsensusTypeOK, Probe
    <2>2. CASE Decide
      BY <2>2 DEF ConsensusTypeOK, Decide
    <2>3. CASE UNCHANGED consensusVars
      BY <2>3 DEF ConsensusTypeOK, consensusVars
    <2>4. QED
      BY <2>1, <2>2, <2>3 DEF ConsensusNext, Done
  <1>3. QED
    BY <1>1, <1>2, PTL DEF ConsensusSpec

\* Decodable and Unambiguous, for sets written with one parity setting.
THEOREM ServedRecords ==
  ASSUME Uniform
  PROVE  ConsensusSpec => []ServedSoundly
  <1>1. ASSUME NEW c \in Contract, Found(c) \in Outcomes(ans)
        PROVE  Votes(ans, c) >= N - parity[c]
    BY <1>1, FoundVotes, VotedIsOwn
  <1>2. ConsensusTypeOK => Decodable
    BY <1>1 DEF ConsensusTypeOK, Decodable, IsFound
  <1>3. ConsensusTypeOK => Unambiguous
    <2> SUFFICES ASSUME ConsensusTypeOK, NEW c \in Contract, NEW b \in Contract,
                        IsFound(c), Found(b) \in Outcomes(ans),
                        2 * parity[c] < N, 2 * parity[b] < N
                 PROVE  c = b
      BY DEF Unambiguous
    <2>1. Votes(ans, c) >= N - parity[c] /\ Votes(ans, b) >= N - parity[b]
      BY <1>1 DEF ConsensusTypeOK, IsFound
    <2>2. /\ Votes(ans, c) \in Nat /\ Votes(ans, b) \in Nat /\ N \in Nat
          /\ Voters(ans, c) \in SUBSET Disk /\ Voters(ans, b) \in SUBSET Disk
      BY Zenon, Sizes DEF Votes, Voters
    <2>3. parity[c] \in Nat /\ parity[b] \in Nat
      BY RecordAssumption, HalfBound DEF N
    <2>4. Votes(ans, c) + Votes(ans, b) > N
      BY <2>1, <2>2, <2>3
    <2>5. PICK d \in Voters(ans, c) : d \in Voters(ans, b)
      BY <2>2, <2>4, Overlap DEF Votes
    <2>6. QED
      BY <2>5 DEF Voters
  <1>4. ConsensusTypeOK => ServedSoundly
    BY <1>2, <1>3 DEF ServedSoundly
  <1>5. QED
    BY <1>4, ReadTypes, PTL

\* With errors on at most parity[c] disks and c everywhere else, and fewer
\* parity blocks than Gate 1 asks for, every vote is for c.
LEMMA FewErrors ==
  ASSUME Uniform, NEW a \in [Disk -> Answer], NEW c \in Contract,
         parity[c] < Half, \A d \in Disk : a[d] \in Tag \cup {c},
         N - Votes(a, c) <= parity[c]
  PROVE  Outcomes(a) = {Found(c)}
  <1> DEFINE V == Voters(a, c)
  <1>1. \A d \in Disk : a[d] \in Contract <=> d \in V
    BY AnswerAssumption DEF Voters
  <1>2. /\ V \in SUBSET Disk /\ Votes(a, c) = Cardinality(V)
        /\ Votes(a, c) \in Nat /\ N \in Nat \ {0}
    BY Zenon, Sizes DEF Voters, Votes
  <1>3. parity[c] \in 0..(N \div 2) /\ parity[c] \in Nat
    BY RecordAssumption, HalfBound DEF N
  <1>4. Votes(a, c) >= N - parity[c] /\ N - parity[c] > 0
    BY <1>2, <1>3, HalfBound
  <1>5. GateErrors(a) = {}
    <2> SUFFICES ASSUME NEW t \in GateErrors(a) PROVE FALSE
      OBVIOUS
    <2>1. t \in Tag /\ Votes(a, t) >= Half
      BY DEF GateErrors, DominantErrors
    <2>2. Voters(a, t) \subseteq Disk \ V
      BY <2>1, AnswerAssumption DEF Voters
    <2>3. Votes(a, t) <= Cardinality(Disk \ V)
      BY <2>2, Inclusion DEF Votes
    <2>4. Cardinality(Disk \ V) = N - Votes(a, c)
      BY <1>2, Sizes DEF Votes
    <2>5. Votes(a, t) \in Nat
      BY Zenon, Sizes DEF Votes, Voters
    <2>6. QED
      BY <1>2, <1>3, <2>1, <2>3, <2>4, <2>5, HalfBound
  <1>6. CommonParity(a) = {parity[c]}
    <2>1. {d \in Disk : a[d] \in Contract /\ VotedParity(a[d]) = parity[c]} = V
      BY <1>1 DEF VotedParity, Uniform, Voters
    <2>2. parity[c] \in ParityQuorums(a)
      BY <1>2, <1>3, <1>4, <2>1 DEF ParityQuorums, ParityVotes
    <2>3. ASSUME NEW q \in ParityQuorums(a) PROVE q = parity[c]
      <3> DEFINE S == {d \in Disk : a[d] \in Contract /\ VotedParity(a[d]) = q}
      <3>1. q \in 0..(N \div 2) /\ Cardinality(S) >= N - q
        BY DEF ParityQuorums, ParityVotes
      <3>2. Cardinality(S) # 0
        BY <3>1, HalfBound
      <3>3. PICK d \in S : TRUE
        BY <3>2, FS_EmptySet
      <3>4. QED
        BY <1>1, <3>3 DEF VotedParity, Uniform, Voters
    <2>4. ParityVotes(a, parity[c]) = Votes(a, c)
      BY <2>1 DEF ParityVotes, Votes
    <2>5. QED
      BY <1>2, <2>2, <2>3, <2>4 DEF CommonParity
  <1>7. CommonEtag(a, N - parity[c]) = {etag[c]}
    <2>1. {d \in Disk : a[d] \in Contract /\ etag[a[d]] = etag[c]} = V
      BY <1>1 DEF Voters
    <2>2. \A f \in Etag \ {etag[c]} :
            {d \in Disk : a[d] \in Contract /\ etag[a[d]] = f} = {}
      BY <1>1 DEF Voters
    <2>3. \A f \in Etag \ {etag[c]} : EtagVotes(a, f) = 0
      BY Zenon, <2>2, FS_EmptySet DEF EtagVotes
    <2>4. EtagVotes(a, etag[c]) = Votes(a, c)
      BY Zenon, <1>2, <2>1 DEF EtagVotes
    <2>5. etag[c] \in Etag
      BY RecordAssumption
    <2>6. etag[c] \in CommonEtag(a, N - parity[c])
      BY <1>2, <1>4, <2>3, <2>4, <2>5 DEF CommonEtag
    <2>7. ASSUME NEW f \in CommonEtag(a, N - parity[c]) PROVE f = etag[c]
      BY <1>2, <1>3, <1>4, <2>3 DEF CommonEtag
    <2>8. QED
      BY <2>6, <2>7
  <1>8. Winners(a, etag[c], N - parity[c]) = {c}
    <2>1. \A b \in Contract \ {c} : Voters(a, b) = {}
      BY <1>1 DEF Voters
    <2>2. \A b \in Contract \ {c} : Votes(a, b) = 0
      BY <2>1, FS_EmptySet DEF Votes
    <2>3. c \in Winners(a, etag[c], N - parity[c])
      BY <1>2, <1>4, <2>2 DEF Winners
    <2>4. ASSUME NEW b \in Winners(a, etag[c], N - parity[c]) PROVE b = c
      BY <1>2, <1>3, <1>4, <2>2 DEF Winners
    <2>5. QED
      BY <2>3, <2>4
  <1>9. EtagOutcomes(a, etag[c], N - parity[c]) = {Found(c)}
    BY <1>8 DEF EtagOutcomes
  <1>10. ParityOutcomes(a, parity[c]) = {Found(c)}
    BY <1>7, <1>9 DEF ParityOutcomes
  <1>11. QED
    BY <1>5, <1>6, <1>10 DEF Outcomes

\* An object all disks hold survives parity[c] failing disks, provided the
\* parity is smaller than half of the set (rounded down): exactly the sets for
\* which Gate 1 cannot be reached by tolerable failures.
THEOREM ToleratesFailures ==
  ASSUME Uniform, \A c \in Contract : parity[c] < Half
  PROVE  ConsensusSpec => []ToleratesParityFailures
  <1>1. ConsensusTypeOK => ToleratesParityFailures
    <2> SUFFICES ASSUME ConsensusTypeOK, NEW c \in Contract, outcome # Pending,
                        \A d \in Disk : ans[d] \in Tag \cup {c},
                        N - Votes(ans, c) <= parity[c]
                 PROVE  IsFound(c)
      BY DEF ToleratesParityFailures
    <2>1. ans \in [Disk -> Answer] /\ outcome \in Outcomes(ans)
      BY DEF ConsensusTypeOK
    <2>2. Outcomes(ans) = {Found(c)}
      BY <2>1, FewErrors
    <2>3. QED
      BY <2>1, <2>2 DEF IsFound
  <1>2. QED
    BY <1>1, ReadTypes, PTL
===============================================================================
