---------------------------- MODULE ConsensusRead -----------------------------
(***************************************************************************)
(* One read of the xl.meta of an object: the probes of the disks answer in *)
(* any order and join_all waits for all of them, then the votes decide.    *)
(***************************************************************************)
EXTENDS ReadConsensus

CONSTANT Pending    \* no answer yet

ASSUME PendingAssumption == Pending \notin Answer

VARIABLES
  ans,      \* what each disk has answered
  outcome   \* the verdict, or Pending

consensusVars == <<ans, outcome>>

ConsensusInit ==
  /\ ans = [d \in Disk |-> Pending]
  /\ outcome = Pending

\* One probe's read_version returns.
Probe(d) ==
  /\ ans[d] = Pending
  /\ \E a \in Answer : ans' = [ans EXCEPT ![d] = a]
  /\ UNCHANGED outcome

\* All probes have answered: the votes decide.
Decide ==
  /\ outcome = Pending
  /\ \A d \in Disk : ans[d] # Pending
  /\ outcome' \in Outcomes(ans)
  /\ UNCHANGED ans

\* The read is over.
Done == outcome # Pending /\ UNCHANGED consensusVars

ConsensusNext == (\E d \in Disk : Probe(d)) \/ Decide \/ Done

ConsensusSpec == ConsensusInit /\ [][ConsensusNext]_consensusVars

-------------------------------------------------------------------------------
ConsensusTypeOK ==
  /\ ans \in [Disk -> Answer \cup {Pending}]
  /\ outcome = Pending \/ outcome \in Outcomes(ans)
  /\ outcome # Pending => ans \in [Disk -> Answer]

IsFound(c) == outcome # Pending /\ outcome = Found(c)

\* A record is only served if as many disks as it has data blocks agree on it,
\* so that its shards can be decoded (the D quorums of read_with_consensus).
Decodable ==
  \A c \in Contract : IsFound(c) => Votes(ans, c) >= N - parity[c]

\* When a data quorum is more than half of the set, two readers that see the
\* same disks serve the same record, whatever the order of the HashMaps.
Unambiguous ==
  \A c, b \in Contract :
    IsFound(c) /\ Found(b) \in Outcomes(ans) /\ 2 * parity[c] < N /\ 2 * parity[b] < N
      => c = b

\* An object that every disk holds is readable while no more disks fail than
\* it has parity blocks ("EC[2+1]: tolerates 1 disk failure per set").
ToleratesParityFailures ==
  \A c \in Contract :
    /\ outcome # Pending
    /\ \A d \in Disk : ans[d] \in Tag \cup {c}
    /\ N - Votes(ans, c) <= parity[c]
    => IsFound(c)

\* What read_with_consensus serves can be decoded and does not depend on chance.
ServedSoundly == Decodable /\ Unambiguous
===============================================================================
