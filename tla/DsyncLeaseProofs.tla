---------------------------- MODULE DsyncLeaseProofs --------------------------
(***************************************************************************)
(* Mutual exclusion under the timing assumptions: no restarts, fan-outs    *)
(* of at most MaxLatency, at most MaxMissed refreshes of a peer failing in *)
(* a row, and a validity that outlasts that many rounds.                   *)
(***************************************************************************)
EXTENDS DsyncProofs

Budget(k) == k * (RefreshInterval + MaxLatency)

Timely ==
  /\ Synchronous
  /\ CanRestart = {}
  /\ Budget(MaxMissed + 1) + MaxLatency < Validity

\* The oldest a lease that client c counts on may be at peer p.
Slack(c, p) ==
  IF phase[c] = "sleeping" THEN Budget(missed[c][p]) + MaxLatency + timer[c]
  ELSE IF reply[c][p] = "wait" THEN Budget(missed[c][p] + 1) + timer[c]
  ELSE Budget(missed[c][p]) + timer[c]

\* The peers c counts on: they have its lease, no older than allowed, and have
\* not denied it in the round under way.
Backers(c) ==
  {p \in Peer : /\ holder[p] = uid[c]
                /\ age[p] <= Slack(c, p)
                /\ phase[c] = "refreshing" => reply[c][p] # "no"}

TimersOK(c) ==
  /\ phase[c] \in {"voting", "refreshing"} => timer[c] <= MaxLatency
  /\ phase[c] = "sleeping" => timer[c] <= RefreshInterval

VotesOK(c) ==
  \A p \in Peer : phase[c] = "voting" /\ reply[c][p] = "yes"
                    => holder[p] = uid[c] /\ age[p] <= timer[c]

BackersOK(c) == Held(c) => Cardinality(Backers(c)) >= Quorum

ClientOK(c) == TimersOK(c) /\ VotesOK(c) /\ BackersOK(c) /\ phase[c] # "lost"

LeaseInv == \A c \in Client : ClientOK(c)

\* Each further round adds one interval and one latency to the budget.
LEMMA BudgetFacts ==
  /\ \A k \in Nat : Budget(k) \in Nat
  /\ \A k \in Nat : Budget(k + 1) = Budget(k) + RefreshInterval + MaxLatency
  /\ Budget(0) = 0
  /\ \A k \in 0..MaxMissed : Budget(k + 1) <= Budget(MaxMissed + 1)
  <1> DEFINE K == RefreshInterval + MaxLatency
  <1>1. K \in Nat
    BY TimingAssumption
  <1>2. \A k \in Nat : k * K \in Nat /\ (k + 1) * K = k * K + K
    BY <1>1
  <1>3. \A k \in 0..MaxMissed : (k + 1) * K <= (MaxMissed + 1) * K
    BY <1>1, TimingAssumption
  <1>4. QED
    BY <1>1, <1>2, <1>3, TimingAssumption DEF Budget

\* The counters that the arguments below add up are natural numbers.
LEMMA CountersAreNat ==
  ASSUME TypeOK, NEW c \in Client
  PROVE  timer[c] \in Nat /\ \A p \in Peer : age[p] \in Nat /\ missed[c][p] \in Nat
  BY ValidityAssumption, TimingAssumption DEF TypeOK, ServerTypeOK, TimerCap

\* The age allowed for a lease is a natural number.
LEMMA SlackNat ==
  ASSUME TypeOK, NEW c \in Client, NEW p \in Peer
  PROVE  Slack(c, p) \in Nat
  <1>1. timer[c] \in Nat /\ missed[c][p] \in Nat
    BY CountersAreNat
  <1>2. Budget(missed[c][p]) \in Nat /\ Budget(missed[c][p] + 1) \in Nat
    BY <1>1, BudgetFacts
  <1>3. QED
    BY <1>1, <1>2, TimingAssumption DEF Slack

\* A lease that a client counts on has not expired.
LEMMA BackersLive ==
  ASSUME Timely, TypeOK, NEW c \in Client, TimersOK(c), Held(c), NEW p \in Backers(c)
  PROVE  Live(p) /\ uid[c] \in Uid
  <1> DEFINE m == missed[c][p]
  <1>1. m \in 0..MaxMissed /\ timer[c] \in Nat /\ age[p] \in Nat
    BY ValidityAssumption, TimingAssumption
       DEF TypeOK, ServerTypeOK, Backers, TimerCap
  <1>2. /\ Budget(m) \in Nat
        /\ Budget(m + 1) = Budget(m) + RefreshInterval + MaxLatency
        /\ Budget(m + 1) <= Budget(MaxMissed + 1)
        /\ Budget(MaxMissed + 1) \in Nat
    BY <1>1, BudgetFacts, TimingAssumption
  <1>3. Slack(c, p) <= Budget(MaxMissed + 1) + MaxLatency
    BY <1>1, <1>2, TimingAssumption DEF Slack, TimersOK, Held
  <1>4. age[p] < Validity
    BY <1>1, <1>2, <1>3, ValidityAssumption, TimingAssumption
       DEF Backers, Timely, Slack
  <1>5. QED
    BY <1>4 DEF Live, Backers, TypeOK, Held

\* Nor has one that was granted in the vote under way.
LEMMA VotesLive ==
  ASSUME Timely, TypeOK, NEW c \in Client, TimersOK(c), VotesOK(c), NEW p \in Peer,
         phase[c] = "voting", reply[c][p] = "yes"
  PROVE  Live(p) /\ uid[c] \in Uid
  <1>1. Budget(MaxMissed + 1) \in Nat
    BY BudgetFacts, TimingAssumption
  <1>2. timer[c] \in Nat /\ age[p] \in Nat /\ age[p] <= MaxLatency
    BY ValidityAssumption, TimingAssumption
       DEF TypeOK, ServerTypeOK, TimerCap, VotesOK, TimersOK
  <1>3. QED
    BY <1>1, <1>2, ValidityAssumption, TimingAssumption
       DEF Timely, Live, VotesOK, TypeOK

\* A request that a server handles leaves the leases c counts on in place.
LEMMA HandleKeepsOwn ==
  ASSUME TypeOK, Ownership, NEW m \in net, Handle(m),
         NEW c \in Client, NEW p \in Peer, holder[p] = uid[c], Live(p), uid[c] \in Uid,
         phase[c] \in {"voting", "sleeping", "refreshing"}
  PROVE  holder'[p] = uid[c] /\ age'[p] <= age[p] /\ age'[p] \in Nat
  <1>1. ~(m.op = "release" /\ m.uid = uid[c])
    BY DEF Ownership
  <1>2. age[p] \in Nat
    BY ValidityAssumption DEF TypeOK, ServerTypeOK
  <1>3. QED
    BY <1>1, <1>2, HandleKeeps

\* It is enough that no backer is lost.
LEMMA BackersGrow ==
  ASSUME NEW c \in Client, BackersOK(c), Held(c), Backers(c) \subseteq Backers(c)'
  PROVE  BackersOK(c)'
  <1>1. Backers(c)' \in SUBSET Peer
    BY DEF Backers
  <1>2. /\ Cardinality(Backers(c)) <= Cardinality(Backers(c)')
        /\ Cardinality(Backers(c)) \in Nat
        /\ Cardinality(Backers(c)') \in Nat
    BY <1>1, LargerSets
  <1>3. QED
    BY <1>2, QuorumFacts DEF BackersOK

\* Clients that a step does not involve are not disturbed by it.
LEMMA Bystander ==
  ASSUME NEW c \in Client, ClientOK(c), UNCHANGED lockVars,
         phase'[c] = phase[c], uid'[c] = uid[c], reply'[c] = reply[c],
         timer'[c] = timer[c], missed'[c] = missed[c]
  PROVE  ClientOK(c)'
  BY DEF ClientOK, TimersOK, VotesOK, BackersOK, Held, Backers, Slack, lockVars

\* A step of client d keeps the invariant for d itself.
LEMMA ClientStepKeeps ==
  ASSUME Timely, TypeOK, TypeOK', NEW d \in Client, ClientOK(d), ClientStep(d)
  PROVE  ClientOK(d)'
  <1>1. \A p \in Peer : missed[d][p] \in Nat /\ age[p] \in Nat /\ timer[d] \in Nat
    BY CountersAreNat
  <1>2. \A p \in Peer : /\ Budget(missed[d][p]) \in Nat
                        /\ Budget(missed[d][p] + 1)
                             = Budget(missed[d][p]) + RefreshInterval + MaxLatency
    BY <1>1, BudgetFacts
  <1>3. ASSUME phase'[d] \in {"idle", "voting", "unwinding"}, timer'[d] = 0,
               \A p \in Peer : phase'[d] = "voting" => reply'[d][p] # "yes"
        PROVE  ClientOK(d)'
    <2>1. TimersOK(d)'
      BY <1>3, TimingAssumption DEF TimersOK
    <2>2. VotesOK(d)'
      BY <1>3 DEF VotesOK
    <2>3. ~Held(d)' /\ phase'[d] # "lost"
      BY <1>3 DEF Held
    <2>4. QED
      BY <2>1, <2>2, <2>3 DEF ClientOK, BackersOK
  <1>4. CASE BeginAttempt(d)
    <2>1. /\ phase'[d] = "voting" /\ timer'[d] = 0
          /\ \A p \in Peer : reply'[d][p] = "wait"
      BY <1>4 DEF BeginAttempt, Goto, ResetTimer, Awaiting, TypeOK
    <2>2. QED
      BY <1>3, <2>1
  <1>5. CASE LoseVote(d)
    <2>1. phase'[d] = "unwinding" /\ timer'[d] = 0
      BY <1>5 DEF LoseVote, Goto, ResetTimer, TypeOK
    <2>2. QED
      BY <1>3, <2>1
  <1>6. CASE GiveUp(d) \/ DropGuard(d) \/ Crash(d)
    <2>1. Leave(d, "idle", None)
      BY <1>6 DEF GiveUp, DropGuard, Crash
    <2>2. phase'[d] = "idle" /\ timer'[d] = 0
      BY <2>1 DEF Leave, Goto, ResetTimer, TypeOK
    <2>3. QED
      BY <1>3, <2>2
  <1>7. ASSUME NEW p \in Peer, ReleaseStray(d, p) PROVE ClientOK(d)'
    <2>1. phase[d] = "unwinding" /\ phase' = phase /\ timer' = timer
      BY <1>7 DEF ReleaseStray
    <2>2. QED
      BY <2>1 DEF ClientOK, TimersOK, VotesOK, BackersOK, Held
  <1>8. CASE WinVote(d)
    <2>1. /\ phase'[d] = "sleeping" /\ timer'[d] = 0 /\ uid'[d] = uid[d]
          /\ \A p \in Peer : missed'[d][p] = 0
          /\ holder' = holder /\ age' = age
      BY <1>8 DEF WinVote, Leave, Goto, ResetTimer, lockVars, TypeOK
    <2>2. Answered(d, "yes") \subseteq Backers(d)'
      <3>1. ASSUME NEW p \in Answered(d, "yes")
            PROVE  holder[p] = uid[d] /\ age[p] <= MaxLatency /\ p \in Peer
        BY <1>1, <1>8, TimingAssumption
           DEF WinVote, Answered, ClientOK, VotesOK, TimersOK
      <3>2. \A p \in Peer : Slack(d, p)' = MaxLatency
        BY <2>1, BudgetFacts, TimingAssumption DEF Slack
      <3>3. QED
        BY <2>1, <3>1, <3>2 DEF Backers
    <2>3. Backers(d)' \in SUBSET Peer /\ Answered(d, "yes") \in SUBSET Peer
      BY DEF Backers, Answered
    <2>4. Cardinality(Backers(d)') >= Quorum
      BY <1>8, <2>2, <2>3, LargerSets, QuorumFacts DEF WinVote
    <2>5. TimersOK(d)' /\ VotesOK(d)' /\ phase'[d] # "lost"
      BY <2>1, TimingAssumption DEF TimersOK, VotesOK
    <2>6. BackersOK(d)'
      BY <2>4 DEF BackersOK
    <2>7. QED
      BY <2>5, <2>6 DEF ClientOK
  <1>9. CASE BeginRefresh(d)
    <2>1. /\ phase[d] = "sleeping" /\ phase'[d] = "refreshing" /\ timer'[d] = 0
          /\ uid'[d] = uid[d] /\ \A p \in Peer : reply'[d][p] = "wait"
          /\ missed' = missed /\ holder' = holder /\ age' = age
      BY <1>9 DEF BeginRefresh, Goto, ResetTimer, Awaiting, lockVars, TypeOK
    <2>2. Backers(d) \subseteq Backers(d)'
      BY <1>1, <1>2, <2>1, TimingAssumption DEF Backers, Slack, ClientOK, TimersOK
    <2>3. BackersOK(d)'
      BY <2>1, <2>2, BackersGrow DEF ClientOK, Held
    <2>4. TimersOK(d)' /\ VotesOK(d)' /\ phase'[d] # "lost"
      BY <2>1, TimingAssumption DEF TimersOK, VotesOK
    <2>5. QED
      BY <2>3, <2>4 DEF ClientOK
  <1>10. CASE KeepLock(d)
    <2>1. /\ phase[d] = "refreshing" /\ phase'[d] = "sleeping" /\ timer'[d] = 0
          /\ uid'[d] = uid[d] /\ \A p \in Peer : reply[d][p] # "wait"
          /\ missed' = missed /\ holder' = holder /\ age' = age
      BY <1>10 DEF KeepLock, Goto, ResetTimer, AllAnswered, Answered, lockVars, TypeOK
    <2>2. Backers(d) \subseteq Backers(d)'
      BY <1>1, <1>2, <2>1, TimingAssumption DEF Backers, Slack, ClientOK, TimersOK
    <2>3. BackersOK(d)'
      BY <2>1, <2>2, BackersGrow DEF ClientOK, Held
    <2>4. TimersOK(d)' /\ VotesOK(d)' /\ phase'[d] # "lost"
      BY <2>1, TimingAssumption DEF TimersOK, VotesOK
    <2>5. QED
      BY <2>3, <2>4 DEF ClientOK
  <1>11. ~LoseLock(d)
    <2> SUFFICES ASSUME LoseLock(d) PROVE FALSE
      OBVIOUS
    <2>1. Held(d) /\ phase[d] = "refreshing"
      BY DEF LoseLock, Held
    <2>2. Answered(d, "no") \subseteq Peer \ Backers(d)
      BY <2>1 DEF Answered, Backers
    <2>3. Backers(d) \in SUBSET Peer /\ Peer \ Backers(d) \in SUBSET Peer
      BY DEF Backers
    <2>4. Cardinality(Peer \ Backers(d)) = Cardinality(Peer) - Cardinality(Backers(d))
      <3>1. Peer \cap Backers(d) = Backers(d)
        BY <2>3
      <3>2. QED
        BY <3>1, PeerAssumption, FS_Difference
    <2>5. Cardinality(Answered(d, "no")) <= Cardinality(Peer \ Backers(d))
      BY <2>2, <2>3, LargerSets
    <2>6. /\ Cardinality(Answered(d, "no")) \in Nat
          /\ Cardinality(Backers(d)) \in Nat
          /\ Cardinality(Peer) \in Nat
      BY <2>2, <2>3, LargerSets, PeerAssumption, FS_CardinalityType
    <2>7. Cardinality(Backers(d)) >= Quorum
      BY <2>1 DEF ClientOK, BackersOK
    <2>8. ~(Cardinality(Answered(d, "no")) <= Tolerance)
      BY DEF LoseLock, StillHeld
    <2>9. QED
      BY <2>4, <2>5, <2>6, <2>7, <2>8, QuorumFacts DEF Tolerance
  <1>12. ASSUME NEW q \in Peer, CallFails(d, q) PROVE ClientOK(d)'
    <2>1. /\ phase' = phase /\ timer' = timer /\ uid' = uid
          /\ holder' = holder /\ age' = age
          /\ reply'[d] = [reply[d] EXCEPT ![q] = "err"]
      BY <1>12 DEF CallFails, lockVars, TypeOK
    <2>2. ASSUME Held(d) PROVE BackersOK(d)'
      <3>1. CASE phase[d] = "refreshing"
        <4>1. /\ missed'[d][q] = missed[d][q] + 1
              /\ \A p \in Peer \ {q} : missed'[d][p] = missed[d][p]
          BY <1>12, <3>1 DEF CallFails, Timely, TypeOK
        <4>2. reply'[d][q] = "err" /\ reply[d][q] = "wait"
              /\ \A p \in Peer \ {q} : reply'[d][p] = reply[d][p]
          BY <1>12, <2>1 DEF CallFails, TypeOK
        <4>3. Backers(d) \subseteq Backers(d)'
          BY <1>1, <1>2, <2>1, <3>1, <4>1, <4>2, TimingAssumption
             DEF Backers, Slack, ClientOK, TimersOK
        <4>4. QED
          BY <2>2, <4>3, BackersGrow DEF ClientOK
      <3>2. CASE phase[d] = "sleeping"
        <4>1. missed' = missed
          BY <1>12, <3>2 DEF CallFails
        <4>2. Backers(d) \subseteq Backers(d)'
          BY <2>1, <3>2, <4>1 DEF Backers, Slack
        <4>3. QED
          BY <2>2, <4>2, BackersGrow DEF ClientOK
      <3>3. QED
        BY <2>2, <3>1, <3>2 DEF Held
    <2>3. VotesOK(d)'
      BY <2>1 DEF TypeOK, ClientOK, VotesOK
    <2>4. TimersOK(d)' /\ phase'[d] # "lost"
      BY <2>1 DEF ClientOK, TimersOK
    <2>5. BackersOK(d)'
      BY <2>1, <2>2 DEF BackersOK, Held
    <2>6. QED
      BY <2>3, <2>4, <2>5 DEF ClientOK
  <1>13. QED
    BY <1>4, <1>5, <1>6, <1>7, <1>8, <1>9, <1>10, <1>11, <1>12 DEF ClientStep

\* Handling a request that changes nothing at client c keeps c's invariant.
LEMMA HandleKeepsClient ==
  ASSUME Timely, TypeOK, Ownership, NEW m \in net, Handle(m),
         NEW c \in Client, ClientOK(c),
         phase'[c] = phase[c], uid'[c] = uid[c], reply'[c] = reply[c],
         timer'[c] = timer[c], missed'[c] = missed[c]
  PROVE  ClientOK(c)'
  <1> USE DEF ClientOK
  <1>1. \A p \in Peer : age[p] \in Nat /\ timer[c] \in Nat /\ missed[c][p] \in Nat
    BY CountersAreNat
  <1>2. VotesOK(c)'
    <2> SUFFICES ASSUME NEW p \in Peer, phase[c] = "voting", reply[c][p] = "yes"
                 PROVE  holder'[p] = uid[c] /\ age'[p] <= timer[c]
      BY DEF VotesOK
    <2>1. Live(p) /\ uid[c] \in Uid
      BY VotesLive
    <2>2. holder'[p] = uid[c] /\ age'[p] <= age[p] /\ age'[p] \in Nat
      BY <2>1, HandleKeepsOwn DEF VotesOK
    <2>3. QED
      BY <1>1, <2>2 DEF VotesOK
  <1>3. ASSUME Held(c) PROVE BackersOK(c)'
    <2>1. ASSUME NEW p \in Backers(c) PROVE p \in Backers(c)'
      <3>1. Live(p) /\ uid[c] \in Uid
        BY <1>3, BackersLive
      <3>2. p \in Peer /\ holder[p] = uid[c] /\ age[p] <= Slack(c, p)
        BY DEF Backers
      <3>3. holder'[p] = uid[c] /\ age'[p] <= age[p] /\ age'[p] \in Nat
        BY <1>3, <3>1, <3>2, HandleKeepsOwn DEF Held
      <3>4. Slack(c, p)' = Slack(c, p) /\ Slack(c, p) \in Nat
        <4>1. Slack(c, p)' = Slack(c, p)
          BY DEF Slack
        <4>2. QED
          BY <3>2, <4>1, SlackNat
      <3>5. QED
        BY <1>1, <3>2, <3>3, <3>4 DEF Backers
    <2>2. QED
      BY <1>3, <2>1, BackersGrow
  <1>4. QED
    BY <1>2, <1>3 DEF TimersOK, BackersOK, Held

\* So does an answer that reaches the client waiting for it.
LEMMA AnswerKeepsClient ==
  ASSUME Timely, TypeOK, TypeOK', Ownership, NEW m \in net, Handle(m),
         NEW d \in Client, ClientOK(d), Awaits(d, m),
         reply' = [reply EXCEPT ![d][m.peer] = AnswerTo(m)],
         missed' = IF m.op = "refresh" THEN [missed EXCEPT ![d][m.peer] = 0] ELSE missed,
         phase' = phase, uid' = uid, timer' = timer
  PROVE  ClientOK(d)'
  <1> USE DEF ClientOK
  <1> DEFINE q == m.peer
  <1>1. q \in Peer /\ m.uid = uid[d] /\ reply[d][q] = "wait" /\ m.uid \in Uid
    BY DEF Awaits, TypeOK, Request
  <1>2. /\ reply'[d][q] = AnswerTo(m)
        /\ \A p \in Peer \ {q} : reply'[d][p] = reply[d][p]
        /\ \A p \in Peer \ {q} : missed'[d][p] = missed[d][p]
    BY <1>1 DEF TypeOK
  <1>3. \A p \in Peer : age[p] \in Nat /\ timer[d] \in Nat /\ missed[d][p] \in Nat
    BY CountersAreNat
  <1>4. VotesOK(d)'
    <2> SUFFICES ASSUME NEW p \in Peer, phase[d] = "voting", reply'[d][p] = "yes"
                 PROVE  holder'[p] = uid[d] /\ age'[p] <= timer[d]
      BY DEF VotesOK
    <2>1. CASE p # q
      <3>1. reply[d][p] = "yes"
        BY <1>2, <2>1
      <3>2. Live(p) /\ uid[d] \in Uid
        BY <3>1, VotesLive
      <3>3. holder'[p] = uid[d] /\ age'[p] <= age[p] /\ age'[p] \in Nat
        BY <3>1, <3>2, HandleKeepsOwn DEF VotesOK
      <3>4. QED
        BY <1>3, <3>1, <3>3 DEF VotesOK
    <2>2. CASE p = q
      <3>1. m.op = "acquire"
        BY DEF Awaits
      <3>2. ~Live(q)
        <4>1. AcquireAnswer(q) = "yes"
          BY <1>2, <2>2, <3>1 DEF AnswerTo
        <4>2. QED
          BY <4>1 DEF AcquireAnswer
      <3>3. holder'[q] = m.uid /\ age'[q] = 0
        BY <1>1, <3>1, <3>2 DEF Handle, Acquire, SetEntry, TypeOK, ServerTypeOK
      <3>4. QED
        BY <1>1, <1>3, <2>2, <3>3
    <2>3. QED
      BY <2>1, <2>2
  <1>5. ASSUME Held(d) PROVE BackersOK(d)'
    <2>1. phase[d] = "refreshing" /\ m.op = "refresh"
      BY <1>5 DEF Held, Awaits
    <2>2. ASSUME NEW p \in Backers(d) PROVE p \in Backers(d)'
      <3>1. p \in Peer /\ holder[p] = uid[d] /\ age[p] <= Slack(d, p)
        BY DEF Backers
      <3>2. CASE p # q
        <4>1. Live(p) /\ uid[d] \in Uid
          BY <1>5, BackersLive
        <4>2. holder'[p] = uid[d] /\ age'[p] <= age[p] /\ age'[p] \in Nat
          BY <2>1, <3>1, <4>1, HandleKeepsOwn
        <4>3. Slack(d, p)' = Slack(d, p) /\ Slack(d, p) \in Nat
          <5>1. Slack(d, p)' = Slack(d, p)
            BY <1>2, <3>1, <3>2 DEF Slack
          <5>2. QED
            BY <3>1, <5>1, SlackNat
        <4>4. QED
          BY <1>2, <1>3, <3>1, <3>2, <4>2, <4>3 DEF Backers
      <3>3. CASE p = q
        <4>1. holder'[q] = uid[d] /\ age'[q] = 0
          BY <1>1, <2>1, <3>1, <3>3
             DEF Handle, Refresh, SetEntry, TypeOK, ServerTypeOK
        <4>2. reply'[d][q] = "yes"
          <5>1. AnswerTo(m) = "yes"
            BY <1>1, <2>1, <3>1, <3>3 DEF AnswerTo, RefreshAnswer
          <5>2. QED
            BY <1>2, <5>1
        <4>3. missed'[d][q] = 0
          BY <1>1, <2>1 DEF TypeOK
        <4>4. Slack(d, q)' = timer[d]
          <5>1. Slack(d, q)' = Budget(0) + timer[d]
            BY <2>1, <4>2, <4>3 DEF Slack
          <5>2. QED
            BY <1>1, <1>3, <5>1, BudgetFacts
        <4>5. QED
          <5>1. age'[q] <= Slack(d, q)'
            BY <1>1, <1>3, <4>1, <4>4
          <5>2. QED
            BY <1>3, <3>1, <3>3, <4>1, <4>2, <5>1 DEF Backers
      <3>4. QED
        BY <3>2, <3>3
    <2>3. QED
      BY <1>5, <2>2, BackersGrow
  <1>6. QED
    BY <1>4, <1>5 DEF TimersOK, BackersOK, Held

\* One tick ages the leases and the timers together.
LEMMA TickKeepsClient ==
  ASSUME Timely, TypeOK, Tick, NEW c \in Client, ClientOK(c)
  PROVE  ClientOK(c)'
  <1> USE DEF ClientOK
  <1>1. timer[c] \in Nat /\ \A p \in Peer : age[p] \in Nat /\ missed[c][p] \in Nat
    BY CountersAreNat
  <1>2. \A p \in Peer : holder'[p] = holder[p] /\ age'[p] \in Nat /\ age'[p] <= age[p] + 1
    BY <1>1 DEF Tick, AgeEntries
  <1>3. /\ phase' = phase /\ uid' = uid /\ reply' = reply /\ missed' = missed
        /\ InTime(c)
    BY DEF Tick, Timely
  <1>4. Timed(c) => timer'[c] = timer[c] + 1
    <2>1. Timed(c) => timer[c] < TimerCap
      BY <1>1, <1>3, TimingAssumption DEF InTime, Timed, TimerCap
    <2>2. QED
      BY <2>1 DEF Tick
  <1>5. TimersOK(c)'
    BY <1>1, <1>3, <1>4, TimingAssumption DEF TimersOK, InTime, Timed
  <1>6. VotesOK(c)'
    BY <1>1, <1>2, <1>3, <1>4 DEF VotesOK, Timed
  <1>7. ASSUME Held(c) PROVE BackersOK(c)'
    <2>1. timer'[c] = timer[c] + 1
      BY <1>4, <1>7 DEF Held, Timed
    <2>2. ASSUME NEW p \in Peer
          PROVE  Slack(c, p)' = Slack(c, p) + 1 /\ Slack(c, p) \in Nat
      <3>1. Budget(missed[c][p]) \in Nat /\ Budget(missed[c][p] + 1) \in Nat
        BY <1>1, BudgetFacts
      <3>2. QED
        BY <1>1, <1>3, <2>1, <3>1, TimingAssumption DEF Slack
    <2>3. Backers(c) \subseteq Backers(c)'
      BY <1>1, <1>2, <1>3, <2>2 DEF Backers
    <2>4. QED
      BY <1>7, <2>3, BackersGrow
  <1>8. QED
    BY <1>3, <1>5, <1>6, <1>7 DEF BackersOK, Held

\* The sweeper only drops leases nobody counts on.
LEMMA SweepKeepsClient ==
  ASSUME Timely, TypeOK, NEW q \in Peer, Sweep(q), NEW c \in Client, ClientOK(c)
  PROVE  ClientOK(c)'
  <1> USE DEF ClientOK
  <1>1. /\ ~Live(q)
        /\ \A p \in Peer \ {q} : holder'[p] = holder[p] /\ age'[p] = age[p]
        /\ phase' = phase /\ uid' = uid /\ reply' = reply /\ timer' = timer
        /\ missed' = missed
    BY DEF Sweep, ExpireOld, SetEntry, clientVars, TypeOK, ServerTypeOK
  <1>2. VotesOK(c)'
    <2> SUFFICES ASSUME NEW p \in Peer, phase[c] = "voting", reply[c][p] = "yes"
                 PROVE  holder'[p] = uid[c] /\ age'[p] <= timer[c]
      BY <1>1 DEF VotesOK
    <2>1. p # q
      BY <1>1, VotesLive
    <2>2. QED
      BY <1>1, <2>1 DEF VotesOK
  <1>3. ASSUME Held(c) PROVE BackersOK(c)'
    <2>1. q \notin Backers(c)
      BY <1>1, <1>3, BackersLive
    <2>2. Backers(c) \subseteq Backers(c)'
      <3>1. \A p \in Peer : Slack(c, p)' = Slack(c, p)
        BY Zenon, <1>1 DEF Slack
      <3>2. QED
        BY <1>1, <2>1, <3>1 DEF Backers
    <2>3. QED
      BY <1>3, <2>2, BackersGrow
  <1>4. QED
    BY <1>1, <1>2, <1>3 DEF TimersOK, BackersOK, Held

\* A client's step changes nothing of another client's and no lock entry.
LEMMA StepIsLocal ==
  ASSUME TypeOK, NEW c \in Client, NEW d \in Client, d # c, ClientStep(d)
  PROVE  /\ phase'[c] = phase[c] /\ uid'[c] = uid[c] /\ reply'[c] = reply[c]
         /\ timer'[c] = timer[c] /\ missed'[c] = missed[c]
         /\ UNCHANGED lockVars
  <1>1. ASSUME NEW ph, NEW u, Leave(d, ph, u)
        PROVE  /\ phase'[c] = phase[c] /\ uid'[c] = uid[c] /\ reply'[c] = reply[c]
               /\ timer'[c] = timer[c] /\ missed'[c] = missed[c]
               /\ UNCHANGED lockVars
    BY <1>1 DEF Leave, Goto, ResetTimer, ResetReplies, TypeOK
  <1>2. CASE WinVote(d) \/ GiveUp(d) \/ LoseLock(d) \/ DropGuard(d) \/ Crash(d)
    <2>1. \E ph, u : Leave(d, ph, u)
      BY Zenon, <1>2 DEF WinVote, GiveUp, LoseLock, DropGuard, Crash
    <2>2. QED
      BY Zenon, <1>1, <2>1
  <1>3. CASE BeginAttempt(d)
    BY <1>3 DEF BeginAttempt, Goto, ResetTimer, TypeOK
  <1>4. CASE LoseVote(d)
    BY <1>4 DEF LoseVote, Goto, ResetTimer, TypeOK
  <1>5. CASE BeginRefresh(d)
    BY <1>5 DEF BeginRefresh, Goto, ResetTimer, TypeOK
  <1>6. CASE KeepLock(d)
    BY <1>6 DEF KeepLock, Goto, ResetTimer, ResetReplies, TypeOK
  <1>7. ASSUME NEW p \in Peer, ReleaseStray(d, p)
        PROVE  reply'[c] = reply[c] /\ UNCHANGED <<phase, uid, timer, missed, lockVars>>
    BY <1>7 DEF ReleaseStray, TypeOK
  <1>8. ASSUME NEW p \in Peer, CallFails(d, p)
        PROVE  /\ reply'[c] = reply[c] /\ missed'[c] = missed[c]
               /\ UNCHANGED <<phase, uid, timer, lockVars>>
    BY <1>8 DEF CallFails, TypeOK
  <1>9. QED
    BY Zenon, <1>2, <1>3, <1>4, <1>5, <1>6, <1>7, <1>8 DEF ClientStep

\* The inductive step.
LEMMA LeaseStep ==
  ASSUME Timely, TypeOK, TypeOK', Ownership, LeaseInv, [Next]_vars
  PROVE  LeaseInv'
  <1> SUFFICES ASSUME NEW c \in Client PROVE ClientOK(c)'
    BY DEF LeaseInv
  <1>1. ClientOK(c)
    BY DEF LeaseInv
  <1>2. ASSUME NEW d \in Client, ClientStep(d) PROVE ClientOK(c)'
    <2>1. CASE d = c
      BY <1>1, <1>2, <2>1, ClientStepKeeps
    <2>2. CASE d # c
      <3>1. /\ phase'[c] = phase[c] /\ uid'[c] = uid[c] /\ reply'[c] = reply[c]
            /\ timer'[c] = timer[c] /\ missed'[c] = missed[c]
            /\ UNCHANGED lockVars
        BY <1>2, <2>2, StepIsLocal
      <3>2. QED
        BY <1>1, <3>1, Bystander
    <2>3. QED
      BY <2>1, <2>2
  <1>3. ASSUME NEW m \in net, Deliver(m) PROVE ClientOK(c)'
    <2>1. PICK d \in Client :
            /\ Awaits(d, m)
            /\ reply' = [reply EXCEPT ![d][m.peer] = AnswerTo(m)]
            /\ missed' = IF m.op = "refresh"
                           THEN [missed EXCEPT ![d][m.peer] = 0] ELSE missed
      BY Zenon, <1>3 DEF Deliver
    <2>2. Handle(m) /\ phase' = phase /\ uid' = uid /\ timer' = timer
      BY <1>3 DEF Deliver
    <2>3. CASE c = d
      BY Zenon, <1>1, <2>1, <2>2, <2>3, AnswerKeepsClient
    <2>4. CASE c # d
      <3>1. reply'[c] = reply[c] /\ missed'[c] = missed[c]
        BY <2>1, <2>4 DEF TypeOK
      <3>2. QED
        BY <1>1, <2>2, <3>1, HandleKeepsClient
    <2>5. QED
      BY <2>3, <2>4
  <1>4. ASSUME NEW m \in net, DeliverUnheard(m) PROVE ClientOK(c)'
    BY <1>1, <1>4, HandleKeepsClient DEF DeliverUnheard, clientVars
  <1>5. ASSUME NEW m \in net, Lose(m) PROVE ClientOK(c)'
    BY <1>1, <1>5, Bystander DEF Lose, clientVars
  <1>6. ASSUME NEW p \in Peer, RestartPeer(p) PROVE ClientOK(c)'
    BY <1>6 DEF RestartPeer, Timely
  <1>7. ASSUME NEW p \in Peer, Sweep(p) PROVE ClientOK(c)'
    BY <1>1, <1>7, SweepKeepsClient
  <1>8. CASE Tick
    BY <1>1, <1>8, TickKeepsClient
  <1>9. CASE UNCHANGED vars
    BY <1>1, <1>9, Bystander DEF vars, lockVars
  <1>10. QED
    BY <1>2, <1>3, <1>4, <1>5, <1>6, <1>7, <1>8, <1>9 DEF Next

\* A majority of backers is a majority of live leases.
LEMMA BackersBack ==
  ASSUME Timely, TypeOK, LeaseInv, NEW c \in Client, Held(c)
  PROVE  Cardinality(Backing(c)) >= Quorum
  <1>1. Backers(c) \subseteq Backing(c)
    BY BackersLive DEF Backing, Backers, LeaseInv, ClientOK
  <1>2. Backing(c) \in SUBSET Peer
    BY DEF Backing
  <1>3. QED
    BY <1>1, <1>2, LargerSets, QuorumFacts DEF LeaseInv, ClientOK, BackersOK

\* Under the timing assumptions, for any number of peers and clients: every
\* guard that has not been fenced is backed by a majority of live leases, two
\* such guards never coexist, and no guard is ever fenced.
THEOREM LeaseSafety ==
  ASSUME Timely
  PROVE  Spec => [](HeldLeaseLive /\ MutualExclusion /\ NoSpuriousLoss)
  <1>1. Init => LeaseInv
    BY TimingAssumption
       DEF Init, LeaseInv, ClientOK, TimersOK, VotesOK, BackersOK, Held
  <1>2. TypeOK /\ TypeOK' /\ Ownership /\ LeaseInv /\ [Next]_vars => LeaseInv'
    BY LeaseStep
  <1>3. TypeOK /\ Ownership /\ LeaseInv
          => HeldLeaseLive /\ MutualExclusion /\ NoSpuriousLoss
    <2> SUFFICES ASSUME TypeOK, Ownership, LeaseInv
                 PROVE  HeldLeaseLive /\ MutualExclusion /\ NoSpuriousLoss
      OBVIOUS
    <2>1. HeldLeaseLive
      BY BackersBack DEF HeldLeaseLive
    <2>2. MutualExclusion
      <3> SUFFICES ASSUME NEW c \in Client, NEW d \in Client, Held(c), Held(d)
                   PROVE  c = d
        BY DEF MutualExclusion
      <3>1. Backing(c) \in SUBSET Peer /\ Backing(d) \in SUBSET Peer
        BY DEF Backing
      <3>2. PICK p \in Backing(c) : p \in Backing(d)
        BY <2>1, <3>1, QuorumsIntersect DEF HeldLeaseLive
      <3>3. uid[c] = uid[d] /\ uid[c] # None
        BY <3>2 DEF Backing, Live
      <3>4. QED
        BY <3>3 DEF Ownership
    <2>3. NoSpuriousLoss
      BY DEF NoSpuriousLoss, LeaseInv, ClientOK
    <2>4. QED
      BY <2>1, <2>2, <2>3
  <1>4. QED
    BY <1>1, <1>2, <1>3, TypeCorrect, OwnershipInvariant, PTL DEF Spec
===============================================================================
