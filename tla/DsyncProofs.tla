------------------------------ MODULE DsyncProofs -----------------------------
(***************************************************************************)
(* Proofs about Dsync for any number of peers, clients and uids and any    *)
(* timing constants.                                                       *)
(***************************************************************************)
EXTENDS Dsync, FiniteSetTheorems, TLAPS

-------------------------------------------------------------------------------
(* Facts about the constants.                                              *)

\* The quorum of DsyncClient::new is a natural number, at most the number of
\* peers, and any two quorums share a peer.
LEMMA QuorumFacts ==
  /\ Cardinality(Peer) \in Nat
  /\ Quorum \in Nat /\ Tolerance \in Nat
  /\ 2 * Quorum > Cardinality(Peer)
  /\ Quorum + Tolerance = Cardinality(Peer)
  <1>1. Cardinality(Peer) \in Nat /\ Cardinality(Peer) # 0
    BY PeerAssumption, FS_CardinalityType, FS_EmptySet
  <1>2. QED
    BY <1>1 DEF Quorum, Tolerance

\* Two sets of at least a quorum of the peers share a peer.
LEMMA QuorumsIntersect ==
  ASSUME NEW Q1 \in SUBSET Peer, NEW Q2 \in SUBSET Peer,
         Cardinality(Q1) >= Quorum, Cardinality(Q2) >= Quorum
  PROVE  Q1 \cap Q2 # {}
  <1>1. IsFiniteSet(Q1) /\ IsFiniteSet(Q2)
    BY PeerAssumption, FS_Subset
  <1>2. Cardinality(Q1) \in Nat /\ Cardinality(Q2) \in Nat
    BY <1>1, FS_CardinalityType
  <1>3. Cardinality(Q1) + Cardinality(Q2) > Cardinality(Peer)
    BY <1>2, QuorumFacts
  <1>4. QED
    BY <1>3, PeerAssumption, FS_MajoritiesIntersect

\* A subset of a set of peers is no larger than the set.
LEMMA LargerSets ==
  ASSUME NEW S \in SUBSET Peer, NEW T \in SUBSET S
  PROVE  Cardinality(T) <= Cardinality(S) /\ Cardinality(T) \in Nat /\ Cardinality(S) \in Nat
  <1>1. IsFiniteSet(S)
    BY PeerAssumption, FS_Subset
  <1>2. QED
    BY <1>1, FS_Subset, FS_CardinalityType

\* One cell of a per-client, per-peer table is overwritten.
LEMMA TableUpdate ==
  ASSUME NEW S, NEW f \in [Client -> [Peer -> S]],
         NEW c \in Client, NEW p \in Peer, NEW k \in S
  PROVE  [f EXCEPT ![c][p] = k] \in [Client -> [Peer -> S]]
  OBVIOUS

-------------------------------------------------------------------------------
(* Type correctness.                                                       *)

\* Handling a request keeps the lock table well-typed.
LEMMA ServerTypes ==
  ASSUME ServerTypeOK, NEW m \in Request, Handle(m)
  PROVE  ServerTypeOK'
  BY ValidityAssumption
     DEF ServerTypeOK, Request, Handle, Acquire, Refresh, Release, SetEntry, lockVars

\* What a server answers is an answer a client can record.
LEMMA AnswerTypes ==
  ASSUME NEW m \in Request
  PROVE  AnswerTo(m) \in Reply
  BY DEF Request, AnswerTo, AcquireAnswer, RefreshAnswer, Reply

\* Every variable keeps its type through every operation of the lock client,
\* the lock servers and the network.
THEOREM TypeCorrect == Spec => []TypeOK
  <1> USE ValidityAssumption, TimingAssumption
  <1>1. Init => TypeOK
    BY DEF Init, ServerInit, TypeOK, ServerTypeOK, Phase, Reply, Silent, TimerCap
  <1>2. TypeOK /\ [Next]_vars => TypeOK'
    <2> SUFFICES ASSUME TypeOK, [Next]_vars
                 PROVE  TypeOK'
      OBVIOUS
    <2>1. ASSUME NEW c \in Client, NEW ph \in Phase, NEW u \in Uid \cup {None},
                 ph # "idle" => u # None, Leave(c, ph, u), net' \subseteq Request
          PROVE  TypeOK'
      BY <2>1 DEF Leave, Goto, ResetTimer, ResetReplies, TypeOK, ServerTypeOK,
                  lockVars, Silent, Reply, TimerCap
    <2>2. ASSUME NEW c \in Client, BeginAttempt(c) PROVE TypeOK'
      BY <2>2, NoneAssumption DEF BeginAttempt, Goto, ResetTimer, ToAll, TypeOK, ServerTypeOK,
                  lockVars, Awaiting, Reply, Phase, Request, TimerCap
    <2>3. ASSUME NEW c \in Client, WinVote(c) PROVE TypeOK'
      BY <2>1, <2>3 DEF WinVote, TypeOK, Phase
    <2>4. ASSUME NEW c \in Client, LoseVote(c) PROVE TypeOK'
      BY <2>4 DEF LoseVote, Goto, ResetTimer, TypeOK, ServerTypeOK, lockVars,
                  Reply, Phase, TimerCap
    <2>5. ASSUME NEW c \in Client, NEW p \in Peer, ReleaseStray(c, p) PROVE TypeOK'
      BY <2>5 DEF ReleaseStray, TypeOK, ServerTypeOK, lockVars, Reply, Request
    <2>6. ASSUME NEW c \in Client, GiveUp(c) PROVE TypeOK'
      BY <2>1, <2>6 DEF GiveUp, TypeOK, Phase
    <2>7. ASSUME NEW c \in Client, BeginRefresh(c) PROVE TypeOK'
      BY <2>7 DEF BeginRefresh, Goto, ResetTimer, ToAll, TypeOK, ServerTypeOK,
                  lockVars, Awaiting, Reply, Phase, Request, TimerCap
    <2>8. ASSUME NEW c \in Client, KeepLock(c) PROVE TypeOK'
      BY <2>8 DEF KeepLock, Goto, ResetTimer, ResetReplies, TypeOK, ServerTypeOK,
                  lockVars, Silent, Reply, Phase, TimerCap
    <2>9. ASSUME NEW c \in Client, LoseLock(c) PROVE TypeOK'
      <3>1. uid[c] \in Uid /\ net' \subseteq Request
        BY <2>9 DEF LoseLock, ToAll, TypeOK, Phase, Request
      <3>2. QED
        BY <2>1, <2>9, <3>1, NoneAssumption DEF LoseLock, Phase
    <2>10. ASSUME NEW c \in Client, DropGuard(c) PROVE TypeOK'
      <3>1. uid[c] \in Uid /\ net' \subseteq Request
        BY <2>10 DEF DropGuard, Held, ToAll, TypeOK, Phase, Request
      <3>2. QED
        BY <2>1, <2>10, <3>1 DEF DropGuard, Phase
    <2>11. ASSUME NEW c \in Client, Crash(c) PROVE TypeOK'
      BY <2>1, <2>11 DEF Crash, TypeOK, Phase
    <2>12. ASSUME NEW c \in Client, NEW p \in Peer, CallFails(c, p) PROVE TypeOK'
      <3>1. reply' \in [Client -> [Peer -> Reply]]
        BY <2>12 DEF CallFails, TypeOK, Reply
      <3>2. missed' \in [Client -> [Peer -> 0..MaxMissed]]
        <4>1. missed[c][p] \in 0..MaxMissed
          BY DEF TypeOK
        <4>2. PICK k \in 0..MaxMissed :
                missed' = [missed EXCEPT ![c][p] = k] \/ missed' = missed
          BY <2>12, <4>1 DEF CallFails
        <4>3. missed \in [Client -> [Peer -> 0..MaxMissed]]
          BY DEF TypeOK
        <4>4. [missed EXCEPT ![c][p] = k] \in [Client -> [Peer -> 0..MaxMissed]]
          BY <4>3, TableUpdate
        <4>5. QED
          BY <4>2, <4>3, <4>4
      <3>3. QED
        BY <2>12, <3>1, <3>2 DEF CallFails, TypeOK, ServerTypeOK, lockVars
    <2>13. ASSUME NEW m \in net, Deliver(m) PROVE TypeOK'
      BY <2>13, ServerTypes, AnswerTypes DEF Deliver, TypeOK, Request
    <2>14. ASSUME NEW m \in net, DeliverUnheard(m) PROVE TypeOK'
      BY <2>14, ServerTypes DEF DeliverUnheard, TypeOK, clientVars
    <2>15. ASSUME NEW m \in net, Lose(m) PROVE TypeOK'
      BY <2>15 DEF Lose, TypeOK, ServerTypeOK, lockVars, clientVars
    <2>16. ASSUME NEW p \in Peer, RestartPeer(p) PROVE TypeOK'
      BY <2>16 DEF RestartPeer, Restart, SetEntry, TypeOK, ServerTypeOK, clientVars
    <2>17. ASSUME NEW p \in Peer, Sweep(p) PROVE TypeOK'
      BY <2>17 DEF Sweep, ExpireOld, SetEntry, TypeOK, ServerTypeOK, clientVars
    <2>18. CASE Tick
      BY <2>18 DEF Tick, AgeEntries, TypeOK, ServerTypeOK, TimerCap
    <2>19. CASE UNCHANGED vars
      BY <2>19 DEF vars, TypeOK, ServerTypeOK
    <2>20. QED
      BY <2>2, <2>3, <2>4, <2>5, <2>6, <2>7, <2>8, <2>9, <2>10, <2>11, <2>12, <2>13,
         <2>14, <2>15, <2>16, <2>17, <2>18, <2>19 DEF Next, ClientStep
  <1>3. QED
    BY <1>1, <1>2, PTL DEF Spec

-------------------------------------------------------------------------------
(* Nothing but its own release ends a lease.                               *)

\* Two clients never share a uid, and a release of a client's own uid is only
\* in flight once that client has given its attempt or guard up.
Ownership ==
  /\ \A c, d \in Client : uid[c] = uid[d] /\ uid[c] # None => c = d
  /\ \A m \in net, c \in Client :
       m.op = "release" /\ m.uid = uid[c] => phase[c] \in {"unwinding", "lost"}

\* fresh_uid and the places that send releases (a lost vote, a lost quorum, a
\* dropped guard) keep every uid's requests apart.
THEOREM OwnershipInvariant == Spec => []Ownership
  <1>1. Init => Ownership
    BY DEF Init, Ownership
  <1>2. TypeOK /\ Ownership /\ [Next]_vars => Ownership'
    <2> SUFFICES ASSUME TypeOK, Ownership, [Next]_vars
                 PROVE  Ownership'
      OBVIOUS
    <2>1. ASSUME NEW c \in Client, BeginAttempt(c) PROVE Ownership'
      BY <2>1, NoneAssumption
         DEF BeginAttempt, Goto, ToAll, Fresh, Ownership, TypeOK
    <2>2. ASSUME NEW c \in Client, NEW ph \in Phase,
                 Leave(c, ph, uid[c]), net' = net,
                 phase[c] \notin {"unwinding", "lost"}
          PROVE  Ownership'
      BY <2>2 DEF Leave, Goto, Ownership, TypeOK
    <2>3. ASSUME NEW c \in Client, Leave(c, "idle", None),
                 net' = net \/ net' = net \cup ToAll("release", uid[c]),
                 phase[c] # "idle"
          PROVE  Ownership'
      BY <2>3, NoneAssumption DEF Leave, Goto, ToAll, Ownership, TypeOK, Request
    <2>4. ASSUME NEW c \in Client, WinVote(c) PROVE Ownership'
      BY <2>2, <2>4 DEF WinVote, Phase
    <2>5. ASSUME NEW c \in Client, LoseVote(c) PROVE Ownership'
      BY <2>5 DEF LoseVote, Goto, Ownership, TypeOK
    <2>6. ASSUME NEW c \in Client, NEW p \in Peer, ReleaseStray(c, p) PROVE Ownership'
      BY <2>6 DEF ReleaseStray, Ownership, TypeOK
    <2>7. ASSUME NEW c \in Client, GiveUp(c) PROVE Ownership'
      BY <2>3, <2>7 DEF GiveUp, Unwound
    <2>8. ASSUME NEW c \in Client, BeginRefresh(c) PROVE Ownership'
      BY <2>8 DEF BeginRefresh, Goto, ToAll, Ownership, TypeOK
    <2>9. ASSUME NEW c \in Client, KeepLock(c) PROVE Ownership'
      BY <2>9 DEF KeepLock, Goto, Ownership, TypeOK
    <2>10. ASSUME NEW c \in Client, LoseLock(c) PROVE Ownership'
      BY <2>10 DEF LoseLock, Leave, Goto, ToAll, Ownership, TypeOK
    <2>11. ASSUME NEW c \in Client, DropGuard(c) PROVE Ownership'
      BY <2>3, <2>11 DEF DropGuard, Held
    <2>12. ASSUME NEW c \in Client, Crash(c) PROVE Ownership'
      BY <2>3, <2>12 DEF Crash
    <2>13. ASSUME NEW c \in Client, NEW p \in Peer, CallFails(c, p) PROVE Ownership'
      BY <2>13 DEF CallFails, Ownership
    <2>14. ASSUME NEW m \in net, Deliver(m) \/ DeliverUnheard(m) \/ Lose(m)
           PROVE  Ownership'
      BY <2>14 DEF Deliver, DeliverUnheard, Lose, clientVars, Ownership
    <2>15. ASSUME NEW p \in Peer, RestartPeer(p) \/ Sweep(p) PROVE Ownership'
      BY <2>15 DEF RestartPeer, Sweep, clientVars, Ownership
    <2>16. CASE Tick
      BY <2>16 DEF Tick, Ownership
    <2>17. CASE UNCHANGED vars
      BY <2>17 DEF vars, Ownership
    <2>18. QED
      BY <2>1, <2>4, <2>5, <2>6, <2>7, <2>8, <2>9, <2>10, <2>11, <2>12, <2>13,
         <2>14, <2>15, <2>16, <2>17 DEF Next, ClientStep
  <1>3. QED
    BY <1>1, <1>2, TypeCorrect, PTL DEF Spec

\* What a server does to the entry of uid u when it handles request m: a live
\* entry survives everything but the release of u itself.
LEMMA HandleKeeps ==
  ASSUME TypeOK, NEW m \in net, Handle(m), NEW p \in Peer, NEW u \in Uid,
         holder[p] = u, Live(p), ~(m.op = "release" /\ m.uid = u)
  PROVE  holder'[p] = u /\ (age'[p] = age[p] \/ age'[p] = 0)
  BY NoneAssumption
     DEF TypeOK, ServerTypeOK, Request, Handle, Acquire, Refresh, Release, SetEntry,
         Live, lockVars

\* LeaseIsolation for any configuration, lossy network and crashing clients
\* included.
THEOREM Isolation == Spec => LeaseIsolation
  <1> DEFINE Keep == \A c \in Client, p \in Peer \ CanRestart :
                       /\ Held(c) /\ Held(c)' /\ uid'[c] = uid[c]
                       /\ holder[p] = uid[c] /\ Live(p)
                       => holder'[p] = uid[c]
  <1>1. TypeOK /\ Ownership /\ [Next]_vars => [Keep]_vars
    <2> SUFFICES ASSUME TypeOK, Ownership, Next,
                        NEW c \in Client, NEW p \in Peer \ CanRestart,
                        Held(c), uid'[c] = uid[c], holder[p] = uid[c], Live(p)
                 PROVE  holder'[p] = uid[c]
      OBVIOUS
    <2>1. ASSUME NEW m \in net, Handle(m) PROVE holder'[p] = uid[c]
      <3>1. ~(m.op = "release" /\ m.uid = uid[c])
        BY DEF Ownership, Held
      <3>2. uid[c] \in Uid
        BY DEF Live, TypeOK, Held
      <3>3. QED
        BY <2>1, <3>1, <3>2, HandleKeeps
    <2>2. ASSUME NEW d \in Client, ClientStep(d) PROVE holder'[p] = uid[c]
      BY <2>2 DEF ClientStep, BeginAttempt, WinVote, LoseVote, ReleaseStray, GiveUp,
                  BeginRefresh, KeepLock, LoseLock, DropGuard, Crash, CallFails,
                  Leave, lockVars
    <2>3. ASSUME NEW m \in net, Deliver(m) \/ DeliverUnheard(m) \/ Lose(m)
          PROVE  holder'[p] = uid[c]
      BY <2>1, <2>3 DEF Deliver, DeliverUnheard, Lose, lockVars
    <2>4. ASSUME NEW q \in Peer, RestartPeer(q) \/ Sweep(q)
          PROVE  holder'[p] = uid[c]
      BY <2>4 DEF RestartPeer, Sweep, Restart, ExpireOld, SetEntry, TypeOK, ServerTypeOK
    <2>5. CASE Tick
      BY <2>5 DEF Tick, AgeEntries
    <2>6. QED
      BY <2>2, <2>3, <2>4, <2>5 DEF Next
  <1>2. QED
    BY <1>1, TypeCorrect, OwnershipInvariant, PTL DEF Spec, LeaseIsolation
===============================================================================
