--------------------------------- MODULE Dsync --------------------------------
(***************************************************************************)
(* The distributed lock: DsyncClient::acquire, LockGuard and the refresh   *)
(* task of openlake_storage/src/dsync.rs, over the lock servers of module  *)
(* LockServer, for one resource.  A client is one task of a coordinator.   *)
(*                                                                         *)
(* Requests travel separately: a request whose caller has seen an error    *)
(* may still arrive, and a caller whose reply is lost waits until its      *)
(* connection fails, for ever if it never does, because no lock call has a *)
(* timeout of its own.                                                     *)
(*                                                                         *)
(* Two requests of one uid with the same operation and peer are one        *)
(* element of net; such an element may be handled more than once.          *)
(***************************************************************************)
EXTENDS LockServer, FiniteSets

CONSTANTS
  Client,           \* coordinators contending for the resource
  RefreshInterval,  \* pause between two refresh rounds, in ticks
  Synchronous,      \* TRUE: the timing assumptions below hold
  MaxLatency,       \* longest vote or refresh round, in ticks
  MaxMissed,        \* consecutive refreshes of a peer that may fail
  CanRestart,       \* peers that may restart and lose their map
  CanCrash          \* clients that may die

ASSUME PeerAssumption == IsFiniteSet(Peer) /\ Peer # {}
ASSUME TimingAssumption ==
  /\ RefreshInterval \in Nat \ {0}
  /\ MaxLatency \in Nat
  /\ MaxMissed \in Nat
  /\ Synchronous \in BOOLEAN
ASSUME RestartAssumption == CanRestart \subseteq Peer /\ CanCrash \subseteq Client

VARIABLES
  phase,    \* where each client's acquire, guard and refresh task are
  uid,      \* the uid of the current attempt or guard
  reply,    \* what each peer has answered in the current fan-out
  timer,    \* ticks since the vote, the sleep or the round began
  missed,   \* refreshes of a peer that failed in a row
  net       \* requests that have been sent and not yet handled or lost

clientVars == <<phase, uid, reply, timer, missed>>
vars == <<holder, age, phase, uid, reply, timer, missed, net>>

Phase == {"idle", "voting", "unwinding", "sleeping", "refreshing", "lost"}
Reply == {"none", "wait", "yes", "no", "err"}
Request == [op : {"acquire", "refresh", "release"}, uid : Uid, peer : Peer]

\* Faulty variant of Quorum: half of the peers.
QuorumHalf == Cardinality(Peer) \div 2

Quorum == Cardinality(Peer) \div 2 + 1
Tolerance == Cardinality(Peer) - Quorum

\* An acquired guard on which check() succeeds.
Held(c) == phase[c] \in {"sleeping", "refreshing"}

TimerCap == IF RefreshInterval > MaxLatency THEN RefreshInterval ELSE MaxLatency

TypeOK ==
  /\ ServerTypeOK
  /\ phase \in [Client -> Phase]
  /\ uid \in [Client -> Uid \cup {None}]
  /\ reply \in [Client -> [Peer -> Reply]]
  /\ timer \in [Client -> 0..TimerCap]
  /\ missed \in [Client -> [Peer -> 0..MaxMissed]]
  /\ net \subseteq Request
  /\ \A c \in Client : phase[c] # "idle" => uid[c] # None

Silent == [p \in Peer |-> "none"]
Awaiting == [p \in Peer |-> "wait"]

Init ==
  /\ ServerInit
  /\ phase = [c \in Client |-> "idle"]
  /\ uid = [c \in Client |-> None]
  /\ reply = [c \in Client |-> Silent]
  /\ timer = [c \in Client |-> 0]
  /\ missed = [c \in Client |-> [p \in Peer |-> 0]]
  /\ net = {}

-------------------------------------------------------------------------------
(* The client.                                                             *)

ToAll(op, u) == [op : {op}, uid : {u}, peer : Peer]

Answered(c, r) == {p \in Peer : reply[c][p] = r}

\* join_all: the fan-out is over when no peer is left to answer.
AllAnswered(c) == Answered(c, "wait") = {}

\* fresh_uid: never seen by a client, a server or the network.
Fresh(u) ==
  /\ \A c \in Client : uid[c] # u
  /\ \A p \in Peer : holder[p] # u
  /\ \A m \in net : m.uid # u

Goto(c, ph) == phase' = [phase EXCEPT ![c] = ph]
ResetTimer(c) == timer' = [timer EXCEPT ![c] = 0]
ResetReplies(c) == reply' = [reply EXCEPT ![c] = Silent]

\* The client leaves its attempt or guard for phase ph with uid u.
Leave(c, ph, u) ==
  /\ Goto(c, ph)
  /\ uid' = [uid EXCEPT ![c] = u]
  /\ ResetTimer(c)
  /\ ResetReplies(c)
  /\ missed' = [missed EXCEPT ![c] = [p \in Peer |-> 0]]
  /\ UNCHANGED lockVars

\* Every grant of a failed attempt has been given back; acquire looks at its
\* deadline, sleeps and votes again.
Unwound(c) ==
  /\ phase[c] = "unwinding"
  /\ AllAnswered(c)
  /\ Answered(c, "yes") = {}

\* One turn of acquire's loop: a fresh uid, and the vote sent to every peer.
BeginAttempt(c) ==
  /\ phase[c] = "idle" \/ Unwound(c)
  /\ \E u \in Uid :
       /\ Fresh(u)
       /\ uid' = [uid EXCEPT ![c] = u]
       /\ net' = net \cup ToAll("acquire", u)
  /\ Goto(c, "voting")
  /\ ResetTimer(c)
  /\ reply' = [reply EXCEPT ![c] = Awaiting]
  /\ UNCHANGED <<lockVars, missed>>

\* A quorum of grants: the guard is returned and its refresh task sleeps.
WinVote(c) ==
  /\ phase[c] = "voting"
  /\ AllAnswered(c)
  /\ Cardinality(Answered(c, "yes")) >= Quorum
  /\ Leave(c, "sleeping", uid[c])
  /\ UNCHANGED net

\* A minority: only the peers known to have granted will be released.
LoseVote(c) ==
  /\ phase[c] = "voting"
  /\ AllAnswered(c)
  /\ Cardinality(Answered(c, "yes")) < Quorum
  /\ Goto(c, "unwinding")
  /\ reply' = [reply EXCEPT ![c] =
                 [p \in Peer |-> IF reply[c][p] = "yes" THEN "yes" ELSE "none"]]
  /\ ResetTimer(c)
  /\ UNCHANGED <<lockVars, uid, missed, net>>

\* The stray grants are released one after the other, each call awaited.
ReleaseStray(c, p) ==
  /\ phase[c] = "unwinding"
  /\ AllAnswered(c)
  /\ reply[c][p] = "yes"
  /\ net' = net \cup {[op |-> "release", uid |-> uid[c], peer |-> p]}
  /\ reply' = [reply EXCEPT ![c][p] = "wait"]
  /\ UNCHANGED <<lockVars, phase, uid, timer, missed>>

\* The deadline has passed: acquire returns LockTimeout.
GiveUp(c) ==
  /\ Unwound(c)
  /\ Leave(c, "idle", None)
  /\ UNCHANGED net

\* The refresh task wakes up and pings every peer.
BeginRefresh(c) ==
  /\ phase[c] = "sleeping"
  /\ timer[c] >= RefreshInterval
  /\ Goto(c, "refreshing")
  /\ ResetTimer(c)
  /\ net' = net \cup ToAll("refresh", uid[c])
  /\ reply' = [reply EXCEPT ![c] = Awaiting]
  /\ UNCHANGED <<lockVars, uid, missed>>

\* Faulty variant of StillHeld: off by one.
StillHeldStrict(c) == Cardinality(Answered(c, "no")) < Tolerance

\* An error is neutral: only an answer that the entry is gone counts against
\* the holder.
StillHeld(c) == Cardinality(Answered(c, "no")) <= Tolerance

KeepLock(c) ==
  /\ phase[c] = "refreshing"
  /\ AllAnswered(c)
  /\ StillHeld(c)
  /\ Goto(c, "sleeping")
  /\ ResetTimer(c)
  /\ ResetReplies(c)
  /\ UNCHANGED <<lockVars, uid, missed, net>>

\* Faulty variant of LoseLock: the guard is not marked lost.
LoseLockUnmarked(c) ==
  /\ phase[c] = "refreshing"
  /\ AllAnswered(c)
  /\ ~StillHeld(c)
  /\ Leave(c, "sleeping", uid[c])
  /\ net' = net \cup ToAll("release", uid[c])

\* Quorum is lost: the guard is fenced, a detached task releases every peer
\* and the refresh task ends.
LoseLock(c) ==
  /\ phase[c] = "refreshing"
  /\ AllAnswered(c)
  /\ ~StillHeld(c)
  /\ Leave(c, "lost", uid[c])
  /\ net' = net \cup ToAll("release", uid[c])

\* The guard is dropped: the refresh task stops, whatever it was waiting for
\* is ignored, and a detached task releases every peer.
DropGuard(c) ==
  /\ Held(c) \/ phase[c] = "lost"
  /\ Leave(c, "idle", None)
  /\ net' = net \cup ToAll("release", uid[c])

\* The coordinator dies: nothing is released.
Crash(c) ==
  /\ c \in CanCrash
  /\ phase[c] # "idle"
  /\ Leave(c, "idle", None)
  /\ UNCHANGED net

-------------------------------------------------------------------------------
(* The network and the servers.                                            *)

\* Client c waits for the answer to request m.
Awaits(c, m) ==
  /\ uid[c] = m.uid
  /\ reply[c][m.peer] = "wait"
  /\ <<phase[c], m.op>> \in {<<"voting", "acquire">>, <<"refreshing", "refresh">>,
                            <<"unwinding", "release">>}

Handle(m) ==
  \/ m.op = "acquire" /\ Acquire(m.peer, m.uid)
  \/ m.op = "refresh" /\ Refresh(m.peer, m.uid)
  \/ m.op = "release" /\ Release(m.peer, m.uid)

\* Faulty variant of AnswerTo: a release is not acknowledged.
AnswerToNoAck(m) ==
  IF m.op = "acquire" THEN AcquireAnswer(m.peer)
  ELSE IF m.op = "refresh" THEN RefreshAnswer(m.peer, m.uid)
  ELSE "wait"

AnswerTo(m) ==
  IF m.op = "acquire" THEN AcquireAnswer(m.peer)
  ELSE IF m.op = "refresh" THEN RefreshAnswer(m.peer, m.uid)
  ELSE "none"

\* The server handles m and the client that awaits it gets the answer.
Deliver(m) ==
  /\ \E c \in Client :
       /\ Awaits(c, m)
       /\ reply' = [reply EXCEPT ![c][m.peer] = AnswerTo(m)]
       /\ missed' = IF m.op = "refresh"
                      THEN [missed EXCEPT ![c][m.peer] = 0] ELSE missed
  /\ Handle(m)
  /\ net' = net \ {m}
  /\ UNCHANGED <<phase, uid, timer>>

\* The server handles m, and nobody is waiting or the answer never comes.
DeliverUnheard(m) ==
  /\ Synchronous => \A c \in Client : ~Awaits(c, m)
  /\ Handle(m)
  /\ \/ net' = net \ {m}
     \/ m.op # "acquire" /\ net' = net
  /\ UNCHANGED clientVars

\* The request itself is lost.
Lose(m) ==
  /\ Synchronous => \A c \in Client : ~Awaits(c, m)
  /\ net' = net \ {m}
  /\ UNCHANGED <<lockVars, clientVars>>

\* The connection fails under a waiting call; its request may yet arrive.
\* Under the timing assumptions at most MaxMissed refreshes of a peer fail in
\* a row.
CallFails(c, p) ==
  /\ reply[c][p] = "wait"
  /\ reply' = [reply EXCEPT ![c][p] = "err"]
  /\ \/ /\ phase[c] = "refreshing"
        /\ Synchronous => missed[c][p] < MaxMissed
        /\ missed' = [missed EXCEPT ![c][p] = IF @ < MaxMissed THEN @ + 1 ELSE @]
     \/ /\ phase[c] # "refreshing"
        /\ UNCHANGED missed
  /\ UNCHANGED <<lockVars, phase, uid, timer, net>>

\* Under the timing assumptions a sleep is exact and a fan-out takes at most
\* MaxLatency.
InTime(c) ==
  /\ phase[c] = "sleeping" => timer[c] < RefreshInterval
  /\ phase[c] \in {"voting", "refreshing"} => timer[c] < MaxLatency

Timed(c) == phase[c] \in {"voting", "sleeping", "refreshing"}

Tick ==
  /\ Synchronous => \A c \in Client : InTime(c)
  /\ AgeEntries
  /\ timer' = [c \in Client |-> IF Timed(c) /\ timer[c] < TimerCap
                                  THEN timer[c] + 1 ELSE timer[c]]
  /\ UNCHANGED <<phase, uid, reply, missed, net>>

RestartPeer(p) ==
  /\ p \in CanRestart
  /\ Restart(p)
  /\ UNCHANGED <<clientVars, net>>

Sweep(p) ==
  /\ ExpireOld(p)
  /\ UNCHANGED <<clientVars, net>>

ClientStep(c) ==
  \/ BeginAttempt(c) \/ WinVote(c) \/ LoseVote(c)
  \/ \E p \in Peer : ReleaseStray(c, p)
  \/ GiveUp(c)
  \/ BeginRefresh(c) \/ KeepLock(c) \/ LoseLock(c)
  \/ DropGuard(c) \/ Crash(c)
  \/ \E p \in Peer : CallFails(c, p)

Next ==
  \/ \E c \in Client : ClientStep(c)
  \/ \E m \in net : Deliver(m) \/ DeliverUnheard(m) \/ Lose(m)
  \/ \E p \in Peer : RestartPeer(p) \/ Sweep(p)
  \/ Tick

Spec == Init /\ [][Next]_vars

\* The steps a client's task takes by itself once what it awaits is there.
Progress(c) ==
  \/ WinVote(c) \/ LoseVote(c)
  \/ \E p \in Peer : ReleaseStray(c, p)
  \/ BeginRefresh(c) \/ KeepLock(c) \/ LoseLock(c)

(***************************************************************************)
(* Fairness: time never stops, whatever the clients do; a task whose       *)
(* answers are there is polled again; a request is handled and answered,   *)
(* or lost, and does not linger.  A client is never obliged to acquire, to *)
(* drop its guard or to crash, nor a connection to fail.  acquire cannot   *)
(* go round its loop for ever because each turn sleeps and the deadline is *)
(* fixed, hence strong fairness of GiveUp.                                 *)
(***************************************************************************)
Fairness ==
  /\ SF_vars(Tick)
  /\ \A c \in Client : WF_vars(Progress(c)) /\ SF_vars(GiveUp(c))
  /\ \A m \in Request : WF_vars(m \in net /\ (Deliver(m) \/ Lose(m)))

FairSpec == Spec /\ Fairness

-------------------------------------------------------------------------------
(* Properties.                                                             *)

\* The peers whose entry is live and belongs to client c's guard.
Backing(c) == {p \in Peer : holder[p] = uid[c] /\ Live(p)}

\* Under the timing assumptions a guard that has not been marked lost is
\* backed by live leases on a majority of the peers: the refresh task stamps
\* each lease it counts on before the server may give it away
\* (REFRESH_INTERVAL against DEFAULT_VALIDITY).
HeldLeaseLive ==
  \A c \in Client : Held(c) => Cardinality(Backing(c)) >= Quorum

\* Two coordinators never hold un-lost guards on the resource together
\* (acquire's quorum, each server admitting one uid at a time).
MutualExclusion ==
  \A c, d \in Client : Held(c) /\ Held(d) => c = d

\* A guard is only fenced when its quorum is really gone: with no restart and
\* no expired lease the refresh task never marks it lost.
NoSpuriousLoss == \A c \in Client : phase[c] # "lost"

\* Nothing but its own release, its expiry or a restart ends a lease: while a
\* client goes on holding its guard no late acquire, refresh or release of any
\* attempt, its own earlier ones included, takes a live entry away from it.
LeaseIsolation ==
  [][\A c \in Client, p \in Peer \ CanRestart :
       /\ Held(c) /\ Held(c)' /\ uid'[c] = uid[c]
       /\ holder[p] = uid[c] /\ Live(p)
       => holder'[p] = uid[c]]_vars

\* Two guards held at once, possible after restarts, do not stay so: the
\* refresh task of the one whose quorum is gone marks it lost.
OverlapResolved ==
  \A c, d \in Client :
    c # d => (Held(c) /\ Held(d) ~> ~(Held(c) /\ Held(d)))

\* An entry whose attempt or guard no longer exists stops blocking others: it
\* is released or outlives its validity ("Lease TTL bounds the window in which
\* a crashed holder can block other writers").
Orphaned(p, u) == holder[p] = u /\ Live(p) /\ \A c \in Client : uid[c] # u

LeaseFreed == \A p \in Peer, u \in Uid : Orphaned(p, u) ~> ~Orphaned(p, u)

\* acquire returns, with a guard or with LockTimeout.
Acquiring(c) == phase[c] \in {"voting", "unwinding"}

AcquireReturns == \A c \in Client : Acquiring(c) ~> ~Acquiring(c)
===============================================================================
