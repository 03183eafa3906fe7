------------------------------ MODULE LockServer ------------------------------
(***************************************************************************)
(* The per-node lock server (openlake_server/src/lock_server.rs): one map  *)
(* entry per resource and node, granted to one uid at a time and valid for *)
(* Validity ticks after its last stamp.  Resources never share state, so   *)
(* the module follows one resource; Peer is the set of nodes that vote on  *)
(* it.  Time is relative: age[p] is now - last_refresh, which saturates at *)
(* Validity because the server only asks whether it has been reached.      *)
(***************************************************************************)
EXTENDS Naturals

CONSTANTS
  Peer,       \* the nodes whose lock servers vote
  Uid,        \* the uids lock attempts draw from
  None,       \* "no entry" / "no uid"
  Validity    \* lifetime of an entry without a stamp, in ticks

ASSUME ValidityAssumption == Validity \in Nat \ {0}
ASSUME NoneAssumption == None \notin Uid

VARIABLES
  holder,     \* the uid in each peer's entry, or None
  age         \* ticks since the entry was stamped, at most Validity

lockVars == <<holder, age>>

ServerTypeOK ==
  /\ holder \in [Peer -> Uid \cup {None}]
  /\ age \in [Peer -> 0..Validity]

ServerInit ==
  /\ holder = [p \in Peer |-> None]
  /\ age = [p \in Peer |-> 0]

\* Faulty variant of Live: the validity test is forgotten.
LiveForever(p) == holder[p] # None

Live(p) == holder[p] # None /\ age[p] < Validity

SetEntry(p, u) ==
  /\ holder' = [holder EXCEPT ![p] = u]
  /\ age' = [age EXCEPT ![p] = 0]

(***************************************************************************)
(* The three requests.  Acquire never overwrites a live entry, not even    *)
(* for its own uid; Refresh stamps an expired entry that nobody has taken  *)
(* over; Refresh and Release of another uid leave the entry alone.         *)
(***************************************************************************)
Acquire(p, u) ==
  \/ ~Live(p) /\ SetEntry(p, u)
  \/ Live(p) /\ UNCHANGED lockVars

AcquireAnswer(p) == IF Live(p) THEN "no" ELSE "yes"

\* Faulty variant of Refresh: it confirms the entry without stamping it.
RefreshNoStamp(p, u) == UNCHANGED lockVars

Refresh(p, u) ==
  \/ holder[p] = u /\ SetEntry(p, u)
  \/ holder[p] # u /\ UNCHANGED lockVars

RefreshAnswer(p, u) == IF holder[p] = u THEN "yes" ELSE "no"

\* Faulty variant of Release: the uid is not compared.
ReleaseAny(p, u) == SetEntry(p, None)

Release(p, u) ==
  \/ holder[p] = u /\ SetEntry(p, None)
  \/ holder[p] # u /\ UNCHANGED lockVars

\* The background sweeper drops an entry past its validity.
ExpireOld(p) ==
  /\ holder[p] # None
  /\ ~Live(p)
  /\ SetEntry(p, None)

\* The map is in memory only: a restart of the node forgets every entry.
Restart(p) ==
  /\ holder[p] # None
  /\ SetEntry(p, None)

\* One tick of the clock, on every server.
AgeEntries ==
  /\ age' = [p \in Peer |-> IF holder[p] # None /\ age[p] < Validity
                              THEN age[p] + 1 ELSE age[p]]
  /\ UNCHANGED holder
===============================================================================
