----------------------------- MODULE KvShmClient ------------------------------
(***************************************************************************)
(* ShmLocalProtocol (openlake_kv_client/src/shm_local.rs): requests over   *)
(* HTTP, payloads copied to and from the node's shared memory.  Each call  *)
(* holds the client's mutex to its end; the calls of the model belong to   *)
(* different client processes.                                             *)
(***************************************************************************)
EXTENDS KvSlab

Shm(c, kind, pc) == transport = "shm" /\ op[c].kind = kind /\ op[c].pc = pc

\* attach: discovery alone (exists) demands no slab.
ShmAttach(c) ==
  /\ transport = "shm"
  /\ op[c].pc = "new"
  /\ ServeAttach(op[c].kind \in {"put", "get"})
  /\ op' = [op EXCEPT ![c].pc = "ready"]
  /\ UNCHANGED <<transport, mem, gen, late, faults>>

\* Every request is refused before the slab exists.
ShmNoSlab(c) ==
  /\ transport = "shm"
  /\ op[c].pc = "ready"
  /\ ~ slab
  /\ op' = [op EXCEPT ![c].pc = "failed"]
  /\ UNCHANGED <<transport, serverVars, mem, gen, late, faults>>

(***************************************************************************)
(* put                                                                     *)
(***************************************************************************)
ShmReserve(c) ==
  /\ Shm(c, "put", "ready")
  /\ slab
  /\ \E r \in ReserveAnswers(Len(op[c].keys)) :
        /\ ServeReserve(Len(op[c].keys), r)
        /\ \/ Reserved(c, r) /\ UNCHANGED faults
           \/ /\ faults < MaxFaults
              /\ faults' = faults + 1
              /\ op' = [op EXCEPT ![c].pc = "failed"]
  /\ UNCHANGED <<transport, mem, late>>

\* "store full": the slots are given back, whatever becomes of that request.
ShmRelease(c) ==
  /\ Shm(c, "put", "abort")
  /\ Answered(Release(op[c].slots)) \/ Unanswered(Release(op[c].slots))
  /\ op' = [op EXCEPT ![c].pc = "failed"]
  /\ UNCHANGED <<transport, mem, gen>>

ShmCopyIn(c) ==
  /\ Shm(c, "put", "write")
  /\ ~ Finished(op[c])
  /\ WritePart(c)
  /\ UNCHANGED <<transport, serverVars, gen, late, faults>>

\* Faulty variant of ShmCommit: it does not wait for the copies.
ShmCommitEarly(c) ==
  /\ Shm(c, "put", "write")
  /\ LET req == Commit(op[c].slots, op[c].keys)
     IN  Answered(req) /\ op' = [op EXCEPT ![c].pc = "ok"]
  /\ UNCHANGED <<transport, mem, gen>>

\* A commit without an answer is an error; the slots stay reserved.
ShmCommit(c) ==
  /\ Shm(c, "put", "write")
  /\ Finished(op[c])
  /\ LET req == Commit(op[c].slots, op[c].keys)
     IN  \/ Answered(req) /\ op' = [op EXCEPT ![c].pc = "ok"]
         \/ Unanswered(req) /\ op' = [op EXCEPT ![c].pc = "failed"]
  /\ UNCHANGED <<transport, mem, gen>>

(***************************************************************************)
(* get: the header is compared first, then the strips are copied out.      *)
(***************************************************************************)
ShmLookup(c) ==
  /\ Shm(c, "get", "ready")
  /\ slab
  /\ ServeLookup(op[c].keys)
  /\ LookedUpBy(c)
  /\ UNCHANGED <<transport, mem, gen, late, faults>>

ShmCopyOut(c) ==
  LET o == op[c]
      missed == [SkipKey(o) EXCEPT !.out[o.j] = "miss"]
  IN  /\ Shm(c, "get", "read")
      /\ ~ Finished(o)
      /\ op' = [op EXCEPT ![c] =
           IF o.slots[o.j] = Nil THEN missed
           ELSE IF o.step = 0
                THEN IF HeaderMatches(o) THEN [NextAccess(o) EXCEPT !.out[o.j] = "hit"]
                     ELSE [missed EXCEPT !.age[o.j] = Age(o)]
           ELSE NextAccess(ReadStrip(o, o.step))]
      /\ UNCHANGED <<transport, serverVars, mem, gen, late, faults>>

ShmGetReturns(c) ==
  /\ Shm(c, "get", "read")
  /\ Finished(op[c])
  /\ op' = [op EXCEPT ![c].pc = "ok"]
  /\ UNCHANGED <<transport, serverVars, mem, gen, late, faults>>

(***************************************************************************)
(* exists and reset                                                        *)
(***************************************************************************)
ShmExists(c) ==
  /\ Shm(c, "exists", "ready")
  /\ slab
  /\ ServeLookup(op[c].keys)
  /\ op' = [op EXCEPT ![c].pc = "ok", ![c].out =
              [j \in DOMAIN @ |-> IF pool.byHash[op[c].keys[j]] = Nil THEN "miss" ELSE "hit"]]
  /\ UNCHANGED <<transport, mem, gen, late, faults>>

\* Nothing keeps a reset from meeting a put half way.
ShmReset(c) ==
  /\ Shm(c, "reset", "ready")
  /\ slab
  /\ ServeReset
  /\ op' = [op EXCEPT ![c].pc = "ok"]
  /\ UNCHANGED <<transport, mem, gen, late, faults>>

ShmNext(c) ==
  \/ ShmAttach(c) \/ ShmNoSlab(c)
  \/ ShmReserve(c) \/ ShmRelease(c) \/ ShmCopyIn(c) \/ ShmCommit(c)
  \/ ShmLookup(c) \/ ShmCopyOut(c) \/ ShmGetReturns(c)
  \/ ShmExists(c) \/ ShmReset(c)
===============================================================================
