---------------------------- MODULE KvRdmaClient -----------------------------
(***************************************************************************)
(* RdmaProtocol (openlake_kv_client/src/protocol.rs): requests as messages *)
(* to the node, payloads written and read by chains of RDMA operations,    *)
(* which a queue pair executes in the order they were posted.  What can    *)
(* fail before a request is sent (key sizes, unregistered addresses, a     *)
(* batch larger than the staging buffer) changes nothing and is left out.  *)
(***************************************************************************)
EXTENDS KvSlab

Rdma(c, kind, pc) == transport = "rdma" /\ op[c].kind = kind /\ op[c].pc = pc

\* do_attach, before the first operation; the answer carries the slab if the
\* node has one by then.
RdmaAttach(c) ==
  /\ transport = "rdma"
  /\ op[c].pc = "new"
  /\ ServeAttach(op[c].kind \in {"put", "get"})
  /\ op' = [op EXCEPT ![c].pc = "ready"]
  /\ UNCHANGED <<transport, mem, gen, late, faults>>

\* KvEngine::handle refuses every request before the slab exists.
RdmaNoSlab(c) ==
  /\ transport = "rdma"
  /\ op[c].pc = "ready"
  /\ ~ slab
  /\ op' = [op EXCEPT ![c].pc = "failed"]
  /\ UNCHANGED <<transport, serverVars, mem, gen, late, faults>>

(***************************************************************************)
(* do_put                                                                  *)
(***************************************************************************)
\* An answer after VERB_TIMEOUT finds no waiter: the slots are forgotten.
RdmaReserve(c) ==
  /\ Rdma(c, "put", "ready")
  /\ slab
  /\ \E r \in ReserveAnswers(Len(op[c].keys)) :
        /\ ServeReserve(Len(op[c].keys), r)
        /\ \/ Reserved(c, r) /\ UNCHANGED faults
           \/ /\ faults < MaxFaults
              /\ faults' = faults + 1
              /\ op' = [op EXCEPT ![c].pc = "failed"]
  /\ UNCHANGED <<transport, mem, late>>

\* BatchRelease after a short reservation or a failed chain.
RdmaRelease(c) ==
  /\ Rdma(c, "put", "abort")
  /\ Answered(Release(op[c].slots)) \/ Unanswered(Release(op[c].slots))
  /\ op' = [op EXCEPT ![c].pc = "failed"]
  /\ UNCHANGED <<transport, mem, gen>>

RdmaWrite(c) ==
  /\ Rdma(c, "put", "write")
  /\ ~ Finished(op[c])
  /\ WritePart(c)
  /\ UNCHANGED <<transport, serverVars, gen, late, faults>>

\* A completion with an error ends the chain; what was written stays.
RdmaWriteFails(c) ==
  /\ Rdma(c, "put", "write")
  /\ ~ Finished(op[c])
  /\ faults < MaxFaults
  /\ faults' = faults + 1
  /\ op' = [op EXCEPT ![c].pc = "abort"]
  /\ UNCHANGED <<transport, serverVars, mem, gen, late>>

RdmaCommit(c) ==
  /\ Rdma(c, "put", "write")
  /\ Finished(op[c])
  /\ LET req == Commit(op[c].slots, op[c].keys)
     IN  \/ Answered(req) /\ op' = [op EXCEPT ![c].pc = "ok"]
         \/ Unanswered(req) /\ op' = [op EXCEPT ![c].pc = "failed"]
  /\ UNCHANGED <<transport, mem, gen>>

(***************************************************************************)
(* do_get: the strips of each key, its header last.                        *)
(***************************************************************************)
RdmaLookup(c) ==
  /\ Rdma(c, "get", "ready")
  /\ slab
  /\ ServeLookup(op[c].keys)
  /\ LookedUpBy(c)
  /\ UNCHANGED <<transport, mem, gen, late, faults>>

\* Faulty variant of RdmaRead: the header is fetched before the strips.
RdmaReadHeaderFirst(c) ==
  LET o == op[c]
  IN  /\ Rdma(c, "get", "read")
      /\ ~ Finished(o)
      /\ op' = [op EXCEPT ![c] =
           IF o.slots[o.j] = Nil THEN [SkipKey(o) EXCEPT !.out[o.j] = "miss"]
           ELSE IF o.step > 0 THEN NextAccess(ReadStrip(o, o.step))
           ELSE [NextAccess(o) EXCEPT
                   !.age[o.j] = Age(o),
                   !.out[o.j] = IF HeaderMatches(o) THEN "hit" ELSE "miss"]]
      /\ UNCHANGED <<transport, serverVars, mem, gen, late, faults>>

RdmaRead(c) ==
  LET o == op[c]
  IN  /\ Rdma(c, "get", "read")
      /\ ~ Finished(o)
      /\ op' = [op EXCEPT ![c] =
           IF o.slots[o.j] = Nil THEN [SkipKey(o) EXCEPT !.out[o.j] = "miss"]
           ELSE IF o.step < Strips THEN NextAccess(ReadStrip(o, o.step + 1))
           ELSE [NextAccess(o) EXCEPT
                   !.age[o.j] = Age(o),
                   !.out[o.j] = IF HeaderMatches(o) THEN "hit" ELSE "miss"]]
      /\ UNCHANGED <<transport, serverVars, mem, gen, late, faults>>

RdmaGetReturns(c) ==
  /\ Rdma(c, "get", "read")
  /\ Finished(op[c])
  /\ op' = [op EXCEPT ![c].pc = "ok"]
  /\ UNCHANGED <<transport, serverVars, mem, gen, late, faults>>

(***************************************************************************)
(* do_exists and do_reset                                                  *)
(***************************************************************************)
RdmaExists(c) ==
  /\ Rdma(c, "exists", "ready")
  /\ slab
  /\ ServeLookup(op[c].keys)
  /\ op' = [op EXCEPT ![c].pc = "ok", ![c].out =
              [j \in DOMAIN @ |-> IF pool.byHash[op[c].keys[j]] = Nil THEN "miss" ELSE "hit"]]
  /\ UNCHANGED <<transport, mem, gen, late, faults>>

\* Nothing keeps a reset from meeting a put half way.
RdmaReset(c) ==
  /\ Rdma(c, "reset", "ready")
  /\ slab
  /\ ServeReset
  /\ op' = [op EXCEPT ![c].pc = "ok"]
  /\ UNCHANGED <<transport, mem, gen, late, faults>>

RdmaNext(c) ==
  \/ RdmaAttach(c) \/ RdmaNoSlab(c)
  \/ RdmaReserve(c) \/ RdmaRelease(c) \/ RdmaWrite(c) \/ RdmaWriteFails(c)
  \/ RdmaCommit(c)
  \/ RdmaLookup(c) \/ RdmaRead(c) \/ RdmaGetReturns(c)
  \/ RdmaExists(c) \/ RdmaReset(c)
===============================================================================
