-------------------------------- MODULE KvSlab --------------------------------
(***************************************************************************)
(* A KV node and the memory of its slab: KvEngine with a HostSlab (shared  *)
(* memory) or an RdmaSlab, serving the requests of clients that write and  *)
(* read the slots themselves.  KvShmClient and KvRdmaClient add the two    *)
(* client protocols.                                                       *)
(*                                                                         *)
(* A request is served in one step on the node's single thread.  A caller  *)
(* that gets no answer gives up after its timeout; its request may have    *)
(* been lost, served, or still be on its way (late).  Keys are content     *)
(* hashes: every put of a key carries the same payload, so a strip of a    *)
(* slot is told apart by the key whose payload it is.                      *)
(***************************************************************************)
EXTENDS SlabConstants, Integers, Sequences, SequencesExt, FiniteSetsExt

CONSTANTS
  Op,          \* the calls made to the store, each once
  Workload,    \* records [warm, calls]: keys cached at the start, what Op does
  Transport,   \* the kinds of node to look at: subset of {"shm", "rdma"}
  Strips,      \* strips of a payload
  MaxFaults    \* how many calls remain without an answer

VARIABLES
  transport,   \* the node's kind: host-backed or registered with a device
  slab,        \* KvEngine.slab is Some
  pool,        \* its SlotPool
  expired,     \* the reservations whose deadline has passed
  mem,         \* the slots' bytes: part 0 is the header, the others strips
  gen,         \* history: how often a slot has been handed out
  op,          \* the calls
  late,        \* requests whose callers have stopped waiting
  lost,        \* history: slots taken away from a put that still used them
  faults

serverVars == <<slab, pool, expired, lost>>
kvVars == <<transport, slab, pool, expired, mem, gen, op, late, lost, faults>>

List == INSTANCE SlotPoolList WITH used <- <<>>

Slots(c) == Range(op[c].slots)

\* A put that still uses its reservation, and a request on its way about one.
InUse(s) ==
  \/ \E c \in Op : op[c].kind = "put" /\ op[c].pc \in {"write", "abort"} /\ s \in Slots(c)
  \/ \E req \in late : s \in req.about

-----------------------------------------------------------------------------
(***************************************************************************)
(* The requests.                                                           *)
(***************************************************************************)
\* reserve: the record after n rounds of its loop, and the slots in order.
Handed(p, n) ==
  LET take[i \in 0..n] ==
        IF i = 0 THEN [pool |-> p, slots |-> <<>>]
        ELSE LET q == List!TakeOne(take[i - 1].pool)
             IN  [pool |-> q,
                  slots |-> take[i - 1].slots
                              \o SetToSeq(q.pending \ take[i - 1].pool.pending)]
  IN  take[n]

\* Faulty variant of Committed: a key that is cached already is left alone.
CommittedOnce(p, s, k) ==
  IF p.byHash[k] = Nil /\ s \in p.pending THEN List!Bind(p, s, k) ELSE p

Committed(p, s, k) ==
  IF p.bySlot[s] = k THEN List!Touch([p EXCEPT !.pending = @ \ {s}], s)
  ELSE IF s \in p.pending THEN List!Bind(p, s, k)
  ELSE p

Released(p, s) ==
  IF p.bySlot[s] # NoKey THEN [List!Drop(p, s) EXCEPT !.free = Append(@, s)]
  ELSE IF s \in p.pending
       THEN [p EXCEPT !.pending = @ \ {s}, !.free = Append(@, s)]
  ELSE p

\* lookup of a batch: each hit becomes the most recently used slot.
LookedUp(p, keys) ==
  FoldLeft(LAMBDA q, k : IF q.byHash[k] = Nil THEN q
                         ELSE List!Touch(q, q.byHash[k]), p, keys)

\* The effect of a request that changes the pool.
Applied(p, req) ==
  CASE req.type = "commit" ->
         FoldLeft(LAMBDA q, e : Committed(q, e[1], e[2]), p, req.entries)
    [] req.type = "release" -> FoldLeft(Released, p, req.slots)

Serve(req) ==
  /\ pool' = Applied(pool, req)
  /\ expired' = expired \cap pool'.pending
  /\ UNCHANGED <<slab, lost>>

\* Faulty variant of ReserveAnswers: expired reservations are not reclaimed.
ReserveAnswersKept(n) == {Handed(pool, n)}

\* What Reserve{n} may answer: the order of reclaimed slots is a hash map's.
ReserveAnswers(n) ==
  {Handed(List!Reclaim(pool, n, back), n) : back \in SetToSeqs(expired)}

ServeReserve(n, r) ==
  /\ r \in ReserveAnswers(n)
  /\ pool' = r.pool
  /\ LET reclaimed == expired \ (r.pool.pending \ Range(r.slots))
     IN  /\ expired' = expired \ reclaimed
         /\ lost' = lost \cup {s \in reclaimed : InUse(s)}
  /\ gen' = [s \in Slot |-> IF s \in Range(r.slots) THEN gen[s] + 1 ELSE gen[s]]
  /\ UNCHANGED slab

ServeLookup(keys) ==
  pool' = LookedUp(pool, keys) /\ UNCHANGED <<slab, expired, lost>>

ServeReset ==
  /\ pool' = List!New
  /\ expired' = {}
  /\ lost' = lost \cup {s \in Slot : InUse(s)}
  /\ UNCHANGED slab

(***************************************************************************)
(* Attach: the first one with a slot size creates the slab; a later one    *)
(* takes the slab as it is.                                                *)
(***************************************************************************)
ServeAttach(demand) ==
  slab' = (slab \/ demand) /\ UNCHANGED <<pool, expired, lost>>

-----------------------------------------------------------------------------
(***************************************************************************)
(* The calls.  A put or get works its way through its batch: key j, step   *)
(* of the accesses to that key's slot.                                     *)
(***************************************************************************)
NewCall(call) ==
  [kind |-> call.kind, keys |-> call.keys, pc |-> "new", slots |-> <<>>,
   j |-> 1, step |-> 0, gens |-> <<>>, age |-> <<>>,
   buf |-> [j \in 1..Len(call.keys) |-> [i \in 1..Strips |-> NoKey]],
   out |-> [j \in 1..Len(call.keys) |-> "none"]]

\* A slab that has served a put of the keys in warm.
WarmPool(warm) ==
  LET h == Handed(List!New, Len(warm))
  IN  FoldLeft(LAMBDA q, j : Committed(q, h.slots[j], warm[j]), h.pool,
               [j \in 1..Len(warm) |-> j])

\* The node is of the kind chosen, and has served the puts that warm its cache.
KvStart(w) ==
  /\ transport \in Transport
  /\ slab = (w.warm # <<>>)
  /\ pool = WarmPool(w.warm)
  /\ expired = {}
  /\ mem = [s \in Slot |-> [i \in 0..Strips |-> pool.bySlot[s]]]
  /\ gen = [s \in Slot |-> 0]
  /\ op = [c \in Op |-> NewCall(w.calls[c])]
  /\ late = {} /\ lost = {} /\ faults = 0

Release(slots) == [type |-> "release", slots |-> slots, about |-> Range(slots)]

Commit(slots, keys) ==
  [type |-> "commit", about |-> Range(slots),
   entries |-> [j \in 1..Len(keys) |-> <<slots[j], keys[j]>>]]

Answered(req) == Serve(req) /\ UNCHANGED <<late, faults>>

\* Served or lost, and nobody hears of it; or still to be served.
Unanswered(req) ==
  /\ faults < MaxFaults
  /\ faults' = faults + 1
  /\ \/ Serve(req) /\ UNCHANGED late
     \/ UNCHANGED <<serverVars, late>>
     \/ late' = late \cup {req} /\ UNCHANGED serverVars

LateServe ==
  \E req \in late :
    /\ late' = late \ {req}
    /\ Serve(req)
    /\ UNCHANGED <<transport, mem, gen, op, faults>>

\* Instant::now() reaches a deadline, of a put that has died or still writes.
Expire(s) ==
  /\ s \in pool.pending \ expired
  /\ expired' = expired \cup {s}
  /\ UNCHANGED <<transport, slab, pool, mem, gen, op, late, lost, faults>>

\* The client process dies.
Crash(c) ==
  /\ op[c].pc \in {"ready", "write", "abort", "read"}
  /\ faults < MaxFaults
  /\ faults' = faults + 1
  /\ op' = [op EXCEPT ![c].pc = "failed"]
  /\ UNCHANGED <<transport, serverVars, mem, gen, late>>

-----------------------------------------------------------------------------
(***************************************************************************)
(* What both protocols do with the answers.                                *)
(***************************************************************************)
\* Reserved: enough slots, or too few, which have to be given back.
Reserved(c, r) ==
  op' = [op EXCEPT ![c].slots = r.slots,
                   ![c].pc = IF Len(r.slots) < Len(op[c].keys) THEN "abort" ELSE "write"]

NextAccess(o) ==
  IF o.step < Strips THEN [o EXCEPT !.step = @ + 1]
  ELSE [o EXCEPT !.j = @ + 1, !.step = 0]

SkipKey(o) == [o EXCEPT !.j = @ + 1, !.step = 0]

Finished(o) == o.j > Len(o.keys)

\* The next write of a put: the header of key j, then its strips.
WritePart(c) ==
  LET o == op[c]
  IN  /\ mem' = [mem EXCEPT ![o.slots[o.j]][o.step] = o.keys[o.j]]
      /\ op' = [op EXCEPT ![c] = NextAccess(o)]

LookedUpBy(c) ==
  LET found == [j \in 1..Len(op[c].keys) |-> pool.byHash[op[c].keys[j]]]
  IN  op' = [op EXCEPT ![c].pc = "read", ![c].slots = found,
                       ![c].gens = [j \in 1..Len(found) |->
                                      IF found[j] = Nil THEN 0 ELSE gen[found[j]]],
                       ![c].age = [j \in 1..Len(found) |-> 0]]

\* How often the slot of key j has been handed out since the lookup.
Age(o) == gen[o.slots[o.j]] - o.gens[o.j]

ReadStrip(o, i) ==
  [o EXCEPT !.buf[o.j][i] = mem[o.slots[o.j]][i], !.age[o.j] = Age(o)]

\* Faulty variant of HeaderMatches: always against the batch's first key.
HeaderMatchesFirst(o) == mem[o.slots[o.j]][0] = o.keys[1]

HeaderMatches(o) == mem[o.slots[o.j]][0] = o.keys[o.j]
===============================================================================
