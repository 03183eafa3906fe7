------------------------------ MODULE RdmaCredit ------------------------------
(***************************************************************************)
(* Requests and responses between RDMA nodes: the credits of IbSocket, its *)
(* batched acknowledgements, the shared receive queue and the completion   *)
(* pump, the callers' table of pending responses, and the dispatcher that  *)
(* drains received messages.  A message is one work request (send_with_kind*)
(* splits a body larger than BUF_SIZE into several messages, which the     *)
(* receiver decodes one by one; such bodies are left out).                 *)
(*                                                                         *)
(* The fabric keeps the order of the messages of one node to another.  A   *)
(* node's tasks interleave at their awaits.  The pump polls its queue until*)
(* it is empty and the dispatcher empties the receive queue, neither with  *)
(* an await inside; the executor runs ready tasks in order, so the         *)
(* dispatcher that the pump has notified runs before the pump runs again.  *)
(***************************************************************************)
EXTENDS Integers, Sequences, FiniteSets, SequencesExt, FiniteSetsExt

CONSTANTS
  Node,        \* the nodes
  Client,      \* nodes that may start again: clients of the KV store
  Call,        \* calls, each made once
  Caller,      \* [Call -> Node]
  Callee,      \* [Call -> Node]
  Setting      \* records [credit, batch, depth, faults, restarts]

VARIABLES
  env,         \* the setting of this behaviour
  peer,        \* per_peer: [sent, acked, unacked] of a node for another
  task,        \* how far each message has come: none, ask, parked, post, wire, cq,
               \* rq, handle, done or failed
  wakers,      \* per_peer wakers: messages waiting for a credit, in order
  pending,     \* pending_responses of each node: the calls
  wire,        \* messages on their way from a node to another
  srq,         \* posted receive buffers, in order
  cq,          \* receive completions that the pump has not polled
  rbuf,        \* what each receive buffer holds
  rq,          \* recv_bufs.queue, with the message each entry stood for
  result,      \* outcome of each call
  leaked,      \* history: credits that will never come back
  dirty,       \* history: pairs whose counters were reset under traffic
  torn,        \* history: a message was drained that is not the one received
  faults, restarts

rdmaVars == <<env, peer, task, wakers, pending, wire, srq, cq, rbuf, rq, result,
              leaked, dirty, torn, faults, restarts>>

Msg == Call \X {"req", "rsp"}
From(m) == IF m[2] = "req" THEN Caller[m[1]] ELSE Callee[m[1]]
To(m) == IF m[2] = "req" THEN Callee[m[1]] ELSE Caller[m[1]]
Pair == {p \in Node \X Node : p[1] # p[2]}

NewCredit == [sent |-> 0, acked |-> 0, unacked |-> 0]

Least(x, y) == IF x < y THEN x ELSE y

\* Faulty variant of RecvBufCnt: only the other nodes are counted.
RecvBufCntOthers == Least(env.credit * (Cardinality(Node) - 1), env.depth)

\* RdmaNode::start_local: a buffer for every credit of every node, up to
\* the depth of the shared receive queue.
RecvBufCnt == Least(env.credit * Cardinality(Node), env.depth)

RdmaInit ==
  /\ env \in Setting
  /\ peer = [p \in Pair |-> NewCredit]
  /\ task = [m \in Msg |-> "none"]
  /\ wakers = [p \in Pair |-> <<>>]
  /\ pending = [n \in Node |-> {}]
  /\ wire = [p \in Pair |-> <<>>]
  /\ srq = [n \in Node |-> [i \in 1..RecvBufCnt |-> i]]
  /\ cq = [n \in Node |-> <<>>]
  /\ rbuf = [n \in Node |-> [i \in 1..RecvBufCnt |-> "empty"]]
  /\ rq = [n \in Node |-> <<>>]
  /\ result = [i \in Call |-> "none"]
  /\ leaked = [p \in Pair |-> 0]
  /\ dirty = {}
  /\ torn = FALSE
  /\ faults = 0
  /\ restarts = 0

-----------------------------------------------------------------------------
(***************************************************************************)
(* send_with_kind                                                          *)
(***************************************************************************)
\* sent.wrapping_sub(acked) < peer_credit: an excess of acknowledgements wraps
\* to a number larger than any credit.
HasCredit(p) == peer[p].acked <= peer[p].sent /\ peer[p].sent - peer[p].acked < env.credit

\* unary: register the call and start to send its request.
Begin(i) ==
  /\ result[i] = "none" /\ task[<<i, "req">>] = "none"
  /\ task' = [task EXCEPT ![<<i, "req">>] = "ask"]
  /\ pending' = [pending EXCEPT ![Caller[i]] = @ \cup {i}]
  /\ UNCHANGED <<env, peer, wakers, wire, srq, cq, rbuf, rq, result, leaked,
                 dirty, torn, faults, restarts>>

\* Take a credit, or wait for one.
TakeCredit(m) ==
  LET p == <<From(m), To(m)>>
  IN  /\ task[m] = "ask"
      /\ IF HasCredit(p)
         THEN /\ peer' = [peer EXCEPT ![p].sent = @ + 1]
              /\ task' = [task EXCEPT ![m] = "post"]
              /\ UNCHANGED wakers
         ELSE /\ wakers' = [wakers EXCEPT ![p] = Append(@, m)]
              /\ task' = [task EXCEPT ![m] = "parked"]
              /\ UNCHANGED peer
      /\ UNCHANGED <<env, pending, wire, srq, cq, rbuf, rq, result, leaked,
                     dirty, torn, faults, restarts>>

Post(m) ==
  /\ task[m] = "post"
  /\ wire' = [wire EXCEPT ![<<From(m), To(m)>>] = Append(@, m)]
  /\ task' = [task EXCEPT ![m] = "wire"]
  /\ UNCHANGED <<env, peer, wakers, pending, srq, cq, rbuf, rq, result, leaked,
                 dirty, torn, faults, restarts>>

\* The caller of a request that could not be sent gives up.
Abandon(i) ==
  /\ pending' = [pending EXCEPT ![Caller[i]] = @ \ {i}]
  /\ result' = [result EXCEPT ![i] = "failed"]

\* ibv_wr_complete refuses: the credit is returned, and nobody is woken.
PostFails(m) ==
  /\ task[m] = "post"
  /\ faults < env.faults
  /\ faults' = faults + 1
  /\ peer' = [peer EXCEPT ![<<From(m), To(m)>>].sent = @ - 1]
  /\ task' = [task EXCEPT ![m] = "failed"]
  /\ IF m[2] = "req" THEN Abandon(m[1]) ELSE UNCHANGED <<pending, result>>
  /\ UNCHANGED <<env, wakers, wire, srq, cq, rbuf, rq, leaked, dirty, torn, restarts>>

(***************************************************************************)
(* The receiving side: the device takes a posted buffer, the pump handles  *)
(* the completion and posts the buffer again at once.                      *)
(***************************************************************************)
IsAck(m) == m[1] = "ack"

NicReceive(p) ==
  LET n == p[2]
      m == Head(wire[p])
  IN  /\ wire[p] # <<>>
      /\ srq[n] # <<>>
      /\ wire' = [wire EXCEPT ![p] = Tail(@)]
      /\ srq' = [srq EXCEPT ![n] = Tail(@)]
      /\ cq' = [cq EXCEPT ![n] = Append(@, [from |-> p[1], msg |-> m, buf |-> Head(srq[n])])]
      /\ rbuf' = IF IsAck(m) THEN rbuf ELSE [rbuf EXCEPT ![n][Head(srq[n])] = m]
      /\ task' = IF IsAck(m) THEN task ELSE [task EXCEPT ![m] = "cq"]
      /\ UNCHANGED <<env, peer, wakers, pending, rq, result, leaked, dirty, torn,
                     faults, restarts>>

\* No buffer is posted: with rnr_retry = 0 the send completes with an error.
\* Its credit has been spent.
NicRefuses(p) ==
  LET m == Head(wire[p])
  IN  /\ wire[p] # <<>>
      /\ srq[p[2]] = <<>>
      /\ wire' = [wire EXCEPT ![p] = Tail(@)]
      /\ IF IsAck(m)
         THEN /\ leaked' = [leaked EXCEPT ![<<p[2], p[1]>>] = @ + m[2]]
              /\ UNCHANGED <<task, pending, result>>
         ELSE /\ leaked' = [leaked EXCEPT ![p] = @ + 1]
              /\ task' = [task EXCEPT ![m] = "failed"]
              /\ IF m[2] = "req" THEN Abandon(m[1]) ELSE UNCHANGED <<pending, result>>
      /\ UNCHANGED <<env, peer, wakers, srq, cq, rbuf, rq, dirty, torn, faults, restarts>>

\* An acknowledgement of count messages wakes as many waiters.
WokenBy(ws, count) == SubSeq(ws, 1, Least(Len(ws), count))

AcksFrom(n, q) == SelectSeq(cq[n], LAMBDA c : IsAck(c.msg) /\ c.from = q)
Acked(n, q) == FoldSeq(LAMBDA c, sum : c.msg[2] + sum, 0, AcksFrom(n, q))

\* post_recv after each completion.
Reposted(n) == srq[n] \o [k \in 1..Len(cq[n]) |-> cq[n][k].buf]

\* handle_wc for every completion: acknowledgements return credits and wake
\* waiters, messages are queued for the dispatcher, buffers are posted again.
Pump(n) ==
  LET data == SelectSeq(cq[n], LAMBDA c : ~IsAck(c.msg))
      woken == UNION {ToSet(WokenBy(wakers[<<n, q>>], Acked(n, q))) : q \in Node \ {n}}
  IN  /\ cq[n] # <<>>
      /\ rq[n] = <<>>
      /\ cq' = [cq EXCEPT ![n] = <<>>]
      /\ srq' = [srq EXCEPT ![n] = Reposted(n)]
      /\ rq' = [rq EXCEPT ![n] = data]
      /\ peer' = [p \in Pair |-> IF p[1] = n THEN [peer[p] EXCEPT !.acked = @ + Acked(n, p[2])]
                                             ELSE peer[p]]
      /\ wakers' = [p \in Pair |-> SelectSeq(wakers[p], LAMBDA m : m \notin woken)]
      /\ task' = [m \in Msg |-> CASE m \in woken -> "ask"
                                  [] \E k \in DOMAIN data : data[k].msg = m -> "rq"
                                  [] OTHER -> task[m]]
      /\ UNCHANGED <<env, pending, wire, rbuf, result, leaked, dirty, torn, faults, restarts>>

-----------------------------------------------------------------------------
(***************************************************************************)
(* The dispatcher and the handlers it spawns.                              *)
(***************************************************************************)
\* attempt_singular_rcv until nothing is left: every message is copied out of
\* its buffer and given to a task of its own.
Drain(n) ==
  LET drained == {rq[n][k].msg : k \in DOMAIN rq[n]}
  IN  /\ rq[n] # <<>>
      /\ rq' = [rq EXCEPT ![n] = <<>>]
      /\ torn' = (torn \/ \E k \in DOMAIN rq[n] : rbuf[n][rq[n][k].buf] # rq[n][k].msg)
      /\ task' = [m \in Msg |-> IF m \in drained THEN "handle" ELSE task[m]]
      /\ UNCHANGED <<env, peer, wakers, pending, wire, srq, cq, rbuf, result, leaked,
                     dirty, faults, restarts>>

\* Faulty variant of NoteDrain: the message that fills the batch is not counted.
NoteDrainShort(p) ==
  LET n == peer[p].unacked + 1
  IN  /\ IF n >= env.batch
         THEN /\ peer' = [peer EXCEPT ![p].unacked = 0]
              /\ wire' = [wire EXCEPT ![p] = Append(@, <<"ack", n - 1>>)]
         ELSE /\ peer' = [peer EXCEPT ![p].unacked = n]
              /\ UNCHANGED wire
      /\ UNCHANGED <<leaked, faults>>

\* Faulty variant of NoteDrain: acknowledges only beyond a full batch.
NoteDrainLate(p) ==
  LET n == peer[p].unacked + 1
  IN  /\ IF n <= env.batch
         THEN /\ peer' = [peer EXCEPT ![p].unacked = n]
              /\ UNCHANGED wire
         ELSE /\ peer' = [peer EXCEPT ![p].unacked = 0]
              /\ wire' = [wire EXCEPT ![p] = Append(@, <<"ack", n>>)]
      /\ UNCHANGED <<leaked, faults>>

\* note_drain: a full batch is acknowledged; when the acknowledgement cannot be
\* posted its count is lost.
NoteDrain(p) ==
  LET n == peer[p].unacked + 1
  IN  IF n < env.batch
      THEN /\ peer' = [peer EXCEPT ![p].unacked = n]
           /\ UNCHANGED <<wire, leaked, faults>>
      ELSE /\ peer' = [peer EXCEPT ![p].unacked = 0]
           /\ \/ /\ wire' = [wire EXCEPT ![p] = Append(@, <<"ack", n>>)]
                 /\ UNCHANGED <<leaked, faults>>
              \/ /\ faults < env.faults
                 /\ faults' = faults + 1
                 /\ leaked' = [leaked EXCEPT ![<<p[2], p[1]>>] = @ + n]
                 /\ UNCHANGED wire

HandleRequest(i) ==
  /\ task[<<i, "req">>] = "handle"
  /\ NoteDrain(<<Callee[i], Caller[i]>>)
  /\ task' = [task EXCEPT ![<<i, "req">>] = "done", ![<<i, "rsp">>] = "ask"]
  /\ UNCHANGED <<env, wakers, pending, srq, cq, rbuf, rq, result, dirty, torn, restarts>>

\* A request that cannot be decoded, or whose sender is not known or has no
\* address handle, is dropped before it is counted.
RequestDropped(i) ==
  /\ task[<<i, "req">>] = "handle"
  /\ faults < env.faults
  /\ faults' = faults + 1
  /\ task' = [task EXCEPT ![<<i, "req">>] = "failed"]
  /\ leaked' = [leaked EXCEPT ![<<Caller[i], Callee[i]>>] = @ + 1]
  /\ UNCHANGED <<env, peer, wakers, pending, wire, srq, cq, rbuf, rq, result, dirty,
                 torn, restarts>>

\* A response is counted only if its caller still waits for it.
HandleResponse(i) ==
  LET n == Caller[i]
  IN  /\ task[<<i, "rsp">>] = "handle"
      /\ task' = [task EXCEPT ![<<i, "rsp">>] = "done"]
      /\ IF i \in pending[n]
         THEN /\ NoteDrain(<<n, Callee[i]>>)
              /\ pending' = [pending EXCEPT ![n] = @ \ {i}]
              /\ result' = [result EXCEPT ![i] = "ok"]
         ELSE /\ leaked' = [leaked EXCEPT ![<<Callee[i], n>>] = @ + 1]
              /\ UNCHANGED <<peer, wire, pending, result, faults>>
      /\ UNCHANGED <<env, wakers, srq, cq, rbuf, rq, dirty, torn, restarts>>

\* The caller's timeout, which runs once the request is sent.
Timeout(i) ==
  /\ i \in pending[Caller[i]]
  /\ task[<<i, "req">>] \in {"wire", "cq", "rq", "handle", "done", "failed"}
  /\ faults < env.faults
  /\ faults' = faults + 1
  /\ Abandon(i)
  /\ UNCHANGED <<env, peer, task, wakers, wire, srq, cq, rbuf, rq, leaked, dirty,
                 torn, restarts>>

-----------------------------------------------------------------------------
(***************************************************************************)
(* A client c of node s starts again and attaches: its own state is new,   *)
(* and reset_peer drops s's counters for it and wakes everyone who waited. *)
(* What the old client had sent is still on its way or being handled.      *)
(***************************************************************************)
Begun(c) == {m \in Msg : From(m) = c /\ task[m] \in {"ask", "parked", "post"}}
ToClient(c) == {m \in Msg : To(m) = c /\ task[m] \in {"wire", "cq", "rq", "handle"}}

\* Messages of the pair that were counted before the restart.
Counted(p) ==
  \/ wire[p] # <<>>
  \/ \E m \in Msg : <<From(m), To(m)>> = p /\ task[m] \in {"wire", "cq", "rq", "handle"}
  \/ \E k \in DOMAIN cq[p[2]] : cq[p[2]][k].from = p[1]

Restart(c, s) ==
  LET cs == <<c, s>>  sc == <<s, c>>
      lostCalls == {i \in Call : Caller[i] = c /\ i \in pending[c]}
  IN  /\ c \in Client
      /\ restarts < env.restarts
      /\ restarts' = restarts + 1
      /\ peer' = [peer EXCEPT ![cs] = NewCredit, ![sc] = NewCredit]
      /\ wakers' = [wakers EXCEPT ![cs] = <<>>, ![sc] = <<>>]
      /\ task' = [m \in Msg |-> CASE m \in Begun(c) \cup ToClient(c) -> "failed"
                                  [] m \in ToSet(wakers[sc]) -> "ask"
                                  [] OTHER -> task[m]]
      /\ pending' = [pending EXCEPT ![c] = {}]
      /\ result' = [i \in Call |-> IF i \in lostCalls THEN "failed" ELSE result[i]]
      /\ wire' = [wire EXCEPT ![sc] = <<>>]
      /\ srq' = [srq EXCEPT ![c] = [i \in 1..RecvBufCnt |-> i]]
      /\ cq' = [cq EXCEPT ![c] = <<>>]
      /\ rq' = [rq EXCEPT ![c] = <<>>]
      /\ leaked' = [leaked EXCEPT ![cs] = 0, ![sc] = 0]
      /\ dirty' = IF Counted(cs) \/ \E m \in Msg : From(m) = s /\ task[m] = "post"
                  THEN dirty \cup {cs, sc} ELSE dirty
      /\ UNCHANGED <<env, rbuf, torn, faults>>

RdmaNext ==
  \/ \E i \in Call : \/ Begin(i) \/ HandleRequest(i) \/ RequestDropped(i)
                   \/ HandleResponse(i) \/ Timeout(i)
  \/ \E m \in Msg : TakeCredit(m) \/ Post(m) \/ PostFails(m)
  \/ \E p \in Pair : NicReceive(p) \/ NicRefuses(p) \/ Restart(p[1], p[2])
  \/ \E n \in Node : Pump(n) \/ Drain(n)

\* Steps that the executor, the device or a polled task takes by itself.
RdmaProgress ==
  \/ \E i \in Call : HandleRequest(i) \/ HandleResponse(i)
  \/ \E m \in Msg : TakeCredit(m) \/ Post(m)
  \/ \E p \in Pair : NicReceive(p)
  \/ \E n \in Node : Pump(n) \/ Drain(n)

RdmaSpec == RdmaInit /\ [][RdmaNext]_rdmaVars /\ WF_rdmaVars(RdmaProgress)

-----------------------------------------------------------------------------
AckCount(m) == IF IsAck(m) THEN m[2] ELSE 0

\* Acknowledgements of q for n that n's pump has not counted.
AcksComing(n, q) ==
  FoldSeq(LAMBDA m, sum : AckCount(m) + sum, 0, wire[<<q, n>>]) + Acked(n, q)

Undrained(p) == {m \in Msg : /\ <<From(m), To(m)>> = p
                             /\ task[m] \in {"post", "wire", "cq", "rq", "handle"}}

\* Credits are conserved (send_with_kind, note_drain, handle_wc): what a node
\* believes outstanding at a peer is what is under way to the peer's handlers,
\* drained and not yet acknowledged, acknowledged and not yet counted, or lost
\* by one of the ways the code loses credits; never more than peer_credit.
\* Excepted are pairs whose counters a restart reset under counted traffic.
CreditConserved ==
  \A p \in Pair \ dirty :
    LET out == peer[p].sent - peer[p].acked
        back == <<p[2], p[1]>>
    IN  /\ out = Cardinality(Undrained(p)) + peer[back].unacked + AcksComing(p[1], p[2]) + leaked[p]
        /\ out <= env.credit

\* The node's buffers are enough for one round of the pump and the dispatcher: a
\* peer's messages, and the acknowledgements of two windows of ours.
Sized(e) ==
  (e.credit + 2 * (e.credit \div e.batch)) * (Cardinality(Node) - 1)
    <= Least(e.credit * Cardinality(Node), e.depth)

\* A message is drained as it was received although its buffer is posted again
\* before it is copied out, and no message meets an empty receive queue, when
\* the credit is large enough for the batch (handle_wc, attempt_singular_rcv,
\* the sizing in RdmaNode::start_local).
RecvIntact ==
  Sized(env) /\ dirty = {} => ~torn /\ \A p \in Pair : wire[p] # <<>> => srq[p[2]] # <<>>

Faultless == env.faults = 0 /\ env.restarts = 0 /\ Sized(env) /\ env.batch <= env.credit

\* Every call is answered when nothing fails: neither a lost wakeup nor an
\* acknowledgement held back for its batch blocks the senders for ever, as long
\* as the batch is not larger than the credit (send_with_kind, note_drain).
CallsReturn ==
  \A i \in Call : (Faultless /\ i \in pending[Caller[i]]) ~> (result[i] = "ok")
=============================================================================
