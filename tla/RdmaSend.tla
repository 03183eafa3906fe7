------------------------------- MODULE RdmaSend -------------------------------
(***************************************************************************)
(* The sending side of one IbSocket: the ring of send buffers, the bound on *)
(* chained work requests, and the send queue of the device, which completes*)
(* work in the order it was posted.                                        *)
(*                                                                         *)
(* A sender is one pass of send_with_kind after its credit; a chain is one *)
(* call of rdma_chain; a plain operation is rdma_read or rdma_write.  Each *)
(* is a future and may be dropped at an await.                             *)
(***************************************************************************)
EXTENDS Integers, Sequences, FiniteSets, SequencesExt, FiniteSetsExt

CONSTANTS
  Sender, Plain,
  Chain, ChainOps,      \* chains and the number of operations of each
  Mix,                  \* sets of tasks that run together
  SendBufCnt,           \* SEND_BUF_CNT
  ChainWindow,          \* CHAIN_WINDOW
  MaxSendWr, SqReserve, \* max_send_wr and SQ_RESERVE
  MaxCancels

VARIABLES
  bufs,      \* SendBuffers and the senders: [front, tail, waiters, pc, slot]
  sq,        \* [free, parked]: sq_free and sq_waiters
  chain,     \* [pc, left, n] of each chain
  plain,     \* progress of each plain operation
  qp,        \* posted work, oldest first: [task, n, slot]
  cancels,
  clean,     \* history: slots came back in the order they were taken
  garbled,   \* history: senders whose buffer was refilled while posted
  refused    \* history: [posts, wrs]: posts refused although the work outside
             \* the chains fitted into the reserve; chained work of dropped futures

sendVars == <<bufs, sq, chain, plain, qp, cancels, clean, garbled, refused>>

NoSlot == -1
SqCap == Max({1, MaxSendWr - SqReserve})

\* Faulty variant of RingTail: one slot more than there are buffers.
RingTailOver == SendBufCnt + 1

\* SendBuffers::new: every buffer is free.
RingTail == SendBufCnt

\* The tasks of mix are started.
SendInit(mix) ==
  LET start(t) == IF t \in mix THEN "idle" ELSE "done"
  IN
  /\ bufs = [front |-> 0, tail |-> RingTail, waiters |-> <<>>,
             pc |-> [t \in Sender |-> start(t)], slot |-> [t \in Sender |-> NoSlot]]
  /\ sq = [free |-> SqCap, parked |-> {}]
  /\ chain = [c \in Chain |-> [pc |-> start(c), left |-> ChainOps[c], n |-> 0]]
  /\ plain = [p \in Plain |-> start(p)]
  /\ qp = <<>>
  /\ cancels = 0
  /\ clean = TRUE
  /\ garbled = {}
  /\ refused = [posts |-> 0, wrs |-> 0]

\* The device accepts work while its queue has room.
Room(n) == FoldSeq(LAMBDA w, sum : w.n + sum, n, qp) <= MaxSendWr

Unchained == {k \in DOMAIN qp : qp[k].task \notin Chain}

\* A post of n work requests outside the chains, or of a chain (0), is refused.
Refuse(n) ==
  refused' = [refused EXCEPT !.posts = IF Cardinality(Unchained) + n <= SqReserve THEN @ + 1 ELSE @]

-----------------------------------------------------------------------------
(***************************************************************************)
(* SendBuffers and send_with_kind.                                         *)
(***************************************************************************)
Live(b, ws) == SelectSeq(ws, LAMBDA t : b.pc[t] = "waiting")

\* The next slot of the ring, for t.
Popped(b, t, pc) ==
  [b EXCEPT !.front = @ + 1, !.pc[t] = pc, !.slot[t] = b.front]

\* Faulty variant of Push: the slot waits for the next sender.
PushQuiet(b) == [b EXCEPT !.tail = @ + 1]

\* push(1): one more slot, for the first waiter that has not been dropped.
Push(b) ==
  LET ws == Live(b, b.waiters)
      c == [b EXCEPT !.tail = @ + 1, !.waiters = IF ws = <<>> THEN <<>> ELSE Tail(ws)]
  IN  IF ws = <<>> THEN c ELSE Popped(c, Head(ws), "granted")

\* Copy the message of t into its slot and post it.  After a refusal push(1)
\* releases a slot: the oldest one of the ring.
CopyAndPost(t, b) ==
  LET i == b.slot[t] % SendBufCnt
  IN  /\ garbled' = garbled \cup {w.task : w \in {v \in ToSet(qp) : v.slot = i}}
      /\ IF Room(1)
         THEN /\ qp' = Append(qp, [task |-> t, n |-> 1, slot |-> i])
              /\ bufs' = [b EXCEPT !.pc[t] = "posted"]
              /\ clean' = (clean /\ \A u \in Sender : b.pc[u] = "granted" => b.slot[u] >= b.slot[t])
              /\ UNCHANGED refused
         ELSE /\ bufs' = Push([b EXCEPT !.pc[t] = "failed"])
              /\ clean' = FALSE
              /\ Refuse(1)
              /\ UNCHANGED qp
      /\ UNCHANGED <<sq, chain, plain, cancels>>

Send(t) ==
  /\ bufs.pc[t] = "idle"
  /\ bufs.front < bufs.tail
  /\ CopyAndPost(t, Popped(bufs, t, "idle"))

SendWaits(t) ==
  /\ bufs.pc[t] = "idle"
  /\ bufs.front >= bufs.tail
  /\ bufs' = [bufs EXCEPT !.pc[t] = "waiting", !.waiters = Append(@, t)]
  /\ UNCHANGED <<sq, chain, plain, qp, cancels, clean, garbled, refused>>

SendResumes(t) ==
  /\ bufs.pc[t] = "granted"
  /\ CopyAndPost(t, bufs)

\* The future is dropped.  A slot it had been granted is gone.
SendDropped(t) ==
  /\ bufs.pc[t] \in {"waiting", "granted"}
  /\ cancels < MaxCancels
  /\ cancels' = cancels + 1
  /\ bufs' = [bufs EXCEPT !.pc[t] = "dropped"]
  /\ clean' = (clean /\ bufs.pc[t] # "granted")
  /\ UNCHANGED <<sq, chain, plain, qp, garbled, refused>>

-----------------------------------------------------------------------------
(***************************************************************************)
(* sq_acquire, sq_release and rdma_chain.                                  *)
(***************************************************************************)
\* Faulty variant of SqRelease: the waiters are left parked.
SqReleaseQuiet(n) == [sq EXCEPT !.free = @ + n]

\* Everyone parked tries again.
SqRelease(n) == [free |-> sq.free + n, parked |-> {}]

Window(c) == Min({ChainWindow, chain[c].left, sq.free})

\* A window of the chain: take its share of the queue and post it.
ChainPosts(c) ==
  LET n == Window(c)
  IN  /\ chain[c].pc = "idle" /\ c \notin sq.parked
      /\ sq.free > 0
      /\ IF Room(n)
         THEN /\ sq' = [sq EXCEPT !.free = @ - n]
              /\ qp' = Append(qp, [task |-> c, n |-> n, slot |-> NoSlot])
              /\ chain' = [chain EXCEPT ![c].pc = "posted", ![c].n = n]
              /\ UNCHANGED refused
         ELSE /\ sq' = SqRelease(0)
              /\ chain' = [chain EXCEPT ![c].pc = "failed"]
              /\ Refuse(0)
              /\ UNCHANGED qp
      /\ UNCHANGED <<bufs, plain, cancels, clean, garbled>>

ChainParks(c) ==
  /\ chain[c].pc = "idle" /\ c \notin sq.parked
  /\ sq.free = 0
  /\ sq' = [sq EXCEPT !.parked = @ \cup {c}]
  /\ UNCHANGED <<bufs, chain, plain, qp, cancels, clean, garbled, refused>>

\* Faulty variant of Returned: a failed window keeps its share.
ReturnedOk(c) == IF chain[c].pc = "errored" THEN 0 ELSE chain[c].n

Returned(c) == chain[c].n

\* The window's completion has arrived.
ChainResumes(c) ==
  /\ chain[c].pc \in {"completed", "errored"}
  /\ sq' = SqRelease(Returned(c))
  /\ chain' = [chain EXCEPT ![c] =
                  IF @.pc = "errored" THEN [@ EXCEPT !.pc = "failed", !.n = 0]
                  ELSE [pc |-> IF @.left = @.n THEN "done" ELSE "idle",
                        left |-> @.left - @.n, n |-> 0]]
  /\ UNCHANGED <<bufs, plain, qp, cancels, clean, garbled, refused>>

\* The future is dropped: nobody releases its window.
ChainDropped(c) ==
  /\ chain[c].pc = "posted"
  /\ cancels < MaxCancels
  /\ cancels' = cancels + 1
  /\ chain' = [chain EXCEPT ![c].pc = "dropped", ![c].n = 0]
  /\ refused' = [refused EXCEPT !.wrs = @ + chain[c].n]
  /\ UNCHANGED <<bufs, sq, plain, qp, clean, garbled>>

\* rdma_read and rdma_write post without asking for room.
PlainPosts(p) ==
  /\ plain[p] = "idle"
  /\ IF Room(1)
     THEN /\ plain' = [plain EXCEPT ![p] = "posted"]
          /\ qp' = Append(qp, [task |-> p, n |-> 1, slot |-> NoSlot])
          /\ UNCHANGED refused
     ELSE /\ plain' = [plain EXCEPT ![p] = "failed"]
          /\ Refuse(1)
          /\ UNCHANGED qp
  /\ UNCHANGED <<bufs, sq, chain, cancels, clean, garbled>>

-----------------------------------------------------------------------------
(***************************************************************************)
(* handle_wc for the completion of the oldest posted work.                 *)
(***************************************************************************)
Complete(ok) ==
  LET w == Head(qp)
  IN  /\ qp # <<>>
      /\ qp' = Tail(qp)
      /\ bufs' = IF w.task \in Sender
                 THEN Push([bufs EXCEPT !.pc[w.task] = IF ok THEN "done" ELSE "failed"])
                 ELSE bufs
      /\ chain' = IF w.task \in Chain /\ chain[w.task].pc = "posted"
                  THEN [chain EXCEPT ![w.task].pc = IF ok THEN "completed" ELSE "errored"]
                  ELSE chain
      /\ plain' = IF w.task \in Plain
                  THEN [plain EXCEPT ![w.task] = IF ok THEN "done" ELSE "failed"] ELSE plain
      /\ UNCHANGED <<sq, cancels, clean, garbled, refused>>

SendProgress ==
  \/ \E t \in Sender : Send(t) \/ SendWaits(t) \/ SendResumes(t)
  \/ \E c \in Chain : ChainPosts(c) \/ ChainParks(c) \/ ChainResumes(c)
  \/ \E p \in Plain : PlainPosts(p)
  \/ \E ok \in BOOLEAN : Complete(ok)

SendNext ==
  \/ SendProgress
  \/ \E t \in Sender : SendDropped(t)
  \/ \E c \in Chain : ChainDropped(c)

-----------------------------------------------------------------------------
\* No message is replaced in its buffer between its post and its completion: the
\* ring identifies slots only by counting, which is right as long as they come
\* back in the order in which they were taken, i.e. no post was refused, no
\* granted sender was dropped or overtaken (send_with_kind, SendBuffers::push).
SendIntact == clean => garbled = {}

\* Chained work never takes more of the send queue than sq_free grants, and every
\* share comes back except a dropped future's (sq_acquire, sq_release); so the
\* device refuses no post as long as the other work fits into SQ_RESERVE.
QueueShared ==
  /\ sq.free + FoldSet(LAMBDA c, sum : chain[c].n + sum, 0, Chain) + refused.wrs = SqCap
  /\ refused.posts = 0

\* Every chain returns unless it is dropped or a dropped one took its share away
\* (sq_release wakes all).
ChainsReturn ==
  \A c \in Chain : <>(chain[c].pc \in {"done", "failed", "dropped"} \/ refused.wrs > 0)

\* No wakeup is lost: a sender waits only in the queue, and only while the ring is
\* empty (SendBuffers::push, acquire).
WaitsForCause ==
  \A t \in Sender : bufs.pc[t] = "waiting" => t \in ToSet(bufs.waiters) /\ bufs.front = bufs.tail

\* Buffers and send queue of a socket are shared without overlap and without a
\* lost wakeup (SendBuffers, sq_acquire).
SendSound == SendIntact /\ QueueShared /\ WaitsForCause
=============================================================================
