------------------------------- MODULE Services -------------------------------
(***************************************************************************)
(* Resources shared by the tasks of a node, each a machine of its own with  *)
(* nothing in common: send buffers and send queue of an RDMA socket, bulk   *)
(* buffers, the memory pool, the slots of the KV slab.  A behaviour runs    *)
(* one of them.                                                             *)
(***************************************************************************)
EXTENDS RdmaSend, RdmaBufPool, MemoryPool, SlotPoolList

VARIABLE which

vars == <<which, sendVars, bufVars, memVars, listVars>>

Init ==
  /\ which \in {"send", "bufs", "mem", "slots"}
  /\ \E mix \in IF which = "send" THEN Mix ELSE {{}} : SendInit(mix)
  /\ BufInit /\ MemInit /\ ListInit

SendRuns(A) == which = "send" /\ A /\ UNCHANGED <<which, bufVars, memVars, listVars>>
BufsRun(A) == which = "bufs" /\ A /\ UNCHANGED <<which, sendVars, memVars, listVars>>
MemRuns == which = "mem" /\ MemNext /\ UNCHANGED <<which, sendVars, bufVars, listVars>>
SlotsRun == which = "slots" /\ ListNext /\ UNCHANGED <<which, sendVars, bufVars, memVars>>

Next ==
  \/ SendRuns(SendNext) \/ BufsRun(BufNext) \/ MemRuns \/ SlotsRun

Spec ==
  /\ Init /\ [][Next]_vars
  /\ WF_vars(SendRuns(SendProgress))
  /\ WF_vars(BufsRun(BufProgress))

\* Whoever waits for a share of the send queue or for a registered buffer is served,
\* unless a dropped future took it away (sq_release, return_inner).
WaitersServed == ChainsReturn /\ BufServed
=============================================================================
