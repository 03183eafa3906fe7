------------------------------- MODULE DataPath -------------------------------
(***************************************************************************)
(* What is computed on the way between an object and the files of a disk:   *)
(* the stripes, the calls to a remote disk, the metadata file, the vote on  *)
(* what the disks say of an object, and the listing that walks their files. *)
(* They share no state; a behaviour runs one of them.                       *)
(***************************************************************************)
EXTENDS ConsensusRead, EcStream, Rpc, XlMeta, Listing

VARIABLE stage

vars == <<stage, consensusVars, ecVars, rpcVars, xlVars, listVars>>

\* The jobs of a stage; the stages that do not run have one, which they never do.
Jobs(s, J) == IF stage = s THEN J ELSE {CHOOSE j \in J : TRUE}

Init ==
  /\ stage \in {"vote", "stripes", "rpc", "meta", "list"}
  /\ job \in Jobs("stripes", EcJob)
  /\ rjob \in Jobs("rpc", RpcJob)
  /\ ljob \in Jobs("list", ListJob)
  /\ ConsensusInit /\ EcInit /\ RpcInit /\ XlInit /\ ListInit

VoteRuns ==
  stage = "vote" /\ ConsensusNext /\ UNCHANGED <<stage, ecVars, rpcVars, xlVars, listVars>>
StripesRun ==
  stage = "stripes" /\ EcNext /\ UNCHANGED <<stage, consensusVars, rpcVars, xlVars, listVars>>
CallsRun ==
  stage = "rpc" /\ RpcNext /\ UNCHANGED <<stage, consensusVars, ecVars, xlVars, listVars>>
MetaRuns ==
  stage = "meta" /\ XlNext /\ UNCHANGED <<stage, consensusVars, ecVars, rpcVars, listVars>>
ListRuns ==
  stage = "list" /\ ListNext /\ UNCHANGED <<stage, consensusVars, ecVars, rpcVars, xlVars>>

Next == VoteRuns \/ StripesRun \/ CallsRun \/ MetaRuns \/ ListRuns

Spec == Init /\ [][Next]_vars
===============================================================================
