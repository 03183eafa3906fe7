----------------------------- MODULE MCRdmaCredit -----------------------------
(***************************************************************************)
(* Two nodes that call each other.                                         *)
(***************************************************************************)
EXTENDS RdmaCredit

CONSTANTS a, b, c1, c2, c3

MCCaller == [i \in Call |-> IF i = c3 THEN b ELSE a]
MCCallee == [i \in Call |-> IF i = c3 THEN a ELSE b]

Case(credit, batch, depth, fs, rs) ==
  [credit |-> credit, batch |-> batch, depth |-> depth, faults |-> fs, restarts |-> rs]

\* A credit of two acknowledged in pairs; a receive queue of one buffer; faults;
\* a restart.
MCSetting == {Case(2, 2, 8, 0, 0), Case(1, 1, 1, 0, 0), Case(2, 2, 8, 1, 0), Case(2, 2, 8, 0, 1)}
=============================================================================
