----------------------------- MODULE MCObjectGet ------------------------------
\* ObjectGet on a set of four disks, 3+1; w2 is inline.
EXTENDS ObjectGet, TLC

CONSTANTS w0, w1, w2, x1

Symmetry == Permutations(Disk)

\* Overwrites and a DELETE on disks that work.
Overwrites == [initial |-> {w0}, ops |-> {w1, w2, x1}, faults |-> 0,
               crash |-> {}, lapse |-> {}]

\* An overwrite that may fail on one disk and be undone.
Undone == [initial |-> {w0}, ops |-> {w1}, faults |-> 1, crash |-> {}, lapse |-> {}]

GetScenarios == {Overwrites, Undone}
===============================================================================
