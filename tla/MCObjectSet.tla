----------------------------- MODULE MCObjectSet ------------------------------
\* ObjectSet on a set of four disks, 3+1.  w1 and w2 are unversioned writes, w2
\* an inline one; v0 and v1 have version ids; w0 or v0 is there at the start.
EXTENDS ObjectSet, TLC

CONSTANTS w0, w1, w2, v0, v1, x1, b1

Symmetry == Permutations(Disk)

\* One disk fails under a PUT and a DELETE.
Faults(w) == [initial |-> {w0}, ops |-> {w, x1}, faults |-> 1,
              crash |-> {}, lapse |-> {}]

\* One disk fails under two PUTs, whose locks may lapse before the fence.
Lapses == [initial |-> {w0}, ops |-> {w1, w2}, faults |-> 1,
           crash |-> {}, lapse |-> {"staging"}]

\* One disk fails, and coordinators crash while they stage or clean up.
Crashes == [initial |-> {w0}, ops |-> {w1, w2}, faults |-> 1,
            crash |-> {"staging", "cleaning"}, lapse |-> {}]

\* Versions with an id beside the null version, on disks that work.
Versions == [initial |-> {v0}, ops |-> {v1, w1, w2, x1}, faults |-> 0,
             crash |-> {}, lapse |-> {}]

\* A batch DELETE, which takes no lock.
Batches == [initial |-> {w0}, ops |-> {w1, b1}, faults |-> 0,
            crash |-> {}, lapse |-> {"staging"}]

AllScenarios == {Faults(w1), Faults(w2), Lapses, Crashes, Versions, Batches}

\* A versioned PUT on a set with a failing disk.
UndoScenario == {[initial |-> {v0}, ops |-> {v1}, faults |-> 1,
                  crash |-> {}, lapse |-> {}]}
===============================================================================
