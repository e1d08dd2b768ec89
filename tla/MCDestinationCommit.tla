------------------------ MODULE MCDestinationCommit ------------------------
(* Small instances of DestinationCommit for TLC.                             *)
EXTENDS DestinationCommit, TLC

CONSTANTS r1, r2, r3, c1, c2, w1, w2, old, new1, new2, other

(* Both runs were prepared against the same file.                            *)
SamePrior == [r \in Runs |-> old]
(* The third run was prepared against what the first will install, and       *)
(* restores the original.                                                    *)
UndoPrior == [r \in Runs |-> IF r = r3 THEN new1 ELSE old]
UndoCandidate == [r \in Runs |->
    CASE r = r1 -> new1 [] r = r2 -> new2 [] r = r3 -> old]
OwnCandidate == [r \in Runs |-> IF r = r1 THEN new1 ELSE new2]
AllValues == Contents \cup {Absent} \cup Procs

ProcSymmetry == Permutations(Committers) \cup Permutations(Reconcilers)

=============================================================================
