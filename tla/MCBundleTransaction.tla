------------------------ MODULE MCBundleTransaction ------------------------
(* Small instances of BundleTransaction for TLC.                             *)
EXTENDS BundleTransaction, TLC

CONSTANTS t1, t2, p1, p2, clip, cut, src0, src1, src2, other

(* Both attempts produce the same document with a sidecar of their own, as   *)
(* a repeated request does; the pair they replace has another document.      *)
SameDocument == [t \in Txns |-> <<clip, IF t = t1 THEN src1 ELSE src2>>]
OldPair == <<cut, src0>>
NoPair == <<Absent, Absent>>
Starts == {OldPair, NoPair}

(* The instance is one the proofs are about.                                 *)
ASSUME InstanceAssumption == SidecarsTell /\ Fresh /\ ForeignIsForeign

ProcSymmetry == Permutations(Procs)

=============================================================================
