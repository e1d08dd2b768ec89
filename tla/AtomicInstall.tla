--------------------------- MODULE AtomicInstall ---------------------------
(***************************************************************************)
(* What a transactional commit promises, without locks, processes or       *)
(* files beside the destination: each run moves the destination from       *)
(* exactly the content it was approved against to exactly its candidate,   *)
(* or puts it back, and the outcome it is given tells which.               *)
(***************************************************************************)
CONSTANTS Runs, Prior, Candidate

VARIABLES
    phase,    \* open, begun, committed, rolled_back, recovery_required or closed
    target    \* the destination

abstractVars == <<phase, target>>

Become(r, to) == phase' = [phase EXCEPT ![r] = to]

(* The run ends without having touched the destination.                      *)
Close(r) == phase[r] = "open" /\ Become(r, "closed") /\ UNCHANGED target

(* The approval is consumed, once, with the destination as approved.         *)
Begin(r) ==
    /\ phase[r] = "open"
    /\ target = Prior[r]
    /\ Become(r, "begun")
    /\ UNCHANGED target

Install(r) ==
    /\ phase[r] = "begun"
    /\ target = Prior[r]
    /\ target' = Candidate[r]
    /\ UNCHANGED phase

Undo(r) ==
    /\ phase[r] = "begun"
    /\ target = Candidate[r]
    /\ target' = Prior[r]
    /\ UNCHANGED phase

(* Committed and rolled back say what is at the destination at that moment;  *)
(* recovery_required claims nothing.                                         *)
Resolve(r, outcome) ==
    /\ phase[r] = "begun"
    /\ outcome = "committed" => target = Candidate[r]
    /\ outcome = "rolled_back" => target = Prior[r]
    /\ Become(r, outcome)
    /\ UNCHANGED target

AbstractInit ==
    /\ phase = [r \in Runs |-> "open"]
    /\ target \in {Prior[r] : r \in Runs}

AbstractNext ==
    \E r \in Runs :
        \/ Close(r) \/ Begin(r) \/ Install(r) \/ Undo(r)
        \/ \E o \in {"committed", "rolled_back", "recovery_required"} : Resolve(r, o)

AbstractSpec == AbstractInit /\ [][AbstractNext]_abstractVars

=============================================================================
