-------------------------- MODULE MCPreparePipeline --------------------------
(***************************************************************************)
(* Small instances of PreparePipeline: one source and one destination, two *)
(* preparers, two requests of which one fails on some source.              *)
(***************************************************************************)
EXTENDS PreparePipeline, TLC

CONSTANTS a, b, q1, q2

Editing == [q \in Requests |->
               IF q = q1 THEN a :> b @@ b :> a ELSE a :> a @@ b :> Null]

Expecting == [q \in Requests |-> IF q = q1 THEN a ELSE Null]

Digests == Contents \cup {Absent} \cup Requests
               \cup [source : Contents, plan : Requests, candidate : Contents]

(* Candidate b and its diff leave no room for failure evidence.             *)
Measured == a :> 1 @@ b :> 3 @@ "diff" :> 1 @@ "failure_evidence" :> 1

(* The source is document a, until another program changes it.             *)
FromA == Init /\ source.body = a

(* Readers change nothing, so that one at a time shows all they can see. A  *)
(* file that changes before there is a run might as well change before its  *)
(* snapshot, and one that changes after the run has ended is not looked at. *)
Reading == {s \in Readers : pc[s] \in {"effective", "look", "told", "accused"}}

OneReads == Cardinality(Reading') <= 1
ChangesMatter ==
    changes' > changes => \E r \in Runs : state[r] \in {"preparing"} \cup PreparedStates

CallsSpec == FromA /\ [][Next /\ OneReads /\ ChangesMatter]_vars

Symmetric == Permutations(Preparers)
=============================================================================
