---------------------------- MODULE MCLedgerFile ----------------------------
(***************************************************************************)
(* Small instances of LedgerFile: two processes, of one release or of two, *)
(* over no ledger, one of the first release or a database of others.       *)
(***************************************************************************)
EXTENDS LedgerFile

CONSTANTS p1, p2

Installed == {[p \in Procs |-> IF p = p1 THEN n ELSE 2] : n \in {1, 2}}

Found == {NoFile, Content(Nobody, 1, FALSE, {}), Content(Nobody, 0, TRUE, {})}
=============================================================================
