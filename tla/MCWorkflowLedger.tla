-------------------------- MODULE MCWorkflowLedger --------------------------
(* Small instances of WorkflowLedger for TLC.                                *)
EXTENDS WorkflowLedger, TLC

ValueAndKeySymmetry ==
    {f @@ g : f \in Permutations(Values), g \in Permutations(Keys)}

=============================================================================
