------------------------ MODULE WorkflowLedgerProofs ------------------------
(***************************************************************************)
(* What the run ledger guarantees for every number of runs, keys and       *)
(* digests, every time to live and every bound on time and revisions.      *)
(*                                                                         *)
(* Every mutation but the creation of a run passes Cas and then Advance;   *)
(* the lemmas say once what these two do to the row, and each theorem then *)
(* looks at what is particular to an action.                               *)
(***************************************************************************)
EXTENDS WorkflowLedger, TLAPS

-----------------------------------------------------------------------------
(* Lemmas.                                                                   *)

(* An advance of a run that was matched keeps the types of the columns it    *)
(* writes: the revision bound is respected because Cas holds.                *)
LEMMA AdvanceTypes ==
    ASSUME LedgerTypeOK, NEW r \in Runs, NEW s, NEW v, NEW to \in States,
           NEW type \in EventTypes, Cas(r, s, v), Advance(r, to, type)
    PROVE  /\ state' \in [Runs -> States \cup {Null}]
           /\ revision' \in [Runs -> 0..MaxRevision]
           /\ tail' \in [Runs -> [sequence : Nat, type : EventTypes \cup {Null}]]
BY LedgerAssumption DEF LedgerTypeOK, Cas, Advance

(* What an advance leaves of the other rows, and what it makes of its own.   *)
LEMMA AdvanceRows ==
    ASSUME LedgerTypeOK, NEW r \in Runs, NEW to, NEW type, Advance(r, to, type)
    PROVE  /\ state'[r] = to
           /\ revision'[r] = revision[r] + 1
           /\ tail'[r].sequence = tail[r].sequence + 1
           /\ tail'[r].type = type
           /\ \A q \in Runs \ {r} : /\ state'[q] = state[q]
                                   /\ revision'[q] = revision[q]
                                   /\ tail'[q] = tail[q]
BY DEF LedgerTypeOK, Advance

-----------------------------------------------------------------------------
(* Types.                                                                    *)

(* The named types keep the obligations small.                               *)
ExpiryType == 0..(MaxTime + Ttl)
EvidenceType == [Fields -> Values \cup {Null}]

(* A binding is typed when the run it is taken from is.                      *)
LEMMA BindingTyped ==
    ASSUME LedgerTypeOK, NEW r \in Runs
    PROVE  Binding(r) \in BindingType
BY DEF LedgerTypeOK, Binding, BindingType

(* No step of the ledger leaves its types.                                   *)
LEMMA TypesKept ==
    LedgerTypeOK /\ [LedgerNext]_ledgerVars => LedgerTypeOK'
<1> SUFFICES ASSUME LedgerTypeOK, [LedgerNext]_ledgerVars
             PROVE  LedgerTypeOK'
  OBVIOUS
<1>1. CASE UNCHANGED ledgerVars
  BY <1>1 DEF ledgerVars, LedgerTypeOK, ApprovalType, BindingType
<1>2. CASE Tick
  BY <1>2, LedgerAssumption DEF Tick, LedgerTypeOK, ApprovalType, BindingType
<1>3. ASSUME NEW r \in Runs, CreateStep(r)
      PROVE  LedgerTypeOK'
  <2>1. ASSUME InsertRun(r),
               keys' \in [Keys -> [request : Requests, run : Runs] \cup {Null}]
        PROVE  LedgerTypeOK'
    BY <2>1, LedgerAssumption
    DEF InsertRun, LedgerTypeOK, ApprovalType, BindingType, States, EventTypes
  <2>2. CASE CreateRun(r)
    BY <2>1, <2>2 DEF CreateRun, LedgerTypeOK
  <2>3. ASSUME NEW k \in Keys, NEW q \in Requests, CreateKeyedRun(r, k, q)
        PROVE  LedgerTypeOK'
    BY <2>1, <2>3 DEF CreateKeyedRun, LedgerTypeOK
  <2> QED BY <1>3, <2>2, <2>3 DEF CreateStep
<1>4. ASSUME NEW r \in Runs, NEW s \in States, NEW v \in 1..MaxRevision,
             \/ PrepareStep(r, s, v) \/ DecisionStep(r, s, v)
             \/ CommitStep(r, s, v) \/ MaintenanceStep(r, s, v)
      PROVE  LedgerTypeOK'
  <2>1. ASSUME NEW to \in States, NEW type \in EventTypes,
               Cas(r, s, v), Advance(r, to, type),
               evidence' \in [Runs -> EvidenceType],
               rows' \in [Runs -> SUBSET Kinds],
               approval' \in [Runs -> ApprovalType],
               expires' \in [Runs -> ExpiryType],
               receipt' \in [Runs -> Values \cup {Null}],
               keys' \in [Keys -> [request : Requests, run : Runs] \cup {Null}],
               UNCHANGED now
        PROVE  LedgerTypeOK'
    <3>1. /\ state' \in [Runs -> States \cup {Null}]
          /\ revision' \in [Runs -> 0..MaxRevision]
          /\ tail' \in [Runs -> [sequence : Nat, type : EventTypes \cup {Null}]]
      BY <2>1, AdvanceTypes
    <3> QED BY <2>1, <3>1 DEF LedgerTypeOK, ApprovalType, BindingType,
                             ExpiryType, EvidenceType
  <2>2. ASSUME NEW to \in States, NEW type \in EventTypes,
               Transition(r, s, v, to, type)
        PROVE  LedgerTypeOK'
    BY <2>1, <2>2 DEF Transition, LedgerTypeOK, EvidenceType, ExpiryType
  <2>3. ASSUME NEW type \in EventTypes, NEW fs, NEW x,
               \A f \in Fields : f \in fs => x[f] \in Values \cup {Null},
               AppendEvidence(r, s, v, type, fs, x)
        PROVE  LedgerTypeOK'
    <3>1. evidence' \in [Runs -> EvidenceType]
      BY <2>3 DEF AppendEvidence, LedgerTypeOK, EvidenceType
    <3> QED BY <2>1, <2>3, <3>1
            DEF AppendEvidence, LedgerTypeOK, EvidenceType, ExpiryType, States
  <2>4. CASE PrepareStep(r, s, v)
    <3>1. ASSUME NEW x \in [{"source", "prior"} -> Values], SourceInspected(r, s, v, x)
          PROVE  LedgerTypeOK'
      BY <2>3, <3>1 DEF SourceInspected, EventTypes
    <3>2. ASSUME NEW x \in [{"plan"} -> Values], PlanNormalized(r, s, v, x)
          PROVE  LedgerTypeOK'
      BY <2>3, <3>2 DEF PlanNormalized, EventTypes
    <3>3. CASE DryRunCompleted(r, s, v)
      BY <2>3, <3>3 DEF DryRunCompleted, EventTypes
    <3>4. ASSUME NEW kind \in {"candidate", "diff"}, NEW x \in [{kind} -> Values],
                 RecordArtifact(r, s, v, kind, x)
          PROVE  LedgerTypeOK'
      <4>1. evidence' \in [Runs -> EvidenceType]
        BY <3>4 DEF RecordArtifact, LedgerTypeOK, EvidenceType, Fields
      <4>2. rows' \in [Runs -> SUBSET Kinds]
        BY <3>4 DEF RecordArtifact, LedgerTypeOK, Kinds
      <4> QED BY <2>1, <3>4, <4>1, <4>2
              DEF RecordArtifact, LedgerTypeOK, ExpiryType, States, EventTypes
    <3>5. CASE PreviewPersisted(r, s, v)
      <4>1. expires' \in [Runs -> ExpiryType]
        BY <3>5, LedgerAssumption DEF PreviewPersisted, LedgerTypeOK, ExpiryType
      <4> QED BY <2>1, <3>5, <4>1
              DEF PreviewPersisted, LedgerTypeOK, EvidenceType, States, EventTypes
    <3>6. CASE AwaitApproval(r, s, v)
      BY <2>2, <3>6 DEF AwaitApproval, States, EventTypes
    <3>7. CASE RecordPrepareFailure(r, s, v)
      <4>1. rows' \in [Runs -> SUBSET Kinds]
        BY <3>7 DEF RecordPrepareFailure, LedgerTypeOK, Kinds
      <4> QED BY <2>1, <3>7, <4>1
              DEF RecordPrepareFailure, LedgerTypeOK, EvidenceType, ExpiryType,
                  States, EventTypes, Terminal
    <3>8. CASE ReconcilePreparing(r, s, v)
      BY <2>2, <3>8 DEF ReconcilePreparing, States, EventTypes, Terminal
    <3> QED BY <2>4, <3>1, <3>2, <3>3, <3>4, <3>5, <3>6, <3>7, <3>8 DEF PrepareStep
  <2>5. ASSUME NEW decision \in {"approved", "rejected"}
        PROVE  [approval EXCEPT ![r] = [decision |-> decision, binding |-> Binding(r)]]
                  \in [Runs -> ApprovalType]
    BY BindingTyped DEF LedgerTypeOK, ApprovalType
  <2>6. CASE DecisionStep(r, s, v)
    <3>1. CASE RecordApprovalOrExpire(r, s, v)
      <4>1. approval' \in [Runs -> ApprovalType]
        BY <2>5, <3>1 DEF RecordApprovalOrExpire, LedgerTypeOK
      <4> QED BY <2>1, <3>1, <4>1
              DEF RecordApprovalOrExpire, LedgerTypeOK, EvidenceType, ExpiryType,
                  States, EventTypes, Terminal
    <3>2. CASE Reject(r, s, v)
      <4>1. approval' \in [Runs -> ApprovalType]
        BY <2>5, <3>2 DEF Reject
      <4> QED BY <2>1, <3>2, <4>1
              DEF Reject, LedgerTypeOK, EvidenceType, ExpiryType,
                  States, EventTypes, Terminal
    <3>3. CASE Cancel(r, s, v)
      BY <2>2, <3>3 DEF Cancel, States, EventTypes, Terminal
    <3> QED BY <2>6, <3>1, <3>2, <3>3 DEF DecisionStep
  <2>7. CASE CommitStep(r, s, v)
    <3>1. ASSUME NEW staged, RecordCommitIntent(r, s, v, staged)
          PROVE  LedgerTypeOK'
      <4>1. approval' \in [Runs -> ApprovalType]
        BY <2>5, <3>1 DEF RecordCommitIntent
      <4> QED BY <2>1, <3>1, <4>1
              DEF RecordCommitIntent, CanRecordIntent, LedgerTypeOK, EvidenceType,
                  ExpiryType, States, EventTypes
    <3>2. CASE MarkStale(r, s, v)
      BY <2>2, <3>2 DEF MarkStale, States, EventTypes, Terminal
    <3>3. ASSUME NEW dest \in Values, NEW body \in Values,
                 RecordCommitFinalized(r, s, v, dest, body)
          PROVE  LedgerTypeOK'
      <4>1. rows' \in [Runs -> SUBSET Kinds]
        BY <3>3 DEF RecordCommitFinalized, LedgerTypeOK, Kinds
      <4>2. receipt' \in [Runs -> Values \cup {Null}]
        BY <3>3 DEF RecordCommitFinalized, LedgerTypeOK
      <4> QED BY <2>1, <3>3, <4>1, <4>2
              DEF RecordCommitFinalized, LedgerTypeOK, EvidenceType, ExpiryType,
                  States, EventTypes, Terminal
    <3>4. CASE MarkRolledBack(r, s, v)
      BY <2>2, <3>4 DEF MarkRolledBack, States, EventTypes, Terminal
    <3>5. CASE MarkRecoveryRequired(r, s, v)
      BY <2>2, <3>5 DEF MarkRecoveryRequired, States, EventTypes, Terminal
    <3>6. CASE OrphanLockCleared(r, s, v)
      BY <2>1, <3>6
      DEF OrphanLockCleared, LedgerTypeOK, EvidenceType, ExpiryType, States, EventTypes
    <3> QED BY <2>7, <3>1, <3>2, <3>3, <3>4, <3>5, <3>6 DEF CommitStep
  <2>8. CASE MaintenanceStep(r, s, v)
    <3>1. ASSUME NEW k \in Keys, NEW q \in Requests, ReserveKey(r, s, v, k, q)
          PROVE  LedgerTypeOK'
      <4>1. keys' \in [Keys -> [request : Requests, run : Runs] \cup {Null}]
        BY <3>1 DEF ReserveKey, LedgerTypeOK
      <4> QED BY <2>1, <3>1, <4>1
              DEF ReserveKey, LedgerTypeOK, EvidenceType, ExpiryType, States, EventTypes
    <3>2. ASSUME NEW type \in TerminalAudits, PruneAudit(r, s, v, type)
          PROVE  LedgerTypeOK'
      BY <2>1, <3>2
      DEF PruneAudit, LedgerTypeOK, EvidenceType, ExpiryType, TerminalAudits, EventTypes
    <3> QED BY <2>8, <3>1, <3>2 DEF MaintenanceStep
  <2> QED BY <1>4, <2>4, <2>6, <2>7, <2>8
<1> QED BY <1>1, <1>2, <1>3, <1>4 DEF LedgerNext

(* Every step of the ledger keeps the columns of its tables typed, with the  *)
(* revision and the clock inside their bounds and every stored approval a    *)
(* complete one: the model's state space is what the schema allows.          *)
THEOREM TypeCorrect == LedgerSpec => []LedgerTypeOK
<1>1. LedgerInit => LedgerTypeOK
  BY LedgerAssumption DEF LedgerInit, LedgerTypeOK, NoApproval, ApprovalType, NoExpiry
<1>2. LedgerTypeOK /\ [LedgerNext]_ledgerVars => LedgerTypeOK'
  BY TypesKept
<1> QED BY <1>1, <1>2, PTL DEF LedgerSpec

-----------------------------------------------------------------------------
(* The shape of every step.                                                  *)

Columns(q) == <<evidence[q], rows[q], approval[q], expires[q], receipt[q]>>

Edge(r, s, to) ==
    \/ s = to
    \/ <<s, to>> \in LegalTransitions
    \/ r \in ClientRuns /\ s = "awaiting_approval" /\ to = "committing"

(* A mutation of an existing run: matched on a live state, one event whose   *)
(* type tells the new state, and no other run touched.                       *)
RowStep(r) ==
    /\ \E s \in States \ Terminal, v \in 1..MaxRevision, to \in States,
          type \in EventTypes :
          /\ Cas(r, s, v)
          /\ Advance(r, to, type)
          /\ type \notin TerminalAudits
          /\ StateAfter[type] = to
          /\ Edge(r, s, to)
    /\ \A q \in Runs \ {r} : Columns(q)' = Columns(q)
    /\ \A k \in Keys : keys[k] # Null => keys'[k] = keys[k]
    /\ UNCHANGED now

(* StateAfter of the events the actions append.                              *)
LEMMA EventStates ==
    /\ \A t \in {"source_inspected", "plan_normalized", "dry_run_completed",
                 "candidate_validated", "diff_created", "preview_persisted",
                 "idempotency_reserved"} :
          StateAfter[t] = "preparing"
    /\ StateAfter["run_created"] = "preparing"
    /\ StateAfter["awaiting_approval"] = "awaiting_approval"
    /\ StateAfter["failed"] = "failed"
    /\ StateAfter["prepare_reconciled_failed"] = "failed"
    /\ StateAfter["approval_recorded"] = "approved"
    /\ StateAfter["approval_expired"] = "expired"
    /\ StateAfter["approval_rejected"] = "rejected"
    /\ StateAfter["cancelled"] = "cancelled"
    /\ StateAfter["commit_precondition_stale"] = "stale"
    /\ StateAfter["commit_started"] = "committing"
    /\ StateAfter["committed"] = "committed"
    /\ StateAfter["commit_reconciled_rolled_back"] = "rolled_back"
    /\ StateAfter["commit_recovery_required"] = "recovery_required"
    /\ StateAfter["orphan_lock_cleared"] = "approved"
    /\ StateAfter[Null] = Null
    /\ Null \notin TerminalAudits
BY LedgerAssumption DEF StateAfter, EventTypes, TerminalAudits

(* No edge of the table leaves a terminal state.                             *)
LEMMA NoEdgeFromTerminal ==
    ASSUME NEW s, NEW to, <<s, to>> \in LegalTransitions
    PROVE  s \in States \ Terminal
BY DEF LegalTransitions, States, Terminal

(* A transition with an empty projection patch is a row step.                *)
LEMMA TransitionShape ==
    ASSUME LedgerTypeOK, NEW r \in Runs, NEW s, NEW v \in 1..MaxRevision,
           NEW to \in States, NEW type \in EventTypes,
           type \notin TerminalAudits, StateAfter[type] = to,
           Transition(r, s, v, to, type)
    PROVE  RowStep(r)
BY NoEdgeFromTerminal DEF Transition, RowStep, Edge, Columns

(* So is an action that advances a run matched on a live state and writes no *)
(* other run's columns.                                                      *)
LEMMA AdvanceShape ==
    ASSUME NEW r \in Runs, NEW s \in States \ Terminal, NEW v \in 1..MaxRevision,
           NEW to \in States, NEW type \in EventTypes,
           Cas(r, s, v), Advance(r, to, type),
           type \notin TerminalAudits, StateAfter[type] = to, Edge(r, s, to),
           \A q \in Runs \ {r} : Columns(q)' = Columns(q),
           \A k \in Keys : keys[k] # Null => keys'[k] = keys[k],
           UNCHANGED now
    PROVE  RowStep(r)
BY DEF RowStep

(* Every mutation of an existing run is a row step.                          *)
LEMMA MutationShape ==
    ASSUME LedgerTypeOK, NEW r \in Runs, NEW s \in States, NEW v \in 1..MaxRevision,
           PrepareStep(r, s, v) \/ DecisionStep(r, s, v) \/ CommitStep(r, s, v)
    PROVE  RowStep(r)
<1> USE EventStates DEF TerminalAudits
<1>1. CASE PrepareStep(r, s, v)
  <2>1. ASSUME NEW type \in EventTypes \ TerminalAudits,
               StateAfter[type] = "preparing",
               NEW fs, NEW x, AppendEvidence(r, s, v, type, fs, x)
        PROVE  RowStep(r)
    <3>1. \A q \in Runs \ {r} : Columns(q)' = Columns(q)
      BY <2>1 DEF AppendEvidence, LedgerTypeOK, Columns
    <3> QED BY <2>1, <3>1, AdvanceShape DEF AppendEvidence, Edge, States, Terminal
  <2>2. ASSUME NEW x, SourceInspected(r, s, v, x)  PROVE RowStep(r)
    BY <2>1, <2>2 DEF SourceInspected, EventTypes
  <2>3. ASSUME NEW x, PlanNormalized(r, s, v, x)  PROVE RowStep(r)
    BY <2>1, <2>3 DEF PlanNormalized, EventTypes
  <2>4. CASE DryRunCompleted(r, s, v)
    BY <2>1, <2>4 DEF DryRunCompleted, EventTypes
  <2>5. ASSUME NEW kind, NEW x, RecordArtifact(r, s, v, kind, x)  PROVE RowStep(r)
    <3>1. \A q \in Runs \ {r} : Columns(q)' = Columns(q)
      BY <2>5 DEF RecordArtifact, LedgerTypeOK, Columns
    <3> QED BY <2>5, <3>1, AdvanceShape
            DEF RecordArtifact, Edge, States, Terminal, EventTypes
  <2>6. CASE PreviewPersisted(r, s, v)
    <3>1. \A q \in Runs \ {r} : Columns(q)' = Columns(q)
      BY <2>6 DEF PreviewPersisted, LedgerTypeOK, Columns
    <3> QED BY <2>6, <3>1, AdvanceShape
            DEF PreviewPersisted, Edge, States, Terminal, EventTypes
  <2>7. CASE AwaitApproval(r, s, v)
    BY <2>7, TransitionShape DEF AwaitApproval, States, EventTypes
  <2>8. CASE RecordPrepareFailure(r, s, v)
    <3>1. \A q \in Runs \ {r} : Columns(q)' = Columns(q)
      BY <2>8 DEF RecordPrepareFailure, LedgerTypeOK, Columns
    <3> QED BY <2>8, <3>1, AdvanceShape
            DEF RecordPrepareFailure, Edge, LegalTransitions, States, Terminal, EventTypes
  <2>9. CASE ReconcilePreparing(r, s, v)
    BY <2>9, TransitionShape DEF ReconcilePreparing, States, Terminal, EventTypes
  <2> QED BY <1>1, <2>2, <2>3, <2>4, <2>5, <2>6, <2>7, <2>8, <2>9 DEF PrepareStep
<1>2. CASE DecisionStep(r, s, v)
  <2>1. CASE RecordApprovalOrExpire(r, s, v)
    <3>1. \A q \in Runs \ {r} : Columns(q)' = Columns(q)
      BY <2>1 DEF RecordApprovalOrExpire, LedgerTypeOK, Columns
    <3> QED BY <2>1, <3>1, AdvanceShape
            DEF RecordApprovalOrExpire, Edge, LegalTransitions, States, Terminal, EventTypes
  <2>2. CASE Reject(r, s, v)
    <3>1. \A q \in Runs \ {r} : Columns(q)' = Columns(q)
      BY <2>2 DEF Reject, LedgerTypeOK, Columns
    <3> QED BY <2>2, <3>1, AdvanceShape, NoEdgeFromTerminal
            DEF Reject, Edge, States, Terminal, EventTypes
  <2>3. CASE Cancel(r, s, v)
    BY <2>3, TransitionShape DEF Cancel, States, Terminal, EventTypes
  <2> QED BY <1>2, <2>1, <2>2, <2>3 DEF DecisionStep
<1>3. CASE CommitStep(r, s, v)
  <2>1. ASSUME NEW staged, RecordCommitIntent(r, s, v, staged)  PROVE RowStep(r)
    <3>1. \A q \in Runs \ {r} : Columns(q)' = Columns(q)
      BY <2>1 DEF RecordCommitIntent, LedgerTypeOK, Columns
    <3>2. Edge(r, s, "committing") /\ s \in States \ Terminal
      BY <2>1 DEF RecordCommitIntent, CanRecordIntent, CommitState, Edge,
                  LegalTransitions, States, Terminal
    <3> QED BY <2>1, <3>1, <3>2, AdvanceShape
            DEF RecordCommitIntent, CanRecordIntent, States, EventTypes
  <2>2. CASE MarkStale(r, s, v)
    BY <2>2, TransitionShape DEF MarkStale, States, Terminal, EventTypes
  <2>3. ASSUME NEW dest, NEW body, RecordCommitFinalized(r, s, v, dest, body)
        PROVE  RowStep(r)
    <3>1. \A q \in Runs \ {r} : Columns(q)' = Columns(q)
      BY <2>3 DEF RecordCommitFinalized, LedgerTypeOK, Columns
    <3> QED BY <2>3, <3>1, AdvanceShape
            DEF RecordCommitFinalized, Edge, LegalTransitions, States, Terminal, EventTypes
  <2>4. CASE MarkRolledBack(r, s, v)
    BY <2>4, TransitionShape DEF MarkRolledBack, States, Terminal, EventTypes
  <2>5. CASE MarkRecoveryRequired(r, s, v)
    BY <2>5, TransitionShape DEF MarkRecoveryRequired, States, Terminal, EventTypes
  <2>6. CASE OrphanLockCleared(r, s, v)
    BY <2>6, AdvanceShape
    DEF OrphanLockCleared, Columns, Edge, States, Terminal, EventTypes
  <2> QED BY <1>3, <2>1, <2>2, <2>3, <2>4, <2>5, <2>6 DEF CommitStep
<1> QED BY <1>1, <1>2, <1>3

(* So is the late reservation of a key: the key was free.                    *)
LEMMA ReserveShape ==
    ASSUME LedgerTypeOK, NEW r \in Runs, NEW s \in States, NEW v \in 1..MaxRevision,
           NEW k \in Keys, NEW q, ReserveKey(r, s, v, k, q)
    PROVE  RowStep(r)
<1>1. /\ "preparing" \in States \ Terminal
      /\ "idempotency_reserved" \in EventTypes \ TerminalAudits
      /\ StateAfter["idempotency_reserved"] = "preparing"
  BY EventStates DEF States, Terminal, EventTypes, TerminalAudits
<1>2. \A j \in Keys : keys[j] # Null => keys'[j] = keys[j]
  BY DEF ReserveKey, LedgerTypeOK
<1>3. \A p \in Runs \ {r} : Columns(p)' = Columns(p)
  BY DEF ReserveKey, Columns
<1> QED BY <1>1, <1>2, <1>3, AdvanceShape DEF ReserveKey, Edge

(* Every step is a tick, the creation of a run, a row step or an audit event *)
(* on a terminal run.                                                        *)
LEMMA StepShape ==
    ASSUME LedgerTypeOK, LedgerNext
    PROVE  \/ Tick
           \/ \E r \in Runs : CreateStep(r) \/ RowStep(r)
           \/ \E r \in Runs, s \in States, v \in 1..MaxRevision, type \in TerminalAudits :
                 PruneAudit(r, s, v, type)
<1>1. ASSUME NEW r \in Runs, NEW s \in States, NEW v \in 1..MaxRevision,
             MaintenanceStep(r, s, v)
      PROVE  RowStep(r) \/ \E type \in TerminalAudits : PruneAudit(r, s, v, type)
  BY <1>1, ReserveShape DEF MaintenanceStep
<1> QED BY <1>1, MutationShape DEF LedgerNext

(* An audit event touches the tail and the revision of one row, and no more. *)
LEMMA PruneShape ==
    ASSUME LedgerTypeOK, NEW r \in Runs, NEW s \in States, NEW v,
           NEW type \in TerminalAudits, PruneAudit(r, s, v, type)
    PROVE  /\ state[r] \in PruneEligible
           /\ state' = state
           /\ tail'[r].type = type
           /\ tail'[r].sequence = tail[r].sequence + 1
           /\ revision'[r] = revision[r] + 1
           /\ \A q \in Runs \ {r} : revision'[q] = revision[q] /\ tail'[q] = tail[q]
<1>1. Advance(r, s, type) /\ state[r] = s /\ s \in PruneEligible
  BY DEF PruneAudit, Cas
<1>2. state' = state
  BY <1>1 DEF Advance, LedgerTypeOK
<1> QED BY <1>1, <1>2, AdvanceRows

-----------------------------------------------------------------------------
(* Row and chain.                                                            *)

(* Every step keeps the row and the chain together.                          *)
LEMMA ChainKept ==
    LedgerTypeOK /\ RowMatchesChain /\ [LedgerNext]_ledgerVars => RowMatchesChain'
<1> SUFFICES ASSUME LedgerTypeOK, RowMatchesChain, [LedgerNext]_ledgerVars
             PROVE  RowMatchesChain'
  OBVIOUS
<1>1. CASE UNCHANGED ledgerVars
  BY <1>1 DEF ledgerVars, RowMatchesChain
<1>2. CASE Tick
  BY <1>2 DEF Tick, RowMatchesChain
<1>3. ASSUME NEW r \in Runs, CreateStep(r)
      PROVE  RowMatchesChain'
  <2>1. "run_created" \notin TerminalAudits /\ StateAfter["run_created"] = "preparing"
    BY EventStates DEF TerminalAudits
  <2>2. /\ state'[r] = "preparing" /\ revision'[r] = 1
        /\ tail'[r].sequence = 1 /\ tail'[r].type = "run_created"
        /\ \A q \in Runs \ {r} : /\ state'[q] = state[q]
                                /\ revision'[q] = revision[q]
                                /\ tail'[q] = tail[q]
    BY <1>3 DEF CreateStep, CreateRun, CreateKeyedRun, InsertRun, LedgerTypeOK
  <2>3. ASSUME NEW q \in Runs
        PROVE  /\ tail'[q].sequence = revision'[q]
               /\ IF tail'[q].type \in TerminalAudits
                  THEN state'[q] \in PruneEligible
                  ELSE state'[q] = StateAfter[tail'[q].type]
    BY <2>1, <2>2 DEF RowMatchesChain
  <2> QED BY <2>3 DEF RowMatchesChain
<1>4. ASSUME NEW r \in Runs, RowStep(r)
      PROVE  RowMatchesChain'
  <2>1. PICK s \in States \ Terminal, v \in 1..MaxRevision, to \in States,
             type \in EventTypes : /\ Advance(r, to, type)
                                   /\ type \notin TerminalAudits
                                   /\ StateAfter[type] = to
    BY <1>4 DEF RowStep
  <2>2. /\ state'[r] = to
        /\ revision'[r] = revision[r] + 1
        /\ tail'[r].sequence = tail[r].sequence + 1
        /\ tail'[r].type = type
        /\ \A q \in Runs \ {r} : /\ state'[q] = state[q]
                                /\ revision'[q] = revision[q]
                                /\ tail'[q] = tail[q]
    BY <2>1, AdvanceRows
  <2>3. ASSUME NEW q \in Runs
        PROVE  /\ tail'[q].sequence = revision'[q]
               /\ IF tail'[q].type \in TerminalAudits
                  THEN state'[q] \in PruneEligible
                  ELSE state'[q] = StateAfter[tail'[q].type]
    BY <2>1, <2>2 DEF RowMatchesChain
  <2> QED BY <2>3 DEF RowMatchesChain
<1>5. ASSUME NEW r \in Runs, NEW s \in States, NEW v \in 1..MaxRevision,
             NEW type \in TerminalAudits, PruneAudit(r, s, v, type)
      PROVE  RowMatchesChain'
  <2>1. ASSUME NEW q \in Runs
        PROVE  /\ tail'[q].sequence = revision'[q]
               /\ IF tail'[q].type \in TerminalAudits
                  THEN state'[q] \in PruneEligible
                  ELSE state'[q] = StateAfter[tail'[q].type]
    BY <1>5, PruneShape DEF RowMatchesChain
  <2> QED BY <2>1 DEF RowMatchesChain
<1> QED BY <1>1, <1>2, <1>3, <1>4, <1>5, StepShape

(* The projected row and the event chain agree at every step of every run:   *)
(* the revision is the sequence of the last event and the state is the one   *)
(* that event implies, as verify_integrity demands of a ledger.              *)
THEOREM RowAndChainAgree == LedgerSpec => []RowMatchesChain
<1>1. LedgerInit => RowMatchesChain
  <2>1. StateAfter[Null] = Null /\ Null \notin TerminalAudits
    BY EventStates
  <2>2. ASSUME LedgerInit, NEW r \in Runs
        PROVE  tail[r] = [sequence |-> 0, type |-> Null] /\ revision[r] = 0 /\ state[r] = Null
    BY <2>2 DEF LedgerInit
  <2>3. ASSUME LedgerInit, NEW r \in Runs
        PROVE  tail[r].sequence = 0 /\ tail[r].type = Null
    BY <2>2, <2>3
  <2> QED BY <2>1, <2>2, <2>3 DEF RowMatchesChain
<1>2. LedgerTypeOK /\ RowMatchesChain /\ [LedgerNext]_ledgerVars => RowMatchesChain'
  BY ChainKept
<1> QED BY <1>1, <1>2, TypeCorrect, PTL DEF LedgerSpec

-----------------------------------------------------------------------------
(* Terminal rows.                                                            *)

(* A row step leaves alone every run it does not match, and a terminal run   *)
(* is never matched.                                                         *)
LEMMA RowStepLeavesTerminal ==
    ASSUME LedgerTypeOK, NEW r \in Runs, RowStep(r),
           NEW q \in Runs, state[q] \in Terminal
    PROVE  outcome(q)' = outcome(q) /\ tail'[q] = tail[q]
<1>1. PICK s \in States \ Terminal, v \in 1..MaxRevision, to \in States,
           type \in EventTypes : Cas(r, s, v) /\ Advance(r, to, type)
  BY DEF RowStep
<1>2. q # r
  BY <1>1 DEF Cas
<1>3. state'[q] = state[q] /\ revision'[q] = revision[q] /\ tail'[q] = tail[q]
  BY <1>1, <1>2, AdvanceRows
<1>4. Columns(q)' = Columns(q)
  BY <1>2 DEF RowStep
<1> QED BY <1>3, <1>4 DEF Columns, outcome

(* A run in a terminal state keeps its outcome for ever, its chain takes     *)
(* only pruning events, and a bound idempotency key keeps its run, whatever  *)
(* callers with old reads do.                                                *)
THEOREM TerminalRunsStay == LedgerSpec => TerminalIsFinal
<1> DEFINE Stays ==
      /\ \A r \in Runs : state[r] \in Terminal =>
            /\ outcome(r)' = outcome(r)
            /\ \/ tail'[r] = tail[r]
               \/ state[r] \in PruneEligible /\ tail'[r].type \in TerminalAudits
      /\ \A k \in Keys : keys[k] # Null => keys'[k] = keys[k]
<1>1. LedgerTypeOK /\ [LedgerNext]_ledgerVars => [Stays]_ledgerVars
  <2> SUFFICES ASSUME LedgerTypeOK, LedgerNext
               PROVE  Stays
    BY DEF ledgerVars
  <2>1. CASE Tick
    BY <2>1 DEF Tick, outcome
  <2>2. ASSUME NEW r \in Runs, CreateStep(r)
        PROVE  Stays
    <3>1. /\ state[r] = Null
          /\ \A q \in Runs \ {r} : outcome(q)' = outcome(q) /\ tail'[q] = tail[q]
      BY <2>2 DEF CreateStep, CreateRun, CreateKeyedRun, InsertRun, LedgerTypeOK, outcome
    <3>2. state[r] \notin Terminal
      BY <3>1, LedgerAssumption DEF States
    <3>3. \A k \in Keys : keys[k] # Null => keys'[k] = keys[k]
      BY <2>2 DEF CreateStep, CreateRun, CreateKeyedRun, InsertRun, LedgerTypeOK
    <3> QED BY <3>1, <3>2, <3>3
  <2>3. ASSUME NEW r \in Runs, RowStep(r)
        PROVE  Stays
    BY <2>3, RowStepLeavesTerminal DEF RowStep
  <2>4. ASSUME NEW r \in Runs, NEW s \in States, NEW v \in 1..MaxRevision,
               NEW type \in TerminalAudits, PruneAudit(r, s, v, type)
        PROVE  Stays
    <3>1. \A q \in Runs : outcome(q)' = outcome(q)
      BY <2>4, PruneShape DEF PruneAudit, outcome
    <3>2. UNCHANGED keys
      BY <2>4 DEF PruneAudit
    <3> QED BY <2>4, <3>1, <3>2, PruneShape
  <2> QED BY <2>1, <2>2, <2>3, <2>4, StepShape
<1> QED BY <1>1, TypeCorrect, PTL DEF LedgerSpec, TerminalIsFinal

(* Every change of a state is an edge of LEGAL_TRANSITIONS, or the client    *)
(* run's own edge to committing, though the record_* methods never ask.      *)
THEOREM StateMachineFollowed == LedgerSpec => FollowsStateMachine
<1> DEFINE Follows ==
      \A r \in Runs :
         \/ state'[r] = state[r]
         \/ state[r] = Null /\ state'[r] = "preparing"
         \/ <<state[r], state'[r]>> \in LegalTransitions
         \/ r \in ClientRuns /\ state[r] = "awaiting_approval"
               /\ state'[r] = "committing"
<1>1. LedgerTypeOK /\ [LedgerNext]_ledgerVars => [Follows]_ledgerVars
  <2> SUFFICES ASSUME LedgerTypeOK, LedgerNext
               PROVE  Follows
    BY DEF ledgerVars
  <2>1. CASE Tick
    BY <2>1 DEF Tick
  <2>2. ASSUME NEW r \in Runs, CreateStep(r)
        PROVE  Follows
    BY <2>2 DEF CreateStep, CreateRun, CreateKeyedRun, InsertRun, LedgerTypeOK
  <2>3. ASSUME NEW r \in Runs, RowStep(r)
        PROVE  Follows
    <3>1. PICK s \in States \ Terminal, v \in 1..MaxRevision, to \in States,
               type \in EventTypes :
                 Cas(r, s, v) /\ Advance(r, to, type) /\ Edge(r, s, to)
      BY <2>3 DEF RowStep
    <3>2. /\ state[r] = s /\ state'[r] = to
          /\ \A q \in Runs \ {r} : state'[q] = state[q]
      BY <3>1, AdvanceRows DEF Cas
    <3> QED BY <3>1, <3>2 DEF Edge
  <2>4. ASSUME NEW r \in Runs, NEW s \in States, NEW v \in 1..MaxRevision,
               NEW type \in TerminalAudits, PruneAudit(r, s, v, type)
        PROVE  Follows
    BY <2>4, PruneShape
  <2> QED BY <2>1, <2>2, <2>3, <2>4, StepShape
<1> QED BY <1>1, TypeCorrect, PTL DEF LedgerSpec, FollowsStateMachine

-----------------------------------------------------------------------------
(* Idempotency keys.                                                         *)

(* The steps of prepare, decision and commit leave the keys alone.           *)
LEMMA MutationKeepsKeys ==
    ASSUME NEW r, NEW s, NEW v,
           PrepareStep(r, s, v) \/ DecisionStep(r, s, v) \/ CommitStep(r, s, v)
    PROVE  UNCHANGED keys
BY DEF PrepareStep, DecisionStep, CommitStep, SourceInspected, PlanNormalized,
       DryRunCompleted, AppendEvidence, RecordArtifact, PreviewPersisted,
       AwaitApproval, RecordPrepareFailure, ReconcilePreparing, Transition,
       RecordApprovalOrExpire, Reject, Cancel, RecordCommitIntent, MarkStale,
       RecordCommitFinalized, MarkRolledBack, MarkRecoveryRequired,
       OrphanLockCleared

(* No step gives a run a second key, or a key to no run.                     *)
LEMMA KeysKept ==
    LedgerTypeOK /\ OneRunPerKey /\ [LedgerNext]_ledgerVars => OneRunPerKey'
<1> SUFFICES ASSUME LedgerTypeOK, OneRunPerKey, [LedgerNext]_ledgerVars
             PROVE  OneRunPerKey'
  OBVIOUS
<1>1. CASE UNCHANGED ledgerVars
  BY <1>1 DEF ledgerVars, OneRunPerKey
<1>2. CASE Tick
  BY <1>2 DEF Tick, OneRunPerKey
<1>3. ASSUME NEW r \in Runs, CreateStep(r)
      PROVE  OneRunPerKey'
  <2>1. state[r] = Null /\ state' = [state EXCEPT ![r] = "preparing"]
    BY <1>3 DEF CreateStep, CreateRun, CreateKeyedRun, InsertRun
  <2>2. "preparing" # Null
    BY LedgerAssumption DEF States
  <2>3. CASE CreateRun(r)
    BY <2>1, <2>2, <2>3 DEF CreateRun, OneRunPerKey, LedgerTypeOK
  <2>4. ASSUME NEW k \in Keys, NEW q \in Requests, CreateKeyedRun(r, k, q)
        PROVE  OneRunPerKey'
    <3>1. /\ keys' = [keys EXCEPT ![k] = [request |-> q, run |-> r]]
          /\ \A j \in Keys \ {k} : keys'[j] = keys[j]
          /\ keys'[k].run = r
      BY <2>4 DEF CreateKeyedRun, LedgerTypeOK
    <3>2. \A j \in Keys : keys[j] # Null => keys[j].run \in Runs \ {r}
      BY <2>1 DEF OneRunPerKey, LedgerTypeOK
    <3> QED BY <2>1, <2>2, <3>1, <3>2 DEF OneRunPerKey, LedgerTypeOK
  <2> QED BY <1>3, <2>3, <2>4 DEF CreateStep
<1>4. ASSUME NEW r \in Runs, NEW s \in States, NEW to \in States, NEW type,
             NEW v, Cas(r, s, v), Advance(r, to, type)
      PROVE  /\ state[r] # Null
             /\ \A q \in Runs : state[q] # Null => state'[q] # Null
  <2>1. state'[r] = to /\ \A q \in Runs \ {r} : state'[q] = state[q]
    BY <1>4, AdvanceRows
  <2> QED BY <1>4, <2>1, LedgerAssumption DEF Cas
<1>5. ASSUME NEW r \in Runs, NEW s \in States, NEW to \in States, NEW type,
             NEW v, Cas(r, s, v), Advance(r, to, type), UNCHANGED keys
      PROVE  OneRunPerKey'
  BY <1>4, <1>5 DEF OneRunPerKey, LedgerTypeOK
<1>6. ASSUME NEW r \in Runs, NEW s \in States, NEW v \in 1..MaxRevision,
             PrepareStep(r, s, v) \/ DecisionStep(r, s, v) \/ CommitStep(r, s, v)
      PROVE  OneRunPerKey'
  BY <1>5, <1>6, MutationShape, MutationKeepsKeys DEF RowStep
<1>7. ASSUME NEW r \in Runs, NEW s \in States, NEW v \in 1..MaxRevision,
             NEW k \in Keys, NEW q \in Requests, ReserveKey(r, s, v, k, q)
      PROVE  OneRunPerKey'
  <2>1. /\ state[r] # Null
        /\ \A p \in Runs : state[p] # Null => state'[p] # Null
    BY <1>4, <1>7 DEF ReserveKey, States
  <2>2. /\ keys'[k] = [request |-> q, run |-> r]
        /\ \A j \in Keys \ {k} : keys'[j] = keys[j]
        /\ \A j \in Keys : keys[j] # Null => keys[j].run \in Runs \ {r}
    BY <1>7 DEF ReserveKey, LedgerTypeOK
  <2>3. keys'[k].run = r
    BY <2>2
  <2> QED BY <2>1, <2>2, <2>3 DEF OneRunPerKey
<1>8. ASSUME NEW r \in Runs, NEW s \in States, NEW v \in 1..MaxRevision,
             NEW type \in TerminalAudits, PruneAudit(r, s, v, type)
      PROVE  OneRunPerKey'
  BY <1>8, <1>5 DEF PruneAudit
<1> QED BY <1>1, <1>2, <1>3, <1>6, <1>7, <1>8 DEF LedgerNext, MaintenanceStep

(* Two keys never reach one run and a bound key always names a run that      *)
(* exists, for any number of prepares racing for any number of keys.         *)
THEOREM KeysNameOneRun == LedgerSpec => []OneRunPerKey
<1>1. LedgerInit => OneRunPerKey
  BY DEF LedgerInit, OneRunPerKey
<1>2. LedgerTypeOK /\ OneRunPerKey /\ [LedgerNext]_ledgerVars => OneRunPerKey'
  BY KeysKept
<1> QED BY <1>1, <1>2, TypeCorrect, PTL DEF LedgerSpec

-----------------------------------------------------------------------------
(* Decisions.                                                                *)

(* Only the run a row step is about can lose the fit.                        *)
LEMMA DecisionFrame ==
    ASSUME LedgerTypeOK, DecisionExplainsState, NEW r \in Runs, RowStep(r),
           DecisionFits(r)'
    PROVE  DecisionExplainsState'
<1> SUFFICES ASSUME NEW q \in Runs \ {r}
             PROVE  DecisionFits(q)'
  BY DEF DecisionExplainsState
<1>1. PICK to, type : Advance(r, to, type)
  BY DEF RowStep
<1>2. state'[q] = state[q]
  BY <1>1, AdvanceRows
<1>3. evidence'[q] = evidence[q] /\ approval'[q] = approval[q] /\ expires'[q] = expires[q]
  BY DEF RowStep, Columns
<1>4. DecisionFits(q)
  BY DEF DecisionExplainsState
<1> QED BY <1>2, <1>3, <1>4 DEF DecisionFits, Binding

(* The states in which the approvals row must be empty.                      *)
Undecided == {Null, "preparing", "awaiting_approval", "failed", "expired"}

(* An advance that writes none of the columns a decision is about keeps the  *)
(* fit if it stays among the decided or among the undecided states, or       *)
(* cancels.                                                                  *)
LEMMA DecisionKept ==
    ASSUME LedgerTypeOK, DecisionExplainsState, NEW r \in Runs, NEW s \in States,
           NEW v, NEW to \in States, NEW type, Cas(r, s, v), Advance(r, to, type),
           evidence'[r] = evidence[r], approval'[r] = approval[r],
           expires'[r] = expires[r],
           \/ s \in ApprovedStates /\ to \in ApprovedStates
           \/ s \in Undecided /\ to \in Undecided
           \/ s # "rejected" /\ to = "cancelled"
    PROVE  DecisionFits(r)'
<1>1. state[r] = s /\ state'[r] = to
  BY AdvanceRows DEF Cas
<1>2. DecisionFits(r)
  BY DEF DecisionExplainsState
<1>3. Binding(r)' = Binding(r)
  BY DEF Binding
<1>4. Null \notin States /\ Null \notin {"approved", "rejected"}
  BY LedgerAssumption DEF States, Terminal
<1> QED
  BY <1>1, <1>2, <1>3, <1>4
  DEF DecisionFits, ApprovedStates, Undecided, NoApproval, States, Terminal

(* While a run is being prepared its approvals row is empty, so the evidence *)
(* may still be written.                                                     *)
LEMMA PreparingKept ==
    ASSUME LedgerTypeOK, DecisionExplainsState, NEW r \in Runs, NEW v, NEW to, NEW type,
           Cas(r, "preparing", v), Advance(r, to, type), approval'[r] = approval[r],
           to \in {"preparing", "failed"}
    PROVE  DecisionFits(r)'
<1>1. state[r] = "preparing" /\ state'[r] = to
  BY AdvanceRows DEF Cas
<1>2. approval[r] = NoApproval
  BY <1>1 DEF DecisionExplainsState, DecisionFits
<1> QED BY <1>1, <1>2 DEF DecisionFits, ApprovedStates, NoApproval

(* No step breaks the fit of decision and state.                             *)
LEMMA DecisionsKept ==
    LedgerTypeOK /\ DecisionExplainsState /\ [LedgerNext]_ledgerVars
        => DecisionExplainsState'
<1> SUFFICES ASSUME LedgerTypeOK, DecisionExplainsState, [LedgerNext]_ledgerVars
             PROVE  DecisionExplainsState'
  OBVIOUS
<1>1. CASE UNCHANGED ledgerVars
  BY <1>1 DEF ledgerVars, DecisionExplainsState, DecisionFits, Binding
<1>2. CASE Tick
  BY <1>2 DEF Tick, DecisionExplainsState, DecisionFits, Binding
<1>3. ASSUME NEW r \in Runs, CreateStep(r)
      PROVE  DecisionExplainsState'
  <2>1. /\ state[r] = Null
        /\ state' = [state EXCEPT ![r] = "preparing"]
        /\ UNCHANGED <<evidence, approval, expires>>
    BY <1>3 DEF CreateStep, CreateRun, CreateKeyedRun, InsertRun
  <2>2. approval[r] = NoApproval
    BY <2>1 DEF DecisionExplainsState, DecisionFits
  <2> QED BY <2>1, <2>2
          DEF DecisionExplainsState, DecisionFits, ApprovedStates, Binding,
              NoApproval, LedgerTypeOK
<1>4. ASSUME NEW r \in Runs, NEW s \in States, NEW v \in 1..MaxRevision,
             \/ PrepareStep(r, s, v) \/ DecisionStep(r, s, v)
             \/ CommitStep(r, s, v)
             \/ \E k \in Keys, q \in Requests : ReserveKey(r, s, v, k, q)
      PROVE  DecisionExplainsState'
  <2>1. SUFFICES DecisionFits(r)'
    BY <1>4, MutationShape, ReserveShape, DecisionFrame
  <2>2. CASE PrepareStep(r, s, v)
    <3>1. ASSUME NEW to \in {"preparing", "failed"}, NEW type, s = "preparing",
                 Cas(r, s, v), Advance(r, to, type), UNCHANGED approval
          PROVE  DecisionFits(r)'
      BY <3>1, PreparingKept
    <3>2. CASE AwaitApproval(r, s, v)
      BY <3>2, DecisionKept
      DEF AwaitApproval, Transition, LegalTransitions, Undecided, States
    <3>3. CASE ReconcilePreparing(r, s, v)
      BY <3>3, DecisionKept
      DEF ReconcilePreparing, Transition, LegalTransitions, Undecided, States, Terminal
    <3> QED BY <2>2, <3>1, <3>2, <3>3
            DEF PrepareStep, SourceInspected, PlanNormalized, DryRunCompleted,
                AppendEvidence, RecordArtifact, PreviewPersisted, RecordPrepareFailure
  <2>3. ASSUME NEW to \in States, NEW type, NEW decision, Cas(r, s, v),
               Advance(r, to, type),
               approval' = [approval EXCEPT
                  ![r] = [decision |-> decision, binding |-> Binding(r)]],
               UNCHANGED <<evidence, expires>>
        PROVE  /\ state'[r] = to
               /\ approval'[r] = [decision |-> decision, binding |-> Binding(r)']
    BY <2>3, AdvanceRows DEF LedgerTypeOK, Binding
  <2>4. ASSUME NEW to \in {"approved", "committing"}, NEW type, Cas(r, s, v),
               Advance(r, to, type),
               approval' = [approval EXCEPT
                  ![r] = [decision |-> "approved", binding |-> Binding(r)]],
               UNCHANGED <<evidence, expires>>
        PROVE  DecisionFits(r)'
    <3>1. /\ state'[r] = to
          /\ approval'[r] = [decision |-> "approved", binding |-> Binding(r)']
      BY <2>3, <2>4 DEF States
    <3> QED BY <3>1, LedgerAssumption DEF DecisionFits, States
  <2>5. CASE DecisionStep(r, s, v)
    <3>1. CASE RecordApprovalOrExpire(r, s, v)
      <4>1. CASE /\ Advance(r, "expired", "approval_expired")
                 /\ UNCHANGED approval
        BY <3>1, <4>1, DecisionKept
        DEF RecordApprovalOrExpire, Undecided, States, Terminal
      <4> QED BY <2>4, <3>1, <4>1 DEF RecordApprovalOrExpire
    <3>2. CASE Reject(r, s, v)
      <4>1. /\ state'[r] = "rejected"
            /\ approval'[r] = [decision |-> "rejected", binding |-> Binding(r)']
        BY <2>3, <3>2 DEF Reject, States, Terminal
      <4> QED BY <4>1, LedgerAssumption DEF DecisionFits, ApprovedStates, States, Terminal
    <3>3. CASE Cancel(r, s, v)
      BY <3>3, DecisionKept, NoEdgeFromTerminal
      DEF Cancel, Transition, States, Terminal
    <3> QED BY <2>5, <3>1, <3>2, <3>3 DEF DecisionStep
  <2>6. CASE CommitStep(r, s, v)
    <3>1. ASSUME NEW to \in ApprovedStates, NEW type, s \in ApprovedStates,
                 Cas(r, s, v), Advance(r, to, type),
                 UNCHANGED <<evidence, approval, expires>>
          PROVE  DecisionFits(r)'
      BY <3>1, DecisionKept DEF ApprovedStates, States, Terminal
    <3>2. ASSUME NEW staged, RecordCommitIntent(r, s, v, staged)
          PROVE  DecisionFits(r)'
      BY <2>4, <3>2 DEF RecordCommitIntent, CanRecordIntent
    <3>3. ASSUME NEW type,
                 \/ Transition(r, s, v, "stale", type)
                 \/ Transition(r, s, v, "rolled_back", type)
                 \/ Transition(r, s, v, "recovery_required", type)
          PROVE  DecisionFits(r)'
      BY <3>1, <3>3 DEF Transition, LegalTransitions, Terminal, ApprovedStates
    <3>4. ASSUME NEW dest, NEW body, RecordCommitFinalized(r, s, v, dest, body)
          PROVE  DecisionFits(r)'
      BY <3>1, <3>4 DEF RecordCommitFinalized, ApprovedStates
    <3>5. CASE OrphanLockCleared(r, s, v)
      BY <3>1, <3>5 DEF OrphanLockCleared, ApprovedStates
    <3> QED BY <2>6, <3>2, <3>3, <3>4, <3>5
            DEF CommitStep, MarkStale, MarkRolledBack, MarkRecoveryRequired
  <2>7. ASSUME NEW k \in Keys, NEW q \in Requests, ReserveKey(r, s, v, k, q)
        PROVE  DecisionFits(r)'
    BY <2>7, PreparingKept DEF ReserveKey
  <2> QED BY <1>4, <2>2, <2>5, <2>6, <2>7
<1>5. ASSUME NEW r \in Runs, NEW s \in States, NEW v \in 1..MaxRevision,
             NEW type \in TerminalAudits, PruneAudit(r, s, v, type)
      PROVE  DecisionExplainsState'
  <2>1. UNCHANGED <<state, evidence, approval, expires>>
    BY <1>5, PruneShape DEF PruneAudit
  <2> QED BY <2>1 DEF DecisionExplainsState, DecisionFits, Binding
<1> QED BY <1>1, <1>2, <1>3, <1>4, <1>5 DEF LedgerNext, MaintenanceStep

(* Whatever decisions, expiries, cancellations and commits race, a run past  *)
(* its decision holds an approval of exactly the evidence and expiry its row *)
(* shows, a rejected run a rejection of them and an undecided one no         *)
(* decision: the evidence cannot be changed under a decision.                *)
THEOREM DecisionAndStateAgree == LedgerSpec => []DecisionExplainsState
<1>1. LedgerInit => DecisionExplainsState
  BY LedgerAssumption
  DEF LedgerInit, DecisionExplainsState, DecisionFits, ApprovedStates, NoApproval,
      States, Terminal
<1>2. LedgerTypeOK /\ DecisionExplainsState /\ [LedgerNext]_ledgerVars
         => DecisionExplainsState'
  BY DecisionsKept
<1> QED BY <1>1, <1>2, TypeCorrect, PTL DEF LedgerSpec

-----------------------------------------------------------------------------
(* The audit.                                                                *)

(* What verify_integrity demands beside the chain and the approvals row.     *)
EvidenceFits(r) ==
    /\ \A kind \in {"candidate", "diff"} : kind \in rows[r] <=> evidence[r][kind] # Null
    /\ "failure_evidence" \in rows[r] => state[r] = "failed"
    /\ tail[r].type = "failed" => "failure_evidence" \in rows[r]
    /\ state[r] \in PreparedStates => CompletePrepare(r)
    /\ "receipt" \in rows[r] <=> receipt[r] # Null
    /\ state[r] = "committed" <=> receipt[r] # Null

AllEvidenceFits == \A r \in Runs : EvidenceFits(r)

(* The three invariants together are what the audit checks.                  *)
LEMMA AuditParts ==
    ASSUME LedgerTypeOK, RowMatchesChain, DecisionExplainsState, AllEvidenceFits
    PROVE  VerifierAccepts
<1> SUFFICES ASSUME NEW r \in Runs, state[r] # Null
             PROVE  IntegrityHolds(r)
  BY DEF VerifierAccepts
<1>1. EvidenceFits(r) /\ DecisionFits(r) /\ tail[r].sequence = revision[r]
  BY DEF RowMatchesChain, DecisionExplainsState, AllEvidenceFits
<1>2. state[r] \in States
  BY DEF LedgerTypeOK
<1>3. ApprovalFits(r)
  <2>1. Null \notin {"approved", "rejected"}
    BY LedgerAssumption DEF States, Terminal
  <2>2. \A d \in {"approved", "rejected"} :
           /\ [decision |-> d, binding |-> Binding(r)] # NoApproval
           /\ [decision |-> d, binding |-> Binding(r)].decision = d
           /\ [decision |-> d, binding |-> Binding(r)].binding[2] = expires[r]
    BY <2>1 DEF NoApproval, Binding
  <2> QED BY <1>1, <1>2, <2>2 DEF ApprovalFits, DecisionFits, ApprovedStates, States, Terminal
<1> QED
  BY <1>1, <1>3 DEF EvidenceFits, IntegrityHolds, ArtifactsFit, FailureFits, ResultFits

(* The runs a step is not about keep the fit.                                *)
LEMMA EvidenceFrame ==
    ASSUME LedgerTypeOK, \A p \in Runs : EvidenceFits(p),
           NEW r \in Runs, RowStep(r), EvidenceFits(r)'
    PROVE  \A q \in Runs : EvidenceFits(q)'
<1> SUFFICES ASSUME NEW q \in Runs \ {r}
             PROVE  EvidenceFits(q)'
  OBVIOUS
<1>1. PICK to, type : Advance(r, to, type)
  BY DEF RowStep
<1>2. state'[q] = state[q] /\ tail'[q] = tail[q]
  BY <1>1, AdvanceRows
<1>3. /\ evidence'[q] = evidence[q] /\ rows'[q] = rows[q]
      /\ expires'[q] = expires[q] /\ receipt'[q] = receipt[q]
  BY DEF RowStep, Columns
<1> QED BY <1>2, <1>3 DEF EvidenceFits, CompletePrepare

(* So does a run that is advanced without writing its columns, neither to    *)
(* committed nor with a failure, and to a prepared state only when complete. *)
LEMMA EvidenceKept ==
    ASSUME LedgerTypeOK, NEW r \in Runs, EvidenceFits(r),
           NEW s \in States \ Terminal, NEW v, NEW to \in States \ {"committed"},
           NEW type, type # "failed", Cas(r, s, v), Advance(r, to, type),
           evidence'[r] = evidence[r], rows'[r] = rows[r],
           expires'[r] = expires[r], receipt'[r] = receipt[r],
           to \in PreparedStates => CompletePrepare(r)
    PROVE  EvidenceFits(r)'
<1>1. state[r] = s /\ state'[r] = to /\ tail'[r].type = type
  BY AdvanceRows DEF Cas
<1>2. s \notin {"failed", "committed"}
  BY DEF Terminal
<1> QED BY <1>1, <1>2 DEF EvidenceFits, CompletePrepare

(* A transition out of a prepared state, or to one that is not.              *)
LEMMA EvidenceTransition ==
    ASSUME LedgerTypeOK, NEW r \in Runs, EvidenceFits(r), NEW s, NEW v,
           NEW to \in States \ {"committed"}, NEW type, type # "failed",
           Transition(r, s, v, to, type),
           s \in PreparedStates \/ to \notin PreparedStates \/ CompletePrepare(r)
    PROVE  EvidenceFits(r)'
<1>1. s \in States \ Terminal /\ state[r] = s
  BY NoEdgeFromTerminal DEF Transition, Cas
<1>2. to \in PreparedStates => CompletePrepare(r)
  BY <1>1 DEF EvidenceFits
<1> QED BY <1>1, <1>2, EvidenceKept DEF Transition

(* While preparing, evidence other than the artifacts may be written freely. *)
LEMMA EvidencePreparing ==
    ASSUME LedgerTypeOK, NEW r \in Runs, EvidenceFits(r), NEW v, NEW type,
           type # "failed", Cas(r, "preparing", v), Advance(r, "preparing", type),
           \A kind \in {"candidate", "diff"} : evidence'[r][kind] = evidence[r][kind],
           rows'[r] = rows[r], receipt'[r] = receipt[r]
    PROVE  EvidenceFits(r)'
<1>1. state[r] = "preparing" /\ state'[r] = "preparing" /\ tail'[r].type = type
  BY AdvanceRows DEF Cas
<1> QED BY <1>1 DEF EvidenceFits, PreparedStates

(* No step breaks the fit of evidence and state.                             *)
LEMMA EvidenceFitKept ==
    LedgerTypeOK /\ AllEvidenceFits /\ [LedgerNext]_ledgerVars => AllEvidenceFits'
<1> USE DEF AllEvidenceFits
<1> DEFINE Fits == \A r \in Runs : EvidenceFits(r)
<1> SUFFICES ASSUME LedgerTypeOK, Fits, [LedgerNext]_ledgerVars
             PROVE  Fits'
  OBVIOUS
<1>1. CASE UNCHANGED ledgerVars
  BY <1>1 DEF ledgerVars, EvidenceFits, CompletePrepare
<1>2. CASE Tick
  BY <1>2 DEF Tick, EvidenceFits, CompletePrepare
<1>3. ASSUME NEW r \in Runs, CreateStep(r)
      PROVE  Fits'
  <2>1. /\ state[r] = Null /\ state'[r] = "preparing"
        /\ tail'[r].type = "run_created"
        /\ \A q \in Runs \ {r} : state'[q] = state[q] /\ tail'[q] = tail[q]
        /\ UNCHANGED <<evidence, rows, expires, receipt>>
    BY <1>3 DEF CreateStep, CreateRun, CreateKeyedRun, InsertRun, LedgerTypeOK
  <2>2. Null # "failed" /\ Null # "committed"
    BY LedgerAssumption DEF States, Terminal
  <2>3. EvidenceFits(r)'
    BY <2>1, <2>2 DEF EvidenceFits, PreparedStates
  <2>4. \A q \in Runs \ {r} : EvidenceFits(q)'
    BY <2>1 DEF EvidenceFits, CompletePrepare
  <2> QED BY <2>3, <2>4
<1>4. ASSUME NEW r \in Runs, NEW s \in States, NEW v \in 1..MaxRevision,
             \/ PrepareStep(r, s, v) \/ DecisionStep(r, s, v)
             \/ CommitStep(r, s, v)
             \/ \E k \in Keys, q \in Requests : ReserveKey(r, s, v, k, q)
      PROVE  Fits'
  <2>1. SUFFICES EvidenceFits(r)'
    BY <1>4, MutationShape, ReserveShape, EvidenceFrame
  <2> USE DEF States, Terminal
  <2>2. CASE PrepareStep(r, s, v)
    <3>1. ASSUME NEW type, type # "failed", NEW fs, NEW x,
                 "candidate" \notin fs, "diff" \notin fs,
                 AppendEvidence(r, s, v, type, fs, x)
          PROVE  EvidenceFits(r)'
      <4>1. \A kind \in {"candidate", "diff"} : evidence'[r][kind] = evidence[r][kind]
        BY <3>1 DEF AppendEvidence, LedgerTypeOK, Fields
      <4> QED BY <3>1, <4>1, EvidencePreparing DEF AppendEvidence
    <3>2. ASSUME NEW kind \in {"candidate", "diff"}, NEW x \in [{kind} -> Values],
                 RecordArtifact(r, s, v, kind, x)
          PROVE  EvidenceFits(r)'
      <4>1. /\ rows'[r] = rows[r] \cup {kind}
            /\ evidence'[r][kind] = x[kind]
            /\ \A f \in Fields \ {kind} : evidence'[r][f] = evidence[r][f]
            /\ receipt'[r] = receipt[r]
        BY <3>2 DEF RecordArtifact, LedgerTypeOK, Fields
      <4>2. x[kind] # Null
        BY LedgerAssumption
      <4>3. state[r] = "preparing" /\ state'[r] = "preparing" /\ tail'[r].type # "failed"
        BY <3>2, AdvanceRows DEF RecordArtifact, Cas
      <4> QED BY <4>1, <4>2, <4>3 DEF EvidenceFits, PreparedStates, Fields
    <3>3. CASE PreviewPersisted(r, s, v)
      BY <3>3, EvidencePreparing DEF PreviewPersisted
    <3>4. CASE AwaitApproval(r, s, v)
      BY <3>4, EvidenceTransition DEF AwaitApproval
    <3>5. CASE RecordPrepareFailure(r, s, v)
      <4>1. /\ rows'[r] = rows[r] \cup {"failure_evidence"}
            /\ evidence'[r] = evidence[r] /\ receipt'[r] = receipt[r]
        BY <3>5 DEF RecordPrepareFailure, LedgerTypeOK
      <4>2. state[r] = "preparing" /\ state'[r] = "failed"
        BY <3>5, AdvanceRows DEF RecordPrepareFailure, Cas
      <4> QED BY <4>1, <4>2 DEF EvidenceFits, PreparedStates
    <3>6. CASE ReconcilePreparing(r, s, v)
      BY <3>6, EvidenceTransition DEF ReconcilePreparing, PreparedStates
    <3> QED BY <2>2, <3>1, <3>2, <3>3, <3>4, <3>5, <3>6
            DEF PrepareStep, SourceInspected, PlanNormalized, DryRunCompleted
  <2>3. CASE DecisionStep(r, s, v)
    <3>1. CASE RecordApprovalOrExpire(r, s, v)
      BY <3>1, EvidenceKept DEF RecordApprovalOrExpire
    <3>2. CASE Reject(r, s, v)
      BY <3>2, EvidenceKept, NoEdgeFromTerminal DEF Reject
    <3>3. CASE Cancel(r, s, v)
      BY <3>3, EvidenceTransition DEF Cancel, PreparedStates
    <3> QED BY <2>3, <3>1, <3>2, <3>3 DEF DecisionStep
  <2>4. CASE CommitStep(r, s, v)
    <3>1. ASSUME NEW staged, RecordCommitIntent(r, s, v, staged)
          PROVE  EvidenceFits(r)'
      BY <3>1, EvidenceKept DEF RecordCommitIntent, CanRecordIntent, CommitState
    <3>2. ASSUME NEW to \in {"stale", "rolled_back", "recovery_required"},
                 NEW type, type # "failed", Transition(r, s, v, to, type)
          PROVE  EvidenceFits(r)'
      <4>1. s \in PreparedStates
        BY <3>2 DEF Transition, LegalTransitions, PreparedStates
      <4> QED BY <3>2, <4>1, EvidenceTransition
    <3>3. ASSUME NEW dest \in Values, NEW body \in Values,
                 RecordCommitFinalized(r, s, v, dest, body)
          PROVE  EvidenceFits(r)'
      <4>1. /\ rows'[r] = rows[r] \cup {"receipt"}
            /\ receipt'[r] = body
            /\ evidence'[r] = evidence[r] /\ expires'[r] = expires[r]
        BY <3>3 DEF RecordCommitFinalized, LedgerTypeOK
      <4>2. body # Null
        BY LedgerAssumption
      <4>3. /\ state[r] = "committing" /\ state'[r] = "committed"
            /\ tail'[r].type = "committed"
        BY <3>3, AdvanceRows DEF RecordCommitFinalized, Cas
      <4> QED BY <4>1, <4>2, <4>3 DEF EvidenceFits, CompletePrepare, PreparedStates
    <3>4. CASE OrphanLockCleared(r, s, v)
      <4>1. s \in PreparedStates /\ state[r] = s
        BY <3>4 DEF OrphanLockCleared, Cas, PreparedStates
      <4> QED BY <3>4, <4>1, EvidenceKept DEF OrphanLockCleared, EvidenceFits
    <3> QED BY <2>4, <3>1, <3>2, <3>3, <3>4
            DEF CommitStep, MarkStale, MarkRolledBack, MarkRecoveryRequired
  <2>5. ASSUME NEW k \in Keys, NEW q \in Requests, ReserveKey(r, s, v, k, q)
        PROVE  EvidenceFits(r)'
    BY <2>5, EvidencePreparing DEF ReserveKey
  <2> QED BY <1>4, <2>2, <2>3, <2>4, <2>5
<1>5. ASSUME NEW r \in Runs, NEW s \in States, NEW v \in 1..MaxRevision,
             NEW type \in TerminalAudits, PruneAudit(r, s, v, type)
      PROVE  Fits'
  <2>1. /\ UNCHANGED <<state, evidence, rows, expires, receipt>>
        /\ tail'[r].type # "failed"
        /\ \A q \in Runs \ {r} : tail'[q] = tail[q]
    BY <1>5, PruneShape DEF PruneAudit, TerminalAudits
  <2> QED BY <2>1 DEF EvidenceFits, CompletePrepare
<1> QED BY <1>1, <1>2, <1>3, <1>4, <1>5 DEF LedgerNext, MaintenanceStep

(* verify_integrity never reports a finding on a ledger that only the        *)
(* program wrote: artifacts, failure evidence, approvals and receipts stay   *)
(* in step with the state whichever calls race.                              *)
THEOREM AuditIsQuiet == LedgerSpec => []VerifierAccepts
<1>1. LedgerInit => AllEvidenceFits
  <2> SUFFICES ASSUME LedgerInit, NEW r \in Runs
               PROVE  EvidenceFits(r)
    BY DEF AllEvidenceFits
  <2>1. /\ state[r] = Null /\ rows[r] = {} /\ receipt[r] = Null
        /\ \A f \in Fields : evidence[r][f] = Null
    BY DEF LedgerInit
  <2>2. tail[r] = [sequence |-> 0, type |-> Null]
    BY DEF LedgerInit
  <2>3. tail[r].type = Null
    BY <2>2
  <2>4. Null \notin States /\ Null # "failed"
    BY LedgerAssumption DEF EventTypes
  <2> QED BY <2>1, <2>3, <2>4 DEF EvidenceFits, Fields, PreparedStates, States, Terminal
<1>2. LedgerTypeOK /\ AllEvidenceFits /\ [LedgerNext]_ledgerVars => AllEvidenceFits'
  BY EvidenceFitKept
<1>3. LedgerTypeOK /\ RowMatchesChain /\ DecisionExplainsState /\ AllEvidenceFits
         => VerifierAccepts
  BY AuditParts
<1> QED BY <1>1, <1>2, <1>3, TypeCorrect, RowAndChainAgree, DecisionAndStateAgree, PTL
        DEF LedgerSpec

-----------------------------------------------------------------------------
(* The ledger under its callers.                                             *)

(* What is true of the ledger at every step, for the modules whose actions   *)
(* are steps of it or leave it alone.                                        *)
LedgerInv ==
    /\ LedgerTypeOK
    /\ RowMatchesChain
    /\ DecisionExplainsState
    /\ AllEvidenceFits
    /\ OneRunPerKey

(* No step of the ledger leaves it, whatever ledger the behaviour began in.  *)
LEMMA LedgerKept == LedgerInv /\ [LedgerNext]_ledgerVars => LedgerInv'
BY TypesKept, ChainKept, DecisionsKept, EvidenceFitKept, KeysKept DEF LedgerInv

(* It contains the audit.                                                    *)
LEMMA LedgerAudited == LedgerInv => VerifierAccepts
BY AuditParts DEF LedgerInv

-----------------------------------------------------------------------------
(* Expiry.                                                                   *)

(* An approval is consumed no later than in the second of its expiry: the    *)
(* commit intent is the only way into committing, and the comparison of      *)
(* spellings it makes can be wrong only inside one second.                   *)
THEOREM ExpiryIsHonoured == LedgerSpec => ExpiryHonoured
<1> DEFINE Honoured ==
      \A r \in Runs : state[r] # "committing" /\ state'[r] = "committing" =>
          Second(now) <= Second(expires[r])
<1>1. LedgerTypeOK /\ [LedgerNext]_ledgerVars => [Honoured]_ledgerVars
  <2> SUFFICES ASSUME LedgerTypeOK, LedgerNext
               PROVE  Honoured
    BY DEF ledgerVars
  <2>1. CASE Tick
    BY <2>1 DEF Tick
  <2>2. ASSUME NEW r \in Runs, CreateStep(r)
        PROVE  Honoured
    BY <2>2 DEF CreateStep, CreateRun, CreateKeyedRun, InsertRun, LedgerTypeOK
  <2>3. ASSUME NEW r \in Runs, NEW s \in States, NEW v \in 1..MaxRevision,
               \/ PrepareStep(r, s, v) \/ DecisionStep(r, s, v)
               \/ CommitStep(r, s, v) \/ MaintenanceStep(r, s, v)
        PROVE  Honoured
    <3>1. ASSUME NEW to, NEW type, Advance(r, to, type), to # "committing"
          PROVE  Honoured
      BY <3>1, AdvanceRows
    <3>2. CASE PrepareStep(r, s, v)
      BY <3>1, <3>2
      DEF PrepareStep, SourceInspected, PlanNormalized, DryRunCompleted,
          AppendEvidence, RecordArtifact, PreviewPersisted, RecordPrepareFailure,
          AwaitApproval, ReconcilePreparing, Transition
    <3>3. CASE DecisionStep(r, s, v)
      BY <3>1, <3>3
      DEF DecisionStep, RecordApprovalOrExpire, Reject, Cancel, Transition
    <3>4. ASSUME NEW staged, RecordCommitIntent(r, s, v, staged)
          PROVE  Honoured
      <4>1. \A q \in Runs \ {r} : state'[q] = state[q]
        BY <3>4, AdvanceRows DEF RecordCommitIntent
      <4>2. ~(Second(now) > Second(expires[r]))
        BY <3>4 DEF RecordCommitIntent, CanRecordIntent, IntentExpired, SpellingAtLeast
      <4>3. Second(now) \in Int /\ Second(expires[r]) \in Int
        BY LedgerAssumption DEF LedgerTypeOK, Second
      <4> QED BY <4>1, <4>2, <4>3
    <3>5. CASE CommitStep(r, s, v)
      BY <3>1, <3>4, <3>5
      DEF CommitStep, MarkStale, RecordCommitFinalized, MarkRolledBack,
          MarkRecoveryRequired, OrphanLockCleared, Transition
    <3>6. CASE MaintenanceStep(r, s, v)
      BY <3>1, <3>6
      DEF MaintenanceStep, ReserveKey, PruneAudit, PruneEligible, Terminal
    <3> QED BY <2>3, <3>2, <3>3, <3>5, <3>6
  <2> QED BY <2>1, <2>2, <2>3 DEF LedgerNext
<1> QED BY <1>1, TypeCorrect, PTL DEF LedgerSpec, ExpiryHonoured

=============================================================================
