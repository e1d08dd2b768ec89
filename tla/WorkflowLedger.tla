--------------------------- MODULE WorkflowLedger ---------------------------
(***************************************************************************)
(* The SQLite run ledger of the transactional workflow                     *)
(* (src/fcp_mcp/workflow/ledger.py): one row per run with its state and    *)
(* revision, the tail of its event chain, the evidence columns, the        *)
(* artifact rows, the single approval row and the idempotency keys.        *)
(*                                                                         *)
(* Every mutation of the code runs in one BEGIN IMMEDIATE transaction and  *)
(* is a compare-and-set: it names the state s and the revision v its       *)
(* caller read earlier and is refused when the row has moved on.  Each is  *)
(* one action here, with s and v as parameters; Next lets every caller     *)
(* come with every (s, v), so a caller holding an arbitrarily stale read   *)
(* is among the behaviours.                                                *)
(***************************************************************************)
EXTENDS Integers

CONSTANTS
    Runs,         \* run identifiers (uuid4 values, never reused)
    ClientRuns,   \* the runs prepared with approval_mode = client
    Keys,         \* caller-chosen idempotency keys
    Requests,     \* canonical prepare-request hashes
    Values,       \* SHA-256 digests
    Null,         \* SQL NULL
    Ttl,          \* approval_ttl_seconds, in half seconds
    MaxTime,      \* bound: the clock stops here
    MaxRevision   \* bound: no mutation of a row beyond this revision

VARIABLES
    state,      \* runs.state, or Null before the row is inserted
    revision,   \* runs.revision
    tail,       \* sequence and type of the last event of the run's chain
    evidence,   \* the hash columns written while preparing
    rows,       \* kinds with a row in the artifacts table
    approval,   \* the approvals row: decision and binding hash
    expires,    \* runs.expires_at (NoExpiry is NULL)
    receipt,    \* runs.receipt_sha256
    keys,       \* idempotency_keys
    now         \* the UTC clock, in half seconds

ledgerVars == <<state, revision, tail, evidence, rows, approval, expires,
                receipt, keys, now>>

Terminal == {"committed", "failed", "rejected", "cancelled", "expired",
             "stale", "rolled_back", "recovery_required"}
States == {"preparing", "awaiting_approval", "approved", "committing"} \cup Terminal

(* models.LEGAL_TRANSITIONS *)
LegalTransitions ==
    {<<"preparing", t>> : t \in {"awaiting_approval", "failed", "cancelled"}}
        \cup {<<"awaiting_approval", t>> :
                t \in {"approved", "rejected", "cancelled", "expired"}}
        \cup {<<"approved", t>> :
                t \in {"committing", "stale", "cancelled", "expired"}}
        \cup {<<"committing", t>> :
                t \in {"committed", "rolled_back", "recovery_required"}}

Fields == {"source", "prior", "plan", "candidate", "diff"}
Kinds == {"candidate", "diff", "failure_evidence", "receipt"}
NoExpiry == 0
NoApproval == [decision |-> Null, binding |-> Null]
EventTypes == {"run_created", "source_inspected", "plan_normalized",
               "dry_run_completed", "candidate_validated", "diff_created",
               "preview_persisted", "awaiting_approval", "failed",
               "prepare_reconciled_failed", "approval_recorded",
               "approval_expired", "approval_rejected", "cancelled",
               "commit_precondition_stale", "commit_started", "committed",
               "commit_reconciled_rolled_back", "commit_recovery_required",
               "orphan_lock_cleared", "idempotency_reserved",
               "artifact_prune_intent", "artifacts_pruned"}

(* The events a terminal run may still take, and the states that may.        *)
TerminalAudits == {"artifact_prune_intent", "artifacts_pruned"}
PruneEligible == Terminal \ {"recovery_required"}

ASSUME LedgerAssumption ==
    /\ ClientRuns \subseteq Runs
    /\ Null \notin States \cup EventTypes \cup Values
    /\ Ttl \in Nat \ {0}
    /\ MaxTime \in Nat \ {0}
    /\ MaxRevision \in Nat \ {0}

-----------------------------------------------------------------------------
(* Clock readings.  A time is a number of half seconds.  The ledger stores   *)
(* datetime.isoformat(), which drops the fraction when it is zero, so       *)
(* "12:00:00Z" and "12:00:00.500000Z" are both spellings it produces.        *)

Second(t) == t \div 2
Fractional(t) == t % 2 = 1

(* The order of those spellings as strings: inside one second the spelling   *)
(* with a fraction comes first, '.' being smaller than 'Z'.                  *)
SpellingAtLeast(a, b) ==
    \/ Second(a) > Second(b)
    \/ Second(a) = Second(b) /\ (a = b \/ (Fractional(b) /\ ~Fractional(a)))

(* approval.effective_state: the expiry every reader is shown.               *)
EffectiveState(r) ==
    IF state[r] \in {"awaiting_approval", "approved"} /\ now >= expires[r]
    THEN "expired" ELSE state[r]

-----------------------------------------------------------------------------
(* The parts every mutation shares.                                          *)

(* Mutant: the row is matched by revision alone.                             *)
CasByRevision(r, s, v) == revision[r] = v /\ v < MaxRevision

Cas(r, s, v) == state[r] = s /\ revision[r] = v /\ v < MaxRevision

(* Mutant: an event that leaves the state alone leaves the revision alone.   *)
AdvanceOnTransition(r, to, type) ==
    /\ state' = [state EXCEPT ![r] = to]
    /\ revision' = [revision EXCEPT ![r] = IF state[r] = to THEN @ ELSE @ + 1]
    /\ tail' = [tail EXCEPT ![r] = [sequence |-> @.sequence + 1, type |-> type]]

(* UPDATE runs SET state, revision = revision + 1 ... and the appended event. *)
Advance(r, to, type) ==
    /\ state' = [state EXCEPT ![r] = to]
    /\ revision' = [revision EXCEPT ![r] = @ + 1]
    /\ tail' = [tail EXCEPT ![r] = [sequence |-> @.sequence + 1, type |-> type]]

CompletePrepare(r) ==
    /\ \A f \in Fields : evidence[r][f] # Null
    /\ expires[r] # NoExpiry
    /\ {"candidate", "diff"} \subseteq rows[r]

Binding(r) == <<evidence[r], expires[r]>>

(* transition / append_event with an empty projection patch.                 *)
Transition(r, s, v, to, type) ==
    /\ Cas(r, s, v)
    /\ <<s, to>> \in LegalTransitions
    /\ Advance(r, to, type)
    /\ UNCHANGED <<evidence, rows, approval, expires, receipt, keys, now>>

-----------------------------------------------------------------------------
(* Creation and preparation.                                                 *)

(* create_run without a key, or with a key not seen before.                  *)
InsertRun(r) ==
    /\ state[r] = Null
    /\ state' = [state EXCEPT ![r] = "preparing"]
    /\ revision' = [revision EXCEPT ![r] = 1]
    /\ tail' = [tail EXCEPT ![r] = [sequence |-> 1, type |-> "run_created"]]
    /\ UNCHANGED <<evidence, rows, approval, expires, receipt, now>>

CreateRun(r) == InsertRun(r) /\ UNCHANGED keys

(* A key already bound returns its run or IDEMPOTENCY_CONFLICT and writes    *)
(* nothing, so only the first use of a key is a step.                        *)
CreateKeyedRun(r, k, q) ==
    /\ keys[k] = Null
    /\ InsertRun(r)
    /\ keys' = [keys EXCEPT ![k] = [request |-> q, run |-> r]]

(* Mutant: the run may hold another key already.                             *)
ReserveSecondKey(r, s, v, k, q) ==
    /\ s = "preparing"
    /\ keys[k] = Null
    /\ Cas(r, s, v)
    /\ Advance(r, "preparing", "idempotency_reserved")
    /\ keys' = [keys EXCEPT ![k] = [request |-> q, run |-> r]]
    /\ UNCHANGED <<evidence, rows, approval, expires, receipt, now>>

(* reserve_idempotency_key: a key is given to a run that is being prepared.   *)
ReserveKey(r, s, v, k, q) ==
    /\ s = "preparing"
    /\ keys[k] = Null
    /\ Cas(r, s, v)
    /\ \A j \in Keys : keys[j] # Null => keys[j].run # r
    /\ Advance(r, "preparing", "idempotency_reserved")
    /\ keys' = [keys EXCEPT ![k] = [request |-> q, run |-> r]]
    /\ UNCHANGED <<evidence, rows, approval, expires, receipt, now>>

AppendEvidence(r, s, v, type, fs, x) ==
    /\ s = "preparing"
    /\ Cas(r, s, v)
    /\ Advance(r, "preparing", type)
    /\ evidence' = [evidence EXCEPT ![r] = [f \in Fields |-> IF f \in fs THEN x[f] ELSE @[f]]]
    /\ UNCHANGED <<rows, approval, expires, receipt, keys, now>>

SourceInspected(r, s, v, x) ==
    AppendEvidence(r, s, v, "source_inspected", {"source", "prior"}, x)

PlanNormalized(r, s, v, x) ==
    AppendEvidence(r, s, v, "plan_normalized", {"plan"}, x)

DryRunCompleted(r, s, v) ==
    AppendEvidence(r, s, v, "dry_run_completed", {}, evidence[r])

RecordArtifact(r, s, v, kind, x) ==
    /\ s = "preparing"
    /\ kind \in {"candidate", "diff"} \ rows[r]
    /\ Cas(r, s, v)
    /\ Advance(r, "preparing",
               IF kind = "candidate" THEN "candidate_validated" ELSE "diff_created")
    /\ rows' = [rows EXCEPT ![r] = @ \cup {kind}]
    /\ evidence' = [evidence EXCEPT ![r][kind] = x[kind]]
    /\ UNCHANGED <<approval, expires, receipt, keys, now>>

(* Mutant: the time to live is added twice.                                  *)
PreviewWithDoubleTtl(r, s, v) ==
    /\ s = "preparing"
    /\ Cas(r, s, v)
    /\ Advance(r, "preparing", "preview_persisted")
    /\ expires' = [expires EXCEPT ![r] = now + 2 * Ttl]
    /\ UNCHANGED <<evidence, rows, approval, receipt, keys, now>>

PreviewPersisted(r, s, v) ==
    /\ s = "preparing"
    /\ Cas(r, s, v)
    /\ Advance(r, "preparing", "preview_persisted")
    /\ expires' = [expires EXCEPT ![r] = now + Ttl]
    /\ UNCHANGED <<evidence, rows, approval, receipt, keys, now>>

(* Mutant: the evidence is not counted before approval is asked for.          *)
AwaitIncomplete(r, s, v) ==
    Transition(r, s, v, "awaiting_approval", "awaiting_approval")

AwaitApproval(r, s, v) ==
    /\ CompletePrepare(r)
    /\ Transition(r, s, v, "awaiting_approval", "awaiting_approval")

RecordPrepareFailure(r, s, v) ==
    /\ s = "preparing"
    /\ Cas(r, s, v)
    /\ "failure_evidence" \notin rows[r]
    /\ Advance(r, "failed", "failed")
    /\ rows' = [rows EXCEPT ![r] = @ \cup {"failure_evidence"}]
    /\ UNCHANGED <<evidence, approval, expires, receipt, keys, now>>

ReconcilePreparing(r, s, v) ==
    /\ evidence[r]["prior"] # Null
    /\ Transition(r, s, v, "failed", "prepare_reconciled_failed")

-----------------------------------------------------------------------------
(* Decisions.                                                                *)

RecordApprovalOrExpire(r, s, v) ==
    /\ s = "awaiting_approval"
    /\ r \notin ClientRuns
    /\ Cas(r, s, v)
    /\ CompletePrepare(r)
    /\ approval[r] = NoApproval
    /\ \/ /\ now >= expires[r]
          /\ Advance(r, "expired", "approval_expired")
          /\ UNCHANGED approval
       \/ /\ now < expires[r]
          /\ Advance(r, "approved", "approval_recorded")
          /\ approval' = [approval EXCEPT
                ![r] = [decision |-> "approved", binding |-> Binding(r)]]
    /\ UNCHANGED <<evidence, rows, expires, receipt, keys, now>>

(* record_decision with REJECTED, the only decision it takes.                *)
Reject(r, s, v) ==
    /\ <<s, "rejected">> \in LegalTransitions
    /\ Cas(r, s, v)
    /\ CompletePrepare(r)
    /\ approval[r] = NoApproval
    /\ Advance(r, "rejected", "approval_rejected")
    /\ approval' = [approval EXCEPT
          ![r] = [decision |-> "rejected", binding |-> Binding(r)]]
    /\ UNCHANGED <<evidence, rows, expires, receipt, keys, now>>

Cancel(r, s, v) == Transition(r, s, v, "cancelled", "cancelled")

-----------------------------------------------------------------------------
(* Commit.                                                                   *)

CommitState(r) == IF r \in ClientRuns THEN "awaiting_approval" ELSE "approved"

(* Mutant: the operands of the comparison swapped.                           *)
IntentExpiredSwapped(r) == SpellingAtLeast(expires[r], now)

(* The expiry test of record_commit_intent compares the two spellings.       *)
IntentExpired(r) == SpellingAtLeast(now, expires[r])

(* staged is the binding the client approved, Null for a CLI commit.         *)
CanRecordIntent(r, s, v, staged) ==
    /\ s = CommitState(r)
    /\ Cas(r, s, v)
    /\ CompletePrepare(r)
    /\ ~IntentExpired(r)
    /\ IF r \in ClientRuns
       THEN staged = Binding(r) /\ approval[r] = NoApproval
       ELSE /\ staged = Null
            /\ approval[r] = [decision |-> "approved", binding |-> Binding(r)]

RecordCommitIntent(r, s, v, staged) ==
    /\ CanRecordIntent(r, s, v, staged)
    /\ approval' = [approval EXCEPT
          ![r] = [decision |-> "approved", binding |-> Binding(r)]]
    /\ Advance(r, "committing", "commit_started")
    /\ UNCHANGED <<evidence, rows, expires, receipt, keys, now>>

(* Mutant: staleness is recorded without consulting the transition table.    *)
MarkStaleUnchecked(r, s, v) ==
    /\ s \in {"awaiting_approval", "approved"}
    /\ Cas(r, s, v)
    /\ Advance(r, "stale", "commit_precondition_stale")
    /\ UNCHANGED <<evidence, rows, approval, expires, receipt, keys, now>>

(* commit() passes run.state as the source, so this is refused for a client  *)
(* run, whose awaiting_approval state has no edge to stale.                  *)
MarkStale(r, s, v) == Transition(r, s, v, "stale", "commit_precondition_stale")

(* dest is the destination hash the caller observed, body the receipt hash.  *)
RecordCommitFinalized(r, s, v, dest, body) ==
    /\ s = "committing"
    /\ Cas(r, s, v)
    /\ dest = evidence[r]["candidate"]
    /\ "receipt" \notin rows[r]
    /\ Advance(r, "committed", "committed")
    /\ rows' = [rows EXCEPT ![r] = @ \cup {"receipt"}]
    /\ receipt' = [receipt EXCEPT ![r] = body]
    /\ UNCHANGED <<evidence, approval, expires, keys, now>>

MarkRolledBack(r, s, v) ==
    Transition(r, s, v, "rolled_back", "commit_reconciled_rolled_back")

MarkRecoveryRequired(r, s, v) ==
    Transition(r, s, v, "recovery_required", "commit_recovery_required")

(* The one audit event the policy admits on an approved run.                 *)
OrphanLockCleared(r, s, v) ==
    /\ s = "approved"
    /\ Cas(r, s, v)
    /\ Advance(r, "approved", "orphan_lock_cleared")
    /\ UNCHANGED <<evidence, rows, approval, expires, receipt, keys, now>>

(* The only events append_event admits on a terminal run.                    *)
PruneAudit(r, s, v, type) ==
    /\ s \in PruneEligible
    /\ Cas(r, s, v)
    /\ Advance(r, s, type)
    /\ UNCHANGED <<evidence, rows, approval, expires, receipt, keys, now>>

Tick ==
    /\ now < MaxTime
    /\ now' = now + 1
    /\ UNCHANGED <<state, revision, tail, evidence, rows, approval, expires,
                   receipt, keys>>

-----------------------------------------------------------------------------
LedgerInit ==
    /\ state = [r \in Runs |-> Null]
    /\ revision = [r \in Runs |-> 0]
    /\ tail = [r \in Runs |-> [sequence |-> 0, type |-> Null]]
    /\ evidence = [r \in Runs |-> [f \in Fields |-> Null]]
    /\ rows = [r \in Runs |-> {}]
    /\ approval = [r \in Runs |-> NoApproval]
    /\ expires = [r \in Runs |-> NoExpiry]
    /\ receipt = [r \in Runs |-> Null]
    /\ keys = [k \in Keys |-> Null]
    /\ now = 1

PrepareStep(r, s, v) ==
    \/ \E x \in [{"source", "prior"} -> Values] : SourceInspected(r, s, v, x)
    \/ \E x \in [{"plan"} -> Values] : PlanNormalized(r, s, v, x)
    \/ DryRunCompleted(r, s, v)
    \/ \E kind \in {"candidate", "diff"} : \E x \in [{kind} -> Values] :
          RecordArtifact(r, s, v, kind, x)
    \/ PreviewPersisted(r, s, v)
    \/ AwaitApproval(r, s, v)
    \/ RecordPrepareFailure(r, s, v)
    \/ ReconcilePreparing(r, s, v)

DecisionStep(r, s, v) ==
    \/ RecordApprovalOrExpire(r, s, v)
    \/ Reject(r, s, v)
    \/ Cancel(r, s, v)

CommitStep(r, s, v) ==
    \/ \E staged \in {Null} \cup {Binding(q) : q \in Runs} :
          RecordCommitIntent(r, s, v, staged)
    \/ MarkStale(r, s, v)
    \/ \E dest, body \in Values : RecordCommitFinalized(r, s, v, dest, body)
    \/ MarkRolledBack(r, s, v)
    \/ MarkRecoveryRequired(r, s, v)
    \/ OrphanLockCleared(r, s, v)

(* Operations of the ledger that no caller in this version uses.             *)
MaintenanceStep(r, s, v) ==
    \/ \E k \in Keys, q \in Requests : ReserveKey(r, s, v, k, q)
    \/ \E type \in TerminalAudits : PruneAudit(r, s, v, type)

CreateStep(r) ==
    \/ CreateRun(r)
    \/ \E k \in Keys, q \in Requests : CreateKeyedRun(r, k, q)

LedgerNext ==
    \/ \E r \in Runs : CreateStep(r)
    \/ \E r \in Runs, s \in States, v \in 1..MaxRevision :
          \/ PrepareStep(r, s, v) \/ DecisionStep(r, s, v)
          \/ CommitStep(r, s, v) \/ MaintenanceStep(r, s, v)
    \/ Tick

LedgerSpec == LedgerInit /\ [][LedgerNext]_ledgerVars

-----------------------------------------------------------------------------
(* The audit.                                                                *)

PreparedStates == States \ {"preparing", "failed", "cancelled"}
ApprovedStates == {"approved", "committing", "committed", "stale",
                   "rolled_back", "recovery_required"}

(* What verify_integrity demands of one run, hashes aside.                    *)
ArtifactsFit(r) ==
    /\ \A kind \in {"candidate", "diff"} : kind \in rows[r] <=> evidence[r][kind] # Null
    /\ "receipt" \in rows[r] <=> receipt[r] # Null

FailureFits(r) ==
    /\ "failure_evidence" \in rows[r] => state[r] = "failed"
    /\ tail[r].type = "failed" => "failure_evidence" \in rows[r]

ApprovalFits(r) ==
    IF approval[r] = NoApproval
    THEN state[r] \notin ApprovedStates \cup {"rejected"}
    ELSE /\ approval[r].binding[2] = expires[r]
         /\ state[r] \in ApprovedStates => approval[r].decision = "approved"
         /\ state[r] = "rejected" => approval[r].decision = "rejected"

ResultFits(r) == state[r] = "committed" <=> receipt[r] # Null

IntegrityHolds(r) ==
    /\ tail[r].sequence = revision[r]
    /\ ArtifactsFit(r) /\ FailureFits(r)
    /\ state[r] \in PreparedStates => CompletePrepare(r)
    /\ ApprovalFits(r) /\ ResultFits(r)

-----------------------------------------------------------------------------
(* Properties.                                                               *)

BindingType == [Fields -> Values \cup {Null}] \X (0..(MaxTime + Ttl))
ApprovalType == [decision : {"approved", "rejected"}, binding : BindingType]
                    \cup {NoApproval}

(* Types: the columns of the tables and the clock.                           *)
LedgerTypeOK ==
    /\ state \in [Runs -> States \cup {Null}]
    /\ revision \in [Runs -> 0..MaxRevision]
    /\ tail \in [Runs -> [sequence : Nat, type : EventTypes \cup {Null}]]
    /\ evidence \in [Runs -> [Fields -> Values \cup {Null}]]
    /\ rows \in [Runs -> SUBSET Kinds]
    /\ approval \in [Runs -> ApprovalType]
    /\ expires \in [Runs -> 0..(MaxTime + Ttl)]
    /\ receipt \in [Runs -> Values \cup {Null}]
    /\ keys \in [Keys -> [request : Requests, run : Runs] \cup {Null}]
    /\ now \in 1..MaxTime

(* The state an event of each type leaves its run in.                        *)
StateAfter == [type \in EventTypes \cup {Null} |->
    CASE type \in {"run_created", "source_inspected", "plan_normalized",
                   "dry_run_completed", "candidate_validated", "diff_created",
                   "preview_persisted", "idempotency_reserved"} -> "preparing"
      [] type = "awaiting_approval" -> "awaiting_approval"
      [] type \in {"approval_recorded", "orphan_lock_cleared"} -> "approved"
      [] type = "commit_started" -> "committing"
      [] type = "committed" -> "committed"
      [] type \in {"failed", "prepare_reconciled_failed"} -> "failed"
      [] type = "approval_rejected" -> "rejected"
      [] type = "cancelled" -> "cancelled"
      [] type = "approval_expired" -> "expired"
      [] type = "commit_precondition_stale" -> "stale"
      [] type = "commit_reconciled_rolled_back" -> "rolled_back"
      [] type = "commit_recovery_required" -> "recovery_required"
      [] OTHER -> Null]

(* The projected row and the event chain never disagree: the revision is the  *)
(* sequence of the last event (events_json tells a reader the list is        *)
(* truncated by comparing the two) and the state is the one it implies, or   *)
(* any that may be pruned when it is about pruning.                          *)
RowMatchesChain ==
    \A r \in Runs :
        /\ tail[r].sequence = revision[r]
        /\ IF tail[r].type \in TerminalAudits
           THEN state[r] \in PruneEligible
           ELSE state[r] = StateAfter[tail[r].type]

(* verify_integrity finds nothing to report about a ledger that only the     *)
(* program wrote: whatever calls raced, refused or gave up half way, an      *)
(* audit never accuses an untouched database.                                *)
VerifierAccepts == \A r \in Runs : state[r] # Null => IntegrityHolds(r)

(* The approvals row that fits the state of a run.                           *)
DecisionFits(r) ==
    /\ state[r] \in ApprovedStates =>
          approval[r] = [decision |-> "approved", binding |-> Binding(r)]
    /\ state[r] = "rejected" =>
          approval[r] = [decision |-> "rejected", binding |-> Binding(r)]
    /\ state[r] \in {Null, "preparing", "awaiting_approval", "failed", "expired"} =>
          approval[r] = NoApproval
    /\ state[r] = "cancelled" =>
          approval[r] \in {NoApproval, [decision |-> "approved", binding |-> Binding(r)]}

(* The approvals row and the state tell one story whichever calls raced: a   *)
(* run that reached commit holds an approval of exactly the evidence its row *)
(* still shows, a rejected one a rejection of it, an undecided one nothing.  *)
DecisionExplainsState == \A r \in Runs : DecisionFits(r)

(* An idempotency key names at most one run, that run exists, and no run is  *)
(* reached by two keys, so retried prepares cannot fork a request.           *)
OneRunPerKey ==
    \A k \in Keys : keys[k] # Null =>
        /\ state[keys[k].run] # Null
        /\ \A j \in Keys \ {k} : keys[j] # Null => keys[j].run # keys[k].run

outcome(r) == <<state[r], evidence[r], rows[r], approval[r], expires[r], receipt[r]>>

(* A terminal run keeps its outcome, whatever a caller with an old read      *)
(* still asks for: only pruning events follow it, none after                 *)
(* recovery_required.  And a bound key is never bound again.                 *)
TerminalIsFinal ==
    [][/\ \A r \in Runs : state[r] \in Terminal =>
            /\ outcome(r)' = outcome(r)
            /\ \/ tail'[r] = tail[r]
               \/ state[r] \in PruneEligible /\ tail'[r].type \in TerminalAudits
       /\ \A k \in Keys : keys[k] # Null => keys'[k] = keys[k]]_ledgerVars

(* Every state change is an edge of LEGAL_TRANSITIONS, the client run's      *)
(* direct edge from awaiting_approval to committing excepted: the record_*   *)
(* methods write the state themselves and never consult the table.           *)
FollowsStateMachine ==
    [][\A r \in Runs :
         \/ state'[r] = state[r]
         \/ state[r] = Null /\ state'[r] = "preparing"
         \/ <<state[r], state'[r]>> \in LegalTransitions
         \/ r \in ClientRuns /\ state[r] = "awaiting_approval"
               /\ state'[r] = "committing"]_ledgerVars

(* No approval is consumed in a later second than the one it expires in.     *)
ExpiryHonoured ==
    [][\A r \in Runs : state[r] # "committing" /\ state'[r] = "committing" =>
          Second(now) <= Second(expires[r])]_ledgerVars

=============================================================================
