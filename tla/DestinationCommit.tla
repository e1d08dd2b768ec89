------------------------- MODULE DestinationCommit -------------------------
(***************************************************************************)
(* The commit and recovery of workflow runs that share one destination     *)
(* file: WorkflowEngine.commit and reconcile (workflow/engine.py), the     *)
(* destination lock (workflow/locking.py), atomic_replace_bytes            *)
(* (utils/atomic_write.py) and the classification of what an interrupted   *)
(* commit left behind (workflow/recovery.py).                              *)
(*                                                                         *)
(* The ledger is that of WorkflowLedger, every mutation one step.  The     *)
(* files are written between those steps by processes that interleave,     *)
(* fail and crash at every point.  A process runs one call at a time and   *)
(* a crashed process never runs again: its pid is dead.                    *)
(***************************************************************************)
EXTENDS WorkflowLedger

CONSTANTS
    Contents,     \* digests of the files the destination may hold
    Absent,       \* no file
    Partial,      \* a backup whose copy was cut short
    Prior,        \* what prepare found at the destination, per run
    Candidate,    \* the approved candidate, per run
    Procs,        \* operating-system processes
    Committers,   \* those that serve fcpxml_workflow_commit
    Reconcilers,  \* those that run "fcp-mcp workflow reconcile"
    Outsiders,    \* what other programs may put at the destination
    MaxFaults     \* bound: I/O errors and outside changes in a behaviour

ASSUME CommitAssumption ==
    /\ Values = Contents \cup {Absent} \cup Procs
    /\ Absent \notin Contents \cup Procs
    /\ Partial \notin Contents \cup {Absent}
    /\ Prior \in [Runs -> Contents \cup {Absent}]
    /\ Candidate \in [Runs -> Contents]
    /\ Committers \cup Reconcilers \subseteq Procs
    /\ Outsiders \subseteq Contents \cup {Absent}
    /\ MaxFaults \in Nat

VARIABLES
    dest,         \* the destination file
    backup,       \* <destination>.bak.<attempt>, the path the intent names
    spare,        \* a timestamped backup, made when the intent names none
    receiptFile,  \* artifacts/<run>/receipt.json: the process that wrote it
    candidateOk,  \* candidate.fcpxml still has its recorded hash
    sourceOk,     \* the source still has its recorded hash
    lock,         \* locks/<destination>.lock
    pc,           \* where each process is
    call,         \* the call each process is executing
    faults        \* I/O errors and outside changes so far

files == <<dest, backup, spare, receiptFile, candidateOk, sourceOk>>
vars == <<ledgerVars, files, lock, pc, call, faults>>

NoLock == [owner |-> Null, run |-> Null, written |-> FALSE]
NoCall == [op |-> "none", run |-> Null, state |-> Null, revision |-> 0,
           opened |-> Absent, body |-> Null]

(* The places where a process believes it owns the destination lock.         *)
Critical == {"recheck", "stale", "intent", "backup", "copy", "replace",
             "validate", "rollback", "verify", "receipt", "finalize",
             "reassess", "recover", "mark_rolled_back",
             "mark_recovery_required", "release"}
Places == Critical \cup {"idle", "acquire", "payload", "verify_lock", "unlink",
                         "audit", "dead"}

run(p) == call[p].run
Goto(p, place) == pc' = [pc EXCEPT ![p] = place]
Return(p) == /\ pc' = [pc EXCEPT ![p] = "idle"]
             /\ call' = [call EXCEPT ![p] = NoCall]
Fault == faults < MaxFaults /\ faults' = faults + 1

-----------------------------------------------------------------------------
(* The destination lock.                                                     *)

(* DestinationLock.acquire: the exclusive create either makes an empty file  *)
(* or fails because one exists.                                              *)
CreateLock(p) ==
    /\ pc[p] = "acquire"
    /\ \/ /\ lock = NoLock
          /\ lock' = [owner |-> p, run |-> run(p), written |-> FALSE]
          /\ Goto(p, "payload")
          /\ UNCHANGED call
       \/ /\ lock # NoLock
          /\ Return(p)
          /\ UNCHANGED lock
    /\ UNCHANGED <<ledgerVars, files, faults>>

(* The rest of acquire: the payload, then the identity check by name.  An    *)
(* error leaves the file where it is and the caller without the lock.        *)
WriteLock(p) ==
    /\ pc[p] = "payload"
    /\ \/ /\ lock.owner = p
          /\ lock' = [lock EXCEPT !.written = TRUE]
          /\ Goto(p, IF call[p].op = "commit" THEN "recheck" ELSE "reassess")
          /\ UNCHANGED <<call, faults>>
       \/ /\ lock.owner # p
          /\ Return(p)
          /\ UNCHANGED <<lock, faults>>
       \/ /\ Fault
          /\ Return(p)
          /\ UNCHANGED lock
    /\ UNCHANGED <<ledgerVars, files>>

(* DestinationLock.release in the finally block: it unlinks the file only if *)
(* it still is the one this process created.                                 *)
ReleaseLock(p) ==
    /\ pc[p] = "release"
    /\ Return(p)
    /\ \/ lock' = (IF lock.owner = p THEN NoLock ELSE lock) /\ UNCHANGED faults
       \/ Fault /\ UNCHANGED lock
    /\ UNCHANGED <<ledgerVars, files>>

(* Mutant: the liveness of the recorded owner is not asked.                  *)
LockStateByRun(r) ==
    IF lock = NoLock THEN "absent"
    ELSE IF ~lock.written \/ lock.run # r THEN "unknown"
    ELSE "stale"

(* recovery.observe_lock as seen by run r.                                   *)
LockState(r) ==
    IF lock = NoLock THEN "absent"
    ELSE IF ~lock.written \/ lock.run # r THEN "unknown"
    ELSE IF pc[lock.owner] = "dead" THEN "stale" ELSE "held"

-----------------------------------------------------------------------------
(* WorkflowEngine.commit.                                                    *)

BeginCommit(p, r) ==
    /\ pc[p] = "idle"
    /\ p \in Committers
    /\ state[r] = CommitState(r)
    /\ call' = [call EXCEPT ![p] = [NoCall EXCEPT !.op = "commit", !.run = r,
                   !.state = state[r], !.revision = revision[r]]]
    /\ Goto(p, "acquire")
    /\ UNCHANGED <<ledgerVars, files, lock, faults>>

(* Mutant: the intent is never recorded.                                     *)
RecheckThenReplace(p) ==
    /\ pc[p] = "recheck"
    /\ LET r == run(p)
           matches == sourceOk[r] /\ dest = evidence[r]["prior"]
       IN Goto(p, IF ~candidateOk[r] THEN "release"
                  ELSE IF matches THEN "backup" ELSE "stale")
    /\ UNCHANGED <<ledgerVars, files, lock, call, faults>>

(* Every approved precondition is hashed again under the lock.  A source that *)
(* is gone and a candidate that lost its hash raise before any comparison.   *)
Recheck(p) ==
    /\ pc[p] = "recheck"
    /\ LET r == run(p)
           matches == sourceOk[r] /\ dest = evidence[r]["prior"]
       IN
       \/ candidateOk[r] /\ matches /\ Goto(p, "intent")
       \/ candidateOk[r] /\ ~matches /\ Goto(p, "stale")
       \/ ~(candidateOk[r] /\ sourceOk[r]) /\ Goto(p, "release")
    /\ UNCHANGED <<ledgerVars, files, lock, call, faults>>

(* A refused transition raises instead; either way the lock is released.     *)
CommitStale(p) ==
    /\ pc[p] = "stale"
    /\ Goto(p, "release")
    /\ LET c == call[p] IN
       \/ MarkStale(c.run, c.state, c.revision)
       \/ /\ ~(Cas(c.run, c.state, c.revision)
                 /\ <<c.state, "stale">> \in LegalTransitions)
          /\ UNCHANGED ledgerVars
    /\ UNCHANGED <<files, lock, call, faults>>

Staged(r) == IF r \in ClientRuns THEN Binding(r) ELSE Null

CommitIntent(p) ==
    /\ pc[p] = "intent"
    /\ LET c == call[p] IN
       \/ /\ RecordCommitIntent(c.run, c.state, c.revision, Staged(c.run))
          /\ call' = [call EXCEPT ![p].state = "committing",
                                  ![p].revision = @ + 1]
          /\ Goto(p, "backup")
       \/ /\ ~CanRecordIntent(c.run, c.state, c.revision, Staged(c.run))
          /\ Goto(p, "release")
          /\ UNCHANGED <<ledgerVars, call>>
    /\ UNCHANGED <<files, lock, faults>>

(* atomic_replace_bytes up to the creation of the backup.  The temporary     *)
(* file is private; failing to write it fails the call with nothing changed. *)
OpenBackup(p) ==
    /\ pc[p] = "backup"
    /\ LET r == run(p) IN
       \/ /\ dest = Absent
          /\ Goto(p, "replace")
          /\ UNCHANGED <<files, call>>
       \/ /\ dest # Absent
          /\ IF evidence[r]["prior"] = Absent
             THEN spare' = [spare EXCEPT ![r] = Partial] /\ UNCHANGED backup
             ELSE backup' = [backup EXCEPT ![r] = Partial] /\ UNCHANGED spare
          /\ call' = [call EXCEPT ![p].opened = dest]
          /\ Goto(p, "copy")
          /\ UNCHANGED <<dest, receiptFile, candidateOk, sourceOk>>
    /\ UNCHANGED <<ledgerVars, lock, faults>>

(* The copy ends with the file it was opened on still at the destination, or *)
(* the unfinished backup is removed and the call fails.                      *)
CopyBackup(p) ==
    /\ pc[p] = "copy"
    /\ LET r == run(p)
           copied(c) == IF evidence[r]["prior"] = Absent
                        THEN spare' = [spare EXCEPT ![r] = c] /\ UNCHANGED backup
                        ELSE backup' = [backup EXCEPT ![r] = c] /\ UNCHANGED spare
       IN
       \/ /\ dest = call[p].opened
          /\ copied(dest)
          /\ Goto(p, "replace")
          /\ UNCHANGED faults
       \/ /\ dest # call[p].opened
          /\ copied(Absent)
          /\ Goto(p, "release")
          /\ UNCHANGED faults
       \/ /\ Fault
          /\ copied(Absent)
          /\ Goto(p, "release")
    /\ UNCHANGED <<ledgerVars, dest, receiptFile, candidateOk, sourceOk, lock, call>>

(* os.replace of the temporary file.                                         *)
Replace(p) ==
    /\ pc[p] = "replace"
    /\ dest' = Candidate[run(p)]
    /\ Goto(p, "validate")
    /\ UNCHANGED <<ledgerVars, backup, spare, receiptFile, candidateOk, sourceOk,
                   lock, call, faults>>

(* The replaced destination is validated; content put there by another       *)
(* program may or may not be valid FCPXML.                                   *)
Validate(p) ==
    /\ pc[p] = "validate"
    /\ \/ dest # Absent /\ Goto(p, "verify") /\ UNCHANGED faults
       \/ dest # Candidate[run(p)] /\ Goto(p, "rollback") /\ UNCHANGED faults
       \/ Fault /\ Goto(p, "rollback")
    /\ UNCHANGED <<ledgerVars, files, lock, call>>

(* The except branch: put the backup back, or remove the new file when there *)
(* was nothing to back up.                                                   *)
Rollback(p) ==
    /\ pc[p] = "rollback"
    /\ Goto(p, "release")
    /\ dest' = call[p].opened
    /\ IF evidence[run(p)]["prior"] = Absent
       THEN spare' = [spare EXCEPT ![run(p)] = Absent] /\ UNCHANGED backup
       ELSE backup' = [backup EXCEPT ![run(p)] = Absent] /\ UNCHANGED spare
    /\ UNCHANGED <<ledgerVars, receiptFile, candidateOk, sourceOk, lock, call, faults>>

(* commit() checks what was backed up and reads the destination again.       *)
Verify(p) ==
    /\ pc[p] = "verify"
    /\ LET r == run(p) IN
       Goto(p, IF /\ call[p].opened = evidence[r]["prior"]
                  /\ backup[r] = evidence[r]["prior"]
                  /\ dest = Candidate[r]
               THEN "receipt" ELSE "release")
    /\ UNCHANGED <<ledgerVars, files, lock, call, faults>>

(* ArtifactStore.write replaces whatever receipt.json is there.              *)
WriteReceipt(p) ==
    /\ pc[p] = "receipt"
    /\ receiptFile' = [receiptFile EXCEPT ![run(p)] = p]
    /\ call' = [call EXCEPT ![p].body = p]
    /\ Goto(p, "finalize")
    /\ UNCHANGED <<ledgerVars, dest, backup, spare, candidateOk, sourceOk, lock, faults>>

Finalize(p) ==
    /\ pc[p] = "finalize"
    /\ Goto(p, "release")
    /\ LET c == call[p] IN
       \/ RecordCommitFinalized(c.run, c.state, c.revision, Candidate[c.run], c.body)
       \/ ~Cas(c.run, c.state, c.revision) /\ UNCHANGED ledgerVars
    /\ UNCHANGED <<files, lock, call, faults>>

-----------------------------------------------------------------------------
(* WorkflowEngine.reconcile.                                                 *)

(* recovery.assess_run for a committing run.                                 *)
CandidateInstalled(r) == candidateOk[r] /\ dest = Candidate[r]
(* Mutant: the backup of an installed candidate is taken for granted.        *)
RequiredBackupAssumed(r) == TRUE

RequiredBackupPresent(r) ==
    evidence[r]["prior"] = Absent \/ backup[r] = evidence[r]["prior"]
BackupConsistent(r) == backup[r] \in {Absent, evidence[r]["prior"]}
(* Mutant: rolled back is concluded from what is missing, without looking at *)
(* the destination.                                                          *)
BranchByElimination(r) ==
    IF CandidateInstalled(r) /\ RequiredBackupPresent(r)
    THEN "finalize_committed"
    ELSE IF receiptFile[r] = Absent /\ candidateOk[r] /\ BackupConsistent(r)
    THEN "mark_rolled_back"
    ELSE "mark_recovery_required"

Branch(r) ==
    IF CandidateInstalled(r) /\ RequiredBackupPresent(r)
    THEN "finalize_committed"
    ELSE IF /\ receiptFile[r] = Absent
            /\ candidateOk[r]
            /\ dest = evidence[r]["prior"]
            /\ BackupConsistent(r)
    THEN "mark_rolled_back"
    ELSE "mark_recovery_required"

(* Mutant: only a run that still has its stale lock is reconciled.           *)
BeginReconcileWithLock(p, r) ==
    /\ pc[p] = "idle"
    /\ p \in Reconcilers
    /\ state[r] \in {"approved", "committing"}
    /\ LockState(r) = "stale"
    /\ Goto(p, "verify_lock")
    /\ call' = [call EXCEPT ![p] = [NoCall EXCEPT
                   !.op = IF state[r] = "approved" THEN "clear" ELSE "reconcile",
                   !.run = r, !.state = state[r], !.revision = revision[r]]]
    /\ UNCHANGED <<ledgerVars, files, lock, faults>>

(* The assessment before any lock is taken: a stale lock is removed first,   *)
(* a live or ambiguous one ends the call.                                    *)
BeginReconcile(p, r) ==
    /\ pc[p] = "idle"
    /\ p \in Reconcilers
    /\ \/ /\ state[r] = "approved"
          /\ LockState(r) = "stale"
          /\ sourceOk[r] /\ dest = evidence[r]["prior"]
          /\ Goto(p, "verify_lock")
       \/ /\ state[r] = "committing"
          /\ LockState(r) \in {"stale", "absent"}
          /\ Goto(p, IF LockState(r) = "stale" THEN "verify_lock" ELSE "acquire")
    /\ call' = [call EXCEPT ![p] = [NoCall EXCEPT
                   !.op = IF state[r] = "approved" THEN "clear" ELSE "reconcile",
                   !.run = r, !.state = state[r], !.revision = revision[r]]]
    /\ UNCHANGED <<ledgerVars, files, lock, faults>>

(* remove_stale_lock until just before its unlink: the lock is observed,     *)
(* opened, compared with its name, and its owner found dead.                 *)
VerifyStaleLock(p) ==
    /\ pc[p] = "verify_lock"
    /\ \/ LockState(run(p)) = "stale" /\ Goto(p, "unlink") /\ UNCHANGED call
       \/ LockState(run(p)) # "stale" /\ Return(p)
    /\ UNCHANGED <<ledgerVars, files, lock, faults>>

(* The unlink is by name: it removes the file that has the name by now.      *)
UnlinkStaleLock(p) ==
    /\ pc[p] = "unlink"
    /\ \/ /\ lock # NoLock
          /\ lock' = NoLock
          /\ Goto(p, IF call[p].op = "clear" THEN "audit" ELSE "acquire")
          /\ UNCHANGED call
       \/ lock = NoLock /\ Return(p) /\ UNCHANGED lock
    /\ UNCHANGED <<ledgerVars, files, faults>>

RecordOrphanCleared(p) ==
    /\ pc[p] = "audit"
    /\ Return(p)
    /\ LET c == call[p] IN
       \/ OrphanLockCleared(c.run, c.state, c.revision)
       \/ ~Cas(c.run, c.state, c.revision) /\ UNCHANGED ledgerVars
    /\ UNCHANGED <<files, lock, faults>>

(* Under the lock the run is read and assessed again.                        *)
Reassess(p) ==
    /\ pc[p] = "reassess"
    /\ LET r == run(p) IN
       IF state[r] # "committing"
       THEN Goto(p, "release") /\ UNCHANGED call
       ELSE /\ call' = [call EXCEPT ![p].revision = revision[r]]
            /\ Goto(p, IF Branch(r) = "finalize_committed" THEN "recover"
                       ELSE Branch(r))
    /\ UNCHANGED <<ledgerVars, files, lock, faults>>

(* Mutants: receipt.json is adopted without looking whether it exists; a new *)
(* receipt is hashed while the one on disk is kept.                          *)
RecoverAdopting(p) ==
    /\ pc[p] = "recover"
    /\ call' = [call EXCEPT ![p].body = receiptFile[run(p)]]
    /\ Goto(p, "finalize")
    /\ UNCHANGED <<ledgerVars, files, lock, faults>>
RecoverRehashing(p) ==
    /\ pc[p] = "recover"
    /\ call' = [call EXCEPT ![p].body = p]
    /\ Goto(p, IF receiptFile[run(p)] # Absent THEN "finalize" ELSE "receipt")
    /\ UNCHANGED <<ledgerVars, files, lock, faults>>

(* _recovery_receipt: a consistent receipt.json is adopted, else a new one   *)
(* is built.                                                                 *)
Recover(p) ==
    /\ pc[p] = "recover"
    /\ LET r == run(p) IN
       \/ /\ ~candidateOk[r]
          /\ Goto(p, "release")
          /\ UNCHANGED call
       \/ /\ candidateOk[r] /\ receiptFile[r] # Absent
          /\ call' = [call EXCEPT ![p].body = receiptFile[r]]
          /\ Goto(p, "finalize")
       \/ /\ candidateOk[r] /\ receiptFile[r] = Absent
          /\ Goto(p, "receipt")
          /\ UNCHANGED call
    /\ UNCHANGED <<ledgerVars, files, lock, faults>>

MarkOutcome(p) ==
    /\ Goto(p, "release")
    /\ LET c == call[p] IN
       \/ pc[p] = "mark_rolled_back" /\ MarkRolledBack(c.run, c.state, c.revision)
       \/ pc[p] = "mark_recovery_required"
            /\ MarkRecoveryRequired(c.run, c.state, c.revision)
       \/ /\ pc[p] \in {"mark_rolled_back", "mark_recovery_required"}
          /\ ~Cas(c.run, c.state, c.revision)
          /\ UNCHANGED ledgerVars
    /\ UNCHANGED <<files, lock, call, faults>>

-----------------------------------------------------------------------------
(* What happens around the calls.                                            *)

(* The process is killed or exits; what it left on disk stays.  The end of an *)
(* idle process shows only when a lock file names it.                        *)
Crash(p) ==
    /\ pc[p] # "dead"
    /\ pc[p] # "idle" \/ lock.owner = p
    /\ pc' = [pc EXCEPT ![p] = "dead"]
    /\ call' = [call EXCEPT ![p] = NoCall]
    /\ UNCHANGED <<ledgerVars, files, lock, faults>>

(* Where no handler does more, an I/O error or a KeyboardInterrupt ends the  *)
(* call with what it has written; under the lock it still releases it.       *)
Interrupt(p) ==
    /\ Fault
    /\ \/ /\ pc[p] \in Critical \ {"copy", "release"}
          /\ Goto(p, "release")
          /\ UNCHANGED call
       \/ /\ pc[p] \in {"verify_lock", "unlink", "audit"}
          /\ Return(p)
    /\ UNCHANGED <<ledgerVars, files, lock>>

(* fcpxml_workflow_cancel, whose read and compare-and-set succeed together.  *)
CancelRun(r) ==
    /\ Cancel(r, state[r], revision[r])
    /\ UNCHANGED <<files, lock, pc, call, faults>>

(* Another program saves to the destination by rename, or deletes it.        *)
OutsideWrite ==
    /\ Fault
    /\ dest' \in Outsiders \ {dest}
    /\ UNCHANGED <<ledgerVars, backup, spare, receiptFile, candidateOk, sourceOk,
                   lock, pc, call>>

ChangeSource(r) ==
    /\ Fault
    /\ sourceOk[r]
    /\ sourceOk' = [sourceOk EXCEPT ![r] = FALSE]
    /\ UNCHANGED <<ledgerVars, dest, backup, spare, receiptFile, candidateOk,
                   lock, pc, call>>

DamageCandidate(r) ==
    /\ Fault
    /\ candidateOk[r]
    /\ candidateOk' = [candidateOk EXCEPT ![r] = FALSE]
    /\ UNCHANGED <<ledgerVars, dest, backup, spare, receiptFile, sourceOk,
                   lock, pc, call>>

Expire == Tick /\ UNCHANGED <<files, lock, pc, call, faults>>

-----------------------------------------------------------------------------
(* Runs enter the model prepared, and in CLI mode approved.                  *)
Prepared(r) == [f \in Fields |-> IF f = "prior" THEN Prior[r] ELSE Candidate[r]]

Init ==
    /\ state = [r \in Runs |-> CommitState(r)]
    /\ revision = [r \in Runs |-> 1]
    /\ tail = [r \in Runs |-> [sequence |-> 1, type |->
                  IF r \in ClientRuns THEN "awaiting_approval" ELSE "approval_recorded"]]
    /\ evidence = [r \in Runs |-> Prepared(r)]
    /\ rows = [r \in Runs |-> {"candidate", "diff"}]
    /\ expires = [r \in Runs |-> 1 + Ttl]
    /\ approval = [r \in Runs |->
          IF r \in ClientRuns THEN NoApproval
          ELSE [decision |-> "approved", binding |-> <<Prepared(r), 1 + Ttl>>]]
    /\ receipt = [r \in Runs |-> Null]
    /\ keys = [k \in Keys |-> Null]
    /\ now = 1
    /\ dest \in {Prior[r] : r \in Runs}
    /\ backup = [r \in Runs |-> Absent]
    /\ spare = [r \in Runs |-> Absent]
    /\ receiptFile = [r \in Runs |-> Absent]
    /\ candidateOk = [r \in Runs |-> TRUE]
    /\ sourceOk = [r \in Runs |-> TRUE]
    /\ lock = NoLock
    /\ pc = [p \in Procs |-> "idle"]
    /\ call = [p \in Procs |-> NoCall]
    /\ faults = 0

(* One step of a call in progress.                                           *)
CommitProgress(p) ==
    \/ Recheck(p) \/ CommitStale(p) \/ CommitIntent(p) \/ OpenBackup(p)
    \/ CopyBackup(p) \/ Replace(p) \/ Validate(p) \/ Rollback(p) \/ Verify(p)
RecoveryProgress(p) ==
    \/ VerifyStaleLock(p) \/ UnlinkStaleLock(p) \/ RecordOrphanCleared(p)
    \/ Reassess(p) \/ Recover(p) \/ MarkOutcome(p)
SharedProgress(p) ==
    CreateLock(p) \/ WriteLock(p) \/ WriteReceipt(p) \/ Finalize(p) \/ ReleaseLock(p)
Progress(p) == CommitProgress(p) \/ RecoveryProgress(p) \/ SharedProgress(p)

Environment ==
    \/ \E r \in Runs : CancelRun(r) \/ ChangeSource(r) \/ DamageCandidate(r)
    \/ OutsideWrite
    \/ Expire

Next ==
    \/ \E p \in Procs :
          \/ \E r \in Runs : BeginCommit(p, r) \/ BeginReconcile(p, r)
          \/ Progress(p)
          \/ Interrupt(p)
          \/ Crash(p)
    \/ Environment

Spec == Init /\ [][Next]_vars

-----------------------------------------------------------------------------
(* Properties.                                                               *)

CallType == [op : {"none", "commit", "clear", "reconcile"}, run : Runs \cup {Null},
             state : States \cup {Null}, revision : Nat,
             opened : Contents \cup {Absent}, body : Procs \cup {Null}]

(* Types: the ledger, the files, the lock and the calls in progress.         *)
TypeOK ==
    /\ LedgerTypeOK
    /\ dest \in Contents \cup {Absent}
    /\ backup \in [Runs -> Contents \cup {Absent, Partial}]
    /\ spare \in [Runs -> Contents \cup {Absent, Partial}]
    /\ receiptFile \in [Runs -> Procs \cup {Absent}]
    /\ candidateOk \in [Runs -> BOOLEAN]
    /\ sourceOk \in [Runs -> BOOLEAN]
    /\ lock \in [owner : Procs, run : Runs, written : BOOLEAN] \cup {NoLock}
    /\ pc \in [Procs -> Places]
    /\ call \in [Procs -> CallType]
    /\ \A p \in Procs : pc[p] \notin {"idle", "dead"} => run(p) \in Runs
    /\ faults \in 0..MaxFaults

(* At most one process works on the destination under its lock, through      *)
(* crashes of the owner and removal of its orphaned lock file.               *)
OneHolder ==
    \A p, q \in Procs : pc[p] \in Critical /\ pc[q] \in Critical => p = q

(* The states of a run whose intent is durable, or has been.                 *)
Intended == {"committing", "committed", "rolled_back", "recovery_required"}

(* No destination mutation begins before the intent is durable: whenever a   *)
(* call changes the destination its run is committing and its approval is    *)
(* the consumed one, through crashes, retries and races.                     *)
MutationNeedsIntent ==
    [][dest' # dest /\ faults' = faults =>
         \E p \in Procs : /\ pc[p] \in {"replace", "rollback"}
                          /\ state[run(p)] = "committing"
                          /\ approval[run(p)].decision = "approved"]_vars

(* A committed run keeps the file it was approved against, whole, in the     *)
(* backup its intent named, whichever process finished it and whatever       *)
(* failed before.  What another program put there after that backup was      *)
(* taken is replaced without one: nothing locks it out.                      *)
CommittedKeepsPrior ==
    \A r \in Runs : state[r] = "committed" => backup[r] = evidence[r]["prior"]

(* The ledger's receipt hash is that of the receipt.json on disk, so a       *)
(* repeated commit can return it.                                            *)
ReceiptMatchesLedger ==
    \A r \in Runs : state[r] = "committed" => receiptFile[r] = receipt[r]

(* remove_stale_lock removes only the lock of an owner that is dead.  The    *)
(* unlink is by name, after the checks, and two reconcilers can cross.       *)
OnlyDeadLocksRemoved ==
    [][\A p \in Procs : pc[p] = "unlink" /\ lock # NoLock /\ lock' = NoLock =>
          pc[lock.owner] = "dead"]_vars

(* What the ledger and the destination are to AtomicInstall.                 *)
Abstract == INSTANCE AtomicInstall WITH
    target <- dest,
    phase <- [r \in Runs |->
        IF state[r] \in {"awaiting_approval", "approved"} THEN "open"
        ELSE IF state[r] = "committing" THEN "begun"
        ELSE IF state[r] \in Intended THEN state[r] ELSE "closed"]

(* Locking, intent, replacement, rollback and recovery together implement    *)
(* the atomic installation, as long as no other program writes the file.     *)
ImplementsAtomicInstall == Abstract!AbstractSpec

-----------------------------------------------------------------------------
(* Liveness.  A call that started runs to its end unless its process dies,   *)
(* and an operator keeps running reconcile while a reconciler is left.       *)
Fairness ==
    /\ \A p \in Procs : WF_vars(Progress(p))
    /\ \A p \in Reconcilers, r \in Runs : WF_vars(BeginReconcile(p, r))

FairSpec == Spec /\ Fairness

NoReconcilerLeft == \A p \in Reconcilers : pc[p] = "dead"

(* A lock file that reconcile may not touch: ambiguous, or of a live owner   *)
(* that is no longer using it.                                               *)
Obstructed(r) ==
    \/ LockState(r) = "unknown"
    \/ LockState(r) = "held" /\ pc[lock.owner] = "idle"

(* Only such a lock file can keep an interrupted commit from being resolved: *)
(* no crash, error or outside write leaves evidence reconcile cannot judge.  *)
UnobstructedCommitResolves ==
    \A r \in Runs : state[r] = "committing" ~>
        (state[r] # "committing" \/ NoReconcilerLeft \/ []Obstructed(r))

=============================================================================
