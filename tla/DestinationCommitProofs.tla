----------------------- MODULE DestinationCommitProofs -----------------------
(***************************************************************************)
(* What a commit guarantees for every number of runs, processes and files. *)
(*                                                                         *)
(* Every mutation of the ledger by a commit or a reconcile is a step of    *)
(* WorkflowLedger, so that the ledger's own invariants hold here.  The     *)
(* rest follows from the destination lock: while a call works under it, no *)
(* other call changes the destination, the backups, the receipts or the    *)
(* state of a committing run.  The lock excludes as long as one operator   *)
(* reconciles at a time (see OnlyDeadLocksRemoved).                        *)
(***************************************************************************)
EXTENDS DestinationCommit, WorkflowLedgerProofs

(* No two reconcilers: the case in which remove_stale_lock is safe.          *)
OneOperator == \A p, q \in Reconcilers : p = q

-----------------------------------------------------------------------------
(* The inductive invariant.                                                  *)

(* Beside the ledger: the files, the lock and the calls.                     *)
CallTypeOK ==
    /\ lock \in [owner : Procs, run : Runs, written : BOOLEAN] \cup {NoLock}
    /\ pc \in [Procs -> Places]
    /\ call \in [Procs -> CallType]
    /\ \A p \in Procs : pc[p] \notin {"idle", "dead"} => run(p) \in Runs
    /\ \A p \in Procs : pc[p] = "finalize" => call[p].body \in Procs

FileTypeOK ==
    /\ dest \in Contents \cup {Absent}
    /\ backup \in [Runs -> Contents \cup {Absent, Partial}]
    /\ spare \in [Runs -> Contents \cup {Absent, Partial}]
    /\ receiptFile \in [Runs -> Procs \cup {Absent}]
    /\ candidateOk \in [Runs -> BOOLEAN]
    /\ sourceOk \in [Runs -> BOOLEAN]
    /\ faults \in 0..MaxFaults

(* Every run is in the ledger with the evidence it was prepared with.        *)
RunsPrepared ==
    /\ \A r \in Runs : state[r] \in States /\ revision[r] >= 1
    /\ evidence = [r \in Runs |-> Prepared(r)]

(* So far it takes no lock: however many reconcile at once, this much holds. *)
RowsAndFiles == LedgerInv /\ CallTypeOK /\ FileTypeOK /\ RunsPrepared

(* The lock file names whoever works under it, and one that is about to be   *)
(* unlinked is that of a dead process.                                       *)
LockFits ==
    \A p \in Procs :
        /\ pc[p] \in Critical =>
              lock = [owner |-> p, run |-> run(p), written |-> TRUE]
        /\ pc[p] = "payload" =>
              lock = [owner |-> p, run |-> run(p), written |-> FALSE]
        /\ pc[p] \in {"verify_lock", "unlink", "audit"} => p \in Reconcilers
        /\ pc[p] = "unlink" => lock # NoLock /\ pc[lock.owner] = "dead"

(* The steps at which the intent of the run is durable and unresolved.       *)
Resolving == {"backup", "copy", "replace", "validate", "rollback", "verify",
              "receipt", "finalize", "recover", "mark_rolled_back",
              "mark_recovery_required"}

(* What a call has made sure of when it gets so far.                         *)
CallFitsOf(p) ==
    /\ pc[p] \in Resolving => state[run(p)] = "committing"
    /\ pc[p] \in {"receipt", "finalize", "recover"} => backup[run(p)] = Prior[run(p)]
    /\ pc[p] = "finalize" => receiptFile[run(p)] = call[p].body
CallFits == \A p \in Procs : CallFitsOf(p)

(* What a committed run has left beside the ledger.                          *)
KeptSafe(r) ==
    /\ Prior[r] = Absent => backup[r] = Absent
    /\ state[r] = "committed" =>
          backup[r] = Prior[r] /\ receiptFile[r] = receipt[r]
EvidenceKeptSafe == \A r \in Runs : KeptSafe(r)

CommitInv == RowsAndFiles /\ LockFits /\ CallFits /\ EvidenceKeptSafe

(* Where the destination stands while a call works on it, when no other      *)
(* program writes there.                                                     *)
DestinationFitsOf(p) ==
    /\ pc[p] \in {"verify_lock", "unlink", "acquire", "payload", "recheck", "intent",
                 "backup"} =>
          call[p].opened = Absent
    /\ pc[p] \in {"intent", "backup", "copy", "replace", "mark_rolled_back"} =>
          dest = Prior[run(p)]
    /\ pc[p] \in {"copy", "replace", "validate", "rollback", "verify"} =>
          call[p].opened = Prior[run(p)]
    /\ pc[p] \in {"validate", "rollback", "verify", "receipt", "finalize", "recover"} =>
          dest = Candidate[run(p)]
DestinationFits == \A p \in Procs : DestinationFitsOf(p)

-----------------------------------------------------------------------------
(* The ledger.                                                               *)

(* A mutation that passed its compare-and-set is a step of the ledger: the   *)
(* state and the revision its caller held are those of the row.              *)
LEMMA MutationIsLedgerStep ==
    ASSUME LedgerTypeOK, RunsPrepared, NEW r \in Runs, NEW s, NEW v,
           Cas(r, s, v), DecisionStep(r, s, v) \/ CommitStep(r, s, v)
    PROVE  LedgerNext
<1>1. s \in States /\ v \in 1..MaxRevision
  BY DEF Cas, RunsPrepared, LedgerTypeOK
<1> QED BY <1>1 DEF LedgerNext

(* Every step of a commit, of a reconcile or of their environment is a step  *)
(* of the ledger or leaves it alone.                                         *)
LEMMA StepsOfLedger ==
    ASSUME RowsAndFiles, [Next]_vars
    PROVE  [LedgerNext]_ledgerVars
<1> USE DEF RowsAndFiles, LedgerInv
<1>1. CASE UNCHANGED vars
  BY <1>1 DEF vars
<1>2. CASE Environment
  <2>1. ASSUME NEW r \in Runs, CancelRun(r)
        PROVE  LedgerNext
    BY <2>1, MutationIsLedgerStep DEF CancelRun, DecisionStep, Cancel, Transition
  <2> QED BY <1>2, <2>1 DEF Environment, ChangeSource, DamageCandidate, OutsideWrite,
                            Expire, LedgerNext
<1>3. ASSUME NEW p \in Procs, CommitStale(p) \/ CommitIntent(p) \/ Finalize(p)
                 \/ RecordOrphanCleared(p) \/ MarkOutcome(p)
      PROVE  [LedgerNext]_ledgerVars
  <2>1. run(p) \in Runs
    BY <1>3 DEF CallTypeOK, CommitStale, CommitIntent, Finalize, RecordOrphanCleared,
                MarkOutcome
  <2>2. CASE CommitStale(p)
    BY <2>1, <2>2, MutationIsLedgerStep
    DEF CommitStale, CommitStep, MarkStale, Transition, run
  <2>3. CASE CommitIntent(p)
    <3>1. Staged(run(p)) \in {Null} \cup {Binding(q) : q \in Runs}
      BY <2>1 DEF Staged
    <3> QED BY <2>1, <2>3, <3>1, MutationIsLedgerStep
            DEF CommitIntent, CommitStep, RecordCommitIntent, CanRecordIntent, run
  <2>4. CASE Finalize(p)
    <3>1. Candidate[run(p)] \in Values /\ call[p].body \in Values
      BY <2>1, <2>4, CommitAssumption DEF Finalize, CallTypeOK
    <3> QED BY <2>1, <2>4, <3>1, MutationIsLedgerStep
            DEF Finalize, CommitStep, RecordCommitFinalized, run
  <2>5. CASE RecordOrphanCleared(p)
    BY <2>1, <2>5, MutationIsLedgerStep
    DEF RecordOrphanCleared, CommitStep, OrphanLockCleared, run
  <2>6. CASE MarkOutcome(p)
    BY <2>1, <2>6, MutationIsLedgerStep
    DEF MarkOutcome, CommitStep, MarkRolledBack, MarkRecoveryRequired, Transition, run
  <2> QED BY <1>3, <2>2, <2>3, <2>4, <2>5, <2>6
<1>4. ASSUME NEW p \in Procs,
             \/ \E r \in Runs : BeginCommit(p, r) \/ BeginReconcile(p, r)
             \/ Progress(p) \/ Interrupt(p) \/ Crash(p)
      PROVE  [LedgerNext]_ledgerVars
  BY <1>3, <1>4
  DEF BeginCommit, BeginReconcile, Progress, CommitProgress, RecoveryProgress,
      SharedProgress, Interrupt, Crash, Recheck, OpenBackup, CopyBackup, Replace,
      Validate, Rollback, Verify, VerifyStaleLock, UnlinkStaleLock, Reassess,
      Recover, CreateLock, WriteLock, WriteReceipt, ReleaseLock
<1> QED BY <1>1, <1>2, <1>4 DEF Next

(* The ledger invariant is kept by them.                                     *)
LEMMA LedgerInvKept == RowsAndFiles /\ [Next]_vars => LedgerInv'
BY StepsOfLedger, LedgerKept DEF RowsAndFiles

(* A transition or any other mutation advances one run to a known state.     *)
LEMMA AdvanceKeepsRuns ==
    ASSUME LedgerTypeOK, RunsPrepared, NEW r \in Runs, NEW to \in States, NEW type,
           Advance(r, to, type), UNCHANGED evidence
    PROVE  RunsPrepared'
<1>1. ASSUME NEW q \in Runs
      PROVE  state'[q] \in States /\ revision'[q] >= 1
  <2>1. revision[q] \in Int /\ revision[q] >= 1 /\ state[q] \in States
    BY LedgerAssumption DEF LedgerTypeOK, RunsPrepared
  <2>2. CASE q = r
    BY <2>1, <2>2, AdvanceRows
  <2>3. CASE q # r
    BY <2>1, <2>3, AdvanceRows
  <2> QED BY <2>2, <2>3
<1>2. evidence' = [q \in Runs |-> Prepared(q)']
  BY DEF RunsPrepared, Prepared
<1> QED BY <1>1, <1>2 DEF RunsPrepared

(* No step prepares a run again or takes one away.                           *)
LEMMA RunsStayPrepared == RowsAndFiles /\ [Next]_vars => RunsPrepared'
<1> SUFFICES ASSUME RowsAndFiles, [Next]_vars
             PROVE  RunsPrepared'
  OBVIOUS
<1> USE DEF RowsAndFiles, LedgerInv
<1>1. ASSUME UNCHANGED <<state, revision, evidence>>
      PROVE  RunsPrepared'
  BY <1>1 DEF RunsPrepared, Prepared
<1>2. ASSUME NEW r \in Runs, NEW s, NEW v, NEW to \in States, NEW type,
             Transition(r, s, v, to, type)
      PROVE  RunsPrepared'
  BY <1>2, AdvanceKeepsRuns DEF Transition
<1>3. CASE UNCHANGED vars
  BY <1>1, <1>3 DEF vars, ledgerVars
<1>4. CASE Environment
  BY <1>1, <1>2, <1>4
  DEF Environment, CancelRun, Cancel, ChangeSource, DamageCandidate, OutsideWrite,
      Expire, Tick, ledgerVars, States, Terminal
<1>5. ASSUME NEW p \in Procs, Progress(p)
      PROVE  RunsPrepared'
  <2> USE DEF States, Terminal
  <2>1. pc[p] \notin {"idle", "dead"} => run(p) \in Runs
    BY DEF CallTypeOK
  <2>2. CASE CommitStale(p)
    BY <1>1, <1>2, <2>1, <2>2 DEF CommitStale, MarkStale, ledgerVars, run
  <2>3. CASE CommitIntent(p)
    BY <1>1, <2>1, <2>3, AdvanceKeepsRuns
    DEF CommitIntent, RecordCommitIntent, ledgerVars, run
  <2>4. CASE Finalize(p)
    BY <1>1, <2>1, <2>4, AdvanceKeepsRuns
    DEF Finalize, RecordCommitFinalized, ledgerVars, run
  <2>5. CASE RecordOrphanCleared(p)
    BY <1>1, <2>1, <2>5, AdvanceKeepsRuns
    DEF RecordOrphanCleared, OrphanLockCleared, ledgerVars, run
  <2>6. CASE MarkOutcome(p)
    BY <1>1, <1>2, <2>1, <2>6
    DEF MarkOutcome, MarkRolledBack, MarkRecoveryRequired, ledgerVars, run
  <2> QED
    BY <1>1, <1>5, <2>2, <2>3, <2>4, <2>5, <2>6
    DEF Progress, CommitProgress, RecoveryProgress, SharedProgress, Recheck,
        OpenBackup, CopyBackup, Replace, Validate, Rollback, Verify, VerifyStaleLock,
        UnlinkStaleLock, Reassess, Recover, CreateLock, WriteLock, WriteReceipt,
        ReleaseLock, ledgerVars
<1>6. ASSUME NEW p \in Procs,
             \/ \E r \in Runs : BeginCommit(p, r) \/ BeginReconcile(p, r)
             \/ Interrupt(p) \/ Crash(p)
      PROVE  RunsPrepared'
  BY <1>1, <1>6 DEF BeginCommit, BeginReconcile, Interrupt, Crash, ledgerVars
<1> QED BY <1>3, <1>4, <1>5, <1>6 DEF Next

-----------------------------------------------------------------------------
(* Types.                                                                    *)

(* How one step of a call moves it: its process alone, along a known edge,   *)
(* and on the same run until the call returns.                               *)
Moves(p) ==
    /\ pc' = [pc EXCEPT ![p] = pc'[p]]
    /\ call' = [call EXCEPT ![p] = call'[p]]
    /\ pc'[p] \in Places
    /\ call'[p] \in CallType
    /\ pc'[p] \notin {"idle", "dead"} => call'[p].run \in Runs
    /\ pc[p] \notin {"idle", "dead"} /\ pc'[p] \notin {"idle", "dead"} =>
          call'[p].run = call[p].run /\ call'[p].op = call[p].op

(* A step that stays in its call and leaves the call's reads alone.          *)
LEMMA GotoMoves ==
    ASSUME CallTypeOK, NEW p \in Procs, NEW place \in Places, pc[p] \notin {"idle", "dead"},
           Goto(p, place), UNCHANGED call
    PROVE  Moves(p)
BY DEF CallTypeOK, Moves, Goto, run

(* The end of a call.                                                        *)
LEMMA ReturnMoves ==
    ASSUME CallTypeOK, NEW p \in Procs, Return(p)
    PROVE  Moves(p)
BY DEF CallTypeOK, Moves, Return, NoCall, CallType, Places

(* Every step of a process, other than the start of a call, moves it so.     *)
LEMMA StepMoves ==
    ASSUME RowsAndFiles, NEW p \in Procs, Progress(p) \/ Interrupt(p) \/ Crash(p)
    PROVE  Moves(p)
<1> USE DEF RowsAndFiles, LedgerInv
<1>1. CallTypeOK
  OBVIOUS
<1>2. ASSUME NEW place \in Places, pc[p] \notin {"idle", "dead"}, Goto(p, place),
             NEW c \in CallType, call' = [call EXCEPT ![p] = c], c.run = run(p),
             c.op = call[p].op
      PROVE  Moves(p)
  BY <1>1, <1>2 DEF CallTypeOK, Moves, Goto, run
<1>3. CASE CommitProgress(p)
  <2> USE DEF Places, Critical
  <2>1. CASE CommitIntent(p)
    <3> DEFINE c == [call[p] EXCEPT !.state = "committing", !.revision = @ + 1]
    <3>1. c \in CallType
      <4>1. call[p] \in CallType /\ "committing" \in States
        BY <1>1 DEF CallTypeOK, States
      <4>2. call[p].revision + 1 \in Nat
        BY <4>1 DEF CallType
      <4> QED BY <4>1, <4>2 DEF CallType
    <3>2. c.run = run(p) /\ c.op = call[p].op
      BY <1>1 DEF CallTypeOK, CallType, run
    <3>3. call' = [call EXCEPT ![p] = c] \/ UNCHANGED call
      BY <2>1 DEF CommitIntent
    <3> HIDE DEF c
    <3> QED BY <1>1, <1>2, <2>1, <3>1, <3>2, <3>3, GotoMoves DEF CommitIntent
  <2>2. CASE OpenBackup(p)
    <3>1. [call[p] EXCEPT !.opened = dest] \in CallType
      BY <1>1 DEF CallTypeOK, CallType, FileTypeOK
    <3> QED BY <1>1, <1>2, <2>2, <3>1, GotoMoves DEF OpenBackup, CallTypeOK, CallType, run
  <2> QED BY <1>1, <1>3, <2>1, <2>2, GotoMoves
          DEF CommitProgress, Recheck, CommitStale, CopyBackup, Replace, Validate,
              Rollback, Verify
<1>4. CASE RecoveryProgress(p)
  <2> USE DEF Places, Critical
  <2>1. CASE Reassess(p)
    <3>1. run(p) \in Runs /\ revision[run(p)] \in Nat /\ call[p] \in CallType
      BY <1>1, <2>1, LedgerAssumption DEF CallTypeOK, Reassess, LedgerTypeOK
    <3>2. [call[p] EXCEPT !.revision = revision[run(p)]] \in CallType
      BY <3>1 DEF CallType
    <3> QED BY <1>1, <1>2, <2>1, <3>2, GotoMoves
            DEF Reassess, CallTypeOK, CallType, run, Branch
  <2>2. CASE Recover(p)
    <3>1. receiptFile[run(p)] # Absent =>
             [call[p] EXCEPT !.body = receiptFile[run(p)]] \in CallType
      BY <1>1, <2>2 DEF CallTypeOK, CallType, Recover, FileTypeOK
    <3> QED BY <1>1, <1>2, <2>2, <3>1, GotoMoves DEF Recover, CallTypeOK, CallType, run
  <2> QED BY <1>1, <1>4, <2>1, <2>2, GotoMoves, ReturnMoves
          DEF RecoveryProgress, VerifyStaleLock, UnlinkStaleLock, RecordOrphanCleared,
              MarkOutcome
<1>5. CASE SharedProgress(p)
  <2> USE DEF Places, Critical
  <2>1. CASE WriteReceipt(p)
    <3>1. [call[p] EXCEPT !.body = p] \in CallType
      BY <1>1 DEF CallTypeOK, CallType
    <3> QED BY <1>1, <1>2, <2>1, <3>1 DEF WriteReceipt, CallTypeOK, CallType, run
  <2> QED BY <1>1, <1>5, <2>1, GotoMoves, ReturnMoves
          DEF SharedProgress, CreateLock, WriteLock, Finalize, ReleaseLock
<1>6. CASE Interrupt(p)
  BY <1>1, <1>6, GotoMoves, ReturnMoves DEF Interrupt, Places, Critical
<1>7. CASE Crash(p)
  BY <1>1, <1>7 DEF Crash, Moves, CallTypeOK, CallType, NoCall, Places
<1> QED BY <1>3, <1>4, <1>5, <1>6, <1>7 DEF Progress

(* A call comes to the end of its commit with a receipt.                     *)
LEMMA BodyWritten ==
    ASSUME RowsAndFiles, NEW p \in Procs, Progress(p) \/ Interrupt(p) \/ Crash(p),
           pc'[p] = "finalize"
    PROVE  call'[p].body \in Procs
<1>0. CallTypeOK /\ FileTypeOK
  BY DEF RowsAndFiles
<1>1. ASSUME NEW place, Goto(p, place)
      PROVE  place = "finalize"
  BY <1>0, <1>1 DEF Goto, CallTypeOK
<1>2. ~Return(p) /\ ~Crash(p)
  BY <1>0 DEF Return, Crash, CallTypeOK
<1>3. CASE WriteReceipt(p)
  BY <1>0, <1>3 DEF WriteReceipt, CallTypeOK, CallType
<1>4. CASE Recover(p)
  <2>1. run(p) \in Runs /\ receiptFile[run(p)] # Absent /\ call'[p].body = receiptFile[run(p)]
    BY <1>0, <1>1, <1>4 DEF Recover, CallTypeOK, CallType
  <2> QED BY <1>0, <2>1 DEF FileTypeOK
<1> QED
  BY <1>1, <1>2, <1>3, <1>4
  DEF Progress, CommitProgress, RecoveryProgress, SharedProgress, Interrupt,
      Recheck, CommitStale, CommitIntent, OpenBackup, CopyBackup, Replace, Validate,
      Rollback, Verify, VerifyStaleLock, UnlinkStaleLock, RecordOrphanCleared, Reassess,
      MarkOutcome, CreateLock, WriteLock, Finalize, ReleaseLock, Branch

(* The calls stay typed: a process is always at a known place, with a run.   *)
LEMMA CallTypesKept == RowsAndFiles /\ [Next]_vars => CallTypeOK'
<1> SUFFICES ASSUME RowsAndFiles, [Next]_vars
             PROVE  CallTypeOK'
  OBVIOUS
<1> DEFINE LockType == [owner : Procs, run : Runs, written : BOOLEAN] \cup {NoLock}
<1>0. CallTypeOK /\ lock \in LockType
  BY DEF RowsAndFiles, CallTypeOK
<1>1. ASSUME NEW p \in Procs, Moves(p), pc'[p] = "finalize" => call'[p].body \in Procs
      PROVE  /\ pc' \in [Procs -> Places]
             /\ call' \in [Procs -> CallType]
             /\ \A q \in Procs : pc'[q] \notin {"idle", "dead"} => run(q)' \in Runs
             /\ \A q \in Procs : pc'[q] = "finalize" => call'[q].body \in Procs
  BY <1>0, <1>1 DEF CallTypeOK, Moves, run
<1>2. CASE UNCHANGED vars
  BY <1>0, <1>2 DEF vars, CallTypeOK, run
<1>3. CASE Environment
  BY <1>0, <1>3
  DEF Environment, CancelRun, ChangeSource, DamageCandidate, OutsideWrite, Expire,
      CallTypeOK, run
<1>4. ASSUME NEW p \in Procs, NEW r \in Runs, BeginCommit(p, r) \/ BeginReconcile(p, r)
      PROVE  CallTypeOK'
  <2>1. state[r] \in States /\ revision[r] \in Nat
    BY LedgerAssumption DEF RowsAndFiles, LedgerInv, RunsPrepared, LedgerTypeOK
  <2>2. PICK op \in {"commit", "clear", "reconcile"} :
           call' = [call EXCEPT ![p] = [NoCall EXCEPT !.op = op, !.run = r,
                       !.state = state[r], !.revision = revision[r]]]
    BY <1>4 DEF BeginCommit, BeginReconcile
  <2>3. [NoCall EXCEPT !.op = op, !.run = r, !.state = state[r],
                       !.revision = revision[r]] \in CallType
    BY <2>1 DEF NoCall, CallType
  <2>4. Moves(p) /\ UNCHANGED lock /\ pc'[p] # "finalize"
    BY <1>0, <1>4, <2>2, <2>3
    DEF BeginCommit, BeginReconcile, Moves, CallTypeOK, Goto, Places, NoCall
  <2> QED BY <1>0, <1>1, <2>4 DEF CallTypeOK
<1>5. ASSUME NEW p \in Procs, Progress(p) \/ Interrupt(p) \/ Crash(p)
      PROVE  CallTypeOK'
  <2>1. Moves(p)
    BY <1>5, StepMoves
  <2>2. ASSUME CreateLock(p)
        PROVE  lock' \in LockType
    <3>1. pc[p] = "acquire" => run(p) \in Runs
      BY <1>0 DEF CallTypeOK
    <3>2. pc[p] = "acquire" =>
             [owner |-> p, run |-> run(p), written |-> FALSE] \in LockType
      BY <3>1
    <3> QED BY <1>0, <2>2, <3>2 DEF CreateLock
  <2>3. ASSUME WriteLock(p)
        PROVE  lock' \in LockType
    <3>1. CASE lock' = [lock EXCEPT !.written = TRUE] /\ lock.owner = p
      <4>1. lock \in [owner : Procs, run : Runs, written : BOOLEAN]
        BY <1>0, <3>1, CommitAssumption, LedgerAssumption DEF NoLock
      <4> QED BY <3>1, <4>1
    <3> QED BY <1>0, <2>3, <3>1 DEF WriteLock
  <2>4. lock' \in LockType
    BY <1>0, <1>5, <2>2, <2>3
    DEF Progress, Interrupt, Crash, CommitProgress, RecoveryProgress, SharedProgress,
        Recheck, CommitStale, CommitIntent, OpenBackup, CopyBackup, Replace, Validate,
        Rollback, Verify, VerifyStaleLock, UnlinkStaleLock, RecordOrphanCleared,
        Reassess, Recover, MarkOutcome, WriteReceipt, Finalize, ReleaseLock, files
  <2> QED BY <1>1, <1>5, <2>1, <2>4, BodyWritten DEF CallTypeOK
<1> QED BY <1>2, <1>3, <1>4, <1>5 DEF Next

(* The files hold contents, copies cut short or nothing.                     *)
LEMMA FileTypesKept == RowsAndFiles /\ [Next]_vars => FileTypeOK'
<1> SUFFICES ASSUME RowsAndFiles, [Next]_vars
             PROVE  FileTypeOK'
  OBVIOUS
<1>0. CallTypeOK /\ FileTypeOK
  BY DEF RowsAndFiles
<1>1. ASSUME UNCHANGED files, UNCHANGED faults \/ Fault
      PROVE  FileTypeOK'
  BY <1>0, <1>1, CommitAssumption DEF files, FileTypeOK, Fault
<1>2. CASE UNCHANGED vars
  BY <1>1, <1>2 DEF vars
<1>3. CASE Environment
  <2>1. CASE OutsideWrite
    BY <1>0, <2>1, CommitAssumption DEF OutsideWrite, FileTypeOK, Fault
  <2>2. ASSUME NEW r \in Runs, ChangeSource(r) \/ DamageCandidate(r)
        PROVE  FileTypeOK'
    <3>1. faults' \in 0..MaxFaults
      BY <1>0, <2>2, CommitAssumption DEF ChangeSource, DamageCandidate, FileTypeOK, Fault
    <3>2. sourceOk' \in [Runs -> BOOLEAN] /\ candidateOk' \in [Runs -> BOOLEAN]
      BY <1>0, <2>2, Zenon DEF ChangeSource, DamageCandidate, FileTypeOK
    <3> QED BY <1>0, <2>2, <3>1, <3>2 DEF ChangeSource, DamageCandidate, FileTypeOK
  <2> QED BY <1>1, <1>3, <2>1, <2>2 DEF Environment, CancelRun, Expire
<1>4. ASSUME NEW p \in Procs,
             OpenBackup(p) \/ CopyBackup(p) \/ Replace(p) \/ Rollback(p) \/ WriteReceipt(p)
      PROVE  FileTypeOK'
  <2>1. run(p) \in Runs /\ call[p].opened \in Contents \cup {Absent}
    BY <1>0, <1>4 DEF CallTypeOK, CallType, OpenBackup, CopyBackup, Replace, Rollback,
                      WriteReceipt
  <2>2. CASE OpenBackup(p)
    BY <1>0, <2>1, <2>2 DEF OpenBackup, FileTypeOK, files
  <2>3. CASE CopyBackup(p)
    BY <1>0, <2>1, <2>3, CommitAssumption DEF CopyBackup, FileTypeOK, Fault
  <2>4. CASE Replace(p)
    BY <1>0, <2>1, <2>4, CommitAssumption DEF Replace, FileTypeOK
  <2>5. CASE Rollback(p)
    BY <1>0, <2>1, <2>5 DEF Rollback, FileTypeOK
  <2>6. CASE WriteReceipt(p)
    BY <1>0, <2>1, <2>6 DEF WriteReceipt, FileTypeOK
  <2> QED BY <1>4, <2>2, <2>3, <2>4, <2>5, <2>6
<1>5. ASSUME NEW p \in Procs,
             \/ \E r \in Runs : BeginCommit(p, r) \/ BeginReconcile(p, r)
             \/ Progress(p) \/ Interrupt(p) \/ Crash(p)
      PROVE  FileTypeOK'
  BY <1>1, <1>4, <1>5
  DEF BeginCommit, BeginReconcile, Progress, CommitProgress, RecoveryProgress,
      SharedProgress, Interrupt, Crash, Recheck, CommitStale, CommitIntent, Validate,
      Verify, VerifyStaleLock, UnlinkStaleLock, RecordOrphanCleared, Reassess, Recover,
      MarkOutcome, CreateLock, WriteLock, Finalize, ReleaseLock
<1> QED BY <1>2, <1>3, <1>5 DEF Next

-----------------------------------------------------------------------------
(* The lock.                                                                 *)

(* What a step of p does with the lock file, and where it leads then.        *)
LockStep(p) ==
    \/ /\ lock' = lock
       /\ \/ pc'[p] \in {"idle", "dead", "acquire"}
          \/ pc[p] \in Critical /\ pc'[p] \in Critical
          \/ pc[p] = "idle" /\ pc'[p] = "verify_lock" /\ p \in Reconcilers
          \/ pc[p] = "verify_lock" /\ pc'[p] = "unlink" /\ LockState(run(p)) = "stale"
    \/ /\ pc[p] = "acquire" /\ pc'[p] = "payload"
       /\ lock = NoLock
       /\ lock' = [owner |-> p, run |-> run(p), written |-> FALSE]
    \/ /\ pc[p] = "payload" /\ pc'[p] \in {"recheck", "reassess"}
       /\ lock.owner = p
       /\ lock' = [lock EXCEPT !.written = TRUE]
    \/ /\ pc[p] = "release" /\ pc'[p] = "idle"
       /\ lock.owner = p
       /\ lock' = NoLock
    \/ /\ pc[p] = "unlink" /\ pc'[p] \in {"audit", "acquire"}
       /\ lock' = NoLock

LEMMA LockSteps ==
    ASSUME RowsAndFiles, NEW p \in Procs, Progress(p) \/ Interrupt(p) \/ Crash(p)
    PROVE  LockStep(p) /\ pc[p] # "dead"
<1>0. p \in DOMAIN pc
  BY DEF RowsAndFiles, CallTypeOK
<1>1. ASSUME NEW place, Goto(p, place)
      PROVE  pc'[p] = place
  BY <1>0, <1>1 DEF Goto
<1>2. Return(p) => pc'[p] = "idle"
  BY <1>0 DEF Return
<1>3. CASE CommitProgress(p)
  BY <1>1, <1>3
  DEF CommitProgress, Recheck, CommitStale, CommitIntent, OpenBackup, CopyBackup,
      Replace, Validate, Rollback, Verify, LockStep, Critical
<1>4. CASE RecoveryProgress(p)
  BY <1>1, <1>2, <1>4
  DEF RecoveryProgress, VerifyStaleLock, UnlinkStaleLock, RecordOrphanCleared, Reassess,
      Recover, MarkOutcome, LockStep, Critical, Branch
<1>5. CASE SharedProgress(p)
  BY <1>1, <1>2, <1>5
  DEF SharedProgress, CreateLock, WriteLock, WriteReceipt, Finalize, ReleaseLock,
      LockStep, Critical
<1>6. CASE Interrupt(p)
  BY <1>1, <1>2, <1>6 DEF Interrupt, LockStep, Critical
<1>7. CASE Crash(p)
  BY <1>0, <1>7 DEF Crash, LockStep
<1> QED BY <1>3, <1>4, <1>5, <1>6, <1>7 DEF Progress

(* The lock keeps its owner while it is worked under, and is taken away only *)
(* from the dead: with one operator nobody can take it in between.           *)
LEMMA LockFitsKept ==
    ASSUME OneOperator, CommitInv, [Next]_vars
    PROVE  LockFits'
<1>0. CallTypeOK /\ LockFits
  BY DEF CommitInv, RowsAndFiles
<1>a. /\ Null \notin Procs
      /\ Reconcilers \subseteq Procs
      /\ \A p \in Procs : lock = NoLock => lock.owner # p
  BY CommitAssumption, LedgerAssumption DEF NoLock
<1>1. CASE UNCHANGED vars
  BY <1>0, <1>1 DEF vars, LockFits, run
<1>2. CASE Environment
  BY <1>0, <1>2
  DEF Environment, CancelRun, ChangeSource, DamageCandidate, OutsideWrite, Expire,
      LockFits, run
<1>3. ASSUME NEW p \in Procs, Moves(p), LockStep(p), pc[p] # "dead"
      PROVE  LockFits'
  <2>0. /\ \A q \in Procs \ {p} : pc'[q] = pc[q] /\ run(q)' = run(q)
        /\ pc[p] \notin {"idle", "dead"} /\ pc'[p] \notin {"idle", "dead"} => run(p)' = run(p)
        /\ pc[p] \in Places /\ pc'[p] \in Places
    BY <1>0, <1>3 DEF Moves, CallTypeOK, run
  <2>1. /\ pc'[p] \in Critical =>
              lock' = [owner |-> p, run |-> run(p)', written |-> TRUE]
        /\ pc'[p] = "payload" =>
              lock' = [owner |-> p, run |-> run(p)', written |-> FALSE]
    BY <1>0, <1>3, <2>0 DEF LockFits, LockStep, Critical
  <2>2. /\ pc'[p] \in {"verify_lock", "unlink", "audit"} => p \in Reconcilers
        /\ pc'[p] = "unlink" => lock' # NoLock /\ pc'[lock'.owner] = "dead"
    <3>1. pc'[p] = "unlink" => LockState(run(p)) = "stale" /\ lock' = lock
      BY <1>3, <2>0 DEF LockStep, Critical
    <3>2. LockState(run(p)) = "stale" => lock # NoLock /\ pc[lock.owner] = "dead"
      BY DEF LockState
    <3>3. lock # NoLock => lock.owner \in Procs
      BY <1>0 DEF CallTypeOK
    <3> QED BY <1>0, <1>3, <2>0, <3>1, <3>2, <3>3 DEF LockFits, LockStep, Critical
  <2>3. ASSUME NEW q \in Procs \ {p}
        PROVE  /\ pc'[q] \in Critical =>
                     lock' = [owner |-> q, run |-> run(q)', written |-> TRUE]
               /\ pc'[q] = "payload" =>
                     lock' = [owner |-> q, run |-> run(q)', written |-> FALSE]
               /\ pc'[q] \in {"verify_lock", "unlink", "audit"} => q \in Reconcilers
               /\ pc'[q] = "unlink" => lock' # NoLock /\ pc'[lock'.owner] = "dead"
    <3>1. pc'[q] = pc[q] /\ run(q)' = run(q)
      BY <2>0
    <3>2. CASE lock.owner = q /\ pc[q] # "dead"
      <4>1. lock' = lock
        BY <1>0, <1>3, <1>a, <3>2 DEF LockStep, LockFits
      <4> QED BY <1>0, <3>1, <3>2, <4>1 DEF LockFits
    <3>3. CASE pc[q] = "unlink"
      <4>1. lock # NoLock /\ pc[lock.owner] = "dead" /\ lock.owner \in Procs \ {p}
        BY <1>0, <1>3, <3>3 DEF LockFits, CallTypeOK
      <4>2. pc[p] # "unlink"
        BY <1>0, <3>3 DEF LockFits, OneOperator
      <4>3. lock' = lock
        BY <1>3, <4>1, <4>2 DEF LockStep
      <4> QED BY <1>0, <2>0, <3>1, <3>3, <4>1, <4>3 DEF LockFits, Critical
    <3>4. pc[q] \in Critical \cup {"payload"} => lock.owner = q /\ pc[q] # "dead"
      BY <1>0 DEF LockFits, Critical
    <3> QED BY <1>0, <3>1, <3>2, <3>3, <3>4 DEF LockFits
  <2> QED BY <2>1, <2>2, <2>3 DEF LockFits
<1>4. ASSUME NEW p \in Procs, NEW r \in Runs, BeginCommit(p, r) \/ BeginReconcile(p, r)
      PROVE  LockFits'
  <2>1. /\ \A q \in Procs \ {p} : pc'[q] = pc[q] /\ run(q)' = run(q)
        /\ pc'[p] = "acquire" \/ (pc'[p] = "verify_lock" /\ p \in Reconcilers)
        /\ lock' = lock
        /\ pc[p] = "idle"
    BY <1>0, <1>4 DEF BeginCommit, BeginReconcile, Goto, CallTypeOK, run
  <2>2. lock # NoLock => lock.owner \in Procs
    BY <1>0 DEF CallTypeOK
  <2> QED BY <1>0, <2>1, <2>2 DEF LockFits, Critical
<1>5. ASSUME NEW p \in Procs, Progress(p) \/ Interrupt(p) \/ Crash(p)
      PROVE  LockFits'
  BY <1>3, <1>5, StepMoves, LockSteps DEF CommitInv
<1> QED BY <1>1, <1>2, <1>4, <1>5 DEF Next

(* At most one process works under the lock.                                 *)
LEMMA LockExcludes ==
    ASSUME LockFits, CommitAssumption
    PROVE  OneHolder
BY DEF LockFits, OneHolder

-----------------------------------------------------------------------------
(* The calls and what they leave.                                            *)

(* The states in which a run has evidence outside the ledger.                *)
Evident == {"committing", "committed"}

(* A step that neither starts, ends nor serves a commit: it enters and       *)
(* leaves no such state, and touches none of the evidence.                   *)
KeepsEvidence ==
    /\ UNCHANGED <<backup, receiptFile, receipt>>
    /\ \A r \in Runs : state[r] \in Evident \/ state'[r] \in Evident => state'[r] = state[r]

LEMMA AdvanceKeepsEvident ==
    ASSUME LedgerTypeOK, NEW r \in Runs, NEW to, NEW type, Advance(r, to, type),
           state[r] \in Evident \/ to \in Evident => to = state[r]
    PROVE  \A q \in Runs : state[q] \in Evident \/ state'[q] \in Evident => state'[q] = state[q]
BY AdvanceRows

(* Whoever is not working under the lock keeps the evidence.                 *)
LEMMA OutsideTheLock ==
    ASSUME CommitInv,
           \/ UNCHANGED vars
           \/ Environment
           \/ \E p \in Procs, r \in Runs : BeginCommit(p, r) \/ BeginReconcile(p, r)
           \/ \E p \in Procs : /\ Progress(p) \/ Interrupt(p) \/ Crash(p)
                              /\ pc[p] \notin Critical
    PROVE  KeepsEvidence
<1> USE DEF KeepsEvidence, ledgerVars, files
<1>0. LedgerTypeOK /\ CallTypeOK
  BY DEF CommitInv, RowsAndFiles, LedgerInv
<1>1. CASE UNCHANGED vars
  BY <1>1 DEF vars
<1>2. CASE Environment
  <2>1. ASSUME NEW r \in Runs, CancelRun(r)
        PROVE  KeepsEvidence
    <3>1. state[r] \notin Evident /\ "cancelled" \notin Evident
      BY <2>1 DEF CancelRun, Cancel, Transition, LegalTransitions, Evident
    <3> QED BY <1>0, <2>1, <3>1, AdvanceKeepsEvident DEF CancelRun, Cancel, Transition
  <2> QED BY <1>2, <2>1
          DEF Environment, ChangeSource, DamageCandidate, OutsideWrite, Expire, Tick
<1>3. ASSUME NEW p \in Procs, NEW r \in Runs, BeginCommit(p, r) \/ BeginReconcile(p, r)
      PROVE  KeepsEvidence
  BY <1>3 DEF BeginCommit, BeginReconcile
<1>4. ASSUME NEW p \in Procs, pc[p] \notin Critical, Progress(p) \/ Interrupt(p) \/ Crash(p)
      PROVE  KeepsEvidence
  <2>1. CASE RecordOrphanCleared(p)
    <3>1. run(p) \in Runs
      BY <1>0, <2>1 DEF CallTypeOK, RecordOrphanCleared
    <3>2. OrphanLockCleared(run(p), call[p].state, call[p].revision) =>
             state[run(p)] = "approved" /\ "approved" \notin Evident
      BY DEF OrphanLockCleared, Cas, Evident
    <3> QED BY <1>0, <2>1, <3>1, <3>2, AdvanceKeepsEvident
            DEF RecordOrphanCleared, OrphanLockCleared, run
  <2>2. CASE VerifyStaleLock(p) \/ UnlinkStaleLock(p) \/ CreateLock(p) \/ WriteLock(p)
             \/ Interrupt(p) \/ Crash(p)
    BY <2>2 DEF VerifyStaleLock, UnlinkStaleLock, CreateLock, WriteLock, Interrupt, Crash
  <2> QED BY <1>4, <2>1, <2>2
          DEF Progress, CommitProgress, RecoveryProgress, SharedProgress, Critical,
              Recheck, CommitStale, CommitIntent, OpenBackup, CopyBackup, Replace,
              Validate, Rollback, Verify, Reassess, Recover, MarkOutcome, WriteReceipt,
              Finalize, ReleaseLock
<1> QED BY <1>1, <1>2, <1>3, <1>4

(* A step under the lock changes nothing of another run, and leaves its own  *)
(* call and run in order.                                                    *)
UnderLock(p) ==
    /\ \A r \in Runs :
          \/ KeptSafe(r)'
          \/ /\ r # run(p)
             /\ state'[r] = state[r]
             /\ backup'[r] = backup[r]
             /\ receiptFile'[r] = receiptFile[r]
             /\ receipt'[r] = receipt[r]
    /\ CallFitsOf(p)'

LEMMA UnderTheLock ==
    ASSUME CommitInv, NEW p \in Procs, pc[p] \in Critical,
           Progress(p) \/ Interrupt(p) \/ Crash(p)
    PROVE  UnderLock(p)
<1>r. PICK r \in Runs \cup {Null} : r = run(p)
  BY DEF CommitInv, RowsAndFiles, CallTypeOK, CallType, run
<1>0. LedgerTypeOK /\ CallTypeOK /\ FileTypeOK /\ RunsPrepared /\ CallFits /\ EvidenceKeptSafe
  BY DEF CommitInv, RowsAndFiles, LedgerInv
<1>1. /\ r \in Runs /\ pc[p] \notin {"idle", "dead"}
      /\ evidence[r]["prior"] = Prior[r]
      /\ CallFitsOf(p) /\ KeptSafe(r)
      /\ Prior[r] # Partial /\ Absent # Partial
  <2>1. r \in Runs /\ pc[p] \notin {"idle", "dead"}
    BY <1>0, <1>r DEF CallTypeOK, Critical
  <2>2. evidence[r]["prior"] = Prior[r]
    BY <1>0, <2>1 DEF RunsPrepared, Prepared, Fields
  <2> QED BY <1>0, <2>1, <2>2, CommitAssumption DEF CallFits, EvidenceKeptSafe
<1>2. Moves(p)
  BY StepMoves DEF CommitInv
<1>3. /\ run(p)' = r \/ pc'[p] \in {"idle", "dead"}
      /\ UNCHANGED call => call'[p] = call[p]
  BY <1>0, <1>1, <1>2, <1>r DEF Moves, run
<1>4. ASSUME NEW place, Goto(p, place)
      PROVE  pc'[p] = place
  BY <1>0, <1>4 DEF Goto, CallTypeOK
<1> USE DEF UnderLock, CallFitsOf, KeptSafe, Resolving
<1>5. ASSUME UNCHANGED <<ledgerVars, backup, receiptFile>>,
             \/ pc'[p] \notin Resolving
             \/ pc[p] \in Resolving /\ pc'[p] \in {"copy", "replace", "validate",
                                                 "rollback", "verify"}
      PROVE  UnderLock(p)
  BY <1>1, <1>3, <1>5, <1>r DEF ledgerVars
<1>6. ASSUME UNCHANGED <<evidence, backup, receiptFile, receipt>>, pc'[p] \notin Resolving,
             NEW to \in States \ {"committed"}, NEW type, Advance(r, to, type)
      PROVE  UnderLock(p)
  BY <1>0, <1>1, <1>3, <1>6, <1>r, AdvanceRows
<1>7. CASE Recheck(p) \/ Replace(p) \/ Validate(p)
  BY <1>1, <1>4, <1>5, <1>7 DEF Recheck, Replace, Validate, files
<1>8. CASE CommitStale(p)
  BY <1>1, <1>4, <1>5, <1>6, <1>8, <1>r DEF CommitStale, MarkStale, Transition, files, States, Terminal, run
<1>9. CASE CommitIntent(p)
  BY <1>0, <1>1, <1>3, <1>4, <1>5, <1>9, <1>r, AdvanceRows
  DEF CommitIntent, RecordCommitIntent, files, run
<1>10. CASE OpenBackup(p) \/ CopyBackup(p) \/ Rollback(p)
  <2>1. /\ UNCHANGED <<ledgerVars, receiptFile>>
        /\ state[r] = "committing"
        /\ pc'[p] \in {"copy", "replace", "release"}
    BY <1>1, <1>4, <1>10, <1>r DEF OpenBackup, CopyBackup, Rollback, files
  <2>2. \/ backup' = backup
        \/ Prior[r] # Absent /\ \E b : backup' = [backup EXCEPT ![r] = b]
    BY <1>1, <1>10, <1>r DEF OpenBackup, CopyBackup, Rollback, files
  <2> QED BY <1>0, <1>1, <1>3, <1>r, <2>1, <2>2 DEF ledgerVars, FileTypeOK
<1>11. CASE Verify(p)
  <2>1. pc'[p] = "release" \/ (pc'[p] = "receipt" /\ backup[r] = Prior[r])
    BY <1>1, <1>4, <1>11, <1>r DEF Verify
  <2>2. UNCHANGED <<ledgerVars, backup, receiptFile>> /\ state[r] = "committing"
    BY <1>1, <1>11, <1>r DEF Verify, files
  <2>3. CASE pc'[p] = "receipt" /\ backup[r] = Prior[r]
    BY <1>1, <1>3, <1>r, <2>2, <2>3 DEF ledgerVars
  <2> QED BY <1>5, <2>1, <2>2, <2>3
<1>12. CASE WriteReceipt(p)
  <2>1. pc'[p] = "finalize" /\ call'[p].body = p /\ receiptFile' = [receiptFile EXCEPT ![r] = p]
    BY <1>0, <1>4, <1>12, <1>r DEF WriteReceipt, CallTypeOK, CallType
  <2> QED BY <1>0, <1>1, <1>3, <1>12, <1>r, <2>1 DEF WriteReceipt, ledgerVars, FileTypeOK
<1>13. CASE Finalize(p)
  <2>1. pc[p] = "finalize" /\ pc'[p] = "release" /\ UNCHANGED <<backup, receiptFile>>
    BY <1>4, <1>13 DEF Finalize, files
  <2>2. CASE RecordCommitFinalized(r, call[p].state, call[p].revision, Candidate[r],
                                   call[p].body)
    <3>1. receipt' = [receipt EXCEPT ![r] = call[p].body]
      BY <2>2 DEF RecordCommitFinalized
    <3> QED BY <1>0, <1>1, <1>3, <1>r, <2>1, <2>2, <3>1, AdvanceRows
            DEF RecordCommitFinalized, LedgerTypeOK
  <2>3. CASE UNCHANGED ledgerVars
    BY <1>5, <2>1, <2>3
  <2> QED BY <1>13, <1>r, <2>2, <2>3 DEF Finalize, run
<1>14. CASE Reassess(p)
  <2>1. \/ pc'[p] = "release"
        \/ /\ state[r] = "committing"
           /\ \/ pc'[p] \in {"mark_rolled_back", "mark_recovery_required"}
              \/ pc'[p] = "recover" /\ RequiredBackupPresent(r)
    BY <1>4, <1>14, <1>r DEF Reassess, Branch
  <2>2. RequiredBackupPresent(r) => backup[r] = Prior[r]
    BY <1>1 DEF RequiredBackupPresent
  <2> QED BY <1>1, <1>3, <1>14, <1>r, <2>1, <2>2 DEF Reassess, ledgerVars, files
<1>15. CASE Recover(p)
  <2>1. /\ pc[p] = "recover" /\ UNCHANGED <<ledgerVars, files>>
        /\ pc'[p] \in {"release", "finalize", "receipt"}
        /\ pc'[p] = "finalize" =>
              receiptFile[r] # Absent /\ call'[p].body = receiptFile[r]
    BY <1>0, <1>4, <1>15, <1>r DEF Recover, CallTypeOK, CallType
  <2> QED BY <1>0, <1>1, <1>3, <1>r, <2>1 DEF ledgerVars, files, FileTypeOK
<1>16. CASE MarkOutcome(p)
  BY <1>1, <1>4, <1>5, <1>6, <1>16, <1>r
  DEF MarkOutcome, MarkRolledBack, MarkRecoveryRequired, Transition, files, States,
      Terminal, run
<1>17. CASE ReleaseLock(p) \/ Interrupt(p) \/ Crash(p)
  <2>1. UNCHANGED <<ledgerVars, files>> /\ pc'[p] \in {"idle", "dead", "release"}
    BY <1>0, <1>4, <1>17 DEF ReleaseLock, Interrupt, Crash, Return, CallTypeOK, Critical
  <2> QED BY <1>5, <2>1 DEF files
<1> QED
  BY <1>7, <1>8, <1>9, <1>10, <1>11, <1>12, <1>13, <1>14, <1>15, <1>16, <1>17
  DEF Progress, CommitProgress, RecoveryProgress, SharedProgress, Critical,
      VerifyStaleLock, UnlinkStaleLock, RecordOrphanCleared, CreateLock, WriteLock

(* Calls and evidence stay in order: under the lock by what the call itself  *)
(* did, and outside it because nobody else touches them.                     *)
LEMMA EvidenceStaysSafe ==
    ASSUME CommitInv, [Next]_vars
    PROVE  CallFits' /\ EvidenceKeptSafe'
<1>0. CallFits /\ EvidenceKeptSafe /\ CallTypeOK /\ OneHolder
  BY LockExcludes, CommitAssumption DEF CommitInv, RowsAndFiles
<1>2. ASSUME NEW p \in Procs, pc[p] \in Critical, Progress(p) \/ Interrupt(p) \/ Crash(p)
      PROVE  CallFits' /\ EvidenceKeptSafe'
  <2>1. UnderLock(p) /\ Moves(p)
    BY <1>2, UnderTheLock, StepMoves DEF CommitInv
  <2>2. ASSUME NEW q \in Procs \ {p}
        PROVE  CallFitsOf(q)'
    <3>1. pc'[q] = pc[q] /\ pc[q] \notin Critical
      BY <1>0, <1>2, <2>1 DEF Moves, OneHolder, CallTypeOK
    <3> QED BY <3>1 DEF CallFitsOf, Resolving, Critical
  <2> QED BY <1>0, <2>1, <2>2 DEF UnderLock, CallFits, EvidenceKeptSafe, KeptSafe
<1>1. CASE KeepsEvidence
  <2>1. EvidenceKeptSafe'
    BY <1>0, <1>1 DEF EvidenceKeptSafe, KeptSafe, KeepsEvidence, Evident
  <2>2. ASSUME NEW q \in Procs, pc'[q] = pc[q], call'[q] = call[q]
        PROVE  CallFitsOf(q)'
    <3>1. pc[q] \in Resolving => run(q) \in Runs
      BY <1>0 DEF CallTypeOK, Resolving
    <3> QED BY <1>0, <1>1, <2>2, <3>1
            DEF CallFits, CallFitsOf, KeepsEvidence, Evident, Resolving, run
  <2>3. ASSUME NEW p \in Procs, NEW r \in Runs, BeginCommit(p, r) \/ BeginReconcile(p, r)
        PROVE  CallFits'
    <3>1. /\ pc'[p] \in {"acquire", "verify_lock"}
          /\ \A q \in Procs \ {p} : pc'[q] = pc[q] /\ call'[q] = call[q]
      BY <1>0, <2>3 DEF BeginCommit, BeginReconcile, Goto, CallTypeOK
    <3>2. CallFitsOf(p)'
      BY <3>1 DEF CallFitsOf, Resolving
    <3> QED BY <2>2, <3>1, <3>2 DEF CallFits
  <2>4. ASSUME NEW p \in Procs, pc[p] \notin Critical, Progress(p) \/ Interrupt(p) \/ Crash(p)
        PROVE  CallFits'
    <3>1. Moves(p) /\ LockStep(p)
      BY <2>4, StepMoves, LockSteps DEF CommitInv
    <3>2. \A q \in Procs \ {p} : pc'[q] = pc[q] /\ call'[q] = call[q]
      BY <1>0, <3>1 DEF Moves, CallTypeOK
    <3>3. CallFitsOf(p)'
      BY <2>4, <3>1 DEF LockStep, CallFitsOf, Resolving, Critical
    <3> QED BY <2>2, <3>2, <3>3 DEF CallFits
  <2>5. CASE UNCHANGED vars \/ Environment
    <3>1. UNCHANGED <<pc, call>>
      BY <2>5 DEF vars, Environment, CancelRun, ChangeSource, DamageCandidate,
                  OutsideWrite, Expire
    <3>2. \A q \in Procs : pc'[q] = pc[q] /\ call'[q] = call[q]
      BY <3>1
    <3> QED BY <2>1, <2>2, <3>2 DEF CallFits
  <2>6. ASSUME NEW p \in Procs, pc[p] \in Critical, Progress(p) \/ Interrupt(p) \/ Crash(p)
        PROVE  CallFits'
    BY <1>2, <2>6
  <2> QED BY <2>1, <2>3, <2>4, <2>5, <2>6 DEF Next
<1> QED BY <1>1, <1>2, OutsideTheLock DEF Next

(* Only Replace, Rollback and other programs write the destination.          *)
LEMMA WhoWritesDest ==
    ASSUME [Next]_vars
    PROVE  \/ UNCHANGED dest
           \/ OutsideWrite
           \/ \E p \in Procs : Replace(p) \/ Rollback(p)
<1> USE DEF files
<1>1. ASSUME NEW p \in Procs, CommitProgress(p)
      PROVE  UNCHANGED dest \/ Replace(p) \/ Rollback(p)
  BY <1>1 DEF CommitProgress, Recheck, CommitStale, CommitIntent, OpenBackup, CopyBackup,
              Validate, Verify
<1>2. ASSUME NEW p \in Procs, RecoveryProgress(p) \/ SharedProgress(p)
      PROVE  UNCHANGED dest
  BY <1>2 DEF RecoveryProgress, SharedProgress, VerifyStaleLock, UnlinkStaleLock,
              RecordOrphanCleared, Reassess, Recover, MarkOutcome, CreateLock, WriteLock,
              WriteReceipt, Finalize, ReleaseLock
<1>3. ASSUME NEW p \in Procs,
             \/ \E r \in Runs : BeginCommit(p, r) \/ BeginReconcile(p, r)
             \/ Interrupt(p) \/ Crash(p)
      PROVE  UNCHANGED dest
  BY <1>3 DEF BeginCommit, BeginReconcile, Interrupt, Crash
<1>4. Environment => UNCHANGED dest \/ OutsideWrite
  BY DEF Environment, CancelRun, ChangeSource, DamageCandidate, Expire
<1> QED BY <1>1, <1>2, <1>3, <1>4 DEF Next, Progress, vars

-----------------------------------------------------------------------------
(* The theorems.                                                             *)

(* Runs enter prepared, with their evidence, and nothing at work.            *)
LEMMA CommitInvInit == Init => CommitInv
<1> SUFFICES ASSUME Init
             PROVE  CommitInv
  OBVIOUS
<1>1. /\ Contents \cup {Absent} \subseteq Values
      /\ \A r \in Runs : Prior[r] \in Contents \cup {Absent} /\ Candidate[r] \in Contents
      /\ Null \notin Values
  BY CommitAssumption, LedgerAssumption
<1>2. \A r \in Runs : /\ Prepared(r) \in [Fields -> Values]
                      /\ Prepared(r)["prior"] = Prior[r]
  BY <1>1 DEF Prepared, Fields
<1>3. \A r \in Runs : /\ Prepared(r) \in [Fields -> Values \cup {Null}]
                      /\ <<Prepared(r), 1 + Ttl>> \in BindingType
  <2>1. 1 + Ttl \in 0..(MaxTime + Ttl)
    BY LedgerAssumption
  <2> QED BY <1>2, <2>1 DEF BindingType
<1>4. LedgerTypeOK
  <2>1. state \in [Runs -> States \cup {Null}] /\ tail \in [Runs ->
           [sequence : Nat, type : EventTypes \cup {Null}]]
    BY DEF Init, CommitState, States, EventTypes
  <2>2. approval \in [Runs -> ApprovalType]
    BY <1>3 DEF Init, ApprovalType
  <2>3. evidence \in [Runs -> [Fields -> Values \cup {Null}]]
    BY <1>3 DEF Init
  <2> QED BY <2>1, <2>2, <2>3, LedgerAssumption DEF Init, LedgerTypeOK, Kinds
<1>5. RowMatchesChain
  BY EventStates DEF Init, RowMatchesChain, CommitState, TerminalAudits
<1>6. DecisionExplainsState
  <2> SUFFICES ASSUME NEW r \in Runs
               PROVE  DecisionFits(r)
    BY DEF DecisionExplainsState
  <2>1. /\ state[r] = CommitState(r)
        /\ Binding(r) = <<Prepared(r), 1 + Ttl>>
        /\ Null \notin {"approved", "awaiting_approval"}
    BY LedgerAssumption DEF Init, Binding, States
  <2>2. approval[r] = IF r \in ClientRuns THEN NoApproval
                      ELSE [decision |-> "approved", binding |-> Binding(r)]
    BY <2>1 DEF Init
  <2> QED BY <2>1, <2>2 DEF DecisionFits, CommitState, ApprovedStates
<1>7. AllEvidenceFits
  <2> SUFFICES ASSUME NEW r \in Runs
               PROVE  EvidenceFits(r)
    BY DEF AllEvidenceFits
  <2>1. /\ state[r] \in {"approved", "awaiting_approval"}
        /\ rows[r] = {"candidate", "diff"}
        /\ expires[r] = 1 + Ttl /\ receipt[r] = Null
        /\ tail[r].type \in {"awaiting_approval", "approval_recorded"}
    BY DEF Init, CommitState
  <2>2. \A f \in Fields : evidence[r][f] # Null
    BY <1>1, <1>2 DEF Init
  <2>3. CompletePrepare(r)
    BY <2>1, <2>2, LedgerAssumption DEF CompletePrepare, NoExpiry
  <2> QED BY <2>1, <2>2, <2>3 DEF EvidenceFits, Fields
<1>8. OneRunPerKey
  BY DEF Init, OneRunPerKey
<1>9. RunsPrepared
  BY DEF Init, RunsPrepared, CommitState, States
<1>10. CallTypeOK
  BY CommitAssumption DEF Init, CallTypeOK, CallType, NoCall, Places
<1>11. FileTypeOK
  BY <1>1, CommitAssumption DEF Init, FileTypeOK
<1>12. LockFits /\ CallFits /\ EvidenceKeptSafe
  BY DEF Init, LockFits, CallFits, CallFitsOf, EvidenceKeptSafe, KeptSafe, Critical,
         Resolving, CommitState
<1> QED BY <1>4, <1>5, <1>6, <1>7, <1>8, <1>9, <1>10, <1>11, <1>12 DEF CommitInv, RowsAndFiles, LedgerInv

LEMMA RowsAndFilesKept == RowsAndFiles /\ [Next]_vars => RowsAndFiles'
BY LedgerInvKept, RunsStayPrepared, CallTypesKept, FileTypesKept DEF RowsAndFiles

LEMMA CommitInvKept ==
    ASSUME OneOperator
    PROVE  CommitInv /\ [Next]_vars => CommitInv'
BY RowsAndFilesKept, LockFitsKept, EvidenceStaysSafe DEF CommitInv

(* Whoever reconciles, rows, files and calls stay in order.                  *)
LEMMA RowsAndFilesInvariant == Spec => []RowsAndFiles
<1>1. CommitInv => RowsAndFiles
  BY DEF CommitInv
<1> QED BY <1>1, CommitInvInit, RowsAndFilesKept, PTL DEF Spec

(* With one operator the invariant holds throughout.                         *)
LEMMA CommitInvariant ==
    ASSUME OneOperator
    PROVE  Spec => []CommitInv
<1>1. CommitInv /\ [Next]_vars => CommitInv'
  BY CommitInvKept
<1> QED BY CommitInvInit, <1>1, PTL DEF Spec

(* The types of the commit are right, whatever its processes do.             *)
THEOREM CommitTypeCorrect == Spec => []TypeOK
<1>1. RowsAndFiles => TypeOK
  BY DEF RowsAndFiles, LedgerInv, CallTypeOK, FileTypeOK, TypeOK
<1> QED BY <1>1, RowsAndFilesInvariant, PTL

(* A commit leaves a ledger that passes its audit, even where two reconciles *)
(* cross: each mutation is refused unless its row is as its caller read it.  *)
THEOREM CommitPassesAudit == Spec => []VerifierAccepts
<1>1. RowsAndFiles => VerifierAccepts
  BY LedgerAudited DEF RowsAndFiles
<1> QED BY <1>1, RowsAndFilesInvariant, PTL

(* The destination lock excludes, through crashes of its owner and removal   *)
(* of the lock file it leaves (workflow/locking.py, remove_stale_lock).      *)
THEOREM LockIsExclusive ==
    ASSUME OneOperator
    PROVE  Spec => []OneHolder
<1>1. CommitInv => OneHolder
  BY LockExcludes, CommitAssumption DEF CommitInv, RowsAndFiles
<1> QED BY <1>1, CommitInvariant, PTL

(* A committed run has the file it was approved against in the backup its    *)
(* intent named, whichever process finished the commit and whatever other    *)
(* programs wrote.                                                           *)
THEOREM PriorIsKept ==
    ASSUME OneOperator
    PROVE  Spec => []CommittedKeepsPrior
<1>1. CommitInv => CommittedKeepsPrior
  BY DEF CommitInv, RowsAndFiles, RunsPrepared, Prepared, Fields, EvidenceKeptSafe, KeptSafe,
         CommittedKeepsPrior
<1> QED BY <1>1, CommitInvariant, PTL

(* The receipt on disk is the one the ledger has the hash of.                *)
THEOREM ReceiptIsRecorded ==
    ASSUME OneOperator
    PROVE  Spec => []ReceiptMatchesLedger
<1>1. CommitInv => ReceiptMatchesLedger
  BY DEF CommitInv, RowsAndFiles, EvidenceKeptSafe, KeptSafe, ReceiptMatchesLedger
<1> QED BY <1>1, CommitInvariant, PTL

(* No call changes the destination before its intent is durable and its      *)
(* approval consumed.                                                        *)
THEOREM IntentComesFirst ==
    ASSUME OneOperator
    PROVE  Spec => MutationNeedsIntent
<1> DEFINE Intends ==
      dest' # dest /\ faults' = faults =>
         \E p \in Procs : /\ pc[p] \in {"replace", "rollback"}
                          /\ state[run(p)] = "committing"
                          /\ approval[run(p)].decision = "approved"
<1>1. ASSUME CommitInv, [Next]_vars
      PROVE  [Intends]_vars
  <2>1. ASSUME dest' # dest, faults' = faults
        PROVE  \E p \in Procs : pc[p] \in {"replace", "rollback"}
    <3>1. faults \in Nat
      BY <1>1, CommitAssumption DEF CommitInv, RowsAndFiles, FileTypeOK
    <3>2. ~OutsideWrite
      BY <2>1, <3>1 DEF OutsideWrite, Fault
    <3> QED BY <1>1, <2>1, <3>2, WhoWritesDest DEF Replace, Rollback
  <2>2. ASSUME NEW p \in Procs, pc[p] \in {"replace", "rollback"}
        PROVE  state[run(p)] = "committing" /\ approval[run(p)].decision = "approved"
    <3>1. run(p) \in Runs /\ state[run(p)] = "committing"
      BY <1>1, <2>2 DEF CommitInv, RowsAndFiles, CallTypeOK, CallFits, CallFitsOf, Resolving
    <3>2. DecisionFits(run(p))
      BY <1>1, <3>1 DEF CommitInv, RowsAndFiles, LedgerInv, DecisionExplainsState
    <3> QED BY <3>1, <3>2 DEF DecisionFits, ApprovedStates
  <2> QED BY <2>1, <2>2
<1> QED BY <1>1, CommitInvariant, PTL DEF Spec, MutationNeedsIntent

(* remove_stale_lock removes the lock of a dead owner only, as long as one   *)
(* operator reconciles at a time; with two it can remove a live one.         *)
THEOREM LiveLocksStay ==
    ASSUME OneOperator
    PROVE  Spec => OnlyDeadLocksRemoved
<1>1. CommitInv =>
         \A p \in Procs : pc[p] = "unlink" /\ lock # NoLock => pc[lock.owner] = "dead"
  BY DEF CommitInv, RowsAndFiles, LockFits
<1>2. CommitInv =>
         [\A p \in Procs : pc[p] = "unlink" /\ lock # NoLock /\ lock' = NoLock =>
             pc[lock.owner] = "dead"]_vars
  BY <1>1
<1> QED BY <1>2, CommitInvariant, PTL DEF OnlyDeadLocksRemoved

-----------------------------------------------------------------------------
(* The refinement of AtomicInstall, when no other program writes.            *)

(* A call knows where the destination stands after each of its own steps.    *)
LEMMA OwnDestinationFits ==
    ASSUME CommitInv, DestinationFits, NEW p \in Procs,
           Progress(p) \/ Interrupt(p) \/ Crash(p)
    PROVE  DestinationFitsOf(p)'
<1>0. CallTypeOK /\ RunsPrepared /\ DestinationFitsOf(p) /\ Moves(p) /\ LockStep(p)
  BY StepMoves, LockSteps DEF CommitInv, RowsAndFiles, DestinationFits
<1>1. ASSUME NEW place, Goto(p, place)
      PROVE  pc'[p] = place
  BY <1>0, <1>1 DEF Goto, CallTypeOK
<1>2. /\ pc[p] \notin {"idle", "dead"} /\ pc'[p] \notin {"idle", "dead"} => run(p)' = run(p)
      /\ pc[p] \notin {"idle", "dead"} => run(p) \in Runs /\ evidence[run(p)]["prior"] = Prior[run(p)]
      /\ UNCHANGED call => call'[p] = call[p]
  BY <1>0 DEF Moves, CallTypeOK, RunsPrepared, Prepared, Fields, run
<1> USE DEF DestinationFitsOf
<1>3. ASSUME pc'[p] \in {"idle", "dead", "release", "audit", "stale", "reassess",
                        "mark_recovery_required"}
      PROVE  DestinationFitsOf(p)'
  BY <1>3
<1>4. CASE CommitProgress(p)
  <2>1. CASE Recheck(p)
    BY <1>1, <1>2, <1>0, <2>1 DEF Recheck, files
  <2>2. CASE CommitIntent(p)
    <3>1. call'[p].opened = call[p].opened
      BY <1>0, <2>2 DEF CommitIntent, CallTypeOK, CallType
    <3> QED BY <1>1, <1>2, <1>0, <2>2, <3>1 DEF CommitIntent, files
  <2>3. CASE OpenBackup(p)
    <3>1. \/ dest = Absent /\ call'[p].opened = call[p].opened
          \/ call'[p].opened = dest
      BY <1>0, <2>3 DEF OpenBackup, CallTypeOK, CallType
    <3> QED BY <1>1, <1>2, <1>0, <2>3, <3>1 DEF OpenBackup, files
  <2>4. CASE CopyBackup(p) \/ Replace(p) \/ Validate(p) \/ Verify(p)
    BY <1>1, <1>2, <1>0, <2>4 DEF CopyBackup, Replace, Validate, Verify, files
  <2>5. CASE CommitStale(p) \/ Rollback(p)
    BY <1>1, <1>3, <2>5 DEF CommitStale, Rollback
  <2> QED BY <1>4, <2>1, <2>2, <2>3, <2>4, <2>5 DEF CommitProgress
<1>5. CASE RecoveryProgress(p)
  <2>1. CASE VerifyStaleLock(p) \/ UnlinkStaleLock(p)
    BY <1>1, <1>2, <1>0, <2>1
    DEF VerifyStaleLock, UnlinkStaleLock, Return, CallTypeOK
  <2>2. CASE Reassess(p)
    BY <1>1, <1>2, <1>0, <2>2
    DEF Reassess, Branch, CandidateInstalled, files
  <2>3. CASE Recover(p)
    BY <1>1, <1>2, <1>0, <2>3 DEF Recover, files
  <2>4. CASE RecordOrphanCleared(p) \/ MarkOutcome(p)
    BY <1>0, <1>1, <1>3, <2>4 DEF RecordOrphanCleared, MarkOutcome, Return, CallTypeOK
  <2> QED BY <1>5, <2>1, <2>2, <2>3, <2>4 DEF RecoveryProgress
<1>6. CASE SharedProgress(p)
  <2>1. CASE CreateLock(p)
    BY <1>0, <1>1, <1>2, <2>1 DEF CreateLock, Return, CallTypeOK
  <2>2. CASE WriteLock(p)
    BY <1>0, <1>1, <1>2, <2>2 DEF WriteLock, Return, CallTypeOK
  <2>3. CASE WriteReceipt(p) \/ Finalize(p) \/ ReleaseLock(p)
    BY <1>0, <1>1, <1>2, <2>3 DEF WriteReceipt, Finalize, ReleaseLock, Return, CallTypeOK
  <2> QED BY <1>6, <2>1, <2>2, <2>3 DEF SharedProgress
<1>7. CASE Interrupt(p) \/ Crash(p)
  BY <1>0, <1>1, <1>3, <1>7 DEF Interrupt, Crash, Return, CallTypeOK
<1> QED BY <1>4, <1>5, <1>6, <1>7, Zenon DEF Progress

(* And nobody else moves it meanwhile.                                       *)
LEMMA DestinationFitsKept ==
    ASSUME Outsiders = {}, CommitInv, DestinationFits, [Next]_vars
    PROVE  DestinationFits'
<1>0. CallTypeOK /\ OneHolder
  BY LockExcludes, CommitAssumption DEF CommitInv, RowsAndFiles
<1>1. ASSUME NEW q \in Procs, pc'[q] = pc[q], call'[q] = call[q],
             UNCHANGED dest \/ pc[q] \notin Critical
      PROVE  DestinationFitsOf(q)'
  BY <1>1 DEF DestinationFits, DestinationFitsOf, Critical, run
<1>2. ASSUME NEW p \in Procs, Progress(p) \/ Interrupt(p) \/ Crash(p)
      PROVE  DestinationFits'
  <2>1. DestinationFitsOf(p)'
    BY <1>2, OwnDestinationFits
  <2>2. ASSUME NEW q \in Procs \ {p}
        PROVE  DestinationFitsOf(q)'
    <3>1. pc'[q] = pc[q] /\ call'[q] = call[q]
      BY <1>0, <1>2, StepMoves DEF CommitInv, Moves, CallTypeOK
    <3>2. UNCHANGED dest \/ pc[p] \in Critical
      BY <1>2
      DEF Progress, CommitProgress, RecoveryProgress, SharedProgress, Interrupt, Crash,
          Recheck, CommitStale, CommitIntent, OpenBackup, CopyBackup, Replace, Validate,
          Rollback, Verify, VerifyStaleLock, UnlinkStaleLock, RecordOrphanCleared,
          Reassess, Recover, MarkOutcome, CreateLock, WriteLock, WriteReceipt, Finalize,
          ReleaseLock, files, Critical
    <3> QED BY <1>0, <1>1, <3>1, <3>2 DEF OneHolder
  <2> QED BY <2>1, <2>2 DEF DestinationFits
<1>3. ASSUME NEW p \in Procs, NEW r \in Runs, BeginCommit(p, r) \/ BeginReconcile(p, r)
      PROVE  DestinationFits'
  <2>1. /\ \A q \in Procs \ {p} : pc'[q] = pc[q] /\ call'[q] = call[q]
        /\ pc'[p] \in {"acquire", "verify_lock"}
        /\ call'[p].opened = Absent
        /\ UNCHANGED dest
    <3>1. pc \in [Procs -> Places] /\ call \in [Procs -> CallType]
      BY <1>0 DEF CallTypeOK
    <3> QED BY <1>3, <3>1 DEF BeginCommit, BeginReconcile, Goto, NoCall, files
  <2>2. DestinationFitsOf(p)'
    BY <2>1 DEF DestinationFitsOf
  <2> QED BY <1>1, <2>1, <2>2 DEF DestinationFits
<1>4. CASE UNCHANGED vars \/ Environment
  <2>1. UNCHANGED <<dest, pc, call>>
    BY <1>4 DEF vars, Environment, CancelRun, ChangeSource, DamageCandidate, OutsideWrite,
                Expire, files
  <2>2. \A q \in Procs : pc'[q] = pc[q] /\ call'[q] = call[q] /\ UNCHANGED dest
    BY <2>1
  <2> QED BY <1>1, <2>2 DEF DestinationFits
<1> QED BY <1>2, <1>3, <1>4 DEF Next

(* What a state of the ledger is to AtomicInstall.                           *)
PhaseOf(s) ==
    IF s \in {"awaiting_approval", "approved"} THEN "open"
    ELSE IF s = "committing" THEN "begun"
    ELSE IF s \in Intended THEN s ELSE "closed"
Phases == [r \in Runs |-> PhaseOf(state[r])]

LEMMA MappedPhase ==
    /\ Phases = [r \in Runs |->
          IF state[r] \in {"awaiting_approval", "approved"} THEN "open"
          ELSE IF state[r] = "committing" THEN "begun"
          ELSE IF state[r] \in Intended THEN state[r] ELSE "closed"]
    /\ Phases' = [r \in Runs |->
          IF state'[r] \in {"awaiting_approval", "approved"} THEN "open"
          ELSE IF state'[r] = "committing" THEN "begun"
          ELSE IF state'[r] \in Intended THEN state'[r] ELSE "closed"]
BY DEF Phases, PhaseOf

(* The actions of AtomicInstall under that mapping.                          *)
LEMMA MappedActions ==
    ASSUME NEW r \in Runs
    PROVE  /\ /\ Phases[r] = "open" /\ UNCHANGED dest
              /\ Phases' = [Phases EXCEPT ![r] = "closed"]
              => Abstract!AbstractNext
           /\ /\ Phases[r] = "open" /\ dest = Prior[r] /\ UNCHANGED dest
              /\ Phases' = [Phases EXCEPT ![r] = "begun"]
              => Abstract!AbstractNext
           /\ /\ Phases[r] = "begun" /\ UNCHANGED Phases
              /\ \/ dest = Prior[r] /\ dest' = Candidate[r]
                 \/ dest = Candidate[r] /\ dest' = Prior[r]
              => Abstract!AbstractNext
           /\ \A o \in {"committed", "rolled_back", "recovery_required"} :
              /\ Phases[r] = "begun" /\ UNCHANGED dest
              /\ o = "committed" => dest = Candidate[r]
              /\ o = "rolled_back" => dest = Prior[r]
              /\ Phases' = [Phases EXCEPT ![r] = o]
              => Abstract!AbstractNext
BY MappedPhase
DEF Abstract!AbstractNext, Abstract!Close, Abstract!Begin, Abstract!Install,
    Abstract!Undo, Abstract!Resolve, Abstract!Become

(* An advance of one run moves its phase alone.                              *)
LEMMA AdvanceMovesPhase ==
    ASSUME LedgerTypeOK, NEW r \in Runs, NEW to, NEW type, Advance(r, to, type)
    PROVE  Phases' = [Phases EXCEPT ![r] = PhaseOf(to)]
<1>1. state' = [state EXCEPT ![r] = to] /\ state \in [Runs -> States \cup {Null}]
  BY DEF LedgerTypeOK, Advance
<1>2. \A q \in Runs : state'[q] = IF q = r THEN to ELSE state[q]
  BY <1>1
<1> QED BY <1>2 DEF Phases

(* A commit, step by step: the steps that move the destination or settle a   *)
(* run are those of AtomicInstall, all others are invisible to it.           *)
LEMMA StepsOfInstall ==
    ASSUME CommitInv, DestinationFits, Outsiders = {}, [Next]_vars
    PROVE  Abstract!AbstractNext \/ UNCHANGED <<Phases, dest>>
<1>0. LedgerTypeOK /\ CallTypeOK /\ RunsPrepared /\ CallFits /\ EvidenceKeptSafe
  BY DEF CommitInv, RowsAndFiles, LedgerInv
<1> DEFINE Mapped == Abstract!AbstractNext \/ UNCHANGED <<Phases, dest>>
<1>1. ASSUME UNCHANGED <<state, dest>>
      PROVE  Mapped
  BY <1>1 DEF Phases
<1>2. ASSUME NEW r \in Runs, NEW s, NEW v, NEW to, NEW type, UNCHANGED dest,
             state[r] = s, Advance(r, to, type),
             \/ to = s
             \/ s \in {"awaiting_approval", "approved"} /\ to \in {"cancelled", "stale"}
             \/ s = "preparing" /\ to = "cancelled"
             \/ /\ s \in {"awaiting_approval", "approved"} /\ to = "committing"
                /\ dest = Prior[r]
             \/ /\ s = "committing"
                /\ to \in {"committed", "rolled_back", "recovery_required"}
                /\ to = "committed" => dest = Candidate[r]
                /\ to = "rolled_back" => dest = Prior[r]
      PROVE  Mapped
  <2>1. Phases[r] = PhaseOf(s) /\ Phases' = [Phases EXCEPT ![r] = PhaseOf(to)]
    BY <1>0, <1>2, AdvanceMovesPhase DEF Phases
  <2>2. CASE to = s \/ s = "preparing"
    <3>1. PhaseOf(to) = Phases[r] /\ Phases = [q \in Runs |-> Phases[q]]
      BY <1>2, <2>1, <2>2 DEF PhaseOf, Intended, Phases
    <3>2. UNCHANGED Phases
      BY <2>1, <3>1
    <3> QED BY <1>2, <3>2
  <2>3. CASE s \in {"awaiting_approval", "approved"} /\ to # s
    <3>1. Phases[r] = "open" /\ PhaseOf(to) = IF to = "committing" THEN "begun" ELSE "closed"
      BY <1>2, <2>1, <2>3 DEF PhaseOf, Intended
    <3> QED BY <1>2, <2>1, <2>3, <3>1, MappedActions
  <2>4. CASE s = "committing" /\ to # s
    <3>1. Phases[r] = "begun" /\ PhaseOf(to) = to
      BY <1>2, <2>1, <2>4 DEF PhaseOf, Intended
    <3> QED BY <1>2, <2>1, <2>4, <3>1, MappedActions
  <2> QED BY <1>2, <2>2, <2>3, <2>4
<1>3. CASE UNCHANGED vars
  BY <1>1, <1>3 DEF vars, ledgerVars, files
<1>4. CASE Environment
  <2>1. ASSUME NEW r \in Runs, CancelRun(r)
        PROVE  Mapped
    <3>1. /\ state[r] \in {"preparing", "awaiting_approval", "approved"}
          /\ Advance(r, "cancelled", "cancelled") /\ UNCHANGED dest
      BY <2>1 DEF CancelRun, Cancel, Transition, LegalTransitions, files
    <3> QED BY <1>2, <3>1
  <2> QED BY <1>1, <1>4, <2>1
          DEF Environment, ChangeSource, DamageCandidate, OutsideWrite, Expire, Tick,
              ledgerVars, files
<1>5. ASSUME NEW p \in Procs, CommitStale(p) \/ CommitIntent(p) \/ Replace(p) \/ Rollback(p)
                              \/ RecordOrphanCleared(p) \/ MarkOutcome(p) \/ Finalize(p)
      PROVE  Mapped
  <2>0. /\ run(p) \in Runs
        /\ CallFitsOf(p) /\ DestinationFitsOf(p)
        /\ evidence[run(p)]["prior"] = Prior[run(p)]
    <3>1. run(p) \in Runs
      BY <1>0, <1>5 DEF CallTypeOK, CommitStale, CommitIntent, Replace, Rollback,
                        RecordOrphanCleared, MarkOutcome, Finalize
    <3> QED BY <1>0, <3>1 DEF CallFits, DestinationFits, RunsPrepared, Prepared, Fields
  <2>1. CASE CommitStale(p)
    BY <1>1, <1>2, <2>0, <2>1
    DEF CommitStale, MarkStale, Transition, Cas, LegalTransitions, ledgerVars, files, run
  <2>2. CASE CommitIntent(p)
    BY <1>1, <1>2, <2>0, <2>2
    DEF CommitIntent, RecordCommitIntent, CanRecordIntent, Cas, CommitState,
        DestinationFitsOf, ledgerVars, files, run
  <2>3. CASE Replace(p) \/ Rollback(p)
    <3>1. state[run(p)] = "committing" /\ UNCHANGED state
      BY <2>0, <2>3 DEF Replace, Rollback, CallFitsOf, Resolving, ledgerVars
    <3>2. Phases[run(p)] = "begun" /\ UNCHANGED Phases
      BY <2>0, <3>1 DEF Phases, PhaseOf
    <3>3. \/ dest = Prior[run(p)] /\ dest' = Candidate[run(p)]
          \/ dest = Candidate[run(p)] /\ dest' = Prior[run(p)]
      BY <2>0, <2>3 DEF Replace, Rollback, DestinationFitsOf
    <3> QED BY <2>0, <3>2, <3>3, MappedActions
  <2>4. CASE RecordOrphanCleared(p)
    BY <1>1, <1>2, <2>0, <2>4
    DEF RecordOrphanCleared, OrphanLockCleared, Cas, ledgerVars, files, run
  <2>5. CASE MarkOutcome(p)
    BY <1>1, <1>2, <2>0, <2>5
    DEF MarkOutcome, MarkRolledBack, MarkRecoveryRequired, Transition, Cas,
        CallFitsOf, Resolving, DestinationFitsOf, ledgerVars, files, run
  <2>6. CASE Finalize(p)
    BY <1>1, <1>2, <2>0, <2>6
    DEF Finalize, RecordCommitFinalized, Cas, DestinationFitsOf, ledgerVars, files, run
  <2> QED BY <1>5, <2>1, <2>2, <2>3, <2>4, <2>5, <2>6
<1>6. ASSUME NEW p \in Procs,
             \/ \E r \in Runs : BeginCommit(p, r) \/ BeginReconcile(p, r)
             \/ Progress(p) \/ Interrupt(p) \/ Crash(p)
      PROVE  Mapped
  BY <1>1, <1>5, <1>6
  DEF BeginCommit, BeginReconcile, Progress, CommitProgress, RecoveryProgress,
      SharedProgress, Interrupt, Crash, Recheck, OpenBackup, CopyBackup, Validate, Verify,
      VerifyStaleLock, UnlinkStaleLock, Reassess, Recover, CreateLock, WriteLock,
      WriteReceipt, ReleaseLock, ledgerVars, files
<1> QED BY <1>3, <1>4, <1>6 DEF Next

(* With one operator and no other writer, commit and reconcile implement the *)
(* atomic installation: a run takes the destination from exactly the content *)
(* it was approved against to its candidate, or puts it back, and committed  *)
(* and rolled_back say truly which (workflow/engine.py, commit, reconcile).  *)
THEOREM CommitIsAtomic ==
    ASSUME OneOperator, Outsiders = {}
    PROVE  Spec => ImplementsAtomicInstall
<1>1. Init => DestinationFits
  BY DEF Init, DestinationFits, DestinationFitsOf
<1>2. CommitInv /\ DestinationFits /\ [Next]_vars => DestinationFits'
  BY DestinationFitsKept
<1>3. Init => Abstract!AbstractInit
  BY DEF Init, CommitState, Abstract!AbstractInit
<1>4. CommitInv /\ DestinationFits /\ [Next]_vars
         => [Abstract!AbstractNext]_(Abstract!abstractVars)
  BY StepsOfInstall, MappedPhase DEF Abstract!abstractVars
<1> QED BY <1>1, <1>2, <1>3, <1>4, CommitInvariant, PTL
        DEF Spec, ImplementsAtomicInstall, Abstract!AbstractSpec
=============================================================================
