# A verification of fcp-mcp

fcp-mcp is an MCP server that edits Final Cut Pro XML. Its core is a
*transactional workflow*: an edit plan is prepared, previewed, approved, and
then installed over a destination file so that a crash, a stale approval or a
racing caller never leaves a half-made or unapproved result. Beside it stand
one-shot editing tools. This directory holds TLA+ modules of both, the TLC
configurations that check them on small instances, and theorems proved with
TLAPS about all of them.

Source paths below are relative to `src/src/fcp_mcp/`; the design document is
`docs/superpowers/specs/2026-07-26-v0.3.0-transactional-workflows-design.md`.

## 1. Inventory

| Part | Code | State | Operations | What makes it correct |
|---|---|---|---|---|
| Run ledger | `workflow/ledger.py` | SQLite tables `runs`, `events`, `artifacts`, `approvals`, `idempotency_keys` | `create_run`, `reserve_idempotency_key`, `append_event`, `transition`, `record_*`, `verify_integrity` | rows, event chain, approval and receipt tell one story; terminal runs are final; one run per key |
| Ledger file | `workflow/ledger.py` | `runs.sqlite3`, its bootstrap temporary and migration backups, two guard files | `initialize`, `_connect*`, `_write` | the schema is known, a backup is of what was migrated, a durable write stays |
| Decisions | `workflow/approval.py` | the `approvals` row | `approve_cli`, `approve_client`, `reject`, `cancel`, `effective_state` | an approval binds exactly the evidence shown and is consumed once, before it expires |
| Engine | `workflow/engine.py` | none of its own (ledger and files) | `prepare`, `assess`, `commit`, `reconcile` | the destination moves from what was approved to the candidate or not at all |
| Recovery | `workflow/recovery.py` | none | `observe_lock`, `assess_run`, `remove_stale_lock` | the branch taken is what the files prove |
| Destination lock | `workflow/locking.py` | one file per destination | `acquire`, `release` | one process at a time, through crashes |
| File replacement | `utils/atomic_write.py`, `fcpxml/transaction.py` | temporary file, backup | `atomic_replace_bytes`, `atomic_replace_bundle` | the file checked before the replacement survives in the backup; two files change together |
| Artifact store | `workflow/artifacts.py` | files below `artifacts/<run>`, a lock per run | `write`, `read`, `verify` | a file with a row has the recorded hash |
| Edit operations | `workflow/operations.py` | an inventory, an XML tree | `normalize_plan`, `execute_plan` | an accepted plan executes, and its receipts account for what it did |
| FCPXML | `fcpxml/*.py` | an XML tree | the edits of `FCPXMLModifier`, parse, validate, diff | an edit does to the timeline what its name says |
| Editing tools | `_server_runtime.py` | none of their own | nineteen `fcpxml_*` tools that edit a file | a call reports how it left its output |
| Surface, CLI | `workflow/surface.py`, `cli.py` | none of their own | tool and command handlers | status, prepare and commit answer truthfully and may be repeated |
| Live control | `automation/osascript.py` | Final Cut Pro itself | AppleScript with timeouts | an outcome that is not known is reported as such |

How they interact. Tool handlers and the command line call the engine in their
own operating-system processes. Processes share the ledger (every mutation one
`BEGIN IMMEDIATE` transaction, a compare-and-set on state and revision), the
artifact files, the lock file and the destination. The destination is also
written by programs that know none of this. There are no messages and no
background workers: what makes the behaviour hard is that reads, decisions and
writes of several processes interleave, that a process can die between any two
of them, and that recovery is a separate process that must judge by files.

`PROJECT.json` lists every component with its status, and every hazard with the
line at which it bites.

## 2. Modules

| Module | Models | Depends on |
|---|---|---|
| `WorkflowLedger` | the ledger, decisions, expiry and the integrity audit | |
| `WorkflowLedgerProofs` | theorems about it | `WorkflowLedger` |
| `MCWorkflowLedger` | instances for TLC | `WorkflowLedger` |
| `AtomicInstall` | abstract: what a commit promises | |
| `DestinationCommit` | commit, lock, file replacement, recovery, and the refinement mapping to `AtomicInstall` | `WorkflowLedger`, `AtomicInstall` |
| `DestinationCommitProofs` | theorems about it | `DestinationCommit`, `WorkflowLedgerProofs` |
| `MCDestinationCommit` | instances for TLC | `DestinationCommit` |
| `BundleTransaction` | `atomic_replace_bundle`: two files replaced together | |
| `BundleProofs` | theorems about the files and about what a caller gets | `BundleTransaction` |
| `MCBundleTransaction` | instances for TLC | `BundleTransaction` |
| `Timeline` | an FCPXML document and every edit of it; operators only | |
| `TimelineProofs` | lemmas about its operators | `Timeline` |
| `EditPlan` | normalization, projection and execution of a workflow plan | `Timeline` |
| `EditPlanProofs` | theorems about it | `EditPlan`, `TimelineProofs` |
| `MCEditPlan` | instances for TLC | `EditPlan` |
| `EditTools` | the one-shot editing tools over shared files | `Timeline` |
| `EditToolsProofs` | theorems about it | `EditTools`, `TimelineProofs` |
| `MCEditTools` | instances for TLC | `EditTools` |
| `ArtifactStore` | artifact files and their locks; actions without callers | |
| `PreparePipeline` | `prepare`, status, cancel, `reconcile_preparing` | `WorkflowLedger`, `ArtifactStore` |
| `PreparePipelineProofs` | theorems about it; it implements the ledger | `PreparePipeline`, `WorkflowLedgerProofs` |
| `MCPreparePipeline` | instances for TLC | `PreparePipeline` |
| `LedgerFile` | the ledger's file: creation, opening, migration, writing | |
| `LedgerFileProofs` | theorems about it | `LedgerFile` |
| `MCLedgerFile` | instances for TLC | `LedgerFile` |

`DestinationCommit` and `PreparePipeline` run the actions of `WorkflowLedger`
inside their own steps: the one starts where the other ends, at runs that ask
for approval. `EditPlan` is what `PreparePipeline` abstracts as the function
`Edit`.

### WorkflowLedger

| Variable | Code |
|---|---|
| `state`, `revision`, `evidence`, `expires`, `receipt` | columns of `runs` |
| `tail` | the last event of the run's chain: its sequence and type |
| `rows` | the kinds present in `artifacts` |
| `approval` | the run's row in `approvals` (at most one: `run_id` is its key) |
| `keys` | `idempotency_keys` |
| `now` | the UTC clock |

Each method of `RunLedger` that writes is one action with the source state `s`
and revision `v` its caller read as parameters; `LedgerNext` offers every `(s,
v)`, so callers holding reads of any age are among the behaviours. `Cas` is the
check of `_run_for_cas`, `Advance` the row update with its appended event.

Abstractions. A digest is a model value. The event chain is represented by its
tail because events are only appended and no mutation reads an earlier one. A
payload is left out except for the evidence columns it sets. A time is a number
of half seconds, the least that tells the two spellings of
`datetime.isoformat` apart: with a zero fraction it prints none, and `.` sorts
before `Z`. `SpellingAtLeast` is the string comparison the commit path makes,
`EffectiveState` the datetime comparison status makes.

A few things the model shows and the code's documents do not say:

- in client mode `MarkStale` is never enabled: `commit` asks for the edge
  `awaiting_approval -> stale`, which `LEGAL_TRANSITIONS` lacks, so the run stays
  undecided and its approval can be given again;
- the client's edge `awaiting_approval -> committing` is not in
  `LEGAL_TRANSITIONS` either; `record_commit_intent` writes it directly;
- `reserve_idempotency_key` and the pruning events have no caller in this
  version. They are actions (`MaintenanceStep`) because the ledger offers them;
- the commit tool never reconciles, although the design document says so twice
  (lines 323 and 570): only `fcp-mcp workflow reconcile` does.

### DestinationCommit

It extends the ledger by the files (`dest`, `backup`, `spare`, `receiptFile`,
the intactness of source and candidate), the lock file and, per process, a
program counter and the values its call holds. A commit is `CreateLock`,
`WriteLock`, `Recheck`, `CommitIntent`, `OpenBackup`, `CopyBackup`, `Replace`,
`Validate` (or `Rollback`), `Verify`, `WriteReceipt`, `Finalize`,
`ReleaseLock`; a reconcile is `BeginReconcile`, `VerifyStaleLock`,
`UnlinkStaleLock`, `CreateLock`, `WriteLock`, `Reassess`, then `Recover`,
`WriteReceipt` and `Finalize`, or `MarkOutcome`. Each action is what happens
between two points at which another process, a crash or an outside program can
make a difference; a ledger call is one action because it is one transaction.

Reading a file and hashing it is one step. Temporary files are private to a
process and left out. Other programs replace the destination by rename or
delete it; they do not write into it in place. A process that crashed never
runs again and its pid is not reused, which is what `assess_owner_liveness`
can at best observe on one host; a lock of another host is not modelled.
`receipt.json` is represented by the process that wrote it, which tells
receipts of different attempts apart.

### AtomicInstall

Two variables: the destination and each run's phase. `Begin` needs the
destination to be what the run was approved against, `Install` and `Undo` move
it between exactly two contents, `Resolve` ends the run and says truthfully
which content is there. The mapping (`DestinationCommit!Abstract`) reads the
phase off the ledger state. It forgets locks, processes, backups and receipts:
that these implement it is the content of `ImplementsAtomicInstall`.

### BundleTransaction

It stands beside the workflow: only the YouTube handoff (`youtube_clip_plan.py`)
calls `atomic_replace_bundle`, with no ledger behind it.

| Variable | Code |
|---|---|
| `dest` | the two destinations, the document and its sources sidecar |
| `stage`, `backup`, `receipts` | the files named after a transaction |
| `journal`, `journalTemp` | the journal of the pair and its temporary file |
| `pc`, `call` | where a call is, what its caller read, and the journal it works from |

A call is `Request` (the snapshot), `Enter` or `Refused` (the lock), perhaps
`Recover`, then `Scan`, `Stage`, `Backup`, `PublishJournal`, `RecheckPrior`,
`Replace`, `Verify`, `WriteTemp`, `MarkJournal`, `WriteReceipt`, `Clean`, `Done`.
`Fail` is an error inside the `try` block and leads to `Abort` or to `Rollback`,
`Restore`, `Prove`, `WriteTemp`, `MarkJournal`, `Clean`. `Crash` is the death of
the process, and stands too for an error no handler catches: both leave the
files as they are. `CrashWriting` cuts a write short (`Partial`).

Abstractions. A file is its digest. A validation that fails is a `Fail`. The
lock is `flock`, which the kernel gives up when the holder dies, so a process
may come back after a crash. One transaction id goes with one payload, because
the sidecar contains the id. A crash is the death of a process: what `fsync`
adds for a loss of power is not modelled, nor evidence that was tampered with.

What the model shows and the documents do not say: a crash while a stage, or
the first journal, is written leaves a file that no later call removes; calls
for that pair end in `RECOVERY_REQUIRED` until someone deletes it. A crash
before `Unpublish` leaves a receipt for an undone commit, and the id is refused
from then on.

### Timeline, EditPlan, EditTools

A document is a sequence of spines, each with the start and the duration its
sequence declares, and the names of elements outside the spines. Its elements
have tag, name, resource, times, role, notes and connected clips. `Timeline` has
one operator for every edit of `FCPXMLModifier` that a plan or a modelled tool
calls, and for the edits the tools make themselves (`Reformat`, `RemoveSilence`,
`AddTitle`, `AddAudio`); each returns the document and the number the method
returns.

`EditPlan` holds the source, the plan as accepted so far, the projected
inventory, the tree and the receipts. `PreflightOperation` and `RefuseOperation`
are the loop of `normalize_plan`: an operation is accepted against the inventory
that `Advance` projected through those before it. `ExecuteOperation` and
`FailOperation` are the loop of `execute_plan`, with one `Run...` operator per
executor, including the comparison each executor makes of the document it left.

`EditTools` has files and calls. A call is `Begin` or `Reject`, `Stage` or
`RefuseCandidate`, `TakeBackup`, `Replace`, `Revalidate`, perhaps `Rollback`, and
`ReadBack`: the steps of `_save_modifier_receipt`, `commit_fcpxml_bytes` and
`atomic_replace_bytes`, then the tool's look at its committed output. Two servers
share files and nothing locks them. `CandidateFits` is the tool's own check of the
candidate, `ReadsBack` what it asks of the committed file.

Abstractions. Times are whole ticks, so conversion between time bases is left
out; a name is a sequence of words, what a search pattern can match; a resource
is its name. Formatting, attribute spelling and the parser's own checks are left
out. Structural validation never refuses these documents, because every edit
keeps references known.

### ArtifactStore, PreparePipeline

| Variable | Code |
|---|---|
| `source`, `destination` | content and inode of the two files |
| `stored`, `locked` | artifact files, and the exclusive lock of each run's directory |
| `pc`, `call` | the local variables of each `prepare` and `status` call |
| `faults`, `changes`, `damaged` | bounds and history |

A prepare is `Create` (or `Repeat`, `Conflict`), `SnapshotSource`,
`ObserveDestination`, `Inspect`, `Execute`, `FinishDryRun`, then for the
candidate and the diff `Write`, `ConfirmWrite`, `Reopen`, `Record`, then `Recheck`,
`MatchSource`, `MatchDestination`, `Preview`, `Await`, `Finish`. An error at any
of them (`Stumble`, a refusal of the ledger, a log line that cannot be written)
goes to `Failing` and `RecordFailure`, which stores failure evidence like any
artifact. A status call is `ReadRow`, `ReadEffective`, one `Look` per artifact
and `Answer`; `Complete` rehydrates a repeated prepare. `CancelRun` and `GiveUp`
are a client's cancel and `reconcile_preparing`.

Abstractions. A document is a digest and applying the plan a function of source
and request. Resolution of paths and profiles comes before the run exists and is
left out. A file is read in one step: a reader that sees two halves of an
in-place write is not modelled. Only `cancel` and `reconcile_preparing` race
with a prepare; expiry and approval follow it and are in the other modules.

### LedgerFile

| Variable | Code |
|---|---|
| `entry`, `file`, `hot` | the inode under `runs.sqlite3`, the content of each inode, and those with a leftover journal |
| `temp`, `backup` | each process's bootstrap temporary and the backup it published |
| `guard`, `backupGuard`, `reserved` | the two `flock`s, and SQLite's RESERVED lock on each inode |
| `pc`, `call` | `_DatabaseLease` and the local variables of `initialize` and `_write` |
| `release`, `ready`, `acks`, `replaced`, `crossed` | installed releases, and history |

A call is `EnterGuard`, `Sweep`, `Look` (with `Stage`, `Fill`, `Link`, `DropTemp`
for a new ledger), `Open`, `Connect`, `Probe`, `Rows`, `Begin` or `Busy`, for a
migration `EnterBackup` and `Publish`, then `Commit` and `Check`. `Stumble` is an
error with its cleanup, `Crash` the death of a process, `Replace` an operator or
program that removes, restores or brings a ledger.

SQLite's lock is a POSIX record lock, and the kernel drops those of a process
when it closes *any* descriptor of the file. `_backup_database_guarded` opens the
file a second time and closes it inside the transaction, so `Publish` releases
`reserved`. `CommitOverOthers` is what SQLite may then do when another process
committed in between: its rows survive, are overwritten, or the file is
malformed, and the COMMIT may report an error all the same. A scratch program
with the same sequence of calls showed each of these outcomes.

Abstractions. A process has one connection at a time. COMMIT is one step, except
that a crash in it leaves a journal. Read-only connections are left out, and the
number of creation races is not bounded (the code gives up after some). Errors
in the cleanup of an error are left out.

## 3. What is checked

| Run | Instance | Shows |
|---|---|---|
| `ledger_life` | 1 CLI run, 2 keys, 2 digests, 11 revisions, 4 half seconds | the life of a run: row and chain, decision and state, the audit, finality, the state machine, keys, expiry |
| `commit_runs` | 3 runs, 2 committers, 1 reconciler, crashes, 1 I/O error | types, one lock holder, receipts, the refinement of `AtomicInstall` |
| `commit_outside` | 1 run, 2 committers, 1 reconciler, other programs and expiry, 2 faults, fair | no mutation before the intent; a committed run keeps the approved prior file whatever others write; what alone can keep a commit unresolved |
| `bundle_pair` | 2 transactions, 2 processes, crashes anywhere, 2 errors or foreign saves | no mixed pair without a journal, undo possible until the commit, no lost update between callers with one snapshot, a committed pair can be replayed |
| `plan_flat` | 3 documents, 24 operations, plans of up to 3 | an accepted plan executes, the projection is the document, footage is conserved, times stay in the domain, receipts account for changes |
| `tools_shared` | 2 documents, 40 calls of 19 tools, 2 servers, 1 failing file operation | a sensible call keeps the clips and is not told its committed output lacks its effect; outcomes tell the file |
| `prepare_calls` | 1 keyed run, 2 requests, 2 documents, 2 callers that prepare and query, 2 troubles | the answer fits the request, evidence hangs together, artifacts can be read, errors settle the run, status is true |
| `file_open` | 2 processes, same or different releases, 3 first files, 1 trouble, fair | known schema, faithful backup, errors with a cause, writes lost only by a migration that crossed others, every call ends |

In `commit_runs` two runs were prepared from the same file, so that one must
lose, and the third, approved by its client, restores what the first replaces:
the contents of the destination come back (A-B-A) and recovery must not be
misled by them.

Runs expected to fail, each with the sentence of the repository it contradicts
(`PROJECT.json`, "findings"):

| Run | Violated | Scenario |
|---|---|---|
| `crossing` | `OnlyDeadLocksRemoved` | two reconcilers verify a dead lock, one removes it and commits on, the other unlinks the new lock |
| `bundle_interrupted` | `InterruptedReconciles` | the journal says committed, an error starts the rollback, the process dies in it |
| `tools_lost` | `SuccessKeepsClips` | `reorder_clips` over two clips of one name drops one and reports success |
| `file_lost` | `AcknowledgedWritesStay` | a process writes between the backup and the COMMIT of another's migration, and its durable write is gone |

`OneHolder` is checked with one reconciler because `crossing` breaks it with
two.

### Disagreements without a run

Modelling and earlier exploration showed these too; they are recorded here, and
where a property has to allow for one its comment says so.

- A commit inside the second of expiry passes: `12:00:00.5Z` sorts before
  `12:00:00Z` (`workflow/ledger.py:4083`). `ExpiryHonoured` is stated in seconds.
- A client commit that dies between lock and intent leaves a lock that no
  reconcile removes (`workflow/engine.py:1489`), and such a lock of one run stops
  the reconcile of another (`:1493`). `Obstructed` in `DestinationCommit` names
  these cases.
- A destination that appears after the recheck makes the commit refuse, and
  reconcile then finalizes the run (`workflow/recovery.py:307`).
- A reorder lays the primary spine out from zero whatever `tcStart` says
  (`fcpxml/writer.py:500`; `CHANGELOG.md:41-43` says otherwise).
- A reorder followed by a rename that makes two names equal leaves the
  projection of a plan with another first clip of that name than the document
  (`workflow/operations.py:650`); the plan then fails with nothing written. A
  split that makes, or a fill that asks for, a name that is there already does
  the same after a reorder. `NamesStaySteady` leaves these plans out.
- `remove_silence` removes a gap together with the clips connected to it and
  reports success (`_server_runtime.py:3681`); `LLM_GUIDE.md:112` says only that
  gaps go. `Sensible` leaves such gaps out.
- A title or sound added twice, or after a clip of another sequence, is
  committed, and the tool then reports an error, because it looks for the first
  element like it in the primary spine (`_server_runtime.py:2745`). Tools that
  look for five tags report the same about a compound clip they did change. The
  new file stays, though the design says "On post-commit failure, restore the
  backup atomically" (`2026-07-26-v0.2.1-trust-baseline-design.md:234`).
  `CheckAgreesWithEdit` holds because `Sensible` leaves these calls out.
- What another program writes to the destination between a commit's backup and
  its replacement is replaced without a backup (`utils/atomic_write.py:1424`),
  and the run still commits. `CommittedKeepsPrior` is about the file the run was
  approved against, which `commit_outside` shows is kept.
- Two servers that write one output lose an update between backup and replace
  (`utils/atomic_write.py:1424`); `OutcomeTellsFile` is about calls nobody
  disturbed, and no property about two that cross.
- Failure evidence counts against the byte limit of a run's artifacts; when the
  candidate and diff leave no room it is refused and the run stays `preparing`
  (`workflow/artifacts.py:1043`; design document lines 254-255). So it does when
  the first log line of a prepare cannot be written (`workflow/engine.py:997`).
- A status query reads the row, its state and its artifacts one after the other
  (`workflow/surface.py:119`, `:154`), so a prepare or a reconcile in between
  makes it report corruption of a healthy run.
- An identity error after COMMIT deletes the backup of a migration that is
  durable (`workflow/ledger.py:2760`; design document line 449).
- A process that dies in COMMIT leaves a journal under which the raw header has
  no bootstrap token; the next call is then refused once
  (`workflow/ledger.py:1413`). `ErrorsHaveCause` allows it (`torn`).

### Bounds

- `MaxRevision` counts the mutations of a row. A CLI run needs nine to be
  committed (five evidence steps, the request for approval, the approval, the
  intent, the finalization) and creation makes one; 11 leaves room for a repeat
  or an audit event. In the commit runs, which start from prepared runs, 12 is
  never reached; a prepare makes at most nine.
- `MaxTime` = 4 half seconds with `Ttl` = 1: an expiry falls on a whole and on
  a half second, and the clock goes past it by more than one second. The
  commit runs start with the approval given; in `commit_outside` it expires at
  any point of a commit, in `commit_runs` and `prepare_calls` the clock stands
  still.
- `MaxFaults` bounds I/O errors and outside changes together; crashes are not
  faults and are bounded by the number of processes, each of which dies once.
- In the bundle runs both transactions install the same document with a sidecar
  each, over a pair with another document or over none: one file is unchanged
  when the second follows the first, and the item the code skips is among the
  cases. Two transactions are a dead attempt and a conflicting one; a process
  that returns or dies can call again, so attempts are not bounded.
- Two committers and a reconciler are needed for a takeover (one dies, one
  recovers, one comes new); a second reconciler for the crossing.
- Plans of three operations: an operation acts on what two others made, such as
  a rename of a split piece that a reorder then moves. `TimeLimit` = 12 stands
  for 2^63 - 1 and is reached by a slowed-down clip; in the tool runs it is 4 and
  only bounds the frames `SameFootage` looks at: no clip of those documents
  plays a later one. The documents have repeated
  names, gaps, a transition, a connected and a compound clip, two sequences.
- Each server makes one call in the tool runs, which is every pair of calls at
  every interleaving; one failing operation reaches each rollback.
- `MaxTroubles` bounds failed operations, deaths, and changes by other programs:
  two in `prepare_calls` (a change and a crash; a damage and an error; there
  the source starts as one document, one caller reads a status at a time, and
  files change while a run is being prepared or stands prepared, which is all
  that a reader or a prepare can tell apart), one in
  `file_open`, none in `file_lost`, which needs none. `MaxArtifactBytes` = 4 with
  a candidate of three bytes and a diff of one leaves no room for failure
  evidence; with the other candidate it does.
- Symmetry is used for digests, keys, servers and processes, never in a run with
  a liveness property.
- TLC's deadlock check is off: a system whose calls and runs have all ended, or
  whose clock and revisions have reached their bounds, rightly stops. That a call
  never waits for another is checked as `UnobstructedCommitResolves` and
  `CallsEnd`.

### Fairness

Commit: `WF(Progress(p))`: a call that started continues until it returns or its
process dies; the code has no wait in it. `WF(BeginReconcile(p, r))`: an
operator keeps running `workflow reconcile` as long as it would do something.
The second is an assumption about the operator, not about the code; without it
nothing resolves an interrupted commit, since no code path reconciles on its
own. No fairness is assumed of commits, faults, crashes, cancellation, other
programs or the clock.

Ledger file: `WF(ProcessStep(p))`, a call goes on (waiting for SQLite's lock ends
by the busy timeout of five seconds), and `SF` of the two `flock`s, because the
kernel serves everybody who waits for one. No fairness is assumed of calls,
errors, deaths or other programs.

## 4. What is proved

Everything below holds for every value of the constants that satisfies the named
assumptions of the modules (`LedgerAssumption`, `CommitAssumption` and so on:
types of the constants, special values that are no data, bounds that are
numbers). Where a theorem needs more, its statement says so, and so does this
section. No theorem depends on the size of an instance, on a fairness
assumption or on what TLC found.

### The ledger (`WorkflowLedgerProofs`)

| Theorem | Property |
|---|---|
| `TypeCorrect` | `LedgerTypeOK` |
| `RowAndChainAgree` | `RowMatchesChain` |
| `DecisionAndStateAgree` | `DecisionExplainsState` |
| `AuditIsQuiet` | `VerifierAccepts` |
| `TerminalRunsStay` | `TerminalIsFinal` |
| `StateMachineFollowed` | `FollowsStateMachine` |
| `KeysNameOneRun` | `OneRunPerKey` |
| `ExpiryIsHonoured` | `ExpiryHonoured` |

The argument. Every mutation but creation and pruning has one shape
(`RowStep`): it advances one run that is not terminal and writes no column of
another (`MutationShape`, `ReserveShape`, `PruneShape`). So an invariant that
speaks about one run at a time needs only be shown for the run a step is about;
the frame lemmas (`DecisionFrame`, `EvidenceFrame`) do the rest.

- `LedgerTypeOK`, `RowMatchesChain`, `OneRunPerKey` are inductive (the latter
  two given the first).
- `DecisionExplainsState` is inductive with the type invariant: its conjunct
  about undecided states says that evidence is only written while no decision
  exists, and `DecisionKept` that a step inside the decided, or inside the
  undecided, states keeps it.
- `VerifierAccepts` is not inductive: that a prepared run is complete does not
  follow from what the audit reads about its approval, and the expiry bound in
  an approval needs the whole binding. It is split (`AuditParts`) into
  `RowMatchesChain`, `DecisionExplainsState` and `EvidenceFits`, the inductive
  statement about artifact rows, hashes, receipts and failure evidence.
- The action properties follow from the type invariant step by step. The
  expiry theorem is as strong as the code allows: the string comparison is
  wrong only inside one second, which `ExpiryHonoured` states in seconds.

`LedgerInv` joins these; `LedgerKept` says that no step of the ledger leaves it,
wherever a behaviour began. The modules that run the ledger's actions use that.

### Commit and recovery (`DestinationCommitProofs`)

| Theorem | Property | Hypothesis |
|---|---|---|
| `CommitTypeCorrect` | `TypeOK` | none |
| `CommitPassesAudit` | `VerifierAccepts` | none |
| `LockIsExclusive` | `OneHolder` | `OneOperator` |
| `PriorIsKept` | `CommittedKeepsPrior` | `OneOperator` |
| `ReceiptIsRecorded` | `ReceiptMatchesLedger` | `OneOperator` |
| `IntentComesFirst` | `MutationNeedsIntent` | `OneOperator` |
| `LiveLocksStay` | `OnlyDeadLocksRemoved` | `OneOperator` |
| `CommitIsAtomic` | `ImplementsAtomicInstall` | `OneOperator`, no `Outsiders` |

`OneOperator` says that no two reconcilers exist. The code does not enforce it:
`remove_stale_lock` verifies a lock and unlinks it by name in two steps, and the
run `crossing` shows a second reconciler removing a living process's lock
between them. So the hypothesis is exactly what an operator has to see to, and
`LiveLocksStay` is the converse of that finding. Committers are not limited.
Without it the types and the audit still hold (`RowsAndFiles`), because every
mutation by a commit or a reconcile passes the ledger's compare-and-set
(`MutationIsLedgerStep`, `StepsOfLedger`) and so keeps `LedgerInv`.

`CommitInv` adds the lock (`LockFits`: whoever works in the critical steps is
the owner the file names, and a lock about to be unlinked is a dead process's),
what a call has made sure of so far (`CallFits`), and what a committed run has
left on disk (`KeptSafe`). It is inductive because a step of one call changes
the destination, the backups or a committing run only under the lock, so that
it leaves what every other call knows alone.

The refinement needs one thing more, `DestinationFits`: where the destination
stands at each step of the call that holds the lock. It holds only when no other
program writes there. With such a program the promise of `AtomicInstall` cannot
be kept by any code, since the file can be replaced after the last look at it;
`commit_outside` checks what is still promised then, and `PriorIsKept` proves it.

### The pair of files (`BundleProofs`)

| Theorem | Property | Hypothesis |
|---|---|---|
| `BundleTypeCorrect` | `TypeOK` | none |
| `PairIsWhole` | `NeverMixedAtRest` | none |
| `UndoStaysPossible` | `UndoIsPossible` | none |
| `CallersLoseNothing` | `ReplacesWhatWasSeen` | `SidecarsTell`, `ForeignIsForeign` |
| `CommitsStayReplayable` | `CommittedIsReplayable` | `Fresh`, `ForeignIsForeign` |

`BundleInv` says, for each step of a call, how the journal on disk, the journal
the call works from, the two files and the backups relate. The properties
themselves are conjuncts of it: `UndoIsPossible` has to be known while a call
recovers what another left, `NeverMixedAtRest` when a journal is deleted. What
makes it inductive is that a backup is complete before the journal that names it
is published (`AllSafe`), that a file is at any time at the prior or the output
side of that journal unless another program wrote it (`AtPrior`, `AtOutput`),
and that one call is inside the lock (`OneInside`).

The other two rest on what callers put into a pair. `SidecarsTell`: the
provenance file that is replaced beside the document contains the transaction id,
so two whole pairs with one provenance are one pair. `Fresh`: an attempt that is
not a repetition gets a new `uuid4` (`youtube_clip_plan.py:350-353`), so none
installs what was there before or what another attempt installs.
`ForeignIsForeign`: what other programs save is none of these bytes. Without the
first a call that reconciles another's attempt could take its result for the pair
its own caller saw. TLC evaluates all three on the instance (`InstanceAssumption`
in `MCBundleTransaction`). `Served` follows the caller's snapshot through the
call; `ReplayInv` follows the receipt and the backups it names.

### The ledger's file (`LedgerFileProofs`)

| Theorem | Property |
|---|---|
| `FileTypeCorrect` | `TypeOK` |
| `SchemaIsKnown` | `InitializesKnownSchema` |
| `BackupIsExact` | `BackupIsWhatWasMigrated` |
| `WritesAreKept` | `OnlyMigrationsLoseWrites` |
| `ErrorsAreTrue` | `ErrorsHaveCause` |

They need `FileAssumption` only. `FileInv` has which step holds which lock
(`HoldsLocks`), what a call knows of its inode (`CallKnows`), and that there is
one ledger while nobody replaces it (`LedgerStays`). Its centre is that SQLite's
lock says more than mutual exclusion: while a call has it, the file is still what
the call read (`reserved[id] = p => file[id] = call[p].base`). The one step
that loses the lock early is the publication of a migration's backup, so a commit
without the lock is a migration with its own backup on disk. That is the case
`OnlyMigrationsLoseWrites` and the error `malformed` have to except, and the
proof shows there is no other.

### Prepare (`PreparePipelineProofs`)

| Theorem | Property |
|---|---|
| `PipelineTypeCorrect` | `TypeOK` |
| `RepliesFitRequests` | `ReplyFitsRequest` |
| `EvidenceIsCoherent` | `EvidenceHangsTogether` |
| `ArtifactsStayReadable` | `RecordedArtifactsReadable` |
| `ErrorsSettleRuns` | `ErrorSettlesRun` |
| `StatusTellsTruth` | `StatusToldTrue` |
| `PreparesAreLedgerSteps` | `LedgerSpec` |
| `PreparesPassAudit` | `VerifierAccepts` |
| `RetriesNameOneRun` | `OneRunPerKey` |

None has a hypothesis beside the assumptions on constants, and the bounds of the
instance (one run, one key) are gone. A prepare holds no lock across its steps.
What stands in for one is `Alone`: a run has at most one call that still works on
it, the one that created it. A repeated call only reads, and a cancel or a
reconcile moves the state and no column. So what a call has recorded is what the
row holds (`Going`), whoever comes between its steps; and as each column is
written once (`Moved`), what a reader saw stays true (`Saw`). `PipelineInv` is
these, per run and per call. The lemmas `StepHolds`, `StillHolds`, `OnwardHolds`
say once what a step has to show: the row and the call it is about; all else is
`Quiet`. The directory lock of the artifact store is not needed for any of these
properties.

`PreparesAreLedgerSteps` is the refinement: every step of the pipeline is one
operation of `WorkflowLedger`, or leaves the ledger alone, so every theorem about
the ledger holds of it. The two after it state the most useful ones.
`DigestsAssumption` says that the digests of documents, plans and diffs are among
the ledger's values.

### Edits of a document (`TimelineProofs`)

No theorem of its own, but the lemmas the next two sections rest on. An edit is
made of maps over spines and items, selections, insertions and flattenings, so
the lemmas start there:

- *Induction.* Rules that take an operator cannot be instantiated by the
  installed provers. What can be used is that a set of numbers that contains 0
  and successors is `Nat` (`Counting`), from the well-foundedness of `<`. It gives
  what a flattened sequence contains and in which order (`FlatteningFits`,
  `FlattenedLayout`, `LayoutRises`) and what `SelectSeq` keeps (`Selecting`).
- *Places.* `Places` lists the places of a document once each, in document order,
  so a first place of a name exists when any does (`FirstPlace`, `FoundPlace`).
- *What plays.* A frame is played as often as there are places that play it.
  `RearrangedKept` is the centre: a map that takes the places of one document
  one-to-one onto those of another, with the same tag, resource and times,
  keeps that number, apart from places that play nothing. `SplitKept` is the one
  edit for which it is not so: one place becomes two whose times share out its
  frames.
- *One lemma per edit.* `Carries(d, x)` says that `x` plays what `d` plays and
  is flat when `d` is; there is a lemma `...Carries` for every edit that only
  rearranges, and a lemma `...Document` for every edit, which says that it makes
  a document of a document.
- *Where the elements go.* `Origin` takes a place of the edited document back to the
  place its element had, and `Traced` says that the element kept its tag and name
  on the way; `AddedItems` says where a new item of the primary spine is.

### The one-shot tools (`EditToolsProofs`)

| Theorem | Property |
|---|---|
| `OutcomesTellFiles` | `OutcomeTellsFile` |
| `SensibleCallsKeep` | `SensibleCallsKeepClips` |
| `CheckAgrees` | `CheckAgreesWithEdit` |

`ToolInv` follows the destination from the commit's first look at it through
backup, replacement and rollback, while no other call changes it. For
`OutcomeTellsFile` the edits, the candidate checks and the read backs stay
opaque: it holds whatever they do. `SensibleCallsKeep` is about the edits.
`DataInv` says that every file is a document, whichever server wrote it last, and
that what a call made is the edit it was asked for of the document it read; then
`EditOf` carries the footage for every kind in `Keeping` that is called
sensibly. `Sensible` is used for three of them: `reorder_clips` needs the names
it is given to be names of the spine once each, `split_clip` and
`remove_silence` that what they split or remove holds no connected clip. The
attempt without the last one failed, and TLC then found the call that loses
clips once a document had such a gap; the documents of `tools_shared` now do.

`CheckAgrees` puts the two halves of a tool side by side. The edit looks for a
name among twelve tags and the read back among five, in another document, and
each tool then looks at something else: notes, durations, the next sibling, the
names of the primary spine. A sensible call has targets that are the one element
of their name (`Sole`), and the proof follows that element: where `Traced` says it
came from, the edits leave one place for it (`SoleChanged`, `SoleBefore`), or none
after a deletion (`SoleDeleted`), and after a sequence of markers or deletions as
well. `...Read` is the lemma of one tool, `SensibleReadsBack` puts them together,
and `DataInv` supplies that the document read back is that edit of the document
parsed.

### Edit plans (`EditPlanProofs`)

| Theorem | Property |
|---|---|
| `FootageIsConserved` | `FootageConserved` |
| `ReceiptsAccount` | `ReceiptsAccountForChanges` |

Both are about every source, every plan of any length and every operation
(`MaxPlan` and `TimeLimit` are any positive numbers). `PlanInv` says that the
tree is a document, that the accepted operations have the arguments preflight
asked for (`Fits`, from `AcceptedFits`), how many receipts there are in each
phase, and, as `FootageCarried`, that as long as only rearranging operations
ran on a flat source, the tree carries it. Execution of an operation keeps it
because each executor is one edit of `Timeline` or a fold of one, and `Carries` is
transitive; a failing operation ends the plan.

`ReceiptsAccount` has no flatness premise: connected clips, repeated names and
several sequences are allowed. Every clip of the edited tree is told
(`Told`): it is a transition, or it was in the tree before up to its offset and
connected clips (`Known`), or its name is in the receipt. There is one lemma
per executor. A reorder is about offsets too, because it lays the primary spine
out again, and has an argument of its own: its receipt lists the names it moved
and every item whose offset the new layout changed, and the other spines are
left alone.

The assumptions on constants say what the code has made sure of before a plan or
a call begins. Sources and documents are documents (`SourcesAssumption`,
`DocumentsAssumption`: they come from the parser). Names to delete or reorder
are sequences, in a plan without repetition (`OperationsAssumption`:
`_unique_clip_names`, `workflow/models.py:264`); a speed is a positive fraction
(`PositiveFiniteFloat`, `:291`); the arguments of a tool have the types of its
signature. TLC evaluates them on each instance.

### Only model-checked

- `AcceptedPlanExecutes`, `ProjectionMatches` and `ResultTimesInDomain` of
  `EditPlan`. They relate two computations: what the projection does to an
  inventory and what the executors do to a tree. A proof needs that each pair of
  steps keeps them alike, for fourteen operations, and that relation has to
  hold of the order of clips and of the first clip of each name as well. The
  attempts to state it showed where it is lost (a reorder does not move
  `inv.clips`), which is what `NamesStaySteady` leaves out.
- Liveness: `UnobstructedCommitResolves` and `CallsEnd`. They rest on fairness,
  hence on ENABLED, which the prover does not support.
- The four expected violations.

## 5. Plan

Done: every module of the table above, and a theorem for each safety property
except the three just named. Next, in this order:

1. A relation between inventory and tree that each operation and its projection
   keep, for `ProjectionMatches` first; the other two of `EditPlan` follow it.
2. `PairSwap`, an abstract replacement of two files that `BundleTransaction`
   implements; `BundleInv` already says at which side of the journal the files
   are.
3. `WorkflowSurface`: the retry of a client's commit that lost its answer, which
   `approve_client` refuses although the engine would return the receipt.
4. `TimeMath`: conversions between frame rates and time bases, timecodes.
5. `LiveControl`: scripts, timeouts and unknown outcomes.

## 6. Not modelled

Parsing and serialising of XML, analysis, diffs, generators and templates,
ffprobe, result schemas and the release scripts are data conversion or plain I/O
without shared state. Live control acts on Final Cut Pro, whose answer to a
keystroke the code does not see. The
read-only tools and the reports of the command line change nothing.
