--------------------------- MODULE PreparePipeline ---------------------------
(***************************************************************************)
(* WorkflowEngine.prepare (src/fcp_mcp/workflow/engine.py) and the status  *)
(* read of the workflow surface, over the run ledger and the artifact      *)
(* store.                                                                  *)
(*                                                                         *)
(* A prepare snapshots its source, applies the plan to the snapshot,       *)
(* stores the candidate and its diff, samples source and destination       *)
(* again, and asks for approval.  It holds no lock across these steps:     *)
(* other prepares, other programs, a cancel, a reconcile and a status      *)
(* query come between any two of them, and any of them may fail, be        *)
(* refused by the ledger or be the last one of its process.                *)
(***************************************************************************)
EXTENDS WorkflowLedger

CONSTANTS
    Preparers,          \* threads or processes that call prepare
    Readers,            \* those that call status
    Contents,           \* digests of FCPXML documents
    Absent,             \* a destination with no file
    Edit,               \* request -> source -> candidate, Null when the plan fails
    Expects,            \* request -> its expected_source_sha256, or Null
    Sizes,              \* bytes of a candidate, of a diff, of failure evidence
    MaxArtifactBytes,   \* config.max_artifact_bytes
    Nothing, Corrupt,   \* see ArtifactStore
    MaxTroubles         \* bound: faults and changes in a behaviour

VARIABLES
    source, destination,   \* the two files: content and inode identity
    stored, locked,        \* see ArtifactStore
    pc,                    \* where each caller is
    call,                  \* what it holds in its local variables
    faults,                \* failed operations, dead processes, damaged artifacts
    changes,               \* what other programs did to source and destination
    damaged                \* the artifacts another program truncated

SizeOf(kind, body) == IF kind = "candidate" THEN Sizes[body] ELSE Sizes[kind]

INSTANCE ArtifactStore

storeVars == <<stored, locked>>
callVars == <<pc, call>>
fileVars == <<source, destination, changes, damaged>>
vars == <<ledgerVars, storeVars, callVars, fileVars, faults>>

ASSUME PipelineAssumption ==
    /\ Edit \in [Requests -> [Contents -> Contents \cup {Null}]]
    /\ Expects \in [Requests -> Contents \cup {Null}]
    /\ Absent \notin Contents /\ Null \notin Contents /\ Null \notin Requests
    /\ Null \notin [request : Requests, run : Runs]
    /\ MaxTroubles \in Nat

(* What the ledger records digests of: documents, plans and diffs.          *)
ASSUME DigestsAssumption ==
    Contents \cup {Absent} \cup Requests
        \cup [source : Contents, plan : Requests, candidate : Contents] \subseteq Values

-----------------------------------------------------------------------------
(* What a call holds: the run and the revision it believes the row is at,   *)
(* the sampled files, the candidate, the artifact in hand; for a repeated   *)
(* call and for a reader the row it read; what it answers; and whether      *)
(* recording a failure itself failed.                                       *)
NoCall == [run |-> Null, key |-> Null, request |-> Null, repeat |-> FALSE, v |-> 0,
           source |-> Null, prior |-> Null, made |-> Null, kind |-> "candidate",
           view |-> Null, effective |-> Null,
           found |-> [kind \in {"candidate", "diff"} |-> "unread"], lost |-> FALSE]

Row(r) == [state |-> state[r], evidence |-> evidence[r]]

Go(p, step, c) ==
    /\ pc' = [pc EXCEPT ![p] = step]
    /\ call' = [call EXCEPT ![p] = c]

Fault == faults + changes < MaxTroubles /\ faults' = faults + 1
Change == faults + changes < MaxTroubles /\ changes' = changes + 1

(* Where an error takes a call: the handler that records the failure, out   *)
(* of prepare when the call only repeats another, or out of that handler,   *)
(* which swallows its own errors.                                           *)
Handled(p, lost) ==
    LET c == [NoCall EXCEPT !.run = call[p].run, !.v = call[p].v, !.repeat = call[p].repeat]
    IN  IF c.repeat THEN Go(p, "errored", c)
        ELSE IF call[p].kind = "failure_evidence" THEN Go(p, "errored", [c EXCEPT !.lost = lost])
        ELSE Go(p, "failing", c)

Err(p) == Handled(p, TRUE)

(* A ledger mutation and the log line about it: a log stream that is gone   *)
(* raises after the row has moved and before run is rebound.                *)
Logged(p, step, c) ==
    \/ Go(p, step, [c EXCEPT !.v = @ + 1]) /\ UNCHANGED faults
    \/ Fault /\ Err(p)

-----------------------------------------------------------------------------
(* The start of a prepare.                                                  *)

(* create_run of a new run.  The first log line is outside the try block.   *)
Create(p, r, k, q) ==
    LET c == [NoCall EXCEPT !.run = r, !.key = k, !.request = q, !.v = 1]
    IN  /\ pc[p] = "idle"
        /\ IF k = Null THEN CreateRun(r) ELSE CreateKeyedRun(r, k, q)
        /\ \/ Go(p, "snapshot", c) /\ UNCHANGED faults
           \/ Fault /\ Go(p, "errored", [c EXCEPT !.lost = TRUE])
        /\ UNCHANGED <<storeVars, fileVars>>

(* Mutant: the request bound to the key is not compared.                    *)
RepeatAnyRequest(p, k, q) ==
    /\ pc[p] = "idle"
    /\ keys[k] # Null
    /\ Go(p, "rehydrate", [NoCall EXCEPT !.run = keys[k].run, !.key = k, !.request = q,
                           !.repeat = TRUE, !.view = Row(keys[k].run)])
    /\ UNCHANGED <<ledgerVars, storeVars, fileVars, faults>>

(* create_run with a key already bound to the same request.                 *)
Repeat(p, k, q) ==
    /\ pc[p] = "idle"
    /\ keys[k] # Null
    /\ keys[k].request = q
    /\ Go(p, "rehydrate", [NoCall EXCEPT !.run = keys[k].run, !.key = k, !.request = q,
                           !.repeat = TRUE, !.view = Row(keys[k].run)])
    /\ UNCHANGED <<ledgerVars, storeVars, fileVars, faults>>

(* IDEMPOTENCY_CONFLICT.                                                    *)
Conflict(p, k, q) ==
    /\ pc[p] = "idle"
    /\ keys[k] # Null
    /\ keys[k].request # q
    /\ Go(p, "errored", [NoCall EXCEPT !.key = k, !.request = q, !.repeat = TRUE])
    /\ UNCHANGED <<ledgerVars, storeVars, fileVars, faults>>

SnapshotSource(p) ==
    /\ pc[p] = "snapshot"
    /\ Go(p, "observe", [call[p] EXCEPT !.source = source])
    /\ UNCHANGED <<ledgerVars, storeVars, fileVars, faults>>

ObserveDestination(p) ==
    /\ pc[p] = "observe"
    /\ Go(p, "inspect", [call[p] EXCEPT !.prior = destination])
    /\ UNCHANGED <<ledgerVars, storeVars, fileVars, faults>>

(* source_inspected, and then the caller's precondition.                    *)
Inspect(p) ==
    LET c == call[p]
        expected == Expects[c.request]
    IN  /\ pc[p] = "inspect"
        /\ SourceInspected(c.run, "preparing", c.v,
                           [source |-> c.source.body, prior |-> c.prior.body])
        /\ Logged(p, IF expected \in {Null, c.source.body} THEN "execute" ELSE "failing", c)
        /\ UNCHANGED <<storeVars, fileVars>>

(* Mutant: the plan is applied to the file by its path.                     *)
ExecuteOnPath(p) ==
    LET c == call[p]
        made == Edit[c.request][source.body]
    IN  /\ pc[p] = "execute"
        /\ PlanNormalized(c.run, "preparing", c.v, [plan |-> c.request])
        /\ Logged(p, IF made = Null THEN "failing" ELSE "dry_run", [c EXCEPT !.made = made])
        /\ UNCHANGED <<storeVars, fileVars>>

(* Mutant: the outcome of the plan is not looked at.                        *)
ExecuteUnchecked(p) ==
    LET c == call[p]
    IN  /\ pc[p] = "execute"
        /\ PlanNormalized(c.run, "preparing", c.v, [plan |-> c.request])
        /\ Logged(p, "dry_run", [c EXCEPT !.made = Edit[c.request][c.source.body]])
        /\ UNCHANGED <<storeVars, fileVars>>

(* The plan is applied to the snapshot; a plan that fails is recorded too.  *)
Execute(p) ==
    LET c == call[p]
        made == Edit[c.request][c.source.body]
    IN  /\ pc[p] = "execute"
        /\ PlanNormalized(c.run, "preparing", c.v, [plan |-> c.request])
        /\ Logged(p, IF made = Null THEN "failing" ELSE "dry_run", [c EXCEPT !.made = made])
        /\ UNCHANGED <<storeVars, fileVars>>

FinishDryRun(p) ==
    /\ pc[p] = "dry_run"
    /\ DryRunCompleted(call[p].run, "preparing", call[p].v)
    /\ Logged(p, "recheck", call[p])
    /\ UNCHANGED <<storeVars, fileVars>>

-----------------------------------------------------------------------------
(* The artifacts.                                                           *)

(* The diff envelope binds the hashes of what it compares.                  *)
BodyOf(c) ==
    CASE c.kind = "candidate" -> c.made
      [] c.kind = "diff" ->
            [source |-> c.source.body, plan |-> c.request, candidate |-> c.made]
      [] c.kind = "failure_evidence" -> [run |-> c.run]

(* The write of the artifact in hand, as far as its replacement.            *)
Write(p) ==
    LET c == call[p]
    IN  /\ pc[p] = "write"
        /\ \/ Publish(p, c.run, c.kind, BodyOf(c)) /\ Go(p, "confirm", c)
           \/ /\ Unlocked(c.run)
              /\ ~Fits(c.run, c.kind, BodyOf(c))
              /\ Err(p)
              /\ UNCHANGED storeVars
        /\ UNCHANGED <<ledgerVars, fileVars, faults>>

ConfirmWrite(p) ==
    LET c == call[p]
    IN  /\ pc[p] = "confirm"
        /\ \/ Confirm(p, c.run, c.kind, BodyOf(c)) /\ Go(p, "reopen", c) /\ UNCHANGED faults
           \/ /\ Withdraw(p, c.run, c.kind)
              /\ Err(p)
              /\ IF stored[c.run][c.kind] = BodyOf(c) THEN Fault ELSE UNCHANGED faults
        /\ UNCHANGED <<ledgerVars, fileVars>>

Reopen(p) ==
    LET c == call[p]
    IN  /\ pc[p] = "reopen"
        /\ \/ Readable(c.run, c.kind, BodyOf(c)) /\ Go(p, "record", c)
           \/ Unreadable(c.run, c.kind, BodyOf(c)) /\ Err(p)
        /\ UNCHANGED <<ledgerVars, storeVars, fileVars, faults>>

(* record_artifact of the candidate, then the diff is made; of the diff.    *)
Record(p) ==
    LET c == call[p]
    IN  /\ pc[p] = "record"
        /\ c.kind # "failure_evidence"
        /\ RecordArtifact(c.run, "preparing", c.v, c.kind, [kind \in {c.kind} |-> BodyOf(c)])
        /\ IF c.kind = "candidate"
           THEN Logged(p, "write", [c EXCEPT !.kind = "diff"])
           ELSE Logged(p, "match_source", c)
        /\ UNCHANGED <<storeVars, fileVars>>

-----------------------------------------------------------------------------
(* The samples are taken again.                                             *)

(* The source before the candidate is stored.                               *)
Recheck(p) ==
    /\ pc[p] = "recheck"
    /\ IF source = call[p].source THEN Go(p, "write", call[p]) ELSE Err(p)
    /\ UNCHANGED <<ledgerVars, storeVars, fileVars, faults>>

MatchSource(p) ==
    /\ pc[p] = "match_source"
    /\ IF source = call[p].source THEN Go(p, "match_destination", call[p]) ELSE Err(p)
    /\ UNCHANGED <<ledgerVars, storeVars, fileVars, faults>>

MatchDestination(p) ==
    /\ pc[p] = "match_destination"
    /\ IF destination = call[p].prior THEN Go(p, "preview", call[p]) ELSE Err(p)
    /\ UNCHANGED <<ledgerVars, storeVars, fileVars, faults>>

Preview(p) ==
    /\ pc[p] = "preview"
    /\ PreviewPersisted(call[p].run, "preparing", call[p].v)
    /\ Logged(p, "await", call[p])
    /\ UNCHANGED <<storeVars, fileVars>>

Await(p) ==
    LET c == call[p]
    IN  /\ pc[p] = "await"
        /\ AwaitApproval(c.run, "preparing", c.v)
        /\ Logged(p, "rehydrate",
                  [c EXCEPT !.view = [state |-> "awaiting_approval",
                                      evidence |-> evidence[c.run]]])
        /\ UNCHANGED <<storeVars, fileVars>>

(* _rehydrate: rows, files and hashes against the row the call holds.       *)
Complete(r, view) ==
    /\ view.state = "awaiting_approval"
    /\ \A kind \in {"candidate", "diff"} :
          /\ kind \in rows[r]
          /\ evidence[r][kind] = view.evidence[kind]
          /\ stored[r][kind] = view.evidence[kind]
    /\ view.evidence.diff = [source |-> view.evidence.source, plan |-> view.evidence.plan,
                             candidate |-> view.evidence.candidate]

Rehydrate(p) ==
    LET c == call[p]
    IN  /\ pc[p] = "rehydrate"
        /\ Unlocked(c.run)
        /\ IF Complete(c.run, c.view) THEN Go(p, "replied", c) ELSE Err(p)
        /\ UNCHANGED <<ledgerVars, storeVars, fileVars, faults>>

-----------------------------------------------------------------------------
(* Errors, crashes and the end of a call.                                   *)

LedgerSteps == {"inspect", "execute", "dry_run", "record", "preview", "await"}
Steps == LedgerSteps \cup {"snapshot", "observe", "recheck", "write", "confirm", "reopen",
                           "match_source", "match_destination", "rehydrate", "failing"}

(* The ledger refuses a mutation: the run was cancelled or reconciled.      *)
Refused(p) ==
    /\ pc[p] \in LedgerSteps
    /\ <<state[call[p].run], revision[call[p].run]>> # <<"preparing", call[p].v>>
    /\ Handled(p, FALSE)
    /\ UNCHANGED <<ledgerVars, storeVars, fileVars, faults>>

(* An operation raises before it has done anything.                         *)
Stumble(p) ==
    /\ pc[p] \in Steps \ {"confirm", "failing"}
    /\ Fault
    /\ Err(p)
    /\ UNCHANGED <<ledgerVars, storeVars, fileVars>>

(* Mutant: the failure is recorded at the revision the call held.           *)
FailAtHeldRevision(p) ==
    LET c == call[p]
    IN  /\ pc[p] = "failing"
        /\ IF state[c.run] = "preparing"
           THEN Go(p, "write", [c EXCEPT !.kind = "failure_evidence"])
           ELSE Go(p, "errored", c)
        /\ UNCHANGED <<ledgerVars, storeVars, fileVars, faults>>

(* Mutant: the failed run's candidate is removed to make room.              *)
FailingMakingRoom(p) ==
    LET c == call[p]
    IN  /\ pc[p] = "failing"
        /\ Unlocked(c.run)
        /\ IF state[c.run] = "preparing"
           THEN /\ Go(p, "write", [c EXCEPT !.kind = "failure_evidence", !.v = revision[c.run]])
                /\ stored' = [stored EXCEPT ![c.run]["candidate"] = Nothing]
           ELSE Go(p, "errored", c) /\ UNCHANGED stored
        /\ UNCHANGED <<ledgerVars, locked, fileVars, faults>>

(* The error handler reads the run again; a run still being prepared is     *)
(* failed, with evidence of its own.                                        *)
Failing(p) ==
    LET c == call[p]
    IN  /\ pc[p] = "failing"
        /\ IF state[c.run] = "preparing"
           THEN Go(p, "write", [c EXCEPT !.kind = "failure_evidence", !.v = revision[c.run]])
           ELSE Go(p, "errored", c)
        /\ UNCHANGED <<ledgerVars, storeVars, fileVars, faults>>

RecordFailure(p) ==
    LET c == call[p]
    IN  /\ pc[p] = "record"
        /\ c.kind = "failure_evidence"
        /\ RecordPrepareFailure(c.run, "preparing", c.v)
        /\ Go(p, "errored", c)
        /\ UNCHANGED <<storeVars, fileVars, faults>>

Finish(p) ==
    /\ pc[p] \in {"replied", "errored", "told", "accused"}
    /\ Go(p, "idle", NoCall)
    /\ UNCHANGED <<ledgerVars, storeVars, fileVars, faults>>

(* A process dies, another takes its place.                                 *)
Crash(p) ==
    /\ pc[p] \in Steps
    /\ Fault
    /\ DropLocks(p)
    /\ Go(p, "idle", NoCall)
    /\ UNCHANGED <<ledgerVars, fileVars>>

-----------------------------------------------------------------------------
(* fcpxml_workflow_status: the row, the state once more, and each artifact, *)
(* in four reads.                                                           *)

ReadRow(s, r) ==
    /\ pc[s] = "idle"
    /\ state[r] # Null
    /\ Go(s, "effective", [NoCall EXCEPT !.run = r, !.view = Row(r)])
    /\ UNCHANGED <<ledgerVars, storeVars, fileVars, faults>>

ReadEffective(s) ==
    /\ pc[s] = "effective"
    /\ Go(s, "look", [call[s] EXCEPT !.effective = EffectiveState(call[s].run)])
    /\ UNCHANGED <<ledgerVars, storeVars, fileVars, faults>>

(* WorkflowStatusV1 refuses a state that its evidence cannot explain.        *)
Consistent(c) ==
    /\ c.effective \in PreparedStates => \A f \in Fields : c.view.evidence[f] # Null
    /\ c.effective = "failed" => c.view.state = "failed"

Answer(s, found) ==
    LET c == [call[s] EXCEPT !.found[call[s].kind] = found]
    IN  IF c.kind = "candidate" THEN Go(s, "look", [c EXCEPT !.kind = "diff"])
        ELSE Go(s, IF Consistent(c) THEN "told" ELSE "accused", c)

(* _artifact: absent, present or corrupt; a row with no hash in the run row *)
(* that was read earlier is ARTIFACT_CORRUPT for the whole query.           *)
Look(s) ==
    LET c == call[s]
        digest == c.view.evidence[c.kind]
    IN  /\ pc[s] = "look"
        /\ \/ digest = Null /\ c.kind \in rows[c.run] /\ Go(s, "accused", c)
           \/ digest = Null /\ c.kind \notin rows[c.run] /\ Answer(s, "absent")
           \/ /\ digest # Null
              /\ Readable(c.run, c.kind, evidence[c.run][c.kind])
              /\ Answer(s, "present")
           \/ /\ digest # Null
              /\ Unreadable(c.run, c.kind, evidence[c.run][c.kind])
              /\ Answer(s, "corrupt")
        /\ UNCHANGED <<ledgerVars, storeVars, fileVars, faults>>

-----------------------------------------------------------------------------
(* Everybody else.                                                          *)

(* The new content of a file another program writes: in place, or as a new  *)
(* file under its name.                                                     *)
Rewritten(file, x) ==
    {[body |-> x, id |-> id] : id \in {IF file.body = Absent THEN changes + 1 ELSE file.id,
                                       changes + 1}}

ChangeSource ==
    /\ Change
    /\ \E x \in Contents : source' \in Rewritten(source, x) \ {source}
    /\ UNCHANGED <<ledgerVars, storeVars, destination, damaged, callVars, faults>>

ChangeDestination ==
    /\ Change
    /\ \/ \E x \in Contents : destination' \in Rewritten(destination, x) \ {destination}
       \/ destination.body # Absent /\ destination' = [body |-> Absent, id |-> 0]
    /\ UNCHANGED <<ledgerVars, storeVars, source, damaged, callVars, faults>>

DamageArtifact(r, kind) ==
    /\ Fault
    /\ Damage(r, kind)
    /\ damaged' = damaged \cup {<<r, kind>>}
    /\ UNCHANGED <<ledgerVars, source, destination, changes, callVars>>

(* fcpxml_workflow_cancel, of a run being prepared or prepared.             *)
CancelRun(r) ==
    /\ Cancel(r, state[r], revision[r])
    /\ UNCHANGED <<storeVars, callVars, fileVars, faults>>

(* reconcile_preparing gives up a run whose preparer it takes for dead; the *)
(* destination must still be what the run observed.                         *)
GiveUp(r) ==
    /\ state[r] = "preparing"
    /\ destination.body = evidence[r]["prior"]
    /\ ReconcilePreparing(r, state[r], revision[r])
    /\ UNCHANGED <<storeVars, callVars, fileVars, faults>>

-----------------------------------------------------------------------------
Init ==
    /\ LedgerInit
    /\ ArtifactInit
    /\ source \in [body : Contents, id : {0}]
    /\ destination = [body |-> Absent, id |-> 0]
    /\ pc = [p \in Preparers \cup Readers |-> "idle"]
    /\ call = [p \in Preparers \cup Readers |-> NoCall]
    /\ faults = 0 /\ changes = 0 /\ damaged = {}

PreparerStep(p) ==
    \/ \E q \in Requests :
          \/ \E r \in Runs, k \in Keys \cup {Null} : Create(p, r, k, q)
          \/ \E k \in Keys : Repeat(p, k, q) \/ Conflict(p, k, q)
    \/ SnapshotSource(p) \/ ObserveDestination(p) \/ Inspect(p) \/ Execute(p)
    \/ FinishDryRun(p) \/ Recheck(p) \/ Write(p) \/ ConfirmWrite(p) \/ Reopen(p)
    \/ Record(p) \/ MatchSource(p) \/ MatchDestination(p) \/ Preview(p) \/ Await(p)
    \/ Rehydrate(p) \/ Refused(p) \/ Stumble(p) \/ Failing(p) \/ RecordFailure(p)
    \/ Finish(p) \/ Crash(p)

ReaderStep(s) ==
    \/ \E r \in Runs : ReadRow(s, r)
    \/ ReadEffective(s) \/ Look(s) \/ Finish(s)

Environment ==
    \/ ChangeSource \/ ChangeDestination
    \/ \E r \in Runs : CancelRun(r) \/ GiveUp(r) \/ \E kind \in Kinds : DamageArtifact(r, kind)

Next ==
    \/ \E p \in Preparers : PreparerStep(p)
    \/ \E s \in Readers : ReaderStep(s)
    \/ Environment

Spec == Init /\ [][Next]_vars

-----------------------------------------------------------------------------
(* Properties.                                                              *)

(* Types: the files, the store, the program counters, and a candidate in    *)
(* hand once the plan has run.                                              *)
TypeOK ==
    /\ source \in [body : Contents, id : 0..MaxTroubles]
    /\ destination \in [body : Contents \cup {Absent}, id : 0..MaxTroubles]
    /\ locked \in [Runs -> Preparers \cup {Nothing}]
    /\ pc \in [Preparers \cup Readers -> Steps \cup
                  {"idle", "replied", "errored", "effective", "look", "told", "accused"}]
    /\ \A p \in Preparers : pc[p] \in {"dry_run", "recheck"} => call[p].made \in Contents
    /\ faults \in Nat /\ changes \in Nat /\ faults + changes <= MaxTroubles
    /\ damaged \subseteq Runs \X Kinds

(* Whoever prepared it, a preview is of what its caller asked for: its plan *)
(* is the request's, its candidate that plan applied to its source, and two *)
(* answers under one key are about one run.                                 *)
ReplyFitsRequest ==
    \A p \in Preparers : pc[p] = "replied" =>
        LET c == call[p]
            e == c.view.evidence
        IN  /\ e.plan = c.request
            /\ e.candidate = Edit[c.request][e.source]
            /\ e = evidence[c.run]
            /\ c.key # Null => keys[c.key] = [request |-> c.request, run |-> c.run]

(* The evidence a run asks approval for hangs together although source and  *)
(* destination may change under every step of its prepare: the candidate is *)
(* the plan applied to the very bytes whose hash is in the row, and the     *)
(* diff compares those two.                                                 *)
EvidenceHangsTogether ==
    \A r \in Runs : state[r] \in PreparedStates =>
        LET e == evidence[r]
        IN  /\ e.candidate # Null /\ e.candidate = Edit[e.plan][e.source]
            /\ e.diff = [source |-> e.source, plan |-> e.plan, candidate |-> e.candidate]

(* An artifact the ledger knows can be read back, through crashes, failed   *)
(* writes and withdrawn files, unless another program damaged it.           *)
RecordedArtifactsReadable ==
    \A r \in Runs : \A kind \in rows[r] :
        <<r, kind>> \notin damaged =>
            stored[r][kind] = IF kind = "failure_evidence" THEN [run |-> r]
                              ELSE evidence[r][kind]

(* A prepare that answers with an error does not leave its run preparing,   *)
(* which nothing but a cancel or a reconcile would end, unless the failure  *)
(* could not be recorded either: that failed too, or found no room.         *)
ErrorSettlesRun ==
    \A p \in Preparers :
        /\ pc[p] = "errored" /\ ~call[p].repeat
        /\ state[call[p].run] = "preparing"
        => call[p].lost

(* A status query that answers calls an artifact corrupt only when another  *)
(* program damaged it, and shows a prepared run with the evidence it has.   *)
StatusToldTrue ==
    \A s \in Readers : pc[s] = "told" =>
        LET c == call[s]
        IN  /\ \A kind \in DOMAIN c.found :
                  c.found[kind] = "corrupt" => <<c.run, kind>> \in damaged
            /\ c.effective \in PreparedStates => c.view.evidence = evidence[c.run]
=============================================================================
