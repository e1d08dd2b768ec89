------------------------- MODULE BundleTransaction -------------------------
(***************************************************************************)
(* atomic_replace_bundle (src/fcp_mcp/utils/atomic_write.py): an FCPXML    *)
(* document and its sources sidecar are replaced together.  POSIX replaces *)
(* one file at a time, so the pair is staged, backed up and journaled; a   *)
(* later call reconciles the journal a dead one left before it does        *)
(* anything else.                                                          *)
(*                                                                         *)
(* All work is done under a kernel lock that a dying process gives up, so  *)
(* calls interleave only between the snapshot their caller took and the    *)
(* lock.  The difficulty is crashes: every write, replacement and removal  *)
(* below is a step of its own, and a write may be cut short.               *)
(***************************************************************************)
EXTENDS Integers

CONSTANTS
    Txns,       \* transaction ids
    Procs,      \* processes that call atomic_replace_bundle
    Contents,   \* digests of what the two files may hold
    Payload,    \* the pair each transaction installs
    Initial,    \* the pairs that may be there at first
    Outsiders,  \* what other programs may write
    Absent,     \* no file
    Partial,    \* a file whose write was cut short
    Null,       \* a value not known yet
    MaxFaults   \* bound: I/O errors and outside writes in a behaviour

Items == 1..2
Pair == [Items -> Contents \cup {Absent}]
Journal == [txn : Txns, state : {"prepared", "committed", "rolled_back"}, prior : Pair]

ASSUME BundleAssumption ==
    /\ Payload \in [Txns -> [Items -> Contents]]
    /\ Initial \subseteq Pair
    /\ Outsiders \subseteq Contents
    /\ {Absent, Partial, Null} \cap Contents = {}
    /\ Absent # Partial /\ Null \notin {Absent, Partial}
    /\ {Absent, Partial} \cap Journal = {}
    /\ MaxFaults \in Nat

VARIABLES
    dest,         \* the two destinations
    stage,        \* .<name>.<transaction>.stage
    backup,       \* <name>.bak.<transaction>
    journal,      \* .fcp-mcp.bundle.<key>.journal.json
    journalTemp,  \* whether the journal's temporary file exists
    receipts,     \* .fcp-mcp.bundle.<key>.<transaction>.receipt.json
    pc,           \* where each process is
    call,         \* the call each process is executing
    faults        \* I/O errors and outside writes so far

evidence == <<stage, backup, journal, journalTemp, receipts>>
vars == <<dest, evidence, pc, call, faults>>

NoCall == [txn |-> Null, expected |-> Null, journal |-> Null, item |-> 1,
           outcome |-> "committed", then |-> "return", restore |-> {}]

(* Where a process holds the bundle lock.                                    *)
Locked == {"recover", "scan", "stage", "backup", "journal", "recheck", "replace",
           "verify", "temp", "mark", "receipt", "clean", "done", "rollback",
           "restore", "prove", "unpublish", "abort"}
(* The part of the try block before the journal exists, and after.           *)
Unpublished == {"stage", "backup", "journal"}
Published == {"recheck", "replace", "verify", "temp", "mark", "receipt", "clean", "done"}

txn(p) == call[p].txn
Goto(p, place) == pc' = [pc EXCEPT ![p] = place]
Return(p) == Goto(p, "idle") /\ call' = [call EXCEPT ![p] = NoCall]
Fault == faults < MaxFaults /\ faults' = faults + 1

-----------------------------------------------------------------------------
(* What a journal says of the destinations.                                  *)

IsOutput(j, i) == dest[i] = Payload[j.txn][i]
IsPrior(j, i) == dest[i] = j.prior[i]
AllOutput(j) == \A i \in Items : IsOutput(j, i)
AllPrior(j) == \A i \in Items : IsPrior(j, i)
Unknown(j) == \E i \in Items : ~IsOutput(j, i) /\ ~IsPrior(j, i)
(* The items a rollback has to put back.                                     *)
ToRestore(j) == {i \in Items : IsOutput(j, i) /\ ~IsPrior(j, i)}
BackupsHold(j) ==
    \A i \in ToRestore(j) : j.prior[i] # Absent => backup[j.txn][i] = j.prior[i]

-----------------------------------------------------------------------------
(* The start of a call.                                                      *)

(* The caller reads the pair it is about to replace, before the lock.        *)
Request(p, t) ==
    /\ pc[p] = "idle"
    /\ call' = [call EXCEPT ![p] = [NoCall EXCEPT !.txn = t, !.expected = dest]]
    /\ Goto(p, "called")
    /\ UNCHANGED <<dest, evidence, faults>>

(* flock without waiting.                                                    *)
Refused(p) ==
    /\ pc[p] = "called"
    /\ \E q \in Procs : pc[q] \in Locked
    /\ Return(p)
    /\ UNCHANGED <<dest, evidence, faults>>

(* Mutant: the destinations are not compared with the snapshot.              *)
EnterUnchecked(p) ==
    /\ pc[p] = "called"
    /\ \A q \in Procs : pc[q] \notin Locked
    /\ \/ journal = Partial /\ Return(p)
       \/ journal = Absent /\ Goto(p, "scan") /\ UNCHANGED call
       \/ /\ journal \notin {Absent, Partial}
          /\ Goto(p, "recover")
          /\ call' = [call EXCEPT ![p].journal = journal]
    /\ UNCHANGED <<dest, evidence, faults>>

Enter(p) ==
    /\ pc[p] = "called"
    /\ \A q \in Procs : pc[q] \notin Locked
    /\ \/ dest # call[p].expected /\ Return(p)
       \/ dest = call[p].expected /\ journal = Partial /\ Return(p)
       \/ /\ dest = call[p].expected /\ journal = Absent
          /\ Goto(p, "scan")
          /\ UNCHANGED call
       \/ /\ dest = call[p].expected /\ journal \notin {Absent, Partial}
          /\ Goto(p, "recover")
          /\ call' = [call EXCEPT ![p].journal = journal]
    /\ UNCHANGED <<dest, evidence, faults>>

(* Mutant: one installed output is taken for both.                           *)
RecoverOnFirstOutput(p) ==
    /\ pc[p] = "recover"
    /\ LET j == call[p].journal IN
       \/ IsOutput(j, 1)
            /\ Goto(p, "temp")
            /\ call' = [call EXCEPT ![p].outcome = "committed", ![p].then = "scan"]
       \/ ~IsOutput(j, 1)
            /\ Goto(p, "rollback")
            /\ call' = [call EXCEPT ![p].outcome = "rolled_back", ![p].then = "scan"]
    /\ UNCHANGED <<dest, evidence, faults>>

(* _recover_bundle: a journal that contradicts the destinations ends the     *)
(* call; a pair that is all there is committed, anything else rolled back.   *)
(* Committing it validates the pair first when the request is the same.      *)
Recover(p) ==
    /\ pc[p] = "recover"
    /\ LET j == call[p].journal
           same == j.txn = txn(p)
           contradicts == \/ Unknown(j)
                          \/ j.state = "rolled_back" /\ ~AllPrior(j)
                          \/ j.state = "committed" /\ ~AllOutput(j)
           adopt == j.state # "rolled_back" /\ AllOutput(j)
       IN
       \/ contradicts /\ Return(p) /\ UNCHANGED faults
       \/ /\ ~contradicts /\ adopt
          /\ Goto(p, IF j.state = "committed" THEN "receipt" ELSE "temp")
          /\ call' = [call EXCEPT ![p].outcome = "committed",
                                  ![p].then = IF same THEN "replay" ELSE "scan"]
          /\ UNCHANGED faults
       \/ /\ ~contradicts /\ ~adopt
          /\ Goto(p, "rollback")
          /\ call' = [call EXCEPT ![p].outcome = "rolled_back", ![p].then = "scan"]
          /\ UNCHANGED faults
       \/ /\ ~contradicts /\ adopt /\ same
          /\ Fault
          /\ \/ j.state = "committed" /\ Return(p)
             \/ /\ j.state # "committed"
                /\ Goto(p, "rollback")
                /\ call' = [call EXCEPT ![p].outcome = "rolled_back", ![p].then = "raise"]
    /\ UNCHANGED <<dest, evidence>>

(* Evidence without a journal ends the call, a pair already there is         *)
(* answered from its receipt or refused, a receipt of other bytes conflicts. *)
Scan(p) ==
    /\ pc[p] = "scan"
    /\ LET stray == journalTemp \/ \E t \in Txns, i \in Items : stage[t][i] # Absent
           answered == dest = Payload[txn(p)] \/ receipts[txn(p)] # Absent
       IN
       \/ (stray \/ answered) /\ Return(p)
       \/ /\ ~stray /\ ~answered
          /\ Goto(p, "stage")
          /\ call' = [call EXCEPT ![p] = [NoCall EXCEPT !.txn = txn(p),
                !.expected = call[p].expected, !.journal = [txn |-> txn(p), state |-> "prepared",
                             prior |-> [i \in Items |-> Null]]]]
    /\ UNCHANGED <<dest, evidence, faults>>

-----------------------------------------------------------------------------
(* The commit.                                                               *)

(* After the first item the second, after the second the next phase.         *)
NextItem(p, place) ==
    IF call[p].item = 1
    THEN call' = [call EXCEPT ![p].item = 2] /\ UNCHANGED pc
    ELSE call' = [call EXCEPT ![p].item = 1] /\ Goto(p, place)

Stage(p) ==
    /\ pc[p] = "stage"
    /\ stage' = [stage EXCEPT ![txn(p)][call[p].item] = Payload[txn(p)][call[p].item]]
    /\ NextItem(p, "backup")
    /\ UNCHANGED <<dest, backup, journal, journalTemp, receipts, faults>>

(* Mutant: the second destination is not backed up.                          *)
BackupFirstOnly(p) ==
    /\ pc[p] = "backup"
    /\ backup' = [backup EXCEPT ![txn(p)][1] = dest[1]]
    /\ call' = [call EXCEPT ![p].journal.prior[1] = dest[1]]
    /\ Goto(p, "journal")
    /\ UNCHANGED <<dest, stage, journal, journalTemp, receipts, faults>>

Backup(p) ==
    /\ pc[p] = "backup"
    /\ LET i == call[p].item
           occupied == dest[i] # Absent /\ backup[txn(p)][i] # Absent
       IN
       \/ occupied /\ Goto(p, "abort") /\ UNCHANGED <<backup, call>>
       \/ /\ ~occupied
          /\ backup' = [backup EXCEPT ![txn(p)][i] = IF dest[i] = Absent THEN @ ELSE dest[i]]
          /\ call' = [call EXCEPT ![p].journal.prior[i] = dest[i], ![p].item = 3 - i]
          /\ IF i = 1 THEN UNCHANGED pc ELSE Goto(p, "journal")
    /\ UNCHANGED <<dest, stage, journal, journalTemp, receipts, faults>>

PublishJournal(p) ==
    /\ pc[p] = "journal"
    /\ journal' = call[p].journal
    /\ Goto(p, "recheck")
    /\ UNCHANGED <<dest, stage, backup, journalTemp, receipts, call, faults>>

(* The except branch once the journal is published.                          *)
Handle(p) ==
    /\ Goto(p, "rollback")
    /\ call' = [call EXCEPT ![p].outcome = "rolled_back",
                            ![p].then = IF receipts[txn(p)] # Absent
                                        THEN "unpublish" ELSE "raise"]

RecheckPrior(p) ==
    /\ pc[p] = "recheck"
    /\ \/ AllPrior(call[p].journal) /\ Goto(p, "replace") /\ UNCHANGED call
       \/ ~AllPrior(call[p].journal) /\ Handle(p)
    /\ UNCHANGED <<dest, evidence, faults>>

(* os.replace of the stage, unless the destination has the bytes already.    *)
Replace(p) ==
    /\ pc[p] = "replace"
    /\ LET i == call[p].item
           t == txn(p)
       IN IF call[p].journal.prior[i] = Payload[t][i]
          THEN UNCHANGED <<dest, stage>>
          ELSE /\ dest' = [dest EXCEPT ![i] = Payload[t][i]]
               /\ stage' = [stage EXCEPT ![t][i] = Absent]
    /\ NextItem(p, "verify")
    /\ UNCHANGED <<backup, journal, journalTemp, receipts, faults>>

Verify(p) ==
    /\ pc[p] = "verify"
    /\ \/ AllOutput(call[p].journal) /\ Goto(p, "temp") /\ UNCHANGED call
       \/ ~AllOutput(call[p].journal) /\ Handle(p)
    /\ UNCHANGED <<dest, evidence, faults>>

(* _replace_bundle_journal: the temporary file, then its rename.             *)
WriteTemp(p) ==
    /\ pc[p] = "temp"
    /\ journalTemp' = TRUE
    /\ Goto(p, "mark")
    /\ UNCHANGED <<dest, stage, backup, journal, receipts, call, faults>>

MarkJournal(p) ==
    /\ pc[p] = "mark"
    /\ journal' = [call[p].journal EXCEPT !.state = call[p].outcome]
    /\ journalTemp' = FALSE
    /\ Goto(p, IF call[p].outcome = "committed" THEN "receipt" ELSE "clean")
    /\ UNCHANGED <<dest, stage, backup, receipts, call, faults>>

(* The terminal receipt; a recovery accepts the one it finds if it is that   *)
(* of the journal.                                                           *)
WriteReceipt(p) ==
    /\ pc[p] = "receipt"
    /\ LET t == call[p].journal.txn
           own == [call[p].journal EXCEPT !.state = "committed"]
       IN
       \/ /\ receipts[t] \in {Absent, own}
          /\ receipts' = [receipts EXCEPT ![t] = own]
          /\ Goto(p, "clean")
          /\ UNCHANGED call
       \/ receipts[t] \notin {Absent, own} /\ Return(p) /\ UNCHANGED receipts
    /\ UNCHANGED <<dest, stage, backup, journal, journalTemp, faults>>

(* _cleanup_bundle_evidence, one file at a time and the journal last; the    *)
(* backups go only after a rollback.                                         *)
StageLeft(t, i) == stage[t][i] # Absent

(* Mutant: the backups go in either case.                                    *)
BackupLeftAlways(j, i, outcome) == j.prior[i] # Absent /\ backup[j.txn][i] # Absent
BackupLeft(j, i, outcome) ==
    outcome = "rolled_back" /\ j.prior[i] # Absent /\ backup[j.txn][i] # Absent
CleanBefore(j, n, outcome) ==
    \A i \in 1..(n - 1) : ~StageLeft(j.txn, i) /\ ~BackupLeft(j, i, outcome)

Clean(p) ==
    /\ pc[p] = "clean"
    /\ LET j == call[p].journal
           o == call[p].outcome
           then == call[p].then
       IN
       \/ \E i \in Items :
             /\ CleanBefore(j, i, o) /\ StageLeft(j.txn, i)
             /\ stage' = [stage EXCEPT ![j.txn][i] = Absent]
             /\ UNCHANGED <<backup, journal, journalTemp, pc, call>>
       \/ \E i \in Items :
             /\ CleanBefore(j, i, o) /\ ~StageLeft(j.txn, i) /\ BackupLeft(j, i, o)
             /\ backup' = [backup EXCEPT ![j.txn][i] = Absent]
             /\ UNCHANGED <<stage, journal, journalTemp, pc, call>>
       \/ /\ CleanBefore(j, 3, o)
          /\ journal' = Absent
          /\ journalTemp' = FALSE
          /\ UNCHANGED <<stage, backup>>
          /\ IF then \in {"replay", "raise"} THEN Return(p)
             ELSE Goto(p, IF then = "return" THEN "done" ELSE then) /\ UNCHANGED call
    /\ UNCHANGED <<dest, receipts, faults>>

Done(p) ==
    /\ pc[p] = "done"
    /\ Return(p)
    /\ UNCHANGED <<dest, evidence, faults>>

-----------------------------------------------------------------------------
(* The rollback.                                                             *)

(* Mutant: the journal is marked before the files are put back.              *)
RollbackMarkingFirst(p) ==
    /\ pc[p] = "rollback"
    /\ Goto(p, "temp")
    /\ UNCHANGED <<dest, evidence, call, faults>>

(* The journal is written again if cleanup already removed it.  Nothing is   *)
(* touched unless every item is known and every backup needed is there.      *)
Rollback(p) ==
    /\ pc[p] = "rollback"
    /\ LET j == call[p].journal IN
       \/ journal = Absent /\ journal' = j /\ UNCHANGED <<pc, call>>
       \/ /\ journal # Absent
          /\ Unknown(j) \/ ~BackupsHold(j)
          /\ Return(p)
          /\ UNCHANGED journal
       \/ /\ journal # Absent
          /\ ~Unknown(j) /\ BackupsHold(j)
          /\ call' = [call EXCEPT ![p].restore = ToRestore(j)]
          /\ Goto(p, "restore")
          /\ UNCHANGED journal
    /\ UNCHANGED <<dest, stage, backup, journalTemp, receipts, faults>>

Restore(p) ==
    /\ pc[p] = "restore"
    /\ LET j == call[p].journal
           left == call[p].restore
       IN
       \/ left = {} /\ Goto(p, "prove") /\ UNCHANGED <<dest, backup, call>>
       \/ \E i \in left :
             /\ \A k \in left : i <= k
             /\ dest' = [dest EXCEPT ![i] = j.prior[i]]
             /\ backup' = [backup EXCEPT ![j.txn][i] = IF j.prior[i] = Absent THEN @ ELSE Absent]
             /\ call' = [call EXCEPT ![p].restore = left \ {i}]
             /\ UNCHANGED pc
    /\ UNCHANGED <<stage, journal, journalTemp, receipts, faults>>

Prove(p) ==
    /\ pc[p] = "prove"
    /\ \/ AllPrior(call[p].journal) /\ Goto(p, "temp") /\ UNCHANGED call
       \/ ~AllPrior(call[p].journal) /\ Return(p)
    /\ UNCHANGED <<dest, evidence, faults>>

(* The receipt of a commit that was undone is withdrawn.                     *)
Unpublish(p) ==
    /\ pc[p] = "unpublish"
    /\ receipts' = [receipts EXCEPT ![txn(p)] = Absent]
    /\ Return(p)
    /\ UNCHANGED <<dest, stage, backup, journal, journalTemp, faults>>

(* The except branch before the journal: what this call created goes.        *)
Abort(p) ==
    /\ pc[p] = "abort"
    /\ LET t == txn(p)
           made == {i \in Items : call[p].journal.prior[i] \notin {Null, Absent}
                                     /\ backup[t][i] # Absent}
           staged == {i \in Items : StageLeft(t, i)}
       IN
       \/ \E i \in staged :
             /\ \A k \in staged : i <= k
             /\ stage' = [stage EXCEPT ![t][i] = Absent]
             /\ UNCHANGED <<backup, pc, call>>
       \/ \E i \in made :
             /\ staged = {} /\ \A k \in made : i <= k
             /\ backup' = [backup EXCEPT ![t][i] = Absent]
             /\ UNCHANGED <<stage, pc, call>>
       \/ staged \cup made = {} /\ Return(p) /\ UNCHANGED <<stage, backup>>
    /\ UNCHANGED <<dest, journal, journalTemp, receipts, faults>>

-----------------------------------------------------------------------------
(* What happens around the calls.                                            *)

(* An error in the try block: a failed write removes what it wrote.          *)
Fail(p) ==
    /\ Fault
    /\ \/ pc[p] \in Unpublished /\ Goto(p, "abort") /\ UNCHANGED call
       \/ pc[p] \in Published /\ call[p].then = "return" /\ Handle(p)
    /\ UNCHANGED <<dest, evidence>>

(* The process is killed, or meets an error outside the try block, which has *)
(* no handler: the call ends and its files stay.                             *)
Crash(p) ==
    /\ pc[p] # "idle"
    /\ Return(p)
    /\ UNCHANGED <<dest, evidence, faults>>

(* It is killed in the middle of a write.                                    *)
CrashWriting(p) ==
    /\ Return(p)
    /\ LET t == txn(p)
           i == call[p].item
       IN
       \/ /\ pc[p] = "stage"
          /\ stage' = [stage EXCEPT ![t][i] = Partial]
          /\ UNCHANGED <<backup, journal, receipts>>
       \/ /\ pc[p] = "backup" /\ dest[i] # Absent /\ backup[t][i] = Absent
          /\ backup' = [backup EXCEPT ![t][i] = Partial]
          /\ UNCHANGED <<stage, journal, receipts>>
       \/ /\ pc[p] = "journal" \/ (pc[p] = "rollback" /\ journal = Absent)
          /\ journal' = Partial
          /\ UNCHANGED <<stage, backup, receipts>>
       \/ /\ pc[p] = "receipt" /\ receipts[call[p].journal.txn] = Absent
          /\ receipts' = [receipts EXCEPT ![call[p].journal.txn] = Partial]
          /\ UNCHANGED <<stage, backup, journal>>
    /\ UNCHANGED <<dest, journalTemp, faults>>

(* Another program saves one of the files.                                   *)
OutsideWrite ==
    /\ Fault
    /\ \E i \in Items, x \in Outsiders : dest[i] # x /\ dest' = [dest EXCEPT ![i] = x]
    /\ UNCHANGED <<evidence, pc, call>>

-----------------------------------------------------------------------------
Init ==
    /\ dest \in Initial
    /\ stage = [t \in Txns |-> [i \in Items |-> Absent]]
    /\ backup = [t \in Txns |-> [i \in Items |-> Absent]]
    /\ journal = Absent
    /\ journalTemp = FALSE
    /\ receipts = [t \in Txns |-> Absent]
    /\ pc = [p \in Procs |-> "idle"]
    /\ call = [p \in Procs |-> NoCall]
    /\ faults = 0

CommitStep(p) ==
    \/ Scan(p) \/ Stage(p) \/ Backup(p) \/ PublishJournal(p) \/ RecheckPrior(p)
    \/ Replace(p) \/ Verify(p) \/ WriteTemp(p) \/ MarkJournal(p) \/ WriteReceipt(p)
    \/ Clean(p) \/ Done(p)
RecoveryStep(p) ==
    Recover(p) \/ Rollback(p) \/ Restore(p) \/ Prove(p) \/ Unpublish(p) \/ Abort(p)

Next ==
    \/ \E p \in Procs :
          \/ \E t \in Txns : Request(p, t)
          \/ Refused(p) \/ Enter(p)
          \/ CommitStep(p) \/ RecoveryStep(p)
          \/ Fail(p) \/ Crash(p) \/ CrashWriting(p)
    \/ OutsideWrite

Spec == Init /\ [][Next]_vars

-----------------------------------------------------------------------------
(* Properties.                                                               *)

Slot == Contents \cup {Absent, Partial}
Draft == [txn : Txns, state : {"prepared", "committed", "rolled_back"},
          prior : [Items -> Contents \cup {Absent, Null}]]
CallType == [txn : Txns \cup {Null}, expected : Pair \cup {Null},
             journal : Draft \cup {Null}, item : Items,
             outcome : {"committed", "rolled_back"},
             then : {"return", "scan", "replay", "raise", "unpublish"},
             restore : SUBSET Items]

(* Types: the files of the directory and the calls in progress.              *)
TypeOK ==
    /\ dest \in Pair
    /\ stage \in [Txns -> [Items -> Slot]]
    /\ backup \in [Txns -> [Items -> Slot]]
    /\ journal \in Journal \cup {Absent, Partial}
    /\ journalTemp \in BOOLEAN
    /\ receipts \in [Txns -> Journal \cup {Absent, Partial}]
    /\ pc \in [Procs -> Locked \cup {"idle", "called"}]
    /\ call \in [Procs -> CallType]
    /\ faults \in 0..MaxFaults

Whole == Initial \cup {Payload[t] : t \in Txns}

(* What the callers put into a pair.  The sidecar of a plan names the        *)
(* attempt it was written by, so it tells the whole pairs apart, and each    *)
(* attempt installs a pair that was not there before.                        *)
SidecarsTell == \A u, v \in Whole : u[2] = v[2] => u = v
Fresh ==
    /\ \A t, u \in Txns : Payload[t] = Payload[u] => t = u
    /\ \A t \in Txns : Payload[t] \notin Initial
(* What other programs write is not what an attempt wrote.                   *)
ForeignIsForeign == \A u \in Whole, i \in Items : u[i] \notin Outsiders

(* The two files are from different attempts only while a readable journal   *)
(* says so: a reader that finds none, or calls that all ended in an error or *)
(* a crash and were reconciled, never leave half of one pair with half of    *)
(* another, except where another program wrote a half itself.                *)
NeverMixedAtRest ==
    journal \in {Absent, Partial} =>
        dest \in Whole \/ \E i \in Items : dest[i] \in Outsiders

(* While a journal says prepared or rolled_back every file is either as it   *)
(* was, or replaced with its prior bytes safe in the backup, or foreign: the *)
(* next call can always restore the pair, however often it is interrupted.   *)
UndoIsPossible ==
    journal \notin {Absent, Partial} /\ journal.state # "committed" =>
        \A i \in Items :
            \/ IsPrior(journal, i)
            \/ dest[i] \in Outsiders
            \/ /\ journal.state = "prepared"
               /\ IsOutput(journal, i)
               /\ journal.prior[i] # Absent => backup[journal.txn][i] = journal.prior[i]

(* No lost update: a call whose caller saw a whole pair replaces that pair   *)
(* and never one another attempt installed in between, even when it first    *)
(* had to reconcile a journal.  (A caller that saw a mixed pair replaces     *)
(* what the reconciliation made of it; so does one whose pair a foreign      *)
(* write made look unfinished.)  Checked where the replaces begin.           *)
ReplacesWhatWasSeen ==
    \A p \in Procs : pc[p] = "replace" /\ call[p].expected \in Whole =>
        \/ call[p].journal.prior = call[p].expected
        \/ \E i \in Items : call[p].journal.prior[i] \in Outsiders

(* A pair that stands with no journal can be replayed: its receipt is        *)
(* complete and the bytes it replaced are in the backups the receipt names,  *)
(* so an identical retry is answered instead of done again or refused.       *)
CommittedIsReplayable ==
    \A t \in Txns : journal \in {Absent, Partial} /\ dest = Payload[t] =>
        /\ receipts[t] \notin {Absent, Partial}
        /\ \A i \in Items : receipts[t].prior[i] \in {Absent, backup[t][i]}

(* An interrupted attempt can be reconciled: no dead call leaves a journal   *)
(* that contradicts the files.  The code breaks it: an error after the       *)
(* journal says committed starts a rollback under that journal, and a crash  *)
(* in that rollback leaves it.                                               *)
InterruptedReconciles ==
    \/ journal \in {Absent, Partial}
    \/ \E p \in Procs : pc[p] \in Locked
    \/ \E i \in Items : dest[i] \in Outsiders
    \/ journal.state = "committed" => AllOutput(journal)

=============================================================================
