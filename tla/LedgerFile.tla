------------------------------ MODULE LedgerFile ------------------------------
(***************************************************************************)
(* The file under the run ledger: how runs.sqlite3 comes to be, is opened, *)
(* migrated and written by several processes of perhaps different releases *)
(* (src/fcp_mcp/workflow/ledger.py: initialize, _secure_database_entry,    *)
(* _connect_lease, _backup_database, _write).                              *)
(*                                                                         *)
(* A missing ledger is published as a small complete database with a token *)
(* of its own; every open compares inodes and token before and after each  *)
(* use of the path; schema changes and writes run under SQLite's RESERVED  *)
(* lock, which is a POSIX record lock: the kernel drops it when its        *)
(* process closes any descriptor of the same file.                         *)
(***************************************************************************)
EXTENDS Integers

CONSTANTS
    Procs,          \* processes, one connection each
    Releases,       \* what Procs may have installed: functions to Len(MIGRATIONS)
    FirstFiles,     \* what may be under the name at first; NoFile is nothing
    NoFile,
    Nobody,         \* no holder of a lock, no token
    MaxTroubles     \* bound: failed calls, dead processes, outside changes

(* What SQLite finds at first is well formed and not a bootstrap of ours,   *)
(* and every release ships a migration.                                     *)
ASSUME FileAssumption ==
    /\ MaxTroubles \in Nat
    /\ Releases \subseteq [Procs -> Nat \ {0}]
    /\ FirstFiles \subseteq {NoFile} \cup
          [whole : {TRUE}, token : {Nobody}, applied : Nat, foreign : BOOLEAN,
           marks : SUBSET Procs]
    /\ NoFile \notin {"partial", "image"}
    /\ NoFile \notin [whole : BOOLEAN, token : Nat \cup {Nobody}, applied : Nat,
                     foreign : BOOLEAN, marks : SUBSET Procs]
    /\ Nobody \notin Procs \cup Nat
    /\ Nobody \notin {"initialize", "write", "missing", "identity", "token", "lost",
                     "malformed"}

(* Inodes of the ledger: the first, one published by each process between   *)
(* two troubles, and those other programs put there.                        *)
Ids == 1..(MaxTroubles + 2)

VARIABLES
    release,        \* migrations each process ships
    entry,          \* the inode under runs.sqlite3, 0 when the name is free
    file,           \* inode -> its content as SQLite reads it
    hot,            \* inodes with the journal of a commit that was cut short
    temp,           \* process -> its bootstrap temporary
    backup,         \* process -> the last backup it published
    guard,          \* flock of .runs.sqlite3.bootstrap.lock
    backupGuard,    \* flock of .runs.sqlite3.backup.lock
    reserved,       \* inode -> who holds SQLite's RESERVED lock
    pc, call,       \* where each process is, and what it holds
    ready,          \* processes that have initialized
    acks,           \* writes that were reported durable
    troubles, replaced, crossed   \* histories, see Trouble, Replace and Commit

dirVars == <<entry, temp, backup>>
fileVars == <<file, hot>>
lockVars == <<guard, backupGuard, reserved>>
callVars == <<pc, call>>
historyVars == <<release, ready, acks, replaced, crossed>>
vars == <<dirVars, fileVars, lockVars, callVars, historyVars, troubles>>

(* The content of a database: whether it is well formed, the token of a     *)
(* bootstrap table, applied migrations, tables of others, rows written.     *)
Content(token, applied, foreign, marks) ==
    [whole |-> TRUE, token |-> token, applied |-> applied, foreign |-> foreign,
     marks |-> marks]

Image(id) == Content(id, 0, FALSE, {})
Blank == [Content(Nobody, 0, FALSE, {}) EXCEPT !.whole = FALSE]

(* The whole file is exactly the bootstrap image.                           *)
IsImage(id) == file[id] = Image(id) /\ id \notin hot

(* What a call holds: the inode it saw and opened, the token it read, the   *)
(* content at BEGIN, whether it published a backup of it; how it failed;    *)
(* and whether the header it read was that of an interrupted commit.        *)
NoCall == [op |-> Nobody, id |-> 0, token |-> Nobody, base |-> Blank, backed |-> FALSE,
           error |-> Nobody, torn |-> FALSE]

Go(p, step, c) ==
    /\ pc' = [pc EXCEPT ![p] = step]
    /\ call' = [call EXCEPT ![p] = c]

Trouble == troubles < MaxTroubles /\ troubles' = troubles + 1

Freed(lock, p) == IF lock = p THEN Nobody ELSE lock

Unlock(p) ==
    /\ guard' = Freed(guard, p)
    /\ backupGuard' = Freed(backupGuard, p)
    /\ reserved' = [id \in Ids |-> Freed(reserved[id], p)]

WithoutTemp(p) ==
    IF pc[p] \in {"fill", "link", "drop"} THEN [temp EXCEPT ![p] = NoFile] ELSE temp

WithoutBackup(p) ==
    IF call[p].backed THEN [backup EXCEPT ![p] = NoFile] ELSE backup

(* Mutant: an error leaves the guard locked.                                *)
FailKeepingGuard(p, error) ==
    /\ Go(p, "failed", [NoCall EXCEPT !.error = error, !.torn = call[p].torn])
    /\ reserved' = [id \in Ids |-> Freed(reserved[id], p)]
    /\ temp' = WithoutTemp(p)
    /\ backup' = WithoutBackup(p)
    /\ UNCHANGED <<entry, guard, backupGuard, fileVars, historyVars>>

(* Any error: the transaction is rolled back, the locks are released, the   *)
(* temporary and the backup of this call are removed.                       *)
Fail(p, error) ==
    /\ Go(p, "failed", [NoCall EXCEPT !.error = error, !.torn = call[p].torn])
    /\ Unlock(p)
    /\ temp' = WithoutTemp(p)
    /\ backup' = WithoutBackup(p)
    /\ UNCHANGED <<entry, fileVars, historyVars>>

-----------------------------------------------------------------------------
(* The entry in the directory.                                              *)

Call(p, op) ==
    /\ pc[p] \in {"idle", "done", "failed"}
    /\ IF op = "initialize" THEN p \notin ready ELSE p \in ready \ acks
    /\ Go(p, "guard", [NoCall EXCEPT !.op = op])
    /\ UNCHANGED <<dirVars, fileVars, lockVars, historyVars, troubles>>

EnterGuard(p) ==
    /\ pc[p] = "guard"
    /\ guard = Nobody
    /\ guard' = p
    /\ Go(p, "sweep", call[p])
    /\ UNCHANGED <<dirVars, fileVars, backupGuard, reserved, historyVars, troubles>>

(* Temporaries are removed by their prefix, whoever made them.              *)
Sweep(p) ==
    /\ pc[p] = "sweep"
    /\ temp' = [q \in Procs |-> NoFile]
    /\ Go(p, "look", call[p])
    /\ UNCHANGED <<entry, backup, fileVars, lockVars, historyVars, troubles>>

(* Mutant: the guard is kept after the entry was seen.                      *)
LookKeepingGuard(p) ==
    /\ pc[p] = "look"
    /\ IF entry # 0 THEN Go(p, "open", [call[p] EXCEPT !.id = entry])
       ELSE call[p].op = "initialize" /\ Go(p, "stage", call[p])
    /\ UNCHANGED <<dirVars, fileVars, lockVars, historyVars, troubles>>

Look(p) ==
    /\ pc[p] = "look"
    /\ UNCHANGED troubles
    /\ \/ /\ entry # 0
          /\ guard' = Freed(guard, p)
          /\ Go(p, "open", [call[p] EXCEPT !.id = entry])
          /\ UNCHANGED <<dirVars, fileVars, backupGuard, reserved, historyVars>>
       \/ /\ entry = 0 /\ call[p].op = "initialize"
          /\ Go(p, "stage", call[p])
          /\ UNCHANGED <<dirVars, fileVars, lockVars, historyVars>>
       \/ entry = 0 /\ call[p].op = "write" /\ Fail(p, "missing")

(* The new ledger: an exclusive temporary, the image, a link to the name.   *)

NewId == CHOOSE id \in Ids : file[id] = Blank /\ \A q \in Procs : call[q].id # id

Stage(p) ==
    /\ pc[p] = "stage"
    /\ temp' = [temp EXCEPT ![p] = "partial"]
    /\ Go(p, "fill", call[p])
    /\ UNCHANGED <<entry, backup, fileVars, lockVars, historyVars, troubles>>

Fill(p) ==
    /\ pc[p] = "fill"
    /\ temp' = [temp EXCEPT ![p] = "image"]
    /\ Go(p, "link", call[p])
    /\ UNCHANGED <<entry, backup, fileVars, lockVars, historyVars, troubles>>

(* Another program may have put a file there: look again.                   *)
Link(p) ==
    /\ pc[p] = "link"
    /\ UNCHANGED troubles
    /\ \/ /\ entry = 0 /\ temp[p] = "image"
          /\ entry' = NewId
          /\ file' = [file EXCEPT ![NewId] = Image(NewId)]
          /\ Go(p, "drop", call[p])
          /\ UNCHANGED <<temp, backup, hot, lockVars, historyVars>>
       \/ /\ entry # 0
          /\ temp' = [temp EXCEPT ![p] = NoFile]
          /\ Go(p, "look", call[p])
          /\ UNCHANGED <<entry, backup, fileVars, lockVars, historyVars>>
       \/ entry = 0 /\ temp[p] = NoFile /\ Fail(p, "lost")

DropTemp(p) ==
    /\ pc[p] = "drop"
    /\ UNCHANGED troubles
    /\ IF entry = 0 THEN Fail(p, "missing")
       ELSE /\ temp' = [temp EXCEPT ![p] = NoFile]
            /\ guard' = Freed(guard, p)
            /\ Go(p, "open", [call[p] EXCEPT !.id = entry])
            /\ UNCHANGED <<entry, backup, fileVars, backupGuard, reserved, historyVars>>

-----------------------------------------------------------------------------
(* The lease and the connection.                                            *)

Same(p) == entry = call[p].id

(* The descriptor: the inode is the one seen, and the raw header tells the  *)
(* token of a database nobody has migrated yet.                             *)
Open(p) ==
    LET id == call[p].id
    IN  /\ pc[p] = "open"
        /\ UNCHANGED troubles
        /\ IF ~Same(p) THEN Fail(p, "identity")
           ELSE /\ Go(p, "connect",
                      [call[p] EXCEPT !.token = IF IsImage(id) THEN file[id].token ELSE Nobody,
                                      !.torn = id \in hot])
                /\ UNCHANGED <<dirVars, fileVars, lockVars, historyVars>>

(* Mutant: a migrated database has no token, whatever happened in between.  *)
RefusesMigrated(c) == file[c.id].token # c.token

(* _verify_bootstrap_connection: the token is still there, or the bootstrap *)
(* table is gone because somebody migrated; a bootstrap table nobody read   *)
(* the token of is refused.                                                 *)
Refuses(c) ==
    \/ c.token = Nobody /\ file[c.id].token # Nobody
    \/ c.token # Nobody /\ file[c.id].token # c.token /\ file[c.id].applied = 0

(* SQLite opens the path, plays a leftover journal back, and the inode must *)
(* still be the leased one.                                                 *)
Connect(p) ==
    LET c == call[p]
    IN  /\ pc[p] = "connect"
        /\ UNCHANGED troubles
        /\ IF ~Same(p) THEN Fail(p, "identity")
           ELSE /\ hot' = hot \ {c.id}
                /\ IF ~file[c.id].whole \/ Refuses(c)
                   THEN /\ Go(p, "failed",
                              [NoCall EXCEPT !.torn = c.torn,
                                             !.error = IF file[c.id].whole THEN "token"
                                                       ELSE "malformed"])
                        /\ Unlock(p)
                   ELSE /\ Go(p, IF c.token # Nobody /\ file[c.id].token = c.token
                                 THEN "rows" ELSE "probe", c)
                        /\ UNCHANGED lockVars
                /\ UNCHANGED <<dirVars, file, historyVars>>

(* _probe_write_identity: a transaction that is rolled back.                *)
Probe(p) ==
    /\ pc[p] = "probe"
    /\ reserved[call[p].id] = Nobody
    /\ UNCHANGED troubles
    /\ IF ~Same(p) THEN Fail(p, "identity")
       ELSE /\ Go(p, "rows", call[p])
            /\ UNCHANGED <<dirVars, fileVars, lockVars, historyVars>>

-----------------------------------------------------------------------------
(* The transaction.                                                         *)

Future(p) == file[call[p].id].applied > release[p]

(* Before the lock: identity, and the migrations, of initialize only.       *)
Rows(p) ==
    /\ pc[p] = "rows"
    /\ UNCHANGED troubles
    /\ IF ~Same(p) THEN Fail(p, "identity")
       ELSE IF call[p].op = "initialize" /\ Future(p) THEN Fail(p, "future")
       ELSE /\ Go(p, "begin", call[p])
            /\ UNCHANGED <<dirVars, fileVars, lockVars, historyVars>>

(* What a transaction has to do after BEGIN: a write, or the migrations;    *)
(* a database with anything in it is backed up first.                       *)
Work(p, base) ==
    IF /\ call[p].op = "initialize"
       /\ base.applied < release[p]
       /\ base.foreign \/ base.applied > 0
    THEN "backup_lock" ELSE "commit"

(* Mutant: BEGIN without IMMEDIATE.                                         *)
BeginDeferred(p) ==
    LET base == file[call[p].id]
    IN  /\ pc[p] = "begin"
        /\ ~(call[p].op = "initialize" /\ Future(p))
        /\ Go(p, Work(p, base), [call[p] EXCEPT !.base = base])
        /\ UNCHANGED <<dirVars, fileVars, lockVars, historyVars, troubles>>

(* Mutant: the migrations are not validated again under the lock.           *)
BeginUnchecked(p) ==
    LET id == call[p].id
    IN  /\ pc[p] = "begin"
        /\ reserved[id] = Nobody
        /\ reserved' = [reserved EXCEPT ![id] = p]
        /\ Go(p, Work(p, file[id]), [call[p] EXCEPT !.base = file[id]])
        /\ UNCHANGED <<dirVars, fileVars, guard, backupGuard, historyVars, troubles>>

(* BEGIN IMMEDIATE; the migrations are read and validated again; a write    *)
(* needs the tables.                                                        *)
Begin(p) ==
    LET id == call[p].id
        base == file[id]
    IN  /\ pc[p] = "begin"
        /\ reserved[id] = Nobody
        /\ UNCHANGED troubles
        /\ IF ~base.whole THEN Fail(p, "malformed")
           ELSE IF call[p].op = "initialize" /\ Future(p) THEN Fail(p, "future")
           ELSE IF call[p].op = "write" /\ base.applied = 0 THEN Fail(p, "missing")
           ELSE /\ reserved' = [reserved EXCEPT ![id] = p]
                /\ Go(p, Work(p, base), [call[p] EXCEPT !.base = base])
                /\ UNCHANGED <<dirVars, fileVars, guard, backupGuard, historyVars>>

(* The busy timeout of five seconds.                                        *)
Busy(p) ==
    /\ pc[p] \in {"probe", "begin"}
    /\ reserved[call[p].id] \notin {Nobody, p}
    /\ Fail(p, "busy")
    /\ UNCHANGED troubles

EnterBackup(p) ==
    /\ pc[p] = "backup_lock"
    /\ backupGuard = Nobody
    /\ UNCHANGED troubles
    /\ IF ~Same(p) THEN Fail(p, "identity")
       ELSE /\ backupGuard' = p
            /\ Go(p, "publish", call[p])
            /\ UNCHANGED <<dirVars, fileVars, guard, reserved, historyVars>>

(* A second, read-only connection copies what is committed; the copy is     *)
(* renamed and validated.  Then the descriptor under that connection is     *)
(* closed, and with it goes the lock of the transaction.                    *)
Publish(p) ==
    LET c == call[p]
    IN  /\ pc[p] = "publish"
        /\ UNCHANGED troubles
        /\ IF ~Same(p) THEN Fail(p, "identity")
           ELSE /\ backup' = [backup EXCEPT ![p] = file[c.id]]
                /\ backupGuard' = Freed(backupGuard, p)
                /\ reserved' = [reserved EXCEPT ![c.id] = Freed(@, p)]
                /\ Go(p, "commit", [c EXCEPT !.backed = TRUE])
                /\ UNCHANGED <<entry, temp, fileVars, guard, historyVars>>

Dropped(content) == [content EXCEPT !.token = Nobody]
Migrated(content, n) == [content EXCEPT !.applied = IF @ < n THEN n ELSE @]

(* What the transaction makes of a content.                                 *)
Result(p, content) ==
    IF call[p].op = "write"
    THEN [content EXCEPT !.marks = @ \cup {p}]
    ELSE Migrated(Dropped(content), release[p])

(* COMMIT with the lock; or without it but with nothing changed meanwhile.  *)
CommitCleanly(p) ==
    LET id == call[p].id
    IN  /\ reserved[id] = p \/ (reserved[id] = Nobody /\ file[id] = call[p].base)
        /\ file' = [file EXCEPT ![id] = Result(p, call[p].base)]
        /\ reserved' = [reserved EXCEPT ![id] = Nobody]
        /\ Go(p, "check", call[p])
        /\ UNCHANGED <<dirVars, hot, guard, backupGuard, historyVars>>

(* COMMIT of stale pages over what another process committed meanwhile: its *)
(* rows survive, or are gone, or the file is malformed, and the COMMIT may  *)
(* fail all the same, because the other took the journal for a leftover.    *)
CommitOverOthers(p) ==
    LET id == call[p].id
        mine == Result(p, call[p].base)
    IN  /\ reserved[id] = Nobody
        /\ file[id] # call[p].base
        /\ file' \in {[file EXCEPT ![id] = over] :
                         over \in {mine, [mine EXCEPT !.marks = @ \cup file[id].marks],
                                   [mine EXCEPT !.whole = FALSE]}}
        /\ crossed' = TRUE
        /\ \/ Go(p, "check", call[p]) /\ UNCHANGED backup
           \/ /\ Go(p, "failed", [NoCall EXCEPT !.error = "io"])
              /\ backup' = WithoutBackup(p)
        /\ UNCHANGED <<entry, temp, hot, lockVars, release, ready, acks, replaced>>

Commit(p) ==
    /\ pc[p] = "commit"
    /\ UNCHANGED troubles
    /\ \/ ~Same(p) /\ Fail(p, "identity")
       \/ Same(p) /\ CommitCleanly(p)
       \/ Same(p) /\ CommitOverOthers(p)
       \/ Same(p) /\ reserved[call[p].id] \notin {p, Nobody} /\ Fail(p, "busy")

(* Mutant: nothing is compared after COMMIT.                                *)
CheckNothing(p) ==
    /\ pc[p] = "check"
    /\ Go(p, "done", call[p])
    /\ ready' = IF call[p].op = "initialize" THEN ready \cup {p} ELSE ready
    /\ acks' = IF call[p].op = "write" THEN acks \cup {p} ELSE acks
    /\ UNCHANGED <<dirVars, fileVars, lockVars, release, replaced, crossed, troubles>>

(* The inode is compared once more after COMMIT.                            *)
Check(p) ==
    /\ pc[p] = "check"
    /\ UNCHANGED troubles
    /\ IF ~Same(p) THEN Fail(p, "identity")
       ELSE /\ Go(p, "done", call[p])
            /\ ready' = IF call[p].op = "initialize" THEN ready \cup {p} ELSE ready
            /\ acks' = IF call[p].op = "write" THEN acks \cup {p} ELSE acks
            /\ UNCHANGED <<dirVars, fileVars, lockVars, release, replaced, crossed>>

-----------------------------------------------------------------------------
(* Failures and other programs.                                             *)

Guarded == {"sweep", "look", "stage", "fill", "link", "drop"}
Working == Guarded \cup {"guard", "open", "connect", "probe", "rows", "begin", "backup_lock",
                         "publish", "commit", "check"}

Stumble(p) ==
    /\ pc[p] \in Working
    /\ Trouble
    /\ Fail(p, "io")

(* A process dies; its successor has to initialize.  In COMMIT it may leave *)
(* a journal, and pages of its own in the file.                             *)
Crash(p) ==
    /\ pc[p] \in Working
    /\ Trouble
    /\ Go(p, "idle", NoCall)
    /\ Unlock(p)
    /\ hot' \in {hot, hot \cup (IF pc[p] = "commit" THEN {call[p].id} ELSE {})}
    /\ ready' = ready \ {p}
    /\ UNCHANGED <<dirVars, file, release, acks, replaced, crossed>>

(* Somebody removes the ledger, puts a backup in its place, or brings one   *)
(* where there is none.                                                     *)
Replace ==
    /\ Trouble
    /\ replaced' = TRUE
    /\ \/ entry # 0 /\ entry' = 0 /\ acks' = {} /\ UNCHANGED file
       \/ \E content \in IF entry = 0 THEN FirstFiles \ {NoFile}
                         ELSE {backup[p] : p \in Procs} \ {NoFile} :
             /\ entry' = NewId
             /\ file' = [file EXCEPT ![NewId] = content]
             /\ acks' = acks \cap content.marks
    /\ UNCHANGED <<temp, backup, hot, lockVars, callVars, release, ready, crossed>>

-----------------------------------------------------------------------------
Init ==
    /\ release \in Releases
    /\ \E first \in FirstFiles :
          /\ entry = IF first = NoFile THEN 0 ELSE 1
          /\ file = [id \in Ids |-> IF id = 1 /\ first # NoFile THEN first ELSE Blank]
    /\ hot = {}
    /\ temp = [p \in Procs |-> NoFile] /\ backup = [p \in Procs |-> NoFile]
    /\ guard = Nobody /\ backupGuard = Nobody /\ reserved = [id \in Ids |-> Nobody]
    /\ pc = [p \in Procs |-> "idle"] /\ call = [p \in Procs |-> NoCall]
    /\ ready = {} /\ acks = {} /\ troubles = 0 /\ replaced = FALSE /\ crossed = FALSE

ProcessStep(p) ==
    \/ EnterGuard(p) \/ Sweep(p) \/ Look(p) \/ Stage(p) \/ Fill(p) \/ Link(p) \/ DropTemp(p)
    \/ Open(p) \/ Connect(p) \/ Probe(p) \/ Rows(p) \/ Begin(p) \/ Busy(p)
    \/ EnterBackup(p) \/ Publish(p) \/ Commit(p) \/ Check(p)

Next ==
    \/ \E p \in Procs :
          \/ \E op \in {"initialize", "write"} : Call(p, op)
          \/ ProcessStep(p) \/ Stumble(p) \/ Crash(p)
    \/ Replace

(* A process that started a call goes on with it, and the kernel serves     *)
(* everybody who waits for an flock.                                        *)
Spec ==
    /\ Init /\ [][Next]_vars
    /\ \A p \in Procs :
          WF_vars(ProcessStep(p)) /\ SF_vars(EnterGuard(p)) /\ SF_vars(EnterBackup(p))

-----------------------------------------------------------------------------
(* Properties.                                                              *)

(* Types, and locks that only their steps hold.                             *)
TypeOK ==
    /\ entry \in 0..(MaxTroubles + 2) /\ hot \subseteq Ids
    /\ \A id \in Ids : file[id].marks \subseteq Procs /\ file[id].token \in Ids \cup {Nobody}
    /\ pc \in [Procs -> Working \cup {"idle", "done", "failed"}]
    /\ \A p \in Procs :
          /\ guard = p <=> pc[p] \in Guarded
          /\ backupGuard = p <=> pc[p] = "publish"
          /\ \A id \in Ids : reserved[id] = p =>
                id = call[p].id /\ pc[p] \in {"backup_lock", "publish", "commit"}

(* Initialization succeeds only on a schema its release knows, whatever     *)
(* another release did between its look and its lock.                       *)
InitializesKnownSchema ==
    \A p \in Procs : pc[p] = "done" /\ call[p].op = "initialize" =>
        call[p].base.applied <= release[p]

(* The backup of a migration that succeeds is what was migrated.            *)
BackupIsWhatWasMigrated ==
    \A p \in Procs : pc[p] = "done" /\ call[p].backed => backup[p] = call[p].base

(* A write that was reported durable is in the ledger for as long as nobody *)
(* replaces the file.                                                       *)
Marks == IF entry = 0 THEN {} ELSE file[entry].marks
AcknowledgedWritesStay == acks \subseteq Marks

(* Only a migration that committed over others can take one away.           *)
OnlyMigrationsLoseWrites == ~crossed => acks \subseteq Marks

(* What a failed call accuses the ledger of is so.  That it is gone, that   *)
(* it is not the file that was opened, or not one of ours, somebody brought *)
(* about who replaced it, or a commit that a crash cut short hid the token; *)
(* a temporary is never swept away from under its creator; and a database   *)
(* is found half written or malformed only after a migration committed over *)
(* others.                                                                  *)
ErrorsHaveCause ==
    \A p \in Procs :
        /\ call[p].error \in {"missing", "identity", "token", "lost"} =>
              replaced \/ call[p].torn
        /\ call[p].error = "malformed" => crossed

(* Every call comes to an end: no error, crash or timeout leaves the others *)
(* waiting.                                                                 *)
CallsEnd == \A p \in Procs : pc[p] \in Working ~> pc[p] \notin Working
=============================================================================
