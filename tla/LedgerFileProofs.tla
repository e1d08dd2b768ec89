--------------------------- MODULE LedgerFileProofs ---------------------------
(***************************************************************************)
(* What the opening, migrating and writing of a ledger file guarantee for  *)
(* every number of processes, of releases and of things that go wrong.     *)
(***************************************************************************)
EXTENDS LedgerFile, FiniteSetTheorems, TLAPS

-----------------------------------------------------------------------------
(* The inductive invariant.                                                  *)

Contents == [whole : BOOLEAN, token : Ids \cup {Nobody}, applied : Nat,
             foreign : BOOLEAN, marks : SUBSET Procs]
Errors == {"missing", "identity", "token", "lost", "malformed", "future", "busy", "io"}
Calls == [op : {Nobody, "initialize", "write"}, id : Ids \cup {0},
          token : Ids \cup {Nobody}, base : Contents, backed : BOOLEAN,
          error : Errors \cup {Nobody}, torn : BOOLEAN]

(* The directory and the files, the calls, and the histories.                *)
FilesTyped ==
    /\ entry \in Ids \cup {0}
    /\ file \in [Ids -> Contents]
    /\ hot \subseteq Ids
    /\ temp \in [Procs -> {NoFile, "partial", "image"}]
    /\ backup \in [Procs -> Contents \cup {NoFile}]
CallsTyped ==
    /\ pc \in [Procs -> Working \cup {"idle", "done", "failed"}]
    /\ call \in [Procs -> Calls]
    /\ \A p \in Procs : pc[p] \in Working => call[p].op \in {"initialize", "write"}
HistoriesTyped ==
    /\ release \in [Procs -> Nat \ {0}]
    /\ ready \subseteq Procs /\ acks \subseteq Procs
    /\ troubles \in 0..MaxTroubles
    /\ replaced \in BOOLEAN /\ crossed \in BOOLEAN

(* An inode in use never goes blank, and there is one left for the next      *)
(* ledger: one more than troubles are in use, one less while there is none.  *)
Used == {id \in Ids : file[id] # Blank}
InodesSuffice ==
    /\ Cardinality(Used) + (IF entry = 0 THEN 1 ELSE 0) <= troubles + 1
    /\ entry \in Used \cup {0}
    /\ \A p \in Procs : call[p].id \in Used \cup {0}

(* Which steps hold which lock.  A commit without the lock comes after a     *)
(* backup, so that it is a migration.                                        *)
HoldsLocks(p) ==
    /\ guard = p <=> pc[p] \in Guarded
    /\ backupGuard = p <=> pc[p] = "publish"
    /\ \A id \in Ids : reserved[id] = p =>
          id = call[p].id /\ pc[p] \in {"backup_lock", "publish", "commit"}
    /\ pc[p] \in {"backup_lock", "publish"} \/ (pc[p] = "commit" /\ ~call[p].backed) =>
          reserved[call[p].id] = p
LocksTyped ==
    /\ guard \in Procs \cup {Nobody}
    /\ backupGuard \in Procs \cup {Nobody}
    /\ reserved \in [Ids -> Procs \cup {Nobody}]

(* The steps with an inode, and those of a transaction.                      *)
Opened == {"open", "connect", "probe", "rows", "begin", "backup_lock", "publish", "commit",
           "check"}
Transacting == {"backup_lock", "publish", "commit", "check", "done"}

(* What a call knows of its inode and of its transaction.                    *)
CallKnows(p) ==
    /\ pc[p] \in Opened => call[p].id # 0
    /\ pc[p] \in Transacting =>
          IF call[p].op = "initialize" THEN call[p].base.applied <= release[p]
          ELSE call[p].base.applied > 0
    /\ pc[p] \in {"backup_lock", "publish", "commit"} => call[p].base.whole \/ crossed
    /\ pc[p] \in {"backup_lock", "publish"} =>
          /\ call[p].op = "initialize"
          /\ call[p].base.foreign \/ call[p].base.applied > 0
    /\ \A id \in Ids : reserved[id] = p => file[id] = call[p].base
    /\ call[p].backed =>
          /\ pc[p] \in {"commit", "check", "done"} /\ call[p].op = "initialize"
          /\ backup[p] = call[p].base
    /\ pc[p] = "check" =>
          /\ file[call[p].id].applied > 0
          /\ call[p].op = "write" => crossed \/ p \in file[call[p].id].marks
    /\ pc[p] = "connect" =>
          IF call[p].token = Nobody
          THEN call[p].torn \/ file[call[p].id].token = Nobody
          ELSE file[call[p].id].token = call[p].token \/ file[call[p].id].applied > 0
    /\ pc[p] = "link" => temp[p] = "image"
    /\ pc[p] \in {"stage", "fill", "link", "drop"} => call[p].op = "initialize"

(* A token goes with a bootstrap image nobody has touched; backups are of    *)
(* databases with something in them.                                         *)
TokensFit ==
    /\ \A id \in Ids : file[id].token # Nobody => file[id] = Image(id)
    /\ \A p \in Procs : backup[p] # NoFile => backup[p].token = Nobody /\ backup[p] # Blank

(* Every file is well formed unless a migration committed over others.       *)
AllWhole ==
    ~crossed => /\ \A id \in Used : file[id].whole
                /\ \A p \in Procs : backup[p] # NoFile => backup[p].whole

(* As long as nobody replaces it, the ledger is the one file every call      *)
(* opened, and once somebody initialized it, it is migrated.                 *)
LedgerStays ==
    ~replaced =>
        /\ \A p \in Procs : call[p].id \in {0, entry}
        /\ \A p \in Procs : pc[p] = "drop" => entry # 0
        /\ ready # {} => entry # 0 /\ file[entry].applied > 0

(* Only a process that initialized writes, and a call failed for a reason.   *)
WriterReady(p) == pc[p] \in Working /\ call[p].op = "write" => p \in ready
Cause(p) ==
    /\ pc[p] # "failed" => call[p].error = Nobody
    /\ call[p].error \in {"missing", "identity", "token", "lost"} => replaced \/ call[p].torn
    /\ call[p].error = "malformed" => crossed

FileInv ==
    /\ FilesTyped /\ CallsTyped /\ HistoriesTyped
    /\ InodesSuffice /\ LocksTyped
    /\ \A p \in Procs : HoldsLocks(p) /\ CallKnows(p) /\ WriterReady(p) /\ Cause(p)
    /\ TokensFit /\ AllWhole /\ LedgerStays /\ OnlyMigrationsLoseWrites

-----------------------------------------------------------------------------
(* Inodes.                                                                   *)

LEMMA IdsAreNumbers ==
    /\ Ids \subseteq Nat /\ 0 \notin Ids /\ Nobody \notin Ids
    /\ IsFiniteSet(Ids) /\ Cardinality(Ids) = MaxTroubles + 2
<1>1. MaxTroubles \in Nat /\ Nobody \notin Nat
  BY FileAssumption
<1>2. Cardinality(1..(MaxTroubles + 2)) = MaxTroubles + 2 /\ IsFiniteSet(1..(MaxTroubles + 2))
  BY <1>1, FS_Interval
<1> QED BY <1>1, <1>2 DEF Ids

(* Whenever a file is to be created there is an inode for it, one that no    *)
(* file has and no call has seen.                                            *)
LEMMA InodeLeft ==
    ASSUME FilesTyped, CallsTyped, InodesSuffice, HistoriesTyped,
           entry = 0 \/ troubles < MaxTroubles
    PROVE  /\ NewId \in Ids
           /\ file[NewId] = Blank
           /\ \A q \in Procs : call[q].id # NewId
<1>1. IsFiniteSet(Used) /\ Used \subseteq Ids
  BY IdsAreNumbers, FS_Subset DEF Used
<1>2. Cardinality(Used) \in Nat /\ Cardinality(Used) < MaxTroubles + 2
  <2>1. Cardinality(Used) \in Nat
    BY <1>1, FS_CardinalityType
  <2>2. troubles \in Nat /\ troubles <= MaxTroubles /\ MaxTroubles \in Nat
    BY FileAssumption DEF HistoriesTyped
  <2>3. Cardinality(Used) + (IF entry = 0 THEN 1 ELSE 0) <= troubles + 1
    BY DEF InodesSuffice
  <2> QED BY <2>1, <2>2, <2>3
<1>3. PICK id \in Ids : id \notin Used
  <2>1. Cardinality(Used) # Cardinality(Ids)
    BY <1>2, IdsAreNumbers, FileAssumption
  <2>2. Used # Ids
    BY <2>1
  <2> QED BY <1>1, <2>2
<1>4. file[id] = Blank /\ \A q \in Procs : call[q].id # id
  BY <1>1, <1>3, IdsAreNumbers DEF Used, InodesSuffice
<1> QED BY <1>4 DEF NewId

(* Creating a file there uses up one inode.                                  *)
LEMMA InodeTaken ==
    ASSUME FilesTyped, NEW id \in Ids, file[id] = Blank, NEW content \in Contents,
           content # Blank, file' = [file EXCEPT ![id] = content]
    PROVE  Used' = Used \cup {id} /\ Cardinality(Used') = Cardinality(Used) + 1
<1>1. Used' = Used \cup {id} /\ id \notin Used
  BY DEF Used, FilesTyped
<1>2. IsFiniteSet(Used)
  BY IdsAreNumbers, FS_Subset DEF Used
<1> QED BY <1>1, <1>2, FS_AddElement

-----------------------------------------------------------------------------
(* The steps of one process.                                                 *)

Places == Working \cup {"idle", "done", "failed"}

ProcStep(p) ==
    \/ \E op \in {"initialize", "write"} : Call(p, op)
    \/ ProcessStep(p) \/ Stumble(p) \/ Crash(p)

(* It moves its own call alone.                                              *)
Moves(p) ==
    /\ pc' = [pc EXCEPT ![p] = pc'[p]]
    /\ call' = [call EXCEPT ![p] = call'[p]]
    /\ pc'[p] \in Places
    /\ call'[p] \in Calls
    /\ pc'[p] \in Working => call'[p].op \in {"initialize", "write"}

LEMMA GoMoves ==
    ASSUME CallsTyped, NEW p \in Procs, NEW step \in Places, NEW c \in Calls,
           step \in Working => c.op \in {"initialize", "write"}, Go(p, step, c)
    PROVE  Moves(p) /\ pc'[p] = step /\ call'[p] = c
BY DEF CallsTyped, Moves, Go, Places

LEMMA BlankTyped == Blank \in Contents /\ NoCall \in Calls
<1>1. Blank \in Contents
  BY DEF Blank, Content, Contents
<1> QED BY <1>1 DEF NoCall, Calls

(* What an error leaves of a call.                                           *)
Failed(p, error) == [NoCall EXCEPT !.error = error, !.torn = call[p].torn]

LEMMA FailedTyped ==
    ASSUME CallsTyped, NEW p \in Procs, NEW error \in Errors
    PROVE  Failed(p, error) \in Calls
BY BlankTyped DEF CallsTyped, Calls, Failed, NoCall

LEMMA FailMoves ==
    ASSUME CallsTyped, NEW p \in Procs, NEW error \in Errors, Fail(p, error)
    PROVE  Moves(p) /\ pc'[p] = "failed" /\ call'[p] = Failed(p, error)
BY FailedTyped, GoMoves DEF Fail, Failed, Places, Working, Guarded

-----------------------------------------------------------------------------
(* Steps that leave the ledger alone.                                        *)

(* The locks of the others are as they were.                                 *)
LeavesLocks(p) ==
    /\ LocksTyped'
    /\ \A q \in Procs \ {p} :
          /\ guard' = q <=> guard = q
          /\ backupGuard' = q <=> backupGuard = q
          /\ \A id \in Ids : reserved'[id] = q <=> reserved[id] = q

(* The temporaries and backups of the others too, but for the sweep; a new   *)
(* backup is a copy of the file.                                             *)
LeavesTemps(p) ==
    /\ temp' \in [Procs -> {NoFile, "partial", "image"}]
    /\ \A q \in Procs \ {p} : temp'[q] = temp[q] \/ guard = p
LeavesBackups(p) ==
    /\ backup' \in [Procs -> Contents \cup {NoFile}]
    /\ \A q \in Procs \ {p} : backup'[q] = backup[q]
    /\ \/ backup'[p] \in {backup[p], NoFile}
       \/ pc[p] = "publish" /\ backup'[p] = file[call[p].id]

(* Who initialized and who wrote.                                            *)
Succeeds(p) ==
    /\ ready' \subseteq Procs /\ acks' \subseteq Procs
    /\ ready' \ {p} = ready \ {p} /\ acks' \ {p} = acks \ {p}
    /\ ready' \subseteq ready \/ (entry # 0 /\ file[entry].applied > 0)
    /\ acks' \subseteq acks \/ crossed \/ p \in Marks

Still(p) ==
    /\ Moves(p)
    /\ UNCHANGED <<entry, file, release, replaced, crossed>>
    /\ hot' \subseteq Ids
    /\ troubles' \in 0..MaxTroubles /\ troubles' >= troubles
    /\ LeavesLocks(p) /\ LeavesTemps(p) /\ LeavesBackups(p) /\ Succeeds(p)
    /\ call'[p].id \in {0, entry, call[p].id}
    /\ pc'[p] # "drop"

(* Such a step keeps the invariant if it keeps what concerns p alone.        *)
LEMMA StillKeeps ==
    ASSUME FileInv, NEW p \in Procs, Still(p),
           (HoldsLocks(p) /\ CallKnows(p) /\ WriterReady(p) /\ Cause(p))'
    PROVE  FileInv'
<1>1. FilesTyped' /\ HistoriesTyped' /\ LocksTyped'
  BY DEF FileInv, Still, FilesTyped, HistoriesTyped, LeavesLocks, LeavesTemps,
         LeavesBackups, Succeeds
<1>2. /\ pc'[p] \in Places /\ call'[p] \in Calls
      /\ \A q \in Procs \ {p} : pc'[q] = pc[q] /\ call'[q] = call[q]
      /\ CallsTyped'
  BY DEF FileInv, Still, Moves, CallsTyped, Places
<1>3. InodesSuffice'
  <2>1. Used' = Used
    BY DEF Still, Used
  <2>2. troubles \in Nat /\ troubles' \in Nat /\ troubles' >= troubles
    BY FileAssumption DEF FileInv, HistoriesTyped, Still
  <2>3. Cardinality(Used) \in Nat
    BY IdsAreNumbers, FS_Subset, FS_CardinalityType DEF Used
  <2>4. \A q \in Procs : call'[q].id \in Used \cup {0}
    BY <1>2 DEF FileInv, InodesSuffice, Still
  <2> QED BY <2>1, <2>2, <2>3, <2>4 DEF FileInv, InodesSuffice, Still
<1>4. ASSUME NEW q \in Procs
      PROVE  (HoldsLocks(q) /\ CallKnows(q) /\ WriterReady(q) /\ Cause(q))'
  <2>1. CASE q = p
    BY <2>1
  <2>2. CASE q # p
    <3>0. pc'[q] = pc[q] /\ call'[q] = call[q]
      BY <1>2, <2>2
    <3>1. HoldsLocks(q)'
      <4>1. pc[q] \in {"backup_lock", "publish"} => call[q].id \in Ids
        BY DEF FileInv, CallsTyped, Calls, CallKnows, Opened
      <4>2. pc[q] = "commit" => call[q].id \in Ids
        BY DEF FileInv, CallsTyped, Calls, CallKnows, Opened
      <4> QED BY <3>0, <2>2, <4>1, <4>2 DEF FileInv, Still, LeavesLocks, HoldsLocks
    <3>4. WriterReady(q)' /\ Cause(q)'
      BY <3>0, <2>2 DEF FileInv, Still, Succeeds, WriterReady, Cause
    <3>2. pc[q] = "link" => temp'[q] = temp[q]
      BY <2>2, FileAssumption DEF FileInv, HoldsLocks, Guarded, Still, LeavesTemps
    <3>3. CallKnows(q)'
      BY <1>2, <2>2, <3>2 DEF FileInv, Still, LeavesLocks, LeavesBackups, CallKnows
    <3> QED BY <3>1, <3>3, <3>4
  <2> QED BY <2>1, <2>2
<1>5. pc[p] = "publish" => /\ file[call[p].id] = call[p].base
                           /\ call[p].base.foreign \/ call[p].base.applied > 0
                           /\ call[p].id \in Used
  <2>1. pc[p] = "publish" => call[p].id \in Used
    BY DEF FileInv, InodesSuffice, CallKnows, Opened
  <2>2. pc[p] = "publish" => reserved[call[p].id] = p
    BY DEF FileInv, HoldsLocks
  <2> QED BY <2>1, <2>2 DEF FileInv, CallKnows, Used
<1>6. TokensFit'
  <2>1. pc[p] = "publish" => file[call[p].id].token = Nobody /\ file[call[p].id] # Blank
    <3>1. \A id \in Ids : Image(id).applied = 0 /\ Image(id).foreign = FALSE
      BY DEF Image, Content
    <3> QED BY <1>5, <3>1 DEF FileInv, TokensFit, Used
  <2> QED BY <2>1 DEF FileInv, Still, TokensFit, LeavesBackups
<1>7. AllWhole'
  BY <1>5 DEF FileInv, Still, AllWhole, LeavesBackups, Used
<1>8. LedgerStays'
  BY <1>2 DEF FileInv, Still, LedgerStays, Succeeds
<1>9. OnlyMigrationsLoseWrites'
  BY DEF FileInv, Still, OnlyMigrationsLoseWrites, Succeeds, Marks
<1> QED BY <1>1, <1>2, <1>3, <1>4, <1>6, <1>7, <1>8, <1>9 DEF FileInv

(* What is left unchanged, and what Unlock does.                             *)
LEMMA Left ==
    ASSUME FileInv, NEW p \in Procs
    PROVE  /\ UNCHANGED lockVars => LeavesLocks(p)
           /\ Unlock(p) => LeavesLocks(p) /\ guard' # p /\ backupGuard' # p
                           /\ \A id \in Ids : reserved'[id] # p
           /\ temp' \in {temp, WithoutTemp(p)} => LeavesTemps(p)
           /\ backup' \in {backup, WithoutBackup(p)} => LeavesBackups(p)
           /\ UNCHANGED historyVars => Succeeds(p)
<1>0. p # Nobody /\ Nobody \notin Procs
  BY FileAssumption
<1>1. UNCHANGED lockVars => LeavesLocks(p)
  BY DEF FileInv, LocksTyped, LeavesLocks, lockVars
<1>2. Unlock(p) => LeavesLocks(p) /\ guard' # p /\ backupGuard' # p
                           /\ \A id \in Ids : reserved'[id] # p
  BY <1>0 DEF FileInv, LocksTyped, LeavesLocks, Unlock, Freed
<1>3. temp' \in {temp, WithoutTemp(p)} => LeavesTemps(p)
  BY DEF FileInv, FilesTyped, LeavesTemps, WithoutTemp
<1>4. backup' \in {backup, WithoutBackup(p)} => LeavesBackups(p)
  BY DEF FileInv, FilesTyped, LeavesBackups, WithoutBackup
<1>5. UNCHANGED historyVars => Succeeds(p)
  BY DEF FileInv, HistoriesTyped, Succeeds, historyVars
<1> QED BY <1>1, <1>2, <1>3, <1>4, <1>5

(* A call that fails gives back what it holds.                               *)
LEMMA FailKeeps ==
    ASSUME FileInv, NEW p \in Procs, NEW error \in Errors,
           Go(p, "failed", Failed(p, error)), Unlock(p),
           temp' = WithoutTemp(p), backup' = WithoutBackup(p), hot' \subseteq hot,
           UNCHANGED <<entry, file, historyVars>>,
           troubles' \in 0..MaxTroubles, troubles' >= troubles,
           error \in {"missing", "identity", "token", "lost"} => replaced \/ call[p].torn,
           error = "malformed" => crossed
    PROVE  FileInv'
<1>1. Moves(p) /\ pc'[p] = "failed" /\ call'[p] = Failed(p, error)
  BY FailedTyped, GoMoves DEF FileInv, Places, Working, Guarded
<1>2. /\ call'[p].id = 0 /\ call'[p].backed = FALSE /\ call'[p].op = Nobody
      /\ call'[p].error = error /\ call'[p].torn = call[p].torn
  BY <1>1 DEF Failed, NoCall
<1>3. Still(p)
  BY <1>1, <1>2, Left DEF FileInv, FilesTyped, Still, historyVars
<1>4. HoldsLocks(p)'
  BY <1>1, Left DEF HoldsLocks, Guarded
<1>5. CallKnows(p)'
  BY <1>1, <1>2, Left DEF CallKnows, Opened, Transacting
<1>6. WriterReady(p)' /\ Cause(p)'
  BY <1>1, <1>2 DEF WriterReady, Cause, Working, Guarded, historyVars
<1> QED BY <1>3, <1>4, <1>5, <1>6, StillKeeps

(* A process that dies leaves its temporaries and its locks.                 *)
LEMMA CrashKeeps ==
    ASSUME FileInv, NEW p \in Procs, Crash(p)
    PROVE  FileInv'
<1>1. Moves(p) /\ pc'[p] = "idle" /\ call'[p] = NoCall
  BY BlankTyped, GoMoves DEF FileInv, Places, Working, Guarded, Crash
<1>2. /\ NoCall.id = 0 /\ NoCall.backed = FALSE /\ NoCall.op = Nobody
      /\ NoCall.error = Nobody
  BY DEF NoCall
<1>3. Still(p)
  <2>1. hot' \subseteq Ids
    <3>1. pc[p] = "commit" => call[p].id \in Ids
      BY DEF FileInv, CallKnows, CallsTyped, Calls, Opened
    <3> QED BY <3>1 DEF FileInv, FilesTyped, Crash
  <2>2. Succeeds(p)
    BY DEF FileInv, HistoriesTyped, Crash, Succeeds
  <2>3. troubles' \in 0..MaxTroubles /\ troubles' >= troubles
    BY FileAssumption DEF FileInv, HistoriesTyped, Crash, Trouble
  <2> QED BY <1>1, <1>2, <2>1, <2>2, <2>3, Left DEF Still, Crash, dirVars
<1>4. HoldsLocks(p)'
  BY <1>1, Left DEF HoldsLocks, Guarded, Crash
<1>5. CallKnows(p)'
  BY <1>1, <1>2, Left DEF CallKnows, Opened, Transacting, Crash
<1>6. WriterReady(p)' /\ Cause(p)'
  BY <1>1, <1>2, FileAssumption DEF WriterReady, Cause, Working, Guarded
<1> QED BY <1>3, <1>4, <1>5, <1>6, StillKeeps

-----------------------------------------------------------------------------
(* The steps of a call that succeed and leave the ledger alone.              *)

(* The step goes on with the same call, or one that saw the entry.           *)
LEMMA GoesOn ==
    ASSUME FileInv, NEW p \in Procs, NEW step \in Places \ {"drop"}, NEW c \in Calls,
           step \in Working => c.op \in {"initialize", "write"},
           c.id \in {0, entry, call[p].id}, Go(p, step, c), hot' \subseteq hot,
           UNCHANGED <<entry, file, release, replaced, crossed, troubles>>,
           LeavesLocks(p), LeavesTemps(p), LeavesBackups(p), Succeeds(p)
    PROVE  Still(p) /\ pc'[p] = step /\ call'[p] = c
<1>1. Moves(p) /\ pc'[p] = step /\ call'[p] = c
  BY GoMoves DEF FileInv
<1>2. troubles' \in 0..MaxTroubles /\ troubles' >= troubles
  BY FileAssumption DEF FileInv, HistoriesTyped
<1> QED BY <1>1, <1>2 DEF FileInv, FilesTyped, Still

LEMMA CallKeeps ==
    ASSUME FileInv, NEW p \in Procs, NEW op \in {"initialize", "write"}, Call(p, op)
    PROVE  FileInv'
<1> DEFINE c == [NoCall EXCEPT !.op = op]
<1>1. /\ c \in Calls /\ c.op = op /\ c.id = 0 /\ c.backed = FALSE /\ c.error = Nobody
  BY BlankTyped DEF Calls, NoCall
<1>a. Go(p, "guard", c)
  BY DEF Call
<1> HIDE DEF c
<1>2. Still(p) /\ pc'[p] = "guard" /\ call'[p] = c
  BY <1>1, <1>a, GoesOn, Left
  DEF Call, Places, Working, Guarded, dirVars, fileVars, historyVars
<1>3. guard' # p /\ backupGuard' # p /\ \A id \in Ids : reserved'[id] # p
  BY DEF FileInv, HoldsLocks, Call, lockVars, Guarded
<1>4. HoldsLocks(p)'
  BY <1>2, <1>3 DEF HoldsLocks, Guarded
<1>5. CallKnows(p)'
  BY <1>1, <1>2, <1>3 DEF CallKnows, Opened, Transacting
<1>6. WriterReady(p)' /\ Cause(p)'
  BY <1>1, <1>2, FileAssumption DEF WriterReady, Cause, Call, historyVars
<1> QED BY <1>2, <1>4, <1>5, <1>6, StillKeeps

(* Up to the entry.                                                          *)
LEMMA EnterGuardKeeps ==
    ASSUME FileInv, NEW p \in Procs, EnterGuard(p)
    PROVE  FileInv'
<1>0. call[p] \in Calls /\ call[p].op \in {"initialize", "write"} /\ p # Nobody
  BY FileAssumption DEF FileInv, CallsTyped, EnterGuard, Working, Guarded
<1>1. LeavesLocks(p)
  BY FileAssumption DEF FileInv, LocksTyped, EnterGuard, LeavesLocks
<1>2. Still(p) /\ pc'[p] = "sweep" /\ call'[p] = call[p]
  BY <1>0, <1>1, GoesOn, Left
  DEF EnterGuard, Places, Working, Guarded, dirVars, fileVars, historyVars
<1>3. guard' = p /\ backupGuard' # p /\ \A id \in Ids : reserved'[id] # p
  BY DEF FileInv, HoldsLocks, EnterGuard
<1>4. HoldsLocks(p)'
  BY <1>2, <1>3 DEF HoldsLocks, Guarded
<1>5. CallKnows(p)'
  <2>1. ~call[p].backed /\ pc[p] = "guard"
    BY DEF FileInv, CallKnows, EnterGuard
  <2> QED BY <1>2, <1>3, <2>1 DEF CallKnows, Opened, Transacting
<1>6. WriterReady(p)' /\ Cause(p)'
  BY <1>2 DEF FileInv, WriterReady, Cause, EnterGuard, historyVars, Working, Guarded
<1> QED BY <1>2, <1>4, <1>5, <1>6, StillKeeps

LEMMA GuardedKeeps ==
    ASSUME FileInv, NEW p \in Procs, Sweep(p) \/ Stage(p) \/ Fill(p)
    PROVE  FileInv'
<1>0. /\ call[p] \in Calls /\ call[p].op \in {"initialize", "write"}
      /\ pc[p] \in {"sweep", "stage", "fill"} /\ guard = p
      /\ pc[p] # "sweep" => call[p].op = "initialize"
  BY DEF FileInv, CallsTyped, HoldsLocks, CallKnows, Sweep, Stage, Fill, Working, Guarded
<1>1. LeavesTemps(p)
  BY <1>0 DEF FileInv, FilesTyped, Sweep, Stage, Fill, LeavesTemps
<1>2. PICK step \in {"look", "fill", "link"} :
          /\ Still(p) /\ pc'[p] = step /\ call'[p] = call[p]
          /\ step = "link" => temp'[p] = "image"
          /\ step # "look" => call[p].op = "initialize"
  BY <1>0, <1>1, GoesOn, Left
  DEF FileInv, FilesTyped, Sweep, Stage, Fill, Places, Working, Guarded, fileVars, historyVars
<1>3. guard' = p /\ backupGuard' # p /\ \A id \in Ids : reserved'[id] # p
  BY <1>0 DEF FileInv, HoldsLocks, Sweep, Stage, Fill, lockVars
<1>4. HoldsLocks(p)'
  BY <1>2, <1>3 DEF HoldsLocks, Guarded
<1>5. CallKnows(p)'
  BY <1>0, <1>2, <1>3 DEF FileInv, CallKnows, Opened, Transacting, Sweep, Stage, Fill
<1>6. WriterReady(p)' /\ Cause(p)'
  BY <1>0, <1>2
  DEF FileInv, WriterReady, Cause, Sweep, Stage, Fill, historyVars, Working, Guarded
<1> QED BY <1>2, <1>4, <1>5, <1>6, StillKeeps

(* Whoever sees an entry, or makes one, opens it.                            *)
LEMMA SeenKeeps ==
    ASSUME FileInv, NEW p \in Procs, pc[p] \in {"look", "drop"},
           NEW step \in {"open", "stage"}, NEW c \in Calls,
           c = IF step = "open" THEN [call[p] EXCEPT !.id = entry] ELSE call[p],
           IF step = "open" THEN entry # 0 ELSE pc[p] = "look" /\ c.op = "initialize",
           Go(p, step, c), temp' \in {temp, WithoutTemp(p)},
           guard' = IF step = "open" THEN Freed(guard, p) ELSE guard,
           UNCHANGED <<entry, backup, fileVars, backupGuard, reserved, historyVars, troubles>>
    PROVE  FileInv'
<1>0. /\ call[p] \in Calls /\ call[p].op \in {"initialize", "write"} /\ guard = p
      /\ p # Nobody /\ ~call[p].backed
  BY FileAssumption DEF FileInv, CallsTyped, HoldsLocks, CallKnows, Working, Guarded
<1>1. /\ c.op = call[p].op /\ c.id \in {call[p].id, entry} /\ ~c.backed
      /\ c.error = call[p].error /\ c.torn = call[p].torn
      /\ step = "open" => c.id = entry
  BY <1>0 DEF Calls
<1>2. LeavesLocks(p)
  <2>1. guard' \in {guard, Nobody} /\ backupGuard' = backupGuard /\ reserved' = reserved
    BY DEF Freed
  <2> QED BY <1>0, <2>1, FileAssumption DEF FileInv, LocksTyped, LeavesLocks
<1>3. Still(p) /\ pc'[p] = step /\ call'[p] = c
  BY <1>0, <1>1, <1>2, GoesOn, Left DEF Places, Working, Guarded, fileVars, historyVars
<1>4. backupGuard' # p /\ \A id \in Ids : reserved'[id] # p
  BY DEF FileInv, HoldsLocks
<1>5. HoldsLocks(p)'
  BY <1>0, <1>3, <1>4 DEF HoldsLocks, Guarded, Freed
<1>6. CallKnows(p)'
  BY <1>1, <1>3, <1>4 DEF CallKnows, Opened, Transacting
<1>7. WriterReady(p)' /\ Cause(p)'
  BY <1>0, <1>1, <1>3 DEF FileInv, WriterReady, Cause, historyVars, Working, Guarded
<1> QED BY <1>3, <1>5, <1>6, <1>7, StillKeeps

LEMMA LookKeeps ==
    ASSUME FileInv, NEW p \in Procs, Look(p)
    PROVE  FileInv'
<1>0. /\ call[p] \in Calls /\ pc[p] = "look"
      /\ [call[p] EXCEPT !.id = entry] \in Calls
  BY DEF FileInv, FilesTyped, CallsTyped, Calls, Look
<1>1. CASE entry # 0 /\ Go(p, "open", [call[p] EXCEPT !.id = entry])
           /\ guard' = Freed(guard, p)
           /\ UNCHANGED <<dirVars, fileVars, backupGuard, reserved, historyVars, troubles>>
  BY <1>0, <1>1, SeenKeeps DEF dirVars
<1>2. CASE call[p].op = "initialize" /\ Go(p, "stage", call[p])
           /\ UNCHANGED <<dirVars, fileVars, lockVars, historyVars, troubles>>
  BY <1>0, <1>2, SeenKeeps DEF dirVars, lockVars
<1>3. CASE entry = 0 /\ call[p].op = "write" /\ Fail(p, "missing") /\ UNCHANGED troubles
  <2>1. replaced
    BY <1>0, <1>3 DEF FileInv, WriterReady, LedgerStays, Working, Guarded, HistoriesTyped
  <2>2. troubles' \in 0..MaxTroubles /\ troubles' >= troubles
    BY <1>3, FileAssumption DEF FileInv, HistoriesTyped
  <2> QED BY <1>3, <2>1, <2>2, FailKeeps DEF Fail, Failed, fileVars, Errors
<1> QED BY <1>1, <1>2, <1>3 DEF Look

LEMMA DropTempKeeps ==
    ASSUME FileInv, NEW p \in Procs, DropTemp(p)
    PROVE  FileInv'
<1>0. /\ pc[p] = "drop" /\ [call[p] EXCEPT !.id = entry] \in Calls
      /\ WithoutTemp(p) = [temp EXCEPT ![p] = NoFile]
  BY DEF FileInv, FilesTyped, CallsTyped, Calls, DropTemp, WithoutTemp
<1>1. CASE entry = 0
  <2>1. replaced /\ troubles' \in 0..MaxTroubles /\ troubles' >= troubles
    BY <1>0, <1>1, FileAssumption DEF FileInv, LedgerStays, HistoriesTyped, DropTemp
  <2> QED BY <1>1, <2>1, FailKeeps DEF DropTemp, Fail, Failed, fileVars, Errors
<1>2. CASE entry # 0
  BY <1>0, <1>2, SeenKeeps DEF DropTemp
<1> QED BY <1>1, <1>2

-----------------------------------------------------------------------------
(* The failures.                                                             *)

(* The errors that accuse nobody.                                            *)
LEMMA TroubleKeeps ==
    ASSUME FileInv, NEW p \in Procs, NEW error \in {"io", "busy", "future"}, Fail(p, error),
           UNCHANGED troubles \/ Trouble
    PROVE  FileInv'
<1>1. troubles' \in 0..MaxTroubles /\ troubles' >= troubles
  BY FileAssumption DEF FileInv, HistoriesTyped, Trouble
<1> QED BY <1>1, FailKeeps DEF Fail, Failed, fileVars, Errors

(* The inode a call opened is under the name until somebody replaces it.     *)
LEMMA IdentityKeeps ==
    ASSUME FileInv, NEW p \in Procs, pc[p] \in Opened, ~Same(p), Fail(p, "identity"),
           UNCHANGED troubles
    PROVE  FileInv'
<1>1. replaced
  BY DEF FileInv, CallKnows, LedgerStays, Same, HistoriesTyped
<1>2. troubles' \in 0..MaxTroubles /\ troubles' >= troubles
  BY FileAssumption DEF FileInv, HistoriesTyped
<1> QED BY <1>1, <1>2, FailKeeps DEF Fail, Failed, fileVars, Errors

LEMMA StumbleKeeps ==
    ASSUME FileInv, NEW p \in Procs, Stumble(p) \/ Busy(p)
    PROVE  FileInv'
BY TroubleKeeps DEF Stumble, Busy

-----------------------------------------------------------------------------
(* The connection.                                                           *)

(* A step that changes nothing but what the call knows.                      *)
LEMMA QuietKeeps ==
    ASSUME FileInv, NEW p \in Procs, pc[p] \in {"open", "connect", "probe", "rows"},
           NEW step \in {"connect", "probe", "rows", "begin"}, NEW c \in Calls,
           Go(p, step, c), c.id = call[p].id, c.op = call[p].op, c.backed = call[p].backed,
           c.error = call[p].error,
           step = "connect" =>
              IF c.token = Nobody THEN c.torn \/ file[c.id].token = Nobody
              ELSE file[c.id].token = c.token \/ file[c.id].applied > 0,
           hot' \subseteq hot,
           UNCHANGED <<dirVars, file, lockVars, historyVars, troubles>>
    PROVE  FileInv'
<1>1. /\ call[p].op \in {"initialize", "write"} /\ ~call[p].backed /\ call[p].id # 0
      /\ call[p].error = Nobody
  BY DEF FileInv, CallsTyped, CallKnows, Cause, Opened, Working, Guarded
<1>2. Still(p) /\ pc'[p] = step /\ call'[p] = c
  BY <1>1, GoesOn, Left DEF Places, Working, Guarded, dirVars, historyVars
<1>3. guard' # p /\ backupGuard' # p /\ \A id \in Ids : reserved'[id] # p
  BY DEF FileInv, HoldsLocks, lockVars, Guarded
<1>4. HoldsLocks(p)'
  BY <1>2, <1>3 DEF HoldsLocks, Guarded
<1>5. CallKnows(p)'
  BY <1>1, <1>2, <1>3 DEF CallKnows, Transacting
<1>6. WriterReady(p)' /\ Cause(p)'
  BY <1>1, <1>2, FileAssumption
  DEF FileInv, WriterReady, Cause, historyVars, Working, Guarded
<1> QED BY <1>2, <1>4, <1>5, <1>6, StillKeeps

LEMMA OpenKeeps ==
    ASSUME FileInv, NEW p \in Procs, Open(p)
    PROVE  FileInv'
<1> DEFINE id == call[p].id
           token == IF IsImage(id) THEN file[id].token ELSE Nobody
           torn == id \in hot
           c == [call[p] EXCEPT !.token = token, !.torn = torn]
<1>0. /\ call[p] \in Calls /\ pc[p] = "open" /\ id \in Ids
      /\ file[id] \in Contents
  BY DEF FileInv, FilesTyped, CallsTyped, Calls, CallKnows, Opened, Open
<1>1. token \in Ids \cup {Nobody} /\ torn \in BOOLEAN
  BY <1>0 DEF Contents
<1>2. /\ c \in Calls /\ c.id = id /\ c.op = call[p].op /\ c.backed = call[p].backed
      /\ c.error = call[p].error /\ c.token = token /\ c.torn = torn
  <2> HIDE DEF token, torn, id
  <2>1. call[p] \in Calls /\ token \in Ids \cup {Nobody} /\ torn \in BOOLEAN /\ id = call[p].id
    BY <1>0, <1>1 DEF id
  <2> QED BY <2>1 DEF Calls
<1>3. IF token = Nobody THEN torn \/ file[id].token = Nobody
      ELSE file[id].token = token
  BY <1>0 DEF FileInv, TokensFit, IsImage
<1>4. CASE ~Same(p)
  BY <1>0, <1>4, IdentityKeeps DEF Open, Opened
<1>5. CASE Same(p)
  <2>1. /\ Go(p, "connect", c) /\ hot' \subseteq hot
        /\ UNCHANGED <<dirVars, file, lockVars, historyVars, troubles>>
    BY <1>5 DEF Open, fileVars
  <2> HIDE DEF c, token
  <2> QED BY <1>0, <1>2, <1>3, <2>1, QuietKeeps
<1> QED BY <1>4, <1>5

LEMMA ConnectKeeps ==
    ASSUME FileInv, NEW p \in Procs, Connect(p)
    PROVE  FileInv'
<1> DEFINE c == call[p]
<1>0. /\ c \in Calls /\ pc[p] = "connect" /\ c.id \in Used /\ c.id \in Ids /\ ~c.backed
      /\ file[c.id] \in Contents
  BY DEF FileInv, FilesTyped, CallsTyped, Calls, CallKnows, InodesSuffice, Opened, Connect,
         Used
<1>1. CASE ~Same(p)
  BY <1>0, <1>1, IdentityKeeps DEF Connect, Opened
<1>2. CASE Same(p) /\ (~file[c.id].whole \/ Refuses(c))
  <2>1. ~file[c.id].whole => crossed
    BY <1>0 DEF FileInv, AllWhole, HistoriesTyped
  <2>2. Refuses(c) => c.torn
    <3>1. file[c.id].applied = 0 => ~(file[c.id].applied > 0)
      BY <1>0 DEF Contents
    <3> QED BY <1>0, <3>1 DEF Refuses, FileInv, CallKnows
  <2>3. troubles' \in 0..MaxTroubles /\ troubles' >= troubles
    BY FileAssumption DEF FileInv, HistoriesTyped, Connect
  <2>4. WithoutTemp(p) = temp /\ WithoutBackup(p) = backup
    BY <1>0 DEF WithoutTemp, WithoutBackup
  <2>5. /\ Unlock(p) /\ temp' = temp /\ backup' = backup /\ hot' \subseteq hot
        /\ UNCHANGED <<entry, file, historyVars>>
    BY <1>2 DEF Connect, dirVars
  <2>6. CASE file[c.id].whole
    <3>1. Go(p, "failed", Failed(p, "token"))
      <4>1. [NoCall EXCEPT !.torn = c.torn, !.error = "token"] = Failed(p, "token")
        BY DEF NoCall, Failed
      <4> QED BY <1>2, <2>6, <4>1 DEF Connect
    <3> QED BY <1>2, <2>2, <2>3, <2>4, <2>5, <2>6, <3>1, FailKeeps DEF Errors
  <2>7. CASE ~file[c.id].whole
    <3>1. Go(p, "failed", Failed(p, "malformed"))
      <4>1. [NoCall EXCEPT !.torn = c.torn, !.error = "malformed"] = Failed(p, "malformed")
        BY DEF NoCall, Failed
      <4> QED BY <1>2, <2>7, <4>1 DEF Connect
    <3> QED BY <2>1, <2>3, <2>4, <2>5, <2>7, <3>1, FailKeeps DEF Errors
  <2> QED BY <2>6, <2>7
<1>3. CASE Same(p) /\ ~(~file[c.id].whole \/ Refuses(c))
  BY <1>0, <1>3, QuietKeeps DEF Connect
<1> QED BY <1>1, <1>2, <1>3

LEMMA ProbeKeeps ==
    ASSUME FileInv, NEW p \in Procs, Probe(p) \/ Rows(p)
    PROVE  FileInv'
<1>0. call[p] \in Calls /\ pc[p] \in {"probe", "rows"}
  BY DEF FileInv, CallsTyped, Probe, Rows
<1>1. CASE ~Same(p)
  BY <1>0, <1>1, IdentityKeeps DEF Probe, Rows, Opened
<1>2. CASE Fail(p, "future") /\ UNCHANGED troubles
  BY <1>2, TroubleKeeps
<1>3. CASE Same(p) /\ ~(Fail(p, "future") /\ UNCHANGED troubles)
  BY <1>0, <1>3, QuietKeeps DEF Probe, Rows, fileVars
<1> QED BY <1>1, <1>2, <1>3

-----------------------------------------------------------------------------
(* The transaction.                                                          *)

(* What BEGIN read and holds.                                                *)
LEMMA BeginKeeps ==
    ASSUME FileInv, NEW p \in Procs, Begin(p)
    PROVE  FileInv'
<1> DEFINE id == call[p].id
           base == file[id]
           step == Work(p, base)
           c == [call[p] EXCEPT !.base = base]
<1>0. /\ call[p] \in Calls /\ pc[p] = "begin" /\ id \in Used /\ id \in Ids
      /\ ~call[p].backed /\ call[p].op \in {"initialize", "write"}
      /\ call[p].error = Nobody /\ base \in Contents /\ p # Nobody
      /\ troubles' \in 0..MaxTroubles /\ troubles' >= troubles
  <2>1. /\ call[p] \in Calls /\ pc[p] = "begin" /\ id \in Used /\ id \in Ids
        /\ ~call[p].backed
    BY DEF FileInv, CallsTyped, Calls, CallKnows, InodesSuffice, Opened, Begin, Used
  <2>2. call[p].op \in {"initialize", "write"} /\ call[p].error = Nobody /\ base \in Contents
    BY <2>1 DEF FileInv, FilesTyped, CallsTyped, Cause, Working, Guarded
  <2>3. p # Nobody /\ troubles' \in 0..MaxTroubles /\ troubles' >= troubles
    BY FileAssumption DEF FileInv, HistoriesTyped, Begin
  <2> QED BY <2>1, <2>2, <2>3
<1>1. CASE ~base.whole
  <2>1. crossed
    BY <1>0, <1>1 DEF FileInv, AllWhole, HistoriesTyped
  <2> QED BY <1>0, <1>1, <2>1, FailKeeps DEF Begin, Fail, Failed, fileVars, Errors
<1>2. CASE Fail(p, "future") /\ UNCHANGED troubles
  BY <1>2, TroubleKeeps
<1>3. CASE Fail(p, "missing") /\ call[p].op = "write" /\ base.applied = 0
  <2>1. ~(base.applied > 0)
    BY <1>0, <1>3 DEF Contents
  <2>2. replaced
    BY <1>0, <1>3, <2>1, IdsAreNumbers
    DEF FileInv, WriterReady, LedgerStays, Working, Guarded, HistoriesTyped
  <2> QED BY <1>0, <1>3, <2>2, FailKeeps DEF Fail, Failed, fileVars, Errors
<1>4. CASE /\ base.whole /\ ~(call[p].op = "initialize" /\ Future(p))
           /\ ~(call[p].op = "write" /\ base.applied = 0)
           /\ Go(p, step, c) /\ reserved[id] = Nobody
           /\ reserved' = [reserved EXCEPT ![id] = p]
           /\ UNCHANGED <<dirVars, fileVars, guard, backupGuard, historyVars, troubles>>
  <2>1. /\ c \in Calls /\ c.id = id /\ c.op = call[p].op /\ c.backed = call[p].backed
        /\ c.error = Nobody /\ c.base = base
    BY <1>0 DEF Calls
  <2>2. LeavesLocks(p)
    BY <1>0, <1>4, FileAssumption DEF FileInv, LocksTyped, LeavesLocks
  <2>3. /\ step \in {"backup_lock", "commit"}
        /\ step = "backup_lock" =>
              call[p].op = "initialize" /\ (base.foreign \/ base.applied > 0)
    BY DEF Work
  <2>4. IF call[p].op = "initialize" THEN base.applied <= release[p] ELSE base.applied > 0
    BY <1>0, <1>4 DEF Contents, Future, FileInv, HistoriesTyped
  <2> HIDE DEF c, step
  <2>5. Still(p) /\ pc'[p] = step /\ call'[p] = c
    BY <1>0, <1>4, <2>1, <2>2, <2>3, GoesOn, Left
    DEF Places, Working, Guarded, dirVars, fileVars, historyVars
  <2>6. guard' # p /\ backupGuard' # p /\ \A i \in Ids : reserved'[i] = p <=> i = id
    BY <1>0, <1>4 DEF FileInv, HoldsLocks, LocksTyped, Guarded
  <2>7. HoldsLocks(p)'
    BY <1>0, <2>1, <2>3, <2>5, <2>6 DEF HoldsLocks, Guarded
  <2>8. CallKnows(p)'
    <3>1. release' = release /\ file' = file
      BY <2>5 DEF Still
    <3>2. id # 0
      BY <1>0, IdsAreNumbers
    <3> QED BY <1>0, <1>4, <2>1, <2>3, <2>4, <2>5, <2>6, <3>1, <3>2
            DEF CallKnows, Opened, Transacting
  <2>9. WriterReady(p)' /\ Cause(p)'
    BY <1>0, <1>4, <2>1, <2>3, <2>5, FileAssumption
    DEF FileInv, WriterReady, Cause, historyVars, Working, Guarded
  <2> QED BY <2>5, <2>7, <2>8, <2>9, StillKeeps
<1> QED BY <1>1, <1>2, <1>3, <1>4 DEF Begin

(* The backup is taken under the lock of the transaction, and lets it go.    *)
LEMMA BackupKeeps ==
    ASSUME FileInv, NEW p \in Procs, EnterBackup(p) \/ Publish(p)
    PROVE  FileInv'
<1> DEFINE id == call[p].id
           step == IF pc[p] = "publish" THEN "commit" ELSE "publish"
           c == IF pc[p] = "publish" THEN [call[p] EXCEPT !.backed = TRUE] ELSE call[p]
<1>0. /\ call[p] \in Calls /\ pc[p] \in {"backup_lock", "publish"} /\ id \in Ids
      /\ call[p].op = "initialize" /\ call[p].error = Nobody /\ file[id] \in Contents
      /\ reserved[id] = p /\ file[id] = call[p].base /\ ~call[p].backed /\ p # Nobody
  <2>1. /\ call[p] \in Calls /\ pc[p] \in {"backup_lock", "publish"} /\ id \in Ids
        /\ call[p].op = "initialize" /\ ~call[p].backed
    BY DEF FileInv, CallsTyped, Calls, CallKnows, Opened, EnterBackup, Publish
  <2> QED BY <2>1, FileAssumption
          DEF FileInv, FilesTyped, HoldsLocks, CallKnows, Cause
<1>1. CASE ~Same(p)
  BY <1>0, <1>1, IdentityKeeps DEF EnterBackup, Publish, Opened
<1>2. CASE Same(p)
  <2>1. /\ c \in Calls /\ c.id = id /\ c.op = call[p].op /\ c.base = call[p].base
        /\ c.error = Nobody /\ c.backed = (pc[p] = "publish") /\ Go(p, step, c)
    BY <1>0, <1>2 DEF Calls, EnterBackup, Publish
  <2>2. LeavesLocks(p)
    <3>1. CASE EnterBackup(p)
      BY <1>0, <1>2, <3>1, FileAssumption DEF FileInv, LocksTyped, LeavesLocks, EnterBackup
    <3>2. CASE Publish(p)
      BY <1>0, <1>2, <3>2, FileAssumption
      DEF FileInv, LocksTyped, LeavesLocks, Publish, Freed
    <3> QED BY <3>1, <3>2
  <2>3. LeavesBackups(p)
    BY <1>0, <1>2 DEF FileInv, FilesTyped, LeavesBackups, EnterBackup, Publish, dirVars
  <2>4. step \in {"publish", "commit"} /\ (step = "publish" <=> pc[p] = "backup_lock")
    BY <1>0
  <2> HIDE DEF c, step
  <2>5. Still(p) /\ pc'[p] = step /\ call'[p] = c
    BY <1>0, <1>2, <2>1, <2>2, <2>3, <2>4, GoesOn, Left
    DEF EnterBackup, Publish, Places, Working, Guarded, dirVars, fileVars, historyVars
  <2>6. /\ guard' # p /\ (backupGuard' = p <=> step = "publish")
        /\ \A i \in Ids : reserved'[i] = p => i = id
        /\ step = "publish" => reserved'[id] = p
    BY <1>0, <1>2, <2>4
    DEF FileInv, HoldsLocks, LocksTyped, Guarded, EnterBackup, Publish, Freed
  <2>7. HoldsLocks(p)'
    BY <1>0, <2>1, <2>4, <2>5, <2>6 DEF HoldsLocks, Guarded
  <2>8. CallKnows(p)'
    <3>1. /\ release' = release /\ file' = file /\ crossed' = crossed
          /\ step = "commit" => backup'[p] = call[p].base
      BY <1>0, <1>2, <2>4, <2>5 DEF Still, FileInv, FilesTyped, Publish, EnterBackup
    <3>2. /\ call[p].base.applied <= release[p]
          /\ call[p].base.whole \/ crossed
          /\ call[p].base.foreign \/ call[p].base.applied > 0
          /\ id # 0
      BY <1>0 DEF FileInv, CallKnows, Transacting, Opened
    <3> QED BY <1>0, <2>1, <2>4, <2>5, <2>6, <3>1, <3>2 DEF CallKnows, Opened, Transacting
  <2>9. WriterReady(p)' /\ Cause(p)'
    BY <1>0, <2>1, <2>4, <2>5, FileAssumption DEF WriterReady, Cause
  <2> QED BY <2>5, <2>7, <2>8, <2>9, StillKeeps
<1> QED BY <1>1, <1>2

(* A call that ends well found the inode it committed to under the name.     *)
LEMMA CheckKeeps ==
    ASSUME FileInv, NEW p \in Procs, Check(p)
    PROVE  FileInv'
<1>0. /\ call[p] \in Calls /\ pc[p] = "check" /\ call[p].id # 0 /\ call[p].error = Nobody
      /\ file[call[p].id].applied > 0
      /\ call[p].op = "write" => crossed \/ p \in file[call[p].id].marks
  BY DEF FileInv, CallsTyped, CallKnows, Cause, Opened, Check
<1>1. CASE ~Same(p)
  BY <1>0, <1>1, IdentityKeeps DEF Check, Opened
<1>2. CASE Same(p)
  <2>1. Succeeds(p)
    BY <1>0, <1>2 DEF FileInv, HistoriesTyped, Succeeds, Check, Same, Marks
  <2>2. Still(p) /\ pc'[p] = "done" /\ call'[p] = call[p]
    BY <1>0, <1>2, <2>1, GoesOn, Left
    DEF Check, Places, Working, Guarded, dirVars, fileVars
  <2>3. guard' # p /\ backupGuard' # p /\ \A id \in Ids : reserved'[id] # p
    BY <1>0, <1>2 DEF FileInv, HoldsLocks, lockVars, Guarded, Check
  <2>4. HoldsLocks(p)'
    BY <2>2, <2>3 DEF HoldsLocks, Guarded
  <2>5. CallKnows(p)'
    BY <1>0, <1>2, <2>2, <2>3
    DEF FileInv, CallKnows, Opened, Transacting, Check, dirVars, fileVars
  <2>6. WriterReady(p)' /\ Cause(p)'
    BY <1>0, <2>2, FileAssumption DEF WriterReady, Cause, Working, Guarded
  <2> QED BY <2>2, <2>4, <2>5, <2>6, StillKeeps
<1> QED BY <1>1, <1>2

-----------------------------------------------------------------------------
(* The steps that change the ledger.                                         *)

(* A new file is none that a call knows of.                                  *)
Creates(content) ==
    /\ entry' = NewId
    /\ file' = [file EXCEPT ![NewId] = content]

LEMMA NewFile ==
    ASSUME FileInv, NEW content \in Contents, content # Blank, Creates(content),
           entry = 0 \/ troubles < MaxTroubles
    PROVE  /\ NewId \in Ids /\ NewId # 0 /\ entry' \in Used'
           /\ file' \in [Ids -> Contents] /\ file'[NewId] = content
           /\ \A id \in Ids \ {NewId} : file'[id] = file[id]
           /\ \A q \in Procs : call[q].id # NewId
           /\ \A q \in Procs : call[q].id \in Used' \cup {0}
           /\ Used' = Used \cup {NewId}
           /\ Cardinality(Used') = Cardinality(Used) + 1 /\ Cardinality(Used) \in Nat
<1>1. /\ NewId \in Ids /\ file[NewId] = Blank
      /\ \A q \in Procs : call[q].id # NewId
  BY InodeLeft DEF FileInv
<1>2. Used' = Used \cup {NewId} /\ Cardinality(Used') = Cardinality(Used) + 1
  BY <1>1, InodeTaken DEF FileInv, Creates
<1>3. Cardinality(Used) \in Nat
  BY IdsAreNumbers, FS_Subset, FS_CardinalityType DEF Used
<1>4. NewId # 0
  BY <1>1, IdsAreNumbers
<1>5. \A q \in Procs : call[q].id \in Used' \cup {0}
  BY <1>2 DEF FileInv, InodesSuffice
<1> QED BY <1>1, <1>2, <1>3, <1>4, <1>5 DEF FileInv, FilesTyped, Creates

(* So a call that goes on unchanged still knows what it knew.                *)
LEMMA NewFileKnown ==
    ASSUME FileInv, NEW content \in Contents, content # Blank, Creates(content),
           entry = 0 \/ troubles < MaxTroubles, NEW q \in Procs,
           pc'[q] = pc[q], call'[q] = call[q], temp'[q] = temp[q], backup'[q] = backup[q],
           reserved' = reserved, UNCHANGED <<release, crossed>>
    PROVE  CallKnows(q)'
<1>1. pc[q] \in Opened => call[q].id \in Ids \ {NewId}
  BY NewFile DEF FileInv, CallKnows, CallsTyped, Calls
<1>2. pc[q] \in Opened => file'[call[q].id] = file[call[q].id]
  BY <1>1, NewFile
<1>3. \A id \in Ids : reserved[id] = q => id # NewId /\ file'[id] = file[id]
  BY NewFile DEF FileInv, HoldsLocks
<1> QED BY <1>2, <1>3 DEF FileInv, CallKnows, Opened

(* The publication of a new ledger.                                          *)
LEMMA LinkKeeps ==
    ASSUME FileInv, NEW p \in Procs, Link(p)
    PROVE  FileInv'
<1>0. /\ call[p] \in Calls /\ pc[p] = "link" /\ call[p].op = "initialize"
      /\ temp[p] = "image" /\ call[p].error = Nobody /\ ~call[p].backed
  BY DEF FileInv, CallsTyped, CallKnows, Cause, Link
<1>1. CASE Fail(p, "lost") /\ temp[p] = NoFile
  BY <1>0, <1>1, FileAssumption
<1>2. CASE /\ temp' = [temp EXCEPT ![p] = NoFile] /\ Go(p, "look", call[p])
           /\ UNCHANGED <<entry, backup, fileVars, lockVars, historyVars, troubles>>
  <2>1. LeavesTemps(p)
    BY <1>2 DEF FileInv, FilesTyped, LeavesTemps
  <2>2. Still(p) /\ pc'[p] = "look" /\ call'[p] = call[p]
    BY <1>0, <1>2, <2>1, GoesOn, Left
    DEF Places, Working, Guarded, fileVars, historyVars
  <2>3. guard' = p /\ backupGuard' # p /\ \A id \in Ids : reserved'[id] # p
    BY <1>0, <1>2 DEF FileInv, HoldsLocks, lockVars, Guarded
  <2>4. HoldsLocks(p)'
    BY <2>2, <2>3 DEF HoldsLocks, Guarded
  <2>5. CallKnows(p)'
    BY <1>0, <2>2, <2>3 DEF CallKnows, Opened, Transacting
  <2>6. WriterReady(p)' /\ Cause(p)'
    BY <1>0, <2>2, FileAssumption DEF WriterReady, Cause
  <2> QED BY <2>2, <2>4, <2>5, <2>6, StillKeeps
<1>3. CASE /\ entry = 0 /\ Creates(Image(NewId)) /\ Go(p, "drop", call[p])
           /\ UNCHANGED <<temp, backup, hot, lockVars, historyVars, troubles>>
  <2> DEFINE content == Image(NewId)
  <2>1. /\ content \in Contents /\ content # Blank /\ content.whole
        /\ content.token = NewId /\ NewId \in Ids
    <3>1. NewId \in Ids
      BY <1>3, InodeLeft DEF FileInv
    <3> QED BY <3>1 DEF Image, Content, Contents, Blank
  <2>2. /\ NewId \in Ids /\ NewId # 0 /\ entry' \in Used'
        /\ file' \in [Ids -> Contents] /\ file'[NewId] = content
        /\ \A id \in Ids \ {NewId} : file'[id] = file[id]
        /\ \A q \in Procs : call[q].id # NewId
        /\ \A q \in Procs : call[q].id \in Used' \cup {0}
        /\ Used' = Used \cup {NewId}
        /\ Cardinality(Used') = Cardinality(Used) + 1 /\ Cardinality(Used) \in Nat
    BY <1>3, <2>1, NewFile
  <2>3. /\ Moves(p) /\ pc'[p] = "drop" /\ call' = call
        /\ \A q \in Procs \ {p} : pc'[q] = pc[q]
    <3>1. Moves(p) /\ pc'[p] = "drop" /\ call'[p] = call[p]
      BY <1>0, <1>3, GoMoves DEF FileInv, Places, Working, Guarded
    <3> QED BY <3>1 DEF Moves, FileInv, CallsTyped
  <2>4. FilesTyped' /\ HistoriesTyped' /\ LocksTyped'
    BY <1>3, <2>2 DEF FileInv, FilesTyped, HistoriesTyped, LocksTyped, Creates, lockVars,
                      historyVars
  <2>5. CallsTyped'
    BY <1>0, <2>3 DEF FileInv, CallsTyped, Moves, Places
  <2>6. InodesSuffice'
    <3>1. Cardinality(Used) + 1 <= troubles + 1 /\ troubles' = troubles
      BY <1>3 DEF FileInv, InodesSuffice
    <3>2. Cardinality(Used)' + (IF entry' = 0 THEN 1 ELSE 0) <= troubles' + 1
      BY <1>3, <2>2, <3>1 DEF Creates
    <3> QED BY <2>2, <2>3, <3>2 DEF InodesSuffice
  <2>7. ASSUME NEW q \in Procs
        PROVE  (HoldsLocks(q) /\ CallKnows(q) /\ WriterReady(q) /\ Cause(q))'
    <3>1. HoldsLocks(q)'
      BY <1>0, <1>3, <2>3 DEF FileInv, HoldsLocks, lockVars, Guarded
    <3>2. CASE q = p
      <4>1. \A id \in Ids : reserved'[id] # p
        BY <1>0, <1>3 DEF FileInv, HoldsLocks, lockVars
      <4>2. CallKnows(p)'
        BY <1>0, <2>3, <4>1 DEF CallKnows, Opened, Transacting
      <4> QED BY <1>0, <2>3, <3>1, <3>2, <4>2, FileAssumption DEF WriterReady, Cause
    <3>3. CASE q # p
      <4>1. CallKnows(q)'
        BY <1>3, <2>1, <2>3, <3>3, NewFileKnown DEF lockVars, historyVars
      <4> QED BY <1>3, <2>3, <3>1, <3>3, <4>1
              DEF FileInv, WriterReady, Cause, historyVars
    <3> QED BY <3>2, <3>3
  <2>8. TokensFit'
    BY <1>3, <2>1, <2>2 DEF FileInv, TokensFit, Image, Content
  <2>9. AllWhole'
    <3>1. \A id \in Used' : id = NewId \/ (id \in Used /\ file'[id] = file[id])
      BY <2>2 DEF Used
    <3> QED BY <1>3, <2>1, <2>2, <3>1 DEF FileInv, AllWhole, historyVars
  <2>10. LedgerStays'
    BY <1>3, <2>2, <2>3 DEF FileInv, LedgerStays, Creates, historyVars
  <2>11. OnlyMigrationsLoseWrites'
    BY <1>3 DEF FileInv, OnlyMigrationsLoseWrites, Marks, historyVars
  <2> QED BY <2>4, <2>5, <2>6, <2>7, <2>8, <2>9, <2>10, <2>11 DEF FileInv
<1> QED BY <1>1, <1>2, <1>3 DEF Link, Creates

(* What other programs put there is well formed, and no bootstrap.           *)
LEMMA ReplaceKeeps ==
    ASSUME FileInv, Replace
    PROVE  FileInv'
<1>0. /\ troubles < MaxTroubles /\ troubles' = troubles + 1
      /\ troubles \in Nat /\ troubles' \in 0..MaxTroubles
  BY FileAssumption DEF FileInv, HistoriesTyped, Replace, Trouble
<1>1. /\ replaced' = TRUE
      /\ UNCHANGED <<temp, backup, hot, lockVars, callVars, release, ready, crossed>>
  BY DEF Replace
<1>2. (\A q \in Procs : HoldsLocks(q) /\ WriterReady(q) /\ Cause(q))'
  <2>1. \A q \in Procs : HoldsLocks(q)'
    BY <1>1 DEF FileInv, HoldsLocks, lockVars, callVars
  <2>2. \A q \in Procs : WriterReady(q)' /\ Cause(q)'
    BY <1>1 DEF FileInv, WriterReady, Cause, callVars
  <2> QED BY <2>1, <2>2
<1>3. CallsTyped' /\ LocksTyped' /\ LedgerStays'
  BY <1>1 DEF FileInv, CallsTyped, LocksTyped, LedgerStays, lockVars, callVars
<1>4. CASE entry # 0 /\ entry' = 0 /\ acks' = {} /\ UNCHANGED file
  <2>1. FilesTyped' /\ HistoriesTyped'
    BY <1>0, <1>1, <1>4 DEF FileInv, FilesTyped, HistoriesTyped
  <2>2. InodesSuffice'
    <3>1. Cardinality(Used) \in Nat /\ Used' = Used
      BY <1>4, IdsAreNumbers, FS_Subset, FS_CardinalityType DEF Used
    <3>2. Cardinality(Used) + (IF entry = 0 THEN 1 ELSE 0) <= troubles + 1
      BY DEF FileInv, InodesSuffice
    <3>3. Cardinality(Used)' + (IF entry' = 0 THEN 1 ELSE 0) <= troubles' + 1
      BY <1>0, <1>4, <3>1, <3>2
    <3> QED BY <1>1, <1>4, <3>1, <3>3 DEF FileInv, InodesSuffice, callVars
  <2>3. \A q \in Procs : CallKnows(q)'
    BY <1>1, <1>4 DEF FileInv, CallKnows, lockVars, callVars
  <2>4. TokensFit' /\ AllWhole'
    BY <1>1, <1>4 DEF FileInv, TokensFit, AllWhole, Used
  <2>5. OnlyMigrationsLoseWrites'
    BY <1>4 DEF OnlyMigrationsLoseWrites
  <2> QED BY <1>2, <1>3, <2>1, <2>2, <2>3, <2>4, <2>5 DEF FileInv
<1>5. ASSUME NEW content \in IF entry = 0 THEN FirstFiles \ {NoFile}
                             ELSE {backup[p] : p \in Procs} \ {NoFile},
             Creates(content), acks' = acks \cap content.marks
      PROVE  FileInv'
  <2>1. /\ content \in Contents /\ content # Blank /\ content.token = Nobody
        /\ crossed \/ content.whole
    <3>1. CASE entry = 0
      <4>1. content \in [whole : {TRUE}, token : {Nobody}, applied : Nat, foreign : BOOLEAN,
                         marks : SUBSET Procs]
        BY <1>5, <3>1, FileAssumption
      <4> QED BY <4>1 DEF Contents, Blank, Content
    <3>2. CASE entry # 0
      <4>1. PICK p \in Procs : content = backup[p] /\ backup[p] # NoFile
        BY <1>5, <3>2
      <4> QED BY <4>1 DEF FileInv, FilesTyped, TokensFit, AllWhole, HistoriesTyped
    <3> QED BY <3>1, <3>2
  <2>2. /\ NewId \in Ids /\ NewId # 0 /\ entry' \in Used'
        /\ file' \in [Ids -> Contents] /\ file'[NewId] = content
        /\ \A id \in Ids \ {NewId} : file'[id] = file[id]
        /\ \A q \in Procs : call[q].id # NewId
        /\ \A q \in Procs : call[q].id \in Used' \cup {0}
        /\ Used' = Used \cup {NewId}
        /\ Cardinality(Used') = Cardinality(Used) + 1 /\ Cardinality(Used) \in Nat
    BY <1>0, <1>5, <2>1, NewFile
  <2>3. FilesTyped' /\ HistoriesTyped'
    BY <1>0, <1>1, <1>5, <2>2 DEF FileInv, FilesTyped, HistoriesTyped, Creates
  <2>4. InodesSuffice'
    <3>1. Cardinality(Used) + (IF entry = 0 THEN 1 ELSE 0) <= troubles + 1
      BY DEF FileInv, InodesSuffice
    <3>2. Cardinality(Used)' + (IF entry' = 0 THEN 1 ELSE 0) <= troubles' + 1
      BY <1>0, <1>5, <2>2, <3>1 DEF Creates
    <3> QED BY <1>1, <2>2, <3>2 DEF InodesSuffice, callVars
  <2>5. ASSUME NEW q \in Procs PROVE CallKnows(q)'
    BY <1>0, <1>1, <1>5, <2>1, NewFileKnown DEF lockVars, callVars
  <2>6. TokensFit'
    BY <1>1, <2>1, <2>2 DEF FileInv, TokensFit
  <2>7. AllWhole'
    <3>1. \A id \in Used' : id = NewId \/ (id \in Used /\ file'[id] = file[id])
      BY <2>2 DEF Used
    <3> QED BY <1>1, <2>1, <2>2, <3>1 DEF FileInv, AllWhole
  <2>8. OnlyMigrationsLoseWrites'
    BY <1>5, <2>2 DEF OnlyMigrationsLoseWrites, Marks, Creates
  <2> QED BY <1>2, <1>3, <2>3, <2>4, <2>5, <2>6, <2>7, <2>8 DEF FileInv
<1> QED BY <1>4, <1>5 DEF Replace, Creates

(* A commit replaces the content of the inode it opened, in use and under    *)
(* the name, and nobody else has the lock.                                   *)
LEMMA CommitKeeps ==
    ASSUME FileInv, NEW p \in Procs, pc[p] = "commit", Same(p), NEW content \in Contents,
           content.applied > 0, content.token = Nobody,
           crossed' \/ (content.whole /\ file[call[p].id].marks \subseteq content.marks),
           reserved[call[p].id] \in {p, Nobody},
           file' = [file EXCEPT ![call[p].id] = content],
           reserved' = [reserved EXCEPT ![call[p].id] = Nobody],
           crossed' \in {crossed, TRUE},
           \/ /\ Go(p, "check", call[p]) /\ backup' = backup
              /\ call[p].op = "write" => crossed' \/ p \in content.marks
           \/ /\ Go(p, "failed", [NoCall EXCEPT !.error = "io"])
              /\ backup' = WithoutBackup(p),
           UNCHANGED <<entry, temp, hot, guard, backupGuard, release, ready, acks, replaced,
                       troubles>>
    PROVE  FileInv'
<1> DEFINE id == call[p].id
<1>0. /\ call[p] \in Calls /\ id \in Ids /\ id \in Used /\ id # 0 /\ entry = id
      /\ call[p].op \in {"initialize", "write"} /\ call[p].error = Nobody
      /\ p # Nobody /\ Nobody \notin Procs
  <2>1. call[p] \in Calls /\ id \in Ids /\ id \in Used /\ id # 0
    BY DEF FileInv, CallsTyped, CallKnows, Calls, InodesSuffice, Opened, Used
  <2> QED BY <2>1, FileAssumption DEF FileInv, CallsTyped, Cause, Working, Guarded, Same
<1>1. /\ file' \in [Ids -> Contents] /\ file'[id] = content
      /\ \A i \in Ids \ {id} : file'[i] = file[i]
  BY <1>0 DEF FileInv, FilesTyped
<1>2. /\ Moves(p) /\ \A q \in Procs \ {p} : pc'[q] = pc[q] /\ call'[q] = call[q]
      /\ \/ /\ pc'[p] = "check" /\ call'[p] = call[p]
            /\ call[p].op = "write" => crossed' \/ p \in content.marks
         \/ /\ pc'[p] = "failed" /\ call'[p].id = 0 /\ call'[p].backed = FALSE
            /\ call'[p].error = "io"
  <2>1. CASE /\ Go(p, "check", call[p])
             /\ call[p].op = "write" => crossed' \/ p \in content.marks
    <3>1. Moves(p) /\ pc'[p] = "check" /\ call'[p] = call[p]
      BY <1>0, <2>1, GoMoves DEF FileInv, Places, Working
    <3> QED BY <2>1, <3>1 DEF Moves, FileInv, CallsTyped
  <2>2. CASE Go(p, "failed", [NoCall EXCEPT !.error = "io"])
    <3> DEFINE c == [NoCall EXCEPT !.error = "io"]
    <3>1. c \in Calls /\ c.id = 0 /\ c.backed = FALSE /\ c.error = "io"
      BY BlankTyped DEF NoCall, Calls, Errors
    <3>2. Go(p, "failed", c)
      BY <2>2
    <3> HIDE DEF c
    <3>3. Moves(p) /\ pc'[p] = "failed" /\ call'[p] = c
      BY <3>1, <3>2, GoMoves DEF FileInv, Places, Working, Guarded
    <3> QED BY <3>1, <3>3 DEF Moves, FileInv, CallsTyped
  <2> QED BY <2>1, <2>2
<1>3. /\ backup' \in [Procs -> Contents \cup {NoFile}]
      /\ \A q \in Procs : backup'[q] \in {backup[q], NoFile}
      /\ \A q \in Procs : q # p \/ pc'[p] = "check" => backup'[q] = backup[q]
  BY <1>2 DEF FileInv, FilesTyped, CallsTyped, WithoutBackup, Go
<1>4. /\ LocksTyped' /\ guard' # p /\ backupGuard' # p
      /\ \A i \in Ids : reserved'[i] # p /\ (reserved'[i] # Nobody => reserved'[i] = reserved[i])
      /\ \A q \in Procs \ {p}, i \in Ids : reserved'[i] = q <=> reserved[i] = q
      /\ \A q \in Procs \ {p} : reserved[id] # q
  BY <1>0 DEF FileInv, LocksTyped, HoldsLocks, Guarded
<1>5. FilesTyped' /\ HistoriesTyped'
  BY <1>1, <1>3 DEF FileInv, FilesTyped, HistoriesTyped
<1>6. CallsTyped'
  BY <1>2 DEF FileInv, CallsTyped, Moves, Places
<1>7. Used' = Used
  <2>1. content # Blank
    <3>1. Blank.applied = 0
      BY DEF Blank, Content
    <3> QED BY <3>1
  <2> QED BY <1>0, <1>1, <2>1 DEF Used
<1>8. InodesSuffice'
  BY <1>2, <1>7 DEF FileInv, InodesSuffice
<1>9. ASSUME NEW q \in Procs
      PROVE  (HoldsLocks(q) /\ CallKnows(q) /\ WriterReady(q) /\ Cause(q))'
  <2>1. CASE q = p
    <3>1. HoldsLocks(p)'
      BY <1>2, <1>4 DEF HoldsLocks, Guarded
    <3>2. CallKnows(p)'
      <4>1. CASE pc'[p] = "check"
        <5>1. /\ call'[p] = call[p] /\ backup'[p] = backup[p]
              /\ call[p].op = "write" => crossed' \/ p \in content.marks
          BY <1>2, <1>3, <4>1
        <5>2. /\ IF call[p].op = "initialize" THEN call[p].base.applied <= release[p]
                 ELSE call[p].base.applied > 0
              /\ call[p].backed => call[p].op = "initialize" /\ backup[p] = call[p].base
          BY DEF FileInv, CallKnows, Transacting
        <5> QED BY <1>0, <1>1, <1>4, <4>1, <5>1, <5>2 DEF CallKnows, Opened, Transacting
      <4>2. CASE pc'[p] = "failed"
        BY <1>2, <1>4, <4>2 DEF CallKnows, Opened, Transacting
      <4> QED BY <1>2, <4>1, <4>2
    <3>3. WriterReady(p)' /\ Cause(p)'
      BY <1>0, <1>2, FileAssumption DEF FileInv, WriterReady, Cause, Working, Guarded
    <3> QED BY <2>1, <3>1, <3>2, <3>3
  <2>2. CASE q # p
    <3>0. pc'[q] = pc[q] /\ call'[q] = call[q] /\ backup'[q] = backup[q]
      BY <1>2, <1>3, <2>2
    <3>1. HoldsLocks(q)'
      <4>1. pc[q] \in {"backup_lock", "publish", "commit"} => call[q].id \in Ids
        BY DEF FileInv, CallsTyped, Calls, CallKnows, Opened
      <4> QED BY <1>4, <2>2, <3>0, <4>1 DEF FileInv, HoldsLocks
    <3>2. \A i \in Ids : reserved'[i] = q => file'[i] = call[q].base
      BY <1>1, <1>4, <2>2 DEF FileInv, CallKnows
    <3>3. pc[q] \in {"connect", "check"} =>
             \/ file'[call[q].id] = file[call[q].id]
             \/ call[q].id = id /\ file'[call[q].id] = content
      <4>1. pc[q] \in {"connect", "check"} => call[q].id \in Ids
        BY DEF FileInv, CallsTyped, Calls, CallKnows, Opened
      <4> QED BY <1>1, <4>1
    <3>4. pc[q] = "check" => file'[call[q].id].applied > 0
      BY <3>3 DEF FileInv, CallKnows
    <3>5. pc[q] = "check" /\ call[q].op = "write" /\ ~crossed' => q \in file'[call[q].id].marks
      <4>1. ~crossed' => ~crossed /\ file[id].marks \subseteq content.marks
        OBVIOUS
      <4>2. pc[q] = "check" /\ call[q].op = "write" /\ ~crossed => q \in file[call[q].id].marks
        BY DEF FileInv, CallKnows
      <4> QED BY <3>3, <4>1, <4>2
    <3>6. pc[q] = "connect" /\ call[q].token = Nobody =>
             call[q].torn \/ file'[call[q].id].token = Nobody
      BY <3>3 DEF FileInv, CallKnows
    <3>7. pc[q] = "connect" /\ call[q].token # Nobody =>
             file'[call[q].id].token = call[q].token \/ file'[call[q].id].applied > 0
      BY <3>3 DEF FileInv, CallKnows
    <3>8. crossed => crossed'
      OBVIOUS
    <3>9. CallKnows(q)'
      <4> DEFINE base == call[q].base
      <4>1. /\ pc'[q] \in Opened => call'[q].id # 0
            /\ pc'[q] \in Transacting =>
                  IF call'[q].op = "initialize" THEN base.applied <= release[q]
                  ELSE base.applied > 0
            /\ pc'[q] \in {"backup_lock", "publish"} =>
                  call'[q].op = "initialize" /\ (base.foreign \/ base.applied > 0)
        BY <3>0 DEF FileInv, CallKnows
      <4>2. /\ pc'[q] \in {"backup_lock", "publish", "commit"} => base.whole \/ crossed'
            /\ call'[q].backed =>
                  /\ pc'[q] \in {"commit", "check", "done"} /\ call'[q].op = "initialize"
                  /\ backup'[q] = base
        BY <3>0, <3>8 DEF FileInv, CallKnows
      <4>3. /\ pc'[q] = "link" => temp'[q] = "image"
            /\ pc'[q] \in {"stage", "fill", "link", "drop"} => call'[q].op = "initialize"
        BY <3>0 DEF FileInv, CallKnows
      <4> QED BY <3>0, <3>2, <3>4, <3>5, <3>6, <3>7, <4>1, <4>2, <4>3 DEF CallKnows
    <3>10. WriterReady(q)'
      BY <3>0 DEF FileInv, WriterReady
    <3>11. Cause(q)'
      BY <3>0, <3>8 DEF FileInv, Cause
    <3> QED BY <3>1, <3>9, <3>10, <3>11
  <2> QED BY <2>1, <2>2
<1>10. TokensFit'
  BY <1>0, <1>1, <1>3 DEF FileInv, TokensFit, Image
<1>11. AllWhole'
  BY <1>1, <1>3, <1>7 DEF FileInv, AllWhole, Used
<1>12. LedgerStays'
  BY <1>0, <1>1, <1>2 DEF FileInv, LedgerStays
<1>13. OnlyMigrationsLoseWrites'
  BY <1>0, <1>1 DEF FileInv, OnlyMigrationsLoseWrites, Marks
<1> QED BY <1>4, <1>5, <1>6, <1>8, <1>9, <1>10, <1>11, <1>12, <1>13 DEF FileInv

(* What a transaction makes of the content it read.                          *)
LEMMA ResultIs ==
    ASSUME FileInv, NEW p \in Procs, pc[p] = "commit",
           NEW mine, mine = Result(p, call[p].base)
    PROVE  /\ mine \in Contents /\ mine.applied > 0
           /\ call[p].op = "initialize" => mine.token = Nobody
           /\ call[p].op = "write" => p \in mine.marks /\ mine.token = call[p].base.token
           /\ mine.whole = call[p].base.whole
           /\ call[p].base.marks \subseteq mine.marks
<1>1. PICK base \in Contents : base = call[p].base
  BY DEF FileInv, CallsTyped, Calls
<1>2. /\ release[p] \in Nat \ {0} /\ call[p].op \in {"initialize", "write"}
      /\ call[p].op = "write" => base.applied > 0
  BY <1>1 DEF FileInv, CallsTyped, HistoriesTyped, CallKnows, Transacting, Working, Guarded
<1>3. CASE call[p].op = "write"
  <2>1. mine = [base EXCEPT !.marks = @ \cup {p}]
    BY <1>1, <1>3 DEF Result
  <2>2. base.marks \cup {p} \in SUBSET Procs
    BY DEF Contents
  <2>3. mine \in Contents
    BY <2>1, <2>2 DEF Contents
  <2>4. /\ mine.marks = base.marks \cup {p} /\ mine.token = base.token
        /\ mine.whole = base.whole /\ mine.applied = base.applied
    BY <2>1 DEF Contents
  <2> QED BY <1>1, <1>2, <1>3, <2>3, <2>4
<1>4. CASE call[p].op = "initialize"
  <2>1. PICK dropped \in Contents : dropped = Dropped(base)
    BY DEF Contents, Dropped
  <2>2. /\ dropped.token = Nobody /\ dropped.applied = base.applied
        /\ dropped.whole = base.whole /\ dropped.marks = base.marks
    BY <2>1 DEF Contents, Dropped
  <2>3. PICK n \in Nat : /\ n = IF base.applied < release[p] THEN release[p] ELSE base.applied
                         /\ n > 0
    BY <1>2 DEF Contents
  <2>4. mine = [dropped EXCEPT !.applied = n]
    BY <1>1, <1>4, <2>1, <2>2, <2>3 DEF Result, Migrated
  <2>5. mine \in Contents
    BY <2>4 DEF Contents
  <2>6. /\ mine.token = Nobody /\ mine.applied = n /\ mine.whole = base.whole
        /\ mine.marks = base.marks
    BY <2>2, <2>4 DEF Contents
  <2> QED BY <1>1, <1>4, <2>3, <2>5, <2>6
<1> QED BY <1>2, <1>3, <1>4

LEMMA CommitStepKeeps ==
    ASSUME FileInv, NEW p \in Procs, Commit(p)
    PROVE  FileInv'
<1> DEFINE id == call[p].id
           base == call[p].base
           mine == Result(p, base)
<1>0. /\ pc[p] = "commit" /\ id \in Ids /\ file[id] \in Contents /\ p # Nobody
      /\ call[p].op \in {"initialize", "write"} /\ base \in Contents
      /\ base.whole \/ crossed
      /\ call[p].op = "write" => base.applied > 0 /\ reserved[id] = p
  <2>1. /\ pc[p] = "commit" /\ id \in Ids /\ call[p].op \in {"initialize", "write"}
        /\ base \in Contents /\ (base.whole \/ crossed)
        /\ call[p].op = "write" => base.applied > 0 /\ ~call[p].backed
    BY DEF FileInv, CallsTyped, CallKnows, Calls, Opened, Transacting, Working, Guarded, Commit
  <2>2. file[id] \in Contents /\ p # Nobody
    BY <2>1, FileAssumption DEF FileInv, FilesTyped
  <2>3. ~call[p].backed => reserved[id] = p
    BY <2>1 DEF FileInv, HoldsLocks
  <2> QED BY <2>1, <2>2, <2>3
<1>1. /\ mine \in Contents /\ mine.applied > 0
      /\ call[p].op = "initialize" => mine.token = Nobody
      /\ call[p].op = "write" => p \in mine.marks /\ mine.token = base.token
      /\ mine.whole = base.whole
      /\ base.marks \subseteq mine.marks
  BY <1>0, ResultIs
<1>2. CASE ~Same(p) /\ Fail(p, "identity") /\ UNCHANGED troubles
  BY <1>0, <1>2, IdentityKeeps DEF Opened
<1>3. CASE Fail(p, "busy") /\ UNCHANGED troubles
  BY <1>3, TroubleKeeps
<1>4. CASE Same(p) /\ CommitCleanly(p) /\ UNCHANGED troubles
  <2>1. file[id] = base
    BY <1>0, <1>4 DEF CommitCleanly, FileInv, CallKnows
  <2>2. mine.token = Nobody
    <3>1. Image(id).applied = 0
      BY DEF Image, Content
    <3>2. base.applied > 0 => base.token = Nobody
      BY <1>0, <2>1, <3>1 DEF FileInv, TokensFit
    <3> QED BY <1>0, <1>1, <3>2
  <2>3. crossed' = crossed /\ (crossed' \/ (mine.whole /\ file[id].marks \subseteq mine.marks))
    BY <1>0, <1>1, <1>4, <2>1 DEF CommitCleanly, historyVars
  <2> HIDE DEF mine
  <2> QED BY <1>0, <1>1, <1>4, <2>2, <2>3, CommitKeeps
          DEF CommitCleanly, historyVars, dirVars, mine
<1>5. CASE Same(p) /\ CommitOverOthers(p) /\ UNCHANGED troubles
  <2>0. call[p].op = "initialize" /\ mine.token = Nobody
    BY <1>0, <1>1, <1>5 DEF CommitOverOthers
  <2> DEFINE joined == [mine EXCEPT !.marks = @ \cup file[id].marks]
             broken == [mine EXCEPT !.whole = FALSE]
  <2>1. PICK content \in {mine, joined, broken} : file' = [file EXCEPT ![id] = content]
    BY <1>5 DEF CommitOverOthers
  <2>2. content \in Contents /\ content.applied > 0 /\ content.token = Nobody
    <3>1. file[id].marks \in SUBSET Procs
      BY <1>0 DEF Contents
    <3> HIDE DEF mine
    <3> QED BY <1>1, <2>0, <2>1, <3>1 DEF Contents
  <2>3. reserved' = [reserved EXCEPT ![id] = Nobody]
    BY <1>0, <1>5 DEF CommitOverOthers, lockVars, FileInv, LocksTyped
  <2>4. /\ crossed' = TRUE /\ reserved[id] = Nobody
        /\ \/ Go(p, "check", call[p]) /\ backup' = backup
           \/ /\ Go(p, "failed", [NoCall EXCEPT !.error = "io"])
              /\ backup' = WithoutBackup(p)
        /\ UNCHANGED <<entry, temp, hot, guard, backupGuard, release, ready, acks, replaced,
                       troubles>>
    BY <1>5 DEF CommitOverOthers, lockVars
  <2> HIDE DEF mine, joined, broken
  <2> QED BY <1>0, <1>5, <2>0, <2>1, <2>2, <2>3, <2>4, CommitKeeps
<1> QED BY <1>2, <1>3, <1>4, <1>5 DEF Commit

-----------------------------------------------------------------------------
(* The invariant holds at first and is kept.                                 *)

LEMMA InitHolds == Init => FileInv
<1> SUFFICES ASSUME Init PROVE FileInv
  OBVIOUS
<1>1. PICK first \in FirstFiles :
          /\ entry = IF first = NoFile THEN 0 ELSE 1
          /\ file = [id \in Ids |-> IF id = 1 /\ first # NoFile THEN first ELSE Blank]
  BY DEF Init
<1>2. 1 \in Ids /\ 0 \notin Ids
  BY FileAssumption DEF Ids
<1>3. first # NoFile =>
         /\ first \in Contents /\ first.whole /\ first.token = Nobody /\ first # Blank
  <2>1. first # NoFile =>
           first \in [whole : {TRUE}, token : {Nobody}, applied : Nat, foreign : BOOLEAN,
                     marks : SUBSET Procs]
    BY FileAssumption
  <2> QED BY <2>1 DEF Contents, Blank, Content
<1>4. Blank.token = Nobody /\ Blank \in Contents
  BY BlankTyped DEF Blank, Content
<1>5. \A p \in Procs : pc[p] = "idle" /\ call[p] = NoCall /\ backup[p] = NoFile
  BY DEF Init
<1>6. /\ NoCall \in Calls /\ NoCall.id = 0 /\ NoCall.error = Nobody /\ NoCall.op = Nobody
      /\ NoCall.backed = FALSE
  BY BlankTyped DEF NoCall
<1>7. FilesTyped
  BY <1>1, <1>2, <1>3, <1>4 DEF Init, FilesTyped
<1>8. CallsTyped
  BY <1>5, <1>6 DEF Init, CallsTyped, Working, Guarded
<1>9. HistoriesTyped
  <2>1. release \in [Procs -> Nat \ {0}]
    BY FileAssumption DEF Init
  <2>2. 0 \in 0..MaxTroubles
    BY FileAssumption
  <2> QED BY <2>1, <2>2 DEF Init, HistoriesTyped
<1>10. InodesSuffice
  <2>1. Used = IF first = NoFile THEN {} ELSE {1}
    BY <1>1, <1>2, <1>3 DEF Used
  <2>2. Cardinality({}) = 0 /\ Cardinality({1}) = 1
    BY FS_EmptySet, FS_Singleton
  <2> QED BY <1>1, <1>5, <1>6, <2>1, <2>2 DEF Init, InodesSuffice
<1>11. LocksTyped /\ \A p \in Procs : HoldsLocks(p)
  BY <1>5, FileAssumption DEF Init, LocksTyped, HoldsLocks, Guarded
<1>12. \A p \in Procs : CallKnows(p)
  BY <1>5, <1>6, FileAssumption DEF Init, CallKnows, Opened, Transacting
<1>13. \A p \in Procs : WriterReady(p) /\ Cause(p)
  BY <1>5, <1>6, FileAssumption DEF WriterReady, Cause, Working, Guarded
<1>14. TokensFit
  BY <1>1, <1>3, <1>4, <1>5 DEF TokensFit
<1>15. AllWhole
  BY <1>1, <1>3, <1>5 DEF AllWhole, Used
<1>16. LedgerStays
  BY <1>5, <1>6 DEF Init, LedgerStays
<1>17. OnlyMigrationsLoseWrites
  BY DEF Init, OnlyMigrationsLoseWrites
<1> QED BY <1>7, <1>8, <1>9, <1>10, <1>11, <1>12, <1>13, <1>14, <1>15, <1>16, <1>17 DEF FileInv

LEMMA StutterKeeps == FileInv /\ UNCHANGED vars => FileInv'
<1> SUFFICES ASSUME FileInv, UNCHANGED vars PROVE FileInv'
  OBVIOUS
<1> USE DEF vars, dirVars, fileVars, lockVars, callVars, historyVars
<1>1. FilesTyped' /\ CallsTyped' /\ HistoriesTyped' /\ LocksTyped'
  BY DEF FileInv, FilesTyped, CallsTyped, HistoriesTyped, LocksTyped
<1>2. InodesSuffice'
  BY DEF FileInv, InodesSuffice, Used
<1>3. \A p \in Procs : HoldsLocks(p)' /\ WriterReady(p)' /\ Cause(p)'
  BY DEF FileInv, HoldsLocks, WriterReady, Cause
<1>4. \A p \in Procs : CallKnows(p)'
  BY DEF FileInv, CallKnows
<1>5. TokensFit' /\ AllWhole' /\ LedgerStays' /\ OnlyMigrationsLoseWrites'
  BY DEF FileInv, TokensFit, AllWhole, Used, LedgerStays, OnlyMigrationsLoseWrites, Marks
<1> QED BY <1>1, <1>2, <1>3, <1>4, <1>5 DEF FileInv

LEMMA NextKeeps == FileInv /\ [Next]_vars => FileInv'
<1> SUFFICES ASSUME FileInv, [Next]_vars PROVE FileInv'
  OBVIOUS
<1>1. CASE UNCHANGED vars
  BY <1>1, StutterKeeps
<1>2. CASE Replace
  BY <1>2, ReplaceKeeps
<1>3. ASSUME NEW p \in Procs, NEW op \in {"initialize", "write"}, Call(p, op)
      PROVE  FileInv'
  BY <1>3, CallKeeps
<1>4. ASSUME NEW p \in Procs, ProcessStep(p)
      PROVE  FileInv'
  BY <1>4, EnterGuardKeeps, GuardedKeeps, LookKeeps, LinkKeeps, DropTempKeeps, OpenKeeps,
     ConnectKeeps, ProbeKeeps, BeginKeeps, StumbleKeeps, BackupKeeps, CommitStepKeeps,
     CheckKeeps
  DEF ProcessStep
<1>5. ASSUME NEW p \in Procs, Stumble(p) \/ Crash(p)
      PROVE  FileInv'
  BY <1>5, StumbleKeeps, CrashKeeps
<1> QED BY <1>1, <1>2, <1>3, <1>4, <1>5 DEF Next

(* The inductive invariant holds (RunLedger.initialize, _write).             *)
THEOREM FileInvHolds == Spec => []FileInv
BY InitHolds, NextKeeps, PTL DEF Spec

-----------------------------------------------------------------------------
(* What follows from it.                                                     *)

(* Values have their types, and only the steps that took a lock hold it.     *)
THEOREM FileTypeCorrect == Spec => []TypeOK
<1>1. FileInv => TypeOK
  <2> SUFFICES ASSUME FileInv PROVE TypeOK
    OBVIOUS
  <2>1. entry \in 0..(MaxTroubles + 2)
    BY FileAssumption DEF FileInv, FilesTyped, Ids
  <2>2. hot \subseteq Ids
    BY DEF FileInv, FilesTyped
  <2>3. \A id \in Ids : file[id].marks \subseteq Procs /\ file[id].token \in Ids \cup {Nobody}
    BY DEF FileInv, FilesTyped, Contents
  <2> QED BY <2>1, <2>2, <2>3 DEF FileInv, CallsTyped, HoldsLocks, TypeOK
<1> QED BY <1>1, FileInvHolds, PTL

(* No process initializes on a schema newer than its release, although       *)
(* another may migrate between its look at the migrations and its lock.      *)
THEOREM SchemaIsKnown == Spec => []InitializesKnownSchema
<1>1. FileInv => InitializesKnownSchema
  BY DEF FileInv, CallKnows, Transacting, InitializesKnownSchema
<1> QED BY <1>1, FileInvHolds, PTL

(* A migration that ends well has backed up exactly the content it migrated. *)
THEOREM BackupIsExact == Spec => []BackupIsWhatWasMigrated
<1>1. FileInv => BackupIsWhatWasMigrated
  BY DEF FileInv, CallKnows, BackupIsWhatWasMigrated
<1> QED BY <1>1, FileInvHolds, PTL

(* A write reported durable stays in the ledger until somebody replaces the  *)
(* file, or a migration that lost its lock to its own backup commits over    *)
(* others.                                                                   *)
THEOREM WritesAreKept == Spec => []OnlyMigrationsLoseWrites
<1>1. FileInv => OnlyMigrationsLoseWrites
  BY DEF FileInv
<1> QED BY <1>1, FileInvHolds, PTL

(* What a failed call accuses the ledger of is so.                           *)
THEOREM ErrorsAreTrue == Spec => []ErrorsHaveCause
<1>1. FileInv => ErrorsHaveCause
  BY DEF FileInv, Cause, ErrorsHaveCause
<1> QED BY <1>1, FileInvHolds, PTL
=============================================================================
