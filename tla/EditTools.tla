----------------------------- MODULE EditTools -----------------------------
(***************************************************************************)
(* The one-shot FCPXML editing tools (_server_runtime.py) of several       *)
(* server processes over the same files.  A call parses its source, edits  *)
(* it in memory, commits the result to another file through                *)
(* commit_fcpxml_bytes and atomic_replace_bytes, and then reads that file  *)
(* back to describe what it did.  Nothing is locked: another call may come *)
(* between any two of the file operations, and any of them may fail.       *)
(***************************************************************************)
EXTENDS Timeline

CONSTANTS
    Servers,      \* server processes
    Paths,        \* the .fcpxml files the calls name
    Documents,    \* what those files may hold at the start
    NoFile,       \* a path with no file
    Requests,     \* calls a client may make: [op, src, dst]
    MaxFailures,  \* bound: file operations that fail
    Assets,       \* asset resources of the documents
    TimeLimit     \* bound: the frames the properties look at

ASSUME MaxFailuresAssumption == MaxFailures \in Nat
ASSUME NoFileAssumption == NoFile \notin Documents
ASSUME RequestsAssumption == \A req \in Requests : req.src \in Paths /\ req.dst \in Paths
ASSUME DocumentsAssumption == \A d \in Documents : IsDocument(d)

(* What the tools make of their arguments before anything else: a time is  *)
(* a number, an optional one may be absent, a list is a list, a speed is   *)
(* one number over a positive one (its sign is checked later).             *)
ASSUME OperationsAssumption ==
    \A req \in Requests :
        LET op == req.op
        IN  /\ op.kind \in {"add_marker", "add_keyword", "batch_add_markers", "trim_clip",
                            "split_clip", "delete_clips", "reorder_clips", "add_transition",
                            "change_speed", "assign_role", "reformat", "fix_flash_frames",
                            "fill_gaps", "remove_silence", "batch_rename_clips",
                            "batch_assign_roles", "batch_apply_transition", "add_title",
                            "add_audio"}
            /\ op.kind = "batch_add_markers" => IsSequence(op.markers)
            /\ op.kind \in {"delete_clips", "reorder_clips"} => IsSequence(op.names)
            /\ op.kind = "split_clip" => op.at \in Int
            /\ op.kind \in {"add_transition", "batch_apply_transition", "add_title"} =>
                  op.dur \in Int
            /\ op.kind = "trim_clip" => /\ Given(op.new_start, 0) \in Int
                                        /\ Given(op.new_dur, 0) \in Int
            /\ op.kind = "fix_flash_frames" => op.min \in Int
            /\ op.kind = "change_speed" => op.speed \in Int \X (Nat \ {0})
            /\ op.kind = "add_audio" => Given(op.new_dur, 0) \in Int
            /\ op.kind \in {"add_title", "add_audio"} => op.side \in {"start", "end", "after"}

VARIABLES
    files,     \* path -> document or NoFile
    call,      \* server -> its call
    failures   \* failed file operations so far

vars == <<files, call, failures>>

(* A call ends in "success", in "error", any coded failure before the read *)
(* back, or in "broken", a RuntimeError raised by it.                      *)
NoCall == [pc |-> "idle"]

-----------------------------------------------------------------------------
(* The edit of each tool, and when the tool refuses before it commits.     *)

EditOf(d, op) ==
    CASE op.kind \in {"add_marker", "add_keyword"} ->
                AddNote(d, op.name, [kind |-> op.note, start |-> op.start])
      [] op.kind = "batch_add_markers" -> BatchAddMarkers(d, op.markers)
      [] op.kind = "trim_clip"         -> TrimClip(d, op.name, op.new_start, op.new_dur)
      [] op.kind = "split_clip"        -> SplitClip(d, op.name, op.at)
      [] op.kind = "delete_clips"      -> DeleteClips(d, op.names)
      [] op.kind = "reorder_clips"     -> ReorderClips(d, op.names)
      [] op.kind = "add_transition"    -> AddTransition(d, op.name, op.dur, "none")
      [] op.kind = "change_speed"      -> ChangeSpeed(d, op.name, op.speed)
      [] op.kind = "assign_role"       -> AssignRole(d, op.name, op.role)
      [] op.kind = "reformat"          -> Reformat(d, op.format)
      [] op.kind = "fix_flash_frames"  -> FixFlashFrames(d, op.min)
      [] op.kind = "fill_gaps"         -> FillGaps(d, op.ref, op.name)
      [] op.kind = "remove_silence"    -> RemoveSilence(d, op.min)
      [] op.kind = "batch_rename_clips" -> BatchRename(d, op.pattern, op.with)
      [] op.kind = "batch_assign_roles" -> BatchAssignRoles(d, op.rules)
      [] op.kind = "batch_apply_transition" -> BatchApplyTransition(d, op.dur, "none")
      [] op.kind = "add_title" -> AddTitle(d, op.side, op.name, op.text, op.dur)
      [] op.kind = "add_audio" -> AddAudio(d, op.side, op.name, op.text, op.new_dur)

(* What makes the arguments invalid before any file is opened. *)
ArgumentsValid(op) ==
    CASE op.kind = "batch_add_markers" -> op.markers # <<>>
      [] op.kind \in {"delete_clips", "reorder_clips"} -> op.names # <<>>
      [] op.kind = "change_speed"       -> op.speed[1] > 0
      [] op.kind = "remove_silence"     -> op.min >= 0
      [] op.kind = "batch_assign_roles" -> op.rules # <<>>
      [] OTHER -> TRUE

(* The tool counts what it changed and refuses what it did not find.  The  *)
(* repairs of flash frames, gaps and silence may change nothing.           *)
Applies(d, op) ==
    CASE op.kind = "batch_add_markers" -> EditOf(d, op).n = Len(op.markers)
      [] op.kind = "delete_clips"      -> EditOf(d, op).n = Len(op.names)
      [] op.kind = "reorder_clips"     -> /\ \A n \in ToSet(op.names) : Found(d, n)
                                          /\ EditOf(d, op).n = 1
      [] op.kind = "fill_gaps"         -> op.ref \in Assets
      [] op.kind \in {"fix_flash_frames", "remove_silence"} -> TRUE
      [] OTHER -> EditOf(d, op).n > 0

NameRows(d) == LET es == Elements(d) IN [k \in DOMAIN es |-> es[k].name] \o d.labels

Differences(old, new) == Cardinality({k \in DOMAIN old : old[k] # new[k]})

Dissolves(d, dur) == CountAt(d, PlacesIn(d), LAMBDA e: IsTransition(e) /\ e.dur = dur)

Gaps(d) == CountAt(d, ItemPlaces(d), IsGap)

Roles(d) ==
    LET able == SelectSeq(Elements(d), LAMBDA e: e.tag \in RoleTags)
    IN  [k \in DOMAIN able |-> <<able[k].name, able[k].role>>]

(* The validate_candidate of the tools that have one: x is the file looked *)
(* at, n what the edit counted, before the parsed source, made the edited  *)
(* tree.                                                                   *)
Reformatted(x, op) == x.format = op.format

NoFlashLeft(x, op) == CountAt(x, ItemPlaces(x), LAMBDA e: IsFlash(e, op.min)) = 0

GapsFilled(x, before, n) == Gaps(before) - Gaps(x) = n

GapsRemoved(x, before, n) == Gaps(before) - Gaps(x) = n

RenamedAsMade(x, before, made, n) ==
    /\ NameRows(x) = NameRows(made)
    /\ Differences(NameRows(before), NameRows(x)) = n

RolesAsMade(x, made) == Roles(x) = Roles(made)

DissolvesAdded(x, op, before, made, n) ==
    /\ SelectSeq(Elements(x), IsTransition) = SelectSeq(Elements(made), IsTransition)
    /\ Dissolves(x, op.dur) - Dissolves(before, op.dur) = n

CandidateFits(x, op, before, made) ==
    LET n == EditOf(before, op).n
    IN  CASE op.kind = "reformat"               -> Reformatted(x, op)
          [] op.kind = "fix_flash_frames"       -> NoFlashLeft(x, op)
          [] op.kind = "fill_gaps"              -> GapsFilled(x, before, n)
          [] op.kind = "remove_silence"         -> GapsRemoved(x, before, n)
          [] op.kind = "batch_rename_clips"     -> RenamedAsMade(x, before, made, n)
          [] op.kind = "batch_assign_roles"     -> RolesAsMade(x, made)
          [] op.kind = "batch_apply_transition" -> DissolvesAdded(x, op, before, made, n)
          [] OTHER -> TRUE

-----------------------------------------------------------------------------
(* The read back.                                                          *)

(* The five tags the tools look for in the committed file; the edit looked *)
(* among twelve.                                                           *)
CheckedTags == {"asset-clip", "clip", "title"}

CommittedPlace(d, name) ==
    FirstOf({p \in PlacesIn(d) : /\ ElementAt(d, p).tag \in CheckedTags
                                 /\ ElementAt(d, p).name = name})

Committed(d, name) == CommittedPlace(d, name) # NoPlace

CommittedClip(d, name) == ElementAt(d, CommittedPlace(d, name))

HasNote(d, name, note) ==
    Committed(d, name) /\ note \in ToSet(CommittedClip(d, name).notes)

(* _spine_clip_names *)
PrimaryNames(d) ==
    LET items == d.spines[1].items
        clips == Selected(items, {k \in DOMAIN items : ~IsTransition(items[k])})
    IN  [k \in DOMAIN clips |-> clips[k].name]

JoinedBy(d, name, dur) ==
    LET p    == CommittedPlace(d, name)
        next == SubSeq(Siblings(d, p), Position(p) + 1, Len(Siblings(d, p)))
    IN  next # <<>> /\ IsTransition(next[1]) /\ next[1].dur = dur

(* What each tool asks of x, the file as it is now, to report success.     *)
MarkerReadsBack(x, op)  == HasNote(x, op.name, [kind |-> op.note, start |-> op.start])

KeywordReadsBack(x, op) == HasNote(x, op.name, [kind |-> op.note, start |-> op.start])

MarkersReadBack(x, op)  == \A m \in ToSet(op.markers) : HasNote(x, m.name, m.note)

TrimReadsBack(x, op)    == Committed(x, op.name)

SplitReadsBack(x, op)   == Committed(x, op.name) /\ Committed(x, Append(op.name, "split"))

DeletionReadsBack(x, op) == ToSet(op.names) \cap ToSet(PrimaryNames(x)) = {}

OrderReadsBack(x, op)   == IsPrefix(op.names, PrimaryNames(x))

TransitionReadsBack(x, op) == Committed(x, op.name) /\ JoinedBy(x, op.name, op.dur)

SpeedReadsBack(x, op, before) ==
    LET old == ElementAt(before, Find(before, op.name)).dur
        new == Scaled(old, op.speed)
    IN  /\ Committed(x, op.name)
        /\ CommittedClip(x, op.name).dur = new
        /\ CommittedClip(x, op.name).remap = <<new, old>>

RoleReadsBack(x, op)    == Committed(x, op.name) /\ CommittedClip(x, op.name).role = op.role

(* The first child of the primary spine that looks like the new one has to *)
(* be where it was asked for.                                              *)
AddedReadsBack(x, op, tag, ref, dur) ==
    LET items == x.spines[1].items
        k == SelectInSeq(items, LAMBDA e: /\ e.tag = tag /\ e.name = op.text
                                          /\ e.ref = ref /\ e.dur = dur)
    IN  /\ x.spines # <<>> /\ k # 0
        /\ CASE op.side = "start" -> k = 1
             [] op.side = "end"   -> k = Len(items)
             [] op.side = "after" -> k > 1 /\ items[k - 1].name = op.name

TitleReadsBack(x, op)   == AddedReadsBack(x, op, "title", "title", op.dur)

AudioReadsBack(x, op)   == /\ AddedReadsBack(x, op, "asset-clip", "audio", Given(op.new_dur, 0))
                           /\ op.text \in ToSet(x.labels)

(* The tools that have a candidate check do not look again.                *)
ReadsBack(x, op, before) ==
    CASE op.kind = "add_marker"        -> MarkerReadsBack(x, op)
      [] op.kind = "add_keyword"       -> KeywordReadsBack(x, op)
      [] op.kind = "batch_add_markers" -> MarkersReadBack(x, op)
      [] op.kind = "trim_clip"         -> TrimReadsBack(x, op)
      [] op.kind = "split_clip"        -> SplitReadsBack(x, op)
      [] op.kind = "delete_clips"      -> DeletionReadsBack(x, op)
      [] op.kind = "reorder_clips"     -> OrderReadsBack(x, op)
      [] op.kind = "add_transition"    -> TransitionReadsBack(x, op)
      [] op.kind = "change_speed"      -> SpeedReadsBack(x, op, before)
      [] op.kind = "assign_role"       -> RoleReadsBack(x, op)
      [] op.kind = "add_title"         -> TitleReadsBack(x, op)
      [] op.kind = "add_audio"         -> AudioReadsBack(x, op)
      [] OTHER -> TRUE

-----------------------------------------------------------------------------
(* The steps of a call.                                                    *)

Init ==
    /\ files \in [Paths -> Documents \cup {NoFile}]
    /\ call = [s \in Servers |-> NoCall]
    /\ failures = 0

(* A call's record: the parsed source, the edited tree, the source as it   *)
(* was when its hash was taken, the destination when the commit began, the *)
(* backup there is and what the receipt's output hash is of.  alone is     *)
(* history: no other call has changed the destination since.               *)
NewCall(req, pc) ==
    LET base == files[req.src]
        made == IF pc = "edited" THEN EditOf(base, req.op).doc ELSE NoFile
    IN  [pc |-> pc, op |-> req.op, src |-> req.src, dst |-> req.dst,
         base |-> base, made |-> made, hashed |-> NoFile, prior |-> NoFile,
         backup |-> <<>>, out |-> NoFile, alone |-> TRUE, restored |-> TRUE]

Moved(s, pc) == [call EXCEPT ![s].pc = pc]

Started(req) == ArgumentsValid(req.op) /\ files[req.src] # NoFile

Begin(s) ==
    /\ call[s].pc = "idle"
    /\ \E req \in Requests :
          /\ Started(req)
          /\ Applies(files[req.src], req.op)
          /\ call' = [call EXCEPT ![s] = NewCall(req, "edited")]
    /\ UNCHANGED <<files, failures>>

(* INVALID_ARGUMENTS, a missing source, or TARGET_NOT_FOUND. *)
Reject(s) ==
    /\ call[s].pc = "idle"
    /\ \E req \in Requests : ~(Started(req) /\ Applies(files[req.src], req.op))
    /\ call' = Moved(s, "error")
    /\ UNCHANGED <<files, failures>>

(* The temporary file is validated.  The structural validator has nothing  *)
(* to say of these documents: every edit keeps their references known.     *)
Stageable(c) == c.src # c.dst /\ CandidateFits(c.made, c.op, c.base, c.made)

Stage(s) ==
    /\ call[s].pc = "edited"
    /\ Stageable(call[s])
    /\ call' = [call EXCEPT ![s].pc = "staged", ![s].hashed = files[call[s].src],
                            ![s].prior = files[call[s].dst]]
    /\ UNCHANGED <<files, failures>>

(* SAME_FILE_FORBIDDEN or VALIDATION_FAILED. *)
RefuseCandidate(s) ==
    /\ call[s].pc = "edited"
    /\ ~Stageable(call[s])
    /\ call' = [call EXCEPT ![s].pc = "error", ![s].prior = files[call[s].dst]]
    /\ UNCHANGED <<files, failures>>

(* _copy_backup_exclusive, when there is a destination to copy. *)
TakeBackup(s) ==
    /\ call[s].pc = "staged"
    /\ LET there == files[call[s].dst]
       IN  call' = [call EXCEPT ![s].pc = "backed",
                                ![s].backup = IF there = NoFile THEN <<>> ELSE <<there>>]
    /\ UNCHANGED <<files, failures>>

(* What everyone else's call is told when s changes the file at path. *)
Disturbed(s, path) ==
    [t \in Servers |->
        IF t # s /\ call[t].pc # "idle" /\ "dst" \in DOMAIN call[t] /\ call[t].dst = path
        THEN [call[t] EXCEPT !.alone = FALSE] ELSE call[t]]

(* os.replace of the temporary file over the destination. *)
Replace(s) ==
    /\ call[s].pc = "backed"
    /\ files' = [files EXCEPT ![call[s].dst] = call[s].made]
    /\ call' = [Disturbed(s, call[s].dst) EXCEPT ![s].pc = "replaced"]
    /\ UNCHANGED failures

(* The destination is validated again and hashed, as it is by now. *)
Revalidate(s) ==
    /\ call[s].pc = "replaced"
    /\ LET c == call[s]
           there == files[c.dst]
           fits  == there # NoFile /\ CandidateFits(there, c.op, c.base, c.made)
       IN  call' = [call EXCEPT ![s].pc  = IF fits THEN "committed" ELSE "rolling",
                                ![s].out = IF fits THEN there ELSE NoFile]
    /\ UNCHANGED <<files, failures>>

(* Mutant: the destination is removed though there is a backup. *)
RollbackByRemoval(s) ==
    /\ call[s].pc = "rolling"
    /\ files' = [files EXCEPT ![call[s].dst] = NoFile]
    /\ call' = [Disturbed(s, call[s].dst) EXCEPT ![s].pc = "error"]
    /\ UNCHANGED failures

(* The backup is moved back; without one the destination is removed. *)
Rollback(s) ==
    /\ call[s].pc = "rolling"
    /\ LET c == call[s]
       IN  files' = [files EXCEPT ![c.dst] = IF c.backup = <<>> THEN NoFile ELSE c.backup[1]]
    /\ call' = [Disturbed(s, call[s].dst) EXCEPT ![s].pc = "error", ![s].backup = <<>>]
    /\ UNCHANGED failures

ReadBack(s) ==
    /\ call[s].pc = "committed"
    /\ LET c == call[s]
           there == files[c.dst]
           good  == there # NoFile /\ ReadsBack(there, c.op, c.base)
       IN  call' = Moved(s, IF good THEN "success" ELSE "broken")
    /\ UNCHANGED <<files, failures>>

(* A file operation fails: before the replacement the call ends, after it  *)
(* the handler rolls back, and a rollback that fails leaves things so.     *)
FailOperation(s) ==
    /\ failures < MaxFailures
    /\ failures' = failures + 1
    /\ \/ /\ call[s].pc \in {"staged", "backed"}
          /\ call' = [call EXCEPT ![s].pc = "error"]
       \/ /\ call[s].pc = "replaced"
          /\ call' = Moved(s, "rolling")
       \/ /\ call[s].pc = "rolling"
          /\ call' = [call EXCEPT ![s].pc = "error", ![s].restored = FALSE]
    /\ UNCHANGED files

Next ==
    \E s \in Servers :
        \/ Begin(s) \/ Reject(s) \/ Stage(s) \/ RefuseCandidate(s) \/ TakeBackup(s)
        \/ Replace(s) \/ Revalidate(s) \/ Rollback(s) \/ ReadBack(s) \/ FailOperation(s)

Spec == Init /\ [][Next]_vars

-----------------------------------------------------------------------------
(* Properties.                                                             *)

Named(d, name) == {p \in PlacesIn(d) : ElementAt(d, p).name = name}

(* A name the edit and the read back both take for the same clip: there is *)
(* one of that name, and it has one of the five tags.                      *)
Plain(d, name) ==
    /\ Cardinality(Named(d, name)) = 1
    /\ Committed(d, name)

TargetsOf(op) ==
    CASE op.kind \in {"delete_clips", "reorder_clips"} -> ToSet(op.names)
      [] op.kind = "batch_add_markers" -> {m.name : m \in ToSet(op.markers)}
      [] op.kind \in {"reformat", "fix_flash_frames", "fill_gaps", "remove_silence",
                      "batch_rename_clips", "batch_assign_roles", "batch_apply_transition"} -> {}
      [] op.kind \in {"add_title", "add_audio"} /\ op.side # "after" -> {}
      [] OTHER -> {op.name}

(* A call as its documentation means it: plain targets, a split point      *)
(* after the start of a clip, an order of clips of the primary spine, a    *)
(* new title or sound there under a name of its own.                       *)
(* split_clip copies the connected clips of the clip into both parts, and  *)
(* remove_silence takes those of a gap away with it, so a target that has  *)
(* some is left out too.                                                   *)
Sensible(d, op) ==
    /\ \A n \in TargetsOf(op) : Plain(d, n)
    /\ op.kind = "split_clip" =>
          /\ op.at > 0
          /\ Named(d, Append(op.name, "split")) = {}
          /\ CommittedClip(d, op.name).kids = <<>>
    /\ op.kind = "reorder_clips" =>
          IsInjective(op.names) /\ ToSet(op.names) \subseteq ToSet(PrimaryNames(d))
    /\ op.kind = "remove_silence" =>
          \A e \in ElementsIn(d) : IsLongGap(e, op.min) => e.kids = <<>>
    /\ op.kind \in {"add_title", "add_audio"} =>
          Named(d, op.text) = {} /\ TargetsOf(op) \subseteq ToSet(PrimaryNames(d))

(* The read back finds what the edit did: when the file still is what the  *)
(* call wrote, a sensible call is never told that its committed output     *)
(* lacks its effect, an error that comes after the destination has changed *)
(* and undoes nothing.                                                     *)
CheckAgreesWithEdit ==
    [][\A s \in Servers :
          /\ call[s].pc = "committed" /\ call'[s].pc = "broken"
          /\ files[call[s].dst] \in {call[s].made} \ {NoFile}
          => ~Sensible(call[s].base, call[s].op)]_vars

Keeping == {"add_marker", "add_keyword", "batch_add_markers", "split_clip", "reorder_clips",
            "add_transition", "assign_role", "reformat", "batch_rename_clips",
            "batch_assign_roles", "batch_apply_transition", "remove_silence"}

KeepsClips(c) == SameFootage(c.made, c.base, TimeLimit)

(* A tool that is not asked to change what plays does not: after a success *)
(* every frame of the source plays as often as before, in the order or     *)
(* under the names asked for.                                              *)
SensibleCallsKeepClips ==
    \A s \in Servers :
        call[s].pc = "success" /\ call[s].op.kind \in Keeping
            /\ Sensible(call[s].base, call[s].op) => KeepsClips(call[s])

(* The same of every call that reports success. *)
SuccessKeepsClips ==
    \A s \in Servers :
        call[s].pc = "success" /\ call[s].op.kind \in Keeping => KeepsClips(call[s])

(* What a call reports is how it leaves the destination, unless another    *)
(* call changed it meanwhile: after a success it holds what was made, with *)
(* the content replaced in the backup, and after an error it holds what it *)
(* held, a rollback that failed apart.                                     *)
OutcomeTellsFile ==
    \A s \in Servers :
        LET c == call[s]
        IN  c.pc \in {"success", "error"} /\ "dst" \in DOMAIN c /\ c.alone =>
               /\ c.pc = "success" =>
                     /\ files[c.dst] = c.made /\ c.out = c.made
                     /\ c.prior # NoFile => c.backup = <<c.prior>>
               /\ c.pc = "error" /\ c.restored => files[c.dst] = c.prior

=============================================================================
