-------------------------- MODULE EditToolsProofs --------------------------
(***************************************************************************)
(* What a call of a one-shot tool reports about its destination is so, for *)
(* any number of servers and files and whatever the edits are: that proof  *)
(* never looks into EditOf, CandidateFits or ReadsBack.  That a sensible   *)
(* call of a tool that is to keep the clips keeps them, and that the read  *)
(* back finds what a sensible call did, are facts about the edits, and     *)
(* rest on the lemmas of TimelineProofs.                                   *)
(***************************************************************************)
EXTENDS EditTools, TimelineProofs

-----------------------------------------------------------------------------
(* The inductive invariant.                                                *)

CallFields == {"pc", "op", "src", "dst", "base", "made", "hashed", "prior", "backup", "out",
               "alone", "restored"}

(* A call that was rejected has no more than its end.                      *)
CallFits(s) ==
    LET c == call[s]
    IN  /\ DOMAIN c \in {{"pc"}, CallFields}
        /\ c.pc \notin {"idle", "error"} => DOMAIN c = CallFields
        /\ DOMAIN c = CallFields => c.pc # "idle" /\ c.dst \in Paths

(* While nobody else changes the destination: it holds what the commit     *)
(* found until the replacement and what was made after it, and there is a  *)
(* backup exactly of a file that was there.                                *)
FileFits(s) ==
    LET c     == call[s]
        there == files[c.dst]
    IN  DOMAIN c = CallFields /\ c.alone =>
        /\ c.pc \in {"staged", "backed"} => there = c.prior
        /\ c.pc \in {"backed", "replaced", "committed", "rolling", "success"} =>
              c.backup = IF c.prior = NoFile THEN <<>> ELSE <<c.prior>>
        /\ c.pc \in {"replaced", "committed", "rolling", "success"} => there = c.made
        /\ c.pc \in {"committed", "success"} => c.out = c.made
        /\ c.pc = "error" /\ c.restored => there = c.prior

ToolInv ==
    /\ DOMAIN files = Paths /\ DOMAIN call = Servers
    /\ \A s \in Servers : CallFits(s) /\ FileFits(s)

-----------------------------------------------------------------------------
(* A step of a call that leaves the files and the other calls alone.       *)
LEMMA QuietStep ==
    ASSUME ToolInv, NEW s \in Servers, NEW c, call' = [call EXCEPT ![s] = c],
           UNCHANGED files, CallFits(s)', FileFits(s)'
    PROVE  ToolInv'
<1>1. ASSUME NEW t \in Servers \ {s}
      PROVE  CallFits(t)' /\ FileFits(t)'
  BY <1>1 DEF ToolInv, CallFits, FileFits
<1> QED  BY <1>1 DEF ToolInv

(* A step of a call that changes its destination: the other calls on the   *)
(* file are no longer alone with it.                                       *)
LEMMA FileStep ==
    ASSUME ToolInv, NEW s \in Servers, DOMAIN call[s] = CallFields, NEW body, NEW c,
           files' = [files EXCEPT ![call[s].dst] = body],
           call' = [Disturbed(s, call[s].dst) EXCEPT ![s] = c],
           CallFits(s)', FileFits(s)'
    PROVE  ToolInv'
<1>1. DOMAIN files' = Paths /\ DOMAIN call' = Servers
  BY DEF ToolInv, Disturbed
<1>2. ASSUME NEW t \in Servers \ {s}
      PROVE  CallFits(t)' /\ FileFits(t)'
  <2>1. CallFits(t) /\ FileFits(t) /\ CallFits(s)
    BY DEF ToolInv
  <2>2. CASE DOMAIN call[t] = CallFields /\ call[t].dst = call[s].dst
    <3>1. call'[t] = [call[t] EXCEPT !.alone = FALSE]
      BY <2>1, <2>2 DEF ToolInv, Disturbed, CallFits, CallFields
    <3>2. /\ DOMAIN call'[t] = CallFields /\ call'[t].alone = FALSE
          /\ call'[t].pc = call[t].pc /\ call'[t].dst = call[t].dst
      BY <2>2, <3>1 DEF CallFields
    <3> QED  BY <2>1, <2>2, <3>2 DEF CallFits, FileFits
  <2>3. CASE ~(DOMAIN call[t] = CallFields /\ call[t].dst = call[s].dst)
    <3>1. call'[t] = call[t]
      BY <2>1, <2>3 DEF ToolInv, Disturbed, CallFits, CallFields
    <3>2. DOMAIN call[t] = CallFields => files'[call[t].dst] = files[call[t].dst]
      BY <2>1, <2>3 DEF ToolInv, CallFits
    <3> QED  BY ZenonT(40), <2>1, <3>1, <3>2 DEF CallFits, FileFits
  <2> QED  BY <2>2, <2>3
<1> QED  BY <1>1, <1>2 DEF ToolInv

-----------------------------------------------------------------------------
(* The steps before the destination is touched.                            *)
LEMMA StartHolds ==
    ASSUME ToolInv, NEW s \in Servers, Begin(s) \/ Reject(s)
    PROVE  ToolInv'
<1>1. CASE Begin(s)
  <2>1. PICK req \in Requests : call' = [call EXCEPT ![s] = NewCall(req, "edited")]
    BY <1>1 DEF Begin
  <2>2. call'[s] = NewCall(req, "edited")
    BY <2>1 DEF ToolInv
  <2>3. CallFits(s)' /\ FileFits(s)'
    BY <2>2, RequestsAssumption DEF CallFits, FileFits, NewCall, CallFields
  <2> QED  BY <1>1, <2>1, <2>3, QuietStep DEF Begin
<1>2. CASE Reject(s)
  <2>1. PICK c : c = [call[s] EXCEPT !.pc = "error"]
    OBVIOUS
  <2>2. call' = [call EXCEPT ![s] = c] /\ call'[s] = c
    BY <1>2, <2>1 DEF Reject, Moved, ToolInv
  <2>3. DOMAIN call[s] = {"pc"}
    BY <1>2 DEF Reject, ToolInv, CallFits
  <2>4. DOMAIN c = {"pc"} /\ c.pc = "error"
    BY <2>1, <2>3
  <2>5. CallFits(s)' /\ FileFits(s)'
    BY <2>2, <2>4 DEF CallFits, FileFits, CallFields
  <2> QED  BY <1>2, <2>2, <2>5, QuietStep DEF Reject
<1> QED  BY <1>1, <1>2

(* The steps that change no file.                                          *)
LEMMA MiddleHolds ==
    ASSUME ToolInv, NEW s \in Servers,
           \/ Stage(s) \/ RefuseCandidate(s) \/ TakeBackup(s) \/ Revalidate(s) \/ ReadBack(s)
           \/ FailOperation(s)
    PROVE  ToolInv'
<1> DEFINE old == call[s]
<1>1. CallFits(s) /\ FileFits(s) /\ DOMAIN old = CallFields
  BY DEF ToolInv, CallFits, Stage, RefuseCandidate, TakeBackup, Revalidate, ReadBack, FailOperation
<1>2. PICK c : call' = [call EXCEPT ![s] = c] /\ c = call'[s]
  BY DEF ToolInv, Stage, RefuseCandidate, TakeBackup, Revalidate, ReadBack, FailOperation, Moved
<1>3. /\ UNCHANGED files
      /\ DOMAIN c = CallFields /\ c.dst = old.dst /\ c.pc # "idle"
  BY <1>1, <1>2 DEF ToolInv, CallFields, Stage, RefuseCandidate, TakeBackup, Revalidate, ReadBack,
                    FailOperation, Moved
<1>4. CallFits(s)'
  BY <1>1, <1>2, <1>3 DEF CallFits
<1>5. FileFits(s)'
  <2>1. CASE Stage(s) \/ RefuseCandidate(s)
    <3>1. c.pc \in {"staged", "error"} /\ c.prior = files[old.dst]
      BY <1>1, <1>2, <2>1 DEF ToolInv, Stage, RefuseCandidate, CallFields
    <3> QED  BY <1>2, <1>3, <3>1 DEF FileFits
  <2>2. CASE TakeBackup(s)
    BY <1>1, <1>2, <2>2 DEF ToolInv, FileFits, TakeBackup, CallFields
  <2>3. CASE Revalidate(s)
    <3>1. /\ old.pc = "replaced" /\ c.pc \in {"committed", "rolling"}
          /\ c.pc = "committed" => c.out = files[old.dst]
      BY <1>1, <1>2, <2>3 DEF ToolInv, Revalidate, CallFields
    <3>2. /\ c.alone = old.alone /\ c.prior = old.prior /\ c.made = old.made
          /\ c.backup = old.backup
      BY <1>1, <1>2, <2>3 DEF ToolInv, Revalidate, CallFields
    <3> QED  BY <1>1, <1>2, <1>3, <3>1, <3>2 DEF FileFits
  <2>4. CASE ReadBack(s)
    BY <1>1, <1>2, <2>4 DEF ToolInv, FileFits, ReadBack, Moved, CallFields
  <2>5. CASE FailOperation(s)
    <3>1. \/ old.pc \in {"staged", "backed"} /\ c.pc = "error"
          \/ old.pc = "replaced" /\ c.pc = "rolling"
          \/ old.pc = "rolling" /\ c.pc = "error" /\ c.restored = FALSE
      <4>1. CASE old.pc \in {"staged", "backed"}
        BY <1>1, <1>2, <2>5, <4>1 DEF ToolInv, FailOperation, CallFields
      <4>2. CASE old.pc = "replaced"
        BY <1>1, <1>2, <2>5, <4>2 DEF ToolInv, FailOperation, Moved, CallFields
      <4>3. CASE old.pc = "rolling"
        BY <1>1, <1>2, <2>5, <4>3 DEF ToolInv, FailOperation, CallFields
      <4> QED  BY <2>5, <4>1, <4>2, <4>3 DEF FailOperation
    <3>2. /\ c.alone = old.alone /\ c.prior = old.prior /\ c.made = old.made
          /\ c.backup = old.backup
      BY <1>1, <1>2, <2>5 DEF ToolInv, FailOperation, Moved, CallFields
    <3> QED  BY <1>1, <1>2, <1>3, <3>1, <3>2 DEF FileFits
  <2> QED  BY <2>1, <2>2, <2>3, <2>4, <2>5
<1> QED  BY <1>2, <1>3, <1>4, <1>5, QuietStep

(* The replacement and its rollback.                                       *)
LEMMA WriteHolds ==
    ASSUME ToolInv, NEW s \in Servers, Replace(s) \/ Rollback(s)
    PROVE  ToolInv'
<1> DEFINE old == call[s]
<1>1. CallFits(s) /\ FileFits(s) /\ DOMAIN old = CallFields
  BY DEF ToolInv, CallFits, Replace, Rollback
<1>2. Disturbed(s, old.dst)[s] = old /\ DOMAIN Disturbed(s, old.dst) = Servers
  BY DEF Disturbed
<1>3. CASE Replace(s)
  <2>1. PICK c : c = [old EXCEPT !.pc = "replaced"]
    OBVIOUS
  <2>2. call' = [Disturbed(s, old.dst) EXCEPT ![s] = c] /\ call'[s] = c
    BY <1>2, <1>3, <2>1 DEF Replace
  <2>3. files' = [files EXCEPT ![old.dst] = old.made] /\ files'[old.dst] = old.made
    BY <1>1, <1>3 DEF Replace, ToolInv, CallFits
  <2>4. /\ DOMAIN c = CallFields /\ c.pc = "replaced" /\ c.dst = old.dst
        /\ c.alone = old.alone /\ c.prior = old.prior /\ c.made = old.made
        /\ c.backup = old.backup
    BY <1>1, <2>1 DEF CallFields
  <2>5. CallFits(s)' /\ FileFits(s)'
    BY <1>1, <1>3, <2>2, <2>3, <2>4 DEF Replace, CallFits, FileFits
  <2> QED  BY <1>1, <2>2, <2>3, <2>5, FileStep
<1>4. CASE Rollback(s)
  <2>1. PICK c, body : /\ c = [old EXCEPT !.pc = "error", !.backup = <<>>]
                       /\ body = IF old.backup = <<>> THEN NoFile ELSE old.backup[1]
    OBVIOUS
  <2>2. call' = [Disturbed(s, old.dst) EXCEPT ![s] = c] /\ call'[s] = c
    BY <1>2, <1>4, <2>1 DEF Rollback
  <2>3. files' = [files EXCEPT ![old.dst] = body] /\ files'[old.dst] = body
    BY <1>1, <1>4, <2>1 DEF Rollback, ToolInv, CallFits
  <2>4. old.alone => body = old.prior
    BY <1>1, <1>4, <2>1 DEF Rollback, FileFits
  <2>5. /\ DOMAIN c = CallFields /\ c.pc = "error" /\ c.dst = old.dst
        /\ c.alone = old.alone /\ c.prior = old.prior
    BY <1>1, <2>1 DEF CallFields
  <2>6. CallFits(s)' /\ FileFits(s)'
    BY <1>1, <2>2, <2>3, <2>4, <2>5 DEF CallFits, FileFits
  <2> QED  BY <1>1, <2>2, <2>3, <2>6, FileStep
<1> QED  BY <1>3, <1>4

(* The invariant holds of every call.                                      *)
LEMMA ToolsHold == Spec => []ToolInv
<1>1. Init => ToolInv
  BY DEF Init, ToolInv, CallFits, FileFits, NoCall, CallFields
<1>2. ToolInv /\ [Next]_vars => ToolInv'
  <2> SUFFICES ASSUME ToolInv, [Next]_vars PROVE ToolInv'
    OBVIOUS
  <2>1. CASE UNCHANGED vars
    BY <2>1 DEF vars, ToolInv, CallFits, FileFits
  <2>2. CASE Next
    BY <2>2, StartHolds, MiddleHolds, WriteHolds DEF Next
  <2> QED  BY <2>1, <2>2
<1> QED  BY <1>1, <1>2, PTL DEF Spec

-----------------------------------------------------------------------------
(* A call that reports success leaves what it made, with the content it    *)
(* replaced in the backup, and one that reports an error leaves what was   *)
(* there, unless another call changed the file or a rollback failed        *)
(* (safe_io.commit_fcpxml_bytes, atomic_replace_bytes).                    *)
THEOREM OutcomesTellFiles == Spec => []OutcomeTellsFile
<1>1. ToolInv => OutcomeTellsFile
  <2> SUFFICES ASSUME ToolInv, NEW s \in Servers, call[s].pc \in {"success", "error"},
                      "dst" \in DOMAIN call[s], call[s].alone
               PROVE  /\ call[s].pc = "success" =>
                            /\ files[call[s].dst] = call[s].made /\ call[s].out = call[s].made
                            /\ call[s].prior # NoFile => call[s].backup = <<call[s].prior>>
                      /\ call[s].pc = "error" /\ call[s].restored =>
                            files[call[s].dst] = call[s].prior
    BY DEF OutcomeTellsFile
  <2>1. DOMAIN call[s] = CallFields
    BY DEF ToolInv, CallFits
  <2> QED  BY <2>1 DEF ToolInv, FileFits
<1> QED  BY <1>1, ToolsHold, PTL

-----------------------------------------------------------------------------
(* Where the one element of a name is, before and after an edit.           *)

(* The element at p is the only one of that name, and a tool finds it. *)
Sole(d, n, p) ==
    /\ p \in PlacesIn(d)
    /\ ElementAt(d, p).name = n
    /\ ElementAt(d, p).tag \in CheckedTags
    /\ \A q \in PlacesIn(d) : Goes(ElementAt(d, q), n) => q = p

(* A plain name has such a place.                                          *)
LEMMA PlainSole ==
    ASSUME NEW d, IsDocument(d), NEW n, Plain(d, n)
    PROVE  Sole(d, n, CommittedPlace(d, n))
<1> DEFINE S == {p \in PlacesIn(d) : /\ ElementAt(d, p).tag \in CheckedTags
                                     /\ ElementAt(d, p).name = n}
<1>1. CommittedPlace(d, n) = FirstOf(S) /\ FirstOf(S) # NoPlace
  BY DEF Plain, Committed, CommittedPlace
<1>2. S # {}
  BY <1>1 DEF FirstOf
<1>3. FirstOf(S) \in S
  BY <1>2, FirstPlace
<1>4. IsFiniteSet(Named(d, n))
  BY PlacesFinite, FS_Subset DEF Named
<1>5. PICK p : Named(d, n) = {p}
  BY <1>4, FS_Singleton DEF Plain
<1>6. \A q \in PlacesIn(d) : ElementAt(d, q).name = n => q = p
  BY <1>5 DEF Named
<1> QED  BY <1>1, <1>3, <1>6 DEF Sole, Goes

(* Both the edit and the read back find it there.                          *)
LEMMA SoleFound ==
    ASSUME NEW d, IsDocument(d), NEW n, NEW p, Sole(d, n, p)
    PROVE  /\ CommittedPlace(d, n) = p /\ Committed(d, n) /\ CommittedClip(d, n) = ElementAt(d, p)
           /\ Find(d, n) = p /\ Found(d, n)
<1> DEFINE S == {q \in PlacesIn(d) : /\ ElementAt(d, q).tag \in CheckedTags
                                     /\ ElementAt(d, q).name = n}
<1> DEFINE T == {q \in PlacesIn(d) : /\ ElementAt(d, q).tag \in ClipTags
                                     /\ ElementAt(d, q).name = n}
<1>1. S = {p} /\ T = {p}
  <2>1. CheckedTags \subseteq ClipTags
    BY DEF CheckedTags, ClipTags
  <2>2. \A e : e.tag \in ClipTags => ~IsTransition(e)
    BY DEF ClipTags, IsTransition
  <2> QED  BY <2>1, <2>2 DEF Sole, Goes
<1>2. {p} \in SUBSET PlacesIn(d)
  BY DEF Sole
<1>3. FirstOf({p}) = p
  BY <1>2, FirstPlace
<1>4. p # NoPlace
  <2>1. p[1] \in DOMAIN d.spines
    BY PlaceParts DEF Sole
  <2>2. p[1] # 0
    BY <2>1, DocumentParts
  <2> QED  BY <2>2 DEF NoPlace
<1>5. CommittedPlace(d, n) = FirstOf(S) /\ Find(d, n) = FirstOf(T)
  BY DEF CommittedPlace, Find
<1> HIDE DEF S, T
<1> QED  BY <1>1, <1>3, <1>4, <1>5 DEF Committed, CommittedClip, Found

-----------------------------------------------------------------------------
(* What the edits make.                                                    *)

(* What a request asks for, and what has been checked of it. *)
Asked(op) == ArgumentsValid(op) /\ \E req \in Requests : op = req.op

(* Every edit a tool is asked for makes a document.                        *)
LEMMA EditDocument ==
    ASSUME NEW d, IsDocument(d), NEW op, Asked(op)
    PROVE  IsDocument(EditOf(d, op).doc)
<1>0. PICK req \in Requests : op = req.op
  BY DEF Asked
<1>1. CASE op.kind \in {"add_marker", "add_keyword"}
  <2>1. EditOf(d, op) = AddNote(d, op.name, [kind |-> op.note, start |-> op.start])
    BY <1>1 DEF EditOf
  <2> QED  BY <2>1, AddNoteCarries DEF Carries, SamePlay
<1>2. CASE op.kind = "batch_add_markers"
  <2>1. EditOf(d, op) = BatchAddMarkers(d, op.markers)
    BY <1>2 DEF EditOf
  <2>2. Len(op.markers) \in Nat
    BY <1>0, <1>2, OperationsAssumption, Sequences
  <2> QED  BY <2>1, <2>2, BatchAddMarkersCarries DEF Carries, SamePlay
<1>3. CASE op.kind = "trim_clip"
  <2>1. EditOf(d, op) = TrimClip(d, op.name, op.new_start, op.new_dur)
    BY <1>3 DEF EditOf
  <2>2. Given(op.new_start, 0) \in Int /\ Given(op.new_dur, 0) \in Int
    BY <1>0, <1>3, OperationsAssumption
  <2>3. \A x \in Int : Given(op.new_start, x) \in Int /\ Given(op.new_dur, x) \in Int
    BY <2>2 DEF Given
  <2> QED  BY <2>1, <2>3, TrimDocument
<1>4. CASE op.kind = "split_clip"
  <2>1. EditOf(d, op) = SplitClip(d, op.name, op.at)
    BY <1>4 DEF EditOf
  <2>2. op.at \in Int
    BY <1>0, <1>4, OperationsAssumption
  <2> QED  BY <2>1, <2>2, SplitDocument
<1>5. CASE op.kind = "delete_clips"
  <2>1. EditOf(d, op) = DeleteClips(d, op.names)
    BY <1>5 DEF EditOf
  <2>2. Len(op.names) \in Nat
    BY <1>0, <1>5, OperationsAssumption, Sequences
  <2> QED  BY <2>1, <2>2, DeletesDocument
<1>6. CASE op.kind = "reorder_clips"
  <2>1. EditOf(d, op) = ReorderClips(d, op.names)
    BY <1>6 DEF EditOf
  <2>2. IsSequence(op.names)
    BY <1>0, <1>6, OperationsAssumption
  <2> QED  BY <2>1, <2>2, ReorderDocument
<1>7. CASE op.kind = "add_transition"
  <2>1. EditOf(d, op) = AddTransition(d, op.name, op.dur, "none")
    BY <1>7 DEF EditOf
  <2>2. op.dur \in Int
    BY <1>0, <1>7, OperationsAssumption
  <2> QED  BY <2>1, <2>2, AddTransitionCarries DEF Carries, SamePlay
<1>8. CASE op.kind = "change_speed"
  <2>1. EditOf(d, op) = ChangeSpeed(d, op.name, op.speed)
    BY <1>8 DEF EditOf
  <2>2. op.speed \in Int \X (Nat \ {0})
    BY <1>0, <1>8, OperationsAssumption
  <2>3. op.speed[1] > 0
    BY <1>8 DEF Asked, ArgumentsValid
  <2>4. op.speed[1] \in Nat \ {0} /\ op.speed[2] \in Nat \ {0}
    BY <2>2, <2>3
  <2> QED  BY <2>1, <2>4, SpeedDocument
<1>9. CASE op.kind = "assign_role"
  <2>1. EditOf(d, op) = AssignRole(d, op.name, op.role)
    BY <1>9 DEF EditOf
  <2> QED  BY <2>1, AssignRoleCarries DEF Carries, SamePlay
<1>10. CASE op.kind = "reformat"
  <2>1. EditOf(d, op) = Reformat(d, op.format)
    BY <1>10 DEF EditOf
  <2> QED  BY <2>1, ReformatCarries DEF Carries, SamePlay
<1>11. CASE op.kind = "fix_flash_frames"
  <2>1. EditOf(d, op) = FixFlashFrames(d, op.min)
    BY <1>11 DEF EditOf
  <2>2. op.min \in Int
    BY <1>0, <1>11, OperationsAssumption
  <2> QED  BY <2>1, <2>2, FlashDocument
<1>12. CASE op.kind = "fill_gaps"
  <2>1. EditOf(d, op) = FillGaps(d, op.ref, op.name)
    BY <1>12 DEF EditOf
  <2> QED  BY <2>1, FillDocument
<1>13. CASE op.kind = "remove_silence"
  <2>1. EditOf(d, op) = RemoveSilence(d, op.min)
    BY <1>13 DEF EditOf
  <2> QED  BY <2>1, SilenceDocument
<1>14. CASE op.kind = "batch_rename_clips"
  <2>1. EditOf(d, op) = BatchRename(d, op.pattern, op.with)
    BY <1>14 DEF EditOf
  <2> QED  BY <2>1, BatchRenameCarries DEF Carries, SamePlay
<1>15. CASE op.kind = "batch_assign_roles"
  <2>1. EditOf(d, op) = BatchAssignRoles(d, op.rules)
    BY <1>15 DEF EditOf
  <2> QED  BY <2>1, BatchAssignRolesCarries DEF Carries, SamePlay
<1>16. CASE op.kind = "batch_apply_transition"
  <2>1. EditOf(d, op) = BatchApplyTransition(d, op.dur, "none")
    BY <1>16 DEF EditOf
  <2>2. op.dur \in Int
    BY <1>0, <1>16, OperationsAssumption
  <2> QED  BY <2>1, <2>2, BatchApplyTransitionCarries DEF Carries, SamePlay
<1>17. CASE op.kind = "add_title"
  <2>1. EditOf(d, op) = AddTitle(d, op.side, op.name, op.text, op.dur)
    BY <1>17 DEF EditOf
  <2>2. op.dur \in Int /\ op.side \in {"start", "end", "after"}
    BY <1>0, <1>17, OperationsAssumption
  <2> QED  BY <2>1, <2>2, AddTitleDocument
<1>18. CASE op.kind = "add_audio"
  <2>1. EditOf(d, op) = AddAudio(d, op.side, op.name, op.text, op.new_dur)
    BY <1>18 DEF EditOf
  <2>2. Given(op.new_dur, 0) \in Int /\ op.side \in {"start", "end", "after"}
    BY <1>0, <1>18, OperationsAssumption
  <2> QED  BY <2>1, <2>2, AddAudioDocument
<1>19. op.kind \in {"add_marker", "add_keyword", "batch_add_markers", "trim_clip",
                    "split_clip", "delete_clips", "reorder_clips", "add_transition",
                    "change_speed", "assign_role", "reformat", "fix_flash_frames",
                    "fill_gaps", "remove_silence", "batch_rename_clips",
                    "batch_assign_roles", "batch_apply_transition", "add_title",
                    "add_audio"}
  BY <1>0, OperationsAssumption
<1> QED  BY <1>1, <1>2, <1>3, <1>4, <1>5, <1>6, <1>7, <1>8, <1>9, <1>10, <1>11, <1>12, <1>13,
            <1>14, <1>15, <1>16, <1>17, <1>18, <1>19

(* A sensible call of a tool that is to keep the clips makes a document    *)
(* that plays what its source plays.                                       *)
LEMMA SensibleCarries ==
    ASSUME NEW d, IsDocument(d), NEW op, Asked(op), op.kind \in Keeping, Sensible(d, op)
    PROVE  Carries(d, EditOf(d, op).doc)
<1>0. PICK req \in Requests : op = req.op
  BY DEF Asked
<1>1. CASE op.kind \in {"add_marker", "add_keyword"}
  <2>1. EditOf(d, op) = AddNote(d, op.name, [kind |-> op.note, start |-> op.start])
    BY <1>1 DEF EditOf
  <2> QED  BY <2>1, AddNoteCarries
<1>2. CASE op.kind = "batch_add_markers"
  <2>1. EditOf(d, op) = BatchAddMarkers(d, op.markers)
    BY <1>2 DEF EditOf
  <2>2. Len(op.markers) \in Nat
    BY <1>0, <1>2, OperationsAssumption, Sequences
  <2> QED  BY <2>1, <2>2, BatchAddMarkersCarries
<1>4. CASE op.kind = "split_clip"
  <2>1. EditOf(d, op) = SplitClip(d, op.name, op.at)
    BY <1>4 DEF EditOf
  <2>2. op.at \in Int
    BY <1>0, <1>4, OperationsAssumption
  <2>3. op.at > 0 /\ CommittedClip(d, op.name).kids = <<>>
    BY <1>4 DEF Sensible
  <2>4. Plain(d, op.name)
    BY <1>4 DEF Sensible, TargetsOf
  <2>5. Found(d, op.name) => ElementAt(d, Find(d, op.name)).kids = <<>>
    BY <2>3, <2>4, PlainSole, SoleFound
  <2> QED  BY <2>1, <2>2, <2>3, <2>5, SplitCarries
<1>6. CASE op.kind = "reorder_clips"
  <2>1. EditOf(d, op) = ReorderClips(d, op.names)
    BY <1>6 DEF EditOf
  <2>2. IsSequence(op.names)
    BY <1>0, <1>6, OperationsAssumption
  <2>3. IsInjective(op.names) /\ \A n \in ToSet(op.names) : Plain(d, n)
    BY <1>6 DEF Sensible, TargetsOf
  <2>4. ASSUME d.spines # <<>> PROVE Clear(d.spines[1].items, op.names)
    <3> DEFINE a == d.spines[1].items
    <3>1. 1 \in DOMAIN d.spines
      BY <2>4, DocumentParts
    <3>2. \A i \in DOMAIN a : Len(a[i].kids) \in Nat
      BY <3>1, DocumentParts
    <3>3. ASSUME NEW i \in DOMAIN a
          PROVE  <<1, i, 0>> \in PlacesIn(d) /\ ElementAt(d, <<1, i, 0>>) = a[i]
      <4>1. 0 \in 0..Len(a[i].kids)
        BY <3>2
      <4>2. <<1, i, 0>> \in PlacesIn(d)
        BY <3>1, <4>1, InPlaces
      <4>3. ElementAt(d, <<1, i, 0>>) = a[i]
        BY DEF ElementAt
      <4> QED  BY <4>2, <4>3
    <3> HIDE DEF a
    <3>4. ASSUME NEW i \in DOMAIN a, NEW j \in DOMAIN a, IsListed(a[i], op.names),
                 IsListed(a[j], op.names), a[i].name = a[j].name
          PROVE  i = j
      <4>1. Plain(d, a[i].name)
        BY <2>3, <3>4 DEF IsListed
      <4>2. Goes(a[i], a[i].name) /\ Goes(a[j], a[i].name)
        BY <3>4 DEF IsListed, Goes
      <4>3. PICK p : Sole(d, a[i].name, p)
        BY <4>1, PlainSole
      <4>4. <<1, i, 0>> = p /\ <<1, j, 0>> = p
        BY <3>3, <4>2, <4>3 DEF Sole
      <4> QED  BY <4>4
    <3>5. Clear(a, op.names)
      BY <3>4 DEF Clear
    <3> QED  BY <3>5 DEF a
  <2> QED  BY <2>1, <2>2, <2>3, <2>4, ReorderClipsCarries
<1>7. CASE op.kind = "add_transition"
  <2>1. EditOf(d, op) = AddTransition(d, op.name, op.dur, "none")
    BY <1>7 DEF EditOf
  <2>2. op.dur \in Int
    BY <1>0, <1>7, OperationsAssumption
  <2> QED  BY <2>1, <2>2, AddTransitionCarries
<1>9. CASE op.kind = "assign_role"
  <2>1. EditOf(d, op) = AssignRole(d, op.name, op.role)
    BY <1>9 DEF EditOf
  <2> QED  BY <2>1, AssignRoleCarries
<1>10. CASE op.kind = "reformat"
  <2>1. EditOf(d, op) = Reformat(d, op.format)
    BY <1>10 DEF EditOf
  <2> QED  BY <2>1, ReformatCarries
<1>13. CASE op.kind = "remove_silence"
  <2>1. EditOf(d, op) = RemoveSilence(d, op.min)
    BY <1>13 DEF EditOf
  <2>2. \A e \in ElementsIn(d) : IsLongGap(e, op.min) => e.kids = <<>>
    BY <1>13 DEF Sensible
  <2>3. ASSUME NEW s \in DOMAIN d.spines, NEW i \in DOMAIN d.spines[s].items
        PROVE  d.spines[s].items[i] \in ElementsIn(d)
    <3>1. 0 \in 0..Len(d.spines[s].items[i].kids)
      BY DocumentParts
    <3>2. <<s, i, 0>> \in PlacesIn(d)
      BY <3>1, InPlaces
    <3>3. ElementAt(d, <<s, i, 0>>) = d.spines[s].items[i]
      BY DEF ElementAt
    <3> QED  BY <3>2, <3>3 DEF ElementsIn
  <2>4. \A s \in DOMAIN d.spines : \A i \in DOMAIN d.spines[s].items :
           IsLongGap(d.spines[s].items[i], op.min) => d.spines[s].items[i].kids = <<>>
    BY <2>2, <2>3
  <2> QED  BY <2>1, <2>4, RemoveSilenceCarries
<1>14. CASE op.kind = "batch_rename_clips"
  <2>1. EditOf(d, op) = BatchRename(d, op.pattern, op.with)
    BY <1>14 DEF EditOf
  <2> QED  BY <2>1, BatchRenameCarries
<1>15. CASE op.kind = "batch_assign_roles"
  <2>1. EditOf(d, op) = BatchAssignRoles(d, op.rules)
    BY <1>15 DEF EditOf
  <2> QED  BY <2>1, BatchAssignRolesCarries
<1>16. CASE op.kind = "batch_apply_transition"
  <2>1. EditOf(d, op) = BatchApplyTransition(d, op.dur, "none")
    BY <1>16 DEF EditOf
  <2>2. op.dur \in Int
    BY <1>0, <1>16, OperationsAssumption
  <2> QED  BY <2>1, <2>2, BatchApplyTransitionCarries
<1> QED  BY <1>1, <1>2, <1>4, <1>6, <1>7, <1>9, <1>10, <1>13, <1>14, <1>15, <1>16 DEF Keeping

-----------------------------------------------------------------------------
(* What a call has in hand.                                                *)

IsFile(x) == x = NoFile \/ IsDocument(x)

(* What a call has in hand came from the file it read and the edit asked.  *)
CallData(s) ==
    LET c == call[s]
    IN  DOMAIN c = CallFields =>
            /\ Asked(c.op) /\ IsDocument(c.base) /\ Applies(c.base, c.op)
            /\ c.made = EditOf(c.base, c.op).doc
            /\ c.backup # <<>> => IsDocument(c.backup[1])

DataInv ==
    /\ \A path \in Paths : IsFile(files[path])
    /\ \A s \in Servers : CallData(s)

(* A step that leaves a call's source and its edit alone.                  *)
LEMMA SameData ==
    ASSUME NEW t \in Servers, CallData(t),
           DOMAIN call[t] # CallFields => DOMAIN call'[t] # CallFields,
           DOMAIN call[t] = CallFields =>
               /\ call'[t].op = call[t].op /\ call'[t].base = call[t].base
               /\ call'[t].made = call[t].made
               /\ \/ call'[t].backup = call[t].backup \/ call'[t].backup = <<>>
                  \/ IsDocument(call'[t].backup[1])
    PROVE  CallData(t)'
BY DEF CallData

(* Nothing has been called yet, and every file is a document.              *)
LEMMA DataInit == Init => DataInv
<1> SUFFICES ASSUME Init PROVE DataInv
  OBVIOUS
<1>1. \A path \in Paths : IsFile(files[path])
  BY DocumentsAssumption DEF Init, IsFile
<1>2. \A s \in Servers : CallData(s)
  BY DEF Init, CallData, NoCall, CallFields
<1> QED  BY <1>1, <1>2 DEF DataInv

(* Every step keeps it: what is written is made by an edit, or was there.  *)
LEMMA DataStep == ToolInv /\ DataInv /\ [Next]_vars => DataInv'
<1> SUFFICES ASSUME ToolInv, DataInv, [Next]_vars PROVE DataInv'
  OBVIOUS
<1>0. /\ \A path \in Paths : IsFile(files[path])
      /\ \A s \in Servers : CallData(s) /\ CallFits(s)
      /\ DOMAIN call = Servers /\ DOMAIN files = Paths
  BY DEF DataInv, ToolInv
<1>1. CASE UNCHANGED vars
  BY <1>0, <1>1 DEF vars, DataInv, CallData
<1>2. ASSUME NEW s \in Servers, Begin(s)
      PROVE  DataInv'
  <2>1. PICK req \in Requests : /\ Started(req) /\ Applies(files[req.src], req.op)
                                /\ call' = [call EXCEPT ![s] = NewCall(req, "edited")]
    BY <1>2 DEF Begin
  <2>2. UNCHANGED files
    BY <1>2 DEF Begin
  <2> DEFINE c == NewCall(req, "edited")
  <2>3. /\ c.op = req.op /\ c.base = files[req.src] /\ c.made = EditOf(files[req.src], req.op).doc
        /\ c.backup = <<>>
    BY DEF NewCall
  <2> HIDE DEF c
  <2>4. Asked(c.op)
    BY <2>1, <2>3 DEF Started, Asked
  <2>5. IsDocument(c.base) /\ Applies(c.base, c.op)
    BY <1>0, <2>1, <2>3, RequestsAssumption DEF Started, IsFile
  <2>6. call'[s] = c /\ \A t \in Servers \ {s} : call'[t] = call[t]
    BY <1>0, <2>1 DEF c
  <2>7. CallData(s)'
    BY <2>3, <2>4, <2>5, <2>6 DEF CallData
  <2>8. \A t \in Servers \ {s} : CallData(t)'
    BY <1>0, <2>6 DEF CallData
  <2> QED  BY <1>0, <2>2, <2>7, <2>8 DEF DataInv
<1>3. ASSUME NEW s \in Servers, Reject(s)
      PROVE  DataInv'
  <2>1. call' = [call EXCEPT ![s].pc = "error"] /\ UNCHANGED files /\ DOMAIN call[s] = {"pc"}
    BY <1>0, <1>3 DEF Reject, Moved, CallFits
  <2>2. DOMAIN call'[s] = {"pc"} /\ \A t \in Servers \ {s} : call'[t] = call[t]
    BY <1>0, <2>1
  <2>3. CallData(s)'
    BY <2>2 DEF CallData, CallFields
  <2>4. \A t \in Servers \ {s} : CallData(t)'
    BY <1>0, <2>2 DEF CallData
  <2> QED  BY <1>0, <2>1, <2>3, <2>4 DEF DataInv
<1>4. ASSUME NEW s \in Servers,
             \/ Stage(s) \/ RefuseCandidate(s) \/ TakeBackup(s) \/ Revalidate(s) \/ ReadBack(s)
             \/ FailOperation(s)
      PROVE  DataInv'
  <2> DEFINE old == call[s]
  <2>1. DOMAIN old = CallFields
    BY <1>0, <1>4 DEF CallFits, Stage, RefuseCandidate, TakeBackup, Revalidate, ReadBack,
                      FailOperation
  <2>2. PICK c : call' = [call EXCEPT ![s] = c] /\ c = call'[s]
    BY <1>0, <1>4 DEF Stage, RefuseCandidate, TakeBackup, Revalidate, ReadBack, FailOperation, Moved
  <2>3. /\ UNCHANGED files
        /\ DOMAIN c = CallFields /\ c.op = old.op /\ c.base = old.base /\ c.made = old.made
    BY <1>0, <1>4, <2>1, <2>2 DEF CallFields, Stage, RefuseCandidate, TakeBackup, Revalidate,
                                   ReadBack, FailOperation, Moved
  <2>4. c.backup = old.backup \/ c.backup = <<>> \/ IsDocument(c.backup[1])
    <3>1. CASE TakeBackup(s)
      <4> DEFINE there == files[old.dst]
      <4>1. c.backup = IF there = NoFile THEN <<>> ELSE <<there>>
        BY <1>0, <2>1, <2>2, <3>1 DEF TakeBackup, CallFields
      <4>2. IsFile(there)
        BY <1>0, <2>1 DEF CallFits
      <4> HIDE DEF there
      <4> QED  BY <4>1, <4>2 DEF IsFile
    <3>2. CASE ~TakeBackup(s)
      BY <1>0, <1>4, <2>1, <2>2, <3>2 DEF CallFields, Stage, RefuseCandidate, Revalidate,
                                           ReadBack, FailOperation, Moved
    <3> QED  BY <3>1, <3>2
  <2>5. \A t \in Servers \ {s} : call'[t] = call[t]
    BY <1>0, <2>2
  <2>6. CallData(s)'
    BY <1>0, <2>1, <2>2, <2>3, <2>4, SameData
  <2>7. \A t \in Servers \ {s} : CallData(t)'
    BY <1>0, <2>5 DEF CallData
  <2> QED  BY <1>0, <2>3, <2>6, <2>7 DEF DataInv
<1>5. ASSUME NEW s \in Servers, Replace(s) \/ Rollback(s)
      PROVE  DataInv'
  <2> DEFINE old == call[s]
  <2>1. DOMAIN old = CallFields
    BY <1>0, <1>5 DEF CallFits, Replace, Rollback
  <2>2. /\ Asked(old.op) /\ IsDocument(old.base) /\ old.made = EditOf(old.base, old.op).doc
        /\ old.backup # <<>> => IsDocument(old.backup[1])
    BY <1>0, <2>1 DEF CallData
  <2>3. IsDocument(old.made)
    BY <2>2, EditDocument
  <2>4. PICK body : files' = [files EXCEPT ![old.dst] = body] /\ IsFile(body)
    <3>1. CASE Replace(s)
      BY <2>3, <3>1 DEF Replace, IsFile
    <3>2. CASE Rollback(s)
      <4> DEFINE body == IF old.backup = <<>> THEN NoFile ELSE old.backup[1]
      <4>1. files' = [files EXCEPT ![old.dst] = body]
        BY <3>2 DEF Rollback
      <4>2. IsFile(body)
        BY <2>2 DEF IsFile
      <4> QED  BY <4>1, <4>2
    <3> QED  BY <1>5, <3>1, <3>2
  <2>5. \A path \in Paths : IsFile(files'[path])
    BY <1>0, <2>4
  <2>6. Disturbed(s, old.dst)[s] = old /\ DOMAIN Disturbed(s, old.dst) = Servers
    BY DEF Disturbed
  <2>7. /\ DOMAIN call'[s] = CallFields /\ call'[s].op = old.op /\ call'[s].base = old.base
        /\ call'[s].made = old.made
        /\ call'[s].backup = old.backup \/ call'[s].backup = <<>>
    <3>1. CASE Replace(s)
      <4>1. call'[s] = [old EXCEPT !.pc = "replaced"]
        BY <2>6, <3>1 DEF Replace
      <4> QED  BY <2>1, <4>1 DEF CallFields
    <3>2. CASE Rollback(s)
      <4>1. call'[s] = [old EXCEPT !.pc = "error", !.backup = <<>>]
        BY <2>6, <3>2 DEF Rollback
      <4> QED  BY <2>1, <4>1 DEF CallFields
    <3> QED  BY <1>5, <3>1, <3>2
  <2>8. CallData(s)'
    BY <1>0, <2>1, <2>7, SameData
  <2>9. ASSUME NEW t \in Servers \ {s} PROVE CallData(t)'
    <3>1. call'[t] = Disturbed(s, old.dst)[t]
      BY <1>5, <2>6 DEF Replace, Rollback
    <3>2. call'[t] = call[t] \/ call'[t] = [call[t] EXCEPT !.alone = FALSE]
      BY <3>1 DEF Disturbed
    <3>3. CallData(t)
      BY <1>0
    <3>4. /\ DOMAIN call'[t] = DOMAIN call[t]
          /\ DOMAIN call[t] = CallFields =>
                /\ call'[t].op = call[t].op /\ call'[t].base = call[t].base
                /\ call'[t].made = call[t].made /\ call'[t].backup = call[t].backup
      BY <3>2 DEF CallFields
    <3> QED  BY <3>3, <3>4, SameData
  <2> QED  BY <2>5, <2>8, <2>9 DEF DataInv
<1>6. CASE Next
  BY <1>2, <1>3, <1>4, <1>5, <1>6 DEF Next
<1> QED  BY <1>1, <1>6

(* After a success of a tool that is to keep the clips, called as its      *)
(* documentation asks, every frame of the source plays as often as before  *)
(* (_server_runtime.py): SensibleCallsKeepClips for every document and any *)
(* number of servers.                                                      *)
THEOREM SensibleCallsKeep == Spec => []SensibleCallsKeepClips
<1>1. ToolInv /\ DataInv => SensibleCallsKeepClips
  <2> SUFFICES ASSUME ToolInv, DataInv, NEW s \in Servers, call[s].pc = "success",
                      call[s].op.kind \in Keeping, Sensible(call[s].base, call[s].op)
               PROVE  KeepsClips(call[s])
    BY DEF SensibleCallsKeepClips
  <2> DEFINE c == call[s]
  <2>1. DOMAIN c = CallFields
    BY DEF ToolInv, CallFits
  <2>2. Asked(c.op) /\ IsDocument(c.base) /\ c.made = EditOf(c.base, c.op).doc
    BY <2>1 DEF DataInv, CallData
  <2>3. Carries(c.base, c.made)
    BY <2>2, SensibleCarries
  <2>4. \A t \in -TimeLimit..TimeLimit : t \in Int
    OBVIOUS
  <2> QED  BY <2>3, <2>4 DEF KeepsClips, SameFootage, CountAt, Played, Carries, SamePlay
<1>2. ToolInv /\ DataInv /\ [Next]_vars => DataInv'
  BY DataStep
<1> QED  BY <1>1, <1>2, DataInit, ToolsHold, PTL DEF Spec

-----------------------------------------------------------------------------
(* What one edit reads back.                                               *)

(* The one element of a name stays that when it changes otherwise.         *)
LEMMA SoleChanged ==
    ASSUME NEW d, IsDocument(d), NEW n, NEW p, Sole(d, n, p),
           NEW e, IsElement(e), e.kids = ElementAt(d, p).kids,
           e.name = n, e.tag = ElementAt(d, p).tag, NEW x, x = WithElement(d, p, e)
    PROVE  /\ IsDocument(x) /\ Sole(x, n, p) /\ ElementAt(x, p) = e
           /\ \A q \in PlacesIn(d) : q # p => ElementAt(x, q).notes = ElementAt(d, q).notes
           /\ \A m, o : Sole(d, m, o) => Sole(x, m, o)
<1>1. p \in PlacesIn(d) /\ ElementAt(d, p).name = n
  BY DEF Sole
<1>2. /\ IsDocument(x) /\ PlacesIn(x) = PlacesIn(d) /\ ElementAt(x, p) = e
      /\ \A q \in PlacesIn(d) : q # p => /\ ElementAt(x, q).name = ElementAt(d, q).name
                                         /\ ElementAt(x, q).tag = ElementAt(d, q).tag
                                         /\ ElementAt(x, q).notes = ElementAt(d, q).notes
  BY <1>1, ChangedPlaces
<1>3. \A q \in PlacesIn(d) : /\ ElementAt(x, q).name = ElementAt(d, q).name
                             /\ ElementAt(x, q).tag = ElementAt(d, q).tag
  BY <1>1, <1>2
<1>4. \A m, o : Sole(d, m, o) => Sole(x, m, o)
  BY <1>2, <1>3 DEF Sole, Goes, IsTransition
<1> QED  BY <1>2, <1>4

(* A marker or a keyword is read back, and so are those there were.        *)
LEMMA NoteRead ==
    ASSUME NEW d, IsDocument(d), NEW n, NEW p, Sole(d, n, p), NEW note,
           NEW x, x = AddNote(d, n, note).doc
    PROVE  /\ IsDocument(x) /\ HasNote(x, n, note)
           /\ \A m, o : Sole(d, m, o) => Sole(x, m, o)
           /\ \A m, o, w : Sole(d, m, o) /\ HasNote(d, m, w) => HasNote(x, m, w)
<1> DEFINE e == ElementAt(d, p)
<1> DEFINE notes == Append(e.notes, note)
<1> DEFINE new == [e EXCEPT !.notes = notes]
<1>1. x = WithElement(d, p, new)
  BY SoleFound DEF AddNote, EditClip, Edited, Found
<1>2. IsElement(e) /\ e.name = n
  BY PlaceParts DEF Sole
<1>3. IsSequence(notes) /\ note \in ToSet(notes) /\ ToSet(e.notes) \subseteq ToSet(notes)
  <2>1. Len(e.notes) \in Nat /\ DOMAIN e.notes = 1..Len(e.notes) /\ IsSequence(e.notes)
    BY <1>2, Sequences DEF IsElement
  <2> HIDE DEF e
  <2>2. /\ IsSequence(notes) /\ DOMAIN notes = 1..(Len(e.notes) + 1)
        /\ notes[Len(e.notes) + 1] = note /\ \A j \in DOMAIN e.notes : notes[j] = e.notes[j]
    BY <2>1, Appended
  <2> HIDE DEF notes
  <2>3. Len(e.notes) + 1 \in DOMAIN notes /\ DOMAIN e.notes \subseteq DOMAIN notes
    BY <2>1, <2>2
  <2> QED  BY <2>2, <2>3 DEF ToSet
<1>4. /\ IsElement(new) /\ new.kids = e.kids /\ new.name = n /\ new.tag = e.tag
      /\ new.notes = notes
  <2> HIDE DEF notes, e
  <2> QED  BY <1>2, <1>3 DEF IsElement
<1> HIDE DEF new, notes
<1>5. /\ IsDocument(x) /\ Sole(x, n, p) /\ ElementAt(x, p) = new
      /\ \A q \in PlacesIn(d) : q # p => ElementAt(x, q).notes = ElementAt(d, q).notes
      /\ \A m, o : Sole(d, m, o) => Sole(x, m, o)
  BY <1>1, <1>4, SoleChanged
<1>6. HasNote(x, n, note)
  BY <1>3, <1>4, <1>5, SoleFound DEF HasNote
<1>7. ASSUME NEW m, NEW o, NEW w, Sole(d, m, o), HasNote(d, m, w)
      PROVE  HasNote(x, m, w)
  <2>1. w \in ToSet(ElementAt(d, o).notes)
    BY <1>7, SoleFound DEF HasNote
  <2>2. w \in ToSet(ElementAt(x, o).notes)
    <3>1. CASE o = p
      BY <1>3, <1>4, <1>5, <2>1, <3>1
    <3>2. CASE o # p
      BY <1>5, <1>7, <2>1, <3>2 DEF Sole
    <3> QED  BY <3>1, <3>2
  <2>3. Sole(x, m, o)
    BY <1>5, <1>7
  <2> QED  BY <1>5, <2>2, <2>3, SoleFound DEF HasNote
<1> QED  BY <1>5, <1>6, <1>7

(* A batch of markers is.                                                  *)
LEMMA MarkersRead ==
    ASSUME NEW d, IsDocument(d), NEW markers, IsSequence(markers),
           \A k \in DOMAIN markers : \E p : Sole(d, markers[k].name, p)
    PROVE  \A k \in DOMAIN markers :
              HasNote(BatchAddMarkers(d, markers).doc, markers[k].name, markers[k].note)
<1> DEFINE N == Len(markers)
<1>1. N \in Nat /\ DOMAIN markers = 1..N
  BY Sequences
<1>2. PICK D : /\ D[0] = d /\ D[N] = BatchAddMarkers(d, markers).doc
               /\ \A n \in Nat : n + 1 \in 0..N =>
                     D[n + 1] = AddNote(D[n], markers[n + 1].name, markers[n + 1].note).doc
  BY <1>1, MarkersInTurn
<1> HIDE DEF N
<1> DEFINE Read(n) == /\ IsDocument(D[n])
                      /\ \A m, o : Sole(d, m, o) => Sole(D[n], m, o)
                      /\ \A k \in 1..n : HasNote(D[n], markers[k].name, markers[k].note)
<1> DEFINE S == {n \in Nat : n \in 0..N => Read(n)}
<1>3. 0 \in S
  BY <1>2
<1>4. ASSUME NEW n \in S PROVE n + 1 \in S
  <2>0. n \in Nat
    OBVIOUS
  <2> SUFFICES ASSUME n + 1 \in 0..N PROVE Read(n + 1)
    BY <2>0
  <2>1. n \in 0..N /\ n + 1 \in 1..N /\ \A k \in 1..(n + 1) : k \in 1..N /\ (k \in 1..n \/ k = n + 1)
    BY <1>1, <2>0
  <2>2. Read(n)
    BY <2>1
  <2>3. PICK m, w, p : m = markers[n + 1].name /\ w = markers[n + 1].note /\ Sole(d, m, p)
    BY <1>1, <2>1
  <2>4. D[n + 1] = AddNote(D[n], m, w).doc
    BY <1>2, <2>0, <2>3
  <2>5. /\ IsDocument(D[n + 1]) /\ HasNote(D[n + 1], m, w)
        /\ \A o, q : Sole(D[n], o, q) => Sole(D[n + 1], o, q)
        /\ \A o, q, v : Sole(D[n], o, q) /\ HasNote(D[n], o, v) => HasNote(D[n + 1], o, v)
    BY <2>2, <2>3, <2>4, NoteRead
  <2>6. ASSUME NEW k \in 1..(n + 1)
        PROVE  HasNote(D[n + 1], markers[k].name, markers[k].note)
    <3>1. CASE k = n + 1
      BY <2>3, <2>5, <3>1
    <3>2. CASE k \in 1..n
      <4>1. PICK q : Sole(d, markers[k].name, q)
        BY <1>1, <2>1
      <4> QED  BY <2>2, <2>5, <3>2, <4>1
    <3> QED  BY <2>1, <3>1, <3>2
  <2> QED  BY <2>2, <2>5, <2>6
<1> HIDE DEF S
<1>5. S \in SUBSET Nat
  BY DEF S
<1>6. N \in S /\ N \in 0..N
  <2>1. S = Nat
    <3> HIDE DEF Read
    <3> QED  BY <1>3, <1>4, <1>5, Counting
  <2> QED  BY <1>1, <2>1
<1>7. Read(N)
  BY <1>6 DEF S
<1> QED  BY <1>1, <1>2, <1>7

(* A trimmed clip is read back.                                            *)
LEMMA TrimRead ==
    ASSUME NEW d, IsDocument(d), NEW n, NEW p, Sole(d, n, p), NEW start, NEW dur,
           \A x \in Int : Given(start, x) \in Int /\ Given(dur, x) \in Int
    PROVE  Committed(TrimClip(d, n, start, dur).doc, n)
<1> DEFINE e == ElementAt(d, p)
<1> DEFINE from == Given(start, e.start)
<1> DEFINE long == Given(dur, e.dur)
<1> DEFINE new == [e EXCEPT !.start = from, !.dur = long]
<1>1. /\ IsElement(e) /\ e.name = n
      /\ Find(d, n) = p /\ p # NoPlace
  BY SoleFound, PlaceParts DEF Sole, Found
<1>2. PICK x : x = WithElement(d, p, new)
  OBVIOUS
<1>3. \/ TrimClip(d, n, start, dur).doc = x
      \/ TrimClip(d, n, start, dur).doc = SyncDuration(x, p)
  BY <1>1, <1>2 DEF TrimClip, EditClip, Edited
<1>4. from \in Int /\ long \in Int
  BY <1>1 DEF IsElement
<1> HIDE DEF from, long
<1>5. IsElement(new) /\ new.kids = e.kids /\ new.name = e.name /\ new.tag = e.tag
  <2> HIDE DEF e
  <2> QED  BY <1>1, <1>4, TrimmedElement
<1> HIDE DEF new
<1>6. IsDocument(x) /\ Sole(x, n, p)
  BY <1>1, <1>2, <1>5, SoleChanged
<1>7. PICK y : y = SyncDuration(x, p)
  OBVIOUS
<1>8. /\ IsDocument(y) /\ PlacesIn(y) = PlacesIn(x)
      /\ \A q \in PlacesIn(x) : ElementAt(y, q) = ElementAt(x, q)
  BY <1>6, <1>7, Synced, SameItems
<1>9. Sole(y, n, p)
  BY <1>6, <1>8 DEF Sole
<1> QED  BY <1>3, <1>6, <1>7, <1>8, <1>9, SoleFound

(* A change of speed is read back, in the duration and in the time map.    *)
LEMMA SpeedRead ==
    ASSUME NEW d, IsDocument(d), NEW n, NEW p, Sole(d, n, p), NEW speed,
           speed[1] \in Nat \ {0}, speed[2] \in Nat \ {0},
           NEW x, x = ChangeSpeed(d, n, speed).doc
    PROVE  LET old == ElementAt(d, Find(d, n)).dur
           IN  /\ Committed(x, n)
               /\ CommittedClip(x, n).dur = Scaled(old, speed)
               /\ CommittedClip(x, n).remap = <<Scaled(old, speed), old>>
<1> DEFINE e == ElementAt(d, p)
<1>0. PICK long, map : long = Scaled(e.dur, speed) /\ map = <<long, e.dur>>
  OBVIOUS
<1> DEFINE new == Sped(e, long, map)
<1>1. /\ IsElement(e) /\ e.name = n
      /\ Find(d, n) = p /\ p # NoPlace
  BY SoleFound, PlaceParts DEF Sole, Found
<1>2. x = WithElement(d, p, new)
  BY <1>0, <1>1 DEF ChangeSpeed, EditClip, Edited, Sped
<1>3. long \in Int
  BY <1>0, <1>1, ScaledNumber DEF IsElement
<1>4. /\ IsElement(new) /\ new.kids = e.kids /\ new.name = e.name /\ new.tag = e.tag
      /\ new.dur = long /\ new.remap = map
  <2> HIDE DEF e
  <2> QED  BY <1>1, <1>3, SpedElement
<1> HIDE DEF new
<1>5. IsDocument(x) /\ Sole(x, n, p) /\ ElementAt(x, p) = new
  BY <1>1, <1>2, <1>4, SoleChanged
<1>6. Committed(x, n) /\ CommittedClip(x, n) = new
  BY <1>5, SoleFound
<1> QED  BY <1>0, <1>1, <1>4, <1>6

(* A role is read back.                                                    *)
LEMMA RoleRead ==
    ASSUME NEW d, IsDocument(d), NEW n, NEW p, Sole(d, n, p), NEW role,
           AssignRole(d, n, role).n > 0, NEW x, x = AssignRole(d, n, role).doc
    PROVE  Committed(x, n) /\ CommittedClip(x, n).role = role
<1> DEFINE e == ElementAt(d, p)
<1> DEFINE new == [e EXCEPT !.role = role]
<1>1. /\ IsElement(e) /\ e.name = n
      /\ Find(d, n) = p /\ p # NoPlace
  BY SoleFound, PlaceParts DEF Sole, Found
<1>2. x = WithElement(d, p, new)
  BY <1>1 DEF AssignRole, EditClip, Edited
<1>3. /\ IsElement(new) /\ new.kids = e.kids /\ new.name = e.name /\ new.tag = e.tag
      /\ new.role = role
  <2> HIDE DEF e
  <2> QED  BY <1>1 DEF IsElement
<1> HIDE DEF new
<1>4. IsDocument(x) /\ Sole(x, n, p) /\ ElementAt(x, p) = new
  BY <1>1, <1>2, <1>3, SoleChanged
<1> QED  BY <1>3, <1>4, SoleFound

(* A clip of that name, whichever it is, is read back.                     *)
LEMMA CommittedThere ==
    ASSUME NEW x, IsDocument(x), NEW q \in PlacesIn(x), NEW n,
           ElementAt(x, q).tag \in CheckedTags, ElementAt(x, q).name = n
    PROVE  Committed(x, n)
<1> DEFINE S == {p \in PlacesIn(x) : /\ ElementAt(x, p).tag \in CheckedTags
                                     /\ ElementAt(x, p).name = n}
<1>1. S \in SUBSET PlacesIn(x) /\ S # {} /\ CommittedPlace(x, n) = FirstOf(S)
  BY DEF CommittedPlace
<1> HIDE DEF S
<1>2. CommittedPlace(x, n) \in PlacesIn(x)
  BY <1>1, FirstPlace
<1>3. CommittedPlace(x, n)[1] # 0
  BY <1>2, PlaceParts, DocumentParts
<1> QED  BY <1>3 DEF Committed, NoPlace

(* Both parts of a split are read back.                                    *)
LEMMA SplitRead ==
    ASSUME NEW d, IsDocument(d), NEW n, NEW p, Sole(d, n, p), NEW at \in Int,
           SplitClip(d, n, at).n > 0, NEW x, x = SplitClip(d, n, at).doc
    PROVE  Committed(x, n) /\ Committed(x, Append(n, "split"))
<1>1. PICK e, i : e = ElementAt(d, p) /\ i = Position(p)
  OBVIOUS
<1>2. /\ p \in PlacesIn(d) /\ IsElement(e) /\ e.name = n /\ e.tag \in CheckedTags
      /\ p = Find(d, n)
  BY <1>1, SoleFound, PlaceParts DEF Sole
<1>3. SplitFits(d, n, at)
  BY DEF SplitClip, Edited
<1>4. PICK c : /\ x = WithSiblings(d, p, c)
               /\ IsSequence(c) /\ i \in DOMAIN c /\ i + 1 \in DOMAIN c
               /\ c[i] = FirstPart(e, at) /\ c[i + 1] = SecondPart(e, n, at)
               /\ \A k \in DOMAIN c : IsElement(c[k]) /\ (p[3] = 0 => IsItem(c[k]))
  BY <1>1, <1>2, <1>3, SplitSiblings
<1>5. /\ c[i].tag = e.tag /\ c[i].name = n
      /\ c[i + 1].tag = e.tag /\ c[i + 1].name = Append(n, "split")
  BY <1>2, <1>4, SplitParts
<1>6. IsDocument(x)
  BY <1>2, <1>4, SiblingsDocument
<1>7. /\ Sibling(p, i) \in PlacesIn(x) /\ ElementAt(x, Sibling(p, i)) = c[i]
      /\ Sibling(p, i + 1) \in PlacesIn(x) /\ ElementAt(x, Sibling(p, i + 1)) = c[i + 1]
  BY <1>2, <1>4, SiblingPlaces
<1> QED  BY <1>2, <1>5, <1>6, <1>7, CommittedThere

(* The one element of a name stays where it is when a transition follows.  *)
LEMMA SoleBefore ==
    ASSUME NEW d, IsDocument(d), NEW n, NEW p, Sole(d, n, p),
           NEW t, IsElement(t), IsTransition(t), t.kids = <<>>,
           NEW x, x = InsertAfter(d, p, t)
    PROVE  /\ IsDocument(x) /\ Sole(x, n, p)
           /\ Len(Siblings(x, p)) \in Nat /\ Position(p) + 1 \in 1..Len(Siblings(x, p))
           /\ Siblings(x, p)[Position(p) + 1] = t
<1>1. PICK a, i, c : a = Siblings(d, p) /\ i = Position(p) /\ c = InsertAt(a, i + 1, t)
  OBVIOUS
<1>2. x = WithSiblings(d, p, c)
  BY <1>1 DEF InsertAfter
<1>3. p \in PlacesIn(d) /\ ElementAt(d, p).name = n /\ ElementAt(d, p).tag \in CheckedTags
  BY DEF Sole
<1>4. /\ IsSequence(a) /\ i \in DOMAIN a /\ a[i] = ElementAt(d, p)
      /\ \A j \in DOMAIN a : IsElement(a[j]) /\ (p[3] = 0 => IsItem(a[j]))
      /\ Len(a) \in Nat /\ DOMAIN a = 1..Len(a)
  BY <1>1, <1>3, PlaceParts, Sequences
<1>5. IsItem(t)
  BY DEF IsItem
<1>6. /\ IsSequence(c) /\ Len(c) = Len(a) + 1 /\ DOMAIN c = 1..(Len(a) + 1)
      /\ \A j \in 1..i : c[j] = a[j]
      /\ c[i + 1] = t
      /\ \A j \in (i + 1)..Len(a) : c[j + 1] = a[j]
      /\ \A k \in DOMAIN c : c[k] = t \/ \E j \in DOMAIN a : c[k] = a[j]
  BY <1>1, <1>4, Inserting, InsertedMember
<1>7. \A k \in DOMAIN c : IsElement(c[k]) /\ (p[3] = 0 => IsItem(c[k]))
  BY <1>4, <1>5, <1>6
<1>8. PICK g : g = [j \in DOMAIN c |-> IF j <= i THEN j ELSE IF j = i + 1 THEN 0 ELSE j - 1]
  OBVIOUS
<1>9. ComeFrom(c, a, n, g)
  <2>1. ASSUME NEW j \in DOMAIN c
        PROVE  \/ ~Goes(c[j], n) /\ c[j].kids = <<>>
               \/ /\ g[j] \in DOMAIN a
                  /\ c[j].name = a[g[j]].name /\ c[j].tag = a[g[j]].tag /\ c[j].kids = a[g[j]].kids
    <3>1. CASE j <= i
      BY <1>4, <1>6, <1>8, <3>1
    <3>2. CASE j = i + 1
      BY <1>6, <3>2 DEF Goes
    <3>3. CASE j > i + 1
      <4>1. j - 1 \in (i + 1)..Len(a) /\ j = (j - 1) + 1 /\ g[j] = j - 1
        BY <1>4, <1>6, <1>8, <3>3
      <4>2. c[j] = a[g[j]]
        BY <1>6, <4>1
      <4> QED  BY <1>4, <4>1, <4>2
    <3> QED  BY <1>4, <1>6, <3>1, <3>2, <3>3
  <2> QED  BY <2>1 DEF ComeFrom
<1>10. \A j \in DOMAIN c : g[j] = i => j = i
  BY <1>4, <1>6, <1>8
<1>11. IsDocument(x)
  BY <1>2, <1>3, <1>6, <1>7, SiblingsDocument
<1>12. p \in PlacesIn(x) /\ ElementAt(x, p) = a[i]
  <2>1. i \in DOMAIN c /\ c[i] = a[i]
    BY <1>4, <1>6
  <2>2. Sibling(p, i) = p
    BY <1>1, <1>3, InPlaces DEF Sibling, Position
  <2> QED  BY <1>2, <1>3, <1>6, <1>7, <2>1, <2>2, SiblingPlaces
<1>13. ASSUME NEW q \in PlacesIn(x), Goes(ElementAt(x, q), n) PROVE q = p
  <2>1. /\ Origin(p, g, q) \in PlacesIn(d)
        /\ SameName(ElementAt(x, q), ElementAt(d, Origin(p, g, q)))
        /\ q[1] = p[1] /\ p[3] = 0 => q[2] \in DOMAIN c
        /\ q[1] = p[1] /\ p[3] # 0 /\ q[2] = p[2] /\ q[3] # 0 => q[3] \in DOMAIN c
    BY <1>1, <1>2, <1>3, <1>6, <1>7, <1>9, <1>13, Traced
  <2>2. Origin(p, g, q) = p
    BY <1>13, <2>1 DEF Sole, Goes, SameName, IsTransition
  <2>3. q = <<q[1], q[2], q[3]>> /\ p = <<p[1], p[2], p[3]>>
    BY <1>3, <1>13, InPlaces
  <2>4. CASE q[1] # p[1]
    BY <2>2, <2>4 DEF Origin
  <2>5. CASE q[1] = p[1] /\ p[3] = 0
    <3>1. <<q[1], g[q[2]], q[3]>> = p
      BY <2>2, <2>5 DEF Origin
    <3>2. g[q[2]] = i /\ q[3] = 0
      BY <1>1, <2>3, <2>5, <3>1 DEF Position
    <3>3. q[2] = i /\ i = p[2]
      BY <1>1, <1>10, <2>1, <2>5, <3>2 DEF Position
    <3> QED  BY <2>3, <2>5, <3>2, <3>3
  <2>6. CASE q[1] = p[1] /\ p[3] # 0 /\ q[2] = p[2] /\ q[3] # 0
    <3>1. <<q[1], q[2], g[q[3]]>> = p
      BY <2>2, <2>6 DEF Origin
    <3>2. g[q[3]] = i
      BY <1>1, <2>3, <2>6, <3>1 DEF Position
    <3>3. q[3] = i /\ i = p[3]
      BY <1>1, <1>10, <2>1, <2>6, <3>2 DEF Position
    <3> QED  BY <2>3, <2>6, <3>3
  <2>7. CASE q[1] = p[1] /\ p[3] # 0 /\ ~(q[2] = p[2] /\ q[3] # 0)
    BY <2>2, <2>7 DEF Origin
  <2> QED  BY <2>4, <2>5, <2>6, <2>7
<1>14. Siblings(x, p) = c
  BY <1>2, <1>3, SiblingsTwice
<1>15. Sole(x, n, p)
  BY <1>3, <1>4, <1>12, <1>13 DEF Sole
<1> QED  BY <1>1, <1>4, <1>6, <1>11, <1>14, <1>15

(* A transition is read back where the edit put it.                        *)
LEMMA TransitionRead ==
    ASSUME NEW d, IsDocument(d), NEW n, NEW p, Sole(d, n, p), NEW dur \in Int, NEW ref,
           NEW x, x = AddTransition(d, n, dur, ref).doc
    PROVE  Committed(x, n) /\ JoinedBy(x, n, dur)
<1>1. PICK off : off = ElementAt(d, p).off + ElementAt(d, p).dur
  OBVIOUS
<1>2. PICK t : t = Element("transition", <<"Dissolve">>, ref, 0, off, dur)
  OBVIOUS
<1>3. x = InsertAfter(d, p, t)
  BY <1>1, <1>2, SoleFound DEF AddTransition, Edited
<1>4. IsElement(t) /\ IsTransition(t) /\ t.kids = <<>> /\ t.dur = dur
  BY <1>2, NewElement DEF IsTransition
<1>5. PICK c, i : c = Siblings(x, p) /\ i = Position(p) + 1
  OBVIOUS
<1>6. IsDocument(x) /\ Sole(x, n, p) /\ Len(c) \in Nat /\ i \in 1..Len(c) /\ c[i] = t
  BY <1>3, <1>4, <1>5, SoleBefore
<1>7. Committed(x, n) /\ CommittedPlace(x, n) = p
  BY <1>6, SoleFound
<1>8. SubSeq(c, i, Len(c)) # <<>> /\ SubSeq(c, i, Len(c))[1] = t
  <2>1. PICK T : c \in Seq(T)
    BY <1>5, <1>6, PlaceParts DEF Sole, IsSequence
  <2> DEFINE r == SubSeq(c, i, Len(c))
  <2>2. r \in Seq(T) /\ Len(r) = Len(c) - i + 1 /\ r[1] = c[i]
    BY <1>6, <2>1
  <2>3. Len(<<>>) = 0 /\ Len(r) # 0
    BY <1>6, <2>2
  <2> QED  BY <1>6, <2>2, <2>3
<1> QED  BY <1>4, <1>5, <1>7, <1>8 DEF JoinedBy

-----------------------------------------------------------------------------
(* Deletions, orders and what is added.                                    *)

(* No element goes by that name any more. *)
Gone(d, n) == \A q \in PlacesIn(d) : ~Goes(ElementAt(d, q), n)

(* A deletion removes the one element of a name, and of every other name   *)
(* the one element is still there or was in it.                            *)
LEMMA SoleDeleted ==
    ASSUME NEW d, IsDocument(d), NEW m, NEW p, Sole(d, m, p), NEW x, x = DeleteClip(d, m).doc
    PROVE  /\ IsDocument(x) /\ DOMAIN x.spines = DOMAIN d.spines /\ Gone(x, m)
           /\ \A n : Gone(d, n) => Gone(x, n)
           /\ \A n, o : Sole(d, n, o) => Gone(x, n) \/ \E q : Sole(x, n, q)
<1>1. PICK a, i, c : a = Siblings(d, p) /\ i = Position(p) /\ c = RemoveAt(a, i)
  OBVIOUS
<1>2. x = WithSiblings(d, p, c)
  BY <1>1, SoleFound DEF DeleteClip, Edited, Found
<1>3. p \in PlacesIn(d)
  BY DEF Sole
<1>4. /\ IsSequence(a) /\ i \in DOMAIN a
      /\ \A j \in DOMAIN a : IsElement(a[j]) /\ (p[3] = 0 => IsItem(a[j]))
      /\ Len(a) \in Nat /\ DOMAIN a = 1..Len(a)
  BY <1>1, <1>3, PlaceParts, Sequences
<1>5. PICK g : g = [j \in DOMAIN c |-> IF j < i THEN j ELSE j + 1]
  OBVIOUS
<1>6. IsSequence(c) /\ \A j \in DOMAIN c : g[j] \in DOMAIN a /\ g[j] # i /\ c[j] = a[g[j]]
  <2>1. /\ IsSequence(c) /\ DOMAIN c = 1..(Len(a) - 1)
        /\ \A j \in DOMAIN c : c[j] = IF j < i THEN a[j] ELSE a[j + 1]
    BY <1>1, <1>4, RemovedIndex
  <2> QED  BY <1>4, <1>5, <2>1
<1>7. \A j, k \in DOMAIN c : g[j] = g[k] => j = k
  <2>1. DOMAIN c = 1..(Len(a) - 1)
    BY <1>1, <1>4, RemovedIndex
  <2> QED  BY <1>4, <1>5, <2>1
<1>8. \A k \in DOMAIN c : IsElement(c[k]) /\ (p[3] = 0 => IsItem(c[k]))
  BY <1>4, <1>6
<1>9. \A n : ComeFrom(c, a, n, g)
  BY <1>6 DEF ComeFrom
<1>10. IsDocument(x) /\ DOMAIN x.spines = DOMAIN d.spines
  BY <1>2, <1>3, <1>6, <1>8, SiblingsDocument
<1>11. ASSUME NEW n, NEW q \in PlacesIn(x), Goes(ElementAt(x, q), n)
       PROVE  /\ Origin(p, g, q) \in PlacesIn(d) /\ Origin(p, g, q) # p
              /\ SameName(ElementAt(x, q), ElementAt(d, Origin(p, g, q)))
              /\ Goes(ElementAt(d, Origin(p, g, q)), n)
  <2>1. /\ Origin(p, g, q) \in PlacesIn(d)
        /\ SameName(ElementAt(x, q), ElementAt(d, Origin(p, g, q)))
        /\ q[1] = p[1] /\ p[3] = 0 => q[2] \in DOMAIN c
        /\ q[1] = p[1] /\ p[3] # 0 /\ q[2] = p[2] /\ q[3] # 0 => q[3] \in DOMAIN c
    BY <1>1, <1>2, <1>3, <1>6, <1>8, <1>9, <1>11, Traced
  <2>2. Goes(ElementAt(d, Origin(p, g, q)), n)
    BY <1>11, <2>1 DEF Goes, SameName, IsTransition
  <2>3. ASSUME Origin(p, g, q) = p PROVE FALSE
    <3>1. q = <<q[1], q[2], q[3]>> /\ p = <<p[1], p[2], p[3]>>
      BY <1>3, <1>11, InPlaces
    <3>2. CASE q[1] # p[1]
      BY <2>3, <3>2 DEF Origin
    <3>3. CASE q[1] = p[1] /\ p[3] = 0
      <4>1. <<q[1], g[q[2]], q[3]>> = p
        BY <2>3, <3>3 DEF Origin
      <4>2. g[q[2]] = i
        BY <1>1, <3>1, <3>3, <4>1 DEF Position
      <4> QED  BY <1>6, <2>1, <3>3, <4>2
    <3>4. CASE q[1] = p[1] /\ p[3] # 0 /\ q[2] = p[2] /\ q[3] # 0
      <4>1. <<q[1], q[2], g[q[3]]>> = p
        BY <2>3, <3>4 DEF Origin
      <4>2. g[q[3]] = i
        BY <1>1, <3>1, <3>4, <4>1 DEF Position
      <4> QED  BY <1>6, <2>1, <3>4, <4>2
    <3>5. CASE q[1] = p[1] /\ p[3] # 0 /\ ~(q[2] = p[2] /\ q[3] # 0)
      <4>1. q = p
        BY <2>3, <3>5 DEF Origin
      <4> QED  BY <3>5, <4>1
    <3> QED  BY <3>2, <3>3, <3>4, <3>5
  <2> QED  BY <2>1, <2>2, <2>3
<1>12. Gone(x, m)
  BY <1>11 DEF Gone, Sole
<1>13. \A n : Gone(d, n) => Gone(x, n)
  BY <1>11 DEF Gone
<1>14. ASSUME NEW n, NEW o, Sole(d, n, o), NEW q \in PlacesIn(x), Goes(ElementAt(x, q), n)
       PROVE  Sole(x, n, q)
  <2>1. Origin(p, g, q) = o
    BY <1>11, <1>14 DEF Sole
  <2>2. ElementAt(x, q).name = n /\ ElementAt(x, q).tag \in CheckedTags
    BY <1>11, <1>14, <2>1 DEF Sole, SameName
  <2>3. ASSUME NEW r \in PlacesIn(x), Goes(ElementAt(x, r), n) PROVE r = q
    <3>1. Origin(p, g, r) = o
      BY <1>11, <1>14, <2>3 DEF Sole
    <3> QED  BY <1>1, <1>2, <1>3, <1>6, <1>7, <1>8, <1>9, <1>14, <2>1, <2>3, <3>1, TracedApart
  <2> QED  BY <1>14, <2>2, <2>3 DEF Sole
<1>15. \A n, o : Sole(d, n, o) => Gone(x, n) \/ \E q : Sole(x, n, q)
  BY <1>14 DEF Gone
<1> QED  BY <1>10, <1>12, <1>13, <1>15

(* What is gone is not found.                                              *)
LEMMA GoneMissing ==
    ASSUME NEW d, NEW n, Gone(d, n)
    PROVE  DeleteClip(d, n).doc = d
<1> DEFINE S == {q \in PlacesIn(d) : /\ ElementAt(d, q).tag \in ClipTags
                                     /\ ElementAt(d, q).name = n}
<1>1. \A e : e.tag \in ClipTags => ~IsTransition(e)
  BY DEF ClipTags, IsTransition
<1>2. S = {}
  BY <1>1 DEF Gone, Goes
<1>3. Find(d, n) = NoPlace
  BY <1>2 DEF Find, FirstOf
<1> QED  BY <1>3 DEF DeleteClip, Edited

(* After the deletions no element goes by any of the names.                *)
LEMMA AllDeleted ==
    ASSUME NEW d, IsDocument(d), NEW names, IsSequence(names),
           \A k \in DOMAIN names : \E p : Sole(d, names[k], p), NEW x, x = DeleteClips(d, names).doc
    PROVE  /\ IsDocument(x) /\ DOMAIN x.spines = DOMAIN d.spines
           /\ \A k \in DOMAIN names : Gone(x, names[k])
<1>1. PICK N \in Nat : N = Len(names) /\ DOMAIN names = 1..N
  BY Sequences
<1>2. PICK D : /\ D[0] = d /\ D[N] = x
               /\ \A n \in Nat : n + 1 \in 0..N => D[n + 1] = DeleteClip(D[n], names[n + 1]).doc
  BY <1>1, DeletesInTurn
<1> DEFINE Done(n) == /\ IsDocument(D[n]) /\ DOMAIN D[n].spines = DOMAIN d.spines
                      /\ \A k \in 1..N : Gone(D[n], names[k]) \/ \E q : Sole(D[n], names[k], q)
                      /\ \A k \in 1..n : Gone(D[n], names[k])
<1> DEFINE S == {n \in Nat : n \in 0..N => Done(n)}
<1>3. 0 \in S
  BY SMTT(30), <1>1, <1>2
<1>4. ASSUME NEW n \in S PROVE n + 1 \in S
  <2>0. n \in Nat
    OBVIOUS
  <2> SUFFICES ASSUME n + 1 \in 0..N PROVE Done(n + 1)
    BY <2>0
  <2>1. n \in 0..N /\ n + 1 \in 1..N /\ \A k \in 1..(n + 1) : k \in 1..N /\ (k \in 1..n \/ k = n + 1)
    BY <1>1, <2>0
  <2>2. Done(n)
    BY <2>1
  <2>3. PICK m, y, z : m = names[n + 1] /\ y = D[n] /\ z = D[n + 1]
    OBVIOUS
  <2>4. z = DeleteClip(y, m).doc
    BY <1>2, <2>0, <2>3
  <2>5. CASE Gone(y, m)
    <3>1. z = y
      BY <2>4, <2>5, GoneMissing
    <3> QED  BY <2>1, <2>2, <2>3, <2>5, <3>1
  <2>6. CASE \E q : Sole(y, m, q)
    <3>1. /\ IsDocument(z) /\ DOMAIN z.spines = DOMAIN y.spines /\ Gone(z, m)
          /\ \A o : Gone(y, o) => Gone(z, o)
          /\ \A o, q : Sole(y, o, q) => Gone(z, o) \/ \E r : Sole(z, o, r)
      BY <2>2, <2>3, <2>4, <2>6, SoleDeleted
    <3> QED  BY <2>1, <2>2, <2>3, <3>1
  <2> QED  BY <2>1, <2>2, <2>3, <2>5, <2>6
<1> HIDE DEF S
<1>5. S \in SUBSET Nat
  BY DEF S
<1>6. S = Nat
  <2> HIDE DEF Done
  <2> QED  BY <1>3, <1>4, <1>5, Counting
<1>7. Done(N)
  BY <1>1, <1>6 DEF S
<1> QED  BY <1>1, <1>2, <1>7

(* What a name of the primary spine is of.                                 *)
LEMMA PrimaryNamed ==
    ASSUME NEW d, IsDocument(d), d.spines # <<>>, NEW n, n \in ToSet(PrimaryNames(d))
    PROVE  \E i \in DOMAIN d.spines[1].items : Goes(d.spines[1].items[i], n) /\ <<1, i, 0>> \in PlacesIn(d)
<1>0. 1 \in DOMAIN d.spines
  BY DocumentParts
<1>1. PICK items : items = d.spines[1].items
  OBVIOUS
<1>2. PICK I : I = {k \in DOMAIN items : ~IsTransition(items[k])}
  OBVIOUS
<1>3. PICK clips : clips = Selected(items, I)
  OBVIOUS
<1>4. PrimaryNames(d) = [k \in DOMAIN clips |-> clips[k].name]
  BY <1>1, <1>2, <1>3 DEF PrimaryNames
<1>5. PICK k \in DOMAIN clips : clips[k].name = n
  BY <1>4 DEF ToSet
<1>6. PICK h : Picks(items, I, h)
  BY <1>0, <1>1, Selecting DEF IsSequence, IsDocument, IsSpine
<1>7. PICK i \in I : i \in DOMAIN items /\ clips[k] = items[i]
  BY <1>3, <1>5, <1>6 DEF Picks
<1>8. Len(items[i].kids) \in Nat
  BY <1>0, <1>1, <1>7, DocumentParts
<1>9. <<1, i, 0>> \in PlacesIn(d)
  BY <1>0, <1>1, <1>7, <1>8, InPlaces
<1> QED  BY <1>1, <1>2, <1>5, <1>7, <1>9 DEF Goes

(* A deletion is read back.                                                *)
LEMMA DeletionRead ==
    ASSUME NEW d, IsDocument(d), d.spines # <<>>, NEW names, IsSequence(names),
           \A k \in DOMAIN names : \E p : Sole(d, names[k], p), NEW x, x = DeleteClips(d, names).doc
    PROVE  ToSet(names) \cap ToSet(PrimaryNames(x)) = {}
<1>1. /\ IsDocument(x) /\ DOMAIN x.spines = DOMAIN d.spines
      /\ \A k \in DOMAIN names : Gone(x, names[k])
  BY AllDeleted
<1>2. x.spines # <<>>
  <2>1. 1 \in DOMAIN d.spines
    BY DocumentParts
  <2> QED  BY <1>1, <2>1
<1>3. ASSUME NEW n \in ToSet(names), n \in ToSet(PrimaryNames(x)) PROVE FALSE
  <2>1. Gone(x, n)
    BY <1>1 DEF ToSet
  <2>2. PICK i \in DOMAIN x.spines[1].items :
           Goes(x.spines[1].items[i], n) /\ <<1, i, 0>> \in PlacesIn(x)
    BY <1>1, <1>2, <1>3, PrimaryNamed
  <2>3. ElementAt(x, <<1, i, 0>>) = x.spines[1].items[i]
    BY DEF ElementAt
  <2> QED  BY <2>1, <2>2, <2>3 DEF Gone
<1> QED  BY <1>3

(* The names of the first items, when none of those is a transition.       *)
LEMMA PrimaryBegins ==
    ASSUME NEW d, IsDocument(d), d.spines # <<>>, NEW m \in Nat,
           NEW items, items = d.spines[1].items, 1..m \subseteq DOMAIN items,
           \A k \in 1..m : ~IsTransition(items[k])
    PROVE  /\ IsSequence(PrimaryNames(d)) /\ m <= Len(PrimaryNames(d))
           /\ \A k \in 1..m : PrimaryNames(d)[k] = items[k].name
<1>1. 1 \in DOMAIN d.spines
  BY DocumentParts
<1>2. PICK T : items \in Seq(T)
  BY <1>1 DEF IsDocument, IsSpine, IsSequence
<1>3. PICK I, b, P : /\ I = {k \in DOMAIN items : ~IsTransition(items[k])}
                     /\ b = Selected(items, I)
                     /\ P = [k \in DOMAIN b |-> b[k].name]
  OBVIOUS
<1>4. b \in Seq(T)
  BY <1>2, <1>3, Selecting
<1>5. 1..m \subseteq I \cap DOMAIN items
  BY <1>3
<1>6. m <= Len(b) /\ \A k \in 1..m : b[k] = items[k]
  BY SMTT(30), <1>2, <1>3, <1>5, SelectedPrefix
<1>7. Len(b) \in Nat /\ DOMAIN b = 1..Len(b)
  BY <1>4
<1>8. P = [k \in 1..Len(b) |-> P[k]] /\ \A k \in 1..Len(b) : P[k] = b[k].name
  BY <1>3, <1>7
<1>9. IsSequence(P) /\ Len(P) = Len(b)
  BY <1>7, <1>8, SequenceFrom
<1>10. PrimaryNames(d) = P
  BY <1>3 DEF PrimaryNames
<1> QED  BY <1>6, <1>7, <1>8, <1>9, <1>10

(* The order asked for is the order read back.                             *)
LEMMA OrderRead ==
    ASSUME NEW d, IsDocument(d), d.spines # <<>>, NEW names, IsSequence(names),
           ToSet(names) \subseteq ToSet(PrimaryNames(d)), NEW x, x = ReorderClips(d, names).doc
    PROVE  IsPrefix(names, PrimaryNames(x))
<1>1. PICK a, N : a = d.spines[1].items /\ N = Len(names)
  OBVIOUS
<1>2. /\ 1 \in DOMAIN d.spines /\ IsSequence(a) /\ \A i \in DOMAIN a : IsItem(a[i])
      /\ N \in Nat /\ DOMAIN names = 1..N
  <2>1. 1 \in DOMAIN d.spines
    BY DocumentParts
  <2>2. IsSpine(d.spines[1])
    BY <2>1, DocumentParts
  <2>3. N \in Nat /\ DOMAIN names = 1..N
    BY <1>1, Sequences
  <2> QED  BY <1>1, <2>1, <2>2, <2>3 DEF IsSpine
<1>3. PICK moved, others, b : /\ moved = InOrder(a, names) /\ others = Rest(a, names)
                              /\ b = moved \o others
  OBVIOUS
<1>4. x = [d EXCEPT !.spines[1].items = Relay(b)]
  BY <1>1, <1>3, ReorderClipsMade
<1>5. IsSequence(b) /\ \A m \in DOMAIN b : \E i \in DOMAIN a : b[m] = a[i]
  BY <1>2, <1>3, Reordered
<1>6. \A i \in DOMAIN b : IsItem(b[i])
  BY <1>2, <1>5
<1>7. PICK c : c = Relay(b)
  OBVIOUS
<1>8. /\ IsSequence(c) /\ DOMAIN c = DOMAIN b
      /\ \A i \in DOMAIN b : IsItem(c[i]) /\ c[i].tag = b[i].tag /\ c[i].name = b[i].name
  BY <1>5, <1>6, <1>7, RelaidLooks
<1>10. IsDocument(x) /\ DOMAIN x.spines = DOMAIN d.spines /\ x.spines[1].items = c
  <2> DEFINE w == [d EXCEPT !.spines[1].items = c]
  <2>1. IsDocument(w) /\ DOMAIN w.spines = DOMAIN d.spines /\ w.spines[1].items = c
    BY <1>2, <1>8, NewItems
  <2>2. x = w
    BY <1>4, <1>7
  <2> HIDE DEF w
  <2> QED  BY <2>1, <2>2
<1>11. \A k \in DOMAIN names : \E i \in DOMAIN a : IsListed(a[i], names) /\ a[i].name = names[k]
  <2>1. ASSUME NEW k \in DOMAIN names
        PROVE  \E i \in DOMAIN a : IsListed(a[i], names) /\ a[i].name = names[k]
    <3>1. names[k] \in ToSet(names) /\ names[k] \in ToSet(PrimaryNames(d))
      BY DEF ToSet
    <3>2. PICK i \in DOMAIN a : Goes(a[i], names[k])
      BY <1>1, <3>1, PrimaryNamed
    <3> QED  BY <3>1, <3>2 DEF Goes, IsListed
  <2> QED  BY <2>1
<1>12. PICK K, present : K = Wanted(a, names) /\ present = Selected(names, K)
  OBVIOUS
<1>13. 1..N \subseteq K \cap DOMAIN names
  BY <1>2, <1>11, <1>12 DEF Wanted
<1>14. /\ present \in Seq(ToSet(names)) /\ N <= Len(present)
       /\ \A k \in 1..N : present[k] = names[k]
  BY <1>2, <1>12, <1>13, Selecting, SelectedPrefix DEF IsSequence
<1>15. Len(present) \in Nat /\ DOMAIN present = 1..Len(present)
  BY <1>14
<1>16. moved = [k \in DOMAIN present |-> a[Slot(a, names, present[k])]]
  BY <1>3, <1>12 DEF InOrder
<1>17. \A k \in 1..N : ~IsTransition(moved[k]) /\ moved[k].name = names[k]
  <2>1. ASSUME NEW k \in 1..N PROVE ~IsTransition(moved[k]) /\ moved[k].name = names[k]
    <3>1. PICK i \in DOMAIN a : IsListed(a[i], names) /\ a[i].name = names[k]
      BY <1>2, <1>11
    <3>2. PICK m : m = Slot(a, names, names[k])
      OBVIOUS
    <3>3. IsListed(a[m], names) /\ a[m].name = names[k]
      BY <1>2, <3>1, <3>2, SlotFound
    <3>4. k \in DOMAIN present
      BY <1>2, <1>14, <1>15
    <3>5. moved[k] = a[m]
      BY <1>14, <1>16, <3>2, <3>4
    <3> QED  BY <3>3, <3>5 DEF IsListed
  <2> QED  BY <2>1
<1>18. 1..N \subseteq DOMAIN b /\ \A k \in 1..N : b[k] = moved[k]
  <2>1. others \in Seq(ToSet(a))
    BY <1>2, <1>3, ItemsOf, Selecting DEF Rest
  <2>2. PICK T : T = ToSet(a) \cup {moved[k] : k \in DOMAIN present}
    OBVIOUS
  <2>3. Len(moved) = Len(present) /\ moved \in Seq(T)
    <3>1. \A k \in 1..Len(present) : moved[k] \in T
      BY <1>15, <2>2
    <3>2. moved = [k \in 1..Len(present) |-> moved[k]]
      BY <1>15, <1>16
    <3>3. moved \in [1..Len(present) -> T]
      BY <3>1, <3>2
    <3> QED  BY <1>15, <3>3
  <2>4. others \in Seq(T)
    BY <2>1, <2>2
  <2>5. /\ b \in Seq(T) /\ Len(b) = Len(moved) + Len(others)
        /\ \A j \in 1..Len(moved) : b[j] = moved[j]
    <3>1. moved \in Seq(T) /\ others \in Seq(T)
      BY <2>3, <2>4
    <3> QED  BY <1>3, <3>1, Concatenated
  <2> QED  BY <1>2, <1>14, <1>15, <2>3, <2>4, <2>5
<1>19. 1..N \subseteq DOMAIN c /\ \A k \in 1..N : ~IsTransition(c[k]) /\ c[k].name = names[k]
  BY <1>8, <1>17, <1>18 DEF IsTransition
<1>20. x.spines # <<>>
  BY <1>2, <1>10
<1>21. /\ IsSequence(PrimaryNames(x)) /\ N <= Len(PrimaryNames(x))
       /\ \A k \in 1..N : PrimaryNames(x)[k] = names[k]
  BY <1>2, <1>10, <1>19, <1>20, PrimaryBegins
<1> QED  BY <1>1, <1>2, <1>21, Begins

(* A new title or sound is read back where it was asked for.               *)
LEMMA AddedRead ==
    ASSUME NEW d, IsDocument(d), NEW side \in {"start", "end", "after"}, NEW name,
           NEW e, IsItem(e), Named(d, e.name) = {},
           side = "after" => name \in ToSet(PrimaryNames(d)) /\ \E p : Sole(d, name, p),
           AddElement(d, side, name, e).n > 0,
           NEW op, op.side = side, op.text = e.name, side = "after" => op.name = name,
           NEW x, x = AddElement(d, side, name, e).doc
    PROVE  AddedReadsBack(x, op, e.tag, e.ref, e.dur) /\ x.labels = d.labels
<1>1. d.spines # <<>>
  BY DEF AddElement, Edited
<1>2. PICK a : a = d.spines[1].items
  OBVIOUS
<1>3. /\ 1 \in DOMAIN d.spines
      /\ \A k \in DOMAIN a : IsItem(a[k]) /\ a[k].name # e.name
      /\ Len(a) \in Nat /\ DOMAIN a = 1..Len(a)
  <2>1. 1 \in DOMAIN d.spines
    BY <1>1, DocumentParts
  <2>2. \A k \in DOMAIN a : IsItem(a[k]) /\ Len(a[k].kids) \in Nat
    BY <1>2, <2>1, DocumentParts
  <2>3. ASSUME NEW k \in DOMAIN a, a[k].name = e.name PROVE FALSE
    <3>1. <<1, k, 0>> \in PlacesIn(d)
      BY <1>2, <2>1, <2>2, InPlaces
    <3>2. ElementAt(d, <<1, k, 0>>) = a[k]
      BY <1>2 DEF ElementAt
    <3> QED  BY <2>3, <3>1, <3>2 DEF Named
  <2>4. Len(a) \in Nat /\ DOMAIN a = 1..Len(a)
    BY <1>2, <2>1, DocumentParts
  <2> QED  BY <2>1, <2>2, <2>3, <2>4
<1>4. PICK i : side = "after" => i \in DOMAIN a /\ Find(d, name) = <<1, i, 0>> /\ a[i].name = name
  <2>1. CASE side = "after"
    <3>1. PICK k \in DOMAIN a : Goes(a[k], name) /\ <<1, k, 0>> \in PlacesIn(d)
      BY <1>1, <1>2, <2>1, PrimaryNamed
    <3>2. PICK p : Sole(d, name, p)
      BY <2>1
    <3>3. ElementAt(d, <<1, k, 0>>) = a[k]
      BY <1>2 DEF ElementAt
    <3>4. p = <<1, k, 0>>
      BY <3>1, <3>2, <3>3 DEF Sole
    <3> QED  BY <3>1, <3>2, <3>4, SoleFound DEF Goes
  <2> QED  BY <2>1
<1>5. /\ x.spines # <<>> /\ x.labels = d.labels
      /\ \E c, m : Added(a, c, e, m, side, i) /\ x.spines[1].items = Relay(c)
  <2>1. AfterItem(d, side, name, i)
    BY <1>2, <1>4 DEF AfterItem
  <2> QED  BY <1>1, <1>2, <2>1, AddedItems
<1>6. PICK c, m : Added(a, c, e, m, side, i) /\ x.spines[1].items = Relay(c)
  BY <1>5
<1>7. /\ IsSequence(c) /\ m \in DOMAIN c /\ c[m] = e /\ Len(c) \in Nat /\ DOMAIN c = 1..Len(c)
      /\ \A j \in DOMAIN c : j # m => c[j].name # e.name
      /\ \A j \in DOMAIN c : IsItem(c[j])
  BY <1>3, <1>6, Sequences DEF Added
<1> DEFINE items == x.spines[1].items
<1>8. /\ DOMAIN items = DOMAIN c /\ Len(items) = Len(c)
      /\ \A j \in DOMAIN c : /\ items[j].tag = c[j].tag /\ items[j].name = c[j].name
                             /\ items[j].ref = c[j].ref /\ items[j].dur = c[j].dur
  <2> HIDE DEF items
  <2>1. items = Relay(c)
    BY <1>6 DEF items
  <2> QED  BY <1>7, <2>1, RelaidLooks
<1> DEFINE I == {j \in 1..Len(items) : /\ items[j].tag = e.tag /\ items[j].name = op.text
                                       /\ items[j].ref = e.ref /\ items[j].dur = e.dur}
<1>9. I = {m} /\ Min(I) = m
  <2>1. \A j \in 1..Len(items) : j \in I <=> j = m
    <3> HIDE DEF items
    <3> QED  BY <1>7, <1>8
  <2>2. m \in 1..Len(items) /\ Len(items) \in Nat
    BY <1>7, <1>8
  <2>3. I = {m}
    BY <2>1, <2>2
  <2> HIDE DEF I
  <2>4. {m} \in SUBSET (1..Len(items)) /\ {m} # {}
    BY <2>2
  <2>5. Min({m}) \in {m}
    BY <2>2, <2>4, FirstAndLast
  <2> QED  BY <2>3, <2>5
<1>10. SelectInSeq(items, LAMBDA o : /\ o.tag = e.tag /\ o.name = op.text
                                     /\ o.ref = e.ref /\ o.dur = e.dur) = m
  <2>1. SelectInSeq(items, LAMBDA o : /\ o.tag = e.tag /\ o.name = op.text
                                      /\ o.ref = e.ref /\ o.dur = e.dur) = IF I # {} THEN Min(I) ELSE 0
    BY DEF SelectInSeq
  <2> HIDE DEF I, items
  <2> QED  BY <1>9, <2>1
<1>11. m # 0
  BY <1>7
<1>12. /\ side = "start" => m = 1
       /\ side = "end" => m = Len(items)
       /\ side = "after" => m > 1 /\ items[m - 1].name = name
  <2>1. (side = "start" => m = 1) /\ (side = "end" => m = Len(items))
    BY <1>6, <1>8 DEF Added
  <2>2. CASE side = "after"
    <3>1. m = i + 1 /\ c[i] = a[i] /\ i \in 1..Len(a)
      BY <1>3, <1>4, <1>6, <2>2 DEF Added
    <3>2. m > 1 /\ m - 1 = i /\ i \in DOMAIN c
      BY <1>3, <1>7, <3>1
    <3> QED  BY <1>4, <1>8, <2>2, <3>1, <3>2
  <2> QED  BY <2>1, <2>2
<1>13. AddedReadsBack(x, op, e.tag, e.ref, e.dur)
  BY <1>5, <1>10, <1>11, <1>12 DEF AddedReadsBack
<1> QED  BY <1>5, <1>13

-----------------------------------------------------------------------------
(* Every tool.                                                             *)

(* The names of a document do not depend on its labels.                    *)
LEMMA Relabelled ==
    ASSUME NEW d, NEW y, y.spines = d.spines
    PROVE  /\ \A n : Named(y, n) = Named(d, n)
           /\ \A n, p : Sole(d, n, p) => Sole(y, n, p)
           /\ PrimaryNames(y) = PrimaryNames(d)
<1>1. PlacesIn(y) = PlacesIn(d) /\ \A p : ElementAt(y, p) = ElementAt(d, p)
  BY DEF PlacesIn, ElementAt
<1> QED  BY <1>1 DEF Named, Sole, PrimaryNames

(* A title is read back where it was asked for.                            *)
LEMMA TitleRead ==
    ASSUME NEW d, IsDocument(d), NEW side \in {"start", "end", "after"}, NEW name, NEW text,
           NEW dur \in Int, Named(d, text) = {},
           side = "after" => name \in ToSet(PrimaryNames(d)) /\ \E p : Sole(d, name, p),
           AddTitle(d, side, name, text, dur).n > 0,
           NEW op, op.side = side, op.text = text, side = "after" => op.name = name,
           NEW x, x = AddTitle(d, side, name, text, dur).doc
    PROVE  AddedReadsBack(x, op, "title", "title", dur)
<1> DEFINE e == Element("title", text, "title", 0, 0, dur)
<1> DEFINE f == [e EXCEPT !.role = "Titles"]
<1> DEFINE z == [d EXCEPT !.labels = Append(@, <<"Basic", "Title">>)]
<1>1. AddTitle(d, side, name, text, dur) = AddElement(d, side, name, f)
      \/ AddTitle(d, side, name, text, dur) = AddElement(z, side, name, f)
  BY DEF AddTitle
<1>2. IsItem(e) /\ e.tag = "title" /\ e.name = text /\ e.ref = "title" /\ e.dur = dur
  BY NewElement
<1> HIDE DEF e
<1>3. IsItem(f) /\ f.tag = "title" /\ f.name = text /\ f.ref = "title" /\ f.dur = dur
  BY <1>2 DEF IsItem, IsElement
<1> HIDE DEF f
<1>4. IsDocument(z) /\ z.spines = d.spines
  <2>1. IsSequence(d.labels)
    BY DEF IsDocument
  <2> QED  BY <2>1, Appended, OtherLabels
<1> HIDE DEF z
<1>5. PICK y : /\ IsDocument(y) /\ y.spines = d.spines
               /\ AddTitle(d, side, name, text, dur) = AddElement(y, side, name, f)
  BY <1>1, <1>4
<1>6. /\ Named(y, f.name) = {}
      /\ side = "after" => name \in ToSet(PrimaryNames(y)) /\ \E p : Sole(y, name, p)
  BY <1>3, <1>5, Relabelled
<1>7. AddElement(y, side, name, f).n > 0 /\ x = AddElement(y, side, name, f).doc
  BY <1>5
<1>8. AddedReadsBack(x, op, f.tag, f.ref, f.dur)
  BY <1>3, <1>5, <1>6, <1>7, AddedRead
<1> QED  BY <1>3, <1>8

(* So is a sound, and the asset it plays.                                  *)
LEMMA AudioRead ==
    ASSUME NEW d, IsDocument(d), NEW side \in {"start", "end", "after"}, NEW name, NEW text,
           NEW dur, Given(dur, 0) \in Int, Named(d, text) = {},
           side = "after" => name \in ToSet(PrimaryNames(d)) /\ \E p : Sole(d, name, p),
           AddAudio(d, side, name, text, dur).n > 0,
           NEW op, op.side = side, op.text = text, side = "after" => op.name = name,
           NEW x, x = AddAudio(d, side, name, text, dur).doc
    PROVE  /\ AddedReadsBack(x, op, "asset-clip", "audio", Given(dur, 0))
           /\ text \in ToSet(x.labels)
<1> DEFINE long == Given(dur, 0)
<1> DEFINE e == Element("asset-clip", text, "audio", 0, 0, long)
<1> DEFINE f == [e EXCEPT !.role = "Music"]
<1> DEFINE labels == Append(d.labels, text)
<1> DEFINE y == [d EXCEPT !.labels = labels]
<1>1. AddAudio(d, side, name, text, dur) = AddElement(y, side, name, f)
  BY DEF AddAudio
<1>2. /\ IsItem(e) /\ e.tag = "asset-clip" /\ e.name = text /\ e.ref = "audio"
      /\ e.dur = Given(dur, 0)
  BY NewElement
<1> HIDE DEF e
<1>3. /\ IsItem(f) /\ f.tag = "asset-clip" /\ f.name = text /\ f.ref = "audio"
      /\ f.dur = Given(dur, 0)
  BY <1>2 DEF IsItem, IsElement
<1> HIDE DEF f
<1>4. IsSequence(labels) /\ text \in ToSet(labels)
  <2>1. IsSequence(d.labels) /\ Len(d.labels) \in Nat
    BY Sequences DEF IsDocument
  <2>2. /\ IsSequence(labels) /\ DOMAIN labels = 1..(Len(d.labels) + 1)
        /\ labels[Len(d.labels) + 1] = text
    BY <2>1, Appended
  <2> HIDE DEF labels
  <2>3. Len(d.labels) + 1 \in DOMAIN labels
    BY <2>1, <2>2
  <2> QED  BY <2>2, <2>3 DEF ToSet
<1> HIDE DEF labels
<1>5. IsDocument(y) /\ y.spines = d.spines /\ y.labels = labels
  BY <1>4, OtherLabels DEF IsDocument
<1> HIDE DEF y
<1>6. /\ Named(y, f.name) = {}
      /\ side = "after" => name \in ToSet(PrimaryNames(y)) /\ \E p : Sole(y, name, p)
  BY <1>3, <1>5, Relabelled
<1>7. AddElement(y, side, name, f).n > 0 /\ x = AddElement(y, side, name, f).doc
  BY <1>1
<1>8. AddedReadsBack(x, op, f.tag, f.ref, f.dur) /\ x.labels = labels
  BY <1>3, <1>5, <1>6, <1>7, AddedRead
<1> QED  BY <1>3, <1>4, <1>8

(* A document with one of the names has a primary spine.                   *)
LEMMA NamedSpine ==
    ASSUME NEW d, IsDocument(d), NEW names, IsSequence(names), names # <<>>,
           \A k \in DOMAIN names : \E p : Sole(d, names[k], p)
    PROVE  d.spines # <<>>
<1>1. 1 \in DOMAIN names
  <2>1. names \in Seq(ToSet(names))
    BY DEF IsSequence
  <2> QED  BY <2>1
<1>2. PICK p : Sole(d, names[1], p)
  BY <1>1
<1>3. p[1] \in DOMAIN d.spines
  BY <1>2, PlaceParts DEF Sole
<1> QED  BY <1>3

(* What a sensible call did is read back from the document it made.        *)
LEMMA SensibleReadsBack ==
    ASSUME NEW d, IsDocument(d), NEW op, Asked(op), Applies(d, op), Sensible(d, op)
    PROVE  ReadsBack(EditOf(d, op).doc, op, d)
<1>0. PICK req \in Requests : op = req.op
  BY DEF Asked
<1> DEFINE x == EditOf(d, op).doc
<1>1. \A n \in TargetsOf(op) : \E p : Sole(d, n, p)
  BY PlainSole DEF Sensible
<1>2. CASE op.kind \in {"add_marker", "add_keyword"}
  <2>1. EditOf(d, op) = AddNote(d, op.name, [kind |-> op.note, start |-> op.start])
    BY <1>2 DEF EditOf
  <2>2. PICK p : Sole(d, op.name, p)
    BY <1>1, <1>2 DEF TargetsOf
  <2>3. HasNote(x, op.name, [kind |-> op.note, start |-> op.start])
    BY <2>1, <2>2, NoteRead
  <2> QED  BY <1>2, <2>3 DEF ReadsBack, MarkerReadsBack, KeywordReadsBack
<1>3. CASE op.kind = "batch_add_markers"
  <2>1. EditOf(d, op) = BatchAddMarkers(d, op.markers)
    BY <1>3 DEF EditOf
  <2>2. IsSequence(op.markers)
    BY <1>0, <1>3, OperationsAssumption
  <2>3. TargetsOf(op) = {m.name : m \in ToSet(op.markers)}
    BY <1>3 DEF TargetsOf
  <2>4. \A k \in DOMAIN op.markers : \E p : Sole(d, op.markers[k].name, p)
    BY <1>1, <2>3 DEF ToSet
  <2>5. \A k \in DOMAIN op.markers : HasNote(x, op.markers[k].name, op.markers[k].note)
    BY <2>1, <2>2, <2>4, MarkersRead
  <2>6. MarkersReadBack(x, op)
    BY <2>5 DEF MarkersReadBack, ToSet
  <2> QED  BY <1>3, <2>6 DEF ReadsBack
<1>4. CASE op.kind = "trim_clip"
  <2>1. EditOf(d, op) = TrimClip(d, op.name, op.new_start, op.new_dur)
    BY <1>4 DEF EditOf
  <2>2. PICK p : Sole(d, op.name, p)
    BY <1>1, <1>4 DEF TargetsOf
  <2>3. Given(op.new_start, 0) \in Int /\ Given(op.new_dur, 0) \in Int
    BY <1>0, <1>4, OperationsAssumption
  <2>4. \A v \in Int : Given(op.new_start, v) \in Int /\ Given(op.new_dur, v) \in Int
    BY <2>3 DEF Given
  <2>5. Committed(x, op.name)
    BY <2>1, <2>2, <2>4, TrimRead
  <2> QED  BY <1>4, <2>5 DEF ReadsBack, TrimReadsBack
<1>5. CASE op.kind = "split_clip"
  <2>1. EditOf(d, op) = SplitClip(d, op.name, op.at)
    BY <1>5 DEF EditOf
  <2>2. PICK p : Sole(d, op.name, p)
    BY <1>1, <1>5 DEF TargetsOf
  <2>3. op.at \in Int /\ SplitClip(d, op.name, op.at).n > 0
    BY <1>0, <1>5, <2>1, OperationsAssumption DEF Applies
  <2>4. Committed(x, op.name) /\ Committed(x, Append(op.name, "split"))
    BY <2>1, <2>2, <2>3, SplitRead
  <2> QED  BY <1>5, <2>4 DEF ReadsBack, SplitReadsBack
<1>6. CASE op.kind = "delete_clips"
  <2>1. EditOf(d, op) = DeleteClips(d, op.names)
    BY <1>6 DEF EditOf
  <2>2. IsSequence(op.names) /\ op.names # <<>>
    BY <1>0, <1>6, OperationsAssumption DEF Asked, ArgumentsValid
  <2>3. \A k \in DOMAIN op.names : \E p : Sole(d, op.names[k], p)
    BY <1>1, <1>6 DEF TargetsOf, ToSet
  <2>4. d.spines # <<>>
    BY <2>2, <2>3, NamedSpine
  <2>5. DeletionReadsBack(x, op)
    BY <2>1, <2>2, <2>3, <2>4, DeletionRead DEF DeletionReadsBack
  <2> QED  BY <1>6, <2>5 DEF ReadsBack
<1>7. CASE op.kind = "reorder_clips"
  <2>1. EditOf(d, op) = ReorderClips(d, op.names)
    BY <1>7 DEF EditOf
  <2>2. IsSequence(op.names) /\ op.names # <<>>
    BY <1>0, <1>7, OperationsAssumption DEF Asked, ArgumentsValid
  <2>3. \A k \in DOMAIN op.names : \E p : Sole(d, op.names[k], p)
    BY <1>1, <1>7 DEF TargetsOf, ToSet
  <2>4. d.spines # <<>> /\ ToSet(op.names) \subseteq ToSet(PrimaryNames(d))
    BY <1>7, <2>2, <2>3, NamedSpine DEF Sensible
  <2>5. OrderReadsBack(x, op)
    BY <2>1, <2>2, <2>4, OrderRead DEF OrderReadsBack
  <2> QED  BY <1>7, <2>5 DEF ReadsBack
<1>8. CASE op.kind = "add_transition"
  <2>1. EditOf(d, op) = AddTransition(d, op.name, op.dur, "none")
    BY <1>8 DEF EditOf
  <2>2. PICK p : Sole(d, op.name, p)
    BY <1>1, <1>8 DEF TargetsOf
  <2>3. op.dur \in Int
    BY <1>0, <1>8, OperationsAssumption
  <2>4. TransitionReadsBack(x, op)
    BY <2>1, <2>2, <2>3, TransitionRead DEF TransitionReadsBack
  <2> QED  BY <1>8, <2>4 DEF ReadsBack
<1>9. CASE op.kind = "change_speed"
  <2>1. EditOf(d, op) = ChangeSpeed(d, op.name, op.speed)
    BY <1>9 DEF EditOf
  <2>2. PICK p : Sole(d, op.name, p)
    BY <1>1, <1>9 DEF TargetsOf
  <2>3. op.speed \in Int \X (Nat \ {0}) /\ op.speed[1] > 0
    BY <1>0, <1>9, OperationsAssumption DEF Asked, ArgumentsValid
  <2>4. op.speed[1] \in Nat \ {0} /\ op.speed[2] \in Nat \ {0}
    BY <2>3
  <2>5. SpeedReadsBack(x, op, d)
    BY <2>1, <2>2, <2>4, SpeedRead DEF SpeedReadsBack
  <2> QED  BY <1>9, <2>5 DEF ReadsBack
<1>10. CASE op.kind = "assign_role"
  <2>1. EditOf(d, op) = AssignRole(d, op.name, op.role)
    BY <1>10 DEF EditOf
  <2>2. PICK p : Sole(d, op.name, p)
    BY <1>1, <1>10 DEF TargetsOf
  <2>3. AssignRole(d, op.name, op.role).n > 0
    BY <1>10, <2>1 DEF Applies
  <2>4. RoleReadsBack(x, op)
    BY <2>1, <2>2, <2>3, RoleRead DEF RoleReadsBack
  <2> QED  BY <1>10, <2>4 DEF ReadsBack
<1>11. CASE op.kind \in {"add_title", "add_audio"}
  <2>1. /\ op.side \in {"start", "end", "after"} /\ Named(d, op.text) = {}
        /\ EditOf(d, op).n > 0
    BY <1>0, <1>11, OperationsAssumption DEF Sensible, Applies
  <2>2. op.side = "after" => op.name \in ToSet(PrimaryNames(d)) /\ \E p : Sole(d, op.name, p)
    <3>1. op.side = "after" => TargetsOf(op) = {op.name}
      BY <1>11 DEF TargetsOf
    <3> QED  BY <1>1, <1>11, <3>1 DEF Sensible
  <2>3. CASE op.kind = "add_title"
    <3>1. EditOf(d, op) = AddTitle(d, op.side, op.name, op.text, op.dur)
      BY <2>3 DEF EditOf
    <3>2. op.dur \in Int
      BY <1>0, <2>3, OperationsAssumption
    <3>3. AddedReadsBack(x, op, "title", "title", op.dur)
      BY <2>1, <2>2, <3>1, <3>2, TitleRead
    <3> QED  BY <2>3, <3>3 DEF ReadsBack, TitleReadsBack
  <2>4. CASE op.kind = "add_audio"
    <3>1. EditOf(d, op) = AddAudio(d, op.side, op.name, op.text, op.new_dur)
      BY <2>4 DEF EditOf
    <3>2. Given(op.new_dur, 0) \in Int
      BY <1>0, <2>4, OperationsAssumption
    <3>3. /\ AddedReadsBack(x, op, "asset-clip", "audio", Given(op.new_dur, 0))
          /\ op.text \in ToSet(x.labels)
      BY <2>1, <2>2, <3>1, <3>2, AudioRead
    <3> QED  BY <2>4, <3>3 DEF ReadsBack, AudioReadsBack
  <2> QED  BY <1>11, <2>3, <2>4
<1>12. CASE op.kind \in {"reformat", "fix_flash_frames", "fill_gaps", "remove_silence",
                         "batch_rename_clips", "batch_assign_roles", "batch_apply_transition"}
  BY <1>12 DEF ReadsBack
<1>13. op.kind \in {"add_marker", "add_keyword", "batch_add_markers", "trim_clip",
                    "split_clip", "delete_clips", "reorder_clips", "add_transition",
                    "change_speed", "assign_role", "reformat", "fix_flash_frames",
                    "fill_gaps", "remove_silence", "batch_rename_clips",
                    "batch_assign_roles", "batch_apply_transition", "add_title",
                    "add_audio"}
  BY <1>0, OperationsAssumption
<1> QED  BY <1>2, <1>3, <1>4, <1>5, <1>6, <1>7, <1>8, <1>9, <1>10, <1>11, <1>12, <1>13

-----------------------------------------------------------------------------
(* A sensible call of a tool that looks again finds what its edit did, as  *)
(* long as the file it looks at is what it wrote (_server_runtime.py):     *)
(* CheckAgreesWithEdit for every document, any number of elements and      *)
(* servers, every tool and its arguments.                                  *)
THEOREM CheckAgrees == Spec => CheckAgreesWithEdit
<1> DEFINE Agrees == \A s \in Servers :
              /\ call[s].pc = "committed" /\ call'[s].pc = "broken"
              /\ files[call[s].dst] \in {call[s].made} \ {NoFile}
              => ~Sensible(call[s].base, call[s].op)
<1>1. ToolInv /\ DataInv /\ [Next]_vars => [Agrees]_vars
  <2> SUFFICES ASSUME ToolInv, DataInv, [Next]_vars,
                      NEW s \in Servers, call[s].pc = "committed", call'[s].pc = "broken",
                      files[call[s].dst] = call[s].made, call[s].made # NoFile,
                      Sensible(call[s].base, call[s].op)
               PROVE  FALSE
    OBVIOUS
  <2> DEFINE c == call[s]
  <2>1. DOMAIN c = CallFields
    BY DEF ToolInv, CallFits
  <2>2. ReadBack(s)
    <3>0. DOMAIN call = Servers
      BY DEF ToolInv
    <3>1. Next
      BY DEF vars
    <3>2. PICK t \in Servers : \/ Begin(t) \/ Reject(t) \/ Stage(t) \/ RefuseCandidate(t)
                              \/ TakeBackup(t) \/ Replace(t) \/ Revalidate(t) \/ Rollback(t)
                              \/ ReadBack(t) \/ FailOperation(t)
      BY <3>1 DEF Next
    <3>3. CASE Replace(t) \/ Rollback(t)
      <4>1. t # s
        BY <3>3 DEF Replace, Rollback
      <4>2. call'[s] = Disturbed(t, call[t].dst)[s]
        BY <3>3, <4>1 DEF Replace, Rollback, Disturbed
      <4>3. call'[s] = call[s] \/ call'[s] = [call[s] EXCEPT !.alone = FALSE]
        BY <4>2 DEF Disturbed
      <4>4. call'[s].pc = call[s].pc
        BY <2>1, <4>3 DEF CallFields
      <4> QED  BY <4>4
    <3>4. CASE ~(Replace(t) \/ Rollback(t))
      <4>1. t = s
        BY <3>0, <3>2, <3>4 DEF Begin, Reject, Stage, RefuseCandidate, TakeBackup, Revalidate,
                                ReadBack, FailOperation, Moved
      <4> QED  BY <3>2, <3>4, <4>1 DEF Begin, Reject, Stage, RefuseCandidate, TakeBackup,
                                       Revalidate, FailOperation
    <3> QED  BY <3>3, <3>4
  <2>3. /\ Asked(c.op) /\ IsDocument(c.base) /\ Applies(c.base, c.op)
        /\ c.made = EditOf(c.base, c.op).doc
    BY <2>1 DEF DataInv, CallData
  <2>4. ReadsBack(c.made, c.op, c.base)
    BY <2>3, SensibleReadsBack
  <2>5. call'[s].pc = "success"
    BY <2>1, <2>2, <2>4 DEF ReadBack, Moved, ToolInv, CallFields
  <2> QED  BY <2>5
<1>2. ToolInv /\ DataInv /\ [Next]_vars => DataInv'
  BY DataStep
<1> QED  BY <1>1, <1>2, DataInit, ToolsHold, PTL DEF Spec, CheckAgreesWithEdit

=============================================================================
