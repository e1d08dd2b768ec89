--------------------------- MODULE EditPlanProofs ---------------------------
(***************************************************************************)
(* A plan of rearranging operations plays its source again, and every      *)
(* receipt names what its operation changed, whatever the documents, the   *)
(* operations and the length of the plan are.                              *)
(***************************************************************************)
EXTENDS EditPlan, TimelineProofs

Kinds == {"add_marker", "add_keyword", "trim_clip", "split_clip", "delete_clips",
          "reorder_clips", "add_transition", "change_speed", "assign_role",
          "batch_assign_roles", "batch_rename_clips", "fill_gaps", "fix_flash_frames",
          "batch_apply_transition"}

(* What _preflight_operation has made sure of, whatever the inventory was. *)
Fits(op) ==
    /\ op \in Operations
    /\ op.kind \in Kinds
    /\ op.kind = "split_clip" => op.at \in Nat \ {0}
    /\ op.kind \in {"add_transition", "batch_apply_transition"} => op.dur \in Nat
    /\ op.kind = "fix_flash_frames" => op.min \in Nat
    /\ op.kind = "trim_clip" => \A x \in Int : /\ Given(op.new_start, x) \in Int
                                               /\ Given(op.new_dur, x) \in Int

(* The preflight accepts only operations that fit.                         *)
LEMMA AcceptedFits ==
    ASSUME NEW i, NEW op \in Operations, Accepts(i, op)
    PROVE  Fits(op)
<1>0. TimeLimit \in Nat
  BY TimeLimitAssumption
<1>1. CASE AcceptsNote(i, op)
  BY <1>1 DEF AcceptsNote, Fits, Kinds
<1>2. CASE AcceptsTrim(i, op)
  <2>1. op.kind = "trim_clip"
    BY <1>2 DEF AcceptsTrim
  <2>2. /\ Given(op.new_start, Clip(i, op.name).start) \in Int
        /\ Given(op.new_dur, Clip(i, op.name).dur) \in Int
    BY <1>0, <1>2 DEF AcceptsTrim, Nonnegative, Positive
  <2>3. ASSUME NEW x \in Int PROVE Given(op.new_start, x) \in Int /\ Given(op.new_dur, x) \in Int
    BY <2>2 DEF Given
  <2> QED  BY <2>1, <2>3 DEF Fits, Kinds
<1>3. CASE AcceptsSplit(i, op)
  <2>1. op.kind = "split_clip" /\ op.at \in 1..TimeLimit
    BY <1>3 DEF AcceptsSplit, Positive
  <2> QED  BY <1>0, <2>1 DEF Fits, Kinds
<1>4. CASE AcceptsDelete(i, op)
  BY <1>4 DEF AcceptsDelete, Fits, Kinds
<1>5. CASE AcceptsReorder(i, op)
  <2>1. op.kind = "reorder_clips"
    BY <1>5 DEF AcceptsReorder
  <2> QED  BY <2>1 DEF Fits, Kinds
<1>6. CASE AcceptsTransition(i, op)
  <2>1. op.kind = "add_transition" /\ op.dur \in 1..TimeLimit
    BY <1>6 DEF AcceptsTransition, Positive
  <2> QED  BY <1>0, <2>1 DEF Fits, Kinds
<1>7. CASE AcceptsSpeed(i, op)
  <2>1. op.kind = "change_speed"
    BY <1>7 DEF AcceptsSpeed
  <2> QED  BY <2>1 DEF Fits, Kinds
<1>8. CASE AcceptsRole(i, op)
  BY <1>8 DEF AcceptsRole, Fits, Kinds
<1>9. CASE AcceptsBatchNames(op)
  BY <1>9 DEF AcceptsBatchNames, Fits, Kinds
<1>10. CASE AcceptsFill(i, op)
  <2>1. op.kind = "fill_gaps"
    BY <1>10 DEF AcceptsFill
  <2> QED  BY <2>1 DEF Fits, Kinds
<1>11. CASE AcceptsFlash(i, op)
  <2>1. op.kind = "fix_flash_frames" /\ op.min \in 1..TimeLimit
    BY <1>11 DEF AcceptsFlash, Positive
  <2> QED  BY <1>0, <2>1 DEF Fits, Kinds
<1>12. CASE AcceptsBatchTransition(i, op)
  <2>1. op.kind = "batch_apply_transition" /\ op.dur \in 1..TimeLimit
    BY <1>12 DEF AcceptsBatchTransition, Positive
  <2> QED  BY <1>0, <2>1 DEF Fits, Kinds
<1> QED  BY <1>1, <1>2, <1>3, <1>4, <1>5, <1>6, <1>7, <1>8, <1>9, <1>10, <1>11, <1>12 DEF Accepts

(* The document an executor leaves is the edit's, or the one it was given. *)
LEMMA RunMakes ==
    ASSUME NEW d, NEW op, op.kind \in Kinds
    PROVE  \/ Run(d, op).doc = d
           \/ /\ op.kind \in {"add_marker", "add_keyword"}
              /\ Run(d, op).doc = AddNote(d, op.name, [kind |-> op.note, start |-> op.start]).doc
           \/ /\ op.kind = "trim_clip"
              /\ Run(d, op).doc = TrimClip(d, op.name, op.new_start, op.new_dur).doc
           \/ /\ op.kind = "split_clip"
              /\ Run(d, op).doc = SplitClip(d, op.name, op.at).doc
           \/ /\ op.kind = "delete_clips"
              /\ Run(d, op).doc = DeleteClips(d, op.names).doc
           \/ /\ op.kind = "reorder_clips"
              /\ Run(d, op) = RunReorder(d, op)
              /\ Run(d, op).doc = ReorderClips(d, op.names).doc
           \/ /\ op.kind = "add_transition"
              /\ Run(d, op).doc = AddTransition(d, op.name, op.dur, op.ref).doc
           \/ /\ op.kind = "change_speed"
              /\ Run(d, op).doc = ChangeSpeed(d, op.name, op.speed).doc
           \/ /\ op.kind = "assign_role"
              /\ Run(d, op).doc = AssignRole(d, op.name, op.role).doc
           \/ /\ op.kind = "batch_assign_roles"
              /\ Run(d, op).doc = BatchAssignRoles(d, op.rules).doc
           \/ /\ op.kind = "batch_rename_clips"
              /\ Run(d, op).doc = BatchRename(d, op.pattern, op.with).doc
           \/ /\ op.kind = "fill_gaps"
              /\ Run(d, op).doc = FillGaps(d, op.ref, op.name).doc
           \/ /\ op.kind = "fix_flash_frames"
              /\ Run(d, op).doc = FixFlashFrames(d, op.min).doc
           \/ /\ op.kind = "batch_apply_transition"
              /\ Run(d, op).doc = BatchApplyTransition(d, op.dur, op.ref).doc
<1>1. CASE NeedsTarget(op) /\ ~Found(d, op.name)
  BY <1>1 DEF Run, Outcome
<1>2. CASE ~(NeedsTarget(op) /\ ~Found(d, op.name))
  <2> USE <1>2
  <2>1. CASE op.kind \in {"add_marker", "add_keyword"}
    <3>1. Run(d, op) = RunNote(d, op)
      BY <2>1 DEF Run
    <3> QED  BY <2>1, <3>1 DEF RunNote, Outcome
  <2>2. CASE op.kind = "trim_clip"
    <3>1. Run(d, op) = RunTrim(d, op)
      BY <2>2 DEF Run
    <3> QED  BY <2>2, <3>1 DEF RunTrim, Outcome
  <2>3. CASE op.kind = "split_clip"
    <3>1. Run(d, op) = RunSplit(d, op)
      BY <2>3 DEF Run
    <3> QED  BY <2>3, <3>1 DEF RunSplit, Outcome
  <2>4. CASE op.kind = "delete_clips"
    <3>1. Run(d, op) = RunDelete(d, op)
      BY <2>4 DEF Run
    <3> QED  BY <2>4, <3>1 DEF RunDelete, Outcome
  <2>5. CASE op.kind = "reorder_clips"
    <3>1. Run(d, op) = RunReorder(d, op)
      BY <2>5 DEF Run
    <3>2. RunReorder(d, op).doc = ReorderClips(d, op.names).doc
      BY DEF RunReorder, Outcome
    <3> QED  BY <2>5, <3>1, <3>2
  <2>6. CASE op.kind = "add_transition"
    <3>1. Run(d, op) = RunTransition(d, op)
      BY <2>6 DEF Run
    <3> QED  BY <2>6, <3>1 DEF RunTransition, Outcome
  <2>7. CASE op.kind = "change_speed"
    <3>1. Run(d, op) = RunSpeed(d, op)
      BY <2>7 DEF Run
    <3> QED  BY <2>7, <3>1 DEF RunSpeed, Outcome
  <2>8. CASE op.kind = "assign_role"
    <3>1. Run(d, op) = RunRole(d, op)
      BY <2>8 DEF Run
    <3> QED  BY <2>8, <3>1 DEF RunRole, Outcome
  <2>9. CASE op.kind = "batch_assign_roles"
    <3>1. Run(d, op) = RunBatchRoles(d, op)
      BY <2>9 DEF Run
    <3> QED  BY <2>9, <3>1 DEF RunBatchRoles, Outcome
  <2>10. CASE op.kind = "batch_rename_clips"
    <3>1. Run(d, op) = RunRename(d, op)
      BY <2>10 DEF Run
    <3> QED  BY <2>10, <3>1 DEF RunRename, Outcome
  <2>11. CASE op.kind = "fill_gaps"
    <3>1. Run(d, op) = RunFill(d, op)
      BY <2>11 DEF Run
    <3> QED  BY <2>11, <3>1 DEF RunFill, Outcome
  <2>12. CASE op.kind = "fix_flash_frames"
    <3>1. Run(d, op) = RunFlash(d, op)
      BY <2>12 DEF Run
    <3> QED  BY <2>12, <3>1 DEF RunFlash, Outcome
  <2>13. CASE op.kind = "batch_apply_transition"
    <3>1. Run(d, op) = RunBatchTransition(d, op)
      BY <2>13 DEF Run
    <3> QED  BY <2>13, <3>1 DEF RunBatchTransition, Outcome
  <2> QED  BY <2>1, <2>2, <2>3, <2>4, <2>5, <2>6, <2>7, <2>8, <2>9, <2>10, <2>11, <2>12, <2>13
           DEF Kinds
<1> QED  BY <1>1, <1>2

(* What the executor of a fitting operation leaves is a document.          *)
LEMMA RunDocument ==
    ASSUME NEW d, IsDocument(d), NEW op, Fits(op)
    PROVE  IsDocument(Run(d, op).doc)
<1> DEFINE x == Run(d, op).doc
<1>0. op.kind \in Kinds /\ op \in Operations
  BY DEF Fits
<1> HIDE DEF x
<1>1. CASE x = d
  BY <1>1 DEF x
<1>2. CASE op.kind \in {"add_marker", "add_keyword"} /\ x # d
  <2>1. x = AddNote(d, op.name, [kind |-> op.note, start |-> op.start]).doc
    BY <1>0, <1>2, RunMakes DEF x
  <2> QED  BY <2>1, AddNoteCarries DEF Carries, SamePlay, x
<1>3. CASE op.kind = "trim_clip" /\ x # d
  <2>1. x = TrimClip(d, op.name, op.new_start, op.new_dur).doc
    BY <1>0, <1>3, RunMakes DEF x
  <2> QED  BY <1>3, <2>1, TrimDocument DEF Fits, x
<1>4. CASE op.kind = "split_clip" /\ x # d
  <2>1. x = SplitClip(d, op.name, op.at).doc
    BY <1>0, <1>4, RunMakes DEF x
  <2>2. op.at \in Int
    BY <1>4 DEF Fits
  <2> QED  BY <2>1, <2>2, SplitDocument DEF x
<1>5. CASE op.kind = "delete_clips" /\ x # d
  <2>1. x = DeleteClips(d, op.names).doc
    BY <1>0, <1>5, RunMakes DEF x
  <2>2. Len(op.names) \in Nat
    BY <1>0, <1>5, OperationsAssumption, Sequences
  <2> QED  BY <2>1, <2>2, DeletesDocument DEF x
<1>6. CASE op.kind = "reorder_clips" /\ x # d
  <2>1. x = ReorderClips(d, op.names).doc
    BY <1>0, <1>6, RunMakes DEF x
  <2>2. IsSequence(op.names)
    BY <1>0, <1>6, OperationsAssumption
  <2> QED  BY <2>1, <2>2, ReorderDocument DEF x
<1>7. CASE op.kind = "add_transition" /\ x # d
  <2>1. x = AddTransition(d, op.name, op.dur, op.ref).doc
    BY <1>0, <1>7, RunMakes DEF x
  <2>2. op.dur \in Int
    BY <1>7 DEF Fits
  <2> QED  BY <2>1, <2>2, AddTransitionCarries DEF Carries, SamePlay, x
<1>8. CASE op.kind = "change_speed" /\ x # d
  <2>1. x = ChangeSpeed(d, op.name, op.speed).doc
    BY <1>0, <1>8, RunMakes DEF x
  <2>2. op.speed[1] \in Nat \ {0} /\ op.speed[2] \in Nat \ {0}
    BY <1>0, <1>8, OperationsAssumption
  <2> QED  BY <2>1, <2>2, SpeedDocument DEF x
<1>9. CASE op.kind = "assign_role" /\ x # d
  <2>1. x = AssignRole(d, op.name, op.role).doc
    BY <1>0, <1>9, RunMakes DEF x
  <2> QED  BY <2>1, AssignRoleCarries DEF Carries, SamePlay, x
<1>10. CASE op.kind = "batch_assign_roles" /\ x # d
  <2>1. x = BatchAssignRoles(d, op.rules).doc
    BY <1>0, <1>10, RunMakes DEF x
  <2> QED  BY <2>1, BatchAssignRolesCarries DEF Carries, SamePlay, x
<1>11. CASE op.kind = "batch_rename_clips" /\ x # d
  <2>1. x = BatchRename(d, op.pattern, op.with).doc
    BY <1>0, <1>11, RunMakes DEF x
  <2> QED  BY <2>1, BatchRenameCarries DEF Carries, SamePlay, x
<1>12. CASE op.kind = "fill_gaps" /\ x # d
  <2>1. x = FillGaps(d, op.ref, op.name).doc
    BY <1>0, <1>12, RunMakes DEF x
  <2> QED  BY <2>1, FillDocument DEF x
<1>13. CASE op.kind = "fix_flash_frames" /\ x # d
  <2>1. x = FixFlashFrames(d, op.min).doc
    BY <1>0, <1>13, RunMakes DEF x
  <2>2. op.min \in Int
    BY <1>13 DEF Fits
  <2> QED  BY <2>1, <2>2, FlashDocument DEF x
<1>14. CASE op.kind = "batch_apply_transition" /\ x # d
  <2>1. x = BatchApplyTransition(d, op.dur, op.ref).doc
    BY <1>0, <1>14, RunMakes DEF x
  <2>2. op.dur \in Int
    BY <1>14 DEF Fits
  <2> QED  BY <2>1, <2>2, BatchApplyTransitionCarries DEF Carries, SamePlay, x
<1> QED  BY <1>0, <1>1, <1>2, <1>3, <1>4, <1>5, <1>6, <1>7, <1>8, <1>9, <1>10, <1>11, <1>12,
            <1>13, <1>14 DEF Kinds

(* The check of the executor of a reorder: every name stands for one clip. *)
LEMMA ReorderIsClear ==
    ASSUME NEW d, NEW op, RunReorder(d, op).ok
    PROVE  Clear(d.spines[1].items, op.names)
<1> DEFINE before == d.spines[1].items
<1> DEFINE listed == {k \in DOMAIN before : Listed(op, [kind |-> before[k].tag,
                                                        name |-> before[k].name])}
<1>1. \A n \in ToSet(op.names) : \E k \in listed : {m \in listed : before[m].name = n} = {k}
  BY DEF RunReorder, Outcome
<1>2. \A k \in DOMAIN before : k \in listed <=> IsListed(before[k], op.names)
  BY DEF Listed, IsListed, IsTransition
<1> HIDE DEF before, listed
<1>3. ASSUME NEW i \in DOMAIN before, NEW j \in DOMAIN before, IsListed(before[i], op.names),
             IsListed(before[j], op.names), before[i].name = before[j].name
      PROVE  i = j
  <2>1. before[i].name \in ToSet(op.names) /\ i \in listed /\ j \in listed
    BY <1>2, <1>3 DEF IsListed
  <2>2. PICK k \in listed : {m \in listed : before[m].name = before[i].name} = {k}
    BY <1>1, <2>1
  <2>3. i \in {k} /\ j \in {k}
    BY <1>3, <2>1, <2>2
  <2> QED  BY <2>3
<1>4. Clear(before, op.names)
  BY <1>3 DEF Clear
<1> QED  BY <1>4 DEF before

(* An operation that rearranges plays what was played, once it has run. *)
LEMMA RunCarries ==
    ASSUME NEW d, IsDocument(d), Flat(d), NEW op, Fits(op), op.kind \in Rearranging,
           Run(d, op).ok
    PROVE  Carries(d, Run(d, op).doc)
<1> DEFINE x == Run(d, op).doc
<1>0. op.kind \in Kinds /\ op \in Operations
  BY DEF Fits
<1> HIDE DEF x
<1>1. CASE x = d
  BY <1>1, CarriesReflexive DEF x
<1>2. CASE op.kind \in {"add_marker", "add_keyword"} /\ x # d
  <2>1. x = AddNote(d, op.name, [kind |-> op.note, start |-> op.start]).doc
    BY <1>0, <1>2, RunMakes DEF x
  <2> QED  BY <2>1, AddNoteCarries DEF x
<1>4. CASE op.kind = "split_clip" /\ x # d
  <2>1. x = SplitClip(d, op.name, op.at).doc
    BY <1>0, <1>4, RunMakes DEF x
  <2>2. op.at \in Int /\ op.at > 0
    BY <1>4 DEF Fits
  <2>3. ASSUME Found(d, op.name) PROVE ElementAt(d, Find(d, op.name)).kids = <<>>
    <3> DEFINE p == Find(d, op.name)
    <3>1. p \in PlacesIn(d)
      BY <2>3, FoundPlace
    <3> HIDE DEF p
    <3>2. Position(p) \in DOMAIN Siblings(d, p) /\ Siblings(d, p)[Position(p)] = ElementAt(d, p)
      BY <3>1, PlaceParts
    <3>3. \A j \in DOMAIN Siblings(d, p) : Siblings(d, p)[j].kids = <<>>
      BY <3>1, FlatElements
    <3>4. ElementAt(d, p).kids = <<>>
      BY <3>2, <3>3
    <3> QED  BY <3>4 DEF p
  <2> QED  BY <2>1, <2>2, <2>3, SplitCarries DEF x
<1>6. CASE op.kind = "reorder_clips" /\ x # d
  <2>1. x = ReorderClips(d, op.names).doc /\ RunReorder(d, op).ok
    BY <1>0, <1>6, RunMakes DEF x
  <2>2. IsSequence(op.names) /\ IsInjective(op.names)
    BY <1>0, <1>6, OperationsAssumption
  <2>3. Clear(d.spines[1].items, op.names)
    BY <2>1, ReorderIsClear
  <2> QED  BY <2>1, <2>2, <2>3, ReorderClipsCarries DEF x
<1>7. CASE op.kind = "add_transition" /\ x # d
  <2>1. x = AddTransition(d, op.name, op.dur, op.ref).doc
    BY <1>0, <1>7, RunMakes DEF x
  <2>2. op.dur \in Int
    BY <1>7 DEF Fits
  <2> QED  BY <2>1, <2>2, AddTransitionCarries DEF x
<1>9. CASE op.kind = "assign_role" /\ x # d
  <2>1. x = AssignRole(d, op.name, op.role).doc
    BY <1>0, <1>9, RunMakes DEF x
  <2> QED  BY <2>1, AssignRoleCarries DEF x
<1>10. CASE op.kind = "batch_assign_roles" /\ x # d
  <2>1. x = BatchAssignRoles(d, op.rules).doc
    BY <1>0, <1>10, RunMakes DEF x
  <2> QED  BY <2>1, BatchAssignRolesCarries DEF x
<1>11. CASE op.kind = "batch_rename_clips" /\ x # d
  <2>1. x = BatchRename(d, op.pattern, op.with).doc
    BY <1>0, <1>11, RunMakes DEF x
  <2> QED  BY <2>1, BatchRenameCarries DEF x
<1>14. CASE op.kind = "batch_apply_transition" /\ x # d
  <2>1. x = BatchApplyTransition(d, op.dur, op.ref).doc
    BY <1>0, <1>14, RunMakes DEF x
  <2>2. op.dur \in Int
    BY <1>14 DEF Fits
  <2> QED  BY <2>1, <2>2, BatchApplyTransitionCarries DEF x
<1> QED  BY <1>1, <1>2, <1>4, <1>6, <1>7, <1>9, <1>10, <1>11, <1>14 DEF Rearranging

-----------------------------------------------------------------------------

Phases == {"planning", "refused", "executing", "succeeded", "failed"}

OnlyRearranging == \A k \in 1..Len(receipts) : plan[k].kind \in Rearranging

(* The source's footage, carried through the operations run so far. *)
FootageCarried ==
    phase \in {"executing", "succeeded"} /\ Flat(src) /\ OnlyRearranging => Carries(src, tree)

PlanInv ==
    /\ src \in Sources
    /\ plan \in Seq(Operations) /\ \A k \in DOMAIN plan : Fits(plan[k])
    /\ IsDocument(tree)
    /\ phase \in Phases
    /\ IsSequence(receipts)
    /\ phase = "planning" => receipts = <<>> /\ tree = src
    /\ phase = "executing" => Len(receipts) < Len(plan)
    /\ phase = "succeeded" => Len(receipts) = Len(plan)
    /\ FootageCarried

(* A plan starts with its source.                                          *)
LEMMA PlanInit == Init => PlanInv
<1> SUFFICES ASSUME Init PROVE PlanInv
  OBVIOUS
<1>1. src \in Sources /\ plan = <<>> /\ tree = src /\ phase = "planning" /\ receipts = <<>>
  BY DEF Init
<1>2. IsDocument(tree)
  BY <1>1, SourcesAssumption
<1>3. IsSequence(receipts)
  <2>1. receipts \in Seq({})
    BY <1>1
  <2> QED  BY <2>1, SequenceOf
<1> QED  BY <1>1, <1>2, <1>3 DEF PlanInv, FootageCarried, Phases

(* Every step keeps the invariant.                                         *)
LEMMA PlanStep == PlanInv /\ [Next]_vars => PlanInv'
<1> SUFFICES ASSUME PlanInv, [Next]_vars PROVE PlanInv'
  OBVIOUS
<1>0. /\ src \in Sources /\ plan \in Seq(Operations) /\ (\A k \in DOMAIN plan : Fits(plan[k]))
      /\ IsDocument(tree) /\ phase \in Phases /\ IsSequence(receipts)
      /\ (phase = "planning" => receipts = <<>> /\ tree = src)
      /\ (phase = "executing" => Len(receipts) < Len(plan))
      /\ (phase = "succeeded" => Len(receipts) = Len(plan))
      /\ FootageCarried
  BY DEF PlanInv
<1>1. CASE PreflightOperation
  <2>1. PICK op \in Operations : Accepts(inv, op) /\ plan' = Append(plan, op)
    BY <1>1 DEF PreflightOperation
  <2>2. phase = "planning" /\ UNCHANGED <<src, tree, phase, receipts>>
    BY <1>1 DEF PreflightOperation
  <2>3. Fits(op)
    BY <2>1, AcceptedFits
  <2>4. plan' \in Seq(Operations) /\ \A k \in DOMAIN plan' : plan'[k] = op \/ (k \in DOMAIN plan /\ plan'[k] = plan[k])
    BY <1>0, <2>1
  <2>5. \A k \in DOMAIN plan' : Fits(plan'[k])
    BY <1>0, <2>3, <2>4
  <2> QED  BY <1>0, <2>2, <2>4, <2>5 DEF PlanInv, FootageCarried
<1>2. CASE RefuseOperation
  <2>1. /\ phase' = "refused" /\ UNCHANGED <<src, plan, tree>>
        /\ receipts' = <<Receipt(Len(plan) + 1, FALSE, {})>>
    BY <1>2 DEF RefuseOperation
  <2>2. IsSequence(receipts')
    <3> DEFINE r == Receipt(Len(plan) + 1, FALSE, {})
    <3>1. receipts' = <<r>>
      BY <2>1
    <3> HIDE DEF r
    <3>2. <<r>> \in Seq({r})
      OBVIOUS
    <3> QED  BY <3>1, <3>2, SequenceOf
  <2> QED  BY <1>0, <2>1, <2>2 DEF PlanInv, FootageCarried, Phases
<1>3. CASE StartExecution
  <2>1. phase = "planning" /\ plan # <<>> /\ phase' = "executing" /\ UNCHANGED <<src, plan, tree, receipts>>
    BY <1>3 DEF StartExecution
  <2>2. receipts = <<>> /\ tree = src
    BY <1>0, <2>1
  <2>3. Len(receipts) < Len(plan)
    BY <1>0, <2>1, <2>2
  <2>4. Carries(src, tree)
    BY <1>0, <2>2, CarriesReflexive
  <2>5. FootageCarried'
    BY <2>1, <2>4 DEF FootageCarried
  <2> QED  BY <1>0, <2>1, <2>3, <2>5 DEF PlanInv, Phases
<1>4. CASE ExecuteOperation
  <2> DEFINE op == Current
  <2> DEFINE r == Run(tree, op)
  <2>1. /\ phase = "executing" /\ UNCHANGED <<src, plan>>
        /\ r.ok /\ tree' = r.doc
        /\ receipts' = Append(receipts, Receipt(Len(receipts) + 1, TRUE, r.affected))
        /\ phase' = IF Len(receipts') = Len(plan) THEN "succeeded" ELSE phase
    BY <1>4 DEF ExecuteOperation
  <2>2. Len(receipts) \in Nat /\ Len(plan) \in Nat /\ DOMAIN plan = 1..Len(plan)
    BY <1>0, Sequences
  <2>3. Len(receipts) + 1 \in DOMAIN plan /\ Len(receipts) < Len(plan)
    <3>1. Len(receipts) < Len(plan)
      BY <1>0, <2>1
    <3> QED  BY <2>2, <3>1
  <2>4. Fits(op) /\ op = plan[Len(receipts) + 1]
    BY <1>0, <2>3 DEF Current
  <2>5. IsSequence(receipts') /\ Len(receipts') = Len(receipts) + 1
    <3> DEFINE e == Receipt(Len(receipts) + 1, TRUE, r.affected)
    <3>1. receipts' = Append(receipts, e)
      BY <2>1
    <3> HIDE DEF e
    <3> QED  BY <1>0, <3>1, Appended
  <2> HIDE DEF op
  <2>6. IsDocument(tree')
    BY <1>0, <2>1, <2>4, RunDocument
  <2>7. FootageCarried'
    <3> SUFFICES ASSUME Flat(src), \A k \in 1..Len(receipts') : plan[k].kind \in Rearranging
                 PROVE  Carries(src, tree')
      BY <2>1 DEF FootageCarried, OnlyRearranging
    <3>1. OnlyRearranging /\ op.kind \in Rearranging
      BY <2>2, <2>3, <2>4, <2>5 DEF OnlyRearranging
    <3>2. Carries(src, tree)
      BY <1>0, <2>1, <3>1 DEF FootageCarried
    <3>3. Flat(tree)
      BY <3>2 DEF Carries
    <3>4. Carries(tree, tree')
      BY <1>0, <2>1, <2>4, <3>1, <3>3, RunCarries
    <3> QED  BY <3>2, <3>4, CarriesTransitive
  <2>8. /\ phase' \in Phases /\ phase' # "planning"
        /\ (phase' = "executing" => Len(receipts') < Len(plan))
        /\ (phase' = "succeeded" => Len(receipts') = Len(plan))
    <3>1. Len(receipts') <= Len(plan)
      BY <2>2, <2>3, <2>5
    <3>2. phase' = IF Len(receipts') = Len(plan) THEN "succeeded" ELSE "executing"
      BY <2>1
    <3>3. Len(receipts') # Len(plan) => Len(receipts') < Len(plan)
      <4> DEFINE n == Len(receipts')
      <4> DEFINE m == Len(plan)
      <4>1. n \in Nat /\ m \in Nat /\ n <= m
        BY <2>2, <2>5, <3>1
      <4> HIDE DEF n, m
      <4>2. n # m => n < m
        BY <4>1
      <4> QED  BY <4>2 DEF n, m
    <3> QED  BY <3>2, <3>3 DEF Phases
  <2> QED  BY <1>0, <2>1, <2>5, <2>6, <2>7, <2>8 DEF PlanInv
<1>5. CASE FailOperation
  <2> DEFINE op == Current
  <2> DEFINE r == Run(tree, op)
  <2>1. /\ phase = "executing" /\ UNCHANGED <<src, plan>> /\ tree' = r.doc
        /\ receipts' = Append(receipts, Receipt(Len(receipts) + 1, FALSE, {}))
        /\ phase' = "failed"
    BY <1>5 DEF FailOperation
  <2>2. Len(receipts) \in Nat /\ Len(plan) \in Nat /\ DOMAIN plan = 1..Len(plan)
    BY <1>0, Sequences
  <2>3. Len(receipts) + 1 \in DOMAIN plan
    <3>1. Len(receipts) < Len(plan)
      BY <1>0, <2>1
    <3> QED  BY <2>2, <3>1
  <2>4. Fits(op)
    BY <1>0, <2>3 DEF Current
  <2>5. IsSequence(receipts')
    <3> DEFINE e == Receipt(Len(receipts) + 1, FALSE, {})
    <3>1. receipts' = Append(receipts, e)
      BY <2>1
    <3> HIDE DEF e
    <3> QED  BY <1>0, <3>1, Appended
  <2> HIDE DEF op
  <2>6. IsDocument(tree')
    BY <1>0, <2>1, <2>4, RunDocument
  <2> QED  BY <1>0, <2>1, <2>5, <2>6 DEF PlanInv, FootageCarried, Phases
<1>6. CASE UNCHANGED vars
  BY <1>0, <1>6 DEF PlanInv, FootageCarried, OnlyRearranging, vars
<1> QED  BY <1>1, <1>2, <1>3, <1>4, <1>5, <1>6 DEF Next

(* The invariant has the property in it.                                   *)
LEMMA PlanInvConserves == PlanInv => FootageConserved
<1> SUFFICES ASSUME PlanInv, phase \in {"executing", "succeeded"}, Flat(src),
                    \A k \in DOMAIN Executed : Executed[k].kind \in Rearranging
             PROVE  SameFootage(tree, src, TimeLimit)
  BY DEF FootageConserved
<1>1. /\ plan \in Seq(Operations) /\ IsSequence(receipts)
      /\ (phase = "executing" => Len(receipts) < Len(plan))
      /\ (phase = "succeeded" => Len(receipts) = Len(plan))
      /\ FootageCarried
  BY DEF PlanInv
<1>2. Len(receipts) \in Nat /\ Len(plan) \in Nat /\ Len(receipts) <= Len(plan)
  BY <1>1, Sequences
<1>3. DOMAIN Executed = 1..Len(receipts) /\ \A k \in 1..Len(receipts) : Executed[k] = plan[k]
  BY <1>1, <1>2 DEF Executed
<1>4. Carries(src, tree)
  BY <1>1, <1>3 DEF FootageCarried, OnlyRearranging
<1>5. \A t \in -TimeLimit..TimeLimit : t \in Int
  BY TimeLimitAssumption
<1> QED  BY <1>4, <1>5 DEF SameFootage, CountAt, Played, Carries, SamePlay

(* A plan of rearranging operations over a flat timeline plays every frame *)
(* of its source as often as the source does, at every point of its        *)
(* execution (workflow/operations.py: _preflight_operation, the            *)
(* executors): FootageConserved for every source and every length of plan. *)
THEOREM FootageIsConserved == Spec => []FootageConserved
<1>1. PlanInv /\ [Next]_vars => PlanInv'
  BY PlanStep
<1> QED  BY <1>1, PlanInit, PlanInvConserves, PTL DEF Spec

-----------------------------------------------------------------------------
(* Receipts.                                                               *)

(* An element of x is as it was in d, is a transition, or has a name listed. *)
Known(d, e) == \E o \in ElementsIn(d) : Bare(e) = Bare(o)

Told(d, e, names) == IsTransition(e) \/ Known(d, e) \/ e.name \in names

AllTold(d, x, names) == \A e \in ElementsIn(x) : Told(d, e, names)

(* An element of a document is an item of a spine or a clip connected to   *)
(* one.                                                                    *)
LEMMA ElementIs ==
    ASSUME NEW d, IsDocument(d), NEW e
    PROVE  e \in ElementsIn(d) <=>
              \E s \in DOMAIN d.spines : \E i \in DOMAIN d.spines[s].items :
                 \/ e = d.spines[s].items[i]
                 \/ \E k \in DOMAIN d.spines[s].items[i].kids : e = d.spines[s].items[i].kids[k]
<1>1. ASSUME NEW p \in PlacesIn(d)
      PROVE  \E s \in DOMAIN d.spines : \E i \in DOMAIN d.spines[s].items :
                \/ ElementAt(d, p) = d.spines[s].items[i]
                \/ \E k \in DOMAIN d.spines[s].items[i].kids :
                      ElementAt(d, p) = d.spines[s].items[i].kids[k]
  BY PlaceParts DEF ElementAt
<1>2. ASSUME NEW s \in DOMAIN d.spines, NEW i \in DOMAIN d.spines[s].items
      PROVE  /\ d.spines[s].items[i] \in ElementsIn(d)
             /\ \A k \in DOMAIN d.spines[s].items[i].kids :
                   d.spines[s].items[i].kids[k] \in ElementsIn(d)
  <2> DEFINE item == d.spines[s].items[i]
  <2>1. Len(item.kids) \in Nat /\ DOMAIN item.kids = 1..Len(item.kids)
    BY DocumentParts
  <2>2. <<s, i, 0>> \in PlacesIn(d) /\ \A k \in DOMAIN item.kids : <<s, i, k>> \in PlacesIn(d)
    BY <2>1, InPlaces
  <2>3. ElementAt(d, <<s, i, 0>>) = item
    BY DEF ElementAt
  <2>4. \A k \in DOMAIN item.kids : ElementAt(d, <<s, i, k>>) = item.kids[k]
    BY <2>1 DEF ElementAt
  <2> HIDE DEF item
  <2>5. item \in ElementsIn(d) /\ \A k \in DOMAIN item.kids : item.kids[k] \in ElementsIn(d)
    BY <2>2, <2>3, <2>4 DEF ElementsIn
  <2> QED  BY <2>5 DEF item
<1>3. ASSUME e \in ElementsIn(d)
      PROVE  \E s \in DOMAIN d.spines : \E i \in DOMAIN d.spines[s].items :
                \/ e = d.spines[s].items[i]
                \/ \E k \in DOMAIN d.spines[s].items[i].kids : e = d.spines[s].items[i].kids[k]
  <2>1. PICK p \in PlacesIn(d) : e = ElementAt(d, p)
    BY <1>3 DEF ElementsIn
  <2> QED  BY <1>1, <2>1
<1> QED  BY <1>2, <1>3

(* All that Bare looks at. *)
Same(e, o) ==
    /\ e.tag = o.tag /\ e.name = o.name /\ e.ref = o.ref /\ e.start = o.start /\ e.dur = o.dur
    /\ e.role = o.role /\ e.notes = o.notes /\ e.remap = o.remap

(* What is left of an element without its offset and its connected clips.  *)
LEMMA BareIs ==
    ASSUME NEW e, IsElement(e)
    PROVE  Bare(e) = [tag |-> e.tag, name |-> e.name, ref |-> e.ref, start |-> e.start,
                      off |-> 0, dur |-> e.dur, role |-> e.role, notes |-> e.notes,
                      remap |-> e.remap, kids |-> <<>>]
<1> DEFINE e1 == [e EXCEPT !.off = 0]
<1> DEFINE e2 == [e1 EXCEPT !.kids = <<>>]
<1>1. Bare(e) = e2
  BY DEF Bare
<1>2. e1 = [tag |-> e.tag, name |-> e.name, ref |-> e.ref, start |-> e.start,
            off |-> 0, dur |-> e.dur, role |-> e.role, notes |-> e.notes,
            remap |-> e.remap, kids |-> e.kids]
  BY DEF IsElement
<1> HIDE DEF e1
<1>3. e2 = [tag |-> e.tag, name |-> e.name, ref |-> e.ref, start |-> e.start,
            off |-> 0, dur |-> e.dur, role |-> e.role, notes |-> e.notes,
            remap |-> e.remap, kids |-> <<>>]
  BY <1>2
<1> QED  BY <1>1, <1>3

(* Elements that agree in the rest are the same then.                      *)
LEMMA BareAgrees ==
    ASSUME NEW e, IsElement(e), NEW o, IsElement(o), Same(e, o)
    PROVE  Bare(e) = Bare(o)
BY BareIs DEF Same

(* A document whose items and connected clips are told. *)
LEMMA ItemsTold ==
    ASSUME NEW d, NEW x, IsDocument(x), NEW names,
           \A s \in DOMAIN x.spines : \A i \in DOMAIN x.spines[s].items :
              /\ Told(d, x.spines[s].items[i], names)
              /\ \A k \in DOMAIN x.spines[s].items[i].kids :
                    Told(d, x.spines[s].items[i].kids[k], names)
    PROVE  AllTold(d, x, names)
BY ElementIs DEF AllTold

(* A document accounts for itself.                                         *)
LEMMA SelfTold ==
    ASSUME NEW d, NEW names
    PROVE  AllTold(d, d, names)
BY DEF AllTold, Told, Known

(* Other siblings at a place: they and what they carry have to be told. *)
LEMMA SiblingsTold ==
    ASSUME NEW d, IsDocument(d), NEW p \in PlacesIn(d), NEW c, IsSequence(c), NEW names,
           \A j \in DOMAIN c : /\ IsElement(c[j]) /\ Told(d, c[j], names)
                               /\ p[3] = 0 => /\ IsItem(c[j])
                                              /\ \A k \in DOMAIN c[j].kids :
                                                    Told(d, c[j].kids[k], names)
    PROVE  AllTold(d, WithSiblings(d, p, c), names)
<1>0. PICK s, i : s = p[1] /\ i = p[2]
  OBVIOUS
<1>1. s \in DOMAIN d.spines /\ i \in DOMAIN d.spines[s].items
  BY <1>0, PlaceParts
<1>2. \A e \in ElementsIn(d) : Told(d, e, names)
  BY DEF Told, Known
<1>3. \A y \in DOMAIN d.spines : \A j \in DOMAIN d.spines[y].items :
         /\ Told(d, d.spines[y].items[j], names)
         /\ \A k \in DOMAIN d.spines[y].items[j].kids : Told(d, d.spines[y].items[j].kids[k], names)
  BY <1>2, ElementIs
<1>4. CASE p[3] = 0
  <2> DEFINE x == [d EXCEPT !.spines[s].items = c]
  <2>1. WithSiblings(d, p, c) = x
    BY <1>0, <1>4 DEF WithSiblings
  <2>2. /\ IsDocument(x) /\ DOMAIN x.spines = DOMAIN d.spines /\ x.spines[s].items = c
        /\ \A y \in DOMAIN d.spines : y # s => x.spines[y] = d.spines[y]
    BY <1>1, <1>4, NewItems
  <2> HIDE DEF x
  <2>3. \A y \in DOMAIN x.spines : \A j \in DOMAIN x.spines[y].items :
           /\ Told(d, x.spines[y].items[j], names)
           /\ \A k \in DOMAIN x.spines[y].items[j].kids :
                 Told(d, x.spines[y].items[j].kids[k], names)
    BY <1>3, <1>4, <2>2
  <2> QED  BY <2>1, <2>2, <2>3, ItemsTold
<1>5. CASE p[3] # 0
  <2> DEFINE a == d.spines[s].items
  <2> DEFINE item == [a[i] EXCEPT !.kids = c]
  <2> DEFINE b == [a EXCEPT ![i] = item]
  <2> DEFINE x == [d EXCEPT !.spines[s].items = b]
  <2>1. WithSiblings(d, p, c) = [d EXCEPT !.spines[s].items[i].kids = c]
    BY <1>0, <1>5 DEF WithSiblings
  <2>2. WithSiblings(d, p, c) = x /\ IsSequence(b) /\ \A j \in DOMAIN a : IsItem(b[j])
    BY <1>1, <2>1, NewKids
  <2>3. DOMAIN b = DOMAIN a /\ b[i] = item /\ \A j \in DOMAIN a : j # i => b[j] = a[j]
    BY <1>1
  <2>4. IsElement(a[i]) /\ a[i] \in ElementsIn(d)
    BY <1>1, ElementIs, DocumentParts DEF IsItem
  <2>5. item.kids = c /\ IsElement(item) /\ Same(item, a[i])
    <3>1. item = [a[i] EXCEPT !.kids = c] /\ IsElement(a[i])
      BY <2>4
    <3> HIDE DEF a, b, x, item
    <3>2. item.kids = c /\ Same(item, a[i])
      BY <3>1 DEF IsElement, Same
    <3>3. IsElement(item)
      BY <3>1 DEF IsElement
    <3> QED  BY <3>2, <3>3
  <2> HIDE DEF b, item
  <2>6. Told(d, b[i], names)
    BY <2>3, <2>4, <2>5, BareAgrees DEF Told, Known
  <2>7. /\ IsDocument(x) /\ DOMAIN x.spines = DOMAIN d.spines /\ x.spines[s].items = b
        /\ \A y \in DOMAIN d.spines : y # s => x.spines[y] = d.spines[y]
    BY <1>1, <2>2, <2>3, NewItems
  <2> HIDE DEF x
  <2>8. \A j \in DOMAIN b : Told(d, b[j], names) /\ \A k \in DOMAIN b[j].kids : Told(d, b[j].kids[k], names)
    BY <1>1, <1>3, <2>3, <2>5, <2>6
  <2>9. \A y \in DOMAIN x.spines : \A j \in DOMAIN x.spines[y].items :
           /\ Told(d, x.spines[y].items[j], names)
           /\ \A k \in DOMAIN x.spines[y].items[j].kids :
                 Told(d, x.spines[y].items[j].kids[k], names)
    BY <1>3, <2>7, <2>8
  <2> QED  BY <2>2, <2>7, <2>9, ItemsTold
<1> QED  BY <1>4, <1>5

(* The siblings of a place are told, with what they carry. *)
LEMMA SiblingsKnown ==
    ASSUME NEW d, IsDocument(d), NEW p \in PlacesIn(d), NEW names
    PROVE  \A j \in DOMAIN Siblings(d, p) :
              LET o == Siblings(d, p)[j]
              IN  /\ IsElement(o) /\ Told(d, o, names)
                  /\ p[3] = 0 => IsItem(o) /\ \A k \in DOMAIN o.kids : Told(d, o.kids[k], names)
<1>0. PICK s, i : s = p[1] /\ i = p[2]
  OBVIOUS
<1>1. s \in DOMAIN d.spines /\ i \in DOMAIN d.spines[s].items
  BY <1>0, PlaceParts
<1>2. \A e \in ElementsIn(d) : Told(d, e, names)
  BY DEF Told, Known
<1>3. \A y \in DOMAIN d.spines : \A j \in DOMAIN d.spines[y].items :
         /\ Told(d, d.spines[y].items[j], names)
         /\ \A k \in DOMAIN d.spines[y].items[j].kids : Told(d, d.spines[y].items[j].kids[k], names)
  BY <1>2, ElementIs
<1>4. Siblings(d, p) = IF p[3] = 0 THEN d.spines[s].items ELSE d.spines[s].items[i].kids
  BY <1>0 DEF Siblings
<1>5. ASSUME NEW j \in DOMAIN Siblings(d, p)
      PROVE  IsElement(Siblings(d, p)[j]) /\ (p[3] = 0 => IsItem(Siblings(d, p)[j]))
  BY PlaceParts
<1> QED  BY <1>1, <1>3, <1>4, <1>5

(* One element changed,                                                    *)
LEMMA ChangedTold ==
    ASSUME NEW d, IsDocument(d), NEW p \in PlacesIn(d), NEW e, IsElement(e), NEW names,
           Told(d, e, names), e.kids = ElementAt(d, p).kids
    PROVE  AllTold(d, WithElement(d, p, e), names)
<1> DEFINE a == Siblings(d, p)
<1> DEFINE i == Position(p)
<1> DEFINE c == ReplaceAt(a, i, e)
<1>1. IsSequence(a) /\ i \in DOMAIN a /\ a[i] = ElementAt(d, p)
  BY PlaceParts
<1>2. \A j \in DOMAIN a :
         /\ IsElement(a[j]) /\ Told(d, a[j], names)
         /\ p[3] = 0 => IsItem(a[j]) /\ \A k \in DOMAIN a[j].kids : Told(d, a[j].kids[k], names)
  BY SiblingsKnown
<1>3. WithElement(d, p, e) = WithSiblings(d, p, c)
  BY DEF WithElement
<1> HIDE DEF a, i
<1>4. IsSequence(c) /\ DOMAIN c = DOMAIN a /\ c[i] = e /\ \A j \in DOMAIN a : j # i => c[j] = a[j]
  BY <1>1, Replacing DEF ReplaceAt
<1> HIDE DEF c
<1>5. p[3] = 0 => IsItem(e) /\ \A k \in DOMAIN e.kids : Told(d, e.kids[k], names)
  BY <1>1, <1>2 DEF IsItem
<1>6. \A j \in DOMAIN c : /\ IsElement(c[j]) /\ Told(d, c[j], names)
                          /\ p[3] = 0 => IsItem(c[j]) /\ \A k \in DOMAIN c[j].kids :
                                                            Told(d, c[j].kids[k], names)
  BY <1>2, <1>4, <1>5
<1> QED  BY <1>3, <1>4, <1>6, SiblingsTold

(* A duration at another speed is a number.                                *)
LEMMA ScaledWhole ==
    ASSUME NEW dur \in Int, NEW speed, speed[1] \in Nat \ {0}, speed[2] \in Nat \ {0}
    PROVE  Scaled(dur, speed) \in Int
<1> DEFINE twice == 2 * dur * speed[2]
<1> DEFINE n == 2 * speed[1]
<1>1. twice \in Int /\ n \in Nat \ {0}
  OBVIOUS
<1>2. Scaled(dur, speed) = LET down == twice \div n
                               rest == twice % n
                           IN  IF rest < speed[1] THEN down
                               ELSE IF rest > speed[1] THEN down + 1
                               ELSE IF down % 2 = 0 THEN down ELSE down + 1
  BY DEF Scaled
<1> HIDE DEF twice, n
<1>3. twice \div n \in Int
  BY <1>1
<1> DEFINE down == twice \div n
<1> HIDE DEF down
<1>4. down \in Int
  BY <1>3 DEF down
<1>5. Scaled(dur, speed) = down \/ Scaled(dur, speed) = down + 1
  BY <1>2 DEF down
<1> QED  BY <1>4, <1>5

(* or one inserted, and it is told.                                        *)
LEMMA InsertedTold ==
    ASSUME NEW d, IsDocument(d), NEW p \in PlacesIn(d), NEW e, IsElement(e), NEW names,
           Told(d, e, names), e.kids = <<>>
    PROVE  AllTold(d, InsertAfter(d, p, e), names)
<1> DEFINE a == Siblings(d, p)
<1> DEFINE i == Position(p)
<1> DEFINE c == InsertAt(a, i + 1, e)
<1>1. IsSequence(a) /\ i \in DOMAIN a
  BY PlaceParts
<1>2. \A j \in DOMAIN a :
         /\ IsElement(a[j]) /\ Told(d, a[j], names)
         /\ p[3] = 0 => IsItem(a[j]) /\ \A k \in DOMAIN a[j].kids : Told(d, a[j].kids[k], names)
  BY SiblingsKnown
<1>3. InsertAfter(d, p, e) = WithSiblings(d, p, c)
  BY DEF InsertAfter
<1> HIDE DEF a, i
<1>4. IsSequence(c) /\ \A k \in DOMAIN c : c[k] = e \/ \E j \in DOMAIN a : c[k] = a[j]
  BY <1>1, Inserting, InsertedMember
<1> HIDE DEF c
<1>5. IsItem(e) /\ \A k \in DOMAIN e.kids : Told(d, e.kids[k], names)
  BY DEF IsItem
<1>6. \A j \in DOMAIN c : /\ IsElement(c[j]) /\ Told(d, c[j], names)
                          /\ p[3] = 0 => IsItem(c[j]) /\ \A k \in DOMAIN c[j].kids :
                                                            Told(d, c[j].kids[k], names)
  BY <1>2, <1>4, <1>5
<1> QED  BY <1>3, <1>4, <1>6, SiblingsTold

(* A clip that was found by its name and keeps it. *)
LEMMA FoundTold ==
    ASSUME NEW d, IsDocument(d), NEW name, NEW new, NEW names, name \in names,
           LET e == ElementAt(d, Find(d, name))
           IN  IsElement(e) => IsElement(new) /\ new.kids = e.kids /\ new.name = e.name
    PROVE  Found(d, name) => AllTold(d, WithElement(d, Find(d, name), new), names)
<1> SUFFICES ASSUME Found(d, name) PROVE AllTold(d, WithElement(d, Find(d, name), new), names)
  OBVIOUS
<1> DEFINE p == Find(d, name)
<1> DEFINE e == ElementAt(d, p)
<1>1. p \in PlacesIn(d) /\ e.name = name
  BY FoundPlace
<1>2. IsElement(e)
  BY <1>1, PlaceParts
<1>3. IsElement(new) /\ new.kids = e.kids /\ new.name = name
  BY <1>1, <1>2
<1>4. Told(d, new, names)
  BY <1>3 DEF Told
<1> HIDE DEF p, e
<1> QED  BY <1>1, <1>3, <1>4, ChangedTold DEF p, e

(* A marker or keyword changes the clip of that name only;                 *)
LEMMA NoteTold ==
    ASSUME NEW d, IsDocument(d), NEW name, NEW note
    PROVE  AllTold(d, AddNote(d, name, note).doc, {name})
<1> DEFINE p == Find(d, name)
<1> DEFINE e == ElementAt(d, p)
<1> DEFINE notes == Append(e.notes, note)
<1> DEFINE new == [e EXCEPT !.notes = notes]
<1>1. CASE p = NoPlace
  <2>1. AddNote(d, name, note).doc = d
    BY <1>1 DEF AddNote, EditClip, Edited
  <2> QED  BY <2>1, SelfTold
<1>2. CASE p # NoPlace
  <2>1. AddNote(d, name, note).doc = WithElement(d, p, new)
    BY <1>2 DEF AddNote, EditClip, Edited
  <2>2. ASSUME IsElement(e) PROVE IsElement(new) /\ new.kids = e.kids /\ new.name = e.name
    <3>1. IsSequence(notes)
      BY <2>2, Appended DEF IsElement
    <3> HIDE DEF notes, e
    <3> QED  BY <2>2, <3>1 DEF IsElement
  <2> HIDE DEF new
  <2>3. AllTold(d, WithElement(d, p, new), {name})
    BY <1>2, <2>2, FoundTold DEF Found
  <2> QED  BY <2>1, <2>3
<1> QED  BY <1>1, <1>2

(* so does a change of speed.                                              *)
LEMMA SpeedTold ==
    ASSUME NEW d, IsDocument(d), NEW name, NEW speed,
           speed[1] \in Nat \ {0}, speed[2] \in Nat \ {0}
    PROVE  AllTold(d, ChangeSpeed(d, name, speed).doc, {name})
<1> DEFINE p == Find(d, name)
<1> DEFINE e == ElementAt(d, p)
<1> DEFINE dur == Scaled(e.dur, speed)
<1> DEFINE map == <<Scaled(e.dur, speed), e.dur>>
<1> DEFINE new == [e EXCEPT !.dur = dur, !.remap = map]
<1>1. CASE p = NoPlace
  <2>1. ChangeSpeed(d, name, speed).doc = d
    BY <1>1 DEF ChangeSpeed, EditClip, Edited
  <2> QED  BY <2>1, SelfTold
<1>2. CASE p # NoPlace
  <2>1. ChangeSpeed(d, name, speed).doc = WithElement(d, p, new)
    BY <1>2 DEF ChangeSpeed, EditClip, Edited
  <2>2. ASSUME IsElement(e) PROVE IsElement(new) /\ new.kids = e.kids /\ new.name = e.name
    <3>1. e.dur \in Int
      BY <2>2 DEF IsElement
    <3>2. dur \in Int
      BY <3>1, ScaledWhole
    <3> HIDE DEF dur, map
    <3> DEFINE e1 == [e EXCEPT !.dur = dur]
    <3> DEFINE e2 == [e1 EXCEPT !.remap = map]
    <3>3. new = e2
      OBVIOUS
    <3> HIDE DEF new, e
    <3>4. IsElement(e1) /\ e1.kids = e.kids /\ e1.name = e.name
      BY <2>2, <3>2 DEF IsElement
    <3> HIDE DEF e1
    <3>5. IsElement(e2) /\ e2.kids = e1.kids /\ e2.name = e1.name
      BY <3>4 DEF IsElement
    <3> QED  BY <3>3, <3>4, <3>5
  <2> HIDE DEF new
  <2>3. AllTold(d, WithElement(d, p, new), {name})
    BY <1>2, <2>2, FoundTold DEF Found
  <2> QED  BY <2>1, <2>3
<1> QED  BY <1>1, <1>2

(* A role changes the clip of that name, or nothing.                       *)
LEMMA RoleTold ==
    ASSUME NEW d, IsDocument(d), NEW name, NEW role, NEW names,
           Found(d, name) => name \in names \/ ElementAt(d, Find(d, name)).role = role
    PROVE  AllTold(d, AssignRole(d, name, role).doc, names)
<1> DEFINE p == Find(d, name)
<1> DEFINE e == ElementAt(d, p)
<1> DEFINE new == [e EXCEPT !.role = role]
<1>1. CASE p = NoPlace \/ e.tag \notin RoleTags
  <2>1. AssignRole(d, name, role).doc = d
    BY <1>1 DEF AssignRole, Edited, Found
  <2> QED  BY <2>1, SelfTold
<1>2. CASE p # NoPlace /\ e.tag \in RoleTags
  <2>1. AssignRole(d, name, role).doc = WithElement(d, p, new)
    BY <1>2 DEF AssignRole, EditClip, Edited, Found
  <2>2. p \in PlacesIn(d) /\ e.name = name /\ (name \in names \/ e.role = role)
    BY <1>2, FoundPlace DEF Found
  <2>3. IsElement(e)
    BY <2>2, PlaceParts
  <2>4. e \in ElementsIn(d)
    BY <2>2 DEF ElementsIn
  <2> HIDE DEF p, e
  <2>5. IsElement(new) /\ new.kids = e.kids /\ new.name = e.name
    BY <2>3 DEF IsElement
  <2>6. ASSUME e.role = role PROVE new = e
    BY <2>3, <2>6 DEF IsElement
  <2> HIDE DEF new
  <2>7. Told(d, new, names)
    BY <2>2, <2>4, <2>5, <2>6 DEF Told, Known
  <2> QED  BY <2>1, <2>2, <2>5, <2>7, ChangedTold DEF e
<1> QED  BY <1>1, <1>2

(* A transition need not be listed.                                        *)
LEMMA TransitionTold ==
    ASSUME NEW d, IsDocument(d), NEW name, NEW dur \in Int, NEW ref, NEW names
    PROVE  AllTold(d, AddTransition(d, name, dur, ref).doc, names)
<1> DEFINE p == Find(d, name)
<1> DEFINE e == ElementAt(d, p)
<1> DEFINE new == Element("transition", <<"Dissolve">>, ref, 0, e.off + e.dur, dur)
<1>1. CASE p = NoPlace
  <2>1. AddTransition(d, name, dur, ref).doc = d
    BY <1>1 DEF AddTransition, Found, Edited
  <2> QED  BY <2>1, SelfTold
<1>2. CASE p # NoPlace
  <2>1. AddTransition(d, name, dur, ref).doc = InsertAfter(d, p, new)
    BY <1>2 DEF AddTransition, Found, Edited
  <2>2. p \in PlacesIn(d)
    BY <1>2, FoundPlace DEF Found
  <2> HIDE DEF p, e
  <2>3. IsElement(new) /\ new.tag = "transition" /\ new.kids = <<>>
    BY NewElement
  <2> HIDE DEF new
  <2>4. Told(d, new, names)
    BY <2>3 DEF Told, IsTransition
  <2> QED  BY <2>1, <2>2, <2>3, <2>4, InsertedTold
<1> QED  BY <1>1, <1>2

(* Other items in every spine: they and what they carry have to be told. *)
LEMMA SpinesTold ==
    ASSUME NEW d, IsDocument(d), NEW new, NEW names,
           \A s \in DOMAIN d.spines : IsSequence(new[s]),
           \A s \in DOMAIN d.spines : \A i \in DOMAIN new[s] :
              /\ IsItem(new[s][i]) /\ Told(d, new[s][i], names)
              /\ \A k \in DOMAIN new[s][i].kids : Told(d, new[s][i].kids[k], names)
    PROVE  AllTold(d, [d EXCEPT !.spines = [s \in DOMAIN d.spines |-> [d.spines[s] EXCEPT !.items = new[s]]]],
                   names)
<1> DEFINE x == [d EXCEPT !.spines = [s \in DOMAIN d.spines |-> [d.spines[s] EXCEPT !.items = new[s]]]]
<1>1. /\ IsDocument(x) /\ DOMAIN x.spines = DOMAIN d.spines
      /\ \A s \in DOMAIN d.spines : x.spines[s].items = new[s]
  BY OtherSpines
<1> HIDE DEF x
<1>2. AllTold(d, x, names)
  BY <1>1, ItemsTold
<1> QED  BY <1>2 DEF x

(* What a document says of its sequences and labels is no element. *)
LEMMA SameItemsTold ==
    ASSUME NEW d, NEW x, IsDocument(x), NEW y, IsDocument(y), DOMAIN y.spines = DOMAIN x.spines,
           \A s \in DOMAIN x.spines : y.spines[s].items = x.spines[s].items,
           NEW names, AllTold(d, x, names)
    PROVE  AllTold(d, y, names)
<1>1. \A s \in DOMAIN x.spines : \A i \in DOMAIN x.spines[s].items :
         /\ Told(d, x.spines[s].items[i], names)
         /\ \A k \in DOMAIN x.spines[s].items[i].kids : Told(d, x.spines[s].items[i].kids[k], names)
  BY ElementIs DEF AllTold
<1> QED  BY <1>1, ItemsTold

(* Trimming changes the clip, and what its sequence declares.              *)
LEMMA TrimTold ==
    ASSUME NEW d, IsDocument(d), NEW name, NEW start, NEW dur,
           \A x \in Int : Given(start, x) \in Int /\ Given(dur, x) \in Int
    PROVE  AllTold(d, TrimClip(d, name, start, dur).doc, {name})
<1> DEFINE p == Find(d, name)
<1> DEFINE e == ElementAt(d, p)
<1> DEFINE from == Given(start, e.start)
<1> DEFINE long == Given(dur, e.dur)
<1> DEFINE new == [e EXCEPT !.start = from, !.dur = long]
<1> DEFINE cut == EditClip(d, name, LAMBDA x : [x EXCEPT !.start = Given(start, @),
                                                         !.dur = Given(dur, @)])
<1>1. CASE p = NoPlace
  <2>1. TrimClip(d, name, start, dur).doc = d
    BY <1>1 DEF TrimClip, EditClip, Edited
  <2> QED  BY <2>1, SelfTold
<1>2. CASE p # NoPlace
  <2>1. cut.doc = WithElement(d, p, new)
    BY <1>2 DEF EditClip, Edited
  <2>2. ASSUME IsElement(e) PROVE IsElement(new) /\ new.kids = e.kids /\ new.name = e.name
    <3>1. from \in Int /\ long \in Int
      BY <2>2 DEF IsElement
    <3> HIDE DEF from, long
    <3> DEFINE e1 == [e EXCEPT !.start = from]
    <3> DEFINE e2 == [e1 EXCEPT !.dur = long]
    <3>2. new = e2
      OBVIOUS
    <3> HIDE DEF new, e
    <3>3. IsElement(e1) /\ e1.kids = e.kids /\ e1.name = e.name
      BY <2>2, <3>1 DEF IsElement
    <3> HIDE DEF e1
    <3>4. IsElement(e2) /\ e2.kids = e1.kids /\ e2.name = e1.name
      BY <3>1, <3>3 DEF IsElement
    <3> QED  BY <3>2, <3>3, <3>4
  <2>3. p \in PlacesIn(d) /\ p[1] \in DOMAIN d.spines
    BY <1>2, FoundPlace, PlaceParts DEF Found
  <2>4. IsElement(e) /\ (p[3] = 0 => IsItem(e))
    BY <2>3, PlaceParts
  <2>5. IsElement(new) /\ new.kids = e.kids /\ (p[3] = 0 => IsItem(new))
    BY <2>2, <2>4 DEF IsItem
  <2> HIDE DEF new, e
  <2>6. AllTold(d, WithElement(d, p, new), {name})
    BY <1>2, <2>2, FoundTold DEF Found, e
  <2>7. TrimClip(d, name, start, dur).doc = cut.doc \/ TrimClip(d, name, start, dur).doc = SyncDuration(cut.doc, p)
    BY DEF TrimClip, Edited
  <2>8. IsDocument(cut.doc) /\ DOMAIN cut.doc.spines = DOMAIN d.spines
    <3> DEFINE a == Siblings(d, p)
    <3> DEFINE i == Position(p)
    <3> DEFINE c == ReplaceAt(a, i, new)
    <3>1. /\ IsSequence(a) /\ i \in DOMAIN a
          /\ \A j \in DOMAIN a : IsElement(a[j]) /\ (p[3] = 0 => IsItem(a[j]))
      BY <2>3, PlaceParts
    <3>2. WithElement(d, p, new) = WithSiblings(d, p, c)
      BY DEF WithElement
    <3> HIDE DEF a, i
    <3>3. IsSequence(c) /\ DOMAIN c = DOMAIN a /\ c[i] = new /\ \A j \in DOMAIN a : j # i => c[j] = a[j]
      BY <3>1, Replacing DEF ReplaceAt
    <3> HIDE DEF c
    <3>4. \A j \in DOMAIN c : IsElement(c[j]) /\ (p[3] = 0 => IsItem(c[j]))
      BY <2>5, <3>1, <3>3
    <3>5. IsDocument(WithSiblings(d, p, c)) /\ DOMAIN WithSiblings(d, p, c).spines = DOMAIN d.spines
      BY <2>3, <3>3, <3>4, SiblingsDocument
    <3> QED  BY <2>1, <3>2, <3>5
  <2> DEFINE x == cut.doc
  <2> DEFINE y == TrimClip(d, name, start, dur).doc
  <2>9. IsDocument(y)
    BY TrimDocument
  <2>10. AllTold(d, x, {name})
    BY <2>1, <2>6
  <2>11. p[1] \in DOMAIN x.spines /\ IsDocument(x)
    BY <2>3, <2>8
  <2>12. y = x \/ y = SyncDuration(x, p)
    BY <2>7
  <2> HIDE DEF x, y
  <2>13. DOMAIN y.spines = DOMAIN x.spines /\ \A s \in DOMAIN x.spines : y.spines[s].items = x.spines[s].items
    <3> DEFINE n == StorylineDuration(x.spines[p[1]])
    <3> DEFINE z == [x EXCEPT !.spines[p[1]].dur = n]
    <3>1. y = x \/ y = z
      BY <2>12 DEF SyncDuration
    <3> HIDE DEF n
    <3> DEFINE q == [x.spines EXCEPT ![p[1]] = [x.spines[p[1]] EXCEPT !.dur = n]]
    <3>2. z = [spines |-> q, labels |-> x.labels, format |-> x.format]
      BY <2>11 DEF IsDocument
    <3>3. DOMAIN q = DOMAIN x.spines /\ \A s \in DOMAIN x.spines : q[s].items = x.spines[s].items
      <4>1. x.spines[p[1]] = [tc |-> x.spines[p[1]].tc, dur |-> x.spines[p[1]].dur, items |-> x.spines[p[1]].items]
        BY <2>11 DEF IsDocument, IsSpine
      <4>2. [x.spines[p[1]] EXCEPT !.dur = n].items = x.spines[p[1]].items
        BY <4>1
      <4> QED  BY <2>11, <4>2
    <3> HIDE DEF q, z
    <3> QED  BY <3>1, <3>2, <3>3
  <2>14. AllTold(d, y, {name})
    BY <2>9, <2>10, <2>11, <2>13, SameItemsTold
  <2> QED  BY <2>14 DEF y
<1> QED  BY <1>1, <1>2

(* Both parts of a split clip have names that are listed.                  *)
LEMMA SplitTold ==
    ASSUME NEW d, IsDocument(d), NEW name, NEW at \in Int
    PROVE  AllTold(d, SplitClip(d, name, at).doc, {name, Append(name, "split")})
<1> DEFINE p == Find(d, name)
<1> DEFINE e == ElementAt(d, p)
<1> DEFINE first == FirstPart(e, at)
<1> DEFINE second == SecondPart(e, name, at)
<1> DEFINE names == {name, Append(name, "split")}
<1>1. CASE ~SplitFits(d, name, at)
  <2>1. SplitClip(d, name, at).doc = d
    BY <1>1 DEF SplitClip, Edited
  <2> QED  BY <2>1, SelfTold
<1>2. CASE SplitFits(d, name, at)
  <2>1. SplitClip(d, name, at).doc = InsertAfter(WithElement(d, p, first), p, second)
    BY <1>2, SplitMade
  <2>2. p \in PlacesIn(d) /\ e.name = name
    BY <1>2, FoundPlace DEF SplitFits
  <2>3. IsElement(e) /\ (p[3] = 0 => IsItem(e))
    BY <2>2, PlaceParts
  <2> DEFINE a == Siblings(d, p)
  <2> DEFINE i == Position(p)
  <2>4. IsSequence(a) /\ i \in DOMAIN a /\ a[i] = e
    BY <2>2, PlaceParts
  <2>5. \A j \in DOMAIN a :
           /\ IsElement(a[j]) /\ Told(d, a[j], names)
           /\ p[3] = 0 => IsItem(a[j]) /\ \A k \in DOMAIN a[j].kids : Told(d, a[j].kids[k], names)
    BY <2>2, SiblingsKnown
  <2> HIDE DEF e
  <2>6. /\ IsElement(first) /\ first.kids = e.kids /\ first.name = e.name
        /\ IsElement(second) /\ second.kids = e.kids /\ second.name = Append(name, "split")
    BY <2>3, SplitParts
  <2> HIDE DEF first, second
  <2>7. Told(d, first, names) /\ Told(d, second, names)
    BY <2>2, <2>6 DEF Told
  <2>8. p[3] = 0 => /\ IsItem(first) /\ IsItem(second)
                    /\ \A k \in DOMAIN first.kids : Told(d, first.kids[k], names)
                    /\ \A k \in DOMAIN second.kids : Told(d, second.kids[k], names)
    BY <2>3, <2>4, <2>5, <2>6 DEF IsItem
  <2> HIDE DEF names
  <2> DEFINE b == ReplaceAt(a, i, first)
  <2> DEFINE c == InsertAt(b, i + 1, second)
  <2>9. InsertAfter(WithElement(d, p, first), p, second) = WithSiblings(d, p, c)
    <3>1. WithElement(d, p, first) = WithSiblings(d, p, b)
      BY DEF WithElement
    <3>2. Siblings(WithSiblings(d, p, b), p) = b
      BY <2>2, SiblingsTwice
    <3>3. InsertAfter(WithSiblings(d, p, b), p, second) = WithSiblings(WithSiblings(d, p, b), p, c)
      BY <3>2 DEF InsertAfter
    <3> HIDE DEF b, c, p
    <3>4. WithSiblings(WithSiblings(d, p, b), p, c) = WithSiblings(d, p, c)
      BY <2>2, SiblingsTwice
    <3> QED  BY <3>1, <3>3, <3>4
  <2> HIDE DEF p, a, i
  <2>10. IsSequence(b) /\ DOMAIN b = DOMAIN a /\ b[i] = first /\ \A j \in DOMAIN a : j # i => b[j] = a[j]
    BY <2>4, Replacing DEF ReplaceAt
  <2> HIDE DEF b
  <2>11. IsSequence(c) /\ \A k \in DOMAIN c : c[k] = second \/ \E j \in DOMAIN a : c[k] = b[j]
    BY <2>4, <2>10, Inserting, InsertedMember
  <2> HIDE DEF c
  <2>12. \A k \in DOMAIN c : c[k] = second \/ c[k] = first \/ \E j \in DOMAIN a : c[k] = a[j]
    BY <2>10, <2>11
  <2>13. \A j \in DOMAIN c : /\ IsElement(c[j]) /\ Told(d, c[j], names)
                             /\ p[3] = 0 => IsItem(c[j]) /\ \A k \in DOMAIN c[j].kids :
                                                               Told(d, c[j].kids[k], names)
    BY <2>5, <2>6, <2>7, <2>8, <2>12
  <2>14. AllTold(d, WithSiblings(d, p, c), names)
    BY <2>2, <2>11, <2>13, SiblingsTold
  <2> QED  BY <2>1, <2>9, <2>14 DEF names
<1> QED  BY <1>1, <1>2

(* The members of a selection. *)
LEMMA SelectedMembers ==
    ASSUME NEW s, IsSequence(s), NEW I
    PROVE  /\ IsSequence(Selected(s, I))
           /\ \A m \in DOMAIN Selected(s, I) : \E k \in DOMAIN s : k \in I /\ Selected(s, I)[m] = s[k]
<1> DEFINE b == Selected(s, I)
<1>1. b \in Seq(ToSet(s)) /\ \E h : Picks(s, I, h)
  BY Selecting DEF IsSequence
<1>2. PICK h : Picks(s, I, h)
  BY <1>1
<1>3. \A m \in DOMAIN b : \E k \in DOMAIN h : h[k] = m
  BY <1>2 DEF Picks
<1>4. DOMAIN h = I \cap DOMAIN s /\ \A k \in DOMAIN h : h[k] \in DOMAIN b /\ b[h[k]] = s[k]
  BY <1>2 DEF Picks
<1> HIDE DEF b
<1>5. \A m \in DOMAIN b : \E k \in DOMAIN s : k \in I /\ b[m] = s[k]
  BY <1>3, <1>4
<1>6. IsSequence(b)
  BY <1>1, SequenceOf
<1> QED  BY <1>5, <1>6 DEF b

(* A document without some elements has nothing new.                       *)
LEMMA WithoutTold ==
    ASSUME NEW d, IsDocument(d), NEW gone, NEW names
    PROVE  AllTold(d, Without(d, gone), names)
<1> DEFINE Kept1(s, i) == LET kids == d.spines[s].items[i].kids
                          IN  Selected(kids, {k \in DOMAIN kids : <<s, i, k>> \notin gone})
<1> DEFINE Whole(s) == [i \in DOMAIN d.spines[s].items |->
                           [d.spines[s].items[i] EXCEPT !.kids = Kept1(s, i)]]
<1> DEFINE Left(s) == Selected(Whole(s), {i \in DOMAIN d.spines[s].items : <<s, i, 0>> \notin gone})
<1> DEFINE new == [s \in DOMAIN d.spines |-> Left(s)]
<1>1. Without(d, gone) =
         [d EXCEPT !.spines = [s \in DOMAIN d.spines |-> [d.spines[s] EXCEPT !.items = new[s]]]]
  BY DEF Without
<1>2. ASSUME NEW s \in DOMAIN d.spines, NEW i \in DOMAIN d.spines[s].items
      PROVE  /\ IsSequence(Kept1(s, i))
             /\ \A m \in DOMAIN Kept1(s, i) : \E k \in DOMAIN d.spines[s].items[i].kids :
                   Kept1(s, i)[m] = d.spines[s].items[i].kids[k]
  <2> DEFINE kids == d.spines[s].items[i].kids
  <2> DEFINE I == {k \in DOMAIN kids : <<s, i, k>> \notin gone}
  <2>1. IsSequence(kids)
    BY DocumentParts DEF IsItem, IsElement
  <2>2. Kept1(s, i) = Selected(kids, I)
    OBVIOUS
  <2> HIDE DEF kids, I, Kept1
  <2>3. IsSequence(Kept1(s, i)) /\ \A m \in DOMAIN Kept1(s, i) : \E k \in DOMAIN kids : Kept1(s, i)[m] = kids[k]
    BY <2>1, <2>2, SelectedMembers
  <2> QED  BY <2>3 DEF kids
<1> HIDE DEF Kept1
<1>3. ASSUME NEW s \in DOMAIN d.spines, NEW i \in DOMAIN d.spines[s].items
      PROVE  LET x == Whole(s)[i]
             IN  /\ IsItem(x) /\ Told(d, x, names)
                 /\ \A k \in DOMAIN x.kids : Told(d, x.kids[k], names)
  <2> DEFINE e == d.spines[s].items[i]
  <2> DEFINE x == [e EXCEPT !.kids = Kept1(s, i)]
  <2>1. Whole(s)[i] = x
    OBVIOUS
  <2>2. IsElement(e) /\ (\A k \in DOMAIN e.kids : IsElement(e.kids[k]))
        /\ e \in ElementsIn(d) /\ (\A k \in DOMAIN e.kids : e.kids[k] \in ElementsIn(d))
    BY ElementIs, DocumentParts DEF IsItem
  <2>3. IsSequence(Kept1(s, i)) /\ \A m \in DOMAIN Kept1(s, i) : \E k \in DOMAIN e.kids : Kept1(s, i)[m] = e.kids[k]
    BY <1>2
  <2> HIDE DEF e, Whole
  <2>4. x.kids = Kept1(s, i) /\ IsElement(x) /\ Same(x, e)
    BY <2>2, <2>3 DEF IsElement, Same
  <2> HIDE DEF x
  <2>5. IsItem(x)
    BY <2>2, <2>3, <2>4 DEF IsItem
  <2>6. Told(d, x, names)
    BY <2>2, <2>4, BareAgrees DEF Told, Known
  <2>7. \A k \in DOMAIN x.kids : Told(d, x.kids[k], names)
    BY <2>2, <2>3, <2>4 DEF Told, Known
  <2> QED  BY <2>1, <2>5, <2>6, <2>7
<1>4. ASSUME NEW s \in DOMAIN d.spines
      PROVE  /\ IsSequence(new[s])
             /\ \A m \in DOMAIN new[s] : \E i \in DOMAIN d.spines[s].items : new[s][m] = Whole(s)[i]
  <2> DEFINE I == {i \in DOMAIN d.spines[s].items : <<s, i, 0>> \notin gone}
  <2> DEFINE w == Whole(s)
  <2>1. PICK n \in Nat : DOMAIN d.spines[s].items = 1..n
    BY DocumentParts
  <2>2. w = [i \in 1..n |-> w[i]] /\ DOMAIN w = DOMAIN d.spines[s].items
    BY <2>1
  <2>3. new[s] = Selected(w, I)
    OBVIOUS
  <2> HIDE DEF w, I, new
  <2>4. IsSequence(w)
    BY <2>2, SequenceFrom
  <2>5. IsSequence(new[s]) /\ \A m \in DOMAIN new[s] : \E i \in DOMAIN w : new[s][m] = w[i]
    BY <2>3, <2>4, SelectedMembers
  <2> QED  BY <2>2, <2>5 DEF w
<1> HIDE DEF Whole, new
<1>5. \A s \in DOMAIN d.spines : \A m \in DOMAIN new[s] :
         /\ IsItem(new[s][m]) /\ Told(d, new[s][m], names)
         /\ \A k \in DOMAIN new[s][m].kids : Told(d, new[s][m].kids[k], names)
  BY <1>3, <1>4
<1> QED  BY <1>1, <1>4, <1>5, SpinesTold

(* Every item made anew, with its connected clips. *)
LEMMA MappedTold ==
    ASSUME NEW d, IsDocument(d), NEW new, NEW names,
           \A s \in DOMAIN d.spines : new[s] = [i \in DOMAIN d.spines[s].items |-> new[s][i]],
           \A s \in DOMAIN d.spines : \A i \in DOMAIN d.spines[s].items :
              LET e == d.spines[s].items[i]
                  x == new[s][i]
              IN  /\ IsItem(x)
                  /\ Same(x, e) \/ x.name \in names
                  /\ DOMAIN x.kids = DOMAIN e.kids
                  /\ \A k \in DOMAIN e.kids : Same(x.kids[k], e.kids[k]) \/ x.kids[k].name \in names
    PROVE  AllTold(d, [d EXCEPT !.spines = [s \in DOMAIN d.spines |-> [d.spines[s] EXCEPT !.items = new[s]]]],
                   names)
<1>1. ASSUME NEW s \in DOMAIN d.spines
      PROVE  IsSequence(new[s]) /\ DOMAIN new[s] = DOMAIN d.spines[s].items
  <2>1. PICK n \in Nat : DOMAIN d.spines[s].items = 1..n
    BY DocumentParts
  <2>2. new[s] = [i \in 1..n |-> new[s][i]]
    BY <2>1
  <2> QED  BY <2>1, <2>2, SequenceFrom
<1>2. ASSUME NEW s \in DOMAIN d.spines, NEW i \in DOMAIN d.spines[s].items
      PROVE  LET x == new[s][i]
             IN  Told(d, x, names) /\ \A k \in DOMAIN x.kids : Told(d, x.kids[k], names)
  <2> DEFINE e == d.spines[s].items[i]
  <2> DEFINE x == new[s][i]
  <2>1. /\ IsElement(e) /\ e \in ElementsIn(d)
        /\ \A k \in DOMAIN e.kids : IsElement(e.kids[k]) /\ e.kids[k] \in ElementsIn(d)
    BY ElementIs, DocumentParts DEF IsItem
  <2>2. /\ IsItem(x) /\ (Same(x, e) \/ x.name \in names) /\ DOMAIN x.kids = DOMAIN e.kids
        /\ \A k \in DOMAIN e.kids : Same(x.kids[k], e.kids[k]) \/ x.kids[k].name \in names
    OBVIOUS
  <2>3. IsElement(x) /\ \A k \in DOMAIN e.kids : IsElement(x.kids[k])
    BY <2>2 DEF IsItem
  <2> HIDE DEF e, x
  <2>4. Told(d, x, names)
    BY <2>1, <2>2, <2>3, BareAgrees DEF Told, Known
  <2>5. \A k \in DOMAIN e.kids : Told(d, x.kids[k], names)
    BY <2>1, <2>2, <2>3, BareAgrees DEF Told, Known
  <2> QED  BY <2>2, <2>4, <2>5 DEF x
<1>3. \A s \in DOMAIN d.spines : \A i \in DOMAIN new[s] :
         /\ IsItem(new[s][i]) /\ Told(d, new[s][i], names)
         /\ \A k \in DOMAIN new[s][i].kids : Told(d, new[s][i].kids[k], names)
  BY <1>1, <1>2
<1> QED  BY <1>1, <1>3, SpinesTold

(* An element with other connected clips. *)
LEMMA Refitted ==
    ASSUME NEW e, IsItem(e), NEW f, IsElement(f), f.kids = e.kids,
           NEW kids, kids = [k \in DOMAIN e.kids |-> kids[k]],
           \A k \in DOMAIN e.kids : IsElement(kids[k])
    PROVE  LET x == [f EXCEPT !.kids = kids]
           IN  IsItem(x) /\ Same(x, f) /\ x.kids = kids /\ DOMAIN kids = DOMAIN e.kids
<1> DEFINE x == [f EXCEPT !.kids = kids]
<1>1. PICK n \in Nat : DOMAIN e.kids = 1..n
  BY Sequences DEF IsItem, IsElement
<1>2. IsSequence(kids) /\ DOMAIN kids = DOMAIN e.kids
  BY <1>1, SequenceFrom
<1>3. IsElement(x) /\ x.kids = kids /\ Same(x, f)
  BY <1>2 DEF IsElement, Same
<1> HIDE DEF x
<1>4. IsItem(x)
  BY <1>2, <1>3 DEF IsItem
<1> QED  BY <1>2, <1>3, <1>4 DEF x

(* To agree is transitive.                                                 *)
LEMMA SameTransitive ==
    ASSUME NEW e, NEW x, NEW y, Same(e, x), Same(x, y)
    PROVE  Same(e, y)
BY DEF Same

(* The names listed are those of the elements whose role is another.       *)
LEMMA BatchRolesTold ==
    ASSUME NEW d, IsDocument(d), NEW op
    PROVE  AllTold(d, BatchAssignRoles(d, op.rules).doc, RunBatchRoles(d, op).affected)
<1> DEFINE rules == op.rules
<1> DEFINE Dress(e) == IF e.tag \in RoleTags /\ RuleFor(e.name, rules) # 0
                       THEN [e EXCEPT !.role = rules[RuleFor(e.name, rules)].role] ELSE e
<1>1. ASSUME NEW e, IsElement(e)
      PROVE  /\ IsElement(Dress(e)) /\ Dress(e).kids = e.kids /\ Dress(e).name = e.name
             /\ Dress(e).role = e.role => Same(Dress(e), e)
  BY <1>1 DEF IsElement, Same
<1> DEFINE New(e) == [Dress(e) EXCEPT !.kids = [k \in DOMAIN e.kids |-> Dress(e.kids[k])]]
<1> DEFINE new == [s \in DOMAIN d.spines |->
                      [i \in DOMAIN d.spines[s].items |-> New(d.spines[s].items[i])]]
<1> DEFINE x == [d EXCEPT !.spines = [s \in DOMAIN d.spines |-> [d.spines[s] EXCEPT !.items = new[s]]]]
<1> DEFINE y == BatchAssignRoles(d, rules).doc
<1> DEFINE names == {ElementAt(d, p).name : p \in
                        {q \in PlacesIn(d) : ElementAt(d, q).role # ElementAt(y, q).role}}
<1>2. y = x
  BY DEF BatchAssignRoles, Edited, MapElements, MapSpines
<1>0. RunBatchRoles(d, op).affected = names
  BY DEF RunBatchRoles, Outcome
<1> HIDE DEF Dress, rules, y
<1>3. ASSUME NEW e, IsItem(e)
      PROVE  /\ IsItem(New(e)) /\ Same(New(e), Dress(e)) /\ DOMAIN New(e).kids = DOMAIN e.kids
             /\ \A k \in DOMAIN e.kids : New(e).kids[k] = Dress(e.kids[k])
  <2> DEFINE kids == [k \in DOMAIN e.kids |-> Dress(e.kids[k])]
  <2>1. Dress(e).kids = e.kids /\ IsElement(Dress(e))
    BY <1>1, <1>3 DEF IsItem
  <2>2. New(e) = [Dress(e) EXCEPT !.kids = kids]
    OBVIOUS
  <2>3. kids = [k \in DOMAIN e.kids |-> kids[k]] /\ \A k \in DOMAIN e.kids : kids[k] = Dress(e.kids[k])
    OBVIOUS
  <2>4. \A k \in DOMAIN e.kids : IsElement(kids[k])
    BY <1>1, <1>3 DEF IsItem
  <2> HIDE DEF kids, New
  <2>5. /\ IsItem(New(e)) /\ Same(New(e), Dress(e)) /\ New(e).kids = kids
        /\ DOMAIN kids = DOMAIN e.kids
    BY <1>3, <2>1, <2>2, <2>3, <2>4, Refitted
  <2> QED  BY <2>3, <2>5
<1> HIDE DEF New
<1>4. \A s \in DOMAIN d.spines : /\ new[s] = [i \in DOMAIN d.spines[s].items |-> new[s][i]]
                                 /\ \A i \in DOMAIN d.spines[s].items : new[s][i] = New(d.spines[s].items[i])
  OBVIOUS
<1> HIDE DEF new
<1>5. \A s \in DOMAIN d.spines : IsSequence(new[s]) /\ \A i \in DOMAIN new[s] : IsItem(new[s][i])
  <2> SUFFICES ASSUME NEW s \in DOMAIN d.spines
               PROVE  IsSequence(new[s]) /\ \A i \in DOMAIN new[s] : IsItem(new[s][i])
    OBVIOUS
  <2>1. PICK n \in Nat : DOMAIN d.spines[s].items = 1..n
    BY DocumentParts
  <2>2. new[s] = [i \in 1..n |-> new[s][i]]
    BY <1>4, <2>1
  <2>3. IsSequence(new[s]) /\ DOMAIN new[s] = DOMAIN d.spines[s].items
    BY <2>1, <2>2, SequenceFrom
  <2>4. \A i \in DOMAIN d.spines[s].items : IsItem(d.spines[s].items[i])
    BY DocumentParts
  <2>5. \A i \in DOMAIN d.spines[s].items : IsItem(New(d.spines[s].items[i]))
    BY <1>3, <2>4
  <2> QED  BY ZenonT(40), <1>4, <2>3, <2>5
<1>6. \A s \in DOMAIN d.spines : x.spines[s].items = new[s]
  BY <1>5, OtherSpines
<1> HIDE DEF x
<1>7. ASSUME NEW s \in DOMAIN d.spines, NEW i \in DOMAIN d.spines[s].items
      PROVE  LET e == d.spines[s].items[i]
                 z == new[s][i]
             IN  /\ IsItem(z)
                 /\ Same(z, e) \/ z.name \in names
                 /\ DOMAIN z.kids = DOMAIN e.kids
                 /\ \A k \in DOMAIN e.kids : Same(z.kids[k], e.kids[k]) \/ z.kids[k].name \in names
  <2> DEFINE e == d.spines[s].items[i]
  <2> DEFINE z == new[s][i]
  <2>1. z = New(e) /\ IsItem(e) /\ IsElement(e) /\ \A k \in DOMAIN e.kids : IsElement(e.kids[k])
    BY <1>4, DocumentParts DEF IsItem
  <2>2. ElementAt(y, <<s, i, 0>>) = z /\ ElementAt(d, <<s, i, 0>>) = e
    BY <1>2, <1>6 DEF ElementAt
  <2>3. DOMAIN e.kids = 1..Len(e.kids) /\ Len(e.kids) \in Nat
    BY DocumentParts
  <2>4. \A k \in DOMAIN e.kids : ElementAt(y, <<s, i, k>>) = z.kids[k] /\ ElementAt(d, <<s, i, k>>) = e.kids[k]
    BY <1>2, <1>6, <2>3 DEF ElementAt
  <2>5. <<s, i, 0>> \in PlacesIn(d) /\ \A k \in DOMAIN e.kids : <<s, i, k>> \in PlacesIn(d)
    BY <2>3, InPlaces
  <2> HIDE DEF e, z
  <2>6. /\ IsItem(z) /\ Same(z, Dress(e)) /\ DOMAIN z.kids = DOMAIN e.kids
        /\ \A k \in DOMAIN e.kids : z.kids[k] = Dress(e.kids[k])
    BY <1>3, <2>1
  <2>7. z.name = e.name /\ (z.role = e.role => Same(z, e))
    BY <1>1, <2>1, <2>6, SameTransitive DEF Same
  <2>8. \A k \in DOMAIN e.kids : /\ z.kids[k].name = e.kids[k].name
                                 /\ z.kids[k].role = e.kids[k].role => Same(z.kids[k], e.kids[k])
    BY <1>1, <2>1, <2>6
  <2>9. Same(z, e) \/ z.name \in names
    BY <2>2, <2>5, <2>7
  <2>10. \A k \in DOMAIN e.kids : Same(z.kids[k], e.kids[k]) \/ z.kids[k].name \in names
    BY <2>4, <2>5, <2>8
  <2> QED  BY <2>6, <2>9, <2>10 DEF e, z
<1> HIDE DEF names
<1>8. AllTold(d, x, names)
  <2>1. \A s \in DOMAIN d.spines : new[s] = [i \in DOMAIN d.spines[s].items |-> new[s][i]]
    BY <1>4
  <2> QED  BY <1>7, <2>1, MappedTold DEF x
<1> QED  BY <1>0, <1>2, <1>8 DEF y, rules

(* The names listed are the new ones of the elements that have one.        *)
LEMMA RenameTold ==
    ASSUME NEW d, IsDocument(d), NEW op
    PROVE  AllTold(d, BatchRename(d, op.pattern, op.with).doc, RunRename(d, op).affected)
<1> DEFINE Dress(e) == [e EXCEPT !.name = Renamed(@, op.pattern, op.with)]
<1>1. ASSUME NEW e, IsElement(e)
      PROVE  /\ IsElement(Dress(e)) /\ Dress(e).kids = e.kids
             /\ Dress(e).name = e.name => Same(Dress(e), e)
  BY <1>1 DEF IsElement, Same
<1> DEFINE New(e) == [Dress(e) EXCEPT !.kids = [k \in DOMAIN e.kids |-> Dress(e.kids[k])]]
<1> DEFINE new == [s \in DOMAIN d.spines |->
                      [i \in DOMAIN d.spines[s].items |-> New(d.spines[s].items[i])]]
<1> DEFINE x == [d EXCEPT !.spines = [s \in DOMAIN d.spines |-> [d.spines[s] EXCEPT !.items = new[s]]]]
<1> DEFINE labels == [k \in DOMAIN x.labels |-> Renamed(x.labels[k], op.pattern, op.with)]
<1> DEFINE w == [x EXCEPT !.labels = labels]
<1> DEFINE y == BatchRename(d, op.pattern, op.with).doc
<1> DEFINE names == {ElementAt(y, p).name : p \in
                        {q \in PlacesIn(d) : ElementAt(d, q).name # ElementAt(y, q).name}}
<1>2. y = w
  BY DEF BatchRename, Edited, MapElements, MapSpines
<1>0. names \subseteq RunRename(d, op).affected
  BY DEF RunRename, Outcome
<1> HIDE DEF Dress, y
<1>3. ASSUME NEW e, IsItem(e)
      PROVE  /\ IsItem(New(e)) /\ Same(New(e), Dress(e)) /\ DOMAIN New(e).kids = DOMAIN e.kids
             /\ \A k \in DOMAIN e.kids : New(e).kids[k] = Dress(e.kids[k])
  <2> DEFINE kids == [k \in DOMAIN e.kids |-> Dress(e.kids[k])]
  <2>1. Dress(e).kids = e.kids /\ IsElement(Dress(e))
    BY <1>1, <1>3 DEF IsItem
  <2>2. New(e) = [Dress(e) EXCEPT !.kids = kids]
    OBVIOUS
  <2>3. kids = [k \in DOMAIN e.kids |-> kids[k]] /\ \A k \in DOMAIN e.kids : kids[k] = Dress(e.kids[k])
    OBVIOUS
  <2>4. \A k \in DOMAIN e.kids : IsElement(kids[k])
    BY <1>1, <1>3 DEF IsItem
  <2> HIDE DEF kids, New
  <2>5. /\ IsItem(New(e)) /\ Same(New(e), Dress(e)) /\ New(e).kids = kids
        /\ DOMAIN kids = DOMAIN e.kids
    BY <1>3, <2>1, <2>2, <2>3, <2>4, Refitted
  <2> QED  BY <2>3, <2>5
<1> HIDE DEF New
<1>4. \A s \in DOMAIN d.spines : /\ new[s] = [i \in DOMAIN d.spines[s].items |-> new[s][i]]
                                 /\ \A i \in DOMAIN d.spines[s].items : new[s][i] = New(d.spines[s].items[i])
  OBVIOUS
<1> HIDE DEF new, labels
<1>5. \A s \in DOMAIN d.spines : IsSequence(new[s]) /\ \A i \in DOMAIN new[s] : IsItem(new[s][i])
  <2> SUFFICES ASSUME NEW s \in DOMAIN d.spines
               PROVE  IsSequence(new[s]) /\ \A i \in DOMAIN new[s] : IsItem(new[s][i])
    OBVIOUS
  <2>1. PICK n \in Nat : DOMAIN d.spines[s].items = 1..n
    BY DocumentParts
  <2>2. new[s] = [i \in 1..n |-> new[s][i]]
    BY <1>4, <2>1
  <2>3. IsSequence(new[s]) /\ DOMAIN new[s] = DOMAIN d.spines[s].items
    BY <2>1, <2>2, SequenceFrom
  <2>4. \A i \in DOMAIN d.spines[s].items : IsItem(d.spines[s].items[i])
    BY DocumentParts
  <2>5. \A i \in DOMAIN d.spines[s].items : IsItem(New(d.spines[s].items[i]))
    BY <1>3, <2>4
  <2> QED  BY ZenonT(40), <1>4, <2>3, <2>5
<1>6. IsDocument(x) /\ DOMAIN x.spines = DOMAIN d.spines /\ \A s \in DOMAIN d.spines : x.spines[s].items = new[s]
  BY <1>5, OtherSpines
<1> HIDE DEF x
<1>11. IsSequence(labels)
  <2>1. Len(x.labels) \in Nat /\ DOMAIN x.labels = 1..Len(x.labels)
    BY <1>6, Sequences DEF IsDocument
  <2>2. labels = [k \in 1..Len(x.labels) |-> labels[k]]
    BY <2>1 DEF labels
  <2> QED  BY <2>1, <2>2, SequenceFrom
<1>9. IsDocument(w) /\ w.spines = x.spines
  BY <1>6, <1>11, OtherLabels
<1> HIDE DEF w
<1>7. ASSUME NEW s \in DOMAIN d.spines, NEW i \in DOMAIN d.spines[s].items
      PROVE  LET e == d.spines[s].items[i]
                 z == new[s][i]
             IN  /\ IsItem(z)
                 /\ Same(z, e) \/ z.name \in names
                 /\ DOMAIN z.kids = DOMAIN e.kids
                 /\ \A k \in DOMAIN e.kids : Same(z.kids[k], e.kids[k]) \/ z.kids[k].name \in names
  <2> DEFINE e == d.spines[s].items[i]
  <2> DEFINE z == new[s][i]
  <2>1. z = New(e) /\ IsItem(e) /\ IsElement(e) /\ \A k \in DOMAIN e.kids : IsElement(e.kids[k])
    BY <1>4, DocumentParts DEF IsItem
  <2>2. ElementAt(y, <<s, i, 0>>) = z /\ ElementAt(d, <<s, i, 0>>) = e
    BY <1>2, <1>6, <1>9 DEF ElementAt
  <2>3. DOMAIN e.kids = 1..Len(e.kids) /\ Len(e.kids) \in Nat
    BY DocumentParts
  <2>4. \A k \in DOMAIN e.kids : ElementAt(y, <<s, i, k>>) = z.kids[k] /\ ElementAt(d, <<s, i, k>>) = e.kids[k]
    BY <1>2, <1>6, <1>9, <2>3 DEF ElementAt
  <2>5. <<s, i, 0>> \in PlacesIn(d) /\ \A k \in DOMAIN e.kids : <<s, i, k>> \in PlacesIn(d)
    BY <2>3, InPlaces
  <2> HIDE DEF e, z
  <2>6. /\ IsItem(z) /\ Same(z, Dress(e)) /\ DOMAIN z.kids = DOMAIN e.kids
        /\ \A k \in DOMAIN e.kids : z.kids[k] = Dress(e.kids[k])
    BY <1>3, <2>1
  <2>7. z.name = e.name => Same(z, e)
    BY <1>1, <2>1, <2>6, SameTransitive DEF Same
  <2>8. \A k \in DOMAIN e.kids : z.kids[k].name = e.kids[k].name => Same(z.kids[k], e.kids[k])
    BY <1>1, <2>1, <2>6
  <2>9. Same(z, e) \/ z.name \in names
    BY <2>2, <2>5, <2>7
  <2>10. \A k \in DOMAIN e.kids : Same(z.kids[k], e.kids[k]) \/ z.kids[k].name \in names
    BY <2>4, <2>5, <2>8
  <2> QED  BY <2>6, <2>9, <2>10 DEF e, z
<1> HIDE DEF names
<1>8. AllTold(d, x, names)
  <2>1. \A s \in DOMAIN d.spines : new[s] = [i \in DOMAIN d.spines[s].items |-> new[s][i]]
    BY <1>4
  <2> QED  BY <1>7, <2>1, MappedTold DEF x
<1>10. AllTold(d, w, names)
  BY <1>6, <1>8, <1>9, SameItemsTold
<1> QED  BY <1>0, <1>2, <1>10 DEF y, AllTold, Told

(* A document with a gap in a spine has its gaps counted as more than      *)
(* none.                                                                   *)
LEMMA SomethingCounted ==
    ASSUME NEW d, IsDocument(d), NEW p \in ItemPlaces(d), IsGap(ElementAt(d, p))
    PROVE  CountAt(d, ItemPlaces(d), IsGap) > 0
<1> DEFINE S == {q \in ItemPlaces(d) : IsGap(ElementAt(d, q))}
<1>1. CountAt(d, ItemPlaces(d), IsGap) = Cardinality(S)
  BY DEF CountAt
<1>2. S \subseteq PlacesIn(d) /\ p \in S
  BY DEF ItemPlaces
<1> HIDE DEF S
<1>3. IsFiniteSet(S) /\ S # {}
  BY <1>2, PlacesFinite, FS_Subset
<1>4. Cardinality(S) \in Nat /\ Cardinality(S) # 0
  BY <1>3, FS_CardinalityType, FS_EmptySet
<1> QED  BY <1>1, <1>4

(* Every item has its place.                                               *)
LEMMA ItemPlace ==
    ASSUME NEW d, IsDocument(d), NEW s \in DOMAIN d.spines, NEW i \in DOMAIN d.spines[s].items
    PROVE  <<s, i, 0>> \in ItemPlaces(d) /\ ElementAt(d, <<s, i, 0>>) = d.spines[s].items[i]
<1>1. Len(d.spines[s].items[i].kids) \in Nat
  BY DocumentParts
<1>2. <<s, i, 0>> \in PlacesIn(d)
  BY <1>1, InPlaces
<1> QED  BY <1>2 DEF ItemPlaces, ElementAt

(* A clip in place of a gap has the name that is listed.                   *)
LEMMA FillTold ==
    ASSUME NEW d, IsDocument(d), NEW op
    PROVE  AllTold(d, FillGaps(d, op.ref, op.name).doc, RunFill(d, op).affected)
<1> DEFINE Fill(e) == IF IsGap(e) THEN Element("asset-clip", op.name, op.ref, 0, e.off, e.dur) ELSE e
<1> DEFINE new == [s \in DOMAIN d.spines |-> [i \in DOMAIN d.spines[s].items |-> Fill(d.spines[s].items[i])]]
<1> DEFINE names == RunFill(d, op).affected
<1>1. FillGaps(d, op.ref, op.name).doc =
         [d EXCEPT !.spines = [s \in DOMAIN d.spines |-> [d.spines[s] EXCEPT !.items = new[s]]]]
  BY DEF FillGaps, Edited, MapSpines
<1>2. CountAt(d, ItemPlaces(d), IsGap) > 0 => op.name \in names
  <2>1. FillGaps(d, op.ref, op.name).n = CountAt(d, ItemPlaces(d), IsGap)
    BY DEF FillGaps, Edited
  <2>2. names = IF FillGaps(d, op.ref, op.name).n > 0 THEN {op.name} ELSE {}
    BY DEF RunFill, Outcome
  <2> QED  BY <2>1, <2>2
<1>3. ASSUME NEW e, IsItem(e)
      PROVE  /\ IsItem(Fill(e)) /\ (~IsGap(e) => Fill(e) = e)
             /\ IsGap(e) => Fill(e).name = op.name /\ Fill(e).kids = <<>>
  <2>1. e.dur \in Int
    BY <1>3 DEF IsItem, IsElement
  <2> QED  BY <1>3, <2>1, NewElement
<1> HIDE DEF Fill, names
<1>4. ASSUME NEW s \in DOMAIN d.spines
      PROVE  /\ IsSequence(new[s]) /\ DOMAIN new[s] = DOMAIN d.spines[s].items
             /\ \A i \in DOMAIN d.spines[s].items : new[s][i] = Fill(d.spines[s].items[i])
  <2>1. PICK n \in Nat : DOMAIN d.spines[s].items = 1..n
    BY DocumentParts
  <2>2. new[s] = [i \in 1..n |-> new[s][i]]
    BY <2>1
  <2>3. \A i \in DOMAIN d.spines[s].items : new[s][i] = Fill(d.spines[s].items[i])
    OBVIOUS
  <2> HIDE DEF new
  <2> QED  BY <2>1, <2>2, <2>3, SequenceFrom
<1> HIDE DEF new
<1>5. ASSUME NEW s \in DOMAIN d.spines, NEW i \in DOMAIN d.spines[s].items
      PROVE  LET x == Fill(d.spines[s].items[i])
             IN  /\ IsItem(x) /\ Told(d, x, names)
                 /\ \A k \in DOMAIN x.kids : Told(d, x.kids[k], names)
  <2> DEFINE e == d.spines[s].items[i]
  <2>1. /\ IsItem(e) /\ e \in ElementsIn(d)
        /\ \A k \in DOMAIN e.kids : e.kids[k] \in ElementsIn(d)
    BY ElementIs, DocumentParts
  <2>2. IsGap(e) => op.name \in names
    BY <1>2, ItemPlace, SomethingCounted
  <2> HIDE DEF e
  <2>3. CASE IsGap(e)
    <3>1. IsItem(Fill(e)) /\ Fill(e).name \in names /\ Fill(e).kids = <<>>
      BY <1>3, <2>1, <2>2, <2>3
    <3> QED  BY <3>1 DEF Told, e
  <2>4. CASE ~IsGap(e)
    <3>1. Fill(e) = e
      BY <1>3, <2>1, <2>4
    <3> QED  BY <2>1, <3>1 DEF Told, Known, e
  <2> QED  BY <2>3, <2>4
<1>6. \A s \in DOMAIN d.spines : \A i \in DOMAIN new[s] :
         /\ IsItem(new[s][i]) /\ Told(d, new[s][i], names)
         /\ \A k \in DOMAIN new[s][i].kids : Told(d, new[s][i].kids[k], names)
  BY SMTT(30), <1>4, <1>5
<1> QED  BY <1>1, <1>4, <1>6, SpinesTold DEF names

(* A clip that got longer is listed; one that only moved is not new.       *)
LEMMA FlashTold ==
    ASSUME NEW d, IsDocument(d), NEW op, op.min \in Int
    PROVE  AllTold(d, FixFlashFrames(d, op.min).doc, RunFlash(d, op).affected)
<1> DEFINE min == op.min
<1> DEFINE Extend(e) == IF IsFlash(e, min) THEN [e EXCEPT !.dur = min] ELSE e
<1> DEFINE Longer(items) == [i \in DOMAIN items |-> Extend(items[i])]
<1> DEFINE new == [s \in DOMAIN d.spines |-> Relay(Longer(d.spines[s].items))]
<1> DEFINE x == [d EXCEPT !.spines = [s \in DOMAIN d.spines |-> [d.spines[s] EXCEPT !.items = new[s]]]]
<1> DEFINE names == RunFlash(d, op).affected
<1>1. FixFlashFrames(d, op.min).doc = d \/ FixFlashFrames(d, op.min).doc = x
  BY DEF FixFlashFrames, Edited, MapSpines
<1>2. \A p \in ItemPlaces(d) : IsFlash(ElementAt(d, p), op.min) => ElementAt(d, p).name \in names
  BY DEF RunFlash, Outcome
<1> HIDE DEF names
<1>3. ASSUME NEW e, IsItem(e)
      PROVE  /\ IsItem(Extend(e)) /\ Extend(e).kids = e.kids /\ Extend(e).name = e.name
             /\ ~IsFlash(e, min) => Extend(e) = e
  BY <1>3 DEF IsItem, IsElement
<1> HIDE DEF Extend
<1>4. ASSUME NEW s \in DOMAIN d.spines
      PROVE  /\ IsSequence(new[s])
             /\ \A i \in DOMAIN new[s] :
                   LET z == new[s][i]
                   IN  /\ IsItem(z) /\ Told(d, z, names)
                       /\ \A k \in DOMAIN z.kids : Told(d, z.kids[k], names)
  <2> DEFINE a == d.spines[s].items
  <2> DEFINE c == Longer(a)
  <2>1. new[s] = Relay(c)
    OBVIOUS
  <2>2. IsSequence(a) /\ \A i \in DOMAIN a : IsItem(a[i])
    BY DEF IsDocument, IsSpine
  <2>3. PICK n \in Nat : DOMAIN a = 1..n
    BY <2>2, Sequences
  <2>4. \A i \in DOMAIN a : /\ IsElement(a[i]) /\ a[i] \in ElementsIn(d)
                            /\ \A k \in DOMAIN a[i].kids : a[i].kids[k] \in ElementsIn(d)
    BY ElementIs, DocumentParts DEF IsItem
  <2>5. \A i \in DOMAIN a : IsFlash(a[i], min) => a[i].name \in names
    BY <1>2, ItemPlace
  <2> HIDE DEF a
  <2>6. c = [i \in 1..n |-> c[i]] /\ DOMAIN c = DOMAIN a /\ \A i \in DOMAIN a : c[i] = Extend(a[i])
    BY <2>3
  <2> HIDE DEF c, new
  <2>7. IsSequence(c) /\ \A i \in DOMAIN c : IsItem(c[i])
    BY <1>3, <2>2, <2>6, SequenceFrom
  <2> DEFINE r == Relay(c)
  <2>8. /\ IsSequence(r) /\ Len(r) = Len(c) /\ DOMAIN r = DOMAIN c
        /\ \A i \in DOMAIN c : \E off :
              /\ r[i] = [c[i] EXCEPT !.off = off]
              /\ IsItem(r[i]) /\ SameBranch(c[i], r[i]) /\ r[i].kids = c[i].kids
    BY <2>7, Relaid
  <2> HIDE DEF r
  <2>9. ASSUME NEW i \in DOMAIN r
        PROVE  /\ IsItem(r[i]) /\ Told(d, r[i], names)
               /\ \A k \in DOMAIN r[i].kids : Told(d, r[i].kids[k], names)
    <3>1. PICK off : r[i] = [c[i] EXCEPT !.off = off]
      BY <2>8
    <3>2. IsElement(c[i]) /\ IsElement(r[i]) /\ IsItem(r[i])
      BY <2>7, <2>8 DEF IsItem
    <3>3. Same(r[i], c[i])
      BY <3>1, <3>2 DEF Same, IsElement
    <3>4. i \in DOMAIN a /\ c[i] = Extend(a[i]) /\ IsItem(a[i])
      BY <2>2, <2>6, <2>8
    <3>5. r[i].kids = a[i].kids /\ r[i].name = a[i].name
      BY <1>3, <2>8, <3>3, <3>4 DEF Same
    <3>6. Told(d, r[i], names)
      <4>1. CASE IsFlash(a[i], min)
        BY <2>5, <3>4, <3>5, <4>1 DEF Told
      <4>2. CASE ~IsFlash(a[i], min)
        <5>1. c[i] = a[i]
          BY <1>3, <3>4, <4>2
        <5>2. Bare(r[i]) = Bare(a[i])
          BY <3>2, <3>3, <5>1, BareAgrees
        <5> QED  BY <2>4, <3>4, <5>2 DEF Told, Known
      <4> QED  BY <4>1, <4>2
    <3>7. \A k \in DOMAIN r[i].kids : Told(d, r[i].kids[k], names)
      BY <2>4, <3>4, <3>5 DEF Told, Known
    <3> QED  BY <3>2, <3>6, <3>7
  <2> QED  BY <2>1, <2>8, <2>9 DEF r
<1> HIDE DEF new
<1>5. AllTold(d, x, names)
  BY <1>4, SpinesTold
<1> QED  BY <1>1, <1>5, SelfTold DEF names

(* All that is put between clips is transitions.                           *)
LEMMA BatchTransitionTold ==
    ASSUME NEW d, IsDocument(d), NEW dur \in Int, NEW ref, NEW names
    PROVE  AllTold(d, BatchApplyTransition(d, dur, ref).doc, names)
<1> DEFINE Joint(e) == Element("transition", <<"Dissolve">>, ref, 0, e.off + e.dur, dur)
<1> DEFINE Join(items) == FlattenSeq([i \in DOMAIN items |->
              IF CutAfter(items, i) THEN <<items[i], Joint(items[i])>> ELSE <<items[i]>>])
<1> DEFINE new == [s \in DOMAIN d.spines |-> Join(d.spines[s].items)]
<1> DEFINE x == [d EXCEPT !.spines = [s \in DOMAIN d.spines |-> [d.spines[s] EXCEPT !.items = new[s]]]]
<1>1. BatchApplyTransition(d, dur, ref).doc = x
  BY DEF BatchApplyTransition, MapSpines, Edited
<1>2. \A e : IsItem(Joint(e)) /\ Joint(e).tag = "transition" /\ Joint(e).kids = <<>>
  BY NewElement
<1> HIDE DEF Joint
<1>3. ASSUME NEW a, IsSequence(a), \A i \in DOMAIN a : IsItem(a[i])
      PROVE  /\ IsSequence(Join(a))
             /\ \A m \in DOMAIN Join(a) : \E i \in DOMAIN a : Join(a)[m] = a[i] \/ Join(a)[m] = Joint(a[i])
  <2> DEFINE C == {i \in DOMAIN a : CutAfter(a, i)}
  <2> DEFINE J == [i \in DOMAIN a |-> Joint(a[i])]
  <2> DEFINE b == FlattenSeq([i \in DOMAIN a |-> IF i \in C THEN <<a[i], J[i]>> ELSE <<a[i]>>])
  <2>1. \A i \in DOMAIN a : J[i] = Joint(a[i]) /\ (i \in C <=> CutAfter(a, i))
    OBVIOUS
  <2> HIDE DEF J, C
  <2>2. [i \in DOMAIN a |-> IF i \in C THEN <<a[i], J[i]>> ELSE <<a[i]>>]
          = [i \in DOMAIN a |-> IF CutAfter(a, i) THEN <<a[i], Joint(a[i])>> ELSE <<a[i]>>]
    BY <2>1
  <2>3. Join(a) = b
    BY <2>2
  <2>4. \A i \in DOMAIN a : IsItem(J[i]) /\ ~IsClip(J[i]) /\ J[i].kids = <<>>
    BY <1>2, <2>1 DEF IsClip
  <2>5. /\ IsSequence(b)
        /\ \A m \in DOMAIN b : \E i \in DOMAIN a : b[m] = a[i] \/ b[m] = J[i]
        /\ \E h : Rearranged(a, b, h)
    BY <1>3, <2>4, Joined
  <2> HIDE DEF b, Join
  <2> QED  BY <2>1, <2>3, <2>5
<1>4. \A s \in DOMAIN d.spines : new[s] = Join(d.spines[s].items)
  OBVIOUS
<1> HIDE DEF Join, new
<1>5. ASSUME NEW s \in DOMAIN d.spines
      PROVE  /\ IsSequence(new[s])
             /\ \A m \in DOMAIN new[s] :
                   LET z == new[s][m]
                   IN  /\ IsItem(z) /\ Told(d, z, names)
                       /\ \A k \in DOMAIN z.kids : Told(d, z.kids[k], names)
  <2> DEFINE a == d.spines[s].items
  <2>1. IsSequence(a) /\ \A i \in DOMAIN a : IsItem(a[i])
    BY DEF IsDocument, IsSpine
  <2>2. \A i \in DOMAIN a : /\ Told(d, a[i], names)
                            /\ \A k \in DOMAIN a[i].kids : Told(d, a[i].kids[k], names)
    BY ElementIs DEF Told, Known
  <2> HIDE DEF a
  <2>3. \A e : Told(d, Joint(e), names) /\ \A k \in DOMAIN Joint(e).kids : Told(d, Joint(e).kids[k], names)
    BY <1>2 DEF Told, IsTransition
  <2>4. /\ IsSequence(new[s])
        /\ \A m \in DOMAIN new[s] : \E i \in DOMAIN a : new[s][m] = a[i] \/ new[s][m] = Joint(a[i])
    BY <1>3, <1>4, <2>1 DEF a
  <2>5. ASSUME NEW m \in DOMAIN new[s]
        PROVE  LET z == new[s][m]
               IN  /\ IsItem(z) /\ Told(d, z, names)
                   /\ \A k \in DOMAIN z.kids : Told(d, z.kids[k], names)
    <3>1. PICK i \in DOMAIN a : new[s][m] = a[i] \/ new[s][m] = Joint(a[i])
      BY <2>4
    <3>2. CASE new[s][m] = a[i]
      BY <2>1, <2>2, <3>2
    <3>3. CASE new[s][m] = Joint(a[i])
      BY <1>2, <2>3, <3>3
    <3> QED  BY <3>1, <3>2, <3>3
  <2> QED  BY <2>4, <2>5
<1>6. AllTold(d, x, names)
  BY <1>5, SpinesTold
<1> QED  BY <1>1, <1>6

(* A reorder lists every item that is not one of those before, its offset  *)
(* included; what is connected to an item goes with it as it was.          *)
LEMMA ReorderAccounts ==
    ASSUME NEW d, IsDocument(d), NEW op, IsSequence(op.names)
    PROVE  Accounts(op, d, ReorderClips(d, op.names).doc, RunReorder(d, op).affected)
<1> DEFINE x == ReorderClips(d, op.names).doc
<1> DEFINE names == RunReorder(d, op).affected
<1>1. SUFFICES ASSUME NEW e \in ElementsIn(x) PROVE e \in ElementsIn(d) \/ e.name \in names
  BY DEF Accounts
<1>2. CASE d.spines = <<>>
  <2>1. x = d
    BY <1>2, ReorderClipsMade
  <2> QED  BY <1>1, <2>1
<1>3. CASE d.spines # <<>>
  <2> DEFINE a == d.spines[1].items
  <2> DEFINE b == InOrder(a, op.names) \o Rest(a, op.names)
  <2> DEFINE c == Relay(b)
  <2>1. 1 \in DOMAIN d.spines
    BY <1>3, DocumentParts
  <2>2. IsSequence(a) /\ \A i \in DOMAIN a : IsItem(a[i])
    BY <2>1 DEF IsDocument, IsSpine
  <2>3. x = [d EXCEPT !.spines[1].items = c]
    BY <1>3, ReorderClipsMade
  <2>4. \A k \in DOMAIN x.spines[1].items :
           ~(\E j \in DOMAIN a : a[j] = x.spines[1].items[k]) => x.spines[1].items[k].name \in names
    BY DEF RunReorder, Outcome
  <2>5. \A s \in DOMAIN d.spines : \A i \in DOMAIN d.spines[s].items :
           /\ d.spines[s].items[i] \in ElementsIn(d)
           /\ \A k \in DOMAIN d.spines[s].items[i].kids : d.spines[s].items[i].kids[k] \in ElementsIn(d)
    BY ElementIs
  <2>6. \A i \in DOMAIN a : a[i] \in ElementsIn(d) /\ \A k \in DOMAIN a[i].kids : a[i].kids[k] \in ElementsIn(d)
    BY <2>1, <2>5
  <2> HIDE DEF x, names, a
  <2>7. IsSequence(b) /\ \A m \in DOMAIN b : \E i \in DOMAIN a : b[m] = a[i]
    BY <2>2, Reordered
  <2> HIDE DEF b
  <2>8. \A m \in DOMAIN b : IsItem(b[m])
    BY <2>2, <2>7
  <2>9. /\ IsSequence(c) /\ Len(c) = Len(b) /\ DOMAIN c = DOMAIN b
        /\ \A i \in DOMAIN b : \E off :
              /\ c[i] = [b[i] EXCEPT !.off = off]
              /\ IsItem(c[i]) /\ SameBranch(b[i], c[i]) /\ c[i].kids = b[i].kids
    BY <2>7, <2>8, Relaid
  <2> HIDE DEF c
  <2>10. \A i \in DOMAIN c : IsItem(c[i]) /\ \E j \in DOMAIN a : c[i].kids = a[j].kids
    BY <2>7, <2>9
  <2>11. /\ IsDocument(x) /\ DOMAIN x.spines = DOMAIN d.spines /\ x.spines[1].items = c
         /\ \A s \in DOMAIN d.spines : s # 1 => x.spines[s] = d.spines[s]
    BY <2>1, <2>3, <2>9, <2>10, NewItems
  <2>12. PICK s \in DOMAIN x.spines : \E i \in DOMAIN x.spines[s].items :
            \/ e = x.spines[s].items[i]
            \/ \E k \in DOMAIN x.spines[s].items[i].kids : e = x.spines[s].items[i].kids[k]
    BY <1>1, <2>11, ElementIs
  <2>13. CASE s # 1
    <3>1. s \in DOMAIN d.spines /\ x.spines[s] = d.spines[s]
      BY <2>11, <2>13
    <3>2. e \in ElementsIn(d)
      BY <2>5, <2>12, <3>1
    <3> QED  BY <3>2
  <2>14. CASE s = 1
    <3>1. PICK i \in DOMAIN c : e = c[i] \/ \E k \in DOMAIN c[i].kids : e = c[i].kids[k]
      BY <2>11, <2>12, <2>14
    <3>2. CASE e = c[i]
      BY <2>4, <2>6, <2>11, <3>2
    <3>3. CASE \E k \in DOMAIN c[i].kids : e = c[i].kids[k]
      BY <2>6, <2>10, <3>3
    <3> QED  BY <3>1, <3>2, <3>3
  <2> QED  BY <2>13, <2>14 DEF names
<1> QED  BY <1>2, <1>3

(* What is told is accounted for, in any operation but a reorder.          *)
LEMMA ToldAccounts ==
    ASSUME NEW d, NEW x, NEW op, op.kind # "reorder_clips", NEW names, AllTold(d, x, names)
    PROVE  Accounts(op, d, x, names)
BY DEF Accounts, View, AllTold, Told, Known

(* An operation that succeeds went to the executor of its kind. *)
LEMMA RunIs ==
    ASSUME NEW d, NEW op, op.kind \in Kinds, Run(d, op).ok
    PROVE  /\ op.kind \in {"add_marker", "add_keyword"} => Run(d, op) = RunNote(d, op)
           /\ op.kind = "trim_clip" => Run(d, op) = RunTrim(d, op)
           /\ op.kind = "split_clip" => Run(d, op) = RunSplit(d, op)
           /\ op.kind = "delete_clips" => Run(d, op) = RunDelete(d, op)
           /\ op.kind = "reorder_clips" => Run(d, op) = RunReorder(d, op)
           /\ op.kind = "add_transition" => Run(d, op) = RunTransition(d, op)
           /\ op.kind = "change_speed" => Run(d, op) = RunSpeed(d, op)
           /\ op.kind = "assign_role" => Run(d, op) = RunRole(d, op)
           /\ op.kind = "batch_assign_roles" => Run(d, op) = RunBatchRoles(d, op)
           /\ op.kind = "batch_rename_clips" => Run(d, op) = RunRename(d, op)
           /\ op.kind = "fill_gaps" => Run(d, op) = RunFill(d, op)
           /\ op.kind = "fix_flash_frames" => Run(d, op) = RunFlash(d, op)
           /\ op.kind = "batch_apply_transition" => Run(d, op) = RunBatchTransition(d, op)
<1>1. ~(NeedsTarget(op) /\ ~Found(d, op.name))
  BY DEF Run, Outcome
<1>2. Run(d, op) =
         CASE op.kind \in {"add_marker", "add_keyword"} -> RunNote(d, op)
           [] op.kind = "trim_clip"              -> RunTrim(d, op)
           [] op.kind = "split_clip"             -> RunSplit(d, op)
           [] op.kind = "delete_clips"           -> RunDelete(d, op)
           [] op.kind = "reorder_clips"          -> RunReorder(d, op)
           [] op.kind = "add_transition"         -> RunTransition(d, op)
           [] op.kind = "change_speed"           -> RunSpeed(d, op)
           [] op.kind = "assign_role"            -> RunRole(d, op)
           [] op.kind = "batch_assign_roles"     -> RunBatchRoles(d, op)
           [] op.kind = "batch_rename_clips"     -> RunRename(d, op)
           [] op.kind = "fill_gaps"              -> RunFill(d, op)
           [] op.kind = "fix_flash_frames"       -> RunFlash(d, op)
           [] op.kind = "batch_apply_transition" -> RunBatchTransition(d, op)
  BY <1>1 DEF Run
<1>3. op.kind \in {"add_marker", "add_keyword"} => Run(d, op) = RunNote(d, op)
  BY <1>2
<1>4. op.kind = "trim_clip" => Run(d, op) = RunTrim(d, op)
  BY <1>2
<1>5. op.kind = "split_clip" => Run(d, op) = RunSplit(d, op)
  BY <1>2
<1>6. op.kind = "delete_clips" => Run(d, op) = RunDelete(d, op)
  BY <1>2
<1>7. op.kind = "reorder_clips" => Run(d, op) = RunReorder(d, op)
  BY <1>2
<1>8. op.kind = "add_transition" => Run(d, op) = RunTransition(d, op)
  BY <1>2
<1>9. op.kind = "change_speed" => Run(d, op) = RunSpeed(d, op)
  BY <1>2
<1>10. op.kind = "assign_role" => Run(d, op) = RunRole(d, op)
  BY <1>2
<1>11. op.kind = "batch_assign_roles" => Run(d, op) = RunBatchRoles(d, op)
  BY <1>2
<1>12. op.kind = "batch_rename_clips" => Run(d, op) = RunRename(d, op)
  BY <1>2
<1>13. op.kind = "fill_gaps" => Run(d, op) = RunFill(d, op)
  BY <1>2
<1>14. op.kind = "fix_flash_frames" => Run(d, op) = RunFlash(d, op)
  BY <1>2
<1>15. op.kind = "batch_apply_transition" => Run(d, op) = RunBatchTransition(d, op)
  BY <1>2
<1> QED  BY <1>3, <1>4, <1>5, <1>6, <1>7, <1>8, <1>9, <1>10, <1>11, <1>12, <1>13, <1>14, <1>15

(* What every other executor leaves is told by the names it lists.         *)
LEMMA RunTold ==
    ASSUME NEW d, IsDocument(d), NEW op, Fits(op), op.kind # "reorder_clips", Run(d, op).ok
    PROVE  AllTold(d, Run(d, op).doc, Run(d, op).affected)
<1>0. op.kind \in Kinds /\ op \in Operations
  BY DEF Fits
<1>1. CASE op.kind \in {"add_marker", "add_keyword"}
  <2>1. Run(d, op) = RunNote(d, op)
    BY <1>0, <1>1, RunIs
  <2> DEFINE note == [kind |-> op.note, start |-> op.start]
  <2>2. RunNote(d, op).doc = AddNote(d, op.name, note).doc /\ RunNote(d, op).affected = {op.name}
    BY DEF RunNote, Outcome
  <2> HIDE DEF note
  <2>3. AllTold(d, AddNote(d, op.name, note).doc, {op.name})
    BY NoteTold
  <2> QED  BY <2>1, <2>2, <2>3
<1>2. CASE op.kind = "trim_clip"
  <2>1. Run(d, op) = RunTrim(d, op)
    BY <1>0, <1>2, RunIs
  <2>2. \A t \in Int : Given(op.new_start, t) \in Int /\ Given(op.new_dur, t) \in Int
    BY <1>2 DEF Fits
  <2>3. AllTold(d, TrimClip(d, op.name, op.new_start, op.new_dur).doc, {op.name})
    BY <2>2, TrimTold
  <2> QED  BY <2>1, <2>3 DEF RunTrim, Outcome
<1>3. CASE op.kind = "split_clip"
  <2>1. Run(d, op) = RunSplit(d, op)
    BY <1>0, <1>3, RunIs
  <2>2. op.at \in Int
    BY <1>3 DEF Fits
  <2>3. AllTold(d, SplitClip(d, op.name, op.at).doc, {op.name, Append(op.name, "split")})
    BY <2>2, SplitTold
  <2> QED  BY <2>1, <2>3 DEF RunSplit, Outcome
<1>4. CASE op.kind = "delete_clips"
  <2>1. Run(d, op) = RunDelete(d, op)
    BY <1>0, <1>4, RunIs
  <2> DEFINE targets == {Find(d, n) : n \in ToSet(op.names)}
  <2>2. Run(d, op).doc = Without(d, targets)
    BY <2>1 DEF RunDelete, Outcome
  <2> HIDE DEF targets
  <2> QED  BY <2>2, WithoutTold
<1>5. CASE op.kind = "add_transition"
  <2>1. Run(d, op) = RunTransition(d, op)
    BY <1>0, <1>5, RunIs
  <2>2. op.dur \in Int
    BY <1>5 DEF Fits
  <2>3. AllTold(d, AddTransition(d, op.name, op.dur, op.ref).doc, {op.name})
    BY <2>2, TransitionTold
  <2> QED  BY <2>1, <2>3 DEF RunTransition, Outcome
<1>6. CASE op.kind = "change_speed"
  <2>1. Run(d, op) = RunSpeed(d, op)
    BY <1>0, <1>6, RunIs
  <2>2. op.speed[1] \in Nat \ {0} /\ op.speed[2] \in Nat \ {0}
    BY <1>0, <1>6, OperationsAssumption
  <2>3. AllTold(d, ChangeSpeed(d, op.name, op.speed).doc, {op.name})
    BY <2>2, SpeedTold
  <2> QED  BY <2>1, <2>3 DEF RunSpeed, Outcome
<1>7. CASE op.kind = "assign_role"
  <2> DEFINE r == AssignRole(d, op.name, op.role)
  <2> DEFINE names == IF r.n = 1 /\ Target(d, op).role # op.role THEN {op.name} ELSE {}
  <2> DEFINE good == r.n = 1
  <2>0. Run(d, op) = RunRole(d, op)
    BY <1>0, <1>7, RunIs
  <2>1. RunRole(d, op) = [doc |-> r.doc, ok |-> good, affected |-> names]
    BY DEF RunRole, Outcome
  <2> HIDE DEF r, names, good
  <2>2. Run(d, op).doc = r.doc /\ Run(d, op).affected = names /\ Run(d, op).ok = good
    BY <2>0, <2>1
  <2>5. good
    BY <2>2
  <2>6. r.n = 1
    BY <2>5 DEF good
  <2>3. op.name \in names \/ ElementAt(d, Find(d, op.name)).role = op.role
    BY <2>6 DEF Target, names
  <2>4. AllTold(d, r.doc, names)
    BY <2>3, RoleTold DEF r
  <2> QED  BY <2>2, <2>4
<1>8. CASE op.kind = "batch_assign_roles"
  <2>1. Run(d, op) = RunBatchRoles(d, op)
    BY <1>0, <1>8, RunIs
  <2>2. RunBatchRoles(d, op).doc = BatchAssignRoles(d, op.rules).doc
    BY DEF RunBatchRoles, Outcome
  <2> QED  BY <2>1, <2>2, BatchRolesTold
<1>9. CASE op.kind = "batch_rename_clips"
  <2>1. Run(d, op) = RunRename(d, op)
    BY <1>0, <1>9, RunIs
  <2>2. RunRename(d, op).doc = BatchRename(d, op.pattern, op.with).doc
    BY DEF RunRename, Outcome
  <2> QED  BY <2>1, <2>2, RenameTold
<1>10. CASE op.kind = "fill_gaps"
  <2>1. Run(d, op) = RunFill(d, op)
    BY <1>0, <1>10, RunIs
  <2>2. RunFill(d, op).doc = FillGaps(d, op.ref, op.name).doc
    BY DEF RunFill, Outcome
  <2> QED  BY <2>1, <2>2, FillTold
<1>11. CASE op.kind = "fix_flash_frames"
  <2>1. Run(d, op) = RunFlash(d, op)
    BY <1>0, <1>11, RunIs
  <2>2. RunFlash(d, op).doc = FixFlashFrames(d, op.min).doc
    BY DEF RunFlash, Outcome
  <2>3. op.min \in Int
    BY <1>11 DEF Fits
  <2> QED  BY <2>1, <2>2, <2>3, FlashTold
<1>12. CASE op.kind = "batch_apply_transition"
  <2>1. Run(d, op) = RunBatchTransition(d, op)
    BY <1>0, <1>12, RunIs
  <2>2. RunBatchTransition(d, op).doc = BatchApplyTransition(d, op.dur, op.ref).doc
    BY DEF RunBatchTransition, Outcome
  <2>3. op.dur \in Int
    BY <1>12 DEF Fits
  <2> QED  BY <2>1, <2>2, <2>3, BatchTransitionTold
<1> QED  BY <1>0, <1>1, <1>2, <1>3, <1>4, <1>5, <1>6, <1>7, <1>8, <1>9, <1>10, <1>11, <1>12
         DEF Kinds

(* An operation that succeeds accounts for what it left.                   *)
LEMMA RunAccounts ==
    ASSUME NEW d, IsDocument(d), NEW op, Fits(op), Run(d, op).ok
    PROVE  Accounts(op, d, Run(d, op).doc, Run(d, op).affected)
<1>1. CASE op.kind = "reorder_clips"
  <2>1. op.kind \in Kinds /\ IsSequence(op.names)
    BY <1>1, OperationsAssumption DEF Fits
  <2>2. Run(d, op) = RunReorder(d, op)
    BY <1>1, <2>1, RunIs
  <2>3. RunReorder(d, op).doc = ReorderClips(d, op.names).doc
    BY DEF RunReorder, Outcome
  <2> QED  BY <2>1, <2>2, <2>3, ReorderAccounts
<1>2. CASE op.kind # "reorder_clips"
  BY <1>2, RunTold, ToldAccounts
<1> QED  BY <1>1, <1>2

(* A successful operation accounts for its changes in its receipt. *)
LEMMA StepAccounts ==
    ASSUME PlanInv, [Next]_vars
    PROVE  [phase = "executing" /\ phase' # "failed" =>
               Accounts(Current, tree, tree', receipts'[Len(receipts')].affected)]_vars
<1> SUFFICES ASSUME phase = "executing", phase' # "failed", Next
             PROVE  Accounts(Current, tree, tree', receipts'[Len(receipts')].affected)
  OBVIOUS
<1>1. ExecuteOperation
  BY DEF Next, PreflightOperation, RefuseOperation, StartExecution, FailOperation
<1> DEFINE op == Current
<1> DEFINE r == Run(tree, op)
<1>2. /\ r.ok /\ tree' = r.doc
      /\ receipts' = Append(receipts, Receipt(Len(receipts) + 1, TRUE, r.affected))
  BY <1>1 DEF ExecuteOperation
<1>3. IsDocument(tree) /\ IsSequence(receipts) /\ plan \in Seq(Operations)
      /\ (\A k \in DOMAIN plan : Fits(plan[k])) /\ Len(receipts) < Len(plan)
  BY DEF PlanInv
<1>4. Fits(op)
  <2>1. Len(receipts) \in Nat /\ Len(plan) \in Nat /\ DOMAIN plan = 1..Len(plan)
    BY <1>3, Sequences
  <2>2. Len(receipts) + 1 \in DOMAIN plan
    BY <1>3, <2>1
  <2> QED  BY <1>3, <2>2 DEF Current
<1> HIDE DEF op
<1>5. receipts'[Len(receipts')].affected = r.affected
  <2> DEFINE e == Receipt(Len(receipts) + 1, TRUE, r.affected)
  <2>1. e.affected = r.affected
    BY DEF Receipt
  <2>2. receipts' = Append(receipts, e)
    BY <1>2
  <2> HIDE DEF e
  <2>3. Len(receipts') = Len(receipts) + 1 /\ receipts'[Len(receipts) + 1] = e
    BY <1>3, <2>2, Appended
  <2> QED  BY <2>1, <2>3
<1>6. Accounts(op, tree, r.doc, r.affected)
  BY <1>2, <1>3, <1>4, RunAccounts
<1> QED  BY <1>2, <1>5, <1>6 DEF op

(* Every receipt names what its operation changed or made, whatever the    *)
(* source and the plan: connected clips, repeated names and several        *)
(* sequences included.                                                     *)
THEOREM ReceiptsAccount == Spec => ReceiptsAccountForChanges
<1>1. PlanInv /\ [Next]_vars => PlanInv'
  BY PlanStep
<1>2. PlanInv /\ [Next]_vars =>
         [phase = "executing" /\ phase' # "failed" =>
             Accounts(Current, tree, tree', receipts'[Len(receipts')].affected)]_vars
  BY StepAccounts
<1> QED  BY <1>1, <1>2, PlanInit, PTL DEF Spec, ReceiptsAccountForChanges

=============================================================================
