------------------------------ MODULE EditPlan ------------------------------
(***************************************************************************)
(* A workflow edit plan (workflow/operations.py): the source is inspected  *)
(* into an inventory, every operation is checked against an inventory that *)
(* projects the effects of the operations before it, and only then are the *)
(* operations run on the document, each executor comparing the document it *)
(* left with the one it expected.  The first failure ends the plan and no  *)
(* candidate comes out.                                                    *)
(***************************************************************************)
EXTENDS Timeline

CONSTANTS
    Sources,        \* documents a plan may be prepared for
    Operations,     \* the operations a caller may put in a plan
    MaxPlan,        \* bound: operations in a plan
    TimeLimit,      \* the largest time the code accepts (2^63 - 1 there)
    MotionEffects,  \* resources that are effects with a .motr template
    VisualAssets    \* resources that are assets with video

ASSUME MaxPlanAssumption == MaxPlan \in Nat \ {0}
ASSUME TimeLimitAssumption == TimeLimit \in Nat \ {0}
ASSUME SourcesAssumption == \A d \in Sources : IsDocument(d)

(* _unique_clip_names refuses a list that names a clip twice, and a speed  *)
(* factor is a positive number (PositiveFiniteFloat).                       *)
ASSUME OperationsAssumption ==
    \A op \in Operations :
        /\ op.kind \in {"delete_clips", "reorder_clips"} =>
              IsSequence(op.names) /\ IsInjective(op.names)
        /\ op.kind = "change_speed" => op.speed \in (Nat \ {0}) \X (Nat \ {0})

VARIABLES
    src,       \* the parsed source
    plan,      \* the operations accepted so far, in order
    inv,       \* projected_inventory
    tree,      \* the modifier's document
    phase,     \* where execute_plan is
    receipts   \* the operation receipts, in order

vars == <<src, plan, inv, tree, phase, receipts>>

-----------------------------------------------------------------------------
(* The inventory.                                                          *)

ClipInfo(d, p) ==
    LET e == ElementAt(d, p)
    IN  [id |-> p, kind |-> e.tag, name |-> e.name, ref |-> e.ref,
         start |-> e.start, dur |-> e.dur, off |-> e.off,
         spine |-> IF p[3] = 0 THEN p[1] ELSE 0]

(* build_source_inventory: the clips in document order without the         *)
(* transitions, and the items of each spine with them.                     *)
Inventory(d) ==
    LET ps    == Places(d)
        infos == [k \in DOMAIN ps |-> ClipInfo(d, ps[k])]
    IN  [clips  |-> SelectSeq(infos, LAMBDA c: c.kind # "transition"),
         spines |-> [s \in DOMAIN d.spines |->
                        SelectSeq(infos, LAMBDA c: c.spine = s)]]

HasClip(i, name) == \E k \in DOMAIN i.clips : i.clips[k].name = name

(* _require_clip: the first clip of that name. *)
Clip(i, name) == i.clips[SelectInSeq(i.clips, LAMBDA c: c.name = name)]

(* _map_inventory_clips: the same change to a clip wherever it is listed. *)
MapClips(i, F(_)) ==
    [clips  |-> [k \in DOMAIN i.clips |-> F(i.clips[k])],
     spines |-> [s \in DOMAIN i.spines |->
                    [k \in DOMAIN i.spines[s] |-> F(i.spines[s][k])]]]

ChangeClip(i, id, new) == MapClips(i, LAMBDA c: IF c.id = id THEN new ELSE c)

(* _parse_time and _validate_result_time. *)
Time(t)        == t \in -TimeLimit..TimeLimit
Nonnegative(t) == t \in 0..TimeLimit
Positive(t)    == t \in 1..TimeLimit

Total(items) == FoldLeft(LAMBDA t, c: IF c.kind = "transition" THEN t ELSE t + c.dur,
                         0, items)

(* The running offset stays in the domain through a spine laid from zero. *)
LaysOut(items) ==
    /\ \A k \in DOMAIN items : items[k].kind # "transition" => Nonnegative(items[k].dur)
    /\ \A k \in DOMAIN items : Nonnegative(Total(SubSeq(items, 1, k)))

Extended(c, min) ==
    IF c.kind \notin {"gap", "transition"} /\ c.dur < min /\ c.dur # 0
    THEN [c EXCEPT !.dur = min] ELSE c

-----------------------------------------------------------------------------
(* _preflight_operation: one disjunct per kind of operation.               *)

AcceptsNote(i, op) ==
    /\ op.kind \in {"add_marker", "add_keyword"}
    /\ HasClip(i, op.name)
    /\ Nonnegative(op.start)
    /\ op.dur # <<>> => Positive(op.dur[1])

AcceptsTrim(i, op) ==
    /\ op.kind = "trim_clip"
    /\ HasClip(i, op.name)
    /\ LET c == Clip(i, op.name)
           start == Given(op.new_start, c.start)
           dur   == Given(op.new_dur, c.dur)
       IN  /\ Nonnegative(c.start) /\ Positive(c.dur)
           /\ Nonnegative(start) /\ Positive(dur)
           /\ <<start, dur>> # <<c.start, c.dur>>

AcceptsSplit(i, op) ==
    /\ op.kind = "split_clip"
    /\ HasClip(i, op.name)
    /\ LET c == Clip(i, op.name)
       IN  /\ Positive(c.dur) /\ Nonnegative(c.start) /\ Time(c.off)
           /\ Positive(op.at)
           /\ op.at < c.dur
           /\ Nonnegative(c.start + op.at)
           /\ Time(c.off + op.at)

AcceptsDelete(i, op) ==
    op.kind = "delete_clips" /\ \A n \in ToSet(op.names) : HasClip(i, n)

(* Mutant: a name that several clips of the spine have is accepted. *)
AcceptsAmbiguousReorder(i, op) ==
    /\ op.kind = "reorder_clips"
    /\ i.spines # <<>>
    /\ LaysOut(i.spines[1])
    /\ \A n \in ToSet(op.names) :
          \E k \in DOMAIN i.spines[1] :
              /\ i.spines[1][k].kind # "transition"
              /\ i.spines[1][k].name = n
              /\ Positive(i.spines[1][k].dur)

AcceptsReorder(i, op) ==
    /\ op.kind = "reorder_clips"
    /\ i.spines # <<>>
    /\ LaysOut(i.spines[1])
    /\ \A n \in ToSet(op.names) :
          LET matches == SelectSeq(i.spines[1],
                            LAMBDA c: c.kind # "transition" /\ c.name = n)
          IN  Len(matches) = 1 /\ Positive(matches[1].dur)

(* The clip after the target, transitions apart, is there and no gap. *)
FollowedByClip(items, id) ==
    LET at    == SelectInSeq(items, LAMBDA c: c.id = id)
        later == SelectSeq(SubSeq(items, at + 1, Len(items)),
                           LAMBDA c: c.kind # "transition")
    IN  later # <<>> /\ later[1].kind # "gap"

EffectKnown(ref) == ref = "none" \/ ref \in MotionEffects

AcceptsTransition(i, op) ==
    /\ op.kind = "add_transition"
    /\ HasClip(i, op.name)
    /\ LET c == Clip(i, op.name)
       IN  /\ c.kind # "gap"
           /\ Positive(op.dur) /\ Time(c.off) /\ Positive(c.dur)
           /\ Time(c.off + c.dur)
           /\ EffectKnown(op.ref)
           /\ c.spine # 0
           /\ FollowedByClip(i.spines[c.spine], c.id)

(* Mutant: the result of the division is not looked at. *)
AcceptsAnySpeed(i, op) ==
    /\ op.kind = "change_speed"
    /\ HasClip(i, op.name)
    /\ Positive(Clip(i, op.name).dur)

AcceptsSpeed(i, op) ==
    /\ op.kind = "change_speed"
    /\ HasClip(i, op.name)
    /\ Positive(Clip(i, op.name).dur)
    /\ Positive(Scaled(Clip(i, op.name).dur, op.speed))

AcceptsRole(i, op) == op.kind = "assign_role" /\ HasClip(i, op.name)

AcceptsBatchNames(op) == op.kind \in {"batch_assign_roles", "batch_rename_clips"}

AcceptsFill(i, op) ==
    /\ op.kind = "fill_gaps"
    /\ op.ref \in VisualAssets
    /\ \A s \in DOMAIN i.spines : \A k \in DOMAIN i.spines[s] :
          i.spines[s][k].kind = "gap" => /\ Time(i.spines[s][k].off)
                                         /\ Positive(i.spines[s][k].dur)

AcceptsFlash(i, op) ==
    /\ op.kind = "fix_flash_frames"
    /\ Positive(op.min)
    /\ \A s \in DOMAIN i.spines :
          LET items == i.spines[s]
          IN  /\ \A k \in DOMAIN items :
                    items[k].kind # "transition" => Nonnegative(items[k].dur)
              /\ LaysOut([k \in DOMAIN items |-> Extended(items[k], op.min)])

AcceptsBatchTransition(i, op) ==
    /\ op.kind = "batch_apply_transition"
    /\ Positive(op.dur)
    /\ EffectKnown(op.ref)
    /\ \A s \in DOMAIN i.spines : \A k \in DOMAIN i.spines[s] :
          LET c == i.spines[s][k]
          IN  c.kind \notin {"gap", "transition"} =>
                  Time(c.off) /\ Positive(c.dur) /\ Time(c.off + c.dur)

Accepts(i, op) ==
    \/ AcceptsNote(i, op)
    \/ AcceptsTrim(i, op)
    \/ AcceptsSplit(i, op)
    \/ AcceptsDelete(i, op)
    \/ AcceptsReorder(i, op)
    \/ AcceptsTransition(i, op)
    \/ AcceptsSpeed(i, op)
    \/ AcceptsRole(i, op)
    \/ AcceptsBatchNames(op)
    \/ AcceptsFill(i, op)
    \/ AcceptsFlash(i, op)
    \/ AcceptsBatchTransition(i, op)

-----------------------------------------------------------------------------
(* _advance_inventory: what a later operation will be checked against.     *)

ProjectTrim(i, op) ==
    LET c == Clip(i, op.name)
    IN  ChangeClip(i, c.id, [c EXCEPT !.start = Given(op.new_start, @),
                                      !.dur = Given(op.new_dur, @)])

ProjectSplit(i, op, n) ==
    LET c      == Clip(i, op.name)
        first  == [c EXCEPT !.dur = op.at]
        second == [c EXCEPT !.id = Append(@, n), !.name = Append(op.name, "split"),
                            !.start = @ + op.at, !.dur = @ - op.at, !.off = @ + op.at]
        Part(list) == FlattenSeq([k \in DOMAIN list |->
            IF list[k].id = c.id THEN <<first, second>> ELSE <<list[k]>>])
    IN  [clips |-> Part(i.clips), spines |-> [s \in DOMAIN i.spines |-> Part(i.spines[s])]]

(* Names are distinct in a plan: each takes the first clip of its name. *)
ProjectDelete(i, op) ==
    LET gone == {Clip(i, n).id : n \in ToSet(op.names)}
        Keep(list) == SelectSeq(list, LAMBDA c: c.id \notin gone)
    IN  [clips |-> Keep(i.clips), spines |-> [s \in DOMAIN i.spines |-> Keep(i.spines[s])]]

Listed(op, c) == c.kind # "transition" /\ c.name \in ToSet(op.names)

ProjectReorder(i, op) ==
    LET items  == i.spines[1]
        Of(n)  == items[SelectLastInSeq(items, LAMBDA c: Listed(op, c) /\ c.name = n)]
        moved  == [k \in DOMAIN op.names |-> Of(op.names[k])]
        order  == moved \o SelectSeq(items, LAMBDA c: ~Listed(op, c))
        laid   == [k \in DOMAIN order |->
                      [order[k] EXCEPT !.off = Total(SubSeq(order, 1, k - 1))]]
        New(c) == LET at == SelectInSeq(laid, LAMBDA x: x.id = c.id)
                  IN  IF at = 0 THEN c ELSE laid[at]
    IN  [clips  |-> [k \in DOMAIN i.clips |-> New(i.clips[k])],
         spines |-> [i.spines EXCEPT ![1] = laid]]

ProjectSpeed(i, op) ==
    LET c == Clip(i, op.name)
    IN  ChangeClip(i, c.id, [c EXCEPT !.dur = Scaled(@, op.speed)])

ProjectRename(i, op) ==
    MapClips(i, LAMBDA c: [c EXCEPT !.name = Renamed(@, op.pattern, op.with)])

ProjectFill(i, op) ==
    MapClips(i, LAMBDA c: IF c.kind = "gap" /\ c.spine # 0
                          THEN [c EXCEPT !.kind = "asset-clip", !.name = op.name,
                                         !.ref = op.ref, !.start = 0]
                          ELSE c)

(* Mutant: only the spines with a flash frame are laid again. *)
ProjectFlashLocally(i, op) ==
    LET Mended(items) ==
            LET long == [k \in DOMAIN items |-> Extended(items[k], op.min)]
            IN  IF long = items THEN items
                ELSE [k \in DOMAIN long |->
                         [long[k] EXCEPT !.off = Total(SubSeq(long, 1, k - 1))]]
        all    == FlattenSeq([s \in DOMAIN i.spines |-> Mended(i.spines[s])])
        New(c) == LET at == SelectInSeq(all, LAMBDA x: x.id = c.id)
                  IN  IF at = 0 THEN c ELSE all[at]
    IN  MapClips(i, New)

ProjectFlash(i, op) ==
    LET Mended(items) ==
            LET long == [k \in DOMAIN items |-> Extended(items[k], op.min)]
            IN  [k \in DOMAIN long |-> [long[k] EXCEPT !.off = Total(SubSeq(long, 1, k - 1))]]
        all    == FlattenSeq([s \in DOMAIN i.spines |-> Mended(i.spines[s])])
        short  == \E s \in DOMAIN i.spines : \E k \in DOMAIN i.spines[s] :
                      Extended(i.spines[s][k], op.min) # i.spines[s][k]
        New(c) == LET at == SelectInSeq(all, LAMBDA x: x.id = c.id)
                  IN  IF at = 0 THEN c ELSE all[at]
    IN  IF short THEN MapClips(i, New) ELSE i

(* Notes, roles and transitions do not show in the projection. *)
Advance(i, op, n) ==
    CASE op.kind = "trim_clip"          -> ProjectTrim(i, op)
      [] op.kind = "split_clip"         -> ProjectSplit(i, op, n)
      [] op.kind = "delete_clips"       -> ProjectDelete(i, op)
      [] op.kind = "reorder_clips"      -> ProjectReorder(i, op)
      [] op.kind = "change_speed"       -> ProjectSpeed(i, op)
      [] op.kind = "batch_rename_clips" -> ProjectRename(i, op)
      [] op.kind = "fill_gaps"          -> ProjectFill(i, op)
      [] op.kind = "fix_flash_frames"   -> ProjectFlash(i, op)
      [] OTHER                          -> i

-----------------------------------------------------------------------------
(* The executors.  Each runs the modifier's edit and compares what is      *)
(* there with what it worked out beforehand; Run returns the document, the *)
(* outcome of the comparison and the names its receipt lists.              *)

Outcome(d, ok, names) == [doc |-> d, ok |-> ok, affected |-> names]

Target(d, op) == ElementAt(d, Find(d, op.name))

RunNote(d, op) ==
    LET r == AddNote(d, op.name, [kind |-> op.note, start |-> op.start])
    IN  Outcome(r.doc, r.n = 1, {op.name})

(* The executor also recomputes the sequence's duration after the trim. *)
RunTrim(d, op) ==
    LET r == TrimClip(d, op.name, op.new_start, op.new_dur)
    IN  Outcome(r.doc, r.n = 1, {op.name})

RunSplit(d, op) ==
    LET r == SplitClip(d, op.name, op.at)
        fit == /\ Found(d, op.name)
               /\ Target(d, op).start >= 0
               /\ Target(d, op).dur > 0
    IN  Outcome(r.doc, fit /\ r.n = 1, {op.name, Append(op.name, "split")})

(* The document without the elements at the places given, and what they hold. *)
Without(d, gone) ==
    LET Kept(s, i) == LET kids == d.spines[s].items[i].kids
                      IN  Selected(kids, {k \in DOMAIN kids : <<s, i, k>> \notin gone})
        Left(s)    == LET items == d.spines[s].items
                      IN  Selected([i \in DOMAIN items |-> [items[i] EXCEPT !.kids = Kept(s, i)]],
                                   {i \in DOMAIN items : <<s, i, 0>> \notin gone})
    IN  [d EXCEPT !.spines = [s \in DOMAIN d.spines |->
            [d.spines[s] EXCEPT !.items = Left(s)]]]

(* Every name must remove one clip, and the tree must be the one without   *)
(* the clips the names stood for at the start.                             *)
RunDelete(d, op) ==
    LET r       == DeleteClips(d, op.names)
        targets == {Find(d, n) : n \in ToSet(op.names)}
    IN  Outcome(r.doc,
                /\ NoPlace \notin targets
                /\ r.n = Len(op.names)
                /\ r.doc = Without(d, targets),
                ToSet(op.names))

(* Mutant: the receipt lists the clips the caller named. *)
RunReorderListingAsked(d, op) ==
    LET before == d.spines[1].items
        Of(n)  == {k \in DOMAIN before : ~IsTransition(before[k]) /\ before[k].name = n}
    IN  Outcome(ReorderClips(d, op.names).doc,
                \A n \in ToSet(op.names) : Cardinality(Of(n)) = 1,
                ToSet(op.names))

(* The receipt lists the clips that changed place or offset. *)
RunReorder(d, op) ==
    LET r      == ReorderClips(d, op.names)
        before == d.spines[1].items
        after  == r.doc.spines[1].items
        listed == {k \in DOMAIN before : Listed(op, [kind |-> before[k].tag,
                                                     name |-> before[k].name])}
        single == \A n \in ToSet(op.names) : \E k \in listed :
                      {m \in listed : before[m].name = n} = {k}
        Slot(seq, n) == SelectInSeq(seq, LAMBDA e: ~IsTransition(e) /\ e.name = n)
        moved  == {n \in ToSet(op.names) : Slot(before, n) # Slot(after, n)}
        shifted == {after[k].name : k \in {m \in DOMAIN after :
                       ~\E b \in DOMAIN before : before[b] = after[m]}}
    IN  Outcome(r.doc, single, moved \cup shifted)

RunTransition(d, op) ==
    LET r == AddTransition(d, op.name, op.dur, op.ref)
    IN  Outcome(r.doc, r.n = 1 /\ Target(d, op).dur > 0, {op.name})

RunSpeed(d, op) ==
    LET r == ChangeSpeed(d, op.name, op.speed)
    IN  Outcome(r.doc, r.n = 1 /\ Target(d, op).dur > 0, {op.name})

(* Preflight looks for the clip and not at what it is, so a clip that has  *)
(* no role attribute is found out here.                                    *)
RunRole(d, op) ==
    LET r == AssignRole(d, op.name, op.role)
    IN  Outcome(r.doc, r.n = 1,
                IF r.n = 1 /\ Target(d, op).role # op.role THEN {op.name} ELSE {})

RunBatchRoles(d, op) ==
    LET r == BatchAssignRoles(d, op.rules)
    IN  Outcome(r.doc, TRUE, {ElementAt(d, p).name : p \in
            {q \in PlacesIn(d) : ElementAt(d, q).role # ElementAt(r.doc, q).role}})

RunRename(d, op) ==
    LET r   == BatchRename(d, op.pattern, op.with)
        touched == {q \in PlacesIn(d) : ElementAt(d, q).name # ElementAt(r.doc, q).name}
        labels  == {k \in DOMAIN d.labels : d.labels[k] # r.doc.labels[k]}
    IN  Outcome(r.doc, TRUE, {ElementAt(r.doc, p).name : p \in touched}
                                 \cup {r.doc.labels[k] : k \in labels})

RunFill(d, op) ==
    LET r == FillGaps(d, op.ref, op.name)
    IN  Outcome(r.doc, TRUE, IF r.n > 0 THEN {op.name} ELSE {})

(* The receipt lists the clips made longer; the offsets that were laid     *)
(* again are checked and not listed.                                       *)
RunFlash(d, op) ==
    LET r == FixFlashFrames(d, op.min)
        items == {ElementAt(d, p) : p \in ItemPlaces(d)}
    IN  Outcome(r.doc, \A e \in items : IsTransition(e) \/ e.dur >= 0,
                {e.name : e \in {f \in items : IsFlash(f, op.min)}})

RunBatchTransition(d, op) ==
    LET r == BatchApplyTransition(d, op.dur, op.ref)
        firsts == {ElementAt(d, p) : p \in
                      {q \in ItemPlaces(d) : CutAfter(d.spines[q[1]].items, q[2])}}
    IN  Outcome(r.doc, \A e \in firsts : e.dur > 0, {e.name : e \in firsts})

(* A target that is no longer there fails the operation: Find has no place *)
(* to look at, so the executors above are reached only with one.           *)
NeedsTarget(op) ==
    op.kind \in {"add_marker", "add_keyword", "trim_clip", "split_clip",
                 "add_transition", "change_speed", "assign_role"}

Run(d, op) ==
    IF NeedsTarget(op) /\ ~Found(d, op.name) THEN Outcome(d, FALSE, {}) ELSE
    CASE op.kind \in {"add_marker", "add_keyword"} -> RunNote(d, op)
      [] op.kind = "trim_clip"              -> RunTrim(d, op)
      [] op.kind = "split_clip"             -> RunSplit(d, op)
      [] op.kind = "delete_clips"           -> RunDelete(d, op)
      [] op.kind = "reorder_clips"          -> RunReorder(d, op)
      [] op.kind = "add_transition"         -> RunTransition(d, op)
      [] op.kind = "change_speed"           -> RunSpeed(d, op)
      [] op.kind = "assign_role"            -> RunRole(d, op)
      [] op.kind = "batch_assign_roles"     -> RunBatchRoles(d, op)
      [] op.kind = "batch_rename_clips"     -> RunRename(d, op)
      [] op.kind = "fill_gaps"              -> RunFill(d, op)
      [] op.kind = "fix_flash_frames"       -> RunFlash(d, op)
      [] op.kind = "batch_apply_transition" -> RunBatchTransition(d, op)

-----------------------------------------------------------------------------
(* normalize_plan and execute_plan.                                        *)

Receipt(n, ok, names) == [operation |-> n, ok |-> ok, affected |-> names]

Init ==
    /\ src \in Sources
    /\ plan = <<>>
    /\ inv = Inventory(src)
    /\ tree = src
    /\ phase = "planning"
    /\ receipts = <<>>

(* The next operation passes its check and is projected for those after it. *)
PreflightOperation ==
    /\ phase = "planning"
    /\ Len(plan) < MaxPlan
    /\ \E op \in Operations :
          /\ Accepts(inv, op)
          /\ plan' = Append(plan, op)
          /\ inv' = Advance(inv, op, Len(plan) + 1)
    /\ UNCHANGED <<src, tree, phase, receipts>>

(* OperationPreflightError: one failed receipt, nothing was run. *)
RefuseOperation ==
    /\ phase = "planning"
    /\ Len(plan) < MaxPlan
    /\ \E op \in Operations : ~Accepts(inv, op)
    /\ phase' = "refused"
    /\ receipts' = <<Receipt(Len(plan) + 1, FALSE, {})>>
    /\ UNCHANGED <<src, plan, inv, tree>>

(* The caller's plan ends here: a plan has at least one operation. *)
StartExecution ==
    /\ phase = "planning"
    /\ plan # <<>>
    /\ phase' = "executing"
    /\ UNCHANGED <<src, plan, inv, tree, receipts>>

Current == plan[Len(receipts) + 1]

ExecuteOperation ==
    /\ phase = "executing"
    /\ LET r == Run(tree, Current)
       IN  /\ r.ok
           /\ tree' = r.doc
           /\ receipts' = Append(receipts, Receipt(Len(receipts) + 1, TRUE, r.affected))
    /\ phase' = IF Len(receipts') = Len(plan) THEN "succeeded" ELSE phase
    /\ UNCHANGED <<src, plan, inv>>

(* The document stays as the edit left it and is dropped. *)
FailOperation ==
    /\ phase = "executing"
    /\ LET r == Run(tree, Current)
       IN  /\ ~r.ok
           /\ tree' = r.doc
           /\ receipts' = Append(receipts, Receipt(Len(receipts) + 1, FALSE, {}))
    /\ phase' = "failed"
    /\ UNCHANGED <<src, plan, inv>>

Next ==
    \/ PreflightOperation
    \/ RefuseOperation
    \/ StartExecution
    \/ ExecuteOperation
    \/ FailOperation

Spec == Init /\ [][Next]_vars

-----------------------------------------------------------------------------
(* Properties.                                                             *)

Executed == SubSeq(plan, 1, Len(receipts))

(* The projection keeps the clips in the order they had in the source: a   *)
(* reorder moves them in their spine only.  An operation that then gives   *)
(* two clips one name (by renaming, by filling gaps, or because the name a *)
(* split gives its second part was taken) leaves it with another first     *)
(* clip of that name than the document.  Three properties below leave such *)
(* plans out.                                                              *)
NamesStaySteady ==
    \A j, k \in DOMAIN plan :
        j < k /\ plan[j].kind = "reorder_clips"
              => plan[k].kind \notin {"batch_rename_clips", "fill_gaps", "split_clip"}

(* On a source without connected clips, what preflight accepts runs: the   *)
(* executors find every target they were promised and produce the effect   *)
(* they expect.  The one exception is a role for a clip that can have      *)
(* none, which _preflight_operation does not look at.                      *)
AcceptedPlanExecutes ==
    phase = "failed" /\ Flat(src) /\ NamesStaySteady => plan[Len(receipts)].kind = "assign_role"

Row(c) == [kind |-> c.kind, name |-> c.name, ref |-> c.ref,
           start |-> c.start, dur |-> c.dur, off |-> c.off]

Rows(items) ==
    LET clips == SelectSeq(items, LAMBDA c: c.kind # "transition")
    IN  [k \in DOMAIN clips |-> Row(clips[k])]

(* On such a source the projection _advance_inventory made of the whole    *)
(* plan is what inspecting the edited document would give: the same clips  *)
(* in the same order with the same times in every spine, and for every     *)
(* name the same first clip, which is the one a later operation edits.     *)
(* (The order of inv.clips itself is not kept up by a reorder.)            *)
ProjectionMatches ==
    phase = "succeeded" /\ Flat(src) /\ NamesStaySteady =>
        LET real == Inventory(tree)
        IN  /\ \A s \in DOMAIN inv.spines : Rows(inv.spines[s]) = Rows(real.spines[s])
            /\ \A k \in DOMAIN real.clips :
                  LET n == real.clips[k].name
                  IN  HasClip(inv, n) /\ Row(Clip(inv, n)) = Row(Clip(real, n))
            /\ Len(inv.clips) = Len(real.clips)

Rearranging == {"add_marker", "add_keyword", "split_clip", "reorder_clips", "add_transition",
                "assign_role", "batch_assign_roles", "batch_rename_clips",
                "batch_apply_transition"}

(* Splitting, reordering, renaming and marking in any sequence lose no     *)
(* frame of the source and play none twice: only an operation that is      *)
(* asked to shorten, remove, fill or lengthen changes what is played.      *)
FootageConserved ==
    /\ phase \in {"executing", "succeeded"}
    /\ Flat(src)
    /\ \A k \in DOMAIN Executed : Executed[k].kind \in Rearranging
    => SameFootage(tree, src, TimeLimit)

(* Every time an accepted plan leaves on a clip is one the inspection of   *)
(* the candidate accepts again: in the domain of _parse_time, with no clip *)
(* of the source's positive ones gone to zero or below.                    *)
ResultTimesInDomain ==
    phase = "succeeded" /\ Flat(src) /\ NamesStaySteady =>
        \A e \in ElementsIn(tree) :
            /\ Nonnegative(e.start) /\ Nonnegative(e.off) /\ Nonnegative(e.dur)
            /\ e.dur = 0 => \E o \in ElementsIn(src) : o.dur = 0

Bare(e) == [e EXCEPT !.off = 0, !.kids = <<>>]

(* What a receipt has to account for: where a clip is, in a reorder only. *)
View(op, e) == IF op.kind = "reorder_clips" THEN [e EXCEPT !.kids = <<>>] ELSE Bare(e)

(* In d every clip is as it was in some place of before, or is listed. *)
Accounts(op, before, d, listed) ==
    LET views == {View(op, o) : o \in ElementsIn(before)}
    IN  \A e \in ElementsIn(d) : \/ IsTransition(e)
                                \/ View(op, e) \in views
                                \/ e.name \in listed

(* The receipt of an operation names every clip it changed or made: a clip *)
(* that was not there before, its offset apart, has a name on it; so has   *)
(* one that only moved, when the operation is a reorder.  (A flash frame   *)
(* repair lays every offset again and does not list those.)                *)
ReceiptsAccountForChanges ==
    [][ phase = "executing" /\ phase' # "failed" =>
            Accounts(Current, tree, tree', receipts'[Len(receipts')].affected) ]_vars

=============================================================================
