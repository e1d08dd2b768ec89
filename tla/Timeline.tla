------------------------------ MODULE Timeline ------------------------------
(***************************************************************************)
(* The FCPXML document as the editing code sees it, and every edit of      *)
(* FCPXMLModifier (fcpxml/writer.py).  Both routes to an edit use these    *)
(* operators: EditPlan, the workflow's checked plans, and EditTools, the   *)
(* one-shot tools.  The module holds operators only, no state.             *)
(*                                                                         *)
(* A document has the spines of its sequences in document order, each with *)
(* the start and the duration its sequence declares, the names of the      *)
(* elements that are not in a spine (resources, events, projects), and the *)
(* first format resource.  A name is a sequence of words, a time a whole   *)
(* number of the document's ticks, and a connected clip a member of its    *)
(* parent's kids.  An optional argument is a sequence of at most one value.*)
(***************************************************************************)
EXTENDS Integers, SequencesExt

(* What _find_clip_by_name looks at; the tags the model uses of its twelve. *)
ClipTags == {"asset-clip", "clip", "title", "ref-clip", "gap"}

(* The elements role_attribute_for_element has an attribute for. *)
RoleTags == {"asset-clip", "title"}

Element(tag, name, ref, start, off, dur) ==
    [tag |-> tag, name |-> name, ref |-> ref, start |-> start, off |-> off,
     dur |-> dur, role |-> "none", notes |-> <<>>, remap |-> <<>>, kids |-> <<>>]

IsTransition(e) == e.tag = "transition"

Given(option, default) == IF option = <<>> THEN default ELSE option[1]

(* The items of s at the positions in I, in their order. *)
Selected(s, I) == FlattenSeq([k \in DOMAIN s |-> IF k \in I THEN <<s[k]>> ELSE <<>>])

CountIn(seq, Test(_)) == Cardinality({k \in DOMAIN seq : Test(seq[k])})

-----------------------------------------------------------------------------
(* The shape of a document.                                                *)

IsSequence(s) == s \in Seq(ToSet(s))

IsElement(e) ==
    /\ e = [tag |-> e.tag, name |-> e.name, ref |-> e.ref, start |-> e.start,
            off |-> e.off, dur |-> e.dur, role |-> e.role, notes |-> e.notes,
            remap |-> e.remap, kids |-> e.kids]
    /\ {e.start, e.dur} \subseteq Int
    /\ IsSequence(e.notes) /\ IsSequence(e.kids)

IsItem(e) == IsElement(e) /\ \A k \in DOMAIN e.kids : IsElement(e.kids[k])

IsSpine(spine) ==
    /\ spine = [tc |-> spine.tc, dur |-> spine.dur, items |-> spine.items]
    /\ IsSequence(spine.items)
    /\ \A i \in DOMAIN spine.items : IsItem(spine.items[i])

IsDocument(d) ==
    /\ d = [spines |-> d.spines, labels |-> d.labels, format |-> d.format]
    /\ IsSequence(d.spines) /\ IsSequence(d.labels)
    /\ \A s \in DOMAIN d.spines : IsSpine(d.spines[s])

-----------------------------------------------------------------------------
(* Places: <<spine, item, kid>>, with kid 0 for an item of the spine.      *)

NoPlace == <<0, 0, 0>>

PlacesIn(d) ==
    UNION {UNION {{<<s, i, k>> : k \in 0..Len(d.spines[s].items[i].kids)} :
                  i \in DOMAIN d.spines[s].items} : s \in DOMAIN d.spines}

(* The order of root.iter(): an item, then its connected clips. *)
Before(p, q) ==
    \/ p[1] < q[1]
    \/ p[1] = q[1] /\ p[2] < q[2]
    \/ p[1] = q[1] /\ p[2] = q[2] /\ p[3] < q[3]

FirstOf(S) ==
    IF S = {} THEN NoPlace ELSE CHOOSE p \in S : \A q \in S \ {p} : Before(p, q)

(* All places in that order. *)
Places(d) ==
    FlattenSeq([s \in DOMAIN d.spines |->
        FlattenSeq([i \in DOMAIN d.spines[s].items |->
            [k \in 1..(Len(d.spines[s].items[i].kids) + 1) |-> <<s, i, k - 1>>]])])

ElementAt(d, p) ==
    LET item == d.spines[p[1]].items[p[2]]
    IN  IF p[3] = 0 THEN item ELSE item.kids[p[3]]

Elements(d) ==
    LET ps == Places(d) IN [k \in DOMAIN ps |-> ElementAt(d, ps[k])]

ElementsIn(d) == {ElementAt(d, p) : p \in PlacesIn(d)}

(* The places of the items of the spines. *)
ItemPlaces(d) == {p \in PlacesIn(d) : p[3] = 0}

CountAt(d, places, Test(_)) == Cardinality({p \in places : Test(ElementAt(d, p))})

(* _find_clip_by_name: the first clip of that name in document order. *)
Find(d, name) ==
    FirstOf({p \in PlacesIn(d) : /\ ElementAt(d, p).tag \in ClipTags
                                 /\ ElementAt(d, p).name = name})

Found(d, name) == Find(d, name) # NoPlace

Siblings(d, p) ==
    IF p[3] = 0 THEN d.spines[p[1]].items ELSE d.spines[p[1]].items[p[2]].kids

Position(p) == IF p[3] = 0 THEN p[2] ELSE p[3]

(* The parent of p given other children. *)
WithSiblings(d, p, children) ==
    IF p[3] = 0 THEN [d EXCEPT !.spines[p[1]].items = children]
                ELSE [d EXCEPT !.spines[p[1]].items[p[2]].kids = children]

WithElement(d, p, e) ==
    WithSiblings(d, p, ReplaceAt(Siblings(d, p), Position(p), e))

InsertAfter(d, p, e) ==
    WithSiblings(d, p, InsertAt(Siblings(d, p), Position(p) + 1, e))

(* What an edit returns: the document, and the count or the truth value. *)
Edited(d, n) == [doc |-> d, n |-> n]

EditClip(d, name, F(_)) ==
    LET p == Find(d, name)
    IN  IF p = NoPlace THEN Edited(d, 0)
        ELSE Edited(WithElement(d, p, F(ElementAt(d, p))), 1)

-----------------------------------------------------------------------------
(* Durations.                                                              *)

(* The time the items take up one after the other; transitions overlap. *)
RunTime(items) ==
    FoldLeft(LAMBDA t, e: IF IsTransition(e) THEN t ELSE t + e.dur, 0, items)

(* _recalculate_offsets: every child starts where those before it end. *)
Relay(items) ==
    [i \in DOMAIN items |->
        [items[i] EXCEPT !.off = RunTime(SubSeq(items, 1, i - 1))]]

(* _primary_storyline_duration: the latest end of a child, measured from   *)
(* the start the sequence declares.                                        *)
StorylineDuration(spine) ==
    FoldLeft(LAMBDA end, e: IF e.off + e.dur > end THEN e.off + e.dur ELSE end,
             spine.tc, spine.items) - spine.tc

(* _sync_primary_sequence_duration, for an element of a spine only. *)
SyncDuration(d, p) ==
    IF p[3] = 0
    THEN [d EXCEPT !.spines[p[1]].dur = StorylineDuration(d.spines[p[1]])]
    ELSE d

(* round(duration / (num/den)), Python's rounding of a half to even. *)
Scaled(dur, speed) ==
    LET twice == 2 * dur * speed[2]
        down  == twice \div (2 * speed[1])
        rest  == twice % (2 * speed[1])
    IN  IF rest < speed[1] THEN down
        ELSE IF rest > speed[1] THEN down + 1
        ELSE IF down % 2 = 0 THEN down ELSE down + 1

-----------------------------------------------------------------------------
(* Markers and keywords.                                                   *)

AddNote(d, name, note) ==
    EditClip(d, name, LAMBDA e: [e EXCEPT !.notes = Append(@, note)])

(* batch_add_markers: those whose clip is found, in order; their number. *)
BatchAddMarkers(d, markers) ==
    LET after[k \in 0..Len(markers)] ==
            IF k = 0 THEN Edited(d, 0)
            ELSE LET acc == after[k - 1]
                     r   == AddNote(acc.doc, markers[k].name, markers[k].note)
                 IN  Edited(r.doc, acc.n + r.n)
    IN  after[Len(markers)]

-----------------------------------------------------------------------------
(* One clip.                                                               *)

TrimClip(d, name, start, dur) ==
    LET p == Find(d, name)
        cut == EditClip(d, name, LAMBDA e: [e EXCEPT !.start = Given(start, @),
                                                     !.dur = Given(dur, @)])
    IN  IF cut.n = 1 /\ dur # <<>> THEN Edited(SyncDuration(cut.doc, p), 1) ELSE cut

(* split_clip refuses a point at or past the end and the point zero; a     *)
(* point before the clip passes its test.                                  *)
SplitFits(d, name, at) ==
    /\ Found(d, name)
    /\ at < ElementAt(d, Find(d, name)).dur
    /\ at # 0

(* Mutant: the remainder plays from the clip's own start again. *)
SplitFromStart(d, name, at) ==
    IF ~SplitFits(d, name, at) THEN Edited(d, 0)
    ELSE LET p == Find(d, name)
             e == ElementAt(d, p)
         IN  Edited(InsertAfter(WithElement(d, p, [e EXCEPT !.dur = at]), p,
                 [e EXCEPT !.dur = @ - at, !.off = @ + at,
                           !.name = Append(name, "split"), !.notes = <<>>]), 1)

(* The remainder is a copy of the clip, its children included, without the *)
(* markers and keywords, which stay with the first part.                   *)
SplitClip(d, name, at) ==
    IF ~SplitFits(d, name, at) THEN Edited(d, 0)
    ELSE LET p      == Find(d, name)
             e      == ElementAt(d, p)
             first  == [e EXCEPT !.dur = at]
             second == [e EXCEPT !.start = @ + at, !.dur = @ - at, !.off = @ + at,
                                 !.name = Append(name, "split"), !.notes = <<>>]
         IN  Edited(InsertAfter(WithElement(d, p, first), p, second), 1)

(* Each name removes the clip found for it then, with all it contains. *)
DeleteClip(d, name) ==
    LET p == Find(d, name)
    IN  IF p = NoPlace THEN Edited(d, 0)
        ELSE Edited(WithSiblings(d, p, RemoveAt(Siblings(d, p), Position(p))), 1)

DeleteClips(d, names) ==
    LET after[k \in 0..Len(names)] ==
            IF k = 0 THEN Edited(d, 0)
            ELSE LET acc == after[k - 1]
                     r   == DeleteClip(acc.doc, names[k])
                 IN  Edited(r.doc, acc.n + r.n)
    IN  after[Len(names)]

(* Mutant: the transition goes to the end of the spine. *)
TransitionAtEnd(d, name, dur, ref) ==
    IF ~Found(d, name) THEN Edited(d, 0)
    ELSE LET p == Find(d, name)
             e == ElementAt(d, p)
         IN  Edited(WithSiblings(d, p, Append(Siblings(d, p),
                 Element("transition", <<"Dissolve">>, ref, 0, e.off + e.dur, dur))), 1)

AddTransition(d, name, dur, ref) ==
    IF ~Found(d, name) THEN Edited(d, 0)
    ELSE LET p == Find(d, name)
             e == ElementAt(d, p)
         IN  Edited(InsertAfter(d, p,
                 Element("transition", <<"Dissolve">>, ref, 0, e.off + e.dur, dur)), 1)

(* The time map is replaced, not composed with the one there was. *)
ChangeSpeed(d, name, speed) ==
    EditClip(d, name, LAMBDA e:
        [e EXCEPT !.dur = Scaled(@, speed), !.remap = <<Scaled(e.dur, speed), e.dur>>])

AssignRole(d, name, role) ==
    IF Found(d, name) /\ ElementAt(d, Find(d, name)).tag \in RoleTags
    THEN EditClip(d, name, LAMBDA e: [e EXCEPT !.role = role])
    ELSE Edited(d, 0)

(* A new element at the start or the end of the primary spine, or after    *)
(* the clip of that name wherever it is; only the primary spine is laid    *)
(* again, and the duration its sequence declares is left as it was.        *)
AddElement(d, side, name, e) ==
    LET placed == CASE side = "start" -> [d EXCEPT !.spines[1].items = <<e>> \o @]
                    [] side = "end"   -> [d EXCEPT !.spines[1].items = Append(@, e)]
                    [] side = "after" -> InsertAfter(d, Find(d, name), e)
    IN  IF d.spines = <<>> \/ (side = "after" /\ ~Found(d, name)) THEN Edited(d, 0)
        ELSE Edited([placed EXCEPT !.spines[1].items = Relay(@)], 1)

(* add_title: the first title effect is used, or one is added.              *)
AddTitle(d, side, name, text, dur) ==
    LET HasEffect == \E k \in DOMAIN d.labels : "Title" \in ToSet(d.labels[k])
        named == IF HasEffect THEN d ELSE [d EXCEPT !.labels = Append(@, <<"Basic", "Title">>)]
    IN  AddElement(named, side, name,
                   [Element("title", text, "title", 0, 0, dur) EXCEPT !.role = "Titles"])

(* add_audio: an asset named like the clip is added, once per call.         *)
AddAudio(d, side, name, text, dur) ==
    AddElement([d EXCEPT !.labels = Append(@, text)], side, name,
               [Element("asset-clip", text, "audio", 0, 0, Given(dur, 0))
                   EXCEPT !.role = "Music"])

-----------------------------------------------------------------------------
(* The primary spine and the whole document.                               *)

(* Mutant: the clips that are not listed do not come back. *)
ReorderListedOnly(d, names) ==
    IF d.spines = <<>> THEN Edited(d, 0)
    ELSE LET items   == d.spines[1].items
             Slot(n) == SelectLastInSeq(items, LAMBDA e: ~IsTransition(e) /\ e.name = n)
             present == Selected(names, {k \in DOMAIN names : Slot(names[k]) # 0})
         IN  Edited([d EXCEPT !.spines[1].items =
                        Relay([k \in DOMAIN present |-> items[Slot(present[k])]])], 1)

(* Every listed clip of the primary spine is taken out and remembered      *)
(* under its name, the last one of a name only; the remembered ones go     *)
(* back at the front in the order asked, and all offsets are laid again    *)
(* from zero.                                                              *)
ReorderClips(d, names) ==
    IF d.spines = <<>> THEN Edited(d, 0)
    ELSE LET items     == d.spines[1].items
             Listed(e) == ~IsTransition(e) /\ e.name \in ToSet(names)
             Keep(name) == items[SelectLastInSeq(items,
                                    LAMBDA e: Listed(e) /\ e.name = name)]
             present   == Selected(names, {k \in DOMAIN names : \E i \in DOMAIN items :
                                               Listed(items[i]) /\ items[i].name = names[k]})
             moved     == [k \in DOMAIN present |-> Keep(present[k])]
             others    == Selected(items, {i \in DOMAIN items : ~Listed(items[i])})
         IN  Edited([d EXCEPT !.spines[1].items = Relay(moved \o others)], 1)

MapSpines(d, F(_)) ==
    [d EXCEPT !.spines = [s \in DOMAIN d.spines |->
        [d.spines[s] EXCEPT !.items = F(d.spines[s].items)]]]

MapElements(d, F(_)) ==
    LET Mapped(e) == [F(e) EXCEPT !.kids = [k \in DOMAIN e.kids |-> F(e.kids[k])]]
    IN  MapSpines(d, LAMBDA items: [i \in DOMAIN items |-> Mapped(items[i])])

(* The first rule that matches the name decides. *)
RuleFor(name, rules) == SelectInSeq(rules, LAMBDA r: r.match \in ToSet(name))

BatchAssignRoles(d, rules) ==
    LET Hit(e)  == e.tag \in RoleTags /\ RuleFor(e.name, rules) # 0
        Dress(e) == IF Hit(e) THEN [e EXCEPT !.role = rules[RuleFor(e.name, rules)].role]
                             ELSE e
    IN  Edited(MapElements(d, Dress), CountAt(d, PlacesIn(d), Hit))

Renamed(name, pattern, replacement) ==
    FlattenSeq([k \in DOMAIN name |->
        IF name[k] = pattern THEN replacement ELSE <<name[k]>>])

(* Every element that has a name, the ones that are no clips included. *)
BatchRename(d, pattern, replacement) ==
    LET new == MapElements(d, LAMBDA e:
                  [e EXCEPT !.name = Renamed(@, pattern, replacement)])
        Hit(name) == pattern \in ToSet(name)
    IN  Edited([new EXCEPT !.labels =
                   [k \in DOMAIN @ |-> Renamed(@[k], pattern, replacement)]],
               CountAt(d, PlacesIn(d), LAMBDA e: Hit(e.name)) + CountIn(d.labels, Hit))

IsGap(e) == e.tag = "gap"

(* A new clip in place of each gap of a spine; what the gap held is lost. *)
FillGaps(d, ref, name) ==
    LET Fill(e) == IF IsGap(e)
                   THEN Element("asset-clip", name, ref, 0, e.off, e.dur) ELSE e
    IN  Edited(MapSpines(d, LAMBDA items: [i \in DOMAIN items |-> Fill(items[i])]),
               CountAt(d, ItemPlaces(d), IsGap))

IsFlash(e, min) == e.tag \notin {"gap", "transition"} /\ e.dur < min /\ e.dur # 0

FixFlashFrames(d, min) ==
    LET Flash(e)    == IsFlash(e, min)
        Extend(e)   == IF Flash(e) THEN [e EXCEPT !.dur = min] ELSE e
        Mend(items) == Relay([i \in DOMAIN items |-> Extend(items[i])])
        fixed       == CountAt(d, ItemPlaces(d), Flash)
    IN  Edited(IF fixed = 0 THEN d ELSE MapSpines(d, Mend), fixed)

(* Item i is a clip and so is the next item that is not a transition. *)
CutAfter(items, i) ==
    LET later == {j \in DOMAIN items : j > i /\ ~IsTransition(items[j])}
    IN  /\ items[i].tag \notin {"gap", "transition"}
        /\ later # {}
        /\ ~IsGap(items[Min(later)])

BatchApplyTransition(d, dur, ref) ==
    LET Joint(e) == Element("transition", <<"Dissolve">>, ref, 0, e.off + e.dur, dur)
        Join(items) == FlattenSeq([i \in DOMAIN items |->
            IF CutAfter(items, i) THEN <<items[i], Joint(items[i])>> ELSE <<items[i]>>])
    IN  Edited(MapSpines(d, Join),
               Cardinality({p \in ItemPlaces(d) : CutAfter(d.spines[p[1]].items, p[2])}))

(* reformat: the first format resource is rewritten, if there is one. *)
Reformat(d, format) ==
    IF d.format = "none" THEN Edited(d, 0) ELSE Edited([d EXCEPT !.format = format], 1)

IsLongGap(e, min) == IsGap(e) /\ e.dur >= min

(* remove_silence: the count runs on over the spines, so once a gap is     *)
(* removed every later spine is laid again too, and no earlier one.        *)
RemoveSilence(d, min) ==
    LET Long(e) == IsLongGap(e, min)
        RemovedUpTo(s) == CountAt(d, {p \in ItemPlaces(d) : p[1] <= s}, Long)
        Cut(s) == LET items == d.spines[s].items
                      left  == Selected(items, {i \in DOMAIN items : ~Long(items[i])})
                  IN  IF RemovedUpTo(s) > 0 THEN Relay(left) ELSE left
    IN  Edited([d EXCEPT !.spines = [s \in DOMAIN d.spines |->
                   [d.spines[s] EXCEPT !.items = Cut(s)]]],
               CountAt(d, ItemPlaces(d), Long))

-----------------------------------------------------------------------------
(* For the properties: which frames of a resource an element plays, and    *)
(* whether two documents play every frame up to last equally often.        *)

IsClip(e) == e.tag \notin {"gap", "transition"}

Plays(e, r, t) == IsClip(e) /\ e.ref = r /\ e.start <= t /\ t < e.start + e.dur

Resources(d) == {e.ref : e \in {o \in ElementsIn(d) : IsClip(o)}}

(* No connected clips. *)
Flat(d) == \A s \in DOMAIN d.spines : \A i \in DOMAIN d.spines[s].items :
               d.spines[s].items[i].kids = <<>>

SameFootage(d, x, last) ==
    LET here  == PlacesIn(d)
        there == PlacesIn(x)
    IN  \A r \in Resources(d) \cup Resources(x), t \in -last..last :
           CountAt(d, here, LAMBDA e: Plays(e, r, t)) = CountAt(x, there, LAMBDA e: Plays(e, r, t))

=============================================================================
