----------------------------- MODULE MCEditPlan -----------------------------
(***************************************************************************)
(* Small instances of EditPlan.  Times are ticks up to 12; names are one   *)
(* or two words.                                                           *)
(***************************************************************************)
EXTENDS EditPlan

Clp(name, ref, start, off, dur) == Element("asset-clip", <<name>>, ref, start, off, dur)
Title(name, off, dur) == Element("title", <<name>>, "text", 0, off, dur)
Compound(name, off, dur) == Element("ref-clip", <<name>>, "comp", 0, off, dur)
Gap(off, dur) == Element("gap", <<"Gap">>, "none", 0, off, dur)
Dissolve(off, dur) == Element("transition", <<"Dissolve">>, "none", 0, off, dur)

Spine(tc, dur, items) == [tc |-> tc, dur |-> dur, items |-> items]
Doc(spines) == [spines |-> spines, labels |-> <<<<"A", "media">>>>, format |-> "hd"]

(* Two clips of one name, a gap, a compound clip that can have no role. *)
Repeated == Doc(<<Spine(0, 8, <<Clp("A", "m1", 1, 0, 3), Clp("A", "m1", 0, 3, 1),
                                Gap(4, 2), Compound("B", 6, 2)>>)>>)

(* Two sequences; a transition on the cut of the first. *)
TwoSequences == Doc(<<Spine(0, 5, <<Clp("A", "m1", 0, 0, 3), Dissolve(3, 1),
                                    Title("B", 3, 2)>>),
                      Spine(0, 4, <<Clp("B", "m2", 2, 0, 1), Clp("C", "m1", 0, 1, 3)>>)>>)

(* A connected clip inside the first, under the name of the second. *)
Connected == Doc(<<Spine(0, 6, <<[Clp("A", "m1", 0, 0, 4) EXCEPT
                                     !.kids = <<Clp("B", "m2", 0, 1, 2)>>],
                                 Clp("B", "m2", 0, 4, 2)>>)>>)

PlainSources == {Repeated, TwoSequences, Connected}

Note(kind, note, name, start, dur) ==
    [kind |-> kind, note |-> note, name |-> name, start |-> start, dur |-> dur]
Trim(name, start, dur) ==
    [kind |-> "trim_clip", name |-> name, new_start |-> start, new_dur |-> dur]
Split(name, at) == [kind |-> "split_clip", name |-> name, at |-> at]
Delete(names) == [kind |-> "delete_clips", names |-> names]
Reorder(names) == [kind |-> "reorder_clips", names |-> names]
Transition(name, ref, dur) ==
    [kind |-> "add_transition", name |-> name, ref |-> ref, dur |-> dur]
Speed(name, speed) == [kind |-> "change_speed", name |-> name, speed |-> speed]
Role(name, role) == [kind |-> "assign_role", name |-> name, role |-> role]
Roles(rules) == [kind |-> "batch_assign_roles", rules |-> rules]
Rename(pattern, with) == [kind |-> "batch_rename_clips", pattern |-> pattern, with |-> with]
Fill(ref, name) == [kind |-> "fill_gaps", ref |-> ref, name |-> name]
Flash(min) == [kind |-> "fix_flash_frames", min |-> min]
Transitions(dur) == [kind |-> "batch_apply_transition", ref |-> "none", dur |-> dur]

A == <<"A">>
B == <<"B">>
C == <<"C">>
A_split == <<"A", "split">>

PlanOperations == {
    Note("add_marker", "marker", A, 0, <<1>>), Note("add_keyword", "keyword", B, 0, <<>>),
    Trim(A, <<>>, <<2>>), Trim(B, <<>>, <<12>>), Trim(A_split, <<0>>, <<>>),
    Split(A, 1), Split(B, 1), Delete(<<A>>), Delete(<<A, B>>),
    Reorder(<<B>>), Reorder(<<B, A>>), Reorder(<<A_split>>),
    Transition(A, "fade", 1), Transition(B, "none", 1),
    Speed(A, <<2, 1>>), Speed(B, <<1, 6>>), Role(A, "dialogue"), Role(B, "music"),
    Roles(<<[match |-> "split", role |-> "music"], [match |-> "A", role |-> "dialogue"]>>),
    Rename("A", <<"B">>), Rename("split", <<>>),
    Fill("m2", <<"Fill">>), Flash(2), Transitions(1)}

=============================================================================
