----------------------------- MODULE MCEditTools ----------------------------
(***************************************************************************)
(* Small instances of EditTools: two servers, a call each, on two files.   *)
(***************************************************************************)
EXTENDS EditTools

Clp(name, ref, start, off, dur) == Element("asset-clip", <<name>>, ref, start, off, dur)
Title(name, off, dur) == Element("title", <<name>>, "text", 0, off, dur)
Compound(name, off, dur) == Element("ref-clip", <<name>>, "comp", 0, off, dur)
Gap(off, dur) == Element("gap", <<"Gap">>, "none", 0, off, dur)

Doc(spines) == [spines |-> [s \in DOMAIN spines |->
                               [tc |-> 0, dur |-> RunTime(spines[s]), items |-> spines[s]]],
                labels |-> <<<<"A", "media">>>>, format |-> "hd"]

(* Two sequences with gaps, connected titles, one of them of a gap, and a  *)
(* compound clip.                                                          *)
Cutting == Doc(<< <<Clp("A", "m1", 1, 0, 3), [Gap(3, 2) EXCEPT !.kids = <<Title("U", 0, 1)>>],
                    [Clp("B", "m2", 0, 5, 2) EXCEPT !.kids = <<Title("T", 0, 1)>>]>>,
                  <<Gap(0, 3), Compound("C", 3, 2), Title("D", 5, 1)>> >>)

(* Two clips of one name. *)
Repeated == Doc(<< <<Clp("A", "m1", 0, 0, 2), Clp("B", "m2", 0, 2, 2),
                     Clp("A", "m1", 4, 4, 1)>> >>)

A == <<"A">>
B == <<"B">>
C == <<"C">>
T == <<"T">>
D == <<"D">>
G == <<"Gap">>

Marker(name) == [kind |-> "add_marker", note |-> "marker", name |-> name, start |-> 0]
Keyword(name) == [kind |-> "add_keyword", note |-> "keyword", name |-> name, start |-> 0]
Markers(names) == [kind |-> "batch_add_markers",
                   markers |-> [k \in DOMAIN names |->
                       [name |-> names[k], note |-> [kind |-> "marker", start |-> k]]]]
Trim(name, start, dur) ==
    [kind |-> "trim_clip", name |-> name, new_start |-> start, new_dur |-> dur]
Split(name, at) == [kind |-> "split_clip", name |-> name, at |-> at]
Delete(names) == [kind |-> "delete_clips", names |-> names]
Reorder(names) == [kind |-> "reorder_clips", names |-> names]
Transition(name) == [kind |-> "add_transition", name |-> name, dur |-> 1]
Speed(name, speed) == [kind |-> "change_speed", name |-> name, speed |-> speed]
Role(name) == [kind |-> "assign_role", name |-> name, role |-> "music"]
Format(format) == [kind |-> "reformat", format |-> format]
Flash(min) == [kind |-> "fix_flash_frames", min |-> min]
Fill(ref) == [kind |-> "fill_gaps", ref |-> ref, name |-> <<"Fill">>]
Silence(min) == [kind |-> "remove_silence", min |-> min]
Rename(pattern, with) == [kind |-> "batch_rename_clips", pattern |-> pattern, with |-> with]
Roles_(rules) == [kind |-> "batch_assign_roles", rules |-> rules]
Titled(side, name) ==
    [kind |-> "add_title", side |-> side, name |-> name, text |-> <<"N">>, dur |-> 1]
Sound(side, name, dur) ==
    [kind |-> "add_audio", side |-> side, name |-> name, text |-> <<"S">>, new_dur |-> dur]
Transitions == [kind |-> "batch_apply_transition", dur |-> 1]

Ops == {Marker(A), Marker(T), Marker(G), Keyword(C), Markers(<<A, B>>), Markers(<<A, <<"X">>>>),
        Trim(A, <<>>, <<1>>), Split(B, 1), Split(A, -1), Split(A, 3),
        Delete(<<A>>), Delete(<<B, T>>), Delete(<<T, B>>),
        Reorder(<<B, A>>), Reorder(<<D>>), Transition(A), Transition(T),
        Speed(B, <<2, 1>>), Speed(C, <<1, 2>>), Role(C),
        Format("tall"), Flash(2), Fill("m1"), Fill("m9"), Silence(2), Silence(3), Silence(-1),
        Rename("A", <<"E">>), Rename("Z", <<>>),
        Roles_(<<[match |-> "B", role |-> "music"]>>), Transitions,
        Titled("start", <<>>), Titled("after", A), Titled("after", D),
        Sound("end", <<>>, <<>>), Sound("after", A, <<2>>)}

(* Every tool from x to y; a few the other way, and one onto its own file. *)
AllRequests == [op : Ops, src : {"x"}, dst : {"y"}]
               \cup [op : {Rename("E", <<"A">>), Split(B, 1), Titled("end", <<>>)}, src : {"y"}, dst : {"x"}]
               \cup [op : {Marker(A)}, src : {"x"}, dst : {"x"}]

Symmetric == Permutations(Servers)

ReorderRequests == [op : {Reorder(<<B, A>>), Reorder(<<A>>), Delete(<<B>>), Marker(A)},
                    src : {"x"}, dst : {"y"}]

SomeDocuments == {Cutting, Repeated}
RepeatedDocuments == {Repeated}
=============================================================================
