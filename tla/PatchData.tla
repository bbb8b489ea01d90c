------------------------------ MODULE PatchData ------------------------------
(***************************************************************************)
(* patch/mod.rs: the hunks of a patch, as create_patch makes them, the     *)
(* parser checks them and apply reads them.  Pure operators.               *)
(***************************************************************************)
EXTENDS DiffRanges, SequencesExt

Line(kind, line) == [kind |-> kind, line |-> line]
LineKinds == {"Context", "Delete", "Insert"}

(* Mutated HunkRange. *)
HunkRangeBefore(start, len) == [start |-> IF len > 0 THEN start + 1 ELSE start - 1, len |-> len]

(* A range of no lines is named after the line before it. *)
HunkRange(start, len) == [start |-> IF len > 0 THEN start + 1 ELSE start, len |-> len]
HunkRangeEnd(r) == r.start + r.len
HunkRanges == [start : Nat, len : Nat]

(* pre_image and post_image: the lines a hunk expects and those it leaves. *)
OldLine(l) == IF l.kind = "Insert" THEN <<>> ELSE <<l.line>>
NewLine(l) == IF l.kind = "Delete" THEN <<>> ELSE <<l.line>>
PreImageOf(lines) == FlattenSeq([i \in DOMAIN lines |-> OldLine(lines[i])])
PostImageOf(lines) == FlattenSeq([i \in DOMAIN lines |-> NewLine(lines[i])])

(* hunk_lines_count *)
OldCount(lines) == Len(PreImageOf(lines))
NewCount(lines) == Len(PostImageOf(lines))

(* Mutated ReverseLine. *)
ReverseDelete(l) == [l EXCEPT !.kind = IF @ = "Delete" THEN "Insert" ELSE @]

(* Patch::reverse *)
ReverseLine(l) ==
  [l EXCEPT !.kind = IF @ = "Insert" THEN "Delete" ELSE IF @ = "Delete" THEN "Insert" ELSE @]

ReverseHunk(h) ==
  [old |-> h.new, new |-> h.old, lines |-> [i \in DOMAIN h.lines |-> ReverseLine(h.lines[i])]]
ReversePatch(hunks) == [i \in DOMAIN hunks |-> ReverseHunk(hunks[i])]

(* verify_hunks_in_order: what the parser demands of consecutive hunks. *)
HunksInOrder(hunks) ==
  \A i \in 1..Len(hunks) - 1 :
    /\ HunkRangeEnd(hunks[i].old) <= hunks[i + 1].old.start
    /\ HunkRangeEnd(hunks[i].new) <= hunks[i + 1].new.start

=============================================================================
