----------------------------- MODULE PatchLines -----------------------------
(***************************************************************************)
(* Hunks whose lines are drawn from a set: what to_hunks makes and apply   *)
(* is given.                                                               *)
(***************************************************************************)
EXTENDS Alignments, PatchData

CONSTANT Symbol   \* the lines: ids that stand for them

HunkLine == [kind : LineKinds, line : Symbol]
PatchHunk == [old : HunkRanges, new : HunkRanges, lines : Seq(HunkLine)]

=============================================================================
