------------------------------- MODULE Hunks -------------------------------
(***************************************************************************)
(* diff/mod.rs: to_hunks() turns a solution into the hunks of a patch.     *)
(* build_edit_script() gathers adjacent edits; then each step opens a hunk *)
(* at the next edit, merges one more edit into the open hunk, or closes    *)
(* it.  Edits and hunks count from 1, the positions of lines from 0.       *)
(***************************************************************************)
EXTENDS PatchLines

CONSTANTS
  Inputs,       \* the <<old, new>> pairs of texts
  Solutions,    \* for each of them the solutions that are turned into hunks
  ContextLens   \* the values of DiffOptions::context_len

ASSUME HunksAssumption ==
  /\ Inputs \subseteq Seq(Symbol) \X Seq(Symbol)
  /\ ContextLens \subseteq Nat
  /\ \A pair \in Inputs : \A ds \in Solutions[pair] :
       /\ ds \in Seq(DiffRange) /\ Aligns(ds, pair[1], pair[2])
       /\ \A i \in DOMAIN ds : ~IsEmpty(ds[i])

VARIABLES
  old, new,     \* lines1 and lines2
  solution,
  contextLen,
  step,         \* "script", "next" (the while let), "open" (the inner loop)
                \* or "done"
  script,       \* the edit script
  idx,          \* the edit at hand
  hunk,         \* the hunk under construction
  hunks

hvars == <<old, new, solution, contextLen, step, script, idx, hunk, hunks>>
given == <<old, new, solution, contextLen>>

-----------------------------------------------------------------------------
(* build_edit_script: one edit per run of Deletes and Inserts *)

NoEdits == [a |-> 0, b |-> 0, open |-> <<>>, script |-> <<>>]

AddDiff(acc, diff) ==
  LET o == OldLen(diff)
      n == NewLen(diff)
      edit == IF acc.open = <<>> THEN [old |-> MkRange(acc.a, o), new |-> MkRange(acc.b, n)]
              ELSE [old |-> GrowDown(acc.open[1].old, o), new |-> GrowDown(acc.open[1].new, n)]
  IN  [a |-> acc.a + o, b |-> acc.b + n,
       open |-> IF IsEdit(diff) THEN <<edit>> ELSE <<>>,
       script |-> IF IsEdit(diff) THEN acc.script ELSE acc.script \o acc.open]

(* What the loop has after each of the diffs. *)
Gathered(diffs) ==
  LET acc[i \in 0..Len(diffs)] == IF i = 0 THEN NoEdits ELSE AddDiff(acc[i - 1], diffs[i])
  IN  acc

(* Mutated BuildEditScript. *)
BuildClosedEdits(diffs) == Gathered(diffs)[Len(diffs)].script

BuildEditScript(diffs) ==
  LET acc == Gathered(diffs)[Len(diffs)] IN acc.script \o acc.open

-----------------------------------------------------------------------------
(* The lines of a hunk *)

LinesOf(kind, text, from, to) ==
  [i \in 1..Max2(to - from, 0) |-> Line(kind, text[from + i])]

Context(from, to) == LinesOf("Context", new, from, to)

Change(edit) ==
  LinesOf("Delete", old, edit.old.offset, RangeEnd(edit.old))
  \o LinesOf("Insert", new, edit.new.offset, RangeEnd(edit.new))

(* Mutated PostContext. *)
PostContextShort(edit) ==
  Min2(contextLen, Min2(SaturatingSub(Len(old), RangeEnd(edit.old) + 1),
                        SaturatingSub(Len(new), RangeEnd(edit.new) + 1)))

(* calc_end: how many lines of context fit below an edit. *)
PostContext(edit) ==
  Min2(contextLen, Min2(SaturatingSub(Len(old), RangeEnd(edit.old)),
                        SaturatingSub(Len(new), RangeEnd(edit.new))))

(* Mutated Overlaps. *)
OverlapsEdit(edit) == edit.old.offset < hunk.end1
OverlapsTwice(edit) ==
  SaturatingSub(Min2(edit.old.offset, Len(old) - 1), 2 * contextLen) < hunk.end1

(* Would the context above the edit run into the open hunk? *)
Overlaps(edit) ==
  SaturatingSub(Min2(edit.old.offset, Len(old) - 1), contextLen) < hunk.end1

-----------------------------------------------------------------------------

NoHunk == [start1 |-> 0, start2 |-> 0, end1 |-> 0, end2 |-> 0, lines |-> <<>>]

Init ==
  /\ \E pair \in Inputs : old = pair[1] /\ new = pair[2] /\ solution \in Solutions[pair]
  /\ contextLen \in ContextLens
  /\ step = "script" /\ script = <<>> /\ idx = 1 /\ hunk = NoHunk /\ hunks = <<>>

MakeScript ==
  /\ step = "script"
  /\ script' = BuildEditScript(solution)
  /\ step' = "next"
  /\ UNCHANGED <<given, idx, hunk, hunks>>

OpenHunk ==
  /\ step = "next" /\ idx <= Len(script)
  /\ LET edit == script[idx]
         start2 == SaturatingSub(edit.new.offset, contextLen)
     IN  hunk' = [start1 |-> SaturatingSub(edit.old.offset, contextLen),
                  start2 |-> start2,
                  end1 |-> RangeEnd(edit.old) + PostContext(edit),
                  end2 |-> RangeEnd(edit.new) + PostContext(edit),
                  lines |-> Context(start2, edit.new.offset) \o Change(edit)]
  /\ step' = "open"
  /\ UNCHANGED <<given, script, idx, hunks>>

HasNext == idx + 1 <= Len(script)

(* Mutated MergeEdit. *)
MergeEditKeepingEnd1 ==
  /\ step = "open" /\ HasNext /\ Overlaps(script[idx + 1])
  /\ LET edit == script[idx + 1]
         between == Context(RangeEnd(script[idx].new), edit.new.offset)
     IN  hunk' = [hunk EXCEPT !.end2 = RangeEnd(edit.new) + PostContext(edit),
                              !.lines = @ \o between \o Change(edit)]
  /\ idx' = idx + 1
  /\ UNCHANGED <<given, script, step, hunks>>

MergeEdit ==
  /\ step = "open" /\ HasNext /\ Overlaps(script[idx + 1])
  /\ LET edit == script[idx + 1]
         between == Context(RangeEnd(script[idx].new), edit.new.offset)
     IN  hunk' = [hunk EXCEPT !.end1 = RangeEnd(edit.old) + PostContext(edit),
                              !.end2 = RangeEnd(edit.new) + PostContext(edit),
                              !.lines = @ \o between \o Change(edit)]
  /\ idx' = idx + 1
  /\ UNCHANGED <<given, script, step, hunks>>

FinishedLines == hunk.lines \o Context(RangeEnd(script[idx].new), hunk.end2)

(* Hunk::new asserts that the ranges count the lines. *)
CountsMatch ==
  /\ OldCount(FinishedLines) = hunk.end1 - hunk.start1
  /\ NewCount(FinishedLines) = hunk.end2 - hunk.start2

CloseHunk ==
  /\ step = "open" /\ ~(HasNext /\ Overlaps(script[idx + 1]))
  /\ CountsMatch
  /\ hunks' = Append(hunks,
       [old |-> HunkRange(hunk.start1, hunk.end1 - hunk.start1),
        new |-> HunkRange(hunk.start2, hunk.end2 - hunk.start2),
        lines |-> FinishedLines])
  /\ idx' = idx + 1 /\ step' = "next" /\ hunk' = NoHunk
  /\ UNCHANGED <<given, script>>

ReturnHunks ==
  /\ step = "next" /\ idx > Len(script)
  /\ step' = "done"
  /\ UNCHANGED <<given, script, idx, hunk, hunks>>

Next == MakeScript \/ OpenHunk \/ MergeEdit \/ CloseHunk \/ ReturnHunks

Spec == Init /\ [][Next]_hvars /\ WF_hvars(Next)

-----------------------------------------------------------------------------
(* Properties *)

TypeOK ==
  /\ old \in Seq(Symbol) /\ new \in Seq(Symbol)
  /\ contextLen \in Nat
  /\ step \in {"script", "next", "open", "done"}
  /\ idx \in Nat \ {0}
  /\ hunk.lines \in Seq(HunkLine)
  /\ \A i \in DOMAIN hunks : hunks[i].old \in HunkRanges /\ hunks[i].new \in HunkRanges

(***************************************************************************)
(* to_hunks never panics: Hunk::new's assertions hold for every hunk it    *)
(* closes, with any context, and `lines1.len() - 1` is only computed when  *)
(* there are lines.                                                        *)
(***************************************************************************)
NoPanic ==
  step = "open" =>
    /\ HasNext => Len(old) > 0
    /\ (HasNext => ~Overlaps(script[idx + 1])) => CountsMatch

(***************************************************************************)
(* What the hunks say, read literally: at the lines its old range names,   *)
(* each hunk's old lines are replaced by its new lines, and what lies      *)
(* between hunks is copied.                                                *)
(***************************************************************************)
FirstLine(r) == IF r.len > 0 THEN r.start - 1 ELSE r.start

Replaces(text, h) ==
  SubSeq(text, FirstLine(h.old) + 1, FirstLine(h.old) + h.old.len) = PreImageOf(h.lines)

Literally(text, hs) ==
  LET upTo(i) == IF i = 0 THEN 0 ELSE FirstLine(hs[i].old) + hs[i].old.len
      copied(i) == SubSeq(text, upTo(i - 1) + 1, FirstLine(hs[i].old))
  IN  FlattenSeq([i \in DOMAIN hs |-> copied(i) \o PostImageOf(hs[i].lines)])
      \o SubSeq(text, upTo(Len(hs)) + 1, Len(text))

(***************************************************************************)
(* The patch describes the change, both ways: its hunks quote old exactly  *)
(* where they say, and read literally they turn old into new, and reversed *)
(* new into old.  Context lines come from new, so this is also where they  *)
(* are shown to stand in old.  And the parser's order check accepts it.    *)
(***************************************************************************)
DescribesChange ==
  step = "done" =>
    /\ HunksInOrder(hunks)
    /\ \A i \in DOMAIN hunks : Replaces(old, hunks[i]) /\ Replaces(new, ReverseHunk(hunks[i]))
    /\ Literally(old, hunks) = new
    /\ Literally(new, ReversePatch(hunks)) = old

(***************************************************************************)
(* A hunk shows contextLen lines of context above its first edit and below *)
(* its last one, or all there are up to where both texts begin or end, and *)
(* edits are only joined into one hunk when their contexts touch.          *)
(***************************************************************************)
ContextRun(lines, from, to) == \A i \in from..to : lines[i].kind = "Context"
AtBeginning(h) == FirstLine(h.old) = 0 /\ FirstLine(h.new) = 0
AtEnd(h) ==
  FirstLine(h.old) + h.old.len = Len(old) /\ FirstLine(h.new) + h.new.len = Len(new)
ContextAsAsked ==
  \A h \in ToSet(hunks) :
    LET n == Len(h.lines)
    IN  /\ \A i, j \in 1..n : i <= j /\ ContextRun(h.lines, i, j)
             => j - i + 1 <= (IF i = 1 \/ j = n THEN contextLen ELSE 2 * contextLen)
        /\ AtBeginning(h) \/ (contextLen <= n /\ ContextRun(h.lines, 1, contextLen))
        /\ AtEnd(h) \/ (contextLen <= n /\ ContextRun(h.lines, n - contextLen + 1, n))

=============================================================================
