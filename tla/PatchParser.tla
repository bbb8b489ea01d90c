---------------------------- MODULE PatchParser ----------------------------
(***************************************************************************)
(* patch/parse.rs: parse_one() reads one patch.  patch_header() skips a    *)
(* preamble and takes the file names, hunks() reads hunks while it sees    *)
(* their headers, hunk_lines() decides of every line whether it still      *)
(* belongs to the hunk, and the strict mode of Patch::from_str then looks  *)
(* for hunk headers in what is left.  One step is one iteration of one of  *)
(* these loops.  `pos` counts the lines that have been consumed.           *)
(***************************************************************************)
EXTENDS PatchText

CONSTANTS
  Texts,      \* the inputs
  Options     \* the ParseOpts they are parsed with

ParseOpts == [skipPreamble : BOOLEAN, rejectOrphans : BOOLEAN]

ASSUME ParserAssumption == Texts \subseteq Seq(PatchLine) /\ Options \subseteq ParseOpts

VARIABLES
  text, opts,
  pos,
  stage,                 \* the loop: "preamble", "names", "hunks", "lines",
                         \* "orphans", or "done"
  original, modified,    \* Option: the names, <<>> for None
  hunks,
  open,                  \* the hunk whose lines are being read
  result                 \* "none" at first, then "ok" or the kind of the error

pvars == <<text, opts, pos, stage, original, modified, hunks, open, result>>
input == <<text, opts>>

-----------------------------------------------------------------------------

(* A hunk as the parser returns it, and one with the counts of hunk_lines. *)
ParsedHunk(ranges, context, lines) ==
  [old |-> ranges[1], new |-> ranges[2], context |-> context, lines |-> lines]
NoHunk == [ranges |-> <<>>, context |-> <<>>, lines |-> <<>>, unterminated |-> {}]

(* ParseOpts::default() skips a preamble and tolerates orphaned hunks. *)
DefaultOpts == [skipPreamble |-> TRUE, rejectOrphans |-> FALSE]
NoSkipPreamble(o) == [o EXCEPT !.skipPreamble = FALSE]
RejectOrphanedHunks(o) == [o EXCEPT !.rejectOrphans = TRUE]

AtEnd == pos >= Len(text)
Peek == text[pos + 1]
Advance == pos' = pos + 1

Finish(r) == stage' = "done" /\ result' = r

(* What parse_one() starts with, at the line after `from`. *)
StartAt(from, o) ==
  /\ opts' = o /\ pos' = from
  /\ stage' = (IF o.skipPreamble THEN "preamble" ELSE "names")
  /\ original' = <<>> /\ modified' = <<>> /\ hunks' = <<>>
  /\ open' = NoHunk /\ result' = "none"

Begin ==
  /\ pos = 0
  /\ stage = (IF opts.skipPreamble THEN "preamble" ELSE "names")
  /\ original = <<>> /\ modified = <<>> /\ hunks = <<>>
  /\ open = NoHunk /\ result = "none"

Init == text \in Texts /\ opts \in Options /\ Begin

-----------------------------------------------------------------------------
(* patch_header *)

(* Mutated SkipPreamble. *)
SkipPreambleInPlace ==
  /\ stage = "preamble"
  /\ AtEnd \/ IsFileHeader(Peek) \/ IsHunkHeader(Peek)
  /\ stage' = "names" /\ UNCHANGED pos
  /\ UNCHANGED <<input, original, modified, hunks, open, result>>

SkipPreamble ==
  /\ stage = "preamble"
  /\ IF ~AtEnd /\ ~IsFileHeader(Peek) /\ ~IsHunkHeader(Peek)
     THEN Advance /\ UNCHANGED stage
     ELSE stage' = "names" /\ UNCHANGED pos
  /\ UNCHANGED <<input, original, modified, hunks, open, result>>

(* Mutated ParseFilename. *)
ParseFilenameToLineEnd(l) ==
  IF l.nl THEN EscapedFilename(l.body[2]) ELSE NameRefused("FilenameUnterminated")

(* parse_filename: the name ends at the first tab, or else at the newline. *)
ParseFilename(l) ==
  LET tab == SelectInSeq(l.body[2], LAMBDA b : b = Tab)
  IN  IF tab # 0 THEN EscapedFilename(SubSeq(l.body[2], 1, tab - 1))
      ELSE IF l.nl THEN EscapedFilename(l.body[2])
      ELSE NameRefused("FilenameUnterminated")
NameError(l) == ParseFilename(l).error

Twice(l) == IF IsOriginalHeader(l) THEN original # <<>> ELSE modified # <<>>

AtName == stage = "names" /\ ~AtEnd /\ IsFileHeader(Peek)

TakeName ==
  /\ AtName /\ ~Twice(Peek) /\ NameError(Peek) = "none"
  /\ Advance
  /\ original' = IF IsOriginalHeader(Peek) THEN <<ParseFilename(Peek).name>> ELSE original
  /\ modified' = IF IsModifiedHeader(Peek) THEN <<ParseFilename(Peek).name>> ELSE modified
  /\ UNCHANGED <<input, stage, hunks, open, result>>

(* A bad name has been consumed when it is rejected, a second one has not. *)
RefuseName ==
  /\ AtName
  /\ \/ /\ Twice(Peek)
        /\ Finish(IF IsOriginalHeader(Peek) THEN "MultipleOriginalHeaders"
                  ELSE "MultipleModifiedHeaders")
        /\ UNCHANGED pos
     \/ /\ ~Twice(Peek) /\ NameError(Peek) # "none"
        /\ Finish(NameError(Peek))
        /\ Advance
  /\ UNCHANGED <<input, original, modified, hunks, open>>

EndNames ==
  /\ stage = "names" /\ ~AtName
  /\ stage' = "hunks"
  /\ UNCHANGED <<input, pos, original, modified, hunks, open, result>>

-----------------------------------------------------------------------------
(* hunks and hunk *)

AtHunk == stage = "hunks" /\ ~AtEnd /\ IsHunkHeader(Peek)

OpenHunk ==
  /\ AtHunk /\ Peek.ranges # <<>>
  /\ Advance
  /\ open' = [NoHunk EXCEPT
       !.ranges = Peek.ranges,
       !.context = IF Peek.body = Nothing THEN <<>> ELSE <<Content(Peek.body, Peek.nl)>>]
  /\ stage' = "lines"
  /\ UNCHANGED <<input, original, modified, hunks, result>>

RefuseHunk ==
  /\ AtHunk /\ Peek.ranges = <<>>
  /\ Advance
  /\ Finish("InvalidHunkHeader")
  /\ UNCHANGED <<input, original, modified, hunks, open>>

EndHunks ==
  /\ stage = "hunks" /\ ~AtHunk
  /\ IF ~HunksInOrder(hunks) THEN Finish("HunksOutOfOrder")
     ELSE IF opts.rejectOrphans THEN stage' = "orphans" /\ UNCHANGED result
     ELSE Finish("ok")
  /\ UNCHANGED <<input, pos, original, modified, hunks, open>>

-----------------------------------------------------------------------------
(* hunk_lines.  The three no_newline flags are the set open.unterminated.  *)

Complete ==
  /\ OldCount(open.lines) >= open.ranges[1].len
  /\ NewCount(open.lines) >= open.ranges[2].len

(* Why the line at hand is refused; "none" if it is not.  One that starts  *)
(* with @ ends the hunk whatever has been seen.  A deleted (inserted) line *)
(* after the unterminated one is refused even if the hunk is complete.     *)
LineError(l) ==
  CASE l.sign \in {"@@", "@"} -> "none"
    [] l.sign \notin {"@@", "@"} /\ "Context" \in open.unterminated ->
         (IF Complete THEN "none" ELSE "ExpectedEndOfHunk")
    [] OTHER ->
         (CASE KindOf(l) = "Delete" /\ "Delete" \in open.unterminated -> "TooManyDeletedLines"
            [] KindOf(l) = "Insert" /\ "Insert" \in open.unterminated -> "TooManyInsertedLines"
            [] IsMarker(l) /\ open.lines = <<>>                 -> "UnexpectedNoNewlineMarker"
            [] IsMarker(l) /\ open.lines # <<>> /\ ~Last(open.lines).line.nl -> "MissingNewline"
            [] KindOf(l) = "None" /\ ~IsMarker(l) /\ ~Complete  -> "UnexpectedHunkLine"
            [] OTHER -> "none")

(* Mutated EndsHunk. *)
EndsHunkAtAnyHeader ==
  ~AtEnd =>
    \/ Peek.sign \in {"@@", "@"}
    \/ IsFileHeader(Peek)
    \/ Complete /\ LineError(Peek) = "none" /\ (~IsMarker(Peek) \/ "Context" \in open.unterminated)

(* The loop breaks, or the text does. *)
EndsHunk ==
  ~AtEnd =>
    \/ Peek.sign \in {"@@", "@"}
    \/ Complete /\ LineError(Peek) = "none" /\ (~IsMarker(Peek) \/ "Context" \in open.unterminated)

InLines == stage = "lines" /\ ~EndsHunk

TakeLine ==
  /\ InLines /\ LineError(Peek) = "none" /\ ~IsMarker(Peek)
  /\ Advance
  /\ open' = [open EXCEPT !.lines =
                Append(@, Line(KindOf(Peek), Content(Peek.body, Peek.nl)))]
  /\ UNCHANGED <<input, stage, original, modified, hunks, result>>

(* Mutated TakeMarker. *)
TakeMarkerUnflagged ==
  /\ InLines /\ LineError(Peek) = "none" /\ IsMarker(Peek)
  /\ Advance
  /\ open' = [open EXCEPT !.unterminated = @ \cup {Last(open.lines).kind}]
  /\ UNCHANGED <<input, stage, original, modified, hunks, result>>

(* The marker takes the newline off the line before it. *)
TakeMarker ==
  /\ InLines /\ LineError(Peek) = "none" /\ IsMarker(Peek)
  /\ Advance
  /\ LET last == Last(open.lines)
     IN  open' = [open EXCEPT
           !.lines = Append(Front(@), Line(last.kind, Content(last.line.body, FALSE))),
           !.unterminated = @ \cup {last.kind}]
  /\ UNCHANGED <<input, stage, original, modified, hunks, result>>

RefuseLine ==
  /\ InLines /\ LineError(Peek) # "none"
  /\ Finish(LineError(Peek))
  /\ UNCHANGED <<input, pos, original, modified, hunks, open>>

(* Mutated CloseHunk. *)
CloseHunkConsuming ==
  /\ stage = "lines" /\ EndsHunk
  /\ IF /\ OldCount(open.lines) = open.ranges[1].len
        /\ NewCount(open.lines) = open.ranges[2].len
     THEN /\ hunks' = Append(hunks, ParsedHunk(open.ranges, open.context, open.lines))
          /\ stage' = "hunks" /\ UNCHANGED result
     ELSE Finish("HunkMismatch") /\ UNCHANGED hunks
  /\ open' = NoHunk /\ Advance
  /\ UNCHANGED <<input, original, modified>>

CloseHunk ==
  /\ stage = "lines" /\ EndsHunk
  /\ IF /\ OldCount(open.lines) = open.ranges[1].len
        /\ NewCount(open.lines) = open.ranges[2].len
     THEN /\ hunks' = Append(hunks, ParsedHunk(open.ranges, open.context, open.lines))
          /\ stage' = "hunks" /\ UNCHANGED result
     ELSE Finish("HunkMismatch") /\ UNCHANGED hunks
  /\ open' = NoHunk
  /\ UNCHANGED <<input, pos, original, modified>>

-----------------------------------------------------------------------------
(* reject_orphaned_hunk_headers *)

(* Mutated SkipTrailer. *)
SkipOneTrailer ==
  /\ stage = "orphans"
  /\ IF AtEnd THEN Finish("ok") /\ UNCHANGED pos
     ELSE IF IsHunkHeader(Peek) THEN Finish("OrphanedHunkHeader") /\ UNCHANGED pos
     ELSE Finish("ok") /\ Advance
  /\ UNCHANGED <<input, original, modified, hunks, open>>

SkipTrailer ==
  /\ stage = "orphans"
  /\ IF AtEnd THEN Finish("ok") /\ UNCHANGED pos
     ELSE IF IsHunkHeader(Peek) THEN Finish("OrphanedHunkHeader") /\ UNCHANGED pos
     ELSE Advance /\ UNCHANGED <<stage, result>>
  /\ UNCHANGED <<input, original, modified, hunks, open>>

Next ==
  \/ SkipPreamble \/ TakeName \/ RefuseName \/ EndNames
  \/ OpenHunk \/ RefuseHunk \/ EndHunks
  \/ TakeLine \/ TakeMarker \/ RefuseLine \/ CloseHunk
  \/ SkipTrailer

Spec == Init /\ [][Next]_pvars /\ WF_pvars(Next)

-----------------------------------------------------------------------------
(* Properties *)

(* ParsePatchErrorKind.  InvalidHunkHeader stands for what else can be     *)
(* wrong with a hunk header.                                               *)
ErrorKinds ==
  {"MultipleOriginalHeaders", "MultipleModifiedHeaders", "FilenameUnterminated",
   "InvalidCharInUnquotedFilename", "ExpectedEscapedChar", "InvalidEscapedChar",
   "InvalidUnescapedChar", "InvalidHunkHeader", "HunksOutOfOrder", "HunkMismatch",
   "ExpectedEndOfHunk", "TooManyDeletedLines", "TooManyInsertedLines",
   "UnexpectedNoNewlineMarker", "UnexpectedHunkLine", "MissingNewline", "OrphanedHunkHeader"}

Contents == [body : Bodies, nl : BOOLEAN]
Lines == [kind : LineKinds, line : Contents]

TypeOK ==
  /\ pos \in 0..Len(text)
  /\ stage \in {"preamble", "names", "hunks", "lines", "orphans", "done"}
  /\ original \in Seq(Seq(Byte)) /\ modified \in Seq(Seq(Byte))
  /\ Len(original) <= 1 /\ Len(modified) <= 1
  /\ open.lines \in Seq(Lines) /\ open.unterminated \subseteq LineKinds
  /\ \A h \in ToSet(hunks) : h.old \in HunkRanges /\ h.new \in HunkRanges
                             /\ h.lines \in Seq(Lines)
  /\ result \in {"none", "ok"} \cup ErrorKinds

(***************************************************************************)
(* Nothing of the text between the file names and the end of the last hunk *)
(* is lost, added or taken for something else: what has been consumed      *)
(* there is what the formatter writes for the hunks.  A blank line is      *)
(* short for an empty line of context, and an unterminated last line of    *)
(* the text for one with a marker.  (Function contexts do not survive the  *)
(* formatter and are left out.)                                            *)
(***************************************************************************)
Plain == [message |-> TRUE, suppress |-> FALSE, shown |-> FALSE]

Spelled(l) ==
  CASE l = BlankLine -> <<TextLine("space", Nothing, TRUE)>>
    [] IsHunkHeader(l) -> <<[l EXCEPT !.body = Nothing, !.nl = TRUE]>>
    [] IsMarker(l) -> <<MarkerLine>>
    [] ~l.nl /\ ~IsMarker(l) /\ ~IsHunkHeader(l) -> <<[l EXCEPT !.nl = TRUE], MarkerLine>>
    [] OTHER -> <<l>>

HunksText(hs) ==
  FlattenSeq([i \in DOMAIN hs |-> FormatHunk([hs[i] EXCEPT !.context = <<>>], Plain)])

AccountsForText ==
  result = "ok" /\ ~opts.rejectOrphans =>
    \E from \in 0..pos :
      /\ FlattenSeq([i \in 1..pos - from |-> Spelled(text[from + i])]) = HunksText(hunks)
      /\ \A i \in 1..from : ~IsHunkHeader(text[i])

(***************************************************************************)
(* The comment on reject_orphaned_hunk_headers: "an `@@ ` line hiding      *)
(* behind that junk indicates a lost hunk".  In strict mode a patch is     *)
(* only returned if every hunk header of the whole text became a hunk.     *)
(***************************************************************************)
NoHunkLost ==
  result = "ok" /\ opts.rejectOrphans =>
    Len(hunks) = Cardinality({i \in DOMAIN text : IsHunkHeader(text[i])})

(***************************************************************************)
(* patch/tests.rs on what follows a hunk that ends without a newline: "the *)
(* parser should still recognize the hunk as complete and ignore the       *)
(* trailing content".  A hunk that has all its lines is not refused for    *)
(* the file header of the patch that comes after it.                       *)
(***************************************************************************)
HasAllLines(h) ==
  /\ h.ranges # <<>>
  /\ OldCount(h.lines) = h.ranges[1].len /\ NewCount(h.lines) = h.ranges[2].len

CompleteHunkStands ==
  result \in {"TooManyDeletedLines", "TooManyInsertedLines"} =>
    ~(HasAllLines(open) /\ IsFileHeader(Peek))

Termination == <>(stage = "done")

=============================================================================
