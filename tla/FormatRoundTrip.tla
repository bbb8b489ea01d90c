-------------------------- MODULE FormatRoundTrip --------------------------
(***************************************************************************)
(* patch/format.rs and patch/parse.rs together: a patch is written by a    *)
(* PatchFormatter and the text is read back by Patch::from_str.  Composes  *)
(* PatchText and PatchParser, which may also be given any other text.      *)
(***************************************************************************)
EXTENDS PatchParser

CONSTANT
  Writings     \* the patches that are written, each with the formatter

(* A line of the kind that has no newline is the last of its file.         *)
LastOf(lines, kind) ==
  \A i, j \in DOMAIN lines :
    i < j /\ lines[i].kind \in {kind, "Context"} /\ ~lines[i].line.nl
      => lines[j].kind \notin {kind, "Context"}

(* Hunks as to_hunks makes them and Patch::reverse turns them round: their *)
(* ranges count their lines and they are in order.                         *)
WrittenHunk(h) ==
  /\ h.old.len = OldCount(h.lines) /\ h.new.len = NewCount(h.lines)
  /\ LastOf(h.lines, "Delete") /\ LastOf(h.lines, "Insert")

WrittenPatch(p) ==
  /\ p.original \in Seq(Seq(Byte)) /\ Len(p.original) <= 1
  /\ p.modified \in Seq(Seq(Byte)) /\ Len(p.modified) <= 1
  /\ p.hunks \in Seq([old : HunkRanges, new : HunkRanges, context : Seq(Contents), lines : Seq(Lines)])
  /\ \A i \in DOMAIN p.hunks : WrittenHunk(p.hunks[i])
  /\ HunksInOrder(p.hunks)

ASSUME WritingsAssumption ==
  \A w \in Writings : WrittenPatch(w.patch) /\ w.formatter \in Formatters

VARIABLE written    \* Option: what the text was written from

fvars == <<pvars, written>>

WrittenText ==
  /\ \E w \in Writings : written = <<w>> /\ text = FormatPatch(w.patch, w.formatter)
  /\ opts = RejectOrphanedHunks(DefaultOpts)
  /\ Begin

OtherText == Init /\ written = <<>>

RTInit == WrittenText \/ OtherText

RTNext == Next /\ UNCHANGED written

RTSpec == RTInit /\ [][RTNext]_fvars /\ WF_fvars(RTNext)

-----------------------------------------------------------------------------
(* Properties *)

(* What does not survive: a function context, which FormatHunkHeader says, *)
(* and in a string a name that is quoted, unless all of it is ASCII.       *)
NameSurvives(name) == ~HasToBeQuoted(name) \/ \A i \in DOMAIN name : name[i] < 128
Survives(w) ==
  /\ \A h \in ToSet(w.patch.hunks) : h.context = <<>>
  /\ w.formatter.shown =>
       \A name \in ToSet(w.patch.original) \cup ToSet(w.patch.modified) : NameSurvives(name)

(* The hunk as it would be if both files ended in a newline. *)
AllTerminated(h) ==
  [h EXCEPT !.lines = [i \in DOMAIN h.lines |-> [h.lines[i] EXCEPT !.line.nl = TRUE]]]

(***************************************************************************)
(* diff/tests.rs, assert_patch!: a patch reads back from its text as the   *)
(* same patch, whatever its lines look like (file headers, nothing at all) *)
(* and whether or not blank lines are written bare.  The comment on        *)
(* missing_newline_message says what is lost without the message: the      *)
(* patch reads back "as if both the original and modified files ended      *)
(* with a newline character".                                              *)
(***************************************************************************)
ReadsBack ==
  \A w \in ToSet(written) : stage = "done" =>
    /\ result = "ok"
    /\ original = w.patch.original /\ modified = w.patch.modified
    /\ hunks = IF w.formatter.message THEN w.patch.hunks
               ELSE [i \in DOMAIN w.patch.hunks |-> AllTerminated(w.patch.hunks[i])]

=============================================================================
