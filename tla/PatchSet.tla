------------------------------ MODULE PatchSet ------------------------------
(***************************************************************************)
(* patch_set/parse.rs: the PatchSet iterator over the patches of several   *)
(* files.  Every call of next() looks for the start of a patch in what is  *)
(* left, reads the headers of a git diff, lets parse_one() or the parser   *)
(* of binary patches read on, and yields a FilePatch or an error.  `pos`   *)
(* is the place a parser has come to, `offset` the one the iterator will   *)
(* go on from.                                                             *)
(***************************************************************************)
EXTENDS PatchText, GitPath

CONSTANT
  Inputs         \* [text, format, expected]: what is parsed and as what
                 \* ("UniDiff" or "GitDiff"), and, where it is known, what
                 \* is to be yielded (Option)

ASSUME PatchSetAssumption ==
  \A input \in Inputs :
    input.text \in Seq(PatchLine) /\ input.format \in {"UniDiff", "GitDiff"}

VARIABLES
  format,
  phase,         \* "next", "header", "patch" or "done" (finished)
  offset, foundAny,
  header,        \* GitHeader
  items,         \* history: what next() has returned
  expected,      \* of the input
  text, opts, pos, stage, original, modified, hunks, open, result  \* parse_one

parserVars == <<opts, stage, original, modified, hunks, open, result>>
inputVars == <<text, format, expected>>
svars == <<inputVars, phase, offset, foundAny, header, items, pos, parserVars>>

Parser == INSTANCE PatchParser WITH Texts <- {}, Options <- {}

-----------------------------------------------------------------------------
(* Lines *)

StartOf(l) == IF l.sign = "none" THEN l.body[1] ELSE "none"
IsDiffGit(l) == StartOf(l) = "diff --git "

(* Where the first line at or after `from` is that Test holds of; Option. *)
FirstFrom(from, Test(_)) ==
  LET found == SelectInSubSeq(text, from + 1, Len(text), Test)
  IN  IF found = 0 THEN <<>> ELSE <<found - 1>>

(* Of a mail only what follows its first "---" line is looked at. *)
StripEmailPreamble(t) ==
  LET sep == SelectInSubSeq(t, 2, Len(t), LAMBDA l : l = TextLine("-", <<"none", <<45, 45>>>>, TRUE))
  IN  IF t # <<>> /\ StartOf(t[1]) = "From " /\ sep # 0 THEN SubSeq(t, sep + 1, Len(t)) ELSE t

-----------------------------------------------------------------------------
(* GitHeader: for every extended header the rest of its last line, Option *)

HeaderStarts ==
  {"diff --git ", "rename from ", "rename to ", "copy from ", "copy to ",
   "old mode ", "new mode ", "new file mode ", "deleted file mode ",
   "index ", "Binary files ", "GIT binary patch"}

NoHeader == [field |-> [s \in HeaderStarts |-> <<>>], binaryAt |-> 0]
Has(start) == header.field[start] # <<>>
Field(start) == header.field[start][1]

(* Mutated InHeader. *)
InHeaderOfAny(l) == StartOf(l) \in HeaderStarts

InHeader(l) ==
  /\ StartOf(l) \in HeaderStarts
  /\ IsDiffGit(l) => ~Has("diff --git ")

-----------------------------------------------------------------------------
(* FileOperation *)

Op(kind, from, to) == [kind |-> kind, from |-> from, to |-> to]
NoOp == Op("none", <<>>, <<>>)
Ok(op) == [error |-> "none", op |-> op]
Err(kind) == [error |-> kind, op |-> NoOp]

DevNull == <<47, 100, 101, 118, 47, 110, 117, 108, 108>>

(* extract_file_op_unidiff, of two Option names *)
FileOpUnidiff(o, m) ==
  LET create == o = <<DevNull>>
      delete == m = <<DevNull>>
  IN  CASE create /\ delete             -> Err("BothDevNull")
        [] delete /\ ~create            -> IF o = <<>> THEN Err("DeleteMissingOriginalPath")
                                           ELSE Ok(Op("Delete", o[1], o[1]))
        [] create /\ ~delete            -> IF m = <<>> THEN Err("CreateMissingModifiedPath")
                                           ELSE Ok(Op("Create", m[1], m[1]))
        [] ~create /\ ~delete           -> IF o = <<>> /\ m = <<>> THEN Err("NoFilePath")
                                           ELSE IF o = <<>> THEN Ok(Op("Modify", m[1], m[1]))
                                           ELSE IF m = <<>> THEN Ok(Op("Modify", o[1], o[1]))
                                           ELSE Ok(Op("Modify", o[1], m[1]))

Moved(kind, from, to) ==
  LET f == EscapedFilename(Field(from))
      t == EscapedFilename(Field(to))
  IN  IF f.error # "none" THEN Err(f.error)
      ELSE IF t.error # "none" THEN Err(t.error)
      ELSE Ok(Op(kind, f.name, t.name))

FileOpDiffGit ==
  LET path == IF Has("diff --git ") THEN DiffGitPath(Field("diff --git ")) ELSE <<>>
  IN  IF path = <<>> THEN Err("InvalidDiffGitPath")
      ELSE IF Has("new file mode ") THEN Ok(Op("Create", path[1][2], path[1][2]))
      ELSE IF Has("deleted file mode ") THEN Ok(Op("Delete", path[1][1], path[1][1]))
      ELSE Ok(Op("Modify", path[1][1], path[1][2]))

(* Mutated FileOpGitdiff. *)
FileOpNamesFirst(o, m) ==
  IF o # <<>> \/ m # <<>> THEN FileOpUnidiff(o, m)
  ELSE IF Has("rename from ") /\ Has("rename to ") THEN Moved("Rename", "rename from ", "rename to ")
  ELSE IF Has("copy from ") /\ Has("copy to ") THEN Moved("Copy", "copy from ", "copy to ")
  ELSE FileOpDiffGit

(* extract_file_op_gitdiff, and without names extract_file_op_binary *)
FileOpGitdiff(o, m) ==
  IF Has("rename from ") /\ Has("rename to ") THEN Moved("Rename", "rename from ", "rename to ")
  ELSE IF Has("copy from ") /\ Has("copy to ") THEN Moved("Copy", "copy from ", "copy to ")
  ELSE IF o # <<>> \/ m # <<>> THEN FileOpUnidiff(o, m)
  ELSE FileOpDiffGit

(* parse_file_modes *)
FileModes == {<<49,48,48,54,52,52>>, <<49,48,48,55,53,53>>, <<49,50,48,48,48,48>>, <<49,54,48,48,48,48>>}
OldMode == IF Has("old mode ") THEN header.field["old mode "] ELSE header.field["deleted file mode "]
NewMode == IF Has("new mode ") THEN header.field["new mode "] ELSE header.field["new file mode "]
BadMode == ~(ToSet(OldMode) \cup ToSet(NewMode) \subseteq FileModes)

-----------------------------------------------------------------------------
(* parse_binary_patch, of the text after `from` lines.  If it fails, the   *)
(* iterator goes on where the headers ended.  The decoder of the data is   *)
(* left out.                                                               *)

(* Mutated BinaryBlock. *)
BinaryBlockPastEnd(from) ==
  IF from >= Len(text) \/ StartOf(text[from + 1]) \notin {"literal ", "delta "} THEN <<>>
  ELSE LET blank == FirstFrom(from + 1, LAMBDA l : l = BlankLine)
           stop == IF blank = <<>> THEN Len(text) ELSE blank[1]
       IN  <<[kind |-> StartOf(text[from + 1]),
              data |-> SubSeq(text, from + 2, stop), end |-> stop + 1]>>

(* A format line, then data up to a blank line or the end.  A format line  *)
(* whose size is no number is one of any other start.                      *)
BinaryBlock(from) ==
  IF from >= Len(text) \/ StartOf(text[from + 1]) \notin {"literal ", "delta "} THEN <<>>
  ELSE LET blank == FirstFrom(from + 1, LAMBDA l : l = BlankLine)
           stop == IF blank = <<>> THEN Len(text) ELSE blank[1]
       IN  <<[kind |-> StartOf(text[from + 1]),
              data |-> SubSeq(text, from + 2, stop),
              end |-> Min2(stop + 1, Len(text))]>>

BinaryPatch(from) ==
  LET forward == BinaryBlock(from + 1)
      reverse == BinaryBlock(forward[1].end)
      ends(error, blocks, end) ==
        [error |-> error, end |-> end,
         blocks |-> [i \in DOMAIN blocks |-> [kind |-> blocks[i].kind, data |-> blocks[i].data]]]
  IN  IF text[from + 1].body # <<"GIT binary patch", <<>>>> THEN ends("InvalidHeader", <<>>, pos)
      ELSE IF forward = <<>> THEN ends("MissingForwardBlock", <<>>, pos)
      ELSE IF reverse = <<>> THEN ends("MissingReverseBlock", <<>>, pos)
      ELSE ends("none", forward \o reverse, reverse[1].end)

-----------------------------------------------------------------------------
(* next_patch *)

Init ==
  /\ \E input \in Inputs :
       /\ text = StripEmailPreamble(input.text)
       /\ format = input.format
       /\ expected = input.expected
  /\ phase = "next" /\ offset = 0 /\ foundAny = FALSE
  /\ header = NoHeader /\ items = <<>>
  /\ pos = 0 /\ stage = "done" /\ opts = Parser!DefaultOpts
  /\ original = <<>> /\ modified = <<>> /\ hunks = <<>>
  /\ open = Parser!NoHunk /\ result = "none"

NoModes == <<<<>>, <<>>>>
Yielded(error, op, modes, hs, blocks, end) ==
  [error |-> error, op |-> op, modes |-> modes, hunks |-> hs, blocks |-> blocks, at |-> end]

(* What next() yields when the parts of a patch have been read: the first  *)
(* of the errors met, or the patch.                                        *)
Yield(error, operation, hs, blocks, end) ==
  \E op \in {operation} :
    LET e == IF error # "none" THEN error
             ELSE IF op.error # "none" THEN op.error
             ELSE IF format = "GitDiff" /\ BadMode THEN "InvalidFileMode" ELSE "none"
    IN  /\ items' = Append(items, IF e # "none" THEN Yielded(e, NoOp, NoModes, <<>>, <<>>, end)
                                  ELSE Yielded("none", op.op, <<OldMode, NewMode>>, hs, blocks, end))
        /\ offset' = end
        /\ phase' = "next"
        /\ header' = NoHeader
        /\ UNCHANGED <<inputVars, foundAny>>

Start == IF format = "UniDiff" THEN FirstFrom(offset, IsFileHeader) ELSE FirstFrom(offset, IsDiffGit)

FindUnidiffPatch ==
  /\ phase = "next" /\ format = "UniDiff" /\ Start # <<>>
  /\ foundAny' = TRUE
  /\ phase' = "patch"
  /\ Parser!StartAt(Start[1], Parser!DefaultOpts)
  /\ UNCHANGED <<inputVars, offset, header, items>>

FindGitPatch ==
  /\ phase = "next" /\ format = "GitDiff" /\ Start # <<>>
  /\ foundAny' = TRUE
  /\ phase' = "header"
  /\ offset' = Start[1] /\ pos' = Start[1]
  /\ UNCHANGED <<inputVars, header, items, parserVars>>

(* next_patch reports a text in which there was nothing at all. *)
FindNothing ==
  /\ phase = "next" /\ Start = <<>>
  /\ phase' = "done"
  /\ items' = IF foundAny THEN items
              ELSE <<Yielded("NoPatchesFound", NoOp, NoModes, <<>>, <<>>, offset)>>
  /\ UNCHANGED <<inputVars, offset, foundAny, header, pos, parserVars>>

AtHeader == phase = "header" /\ pos < Len(text) /\ InHeader(text[pos + 1])

(* Mutated TakeHeader. *)
TakeHeaderInPlace ==
  /\ AtHeader
  /\ LET l == text[pos + 1]
     IN  header' = [field |-> [header.field EXCEPT ![l.body[1]] = <<l.body[2]>>],
                    binaryAt |-> pos]
  /\ pos' = IF IsDiffGit(text[pos + 1]) THEN pos + 1 ELSE pos
  /\ UNCHANGED <<inputVars, phase, offset, foundAny, items, parserVars>>

TakeHeader ==
  /\ AtHeader
  /\ LET l == text[pos + 1]
     IN  header' = [field |-> [header.field EXCEPT ![l.body[1]] = <<l.body[2]>>],
                    binaryAt |-> IF l.body[1] = "GIT binary patch" THEN pos
                                 ELSE header.binaryAt]
  /\ pos' = pos + 1
  /\ UNCHANGED <<inputVars, phase, offset, foundAny, items, parserVars>>

(* The headers are over: what follows them depends on what they are. *)
EndHeader ==
  /\ phase = "header" /\ ~AtHeader
  /\ IF Has("Binary files ")
     THEN Yield("none", FileOpGitdiff(<<>>, <<>>), <<>>, <<>>, pos) /\ UNCHANGED <<pos, parserVars>>
     ELSE IF Has("GIT binary patch")
     THEN LET b == BinaryPatch(header.binaryAt)
          IN  /\ Yield(b.error, FileOpGitdiff(<<>>, <<>>), <<>>, b.blocks, b.end)
              /\ UNCHANGED <<pos, parserVars>>
     ELSE /\ offset' = pos
          /\ phase' = "patch"
          /\ Parser!StartAt(pos, Parser!NoSkipPreamble(Parser!DefaultOpts))
          /\ UNCHANGED <<inputVars, foundAny, header, items>>

ParseStep ==
  /\ phase = "patch" /\ Parser!Next
  /\ UNCHANGED <<format, expected, phase, offset, foundAny, header, items>>

(* Mutated YieldPatch. *)
YieldPatchStuck ==
  /\ phase = "patch" /\ stage = "done"
  /\ Yield(IF result = "ok" THEN "none" ELSE result,
           IF format = "UniDiff" THEN FileOpUnidiff(original, modified)
           ELSE FileOpGitdiff(original, modified),
           hunks, <<>>, IF result = "ok" THEN pos ELSE offset)
  /\ UNCHANGED <<pos, parserVars>>

(* "Always advance so the iterator makes progress even on error." *)
YieldPatch ==
  /\ phase = "patch" /\ stage = "done"
  /\ Yield(IF result = "ok" THEN "none" ELSE result,
           IF format = "UniDiff" THEN FileOpUnidiff(original, modified)
           ELSE FileOpGitdiff(original, modified),
           hunks, <<>>, pos)
  /\ UNCHANGED <<pos, parserVars>>

Next ==
  \/ FindUnidiffPatch \/ FindGitPatch \/ FindNothing
  \/ TakeHeader \/ EndHeader \/ ParseStep \/ YieldPatch

Spec == Init /\ [][Next]_svars /\ WF_svars(Next)

-----------------------------------------------------------------------------
(* Properties *)

(* PatchSetParseErrorKind *)
ItemErrors ==
  {"none", "NoPatchesFound", "NoFilePath", "BothDevNull", "DeleteMissingOriginalPath",
   "CreateMissingModifiedPath", "InvalidFileMode", "InvalidDiffGitPath",
   "InvalidHeader", "MissingForwardBlock", "MissingReverseBlock"} \cup Parser!ErrorKinds

TypeOK ==
  /\ phase \in {"next", "header", "patch", "done"}
  /\ offset \in 0..Len(text) /\ pos \in 0..Len(text)
  /\ foundAny \in BOOLEAN
  /\ header.field \in [HeaderStarts -> Seq(Seq(Byte))]
  /\ \A i \in DOMAIN items : items[i].at \in 0..Len(text) /\ items[i].error \in ItemErrors

(***************************************************************************)
(* Every call of next() that yields a patch or an error has consumed       *)
(* something, also when parse_one or the binary parser gave up in the      *)
(* middle: a caller that goes on after an error never sees it again.       *)
(***************************************************************************)
MakesProgress ==
  \A i \in DOMAIN items : items[i].error # "NoPatchesFound" =>
    items[i].at > (IF i = 1 THEN 0 ELSE items[i - 1].at)

(***************************************************************************)
(* In a git diff every "diff --git " line is answered for: by a patch or   *)
(* an error, and by one only, however malformed the text between them is.  *)
(* (The payload of a binary patch runs to a blank line, so texts with one  *)
(* are left out.)                                                          *)
(***************************************************************************)
OneItemPerDiff ==
  phase = "done" /\ format = "GitDiff" /\ foundAny
  /\ (\A i \in DOMAIN text : StartOf(text[i]) # "GIT binary patch")
    => Len(items) = Cardinality({i \in DOMAIN text : IsDiffGit(text[i])})

(***************************************************************************)
(* The comment on the module: PatchSet parses "patches that contain        *)
(* changes to multiple files".  The patches of several files written one   *)
(* after the other are told apart again: as many patches, each with its    *)
(* operation, modes, hunks and binary blocks.                              *)
(***************************************************************************)
YieldsEveryFile ==
  phase = "done" /\ expected # <<>> =>
    [i \in DOMAIN items |->
       [error |-> items[i].error, op |-> items[i].op, modes |-> items[i].modes,
        hunks |-> items[i].hunks, blocks |-> items[i].blocks]]
      = expected[1]

Termination == <>(phase = "done")

=============================================================================
