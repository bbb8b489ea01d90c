----------------------------- MODULE PatchText -----------------------------
(***************************************************************************)
(* The text of a patch, line by line, and patch/format.rs, which writes    *)
(* it.  What patch/parse.rs tests of a line is how it starts, so a line is *)
(* a record of                                                             *)
(*   sign   : what it starts with: "-", "+", "space", "\\" (the no-newline *)
(*            marker), "@@" (and a space: a hunk header), "@" (any other   *)
(*            way to start so) or "none" of these,                         *)
(*   body   : what follows the sign, as a start that some parser looks for *)
(*            ("--" and "++" with a space, "diff --git ", ... or "none")   *)
(*            and the rest, as bytes; Nothing is nothing at all,           *)
(*   nl     : whether the line ends in a newline,                          *)
(*   ranges : of a hunk header, its two ranges; <<>> if they do not parse. *)
(* A line of a hunk holds its content, [body, nl].                         *)
(***************************************************************************)
EXTENDS PatchData, FileNames

Nothing == <<"none", <<>>>>
Bodies == STRING \X Seq(Byte)
Signs == {"-", "+", "space", "\\", "@@", "@", "none"}

TextLine(sign, body, nl) == [sign |-> sign, body |-> body, nl |-> nl, ranges |-> <<>>]
BlankLine == TextLine("none", Nothing, TRUE)
MarkerLine == TextLine("\\", Nothing, TRUE)

(* "--- " and "+++ " are also how a deleted "-- " and an inserted "++ " look. *)
IsOriginalHeader(l) == l.sign = "-" /\ l.body[1] = "--"
IsModifiedHeader(l) == l.sign = "+" /\ l.body[1] = "++"
IsFileHeader(l) == IsOriginalHeader(l) \/ IsModifiedHeader(l)
IsHunkHeader(l) == l.sign = "@@"
IsMarker(l) == l.sign = "\\"

(* The lines of a text; only a hunk header has ranges.                     *)
PatchLine ==
  {l \in [sign : Signs, body : Bodies, nl : BOOLEAN,
          ranges : {<<>>} \cup (HunkRanges \X HunkRanges)] :
     l.ranges # <<>> => IsHunkHeader(l)}

Content(body, nl) == [body |-> body, nl |-> nl]

(* What the parser takes a line of a hunk for; an empty one is context.    *)
KindOf(l) ==
  CASE l.sign = "space" \/ l = BlankLine -> "Context"
    [] l.sign = "-"                  -> "Delete"
    [] l.sign = "+"                  -> "Insert"
    [] OTHER                         -> "None"

-----------------------------------------------------------------------------
(* The formatter.  Its options: message is with_missing_newline_message,   *)
(* suppress is suppress_blank_empty.  shown tells its two outputs apart:   *)
(* fmt_patch, a string, from write_patch_into, bytes.                      *)

Formatters == [message : BOOLEAN, suppress : BOOLEAN, shown : BOOLEAN]

SignOf(kind) == CASE kind = "Delete" -> "-" [] kind = "Insert" -> "+" [] OTHER -> "space"

(* Mutated FormatLine.                                                     *)
FormatLineBlankEdits(l, f) ==
  LET bare == f.suppress /\ l.line = Content(Nothing, TRUE)
  IN  <<TextLine(IF bare THEN "none" ELSE SignOf(l.kind), l.line.body, TRUE)>>
      \o (IF ~l.line.nl /\ f.message THEN <<MarkerLine>> ELSE <<>>)

FormatLine(l, f) ==
  LET bare == f.suppress /\ l.kind = "Context" /\ l.line = Content(Nothing, TRUE)
  IN  <<TextLine(IF bare THEN "none" ELSE SignOf(l.kind), l.line.body, TRUE)>>
      \o (IF ~l.line.nl /\ f.message THEN <<MarkerLine>> ELSE <<>>)

(* The function context is written after two spaces, one of which is read  *)
(* back as a part of it (its start), and before a newline that comes on    *)
(* top of its own.                                                         *)
FormatHunkHeader(h) ==
  LET ctx == h.context
      header(body) == [TextLine("@@", body, TRUE) EXCEPT !.ranges = <<h.old, h.new>>]
  IN  IF ctx = <<>> THEN <<header(Nothing)>>
      ELSE <<header(<<"space", ctx[1].body[2]>>)>>
           \o (IF ctx[1].nl THEN <<BlankLine>> ELSE <<>>)

FormatHunk(h, f) ==
  FormatHunkHeader(h) \o FlattenSeq([i \in DOMAIN h.lines |-> FormatLine(h.lines[i], f)])

FormatName(sign, start, name, f) ==
  LET bytes == IF f.shown THEN ShownName(name[1]) ELSE WrittenName(name[1])
  IN  IF name = <<>> THEN <<>> ELSE <<TextLine(sign, <<start, bytes>>, TRUE)>>

(* PatchFormatter::fmt_patch and write_patch_into; names are Options.      *)
FormatPatch(p, f) ==
  FormatName("-", "--", p.original, f) \o FormatName("+", "++", p.modified, f)
  \o FlattenSeq([i \in DOMAIN p.hunks |-> FormatHunk(p.hunks[i], f)])

=============================================================================
