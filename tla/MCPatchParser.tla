---------------------------- MODULE MCPatchParser ----------------------------
(***************************************************************************)
(* FormatRoundTrip on every text that has a few lines before its first     *)
(* hunk header and any short sequence of lines after it, where the last    *)
(* line may lack its newline; and on patches as create_patch makes them.   *)
(***************************************************************************)
EXTENDS FormatRoundTrip

CONSTANTS
  MaxBody,       \* lines after the first hunk header
  MaxLines,      \* lines of a written hunk
  Marked,        \* must the text have a no-newline marker?
  Surviving      \* is only what survives the formatter written?

(* Texts *)

RangeOf(start, len) == [start |-> start, len |-> len]
Header(ranges) == [TextLine("@@", Nothing, TRUE) EXCEPT !.ranges = ranges]

One == Header(<<RangeOf(1, 1), RangeOf(1, 1)>>)
Cut == Header(<<RangeOf(1, 1), RangeOf(0, 0)>>)
Two == Header(<<RangeOf(1, 2), RangeOf(1, 2)>>)
Later == Header(<<RangeOf(3, 1), RangeOf(2, 1)>>)

Junk == TextLine("none", <<"none", <<106>>>>, TRUE)
OldName == TextLine("-", <<"--", <<97>>>>, TRUE)
NewName == TextLine("+", <<"++", <<98>>>>, TRUE)
Named(bytes) == TextLine("+", <<"++", bytes>>, TRUE)

Before == {<<>>, <<OldName, NewName>>, <<Junk, OldName>>, <<NewName, NewName>>,
           <<OldName, Named(<<Quote>>)>>, <<OldName, Named(<<98, Tab, 49>>)>>}

(* An inserted "++ b" and a deleted "-- a" look like file names. *)
BodyLines ==
  {TextLine("space", <<"none", <<120>>>>, TRUE), OldName, NewName, TextLine("-", <<"none", <<120>>>>, TRUE),
   BlankLine, MarkerLine, Junk, TextLine("@", Nothing, TRUE), Later,
   Header(<<>>)}

Unterminated(t) ==
  IF t = <<>> \/ Last(t) = BlankLine THEN t
  ELSE Append(Front(t), [Last(t) EXCEPT !.nl = FALSE])

MCTexts ==
  LET bodies == {b \in BoundedSeq(BodyLines, MaxBody) : Marked => MarkerLine \in ToSet(b)}
      whole == {p \o <<h>> \o b : p \in (IF Marked THEN {<<>>} ELSE Before),
                                  h \in {One, Cut, Two}, b \in bodies}
  IN  whole \cup {Unterminated(t) : t \in whole}

MCOptions == {DefaultOpts, RejectOrphanedHunks(DefaultOpts), NoSkipPreamble(DefaultOpts)}

-----------------------------------------------------------------------------
(* Written patches: the ranges of a hunk count its lines, hunks are in     *)
(* order, and a line without a newline is the last one of its file.  As    *)
(* to_hunks writes deletions first and Patch::reverse turns them round,    *)
(* both orders occur.                                                      *)

Words == {Nothing, <<"--", <<97>>>>, <<"++", <<97>>>>, <<"none", <<120>>>>}
HunkLines == [kind : LineKinds, line : [body : Words, nl : BOOLEAN]]

WellFormed(lines) == LastOf(lines, "Delete") /\ LastOf(lines, "Insert")
Terminated(lines) == \A i \in DOMAIN lines : lines[i].line.nl

Context == IF Surviving THEN {<<>>} ELSE {<<Content(<<"none", <<109>>>>, TRUE)>>}

HunksAt(oldStart, newStart, max) ==
  {[old |-> [start |-> oldStart, len |-> OldCount(lines)],
    new |-> [start |-> newStart, len |-> NewCount(lines)],
    context |-> ctx, lines |-> lines] :
     ctx \in Context, lines \in {l \in BoundedSeq(HunkLines, max) \ {<<>>} : WellFormed(l)}}

A == <<97>>
B == <<98>>
Names == {<< <<A>>, <<B>> >>, << <<>>, <<B>> >>, << <<>>, <<>> >>}
NamedPatch(names, hs) == [original |-> names[1], modified |-> names[2], hunks |-> hs]

(* What may be in a name: a tab and a newline, an escape and what it       *)
(* stands for, a digit after an octal escape, DEL and ESC, and two bytes   *)
(* that are one character (e acute) together and none alone.               *)
OddNames == BoundedSeq({9, 10, Quote, Backslash, 48, 110, 127, 27, 195, 169}, 3)
IsString(name) ==
  \A i \in DOMAIN name : /\ name[i] = 195 => i < Len(name) /\ name[i + 1] = 169
                         /\ name[i] = 169 => i > 1 /\ name[i - 1] = 195

(* Only the last hunk may have unterminated lines. *)
MCPatches ==
  {NamedPatch(<< <<A>>, <<B>> >>, <<h>>) : h \in HunksAt(1, 1, MaxLines)}
  \cup {NamedPatch(<< <<n>>, <<B>> >>, <<>>) : n \in OddNames}
  \cup {NamedPatch(n, <<g, h>>) :
          n \in Names,
          g \in {g \in HunksAt(1, 1, 1) : Terminated(g.lines)},
          h \in HunksAt(2, 2, 1)}

(* Strings have strings for names, and differ from bytes in nothing else.  *)
(* What does not survive: a function context and the name "e acute, tab".  *)
Shown(p) == Len(p.hunks) # 1 /\ \A name \in ToSet(p.original) : IsString(name)

MCWritings ==
  IF Surviving
  THEN {w \in [patch : MCPatches, formatter : Formatters] :
          Survives(w) /\ (w.formatter.shown => Shown(w.patch))}
  ELSE [patch : {NamedPatch(<< <<A>>, << <<195, 169, 9>> >> >>, <<h>>) : h \in HunksAt(1, 1, MaxLines)},
        formatter : {f \in Formatters : f.shown}]

=============================================================================
