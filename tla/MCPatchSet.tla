----------------------------- MODULE MCPatchSet -----------------------------
(***************************************************************************)
(* PatchSet on texts made of the diffs of up to MaxDiffs files, whose      *)
(* patches are known (Written), on single git diffs of files with any      *)
(* short name, and on any short sequence of lines.                         *)
(***************************************************************************)
EXTENDS PatchSet

CONSTANTS MaxDiffs, MaxLines, MaxPieces

Plain(start, rest) == TextLine("none", <<start, rest>>, TRUE)
Old(name) == TextLine("-", <<"--", WrittenName(name)>>, TRUE)
New(name) == TextLine("+", <<"++", WrittenName(name)>>, TRUE)
Word == <<119>>
Junk == Plain("none", Word)

(* Paths: a file p or q, and the same with the usual prefixes. *)
P == <<112>>
Q == <<113>>
A(name) == <<97, Slash>> \o name
B(name) == <<98, Slash>> \o name
Both(old, new) == WrittenName(old) \o <<Space>> \o WrittenName(new)
Odd == A(P) \o <<Space>> \o B(Q)

FileMode == <<49, 48, 48, 54, 52, 52>>
Executable == <<49, 48, 48, 55, 53, 53>>

-----------------------------------------------------------------------------
(* Hunks, and how they are written *)

Body(start, rest) == Content(<<start, rest>>, TRUE)
OneHunk(lines) ==
  [old |-> [start |-> 1, len |-> OldCount(lines)], new |-> [start |-> 1, len |-> NewCount(lines)],
   context |-> <<>>, lines |-> lines]

Changes == OneHunk(<<Line("Delete", Body("--", Word)), Line("Insert", Body("++", Word))>>)
Appends == OneHunk(<<Line("Context", Content(<<"none", P>>, TRUE)),
                     Line("Insert", Content(<<"none", Q>>, FALSE))>>)
Clears == OneHunk(<<Line("Delete", Body("none", P))>>)
Written(hs) == FlattenSeq([i \in DOMAIN hs |-> FormatHunk(hs[i], Parser!Plain)])

-----------------------------------------------------------------------------
(* A diff: its text, and what the iterator yields for it *)

Diff(lines, op, hs, blocks) ==
  [text |-> lines,
   items |-> <<[error |-> "none", op |-> op, modes |-> NoModes, hunks |-> hs, blocks |-> blocks]>>]
Moded(old, new, d) == [d EXCEPT !.items = <<[@[1] EXCEPT !.modes = <<old, new>>]>>]
Noise(lines) == [text |-> lines, items |-> <<>>]

UniDiffs ==
  {Diff(<<Old(P), New(Q)>> \o Written(<<h>>), Op("Modify", P, Q), <<h>>, <<>>)
     : h \in {Changes, Appends}}
  \cup
  {Diff(<<Old(P)>> \o Written(<<Changes>>), Op("Modify", P, P), <<Changes>>, <<>>),
   (* diff(1) writes a date behind the name. *)
   Diff(<<TextLine("+", <<"++", Q \o <<Tab, Space>> >>, TRUE)>> \o Written(<<Changes>>),
        Op("Modify", Q, Q), <<Changes>>, <<>>),
   Diff(<<Old(DevNull), New(Q)>> \o Written(<<Appends>>),
        Op("Create", Q, Q), <<Appends>>, <<>>),
   Diff(<<Old(P), New(DevNull)>> \o Written(<<Clears>>),
        Op("Delete", P, P), <<Clears>>, <<>>),
   Noise(<<Junk>>), Noise(<<BlankLine, Plain("diff --git ", P)>>)}

(* A hunk that ends in an unterminated insert is not read before a lone    *)
(* "+++ ": CompleteHunkStands of PatchParser is about that.                *)
Separable(ds) ==
  \A i \in 1..Len(ds) - 1 :
    MarkerLine \in ToSet(ds[i].text) => ds[i + 1].text # <<>> /\ ~IsModifiedHeader(ds[i + 1].text[1])

Git(rest, lines) == <<Plain("diff --git ", rest)>> \o lines
GitFor(name, lines) == Git(Both(A(name), B(name)), lines)
Index == Plain("index ", Word)
Payload(kind, data) == <<Plain(kind, Word)>> \o data \o <<BlankLine>>
Data == <<Plain("none", Word)>>

GitDiffs ==
  {Diff(Git(n, <<Index, Old(A(P)), New(B(P))>> \o Written(<<Changes>>)),
        Op("Modify", A(P), B(P)), <<Changes>>, <<>>) : n \in {Both(A(P), B(P)), Odd}}
  \cup
  {Diff(GitFor(P, <<Plain("rename from ", P), Plain("rename to ", Q)>>),
        Op("Rename", P, Q), <<>>, <<>>),
   Diff(Git(Odd, <<Plain("rename from ", P), Plain("rename to ", Q), Index,
                   Old(A(P)), New(B(Q))>> \o Written(<<Changes>>)),
        Op("Rename", P, Q), <<Changes>>, <<>>),
   Diff(Git(Odd, <<Plain("copy from ", P), Plain("copy to ", Q)>>),
        Op("Copy", P, Q), <<>>, <<>>),
   Moded(<<>>, <<FileMode>>,
     Diff(GitFor(Q, <<Plain("new file mode ", FileMode), Index>>),
          Op("Create", B(Q), B(Q)), <<>>, <<>>)),
   Moded(<<>>, <<Executable>>,
     Diff(GitFor(Q, <<Plain("new file mode ", Executable), Index, Old(DevNull), New(B(Q))>>
                    \o Written(<<Appends>>)),
          Op("Create", B(Q), B(Q)), <<Appends>>, <<>>)),
   Moded(<<FileMode>>, <<>>,
     Diff(GitFor(Q, <<Plain("deleted file mode ", FileMode), Index, Old(A(Q)), New(DevNull)>>
                    \o Written(<<Clears>>)),
          Op("Delete", A(Q), A(Q)), <<Clears>>, <<>>)),
   Moded(<<FileMode>>, <<>>,
     Diff(GitFor(Q, <<Plain("deleted file mode ", FileMode)>>),
          Op("Delete", A(Q), A(Q)), <<>>, <<>>)),
   Moded(<<FileMode>>, <<Executable>>,
     Diff(GitFor(P, <<Plain("old mode ", FileMode), Plain("new mode ", Executable)>>),
          Op("Modify", A(P), B(P)), <<>>, <<>>)),
   Diff(GitFor(P, <<Index, Plain("Binary files ", Word)>>),
        Op("Modify", A(P), B(P)), <<>>, <<>>),
   Noise(<<Junk>>),
   (* A commit message: what it shows of a diff is no diff. *)
   Noise(<<Plain("From ", Word), Plain("diff --git ", P), Old(P),
           TextLine("-", <<"none", <<45, 45>> >>, TRUE), Junk>>)}
  \cup
  {Diff(GitFor(P, <<Plain("GIT binary patch", <<>>)>> \o Payload(k, Data) \o Payload("literal ", <<>>)),
        Op("Modify", A(P), B(P)), <<>>,
        <<[kind |-> k, data |-> Data], [kind |-> "literal ", data |-> <<>>]>>)
     : k \in {"literal ", "delta "}}

(* Files with any name that a path may have: spaces, directories, what     *)
(* looks like the second path of the line, bytes that are written quoted;  *)
(* and whatever prefixes git was told to write.                            *)
Pieces == {P, <<Space>>, <<Slash>> \o P, B(P), <<Quote>>}
PathNames ==
  {FlattenSeq(s) : s \in {s \in BoundedSeq(Pieces, MaxPieces) \ {<<>>} : s[1][1] # Slash}}
GitPrefixes ==
  {<<<<97, Slash>>, <<98, Slash>>>>, <<<<>>, <<>>>>, <<<<97, Space, 97, Slash>>, <<Quote, Slash>>>>}

NamedDiffs ==
  {Moded(<<FileMode>>, <<Executable>>,
     Diff(Git(Both(x[1] \o n, x[2] \o n),
              <<Plain("old mode ", FileMode), Plain("new mode ", Executable)>>),
          Op("Modify", x[1] \o n, x[2] \o n), <<>>, <<>>)) : n \in PathNames, x \in GitPrefixes}
  \cup
  {Diff(GitFor(n, <<Plain("rename from ", WrittenName(n)), Plain("rename to ", WrittenName(B(n)))>>),
        Op("Rename", n, B(n)), <<>>, <<>>) : n \in PathNames}

(* A mail is one only at the start of the text. *)
MailFirst(ds) == \A i \in 2..Len(ds) : StartOf(ds[i].text[1]) # "From "

Documents(diffs, max) ==
  {ds \in UNION {[1..n -> diffs] : n \in 1..max} :
     Separable(ds) /\ MailFirst(ds) /\ \E i \in DOMAIN ds : ds[i].items # <<>>}
TextOf(ds) == FlattenSeq([i \in DOMAIN ds |-> ds[i].text])
ItemsOf(ds) == FlattenSeq([i \in DOMAIN ds |-> ds[i].items])

-----------------------------------------------------------------------------
(* Values of the constants *)

AnyLines ==
  {Old(P), TextLine("+", <<"++", <<Quote>>>>, TRUE), Junk, BlankLine,
   Plain("diff --git ", Both(A(P), B(P))), Plain("diff --git ", Odd),
   Plain("old mode ", P), Plain("rename from ", <<Backslash>>), Plain("rename to ", Q),
   Plain("Binary files ", Word), Plain("GIT binary patch", <<>>), Plain("literal ", Word),
   [TextLine("@@", Nothing, TRUE) EXCEPT !.ranges =
      <<[start |-> 1, len |-> 1], [start |-> 1, len |-> 0]>>]}

(* Two blocks of a binary patch take more lines than MaxLines. *)
BinaryStart == GitFor(P, <<Plain("GIT binary patch", <<>>), Plain("literal ", Word)>>)
AnyTexts ==
  BoundedSeq(AnyLines, MaxLines) \cup {BinaryStart \o rest : rest \in BoundedSeq(AnyLines, 3)}

Known(format_, diffs, max) ==
  {[text |-> TextOf(ds), format |-> format_, expected |-> <<ItemsOf(ds)>>] : ds \in Documents(diffs, max)}

MCInputs ==
  Known("UniDiff", UniDiffs, MaxDiffs) \cup Known("GitDiff", GitDiffs, 2) \cup Known("GitDiff", NamedDiffs, 1)
  \cup [text : AnyTexts, format : {"UniDiff", "GitDiff"}, expected : {<<>>}]

=============================================================================
