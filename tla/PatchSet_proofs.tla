--------------------------- MODULE PatchSet_proofs ---------------------------
(***************************************************************************)
(* What the PatchSet iterator keeps of any text: it stays inside the text, *)
(* every item it yields has consumed something, and in git format every    *)
(* diff is answered by one item.                                           *)
(***************************************************************************)
EXTENDS PatchSet, Alignments_proofs

(* What has been proved of parse_one() and of file names. *)
Proved == INSTANCE PatchParser_proofs WITH
            Texts <- {}, Options <- {}, Writings <- {}, written <- <<>>

(* How many diffs begin in the first n lines. *)
DiffsIn(t, n) == Cardinality({i \in 1..n : IsDiffGit(t[i])})

(***************************************************************************)
(* The inductive invariant.  Types, where the items are a row of anything; *)
(***************************************************************************)
Headers == [field : [HeaderStarts -> Seq(Seq(Byte))], binaryAt : Nat]

SetType ==
  /\ text \in Seq(PatchLine) /\ format \in {"UniDiff", "GitDiff"}
  /\ phase \in {"next", "header", "patch", "done"}
  /\ offset \in 0..Len(text) /\ pos \in 0..Len(text)
  /\ foundAny \in BOOLEAN
  /\ header \in Headers
  /\ \E S : items \in Seq(S)
  /\ \A i \in DOMAIN items : items[i].at \in 0..Len(text) /\ items[i].error \in ItemErrors
  /\ result \in {"none", "ok"} \cup Parser!ErrorKinds

(***************************************************************************)
(* how far the items have consumed the text: up to the offset, and before  *)
(* a patch is yielded a line beyond it, or the first line of the patch is  *)
(* still to be taken;                                                      *)
(***************************************************************************)
EndOfItems == IF items = <<>> THEN 0 ELSE items[Len(items)].at

AtDiff == pos = offset /\ pos < Len(text) /\ IsDiffGit(text[pos + 1]) /\ header = NoHeader
PastDiff ==
  /\ offset < pos /\ Has("diff --git ")
  /\ Has("GIT binary patch") => offset <= header.binaryAt

AtNames ==
  /\ stage \in {"preamble", "names"} /\ original = <<>> /\ modified = <<>>
  /\ offset <= pos /\ pos < Len(text) /\ IsFileHeader(text[pos + 1])

Advances ==
  /\ MakesProgress
  /\ ~foundAny /\ phase # "done" => items = <<>>
  /\ phase \in {"header", "patch"} => foundAny
  /\ phase # "done" => EndOfItems <= offset
  /\ phase = "next" => header = NoHeader
  /\ phase = "header" => format = "GitDiff" /\ (AtDiff \/ PastDiff)
  /\ phase = "patch" /\ format = "UniDiff" => offset < pos \/ AtNames
  /\ phase = "patch" /\ format = "GitDiff" => EndOfItems < offset /\ offset <= pos

(***************************************************************************)
(* and how many items there are for the diffs that have been consumed.     *)
(***************************************************************************)
NoBinary == \A i \in DOMAIN text : StartOf(text[i]) # "GIT binary patch"

Counted ==
  CASE phase = "next"   -> Len(items) = DiffsIn(text, offset)
    [] phase = "header" -> Len(items) + (IF offset < pos THEN 1 ELSE 0) = DiffsIn(text, pos)
    [] phase = "patch"  -> Len(items) + 1 = DiffsIn(text, pos)
    [] OTHER            -> foundAny => Len(items) = DiffsIn(text, Len(text))

AnswersDiffs ==
  /\ Has("GIT binary patch") => ~NoBinary
  /\ phase = "patch" /\ format = "GitDiff" => stage \notin {"preamble", "orphans"} /\ ~opts.rejectOrphans
  /\ format = "GitDiff" /\ NoBinary => Counted

SetInv == SetType /\ Advances /\ AnswersDiffs

-----------------------------------------------------------------------------
(* Rows of anything *)

(* A row with one more at its end. *)
LEMMA RowGrows ==
  ASSUME NEW s, NEW e, \E S : s \in Seq(S)
  PROVE  /\ \E S : Append(s, e) \in Seq(S)
         /\ Len(s) \in Nat /\ Len(Append(s, e)) = Len(s) + 1
         /\ DOMAIN s = 1..Len(s) /\ DOMAIN Append(s, e) = 1..Len(s) + 1
         /\ \A i \in 1..Len(s) : Append(s, e)[i] = s[i]
         /\ Append(s, e)[Len(s) + 1] = e /\ Append(s, e) # <<>>
<1>1. PICK S : s \in Seq(S)
  OBVIOUS
<1>2. s \in Seq(S \cup {e}) /\ e \in S \cup {e}
  BY <1>1
<1>3. Append(s, e) \in Seq(S \cup {e})
  BY <1>2
<1>4. /\ Len(s) \in Nat /\ Len(Append(s, e)) = Len(s) + 1
      /\ DOMAIN s = 1..Len(s) /\ DOMAIN Append(s, e) = 1..Len(s) + 1
  BY <1>2, <1>3
<1>5. \A i \in 1..Len(s) : Append(s, e)[i] = s[i]
  BY <1>2
<1>6. Append(s, e)[Len(s) + 1] = e
  BY <1>2
<1>7. Append(s, e) # <<>>
  BY <1>2, <1>3, <1>4
<1> QED
  BY <1>3, <1>4, <1>5, <1>6, <1>7

-----------------------------------------------------------------------------
(* Counting diffs *)

(* The next line adds one to the diffs seen, or nothing. *)
LEMMA DiffsNext ==
  ASSUME NEW t, NEW n \in Nat
  PROVE  /\ DiffsIn(t, n) \in Nat
         /\ DiffsIn(t, n + 1) = DiffsIn(t, n) + (IF IsDiffGit(t[n + 1]) THEN 1 ELSE 0)
<1> DEFINE S(m) == {i \in 1..m : IsDiffGit(t[i])}
<1>1. IsFiniteSet(1..n)
  BY FS_Interval
<1>2. IsFiniteSet(S(n)) /\ n + 1 \notin S(n)
  BY <1>1, FS_Subset
<1>3. CASE IsDiffGit(t[n + 1])
  <2>1. S(n + 1) = S(n) \cup {n + 1}
    BY <1>3
  <2> HIDE DEF S
  <2>2. Cardinality(S(n + 1)) = Cardinality(S(n)) + 1
    BY <1>2, <2>1, FS_AddElement
  <2> QED
    BY <1>2, <1>3, <2>2, FS_CardinalityType DEF DiffsIn, S
<1>4. CASE ~IsDiffGit(t[n + 1])
  <2>1. S(n + 1) = S(n)
    BY <1>4
  <2>2. Cardinality(S(n)) \in Nat
    <3> HIDE DEF S
    <3> QED BY <1>2, FS_CardinalityType
  <2> QED
    BY <1>4, <2>1, <2>2 DEF DiffsIn
<1> QED
  BY <1>3, <1>4

(* No diff begins before the first line, *)
LEMMA NoDiffsYet ==
  ASSUME NEW t
  PROVE  DiffsIn(t, 0) = 0
<1>1. {i \in 1..0 : IsDiffGit(t[i])} = {}
  OBVIOUS
<1> QED
  BY <1>1, FS_EmptySet DEF DiffsIn

(* and none between two places without one. *)
LEMMA DiffsSkip ==
  ASSUME NEW t, NEW m \in Nat, NEW n \in Nat, m <= n,
         \A i \in m + 1..n : ~IsDiffGit(t[i])
  PROVE  DiffsIn(t, n) = DiffsIn(t, m)
<1>1. {i \in 1..n : IsDiffGit(t[i])} = {i \in 1..m : IsDiffGit(t[i])}
  OBVIOUS
<1> QED
  BY <1>1 DEF DiffsIn

-----------------------------------------------------------------------------
(* File names, which the patches of a set and the set itself read alike *)

(* The letters of escapes are the same. *)
LEMMA SameLetters == Letters = Proved!Letters /\ Parser!Letters = Proved!Letters
BY DEF Letters, Quote, Backslash, Parser!Letters, Parser!Quote, Parser!Backslash,
  Proved!Letters, Proved!Quote, Proved!Backslash

(* So is where an escape begins, *)
LEMMA SameEscapes ==
  ASSUME NEW s, NEW i
  PROVE  /\ NamedAt(s, i) <=> Proved!NamedAt(s, i)
         /\ OctalAt(s, i) <=> Proved!OctalAt(s, i)
         /\ Parser!NamedAt(s, i) <=> Proved!NamedAt(s, i)
         /\ Parser!OctalAt(s, i) <=> Proved!OctalAt(s, i)
<1>1. NamedAt(s, i) <=> Proved!NamedAt(s, i)
  BY SameLetters DEF NamedAt, Backslash, Proved!NamedAt, Proved!Backslash
<1>2. OctalAt(s, i) <=> Proved!OctalAt(s, i)
  BY DEF OctalAt, Backslash, Proved!OctalAt, Proved!Backslash
<1>3. Parser!NamedAt(s, i) <=> Proved!NamedAt(s, i)
  BY SameLetters DEF Parser!NamedAt, Parser!Backslash, Proved!NamedAt, Proved!Backslash
<1>4. Parser!OctalAt(s, i) <=> Proved!OctalAt(s, i)
  BY DEF Parser!OctalAt, Parser!Backslash, Proved!OctalAt, Proved!Backslash
<1> QED
  BY <1>1, <1>2, <1>3, <1>4

(* what is refused of one, *)
LEMMA SameTokenError ==
  ASSUME NEW s, NEW i
  PROVE  TokenError(s, i) = Proved!TokenError(s, i)
BY SameEscapes DEF TokenError, NeedsQuoting, Quote, Backslash,
  Proved!TokenError, Proved!NeedsQuoting, Proved!Quote, Proved!Backslash

(* how long it is, *)
LEMMA SameTokenLen ==
  ASSUME NEW s, NEW i
  PROVE  TokenLen(s, i) = Proved!TokenLen(s, i)
BY SameEscapes DEF TokenLen, Proved!TokenLen

(* and the byte it stands for; *)
LEMMA SameTokenByte ==
  ASSUME NEW s, NEW i
  PROVE  TokenByte(s, i) = Proved!TokenByte(s, i)
BY SameEscapes, SameLetters DEF TokenByte, Proved!TokenByte

(* also as the parser sees them: the error, *)
LEMMA SameParserTokenError ==
  ASSUME NEW s, NEW i
  PROVE  Parser!TokenError(s, i) = Proved!TokenError(s, i)
BY SameEscapes DEF Parser!TokenError, Parser!NeedsQuoting, Parser!Quote, Parser!Backslash,
  Proved!TokenError, Proved!NeedsQuoting, Proved!Quote, Proved!Backslash

(* the length *)
LEMMA SameParserTokenLen ==
  ASSUME NEW s, NEW i
  PROVE  Parser!TokenLen(s, i) = Proved!TokenLen(s, i)
BY SameEscapes DEF Parser!TokenLen, Proved!TokenLen

(* and the byte. *)
LEMMA SameParserTokenByte ==
  ASSUME NEW s, NEW i
  PROVE  Parser!TokenByte(s, i) = Proved!TokenByte(s, i)
BY SameEscapes, SameLetters DEF Parser!TokenByte, Proved!TokenByte

(* Then what is quoted is read alike, *)
LEMMA SameDecoded ==
  ASSUME NEW s
  PROVE  DecodeEscaped(s) = Proved!DecodeEscaped(s)
BY ZenonT(60), SameTokenError, SameTokenLen, SameTokenByte
   DEF DecodeEscaped, NameRefused, NameRead,
       Proved!DecodeEscaped, Proved!NameRefused, Proved!NameRead

(* also by the parser, *)
LEMMA SameParserDecoded ==
  ASSUME NEW s
  PROVE  Parser!DecodeEscaped(s) = Proved!DecodeEscaped(s)
BY ZenonT(60), SameParserTokenError, SameParserTokenLen, SameParserTokenByte
   DEF Parser!DecodeEscaped, Parser!NameRefused, Parser!NameRead,
       Proved!DecodeEscaped, Proved!NameRefused, Proved!NameRead

(* and so is any name. *)
LEMMA SameNames ==
  ASSUME NEW s
  PROVE  /\ EscapedFilename(s) = Proved!EscapedFilename(s)
         /\ Parser!EscapedFilename(s) = Proved!EscapedFilename(s)
<1>1. EscapedFilename(s) = Proved!EscapedFilename(s)
  BY SameDecoded DEF EscapedFilename, HasToBeQuoted, NameRefused, NameRead, NeedsQuoting, Quote, Backslash, Last,
    Proved!EscapedFilename, Proved!HasToBeQuoted, Proved!NameRefused, Proved!NameRead,
    Proved!NeedsQuoting, Proved!Quote, Proved!Backslash, Proved!Last
<1>2. Parser!EscapedFilename(s) = Proved!EscapedFilename(s)
  BY SameParserDecoded
     DEF Parser!EscapedFilename, Parser!HasToBeQuoted, Parser!NameRefused, Parser!NameRead, Parser!NeedsQuoting,
         Parser!Quote, Parser!Backslash, Parser!Last,
         Proved!EscapedFilename, Proved!HasToBeQuoted, Proved!NameRefused, Proved!NameRead,
         Proved!NeedsQuoting,
         Proved!Quote, Proved!Backslash, Proved!Last
<1> QED
  BY <1>1, <1>2

(* The errors for names are errors of the parser. *)
LEMMA NameErrorsFit ==
  ASSUME NEW e \in Proved!NameErrors
  PROVE  e \in {"none"} \cup Parser!ErrorKinds
BY DEF Proved!NameErrors, Parser!ErrorKinds

(* What is refused of a name is one of them, *)
LEMMA NameIsReadOrRefused ==
  ASSUME NEW s \in Seq(Byte)
  PROVE  EscapedFilename(s).error \in {"none"} \cup Parser!ErrorKinds
<1>1. s \in Seq(Proved!Byte)
  BY DEF Byte, Proved!Byte
<1>2. Proved!EscapedFilename(s) \in [error : Proved!NameErrors, name : Seq(Proved!Byte)]
  BY <1>1, Proved!EscapedFilenameType
<1>3. Proved!EscapedFilename(s).error \in Proved!NameErrors
  BY <1>2
<1>4. EscapedFilename(s).error \in Proved!NameErrors
  BY <1>3, SameNames
<1> QED
  BY <1>4, NameErrorsFit

(* also of what precedes a tab in a line of the patch, *)
LEMMA PartIsReadOrRefused ==
  ASSUME NEW s \in Seq(Byte)
  PROVE  Parser!EscapedFilename(s).error \in {"none"} \cup Parser!ErrorKinds
<1>1. EscapedFilename(s).error \in {"none"} \cup Parser!ErrorKinds
  BY NameIsReadOrRefused
<1> QED
  BY <1>1, SameNames

(* and of the line. *)
LEMMA HeaderIsReadOrRefused ==
  ASSUME NEW l \in PatchLine
  PROVE  Parser!NameError(l) \in {"none"} \cup Parser!ErrorKinds
<1> DEFINE s == l.body[2]
           Tabs == {i \in 1..Len(s) : s[i] = Parser!Tab}
           tab == Parser!SelectInSeq(s, LAMBDA b : b = Parser!Tab)
           Fine(e) == e \in {"none"} \cup Parser!ErrorKinds
<1>1. s \in Seq(Byte)
  BY DEF PatchLine, Bodies
<1>2. tab \in 0..Len(s)
  <2>1. CASE Tabs = {}
    BY <1>1, <2>1 DEF Parser!SelectInSeq
  <2>2. CASE Tabs # {}
    <3>1. Tabs \subseteq Nat
      BY <1>1
    <3>2. \E x \in Tabs : \A y \in Tabs : x <= y
      <4> HIDE DEF Tabs
      <4> QED BY <2>2, <3>1, LeastNatural
    <3>3. Parser!Min(Tabs) \in Tabs
      BY <3>2 DEF Parser!Min
    <3>4. tab = Parser!Min(Tabs)
      BY <2>2 DEF Parser!SelectInSeq
    <3> QED
      BY <1>1, <3>3, <3>4
  <2> QED BY <2>1, <2>2
<1>3. tab # 0 => SubSeq(s, 1, tab - 1) \in Seq(Byte)
  <2> HIDE DEF tab, s
  <2> QED BY <1>1, <1>2
<1>4. Fine(Parser!NameRefused("FilenameUnterminated").error)
  BY DEF Parser!NameRefused, Parser!ErrorKinds
<1>5. Parser!ParseFilename(l) =
        IF tab # 0 THEN Parser!EscapedFilename(SubSeq(s, 1, tab - 1))
        ELSE IF l.nl THEN Parser!EscapedFilename(s)
        ELSE Parser!NameRefused("FilenameUnterminated")
  BY DEF Parser!ParseFilename
<1>6. \A t \in Seq(Byte) : Fine(Parser!EscapedFilename(t).error)
  BY PartIsReadOrRefused
<1>7. Fine(Parser!ParseFilename(l).error)
  <2> HIDE DEF tab, s, Fine
  <2> QED BY <1>1, <1>3, <1>4, <1>5, <1>6
<1> QED
  BY <1>7 DEF Parser!NameError

(* So is what is refused of a line of a hunk. *)
LEMMA HunkLineIsReadOrRefused ==
  ASSUME NEW l
  PROVE  Parser!LineError(l) \in {"none"} \cup Parser!ErrorKinds
<1>1. Parser!LineError(l) \in {"none", "ExpectedEndOfHunk", "TooManyDeletedLines",
        "TooManyInsertedLines", "UnexpectedNoNewlineMarker", "MissingNewline",
        "UnexpectedHunkLine"}
  BY DEF Parser!LineError
<1> QED
  BY <1>1 DEF Parser!ErrorKinds

-----------------------------------------------------------------------------
(* Where a line is found *)

(* The least of some places. *)
LEMMA LeastPlace ==
  ASSUME NEW S, S \subseteq Nat, S # {}
  PROVE  Min(S) \in S /\ \A i \in S : Min(S) <= i
<1>1. \E i \in S : \A j \in S : i <= j
  BY LeastNatural
<1> QED
  BY <1>1 DEF Min

(* Where the next patch starts: at a line that looks like it, which is the *)
(* first "diff --git " line of a git diff.                                 *)
LEMMA StartFacts ==
  ASSUME text \in Seq(PatchLine), offset \in 0..Len(text), format \in {"UniDiff", "GitDiff"}
  PROVE  /\ Start = <<>> /\ format = "GitDiff" =>
              \A i \in offset + 1..Len(text) : ~IsDiffGit(text[i])
         /\ Start # <<>> =>
              /\ Start[1] \in offset..Len(text) - 1
              /\ format = "UniDiff" => IsFileHeader(text[Start[1] + 1])
              /\ format = "GitDiff" =>
                   /\ IsDiffGit(text[Start[1] + 1])
                   /\ \A i \in offset + 1..Start[1] : ~IsDiffGit(text[i])
<1> DEFINE F == {i \in offset + 1..Len(text) : IsFileHeader(text[i])}
           G == {i \in offset + 1..Len(text) : IsDiffGit(text[i])}
           S == IF format = "UniDiff" THEN F ELSE G
<1>1. Start = IF S # {} THEN <<Min(S) - 1>> ELSE <<>>
  <2>1. SelectInSubSeq(text, offset + 1, Len(text), IsFileHeader) = IF F # {} THEN Min(F) ELSE 0
    BY DEF SelectInSubSeq
  <2>2. SelectInSubSeq(text, offset + 1, Len(text), IsDiffGit) = IF G # {} THEN Min(G) ELSE 0
    BY DEF SelectInSubSeq
  <2>3. F \subseteq Nat /\ G \subseteq Nat /\ 0 \notin F /\ 0 \notin G
    OBVIOUS
  <2>4. FirstFrom(offset, IsFileHeader) = IF F # {} THEN <<Min(F) - 1>> ELSE <<>>
    <3> HIDE DEF F
    <3> QED BY <2>1, <2>3, LeastPlace DEF FirstFrom
  <2>5. FirstFrom(offset, IsDiffGit) = IF G # {} THEN <<Min(G) - 1>> ELSE <<>>
    <3> HIDE DEF G
    <3> QED BY <2>2, <2>3, LeastPlace DEF FirstFrom
  <2> HIDE DEF F, G
  <2> QED
    BY <2>4, <2>5 DEF Start
<1>2. CASE S = {}
  <2>1. Start = <<>>
    BY <1>1, <1>2
  <2>2. format = "GitDiff" => \A i \in offset + 1..Len(text) : ~IsDiffGit(text[i])
    BY <1>2
  <2> QED
    BY <2>1, <2>2
<1>3. CASE S # {}
  <2>1. Start = <<Min(S) - 1>> /\ Start # <<>> /\ Start[1] = Min(S) - 1
    BY <1>1, <1>3
  <2>2. S \subseteq Nat
    OBVIOUS
  <2>3. Min(S) \in S /\ \A i \in S : Min(S) <= i
    <3> HIDE DEF S
    <3> QED BY <1>3, <2>2, LeastPlace
  <2> DEFINE m == Min(S)
  <2>4. m \in S /\ (\A i \in S : m <= i) /\ Start[1] = m - 1
    BY <2>1, <2>3
  <2> HIDE DEF m
  <2>5. m \in offset + 1..Len(text) /\ Start[1] + 1 = m
    BY <2>4
  <2>6. Start[1] \in offset..Len(text) - 1
    BY <2>4, <2>5
  <2>7. format = "UniDiff" => IsFileHeader(text[Start[1] + 1])
    BY <2>4, <2>5
  <2>8. format = "GitDiff" => IsDiffGit(text[Start[1] + 1])
    BY <2>4, <2>5
  <2>9. ASSUME format = "GitDiff", NEW i \in offset + 1..Start[1] PROVE ~IsDiffGit(text[i])
    <3>1. i \in offset + 1..Len(text) /\ ~(m <= i)
      BY <2>4, <2>5
    <3>2. i \notin S
      BY <2>4, <3>1
    <3>3. S = G
      BY <2>9
    <3> QED
      BY <3>1, <3>2, <3>3
  <2> QED
    BY <2>1, <2>6, <2>7, <2>8, <2>9
<1> QED
  BY <1>2, <1>3

(* A block of a binary patch ends inside the text, past its first line. *)
LEMMA BlockEnds ==
  ASSUME text \in Seq(PatchLine), NEW from \in Nat, BinaryBlock(from) # <<>>
  PROVE  BinaryBlock(from)[1].end \in from + 1..Len(text)
<1> DEFINE blank == FirstFrom(from + 1, LAMBDA l : l = BlankLine)
           B == {i \in from + 2..Len(text) : text[i] = BlankLine}
           stop == IF blank = <<>> THEN Len(text) ELSE blank[1]
<1>1. from < Len(text) /\ Len(text) \in Nat
  <2>1. ~(from >= Len(text))
    BY Zenon DEF BinaryBlock
  <2>2. Len(text) \in Nat
    OBVIOUS
  <2> HIDE DEF blank, stop
  <2> QED
    BY <2>1, <2>2
<1>2. BinaryBlock(from)[1].end = Min2(stop + 1, Len(text))
  BY DEF BinaryBlock
<1>3. stop \in from + 1..Len(text)
  <2>1. SelectInSubSeq(text, from + 1 + 1, Len(text), LAMBDA l : l = BlankLine)
          = IF B # {} THEN Min(B) ELSE 0
    BY DEF SelectInSubSeq
  <2>2. B \subseteq Nat
    OBVIOUS
  <2>3. B # {} => Min(B) \in B
    <3> HIDE DEF B
    <3> QED BY <2>2, LeastPlace
  <2>4. B # {} => Min(B) \in from + 2..Len(text)
    BY <2>3
  <2>5. blank = IF B # {} /\ Min(B) # 0 THEN <<Min(B) - 1>> ELSE <<>>
    <3> HIDE DEF B
    <3> QED BY <2>1 DEF FirstFrom
  <2>6. CASE blank = <<>>
    BY <1>1, <2>6
  <2>7. CASE blank # <<>>
    <3>1. B # {} /\ blank[1] = Min(B) - 1
      <4> HIDE DEF B, blank
      <4> QED BY <2>5, <2>7
    <3> DEFINE m == Min(B)
    <3>2. stop = m - 1 /\ m \in from + 2..Len(text)
      BY <2>4, <2>7, <3>1
    <3> HIDE DEF m, stop
    <3> QED
      BY <1>1, <3>2
  <2> QED
    BY <2>6, <2>7
<1> HIDE DEF stop
<1> QED
  BY <1>1, <1>2, <1>3 DEF Min2

(* A binary patch ends past its header, or it fails where the headers end. *)
LEMMA BinaryEnds ==
  ASSUME text \in Seq(PatchLine), NEW from \in Nat
  PROVE  /\ BinaryPatch(from).end \in {pos} \cup (from + 1..Len(text))
         /\ BinaryPatch(from).error \in ItemErrors
<1> DEFINE forward == BinaryBlock(from + 1)
           reverse == BinaryBlock(forward[1].end)
<1>1. ASSUME forward # <<>>, reverse # <<>>
      PROVE  reverse[1].end \in from + 1..Len(text)
  <2> DEFINE f == forward[1].end
             r == reverse[1].end
  <2>1. f \in from + 1 + 1..Len(text)
    BY <1>1, BlockEnds
  <2>2. f \in Nat
    <3> HIDE DEF f
    <3> QED BY <2>1
  <2>3. r \in f + 1..Len(text)
    BY <1>1, <2>2, BlockEnds
  <2>4. r \in from + 1..Len(text)
    <3> HIDE DEF f, r
    <3> QED BY <2>1, <2>2, <2>3
  <2> QED
    BY <2>4
<1>2. BinaryPatch(from).end \in {pos, reverse[1].end}
  BY DEF BinaryPatch
<1>3. forward = <<>> \/ reverse = <<>> => BinaryPatch(from).end = pos
  BY DEF BinaryPatch
<1>4. BinaryPatch(from).error \in
        {"none", "InvalidHeader", "MissingForwardBlock", "MissingReverseBlock"}
  BY DEF BinaryPatch
<1>5. BinaryPatch(from).error \in ItemErrors
  BY <1>4 DEF ItemErrors
<1> HIDE DEF forward, reverse
<1>6. BinaryPatch(from).end \in {pos} \cup (from + 1..Len(text))
  <2>1. CASE forward = <<>> \/ reverse = <<>>
    BY <1>3, <2>1
  <2>2. CASE forward # <<>> /\ reverse # <<>>
    BY <1>1, <1>2, <2>2
  <2> QED
    BY <2>1, <2>2
<1> QED
  BY <1>5, <1>6

-----------------------------------------------------------------------------
(* What an item is made of *)

(* What is left of a mail is lines. *)
LEMMA StrippedText ==
  ASSUME NEW t \in Seq(PatchLine)
  PROVE  StripEmailPreamble(t) \in Seq(PatchLine)
<1> DEFINE line == TextLine("-", <<"none", <<45, 45>>>>, TRUE)
           D == {i \in 2..Len(t) : t[i] = line}
           sep == SelectInSubSeq(t, 2, Len(t),
                    LAMBDA l : l = TextLine("-", <<"none", <<45, 45>>>>, TRUE))
<1>1. sep = IF D # {} THEN Min(D) ELSE 0
  BY DEF SelectInSubSeq
<1>2. D \subseteq Nat
  <2> HIDE DEF line
  <2> QED OBVIOUS
<1>3. D # {} => Min(D) \in D
  <2> HIDE DEF D
  <2> QED BY <1>2, LeastPlace
<1>4. sep \in 0..Len(t)
  <2>1. D # {} => Min(D) \in 2..Len(t)
    <3> HIDE DEF line
    <3> QED BY <1>3
  <2>2. Len(t) \in Nat
    OBVIOUS
  <2> HIDE DEF D, sep
  <2> QED BY <1>1, <2>1, <2>2
<1>5. SubSeq(t, sep + 1, Len(t)) \in Seq(PatchLine)
  <2> HIDE DEF sep
  <2> QED BY <1>4
<1>6. StripEmailPreamble(t) \in {SubSeq(t, sep + 1, Len(t)), t}
  BY DEF StripEmailPreamble
<1> HIDE DEF sep
<1> QED
  BY <1>5, <1>6

(* A header that has been seen has a rest. *)
LEMMA FieldType ==
  ASSUME header \in Headers, NEW start \in HeaderStarts, Has(start)
  PROVE  Field(start) \in Seq(Byte)
<1>1. header.field[start] \in Seq(Seq(Byte)) /\ header.field[start] # <<>>
  BY DEF Headers, Has
<1> QED
  BY <1>1 DEF Field

(* A move is refused for one of its names, *)
LEMMA MovedErrors ==
  ASSUME header \in Headers, NEW kind, NEW from \in HeaderStarts, NEW to \in HeaderStarts,
         Has(from), Has(to)
  PROVE  Moved(kind, from, to).error \in ItemErrors
<1> DEFINE f == EscapedFilename(Field(from)).error
           t == EscapedFilename(Field(to)).error
<1>1. f \in {"none"} \cup Parser!ErrorKinds /\ t \in {"none"} \cup Parser!ErrorKinds
  <2>1. Field(from) \in Seq(Byte) /\ Field(to) \in Seq(Byte)
    BY FieldType
  <2>2. f \in {"none"} \cup Parser!ErrorKinds
    BY <2>1, NameIsReadOrRefused
  <2>3. t \in {"none"} \cup Parser!ErrorKinds
    BY <2>1, NameIsReadOrRefused
  <2> QED
    BY <2>2, <2>3
<1>2. Moved(kind, from, to).error \in {"none", f, t}
  BY DEF Moved, Ok, Err
<1> HIDE DEF f, t
<1> QED
  BY <1>1, <1>2 DEF ItemErrors

(* and any operation for a reason there is a kind of error for. *)
LEMMA OperationErrors ==
  ASSUME header \in Headers, NEW o, NEW m
  PROVE  /\ FileOpUnidiff(o, m).error \in ItemErrors
         /\ FileOpGitdiff(o, m).error \in ItemErrors
<1>1. FileOpUnidiff(o, m).error \in ItemErrors
  <2> DEFINE create == o = <<DevNull>>
             delete == m = <<DevNull>>
             Kinds == {"none", "BothDevNull", "DeleteMissingOriginalPath",
                       "CreateMissingModifiedPath", "NoFilePath"}
  <2>1. CASE create /\ delete
    BY <2>1 DEF FileOpUnidiff, Err, ItemErrors
  <2>2. CASE delete /\ ~create
    BY <2>2 DEF FileOpUnidiff, Ok, Err, ItemErrors
  <2>3. CASE create /\ ~delete
    BY <2>3 DEF FileOpUnidiff, Ok, Err, ItemErrors
  <2>4. CASE ~create /\ ~delete
    BY <2>4 DEF FileOpUnidiff, Ok, Err, ItemErrors
  <2> QED
    BY <2>1, <2>2, <2>3, <2>4
<1>2. FileOpDiffGit.error \in ItemErrors
  BY DEF FileOpDiffGit, Ok, Err, ItemErrors
<1>3. Has("rename from ") /\ Has("rename to ") =>
        Moved("Rename", "rename from ", "rename to ").error \in ItemErrors
  <2>1. "rename from " \in HeaderStarts /\ "rename to " \in HeaderStarts
    BY DEF HeaderStarts
  <2> QED
    BY <2>1, MovedErrors
<1>4. Has("copy from ") /\ Has("copy to ") =>
        Moved("Copy", "copy from ", "copy to ").error \in ItemErrors
  <2>1. "copy from " \in HeaderStarts /\ "copy to " \in HeaderStarts
    BY DEF HeaderStarts
  <2> QED
    BY <2>1, MovedErrors
<1>5. FileOpGitdiff(o, m).error \in ItemErrors
  BY <1>1, <1>2, <1>3, <1>4 DEF FileOpGitdiff
<1> QED
  BY <1>1, <1>5

-----------------------------------------------------------------------------
(* Yield *)

(* What an item says of where it ends and what is wrong. *)
LEMMA YieldAppends ==
  ASSUME NEW error, NEW operation, NEW hs, NEW blocks, NEW end,
         Yield(error, operation, hs, blocks, end),
         error \in ItemErrors, operation.error \in ItemErrors
  PROVE  \E e : /\ items' = Append(items, e)
                /\ e.at = end /\ e.error \in ItemErrors
<1> DEFINE kind == IF error # "none" THEN error
                   ELSE IF operation.error # "none" THEN operation.error
                   ELSE IF format = "GitDiff" /\ BadMode THEN "InvalidFileMode" ELSE "none"
           e == IF kind # "none" THEN Yielded(kind, NoOp, NoModes, <<>>, <<>>, end)
                ELSE Yielded("none", operation.op, <<OldMode, NewMode>>, hs, blocks, end)
<1>1. items' = Append(items, e)
  BY DEF Yield
<1>2. kind \in ItemErrors
  BY DEF ItemErrors
<1>3. e.at = end
  BY DEF Yielded
<1>4. e.error = kind
  BY DEF Yielded
<1> HIDE DEF e, kind
<1> QED
  BY <1>1, <1>2, <1>3, <1>4

(* An item that ends past the others keeps the invariant: it is the one    *)
(* for the last diff that has been consumed.                               *)
LEMMA YieldKeeps ==
  ASSUME SetInv, phase \in {"header", "patch"}, UNCHANGED <<pos, parserVars>>,
         NEW error, NEW operation, NEW hs, NEW blocks, NEW end,
         Yield(error, operation, hs, blocks, end),
         error \in ItemErrors, operation.error \in ItemErrors,
         end \in 0..Len(text), EndOfItems < end,
         format = "GitDiff" /\ NoBinary => Len(items) + 1 = DiffsIn(text, end)
  PROVE  SetInv'
<1>1. /\ phase' = "next" /\ offset' = end /\ header' = NoHeader
      /\ text' = text /\ format' = format /\ foundAny' = foundAny
      /\ opts' = opts /\ stage' = stage /\ pos' = pos /\ result' = result
  BY DEF Yield, inputVars, parserVars
<1>2. PICK e : items' = Append(items, e) /\ e.at = end /\ e.error \in ItemErrors
  BY YieldAppends
<1>3. /\ \E S : items' \in Seq(S)
      /\ Len(items) \in Nat /\ Len(items') = Len(items) + 1
      /\ DOMAIN items = 1..Len(items) /\ DOMAIN items' = 1..Len(items) + 1
      /\ \A i \in 1..Len(items) : items'[i] = items[i]
      /\ items'[Len(items) + 1] = e /\ items' # <<>>
  <2>1. \E S : items \in Seq(S)
    BY DEF SetInv, SetType
  <2> DEFINE t == Append(items, e)
  <2>2. \E S : t \in Seq(S)
    BY <2>1, RowGrows
  <2>3. Len(items) \in Nat /\ Len(t) = Len(items) + 1
    BY <2>1, RowGrows
  <2>4. DOMAIN items = 1..Len(items) /\ DOMAIN t = 1..Len(items) + 1
    BY <2>1, RowGrows
  <2>5. \A i \in 1..Len(items) : t[i] = items[i]
    BY <2>1, RowGrows
  <2>6. t[Len(items) + 1] = e /\ t # <<>>
    BY <2>1, RowGrows
  <2>7. items' = t
    BY <1>2
  <2> HIDE DEF t
  <2> QED
    BY <2>2, <2>3, <2>4, <2>5, <2>6, <2>7
<1>4. SetType'
  <2>1. NoHeader \in Headers
    BY DEF NoHeader, Headers
  <2>2. \A i \in DOMAIN items' : items'[i].at \in 0..Len(text) /\ items'[i].error \in ItemErrors
    <3>1. \A i \in DOMAIN items : items[i].at \in 0..Len(text) /\ items[i].error \in ItemErrors
      BY DEF SetInv, SetType
    <3>2. ASSUME NEW i \in DOMAIN items'
          PROVE  items'[i].at \in 0..Len(text) /\ items'[i].error \in ItemErrors
      <4>1. i \in 1..Len(items) \/ i = Len(items) + 1
        BY <1>3
      <4> QED
        BY <1>2, <1>3, <3>1, <4>1
    <3> QED BY <3>2
  <2>3. text \in Seq(PatchLine) /\ format \in {"UniDiff", "GitDiff"}
    BY DEF SetInv, SetType
  <2>4. pos \in 0..Len(text) /\ foundAny \in BOOLEAN
    BY DEF SetInv, SetType
  <2>5. result \in {"none", "ok"} \cup Parser!ErrorKinds
    BY DEF SetInv, SetType
  <2>6. \E S : items' \in Seq(S)
    BY <1>3
  <2>7. ItemErrors' = ItemErrors /\ Parser!ErrorKinds' = Parser!ErrorKinds
    BY DEF ItemErrors, Parser!ErrorKinds
  <2> QED
    BY <1>1, <2>1, <2>2, <2>3, <2>4, <2>5, <2>6, <2>7 DEF SetType
<1>5. MakesProgress'
  <2>1. ASSUME NEW i \in DOMAIN items', items'[i].error # "NoPatchesFound"
        PROVE  items'[i].at > (IF i = 1 THEN 0 ELSE items'[i - 1].at)
    <3>1. CASE i \in 1..Len(items)
      <4>1. items[i].at > (IF i = 1 THEN 0 ELSE items[i - 1].at)
        BY <1>3, <2>1, <3>1 DEF SetInv, Advances, MakesProgress
      <4>2. items'[i] = items[i] /\ (i # 1 => items'[i - 1] = items[i - 1])
        BY <1>3, <3>1
      <4> QED
        BY <4>1, <4>2
    <3>2. CASE i = Len(items) + 1
      <4>1. items'[i].at = end
        BY <1>2, <1>3, <3>2
      <4>2. CASE items = <<>>
        BY <1>3, <3>2, <4>1, <4>2 DEF EndOfItems
      <4>3. CASE items # <<>>
        <5>1. Len(items) # 0
          BY <4>3 DEF SetInv, SetType
        <5>2. items'[i - 1] = items[Len(items)] /\ i # 1
          BY <1>3, <3>2, <5>1
        <5>3. EndOfItems = items[Len(items)].at
          BY <4>3 DEF EndOfItems
        <5> QED
          BY <4>1, <5>2, <5>3
      <4> QED BY <4>2, <4>3
    <3> QED
      BY <1>3, <3>1, <3>2
  <2> QED
    BY <2>1 DEF MakesProgress
<1>6. Advances'
  <2>1. foundAny'
    BY <1>1 DEF SetInv, Advances
  <2>2. EndOfItems' = end
    BY <1>2, <1>3 DEF EndOfItems
  <2>3. EndOfItems' <= offset'
    BY <1>1, <2>2
  <2> QED
    BY <1>1, <1>5, <2>1, <2>3 DEF Advances
<1>7. AnswersDiffs'
  <2>1. ~Has("GIT binary patch")'
    BY <1>1 DEF Has, NoHeader, HeaderStarts
  <2>2. NoBinary' <=> NoBinary
    BY <1>1 DEF NoBinary
  <2>3. format = "GitDiff" /\ NoBinary => Counted'
    <3>1. DiffsIn(text', offset') = DiffsIn(text, end)
      BY <1>1
    <3> QED
      BY <1>1, <1>3, <3>1 DEF Counted
  <2> QED
    BY <1>1, <2>1, <2>2, <2>3 DEF AnswersDiffs
<1> QED
  BY <1>4, <1>6, <1>7 DEF SetInv

-----------------------------------------------------------------------------
(* parse_one() *)

(***************************************************************************)
(* What a step of the parser does to what the set needs to know: it takes  *)
(* at most one line, which is no "diff --git " line unless junk is being   *)
(* skipped, and what it starts at a file header it does not leave there.   *)
(***************************************************************************)
Results == {"none", "ok"} \cup Parser!ErrorKinds
Skipping == stage \in {"preamble", "orphans"}

TakesLines ==
  /\ text' = text /\ opts' = opts
  /\ pos' = pos \/ (pos' = pos + 1 /\ pos < Len(text))
  /\ result' \in Results
  /\ ~Skipping => pos' = pos \/ ~IsDiffGit(text[pos + 1])
  /\ ~Skipping /\ ~opts.rejectOrphans => ~Skipping'
  /\ AtNames => pos' = pos + 1 \/ (stage' = "names" /\ UNCHANGED <<pos, original, modified>>)

(* File headers and hunk headers are none of a git diff. *)
LEMMA OtherHeaders ==
  ASSUME NEW l
  PROVE  /\ Parser!IsFileHeader(l) <=> IsFileHeader(l)
         /\ IsFileHeader(l) => ~IsDiffGit(l)
         /\ Parser!IsHunkHeader(l) => ~IsDiffGit(l)
         /\ Parser!IsMarker(l) => ~IsDiffGit(l)
<1>1. Parser!IsFileHeader(l) <=> IsFileHeader(l)
  BY DEF Parser!IsFileHeader, Parser!IsOriginalHeader, Parser!IsModifiedHeader,
    IsFileHeader, IsOriginalHeader, IsModifiedHeader
<1>2. IsFileHeader(l) => ~IsDiffGit(l)
  BY DEF IsFileHeader, IsOriginalHeader, IsModifiedHeader, IsDiffGit, StartOf
<1>3. Parser!IsHunkHeader(l) => ~IsDiffGit(l)
  BY DEF Parser!IsHunkHeader, IsDiffGit, StartOf
<1>4. Parser!IsMarker(l) => ~IsDiffGit(l)
  BY DEF Parser!IsMarker, IsDiffGit, StartOf
<1> QED
  BY <1>1, <1>2, <1>3, <1>4

(* A hunk takes no such line either: it ends before it, or is refused. *)
LEMMA HunkTakesNoDiff ==
  ASSUME Parser!TakeLine
  PROVE  ~IsDiffGit(text[pos + 1])
<1> DEFINE l == Parser!Peek
<1>1. /\ ~Parser!AtEnd /\ ~Parser!EndsHunk
      /\ Parser!LineError(l) = "none" /\ ~Parser!IsMarker(l)
  BY DEF Parser!TakeLine, Parser!InLines, Parser!EndsHunk
<1>2. /\ l.sign \notin {"@@", "@"} /\ ~Parser!Complete
  BY <1>1 DEF Parser!EndsHunk
<1>3. Parser!KindOf(l) # "None"
  <2> HIDE DEF l
  <2> QED BY <1>1, <1>2 DEF Parser!LineError
<1>4. l.sign # "none" \/ l = Parser!BlankLine
  <2> HIDE DEF l
  <2> QED BY <1>3 DEF Parser!KindOf
<1>5. l = Parser!BlankLine => l.body[1] = "none"
  <2> HIDE DEF l
  <2> QED BY DEF Parser!BlankLine, Parser!TextLine, Parser!Nothing
<1>6. ~IsDiffGit(l)
  <2> HIDE DEF l
  <2> QED BY <1>4, <1>5 DEF IsDiffGit, StartOf
<1> QED
  BY <1>6 DEF Parser!Peek

(* The line at hand is one of the text. *)
LEMMA PeekType ==
  ASSUME text \in Seq(PatchLine), pos \in 0..Len(text), ~Parser!AtEnd
  PROVE  pos < Len(text) /\ Parser!Peek = text[pos + 1] /\ Parser!Peek \in PatchLine
<1>1. pos < Len(text) /\ pos \in Nat /\ Len(text) \in Nat
  BY DEF Parser!AtEnd
<1>2. text[pos + 1] \in PatchLine
  BY <1>1
<1> QED
  BY <1>1, <1>2 DEF Parser!Peek

(* The loop of patch_header over the preamble, *)
LEMMA SkipPreambleTakes ==
  ASSUME text \in Seq(PatchLine), pos \in 0..Len(text), result \in Results, Parser!SkipPreamble
  PROVE  TakesLines
<1>1. ~Parser!AtEnd => pos < Len(text) /\ Parser!Peek = text[pos + 1]
  BY PeekType
<1>2. AtNames => Parser!IsFileHeader(Parser!Peek)
  BY OtherHeaders DEF AtNames, Parser!Peek
<1>3. Skipping /\ text' = text /\ opts' = opts /\ result' = result
  BY DEF Parser!SkipPreamble, Parser!input, Skipping
<1>4. pos' = pos \/ (pos' = pos + 1 /\ pos < Len(text))
  BY <1>1 DEF Parser!SkipPreamble, Parser!Advance
<1>5. AtNames => stage' = "names" /\ UNCHANGED <<pos, original, modified>>
  BY <1>2 DEF Parser!SkipPreamble
<1> QED
  BY <1>3, <1>4, <1>5 DEF TakesLines

(* a name that is taken *)
LEMMA TakeNameTakes ==
  ASSUME text \in Seq(PatchLine), pos \in 0..Len(text), result \in Results, Parser!TakeName
  PROVE  TakesLines
<1>1. pos < Len(text) /\ Parser!Peek = text[pos + 1]
  BY PeekType DEF Parser!TakeName, Parser!AtName
<1>2. ~IsDiffGit(text[pos + 1])
  BY <1>1, OtherHeaders DEF Parser!TakeName, Parser!AtName
<1>3. /\ stage = "names" /\ stage' = stage /\ pos' = pos + 1
      /\ text' = text /\ opts' = opts /\ result' = result
  BY DEF Parser!TakeName, Parser!AtName, Parser!Advance, Parser!input
<1> QED
  BY <1>1, <1>2, <1>3 DEF TakesLines, Skipping

(* and one that is not, *)
LEMMA RefuseNameTakes ==
  ASSUME text \in Seq(PatchLine), pos \in 0..Len(text), result \in Results, Parser!RefuseName
  PROVE  TakesLines
<1>1. pos < Len(text) /\ Parser!Peek = text[pos + 1] /\ Parser!Peek \in PatchLine
  BY PeekType DEF Parser!RefuseName, Parser!AtName
<1>2. ~IsDiffGit(text[pos + 1])
  BY <1>1, OtherHeaders DEF Parser!RefuseName, Parser!AtName
<1>3. /\ stage = "names" /\ stage' = "done"
      /\ text' = text /\ opts' = opts
  BY DEF Parser!RefuseName, Parser!AtName, Parser!Finish, Parser!input
<1>4. \/ pos' = pos /\ result' \in {"MultipleOriginalHeaders", "MultipleModifiedHeaders"}
      \/ pos' = pos + 1 /\ result' = Parser!NameError(Parser!Peek)
  BY DEF Parser!RefuseName, Parser!Finish, Parser!Advance
<1>5. Parser!NameError(Parser!Peek) \in Results
  BY <1>1, HeaderIsReadOrRefused DEF Results
<1>6. result' \in Results
  BY <1>4, <1>5 DEF Results, Parser!ErrorKinds
<1>7. AtNames => pos' = pos + 1
  BY DEF Parser!RefuseName, Parser!Twice, Parser!Advance, AtNames
<1> QED
  BY <1>1, <1>2, <1>3, <1>4, <1>6, <1>7 DEF TakesLines, Skipping

(* the end of the names, *)
LEMMA EndNamesTakes ==
  ASSUME text \in Seq(PatchLine), pos \in 0..Len(text), result \in Results, Parser!EndNames
  PROVE  TakesLines
<1>1. /\ stage = "names" /\ stage' = "hunks"
      /\ text' = text /\ opts' = opts /\ pos' = pos /\ result' = result
  BY DEF Parser!EndNames, Parser!input
<1>2. ~AtNames
  <2>1. SUFFICES ASSUME AtNames PROVE FALSE
    OBVIOUS
  <2>2. ~Parser!AtEnd
    BY <2>1 DEF AtNames, Parser!AtEnd
  <2>3. Parser!IsFileHeader(Parser!Peek)
    BY <2>1, OtherHeaders DEF AtNames, Parser!Peek
  <2> QED
    BY <1>1, <2>2, <2>3 DEF Parser!EndNames, Parser!AtName
<1> QED
  BY <1>1, <1>2 DEF TakesLines, Skipping

(* the headers of hunks, *)
LEMMA HunkHeaderTakes ==
  ASSUME text \in Seq(PatchLine), pos \in 0..Len(text), result \in Results,
         Parser!OpenHunk \/ Parser!RefuseHunk
  PROVE  TakesLines
<1>1. Parser!AtHunk
  BY DEF Parser!OpenHunk, Parser!RefuseHunk
<1>2. pos < Len(text) /\ Parser!Peek = text[pos + 1]
  BY <1>1, PeekType DEF Parser!AtHunk
<1>3. ~IsDiffGit(text[pos + 1])
  BY <1>1, <1>2, OtherHeaders DEF Parser!AtHunk
<1>4. stage = "hunks" /\ stage' \in {"lines", "done"}
  BY <1>1 DEF Parser!AtHunk, Parser!OpenHunk, Parser!RefuseHunk, Parser!Finish
<1>5. text' = text /\ opts' = opts /\ pos' = pos + 1
  BY DEF Parser!OpenHunk, Parser!RefuseHunk, Parser!Advance, Parser!input
<1>6. result' \in Results
  BY DEF Parser!OpenHunk, Parser!RefuseHunk, Parser!Finish, Results, Parser!ErrorKinds
<1> QED
  BY <1>2, <1>3, <1>4, <1>5, <1>6 DEF TakesLines, Skipping

(* the end of the hunks, *)
LEMMA EndHunksTakes ==
  ASSUME text \in Seq(PatchLine), pos \in 0..Len(text), result \in Results, Parser!EndHunks
  PROVE  TakesLines
<1>1. /\ stage = "hunks" /\ text' = text /\ opts' = opts /\ pos' = pos
  BY DEF Parser!EndHunks, Parser!input
<1>2. ~opts.rejectOrphans => stage' = "done"
  BY DEF Parser!EndHunks, Parser!Finish
<1>3. result' \in Results
  BY DEF Parser!EndHunks, Parser!Finish, Results, Parser!ErrorKinds
<1>4. ~AtNames
  BY <1>1 DEF AtNames
<1> QED
  BY <1>1, <1>2, <1>3, <1>4 DEF TakesLines, Skipping

(* the lines of a hunk, *)
LEMMA HunkLineTakes ==
  ASSUME text \in Seq(PatchLine), pos \in 0..Len(text), result \in Results,
         Parser!TakeLine \/ Parser!TakeMarker
  PROVE  TakesLines
<1>1. Parser!InLines
  BY DEF Parser!TakeLine, Parser!TakeMarker
<1>2. pos < Len(text) /\ Parser!Peek = text[pos + 1]
  BY <1>1, PeekType DEF Parser!InLines, Parser!EndsHunk
<1>3. ~IsDiffGit(text[pos + 1])
  <2>1. CASE Parser!TakeLine
    BY <2>1, HunkTakesNoDiff
  <2>2. CASE Parser!TakeMarker
    BY <1>2, <2>2, OtherHeaders DEF Parser!TakeMarker
  <2> QED
    BY <2>1, <2>2
<1>4. /\ stage = "lines" /\ stage' = stage /\ pos' = pos + 1
      /\ text' = text /\ opts' = opts /\ result' = result
  BY <1>1 DEF Parser!InLines, Parser!TakeLine, Parser!TakeMarker, Parser!Advance, Parser!input
<1> QED
  BY <1>2, <1>3, <1>4 DEF TakesLines, Skipping

(* one that is refused, *)
LEMMA RefuseLineTakes ==
  ASSUME text \in Seq(PatchLine), pos \in 0..Len(text), result \in Results, Parser!RefuseLine
  PROVE  TakesLines
<1>1. /\ stage = "lines" /\ stage' = "done" /\ result' = Parser!LineError(Parser!Peek)
      /\ text' = text /\ opts' = opts /\ pos' = pos
  BY DEF Parser!RefuseLine, Parser!InLines, Parser!Finish, Parser!input
<1>2. result' \in Results
  BY <1>1, HunkLineIsReadOrRefused DEF Results
<1> QED
  BY <1>1, <1>2 DEF TakesLines, Skipping, AtNames

(* the end of a hunk, *)
LEMMA CloseHunkTakes ==
  ASSUME text \in Seq(PatchLine), pos \in 0..Len(text), result \in Results, Parser!CloseHunk
  PROVE  TakesLines
<1>1. /\ stage = "lines" /\ stage' \in {"hunks", "done"}
      /\ text' = text /\ opts' = opts /\ pos' = pos
  BY DEF Parser!CloseHunk, Parser!Finish, Parser!input
<1>2. result' \in Results
  BY DEF Parser!CloseHunk, Parser!Finish, Results, Parser!ErrorKinds
<1> QED
  BY <1>1, <1>2 DEF TakesLines, Skipping, AtNames

(* and what is behind the last one. *)
LEMMA SkipTrailerTakes ==
  ASSUME text \in Seq(PatchLine), pos \in 0..Len(text), result \in Results, Parser!SkipTrailer
  PROVE  TakesLines
<1>1. ~Parser!AtEnd => pos < Len(text)
  BY PeekType
<1>2. stage = "orphans" /\ text' = text /\ opts' = opts
  BY DEF Parser!SkipTrailer, Parser!input
<1>3. pos' = pos \/ (pos' = pos + 1 /\ pos < Len(text))
  BY <1>1 DEF Parser!SkipTrailer, Parser!Advance
<1>4. result' \in Results
  BY DEF Parser!SkipTrailer, Parser!Finish, Results, Parser!ErrorKinds
<1> QED
  BY <1>2, <1>3, <1>4 DEF TakesLines, Skipping, AtNames

(* Those are all. *)
LEMMA ParserTakes ==
  ASSUME text \in Seq(PatchLine), pos \in 0..Len(text), result \in Results, Parser!Next
  PROVE  TakesLines
BY SkipPreambleTakes, TakeNameTakes, RefuseNameTakes, EndNamesTakes, HunkHeaderTakes,
  EndHunksTakes, HunkLineTakes, RefuseLineTakes, CloseHunkTakes, SkipTrailerTakes
  DEF Parser!Next

-----------------------------------------------------------------------------
(* The invariant *)

(* It holds when next() is called for the first time. *)
LEMMA InitSetInv == Init => SetInv
<1> SUFFICES ASSUME Init PROVE SetInv
  OBVIOUS
<1>1. PICK given \in Inputs :
        text = StripEmailPreamble(given.text) /\ format = given.format
  BY DEF Init
<1>2. given.text \in Seq(PatchLine) /\ given.format \in {"UniDiff", "GitDiff"}
  BY PatchSetAssumption
<1>3. text \in Seq(PatchLine) /\ format \in {"UniDiff", "GitDiff"}
  BY <1>1, <1>2, StrippedText
<1>4. /\ phase = "next" /\ offset = 0 /\ foundAny = FALSE /\ header = NoHeader
      /\ items = <<>> /\ pos = 0 /\ result = "none"
  BY DEF Init
<1>5. SetType
  <2>1. NoHeader \in Headers
    BY DEF NoHeader, Headers
  <2>2. items \in Seq({})
    BY <1>4
  <2>3. offset \in 0..Len(text) /\ pos \in 0..Len(text)
    BY <1>3, <1>4
  <2>4. \E S : items \in Seq(S)
    BY <2>2
  <2>5. foundAny \in BOOLEAN
    BY <1>4
  <2>6. \A i \in DOMAIN items : items[i].at \in 0..Len(text) /\ items[i].error \in ItemErrors
    BY <1>4
  <2>7. header \in Headers
    BY <1>4, <2>1
  <2> QED
    BY <1>3, <1>4, <2>3, <2>4, <2>5, <2>6, <2>7 DEF SetType
<1>6. Advances
  BY <1>4 DEF Advances, MakesProgress, EndOfItems
<1>7. AnswersDiffs
  <2>1. ~Has("GIT binary patch")
    BY <1>4 DEF Has, NoHeader, HeaderStarts
  <2>2. Counted
    BY <1>4, NoDiffsYet DEF Counted
  <2> QED
    BY <1>4, <2>1, <2>2 DEF AnswersDiffs
<1> QED
  BY <1>5, <1>6, <1>7 DEF SetInv

(* What the other steps leave as it was. *)
LEMMA ItemsKept ==
  ASSUME SetInv, UNCHANGED <<text, format, items>>,
         phase' \in {"next", "header", "patch", "done"},
         offset' \in 0..Len(text), pos' \in 0..Len(text), foundAny' \in BOOLEAN,
         header' \in Headers, result' \in Results
  PROVE  /\ SetType' /\ MakesProgress'
         /\ EndOfItems' = EndOfItems /\ EndOfItems \in Nat
         /\ NoBinary' = NoBinary
         /\ Len(items) \in Nat
<1>1. SetType'
  BY DEF SetInv, SetType, Results, Headers, ItemErrors, Parser!ErrorKinds
<1>2. MakesProgress'
  BY DEF SetInv, Advances, MakesProgress
<1>3. Len(items) \in Nat
  BY DEF SetInv, SetType
<1>4. EndOfItems \in Nat
  <2>1. items # <<>> => Len(items) \in DOMAIN items
    BY DEF SetInv, SetType
  <2>2. items # <<>> => items[Len(items)].at \in Nat
    BY <2>1 DEF SetInv, SetType
  <2> QED
    BY <2>2 DEF EndOfItems
<1>5. EndOfItems' = EndOfItems /\ NoBinary' = NoBinary
  BY DEF EndOfItems, NoBinary
<1> QED
  BY <1>1, <1>2, <1>3, <1>4, <1>5

(* Numbers that the invariant is about. *)
LEMMA SetNumbers ==
  ASSUME SetInv
  PROVE  /\ Len(text) \in Nat /\ offset \in Nat /\ pos \in Nat
         /\ offset <= Len(text) /\ pos <= Len(text)
         /\ text \in Seq(PatchLine) /\ format \in {"UniDiff", "GitDiff"}
BY DEF SetInv, SetType

(* FindUnidiffPatch: parse_one() begins at a file header. *)
LEMMA FindUnidiffKeeps ==
  ASSUME SetInv, FindUnidiffPatch
  PROVE  SetInv'
<1> DEFINE s == Start[1]
<1>1. /\ phase = "next" /\ format = "UniDiff" /\ Start # <<>>
      /\ foundAny' = TRUE /\ phase' = "patch"
      /\ UNCHANGED <<inputVars, offset, header, items>>
  BY DEF FindUnidiffPatch
<1>2. /\ pos' = s /\ stage' = "preamble" /\ original' = <<>> /\ modified' = <<>>
      /\ result' = "none"
  BY DEF FindUnidiffPatch, Parser!StartAt, Parser!DefaultOpts
<1>3. s \in offset..Len(text) - 1 /\ IsFileHeader(text[s + 1])
  BY <1>1, StartFacts DEF SetInv, SetType
<1>4. text' = text /\ format' = format /\ offset' = offset /\ header' = header /\ items' = items
  BY <1>1 DEF inputVars
<1>5. s \in Nat /\ offset <= s /\ s < Len(text)
  <2> HIDE DEF s
  <2> QED BY <1>3, SetNumbers
<1> HIDE DEF s
<1>6. SetType' /\ MakesProgress' /\ EndOfItems' = EndOfItems /\ EndOfItems \in Nat
  <2>1. header \in Headers /\ offset \in 0..Len(text)
    BY DEF SetInv, SetType
  <2>2. s \in 0..Len(text)
    BY <1>5, SetNumbers
  <2>3. "none" \in Results
    BY DEF Results
  <2> QED
    BY <1>1, <1>2, <1>4, <2>1, <2>2, <2>3, ItemsKept
<1>7. EndOfItems' <= offset'
  BY <1>1, <1>4, <1>6 DEF SetInv, Advances
<1>8. AtNames'
  BY <1>2, <1>3, <1>4, <1>5 DEF AtNames
<1>9. Advances'
  BY <1>1, <1>4, <1>6, <1>7, <1>8 DEF Advances
<1>10. AnswersDiffs'
  BY <1>1, <1>4 DEF SetInv, AnswersDiffs, Has, NoBinary
<1> QED
  BY <1>6, <1>9, <1>10 DEF SetInv

(* FindGitPatch: the headers begin at the next "diff --git " line. *)
LEMMA FindGitKeeps ==
  ASSUME SetInv, FindGitPatch
  PROVE  SetInv'
<1> DEFINE s == Start[1]
<1>1. /\ phase = "next" /\ format = "GitDiff" /\ Start # <<>>
      /\ foundAny' = TRUE /\ phase' = "header" /\ offset' = s /\ pos' = s
      /\ text' = text /\ format' = format /\ header' = header /\ items' = items
      /\ result' = result
  BY DEF FindGitPatch, inputVars, parserVars
<1>2. /\ s \in offset..Len(text) - 1 /\ IsDiffGit(text[s + 1])
      /\ \A i \in offset + 1..s : ~IsDiffGit(text[i])
  BY <1>1, StartFacts DEF SetInv, SetType
<1>3. s \in Nat /\ offset <= s /\ s < Len(text)
  <2> HIDE DEF s
  <2> QED BY <1>2, SetNumbers
<1> HIDE DEF s
<1>4. SetType' /\ MakesProgress' /\ EndOfItems' = EndOfItems /\ EndOfItems \in Nat
  <2>1. header \in Headers /\ result \in Results
    BY DEF SetInv, SetType, Results
  <2>2. s \in 0..Len(text)
    BY <1>3, SetNumbers
  <2> QED
    BY <1>1, <2>1, <2>2, ItemsKept
<1>5. EndOfItems' <= offset'
  <2>1. EndOfItems <= offset
    BY <1>1 DEF SetInv, Advances
  <2> QED
    BY <1>1, <1>3, <1>4, <2>1, SetNumbers
<1>6. header = NoHeader
  BY <1>1 DEF SetInv, Advances
<1>7. AtDiff'
  BY <1>1, <1>2, <1>3, <1>6 DEF AtDiff
<1>8. Advances'
  BY <1>1, <1>4, <1>5, <1>7 DEF Advances
<1>9. AnswersDiffs'
  <2>1. ~Has("GIT binary patch")'
    BY <1>1, <1>6 DEF Has, NoHeader, HeaderStarts
  <2>2. NoBinary' = NoBinary
    BY <1>1 DEF NoBinary
  <2>3. NoBinary => Counted'
    <3>1. SUFFICES ASSUME NoBinary PROVE Counted'
      OBVIOUS
    <3>2. Len(items) = DiffsIn(text, offset)
      BY <1>1, <3>1 DEF SetInv, AnswersDiffs, Counted
    <3>3. DiffsIn(text, s) = DiffsIn(text, offset)
      BY <1>2, <1>3, SetNumbers, DiffsSkip
    <3>4. DiffsIn(text', pos') = DiffsIn(text, s) /\ ~(offset' < pos')
      BY <1>1, <1>3
    <3>5. Len(items') + 0 = DiffsIn(text', pos')
      BY <1>1, <3>2, <3>3, <3>4 DEF SetInv, SetType
    <3> QED
      BY <1>1, <3>4, <3>5 DEF Counted
  <2> QED
    BY <1>1, <2>1, <2>2, <2>3 DEF AnswersDiffs
<1> QED
  BY <1>4, <1>8, <1>9 DEF SetInv

(* FindNothing: no diff is left. *)
LEMMA FindNothingKeeps ==
  ASSUME SetInv, FindNothing
  PROVE  SetInv'
<1>1. /\ phase = "next" /\ Start = <<>> /\ phase' = "done"
      /\ text' = text /\ format' = format /\ offset' = offset /\ foundAny' = foundAny
      /\ header' = header /\ pos' = pos /\ result' = result
  BY DEF FindNothing, inputVars, parserVars
<1>2. header \in Headers /\ result \in Results /\ foundAny \in BOOLEAN
  BY DEF SetInv, SetType, Results
<1>3. offset \in 0..Len(text) /\ pos \in 0..Len(text)
  BY DEF SetInv, SetType
<1>4. CASE foundAny
  <2>1. items' = items
    BY <1>4 DEF FindNothing
  <2>2. SetType' /\ MakesProgress' /\ NoBinary' = NoBinary
    BY <1>1, <1>2, <1>3, <2>1, ItemsKept
  <2>3. Advances'
    BY <1>1, <2>2 DEF Advances
  <2>4. AnswersDiffs'
    <3>1. Has("GIT binary patch")' => ~NoBinary
      BY <1>1 DEF SetInv, AnswersDiffs, Has
    <3>2. format = "GitDiff" /\ NoBinary => Counted'
      <4>1. SUFFICES ASSUME format = "GitDiff", NoBinary PROVE Counted'
        OBVIOUS
      <4>2. Len(items) = DiffsIn(text, offset)
        BY <1>1, <4>1 DEF SetInv, AnswersDiffs, Counted
      <4>3. \A i \in offset + 1..Len(text) : ~IsDiffGit(text[i])
        BY <1>1, <4>1, StartFacts DEF SetInv, SetType
      <4>4. DiffsIn(text, Len(text)) = DiffsIn(text, offset)
        BY <4>3, SetNumbers, DiffsSkip
      <4>5. DiffsIn(text', Len(text')) = DiffsIn(text, Len(text))
        BY <1>1
      <4> QED
        BY <1>1, <2>1, <4>2, <4>4, <4>5 DEF Counted
    <3> QED
      BY <1>1, <2>2, <3>1, <3>2 DEF AnswersDiffs
  <2> QED
    BY <2>2, <2>3, <2>4 DEF SetInv
<1>5. CASE ~foundAny
  <2> DEFINE e == Yielded("NoPatchesFound", NoOp, NoModes, <<>>, <<>>, offset)
  <2>1. items' = <<e>>
    BY <1>5 DEF FindNothing
  <2>2. e.at = offset /\ e.error = "NoPatchesFound"
    BY DEF Yielded
  <2> HIDE DEF e
  <2>3. DOMAIN items' = {1} /\ items'[1] = e /\ items' \in Seq({e})
    BY <2>1
  <2>4. SetType'
    <3>1. "NoPatchesFound" \in ItemErrors
      BY DEF ItemErrors
    <3>2. ItemErrors' = ItemErrors /\ Parser!ErrorKinds' = Parser!ErrorKinds
      BY DEF ItemErrors, Parser!ErrorKinds
    <3>3. \A i \in DOMAIN items' : items'[i].at \in 0..Len(text) /\ items'[i].error \in ItemErrors
      BY <1>3, <2>2, <2>3, <3>1
    <3> QED
      BY <1>1, <1>2, <1>3, <2>3, <3>2, <3>3 DEF SetInv, SetType
  <2>5. Advances'
    BY <1>1, <2>2, <2>3 DEF Advances, MakesProgress
  <2>6. AnswersDiffs'
    BY <1>1, <1>5 DEF SetInv, AnswersDiffs, Counted, Has, NoBinary
  <2> QED
    BY <2>4, <2>5, <2>6 DEF SetInv
<1> QED
  BY <1>4, <1>5

(* At a "diff --git " line of its own a header is read, *)
LEMMA AtDiffReads ==
  ASSUME SetInv, phase = "header", AtDiff
  PROVE  AtHeader
<1>1. ~Has("diff --git ")
  BY DEF AtDiff, Has, NoHeader, HeaderStarts
<1> QED
  BY <1>1 DEF AtHeader, AtDiff, InHeader, IsDiffGit, HeaderStarts

(* and what a header says is kept. *)
LEMMA TakenHeader ==
  ASSUME SetInv, TakeHeader
  PROVE  /\ StartOf(text[pos + 1]) \in HeaderStarts
         /\ header' \in Headers
         /\ \A s \in HeaderStarts : Has(s)' <=> Has(s) \/ s = StartOf(text[pos + 1])
         /\ header'.binaryAt = IF StartOf(text[pos + 1]) = "GIT binary patch" THEN pos
                               ELSE header.binaryAt
<1> DEFINE l == text[pos + 1]
           s == l.body[1]
           f == [header.field EXCEPT ![s] = <<l.body[2]>>]
           at == IF s = "GIT binary patch" THEN pos ELSE header.binaryAt
<1>1. AtHeader /\ header' = [field |-> f, binaryAt |-> at]
  BY DEF TakeHeader
<1>2. StartOf(l) \in HeaderStarts /\ pos < Len(text)
  BY <1>1 DEF AtHeader, InHeader
<1>3. l \in PatchLine
  BY <1>2, SetNumbers
<1>4. StartOf(l) = s
  <2>1. "none" \notin HeaderStarts
    BY DEF HeaderStarts
  <2> HIDE DEF l
  <2> QED BY <1>2, <2>1 DEF StartOf
<1>5. l.body[2] \in Seq(Byte)
  <2> HIDE DEF l
  <2> QED BY <1>3 DEF PatchLine, Bodies
<1>6. header.field \in [HeaderStarts -> Seq(Seq(Byte))] /\ header.binaryAt \in Nat
  BY DEF SetInv, SetType, Headers
<1>7. at \in Nat
  <2> HIDE DEF s
  <2> QED BY <1>6, SetNumbers
<1>8. f \in [HeaderStarts -> Seq(Seq(Byte))]
  <2>1. <<l.body[2]>> \in Seq(Seq(Byte))
    <3> HIDE DEF l
    <3> QED BY <1>5
  <2> HIDE DEF l, s
  <2> QED BY <1>6, <2>1
<1>9. \A t \in HeaderStarts : f[t] # <<>> <=> header.field[t] # <<>> \/ t = s
  <2> HIDE DEF l, s
  <2>1. <<l.body[2]>> # <<>>
    OBVIOUS
  <2> QED BY <1>6, <2>1
<1>10. header'.field = f /\ header'.binaryAt = at
  <2> HIDE DEF f, at
  <2> QED BY <1>1
<1>11. header' \in Headers
  <2> HIDE DEF f, at
  <2> QED BY <1>1, <1>7, <1>8 DEF Headers
<1>12. \A t \in HeaderStarts : Has(t)' <=> Has(t) \/ t = s
  <2> HIDE DEF f, at, s
  <2> QED BY <1>9, <1>10 DEF Has
<1> HIDE DEF s, f
<1> QED
  BY <1>2, <1>4, <1>10, <1>11, <1>12

(* TakeHeader: a line more of the headers, the first of them the diff's. *)
LEMMA TakeHeaderKeeps ==
  ASSUME SetInv, TakeHeader
  PROVE  SetInv'
<1> DEFINE s == StartOf(text[pos + 1])
<1>1. /\ phase = "header" /\ phase' = "header" /\ pos' = pos + 1 /\ offset' = offset
      /\ text' = text /\ format' = format /\ foundAny' = foundAny /\ items' = items
      /\ result' = result
  BY DEF TakeHeader, AtHeader, inputVars, parserVars
<1>2. IsDiffGit(text[pos + 1]) => ~Has("diff --git ")
  BY DEF TakeHeader, AtHeader, InHeader
<1>3. pos + 1 \in 1..Len(text)
  <2>1. pos < Len(text)
    BY DEF TakeHeader, AtHeader
  <2> HIDE DEF s
  <2> QED
    BY <2>1, SetNumbers
<1>4. /\ s \in HeaderStarts /\ header' \in Headers
      /\ Has("diff --git ")' <=> Has("diff --git ") \/ s = "diff --git "
      /\ Has("GIT binary patch")' <=> Has("GIT binary patch") \/ s = "GIT binary patch"
      /\ header'.binaryAt = IF s = "GIT binary patch" THEN pos ELSE header.binaryAt
  <2>1. "diff --git " \in HeaderStarts /\ "GIT binary patch" \in HeaderStarts
    BY DEF HeaderStarts
  <2>2. \A t \in HeaderStarts : Has(t)' <=> Has(t) \/ t = s
    BY TakenHeader
  <2>3. Has("diff --git ")' <=> Has("diff --git ") \/ s = "diff --git "
    BY <2>1, <2>2
  <2>4. Has("GIT binary patch")' <=> Has("GIT binary patch") \/ s = "GIT binary patch"
    BY <2>1, <2>2
  <2> QED
    BY <2>3, <2>4, TakenHeader
<1>5. IsDiffGit(text[pos + 1]) <=> s = "diff --git "
  BY DEF IsDiffGit
<1>6. format = "GitDiff" /\ (AtDiff \/ PastDiff) /\ offset <= pos /\ foundAny
  <2>1. format = "GitDiff" /\ (AtDiff \/ PastDiff) /\ foundAny
    BY <1>1 DEF SetInv, Advances
  <2>2. AtDiff => pos = offset
    BY DEF AtDiff
  <2>3. PastDiff => offset < pos
    BY DEF PastDiff
  <2>4. offset <= pos
    BY <2>1, <2>2, <2>3, SetNumbers
  <2> QED BY <2>1, <2>4
<1>7. AtDiff => s = "diff --git " /\ ~Has("GIT binary patch")
  <2>1. AtDiff => IsDiffGit(text[pos + 1])
    BY DEF AtDiff
  <2>2. AtDiff => header = NoHeader
    BY DEF AtDiff
  <2>3. ASSUME header = NoHeader PROVE ~Has("GIT binary patch")
    BY <2>3 DEF Has, NoHeader, HeaderStarts
  <2> QED BY <1>5, <2>1, <2>2, <2>3
<1>8. SetType' /\ MakesProgress' /\ EndOfItems' = EndOfItems
      /\ NoBinary' = NoBinary /\ Len(items) \in Nat
  <2>1. foundAny \in BOOLEAN
    BY DEF SetInv, SetType
  <2>2. offset \in 0..Len(text) /\ result \in Results
    BY DEF SetInv, SetType, Results
  <2>3. pos + 1 \in 0..Len(text)
    BY <1>3
  <2> HIDE DEF s
  <2> QED
    BY <1>1, <1>4, <2>1, <2>2, <2>3, ItemsKept
<1> HIDE DEF s
<1>9. PastDiff'
  <2>1. offset' < pos'
    BY <1>1, <1>6, SetNumbers
  <2>2. Has("diff --git ")'
    BY <1>4, <1>6, <1>7 DEF PastDiff
  <2>3. Has("GIT binary patch")' => offset' <= header'.binaryAt
    <3>1. CASE s = "GIT binary patch"
      BY <1>1, <1>4, <1>6, <3>1
    <3>2. CASE s # "GIT binary patch"
      BY <1>1, <1>4, <1>6, <1>7, <3>2 DEF PastDiff
    <3> QED BY <3>1, <3>2
  <2> QED
    BY <2>1, <2>2, <2>3 DEF PastDiff
<1>10. Advances'
  <2>1. EndOfItems <= offset
    BY <1>1 DEF SetInv, Advances
  <2> QED
    BY <1>1, <1>6, <1>8, <1>9, <2>1 DEF Advances
<1>11. AnswersDiffs'
  <2>1. Has("GIT binary patch")' => ~NoBinary'
    <3>1. CASE s = "GIT binary patch"
      <4>1. pos + 1 \in DOMAIN text
        BY <1>3, SetNumbers
      <4>2. StartOf(text[pos + 1]) = "GIT binary patch"
        BY <3>1 DEF s
      <4>3. ~NoBinary
        BY <4>1, <4>2 DEF NoBinary
      <4> QED
        BY <1>8, <4>3
    <3>2. CASE s # "GIT binary patch"
      BY <1>4, <1>8, <3>2 DEF SetInv, AnswersDiffs
    <3> QED BY <3>1, <3>2
  <2>2. NoBinary => Counted'
    <3>1. SUFFICES ASSUME NoBinary PROVE Counted'
      OBVIOUS
    <3>2. Len(items) + (IF offset < pos THEN 1 ELSE 0) = DiffsIn(text, pos)
      BY <1>1, <1>6, <3>1 DEF SetInv, AnswersDiffs, Counted
    <3>3. /\ DiffsIn(text, pos) \in Nat
          /\ DiffsIn(text, pos + 1)
               = DiffsIn(text, pos) + (IF IsDiffGit(text[pos + 1]) THEN 1 ELSE 0)
      BY SetNumbers, DiffsNext
    <3>4. AtDiff => ~(offset < pos) /\ IsDiffGit(text[pos + 1])
      BY SetNumbers DEF AtDiff
    <3>5. PastDiff => offset < pos /\ ~IsDiffGit(text[pos + 1])
      BY <1>2 DEF PastDiff
    <3>6. Len(items) + 1 = DiffsIn(text, pos + 1)
      BY <1>6, <1>8, <3>2, <3>3, <3>4, <3>5
    <3>7. offset' < pos' /\ DiffsIn(text', pos') = DiffsIn(text, pos + 1)
      BY <1>1, <1>6, SetNumbers
    <3> QED
      BY <1>1, <3>6, <3>7 DEF Counted
  <2> QED
    BY <1>1, <1>8, <2>1, <2>2 DEF AnswersDiffs
<1> QED
  BY <1>8, <1>10, <1>11 DEF SetInv

(* EndHeader: the headers are yielded, with a binary patch or without, or  *)
(* parse_one() reads on.                                                   *)
LEMMA EndHeaderKeeps ==
  ASSUME SetInv, EndHeader
  PROVE  SetInv'
<1>1. phase = "header" /\ ~AtHeader
  BY DEF EndHeader
<1>2. /\ format = "GitDiff" /\ PastDiff /\ foundAny /\ EndOfItems <= offset
  BY <1>1, AtDiffReads DEF SetInv, Advances
<1>3. offset < pos
  BY <1>2 DEF PastDiff
<1>4. EndOfItems \in Nat
  <2>1. items # <<>> => Len(items) \in DOMAIN items
    BY DEF SetInv, SetType
  <2>2. items # <<>> => items[Len(items)].at \in Nat
    BY <2>1 DEF SetInv, SetType
  <2> QED
    BY <2>2 DEF EndOfItems
<1>5. EndOfItems < pos
  BY <1>2, <1>3, <1>4, SetNumbers
<1>6. NoBinary => Len(items) + 1 = DiffsIn(text, pos)
  BY <1>1, <1>2, <1>3 DEF SetInv, AnswersDiffs, Counted
<1>7. FileOpGitdiff(<<>>, <<>>).error \in ItemErrors /\ "none" \in ItemErrors
  <2>1. header \in Headers
    BY DEF SetInv, SetType
  <2>2. "none" \in ItemErrors
    BY DEF ItemErrors
  <2> QED
    BY <2>1, <2>2, OperationErrors
<1>8. CASE Has("Binary files ")
  <2>1. /\ Yield("none", FileOpGitdiff(<<>>, <<>>), <<>>, <<>>, pos)
        /\ UNCHANGED <<pos, parserVars>>
    BY <1>8 DEF EndHeader
  <2>2. pos \in 0..Len(text)
    BY DEF SetInv, SetType
  <2> QED
    BY <1>1, <1>2, <1>5, <1>6, <1>7, <2>1, <2>2, YieldKeeps
<1>9. CASE ~Has("Binary files ") /\ Has("GIT binary patch")
  <2> DEFINE b == BinaryPatch(header.binaryAt)
             op == FileOpGitdiff(<<>>, <<>>)
             bs == b.blocks
             be == b.error
             end == b.end
  <2>1. Yield(be, op, <<>>, bs, end) /\ UNCHANGED <<pos, parserVars>>
    BY <1>9 DEF EndHeader
  <2>2. header.binaryAt \in Nat /\ offset <= header.binaryAt
    BY <1>2, <1>9 DEF SetInv, SetType, Headers, PastDiff
  <2>3. end \in {pos} \cup (header.binaryAt + 1..Len(text))
    BY <2>2, SetNumbers, BinaryEnds
  <2>4. be \in ItemErrors
    BY <2>2, SetNumbers, BinaryEnds
  <2>5. op.error \in ItemErrors
    BY <1>7
  <2>6. ~NoBinary
    BY <1>9 DEF SetInv, AnswersDiffs
  <2> HIDE DEF b, op, bs, be, end
  <2>7. end \in 0..Len(text) /\ EndOfItems < end
    BY <1>2, <1>4, <1>5, <2>2, <2>3, SetNumbers
  <2> QED
    BY <1>1, <2>1, <2>4, <2>5, <2>6, <2>7, YieldKeeps
<1>10. CASE ~Has("Binary files ") /\ ~Has("GIT binary patch")
  <2>1. /\ offset' = pos /\ phase' = "patch"
        /\ text' = text /\ format' = format /\ foundAny' = foundAny
        /\ header' = header /\ items' = items
    BY <1>10 DEF EndHeader, inputVars
  <2>2. /\ pos' = pos /\ stage' = "names" /\ ~opts'.rejectOrphans /\ result' = "none"
    BY <1>10 DEF EndHeader, Parser!StartAt, Parser!NoSkipPreamble, Parser!DefaultOpts
  <2>3. SetType' /\ MakesProgress' /\ EndOfItems' = EndOfItems /\ NoBinary' = NoBinary
    <3>1. pos \in 0..Len(text) /\ header \in Headers /\ foundAny \in BOOLEAN
      BY DEF SetInv, SetType
    <3>2. "none" \in Results
      BY DEF Results
    <3> QED
      BY <2>1, <2>2, <3>1, <3>2, ItemsKept
  <2>4. EndOfItems' <= offset' /\ EndOfItems' < offset' /\ offset' <= pos'
    BY <1>4, <1>5, <2>1, <2>2, <2>3, SetNumbers
  <2>5. Advances'
    BY <1>2, <2>1, <2>3, <2>4 DEF Advances
  <2>6. AnswersDiffs'
    <3>1. ~Has("GIT binary patch")'
      BY <1>10, <2>1 DEF Has
    <3>2. DiffsIn(text', pos') = DiffsIn(text, pos)
      BY <2>1, <2>2
    <3>3. NoBinary => Counted'
      BY <1>6, <2>1, <3>2 DEF Counted
    <3> QED
      BY <2>1, <2>2, <2>3, <3>1, <3>3 DEF AnswersDiffs
  <2> QED
    BY <2>3, <2>5, <2>6 DEF SetInv
<1> QED
  BY <1>8, <1>9, <1>10

(* ParseStep: parse_one() takes no line of another diff. *)
LEMMA ParseStepKeeps ==
  ASSUME SetInv, ParseStep
  PROVE  SetInv'
<1>1. /\ phase = "patch" /\ Parser!Next /\ phase' = phase /\ offset' = offset
      /\ format' = format /\ foundAny' = foundAny /\ header' = header /\ items' = items
  BY DEF ParseStep
<1>2. TakesLines
  <2>1. result \in Results /\ pos \in 0..Len(text)
    BY DEF SetInv, SetType, Results
  <2> QED
    BY <1>1, <2>1, SetNumbers, ParserTakes
<1>3. /\ text' = text /\ opts' = opts /\ result' \in Results
      /\ pos' = pos \/ (pos' = pos + 1 /\ pos < Len(text))
  BY <1>2 DEF TakesLines
<1>4. pos' \in Nat /\ pos <= pos' /\ pos' <= Len(text)
  BY <1>3, SetNumbers
<1>5. SetType' /\ MakesProgress' /\ EndOfItems' = EndOfItems /\ NoBinary' = NoBinary
      /\ EndOfItems \in Nat
  <2>1. offset \in 0..Len(text) /\ header \in Headers /\ foundAny \in BOOLEAN
    BY DEF SetInv, SetType
  <2>2. pos' \in 0..Len(text)
    BY <1>4, SetNumbers
  <2> QED
    BY <1>1, <1>3, <2>1, <2>2, ItemsKept
<1>6. foundAny /\ EndOfItems <= offset
  BY <1>1 DEF SetInv, Advances
<1>7. format = "UniDiff" => offset' < pos' \/ AtNames'
  <2>1. SUFFICES ASSUME format = "UniDiff", ~(offset' < pos') PROVE AtNames'
    OBVIOUS
  <2>2. pos' = pos /\ AtNames
    <3>1. ~(offset < pos)
      BY <1>1, <1>4, <2>1, SetNumbers
    <3>2. AtNames
      BY <1>1, <2>1, <3>1 DEF SetInv, Advances
    <3>3. offset <= pos
      BY <3>2 DEF AtNames
    <3> QED
      BY <1>1, <1>3, <2>1, <3>2, <3>3, SetNumbers
  <2>3. stage' = "names" /\ UNCHANGED <<pos, original, modified>>
    BY <1>2, <2>2, SetNumbers DEF TakesLines
  <2> QED
    BY <1>1, <1>3, <2>2, <2>3 DEF AtNames
<1>8. format = "GitDiff" => EndOfItems' < offset' /\ offset' <= pos'
  BY <1>1, <1>4, <1>5, SetNumbers DEF SetInv, Advances
<1>9. Advances'
  BY <1>1, <1>5, <1>6, <1>7, <1>8 DEF Advances
<1>10. format = "GitDiff" => ~Skipping /\ ~opts.rejectOrphans /\ ~Skipping'
  <2>1. format = "GitDiff" => ~Skipping /\ ~opts.rejectOrphans
    BY <1>1 DEF SetInv, AnswersDiffs, Skipping
  <2> QED
    BY <1>2, <2>1 DEF TakesLines
<1>11. format = "GitDiff" /\ NoBinary => Counted'
  <2>1. SUFFICES ASSUME format = "GitDiff", NoBinary PROVE Counted'
    OBVIOUS
  <2>2. Len(items) + 1 = DiffsIn(text, pos)
    BY <1>1, <2>1 DEF SetInv, AnswersDiffs, Counted
  <2>3. pos' = pos \/ ~IsDiffGit(text[pos + 1])
    BY <1>2, <1>10, <2>1 DEF TakesLines
  <2>4. DiffsIn(text, pos') = DiffsIn(text, pos)
    <3>1. CASE pos' = pos
      BY <3>1
    <3>2. CASE pos' # pos
      <4>1. pos' = pos + 1 /\ ~IsDiffGit(text[pos + 1])
        BY <1>3, <2>3, <3>2
      <4>2. /\ DiffsIn(text, pos) \in Nat
            /\ DiffsIn(text, pos + 1)
                 = DiffsIn(text, pos) + (IF IsDiffGit(text[pos + 1]) THEN 1 ELSE 0)
        BY SetNumbers, DiffsNext
      <4> QED
        BY <4>1, <4>2
    <3> QED BY <3>1, <3>2
  <2>5. DiffsIn(text', pos') = DiffsIn(text, pos')
    BY <1>3
  <2> QED
    BY <1>1, <2>2, <2>4, <2>5 DEF Counted
<1>12. AnswersDiffs'
  <2>1. Has("GIT binary patch")' => ~NoBinary'
    BY <1>1, <1>5 DEF SetInv, AnswersDiffs, Has
  <2> QED
    BY <1>1, <1>3, <1>5, <1>10, <1>11, <2>1 DEF AnswersDiffs, Skipping
<1> QED
  BY <1>5, <1>9, <1>12 DEF SetInv

(* YieldPatch: what parse_one() has read, or why it gave up. *)
LEMMA YieldPatchKeeps ==
  ASSUME SetInv, YieldPatch
  PROVE  SetInv'
<1> DEFINE e == IF result = "ok" THEN "none" ELSE result
           op == IF format = "UniDiff" THEN FileOpUnidiff(original, modified)
                 ELSE FileOpGitdiff(original, modified)
<1>1. /\ phase = "patch" /\ stage = "done"
      /\ Yield(e, op, hunks, <<>>, pos) /\ UNCHANGED <<pos, parserVars>>
  BY DEF YieldPatch
<1>2. e \in ItemErrors
  BY DEF SetInv, SetType, ItemErrors
<1>3. op.error \in ItemErrors
  <2>1. header \in Headers
    BY DEF SetInv, SetType
  <2>2. FileOpUnidiff(original, modified).error \in ItemErrors
    BY <2>1, OperationErrors
  <2>3. FileOpGitdiff(original, modified).error \in ItemErrors
    BY <2>1, OperationErrors
  <2> QED BY <2>2, <2>3
<1> HIDE DEF e, op
<1>4. EndOfItems < pos
  <2>1. EndOfItems \in Nat /\ EndOfItems <= offset
    <3>1. items # <<>> => Len(items) \in DOMAIN items
      BY DEF SetInv, SetType
    <3>2. items # <<>> => items[Len(items)].at \in Nat
      BY <3>1 DEF SetInv, SetType
    <3>3. EndOfItems <= offset
      BY <1>1 DEF SetInv, Advances
    <3> QED
      BY <3>2, <3>3 DEF EndOfItems
  <2>2. CASE format = "UniDiff"
    <3>1. offset < pos
      BY <1>1, <2>2 DEF SetInv, Advances, AtNames
    <3> QED
      BY <2>1, <3>1, SetNumbers
  <2>3. CASE format = "GitDiff"
    <3>1. EndOfItems < offset /\ offset <= pos
      BY <1>1, <2>3 DEF SetInv, Advances
    <3> QED
      BY <2>1, <3>1, SetNumbers
  <2> QED
    BY <2>2, <2>3, SetNumbers
<1>5. format = "GitDiff" /\ NoBinary => Len(items) + 1 = DiffsIn(text, pos)
  BY <1>1 DEF SetInv, AnswersDiffs, Counted
<1>6. pos \in 0..Len(text)
  BY DEF SetInv, SetType
<1> QED
  BY <1>1, <1>2, <1>3, <1>4, <1>5, <1>6, YieldKeeps

-----------------------------------------------------------------------------
(* Theorems *)

(* The invariant holds of every call of next(). *)
LEMMA SetInvHolds == Spec => []SetInv
<1>1. SetInv /\ [Next]_svars => SetInv'
  <2>1. ASSUME SetInv, Next PROVE SetInv'
    BY <2>1, FindUnidiffKeeps, FindGitKeeps, FindNothingKeeps, TakeHeaderKeeps,
      EndHeaderKeeps, ParseStepKeeps, YieldPatchKeeps DEF Next
  <2>2. ASSUME SetInv, UNCHANGED svars PROVE SetInv'
    <3>1. /\ text' = text /\ format' = format /\ phase' = phase /\ offset' = offset
          /\ foundAny' = foundAny /\ header' = header /\ items' = items /\ pos' = pos
          /\ opts' = opts /\ stage' = stage /\ original' = original
          /\ modified' = modified /\ result' = result
      BY <2>2 DEF svars, inputVars, parserVars
    <3>2. SetType'
      BY <2>2, <3>1 DEF SetInv, SetType, ItemErrors, Parser!ErrorKinds, Headers
    <3>3. Advances'
      BY <2>2, <3>1 DEF SetInv, Advances, MakesProgress, EndOfItems, AtDiff, PastDiff, AtNames, Has
    <3>4. AnswersDiffs'
      BY <2>2, <3>1 DEF SetInv, AnswersDiffs, NoBinary, Counted, Has
    <3> QED
      BY <3>2, <3>3, <3>4 DEF SetInv
  <2> QED
    BY <2>1, <2>2
<1> QED
  BY <1>1, InitSetInv, PTL DEF Spec

(***************************************************************************)
(* The iterator never leaves the text, keeps of every header the rest of   *)
(* its line, and yields only errors PatchSetParseErrorKind has.            *)
(***************************************************************************)
THEOREM PatchSetTypeCorrect == Spec => []TypeOK
<1>1. SetInv => TypeOK
  BY DEF SetInv, SetType, Headers, TypeOK
<1> QED
  BY <1>1, SetInvHolds, PTL

(***************************************************************************)
(* Whatever the text is, every item next() yields has consumed something,  *)
(* also when parse_one() or the parser of binary patches gave up: a caller *)
(* that goes on after an error never sees it again.                        *)
(***************************************************************************)
THEOREM EveryItemAdvances == Spec => []MakesProgress
<1>1. SetInv => MakesProgress
  BY DEF SetInv, Advances
<1> QED
  BY <1>1, SetInvHolds, PTL

(***************************************************************************)
(* Whatever stands between them, every "diff --git " line of a git diff is *)
(* answered for by one item, a patch or an error.                          *)
(***************************************************************************)
THEOREM EveryDiffAnswered == Spec => []OneItemPerDiff
<1>1. SetInv => OneItemPerDiff
  <2>1. SUFFICES ASSUME SetInv, phase = "done", format = "GitDiff", foundAny, NoBinary
                 PROVE  Len(items) = Cardinality({i \in DOMAIN text : IsDiffGit(text[i])})
    BY DEF OneItemPerDiff, NoBinary
  <2>2. Len(items) = DiffsIn(text, Len(text))
    BY <2>1 DEF SetInv, AnswersDiffs, Counted
  <2>3. DOMAIN text = 1..Len(text)
    BY <2>1, SetNumbers
  <2> QED
    BY <2>2, <2>3 DEF DiffsIn
<1> QED
  BY <1>1, SetInvHolds, PTL

=============================================================================
