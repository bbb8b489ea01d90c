------------------------- MODULE PatchParser_proofs -------------------------
(***************************************************************************)
(* What parse_one() keeps of any text: it stays inside the text, what it   *)
(* returns is well-formed and accounts for the lines it has consumed, and  *)
(* in strict mode no hunk is lost.  And what it returns of a text that the *)
(* formatter has written: the patch that was written.                      *)
(***************************************************************************)
EXTENDS FormatRoundTrip, Alignments_proofs

-----------------------------------------------------------------------------
(* File names *)

(* A step that can be taken anywhere in 1..n, and a function made of such. *)
Lookahead(n, T, len, step) ==
  /\ \A i \in 1..n : len[i] \in 1..n + 1 - i
  /\ \A i \in 1..n : \A x \in T : step[<<i, x>>] \in T
LooksAhead(f, n, base, len, step) ==
  \A i \in 1..n + 1 : f[i] = IF i > n THEN base ELSE step[<<i, f[i + len[i]]>>]

(* A recursive function over 1..n + 1 that looks further on exists: its    *)
(* values are found from the end of the domain to its beginning.           *)
LEMMA LookaheadExists ==
  ASSUME NEW n \in Nat, NEW T, NEW base \in T, NEW len, NEW step,
         Lookahead(n, T, len, step)
  PROVE  \E f \in [1..n + 1 -> T] : LooksAhead(f, n, base, len, step)
<1> USE DEF Lookahead, LooksAhead
<1> DEFINE Fits(f, m) ==
             /\ f \in [n + 1 - m..n + 1 -> T]
             /\ \A i \in n + 1 - m..n + 1 :
                  f[i] = IF i > n THEN base ELSE step[<<i, f[i + len[i]]>>]
           S == {m \in Nat : m <= n => \E f : Fits(f, m)}
<1>1. 0 \in S
  <2> DEFINE g == [i \in n + 1 - 0..n + 1 |-> base]
  <2>1. Fits(g, 0)
    OBVIOUS
  <2> QED BY <2>1
<1>2. ASSUME NEW m \in Nat, m \in S PROVE m + 1 \in S
  <2> HIDE DEF Fits
  <2> SUFFICES ASSUME m + 1 <= n PROVE \E f : Fits(f, m + 1)
    OBVIOUS
  <2>1. PICK f : Fits(f, m)
    BY <1>2
  <2> USE DEF Fits
  <2> DEFINE k == n - m
             g == [i \in n + 1 - (m + 1)..n + 1 |->
                     IF i = k THEN step[<<k, f[k + len[k]]>>] ELSE f[i]]
  <2>2. k \in 1..n /\ k + len[k] \in n + 1 - m..n + 1 /\ n + 1 - (m + 1) = k
    OBVIOUS
  <2>3. f[k + len[k]] \in T
    BY <2>1, <2>2
  <2>4. g[k] = step[<<k, f[k + len[k]]>>] /\ g[k] \in T /\ g[k + len[k]] = f[k + len[k]]
    BY <2>2, <2>3
  <2>5. ASSUME NEW i \in n + 1 - m..n + 1
        PROVE  /\ g[i] = f[i] /\ g[i] \in T
               /\ g[i] = IF i > n THEN base ELSE step[<<i, g[i + len[i]]>>]
    <3>1. i # k /\ i \in n + 1 - (m + 1)..n + 1
      BY <2>2
    <3>2. g[i] = f[i] /\ f[i] \in T
      BY <3>1, <2>1
    <3>3. CASE i > n
      BY <3>2, <3>3, <2>1
    <3>4. CASE ~(i > n)
      <4>1. i \in 1..n /\ i + len[i] \in n + 1 - m..n + 1
        BY <3>4, <2>2
      <4>2. g[i + len[i]] = f[i + len[i]]
        BY <4>1, <2>2
      <4>3. f[i] = step[<<i, f[i + len[i]]>>]
        BY <2>1, <3>4
      <4> QED
        BY <3>2, <3>4, <4>2, <4>3
    <3> QED BY <3>3, <3>4
  <2>6. \A i \in n + 1 - (m + 1)..n + 1 : i = k \/ i \in n + 1 - m..n + 1
    BY <2>2
  <2>7. ~(k > n)
    BY <2>2
  <2>8. Fits(g, m + 1)
    <3> HIDE DEF k
    <3>1. \A i \in n + 1 - (m + 1)..n + 1 : g[i] \in T
      BY <2>4, <2>5, <2>6
    <3>2. g \in [n + 1 - (m + 1)..n + 1 -> T]
      BY <3>1
    <3> HIDE DEF g
    <3>3. \A i \in n + 1 - (m + 1)..n + 1 :
            g[i] = IF i > n THEN base ELSE step[<<i, g[i + len[i]]>>]
      BY <2>4, <2>5, <2>6, <2>7
    <3> QED
      BY <3>2, <3>3
  <2> QED
    BY <2>8
<1> HIDE DEF S
<1>3. n \in S
  BY <1>1, <1>2, NatSetInduction
<1>4. PICK f : Fits(f, n)
  BY SMTT(60), <1>3 DEF S
<1>5. n + 1 - n = 1
  OBVIOUS
<1> QED
  BY <1>4, <1>5

(* ... and what holds of a value if it holds of those further on holds of  *)
(* all of them.                                                            *)
LEMMA LookaheadType ==
  ASSUME NEW n \in Nat, NEW T, NEW f,
         \A i \in 1..n + 1 : (\A j \in i + 1..n + 1 : f[j] \in T) => f[i] \in T
  PROVE  \A i \in 1..n + 1 : f[i] \in T
<1> DEFINE S == {m \in Nat : \A i \in 1..n + 1 : i >= n + 1 - m => f[i] \in T}
<1>1. 0 \in S
  <2>1. \A j \in n + 2..n + 1 : f[j] \in T
    OBVIOUS
  <2>2. n + 1 \in 1..n + 1 /\ n + 1 + 1 = n + 2
    OBVIOUS
  <2>3. f[n + 1] \in T
    BY <2>1, <2>2
  <2> QED BY <2>3
<1>2. ASSUME NEW m \in Nat, m \in S PROVE m + 1 \in S
  <2> SUFFICES ASSUME NEW i \in 1..n + 1, i >= n + 1 - (m + 1) PROVE f[i] \in T
    OBVIOUS
  <2>1. \A j \in i + 1..n + 1 : j \in 1..n + 1 /\ j >= n + 1 - m
    OBVIOUS
  <2>2. \A j \in i + 1..n + 1 : f[j] \in T
    BY <1>2, <2>1
  <2> QED
    BY <2>2
<1> HIDE DEF S
<1>3. n \in S
  BY <1>1, <1>2, NatSetInduction
<1> QED
  BY <1>3 DEF S

NameErrors ==
  {"none", "InvalidUnescapedChar", "ExpectedEscapedChar", "InvalidEscapedChar",
   "InvalidCharInUnquotedFilename", "FilenameUnterminated"}

LineErrors ==
  {"none", "ExpectedEndOfHunk", "TooManyDeletedLines", "TooManyInsertedLines",
   "UnexpectedNoNewlineMarker", "MissingNewline", "UnexpectedHunkLine"}

(* An error is not taken for a result. *)
LEMMA ErrorsAreNotOk ==
  ASSUME NEW e \in NameErrors \cup LineErrors
  PROVE  e \in {"none"} \cup ErrorKinds /\ e # "ok"
BY DEF NameErrors, LineErrors, ErrorKinds

(* A token of a quoted name stays inside the name and stands for a byte. *)
LEMMA TokenType ==
  ASSUME NEW s \in Seq(Byte), NEW i \in 1..Len(s)
  PROVE  /\ TokenError(s, i) \in NameErrors
         /\ TokenLen(s, i) \in 1..Len(s) + 1 - i
         /\ TokenByte(s, i) \in Byte
<1>1. s[i] \in Byte
  OBVIOUS
<1>2. DOMAIN Letters \subseteq Byte
  BY DEF Letters, Byte, Quote, Backslash
<1>3. TokenError(s, i) \in NameErrors
  BY DEF TokenError, NameErrors
<1>4. TokenLen(s, i) \in 1..Len(s) + 1 - i
  BY DEF TokenLen, NamedAt, OctalAt
<1>5. CASE NamedAt(s, i)
  <2>1. \E b \in DOMAIN Letters : Letters[b] = s[i + 1]
    BY <1>5 DEF NamedAt
  <2>2. TokenByte(s, i) \in DOMAIN Letters
    BY <1>5, <2>1 DEF TokenByte
  <2> QED
    BY <1>2, <1>3, <1>4, <2>2
<1>6. CASE ~NamedAt(s, i) /\ OctalAt(s, i)
  <2>1. s[i + 1] \in 48..51 /\ s[i + 2] \in 48..55 /\ s[i + 3] \in 48..55
    BY <1>6 DEF OctalAt
  <2> DEFINE x == s[i + 1]
             y == s[i + 2]
             z == s[i + 3]
  <2>2. TokenByte(s, i) = 64 * (x - 48) + 8 * (y - 48) + z - 48
    BY <1>6 DEF TokenByte
  <2>4. x \in 48..51 /\ y \in 48..55 /\ z \in 48..55
    BY <2>1
  <2> HIDE DEF x, y, z
  <2>3. 64 * (x - 48) + 8 * (y - 48) + z - 48 \in 0..255
    BY <2>4
  <2> QED
    BY <1>3, <1>4, <2>2, <2>3 DEF Byte
<1>7. CASE ~NamedAt(s, i) /\ ~OctalAt(s, i)
  BY <1>1, <1>3, <1>4, <1>7 DEF TokenByte
<1> QED
  BY <1>5, <1>6, <1>7

FirstError(f, s) ==
  f = [i \in 1..Len(s) + 1 |->
        IF i > Len(s) THEN "none"
        ELSE IF TokenError(s, i) # "none" THEN TokenError(s, i) ELSE f[i + TokenLen(s, i)]]

Decodes(f, s) ==
  f = [i \in 1..Len(s) + 1 |->
        IF i > Len(s) THEN <<>> ELSE <<TokenByte(s, i)>> \o f[i + TokenLen(s, i)]]

(* The recursion over the bytes of a name has a solution, ... *)
LEMMA FirstErrorExists ==
  ASSUME NEW s \in Seq(Byte)
  PROVE  \E f : FirstError(f, s)
<1> DEFINE n == Len(s)
           len == [i \in 1..n |-> TokenLen(s, i)]
           step == [p \in (1..n) \X NameErrors |->
                      IF TokenError(s, p[1]) # "none" THEN TokenError(s, p[1]) ELSE p[2]]
<1>1. n \in Nat /\ "none" \in NameErrors
  BY DEF NameErrors
<1>2. \A i \in 1..n : len[i] \in 1..n + 1 - i
  BY TokenType
<1>3. \A i \in 1..n : \A x \in NameErrors : step[<<i, x>>] \in NameErrors
  BY TokenType
<1>4. Lookahead(n, NameErrors, len, step)
  BY <1>2, <1>3 DEF Lookahead
<1>7. \E f \in [1..n + 1 -> NameErrors] : LooksAhead(f, n, "none", len, step)
  <2> HIDE DEF n, len, step
  <2> QED BY <1>1, <1>4, LookaheadExists
<1>5. PICK f \in [1..n + 1 -> NameErrors] :
        \A i \in 1..n + 1 : f[i] = IF i > n THEN "none" ELSE step[<<i, f[i + len[i]]>>]
  BY <1>7 DEF LooksAhead
<1>6. ASSUME NEW i \in 1..n + 1
      PROVE  f[i] = IF i > Len(s) THEN "none"
                    ELSE IF TokenError(s, i) # "none" THEN TokenError(s, i)
                    ELSE f[i + TokenLen(s, i)]
  <2>1. CASE i > n
    BY <1>5, <2>1
  <2>2. CASE ~(i > n)
    <3>1. i \in 1..n /\ len[i] = TokenLen(s, i) /\ i + len[i] \in 1..n + 1
      BY <2>2, <1>2
    <3>2. f[i + TokenLen(s, i)] \in NameErrors
      BY <3>1
    <3>3. f[i] = step[<<i, f[i + TokenLen(s, i)]>>]
      BY <1>5, <2>2, <3>1
    <3> QED
      BY <2>2, <3>1, <3>2, <3>3
  <2> QED BY <2>1, <2>2
<1> QED
  BY <1>6 DEF FirstError

(* ... and so has the one that reads them. *)
LEMMA DecodesExists ==
  ASSUME NEW s \in Seq(Byte)
  PROVE  \E f : Decodes(f, s)
<1> DEFINE n == Len(s)
           T == Seq(Byte)
           len == [i \in 1..n |-> TokenLen(s, i)]
           step == [p \in (1..n) \X T |-> <<TokenByte(s, p[1])>> \o p[2]]
<1>1. n \in Nat /\ <<>> \in T
  OBVIOUS
<1>2. \A i \in 1..n : len[i] \in 1..n + 1 - i
  BY TokenType
<1>3. \A i \in 1..n : \A x \in T : step[<<i, x>>] \in T
  BY TokenType
<1>4. Lookahead(n, T, len, step)
  BY <1>2, <1>3 DEF Lookahead
<1>7. \E f \in [1..n + 1 -> T] : LooksAhead(f, n, <<>>, len, step)
  <2> HIDE DEF n, len, step, T
  <2> QED BY <1>1, <1>4, LookaheadExists
<1>5. PICK f \in [1..n + 1 -> T] :
        \A i \in 1..n + 1 : f[i] = IF i > n THEN <<>> ELSE step[<<i, f[i + len[i]]>>]
  BY <1>7 DEF LooksAhead
<1>6. ASSUME NEW i \in 1..n + 1
      PROVE  f[i] = IF i > Len(s) THEN <<>> ELSE <<TokenByte(s, i)>> \o f[i + TokenLen(s, i)]
  <2>1. CASE i > n
    BY <1>5, <2>1
  <2>2. CASE ~(i > n)
    <3>1. i \in 1..n /\ len[i] = TokenLen(s, i) /\ i + len[i] \in 1..n + 1
      BY <2>2, <1>2
    <3> DEFINE rest == f[i + TokenLen(s, i)]
    <3>2. rest \in T
      BY <3>1
    <3>3. f[i] = step[<<i, rest>>]
      BY <1>5, <2>2, <3>1
    <3> HIDE DEF rest
    <3>4. step[<<i, rest>>] = <<TokenByte(s, i)>> \o rest
      BY <3>1, <3>2
    <3> QED
      BY <2>2, <3>3, <3>4 DEF rest
  <2> QED BY <2>1, <2>2
<1> QED
  BY <1>6 DEF Decodes

(* escaped_filename returns a name, or one of the errors for names. *)
LEMMA EscapedFilenameType ==
  ASSUME NEW s \in Seq(Byte)
  PROVE  EscapedFilename(s) \in [error : NameErrors, name : Seq(Byte)]
<1>1. ASSUME NEW t \in Seq(Byte)
      PROVE  DecodeEscaped(t) \in [error : NameErrors, name : Seq(Byte)]
  <2> DEFINE error == CHOOSE f : FirstError(f, t)
             name == CHOOSE f : Decodes(f, t)
             n == Len(t)
  <2>0. n \in Nat /\ 1 \in 1..n + 1 /\ "none" \in NameErrors
    BY DEF NameErrors
  <2>1. FirstError(error, t) /\ Decodes(name, t)
    BY FirstErrorExists, DecodesExists
  <2>2. DecodeEscaped(t) = IF error[1] # "none" THEN NameRefused(error[1]) ELSE NameRead(name[1])
    BY DEF DecodeEscaped, FirstError, Decodes
  <2> HIDE DEF error, name
  <2>3. ASSUME NEW i \in 1..n + 1, \A j \in i + 1..n + 1 : error[j] \in NameErrors
        PROVE  error[i] \in NameErrors
    <3>1. error[i] = IF i > n THEN "none"
                     ELSE IF TokenError(t, i) # "none" THEN TokenError(t, i)
                     ELSE error[i + TokenLen(t, i)]
      BY <2>1 DEF FirstError
    <3>2. CASE i > n
      BY <3>1, <3>2, <2>0
    <3>3. CASE ~(i > n)
      <4>1. i \in 1..n
        BY <3>3
      <4>2. TokenError(t, i) \in NameErrors /\ TokenLen(t, i) \in 1..n + 1 - i
        BY <4>1, TokenType
      <4>3. i + TokenLen(t, i) \in i + 1..n + 1
        BY <4>1, <4>2
      <4> QED
        BY <3>1, <3>3, <4>2, <4>3, <2>3
    <3> QED BY <3>2, <3>3
  <2>4. error[1] \in NameErrors
    <3> HIDE DEF n
    <3>1. \A i \in 1..n + 1 : error[i] \in NameErrors
      BY <2>0, <2>3, LookaheadType
    <3> QED BY <2>0, <3>1
  <2>5. ASSUME NEW i \in 1..n + 1, \A j \in i + 1..n + 1 : name[j] \in Seq(Byte)
        PROVE  name[i] \in Seq(Byte)
    <3>1. name[i] = IF i > n THEN <<>> ELSE <<TokenByte(t, i)>> \o name[i + TokenLen(t, i)]
      BY <2>1 DEF Decodes
    <3>2. CASE i > n
      BY <3>1, <3>2
    <3>3. CASE ~(i > n)
      <4>1. i \in 1..n
        BY <3>3
      <4>2. TokenByte(t, i) \in Byte /\ TokenLen(t, i) \in 1..n + 1 - i
        BY <4>1, TokenType
      <4>3. i + TokenLen(t, i) \in i + 1..n + 1
        BY <4>1, <4>2
      <4>4. name[i + TokenLen(t, i)] \in Seq(Byte)
        BY <4>3, <2>5
      <4> QED
        BY <3>1, <3>3, <4>2, <4>4
    <3> QED BY <3>2, <3>3
  <2>6. name[1] \in Seq(Byte)
    <3> DEFINE T == Seq(Byte)
    <3> HIDE DEF n, T
    <3>1. \A i \in 1..n + 1 : name[i] \in T
      BY <2>0, <2>5, LookaheadType DEF T
    <3> QED BY <2>0, <3>1 DEF T
  <2> DEFINE e == error[1]
             m == name[1]
  <2> HIDE DEF e, m
  <2>7. NameRefused(e) \in [error : NameErrors, name : Seq(Byte)]
    BY <2>4 DEF NameRefused, e
  <2>8. NameRead(m) \in [error : NameErrors, name : Seq(Byte)]
    BY <2>0, <2>6 DEF NameRead, m
  <2> QED
    BY <2>2, <2>7, <2>8 DEF e, m
<1>2. SubSeq(s, 2, Len(s) - 1) \in Seq(Byte) /\ <<>> \in Seq(Byte)
  OBVIOUS
<1>3. DecodeEscaped(SubSeq(s, 2, Len(s) - 1)) \in [error : NameErrors, name : Seq(Byte)]
  BY <1>1, <1>2
<1>4. /\ NameRead(s) \in [error : NameErrors, name : Seq(Byte)]
      /\ NameRefused("InvalidCharInUnquotedFilename") \in [error : NameErrors, name : Seq(Byte)]
  BY <1>2 DEF NameRead, NameRefused, NameErrors
<1> QED
  BY <1>3, <1>4 DEF EscapedFilename

-----------------------------------------------------------------------------
(* The inductive invariant *)

(* How many hunk headers are among the first n lines of a text. *)
HeadersIn(t, n) == Cardinality({i \in 1..n : IsHunkHeader(t[i])})

OpenHunks ==
  [ranges : {<<>>} \cup (HunkRanges \X HunkRanges), context : Seq(Contents),
   lines : Seq(Lines), unterminated : SUBSET LineKinds]
ParsedHunks ==
  [old : HunkRanges, new : HunkRanges, context : Seq(Contents), lines : Seq(Lines)]

ParserType ==
  /\ text \in Seq(PatchLine) /\ opts \in ParseOpts
  /\ pos \in 0..Len(text)
  /\ stage \in {"preamble", "names", "hunks", "lines", "orphans", "done"}
  /\ original \in Seq(Seq(Byte)) /\ modified \in Seq(Seq(Byte))
  /\ Len(original) <= 1 /\ Len(modified) <= 1
  /\ open \in OpenHunks
  /\ hunks \in Seq(ParsedHunks)
  /\ result \in {"none", "ok"} \cup ErrorKinds

(* Every header that has been consumed has become a hunk or is the one of  *)
(* the hunk that is being read, as long as nothing has gone wrong.         *)
CountsHeaders ==
  stage # "done" \/ result = "ok" =>
    Len(hunks) + (IF stage = "lines" THEN 1 ELSE 0) = HeadersIn(text, pos)

ParserInv ==
  /\ ParserType
  /\ stage = "lines" => open.ranges \in HunkRanges \X HunkRanges
  /\ CountsHeaders
  /\ result = "ok" => stage = "done" /\ (opts.rejectOrphans => pos = Len(text))

-----------------------------------------------------------------------------
(* What lines are taken for *)

(* The next line adds one to the headers seen, or nothing. *)
LEMMA HeadersNext ==
  ASSUME NEW t, NEW n \in Nat
  PROVE  /\ HeadersIn(t, n) \in Nat
         /\ HeadersIn(t, n + 1) = HeadersIn(t, n) + (IF IsHunkHeader(t[n + 1]) THEN 1 ELSE 0)
<1> DEFINE S(m) == {i \in 1..m : IsHunkHeader(t[i])}
<1>1. IsFiniteSet(1..n)
  BY FS_Interval
<1>2. IsFiniteSet(S(n)) /\ n + 1 \notin S(n)
  BY <1>1, FS_Subset
<1>3. CASE IsHunkHeader(t[n + 1])
  <2>1. S(n + 1) = S(n) \cup {n + 1}
    BY <1>3
  <2> HIDE DEF S
  <2>2. Cardinality(S(n + 1)) = Cardinality(S(n)) + 1
    BY <1>2, <2>1, FS_AddElement
  <2> QED
    BY <1>2, <1>3, <2>2, FS_CardinalityType DEF HeadersIn, S
<1>4. CASE ~IsHunkHeader(t[n + 1])
  <2>1. S(n + 1) = S(n)
    BY <1>4
  <2>2. Cardinality(S(n)) \in Nat
    <3> HIDE DEF S
    <3> QED BY <1>2, FS_CardinalityType
  <2> QED
    BY <1>4, <2>1, <2>2 DEF HeadersIn
<1> QED
  BY <1>3, <1>4

(* Before the first line there is no header. *)
LEMMA NoHeadersYet ==
  ASSUME NEW t
  PROVE  HeadersIn(t, 0) = 0
<1>1. {i \in 1..0 : IsHunkHeader(t[i])} = {}
  OBVIOUS
<1> QED
  BY <1>1, FS_EmptySet DEF HeadersIn

(* parse_filename, of a line with any bytes. *)
LEMMA ParseFilenameType ==
  ASSUME NEW l \in PatchLine
  PROVE  ParseFilename(l) \in [error : NameErrors, name : Seq(Byte)]
<1> DEFINE s == l.body[2]
           Tabs == {i \in 1..Len(s) : s[i] = Tab}
           tab == SelectInSeq(s, LAMBDA b : b = Tab)
<1>1. s \in Seq(Byte)
  BY DEF PatchLine, Bodies
<1>2. tab \in 0..Len(s)
  <2>1. CASE Tabs = {}
    BY <1>1, <2>1 DEF SelectInSeq
  <2>2. CASE Tabs # {}
    <3>1. Tabs \subseteq Nat
      BY <1>1
    <3>2. \E x \in Tabs : \A y \in Tabs : x <= y
      <4> HIDE DEF Tabs
      <4> QED BY <2>2, <3>1, LeastNatural
    <3>3. Min(Tabs) \in Tabs
      BY <3>2 DEF Min
    <3>4. tab = Min(Tabs)
      BY <2>2 DEF SelectInSeq
    <3> QED
      BY <1>1, <3>3, <3>4
  <2> QED BY <2>1, <2>2
<1>3. tab # 0 => SubSeq(s, 1, tab - 1) \in Seq(Byte)
  <2> HIDE DEF tab, s
  <2> QED BY <1>1, <1>2
<1>4. NameRefused("FilenameUnterminated") \in [error : NameErrors, name : Seq(Byte)]
  <2>1. <<>> \in Seq(Byte)
    OBVIOUS
  <2> QED BY <2>1 DEF NameRefused, NameErrors
<1>5. ParseFilename(l) =
        IF tab # 0 THEN EscapedFilename(SubSeq(s, 1, tab - 1))
        ELSE IF l.nl THEN EscapedFilename(s) ELSE NameRefused("FilenameUnterminated")
  BY DEF ParseFilename
<1> HIDE DEF tab, s
<1> QED
  BY <1>1, <1>3, <1>4, <1>5, EscapedFilenameType

(* What may be wrong with a line is one of the errors. *)
LEMMA LineErrorType ==
  ASSUME NEW l
  PROVE  LineError(l) \in LineErrors
BY DEF LineError, LineErrors

(* A line that is taken is no header; a marker comes after a line that has *)
(* a newline, and anything else is a line of a hunk.                       *)
LEMMA TakenLine ==
  ASSUME ParserType, InLines, LineError(Peek) = "none"
  PROVE  /\ Peek \in PatchLine /\ ~IsHunkHeader(Peek)
         /\ pos + 1 \in 0..Len(text)
         /\ ~IsMarker(Peek) => KindOf(Peek) \in LineKinds
         /\ IsMarker(Peek) => open.lines # <<>> /\ Last(open.lines).line.nl
<1>1. ~AtEnd /\ Peek.sign \notin {"@@", "@"}
  BY DEF InLines, EndsHunk
<1>2. pos + 1 \in 1..Len(text) /\ Peek \in PatchLine
  <2>1. text \in Seq(PatchLine) /\ pos \in 0..Len(text) /\ Len(text) \in Nat
    BY DEF ParserType
  <2>2. pos + 1 \in 1..Len(text)
    BY <1>1, <2>1 DEF AtEnd
  <2> QED
    BY <2>1, <2>2 DEF Peek
<1>3. ASSUME IsMarker(Peek)
      PROVE  open.lines # <<>> /\ Last(open.lines).line.nl
  <2>1. "Context" \notin open.unterminated
    <3> SUFFICES ASSUME "Context" \in open.unterminated PROVE FALSE
      OBVIOUS
    <3>1. Complete
      BY <1>1 DEF LineError
    <3> QED
      BY <1>1, <3>1 DEF InLines, EndsHunk
  <2>2. KindOf(Peek) = "None"
    <3>1. Peek.sign = "\\" /\ BlankLine.sign = "none"
      BY <1>3 DEF IsMarker, BlankLine, TextLine
    <3>2. Peek # BlankLine
      BY <3>1
    <3> QED
      BY <3>1, <3>2 DEF KindOf
  <2> QED
    BY <1>1, <1>3, <2>1, <2>2 DEF LineError
<1>4. ASSUME ~IsMarker(Peek)
      PROVE  KindOf(Peek) \in LineKinds
  <2>1. ~Complete
    BY <1>1, <1>4 DEF InLines, EndsHunk
  <2>2. "Context" \notin open.unterminated
    BY <1>1, <2>1 DEF LineError
  <2>3. KindOf(Peek) # "None"
    BY <1>1, <1>4, <2>1, <2>2 DEF LineError
  <2> QED
    BY <2>3 DEF KindOf, LineKinds
<1>5. ~IsHunkHeader(Peek) /\ pos + 1 \in 0..Len(text)
  BY <1>1, <1>2 DEF IsHunkHeader
<1> QED
  BY <1>2, <1>3, <1>4, <1>5

-----------------------------------------------------------------------------
(* Every step keeps the invariant *)

(* The facts about the line at hand, and about the rest if there is none. *)
LEMMA PeekFacts ==
  ASSUME ParserType
  PROVE  /\ Len(text) \in Nat /\ pos \in Nat
         /\ ~AtEnd => pos + 1 \in 0..Len(text) /\ Peek \in PatchLine
         /\ AtEnd => pos = Len(text)
<1>1. text \in Seq(PatchLine) /\ pos \in 0..Len(text) /\ Len(text) \in Nat
  BY DEF ParserType
<1>2. ~AtEnd => pos + 1 \in 1..Len(text)
  BY <1>1 DEF AtEnd
<1> QED
  BY <1>1, <1>2 DEF AtEnd, Peek

(* To go past a line that is no hunk header changes no count. *)
LEMMA PastOther ==
  ASSUME ParserType, ~AtEnd, ~IsHunkHeader(Peek)
  PROVE  HeadersIn(text, pos + 1) = HeadersIn(text, pos)
<1>1. pos \in Nat
  BY PeekFacts
<1>2. /\ HeadersIn(text, pos) \in Nat
      /\ HeadersIn(text, pos + 1) = HeadersIn(text, pos) + 0
  BY <1>1, HeadersNext DEF Peek
<1> QED
  BY <1>2

(* Only the position moves, to a line of the text. *)
LEMMA SkipPreambleInv ==
  ASSUME ParserInv, SkipPreamble
  PROVE  ParserInv'
<1> USE DEF ParserInv, SkipPreamble, input
<1>1. ParserType'
  BY PeekFacts DEF ParserType, Advance
<1>2. CountsHeaders'
  <2>1. CASE ~AtEnd /\ ~IsFileHeader(Peek) /\ ~IsHunkHeader(Peek)
    BY <2>1, PastOther DEF CountsHeaders, Advance
  <2>2. CASE ~(~AtEnd /\ ~IsFileHeader(Peek) /\ ~IsHunkHeader(Peek))
    BY <2>2 DEF CountsHeaders
  <2> QED BY <2>1, <2>2
<1> QED
  BY <1>1, <1>2

(* The line is a header, and its name is read. *)
LEMMA TakeNameInv ==
  ASSUME ParserInv, TakeName
  PROVE  ParserInv'
<1> USE DEF ParserInv, TakeName, AtName, input
<1>1. Peek \in PatchLine /\ pos + 1 \in 0..Len(text) /\ ~IsHunkHeader(Peek)
  BY PeekFacts DEF IsHunkHeader, IsFileHeader, IsOriginalHeader, IsModifiedHeader
<1> DEFINE name == ParseFilename(Peek).name
<1>2. name \in Seq(Byte)
  BY <1>1, ParseFilenameType
<1> HIDE DEF name
<1>3. <<name>> \in Seq(Seq(Byte)) /\ Len(<<name>>) <= 1
  BY <1>2
<1>4. ParserType'
  <2>1. original' \in Seq(Seq(Byte)) /\ Len(original') <= 1
    BY <1>3 DEF ParserType, name
  <2>2. modified' \in Seq(Seq(Byte)) /\ Len(modified') <= 1
    BY <1>3 DEF ParserType, name
  <2> QED
    BY <1>1, <2>1, <2>2 DEF ParserType, Advance
<1>5. CountsHeaders'
  BY <1>1, PastOther DEF CountsHeaders, Advance
<1> QED
  BY <1>4, <1>5

(* It ends in an error. *)
LEMMA RefuseNameInv ==
  ASSUME ParserInv, RefuseName
  PROVE  ParserInv' /\ stage' = "done" /\ result' # "ok"
<1> USE DEF ParserInv, RefuseName, AtName, input
<1>1. Peek \in PatchLine /\ pos + 1 \in 0..Len(text)
  BY PeekFacts
<1>2. NameError(Peek) \in NameErrors
  BY <1>1, ParseFilenameType DEF NameError
<1>3. stage' = "done" /\ result' # "ok" /\ result' \in {"none"} \cup ErrorKinds
  <2>1. CASE Twice(Peek)
    BY <2>1 DEF Finish, ErrorKinds
  <2>2. CASE ~Twice(Peek)
    <3>1. stage' = "done" /\ result' = NameError(Peek)
      BY <2>2 DEF Finish
    <3> QED
      BY <3>1, <1>2, ErrorsAreNotOk
  <2> QED BY <2>1, <2>2
<1>4. ParserType'
  BY <1>1, <1>3 DEF ParserType, Advance
<1> QED
  BY <1>3, <1>4 DEF CountsHeaders

(* Nothing has been read that could be a hunk header. *)
LEMMA EndNamesInv ==
  ASSUME ParserInv, EndNames
  PROVE  ParserInv'
BY DEF ParserInv, EndNames, input, ParserType, CountsHeaders

(* The line is a hunk header and is counted with the hunk that is open. *)
LEMMA OpenHunkInv ==
  ASSUME ParserInv, OpenHunk
  PROVE  ParserInv'
<1> USE DEF ParserInv, OpenHunk, AtHunk, input
<1>1. Peek \in PatchLine /\ pos + 1 \in 0..Len(text) /\ IsHunkHeader(Peek)
  BY PeekFacts
<1>2. Peek.ranges \in HunkRanges \X HunkRanges /\ Peek.body \in Bodies /\ Peek.nl \in BOOLEAN
  BY <1>1 DEF PatchLine
<1> DEFINE context == IF Peek.body = Nothing THEN <<>> ELSE <<Content(Peek.body, Peek.nl)>>
<1>3. context \in Seq(Contents)
  <2>1. Content(Peek.body, Peek.nl) \in Contents
    BY <1>2 DEF Content, Contents
  <2> QED
    BY <2>1
<1> HIDE DEF context
<1>4. open' = [ranges |-> Peek.ranges, context |-> context, lines |-> <<>>,
               unterminated |-> {}]
  BY DEF NoHunk, context
<1>5. <<>> \in Seq(Lines) /\ {} \in SUBSET LineKinds
  OBVIOUS
<1> DEFINE ranges == Peek.ranges
           none == <<>>
<1> HIDE DEF ranges, none
<1>10. ranges \in HunkRanges \X HunkRanges /\ none \in Seq(Lines)
  BY <1>2, <1>5 DEF ranges, none
<1>11. open' = [ranges |-> ranges, context |-> context, lines |-> none,
               unterminated |-> {}]
  BY <1>4 DEF ranges, none
<1>6. open' \in OpenHunks /\ open'.ranges \in HunkRanges \X HunkRanges
  <2> HIDE DEF ParserInv, OpenHunk, AtHunk
  <2> QED
    BY <1>3, <1>5, <1>10, <1>11 DEF OpenHunks
<1>7. ParserType'
  BY <1>1, <1>6 DEF ParserType, Advance
<1>8. HeadersIn(text, pos + 1) = HeadersIn(text, pos) + 1
  BY <1>1, PeekFacts, HeadersNext DEF Peek
<1>9. CountsHeaders'
  <2>1. Len(hunks) \in Nat /\ HeadersIn(text, pos) = Len(hunks) /\ result # "ok"
    BY DEF CountsHeaders, ParserType
  <2> QED
    BY <1>8, <2>1 DEF CountsHeaders, Advance
<1> QED
  BY <1>6, <1>7, <1>9

(* It ends in an error. *)
LEMMA RefuseHunkInv ==
  ASSUME ParserInv, RefuseHunk
  PROVE  ParserInv'
<1> USE DEF ParserInv, RefuseHunk, AtHunk, input
<1>1. stage' = "done" /\ result' = "InvalidHunkHeader"
  BY DEF Finish
<1>2. ParserType'
  BY <1>1, PeekFacts DEF ParserType, Advance, ErrorKinds
<1> QED
  BY <1>1, <1>2 DEF CountsHeaders

(* In strict mode the rest is scanned; else nothing is promised. *)
LEMMA EndHunksInv ==
  ASSUME ParserInv, EndHunks
  PROVE  ParserInv'
<1> USE DEF ParserInv, EndHunks, input
<1>1. stage = "hunks" /\ pos' = pos
  OBVIOUS
<1>2. CASE stage' = "orphans" /\ opts.rejectOrphans /\ result' = result
  BY <1>2 DEF ParserType, CountsHeaders
<1>3. CASE stage' = "done" /\ result' = "HunksOutOfOrder"
  BY <1>3 DEF ParserType, CountsHeaders, ErrorKinds
<1>4. CASE stage' = "done" /\ result' = "ok" /\ ~opts.rejectOrphans
  BY <1>4 DEF ParserType, CountsHeaders
<1> QED
  BY <1>2, <1>3, <1>4 DEF Finish

(* What a step leaves alone that adds to the open hunk. *)
LEMMA AddToHunk ==
  ASSUME ParserInv, stage = "lines", InLines, LineError(Peek) = "none", Advance,
         UNCHANGED <<input, stage, original, modified, hunks, result>>,
         open' \in OpenHunks, open'.ranges = open.ranges
  PROVE  ParserInv'
<1> USE DEF ParserInv, input
<1>1. Peek \in PatchLine /\ pos + 1 \in 0..Len(text) /\ ~IsHunkHeader(Peek) /\ ~AtEnd
  BY TakenLine DEF InLines, EndsHunk
<1>2. ParserType'
  BY <1>1 DEF ParserType, Advance
<1>3. CountsHeaders'
  BY <1>1, PastOther DEF CountsHeaders, Advance
<1> QED
  BY <1>2, <1>3

(* A line of the hunk is not a hunk header. *)
LEMMA TakeLineInv ==
  ASSUME ParserInv, TakeLine
  PROVE  ParserInv'
<1>1. ParserType /\ InLines /\ stage = "lines" /\ open \in OpenHunks
  BY DEF ParserInv, ParserType, TakeLine, InLines
<1>2. Peek \in PatchLine /\ KindOf(Peek) \in LineKinds
  BY <1>1, TakenLine DEF TakeLine
<1> DEFINE line == Line(KindOf(Peek), Content(Peek.body, Peek.nl))
<1>3. line \in Lines
  BY <1>2 DEF Line, Lines, Content, Contents, PatchLine
<1> HIDE DEF line
<1>4. open' = [open EXCEPT !.lines = Append(@, line)]
  BY DEF TakeLine, line
<1>5. Append(open.lines, line) \in Seq(Lines)
  BY <1>1, <1>3 DEF OpenHunks
<1>6. open' \in OpenHunks /\ open'.ranges = open.ranges
  BY <1>1, <1>4, <1>5 DEF OpenHunks
<1> QED
  BY <1>1, <1>6, AddToHunk DEF TakeLine

(* Nor is a marker. *)
LEMMA TakeMarkerInv ==
  ASSUME ParserInv, TakeMarker
  PROVE  ParserInv'
<1>1. ParserType /\ InLines /\ stage = "lines" /\ open \in OpenHunks
  BY DEF ParserInv, ParserType, TakeMarker, InLines
<1>2. open.lines # <<>> /\ open.lines \in Seq(Lines)
  BY <1>1, TakenLine DEF TakeMarker, OpenHunks
<1> DEFINE last == Last(open.lines)
           front == Front(open.lines)
           cut == Line(last.kind, Content(last.line.body, FALSE))
           lines == Append(front, cut)
           flags == open.unterminated \cup {last.kind}
<1>3. last \in Lines /\ front \in Seq(Lines)
  BY <1>2 DEF Last, Front
<1>4. open' = [open EXCEPT !.lines = lines, !.unterminated = flags]
  BY DEF TakeMarker
<1> HIDE DEF last, front
<1>5. cut \in Lines /\ last.kind \in LineKinds
  BY <1>3 DEF Line, Lines, Content, Contents
<1> HIDE DEF cut
<1>6. lines \in Seq(Lines)
  BY <1>3, <1>5
<1>7. flags \in SUBSET LineKinds
  BY <1>1, <1>5 DEF OpenHunks
<1> HIDE DEF lines, flags
<1>8. open' \in OpenHunks /\ open'.ranges = open.ranges
  BY <1>1, <1>4, <1>6, <1>7 DEF OpenHunks
<1> QED
  BY <1>1, <1>8, AddToHunk DEF TakeMarker

(* It ends in an error. *)
LEMMA RefuseLineInv ==
  ASSUME ParserInv, RefuseLine
  PROVE  ParserInv' /\ stage' = "done" /\ result' # "ok"
<1> USE DEF ParserInv, RefuseLine, InLines, input
<1>1. LineError(Peek) \in LineErrors
  BY LineErrorType
<1>2. stage' = "done" /\ result' # "ok" /\ result' \in {"none"} \cup ErrorKinds
  <2>1. stage' = "done" /\ result' = LineError(Peek)
    BY DEF Finish
  <2> QED
    BY <1>1, <2>1, ErrorsAreNotOk
<1>3. ParserType'
  BY <1>2 DEF ParserType
<1> QED
  BY <1>2, <1>3 DEF CountsHeaders

(* The open hunk becomes one of the hunks: their number stays right. *)
LEMMA CloseHunkInv ==
  ASSUME ParserInv, CloseHunk
  PROVE  ParserInv'
<1> USE DEF ParserInv, CloseHunk, input
<1>1. NoHunk \in OpenHunks
  <2>1. <<>> \in Seq(Lines) /\ <<>> \in Seq(Contents)
    OBVIOUS
  <2> QED
    BY <2>1 DEF NoHunk, OpenHunks
<1> DEFINE hunk == ParsedHunk(open.ranges, open.context, open.lines)
<1>2. hunk \in ParsedHunks
  BY DEF ParserType, OpenHunks, ParsedHunks, ParsedHunk
<1> HIDE DEF hunk
<1>3. CASE stage' = "hunks"
  <2>1. hunks' = Append(hunks, hunk) /\ result' = result
    BY <1>3 DEF hunk, Finish
  <2>2. hunks' \in Seq(ParsedHunks) /\ Len(hunks') = Len(hunks) + 1 /\ Len(hunks) \in Nat
    BY <1>2, <2>1 DEF ParserType
  <2>3. ParserType'
    BY <1>1, <1>3, <2>1, <2>2 DEF ParserType
  <2>4. CountsHeaders'
    BY <1>3, <2>1, <2>2 DEF CountsHeaders
  <2> QED
    BY <1>3, <2>1, <2>3, <2>4
<1>4. CASE stage' # "hunks"
  <2>1. stage' = "done" /\ result' = "HunkMismatch" /\ hunks' = hunks
    BY <1>4 DEF Finish
  <2>2. ParserType'
    BY <1>1, <2>1 DEF ParserType, ErrorKinds
  <2> QED
    BY <2>1, <2>2 DEF CountsHeaders
<1> QED
  BY <1>3, <1>4

(* The line that is skipped is no hunk header. *)
LEMMA SkipTrailerInv ==
  ASSUME ParserInv, SkipTrailer
  PROVE  ParserInv'
<1> USE DEF ParserInv, SkipTrailer, input
<1>1. CASE AtEnd
  <2>1. pos = Len(text) /\ stage' = "done" /\ result' = "ok" /\ pos' = pos
    BY <1>1, PeekFacts DEF Finish
  <2> QED
    BY <1>1, <2>1 DEF ParserType, CountsHeaders
<1>2. CASE ~AtEnd /\ IsHunkHeader(Peek)
  BY <1>2 DEF ParserType, CountsHeaders, Finish, ErrorKinds
<1>3. CASE ~AtEnd /\ ~IsHunkHeader(Peek)
  <2>1. ParserType'
    BY <1>3, PeekFacts DEF ParserType, Advance
  <2>2. CountsHeaders'
    BY <1>3, PastOther DEF CountsHeaders, Advance
  <2> QED
    BY <1>3, <2>1, <2>2
<1> QED
  BY <1>1, <1>2, <1>3

(* parse_one() starts with a text of any kind of lines. *)
LEMMA BeginInv ==
  ASSUME text \in Seq(PatchLine), opts \in ParseOpts, Begin
  PROVE  ParserInv
<1>1. /\ <<>> \in Seq(Lines) /\ <<>> \in Seq(Contents) /\ Len(<<>>) = 0
      /\ <<>> \in Seq(Seq(Byte)) /\ <<>> \in Seq(ParsedHunks) /\ {} \in SUBSET LineKinds
  OBVIOUS
<1>2. NoHunk \in OpenHunks
  BY <1>1 DEF NoHunk, OpenHunks
<1>3. ParserType
  BY <1>1, <1>2 DEF Begin, ParserType
<1>4. CountsHeaders
  BY <1>1, NoHeadersYet DEF Begin, CountsHeaders
<1> QED
  BY <1>3, <1>4 DEF Begin, ParserInv

(* Every step keeps the invariant. *)
LEMMA NextParserInv ==
  ASSUME ParserInv, [Next]_pvars
  PROVE  ParserInv'
<1>1. CASE Next
  BY <1>1, SkipPreambleInv, TakeNameInv, RefuseNameInv, EndNamesInv, OpenHunkInv,
     RefuseHunkInv, EndHunksInv, TakeLineInv, TakeMarkerInv, RefuseLineInv, CloseHunkInv,
     SkipTrailerInv DEF Next
<1>2. CASE UNCHANGED pvars
  BY <1>2 DEF pvars, ParserInv, ParserType, CountsHeaders
<1> QED
  BY <1>1, <1>2

(* Nothing has been read, so there is nothing to account for. *)
LEMMA InitParserInv ==
  ASSUME Init
  PROVE  ParserInv
BY ParserAssumption, BeginInv DEF Init

(* The types of everything and where the parser stands are kept for ever. *)
LEMMA ParserInvHolds == Spec => []ParserInv
<1>1. Init => ParserInv
  BY InitParserInv
<1>2. ParserInv /\ [Next]_pvars => ParserInv'
  BY NextParserInv
<1> QED
  BY <1>1, <1>2, PTL DEF Spec

(***************************************************************************)
(* Whatever the text, the parser never stands outside it, and the hunks    *)
(* and names it has taken are well-formed.                                 *)
(***************************************************************************)
THEOREM ParserTypeCorrect == Spec => []TypeOK
<1>1. ParserInv => TypeOK
  <2> SUFFICES ASSUME ParserInv PROVE TypeOK
    OBVIOUS
  <2> USE DEF ParserInv
  <2>1. open.lines \in Seq(Lines) /\ open.unterminated \subseteq LineKinds
    BY DEF ParserType, OpenHunks
  <2>2. ASSUME NEW h \in ToSet(hunks)
        PROVE  h.old \in HunkRanges /\ h.new \in HunkRanges /\ h.lines \in Seq(Lines)
    <3>1. h \in ParsedHunks
      BY DEF ParserType, ToSet
    <3> QED
      BY <3>1 DEF ParsedHunks
  <2> QED
    BY <2>1, <2>2 DEF ParserType, TypeOK
<1> QED
  BY <1>1, ParserInvHolds, PTL

(***************************************************************************)
(* reject_orphaned_hunk_headers: what strict mode returns has a hunk for   *)
(* every hunk header of the text.                                          *)
(***************************************************************************)
THEOREM NoHeaderLost == Spec => []NoHunkLost
<1>1. ParserInv => NoHunkLost
  <2> SUFFICES ASSUME ParserInv, result = "ok", opts.rejectOrphans
               PROVE  Len(hunks) = Cardinality({i \in DOMAIN text : IsHunkHeader(text[i])})
    BY DEF NoHunkLost
  <2>1. stage = "done" /\ pos = Len(text) /\ text \in Seq(PatchLine) /\ Len(hunks) \in Nat
    BY DEF ParserInv, ParserType
  <2>2. Len(hunks) + 0 = HeadersIn(text, Len(text))
    BY <2>1 DEF ParserInv, CountsHeaders
  <2>3. DOMAIN text = 1..Len(text)
    BY <2>1
  <2>4. HeadersIn(text, Len(text)) = Cardinality({i \in DOMAIN text : IsHunkHeader(text[i])})
    BY <2>3 DEF HeadersIn
  <2> QED
    BY <2>1, <2>2, <2>4
<1> QED
  BY <1>1, ParserInvHolds, PTL

-----------------------------------------------------------------------------
(* What the consumed lines are spelled as, and what the formatter writes *)

(* A line as it is spelled or written. *)
AnyLine ==
  [sign : Signs, body : Bodies \cup {Nothing}, nl : BOOLEAN,
   ranges : {<<>>} \cup (HunkRanges \X HunkRanges)]

HeaderOf(ranges) == <<[TextLine("@@", Nothing, TRUE) EXCEPT !.ranges = ranges]>>
LineTexts(lines) == [i \in DOMAIN lines |-> FormatLine(lines[i], Plain)]
HunkText(ranges, lines) == Join(HeaderOf(ranges), FlattenSeq(LineTexts(lines)))
Bare(h) == FormatHunk([h EXCEPT !.context = <<>>], Plain)

SpelledFrom(t, from, n) == FlattenSeq([i \in 1..n - from |-> Spelled(t[from + i])])

(* The text of the hunks, with what has been read of the open one. *)
WrittenSoFar ==
  IF stage = "lines" THEN Join(HunksText(hunks), HunkText(open.ranges, open.lines))
  ELSE HunksText(hunks)

Accounted ==
  \E from \in 0..pos :
    /\ \A i \in 1..from : ~IsHunkHeader(text[i])
    /\ SpelledFrom(text, from, pos) = WrittenSoFar

(* Before the first hunk no header has been passed; from then on what has  *)
(* been consumed is accounted for.                                         *)
TextInv ==
  /\ stage \in {"preamble", "names"} =>
       hunks = <<>> /\ \A i \in 1..pos : ~IsHunkHeader(text[i])
  /\ stage = "orphans" => opts.rejectOrphans
  /\ stage \in {"hunks", "lines"} \/ (result = "ok" /\ ~opts.rejectOrphans) => Accounted

(* A row with one more at its end. *)
LEMMA RowAppend ==
  ASSUME NEW T, NEW k \in Nat, NEW g \in [1..k -> T], NEW f \in [1..k + 1 -> T],
         \A i \in 1..k : g[i] = f[i]
  PROVE  /\ g \in Seq(T) /\ f \in Seq(T) /\ f[k + 1] \in T
         /\ f = Append(g, f[k + 1])
<1>1. g \in Seq(T) /\ Len(g) = k /\ f \in Seq(T) /\ Len(f) = k + 1 /\ f[k + 1] \in T
  BY RowIsSeq
<1> DEFINE h == Append(g, f[k + 1])
<1>2. h \in Seq(T) /\ Len(h) = k + 1 /\ h[k + 1] = f[k + 1] /\ \A i \in 1..k : h[i] = g[i]
  BY <1>1
<1> HIDE DEF h
<1>3. \A i \in 1..Len(f) : f[i] = h[i]
  BY <1>1, <1>2
<1>4. f = h
  BY <1>1, <1>2, <1>3, SameElements
<1> QED
  BY <1>1, <1>4 DEF h

(* What a line of the text is made of. *)
LEMMA SpelledType ==
  ASSUME NEW l \in PatchLine
  PROVE  Spelled(l) \in Seq(AnyLine)
<1>1. /\ TextLine("space", Nothing, TRUE) \in AnyLine /\ MarkerLine \in AnyLine
      /\ l \in AnyLine /\ [l EXCEPT !.body = Nothing, !.nl = TRUE] \in AnyLine
      /\ [l EXCEPT !.nl = TRUE] \in AnyLine
  BY DEF AnyLine, TextLine, MarkerLine, PatchLine, Signs
<1> DEFINE a == TextLine("space", Nothing, TRUE)
           b == [l EXCEPT !.body = Nothing, !.nl = TRUE]
           c == [l EXCEPT !.nl = TRUE]
<1>2. \/ Spelled(l) = <<a>> \/ Spelled(l) = <<b>> \/ Spelled(l) = <<MarkerLine>>
      \/ Spelled(l) = <<c, MarkerLine>> \/ Spelled(l) = <<l>>
  <2>1. Spelled(l) = CASE l = BlankLine -> <<a>>
                      [] IsHunkHeader(l) -> <<b>>
                      [] IsMarker(l) -> <<MarkerLine>>
                      [] ~l.nl /\ ~IsMarker(l) /\ ~IsHunkHeader(l) -> <<c, MarkerLine>>
                      [] OTHER -> <<l>>
    BY DEF Spelled
  <2> HIDE DEF a, b, c
  <2> QED
    BY <2>1
<1> HIDE DEF a, b, c
<1>3. a \in AnyLine /\ b \in AnyLine /\ c \in AnyLine /\ l \in AnyLine /\ MarkerLine \in AnyLine
  BY <1>1 DEF a, b, c
<1> HIDE DEF AnyLine
<1>4. /\ <<a>> \in Seq(AnyLine) /\ <<b>> \in Seq(AnyLine) /\ <<MarkerLine>> \in Seq(AnyLine)
      /\ <<c, MarkerLine>> \in Seq(AnyLine) /\ <<l>> \in Seq(AnyLine)
  BY <1>3
<1> QED
  BY <1>2, <1>4

(* One line more is spelled after the others. *)
LEMMA SpelledNext ==
  ASSUME NEW t \in Seq(PatchLine), NEW n \in 0..Len(t), n < Len(t), NEW from \in 0..n
  PROVE  SpelledFrom(t, from, n + 1) = Join(SpelledFrom(t, from, n), Spelled(t[n + 1]))
<1> DEFINE T == Seq(AnyLine)
           k == n - from
           f == [i \in 1..(n + 1) - from |-> Spelled(t[from + i])]
           g == [i \in 1..n - from |-> Spelled(t[from + i])]
<1>1. k \in Nat /\ (n + 1) - from = k + 1 /\ from + (k + 1) = n + 1
  OBVIOUS
<1>2. \A i \in 1..k + 1 : Spelled(t[from + i]) \in T
  <2>1. \A i \in 1..k + 1 : t[from + i] \in PatchLine
    BY <1>1
  <2> QED
    BY <2>1, SpelledType
<1>3. f \in [1..k + 1 -> T] /\ g \in [1..k -> T] /\ \A i \in 1..k : g[i] = f[i]
  <2>1. f = [i \in 1..k + 1 |-> Spelled(t[from + i])] /\ g = [i \in 1..k |-> Spelled(t[from + i])]
    BY <1>1
  <2>2. \A i \in 1..k : i \in 1..k + 1
    BY <1>1
  <2> HIDE DEF T, k, f, g
  <2>3. f \in [1..k + 1 -> T]
    BY <1>2, <2>1
  <2>4. g \in [1..k -> T]
    BY <1>2, <2>1, <2>2
  <2> QED
    BY <2>1, <2>2, <2>3, <2>4
<1>4. f[k + 1] = Spelled(t[n + 1])
  BY <1>1
<1>5. SpelledFrom(t, from, n + 1) = FlattenSeq(f) /\ SpelledFrom(t, from, n) = FlattenSeq(g)
  BY DEF SpelledFrom
<1> HIDE DEF f, g, k
<1>6. g \in Seq(T) /\ f[k + 1] \in T /\ f = Append(g, f[k + 1])
  BY <1>1, <1>3, RowAppend
<1>7. FlattenSeq(f) = Join(FlattenSeq(g), f[k + 1])
  BY SMTT(60), <1>6, FlatAppend
<1> QED
  BY <1>4, <1>5, <1>7

(* No lines spell nothing. *)
LEMMA SpelledNone ==
  ASSUME NEW t, NEW n \in Nat
  PROVE  SpelledFrom(t, n, n) = <<>>
<1>1. [i \in 1..n - n |-> Spelled(t[n + i])] = <<>>
  OBVIOUS
<1> QED
  BY <1>1, FlatEmpty DEF SpelledFrom

(* What is written for a line of a hunk. *)
LEMMA FormatLineType ==
  ASSUME NEW l \in Lines
  PROVE  FormatLine(l, Plain) \in Seq(AnyLine)
<1> DEFINE a == TextLine(SignOf(l.kind), l.line.body, TRUE)
<1>1. a \in AnyLine /\ MarkerLine \in AnyLine
  BY DEF AnyLine, TextLine, MarkerLine, SignOf, Signs, Lines, Contents, LineKinds
<1>2. FormatLine(l, Plain) = <<a>> \o (IF ~l.line.nl THEN <<MarkerLine>> ELSE <<>>)
  BY DEF FormatLine, Plain
<1> HIDE DEF a, AnyLine
<1> QED
  BY <1>1, <1>2

(* One line more of a hunk is written after the others. *)
LEMMA LineTextsNext ==
  ASSUME NEW lines \in Seq(Lines), NEW l \in Lines, NEW more, more = Append(lines, l)
  PROVE  /\ FlattenSeq(LineTexts(lines)) \in Seq(AnyLine)
         /\ FormatLine(l, Plain) \in Seq(AnyLine)
         /\ FlattenSeq(LineTexts(more)) = Join(FlattenSeq(LineTexts(lines)), FormatLine(l, Plain))
<1> DEFINE T == Seq(AnyLine)
           k == Len(lines)
           f == LineTexts(more)
           g == LineTexts(lines)
<1>1. /\ k \in Nat /\ more \in Seq(Lines) /\ DOMAIN lines = 1..k /\ DOMAIN more = 1..k + 1
      /\ more[k + 1] = l /\ \A i \in 1..k : more[i] = lines[i]
  OBVIOUS
<1>2. \A i \in 1..k + 1 : more[i] \in Lines
  BY <1>1
<1>3. f \in [1..k + 1 -> T] /\ g \in [1..k -> T] /\ \A i \in 1..k : g[i] = f[i]
  <2>1. \A i \in 1..k + 1 : FormatLine(more[i], Plain) \in T
    BY <1>2, FormatLineType
  <2> HIDE DEF T, k
  <2> QED
    BY <1>1, <2>1 DEF LineTexts
<1>4. f[k + 1] = FormatLine(l, Plain)
  BY <1>1 DEF LineTexts
<1> HIDE DEF f, g, k
<1>5. g \in Seq(T) /\ f[k + 1] \in T /\ f = Append(g, f[k + 1])
  BY <1>1, <1>3, RowAppend
<1>6. FlattenSeq(f) = Join(FlattenSeq(g), f[k + 1])
  BY <1>5, FlatAppend
<1>7. FlattenSeq(g) \in Seq(AnyLine)
  BY <1>5, FlatAppend
<1> QED
  BY <1>4, <1>5, <1>6, <1>7 DEF f, g

(* For no lines nothing is written. *)
LEMMA NoLineTexts == FlattenSeq(LineTexts(<<>>)) = <<>>
<1>1. LineTexts(<<>>) = <<>>
  BY DEF LineTexts
<1> QED
  BY <1>1, FlatEmpty

(* What is written for all lines of a hunk. *)
LEMMA LineTextsType ==
  ASSUME NEW lines \in Seq(Lines)
  PROVE  FlattenSeq(LineTexts(lines)) \in Seq(AnyLine)
<1> DEFINE T == Seq(AnyLine)
           k == Len(lines)
           g == LineTexts(lines)
<1>1. k \in Nat /\ DOMAIN lines = 1..k /\ \A i \in 1..k : lines[i] \in Lines
  OBVIOUS
<1>2. \A i \in 1..k : FormatLine(lines[i], Plain) \in T
  BY <1>1, FormatLineType
<1>3. g \in [1..k -> T]
  <2> HIDE DEF T, k
  <2> QED
    BY <1>1, <1>2 DEF LineTexts
<1> HIDE DEF g, k
<1>4. g \in Seq(Seq(AnyLine)) /\ <<>> \in Seq(AnyLine)
  BY <1>1, <1>3, RowIsSeq
<1>5. FlattenSeq(g) \in Seq(AnyLine)
  BY <1>4, FlatAppend
<1> QED
  BY <1>5 DEF g

(* A line as its fields, and with other ones. *)
LineOf(sign, body, nl, ranges) == [sign |-> sign, body |-> body, nl |-> nl, ranges |-> ranges]

WithEnd(l, nl) == [l EXCEPT !.nl = nl]
WithBody(l, body) == [l EXCEPT !.body = body]
WithRanges(l, ranges) == [l EXCEPT !.ranges = ranges]

(* The four parts of a line: one of them changed, one lemma for each. *)
LEMMA OtherEnd ==
  ASSUME NEW s, NEW b, NEW n, NEW r, NEW e
  PROVE  WithEnd(LineOf(s, b, n, r), e) = LineOf(s, b, e, r)
BY DEF LineOf, WithEnd

(* another body, *)
LEMMA OtherBody ==
  ASSUME NEW s, NEW b, NEW n, NEW r, NEW c
  PROVE  WithBody(LineOf(s, b, n, r), c) = LineOf(s, c, n, r)
BY DEF LineOf, WithBody

(* other ranges, *)
LEMMA OtherRanges ==
  ASSUME NEW s, NEW b, NEW n, NEW r, NEW q
  PROVE  WithRanges(LineOf(s, b, n, r), q) = LineOf(s, b, n, q)
BY DEF LineOf, WithRanges

(* and none. *)
LEMMA NoRanges ==
  ASSUME NEW s, NEW b, NEW n
  PROVE  TextLine(s, b, n) = LineOf(s, b, n, <<>>)
BY DEF LineOf, TextLine

(* Nothing after a line is that line. *)
LEMMA NoneAfter ==
  ASSUME NEW a
  PROVE  <<a>> \o <<>> = <<a>>
OBVIOUS

(* A line of the text is its four parts. *)
LEMMA LineFields ==
  ASSUME NEW l \in PatchLine
  PROVE  /\ l = LineOf(l.sign, l.body, l.nl, l.ranges)
         /\ l.nl \in BOOLEAN /\ (~IsHunkHeader(l) => l.ranges = <<>>)
BY DEF PatchLine, LineOf

(* A header is spelled as it is written. *)
LEMMA SpelledHeader ==
  ASSUME NEW l \in PatchLine, IsHunkHeader(l)
  PROVE  Spelled(l) = HeaderOf(l.ranges)
<1>1. l # BlankLine
  BY DEF IsHunkHeader, BlankLine, TextLine
<1>2. ~IsMarker(l)
  BY DEF IsHunkHeader, IsMarker
<1> DEFINE b == [l EXCEPT !.body = Nothing, !.nl = TRUE]
<1>3. Spelled(l) = <<b>>
  <2>1. Spelled(l) = CASE l = BlankLine -> <<TextLine("space", Nothing, TRUE)>>
                      [] IsHunkHeader(l) -> <<b>>
                      [] IsMarker(l) -> <<MarkerLine>>
                      [] ~l.nl /\ ~IsMarker(l) /\ ~IsHunkHeader(l) -> <<[l EXCEPT !.nl = TRUE], MarkerLine>>
                      [] OTHER -> <<l>>
    BY DEF Spelled
  <2> HIDE DEF b
  <2> QED
    BY <1>1, <1>2, <2>1
<1>4. b = [TextLine("@@", Nothing, TRUE) EXCEPT !.ranges = l.ranges]
  <2>1. l = LineOf(l.sign, l.body, l.nl, l.ranges) /\ l.sign = "@@"
    BY LineFields DEF IsHunkHeader
  <2>2. WithBody(LineOf(l.sign, l.body, l.nl, l.ranges), Nothing)
          = LineOf(l.sign, Nothing, l.nl, l.ranges)
    BY OtherBody
  <2>3. WithEnd(LineOf(l.sign, Nothing, l.nl, l.ranges), TRUE)
          = LineOf(l.sign, Nothing, TRUE, l.ranges)
    BY ZenonT(60), OtherEnd
  <2>4. WithRanges(LineOf("@@", Nothing, TRUE, <<>>), l.ranges) = LineOf("@@", Nothing, TRUE, l.ranges)
    BY ZenonT(60), OtherRanges
  <2>5. TextLine("@@", Nothing, TRUE) = LineOf("@@", Nothing, TRUE, <<>>)
    BY NoRanges
  <2>6. WithEnd(WithBody(l, Nothing), TRUE) = WithRanges(TextLine("@@", Nothing, TRUE), l.ranges)
    BY <2>1, <2>2, <2>3, <2>4, <2>5
  <2> QED
    BY <2>6 DEF WithEnd, WithBody, WithRanges
<1> QED
  BY <1>3, <1>4 DEF HeaderOf

(* What is written for a hunk header. *)
LEMMA HeaderOfType ==
  ASSUME NEW ranges \in HunkRanges \X HunkRanges
  PROVE  HeaderOf(ranges) \in Seq(AnyLine) /\ ranges = <<ranges[1], ranges[2]>>
<1> DEFINE h == [TextLine("@@", Nothing, TRUE) EXCEPT !.ranges = ranges]
<1>1. h \in AnyLine
  BY DEF AnyLine, TextLine, Signs
<1> HIDE DEF h, AnyLine
<1>2. <<h>> \in Seq(AnyLine)
  BY <1>1
<1> QED
  BY <1>2 DEF h, HeaderOf

(* A line of a hunk is spelled as the formatter writes what it is taken for. *)
LEMMA SpelledLine ==
  ASSUME NEW l \in PatchLine, KindOf(l) \in LineKinds
  PROVE  Spelled(l) = FormatLine(Line(KindOf(l), Content(l.body, l.nl)), Plain)
<1> DEFINE k == KindOf(l)
           a == TextLine(SignOf(k), l.body, TRUE)
<1>1. /\ k = "Context" => l.sign = "space" \/ l = BlankLine
      /\ k = "Delete" => l.sign = "-"
      /\ k = "Insert" => l.sign = "+"
  BY DEF KindOf, LineKinds
<1>2. ~IsHunkHeader(l) /\ ~IsMarker(l)
  BY <1>1 DEF IsHunkHeader, IsMarker, LineKinds, BlankLine, TextLine
<1>3. FormatLine(Line(k, Content(l.body, l.nl)), Plain)
        = <<a>> \o (IF ~l.nl THEN <<MarkerLine>> ELSE <<>>)
  BY DEF FormatLine, Plain, Line, Content
<1> HIDE DEF k
<1>4. CASE l = BlankLine
  <2>1. l.nl = TRUE /\ a = TextLine("space", Nothing, TRUE)
    <3>1. KindOf(l) = "Context"
      BY <1>4, <1>1 DEF BlankLine, TextLine, LineKinds, k
    <3> QED
      BY <1>4, <3>1 DEF k, BlankLine, TextLine, SignOf
  <2>2. Spelled(l) = <<a>>
    <3>1. Spelled(l) = CASE l = BlankLine -> <<TextLine("space", Nothing, TRUE)>>
                        [] IsHunkHeader(l) -> <<[l EXCEPT !.body = Nothing, !.nl = TRUE]>>
                        [] IsMarker(l) -> <<MarkerLine>>
                        [] ~l.nl /\ ~IsMarker(l) /\ ~IsHunkHeader(l) -> <<[l EXCEPT !.nl = TRUE], MarkerLine>>
                        [] OTHER -> <<l>>
      BY DEF Spelled
    <3> HIDE DEF a
    <3> QED
      BY <1>2, <1>4, <2>1, <3>1
  <2> HIDE DEF a
  <2>3. FormatLine(Line(k, Content(l.body, l.nl)), Plain) = <<a>>
    <3>1. FormatLine(Line(k, Content(l.body, l.nl)), Plain) = <<a>> \o <<>>
      BY <1>3, <2>1
    <3> QED
      BY <3>1, NoneAfter
  <2> QED
    BY <2>2, <2>3 DEF k
<1>5. CASE l # BlankLine
  <2>1. a = [l EXCEPT !.nl = TRUE]
    <3>1. l.sign = SignOf(k) /\ l.ranges = <<>>
      BY <1>1, <1>2, <1>5, LineFields DEF SignOf, LineKinds, k
    <3>2. WithEnd(LineOf(l.sign, l.body, l.nl, l.ranges), TRUE) = LineOf(l.sign, l.body, TRUE, l.ranges)
      BY ZenonT(60), OtherEnd
    <3>3. a = LineOf(SignOf(k), l.body, TRUE, <<>>)
      BY NoRanges
    <3>4. l = LineOf(l.sign, l.body, l.nl, l.ranges)
      BY LineFields
    <3> HIDE DEF a
    <3>5. a = WithEnd(l, TRUE)
      BY <3>1, <3>2, <3>3, <3>4
    <3> QED
      BY <3>5 DEF WithEnd
  <2>2. l.nl => a = l
    <3>1. WithEnd(LineOf(l.sign, l.body, l.nl, l.ranges), TRUE) = LineOf(l.sign, l.body, TRUE, l.ranges)
      BY ZenonT(60), OtherEnd
    <3>2. l = LineOf(l.sign, l.body, l.nl, l.ranges) /\ (l.nl => l.nl = TRUE)
      BY LineFields
    <3> HIDE DEF a
    <3>3. a = WithEnd(l, TRUE)
      BY <2>1 DEF WithEnd
    <3> QED
      BY <3>1, <3>2, <3>3
  <2>3. l.nl \in BOOLEAN
    BY LineFields
  <2> HIDE DEF a
  <2>4. CASE l.nl
    <3>1. Spelled(l) = <<l>>
      BY <1>2, <1>5, <2>4 DEF Spelled
    <3>2. FormatLine(Line(k, Content(l.body, l.nl)), Plain) = <<a>>
      BY <1>3, <2>4
    <3> QED
      BY <2>2, <2>4, <3>1, <3>2 DEF k
  <2>5. CASE ~l.nl
    <3>1. Spelled(l) = <<[l EXCEPT !.nl = TRUE], MarkerLine>>
      BY <1>2, <1>5, <2>5 DEF Spelled
    <3>2. FormatLine(Line(k, Content(l.body, l.nl)), Plain) = <<a, MarkerLine>>
      <4>1. FormatLine(Line(k, Content(l.body, l.nl)), Plain) = <<a>> \o <<MarkerLine>>
        BY <1>3, <2>5
      <4>2. <<a>> \o <<MarkerLine>> = <<a, MarkerLine>>
        BY OneAndOne
      <4> QED
        BY <4>1, <4>2
    <3> QED
      BY <2>1, <3>1, <3>2 DEF k
  <2> QED
    BY <2>3, <2>4, <2>5
<1> QED
  BY <1>4, <1>5

(* A marker takes the newline off the line before it: that is written with *)
(* a marker after it.                                                      *)
LEMMA SpelledMarker ==
  ASSUME NEW l \in PatchLine, IsMarker(l), NEW last \in Lines, last.line.nl
  PROVE  FormatLine(Line(last.kind, Content(last.line.body, FALSE)), Plain)
           = Join(FormatLine(last, Plain), Spelled(l))
<1> DEFINE a == TextLine(SignOf(last.kind), last.line.body, TRUE)
<1>1. FormatLine(last, Plain) = <<a>> \o <<>>
  BY DEF FormatLine, Plain
<1>2. FormatLine(Line(last.kind, Content(last.line.body, FALSE)), Plain) = <<a>> \o <<MarkerLine>>
  BY DEF FormatLine, Plain, Line, Content
<1>3. Spelled(l) = <<MarkerLine>>
  <2>1. l # BlankLine /\ ~IsHunkHeader(l)
    BY DEF IsMarker, IsHunkHeader, BlankLine, TextLine
  <2> QED
    BY <2>1 DEF Spelled
<1> HIDE DEF a
<1>4. <<a>> \o <<>> = <<a>>
  OBVIOUS
<1> QED
  BY <1>1, <1>2, <1>3, <1>4 DEF Join

(* What is written for a hunk that has been read. *)
LEMMA BareText ==
  ASSUME NEW ranges \in HunkRanges \X HunkRanges, NEW context, NEW lines \in Seq(Lines)
  PROVE  /\ Bare(ParsedHunk(ranges, context, lines)) = HunkText(ranges, lines)
         /\ HunkText(ranges, lines) \in Seq(AnyLine)
<1> DEFINE h == [ParsedHunk(ranges, context, lines) EXCEPT !.context = <<>>]
<1>1. h.old = ranges[1] /\ h.new = ranges[2] /\ h.context = <<>> /\ h.lines = lines
  BY DEF ParsedHunk
<1>2. HeaderOf(ranges) \in Seq(AnyLine) /\ ranges = <<ranges[1], ranges[2]>>
  BY HeaderOfType
<1> HIDE DEF h
<1>3. FormatHunkHeader(h) = HeaderOf(ranges)
  BY <1>1, <1>2 DEF FormatHunkHeader, HeaderOf
<1>4. FormatHunk(h, Plain) = HunkText(ranges, lines)
  BY <1>1, <1>3 DEF FormatHunk, HunkText, LineTexts, Join
<1>5. FlattenSeq(LineTexts(lines)) \in Seq(AnyLine)
  BY LineTextsType
<1>6. HunkText(ranges, lines) \in Seq(AnyLine)
  BY <1>2, <1>5, JoinAssociates DEF HunkText
<1> QED
  BY <1>4, <1>6 DEF h, Bare

(* What is written for a whole hunk. *)
LEMMA BareType ==
  ASSUME NEW h \in ParsedHunks
  PROVE  Bare(h) \in Seq(AnyLine)
<1>1. <<h.old, h.new>> \in HunkRanges \X HunkRanges /\ h.lines \in Seq(Lines)
  BY DEF ParsedHunks
<1>2. h = ParsedHunk(<<h.old, h.new>>, h.context, h.lines)
  BY DEF ParsedHunks, ParsedHunk
<1> QED
  BY <1>1, <1>2, BareText

(* For one hunk more, its text is written after the others'. *)
LEMMA HunksTextNext ==
  ASSUME NEW hs \in Seq(ParsedHunks), NEW h \in ParsedHunks, NEW more, more = Append(hs, h)
  PROVE  HunksText(more) = Join(HunksText(hs), Bare(h)) /\ HunksText(hs) \in Seq(AnyLine)
<1> DEFINE T == Seq(AnyLine)
           k == Len(hs)
           f == [i \in 1..k + 1 |-> Bare(more[i])]
           g == [i \in 1..k |-> Bare(hs[i])]
<1>1. /\ k \in Nat /\ more \in Seq(ParsedHunks) /\ DOMAIN hs = 1..k /\ DOMAIN more = 1..k + 1
      /\ more[k + 1] = h /\ \A i \in 1..k : more[i] = hs[i]
  OBVIOUS
<1>2. \A i \in 1..k + 1 : more[i] \in ParsedHunks
  BY <1>1
<1>3. ASSUME NEW p \in ParsedHunks PROVE Bare(p) \in T
  BY BareType
<1>4. \A i \in 1..k : g[i] = f[i]
  BY <1>1
<1>5. f \in [1..k + 1 -> T]
  <2> HIDE DEF T, k
  <2> QED
    BY <1>2, <1>3
<1>6. g \in [1..k -> T]
  <2>1. \A i \in 1..k : hs[i] \in ParsedHunks
    OBVIOUS
  <2> HIDE DEF T, k
  <2> QED
    BY <1>3, <2>1
<1>7. f[k + 1] = Bare(h)
  BY <1>1
<1>8. HunksText(more) = FlattenSeq(f) /\ HunksText(hs) = FlattenSeq(g)
  <2> HIDE DEF k
  <2> QED
    BY <1>1 DEF HunksText, Bare
<1> HIDE DEF f, g, k
<1>9. g \in Seq(T) /\ f[k + 1] \in T /\ f = Append(g, f[k + 1])
  BY <1>1, <1>4, <1>5, <1>6, RowAppend
<1>10. FlattenSeq(f) = Join(FlattenSeq(g), f[k + 1])
  BY <1>9, FlatAppend
<1>11. FlattenSeq(g) \in Seq(AnyLine)
  BY <1>9, FlatAppend
<1> QED
  BY <1>7, <1>8, <1>10, <1>11

(* What is written for all hunks. *)
LEMMA HunksTextType ==
  ASSUME NEW hs \in Seq(ParsedHunks)
  PROVE  HunksText(hs) \in Seq(AnyLine)
<1> DEFINE T == Seq(AnyLine)
           k == Len(hs)
           g == [i \in DOMAIN hs |-> Bare(hs[i])]
<1>1. k \in Nat /\ DOMAIN hs = 1..k /\ \A i \in 1..k : hs[i] \in ParsedHunks
  OBVIOUS
<1>2. g \in [1..k -> T]
  <2>1. \A i \in 1..k : Bare(hs[i]) \in T
    BY <1>1, BareType
  <2> HIDE DEF T, k
  <2> QED
    BY <1>1, <2>1
<1>3. HunksText(hs) = FlattenSeq(g)
  BY DEF HunksText, Bare
<1> HIDE DEF g, k
<1>4. g \in Seq(Seq(AnyLine)) /\ <<>> \in Seq(AnyLine)
  BY <1>1, <1>2, RowIsSeq
<1>5. FlattenSeq(g) \in Seq(AnyLine)
  BY <1>4, FlatAppend
<1> QED
  BY <1>3, <1>5

(* For no hunks nothing is written. *)
LEMMA NoHunksText == HunksText(<<>>) = <<>>
<1>1. [i \in DOMAIN <<>> |-> FormatHunk([<<>>[i] EXCEPT !.context = <<>>], Plain)] = <<>>
  OBVIOUS
<1> QED
  BY <1>1, FlatEmpty DEF HunksText

-----------------------------------------------------------------------------
(* Every step keeps the account *)

(* One line more is consumed, and written. *)
LEMMA AccountedNext ==
  ASSUME ParserInv, Accounted, ~AtEnd, Advance, text' = text,
         WrittenSoFar' = Join(WrittenSoFar, Spelled(Peek))
  PROVE  Accounted'
<1>1. /\ text \in Seq(PatchLine) /\ pos \in 0..Len(text) /\ pos < Len(text) /\ pos' = pos + 1
      /\ Peek = text[pos + 1] /\ Len(text) \in Nat
  BY DEF ParserInv, ParserType, AtEnd, Advance, Peek
<1>2. PICK from \in 0..pos : /\ \A i \in 1..from : ~IsHunkHeader(text[i])
                            /\ SpelledFrom(text, from, pos) = WrittenSoFar
  BY DEF Accounted
<1>3. SpelledFrom(text, from, pos + 1) = Join(SpelledFrom(text, from, pos), Spelled(text[pos + 1]))
  BY <1>1, SpelledNext
<1>4. SpelledFrom(text', from, pos') = WrittenSoFar'
  BY <1>1, <1>2, <1>3
<1>5. from \in 0..pos' /\ \A i \in 1..from : ~IsHunkHeader(text'[i])
  BY <1>1, <1>2
<1> QED
  BY <1>4, <1>5 DEF Accounted

(* No hunk has begun, so there is nothing to account for. *)
LEMMA SkipPreambleText ==
  ASSUME ParserInv, TextInv, SkipPreamble
  PROVE  TextInv'
<1> USE DEF SkipPreamble, input
<1>1. result' # "ok" /\ stage' \in {"preamble", "names"} /\ hunks' = <<>> /\ text' = text
  BY DEF ParserInv, TextInv
<1>2. pos \in Nat /\ \A i \in 1..pos : ~IsHunkHeader(text[i])
  BY PeekFacts DEF ParserInv, TextInv
<1>3. \A i \in 1..pos' : ~IsHunkHeader(text[i])
  <2>1. CASE pos' = pos
    BY <1>2, <2>1
  <2>2. CASE pos' = pos + 1 /\ ~IsHunkHeader(Peek)
    BY <1>2, <2>2 DEF Peek
  <2> QED
    BY <2>1, <2>2 DEF Advance
<1> QED
  BY <1>1, <1>3 DEF TextInv

(* Nor has one here. *)
LEMMA TakeNameText ==
  ASSUME ParserInv, TextInv, TakeName
  PROVE  TextInv'
<1> USE DEF TakeName, input, AtName
<1>1. result' # "ok" /\ stage' = "names" /\ hunks' = <<>> /\ text' = text /\ pos' = pos + 1
  BY DEF ParserInv, TextInv, Advance
<1>2. pos \in Nat /\ \A i \in 1..pos : ~IsHunkHeader(text[i])
  BY PeekFacts DEF ParserInv, TextInv
<1>3. ~IsHunkHeader(text[pos + 1])
  BY DEF IsFileHeader, IsOriginalHeader, IsModifiedHeader, IsHunkHeader, Peek
<1>4. \A i \in 1..pos' : ~IsHunkHeader(text[i])
  BY <1>1, <1>2, <1>3
<1> QED
  BY <1>1, <1>4 DEF TextInv

(* What has been refused is not accounted for. *)
LEMMA RefusedText ==
  ASSUME stage' = "done", result' # "ok"
  PROVE  TextInv'
BY DEF TextInv

(* The text is accounted for from this line on. *)
LEMMA EndNamesText ==
  ASSUME ParserInv, TextInv, EndNames
  PROVE  TextInv'
<1> USE DEF EndNames, input
<1>1. /\ hunks' = <<>> /\ text' = text /\ pos' = pos /\ stage' = "hunks" /\ pos \in Nat
      /\ \A i \in 1..pos : ~IsHunkHeader(text[i])
  BY PeekFacts DEF ParserInv, TextInv
<1>2. SpelledFrom(text', pos, pos') = WrittenSoFar'
  BY <1>1, SpelledNone, NoHunksText DEF WrittenSoFar
<1>3. Accounted'
  BY <1>1, <1>2 DEF Accounted
<1> QED
  BY <1>1, <1>3 DEF TextInv

(* What was written for the header is the line. *)
LEMMA OpenHunkText ==
  ASSUME ParserInv, TextInv, OpenHunk
  PROVE  TextInv'
<1> USE DEF OpenHunk, AtHunk, input
<1>1. /\ Accounted /\ ~AtEnd /\ Advance /\ text' = text /\ hunks' = hunks
      /\ stage' = "lines" /\ stage = "hunks"
  BY DEF TextInv
<1>2. open'.ranges = Peek.ranges /\ open'.lines = <<>>
  BY DEF NoHunk
<1>3. Peek \in PatchLine /\ Peek.ranges \in HunkRanges \X HunkRanges
  BY PeekFacts DEF ParserInv, PatchLine
<1>4. Spelled(Peek) = HeaderOf(Peek.ranges) /\ HeaderOf(Peek.ranges) \in Seq(AnyLine)
  BY <1>3, SpelledHeader, HeaderOfType
<1>5. HunkText(open'.ranges, open'.lines) = Spelled(Peek)
  <2>1. Join(HeaderOf(Peek.ranges), <<>>) = HeaderOf(Peek.ranges)
    <3> HIDE DEF OpenHunk
    <3> QED
      BY <1>4 DEF Join
  <2> QED
    BY <1>2, <1>4, <2>1, NoLineTexts DEF HunkText
<1>6. WrittenSoFar' = Join(WrittenSoFar, Spelled(Peek))
  BY <1>1, <1>5 DEF WrittenSoFar
<1>7. Accounted'
  BY <1>1, <1>6, AccountedNext
<1> QED
  BY <1>1, <1>7 DEF TextInv

(* From here on nothing is added to the patch. *)
LEMMA EndHunksText ==
  ASSUME ParserInv, TextInv, EndHunks
  PROVE  TextInv'
<1> USE DEF EndHunks, input
<1>1. /\ stage = "hunks" /\ Accounted /\ text' = text /\ pos' = pos /\ hunks' = hunks
      /\ stage' # "lines" /\ stage' \in {"orphans", "done"} /\ opts' = opts
  BY DEF TextInv, Finish
<1>2. Accounted'
  BY <1>1 DEF Accounted, WrittenSoFar
<1>3. stage' = "orphans" => opts'.rejectOrphans
  BY <1>1 DEF Finish
<1> QED
  BY <1>1, <1>2, <1>3 DEF TextInv

(* The lines of the open hunk end with the line at hand. *)
LEMMA OneLineMore ==
  ASSUME ParserInv, TextInv, stage = "lines", stage' = "lines", ~AtEnd, Advance, text' = text,
         hunks' = hunks, open'.ranges = open.ranges,
         FlattenSeq(LineTexts(open'.lines)) = Join(FlattenSeq(LineTexts(open.lines)), Spelled(Peek))
  PROVE  TextInv'
<1> DEFINE before == HunksText(hunks)
           header == HeaderOf(open.ranges)
           lines == FlattenSeq(LineTexts(open.lines))
           last == Spelled(Peek)
<1>1. /\ header \in Seq(AnyLine) /\ lines \in Seq(AnyLine) /\ last \in Seq(AnyLine)
      /\ before \in Seq(AnyLine)
  <2>1. open.ranges \in HunkRanges \X HunkRanges /\ open.lines \in Seq(Lines)
    BY DEF ParserInv, ParserType, OpenHunks
  <2>2. Peek \in PatchLine /\ hunks \in Seq(ParsedHunks)
    BY PeekFacts DEF ParserInv, ParserType
  <2> QED
    BY <2>1, <2>2, HeaderOfType, LineTextsType, SpelledType, HunksTextType
<1>2. WrittenSoFar = Join(before, Join(header, lines))
  BY DEF WrittenSoFar, HunkText
<1>3. WrittenSoFar' = Join(before, Join(header, Join(lines, last)))
  BY DEF WrittenSoFar, HunkText
<1> HIDE DEF before, header, lines, last
<1>4. Join(Join(header, lines), last) = Join(header, Join(lines, last)) /\ Join(header, lines) \in Seq(AnyLine)
  BY <1>1, JoinAssociates
<1>5. Join(Join(before, Join(header, lines)), last) = Join(before, Join(Join(header, lines), last))
  BY <1>1, <1>4, JoinAssociates
<1>6. WrittenSoFar' = Join(WrittenSoFar, last)
  BY <1>2, <1>3, <1>4, <1>5
<1>7. Accounted'
  BY <1>6, AccountedNext DEF TextInv, last
<1> QED
  BY <1>7 DEF TextInv

(* What is written for the line is the line, blank or not. *)
LEMMA TakeLineText ==
  ASSUME ParserInv, TextInv, TakeLine
  PROVE  TextInv'
<1> DEFINE line == Line(KindOf(Peek), Content(Peek.body, Peek.nl))
<1>1. /\ stage = "lines" /\ stage' = "lines" /\ ~AtEnd /\ Advance /\ text' = text /\ hunks' = hunks
      /\ ParserType /\ InLines /\ LineError(Peek) = "none" /\ ~IsMarker(Peek)
  BY DEF TakeLine, InLines, EndsHunk, input, ParserInv
<1>2. Peek \in PatchLine /\ KindOf(Peek) \in LineKinds
  BY <1>1, TakenLine
<1>3. line \in Lines
  BY <1>2 DEF Line, Lines, Content, Contents, PatchLine
<1>4. Spelled(Peek) = FormatLine(line, Plain)
  BY <1>2, SpelledLine
<1> HIDE DEF line
<1>5. open' = [open EXCEPT !.lines = Append(@, line)]
  BY DEF TakeLine, line
<1>6. open.lines \in Seq(Lines) /\ open'.lines = Append(open.lines, line) /\ open'.ranges = open.ranges
  BY <1>1, <1>5 DEF ParserType, OpenHunks
<1>7. FlattenSeq(LineTexts(open'.lines)) = Join(FlattenSeq(LineTexts(open.lines)), FormatLine(line, Plain))
  BY <1>3, <1>6, LineTextsNext
<1> QED
  BY <1>1, <1>4, <1>6, <1>7, OneLineMore

(* The marker belongs to the line before it, which is now written without
   its newline. *)
LEMMA TakeMarkerText ==
  ASSUME ParserInv, TextInv, TakeMarker
  PROVE  TextInv'
<1> DEFINE last == Last(open.lines)
           front == Front(open.lines)
           cut == Line(last.kind, Content(last.line.body, FALSE))
<1>1. /\ stage = "lines" /\ stage' = "lines" /\ ~AtEnd /\ Advance /\ text' = text /\ hunks' = hunks
      /\ ParserType /\ InLines /\ LineError(Peek) = "none" /\ IsMarker(Peek)
  BY DEF TakeMarker, InLines, EndsHunk, input, ParserInv
<1>2. Peek \in PatchLine /\ open.lines # <<>> /\ last.line.nl /\ open.lines \in Seq(Lines)
  BY <1>1, TakenLine DEF ParserType, OpenHunks
<1>3. last \in Lines /\ front \in Seq(Lines) /\ open.lines = Append(front, last)
  BY <1>2 DEF Last, Front
<1>4. open' = [open EXCEPT !.lines = Append(front, cut),
                          !.unterminated = open.unterminated \cup {last.kind}]
  BY DEF TakeMarker
<1> HIDE DEF last, front
<1>5. cut \in Lines
  BY <1>3 DEF Line, Lines, Content, Contents
<1>6. FormatLine(cut, Plain) = Join(FormatLine(last, Plain), Spelled(Peek))
  BY <1>1, <1>2, <1>3, SpelledMarker
<1> HIDE DEF cut
<1>7. open'.lines = Append(front, cut) /\ open'.ranges = open.ranges
  BY <1>1, <1>4 DEF ParserType, OpenHunks
<1> DEFINE fronts == FlattenSeq(LineTexts(front))
           a == FormatLine(last, Plain)
           b == Spelled(Peek)
<1>8. FlattenSeq(LineTexts(open.lines)) = Join(fronts, a)
  BY <1>3, LineTextsNext
<1>9. FlattenSeq(LineTexts(open'.lines)) = Join(fronts, FormatLine(cut, Plain))
  BY <1>3, <1>5, <1>7, LineTextsNext
<1>10. fronts \in Seq(AnyLine) /\ a \in Seq(AnyLine) /\ b \in Seq(AnyLine)
  BY <1>2, <1>3, LineTextsType, FormatLineType, SpelledType
<1> HIDE DEF fronts, a
<1>11. Join(fronts, Join(a, b)) = Join(Join(fronts, a), b)
  <2> HIDE DEF b
  <2> QED
    BY <1>10, JoinAssociates
<1>12. FlattenSeq(LineTexts(open'.lines)) = Join(FlattenSeq(LineTexts(open.lines)), Spelled(Peek))
  BY <1>6, <1>8, <1>9, <1>11 DEF a
<1> QED
  BY <1>1, <1>7, <1>12, OneLineMore

(* The text of the open hunk becomes that of the last hunk. *)
LEMMA CloseHunkText ==
  ASSUME ParserInv, TextInv, CloseHunk
  PROVE  TextInv'
<1> USE DEF CloseHunk, input
<1>1. CASE stage' # "hunks"
  <2>1. stage' = "done" /\ result' = "HunkMismatch"
    BY <1>1 DEF Finish
  <2> QED
    BY <2>1, RefusedText
<1>2. CASE stage' = "hunks"
  <2> DEFINE hunk == ParsedHunk(open.ranges, open.context, open.lines)
  <2>1. hunks' = Append(hunks, hunk) /\ text' = text /\ pos' = pos /\ stage = "lines" /\ opts' = opts
    BY <1>2 DEF Finish
  <2>2. /\ hunk \in ParsedHunks /\ hunks \in Seq(ParsedHunks)
        /\ open.ranges \in HunkRanges \X HunkRanges /\ open.lines \in Seq(Lines)
    BY DEF ParserInv, ParserType, OpenHunks, ParsedHunks, ParsedHunk
  <2>3. Bare(hunk) = HunkText(open.ranges, open.lines)
    BY <2>2, BareText
  <2> HIDE DEF hunk
  <2>4. HunksText(hunks') = Join(HunksText(hunks), Bare(hunk))
    BY <2>1, <2>2, HunksTextNext
  <2>5. WrittenSoFar' = WrittenSoFar
    BY <1>2, <2>1, <2>3, <2>4 DEF WrittenSoFar
  <2>6. Accounted
    BY <2>1 DEF TextInv
  <2>7. Accounted'
    BY <2>1, <2>5, <2>6 DEF Accounted
  <2> QED
    BY <1>2, <2>7 DEF TextInv
<1> QED
  BY <1>1, <1>2

(* What is skipped is behind the patch. *)
LEMMA SkipTrailerText ==
  ASSUME ParserInv, TextInv, SkipTrailer
  PROVE  TextInv'
<1>1. opts'.rejectOrphans /\ stage' \in {"orphans", "done"}
  BY DEF TextInv, SkipTrailer, input, Finish
<1> QED
  BY <1>1 DEF TextInv

(* Every step keeps the invariant. *)
LEMMA NextTextInv ==
  ASSUME ParserInv, TextInv, [Next]_pvars
  PROVE  TextInv'
<1>1. CASE RefuseName \/ RefuseLine \/ RefuseHunk
  <2>1. stage' = "done" /\ result' # "ok"
    BY <1>1, RefuseNameInv, RefuseLineInv DEF RefuseHunk, Finish
  <2> QED
    BY <2>1, RefusedText
<1>2. CASE UNCHANGED pvars
  BY <1>2 DEF pvars, TextInv, Accounted, WrittenSoFar
<1> QED
  BY <1>1, <1>2, SkipPreambleText, TakeNameText, EndNamesText, OpenHunkText, EndHunksText,
     TakeLineText, TakeMarkerText, CloseHunkText, SkipTrailerText DEF Next

(***************************************************************************)
(* The parser is faithful: of the text of any patch that is accepted, what *)
(* has been consumed from the first hunk on is what the formatter writes   *)
(* for the hunks that are returned, whatever their number and their lines. *)
(***************************************************************************)
THEOREM TextIsAccountedFor == Spec => []AccountsForText
<1>1. Init => TextInv
  BY DEF Init, Begin, TextInv
<1>2. ParserInv /\ TextInv /\ [Next]_pvars => TextInv'
  BY NextTextInv
<1>3. ParserInv /\ TextInv => AccountsForText
  <2> SUFFICES ASSUME ParserInv, TextInv, result = "ok", ~opts.rejectOrphans
               PROVE  \E from \in 0..pos :
                        /\ SpelledFrom(text, from, pos) = HunksText(hunks)
                        /\ \A i \in 1..from : ~IsHunkHeader(text[i])
    BY DEF AccountsForText, SpelledFrom
  <2>1. Accounted /\ stage = "done"
    BY DEF ParserInv, TextInv
  <2> QED
    BY <2>1 DEF Accounted, WrittenSoFar
<1> QED
  BY <1>1, <1>2, <1>3, ParserInvHolds, PTL DEF Spec


-----------------------------------------------------------------------------
(* Names are read back *)

(* A row that has been joined from three, and what stands at its places. *)
JoinedFrom(s, a, b, c) == s = Join(Join(a, b), c)
HasParts(s, a, b, c) ==
  /\ Len(s) = Len(a) + Len(b) + Len(c)
  /\ Len(a) \in Nat /\ Len(b) \in Nat /\ Len(c) \in Nat
  /\ \A j \in 1..Len(a) : s[j] = a[j]
  /\ \A j \in 1..Len(b) : s[Len(a) + j] = b[j]
  /\ \A j \in 1..Len(c) : s[Len(a) + Len(b) + j] = c[j]

LEMMA JoinedElements ==
  ASSUME NEW T, NEW a \in Seq(T), NEW b \in Seq(T), NEW c \in Seq(T), NEW s, JoinedFrom(s, a, b, c)
  PROVE  s \in Seq(T) /\ HasParts(s, a, b, c)
BY DEF JoinedFrom, HasParts, Join

(* What a byte is written as: the escape has a name, or is octal, or the   *)
(* byte stands for itself.  No tab is written.                             *)
LEMMA EscapedByteType ==
  ASSUME NEW b \in Byte
  PROVE  /\ EscapedByte(b) \in Seq(Byte)
         /\ \A j \in 1..Len(EscapedByte(b)) : EscapedByte(b)[j] # Tab
<1>1. CASE b \in DOMAIN Letters
  <2>1. Letters[b] \in {97, 98, 116, 110, 118, 102, 114, 34, 92}
    BY <1>1 DEF Letters, Quote, Backslash
  <2> DEFINE x == Letters[b]
  <2>2. EscapedByte(b) = <<92, x>>
    BY <1>1 DEF EscapedByte, Backslash
  <2> HIDE DEF x
  <2>3. x \in 0..255 /\ x # 9
    BY <2>1 DEF x
  <2> QED
    BY <2>2, <2>3 DEF Byte, Tab
<1>2. CASE b \notin DOMAIN Letters /\ NeedsQuoting(b)
  <2> DEFINE x == b \div 64
             y == (b \div 8) % 8
             z == b % 8
  <2>1. EscapedByte(b) = <<92, 48 + x, 48 + y, 48 + z>>
    BY <1>2 DEF EscapedByte, Backslash
  <2>2. x \in 0..3 /\ y \in 0..7 /\ z \in 0..7
    BY DEF Byte
  <2> HIDE DEF x, y, z
  <2>3. 48 + x \in 48..51 /\ 48 + y \in 48..55 /\ 48 + z \in 48..55
    BY <2>2
  <2> QED
    BY <2>1, <2>3 DEF Byte, Tab
<1>3. CASE b \notin DOMAIN Letters /\ ~NeedsQuoting(b)
  BY <1>3 DEF EscapedByte, NeedsQuoting, Byte, Tab
<1> QED
  BY <1>1, <1>2, <1>3

(* The letters of the named escapes. *)
LEMMA LettersAre ==
  /\ DOMAIN Letters = {7, 8, 9, 10, 11, 12, 13, 34, 92}
  /\ Letters[7] = 97 /\ Letters[8] = 98 /\ Letters[9] = 116 /\ Letters[10] = 110
  /\ Letters[11] = 118 /\ Letters[12] = 102 /\ Letters[13] = 114
  /\ Letters[34] = 34 /\ Letters[92] = 92
<1>1. 7..13 = {7, 8, 9, 10, 11, 12, 13}
  OBVIOUS
<1>2. DOMAIN Letters = {7, 8, 9, 10, 11, 12, 13, 34, 92}
  BY <1>1 DEF Letters, Quote, Backslash
<1>3. Letters[34] = 34 /\ Letters[92] = 92
  BY DEF Letters, Quote, Backslash
<1> DEFINE row == <<97, 98, 116, 110, 118, 102, 114>>
<1>4. /\ row[1] = 97 /\ row[2] = 98 /\ row[3] = 116 /\ row[4] = 110
      /\ row[5] = 118 /\ row[6] = 102 /\ row[7] = 114
  OBVIOUS
<1>5. \A b \in 7..13 : Letters[b] = row[b - 6]
  BY DEF Letters, Quote, Backslash
<1> HIDE DEF row
<1>6. /\ Letters[7] = row[1] /\ Letters[8] = row[2] /\ Letters[9] = row[3] /\ Letters[10] = row[4]
      /\ Letters[11] = row[5] /\ Letters[12] = row[6] /\ Letters[13] = row[7]
  BY <1>5
<1> QED
  BY <1>2, <1>3, <1>4, <1>6

(* The digits of an octal escape. *)
LEMMA OctalDigits ==
  ASSUME NEW b \in Byte
  PROVE  /\ b \div 64 \in 0..3 /\ (b \div 8) % 8 \in 0..7 /\ b % 8 \in 0..7
         /\ 64 * (b \div 64) + 8 * ((b \div 8) % 8) + (b % 8) = b
<1>1. b \in 0..255
  BY DEF Byte
<1> DEFINE x == b \div 64
           q == b \div 8
           z == b % 8
           y == q % 8
<1>2. x \in Int /\ 64 * x <= b /\ b < 64 * x + 64
  BY <1>1
<1>3. q \in Int /\ z \in 0..7 /\ b = 8 * q + z
  BY <1>1
<1>4. q \in 0..31 /\ y \in 0..7 /\ \E r \in Int : q = 8 * r + y
  <2>1. q \in 0..31
    BY <1>1, <1>3
  <2> HIDE DEF q
  <2>2. y \in 0..7 /\ q = 8 * (q \div 8) + y /\ q \div 8 \in Int
    BY <2>1
  <2> QED BY <2>1, <2>2
<1> HIDE DEF x, q, z, y
<1>5. PICK r \in Int : q = 8 * r + y
  BY <1>4
<1>6. r = x
  BY <1>1, <1>2, <1>3, <1>4, <1>5
<1>7. x \in 0..3 /\ y \in 0..7 /\ z \in 0..7 /\ 64 * x + 8 * y + z = b
  BY <1>1, <1>2, <1>3, <1>4, <1>5, <1>6
<1> QED
  BY <1>7 DEF x, y, z, q

(* The token that a byte has been written as is read as this byte. *)
LEMMA EscapedToken ==
  ASSUME NEW b \in Byte, NEW s \in Seq(Byte), NEW i \in 1..Len(s),
         i + Len(EscapedByte(b)) - 1 <= Len(s),
         \A j \in 1..Len(EscapedByte(b)) : s[i + j - 1] = EscapedByte(b)[j]
  PROVE  /\ TokenError(s, i) = "none"
         /\ TokenLen(s, i) = Len(EscapedByte(b))
         /\ TokenByte(s, i) = b
<1>0. s[i] = s[i + 1 - 1] /\ i + 2 - 1 = i + 1 /\ i + 3 - 1 = i + 2 /\ i + 4 - 1 = i + 3
  OBVIOUS
<1>1. CASE b \in DOMAIN Letters
  <2> DEFINE x == Letters[b]
  <2>1. EscapedByte(b) = <<92, x>>
    BY <1>1 DEF EscapedByte, Backslash
  <2> HIDE DEF x
  <2>2. s[i] = 92 /\ s[i + 1] = x /\ i < Len(s) /\ Len(EscapedByte(b)) = 2
    <3>1. Len(EscapedByte(b)) = 2 /\ EscapedByte(b)[1] = 92 /\ EscapedByte(b)[2] = x
      BY <2>1
    <3>2. s[i + 1 - 1] = EscapedByte(b)[1] /\ s[i + 2 - 1] = EscapedByte(b)[2] /\ i < Len(s)
      BY <3>1
    <3> QED BY <1>0, <3>1, <3>2
  <2>3. NamedAt(s, i)
    BY <1>1, <2>2 DEF NamedAt, Backslash, x
  <2>4. TokenByte(s, i) = CHOOSE c \in DOMAIN Letters : Letters[c] = x
    BY <2>2, <2>3 DEF TokenByte
  <2>5. \A c \in DOMAIN Letters : Letters[c] = x => c = b
    BY SMTT(30), <1>1, LettersAre DEF x
  <2>6. TokenByte(s, i) = b
    BY <1>1, <2>4, <2>5 DEF x
  <2> QED
    BY <2>2, <2>3, <2>6 DEF TokenError, TokenLen, Backslash
<1>2. CASE b \notin DOMAIN Letters /\ NeedsQuoting(b)
  <2> DEFINE x == b \div 64
             y == (b \div 8) % 8
             z == b % 8
  <2>1. EscapedByte(b) = <<92, 48 + x, 48 + y, 48 + z>>
    BY <1>2 DEF EscapedByte, Backslash
  <2>2. x \in 0..3 /\ y \in 0..7 /\ z \in 0..7 /\ 64 * x + 8 * y + z = b
    BY OctalDigits
  <2> HIDE DEF x, y, z
  <2>3. /\ s[i] = 92 /\ s[i + 1] = 48 + x /\ s[i + 2] = 48 + y /\ s[i + 3] = 48 + z
        /\ i + 3 <= Len(s) /\ Len(EscapedByte(b)) = 4
    <3>1. /\ Len(EscapedByte(b)) = 4 /\ EscapedByte(b)[1] = 92 /\ EscapedByte(b)[2] = 48 + x
          /\ EscapedByte(b)[3] = 48 + y /\ EscapedByte(b)[4] = 48 + z
      BY <2>1
    <3>2. /\ s[i + 1 - 1] = EscapedByte(b)[1] /\ s[i + 2 - 1] = EscapedByte(b)[2]
          /\ s[i + 3 - 1] = EscapedByte(b)[3] /\ s[i + 4 - 1] = EscapedByte(b)[4]
          /\ i + 3 <= Len(s)
      BY <3>1
    <3> QED BY <1>0, <3>1, <3>2
  <2>4. ASSUME NEW c \in DOMAIN Letters PROVE Letters[c] \notin 48..51
    <3>1. \/ c = 7 \/ c = 8 \/ c = 9 \/ c = 10 \/ c = 11 \/ c = 12 \/ c = 13 \/ c = 34 \/ c = 92
      BY LettersAre
    <3>2. /\ 97 \notin 48..51 /\ 98 \notin 48..51 /\ 116 \notin 48..51 /\ 110 \notin 48..51
          /\ 118 \notin 48..51 /\ 102 \notin 48..51 /\ 114 \notin 48..51
          /\ 34 \notin 48..51 /\ 92 \notin 48..51
      OBVIOUS
    <3> DEFINE x1 == Letters[c]
    <3>3. \/ x1 = 97 \/ x1 = 98 \/ x1 = 116 \/ x1 = 110 \/ x1 = 118 \/ x1 = 102 \/ x1 = 114
          \/ x1 = 34 \/ x1 = 92
      BY <3>1, LettersAre
    <3> HIDE DEF x1
    <3>4. x1 \notin 48..51
      BY SMTT(30), <3>2, <3>3
    <3> QED BY <3>4 DEF x1
  <2>9. s[i + 1] \in 48..51
    BY <2>2, <2>3
  <2>5. ~NamedAt(s, i)
    BY <2>4, <2>9 DEF NamedAt
  <2>6. OctalAt(s, i)
    BY <2>2, <2>3 DEF OctalAt, Backslash
  <2>7. TokenByte(s, i) = 64 * (s[i + 1] - 48) + 8 * (s[i + 2] - 48) + s[i + 3] - 48
    BY <2>5, <2>6 DEF TokenByte
  <2>8. TokenByte(s, i) = b
    BY <2>2, <2>3, <2>7
  <2> QED
    BY <2>3, <2>5, <2>6, <2>8 DEF TokenError, TokenLen, Backslash
<1>3. CASE b \notin DOMAIN Letters /\ ~NeedsQuoting(b)
  <2>1. EscapedByte(b) = <<b>> /\ b # 92
    BY <1>3 DEF EscapedByte, NeedsQuoting, Backslash
  <2>2. s[i] = b /\ Len(EscapedByte(b)) = 1
    <3>1. Len(EscapedByte(b)) = 1 /\ EscapedByte(b)[1] = b
      BY <2>1
    <3>2. s[i + 1 - 1] = EscapedByte(b)[1]
      BY <3>1
    <3> QED BY <1>0, <3>1, <3>2
  <2>3. ~NamedAt(s, i) /\ ~OctalAt(s, i)
    BY <2>1, <2>2 DEF NamedAt, OctalAt, Backslash
  <2> QED
    BY <1>3, <2>1, <2>2, <2>3 DEF TokenError, TokenLen, TokenByte, Backslash
<1> QED
  BY <1>1, <1>2, <1>3

(* What all bytes of a name have been written as is read as this name. *)
LEMMA FlattenedDecodes ==
  ASSUME NEW name \in Seq(Byte), NEW s,
         s = FlattenSeq([i \in DOMAIN name |-> EscapedByte(name[i])])
  PROVE  /\ s \in Seq(Byte) /\ DecodeEscaped(s) = NameRead(name)
         /\ \A i \in 1..Len(s) : s[i] # Tab
<1> DEFINE n == Len(name)
           T == Byte
           rows == [i \in 1..n |-> EscapedByte(name[i])]
           upto(k) == FlattenSeq(SubSeq(rows, 1, k))
           after(k) == FlattenSeq(SubSeq(rows, k + 1, n))
           at(k) == Len(upto(k)) + 1
<1>1. n \in Nat /\ DOMAIN name = 1..n /\ \A k \in 1..n : name[k] \in T
  OBVIOUS
<1>2. /\ rows \in Seq(Seq(T)) /\ Len(rows) = n /\ s = FlattenSeq(rows)
      /\ \A k \in 1..n : rows[k] = EscapedByte(name[k])
  <2>1. \A k \in 1..n : EscapedByte(name[k]) \in Seq(T)
    BY <1>1, EscapedByteType
  <2>2. rows \in [1..n -> Seq(T)]
    BY <2>1
  <2>3. rows \in Seq(Seq(T)) /\ Len(rows) = n
    BY <1>1, <2>2, RowIsSeq
  <2> QED
    BY <1>1, <2>3
<1> HIDE DEF rows
<1>3. \A k \in 0..n : upto(k) \in Seq(T) /\ after(k) \in Seq(T) /\ s = Join(upto(k), after(k))
  <2> SUFFICES ASSUME NEW k \in 0..n
               PROVE  upto(k) \in Seq(T) /\ after(k) \in Seq(T) /\ s = Join(upto(k), after(k))
    OBVIOUS
  <2> DEFINE a == SubSeq(rows, 1, k)
             b == SubSeq(rows, k + 1, n)
             R == Seq(T)
  <2>1. a \in Seq(R) /\ b \in Seq(R) /\ rows = Join(a, b)
    <3>1. k \in 0..Len(rows) /\ b = SubSeq(rows, k + 1, Len(rows))
      BY <1>2
    <3> HIDE DEF R
    <3>2. rows \in Seq(R)
      BY <1>2 DEF R
    <3>3. /\ SubSeq(rows, 1, k) \in Seq(R) /\ SubSeq(rows, k + 1, Len(rows)) \in Seq(R)
          /\ rows = SubSeq(rows, 1, k) \o SubSeq(rows, k + 1, Len(rows))
      BY <3>1, <3>2, CutAt
    <3> QED
      BY <3>1, <3>3 DEF Join
  <2>2. <<>> \in R
    OBVIOUS
  <2> HIDE DEF a, b
  <2>3. FlattenSeq(a) \in Seq(T) /\ FlattenSeq(b) \in Seq(T)
    BY <2>1, <2>2, FlatAppend
  <2>4. FlattenSeq(Join(a, b)) = Join(FlattenSeq(a), FlattenSeq(b))
    BY <2>1, FlatConcat
  <2> QED
    BY <1>2, <2>1, <2>3, <2>4 DEF a, b
<1>4. \A k \in 1..n : upto(k) = Join(upto(k - 1), rows[k])
  <2> SUFFICES ASSUME NEW k \in 1..n PROVE upto(k) = Join(upto(k - 1), rows[k])
    OBVIOUS
  <2> DEFINE m == k - 1
             a == SubSeq(rows, 1, m)
             R == Seq(T)
  <2>1. m \in 0..Len(rows) /\ m < Len(rows) /\ m + 1 = k
    BY <1>2
  <2> HIDE DEF m
  <2>2. a \in Seq(R) /\ rows[k] \in R /\ SubSeq(rows, 1, k) = Append(a, rows[k])
    BY <1>2, <2>1, PrefixNext
  <2> HIDE DEF a
  <2>3. FlattenSeq(SubSeq(rows, 1, k)) = Join(FlattenSeq(a), rows[k])
    <3> DEFINE more == SubSeq(rows, 1, k)
    <3>1. Longer(more, a, rows[k])
      BY <2>2 DEF Longer
    <3> HIDE DEF more
    <3>2. FlattenSeq(more) = Join(FlattenSeq(a), rows[k])
      BY <2>2, <3>1, FlatLonger
    <3> QED BY <3>2 DEF more
  <2> QED
    BY <2>3 DEF a, m
<1>5. at(0) = 1 /\ at(n) = Len(s) + 1 /\ s \in Seq(T) /\ Len(s) \in Nat
  <2>1. SubSeq(rows, 1, 0) = <<>> /\ SubSeq(rows, 1, n) = rows
    BY <1>2, WholeSeq
  <2>2. 0 \in 0..n /\ n \in 0..n
    BY <1>1
  <2>3. upto(n) = s /\ upto(0) = <<>>
    BY <1>2, <2>1, FlatEmpty
  <2>4. s \in Seq(T)
    BY <1>3, <2>2, <2>3
  <2> QED
    BY <2>3, <2>4
<1>6. \A k \in 1..n :
        /\ at(k - 1) \in 1..Len(s)
        /\ TokenError(s, at(k - 1)) = "none"
        /\ at(k - 1) + TokenLen(s, at(k - 1)) = at(k)
        /\ TokenByte(s, at(k - 1)) = name[k]
        /\ TokenLen(s, at(k - 1)) > 0
        /\ at(k) \in 1..Len(s) + 1
  <2> SUFFICES ASSUME NEW k \in 1..n
               PROVE  /\ at(k - 1) \in 1..Len(s)
                      /\ TokenError(s, at(k - 1)) = "none"
                      /\ at(k - 1) + TokenLen(s, at(k - 1)) = at(k)
                      /\ TokenByte(s, at(k - 1)) = name[k]
                      /\ TokenLen(s, at(k - 1)) > 0
                      /\ at(k) \in 1..Len(s) + 1
    OBVIOUS
  <2> DEFINE a == upto(k - 1)
             b == EscapedByte(name[k])
             c == after(k)
             i == Len(a) + 1
  <2>1. k - 1 \in 0..n /\ k \in 0..n
    BY <1>1
  <2>2. a \in Seq(T) /\ c \in Seq(T) /\ b \in Seq(T) /\ upto(k) = Join(a, b) /\ s = Join(Join(a, b), c)
    <3>1. a \in Seq(T) /\ c \in Seq(T)
      BY <1>3, <2>1
    <3>2. b \in Seq(T) /\ rows[k] = b
      BY <1>1, <1>2, EscapedByteType
    <3>3. upto(k) = Join(a, b) /\ s = Join(upto(k), c)
      BY <1>3, <1>4, <2>1, <3>2
    <3> QED BY <3>1, <3>2, <3>3
  <2>3. Len(b) > 0
    BY <1>1 DEF EscapedByte
  <2> HIDE DEF a, b, c, upto, after
  <2>4. /\ s \in Seq(T) /\ Len(s) = Len(a) + Len(b) + Len(c)
        /\ Len(a) \in Nat /\ Len(b) \in Nat /\ Len(c) \in Nat
        /\ \A j \in 1..Len(b) : s[Len(a) + j] = b[j]
    <3> HIDE DEF T
    <3>1. a \in Seq(T) /\ b \in Seq(T) /\ c \in Seq(T) /\ JoinedFrom(s, a, b, c)
      BY <2>2 DEF JoinedFrom
    <3>2. s \in Seq(T) /\ HasParts(s, a, b, c)
      BY <3>1, JoinedElements
    <3> QED
      BY <3>2 DEF HasParts
  <2>5. i \in 1..Len(s) /\ i + Len(b) - 1 <= Len(s)
    BY <2>3, <2>4
  <2>6. \A j \in 1..Len(b) : s[i + j - 1] = b[j]
    <3>1. \A j \in 1..Len(b) : i + j - 1 = Len(a) + j
      BY <2>4
    <3> HIDE DEF i
    <3> QED BY <2>4, <3>1
  <2>7. Len(upto(k)) = Len(a) + Len(b)
    BY <2>2 DEF Join
  <2> HIDE DEF i
  <2>8. TokenError(s, i) = "none" /\ TokenLen(s, i) = Len(b) /\ TokenByte(s, i) = name[k]
    BY <1>1, <2>4, <2>5, <2>6, EscapedToken DEF b
  <2>9. at(k - 1) = i /\ at(k) = i + Len(b) /\ i + Len(b) \in 1..Len(s) + 1
    BY <2>3, <2>4, <2>5, <2>7 DEF a, i
  <2> QED
    BY <2>3, <2>4, <2>5, <2>8, <2>9
<1>7. \A i \in 1..Len(s) : s[i] # Tab
  <2> DEFINE P == {k \in Nat : k <= n => \A i \in 1..Len(upto(k)) : upto(k)[i] # Tab}
  <2>1. 0 \in P
    BY <1>5
  <2>2. ASSUME NEW k \in Nat, k \in P PROVE k + 1 \in P
    <3> SUFFICES ASSUME k + 1 <= n PROVE \A i \in 1..Len(upto(k + 1)) : upto(k + 1)[i] # Tab
      OBVIOUS
    <3> DEFINE a == upto(k)
               b == EscapedByte(name[k + 1])
               c == upto(k + 1)
    <3>1. k + 1 \in 1..n /\ (k + 1) - 1 = k /\ k \in 0..n
      BY <1>1
    <3>2. c = Join(a, b)
      BY <1>2, <1>4, <3>1
    <3>3. a \in Seq(T)
      BY <1>3, <3>1
    <3>4. b \in Seq(T) /\ \A j \in 1..Len(b) : b[j] # Tab
      BY <1>1, <3>1, EscapedByteType
    <3>5. \A i \in 1..Len(a) : a[i] # Tab
      BY <2>2, <3>1
    <3> HIDE DEF a, b, c
    <3>6. \A i \in 1..Len(c) : c[i] # Tab
      <4>1. /\ Len(c) = Len(a) + Len(b) /\ Len(a) \in Nat /\ Len(b) \in Nat
            /\ \A i \in 1..Len(a) + Len(b) : c[i] = IF i <= Len(a) THEN a[i] ELSE b[i - Len(a)]
        BY <3>2, <3>3, <3>4 DEF Join
      <4> SUFFICES ASSUME NEW i \in 1..Len(c) PROVE c[i] # Tab
        OBVIOUS
      <4>2. CASE i <= Len(a)
        BY <3>5, <4>1, <4>2
      <4>3. CASE ~(i <= Len(a))
        <5>1. i - Len(a) \in 1..Len(b)
          BY <4>1, <4>3
        <5> QED BY <3>4, <4>1, <4>3, <5>1
      <4> QED BY <4>2, <4>3
    <3> QED
      BY <3>6 DEF c
  <2> HIDE DEF P
  <2>3. n \in P
    BY <1>1, <2>1, <2>2, NatSetInduction
  <2>4. \A i \in 1..Len(upto(n)) : upto(n)[i] # Tab
    BY <1>1, <2>3 DEF P
  <2>5. upto(n) = s
    BY <1>2, WholeSeq
  <2> QED
    BY <2>4, <2>5
<1> DEFINE error == CHOOSE f : FirstError(f, s)
           decoded == CHOOSE f : Decodes(f, s)
<1>8. FirstError(error, s) /\ Decodes(decoded, s)
  BY <1>5, FirstErrorExists, DecodesExists
<1>9. DecodeEscaped(s) = IF error[1] # "none" THEN NameRefused(error[1]) ELSE NameRead(decoded[1])
  BY DEF DecodeEscaped, FirstError, Decodes
<1> HIDE DEF error, decoded, upto, after
<1>10. \A i \in 1..Len(s) + 1 :
         /\ error[i] = IF i > Len(s) THEN "none"
                       ELSE IF TokenError(s, i) # "none" THEN TokenError(s, i)
                       ELSE error[i + TokenLen(s, i)]
         /\ decoded[i] = IF i > Len(s) THEN <<>>
                         ELSE <<TokenByte(s, i)>> \o decoded[i + TokenLen(s, i)]
  BY <1>8 DEF FirstError, Decodes
<1> HIDE DEF at
<1> DEFINE S == {m \in Nat : m <= n => /\ error[at(n - m)] = "none"
                                       /\ decoded[at(n - m)] = SubSeq(name, n - m + 1, n)}
<1>11. 0 \in S
  <2>1. error[at(n)] = "none" /\ decoded[at(n)] = <<>>
    <3> DEFINE e == Len(s) + 1
    <3>1. e \in 1..Len(s) + 1 /\ e > Len(s) /\ at(n) = e
      BY <1>5
    <3> HIDE DEF e
    <3>2. error[e] = "none" /\ decoded[e] = <<>>
      BY <1>10, <3>1
    <3> QED BY <3>1, <3>2
  <2>2. n - 0 = n /\ SubSeq(name, n - 0 + 1, n) = <<>>
    BY <1>1, WholeSeq
  <2> QED
    BY <2>1, <2>2
<1>12. ASSUME NEW m \in Nat, m \in S PROVE m + 1 \in S
  <2> SUFFICES ASSUME m + 1 <= n
               PROVE  /\ error[at(n - (m + 1))] = "none"
                      /\ decoded[at(n - (m + 1))] = SubSeq(name, n - (m + 1) + 1, n)
    OBVIOUS
  <2> DEFINE k == n - m
             i == at(k - 1)
             rest == SubSeq(name, k + 1, n)
  <2>1. k \in 1..n /\ n - (m + 1) = k - 1 /\ n - (m + 1) + 1 = k /\ m <= n
    BY <1>1
  <2>2. error[at(k)] = "none" /\ decoded[at(k)] = rest
    BY <1>12, <2>1
  <2> HIDE DEF k, rest
  <2>3. /\ i \in 1..Len(s) /\ TokenError(s, i) = "none" /\ i + TokenLen(s, i) = at(k)
        /\ TokenByte(s, i) = name[k]
    BY <1>6, <2>1
  <2> HIDE DEF i
  <2>4. i \in 1..Len(s) + 1 /\ ~(i > Len(s))
    BY <1>5, <2>3
  <2>5. error[i] = "none" /\ decoded[i] = <<name[k]>> \o rest
    BY <1>10, <2>2, <2>3, <2>4
  <2>6. SubSeq(name, k, n) = <<name[k]>> \o SubSeq(name, k + 1, n)
    BY <2>1, CutFront
  <2> QED
    BY <2>1, <2>5, <2>6 DEF i, rest
<1> HIDE DEF S
<1>13. n \in S
  BY <1>1, <1>11, <1>12, NatSetInduction
<1>14. error[1] = "none" /\ decoded[1] = name
  <2>1. error[at(n - n)] = "none" /\ decoded[at(n - n)] = SubSeq(name, n - n + 1, n)
    BY <1>1, <1>13 DEF S
  <2>2. n - n = 0 /\ n - n + 1 = 1
    BY <1>1
  <2>3. SubSeq(name, 1, n) = name
    BY WholeSeq
  <2>4. at(n - n) = 1 /\ SubSeq(name, n - n + 1, n) = name
    BY <1>5, <2>2, <2>3
  <2> QED
    BY <2>1, <2>4
<1> QED
  BY <1>5, <1>7, <1>9, <1>14

(***************************************************************************)
(* utils.rs and patch/mod.rs: Filename::write_into quotes and escapes what *)
(* escaped_filename unquotes and unescapes.  Whatever bytes a file name    *)
(* has, it reads back as it was written.                                   *)
(***************************************************************************)
THEOREM NamesReadBack ==
  ASSUME NEW name \in Seq(Byte)
  PROVE  EscapedFilename(WrittenName(name)) = NameRead(name)
<1>1. CASE HasToBeQuoted(name)
  <2> DEFINE s == FlattenSeq([i \in DOMAIN name |-> EscapedByte(name[i])])
             w == WrittenName(name)
             q == <<Quote>>
  <2>1. s \in Seq(Byte) /\ DecodeEscaped(s) = NameRead(name)
    BY FlattenedDecodes
  <2>2. w = Join(Join(q, s), q)
    BY <1>1 DEF WrittenName, Quoted, Join
  <2>3. q \in Seq(Byte) /\ Len(q) = 1 /\ q[1] = Quote
    BY DEF Quote, Byte
  <2> HIDE DEF s, w, q
  <2>4. /\ w \in Seq(Byte) /\ Len(w) = 1 + Len(s) + 1 /\ Len(s) \in Nat
        /\ \A j \in 1..Len(s) : w[1 + j] = s[j]
        /\ w[1] = Quote /\ w[1 + Len(s) + 1] = Quote
    <3> DEFINE B == Byte
    <3> HIDE DEF B
    <3>1. q \in Seq(B) /\ s \in Seq(B) /\ JoinedFrom(w, q, s, q)
      BY <2>1, <2>2, <2>3 DEF B, JoinedFrom
    <3>2. w \in Seq(B) /\ HasParts(w, q, s, q)
      BY <3>1, JoinedElements
    <3> QED
      BY <2>3, <3>2 DEF B, HasParts
  <2>5. w[1] = Quote /\ w[Len(w)] = Quote /\ Len(w) >= 2
    BY <2>4
  <2>6. SubSeq(w, 2, Len(w) - 1) = s
    <3> DEFINE b == SubSeq(w, 2, Len(w) - 1)
    <3>1. b \in Seq(Byte) /\ Len(b) = Len(s) /\ \A j \in 1..Len(s) : b[j] = w[1 + j]
      BY <2>4
    <3> HIDE DEF b
    <3>2. b = s
      BY <2>1, <2>4, <3>1, SameElements
    <3> QED BY <3>2 DEF b
  <2>7. EscapedFilename(w) = DecodeEscaped(s)
    <3>1. Last(w) = Quote
      BY <2>5 DEF Last
    <3>2. EscapedFilename(w) = DecodeEscaped(SubSeq(w, 2, Len(w) - 1))
      BY <2>5, <3>1 DEF EscapedFilename
    <3> QED BY <2>6, <3>2
  <2> QED
    BY <2>1, <2>7 DEF w
<1>2. CASE ~HasToBeQuoted(name)
  <2>1. WrittenName(name) = name
    BY <1>2 DEF WrittenName
  <2>2. ~(Len(name) >= 2 /\ name[1] = Quote)
    BY <1>2 DEF HasToBeQuoted, NeedsQuoting
  <2> QED
    BY <1>2, <2>1, <2>2 DEF EscapedFilename
<1> QED
  BY <1>1, <1>2

(* Into a string a name is written as into bytes, if it is not quoted or   *)
(* has no byte but ASCII.                                                  *)
LEMMA ShownAsWritten ==
  ASSUME NEW name, NameSurvives(name)
  PROVE  ShownName(name) = WrittenName(name)
<1>1. CASE ~HasToBeQuoted(name)
  BY <1>1 DEF ShownName, WrittenName
<1>2. CASE HasToBeQuoted(name)
  <2>1. \A i \in DOMAIN name : ShownByte(name[i]) = EscapedByte(name[i])
    BY <1>2 DEF NameSurvives, ShownByte
  <2>2. [i \in DOMAIN name |-> ShownByte(name[i])] = [i \in DOMAIN name |-> EscapedByte(name[i])]
    BY <2>1
  <2> QED
    BY <1>2, <2>2 DEF ShownName, WrittenName, Quoted
<1> QED
  BY <1>1, <1>2

(* No tab is written, so the name does not end before the line does. *)
LEMMA NoTabWritten ==
  ASSUME NEW name \in Seq(Byte)
  PROVE  /\ WrittenName(name) \in Seq(Byte)
         /\ \A i \in 1..Len(WrittenName(name)) : WrittenName(name)[i] # Tab
<1>1. CASE HasToBeQuoted(name)
  <2> DEFINE s == FlattenSeq([i \in DOMAIN name |-> EscapedByte(name[i])])
             w == WrittenName(name)
             q == <<Quote>>
  <2>1. s \in Seq(Byte) /\ \A i \in 1..Len(s) : s[i] # Tab
    BY FlattenedDecodes
  <2>2. w = Join(Join(q, s), q)
    BY <1>1 DEF WrittenName, Quoted, Join
  <2>3. q \in Seq(Byte) /\ Len(q) = 1 /\ q[1] = Quote /\ Quote # Tab
    BY DEF Quote, Byte, Tab
  <2> HIDE DEF s, w, q
  <2>4. /\ w \in Seq(Byte) /\ Len(w) = 1 + Len(s) + 1 /\ Len(s) \in Nat
        /\ \A j \in 1..Len(s) : w[1 + j] = s[j]
        /\ w[1] = Quote /\ w[1 + Len(s) + 1] = Quote
    <3> DEFINE B == Byte
    <3> HIDE DEF B
    <3>1. q \in Seq(B) /\ s \in Seq(B) /\ JoinedFrom(w, q, s, q)
      BY <2>1, <2>2, <2>3 DEF B, JoinedFrom
    <3>2. w \in Seq(B) /\ HasParts(w, q, s, q)
      BY <3>1, JoinedElements
    <3> QED
      BY <2>3, <3>2 DEF B, HasParts
  <2>5. ASSUME NEW i \in 1..Len(w) PROVE w[i] # Tab
    <3>1. CASE i = 1 \/ i = 1 + Len(s) + 1
      BY <2>3, <2>4, <3>1
    <3>2. CASE ~(i = 1 \/ i = 1 + Len(s) + 1)
      <4>1. i - 1 \in 1..Len(s) /\ 1 + (i - 1) = i
        BY <2>4, <3>2
      <4>2. w[1 + (i - 1)] = s[i - 1]
        BY <2>4, <4>1
      <4> QED BY <2>1, <4>1, <4>2
    <3> QED BY <3>1, <3>2
  <2> QED
    BY <2>4, <2>5 DEF w
<1>2. CASE ~HasToBeQuoted(name)
  BY <1>2 DEF WrittenName, HasToBeQuoted, NeedsQuoting, Tab, Byte
<1> QED
  BY <1>1, <1>2

-----------------------------------------------------------------------------
(* Texts that are made of rows, and their lines *)

(* What is left of some rows after the first k of them. *)
RowsFrom(rows, k) == FlattenSeq(SubSeq(rows, k + 1, Len(rows)))

(* After the last row nothing is left; before, the next one comes first. *)
LEMMA RowsFromNext ==
  ASSUME NEW T, NEW rows \in Seq(Seq(T)), NEW k \in 0..Len(rows)
  PROVE  /\ RowsFrom(rows, k) \in Seq(T)
         /\ k = Len(rows) => RowsFrom(rows, k) = <<>>
         /\ k < Len(rows) => /\ rows[k + 1] \in Seq(T)
                             /\ RowsFrom(rows, k) = Join(rows[k + 1], RowsFrom(rows, k + 1))
<1> DEFINE R == Seq(T)
           n == Len(rows)
<1>0. n \in Nat /\ <<>> \in R
  OBVIOUS
<1>1. \A m \in 0..n : RowsFrom(rows, m) \in Seq(T)
  <2> SUFFICES ASSUME NEW m \in 0..n PROVE RowsFrom(rows, m) \in Seq(T)
    OBVIOUS
  <2> DEFINE b == SubSeq(rows, m + 1, Len(rows))
  <2>1. b \in Seq(R)
    <3> HIDE DEF R
    <3>1. rows \in Seq(R)
      BY DEF R
    <3> QED
      BY <3>1, CutAt
  <2> HIDE DEF b
  <2>2. FlattenSeq(b) \in Seq(T)
    BY <1>0, <2>1, FlatAppend
  <2> QED
    BY <2>2 DEF RowsFrom, b
<1>2. ASSUME k = n PROVE RowsFrom(rows, k) = <<>>
  <2>1. SubSeq(rows, n + 1, n) = <<>>
    BY <1>0, WholeSeq
  <2> QED
    BY <1>2, <2>1, FlatEmpty DEF RowsFrom
<1>3. ASSUME k < n
      PROVE  rows[k + 1] \in R /\ RowsFrom(rows, k) = Join(rows[k + 1], RowsFrom(rows, k + 1))
  <2> DEFINE row == rows[k + 1]
             rest == SubSeq(rows, (k + 1) + 1, Len(rows))
             one == <<row>>
  <2>1. k + 1 \in 1..Len(rows)
    BY <1>3
  <2>2. row \in R /\ rest \in Seq(R) /\ SubSeq(rows, k + 1, Len(rows)) = Join(one, rest)
    <3> HIDE DEF R
    <3>1. rows \in Seq(R)
      BY DEF R
    <3> QED
      BY <2>1, <3>1, CutFront DEF Join
  <2> HIDE DEF row, rest
  <2>3. one \in Seq(R)
    BY <2>2
  <2>4. FlattenSeq(one) = row
    <3>1. one = Append(<<>>, row) /\ <<>> \in Seq(R)
      OBVIOUS
    <3> HIDE DEF one
    <3>2. Longer(one, <<>>, row)
      BY <3>1 DEF Longer
    <3>3. FlattenSeq(one) = Join(FlattenSeq(<<>>), row)
      BY <2>2, <3>1, <3>2, FlatLonger
    <3> QED
      BY <2>2, <3>3, FlatEmpty DEF Join
  <2> HIDE DEF one
  <2>5. FlattenSeq(Join(one, rest)) = Join(FlattenSeq(one), FlattenSeq(rest))
    BY <2>2, <2>3, FlatConcat
  <2> QED
    BY <2>2, <2>4, <2>5 DEF RowsFrom, row, rest
<1> QED
  BY <1>1, <1>2, <1>3

(* Before the first row all of them are left. *)
LEMMA RowsFromFirst ==
  ASSUME NEW T, NEW rows \in Seq(T)
  PROVE  RowsFrom(rows, 0) = FlattenSeq(rows)
<1>1. SubSeq(rows, 0 + 1, Len(rows)) = rows
  BY WholeSeq
<1> QED
  BY <1>1 DEF RowsFrom

-----------------------------------------------------------------------------
(* A patch as it is written *)

(* Whatever stands in the text of a patch. *)
NameLine(sign, start, name) == TextLine(sign, <<start, WrittenName(name)>>, TRUE)
NameLines == {NameLine("-", "--", n) : n \in Seq(Byte)} \cup {NameLine("+", "++", n) : n \in Seq(Byte)}
WrittenLine == AnyLine \cup NameLines

(* What is still to be read, when pos lines have been. *)
Remaining(rest) ==
  \E done \in Seq(WrittenLine) : Len(done) = pos /\ text = Join(done, rest)

(* The next line is the first of those, and the others come after it. *)
LEMMA RemainingNext ==
  ASSUME NEW e \in WrittenLine, NEW more \in Seq(WrittenLine), NEW rest,
         rest = Join(<<e>>, more), Remaining(rest)
  PROVE  /\ ~AtEnd /\ Peek = e /\ pos \in Nat
         /\ pos' = pos + 1 /\ text' = text => Remaining(more)'
<1> DEFINE T == WrittenLine
           one == <<e>>
<1>1. PICK done \in Seq(T) : Len(done) = pos /\ text = Join(done, Join(one, more))
  BY DEF Remaining
<1> HIDE DEF T
<1>2. one \in Seq(T) /\ Len(one) = 1 /\ one[1] = e /\ pos \in Nat /\ more \in Seq(T)
  BY <1>1 DEF T
<1> HIDE DEF one
<1> DEFINE longer == Join(done, one)
<1>3. text = Join(longer, more)
  <2>1. Join(done, Join(one, more)) = Join(Join(done, one), more)
    BY <1>1, <1>2, JoinAssociates
  <2> QED BY <1>1, <2>1
<1>4. JoinedFrom(text, done, one, more)
  BY <1>3 DEF JoinedFrom
<1>5. text \in Seq(T) /\ HasParts(text, done, one, more)
  BY <1>1, <1>2, <1>4, JoinedElements
<1>6. longer \in Seq(T) /\ Len(longer) = pos + 1
  <2>1. Join(done, one) \in Seq(T) /\ Len(Join(done, one)) = Len(done) + Len(one)
    BY <1>1, <1>2, JoinAssociates
  <2> QED
    BY <1>1, <1>2, <2>1
<1> HIDE DEF longer
<1>7. ~AtEnd /\ Peek = e
  <2>1. Len(text) = pos + 1 + Len(more) /\ Len(more) \in Nat
    BY <1>1, <1>2, <1>5 DEF HasParts
  <2>2. text[pos + 1] = one[1]
    BY <1>1, <1>2, <1>5 DEF HasParts
  <2> QED
    BY <1>2, <2>1, <2>2 DEF AtEnd, Peek
<1>8. ASSUME pos' = pos + 1, text' = text PROVE Remaining(more)'
  <2>1. \E d \in Seq(T) : Len(d) = pos' /\ text' = Join(d, more)
    BY <1>3, <1>6, <1>8
  <2> QED
    BY <2>1 DEF Remaining, T
<1> QED
  BY <1>2, <1>7, <1>8

(* When nothing is left the text is at its end. *)
LEMMA RemainingNone ==
  ASSUME Remaining(<<>>)
  PROVE  AtEnd /\ pos \in Nat
<1>1. PICK done \in Seq(WrittenLine) : Len(done) = pos /\ text = Join(done, <<>>)
  BY DEF Remaining
<1>2. text = done /\ pos \in Nat
  BY <1>1 DEF Join
<1> QED
  BY <1>1, <1>2 DEF AtEnd

HeaderLine(h) == [TextLine("@@", Nothing, TRUE) EXCEPT !.ranges = <<h.old, h.new>>]
LineRows(h, f) == [i \in DOMAIN h.lines |-> FormatLine(h.lines[i], f)]
HunkRows(p, f) == [i \in DOMAIN p.hunks |-> FormatHunk(p.hunks[i], f)]

LinesFrom(h, f, j) == RowsFrom(LineRows(h, f), j)
HunksFrom(p, f, k) == RowsFrom(HunkRows(p, f), k)

(* What is kept of a line and of a hunk when they are read back. *)
KeptLine(l, f) == IF f.message THEN l ELSE [l EXCEPT !.line.nl = TRUE]
Kept(h, f) == IF f.message THEN h ELSE AllTerminated(h)
KeptHunks(p, f) ==
  IF f.message THEN p.hunks ELSE [i \in DOMAIN p.hunks |-> AllTerminated(p.hunks[i])]

PatchHunks == [old : HunkRanges, new : HunkRanges, context : Seq(Contents), lines : Seq(Lines)]
BareHunks == {h \in PatchHunks : h.context = <<>> /\ WrittenHunk(h)}

(* The line that is written for a line of a hunk, before its marker. *)
LineWritten(l, f) ==
  TextLine(IF f.suppress /\ l.kind = "Context" /\ l.line = Content(Nothing, TRUE) THEN "none"
           ELSE SignOf(l.kind), l.line.body, TRUE)

(* It is read as a line of its kind, and nothing else that is looked for.  *)
(* A marker follows if the line that is kept has no newline.               *)
LEMMA LineWrittenFacts ==
  ASSUME NEW l \in Lines, NEW f \in Formatters
  PROVE  LET a == LineWritten(l, f)
         IN  /\ a \in WrittenLine /\ MarkerLine \in WrittenLine
             /\ a.sign \notin {"@@", "@", "\\"}
             /\ KindOf(a) = l.kind
             /\ a.body = l.line.body /\ a.nl = TRUE
             /\ FormatLine(l, f) = Join(<<a>>, IF KeptLine(l, f).line.nl THEN <<>> ELSE <<MarkerLine>>)
             /\ FormatLine(l, f) \in Seq(WrittenLine)
<1> DEFINE a == LineWritten(l, f)
<1>0. /\ l.kind \in LineKinds /\ l.line.body \in Bodies /\ l.line.nl \in BOOLEAN
      /\ f.message \in BOOLEAN /\ f.suppress \in BOOLEAN
      /\ l = [kind |-> l.kind, line |-> l.line] /\ l.line = [body |-> l.line.body, nl |-> l.line.nl]
  BY DEF Lines, Contents, Formatters
<1>1. a \in AnyLine /\ MarkerLine \in AnyLine
  BY <1>0 DEF LineWritten, AnyLine, TextLine, SignOf, Signs, LineKinds, MarkerLine
<1>2. a.sign \notin {"@@", "@", "\\"}
  BY <1>0 DEF LineWritten, TextLine, SignOf
<1>3. KindOf(a) = l.kind
  <2>1. CASE f.suppress /\ l.kind = "Context" /\ l.line = Content(Nothing, TRUE)
    <3>1. a = BlankLine
      BY <2>1 DEF LineWritten, BlankLine, Content
    <3>2. KindOf(BlankLine) = "Context"
      <4>1. BlankLine.sign = "none"
        BY DEF BlankLine, TextLine
      <4> QED BY <4>1 DEF KindOf
    <3> HIDE DEF a
    <3> QED
      BY <2>1, <3>1, <3>2
  <2>2. CASE ~(f.suppress /\ l.kind = "Context" /\ l.line = Content(Nothing, TRUE))
    <3>1. a.sign = SignOf(l.kind)
      BY <2>2 DEF LineWritten, TextLine
    <3>2. a # BlankLine
      BY <3>1 DEF SignOf, BlankLine, TextLine
    <3> QED
      BY <1>0, <3>1, <3>2 DEF KindOf, SignOf, LineKinds
  <2> QED BY <2>1, <2>2
<1>4. a.body = l.line.body /\ a.nl = TRUE
  BY DEF LineWritten, TextLine
<1>5. FormatLine(l, f) = <<a>> \o (IF ~l.line.nl /\ f.message THEN <<MarkerLine>> ELSE <<>>)
  BY DEF FormatLine, LineWritten
<1>6. KeptLine(l, f).line.nl = (l.line.nl \/ ~f.message)
  <2>1. CASE f.message
    BY <1>0, <2>1 DEF KeptLine
  <2>2. CASE ~f.message
    BY <1>0, <2>2 DEF KeptLine
  <2> QED BY <2>1, <2>2
<1> HIDE DEF a
<1>7. FormatLine(l, f) = Join(<<a>>, IF KeptLine(l, f).line.nl THEN <<>> ELSE <<MarkerLine>>)
  BY <1>0, <1>5, <1>6 DEF Join
<1>8. a \in WrittenLine /\ MarkerLine \in WrittenLine
  <2>1. AnyLine \subseteq WrittenLine
    BY DEF WrittenLine
  <2> QED BY <1>1, <2>1
<1>9. FormatLine(l, f) \in Seq(WrittenLine)
  <2> HIDE DEF WrittenLine
  <2> QED BY <1>5, <1>8
<1> QED
  BY <1>2, <1>3, <1>4, <1>7, <1>8, <1>9 DEF a

(* What is kept of a line. *)
LEMMA KeptLineFacts ==
  ASSUME NEW l \in Lines, NEW f \in Formatters
  PROVE  /\ KeptLine(l, f) \in Lines /\ KeptLine(l, f).kind = l.kind
         /\ KeptLine(l, f).line.body = l.line.body
         /\ KeptLine(l, f) = Line(l.kind, Content(l.line.body, KeptLine(l, f).line.nl))
         /\ ~KeptLine(l, f).line.nl => ~l.line.nl
<1>1. CASE f.message
  BY <1>1 DEF KeptLine, Lines, Contents, Line, Content
<1>2. CASE ~f.message
  BY <1>2 DEF KeptLine, Lines, Contents, Line, Content
<1> QED
  BY <1>1, <1>2

(* What is kept of a hunk. *)
LEMMA KeptFacts ==
  ASSUME NEW h \in BareHunks, NEW f \in Formatters
  PROVE  /\ Kept(h, f) = [old |-> h.old, new |-> h.new, context |-> <<>>, lines |-> Kept(h, f).lines]
         /\ Kept(h, f).lines \in Seq(Lines) /\ Len(Kept(h, f).lines) = Len(h.lines)
         /\ \A i \in 1..Len(h.lines) : h.lines[i] \in Lines /\ Kept(h, f).lines[i] = KeptLine(h.lines[i], f)
<1>1. /\ h = [old |-> h.old, new |-> h.new, context |-> <<>>, lines |-> h.lines]
      /\ h.lines \in Seq(Lines) /\ h.context = <<>>
  BY DEF BareHunks, PatchHunks
<1>2. Len(h.lines) \in Nat /\ \A i \in 1..Len(h.lines) : h.lines[i] \in Lines
  BY <1>1
<1>3. CASE f.message
  BY <1>1, <1>2, <1>3 DEF Kept, KeptLine
<1>4. CASE ~f.message
  <2> DEFINE row == [i \in DOMAIN h.lines |-> [h.lines[i] EXCEPT !.line.nl = TRUE]]
             n == Len(h.lines)
  <2>1. Kept(h, f) = [h EXCEPT !.lines = row]
    BY <1>4 DEF Kept, AllTerminated
  <2>2. row = [i \in 1..n |-> KeptLine(h.lines[i], f)]
    BY <1>1, <1>4 DEF KeptLine
  <2> HIDE DEF row
  <2>3. \A i \in 1..n : KeptLine(h.lines[i], f) \in Lines
    BY <1>2, KeptLineFacts
  <2>4. row \in [1..n -> Lines] /\ n \in Nat
    BY <1>2, <2>2, <2>3
  <2>5. row \in Seq(Lines) /\ Len(row) = n
    BY <2>4, RowIsSeq
  <2>6. Kept(h, f) = [old |-> h.old, new |-> h.new, context |-> <<>>, lines |-> row]
    BY <1>1, <2>1
  <2>7. Kept(h, f).lines = row
    BY <2>6
  <2> QED
    BY <1>2, <2>2, <2>5, <2>6, <2>7
<1> QED
  BY <1>3, <1>4

-----------------------------------------------------------------------------
(* Counting the lines of a hunk *)

(* One line more of a hunk is one line more of the texts it is in. *)
LEMMA CountsNext ==
  ASSUME NEW lines \in Seq(Lines), NEW l \in Lines, NEW more, Longer(more, lines, l)
  PROVE  /\ OldCount(lines) \in Nat /\ NewCount(lines) \in Nat
         /\ OldCount(more) = OldCount(lines) + (IF l.kind = "Insert" THEN 0 ELSE 1)
         /\ NewCount(more) = NewCount(lines) + (IF l.kind = "Delete" THEN 0 ELSE 1)
<1> DEFINE C == Contents
           T == Seq(C)
           k == Len(lines)
           olds == [i \in DOMAIN lines |-> OldLine(lines[i])]
           oldsMore == [i \in DOMAIN more |-> OldLine(more[i])]
           news == [i \in DOMAIN lines |-> NewLine(lines[i])]
           newsMore == [i \in DOMAIN more |-> NewLine(more[i])]
<1>1. /\ k \in Nat /\ more \in Seq(Lines) /\ DOMAIN lines = 1..k /\ DOMAIN more = 1..k + 1
      /\ more[k + 1] = l /\ \A i \in 1..k : more[i] = lines[i]
  BY DEF Longer
<1>2. \A x \in Lines : OldLine(x) \in T /\ NewLine(x) \in T
  <2> SUFFICES ASSUME NEW x \in Lines PROVE OldLine(x) \in T /\ NewLine(x) \in T
    OBVIOUS
  <2>1. x.line \in C
    BY DEF Lines
  <2> HIDE DEF C
  <2> QED BY <2>1 DEF OldLine, NewLine
<1>3. /\ olds \in [1..k -> T] /\ oldsMore \in [1..k + 1 -> T]
      /\ news \in [1..k -> T] /\ newsMore \in [1..k + 1 -> T]
  <2>1. \A i \in 1..k + 1 : more[i] \in Lines
    BY <1>1
  <2> HIDE DEF T, k
  <2> QED BY <1>1, <1>2, <2>1
<1>4. /\ \A i \in 1..k : olds[i] = oldsMore[i] /\ news[i] = newsMore[i]
      /\ oldsMore[k + 1] = OldLine(l) /\ newsMore[k + 1] = NewLine(l)
  BY <1>1
<1>5. /\ Len(OldLine(l)) = (IF l.kind = "Insert" THEN 0 ELSE 1) /\ OldLine(l) \in T
      /\ Len(NewLine(l)) = (IF l.kind = "Delete" THEN 0 ELSE 1) /\ NewLine(l) \in T
  BY <1>2 DEF OldLine, NewLine
<1> HIDE DEF olds, oldsMore, news, newsMore, k, C
<1>6. /\ olds \in Seq(T) /\ oldsMore = Append(olds, oldsMore[k + 1])
      /\ news \in Seq(T) /\ newsMore = Append(news, newsMore[k + 1])
  <2> HIDE DEF T
  <2>1. olds \in Seq(T) /\ oldsMore = Append(olds, oldsMore[k + 1])
    BY <1>1, <1>3, <1>4, RowAppend
  <2>2. news \in Seq(T) /\ newsMore = Append(news, newsMore[k + 1])
    BY <1>1, <1>3, <1>4, RowAppend
  <2> QED BY <2>1, <2>2
<1>7. Longer(oldsMore, olds, OldLine(l)) /\ Longer(newsMore, news, NewLine(l))
  BY <1>4, <1>6 DEF Longer
<1>8. FlattenSeq(olds) \in T /\ FlattenSeq(oldsMore) = Join(FlattenSeq(olds), OldLine(l))
  BY <1>5, <1>6, <1>7, FlatLonger
<1>9. FlattenSeq(news) \in T /\ FlattenSeq(newsMore) = Join(FlattenSeq(news), NewLine(l))
  BY <1>5, <1>6, <1>7, FlatLonger
<1>10. /\ Len(FlattenSeq(olds)) \in Nat
       /\ Len(FlattenSeq(oldsMore)) = Len(FlattenSeq(olds)) + Len(OldLine(l))
  <2> DEFINE a == FlattenSeq(olds)
             b == OldLine(l)
             c == FlattenSeq(oldsMore)
  <2>1. a \in T /\ b \in T /\ c = Join(a, b)
    BY <1>5, <1>8
  <2> HIDE DEF a, b, c
  <2>2. Len(a) \in Nat /\ Len(c) = Len(a) + Len(b)
    BY <2>1 DEF Join
  <2> QED BY <2>2 DEF a, b, c
<1>11. /\ Len(FlattenSeq(news)) \in Nat
       /\ Len(FlattenSeq(newsMore)) = Len(FlattenSeq(news)) + Len(NewLine(l))
  <2> DEFINE a == FlattenSeq(news)
             b == NewLine(l)
             c == FlattenSeq(newsMore)
  <2>1. a \in T /\ b \in T /\ c = Join(a, b)
    BY <1>5, <1>9
  <2> HIDE DEF a, b, c
  <2>2. Len(a) \in Nat /\ Len(c) = Len(a) + Len(b)
    BY <2>1 DEF Join
  <2> QED BY <2>2 DEF a, b, c
<1> QED
  BY <1>5, <1>10, <1>11 DEF olds, oldsMore, news, newsMore, OldCount, NewCount, PreImageOf, PostImageOf

(* A hunk of no lines has none of either text. *)
LEMMA CountsNone == OldCount(<<>>) = 0 /\ NewCount(<<>>) = 0
<1> DEFINE none == <<>>
<1>1. [i \in DOMAIN none |-> OldLine(none[i])] = <<>> /\ [i \in DOMAIN none |-> NewLine(none[i])] = <<>>
  OBVIOUS
<1>2. PreImageOf(<<>>) = <<>> /\ PostImageOf(<<>>) = <<>>
  BY <1>1, FlatEmpty DEF PreImageOf, PostImageOf
<1> QED
  BY <1>2 DEF OldCount, NewCount

(* The first m lines of a hunk. *)
First(lines, m) == SubSeq(lines, 1, m)

(* The counts grow with the lines, by one line at a time, up to those of   *)
(* all lines.                                                              *)
LEMMA CountsOfFirst ==
  ASSUME NEW lines \in Seq(Lines), NEW m \in 0..Len(lines)
  PROVE  /\ First(lines, m) \in Seq(Lines)
         /\ OldCount(First(lines, m)) \in Nat /\ NewCount(First(lines, m)) \in Nat
         /\ m < Len(lines) => First(lines, m + 1) = Append(First(lines, m), lines[m + 1])
         /\ m < Len(lines) =>
              OldCount(First(lines, m + 1))
                = OldCount(First(lines, m)) + (IF lines[m + 1].kind = "Insert" THEN 0 ELSE 1)
         /\ m < Len(lines) =>
              NewCount(First(lines, m + 1))
                = NewCount(First(lines, m)) + (IF lines[m + 1].kind = "Delete" THEN 0 ELSE 1)
<1> DEFINE L == Lines
<1>1. First(lines, m) \in Seq(Lines)
  BY DEF First
<1>2. CASE m < Len(lines)
  <2>1. lines[m + 1] \in Lines /\ First(lines, m + 1) = Append(First(lines, m), lines[m + 1])
    <3> HIDE DEF L
    <3>1. lines \in Seq(L)
      BY DEF L
    <3>2. lines[m + 1] \in L /\ SubSeq(lines, 1, m + 1) = Append(SubSeq(lines, 1, m), lines[m + 1])
      BY <1>2, <3>1, PrefixNext
    <3> QED BY <3>2 DEF First, L
  <2> DEFINE a == First(lines, m)
             l == lines[m + 1]
             b == First(lines, m + 1)
  <2>2. a \in Seq(Lines) /\ l \in Lines /\ Longer(b, a, l)
    BY <1>1, <2>1 DEF Longer
  <2> HIDE DEF a, b, l
  <2>3. /\ OldCount(a) \in Nat /\ NewCount(a) \in Nat
        /\ OldCount(b) = OldCount(a) + (IF l.kind = "Insert" THEN 0 ELSE 1)
        /\ NewCount(b) = NewCount(a) + (IF l.kind = "Delete" THEN 0 ELSE 1)
    BY <2>2, CountsNext
  <2> QED
    BY <1>1, <1>2, <2>1, <2>3 DEF a, b, l
<1>3. CASE m = Len(lines)
  <2>1. CASE m = 0
    <3>1. First(lines, m) = <<>>
      BY <2>1, WholeSeq DEF First
    <3>2. OldCount(First(lines, m)) = 0 /\ NewCount(First(lines, m)) = 0
      BY <3>1, CountsNone
    <3> QED
      BY <1>1, <1>3, <3>2
  <2>2. CASE m > 0
    <3> DEFINE n == m - 1
               a == First(lines, n)
               l == lines[n + 1]
               b == First(lines, n + 1)
    <3>1. n \in 0..Len(lines) /\ n < Len(lines) /\ n + 1 = m
      BY <1>3, <2>2
    <3> HIDE DEF n
    <3>2. l \in Lines /\ b = Append(a, l) /\ a \in Seq(Lines)
      <4> HIDE DEF L
      <4>1. lines \in Seq(L)
        BY DEF L
      <4>2. /\ SubSeq(lines, 1, n) \in Seq(L) /\ lines[n + 1] \in L
            /\ SubSeq(lines, 1, n + 1) = Append(SubSeq(lines, 1, n), lines[n + 1])
        BY <3>1, <4>1, PrefixNext
      <4> QED BY <4>2 DEF First, L
    <3>3. Longer(b, a, l)
      BY <3>2 DEF Longer
    <3> HIDE DEF a, b, l
    <3>4. /\ OldCount(a) \in Nat /\ NewCount(a) \in Nat
          /\ OldCount(b) = OldCount(a) + (IF l.kind = "Insert" THEN 0 ELSE 1)
          /\ NewCount(b) = NewCount(a) + (IF l.kind = "Delete" THEN 0 ELSE 1)
      BY <3>2, <3>3, CountsNext
    <3>5. OldCount(b) \in Nat /\ NewCount(b) \in Nat
      BY <3>4
    <3> QED
      BY <1>1, <1>3, <3>1, <3>5 DEF b
  <2> QED
    BY <2>1, <2>2
<1> QED
  BY <1>2, <1>3

(* While lines are still to come the counts are not complete: the next     *)
(* line is missing in one of them.                                         *)
LEMMA CountsGrow ==
  ASSUME NEW lines \in Seq(Lines), NEW j \in 0..Len(lines)
  PROVE  /\ OldCount(First(lines, j)) <= OldCount(lines)
         /\ NewCount(First(lines, j)) <= NewCount(lines)
         /\ OldCount(lines) \in Nat /\ NewCount(lines) \in Nat
         /\ j < Len(lines) => \/ OldCount(First(lines, j)) < OldCount(lines)
                              \/ NewCount(First(lines, j)) < NewCount(lines)
<1> DEFINE n == Len(lines)
           old(m) == OldCount(First(lines, m))
           new(m) == NewCount(First(lines, m))
<1>1. /\ n \in Nat /\ \A m \in 0..n : old(m) \in Nat /\ new(m) \in Nat
      /\ \A m \in 0..n : m < n => \/ old(m + 1) = old(m) /\ new(m + 1) = new(m) + 1
                                  \/ old(m + 1) = old(m) + 1 /\ new(m + 1) = new(m)
                                  \/ old(m + 1) = old(m) + 1 /\ new(m + 1) = new(m) + 1
  <2>1. n \in Nat
    OBVIOUS
  <2>2. ASSUME NEW m \in 0..n
        PROVE  /\ old(m) \in Nat /\ new(m) \in Nat
               /\ m < n => \/ old(m + 1) = old(m) /\ new(m + 1) = new(m) + 1
                           \/ old(m + 1) = old(m) + 1 /\ new(m + 1) = new(m)
                           \/ old(m + 1) = old(m) + 1 /\ new(m + 1) = new(m) + 1
    <3>1. /\ old(m) \in Nat /\ new(m) \in Nat
          /\ m < n => old(m + 1) = old(m) + (IF lines[m + 1].kind = "Insert" THEN 0 ELSE 1)
          /\ m < n => new(m + 1) = new(m) + (IF lines[m + 1].kind = "Delete" THEN 0 ELSE 1)
      BY CountsOfFirst
    <3> HIDE DEF old, new
    <3> QED BY <3>1
  <2> QED BY <2>1, <2>2
<1>2. old(n) = OldCount(lines) /\ new(n) = NewCount(lines)
  <2>1. First(lines, n) = lines
    BY WholeSeq DEF First
  <2> QED BY <2>1
<1> HIDE DEF n, old, new
<1> DEFINE S == {d \in Nat : \A m \in 0..n : m + d <= n => old(m) <= old(m + d) /\ new(m) <= new(m + d)}
<1>3. 0 \in S
  BY <1>1
<1>4. ASSUME NEW d \in Nat, d \in S PROVE d + 1 \in S
  <2> SUFFICES ASSUME NEW m \in 0..n, m + (d + 1) <= n
               PROVE  old(m) <= old(m + (d + 1)) /\ new(m) <= new(m + (d + 1))
    OBVIOUS
  <2> DEFINE e == m + d
  <2>1. e \in 0..n /\ e < n /\ m + (d + 1) = e + 1 /\ e + 1 \in 0..n
    BY <1>1
  <2>2. old(m) <= old(e) /\ new(m) <= new(e)
    BY <1>4, <2>1
  <2> HIDE DEF e
  <2>4. old(m) \in Nat /\ old(e) \in Nat /\ old(e + 1) \in Nat /\ new(m) \in Nat /\ new(e) \in Nat /\ new(e + 1) \in Nat
    BY <1>1, <2>1
  <2>6. \/ old(e + 1) = old(e) /\ new(e + 1) = new(e) + 1
        \/ old(e + 1) = old(e) + 1 /\ new(e + 1) = new(e)
        \/ old(e + 1) = old(e) + 1 /\ new(e + 1) = new(e) + 1
    BY <1>1, <2>1
  <2>3. old(e) <= old(e + 1) /\ new(e) <= new(e + 1)
    BY <2>4, <2>6
  <2>5. old(m) <= old(e + 1) /\ new(m) <= new(e + 1)
    BY <2>2, <2>3, <2>4
  <2> QED BY <2>1, <2>5
<1> HIDE DEF S
<1>5. ASSUME NEW m \in 0..n PROVE old(m) <= old(n) /\ new(m) <= new(n)
  <2> DEFINE d == n - m
  <2>1. d \in Nat /\ m + d = n
    BY <1>1
  <2> HIDE DEF d
  <2>2. d \in S
    BY <1>3, <1>4, <2>1, NatSetInduction
  <2>3. old(m) <= old(m + d) /\ new(m) <= new(m + d)
    BY <1>1, <2>1, <2>2 DEF S
  <2> QED BY <2>1, <2>3
<1>6. j \in 0..n
  BY DEF n
<1>7. old(j) <= old(n) /\ new(j) <= new(n) /\ n \in 0..n /\ old(n) \in Nat /\ new(n) \in Nat
  BY <1>1, <1>5, <1>6
<1>8. j < n => old(j) < old(n) \/ new(j) < new(n)
  <2> SUFFICES ASSUME j < n PROVE old(j) < old(n) \/ new(j) < new(n)
    OBVIOUS
  <2>1. j + 1 \in 0..n
    BY <1>1, <1>6
  <2>2. old(j + 1) <= old(n) /\ new(j + 1) <= new(n)
    BY <1>5, <2>1
  <2>3. old(j) \in Nat /\ new(j) \in Nat /\ old(j + 1) \in Nat /\ new(j + 1) \in Nat
    BY <1>1, <1>6, <2>1
  <2>4. old(j) < old(j + 1) \/ new(j) < new(j + 1)
    <3>1. \/ old(j + 1) = old(j) /\ new(j + 1) = new(j) + 1
          \/ old(j + 1) = old(j) + 1 /\ new(j + 1) = new(j)
          \/ old(j + 1) = old(j) + 1 /\ new(j + 1) = new(j) + 1
      BY <1>1, <1>6
    <3> QED BY <2>3, <3>1
  <2> QED BY <1>7, <2>2, <2>3, <2>4
<1> QED
  BY <1>2, <1>7, <1>8 DEF old, new, n

(* The counts are of the kinds of the lines, whatever they hold. *)
LEMMA CountsOfKinds ==
  ASSUME NEW s \in Seq(Lines), NEW t \in Seq(Lines), Len(s) = Len(t),
         \A i \in 1..Len(s) : s[i].kind = t[i].kind
  PROVE  OldCount(s) = OldCount(t) /\ NewCount(s) = NewCount(t)
<1> DEFINE n == Len(s)
           S == {m \in Nat : m <= n => /\ OldCount(First(s, m)) = OldCount(First(t, m))
                                       /\ NewCount(First(s, m)) = NewCount(First(t, m))}
<1>1. n \in Nat
  OBVIOUS
<1>2. 0 \in S
  <2>1. First(s, 0) = <<>> /\ First(t, 0) = <<>>
    BY WholeSeq DEF First
  <2> QED BY <2>1
<1>3. ASSUME NEW m \in Nat, m \in S PROVE m + 1 \in S
  <2> SUFFICES ASSUME m + 1 <= n
               PROVE  /\ OldCount(First(s, m + 1)) = OldCount(First(t, m + 1))
                      /\ NewCount(First(s, m + 1)) = NewCount(First(t, m + 1))
    OBVIOUS
  <2>1. m \in 0..Len(s) /\ m < Len(s) /\ m \in 0..Len(t) /\ m < Len(t) /\ m + 1 \in 1..Len(s)
    BY <1>1
  <2>2. /\ OldCount(First(s, m + 1)) = OldCount(First(s, m)) + (IF s[m + 1].kind = "Insert" THEN 0 ELSE 1)
        /\ NewCount(First(s, m + 1)) = NewCount(First(s, m)) + (IF s[m + 1].kind = "Delete" THEN 0 ELSE 1)
    BY <2>1, CountsOfFirst
  <2>3. /\ OldCount(First(t, m + 1)) = OldCount(First(t, m)) + (IF t[m + 1].kind = "Insert" THEN 0 ELSE 1)
        /\ NewCount(First(t, m + 1)) = NewCount(First(t, m)) + (IF t[m + 1].kind = "Delete" THEN 0 ELSE 1)
    BY <2>1, CountsOfFirst
  <2>4. s[m + 1].kind = t[m + 1].kind
    BY <2>1
  <2>5. /\ OldCount(First(s, m)) = OldCount(First(t, m))
        /\ NewCount(First(s, m)) = NewCount(First(t, m))
    BY <1>3, <2>1
  <2> QED
    BY <2>2, <2>3, <2>4, <2>5
<1> HIDE DEF S
<1>4. n \in S
  BY <1>1, <1>2, <1>3, NatSetInduction
<1>5. First(s, n) = s /\ First(t, n) = t
  BY WholeSeq DEF First
<1> QED
  BY <1>1, <1>4, <1>5 DEF S

-----------------------------------------------------------------------------
(* What is left of a written patch *)

(* The lines of a hunk that are left, when j have been read. *)
LEMMA LinesFromNext ==
  ASSUME NEW h \in BareHunks, NEW f \in Formatters, NEW j \in 0..Len(h.lines)
  PROVE  /\ LinesFrom(h, f, j) \in Seq(WrittenLine)
         /\ j = Len(h.lines) => LinesFrom(h, f, j) = <<>>
         /\ j < Len(h.lines) =>
              LinesFrom(h, f, j) = Join(FormatLine(h.lines[j + 1], f), LinesFrom(h, f, j + 1))
<1> DEFINE T == WrittenLine
           R == Seq(T)
           n == Len(h.lines)
           rows == LineRows(h, f)
<1>1. n \in Nat /\ DOMAIN h.lines = 1..n /\ \A i \in 1..n : h.lines[i] \in Lines
  BY DEF BareHunks, PatchHunks
<1>2. \A i \in 1..n : FormatLine(h.lines[i], f) \in R
  BY <1>1, LineWrittenFacts
<1>3. rows = [i \in 1..n |-> FormatLine(h.lines[i], f)]
  BY <1>1 DEF LineRows
<1> HIDE DEF rows, R, n
<1>4. rows \in [1..n -> R]
  BY <1>2, <1>3
<1>5. rows \in Seq(R) /\ Len(rows) = n
  BY <1>1, <1>4, RowIsSeq
<1>6. j \in 0..n
  BY DEF n
<1> HIDE DEF T
<1>7. /\ RowsFrom(rows, j) \in Seq(T)
      /\ j = Len(rows) => RowsFrom(rows, j) = <<>>
      /\ j < Len(rows) => RowsFrom(rows, j) = Join(rows[j + 1], RowsFrom(rows, j + 1))
  BY <1>5, <1>6, RowsFromNext DEF R
<1>8. j < n => rows[j + 1] = FormatLine(h.lines[j + 1], f)
  BY <1>1, <1>3, <1>6
<1> QED
  BY <1>5, <1>7, <1>8 DEF LinesFrom, rows, n, T

(* A hunk is its header and its lines. *)
LEMMA HunkWritten ==
  ASSUME NEW h \in BareHunks, NEW f \in Formatters
  PROVE  /\ HeaderLine(h) \in WrittenLine
         /\ HeaderLine(h).sign = "@@" /\ HeaderLine(h).body = Nothing
         /\ HeaderLine(h).ranges = <<h.old, h.new>>
         /\ FormatHunk(h, f) = Join(<<HeaderLine(h)>>, LinesFrom(h, f, 0))
         /\ FormatHunk(h, f) \in Seq(WrittenLine)
<1> DEFINE a == HeaderLine(h)
           n == Len(h.lines)
<1>1. h.old \in HunkRanges /\ h.new \in HunkRanges /\ h.context = <<>> /\ h.lines \in Seq(Lines)
  BY DEF BareHunks, PatchHunks
<1>2. a = [sign |-> "@@", body |-> Nothing, nl |-> TRUE, ranges |-> <<h.old, h.new>>]
  <2> DEFINE x == <<h.old, h.new>>
             b == Nothing
  <2>1. a = [[sign |-> "@@", body |-> b, nl |-> TRUE, ranges |-> <<>>] EXCEPT !.ranges = x]
    BY DEF HeaderLine, TextLine
  <2> HIDE DEF x, b, a
  <2>2. a = [sign |-> "@@", body |-> b, nl |-> TRUE, ranges |-> x]
    BY <2>1
  <2> QED BY <2>2 DEF x, b
<1>3. a \in WrittenLine
  <2>1. a \in AnyLine
    BY <1>1, <1>2 DEF AnyLine, Signs
  <2> QED
    BY <2>1 DEF WrittenLine
<1>4. FormatHunkHeader(h) = <<a>>
  BY <1>1 DEF FormatHunkHeader, HeaderLine
<1>5. FormatHunk(h, f) = Join(<<a>>, FlattenSeq(LineRows(h, f)))
  BY <1>4 DEF FormatHunk, LineRows, Join
<1>6. LinesFrom(h, f, 0) = FlattenSeq(LineRows(h, f)) /\ LinesFrom(h, f, 0) \in Seq(WrittenLine)
  <2> DEFINE rows == LineRows(h, f)
             T == Seq(WrittenLine)
  <2>0. n \in Nat /\ DOMAIN h.lines = 1..n /\ 0 \in 0..n /\ \A i \in 1..n : h.lines[i] \in Lines
    BY <1>1
  <2>1. \A i \in 1..n : FormatLine(h.lines[i], f) \in T
    BY <2>0, LineWrittenFacts
  <2> HIDE DEF T, n
  <2>2. rows \in [1..n -> T]
    BY <2>0, <2>1 DEF LineRows
  <2> HIDE DEF rows
  <2>3. rows \in Seq(T)
    BY <2>0, <2>2, RowIsSeq
  <2>4. RowsFrom(rows, 0) = FlattenSeq(rows)
    BY <2>3, RowsFromFirst
  <2>5. LinesFrom(h, f, 0) \in Seq(WrittenLine)
    BY <2>0, LinesFromNext DEF n
  <2> QED
    BY <2>4, <2>5 DEF LinesFrom, rows
<1> HIDE DEF a, WrittenLine
<1>7. FormatHunk(h, f) \in Seq(WrittenLine)
  BY <1>3, <1>5, <1>6 DEF Join
<1>8. a.sign = "@@" /\ a.body = Nothing /\ a.ranges = <<h.old, h.new>>
  BY <1>2
<1> QED
  BY <1>3, <1>5, <1>6, <1>7, <1>8 DEF a

(* A patch that was written, without function contexts. *)
BarePatch(p) == WrittenPatch(p) /\ p.hunks \in Seq(BareHunks)

(* The hunks of a patch that are left, when k have been read. *)
LEMMA HunksFromNext ==
  ASSUME NEW p, BarePatch(p), NEW f \in Formatters, NEW k \in 0..Len(p.hunks)
  PROVE  /\ HunksFrom(p, f, k) \in Seq(WrittenLine)
         /\ k = Len(p.hunks) => HunksFrom(p, f, k) = <<>>
         /\ k < Len(p.hunks) =>
              /\ p.hunks[k + 1] \in BareHunks
              /\ HunksFrom(p, f, k) = Join(<<HeaderLine(p.hunks[k + 1])>>,
                                           Join(LinesFrom(p.hunks[k + 1], f, 0), HunksFrom(p, f, k + 1)))
<1> DEFINE T == WrittenLine
           R == Seq(T)
           n == Len(p.hunks)
           rows == HunkRows(p, f)
<1>1. n \in Nat /\ DOMAIN p.hunks = 1..n /\ \A i \in 1..n : p.hunks[i] \in BareHunks
  BY DEF BarePatch
<1>2. \A i \in 1..n : FormatHunk(p.hunks[i], f) \in R
  BY <1>1, HunkWritten
<1>3. rows = [i \in 1..n |-> FormatHunk(p.hunks[i], f)]
  BY <1>1 DEF HunkRows
<1> HIDE DEF rows, R, n
<1>4. rows \in [1..n -> R]
  BY <1>2, <1>3
<1>5. rows \in Seq(R) /\ Len(rows) = n
  BY <1>1, <1>4, RowIsSeq
<1>6. k \in 0..n
  BY DEF n
<1> HIDE DEF T
<1>7. /\ RowsFrom(rows, k) \in Seq(T)
      /\ k = Len(rows) => RowsFrom(rows, k) = <<>>
      /\ k < Len(rows) => RowsFrom(rows, k) = Join(rows[k + 1], RowsFrom(rows, k + 1))
  BY <1>5, <1>6, RowsFromNext DEF R
<1>8. k < n => rows[k + 1] = FormatHunk(p.hunks[k + 1], f) /\ p.hunks[k + 1] \in BareHunks
  BY <1>1, <1>3, <1>6
<1>9. ASSUME k < n
      PROVE  HunksFrom(p, f, k) = Join(<<HeaderLine(p.hunks[k + 1])>>,
                                       Join(LinesFrom(p.hunks[k + 1], f, 0), HunksFrom(p, f, k + 1)))
  <2> DEFINE h == p.hunks[k + 1]
             a == <<HeaderLine(h)>>
             b == LinesFrom(h, f, 0)
             c == HunksFrom(p, f, k + 1)
  <2>1. h \in BareHunks /\ HunksFrom(p, f, k) = Join(FormatHunk(h, f), c)
    BY <1>5, <1>7, <1>8, <1>9 DEF HunksFrom, rows
  <2> HIDE DEF h
  <2>2. FormatHunk(h, f) = Join(a, b) /\ HeaderLine(h) \in T
    BY <2>1, HunkWritten DEF T
  <2>3. b \in Seq(T)
    <3>1. 0 \in 0..Len(h.lines)
      BY <2>1 DEF BareHunks, PatchHunks
    <3> QED BY <2>1, <3>1, LinesFromNext DEF T
  <2>4. a \in Seq(T)
    BY <2>2
  <2>5. c \in Seq(T)
    <3>1. k + 1 \in 0..Len(rows)
      BY <1>1, <1>5, <1>6, <1>9
    <3>2. RowsFrom(rows, k + 1) \in Seq(T)
      BY <1>5, <3>1, RowsFromNext DEF R
    <3> QED BY <3>2 DEF HunksFrom, rows
  <2> HIDE DEF a, b, c
  <2>6. Join(Join(a, b), c) = Join(a, Join(b, c))
    BY <2>3, <2>4, <2>5, JoinAssociates
  <2> QED
    BY <2>1, <2>2, <2>6 DEF a, b, c, h
<1>10. RowsFrom(rows, k) = HunksFrom(p, f, k)
  BY DEF rows, HunksFrom
<1> QED
  BY <1>5, <1>7, <1>8, <1>9, <1>10 DEF n, T

(* One more line of a hunk is read: the line, and a marker if its kept     *)
(* form has no newline.                                                    *)
LEMMA RemainingLine ==
  ASSUME NEW h \in BareHunks, NEW f \in Formatters, NEW j \in 0..Len(h.lines), j < Len(h.lines),
         NEW others \in Seq(WrittenLine), Remaining(Join(LinesFrom(h, f, j), others))
  PROVE  LET l == h.lines[j + 1]
             more == Join(LinesFrom(h, f, j + 1), others)
         IN  /\ ~AtEnd /\ Peek = LineWritten(l, f) /\ pos \in Nat
             /\ pos' = pos + 1 /\ text' = text =>
                  Remaining(IF KeptLine(l, f).line.nl THEN more ELSE Join(<<MarkerLine>>, more))'
<1> DEFINE T == WrittenLine
           l == h.lines[j + 1]
           e == LineWritten(l, f)
           one == <<e>>
           mark == IF KeptLine(l, f).line.nl THEN <<>> ELSE <<MarkerLine>>
           c == LinesFrom(h, f, j + 1)
           more == Join(c, others)
           next == Join(mark, more)
           rest == Join(LinesFrom(h, f, j), others)
<1>1. l \in Lines /\ j + 1 \in 0..Len(h.lines)
  BY DEF BareHunks, PatchHunks
<1>2. e \in T /\ MarkerLine \in T /\ FormatLine(l, f) = Join(one, mark) /\ FormatLine(l, f) \in Seq(T)
  BY <1>1, LineWrittenFacts
<1>3. LinesFrom(h, f, j) = Join(FormatLine(l, f), c) /\ c \in Seq(T)
  BY <1>1, LinesFromNext
<1> HIDE DEF T, l, e, c
<1>4. one \in Seq(T) /\ mark \in Seq(T) /\ others \in Seq(T)
  BY <1>2 DEF T
<1>9. mark = <<>> \/ mark = <<MarkerLine>>
  OBVIOUS
<1> HIDE DEF one, mark
<1>5. more \in Seq(T) /\ next \in Seq(T)
  <2>1. more \in Seq(T)
    BY <1>3, <1>4, JoinAssociates
  <2> HIDE DEF more
  <2> QED
    BY <1>4, <2>1, JoinAssociates
<1>6. rest = Join(one, next)
  <2>1. Join(Join(Join(one, mark), c), others) = Join(Join(one, mark), Join(c, others))
    BY <1>2, <1>3, <1>4, JoinAssociates
  <2>2. Join(Join(one, mark), more) = Join(one, Join(mark, more))
    <3> HIDE DEF more
    <3> QED BY <1>4, <1>5, JoinAssociates
  <2> QED
    BY <1>2, <1>3, <2>1, <2>2
<1>7. Remaining(rest)
  BY DEF c
<1> HIDE DEF next, rest
<1>8. /\ ~AtEnd /\ Peek = e /\ pos \in Nat
      /\ pos' = pos + 1 /\ text' = text => Remaining(next)'
  <2>1. e \in WrittenLine /\ next \in Seq(WrittenLine) /\ rest = Join(<<e>>, next)
    BY <1>2, <1>5, <1>6 DEF T, one
  <2> QED
    BY <1>7, <2>1, RemainingNext
<1>10. next = IF KeptLine(l, f).line.nl THEN more ELSE Join(<<MarkerLine>>, more)
  <2>1. Join(<<>>, more) = more
    <3> HIDE DEF more
    <3> QED BY <1>5, WholeSeq DEF Join
  <2> QED
    BY <2>1 DEF next, mark
<1> QED
  BY <1>8, <1>10 DEF l, e, c

-----------------------------------------------------------------------------
(* Reading it back: the invariant.  Of a patch p that was written by f has *)
(* been read what is not left, stage by stage.                             *)

UnterminatedOf(lines, j) == {lines[i].kind : i \in {i \in 1..j : ~lines[i].line.nl}}
Opened(h, lines, unterminated) ==
  [ranges |-> <<h.old, h.new>>, context |-> <<>>, lines |-> lines, unterminated |-> unterminated]
NewlineAdded(l) == Line(l.kind, Content(l.line.body, TRUE))

(* A name as it is written into bytes. *)
NameText(sign, start, name) == IF name = <<>> THEN <<>> ELSE <<NameLine(sign, start, name[1])>>

OriginalText(p) == NameText("-", "--", p.original)
ModifiedText(p) == NameText("+", "++", p.modified)
AfterNames(p, f) == HunksFrom(p, f, 0)
AfterOriginal(p, f) == Join(ModifiedText(p), AfterNames(p, f))
WholeText(p, f) == Join(OriginalText(p), AfterOriginal(p, f))

NamesAre(p) == original = p.original /\ modified = p.modified
NothingOpen == open = NoHunk /\ result = "none"

ReadsPreamble(p, f) ==
  /\ stage = "preamble" /\ NothingOpen /\ hunks = <<>>
  /\ original = <<>> /\ modified = <<>> /\ Remaining(WholeText(p, f))

ReadsNames(p, f) ==
  /\ stage = "names" /\ NothingOpen /\ hunks = <<>>
  /\ \/ original = <<>> /\ modified = <<>> /\ Remaining(WholeText(p, f))
     \/ original = p.original /\ modified = <<>> /\ Remaining(AfterOriginal(p, f))
     \/ NamesAre(p) /\ Remaining(AfterNames(p, f))

ReadsHunks(p, f) ==
  /\ stage = "hunks" /\ NothingOpen /\ NamesAre(p)
  /\ \E k \in 0..Len(p.hunks) :
       hunks = First(KeptHunks(p, f), k) /\ Remaining(HunksFrom(p, f, k))

(* The lines of a hunk, of which one may still wait for its marker.        *)
LinesRead(p, f, k, j) ==
  LET h == p.hunks[k + 1]
      lines == Kept(h, f).lines
      more == Join(LinesFrom(h, f, j), HunksFrom(p, f, k + 1))
  IN  \/ /\ open = Opened(h, First(lines, j), UnterminatedOf(lines, j))
         /\ Remaining(more)
      \/ /\ j > 0 /\ ~lines[j].line.nl
         /\ open = Opened(h, Append(First(lines, j - 1), NewlineAdded(lines[j])),
                          UnterminatedOf(lines, j - 1))
         /\ Remaining(Join(<<MarkerLine>>, more))

ReadsLines(p, f) ==
  /\ stage = "lines" /\ result = "none" /\ NamesAre(p)
  /\ \E k \in 0..Len(p.hunks) - 1 :
       /\ hunks = First(KeptHunks(p, f), k)
       /\ \E j \in 0..Len(p.hunks[k + 1].lines) : LinesRead(p, f, k, j)

ReadsEnd(p, f) ==
  /\ \/ stage = "orphans" /\ result = "none"
     \/ stage = "done" /\ result = "ok"
  /\ NamesAre(p) /\ hunks = KeptHunks(p, f) /\ Remaining(<<>>)

Reads(p, f) ==
  \/ ReadsPreamble(p, f) \/ ReadsNames(p, f) \/ ReadsHunks(p, f)
  \/ ReadsLines(p, f) \/ ReadsEnd(p, f)

-----------------------------------------------------------------------------
(* Names *)

(* A written name is read as the name it was written for. *)
LEMMA NameLineFacts ==
  ASSUME NEW n \in Seq(Byte)
  PROVE  /\ NameLine("-", "--", n) \in WrittenLine /\ NameLine("+", "++", n) \in WrittenLine
         /\ IsOriginalHeader(NameLine("-", "--", n)) /\ ~IsModifiedHeader(NameLine("-", "--", n))
         /\ IsModifiedHeader(NameLine("+", "++", n)) /\ ~IsOriginalHeader(NameLine("+", "++", n))
         /\ ParseFilename(NameLine("-", "--", n)) = NameRead(n)
         /\ ParseFilename(NameLine("+", "++", n)) = NameRead(n)
<1> DEFINE w == WrittenName(n)
           a == NameLine("-", "--", n)
           b == NameLine("+", "++", n)
<1>1. w \in Seq(Byte) /\ \A i \in 1..Len(w) : w[i] # Tab
  BY NoTabWritten
<1>2. EscapedFilename(w) = NameRead(n)
  BY NamesReadBack
<1>3. /\ a.sign = "-" /\ a.body = <<"--", w>> /\ a.body[1] = "--" /\ a.body[2] = w /\ a.nl = TRUE
      /\ b.sign = "+" /\ b.body = <<"++", w>> /\ b.body[1] = "++" /\ b.body[2] = w /\ b.nl = TRUE
  BY DEF NameLine, TextLine
<1>4. a \in WrittenLine /\ b \in WrittenLine
  <2>1. a \in NameLines /\ b \in NameLines
    BY DEF NameLines
  <2> QED
    BY <2>1 DEF WrittenLine
<1> HIDE DEF w, a, b
<1>5. SelectInSeq(w, LAMBDA x : x = Tab) = 0
  BY <1>1 DEF SelectInSeq
<1>6. ParseFilename(a) = NameRead(n)
  BY <1>2, <1>3, <1>5 DEF ParseFilename
<1>7. ParseFilename(b) = NameRead(n)
  BY <1>2, <1>3, <1>5 DEF ParseFilename
<1>8. IsOriginalHeader(a) /\ ~IsModifiedHeader(a) /\ IsModifiedHeader(b) /\ ~IsOriginalHeader(b)
  BY <1>3 DEF IsOriginalHeader, IsModifiedHeader
<1> QED
  BY <1>4, <1>6, <1>7, <1>8 DEF a, b

(* An Option is nothing or something. *)
LEMMA OptionCases ==
  ASSUME NEW T, NEW s \in Seq(T), Len(s) <= 1
  PROVE  s = <<>> \/ (s = <<s[1]>> /\ s[1] \in T)
<1>1. Len(s) \in Nat
  OBVIOUS
<1>2. CASE Len(s) = 0
  BY <1>2
<1>3. CASE Len(s) = 1
  BY <1>3
<1> QED
  BY <1>1, <1>2, <1>3

(* A name that is left is none, or the next line. *)
LEMMA RemainingName ==
  ASSUME NEW sign, NEW start, NEW name \in Seq(Seq(Byte)), Len(name) <= 1,
         \A n \in Seq(Byte) : NameLine(sign, start, n) \in WrittenLine,
         NEW others \in Seq(WrittenLine), Remaining(Join(NameText(sign, start, name), others))
  PROVE  \/ name = <<>> /\ Remaining(others)
         \/ /\ name # <<>> /\ name = <<name[1]>> /\ name[1] \in Seq(Byte)
            /\ ~AtEnd /\ Peek = NameLine(sign, start, name[1]) /\ pos \in Nat
            /\ pos' = pos + 1 /\ text' = text => Remaining(others)'
<1>1. CASE name = <<>>
  <2>1. NameText(sign, start, name) = <<>>
    BY <1>1 DEF NameText
  <2>2. Join(<<>>, others) = others
    BY WholeSeq DEF Join
  <2> QED
    BY <1>1, <2>1, <2>2
<1>2. CASE name # <<>>
  <2> DEFINE n == name[1]
             e == NameLine(sign, start, n)
  <2>1. n \in Seq(Byte) /\ name = <<n>>
    <3> DEFINE T == Seq(Byte)
    <3>1. name \in Seq(T) /\ Len(name) <= 1
      OBVIOUS
    <3> HIDE DEF T
    <3>2. name = <<>> \/ (name = <<name[1]>> /\ name[1] \in T)
      BY <3>1, OptionCases
    <3> QED BY <1>2, <3>2 DEF T
  <2>2. NameText(sign, start, name) = <<e>>
    BY <1>2 DEF NameText, NameLine
  <2>3. e \in WrittenLine
    BY <2>1
  <2>5. Remaining(Join(<<e>>, others))
    BY <2>2
  <2> HIDE DEF n, e
  <2>4. /\ ~AtEnd /\ Peek = e /\ pos \in Nat
        /\ pos' = pos + 1 /\ text' = text => Remaining(others)'
    BY <2>3, <2>5, RemainingNext
  <2> QED
    BY <1>2, <2>1, <2>4 DEF n, e
<1> QED
  BY <1>1, <1>2

(* What is left of the hunks begins with a header, if anything is left. *)
LEMMA RemainingHunks ==
  ASSUME NEW p, BarePatch(p), NEW f \in Formatters, NEW k \in 0..Len(p.hunks),
         Remaining(HunksFrom(p, f, k))
  PROVE  /\ k = Len(p.hunks) => AtEnd /\ Remaining(<<>>)
         /\ k < Len(p.hunks) =>
              /\ ~AtEnd /\ Peek = HeaderLine(p.hunks[k + 1]) /\ pos \in Nat
              /\ pos' = pos + 1 /\ text' = text =>
                   Remaining(Join(LinesFrom(p.hunks[k + 1], f, 0), HunksFrom(p, f, k + 1)))'
         /\ AtEnd \/ (IsHunkHeader(Peek) /\ Peek.sign = "@@" /\ ~IsFileHeader(Peek))
<1>0. Len(p.hunks) \in Nat
  BY DEF BarePatch
<1>1. CASE k = Len(p.hunks)
  <2>1. HunksFrom(p, f, k) = <<>>
    BY <1>1, HunksFromNext
  <2>2. Remaining(<<>>)
    BY <2>1
  <2> QED
    BY <1>1, <2>2, RemainingNone
<1>2. CASE k < Len(p.hunks)
  <2> DEFINE h == p.hunks[k + 1]
             e == HeaderLine(h)
             others == HunksFrom(p, f, k + 1)
             more == Join(LinesFrom(h, f, 0), others)
             rest == HunksFrom(p, f, k)
  <2>1. h \in BareHunks /\ rest = Join(<<e>>, more)
    BY <1>2, HunksFromNext
  <2>2. others \in Seq(WrittenLine)
    <3>1. k + 1 \in 0..Len(p.hunks)
      BY <1>0, <1>2
    <3> QED BY <3>1, HunksFromNext
  <2>3. LinesFrom(h, f, 0) \in Seq(WrittenLine)
    <3> HIDE DEF h
    <3>1. 0 \in 0..Len(h.lines)
      BY <2>1 DEF BareHunks, PatchHunks
    <3> QED BY <2>1, <3>1, LinesFromNext
  <2>4. e \in WrittenLine /\ e.sign = "@@"
    <3> HIDE DEF h
    <3> QED BY <2>1, HunkWritten
  <2>5. more \in Seq(WrittenLine)
    <3> HIDE DEF others, h
    <3> QED BY <2>2, <2>3, JoinAssociates
  <2>8. Remaining(rest)
    OBVIOUS
  <2> HIDE DEF e, more, rest, h
  <2>6. /\ ~AtEnd /\ Peek = e /\ pos \in Nat
        /\ pos' = pos + 1 /\ text' = text => Remaining(more)'
    BY <2>1, <2>4, <2>5, <2>8, RemainingNext
  <2>7. IsHunkHeader(Peek) /\ Peek.sign = "@@" /\ ~IsFileHeader(Peek)
    BY <2>4, <2>6 DEF IsHunkHeader, IsFileHeader, IsOriginalHeader, IsModifiedHeader
  <2> QED
    BY <1>2, <2>6, <2>7 DEF e, more, h
<1> QED
  BY <1>0, <1>1, <1>2

(* The three places that the names can be read up to. *)
LEMMA NamesLeft ==
  ASSUME NEW p, BarePatch(p), NEW f \in Formatters
  PROVE  /\ Remaining(WholeText(p, f)) =>
              \/ p.original = <<>> /\ Remaining(AfterOriginal(p, f))
              \/ /\ p.original # <<>> /\ p.original = <<p.original[1]>> /\ p.original[1] \in Seq(Byte)
                 /\ ~AtEnd /\ Peek = NameLine("-", "--", p.original[1])
                 /\ pos' = pos + 1 /\ text' = text => Remaining(AfterOriginal(p, f))'
         /\ Remaining(AfterOriginal(p, f)) =>
              \/ p.modified = <<>> /\ Remaining(AfterNames(p, f))
              \/ /\ p.modified # <<>> /\ p.modified = <<p.modified[1]>> /\ p.modified[1] \in Seq(Byte)
                 /\ ~AtEnd /\ Peek = NameLine("+", "++", p.modified[1])
                 /\ pos' = pos + 1 /\ text' = text => Remaining(AfterNames(p, f))'
         /\ Remaining(AfterNames(p, f)) => AtEnd \/ (IsHunkHeader(Peek) /\ ~IsFileHeader(Peek))
<1>1. /\ p.original \in Seq(Seq(Byte)) /\ Len(p.original) <= 1
      /\ p.modified \in Seq(Seq(Byte)) /\ Len(p.modified) <= 1
      /\ 0 \in 0..Len(p.hunks)
  BY DEF BarePatch, WrittenPatch
<1>2. AfterNames(p, f) \in Seq(WrittenLine)
  BY <1>1, HunksFromNext DEF AfterNames
<1>3. \A n \in Seq(Byte) : NameLine("-", "--", n) \in WrittenLine /\ NameLine("+", "++", n) \in WrittenLine
  BY NameLineFacts
<1>4. ModifiedText(p) \in Seq(WrittenLine)
  <2>1. CASE p.modified = <<>>
    <3>1. ModifiedText(p) = <<>>
      BY <2>1 DEF ModifiedText, NameText
    <3> QED BY <3>1
  <2>2. CASE p.modified # <<>>
    <3> DEFINE e == NameLine("+", "++", p.modified[1])
    <3>1. e \in WrittenLine
      BY <1>1, <1>3, <2>2
    <3>2. ModifiedText(p) = <<e>>
      BY <2>2 DEF ModifiedText, NameText, NameLine
    <3> HIDE DEF e
    <3> QED BY <3>1, <3>2
  <2> QED BY <2>1, <2>2
<1>5. AfterOriginal(p, f) \in Seq(WrittenLine)
  BY <1>2, <1>4, JoinAssociates DEF AfterOriginal
<1>6. ASSUME Remaining(WholeText(p, f))
      PROVE  \/ p.original = <<>> /\ Remaining(AfterOriginal(p, f))
             \/ /\ p.original # <<>> /\ p.original = <<p.original[1]>> /\ p.original[1] \in Seq(Byte)
                /\ ~AtEnd /\ Peek = NameLine("-", "--", p.original[1])
                /\ pos' = pos + 1 /\ text' = text => Remaining(AfterOriginal(p, f))'
  <2> DEFINE name == p.original
             others == AfterOriginal(p, f)
  <2>1. Remaining(Join(NameText("-", "--", name), others))
    BY <1>6 DEF WholeText, OriginalText
  <2>2. name \in Seq(Seq(Byte)) /\ Len(name) <= 1 /\ others \in Seq(WrittenLine)
    BY <1>1, <1>5
  <2> HIDE DEF name, others
  <2>3. \/ name = <<>> /\ Remaining(others)
        \/ /\ name # <<>> /\ name = <<name[1]>> /\ name[1] \in Seq(Byte)
           /\ ~AtEnd /\ Peek = NameLine("-", "--", name[1]) /\ pos \in Nat
           /\ pos' = pos + 1 /\ text' = text => Remaining(others)'
    BY <1>3, <2>1, <2>2, RemainingName
  <2> QED
    BY <2>3 DEF name, others
<1>7. ASSUME Remaining(AfterOriginal(p, f))
      PROVE  \/ p.modified = <<>> /\ Remaining(AfterNames(p, f))
             \/ /\ p.modified # <<>> /\ p.modified = <<p.modified[1]>> /\ p.modified[1] \in Seq(Byte)
                /\ ~AtEnd /\ Peek = NameLine("+", "++", p.modified[1])
                /\ pos' = pos + 1 /\ text' = text => Remaining(AfterNames(p, f))'
  <2> DEFINE name == p.modified
             others == AfterNames(p, f)
  <2>1. Remaining(Join(NameText("+", "++", name), others))
    BY <1>7 DEF AfterOriginal, ModifiedText
  <2>2. name \in Seq(Seq(Byte)) /\ Len(name) <= 1 /\ others \in Seq(WrittenLine)
    BY <1>1, <1>2
  <2> HIDE DEF name, others
  <2>3. \/ name = <<>> /\ Remaining(others)
        \/ /\ name # <<>> /\ name = <<name[1]>> /\ name[1] \in Seq(Byte)
           /\ ~AtEnd /\ Peek = NameLine("+", "++", name[1]) /\ pos \in Nat
           /\ pos' = pos + 1 /\ text' = text => Remaining(others)'
    BY <1>3, <2>1, <2>2, RemainingName
  <2> QED
    BY <2>3 DEF name, others
<1>8. Remaining(AfterNames(p, f)) => AtEnd \/ (IsHunkHeader(Peek) /\ ~IsFileHeader(Peek))
  BY <1>1, RemainingHunks DEF AfterNames
<1> QED
  BY <1>6, <1>7, <1>8

(* The steps of each stage. *)
LEMMA StepsOfStage ==
  ASSUME Next
  PROVE  /\ stage = "preamble" => SkipPreamble
         /\ stage = "names" => TakeName \/ RefuseName \/ EndNames
         /\ stage = "hunks" => OpenHunk \/ RefuseHunk \/ EndHunks
         /\ stage = "lines" => TakeLine \/ TakeMarker \/ RefuseLine \/ CloseHunk
         /\ stage = "orphans" => SkipTrailer
         /\ stage # "done"
<1>1. \/ stage = "preamble" /\ SkipPreamble
      \/ stage = "names" /\ (TakeName \/ RefuseName \/ EndNames)
      \/ stage = "hunks" /\ (OpenHunk \/ RefuseHunk \/ EndHunks)
      \/ stage = "lines" /\ (TakeLine \/ TakeMarker \/ RefuseLine \/ CloseHunk)
      \/ stage = "orphans" /\ SkipTrailer
  <2>1. SkipPreamble => stage = "preamble"
    BY DEF SkipPreamble
  <2>2. TakeName => stage = "names"
    BY DEF TakeName, AtName
  <2>3. RefuseName => stage = "names"
    BY DEF RefuseName, AtName
  <2>4. EndNames => stage = "names"
    BY DEF EndNames
  <2>5. OpenHunk => stage = "hunks"
    BY DEF OpenHunk, AtHunk
  <2>6. RefuseHunk => stage = "hunks"
    BY DEF RefuseHunk, AtHunk
  <2>7. EndHunks => stage = "hunks"
    BY DEF EndHunks
  <2>8. TakeLine => stage = "lines"
    BY DEF TakeLine, InLines
  <2>9. TakeMarker => stage = "lines"
    BY DEF TakeMarker, InLines
  <2>10. RefuseLine => stage = "lines"
    BY DEF RefuseLine, InLines
  <2>11. CloseHunk => stage = "lines"
    BY DEF CloseHunk
  <2>12. SkipTrailer => stage = "orphans"
    BY DEF SkipTrailer
  <2> QED
    BY <2>1, <2>2, <2>3, <2>4, <2>5, <2>6, <2>7, <2>8, <2>9, <2>10, <2>11, <2>12 DEF Next
<1> QED
  BY <1>1

(* What has been kept of the hunks, one by one, and that they are in order. *)
LEMMA KeptHunksFacts ==
  ASSUME NEW p, BarePatch(p), NEW f \in Formatters
  PROVE  /\ Len(KeptHunks(p, f)) = Len(p.hunks) /\ Len(p.hunks) \in Nat
         /\ First(KeptHunks(p, f), 0) = <<>>
         /\ First(KeptHunks(p, f), Len(p.hunks)) = KeptHunks(p, f)
         /\ \A k \in 0..Len(p.hunks) - 1 :
              /\ p.hunks[k + 1] \in BareHunks
              /\ First(KeptHunks(p, f), k + 1)
                   = Append(First(KeptHunks(p, f), k), Kept(p.hunks[k + 1], f))
         /\ HunksInOrder(KeptHunks(p, f))
<1> DEFINE n == Len(p.hunks)
           ks == KeptHunks(p, f)
           T == {ks[i] : i \in 1..n}
<1>1. n \in Nat /\ DOMAIN p.hunks = 1..n /\ \A i \in 1..n : p.hunks[i] \in BareHunks
  BY DEF BarePatch
<1>2. ks = [i \in 1..n |-> Kept(p.hunks[i], f)]
  <2>1. CASE f.message
    <3>1. p.hunks = [i \in 1..n |-> p.hunks[i]]
      BY <1>1 DEF BarePatch
    <3> QED
      BY <2>1, <3>1 DEF KeptHunks, Kept
  <2>2. CASE ~f.message
    BY <1>1, <2>2 DEF KeptHunks, Kept
  <2> QED BY <2>1, <2>2
<1> HIDE DEF ks
<1>3. ks \in [1..n -> T]
  BY <1>2
<1> HIDE DEF n, T
<1>4. ks \in Seq(T) /\ Len(ks) = n
  BY <1>1, <1>3, RowIsSeq
<1>5. First(ks, 0) = <<>> /\ First(ks, n) = ks
  BY <1>4, WholeSeq DEF First
<1>6. ASSUME NEW k \in 0..n - 1
      PROVE  p.hunks[k + 1] \in BareHunks /\ First(ks, k + 1) = Append(First(ks, k), Kept(p.hunks[k + 1], f))
  <2>1. k \in 0..Len(ks) /\ k < Len(ks) /\ k + 1 \in 1..n
    BY <1>1, <1>4
  <2>2. SubSeq(ks, 1, k + 1) = Append(SubSeq(ks, 1, k), ks[k + 1])
    BY <1>4, <2>1, PrefixNext
  <2>3. ks[k + 1] = Kept(p.hunks[k + 1], f)
    BY <1>2, <2>1
  <2> QED
    BY <1>1, <2>1, <2>2, <2>3 DEF First
<1>7. HunksInOrder(ks)
  <2>1. HunksInOrder(p.hunks)
    BY DEF BarePatch, WrittenPatch
  <2>2. \A i \in 1..n : ks[i].old = p.hunks[i].old /\ ks[i].new = p.hunks[i].new
    <3> SUFFICES ASSUME NEW i \in 1..n
                 PROVE  ks[i].old = p.hunks[i].old /\ ks[i].new = p.hunks[i].new
      OBVIOUS
    <3> DEFINE h == p.hunks[i]
    <3>1. h \in BareHunks /\ ks[i] = Kept(h, f)
      BY <1>1, <1>2
    <3> HIDE DEF h
    <3>2. Kept(h, f) = [old |-> h.old, new |-> h.new, context |-> <<>>, lines |-> Kept(h, f).lines]
      BY <3>1, KeptFacts
    <3>3. Kept(h, f).old = h.old /\ Kept(h, f).new = h.new
      BY <3>2
    <3> QED BY <3>1, <3>3 DEF h
  <2>3. \A i \in 1..n - 1 : i \in 1..n /\ i + 1 \in 1..n
    BY <1>1
  <2>4. \A i \in 1..n - 1 : /\ HunkRangeEnd(p.hunks[i].old) <= p.hunks[i + 1].old.start
                            /\ HunkRangeEnd(p.hunks[i].new) <= p.hunks[i + 1].new.start
    BY <2>1 DEF HunksInOrder, n
  <2>5. \A i \in 1..n - 1 : /\ HunkRangeEnd(ks[i].old) <= ks[i + 1].old.start
                            /\ HunkRangeEnd(ks[i].new) <= ks[i + 1].new.start
    BY <2>2, <2>3, <2>4
  <2> QED
    BY <1>4, <2>5 DEF HunksInOrder
<1> QED
  BY <1>1, <1>4, <1>5, <1>6, <1>7 DEF n, ks

Strict == opts = RejectOrphanedHunks(DefaultOpts)

(* A preamble there is not. *)
LEMMA ReadPreamble ==
  ASSUME NEW p, BarePatch(p), NEW f \in Formatters, ReadsPreamble(p, f), Next
  PROVE  ReadsNames(p, f)'
<1>1. SkipPreamble
  BY StepsOfStage DEF ReadsPreamble
<1>2. AtEnd \/ IsFileHeader(Peek) \/ IsHunkHeader(Peek)
  <2>1. Remaining(WholeText(p, f))
    BY DEF ReadsPreamble
  <2>2. \A n \in Seq(Byte) : /\ IsFileHeader(NameLine("-", "--", n))
                             /\ IsFileHeader(NameLine("+", "++", n))
    BY NameLineFacts DEF IsFileHeader
  <2> QED
    BY <2>1, <2>2, NamesLeft
<1>3. stage' = "names" /\ UNCHANGED <<text, pos, original, modified, hunks, open, result>>
  BY <1>1, <1>2 DEF SkipPreamble, input
<1>4. Remaining(WholeText(p, f))'
  BY <1>3 DEF ReadsPreamble, Remaining
<1> QED
  BY <1>3, <1>4 DEF ReadsPreamble, ReadsNames, NothingOpen

(* The names that were written are taken, and nothing else is. *)
LEMMA ReadNames ==
  ASSUME NEW p, BarePatch(p), NEW f \in Formatters, ReadsNames(p, f), Next
  PROVE  ReadsNames(p, f)' \/ ReadsHunks(p, f)'
<1>1. TakeName \/ RefuseName \/ EndNames
  BY StepsOfStage DEF ReadsNames
<1>2. stage = "names" /\ NothingOpen /\ hunks = <<>>
  BY DEF ReadsNames
<1>3. \/ /\ original = <<>> /\ modified = <<>> /\ Remaining(WholeText(p, f))
         /\ p.original # <<>> /\ p.original = <<p.original[1]>> /\ p.original[1] \in Seq(Byte)
         /\ ~AtEnd /\ Peek = NameLine("-", "--", p.original[1])
         /\ pos' = pos + 1 /\ text' = text => Remaining(AfterOriginal(p, f))'
      \/ /\ original = p.original /\ modified = <<>> /\ Remaining(AfterOriginal(p, f))
         /\ p.modified # <<>> /\ p.modified = <<p.modified[1]>> /\ p.modified[1] \in Seq(Byte)
         /\ ~AtEnd /\ Peek = NameLine("+", "++", p.modified[1])
         /\ pos' = pos + 1 /\ text' = text => Remaining(AfterNames(p, f))'
      \/ NamesAre(p) /\ Remaining(AfterNames(p, f))
  BY NamesLeft DEF ReadsNames, NamesAre
<1>4. CASE /\ original = <<>> /\ modified = <<>> /\ Remaining(WholeText(p, f))
           /\ p.original # <<>> /\ p.original = <<p.original[1]>> /\ p.original[1] \in Seq(Byte)
           /\ ~AtEnd /\ Peek = NameLine("-", "--", p.original[1])
           /\ pos' = pos + 1 /\ text' = text => Remaining(AfterOriginal(p, f))'
  <2> DEFINE n == p.original[1]
  <2>1. /\ IsOriginalHeader(Peek) /\ ~IsModifiedHeader(Peek) /\ IsFileHeader(Peek)
        /\ ParseFilename(Peek) = NameRead(n)
    BY <1>4, NameLineFacts DEF IsFileHeader
  <2>2. NameError(Peek) = "none" /\ ParseFilename(Peek).name = n /\ ~Twice(Peek)
    BY <1>4, <2>1 DEF NameError, NameRead, Twice
  <2>3. AtName
    BY <1>2, <1>4, <2>1 DEF AtName
  <2>4. TakeName
    BY <1>1, <2>2, <2>3 DEF RefuseName, EndNames
  <2>5. /\ pos' = pos + 1 /\ original' = <<n>> /\ modified' = modified
        /\ UNCHANGED <<text, stage, hunks, open, result>>
    BY <2>1, <2>2, <2>4 DEF TakeName, Advance, input
  <2>6. Remaining(AfterOriginal(p, f))' /\ original' = p.original
    BY <1>4, <2>5
  <2> QED
    BY <1>2, <1>4, <2>5, <2>6 DEF ReadsNames, NothingOpen
<1>5. CASE /\ original = p.original /\ modified = <<>> /\ Remaining(AfterOriginal(p, f))
           /\ p.modified # <<>> /\ p.modified = <<p.modified[1]>> /\ p.modified[1] \in Seq(Byte)
           /\ ~AtEnd /\ Peek = NameLine("+", "++", p.modified[1])
           /\ pos' = pos + 1 /\ text' = text => Remaining(AfterNames(p, f))'
  <2> DEFINE n == p.modified[1]
  <2>1. /\ IsModifiedHeader(Peek) /\ ~IsOriginalHeader(Peek) /\ IsFileHeader(Peek)
        /\ ParseFilename(Peek) = NameRead(n)
    BY <1>5, NameLineFacts DEF IsFileHeader
  <2>2. NameError(Peek) = "none" /\ ParseFilename(Peek).name = n /\ ~Twice(Peek)
    BY <1>5, <2>1 DEF NameError, NameRead, Twice
  <2>3. AtName
    BY <1>2, <1>5, <2>1 DEF AtName
  <2>4. TakeName
    BY <1>1, <2>2, <2>3 DEF RefuseName, EndNames
  <2>5. /\ pos' = pos + 1 /\ modified' = <<n>> /\ original' = original
        /\ UNCHANGED <<text, stage, hunks, open, result>>
    BY <2>1, <2>2, <2>4 DEF TakeName, Advance, input
  <2>6. Remaining(AfterNames(p, f))' /\ NamesAre(p)'
    BY <1>5, <2>5 DEF NamesAre
  <2> QED
    BY <1>2, <1>5, <2>5, <2>6 DEF ReadsNames, NothingOpen
<1>6. CASE NamesAre(p) /\ Remaining(AfterNames(p, f))
  <2>1. ~AtName
    BY <1>6, NamesLeft DEF AtName
  <2>2. EndNames
    BY <1>1, <2>1 DEF TakeName, RefuseName
  <2>3. stage' = "hunks" /\ UNCHANGED <<text, pos, original, modified, hunks, open, result>>
    BY <2>2 DEF EndNames, input
  <2>4. Remaining(HunksFrom(p, f, 0))'
    BY <1>6, <2>3 DEF AfterNames, Remaining
  <2>5. 0 \in 0..Len(p.hunks) /\ hunks' = First(KeptHunks(p, f), 0)
    BY <1>2, <2>3, KeptHunksFacts
  <2> QED
    BY <1>2, <1>6, <2>3, <2>4, <2>5 DEF ReadsHunks, NothingOpen, NamesAre
<1> QED
  BY <1>3, <1>4, <1>5, <1>6

(* A hunk is opened with its ranges, and after the last one none is. *)
LEMMA ReadHunks ==
  ASSUME NEW p, BarePatch(p), NEW f \in Formatters, ReadsHunks(p, f), Next, Strict
  PROVE  ReadsLines(p, f)' \/ ReadsEnd(p, f)'
<1>1. OpenHunk \/ RefuseHunk \/ EndHunks
  BY StepsOfStage DEF ReadsHunks
<1>2. stage = "hunks" /\ NothingOpen /\ NamesAre(p)
  BY DEF ReadsHunks
<1>3. PICK k \in 0..Len(p.hunks) : hunks = First(KeptHunks(p, f), k) /\ Remaining(HunksFrom(p, f, k))
  BY DEF ReadsHunks
<1>4. CASE k = Len(p.hunks)
  <2>1. AtEnd /\ Remaining(<<>>)
    BY <1>3, <1>4, RemainingHunks
  <2>2. EndHunks /\ ~AtHunk
    BY <1>1, <2>1 DEF OpenHunk, RefuseHunk, AtHunk
  <2>3. hunks = KeptHunks(p, f) /\ HunksInOrder(hunks)
    BY <1>3, <1>4, KeptHunksFacts
  <2>4. opts.rejectOrphans = TRUE
    BY DEF Strict, RejectOrphanedHunks, DefaultOpts
  <2>5. stage' = "orphans" /\ UNCHANGED <<text, pos, original, modified, hunks, open, result>>
    BY <2>2, <2>3, <2>4 DEF EndHunks, input
  <2>6. Remaining(<<>>)'
    BY <2>1, <2>5 DEF Remaining
  <2> QED
    BY <1>2, <2>3, <2>5, <2>6 DEF ReadsEnd, NothingOpen, NamesAre
<1>5. CASE k # Len(p.hunks)
  <2> DEFINE h == p.hunks[k + 1]
             lines == Kept(h, f).lines
  <2>0. k < Len(p.hunks) /\ k \in 0..Len(p.hunks) - 1 /\ h \in BareHunks
    BY <1>5, KeptHunksFacts
  <2>1. /\ ~AtEnd /\ Peek = HeaderLine(h)
        /\ pos' = pos + 1 /\ text' = text =>
             Remaining(Join(LinesFrom(h, f, 0), HunksFrom(p, f, k + 1)))'
        /\ IsHunkHeader(Peek)
    BY <1>3, <2>0, RemainingHunks
  <2> HIDE DEF h
  <2>2. Peek.body = Nothing /\ Peek.ranges = <<h.old, h.new>> /\ Peek.ranges # <<>>
    <3>1. Peek.body = Nothing /\ Peek.ranges = <<h.old, h.new>>
      BY <2>0, <2>1, HunkWritten
    <3>2. <<h.old, h.new>> # <<>>
      OBVIOUS
    <3> QED BY <3>1, <3>2
  <2>3. AtHunk
    BY <1>2, <2>1 DEF AtHunk
  <2>4. OpenHunk
    BY <1>1, <2>2, <2>3 DEF RefuseHunk, EndHunks
  <2>5. /\ pos' = pos + 1 /\ stage' = "lines" /\ UNCHANGED <<text, original, modified, hunks, result>>
        /\ open' = Opened(h, <<>>, {})
    BY <2>2, <2>4 DEF OpenHunk, Advance, input, Opened, NoHunk
  <2>6. Remaining(Join(LinesFrom(h, f, 0), HunksFrom(p, f, k + 1)))'
    BY <2>1, <2>5
  <2>7. First(lines, 0) = <<>> /\ UnterminatedOf(lines, 0) = {} /\ 0 \in 0..Len(h.lines)
    <3>1. First(lines, 0) = <<>> /\ 0 \in 0..Len(h.lines)
      <4>1. lines \in Seq(Lines) /\ Len(lines) = Len(h.lines)
        BY <2>0, KeptFacts
      <4> HIDE DEF lines
      <4> QED BY <4>1, WholeSeq DEF First
    <3>2. UnterminatedOf(lines, 0) = {}
      BY DEF UnterminatedOf
    <3> QED BY <3>1, <3>2
  <2>8. open' = Opened(h, First(lines, 0), UnterminatedOf(lines, 0))
    BY <2>5, <2>7
  <2>9. LinesRead(p, f, k, 0)'
    BY <2>6, <2>8 DEF LinesRead, h
  <2>10. \E j \in 0..Len(p.hunks[k + 1].lines) : LinesRead(p, f, k, j)'
    BY <2>7, <2>9 DEF h
  <2>11. stage' = "lines" /\ result' = "none" /\ NamesAre(p)' /\ hunks' = First(KeptHunks(p, f), k)
    BY <1>2, <1>3, <2>5 DEF NothingOpen, NamesAre
  <2> QED
    BY <2>0, <2>10, <2>11 DEF ReadsLines
<1> QED
  BY <1>4, <1>5

(* What the unterminated lines of a hunk say about the next line. *)
LEMMA AfterUnterminated ==
  ASSUME NEW h \in BareHunks, NEW f \in Formatters, NEW j \in 0..Len(h.lines), j < Len(h.lines)
  PROVE  LET lines == Kept(h, f).lines
             u == UnterminatedOf(lines, j)
             l == lines[j + 1]
         IN  /\ l.kind \in LineKinds /\ "Context" \notin u
             /\ "Delete" \in u => l.kind \notin {"Delete", "Context"}
             /\ "Insert" \in u => l.kind \notin {"Insert", "Context"}
<1> DEFINE lines == Kept(h, f).lines
           n == Len(h.lines)
           u == UnterminatedOf(lines, j)
           l == lines[j + 1]
<1>1. n \in Nat /\ j + 1 \in 1..n /\ DOMAIN h.lines = 1..n
  BY DEF BareHunks, PatchHunks
<1>2. \A i \in 1..n : h.lines[i] \in Lines /\ lines[i] = KeptLine(h.lines[i], f)
  BY KeptFacts
<1> HIDE DEF lines
<1>3. \A i \in 1..n : /\ lines[i].kind = h.lines[i].kind /\ lines[i].kind \in LineKinds
                      /\ ~lines[i].line.nl => ~h.lines[i].line.nl
  <2> SUFFICES ASSUME NEW i \in 1..n
               PROVE  /\ lines[i].kind = h.lines[i].kind /\ lines[i].kind \in LineKinds
                      /\ ~lines[i].line.nl => ~h.lines[i].line.nl
    OBVIOUS
  <2> DEFINE m == h.lines[i]
  <2>1. m \in Lines /\ lines[i] = KeptLine(m, f)
    BY <1>2
  <2> HIDE DEF m
  <2>2. KeptLine(m, f).kind = m.kind /\ (~KeptLine(m, f).line.nl => ~m.line.nl)
    BY <2>1, KeptLineFacts
  <2>3. m.kind \in LineKinds
    BY <2>1 DEF Lines
  <2> QED
    BY <2>1, <2>2, <2>3 DEF m
<1>4. \A kind \in {"Delete", "Insert"} : \A i \in 1..j :
        h.lines[i].kind \in {kind, "Context"} /\ ~h.lines[i].line.nl
          => h.lines[j + 1].kind \notin {kind, "Context"}
  <2>1. \A i \in 1..j : i \in 1..n /\ i < j + 1
    BY <1>1
  <2>2. LastOf(h.lines, "Delete") /\ LastOf(h.lines, "Insert")
    BY DEF BareHunks, WrittenHunk
  <2> QED
    BY <1>1, <2>1, <2>2 DEF LastOf
<1>5. \A kind \in u : \E i \in 1..j : h.lines[i].kind = kind /\ ~h.lines[i].line.nl
  <2> SUFFICES ASSUME NEW kind \in u
               PROVE  \E i \in 1..j : h.lines[i].kind = kind /\ ~h.lines[i].line.nl
    OBVIOUS
  <2>1. PICK i \in 1..j : ~lines[i].line.nl /\ kind = lines[i].kind
    BY DEF UnterminatedOf
  <2>2. i \in 1..n
    BY <1>1
  <2> QED
    BY <1>3, <2>1, <2>2
<1>6. l.kind = h.lines[j + 1].kind /\ l.kind \in LineKinds
  BY <1>1, <1>3
<1> HIDE DEF l, u
<1>7. "Delete" \in u => l.kind \notin {"Delete", "Context"}
  BY <1>4, <1>5, <1>6
<1>8. "Insert" \in u => l.kind \notin {"Insert", "Context"}
  BY <1>4, <1>5, <1>6
<1>9. "Context" \notin u
  <2> SUFFICES ASSUME "Context" \in u PROVE FALSE
    OBVIOUS
  <2>1. PICK i \in 1..j : h.lines[i].kind = "Context" /\ ~h.lines[i].line.nl
    BY <1>5
  <2>2. l.kind \notin {"Delete", "Context"} /\ l.kind \notin {"Insert", "Context"}
    BY <1>4, <1>6, <2>1
  <2> QED
    BY <1>6, <2>2 DEF LineKinds
<1> QED
  BY <1>6, <1>7, <1>8, <1>9 DEF l, u, lines

(* The unterminated lines, and the next one. *)
LEMMA UnterminatedNext ==
  ASSUME NEW lines, NEW j \in Nat
  PROVE  UnterminatedOf(lines, j + 1)
           = UnterminatedOf(lines, j) \cup (IF lines[j + 1].line.nl THEN {} ELSE {lines[j + 1].kind})
<1>1. 1..j + 1 = (1..j) \cup {j + 1}
  OBVIOUS
<1> QED
  BY <1>1 DEF UnterminatedOf

(* The ranges of a hunk count the lines that are kept of it. *)
LEMMA KeptCounts ==
  ASSUME NEW h \in BareHunks, NEW f \in Formatters
  PROVE  OldCount(Kept(h, f).lines) = h.old.len /\ NewCount(Kept(h, f).lines) = h.new.len
<1> DEFINE s == Kept(h, f).lines
           t == h.lines
<1>1. /\ t \in Seq(Lines) /\ OldCount(t) = h.old.len /\ NewCount(t) = h.new.len
  BY DEF BareHunks, PatchHunks, WrittenHunk
<1>2. s \in Seq(Lines) /\ Len(s) = Len(t) /\ \A i \in 1..Len(t) : t[i] \in Lines /\ s[i] = KeptLine(t[i], f)
  BY KeptFacts
<1> HIDE DEF s, t
<1>3. \A i \in 1..Len(s) : s[i].kind = t[i].kind
  BY <1>2, KeptLineFacts
<1>4. OldCount(s) = OldCount(t) /\ NewCount(s) = NewCount(t)
  BY <1>1, <1>2, <1>3, CountsOfKinds
<1> QED
  BY <1>1, <1>4 DEF s, t

(* A line of the hunk is taken, with a newline. *)
LEMMA ReadLine ==
  ASSUME NEW p, BarePatch(p), NEW f \in Formatters, NEW k \in 0..Len(p.hunks) - 1,
         NEW h \in BareHunks, h = p.hunks[k + 1],
         NEW j \in 0..Len(h.lines), j < Len(h.lines),
         stage = "lines", Next,
         NEW lines, lines = Kept(h, f).lines,
         open = Opened(h, First(lines, j), UnterminatedOf(lines, j)),
         NEW others \in Seq(WrittenLine), Remaining(Join(LinesFrom(h, f, j), others))
  PROVE  /\ UNCHANGED <<stage, original, modified, hunks, result>>
         /\ \/ /\ open' = Opened(h, First(lines, j + 1), UnterminatedOf(lines, j + 1))
               /\ Remaining(Join(LinesFrom(h, f, j + 1), others))'
            \/ /\ ~lines[j + 1].line.nl
               /\ open' = Opened(h, Append(First(lines, j), NewlineAdded(lines[j + 1])),
                                 UnterminatedOf(lines, j))
               /\ Remaining(Join(<<MarkerLine>>, Join(LinesFrom(h, f, j + 1), others)))'
<1> DEFINE l == lines[j + 1]
           m == h.lines[j + 1]
           a == LineWritten(m, f)
           u == UnterminatedOf(lines, j)
           more == Join(LinesFrom(h, f, j + 1), others)
<1>1. TakeLine \/ TakeMarker \/ RefuseLine \/ CloseHunk
  BY StepsOfStage
<1>2. /\ ~AtEnd /\ Peek = a /\ pos \in Nat
      /\ pos' = pos + 1 /\ text' = text =>
           Remaining(IF KeptLine(m, f).line.nl THEN more ELSE Join(<<MarkerLine>>, more))'
  BY RemainingLine
<1>3. lines \in Seq(Lines) /\ Len(lines) = Len(h.lines) /\ m \in Lines /\ l = KeptLine(m, f) /\ l \in Lines
  <2>1. j + 1 \in 1..Len(h.lines) /\ Len(h.lines) \in Nat
    BY DEF BareHunks, PatchHunks
  <2>2. lines \in Seq(Lines) /\ Len(lines) = Len(h.lines) /\ m \in Lines /\ l = KeptLine(m, f)
    BY <2>1, KeptFacts
  <2> QED
    BY <2>2, KeptLineFacts
<1>4. /\ a.sign \notin {"@@", "@", "\\"} /\ KindOf(a) = m.kind
      /\ a.body = m.line.body /\ a.nl = TRUE
  BY <1>3, LineWrittenFacts
<1>5. /\ l.kind \in LineKinds /\ "Context" \notin u
      /\ "Delete" \in u => l.kind \notin {"Delete", "Context"}
      /\ "Insert" \in u => l.kind \notin {"Insert", "Context"}
  BY AfterUnterminated
<1>6. l.kind = m.kind /\ l.line.body = m.line.body /\ l = Line(m.kind, Content(m.line.body, l.line.nl))
  <2>1. m \in Lines /\ l = KeptLine(m, f)
    BY <1>3
  <2> HIDE DEF l, m
  <2> QED
    BY <2>1, KeptLineFacts
<1> HIDE DEF a, m, l, u
<1>7. open.unterminated = u /\ open.lines = First(lines, j) /\ open.ranges = <<h.old, h.new>>
  BY DEF Opened, u
<1>8. ~IsMarker(Peek) /\ KindOf(Peek) = l.kind /\ KindOf(Peek) # "None"
  BY <1>2, <1>4, <1>5, <1>6 DEF IsMarker, LineKinds
<1>9. LineError(Peek) = "none"
  BY <1>2, <1>4, <1>5, <1>7, <1>8 DEF LineError
<1>10. ~Complete
  <2>1. /\ j < Len(lines) /\ j \in 0..Len(lines)
        /\ h.old.len = OldCount(lines) /\ h.new.len = NewCount(lines)
    BY <1>3, KeptCounts
  <2>2. \/ OldCount(First(lines, j)) < OldCount(lines)
        \/ NewCount(First(lines, j)) < NewCount(lines)
    BY <1>3, <2>1, CountsGrow
  <2>3. /\ OldCount(First(lines, j)) \in Nat /\ NewCount(First(lines, j)) \in Nat
        /\ OldCount(lines) \in Nat /\ NewCount(lines) \in Nat
    BY <1>3, <2>1, CountsOfFirst, CountsGrow
  <2>4. open.ranges[1].len = OldCount(lines) /\ open.ranges[2].len = NewCount(lines)
    <3>1. open.ranges = <<h.old, h.new>>
      BY <1>7
    <3>2. open.ranges[1] = h.old /\ open.ranges[2] = h.new
      BY <3>1
    <3> QED
      BY <2>1, <3>2
  <2> DEFINE a1 == OldCount(lines)
             b1 == NewCount(lines)
             a2 == OldCount(First(lines, j))
             b2 == NewCount(First(lines, j))
  <2>5. open.lines = First(lines, j)
    BY <1>7
  <2>6. Complete <=> a2 >= a1 /\ b2 >= b1
    BY <2>4, <2>5 DEF Complete
  <2>7. a2 < a1 \/ b2 < b1
    BY <2>2
  <2>8. a1 \in Nat /\ b1 \in Nat /\ a2 \in Nat /\ b2 \in Nat
    BY <2>3
  <2> HIDE DEF a1, b1, a2, b2
  <2> QED
    BY <2>6, <2>7, <2>8
<1>11. ~EndsHunk
  BY <1>2, <1>4, <1>10 DEF EndsHunk
<1>12. TakeLine
  BY <1>1, <1>8, <1>9, <1>11 DEF TakeMarker, RefuseLine, CloseHunk
<1>13. /\ pos' = pos + 1 /\ UNCHANGED <<text, stage, original, modified, hunks, result>>
       /\ open' = [open EXCEPT !.lines = Append(@, Line(KindOf(Peek), Content(Peek.body, Peek.nl)))]
  BY <1>12 DEF TakeLine, Advance, input
<1>14. Line(KindOf(Peek), Content(Peek.body, Peek.nl)) = NewlineAdded(l)
  BY <1>2, <1>4, <1>6, <1>8 DEF NewlineAdded
<1>15. open' = Opened(h, Append(First(lines, j), NewlineAdded(l)), u)
  BY <1>13, <1>14 DEF Opened, u
<1>16. Remaining(IF l.line.nl THEN more ELSE Join(<<MarkerLine>>, more))'
  BY <1>2, <1>3, <1>13
<1>17. CASE l.line.nl
  <2>1. NewlineAdded(l) = l
    <3>1. l.line.nl = TRUE
      BY <1>3, <1>17 DEF Lines, Contents
    <3> QED
      BY <1>6, <3>1 DEF NewlineAdded
  <2>2. First(lines, j + 1) = Append(First(lines, j), l)
    <3>1. j \in 0..Len(lines) /\ j < Len(lines)
      BY <1>3
    <3> QED BY <1>3, <3>1, CountsOfFirst DEF l
  <2>3. UnterminatedOf(lines, j + 1) = u
    <3>1. j \in Nat
      OBVIOUS
    <3>2. UnterminatedOf(lines, j + 1) = u \cup (IF l.line.nl THEN {} ELSE {l.kind})
      BY <3>1, UnterminatedNext DEF l, u
    <3>3. u \cup {} = u
      OBVIOUS
    <3> QED BY <1>17, <3>2, <3>3
  <2>4. open' = Opened(h, First(lines, j + 1), UnterminatedOf(lines, j + 1))
    BY <1>15, <2>1, <2>2, <2>3
  <2>5. Remaining(more)'
    BY <1>16, <1>17
  <2> QED
    BY <1>13, <2>4, <2>5
<1>18. CASE ~l.line.nl
  <2>1. Remaining(Join(<<MarkerLine>>, more))'
    BY <1>16, <1>18
  <2> QED
    BY <1>13, <1>15, <1>18, <2>1 DEF l, u
<1> QED
  BY <1>17, <1>18

(* The marker of a line takes its newline off again. *)
LEMMA ReadMarker ==
  ASSUME NEW p, BarePatch(p), NEW f \in Formatters, NEW k \in 0..Len(p.hunks) - 1,
         NEW h \in BareHunks, h = p.hunks[k + 1],
         NEW j \in 1..Len(h.lines),
         stage = "lines", Next,
         NEW lines, lines = Kept(h, f).lines, ~lines[j].line.nl,
         open = Opened(h, Append(First(lines, j - 1), NewlineAdded(lines[j])), UnterminatedOf(lines, j - 1)),
         NEW more \in Seq(WrittenLine), Remaining(Join(<<MarkerLine>>, more))
  PROVE  /\ UNCHANGED <<stage, original, modified, hunks, result>>
         /\ open' = Opened(h, First(lines, j), UnterminatedOf(lines, j))
         /\ Remaining(more)'
<1> DEFINE i == j - 1
           l == lines[j]
           u == UnterminatedOf(lines, i)
           front == First(lines, i)
           read == Append(front, NewlineAdded(l))
<1>0. i \in 0..Len(h.lines) /\ i < Len(h.lines) /\ i + 1 = j /\ i \in Nat /\ j \in 1..Len(h.lines)
  BY DEF BareHunks, PatchHunks
<1>1. TakeLine \/ TakeMarker \/ RefuseLine \/ CloseHunk
  BY StepsOfStage
<1>2. /\ ~AtEnd /\ Peek = MarkerLine
      /\ pos' = pos + 1 /\ text' = text => Remaining(more)'
  <2>1. MarkerLine \in WrittenLine
    <3>1. MarkerLine \in AnyLine
      BY DEF AnyLine, MarkerLine, TextLine, Signs
    <3> QED BY <3>1 DEF WrittenLine
  <2> DEFINE rest == Join(<<MarkerLine>>, more)
             e == MarkerLine
  <2>2. rest = Join(<<e>>, more) /\ Remaining(rest) /\ e \in WrittenLine
    BY <2>1
  <2> HIDE DEF rest, e
  <2>3. /\ ~AtEnd /\ Peek = e
        /\ pos' = pos + 1 /\ text' = text => Remaining(more)'
    BY <2>2, RemainingNext
  <2> QED BY <2>3 DEF e
<1>3. /\ lines \in Seq(Lines) /\ Len(lines) = Len(h.lines) /\ l \in Lines
      /\ l = Line(l.kind, Content(l.line.body, FALSE))
  <2>1. lines \in Seq(Lines) /\ Len(lines) = Len(h.lines)
    BY KeptFacts
  <2>2. l \in Lines
    BY <1>0, <2>1
  <2> HIDE DEF l
  <2>3. l.line.nl = FALSE
    BY <2>2 DEF Lines, Contents, l
  <2>4. l = Line(l.kind, Content(l.line.body, FALSE))
    BY <2>2, <2>3 DEF Lines, Contents, Line, Content
  <2> QED BY <2>1, <2>2, <2>4
<1>4. "Context" \notin u
  BY <1>0, AfterUnterminated
<1>5. front \in Seq(Lines) /\ First(lines, j) = Append(front, l)
  <2> HIDE DEF i
  <2>1. i \in 0..Len(lines) /\ i < Len(lines)
    BY <1>0, <1>3
  <2>2. First(lines, i) \in Seq(Lines) /\ First(lines, i + 1) = Append(First(lines, i), lines[i + 1])
    BY <1>3, <2>1, CountsOfFirst
  <2> QED BY <1>0, <2>2
<1>6. UnterminatedOf(lines, j) = u \cup {l.kind}
  <2>1. ~l.line.nl /\ i + 1 = j /\ i \in Nat /\ l = lines[i + 1]
    BY <1>0
  <2> HIDE DEF l, i
  <2>2. UnterminatedOf(lines, i + 1)
          = UnterminatedOf(lines, i) \cup (IF lines[i + 1].line.nl THEN {} ELSE {lines[i + 1].kind})
    BY <2>1, UnterminatedNext
  <2>3. (IF lines[i + 1].line.nl THEN {} ELSE {lines[i + 1].kind}) = {l.kind}
    BY <2>1
  <2> QED BY <2>1, <2>2, <2>3 DEF u
<1> DEFINE added == NewlineAdded(l)
<1>7. added.kind = l.kind /\ added.line.body = l.line.body /\ added.line.nl = TRUE /\ added \in Lines
  BY <1>3 DEF NewlineAdded, Line, Content, Lines, Contents
<1> HIDE DEF l, u, front, added
<1>8. read # <<>> /\ Last(read) = added /\ Front(read) = front
  <2> DEFINE r == read
             c == Len(front)
  <2>1. /\ r \in Seq(Lines) /\ Len(r) = c + 1 /\ c \in Nat
        /\ r[c + 1] = added /\ \A x \in 1..c : r[x] = front[x]
    BY <1>5, <1>7, AppendElements DEF added
  <2> HIDE DEF read
  <2>2. r # <<>> /\ Last(r) = added
    BY <2>1 DEF Last
  <2>3. Front(r) = front
    <3> DEFINE q == SubSeq(r, 1, Len(r) - 1)
    <3>1. q \in Seq(Lines) /\ Len(q) = c /\ \A x \in 1..c : q[x] = r[x]
      BY <2>1
    <3> HIDE DEF q
    <3>2. q = front
      BY <1>5, <2>1, <3>1, SameElements
    <3> QED BY <3>2 DEF q, Front
  <2> QED BY <2>2, <2>3
<1>9. /\ open.lines = read /\ open.unterminated = u
      /\ open = Opened(h, read, u)
  BY DEF Opened, front, u, l
<1> HIDE DEF read
<1>10. IsMarker(Peek) /\ KindOf(Peek) = "None" /\ Peek.sign \notin {"@@", "@"}
  <2>1. MarkerLine.sign = "\\" /\ BlankLine.sign = "none"
    BY DEF MarkerLine, BlankLine, TextLine
  <2>2. MarkerLine # BlankLine
    BY <2>1
  <2> HIDE DEF MarkerLine
  <2>3. IsMarker(Peek) /\ Peek.sign \notin {"@@", "@"}
    BY <1>2, <2>1 DEF IsMarker
  <2>4. KindOf(Peek) = "None"
    BY <1>2, <2>1, <2>2 DEF KindOf
  <2> QED BY <2>3, <2>4
<1>11. LineError(Peek) = "none"
  BY <1>4, <1>7, <1>8, <1>9, <1>10 DEF LineError
<1>12. ~EndsHunk
  BY <1>2, <1>4, <1>9, <1>10 DEF EndsHunk
<1>13. TakeMarker
  BY <1>1, <1>10, <1>11, <1>12 DEF TakeLine, RefuseLine, CloseHunk
<1>14. /\ pos' = pos + 1 /\ UNCHANGED <<text, stage, original, modified, hunks, result>>
       /\ open' = [open EXCEPT !.lines = Append(Front(read), Line(added.kind, Content(added.line.body, FALSE))),
                               !.unterminated = u \cup {added.kind}]
  <2>1. Last(open.lines) = added
    BY <1>8, <1>9
  <2>2. /\ pos' = pos + 1 /\ UNCHANGED <<text, stage, original, modified, hunks, result>>
        /\ open' = [open EXCEPT
             !.lines = Append(Front(open.lines),
                              Line(Last(open.lines).kind, Content(Last(open.lines).line.body, FALSE))),
             !.unterminated = open.unterminated \cup {Last(open.lines).kind}]
    BY <1>13 DEF TakeMarker, Advance, input
  <2> QED
    BY <1>9, <2>1, <2>2
<1>15. Line(added.kind, Content(added.line.body, FALSE)) = l
  BY <1>3, <1>7
<1>16. open' = Opened(h, Append(front, l), u \cup {l.kind})
  BY ZenonT(40), <1>7, <1>8, <1>9, <1>14, <1>15 DEF Opened
<1>17. open' = Opened(h, First(lines, j), UnterminatedOf(lines, j))
  BY <1>5, <1>6, <1>16
<1> QED
  BY <1>2, <1>14, <1>17

(* When the lines of a hunk have been read the hunk is closed, as it was. *)
LEMMA ReadHunkEnd ==
  ASSUME NEW p, BarePatch(p), NEW f \in Formatters, NEW k \in 0..Len(p.hunks) - 1,
         NEW h \in BareHunks, h = p.hunks[k + 1],
         stage = "lines", result = "none", Next,
         NEW lines, lines = Kept(h, f).lines, NEW u,
         open = Opened(h, lines, u), hunks = First(KeptHunks(p, f), k),
         Remaining(HunksFrom(p, f, k + 1))
  PROVE  /\ UNCHANGED <<text, pos, original, modified, result>>
         /\ stage' = "hunks" /\ open' = NoHunk
         /\ hunks' = First(KeptHunks(p, f), k + 1)
         /\ Remaining(HunksFrom(p, f, k + 1))'
<1>1. TakeLine \/ TakeMarker \/ RefuseLine \/ CloseHunk
  BY StepsOfStage
<1>2. EndsHunk
  <2>1. k + 1 \in 0..Len(p.hunks)
    BY KeptHunksFacts
  <2>2. AtEnd \/ Peek.sign = "@@"
    BY <2>1, RemainingHunks
  <2> QED BY <2>2 DEF EndsHunk
<1>3. CloseHunk
  BY <1>1, <1>2 DEF TakeLine, TakeMarker, RefuseLine, InLines
<1>4. open.lines = lines /\ open.ranges = <<h.old, h.new>> /\ open.context = <<>>
  BY DEF Opened
<1>5. OldCount(lines) = h.old.len /\ NewCount(lines) = h.new.len
  BY KeptCounts
<1>6. OldCount(open.lines) = open.ranges[1].len /\ NewCount(open.lines) = open.ranges[2].len
  BY <1>4, <1>5
<1>7. /\ hunks' = Append(hunks, ParsedHunk(open.ranges, open.context, open.lines))
      /\ stage' = "hunks" /\ open' = NoHunk
      /\ UNCHANGED <<text, pos, original, modified, result>>
  BY <1>3, <1>6 DEF CloseHunk, input
<1>8. ParsedHunk(open.ranges, open.context, open.lines) = Kept(h, f)
  <2>1. Kept(h, f) = [old |-> h.old, new |-> h.new, context |-> <<>>, lines |-> lines]
    BY KeptFacts
  <2> QED
    BY <1>4, <2>1 DEF ParsedHunk
<1>9. First(KeptHunks(p, f), k + 1) = Append(First(KeptHunks(p, f), k), Kept(h, f))
  BY KeptHunksFacts
<1>10. Remaining(HunksFrom(p, f, k + 1))'
  BY <1>7 DEF Remaining
<1> QED
  BY <1>7, <1>8, <1>9, <1>10

(* Line by line the hunk is read that was written. *)
LEMMA ReadLines ==
  ASSUME NEW p, BarePatch(p), NEW f \in Formatters, ReadsLines(p, f), Next
  PROVE  ReadsLines(p, f)' \/ ReadsHunks(p, f)'
<1>1. stage = "lines" /\ result = "none" /\ NamesAre(p)
  BY DEF ReadsLines
<1>2. PICK k \in 0..Len(p.hunks) - 1 :
        /\ hunks = First(KeptHunks(p, f), k)
        /\ \E j \in 0..Len(p.hunks[k + 1].lines) : LinesRead(p, f, k, j)
  BY DEF ReadsLines
<1> DEFINE h == p.hunks[k + 1]
           lines == Kept(h, f).lines
           others == HunksFrom(p, f, k + 1)
<1>3. PICK j \in 0..Len(h.lines) : LinesRead(p, f, k, j)
  BY <1>2
<1>4. h \in BareHunks /\ Len(p.hunks) \in Nat
  BY KeptHunksFacts
<1>5. others \in Seq(WrittenLine)
  <2>1. k + 1 \in 0..Len(p.hunks)
    BY <1>4
  <2> QED BY <2>1, HunksFromNext
<1>6. Len(h.lines) \in Nat /\ lines \in Seq(Lines) /\ Len(lines) = Len(h.lines)
  <2>1. Len(h.lines) \in Nat
    BY <1>4 DEF BareHunks, PatchHunks
  <2> QED BY <1>4, <2>1, KeptFacts
<1>7. \/ /\ open = Opened(h, First(lines, j), UnterminatedOf(lines, j))
         /\ Remaining(Join(LinesFrom(h, f, j), others))
      \/ /\ j > 0 /\ ~lines[j].line.nl
         /\ open = Opened(h, Append(First(lines, j - 1), NewlineAdded(lines[j])),
                          UnterminatedOf(lines, j - 1))
         /\ Remaining(Join(<<MarkerLine>>, Join(LinesFrom(h, f, j), others)))
  BY <1>3 DEF LinesRead
<1>8. \A i \in 0..Len(h.lines) :
        /\ \/ /\ open' = Opened(h, First(lines, i), UnterminatedOf(lines, i))
              /\ Remaining(Join(LinesFrom(h, f, i), others))'
           \/ /\ i > 0 /\ ~lines[i].line.nl
              /\ open' = Opened(h, Append(First(lines, i - 1), NewlineAdded(lines[i])),
                               UnterminatedOf(lines, i - 1))
              /\ Remaining(Join(<<MarkerLine>>, Join(LinesFrom(h, f, i), others)))'
        /\ UNCHANGED <<stage, original, modified, hunks, result>>
        => ReadsLines(p, f)'
  <2> SUFFICES ASSUME NEW i \in 0..Len(h.lines),
                      \/ /\ open' = Opened(h, First(lines, i), UnterminatedOf(lines, i))
                         /\ Remaining(Join(LinesFrom(h, f, i), others))'
                      \/ /\ i > 0 /\ ~lines[i].line.nl
                         /\ open' = Opened(h, Append(First(lines, i - 1), NewlineAdded(lines[i])),
                                          UnterminatedOf(lines, i - 1))
                         /\ Remaining(Join(<<MarkerLine>>, Join(LinesFrom(h, f, i), others)))',
                      UNCHANGED <<stage, original, modified, hunks, result>>
               PROVE  ReadsLines(p, f)'
    OBVIOUS
  <2>1. LinesRead(p, f, k, i)'
    BY DEF LinesRead
  <2>2. \E x \in 0..Len(p.hunks[k + 1].lines) : LinesRead(p, f, k, x)'
    BY <2>1
  <2>3. stage' = "lines" /\ result' = "none" /\ NamesAre(p)' /\ hunks' = First(KeptHunks(p, f), k)
    BY <1>1, <1>2 DEF NamesAre
  <2> QED
    BY <2>2, <2>3 DEF ReadsLines
<1>9. CASE /\ open = Opened(h, First(lines, j), UnterminatedOf(lines, j))
           /\ Remaining(Join(LinesFrom(h, f, j), others))
  <2>1. CASE j < Len(h.lines)
    <3> DEFINE i == j + 1
    <3>1. /\ UNCHANGED <<stage, original, modified, hunks, result>>
          /\ \/ /\ open' = Opened(h, First(lines, j + 1), UnterminatedOf(lines, j + 1))
                /\ Remaining(Join(LinesFrom(h, f, j + 1), others))'
             \/ /\ ~lines[j + 1].line.nl
                /\ open' = Opened(h, Append(First(lines, j), NewlineAdded(lines[j + 1])),
                                  UnterminatedOf(lines, j))
                /\ Remaining(Join(<<MarkerLine>>, Join(LinesFrom(h, f, j + 1), others)))'
      <4> HIDE DEF h, lines, others
      <4> QED
        BY <1>1, <1>4, <1>5, <1>9, <2>1, ReadLine DEF h, lines
    <3>2. i \in 0..Len(h.lines) /\ i > 0 /\ i - 1 = j /\ j + 1 = i
      BY <1>6, <2>1
    <3> HIDE DEF i, h, lines, others
    <3> QED
      BY <1>8, <3>1, <3>2
  <2>2. CASE j = Len(h.lines)
    <3>1. First(lines, j) = lines
      BY <1>6, <2>2, WholeSeq DEF First
    <3>2. Join(LinesFrom(h, f, j), others) = others
      <4>1. LinesFrom(h, f, j) = <<>>
        BY <1>4, <2>2, LinesFromNext
      <4> HIDE DEF h, others
      <4> QED
        BY <1>5, <4>1, WholeSeq DEF Join
    <3> DEFINE u == UnterminatedOf(lines, j)
    <3>3. open = Opened(h, lines, u) /\ Remaining(HunksFrom(p, f, k + 1))
      BY <1>9, <3>1, <3>2
    <3>4. /\ UNCHANGED <<text, pos, original, modified, result>>
          /\ stage' = "hunks" /\ open' = NoHunk
          /\ hunks' = First(KeptHunks(p, f), k + 1)
          /\ Remaining(HunksFrom(p, f, k + 1))'
      <4> HIDE DEF h, lines, others, u
      <4> QED
        BY <1>1, <1>2, <1>4, <3>3, ReadHunkEnd DEF h, lines
    <3>5. k + 1 \in 0..Len(p.hunks)
      BY <1>4
    <3>6. NamesAre(p)' /\ NothingOpen'
      BY <1>1, <3>4 DEF NamesAre, NothingOpen
    <3> QED
      BY <3>4, <3>5, <3>6 DEF ReadsHunks
  <2> QED
    BY <1>6, <2>1, <2>2
<1>10. CASE /\ j > 0 /\ ~lines[j].line.nl
            /\ open = Opened(h, Append(First(lines, j - 1), NewlineAdded(lines[j])),
                             UnterminatedOf(lines, j - 1))
            /\ Remaining(Join(<<MarkerLine>>, Join(LinesFrom(h, f, j), others)))
  <2> DEFINE more == Join(LinesFrom(h, f, j), others)
  <2>1. more \in Seq(WrittenLine)
    <3>1. LinesFrom(h, f, j) \in Seq(WrittenLine)
      BY <1>4, LinesFromNext
    <3> HIDE DEF others
    <3> QED BY <1>5, <3>1, JoinAssociates
  <2>2. j \in 1..Len(h.lines)
    BY <1>6, <1>10
  <2>3. /\ ~lines[j].line.nl /\ Remaining(Join(<<MarkerLine>>, more))
        /\ open = Opened(h, Append(First(lines, j - 1), NewlineAdded(lines[j])), UnterminatedOf(lines, j - 1))
    BY <1>10
  <2> HIDE DEF more, h, lines, others
  <2>4. /\ UNCHANGED <<stage, original, modified, hunks, result>>
        /\ open' = Opened(h, First(lines, j), UnterminatedOf(lines, j))
        /\ Remaining(more)'
    BY <1>1, <1>4, <2>1, <2>2, <2>3, ReadMarker DEF h, lines
  <2>5. Remaining(Join(LinesFrom(h, f, j), others))'
    BY <2>4 DEF more
  <2> QED
    BY <1>8, <2>4, <2>5
<1> QED
  BY <1>7, <1>9, <1>10

(* No hunk header is left behind what has been read. *)
LEMMA ReadEnd ==
  ASSUME NEW p, NEW f \in Formatters, ReadsEnd(p, f), Next
  PROVE  ReadsEnd(p, f)'
<1>1. SkipTrailer /\ stage = "orphans" /\ result = "none"
  BY StepsOfStage DEF ReadsEnd
<1>2. AtEnd
  BY RemainingNone DEF ReadsEnd
<1>3. stage' = "done" /\ result' = "ok" /\ UNCHANGED <<text, pos, original, modified, hunks>>
  BY <1>1, <1>2 DEF SkipTrailer, Finish, input
<1>4. Remaining(<<>>)'
  BY <1>3 DEF ReadsEnd, Remaining
<1> QED
  BY <1>3, <1>4 DEF ReadsEnd, NamesAre

-----------------------------------------------------------------------------

(* What has been written for a patch that survives is read. *)
ReadInv ==
  written = <<>> \/
  \E w \in Writings : written = <<w>> /\ Strict /\ Reads(w.patch, w.formatter)

AllSurvive == \A w \in Writings : Survives(w)

(* The patches that are written are such. *)
LEMMA WritingsAreBare ==
  ASSUME AllSurvive, NEW w \in Writings
  PROVE  BarePatch(w.patch) /\ w.formatter \in Formatters
<1> DEFINE p == w.patch
           hs == p.hunks
           T == PatchHunks
           n == Len(hs)
<1>0. w.formatter \in Formatters
  BY WritingsAssumption
<1>1. WrittenPatch(p) /\ hs \in Seq(T)
  BY WritingsAssumption DEF WrittenPatch, PatchHunks
<1>2. \A i \in DOMAIN hs : WrittenHunk(hs[i]) /\ hs[i].context = <<>>
  BY <1>1 DEF WrittenPatch, AllSurvive, Survives, ToSet
<1> HIDE DEF hs, T
<1>3. n \in Nat /\ DOMAIN hs = 1..n /\ hs = [i \in 1..n |-> hs[i]] /\ \A i \in 1..n : hs[i] \in T
  BY <1>1
<1>4. \A i \in 1..n : hs[i] \in BareHunks
  BY <1>2, <1>3 DEF BareHunks, T
<1>5. hs \in [1..n -> BareHunks]
  BY <1>3, <1>4
<1>6. hs \in Seq(BareHunks)
  BY <1>3, <1>5, RowIsSeq
<1> QED
  BY <1>0, <1>1, <1>6 DEF BarePatch, hs

(* and their names are written as they are into bytes. *)
LEMMA WrittenNames ==
  ASSUME AllSurvive, NEW w \in Writings
  PROVE  /\ FormatName("-", "--", w.patch.original, w.formatter) = OriginalText(w.patch)
         /\ FormatName("+", "++", w.patch.modified, w.formatter) = ModifiedText(w.patch)
<1> DEFINE p == w.patch
           f == w.formatter
<1>1. /\ p.original \in Seq(Seq(Byte)) /\ p.modified \in Seq(Seq(Byte))
      /\ f.shown => \A name \in ToSet(p.original) \cup ToSet(p.modified) : NameSurvives(name)
  BY WritingsAssumption DEF WrittenPatch, AllSurvive, Survives
<1>2. /\ p.original # <<>> => p.original[1] \in ToSet(p.original)
      /\ p.modified # <<>> => p.modified[1] \in ToSet(p.modified)
  BY SMTT(30), <1>1 DEF ToSet
<1>3. /\ f.shown /\ p.original # <<>> => ShownName(p.original[1]) = WrittenName(p.original[1])
      /\ f.shown /\ p.modified # <<>> => ShownName(p.modified[1]) = WrittenName(p.modified[1])
  BY <1>1, <1>2, ShownAsWritten
<1> HIDE DEF p, f
<1>4. FormatName("-", "--", p.original, f) = OriginalText(p)
  BY <1>3 DEF FormatName, OriginalText, NameText, NameLine
<1>5. FormatName("+", "++", p.modified, f) = ModifiedText(p)
  BY <1>3 DEF FormatName, ModifiedText, NameText, NameLine
<1> QED
  BY <1>4, <1>5 DEF p, f

(* Nothing has been read at first. *)
LEMMA InitReads ==
  ASSUME AllSurvive, RTInit
  PROVE  ReadInv
<1>1. CASE WrittenText
  <2>0. PICK w \in Writings : written = <<w>> /\ text = FormatPatch(w.patch, w.formatter)
    BY <1>1 DEF WrittenText
  <2> DEFINE p == w.patch
             f == w.formatter
  <2>1. /\ text = FormatPatch(p, f)
        /\ FormatName("-", "--", p.original, f) = OriginalText(p)
        /\ FormatName("+", "++", p.modified, f) = ModifiedText(p)
    BY <2>0, WrittenNames
  <2>2. Strict /\ Begin
    BY <1>1 DEF WrittenText, Strict
  <2>3. BarePatch(p) /\ f \in Formatters
    BY <2>0, WritingsAreBare
  <2> HIDE DEF p, f
  <2>4. /\ pos = 0 /\ stage = "preamble" /\ original = <<>> /\ modified = <<>> /\ hunks = <<>>
        /\ NothingOpen
    BY <2>2 DEF Begin, Strict, RejectOrphanedHunks, DefaultOpts, NothingOpen
  <2> DEFINE a == OriginalText(p)
             b == ModifiedText(p)
             c == AfterNames(p, f)
  <2>5. text = (a \o b) \o c
    <3>1. HunkRows(p, f) = [i \in DOMAIN p.hunks |-> FormatHunk(p.hunks[i], f)]
      BY DEF HunkRows
    <3>2. FlattenSeq(HunkRows(p, f)) = c
      <4> DEFINE rows == HunkRows(p, f)
                 T == Seq(WrittenLine)
                 n == Len(p.hunks)
      <4>1. n \in Nat /\ DOMAIN p.hunks = 1..n /\ \A i \in 1..n : p.hunks[i] \in BareHunks
        BY <2>3 DEF BarePatch
      <4>2. \A i \in 1..n : FormatHunk(p.hunks[i], f) \in T
        BY <2>3, <4>1, HunkWritten
      <4> HIDE DEF T, n
      <4>3. rows \in [1..n -> T]
        BY <4>1, <4>2 DEF HunkRows
      <4> HIDE DEF rows
      <4>4. rows \in Seq(T)
        BY <4>1, <4>3, RowIsSeq
      <4>5. RowsFrom(rows, 0) = FlattenSeq(rows)
        BY <4>4, RowsFromFirst
      <4> QED
        BY <4>5 DEF AfterNames, HunksFrom, rows
    <3> QED
      BY <2>1, <3>1, <3>2 DEF FormatPatch
  <2>6. a \in Seq(WrittenLine) /\ b \in Seq(WrittenLine) /\ c \in Seq(WrittenLine)
    <3>1. /\ p.original = <<>> \/ (p.original = <<p.original[1]>> /\ p.original[1] \in Seq(Byte))
          /\ p.modified = <<>> \/ (p.modified = <<p.modified[1]>> /\ p.modified[1] \in Seq(Byte))
      <4> DEFINE N == Seq(Byte)
      <4>1. /\ p.original \in Seq(N) /\ Len(p.original) <= 1
            /\ p.modified \in Seq(N) /\ Len(p.modified) <= 1
        BY <2>3 DEF BarePatch, WrittenPatch
      <4> HIDE DEF N
      <4>2. p.original = <<>> \/ (p.original = <<p.original[1]>> /\ p.original[1] \in N)
        BY <4>1, OptionCases
      <4>3. p.modified = <<>> \/ (p.modified = <<p.modified[1]>> /\ p.modified[1] \in N)
        BY <4>1, OptionCases
      <4> QED BY <4>2, <4>3 DEF N
    <3>2. a \in Seq(WrittenLine)
      <4>1. CASE p.original = <<>>
        <5>1. a = <<>>
          BY <4>1 DEF OriginalText, NameText
        <5> HIDE DEF a
        <5> QED BY <5>1
      <4>2. CASE p.original # <<>>
        <5> DEFINE e == NameLine("-", "--", p.original[1])
        <5>1. e \in WrittenLine
          BY <3>1, <4>2, NameLineFacts
        <5>2. a = <<e>>
          BY <4>2 DEF OriginalText, NameText, NameLine
        <5> HIDE DEF a, e
        <5> QED BY <5>1, <5>2
      <4> QED BY <4>1, <4>2
    <3>3. b \in Seq(WrittenLine)
      <4>1. CASE p.modified = <<>>
        <5>1. b = <<>>
          BY <4>1 DEF ModifiedText, NameText
        <5> HIDE DEF b
        <5> QED BY <5>1
      <4>2. CASE p.modified # <<>>
        <5> DEFINE e == NameLine("+", "++", p.modified[1])
        <5>1. e \in WrittenLine
          BY <3>1, <4>2, NameLineFacts
        <5>2. b = <<e>>
          BY <4>2 DEF ModifiedText, NameText, NameLine
        <5> HIDE DEF b, e
        <5> QED BY <5>1, <5>2
      <4> QED BY <4>1, <4>2
    <3>4. c \in Seq(WrittenLine)
      <4>1. 0 \in 0..Len(p.hunks)
        BY <2>3 DEF BarePatch
      <4> QED BY <2>3, <4>1, HunksFromNext DEF AfterNames
    <3> QED BY <3>2, <3>3, <3>4
  <2>7. text = WholeText(p, f) /\ WholeText(p, f) \in Seq(WrittenLine)
    <3> DEFINE whole == Join(a, Join(b, c))
    <3>0. whole = WholeText(p, f)
      BY DEF WholeText, AfterOriginal
    <3> HIDE DEF a, b, c
    <3>1. Join(Join(a, b), c) = Join(a, Join(b, c))
      BY <2>6, JoinAssociates
    <3>2. text = whole
      BY <2>5, <3>1 DEF Join
    <3>3. whole \in Seq(WrittenLine)
      <4>1. Join(b, c) \in Seq(WrittenLine)
        BY <2>6, JoinAssociates
      <4> QED BY <2>6, <4>1, JoinAssociates
    <3> QED BY <3>0, <3>2, <3>3
  <2>8. Remaining(WholeText(p, f))
    <3> DEFINE none == <<>>
               whole == WholeText(p, f)
    <3>1. none \in Seq(WrittenLine) /\ Len(none) = pos
      BY <2>4
    <3>2. whole \in Seq(WrittenLine) /\ text = whole
      BY <2>7
    <3> HIDE DEF whole
    <3>3. Join(<<>>, whole) = whole
      BY <3>2, WholeSeq DEF Join
    <3>4. text = Join(none, whole)
      BY <3>2, <3>3
    <3> HIDE DEF none
    <3> QED BY <3>1, <3>4 DEF Remaining, whole
  <2>9. Reads(p, f)
    BY <2>4, <2>8 DEF Reads, ReadsPreamble
  <2> QED
    BY <2>0, <2>2, <2>9 DEF ReadInv, p, f
<1>2. CASE OtherText
  BY <1>2 DEF OtherText, ReadInv
<1> QED
  BY <1>1, <1>2 DEF RTInit

(* Whatever step is taken, what has been read remains what was written. *)
LEMMA NextReads ==
  ASSUME AllSurvive, ReadInv, [RTNext]_fvars
  PROVE  ReadInv'
<1>1. CASE UNCHANGED fvars
  <2>1. UNCHANGED <<text, opts, pos, stage, original, modified, hunks, open, result, written>>
    BY <1>1 DEF fvars, pvars
  <2>2. ASSUME NEW p, NEW f, Reads(p, f) PROVE Reads(p, f)'
    BY <2>1, <2>2 DEF Reads, ReadsPreamble, ReadsNames, ReadsHunks, ReadsLines, ReadsEnd,
                      LinesRead, NothingOpen, NamesAre, Remaining
  <2>3. Strict => Strict'
    BY <2>1 DEF Strict
  <2>4. CASE written = <<>>
    BY <2>1, <2>4 DEF ReadInv
  <2>5. CASE written # <<>>
    <3>1. PICK w \in Writings : written = <<w>> /\ Strict /\ Reads(w.patch, w.formatter)
      BY <2>5 DEF ReadInv
    <3>2. written' = <<w>> /\ Strict' /\ Reads(w.patch, w.formatter)'
      BY <2>1, <2>2, <2>3, <3>1
    <3> QED
      BY <3>2 DEF ReadInv
  <2> QED
    BY <2>4, <2>5
<1>2. CASE RTNext
  <2>1. Next /\ written' = written
    BY <1>2 DEF RTNext
  <2>2. CASE written = <<>>
    BY <2>1, <2>2 DEF ReadInv
  <2>3. CASE written # <<>>
    <3>0. PICK w \in Writings : written = <<w>> /\ Strict /\ Reads(w.patch, w.formatter)
      BY <2>3 DEF ReadInv
    <3> DEFINE p == w.patch
               f == w.formatter
    <3>1. Strict /\ Reads(p, f)
      BY <3>0
    <3>2. BarePatch(p) /\ f \in Formatters
      BY <3>0, WritingsAreBare
    <3> HIDE DEF p, f
    <3>3. Strict'
      <4>1. opts' = opts
        BY <2>1 DEF Next, SkipPreamble, TakeName, RefuseName, EndNames, OpenHunk, RefuseHunk, EndHunks,
                    TakeLine, TakeMarker, RefuseLine, CloseHunk, SkipTrailer, input
      <4> QED BY <3>1, <4>1 DEF Strict
    <3>4. Reads(p, f)'
      <4>1. ReadsPreamble(p, f) => ReadsNames(p, f)'
        BY <2>1, <3>2, ReadPreamble
      <4>2. ReadsNames(p, f) => ReadsNames(p, f)' \/ ReadsHunks(p, f)'
        BY <2>1, <3>2, ReadNames
      <4>3. ReadsHunks(p, f) => ReadsLines(p, f)' \/ ReadsEnd(p, f)'
        BY <2>1, <3>1, <3>2, ReadHunks
      <4>4. ReadsLines(p, f) => ReadsLines(p, f)' \/ ReadsHunks(p, f)'
        BY <2>1, <3>2, ReadLines
      <4>5. ReadsEnd(p, f) => ReadsEnd(p, f)'
        BY <2>1, <3>2, ReadEnd
      <4> QED
        BY <3>1, <4>1, <4>2, <4>3, <4>4, <4>5 DEF Reads
    <3>5. Reads(w.patch, w.formatter)'
      BY <3>4 DEF p, f
    <3>6. written' = <<w>>
      BY <2>1, <3>0
    <3> QED
      BY <3>3, <3>5, <3>6 DEF ReadInv
  <2> QED
    BY <2>2, <2>3
<1> QED
  BY <1>1, <1>2

(* At the end this is the patch, or what is kept of it. *)
LEMMA ReadInvReadsBack ==
  ASSUME ReadInv
  PROVE  ReadsBack
<1>1. CASE written = <<>>
  BY <1>1 DEF ReadsBack, ToSet
<1>2. CASE written # <<>>
  <2>1. PICK w \in Writings : written = <<w>> /\ Reads(w.patch, w.formatter)
    BY <1>2 DEF ReadInv
  <2>2. ToSet(written) = {w}
    BY <2>1 DEF ToSet
  <2> DEFINE p == w.patch
             f == w.formatter
  <2>3. Reads(p, f)
    BY <2>1
  <2>4. ASSUME stage = "done" PROVE result = "ok" /\ NamesAre(p) /\ hunks = KeptHunks(p, f)
    <3> HIDE DEF p, f
    <3> QED
      BY <2>3, <2>4 DEF Reads, ReadsPreamble, ReadsNames, ReadsHunks, ReadsLines, ReadsEnd, NothingOpen
  <2> QED
    BY <2>2, <2>4 DEF ReadsBack, NamesAre, KeptHunks
<1> QED
  BY <1>1, <1>2

(***************************************************************************)
(* diff/tests.rs, assert_patch!: a patch that has been written is read     *)
(* back as the same patch, or, if the formatter leaves the no-newline      *)
(* message out, as that patch with a newline at the end of both files.     *)
(* This holds of every patch whose hunks count their lines and are in      *)
(* order, as create_patch makes them, with any lines and, written into     *)
(* bytes, any names.  What Survives excludes is not read back as it was.   *)
(***************************************************************************)
THEOREM WrittenPatchesReadBack ==
  ASSUME \A w \in Writings : Survives(w)
  PROVE  RTSpec => []ReadsBack
<1>1. AllSurvive
  BY DEF AllSurvive
<1>2. RTInit => ReadInv
  BY <1>1, InitReads
<1>3. ReadInv /\ [RTNext]_fvars => ReadInv'
  BY <1>1, NextReads
<1>4. ReadInv => ReadsBack
  BY ReadInvReadsBack
<1> QED
  BY <1>2, <1>3, <1>4, PTL DEF RTSpec

=============================================================================
