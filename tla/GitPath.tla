------------------------------ MODULE GitPath ------------------------------
(***************************************************************************)
(* parse_diff_git_path of patch_set/parse.rs: the two paths of a           *)
(* "diff --git " line.  Unquoted, a space separates them that may as well  *)
(* be a part of them; that old and new path only differ in their prefixes  *)
(* is what decides.  Pure operators; results are Options.                  *)
(***************************************************************************)
EXTENDS DiffRanges, FileNames

Space == 32
Slash == 47

(* longest_common_path_suffix of range r of s and range q of t: how long   *)
(* it is, 0 for None.  It starts after the outermost slash in common.      *)
SharedPathLen(s, r, t, q) ==
  LET n == CommonSuffixLen(s, r, t, q)
  IN  IF n = r.len /\ n = q.len THEN n
      ELSE Max({0} \cup {k \in 1..n - 1 : s[RangeEnd(r) - k] = Slash})

SplitAround(line, i) == <<SubSeq(line, 1, i - 1), SubSeq(line, i + 1, Len(line))>>

(* How much the two sides of the space at line[i] share. *)
SharedLen(line, i) == SharedPathLen(line, MkRange(0, i - 1), line, MkRange(i, Len(line) - i))

Splits(line) == {i \in 2..Len(line) - 1 : line[i] = Space /\ SharedLen(line, i) > 0}

(* Mutated UnquotedPath. *)
UnquotedPathFirst(line) ==
  IF Splits(line) = {} THEN <<>>
  ELSE <<SplitAround(line, CHOOSE i \in Splits(line) : \A j \in Splits(line) : i <= j)>>

(* The split that shares most; of several the first. *)
UnquotedPath(line) ==
  LET Best(i) == \A j \in Splits(line) :
        \/ SharedLen(line, i) > SharedLen(line, j)
        \/ SharedLen(line, i) = SharedLen(line, j) /\ i <= j
  IN  IF Splits(line) = {} THEN <<>>
      ELSE <<SplitAround(line, CHOOSE i \in Splits(line) : Best(i))>>

(* Where the quoted token at the start of the line ends; 0 if it does not. *)
ClosingQuote(line) ==
  LET from[i \in 2..Len(line) + 2] ==
        IF i > Len(line) THEN 0
        ELSE IF line[i] = Quote THEN i
        ELSE IF line[i] = Backslash THEN from[i + 2]
        ELSE from[i + 1]
  IN  from[2]

(* The two tokens of a line with a quoted one. *)
QuotedTokens(line) ==
  LET close == ClosingQuote(line)
      opens == {i \in 1..Len(line) - 1 : line[i] = Space /\ line[i + 1] = Quote}
  IN  IF line[1] = Quote
      THEN IF close = 0 \/ close = Len(line) THEN <<>>
           ELSE IF line[close + 1] # Space THEN <<>> ELSE <<SplitAround(line, close + 1)>>
      ELSE IF opens = {} THEN <<>>
           ELSE <<SplitAround(line, CHOOSE i \in opens : \A j \in opens : i <= j)>>

QuotedPath(line) ==
  LET read == {<<EscapedFilename(t[1]), EscapedFilename(t[2])>> : t \in ToSet(QuotedTokens(line))}
      Fit(o, m) == /\ o.error = "none" /\ m.error = "none"
                   /\ SharedPathLen(o.name, MkRange(0, Len(o.name)),
                                    m.name, MkRange(0, Len(m.name))) > 0
  IN  SetToSeq({<<p[1].name, p[2].name>> : p \in {p \in read : Fit(p[1], p[2])}})

DiffGitPath(line) ==
  IF line # <<>> /\ Quote \in {line[1], Last(line)} THEN QuotedPath(line) ELSE UnquotedPath(line)

=============================================================================
