----------------------------- MODULE ApplyPatch -----------------------------
(***************************************************************************)
(* apply.rs: apply() patches an image of the base text hunk by hunk.  One  *)
(* step searches a place for one hunk, from the line its new range names   *)
(* outwards, and replaces the lines there.  Hunks count from 1, positions  *)
(* in the image from 0.                                                    *)
(***************************************************************************)
EXTENDS PatchLines

CONSTANTS
  Bases,     \* the texts that are patched
  Patches    \* the lists of hunks that are applied to them

ASSUME ApplyAssumption == Bases \subseteq Seq(Symbol) /\ Patches \subseteq Seq(PatchHunk)

VARIABLES
  base,     \* the text the image was made from
  patch,    \* the hunks that are applied
  image,    \* the lines, each with a flag: has a hunk put it here?
  next,     \* the hunk to apply next
  result    \* "applying", "ok" or "error" (ApplyError(next))

avars == <<base, patch, image, next, result>>

-----------------------------------------------------------------------------

ImageLine(line, patched) == [line |-> line, patched |-> patched]
Unpatched(text) == [i \in DOMAIN text |-> ImageLine(text[i], FALSE)]
Text(img) == [i \in DOMAIN img |-> img[i].line]

(* Mutated Matches. *)
MatchesPatched(img, lines, pos) ==
  LET pre == PreImageOf(lines)
      window == SubSeq(img, pos + 1, pos + Len(pre))
  IN  /\ pos + Len(pre) <= Len(img)
      /\ Text(window) = pre

(* match_fragment: the hunk's old lines stand at pos, none of them patched. *)
Matches(img, lines, pos) ==
  LET pre == PreImageOf(lines)
      window == SubSeq(img, pos + 1, pos + Len(pre))
  IN  /\ pos + Len(pre) <= Len(img)
      /\ \A i \in DOMAIN window : ~window[i].patched
      /\ Text(window) = pre

(* Mutated StartPos. *)
OldStartPos(img, h) == Min2(SaturatingSub(h.old.start, 1), Len(img))

(* Where the search starts, and the positions interleave() visits: those   *)
(* before the start and those after it that are inside the image.          *)
StartPos(img, h) == Min2(SaturatingSub(h.new.start, 1), Len(img))
Candidates(img, h) == {StartPos(img, h)} \cup 0..Len(img) - 1

(* ... in the order of their distance, backward first. *)
Before(p, q, start) ==
  LET dist(x) == Max2(x - start, start - x)
  IN  dist(p) < dist(q) \/ (dist(p) = dist(q) /\ p < q)

Places(img, h) == {p \in Candidates(img, h) : Matches(img, h.lines, p)}
FindPosition(img, h) ==
  CHOOSE p \in Places(img, h) :
    \A q \in Places(img, h) \ {p} : Before(p, q, StartPos(img, h))

(* Vec::splice *)
Splice(img, h, pos) ==
  SubSeq(img, 1, pos)
  \o [i \in DOMAIN PostImageOf(h.lines) |-> ImageLine(PostImageOf(h.lines)[i], TRUE)]
  \o SubSeq(img, pos + Len(PreImageOf(h.lines)) + 1, Len(img))

-----------------------------------------------------------------------------

ApplyInit ==
  /\ base \in Bases /\ patch \in Patches
  /\ image = Unpatched(base) /\ next = 1 /\ result = "applying"

ApplyHunk ==
  /\ result = "applying" /\ next <= Len(patch)
  /\ Places(image, patch[next]) # {}
  /\ image' = Splice(image, patch[next], FindPosition(image, patch[next]))
  /\ next' = next + 1
  /\ UNCHANGED <<base, patch, result>>

(* Mutated RejectHunk. *)
SkipHunk ==
  /\ result = "applying"
  /\ next <= Len(patch) => Places(image, patch[next]) = {}
  /\ next' = next + 1
  /\ UNCHANGED <<base, patch, image, result>>

RejectHunk ==
  /\ result = "applying" /\ next <= Len(patch)
  /\ Places(image, patch[next]) = {}
  /\ result' = "error"
  /\ UNCHANGED <<base, patch, image, next>>

ReturnImage ==
  /\ result = "applying" /\ next > Len(patch)
  /\ result' = "ok"
  /\ UNCHANGED <<base, patch, image, next>>

ApplyNext == ApplyHunk \/ RejectHunk \/ ReturnImage

-----------------------------------------------------------------------------
(* Properties *)

ApplyTypeOK ==
  /\ base \in Seq(Symbol)
  /\ image \in Seq([line : Symbol, patched : BOOLEAN])
  /\ next \in 1..Len(patch) + 1
  /\ result \in {"applying", "ok", "error"}

Part(img, patched) ==
  FlattenSeq([i \in DOMAIN img |-> IF img[i].patched = patched THEN <<img[i].line>> ELSE <<>>])

(* s is t with some elements left out. *)
IsSubsequence(s, t) ==
  \E kept \in SUBSET DOMAIN t :
    /\ Cardinality(kept) = Len(s)
    /\ \A i \in kept : t[i] = s[Cardinality({j \in kept : j <= i})]

(***************************************************************************)
(* However far the search has to look, patch never undo each other: a line *)
(* an earlier hunk has put into the image is not matched, removed or       *)
(* reordered by a later one, and the lines of the base that are left are   *)
(* in their old order.                                                     *)
(***************************************************************************)
KeepsPatchedStep ==
  /\ IsSubsequence(Part(image, TRUE), Part(image', TRUE))
  /\ IsSubsequence(Part(image', FALSE), Part(image, FALSE))
KeepsPatchedLines == [][result = "applying" => KeepsPatchedStep]_avars

(***************************************************************************)
(* An image that is returned has seen every hunk in full: it consists of   *)
(* all their new lines and of as many lines of the base as they leave.     *)
(***************************************************************************)
TotalOld == SumUpTo([i \in DOMAIN patch |-> OldCount(patch[i].lines)], Len(patch))
TotalNew == SumUpTo([i \in DOMAIN patch |-> NewCount(patch[i].lines)], Len(patch))
AppliesAll ==
  result = "ok" =>
    /\ Len(Part(image, TRUE)) = TotalNew
    /\ Len(Part(image, FALSE)) = Len(base) - TotalOld

=============================================================================
