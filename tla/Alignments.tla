----------------------------- MODULE Alignments -----------------------------
(***************************************************************************)
(* What a list of DiffRanges has to be to describe how one text becomes    *)
(* another, and the edit distance it is measured against.  Nothing here    *)
(* models code: these are the reference definitions the properties of      *)
(* MyersDiff, Compact, Hunks and Merge are stated with.                    *)
(***************************************************************************)
EXTENDS DiffRanges, FiniteSets, FiniteSetsExt

OldLen(diff) == IF InOld(diff) THEN diff.old.len ELSE 0
NewLen(diff) == IF InNew(diff) THEN diff.new.len ELSE 0
EditLen(diff) == IF IsEdit(diff) THEN LenOf(diff) ELSE 0

(* The sum of the first n of a row of numbers. *)
SumUpTo(numbers, n) ==
  LET sum[i \in 0..n] == IF i = 0 THEN 0 ELSE sum[i - 1] + numbers[i]
  IN  sum[n]

(* How many elements of the old and new text the first n items consume. *)
OldLens(diffs) == [i \in DOMAIN diffs |-> OldLen(diffs[i])]
NewLens(diffs) == [i \in DOMAIN diffs |-> NewLen(diffs[i])]
EditLens(diffs) == [i \in DOMAIN diffs |-> EditLen(diffs[i])]
OldUpTo(diffs, n) == SumUpTo(OldLens(diffs), n)
NewUpTo(diffs, n) == SumUpTo(NewLens(diffs), n)
Cost(diffs) == SumUpTo(EditLens(diffs), Len(diffs))

(***************************************************************************)
(* The items take up both texts from the front without a gap or an overlap *)
(* and stay inside them.                                                   *)
(***************************************************************************)
Contiguous(diffs, old, new) ==
  \A i \in DOMAIN diffs :
    /\ InOld(diffs[i]) => /\ diffs[i].old.offset = OldUpTo(diffs, i - 1)
                          /\ RangeEnd(diffs[i].old) <= Len(old)
    /\ InNew(diffs[i]) => /\ diffs[i].new.offset = NewUpTo(diffs, i - 1)
                          /\ RangeEnd(diffs[i].new) <= Len(new)

(* ... they reach the end of both ... *)
Covers(diffs, old, new) ==
  /\ OldUpTo(diffs, Len(diffs)) = Len(old)
  /\ NewUpTo(diffs, Len(diffs)) = Len(new)

(* ... and an Equal item equates equal text. *)
EquatesEqual(diffs, old, new) ==
  \A i \in DOMAIN diffs :
    ~IsEdit(diffs[i]) => AsSlice(old, diffs[i].old) = AsSlice(new, diffs[i].new)

Aligns(diffs, old, new) ==
  /\ Contiguous(diffs, old, new)
  /\ Covers(diffs, old, new)
  /\ EquatesEqual(diffs, old, new)

(***************************************************************************)
(* The length of a shortest edit script that turns a[1..i] into b[1..j],   *)
(* by the textbook recurrence.                                             *)
(***************************************************************************)
EditDistance(a, b) ==
  LET dist[p \in (0..Len(a)) \X (0..Len(b))] ==
        LET i == p[1]
            j == p[2]
        IN  IF i = 0 \/ j = 0 THEN i + j
            ELSE IF a[i] = b[j] THEN dist[<<i - 1, j - 1>>]
            ELSE 1 + Min2(dist[<<i - 1, j>>], dist[<<i, j - 1>>])
  IN  dist[<<Len(a), Len(b)>>]

(***************************************************************************)
(* What diff_slice promises: a shortest alignment without empty items, in  *)
(* which no edit follows one of its own kind.                              *)
(***************************************************************************)
IsDiff(diffs, old, new) ==
  /\ Aligns(diffs, old, new)
  /\ Cost(diffs) = EditDistance(old, new)
  /\ \A i \in DOMAIN diffs :
       /\ ~IsEmpty(diffs[i])
       /\ i > 1 /\ IsEdit(diffs[i]) => diffs[i].kind # diffs[i - 1].kind

=============================================================================
