----------------------------- MODULE DiffRanges -----------------------------
(***************************************************************************)
(* The data that every stage of the diff and merge pipelines shares: a     *)
(* Range is an (offset, len) window of a text, a DiffRange is one run of   *)
(* equal, deleted or inserted elements.  A text is a sequence of symbols   *)
(* (the line ids that utils::Classifier hands out), so that a Range only   *)
(* needs its two numbers.  Everything here is a pure operator.             *)
(***************************************************************************)
EXTENDS Integers, Sequences

Min2(a, b) == IF a <= b THEN a ELSE b
Max2(a, b) == IF a >= b THEN a ELSE b
SaturatingSub(a, b) == Max2(a - b, 0)

-----------------------------------------------------------------------------
(* Ranges *)

MkRange(offset, len) == [offset |-> offset, len |-> len]
Ranges == [offset : Nat, len : Nat]

(* Range::empty(), also the unused half of a Delete or an Insert. *)
EmptyRange == MkRange(0, 0)

RangeEnd(r) == r.offset + r.len

GrowUp(r, a)      == MkRange(r.offset - a, r.len + a)
GrowDown(r, a)    == MkRange(r.offset, r.len + a)
ShrinkFront(r, a) == MkRange(r.offset + a, r.len - a)
ShrinkBack(r, a)  == MkRange(r.offset, r.len - a)
ShiftUp(r, a)     == MkRange(r.offset - a, r.len)
ShiftDown(r, a)   == MkRange(r.offset + a, r.len)

(* slice(..to) and slice(from..); split_at(mid) is the pair of them. *)
SliceTo(r, to)     == MkRange(r.offset, to)
SliceFrom(r, from) == MkRange(r.offset + from, r.len - from)
SliceBack(r, n)    == SliceFrom(r, r.len - n)

(* as_slice: the symbols of text that r designates. *)
AsSlice(text, r) == SubSeq(text, r.offset + 1, RangeEnd(r))

(* common_prefix_len and common_suffix_len of range r of s and range q of t. *)
CommonPrefixLen(s, r, t, q) ==
  LET most == Min2(r.len, q.len)
  IN  CHOOSE l \in 0..most :
        /\ \A i \in 1..l : s[r.offset + i] = t[q.offset + i]
        /\ l < most => s[r.offset + l + 1] # t[q.offset + l + 1]

CommonSuffixLen(s, r, t, q) ==
  LET most == Min2(r.len, q.len)
  IN  CHOOSE l \in 0..most :
        /\ \A i \in 0..l - 1 : s[RangeEnd(r) - i] = t[RangeEnd(q) - i]
        /\ l < most => s[RangeEnd(r) - l] # t[RangeEnd(q) - l]

-----------------------------------------------------------------------------
(* DiffRanges *)

Equal(old, new) == [kind |-> "Equal",  old |-> old,        new |-> new]
Delete(old)     == [kind |-> "Delete", old |-> old,        new |-> EmptyRange]
Insert(new)     == [kind |-> "Insert", old |-> EmptyRange, new |-> new]

DiffRange == [kind : {"Equal", "Delete", "Insert"}, old : Ranges, new : Ranges]

InOld(diff) == diff.kind # "Insert"
InNew(diff) == diff.kind # "Delete"
IsEdit(diff) == diff.kind # "Equal"

(* inner(): the range that len() and is_empty() look at. *)
Inner(diff) == IF InOld(diff) THEN diff.old ELSE diff.new
LenOf(diff) == Inner(diff).len
IsEmpty(diff) == LenOf(diff) = 0

(* for_each: a range operation applied to the ranges the variant carries. *)
ForEach(diff, Op(_)) ==
  [diff EXCEPT !.old = IF InOld(diff) THEN Op(@) ELSE @,
               !.new = IF InNew(diff) THEN Op(@) ELSE @]

=============================================================================
