-------------------------- MODULE DiffSlice_proofs --------------------------
(***************************************************************************)
(* What compact() keeps, for texts of any length and whatever alignment of *)
(* them it is given: after every step the list describes the same two      *)
(* texts at the same cost.  And what diff_slice() promises its callers.    *)
(***************************************************************************)
EXTENDS DiffSlice, MyersDiff_proofs

(***************************************************************************)
(* The inductive invariant of compact(): the list leads from the           *)
(* beginnings of the texts to their ends, and what it equates is equal.    *)
(***************************************************************************)
Leads(ds, x, y) == ds \in Seq(Matching(old, new)) /\ Path(ds, x, y, Len(old), Len(new))
Good(ds) == Leads(ds, 0, 0)

CompactInv ==
  /\ CompactTypeOK
  /\ mode = "idle" => pass = "Delete" /\ pointer = 1
  /\ mode # "idle" => Good(diffs)

(* The next l elements of the texts are the same. *)
SameText(x, y, l) == \A i \in 1..l : old[x + i] = new[y + i]

-----------------------------------------------------------------------------
(* One item *)

(* Which ranges of an item an operation is applied to. *)
OnOld(diff, range) == IF InOld(diff) THEN range ELSE diff.old
OnNew(diff, range) == IF InNew(diff) THEN range ELSE diff.new
Made(diff, o, n) == [kind |-> diff.kind, old |-> OnOld(diff, o), new |-> OnNew(diff, n)]

(* A range operation on the ranges that an item carries. *)
LEMMA ForEachItem ==
  ASSUME NEW diff \in DiffRange, NEW l
  PROVE  /\ Up(diff, l) = Made(diff, ShiftUp(diff.old, l), ShiftUp(diff.new, l))
         /\ Down(diff, l) = Made(diff, ShiftDown(diff.old, l), ShiftDown(diff.new, l))
         /\ GrownUp(diff, l) = Made(diff, GrowUp(diff.old, l), GrowUp(diff.new, l))
         /\ GrownDown(diff, l) = Made(diff, GrowDown(diff.old, l), GrowDown(diff.new, l))
         /\ ShrunkBack(diff, l) = Made(diff, ShrinkBack(diff.old, l), ShrinkBack(diff.new, l))
         /\ ShrunkFront(diff, l) = Made(diff, ShrinkFront(diff.old, l), ShrinkFront(diff.new, l))
<1>1. ASSUME NEW o, NEW n
      PROVE  [diff EXCEPT !.old = o, !.new = n] = [kind |-> diff.kind, old |-> o, new |-> n]
  <2> DEFINE f == [x \in {"kind", "old", "new"} |->
                     IF x = "new" THEN n ELSE IF x = "old" THEN o ELSE diff[x]]
  <2>1. [diff EXCEPT !.old = o, !.new = n] = f
    BY DEF DiffRange
  <2>2. [kind |-> diff.kind, old |-> o, new |-> n] = f
    OBVIOUS
  <2> QED
    BY <2>1, <2>2
<1>2. Up(diff, l) = Made(diff, ShiftUp(diff.old, l), ShiftUp(diff.new, l))
  BY <1>1 DEF Up, ForEach, Made, OnOld, OnNew
<1>3. Down(diff, l) = Made(diff, ShiftDown(diff.old, l), ShiftDown(diff.new, l))
  BY <1>1 DEF Down, ForEach, Made, OnOld, OnNew
<1>4. GrownUp(diff, l) = Made(diff, GrowUp(diff.old, l), GrowUp(diff.new, l))
  BY <1>1 DEF GrownUp, ForEach, Made, OnOld, OnNew
<1>5. GrownDown(diff, l) = Made(diff, GrowDown(diff.old, l), GrowDown(diff.new, l))
  BY <1>1 DEF GrownDown, ForEach, Made, OnOld, OnNew
<1>6. ShrunkBack(diff, l) = Made(diff, ShrinkBack(diff.old, l), ShrinkBack(diff.new, l))
  BY <1>1 DEF ShrunkBack, ForEach, Made, OnOld, OnNew
<1>7. ShrunkFront(diff, l) = Made(diff, ShrinkFront(diff.old, l), ShrinkFront(diff.new, l))
  BY <1>1 DEF ShrunkFront, ForEach, Made, OnOld, OnNew
<1> QED
  BY <1>2, <1>3, <1>4, <1>5, <1>6, <1>7

(* An Equal of equal text, between two places. *)
LEMMA MatchingEqual ==
  ASSUME NEW x \in Nat, NEW y \in Nat, NEW l \in Nat,
         NEW diff, diff = Equal(MkRange(x, l), MkRange(y, l)), SameText(x, y, l)
  PROVE  /\ diff \in Matching(old, new) /\ diff.kind = "Equal" /\ Begins(diff, x, y)
         /\ OldLen(diff) = l /\ NewLen(diff) = l
<1>1. /\ diff.kind = "Equal" /\ diff.old = MkRange(x, l) /\ diff.new = MkRange(y, l)
      /\ MkRange(x, l) \in Ranges /\ MkRange(y, l) \in Ranges
      /\ MkRange(x, l).offset = x /\ MkRange(x, l).len = l
      /\ MkRange(y, l).offset = y /\ MkRange(y, l).len = l
  BY DEF Equal, MkRange, Ranges
<1>2. diff \in DiffRange
  BY <1>1 DEF Equal, DiffRange
<1>3. diff \in Matching(old, new)
  BY <1>1, <1>2 DEF Matching, SameText
<1>4. Begins(diff, x, y) /\ OldLen(diff) = l /\ NewLen(diff) = l
  BY <1>1 DEF Begins, OldLen, NewLen, InOld, InNew
<1> QED
  BY <1>1, <1>3, <1>4

(* What a matching Equal equates, seen from where it begins. *)
LEMMA EqualElements ==
  ASSUME NEW diff \in Matching(old, new), diff.kind = "Equal", NEW x, NEW y, Begins(diff, x, y)
  PROVE  /\ diff.old.offset = x /\ diff.new.offset = y /\ diff.new.len = diff.old.len
         /\ \A i \in 1..diff.old.len : old[x + i] = new[y + i]
         /\ diff = Equal(MkRange(x, diff.old.len), MkRange(y, diff.old.len))
<1>1. diff \in DiffRange /\ ~IsEdit(diff) /\ InOld(diff) /\ InNew(diff)
  BY DEF Matching, IsEdit, InOld, InNew
<1>2. diff.old.offset = x /\ diff.new.offset = y /\ diff.new.len = diff.old.len
  BY <1>1 DEF Begins, Matching
<1>3. \A i \in 1..diff.old.len : old[x + i] = new[y + i]
  BY <1>1, <1>2 DEF Matching
<1>4. diff = Equal(MkRange(x, diff.old.len), MkRange(y, diff.old.len))
  <2>1. diff = [kind |-> diff.kind, old |-> diff.old, new |-> diff.new]
    BY <1>1 DEF DiffRange
  <2>2. /\ diff.old = [offset |-> diff.old.offset, len |-> diff.old.len]
        /\ diff.new = [offset |-> diff.new.offset, len |-> diff.new.len]
    BY <1>1 DEF DiffRange, Ranges
  <2> QED
    BY <1>2, <2>1, <2>2 DEF Equal, MkRange
<1> QED
  BY <1>2, <1>3, <1>4

-----------------------------------------------------------------------------
(* Shifting *)

(***************************************************************************)
(* The text by which an edit can move up: it is at the end of the Equal    *)
(* above and of the edit, so that it is the same on both sides once the    *)
(* edit is gone from there.                                                *)
(***************************************************************************)
LEMMA UpLenFacing ==
  ASSUME NEW this \in Matching(old, new), IsEdit(this),
         NEW prev \in Matching(old, new), prev.kind = "Equal",
         NEW x \in Nat, NEW y \in Nat, Begins(prev, x, y),
         Begins(this, x + prev.old.len, y + prev.old.len)
  PROVE  LET l == UpLen(this, prev)
             u == x + prev.old.len + OldLen(this)
             v == y + prev.old.len + NewLen(this)
         IN  /\ l \in 0..prev.old.len /\ l \in 0..LenOf(this)
             /\ SameText(u - l, v - l, l)
             /\ LeftBelow(this, prev, l) = Equal(MkRange(u - l, l), MkRange(v - l, l))
<1> DEFINE l == UpLen(this, prev)
           a == prev.old.len
           u == x + a + OldLen(this)
           v == y + a + NewLen(this)
<1>1. /\ this \in DiffRange /\ prev \in DiffRange /\ this.kind \in {"Insert", "Delete"}
  BY DEF Matching, DiffRange, IsEdit
<1>2. /\ prev.old.offset = x /\ prev.new.offset = y /\ prev.new.len = a
      /\ prev.old \in Ranges /\ prev.new \in Ranges /\ a \in Nat
  BY <1>1, EqualElements, ItemLens
<1>3. CASE this.kind = "Insert"
  <2> DEFINE r == this.new
             q == prev.old
  <2>1. /\ r \in Ranges /\ r.offset = y + a /\ r.len \in Nat /\ OldLen(this) = 0
        /\ NewLen(this) = r.len /\ LenOf(this) = r.len
    BY <1>1, <1>3, ItemLens DEF Begins
  <2>2. l = CommonSuffixLen(new, r, old, q)
    BY <1>3 DEF UpLen
  <2>3. /\ l \in 0..r.len /\ l \in 0..q.len
        /\ \A i \in 0..l - 1 : new[RangeEnd(r) - i] = old[RangeEnd(q) - i]
    <3>1. r \in Ranges /\ q \in Ranges /\ l = CommonSuffixLen(new, r, old, q)
      BY <1>2, <2>1, <2>2
    <3> HIDE DEF l, r, q
    <3>2. l \in 0..r.len
      BY <3>1, CommonSuffixFacts
    <3>3. l \in 0..q.len
      BY <3>1, CommonSuffixFacts
    <3>4. \A i \in 0..l - 1 : new[RangeEnd(r) - i] = old[RangeEnd(q) - i]
      BY <3>1, CommonSuffixFacts
    <3> QED
      BY <3>2, <3>3, <3>4 DEF r, q
  <2>4. LeftBelow(this, prev, l) = Equal(MkRange(x + (a - l), l), MkRange((y + a) + (r.len - l), l))
    <3>1. a - (a - l) = l /\ r.len - (r.len - l) = l
      BY <1>2, <2>1, <2>3
    <3> QED
      BY <1>2, <1>3, <2>1, <3>1 DEF LeftBelow, SliceBack, SliceFrom
  <2> HIDE DEF l, r
  <2>5. l \in Nat /\ l <= a /\ l <= r.len
    BY <1>2, <2>1, <2>3
  <2>6. RangeEnd(r) = v /\ RangeEnd(q) = u /\ u \in Nat /\ v \in Nat
    BY <1>2, <2>1 DEF RangeEnd
  <2>7. ASSUME NEW i \in 1..l PROVE old[(u - l) + i] = new[(v - l) + i]
    <3>1. l - i \in 0..l - 1 /\ u - (l - i) = (u - l) + i /\ v - (l - i) = (v - l) + i
      BY <2>5, <2>6
    <3>2. new[v - (l - i)] = old[u - (l - i)]
      BY <2>3, <2>6, <3>1
    <3> QED
      BY <3>1, <3>2
  <2>8. u - l = x + (a - l) /\ v - l = (y + a) + (r.len - l)
    BY <1>2, <2>1, <2>5
  <2> QED
    BY <1>2, <2>1, <2>4, <2>5, <2>7, <2>8 DEF l, SameText
<1>4. CASE this.kind = "Delete"
  <2> DEFINE r == this.old
             q == prev.new
  <2>1. /\ r \in Ranges /\ r.offset = x + a /\ r.len \in Nat /\ NewLen(this) = 0
        /\ OldLen(this) = r.len /\ LenOf(this) = r.len
    BY <1>1, <1>4, ItemLens DEF Begins
  <2>2. l = CommonSuffixLen(old, r, new, q)
    BY <1>4 DEF UpLen
  <2>3. /\ l \in 0..r.len /\ l \in 0..q.len
        /\ \A i \in 0..l - 1 : old[RangeEnd(r) - i] = new[RangeEnd(q) - i]
    <3>1. r \in Ranges /\ q \in Ranges /\ l = CommonSuffixLen(old, r, new, q)
      BY <1>2, <2>1, <2>2
    <3> HIDE DEF l, r, q
    <3>2. l \in 0..r.len
      BY <3>1, CommonSuffixFacts
    <3>3. l \in 0..q.len
      BY <3>1, CommonSuffixFacts
    <3>4. \A i \in 0..l - 1 : old[RangeEnd(r) - i] = new[RangeEnd(q) - i]
      BY <3>1, CommonSuffixFacts
    <3> QED
      BY <3>2, <3>3, <3>4 DEF r, q
  <2>4. LeftBelow(this, prev, l) = Equal(MkRange((x + a) + (r.len - l), l), MkRange(y + (a - l), l))
    <3>1. a - (a - l) = l /\ r.len - (r.len - l) = l
      BY <1>2, <2>1, <2>3
    <3> QED
      BY <1>2, <1>4, <2>1, <3>1 DEF LeftBelow, SliceBack, SliceFrom
  <2> HIDE DEF l, r
  <2>5. l \in Nat /\ l <= a /\ l <= r.len
    BY <1>2, <2>1, <2>3
  <2>6. RangeEnd(r) = u /\ RangeEnd(q) = v /\ u \in Nat /\ v \in Nat
    BY <1>2, <2>1 DEF RangeEnd
  <2>7. ASSUME NEW i \in 1..l PROVE old[(u - l) + i] = new[(v - l) + i]
    <3>1. l - i \in 0..l - 1 /\ u - (l - i) = (u - l) + i /\ v - (l - i) = (v - l) + i
      BY <2>5, <2>6
    <3>2. old[u - (l - i)] = new[v - (l - i)]
      BY <2>3, <2>6, <3>1
    <3> QED
      BY <3>1, <3>2
  <2>8. u - l = (x + a) + (r.len - l) /\ v - l = y + (a - l)
    BY <1>2, <2>1, <2>5
  <2> QED
    BY <1>2, <2>1, <2>4, <2>5, <2>7, <2>8 DEF l, SameText
<1> QED
  BY <1>1, <1>3, <1>4

(* The text by which an edit can move down, likewise at its beginning. *)
LEMMA DownLenFacing ==
  ASSUME NEW this \in Matching(old, new), IsEdit(this),
         NEW next \in Matching(old, new), next.kind = "Equal",
         NEW x \in Nat, NEW y \in Nat, Begins(this, x, y),
         Begins(next, x + OldLen(this), y + NewLen(this))
  PROVE  LET l == DownLen(this, next)
         IN  /\ l \in 0..next.old.len /\ l \in 0..LenOf(this)
             /\ SameText(x, y, l)
             /\ LeftAbove(this, next, l) = Equal(MkRange(x, l), MkRange(y, l))
<1> DEFINE l == DownLen(this, next)
<1>1. /\ this \in DiffRange /\ next \in DiffRange /\ this.kind \in {"Insert", "Delete"}
  BY DEF Matching, DiffRange, IsEdit
<1>2. /\ next.old.offset = x + OldLen(this) /\ next.new.offset = y + NewLen(this)
      /\ next.new.len = next.old.len
      /\ next.old \in Ranges /\ next.new \in Ranges /\ next.old.len \in Nat
  BY <1>1, EqualElements, ItemLens
<1>3. CASE this.kind = "Insert"
  <2>1. /\ this.new \in Ranges /\ this.new.offset = y /\ this.new.len \in Nat
        /\ LenOf(this) = this.new.len /\ next.old.offset = x
    BY <1>1, <1>2, <1>3, ItemLens DEF Begins
  <2>2. l = CommonPrefixLen(new, this.new, old, next.old)
    BY <1>3 DEF DownLen
  <2>3. /\ l \in 0..this.new.len /\ l \in 0..next.old.len
        /\ \A i \in 1..l : new[this.new.offset + i] = old[next.old.offset + i]
    <3> DEFINE r == this.new
               q == next.old
    <3>1. r \in Ranges /\ q \in Ranges /\ l = CommonPrefixLen(new, r, old, q)
      BY <1>2, <2>1, <2>2
    <3> HIDE DEF l, r, q
    <3>2. l \in 0..r.len
      BY <3>1, CommonPrefixFacts
    <3>3. l \in 0..q.len
      BY <3>1, CommonPrefixFacts
    <3>4. \A i \in 1..l : new[r.offset + i] = old[q.offset + i]
      BY <3>1, CommonPrefixFacts
    <3> QED
      BY <3>2, <3>3, <3>4 DEF r, q
  <2>5. LeftAbove(this, next, l) = Equal(MkRange(x, l), MkRange(y, l))
    BY <1>3, <2>1 DEF LeftAbove, SliceTo
  <2>6. l \in 0..next.old.len /\ l \in 0..LenOf(this)
    BY <1>2, <2>1, <2>3
  <2> QED
    BY <2>1, <2>3, <2>5, <2>6 DEF SameText
<1>4. CASE this.kind = "Delete"
  <2>1. /\ this.old \in Ranges /\ this.old.offset = x /\ this.old.len \in Nat
        /\ LenOf(this) = this.old.len /\ next.new.offset = y
    BY <1>1, <1>2, <1>4, ItemLens DEF Begins
  <2>2. l = CommonPrefixLen(old, this.old, new, next.new)
    BY <1>4 DEF DownLen
  <2>3. /\ l \in 0..this.old.len /\ l \in 0..next.new.len
        /\ \A i \in 1..l : old[this.old.offset + i] = new[next.new.offset + i]
    <3> DEFINE r == this.old
               q == next.new
    <3>1. r \in Ranges /\ q \in Ranges /\ l = CommonPrefixLen(old, r, new, q)
      BY <1>2, <2>1, <2>2
    <3> HIDE DEF l, r, q
    <3>2. l \in 0..r.len
      BY <3>1, CommonPrefixFacts
    <3>3. l \in 0..q.len
      BY <3>1, CommonPrefixFacts
    <3>4. \A i \in 1..l : old[r.offset + i] = new[q.offset + i]
      BY <3>1, CommonPrefixFacts
    <3> QED
      BY <3>2, <3>3, <3>4 DEF r, q
  <2>5. LeftAbove(this, next, l) = Equal(MkRange(x, l), MkRange(y, l))
    BY <1>4, <2>1 DEF LeftAbove, SliceTo
  <2>6. l \in 0..next.old.len /\ l \in 0..LenOf(this)
    BY <1>2, <2>1, <2>3
  <2> QED
    BY <2>1, <2>3, <2>5, <2>6 DEF SameText
<1> QED
  BY <1>1, <1>3, <1>4

(* An Equal that gives some of its end away is still one, from the same    *)
(* place ...                                                               *)
LEMMA ShrinkBackItem ==
  ASSUME NEW diff \in Matching(old, new), diff.kind = "Equal",
         NEW x \in Nat, NEW y \in Nat, Begins(diff, x, y), NEW l \in 0..diff.old.len
  PROVE  LET rest == ShrunkBack(diff, l)
         IN  /\ rest \in Matching(old, new) /\ rest.kind = "Equal" /\ Begins(rest, x, y)
             /\ OldLen(rest) = diff.old.len - l /\ NewLen(rest) = diff.old.len - l
<1> DEFINE a == diff.old.len
<1>1. /\ diff.old.offset = x /\ diff.new.offset = y /\ diff.new.len = a
      /\ \A i \in 1..a : old[x + i] = new[y + i]
      /\ diff \in DiffRange
  BY EqualElements DEF Matching
<1>2. a \in Nat /\ InOld(diff) /\ InNew(diff)
  BY <1>1, ItemLens
<1>3. ShrunkBack(diff, l) = Equal(MkRange(x, a - l), MkRange(y, a - l))
  <2>1. ShrunkBack(diff, l) = Made(diff, ShrinkBack(diff.old, l), ShrinkBack(diff.new, l))
    BY <1>1, ForEachItem
  <2> QED
    BY <1>1, <1>2, <2>1 DEF Made, OnOld, OnNew, ShrinkBack, Equal
<1>4. a - l \in Nat /\ \A i \in 1..a - l : old[x + i] = new[y + i]
  BY <1>1, <1>2
<1> DEFINE g == ShrunkBack(diff, l)
           b == a - l
           s == x
           t == y
<1>6. g = Equal(MkRange(s, b), MkRange(t, b)) /\ s \in Nat /\ t \in Nat /\ b \in Nat
  BY <1>3, <1>4
<1>7. SameText(s, t, b)
  BY <1>3, <1>4 DEF SameText
<1> HIDE DEF g, b, s, t
<1>8. /\ g \in Matching(old, new) /\ g.kind = "Equal" /\ Begins(g, s, t)
      /\ OldLen(g) = b /\ NewLen(g) = b
  BY <1>6, <1>7, MatchingEqual
<1> QED
  BY <1>8 DEF g, b, s, t

(* ... or of its beginning, from where that ends ... *)
LEMMA ShrinkFrontItem ==
  ASSUME NEW diff \in Matching(old, new), diff.kind = "Equal",
         NEW x \in Nat, NEW y \in Nat, Begins(diff, x, y), NEW l \in 0..diff.old.len
  PROVE  LET rest == ShrunkFront(diff, l)
         IN  /\ rest \in Matching(old, new) /\ rest.kind = "Equal" /\ Begins(rest, x + l, y + l)
             /\ OldLen(rest) = diff.old.len - l /\ NewLen(rest) = diff.old.len - l
<1> DEFINE a == diff.old.len
<1>1. /\ diff.old.offset = x /\ diff.new.offset = y /\ diff.new.len = a
      /\ \A i \in 1..a : old[x + i] = new[y + i]
      /\ diff \in DiffRange
  BY EqualElements DEF Matching
<1>2. a \in Nat /\ InOld(diff) /\ InNew(diff)
  BY <1>1, ItemLens
<1>3. ShrunkFront(diff, l) = Equal(MkRange(x + l, a - l), MkRange(y + l, a - l))
  <2>1. ShrunkFront(diff, l) = Made(diff, ShrinkFront(diff.old, l), ShrinkFront(diff.new, l))
    BY <1>1, ForEachItem
  <2> QED
    BY <1>1, <1>2, <2>1 DEF Made, OnOld, OnNew, ShrinkFront, Equal
<1>4. /\ a - l \in Nat /\ x + l \in Nat /\ y + l \in Nat
      /\ \A i \in 1..a - l : old[(x + l) + i] = new[(y + l) + i]
  <2>1. a - l \in Nat /\ x + l \in Nat /\ y + l \in Nat
    BY <1>2
  <2>2. ASSUME NEW i \in 1..a - l PROVE old[(x + l) + i] = new[(y + l) + i]
    <3>1. l + i \in 1..a /\ (x + l) + i = x + (l + i) /\ (y + l) + i = y + (l + i)
      BY <1>2
    <3>2. old[x + (l + i)] = new[y + (l + i)]
      BY <1>1, <3>1
    <3> QED
      BY <3>1, <3>2
  <2> QED
    BY <2>1, <2>2
<1> DEFINE g == ShrunkFront(diff, l)
           b == a - l
           s == x + l
           t == y + l
<1>6. g = Equal(MkRange(s, b), MkRange(t, b)) /\ s \in Nat /\ t \in Nat /\ b \in Nat
  BY <1>3, <1>4
<1>7. SameText(s, t, b)
  BY <1>3, <1>4 DEF SameText
<1> HIDE DEF g, b, s, t
<1>8. /\ g \in Matching(old, new) /\ g.kind = "Equal" /\ Begins(g, s, t)
      /\ OldLen(g) = b /\ NewLen(g) = b
  BY <1>6, <1>7, MatchingEqual
<1> QED
  BY <1>8 DEF g, b, s, t

(* ... and so is one that takes in equal text in front of it ... *)
LEMMA GrowUpItem ==
  ASSUME NEW diff \in Matching(old, new), diff.kind = "Equal",
         NEW x \in Nat, NEW y \in Nat, NEW l \in Nat, Begins(diff, x + l, y + l),
         SameText(x, y, l)
  PROVE  LET grown == GrownUp(diff, l)
         IN  /\ grown \in Matching(old, new) /\ grown.kind = "Equal" /\ Begins(grown, x, y)
             /\ OldLen(grown) = l + diff.old.len /\ NewLen(grown) = l + diff.old.len
<1> DEFINE a == diff.old.len
<1>1. /\ diff.old.offset = x + l /\ diff.new.offset = y + l /\ diff.new.len = a
      /\ \A i \in 1..a : old[(x + l) + i] = new[(y + l) + i]
      /\ diff \in DiffRange
  BY EqualElements DEF Matching
<1>2. a \in Nat /\ InOld(diff) /\ InNew(diff)
  BY <1>1, ItemLens
<1>3. GrownUp(diff, l) = Equal(MkRange(x, l + a), MkRange(y, l + a))
  <2>1. GrownUp(diff, l) = Made(diff, GrowUp(diff.old, l), GrowUp(diff.new, l))
    BY <1>1, ForEachItem
  <2>2. (x + l) - l = x /\ (y + l) - l = y /\ a + l = l + a
    BY <1>2
  <2> HIDE DEF a
  <2>3. GrowUp(diff.old, l) = MkRange(x, l + a) /\ GrowUp(diff.new, l) = MkRange(y, l + a)
    BY <1>1, <2>2 DEF GrowUp, a
  <2> QED
    BY <1>2, <2>1, <2>3 DEF Made, OnOld, OnNew, Equal
<1>4. l + a \in Nat
  BY <1>2
<1>5. ASSUME NEW i \in 1..l + a PROVE old[x + i] = new[y + i]
  <2>1. CASE i <= l
    BY <2>1 DEF SameText
  <2>2. CASE i > l
    <3>1. i - l \in 1..a /\ (x + l) + (i - l) = x + i /\ (y + l) + (i - l) = y + i
      BY <1>2, <2>2
    <3>2. old[(x + l) + (i - l)] = new[(y + l) + (i - l)]
      BY <1>1, <3>1
    <3> QED
      BY <3>1, <3>2
  <2> QED
    BY <1>2, <2>1, <2>2
<1> DEFINE g == GrownUp(diff, l)
           b == l + a
           s == x
           t == y
<1>6. g = Equal(MkRange(s, b), MkRange(t, b)) /\ s \in Nat /\ t \in Nat /\ b \in Nat
  BY <1>3, <1>4, <1>5
<1>7. SameText(s, t, b)
  BY <1>3, <1>4, <1>5 DEF SameText
<1> HIDE DEF g, b, s, t
<1>8. /\ g \in Matching(old, new) /\ g.kind = "Equal" /\ Begins(g, s, t)
      /\ OldLen(g) = b /\ NewLen(g) = b
  BY <1>6, <1>7, MatchingEqual
<1> QED
  BY <1>8 DEF g, b, s, t

(* ... or behind it. *)
LEMMA GrowDownItem ==
  ASSUME NEW diff \in Matching(old, new), diff.kind = "Equal",
         NEW x \in Nat, NEW y \in Nat, NEW l \in Nat, Begins(diff, x, y),
         SameText(x + diff.old.len, y + diff.old.len, l)
  PROVE  LET grown == GrownDown(diff, l)
         IN  /\ grown \in Matching(old, new) /\ grown.kind = "Equal" /\ Begins(grown, x, y)
             /\ OldLen(grown) = diff.old.len + l /\ NewLen(grown) = diff.old.len + l
<1> DEFINE a == diff.old.len
<1>1. /\ diff.old.offset = x /\ diff.new.offset = y /\ diff.new.len = a
      /\ \A i \in 1..a : old[x + i] = new[y + i]
      /\ diff \in DiffRange
  BY EqualElements DEF Matching
<1>2. a \in Nat /\ InOld(diff) /\ InNew(diff)
  BY <1>1, ItemLens
<1>3. GrownDown(diff, l) = Equal(MkRange(x, a + l), MkRange(y, a + l))
  <2>1. GrownDown(diff, l) = Made(diff, GrowDown(diff.old, l), GrowDown(diff.new, l))
    BY <1>1, ForEachItem
  <2> QED
    BY <1>1, <1>2, <2>1 DEF Made, OnOld, OnNew, GrowDown, Equal
<1>4. a + l \in Nat
  BY <1>2
<1>5. ASSUME NEW i \in 1..a + l PROVE old[x + i] = new[y + i]
  <2>1. CASE i <= a
    BY <1>1, <2>1
  <2>2. CASE i > a
    <3>1. i - a \in 1..l /\ (x + a) + (i - a) = x + i /\ (y + a) + (i - a) = y + i
      BY <1>2, <2>2
    <3>2. old[(x + a) + (i - a)] = new[(y + a) + (i - a)]
      BY <3>1 DEF SameText
    <3> QED
      BY <3>1, <3>2
  <2> QED
    BY <1>2, <2>1, <2>2
<1> DEFINE g == GrownDown(diff, l)
           b == a + l
           s == x
           t == y
<1>6. g = Equal(MkRange(s, b), MkRange(t, b)) /\ s \in Nat /\ t \in Nat /\ b \in Nat
  BY <1>3, <1>4, <1>5
<1>7. SameText(s, t, b)
  BY <1>3, <1>4, <1>5 DEF SameText
<1> HIDE DEF g, b, s, t
<1>8. /\ g \in Matching(old, new) /\ g.kind = "Equal" /\ Begins(g, s, t)
      /\ OldLen(g) = b /\ NewLen(g) = b
  BY <1>6, <1>7, MatchingEqual
<1> QED
  BY <1>8 DEF g, b, s, t

(* An edit that is moved stays one, as long as it was. *)
Moved(moved, diff, x, y) ==
  /\ moved \in Matching(old, new) /\ moved.kind = diff.kind /\ Begins(moved, x, y)
  /\ OldLen(moved) = OldLen(diff) /\ NewLen(moved) = NewLen(diff) /\ EditLen(moved) = EditLen(diff)

(* An edit that begins at a place, moved up or down by l lines in both
   texts. *)
LEMMA ShiftItem ==
  ASSUME NEW diff \in Matching(old, new), IsEdit(diff), NEW x \in Nat, NEW y \in Nat,
         Begins(diff, x, y), NEW l \in Nat
  PROVE  /\ l <= x /\ l <= y => Moved(Up(diff, l), diff, x - l, y - l)
         /\ Moved(Down(diff, l), diff, x + l, y + l)
<1>1. diff \in DiffRange /\ diff.kind \in {"Delete", "Insert"}
  BY DEF Matching, DiffRange, IsEdit
<1>2. diff.old \in Ranges /\ diff.new \in Ranges
  BY <1>1 DEF DiffRange
<1>3. ASSUME NEW o \in Ranges, NEW n \in Ranges,
             o.len = diff.old.len, n.len = diff.new.len, NEW s, NEW t,
             InOld(diff) => o.offset = s, InNew(diff) => n.offset = t,
             NEW moved, moved = [kind |-> diff.kind, old |-> OnOld(diff, o), new |-> OnNew(diff, n)]
      PROVE  Moved(moved, diff, s, t)
  <2>1. /\ moved.kind = diff.kind
        /\ moved.old = OnOld(diff, o) /\ moved.new = OnNew(diff, n)
    BY <1>3
  <2>2. OnOld(diff, o) \in Ranges /\ OnNew(diff, n) \in Ranges
    BY <1>2 DEF OnOld, OnNew
  <2>3. moved \in DiffRange
    BY <1>1, <1>3, <2>2 DEF DiffRange
  <2>4. moved \in Matching(old, new)
    BY <2>1, <2>3 DEF Matching, IsEdit
  <2>5. Begins(moved, s, t)
    BY <1>3, <2>1 DEF Begins, InOld, InNew, OnOld, OnNew
  <2>6. OldLen(moved) = OldLen(diff) /\ NewLen(moved) = NewLen(diff)
    BY <1>3, <2>1 DEF OldLen, NewLen, InOld, InNew, OnOld, OnNew
  <2>7. EditLen(moved) = EditLen(diff)
    BY <1>1, <1>3, <2>1 DEF EditLen, IsEdit, LenOf, Inner, InOld, InNew, OnOld, OnNew
  <2> QED
    BY <2>1, <2>4, <2>5, <2>6, <2>7 DEF Moved
<1>4. ASSUME l <= x, l <= y
      PROVE  Moved(Up(diff, l), diff, x - l, y - l)
  <2> DEFINE o == MkRange(IF InOld(diff) THEN x - l ELSE 0, diff.old.len)
             n == MkRange(IF InNew(diff) THEN y - l ELSE 0, diff.new.len)
  <2>1. /\ o \in Ranges /\ n \in Ranges /\ o.len = diff.old.len /\ n.len = diff.new.len
        /\ InOld(diff) => o.offset = x - l
        /\ InNew(diff) => n.offset = y - l
    BY <1>2, <1>4 DEF Ranges, MkRange
  <2>3. /\ InOld(diff) => ShiftUp(diff.old, l) = o
        /\ InNew(diff) => ShiftUp(diff.new, l) = n
    BY DEF Begins, ShiftUp
  <2>4. Up(diff, l) = Made(diff, ShiftUp(diff.old, l), ShiftUp(diff.new, l))
    BY <1>1, ForEachItem
  <2> HIDE DEF o, n
  <2>5. Up(diff, l) = [kind |-> diff.kind, old |-> OnOld(diff, o), new |-> OnNew(diff, n)]
    BY <2>3, <2>4 DEF Made, OnOld, OnNew
  <2> QED
    BY <1>3, <2>1, <2>5
<1>5. Moved(Down(diff, l), diff, x + l, y + l)
  <2> DEFINE o == MkRange(IF InOld(diff) THEN x + l ELSE 0, diff.old.len)
             n == MkRange(IF InNew(diff) THEN y + l ELSE 0, diff.new.len)
  <2>1. /\ o \in Ranges /\ n \in Ranges /\ o.len = diff.old.len /\ n.len = diff.new.len
        /\ InOld(diff) => o.offset = x + l
        /\ InNew(diff) => n.offset = y + l
    BY <1>2 DEF Ranges, MkRange
  <2>3. /\ InOld(diff) => ShiftDown(diff.old, l) = o
        /\ InNew(diff) => ShiftDown(diff.new, l) = n
    BY DEF Begins, ShiftDown
  <2>4. Down(diff, l) = Made(diff, ShiftDown(diff.old, l), ShiftDown(diff.new, l))
    BY <1>1, ForEachItem
  <2> HIDE DEF o, n
  <2>5. Down(diff, l) = [kind |-> diff.kind, old |-> OnOld(diff, o), new |-> OnNew(diff, n)]
    BY <2>3, <2>4 DEF Made, OnOld, OnNew
  <2> QED
    BY <1>3, <2>1, <2>5
<1> QED
  BY <1>4, <1>5

(* Two edits of one kind in a row merge into one. *)
LEMMA MergeItems ==
  ASSUME NEW a \in Matching(old, new), IsEdit(a), NEW b \in Matching(old, new), b.kind = a.kind,
         NEW x \in Nat, NEW y \in Nat, Begins(a, x, y)
  PROVE  LET both == GrownDown(a, LenOf(b))
         IN  /\ both \in Matching(old, new) /\ both.kind = a.kind /\ Begins(both, x, y)
             /\ OldLen(both) = OldLen(a) + OldLen(b) /\ NewLen(both) = NewLen(a) + NewLen(b)
             /\ EditLen(both) = EditLen(a) + EditLen(b)
<1> DEFINE both == GrownDown(a, LenOf(b))
<1>1. a \in DiffRange /\ b \in DiffRange /\ a.kind \in {"Delete", "Insert"}
  BY DEF Matching, DiffRange, IsEdit
<1>2. /\ a.old \in Ranges /\ a.new \in Ranges /\ LenOf(b) \in Nat
      /\ a.old.len \in Nat /\ a.new.len \in Nat
      /\ OldLen(b) = (IF InOld(a) THEN LenOf(b) ELSE 0)
      /\ NewLen(b) = (IF InNew(a) THEN LenOf(b) ELSE 0)
      /\ EditLen(b) = LenOf(b)
  BY <1>1 DEF DiffRange, Ranges, LenOf, Inner, OldLen, NewLen, EditLen, InOld, InNew, IsEdit
<1>3. both = Made(a, GrowDown(a.old, LenOf(b)), GrowDown(a.new, LenOf(b)))
  BY <1>1, ForEachItem
<1> HIDE DEF both
<1>4. /\ both.kind = a.kind /\ both.old = OnOld(a, GrowDown(a.old, LenOf(b)))
      /\ both.new = OnNew(a, GrowDown(a.new, LenOf(b)))
  BY <1>3 DEF Made
<1>5. both.old \in Ranges /\ both.new \in Ranges
  BY <1>2, <1>4 DEF OnOld, OnNew, GrowDown, MkRange, Ranges
<1>6. both \in Matching(old, new)
  <2>1. both \in DiffRange
    BY <1>1, <1>3, <1>4, <1>5 DEF DiffRange, Made
  <2> QED
    BY <1>4, <2>1 DEF Matching, IsEdit
<1>7. Begins(both, x, y)
  BY <1>4 DEF Begins, InOld, InNew, OnOld, OnNew, GrowDown, MkRange
<1>8. OldLen(both) = OldLen(a) + OldLen(b) /\ NewLen(both) = NewLen(a) + NewLen(b)
  BY <1>2, <1>4 DEF OldLen, NewLen, InOld, InNew, OnOld, OnNew, GrowDown, MkRange
<1>9. EditLen(both) = EditLen(a) + EditLen(b)
  BY <1>1, <1>2, <1>4 DEF EditLen, IsEdit, LenOf, Inner, InOld, InNew, OnOld, OnNew, GrowDown, MkRange
<1> QED
  BY <1>4, <1>6, <1>7, <1>8, <1>9 DEF both

(* A Delete and an Insert in a row are in no order. *)
LEMMA SwapItems ==
  ASSUME NEW a \in Matching(old, new), IsEdit(a), NEW b \in Matching(old, new), IsEdit(b),
         a.kind # b.kind, NEW x \in Nat, NEW y \in Nat,
         Begins(a, x, y), Begins(b, x + OldLen(a), y + NewLen(a))
  PROVE  Begins(b, x, y) /\ Begins(a, x + OldLen(b), y + NewLen(b))
<1>1. a \in DiffRange /\ b \in DiffRange /\ {a.kind, b.kind} = {"Delete", "Insert"}
  BY DEF Matching, DiffRange, IsEdit
<1> QED
  BY <1>1 DEF Begins, OldLen, NewLen, InOld, InNew

-----------------------------------------------------------------------------
(* Lists of items *)

(* A list that leads to the ends from some place, with an item in front. *)
LEMMA LeadsCons ==
  ASSUME NEW diff \in Matching(old, new), NEW ds \in Seq(Matching(old, new)),
         NEW x \in Nat, NEW y \in Nat
  PROVE  /\ Leads(<<diff>> \o ds, x, y)
              <=> Begins(diff, x, y) /\ Leads(ds, x + OldLen(diff), y + NewLen(diff))
         /\ x + OldLen(diff) \in Nat /\ y + NewLen(diff) \in Nat
         /\ <<diff>> \o ds \in Seq(Matching(old, new))
         /\ Cost(<<diff>> \o ds) = EditLen(diff) + Cost(ds)
         /\ EditLen(diff) \in Nat /\ Cost(ds) \in Nat
<1>1. diff \in DiffRange /\ ds \in Seq(DiffRange) /\ <<diff>> \o ds \in Seq(Matching(old, new))
  BY DEF Matching
<1>2. /\ x + OldLen(diff) \in Nat /\ y + NewLen(diff) \in Nat
      /\ Path(<<diff>> \o ds, x, y, Len(old), Len(new))
           <=> /\ Begins(diff, x, y)
               /\ Path(ds, x + OldLen(diff), y + NewLen(diff), Len(old), Len(new))
  BY <1>1, PathCons
<1>3. /\ Cost(<<diff>> \o ds) = EditLen(diff) + Cost(ds)
      /\ EditLen(diff) \in Nat /\ Cost(ds) \in Nat
  BY <1>1, CostCons
<1> QED
  BY <1>1, <1>2, <1>3 DEF Leads

(* The same for an Equal that is dropped if it is empty. *)
LEMMA LeadsUnlessEmpty ==
  ASSUME NEW diff \in Matching(old, new), diff.kind = "Equal", NEW ds \in Seq(Matching(old, new)),
         NEW x \in Nat, NEW y \in Nat,
         Begins(diff, x, y), Leads(ds, x + OldLen(diff), y + NewLen(diff))
  PROVE  /\ Leads(UnlessEmpty(diff) \o ds, x, y) /\ UnlessEmpty(diff) \o ds \in Seq(Matching(old, new))
         /\ Cost(UnlessEmpty(diff) \o ds) = Cost(ds)
<1>1. CASE IsEmpty(diff)
  <2>1. /\ diff \in DiffRange /\ InOld(diff) /\ OldLen(diff) = diff.old.len /\ NewLen(diff) = diff.new.len
        /\ LenOf(diff) = diff.old.len /\ diff.new.len = diff.old.len
    BY ItemLens, EqualElements DEF Matching
  <2>2. x + OldLen(diff) = x /\ y + NewLen(diff) = y
    BY <1>1, <2>1 DEF IsEmpty
  <2>3. UnlessEmpty(diff) \o ds = ds
    BY <1>1 DEF UnlessEmpty
  <2> QED
    BY <2>2, <2>3
<1>2. CASE ~IsEmpty(diff)
  <2>1. UnlessEmpty(diff) = <<diff>>
    BY <1>2 DEF UnlessEmpty
  <2>2. EditLen(diff) = 0 /\ Cost(ds) \in Nat
    BY LeadsCons DEF EditLen, IsEdit
  <2>3. /\ Leads(<<diff>> \o ds, x, y) /\ <<diff>> \o ds \in Seq(Matching(old, new))
        /\ Cost(<<diff>> \o ds) = EditLen(diff) + Cost(ds)
    BY LeadsCons
  <2> QED
    BY <2>1, <2>2, <2>3
<1> QED
  BY <1>1, <1>2

(***************************************************************************)
(* What is left of a good list from one of its items on leads to the ends  *)
(* from some place, and whatever else does so at the same cost can replace *)
(* it.                                                                     *)
(***************************************************************************)
LEMMA CutThere ==
  ASSUME Good(diffs), NEW i \in 0..Len(diffs)
  PROVE  /\ Upto(i) \in Seq(Matching(old, new)) /\ Len(Upto(i)) = i
         /\ From(i + 1) \in Seq(Matching(old, new))
         /\ \E x, y \in Nat :
              /\ Leads(From(i + 1), x, y)
              /\ \A ds : Leads(ds, x, y) /\ Cost(ds) = Cost(From(i + 1))
                           => Good(Upto(i) \o ds) /\ Cost(Upto(i) \o ds) = Cost(diffs)
<1> DEFINE a == Upto(i)
           b == From(i + 1)
<1>1. /\ a \in Seq(Matching(old, new)) /\ b \in Seq(Matching(old, new)) /\ Len(a) = i
      /\ diffs = a \o b
  BY ZenonT(60), CutAt DEF Good, Leads, Upto, From
<1> HIDE DEF a, b
<1>2. \A ds : ds \in Seq(Matching(old, new)) => ds \in Seq(DiffRange)
  BY DEF Matching
<1>3. a \in Seq(DiffRange) /\ b \in Seq(DiffRange) /\ 0 \in Nat
  BY <1>1, <1>2
<1>4. Path(a \o b, 0, 0, Len(old), Len(new))
  BY <1>1 DEF Good, Leads
<1>5. PICK x, y \in Nat : Path(a, 0, 0, x, y) /\ Path(b, x, y, Len(old), Len(new))
  BY <1>3, <1>4, PathConcat
<1>6. ASSUME NEW ds, Leads(ds, x, y), Cost(ds) = Cost(b)
      PROVE  Good(a \o ds) /\ Cost(a \o ds) = Cost(diffs)
  <2>1. ds \in Seq(Matching(old, new)) /\ ds \in Seq(DiffRange) /\ Path(ds, x, y, Len(old), Len(new))
    BY <1>2, <1>6 DEF Leads
  <2>2. Path(a \o ds, 0, 0, Len(old), Len(new))
    BY <1>3, <1>5, <2>1, PathConcat
  <2>3. a \o ds \in Seq(Matching(old, new))
    BY <1>1, <2>1
  <2>4. Cost(a \o ds) = Cost(a) + Cost(ds) /\ Cost(a \o b) = Cost(a) + Cost(b)
    BY <1>3, <2>1, UpToConcat
  <2> QED
    BY <1>1, <1>6, <2>2, <2>3, <2>4 DEF Good, Leads
<1>7. Leads(b, x, y)
  BY <1>1, <1>5 DEF Leads
<1> QED
  BY <1>1, <1>6, <1>7 DEF a, b

(* The first item of what is left of a list. *)
LEMMA PeelFront ==
  ASSUME diffs \in Seq(Matching(old, new)), NEW i, Has(i)
  PROVE  /\ i \in 1..Len(diffs) /\ diffs[i] \in Matching(old, new)
         /\ From(i + 1) \in Seq(Matching(old, new)) /\ From(i) = <<diffs[i]>> \o From(i + 1)
<1>1. i \in 1..Len(diffs)
  BY DEF Has
<1>2. /\ diffs[i] \in Matching(old, new) /\ SubSeq(diffs, i + 1, Len(diffs)) \in Seq(Matching(old, new))
      /\ SubSeq(diffs, i, Len(diffs)) = <<diffs[i]>> \o SubSeq(diffs, i + 1, Len(diffs))
  BY <1>1, CutFront
<1> QED
  BY <1>1, <1>2 DEF From

(* The element at one place of a sequence. *)
At(s, i, elem) == i \in DOMAIN s /\ s[i] = elem

(* What comes right after the first items of a list. *)
LEMMA NextOne ==
  ASSUME NEW T, NEW a \in Seq(T), NEW diff \in T, NEW b \in Seq(T), NEW ds, ds = Join(a, Join(<<diff>>, b))
  PROVE  At(ds, Len(a) + 1, diff)
<1> DEFINE c == <<diff>> \o b
<1>1. c \in Seq(T) /\ Len(c) = 1 + Len(b) /\ c[1] = diff /\ Len(a) \in Nat /\ Len(b) \in Nat
  OBVIOUS
<1> HIDE DEF c
<1>2. ASSUME NEW e \in Seq(T)
      PROVE  /\ a \o e \in Seq(T) /\ Len(a \o e) = Len(a) + Len(e)
             /\ \A j \in 1..Len(e) : (a \o e)[Len(a) + j] = e[j]
  OBVIOUS
<1>3. ds = a \o c
  BY DEF c, Join
<1>4. 1 \in 1..Len(c)
  BY <1>1
<1>5. ds \in Seq(T) /\ Len(ds) = Len(a) + Len(c)
  BY <1>1, <1>2, <1>3
<1>6. ds[Len(a) + 1] = c[1]
  <2>1. (a \o c)[Len(a) + 1] = c[1]
    BY <1>1, <1>2, <1>4
  <2> QED
    BY <1>3, <2>1
<1>7. Len(a) + 1 \in DOMAIN ds
  BY <1>1, <1>5
<1> QED
  BY <1>1, <1>6, <1>7 DEF At

(* In whatever order lists are joined. *)
LEMMA JoinAnyOrder ==
  ASSUME NEW T, NEW a \in Seq(T), NEW b \in Seq(T), NEW c \in Seq(T)
  PROVE  a \o b \o c = a \o (b \o c) /\ b \o c \in Seq(T)
OBVIOUS

(* A sequence with two elements in its middle. *)
LEMMA TwoInARow ==
  ASSUME NEW T, NEW front \in Seq(T), NEW a \in T, NEW b \in T, NEW rest \in Seq(T),
         NEW ds, ds = Join(Join(front, <<a, b>>), rest)
  PROVE  /\ ds = Join(front, Join(<<a>>, Join(<<b>>, rest)))
         /\ At(ds, Len(front) + 1, a) /\ At(ds, Len(front) + 2, b)
<1> DEFINE one == <<a>>
           two == <<b>>
           f == Join(front, one)
           after == Join(two, rest)
<1>1. one \in Seq(T) /\ two \in Seq(T) /\ Len(one) = 1
  OBVIOUS
<1>2. <<a, b>> = Join(one, two)
  BY OneAndOne DEF Join
<1> HIDE DEF one, two
<1>3. after \in Seq(T)
  BY <1>1, JoinAssociates
<1>4. Join(Join(one, two), rest) = Join(one, after)
  BY <1>1, JoinAssociates
<1>5. Join(Join(front, Join(one, two)), rest) = Join(front, Join(Join(one, two), rest))
  <2>1. Join(one, two) \in Seq(T)
    BY <1>1, JoinAssociates
  <2> QED
    BY <2>1, JoinAssociates
<1>6. ds = Join(front, Join(one, after))
  BY <1>2, <1>4, <1>5
<1>7. Join(f, after) = Join(front, Join(one, after))
  BY <1>1, <1>3, JoinAssociates
<1>8. f \in Seq(T) /\ Len(f) = Len(front) + Len(one) /\ Len(front) \in Nat
  BY <1>1, JoinAssociates
<1> HIDE DEF f, after
<1>9. At(ds, Len(front) + 1, a)
  <2>1. ds = Join(front, Join(<<a>>, after))
    BY <1>6 DEF one
  <2> QED
    BY <1>3, <2>1, NextOne
<1>10. At(ds, Len(f) + 1, b)
  <2>1. ds = Join(f, Join(<<b>>, rest))
    BY <1>6, <1>7 DEF two, after
  <2>4. f \in Seq(T)
    BY <1>8
  <2> QED
    BY <2>1, <2>4, NextOne
<1>11. Len(f) + 1 = Len(front) + 2
  BY <1>1, <1>8
<1> QED
  BY <1>6, <1>9, <1>10, <1>11 DEF one, two, after

(***************************************************************************)
(* The list is `front`, the neighbours a and b, and `rest`; a begins at    *)
(* the places x and y, and whatever else leads to the ends from there at   *)
(* the same cost can replace a, b and the rest.                            *)
(***************************************************************************)
Neighbours(front, a, b, rest, x, y) ==
  /\ front \in Seq(Matching(old, new)) /\ rest \in Seq(Matching(old, new))
  /\ a \in Matching(old, new) /\ b \in Matching(old, new)
  /\ Begins(a, x, y)
  /\ x + OldLen(a) \in Nat /\ y + NewLen(a) \in Nat
  /\ Begins(b, x + OldLen(a), y + NewLen(a))
  /\ (x + OldLen(a)) + OldLen(b) \in Nat /\ (y + NewLen(a)) + NewLen(b) \in Nat
  /\ Leads(rest, (x + OldLen(a)) + OldLen(b), (y + NewLen(a)) + NewLen(b))
  /\ \A ds : Leads(ds, x, y) /\ Cost(ds) = EditLen(a) + (EditLen(b) + Cost(rest))
               => Good(Join(front, ds)) /\ Cost(Join(front, ds)) = Cost(diffs)

(* So it is around any two items in a row of a good list. *)
LEMMA InARow ==
  ASSUME Good(diffs), NEW j \in Nat \ {0}, Has(j), Has(j + 1)
  PROVE  /\ \E x, y \in Nat : Neighbours(Upto(j - 1), diffs[j], diffs[j + 1], From(j + 2), x, y)
         /\ Len(Upto(j - 1)) = j - 1
         /\ From(j + 1) = <<diffs[j + 1]>> \o From(j + 2)
<1> DEFINE a == diffs[j]
           b == diffs[j + 1]
           r == From(j + 2)
           front == Upto(j - 1)
<1>1. diffs \in Seq(Matching(old, new)) /\ j + 1 + 1 = j + 2 /\ (j - 1) + 1 = j
  BY DEF Good, Leads
<1>2. /\ j \in 1..Len(diffs) /\ a \in Matching(old, new) /\ From(j + 1) \in Seq(Matching(old, new))
      /\ From(j) = <<a>> \o From(j + 1)
  BY <1>1, PeelFront
<1>3. b \in Matching(old, new) /\ r \in Seq(Matching(old, new)) /\ From(j + 1) = <<b>> \o r
  BY <1>1, PeelFront
<1>4. j - 1 \in 0..Len(diffs)
  BY <1>2
<1>5. /\ front \in Seq(Matching(old, new)) /\ Len(front) = j - 1
      /\ \E x, y \in Nat :
           /\ Leads(From(j), x, y)
           /\ \A ds : Leads(ds, x, y) /\ Cost(ds) = Cost(From(j))
                        => Good(front \o ds) /\ Cost(front \o ds) = Cost(diffs)
  <2>1. /\ front \in Seq(Matching(old, new)) /\ Len(front) = j - 1
        /\ \E x, y \in Nat :
             /\ Leads(From((j - 1) + 1), x, y)
             /\ \A ds : Leads(ds, x, y) /\ Cost(ds) = Cost(From((j - 1) + 1))
                          => Good(front \o ds) /\ Cost(front \o ds) = Cost(diffs)
    BY <1>4, CutThere
  <2> QED
    BY <1>1, <2>1
<1> HIDE DEF a, b, r, front
<1>6. PICK x, y \in Nat :
        /\ Leads(From(j), x, y)
        /\ \A ds : Leads(ds, x, y) /\ Cost(ds) = Cost(From(j))
                     => Good(front \o ds) /\ Cost(front \o ds) = Cost(diffs)
  BY <1>5
<1>7. /\ Leads(<<a>> \o From(j + 1), x, y)
      /\ x + OldLen(a) \in Nat /\ y + NewLen(a) \in Nat
      /\ Begins(a, x, y) /\ Leads(From(j + 1), x + OldLen(a), y + NewLen(a))
      /\ Cost(<<a>> \o From(j + 1)) = EditLen(a) + Cost(From(j + 1)) /\ EditLen(a) \in Nat
  BY <1>2, <1>6, LeadsCons
<1> DEFINE u == x + OldLen(a)
           v == y + NewLen(a)
<1>8. u \in Nat /\ v \in Nat /\ Leads(<<b>> \o r, u, v)
  BY <1>3, <1>7
<1> HIDE DEF u, v
<1>9. /\ u + OldLen(b) \in Nat /\ v + NewLen(b) \in Nat
      /\ Begins(b, u, v) /\ Leads(r, u + OldLen(b), v + NewLen(b))
      /\ Cost(<<b>> \o r) = EditLen(b) + Cost(r) /\ EditLen(b) \in Nat /\ Cost(r) \in Nat
  BY <1>3, <1>8, LeadsCons
<1>10. Cost(From(j)) = EditLen(a) + (EditLen(b) + Cost(r))
  BY <1>2, <1>3, <1>7, <1>9
<1>11. \A ds : Leads(ds, x, y) /\ Cost(ds) = EditLen(a) + (EditLen(b) + Cost(r))
                => Good(front \o ds) /\ Cost(front \o ds) = Cost(diffs)
  BY <1>6, <1>10
<1>12. Neighbours(front, a, b, r, x, y)
  BY <1>2, <1>3, <1>5, <1>7, <1>8, <1>9, <1>11 DEF Neighbours, Join, u, v
<1> QED
  BY <1>3, <1>5, <1>12 DEF a, b, r, front

-----------------------------------------------------------------------------
(* What the arms make of two neighbours *)

(* A list as good as the one there is. *)
AsGood(ds) == Good(ds) /\ Cost(ds) = Cost(diffs)

(* A Delete and an Insert change places. *)
LEMMA SwapNeighbours ==
  ASSUME NEW front, NEW a, NEW b, NEW rest, NEW x \in Nat, NEW y \in Nat,
         Neighbours(front, a, b, rest, x, y),
         IsEdit(a), IsEdit(b), a.kind # b.kind, NEW ds, ds = Join(Join(front, <<b, a>>), rest)
  PROVE  /\ AsGood(ds)
         /\ At(ds, Len(front) + 1, b) /\ At(ds, Len(front) + 2, a)
<1> DEFINE M == Matching(old, new)
           after == <<a>> \o rest
           w == <<b>> \o after
<1>1. /\ front \in Seq(M) /\ rest \in Seq(M) /\ a \in M /\ b \in M
      /\ Begins(a, x, y) /\ Begins(b, x + OldLen(a), y + NewLen(a))
      /\ x + OldLen(a) \in Nat /\ y + NewLen(a) \in Nat
      /\ Leads(rest, (x + OldLen(a)) + OldLen(b), (y + NewLen(a)) + NewLen(b))
  BY DEF Neighbours
<1>2. Begins(b, x, y) /\ Begins(a, x + OldLen(b), y + NewLen(b))
  BY <1>1, SwapItems
<1>3. OldLen(a) \in Nat /\ OldLen(b) \in Nat /\ NewLen(a) \in Nat /\ NewLen(b) \in Nat
  BY <1>1, ItemLens DEF Matching
<1>4. Leads(rest, (x + OldLen(b)) + OldLen(a), (y + NewLen(b)) + NewLen(a))
  <2>1. /\ (x + OldLen(b)) + OldLen(a) = (x + OldLen(a)) + OldLen(b)
        /\ (y + NewLen(b)) + NewLen(a) = (y + NewLen(a)) + NewLen(b)
    BY <1>3
  <2> QED
    BY <1>1, <2>1
<1>5. /\ after \in Seq(M) /\ Leads(after, x + OldLen(b), y + NewLen(b))
      /\ Cost(after) = EditLen(a) + Cost(rest) /\ EditLen(a) \in Nat /\ Cost(rest) \in Nat
  <2> DEFINE s == x + OldLen(b)
             t == y + NewLen(b)
  <2>1. s \in Nat /\ t \in Nat
    BY <1>3
  <2> HIDE DEF s, t, M
  <2>2. Begins(a, s, t) /\ Leads(rest, s + OldLen(a), t + NewLen(a))
    BY <1>2, <1>4 DEF s, t
  <2>3. after \in Seq(M) /\ Leads(after, s, t)
    BY <1>1, <2>1, <2>2, LeadsCons DEF M
  <2>4. Cost(after) = EditLen(a) + Cost(rest) /\ EditLen(a) \in Nat /\ Cost(rest) \in Nat
    BY <1>1, <2>1, LeadsCons DEF M
  <2> QED
    BY <2>3, <2>4 DEF s, t
<1> HIDE DEF after
<1>6. /\ w \in Seq(M) /\ Leads(w, x, y) /\ Cost(w) = EditLen(b) + Cost(after) /\ EditLen(b) \in Nat
  BY <1>1, <1>2, <1>5, LeadsCons
<1>7. Cost(w) = EditLen(a) + (EditLen(b) + Cost(rest))
  BY <1>5, <1>6
<1>8. /\ ds = Join(front, w)
      /\ At(ds, Len(front) + 1, b) /\ At(ds, Len(front) + 2, a)
  <2>1. front \in Seq(M) /\ b \in M /\ a \in M /\ rest \in Seq(M)
    BY <1>1
  <2> HIDE DEF M
  <2>2. ds = Join(front, Join(<<b>>, Join(<<a>>, rest)))
    BY <2>1, TwoInARow
  <2>3. At(ds, Len(front) + 1, b)
    BY <2>1, TwoInARow
  <2>4. At(ds, Len(front) + 2, a)
    BY <2>1, TwoInARow
  <2> QED
    BY <2>2, <2>3, <2>4 DEF Join, after
<1>9. AsGood(ds)
  <2> HIDE DEF w
  <2> QED
    BY <1>6, <1>7, <1>8 DEF Neighbours, AsGood
<1> QED
  BY <1>8, <1>9

(* Two edits of one kind become one. *)
LEMMA MergeNeighbours ==
  ASSUME NEW front, NEW a, NEW b, NEW rest, NEW x \in Nat, NEW y \in Nat,
         Neighbours(front, a, b, rest, x, y),
         IsEdit(a), a.kind = b.kind, NEW ds, ds = Join(front, Join(<<GrownDown(a, LenOf(b))>>, rest))
  PROVE  /\ AsGood(ds)
         /\ At(ds, Len(front) + 1, GrownDown(a, LenOf(b))) /\ GrownDown(a, LenOf(b)).kind = a.kind
<1> DEFINE M == Matching(old, new)
           both == GrownDown(a, LenOf(b))
           w == <<both>> \o rest
<1>1. /\ front \in Seq(M) /\ rest \in Seq(M) /\ a \in M /\ b \in M
      /\ Begins(a, x, y)
      /\ Leads(rest, (x + OldLen(a)) + OldLen(b), (y + NewLen(a)) + NewLen(b))
  BY DEF Neighbours
<1>2. /\ both \in M /\ both.kind = a.kind /\ Begins(both, x, y)
      /\ OldLen(both) = OldLen(a) + OldLen(b) /\ NewLen(both) = NewLen(a) + NewLen(b)
      /\ EditLen(both) = EditLen(a) + EditLen(b)
  BY <1>1, MergeItems
<1>3. /\ OldLen(a) \in Nat /\ OldLen(b) \in Nat /\ NewLen(a) \in Nat /\ NewLen(b) \in Nat
      /\ EditLen(a) \in Nat /\ EditLen(b) \in Nat
  BY <1>1, ItemLens DEF Matching
<1> HIDE DEF both
<1>4. Leads(rest, x + OldLen(both), y + NewLen(both))
  <2>1. /\ x + OldLen(both) = (x + OldLen(a)) + OldLen(b)
        /\ y + NewLen(both) = (y + NewLen(a)) + NewLen(b)
    BY <1>2, <1>3
  <2> QED
    BY <1>1, <2>1
<1>5. w \in Seq(M) /\ Leads(w, x, y) /\ Cost(w) = EditLen(both) + Cost(rest) /\ Cost(rest) \in Nat
  BY <1>1, <1>2, <1>4, LeadsCons
<1>6. Cost(w) = EditLen(a) + (EditLen(b) + Cost(rest))
  BY <1>2, <1>3, <1>5
<1>7. ds = Join(front, w)
  BY DEF Join, both
<1>8. AsGood(ds)
  <2> HIDE DEF w
  <2> QED
    BY <1>5, <1>6, <1>7 DEF Neighbours, AsGood
<1>9. At(ds, Len(front) + 1, both)
  <2>1. ds = Join(front, Join(<<both>>, rest))
    BY DEF both
  <2>4. front \in Seq(M) /\ both \in M /\ rest \in Seq(M)
    BY <1>1, <1>2
  <2> HIDE DEF M
  <2> QED
    BY <2>1, <2>4, NextOne
<1> QED
  BY <1>2, <1>8, <1>9 DEF both

(* An empty Equal next to an edit goes. *)
LEMMA DropNeighbour ==
  ASSUME NEW front, NEW a, NEW b, NEW rest, NEW x \in Nat, NEW y \in Nat,
         Neighbours(front, a, b, rest, x, y), NEW empty, NEW kept,
         \/ empty = a /\ kept = b
         \/ empty = b /\ kept = a,
         empty.kind = "Equal", IsEmpty(empty), NEW ds, ds = Join(front, Join(<<kept>>, rest))
  PROVE  /\ AsGood(ds)
         /\ At(ds, Len(front) + 1, kept)
<1> DEFINE M == Matching(old, new)
           w == <<kept>> \o rest
<1>1. /\ front \in Seq(M) /\ rest \in Seq(M) /\ a \in M /\ b \in M /\ kept \in M /\ empty \in M
      /\ Begins(a, x, y) /\ Begins(b, x + OldLen(a), y + NewLen(a))
      /\ Leads(rest, (x + OldLen(a)) + OldLen(b), (y + NewLen(a)) + NewLen(b))
  BY DEF Neighbours
<1>2. OldLen(empty) = 0 /\ NewLen(empty) = 0 /\ EditLen(empty) = 0
  <2>1. empty \in DiffRange /\ empty.new.len = empty.old.len
    BY <1>1 DEF Matching, IsEdit
  <2> QED
    BY <2>1, ItemLens DEF IsEmpty
<1>3. /\ OldLen(a) \in Nat /\ OldLen(b) \in Nat /\ NewLen(a) \in Nat /\ NewLen(b) \in Nat
      /\ EditLen(a) \in Nat /\ EditLen(b) \in Nat
  BY <1>1, ItemLens DEF Matching
<1>4. Begins(kept, x, y) /\ Leads(rest, x + OldLen(kept), y + NewLen(kept))
  <2>1. CASE empty = a /\ kept = b
    <3>1. /\ x + OldLen(a) = x /\ y + NewLen(a) = y
          /\ (x + OldLen(a)) + OldLen(b) = x + OldLen(b)
          /\ (y + NewLen(a)) + NewLen(b) = y + NewLen(b)
      BY <1>2, <1>3, <2>1
    <3> QED
      BY <1>1, <2>1, <3>1
  <2>2. CASE empty = b /\ kept = a
    <3>1. /\ (x + OldLen(a)) + OldLen(b) = x + OldLen(a)
          /\ (y + NewLen(a)) + NewLen(b) = y + NewLen(a)
      BY <1>2, <1>3, <2>2
    <3> QED
      BY <1>1, <2>2, <3>1
  <2> QED
    BY <2>1, <2>2
<1>5. w \in Seq(M) /\ Leads(w, x, y) /\ Cost(w) = EditLen(kept) + Cost(rest) /\ Cost(rest) \in Nat
  BY <1>1, <1>4, LeadsCons
<1>6. Cost(w) = EditLen(a) + (EditLen(b) + Cost(rest))
  BY <1>2, <1>3, <1>5
<1>7. AsGood(ds)
  <2>1. ds = Join(front, w)
    BY DEF Join
  <2> HIDE DEF w
  <2> QED
    BY <1>5, <1>6, <2>1 DEF Neighbours, AsGood
<1>8. At(ds, Len(front) + 1, kept)
  <2>4. front \in Seq(M) /\ kept \in M /\ rest \in Seq(M)
    BY <1>1
  <2> HIDE DEF M
  <2> QED
    BY <2>4, NextOne
<1> QED
  BY <1>7, <1>8

(* An item and a list that leads on from where the item ends. *)
Follows(diff, x, y, ds) ==
  Begins(diff, x, y) /\ Leads(ds, x + OldLen(diff), y + NewLen(diff))

(* Joined, they lead on from where the item begins; an Equal may be        *)
(* dropped if it is empty.                                                 *)
LEMMA LeadsFront ==
  ASSUME NEW diff \in Matching(old, new), NEW ds \in Seq(Matching(old, new)),
         NEW x \in Nat, NEW y \in Nat, Follows(diff, x, y, ds)
  PROVE  /\ Leads(Join(<<diff>>, ds), x, y) /\ Join(<<diff>>, ds) \in Seq(Matching(old, new))
         /\ Cost(Join(<<diff>>, ds)) = EditLen(diff) + Cost(ds)
         /\ EditLen(diff) \in Nat /\ Cost(ds) \in Nat
         /\ diff.kind = "Equal" =>
              /\ Leads(Join(UnlessEmpty(diff), ds), x, y)
              /\ Join(UnlessEmpty(diff), ds) \in Seq(Matching(old, new))
              /\ Cost(Join(UnlessEmpty(diff), ds)) = Cost(ds)
              /\ Cost(Join(<<diff>>, ds)) = Cost(ds)
<1>1. Begins(diff, x, y) /\ Leads(ds, x + OldLen(diff), y + NewLen(diff))
  BY DEF Follows
<1>2. /\ Leads(<<diff>> \o ds, x, y) /\ <<diff>> \o ds \in Seq(Matching(old, new))
      /\ Cost(<<diff>> \o ds) = EditLen(diff) + Cost(ds)
      /\ EditLen(diff) \in Nat /\ Cost(ds) \in Nat
  BY <1>1, LeadsCons
<1>3. ASSUME diff.kind = "Equal"
      PROVE  /\ Leads(UnlessEmpty(diff) \o ds, x, y)
             /\ UnlessEmpty(diff) \o ds \in Seq(Matching(old, new))
             /\ Cost(UnlessEmpty(diff) \o ds) = Cost(ds)
             /\ EditLen(diff) = 0
  BY <1>1, <1>3, LeadsUnlessEmpty DEF EditLen, IsEdit
<1> QED
  BY <1>2, <1>3 DEF Join

(* What comes below an edit that has moved up by l: an Equal made for the  *)
(* text it has left there, or the one that is there, grown to take it in.  *)
MadeBelow(left, rest, l, below) ==
  \/ below = Join(<<left>>, rest)
  \/ \E next \in Matching(old, new), after \in Seq(Matching(old, new)) :
       /\ next.kind = "Equal" /\ rest = Join(<<next>>, after)
       /\ below = Join(<<GrownUp(next, l)>>, after)

(* Either way it takes the place of what was there. *)
LEMMA LeftBelowLeads ==
  ASSUME NEW left, NEW rest \in Seq(Matching(old, new)), NEW x \in Nat, NEW y \in Nat, NEW l \in Nat,
         SameText(x, y, l), Leads(rest, x + l, y + l),
         left = Equal(MkRange(x, l), MkRange(y, l)), NEW below, MadeBelow(left, rest, l, below)
  PROVE  Leads(below, x, y) /\ below \in Seq(Matching(old, new)) /\ Cost(below) = Cost(rest)
<1>1. CASE below = Join(<<left>>, rest)
  <2>1. /\ left \in Matching(old, new) /\ left.kind = "Equal" /\ Begins(left, x, y)
        /\ OldLen(left) = l /\ NewLen(left) = l
    BY <1>1, MatchingEqual
  <2>2. Follows(left, x, y, rest)
    BY <2>1 DEF Follows
  <2> QED
    BY <1>1, <2>1, <2>2, LeadsFront
<1>2. ASSUME NEW next \in Matching(old, new), NEW after \in Seq(Matching(old, new)),
             next.kind = "Equal", rest = Join(<<next>>, after),
             below = Join(<<GrownUp(next, l)>>, after)
      PROVE  Leads(below, x, y) /\ below \in Seq(Matching(old, new)) /\ Cost(below) = Cost(rest)
  <2> DEFINE u == x + l
             v == y + l
  <2>1. u \in Nat /\ v \in Nat /\ Leads(<<next>> \o after, u, v)
    BY <1>2 DEF Join
  <2>2. /\ next \in DiffRange /\ next.new.len = next.old.len
        /\ OldLen(next) = next.old.len /\ NewLen(next) = next.old.len /\ next.old.len \in Nat
    BY <1>2, ItemLens DEF Matching, IsEdit
  <2> HIDE DEF u, v
  <2>3. Begins(next, u, v) /\ Leads(after, u + OldLen(next), v + NewLen(next))
    BY <2>1, LeadsCons
  <2>4. Follows(next, u, v, after)
    BY <2>3 DEF Follows
  <2>5. Cost(rest) = Cost(after)
    BY <1>2, <2>1, <2>4, LeadsFront
  <2>6. Begins(next, x + l, y + l)
    BY <2>3 DEF u, v
  <2> DEFINE grown == GrownUp(next, l)
  <2>7. /\ grown \in Matching(old, new) /\ grown.kind = "Equal" /\ Begins(grown, x, y)
        /\ OldLen(grown) = l + next.old.len /\ NewLen(grown) = l + next.old.len
    BY <1>2, <2>6, GrowUpItem
  <2> HIDE DEF grown
  <2>8. x + OldLen(grown) = u + OldLen(next) /\ y + NewLen(grown) = v + NewLen(next)
    BY <2>2, <2>7 DEF u, v
  <2>9. Follows(grown, x, y, after)
    BY <2>3, <2>7, <2>8 DEF Follows
  <2>10. below = Join(<<grown>>, after)
    BY <1>2 DEF grown
  <2> QED
    BY <2>5, <2>7, <2>9, <2>10, LeadsFront
<1> QED
  BY <1>1, <1>2 DEF MadeBelow

(* An edit moves up through the Equal above it. *)
LEMMA ShiftUpNeighbours ==
  ASSUME NEW front, NEW a, NEW b, NEW rest, NEW x \in Nat, NEW y \in Nat,
         Neighbours(front, a, b, rest, x, y), a.kind = "Equal", IsEdit(b),
         NEW l, l = UpLen(b, a), NEW below, MadeBelow(LeftBelow(b, a, l), rest, l, below),
         NEW less, less = UnlessEmpty(ShrunkBack(a, l)),
         NEW ds, ds = Join(front, Join(less, Join(<<Up(b, l)>>, below)))
  PROVE  /\ AsGood(ds)
         /\ Len(less) \in Nat /\ At(ds, (Len(front) + Len(less)) + 1, Up(b, l)) /\ Up(b, l).kind = b.kind
         /\ less \in Seq(Matching(old, new)) /\ Up(b, l) \in Matching(old, new)
         /\ below \in Seq(Matching(old, new))
<1> DEFINE M == Matching(old, new)
           s == x + a.old.len
           t == y + a.old.len
           u == s + OldLen(b)
           v == t + NewLen(b)
           short == ShrunkBack(a, l)
           moved == Up(b, l)
<1>1. /\ front \in Seq(M) /\ rest \in Seq(M) /\ a \in M /\ b \in M
      /\ Begins(a, x, y) /\ Begins(b, x + OldLen(a), y + NewLen(a))
      /\ Leads(rest, (x + OldLen(a)) + OldLen(b), (y + NewLen(a)) + NewLen(b))
  BY DEF Neighbours
<1>2. /\ a.old.len \in Nat /\ OldLen(a) = a.old.len /\ NewLen(a) = a.old.len /\ EditLen(a) = 0
      /\ OldLen(b) \in Nat /\ NewLen(b) \in Nat /\ EditLen(b) \in Nat
  <2>1. a \in DiffRange /\ b \in DiffRange /\ a.new.len = a.old.len
    BY <1>1 DEF Matching, IsEdit
  <2> QED
    BY <2>1, ItemLens
<1>3. Begins(b, s, t) /\ Leads(rest, u, v)
  BY <1>1, <1>2
<1>4. s \in Nat /\ t \in Nat
  BY <1>2
<1>5. /\ l \in 0..a.old.len
      /\ SameText(u - l, v - l, l)
      /\ LeftBelow(b, a, l) = Equal(MkRange(u - l, l), MkRange(v - l, l))
  BY <1>1, <1>3, UpLenFacing
<1>6. l \in Nat /\ s - l \in Nat /\ t - l \in Nat /\ (s - l) + l = s /\ (t - l) + l = t
  BY <1>2, <1>5
<1>7. /\ u - l \in Nat /\ v - l \in Nat /\ (u - l) + l = u /\ (v - l) + l = v
      /\ (s - l) + OldLen(b) = u - l /\ (t - l) + NewLen(b) = v - l
      /\ x + (a.old.len - l) = s - l /\ y + (a.old.len - l) = t - l
  BY <1>2, <1>6
<1> HIDE DEF s, t, u, v
<1>8. Leads(below, u - l, v - l) /\ below \in Seq(M) /\ Cost(below) = Cost(rest)
  <2> DEFINE g == u - l
             h == v - l
             left == LeftBelow(b, a, l)
  <2>1. /\ g \in Nat /\ h \in Nat /\ SameText(g, h, l) /\ left = Equal(MkRange(g, l), MkRange(h, l))
        /\ Leads(rest, g + l, h + l)
    BY <1>3, <1>5, <1>7
  <2>2. MadeBelow(left, rest, l, below)
    OBVIOUS
  <2> HIDE DEF g, h, left
  <2>3. Leads(below, g, h)
    BY <1>1, <1>6, <2>1, <2>2, LeftBelowLeads
  <2>4. below \in Seq(Matching(old, new)) /\ Cost(below) = Cost(rest)
    BY <1>1, <1>6, <2>1, <2>2, LeftBelowLeads
  <2> QED
    BY <2>3, <2>4 DEF g, h
<1>9. /\ moved \in M /\ moved.kind = b.kind /\ Begins(moved, s - l, t - l)
      /\ OldLen(moved) = OldLen(b) /\ NewLen(moved) = NewLen(b) /\ EditLen(moved) = EditLen(b)
  <2>1. l <= s /\ l <= t
    BY <1>4, <1>6
  <2>2. Moved(moved, b, s - l, t - l)
    BY <1>1, <1>3, <1>4, <1>6, <2>1, ShiftItem
  <2> QED
    BY <2>2 DEF Moved
<1>10. /\ short \in M /\ short.kind = "Equal" /\ Begins(short, x, y)
       /\ OldLen(short) = a.old.len - l /\ NewLen(short) = a.old.len - l
  BY <1>1, <1>5, ShrinkBackItem
<1> DEFINE after == Join(<<moved>>, below)
           w == Join(less, after)
<1>11. ds = Join(front, w) /\ less = UnlessEmpty(short)
  OBVIOUS
<1> HIDE DEF short, moved
<1>12. /\ Leads(after, s - l, t - l) /\ after \in Seq(M)
       /\ Cost(after) = EditLen(b) + Cost(rest) /\ Cost(rest) \in Nat
  <2>1. Follows(moved, s - l, t - l, below)
    BY <1>7, <1>8, <1>9 DEF Follows
  <2> HIDE DEF M
  <2>2. Leads(after, s - l, t - l) /\ after \in Seq(M)
    BY <1>6, <1>8, <1>9, <2>1, LeadsFront DEF M
  <2>3. Cost(after) = EditLen(moved) + Cost(below) /\ Cost(below) \in Nat
    BY <1>6, <1>8, <1>9, <2>1, LeadsFront DEF M
  <2> QED
    BY <1>8, <1>9, <2>2, <2>3
<1> HIDE DEF after
<1>13. Leads(w, x, y) /\ Cost(w) = Cost(after)
  <2>1. Follows(short, x, y, after)
    BY <1>7, <1>10, <1>12 DEF Follows
  <2> QED
    BY ZenonT(60), <1>10, <1>11, <1>12, <2>1, LeadsFront
<1>14. Cost(w) = EditLen(a) + (EditLen(b) + Cost(rest))
  BY <1>2, <1>12, <1>13
<1>15. AsGood(ds)
  <2> HIDE DEF w
  <2> QED
    BY <1>11, <1>13, <1>14 DEF Neighbours, AsGood
<1>16. less \in Seq(M) /\ Len(less) \in Nat
  <2>1. <<>> \in Seq(M) /\ Len(<<>>) = 0 /\ <<short>> \in Seq(M) /\ Len(<<short>>) = 1
    BY <1>10
  <2> QED
    BY SMTT(60), <1>11, <2>1 DEF UnlessEmpty
<1>17. At(ds, (Len(front) + Len(less)) + 1, moved)
  <2> DEFINE f == Join(front, less)
  <2> HIDE DEF M
  <2>1. ds = Join(f, after) /\ f \in Seq(M) /\ Len(f) = Len(front) + Len(less)
    BY <1>1, <1>11, <1>12, <1>16, JoinAssociates
  <2> HIDE DEF f
  <2>2. ds = Join(f, Join(<<moved>>, below))
    BY <2>1 DEF after
  <2>3. At(ds, Len(f) + 1, moved)
    BY <1>8, <1>9, <2>1, <2>2, NextOne
  <2> QED
    BY <2>1, <2>3
<1> QED
  BY <1>8, <1>9, <1>15, <1>16, <1>17 DEF moved

(* An edit that has moved down through the Equal below it, what is left of *)
(* that, and the rest.                                                     *)
LEMMA MovedDownLeads ==
  ASSUME NEW a \in Matching(old, new), IsEdit(a), NEW b \in Matching(old, new), b.kind = "Equal",
         NEW rest \in Seq(Matching(old, new)), NEW x \in Nat, NEW y \in Nat, Begins(a, x, y),
         Follows(b, x + OldLen(a), y + NewLen(a), rest),
         NEW l, l = DownLen(a, b), NEW less, less = UnlessEmpty(ShrunkFront(b, l)),
         NEW w, w = Join(<<Down(a, l)>>, Join(less, rest))
  PROVE  /\ l \in Nat /\ SameText(x, y, l) /\ LeftAbove(a, b, l) = Equal(MkRange(x, l), MkRange(y, l))
         /\ Leads(w, x + l, y + l) /\ w \in Seq(Matching(old, new))
         /\ Cost(w) = EditLen(a) + Cost(rest)
         /\ Down(a, l) \in Matching(old, new) /\ Down(a, l).kind = a.kind
         /\ Join(less, rest) \in Seq(Matching(old, new)) /\ less \in Seq(Matching(old, new))
<1> DEFINE M == Matching(old, new)
           s == x + OldLen(a)
           t == y + NewLen(a)
           short == ShrunkFront(b, l)
           moved == Down(a, l)
           after == Join(less, rest)
<1>1. Begins(b, s, t) /\ Leads(rest, s + OldLen(b), t + NewLen(b))
  BY DEF Follows
<1>2. /\ b.old.len \in Nat /\ OldLen(b) = b.old.len /\ NewLen(b) = b.old.len
      /\ OldLen(a) \in Nat /\ NewLen(a) \in Nat /\ EditLen(a) \in Nat
  <2>1. a \in DiffRange /\ b \in DiffRange /\ b.new.len = b.old.len
    BY DEF Matching, IsEdit
  <2> QED
    BY <2>1, ItemLens
<1>3. l \in 0..b.old.len /\ SameText(x, y, l) /\ LeftAbove(a, b, l) = Equal(MkRange(x, l), MkRange(y, l))
  BY <1>1, DownLenFacing
<1>4. s \in Nat /\ t \in Nat /\ l \in Nat
  BY <1>2, <1>3
<1>5. /\ s + l \in Nat /\ t + l \in Nat /\ x + l \in Nat /\ y + l \in Nat
      /\ (s + l) + (b.old.len - l) = s + OldLen(b) /\ (t + l) + (b.old.len - l) = t + NewLen(b)
      /\ (x + l) + OldLen(a) = s + l /\ (y + l) + NewLen(a) = t + l
  <2>1. (x + l) + OldLen(a) = s + l /\ (y + l) + NewLen(a) = t + l
    BY <1>2, <1>4
  <2> HIDE DEF s, t
  <2>2. (s + l) + (b.old.len - l) = s + OldLen(b) /\ (t + l) + (b.old.len - l) = t + NewLen(b)
    BY SMTT(60), <1>2, <1>4
  <2>3. s + l \in Nat /\ t + l \in Nat /\ x + l \in Nat /\ y + l \in Nat
    BY <1>4
  <2> QED
    BY <2>1, <2>2, <2>3
<1>6. /\ short \in M /\ short.kind = "Equal" /\ Begins(short, s + l, t + l)
      /\ OldLen(short) = b.old.len - l /\ NewLen(short) = b.old.len - l
  <2> HIDE DEF s, t, short
  <2>1. /\ ShrunkFront(b, l) \in M /\ ShrunkFront(b, l).kind = "Equal"
        /\ Begins(ShrunkFront(b, l), s + l, t + l)
        /\ OldLen(ShrunkFront(b, l)) = b.old.len - l /\ NewLen(ShrunkFront(b, l)) = b.old.len - l
    BY <1>1, <1>3, <1>4, ShrinkFrontItem
  <2> QED
    BY <2>1 DEF short
<1>7. Moved(moved, a, x + l, y + l)
  BY <1>4, ShiftItem
<1>8. less = UnlessEmpty(short) /\ w = Join(<<moved>>, after)
  OBVIOUS
<1> HIDE DEF s, t, short, moved
<1>9. Leads(after, s + l, t + l) /\ after \in Seq(M) /\ Cost(after) = Cost(rest)
  <2>1. Follows(short, s + l, t + l, rest)
    BY <1>1, <1>5, <1>6 DEF Follows
  <2> DEFINE u == s + l
             v == t + l
  <2>2. u \in Nat /\ v \in Nat /\ Follows(short, u, v, rest)
    BY <1>5, <2>1
  <2> HIDE DEF u, v
  <2>3. Leads(after, u, v) /\ after \in Seq(M)
    BY <1>6, <1>8, <2>2, LeadsFront
  <2>4. Cost(after) = Cost(rest)
    <3>1. /\ short \in Matching(old, new) /\ short.kind = "Equal"
          /\ rest \in Seq(Matching(old, new)) /\ Follows(short, u, v, rest) /\ u \in Nat /\ v \in Nat
      BY <1>6, <2>2
    <3>2. Cost(Join(UnlessEmpty(short), rest)) = Cost(rest)
      BY <3>1, LeadsFront
    <3> QED
      BY <1>8, <3>2
  <2> QED
    BY <2>3, <2>4 DEF u, v
<1> HIDE DEF after
<1>10. Leads(w, x + l, y + l) /\ w \in Seq(M) /\ Cost(w) = EditLen(moved) + Cost(after)
  <2>1. Follows(moved, x + l, y + l, after) /\ moved \in M
    BY <1>5, <1>7, <1>9 DEF Follows, Moved
  <2>2. Leads(w, x + l, y + l)
    BY <1>5, <1>8, <1>9, <2>1, LeadsFront
  <2>3. w \in Seq(M) /\ Cost(w) = EditLen(moved) + Cost(after)
    BY <1>5, <1>8, <1>9, <2>1, LeadsFront
  <2> QED
    BY <2>2, <2>3
<1>11. moved \in M /\ moved.kind = a.kind /\ EditLen(moved) = EditLen(a)
  BY <1>7 DEF Moved
<1>12. less \in Seq(M)
  <2>1. <<>> \in Seq(M) /\ <<short>> \in Seq(M)
    BY <1>6
  <2> QED
    BY <1>8, <2>1 DEF UnlessEmpty
<1> QED
  BY <1>3, <1>4, <1>9, <1>10, <1>11, <1>12 DEF moved, after

(* The list once this has moved down: it comes right after what it leaves. *)
MovedDown(ds, front, leaves, moved, less, this) ==
  /\ AsGood(ds)
  /\ At(ds, Len(front) + 2, moved) /\ moved.kind = this.kind
  /\ leaves \in Matching(old, new) /\ moved \in Matching(old, new)
  /\ less \in Seq(Matching(old, new))

(* An edit moves down and leaves an Equal above it ... *)
LEMMA ShiftDownNeighbours ==
  ASSUME NEW front, NEW a, NEW b, NEW rest, NEW x \in Nat, NEW y \in Nat,
         Neighbours(front, a, b, rest, x, y), IsEdit(a), b.kind = "Equal",
         NEW l, l = DownLen(a, b), NEW less, less = UnlessEmpty(ShrunkFront(b, l)),
         NEW ds, ds = Join(front, Join(<<LeftAbove(a, b, l)>>, Join(<<Down(a, l)>>, Join(less, rest))))
  PROVE  MovedDown(ds, front, LeftAbove(a, b, l), Down(a, l), less, a)
<1> DEFINE M == Matching(old, new)
           left == LeftAbove(a, b, l)
           moved == Down(a, l)
           after == Join(less, rest)
           w == Join(<<moved>>, after)
           all == Join(<<left>>, w)
<1>1. /\ front \in Seq(M) /\ rest \in Seq(M) /\ a \in M /\ b \in M
      /\ Begins(a, x, y) /\ Follows(b, x + OldLen(a), y + NewLen(a), rest)
  BY DEF Neighbours, Follows
<1>2. EditLen(a) \in Nat /\ EditLen(b) = 0
  <2>1. a \in DiffRange /\ b \in DiffRange
    BY <1>1 DEF Matching
  <2> QED
    BY <2>1, ItemLens
<1>3. /\ l \in Nat /\ SameText(x, y, l) /\ left = Equal(MkRange(x, l), MkRange(y, l))
      /\ Leads(w, x + l, y + l) /\ w \in Seq(M)
      /\ Cost(w) = EditLen(a) + Cost(rest)
      /\ moved \in M /\ moved.kind = a.kind
      /\ after \in Seq(M) /\ less \in Seq(M)
  <2>1. w = Join(<<Down(a, l)>>, Join(less, rest))
    OBVIOUS
  <2> HIDE DEF w
  <2> QED
    BY <1>1, <2>1, MovedDownLeads
<1> HIDE DEF left, moved, after
<1>4. left \in M /\ left.kind = "Equal" /\ Begins(left, x, y) /\ OldLen(left) = l /\ NewLen(left) = l
  BY <1>3, MatchingEqual
<1>5. ds = Join(front, Join(<<left>>, w)) /\ w = Join(<<moved>>, after)
  BY DEF left, moved, after
<1> HIDE DEF w
<1>6. Leads(all, x, y) /\ all \in Seq(M) /\ Cost(all) = Cost(w) /\ Cost(rest) \in Nat
  <2>1. Follows(left, x, y, w)
    BY <1>3, <1>4 DEF Follows
  <2>2. Leads(all, x, y)
    BY <1>3, <1>4, <2>1, LeadsFront
  <2>3. all \in Seq(M) /\ Cost(all) = Cost(w)
    BY <1>3, <1>4, <2>1, LeadsFront
  <2>4. Cost(rest) \in Nat
    <3>1. rest \in Seq(DiffRange) /\ 0 \in 0..Len(rest)
      BY <1>1 DEF Matching
    <3> QED
      BY <3>1, UpToType
  <2> QED
    BY <2>2, <2>3, <2>4
<1>7. AsGood(ds)
  <2>1. Cost(all) = EditLen(a) + (EditLen(b) + Cost(rest))
    BY <1>2, <1>3, <1>6
  <2> HIDE DEF all
  <2>2. ds = Join(front, all)
    BY <1>5 DEF all
  <2> QED
    BY <1>6, <2>1, <2>2 DEF Neighbours, AsGood
<1>8. At(ds, Len(front) + 2, moved)
  <2> DEFINE one == <<left>>
             f == Join(front, one)
  <2>1. one \in Seq(M) /\ Len(one) = 1 /\ front \in Seq(M) /\ w \in Seq(M)
    BY <1>1, <1>3, <1>4
  <2> HIDE DEF M, one
  <2>2. Join(f, w) = Join(front, Join(one, w)) /\ f \in Seq(M)
    BY <2>1, JoinAssociates
  <2>3. Len(f) = Len(front) + Len(one) /\ Len(front) \in Nat
    BY <2>1, JoinAssociates
  <2>7. ds = Join(f, w)
    BY <1>5, <2>2 DEF one
  <2> HIDE DEF f
  <2>4. ds = Join(f, Join(<<moved>>, after))
    BY <1>5, <2>7
  <2>5. At(ds, Len(f) + 1, moved)
    BY <1>3, <2>2, <2>4, NextOne
  <2>6. Len(f) + 1 = Len(front) + 2
    BY <2>1, <2>3
  <2> QED
    BY <2>5, <2>6
<1> QED
  BY <1>3, <1>4, <1>7, <1>8 DEF MovedDown, moved, left

(* ... or an Equal that is there takes in what it leaves. *)
LEMMA ShiftDownBetween ==
  ASSUME NEW front, NEW prev, NEW a, NEW b, NEW rest, NEW tail, NEW x \in Nat, NEW y \in Nat,
         Neighbours(front, prev, a, rest, x, y), prev.kind = "Equal", IsEdit(a),
         b \in Matching(old, new), b.kind = "Equal", tail \in Seq(Matching(old, new)),
         rest = Join(<<b>>, tail),
         NEW l, l = DownLen(a, b), NEW less, less = UnlessEmpty(ShrunkFront(b, l)),
         NEW ds, ds = Join(front, Join(<<GrownDown(prev, l)>>, Join(<<Down(a, l)>>, Join(less, tail))))
  PROVE  MovedDown(ds, front, GrownDown(prev, l), Down(a, l), less, a)
<1> DEFINE M == Matching(old, new)
           s == x + OldLen(prev)
           t == y + NewLen(prev)
           grown == GrownDown(prev, l)
           moved == Down(a, l)
           after == Join(less, tail)
           w == Join(<<moved>>, after)
           all == Join(<<grown>>, w)
<1>1. /\ front \in Seq(M) /\ rest \in Seq(M) /\ prev \in M /\ a \in M
      /\ Begins(prev, x, y) /\ Begins(a, s, t) /\ s \in Nat /\ t \in Nat
      /\ s + OldLen(a) \in Nat /\ t + NewLen(a) \in Nat
      /\ Leads(rest, s + OldLen(a), t + NewLen(a))
  BY DEF Neighbours
<1>2. /\ EditLen(a) \in Nat /\ EditLen(prev) = 0 /\ EditLen(b) = 0
      /\ prev.old.len \in Nat /\ OldLen(prev) = prev.old.len /\ NewLen(prev) = prev.old.len
  <2>1. a \in DiffRange /\ b \in DiffRange /\ prev \in DiffRange /\ prev.new.len = prev.old.len
    BY <1>1 DEF Matching, IsEdit
  <2> QED
    BY <2>1, ItemLens
<1>3. Begins(prev, x, y) /\ s = x + prev.old.len /\ t = y + prev.old.len
  BY <1>1, <1>2
<1> HIDE DEF s, t
<1>4. Follows(b, s + OldLen(a), t + NewLen(a), tail) /\ Cost(rest) = Cost(tail) /\ Cost(tail) \in Nat
  <2> DEFINE u == s + OldLen(a)
             v == t + NewLen(a)
  <2>1. u \in Nat /\ v \in Nat /\ Leads(<<b>> \o tail, u, v)
    BY <1>1 DEF Join
  <2> HIDE DEF u, v
  <2>2. Begins(b, u, v) /\ Leads(tail, u + OldLen(b), v + NewLen(b))
    BY <2>1, LeadsCons
  <2>3. Follows(b, u, v, tail)
    BY <2>2 DEF Follows
  <2>4. Cost(rest) = EditLen(b) + Cost(tail) /\ Cost(tail) \in Nat
    BY <2>1, <2>3, LeadsFront
  <2> QED
    BY <1>2, <2>3, <2>4 DEF u, v
<1>5. /\ l \in Nat /\ SameText(s, t, l)
      /\ Leads(w, s + l, t + l) /\ w \in Seq(M)
      /\ Cost(w) = EditLen(a) + Cost(tail)
      /\ moved \in M /\ moved.kind = a.kind
      /\ after \in Seq(M) /\ less \in Seq(M)
  <2>1. w = Join(<<Down(a, l)>>, Join(less, tail))
    OBVIOUS
  <2> HIDE DEF w
  <2> QED
    BY SMTT(60), <1>1, <1>4, <2>1, MovedDownLeads
<1> HIDE DEF moved, after
<1>6. w = Join(<<moved>>, after) /\ ds = Join(front, all)
  BY DEF moved, after
<1> HIDE DEF w
<1>7. /\ grown \in M /\ grown.kind = "Equal" /\ Begins(grown, x, y)
      /\ OldLen(grown) = prev.old.len + l /\ NewLen(grown) = prev.old.len + l
  <2>1. SameText(x + prev.old.len, y + prev.old.len, l)
    BY <1>3, <1>5
  <2> QED
    BY SMTT(60), <1>1, <1>5, <2>1, GrowDownItem
<1> HIDE DEF grown
<1>8. Leads(all, x, y) /\ all \in Seq(M) /\ Cost(all) = Cost(w)
  <2>1. x + OldLen(grown) = s + l /\ y + NewLen(grown) = t + l
    <3>1. l \in Nat /\ OldLen(grown) = prev.old.len + l /\ NewLen(grown) = prev.old.len + l
      BY <1>5, <1>7
    <3>2. prev.old.len \in Nat /\ s = x + prev.old.len /\ t = y + prev.old.len
      BY <1>2, <1>3
    <3> DEFINE o == OldLen(grown)
               n == NewLen(grown)
               a1 == prev.old.len
    <3>3. o = a1 + l /\ n = a1 + l /\ a1 \in Nat /\ s = x + a1 /\ t = y + a1
      BY <3>1, <3>2
    <3> HIDE DEF o, n, a1
    <3>4. x + o = s + l /\ y + n = t + l
      BY <3>1, <3>3
    <3> QED
      BY <3>4 DEF o, n
  <2>2. Follows(grown, x, y, w)
    BY <1>5, <1>7, <2>1 DEF Follows
  <2>3. Leads(all, x, y)
    BY <1>5, <1>7, <2>2, LeadsFront
  <2>4. all \in Seq(M) /\ Cost(all) = Cost(w)
    BY <1>5, <1>7, <2>2, LeadsFront
  <2> QED
    BY <2>3, <2>4
<1>9. AsGood(ds)
  <2>1. Cost(all) = EditLen(prev) + (EditLen(a) + Cost(rest))
    BY <1>2, <1>4, <1>5, <1>8
  <2> HIDE DEF all
  <2> QED
    BY <1>6, <1>8, <2>1 DEF Neighbours, AsGood
<1>10. At(ds, Len(front) + 2, moved)
  <2> DEFINE one == <<grown>>
             f == Join(front, one)
  <2>1. one \in Seq(M) /\ Len(one) = 1 /\ front \in Seq(M) /\ w \in Seq(M)
    BY <1>1, <1>5, <1>7
  <2> HIDE DEF M, one
  <2>2. Join(f, w) = Join(front, Join(one, w)) /\ f \in Seq(M)
    BY <2>1, JoinAssociates
  <2>3. Len(f) = Len(front) + Len(one) /\ Len(front) \in Nat
    BY <2>1, JoinAssociates
  <2>7. ds = Join(f, w)
    BY <1>6, <2>2 DEF one, all
  <2> HIDE DEF f
  <2>4. ds = Join(f, Join(<<moved>>, after))
    BY <1>6, <2>7
  <2>5. At(ds, Len(f) + 1, moved)
    BY <1>5, <2>2, <2>4, NextOne
  <2>6. Len(f) + 1 = Len(front) + 2
    BY <2>1, <2>3
  <2> QED
    BY <2>5, <2>6
<1> QED
  BY <1>5, <1>7, <1>9, <1>10 DEF MovedDown, moved, grown


-----------------------------------------------------------------------------
(* The arms of shift_diff_up and shift_diff_down *)

(* What each of them starts from ... *)
LEMMA ArmStarts ==
  ASSUME CompactInv, mode \in {"up", "down"}
  PROVE  /\ Good(diffs) /\ diffs \in Seq(Matching(old, new))
         /\ pointer \in Nat \ {0} /\ Has(pointer)
         /\ This.kind = pass /\ IsEdit(This) /\ This \in Matching(old, new)
         /\ pass \in {"Delete", "Insert"}
<1>1. CompactTypeOK /\ mode # "idle" /\ Good(diffs)
  BY DEF CompactInv
<1>2. diffs \in Seq(Matching(old, new))
  BY <1>1 DEF Good, Leads
<1>3. /\ pointer \in Nat \ {0} /\ Has(pointer) /\ This.kind = pass /\ pass \in {"Delete", "Insert"}
  BY <1>1 DEF CompactTypeOK
<1>4. IsEdit(This)
  BY <1>3 DEF IsEdit
<1>5. This \in Matching(old, new)
  BY <1>2, <1>3, PeelFront DEF This
<1> QED
  BY <1>1, <1>2, <1>3, <1>4, <1>5

(* ... and what it has to leave behind. *)
LEMMA ArmKeeps ==
  ASSUME CompactInv, mode \in {"up", "down"}, UNCHANGED <<texts, pass, mode>>,
         NEW ds, diffs' = ds, Good(ds),
         NEW p \in Nat \ {0}, pointer' = p, p \in DOMAIN ds, ds[p].kind = pass
  PROVE  CompactInv'
<1>1. Good(diffs)' /\ mode' = mode /\ pass' = pass
  BY DEF Good, Leads, texts, Matching
<1>2. ds \in Seq(DiffRange)
  BY DEF Good, Leads, Matching
<1>3. pass \in {"Delete", "Insert"}
  BY DEF CompactInv, CompactTypeOK
<1>4. CompactTypeOK'
  BY <1>1, <1>2, <1>3 DEF CompactTypeOK, Has, This
<1> QED
  BY <1>1, <1>4 DEF CompactInv

(* The edit that is shifted and what is above it. *)
LEMMA UpPair ==
  ASSUME CompactInv, mode = "up", Has(pointer - 1)
  PROVE  /\ \E x, y \in Nat : Neighbours(Upto(pointer - 2), Above, This, From(pointer + 1), x, y)
         /\ Len(Upto(pointer - 2)) = pointer - 2 /\ pointer - 1 \in Nat \ {0}
         /\ From(pointer) = <<This>> \o From(pointer + 1)
         /\ Above \in Matching(old, new)
<1> DEFINE j == pointer - 1
<1>1. /\ Good(diffs) /\ diffs \in Seq(Matching(old, new))
      /\ pointer \in Nat \ {0} /\ Has(pointer)
  BY ArmStarts
<1>2. j \in 1..Len(diffs) /\ Above \in Matching(old, new)
  BY <1>1, PeelFront DEF Above
<1>3. /\ j \in Nat \ {0} /\ j + 1 = pointer /\ j - 1 = pointer - 2 /\ j + 2 = pointer + 1
  BY <1>1, <1>2
<1>4. Has(j) /\ Has(j + 1)
  BY <1>1, <1>3
<1>5. diffs[j] = Above /\ diffs[j + 1] = This
  BY <1>3 DEF Above, This
<1> HIDE DEF j
<1>6. /\ \E x, y \in Nat : Neighbours(Upto(j - 1), diffs[j], diffs[j + 1], From(j + 2), x, y)
      /\ Len(Upto(j - 1)) = j - 1
      /\ From(j + 1) = <<diffs[j + 1]>> \o From(j + 2)
  BY <1>1, <1>3, <1>4, InARow
<1> QED
  BY <1>2, <1>3, <1>5, <1>6 DEF j

(* The edit that is shifted and what is below it. *)
LEMMA DownPair ==
  ASSUME CompactInv, mode = "down", Has(pointer + 1)
  PROVE  /\ \E x, y \in Nat : Neighbours(Upto(pointer - 1), This, Below, From(pointer + 2), x, y)
         /\ Len(Upto(pointer - 1)) = pointer - 1
         /\ From(pointer + 1) = <<Below>> \o From(pointer + 2)
         /\ Below \in Matching(old, new)
<1>1. /\ Good(diffs) /\ diffs \in Seq(Matching(old, new))
      /\ pointer \in Nat \ {0} /\ Has(pointer)
  BY ArmStarts
<1>2. Below \in Matching(old, new)
  BY <1>1, PeelFront DEF Below
<1>3. /\ \E x, y \in Nat : Neighbours(Upto(pointer - 1), diffs[pointer], diffs[pointer + 1],
                                      From(pointer + 2), x, y)
      /\ Len(Upto(pointer - 1)) = pointer - 1
      /\ From(pointer + 1) = <<diffs[pointer + 1]>> \o From(pointer + 2)
  BY <1>1, InARow
<1> QED
  BY <1>2, <1>3 DEF This, Below

(* What an arm does to the invariant and to the cost. *)
ArmRight == CompactInv' /\ Cost(diffs') = Cost(diffs)

(* The edits change places: what the other kind covers does not move. *)
LEMMA SwapUpRight ==
  ASSUME CompactInv, SwapUp
  PROVE  ArmRight
<1> DEFINE front == Upto(pointer - 2)
           rest == From(pointer + 1)
<1>1. /\ mode = "up" /\ Has(pointer - 1) /\ Above.kind = OtherKind /\ UNCHANGED <<texts, pass, mode>>
      /\ diffs' = Join(Join(front, <<This, Above>>), rest) /\ pointer' = pointer - 1
  BY DEF SwapUp, GoingUp, Join
<1>2. IsEdit(This) /\ This.kind = pass /\ pass \in {"Delete", "Insert"} /\ pointer \in Nat
  BY <1>1, ArmStarts
<1>3. IsEdit(Above) /\ Above.kind # This.kind
  BY <1>1, <1>2 DEF OtherKind, IsEdit
<1>4. /\ \E x, y \in Nat : Neighbours(front, Above, This, rest, x, y)
      /\ Len(front) = pointer - 2 /\ pointer - 1 \in Nat \ {0}
  BY <1>1, UpPair
<1>5. PICK x, y \in Nat : Neighbours(front, Above, This, rest, x, y)
  BY <1>4
<1> HIDE DEF front, rest
<1>6. AsGood(diffs')
  BY <1>1, <1>2, <1>3, <1>5, SwapNeighbours
<1>7. At(diffs', Len(front) + 1, This)
  BY <1>1, <1>2, <1>3, <1>5, SwapNeighbours
<1>8. Len(front) + 1 = pointer - 1
  BY <1>2, <1>4
<1>9. pointer' \in Nat \ {0} /\ pointer' \in DOMAIN diffs' /\ diffs'[pointer'].kind = pass
  BY <1>1, <1>2, <1>4, <1>7, <1>8 DEF At
<1>10. CompactInv'
  BY <1>1, <1>6, <1>9, ArmKeeps DEF AsGood
<1> QED
  BY <1>6, <1>10 DEF ArmRight, AsGood


(* The same, downwards. *)
LEMMA SwapDownRight ==
  ASSUME CompactInv, SwapDown
  PROVE  ArmRight
<1> DEFINE front == Upto(pointer - 1)
           rest == From(pointer + 2)
<1>1. /\ mode = "down" /\ Has(pointer + 1) /\ Below.kind = OtherKind /\ UNCHANGED <<texts, pass, mode>>
      /\ diffs' = Join(Join(front, <<Below, This>>), rest) /\ pointer' = pointer + 1
  BY DEF SwapDown, GoingDown, Join
<1>2. /\ IsEdit(This) /\ This.kind = pass /\ pass \in {"Delete", "Insert"} /\ pointer \in Nat \ {0}
  BY <1>1, ArmStarts
<1>3. IsEdit(Below) /\ This.kind # Below.kind
  BY <1>1, <1>2 DEF OtherKind, IsEdit
<1>4. /\ \E x, y \in Nat : Neighbours(front, This, Below, rest, x, y)
      /\ Len(front) = pointer - 1
  BY <1>1, DownPair
<1>5. PICK x, y \in Nat : Neighbours(front, This, Below, rest, x, y)
  BY <1>4
<1> HIDE DEF front, rest
<1>6. AsGood(diffs')
  BY <1>1, <1>2, <1>3, <1>5, SwapNeighbours
<1>7. At(diffs', Len(front) + 2, This)
  BY <1>1, <1>2, <1>3, <1>5, SwapNeighbours
<1>8. Len(front) + 2 = pointer + 1
  BY <1>2, <1>4
<1>9. pointer' \in Nat \ {0} /\ pointer' \in DOMAIN diffs' /\ diffs'[pointer'].kind = pass
  BY <1>1, <1>2, <1>4, <1>7, <1>8 DEF At
<1>10. CompactInv'
  BY <1>1, <1>6, <1>9, ArmKeeps DEF AsGood
<1> QED
  BY <1>6, <1>10 DEF ArmRight, AsGood

(* One item in the middle of a list. *)
LEMMA OneBetween ==
  ASSUME NEW T, NEW front \in Seq(T), NEW diff \in T, NEW rest \in Seq(T)
  PROVE  Join(Join(front, <<diff>>), rest) = Join(front, Join(<<diff>>, rest))
<1> DEFINE one == <<diff>>
<1>1. one \in Seq(T)
  OBVIOUS
<1> HIDE DEF one
<1>2. Join(Join(front, one), rest) = Join(front, Join(one, rest))
  BY <1>1, JoinAssociates
<1> QED
  BY <1>2 DEF one

(* Two edits of a kind that touch become one of both their lengths. *)
LEMMA MergeUpRight ==
  ASSUME CompactInv, MergeUp
  PROVE  ArmRight
<1> DEFINE front == Upto(pointer - 2)
           rest == From(pointer + 1)
           both == GrownDown(Above, LenOf(This))
<1>1. /\ mode = "up" /\ Has(pointer - 1) /\ Above.kind = This.kind /\ UNCHANGED <<texts, pass, mode>>
      /\ diffs' = Join(Join(front, <<both>>), rest) /\ pointer' = pointer - 1
  BY DEF MergeUp, GoingUp, Join
<1>2. IsEdit(This) /\ This.kind = pass /\ pass \in {"Delete", "Insert"} /\ pointer \in Nat
  BY <1>1, ArmStarts
<1>3. IsEdit(Above)
  BY <1>1, <1>2 DEF IsEdit
<1>4. /\ \E x, y \in Nat : Neighbours(front, Above, This, rest, x, y)
      /\ Len(front) = pointer - 2 /\ pointer - 1 \in Nat \ {0}
  BY <1>1, UpPair
<1>5. PICK x, y \in Nat : Neighbours(front, Above, This, rest, x, y)
  BY <1>4
<1> HIDE DEF front, rest
<1>6. diffs' = Join(front, Join(<<both>>, rest))
  <2>1. /\ front \in Seq(Matching(old, new)) /\ rest \in Seq(Matching(old, new))
        /\ Above \in Matching(old, new) /\ This \in Matching(old, new)
        /\ Begins(Above, x, y)
    BY <1>5 DEF Neighbours
  <2>2. both \in Matching(old, new)
    BY <1>1, <1>3, <2>1, MergeItems
  <2> HIDE DEF both
  <2> QED
    BY <1>1, <2>1, <2>2, OneBetween
<1>7. AsGood(diffs')
  BY <1>1, <1>3, <1>5, <1>6, MergeNeighbours
<1>8. At(diffs', Len(front) + 1, both) /\ both.kind = Above.kind
  BY <1>1, <1>3, <1>5, <1>6, MergeNeighbours
<1>9. Len(front) + 1 = pointer - 1
  BY <1>2, <1>4
<1>10. pointer' \in Nat \ {0} /\ pointer' \in DOMAIN diffs' /\ diffs'[pointer'].kind = pass
  BY <1>1, <1>2, <1>4, <1>8, <1>9 DEF At
<1>11. CompactInv'
  BY <1>1, <1>7, <1>10, ArmKeeps DEF AsGood
<1> QED
  BY <1>7, <1>11 DEF ArmRight, AsGood

(* The same, downwards. *)
LEMMA MergeDownRight ==
  ASSUME CompactInv, MergeDown
  PROVE  ArmRight
<1> DEFINE front == Upto(pointer - 1)
           rest == From(pointer + 2)
           both == GrownDown(This, LenOf(Below))
<1>1. /\ mode = "down" /\ Has(pointer + 1) /\ This.kind = Below.kind /\ UNCHANGED <<texts, pass, mode>>
      /\ diffs' = Join(Join(front, <<both>>), rest) /\ pointer' = pointer
  BY DEF MergeDown, GoingDown, Join
<1>2. IsEdit(This) /\ This.kind = pass /\ pass \in {"Delete", "Insert"} /\ pointer \in Nat \ {0}
  BY <1>1, ArmStarts
<1>4. /\ \E x, y \in Nat : Neighbours(front, This, Below, rest, x, y)
      /\ Len(front) = pointer - 1
  BY <1>1, DownPair
<1>5. PICK x, y \in Nat : Neighbours(front, This, Below, rest, x, y)
  BY <1>4
<1> HIDE DEF front, rest
<1>6. diffs' = Join(front, Join(<<both>>, rest))
  <2>1. /\ front \in Seq(Matching(old, new)) /\ rest \in Seq(Matching(old, new))
        /\ Below \in Matching(old, new) /\ This \in Matching(old, new)
        /\ Begins(This, x, y)
    BY <1>5 DEF Neighbours
  <2>2. both \in Matching(old, new)
    BY <1>1, <1>2, <2>1, MergeItems
  <2> HIDE DEF both
  <2> QED
    BY <1>1, <2>1, <2>2, OneBetween
<1>7. AsGood(diffs')
  BY <1>1, <1>2, <1>5, <1>6, MergeNeighbours
<1>8. At(diffs', Len(front) + 1, both) /\ both.kind = This.kind
  BY <1>1, <1>2, <1>5, <1>6, MergeNeighbours
<1>9. Len(front) + 1 = pointer
  BY <1>2, <1>4
<1>10. pointer' \in Nat \ {0} /\ pointer' \in DOMAIN diffs' /\ diffs'[pointer'].kind = pass
  BY <1>1, <1>2, <1>4, <1>8, <1>9 DEF At
<1>11. CompactInv'
  BY <1>1, <1>7, <1>10, ArmKeeps DEF AsGood
<1> QED
  BY <1>7, <1>11 DEF ArmRight, AsGood


(* What is dropped has no length, so no place of any item changes. *)
LEMMA DropEmptyAboveRight ==
  ASSUME CompactInv, DropEmptyAbove
  PROVE  ArmRight
<1> DEFINE front == Upto(pointer - 2)
           rest == From(pointer + 1)
<1>1. /\ mode = "up" /\ Has(pointer - 1) /\ Above.kind = "Equal" /\ IsEmpty(Above)
      /\ UNCHANGED <<texts, pass, mode>>
      /\ diffs' = Join(front, From(pointer)) /\ pointer' = pointer - 1
  BY DEF DropEmptyAbove, GoingUp, Join
<1>2. This.kind = pass /\ pointer \in Nat
  BY <1>1, ArmStarts
<1>3. /\ \E x, y \in Nat : Neighbours(front, Above, This, rest, x, y)
      /\ Len(front) = pointer - 2 /\ pointer - 1 \in Nat \ {0}
      /\ From(pointer) = Join(<<This>>, rest)
  BY <1>1, UpPair DEF Join
<1>4. PICK x, y \in Nat : Neighbours(front, Above, This, rest, x, y)
  BY <1>3
<1> HIDE DEF front, rest
<1>5. diffs' = Join(front, Join(<<This>>, rest))
  BY <1>1, <1>3
<1>6. AsGood(diffs')
  BY <1>1, <1>4, <1>5, DropNeighbour
<1>7. At(diffs', Len(front) + 1, This)
  BY <1>1, <1>4, <1>5, DropNeighbour
<1>8. Len(front) + 1 = pointer - 1
  BY <1>2, <1>3
<1>9. pointer' \in Nat \ {0} /\ pointer' \in DOMAIN diffs' /\ diffs'[pointer'].kind = pass
  BY <1>1, <1>2, <1>3, <1>7, <1>8 DEF At
<1>10. CompactInv'
  BY <1>1, <1>6, <1>9, ArmKeeps DEF AsGood
<1> QED
  BY <1>6, <1>10 DEF ArmRight, AsGood

(* A list up to one of its items. *)
LEMMA UptoItem ==
  ASSUME diffs \in Seq(Matching(old, new)), NEW i, Has(i)
  PROVE  Upto(i) = Join(Upto(i - 1), <<diffs[i]>>)
<1> DEFINE M == Matching(old, new)
<1>1. i \in 1..Len(diffs) /\ diffs[i] \in M
  BY PeelFront DEF Has
<1>2. /\ \A j \in 1..i : Upto(i)[j] = diffs[j]
      /\ \A j \in 1..i - 1 : Upto(i - 1)[j] = diffs[j]
      /\ Len(Upto(i)) = i /\ Len(Upto(i - 1)) = i - 1
      /\ Upto(i) \in Seq(M) /\ Upto(i - 1) \in Seq(M)
  BY <1>1 DEF Upto
<1> DEFINE f == Upto(i)
           g == Upto(i - 1)
           one == <<diffs[i]>>
<1>3. one \in Seq(M) /\ Len(one) = 1 /\ one[1] = diffs[i]
  BY <1>1
<1> HIDE DEF M, f, g, one
<1>4. /\ f \in Seq(M) /\ g \in Seq(M) /\ Len(f) = Len(g) + Len(one)
      /\ \A j \in 1..Len(g) : f[j] = g[j]
  BY <1>1, <1>2, <1>3 DEF f, g
<1>5. \A j \in 1..Len(one) : f[Len(g) + j] = one[j]
  BY <1>1, <1>2, <1>3 DEF f, g
<1>6. f = g \o one
  BY <1>3, <1>4, <1>5, ConcatElements
<1> QED
  BY <1>6 DEF f, g, one, Join

(* The same, downwards. *)
LEMMA DropEmptyBelowRight ==
  ASSUME CompactInv, DropEmptyBelow
  PROVE  ArmRight
<1> DEFINE front == Upto(pointer - 1)
           rest == From(pointer + 2)
<1>1. /\ mode = "down" /\ Has(pointer + 1) /\ Below.kind = "Equal" /\ IsEmpty(Below)
      /\ UNCHANGED <<texts, pass, mode>>
      /\ diffs' = Join(Upto(pointer), rest) /\ pointer' = pointer
  BY DEF DropEmptyBelow, GoingDown, Join
<1>2. /\ This.kind = pass /\ pointer \in Nat \ {0}
      /\ Upto(pointer) = Join(front, <<This>>)
  BY <1>1, ArmStarts, UptoItem DEF This
<1>3. /\ \E x, y \in Nat : Neighbours(front, This, Below, rest, x, y)
      /\ Len(front) = pointer - 1
  BY <1>1, DownPair
<1>4. PICK x, y \in Nat : Neighbours(front, This, Below, rest, x, y)
  BY <1>3
<1> HIDE DEF front, rest
<1>5. diffs' = Join(front, Join(<<This>>, rest))
  <2>1. /\ front \in Seq(Matching(old, new)) /\ rest \in Seq(Matching(old, new))
        /\ This \in Matching(old, new)
    BY <1>4 DEF Neighbours
  <2> QED
    BY <1>1, <1>2, <2>1, OneBetween
<1>6. AsGood(diffs')
  BY <1>1, <1>4, <1>5, DropNeighbour
<1>7. At(diffs', Len(front) + 1, This)
  BY <1>1, <1>4, <1>5, DropNeighbour
<1>8. Len(front) + 1 = pointer
  BY <1>2, <1>3
<1>9. pointer' \in Nat \ {0} /\ pointer' \in DOMAIN diffs' /\ diffs'[pointer'].kind = pass
  BY <1>1, <1>2, <1>7, <1>8 DEF At
<1>10. CompactInv'
  BY <1>1, <1>6, <1>9, ArmKeeps DEF AsGood
<1> QED
  BY <1>6, <1>10 DEF ArmRight, AsGood

(* Four lists in a row. *)
LEMMA FourJoined ==
  ASSUME NEW T, NEW a \in Seq(T), NEW b \in Seq(T), NEW c \in Seq(T), NEW e \in Seq(T)
  PROVE  Join(Join(Join(a, b), c), e) = Join(a, Join(b, Join(c, e)))
<1> DEFINE ab == Join(a, b)
           ce == Join(c, e)
<1>1. ab \in Seq(T) /\ ce \in Seq(T)
  BY JoinAssociates
<1>2. Join(ab, ce) = Join(a, Join(b, ce))
  BY <1>1, JoinAssociates
<1> HIDE DEF ab
<1>3. Join(Join(ab, c), e) = Join(ab, ce)
  BY <1>1, JoinAssociates
<1> QED
  BY <1>2, <1>3 DEF ab

(* The edit moves up over lines that are equal to its own last ones: above
   it the equal item gets shorter, below it one grows or is inserted. *)
LEMMA ShiftUpThroughEqualRight ==
  ASSUME CompactInv, ShiftUpThroughEqual
  PROVE  ArmRight
<1> DEFINE M == Matching(old, new)
           front == Upto(pointer - 2)
           rest == From(pointer + 1)
           l == UpLen(This, Above)
           less == UnlessEmpty(ShrunkBack(Above, l))
           below == GrownBelow(l)
           moved == Up(This, l)
           w == Join(front, Join(less, Join(<<moved>>, below)))
<1>1. /\ mode = "up" /\ Has(pointer - 1) /\ Above.kind = "Equal"
      /\ UNCHANGED <<texts, pass, mode>>
      /\ diffs' = Join(Join(Join(front, less), <<moved>>), below)
      /\ pointer' = pointer - 1 + Len(less)
  BY DEF ShiftUpThroughEqual, GoingUp, Join
<1>2. /\ IsEdit(This) /\ This.kind = pass /\ pointer \in Nat
      /\ diffs \in Seq(M)
  BY <1>1, ArmStarts
<1>3. /\ \E x, y \in Nat : Neighbours(front, Above, This, rest, x, y)
      /\ Len(front) = pointer - 2 /\ pointer - 1 \in Nat \ {0}
  BY <1>1, UpPair
<1>4. PICK x, y \in Nat : Neighbours(front, Above, This, rest, x, y)
  BY <1>3
<1>5. MadeBelow(LeftBelow(This, Above, l), rest, l, below)
  <2>1. CASE HasEqual(pointer + 1)
    <3> DEFINE next == diffs[pointer + 1]
               after == From(pointer + 2)
    <3>1. Has(pointer + 1) /\ ~IsEdit(next) /\ below = Join(<<GrownUp(next, l)>>, after)
      BY <2>1 DEF GrownBelow, HasEqual, Join
    <3>2. (pointer + 1) + 1 = pointer + 2
      BY <1>2
    <3>3. /\ next \in M /\ after \in Seq(M)
          /\ rest = Join(<<next>>, after)
      BY <1>2, <3>1, <3>2, PeelFront DEF Join
    <3>4. next.kind = "Equal"
      BY <3>1, <3>3 DEF IsEdit
    <3> HIDE DEF next, after, below, rest
    <3> QED
      BY <3>1, <3>3, <3>4 DEF MadeBelow
  <2>2. CASE ~HasEqual(pointer + 1)
    BY <2>2 DEF GrownBelow, MadeBelow, Join, Above
  <2> QED
    BY <2>1, <2>2
<1> HIDE DEF M, front, rest, l, less, below
<1>6. /\ l = UpLen(This, Above) /\ less = UnlessEmpty(ShrunkBack(Above, l))
      /\ w = Join(front, Join(less, Join(<<moved>>, below)))
  BY DEF l, less
<1>7. /\ AsGood(w) /\ Len(less) \in Nat /\ At(w, (Len(front) + Len(less)) + 1, moved)
      /\ moved.kind = This.kind
      /\ less \in Seq(M) /\ moved \in M /\ below \in Seq(M)
  <2> HIDE DEF w
  <2>1. AsGood(w)
    BY <1>1, <1>2, <1>4, <1>5, <1>6, ShiftUpNeighbours
  <2>2. At(w, (Len(front) + Len(less)) + 1, moved)
    BY <1>1, <1>2, <1>4, <1>5, <1>6, ShiftUpNeighbours
  <2>3. Len(less) \in Nat /\ moved.kind = This.kind
    BY <1>1, <1>2, <1>4, <1>5, <1>6, ShiftUpNeighbours
  <2>4. less \in Seq(M) /\ moved \in M /\ below \in Seq(M)
    BY <1>1, <1>2, <1>4, <1>5, <1>6, ShiftUpNeighbours DEF M
  <2> QED
    BY <2>1, <2>2, <2>3, <2>4
<1>8. diffs' = w
  <2> DEFINE one == <<moved>>
  <2>1. one \in Seq(M) /\ front \in Seq(M)
    BY <1>4, <1>7 DEF Neighbours, M
  <2> HIDE DEF one
  <2>2. Join(Join(Join(front, less), one), below) = Join(front, Join(less, Join(one, below)))
    BY <1>7, <2>1, FourJoined
  <2> QED
    BY <1>1, <2>2 DEF one
<1> HIDE DEF w
<1>9. pointer' = (Len(front) + Len(less)) + 1 /\ pointer' \in Nat \ {0}
  BY SMTT(60), <1>1, <1>2, <1>3, <1>7
<1>10. pointer' \in DOMAIN diffs' /\ diffs'[pointer'].kind = pass
  BY <1>2, <1>7, <1>8, <1>9 DEF At
<1>11. CompactInv'
  BY <1>1, <1>7, <1>8, <1>9, <1>10, ArmKeeps DEF AsGood
<1> QED
  BY <1>7, <1>8, <1>11 DEF ArmRight, AsGood


(* An item behind the first list of four. *)
LEMMA FiveJoined ==
  ASSUME NEW T, NEW a \in Seq(T), NEW diff \in T, NEW b \in Seq(T), NEW c \in Seq(T), NEW e \in Seq(T)
  PROVE  /\ Join(Join(Join(Append(a, diff), b), c), e) = Join(a, Join(<<diff>>, Join(b, Join(c, e))))
         /\ Len(Append(a, diff)) = Len(a) + 1
<1> DEFINE one == <<diff>>
           bce == Join(b, Join(c, e))
           aone == Join(a, one)
<1>1. one \in Seq(T) /\ Append(a, diff) = a \o one /\ Len(Append(a, diff)) = Len(a) + 1
  OBVIOUS
<1>2. Join(c, e) \in Seq(T)
  BY JoinAssociates
<1> HIDE DEF one
<1>3. aone \in Seq(T)
  BY <1>1, JoinAssociates
<1>4. bce \in Seq(T)
  BY <1>2, JoinAssociates
<1> HIDE DEF bce
<1>5. Join(aone, bce) = Join(a, Join(one, bce))
  BY <1>1, <1>4, JoinAssociates
<1> HIDE DEF aone
<1>6. Join(Join(Join(aone, b), c), e) = Join(aone, Join(b, Join(c, e)))
  BY <1>3, FourJoined
<1>7. Join(Join(Join(Append(a, diff), b), c), e) = Join(Join(Join(aone, b), c), e)
  BY <1>1 DEF aone, Join
<1> QED
  BY <1>1, <1>5, <1>6, <1>7 DEF one, bce

(* The same, downwards. *)
LEMMA ShiftDownThroughEqualRight ==
  ASSUME CompactInv, ShiftDownThroughEqual
  PROVE  ArmRight
<1> DEFINE M == Matching(old, new)
           rest == From(pointer + 2)
           l == DownLen(This, Below)
           less == UnlessEmpty(ShrunkFront(Below, l))
           above == GrownAbove(l)
           moved == Down(This, l)
<1>1. /\ mode = "down" /\ Has(pointer + 1) /\ Below.kind = "Equal"
      /\ UNCHANGED <<texts, pass, mode>>
      /\ diffs' = Join(Join(Join(above, <<moved>>), less), rest)
      /\ pointer' = Len(above) + 1
  BY DEF ShiftDownThroughEqual, GoingDown, Join
<1>2. /\ IsEdit(This) /\ This.kind = pass /\ pointer \in Nat \ {0} /\ Has(pointer)
      /\ diffs \in Seq(M) /\ Good(diffs)
  BY <1>1, ArmStarts
<1>3. ASSUME NEW front \in Seq(M), NEW diff \in M, above = Append(front, diff),
             less \in Seq(M), moved \in M, moved.kind = This.kind, rest \in Seq(M),
             NEW ds, ds = Join(front, Join(<<diff>>, Join(<<moved>>, Join(less, rest)))),
             AsGood(ds), At(ds, Len(front) + 2, moved)
      PROVE  ArmRight
  <2> DEFINE one == <<moved>>
  <2>1. one \in Seq(M)
    BY <1>3
  <2> HIDE DEF M, rest, l, less, above, moved, one
  <2>2. Join(Join(Join(Append(front, diff), one), less), rest) = Join(front, Join(<<diff>>, Join(one, Join(less, rest))))
    BY <1>3, <2>1, FiveJoined
  <2>3. Len(Append(front, diff)) = Len(front) + 1 /\ Len(front) \in Nat
    BY <1>3
  <2>4. diffs' = ds
    <3>1. diffs' = Join(Join(Join(Append(front, diff), one), less), rest)
      BY <1>1, <1>3 DEF one
    <3>2. ds = Join(front, Join(<<diff>>, Join(one, Join(less, rest))))
      BY <1>3 DEF one
    <3> QED
      BY <2>2, <3>1, <3>2
  <2>5. pointer' = Len(front) + 2 /\ pointer' \in Nat \ {0}
    BY <1>1, <1>3, <2>3
  <2>6. pointer' \in DOMAIN ds /\ ds[pointer'].kind = pass
    BY <1>2, <1>3, <2>5 DEF At
  <2>7. CompactInv'
    BY <1>1, <1>3, <2>4, <2>5, <2>6, ArmKeeps DEF AsGood
  <2> QED
    BY <1>3, <2>4, <2>7 DEF ArmRight, AsGood
<1>4. CASE HasEqual(pointer - 1)
  <2> DEFINE front == Upto(pointer - 2)
             tail == From(pointer + 1)
             prev == diffs[pointer - 1]
             j == pointer - 1
             ds == Join(front, Join(<<GrownDown(prev, l)>>, Join(<<moved>>, Join(less, rest))))
  <2>1. Has(j) /\ ~IsEdit(prev) /\ above = Append(front, GrownDown(prev, l)) /\ prev = diffs[j]
    BY <1>4 DEF GrownAbove, HasEqual
  <2>2. /\ j \in 1..Len(diffs) /\ j \in Nat \ {0} /\ prev \in M
    <3> HIDE DEF j, prev
    <3>1. j \in 1..Len(diffs) /\ diffs[j] \in M
      BY <1>2, <2>1, PeelFront
    <3> QED
      BY <2>1, <3>1
  <2>3. j + 1 = pointer /\ j - 1 = pointer - 2 /\ j + 2 = pointer + 1 /\ (pointer + 1) + 1 = pointer + 2
    BY <1>2
  <2>4. Has(j + 1) /\ diffs[j + 1] = This /\ prev = diffs[j]
    BY <1>2, <2>3 DEF This
  <2>5. prev.kind = "Equal"
    BY <2>1, <2>2 DEF Matching, DiffRange, IsEdit
  <2>6. /\ Below \in M /\ rest \in Seq(M) /\ tail = Join(<<Below>>, rest)
    BY <1>1, <1>2, <2>3, PeelFront DEF Below, Join
  <2> HIDE DEF j, prev
  <2>7. \E x, y \in Nat : Neighbours(Upto(j - 1), diffs[j], diffs[j + 1], From(j + 2), x, y)
    BY <1>2, <2>1, <2>2, <2>4, InARow
  <2>8. PICK x, y \in Nat : Neighbours(front, prev, This, tail, x, y)
    BY <2>3, <2>4, <2>7
  <2>9. front \in Seq(M)
    BY <2>8 DEF Neighbours
  <2>10. l = DownLen(This, Below) /\ less = UnlessEmpty(ShrunkFront(Below, l))
    OBVIOUS
  <2>11. Below \in Matching(old, new) /\ rest \in Seq(Matching(old, new))
    BY <2>6
  <2> HIDE DEF front, tail, rest, l, less, M, above
  <2>12. ds = Join(front, Join(<<GrownDown(prev, l)>>, Join(<<Down(This, l)>>, Join(less, rest))))
    OBVIOUS
  <2> HIDE DEF ds
  <2>13. MovedDown(ds, front, GrownDown(prev, l), Down(This, l), less, This)
    BY <1>1, <1>2, <2>5, <2>6, <2>8, <2>10, <2>11, <2>12, ShiftDownBetween
  <2> QED
    BY <1>3, <2>1, <2>6, <2>9, <2>12, <2>13 DEF MovedDown, M
<1>5. CASE ~HasEqual(pointer - 1)
  <2> DEFINE front == Upto(pointer - 1)
             left == LeftAbove(This, Below, l)
             ds == Join(front, Join(<<left>>, Join(<<moved>>, Join(less, rest))))
  <2>1. above = Append(front, left)
    BY <1>5 DEF GrownAbove, Below
  <2>2. \E x, y \in Nat : Neighbours(front, This, Below, rest, x, y)
    BY <1>1, DownPair
  <2>3. PICK x, y \in Nat : Neighbours(front, This, Below, rest, x, y)
    BY <2>2
  <2>4. front \in Seq(M) /\ rest \in Seq(M)
    BY <2>3 DEF Neighbours
  <2>5. l = DownLen(This, Below) /\ less = UnlessEmpty(ShrunkFront(Below, l))
    OBVIOUS
  <2> HIDE DEF front, rest, l, less, M, above
  <2>6. ds = Join(front, Join(<<LeftAbove(This, Below, l)>>, Join(<<Down(This, l)>>, Join(less, rest))))
    OBVIOUS
  <2> HIDE DEF ds
  <2>7. MovedDown(ds, front, left, Down(This, l), less, This)
    BY <1>1, <1>2, <2>3, <2>5, <2>6, ShiftDownNeighbours
  <2> QED
    BY <1>3, <2>1, <2>4, <2>6, <2>7 DEF MovedDown, M
<1> QED
  BY <1>4, <1>5


(* Only the pointer moves, or an edit is found to start with. *)
LEMMA ScanRight ==
  ASSUME CompactInv, Scan
  PROVE  ArmRight
<1>1. /\ CompactTypeOK /\ Good(diffs) /\ mode # "idle" /\ mode' # "idle"
      /\ diffs' = diffs /\ pass' = pass /\ UNCHANGED texts
  BY DEF CompactInv, Scan
<1>2. Good(diffs)'
  BY <1>1 DEF Good, Leads, texts, Matching
<1>3. CompactTypeOK'
  BY <1>1 DEF CompactTypeOK, Scan, Has, This
<1> QED
  BY <1>1, <1>2, <1>3 DEF ArmRight, CompactInv

(* The list stays, the next pass starts at its beginning. *)
LEMMA EndOfPassRight ==
  ASSUME CompactInv, EndOfPass
  PROVE  ArmRight
<1>1. /\ CompactTypeOK /\ Good(diffs) /\ mode # "idle" /\ mode' # "idle"
      /\ diffs' = diffs /\ UNCHANGED texts
  BY DEF CompactInv, EndOfPass
<1>2. Good(diffs)'
  BY <1>1 DEF Good, Leads, texts, Matching
<1>3. CompactTypeOK'
  BY <1>1 DEF CompactTypeOK, EndOfPass
<1> QED
  BY <1>1, <1>2, <1>3 DEF ArmRight, CompactInv

(* The edit goes no further up; it has stayed where the pointer is. *)
LEMMA StopUpRight ==
  ASSUME CompactInv, StopUp
  PROVE  ArmRight
<1>1. /\ CompactTypeOK /\ Good(diffs) /\ mode # "idle" /\ mode' # "idle"
      /\ diffs' = diffs /\ pass' = pass /\ pointer' = pointer /\ UNCHANGED texts
      /\ mode = "up" /\ mode' = "down"
  BY DEF CompactInv, StopUp
<1>2. Good(diffs)'
  BY <1>1 DEF Good, Leads, texts, Matching
<1>3. CompactTypeOK'
  BY <1>1 DEF CompactTypeOK, Has, This
<1> QED
  BY <1>1, <1>2, <1>3 DEF ArmRight, CompactInv

(* The edit goes no further down; the scan goes on behind it. *)
LEMMA StopDownRight ==
  ASSUME CompactInv, StopDown
  PROVE  ArmRight
<1>1. /\ CompactTypeOK /\ Good(diffs) /\ mode # "idle" /\ mode' = "scan"
      /\ diffs' = diffs /\ pass' = pass /\ pointer' = pointer + 1 /\ UNCHANGED texts
  BY DEF CompactInv, StopDown
<1>2. Good(diffs)'
  BY <1>1 DEF Good, Leads, texts, Matching
<1>3. CompactTypeOK'
  BY <1>1 DEF CompactTypeOK
<1> QED
  BY <1>1, <1>2, <1>3 DEF ArmRight, CompactInv

(* Every step of compact() keeps the invariant and the cost. *)
LEMMA CompactNextRight ==
  ASSUME CompactInv, CompactNext
  PROVE  ArmRight /\ UNCHANGED texts
<1>1. CASE Scan
  BY <1>1, ScanRight DEF Scan
<1>2. CASE EndOfPass
  BY <1>2, EndOfPassRight DEF EndOfPass
<1>3. CASE ShiftUpThroughEqual
  BY <1>3, ShiftUpThroughEqualRight DEF ShiftUpThroughEqual, GoingUp
<1>4. CASE DropEmptyAbove
  BY <1>4, DropEmptyAboveRight DEF DropEmptyAbove, GoingUp
<1>5. CASE SwapUp
  BY <1>5, SwapUpRight DEF SwapUp, GoingUp
<1>6. CASE MergeUp
  BY <1>6, MergeUpRight DEF MergeUp, GoingUp
<1>7. CASE StopUp
  BY <1>7, StopUpRight DEF StopUp
<1>8. CASE ShiftDownThroughEqual
  BY <1>8, ShiftDownThroughEqualRight DEF ShiftDownThroughEqual, GoingDown
<1>9. CASE DropEmptyBelow
  BY <1>9, DropEmptyBelowRight DEF DropEmptyBelow, GoingDown
<1>10. CASE SwapDown
  BY <1>10, SwapDownRight DEF SwapDown, GoingDown
<1>11. CASE MergeDown
  BY <1>11, MergeDownRight DEF MergeDown, GoingDown
<1>12. CASE StopDown
  BY <1>12, StopDownRight DEF StopDown
<1> QED
  BY <1>1, <1>2, <1>3, <1>4, <1>5, <1>6, <1>7, <1>8, <1>9, <1>10, <1>11, <1>12 DEF CompactNext

-----------------------------------------------------------------------------
(* diff_slice() *)

(* The invariants of its two halves. *)
DSInv == SearchInv /\ CompactInv

(* Both beginnings: a search, and an alignment that is compacted as given. *)
LEMMA InitDSInv == DSInit => DSInv
<1> SUFFICES ASSUME DSInit PROVE DSInv
  OBVIOUS
<1>1. SearchInv
  BY InitSearchInv DEF DSInit
<1>2. CASE mode = "idle" /\ diffs = <<>> /\ pass = "Delete" /\ pointer = 1
  BY <1>1, <1>2 DEF CompactInv, CompactTypeOK, DSInv
<1>3. CASE CompactInit
  <2>1. <<old, new>> \in Inputs
    <3>1. PICK pair \in Inputs : old = pair[1] /\ new = pair[2]
      BY DEF DSInit, Init
    <3>2. pair \in Seq(Symbol) \X Seq(Symbol)
      BY InputsAssumption
    <3> QED
      BY SMTT(60), <3>1, <3>2
  <2>2. diffs \in Seq(DiffRange) /\ Aligns(diffs, old, new)
    BY <1>3, <2>1, SolutionsAssumption DEF CompactInit
  <2>3. diffs \in Seq(Matching(old, new))
    BY <2>2, EquatesMatching DEF Aligns
  <2>4. Path(diffs, 0, 0, Len(old), Len(new))
    BY <2>2, PathCovers DEF Aligns
  <2>5. CompactTypeOK
    BY <1>3, <2>2 DEF CompactInit, CompactTypeOK
  <2> QED
    BY <1>1, <1>3, <2>3, <2>4, <2>5 DEF CompactInv, CompactInit, DSInv, Good, Leads
<1> QED
  BY <1>1, <1>2, <1>3 DEF DSInit, DSInv

(* The search keeps its own invariant; when it has ended, its result is an
   alignment for compact() to start with; and each arm of compact() is
   right. *)
LEMMA NextDSInv == DSInv /\ [DSNext]_dvars => DSInv'
<1> SUFFICES ASSUME DSInv, [DSNext]_dvars PROVE DSInv'
  OBVIOUS
<1>1. SearchInv /\ Inv /\ Tiled /\ CompactInv
  BY DEF DSInv, SearchInv
<1>2. ASSUME [Next]_vars PROVE SearchInv'
  BY <1>1, <1>2, NextSearchInv
<1>3. ASSUME mode = "idle", UNCHANGED compactVars PROVE CompactInv'
  BY <1>1, <1>3 DEF CompactInv, CompactTypeOK, compactVars
<1>4. CASE Search
  BY <1>2, <1>3, <1>4 DEF Search, DSInv
<1>5. CASE StartCompact
  <2>1. /\ phase = "done" /\ mode = "idle" /\ mode' = "scan" /\ diffs' = solution
        /\ UNCHANGED vars /\ pass' = pass /\ pointer' = pointer
    BY <1>5 DEF StartCompact
  <2>2. solution \in Seq(Matching(old, new)) /\ Path(solution, 0, 0, Len(old), Len(new))
    BY <1>1, <2>1, TiledAligns
  <2>3. Good(diffs)'
    BY <2>1, <2>2 DEF Good, Leads, vars, texts, Matching
  <2>4. solution \in Seq(DiffRange)
    BY <1>1 DEF Inv, TypeOK
  <2>5. CompactTypeOK'
    BY <1>1, <2>1, <2>4 DEF CompactTypeOK, CompactInv
  <2> QED
    BY <1>2, <2>1, <2>3, <2>5 DEF CompactInv, DSInv
<1>6. CASE CompactStep
  <2>1. ArmRight /\ UNCHANGED texts
    BY <1>1, <1>6, CompactNextRight DEF CompactStep
  <2>2. UNCHANGED vars
    BY <1>6, <2>1 DEF CompactStep, vars, texts
  <2> QED
    BY <1>2, <2>1, <2>2 DEF ArmRight, DSInv
<1>7. CASE UNCHANGED dvars
  <2>1. UNCHANGED vars /\ UNCHANGED compactVars /\ UNCHANGED texts
    BY <1>7 DEF dvars, vars, texts
  <2>2. CompactInv'
    BY <1>1, <2>1 DEF CompactInv, CompactTypeOK, compactVars, Good, Leads, Matching, texts, Has, This
  <2> QED
    BY <1>2, <2>1, <2>2 DEF DSInv
<1> QED
  BY <1>4, <1>5, <1>6, <1>7 DEF DSNext

(* The invariant holds always. *)
LEMMA DSInvHolds == DSSpec => []DSInv
BY InitDSInv, NextDSInv, PTL DEF DSSpec

(* What is kept of the list says that it aligns the texts. *)
LEMMA GoodAligns == CompactInv => StaysAligned
<1> SUFFICES ASSUME CompactInv, mode # "idle" PROVE Aligns(diffs, old, new)
  BY DEF StaysAligned
<1>1. diffs \in Seq(Matching(old, new)) /\ Path(diffs, 0, 0, Len(old), Len(new))
  BY DEF CompactInv, Good, Leads
<1>2. diffs \in Seq(DiffRange)
  BY DEF CompactInv, CompactTypeOK
<1>3. Contiguous(diffs, old, new) /\ Covers(diffs, old, new)
  BY <1>1, <1>2, PathCovers
<1>4. EquatesEqual(diffs, old, new)
  BY <1>1, MatchingEquates
<1> QED
  BY <1>3, <1>4 DEF Aligns

-----------------------------------------------------------------------------
(* No empty items *)

(* The length of an item, by its kind, and after a range operation. *)
LEMMA MadeLen ==
  ASSUME NEW diff \in DiffRange, NEW o, NEW n
  PROVE  LenOf(Made(diff, o, n)) = IF InOld(diff) THEN o.len ELSE n.len
BY DEF LenOf, Inner, Made, OnOld, OnNew, InOld, InNew, DiffRange

(* An item that only moves or grows is as empty as before, or less. *)
LEMMA MovedSolid ==
  ASSUME NEW diff \in DiffRange, ~IsEmpty(diff), NEW l \in Nat
  PROVE  /\ ~IsEmpty(Up(diff, l)) /\ ~IsEmpty(Down(diff, l))
         /\ ~IsEmpty(GrownUp(diff, l)) /\ ~IsEmpty(GrownDown(diff, l))
<1>1. LenOf(diff) \in Nat \ {0} /\ LenOf(diff) = IF InOld(diff) THEN diff.old.len ELSE diff.new.len
  BY ItemLens DEF IsEmpty, LenOf, Inner
<1>2. LenOf(Up(diff, l)) = LenOf(diff) /\ LenOf(Down(diff, l)) = LenOf(diff)
  <2>1. /\ ShiftUp(diff.old, l).len = diff.old.len /\ ShiftUp(diff.new, l).len = diff.new.len
        /\ ShiftDown(diff.old, l).len = diff.old.len /\ ShiftDown(diff.new, l).len = diff.new.len
    BY DEF ShiftUp, ShiftDown, MkRange
  <2> QED
    BY <1>1, <2>1, ForEachItem, MadeLen
<1>3. LenOf(GrownUp(diff, l)) = LenOf(diff) + l /\ LenOf(GrownDown(diff, l)) = LenOf(diff) + l
  <2>1. /\ GrowUp(diff.old, l).len = diff.old.len + l /\ GrowUp(diff.new, l).len = diff.new.len + l
        /\ GrowDown(diff.old, l).len = diff.old.len + l /\ GrowDown(diff.new, l).len = diff.new.len + l
    BY DEF GrowUp, GrowDown, MkRange
  <2> QED
    BY <1>1, <2>1, ForEachItem, MadeLen
<1> QED
  BY <1>1, <1>2, <1>3 DEF IsEmpty

(* Nor is what a shifted edit leaves behind empty. *)
LEMMA LeftSolid ==
  ASSUME NEW this \in DiffRange, NEW other \in DiffRange, NEW l \in Nat \ {0}
  PROVE  ~IsEmpty(LeftBelow(this, other, l)) /\ ~IsEmpty(LeftAbove(this, other, l))
<1>1. /\ this.old.len \in Nat /\ this.new.len \in Nat /\ other.old.len \in Nat /\ other.new.len \in Nat
  BY ItemLens
<1>2. /\ SliceBack(this.old, l).len = l /\ SliceBack(other.old, l).len = l
      /\ SliceTo(this.old, l).len = l /\ SliceTo(other.old, l).len = l
  BY <1>1 DEF SliceBack, SliceFrom, SliceTo, MkRange
<1>3. ASSUME NEW o, NEW n, o.len = l PROVE ~IsEmpty(Equal(o, n))
  BY <1>3 DEF IsEmpty, LenOf, Inner, InOld, Equal
<1> QED
  BY <1>2, <1>3 DEF LeftBelow, LeftAbove

(* Sequences over a set, one after the other. *)
LEMMA JoinedType ==
  ASSUME NEW T, NEW a \in Seq(T), NEW b \in Seq(T), NEW c \in Seq(T)
  PROVE  a \o b \in Seq(T) /\ a \o b \o c \in Seq(T)
OBVIOUS

(* compact() makes no empty item where there was none. *)
LEMMA CompactStaysSolid ==
  ASSUME CompactInv, Solid(diffs), CompactNext
  PROVE  Solid(diffs')
<1>1. CASE diffs' = diffs
  BY <1>1 DEF Solid
<1>2. CASE diffs' # diffs
  <2>1. \/ ShiftUpThroughEqual \/ DropEmptyAbove \/ SwapUp \/ MergeUp
        \/ ShiftDownThroughEqual \/ DropEmptyBelow \/ SwapDown \/ MergeDown
    BY <1>2 DEF CompactNext, Scan, EndOfPass, StopUp, StopDown
  <2>2. mode \in {"up", "down"}
    BY <2>1 DEF ShiftUpThroughEqual, DropEmptyAbove, SwapUp, MergeUp, GoingUp,
                ShiftDownThroughEqual, DropEmptyBelow, SwapDown, MergeDown, GoingDown
  <2>3. diffs \in Seq(DiffRange) /\ pointer \in 1..Len(diffs)
    BY <2>2 DEF CompactInv, CompactTypeOK, Has
  <2> DEFINE S == {diff \in DiffRange : ~IsEmpty(diff)}
  <2>4. diffs \in Seq(S) /\ \A diff \in S : diff \in DiffRange /\ ~IsEmpty(diff)
    <3>1. \A i \in 1..Len(diffs) : diffs[i] \in S
      BY <2>3 DEF Solid
    <3> QED
      BY <2>3, <3>1
  <2> HIDE DEF S
  <2>5. ASSUME NEW T, NEW ds \in Seq(T), \A diff \in T : ~IsEmpty(diff), diffs' = ds PROVE Solid(diffs')
    BY <2>5 DEF Solid
  <2>6. This \in S /\ (\A i : Has(i) => diffs[i] \in S)
    BY <2>3, <2>4 DEF This, Has
  <2>7. \A T : S \subseteq T => /\ \A i \in 0..Len(diffs) : Upto(i) \in Seq(T)
                               /\ \A i \in 1..Len(diffs) + 2 : From(i) \in Seq(T)
    <3> TAKE T
    <3> HAVE S \subseteq T
    <3>1. diffs \in Seq(T)
      BY <2>4, SeqWiden
    <3> QED
      BY <3>1 DEF Upto, From
  <2>8. ASSUME NEW diff \in DiffRange, NEW other \in DiffRange
        PROVE  UpLen(diff, other) \in Nat /\ DownLen(diff, other) \in Nat
    <3>1. diff.old \in Ranges /\ diff.new \in Ranges /\ other.old \in Ranges /\ other.new \in Ranges
      BY DEF DiffRange
    <3>2. ASSUME NEW s, NEW t, NEW r \in Ranges, NEW q \in Ranges
          PROVE  CommonSuffixLen(s, r, t, q) \in Nat /\ CommonPrefixLen(s, r, t, q) \in Nat
      <4>1. CommonSuffixLen(s, r, t, q) \in 0..r.len
        BY CommonSuffixFacts
      <4>2. CommonPrefixLen(s, r, t, q) \in 0..r.len
        BY CommonPrefixFacts
      <4> QED
        BY <4>1, <4>2
    <3> QED
      BY <3>1, <3>2 DEF UpLen, DownLen
  <2>9. CASE DropEmptyAbove \/ DropEmptyBelow
    <3>1. \/ diffs' = Upto(pointer - 2) \o From(pointer) /\ Has(pointer - 1)
          \/ diffs' = Upto(pointer) \o From(pointer + 2)
      BY <2>9 DEF DropEmptyAbove, DropEmptyBelow, GoingUp
    <3>2. /\ Has(pointer - 1) => Upto(pointer - 2) \in Seq(S)
          /\ From(pointer) \in Seq(S) /\ Upto(pointer) \in Seq(S) /\ From(pointer + 2) \in Seq(S)
      BY <2>3, <2>7 DEF Has
    <3>3. diffs' \in Seq(S)
      BY <3>1, <3>2, JoinedType
    <3> QED
      BY <2>4, <2>5, <3>3
  <2>10. CASE SwapUp \/ SwapDown
    <3>1. \/ diffs' = Upto(pointer - 2) \o <<This, Above>> \o From(pointer + 1) /\ Has(pointer - 1)
          \/ diffs' = Upto(pointer - 1) \o <<Below, This>> \o From(pointer + 2) /\ Has(pointer + 1)
      BY <2>10 DEF SwapUp, SwapDown, GoingUp, GoingDown
    <3>2. (Has(pointer - 1) => Above \in S) /\ (Has(pointer + 1) => Below \in S)
      BY <2>6 DEF Above, Below
    <3> HIDE DEF This, Above, Below
    <3>3. /\ Has(pointer - 1) => Upto(pointer - 2) \in Seq(S) /\ <<This, Above>> \in Seq(S)
          /\ Has(pointer + 1) => From(pointer + 2) \in Seq(S) /\ <<Below, This>> \in Seq(S)
          /\ From(pointer + 1) \in Seq(S) /\ Upto(pointer - 1) \in Seq(S)
      BY <2>3, <2>6, <2>7, <3>2 DEF Has
    <3>4. diffs' \in Seq(S)
      <4> DEFINE up == <<This, Above>>
                 down == <<Below, This>>
      <4>1. \/ /\ diffs' = Upto(pointer - 2) \o up \o From(pointer + 1)
               /\ Upto(pointer - 2) \in Seq(S) /\ up \in Seq(S) /\ From(pointer + 1) \in Seq(S)
            \/ /\ diffs' = Upto(pointer - 1) \o down \o From(pointer + 2)
               /\ Upto(pointer - 1) \in Seq(S) /\ down \in Seq(S) /\ From(pointer + 2) \in Seq(S)
        BY <3>1, <3>3
      <4> HIDE DEF up, down
      <4> QED
        BY <4>1, JoinedType
    <3> QED
      BY <2>4, <2>5, <3>4
  <2>11. CASE MergeUp
    <3> DEFINE grown == GrownDown(Above, LenOf(This))
               T == S \cup {grown}
    <3>1. diffs' = Upto(pointer - 2) \o <<grown>> \o From(pointer + 1) /\ Has(pointer - 1)
      BY <2>11 DEF MergeUp, GoingUp
    <3>2. Above \in S /\ LenOf(This) \in Nat
      BY <2>4, <2>6, <3>1, ItemLens DEF Above, LenOf, Inner
    <3>3. ~IsEmpty(grown)
      BY <2>4, <3>2, MovedSolid
    <3> HIDE DEF grown
    <3>4. S \subseteq T /\ grown \in T /\ \A diff \in T : ~IsEmpty(diff)
      BY <2>4, <3>3
    <3> HIDE DEF T
    <3>5. <<grown>> \in Seq(T)
      BY <3>4
    <3>6. Upto(pointer - 2) \in Seq(T) /\ From(pointer + 1) \in Seq(T)
      <4>1. pointer - 2 \in 0..Len(diffs) /\ pointer + 1 \in 1..Len(diffs) + 2
        BY <2>3, <3>1 DEF Has
      <4>2. /\ \A i \in 0..Len(diffs) : Upto(i) \in Seq(T)
            /\ \A i \in 1..Len(diffs) + 2 : From(i) \in Seq(T)
        BY <2>7, <3>4
      <4> QED
        BY <4>1, <4>2
    <3>7. diffs' \in Seq(T)
      BY <3>1, <3>5, <3>6, JoinedType
    <3> QED
      BY <2>5, <3>4, <3>7
  <2>12. CASE MergeDown
    <3> DEFINE grown == GrownDown(This, LenOf(Below))
               T == S \cup {grown}
    <3>1. diffs' = Upto(pointer - 1) \o <<grown>> \o From(pointer + 2) /\ Has(pointer + 1)
      BY <2>12 DEF MergeDown, GoingDown
    <3>2. Below \in S /\ LenOf(Below) \in Nat
      BY <2>4, <2>6, <3>1, ItemLens DEF Below, LenOf, Inner
    <3>3. ~IsEmpty(grown)
      BY <2>4, <2>6, <3>2, MovedSolid
    <3> HIDE DEF grown
    <3>4. S \subseteq T /\ grown \in T /\ \A diff \in T : ~IsEmpty(diff)
      BY <2>4, <3>3
    <3> HIDE DEF T
    <3>5. <<grown>> \in Seq(T)
      BY <3>4
    <3>6. Upto(pointer - 1) \in Seq(T) /\ From(pointer + 2) \in Seq(T)
      <4>1. pointer - 1 \in 0..Len(diffs) /\ pointer + 2 \in 1..Len(diffs) + 2
        BY <2>3, <3>1 DEF Has
      <4>2. /\ \A i \in 0..Len(diffs) : Upto(i) \in Seq(T)
            /\ \A i \in 1..Len(diffs) + 2 : From(i) \in Seq(T)
        BY <2>7, <3>4
      <4> QED
        BY <4>1, <4>2
    <3>7. diffs' \in Seq(T)
      BY <3>1, <3>5, <3>6, JoinedType
    <3> QED
      BY <2>5, <3>4, <3>7
  <2>13. CASE ShiftUpThroughEqual
    <3> DEFINE l == UpLen(This, Above)
               shrunk == ShrunkBack(Above, l)
               moved == Up(This, l)
               next == diffs[pointer + 1]
               T == {diff \in S \cup {shrunk, moved, GrownUp(next, l), LeftBelow(This, Above, l)} : ~IsEmpty(diff)}
    <3>1. /\ diffs' = Upto(pointer - 2) \o UnlessEmpty(shrunk) \o <<moved>> \o GrownBelow(l)
          /\ Has(pointer - 1) /\ l # 0
      BY <2>13 DEF ShiftUpThroughEqual, GoingUp
    <3>2. Above \in S /\ l \in Nat \ {0}
      BY <2>4, <2>6, <2>8, <3>1 DEF Above
    <3>3. ~IsEmpty(moved) /\ ~IsEmpty(LeftBelow(This, Above, l))
      BY <2>4, <2>6, <3>2, MovedSolid, LeftSolid
    <3>4. Has(pointer + 1) => ~IsEmpty(GrownUp(next, l))
      BY <2>4, <2>6, <3>2, MovedSolid
    <3>5. /\ S \subseteq T /\ moved \in T /\ LeftBelow(This, Above, l) \in T
          /\ Has(pointer + 1) => GrownUp(next, l) \in T
          /\ ~IsEmpty(shrunk) => shrunk \in T
          /\ \A diff \in T : ~IsEmpty(diff)
      BY <2>4, <3>3, <3>4
    <3> HIDE DEF T, l, shrunk, moved, next
    <3>6. UnlessEmpty(shrunk) \in Seq(T) /\ <<moved>> \in Seq(T)
      BY <3>5 DEF UnlessEmpty
    <3>7. GrownBelow(l) \in Seq(T)
      <4>1. CASE HasEqual(pointer + 1)
        <5> DEFINE grown == GrownUp(next, l)
        <5>1. Has(pointer + 1) /\ grown \in T /\ From(pointer + 2) \in Seq(T)
          BY <2>3, <2>7, <3>5, <4>1 DEF HasEqual, Has
        <5>2. GrownBelow(l) = <<grown>> \o From(pointer + 2)
          BY <4>1 DEF GrownBelow, next
        <5> HIDE DEF grown
        <5> QED
          BY <5>1, <5>2
      <4>2. CASE ~HasEqual(pointer + 1)
        <5> DEFINE left == LeftBelow(This, Above, l)
        <5>1. left \in T /\ From(pointer + 1) \in Seq(T)
          BY <2>3, <2>7, <3>5
        <5>2. GrownBelow(l) = <<left>> \o From(pointer + 1)
          BY <4>2 DEF GrownBelow, Above
        <5> HIDE DEF left
        <5> QED
          BY <5>1, <5>2
      <4> QED
        BY <4>1, <4>2
    <3>8. Upto(pointer - 2) \in Seq(T)
      BY SMTT(60), <2>3, <2>7, <3>1, <3>5 DEF Has
    <3>9. diffs' \in Seq(T)
      <4> DEFINE a == Upto(pointer - 2)
                 b == UnlessEmpty(shrunk)
                 c == <<moved>>
                 e == GrownBelow(l)
      <4>1. a \in Seq(T) /\ b \in Seq(T) /\ c \in Seq(T) /\ e \in Seq(T) /\ diffs' = a \o b \o c \o e
        BY <3>1, <3>6, <3>7, <3>8
      <4> HIDE DEF a, b, c, e
      <4> QED
        BY <4>1
    <3> QED
      BY <2>5, <3>5, <3>9
  <2>14. CASE ShiftDownThroughEqual
    <3> DEFINE l == DownLen(This, Below)
               shrunk == ShrunkFront(Below, l)
               moved == Down(This, l)
               prev == diffs[pointer - 1]
               T == {diff \in S \cup {shrunk, moved, GrownDown(prev, l), LeftAbove(This, Below, l)} : ~IsEmpty(diff)}
    <3>1. /\ diffs' = GrownAbove(l) \o <<moved>> \o UnlessEmpty(shrunk) \o From(pointer + 2)
          /\ Has(pointer + 1) /\ l # 0
      BY <2>14 DEF ShiftDownThroughEqual, GoingDown
    <3>2. Below \in S /\ l \in Nat \ {0}
      BY <2>4, <2>6, <2>8, <3>1 DEF Below
    <3>3. ~IsEmpty(moved) /\ ~IsEmpty(LeftAbove(This, Below, l))
      BY <2>4, <2>6, <3>2, MovedSolid, LeftSolid
    <3>4. Has(pointer - 1) => ~IsEmpty(GrownDown(prev, l))
      BY <2>4, <2>6, <3>2, MovedSolid
    <3>5. /\ S \subseteq T /\ moved \in T /\ LeftAbove(This, Below, l) \in T
          /\ Has(pointer - 1) => GrownDown(prev, l) \in T
          /\ ~IsEmpty(shrunk) => shrunk \in T
          /\ \A diff \in T : ~IsEmpty(diff)
      BY <2>4, <3>3, <3>4
    <3> HIDE DEF T, l, shrunk, moved, prev
    <3>6. UnlessEmpty(shrunk) \in Seq(T) /\ <<moved>> \in Seq(T)
      BY <3>5 DEF UnlessEmpty
    <3>7. GrownAbove(l) \in Seq(T)
      <4>1. CASE HasEqual(pointer - 1)
        <5> DEFINE grown == GrownDown(prev, l)
        <5>1. Has(pointer - 1) /\ grown \in T /\ Upto(pointer - 2) \in Seq(T)
          BY <2>3, <2>7, <3>5, <4>1 DEF HasEqual, Has
        <5>2. GrownAbove(l) = Append(Upto(pointer - 2), grown)
          BY <4>1 DEF GrownAbove, prev
        <5> HIDE DEF grown
        <5> QED
          BY <5>1, <5>2
      <4>2. CASE ~HasEqual(pointer - 1)
        <5> DEFINE left == LeftAbove(This, Below, l)
        <5>1. left \in T /\ Upto(pointer - 1) \in Seq(T)
          BY <2>3, <2>7, <3>5
        <5>2. GrownAbove(l) = Append(Upto(pointer - 1), left)
          BY <4>2 DEF GrownAbove, Below
        <5> HIDE DEF left
        <5> QED
          BY <5>1, <5>2
      <4> QED
        BY <4>1, <4>2
    <3>8. From(pointer + 2) \in Seq(T)
      BY <2>3, <2>7, <3>1, <3>5 DEF Has
    <3>9. diffs' \in Seq(T)
      <4> DEFINE a == GrownAbove(l)
                 b == <<moved>>
                 c == UnlessEmpty(shrunk)
                 e == From(pointer + 2)
      <4>1. a \in Seq(T) /\ b \in Seq(T) /\ c \in Seq(T) /\ e \in Seq(T) /\ diffs' = a \o b \o c \o e
        BY <3>1, <3>6, <3>7, <3>8
      <4> HIDE DEF a, b, c, e
      <4> QED
        BY <4>1
    <3> QED
      BY <2>5, <3>5, <3>9
  <2> QED
    BY <2>1, <2>9, <2>10, <2>11, <2>12, <2>13, <2>14
<1> QED
  BY <1>1, <1>2

(***************************************************************************)
(* When diff_slice compacts what diff() returned, no item is empty and the *)
(* list costs no more than the texts are apart.                            *)
(***************************************************************************)
ShortAndSolid ==
  mode # "idle" /\ ~given => Solid(diffs) /\ Cost(diffs) = EditDistance(old, new)

(* That stays so: a shift costs nothing and what it has used up is dropped. *)
LEMMA NextShortAndSolid == DSInv /\ ShortAndSolid /\ [DSNext]_dvars => ShortAndSolid'
<1> SUFFICES ASSUME DSInv, ShortAndSolid, [DSNext]_dvars, (mode # "idle" /\ ~given)'
             PROVE  Solid(diffs') /\ Cost(diffs') = EditDistance(old, new) /\ UNCHANGED texts
  BY DEF ShortAndSolid, Solid, texts
<1>1. SearchInv /\ CompactInv /\ Inv
  BY DEF DSInv, SearchInv
<1>2. CASE Search
  <2>1. mode # "idle"
    BY <1>2 DEF Search, compactVars
  <2> QED
    BY <1>2, <2>1 DEF Search
<1>3. CASE StartCompact
  <2>1. diffs' = solution /\ phase = "done" /\ UNCHANGED texts
    BY <1>3 DEF StartCompact, vars, texts
  <2>2. Solid(solution) /\ Cost(solution) = EditDistance(old, new)
    BY <1>1, <2>1, DoneIsShortest DEF SearchInv, SearchSolid
  <2> QED
    BY <2>1, <2>2
<1>4. CASE CompactStep
  <2>1. mode # "idle" /\ CompactNext /\ given' = given
    BY <1>4 DEF CompactStep
  <2>2. Solid(diffs) /\ Cost(diffs) = EditDistance(old, new)
    BY <2>1 DEF ShortAndSolid
  <2>3. Solid(diffs')
    BY <1>1, <2>1, <2>2, CompactStaysSolid
  <2>4. Cost(diffs') = Cost(diffs) /\ UNCHANGED texts
    BY <1>1, <2>1, CompactNextRight DEF ArmRight
  <2> QED
    BY <2>2, <2>3, <2>4
<1>5. CASE UNCHANGED dvars
  <2>1. UNCHANGED <<texts, diffs, mode, given>>
    BY <1>5 DEF dvars, vars, compactVars, texts
  <2> QED
    BY <2>1 DEF ShortAndSolid, Solid
<1> QED
  BY <1>2, <1>3, <1>4, <1>5 DEF DSNext

-----------------------------------------------------------------------------
(* Nothing can be shifted any further *)

(***************************************************************************)
(* The edit at i has been shifted down as far as it goes: below it there   *)
(* is nothing, or equal text that it cannot move into.                     *)
(***************************************************************************)
Stands(this, next) == next.kind = "Equal" /\ ~IsEmpty(next) /\ DownLen(this, next) = 0
Stood(ds, kind, n) ==
  \A i \in DOMAIN ds : i <= n /\ ds[i].kind = kind /\ i + 1 \in DOMAIN ds => Stands(ds[i], ds[i + 1])

(***************************************************************************)
(* What the pass over the Deletes leaves for the pass over the Inserts,    *)
(* which never breaks it: no Delete ends where another one begins, and     *)
(* none could move down a line if there were nothing in its way.           *)
(***************************************************************************)
DeletesApart(ds) ==
  \A i, j \in DOMAIN ds : i # j /\ ds[i].kind = "Delete" /\ ds[j].kind = "Delete"
                            => RangeEnd(ds[i].old) # ds[j].old.offset
Firm(diff) ==
  diff.old.len # 0 /\ RangeEnd(diff.old) < Len(old)
    => old[diff.old.offset + 1] # old[RangeEnd(diff.old) + 1]
FirmDeletes(ds) == DeletesApart(ds) /\ \A i \in DOMAIN ds : ds[i].kind = "Delete" => Firm(ds[i])

SettledInv ==
  /\ mode \in {"scan", "down"} => Stood(diffs, pass, pointer - 1)
  /\ mode = "up" => Stood(diffs, pass, pointer - 2)
  /\ mode = "done" => pass = "Insert" /\ Stood(diffs, pass, Len(diffs))
  /\ mode # "idle" /\ pass = "Insert" => FirmDeletes(diffs)

(***************************************************************************)
(* The list es is ds with mid in place of what is between the first lo     *)
(* items and the ones from hi on.                                          *)
(***************************************************************************)
Spliced(es, ds, lo, mid, hi) ==
  /\ Len(es) = ((lo + Len(mid)) + Len(ds) + 1) - hi
  /\ \A i \in 1..lo : es[i] = ds[i]
  /\ \A i \in 1..Len(mid) : es[lo + i] = mid[i]
  /\ \A i \in 1..Len(ds) + 1 - hi : es[(lo + Len(mid)) + i] = ds[(hi - 1) + i]

(* The elements of three lists in a row. *)
InThree(es, a, b, c) ==
  /\ Len(es) = (Len(a) + Len(b)) + Len(c)
  /\ \A i \in 1..Len(a) : es[i] = a[i]
  /\ \A i \in 1..Len(b) : es[Len(a) + i] = b[i]
  /\ \A i \in 1..Len(c) : es[(Len(a) + Len(b)) + i] = c[i]

(* That is what their concatenation has. *)
LEMMA ThreeElements ==
  ASSUME NEW T, NEW a \in Seq(T), NEW b \in Seq(T), NEW c \in Seq(T), NEW es, es = Join(Join(a, b), c)
  PROVE  es \in Seq(T) /\ InThree(es, a, b, c)
<1>1. ASSUME NEW s \in Seq(T), NEW t \in Seq(T)
      PROVE  /\ Join(s, t) \in Seq(T) /\ Len(Join(s, t)) = Len(s) + Len(t)
             /\ \A i \in 1..Len(s) : Join(s, t)[i] = s[i]
             /\ \A i \in 1..Len(t) : Join(s, t)[Len(s) + i] = t[i]
  BY DEF Join
<1>2. Len(a) \in Nat /\ Len(b) \in Nat /\ Len(c) \in Nat
  OBVIOUS
<1> DEFINE ab == Join(a, b)
<1>3. /\ ab \in Seq(T) /\ Len(ab) = Len(a) + Len(b)
      /\ \A i \in 1..Len(a) : ab[i] = a[i]
      /\ \A i \in 1..Len(b) : ab[Len(a) + i] = b[i]
  BY <1>1
<1> HIDE DEF ab
<1>4. /\ Join(ab, c) \in Seq(T) /\ Len(Join(ab, c)) = Len(ab) + Len(c)
      /\ \A i \in 1..Len(ab) : Join(ab, c)[i] = ab[i]
      /\ \A i \in 1..Len(c) : Join(ab, c)[Len(ab) + i] = c[i]
  BY <1>1, <1>3
<1>5. es = Join(ab, c)
  BY DEF ab
<1>6. \A i \in 1..Len(a) : es[i] = a[i]
  BY <1>2, <1>3, <1>4, <1>5
<1>7. \A i \in 1..Len(b) : es[Len(a) + i] = b[i]
  <2>1. \A i \in 1..Len(b) : Len(a) + i \in 1..Len(ab)
    BY <1>2, <1>3
  <2> QED
    BY <1>3, <1>4, <1>5, <2>1
<1> QED
  BY <1>3, <1>4, <1>5, <1>6, <1>7 DEF InThree

(* What an arm makes of the list. *)
LEMMA Splice ==
  ASSUME NEW T, diffs \in Seq(T), NEW mid \in Seq(T), NEW lo \in 0..Len(diffs),
         NEW hi \in 1..Len(diffs) + 1, lo < hi, NEW es, es = Join(Join(Upto(lo), mid), From(hi))
  PROVE  es \in Seq(T) /\ Spliced(es, diffs, lo, mid, hi)
<1> DEFINE a == Upto(lo)
           c == From(hi)
<1>1. /\ a \in Seq(T) /\ Len(a) = lo /\ \A i \in 1..lo : a[i] = diffs[i]
  BY DEF Upto
<1>2. c \in Seq(T) /\ Len(c) = Len(diffs) + 1 - hi
  BY DEF From
<1>3. \A i \in 1..Len(diffs) + 1 - hi : c[i] = diffs[(hi - 1) + i]
  <2>1. \A i \in 1..Len(diffs) + 1 - hi : c[i] = diffs[hi + i - 1] /\ hi + i - 1 = (hi - 1) + i
    BY DEF From
  <2> QED
    BY <2>1
<1>4. Len(mid) \in Nat /\ Len(diffs) \in Nat /\ lo \in Nat /\ hi \in Nat
  OBVIOUS
<1> HIDE DEF a, c
<1>5. a \in Seq(T) /\ c \in Seq(T) /\ es = Join(Join(a, mid), c)
  BY <1>1, <1>2 DEF a, c
<1>6. es \in Seq(T) /\ InThree(es, a, mid, c)
  BY <1>5, ThreeElements
<1>7. /\ Len(es) = (Len(a) + Len(mid)) + Len(c)
      /\ \A i \in 1..Len(a) : es[i] = a[i]
      /\ \A i \in 1..Len(mid) : es[Len(a) + i] = mid[i]
      /\ \A i \in 1..Len(c) : es[(Len(a) + Len(mid)) + i] = c[i]
  BY <1>6 DEF InThree
<1>8. Len(es) = ((lo + Len(mid)) + Len(diffs) + 1) - hi
  BY <1>1, <1>2, <1>4, <1>7
<1>9. /\ \A i \in 1..lo : es[i] = diffs[i]
      /\ \A i \in 1..Len(mid) : es[lo + i] = mid[i]
      /\ \A i \in 1..Len(diffs) + 1 - hi : es[(lo + Len(mid)) + i] = diffs[(hi - 1) + i]
  BY <1>1, <1>2, <1>3, <1>7
<1> QED
  BY <1>6, <1>8, <1>9 DEF Spliced

(* No Delete is in the list but this one. *)
OnlyDelete(mid, diff) ==
  /\ \A i \in 1..Len(mid) : mid[i].kind = "Delete" => mid[i] = diff
  /\ \A i, j \in 1..Len(mid) : mid[i].kind = "Delete" /\ mid[j].kind = "Delete" => i = j

(* If the only Delete in the new middle was in the old one, nothing can    *)
(* have moved a Delete next to another or made one shorter.                *)
LEMMA SpliceFirm ==
  ASSUME NEW T, NEW ds \in Seq(T), NEW es \in Seq(T), NEW mid \in Seq(T),
         NEW lo \in Nat, NEW hi \in 1..Len(ds) + 1, Spliced(es, ds, lo, mid, hi), FirmDeletes(ds),
         NEW q \in lo + 1..hi - 1, OnlyDelete(mid, ds[q])
  PROVE  FirmDeletes(es)
<1> DEFINE m == Len(mid)
           g(i) == IF i <= lo THEN i ELSE IF i <= lo + m THEN q ELSE (i - (lo + m)) + (hi - 1)
<1>1. /\ m \in Nat /\ Len(ds) \in Nat /\ hi \in Nat /\ q \in Nat /\ hi <= Len(ds) + 1 /\ lo < q /\ q < hi
      /\ DOMAIN ds = 1..Len(ds) /\ DOMAIN es = 1..Len(es)
  OBVIOUS
<1>2. Len(es) = ((lo + m) + Len(ds) + 1) - hi
  BY DEF Spliced
<1>3. ASSUME NEW i \in 1..Len(es), es[i].kind = "Delete"
      PROVE  g(i) \in 1..Len(ds) /\ es[i] = ds[g(i)]
  <2>1. CASE i <= lo
    <3>1. i \in 1..lo /\ g(i) = i
      BY <2>1
    <3>2. es[i] = ds[i]
      BY <3>1 DEF Spliced
    <3> QED
      BY <1>1, <3>1, <3>2
  <2>2. CASE lo < i /\ i <= lo + m
    <3>1. i - lo \in 1..m /\ lo + (i - lo) = i /\ g(i) = q
      BY <1>1, <2>2
    <3>2. es[lo + (i - lo)] = mid[i - lo]
      BY <3>1 DEF Spliced
    <3>3. mid[i - lo] = ds[q]
      BY <1>3, <3>1, <3>2 DEF OnlyDelete
    <3> QED
      BY <1>1, <3>1, <3>2, <3>3
  <2>3. CASE lo + m < i
    <3>1. /\ i - (lo + m) \in 1..Len(ds) + 1 - hi /\ (lo + m) + (i - (lo + m)) = i
          /\ g(i) = (hi - 1) + (i - (lo + m))
      BY <1>1, <1>2, <2>3
    <3>2. es[(lo + m) + (i - (lo + m))] = ds[(hi - 1) + (i - (lo + m))]
      BY <3>1 DEF Spliced
    <3>3. g(i) \in 1..Len(ds)
      BY <1>1, <1>2, <3>1
    <3> QED
      BY <3>1, <3>2, <3>3
  <2> QED
    BY <1>1, <2>1, <2>2, <2>3
<1>4. ASSUME NEW i \in 1..Len(es), NEW j \in 1..Len(es), i # j,
             es[i].kind = "Delete", es[j].kind = "Delete"
      PROVE  g(i) # g(j)
  <2>1. ASSUME NEW n \in 1..Len(es), lo < n, n <= lo + m
        PROVE  n - lo \in 1..m /\ es[n] = mid[n - lo]
    <3>1. n - lo \in 1..m /\ lo + (n - lo) = n
      BY <1>1, <2>1
    <3>2. es[lo + (n - lo)] = mid[n - lo]
      BY <3>1 DEF Spliced
    <3> QED
      BY <3>1, <3>2
  <2>2. CASE (lo < i /\ i <= lo + m) /\ (lo < j /\ j <= lo + m)
    <3>1. /\ i - lo \in 1..m /\ mid[i - lo].kind = "Delete"
          /\ j - lo \in 1..m /\ mid[j - lo].kind = "Delete"
      BY <1>4, <2>1, <2>2
    <3>2. i - lo = j - lo
      BY <3>1 DEF OnlyDelete
    <3> QED
      BY <1>4, <3>2
  <2>3. CASE ~((lo < i /\ i <= lo + m) /\ (lo < j /\ j <= lo + m))
    BY <1>1, <1>4, <2>3
  <2> QED
    BY <2>2, <2>3
<1> HIDE DEF g, m
<1>5. ASSUME NEW i \in 1..Len(es), es[i].kind = "Delete" PROVE Firm(es[i])
  BY <1>1, <1>3, <1>5 DEF FirmDeletes
<1>6. ASSUME NEW i \in 1..Len(es), NEW j \in 1..Len(es), i # j,
             es[i].kind = "Delete", es[j].kind = "Delete"
      PROVE  RangeEnd(es[i].old) # es[j].old.offset
  <2>1. /\ g(i) \in DOMAIN ds /\ es[i] = ds[g(i)] /\ g(j) \in DOMAIN ds /\ es[j] = ds[g(j)] /\ g(i) # g(j)
    BY <1>1, <1>3, <1>4, <1>6
  <2>2. ds[g(i)].kind = "Delete" /\ ds[g(j)].kind = "Delete"
    BY <1>6, <2>1
  <2>3. DeletesApart(ds)
    BY DEF FirmDeletes
  <2>4. RangeEnd(ds[g(i)].old) # ds[g(j)].old.offset
    BY <2>1, <2>2, <2>3 DEF DeletesApart
  <2> QED
    BY <2>1, <2>4
<1> QED
  BY <1>1, <1>5, <1>6 DEF FirmDeletes, DeletesApart
(* What two numbers of items take of the old text. *)
LEMMA OldUpToGrows ==
  ASSUME NEW ds \in Seq(DiffRange), NEW m \in 0..Len(ds), NEW n \in 0..Len(ds), m <= n
  PROVE  OldUpTo(ds, m) <= OldUpTo(ds, n)
<1> DEFINE S == {l \in Nat : m + l <= Len(ds) => OldUpTo(ds, m) <= OldUpTo(ds, m + l)}
<1>1. m \in Nat /\ n \in Nat /\ Len(ds) \in Nat /\ OldUpTo(ds, m) \in Nat /\ n <= Len(ds)
  BY UpToType
<1>2. 0 \in S
  BY <1>1
<1>3. ASSUME NEW l \in Nat, l \in S PROVE l + 1 \in S
  <2> SUFFICES ASSUME m + (l + 1) <= Len(ds) PROVE OldUpTo(ds, m) <= OldUpTo(ds, m + (l + 1))
    OBVIOUS
  <2>1. m + (l + 1) \in 1..Len(ds) /\ (m + (l + 1)) - 1 = m + l /\ m + l \in 0..Len(ds)
    BY <1>1
  <2>2. OldUpTo(ds, m + (l + 1)) = OldUpTo(ds, m + l) + OldLen(ds[m + (l + 1)])
    BY <2>1, UpToNext
  <2>3. OldUpTo(ds, m + l) \in Nat /\ OldLen(ds[m + (l + 1)]) \in Nat
    BY SMTT(60), <2>1, UpToType, ItemLens
  <2>4. OldUpTo(ds, m) <= OldUpTo(ds, m + l)
    BY <1>1, <1>3, <2>1
  <2> QED
    BY <1>1, <2>2, <2>3, <2>4
<1> HIDE DEF S
<1>4. n - m \in Nat /\ m + (n - m) = n
  BY <1>1
<1>5. n - m \in S
  BY <1>2, <1>3, <1>4, NatSetInduction
<1> QED
  BY <1>1, <1>4, <1>5 DEF S
(***************************************************************************)
(* What keeps a Delete or an Insert from moving down into an Equal.        *)
(***************************************************************************)
Blocked(this, next) ==
  IF this.kind = "Insert" THEN new[this.new.offset + 1] # old[next.old.offset + 1]
                          ELSE old[this.old.offset + 1] # new[next.new.offset + 1]

(* Nothing is common if a range is empty or the first elements differ. *)
LEMMA CommonPrefixNone ==
  ASSUME NEW s, NEW t, NEW r \in Ranges, NEW q \in Ranges, NEW l, l = CommonPrefixLen(s, r, t, q)
  PROVE  l = 0 <=> r.len = 0 \/ q.len = 0 \/ s[r.offset + 1] # t[q.offset + 1]
<1> DEFINE most == Min2(r.len, q.len)
<1>1. l \in 0..most
  BY CommonPrefixLenProperty
<1>2. \A i \in 1..l : s[r.offset + i] = t[q.offset + i]
  BY CommonPrefixLenProperty
<1>3. l < most => s[r.offset + l + 1] # t[q.offset + l + 1]
  BY CommonPrefixLenProperty
<1>4. /\ r.len \in Nat /\ q.len \in Nat /\ r.offset \in Nat /\ q.offset \in Nat
      /\ most \in Nat /\ (most = 0 <=> r.len = 0 \/ q.len = 0)
  BY DEF Ranges, Min2
<1> HIDE DEF most
<1>5. CASE most = 0
  BY <1>1, <1>4, <1>5
<1>6. CASE most # 0 /\ l = 0
  <2>1. r.offset + l + 1 = r.offset + 1 /\ q.offset + l + 1 = q.offset + 1 /\ l < most
    BY <1>4, <1>6
  <2> QED
    BY <1>3, <1>6, <2>1
<1>7. CASE most # 0 /\ l # 0
  <2>1. 1 \in 1..l
    BY <1>1, <1>7
  <2> QED
    BY <1>2, <1>4, <1>7, <2>1
<1> QED
  BY <1>5, <1>6, <1>7

(* It cannot if one of them is empty or their first elements differ. *)
LEMMA DownLenZero ==
  ASSUME NEW this \in DiffRange, NEW next \in Matching(old, new), IsEdit(this), next.kind = "Equal"
  PROVE  DownLen(this, next) = 0 <=> LenOf(this) = 0 \/ LenOf(next) = 0 \/ Blocked(this, next)
<1>1. next \in DiffRange /\ next.new.len = next.old.len
  BY DEF Matching, IsEdit
<1>2. LenOf(next) = next.old.len /\ this.kind \in {"Insert", "Delete"}
  BY <1>1, ItemLens DEF IsEdit, DiffRange
<1>3. CASE this.kind = "Insert"
  <2>1. this.new \in Ranges /\ next.old \in Ranges /\ LenOf(this) = this.new.len
    BY <1>1, <1>3, ItemLens
  <2>2. CommonPrefixLen(new, this.new, old, next.old) = 0
          <=> this.new.len = 0 \/ next.old.len = 0
                \/ new[this.new.offset + 1] # old[next.old.offset + 1]
    <3> DEFINE r == this.new
               q == next.old
               l == CommonPrefixLen(new, r, old, q)
    <3>1. r \in Ranges /\ q \in Ranges /\ l = CommonPrefixLen(new, r, old, q)
      BY <2>1
    <3> HIDE DEF l, r, q
    <3>2. l = 0 <=> r.len = 0 \/ q.len = 0 \/ new[r.offset + 1] # old[q.offset + 1]
      BY <3>1, CommonPrefixNone
    <3> QED
      BY <3>2 DEF l, r, q
  <2> QED
    BY <1>2, <1>3, <2>1, <2>2 DEF DownLen, Blocked
<1>4. CASE this.kind = "Delete"
  <2>1. this.old \in Ranges /\ next.new \in Ranges /\ LenOf(this) = this.old.len
    BY <1>1, <1>4, ItemLens
  <2>2. CommonPrefixLen(old, this.old, new, next.new) = 0
          <=> this.old.len = 0 \/ next.new.len = 0
                \/ old[this.old.offset + 1] # new[next.new.offset + 1]
    <3> DEFINE r == this.old
               q == next.new
               l == CommonPrefixLen(old, r, new, q)
    <3>1. r \in Ranges /\ q \in Ranges /\ l = CommonPrefixLen(old, r, new, q)
      BY <2>1
    <3> HIDE DEF l, r, q
    <3>2. l = 0 <=> r.len = 0 \/ q.len = 0 \/ old[r.offset + 1] # new[q.offset + 1]
      BY <3>1, CommonPrefixNone
    <3> QED
      BY <3>2 DEF l, r, q
  <2> QED
    BY <1>1, <1>2, <1>4, <2>1, <2>2 DEF DownLen, Blocked
<1> QED
  BY <1>2, <1>3, <1>4

(* An edit that cannot move into an Equal cannot if its end changes. *)
LEMMA StandsStill ==
  ASSUME NEW this \in DiffRange, IsEdit(this),
         NEW next \in Matching(old, new), NEW other \in Matching(old, new), Stands(this, next),
         other.kind = "Equal", ~IsEmpty(other),
         other.old.offset = next.old.offset, other.new.offset = next.new.offset
  PROVE  Stands(this, other)
<1>1. Blocked(this, next) <=> Blocked(this, other)
  BY DEF Blocked
<1>2. DownLen(this, next) = 0 <=> LenOf(this) = 0 \/ LenOf(next) = 0 \/ Blocked(this, next)
  BY DownLenZero DEF Stands
<1>3. DownLen(this, other) = 0 <=> LenOf(this) = 0 \/ LenOf(other) = 0 \/ Blocked(this, other)
  BY DownLenZero
<1> QED
  BY <1>1, <1>2, <1>3 DEF Stands, IsEmpty

(***************************************************************************)
(* What the pass over the Deletes comes to.                                *)
(***************************************************************************)
LEMMA StoodIsFirm ==
  ASSUME NEW ds, Good(ds), Stood(ds, "Delete", Len(ds))
  PROVE  FirmDeletes(ds)
<1>1. /\ ds \in Seq(Matching(old, new)) /\ ds \in Seq(DiffRange) /\ Len(ds) \in Nat /\ DOMAIN ds = 1..Len(ds)
      /\ \A i \in 1..Len(ds) : ds[i] \in Matching(old, new) /\ ds[i] \in DiffRange
  BY DEF Good, Leads, Matching
<1>2. /\ \A i \in DOMAIN ds : InOld(ds[i]) => ds[i].old.offset = 0 + OldUpTo(ds, i - 1)
      /\ Len(old) = 0 + OldUpTo(ds, Len(ds))
  BY DEF Good, Leads, Path
<1>3. \A n \in 0..Len(ds) : OldUpTo(ds, n) \in Nat
  BY <1>1, UpToType
<1>4. \A n \in 1..Len(ds) : OldUpTo(ds, n) = OldUpTo(ds, n - 1) + OldLen(ds[n]) /\ OldLen(ds[n]) \in Nat
  BY <1>1, UpToNext, ItemLens
<1>5. \A m, n \in 0..Len(ds) : m <= n => OldUpTo(ds, m) <= OldUpTo(ds, n)
  BY <1>1, OldUpToGrows
<1>6. ASSUME NEW i \in 1..Len(ds), ds[i].kind = "Delete"
      PROVE  /\ InOld(ds[i]) /\ ds[i].old.len \in Nat /\ ds[i].old.offset \in Nat
             /\ ds[i].old.offset = OldUpTo(ds, i - 1) /\ RangeEnd(ds[i].old) = OldUpTo(ds, i)
             /\ OldLen(ds[i]) = ds[i].old.len
  <2>1. /\ InOld(ds[i]) /\ OldLen(ds[i]) = ds[i].old.len
        /\ ds[i].old.len \in Nat /\ ds[i].old.offset \in Nat
    BY <1>1, <1>6, ItemLens
  <2>2. ds[i].old.offset = OldUpTo(ds, i - 1)
    <3>1. i - 1 \in 0..Len(ds)
      BY <1>1
    <3>2. ds[i].old.offset = 0 + OldUpTo(ds, i - 1) /\ OldUpTo(ds, i - 1) \in Nat
      BY <1>1, <1>2, <1>3, <2>1, <3>1
    <3> QED
      BY <3>2
  <2> QED
    BY <1>4, <2>1, <2>2 DEF RangeEnd
<1>7. ASSUME NEW i \in 1..Len(ds), ds[i].kind = "Delete", i + 1 \in 1..Len(ds)
      PROVE  /\ Stands(ds[i], ds[i + 1]) /\ ds[i + 1].kind = "Equal" /\ ~IsEmpty(ds[i + 1])
             /\ OldUpTo(ds, i) < OldUpTo(ds, i + 1) /\ ds[i + 1].old.offset = OldUpTo(ds, i)
             /\ LenOf(ds[i + 1]) = ds[i + 1].old.len /\ ds[i + 1].old.len \in Nat \ {0}
  <2>1. Stands(ds[i], ds[i + 1])
    BY <1>1, <1>7 DEF Stood
  <2>2. ds[i + 1].kind = "Equal" /\ ~IsEmpty(ds[i + 1]) /\ ds[i + 1] \in DiffRange
    BY <1>1, <1>7, <2>1 DEF Stands
  <2>3. /\ InOld(ds[i + 1]) /\ OldLen(ds[i + 1]) = ds[i + 1].old.len
        /\ LenOf(ds[i + 1]) = ds[i + 1].old.len /\ ds[i + 1].old.len \in Nat
    BY <2>2, ItemLens
  <2>4. (i + 1) - 1 = i /\ i \in 0..Len(ds)
    BY <1>1
  <2>5. OldUpTo(ds, i) \in Nat /\ OldUpTo(ds, i + 1) = OldUpTo(ds, i) + OldLen(ds[i + 1])
    BY <1>3, <1>4, <1>7, <2>4
  <2>6. ds[i + 1].old.offset = 0 + OldUpTo(ds, i)
    BY <1>1, <1>2, <1>7, <2>3, <2>4
  <2> QED
    BY <2>1, <2>2, <2>3, <2>5, <2>6 DEF IsEmpty
<1>8. ASSUME NEW i \in 1..Len(ds), NEW j \in 1..Len(ds), i # j, ds[i].kind = "Delete", ds[j].kind = "Delete"
      PROVE  RangeEnd(ds[i].old) # ds[j].old.offset
  <2>1. RangeEnd(ds[i].old) = OldUpTo(ds, i) /\ ds[j].old.offset = OldUpTo(ds, j - 1)
    BY <1>6, <1>8
  <2>2. i \in 0..Len(ds) /\ j \in 0..Len(ds) /\ j - 1 \in 0..Len(ds)
    BY <1>1
  <2>3. OldUpTo(ds, i) \in Nat /\ OldUpTo(ds, j - 1) \in Nat /\ OldUpTo(ds, j) \in Nat
    BY <1>3, <2>2
  <2>4. CASE i < j
    <3>1. i + 1 \in 1..Len(ds) /\ i + 1 \in 0..Len(ds)
      BY <1>1, <2>4
    <3>2. OldUpTo(ds, i) < OldUpTo(ds, i + 1) /\ ds[i + 1].kind = "Equal" /\ OldUpTo(ds, i + 1) \in Nat
      BY <1>3, <1>7, <1>8, <3>1
    <3>3. i + 1 # j
      BY <1>8, <3>2
    <3>4. i + 1 <= j - 1
      BY <2>4, <3>3
    <3>5. OldUpTo(ds, i + 1) <= OldUpTo(ds, j - 1)
      BY <1>5, <2>2, <3>1, <3>4
    <3> QED
      BY <2>1, <2>3, <3>2, <3>5
  <2>5. CASE j < i
    <3>1. j + 1 \in 1..Len(ds) /\ j + 1 \in 0..Len(ds) /\ j + 1 <= i /\ j - 1 <= j
      BY <1>1, <2>5
    <3>2. OldUpTo(ds, j) < OldUpTo(ds, j + 1) /\ OldUpTo(ds, j + 1) \in Nat
      BY <1>3, <1>7, <1>8, <3>1
    <3>3. OldUpTo(ds, j + 1) <= OldUpTo(ds, i) /\ OldUpTo(ds, j - 1) <= OldUpTo(ds, j)
      BY <1>5, <2>2, <3>1
    <3> QED
      BY <2>1, <2>3, <3>2, <3>3
  <2> QED
    BY <1>8, <2>4, <2>5
<1>9. ASSUME NEW i \in 1..Len(ds), ds[i].kind = "Delete" PROVE Firm(ds[i])
  <2> SUFFICES ASSUME ds[i].old.len # 0, RangeEnd(ds[i].old) < Len(old)
               PROVE  old[ds[i].old.offset + 1] # old[RangeEnd(ds[i].old) + 1]
    BY DEF Firm
  <2>1. RangeEnd(ds[i].old) = OldUpTo(ds, i) /\ OldUpTo(ds, i) \in Nat
    BY <1>3, <1>6, <1>9
  <2>2. i + 1 \in 1..Len(ds)
    <3>1. OldUpTo(ds, Len(ds)) \in Nat /\ Len(old) = OldUpTo(ds, Len(ds))
      BY <1>1, <1>2, <1>3
    <3>2. i # Len(ds) /\ Len(ds) \in Nat
      <4>1. OldUpTo(ds, i) < Len(old) /\ Len(ds) \in Nat
        BY <1>1, <2>1
      <4>2. i = Len(ds) => OldUpTo(ds, i) = Len(old)
        BY <3>1
      <4> QED
        BY <2>1, <4>1, <4>2
    <3> QED
      BY <3>2
  <2> DEFINE this == ds[i]
             next == ds[i + 1]
  <2>3. /\ this \in DiffRange /\ next \in Matching(old, new) /\ this.kind = "Delete" /\ next.kind = "Equal"
        /\ IsEdit(this) /\ ~IsEmpty(next) /\ DownLen(this, next) = 0 /\ Stands(this, next)
        /\ next.old.offset = RangeEnd(this.old) /\ this.old.len # 0
        /\ LenOf(next) = next.old.len /\ next.old.len \in Nat \ {0}
    BY <1>1, <1>7, <1>9, <2>1, <2>2 DEF Stands, IsEdit
  <2> HIDE DEF this, next
  <2>4. Blocked(this, next)
    <3>1. LenOf(this) # 0 /\ LenOf(next) # 0
      BY <2>3, ItemLens DEF IsEmpty
    <3> QED
      BY <2>3, <3>1, DownLenZero
  <2>5. old[this.old.offset + 1] # new[next.new.offset + 1]
    BY <2>3, <2>4 DEF Blocked
  <2>6. old[next.old.offset + 1] = new[next.new.offset + 1]
    <3>1. 1 \in 1..next.old.len /\ ~IsEdit(next)
      BY <2>3 DEF IsEdit
    <3> QED
      BY <2>3, <3>1 DEF Matching
  <2> QED
    BY <2>3, <2>5, <2>6 DEF this
<1> QED
  BY <1>1, <1>8, <1>9 DEF FirmDeletes, DeletesApart
(* The texts stay, and so does what is said with them. *)
LEMMA SettledPrimed ==
  ASSUME UNCHANGED texts,
         mode' \in {"scan", "down"} => Stood(diffs', pass', pointer' - 1),
         mode' = "up" => Stood(diffs', pass', pointer' - 2),
         mode' = "done" => pass' = "Insert" /\ Stood(diffs', pass', Len(diffs')),
         mode' # "idle" /\ pass' = "Insert" => FirmDeletes(diffs')
  PROVE  SettledInv'
<1>1. old' = old /\ new' = new
  BY DEF texts
<1>2. (mode \in {"scan", "down"} => Stood(diffs, pass, pointer - 1))'
  <2> SUFFICES ASSUME mode' \in {"scan", "down"} PROVE Stood(diffs, pass, pointer - 1)'
    OBVIOUS
  <2>1. Stood(diffs', pass', pointer' - 1)
    OBVIOUS
  <2> QED
    BY <1>1, <2>1 DEF Stood, Stands, DownLen
<1>3. (mode = "up" => Stood(diffs, pass, pointer - 2))'
  <2> SUFFICES ASSUME mode' = "up" PROVE Stood(diffs, pass, pointer - 2)'
    OBVIOUS
  <2>1. Stood(diffs', pass', pointer' - 2)
    OBVIOUS
  <2> QED
    BY <1>1, <2>1 DEF Stood, Stands, DownLen
<1>4. (mode = "done" => pass = "Insert" /\ Stood(diffs, pass, Len(diffs)))'
  <2> SUFFICES ASSUME mode' = "done" PROVE pass' = "Insert" /\ Stood(diffs, pass, Len(diffs))'
    OBVIOUS
  <2>1. pass' = "Insert" /\ Stood(diffs', pass', Len(diffs'))
    OBVIOUS
  <2> QED
    BY <1>1, <2>1 DEF Stood, Stands, DownLen
<1>5. (mode # "idle" /\ pass = "Insert" => FirmDeletes(diffs))'
  <2> SUFFICES ASSUME mode' # "idle", pass' = "Insert" PROVE FirmDeletes(diffs)'
    OBVIOUS
  <2>1. FirmDeletes(diffs')
    OBVIOUS
  <2> QED
    BY <1>1, <2>1 DEF FirmDeletes, DeletesApart, Firm
<1> QED
  BY <1>2, <1>3, <1>4, <1>5 DEF SettledInv

(* The edits before the new middle are as they were. *)
LEMMA SpliceStood ==
  ASSUME NEW T, NEW ds \in Seq(T), NEW es \in Seq(T), NEW mid \in Seq(T),
         NEW lo \in 0..Len(ds), NEW hi \in lo + 1..Len(ds) + 1, Spliced(es, ds, lo, mid, hi),
         NEW kind, NEW n \in Int, Stood(ds, kind, n), lo - 1 <= n
  PROVE  Stood(es, kind, lo - 1)
<1>1. lo \in Nat /\ Len(ds) \in Nat /\ DOMAIN ds = 1..Len(ds) /\ DOMAIN es = 1..Len(es)
  OBVIOUS
<1>2. \A i \in 1..lo : es[i] = ds[i] /\ i \in DOMAIN ds
  BY <1>1 DEF Spliced
<1> SUFFICES ASSUME NEW i \in DOMAIN es, i <= lo - 1, es[i].kind = kind, i + 1 \in DOMAIN es
             PROVE  Stands(es[i], es[i + 1])
  BY DEF Stood
<1>3. i \in 1..lo /\ i + 1 \in 1..lo /\ i <= n
  BY <1>1
<1>4. /\ es[i] = ds[i] /\ es[i + 1] = ds[i + 1] /\ i \in DOMAIN ds /\ i + 1 \in DOMAIN ds
  BY <1>2, <1>3
<1> QED
  BY <1>3, <1>4 DEF Stood

(* One item more. *)
LEMMA StoodNext ==
  ASSUME NEW es, NEW kind, NEW n \in Int, Stood(es, kind, n - 1), DOMAIN es \subseteq Int,
         n \in DOMAIN es /\ n + 1 \in DOMAIN es /\ es[n].kind = kind => Stands(es[n], es[n + 1])
  PROVE  Stood(es, kind, n)
<1> SUFFICES ASSUME NEW i \in DOMAIN es, i <= n, es[i].kind = kind, i + 1 \in DOMAIN es
             PROVE  Stands(es[i], es[i + 1])
  BY DEF Stood
<1>1. i <= n - 1 \/ i = n
  OBVIOUS
<1> QED
  BY <1>1 DEF Stood

(* What an arm has to see to: how far the pass has come by then. *)
Reached(p) == IF mode = "up" THEN p - 2 ELSE p - 1

(***************************************************************************)
(* An arm keeps the invariant if it keeps the items above, does not leave  *)
(* the last of them able to move, passes nothing but an item of another    *)
(* kind, and in the pass over the Inserts moves no Delete but one whole.   *)
(***************************************************************************)
ArmSettled(lo, mid, q, n) ==
  /\ pass = "Insert" => OnlyDelete(mid, diffs[q])
  /\ n \in {lo - 1, lo, lo + 1}
  /\ n >= lo /\ lo \in DOMAIN diffs /\ diffs[lo].kind = pass => Len(mid) >= 1 /\ Stands(diffs[lo], mid[1])
  /\ n = lo + 1 => Len(mid) >= 1 /\ mid[1].kind # pass

(* For then it has done what SettledInv says. *)
LEMMA ArmSettles ==
  ASSUME CompactInv, SettledInv, mode \in {"up", "down"}, UNCHANGED <<texts, pass, mode>>,
         NEW T, diffs \in Seq(T), NEW mid \in Seq(T), NEW lo \in 0..Len(diffs),
         NEW hi \in lo + 1..Len(diffs) + 1, diffs' = Join(Join(Upto(lo), mid), From(hi)),
         NEW q \in lo + 1..hi - 1, NEW p \in Nat, pointer' = p,
         lo - 1 <= Reached(pointer), ArmSettled(lo, mid, q, Reached(p))
  PROVE  SettledInv'
<1> DEFINE es == diffs'
           n == Reached(p)
<1>1. hi \in 1..Len(diffs) + 1 /\ lo < hi /\ lo \in Nat /\ Len(diffs) \in Nat
  OBVIOUS
<1>2. es = Join(Join(Upto(lo), mid), From(hi))
  OBVIOUS
<1> HIDE DEF es
<1>3. es \in Seq(T) /\ Spliced(es, diffs, lo, mid, hi)
  BY <1>1, <1>2, Splice
<1>4. pointer \in Nat /\ pass \in {"Delete", "Insert"}
  BY ArmStarts
<1>5. Stood(diffs, pass, Reached(pointer)) /\ (pass = "Insert" => FirmDeletes(diffs))
  BY DEF SettledInv, Reached
<1>6. pass = "Insert" => FirmDeletes(es)
  <2> SUFFICES ASSUME pass = "Insert" PROVE FirmDeletes(es)
    OBVIOUS
  <2>1. OnlyDelete(mid, diffs[q])
    BY DEF ArmSettled
  <2> QED
    BY <1>1, <1>3, <1>5, <2>1, SpliceFirm
<1>7. Stood(es, pass, lo - 1)
  <2>1. Reached(pointer) \in Int
    BY <1>4 DEF Reached
  <2> QED
    BY <1>3, <1>5, <2>1, SpliceStood
<1>8. /\ DOMAIN es \subseteq Int /\ DOMAIN es = 1..Len(es) /\ DOMAIN diffs = 1..Len(diffs)
      /\ lo \in Int /\ lo + 1 \in Int /\ Len(mid) \in Nat
  BY <1>3
<1>9. /\ \A i \in 1..lo : es[i] = diffs[i]
      /\ Len(mid) >= 1 => es[lo + 1] = mid[1]
  BY <1>3, <1>8 DEF Spliced
<1>10. n >= lo => Stood(es, pass, lo)
  <2> SUFFICES ASSUME n >= lo PROVE Stood(es, pass, lo)
    OBVIOUS
  <2>1. lo \in DOMAIN es /\ lo + 1 \in DOMAIN es /\ es[lo].kind = pass => Stands(es[lo], es[lo + 1])
    <3> SUFFICES ASSUME lo \in DOMAIN es, es[lo].kind = pass PROVE Stands(es[lo], es[lo + 1])
      OBVIOUS
    <3>1. lo \in 1..lo /\ lo \in DOMAIN diffs /\ es[lo] = diffs[lo]
      BY <1>1, <1>8, <1>9
    <3>2. Len(mid) >= 1 /\ Stands(diffs[lo], mid[1])
      BY <3>1 DEF ArmSettled
    <3> QED
      BY <1>9, <3>1, <3>2
  <2> QED
    BY <1>7, <1>8, <2>1, StoodNext
<1>11. n = lo + 1 => Stood(es, pass, lo + 1)
  <2> SUFFICES ASSUME n = lo + 1 PROVE Stood(es, pass, lo + 1)
    OBVIOUS
  <2>1. es[lo + 1].kind # pass
    BY <1>9 DEF ArmSettled
  <2>2. n >= lo /\ (lo + 1) - 1 = lo
    BY <1>1
  <2>3. Stood(es, pass, (lo + 1) - 1)
    BY <1>10, <2>2
  <2> QED
    BY <1>8, <2>1, <2>3, StoodNext
<1>12. Stood(es, pass, n)
  <2>1. n \in {lo - 1, lo, lo + 1}
    BY DEF ArmSettled
  <2>2. CASE n = lo - 1
    BY <1>7, <2>2
  <2>3. CASE n = lo
    BY <1>8, <1>10, <2>3
  <2>4. CASE n = lo + 1
    BY <1>11, <2>4
  <2> HIDE DEF n
  <2> QED
    BY <2>1, <2>2, <2>3, <2>4
<1>13. /\ mode = "up" => Stood(es, pass, p - 2)
       /\ mode = "down" => Stood(es, pass, p - 1)
  BY <1>12 DEF Reached
<1>14. mode' = mode /\ pass' = pass /\ pointer' = p /\ UNCHANGED texts
  OBVIOUS
<1>15. /\ mode' \in {"scan", "down"} => Stood(es, pass', pointer' - 1)
       /\ mode' = "up" => Stood(es, pass', pointer' - 2)
       /\ mode' # "done"
       /\ mode' # "idle" /\ pass' = "Insert" => FirmDeletes(es)
  BY <1>6, <1>13, <1>14
<1> QED
  BY <1>14, <1>15, SettledPrimed DEF es
(* Nothing in the middle. *)
LEMMA JoinNothing ==
  ASSUME NEW T, NEW a \in Seq(T), NEW b \in Seq(T)
  PROVE  a \o b = Join(Join(a, <<>>), b)
<1>1. a \o <<>> = a
  OBVIOUS
<1> QED
  BY <1>1 DEF Join

(* A list without a Delete. *)
LEMMA NoDelete ==
  ASSUME NEW T, NEW mid \in Seq(T), \A item \in T : item.kind # "Delete", NEW diff
  PROVE  OnlyDelete(mid, diff)
<1>1. \A i \in 1..Len(mid) : mid[i] \in T
  OBVIOUS
<1> QED
  BY <1>1 DEF OnlyDelete

(* Where an arm that goes up begins ... *)
LEMMA UpStarts ==
  ASSUME CompactInv, SettledInv, mode = "up", Has(pointer - 1)
  PROVE  /\ diffs \in Seq(DiffRange) /\ pointer - 1 \in 1..Len(diffs) /\ pointer \in 1..Len(diffs)
         /\ Upto(pointer - 2) \in Seq(DiffRange) /\ From(pointer) \in Seq(DiffRange)
         /\ From(pointer + 1) \in Seq(DiffRange) /\ From(pointer + 2) \in Seq(DiffRange)
         /\ This \in DiffRange /\ Above \in DiffRange
         /\ This.kind = pass /\ IsEdit(This) /\ pass \in {"Delete", "Insert"}
         /\ This = diffs[pointer] /\ Above = diffs[pointer - 1]
         /\ \A i \in DOMAIN diffs : i = pointer - 2 /\ diffs[i].kind = pass => Stands(diffs[i], Above)
<1>1. /\ This.kind = pass /\ IsEdit(This) /\ pass \in {"Delete", "Insert"} /\ pointer \in 1..Len(diffs)
  BY ArmStarts DEF Has
<1>2. diffs \in Seq(DiffRange) /\ pointer - 1 \in 1..Len(diffs)
  BY DEF CompactInv, CompactTypeOK, Has
<1>3. /\ Upto(pointer - 2) \in Seq(DiffRange) /\ From(pointer) \in Seq(DiffRange)
      /\ From(pointer + 1) \in Seq(DiffRange) /\ From(pointer + 2) \in Seq(DiffRange)
  BY <1>1, <1>2 DEF Upto, From
<1>4. ASSUME NEW i \in DOMAIN diffs, i = pointer - 2, diffs[i].kind = pass PROVE Stands(diffs[i], Above)
  <2>1. i + 1 = pointer - 1 /\ i + 1 \in DOMAIN diffs /\ i <= pointer - 2
    BY <1>1, <1>2, <1>4
  <2>2. Stood(diffs, pass, pointer - 2)
    BY DEF SettledInv
  <2>3. Stands(diffs[i], diffs[i + 1])
    BY <1>4, <2>1, <2>2 DEF Stood
  <2> QED
    BY <2>1, <2>3 DEF Above
<1>5. This \in DiffRange /\ Above \in DiffRange /\ This = diffs[pointer] /\ Above = diffs[pointer - 1]
  BY <1>1, <1>2 DEF This, Above
<1> QED
  BY <1>1, <1>2, <1>3, <1>4, <1>5

(* ... and one that goes down: what is above it is of another kind. *)
LEMMA DownStarts ==
  ASSUME CompactInv, SettledInv, mode = "down", Has(pointer + 1)
  PROVE  /\ diffs \in Seq(DiffRange) /\ pointer \in 1..Len(diffs) /\ pointer + 1 \in 1..Len(diffs)
         /\ Upto(pointer - 2) \in Seq(DiffRange) /\ Upto(pointer - 1) \in Seq(DiffRange)
         /\ Upto(pointer) \in Seq(DiffRange) /\ From(pointer + 2) \in Seq(DiffRange)
         /\ This \in DiffRange /\ Below \in DiffRange
         /\ This.kind = pass /\ IsEdit(This) /\ pass \in {"Delete", "Insert"}
         /\ This = diffs[pointer] /\ Below = diffs[pointer + 1]
         /\ \A i \in DOMAIN diffs : i = pointer - 1 => diffs[i].kind # pass
         /\ \A i \in DOMAIN diffs : i = pointer - 2 /\ diffs[i].kind = pass
                                      => Stands(diffs[i], diffs[pointer - 1])
<1>1. /\ This.kind = pass /\ IsEdit(This) /\ pass \in {"Delete", "Insert"} /\ pointer \in 1..Len(diffs)
  BY ArmStarts DEF Has
<1>2. diffs \in Seq(DiffRange) /\ pointer + 1 \in 1..Len(diffs)
  BY DEF CompactInv, CompactTypeOK, Has
<1>3. /\ pointer >= 2 => Upto(pointer - 2) \in Seq(DiffRange)
      /\ Upto(pointer - 1) \in Seq(DiffRange)
      /\ Upto(pointer) \in Seq(DiffRange) /\ From(pointer + 2) \in Seq(DiffRange)
  BY <1>1, <1>2 DEF Upto, From
<1>4. pointer < 2 => Upto(pointer - 2) \in Seq(DiffRange)
  <2> SUFFICES ASSUME pointer < 2 PROVE Upto(pointer - 2) \in Seq(DiffRange)
    OBVIOUS
  <2>1. pointer - 2 = -1
    BY <1>1
  <2>2. SubSeq(diffs, 1, -1) = <<>>
    OBVIOUS
  <2> QED
    BY <2>1, <2>2 DEF Upto
<1>5. Stood(diffs, pass, pointer - 1)
  BY DEF SettledInv
<1>6. ASSUME NEW i \in DOMAIN diffs, i = pointer - 1 PROVE diffs[i].kind # pass
  <2> SUFFICES ASSUME diffs[i].kind = pass PROVE FALSE
    OBVIOUS
  <2>1. i + 1 = pointer /\ i + 1 \in DOMAIN diffs /\ i <= pointer - 1
    BY <1>1, <1>2, <1>6
  <2>2. Stands(diffs[i], diffs[i + 1])
    BY <1>5, <1>6, <2>1 DEF Stood
  <2> QED
    BY <1>1, <2>1, <2>2 DEF Stands, This, IsEdit
<1>7. ASSUME NEW i \in DOMAIN diffs, i = pointer - 2, diffs[i].kind = pass
      PROVE  Stands(diffs[i], diffs[pointer - 1])
  <2>1. i + 1 = pointer - 1 /\ i + 1 \in DOMAIN diffs /\ i <= pointer - 1
    BY <1>1, <1>2, <1>7
  <2>2. Stands(diffs[i], diffs[i + 1])
    BY <1>5, <1>7, <2>1 DEF Stood
  <2> QED
    BY <2>1, <2>2
<1>8. This \in DiffRange /\ Below \in DiffRange /\ This = diffs[pointer] /\ Below = diffs[pointer + 1]
  BY <1>1, <1>2 DEF This, Below
<1> QED
  BY <1>1, <1>2, <1>3, <1>4, <1>6, <1>7, <1>8

(* An empty Equal goes, above ... *)
LEMMA DropEmptyAboveSettles == CompactInv /\ SettledInv /\ DropEmptyAbove => SettledInv'
<1> SUFFICES ASSUME CompactInv, SettledInv, DropEmptyAbove PROVE SettledInv'
  OBVIOUS
<1> DEFINE lo == pointer - 2
           p == pointer - 1
           none == <<>>
<1>1. /\ mode = "up" /\ Has(pointer - 1) /\ UNCHANGED <<texts, pass, mode>>
      /\ diffs' = Upto(lo) \o From(pointer) /\ pointer' = p
  BY DEF DropEmptyAbove, GoingUp
<1>2. /\ diffs \in Seq(DiffRange) /\ p \in 1..Len(diffs) /\ pointer \in 1..Len(diffs)
      /\ Upto(lo) \in Seq(DiffRange) /\ From(pointer) \in Seq(DiffRange)
  BY <1>1, UpStarts
<1>3. diffs' = Join(Join(Upto(lo), none), From(pointer))
  BY <1>1, <1>2, JoinNothing
<1>4. none \in Seq(DiffRange) /\ Len(none) = 0
  OBVIOUS
<1>5. ArmSettled(lo, none, p, Reached(p))
  <2>1. Reached(p) = lo - 1 /\ lo \in Int
    BY <1>1, <1>2 DEF Reached
  <2>2. OnlyDelete(none, diffs[p])
    BY <1>4 DEF OnlyDelete
  <2> HIDE DEF lo, p, none
  <2> QED
    BY <2>1, <2>2 DEF ArmSettled
<1>6. /\ lo \in 0..Len(diffs) /\ pointer \in lo + 1..Len(diffs) + 1 /\ p \in lo + 1..pointer - 1 /\ p \in Nat
      /\ lo - 1 <= Reached(pointer) /\ mode \in {"up", "down"}
  BY <1>1, <1>2 DEF Reached
<1> HIDE DEF lo, p, none
<1> QED
  BY <1>1, <1>2, <1>3, <1>4, <1>5, <1>6, ArmSettles

(* ... or below. *)
LEMMA DropEmptyBelowSettles == CompactInv /\ SettledInv /\ DropEmptyBelow => SettledInv'
<1> SUFFICES ASSUME CompactInv, SettledInv, DropEmptyBelow PROVE SettledInv'
  OBVIOUS
<1> DEFINE hi == pointer + 2
           q == pointer + 1
           none == <<>>
<1>1. /\ mode = "down" /\ Has(pointer + 1) /\ UNCHANGED <<texts, pass, mode>>
      /\ diffs' = Upto(pointer) \o From(hi) /\ pointer' = pointer
  BY DEF DropEmptyBelow, GoingDown
<1>2. /\ diffs \in Seq(DiffRange) /\ pointer \in 1..Len(diffs) /\ q \in 1..Len(diffs)
      /\ Upto(pointer) \in Seq(DiffRange) /\ From(hi) \in Seq(DiffRange)
  BY <1>1, DownStarts
<1>3. diffs' = Join(Join(Upto(pointer), none), From(hi))
  BY <1>1, <1>2, JoinNothing
<1>4. none \in Seq(DiffRange) /\ Len(none) = 0
  OBVIOUS
<1>5. ArmSettled(pointer, none, q, Reached(pointer))
  <2>1. Reached(pointer) = pointer - 1 /\ pointer \in Int
    BY <1>1, <1>2 DEF Reached
  <2>2. OnlyDelete(none, diffs[q])
    BY <1>4 DEF OnlyDelete
  <2> HIDE DEF hi, q, none
  <2> QED
    BY <2>1, <2>2 DEF ArmSettled
<1>6. /\ pointer \in 0..Len(diffs) /\ hi \in pointer + 1..Len(diffs) + 1 /\ q \in pointer + 1..hi - 1
      /\ pointer \in Nat /\ pointer - 1 <= Reached(pointer) /\ mode \in {"up", "down"}
  BY <1>1, <1>2 DEF Reached
<1> HIDE DEF hi, q, none
<1> QED
  BY <1>1, <1>2, <1>3, <1>4, <1>5, <1>6, ArmSettles

(* An edit of the other kind is passed upwards ... *)
LEMMA SwapUpSettles == CompactInv /\ SettledInv /\ SwapUp => SettledInv'
<1> SUFFICES ASSUME CompactInv, SettledInv, SwapUp PROVE SettledInv'
  OBVIOUS
<1> DEFINE lo == pointer - 2
           p == pointer - 1
           hi == pointer + 1
           mid == <<This, Above>>
<1>1. /\ mode = "up" /\ Has(pointer - 1) /\ UNCHANGED <<texts, pass, mode>>
      /\ diffs' = Join(Join(Upto(lo), mid), From(hi)) /\ pointer' = p
  BY DEF SwapUp, GoingUp, Join
<1>2. /\ diffs \in Seq(DiffRange) /\ p \in 1..Len(diffs) /\ pointer \in 1..Len(diffs)
      /\ This \in DiffRange /\ Above \in DiffRange /\ This.kind = pass /\ Above = diffs[p]
  BY <1>1, UpStarts
<1>3. mid \in Seq(DiffRange) /\ Len(mid) = 2 /\ mid[1] = This /\ mid[2] = Above
  BY <1>2
<1>4. ArmSettled(lo, mid, p, Reached(p))
  <2>1. Reached(p) = lo - 1 /\ lo \in Int
    BY <1>1, <1>2 DEF Reached
  <2>2. pass = "Insert" => OnlyDelete(mid, diffs[p])
    BY <1>2, <1>3 DEF OnlyDelete
  <2> HIDE DEF lo, p, mid
  <2> QED
    BY <2>1, <2>2 DEF ArmSettled
<1>5. /\ lo \in 0..Len(diffs) /\ hi \in lo + 1..Len(diffs) + 1 /\ p \in lo + 1..hi - 1 /\ p \in Nat
      /\ lo - 1 <= Reached(pointer) /\ mode \in {"up", "down"}
  BY <1>1, <1>2 DEF Reached
<1> HIDE DEF lo, p, hi, mid
<1> QED
  BY <1>1, <1>2, <1>3, <1>4, <1>5, ArmSettles

(* ... or downwards. *)
LEMMA SwapDownSettles == CompactInv /\ SettledInv /\ SwapDown => SettledInv'
<1> SUFFICES ASSUME CompactInv, SettledInv, SwapDown PROVE SettledInv'
  OBVIOUS
<1> DEFINE lo == pointer - 1
           p == pointer + 1
           hi == pointer + 2
           mid == <<Below, This>>
<1>1. /\ mode = "down" /\ Has(pointer + 1) /\ Below.kind = OtherKind /\ UNCHANGED <<texts, pass, mode>>
      /\ diffs' = Join(Join(Upto(lo), mid), From(hi)) /\ pointer' = p
  BY DEF SwapDown, GoingDown, Join
<1>2. /\ diffs \in Seq(DiffRange) /\ p \in 1..Len(diffs) /\ pointer \in 1..Len(diffs)
      /\ This \in DiffRange /\ Below \in DiffRange /\ This.kind = pass /\ Below = diffs[p]
      /\ \A i \in DOMAIN diffs : i = lo => diffs[i].kind # pass
  BY <1>1, DownStarts
<1>3. mid \in Seq(DiffRange) /\ Len(mid) = 2 /\ mid[1] = Below /\ mid[2] = This
  BY <1>2
<1>4. ArmSettled(lo, mid, p, Reached(p))
  <2>1. Reached(p) = lo + 1 /\ lo \in Int
    BY <1>1, <1>2 DEF Reached
  <2>2. pass = "Insert" => OnlyDelete(mid, diffs[p])
    BY <1>2, <1>3 DEF OnlyDelete
  <2>3. mid[1].kind # pass /\ Len(mid) >= 1
    BY <1>1, <1>2, <1>3 DEF OtherKind
  <2>4. ~(lo \in DOMAIN diffs /\ diffs[lo].kind = pass)
    BY <1>2
  <2> HIDE DEF lo, p, mid
  <2> QED
    BY <2>1, <2>2, <2>3, <2>4 DEF ArmSettled
<1>5. /\ lo \in 0..Len(diffs) /\ hi \in lo + 1..Len(diffs) + 1 /\ p \in lo + 1..hi - 1 /\ p \in Nat
      /\ lo - 1 <= Reached(pointer) /\ mode \in {"up", "down"}
  BY <1>1, <1>2 DEF Reached
<1> HIDE DEF lo, p, hi, mid
<1> QED
  BY <1>1, <1>2, <1>3, <1>4, <1>5, ArmSettles
(* A range operation does not make another edit or an Equal of an item. *)
LEMMA KindStays ==
  ASSUME NEW diff \in DiffRange, NEW l
  PROVE  /\ Up(diff, l).kind = diff.kind /\ Down(diff, l).kind = diff.kind
         /\ GrownUp(diff, l).kind = diff.kind /\ GrownDown(diff, l).kind = diff.kind
         /\ ShrunkBack(diff, l).kind = diff.kind /\ ShrunkFront(diff, l).kind = diff.kind
BY ForEachItem DEF Made

(* What an Equal loses or gains at its end leaves it where it begins. *)
LEMMA OffsetStays ==
  ASSUME NEW diff \in DiffRange, diff.kind = "Equal", NEW l
  PROVE  /\ ShrunkBack(diff, l).old.offset = diff.old.offset
         /\ ShrunkBack(diff, l).new.offset = diff.new.offset
         /\ GrownDown(diff, l).old.offset = diff.old.offset
         /\ GrownDown(diff, l).new.offset = diff.new.offset
<1>1. InOld(diff) /\ InNew(diff)
  BY ItemLens
<1> QED
  BY <1>1, ForEachItem DEF Made, OnOld, OnNew, ShrinkBack, GrowDown, MkRange

(* Two of a kind become one. *)
LEMMA MergeUpSettles == CompactInv /\ SettledInv /\ MergeUp => SettledInv'
<1> SUFFICES ASSUME CompactInv, SettledInv, MergeUp PROVE SettledInv'
  OBVIOUS
<1> DEFINE lo == pointer - 2
           p == pointer - 1
           hi == pointer + 1
           grown == GrownDown(Above, LenOf(This))
           mid == <<grown>>
           T == DiffRange \cup {grown}
<1>1. /\ mode = "up" /\ Has(pointer - 1) /\ Above.kind = This.kind /\ UNCHANGED <<texts, pass, mode>>
      /\ diffs' = Join(Join(Upto(lo), mid), From(hi)) /\ pointer' = p
  BY DEF MergeUp, GoingUp, Join
<1>2. /\ diffs \in Seq(DiffRange) /\ p \in 1..Len(diffs) /\ pointer \in 1..Len(diffs)
      /\ Above \in DiffRange /\ This.kind = pass
  BY <1>1, UpStarts
<1>3. grown.kind = pass
  BY <1>1, <1>2, KindStays
<1> HIDE DEF grown
<1>4. mid \in Seq(T) /\ Len(mid) = 1 /\ mid[1] = grown
  OBVIOUS
<1>5. diffs \in Seq(T)
  <2>1. DiffRange \subseteq T
    OBVIOUS
  <2> HIDE DEF T
  <2> QED
    BY <1>2, <2>1, SeqWiden
<1>6. ArmSettled(lo, mid, p, Reached(p))
  <2>1. Reached(p) = lo - 1 /\ lo \in Int
    BY <1>1, <1>2 DEF Reached
  <2>2. pass = "Insert" => OnlyDelete(mid, diffs[p])
    BY <1>3, <1>4 DEF OnlyDelete
  <2> HIDE DEF lo, p, mid
  <2> QED
    BY <2>1, <2>2 DEF ArmSettled
<1>7. /\ lo \in 0..Len(diffs) /\ hi \in lo + 1..Len(diffs) + 1 /\ p \in lo + 1..hi - 1 /\ p \in Nat
      /\ lo - 1 <= Reached(pointer) /\ mode \in {"up", "down"}
  BY <1>1, <1>2 DEF Reached
<1> HIDE DEF lo, p, hi, mid, T
<1> QED
  BY <1>1, <1>4, <1>5, <1>6, <1>7, ArmSettles

(* The same, downwards. *)
LEMMA MergeDownSettles == CompactInv /\ SettledInv /\ MergeDown => SettledInv'
<1> SUFFICES ASSUME CompactInv, SettledInv, MergeDown PROVE SettledInv'
  OBVIOUS
<1> DEFINE lo == pointer - 1
           hi == pointer + 2
           grown == GrownDown(This, LenOf(Below))
           mid == <<grown>>
           T == DiffRange \cup {grown}
<1>1. /\ mode = "down" /\ Has(pointer + 1) /\ UNCHANGED <<texts, pass, mode>>
      /\ diffs' = Join(Join(Upto(lo), mid), From(hi)) /\ pointer' = pointer
  BY DEF MergeDown, GoingDown, Join
<1>2. /\ diffs \in Seq(DiffRange) /\ pointer + 1 \in 1..Len(diffs) /\ pointer \in 1..Len(diffs)
      /\ This \in DiffRange /\ This.kind = pass
      /\ \A i \in DOMAIN diffs : i = lo => diffs[i].kind # pass
  BY <1>1, DownStarts
<1>3. grown.kind = pass
  BY <1>2, KindStays
<1> HIDE DEF grown
<1>4. mid \in Seq(T) /\ Len(mid) = 1 /\ mid[1] = grown
  OBVIOUS
<1>5. diffs \in Seq(T)
  <2>1. DiffRange \subseteq T
    OBVIOUS
  <2> HIDE DEF T
  <2> QED
    BY <1>2, <2>1, SeqWiden
<1>6. ArmSettled(lo, mid, pointer, Reached(pointer))
  <2>1. Reached(pointer) = lo /\ lo \in Int
    BY <1>1, <1>2 DEF Reached
  <2>2. pass = "Insert" => OnlyDelete(mid, diffs[pointer])
    BY <1>3, <1>4 DEF OnlyDelete
  <2>3. ~(lo \in DOMAIN diffs /\ diffs[lo].kind = pass)
    BY <1>2
  <2> HIDE DEF lo, mid
  <2> QED
    BY <2>1, <2>2, <2>3 DEF ArmSettled
<1>7. /\ lo \in 0..Len(diffs) /\ hi \in lo + 1..Len(diffs) + 1 /\ pointer \in lo + 1..hi - 1
      /\ pointer \in Nat /\ lo - 1 <= Reached(pointer) /\ mode \in {"up", "down"}
  BY <1>1, <1>2 DEF Reached
<1> HIDE DEF lo, hi, mid, T
<1> QED
  BY <1>1, <1>4, <1>5, <1>6, <1>7, ArmSettles

(* Five lists in a row, the middle three together. *)
LEMMA Regroup ==
  ASSUME NEW T, NEW a \in Seq(T), NEW b \in Seq(T), NEW c \in Seq(T), NEW e \in Seq(T), NEW f \in Seq(T)
  PROVE  Join(a, Join(b, Join(c, Join(e, f)))) = Join(Join(a, Join(b, Join(c, e))), f)
<1> DEFINE ce == Join(c, e)
           bce == Join(b, ce)
<1>1. ce \in Seq(T) /\ Join(c, Join(e, f)) = Join(ce, f)
  BY JoinAssociates
<1> HIDE DEF ce
<1>2. bce \in Seq(T) /\ Join(b, Join(ce, f)) = Join(bce, f)
  BY <1>1, JoinAssociates
<1> HIDE DEF bce
<1>3. Join(a, Join(bce, f)) = Join(Join(a, bce), f)
  BY <1>2, JoinAssociates
<1> QED
  BY <1>1, <1>2, <1>3 DEF bce, ce
(* What is made of two items and joined begins with the first of them. *)
LEMMA MidBegins ==
  ASSUME NEW T, NEW a \in Seq(T), NEW b \in Seq(T), Len(a) >= 1
  PROVE  Len(Join(a, b)) >= 1 /\ Join(a, b)[1] = a[1]
BY DEF Join

(* One item. *)
LEMMA OneItem ==
  ASSUME NEW T, NEW diff \in T
  PROVE  <<diff>> \in Seq(T) /\ Len(<<diff>>) = 1 /\ <<diff>>[1] = diff
OBVIOUS

(* An item that is left out if it is empty. *)
LEMMA UnlessEmptyItem ==
  ASSUME NEW T, NEW diff \in T
  PROVE  /\ UnlessEmpty(diff) \in Seq(T) /\ Len(UnlessEmpty(diff)) \in {0, 1}
         /\ Len(UnlessEmpty(diff)) = 1 => ~IsEmpty(diff) /\ UnlessEmpty(diff)[1] = diff
<1>1. CASE IsEmpty(diff)
  BY <1>1 DEF UnlessEmpty
<1>2. CASE ~IsEmpty(diff)
  BY <1>2 DEF UnlessEmpty
<1> QED
  BY <1>1, <1>2

(* After an arm the items match the texts that were there before it, too. *)
LEMMA MidMatches ==
  ASSUME CompactInv', mode' # "idle", UNCHANGED texts, NEW T, diffs \in Seq(T), NEW mid \in Seq(T),
         NEW lo \in 0..Len(diffs), NEW hi \in lo + 1..Len(diffs) + 1,
         diffs' = Join(Join(Upto(lo), mid), From(hi)), Len(mid) >= 1
  PROVE  mid[1] \in Matching(old, new)
<1>1. diffs' \in Seq(Matching(old, new))
  BY DEF CompactInv, Good, Leads, Matching, texts
<1> DEFINE es == diffs'
<1>2. hi \in 1..Len(diffs) + 1 /\ lo < hi /\ es = Join(Join(Upto(lo), mid), From(hi))
  OBVIOUS
<1>3. es \in Seq(Matching(old, new))
  BY <1>1
<1> HIDE DEF es
<1>4. es \in Seq(T) /\ Spliced(es, diffs, lo, mid, hi)
  BY <1>2, Splice
<1>5. 1 \in 1..Len(mid) /\ Len(mid) \in Nat /\ Len(diffs) \in Nat /\ lo \in Nat /\ hi <= Len(diffs) + 1
  OBVIOUS
<1>6. es[lo + 1] = mid[1]
  BY <1>4, <1>5 DEF Spliced
<1>7. lo + 1 \in 1..Len(es)
  <2>1. Len(es) = ((lo + Len(mid)) + Len(diffs) + 1) - hi
    BY <1>4 DEF Spliced
  <2> QED
    BY <1>5, <2>1
<1> QED
  BY <1>3, <1>6, <1>7

(* The edit moves up through an Equal. *)
LEMMA ShiftUpSettles == CompactInv /\ SettledInv /\ ShiftUpThroughEqual => SettledInv'
<1> SUFFICES ASSUME CompactInv, SettledInv, ShiftUpThroughEqual PROVE SettledInv'
  OBVIOUS
<1> DEFINE lo == pointer - 2
           j == pointer - 1
           l == UpLen(This, Above)
           shrunk == ShrunkBack(Above, l)
           less == UnlessEmpty(shrunk)
           moved == Up(This, l)
<1>1. /\ mode = "up" /\ Has(pointer - 1) /\ Above.kind = "Equal"
      /\ UNCHANGED <<texts, pass, mode>>
      /\ diffs' = Join(Join(Join(Upto(lo), less), <<moved>>), GrownBelow(l))
      /\ pointer' = pointer - 1 + Len(less)
  BY DEF ShiftUpThroughEqual, GoingUp, Join
<1>2. /\ diffs \in Seq(DiffRange) /\ j \in 1..Len(diffs) /\ pointer \in 1..Len(diffs)
      /\ Upto(lo) \in Seq(DiffRange) /\ From(pointer + 1) \in Seq(DiffRange)
      /\ From(pointer + 2) \in Seq(DiffRange)
      /\ This \in DiffRange /\ Above \in DiffRange /\ This.kind = pass /\ pass \in {"Delete", "Insert"}
  BY <1>1, UpStarts
<1>3. \A i \in DOMAIN diffs : i = lo /\ diffs[i].kind = pass => Stands(diffs[i], Above)
  BY <1>1, UpStarts
<1>4. CompactInv'
  BY ShiftUpThroughEqualRight DEF ArmRight
<1>5. PICK g, hi : /\ GrownBelow(l) = Join(<<g>>, From(hi)) /\ g.kind = "Equal"
                   /\ hi \in {pointer + 1, pointer + 2} /\ hi <= Len(diffs) + 1
  <2>1. CASE HasEqual(pointer + 1)
    <3>1. pointer + 1 \in 1..Len(diffs) /\ diffs[pointer + 1] \in DiffRange
      BY <1>2, <2>1 DEF HasEqual, Has
    <3>2. GrownUp(diffs[pointer + 1], l).kind = "Equal"
      BY <2>1, <3>1, KindStays DEF HasEqual, IsEdit
    <3>3. GrownBelow(l) = Join(<<GrownUp(diffs[pointer + 1], l)>>, From(pointer + 2))
      BY <2>1 DEF GrownBelow, Join
    <3>4. pointer + 2 <= Len(diffs) + 1
      BY <1>2, <3>1
    <3> QED
      BY <3>2, <3>3, <3>4
  <2>2. CASE ~HasEqual(pointer + 1)
    <3>1. GrownBelow(l) = Join(<<LeftBelow(This, Above, l)>>, From(pointer + 1))
      BY <2>2 DEF GrownBelow, Join, Above
    <3>2. LeftBelow(This, Above, l).kind = "Equal"
      BY DEF LeftBelow, Equal
    <3>3. pointer + 1 <= Len(diffs) + 1
      BY <1>2
    <3> QED
      BY <3>1, <3>2, <3>3
  <2> QED
    BY <2>1, <2>2
<1> DEFINE U == {shrunk, moved, g}
           T == DiffRange \cup U
           pair == Join(<<moved>>, <<g>>)
           mid == Join(less, pair)
<1>6. shrunk.kind = "Equal" /\ moved.kind = pass
  BY <1>1, <1>2, KindStays
<1>7. /\ shrunk.old.offset = Above.old.offset /\ shrunk.new.offset = Above.new.offset
  BY <1>1, <1>2, OffsetStays
<1> HIDE DEF l, shrunk, moved
<1>8. less \in Seq(U) /\ <<moved>> \in Seq(U) /\ <<g>> \in Seq(U)
  BY OneItem, UnlessEmptyItem
<1>9. Len(less) \in {0, 1} /\ (Len(less) = 1 => ~IsEmpty(shrunk) /\ less[1] = shrunk)
  BY UnlessEmptyItem
<1>10. U \subseteq T /\ DiffRange \subseteq T
  OBVIOUS
<1>11. pass = "Insert" => \A item \in U : item.kind # "Delete"
  BY <1>5, <1>6
<1> HIDE DEF U, T, less
<1>12. pair \in Seq(U)
  BY <1>8, JoinAssociates
<1>13. mid \in Seq(U)
  <2> HIDE DEF pair
  <2> QED
    BY <1>8, <1>12, JoinAssociates
<1>14. mid \in Seq(T) /\ diffs \in Seq(T) /\ less \in Seq(T) /\ <<moved>> \in Seq(T) /\ <<g>> \in Seq(T)
       /\ Upto(lo) \in Seq(T) /\ From(hi) \in Seq(T)
  <2>1. \A s : s \in Seq(U) => s \in Seq(T)
    BY <1>10, SeqWiden
  <2>2. \A s : s \in Seq(DiffRange) => s \in Seq(T)
    BY <1>10, SeqWiden
  <2>3. From(hi) \in Seq(DiffRange)
    BY <1>2, <1>5
  <2> QED
    BY <1>2, <1>8, <1>13, <2>1, <2>2, <2>3
<1>15. diffs' = Join(Join(Upto(lo), mid), From(hi))
  <2> DEFINE a == Upto(lo)
             c == <<moved>>
             e == <<g>>
             f == From(hi)
  <2>1. /\ a \in Seq(T) /\ less \in Seq(T) /\ c \in Seq(T) /\ e \in Seq(T) /\ f \in Seq(T)
        /\ diffs' = Join(Join(Join(a, less), c), Join(e, f)) /\ mid = Join(less, Join(c, e))
    BY <1>1, <1>5, <1>14
  <2> HIDE DEF a, c, e, f, mid
  <2>2. Join(e, f) \in Seq(T)
    BY <2>1, JoinAssociates
  <2>3. Join(Join(Join(a, less), c), Join(e, f)) = Join(a, Join(less, Join(c, Join(e, f))))
    BY <2>1, <2>2, FourJoined
  <2>4. Join(a, Join(less, Join(c, Join(e, f)))) = Join(Join(a, Join(less, Join(c, e))), f)
    BY <2>1, Regroup
  <2>5. diffs' = Join(Join(a, mid), f)
    BY <2>1, <2>3, <2>4
  <2> QED
    BY <2>5 DEF a, f
<1>16. Len(less) = 1 => Len(mid) >= 1 /\ mid[1] = shrunk
  <2> HIDE DEF pair
  <2>1. Len(less) = 1 => Len(less) >= 1
    OBVIOUS
  <2> QED
    BY <1>8, <1>9, <1>12, <2>1, MidBegins
<1> HIDE DEF mid, pair
<1> DEFINE p == pointer'
           q == j
<1>17. /\ lo \in 0..Len(diffs) /\ hi \in lo + 1..Len(diffs) + 1 /\ q \in lo + 1..hi - 1 /\ p \in Nat
       /\ lo - 1 <= Reached(pointer) /\ mode \in {"up", "down"} /\ lo \in Int
       /\ Reached(p) = (lo - 1) + Len(less)
  BY <1>1, <1>2, <1>5, <1>9 DEF Reached
<1>18. ASSUME Len(less) = 1, lo \in DOMAIN diffs, diffs[lo].kind = pass
       PROVE  Stands(diffs[lo], mid[1])
  <2> DEFINE this == diffs[lo]
  <2>1. Stands(this, Above) /\ this \in DiffRange /\ IsEdit(this)
    BY <1>2, <1>3, <1>18 DEF IsEdit
  <2>2. Above \in Matching(old, new)
    BY <1>1, UpPair
  <2>3. mid[1] \in Matching(old, new)
    BY <1>1, <1>4, <1>14, <1>15, <1>16, <1>17, <1>18, MidMatches
  <2>4. mid[1] = shrunk /\ ~IsEmpty(shrunk)
    BY <1>9, <1>16, <1>18
  <2> HIDE DEF this
  <2>5. Stands(this, shrunk)
    BY <1>6, <1>7, <2>1, <2>2, <2>3, <2>4, StandsStill
  <2> QED
    BY <2>4, <2>5 DEF this
<1>19. ArmSettled(lo, mid, q, Reached(p))
  <2>1. pass = "Insert" => OnlyDelete(mid, diffs[q])
    BY <1>11, <1>13, NoDelete
  <2>2. Reached(p) \in {lo - 1, lo, lo + 1} /\ Reached(p) # lo + 1 /\ (Reached(p) >= lo => Len(less) = 1)
    <3> DEFINE n == Reached(p)
    <3>1. lo \in Int /\ Len(less) \in {0, 1} /\ n = (lo - 1) + Len(less)
      BY <1>9, <1>17
    <3> HIDE DEF lo, n
    <3>2. CASE Len(less) = 0
      <4>1. n = lo - 1 /\ ~(n >= lo)
        BY <3>1, <3>2
      <4> QED
        BY <3>1, <4>1 DEF n
    <3>3. CASE Len(less) = 1
      <4>1. n = lo
        BY <3>1, <3>3
      <4> QED
        BY <3>1, <3>3, <4>1 DEF n
    <3> QED
      BY <3>1, <3>2, <3>3
  <2> HIDE DEF lo, p, q
  <2> QED
    BY <1>16, <1>18, <2>1, <2>2 DEF ArmSettled
<1>20. p = pointer'
  OBVIOUS
<1> HIDE DEF lo, p, q
<1> QED
  BY <1>1, <1>14, <1>15, <1>17, <1>19, <1>20, ArmSettles

(* The edit moves down through an Equal. *)
LEMMA ShiftDownSettles == CompactInv /\ SettledInv /\ ShiftDownThroughEqual => SettledInv'
<1> SUFFICES ASSUME CompactInv, SettledInv, ShiftDownThroughEqual PROVE SettledInv'
  OBVIOUS
<1> DEFINE hi == pointer + 2
           l == DownLen(This, Below)
           shrunk == ShrunkFront(Below, l)
           less == UnlessEmpty(shrunk)
           moved == Down(This, l)
<1>1. /\ mode = "down" /\ Has(pointer + 1) /\ Below.kind = "Equal"
      /\ UNCHANGED <<texts, pass, mode>>
      /\ diffs' = Join(Join(Join(GrownAbove(l), <<moved>>), less), From(hi))
      /\ pointer' = Len(GrownAbove(l)) + 1
  BY DEF ShiftDownThroughEqual, GoingDown, Join
<1>2. /\ diffs \in Seq(DiffRange) /\ pointer \in 1..Len(diffs) /\ pointer + 1 \in 1..Len(diffs)
      /\ Upto(pointer - 2) \in Seq(DiffRange) /\ Upto(pointer - 1) \in Seq(DiffRange)
      /\ From(hi) \in Seq(DiffRange)
      /\ This \in DiffRange /\ Below \in DiffRange /\ This.kind = pass /\ pass \in {"Delete", "Insert"}
  BY <1>1, DownStarts
<1>3. /\ \A i \in DOMAIN diffs : i = pointer - 1 => diffs[i].kind # pass
      /\ \A i \in DOMAIN diffs : i = pointer - 2 /\ diffs[i].kind = pass
                                   => Stands(diffs[i], diffs[pointer - 1])
  BY <1>1, DownStarts
<1>4. CompactInv'
  BY ShiftDownThroughEqualRight DEF ArmRight
<1>5. l \in Nat
  <2>1. This.old \in Ranges /\ This.new \in Ranges /\ Below.old \in Ranges /\ Below.new \in Ranges
    BY <1>2, ItemLens
  <2>2. ASSUME NEW s, NEW t, NEW r \in Ranges, NEW x \in Ranges PROVE CommonPrefixLen(s, r, t, x) \in Nat
    <3>1. CommonPrefixLen(s, r, t, x) \in 0..r.len
      BY CommonPrefixFacts
    <3> QED
      BY <3>1
  <2> QED
    BY <2>1, <2>2 DEF DownLen
<1>6. PICK g, lo :
        /\ GrownAbove(l) = Append(Upto(lo), g) /\ g.kind = "Equal"
        /\ \/ /\ lo = pointer - 2 /\ pointer - 1 \in 1..Len(diffs) /\ diffs[pointer - 1].kind = "Equal"
              /\ diffs[pointer - 1] \in DiffRange /\ g = GrownDown(diffs[pointer - 1], l)
           \/ lo = pointer - 1
  <2>1. CASE HasEqual(pointer - 1)
    <3>1. /\ pointer - 1 \in 1..Len(diffs) /\ diffs[pointer - 1] \in DiffRange
          /\ diffs[pointer - 1].kind = "Equal"
      BY <1>2, <2>1 DEF HasEqual, Has, IsEdit
    <3>2. GrownDown(diffs[pointer - 1], l).kind = "Equal"
      BY <3>1, KindStays
    <3>3. GrownAbove(l) = Append(Upto(pointer - 2), GrownDown(diffs[pointer - 1], l))
      BY <2>1 DEF GrownAbove
    <3> QED
      BY <3>1, <3>2, <3>3
  <2>2. CASE ~HasEqual(pointer - 1)
    <3>1. GrownAbove(l) = Append(Upto(pointer - 1), LeftAbove(This, Below, l))
      BY <2>2 DEF GrownAbove, Below
    <3>2. LeftAbove(This, Below, l).kind = "Equal"
      BY DEF LeftAbove, Equal
    <3> QED
      BY <3>1, <3>2
  <2> QED
    BY <2>1, <2>2
<1> DEFINE U == {shrunk, moved, g}
           T == DiffRange \cup U
           pair == Join(<<moved>>, less)
           mid == Join(<<g>>, pair)
           q == pointer
<1>7. shrunk.kind = "Equal" /\ moved.kind = pass
  BY <1>1, <1>2, KindStays
<1> HIDE DEF l, shrunk, moved
<1>8. less \in Seq(U) /\ <<moved>> \in Seq(U) /\ <<g>> \in Seq(U) /\ Len(<<g>>) >= 1 /\ <<g>>[1] = g
  BY OneItem, UnlessEmptyItem
<1>9. U \subseteq T /\ DiffRange \subseteq T /\ g \in T
  OBVIOUS
<1>10. pass = "Insert" => \A item \in U : item.kind # "Delete"
  BY <1>6, <1>7
<1> HIDE DEF U, T, less
<1>11. pair \in Seq(U)
  BY <1>8, JoinAssociates
<1>12. mid \in Seq(U)
  <2> HIDE DEF pair
  <2> QED
    BY <1>8, <1>11, JoinAssociates
<1>13. mid \in Seq(T) /\ diffs \in Seq(T) /\ less \in Seq(T) /\ <<moved>> \in Seq(T) /\ <<g>> \in Seq(T)
       /\ Upto(lo) \in Seq(T) /\ From(hi) \in Seq(T)
  <2>1. \A s : s \in Seq(U) => s \in Seq(T)
    BY <1>9, SeqWiden
  <2>2. \A s : s \in Seq(DiffRange) => s \in Seq(T)
    BY <1>9, SeqWiden
  <2>3. Upto(lo) \in Seq(DiffRange)
    BY <1>2, <1>6
  <2> QED
    BY <1>2, <1>8, <1>12, <2>1, <2>2, <2>3
<1>14. diffs' = Join(Join(Upto(lo), mid), From(hi)) /\ Len(GrownAbove(l)) = Len(Upto(lo)) + 1
  <2> DEFINE a == Upto(lo)
             c == <<moved>>
             e == <<g>>
             f == From(hi)
  <2>1. /\ a \in Seq(T) /\ less \in Seq(T) /\ c \in Seq(T) /\ e \in Seq(T) /\ f \in Seq(T) /\ g \in T
        /\ diffs' = Join(Join(Join(Append(a, g), c), less), f) /\ mid = Join(e, Join(c, less))
        /\ GrownAbove(l) = Append(a, g)
    BY <1>1, <1>6, <1>9, <1>13
  <2> HIDE DEF a, c, f, mid
  <2>2. /\ Join(Join(Join(Append(a, g), c), less), f) = Join(a, Join(<<g>>, Join(c, Join(less, f))))
        /\ Len(Append(a, g)) = Len(a) + 1
    BY <2>1, FiveJoined
  <2>3. Join(Join(Join(Append(a, g), c), less), f) = Join(a, Join(e, Join(c, Join(less, f))))
    BY <2>2
  <2> HIDE DEF e
  <2>4. Join(a, Join(e, Join(c, Join(less, f)))) = Join(Join(a, Join(e, Join(c, less))), f)
    BY <2>1, Regroup
  <2>5. diffs' = Join(Join(a, mid), f)
    BY <2>1, <2>3, <2>4
  <2> QED
    BY <2>1, <2>2, <2>5 DEF a, f
<1>15. Len(mid) >= 1 /\ mid[1] = g
  <2> DEFINE e == <<g>>
  <2>1. e \in Seq(U) /\ Len(e) >= 1 /\ e[1] = g /\ mid = Join(e, pair)
    BY <1>8
  <2> HIDE DEF pair, e, mid
  <2> QED
    BY <1>11, <2>1, MidBegins
<1> HIDE DEF mid, pair
<1> DEFINE p == pointer'
<1>16. /\ lo \in 0..Len(diffs) /\ hi \in lo + 1..Len(diffs) + 1 /\ q \in lo + 1..hi - 1 /\ q \in Nat
       /\ lo - 1 <= Reached(pointer) /\ mode \in {"up", "down"} /\ lo \in Int
  BY <1>1, <1>2, <1>6 DEF Reached
<1>17. p \in Nat /\ Reached(p) = lo + 1
  <2>1. Len(Upto(lo)) = lo
    BY <1>2, <1>16 DEF Upto
  <2>2. p = lo + 1 + 1
    BY <1>1, <1>14, <2>1
  <2> QED
    BY <1>1, <1>16, <2>2 DEF Reached
<1>18. ASSUME lo \in DOMAIN diffs, diffs[lo].kind = pass
       PROVE  Stands(diffs[lo], mid[1])
  <2> DEFINE this == diffs[lo]
             prev == diffs[pointer - 1]
  <2>1. lo # pointer - 1
    BY <1>3, <1>18
  <2>2. /\ prev.kind = "Equal" /\ prev \in DiffRange /\ g = GrownDown(prev, l) /\ lo = pointer - 2
        /\ pointer - 1 \in 1..Len(diffs)
    BY <1>6, <2>1
  <2>3. Stands(this, prev) /\ this \in DiffRange /\ IsEdit(this)
    BY <1>2, <1>3, <1>18, <2>2 DEF IsEdit
  <2>4. prev \in Matching(old, new)
    <3>1. diffs \in Seq(Matching(old, new))
      BY <1>1, ArmStarts
    <3> QED
      BY <2>2, <3>1
  <2>5. g \in Matching(old, new)
    <3>1. mid[1] \in Matching(old, new)
      BY <1>1, <1>4, <1>13, <1>14, <1>15, <1>16, MidMatches
    <3> QED
      BY <1>15, <3>1
  <2> HIDE DEF this, prev
  <2>6. ~IsEmpty(g)
    BY <1>5, <2>2, <2>3, MovedSolid DEF Stands
  <2>7. g.old.offset = prev.old.offset /\ g.new.offset = prev.new.offset
    BY <2>2, OffsetStays
  <2>8. Stands(this, g)
    BY <1>6, <2>3, <2>4, <2>5, <2>6, <2>7, StandsStill
  <2> QED
    BY <1>15, <2>8 DEF this
<1>19. ArmSettled(lo, mid, q, Reached(p))
  <2>1. pass = "Insert" => OnlyDelete(mid, diffs[q])
    BY <1>10, <1>12, NoDelete
  <2>2. mid[1].kind # pass
    BY <1>2, <1>6, <1>15
  <2> HIDE DEF p, q
  <2> QED
    BY <1>15, <1>16, <1>17, <1>18, <2>1, <2>2 DEF ArmSettled
<1>20. p = pointer'
  OBVIOUS
<1> HIDE DEF p, q, hi
<1> QED
  BY <1>1, <1>13, <1>14, <1>16, <1>17, <1>19, <1>20, ArmSettles
(* Fewer of the items. *)
LEMMA StoodLess ==
  ASSUME NEW ds \in Seq(DiffRange), NEW kind, NEW n \in Int, Stood(ds, kind, n), NEW m \in Int, m <= n
  PROVE  Stood(ds, kind, m)
<1>1. \A i \in DOMAIN ds : i \in Int /\ (i <= m => i <= n)
  OBVIOUS
<1> QED
  BY <1>1 DEF Stood

(* Nothing has been passed yet, or everything there is. *)
LEMMA StoodNone ==
  ASSUME NEW ds \in Seq(DiffRange), NEW kind
  PROVE  /\ Stood(ds, kind, 0)
         /\ \A n \in Int : Stood(ds, kind, n) /\ n >= Len(ds) => Stood(ds, kind, Len(ds))
<1>1. \A i \in DOMAIN ds : i \in Nat \ {0}
  OBVIOUS
<1>2. Stood(ds, kind, 0)
  BY <1>1 DEF Stood
<1>3. ASSUME NEW n \in Int, Stood(ds, kind, n), n >= Len(ds) PROVE Stood(ds, kind, Len(ds))
  BY <1>3, StoodLess
<1> QED
  BY <1>2, <1>3

(* The steps that leave the list alone. *)
LEMMA ScanSettles == CompactInv /\ SettledInv /\ Scan => SettledInv'
<1> SUFFICES ASSUME CompactInv, SettledInv, Scan PROVE SettledInv'
  OBVIOUS
<1>1. mode = "scan" /\ Has(pointer) /\ UNCHANGED <<texts, diffs, pass>>
  BY DEF Scan
<1>2. diffs \in Seq(DiffRange) /\ pointer \in Nat \ {0} /\ DOMAIN diffs \subseteq Int
  BY <1>1 DEF CompactInv, CompactTypeOK
<1>3. Stood(diffs, pass, pointer - 1) /\ (pass = "Insert" => FirmDeletes(diffs))
  BY <1>1 DEF SettledInv
<1>4. CASE This.kind = pass
  <2>1. mode' = "up" /\ pointer' = pointer
    BY <1>4 DEF Scan
  <2>2. Stood(diffs, pass, pointer - 2)
    <3>1. pointer - 1 \in Int /\ pointer - 2 \in Int /\ pointer - 2 <= pointer - 1
      BY <1>2
    <3> QED
      BY <1>2, <1>3, <3>1, StoodLess
  <2> QED
    BY <1>1, <1>3, <2>1, <2>2, SettledPrimed
<1>5. CASE This.kind # pass
  <2>1. mode' = "scan" /\ pointer' = pointer + 1 /\ pointer' - 1 = pointer
    BY <1>1, <1>2, <1>5 DEF Scan
  <2>2. Stood(diffs, pass, pointer)
    BY <1>2, <1>3, <1>5, StoodNext DEF This
  <2> QED
    BY <1>1, <1>3, <2>1, <2>2, SettledPrimed
<1> QED
  BY <1>4, <1>5

(* What the one pass has come to is what the other one starts from. *)
LEMMA EndOfPassSettles == CompactInv /\ SettledInv /\ EndOfPass => SettledInv'
<1> SUFFICES ASSUME CompactInv, SettledInv, EndOfPass PROVE SettledInv'
  OBVIOUS
<1>1. mode = "scan" /\ ~Has(pointer) /\ UNCHANGED <<texts, diffs>>
  BY DEF EndOfPass
<1>2. /\ diffs \in Seq(DiffRange) /\ pointer \in Nat \ {0} /\ pass \in {"Delete", "Insert"} /\ Good(diffs)
  BY <1>1 DEF CompactInv, CompactTypeOK
<1>3. Stood(diffs, pass, pointer - 1) /\ (pass = "Insert" => FirmDeletes(diffs))
  BY <1>1 DEF SettledInv
<1>4. Stood(diffs, pass, Len(diffs))
  <2>1. pointer - 1 \in Int /\ pointer - 1 >= Len(diffs)
    BY <1>1, <1>2 DEF Has
  <2> QED
    BY <1>2, <1>3, <2>1, StoodNone
<1>5. CASE pass = "Delete"
  <2>1. mode' = "scan" /\ pass' = "Insert" /\ pointer' = 1 /\ pointer' - 1 = 0
    BY <1>1, <1>5 DEF EndOfPass
  <2>2. FirmDeletes(diffs)
    BY <1>2, <1>4, <1>5, StoodIsFirm
  <2>3. Stood(diffs, "Insert", 0)
    BY <1>2, StoodNone
  <2> QED
    BY <1>1, <2>1, <2>2, <2>3, SettledPrimed
<1>6. CASE pass = "Insert"
  <2>1. mode' = "done" /\ pass' = "Insert"
    BY <1>6 DEF EndOfPass
  <2> QED
    BY <1>1, <1>3, <1>4, <1>6, <2>1, SettledPrimed
<1> QED
  BY <1>2, <1>5, <1>6

(* At the top of its way the edit has an Equal above it or nothing. *)
LEMMA StopUpSettles == CompactInv /\ SettledInv /\ StopUp => SettledInv'
<1> SUFFICES ASSUME CompactInv, SettledInv, StopUp PROVE SettledInv'
  OBVIOUS
<1>1. /\ mode = "up" /\ mode' = "down" /\ UNCHANGED <<texts, diffs, pass, pointer>>
      /\ Has(pointer - 1) => HasEqual(pointer - 1)
  BY DEF StopUp
<1>2. /\ diffs \in Seq(DiffRange) /\ pointer \in Nat \ {0} /\ pass \in {"Delete", "Insert"}
      /\ DOMAIN diffs \subseteq Int
  BY <1>1 DEF CompactInv, CompactTypeOK
<1>3. Stood(diffs, pass, pointer - 2) /\ (pass = "Insert" => FirmDeletes(diffs))
  BY <1>1 DEF SettledInv
<1>4. pointer - 1 \in DOMAIN diffs => diffs[pointer - 1].kind # pass
  BY <1>1, <1>2 DEF HasEqual, Has, IsEdit
<1>5. Stood(diffs, pass, pointer - 1)
  <2> DEFINE n == pointer - 1
  <2>1. n \in Int /\ Stood(diffs, pass, n - 1) /\ (n \in DOMAIN diffs => diffs[n].kind # pass)
    <3>1. n - 1 = pointer - 2 /\ n \in Int
      BY <1>2
    <3> QED
      BY <1>3, <1>4, <3>1
  <2> HIDE DEF n
  <2>2. Stood(diffs, pass, n)
    BY <1>2, <2>1, StoodNext
  <2> QED
    BY <2>2 DEF n
<1> QED
  BY <1>1, <1>3, <1>5, SettledPrimed

(* At the bottom it stands. *)
LEMMA StopDownSettles == CompactInv /\ SettledInv /\ StopDown => SettledInv'
<1> SUFFICES ASSUME CompactInv, SettledInv, StopDown PROVE SettledInv'
  OBVIOUS
<1>1. /\ mode = "down" /\ mode' = "scan" /\ UNCHANGED <<texts, diffs, pass>> /\ pointer' = pointer + 1
      /\ Has(pointer + 1) => /\ HasEqual(pointer + 1) /\ DownLen(This, Below) = 0 /\ ~IsEmpty(Below)
  BY DEF StopDown
<1>2. /\ diffs \in Seq(DiffRange) /\ pointer \in Nat \ {0} /\ DOMAIN diffs \subseteq Int
      /\ pointer' - 1 = pointer
  BY <1>1 DEF CompactInv, CompactTypeOK
<1>3. Stood(diffs, pass, pointer - 1) /\ (pass = "Insert" => FirmDeletes(diffs))
  BY <1>1 DEF SettledInv
<1>4. pointer + 1 \in DOMAIN diffs => Stands(diffs[pointer], diffs[pointer + 1])
  BY <1>1 DEF HasEqual, Has, IsEdit, Stands, This, Below
<1>5. Stood(diffs, pass, pointer)
  <2> DEFINE n == pointer
             ds == diffs
  <2>1. n \in Int /\ Stood(ds, pass, n - 1) /\ DOMAIN ds \subseteq Int
    BY <1>2, <1>3
  <2>2. n + 1 \in DOMAIN ds => Stands(ds[n], ds[n + 1])
    BY <1>4
  <2> HIDE DEF n, ds
  <2>3. Stood(ds, pass, n)
    BY <2>1, <2>2, StoodNext
  <2> QED
    BY <2>3 DEF n, ds
<1> QED
  BY <1>1, <1>2, <1>3, <1>5, SettledPrimed

(* Every step of compact(). *)
LEMMA CompactNextSettles ==
  ASSUME CompactInv, SettledInv, CompactNext
  PROVE  SettledInv'
<1>1. CASE Scan \/ EndOfPass \/ StopUp \/ StopDown
  BY <1>1, ScanSettles, EndOfPassSettles, StopUpSettles, StopDownSettles
<1>2. CASE ShiftUpThroughEqual \/ DropEmptyAbove \/ SwapUp \/ MergeUp
  BY <1>2, ShiftUpSettles, DropEmptyAboveSettles, SwapUpSettles, MergeUpSettles
<1>3. CASE ShiftDownThroughEqual \/ DropEmptyBelow \/ SwapDown \/ MergeDown
  BY <1>3, ShiftDownSettles, DropEmptyBelowSettles, SwapDownSettles, MergeDownSettles
<1> QED
  BY <1>1, <1>2, <1>3 DEF CompactNext

(* Every step of diff_slice(), and how it starts. *)
LEMMA InitSettled == DSInit /\ DSInv => SettledInv
<1> SUFFICES ASSUME DSInit, DSInv PROVE SettledInv
  OBVIOUS
<1>1. CASE mode = "idle"
  BY <1>1 DEF SettledInv
<1>2. CASE mode # "idle"
  <2>1. mode = "scan" /\ pass = "Delete" /\ pointer = 1 /\ pointer - 1 = 0
    BY <1>2 DEF DSInit, CompactInit
  <2>2. diffs \in Seq(DiffRange)
    BY <1>2 DEF DSInv, CompactInv, CompactTypeOK
  <2>3. Stood(diffs, pass, 0)
    BY <2>2, StoodNone
  <2> QED
    BY <2>1, <2>3 DEF SettledInv
<1> QED
  BY <1>1, <1>2

(* It is inductive. *)
LEMMA NextSettled == DSInv /\ DSInv' /\ SettledInv /\ [DSNext]_dvars => SettledInv'
<1> SUFFICES ASSUME DSInv, DSInv', SettledInv, [DSNext]_dvars PROVE SettledInv'
  OBVIOUS
<1>1. CASE Search
  <2>1. mode' = "idle"
    BY <1>1 DEF Search, compactVars
  <2> QED
    BY <2>1 DEF SettledInv
<1>2. CASE StartCompact
  <2>1. mode = "idle" /\ mode' = "scan" /\ UNCHANGED <<texts, pass, pointer>>
    BY <1>2 DEF StartCompact, vars, texts
  <2>2. pass = "Delete" /\ pointer = 1
    BY <2>1 DEF DSInv, CompactInv
  <2>3. diffs' \in Seq(DiffRange)
    BY <2>1 DEF DSInv, CompactInv, CompactTypeOK
  <2> DEFINE ds == diffs'
  <2>4. ds \in Seq(DiffRange)
    BY <2>3
  <2> HIDE DEF ds
  <2>5. Stood(ds, "Delete", 0)
    BY <2>4, StoodNone
  <2>6. pass' = "Delete" /\ pointer' - 1 = 0 /\ UNCHANGED texts
    BY <2>1, <2>2
  <2>7. Stood(ds, pass', pointer' - 1)
    BY <2>5, <2>6
  <2> QED
    BY <2>1, <2>6, <2>7, SettledPrimed DEF ds
<1>3. CASE CompactStep
  BY <1>3, CompactNextSettles DEF CompactStep, DSInv
<1>4. CASE UNCHANGED dvars
  <2>1. UNCHANGED <<texts, diffs, pass, mode, pointer>>
    BY <1>4 DEF dvars, vars, compactVars, texts
  <2>2. /\ mode \in {"scan", "down"} => Stood(diffs, pass, pointer - 1)
        /\ mode = "up" => Stood(diffs, pass, pointer - 2)
        /\ mode = "done" => pass = "Insert" /\ Stood(diffs, pass, Len(diffs))
        /\ mode # "idle" /\ pass = "Insert" => FirmDeletes(diffs)
    BY DEF SettledInv
  <2> QED
    BY <2>1, <2>2, SettledPrimed
<1> QED
  BY <1>1, <1>2, <1>3, <1>4 DEF DSNext

(* When both passes are over, no edit can move, and none could merge. *)
LEMMA StoodSettled ==
  ASSUME CompactInv, SettledInv
  PROVE  Settled
<1> SUFFICES ASSUME mode = "done"
             PROVE  \A i \in DOMAIN diffs : IsEdit(diffs[i]) =>
                      /\ Has(i + 1) => diffs[i + 1].kind # diffs[i].kind
                      /\ Has(i + 2) /\ IsEdit(diffs[i + 1]) => ~IsEdit(diffs[i + 2])
                      /\ HasEqual(i + 1) => DownLen(diffs[i], diffs[i + 1]) = 0
  BY DEF Settled
<1>1. /\ Stood(diffs, "Insert", Len(diffs)) /\ FirmDeletes(diffs)
      /\ Good(diffs) /\ diffs \in Seq(DiffRange)
  BY DEF SettledInv, CompactInv, CompactTypeOK
<1>2. /\ diffs \in Seq(Matching(old, new)) /\ DOMAIN diffs = 1..Len(diffs) /\ Len(diffs) \in Nat
      /\ \A i \in DOMAIN diffs : diffs[i] \in Matching(old, new) /\ diffs[i] \in DiffRange
  BY <1>1 DEF Good, Leads
<1>3. ASSUME NEW i \in DOMAIN diffs, i + 1 \in DOMAIN diffs, diffs[i].kind = "Insert"
      PROVE  Stands(diffs[i], diffs[i + 1])
  BY <1>1, <1>2, <1>3 DEF Stood
<1>4. ASSUME NEW i \in DOMAIN diffs, i + 1 \in DOMAIN diffs, diffs[i].kind = "Delete", InOld(diffs[i + 1])
      PROVE  /\ diffs[i + 1].old.offset = RangeEnd(diffs[i].old)
             /\ RangeEnd(diffs[i + 1].old) <= Len(old)
  <2>1. Path(diffs, 0, 0, Len(old), Len(new))
    BY <1>1 DEF Good, Leads
  <2>2. Contiguous(diffs, old, new)
    BY <1>1, <2>1, PathCovers
  <2>3. /\ diffs[i + 1].old.offset = OldUpTo(diffs, (i + 1) - 1)
        /\ RangeEnd(diffs[i + 1].old) <= Len(old)
    BY <1>4, <2>2 DEF Contiguous
  <2>4. InOld(diffs[i]) /\ OldLen(diffs[i]) = diffs[i].old.len
    BY <1>2, <1>4, ItemLens
  <2>5. diffs[i].old.offset = OldUpTo(diffs, i - 1)
    BY <2>2, <2>4 DEF Contiguous
  <2>6. OldUpTo(diffs, i) = OldUpTo(diffs, i - 1) + OldLen(diffs[i])
    BY <1>1, <1>2, UpToNext
  <2>7. (i + 1) - 1 = i
    BY <1>2
  <2> QED
    BY <2>3, <2>4, <2>5, <2>6, <2>7 DEF RangeEnd
<1>5. ASSUME NEW i \in DOMAIN diffs, i + 1 \in DOMAIN diffs, IsEdit(diffs[i])
      PROVE  diffs[i + 1].kind # diffs[i].kind
  <2>1. diffs[i].kind \in {"Delete", "Insert"}
    BY <1>2, <1>5 DEF IsEdit, DiffRange
  <2>2. CASE diffs[i].kind = "Insert"
    BY <1>3, <1>5, <2>2 DEF Stands
  <2>3. CASE diffs[i].kind = "Delete"
    <3> SUFFICES ASSUME diffs[i + 1].kind = "Delete" PROVE FALSE
      BY <2>3
    <3>1. diffs[i + 1].old.offset = RangeEnd(diffs[i].old)
      BY <1>4, <1>5, <2>3 DEF InOld
    <3>2. i # i + 1
      BY <1>2
    <3> QED
      BY <1>1, <1>5, <2>3, <3>1, <3>2 DEF FirmDeletes, DeletesApart
  <2> QED
    BY <2>1, <2>2, <2>3
<1>6. ASSUME NEW i \in DOMAIN diffs, i + 2 \in DOMAIN diffs, IsEdit(diffs[i]), IsEdit(diffs[i + 1])
      PROVE  ~IsEdit(diffs[i + 2])
  <2>1. i + 1 \in DOMAIN diffs /\ (i + 1) + 1 = i + 2
    BY <1>2, <1>6
  <2>2. diffs[i + 1].kind # diffs[i].kind
    BY <1>5, <1>6, <2>1
  <2>3. diffs[i].kind # "Insert"
    BY <1>3, <1>6, <2>1 DEF Stands, IsEdit
  <2>4. diffs[i + 1].kind = "Insert"
    BY <1>2, <1>6, <2>1, <2>2, <2>3 DEF IsEdit, DiffRange
  <2>5. Stands(diffs[i + 1], diffs[(i + 1) + 1])
    BY <1>3, <1>6, <2>1, <2>4
  <2> QED
    BY <2>1, <2>5 DEF Stands, IsEdit
<1>7. ASSUME NEW i \in DOMAIN diffs, i + 1 \in DOMAIN diffs, IsEdit(diffs[i]), ~IsEdit(diffs[i + 1])
      PROVE  DownLen(diffs[i], diffs[i + 1]) = 0
  <2>1. diffs[i].kind \in {"Delete", "Insert"} /\ diffs[i + 1].kind = "Equal"
    BY <1>2, <1>7 DEF IsEdit, DiffRange
  <2>2. CASE diffs[i].kind = "Insert"
    BY <1>3, <1>7, <2>2 DEF Stands
  <2>3. CASE diffs[i].kind = "Delete"
    <3> DEFINE this == diffs[i]
               next == diffs[i + 1]
    <3>1. /\ this \in DiffRange /\ next \in Matching(old, new) /\ next \in DiffRange
          /\ this.kind = "Delete" /\ next.kind = "Equal" /\ IsEdit(this) /\ ~IsEdit(next)
      BY <1>2, <1>7, <2>1, <2>3
    <3>2. next.old.offset = RangeEnd(this.old) /\ RangeEnd(next.old) <= Len(old)
      BY <1>4, <1>7, <2>1, <2>3 DEF InOld
    <3>3. Firm(this)
      BY <1>1, <2>3 DEF FirmDeletes
    <3> HIDE DEF this, next
    <3>4. /\ LenOf(this) = this.old.len /\ LenOf(next) = next.old.len
          /\ next.old.len \in Nat /\ next.old.offset \in Nat
      BY <3>1, ItemLens
    <3>5. CASE LenOf(this) = 0 \/ LenOf(next) = 0
      BY <3>1, <3>5, DownLenZero DEF this, next
    <3>6. CASE LenOf(this) # 0 /\ LenOf(next) # 0
      <4>1. RangeEnd(this.old) < Len(old)
        <5>1. RangeEnd(next.old) = next.old.offset + next.old.len /\ next.old.len > 0
          BY <3>4, <3>6 DEF RangeEnd
        <5>2. Len(old) \in Nat
          <6>1. Len(old) = 0 + OldUpTo(diffs, Len(diffs)) /\ OldUpTo(diffs, Len(diffs)) \in Nat
            BY <1>1, <1>2, UpToType DEF Good, Leads, Path
          <6> QED
            BY <6>1
        <5> QED
          BY <3>2, <3>4, <5>1, <5>2
      <4>2. old[this.old.offset + 1] # old[next.old.offset + 1]
        BY <3>2, <3>3, <3>4, <3>6, <4>1 DEF Firm
      <4>3. old[next.old.offset + 1] = new[next.new.offset + 1]
        <5>1. 1 \in 1..next.old.len
          BY <3>4, <3>6
        <5> QED
          BY <3>1, <5>1 DEF Matching
      <4>4. Blocked(this, next)
        BY <3>1, <4>2, <4>3 DEF Blocked
      <4> QED
        BY <3>1, <4>4, DownLenZero DEF this, next
    <3> QED
      BY <3>5, <3>6
  <2> QED
    BY <2>1, <2>2, <2>3
<1> QED
  BY <1>5, <1>6, <1>7 DEF Has, HasEqual

-----------------------------------------------------------------------------
(* What diff_slice() promises *)

(***************************************************************************)
(* In all of diff_slice(), too, the search stays inside its arrays, its    *)
(* cells hold the furthest points, it finds where to split, and its        *)
(* recursion covers both texts.                                            *)
(***************************************************************************)
THEOREM SearchCorrect ==
  DSSpec => [](TypeOK /\ VIndexInBounds /\ FurthestReaching /\ SearchMeets /\ Partition)
<1>1. DSInv => TypeOK /\ VIndexInBounds /\ FurthestReaching /\ SearchMeets /\ Partition
  BY InvInBounds, SoundIsFurthest, SoundMeets, TiledPartition DEF DSInv, SearchInv, Inv
<1> QED
  BY <1>1, DSInvHolds, PTL

(***************************************************************************)
(* And what it emits is always the beginning of a shortest edit script.    *)
(***************************************************************************)
THEOREM SearchEmitsShortestScript == DSSpec => EmitsShortestScript
<1>1. DSInv /\ DSInv' /\ [DSNext]_dvars => [Script!Emit]_(Script!svars)
  <2> SUFFICES ASSUME DSInv, DSInv', [DSNext]_dvars PROVE [Script!Emit]_(Script!svars)
    OBVIOUS
  <2>1. SearchInv /\ SearchInv' /\ CompactInv
    BY DEF DSInv
  <2>2. CASE Search \/ StartCompact
    BY <2>1, <2>2, NextEmits DEF Search, StartCompact
  <2>3. CASE CompactStep
    BY <2>1, <2>3, CompactNextRight DEF CompactStep, texts, Script!svars
  <2>4. CASE UNCHANGED dvars
    BY <2>4 DEF dvars, vars, Script!svars
  <2> QED
    BY <2>2, <2>3, <2>4 DEF DSNext
<1>2. DSInit => Script!Init
  BY InitEmits DEF DSInit
<1> QED
  BY <1>1, <1>2, DSInvHolds, PTL DEF DSSpec, EmitsShortestScript, Script!Safety

(***************************************************************************)
(* Whatever alignment compact() is given and however long it is, an edit   *)
(* that is shifted stays where the pointer is: the arms that panic on a    *)
(* range of another kind are never reached.                                *)
(***************************************************************************)
THEOREM CompactTypeCorrect == DSSpec => []CompactTypeOK
<1>1. DSInv => CompactTypeOK
  BY DEF DSInv, CompactInv
<1> QED
  BY <1>1, DSInvHolds, PTL

(***************************************************************************)
(* Whatever alignment compact() is given, after every shift, swap, merge   *)
(* and drop the list still describes how the one text becomes the other.   *)
(***************************************************************************)
THEOREM CompactionAligns == DSSpec => []StaysAligned
<1>1. DSInv => StaysAligned
  BY GoodAligns DEF DSInv
<1> QED
  BY <1>1, DSInvHolds, PTL

(***************************************************************************)
(* Whatever alignment compact() is given, no step makes the edit script    *)
(* longer or shorter.                                                      *)
(***************************************************************************)
THEOREM CompactionKeepsCost == DSSpec => KeepsCost
<1>1. DSInv /\ [DSNext]_dvars => [KeepsCostStep]_cvars
  <2> SUFFICES ASSUME DSInv, [DSNext]_dvars, mode # "idle" PROVE Cost(diffs') = Cost(diffs)
    BY DEF KeepsCostStep
  <2>1. CASE UNCHANGED dvars
    BY <2>1 DEF dvars, compactVars
  <2>2. CASE CompactStep
    BY <2>2, CompactNextRight DEF CompactStep, DSInv, ArmRight
  <2> QED
    BY <2>1, <2>2 DEF DSNext, Search, StartCompact
<1> QED
  BY <1>1, DSInvHolds, PTL DEF DSSpec, KeepsCost

(***************************************************************************)
(* Whatever alignment compact() is given and in whatever order its two     *)
(* passes meet the edits, in the end every block of edits is one Delete,   *)
(* one Insert or one of each, and none can be shifted down any further.    *)
(***************************************************************************)
THEOREM CompactionSettles == DSSpec => []Settled
<1>1. DSInv /\ SettledInv => Settled
  BY StoodSettled DEF DSInv
<1> QED
  BY <1>1, InitSettled, NextSettled, DSInvHolds, PTL DEF DSSpec

(***************************************************************************)
(* What create_patch() and merge() take from diff_slice(): whatever the    *)
(* texts are, the list it returns aligns them at minimal cost, has no      *)
(* empty item and no edit next to one of its own kind.  This is what the   *)
(* assumption of Merge says of Solutions.                                  *)
(***************************************************************************)
THEOREM DiffSliceReturnsDiff == DSSpec => []ReturnsDiff
<1>1. DSInit => ShortAndSolid
  BY DEF DSInit, ShortAndSolid
<1>2. DSInv /\ ShortAndSolid /\ Settled => ReturnsDiff
  <2> SUFFICES ASSUME DSInv, ShortAndSolid, Settled, mode = "done", ~given
               PROVE  IsDiff(diffs, old, new)
    BY DEF ReturnsDiff
  <2>1. Aligns(diffs, old, new)
    BY GoodAligns DEF DSInv, StaysAligned
  <2>2. diffs \in Seq(DiffRange) /\ DOMAIN diffs = 1..Len(diffs) /\ Len(diffs) \in Nat
    BY DEF DSInv, CompactInv, CompactTypeOK
  <2>3. Cost(diffs) = EditDistance(old, new) /\ \A i \in 1..Len(diffs) : ~IsEmpty(diffs[i])
    BY DEF ShortAndSolid, Solid
  <2>4. ASSUME NEW i \in DOMAIN diffs, i > 1, IsEdit(diffs[i])
        PROVE  diffs[i].kind # diffs[i - 1].kind
    <3>1. i - 1 \in DOMAIN diffs /\ (i - 1) + 1 = i
      BY <2>2, <2>4
    <3>2. IsEdit(diffs[i - 1]) => diffs[i].kind # diffs[i - 1].kind
      BY <3>1 DEF Settled, Has
    <3> QED
      BY <2>4, <3>2 DEF IsEdit
  <2> QED
    BY <2>1, <2>2, <2>3, <2>4 DEF IsDiff
<1> QED
  BY <1>1, <1>2, NextShortAndSolid, DSInvHolds, CompactionSettles, PTL DEF DSSpec

=============================================================================
