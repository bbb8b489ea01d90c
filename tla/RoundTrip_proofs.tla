--------------------------- MODULE RoundTrip_proofs ---------------------------
(***************************************************************************)
(* That to_hunks() cannot panic, that its hunks describe the change and    *)
(* have the context asked for; what apply() keeps of any patch it is       *)
(* given; and that a patch made by create_patch with context, or its       *)
(* reverse, leads from the text it was made of to the other one.  For      *)
(* texts of any length, any diff of them and any amount of context.        *)
(***************************************************************************)
EXTENDS RoundTrip, Alignments_proofs


-----------------------------------------------------------------------------
(* Stretches of equal lines *)

(* What lies between x and u in s is what lies between y and v in t. *)
Gap(s, t, x, y, u, v) ==
  /\ x \in Nat /\ y \in Nat /\ u \in Nat /\ v \in Nat
  /\ x <= u /\ y <= v /\ u - x = v - y
  /\ u <= Len(s) /\ v <= Len(t)
  /\ \A j \in 1..u - x : s[x + j] = t[y + j]

(* No lines at all are equal, *)
LEMMA GapEmpty ==
  ASSUME NEW s, NEW t, NEW x \in Nat, NEW y \in Nat, x <= Len(s), y <= Len(t)
  PROVE  Gap(s, t, x, y, x, y)
BY DEF Gap

(* two stretches that meet are one, *)
LEMMA GapJoin ==
  ASSUME NEW s, NEW t, NEW x, NEW y, NEW u, NEW v, NEW p, NEW q,
         Gap(s, t, x, y, u, v), Gap(s, t, u, v, p, q)
  PROVE  Gap(s, t, x, y, p, q)
<1>1. /\ x \in Nat /\ y \in Nat /\ u \in Nat /\ v \in Nat /\ p \in Nat /\ q \in Nat
      /\ x <= u /\ y <= v /\ u - x = v - y /\ u <= p /\ v <= q /\ p - u = q - v
      /\ p <= Len(s) /\ q <= Len(t)
  BY DEF Gap
<1>2. ASSUME NEW j \in 1..p - x PROVE s[x + j] = t[y + j]
  <2>1. CASE j <= u - x
    <3>1. j \in 1..u - x
      BY <1>1, <2>1
    <3> QED
      BY <3>1 DEF Gap
  <2>2. CASE j > u - x
    <3> DEFINE k == j - (u - x)
    <3>1. k \in 1..p - u /\ u + k = x + j /\ v + k = y + j
      BY <1>1, <2>2
    <3>2. s[u + k] = t[v + k]
      BY <3>1 DEF Gap
    <3> QED
      BY <3>1, <3>2
  <2> QED
    BY SMTT(60), <1>1, <2>1, <2>2
<1> QED
  BY <1>1, <1>2 DEF Gap

(* a stretch that is cut is two, *)
LEMMA GapCut ==
  ASSUME NEW s, NEW t, NEW x, NEW y, NEW u, NEW v, NEW p, NEW q,
         Gap(s, t, x, y, u, v), Len(s) \in Nat, Len(t) \in Nat,
         p \in Nat, q \in Nat, x <= p, p <= u, p - x = q - y
  PROVE  Gap(s, t, x, y, p, q) /\ Gap(s, t, p, q, u, v)
<1>1. /\ x \in Nat /\ y \in Nat /\ u \in Nat /\ v \in Nat
      /\ x <= u /\ y <= v /\ u - x = v - y /\ u <= Len(s) /\ v <= Len(t)
  BY DEF Gap
<1> DEFINE l == p - x
<1>2. l \in 0..u - x /\ p = x + l /\ q = y + l
  BY <1>1
<1> HIDE DEF l
<1>3. \A j \in 1..u - x : s[x + j] = t[y + j]
  BY DEF Gap
<1>4. x <= p /\ p <= u /\ y <= q /\ q <= v /\ p <= Len(s) /\ q <= Len(t) /\ u - p = v - q
  BY <1>1, <1>2
<1>5. ASSUME NEW j \in 1..p - x PROVE s[x + j] = t[y + j]
  <2>1. j \in 1..u - x
    BY <1>1, <1>4
  <2> QED
    BY <1>3, <2>1
<1>6. Gap(s, t, x, y, p, q)
  BY <1>1, <1>4, <1>5 DEF Gap
<1>7. ASSUME NEW j \in 1..u - p PROVE s[p + j] = t[q + j]
  <2>1. l + j \in 1..u - x /\ x + (l + j) = p + j /\ y + (l + j) = q + j
    BY <1>1, <1>2
  <2> QED
    BY <1>3, <2>1
<1>8. Gap(s, t, p, q, u, v)
  BY <1>1, <1>4, <1>7 DEF Gap
<1> QED
  BY <1>6, <1>8

(* and the other way around they are as equal. *)
LEMMA GapTurned ==
  ASSUME NEW s, NEW t, NEW x, NEW y, NEW u, NEW v, Gap(s, t, x, y, u, v)
  PROVE  Gap(t, s, y, x, v, u)
BY DEF Gap

(* The part of a text between two places. *)
LEMMA Piece ==
  ASSUME NEW T, NEW s \in Seq(T), NEW x \in Nat, NEW u \in Nat, x <= u, u <= Len(s)
  PROVE  /\ SubSeq(s, x + 1, u) \in Seq(T) /\ Len(SubSeq(s, x + 1, u)) = u - x
         /\ SubSeq(s, x + 1, u) = [i \in 1..u - x |-> s[x + i]]
<1>1. SubSeq(s, x + 1, u) = [i \in 1..(u - (x + 1) + 1) |-> s[(x + 1) + i - 1]]
  OBVIOUS
<1>2. u - (x + 1) + 1 = u - x /\ \A i \in 1..u - x : (x + 1) + i - 1 = x + i
  OBVIOUS
<1>3. SubSeq(s, x + 1, u) = [i \in 1..u - x |-> s[x + i]]
  BY <1>1, <1>2
<1>4. [i \in 1..u - x |-> s[x + i]] \in [1..u - x -> T]
  <2>1. \A i \in 1..u - x : x + i \in 1..Len(s)
    OBVIOUS
  <2> QED
    BY <2>1
<1>5. u - x \in Nat
  OBVIOUS
<1> QED
  BY <1>3, <1>4, <1>5, RowIsSeq

(* Two parts that meet are one. *)
LEMMA PieceJoin ==
  ASSUME NEW T, NEW s \in Seq(T), NEW x \in Nat, NEW u \in Nat, NEW p \in Nat,
         x <= u, u <= p, p <= Len(s)
  PROVE  SubSeq(s, x + 1, p) = Join(SubSeq(s, x + 1, u), SubSeq(s, u + 1, p))
<1> DEFINE a == SubSeq(s, x + 1, u)
           b == SubSeq(s, u + 1, p)
           c == SubSeq(s, x + 1, p)
<1>1. Len(s) \in Nat
  OBVIOUS
<1>2. a \in Seq(T) /\ Len(a) = u - x /\ a = [i \in 1..u - x |-> s[x + i]]
  BY <1>1, Piece
<1>3. b \in Seq(T) /\ Len(b) = p - u /\ b = [i \in 1..p - u |-> s[u + i]]
  BY <1>1, Piece
<1>4. c \in Seq(T) /\ Len(c) = p - x /\ c = [i \in 1..p - x |-> s[x + i]]
  BY <1>1, Piece
<1> HIDE DEF a, b, c
<1>5. Len(c) = Len(a) + Len(b)
  BY <1>2, <1>3, <1>4
<1>6. \A i \in 1..Len(a) : c[i] = a[i]
  BY <1>2, <1>4
<1>7. ASSUME NEW i \in 1..Len(b) PROVE c[Len(a) + i] = b[i]
  <2>1. Len(a) + i \in 1..p - x /\ i \in 1..p - u /\ x + (Len(a) + i) = u + i
    BY <1>2, <1>3
  <2> QED
    BY <1>3, <1>4, <2>1
<1>8. c = a \o b
  BY <1>2, <1>3, <1>4, <1>5, <1>6, <1>7, ConcatElements
<1> QED
  BY <1>8 DEF a, b, c, Join

(* Equal stretches are the same text. *)
SameText(s, t, x, y, u, v) == SubSeq(s, x + 1, u) = SubSeq(t, y + 1, v)

(* What lies in a gap is the same piece of both texts. *)
LEMMA GapPiece ==
  ASSUME NEW T, NEW s \in Seq(T), NEW t \in Seq(T), NEW x, NEW y, NEW u, NEW v,
         Gap(s, t, x, y, u, v)
  PROVE  SameText(s, t, x, y, u, v)
<1>1. /\ x \in Nat /\ y \in Nat /\ u \in Nat /\ v \in Nat
      /\ x <= u /\ y <= v /\ u - x = v - y /\ u <= Len(s) /\ v <= Len(t)
      /\ \A j \in 1..u - x : s[x + j] = t[y + j]
  BY DEF Gap
<1> DEFINE a == SubSeq(s, x + 1, u)
           b == SubSeq(t, y + 1, v)
<1>2. a \in Seq(T) /\ Len(a) = u - x /\ a = [i \in 1..u - x |-> s[x + i]]
  BY SMTT(60), <1>1, Piece
<1>3. b \in Seq(T) /\ Len(b) = v - y /\ b = [i \in 1..v - y |-> t[y + i]]
  BY <1>1, Piece
<1> HIDE DEF a, b
<1>4. a = b
  BY <1>1, <1>2, <1>3
<1> QED
  BY <1>4 DEF a, b, SameText

-----------------------------------------------------------------------------
(* The items of a solution *)

(* One item, between the places that those before it lead to and its own. *)
LEMMA ItemGap ==
  ASSUME NEW s, NEW t, NEW ds \in Seq(DiffRange), Aligns(ds, s, t),
         \A i \in DOMAIN ds : ~IsEmpty(ds[i]), NEW i \in 1..Len(ds), NEW a, NEW b,
         a = OldUpTo(ds, i - 1), b = NewUpTo(ds, i - 1)
  PROVE  /\ ds[i] \in DiffRange /\ a \in Nat /\ b \in Nat
         /\ a + OldLen(ds[i]) = OldUpTo(ds, i) /\ b + NewLen(ds[i]) = NewUpTo(ds, i)
         /\ a + OldLen(ds[i]) <= Len(s) /\ b + NewLen(ds[i]) <= Len(t)
         /\ IsEdit(ds[i]) => OldLen(ds[i]) + NewLen(ds[i]) > 0
         /\ ~IsEdit(ds[i]) => /\ OldLen(ds[i]) > 0
                              /\ Gap(s, t, a, b, a + OldLen(ds[i]), b + NewLen(ds[i]))
<1> DEFINE d == ds[i]
<1>1. /\ Contiguous(ds, s, t) /\ Covers(ds, s, t) /\ EquatesEqual(ds, s, t)
      /\ d \in DiffRange /\ i \in DOMAIN ds /\ ~IsEmpty(d)
      /\ i - 1 \in 0..Len(ds) /\ i \in 0..Len(ds) /\ Len(ds) \in Nat
  BY DEF Aligns
<1>2. a \in Nat /\ b \in Nat
  BY <1>1, UpToType
<1>3. a + OldLen(d) = OldUpTo(ds, i) /\ b + NewLen(d) = NewUpTo(ds, i)
  BY UpToNext
<1>4. OldUpTo(ds, i) <= OldUpTo(ds, Len(ds)) /\ NewUpTo(ds, i) <= NewUpTo(ds, Len(ds))
  BY <1>1, UpToType
<1>5. a + OldLen(d) <= Len(s) /\ b + NewLen(d) <= Len(t)
  BY <1>1, <1>3, <1>4 DEF Covers
<1>6. /\ d.old.offset \in Nat /\ d.old.len \in Nat /\ d.new.offset \in Nat /\ d.new.len \in Nat
      /\ d.kind \in {"Equal", "Delete", "Insert"}
  BY <1>1 DEF DiffRange, Ranges
<1>7. IsEdit(d) => OldLen(d) + NewLen(d) > 0
  BY <1>1, <1>6 DEF IsEdit, IsEmpty, LenOf, Inner, OldLen, NewLen, InOld, InNew
<1>8. ASSUME ~IsEdit(d)
      PROVE  OldLen(d) > 0 /\ Gap(s, t, a, b, a + OldLen(d), b + NewLen(d))
  <2>1. d \in Matching(s, t)
    <3>1. ds \in Seq(Matching(s, t))
      BY <1>1, EquatesMatching
    <3> QED
      BY <3>1
  <2>2. /\ d.old.len = d.new.len
        /\ \A j \in 1..d.old.len : s[d.old.offset + j] = t[d.new.offset + j]
    BY <1>8, <2>1 DEF Matching
  <2>3. OldLen(d) = d.old.len /\ NewLen(d) = d.new.len /\ InOld(d) /\ InNew(d)
    BY <1>8 DEF OldLen, NewLen, InOld, InNew, IsEdit
  <2>4. d.old.offset = a /\ d.new.offset = b
    BY <1>1, <2>3 DEF Contiguous
  <2>5. d.old.len > 0
    BY <1>1, <1>6, <2>3 DEF IsEmpty, LenOf, Inner
  <2> QED
    BY SMTT(60), <1>2, <1>5, <1>6, <2>2, <2>3, <2>4, <2>5 DEF Gap
<1> QED
  BY <1>1, <1>2, <1>3, <1>5, <1>7, <1>8

-----------------------------------------------------------------------------
(* The edit script *)

Edits == [old : Ranges, new : Ranges]

(* Where the first i edits of a script end. *)
OldEnd(sc, i) == IF i = 0 THEN 0 ELSE RangeEnd(sc[i].old)
NewEnd(sc, i) == IF i = 0 THEN 0 ELSE RangeEnd(sc[i].new)

(***************************************************************************)
(* An edit that comes after the first i of a script: it changes something, *)
(* what lies between it and the edit before is equal, and that is at least *)
(* one line.                                                               *)
(***************************************************************************)
Follows(s, t, sc, i, e) ==
  /\ e \in Edits /\ e.old.len + e.new.len > 0
  /\ RangeEnd(e.old) <= Len(s) /\ RangeEnd(e.new) <= Len(t)
  /\ Gap(s, t, OldEnd(sc, i), NewEnd(sc, i), e.old.offset, e.new.offset)
  /\ i # 0 => OldEnd(sc, i) < e.old.offset

Chained(s, t, sc) == sc \in Seq(Edits) /\ \A i \in 1..Len(sc) : Follows(s, t, sc, i - 1, sc[i])

(* A whole script: what is left after its last edit is equal as well. *)
GoodScript(s, t, sc) ==
  /\ Chained(s, t, sc)
  /\ Gap(s, t, OldEnd(sc, Len(sc)), NewEnd(sc, Len(sc)), Len(s), Len(t))

EndsWith(sc, e) ==
  OldEnd(sc, Len(sc)) = RangeEnd(e.old) /\ NewEnd(sc, Len(sc)) = RangeEnd(e.new)

(* One edit more that follows the last one of a script. *)
LEMMA ChainAppend ==
  ASSUME NEW s, NEW t, NEW sc, Chained(s, t, sc), NEW e, Follows(s, t, sc, Len(sc), e),
         NEW more, Longer(more, sc, e)
  PROVE  /\ Chained(s, t, more) /\ Len(more) = Len(sc) + 1 /\ Len(sc) \in Nat
         /\ EndsWith(more, e)
<1>1. sc \in Seq(Edits) /\ e \in Edits
  BY DEF Chained, Follows
<1>2. /\ more \in Seq(Edits) /\ Len(more) = Len(sc) + 1 /\ Len(sc) \in Nat
      /\ more[Len(sc) + 1] = e /\ \A i \in 1..Len(sc) : more[i] = sc[i]
  BY <1>1, AppendElements DEF Longer
<1>3. \A i \in 0..Len(sc) : OldEnd(more, i) = OldEnd(sc, i) /\ NewEnd(more, i) = NewEnd(sc, i)
  BY <1>2 DEF OldEnd, NewEnd
<1>4. ASSUME NEW i \in 1..Len(more) PROVE Follows(s, t, more, i - 1, more[i])
  <2>1. i - 1 \in 0..Len(sc)
    BY <1>2
  <2>2. OldEnd(more, i - 1) = OldEnd(sc, i - 1) /\ NewEnd(more, i - 1) = NewEnd(sc, i - 1)
    BY <1>3, <2>1
  <2>3. Follows(s, t, sc, i - 1, more[i])
    <3>1. CASE i = Len(sc) + 1
      <4>1. i - 1 = Len(sc) /\ more[i] = e
        BY <1>2, <3>1
      <4> QED
        BY <4>1
    <3>2. CASE i # Len(sc) + 1
      <4>1. i \in 1..Len(sc) /\ more[i] = sc[i]
        BY <1>2, <3>2
      <4> QED
        BY <4>1 DEF Chained
    <3> QED
      BY <3>1, <3>2
  <2> QED
    BY <2>2, <2>3 DEF Follows
<1>5. EndsWith(more, e)
  BY <1>2 DEF OldEnd, NewEnd, EndsWith
<1> QED
  BY <1>2, <1>4, <1>5 DEF Chained

(* What the loop of build_edit_script has gathered when it has come to (acc.a, acc.b). *)
GatherInv(s, t, acc) ==
  /\ Chained(s, t, acc.script)
  /\ \/ /\ acc.open = <<>>
        /\ Gap(s, t, OldEnd(acc.script, Len(acc.script)), NewEnd(acc.script, Len(acc.script)),
               acc.a, acc.b)
        /\ Len(acc.script) # 0 => OldEnd(acc.script, Len(acc.script)) < acc.a
     \/ \E e \in Edits : /\ acc.open = <<e>>
                         /\ Follows(s, t, acc.script, Len(acc.script), e)
                         /\ RangeEnd(e.old) = acc.a /\ RangeEnd(e.new) = acc.b

(* The cases of one turn of the loop: an equal item, *)
LEMMA AddEqualFields ==
  ASSUME NEW acc, NEW diff, ~IsEdit(diff)
  PROVE  /\ AddDiff(acc, diff).a = acc.a + OldLen(diff)
         /\ AddDiff(acc, diff).b = acc.b + NewLen(diff)
         /\ AddDiff(acc, diff).open = <<>>
         /\ AddDiff(acc, diff).script = acc.script \o acc.open
BY DEF AddDiff

(* an item that opens an edit *)
LEMMA AddFirstFields ==
  ASSUME NEW acc, NEW diff, IsEdit(diff), acc.open = <<>>
  PROVE  /\ AddDiff(acc, diff).a = acc.a + OldLen(diff)
         /\ AddDiff(acc, diff).b = acc.b + NewLen(diff)
         /\ AddDiff(acc, diff).open = <<[old |-> MkRange(acc.a, OldLen(diff)),
                                         new |-> MkRange(acc.b, NewLen(diff))]>>
         /\ AddDiff(acc, diff).script = acc.script
BY DEF AddDiff

(* and one that makes it longer. *)
LEMMA AddMoreFields ==
  ASSUME NEW acc, NEW diff, NEW e, IsEdit(diff), acc.open = <<e>>
  PROVE  /\ AddDiff(acc, diff).a = acc.a + OldLen(diff)
         /\ AddDiff(acc, diff).b = acc.b + NewLen(diff)
         /\ AddDiff(acc, diff).open = <<[old |-> GrowDown(e.old, OldLen(diff)),
                                         new |-> GrowDown(e.new, NewLen(diff))]>>
         /\ AddDiff(acc, diff).script = acc.script
<1>1. acc.open # <<>> /\ acc.open[1] = e
  OBVIOUS
<1> QED
  BY <1>1 DEF AddDiff

(* An open edit counts as the last of the script. *)
LEMMA CloseEdit ==
  ASSUME NEW s, NEW t, NEW acc, GatherInv(s, t, acc), NEW sc, sc = acc.script \o acc.open
  PROVE  /\ Chained(s, t, sc) /\ Len(sc) \in Nat
         /\ Gap(s, t, OldEnd(sc, Len(sc)), NewEnd(sc, Len(sc)), acc.a, acc.b)
<1>0. acc.script \in Seq(Edits) /\ Chained(s, t, acc.script)
  BY DEF GatherInv, Chained
<1>1. CASE acc.open = <<>>
  <2>1. sc = acc.script
    BY <1>0, <1>1, WholeSeq
  <2>2. Gap(s, t, OldEnd(sc, Len(sc)), NewEnd(sc, Len(sc)), acc.a, acc.b)
    <3>1. ~ \E e \in Edits : acc.open = <<e>>
      BY <1>1
    <3> QED
      BY <2>1, <3>1 DEF GatherInv
  <2>3. Len(sc) \in Nat
    BY <1>0, <2>1
  <2> QED
    BY <1>0, <2>1, <2>2, <2>3
<1>2. CASE acc.open # <<>>
  <2>1. PICK e \in Edits : /\ acc.open = <<e>>
                           /\ Follows(s, t, acc.script, Len(acc.script), e)
                           /\ RangeEnd(e.old) = acc.a /\ RangeEnd(e.new) = acc.b
    BY <1>2 DEF GatherInv
  <2>2. Longer(sc, acc.script, e)
    BY <1>0, <2>1, AppendIsConcat DEF Longer
  <2>3. /\ Chained(s, t, sc) /\ Len(sc) = Len(acc.script) + 1 /\ Len(acc.script) \in Nat
        /\ OldEnd(sc, Len(sc)) = RangeEnd(e.old) /\ NewEnd(sc, Len(sc)) = RangeEnd(e.new)
    <3> DEFINE before == acc.script
    <3>1. Chained(s, t, before) /\ Follows(s, t, before, Len(before), e) /\ Longer(sc, before, e)
      BY <1>0, <2>1, <2>2
    <3> HIDE DEF before
    <3>2. Chained(s, t, sc)
      BY <3>1, ChainAppend
    <3>3. Len(sc) = Len(before) + 1
      BY ZenonT(60), <3>1, ChainAppend
    <3>4. Len(before) \in Nat
      BY <3>1, ChainAppend
    <3>5. EndsWith(sc, e)
      BY <3>1, ChainAppend
    <3> QED
      BY <3>2, <3>3, <3>4, <3>5 DEF before, EndsWith
  <2>4. /\ acc.a \in Nat /\ acc.b \in Nat /\ acc.a <= Len(s) /\ acc.b <= Len(t)
    BY <2>1 DEF Follows, RangeEnd, Edits, Ranges
  <2>5. Gap(s, t, acc.a, acc.b, acc.a, acc.b)
    BY <2>4, GapEmpty
  <2> QED
    BY <2>1, <2>3, <2>5
<1> QED
  BY <1>1, <1>2

(* An edit that has become longer. *)
LEMMA GrownEdit ==
  ASSUME NEW e \in Edits, NEW o \in Nat, NEW n \in Nat, NEW f,
         f = [old |-> GrowDown(e.old, o), new |-> GrowDown(e.new, n)]
  PROVE  /\ f \in Edits /\ f.old.offset = e.old.offset /\ f.new.offset = e.new.offset
         /\ RangeEnd(f.old) = RangeEnd(e.old) + o /\ RangeEnd(f.new) = RangeEnd(e.new) + n
         /\ e.old.len + e.new.len > 0 => f.old.len + f.new.len > 0
<1>1. /\ e.old.offset \in Nat /\ e.old.len \in Nat /\ e.new.offset \in Nat /\ e.new.len \in Nat
  BY DEF Edits, Ranges
<1>2. f.old = MkRange(e.old.offset, e.old.len + o) /\ f.new = MkRange(e.new.offset, e.new.len + n)
  BY DEF GrowDown
<1>3. f.old \in Ranges /\ f.new \in Ranges
  BY <1>1, <1>2 DEF Ranges, MkRange
<1>4. f \in Edits
  BY <1>3 DEF Edits
<1> QED
  BY <1>1, <1>2, <1>4 DEF MkRange, RangeEnd

(* One turn of the loop. *)
LEMMA AddDiffGathers ==
  ASSUME NEW s, NEW t, NEW acc, GatherInv(s, t, acc), NEW diff, NEW r, r = AddDiff(acc, diff),
         acc.a \in Nat, acc.b \in Nat, OldLen(diff) \in Nat, NewLen(diff) \in Nat,
         Len(s) \in Nat, Len(t) \in Nat,
         acc.a + OldLen(diff) <= Len(s), acc.b + NewLen(diff) <= Len(t),
         IsEdit(diff) => OldLen(diff) + NewLen(diff) > 0,
         ~IsEdit(diff) => /\ OldLen(diff) > 0
                          /\ Gap(s, t, acc.a, acc.b, acc.a + OldLen(diff), acc.b + NewLen(diff))
  PROVE  GatherInv(s, t, r)
<1> DEFINE o == OldLen(diff)
           n == NewLen(diff)
           sc == acc.script
<1>0. /\ o \in Nat /\ n \in Nat /\ acc.a + o <= Len(s) /\ acc.b + n <= Len(t)
      /\ IsEdit(diff) => o + n > 0
      /\ ~IsEdit(diff) => o > 0 /\ Gap(s, t, acc.a, acc.b, acc.a + o, acc.b + n)
      /\ Chained(s, t, sc)
  BY DEF GatherInv
<1>00. o \in Nat /\ n \in Nat
  OBVIOUS
<1>1. CASE ~IsEdit(diff)
  <2> DEFINE more == r.script
  <2>1. more = acc.script \o acc.open /\ r.a = acc.a + o /\ r.b = acc.b + n /\ r.open = <<>>
    BY <1>1, AddEqualFields
  <2>2. /\ Chained(s, t, more) /\ Len(more) \in Nat
        /\ Gap(s, t, OldEnd(more, Len(more)), NewEnd(more, Len(more)), acc.a, acc.b)
    BY <2>1, CloseEdit
  <2> DEFINE x == OldEnd(more, Len(more))
             y == NewEnd(more, Len(more))
  <2>3. Gap(s, t, x, y, acc.a, acc.b) /\ Gap(s, t, acc.a, acc.b, r.a, r.b)
    BY <1>0, <1>1, <2>1, <2>2
  <2> HIDE DEF x, y
  <2>31. Gap(s, t, x, y, r.a, r.b)
    BY <2>3, GapJoin
  <2>32. x <= acc.a /\ x \in Nat
    BY <2>3 DEF Gap
  <2>33. acc.a < r.a
    BY <1>0, <1>1, <2>1
  <2>34. x < r.a
    BY <2>32, <2>33, <2>1, <1>0
  <2>4. /\ Gap(s, t, OldEnd(more, Len(more)), NewEnd(more, Len(more)), r.a, r.b)
        /\ OldEnd(more, Len(more)) < r.a
    BY <2>31, <2>34 DEF x, y
  <2> HIDE DEF o, n, more, sc
  <2> QED
    BY <2>1, <2>2, <2>4 DEF GatherInv, more
<1>2. CASE IsEdit(diff) /\ acc.open = <<>>
  <2> DEFINE e == [old |-> MkRange(acc.a, o), new |-> MkRange(acc.b, n)]
  <2>1. r.open = <<e>> /\ r.script = sc /\ r.a = acc.a + o /\ r.b = acc.b + n
    BY <1>2, AddFirstFields
  <2> HIDE DEF o, n, sc
  <2>2. e \in Edits /\ e.old.offset = acc.a /\ e.old.len = o /\ e.new.offset = acc.b /\ e.new.len = n
    BY <1>0 DEF Edits, Ranges, MkRange
  <2> HIDE DEF e
  <2>3. /\ Gap(s, t, OldEnd(sc, Len(sc)), NewEnd(sc, Len(sc)), acc.a, acc.b)
        /\ Len(sc) # 0 => OldEnd(sc, Len(sc)) < acc.a
    <3>1. ~ \E x \in Edits : acc.open = <<x>>
      BY <1>2
    <3> QED
      BY <3>1 DEF GatherInv, sc
  <2>4. RangeEnd(e.old) = r.a /\ RangeEnd(e.new) = r.b
    BY <2>1, <2>2 DEF RangeEnd
  <2>5. Follows(s, t, sc, Len(sc), e)
    BY <1>0, <1>2, <2>1, <2>2, <2>3, <2>4 DEF Follows
  <2> QED
    BY <1>0, <2>1, <2>2, <2>4, <2>5 DEF GatherInv
<1>3. CASE IsEdit(diff) /\ acc.open # <<>>
  <2>1. PICK e \in Edits : /\ acc.open = <<e>> /\ Follows(s, t, sc, Len(sc), e)
                           /\ RangeEnd(e.old) = acc.a /\ RangeEnd(e.new) = acc.b
    BY <1>3 DEF GatherInv
  <2> DEFINE f == [old |-> GrowDown(e.old, o), new |-> GrowDown(e.new, n)]
  <2>2. r.open = <<f>> /\ r.script = sc /\ r.a = acc.a + o /\ r.b = acc.b + n
    BY <1>3, <2>1, AddMoreFields
  <2> HIDE DEF o, n, sc
  <2>3. f = [old |-> GrowDown(e.old, o), new |-> GrowDown(e.new, n)]
    OBVIOUS
  <2> HIDE DEF f
  <2>4. /\ f \in Edits /\ f.old.offset = e.old.offset /\ f.new.offset = e.new.offset
        /\ RangeEnd(f.old) = RangeEnd(e.old) + o /\ RangeEnd(f.new) = RangeEnd(e.new) + n
        /\ e.old.len + e.new.len > 0 => f.old.len + f.new.len > 0
    BY <1>00, <2>3, GrownEdit
  <2>5. RangeEnd(f.old) = r.a /\ RangeEnd(f.new) = r.b
    BY <2>1, <2>2, <2>4
  <2>6. Follows(s, t, sc, Len(sc), f)
    BY <1>0, <2>1, <2>2, <2>4, <2>5 DEF Follows
  <2> QED
    BY <1>0, <2>2, <2>4, <2>5, <2>6 DEF GatherInv
<1> QED
  BY <1>1, <1>2, <1>3

(* The loop exists: there is a row of what it has after each item. *)
IsGathered(f, ds, n) ==
  f = [i \in 0..n |-> IF i = 0 THEN NoEdits ELSE AddDiff(f[i - 1], ds[i])]

(* A function that takes diff after diff exists, ... *)
LEMMA GatheredExists ==
  ASSUME NEW ds, NEW n \in Nat
  PROVE  \E f : IsGathered(f, ds, n)
<1> DEFINE S == {m \in Nat : \E f : IsGathered(f, ds, m)}
<1>1. 0 \in S
  <2> DEFINE g == [i \in 0..0 |-> NoEdits]
  <2>1. IsGathered(g, ds, 0)
    BY DEF IsGathered
  <2> QED BY <2>1
<1>2. ASSUME NEW m \in Nat, m \in S PROVE m + 1 \in S
  <2>1. PICK f : IsGathered(f, ds, m)
    BY <1>2
  <2> DEFINE g == [i \in 0..m + 1 |-> IF i = m + 1 THEN AddDiff(f[m], ds[m + 1]) ELSE f[i]]
  <2>2. ASSUME NEW i \in 0..m + 1 PROVE g[i] = IF i = 0 THEN NoEdits ELSE AddDiff(g[i - 1], ds[i])
    <3>1. CASE i = m + 1
      <4>1. i # 0 /\ i - 1 \in 0..m + 1 /\ i - 1 = m /\ m # m + 1
        BY <3>1
      <4>2. g[i - 1] = f[m] /\ g[i] = AddDiff(f[m], ds[m + 1])
        BY <3>1, <4>1
      <4> QED
        BY <3>1, <4>1, <4>2
    <3>2. CASE i # m + 1
      <4>1. i \in 0..m /\ g[i] = f[i]
        BY <3>2
      <4>2. f[i] = IF i = 0 THEN NoEdits ELSE AddDiff(f[i - 1], ds[i])
        BY <4>1, <2>1 DEF IsGathered
      <4>3. i # 0 => g[i - 1] = f[i - 1]
        BY <4>1
      <4> QED
        BY <4>1, <4>2, <4>3
    <3> QED BY <3>1, <3>2
  <2>3. IsGathered(g, ds, m + 1)
    BY <2>2 DEF IsGathered
  <2> QED
    BY <2>3
<1> HIDE DEF S
<1>3. n \in S
  BY <1>1, <1>2, NatSetInduction
<1> QED
  BY <1>3 DEF S

(* ... so Gathered, which chooses one, is what the loop has after each of
   them. *)
LEMMA GatheredSteps ==
  ASSUME NEW ds \in Seq(DiffRange)
  PROVE  /\ Gathered(ds)[0] = NoEdits
         /\ \A i \in 1..Len(ds) : Gathered(ds)[i] = AddDiff(Gathered(ds)[i - 1], ds[i])
<1>0. Len(ds) \in Nat
  OBVIOUS
<1>1. IsGathered(Gathered(ds), ds, Len(ds))
  BY <1>0, GatheredExists DEF Gathered, IsGathered
<1> DEFINE f == Gathered(ds)
<1>2. f = [i \in 0..Len(ds) |-> IF i = 0 THEN NoEdits ELSE AddDiff(f[i - 1], ds[i])]
  BY <1>1 DEF IsGathered
<1> HIDE DEF f
<1>3. f[0] = NoEdits
  BY <1>0, <1>2
<1>4. ASSUME NEW i \in 1..Len(ds) PROVE f[i] = AddDiff(f[i - 1], ds[i])
  <2>1. i \in 0..Len(ds) /\ i # 0
    OBVIOUS
  <2> QED
    BY <1>2, <2>1
<1> QED
  BY <1>3, <1>4 DEF f

(* The script of a diff is a good one. *)
LEMMA ScriptIsGood ==
  ASSUME NEW s, NEW t, Len(s) \in Nat, Len(t) \in Nat, NEW ds \in Seq(DiffRange),
         Aligns(ds, s, t), \A i \in DOMAIN ds : ~IsEmpty(ds[i])
  PROVE  GoodScript(s, t, BuildEditScript(ds))
<1> DEFINE acc == Gathered(ds)
           Inv(m) == /\ acc[m].a = OldUpTo(ds, m) /\ acc[m].b = NewUpTo(ds, m)
                     /\ GatherInv(s, t, acc[m])
           S == {m \in Nat : m <= Len(ds) => Inv(m)}
<1>1. Len(ds) \in Nat /\ acc[0] = NoEdits
      /\ \A i \in 1..Len(ds) : acc[i] = AddDiff(acc[i - 1], ds[i])
  BY GatheredSteps
<1>2. 0 \in S
  <2>1. OldUpTo(ds, 0) = 0 /\ NewUpTo(ds, 0) = 0
    BY SumUpToRecurrence DEF OldUpTo, NewUpTo
  <2>2. Gap(s, t, 0, 0, 0, 0)
    BY GapEmpty
  <2>3. GatherInv(s, t, NoEdits)
    <3>1. Len(NoEdits.script) = 0 /\ NoEdits.script \in Seq(Edits) /\ NoEdits.open = <<>>
      BY DEF NoEdits
    <3>2. NoEdits.a = 0 /\ NoEdits.b = 0
      BY DEF NoEdits
    <3> QED
      BY <2>2, <3>1, <3>2 DEF GatherInv, Chained, OldEnd, NewEnd
  <2>4. Inv(0)
    BY <1>1, <2>1, <2>3 DEF NoEdits
  <2> QED
    BY <2>4
<1>3. ASSUME NEW m \in Nat, m \in S PROVE m + 1 \in S
  <2> SUFFICES ASSUME m + 1 <= Len(ds) PROVE Inv(m + 1)
    OBVIOUS
  <2> DEFINE i == m + 1
             c == acc[m]
             r == acc[m + 1]
             d == ds[m + 1]
  <2>1. i \in 1..Len(ds) /\ i - 1 = m
    BY <1>1
  <2>2. c.a = OldUpTo(ds, m) /\ c.b = NewUpTo(ds, m) /\ GatherInv(s, t, c)
    BY <1>1, <1>3
  <2>3. r = AddDiff(c, d)
    BY <1>1, <2>1
  <2> HIDE DEF acc
  <2>4. /\ d \in DiffRange /\ c.a \in Nat /\ c.b \in Nat
        /\ c.a + OldLen(d) = OldUpTo(ds, i) /\ c.b + NewLen(d) = NewUpTo(ds, i)
        /\ c.a + OldLen(d) <= Len(s) /\ c.b + NewLen(d) <= Len(t)
        /\ IsEdit(d) => OldLen(d) + NewLen(d) > 0
        /\ ~IsEdit(d) => /\ OldLen(d) > 0
                         /\ Gap(s, t, c.a, c.b, c.a + OldLen(d), c.b + NewLen(d))
    BY <2>1, <2>2, ItemGap
  <2>5. OldLen(d) \in Nat /\ NewLen(d) \in Nat
    BY <2>4, ItemLens
  <2>6. r.a = c.a + OldLen(d) /\ r.b = c.b + NewLen(d)
    BY <2>3 DEF AddDiff
  <2> HIDE DEF c, r, d
  <2>7. GatherInv(s, t, r)
    BY <2>2, <2>3, <2>4, <2>5, AddDiffGathers
  <2> QED
    BY <2>4, <2>6, <2>7 DEF r
<1>4. Inv(Len(ds))
  <2> HIDE DEF S, Inv
  <2>1. Len(ds) \in S
    BY <1>1, <1>2, <1>3, NatSetInduction
  <2> QED
    BY <1>1, <2>1 DEF S
<1> DEFINE last == acc[Len(ds)]
           sc == BuildEditScript(ds)
<1>5. sc = last.script \o last.open
  BY DEF BuildEditScript
<1>6. GatherInv(s, t, last) /\ last.a = Len(s) /\ last.b = Len(t)
  BY <1>4 DEF Aligns, Covers
<1> HIDE DEF last, sc, acc
<1>7. /\ Chained(s, t, sc) /\ Gap(s, t, OldEnd(sc, Len(sc)), NewEnd(sc, Len(sc)), last.a, last.b)
  BY <1>5, <1>6, CloseEdit
<1> QED
  BY <1>6, <1>7 DEF GoodScript, sc

-----------------------------------------------------------------------------
(* The lines of a hunk *)

(* One image of the lines is made of that of each of them. *)
Row(F, lines) == [i \in 1..Len(lines) |-> F[lines[i]]]
OldPart == [l \in HunkLine |-> OldLine(l)]
NewPart == [l \in HunkLine |-> NewLine(l)]

IsMap(F, T, R) == F \in [T -> R]
IsRow(r, F, lines) == Len(r) = Len(lines) /\ \A i \in 1..Len(lines) : r[i] = F[lines[i]]

(* A line as a row of none or one, on either side. *)
LEMMA LineParts ==
  IsMap(OldPart, HunkLine, Seq(Symbol)) /\ IsMap(NewPart, HunkLine, Seq(Symbol))
<1>1. ASSUME NEW l \in HunkLine PROVE OldLine(l) \in Seq(Symbol) /\ NewLine(l) \in Seq(Symbol)
  <2>1. l.line \in Symbol
    BY DEF HunkLine
  <2>2. <<l.line>> \in Seq(Symbol) /\ <<>> \in Seq(Symbol)
    BY <2>1
  <2> QED
    BY <2>2 DEF OldLine, NewLine
<1> QED
  BY <1>1 DEF OldPart, NewPart, IsMap

(* F of each line in turn is a sequence as long as the lines, ... *)
LEMMA RowType ==
  ASSUME NEW T, NEW R, NEW F, IsMap(F, T, R), NEW lines \in Seq(T)
  PROVE  Row(F, lines) \in Seq(R) /\ IsRow(Row(F, lines), F, lines)
<1>1. Len(lines) \in Nat /\ \A i \in 1..Len(lines) : lines[i] \in T
  OBVIOUS
<1>2. Row(F, lines) \in [1..Len(lines) -> R]
  BY <1>1 DEF Row, IsMap
<1>3. \A i \in 1..Len(lines) : Row(F, lines)[i] = F[lines[i]]
  BY DEF Row
<1>4. Row(F, lines) \in Seq(R) /\ Len(Row(F, lines)) = Len(lines)
  BY <1>1, <1>2, RowIsSeq
<1> QED
  BY <1>3, <1>4 DEF IsRow

(* ... and of lines that are put together the two sequences put together. *)
LEMMA RowConcat ==
  ASSUME NEW T, NEW R, NEW F, IsMap(F, T, R), NEW a \in Seq(T), NEW b \in Seq(T)
  PROVE  Row(F, Join(a, b)) = Join(Row(F, a), Row(F, b))
<1> DEFINE c == Join(a, b)
           ra == Row(F, a)
           rb == Row(F, b)
           rc == Row(F, c)
<1>1. /\ c \in Seq(T) /\ Len(c) = Len(a) + Len(b) /\ Len(a) \in Nat /\ Len(b) \in Nat
      /\ \A i \in 1..Len(a) : c[i] = a[i] /\ i \in 1..Len(c)
      /\ \A i \in 1..Len(b) : c[Len(a) + i] = b[i] /\ Len(a) + i \in 1..Len(c)
  BY DEF Join
<1>2. ra \in Seq(R) /\ IsRow(ra, F, a)
  BY RowType
<1>3. rb \in Seq(R) /\ IsRow(rb, F, b)
  BY RowType
<1> HIDE DEF c
<1>4. rc \in Seq(R) /\ IsRow(rc, F, c)
  BY <1>1, RowType
<1> HIDE DEF ra, rb, rc
<1>5. Len(rc) = Len(ra) + Len(rb)
  BY <1>1, <1>2, <1>3, <1>4 DEF IsRow
<1>6. \A i \in 1..Len(ra) : rc[i] = ra[i]
  BY <1>1, <1>2, <1>4 DEF IsRow
<1>7. ASSUME NEW i \in 1..Len(rb) PROVE rc[Len(ra) + i] = rb[i]
  <2>1. Len(ra) = Len(a) /\ Len(rb) = Len(b) /\ rb[i] = F[b[i]]
    BY <1>2, <1>3 DEF IsRow
  <2>2. Len(a) + i \in 1..Len(c) /\ c[Len(a) + i] = b[i]
    BY <1>1, <2>1
  <2>3. rc[Len(a) + i] = F[c[Len(a) + i]]
    BY <1>4, <2>2 DEF IsRow
  <2> QED
    BY <2>1, <2>2, <2>3
<1>8. rc = ra \o rb
  BY <1>2, <1>3, <1>4, <1>5, <1>6, <1>7, ConcatElements
<1> QED
  BY <1>8 DEF ra, rb, rc, c, Join

(* Both images of a hunk are such sequences, flattened. *)
LEMMA ImageIsRow ==
  ASSUME NEW lines \in Seq(HunkLine)
  PROVE  /\ PreImageOf(lines) = FlattenSeq(Row(OldPart, lines))
         /\ PostImageOf(lines) = FlattenSeq(Row(NewPart, lines))
<1>1. DOMAIN lines = 1..Len(lines) /\ \A i \in 1..Len(lines) : lines[i] \in HunkLine
  OBVIOUS
<1>2. [i \in DOMAIN lines |-> OldLine(lines[i])] = Row(OldPart, lines)
  BY <1>1 DEF Row, OldPart
<1>3. [i \in DOMAIN lines |-> NewLine(lines[i])] = Row(NewPart, lines)
  BY <1>1 DEF Row, NewPart
<1> QED
  BY <1>2, <1>3 DEF PreImageOf, PostImageOf

(* What is flattened has the elements of its parts. *)
LEMMA FlatType ==
  ASSUME NEW T, NEW parts \in Seq(Seq(T))
  PROVE  FlattenSeq(parts) \in Seq(T)
<1>1. <<>> \in Seq(T)
  OBVIOUS
<1> QED
  BY <1>1, FlatAppend

(* The images of lines that are put together are the images put together. *)
LEMMA ImageConcat ==
  ASSUME NEW a \in Seq(HunkLine), NEW b \in Seq(HunkLine)
  PROVE  /\ PreImageOf(Join(a, b)) = Join(PreImageOf(a), PreImageOf(b))
         /\ PostImageOf(Join(a, b)) = Join(PostImageOf(a), PostImageOf(b))
         /\ Join(a, b) \in Seq(HunkLine)
         /\ PreImageOf(a) \in Seq(Symbol) /\ PostImageOf(a) \in Seq(Symbol)
<1> DEFINE T == Seq(Symbol)
           c == Join(a, b)
<1>1. c \in Seq(HunkLine)
  BY JoinAssociates
<1>2. /\ Row(OldPart, a) \in Seq(Seq(Symbol)) /\ Row(OldPart, b) \in Seq(Seq(Symbol))
      /\ Row(NewPart, a) \in Seq(Seq(Symbol)) /\ Row(NewPart, b) \in Seq(Seq(Symbol))
  BY LineParts, RowType
<1>3. Row(OldPart, c) = Join(Row(OldPart, a), Row(OldPart, b))
  BY LineParts, RowConcat
<1>4. Row(NewPart, c) = Join(Row(NewPart, a), Row(NewPart, b))
  BY LineParts, RowConcat
<1> HIDE DEF c
<1>5. /\ PreImageOf(c) = FlattenSeq(Row(OldPart, c)) /\ PostImageOf(c) = FlattenSeq(Row(NewPart, c))
      /\ PreImageOf(a) = FlattenSeq(Row(OldPart, a)) /\ PostImageOf(a) = FlattenSeq(Row(NewPart, a))
      /\ PreImageOf(b) = FlattenSeq(Row(OldPart, b)) /\ PostImageOf(b) = FlattenSeq(Row(NewPart, b))
  BY <1>1, ImageIsRow
<1>6. PreImageOf(c) = Join(PreImageOf(a), PreImageOf(b))
  BY <1>2, <1>3, <1>5, FlatConcat
<1>7. PostImageOf(c) = Join(PostImageOf(a), PostImageOf(b))
  BY <1>2, <1>4, <1>5, FlatConcat
<1>8. PreImageOf(a) \in Seq(Symbol)
  BY <1>2, <1>5, FlatType
<1>9. PostImageOf(a) \in Seq(Symbol)
  BY <1>2, <1>5, FlatType
<1> QED
  BY <1>1, <1>6, <1>7, <1>8, <1>9 DEF c

(* The lines that are taken from a stretch of a text, *)
Taken(lines, kind, text, x, u) ==
  /\ Len(lines) = u - x
  /\ \A i \in 1..u - x : /\ lines[i].kind = kind /\ lines[i].line = text[x + i]
                         /\ lines[i] \in HunkLine

(* The lines of one kind from x to u of a text. *)
LEMMA LinesOfType ==
  ASSUME NEW kind \in LineKinds, NEW text \in Seq(Symbol), NEW x \in Nat, NEW u \in Nat,
         x <= u, u <= Len(text)
  PROVE  /\ LinesOf(kind, text, x, u) \in Seq(HunkLine)
         /\ Taken(LinesOf(kind, text, x, u), kind, text, x, u)
<1> DEFINE lines == LinesOf(kind, text, x, u)
<1>1. Max2(u - x, 0) = u - x /\ u - x \in Nat
  BY DEF Max2
<1>2. lines = [i \in 1..u - x |-> Line(kind, text[x + i])]
  BY <1>1 DEF LinesOf
<1>3. ASSUME NEW i \in 1..u - x
      PROVE  lines[i].kind = kind /\ lines[i].line = text[x + i] /\ lines[i] \in HunkLine
  <2>1. lines[i] = [kind |-> kind, line |-> text[x + i]]
    BY <1>2 DEF Line
  <2>2. text[x + i] \in Symbol
    <3>1. x + i \in 1..Len(text)
      OBVIOUS
    <3> QED
      BY <3>1
  <2> QED
    BY <2>1, <2>2 DEF HunkLine
<1> HIDE DEF lines
<1>4. lines \in [1..u - x -> HunkLine]
  BY <1>2, <1>3
<1>5. lines \in Seq(HunkLine) /\ Len(lines) = u - x
  BY <1>1, <1>4, RowIsSeq
<1> QED
  BY <1>3, <1>5 DEF lines, Taken

(* and their images: the stretch itself, or nothing. *)
LEMMA LinesOfImages ==
  ASSUME NEW kind \in LineKinds, NEW text \in Seq(Symbol), NEW x \in Nat, NEW u \in Nat,
         x <= u, u <= Len(text), NEW lines, lines = LinesOf(kind, text, x, u)
  PROVE  /\ kind # "Insert" => PreImageOf(lines) = SubSeq(text, x + 1, u)
         /\ kind = "Insert" => PreImageOf(lines) = <<>>
         /\ kind # "Delete" => PostImageOf(lines) = SubSeq(text, x + 1, u)
         /\ kind = "Delete" => PostImageOf(lines) = <<>>
<1> DEFINE f == SubSeq(text, x + 1, u)
           n == u - x
           singles == [i \in 1..n |-> <<f[i]>>]
           nones == [i \in 1..n |-> <<>>]
<1>1. /\ lines \in Seq(HunkLine) /\ Len(lines) = n /\ n \in Nat
      /\ \A i \in 1..n : /\ lines[i].kind = kind /\ lines[i].line = text[x + i]
                         /\ lines[i] \in HunkLine
  <2>1. lines \in Seq(HunkLine)
    BY LinesOfType
  <2>2. Taken(lines, kind, text, x, u)
    BY LinesOfType
  <2>3. Len(lines) = n /\ n \in Nat
    BY <2>2 DEF Taken
  <2>4. \A i \in 1..n : lines[i] \in HunkLine
    BY <2>1, <2>3
  <2> QED
    BY <2>1, <2>2, <2>3, <2>4 DEF Taken
<1>2. f \in Seq(Symbol) /\ Len(f) = n /\ f = [i \in 1..n |-> text[x + i]]
  BY Piece
<1> HIDE DEF n, f
<1>3. FlattenSeq(singles) = f
  BY <1>2, FlatSingles
<1>4. FlattenSeq(nones) = <<>>
  BY <1>1, FlatNone
<1>5. \A i \in 1..n : lines[i].line = f[i]
  BY <1>1, <1>2
<1>6. ASSUME kind # "Insert" PROVE PreImageOf(lines) = f
  <2>1. Row(OldPart, lines) = singles
    BY <1>1, <1>5, <1>6 DEF Row, OldPart, OldLine
  <2> QED
    BY <1>1, <1>3, <2>1, ImageIsRow
<1>7. ASSUME kind = "Insert" PROVE PreImageOf(lines) = <<>>
  <2>1. Row(OldPart, lines) = nones
    BY <1>1, <1>7 DEF Row, OldPart, OldLine
  <2> QED
    BY <1>1, <1>4, <2>1, ImageIsRow
<1>8. ASSUME kind # "Delete" PROVE PostImageOf(lines) = f
  <2>1. Row(NewPart, lines) = singles
    BY <1>1, <1>5, <1>8 DEF Row, NewPart, NewLine
  <2> QED
    BY <1>1, <1>3, <2>1, ImageIsRow
<1>9. ASSUME kind = "Delete" PROVE PostImageOf(lines) = <<>>
  <2>1. Row(NewPart, lines) = nones
    BY <1>1, <1>9 DEF Row, NewPart, NewLine
  <2> QED
    BY <1>1, <1>4, <2>1, ImageIsRow
<1> QED
  BY <1>6, <1>7, <1>8, <1>9 DEF f

(***************************************************************************)
(* Lines that say: what stands between x and u in s is replaced by what    *)
(* stands between y and v in t.                                            *)
(***************************************************************************)
Says(s, t, lines, x, y, u, v) ==
  /\ lines \in Seq(HunkLine)
  /\ x \in Nat /\ y \in Nat /\ u \in Nat /\ v \in Nat
  /\ x <= u /\ y <= v /\ u <= Len(s) /\ v <= Len(t)
  /\ PreImageOf(lines) = SubSeq(s, x + 1, u)
  /\ PostImageOf(lines) = SubSeq(t, y + 1, v)

(* What is said of two stretches that meet is said of both together. *)
LEMMA SaysJoin ==
  ASSUME NEW s \in Seq(Symbol), NEW t \in Seq(Symbol), NEW a, NEW b,
         NEW x, NEW y, NEW u, NEW v, NEW p, NEW q,
         Says(s, t, a, x, y, u, v), Says(s, t, b, u, v, p, q)
  PROVE  Says(s, t, Join(a, b), x, y, p, q)
<1>1. /\ a \in Seq(HunkLine) /\ b \in Seq(HunkLine)
      /\ x \in Nat /\ y \in Nat /\ u \in Nat /\ v \in Nat /\ p \in Nat /\ q \in Nat
      /\ x <= u /\ y <= v /\ u <= p /\ v <= q /\ p <= Len(s) /\ q <= Len(t)
  BY DEF Says
<1>2. /\ PreImageOf(a) = SubSeq(s, x + 1, u) /\ PostImageOf(a) = SubSeq(t, y + 1, v)
      /\ PreImageOf(b) = SubSeq(s, u + 1, p) /\ PostImageOf(b) = SubSeq(t, v + 1, q)
  BY DEF Says
<1> DEFINE c == Join(a, b)
<1>3. /\ PreImageOf(c) = Join(PreImageOf(a), PreImageOf(b))
      /\ PostImageOf(c) = Join(PostImageOf(a), PostImageOf(b))
      /\ c \in Seq(HunkLine)
  BY <1>1, ImageConcat
<1>4. SubSeq(s, x + 1, p) = Join(SubSeq(s, x + 1, u), SubSeq(s, u + 1, p))
  BY <1>1, PieceJoin
<1>5. SubSeq(t, y + 1, q) = Join(SubSeq(t, y + 1, v), SubSeq(t, v + 1, q))
  BY SMTT(60), <1>1, PieceJoin
<1> HIDE DEF c
<1>6. PreImageOf(c) = SubSeq(s, x + 1, p)
  BY <1>2, <1>3, <1>4
<1>7. PostImageOf(c) = SubSeq(t, y + 1, q)
  BY <1>2, <1>3, <1>5
<1>8. x <= p /\ y <= q
  BY <1>1
<1>9. Says(s, t, c, x, y, p, q)
  BY <1>1, <1>3, <1>6, <1>7, <1>8 DEF Says
<1> QED
  BY <1>9 DEF c

(* A stretch that is equal is said by its lines as context, *)
LEMMA ContextSays ==
  ASSUME NEW s \in Seq(Symbol), NEW t \in Seq(Symbol), NEW x, NEW y, NEW u, NEW v,
         Gap(s, t, x, y, u, v)
  PROVE  Says(s, t, LinesOf("Context", t, y, v), x, y, u, v)
<1>1. /\ x \in Nat /\ y \in Nat /\ u \in Nat /\ v \in Nat
      /\ x <= u /\ y <= v /\ u <= Len(s) /\ v <= Len(t)
  BY DEF Gap
<1>2. SubSeq(s, x + 1, u) = SubSeq(t, y + 1, v)
  <2>1. SameText(s, t, x, y, u, v)
    BY GapPiece
  <2> QED
    BY <2>1 DEF SameText
<1> DEFINE lines == LinesOf("Context", t, y, v)
<1>3. "Context" \in LineKinds
  BY DEF LineKinds
<1>4. lines \in Seq(HunkLine)
  BY <1>1, <1>3, LinesOfType
<1>5. PreImageOf(lines) = SubSeq(t, y + 1, v) /\ PostImageOf(lines) = SubSeq(t, y + 1, v)
  BY SMTT(60), <1>1, <1>3, LinesOfImages
<1> HIDE DEF lines
<1>6. Says(s, t, lines, x, y, u, v)
  BY <1>1, <1>2, <1>4, <1>5 DEF Says
<1> QED
  BY <1>6 DEF lines

(* and a change by what it deletes and what it inserts. *)
LEMMA ChangeSays ==
  ASSUME old \in Seq(Symbol), new \in Seq(Symbol), NEW e \in Edits,
         RangeEnd(e.old) <= Len(old), RangeEnd(e.new) <= Len(new)
  PROVE  Says(old, new, Change(e), e.old.offset, e.new.offset, RangeEnd(e.old), RangeEnd(e.new))
<1> DEFINE x == e.old.offset
           u == RangeEnd(e.old)
           y == e.new.offset
           v == RangeEnd(e.new)
           gone == LinesOf("Delete", old, x, u)
           come == LinesOf("Insert", new, y, v)
<1>1. x \in Nat /\ y \in Nat /\ u \in Nat /\ v \in Nat /\ x <= u /\ y <= v
  BY DEF Edits, Ranges, RangeEnd
<1>2. u <= Len(old) /\ v <= Len(new)
  OBVIOUS
<1>3. Change(e) = Join(gone, come)
  BY DEF Change, Join
<1> HIDE DEF x, u, y, v
<1>4. "Delete" \in LineKinds /\ "Insert" \in LineKinds
  BY DEF LineKinds
<1>5. gone \in Seq(HunkLine)
  BY <1>1, <1>2, <1>4, LinesOfType
<1>6. come \in Seq(HunkLine)
  BY <1>1, <1>2, <1>4, LinesOfType
<1>7. PreImageOf(gone) = SubSeq(old, x + 1, u) /\ PostImageOf(gone) = <<>>
  BY <1>1, <1>2, <1>4, LinesOfImages
<1>8. PreImageOf(come) = <<>> /\ PostImageOf(come) = SubSeq(new, y + 1, v)
  BY <1>1, <1>2, <1>4, LinesOfImages
<1> HIDE DEF gone, come
<1>9. Says(old, new, gone, x, y, u, y)
  <2>1. SubSeq(new, y + 1, y) = <<>> /\ y <= Len(new) /\ y <= y
    BY <1>1, <1>2, WholeSeq
  <2> QED
    BY <1>1, <1>2, <1>5, <1>7, <2>1 DEF Says
<1>10. Says(old, new, come, u, y, u, v)
  <2>1. SubSeq(old, u + 1, u) = <<>> /\ u <= u
    BY <1>1, WholeSeq
  <2> QED
    BY <1>1, <1>2, <1>6, <1>8, <2>1 DEF Says
<1>11. Says(old, new, Join(gone, come), x, y, u, v)
  BY <1>9, <1>10, SaysJoin
<1> QED
  BY <1>3, <1>11 DEF x, u, y, v

(* How many lines are said: this is what Hunk::new asserts. *)
LEMMA SaysCounts ==
  ASSUME NEW s \in Seq(Symbol), NEW t \in Seq(Symbol), NEW lines,
         NEW x, NEW y, NEW u, NEW v, Says(s, t, lines, x, y, u, v)
  PROVE  OldCount(lines) = u - x /\ NewCount(lines) = v - y
<1>1. /\ x \in Nat /\ y \in Nat /\ u \in Nat /\ v \in Nat
      /\ x <= u /\ y <= v /\ u <= Len(s) /\ v <= Len(t)
      /\ PreImageOf(lines) = SubSeq(s, x + 1, u)
      /\ PostImageOf(lines) = SubSeq(t, y + 1, v)
  BY DEF Says
<1>2. Len(SubSeq(s, x + 1, u)) = u - x
  BY <1>1, Piece
<1>3. Len(SubSeq(t, y + 1, v)) = v - y
  BY <1>1, Piece
<1> QED
  BY <1>1, <1>2, <1>3 DEF OldCount, NewCount

(* Lines that are read the other way around. *)
LEMMA SaysTurned ==
  ASSUME NEW s, NEW t, NEW lines, NEW x, NEW y, NEW u, NEW v, Says(s, t, lines, x, y, u, v),
         NEW back, back = [i \in DOMAIN lines |-> ReverseLine(lines[i])]
  PROVE  Says(t, s, back, y, x, v, u)
<1>1. /\ lines \in Seq(HunkLine)
      /\ x \in Nat /\ y \in Nat /\ u \in Nat /\ v \in Nat
      /\ x <= u /\ y <= v /\ u <= Len(s) /\ v <= Len(t)
      /\ PreImageOf(lines) = SubSeq(s, x + 1, u)
      /\ PostImageOf(lines) = SubSeq(t, y + 1, v)
  BY DEF Says
<1>2. ASSUME NEW l \in HunkLine
      PROVE  /\ ReverseLine(l) \in HunkLine
             /\ OldLine(ReverseLine(l)) = NewLine(l) /\ NewLine(ReverseLine(l)) = OldLine(l)
  <2> DEFINE k == IF l.kind = "Insert" THEN "Delete" ELSE IF l.kind = "Delete" THEN "Insert" ELSE l.kind
  <2>1. ReverseLine(l) = [kind |-> k, line |-> l.line]
    BY DEF ReverseLine, HunkLine
  <2>2. l.kind \in LineKinds /\ l.line \in Symbol /\ k \in LineKinds
    BY DEF HunkLine, LineKinds
  <2>3. ReverseLine(l) \in HunkLine
    BY <2>1, <2>2 DEF HunkLine
  <2>4. k = "Insert" <=> l.kind = "Delete"
    OBVIOUS
  <2>5. k = "Delete" <=> l.kind = "Insert"
    OBVIOUS
  <2>6. ReverseLine(l).kind = k /\ ReverseLine(l).line = l.line
    BY <2>1
  <2> HIDE DEF k
  <2> QED
    BY <2>3, <2>4, <2>5, <2>6 DEF OldLine, NewLine
<1>3. DOMAIN lines = 1..Len(lines) /\ Len(lines) \in Nat
      /\ \A i \in 1..Len(lines) : lines[i] \in HunkLine
  BY <1>1
<1>4. back \in [1..Len(lines) -> HunkLine]
  BY <1>2, <1>3
<1>5. back \in Seq(HunkLine) /\ Len(back) = Len(lines)
  BY <1>3, <1>4, RowIsSeq
<1>6. DOMAIN back = DOMAIN lines /\ \A i \in DOMAIN lines : back[i] = ReverseLine(lines[i])
  OBVIOUS
<1>7. [i \in DOMAIN back |-> OldLine(back[i])] = [i \in DOMAIN lines |-> NewLine(lines[i])]
  BY <1>2, <1>3, <1>6
<1>8. [i \in DOMAIN back |-> NewLine(back[i])] = [i \in DOMAIN lines |-> OldLine(lines[i])]
  BY <1>2, <1>3, <1>6
<1>9. PreImageOf(back) = PostImageOf(lines)
  BY <1>7 DEF PreImageOf, PostImageOf
<1>10. PostImageOf(back) = PreImageOf(lines)
  BY <1>8 DEF PreImageOf, PostImageOf
<1> QED
  BY <1>1, <1>5, <1>9, <1>10 DEF Says

-----------------------------------------------------------------------------
(* Patches *)

OldFrom(h) == FirstLine(h.old)
OldTo(h) == FirstLine(h.old) + h.old.len
NewFrom(h) == FirstLine(h.new)
NewTo(h) == FirstLine(h.new) + h.new.len

(* Where the first i hunks of a patch end. *)
LastOld(hs, i) == IF i = 0 THEN 0 ELSE OldTo(hs[i])
LastNew(hs, i) == IF i = 0 THEN 0 ELSE NewTo(hs[i])

(* A hunk that says what becomes of s where it says so, on the way to t. *)
Tells(s, t, h) ==
  h \in PatchHunk /\ Says(s, t, h.lines, OldFrom(h), NewFrom(h), OldTo(h), NewTo(h))

(***************************************************************************)
(* A hunk that comes after the first i of a patch: what lies between is    *)
(* equal, and a range of no lines does not touch the one before.           *)
(***************************************************************************)
Comes(s, t, hs, i, h) ==
  /\ Tells(s, t, h)
  /\ Gap(s, t, LastOld(hs, i), LastNew(hs, i), OldFrom(h), NewFrom(h))
  /\ i # 0 => /\ LastOld(hs, i) < OldFrom(h) \/ h.old.len > 0
              /\ LastNew(hs, i) < NewFrom(h) \/ h.new.len > 0

HunkChain(s, t, hs) == hs \in Seq(PatchHunk) /\ \A i \in 1..Len(hs) : Comes(s, t, hs, i - 1, hs[i])

(* A whole patch: what is left after its last hunk is equal as well. *)
GoodPatch(s, t, hs) ==
  /\ HunkChain(s, t, hs)
  /\ Gap(s, t, LastOld(hs, Len(hs)), LastNew(hs, Len(hs)), Len(s), Len(t))

(* The range that Hunk::new is given names the line it begins with. *)
LEMMA HunkRangeFacts ==
  ASSUME NEW x \in Nat, NEW l \in Nat
  PROVE  /\ HunkRange(x, l) \in HunkRanges
         /\ FirstLine(HunkRange(x, l)) = x /\ HunkRange(x, l).len = l
BY DEF HunkRange, HunkRanges, FirstLine

EndsAt(hs, h) == LastOld(hs, Len(hs)) = OldTo(h) /\ LastNew(hs, Len(hs)) = NewTo(h)

(* One hunk more that comes after the last one of a patch. *)
LEMMA HunkChainAppend ==
  ASSUME NEW s, NEW t, NEW hs, HunkChain(s, t, hs), NEW h, Comes(s, t, hs, Len(hs), h),
         NEW more, Longer(more, hs, h)
  PROVE  HunkChain(s, t, more) /\ Len(more) = Len(hs) + 1 /\ Len(hs) \in Nat /\ EndsAt(more, h)
<1>1. hs \in Seq(PatchHunk) /\ h \in PatchHunk
  BY DEF HunkChain, Comes, Tells
<1>2. /\ more \in Seq(PatchHunk) /\ Len(more) = Len(hs) + 1 /\ Len(hs) \in Nat
      /\ more[Len(hs) + 1] = h /\ \A i \in 1..Len(hs) : more[i] = hs[i]
  BY <1>1, AppendElements DEF Longer
<1>3. \A i \in 0..Len(hs) : LastOld(more, i) = LastOld(hs, i) /\ LastNew(more, i) = LastNew(hs, i)
  BY <1>2 DEF LastOld, LastNew
<1>4. ASSUME NEW i \in 1..Len(more) PROVE Comes(s, t, more, i - 1, more[i])
  <2>1. i - 1 \in 0..Len(hs)
    BY <1>2
  <2>2. LastOld(more, i - 1) = LastOld(hs, i - 1) /\ LastNew(more, i - 1) = LastNew(hs, i - 1)
    BY <1>3, <2>1
  <2>3. Comes(s, t, hs, i - 1, more[i])
    <3>1. CASE i = Len(hs) + 1
      <4>1. i - 1 = Len(hs) /\ more[i] = h
        BY <1>2, <3>1
      <4> QED
        BY <4>1
    <3>2. CASE i # Len(hs) + 1
      <4>1. i \in 1..Len(hs) /\ more[i] = hs[i]
        BY <1>2, <3>2
      <4> QED
        BY <4>1 DEF HunkChain
    <3> QED
      BY <3>1, <3>2
  <2> QED
    BY <2>2, <2>3 DEF Comes
<1>5. EndsAt(more, h)
  BY <1>2 DEF LastOld, LastNew, EndsAt
<1> QED
  BY <1>2, <1>4, <1>5 DEF HunkChain

(* The numbers of a hunk and its lines. *)
LEMMA HunkNumbers ==
  ASSUME NEW h \in PatchHunk
  PROVE  /\ h.old.start \in Nat /\ h.old.len \in Nat /\ h.new.start \in Nat /\ h.new.len \in Nat
         /\ h.lines \in Seq(HunkLine)
BY DEF PatchHunk, HunkRanges

(* Ranges of which one begins where the other ends, or later, are in the
   order the parser asks for, unless both an empty range and no line
   between them make the two coincide. *)
LEMMA RangesInOrder ==
  ASSUME NEW r \in HunkRanges, NEW q \in HunkRanges, FirstLine(r) + r.len <= FirstLine(q),
         FirstLine(r) + r.len < FirstLine(q) \/ q.len > 0
  PROVE  HunkRangeEnd(r) <= q.start
<1>1. r.start \in Nat /\ r.len \in Nat /\ q.start \in Nat /\ q.len \in Nat
  BY DEF HunkRanges
<1>2. FirstLine(r) = (IF r.len > 0 THEN r.start - 1 ELSE r.start)
  BY DEF FirstLine
<1>3. FirstLine(q) = (IF q.len > 0 THEN q.start - 1 ELSE q.start)
  BY DEF FirstLine
<1> QED
  BY <1>1, <1>2, <1>3 DEF HunkRangeEnd

(* The parser's order check accepts the patch. *)
LEMMA ChainInOrder ==
  ASSUME NEW s, NEW t, NEW hs, HunkChain(s, t, hs)
  PROVE  HunksInOrder(hs)
<1> SUFFICES ASSUME NEW i \in 1..Len(hs) - 1
             PROVE  /\ HunkRangeEnd(hs[i].old) <= hs[i + 1].old.start
                    /\ HunkRangeEnd(hs[i].new) <= hs[i + 1].new.start
  BY DEF HunksInOrder
<1> DEFINE g == hs[i]
           h == hs[i + 1]
<1>1. hs \in Seq(PatchHunk)
  BY DEF HunkChain
<1>2. /\ Len(hs) \in Nat /\ i \in 1..Len(hs) /\ i + 1 \in 1..Len(hs) /\ i \in Nat /\ i # 0
      /\ (i + 1) - 1 = i
  BY <1>1
<1>3. g \in PatchHunk /\ h \in PatchHunk
  BY <1>1, <1>2
<1>4. Comes(s, t, hs, i, h)
  BY <1>2 DEF HunkChain
<1>5. LastOld(hs, i) = OldTo(g) /\ LastNew(hs, i) = NewTo(g)
  BY <1>2 DEF LastOld, LastNew
<1> HIDE DEF g, h
<1>6. /\ OldTo(g) <= OldFrom(h) /\ NewTo(g) <= NewFrom(h)
      /\ OldTo(g) < OldFrom(h) \/ h.old.len > 0
      /\ NewTo(g) < NewFrom(h) \/ h.new.len > 0
  BY <1>2, <1>4, <1>5 DEF Comes, Gap
<1>7. g.old \in HunkRanges /\ h.old \in HunkRanges /\ g.new \in HunkRanges /\ h.new \in HunkRanges
  BY <1>3 DEF PatchHunk
<1>8. HunkRangeEnd(g.old) <= h.old.start
  BY <1>6, <1>7, RangesInOrder DEF OldTo, OldFrom
<1>9. HunkRangeEnd(g.new) <= h.new.start
  BY <1>6, <1>7, RangesInOrder DEF NewTo, NewFrom
<1> QED
  BY <1>8, <1>9 DEF g, h

(* Reversed, the patch leads back. *)
Turned(r, h) ==
  /\ OldFrom(r) = NewFrom(h) /\ OldTo(r) = NewTo(h)
  /\ NewFrom(r) = OldFrom(h) /\ NewTo(r) = OldTo(h)
  /\ r.old.len = h.new.len /\ r.new.len = h.old.len

(* A hunk, reversed, says the same of the texts in the other order, ... *)
LEMMA TellsTurned ==
  ASSUME NEW s, NEW t, NEW h, Tells(s, t, h)
  PROVE  Tells(t, s, ReverseHunk(h)) /\ Turned(ReverseHunk(h), h)
<1> DEFINE r == ReverseHunk(h)
           back == [i \in DOMAIN h.lines |-> ReverseLine(h.lines[i])]
<1>1. r = [old |-> h.new, new |-> h.old, lines |-> back]
  BY DEF ReverseHunk
<1>2. r.old = h.new /\ r.new = h.old /\ r.lines = back
  BY <1>1
<1>3. /\ h \in PatchHunk
      /\ Says(s, t, h.lines, OldFrom(h), NewFrom(h), OldTo(h), NewTo(h))
  BY DEF Tells
<1>4. Says(t, s, back, NewFrom(h), OldFrom(h), NewTo(h), OldTo(h))
  BY <1>3, SaysTurned
<1>5. h.old \in HunkRanges /\ h.new \in HunkRanges
  BY <1>3 DEF PatchHunk
<1> HIDE DEF back
<1>6. back \in Seq(HunkLine)
  BY <1>4 DEF Says
<1>7. r \in PatchHunk
  BY <1>1, <1>5, <1>6 DEF PatchHunk
<1> HIDE DEF r
<1>8. OldFrom(r) = NewFrom(h) /\ OldTo(r) = NewTo(h) /\ NewFrom(r) = OldFrom(h) /\ NewTo(r) = OldTo(h)
  BY <1>2 DEF OldFrom, OldTo, NewFrom, NewTo
<1>9. Tells(t, s, r)
  BY <1>2, <1>4, <1>7, <1>8 DEF Tells
<1> QED
  BY <1>2, <1>8, <1>9 DEF r, Turned

(* ... and so does a whole patch. *)
LEMMA PatchTurned ==
  ASSUME NEW s, NEW t, NEW hs, GoodPatch(s, t, hs), NEW back, back = ReversePatch(hs)
  PROVE  GoodPatch(t, s, back) /\ Len(back) = Len(hs)
<1>1. hs \in Seq(PatchHunk) /\ HunkChain(s, t, hs)
  BY DEF GoodPatch, HunkChain
<1>2. /\ DOMAIN hs = 1..Len(hs) /\ Len(hs) \in Nat
      /\ \A i \in 1..Len(hs) : hs[i] \in PatchHunk /\ Comes(s, t, hs, i - 1, hs[i])
  BY <1>1 DEF HunkChain
<1>3. \A i \in 1..Len(hs) : back[i] = ReverseHunk(hs[i])
  BY <1>2 DEF ReversePatch
<1>4. ASSUME NEW i \in 1..Len(hs)
      PROVE  /\ Tells(t, s, back[i]) /\ back[i] \in PatchHunk
             /\ OldFrom(back[i]) = NewFrom(hs[i]) /\ OldTo(back[i]) = NewTo(hs[i])
             /\ NewFrom(back[i]) = OldFrom(hs[i]) /\ NewTo(back[i]) = OldTo(hs[i])
             /\ back[i].old.len = hs[i].new.len /\ back[i].new.len = hs[i].old.len
  <2>1. Tells(s, t, hs[i])
    BY <1>2 DEF Comes
  <2>2. back[i] = ReverseHunk(hs[i])
    BY <1>3
  <2>3. Tells(t, s, back[i])
    BY <2>1, <2>2, TellsTurned
  <2>4. Turned(back[i], hs[i])
    BY <2>1, <2>2, TellsTurned
  <2> QED
    BY <2>3, <2>4 DEF Tells, Turned
<1>5. back \in Seq(PatchHunk) /\ Len(back) = Len(hs)
  <2>1. back \in [1..Len(hs) -> PatchHunk]
    BY <1>2, <1>3, <1>4 DEF ReversePatch
  <2> QED
    BY <1>2, <2>1, RowIsSeq
<1>6. \A i \in 0..Len(hs) : LastOld(back, i) = LastNew(hs, i) /\ LastNew(back, i) = LastOld(hs, i)
  BY <1>2, <1>4 DEF LastOld, LastNew
<1>7. ASSUME NEW i \in 1..Len(back) PROVE Comes(t, s, back, i - 1, back[i])
  <2> DEFINE g == hs[i]
             h == back[i]
  <2>1. i \in 1..Len(hs) /\ i - 1 \in 0..Len(hs)
    BY <1>2, <1>5
  <2>2. Comes(s, t, hs, i - 1, g)
    BY <1>2, <2>1
  <2>3. /\ Tells(t, s, h)
        /\ OldFrom(h) = NewFrom(g) /\ NewFrom(h) = OldFrom(g)
        /\ h.old.len = g.new.len /\ h.new.len = g.old.len
    BY <1>4, <2>1
  <2>4. LastOld(back, i - 1) = LastNew(hs, i - 1) /\ LastNew(back, i - 1) = LastOld(hs, i - 1)
    BY <1>6, <2>1
  <2> HIDE DEF g, h
  <2>5. Gap(s, t, LastOld(hs, i - 1), LastNew(hs, i - 1), OldFrom(g), NewFrom(g))
    BY <2>2 DEF Comes
  <2>6. Gap(t, s, LastNew(hs, i - 1), LastOld(hs, i - 1), NewFrom(g), OldFrom(g))
    BY <2>5, GapTurned
  <2>7. Comes(t, s, back, i - 1, h)
    BY <2>2, <2>3, <2>4, <2>6 DEF Comes
  <2> QED
    BY <2>7 DEF h
<1>8. Gap(t, s, LastOld(back, Len(back)), LastNew(back, Len(back)), Len(t), Len(s))
  <2>1. Gap(s, t, LastOld(hs, Len(hs)), LastNew(hs, Len(hs)), Len(s), Len(t))
    BY DEF GoodPatch
  <2>2. Len(hs) \in 0..Len(hs)
    BY <1>2
  <2>3. /\ LastOld(back, Len(back)) = LastNew(hs, Len(hs))
        /\ LastNew(back, Len(back)) = LastOld(hs, Len(hs))
    BY <1>5, <1>6, <2>2
  <2> QED
    BY <2>1, <2>3, GapTurned
<1> QED
  BY <1>5, <1>7, <1>8 DEF GoodPatch, HunkChain

(***************************************************************************)
(* A good patch, read literally, turns s into t: after each hunk what has  *)
(* been written is a beginning of t.                                       *)
(***************************************************************************)
LEMMA ReadsPart ==
  ASSUME NEW s \in Seq(Symbol), NEW t \in Seq(Symbol), NEW x, NEW y, NEW h,
         Tells(s, t, h), Gap(s, t, x, y, OldFrom(h), NewFrom(h)),
         NEW part, part = Join(SubSeq(s, x + 1, OldFrom(h)), PostImageOf(h.lines))
  PROVE  /\ part = SubSeq(t, y + 1, NewTo(h)) /\ NewTo(h) \in Nat /\ NewTo(h) <= Len(t)
         /\ y \in Nat /\ y <= NewTo(h)
<1> DEFINE u == OldFrom(h)
           v == NewFrom(h)
           q == NewTo(h)
<1>1. /\ x \in Nat /\ y \in Nat /\ u \in Nat /\ v \in Nat /\ q \in Nat
      /\ y <= v /\ v <= q /\ q <= Len(t)
      /\ PostImageOf(h.lines) = SubSeq(t, v + 1, q)
  BY DEF Tells, Says, Gap
<1> HIDE DEF u, v, q
<1>2. SubSeq(s, x + 1, u) = SubSeq(t, y + 1, v)
  <2>1. SameText(s, t, x, y, u, v)
    BY GapPiece DEF u, v
  <2> QED
    BY <2>1 DEF SameText
<1>3. SubSeq(t, y + 1, q) = Join(SubSeq(t, y + 1, v), SubSeq(t, v + 1, q))
  BY <1>1, PieceJoin
<1>4. part = Join(SubSeq(s, x + 1, u), PostImageOf(h.lines))
  BY DEF u
<1>5. part = SubSeq(t, y + 1, q)
  BY <1>1, <1>2, <1>3, <1>4
<1>6. y <= q
  BY <1>1
<1> QED
  BY <1>1, <1>5, <1>6 DEF q

(* The parts, one for each hunk, and the rest make up all of t. *)
LEMMA PatchReadsLiterally ==
  ASSUME NEW s \in Seq(Symbol), NEW t \in Seq(Symbol), NEW hs, GoodPatch(s, t, hs)
  PROVE  Literally(s, hs) = t
<1> DEFINE n == Len(hs)
           part(i) == Join(SubSeq(s, LastOld(hs, i - 1) + 1, OldFrom(hs[i])), PostImageOf(hs[i].lines))
           parts == [i \in 1..n |-> part(i)]
           g == [i \in 1..n |-> SubSeq(t, 1, LastNew(hs, i))]
           rest == SubSeq(s, LastOld(hs, n) + 1, Len(s))
<1>1. hs \in Seq(PatchHunk) /\ \A i \in 1..n : Comes(s, t, hs, i - 1, hs[i])
  BY DEF GoodPatch, HunkChain
<1>2. n \in Nat /\ DOMAIN hs = 1..n
  BY <1>1
<1>3. Literally(s, hs) = Join(FlattenSeq(parts), rest)
  <2> DEFINE upTo(i) == IF i = 0 THEN 0 ELSE FirstLine(hs[i].old) + hs[i].old.len
             copied(i) == SubSeq(s, upTo(i - 1) + 1, FirstLine(hs[i].old))
             rows == [i \in DOMAIN hs |-> copied(i) \o PostImageOf(hs[i].lines)]
  <2>1. Literally(s, hs) = FlattenSeq(rows) \o SubSeq(s, upTo(Len(hs)) + 1, Len(s))
    BY DEF Literally
  <2>2. \A i \in 0..n : upTo(i) = LastOld(hs, i)
    BY DEF LastOld, OldTo
  <2>3. ASSUME NEW i \in 1..n PROVE copied(i) \o PostImageOf(hs[i].lines) = part(i)
    <3>1. i - 1 \in 0..n
      BY <1>2
    <3>2. upTo(i - 1) = LastOld(hs, i - 1)
      BY <2>2, <3>1
    <3> HIDE DEF upTo
    <3>3. copied(i) = SubSeq(s, LastOld(hs, i - 1) + 1, OldFrom(hs[i]))
      BY <3>2 DEF OldFrom
    <3> HIDE DEF copied
    <3> QED
      BY <3>3 DEF Join
  <2> HIDE DEF copied, part
  <2>4. rows = parts
    BY <1>2, <2>3
  <2>5. upTo(Len(hs)) = LastOld(hs, n)
    BY <1>2, <2>2
  <2> HIDE DEF rows, upTo, parts
  <2> QED
    BY <2>1, <2>4, <2>5 DEF Join
<1>4. ASSUME NEW i \in 1..n
      PROVE  /\ part(i) = SubSeq(t, LastNew(hs, i - 1) + 1, LastNew(hs, i))
             /\ LastNew(hs, i - 1) \in Nat /\ LastNew(hs, i) \in Nat
             /\ LastNew(hs, i - 1) <= LastNew(hs, i) /\ LastNew(hs, i) <= Len(t)
  <2> DEFINE h == hs[i]
             x == LastOld(hs, i - 1)
             y == LastNew(hs, i - 1)
  <2>1. Comes(s, t, hs, i - 1, h) /\ i # 0
    BY <1>1
  <2>2. Tells(s, t, h) /\ Gap(s, t, x, y, OldFrom(h), NewFrom(h))
    BY <2>1 DEF Comes
  <2>3. LastNew(hs, i) = NewTo(h)
    BY <2>1 DEF LastNew
  <2>4. part(i) = Join(SubSeq(s, x + 1, OldFrom(h)), PostImageOf(h.lines))
    OBVIOUS
  <2> HIDE DEF h, x, part
  <2> DEFINE pt == part(i)
  <2> HIDE DEF pt
  <2>5. pt = Join(SubSeq(s, x + 1, OldFrom(h)), PostImageOf(h.lines))
    BY <2>4 DEF pt
  <2> HIDE DEF y
  <2>6. pt = SubSeq(t, y + 1, NewTo(h))
    BY <2>2, <2>5, ReadsPart
  <2>7. NewTo(h) \in Nat /\ NewTo(h) <= Len(t) /\ y \in Nat /\ y <= NewTo(h)
    BY <2>2, <2>5, ReadsPart
  <2> QED
    BY <2>3, <2>6, <2>7 DEF pt, y
<1>5. /\ rest = SubSeq(t, LastNew(hs, n) + 1, Len(t))
      /\ LastNew(hs, n) \in Nat /\ LastNew(hs, n) <= Len(t)
  <2> DEFINE x == LastOld(hs, n)
             y == LastNew(hs, n)
  <2>1. Gap(s, t, x, y, Len(s), Len(t))
    BY DEF GoodPatch
  <2> HIDE DEF x, y
  <2>2. SameText(s, t, x, y, Len(s), Len(t))
    BY <2>1, GapPiece
  <2> QED
    BY <2>1, <2>2 DEF SameText, Gap, x, y
<1>6. CASE n = 0
  <2>1. parts = <<>>
    BY <1>6
  <2>2. LastNew(hs, n) = 0
    BY <1>6 DEF LastNew
  <2> HIDE DEF parts, rest
  <2>3. FlattenSeq(parts) = <<>>
    BY <2>1, FlatEmpty
  <2>4. rest = t
    <3>1. LastNew(hs, n) + 1 = 1
      BY <2>2
    <3> QED
      BY <1>5, <3>1, WholeSeq
  <2>5. Join(<<>>, t) = t
    BY WholeSeq DEF Join
  <2> QED
    BY <1>3, <2>3, <2>4, <2>5
<1>7. CASE n # 0
  <2> HIDE DEF part
  <2>1. g[1] = parts[1]
    <3>1. 1 \in 1..n /\ 1 - 1 = 0
      BY <1>2, <1>7
    <3>2. part(1) = SubSeq(t, LastNew(hs, 0) + 1, LastNew(hs, 1))
      BY <1>4, <3>1
    <3>3. LastNew(hs, 0) = 0
      BY DEF LastNew
    <3>4. part(1) = SubSeq(t, 1, LastNew(hs, 1))
      BY <3>2, <3>3
    <3>5. parts[1] = part(1) /\ g[1] = SubSeq(t, 1, LastNew(hs, 1))
      BY <3>1
    <3> QED
      BY <3>4, <3>5
  <2>2. ASSUME NEW i \in 2..n PROVE g[i] = g[i - 1] \o parts[i]
    <3> DEFINE y == LastNew(hs, i - 1)
               q == LastNew(hs, i)
    <3>1. i \in 1..n /\ i - 1 \in 1..n
      BY <1>2
    <3>2. part(i) = SubSeq(t, y + 1, q) /\ y \in Nat /\ q \in Nat /\ y <= q /\ q <= Len(t)
      BY <1>4, <3>1
    <3>3. parts[i] = part(i) /\ g[i] = SubSeq(t, 1, q) /\ g[i - 1] = SubSeq(t, 1, y)
      BY <3>1
    <3> HIDE DEF y, q, g, parts
    <3>4. SubSeq(t, 0 + 1, q) = Join(SubSeq(t, 0 + 1, y), SubSeq(t, y + 1, q))
      <4>1. 0 \in Nat /\ 0 <= y
        BY <3>2
      <4> QED
        BY <3>2, <4>1, PieceJoin
    <3>5. 0 + 1 = 1
      OBVIOUS
    <3> QED
      BY <3>2, <3>3, <3>4, <3>5 DEF Join
  <2>3. Len(parts) = n
    BY <1>2
  <2>4. g[n] = SubSeq(t, 1, LastNew(hs, n))
    <3>1. n \in 1..n
      BY <1>2, <1>7
    <3>2. \A i \in 1..n : g[i] = SubSeq(t, 1, LastNew(hs, i))
      OBVIOUS
    <3> HIDE DEF g, n
    <3> QED
      BY <3>1, <3>2
  <2> HIDE DEF parts, g
  <2>5. Flattens(g, parts)
    BY <1>2, <1>7, <2>1, <2>2, <2>3 DEF Flattens
  <2>6. FlattenSeq(parts) = SubSeq(t, 1, LastNew(hs, n))
    BY <2>3, <2>4, <2>5, FlatExists
  <2> DEFINE y == LastNew(hs, n)
  <2>7. y \in Nat /\ y <= Len(t) /\ rest = SubSeq(t, y + 1, Len(t))
        /\ FlattenSeq(parts) = SubSeq(t, 1, y)
    BY <1>5, <2>6
  <2> HIDE DEF y, rest
  <2>8. SubSeq(t, 0 + 1, Len(t)) = Join(SubSeq(t, 0 + 1, y), SubSeq(t, y + 1, Len(t)))
    <3>1. 0 \in Nat /\ 0 <= y /\ Len(t) \in Nat /\ Len(t) <= Len(t)
      BY <2>7
    <3> QED
      BY <2>7, <3>1, PieceJoin
  <2>9. 0 + 1 = 1 /\ SubSeq(t, 1, Len(t)) = t
    BY WholeSeq
  <2> QED
    BY <1>3, <2>7, <2>8, <2>9
<1> QED
  BY <1>6, <1>7

(* Each of its hunks quotes s where it says. *)
LEMMA TellsReplaces ==
  ASSUME NEW s, NEW t, NEW h, Tells(s, t, h)
  PROVE  Replaces(s, h)
BY DEF Tells, Says, Replaces, OldFrom, OldTo

(* All in all: what DescribesChange asks of the hunks. *)
LEMMA GoodPatchDescribes ==
  ASSUME NEW s \in Seq(Symbol), NEW t \in Seq(Symbol), NEW hs, GoodPatch(s, t, hs)
  PROVE  /\ HunksInOrder(hs)
         /\ \A i \in DOMAIN hs : Replaces(s, hs[i]) /\ Replaces(t, ReverseHunk(hs[i]))
         /\ Literally(s, hs) = t
         /\ Literally(t, ReversePatch(hs)) = s
<1>1. HunkChain(s, t, hs) /\ hs \in Seq(PatchHunk)
  BY DEF GoodPatch, HunkChain
<1>2. HunksInOrder(hs)
  BY <1>1, ChainInOrder
<1>3. ASSUME NEW i \in DOMAIN hs PROVE Replaces(s, hs[i]) /\ Replaces(t, ReverseHunk(hs[i]))
  <2>1. i \in 1..Len(hs)
    BY <1>1
  <2>2. Tells(s, t, hs[i])
    BY <1>1, <2>1 DEF HunkChain, Comes
  <2>3. Tells(t, s, ReverseHunk(hs[i]))
    BY <2>2, TellsTurned
  <2> QED
    BY <2>2, <2>3, TellsReplaces
<1>4. Literally(s, hs) = t
  BY PatchReadsLiterally
<1> DEFINE back == ReversePatch(hs)
<1>5. GoodPatch(t, s, back)
  BY PatchTurned
<1> HIDE DEF back
<1>6. Literally(t, back) = s
  BY <1>5, PatchReadsLiterally
<1> QED
  BY <1>2, <1>3, <1>4, <1>6 DEF back

-----------------------------------------------------------------------------
(* How much context there is *)

OnlyContext(lines) == lines \in Seq(HunkLine) /\ \A i \in 1..Len(lines) : lines[i].kind = "Context"
NoContext(lines) == lines \in Seq(HunkLine) /\ \A i \in 1..Len(lines) : lines[i].kind # "Context"

(* What ContextAsAsked asks of the lines of a hunk ... *)
Asked(lines, c) ==
  \A i, j \in 1..Len(lines) : i <= j /\ ContextRun(lines, i, j)
    => j - i + 1 <= (IF i = 1 \/ j = Len(lines) THEN c ELSE 2 * c)

(* ... and what is kept of it while there are edits to come. *)
BodyAsked(lines, c) ==
  /\ lines \in Seq(HunkLine) /\ Len(lines) # 0 /\ lines[Len(lines)].kind # "Context"
  /\ \A i, j \in 1..Len(lines) : i <= j /\ ContextRun(lines, i, j)
       => j - i + 1 <= (IF i = 1 THEN c ELSE 2 * c)

HeadAsked(lines, c, x, y) ==
  (x = 0 /\ y = 0) \/ (c <= Len(lines) /\ ContextRun(lines, 1, c))

(* Below the last edit all k lines that it has are shown. *)
TailAsked(lines, k) == k <= Len(lines) /\ ContextRun(lines, Len(lines) - k + 1, Len(lines))

Joined(c, a, b) ==
  /\ Len(c) = Len(a) + Len(b) /\ Len(a) \in Nat /\ Len(b) \in Nat
  /\ \A i \in 1..Len(a) : c[i] = a[i]
  /\ \A i \in 1..Len(b) : c[Len(a) + i] = b[i]

(* Sequences put together, element by element. *)
LEMMA JoinElements ==
  ASSUME NEW T, NEW a \in Seq(T), NEW b \in Seq(T)
  PROVE  Join(a, b) \in Seq(T) /\ Joined(Join(a, b), a, b)
BY DEF Join, Joined

(* Context above and then an edit: a hunk is opened. *)
LEMMA BodyOpens ==
  ASSUME NEW c \in Nat, NEW a, NEW b, OnlyContext(a), NoContext(b), Len(a) <= c, Len(b) # 0,
         NEW lines, lines = Join(a, b)
  PROVE  BodyAsked(lines, c)
<1>1. a \in Seq(HunkLine) /\ b \in Seq(HunkLine)
  BY DEF OnlyContext, NoContext
<1>2. /\ lines \in Seq(HunkLine) /\ Len(lines) = Len(a) + Len(b) /\ Len(a) \in Nat /\ Len(b) \in Nat
      /\ \A i \in 1..Len(a) : lines[i] = a[i]
      /\ \A i \in 1..Len(b) : lines[Len(a) + i] = b[i]
  <2>1. lines \in Seq(HunkLine) /\ Joined(lines, a, b)
    BY <1>1, JoinElements
  <2> QED
    BY <2>1 DEF Joined
<1>3. ASSUME NEW j \in 1..Len(lines), j > Len(a) PROVE lines[j].kind # "Context"
  <2> DEFINE k == j - Len(a)
  <2>1. k \in 1..Len(b) /\ Len(a) + k = j
    BY <1>2, <1>3
  <2> QED
    BY <1>2, <2>1 DEF NoContext
<1>4. ASSUME NEW i \in 1..Len(lines), NEW j \in 1..Len(lines), i <= j, ContextRun(lines, i, j)
      PROVE  j - i + 1 <= (IF i = 1 THEN c ELSE 2 * c)
  <2>1. lines[j].kind = "Context"
    <3>1. j \in i..j
      BY <1>4
    <3> QED
      BY <1>4, <3>1 DEF ContextRun
  <2>2. j <= Len(a)
    BY <1>2, <1>3, <2>1
  <2> QED
    BY <1>2, <1>4, <2>2
<1>5. lines[Len(lines)].kind # "Context" /\ Len(lines) # 0
  <2>1. Len(lines) \in 1..Len(lines) /\ Len(lines) > Len(a)
    BY <1>2
  <2> QED
    BY <1>3, <2>1
<1> QED
  BY <1>2, <1>4, <1>5 DEF BodyAsked

(* At most twice the context and then another edit: it goes on. *)
LEMMA BodyGoesOn ==
  ASSUME NEW c \in Nat, NEW a, NEW m, NEW b, BodyAsked(a, c), OnlyContext(m), NoContext(b),
         Len(m) <= 2 * c, Len(b) # 0, NEW lines, lines = Join(Join(a, m), b)
  PROVE  BodyAsked(lines, c)
<1>1. a \in Seq(HunkLine) /\ m \in Seq(HunkLine) /\ b \in Seq(HunkLine)
  BY DEF OnlyContext, NoContext, BodyAsked
<1> DEFINE am == Join(a, m)
<1>2. /\ am \in Seq(HunkLine) /\ Len(am) = Len(a) + Len(m) /\ Len(a) \in Nat /\ Len(m) \in Nat
      /\ \A i \in 1..Len(a) : am[i] = a[i]
      /\ \A i \in 1..Len(m) : am[Len(a) + i] = m[i]
  <2>1. am \in Seq(HunkLine) /\ Joined(am, a, m)
    BY <1>1, JoinElements
  <2> HIDE DEF am
  <2> QED
    BY <2>1 DEF Joined
<1> HIDE DEF am
<1>3. lines = Join(am, b)
  BY DEF am
<1>4. /\ lines \in Seq(HunkLine) /\ Len(lines) = Len(am) + Len(b) /\ Len(b) \in Nat
      /\ \A i \in 1..Len(am) : lines[i] = am[i]
      /\ \A i \in 1..Len(b) : lines[Len(am) + i] = b[i]
  <2>1. lines \in Seq(HunkLine) /\ Joined(lines, am, b)
    BY <1>1, <1>2, <1>3, JoinElements
  <2> QED
    BY <2>1 DEF Joined
<1>5. ASSUME NEW j \in 1..Len(lines), j > Len(am) PROVE lines[j].kind # "Context"
  <2> DEFINE k == j - Len(am)
  <2>1. k \in 1..Len(b) /\ Len(am) + k = j
    BY <1>2, <1>4, <1>5
  <2> QED
    BY <1>4, <2>1 DEF NoContext
<1>6. lines[Len(a)].kind # "Context" /\ Len(a) # 0 /\ \A i \in 1..Len(a) : lines[i] = a[i]
  <2>1. Len(a) # 0 /\ a[Len(a)].kind # "Context"
    BY DEF BodyAsked
  <2>2. Len(a) \in 1..Len(a) /\ \A i \in 1..Len(a) : i \in 1..Len(am)
    BY <1>2, <2>1
  <2> QED
    BY <1>2, <1>4, <2>1, <2>2
<1>7. ASSUME NEW i \in 1..Len(lines), NEW j \in 1..Len(lines), i <= j, ContextRun(lines, i, j)
      PROVE  j - i + 1 <= (IF i = 1 THEN c ELSE 2 * c)
  <2>1. \A k \in i..j : lines[k].kind = "Context"
    BY <1>7 DEF ContextRun
  <2>2. j <= Len(am)
    <3>1. lines[j].kind = "Context"
      <4>1. j \in i..j
        BY <1>7
      <4> QED
        BY <2>1, <4>1
    <3> QED
      BY <1>2, <1>4, <1>5, <3>1
  <2>3. ~(i <= Len(a) /\ Len(a) <= j)
    BY <1>2, <1>6, <2>1
  <2>4. CASE j < Len(a)
    <3>1. i \in 1..Len(a) /\ j \in 1..Len(a)
      BY <1>2, <1>4, <1>7, <2>4
    <3>2. ContextRun(a, i, j)
      <4>1. \A k \in i..j : k \in 1..Len(a)
        BY <3>1
      <4> QED
        BY <1>6, <2>1, <4>1 DEF ContextRun
    <3> QED
      BY <1>7, <3>1, <3>2 DEF BodyAsked
  <2>5. CASE i > Len(a)
    <3>1. j - i + 1 <= Len(m) /\ i # 1
      BY <1>2, <1>4, <1>6, <1>7, <2>2, <2>5
    <3> QED
      BY <1>2, <1>7, <3>1
  <2> QED
    BY <1>2, <1>4, <2>3, <2>4, <2>5
<1>8. lines[Len(lines)].kind # "Context" /\ Len(lines) # 0
  <2>1. Len(lines) \in 1..Len(lines) /\ Len(lines) > Len(am)
    BY <1>2, <1>4
  <2> QED
    BY <1>5, <2>1
<1> QED
  BY <1>4, <1>7, <1>8 DEF BodyAsked

(* Context below: it is closed, with as much as was asked for everywhere. *)
LEMMA BodyCloses ==
  ASSUME NEW c \in Nat, NEW a, NEW m, BodyAsked(a, c), OnlyContext(m), Len(m) <= c,
         NEW lines, lines = Join(a, m)
  PROVE  Asked(lines, c)
<1>1. a \in Seq(HunkLine) /\ m \in Seq(HunkLine)
  BY DEF OnlyContext, BodyAsked
<1>2. /\ lines \in Seq(HunkLine) /\ Len(lines) = Len(a) + Len(m) /\ Len(a) \in Nat /\ Len(m) \in Nat
      /\ \A i \in 1..Len(a) : lines[i] = a[i]
  BY <1>1, JoinElements DEF Joined
<1>3. lines[Len(a)].kind # "Context" /\ Len(a) # 0
  <2>1. Len(a) # 0 /\ a[Len(a)].kind # "Context"
    BY DEF BodyAsked
  <2>2. Len(a) \in 1..Len(a)
    BY <1>2, <2>1
  <2> QED
    BY <1>2, <2>1, <2>2
<1>4. ASSUME NEW i \in 1..Len(lines), NEW j \in 1..Len(lines), i <= j, ContextRun(lines, i, j)
      PROVE  j - i + 1 <= (IF i = 1 \/ j = Len(lines) THEN c ELSE 2 * c)
  <2>1. \A k \in i..j : lines[k].kind = "Context"
    BY <1>4 DEF ContextRun
  <2>2. ~(i <= Len(a) /\ Len(a) <= j)
    BY <1>2, <1>3, <2>1
  <2>3. CASE j < Len(a)
    <3>1. i \in 1..Len(a) /\ j \in 1..Len(a) /\ j # Len(lines)
      BY <1>2, <1>4, <2>3
    <3>2. ContextRun(a, i, j)
      <4>1. \A k \in i..j : k \in 1..Len(a)
        BY <3>1
      <4> QED
        BY <1>2, <2>1, <4>1 DEF ContextRun
    <3> QED
      BY <1>4, <3>1, <3>2 DEF BodyAsked
  <2>4. CASE i > Len(a)
    <3>1. j - i + 1 <= Len(m)
      BY <1>2, <1>4, <2>4
    <3>2. j - i + 1 <= c
      BY <1>2, <1>4, <3>1
    <3> QED
      BY <3>2, <1>4
  <2> QED
    BY <1>2, <1>4, <2>2, <2>3, <2>4
<1> QED
  BY <1>4 DEF Asked

(* What is added at its end leaves the beginning of a hunk alone. *)
LEMMA HeadStays ==
  ASSUME NEW c \in Nat, NEW x, NEW y, NEW a \in Seq(HunkLine), NEW b \in Seq(HunkLine),
         HeadAsked(a, c, x, y), NEW lines, lines = Join(a, b)
  PROVE  HeadAsked(lines, c, x, y)
<1>1. /\ Len(lines) = Len(a) + Len(b) /\ Len(a) \in Nat /\ Len(b) \in Nat
      /\ \A i \in 1..Len(a) : lines[i] = a[i]
  BY JoinElements DEF Joined
<1> QED
  BY <1>1 DEF HeadAsked, ContextRun

(* What is added at its end is the end of a hunk. *)
LEMMA TailAdded ==
  ASSUME NEW a \in Seq(HunkLine), NEW m, OnlyContext(m), NEW lines, lines = Join(a, m)
  PROVE  TailAsked(lines, Len(m))
<1>1. m \in Seq(HunkLine) /\ \A i \in 1..Len(m) : m[i].kind = "Context"
  BY DEF OnlyContext
<1>2. /\ Len(lines) = Len(a) + Len(m) /\ Len(a) \in Nat /\ Len(m) \in Nat
      /\ \A i \in 1..Len(m) : lines[Len(a) + i] = m[i]
  <2>1. Joined(lines, a, m)
    BY <1>1, JoinElements
  <2> QED
    BY <2>1 DEF Joined
<1>3. ASSUME NEW j \in Len(lines) - Len(m) + 1..Len(lines) PROVE lines[j].kind = "Context"
  <2> DEFINE i == j - Len(a)
  <2>1. i \in 1..Len(m) /\ Len(a) + i = j
    BY <1>2
  <2> QED
    BY <1>1, <1>2, <2>1
<1>4. Len(m) <= Len(lines)
  BY <1>2
<1> QED
  BY <1>3, <1>4 DEF TailAsked, ContextRun

-----------------------------------------------------------------------------
(* Where the steps of the state machine stand in the script *)

(* Where edit i begins, or the text ends. *)
OldStart(s, sc, i) == IF i <= Len(sc) THEN sc[i].old.offset ELSE Len(s)
NewStart(t, sc, i) == IF i <= Len(sc) THEN sc[i].new.offset ELSE Len(t)

(* The numbers of one edit of a script and its place in the texts. *)
LEMMA EditFacts ==
  ASSUME NEW s, NEW t, NEW sc, GoodScript(s, t, sc), NEW i \in 1..Len(sc)
  PROVE  /\ sc[i] \in Edits /\ Len(sc) \in Nat /\ Follows(s, t, sc, i - 1, sc[i])
         /\ sc[i].old.offset \in Nat /\ sc[i].old.len \in Nat
         /\ sc[i].new.offset \in Nat /\ sc[i].new.len \in Nat
         /\ sc[i].old.len + sc[i].new.len > 0
         /\ OldEnd(sc, i) = sc[i].old.offset + sc[i].old.len /\ OldEnd(sc, i) <= Len(s)
         /\ NewEnd(sc, i) = sc[i].new.offset + sc[i].new.len /\ NewEnd(sc, i) <= Len(t)
<1>1. sc \in Seq(Edits) /\ Len(sc) \in Nat /\ Follows(s, t, sc, i - 1, sc[i])
  BY DEF GoodScript, Chained
<1>2. sc[i] \in Edits /\ i # 0
  BY <1>1
<1>3. /\ sc[i].old.offset \in Nat /\ sc[i].old.len \in Nat
      /\ sc[i].new.offset \in Nat /\ sc[i].new.len \in Nat
  BY <1>2 DEF Edits, Ranges
<1> QED
  BY <1>1, <1>2, <1>3 DEF Follows, OldEnd, NewEnd, RangeEnd

(* After every edit comes a stretch of equal lines. *)
LEMMA ScriptGap ==
  ASSUME NEW s, NEW t, NEW sc, GoodScript(s, t, sc), NEW i \in 0..Len(sc)
  PROVE  /\ Gap(s, t, OldEnd(sc, i), NewEnd(sc, i), OldStart(s, sc, i + 1), NewStart(t, sc, i + 1))
         /\ i # 0 /\ i + 1 <= Len(sc) => OldEnd(sc, i) < OldStart(s, sc, i + 1)
<1>0. sc \in Seq(Edits) /\ Len(sc) \in Nat
  BY DEF GoodScript, Chained
<1>1. CASE i = Len(sc)
  <2>1. ~(i + 1 <= Len(sc))
    BY <1>0, <1>1
  <2> QED
    BY <1>1, <2>1 DEF GoodScript, OldStart, NewStart
<1>2. CASE i # Len(sc)
  <2> DEFINE k == i + 1
  <2>1. k \in 1..Len(sc) /\ k - 1 = i /\ k <= Len(sc)
    BY <1>0, <1>2
  <2>2. Follows(s, t, sc, i, sc[k])
    BY <2>1, EditFacts
  <2>3. OldStart(s, sc, k) = sc[k].old.offset /\ NewStart(t, sc, k) = sc[k].new.offset
    BY <2>1 DEF OldStart, NewStart
  <2> QED
    BY <2>1, <2>2, <2>3 DEF Follows
<1> QED
  BY <1>1, <1>2

(* The context that is shown below an edit. *)
LEMMA PostContextFacts ==
  ASSUME contextLen \in Nat, Len(old) \in Nat, Len(new) \in Nat,
         NEW e, NEW x \in Nat, NEW y \in Nat, x = RangeEnd(e.old), y = RangeEnd(e.new),
         x <= Len(old), y <= Len(new), NEW k, k = PostContext(e)
  PROVE  /\ k \in Nat /\ k <= contextLen /\ x + k <= Len(old) /\ y + k <= Len(new)
         /\ k = contextLen \/ x + k = Len(old) \/ y + k = Len(new)
<1>1. k = Min2(contextLen, Min2(SaturatingSub(Len(old), x), SaturatingSub(Len(new), y)))
  BY DEF PostContext
<1>2. SaturatingSub(Len(old), x) = Len(old) - x /\ SaturatingSub(Len(new), y) = Len(new) - y
  BY DEF SaturatingSub, Max2
<1>3. k = Min2(contextLen, Min2(Len(old) - x, Len(new) - y))
  BY <1>1, <1>2
<1> QED
  BY SMTT(60), <1>3 DEF Min2

-----------------------------------------------------------------------------
(***************************************************************************)
(* The inductive invariant                                                 *)
(***************************************************************************)

TextsInv == old \in Seq(Symbol) /\ new \in Seq(Symbol) /\ contextLen \in Nat

(* Before the script is made. *)
StartInv ==
  step = "script" =>
    /\ solution \in Seq(DiffRange) /\ Aligns(solution, old, new)
    /\ \A i \in DOMAIN solution : ~IsEmpty(solution[i])
    /\ idx = 1 /\ hunk = NoHunk /\ hunks = <<>>

ScriptInv ==
  step # "script" => GoodScript(old, new, script) /\ idx \in 1..Len(script) + 1

(* A hunk shows the context that is asked for, ... *)
HunkAsked(s, t, h, c) ==
  /\ Asked(h.lines, c)
  /\ HeadAsked(h.lines, c, OldFrom(h), NewFrom(h))
  /\ TailAsked(h.lines, c) \/ (OldTo(h) = Len(s) /\ NewTo(h) = Len(t))

(* ... and with context an empty range is the beginning of its text. *)
InPlace(h) == (h.old.len = 0 => OldFrom(h) = 0) /\ (h.new.len = 0 => NewFrom(h) = 0)

ClosedInv ==
  /\ HunkChain(old, new, hunks)
  /\ \A i \in 1..Len(hunks) : /\ HunkAsked(old, new, hunks[i], contextLen)
                              /\ contextLen > 0 => InPlace(hunks[i])

(* Where the last hunk that is closed ends. *)
ClosedOld == LastOld(hunks, Len(hunks))
ClosedNew == LastNew(hunks, Len(hunks))

(* Between hunks: up to the next edit there is nothing but equal lines, and
   enough of them for its context. *)
BetweenInv ==
  step \in {"next", "done"} =>
    /\ hunk = NoHunk
    /\ Gap(old, new, ClosedOld, ClosedNew, OldStart(old, script, idx), NewStart(new, script, idx))
    /\ Len(hunks) # 0 /\ idx <= Len(script) =>
         /\ ClosedOld + contextLen <= OldStart(old, script, idx)
         /\ ClosedOld < OldStart(old, script, idx)
    /\ step = "done" => idx = Len(script) + 1

(* In a hunk: its lines say what becomes of the text up to the end of the edit
   at hand, and its ends are where its context will end. *)
OpenInv ==
  step = "open" =>
    /\ idx <= Len(script)
    /\ hunk \in [start1 : Nat, start2 : Nat, end1 : Nat, end2 : Nat, lines : Seq(HunkLine)]
    /\ hunk.end1 = OldEnd(script, idx) + PostContext(script[idx])
    /\ hunk.end2 = NewEnd(script, idx) + PostContext(script[idx])
    /\ Says(old, new, hunk.lines, hunk.start1, hunk.start2, OldEnd(script, idx), NewEnd(script, idx))
    /\ Gap(old, new, ClosedOld, ClosedNew, hunk.start1, hunk.start2)
    /\ Len(hunks) # 0 => /\ ClosedOld < hunk.start1 \/ hunk.start1 < OldEnd(script, idx)
                         /\ ClosedNew < hunk.start2 \/ hunk.start2 < NewEnd(script, idx)
    /\ contextLen > 0 => /\ hunk.start1 = 0 \/ hunk.start1 < OldEnd(script, idx)
                         /\ hunk.start2 = 0 \/ hunk.start2 < NewEnd(script, idx)
    /\ BodyAsked(hunk.lines, contextLen)
    /\ HeadAsked(hunk.lines, contextLen, hunk.start1, hunk.start2)

HInv ==
  /\ step \in {"script", "next", "open", "done"}
  /\ TextsInv /\ StartInv /\ ScriptInv /\ ClosedInv /\ BetweenInv /\ OpenInv

-----------------------------------------------------------------------------

(* No hunks are the beginning of any patch. *)
LEMMA NoHunksChain ==
  ASSUME NEW s, NEW t
  PROVE  HunkChain(s, t, <<>>) /\ LastOld(<<>>, Len(<<>>)) = 0 /\ LastNew(<<>>, Len(<<>>)) = 0
<1>1. Len(<<>>) = 0 /\ <<>> \in Seq(PatchHunk)
  OBVIOUS
<1> QED
  BY <1>1 DEF HunkChain, LastOld, LastNew

(* What to_hunks is given is an alignment without empty items. *)
LEMMA InitHInv == Init => HInv
<1> SUFFICES ASSUME Init PROVE HInv
  OBVIOUS
<1>1. PICK pair \in Inputs : old = pair[1] /\ new = pair[2] /\ solution \in Solutions[pair]
  BY DEF Init
<1>2. pair \in Seq(Symbol) \X Seq(Symbol) /\ contextLen \in Nat
  BY <1>1, HunksAssumption DEF Init
<1>3. old \in Seq(Symbol) /\ new \in Seq(Symbol)
  BY <1>1, <1>2
<1>4. /\ solution \in Seq(DiffRange) /\ Aligns(solution, old, new)
      /\ \A i \in DOMAIN solution : ~IsEmpty(solution[i])
  BY <1>1, HunksAssumption
<1>5. step = "script" /\ idx = 1 /\ hunk = NoHunk /\ hunks = <<>>
  BY DEF Init
<1>6. ClosedInv
  <2>1. Len(hunks) = 0 /\ HunkChain(old, new, hunks)
    BY <1>5, NoHunksChain
  <2> QED
    BY <2>1 DEF ClosedInv
<1> QED
  BY <1>2, <1>3, <1>4, <1>5, <1>6 DEF HInv, TextsInv, StartInv, ScriptInv, BetweenInv, OpenInv

(* The script is a good one, and before its first edit the texts are equal. *)
LEMMA MakeScriptHInv ==
  ASSUME HInv, MakeScript
  PROVE  HInv'
<1>1. /\ step = "script" /\ script' = BuildEditScript(solution) /\ step' = "next"
      /\ UNCHANGED <<old, new, solution, contextLen, idx, hunk, hunks>>
  BY DEF MakeScript, given
<1>2. /\ old \in Seq(Symbol) /\ new \in Seq(Symbol)
      /\ solution \in Seq(DiffRange) /\ Aligns(solution, old, new)
      /\ \A i \in DOMAIN solution : ~IsEmpty(solution[i])
      /\ idx = 1 /\ hunk = NoHunk /\ hunks = <<>>
  BY <1>1 DEF HInv, TextsInv, StartInv
<1>3. Len(old) \in Nat /\ Len(new) \in Nat
  BY <1>2
<1>4. GoodScript(old, new, script')
  BY <1>1, <1>2, <1>3, ScriptIsGood
<1> DEFINE sc == script'
<1> HIDE DEF sc
<1>5. GoodScript(old, new, sc) /\ Len(sc) \in Nat
  BY <1>4 DEF sc, GoodScript, Chained
<1>6. Gap(old, new, 0, 0, OldStart(old, sc, 1), NewStart(new, sc, 1))
  <2>1. 0 \in 0..Len(sc) /\ 0 + 1 = 1
    BY <1>5
  <2>2. OldEnd(sc, 0) = 0 /\ NewEnd(sc, 0) = 0
    BY DEF OldEnd, NewEnd
  <2> QED
    BY <1>5, <2>1, <2>2, ScriptGap
<1>7. LastOld(hunks, Len(hunks)) = 0 /\ LastNew(hunks, Len(hunks)) = 0 /\ Len(hunks) = 0
  BY <1>2, NoHunksChain
<1>8. BetweenInv'
  BY <1>1, <1>2, <1>6, <1>7 DEF BetweenInv, ClosedOld, ClosedNew, sc
<1>9. ScriptInv'
  BY <1>1, <1>2, <1>5 DEF ScriptInv, sc
<1>10. TextsInv' /\ ClosedInv'
  BY <1>1 DEF HInv, TextsInv, ClosedInv
<1> QED
  BY <1>1, <1>8, <1>9, <1>10 DEF HInv, StartInv, OpenInv

-----------------------------------------------------------------------------
(* Opening a hunk *)

(* The last hunk ends at p and q, or there is none (n = 0) and p = q = 0; the
   next edit begins at a and b. *)
Room(a, b, p, q, c, n) ==
  /\ p <= a /\ q <= b /\ a - p = b - q
  /\ n # 0 => p + c <= a /\ p < a
  /\ n = 0 => p = 0 /\ q = 0

(* A hunk that begins at x and y shows the context above that edit. *)
Opens(a, b, p, q, c, n, x, y) ==
  /\ x \in Nat /\ y \in Nat /\ p <= x /\ x <= a /\ y <= b
  /\ x - p = y - q /\ a - x = b - y /\ a - x <= c
  /\ (x = 0 /\ y = 0) \/ a - x = c
  /\ c > 0 => (x = 0 \/ x < a) /\ (y = 0 \/ y < b)
  /\ n # 0 => (p < x \/ x < a) /\ (q < y \/ y < b)

(* Going contextLen lines up from the edit stays behind the last hunk, and goes
   equally far in both texts. *)
LEMMA OpenNumbers ==
  ASSUME NEW a \in Nat, NEW b \in Nat, NEW p \in Nat, NEW q \in Nat, NEW c \in Nat, NEW n \in Nat,
         Room(a, b, p, q, c, n),
         NEW x, NEW y, x = SaturatingSub(a, c), y = SaturatingSub(b, c)
  PROVE  Opens(a, b, p, q, c, n, x, y)
<1>0. /\ p <= a /\ q <= b /\ a - p = b - q
      /\ n # 0 => p + c <= a /\ p < a
      /\ n = 0 => p = 0 /\ q = 0
  BY DEF Room
<1>1. x = (IF a >= c THEN a - c ELSE 0) /\ y = (IF b >= c THEN b - c ELSE 0)
  BY DEF SaturatingSub, Max2
<1>2. CASE n # 0
  <2>1. a >= c /\ b >= c /\ x = a - c /\ y = b - c
    BY <1>0, <1>1, <1>2
  <2> QED
    BY <1>0, <1>2, <2>1 DEF Opens
<1>3. CASE n = 0
  BY <1>0, <1>1, <1>3 DEF Opens
<1> QED
  BY <1>2, <1>3

(* What Context takes of new: context lines, one for each line. *)
LEMMA ContextLines ==
  ASSUME new \in Seq(Symbol), NEW y \in Nat, NEW v \in Nat, y <= v, v <= Len(new)
  PROVE  /\ OnlyContext(Context(y, v)) /\ Len(Context(y, v)) = v - y
         /\ Context(y, v) = LinesOf("Context", new, y, v)
<1> DEFINE lines == LinesOf("Context", new, y, v)
<1>1. "Context" \in LineKinds
  BY DEF LineKinds
<1>2. lines \in Seq(HunkLine) /\ Taken(lines, "Context", new, y, v)
  BY <1>1, LinesOfType
<1> HIDE DEF lines
<1>3. Len(lines) = v - y /\ \A i \in 1..Len(lines) : lines[i].kind = "Context"
  BY <1>2 DEF Taken
<1> QED
  BY <1>2, <1>3 DEF Context, OnlyContext, lines

(* An edit changes something, and shows no context. *)
LEMMA ChangeLines ==
  ASSUME old \in Seq(Symbol), new \in Seq(Symbol), NEW e \in Edits, e.old.len + e.new.len > 0,
         RangeEnd(e.old) <= Len(old), RangeEnd(e.new) <= Len(new)
  PROVE  NoContext(Change(e)) /\ Len(Change(e)) # 0
<1> DEFINE x == e.old.offset
           u == RangeEnd(e.old)
           y == e.new.offset
           v == RangeEnd(e.new)
           gone == LinesOf("Delete", old, x, u)
           come == LinesOf("Insert", new, y, v)
<1>1. /\ x \in Nat /\ y \in Nat /\ u \in Nat /\ v \in Nat /\ x <= u /\ y <= v
      /\ u - x = e.old.len /\ v - y = e.new.len /\ e.old.len \in Nat /\ e.new.len \in Nat
  BY DEF Edits, Ranges, RangeEnd
<1>2. u <= Len(old) /\ v <= Len(new)
  OBVIOUS
<1>3. Change(e) = Join(gone, come)
  BY DEF Change, Join
<1> HIDE DEF x, u, y, v
<1>4. "Delete" \in LineKinds /\ "Insert" \in LineKinds
  BY DEF LineKinds
<1>5. gone \in Seq(HunkLine) /\ Taken(gone, "Delete", old, x, u)
  BY <1>1, <1>2, <1>4, LinesOfType
<1>6. come \in Seq(HunkLine) /\ Taken(come, "Insert", new, y, v)
  BY <1>1, <1>2, <1>4, LinesOfType
<1> DEFINE both == Join(gone, come)
<1> HIDE DEF gone, come
<1>7. both \in Seq(HunkLine) /\ Joined(both, gone, come)
  BY <1>5, <1>6, JoinElements
<1> HIDE DEF both
<1>8. Len(gone) = u - x /\ \A i \in 1..Len(gone) : gone[i].kind = "Delete"
  BY <1>5 DEF Taken
<1>9. Len(come) = v - y /\ \A i \in 1..Len(come) : come[i].kind = "Insert"
  BY <1>6 DEF Taken
<1>10. /\ Len(both) = Len(gone) + Len(come) /\ Len(gone) \in Nat /\ Len(come) \in Nat
       /\ \A i \in 1..Len(gone) : both[i] = gone[i]
       /\ \A i \in 1..Len(come) : both[Len(gone) + i] = come[i]
  BY <1>7 DEF Joined
<1>11. ASSUME NEW i \in 1..Len(both) PROVE both[i].kind # "Context"
  <2>1. CASE i <= Len(gone)
    <3>1. i \in 1..Len(gone)
      BY <1>10, <2>1
    <3> QED
      BY <1>8, <1>10, <3>1
  <2>2. CASE i > Len(gone)
    <3> DEFINE k == i - Len(gone)
    <3>1. k \in 1..Len(come) /\ Len(gone) + k = i
      BY <1>10, <2>2
    <3>2. both[i] = come[k]
      BY <1>10, <3>1
    <3> QED
      BY <1>9, <3>1, <3>2
  <2> QED
    BY <1>10, <2>1, <2>2
<1>12. Len(both) # 0
  BY <1>1, <1>8, <1>9, <1>10
<1> QED
  BY <1>3, <1>7, <1>11, <1>12 DEF NoContext, both

(* What lies between the last hunk and the edit at hand, while walking. *)
LEMMA BetweenFacts ==
  ASSUME HInv, step = "next", idx <= Len(script)
  PROVE  /\ GoodScript(old, new, script) /\ idx \in 1..Len(script)
         /\ ClosedOld \in Nat /\ ClosedNew \in Nat /\ Len(hunks) \in Nat
         /\ Gap(old, new, ClosedOld, ClosedNew, script[idx].old.offset, script[idx].new.offset)
         /\ Len(hunks) # 0 => /\ ClosedOld + contextLen <= script[idx].old.offset
                              /\ ClosedOld < script[idx].old.offset
         /\ Len(hunks) = 0 => ClosedOld = 0 /\ ClosedNew = 0
<1>1. /\ GoodScript(old, new, script) /\ idx \in 1..Len(script) + 1
      /\ BetweenInv /\ ClosedInv
  BY DEF HInv, ScriptInv
<1>2. Len(script) \in Nat
  BY <1>1 DEF GoodScript, Chained
<1>3. idx \in 1..Len(script)
  BY <1>1, <1>2
<1>4. /\ OldStart(old, script, idx) = script[idx].old.offset
      /\ NewStart(new, script, idx) = script[idx].new.offset
  BY DEF OldStart, NewStart
<1>5. Gap(old, new, ClosedOld, ClosedNew, script[idx].old.offset, script[idx].new.offset)
  BY <1>1, <1>4 DEF BetweenInv
<1>6. Len(hunks) # 0 => /\ ClosedOld + contextLen <= script[idx].old.offset
                        /\ ClosedOld < script[idx].old.offset
  BY <1>1, <1>4 DEF BetweenInv
<1>7. hunks \in Seq(PatchHunk)
  BY <1>1 DEF ClosedInv, HunkChain
<1>8. Len(hunks) = 0 => ClosedOld = 0 /\ ClosedNew = 0
  BY DEF ClosedOld, ClosedNew, LastOld, LastNew
<1> QED
  BY <1>1, <1>3, <1>5, <1>6, <1>7, <1>8 DEF Gap

(* The edit at hand and its numbers. *)
LEMMA EditAtHand ==
  ASSUME TextsInv, GoodScript(old, new, script), NEW i \in 1..Len(script), NEW e, e = script[i]
  PROVE  /\ e \in Edits /\ e.old.offset \in Nat /\ e.new.offset \in Nat
         /\ e.old.len + e.new.len > 0
         /\ OldEnd(script, i) = RangeEnd(e.old) /\ NewEnd(script, i) = RangeEnd(e.new)
         /\ RangeEnd(e.old) \in Nat /\ RangeEnd(e.new) \in Nat
         /\ e.old.offset <= RangeEnd(e.old) /\ e.new.offset <= RangeEnd(e.new)
         /\ RangeEnd(e.old) <= Len(old) /\ RangeEnd(e.new) <= Len(new)
         /\ Len(old) \in Nat /\ Len(new) \in Nat
<1>1. /\ e \in Edits /\ e.old.offset \in Nat /\ e.old.len \in Nat
      /\ e.new.offset \in Nat /\ e.new.len \in Nat /\ e.old.len + e.new.len > 0
      /\ OldEnd(script, i) = e.old.offset + e.old.len /\ OldEnd(script, i) <= Len(old)
      /\ NewEnd(script, i) = e.new.offset + e.new.len /\ NewEnd(script, i) <= Len(new)
  BY EditFacts
<1>2. Len(old) \in Nat /\ Len(new) \in Nat
  BY DEF TextsInv
<1>3. RangeEnd(e.old) = e.old.offset + e.old.len /\ RangeEnd(e.new) = e.new.offset + e.new.len
  BY DEF RangeEnd
<1> QED
  BY SMTT(60), <1>1, <1>2, <1>3

(* The hunk begins as far above its edit as there is context, but not
   before the hunk that was closed last: they were kept apart. *)
LEMMA OpenHunkHInv ==
  ASSUME HInv, OpenHunk
  PROVE  HInv'
<1> DEFINE e == script[idx]
           a == e.old.offset
           b == e.new.offset
           c == contextLen
           x == SaturatingSub(a, c)
           y == SaturatingSub(b, c)
           p == ClosedOld
           q == ClosedNew
           u == RangeEnd(e.old)
           v == RangeEnd(e.new)
           k == PostContext(e)
           lead == Context(y, b)
           change == Change(e)
           lines == Join(lead, change)
<1>1. /\ step = "next" /\ idx <= Len(script) /\ step' = "open"
      /\ UNCHANGED <<old, new, solution, contextLen, script, idx, hunks>>
      /\ hunk' = [start1 |-> x, start2 |-> y, end1 |-> u + k, end2 |-> v + k, lines |-> lines]
  BY DEF OpenHunk, given, Join
<1>2. TextsInv /\ old \in Seq(Symbol) /\ new \in Seq(Symbol) /\ c \in Nat
  BY DEF HInv, TextsInv
<1>3. /\ GoodScript(old, new, script) /\ idx \in 1..Len(script)
      /\ p \in Nat /\ q \in Nat /\ Len(hunks) \in Nat
      /\ Gap(old, new, p, q, a, b)
      /\ Len(hunks) # 0 => p + c <= a /\ p < a
      /\ Len(hunks) = 0 => p = 0 /\ q = 0
  BY <1>1, BetweenFacts
<1>4. /\ e \in Edits /\ a \in Nat /\ b \in Nat /\ e.old.len + e.new.len > 0
      /\ OldEnd(script, idx) = u /\ NewEnd(script, idx) = v
      /\ u \in Nat /\ v \in Nat /\ a <= u /\ b <= v /\ u <= Len(old) /\ v <= Len(new)
      /\ Len(old) \in Nat /\ Len(new) \in Nat
  BY <1>2, <1>3, EditAtHand
<1> HIDE DEF a, b, p, q, u, v, k, change, lead, lines
<1>5. k \in Nat
  BY <1>2, <1>4, PostContextFacts DEF k, u, v
<1>6. p <= a /\ q <= b /\ a - p = b - q
  BY <1>3 DEF Gap
<1> DEFINE n == Len(hunks)
<1>20. Room(a, b, p, q, c, n)
  BY <1>3, <1>6 DEF Room
<1>21. x = SaturatingSub(a, c) /\ y = SaturatingSub(b, c) /\ n \in Nat
  BY <1>3
<1> HIDE DEF x, y, n, c
<1>22. Opens(a, b, p, q, c, n, x, y)
  BY <1>2, <1>3, <1>4, <1>20, <1>21, OpenNumbers
<1>7. /\ x \in Nat /\ y \in Nat /\ p <= x /\ x <= a /\ y <= b
      /\ x - p = y - q /\ a - x = b - y /\ a - x <= c
      /\ (x = 0 /\ y = 0) \/ a - x = c
      /\ c > 0 => (x = 0 \/ x < a) /\ (y = 0 \/ y < b)
      /\ n # 0 => (p < x \/ x < a) /\ (q < y \/ y < b)
  BY <1>22 DEF Opens
<1>8. Gap(old, new, p, q, x, y) /\ Gap(old, new, x, y, a, b)
  BY <1>3, <1>4, <1>7, GapCut
<1>9. OnlyContext(lead) /\ Len(lead) = b - y /\ lead = LinesOf("Context", new, y, b)
  <2>1. b <= Len(new)
    BY <1>4
  <2> QED
    BY <1>2, <1>4, <1>7, <2>1, ContextLines DEF lead
<1>10. NoContext(change) /\ Len(change) # 0
  BY <1>2, <1>4, ChangeLines DEF change, u, v
<1>11. Says(old, new, lead, x, y, a, b)
  BY <1>2, <1>8, <1>9, ContextSays
<1>12. Says(old, new, change, a, b, u, v)
  BY <1>2, <1>4, ChangeSays DEF change, u, v, a, b
<1>13. Says(old, new, lines, x, y, u, v)
  BY <1>2, <1>11, <1>12, SaysJoin DEF lines
<1>14. BodyAsked(lines, c)
  <2>1. Len(lead) <= c
    BY <1>7, <1>9
  <2> QED
    BY <1>2, <1>9, <1>10, <2>1, BodyOpens DEF lines
<1>15. HeadAsked(lines, c, x, y)
  <2>1. lead \in Seq(HunkLine) /\ change \in Seq(HunkLine)
    BY <1>9, <1>10 DEF OnlyContext, NoContext
  <2>2. HeadAsked(lead, c, x, y)
    <3>1. CASE x = 0 /\ y = 0
      BY <3>1 DEF HeadAsked
    <3>2. CASE a - x = c
      <4>1. Len(lead) = c
        BY <1>7, <1>9, <3>2
      <4> QED
        BY <1>2, <1>9, <4>1 DEF HeadAsked, ContextRun, OnlyContext
    <3> QED
      BY <1>7, <3>1, <3>2
  <2> QED
    BY <1>2, <2>1, <2>2, HeadStays DEF lines
<1>16. lines \in Seq(HunkLine)
  BY <1>13 DEF Says
<1>17. OpenInv'
  <2> DEFINE h == hunk'
  <2>1. /\ h = [start1 |-> x, start2 |-> y, end1 |-> u + k, end2 |-> v + k, lines |-> lines]
        /\ idx' = idx /\ script' = script /\ contextLen' = c
    BY <1>1 DEF c
  <2>2. /\ h.start1 = x /\ h.start2 = y /\ h.end1 = u + k /\ h.end2 = v + k /\ h.lines = lines
    BY <2>1
  <2>3. h \in [start1 : Nat, start2 : Nat, end1 : Nat, end2 : Nat, lines : Seq(HunkLine)]
    <3>1. u + k \in Nat /\ v + k \in Nat
      BY <1>4, <1>5
    <3> QED
      BY <1>7, <1>16, <2>1, <3>1
  <2> HIDE DEF h
  <2>4. /\ OldEnd(script', idx') = u /\ NewEnd(script', idx') = v
        /\ ClosedOld' = p /\ ClosedNew' = q /\ PostContext(script[idx])' = k
    <3>1. OldEnd(script', idx') = u /\ NewEnd(script', idx') = v
      BY <1>1, <1>4
    <3>2. ClosedOld' = p /\ ClosedNew' = q
      BY <1>1 DEF ClosedOld, ClosedNew, p, q
    <3>3. PostContext(script[idx])' = k
      BY <1>1 DEF PostContext, k, e
    <3> QED
      BY <3>1, <3>2, <3>3
  <2>5. n # 0 => (p < x \/ x < u) /\ (q < y \/ y < v)
    <3>1. n # 0 => (p < x \/ x < a) /\ (q < y \/ y < b)
      BY <1>7
    <3>2. (x < a => x < u) /\ (y < b => y < v)
      BY <1>4, <1>7
    <3> QED
      BY <3>1, <3>2
  <2>6. c > 0 => (x = 0 \/ x < u) /\ (y = 0 \/ y < v)
    BY <1>4, <1>7
  <2>7. /\ old' = old /\ new' = new /\ Len(hunks') = n /\ idx' <= Len(script')
    BY <1>1 DEF n
  <2> QED
    BY <1>8, <1>13, <1>14, <1>15, <2>1, <2>2, <2>3, <2>4, <2>5, <2>6, <2>7 DEF OpenInv, h
<1>18. TextsInv' /\ ScriptInv' /\ ClosedInv'
  BY <1>1 DEF HInv, TextsInv, ScriptInv, ClosedInv
<1> QED
  BY <1>1, <1>17, <1>18 DEF HInv, StartInv, BetweenInv

-----------------------------------------------------------------------------
(* Going on in a hunk, or closing it *)

(* What is known of the hunk that is open: the edit at hand ends at p and q. *)
HunkOpen(h, i, p, q, k) ==
  /\ i \in 1..Len(script) /\ Len(script) \in Nat
  /\ p = OldEnd(script, i) /\ q = NewEnd(script, i) /\ k = PostContext(script[i])
  /\ p \in Nat /\ q \in Nat /\ p <= Len(old) /\ q <= Len(new)
  /\ Len(old) \in Nat /\ Len(new) \in Nat
  /\ k \in Nat /\ k <= contextLen /\ p + k <= Len(old) /\ q + k <= Len(new)
  /\ k = contextLen \/ p + k = Len(old) \/ q + k = Len(new)
  /\ h.start1 \in Nat /\ h.start2 \in Nat /\ h.lines \in Seq(HunkLine)
  /\ h.end1 = p + k /\ h.end2 = q + k

(* What is known of the open hunk, said of the places it stands at. *)
LEMMA OpenFacts ==
  ASSUME HInv, step = "open", NEW p, NEW q, NEW k, p = OldEnd(script, idx), q = NewEnd(script, idx),
         k = PostContext(script[idx])
  PROVE  /\ GoodScript(old, new, script) /\ HunkOpen(hunk, idx, p, q, k)
         /\ old \in Seq(Symbol) /\ new \in Seq(Symbol) /\ contextLen \in Nat
<1>1. /\ TextsInv /\ ScriptInv /\ OpenInv
  BY DEF HInv
<1>2. old \in Seq(Symbol) /\ new \in Seq(Symbol) /\ contextLen \in Nat
  BY <1>1 DEF TextsInv
<1>3. GoodScript(old, new, script) /\ idx \in 1..Len(script) + 1 /\ idx <= Len(script)
  BY <1>1 DEF ScriptInv, OpenInv
<1>4. Len(script) \in Nat
  BY <1>3 DEF GoodScript, Chained
<1>5. idx \in 1..Len(script)
  BY <1>3, <1>4
<1> DEFINE e == script[idx]
<1>6. /\ p = RangeEnd(e.old) /\ q = RangeEnd(e.new) /\ p \in Nat /\ q \in Nat
      /\ p <= Len(old) /\ q <= Len(new) /\ Len(old) \in Nat /\ Len(new) \in Nat
  BY <1>1, <1>3, <1>5, EditAtHand
<1>7. /\ k \in Nat /\ k <= contextLen /\ p + k <= Len(old) /\ q + k <= Len(new)
      /\ k = contextLen \/ p + k = Len(old) \/ q + k = Len(new)
  BY <1>2, <1>6, PostContextFacts
<1>8. /\ hunk \in [start1 : Nat, start2 : Nat, end1 : Nat, end2 : Nat, lines : Seq(HunkLine)]
      /\ hunk.end1 = p + k /\ hunk.end2 = q + k
  BY <1>1 DEF OpenInv
<1>9. hunk.start1 \in Nat /\ hunk.start2 \in Nat /\ hunk.lines \in Seq(HunkLine)
  BY <1>8
<1> QED
  BY <1>2, <1>3, <1>4, <1>5, <1>6, <1>7, <1>8, <1>9 DEF HunkOpen

(* Between two edits there is at least one line, and equally many in both texts. *)
LEMMA NextEdit ==
  ASSUME GoodScript(old, new, script), NEW i \in 1..Len(script), i + 1 <= Len(script),
         NEW p, NEW q, p = OldEnd(script, i), q = NewEnd(script, i),
         NEW e, e = script[i + 1], NEW a, NEW b, a = e.old.offset, b = e.new.offset
  PROVE  /\ Gap(old, new, p, q, a, b) /\ p < a /\ q < b
         /\ a \in Nat /\ b \in Nat /\ p \in Nat /\ q \in Nat /\ a - p = b - q
<1>1. Len(script) \in Nat
  BY DEF GoodScript, Chained
<1>2. i \in 0..Len(script) /\ i # 0
  BY <1>1
<1>3. /\ Gap(old, new, p, q, OldStart(old, script, i + 1), NewStart(new, script, i + 1))
      /\ p < OldStart(old, script, i + 1)
  BY <1>2, ScriptGap
<1>4. OldStart(old, script, i + 1) = a /\ NewStart(new, script, i + 1) = b
  BY DEF OldStart, NewStart
<1>5. Gap(old, new, p, q, a, b) /\ p < a
  BY <1>3, <1>4
<1>6. /\ a \in Nat /\ b \in Nat /\ p \in Nat /\ q \in Nat /\ a - p = b - q
  BY <1>5 DEF Gap
<1> QED
  BY <1>5, <1>6

(* Contexts that touch have at most 2 * contextLen lines together, ... *)
LEMMA Close ==
  ASSUME NEW e, NEW a \in Nat, a = e.old.offset, a <= Len(old), Len(old) \in Nat,
         contextLen \in Nat, NEW p \in Nat, NEW k \in Nat, k <= contextLen, hunk.end1 = p + k,
         Overlaps(e)
  PROVE  a - p <= 2 * contextLen
<1> DEFINE c == contextLen
           l == Len(old)
           m == Min2(a, l - 1)
           x == SaturatingSub(m, c)
<1>1. x < p + k
  BY DEF Overlaps
<1>2. m = (IF a <= l - 1 THEN a ELSE l - 1) /\ c \in Nat /\ l \in Nat /\ a <= l /\ k <= c
  BY DEF Min2
<1>3. x = (IF m - c >= 0 THEN m - c ELSE 0)
  BY <1>2 DEF SaturatingSub, Max2
<1> HIDE DEF x, m, c, l
<1>4. a - 1 <= m /\ m \in Int
  BY <1>2
<1>5. m - c <= x /\ x \in Nat
  BY SMTT(60), <1>2, <1>3, <1>4
<1>6. a - p <= c + c
  <2>1. c \in Nat /\ k <= c
    BY <1>2
  <2>2. a - 1 - c < p + k
    BY <1>1, <1>4, <1>5, <2>1
  <2> QED
    BY SMTT(60), <2>1, <2>2
<1>7. c + c = 2 * contextLen
  BY DEF c
<1> QED
  BY <1>6, <1>7

(* ... and if they do not touch there is room for both. *)
LEMMA Apart ==
  ASSUME NEW e, NEW a \in Nat, a = e.old.offset, a <= Len(old), Len(old) \in Nat,
         contextLen \in Nat, NEW p \in Nat, NEW k \in Nat, k <= contextLen, hunk.end1 = p + k,
         p < a, k = contextLen \/ p + k >= a, ~Overlaps(e)
  PROVE  p + k + contextLen <= a /\ p + k < a
<1> DEFINE c == contextLen
           l == Len(old)
           m == Min2(a, l - 1)
           x == SaturatingSub(m, c)
<1>1. ~(x < p + k)
  BY DEF Overlaps
<1>2. /\ m = (IF a <= l - 1 THEN a ELSE l - 1) /\ c \in Nat /\ l \in Nat /\ a <= l /\ k <= c
      /\ k = c \/ p + k >= a
  BY DEF Min2
<1>3. x = (IF m - c >= 0 THEN m - c ELSE 0)
  BY <1>2 DEF SaturatingSub, Max2
<1> HIDE DEF x, m, c, l
<1>4. m <= a /\ m \in Int
  BY <1>2
<1>5. x >= p + k
  BY <1>1, <1>2, <1>3, <1>4
<1>6. CASE m - c >= 0
  <2>1. p + k + c <= a
    BY <1>2, <1>3, <1>4, <1>5, <1>6
  <2>2. p + k < a
    BY <1>2, <2>1
  <2> QED
    BY <2>1, <2>2 DEF c
<1>7. CASE ~(m - c >= 0)
  <2>1. p = 0 /\ k = 0
    BY <1>3, <1>5, <1>7
  <2>2. c = 0
    BY <1>2, <2>1
  <2> QED
    BY <2>1, <2>2 DEF c
<1> QED
  BY <1>6, <1>7

(* The context between two edits that overlap is at most twice what was
   asked for, and all of it is shown. *)
LEMMA MergeEditHInv ==
  ASSUME HInv, MergeEdit
  PROVE  HInv'
<1> DEFINE e == script[idx + 1]
           a == e.old.offset
           b == e.new.offset
           p == OldEnd(script, idx)
           q == NewEnd(script, idx)
           u == RangeEnd(e.old)
           v == RangeEnd(e.new)
           k == PostContext(script[idx])
           n == PostContext(e)
           x == hunk.start1
           y == hunk.start2
           c == contextLen
           between == Context(q, b)
           change == Change(e)
           lines == Join(Join(hunk.lines, between), change)
<1>1. /\ step = "open" /\ idx + 1 <= Len(script) /\ Overlaps(e) /\ step' = step /\ idx' = idx + 1
      /\ UNCHANGED <<old, new, solution, contextLen, script, hunks>>
  BY DEF MergeEdit, given, HasNext
<1>2. /\ GoodScript(old, new, script) /\ HunkOpen(hunk, idx, p, q, k)
      /\ old \in Seq(Symbol) /\ new \in Seq(Symbol) /\ c \in Nat
  BY <1>1, OpenFacts
<1>3. TextsInv /\ OpenInv
  BY DEF HInv
<1>4. q = RangeEnd(script[idx].new)
  BY <1>2 DEF NewEnd, HunkOpen
<1>5. hunk' = [hunk EXCEPT !.end1 = u + n, !.end2 = v + n, !.lines = lines]
  BY <1>4 DEF MergeEdit, Join
<1>6. idx + 1 \in 1..Len(script) /\ idx \in 1..Len(script)
  BY <1>1, <1>2 DEF HunkOpen
<1>7. /\ e \in Edits /\ a \in Nat /\ b \in Nat /\ e.old.len + e.new.len > 0
      /\ OldEnd(script, idx + 1) = u /\ NewEnd(script, idx + 1) = v
      /\ u \in Nat /\ v \in Nat /\ a <= u /\ b <= v /\ u <= Len(old) /\ v <= Len(new)
      /\ Len(old) \in Nat /\ Len(new) \in Nat
  BY <1>2, <1>3, <1>6, EditAtHand
<1>8. /\ Gap(old, new, p, q, a, b) /\ p < a /\ q < b
      /\ p \in Nat /\ q \in Nat /\ a - p = b - q
  BY <1>1, <1>2, <1>6, NextEdit
<1>9. /\ x \in Nat /\ y \in Nat /\ hunk.lines \in Seq(HunkLine)
      /\ hunk.end1 = p + k /\ k \in Nat /\ k <= c
  BY <1>2 DEF HunkOpen
<1> HIDE DEF p, q, k
<1>10. a - p <= 2 * c
  <2>1. a <= Len(old) /\ a = e.old.offset /\ contextLen \in Nat /\ k <= contextLen
    BY <1>2, <1>7, <1>9
  <2> HIDE DEF a, e
  <2> QED
    BY <1>1, <1>7, <1>8, <1>9, <2>1, Close
<1>11. n \in Nat
  BY <1>2, <1>7, PostContextFacts
<1>12. /\ Says(old, new, hunk.lines, x, y, p, q)
       /\ Gap(old, new, ClosedOld, ClosedNew, x, y)
       /\ Len(hunks) # 0 => /\ ClosedOld < x \/ x < p
                            /\ ClosedNew < y \/ y < q
       /\ c > 0 => /\ x = 0 \/ x < p
                   /\ y = 0 \/ y < q
       /\ BodyAsked(hunk.lines, c)
       /\ HeadAsked(hunk.lines, c, x, y)
  BY <1>1, <1>3 DEF OpenInv, p, q
<1> HIDE DEF a, b, u, v, n, x, y, between, change, lines
<1>13. OnlyContext(between) /\ Len(between) = b - q /\ between = LinesOf("Context", new, q, b)
  <2>1. b <= Len(new) /\ q <= b
    BY <1>7, <1>8
  <2> QED
    BY <1>2, <1>7, <1>8, <2>1, ContextLines DEF between
<1>14. NoContext(change) /\ Len(change) # 0
  BY <1>2, <1>7, ChangeLines DEF change, u, v
<1>15. Says(old, new, between, p, q, a, b)
  BY <1>2, <1>8, <1>13, ContextSays
<1>16. Says(old, new, change, a, b, u, v)
  BY <1>2, <1>7, ChangeSays DEF change, u, v, a, b
<1> DEFINE first == Join(hunk.lines, between)
<1> HIDE DEF first
<1>17. lines = Join(first, change)
  BY DEF lines, first
<1>18. Says(old, new, first, x, y, a, b)
  BY <1>2, <1>12, <1>15, SaysJoin DEF first
<1>19. Says(old, new, lines, x, y, u, v)
  BY <1>2, <1>16, <1>17, <1>18, SaysJoin
<1>20. BodyAsked(lines, c)
  <2>1. Len(between) <= 2 * c
    BY <1>8, <1>10, <1>13
  <2> QED
    BY <1>2, <1>12, <1>13, <1>14, <2>1, BodyGoesOn DEF lines
<1>21. HeadAsked(lines, c, x, y)
  <2>1. between \in Seq(HunkLine) /\ change \in Seq(HunkLine) /\ first \in Seq(HunkLine)
    BY <1>13, <1>14, <1>18 DEF OnlyContext, NoContext, Says
  <2>2. HeadAsked(first, c, x, y)
    BY <1>2, <1>9, <1>12, <2>1, HeadStays DEF first
  <2> QED
    BY <1>2, <1>17, <2>1, <2>2, HeadStays
<1>22. lines \in Seq(HunkLine)
  BY <1>19 DEF Says
<1>23. OpenInv'
  <2> DEFINE h == hunk'
  <2>1. hunk \in [start1 : Nat, start2 : Nat, end1 : Nat, end2 : Nat, lines : Seq(HunkLine)]
    BY <1>1, <1>3 DEF OpenInv
  <2>2. u + n \in Nat /\ v + n \in Nat
    BY <1>7, <1>11
  <2>3. h \in [start1 : Nat, start2 : Nat, end1 : Nat, end2 : Nat, lines : Seq(HunkLine)]
    BY <1>5, <1>22, <2>1, <2>2
  <2>4. /\ h.start1 = x /\ h.start2 = y /\ h.end1 = u + n /\ h.end2 = v + n /\ h.lines = lines
    BY <1>5, <2>1 DEF x, y
  <2> HIDE DEF h
  <2>5. /\ OldEnd(script', idx') = u /\ NewEnd(script', idx') = v
    BY <1>1, <1>7
  <2>6. ClosedOld' = ClosedOld /\ ClosedNew' = ClosedNew
    BY <1>1 DEF ClosedOld, ClosedNew
  <2>7. PostContext(script[idx])' = n
    <3>1. script'[idx'] = e
      BY <1>1
    <3> QED
      BY <1>1, <3>1 DEF PostContext, n
  <2>8. Len(hunks) # 0 => (ClosedOld < x \/ x < u) /\ (ClosedNew < y \/ y < v)
    <3>1. p < u /\ q < v
      BY <1>7, <1>8
    <3> QED
      BY <1>7, <1>8, <1>9, <1>12, <3>1
  <2>9. c > 0 => (x = 0 \/ x < u) /\ (y = 0 \/ y < v)
    <3>1. p < u /\ q < v
      BY <1>7, <1>8
    <3> QED
      BY <1>7, <1>8, <1>9, <1>12, <3>1
  <2>10. /\ old' = old /\ new' = new /\ Len(hunks') = Len(hunks) /\ idx' <= Len(script')
         /\ contextLen' = c
    BY <1>1
  <2> HIDE DEF c
  <2> QED
    BY <1>12, <1>19, <1>20, <1>21, <2>3, <2>4, <2>5, <2>6, <2>7, <2>8, <2>9, <2>10
    DEF OpenInv, h
<1>24. ScriptInv'
  <2>1. idx' \in 1..Len(script') + 1 /\ GoodScript(old', new', script')
    BY <1>1, <1>2, <1>6 DEF HunkOpen
  <2> QED
    BY <2>1 DEF ScriptInv
<1>25. TextsInv' /\ ClosedInv'
  BY <1>1 DEF HInv, TextsInv, ClosedInv
<1> QED
  BY <1>1, <1>23, <1>24, <1>25 DEF HInv, StartInv, BetweenInv

(* When the next edit is too far away, or there is none: where the hunk ends is
   in the stretch of equal lines below the edit at hand. *)
Ends(p, q, k, a, b, last) ==
  /\ Gap(old, new, p, q, p + k, q + k) /\ Gap(old, new, p + k, q + k, a, b)
  /\ ~last => p + k + contextLen <= a /\ p + k < a
  /\ k = contextLen \/ (p + k = Len(old) /\ q + k = Len(new))

(* GapCut, k lines behind the beginning. *)
LEMMA GapCutAt ==
  ASSUME NEW s, NEW t, NEW x, NEW y, NEW u, NEW v, NEW k \in Nat,
         Gap(s, t, x, y, u, v), Len(s) \in Nat, Len(t) \in Nat, x + k <= u
  PROVE  Gap(s, t, x, y, x + k, y + k) /\ Gap(s, t, x + k, y + k, u, v)
<1> DEFINE p == x + k
           q == y + k
<1>1. x \in Nat /\ y \in Nat
  BY DEF Gap
<1>2. p \in Nat /\ q \in Nat /\ x <= p /\ p <= u /\ p - x = q - y
  BY <1>1
<1> HIDE DEF p, q
<1>3. Gap(s, t, x, y, p, q) /\ Gap(s, t, p, q, u, v)
  BY <1>2, GapCut
<1> QED
  BY <1>3 DEF p, q

(* The hunk ends before the next edit, with room for its context, or at the
   end of the texts. *)
LEMMA WhereHunkEnds ==
  ASSUME HInv, step = "open", HasNext => ~Overlaps(script[idx + 1]),
         NEW p, NEW q, NEW k, p = OldEnd(script, idx), q = NewEnd(script, idx),
         k = PostContext(script[idx]),
         NEW a, NEW b, a = OldStart(old, script, idx + 1), b = NewStart(new, script, idx + 1)
  PROVE  Ends(p, q, k, a, b, ~HasNext)
<1>1. /\ GoodScript(old, new, script) /\ HunkOpen(hunk, idx, p, q, k)
      /\ old \in Seq(Symbol) /\ new \in Seq(Symbol) /\ contextLen \in Nat
  BY OpenFacts
<1>2. /\ idx \in 1..Len(script) /\ Len(script) \in Nat
      /\ p \in Nat /\ q \in Nat /\ Len(old) \in Nat /\ Len(new) \in Nat
      /\ k \in Nat /\ k <= contextLen /\ p + k <= Len(old) /\ q + k <= Len(new)
      /\ k = contextLen \/ p + k = Len(old) \/ q + k = Len(new)
      /\ hunk.end1 = p + k
  BY <1>1 DEF HunkOpen
<1>3. Gap(old, new, p, q, a, b) /\ (HasNext => p < a)
  <2>1. idx \in 0..Len(script) /\ idx # 0
    BY <1>2
  <2> QED
    BY <1>1, <2>1, ScriptGap DEF HasNext
<1>4. a \in Nat /\ b \in Nat /\ p <= a /\ a - p = b - q /\ a <= Len(old) /\ b <= Len(new)
  BY <1>3 DEF Gap
<1>5. CASE HasNext
  <2> DEFINE e == script[idx + 1]
  <2>1. a = e.old.offset /\ ~Overlaps(e)
    BY <1>5 DEF HasNext, OldStart
  <2> HIDE DEF e
  <2>2. k = contextLen \/ p + k >= a
    <3> DEFINE c == contextLen
               l == Len(old)
               m == Len(new)
    <3>1. c \in Nat /\ l \in Nat /\ m \in Nat /\ a <= l /\ b <= m
      BY <1>1, <1>2, <1>4
    <3>2. k = c \/ p + k = l \/ q + k = m
      BY <1>2
    <3>3. p \in Nat /\ q \in Nat /\ k \in Nat
      BY <1>2
    <3> HIDE DEF c, l, m
    <3>4. CASE k = c
      BY <3>4 DEF c
    <3>5. CASE p + k = l
      BY <3>1, <3>5
    <3>6. CASE q + k = m
      <4>1. b - q <= k
        BY SMTT(60), <1>4, <3>1, <3>3, <3>6
      <4>2. a - p = b - q
        BY <1>4
      <4>3. p + k >= a
        BY <1>4, <3>3, <4>1, <4>2
      <4> QED
        BY <4>3
    <3> QED
      BY <3>2, <3>4, <3>5, <3>6
  <2>3. p < a
    BY <1>3, <1>5
  <2>4. p + k + contextLen <= a /\ p + k < a
    BY <1>1, <1>2, <1>4, <2>1, <2>2, <2>3, Apart
  <2>5. p + k <= a
    BY SMTT(60), <1>2, <1>4, <2>4
  <2>6. Gap(old, new, p, q, p + k, q + k) /\ Gap(old, new, p + k, q + k, a, b)
    BY <1>2, <1>3, <2>5, GapCutAt
  <2>7. p + k < Len(old)
    BY SMTT(30), <1>2, <1>4, <2>4
  <2>8. q + k < Len(new)
    BY SMTT(60), <1>2, <1>4, <2>4
  <2>9. k = contextLen
    BY SMTT(30), <1>2, <2>7, <2>8
  <2> QED
    BY <2>4, <2>6, <2>9 DEF Ends
<1>6. CASE ~HasNext
  <2>1. a = Len(old) /\ b = Len(new)
    BY <1>6 DEF HasNext, OldStart, NewStart
  <2>2. Gap(old, new, p, q, p + k, q + k) /\ Gap(old, new, p + k, q + k, a, b)
    <3>1. p + k <= a
      BY <1>2, <2>1
    <3> QED
      BY <1>2, <1>3, <3>1, GapCutAt
  <2>3. p + k = Len(old) <=> q + k = Len(new)
    <3> DEFINE l == Len(old)
               m == Len(new)
    <3>1. l - p = m - q
      BY <1>4, <2>1
    <3>2. l \in Nat /\ m \in Nat /\ p \in Nat /\ q \in Nat /\ k \in Nat
      BY <1>2
    <3> HIDE DEF l, m
    <3>3. p + k = l <=> k = l - p
      BY <3>2
    <3>4. q + k = m <=> k = m - q
      BY <3>2
    <3>5. p + k = l <=> q + k = m
      BY <3>1, <3>3, <3>4
    <3> QED
      BY <3>5 DEF l, m
  <2>4. k = contextLen \/ (p + k = Len(old) /\ q + k = Len(new))
    BY <1>2, <2>3
  <2> QED
    BY <1>6, <2>2, <2>4 DEF Ends
<1> QED
  BY <1>5, <1>6

(* The lines of the hunk that is closed, with the context below them. *)
Finished(lines, p, q, k) ==
  /\ Says(old, new, lines, hunk.start1, hunk.start2, p + k, q + k)
  /\ \E below : /\ lines = Join(hunk.lines, below) /\ OnlyContext(below)
                /\ Len(below) = k

(* With the context below the hunk says what becomes of all it covers. *)
LEMMA FinishedSays ==
  ASSUME HInv, step = "open", HasNext => ~Overlaps(script[idx + 1]),
         NEW p, NEW q, NEW k, p = OldEnd(script, idx), q = NewEnd(script, idx),
         k = PostContext(script[idx])
  PROVE  Finished(FinishedLines, p, q, k)
<1> DEFINE below == Context(q, q + k)
           v == q + k
           u == p + k
<1>1. /\ GoodScript(old, new, script) /\ HunkOpen(hunk, idx, p, q, k)
      /\ old \in Seq(Symbol) /\ new \in Seq(Symbol) /\ contextLen \in Nat
  BY OpenFacts
<1>2. /\ idx \in 1..Len(script) /\ p \in Nat /\ q \in Nat /\ k \in Nat /\ v <= Len(new)
      /\ hunk.end2 = v
  BY <1>1 DEF HunkOpen
<1>3. q = RangeEnd(script[idx].new)
  BY <1>2 DEF NewEnd
<1>4. FinishedLines = Join(hunk.lines, below)
  BY <1>2, <1>3 DEF FinishedLines, Join
<1> DEFINE a == OldStart(old, script, idx + 1)
           b == NewStart(new, script, idx + 1)
<1>5. Ends(p, q, k, a, b, ~HasNext)
  <2> HIDE DEF a, b
  <2>1. a = OldStart(old, script, idx + 1) /\ b = NewStart(new, script, idx + 1)
    BY DEF a, b
  <2> QED
    BY <2>1, WhereHunkEnds
<1>6. Gap(old, new, p, q, u, v)
  BY <1>5 DEF Ends
<1>7. v \in Nat /\ q <= v /\ v - q = k
  BY <1>2
<1> HIDE DEF v, u
<1>8. /\ OnlyContext(Context(q, v)) /\ Len(Context(q, v)) = v - q
      /\ Context(q, v) = LinesOf("Context", new, q, v)
  BY <1>1, <1>2, <1>7, ContextLines
<1>9. below = Context(q, v)
  BY DEF v
<1> HIDE DEF below
<1>10. Says(old, new, below, p, q, u, v)
  <2>1. below = LinesOf("Context", new, q, v)
    BY <1>8, <1>9
  <2> QED
    BY <1>1, <1>6, <2>1, ContextSays
<1> DEFINE x == hunk.start1
           y == hunk.start2
<1>11. Says(old, new, hunk.lines, x, y, p, q)
  BY DEF HInv, OpenInv
<1> HIDE DEF x, y
<1>12. Says(old, new, FinishedLines, x, y, u, v)
  <2>1. Says(old, new, Join(hunk.lines, below), x, y, u, v)
    BY <1>1, <1>10, <1>11, SaysJoin
  <2> QED
    BY <1>4, <2>1
<1>13. OnlyContext(below) /\ Len(below) = k
  BY <1>7, <1>8, <1>9
<1> QED
  BY <1>4, <1>12, <1>13 DEF Finished, x, y, u, v

(* Hunk::new's assertions. *)
LEMMA HInvCounts ==
  ASSUME HInv, step = "open", HasNext => ~Overlaps(script[idx + 1])
  PROVE  CountsMatch
<1> DEFINE p == OldEnd(script, idx)
           q == NewEnd(script, idx)
           k == PostContext(script[idx])
           u == p + k
           v == q + k
           x == hunk.start1
           y == hunk.start2
<1>1. Finished(FinishedLines, p, q, k)
  BY FinishedSays
<1>2. HunkOpen(hunk, idx, p, q, k) /\ old \in Seq(Symbol) /\ new \in Seq(Symbol)
  BY OpenFacts
<1>3. Says(old, new, FinishedLines, x, y, u, v)
  BY <1>1 DEF Finished
<1>4. u = hunk.end1 /\ v = hunk.end2
  BY <1>2 DEF HunkOpen
<1> HIDE DEF u, v, x, y
<1>5. OldCount(FinishedLines) = u - x /\ NewCount(FinishedLines) = v - y
  BY <1>2, <1>3, SaysCounts
<1> QED
  BY <1>4, <1>5 DEF CountsMatch, x, y

(* The hunk comes after those closed before it and shows what was asked
   for. *)
LEMMA CloseHunkHInv ==
  ASSUME HInv, CloseHunk
  PROVE  HInv'
<1> DEFINE p == OldEnd(script, idx)
           q == NewEnd(script, idx)
           k == PostContext(script[idx])
           u == p + k
           v == q + k
           x == hunk.start1
           y == hunk.start2
           a == OldStart(old, script, idx + 1)
           b == NewStart(new, script, idx + 1)
           c == contextLen
           fin == FinishedLines
           h == [old |-> HunkRange(x, u - x), new |-> HunkRange(y, v - y), lines |-> fin]
<1>1. /\ step = "open" /\ (HasNext => ~Overlaps(script[idx + 1]))
      /\ step' = "next" /\ idx' = idx + 1 /\ hunk' = NoHunk
      /\ UNCHANGED <<old, new, solution, contextLen, script>>
  BY DEF CloseHunk, given
<1>2. /\ GoodScript(old, new, script) /\ HunkOpen(hunk, idx, p, q, k)
      /\ old \in Seq(Symbol) /\ new \in Seq(Symbol) /\ c \in Nat
  BY <1>1, OpenFacts
<1>3. hunk.end1 = u /\ hunk.end2 = v
  BY <1>2 DEF HunkOpen
<1>4. hunks' = Append(hunks, h)
  BY <1>3 DEF CloseHunk
<1>5. OpenInv /\ ClosedInv
  BY DEF HInv
<1>6. /\ Gap(old, new, ClosedOld, ClosedNew, x, y)
      /\ Len(hunks) # 0 => /\ ClosedOld < x \/ x < p
                           /\ ClosedNew < y \/ y < q
      /\ c > 0 => /\ x = 0 \/ x < p
                  /\ y = 0 \/ y < q
      /\ BodyAsked(hunk.lines, c)
      /\ HeadAsked(hunk.lines, c, x, y)
  BY <1>1, <1>5 DEF OpenInv
<1>7. Finished(fin, p, q, k)
  BY <1>1, FinishedSays
<1>8. Ends(p, q, k, a, b, ~HasNext)
  <2> HIDE DEF p, q, k, a, b
  <2>1. /\ p = OldEnd(script, idx) /\ q = NewEnd(script, idx) /\ k = PostContext(script[idx])
        /\ a = OldStart(old, script, idx + 1) /\ b = NewStart(new, script, idx + 1)
    BY DEF p, q, k, a, b
  <2> QED
    BY <1>1, <2>1, WhereHunkEnds
<1>9. /\ p \in Nat /\ q \in Nat /\ k \in Nat /\ k <= c /\ idx \in 1..Len(script) /\ Len(script) \in Nat
  BY <1>2 DEF HunkOpen
<1> HIDE DEF p, q, k
<1>10. p <= u /\ q <= v /\ u \in Nat /\ v \in Nat
  BY <1>9
<1>11. Gap(old, new, u, v, a, b) /\ (HasNext => u + c <= a /\ u < a)
  BY <1>8 DEF Ends
<1>35. k = c \/ (u = Len(old) /\ v = Len(new))
  BY <1>8 DEF Ends
<1> HIDE DEF u, v, a, b, c, fin, x, y
<1>12. Says(old, new, fin, x, y, u, v)
  BY <1>7 DEF Finished, u, v, x, y
<1>13. PICK below : fin = Join(hunk.lines, below) /\ OnlyContext(below) /\ Len(below) = k
  BY <1>7 DEF Finished
<1>14. x \in Nat /\ y \in Nat /\ x <= u /\ y <= v /\ fin \in Seq(HunkLine)
  BY <1>12 DEF Says
<1> DEFINE ol == u - x
           nl == v - y
<1>15. ol \in Nat /\ nl \in Nat
  BY <1>10, <1>14
<1>16. h.old = HunkRange(x, ol) /\ h.new = HunkRange(y, nl) /\ h.lines = fin
  OBVIOUS
<1> HIDE DEF ol, nl
<1>17. /\ HunkRange(x, ol) \in HunkRanges /\ FirstLine(HunkRange(x, ol)) = x
       /\ HunkRange(x, ol).len = ol
  BY <1>14, <1>15, HunkRangeFacts
<1>18. /\ HunkRange(y, nl) \in HunkRanges /\ FirstLine(HunkRange(y, nl)) = y
       /\ HunkRange(y, nl).len = nl
  BY <1>14, <1>15, HunkRangeFacts
<1>19. h \in PatchHunk
  BY <1>14, <1>17, <1>18 DEF PatchHunk, ol, nl
<1> HIDE DEF h
<1>20. OldFrom(h) = x /\ NewFrom(h) = y /\ OldTo(h) = x + ol /\ NewTo(h) = y + nl
       /\ h.old.len = ol /\ h.new.len = nl
  BY <1>16, <1>17, <1>18 DEF OldFrom, OldTo, NewFrom, NewTo
<1>21. x + ol = u /\ y + nl = v
  BY <1>10, <1>14 DEF ol, nl
<1>22. Tells(old, new, h)
  BY <1>12, <1>16, <1>19, <1>20, <1>21 DEF Tells
<1>23. Comes(old, new, hunks, Len(hunks), h)
  <2>1. LastOld(hunks, Len(hunks)) = ClosedOld /\ LastNew(hunks, Len(hunks)) = ClosedNew
    BY DEF ClosedOld, ClosedNew
  <2>2. x < p => ol > 0
    BY <1>9, <1>10, <1>14 DEF ol
  <2>3. y < q => nl > 0
    BY <1>9, <1>10, <1>14 DEF nl
  <2> QED
    BY <1>6, <1>20, <1>22, <2>1, <2>2, <2>3 DEF Comes
<1>24. HunkChain(old, new, hunks) /\ hunks \in Seq(PatchHunk)
  BY <1>5 DEF ClosedInv, HunkChain
<1> DEFINE more == hunks'
<1>25. Longer(more, hunks, h)
  BY <1>4 DEF Longer, h
<1> HIDE DEF more
<1>26. HunkChain(old, new, more) /\ Len(more) = Len(hunks) + 1 /\ Len(hunks) \in Nat /\ EndsAt(more, h)
  BY <1>23, <1>24, <1>25, HunkChainAppend
<1>27. \A i \in 1..Len(hunks) : more[i] = hunks[i]
  BY <1>19, <1>24, <1>25, AppendElements DEF Longer
<1>28. more[Len(hunks) + 1] = h
  BY <1>19, <1>24, <1>25, AppendElements DEF Longer
<1>29. HunkAsked(old, new, h, c)
  <2>1. below \in Seq(HunkLine) /\ hunk.lines \in Seq(HunkLine) /\ Len(below) <= c
    BY <1>2, <1>9, <1>13 DEF OnlyContext, HunkOpen
  <2>2. Asked(fin, c)
    BY <1>2, <1>6, <1>13, <2>1, BodyCloses
  <2>3. HeadAsked(fin, c, x, y)
    BY <1>2, <1>6, <1>13, <2>1, HeadStays
  <2>4. TailAsked(fin, k)
    BY <1>13, <2>1, TailAdded
  <2>5. TailAsked(fin, c) \/ (u = Len(old) /\ v = Len(new))
    BY <1>35, <2>4
  <2> QED
    BY <1>16, <1>20, <1>21, <2>2, <2>3, <2>5 DEF HunkAsked
<1>30. c > 0 => InPlace(h)
  <2>1. x < p => ol # 0
    BY <1>9, <1>10, <1>14 DEF ol
  <2>2. y < q => nl # 0
    BY <1>9, <1>10, <1>14 DEF nl
  <2> QED
    BY <1>6, <1>20, <2>1, <2>2 DEF InPlace
<1>31. ClosedInv'
  <2>1. ASSUME NEW i \in 1..Len(more)
        PROVE  HunkAsked(old, new, more[i], c) /\ (c > 0 => InPlace(more[i]))
    <3>1. CASE i = Len(hunks) + 1
      BY <1>28, <1>29, <1>30, <3>1
    <3>2. CASE i # Len(hunks) + 1
      <4>1. i \in 1..Len(hunks) /\ more[i] = hunks[i]
        BY <1>26, <1>27, <3>2
      <4> QED
        BY <1>5, <4>1 DEF ClosedInv, c
    <3> QED
      BY <3>1, <3>2
  <2>2. old' = old /\ new' = new /\ contextLen' = c
    BY <1>1 DEF c
  <2> QED
    BY <1>26, <2>1, <2>2 DEF ClosedInv, more
<1>32. BetweenInv'
  <2>1. ClosedOld' = u /\ ClosedNew' = v
    BY <1>20, <1>21, <1>26 DEF ClosedOld, ClosedNew, EndsAt, more
  <2>2. OldStart(old, script, idx)' = a /\ NewStart(new, script, idx)' = b
    BY <1>1 DEF a, b
  <2>3. old' = old /\ new' = new /\ contextLen' = c /\ hunk' = NoHunk /\ step' = "next"
    BY <1>1 DEF c
  <2>4. idx' <= Len(script') => HasNext
    BY <1>1 DEF HasNext
  <2> QED
    BY <1>11, <2>1, <2>2, <2>3, <2>4 DEF BetweenInv
<1>33. ScriptInv'
  <2>1. idx' \in 1..Len(script') + 1 /\ GoodScript(old', new', script')
    BY <1>1, <1>2, <1>9
  <2> QED
    BY <2>1 DEF ScriptInv
<1>34. TextsInv'
  BY <1>1 DEF HInv, TextsInv
<1> QED
  BY <1>1, <1>31, <1>32, <1>33, <1>34 DEF HInv, StartInv, OpenInv

(* There are no more edits. *)
LEMMA ReturnHunksHInv ==
  ASSUME HInv, ReturnHunks
  PROVE  HInv'
<1>1. /\ step = "next" /\ idx > Len(script) /\ step' = "done"
      /\ UNCHANGED <<old, new, solution, contextLen, script, idx, hunk, hunks>>
  BY DEF ReturnHunks, given
<1>2. BetweenInv /\ ScriptInv /\ ClosedInv /\ TextsInv
  BY DEF HInv
<1>3. GoodScript(old, new, script) /\ idx \in 1..Len(script) + 1
  BY <1>1, <1>2 DEF ScriptInv
<1>4. Len(script) \in Nat
  BY <1>3 DEF GoodScript, Chained
<1>5. idx = Len(script) + 1
  BY <1>1, <1>3, <1>4
<1>6. BetweenInv'
  <2>1. ClosedOld' = ClosedOld /\ ClosedNew' = ClosedNew
    BY <1>1 DEF ClosedOld, ClosedNew
  <2>2. OldStart(old, script, idx)' = OldStart(old, script, idx)
    BY <1>1 DEF OldStart
  <2>3. NewStart(new, script, idx)' = NewStart(new, script, idx)
    BY <1>1 DEF NewStart
  <2> QED
    BY <1>1, <1>2, <1>5, <2>1, <2>2, <2>3 DEF BetweenInv
<1>7. TextsInv' /\ ScriptInv' /\ ClosedInv'
  BY <1>1, <1>2 DEF TextsInv, ScriptInv, ClosedInv
<1> QED
  BY <1>1, <1>6, <1>7 DEF HInv, StartInv, OpenInv

(* The invariant speaks of no other variables. *)
LEMMA StutterHInv ==
  ASSUME HInv, UNCHANGED hvars
  PROVE  HInv'
<1>1. UNCHANGED <<old, new, solution, contextLen, step, script, idx, hunk, hunks>>
  BY DEF hvars
<1>2. TextsInv' /\ StartInv' /\ ScriptInv' /\ ClosedInv'
  BY <1>1 DEF HInv, TextsInv, StartInv, ScriptInv, ClosedInv
<1>3. ClosedOld' = ClosedOld /\ ClosedNew' = ClosedNew
  BY <1>1 DEF ClosedOld, ClosedNew
<1>4. BetweenInv'
  <2>1. OldStart(old, script, idx)' = OldStart(old, script, idx)
    BY <1>1 DEF OldStart
  <2>2. NewStart(new, script, idx)' = NewStart(new, script, idx)
    BY <1>1 DEF NewStart
  <2> QED
    BY <1>1, <1>3, <2>1, <2>2 DEF HInv, BetweenInv
<1>5. OpenInv'
  <2>1. PostContext(script[idx])' = PostContext(script[idx])
    BY <1>1 DEF PostContext
  <2>2. OldEnd(script, idx)' = OldEnd(script, idx) /\ NewEnd(script, idx)' = NewEnd(script, idx)
    BY <1>1
  <2> QED
    BY <1>1, <1>3, <2>1, <2>2 DEF HInv, OpenInv
<1> QED
  BY <1>1, <1>2, <1>4, <1>5 DEF HInv

(* Every step keeps the invariant, ... *)
LEMMA NextHInv ==
  ASSUME HInv, [Next]_hvars
  PROVE  HInv'
<1>1. CASE MakeScript
  BY <1>1, MakeScriptHInv
<1>2. CASE OpenHunk
  BY <1>2, OpenHunkHInv
<1>3. CASE MergeEdit
  BY <1>3, MergeEditHInv
<1>4. CASE CloseHunk
  BY <1>4, CloseHunkHInv
<1>5. CASE ReturnHunks
  BY <1>5, ReturnHunksHInv
<1>6. CASE UNCHANGED hvars
  BY <1>6, StutterHInv
<1> QED
  BY <1>1, <1>2, <1>3, <1>4, <1>5, <1>6 DEF Next

(* ... so it holds always. *)
LEMMA HInvHolds == Spec => []HInv
<1>1. Init => HInv
  BY InitHInv
<1>2. HInv /\ [Next]_hvars => HInv'
  BY NextHInv
<1> QED
  BY <1>1, <1>2, PTL DEF Spec

-----------------------------------------------------------------------------
(***************************************************************************)
(* The results                                                             *)
(***************************************************************************)

(* What the invariant implies, one property after the other. *)
LEMMA HInvType == HInv => TypeOK
<1> SUFFICES ASSUME HInv PROVE TypeOK
  OBVIOUS
<1>1. /\ TextsInv /\ StartInv /\ ScriptInv /\ ClosedInv /\ BetweenInv /\ OpenInv
      /\ step \in {"script", "next", "open", "done"}
  BY DEF HInv
<1>2. old \in Seq(Symbol) /\ new \in Seq(Symbol) /\ contextLen \in Nat
  BY <1>1 DEF TextsInv
<1>3. idx \in Nat \ {0}
  <2>1. CASE step = "script"
    BY <1>1, <2>1 DEF StartInv
  <2>2. CASE step # "script"
    <3>1. GoodScript(old, new, script) /\ idx \in 1..Len(script) + 1
      BY <1>1, <2>2 DEF ScriptInv
    <3>2. Len(script) \in Nat
      BY <3>1 DEF GoodScript, Chained
    <3> QED
      BY <3>1, <3>2
  <2> QED
    BY <2>1, <2>2
<1>4. hunk.lines \in Seq(HunkLine)
  <2>1. NoHunk.lines = <<>>
    BY DEF NoHunk
  <2>2. CASE step = "open"
    <3>1. hunk \in [start1 : Nat, start2 : Nat, end1 : Nat, end2 : Nat, lines : Seq(HunkLine)]
      BY <1>1, <2>2 DEF OpenInv
    <3> QED
      BY <3>1
  <2>3. CASE step # "open"
    <3>1. hunk = NoHunk
      BY <1>1, <2>3 DEF StartInv, BetweenInv
    <3>2. <<>> \in Seq(HunkLine)
      OBVIOUS
    <3> QED
      BY <2>1, <3>1, <3>2
  <2> QED
    BY <2>2, <2>3
<1>5. ASSUME NEW i \in DOMAIN hunks PROVE hunks[i].old \in HunkRanges /\ hunks[i].new \in HunkRanges
  <2>1. hunks \in Seq(PatchHunk)
    BY <1>1 DEF ClosedInv, HunkChain
  <2>2. hunks[i] \in PatchHunk
    BY <2>1
  <2> QED
    BY <2>2 DEF PatchHunk
<1> QED
  BY <1>1, <1>2, <1>3, <1>4, <1>5 DEF TypeOK, HunkLine

(* Edits lie apart, so a text with two of them has a line; and lines that
   say what they should are counted right. *)
LEMMA HInvPanic == HInv => NoPanic
<1> SUFFICES ASSUME HInv, step = "open"
             PROVE  /\ HasNext => Len(old) > 0
                    /\ (HasNext => ~Overlaps(script[idx + 1])) => CountsMatch
  BY DEF NoPanic
<1>1. ASSUME HasNext PROVE Len(old) > 0
  <2> DEFINE p == OldEnd(script, idx)
             q == NewEnd(script, idx)
             e == script[idx + 1]
  <2>1. GoodScript(old, new, script) /\ HunkOpen(hunk, idx, p, q, PostContext(script[idx]))
        /\ TextsInv
    BY OpenFacts DEF HInv
  <2>2. idx \in 1..Len(script) /\ idx + 1 <= Len(script) /\ idx + 1 \in 1..Len(script)
    BY <1>1, <2>1 DEF HasNext, HunkOpen
  <2>3. p < e.old.offset /\ p \in Nat
    BY <2>1, <2>2, NextEdit
  <2>4. e.old.offset \in Nat /\ e.old.offset <= RangeEnd(e.old) /\ RangeEnd(e.old) \in Nat
        /\ RangeEnd(e.old) <= Len(old) /\ Len(old) \in Nat
    BY <2>1, <2>2, EditAtHand
  <2> HIDE DEF p, e
  <2> QED
    BY <2>3, <2>4
<1>2. (HasNext => ~Overlaps(script[idx + 1])) => CountsMatch
  BY HInvCounts
<1> QED
  BY <1>1, <1>2

(* What is returned is a good patch. *)
LEMMA GoodPatchReturned ==
  ASSUME HInv, step = "done"
  PROVE  GoodPatch(old, new, hunks)
<1>1. HunkChain(old, new, hunks)
  BY DEF HInv, ClosedInv
<1>2. /\ Gap(old, new, ClosedOld, ClosedNew, OldStart(old, script, idx), NewStart(new, script, idx))
      /\ idx = Len(script) + 1 /\ GoodScript(old, new, script)
  BY DEF HInv, BetweenInv, ScriptInv
<1>3. ~(idx <= Len(script))
  BY <1>2 DEF GoodScript, Chained
<1>4. OldStart(old, script, idx) = Len(old) /\ NewStart(new, script, idx) = Len(new)
  BY <1>3 DEF OldStart, NewStart
<1> QED
  BY <1>1, <1>2, <1>4 DEF GoodPatch, ClosedOld, ClosedNew

(* What is returned is a good patch, and a good patch describes the change. *)
LEMMA HInvDescribes == HInv => DescribesChange
<1> SUFFICES ASSUME HInv, step = "done" PROVE DescribesChange
  BY DEF DescribesChange
<1>1. old \in Seq(Symbol) /\ new \in Seq(Symbol)
  BY DEF HInv, TextsInv
<1>2. GoodPatch(old, new, hunks)
  BY GoodPatchReturned
<1> DEFINE all == /\ HunksInOrder(hunks)
                  /\ \A i \in DOMAIN hunks : Replaces(old, hunks[i]) /\ Replaces(new, ReverseHunk(hunks[i]))
                  /\ Literally(old, hunks) = new
                  /\ Literally(new, ReversePatch(hunks)) = old
<1>3. all
  BY <1>1, <1>2, GoodPatchDescribes
<1> QED
  BY <1>3 DEF DescribesChange

(* Every hunk was closed with the context that was asked for. *)
LEMMA HInvContext == HInv => ContextAsAsked
<1> SUFFICES ASSUME HInv, NEW h \in ToSet(hunks)
             PROVE  LET n == Len(h.lines)
                    IN  /\ Asked(h.lines, contextLen)
                        /\ AtBeginning(h) \/ (contextLen <= n /\ ContextRun(h.lines, 1, contextLen))
                        /\ AtEnd(h) \/ (contextLen <= n /\ ContextRun(h.lines, n - contextLen + 1, n))
  BY DEF ContextAsAsked, Asked
<1>1. ClosedInv /\ hunks \in Seq(PatchHunk)
  BY DEF HInv, ClosedInv, HunkChain
<1>2. PICK n \in 1..Len(hunks) : h = hunks[n]
  BY <1>1 DEF ToSet
<1>3. HunkAsked(old, new, h, contextLen)
  BY <1>1, <1>2 DEF ClosedInv
<1>4. HeadAsked(h.lines, contextLen, OldFrom(h), NewFrom(h))
  BY <1>3 DEF HunkAsked
<1>5. TailAsked(h.lines, contextLen) \/ (OldTo(h) = Len(old) /\ NewTo(h) = Len(new))
  BY <1>3 DEF HunkAsked
<1>6. Asked(h.lines, contextLen)
  BY <1>3 DEF HunkAsked
<1>7. AtBeginning(h) \/ (contextLen <= Len(h.lines) /\ ContextRun(h.lines, 1, contextLen))
  BY <1>4 DEF HeadAsked, AtBeginning, OldFrom, NewFrom
<1>8. AtEnd(h) \/ TailAsked(h.lines, contextLen)
  BY <1>5 DEF AtEnd, OldTo, NewTo
<1> QED
  BY <1>6, <1>7, <1>8 DEF TailAsked

(* Every variable of to_hunks stays in its type. *)
THEOREM HunksTypeCorrect == Spec => []TypeOK
BY HInvHolds, HInvType, PTL

(***************************************************************************)
(* to_hunks never panics, for any solution that aligns the texts and any   *)
(* context: Hunk::new's assertions hold for every hunk that is closed, and *)
(* `lines1.len() - 1` does not underflow.                                  *)
(***************************************************************************)
THEOREM HunksNeverPanic == Spec => []NoPanic
BY HInvHolds, HInvPanic, PTL

(***************************************************************************)
(* The hunks that to_hunks returns quote the texts where they say, are in  *)
(* the order the parser asks for, and read literally turn old into new,    *)
(* and reversed new into old.                                              *)
(***************************************************************************)
THEOREM HunksDescribeChange == Spec => []DescribesChange
BY HInvHolds, HInvDescribes, PTL

(***************************************************************************)
(* A hunk shows as much context above its first and below its last edit as *)
(* was asked for, less only where both texts begin or end, and two edits   *)
(* share a hunk only when their contexts touch.                            *)
(***************************************************************************)
THEOREM HunksContextAsAsked == Spec => []ContextAsAsked
BY HInvHolds, HInvContext, PTL


-----------------------------------------------------------------------------
(* The lines of an image *)

ImageLines == [line : Symbol, patched : BOOLEAN]

(* Part takes the lines of one kind: what it makes of each of them. *)
LinePart(flag) == [l \in ImageLines |-> IF l.patched = flag THEN <<l.line>> ELSE <<>>]

(* It makes a sequence of none or one of each. *)
LEMMA LinePartIsMap ==
  ASSUME NEW flag
  PROVE  IsMap(LinePart(flag), ImageLines, Seq(Symbol))
<1>1. ASSUME NEW l \in ImageLines
      PROVE  (IF l.patched = flag THEN <<l.line>> ELSE <<>>) \in Seq(Symbol)
  <2>1. l.line \in Symbol
    BY DEF ImageLines
  <2>2. <<l.line>> \in Seq(Symbol) /\ <<>> \in Seq(Symbol)
    BY <2>1
  <2> QED
    BY <2>2
<1> QED
  BY <1>1 DEF LinePart, IsMap

(* So Part is a sequence of these, flattened. *)
LEMMA PartIsRow ==
  ASSUME NEW img \in Seq(ImageLines), NEW flag
  PROVE  /\ Part(img, flag) = FlattenSeq(Row(LinePart(flag), img))
         /\ Row(LinePart(flag), img) \in Seq(Seq(Symbol))
         /\ Part(img, flag) \in Seq(Symbol)
<1>1. DOMAIN img = 1..Len(img) /\ \A i \in 1..Len(img) : img[i] \in ImageLines
  OBVIOUS
<1>2. [i \in DOMAIN img |-> IF img[i].patched = flag THEN <<img[i].line>> ELSE <<>>]
      = Row(LinePart(flag), img)
  BY <1>1 DEF Row, LinePart
<1>3. Row(LinePart(flag), img) \in Seq(Seq(Symbol))
  BY LinePartIsMap, RowType
<1>4. Part(img, flag) = FlattenSeq(Row(LinePart(flag), img))
  BY <1>2 DEF Part
<1> QED
  BY <1>3, <1>4, FlatType

(* The part of two images put together is the parts put together. *)
LEMMA PartConcat ==
  ASSUME NEW a \in Seq(ImageLines), NEW b \in Seq(ImageLines), NEW flag
  PROVE  Part(Join(a, b), flag) = Join(Part(a, flag), Part(b, flag))
<1> DEFINE c == Join(a, b)
           F == LinePart(flag)
<1>1. c \in Seq(ImageLines)
  BY JoinAssociates
<1> HIDE DEF c
<1>2. /\ Part(a, flag) = FlattenSeq(Row(F, a)) /\ Row(F, a) \in Seq(Seq(Symbol))
      /\ Part(b, flag) = FlattenSeq(Row(F, b)) /\ Row(F, b) \in Seq(Seq(Symbol))
      /\ Part(c, flag) = FlattenSeq(Row(F, c))
  BY <1>1, PartIsRow
<1>3. Row(F, c) = Join(Row(F, a), Row(F, b))
  BY LinePartIsMap, RowConcat DEF c
<1> HIDE DEF F
<1>4. Part(c, flag) = Join(Part(a, flag), Part(b, flag))
  BY <1>2, <1>3, FlatConcat
<1> QED
  BY <1>4 DEF c

(* An image all of whose lines are of one kind. *)
Marked(img, text, flag) ==
  Len(img) = Len(text) /\ \A i \in 1..Len(text) : img[i] = ImageLine(text[i], flag)

(* Of such an image one part is all of the text and the other is empty. *)
LEMMA MarkedParts ==
  ASSUME NEW text \in Seq(Symbol), NEW img \in Seq(ImageLines), NEW flag \in BOOLEAN,
         Marked(img, text, flag), NEW other \in BOOLEAN, other # flag
  PROVE  Part(img, flag) = text /\ Part(img, other) = <<>>
<1> DEFINE n == Len(text)
           singles == [i \in 1..n |-> <<text[i]>>]
           nones == [i \in 1..n |-> <<>>]
<1>1. n \in Nat /\ Len(img) = n /\ \A i \in 1..n : img[i] \in ImageLines
  BY DEF Marked
<1>2. ASSUME NEW i \in 1..n PROVE img[i].line = text[i] /\ img[i].patched = flag
  <2>1. img[i] = [line |-> text[i], patched |-> flag]
    BY DEF Marked, ImageLine
  <2> QED
    BY <2>1
<1>3. Row(LinePart(flag), img) = singles
  BY <1>1, <1>2 DEF Row, LinePart
<1>4. Row(LinePart(other), img) = nones
  BY <1>1, <1>2 DEF Row, LinePart
<1>5. FlattenSeq(singles) = text
  BY FlatSingles
<1>6. FlattenSeq(nones) = <<>>
  BY <1>1, FlatNone
<1> HIDE DEF singles, nones
<1> QED
  BY <1>3, <1>4, <1>5, <1>6, PartIsRow

-----------------------------------------------------------------------------
(* The search for a place *)

(* The distance of a position, as the search counts it: backward before forward. *)
Away(p, start) == IF p > start THEN 2 * (p - start) + 1 ELSE 2 * (start - p)

(* Counted like this, what is nearer comes before. *)
LEMMA BeforeIsCloser ==
  ASSUME NEW p \in Nat, NEW q \in Nat, NEW start \in Nat
  PROVE  /\ Away(p, start) \in Nat
         /\ Away(p, start) <= Away(q, start) /\ p # q => Before(p, q, start)
<1>1. Before(p, q, start) <=> \/ Max2(p - start, start - p) < Max2(q - start, start - q)
                              \/ /\ Max2(p - start, start - p) = Max2(q - start, start - q)
                                 /\ p < q
  BY DEF Before
<1>2. Max2(p - start, start - p) = (IF p > start THEN p - start ELSE start - p)
  BY DEF Max2
<1>3. Max2(q - start, start - q) = (IF q > start THEN q - start ELSE start - q)
  BY DEF Max2
<1> QED
  BY <1>1, <1>2, <1>3 DEF Away

(* Where the search starts, and where it goes, are places. *)
LEMMA StartPosType ==
  ASSUME NEW img \in Seq(ImageLines), NEW h \in PatchHunk
  PROVE  StartPos(img, h) \in Nat /\ Candidates(img, h) \subseteq Nat
<1>1. Len(img) \in Nat /\ h.new.start \in Nat
  BY HunkNumbers
<1>2. SaturatingSub(h.new.start, 1) \in Nat
  BY <1>1 DEF SaturatingSub, Max2
<1>3. StartPos(img, h) \in Nat
  BY <1>1, <1>2 DEF StartPos, Min2
<1> QED
  BY <1>1, <1>3 DEF Candidates

(* If the hunk fits anywhere the search finds a place where it does, ... *)
LEMMA PlaceFound ==
  ASSUME NEW img \in Seq(ImageLines), NEW h \in PatchHunk, Places(img, h) # {}
  PROVE  FindPosition(img, h) \in Places(img, h)
<1> DEFINE P == Places(img, h)
           start == StartPos(img, h)
           S == {Away(p, start) : p \in P}
<1>1. P \subseteq Nat /\ start \in Nat
  BY StartPosType DEF Places
<1> HIDE DEF P, start
<1>2. S \subseteq Nat /\ S # {}
  BY <1>1, BeforeIsCloser DEF P
<1>3. PICK m \in S : \A y \in S : m <= y
  BY <1>2, LeastNatural
<1>4. PICK p \in P : m = Away(p, start)
  BY <1>3
<1>5. ASSUME NEW q \in P \ {p} PROVE Before(p, q, start)
  <2>1. Away(q, start) \in S
    BY <1>5
  <2>2. Away(p, start) <= Away(q, start) /\ p # q /\ p \in Nat /\ q \in Nat
    BY <1>1, <1>3, <1>4, <1>5, <2>1
  <2> QED
    BY <1>1, <2>2, BeforeIsCloser
<1>6. \E x \in P : \A q \in P \ {x} : Before(x, q, start)
  BY <1>4, <1>5
<1>7. FindPosition(img, h) = CHOOSE x \in P : \A q \in P \ {x} : Before(x, q, start)
  BY DEF FindPosition, P, start
<1>8. FindPosition(img, h) \in P
  BY <1>6, <1>7
<1> QED
  BY <1>8 DEF P

(* ... and if it fits where the search starts, that is the place. *)
LEMMA StartIsFound ==
  ASSUME NEW img \in Seq(ImageLines), NEW h \in PatchHunk,
         Matches(img, h.lines, StartPos(img, h))
  PROVE  Places(img, h) # {} /\ FindPosition(img, h) = StartPos(img, h)
<1> DEFINE P == Places(img, h)
           start == StartPos(img, h)
<1>1. P \subseteq Nat /\ start \in Nat
  BY StartPosType DEF Places
<1>2. start \in P
  BY DEF Places, Candidates
<1> HIDE DEF P, start
<1>3. ASSUME NEW q \in P \ {start} PROVE Before(start, q, start)
  <2>1. q \in Nat /\ q # start
    BY <1>1, <1>3
  <2>2. Away(start, start) <= Away(q, start)
    BY <1>1, <2>1 DEF Away
  <2> QED
    BY <1>1, <2>1, <2>2, BeforeIsCloser
<1>4. ASSUME NEW x \in P, \A q \in P \ {x} : Before(x, q, start) PROVE x = start
  <2> SUFFICES ASSUME x # start PROVE FALSE
    OBVIOUS
  <2>1. Before(x, start, start) /\ x \in Nat
    BY <1>1, <1>2, <1>4
  <2>2. \/ Max2(x - start, start - x) < Max2(start - start, start - start)
        \/ /\ Max2(x - start, start - x) = Max2(start - start, start - start)
           /\ x < start
    BY <2>1 DEF Before
  <2> QED
    BY <1>1, <2>1, <2>2 DEF Max2
<1>5. FindPosition(img, h) = CHOOSE x \in P : \A q \in P \ {x} : Before(x, q, start)
  BY DEF FindPosition, P, start
<1>6. FindPosition(img, h) = start
  BY <1>2, <1>3, <1>4, <1>5
<1> QED
  BY <1>2, <1>6 DEF P, start

-----------------------------------------------------------------------------
(* One hunk is applied *)

(***************************************************************************)
(* Around the place: a before it, w the lines that are matched and z after *)
(* it; n takes the place of w.                                             *)
(***************************************************************************)
Around(img, after, h, a, w, n, z) ==
  /\ a \in Seq(ImageLines) /\ w \in Seq(ImageLines)
  /\ n \in Seq(ImageLines) /\ z \in Seq(ImageLines)
  /\ img = Join(Join(a, w), z) /\ after = Join(Join(a, n), z)
  /\ Marked(w, PreImageOf(h.lines), FALSE)
  /\ Marked(n, PostImageOf(h.lines), TRUE)

(* Splicing a hunk in at a place where it matches. *)
LEMMA SplicedAround ==
  ASSUME NEW img \in Seq(ImageLines), NEW h \in PatchHunk, NEW p \in Places(img, h),
         NEW after, after = Splice(img, h, p)
  PROVE  \E a, w, n, z : Around(img, after, h, a, w, n, z)
<1> DEFINE pre == PreImageOf(h.lines)
           post == PostImageOf(h.lines)
           l == Len(pre)
           a == SubSeq(img, 1, p)
           w == SubSeq(img, p + 1, p + l)
           z == SubSeq(img, p + l + 1, Len(img))
           n == [i \in DOMAIN post |-> ImageLine(post[i], TRUE)]
<1>1. h.lines \in Seq(HunkLine)
  BY HunkNumbers
<1>2. pre \in Seq(Symbol) /\ post \in Seq(Symbol)
  BY <1>1, ImageConcat
<1>3. p \in Nat /\ l \in Nat /\ p + l <= Len(img) /\ Len(img) \in Nat
  <2>1. p \in Nat
    BY StartPosType DEF Places
  <2>2. p + l <= Len(img)
    BY DEF Places, Matches
  <2> QED
    BY <1>2, <2>1, <2>2
<1>4. (\A i \in DOMAIN w : ~w[i].patched) /\ Text(w) = pre
  BY DEF Places, Matches
<1> HIDE DEF pre, post
<1>5. after = Join(Join(a, n), z)
  BY DEF Splice, Join, pre, post
<1> DEFINE q == p + l
<1>6. q \in Nat /\ p <= q /\ q <= Len(img) /\ q - p = l /\ 0 \in Nat /\ 0 <= p /\ p <= Len(img)
      /\ Len(img) <= Len(img)
  BY <1>3
<1> HIDE DEF q, l
<1>7. a \in Seq(ImageLines)
  <2>1. SubSeq(img, 0 + 1, p) \in Seq(ImageLines)
    BY <1>3, <1>6, Piece
  <2> QED
    BY <2>1
<1>8. w \in Seq(ImageLines) /\ Len(w) = l /\ z \in Seq(ImageLines)
  <2>1. SubSeq(img, p + 1, q) \in Seq(ImageLines) /\ Len(SubSeq(img, p + 1, q)) = q - p
    BY <1>3, <1>6, Piece
  <2>2. SubSeq(img, q + 1, Len(img)) \in Seq(ImageLines)
    BY <1>3, <1>6, Piece
  <2> QED
    BY <1>6, <2>1, <2>2 DEF q
<1>9. img = Join(Join(a, w), z)
  <2>1. SubSeq(img, 0 + 1, q) = Join(SubSeq(img, 0 + 1, p), SubSeq(img, p + 1, q))
    <3>1. 0 \in Nat /\ p \in Nat /\ q \in Nat
      BY <1>3, <1>6
    <3>2. 0 <= p /\ p <= q /\ q <= Len(img)
      BY <1>6
    <3> QED
      BY ZenonT(60), <3>1, <3>2, PieceJoin
  <2>2. SubSeq(img, 0 + 1, Len(img)) = Join(SubSeq(img, 0 + 1, q), SubSeq(img, q + 1, Len(img)))
    <3>1. 0 <= q
      BY <1>6
    <3> QED
      BY <1>3, <1>6, <3>1, PieceJoin
  <2>3. SubSeq(img, 1, Len(img)) = img /\ 0 + 1 = 1
    BY WholeSeq
  <2> QED
    BY <2>1, <2>2, <2>3 DEF q
<1>10. Marked(w, pre, FALSE)
  <2>1. Len(w) = Len(pre)
    BY <1>8 DEF l
  <2>2. ASSUME NEW i \in 1..Len(pre) PROVE w[i] = ImageLine(pre[i], FALSE)
    <3> HIDE DEF w
    <3>1. i \in DOMAIN w /\ w[i] \in ImageLines
      BY <1>8, <2>1
    <3>2. w[i].line = pre[i]
      <4>1. pre[i] = Text(w)[i]
        BY <1>4
      <4> QED
        BY <3>1, <4>1 DEF Text
    <3>3. ~w[i].patched
      BY <1>4, <3>1
    <3> DEFINE e == w[i]
    <3> HIDE DEF e
    <3>4. e \in [line : Symbol, patched : BOOLEAN] /\ e.line = pre[i] /\ ~e.patched
      BY <3>1, <3>2, <3>3 DEF e, ImageLines
    <3>5. e = [line |-> e.line, patched |-> e.patched] /\ e.patched \in BOOLEAN
      BY <3>4
    <3>6. e.patched = FALSE
      BY <3>4, <3>5
    <3>7. e = [line |-> pre[i], patched |-> FALSE]
      BY <3>4, <3>5, <3>6
    <3> QED
      BY <3>7 DEF e, ImageLine
  <2> QED
    BY <2>1, <2>2 DEF Marked
<1>11. n \in Seq(ImageLines) /\ Marked(n, post, TRUE)
  <2>1. DOMAIN post = 1..Len(post) /\ Len(post) \in Nat
    BY <1>2
  <2>2. ASSUME NEW i \in 1..Len(post)
        PROVE  n[i] = ImageLine(post[i], TRUE) /\ ImageLine(post[i], TRUE) \in ImageLines
    <3>1. post[i] \in Symbol
      BY <1>2, <2>2
    <3>2. [line |-> post[i], patched |-> TRUE] \in [line : Symbol, patched : BOOLEAN]
      BY <3>1
    <3> QED
      BY <2>1, <3>2 DEF ImageLine, ImageLines
  <2>3. n \in [1..Len(post) -> ImageLines]
    BY <2>1, <2>2
  <2>4. n \in Seq(ImageLines) /\ Len(n) = Len(post)
    BY <2>1, <2>3, RowIsSeq
  <2> QED
    BY <2>2, <2>4 DEF Marked
<1> HIDE DEF a, w, n, z
<1>12. Around(img, after, h, a, w, n, z)
  BY <1>5, <1>7, <1>8, <1>9, <1>10, <1>11 DEF Around, pre, post
<1> QED
  BY <1>12

(* t is s with m put in somewhere. *)
Inserted(s, t, m) ==
  \E a \in Seq(Symbol), z \in Seq(Symbol) : s = Join(a, z) /\ t = Join(Join(a, m), z)

(* So t is longer by the length of m. *)
LEMMA InsertedLen ==
  ASSUME NEW s, NEW t, NEW m \in Seq(Symbol), Inserted(s, t, m)
  PROVE  Len(t) = Len(s) + Len(m) /\ Len(s) \in Nat /\ Len(m) \in Nat
<1>1. PICK a \in Seq(Symbol), z \in Seq(Symbol) : s = Join(a, z) /\ t = Join(Join(a, m), z)
  BY DEF Inserted
<1>2. Len(a) \in Nat /\ Len(z) \in Nat /\ Len(m) \in Nat
  OBVIOUS
<1>3. Len(s) = Len(a) + Len(z)
  BY <1>1, JoinAssociates
<1> DEFINE am == Join(a, m)
<1>4. am \in Seq(Symbol) /\ Len(am) = Len(a) + Len(m)
  BY JoinAssociates
<1> HIDE DEF am
<1>5. Len(t) = Len(am) + Len(z)
  BY <1>1, <1>4, JoinAssociates DEF am
<1> QED
  BY <1>2, <1>3, <1>4, <1>5

(* The new lines of the hunk come in, its old lines go, and that is all. *)
LEMMA AroundParts ==
  ASSUME NEW img, NEW after, NEW h \in PatchHunk, NEW a, NEW w, NEW n, NEW z,
         Around(img, after, h, a, w, n, z)
  PROVE  /\ Inserted(Part(img, TRUE), Part(after, TRUE), PostImageOf(h.lines))
         /\ Inserted(Part(after, FALSE), Part(img, FALSE), PreImageOf(h.lines))
         /\ after \in Seq(ImageLines)
<1> DEFINE pre == PreImageOf(h.lines)
           post == PostImageOf(h.lines)
           aw == Join(a, w)
           an == Join(a, n)
<1>1. /\ a \in Seq(ImageLines) /\ w \in Seq(ImageLines)
      /\ n \in Seq(ImageLines) /\ z \in Seq(ImageLines)
      /\ img = Join(aw, z) /\ after = Join(an, z)
      /\ Marked(w, pre, FALSE) /\ Marked(n, post, TRUE)
  BY DEF Around
<1>2. pre \in Seq(Symbol) /\ post \in Seq(Symbol)
  <2>1. h.lines \in Seq(HunkLine)
    BY HunkNumbers
  <2> QED
    BY <2>1, ImageConcat
<1> HIDE DEF pre, post
<1>3. Part(w, FALSE) = pre /\ Part(w, TRUE) = <<>>
  BY <1>1, <1>2, MarkedParts
<1>4. Part(n, TRUE) = post /\ Part(n, FALSE) = <<>>
  BY <1>1, <1>2, MarkedParts
<1>5. aw \in Seq(ImageLines) /\ an \in Seq(ImageLines)
  BY <1>1, JoinAssociates
<1>6. after \in Seq(ImageLines)
  BY <1>1, <1>5, JoinAssociates
<1>7. ASSUME NEW flag PROVE Part(aw, flag) = Join(Part(a, flag), Part(w, flag))
  BY <1>1, PartConcat
<1>8. ASSUME NEW flag PROVE Part(an, flag) = Join(Part(a, flag), Part(n, flag))
  BY <1>1, PartConcat
<1> HIDE DEF aw, an
<1>9. ASSUME NEW flag PROVE Part(img, flag) = Join(Join(Part(a, flag), Part(w, flag)), Part(z, flag))
  BY <1>1, <1>5, <1>7, PartConcat
<1>10. ASSUME NEW flag PROVE Part(after, flag) = Join(Join(Part(a, flag), Part(n, flag)), Part(z, flag))
  BY <1>1, <1>5, <1>8, PartConcat
<1>11. ASSUME NEW flag
       PROVE  /\ Part(a, flag) \in Seq(Symbol) /\ Part(z, flag) \in Seq(Symbol)
              /\ Join(Part(a, flag), <<>>) = Part(a, flag)
  <2>1. Part(a, flag) \in Seq(Symbol) /\ Part(z, flag) \in Seq(Symbol)
    BY <1>1, PartIsRow
  <2> DEFINE q == Part(a, flag)
  <2> HIDE DEF q
  <2>2. q \o <<>> = q
    BY <2>1, WholeSeq DEF q
  <2> QED
    BY <2>1, <2>2 DEF q, Join
<1>12. Inserted(Part(img, TRUE), Part(after, TRUE), post)
  <2>1. Part(img, TRUE) = Join(Part(a, TRUE), Part(z, TRUE))
    BY <1>3, <1>9, <1>11
  <2>2. Part(after, TRUE) = Join(Join(Part(a, TRUE), post), Part(z, TRUE))
    BY <1>4, <1>10
  <2> QED
    BY <1>11, <2>1, <2>2 DEF Inserted
<1>13. Inserted(Part(after, FALSE), Part(img, FALSE), pre)
  <2>1. Part(after, FALSE) = Join(Part(a, FALSE), Part(z, FALSE))
    BY <1>4, <1>10, <1>11
  <2>2. Part(img, FALSE) = Join(Join(Part(a, FALSE), pre), Part(z, FALSE))
    BY <1>3, <1>9
  <2> QED
    BY <1>11, <2>1, <2>2 DEF Inserted
<1> QED
  BY <1>6, <1>12, <1>13 DEF pre, post

(* What ApplyHunk does to the image. *)
LEMMA HunkApplied ==
  ASSUME NEW img \in Seq(ImageLines), NEW h \in PatchHunk, Places(img, h) # {},
         NEW after, after = Splice(img, h, FindPosition(img, h))
  PROVE  /\ Inserted(Part(img, TRUE), Part(after, TRUE), PostImageOf(h.lines))
         /\ Inserted(Part(after, FALSE), Part(img, FALSE), PreImageOf(h.lines))
         /\ after \in Seq(ImageLines)
<1> DEFINE p == FindPosition(img, h)
<1>1. p \in Places(img, h) /\ after = Splice(img, h, p)
  BY PlaceFound
<1> HIDE DEF p
<1>2. PICK a, w, n, z : Around(img, after, h, a, w, n, z)
  BY <1>1, SplicedAround
<1> QED
  BY <1>2, AroundParts

-----------------------------------------------------------------------------
(* A patch on the text it was made from *)

(***************************************************************************)
(* The image on its way from s to t: up to y it says what t says, and from *)
(* there on it is what s has from x on, not touched yet.                   *)
(***************************************************************************)
Placed(img, s, t, x, y) ==
  /\ x \in Nat /\ y \in Nat /\ x <= Len(s) /\ y <= Len(t)
  /\ Len(img) = y + (Len(s) - x)
  /\ \A i \in 1..y : img[i].line = t[i]
  /\ \A i \in 1..Len(s) - x : img[y + i] = ImageLine(s[x + i], FALSE)

(* Over lines that are equal in both texts the place can be moved on. *)
LEMMA PlacedGap ==
  ASSUME NEW s \in Seq(Symbol), NEW t \in Seq(Symbol), NEW img, NEW x, NEW y, NEW u, NEW v,
         Placed(img, s, t, x, y), Gap(s, t, x, y, u, v)
  PROVE  Placed(img, s, t, u, v)
<1>1. /\ x \in Nat /\ y \in Nat /\ u \in Nat /\ v \in Nat
      /\ x <= u /\ y <= v /\ u - x = v - y /\ u <= Len(s) /\ v <= Len(t)
      /\ \A j \in 1..u - x : s[x + j] = t[y + j]
  BY DEF Gap
<1>2. /\ Len(img) = y + (Len(s) - x)
      /\ \A i \in 1..y : img[i].line = t[i]
      /\ \A i \in 1..Len(s) - x : img[y + i] = ImageLine(s[x + i], FALSE)
  BY DEF Placed
<1> DEFINE n == Len(s)
<1>3. n \in Nat
  OBVIOUS
<1>4. Len(img) = v + (n - u)
  BY <1>1, <1>2, <1>3
<1>5. ASSUME NEW i \in 1..v PROVE img[i].line = t[i]
  <2>1. CASE i <= y
    BY <1>1, <1>2, <2>1
  <2>2. CASE i > y
    <3> DEFINE j == i - y
    <3>1. j \in 1..u - x /\ j \in 1..n - x /\ y + j = i
      BY <1>1, <1>3, <2>2
    <3> HIDE DEF j
    <3>2. img[y + j] = ImageLine(s[x + j], FALSE) /\ s[x + j] = t[y + j]
      BY <1>1, <1>2, <3>1
    <3>3. img[y + j].line = s[x + j]
      BY <3>2 DEF ImageLine
    <3> QED
      BY <3>1, <3>2, <3>3
  <2> QED
    BY <1>1, <2>1, <2>2
<1>6. ASSUME NEW i \in 1..n - u PROVE img[v + i] = ImageLine(s[u + i], FALSE)
  <2> DEFINE j == (u - x) + i
  <2>1. j \in 1..n - x /\ y + j = v + i /\ x + j = u + i
    BY <1>1, <1>3
  <2> HIDE DEF j
  <2>2. img[y + j] = ImageLine(s[x + j], FALSE)
    BY <1>2, <2>1
  <2> QED
    BY <2>1, <2>2
<1> QED
  BY <1>1, <1>4, <1>5, <1>6 DEF Placed

(* At the end the image says t. *)
LEMMA PlacedAtEnd ==
  ASSUME NEW s \in Seq(Symbol), NEW t \in Seq(Symbol), NEW img \in Seq(ImageLines),
         Placed(img, s, t, Len(s), Len(t))
  PROVE  Text(img) = t
<1>1. Len(s) \in Nat /\ Len(t) \in Nat /\ Len(img) = Len(t) + (Len(s) - Len(s))
      /\ \A i \in 1..Len(t) : img[i].line = t[i]
  BY DEF Placed
<1>2. Len(img) = Len(t) /\ DOMAIN img = 1..Len(t)
  BY <1>1
<1>3. Text(img) = [i \in 1..Len(t) |-> t[i]]
  BY <1>1, <1>2 DEF Text
<1> QED
  BY <1>3

(* Where the search for a hunk starts: the line its new range names. *)
LEMMA StartsWhereItSays ==
  ASSUME NEW s \in Seq(Symbol), NEW t \in Seq(Symbol), NEW img, NEW h,
         Tells(s, t, h), InPlace(h), Placed(img, s, t, OldFrom(h), NewFrom(h))
  PROVE  StartPos(img, h) = NewFrom(h)
<1> DEFINE b == h.new.start
           v == NewFrom(h)
           u == OldFrom(h)
           n == Len(s)
           l == Len(img)
<1>1. h \in PatchHunk /\ v \in Nat
  BY DEF Tells, Says
<1>2. b \in Nat /\ h.new.len \in Nat
  BY <1>1, HunkNumbers
<1>3. l = v + (n - u) /\ u \in Nat /\ u <= n /\ n \in Nat
  BY DEF Placed
<1>4. v = (IF h.new.len > 0 THEN b - 1 ELSE b)
  BY DEF NewFrom, FirstLine
<1>5. h.new.len = 0 => v = 0
  BY DEF InPlace
<1>6. SaturatingSub(b, 1) = IF b > 1 THEN b - 1 ELSE 0
  BY <1>2 DEF SaturatingSub, Max2
<1> DEFINE c == SaturatingSub(b, 1)
<1> HIDE DEF b, v, u, n, l, c
<1>7. c = v
  BY <1>1, <1>2, <1>4, <1>5, <1>6 DEF c
<1>8. v <= l /\ l \in Nat
  BY <1>1, <1>3
<1>9. Min2(c, l) = v
  BY <1>1, <1>7, <1>8 DEF Min2
<1> QED
  BY <1>9 DEF StartPos, b, v, l, c

(* There its lines stand: ... *)
LEMMA MatchesWhereItSays ==
  ASSUME NEW s \in Seq(Symbol), NEW t \in Seq(Symbol), NEW img \in Seq(ImageLines), NEW lines,
         NEW u, NEW v, NEW p, NEW q,
         Says(s, t, lines, u, v, p, q), Placed(img, s, t, u, v)
  PROVE  Matches(img, lines, v) /\ Len(PreImageOf(lines)) = p - u
<1> DEFINE pre == PreImageOf(lines)
           k == p - u
           w == SubSeq(img, v + 1, v + k)
<1>1. /\ u \in Nat /\ v \in Nat /\ p \in Nat /\ u <= p /\ p <= Len(s) /\ Len(s) \in Nat
      /\ pre = SubSeq(s, u + 1, p)
  BY DEF Says
<1>2. pre \in Seq(Symbol) /\ Len(pre) = k /\ pre = [i \in 1..k |-> s[u + i]]
  BY <1>1, Piece
<1> HIDE DEF pre
<1>3. Len(img) = v + (Len(s) - u) /\ \A i \in 1..Len(s) - u : img[v + i] = ImageLine(s[u + i], FALSE)
  BY DEF Placed
<1>4. k \in Nat /\ v + k \in Nat /\ v <= v + k /\ v + k <= Len(img) /\ (v + k) - v = k
  BY <1>1, <1>3
<1> DEFINE e == v + k
<1> HIDE DEF k
<1>5. SubSeq(img, v + 1, e) = [i \in 1..e - v |-> img[v + i]]
  <2>1. e \in Nat /\ v <= e /\ e <= Len(img)
    BY <1>4
  <2> HIDE DEF e
  <2> QED
    BY <1>1, <2>1, Piece
<1>6. w = [i \in 1..k |-> img[v + i]]
  BY <1>4, <1>5
<1>7. ASSUME NEW i \in 1..k PROVE img[v + i] = ImageLine(s[u + i], FALSE)
  <2>1. i \in 1..Len(s) - u
    BY <1>1 DEF k
  <2> QED
    BY <1>3, <2>1
<1>8. w = [i \in 1..k |-> ImageLine(s[u + i], FALSE)]
  BY <1>6, <1>7
<1> HIDE DEF w
<1>9. \A i \in DOMAIN w : ~w[i].patched
  BY <1>8 DEF ImageLine
<1>10. Text(w) = pre
  <2>1. DOMAIN w = 1..k /\ \A i \in 1..k : w[i].line = s[u + i]
    BY <1>8 DEF ImageLine
  <2>2. Text(w) = [i \in 1..k |-> s[u + i]]
    BY <2>1 DEF Text
  <2> QED
    BY <1>2, <2>2
<1>11. v + Len(pre) <= Len(img)
  BY <1>2, <1>4
<1>12. w = SubSeq(img, v + 1, v + Len(pre))
  BY <1>2 DEF w
<1>13. Matches(img, lines, v)
  BY <1>9, <1>10, <1>11, <1>12 DEF Matches, pre
<1> QED
  BY <1>2, <1>13 DEF pre, k

(* ... and putting the new lines there leads on to the hunk's end. *)
LEMMA SplicePlaced ==
  ASSUME NEW s \in Seq(Symbol), NEW t \in Seq(Symbol), NEW img \in Seq(ImageLines), NEW h,
         NEW u, NEW v, NEW p, NEW q,
         Says(s, t, h.lines, u, v, p, q), Placed(img, s, t, u, v),
         NEW after, after = Splice(img, h, v)
  PROVE  Placed(after, s, t, p, q)
<1> DEFINE pre == PreImageOf(h.lines)
           post == PostImageOf(h.lines)
           k == p - u
           m == q - v
           a == SubSeq(img, 1, v)
           n == [i \in DOMAIN post |-> ImageLine(post[i], TRUE)]
           z == SubSeq(img, v + Len(pre) + 1, Len(img))
           an == Join(a, n)
<1>1. /\ u \in Nat /\ v \in Nat /\ p \in Nat /\ q \in Nat
      /\ u <= p /\ v <= q /\ p <= Len(s) /\ q <= Len(t) /\ Len(s) \in Nat /\ Len(t) \in Nat
      /\ post = SubSeq(t, v + 1, q)
  BY DEF Says
<1>2. post \in Seq(Symbol) /\ Len(post) = m /\ post = [i \in 1..m |-> t[v + i]]
  BY <1>1, Piece
<1>3. Len(pre) = k
  BY MatchesWhereItSays
<1>4. after = Join(an, z)
  BY DEF Splice, Join
<1> HIDE DEF pre, post
<1>5. /\ Len(img) = v + (Len(s) - u)
      /\ \A i \in 1..v : img[i].line = t[i]
      /\ \A i \in 1..Len(s) - u : img[v + i] = ImageLine(s[u + i], FALSE)
  BY DEF Placed
<1>6. /\ k \in Nat /\ m \in Nat /\ v + k \in Nat /\ v + k <= Len(img) /\ Len(img) \in Nat
      /\ v + m = q /\ u + k = p
  BY <1>1, <1>5
<1> HIDE DEF k, m
<1>7. a \in Seq(ImageLines) /\ Len(a) = v /\ \A i \in 1..v : a[i] = img[i]
  <2>1. 0 \in Nat /\ 0 <= v /\ v <= Len(img)
    BY <1>1, <1>6
  <2> DEFINE b == SubSeq(img, 0 + 1, v)
  <2>2. b \in Seq(ImageLines) /\ Len(b) = v - 0 /\ b = [i \in 1..v - 0 |-> img[0 + i]]
    BY <1>1, <2>1, Piece
  <2>3. b = a
    OBVIOUS
  <2> HIDE DEF a, b
  <2>4. \A i \in 1..v : i \in 1..v - 0 /\ 0 + i = i
    BY <1>1
  <2> QED
    BY <1>1, <2>2, <2>3, <2>4
<1>8. n \in Seq(ImageLines) /\ Len(n) = m /\ \A i \in 1..m : n[i].line = t[v + i]
  <2>1. DOMAIN post = 1..m
    BY <1>2
  <2>2. ASSUME NEW i \in 1..m
        PROVE  ImageLine(post[i], TRUE) \in ImageLines /\ ImageLine(post[i], TRUE).line = t[v + i]
    <3>1. post[i] \in Symbol /\ post[i] = t[v + i]
      <4>1. i \in DOMAIN post
        BY <2>1
      <4>2. post[i] \in Symbol
        <5>1. post \in Seq(Symbol)
          BY <1>2
        <5> QED
          BY <4>1, <5>1
      <4>3. post[i] = t[v + i]
        BY <1>2
      <4> QED
        BY <4>2, <4>3
    <3>2. [line |-> post[i], patched |-> TRUE] \in [line : Symbol, patched : BOOLEAN]
      BY <3>1
    <3> QED
      BY <3>1, <3>2 DEF ImageLine, ImageLines
  <2>3. n \in [1..m -> ImageLines] /\ \A i \in 1..m : n[i] = ImageLine(post[i], TRUE)
    BY <2>1, <2>2
  <2> HIDE DEF n
  <2>4. n \in Seq(ImageLines) /\ Len(n) = m
    BY <1>6, <2>3, RowIsSeq
  <2> QED
    BY <2>2, <2>3, <2>4
<1>9. /\ z \in Seq(ImageLines) /\ Len(z) = Len(s) - p
      /\ \A i \in 1..Len(s) - p : z[i] = ImageLine(s[p + i], FALSE)
  <2> DEFINE c == v + k
             e == SubSeq(img, c + 1, Len(img))
  <2>1. c \in Nat /\ c <= Len(img) /\ Len(img) <= Len(img) /\ Len(img) - c = Len(s) - p
    BY <1>1, <1>5, <1>6
  <2> HIDE DEF c
  <2>2. e \in Seq(ImageLines) /\ Len(e) = Len(img) - c /\ e = [i \in 1..Len(img) - c |-> img[c + i]]
    BY <1>6, <2>1, Piece
  <2>3. z = e
    BY <1>3 DEF c
  <2> HIDE DEF e, z
  <2>4. ASSUME NEW i \in 1..Len(s) - p PROVE z[i] = ImageLine(s[p + i], FALSE)
    <3> DEFINE j == k + i
    <3>1. j \in 1..Len(s) - u /\ v + j = c + i /\ u + j = p + i
      BY <1>1, <1>6 DEF c
    <3> HIDE DEF j
    <3>2. img[v + j] = ImageLine(s[u + j], FALSE)
      BY <1>5, <3>1
    <3>3. e[i] = img[c + i]
      BY <2>1, <2>2
    <3> QED
      BY <2>3, <3>1, <3>2, <3>3
  <2> QED
    BY <2>1, <2>2, <2>3, <2>4
<1> HIDE DEF a, n, z
<1>10. an \in Seq(ImageLines) /\ Joined(an, a, n)
  BY <1>7, <1>8, JoinElements
<1> HIDE DEF an
<1>11. Joined(after, an, z)
  BY <1>4, <1>9, <1>10, JoinElements
<1>12. /\ Len(an) = q /\ \A i \in 1..v : an[i] = img[i]
       /\ \A i \in 1..m : an[v + i] = n[i]
  BY <1>6, <1>7, <1>8, <1>10 DEF Joined
<1>13. /\ Len(after) = q + (Len(s) - p) /\ \A i \in 1..q : after[i] = an[i]
       /\ \A i \in 1..Len(s) - p : after[q + i] = z[i]
  BY <1>9, <1>11, <1>12 DEF Joined
<1>14. ASSUME NEW i \in 1..q PROVE after[i].line = t[i]
  <2>1. CASE i <= v
    <3>1. i \in 1..v
      BY <1>1, <2>1
    <3>2. after[i] = img[i] /\ img[i].line = t[i]
      BY <1>5, <1>12, <1>13, <3>1
    <3> QED
      BY <3>2
  <2>2. CASE i > v
    <3> DEFINE j == i - v
    <3>1. j \in 1..m /\ v + j = i
      BY <1>1, <1>6, <2>2
    <3> HIDE DEF j
    <3>2. an[v + j] = n[j] /\ n[j].line = t[v + j] /\ after[i] = an[i]
      BY <1>8, <1>12, <1>13, <3>1
    <3> QED
      BY <3>1, <3>2
  <2> QED
    BY <1>1, <2>1, <2>2
<1>15. \A i \in 1..Len(s) - p : after[q + i] = ImageLine(s[p + i], FALSE)
  BY <1>9, <1>13
<1> QED
  BY <1>1, <1>13, <1>14, <1>15 DEF Placed

(***************************************************************************)
(* All in all: if the image is on its way up to the hunk before, the hunk  *)
(* is found where the search starts and the image is on its way up to it.  *)
(***************************************************************************)
LEMMA HunkPlaced ==
  ASSUME NEW s \in Seq(Symbol), NEW t \in Seq(Symbol), NEW img \in Seq(ImageLines), NEW h,
         NEW x, NEW y, Tells(s, t, h), InPlace(h), Gap(s, t, x, y, OldFrom(h), NewFrom(h)),
         Placed(img, s, t, x, y)
  PROVE  /\ Matches(img, h.lines, StartPos(img, h))
         /\ Places(img, h) # {}
         /\ Placed(Splice(img, h, FindPosition(img, h)), s, t, OldTo(h), NewTo(h))
<1> DEFINE u == OldFrom(h)
           v == NewFrom(h)
           p == OldTo(h)
           q == NewTo(h)
<1>1. h \in PatchHunk /\ Says(s, t, h.lines, u, v, p, q)
  BY DEF Tells
<1>2. Placed(img, s, t, u, v)
  BY PlacedGap
<1>3. StartPos(img, h) = v
  BY <1>2, StartsWhereItSays
<1> HIDE DEF u, v, p, q
<1>4. Matches(img, h.lines, v)
  BY <1>1, <1>2, MatchesWhereItSays
<1>5. Matches(img, h.lines, StartPos(img, h))
  BY <1>3, <1>4
<1>6. Places(img, h) # {} /\ FindPosition(img, h) = v
  BY <1>1, <1>3, <1>5, StartIsFound
<1> DEFINE after == Splice(img, h, v)
<1>7. Placed(after, s, t, p, q)
  <2>1. after = Splice(img, h, v)
    OBVIOUS
  <2> HIDE DEF after
  <2> QED
    BY <1>1, <1>2, <2>1, SplicePlaced
<1> QED
  BY <1>5, <1>6, <1>7 DEF p, q

-----------------------------------------------------------------------------
(* The inductive invariant *)

OldCounts(hs) == [i \in DOMAIN hs |-> OldCount(hs[i].lines)]
NewCounts(hs) == [i \in DOMAIN hs |-> NewCount(hs[i].lines)]

(* What the first k hunks of hs have made of an image of b. *)
Counted(img, b, hs, k) ==
  /\ Len(Part(img, TRUE)) = SumUpTo(NewCounts(hs), k)
  /\ Len(Part(img, FALSE)) = Len(b) - SumUpTo(OldCounts(hs), k)

(* apply() on any patch *)
AppInv ==
  /\ result \in {"idle", "applying", "ok", "error"}
  /\ result = "idle" => next = 1
  /\ result # "idle" =>
       /\ base \in Seq(Symbol) /\ patch \in Seq(PatchHunk) /\ image \in Seq(ImageLines)
       /\ next \in 1..Len(patch) + 1
       /\ result = "ok" => next = Len(patch) + 1
       /\ Counted(image, base, patch, next - 1)

From == IF reversed THEN new ELSE old
To == IF reversed THEN old ELSE new

(* A patch for s and t that was made with context. *)
ContextPatch(s, t, hs) == GoodPatch(s, t, hs) /\ \A i \in 1..Len(hs) : InPlace(hs[i])

(* apply() on the patch that to_hunks made *)
MadeInv ==
  contextLen > 0 /\ result # "idle" =>
    /\ result # "error"
    /\ ContextPatch(From, To, patch)
    /\ Placed(image, From, To, LastOld(patch, next - 1), LastNew(patch, next - 1))

RTInv == HInv /\ reversed \in BOOLEAN /\ AppInv /\ MadeInv

-----------------------------------------------------------------------------
(* apply() begins *)

(* The image apply() starts with has no patched line. *)
LEMMA UnpatchedImage ==
  ASSUME NEW b \in Seq(Symbol), NEW img, img = Unpatched(b)
  PROVE  img \in Seq(ImageLines) /\ Marked(img, b, FALSE)
<1> DEFINE n == Len(b)
<1>1. DOMAIN b = 1..n /\ n \in Nat
  OBVIOUS
<1>2. ASSUME NEW i \in 1..n PROVE ImageLine(b[i], FALSE) \in ImageLines
  <2>1. b[i] \in Symbol
    BY <1>2
  <2>2. [line |-> b[i], patched |-> FALSE] \in [line : Symbol, patched : BOOLEAN]
    BY <2>1
  <2> QED
    BY <2>2 DEF ImageLine, ImageLines
<1>3. img = [i \in 1..n |-> ImageLine(b[i], FALSE)]
  BY <1>1 DEF Unpatched
<1>4. img \in [1..n -> ImageLines] /\ \A i \in 1..n : img[i] = ImageLine(b[i], FALSE)
  BY <1>2, <1>3
<1>5. img \in Seq(ImageLines) /\ Len(img) = n
  BY <1>1, <1>4, RowIsSeq
<1> QED
  BY <1>4, <1>5 DEF Marked

(* The counts of the hunks are lengths. *)
LEMMA CountsType ==
  ASSUME NEW hs \in Seq(PatchHunk)
  PROVE  /\ OldCounts(hs) \in Seq(Nat) /\ Len(OldCounts(hs)) = Len(hs)
         /\ NewCounts(hs) \in Seq(Nat) /\ Len(NewCounts(hs)) = Len(hs)
<1> DEFINE n == Len(hs)
<1>1. DOMAIN hs = 1..n /\ n \in Nat
  OBVIOUS
<1>2. ASSUME NEW i \in 1..n PROVE OldCount(hs[i].lines) \in Nat /\ NewCount(hs[i].lines) \in Nat
  <2>1. hs[i].lines \in Seq(HunkLine)
    BY HunkNumbers
  <2> DEFINE pre == PreImageOf(hs[i].lines)
             post == PostImageOf(hs[i].lines)
  <2>2. pre \in Seq(Symbol) /\ post \in Seq(Symbol)
    BY <2>1, ImageConcat
  <2> HIDE DEF pre, post
  <2>3. Len(pre) \in Nat /\ Len(post) \in Nat
    BY <2>2
  <2> QED
    BY <2>3 DEF OldCount, NewCount, pre, post
<1>3. OldCounts(hs) \in [1..n -> Nat] /\ NewCounts(hs) \in [1..n -> Nat]
  BY <1>1, <1>2 DEF OldCounts, NewCounts
<1> QED
  BY <1>1, <1>3, RowIsSeq

(* Before the first hunk nothing has been put in or taken out, ... *)
LEMMA CountedAtFirst ==
  ASSUME NEW b \in Seq(Symbol), NEW img, img = Unpatched(b), NEW hs
  PROVE  Counted(img, b, hs, 0)
<1>1. img \in Seq(ImageLines) /\ Marked(img, b, FALSE)
  BY UnpatchedImage
<1>2. Part(img, FALSE) = b /\ Part(img, TRUE) = <<>>
  BY <1>1, MarkedParts
<1>3. SumUpTo(NewCounts(hs), 0) = 0 /\ SumUpTo(OldCounts(hs), 0) = 0
  BY SumUpToRecurrence
<1>4. Len(<<>>) = 0 /\ Len(b) \in Nat /\ Len(b) - 0 = Len(b)
  OBVIOUS
<1> QED
  BY <1>2, <1>3, <1>4 DEF Counted

(* ... and all of s is ahead. *)
LEMMA PlacedAtFirst ==
  ASSUME NEW s \in Seq(Symbol), NEW t \in Seq(Symbol), NEW img, img = Unpatched(s)
  PROVE  Placed(img, s, t, 0, 0)
<1>1. Len(img) = Len(s) /\ \A i \in 1..Len(s) : img[i] = ImageLine(s[i], FALSE)
  BY UnpatchedImage DEF Marked
<1>2. Len(s) \in Nat /\ Len(t) \in Nat
  OBVIOUS
<1>3. 0 <= Len(s) /\ 0 <= Len(t) /\ Len(img) = 0 + (Len(s) - 0)
  BY <1>1, <1>2
<1>4. ASSUME NEW i \in 1..Len(s) - 0 PROVE img[0 + i] = ImageLine(s[0 + i], FALSE)
  <2>1. i \in 1..Len(s) /\ 0 + i = i
    BY <1>2
  <2> QED
    BY <1>1, <2>1
<1>5. \A i \in 1..0 : img[i].line = t[i]
  OBVIOUS
<1> QED
  BY <1>3, <1>4, <1>5 DEF Placed

(* Reversed, a patch made with context is one. *)
LEMMA ContextPatchTurned ==
  ASSUME NEW s, NEW t, NEW hs, ContextPatch(s, t, hs), NEW back, back = ReversePatch(hs)
  PROVE  ContextPatch(t, s, back)
<1>1. GoodPatch(s, t, hs)
  BY DEF ContextPatch
<1>2. GoodPatch(t, s, back) /\ Len(back) = Len(hs)
  BY <1>1, PatchTurned
<1>3. hs \in Seq(PatchHunk) /\ DOMAIN hs = 1..Len(hs) /\ \A i \in 1..Len(hs) : Tells(s, t, hs[i])
  BY <1>1 DEF GoodPatch, HunkChain, Comes
<1>4. ASSUME NEW i \in 1..Len(hs) PROVE InPlace(back[i])
  <2>1. back[i] = ReverseHunk(hs[i])
    BY <1>3 DEF ReversePatch
  <2>2. Turned(back[i], hs[i])
    BY <1>3, <2>1, TellsTurned
  <2>3. InPlace(hs[i])
    BY DEF ContextPatch
  <2> QED
    BY <2>2, <2>3 DEF Turned, InPlace
<1> QED
  BY <1>2, <1>4 DEF ContextPatch

-----------------------------------------------------------------------------
(* The steps *)

(* to_hunks has nothing to do with a patch that is given. *)
LEMMA GivenHInv ==
  ASSUME GivenPatch
  PROVE  HInv
<1>1. /\ old = <<>> /\ new = <<>> /\ contextLen = 0 /\ step = "done" /\ script = <<>> /\ idx = 1
      /\ hunk = NoHunk /\ hunks = <<>>
  BY DEF GivenPatch
<1>2. Len(<<>>) = 0 /\ <<>> \in Seq(Symbol) /\ <<>> \in Seq(Edits)
  OBVIOUS
<1>3. Gap(old, new, 0, 0, 0, 0)
  BY <1>1, <1>2 DEF Gap
<1>4. HunkChain(old, new, hunks) /\ ClosedOld = 0 /\ ClosedNew = 0 /\ Len(hunks) = 0
  BY <1>1, <1>2, NoHunksChain DEF ClosedOld, ClosedNew
<1>5. TextsInv /\ ClosedInv
  BY <1>1, <1>2, <1>4 DEF TextsInv, ClosedInv
<1>6. ScriptInv
  <2>1. Len(script) = 0 /\ OldEnd(script, 0) = 0 /\ NewEnd(script, 0) = 0
    BY <1>1, <1>2 DEF OldEnd, NewEnd
  <2>2. Chained(old, new, script)
    BY <1>1, <1>2 DEF Chained
  <2>3. GoodScript(old, new, script)
    BY <1>1, <1>2, <1>3, <2>1, <2>2 DEF GoodScript
  <2> QED
    BY <1>1, <2>1, <2>3 DEF ScriptInv
<1>7. BetweenInv
  <2>1. OldStart(old, script, idx) = 0 /\ NewStart(new, script, idx) = 0
    BY <1>1, <1>2 DEF OldStart, NewStart
  <2> QED
    BY <1>1, <1>2, <1>3, <1>4, <2>1 DEF BetweenInv
<1>8. StartInv /\ OpenInv
  BY <1>1 DEF StartInv, OpenInv
<1> QED
  BY <1>1, <1>5, <1>6, <1>7, <1>8 DEF HInv

(* With a patch to be made apply() is idle; with one that is given it
   starts from its base. *)
LEMMA RTInitInv == RTInit => RTInv
<1>1. CASE MadePatch
  <2>1. HInv
    BY <1>1, InitHInv DEF MadePatch
  <2>2. reversed \in BOOLEAN /\ result = "idle" /\ next = 1
    BY <1>1, DirectionsAssumption DEF MadePatch
  <2> QED
    BY <2>1, <2>2 DEF RTInv, AppInv, MadeInv
<1>2. CASE GivenPatch
  <2>1. HInv
    BY <1>2, GivenHInv
  <2>2. reversed \in BOOLEAN /\ contextLen = 0 /\ ApplyInit
    BY <1>2 DEF GivenPatch
  <2>3. /\ base \in Seq(Symbol) /\ patch \in Seq(PatchHunk)
        /\ image = Unpatched(base) /\ next = 1 /\ result = "applying"
    BY <2>2, ApplyAssumption DEF ApplyInit
  <2>4. image \in Seq(ImageLines) /\ Counted(image, base, patch, 0)
    BY <2>3, UnpatchedImage, CountedAtFirst
  <2>5. next \in 1..Len(patch) + 1 /\ next - 1 = 0
    <3>1. Len(patch) \in Nat
      BY <2>3
    <3> QED
      BY <2>3, <3>1
  <2>6. AppInv
    BY <2>3, <2>4, <2>5 DEF AppInv
  <2>7. MadeInv
    BY <2>2 DEF MadeInv
  <2> QED
    BY <2>1, <2>2, <2>6, <2>7 DEF RTInv
<1> QED
  BY <1>1, <1>2 DEF RTInit

(* apply() does not run, and the texts stay. *)
LEMMA MakePatchInv ==
  ASSUME RTInv, MakePatch
  PROVE  RTInv'
<1>1. Next /\ UNCHANGED <<reversed, avars>>
  BY DEF MakePatch
<1>2. HInv'
  BY <1>1, NextHInv DEF RTInv
<1>3. UNCHANGED <<old, new, contextLen>>
  BY <1>1 DEF Next, MakeScript, OpenHunk, MergeEdit, CloseHunk, ReturnHunks, given
<1>4. UNCHANGED <<reversed, base, patch, image, next, result>>
  BY <1>1 DEF avars
<1>5. AppInv'
  BY <1>4 DEF RTInv, AppInv
<1>6. From' = From /\ To' = To
  BY <1>3, <1>4 DEF From, To
<1>7. MadeInv'
  BY <1>3, <1>4, <1>6 DEF RTInv, MadeInv
<1> QED
  BY <1>2, <1>4, <1>5, <1>7 DEF RTInv

(* What to_hunks has returned is a good patch, and so is its reverse. *)
LEMMA StartApplyInv ==
  ASSUME RTInv, StartApply
  PROVE  RTInv'
<1>1. /\ step = "done" /\ result = "idle"
      /\ patch' = (IF reversed THEN ReversePatch(hunks) ELSE hunks)
      /\ base' = From /\ image' = Unpatched(base')
      /\ result' = "applying"
      /\ UNCHANGED <<hvars, reversed, next>>
  BY DEF StartApply, From
<1>2. HInv /\ reversed \in BOOLEAN /\ next = 1
  BY <1>1 DEF RTInv, AppInv
<1>3. HInv'
  BY <1>1, <1>2, StutterHInv
<1>4. old \in Seq(Symbol) /\ new \in Seq(Symbol)
  BY <1>2 DEF HInv, TextsInv
<1>5. From \in Seq(Symbol) /\ To \in Seq(Symbol)
  BY <1>4 DEF From, To
<1>6. GoodPatch(old, new, hunks)
  BY <1>1, <1>2, GoodPatchReturned
<1>7. GoodPatch(From, To, patch')
  <2>1. CASE reversed
    BY <1>1, <1>6, <2>1, PatchTurned DEF From, To
  <2>2. CASE ~reversed
    BY <1>1, <1>6, <2>2 DEF From, To
  <2> QED
    BY <2>1, <2>2
<1>8. patch' \in Seq(PatchHunk)
  BY <1>7 DEF GoodPatch, HunkChain
<1>9. image' \in Seq(ImageLines) /\ Counted(image', base', patch', 0)
  BY <1>1, <1>5, UnpatchedImage, CountedAtFirst
<1>10. next' \in 1..Len(patch') + 1 /\ next' - 1 = 0
  <2>1. Len(patch') \in Nat
    BY <1>8
  <2> QED
    BY <1>1, <1>2, <2>1
<1>11. AppInv'
  BY <1>1, <1>5, <1>8, <1>9, <1>10 DEF AppInv
<1>12. From' = From /\ To' = To
  BY <1>1 DEF From, To, hvars
<1>13. MadeInv'
  <2> SUFFICES ASSUME contextLen > 0 PROVE MadeInv'
    BY <1>1 DEF MadeInv, hvars
  <2>1. ContextPatch(old, new, hunks)
    BY <1>2, <1>6 DEF HInv, ClosedInv, ContextPatch
  <2>2. ContextPatch(From, To, patch')
    <3>1. CASE reversed
      BY <1>1, <2>1, <3>1, ContextPatchTurned DEF From, To
    <3>2. CASE ~reversed
      BY <1>1, <2>1, <3>2 DEF From, To
    <3> QED
      BY <3>1, <3>2
  <2>3. Placed(image', From, To, 0, 0)
    BY <1>1, <1>5, PlacedAtFirst
  <2>4. LastOld(patch', next' - 1) = 0 /\ LastNew(patch', next' - 1) = 0
    BY <1>10 DEF LastOld, LastNew
  <2> QED
    BY <1>1, <1>12, <2>2, <2>3, <2>4 DEF MadeInv
<1> QED
  BY <1>1, <1>2, <1>3, <1>11, <1>13 DEF RTInv

(* One more hunk: what it adds and what it takes. *)
LEMMA CountedOneMore ==
  ASSUME NEW img \in Seq(ImageLines), NEW b \in Seq(Symbol), NEW hs \in Seq(PatchHunk),
         NEW k \in 1..Len(hs), Counted(img, b, hs, k - 1), Places(img, hs[k]) # {},
         NEW after, after = Splice(img, hs[k], FindPosition(img, hs[k]))
  PROVE  after \in Seq(ImageLines) /\ Counted(after, b, hs, k)
<1> DEFINE h == hs[k]
           pre == PreImageOf(h.lines)
           post == PostImageOf(h.lines)
<1>1. h \in PatchHunk /\ k \in Nat \ {0} /\ k \in DOMAIN hs
  OBVIOUS
<1>2. pre \in Seq(Symbol) /\ post \in Seq(Symbol)
  <2>1. h.lines \in Seq(HunkLine)
    BY <1>1, HunkNumbers
  <2> QED
    BY <2>1, ImageConcat
<1>3. OldCounts(hs)[k] = Len(pre) /\ NewCounts(hs)[k] = Len(post)
  BY <1>1 DEF OldCounts, NewCounts, OldCount, NewCount
<1> HIDE DEF h
<1>4. /\ Inserted(Part(img, TRUE), Part(after, TRUE), post)
      /\ Inserted(Part(after, FALSE), Part(img, FALSE), pre)
      /\ after \in Seq(ImageLines)
  BY <1>1, HunkApplied DEF h
<1> DEFINE a == Len(Part(img, TRUE))
           c == Len(Part(img, FALSE))
           d == Len(Part(after, TRUE))
           e == Len(Part(after, FALSE))
<1> HIDE DEF pre, post
<1>5. d = a + Len(post) /\ a \in Nat
  BY <1>2, <1>4, InsertedLen
<1>6. c = e + Len(pre) /\ e \in Nat
  BY <1>2, <1>4, InsertedLen
<1>7. /\ SumUpTo(NewCounts(hs), k) = SumUpTo(NewCounts(hs), k - 1) + Len(post)
      /\ SumUpTo(OldCounts(hs), k) = SumUpTo(OldCounts(hs), k - 1) + Len(pre)
  BY <1>1, <1>3, SumUpToRecurrence
<1> DEFINE x == SumUpTo(NewCounts(hs), k - 1)
           y == SumUpTo(OldCounts(hs), k - 1)
<1>8. a = x /\ c = Len(b) - y
  BY DEF Counted
<1>9. Len(pre) \in Nat /\ Len(post) \in Nat /\ Len(b) \in Nat
  BY <1>2
<1>10. y \in Nat
  <2>1. OldCounts(hs) \in Seq(Nat) /\ k - 1 \in 0..Len(OldCounts(hs))
    BY <1>1, CountsType
  <2> QED
    BY <2>1, SumUpToType
<1> HIDE DEF a, c, d, e, x, y
<1>11. SumUpTo(NewCounts(hs), k) = d
  BY <1>5, <1>7, <1>8 DEF x
<1>12. SumUpTo(OldCounts(hs), k) = y + Len(pre)
  BY <1>7 DEF y
<1>13. Len(b) - (y + Len(pre)) = e
  BY <1>6, <1>8, <1>9, <1>10
<1> QED
  BY <1>4, <1>11, <1>12, <1>13 DEF Counted, d, e

(* One hunk more has been counted and, of a patch made with context, put in
   its place. *)
LEMMA ApplyHunkInv ==
  ASSUME RTInv, ApplyHunk, UNCHANGED <<hvars, reversed>>
  PROVE  RTInv'
<1> DEFINE h == patch[next]
<1>1. /\ result = "applying" /\ next <= Len(patch) /\ Places(image, h) # {}
      /\ image' = Splice(image, h, FindPosition(image, h))
      /\ next' = next + 1 /\ UNCHANGED <<base, patch, result>>
  BY DEF ApplyHunk
<1>2. HInv /\ HInv' /\ UNCHANGED <<old, new, contextLen>>
  BY StutterHInv DEF RTInv, hvars
<1>3. /\ base \in Seq(Symbol) /\ patch \in Seq(PatchHunk) /\ image \in Seq(ImageLines)
      /\ next \in 1..Len(patch) + 1 /\ Counted(image, base, patch, next - 1)
  BY <1>1 DEF RTInv, AppInv
<1>4. next \in 1..Len(patch) /\ next' - 1 = next /\ next' \in 1..Len(patch) + 1
  <2>1. Len(patch) \in Nat
    BY <1>3
  <2> QED
    BY <1>1, <1>3, <2>1
<1>5. image' \in Seq(ImageLines) /\ Counted(image', base, patch, next)
  BY <1>1, <1>3, <1>4, CountedOneMore
<1>6. AppInv'
  BY <1>1, <1>3, <1>4, <1>5 DEF AppInv
<1>7. From' = From /\ To' = To
  BY <1>2 DEF From, To
<1>8. MadeInv'
  <2> SUFFICES ASSUME contextLen > 0 PROVE MadeInv'
    BY <1>2 DEF MadeInv
  <2>1. /\ ContextPatch(From, To, patch)
        /\ Placed(image, From, To, LastOld(patch, next - 1), LastNew(patch, next - 1))
    BY <1>1 DEF RTInv, MadeInv
  <2>2. From \in Seq(Symbol) /\ To \in Seq(Symbol)
    BY <1>2 DEF HInv, TextsInv, From, To
  <2> DEFINE x == LastOld(patch, next - 1)
             y == LastNew(patch, next - 1)
  <2>3. Tells(From, To, h) /\ InPlace(h) /\ Gap(From, To, x, y, OldFrom(h), NewFrom(h))
    BY <1>4, <2>1 DEF ContextPatch, GoodPatch, HunkChain, Comes
  <2> HIDE DEF x, y
  <2>4. Placed(image, From, To, x, y)
    BY <2>1 DEF x, y
  <2> HIDE DEF h
  <2>5. Placed(image', From, To, OldTo(h), NewTo(h))
    <3>1. Placed(Splice(image, h, FindPosition(image, h)), From, To, OldTo(h), NewTo(h))
      BY <1>3, <2>2, <2>3, <2>4, HunkPlaced
    <3> QED
      BY <1>1, <3>1
  <2>6. LastOld(patch', next' - 1) = OldTo(h) /\ LastNew(patch', next' - 1) = NewTo(h)
    BY <1>1, <1>4 DEF LastOld, LastNew, h
  <2> QED
    BY <1>1, <1>7, <2>1, <2>5, <2>6 DEF MadeInv
<1> QED
  BY <1>2, <1>6, <1>8 DEF RTInv

(* With context there is always a place. *)
LEMMA NextHunkFits ==
  ASSUME RTInv, contextLen > 0, result = "applying", next <= Len(patch)
  PROVE  /\ Matches(image, patch[next].lines, StartPos(image, patch[next]))
         /\ Places(image, patch[next]) # {}
<1> DEFINE h == patch[next]
           x == LastOld(patch, next - 1)
           y == LastNew(patch, next - 1)
<1>1. /\ patch \in Seq(PatchHunk) /\ image \in Seq(ImageLines) /\ next \in 1..Len(patch) + 1
  BY DEF RTInv, AppInv
<1>2. next \in 1..Len(patch)
  <2>1. Len(patch) \in Nat
    BY <1>1
  <2> QED
    BY <1>1, <2>1
<1>3. ContextPatch(From, To, patch) /\ Placed(image, From, To, x, y)
  BY DEF RTInv, MadeInv
<1>4. From \in Seq(Symbol) /\ To \in Seq(Symbol)
  BY DEF RTInv, HInv, TextsInv, From, To
<1>5. Tells(From, To, h) /\ InPlace(h) /\ Gap(From, To, x, y, OldFrom(h), NewFrom(h))
  BY <1>2, <1>3 DEF ContextPatch, GoodPatch, HunkChain, Comes
<1> HIDE DEF x, y, h
<1>6. Matches(image, h.lines, StartPos(image, h)) /\ Places(image, h) # {}
  BY <1>1, <1>3, <1>4, <1>5, HunkPlaced
<1> QED
  BY <1>6 DEF h

(* No hunk of a patch made with context is ever rejected. *)
LEMMA RejectHunkInv ==
  ASSUME RTInv, RejectHunk, UNCHANGED <<hvars, reversed>>
  PROVE  RTInv'
<1>1. /\ result = "applying" /\ next <= Len(patch) /\ Places(image, patch[next]) = {}
      /\ result' = "error" /\ UNCHANGED <<base, patch, image, next>>
  BY DEF RejectHunk
<1>2. HInv' /\ UNCHANGED <<old, new, contextLen>>
  BY StutterHInv DEF RTInv, hvars
<1>3. AppInv'
  BY <1>1 DEF RTInv, AppInv
<1>4. ~(contextLen > 0)
  BY <1>1, NextHunkFits
<1>5. MadeInv'
  BY <1>2, <1>4 DEF MadeInv
<1> QED
  BY <1>2, <1>3, <1>5 DEF RTInv

(* All hunks have been applied. *)
LEMMA ReturnImageInv ==
  ASSUME RTInv, ReturnImage, UNCHANGED <<hvars, reversed>>
  PROVE  RTInv'
<1>1. /\ result = "applying" /\ next > Len(patch)
      /\ result' = "ok" /\ UNCHANGED <<base, patch, image, next>>
  BY DEF ReturnImage
<1>2. HInv' /\ UNCHANGED <<old, new, contextLen>>
  BY StutterHInv DEF RTInv, hvars
<1>3. next = Len(patch) + 1
  <2>1. Len(patch) \in Nat /\ next \in 1..Len(patch) + 1
    BY <1>1 DEF RTInv, AppInv
  <2> QED
    BY <1>1, <2>1
<1>4. AppInv'
  BY <1>1, <1>3 DEF RTInv, AppInv
<1>5. From' = From /\ To' = To
  BY <1>2 DEF From, To
<1>6. MadeInv'
  BY <1>1, <1>2, <1>5 DEF RTInv, MadeInv
<1> QED
  BY <1>2, <1>4, <1>6 DEF RTInv

(* The invariant speaks of no other variables. *)
LEMMA RTStutterInv ==
  ASSUME RTInv, UNCHANGED rvars
  PROVE  RTInv'
<1>1. UNCHANGED <<hvars, reversed, base, patch, image, next, result>>
  BY DEF rvars, avars
<1>2. HInv' /\ UNCHANGED <<old, new, contextLen>>
  BY <1>1, StutterHInv DEF RTInv, hvars
<1>3. From' = From /\ To' = To
  BY <1>1, <1>2 DEF From, To
<1> QED
  BY <1>1, <1>2, <1>3 DEF RTInv, AppInv, MadeInv

(* Every step keeps the invariant, ... *)
LEMMA RTNextInv ==
  ASSUME RTInv, [RTNext]_rvars
  PROVE  RTInv'
<1>1. CASE MakePatch
  BY <1>1, MakePatchInv
<1>2. CASE StartApply
  BY <1>2, StartApplyInv
<1>3. CASE ApplyHunk /\ UNCHANGED <<hvars, reversed>>
  BY <1>3, ApplyHunkInv
<1>4. CASE RejectHunk /\ UNCHANGED <<hvars, reversed>>
  BY <1>4, RejectHunkInv
<1>5. CASE ReturnImage /\ UNCHANGED <<hvars, reversed>>
  BY <1>5, ReturnImageInv
<1>6. CASE UNCHANGED rvars
  BY <1>6, RTStutterInv
<1> QED
  BY <1>1, <1>2, <1>3, <1>4, <1>5, <1>6 DEF RTNext, ApplyStep, ApplyNext

(* ... so it holds always. *)
LEMMA RTInvHolds == RTSpec => []RTInv
<1>1. RTInit => RTInv
  BY RTInitInv
<1>2. RTInv /\ [RTNext]_rvars => RTInv'
  BY RTNextInv
<1> QED
  BY <1>1, <1>2, PTL DEF RTSpec

-----------------------------------------------------------------------------
(* Lines that are put in leave the others in their order *)

(* Two stretches of numbers, one after the other: how many there are. *)
LEMMA TwoStretches ==
  ASSUME NEW a \in Nat, NEW b \in Nat, NEW c \in Nat, a <= b
  PROVE  /\ IsFiniteSet((1..a) \cup (b + 1..b + c))
         /\ Cardinality((1..a) \cup (b + 1..b + c)) = a + c
<1> DEFINE S == 1..a
           T == b + 1..b + c
<1>1. IsFiniteSet(S) /\ Cardinality(S) = a
  <2>1. IsFiniteSet(1..a) /\ Cardinality(1..a) = IF 1 > a THEN 0 ELSE a - 1 + 1
    BY FS_Interval
  <2> QED
    BY <2>1
<1>2. IsFiniteSet(T) /\ Cardinality(T) = c
  <2> DEFINE x == b + 1
             y == b + c
  <2>1. x \in Int /\ y \in Int
    OBVIOUS
  <2> HIDE DEF x, y
  <2>2. IsFiniteSet(x..y) /\ Cardinality(x..y) = IF x > y THEN 0 ELSE y - x + 1
    BY <2>1, FS_Interval
  <2>3. (IF x > y THEN 0 ELSE y - x + 1) = c
    BY DEF x, y
  <2> QED
    BY <2>2, <2>3 DEF x, y
<1>3. S \cap T = {}
  OBVIOUS
<1> HIDE DEF S, T
<1>4. Cardinality(S \cap T) = 0
  BY <1>3, FS_EmptySet
<1>5. IsFiniteSet(S \cup T) /\ Cardinality(S \cup T) = Cardinality(S) + Cardinality(T) - Cardinality(S \cap T)
  BY <1>1, <1>2, FS_Union
<1>6. Cardinality(S \cup T) = a + c
  BY <1>1, <1>2, <1>4, <1>5
<1> QED
  BY <1>5, <1>6 DEF S, T

(* What was there before is kept, in its order. *)
LEMMA InsertedIsSubsequence ==
  ASSUME NEW s, NEW t, NEW m \in Seq(Symbol), Inserted(s, t, m)
  PROVE  IsSubsequence(s, t)
<1>1. PICK a \in Seq(Symbol), z \in Seq(Symbol) : s = Join(a, z) /\ t = Join(Join(a, m), z)
  BY DEF Inserted
<1> DEFINE am == Join(a, m)
           x == Len(a)
           y == Len(am)
           l == Len(z)
           kept == (1..x) \cup (y + 1..y + l)
<1>2. am \in Seq(Symbol) /\ Joined(am, a, m)
  BY JoinElements
<1>3. s \in Seq(Symbol) /\ Joined(s, a, z)
  BY <1>1, JoinElements
<1> HIDE DEF am
<1>4. t \in Seq(Symbol) /\ Joined(t, am, z)
  BY <1>1, <1>2, JoinElements DEF am
<1>5. /\ x \in Nat /\ y \in Nat /\ l \in Nat /\ x <= y
      /\ Len(s) = x + l /\ Len(t) = y + l
      /\ \A i \in 1..x : s[i] = a[i] /\ am[i] = a[i]
      /\ \A i \in 1..l : s[x + i] = z[i]
      /\ \A i \in 1..y : t[i] = am[i]
      /\ \A i \in 1..l : t[y + i] = z[i]
  BY SMTT(60), <1>2, <1>3, <1>4 DEF Joined
<1>6. DOMAIN t = 1..y + l
  BY <1>4, <1>5
<1> HIDE DEF x, y, l
<1>7. kept \in SUBSET DOMAIN t
  BY <1>5, <1>6
<1>8. Cardinality(kept) = Len(s)
  BY <1>5, TwoStretches
<1>9. ASSUME NEW i \in kept PROVE t[i] = s[Cardinality({j \in kept : j <= i})]
  <2>1. CASE i \in 1..x
    <3>1. {j \in kept : j <= i} = 1..i /\ i \in Nat /\ 1 <= i
      BY <1>5, <2>1
    <3> DEFINE S == {j \in kept : j <= i}
    <3>2. S = 1..i
      BY <3>1
    <3> HIDE DEF S
    <3>3. Cardinality(S) = i
      <4>1. Cardinality(1..i) = IF 1 > i THEN 0 ELSE i - 1 + 1
        BY <3>1, FS_Interval
      <4>2. (IF 1 > i THEN 0 ELSE i - 1 + 1) = i
        BY <3>1
      <4> QED
        BY <3>2, <4>1, <4>2
    <3>4. t[i] = s[i]
      <4>1. i \in 1..y
        BY <1>5, <2>1
      <4> QED
        BY <1>5, <2>1, <4>1
    <3> QED
      BY <3>3, <3>4 DEF S
  <2>2. CASE i \in y + 1..y + l
    <3> DEFINE r == i - y
    <3>1. r \in 1..l /\ r \in Nat /\ i = y + r
      BY <1>5, <2>2
    <3> HIDE DEF r
    <3>2. {j \in kept : j <= i} = (1..x) \cup (y + 1..y + r)
      BY <1>5, <3>1
    <3>3. Cardinality((1..x) \cup (y + 1..y + r)) = x + r
      BY <1>5, <3>1, TwoStretches
    <3>4. t[y + r] = s[x + r]
      BY <1>5, <3>1
    <3> QED
      BY <3>1, <3>2, <3>3, <3>4
  <2> QED
    BY <2>1, <2>2
<1> QED
  BY <1>7, <1>8, <1>9 DEF IsSubsequence

(* Nothing put in: a sequence is a subsequence of itself. *)
LEMMA SubsequenceOfItself ==
  ASSUME NEW s \in Seq(Symbol)
  PROVE  IsSubsequence(s, s)
<1> DEFINE none == <<>>
           twice == Join(s, none)
<1>1. none \in Seq(Symbol) /\ twice = s
  <2>1. s \o <<>> = s
    BY WholeSeq
  <2> QED
    BY <2>1 DEF Join
<1> HIDE DEF none
<1>2. Inserted(s, s, none)
  <2>1. s = Join(s, none) /\ s = Join(Join(s, none), none)
    BY <1>1
  <2> QED
    BY <1>1, <2>1 DEF Inserted
<1> QED
  BY <1>1, <1>2, InsertedIsSubsequence

-----------------------------------------------------------------------------
(***************************************************************************)
(* The results                                                             *)
(***************************************************************************)

(* What the invariant implies, one property after the other. *)
LEMMA RTInvType == RTInv => RTTypeOK
<1> SUFFICES ASSUME RTInv PROVE RTTypeOK
  OBVIOUS
<1>1. TypeOK
  BY HInvType DEF RTInv
<1>2. result # "idle" => ApplyTypeOK
  <2> SUFFICES ASSUME result # "idle" PROVE ApplyTypeOK
    OBVIOUS
  <2>1. /\ base \in Seq(Symbol) /\ image \in Seq(ImageLines) /\ next \in 1..Len(patch) + 1
        /\ result \in {"idle", "applying", "ok", "error"}
    BY DEF RTInv, AppInv
  <2> QED
    BY <2>1 DEF ApplyTypeOK, ImageLines
<1> QED
  BY <1>1, <1>2 DEF RTTypeOK

(* At the end all hunks have been counted. *)
LEMMA RTInvAppliesAll == RTInv => AppliesAll
<1> SUFFICES ASSUME RTInv, result = "ok"
             PROVE  /\ Len(Part(image, TRUE)) = TotalNew
                    /\ Len(Part(image, FALSE)) = Len(base) - TotalOld
  BY DEF AppliesAll
<1>1. next = Len(patch) + 1 /\ Counted(image, base, patch, next - 1) /\ patch \in Seq(PatchHunk)
  BY DEF RTInv, AppInv
<1>2. next - 1 = Len(patch)
  <2>1. Len(patch) \in Nat
    BY <1>1
  <2> QED
    BY <1>1, <2>1
<1> QED
  BY <1>1, <1>2 DEF Counted, TotalOld, TotalNew, OldCounts, NewCounts

(* At the end the image is past the last hunk, after which the texts are
   equal. *)
LEMMA RTInvRecovers == RTInv => RecoversWithContext
<1> SUFFICES ASSUME RTInv, contextLen > 0 PROVE Recovers /\ AppliesInPlace
  BY DEF RecoversWithContext
<1>1. AppliesInPlace
  BY NextHunkFits DEF AppliesInPlace
<1>2. result # "error"
  <2>1. result = "error" => result # "idle"
    OBVIOUS
  <2> QED
    BY <2>1 DEF RTInv, MadeInv
<1>3. ASSUME result = "ok" PROVE Text(image) = To
  <2>1. /\ next = Len(patch) + 1 /\ patch \in Seq(PatchHunk) /\ image \in Seq(ImageLines)
    BY <1>3 DEF RTInv, AppInv
  <2>2. next - 1 = Len(patch)
    <3>1. Len(patch) \in Nat
      BY <2>1
    <3> QED
      BY <2>1, <3>1
  <2> DEFINE x == LastOld(patch, Len(patch))
             y == LastNew(patch, Len(patch))
  <2>3. /\ GoodPatch(From, To, patch)
        /\ Placed(image, From, To, x, y)
    BY <1>3, <2>2 DEF RTInv, MadeInv, ContextPatch
  <2>4. From \in Seq(Symbol) /\ To \in Seq(Symbol)
    BY DEF RTInv, HInv, TextsInv, From, To
  <2>5. Gap(From, To, x, y, Len(From), Len(To))
    BY <2>3 DEF GoodPatch
  <2> HIDE DEF x, y
  <2>6. Placed(image, From, To, Len(From), Len(To))
    <3> DEFINE u == Len(From)
               v == Len(To)
    <3>1. Gap(From, To, x, y, u, v)
      BY <2>5
    <3> HIDE DEF u, v
    <3>2. Placed(image, From, To, u, v)
      BY <2>3, <2>4, <3>1, PlacedGap
    <3> QED
      BY <3>2 DEF u, v
  <2> QED
    BY <2>1, <2>4, <2>6, PlacedAtEnd
<1>4. Recovers
  BY <1>2, <1>3 DEF Recovers, To
<1> QED
  BY <1>1, <1>4

(* Only ApplyHunk changes the image, and it puts lines in among the patched
   ones and takes lines out of the others. *)
LEMMA RTKeeps ==
  ASSUME RTInv, [RTNext]_rvars
  PROVE  [result = "applying" => KeepsPatchedStep]_avars
<1> SUFFICES ASSUME result = "applying", ~(UNCHANGED avars) PROVE KeepsPatchedStep
  OBVIOUS
<1>1. image \in Seq(ImageLines) /\ patch \in Seq(PatchHunk) /\ next \in 1..Len(patch) + 1
  BY DEF RTInv, AppInv
<1>2. Part(image, TRUE) \in Seq(Symbol) /\ Part(image, FALSE) \in Seq(Symbol)
  BY <1>1, PartIsRow
<1>3. ASSUME image' = image PROVE KeepsPatchedStep
  BY <1>2, <1>3, SubsequenceOfItself DEF KeepsPatchedStep
<1>4. ASSUME ApplyHunk PROVE KeepsPatchedStep
  <2> DEFINE h == patch[next]
             pre == PreImageOf(h.lines)
             post == PostImageOf(h.lines)
  <2>1. /\ next <= Len(patch) /\ Places(image, h) # {}
        /\ image' = Splice(image, h, FindPosition(image, h))
    BY <1>4 DEF ApplyHunk
  <2>2. h \in PatchHunk
    <3>1. Len(patch) \in Nat
      BY <1>1
    <3> QED
      BY <1>1, <2>1, <3>1
  <2> HIDE DEF h
  <2>3. pre \in Seq(Symbol) /\ post \in Seq(Symbol)
    <3>1. h.lines \in Seq(HunkLine)
      BY <2>2, HunkNumbers
    <3> QED
      BY <3>1, ImageConcat
  <2>4. /\ Inserted(Part(image, TRUE), Part(image', TRUE), post)
        /\ Inserted(Part(image', FALSE), Part(image, FALSE), pre)
    BY <1>1, <2>1, <2>2, HunkApplied
  <2> HIDE DEF pre, post
  <2> QED
    BY <2>3, <2>4, InsertedIsSubsequence DEF KeepsPatchedStep
<1>5. CASE MakePatch
  BY <1>5 DEF MakePatch
<1>6. CASE StartApply
  BY <1>6 DEF StartApply
<1>7. CASE ApplyStep
  BY <1>3, <1>4, <1>7 DEF ApplyStep, ApplyNext, RejectHunk, ReturnImage
<1>8. CASE UNCHANGED rvars
  BY <1>8 DEF rvars
<1> QED
  BY <1>5, <1>6, <1>7, <1>8 DEF RTNext

(* Every variable of create_patch and of apply() stays in its type. *)
THEOREM RTTypeCorrect == RTSpec => []RTTypeOK
BY RTInvHolds, RTInvType, PTL

(***************************************************************************)
(* A patch that was made with context, of any texts and by any solution    *)
(* that aligns them, recovers the new text from the old one, and reversed  *)
(* the old one from the new: apply() does not fail, and it finds every     *)
(* hunk at the line the hunk names, without a search.                      *)
(***************************************************************************)
THEOREM PatchRecovers == RTSpec => []RecoversWithContext
BY RTInvHolds, RTInvRecovers, PTL

(***************************************************************************)
(* When apply() returns an image, of any text and for any patch, it has    *)
(* put in every new line and taken out every old line of all the hunks.    *)
(***************************************************************************)
THEOREM AllHunksApplied == RTSpec => []AppliesAll
BY RTInvHolds, RTInvAppliesAll, PTL

(***************************************************************************)
(* However far apply() has to look for a place, for any text and any       *)
(* patch: no hunk undoes or reorders what an earlier one has put in, and   *)
(* what is left of the base stays in its order.                            *)
(***************************************************************************)
THEOREM PatchedLinesKept == RTSpec => KeepsPatchedLines
<1>1. RTInv /\ [RTNext]_rvars => [result = "applying" => KeepsPatchedStep]_avars
  BY RTKeeps
<1> QED
  BY <1>1, RTInvHolds, PTL DEF RTSpec, KeepsPatchedLines

=============================================================================
